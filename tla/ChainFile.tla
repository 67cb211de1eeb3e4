----------------------------- MODULE ChainFile -----------------------------
(***************************************************************************)
(* The processes of one user and the file bitvoid.chain that all modes of  *)
(* main.cpp share.  A process runs in one mode: it loads the file or       *)
(* creates a genesis block, adds blocks that it mines or receives, and     *)
(* writes its whole chain back.  Nothing locks the file.                   *)
(*                                                                         *)
(* A block is known by a number.  A chain is the sequence of its blocks;   *)
(* as a block's hash covers its predecessor's, a block stands for all of   *)
(* the chain up to it.  save_to_disk has two steps: the ofstream is opened *)
(* (the file is truncated), and the text is written when it is closed.     *)
(* The threads of one process are the subject of FullNode; here a process  *)
(* does one thing at a time.                                               *)
(***************************************************************************)
EXTENDS Naturals, Sequences, SequencesExt

CONSTANTS
    Procs,          \* processes that may run at the same time
    Modes,          \* the modes in which each of them may be started
    MaxBlocks       \* blocks that are ever created

AllModes == {"run", "mine", "node", "explorer", "status", "wallet"}

ASSUME FileAssumption ==
    /\ Modes \in [Procs -> SUBSET AllModes]
    /\ MaxBlocks \in Nat

VARIABLES
    disk,           \* the file: "none", "torn" or "whole", and its chain
    proc,           \* the processes
    created,        \* number of blocks created so far
    saved,          \* the chain that was written last, as a whole
    announced       \* the blocks that were mined here and sent to peers

vars == <<disk, proc, created, saved, announced>>

Loads      == AllModes \ {"node"}
Mines      == {"run", "mine"}
Listens    == {"run", "node"}
SavesOnEnd == {"run", "mine", "node", "explorer"}

Off == [pc |-> "off", mode |-> "status", chain |-> <<>>, then |-> "off"]

Whole(c) == [state |-> "whole", chain |-> c]
Torn     == [state |-> "torn", chain |-> <<>>]
NoFile   == [state |-> "none", chain |-> <<>>]

Fresh == created + 1

Goto(p, pc) == proc' = [proc EXCEPT ![p].pc = pc]

-----------------------------------------------------------------------------
(* Start.  A torn file does not parse: load_from_disk throws, nothing      *)
(* catches, and the process ends at once without a trace.                  *)

Running(m, c) == [pc |-> "loop", mode |-> m, chain |-> c, then |-> "off"]

\* load_from_disk returns true.
StartLoaded(p) ==
    /\ proc[p].pc = "off"
    /\ disk.state = "whole"
    /\ \E m \in Modes[p] \cap Loads :
         proc' = [proc EXCEPT ![p] = Running(m, disk.chain)]
    /\ UNCHANGED <<disk, created, saved, announced>>

\* Mutant: a file that cannot be read is taken for a missing one.
StartFreshAnyway(p) ==
    /\ proc[p].pc = "off"
    /\ created < MaxBlocks
    /\ \E m \in Modes[p] :
         /\ m \in Loads => disk.state \in {"none", "torn"}
         /\ proc' = [proc EXCEPT ![p] = Running(m, <<Fresh>>)]
    /\ created' = Fresh
    /\ UNCHANGED <<disk, saved, announced>>

\* chain.init(), a genesis block with the present time: when there is no file
\* to load, and always in node mode, which does not look for one.
StartFresh(p) ==
    /\ proc[p].pc = "off"
    /\ created < MaxBlocks
    /\ \E m \in Modes[p] :
         /\ m \in Loads => disk.state = "none"
         /\ proc' = [proc EXCEPT ![p] = Running(m, <<Fresh>>)]
    /\ created' = Fresh
    /\ UNCHANGED <<disk, saved, announced>>

-----------------------------------------------------------------------------
(* The loop of each mode.                                                  *)

Extend(p, pc, then) ==
    /\ proc[p].pc = "loop"
    /\ created < MaxBlocks
    /\ proc' = [proc EXCEPT ![p].pc = pc, ![p].then = then,
                            ![p].chain = Append(@, Fresh)]
    /\ created' = Fresh
    /\ UNCHANGED <<disk, saved, announced>>

\* Mutant: announced at once, saved afterwards.
MineThenAnnounce(p) ==
    /\ proc[p].mode \in Mines
    /\ proc[p].pc = "loop"
    /\ created < MaxBlocks
    /\ proc' = [proc EXCEPT ![p].pc = "open", ![p].then = "loop",
                            ![p].chain = Append(@, Fresh)]
    /\ created' = Fresh
    /\ announced' = announced \cup {Append(proc[p].chain, Fresh)}
    /\ UNCHANGED <<disk, saved>>

\* A mined block is added, saved and then announced to the peers.
Mine(p) ==
    /\ proc[p].mode \in Mines
    /\ Extend(p, "open", "announce")

\* A "block" message: added, not saved.
Receive(p) ==
    /\ proc[p].mode \in Listens
    /\ Extend(p, "loop", "off")

\* A "sync_response": added, then saved.
Sync(p) ==
    /\ proc[p].mode \in Listens
    /\ Extend(p, "open", "loop")

\* node.broadcast_block; mine mode has no peers.
Announce(p) ==
    /\ proc[p].pc = "announce"
    /\ announced' = IF proc[p].mode = "run" THEN announced \cup {proc[p].chain}
                                            ELSE announced
    /\ Goto(p, "loop")
    /\ UNCHANGED <<disk, created, saved>>

\* SIGINT or SIGTERM ends the loop; a mode that has one saves before it ends.
\* status and wallet print what they have loaded and return.
End(p) ==
    /\ proc[p].pc = "loop"
    /\ proc' = IF proc[p].mode \in SavesOnEnd
               THEN [proc EXCEPT ![p].pc = "open", ![p].then = "off"]
               ELSE [proc EXCEPT ![p] = Off]
    /\ UNCHANGED <<disk, created, saved, announced>>

-----------------------------------------------------------------------------
(* save_to_disk, and the end of a process without warning.                 *)

\* Mutant: the old text stays until the new one is written.
SaveOpenKeeps(p) ==
    /\ proc[p].pc = "open"
    /\ disk' = [disk EXCEPT !.state = "torn"]
    /\ Goto(p, "write")
    /\ UNCHANGED <<created, saved, announced>>

SaveOpen(p) ==
    /\ proc[p].pc = "open"
    /\ disk' = Torn
    /\ Goto(p, "write")
    /\ UNCHANGED <<created, saved, announced>>

\* When another process has the file open too, the texts may get mixed.
SaveClose(p) ==
    /\ proc[p].pc = "write"
    /\ disk' \in {Whole(proc[p].chain)} \cup
                 {Torn : q \in {x \in Procs \ {p} : proc[x].pc = "write"}}
    /\ saved' = IF disk'.state = "whole" THEN proc[p].chain ELSE saved
    /\ proc' = [proc EXCEPT ![p] = IF @.then = "off" THEN Off
                                   ELSE [proc[p] EXCEPT !.pc = proc[p].then]]
    /\ UNCHANGED <<created, announced>>

\* Power failure, SIGKILL, or an exception that nothing catches.
Kill(p) ==
    /\ proc[p].pc # "off"
    /\ proc' = [proc EXCEPT ![p] = Off]
    /\ UNCHANGED <<disk, created, saved, announced>>

-----------------------------------------------------------------------------

FileInit ==
    /\ disk = NoFile
    /\ proc = [p \in Procs |-> Off]
    /\ created = 0
    /\ saved = <<>>
    /\ announced = {}

FileNext ==
    \E p \in Procs :
        \/ StartLoaded(p) \/ StartFresh(p)
        \/ Mine(p) \/ Receive(p) \/ Sync(p) \/ Announce(p) \/ End(p)
        \/ SaveOpen(p) \/ SaveClose(p) \/ Kill(p)

FileSpec == FileInit /\ [][FileNext]_vars

-----------------------------------------------------------------------------
(* Properties.                                                             *)

\* Every chain that is anywhere: in the file, in memory or at a peer.
AllChains ==
    {disk.chain, saved} \cup announced \cup {proc[p].chain : p \in Procs}

\* Type invariant: only a file that is whole has anything to read, and no chain
\* has a block that was not created yet.
FileTypeOK ==
    /\ disk \in [state : {"none", "torn", "whole"}, chain : Seq(1..MaxBlocks)]
    /\ disk.state # "whole" => disk.chain = <<>>
    /\ proc \in [Procs -> [pc    : {"off", "loop", "open", "write", "announce"},
                           mode  : AllModes,
                           chain : Seq(1..MaxBlocks),
                           then  : {"off", "loop", "announce"}]]
    /\ created \in 0..MaxBlocks
    /\ saved \in Seq(1..MaxBlocks)
    /\ announced \subseteq Seq(1..MaxBlocks)
    /\ AllChains \subseteq Seq(1..created)

\* No save takes back what an earlier one wrote, by whichever process, over
\* kills and restarts: a genesis block "is created on first run if no chain
\* file exists", and "On startup" the file is loaded.
SavedOnlyGrows == [][IsPrefix(saved, saved')]_vars

\* A block that was mined here and that peers have been told of is still
\* there after a restart: unless it is torn, the file holds it.
AnnouncedIsSaved ==
    disk.state # "torn" => \A b \in announced : IsPrefix(b, disk.chain)
=============================================================================
