-------------------------- MODULE ChainFileProofs --------------------------
(***************************************************************************)
(* The chain file, for any number of processes and of blocks.              *)
(*                                                                         *)
(* What is saved and what is announced survives when one process at a time *)
(* writes and none starts in node mode, which does not load: a process     *)
(* that writes has loaded what was saved, and has only added to it since.  *)
(***************************************************************************)
EXTENDS ChainFile, SequenceTheorems, TLAPS

Chains == Seq(1..MaxBlocks)

-----------------------------------------------------------------------------
(* Prefixes.                                                               *)

\* A sequence is a prefix when it agrees in all its elements.
LEMMA PrefixElements ==
    ASSUME NEW S, NEW s \in Seq(S), NEW t \in Seq(S)
    PROVE  IsPrefix(s, t) <=> /\ Len(s) <= Len(t)
                              /\ \A i \in 1..Len(s) : s[i] = t[i]
<1>1. SubSeq(s, 1, Len(s)) = s
  BY DEF IsPrefix
<1>2. CASE Len(s) <= Len(t)
  <2>1. SubSeq(t, 1, Len(s)) \in Seq(S) /\ Len(SubSeq(t, 1, Len(s))) = Len(s)
        /\ \A i \in 1..Len(s) : SubSeq(t, 1, Len(s))[i] = t[i]
    BY <1>2
  <2>. QED BY <1>1, <1>2, <2>1, SeqEqual DEF IsPrefix
<1>. QED BY <1>2 DEF IsPrefix

\* Every sequence is a prefix of itself,
LEMMA PrefixSelf == ASSUME NEW S, NEW s \in Seq(S) PROVE IsPrefix(s, s)
  BY PrefixElements

\* the empty one is one of all,
LEMMA PrefixEmpty == ASSUME NEW S, NEW s \in Seq(S) PROVE IsPrefix(<<>>, s)
<1>1. <<>> \in Seq(S) /\ Len(<<>>) = 0 /\ Len(s) \in Nat
  OBVIOUS
<1>2. Len(<<>>) <= Len(s) /\ \A i \in 1..Len(<<>>) : <<>>[i] = s[i]
  BY <1>1
<1>. QED BY <1>1, <1>2, PrefixElements

\* a prefix of a prefix is a prefix,
LEMMA PrefixTransitive ==
    ASSUME NEW S, NEW s \in Seq(S), NEW t \in Seq(S), NEW u \in Seq(S),
           IsPrefix(s, t), IsPrefix(t, u)
    PROVE  IsPrefix(s, u)
  BY PrefixElements

\* and appending an element keeps the prefixes.
LEMMA PrefixAppend ==
    ASSUME NEW S, NEW s \in Seq(S), NEW t \in Seq(S), NEW e \in S, IsPrefix(s, t)
    PROVE  IsPrefix(s, Append(t, e))
<1>1. /\ Append(t, e) \in Seq(S) /\ Len(Append(t, e)) = Len(t) + 1
      /\ \A i \in 1..Len(t) : Append(t, e)[i] = t[i]
  OBVIOUS
<1>2. Len(s) <= Len(t) /\ \A i \in 1..Len(s) : s[i] = t[i]
  BY PrefixElements
<1>3. Len(s) \in Nat /\ Len(t) \in Nat
  OBVIOUS
<1>4. Len(s) <= Len(Append(t, e)) /\ \A i \in 1..Len(s) : s[i] = Append(t, e)[i]
  BY <1>1, <1>2, <1>3
<1>. QED BY <1>1, <1>4, PrefixElements

-----------------------------------------------------------------------------
(* Types.                                                                  *)

\* Nothing runs and there is no file at first.
LEMMA FileTypeInit == ASSUME FileInit PROVE FileTypeOK
<1>1. <<>> \in Chains
  BY DEF Chains
<1>2. AllChains \subseteq {<<>>}
  BY DEF FileInit, AllChains, NoFile, Off
<1>3. <<>> \in Seq(1..created)
  OBVIOUS
<1>4. AllChains \subseteq Seq(1..created)
  BY <1>2, <1>3
<1>. QED BY <1>1, <1>4, FileAssumption
     DEF FileInit, FileTypeOK, NoFile, Off, AllModes, Chains

\* A chain of the blocks up to n is one of the blocks up to a later one,
LEMMA LaterChain ==
    ASSUME NEW n \in Nat, NEW m \in Nat, n <= m, NEW s \in Seq(1..n)
    PROVE  s \in Seq(1..m)
<1>1. 1..n \subseteq 1..m
  OBVIOUS
<1>2. \A i \in 1..Len(s) : s[i] \in 1..m
  BY <1>1
<1>. QED BY <1>2

\* and what is not changed by a step stays one of the blocks created.
LEMMA ChainsSame ==
    ASSUME FileTypeOK, created' = created, AllChains' \subseteq AllChains \cup {<<>>}
    PROVE  AllChains' \subseteq Seq(1..created')
<1>1. <<>> \in Seq(1..created)
  OBVIOUS
<1>2. AllChains \subseteq Seq(1..created)
  BY DEF FileTypeOK
<1>. QED BY <1>1, <1>2

\* A new block comes after a chain that is there, or after none.
LEMMA ChainsGrow ==
    ASSUME FileTypeOK, created' = Fresh, NEW c \in AllChains \cup {<<>>},
           AllChains' \subseteq AllChains \cup {Append(c, Fresh)}
    PROVE  AllChains' \subseteq Seq(1..created')
<1>1. created \in Nat /\ Fresh \in Nat /\ created <= Fresh /\ Fresh \in 1..Fresh
  BY FileAssumption DEF FileTypeOK, Fresh
<1>2. AllChains \subseteq Seq(1..created) /\ <<>> \in Seq(1..created)
  <2>1. AllChains \subseteq Seq(1..created)
    BY DEF FileTypeOK
  <2>2. <<>> \in Seq(1..created)
    OBVIOUS
  <2>. QED BY <2>1, <2>2
<1>3. c \in Seq(1..Fresh) /\ AllChains \subseteq Seq(1..Fresh)
  BY <1>1, <1>2, LaterChain
<1>4. Append(c, Fresh) \in Seq(1..Fresh)
  BY <1>1, <1>3
<1>. QED BY <1>3, <1>4

\* Whatever a process, a kill or a start does, a chain has created blocks only.
LEMMA ChainsStep ==
    ASSUME FileTypeOK, [FileNext]_vars PROVE AllChains' \subseteq Seq(1..created')
<1>1. /\ DOMAIN proc = Procs /\ disk.chain \in AllChains /\ saved \in AllChains
      /\ announced \subseteq AllChains /\ \A q \in Procs : proc[q].chain \in AllChains
  BY DEF FileTypeOK, AllChains
\* What a step that sets one process changes.
<1>2. ASSUME NEW p \in Procs, NEW r, proc' = [proc EXCEPT ![p] = r],
             NEW S, AllChains \cup {<<>>} \subseteq S, r.chain \in S,
             disk'.chain \in S, saved' \in S, announced' \subseteq S
      PROVE  AllChains' \subseteq S
  <2>1. \A q \in Procs : proc'[q].chain \in S
    <3>1. TAKE q \in Procs
    <3>2. proc'[q] = r \/ proc'[q] = proc[q]
      BY <1>1, <1>2
    <3>. QED BY <1>1, <1>2, <3>2
  <2>. QED BY <1>2, <2>1 DEF AllChains
<1>. DEFINE Old == AllChains \cup {<<>>}
<1>3. ASSUME NEW p \in Procs, NEW r, proc' = [proc EXCEPT ![p] = r], r.chain \in Old,
             disk'.chain \in Old, saved' \in Old, announced' \subseteq Old,
             created' = created
      PROVE  AllChains' \subseteq Seq(1..created')
  <2>1. AllChains' \subseteq Old
    BY <1>2, <1>3
  <2>. QED BY <1>3, <2>1, ChainsSame
<1>4. ASSUME NEW p \in Procs, NEW r, NEW c \in Old, proc' = [proc EXCEPT ![p] = r],
             r.chain = Append(c, Fresh), UNCHANGED <<disk, saved, announced>>,
             created' = Fresh
      PROVE  AllChains' \subseteq Seq(1..created')
  <2>1. AllChains' \subseteq AllChains \cup {Append(c, Fresh)}
    <3>1. \A q \in Procs : proc'[q] = r \/ proc'[q] = proc[q]
      BY <1>1, <1>4
    <3>2. \A q \in Procs : proc'[q].chain \in AllChains \cup {Append(c, Fresh)}
      BY <1>1, <1>4, <3>1
    <3>. QED BY <1>1, <1>4, <3>2 DEF AllChains
  <2>. QED BY <1>4, <2>1, ChainsGrow
<1>5. ASSUME NEW p \in Procs, StartLoaded(p) PROVE AllChains' \subseteq Seq(1..created')
  <2>1. PICK m : proc' = [proc EXCEPT ![p] = Running(m, disk.chain)]
    BY <1>5 DEF StartLoaded
  <2>2. Running(m, disk.chain).chain = disk.chain
    BY DEF Running
  <2>. QED BY <1>1, <1>3, <1>5, <2>1, <2>2 DEF StartLoaded
<1>6. ASSUME NEW p \in Procs, StartFresh(p) PROVE AllChains' \subseteq Seq(1..created')
  <2>1. PICK m : proc' = [proc EXCEPT ![p] = Running(m, <<Fresh>>)]
    BY <1>6 DEF StartFresh
  <2>2. Running(m, <<Fresh>>).chain = Append(<<>>, Fresh)
    BY DEF Running
  <2>. QED BY <1>4, <1>6, <2>1, <2>2 DEF StartFresh
<1>7. ASSUME NEW p \in Procs, NEW pc, NEW then, Extend(p, pc, then)
      PROVE  AllChains' \subseteq Seq(1..created')
  <2>. DEFINE c == Append(proc[p].chain, Fresh)
  <2>1. PICK r : r = [proc[p] EXCEPT !.pc = pc, !.then = then, !.chain = c]
    OBVIOUS
  <2>2. proc' = [proc EXCEPT ![p] = r]
    BY <1>7, <2>1 DEF Extend
  <2>3. r.chain = c
    BY <2>1 DEF FileTypeOK
  <2>. QED BY <1>1, <1>4, <1>7, <2>2, <2>3 DEF Extend
<1>8. ASSUME NEW p \in Procs, Announce(p) PROVE AllChains' \subseteq Seq(1..created')
  <2>1. PICK r : r = [proc[p] EXCEPT !.pc = "loop"]
    OBVIOUS
  <2>2. proc' = [proc EXCEPT ![p] = r] /\ r.chain = proc[p].chain
    BY <1>8, <2>1 DEF Announce, Goto, FileTypeOK
  <2>. QED BY <1>1, <1>3, <1>8, <2>2 DEF Announce
<1>9. ASSUME NEW p \in Procs, End(p) PROVE AllChains' \subseteq Seq(1..created')
  <2>1. PICK r : r = [proc[p] EXCEPT !.pc = "open", !.then = "off"]
    OBVIOUS
  <2>2. r.chain = proc[p].chain /\ Off.chain = <<>>
    BY <2>1 DEF FileTypeOK, Off
  <2>3. proc' = [proc EXCEPT ![p] = r] \/ proc' = [proc EXCEPT ![p] = Off]
    BY <1>9, <2>1 DEF End
  <2>. QED BY <1>1, <1>3, <1>9, <2>2, <2>3 DEF End
<1>10. ASSUME NEW p \in Procs, SaveOpen(p) PROVE AllChains' \subseteq Seq(1..created')
  <2>1. PICK r : r = [proc[p] EXCEPT !.pc = "write"]
    OBVIOUS
  <2>2. proc' = [proc EXCEPT ![p] = r] /\ r.chain = proc[p].chain
    BY <1>10, <2>1 DEF SaveOpen, Goto, FileTypeOK
  <2>3. disk'.chain = <<>>
    BY <1>10 DEF SaveOpen, Torn
  <2>. QED BY <1>1, <1>3, <1>10, <2>2, <2>3 DEF SaveOpen
<1>11. ASSUME NEW p \in Procs, SaveClose(p) PROVE AllChains' \subseteq Seq(1..created')
  <2>1. PICK r : r = [proc[p] EXCEPT !.pc = proc[p].then]
    OBVIOUS
  <2>2. r.chain = proc[p].chain /\ Off.chain = <<>>
    BY <2>1 DEF FileTypeOK, Off
  <2>3. proc' = [proc EXCEPT ![p] = r] \/ proc' = [proc EXCEPT ![p] = Off]
    BY <1>11, <2>1 DEF SaveClose
  <2>4. disk' = Whole(proc[p].chain) \/ disk' = Torn
    BY <1>11 DEF SaveClose
  <2>5. disk'.chain \in Old
    BY <1>1, <2>4 DEF Whole, Torn
  <2>6. saved' \in Old /\ announced' \subseteq Old /\ created' = created
    BY <1>1, <1>11 DEF SaveClose
  <2>. QED BY <1>1, <1>3, <2>2, <2>3, <2>5, <2>6
<1>12. ASSUME NEW p \in Procs, Kill(p) PROVE AllChains' \subseteq Seq(1..created')
  <2>1. Off.chain = <<>>
    BY DEF Off
  <2>. QED BY <1>1, <1>3, <1>12, <2>1 DEF Kill
<1>13. CASE UNCHANGED vars
  <2>1. AllChains' = AllChains /\ created' = created
    BY <1>13 DEF vars, AllChains
  <2>. QED BY <2>1 DEF FileTypeOK
<1>. QED BY <1>5, <1>6, <1>7, <1>8, <1>9, <1>10, <1>11, <1>12, <1>13
     DEF FileNext, Mine, Receive, Sync

\* Whatever a process, a kill or a start does keeps the types.
LEMMA FileTypeStep == ASSUME FileTypeOK, [FileNext]_vars PROVE FileTypeOK'
<1>0. AllChains' \subseteq Seq(1..created')
  BY ChainsStep
<1>. USE <1>0 DEF FileTypeOK
<1>1. <<>> \in Seq(1..MaxBlocks) /\ MaxBlocks \in Nat
  BY FileAssumption
<1>2. Off \in [pc    : {"off", "loop", "open", "write", "announce"},
               mode  : AllModes,
               chain : Seq(1..MaxBlocks),
               then  : {"off", "loop", "announce"}]
  BY <1>1 DEF Off, AllModes
<1>3. created < MaxBlocks => Fresh \in 1..MaxBlocks
  BY <1>1 DEF Fresh
<1>4. ASSUME NEW p \in Procs, StartLoaded(p) PROVE FileTypeOK'
  <2>1. PICK m \in Modes[p] \cap Loads : proc' = [proc EXCEPT ![p] = Running(m, disk.chain)]
    BY <1>4 DEF StartLoaded
  <2>2. m \in AllModes
    BY <2>1 DEF Loads
  <2>. QED BY <1>4, <2>1, <2>2 DEF StartLoaded, Running
<1>5. ASSUME NEW p \in Procs, StartFresh(p) PROVE FileTypeOK'
  <2>1. PICK m \in Modes[p] : proc' = [proc EXCEPT ![p] = Running(m, <<Fresh>>)]
    BY <1>5 DEF StartFresh
  <2>2. Modes[p] \in SUBSET AllModes
    BY FileAssumption
  <2>3. m \in AllModes
    BY <2>1, <2>2
  <2>4. Fresh \in 1..MaxBlocks
    BY <1>3, <1>5 DEF StartFresh
  <2>5. <<Fresh>> \in Seq(1..MaxBlocks)
    BY <2>4
  <2>. QED BY <1>1, <1>5, <2>1, <2>3, <2>4, <2>5 DEF StartFresh, Running
<1>6. ASSUME NEW p \in Procs, NEW pc \in {"loop", "open"},
             NEW then \in {"off", "loop", "announce"}, Extend(p, pc, then)
      PROVE  FileTypeOK'
  <2>1. Append(proc[p].chain, Fresh) \in Seq(1..MaxBlocks)
    BY <1>3, <1>6 DEF Extend
  <2>. DEFINE c == Append(proc[p].chain, Fresh)
              r == [proc[p] EXCEPT !.pc = pc, !.then = then, !.chain = c]
  <2>2. proc' = [proc EXCEPT ![p] = r]
    BY <1>6 DEF Extend
  <2>3. r \in [pc    : {"off", "loop", "open", "write", "announce"},
               mode  : AllModes,
               chain : Seq(1..MaxBlocks),
               then  : {"off", "loop", "announce"}]
    BY <1>6, <2>1
  <2>. HIDE DEF r
  <2>4. created' \in 0..MaxBlocks
    BY <1>1, <1>3, <1>6 DEF Extend
  <2>5. UNCHANGED <<disk, saved, announced>>
    BY <1>6 DEF Extend
  <2>. QED BY <2>2, <2>3, <2>4, <2>5
<1>7. ASSUME NEW p \in Procs, Announce(p) PROVE FileTypeOK'
  BY <1>7 DEF Announce, Goto
<1>8. ASSUME NEW p \in Procs, End(p) PROVE FileTypeOK'
  BY <1>2, <1>8 DEF End
<1>9. ASSUME NEW p \in Procs, SaveOpen(p) PROVE FileTypeOK'
  BY <1>1, <1>9 DEF SaveOpen, Goto, Torn
<1>10. ASSUME NEW p \in Procs, SaveClose(p) PROVE FileTypeOK'
  <2>1. disk' = Whole(proc[p].chain) \/ disk' = Torn
    BY <1>10 DEF SaveClose
  <2>2. /\ disk' \in [state : {"none", "torn", "whole"}, chain : Seq(1..MaxBlocks)]
        /\ disk'.state # "whole" => disk'.chain = <<>>
    <3>1. CASE disk' = Whole(proc[p].chain)
      BY <3>1 DEF Whole
    <3>2. CASE disk' = Torn
      BY <1>1, <3>2 DEF Torn
    <3>. QED BY <2>1, <3>1, <3>2
  <2>3. saved' \in Seq(1..MaxBlocks)
    BY <1>10 DEF SaveClose
  <2>4. proc' = [proc EXCEPT ![p] = Off]
        \/ proc' = [proc EXCEPT ![p] = [proc[p] EXCEPT !.pc = proc[p].then]]
    BY <1>10 DEF SaveClose
  <2>5. proc[p].then \in {"off", "loop", "announce", "open", "write"}
    OBVIOUS
  <2>. QED BY <1>2, <1>10, <2>2, <2>3, <2>4, <2>5 DEF SaveClose
<1>11. ASSUME NEW p \in Procs, Kill(p) PROVE FileTypeOK'
  BY <1>2, <1>11 DEF Kill
<1>12. CASE UNCHANGED vars
  BY <1>12 DEF vars
<1>. QED BY <1>4, <1>5, <1>6, <1>7, <1>8, <1>9, <1>10, <1>11, <1>12
     DEF FileNext, Mine, Receive, Sync

\* Whatever processes do to the file, one reads what is there or nothing, and
\* no chain, in the file, in memory or at a peer, has a block that nobody made.
THEOREM FileTypeCorrect == FileSpec => []FileTypeOK
<1>. QED BY FileTypeInit, FileTypeStep, PTL DEF FileSpec

-----------------------------------------------------------------------------
(* One writer.                                                             *)

\* No process starts in node mode, and no two may be in modes that write.
SingleWriter ==
    /\ \A p \in Procs : "node" \notin Modes[p]
    /\ \A p, q \in Procs :
         p # q => Modes[p] \cap SavesOnEnd = {} \/ Modes[q] \cap SavesOnEnd = {}

Writes(p) == proc[p].pc # "off" /\ proc[p].mode \in SavesOnEnd

DiskInv ==
    /\ disk.state = "whole" => disk.chain = saved
    /\ disk.state = "none" => saved = <<>>

ProcInv(p) ==
    /\ proc[p].pc # "off" => proc[p].mode \in Modes[p]
    /\ proc[p].pc \in {"open", "write", "announce"} => Writes(p)
    /\ Writes(p) => IsPrefix(saved, proc[p].chain)
    /\ proc[p].pc = "announce" => saved = proc[p].chain

\* What the writer has in memory is what was saved, or continues it.
WriterInv ==
    /\ FileTypeOK
    /\ DiskInv
    /\ \A p \in Procs : ProcInv(p)
    /\ \A b \in announced : IsPrefix(b, saved)

\* Without processes nothing can disagree with the file.
LEMMA WriterInit == ASSUME FileInit PROVE WriterInv
<1>1. FileTypeOK
  BY FileTypeInit
<1>. QED BY <1>1
     DEF FileInit, WriterInv, DiskInv, ProcInv, Writes, NoFile, Off

\* A step of p that saves nothing leaves the other processes as they were.
LEMMA OthersKept ==
    ASSUME WriterInv, NEW p \in Procs, NEW r,
           proc' = [proc EXCEPT ![p] = r], saved' = saved,
           NEW q \in Procs, q # p
    PROVE  ProcInv(q)'
<1>1. proc'[q] = proc[q] /\ ProcInv(q)
  BY DEF WriterInv, FileTypeOK
<1>. QED BY <1>1 DEF ProcInv, Writes

\* A step that adds a block, mined or received.
LEMMA ExtendKeeps ==
    ASSUME WriterInv, NEW p \in Procs, proc[p].mode \in SavesOnEnd,
           NEW pc \in {"loop", "open"}, NEW then \in {"off", "loop", "announce"},
           Extend(p, pc, then)
    PROVE  \A q \in Procs : ProcInv(q)'
<1>1. MaxBlocks \in Nat /\ created \in 0..MaxBlocks /\ saved \in Seq(1..MaxBlocks)
      /\ proc[p].chain \in Seq(1..MaxBlocks)
  BY FileAssumption DEF WriterInv, FileTypeOK
<1>2. Fresh \in 1..MaxBlocks /\ saved' = saved
  BY <1>1 DEF Extend, Fresh
<1>. DEFINE c == Append(proc[p].chain, Fresh)
            r == [proc[p] EXCEPT !.pc = pc, !.then = then, !.chain = c]
<1>3. proc' = [proc EXCEPT ![p] = r]
  BY DEF Extend
<1>4. ProcInv(p) /\ proc[p].pc = "loop"
  BY DEF WriterInv, Extend
<1>5. IsPrefix(saved, proc[p].chain)
  BY <1>4 DEF ProcInv, Writes
<1>6. IsPrefix(saved, c)
  BY ONLY <1>1, <1>2, <1>5, PrefixAppend
<1>7. r.pc = pc /\ r.mode = proc[p].mode /\ r.chain = c
  BY DEF WriterInv, FileTypeOK
<1>8. proc'[p] = r
  BY <1>3 DEF WriterInv, FileTypeOK
<1>9. ProcInv(p)'
  BY <1>2, <1>4, <1>6, <1>7, <1>8 DEF ProcInv, Writes
<1>. QED BY <1>2, <1>3, <1>9, OthersKept

\* The last step of a save: the one process that writes.
LEMMA CloseKeeps ==
    ASSUME SingleWriter, WriterInv, NEW p \in Procs, SaveClose(p)
    PROVE  /\ disk' = Whole(proc[p].chain)
           /\ saved' = proc[p].chain
           /\ IsPrefix(saved, saved')
           /\ \A q \in Procs : ProcInv(q)'
<1>1. /\ \A q \in Procs : ProcInv(q)
      /\ proc \in [Procs -> [pc    : {"off", "loop", "open", "write", "announce"},
                             mode  : AllModes,
                             chain : Seq(1..MaxBlocks),
                             then  : {"off", "loop", "announce"}]]
  BY DEF WriterInv, FileTypeOK
<1>2. Writes(p)
  BY <1>1 DEF SaveClose, ProcInv
<1>3. \A q \in Procs : q # p => ~Writes(q)
  BY <1>1, <1>2 DEF SingleWriter, ProcInv, Writes
<1>4. {x \in Procs \ {p} : proc[x].pc = "write"} = {}
  BY <1>1, <1>3 DEF ProcInv
<1>5. disk' = Whole(proc[p].chain)
  BY <1>4 DEF SaveClose
<1>6. saved' = proc[p].chain
  BY <1>5 DEF SaveClose, Whole
<1>7. IsPrefix(saved, saved')
  BY <1>1, <1>2, <1>6 DEF ProcInv
<1>8. ASSUME NEW q \in Procs, q # p PROVE ProcInv(q)'
  <2>1. proc'[q] = proc[q]
    BY <1>8 DEF SaveClose
  <2>. QED BY <1>1, <1>3, <1>8, <2>1 DEF ProcInv, Writes
<1>9. ProcInv(p)'
  <2>1. CASE proc[p].then = "off"
    <3>1. proc'[p] = Off
      BY <1>1, <2>1 DEF SaveClose
    <3>. QED BY <3>1 DEF ProcInv, Writes, Off
  <2>2. CASE proc[p].then # "off"
    <3>1. proc'[p] = [proc[p] EXCEPT !.pc = proc[p].then]
      BY <1>1, <2>2 DEF SaveClose
    <3>2. /\ proc'[p].pc = proc[p].then /\ proc'[p].mode = proc[p].mode
          /\ proc'[p].chain = proc[p].chain
      BY <1>1, <3>1
    <3>3. IsPrefix(saved', proc'[p].chain)
      BY <1>1, <1>6, <3>2, PrefixSelf
    <3>. QED BY <1>1, <1>2, <1>6, <3>2, <3>3 DEF ProcInv, Writes
  <2>. QED BY <2>1, <2>2
<1>. QED BY <1>5, <1>6, <1>7, <1>8, <1>9

\* Every block that was announced is in what was saved before.
LEMMA AnnounceKeeps ==
    ASSUME WriterInv, NEW p \in Procs, Announce(p)
    PROVE  \A b \in announced' : IsPrefix(b, saved')
<1>1. /\ ProcInv(p) /\ proc[p].pc = "announce" /\ saved' = saved
      /\ saved \in Seq(1..MaxBlocks) /\ \A b \in announced : IsPrefix(b, saved)
  BY DEF WriterInv, FileTypeOK, Announce
<1>2. IsPrefix(saved, saved)
  BY <1>1, PrefixSelf
<1>3. announced' \subseteq announced \cup {saved}
  BY <1>1 DEF Announce, ProcInv
<1>. QED BY <1>1, <1>2, <1>3

\* No step of the one writer, of the readers or of a kill takes a block back
\* that was saved.
LEMMA WriterStep ==
    ASSUME SingleWriter, WriterInv, [FileNext]_vars
    PROVE  WriterInv' /\ IsPrefix(saved, saved')
<1>1. FileTypeOK'
  BY FileTypeStep DEF WriterInv
<1>2. /\ saved \in Seq(1..MaxBlocks)
      /\ proc \in [Procs -> [pc    : {"off", "loop", "open", "write", "announce"},
                             mode  : AllModes,
                             chain : Seq(1..MaxBlocks),
                             then  : {"off", "loop", "announce"}]]
      /\ \A q \in Procs : ProcInv(q)
      /\ \A b \in announced : b \in Seq(1..MaxBlocks) /\ IsPrefix(b, saved)
  BY DEF WriterInv, FileTypeOK
<1>3. saved' = saved => IsPrefix(saved, saved')
  BY <1>2, PrefixSelf
\* Most steps leave the file alone, and what was saved and announced.
<1>4. ASSUME UNCHANGED <<disk, saved, announced>>, \A q \in Procs : ProcInv(q)'
      PROVE  WriterInv' /\ IsPrefix(saved, saved')
  BY <1>1, <1>2, <1>3, <1>4 DEF WriterInv, DiskInv
<1>5. ASSUME NEW p \in Procs, StartLoaded(p) PROVE \A q \in Procs : ProcInv(q)'
  <2>1. PICK m \in Modes[p] \cap Loads : proc' = [proc EXCEPT ![p] = Running(m, disk.chain)]
    BY <1>5 DEF StartLoaded
  <2>2. disk.chain = saved /\ saved' = saved
    BY <1>5 DEF StartLoaded, WriterInv, DiskInv
  <2>3. proc'[p] = Running(m, saved)
    BY <1>2, <2>1, <2>2
  <2>4. IsPrefix(saved, saved)
    BY <1>2, PrefixSelf
  <2>5. ProcInv(p)'
    BY <2>1, <2>2, <2>3, <2>4 DEF ProcInv, Writes, Running
  <2>. QED BY <2>1, <2>2, <2>5, OthersKept
<1>6. ASSUME NEW p \in Procs, StartFresh(p), SingleWriter PROVE \A q \in Procs : ProcInv(q)'
  <2>1. PICK m \in Modes[p] :
          /\ m \in Loads => disk.state = "none"
          /\ proc' = [proc EXCEPT ![p] = Running(m, <<Fresh>>)]
    BY <1>6 DEF StartFresh
  <2>2. m \in AllModes /\ m # "node"
    BY <1>6, <2>1, FileAssumption DEF SingleWriter
  <2>3. saved = <<>> /\ saved' = saved
    BY <1>6, <2>1, <2>2 DEF StartFresh, WriterInv, DiskInv, Loads
  <2>4. proc'[p] = Running(m, <<Fresh>>)
    BY <1>2, <2>1
  <2>5. MaxBlocks \in Nat /\ created \in 0..MaxBlocks /\ created < MaxBlocks
    BY <1>6, FileAssumption DEF StartFresh, WriterInv, FileTypeOK
  <2>6. Fresh \in 1..MaxBlocks
    BY <2>5 DEF Fresh
  <2>7. <<Fresh>> \in Seq(1..MaxBlocks)
    BY <2>6
  <2>8. IsPrefix(saved, <<Fresh>>)
    BY <2>3, <2>7, PrefixEmpty
  <2>9. ProcInv(p)'
    BY <2>1, <2>3, <2>4, <2>8 DEF ProcInv, Writes, Running
  <2>. QED BY <2>1, <2>3, <2>9, OthersKept
<1>7. ASSUME NEW p \in Procs, Mine(p) \/ Receive(p) \/ Sync(p)
      PROVE  WriterInv' /\ IsPrefix(saved, saved')
  <2>1. proc[p].mode \in SavesOnEnd
    BY <1>7 DEF Mine, Receive, Sync, Mines, Listens, SavesOnEnd
  <2>2. \A q \in Procs : ProcInv(q)'
    BY <1>7, <2>1, ExtendKeeps DEF Mine, Receive, Sync
  <2>. QED BY <1>4, <1>7, <2>2 DEF Mine, Receive, Sync, Extend
<1>8. ASSUME NEW p \in Procs, Announce(p) PROVE WriterInv' /\ IsPrefix(saved, saved')
  <2>. DEFINE r == [proc[p] EXCEPT !.pc = "loop"]
  <2>1. proc' = [proc EXCEPT ![p] = r] /\ UNCHANGED <<disk, saved>>
    BY <1>8 DEF Announce, Goto
  <2>2. proc'[p].pc = "loop" /\ proc'[p].mode = proc[p].mode
        /\ proc'[p].chain = proc[p].chain
    BY <1>2, <2>1
  <2>3. ProcInv(p)'
    BY <1>2, <1>8, <2>1, <2>2 DEF ProcInv, Writes, Announce
  <2>4. \A q \in Procs : ProcInv(q)'
    BY <2>1, <2>3, OthersKept
  <2>. QED BY <1>1, <1>3, <1>8, <2>1, <2>4, AnnounceKeeps DEF WriterInv, DiskInv
<1>9. ASSUME NEW p \in Procs, End(p) PROVE \A q \in Procs : ProcInv(q)'
  <2>1. CASE proc[p].mode \in SavesOnEnd
    <3>. DEFINE r == [proc[p] EXCEPT !.pc = "open", !.then = "off"]
    <3>1. proc' = [proc EXCEPT ![p] = r] /\ saved' = saved
      BY <1>9, <2>1 DEF End
    <3>2. proc'[p].pc = "open" /\ proc'[p].mode = proc[p].mode
          /\ proc'[p].chain = proc[p].chain
      BY <1>2, <3>1
    <3>3. ProcInv(p)'
      BY <1>2, <1>9, <2>1, <3>1, <3>2 DEF ProcInv, Writes, End
    <3>. QED BY <3>1, <3>3, OthersKept
  <2>2. CASE proc[p].mode \notin SavesOnEnd
    <3>1. proc' = [proc EXCEPT ![p] = Off] /\ saved' = saved
      BY <1>9, <2>2 DEF End
    <3>2. ProcInv(p)'
      BY <1>2, <3>1 DEF ProcInv, Writes, Off
    <3>. QED BY <3>1, <3>2, OthersKept
  <2>. QED BY <2>1, <2>2
<1>10. ASSUME NEW p \in Procs, SaveOpen(p) PROVE WriterInv' /\ IsPrefix(saved, saved')
  <2>. DEFINE r == [proc[p] EXCEPT !.pc = "write"]
  <2>1. proc' = [proc EXCEPT ![p] = r] /\ UNCHANGED <<saved, announced>> /\ disk' = Torn
    BY <1>10 DEF SaveOpen, Goto
  <2>2. proc'[p].pc = "write" /\ proc'[p].mode = proc[p].mode
        /\ proc'[p].chain = proc[p].chain
    BY <1>2, <2>1
  <2>3. ProcInv(p)'
    BY <1>2, <1>10, <2>1, <2>2 DEF ProcInv, Writes, SaveOpen
  <2>4. \A q \in Procs : ProcInv(q)'
    BY <2>1, <2>3, OthersKept
  <2>5. DiskInv'
    BY <2>1 DEF DiskInv, Torn
  <2>. QED BY <1>1, <1>2, <1>3, <2>1, <2>4, <2>5 DEF WriterInv
<1>11. ASSUME NEW p \in Procs, SaveClose(p), SingleWriter
       PROVE  WriterInv' /\ IsPrefix(saved, saved')
  <2>1. /\ disk' = Whole(proc[p].chain) /\ saved' = proc[p].chain
        /\ IsPrefix(saved, saved') /\ \A q \in Procs : ProcInv(q)'
    BY <1>11, CloseKeeps
  <2>2. DiskInv'
    BY <2>1 DEF DiskInv, Whole
  <2>3. announced' = announced /\ saved' \in Seq(1..MaxBlocks)
    BY <1>1, <1>11 DEF SaveClose, FileTypeOK
  <2>4. \A b \in announced' : IsPrefix(b, saved')
    BY <1>2, <2>1, <2>3, PrefixTransitive
  <2>. QED BY <1>1, <2>1, <2>2, <2>4 DEF WriterInv
<1>12. ASSUME NEW p \in Procs, Kill(p) PROVE \A q \in Procs : ProcInv(q)'
  <2>1. proc' = [proc EXCEPT ![p] = Off] /\ saved' = saved
    BY <1>12 DEF Kill
  <2>2. ProcInv(p)'
    BY <1>2, <2>1 DEF ProcInv, Writes, Off
  <2>. QED BY <2>1, <2>2, OthersKept
<1>13. CASE UNCHANGED vars
  BY <1>2, <1>4, <1>13 DEF vars, ProcInv, Writes
<1>14. ASSUME NEW p \in Procs, StartLoaded(p) \/ StartFresh(p) \/ End(p) \/ Kill(p)
       PROVE  UNCHANGED <<disk, saved, announced>>
  BY <1>14 DEF StartLoaded, StartFresh, End, Kill
<1>. QED BY <1>4, <1>5, <1>6, <1>7, <1>8, <1>9, <1>10, <1>11, <1>12, <1>13, <1>14
     DEF FileNext

\* The invariant of a single writer holds throughout.
LEMMA WriterAlways == ASSUME SingleWriter PROVE FileSpec => []WriterInv
<1>. USE SingleWriter
<1>. QED BY WriterInit, WriterStep, PTL DEF FileSpec

\* A mined block that peers have been told of is in the file whenever the file
\* can be read, whatever processes were killed or started since.
THEOREM AnnouncedStaysSaved ==
    ASSUME SingleWriter PROVE FileSpec => []AnnouncedIsSaved
<1>1. WriterInv => AnnouncedIsSaved
  <2>. SUFFICES ASSUME WriterInv PROVE AnnouncedIsSaved
    OBVIOUS
  <2>1. disk.state \in {"none", "torn", "whole"}
        /\ (disk.state = "none" => disk.chain = saved)
    BY DEF WriterInv, DiskInv, FileTypeOK
  <2>. QED BY <2>1 DEF WriterInv, DiskInv, AnnouncedIsSaved
<1>. QED BY <1>1, WriterAlways, PTL

\* No save takes back what an earlier one wrote.
THEOREM SavesOnlyAdd == ASSUME SingleWriter PROVE FileSpec => SavedOnlyGrows
<1>1. WriterInv /\ [FileNext]_vars => [IsPrefix(saved, saved')]_vars
  BY WriterStep
<1>. QED BY <1>1, WriterAlways, PTL DEF FileSpec, SavedOnlyGrows
=============================================================================
