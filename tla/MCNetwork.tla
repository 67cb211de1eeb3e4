----------------------------- MODULE MCNetwork -----------------------------
(***************************************************************************)
(* Small networks: a pair, a star and a triangle of nodes.                 *)
(***************************************************************************)
EXTENDS Network

Both(pairs) == pairs \cup {<<p[2], p[1]>> : p \in pairs}

Pair     == Both({<<"a", "b">>})
Star     == Both({<<"a", "b">>, <<"a", "c">>})
Triangle == Both({<<"a", "b">>, <<"b", "c">>, <<"a", "c">>})

Genesis == [by |-> "genesis", txs |-> {}]
Old(i)  == [by |-> i, txs |-> {}]

Same   == [n \in Nodes |-> <<Genesis>>]
\* a is ahead by two blocks that the others have missed.
AAhead == [Same EXCEPT !["a"] = <<Genesis, Old("x"), Old("y")>>]

\* One node of three mines and the others follow.
Gossip == [links |-> Triangle, connected |-> TRUE, miners |-> {"a"},
           start |-> Same, txs |-> {}, capacity |-> 1]
\* Two nodes connect to a third that is ahead.  Both ends of a connection send
\* a request and a list before they read.
Join == [links |-> Star, connected |-> FALSE, miners |-> {},
         start |-> AAhead, txs |-> {}, capacity |-> 2]
\* Two nodes, one of which mines what clients send to it.
Payments == [links |-> Pair, connected |-> TRUE, miners |-> {"a"},
             start |-> Same, txs |-> {"t1", "t2"}, capacity |-> 2]
\* Three nodes, one of which mines what clients send to it.
Storm == [Gossip EXCEPT !.txs = {"tx"}]

Quiet  == {Gossip, Join, Payments}
Stormy == {Storm}
=============================================================================
