---------------------------- MODULE MCNameStore ----------------------------
(* Small instances of NameStore: two processes, one of them (wgd) with two *)
(* goroutines.                                                             *)
EXTENDS NameStore, TLC

CONSTANTS wgd, wg, g1, g2, c1, names0, k1, alice, none

MCProcOf == (g1 :> wgd) @@ (g2 :> wgd) @@ (c1 :> wg)

\* A map from one key to one name, and a callback that turns it over: a
\* lost update is seen whatever the other update was.
MCNameMap  == [{k1} -> {alice, none}]
MCEmptyMap == [k \in {k1} |-> none]
MCUpdates  == {[m \in MCNameMap |-> [m EXCEPT ![k1] = IF @ = none THEN alice ELSE none]]}
=============================================================================
