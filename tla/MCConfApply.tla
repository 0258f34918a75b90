---------------------------- MODULE MCConfApply ----------------------------
(* Small instances of ConfApply: two goroutines of wgd, one run of the wg  *)
(* command, two peers and the device's own key, and the requests below.    *)
EXTENDS ConfApply, TLC

CONSTANTS h1, h2, c1, wg0, file0, k1, k2, self, alice

Entry(k, n) == [key |-> k, remove |-> FALSE, updateOnly |-> FALSE, name |-> n]

Post(d, r, s) == [iface |-> d, cfg |-> [replace |-> r, peers |-> s], sync |-> FALSE, via |-> "post"]
Setconf(d, s) == [iface |-> d, cfg |-> [replace |-> TRUE, peers |-> s], sync |-> FALSE, via |-> "conf"]
Addconf(d, s) == [iface |-> d, cfg |-> [replace |-> FALSE, peers |-> s], sync |-> FALSE, via |-> "conf"]
Syncconf(d, s) == [iface |-> d, cfg |-> [replace |-> FALSE, peers |-> s], sync |-> TRUE, via |-> "conf"]

Text == {Setconf(wg0, <<Entry(k1, alice)>>),
         Setconf(wg0, <<>>),
         Addconf(wg0, <<Entry(k2, alice), Entry(self, alice)>>),
         Syncconf(wg0, <<Entry(k2, Keep)>>)}

Json == {Post(wg0, FALSE, <<Removal(k1), Entry(k1, Keep)>>),
         Post(wg0, FALSE, <<[Entry(k1, Clear) EXCEPT !.updateOnly = TRUE],
                            [Entry(k2, alice) EXCEPT !.updateOnly = TRUE]>>)}

MCRequests == Text \cup Json

\* One request of each shape, for the run with every fault.
FaultRequests == {Post(wg0, TRUE, <<Entry(k1, alice)>>),
                  Syncconf(wg0, <<Entry(k2, Keep)>>)}

MCFileOf  == [d \in Iface |-> file0]
=============================================================================
