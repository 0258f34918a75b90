------------------------- MODULE MCKernelConfigure -------------------------
(* Configurations of one or two entries, with one peer and two allowed IPs *)
(* per message: lists that end before, at and after a boundary.            *)
EXTENDS KernelConfigure, TLC

CONSTANTS k1, k2, k3, a, b, s, old

Adds  == {<<>>, <<a>>, <<a, b>>, <<b, a, b>>}
Edits == {<<>>, <<[ip |-> a, op |-> "remove"]>>,
          <<[ip |-> b, op |-> "set"], [ip |-> a, op |-> "remove"]>>}
Flags == {[remove |-> r, updateOnly |-> u, replaceIPs |-> x, setting |-> s] :
            r, u, x \in BOOLEAN}

Entry(k, f, i, o) ==
  [key |-> k, remove |-> f.remove, updateOnly |-> f.updateOnly,
   setting |-> f.setting, replaceIPs |-> f.replaceIPs, ips |-> i, ops |-> o]

Plain == [remove |-> FALSE, updateOnly |-> FALSE, replaceIPs |-> FALSE, setting |-> Unset]
Whole == [Plain EXCEPT !.replaceIPs = TRUE, !.setting = s]

\* The entry after the first: a plain one, or one with three operations.
Second(k) == {Entry(k, Whole, <<a>>, <<>>),
              Entry(k, Plain, <<>>, <<[ip |-> b, op |-> "set"], [ip |-> a, op |-> "remove"],
                                      [ip |-> a, op |-> "add"]>>)}

MCInput ==
  {[replace |-> r, peers |-> <<Entry(k1, f, i, o)>> \o t] :
     r \in BOOLEAN, f \in Flags, i \in Adds, o \in Edits,
     t \in {<<>>} \cup {<<e>> : e \in Second(k2)}}

\* A peer that is removed and added again, with others that fill the message.
TwiceInput ==
  {[replace |-> FALSE, peers |-> <<Entry(k1, [Plain EXCEPT !.remove = TRUE], <<>>, <<>>),
                                   Entry(k1, Whole, <<a>>, <<>>)>> \o t] :
     t \in {<<>>, <<Entry(k2, Plain, <<b>>, <<>>)>>}}

MCStart ==
  {[peers |-> P, setting |-> [k \in Key |-> IF k \in P THEN old ELSE Default],
    owner |-> [x \in IP |-> IF k2 \in P THEN k2 ELSE Nobody]] :
      P \in {{}, {k2, k3}, Key}}
=============================================================================
