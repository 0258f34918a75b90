---------------------------- MODULE MCRestRequest ----------------------------
(* Free requests first: every text of up to two lines, some more after the *)
(* header of a peer; structured configurations; every route, method and    *)
(* key.  Then the configuration is shown, the device is changed, or not,   *)
(* and what was shown is put back in every mode.                           *)
EXTENDS RestRequest

CONSTANTS k1, k2, ip1, host1, v1, alice, odd

Op(o) == [ip |-> ip1, op |-> o]
Lines ==
  {L("junk", Nil), L("interface", Nil), L("peer", Nil), L("iface", v1), L("name", alice),
   L("name", Clear), L("publickey", k1), L("setting", v1), L("setting", Host),
   L("allowedips", <<Op("set")>>), L("allowedips", <<Op("remove")>>)}

UpTo(n) == UNION {[1..m -> Lines] : m \in 0..n}
Peer1 == <<L("peer", Nil), L("publickey", k1)>>
Peer2 == <<L("peer", Nil), L("name", alice), L("publickey", k2), L("allowedips", <<Op("add")>>)>>

MCTexts == UpTo(1) \cup {Peer1 \o t : t \in UpTo(2)} \cup {Peer2}
             \cup {Peer1 \o <<l>> \o Peer2 : l \in {L("setting", v1), L("allowedips", <<Op("set")>>)}}

JSONEntry(k, n, s) ==
  [key |-> k, remove |-> FALSE, updateOnly |-> FALSE, name |-> n, setting |-> s,
   replaceIPs |-> FALSE, ips |-> <<ip1>>]
JSON(ps) == [iface |-> v1, replace |-> FALSE, peers |-> ps]
Bodies == {NoBody, JSON(<<JSONEntry(k1, odd, host1)>>), JSON(<<JSONEntry(k1, alice, Host)>>),
           JSON(<<JSONEntry(k2, Unset, Unset), JSONEntry(k1, Clear, Bad)>>),
           JSON(<<JSONEntry(k1, alice, v1), JSONEntry(k2, odd, Default)>>)}

Ask1(method, path, key, mode, sent) ==
  [method |-> method, path |-> path, key |-> key, mode |-> mode, body |-> sent]

Texts == {Ask1("PUT", "conf", Right, m, t) : m \in {"", "sync", "add"},
                                                     t \in MCTexts \cup {NoBody}}
Structures == {Ask1("POST", "device", Right, "", b) : b \in Bodies}
Others == {Ask1(m, p, key, "merge", NoBody) :
             m \in {"GET", "PUT", "DELETE"}, p \in Paths, key \in {Right, "wrong"}}
PutBacks == {Ask1("POST", "conf", Right, m, Shown) : m \in {"", "set", "sync"}}

Between == {Ask1("POST", "device", Right, "",
                 JSON(<<JSONEntry(k1, alice, v1), JSONEntry(k2, odd, Default)>>))}

MCScript == <<Texts \cup Structures \cup Others,
              {Ask1("GET", "conf", Right, "", NoBody)}, Between, PutBacks>>

Device0 == [wg |-> [NoPeers EXCEPT !.peers = {k1, k2}, !.setting[k1] = v1, !.owner[ip1] = k2],
            iface |-> v1, names |-> [Meta!NoNames EXCEPT ![k2] = alice]]
MCStart == {Device0}
=============================================================================
