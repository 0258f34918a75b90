------------------------------ MODULE MCTexts ------------------------------
(* Four parts in one run.  "rest": the requests of MCRestRequest.         *)
(* "gitee": two hosts, each with the other or a third machine as peers.    *)
(* "save": two runs of wg-quick save for one file, a third, a fourth ...   *)
(* "file": every file of wg-quick with up to three lines behind a header.  *)
EXTENDS MCRestRequest, GiteeSync, QuickSave

CONSTANTS addr, hook1, hook2, mtu

VARIABLE part

MCComputer == {"a", "b"}
MCKeyOf == [h \in MCComputer |-> IF h = "a" THEN "A" ELSE "B"]

FileLines ==
  {L("blank", Nil), L("junk", Nil), L("interface", Nil), L("peer", Nil), L("iface", v1),
   L("iface", Default), L("iface", Bad), L("address", addr), L("hook", hook1), L("hook", hook2),
   L("net", mtu), L("name", alice), L("publickey", k1), L("publickey", k2), L("setting", v1), L("setting", Default),
   L("setting", Host), L("allowedips", <<Op("set")>>), L("allowedips", <<Op("add")>>),
   L("allowedips", <<>>)}

FileUpTo(n) == UNION {[1..m -> FileLines] : m \in 0..n}

MCSources ==
  {h \o t : h \in {<<>>, Peer1, <<L("interface", Nil)>>}, t \in FileUpTo(2)}
    \cup {<<L("interface", Nil), l, L("peer", Nil), L("publickey", k1)>> \o t :
            l \in FileLines, t \in FileUpTo(2)}

Net == <<L("interface", Nil), L("net", mtu), L("hook", hook1)>>
MCOriginal == {Net \o Peer1, NoText}

Wg(d, i) == [wg |-> d, iface |-> i]
MCDeviceNow == {Wg(NoPeers, v1),
                Wg([NoPeers EXCEPT !.peers = {k2}, !.owner[ip1] = k2], Default)}

SaveRest ==
  /\ wg = Wg(NoPeers, v1) /\ content = <<[lines |-> <<>>, safe |-> TRUE]>>
  /\ path = 1 /\ tmp = 0 /\ saver = [x \in Saver |-> Resting] /\ begun = MaxSaves
  /\ first = NewFile /\ published = Nil /\ overlapped = FALSE /\ powerless = FALSE

RestRest ==
  /\ Idle /\ at = "idle" /\ req = NoRequest /\ body = NoBody
  /\ dev = Device0 /\ up = TRUE /\ status = 0 /\ turn = Len(Script)
  /\ shown = <<>> /\ shownOf = Device0 /\ before = Device0 /\ gone = FALSE

GiteeRest ==
  /\ peersOf = [h \in Computer |-> [k \in NodeKey |-> "none"]]
  /\ step = [h \in Computer |-> "idle"]
  /\ local = [h \in Computer |-> <<>>] /\ remote = [h \in Computer |-> <<>>]
  /\ gistID = [h \in Computer |-> 0] /\ gists = <<>>
  /\ seen = [h \in Computer |-> <<>>]
  /\ runs = [h \in Computer |-> 0] /\ stale = {}
  /\ latest = [g \in 1..MaxGists |-> [k \in NodeKey |-> "nobody"]]

TextsInit ==
  \/ part = "rest" /\ Init /\ GiteeRest /\ SaveRest /\ source = <<>>
  \/ part = "gitee" /\ RestRest /\ GiteeInit /\ SaveRest /\ source = <<>>
  \/ part = "save" /\ RestRest /\ GiteeRest /\ SaveInit /\ source = <<>>
  \/ part = "file" /\ RestRest /\ GiteeRest /\ SaveRest /\ QuickInit

TextsNext ==
  /\ UNCHANGED part
  /\ \/ part = "rest" /\ Next /\ UNCHANGED <<gvars, qvars>>
     \/ part = "gitee" /\ GiteeNext /\ UNCHANGED <<vars, qvars>>
     \/ part = "save" /\ SaveNext /\ UNCHANGED <<vars, gvars>>

TextsSpec == TextsInit /\ [][TextsNext]_<<vars, gvars, qvars, part>> /\ WF_vars(Serve)
=============================================================================
