----------------------------- MODULE GiteeSync -----------------------------
(***************************************************************************)
(* wg syncgitee on several hosts: each publishes its own node and its view *)
(* of its peers in a file on Gitee, by reading the file, merging and       *)
(* writing it back.  A node is its key, the host that wrote it, whether it *)
(* has the private key and whether its lines can be read again: a list of  *)
(* allowed IPs longer than bufio.Scanner's line, or a name with a line     *)
(* break, cannot.                                                          *)
(***************************************************************************)
EXTENDS Naturals, Sequences, FiniteSets, SequencesExt

CONSTANTS
  Computer,  \* the hosts
  NodeKey,   \* public keys, of hosts and of other peers
  KeyOf,     \* the key of each host
  MaxGists,  \* bound on the files that get created
  MaxRuns    \* bound on the runs of each host

VARIABLES
  peersOf,  \* the peers of each host's interface: key to "can be read again"
  step,     \* where each run of wg syncgitee is
  local,    \* the nodes the run has collected
  remote,   \* the nodes the run has read
  gistID,   \* the file each host is told to use, 0 for none
  gists,    \* the files on Gitee
  runs,     \* runs made by each host
  seen,     \* the content each run has seen of its file
  stale,    \* files some run has written over a version it had not read
  latest    \* per file and key, the host whose view was written last

own == <<step, local, remote>>
history == <<seen, stale, latest>>
gvars == <<peersOf, own, gistID, gists, runs, history>>

ASSUME HostKeys ==
  /\ IsFiniteSet(NodeKey) /\ "nobody" \notin Computer
  /\ \A h \in Computer : KeyOf[h] \in NodeKey
  /\ MaxGists \in Nat /\ MaxRuns \in Nat

Node == [key : NodeKey, by : Computer, private : BOOLEAN, readable : BOOLEAN]
KeysIn(nodes) == {nodes[n].key : n \in DOMAIN nodes}
Views == [NodeKey -> {"none", "readable", "odd"}]

GiteeInit ==
  /\ peersOf \in [Computer -> Views]
  /\ \A h \in Computer : peersOf[h][KeyOf[h]] = "none"
  /\ step = [h \in Computer |-> "idle"]
  /\ local = [h \in Computer |-> <<>>]
  /\ remote = [h \in Computer |-> <<>>]
  /\ gistID = [h \in Computer |-> 0]
  /\ gists = <<>>
  /\ runs = [h \in Computer |-> 0]
  /\ seen = [h \in Computer |-> <<>>]
  /\ stale = {}
  /\ latest = [g \in 1..MaxGists |-> [k \in NodeKey |-> "nobody"]]

(* syncGiteeNodes: the host's own node with its private key, then one for  *)
(* each peer.                                                              *)
PeerNode(h, k) ==
  [key |-> k, by |-> h, private |-> FALSE, readable |-> peersOf[h][k] = "readable"]

Nodes(h) ==
  LET order == SetToSeq({k \in NodeKey : peersOf[h][k] # "none"})
  IN  <<[key |-> KeyOf[h], by |-> h, private |-> TRUE, readable |-> TRUE]>>
        \o [i \in DOMAIN order |-> PeerNode(h, order[i])]

Goes(h, from, to) ==
  /\ step[h] = from
  /\ step' = [step EXCEPT ![h] = to]
  /\ UNCHANGED <<peersOf, gistID>>

Ends(h, from) ==
  /\ Goes(h, from, "idle")
  /\ local' = [local EXCEPT ![h] = <<>>]
  /\ remote' = [remote EXCEPT ![h] = <<>>]
  /\ seen' = [seen EXCEPT ![h] = <<>>]
  /\ UNCHANGED runs

ReadDevice(h) ==
  /\ runs[h] < MaxRuns
  /\ Goes(h, "idle", IF gistID[h] = 0 THEN "create" ELSE "read")
  /\ runs' = [runs EXCEPT ![h] = @ + 1]
  /\ local' = [local EXCEPT ![h] = Nodes(h)]
  /\ UNCHANGED <<remote, gists, history>>

(* A request that fails, or content that cannot be parsed: the run is over *)
(* and has written nothing.                                                *)
RequestFails(h) ==
  /\ step[h] \in {"create", "read", "update"}
  /\ Ends(h, step[h])
  /\ UNCHANGED <<gists, stale, latest>>

Wrote(g, nodes, h) ==
  latest' = [latest EXCEPT ![g] =
               [k \in NodeKey |-> IF k \in KeysIn(nodes) THEN h ELSE @[k]]]

(* The answer has the ID of the new file; if it is lost, the file is there *)
(* and nobody knows.  The user tells the hosts the ID (TellID).            *)
CreateGist(h) ==
  /\ Len(gists) < MaxGists
  /\ Ends(h, "create")
  /\ gists' = Append(gists, local[h])
  /\ Wrote(Len(gists) + 1, local[h], h)
  /\ UNCHANGED stale

TellID(h) ==
  /\ \E g \in DOMAIN gists : g # gistID[h] /\ gistID' = [gistID EXCEPT ![h] = g]
  /\ step[h] = "idle"
  /\ UNCHANGED <<peersOf, own, gists, runs, history>>

Parses(nodes) == \A n \in DOMAIN nodes : nodes[n].readable

ReadGist(h) ==
  /\ gistID[h] # 0
  /\ Parses(gists[gistID[h]])
  /\ Goes(h, "read", "update")
  /\ remote' = [remote EXCEPT ![h] = gists[gistID[h]]]
  /\ seen' = [seen EXCEPT ![h] = gists[gistID[h]]]
  /\ UNCHANGED <<local, gists, runs, stale, latest>>

(* A slip to exclude: a node that is there already stays.                 *)
MergeKeep(theirs, ours) == theirs \o SelectSeq(ours, LAMBDA n : n.key \notin KeysIn(theirs))

(* mergeSyncGiteeNodes: a local node takes the place of the remote one     *)
(* with its key, or the end.                                               *)
Merge(theirs, ours) ==
  FoldLeft(LAMBDA merged, node :
             IF node.key \in KeysIn(merged)
               THEN [n \in DOMAIN merged |-> IF merged[n].key = node.key THEN node ELSE merged[n]]
             ELSE Append(merged, node),
           theirs, ours)

(* The answer may be lost; the file has been written all the same.         *)
UpdateGist(h) ==
  /\ Ends(h, "update")
  /\ LET g == gistID[h] IN
       /\ gists' = [gists EXCEPT ![g] = Merge(remote[h], local[h])]
       /\ stale' = IF gists[g] = seen[h] THEN stale ELSE stale \cup {g}
       /\ Wrote(g, local[h], h)

(* Somebody configures a peer, or removes one.                             *)
ConfigurePeer(h) ==
  /\ step[h] = "idle"
  /\ \E k \in NodeKey \ {KeyOf[h]}, v \in {"none", "readable", "odd"} :
       peersOf' = [peersOf EXCEPT ![h][k] = v]
  /\ UNCHANGED <<own, gistID, gists, runs, history>>

GiteeNext ==
  \E h \in Computer :
    \/ ReadDevice(h) \/ RequestFails(h)
    \/ CreateGist(h) \/ TellID(h)
    \/ ReadGist(h) \/ UpdateGist(h)
    \/ ConfigurePeer(h)

GiteeSpec == GiteeInit /\ [][GiteeNext]_gvars
-----------------------------------------------------------------------------
(* What a file says, whatever fails and in whichever order hosts write, as *)
(* long as no run writes over a version it has not read (with two hosts at *)
(* work at the same time nothing prevents that, syncgitee_linux.go:149):   *)
(* exactly one node for each key that was ever published in it, none lost  *)
(* and none twice, so that the next merge replaces what it means to        *)
(* replace; and it is the node of the host that wrote about the key last,  *)
(* so a host's own node, with its private key, stays until a host writes   *)
(* that has it as a peer (syncgitee_linux.go:428-443).                     *)
Published ==
  \A g \in DOMAIN gists \ stale :
    /\ KeysIn(gists[g]) = {k \in NodeKey : latest[g][k] # "nobody"}
    /\ Cardinality(KeysIn(gists[g])) = Len(gists[g])
    /\ \A n \in DOMAIN gists[g] :
         LET node == gists[g][n] IN
         /\ node.by = latest[g][node.key]
         /\ node.private <=> node.key = KeyOf[node.by]
=============================================================================
