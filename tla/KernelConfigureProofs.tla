------------------------ MODULE KernelConfigureProofs -----------------------
(***************************************************************************)
(* What buildBatches sends and what it leaves, for every configuration and *)
(* every size of a message.                                                *)
(*                                                                         *)
(* BatchesFit: the invariant (Building) says of the messages that are      *)
(* ready what MessagesFit does, and of the entry that is being cut what is *)
(* still left of it.                                                       *)
(*                                                                         *)
(* RetriesComplete, BatchesKeep: if no key is named twice, the messages    *)
(* that are ready and what is left of the entry do to any device what the  *)
(* entries so far do (Cut), the device is on its way to the goal from one  *)
(* that the whole configuration would take there (Underway), and it would  *)
(* still take this one there (ToGoal).  The last is what an attempt after  *)
(* a refusal begins with.  It rests on two facts about devices: a part of  *)
(* an entry and the rest after it do what the entry does (PartThenRest),   *)
(* and a part that was done before loses nothing (PartFirst).  Both need   *)
(* what a list of allowed IPs does in closed form (GivenParts), which is   *)
(* proved along the recursion of FoldLeft.                                 *)
(*                                                                         *)
(* The rest is about the clients of the other kernels: that their errors   *)
(* are true (IoctlErrorsAreTrue), that what they send is what they were    *)
(* asked to configure (ConfiguredAsAsked), and that what they read is what *)
(* was there (IoctlReadsAreTrue).                                          *)
(***************************************************************************)
EXTENDS KernelConfigure, IoctlDevices, KernelDataProofs

(* A message of one entry, as MessagesFit wants it.                        *)
EntryFits(q) ==
  /\ Len(q.ips) + Len(q.ops) <= IPChunk
  /\ Len(q.ips) + Len(q.ops) = 0 =>
       \E l \in DOMAIN cfg.peers :
         cfg.peers[l].key = q.key /\ cfg.peers[l].ips = <<>> /\ cfg.peers[l].ops = <<>>

(* The entry that is being cut is the j-th.  If nothing is left of it,     *)
(* there was nothing in it.                                                *)
Cutting ==
  pc = "chunk" =>
    /\ j \in DOMAIN cfg.peers /\ p \in PeerConfig
    /\ p.key = cfg.peers[j].key
    /\ p.ips = <<>> /\ p.ops = <<>> => cfg.peers[j].ips = <<>> /\ cfg.peers[j].ops = <<>>

Ready ==
  /\ batches \in Seq(Config)
  /\ ShouldBatch(cfg) =>
       \A i \in DOMAIN batches : EntryFits(batches[i].peers[1])

Building == cfg \in Config /\ j \in Nat /\ Cutting /\ Ready

(* Cutting takes a beginning of a list and leaves a list.                  *)
LEMMA CutList ==
  ASSUME NEW S, NEW s \in Seq(S), NEW n \in 0..Len(s)
  PROVE  /\ SubSeq(s, 1, n) \in Seq(S) /\ Len(SubSeq(s, 1, n)) = n
         /\ Rest(n, s) \in Seq(S)
<1>1. /\ Len(s) \in Nat /\ n \in Nat /\ n <= Len(s)
      /\ \A i \in 1..Len(s) : s[i] \in S
  OBVIOUS
<1>2. SubSeq(s, 1, n) \in Seq(S) /\ Len(SubSeq(s, 1, n)) = n
  BY <1>1
<1>3. SubSeq(s, n + 1, Len(s)) \in Seq(S)
  BY <1>1
<1> QED
  BY <1>2, <1>3 DEF Rest

(* What a message takes of an entry fits, and takes something unless there *)
(* is nothing.                                                             *)
LEMMA PartFits ==
  ASSUME p \in PeerConfig
  PROVE  /\ Part \in PeerConfig /\ Part.key = p.key
         /\ Len(Part.ips) + Len(Part.ops) <= IPChunk
         /\ Len(Part.ips) + Len(Part.ops) = 0 => p.ips = <<>> /\ p.ops = <<>>
         /\ [p EXCEPT !.ips = Rest(TakeIPs, @), !.ops = Rest(TakeOps, @)] \in PeerConfig
<1>1. p.ips \in Seq(IP) /\ p.ops \in Seq(Operation)
  BY DEF PeerConfig, Operation
<1>2. IPChunk \in Nat /\ IPChunk > 0
  BY ChunkSizes
<1>3. Len(p.ips) \in Nat /\ Len(p.ops) \in Nat
  BY <1>1
<1>4. /\ TakeIPs \in 0..Len(p.ips) /\ TakeIPs <= IPChunk
      /\ TakeIPs = 0 => Len(p.ips) = 0
  BY <1>2, <1>3 DEF TakeIPs, LowerOf
<1>5. /\ TakeOps \in 0..Len(p.ops) /\ TakeIPs + TakeOps <= IPChunk
      /\ TakeIPs + TakeOps = 0 => Len(p.ips) = 0 /\ Len(p.ops) = 0
  BY <1>2, <1>3, <1>4 DEF TakeOps, LowerOf
<1> DEFINE ips == SubSeq(p.ips, 1, TakeIPs)
           ops == SubSeq(p.ops, 1, TakeOps)
<1>6. /\ ips \in Seq(IP) /\ Len(ips) = TakeIPs /\ Rest(TakeIPs, p.ips) \in Seq(IP)
  BY <1>1, <1>4, CutList
<1>7. /\ ops \in Seq(Operation) /\ Len(ops) = TakeOps /\ Rest(TakeOps, p.ops) \in Seq(Operation)
  BY <1>1, <1>5, CutList
<1> HIDE DEF ips, ops
<1>8. Part = [p EXCEPT !.ips = ips, !.ops = ops,
                       !.setting = IF p.key \in known THEN Unset ELSE @,
                       !.replaceIPs = p.key \notin known /\ @]
  BY DEF Part, ips, ops
<1>9. Part \in PeerConfig /\ Part.ips = ips /\ Part.ops = ops /\ Part.key = p.key
  BY <1>6, <1>7, <1>8 DEF PeerConfig, Operation
<1>10. [p EXCEPT !.ips = Rest(TakeIPs, @), !.ops = Rest(TakeOps, @)] \in PeerConfig
  BY <1>6, <1>7 DEF PeerConfig, Operation
<1>11. Len(Part.ips) + Len(Part.ops) = TakeIPs + TakeOps
  BY <1>6, <1>7, <1>9
<1>12. Len(p.ips) = 0 /\ Len(p.ops) = 0 => p.ips = <<>> /\ p.ops = <<>>
  BY <1>1
<1> QED
  BY <1>5, <1>9, <1>10, <1>11, <1>12

(* Nothing is ready before the call.                                       *)
LEMMA BuildingInit == Init => Building
  BY InputTypes DEF Init, Building, Cutting, Ready

(* Every step keeps it.                                                    *)
LEMMA BuildingStep == Building /\ [Next]_vars => Building'
<1> SUFFICES ASSUME Building, [Next]_vars PROVE Building'
  OBVIOUS
<1>1. /\ cfg \in Config /\ j \in Nat /\ batches \in Seq(Config)
      /\ cfg.peers \in Seq(PeerConfig)
  BY DEF Building, Ready, Config
<1>2. CASE Small
  BY <1>1, <1>2 DEF Building, Cutting, Ready, Small
<1>3. CASE Large \/ EndPeers
  BY <1>3 DEF Building, Cutting, Ready, EntryFits, Large, EndPeers
<1>4. CASE BeginPeer
  <2>1. /\ j < Len(cfg.peers) /\ j' = j + 1 /\ p' = cfg.peers[j + 1]
        /\ UNCHANGED <<cfg, batches>>
    BY <1>4 DEF BeginPeer
  <2>2. j' \in DOMAIN cfg.peers /\ p' \in PeerConfig /\ j' \in Nat
    BY <1>1, <2>1
  <2> QED
    BY <2>1, <2>2 DEF Building, Cutting, Ready, EntryFits
<1>5. CASE Chunk
  <2> DEFINE m == [replace |-> cfg.replace, peers |-> <<Part>>]
  <2>1. /\ pc = "chunk" /\ batches' = Append(batches, m)
        /\ p' = [p EXCEPT !.ips = Rest(TakeIPs, @), !.ops = Rest(TakeOps, @)]
        /\ pc' = IF p'.ips = <<>> /\ p'.ops = <<>> THEN "peer" ELSE "chunk"
        /\ UNCHANGED <<cfg, j>>
    BY <1>5 DEF Chunk
  <2>2. /\ j \in DOMAIN cfg.peers /\ p \in PeerConfig
        /\ p.key = cfg.peers[j].key
        /\ p.ips = <<>> /\ p.ops = <<>> => cfg.peers[j].ips = <<>> /\ cfg.peers[j].ops = <<>>
    BY <2>1 DEF Building, Cutting
  <2>3. m \in Config /\ m.peers[1] = Part
    BY <1>1, <2>2, PartFits DEF Config
  <2>4. EntryFits(Part)
    BY <2>2, PartFits DEF EntryFits
  <2>5. p' \in PeerConfig /\ p'.key = p.key
    <3>1. p' \in PeerConfig
      BY <2>1, <2>2, PartFits
    <3> QED
      BY <2>1, <2>2, <3>1 DEF PeerConfig
  <2>6. Cutting'
    BY <2>1, <2>2, <2>5 DEF Cutting
  <2> HIDE DEF m
  <2>7. /\ Append(batches, m) \in Seq(Config)
        /\ \A i \in DOMAIN Append(batches, m) :
             \/ i \in DOMAIN batches /\ Append(batches, m)[i] = batches[i]
             \/ Append(batches, m)[i] = m
    BY <1>1, <2>3
  <2>8. Ready'
    <3> SUFFICES ASSUME ShouldBatch(cfg), NEW i \in DOMAIN Append(batches, m)
                 PROVE  EntryFits(Append(batches, m)[i].peers[1])
      BY <2>1, <2>7 DEF Ready, EntryFits
    <3> QED
      BY <2>3, <2>4, <2>7 DEF Building, Ready
  <2> QED
    BY <2>1, <2>6, <2>8 DEF Building
<1>6. CASE ClearReplace
  <2> DEFINE b == [i \in DOMAIN batches |-> [batches[i] EXCEPT !.replace = @ /\ i = 1]]
  <2>1. /\ batches' = b /\ pc' = "send" /\ UNCHANGED <<cfg, j>>
    BY <1>6 DEF ClearReplace
  <2>2. DOMAIN batches = 1..Len(batches) /\ Len(batches) \in Nat
        /\ \A i \in DOMAIN batches : batches[i] \in Config
    BY <1>1
  <2>3. ASSUME NEW i \in DOMAIN batches
        PROVE  b[i] \in Config /\ b[i].peers = batches[i].peers
    BY <2>2 DEF Config
  <2>4. b \in Seq(Config) /\ DOMAIN b = DOMAIN batches
    BY <2>2, <2>3
  <2> HIDE DEF b
  <2> QED
    BY <2>1, <2>3, <2>4 DEF Building, Cutting, Ready, EntryFits
<1>7. CASE Send \/ SendFails \/ Return
  BY <1>7 DEF Building, Cutting, Ready, EntryFits, Send, SendFails, Return
<1>8. CASE Again
  BY <1>8 DEF Building, Cutting, Ready, Again
<1>9. CASE UNCHANGED vars
  BY <1>9 DEF vars, Building, Cutting, Ready, EntryFits
<1> QED
  BY <1>2, <1>3, <1>4, <1>5, <1>6, <1>7, <1>8, <1>9 DEF Next, Run

(* A message of a large configuration holds at most IPChunk allowed IPs,   *)
(* and none only for an entry without any (configure_linux.go:99-138), for *)
(* every configuration and every IPChunk.                                  *)
THEOREM BatchesFit == Spec => []MessagesFit
<1>1. Building => MessagesFit
  BY DEF Building, Ready, EntryFits, MessagesFit
<1> QED
  BY BuildingInit, BuildingStep, <1>1, PTL DEF Spec
-----------------------------------------------------------------------------
(* An entry in two messages, and an entry twice                            *)

(* The first part of an entry carries it all, the second only IPs.         *)
LEMMA PartThenRest ==
  ASSUME NEW d \in Device, NEW e \in Encoded, NEW q \in Encoded, NEW r \in Encoded,
         q.key = e.key, q.remove = e.remove, q.updateOnly = e.updateOnly,
         r.key = e.key, r.remove = e.remove, r.updateOnly = e.updateOnly,
         q.setting = e.setting, r.setting = Unset,
         q.replaceIPs = e.replaceIPs, r.replaceIPs = FALSE,
         e.allowed = q.allowed \o r.allowed
  PROVE  SetPeer(SetPeer(d, q), r) = SetPeer(d, e)
<1> DEFINE c == SetPeer(d, q)
           f == SetPeer(c, r)
           g == SetPeer(d, e)
<1>1. c \in Device /\ g \in Device
  BY SetPeerParts
<1>2. f \in Device
  BY <1>1, SetPeerParts
<1>3. CASE ~Acts(e, d)
  <2>1. ~Acts(q, d) /\ ~Acts(r, d)
    BY <1>3 DEF Acts
  <2> QED
    BY <1>3, <2>1, SetPeerParts
<1>4. CASE Acts(e, d)
  <2>1. Acts(q, d)
    BY <1>4 DEF Acts
  <2>2. c.peers = IF e.remove THEN d.peers \ {e.key} ELSE d.peers \cup {e.key}
    BY <2>1, SetPeerParts, ZenonT(40)
  <2>3. Acts(r, c)
    BY <1>4, <2>2 DEF Acts
  <2> DEFINE Base(x) == IF e.replaceIPs THEN Disowned(e.key, x) ELSE x
  <2>4. /\ \A x \in Key : c.setting[x] =
                   IF x # q.key THEN d.setting[x]
                   ELSE IF q.remove THEN Default
                   ELSE IF q.setting = Unset THEN d.setting[x] ELSE q.setting
        /\ \A a \in IP : c.owner[a] =
                   IF q.remove THEN Disowned(q.key, d.owner[a])
                   ELSE OwnedAfter(q.key, IF q.replaceIPs THEN Disowned(q.key, d.owner[a])
                                          ELSE d.owner[a], q.allowed, a)
    BY <2>1, SetPeerParts
  <2> HIDE DEF c
  <2>5. /\ f.peers = IF r.remove THEN c.peers \ {r.key} ELSE c.peers \cup {r.key}
        /\ \A x \in Key : f.setting[x] =
                   IF x # r.key THEN c.setting[x]
                   ELSE IF r.remove THEN Default
                   ELSE IF r.setting = Unset THEN c.setting[x] ELSE r.setting
        /\ \A a \in IP : f.owner[a] =
                   IF r.remove THEN Disowned(r.key, c.owner[a])
                   ELSE OwnedAfter(r.key, IF r.replaceIPs THEN Disowned(r.key, c.owner[a])
                                          ELSE c.owner[a], r.allowed, a)
    BY <1>1, <2>3, SetPeerParts
  <2> HIDE DEF f
  <2>6. /\ f.peers = IF e.remove THEN c.peers \ {e.key} ELSE c.peers \cup {e.key}
        /\ \A x \in Key : f.setting[x] =
                   IF x # e.key THEN c.setting[x]
                   ELSE IF e.remove THEN Default ELSE c.setting[x]
        /\ \A a \in IP : f.owner[a] =
                   IF e.remove THEN Disowned(e.key, c.owner[a])
                   ELSE OwnedAfter(e.key, c.owner[a], r.allowed, a)
    BY <2>5
  <2>7. /\ g.peers = IF e.remove THEN d.peers \ {e.key} ELSE d.peers \cup {e.key}
        /\ \A x \in Key : g.setting[x] =
                   IF x # e.key THEN d.setting[x]
                   ELSE IF e.remove THEN Default
                   ELSE IF e.setting = Unset THEN d.setting[x] ELSE e.setting
        /\ \A a \in IP : g.owner[a] =
                   IF e.remove THEN Disowned(e.key, d.owner[a])
                   ELSE OwnedAfter(e.key, Base(d.owner[a]), e.allowed, a)
    BY <1>4, SetPeerParts
  <2> HIDE DEF f, g
  <2>8. f.peers = g.peers
    BY <2>2, <2>6, <2>7
  <2>9. \A x \in Key : f.setting[x] = g.setting[x]
    BY <2>4, <2>6, <2>7
  <2>10. \A a \in IP : f.owner[a] = g.owner[a]
    <3> TAKE a \in IP
    <3>0. c.owner[a] = IF e.remove THEN Disowned(e.key, d.owner[a])
                       ELSE OwnedAfter(e.key, Base(d.owner[a]), q.allowed, a)
      BY <2>4
    <3>1. CASE e.remove
      BY <2>6, <2>7, <3>0, <3>1 DEF Disowned
    <3>2. CASE ~e.remove
      <4>1. q.allowed \in Seq(AllowedIP) /\ r.allowed \in Seq(AllowedIP)
        BY DEF Encoded
      <4>2. OwnedAfter(e.key, Base(d.owner[a]), q.allowed \o r.allowed, a)
              = OwnedAfter(e.key, OwnedAfter(e.key, Base(d.owner[a]), q.allowed, a), r.allowed, a)
        BY <4>1, OwnedInTurn
      <4> HIDE DEF Base
      <4> QED
        BY <2>6, <2>7, <3>0, <3>2, <4>2
    <3> QED
      BY <3>1, <3>2
  <2> QED
    BY <1>1, <1>2, <2>8, <2>9, <2>10, SameDevice DEF f, g, c
<1> QED
  BY <1>3, <1>4

(* A part of an entry sets nothing that the entry does not.                *)
PartOf(q, e) ==
  /\ q.key = e.key /\ q.remove = e.remove /\ q.updateOnly = e.updateOnly
  /\ q.setting = Unset \/ q.setting = e.setting
  /\ q.replaceIPs => e.replaceIPs
  /\ \A a \in IP : (Gives(q.allowed, a) => Gives(e.allowed, a))
                   /\ (Takes(q.allowed, a) => Takes(e.allowed, a))

(* c is d but for what the entry e will set.                               *)
Awaits(e, d, c) ==
  /\ Acts(e, d) /\ Acts(e, c)
  /\ \A x \in Key : x # e.key => (x \in d.peers <=> x \in c.peers)
  /\ \A x \in Key : \/ d.setting[x] = c.setting[x]
                    \/ x = e.key /\ (e.remove \/ e.setting # Unset)
  /\ \A a \in IP : \/ d.owner[a] = c.owner[a]
                   \/ ~e.remove /\ Gives(e.allowed, a)
                   \/ /\ e.remove \/ e.replaceIPs \/ Takes(e.allowed, a)
                      /\ d.owner[a] = e.key /\ c.owner[a] = Nobody

(* After a part of an entry the device differs only in what the entry      *)
(* sets.                                                                   *)
LEMMA PartAwaits ==
  ASSUME NEW d \in Device, NEW e \in Encoded, NEW q \in Encoded, PartOf(q, e), Acts(e, d)
  PROVE  Awaits(e, d, SetPeer(d, q))
<1> DEFINE c == SetPeer(d, q)
<1>1. /\ q.key = e.key /\ q.remove = e.remove /\ q.updateOnly = e.updateOnly
      /\ q.setting = Unset \/ q.setting = e.setting
      /\ q.replaceIPs => e.replaceIPs
      /\ e.key \in Key
  BY DEF PartOf, Encoded
<1>2. Acts(q, d)
  BY <1>1 DEF Acts
<1>3. c.peers = IF q.remove THEN d.peers \ {q.key} ELSE d.peers \cup {q.key}
  BY <1>2, SetPeerParts
<1>4. ASSUME NEW x \in Key
      PROVE  c.setting[x] = IF x # q.key THEN d.setting[x]
                   ELSE IF q.remove THEN Default
                   ELSE IF q.setting = Unset THEN d.setting[x] ELSE q.setting
  BY <1>2, SetPeerParts
<1>5. ASSUME NEW a \in IP
      PROVE  c.owner[a] = IF q.remove THEN Disowned(q.key, d.owner[a])
                   ELSE OwnedAfter(q.key, IF q.replaceIPs THEN Disowned(q.key, d.owner[a])
                                          ELSE d.owner[a], q.allowed, a)
  BY <1>2, SetPeerParts
<1> HIDE DEF c
<1>6. Acts(e, c)
  BY <1>1, <1>3 DEF Acts
<1>7. \A x \in Key : x # e.key => (x \in d.peers <=> x \in c.peers)
  BY <1>1, <1>3
<1>8. \A x \in Key : \/ d.setting[x] = c.setting[x]
                     \/ x = e.key /\ (e.remove \/ e.setting # Unset)
  BY <1>1, <1>4
<1>9. ASSUME NEW a \in IP
      PROVE  \/ d.owner[a] = c.owner[a]
             \/ ~e.remove /\ Gives(e.allowed, a)
             \/ /\ e.remove \/ e.replaceIPs \/ Takes(e.allowed, a)
                /\ d.owner[a] = e.key /\ c.owner[a] = Nobody
  <2>1. (Gives(q.allowed, a) => Gives(e.allowed, a)) /\ (Takes(q.allowed, a) => Takes(e.allowed, a))
    BY DEF PartOf
  <2>2. CASE e.remove
    BY <1>1, <1>5, <2>2 DEF Disowned
  <2>3. CASE ~e.remove
    BY <1>1, <1>5, <2>1, <2>3 DEF OwnedAfter, Disowned
  <2> QED
    BY <2>2, <2>3
<1>10. Awaits(e, d, c)
  BY <1>6, <1>7, <1>8, <1>9 DEF Awaits
<1> QED
  BY <1>10 DEF c

(* Other entries do not disturb that.                                      *)
LEMMA OthersAwait ==
  ASSUME NEW d \in Device, NEW c \in Device, NEW e \in Encoded, NEW v \in Encoded,
         v.key # e.key, Awaits(e, d, c)
  PROVE  Awaits(e, SetPeer(d, v), SetPeer(c, v))
<1> DEFINE f == SetPeer(d, v)
           g == SetPeer(c, v)
<1>0. v.key \in Key /\ e.key \in Key
  BY DEF Encoded
<1>1. Acts(v, d) <=> Acts(v, c)
  BY <1>0 DEF Acts, Awaits
<1>2. CASE ~Acts(v, d)
  BY <1>1, <1>2, SetPeerParts
<1>3. CASE Acts(v, d)
  <2> DEFINE Base(x) == IF v.replaceIPs THEN Disowned(v.key, x) ELSE x
  <2>1. /\ f.peers = IF v.remove THEN d.peers \ {v.key} ELSE d.peers \cup {v.key}
        /\ \A x \in Key : f.setting[x] =
                   IF x # v.key THEN d.setting[x]
                   ELSE IF v.remove THEN Default
                   ELSE IF v.setting = Unset THEN d.setting[x] ELSE v.setting
        /\ \A a \in IP : f.owner[a] =
                   IF v.remove THEN Disowned(v.key, d.owner[a])
                   ELSE OwnedAfter(v.key, Base(d.owner[a]), v.allowed, a)
    BY <1>3, SetPeerParts
  <2>2. /\ g.peers = IF v.remove THEN c.peers \ {v.key} ELSE c.peers \cup {v.key}
        /\ \A x \in Key : g.setting[x] =
                   IF x # v.key THEN c.setting[x]
                   ELSE IF v.remove THEN Default
                   ELSE IF v.setting = Unset THEN c.setting[x] ELSE v.setting
        /\ \A a \in IP : g.owner[a] =
                   IF v.remove THEN Disowned(v.key, c.owner[a])
                   ELSE OwnedAfter(v.key, Base(c.owner[a]), v.allowed, a)
    BY <1>1, <1>3, SetPeerParts
  <2> HIDE DEF f, g
  <2>3. Acts(e, f) /\ Acts(e, g)
    BY <2>1, <2>2 DEF Acts, Awaits
  <2>4. \A x \in Key : x # e.key => (x \in f.peers <=> x \in g.peers)
    BY <2>1, <2>2 DEF Awaits
  <2>5. \A x \in Key : \/ f.setting[x] = g.setting[x]
                       \/ x = e.key /\ (e.remove \/ e.setting # Unset)
    BY <2>1, <2>2 DEF Awaits
  <2>6. ASSUME NEW a \in IP
        PROVE  \/ f.owner[a] = g.owner[a]
               \/ ~e.remove /\ Gives(e.allowed, a)
               \/ /\ e.remove \/ e.replaceIPs \/ Takes(e.allowed, a)
                  /\ f.owner[a] = e.key /\ g.owner[a] = Nobody
    <3>1. CASE d.owner[a] = c.owner[a]
      BY <2>1, <2>2, <3>1
    <3>2. CASE ~e.remove /\ Gives(e.allowed, a)
      BY <3>2
    <3>3. CASE /\ e.remove \/ e.replaceIPs \/ Takes(e.allowed, a)
               /\ d.owner[a] = e.key /\ c.owner[a] = Nobody
      <4>1. f.owner[a] = IF v.remove THEN Disowned(v.key, e.key)
                   ELSE OwnedAfter(v.key, Base(e.key), v.allowed, a)
        BY <2>1, <3>3
      <4>2. g.owner[a] = IF v.remove THEN Disowned(v.key, Nobody)
                   ELSE OwnedAfter(v.key, Base(Nobody), v.allowed, a)
        BY <2>2, <3>3
      <4> QED
        BY <3>3, <4>1, <4>2 DEF Disowned, OwnedAfter
    <3> QED
      BY <3>1, <3>2, <3>3 DEF Awaits
  <2>7. Awaits(e, f, g)
    BY <2>3, <2>4, <2>5, <2>6 DEF Awaits
  <2> QED
    BY <2>7 DEF f, g
<1> QED
  BY <1>2, <1>3

(* The entry itself makes up for the difference.                           *)
LEMMA EntryMakesUp ==
  ASSUME NEW d \in Device, NEW c \in Device, NEW e \in Encoded, Awaits(e, d, c)
  PROVE  SetPeer(d, e) = SetPeer(c, e)
<1> DEFINE f == SetPeer(d, e)
           g == SetPeer(c, e)
           Base(x) == IF e.replaceIPs THEN Disowned(e.key, x) ELSE x
<1>0. e.key \in Key /\ d.peers \subseteq Key /\ c.peers \subseteq Key
  BY DEF Encoded, Device
<1>1. /\ f \in Device
      /\ f.peers = IF e.remove THEN d.peers \ {e.key} ELSE d.peers \cup {e.key}
      /\ \A x \in Key : f.setting[x] =
                   IF x # e.key THEN d.setting[x]
                   ELSE IF e.remove THEN Default
                   ELSE IF e.setting = Unset THEN d.setting[x] ELSE e.setting
      /\ \A a \in IP : f.owner[a] =
                   IF e.remove THEN Disowned(e.key, d.owner[a])
                   ELSE OwnedAfter(e.key, Base(d.owner[a]), e.allowed, a)
  BY SetPeerParts DEF Awaits
<1>2. /\ g \in Device
      /\ g.peers = IF e.remove THEN c.peers \ {e.key} ELSE c.peers \cup {e.key}
      /\ \A x \in Key : g.setting[x] =
                   IF x # e.key THEN c.setting[x]
                   ELSE IF e.remove THEN Default
                   ELSE IF e.setting = Unset THEN c.setting[x] ELSE e.setting
      /\ \A a \in IP : g.owner[a] =
                   IF e.remove THEN Disowned(e.key, c.owner[a])
                   ELSE OwnedAfter(e.key, Base(c.owner[a]), e.allowed, a)
  BY SetPeerParts DEF Awaits
<1> HIDE DEF f, g
<1>3. f.peers = g.peers
  BY <1>0, <1>1, <1>2 DEF Awaits
<1>4. \A x \in Key : f.setting[x] = g.setting[x]
  BY <1>1, <1>2 DEF Awaits
<1>5. ASSUME NEW a \in IP PROVE f.owner[a] = g.owner[a]
  <2>1. CASE d.owner[a] = c.owner[a]
    BY <1>1, <1>2, <2>1
  <2>2. CASE ~e.remove /\ Gives(e.allowed, a)
    BY <1>1, <1>2, <2>2 DEF OwnedAfter
  <2>3. CASE /\ e.remove \/ e.replaceIPs \/ Takes(e.allowed, a)
             /\ d.owner[a] = e.key /\ c.owner[a] = Nobody
    <3>1. f.owner[a] = IF e.remove THEN Disowned(e.key, e.key)
                   ELSE OwnedAfter(e.key, Base(e.key), e.allowed, a)
      BY <1>1, <2>3
    <3>2. g.owner[a] = IF e.remove THEN Disowned(e.key, Nobody)
                   ELSE OwnedAfter(e.key, Base(Nobody), e.allowed, a)
      BY <1>2, <2>3
    <3> QED
      BY <2>3, <3>1, <3>2 DEF Disowned, OwnedAfter
  <2> QED
    BY <2>1, <2>2, <2>3 DEF Awaits
<1> QED
  BY <1>1, <1>2, <1>3, <1>4, <1>5, SameDevice DEF f, g
-----------------------------------------------------------------------------
(* A message again                                                         *)

(* Whoever has done a part of an entry before loses nothing.               *)
LEMMA PartFirst ==
  ASSUME NEW w \in Seq(Encoded), \A i, n \in DOMAIN w : w[i].key = w[n].key => i = n,
         NEW l \in DOMAIN w, NEW q \in Encoded, PartOf(q, w[l]), NEW d \in Device
  PROVE  After(SetPeer(d, q), w) = After(d, w)
<1>1. Len(w) \in Nat /\ DOMAIN w = 1..Len(w) /\ \A i \in 1..Len(w) : w[i] \in Encoded
  BY LenProperties
<1>2. CASE ~Acts(w[l], d)
  <2>1. ~Acts(q, d)
    BY <1>2 DEF PartOf, Acts
  <2> QED
    BY <2>1, SetPeerParts
<1>3. CASE Acts(w[l], d)
  <2> DEFINE c == SetPeer(d, q)
             D(i) == After(d, SubSeq(w, 1, i))
             C(i) == After(c, SubSeq(w, 1, i))
             S == {i \in 0..Len(w) : IF i < l THEN Awaits(w[l], D(i), C(i)) ELSE D(i) = C(i)}
  <2>1. c \in Device /\ w[l] \in Encoded
    BY <1>1, SetPeerParts
  <2>2. Awaits(w[l], d, c)
    BY <1>1, <1>3, PartAwaits
  <2> HIDE DEF c
  <2>3. /\ D(0) = d /\ C(0) = c /\ D(Len(w)) = After(d, w) /\ C(Len(w)) = After(c, w)
        /\ \A i \in 0..Len(w) : D(i) \in Device /\ C(i) \in Device
        /\ \A i \in 0..Len(w) : i < Len(w) => /\ D(i + 1) = SetPeer(D(i), w[i + 1])
                                              /\ C(i + 1) = SetPeer(C(i), w[i + 1])
    BY <2>1, AfterSteps
  <2> HIDE DEF D, C
  <2>4. 0 \in S
    <3>1. 0 \in 0..Len(w) /\ 0 < l
      BY <1>1
    <3>2. Awaits(w[l], D(0), C(0))
      BY <2>2, <2>3
    <3> QED
      BY <3>1, <3>2
  <2>5. ASSUME NEW i \in 0..Len(w), i < Len(w), i \in S PROVE i + 1 \in S
    <3>1. /\ i + 1 \in 0..Len(w) /\ i + 1 \in DOMAIN w /\ w[i + 1] \in Encoded
          /\ D(i) \in Device /\ C(i) \in Device
          /\ D(i + 1) = SetPeer(D(i), w[i + 1]) /\ C(i + 1) = SetPeer(C(i), w[i + 1])
      BY <1>1, <2>3, <2>5
    <3>2. CASE i + 1 < l
      <4>1. w[i + 1].key # w[l].key /\ i < l
        BY <1>1, <3>1, <3>2
      <4>2. Awaits(w[l], D(i + 1), C(i + 1))
        BY <2>1, <2>5, <3>1, <4>1, OthersAwait
      <4> QED
        BY <3>1, <3>2, <4>2
    <3>3. CASE i + 1 = l
      <4>1. Awaits(w[l], D(i), C(i))
        BY <2>5, <3>3
      <4>2. D(i + 1) = C(i + 1)
        BY <3>1, <3>3, <4>1, EntryMakesUp
      <4> QED
        BY <3>1, <3>3, <4>2
    <3>4. CASE i + 1 > l
      <4>1. D(i) = C(i)
        BY <1>1, <2>5, <3>4
      <4> QED
        BY <1>1, <3>1, <3>4, <4>1
    <3> QED
      BY <1>1, <3>1, <3>2, <3>3, <3>4
  <2>6. Len(w) \in S
    <3> HIDE DEF S
    <3>1. \A i \in 0..Len(w) : i \in S
      BY <1>1, <2>4, <2>5, Upwards
    <3> QED
      BY <1>1, <3>1
  <2>7. D(Len(w)) = C(Len(w))
    BY <1>1, <2>6
  <2> QED
    BY <2>3, <2>7 DEF c
<1> QED
  BY <1>2, <1>3

(* So does whoever has done a beginning of the message.                    *)
LEMMA BeginningFirst ==
  ASSUME NEW w \in Seq(Encoded), \A i, n \in DOMAIN w : w[i].key = w[n].key => i = n,
         NEW d \in Device, NEW n \in 0..Len(w)
  PROVE  After(After(d, SubSeq(w, 1, n)), w) = After(d, w)
<1>1. Len(w) \in Nat /\ DOMAIN w = 1..Len(w) /\ \A i \in 1..Len(w) : w[i] \in Encoded
  BY LenProperties
<1> DEFINE D(i) == After(d, SubSeq(w, 1, i))
           S == {i \in 0..Len(w) : After(D(i), w) = After(d, w)}
<1>2. /\ D(0) = d
      /\ \A i \in 0..Len(w) : D(i) \in Device
      /\ \A i \in 0..Len(w) : i < Len(w) => D(i + 1) = SetPeer(D(i), w[i + 1])
  BY AfterSteps
<1> HIDE DEF D
<1>3. 0 \in S
  BY <1>1, <1>2
<1>4. ASSUME NEW i \in 0..Len(w), i < Len(w), i \in S PROVE i + 1 \in S
  <2>1. /\ i + 1 \in 0..Len(w) /\ i + 1 \in DOMAIN w /\ w[i + 1] \in Encoded
        /\ D(i) \in Device /\ D(i + 1) = SetPeer(D(i), w[i + 1])
    BY <1>1, <1>2, <1>4
  <2>2. PartOf(w[i + 1], w[i + 1])
    BY DEF PartOf
  <2>3. After(SetPeer(D(i), w[i + 1]), w) = After(D(i), w)
    BY <2>1, <2>2, PartFirst
  <2>4. After(D(i), w) = After(d, w)
    BY <1>4
  <2> QED
    BY <2>1, <2>3, <2>4
<1>5. n \in S
  <2> HIDE DEF S
  <2> QED
    BY <1>1, <1>3, <1>4, Upwards
<1> QED
  BY <1>5 DEF D
-----------------------------------------------------------------------------
(* Entries as they are encoded                                             *)

(* What is cut off an entry: IPs first, operations when no IP is left.     *)
LEMMA AllowedCut ==
  ASSUME NEW ips \in Seq(IP), NEW ops \in Seq(Operation),
         NEW m \in 0..Len(ips), NEW n \in 0..Len(ops), m = Len(ips) \/ n = 0
  PROVE  AllowedIPs(ips, ops) = AllowedIPs(SubSeq(ips, 1, m), SubSeq(ops, 1, n))
                                  \o AllowedIPs(Rest(m, ips), Rest(n, ops))
<1>1. /\ Len(ips) \in Nat /\ Len(ops) \in Nat /\ m \in Nat /\ n \in Nat
      /\ m <= Len(ips) /\ n <= Len(ops)
  BY LenProperties
<1> DEFINE a == SubSeq(ips, 1, m)
           b == Rest(m, ips)
           c == SubSeq(ops, 1, n)
           d == Rest(n, ops)
<1>2. /\ a \in Seq(IP) /\ Len(a) = m /\ \A i \in 1..m : a[i] = ips[i]
      /\ c \in Seq(Operation) /\ Len(c) = n /\ \A i \in 1..n : c[i] = ops[i]
  BY Beginning
<1>3. /\ b \in Seq(IP) /\ Len(b) = Len(ips) - m /\ \A i \in 1..(Len(ips) - m) : b[i] = ips[m + i]
  <2>1. \A i \in (m + 1)..Len(ips) : ips[i] \in IP
    BY <1>1, LenProperties
  <2> QED
    BY <1>1, <2>1, SubSeqProperties DEF Rest
<1>4. /\ d \in Seq(Operation) /\ Len(d) = Len(ops) - n /\ \A i \in 1..(Len(ops) - n) : d[i] = ops[n + i]
  <2>1. \A i \in (n + 1)..Len(ops) : ops[i] \in Operation
    BY <1>1, LenProperties
  <2> QED
    BY <1>1, <2>1, SubSeqProperties DEF Rest
<1> HIDE DEF a, b, c, d
<1> DEFINE u == AllowedIPs(a, c)
           v == AllowedIPs(b, d)
           w == AllowedIPs(ips, ops)
           E(i) == IF i <= Len(ips) THEN [ip |-> ips[i], remove |-> FALSE]
                   ELSE [ip |-> ops[i - Len(ips)].ip, remove |-> ops[i - Len(ips)].op = "remove"]
<1>5. /\ u \in Seq(AllowedIP) /\ Len(u) = m + n
      /\ \A i \in 1..(m + n) :
              u[i] = IF i <= m THEN [ip |-> a[i], remove |-> FALSE]
                     ELSE [ip |-> c[i - m].ip, remove |-> c[i - m].op = "remove"]
  BY <1>2, AllowedParts
<1>6. /\ v \in Seq(AllowedIP) /\ Len(v) = Len(b) + Len(d)
      /\ \A i \in 1..(Len(b) + Len(d)) :
              v[i] = IF i <= Len(b) THEN [ip |-> b[i], remove |-> FALSE]
                     ELSE [ip |-> d[i - Len(b)].ip, remove |-> d[i - Len(b)].op = "remove"]
  BY <1>3, <1>4, AllowedParts
<1>7. /\ w \in Seq(AllowedIP) /\ Len(w) = Len(ips) + Len(ops)
      /\ \A i \in 1..(Len(ips) + Len(ops)) : w[i] = E(i)
  BY AllowedParts
<1> HIDE DEF u, v, w
<1>8. /\ u \o v \in Seq(AllowedIP) /\ Len(u \o v) = Len(ips) + Len(ops)
      /\ \A i \in 1..(Len(u) + Len(v)) : (u \o v)[i] = IF i <= Len(u) THEN u[i] ELSE v[i - Len(u)]
  <2>1. Len(u) + Len(v) = Len(ips) + Len(ops)
    BY <1>1, <1>3, <1>4, <1>5, <1>6
  <2>2. u \o v \in Seq(AllowedIP) /\ Len(u \o v) = Len(u) + Len(v)
    BY ONLY <1>5, <1>6, ConcatProperties
  <2>3. \A i \in 1..(Len(u) + Len(v)) : (u \o v)[i] = IF i <= Len(u) THEN u[i] ELSE v[i - Len(u)]
    <3>1. u \in Seq(AllowedIP) /\ v \in Seq(AllowedIP)
      BY <1>5, <1>6
    <3> QED
      BY ONLY <3>1, ConcatProperties
  <2> QED
    BY <2>1, <2>2, <2>3
<1>9. ASSUME NEW i \in 1..(Len(ips) + Len(ops)) PROVE (u \o v)[i] = E(i)
  <2>1. CASE i <= m
    <3>1. (u \o v)[i] = u[i] /\ i \in 1..(m + n) /\ i \in 1..m /\ i <= Len(ips)
      BY <1>1, <1>3, <1>4, <1>5, <1>6, <1>8, <2>1, SMTT(30)
    <3>2. u[i] = [ip |-> a[i], remove |-> FALSE] /\ a[i] = ips[i]
      BY <1>2, <1>5, <2>1, <3>1
    <3> QED
      BY <3>1, <3>2
  <2>2. CASE m < i /\ i <= m + n
    <3>1. (u \o v)[i] = u[i] /\ i \in 1..(m + n) /\ i - m \in 1..n /\ ~(i <= m)
      BY <1>1, <1>3, <1>4, <1>5, <1>6, <1>8, <2>2
    <3>2. m = Len(ips)
      BY <1>1, <2>2
    <3>3. c[i - m] = ops[i - m]
      BY <1>2, <3>1
    <3> QED
      BY <1>5, <3>1, <3>2, <3>3
  <2>3. CASE m + n < i
    <3> DEFINE k == i - (m + n)
    <3>1. (u \o v)[i] = v[k] /\ k \in 1..(Len(b) + Len(d))
      <4>1. /\ Len(u) = m + n /\ Len(v) = Len(b) + Len(d)
            /\ Len(b) = Len(ips) - m /\ Len(d) = Len(ops) - n
        BY <1>3, <1>4, <1>5, <1>6
      <4>2. i \in 1..(Len(u) + Len(v)) /\ ~(i <= Len(u)) /\ i - Len(u) = k
        BY <1>1, <2>3, <4>1
      <4>3. k \in 1..(Len(b) + Len(d))
        BY <1>1, <2>3, <4>1
      <4> QED
        BY <1>8, <4>2, <4>3
    <3>2. CASE k <= Len(b)
      <4>1. n = 0 /\ k \in 1..(Len(ips) - m) /\ m + k = i /\ i <= Len(ips)
        BY <1>1, <1>3, <2>3, <3>2
      <4>2. v[k] = [ip |-> b[k], remove |-> FALSE] /\ b[k] = ips[m + k]
        BY <1>3, <1>6, <3>1, <3>2, <4>1
      <4> QED
        BY <3>1, <4>1, <4>2
    <3>3. CASE ~(k <= Len(b))
      <4>1. /\ k - Len(b) \in 1..(Len(ops) - n) /\ n + (k - Len(b)) = i - Len(ips)
            /\ ~(i <= Len(ips))
        <5>1. /\ i \in 1..(Len(ips) + Len(ops)) /\ i > m + n
              /\ Len(b) = Len(ips) - m /\ Len(d) = Len(ops) - n
              /\ i - (m + n) > Len(ips) - m
          BY <1>1, <1>3, <1>4, <2>3, <3>1, <3>3
        <5> QED
          BY <1>1, <5>1
      <4>2. d[k - Len(b)] = ops[i - Len(ips)]
        BY <1>4, <4>1
      <4>3. v[k] = [ip |-> d[k - Len(b)].ip, remove |-> d[k - Len(b)].op = "remove"]
        BY <1>6, <3>1, <3>3
      <4> QED
        BY <3>1, <4>1, <4>2, <4>3
    <3> QED
      BY <3>2, <3>3
  <2>4. i <= m \/ (m < i /\ i <= m + n) \/ m + n < i
    BY <1>1
  <2> QED
    BY <2>1, <2>2, <2>3, <2>4
<1>10. \A i \in 1..Len(w) : w[i] = (u \o v)[i]
  BY <1>7, <1>9
<1> HIDE DEF E
<1>11. w = u \o v
  BY <1>7, <1>8, <1>10, SeqEqual
<1> QED
  BY <1>11 DEF u, v, w, a, b, c, d

-----------------------------------------------------------------------------
(* The messages and what they leave, if no key is named twice              *)

(* The entries of the configuration, those of the messages so far, and     *)
(* what is left of the entry that is being cut: nothing but IPs if its key *)
(* is known.                                                               *)
Requested == Message(cfg).peers
Made == [n \in DOMAIN batches |-> EncodePeer(batches[n].peers[1])]
Left == EncodePeer(IF p.key \in known THEN [p EXCEPT !.setting = Unset, !.replaceIPs = FALSE]
                   ELSE p)

(* The messages that are ready, and the rest of an entry that is being     *)
(* cut, do to any device what the entries so far do.                       *)
Cut ==
  ShouldBatch(cfg) /\ pc \in {"peer", "chunk", "clear", "send"} =>
    /\ j \in 0..Len(cfg.peers) /\ (pc \in {"clear", "send"} => j = Len(cfg.peers))
    /\ known \subseteq {cfg.peers[i].key : i \in 1..j}
    /\ \A n \in DOMAIN batches :
         /\ Len(batches[n].peers) = 1
         /\ batches[n].replace = (cfg.replace /\ (pc = "send" => n = 1))
         /\ \E l \in DOMAIN Requested : PartOf(Made[n], Requested[l])
    /\ pc = "chunk" => j > 0 /\ PartOf(Left, Requested[j])
    /\ pc # "chunk" /\ j > 0 => batches # <<>>
    /\ \A d \in Device :
         IF pc = "chunk" THEN SetPeer(After(d, Made), Left) = After(d, SubSeq(Requested, 1, j))
         ELSE After(d, Made) = After(d, SubSeq(Requested, 1, j))

(* The device is on its way from one that all entries would have made the  *)
(* goal of.                                                                *)
Underway ==
  /\ pc \in {"start", "peer", "chunk", "clear"} => sent = 0
  /\ pc \in {"peer", "chunk", "clear"} => ShouldBatch(cfg)
  /\ pc = "start" => j = 0 /\ known = {} /\ batches = <<>>
  /\ pc = "send" =>
       /\ sent \in 0..Len(batches)
       /\ ShouldBatch(cfg) =>
            \/ sent = 0 /\ cfg.replace
            \/ \E d \in Device : After(d, Requested) = goal /\ dev = After(d, SubSeq(Made, 1, sent))
       /\ ~ShouldBatch(cfg) => batches = <<cfg>> /\ (sent = 1 => dev = goal)
  /\ pc = "ok" => dev = goal

(* Whatever was sent before, the whole configuration would still lead to   *)
(* the goal.                                                               *)
ToGoal ==
  /\ dev \in Device /\ goal \in Device
  /\ After(IF cfg.replace THEN NoPeers ELSE dev, Requested) = goal

Completing == DistinctKeys(cfg) => Cut /\ Underway /\ ToGoal
-----------------------------------------------------------------------------
(* What the messages are                                                   *)

(* The entries of a configuration.                                         *)
LEMMA RequestedParts ==
  ASSUME cfg \in Config
  PROVE  /\ cfg.peers \in Seq(PeerConfig) /\ cfg.replace \in BOOLEAN
         /\ Requested \in Seq(Encoded) /\ Len(Requested) = Len(cfg.peers)
         /\ DOMAIN Requested = 1..Len(cfg.peers) /\ Len(cfg.peers) \in Nat
         /\ \A l \in 1..Len(cfg.peers) : /\ cfg.peers[l] \in PeerConfig
                                         /\ Requested[l] = EncodePeer(cfg.peers[l])
         /\ DistinctKeys(cfg) => \A i, n \in DOMAIN Requested : Requested[i].key = Requested[n].key => i = n
<1>1. cfg.peers \in Seq(PeerConfig) /\ cfg.replace \in BOOLEAN
  BY DEF Config
<1>2. /\ Len(cfg.peers) \in Nat /\ DOMAIN cfg.peers = 1..Len(cfg.peers)
      /\ \A l \in 1..Len(cfg.peers) : cfg.peers[l] \in PeerConfig
  BY <1>1, LenProperties
<1>3. Requested = [l \in 1..Len(cfg.peers) |-> EncodePeer(cfg.peers[l])]
  BY <1>2 DEF Requested, Message
<1>4. \A l \in 1..Len(cfg.peers) : /\ Requested[l] = EncodePeer(cfg.peers[l])
                                   /\ Requested[l] \in Encoded /\ Requested[l].key = cfg.peers[l].key
  BY <1>2, <1>3, EncodedParts
<1>5. Requested \in Seq(Encoded) /\ Len(Requested) = Len(cfg.peers) /\ DOMAIN Requested = 1..Len(cfg.peers)
  <2> DEFINE n == Len(cfg.peers)
             h == [l \in 1..n |-> EncodePeer(cfg.peers[l])]
  <2>1. n \in Nat /\ h \in [1..n -> Encoded]
    <3>1. \A l \in 1..n : EncodePeer(cfg.peers[l]) \in Encoded
      BY <1>2, EncodedParts
    <3> QED
      BY <1>2, <3>1
  <2>2. Requested = h
    BY <1>3
  <2> HIDE DEF n, h
  <2>3. h \in Seq(Encoded) /\ Len(h) = n /\ DOMAIN h = 1..n
    BY <2>1
  <2> QED
    BY <2>2, <2>3 DEF n
<1>6. DistinctKeys(cfg) => \A i, n \in DOMAIN Requested : Requested[i].key = Requested[n].key => i = n
  BY <1>2, <1>4, <1>5 DEF DistinctKeys
<1> QED
  BY <1>1, <1>2, <1>4, <1>5, <1>6

(* The only entry of a message.                                            *)
LEMMA OneEntry ==
  ASSUME NEW d \in Device, NEW b \in Config, Len(b.peers) = 1
  PROVE  /\ EncodePeer(b.peers[1]) \in Encoded
         /\ SetDevice(d, Message(b)) = SetPeer(IF b.replace THEN NoPeers ELSE d, EncodePeer(b.peers[1]))
         /\ Len(Message(b).peers) = 1 /\ Message(b).peers[1] = EncodePeer(b.peers[1])
         /\ Message(b).peers \in Seq(Encoded) /\ Message(b).replace = b.replace
<1> DEFINE e == EncodePeer(b.peers[1])
           m == Message(b)
           c == IF b.replace THEN NoPeers ELSE d
<1>1. b.peers \in Seq(PeerConfig) /\ b.peers[1] \in PeerConfig /\ DOMAIN b.peers = {1}
  BY DEF Config
<1>2. e \in Encoded
  BY <1>1, EncodedParts
<1>3. c \in Device
  BY EmptyDevice
<1> HIDE DEF e, c
<1>4. m.peers = <<e>> /\ m.replace = b.replace
  <2>1. m.peers = [i \in {1} |-> e]
    BY <1>1 DEF Message, e
  <2> QED
    BY <2>1 DEF Message
<1> HIDE DEF m
<1>5. <<e>> = Append(<<>>, e) /\ <<>> \in Seq(Encoded)
  OBVIOUS
<1>6. After(c, <<>>) = c
  <2>1. SubSeq(<<>>, 1, 0) = <<>>
    BY SubSeqEmpty
  <2> QED
    <3>1. After(c, SubSeq(<<>>, 1, 0)) = c
      BY <1>3, <1>5, AfterSteps
    <3> QED
      BY <2>1, <3>1
<1>7. After(c, <<e>>) = SetPeer(c, e)
  BY <1>2, <1>3, <1>5, <1>6, AfterOneMore
<1>8. SetDevice(d, m) = After(c, m.peers)
  BY <1>4 DEF SetDevice, After, c
<1> QED
  BY <1>2, <1>4, <1>7, <1>8 DEF e, c, m

(* A large configuration is not empty.                                     *)
LEMMA LargeHasEntries ==
  ASSUME cfg \in Config, ShouldBatch(cfg)
  PROVE  Len(cfg.peers) > 0
<1>1. Len(cfg.peers) \in Nat
  BY RequestedParts
<1> SUFFICES ASSUME Len(cfg.peers) = 0 PROVE FALSE
  BY <1>1
<1>2. cfg.peers = <<>> /\ DOMAIN cfg.peers = {}
  BY RequestedParts
<1> DEFINE Is(h) == h = [t \in SUBSET {} |->
                 IF t = {} THEN 0
                 ELSE h[t \ {Max(t)}] + Len(cfg.peers[Max(t)].ips) + Len(cfg.peers[Max(t)].ops)]
           z == [t \in SUBSET {} |-> 0]
<1>3. AllowedCount(cfg) = (CHOOSE h : Is(h))[{}]
  BY <1>2 DEF AllowedCount, FoldLeft, MapThenFoldSet
<1>4. Is(z)
  OBVIOUS
<1>5. Is(CHOOSE h : Is(h))
  BY <1>4
<1>6. (CHOOSE h : Is(h))[{}] = 0
  BY <1>5, Zenon
<1>7. AllowedCount(cfg) = 0
  BY <1>3, <1>6
<1> QED
  BY <1>7, ChunkSizes DEF ShouldBatch

(* The message that Chunk makes and what it leaves of the entry.           *)
LEMMA CutEntry ==
  ASSUME p \in PeerConfig, Chunk
  PROVE  /\ EncodePeer(Part) \in Encoded /\ Left \in Encoded /\ Left' \in Encoded
         /\ \A d \in Device : SetPeer(SetPeer(d, EncodePeer(Part)), Left') = SetPeer(d, Left)
         /\ PartOf(EncodePeer(Part), Left) /\ PartOf(Left', Left)
         /\ p'.ips = <<>> /\ p'.ops = <<>> => EncodePeer(Part) = Left
<1> DEFINE ips == SubSeq(p.ips, 1, TakeIPs)
           ops == SubSeq(p.ops, 1, TakeOps)
           ips2 == Rest(TakeIPs, p.ips)
           ops2 == Rest(TakeOps, p.ops)
           w == [p EXCEPT !.setting = Unset, !.replaceIPs = FALSE]
           l == IF p.key \in known THEN w ELSE p
           u == [p' EXCEPT !.setting = Unset, !.replaceIPs = FALSE]
<1>1. /\ p.ips \in Seq(IP) /\ p.ops \in Seq(Operation)
      /\ p.key \in Key /\ p.remove \in BOOLEAN /\ p.updateOnly \in BOOLEAN
      /\ p.setting \in Setting \cup {Unset} /\ p.replaceIPs \in BOOLEAN
  BY DEF PeerConfig, Operation
<1>2. /\ p' = [p EXCEPT !.ips = ips2, !.ops = ops2]
      /\ known' = known \cup {p.key}
  BY DEF Chunk
<1>3. /\ TakeIPs \in 0..Len(p.ips) /\ TakeOps \in 0..Len(p.ops)
      /\ TakeIPs = Len(p.ips) \/ TakeOps = 0
  <2>1. IPChunk \in Nat /\ IPChunk > 0 /\ Len(p.ips) \in Nat /\ Len(p.ops) \in Nat
    BY <1>1, ChunkSizes
  <2>2. TakeIPs \in 0..Len(p.ips) /\ (TakeIPs = Len(p.ips) \/ TakeIPs = IPChunk)
        /\ TakeIPs <= IPChunk
    BY <2>1 DEF TakeIPs, LowerOf
  <2> QED
    BY <2>1, <2>2 DEF TakeOps, LowerOf
<1>4. /\ ips \in Seq(IP) /\ ips2 \in Seq(IP) /\ ops \in Seq(Operation) /\ ops2 \in Seq(Operation)
  BY <1>1, <1>3, CutList
<1>5. AllowedIPs(p.ips, p.ops) = AllowedIPs(ips, ops) \o AllowedIPs(ips2, ops2)
  BY <1>1, <1>3, AllowedCut
<1>6. Part = [p EXCEPT !.ips = ips, !.ops = ops,
                       !.setting = IF p.key \in known THEN Unset ELSE @,
                       !.replaceIPs = p.key \notin known /\ @]
  BY DEF Part
<1> HIDE DEF ips, ops, ips2, ops2
<1>7. /\ Part \in PeerConfig /\ Part.key = p.key /\ Part.remove = p.remove
      /\ Part.updateOnly = p.updateOnly /\ Part.ips = ips /\ Part.ops = ops
      /\ Part.setting = IF p.key \in known THEN Unset ELSE p.setting
      /\ Part.replaceIPs = (p.key \notin known /\ p.replaceIPs)
  BY <1>1, <1>4, <1>6 DEF PeerConfig, Operation
<1>8. /\ l \in PeerConfig /\ l.key = p.key /\ l.remove = p.remove
      /\ l.updateOnly = p.updateOnly /\ l.ips = p.ips /\ l.ops = p.ops
      /\ l.setting = IF p.key \in known THEN Unset ELSE p.setting
      /\ l.replaceIPs = (p.key \notin known /\ p.replaceIPs)
  BY <1>1 DEF PeerConfig, Operation
<1>9. /\ u \in PeerConfig /\ u.key = p.key /\ u.remove = p.remove
      /\ u.updateOnly = p.updateOnly /\ u.ips = ips2 /\ u.ops = ops2
      /\ u.setting = Unset /\ u.replaceIPs = FALSE
      /\ p'.key = p.key /\ p'.ips = ips2 /\ p'.ops = ops2
  BY <1>1, <1>2, <1>4 DEF PeerConfig, Operation
<1>10. Left = EncodePeer(l) /\ Left' = EncodePeer(u)
  BY <1>2, <1>9 DEF Left
<1> HIDE DEF l, u
<1> DEFINE e == EncodePeer(l)
           q == EncodePeer(Part)
           r == EncodePeer(u)
<1>11. /\ e \in Encoded /\ q \in Encoded /\ r \in Encoded
       /\ q.key = e.key /\ q.remove = e.remove /\ q.updateOnly = e.updateOnly
       /\ r.key = e.key /\ r.remove = e.remove /\ r.updateOnly = e.updateOnly
       /\ q.setting = e.setting /\ r.setting = Unset
       /\ q.replaceIPs = e.replaceIPs /\ r.replaceIPs = FALSE
       /\ e.allowed = AllowedIPs(p.ips, p.ops)
       /\ q.allowed = AllowedIPs(ips, ops) /\ r.allowed = AllowedIPs(ips2, ops2)
  BY <1>7, <1>8, <1>9, EncodedParts
<1> HIDE DEF e, q, r
<1>12. e.allowed = q.allowed \o r.allowed
  BY <1>5, <1>11
<1>13. \A d \in Device : SetPeer(SetPeer(d, q), r) = SetPeer(d, e)
  BY <1>11, <1>12, PartThenRest
<1>14. q.allowed \in Seq(AllowedIP) /\ r.allowed \in Seq(AllowedIP)
  BY <1>11 DEF Encoded
<1>15. PartOf(q, e) /\ PartOf(r, e)
  <2>1. \A a \in IP : /\ Gives(q.allowed, a) => Gives(e.allowed, a)
                      /\ Takes(q.allowed, a) => Takes(e.allowed, a)
                      /\ Gives(r.allowed, a) => Gives(e.allowed, a)
                      /\ Takes(r.allowed, a) => Takes(e.allowed, a)
    BY <1>12, <1>14, ConcatAllowed
  <2> QED
    BY <1>11, <2>1 DEF PartOf
<1>16. ips2 = <<>> /\ ops2 = <<>> => q = e
  <2> SUFFICES ASSUME ips2 = <<>>, ops2 = <<>> PROVE q = e
    OBVIOUS
  <2>1. Len(r.allowed) = 0
    <3>1. Len(AllowedIPs(ips2, ops2)) = Len(ips2) + Len(ops2)
      BY <1>4, AllowedParts
    <3>2. Len(ips2) = 0 /\ Len(ops2) = 0
      OBVIOUS
    <3> QED
      BY <1>11, <3>1, <3>2
  <2>2. r.allowed = <<>>
    BY <1>14, <2>1, EmptySeq
  <2>3. e.allowed = q.allowed
    BY <1>12, <1>14, <2>2, ConcatEmptySeq
  <2> QED
    BY <1>11, <2>3 DEF Encoded
<1> QED
  BY <1>9, <1>10, <1>11, <1>13, <1>15, <1>16 DEF e, q, r

(* The messages made so far.                                               *)
LEMMA MadeParts ==
  ASSUME batches \in Seq(Config), \A n \in DOMAIN batches : Len(batches[n].peers) = 1
  PROVE  /\ Made \in Seq(Encoded) /\ Len(Made) = Len(batches) /\ Len(batches) \in Nat
         /\ \A n \in 1..Len(batches) : /\ batches[n] \in Config /\ batches[n].peers[1] \in PeerConfig
                                       /\ Made[n] = EncodePeer(batches[n].peers[1])
                                       /\ Made[n] \in Encoded
<1> DEFINE k == Len(batches)
<1>1. k \in Nat /\ DOMAIN batches = 1..k /\ \A n \in 1..k : batches[n] \in Config
  BY LenProperties
<1>2. ASSUME NEW n \in 1..k PROVE batches[n].peers[1] \in PeerConfig
  <2>1. batches[n].peers \in Seq(PeerConfig) /\ Len(batches[n].peers) = 1
    BY <1>1 DEF Config
  <2> QED
    BY <2>1
<1>3. \A n \in 1..k : EncodePeer(batches[n].peers[1]) \in Encoded
  BY <1>2, EncodedParts
<1> DEFINE h == [n \in 1..k |-> EncodePeer(batches[n].peers[1])]
<1>4. Made = h
  BY <1>1 DEF Made
<1>5. h \in [1..k -> Encoded] /\ \A n \in 1..k : h[n] = EncodePeer(batches[n].peers[1])
  BY <1>3
<1> HIDE DEF h, k
<1>6. h \in Seq(Encoded) /\ Len(h) = k
  BY <1>1, <1>5
<1> QED
  BY <1>1, <1>2, <1>3, <1>4, <1>5, <1>6 DEF k

(* A part of a part is a part.                                             *)
LEMMA PartOfPart ==
  ASSUME NEW q \in Encoded, NEW e \in Encoded, NEW w \in Encoded, PartOf(q, e), PartOf(e, w)
  PROVE  PartOf(q, w)
BY DEF PartOf

(* What one message does, the whole of it or its beginning.                *)
LEMMA MessageDoes ==
  ASSUME NEW d \in Device, NEW b \in Config
  PROVE  /\ Message(b).peers \in Seq(Encoded) /\ Message(b).replace = b.replace
         /\ SetDevice(d, Message(b)) = After(IF b.replace THEN NoPeers ELSE d, Message(b).peers)
         /\ \A n \in 0..Len(Message(b).peers) :
              SetDevice(d, [Message(b) EXCEPT !.peers = SubSeq(@, 1, n)])
                = After(IF b.replace THEN NoPeers ELSE d, SubSeq(Message(b).peers, 1, n))
<1> DEFINE k == Len(b.peers)
           h == [i \in 1..k |-> EncodePeer(b.peers[i])]
<1>1. b.peers \in Seq(PeerConfig) /\ b.replace \in BOOLEAN
  BY DEF Config
<1>2. k \in Nat /\ DOMAIN b.peers = 1..k /\ \A i \in 1..k : b.peers[i] \in PeerConfig
  BY <1>1, LenProperties
<1>3. Message(b) = [replace |-> b.replace, peers |-> h]
  BY <1>2 DEF Message
<1>4. h \in [1..k -> Encoded]
  <2>1. \A i \in 1..k : EncodePeer(b.peers[i]) \in Encoded
    BY <1>2, EncodedParts
  <2> QED
    BY <2>1
<1> HIDE DEF h, k
<1>5. h \in Seq(Encoded)
  BY <1>2, <1>4
<1>6. SetDevice(d, Message(b)) = After(IF b.replace THEN NoPeers ELSE d, h)
  BY <1>3 DEF SetDevice, After
<1>7. ASSUME NEW n \in 0..Len(h)
      PROVE  SetDevice(d, [Message(b) EXCEPT !.peers = SubSeq(@, 1, n)])
               = After(IF b.replace THEN NoPeers ELSE d, SubSeq(h, 1, n))
  <2>1. [Message(b) EXCEPT !.peers = SubSeq(@, 1, n)]
          = [replace |-> b.replace, peers |-> SubSeq(h, 1, n)]
    <3>1. [[replace |-> b.replace, peers |-> h] EXCEPT !.peers = SubSeq(@, 1, n)]
            = [replace |-> b.replace, peers |-> SubSeq(h, 1, n)]
      <4> DEFINE m == [replace |-> b.replace, peers |-> h]
                 s == SubSeq(m.peers, 1, n)
      <4>1. s = SubSeq(h, 1, n)
        OBVIOUS
      <4> HIDE DEF s
      <4>2. [m EXCEPT !.peers = s] = [replace |-> b.replace, peers |-> s]
        OBVIOUS
      <4> QED
        BY <4>1, <4>2, Zenon DEF s
    <3> QED
      BY <1>3, <3>1, Zenon
  <2> QED
    BY <2>1 DEF SetDevice, After
<1> QED
  BY <1>3, <1>5, <1>6, <1>7
-----------------------------------------------------------------------------
(* The steps                                                               *)

(* Before a call everything is still to be done.                           *)
LEMMA CompletingInit == Init => Completing
<1> SUFFICES ASSUME Init PROVE Completing
  OBVIOUS
<1>1. dev \in Device /\ cfg \in Config /\ pc = "start" /\ sent = 0
      /\ j = 0 /\ known = {} /\ batches = <<>> /\ goal = SetDevice(dev, Message(cfg))
  BY InputTypes DEF Init
<1>2. Requested \in Seq(Encoded) /\ goal = After(IF cfg.replace THEN NoPeers ELSE dev, Requested)
  BY <1>1, MessageDoes DEF Requested
<1>3. goal \in Device
  BY <1>1, <1>2, EmptyDevice, AfterSteps
<1> QED
  BY <1>1, <1>2, <1>3 DEF Completing, Cut, Underway, ToGoal

(* buildBatches begins an entry.                                           *)
LEMMA BeginPeerCompletes ==
  ASSUME Building, DistinctKeys(cfg), Cut, Underway, BeginPeer
  PROVE  Cut' /\ Underway'
<1>1. /\ cfg \in Config /\ j \in Nat /\ batches \in Seq(Config)
  BY DEF Building, Ready
<1>2. /\ pc = "peer" /\ j < Len(cfg.peers) /\ j' = j + 1 /\ p' = cfg.peers[j + 1]
      /\ pc' = "chunk" /\ cfg' = cfg /\ known' = known /\ batches' = batches /\ sent' = sent
  BY DEF BeginPeer
<1>3. Underway'
  BY <1>2 DEF Underway
<1>4. Made' = Made /\ Requested' = Requested
  BY <1>2 DEF Made, Requested
<1>5. CASE ~ShouldBatch(cfg)
  BY <1>2, <1>3, <1>5 DEF Cut
<1>6. CASE ShouldBatch(cfg)
  <2>1. /\ known \subseteq {cfg.peers[i].key : i \in 1..j}
        /\ \A n \in DOMAIN batches :
             /\ Len(batches[n].peers) = 1
             /\ batches[n].replace = cfg.replace
             /\ \E l \in DOMAIN Requested : PartOf(Made[n], Requested[l])
        /\ \A d \in Device : After(d, Made) = After(d, SubSeq(Requested, 1, j))
    <3>1. cfg.replace \in BOOLEAN
      BY <1>1, RequestedParts
    <3>2. pc # "send" /\ pc # "chunk" /\ pc \in {"peer", "chunk", "clear", "send"}
      BY <1>2
    <3> QED
      BY <1>6, <3>1, <3>2 DEF Cut
  <2>2. /\ Requested \in Seq(Encoded) /\ Len(Requested) = Len(cfg.peers) /\ Len(cfg.peers) \in Nat
        /\ DOMAIN Requested = 1..Len(cfg.peers) /\ DOMAIN cfg.peers = 1..Len(cfg.peers)
        /\ \A l \in 1..Len(cfg.peers) : /\ cfg.peers[l] \in PeerConfig
                                        /\ Requested[l] = EncodePeer(cfg.peers[l])
    BY <1>1, RequestedParts, LenProperties
  <2>3. j + 1 \in 1..Len(cfg.peers) /\ j \in 0..Len(Requested) /\ j < Len(Requested)
    BY <1>1, <1>2, <2>2
  <2>4. p'.key \notin known
    <3> SUFFICES ASSUME p'.key \in known PROVE FALSE
      OBVIOUS
    <3>1. PICK i \in 1..j : cfg.peers[i].key = p'.key
      BY <2>1
    <3>2. i \in DOMAIN cfg.peers /\ j + 1 \in DOMAIN cfg.peers /\ i # j + 1
      BY <1>1, <2>2, <2>3
    <3> QED
      BY <1>2, <3>1, <3>2 DEF DistinctKeys
  <2>5. Left' = Requested[j + 1]
    BY <1>2, <2>2, <2>3, <2>4 DEF Left
  <2>6. PartOf(Left', Requested[j + 1])
    BY <2>5 DEF PartOf
  <2>7. \A d \in Device : SetPeer(After(d, Made), Left') = After(d, SubSeq(Requested, 1, j + 1))
    <3> TAKE d \in Device
    <3>1. After(d, SubSeq(Requested, 1, j + 1)) = SetPeer(After(d, SubSeq(Requested, 1, j)), Requested[j + 1])
      BY <2>2, <2>3, AfterSteps
    <3> QED
      BY <2>1, <2>5, <3>1
  <2>8. known \subseteq {cfg.peers[i].key : i \in 1..(j + 1)}
    BY <1>1, <2>1
  <2>9. j + 1 \in 0..Len(cfg.peers) /\ j + 1 > 0
    BY <1>1, <2>3
  <2> QED
    BY <1>2, <1>3, <1>4, <2>1, <2>6, <2>7, <2>8, <2>9 DEF Cut
<1> QED
  BY <1>3, <1>5, <1>6

(* buildBatches makes a message of the entry.                              *)
LEMMA ChunkCompletes ==
  ASSUME Building, DistinctKeys(cfg), Cut, Underway, Chunk
  PROVE  Cut' /\ Underway'
<1> DEFINE m == [replace |-> cfg.replace, peers |-> <<Part>>]
           q == EncodePeer(Part)
<1>1. /\ cfg \in Config /\ j \in Nat /\ batches \in Seq(Config)
  BY DEF Building, Ready
<1>2. /\ pc = "chunk" /\ j' = j /\ cfg' = cfg /\ sent' = sent
      /\ batches' = Append(batches, m) /\ known' = known \cup {p.key}
      /\ pc' = IF p'.ips = <<>> /\ p'.ops = <<>> THEN "peer" ELSE "chunk"
  BY DEF Chunk
<1>3. Underway'
  BY <1>2 DEF Underway
<1>4. Requested' = Requested
  BY <1>2 DEF Requested
<1>5. CASE ~ShouldBatch(cfg)
  BY <1>2, <1>3, <1>5 DEF Cut
<1>6. CASE ShouldBatch(cfg)
  <2>1. cfg.replace \in BOOLEAN /\ DOMAIN Requested = 1..Len(cfg.peers) /\ Requested \in Seq(Encoded)
        /\ Len(cfg.peers) \in Nat
        /\ \A l \in 1..Len(cfg.peers) : cfg.peers[l] \in PeerConfig
    BY <1>1, RequestedParts
  <2>2. /\ j \in 0..Len(cfg.peers) /\ j > 0
        /\ known \subseteq {cfg.peers[i].key : i \in 1..j}
        /\ \A n \in DOMAIN batches :
             /\ Len(batches[n].peers) = 1
             /\ batches[n].replace = cfg.replace
             /\ \E l \in DOMAIN Requested : PartOf(Made[n], Requested[l])
        /\ PartOf(Left, Requested[j])
        /\ \A d \in Device : SetPeer(After(d, Made), Left) = After(d, SubSeq(Requested, 1, j))
    <3>1. pc # "send" /\ pc \in {"peer", "chunk", "clear", "send"}
      BY <1>2
    <3> QED
      BY <1>2, <1>6, <2>1, <3>1 DEF Cut
  <2>3. p \in PeerConfig /\ p.key = cfg.peers[j].key
    BY <1>2 DEF Building, Cutting
  <2>4. /\ q \in Encoded /\ Left \in Encoded /\ Left' \in Encoded
        /\ \A d \in Device : SetPeer(SetPeer(d, q), Left') = SetPeer(d, Left)
        /\ PartOf(q, Left) /\ PartOf(Left', Left)
        /\ p'.ips = <<>> /\ p'.ops = <<>> => q = Left
    BY <2>3, CutEntry
  <2>5. m \in Config /\ m.peers[1] = Part /\ Len(m.peers) = 1 /\ m.replace = cfg.replace
    <3>1. Part \in PeerConfig
      BY <2>3, PartFits
    <3> QED
      BY <2>1, <3>1 DEF Config
  <2>6. /\ Made \in Seq(Encoded) /\ Len(Made) = Len(batches) /\ Len(batches) \in Nat
        /\ \A n \in 1..Len(batches) : Made[n] = EncodePeer(batches[n].peers[1])
        /\ DOMAIN batches = 1..Len(batches)
    BY <1>1, <2>2, MadeParts
  <2>7. j \in 1..Len(cfg.peers) /\ Requested[j] \in Encoded
    BY <1>1, <2>1, <2>2
  <2>8. PartOf(q, Requested[j]) /\ PartOf(Left', Requested[j])
    BY <2>2, <2>4, <2>7, PartOfPart
  <2>9. m.peers[1] = Part /\ EncodePeer(m.peers[1]) = q
    BY <2>5
  <2> HIDE DEF m, q
  <2> DEFINE b == Append(batches, m)
             k == Len(batches)
  <2>10. /\ b \in Seq(Config) /\ DOMAIN b = 1..(k + 1) /\ Len(b) = k + 1
         /\ b[k + 1] = m /\ \A n \in 1..k : b[n] = batches[n]
    BY <1>1, <2>5, <2>6
  <2>11. \A n \in DOMAIN b : n \in DOMAIN batches \/ n = k + 1
    BY <2>6, <2>10
  <2> HIDE DEF b
  <2>12. \A n \in DOMAIN b : Len(b[n].peers) = 1 /\ b[n].replace = cfg.replace
    BY <2>2, <2>5, <2>6, <2>10, <2>11
  <2> DEFINE M == [n \in DOMAIN b |-> EncodePeer(b[n].peers[1])]
  <2>13. Made' = M
    BY <1>2 DEF Made, b
  <2>14. /\ \A n \in 1..k : M[n] = Made[n]
         /\ M[k + 1] = q
    BY <2>6, <2>9, <2>10
  <2>15. M = Append(Made, q)
    <3> DEFINE A == Append(Made, q)
    <3>1. A \in Seq(Encoded) /\ Len(A) = k + 1 /\ DOMAIN A = 1..(k + 1)
          /\ A[k + 1] = q /\ \A n \in 1..k : A[n] = Made[n]
      BY <2>4, <2>6
    <3>2. \A n \in 1..(k + 1) : n \in 1..k \/ n = k + 1
      BY <2>6
    <3> HIDE DEF A
    <3>3. \A n \in 1..(k + 1) : M[n] = A[n] /\ A[n] \in Encoded
      <4>1. \A n \in 1..(k + 1) : A[n] \in Encoded
        BY <3>1, LenProperties
      <4> HIDE DEF M
      <4> QED
        BY <2>14, <3>1, <3>2, <4>1
    <3>4. M \in [1..(k + 1) -> Encoded] /\ k + 1 \in Nat
      <4>1. DOMAIN M = 1..(k + 1) /\ M = [n \in DOMAIN M |-> M[n]]
        BY <2>10
      <4> HIDE DEF M
      <4> QED
        BY <2>6, <3>3, <4>1
    <3> HIDE DEF M
    <3>5. M \in Seq(Encoded) /\ Len(M) = k + 1
      BY <3>4
    <3>6. M = A
      BY <3>1, <3>3, <3>5, SeqEqual
    <3> QED
      BY <3>6 DEF A
  <2> HIDE DEF M
  <2>16. \A n \in DOMAIN b : \E l \in DOMAIN Requested : PartOf(M[n], Requested[l])
    <3> TAKE n \in DOMAIN b
    <3>1. CASE n \in DOMAIN batches
      BY <2>2, <2>6, <2>14, <3>1
    <3>2. CASE n = k + 1
      <4>1. PartOf(M[n], Requested[j]) /\ j \in DOMAIN Requested
        BY <2>1, <2>7, <2>8, <2>14, <3>2
      <4> QED
        BY <4>1
    <3> QED
      BY <2>11, <3>1, <3>2
  <2>17. \A d \in Device : After(d, M) = SetPeer(After(d, Made), q)
    BY <2>4, <2>6, <2>15, AfterOneMore
  <2>18. \A d \in Device : After(d, Made) \in Device
    BY <2>6, AfterSteps
  <2>19. known' \subseteq {cfg.peers[i].key : i \in 1..j}
    <3>1. j \in 1..j
      BY <1>1, <2>2
    <3> QED
      BY <1>2, <2>2, <2>3, <3>1
  <2>20. b # <<>> /\ batches' = b
    BY <1>2, <2>6, <2>10 DEF b
  <2>21. CASE p'.ips = <<>> /\ p'.ops = <<>>
    <3>1. pc' = "peer"
      BY <1>2, <2>21
    <3>2. \A d \in Device : After(d, M) = After(d, SubSeq(Requested, 1, j))
      BY <2>2, <2>4, <2>17, <2>21
    <3> QED
      BY <1>2, <1>3, <1>4, <2>1, <2>2, <2>12, <2>13, <2>16, <2>19, <2>20, <3>1, <3>2 DEF Cut
  <2>22. CASE ~(p'.ips = <<>> /\ p'.ops = <<>>)
    <3>1. pc' = "chunk"
      BY <1>2, <2>22
    <3>2. \A d \in Device : SetPeer(After(d, M), Left') = After(d, SubSeq(Requested, 1, j))
      <4> TAKE d \in Device
      <4>1. SetPeer(SetPeer(After(d, Made), q), Left') = SetPeer(After(d, Made), Left)
        BY <2>4, <2>18
      <4> QED
        BY <2>2, <2>17, <4>1
    <3> QED
      BY <1>2, <1>3, <1>4, <2>1, <2>2, <2>8, <2>12, <2>13, <2>16, <2>19, <2>20, <3>1, <3>2 DEF Cut
  <2> QED
    BY <2>21, <2>22
<1> QED
  BY <1>3, <1>5, <1>6

(* Every message but the first loses its flag.                             *)
LEMMA ClearCompletes ==
  ASSUME Building, DistinctKeys(cfg), Cut, Underway, ToGoal, ShouldBatch(cfg), ClearReplace
  PROVE  Cut' /\ Underway'
<1> DEFINE b == [i \in DOMAIN batches |-> [batches[i] EXCEPT !.replace = @ /\ i = 1]]
<1>1. /\ cfg \in Config /\ j \in Nat /\ batches \in Seq(Config)
  BY DEF Building, Ready
<1>2. /\ pc = "clear" /\ pc' = "send" /\ batches' = b
      /\ UNCHANGED <<dev, cfg, j, p, known, sent, goal>>
  BY DEF ClearReplace
<1>3. /\ cfg.replace \in BOOLEAN /\ Requested \in Seq(Encoded)
  BY <1>1, RequestedParts
<1>4. /\ j \in 0..Len(cfg.peers) /\ j = Len(cfg.peers)
      /\ known \subseteq {cfg.peers[i].key : i \in 1..j}
      /\ \A n \in DOMAIN batches :
           /\ Len(batches[n].peers) = 1
           /\ batches[n].replace = cfg.replace
           /\ \E l \in DOMAIN Requested : PartOf(Made[n], Requested[l])
      /\ j > 0 => batches # <<>>
      /\ \A d \in Device : After(d, Made) = After(d, SubSeq(Requested, 1, j))
  <2>1. pc # "send" /\ pc # "chunk" /\ pc \in {"peer", "chunk", "clear", "send"}
    BY <1>2
  <2> QED
    BY <1>2, <1>3, <2>1 DEF Cut
<1>5. /\ Made \in Seq(Encoded) /\ Len(Made) = Len(batches) /\ Len(batches) \in Nat
      /\ DOMAIN batches = 1..Len(batches)
      /\ \A n \in DOMAIN batches : batches[n] \in Config
  BY <1>1, <1>4, MadeParts
<1>6. DOMAIN b = DOMAIN batches
      /\ \A n \in DOMAIN batches : /\ b[n].peers = batches[n].peers
                                   /\ b[n].replace = (cfg.replace /\ n = 1)
                                   /\ b[n] \in Config
  BY <1>4, <1>5 DEF Config
<1> HIDE DEF b
<1>7. Made' = Made /\ Requested' = Requested
  BY <1>2, <1>6 DEF Made, Requested
<1>8. b \in Seq(Config) /\ Len(b) = Len(batches)
  <2>1. b = [n \in 1..Len(batches) |-> b[n]]
    BY <1>2, <1>5, <1>6 DEF b
  <2>2. [n \in 1..Len(batches) |-> b[n]] \in Seq(Config)
        /\ Len([n \in 1..Len(batches) |-> b[n]]) = Len(batches)
    BY <1>5, <1>6
  <2> QED
    BY <2>1, <2>2
<1>9. b # <<>> <=> batches # <<>>
  BY <1>1, <1>8
<1>10. Cut'
  <2>1. \A n \in DOMAIN b : /\ Len(b[n].peers) = 1
                            /\ b[n].replace = (cfg.replace /\ n = 1)
                            /\ \E l \in DOMAIN Requested : PartOf(Made[n], Requested[l])
    BY <1>4, <1>6
  <2> QED
    BY <1>2, <1>4, <1>7, <1>9, <2>1 DEF Cut
<1>11. Underway'
  <2>1. sent = 0 /\ sent \in 0..Len(b)
    BY <1>2, <1>5, <1>8 DEF Underway
  <2>2. dev = After(dev, SubSeq(Made, 1, 0))
    BY <1>5, AfterSteps DEF ToGoal
  <2>3. \/ cfg.replace
        \/ dev \in Device /\ After(dev, Requested) = goal
    BY <1>3 DEF ToGoal
  <2> QED
    BY <1>2, <1>7, <2>1, <2>2, <2>3 DEF Underway
<1> QED
  BY <1>10, <1>11

(* The kernel takes a message of a small configuration.                    *)
LEMMA SendSmall ==
  ASSUME Building, DistinctKeys(cfg), Underway, ToGoal, ~ShouldBatch(cfg), Send
  PROVE  Underway' /\ ToGoal'
<1>1. /\ cfg \in Config /\ dev \in Device /\ goal \in Device
      /\ After(IF cfg.replace THEN NoPeers ELSE dev, Requested) = goal
  BY DEF Building, ToGoal
<1>2. /\ pc = "send" /\ sent < Len(batches) /\ dev' = SetDevice(dev, Message(batches[sent + 1]))
      /\ sent' = sent + 1 /\ UNCHANGED <<pc, cfg, batches, goal>>
  BY DEF Send, Sending
<1>3. batches = <<cfg>> /\ sent \in 0..Len(batches)
  BY <1>2 DEF Underway
<1>4. sent = 0 /\ Len(batches) = 1 /\ batches[1] = cfg
  BY <1>2, <1>3
<1>5. dev' = goal
  <2>1. dev' = SetDevice(dev, Message(cfg))
    BY <1>2, <1>4
  <2> QED
    BY <1>1, <2>1, MessageDoes DEF Requested
<1>6. After(IF cfg.replace THEN NoPeers ELSE goal, Requested) = goal
  <2>1. CASE cfg.replace
    BY <1>1, <2>1
  <2>2. CASE ~cfg.replace
    <3>1. /\ Requested \in Seq(Encoded) /\ Len(Requested) \in Nat
          /\ \A i, n \in DOMAIN Requested : Requested[i].key = Requested[n].key => i = n
      BY <1>1, RequestedParts
    <3>2. Len(Requested) \in 0..Len(Requested)
      BY <3>1
    <3>3. After(After(dev, SubSeq(Requested, 1, Len(Requested))), Requested) = After(dev, Requested)
      BY <1>1, <3>1, <3>2, BeginningFirst
    <3>4. After(dev, SubSeq(Requested, 1, Len(Requested))) = After(dev, Requested)
      BY <1>1, <3>1, AfterSteps
    <3> QED
      BY <1>1, <2>2, <3>3, <3>4
  <2> QED
    BY <2>1, <2>2
<1>7. Requested' = Requested
  BY <1>2 DEF Requested
<1> QED
  BY <1>1, <1>2, <1>3, <1>4, <1>5, <1>6, <1>7 DEF Underway, ToGoal

(* What is known of the message that is sent next, when there are several. *)
LEMMA NextMessage ==
  ASSUME Building, DistinctKeys(cfg), Cut, Underway, ShouldBatch(cfg),
         pc = "send", sent < Len(batches)
  PROVE  /\ sent \in Nat /\ Made \in Seq(Encoded) /\ Len(Made) = Len(batches)
         /\ batches[sent + 1] \in Config /\ Len(batches[sent + 1].peers) = 1
         /\ batches[sent + 1].replace = (cfg.replace /\ sent = 0)
         /\ Made[sent + 1] = EncodePeer(batches[sent + 1].peers[1]) /\ Made[sent + 1] \in Encoded
         /\ \E l \in DOMAIN Requested : PartOf(Made[sent + 1], Requested[l])
<1>1. batches \in Seq(Config) /\ cfg \in Config
  BY DEF Building, Ready
<1>2. sent \in 0..Len(batches)
  BY DEF Underway
<1>3. \A n \in DOMAIN batches :
         /\ Len(batches[n].peers) = 1
         /\ batches[n].replace = (cfg.replace /\ (pc = "send" => n = 1))
         /\ \E l \in DOMAIN Requested : PartOf(Made[n], Requested[l])
  <2>1. pc \in {"peer", "chunk", "clear", "send"}
    OBVIOUS
  <2> QED
    BY <2>1 DEF Cut
<1>4. /\ Made \in Seq(Encoded) /\ Len(Made) = Len(batches) /\ Len(batches) \in Nat
      /\ DOMAIN batches = 1..Len(batches)
      /\ \A n \in 1..Len(batches) : /\ batches[n] \in Config
                                    /\ Made[n] = EncodePeer(batches[n].peers[1])
                                    /\ Made[n] \in Encoded
  BY <1>1, <1>3, MadeParts
<1>5. sent \in Nat /\ sent + 1 \in DOMAIN batches /\ (sent + 1 = 1 <=> sent = 0)
  BY <1>2, <1>4
<1>6. cfg.replace \in BOOLEAN
  BY <1>1, RequestedParts
<1>7. batches[sent + 1].replace = (cfg.replace /\ sent = 0)
  BY <1>3, <1>5, <1>6
<1> QED
  BY <1>3, <1>4, <1>5, <1>7

(* The kernel takes a message of a large one.                              *)
LEMMA SendLarge ==
  ASSUME Building, DistinctKeys(cfg), Cut, Underway, ToGoal, ShouldBatch(cfg), Send
  PROVE  Cut' /\ Underway' /\ ToGoal'
<1> DEFINE b == batches[sent + 1]
           e == Made[sent + 1]
<1>1. /\ cfg \in Config /\ dev \in Device /\ goal \in Device
      /\ After(IF cfg.replace THEN NoPeers ELSE dev, Requested) = goal
  BY DEF Building, ToGoal
<1>2. /\ pc = "send" /\ sent < Len(batches) /\ dev' = SetDevice(dev, Message(b))
      /\ sent' = sent + 1 /\ UNCHANGED <<pc, cfg, j, p, known, batches, goal>>
  BY DEF Send, Sending
<1>3. /\ sent \in Nat /\ Made \in Seq(Encoded) /\ Len(Made) = Len(batches)
      /\ b \in Config /\ Len(b.peers) = 1 /\ b.replace = (cfg.replace /\ sent = 0)
      /\ e = EncodePeer(b.peers[1]) /\ e \in Encoded
      /\ \E l \in DOMAIN Requested : PartOf(e, Requested[l])
  BY <1>2, NextMessage
<1> HIDE DEF b, e
<1>4. dev' = SetPeer(IF b.replace THEN NoPeers ELSE dev, e)
  BY <1>1, <1>2, <1>3, OneEntry
<1>5. Made' = Made /\ Requested' = Requested
  BY <1>2 DEF Made, Requested
<1>6. Cut'
  <2>1. UNCHANGED <<cfg, pc, j, p, known, batches>>
    BY <1>2
  <2>2. Left' = Left
    BY <2>1 DEF Left
  <2> QED
    BY <1>5, <2>1, <2>2 DEF Cut
<1>7. /\ Requested \in Seq(Encoded) /\ cfg.replace \in BOOLEAN
      /\ \A i, n \in DOMAIN Requested : Requested[i].key = Requested[n].key => i = n
  BY <1>1, RequestedParts
<1>8. dev' \in Device
  BY <1>1, <1>3, <1>4, EmptyDevice, SetPeerParts
<1>9. ToGoal'
  <2>1. CASE cfg.replace
    BY <1>1, <1>2, <1>5, <1>8, <2>1 DEF ToGoal
  <2>2. CASE ~cfg.replace
    <3>1. PICK l \in DOMAIN Requested : PartOf(e, Requested[l])
      BY <1>3
    <3>2. After(SetPeer(dev, e), Requested) = After(dev, Requested)
      BY <1>1, <1>3, <1>7, <3>1, PartFirst
    <3> QED
      BY <1>1, <1>2, <1>3, <1>4, <1>5, <1>8, <2>2, <3>2 DEF ToGoal
  <2> QED
    BY <2>1, <2>2
<1>10. \E d \in Device : After(d, Requested) = goal /\ dev' = After(d, SubSeq(Made, 1, sent + 1))
  <2>1. sent \in 0..Len(Made) /\ sent < Len(Made)
    BY <1>2, <1>3
  <2>2. \A d \in Device : After(d, SubSeq(Made, 1, sent + 1)) = SetPeer(After(d, SubSeq(Made, 1, sent)), e)
    BY <1>3, <2>1, AfterSteps DEF e
  <2>3. \A d \in Device : After(d, SubSeq(Made, 1, 0)) = d
    BY <1>3, AfterSteps
  <2>4. CASE sent = 0 /\ cfg.replace
    <3>1. dev' = After(NoPeers, SubSeq(Made, 1, sent + 1))
      BY <1>3, <1>4, <2>2, <2>3, <2>4, EmptyDevice
    <3> QED
      BY <1>1, <2>4, <3>1, EmptyDevice
  <2>5. CASE ~(sent = 0 /\ cfg.replace)
    <3>1. PICK d \in Device : After(d, Requested) = goal /\ dev = After(d, SubSeq(Made, 1, sent))
      BY <1>2, <2>5 DEF Underway
    <3>2. dev' = After(d, SubSeq(Made, 1, sent + 1))
      BY <1>3, <1>4, <2>2, <2>5, <3>1
    <3> QED
      BY <3>1, <3>2
  <2> QED
    BY <2>4, <2>5
<1>11. Underway'
  <2>1. sent + 1 \in 0..Len(batches)
    BY <1>2, <1>3
  <2> QED
    BY <1>2, <1>5, <1>10, <2>1 DEF Underway
<1> QED
  BY <1>6, <1>9, <1>11

(* The kernel stops somewhere in a message.                                *)
LEMMA SendFailsCompletes ==
  ASSUME Building, DistinctKeys(cfg), Cut, Underway, ToGoal, SendFails
  PROVE  Cut' /\ Underway' /\ ToGoal'
<1> DEFINE b == batches[sent + 1]
           m == Message(b)
<1>1. /\ cfg \in Config /\ dev \in Device /\ goal \in Device /\ batches \in Seq(Config)
      /\ After(IF cfg.replace THEN NoPeers ELSE dev, Requested) = goal
  BY DEF Building, Ready, ToGoal
<1>2. /\ pc = "send" /\ sent < Len(batches) /\ pc' = "failed"
      /\ \/ dev' = dev
         \/ \E n \in 0..Len(m.peers) : dev' = SetDevice(dev, [m EXCEPT !.peers = SubSeq(@, 1, n)])
      /\ UNCHANGED <<cfg, j, p, known, batches, sent, goal>>
  BY DEF SendFails, Sending
<1>3. Cut' /\ Underway'
  BY <1>2 DEF Cut, Underway
<1>4. Requested' = Requested
  BY <1>2 DEF Requested
<1>5. CASE dev' = dev
  BY <1>1, <1>2, <1>3, <1>4, <1>5 DEF ToGoal
<1>6. ASSUME NEW n \in 0..Len(m.peers), dev' = SetDevice(dev, [m EXCEPT !.peers = SubSeq(@, 1, n)])
      PROVE  ToGoal'
  <2>1. b \in Config
    <3>1. sent \in 0..Len(batches)
      BY <1>2 DEF Underway
    <3> QED
      BY <1>1, <1>2, <3>1
  <2> HIDE DEF b
  <2>2. m.peers \in Seq(Encoded)
        /\ dev' = After(IF b.replace THEN NoPeers ELSE dev, SubSeq(m.peers, 1, n))
    BY <1>1, <1>6, <2>1, MessageDoes
  <2>3. dev' \in Device
    <3>1. (IF b.replace THEN NoPeers ELSE dev) \in Device
      BY <1>1, EmptyDevice
    <3> HIDE DEF m
    <3> QED
      BY <2>2, <3>1, AfterSteps
  <2>4. /\ Requested \in Seq(Encoded) /\ cfg.replace \in BOOLEAN
        /\ \A i, l \in DOMAIN Requested : Requested[i].key = Requested[l].key => i = l
    BY <1>1, RequestedParts
  <2>5. CASE cfg.replace
    BY <1>1, <1>2, <1>4, <2>3, <2>5 DEF ToGoal
  <2>6. CASE ~cfg.replace /\ ~ShouldBatch(cfg)
    <3>1. b = cfg
      <4>1. batches = <<cfg>> /\ sent \in 0..Len(batches)
        BY <1>2, <2>6 DEF Underway
      <4>2. sent = 0
        BY <1>2, <4>1
      <4> QED
        BY <4>1, <4>2 DEF b
    <3>2. m.peers = Requested
      BY <3>1 DEF Requested
    <3>3. After(After(dev, SubSeq(Requested, 1, n)), Requested) = After(dev, Requested)
      BY <1>1, <2>4, <3>2, BeginningFirst
    <3> QED
      BY <1>1, <1>2, <1>4, <2>2, <2>3, <2>6, <3>1, <3>2, <3>3 DEF ToGoal
  <2>7. CASE ~cfg.replace /\ ShouldBatch(cfg)
    <3> DEFINE e == EncodePeer(b.peers[1])
    <3>1. /\ Len(b.peers) = 1 /\ ~b.replace /\ e \in Encoded
          /\ \E l \in DOMAIN Requested : PartOf(e, Requested[l])
      BY <1>2, <2>7, NextMessage DEF b
    <3>2. Len(m.peers) = 1 /\ m.peers[1] = e
      BY <1>1, <2>1, <3>1, OneEntry
    <3> HIDE DEF e, m
    <3>3. dev' = After(dev, SubSeq(m.peers, 1, n))
      BY <2>2, <3>1
    <3>4. /\ After(dev, SubSeq(m.peers, 1, 0)) = dev
          /\ \A i \in 0..Len(m.peers) :
               i < Len(m.peers) =>
                 After(dev, SubSeq(m.peers, 1, i + 1)) = SetPeer(After(dev, SubSeq(m.peers, 1, i)), m.peers[i + 1])
      BY <1>1, <2>2, AfterSteps
    <3>5. n = 0 \/ n = 1
      BY <3>2
    <3>6. CASE n = 0
      BY <1>1, <1>2, <1>4, <2>3, <2>7, <3>3, <3>4, <3>6 DEF ToGoal
    <3>7. CASE n = 1
      <4>1. 0 \in 0..Len(m.peers) /\ 0 < Len(m.peers) /\ 0 + 1 = 1
        BY <3>2
      <4>2. dev' = SetPeer(dev, e)
        BY <3>2, <3>3, <3>4, <3>7, <4>1
      <4>3. PICK l \in DOMAIN Requested : PartOf(e, Requested[l])
        BY <3>1
      <4>4. After(SetPeer(dev, e), Requested) = After(dev, Requested)
        BY <1>1, <2>4, <3>1, <4>3, PartFirst
      <4> QED
        BY <1>1, <1>2, <1>4, <2>3, <2>7, <4>2, <4>4 DEF ToGoal
    <3> QED
      BY <3>5, <3>6, <3>7
  <2> QED
    BY <2>5, <2>6, <2>7
<1> QED
  BY <1>2, <1>3, <1>5, <1>6

(* The call returns when all messages are sent.                            *)
LEMMA ReturnCompletes ==
  ASSUME Building, DistinctKeys(cfg), Cut, Underway, ToGoal, Return
  PROVE  dev = goal
<1>1. /\ cfg \in Config /\ batches \in Seq(Config) /\ pc = "send" /\ sent = Len(batches)
  BY DEF Building, Ready, Return
<1>2. CASE ~ShouldBatch(cfg)
  BY <1>1, <1>2 DEF Underway
<1>3. CASE ShouldBatch(cfg)
  <2>1. /\ Requested \in Seq(Encoded) /\ Len(Requested) = Len(cfg.peers) /\ Len(cfg.peers) > 0
        /\ Len(cfg.peers) \in Nat
    BY <1>1, <1>3, RequestedParts, LargeHasEntries
  <2>2. /\ j = Len(cfg.peers) /\ batches # <<>>
        /\ \A n \in DOMAIN batches : Len(batches[n].peers) = 1
        /\ \A d \in Device : After(d, Made) = After(d, SubSeq(Requested, 1, j))
    <3>1. pc # "chunk" /\ pc \in {"peer", "chunk", "clear", "send"}
      BY <1>1
    <3> QED
      BY <1>1, <1>3, <2>1, <3>1 DEF Cut
  <2>3. Made \in Seq(Encoded) /\ Len(Made) = sent /\ sent \in Nat
    BY <1>1, <2>2, MadeParts
  <2>4. sent # 0
    BY <1>1, <2>2, EmptySeq
  <2>5. PICK d \in Device : After(d, Requested) = goal /\ dev = After(d, SubSeq(Made, 1, sent))
    BY <1>1, <1>3, <2>4 DEF Underway
  <2>6. After(d, SubSeq(Made, 1, sent)) = After(d, Made)
    BY <2>3, AfterSteps
  <2>7. After(d, SubSeq(Requested, 1, j)) = After(d, Requested)
    BY <2>1, <2>2, AfterSteps
  <2> QED
    BY <2>2, <2>5, <2>6, <2>7
<1> QED
  BY <1>2, <1>3

(* Every step keeps it, the refusals and the attempts after them too.      *)
LEMMA CompletingStep == Building /\ Completing /\ [Next]_vars => Completing'
<1> SUFFICES ASSUME Building, Completing, [Next]_vars, DistinctKeys(cfg)'
             PROVE  Cut' /\ Underway' /\ ToGoal'
  BY DEF Completing
<1>1. cfg' = cfg
  BY DEF Next, Run, vars, Small, Large, BeginPeer, Chunk, EndPeers, ClearReplace, Send,
         SendFails, Return, Again
<1>2. DistinctKeys(cfg) /\ Cut /\ Underway /\ ToGoal /\ cfg \in Config /\ Requested' = Requested
  <2>1. DistinctKeys(cfg)
    BY <1>1 DEF DistinctKeys
  <2> QED
    BY <1>1, <2>1 DEF Completing, Building, Requested
<1>3. dev' = dev /\ goal' = goal => ToGoal'
  BY <1>1, <1>2 DEF ToGoal
<1>4. /\ Requested \in Seq(Encoded) /\ cfg.replace \in BOOLEAN /\ Len(cfg.peers) \in Nat
  BY <1>2, RequestedParts
<1>5. CASE Small
  <2>1. /\ ~ShouldBatch(cfg) /\ batches' = <<cfg>> /\ pc' = "send" /\ sent' = sent /\ sent = 0
        /\ dev' = dev /\ goal' = goal
    BY <1>2, <1>5 DEF Small, Underway
  <2>2. 0 \in 0..Len(<<cfg>>)
    OBVIOUS
  <2>3. Cut'
    BY <1>1, <2>1 DEF Cut
  <2>4. Underway'
    BY <1>1, <2>1, <2>2 DEF Underway
  <2> QED
    BY <1>3, <2>1, <2>3, <2>4
<1>6. CASE Large
  <2>1. /\ pc' = "peer" /\ UNCHANGED <<dev, cfg, j, p, known, batches, sent, goal>>
        /\ j = 0 /\ known = {} /\ batches = <<>> /\ sent = 0
    BY <1>2, <1>6 DEF Large, Underway
  <2>2. Made' = <<>> /\ DOMAIN batches = {}
    BY <2>1 DEF Made
  <2>3. \A d \in Device : After(d, <<>>) = After(d, SubSeq(Requested, 1, 0))
    <3> TAKE d \in Device
    <3>1. <<>> \in Seq(Encoded) /\ SubSeq(<<>>, 1, 0) = <<>>
      BY SubSeqEmpty
    <3>2. After(d, SubSeq(<<>>, 1, 0)) = d
      BY <3>1, AfterSteps
    <3>3. After(d, SubSeq(Requested, 1, 0)) = d
      BY <1>4, AfterSteps
    <3> QED
      BY <3>1, <3>2, <3>3
  <2>4. Cut'
    BY <1>2, <1>4, <2>1, <2>2, <2>3 DEF Cut
  <2>5. Underway'
    BY <1>1, <1>6, <2>1 DEF Underway, Large
  <2> QED
    BY <1>3, <2>1, <2>4, <2>5
<1>7. CASE BeginPeer
  BY <1>2, <1>3, <1>7, BeginPeerCompletes DEF BeginPeer
<1>8. CASE Chunk
  BY <1>2, <1>3, <1>8, ChunkCompletes DEF Chunk
<1>9. CASE EndPeers
  <2>1. /\ pc = "peer" /\ j = Len(cfg.peers) /\ pc' = "clear"
        /\ UNCHANGED <<dev, cfg, j, p, known, batches, sent, goal>>
    BY <1>9 DEF EndPeers
  <2>2. Made' = Made
    BY <2>1 DEF Made
  <2>3. Cut'
    BY <1>2, <2>1, <2>2 DEF Cut
  <2>4. Underway'
    BY <1>2, <2>1 DEF Underway
  <2> QED
    BY <1>3, <2>1, <2>3, <2>4
<1>10. CASE ClearReplace
  <2>1. ShouldBatch(cfg)
    BY <1>2, <1>10 DEF Underway, ClearReplace
  <2> QED
    BY <1>2, <1>3, <1>10, <2>1, ClearCompletes DEF ClearReplace
<1>11. CASE Send
  <2>1. CASE ShouldBatch(cfg)
    BY <1>2, <1>11, <2>1, SendLarge
  <2>2. CASE ~ShouldBatch(cfg)
    <3>1. Cut'
      BY <1>1, <2>2 DEF Cut
    <3> QED
      BY <1>2, <1>11, <2>2, <3>1, SendSmall
  <2> QED
    BY <2>1, <2>2
<1>12. CASE SendFails
  BY <1>2, <1>12, SendFailsCompletes
<1>13. CASE Return
  <2>1. dev = goal
    BY <1>2, <1>13, ReturnCompletes
  <2>2. pc' = "ok" /\ UNCHANGED <<dev, cfg, goal>>
    BY <1>13 DEF Return
  <2> QED
    BY <1>3, <2>1, <2>2 DEF Cut, Underway
<1>14. CASE Again
  BY <1>3, <1>14 DEF Again, Cut, Underway
<1>15. CASE UNCHANGED vars
  <2>1. UNCHANGED <<dev, pc, cfg, j, p, known, batches, sent, goal>>
    BY <1>15 DEF vars
  <2>2. Made' = Made /\ Left' = Left
    BY <2>1 DEF Made, Left
  <2>3. Cut'
    BY <1>2, <2>1, <2>2 DEF Cut
  <2>4. Underway'
    BY <1>2, <2>1, <2>2 DEF Underway
  <2> QED
    BY <1>3, <2>1, <2>3, <2>4
<1> QED
  BY <1>5, <1>6, <1>7, <1>8, <1>9, <1>10, <1>11, <1>12, <1>13, <1>14, <1>15 DEF Next, Run

(* A call that succeeds, after whatever refusals between or inside         *)
(* messages, leaves the device as one message with the whole configuration *)
(* would have left it (client_linux.go:127-145), for every configuration   *)
(* that names no key twice and every ipBatchChunk and peerBatchChunk.      *)
THEOREM RetriesComplete == Spec => []RetryCompletes
<1>1. Init => Building /\ Completing
  BY BuildingInit, CompletingInit
<1>2. Building /\ Completing /\ [Next]_vars => (Building /\ Completing)'
  BY BuildingStep, CompletingStep
<1>3. Building /\ Completing => RetryCompletes
  BY DEF Completing, Underway, RetryCompletes, LeavesGoal
<1> QED
  BY <1>1, <1>2, <1>3, PTL DEF Spec

(* No message after the first takes a peer away that the configuration     *)
(* asks for ("Do not allow peer replacement beyond the first message in a  *)
(* batch", configure_linux.go:175).                                        *)
THEOREM BatchesKeep == Spec => LaterMessagesKeep
<1>1. Init => Building /\ Completing
  BY BuildingInit, CompletingInit
<1>2. Building /\ Completing /\ [Next]_vars => (Building /\ Completing)'
  BY BuildingStep, CompletingStep
<1> DEFINE Keeps == Send /\ sent > 0 /\ DistinctKeys(cfg) =>
       \A l \in DOMAIN cfg.peers :
         LET q == cfg.peers[l]
         IN  q.key \in dev.peers /\ ~q.remove => q.key \in dev'.peers
<1>3. Building /\ Completing /\ [Next]_vars => [Keeps]_vars
  <2> SUFFICES ASSUME Building, Completing, Send, sent > 0, DistinctKeys(cfg),
                      NEW l \in DOMAIN cfg.peers, cfg.peers[l].key \in dev.peers,
                      ~cfg.peers[l].remove
               PROVE  cfg.peers[l].key \in dev'.peers
    OBVIOUS
  <2> DEFINE b == batches[sent + 1]
             e == Made[sent + 1]
  <2>1. /\ cfg \in Config /\ dev \in Device /\ Cut /\ Underway
    BY DEF Building, Completing, ToGoal
  <2>2. pc = "send" /\ sent < Len(batches) /\ dev' = SetDevice(dev, Message(b))
    BY DEF Send, Sending
  <2>3. ShouldBatch(cfg)
    <3> SUFFICES ASSUME ~ShouldBatch(cfg) PROVE FALSE
      OBVIOUS
    <3>1. batches = <<cfg>> /\ sent \in 0..Len(batches)
      BY <2>1, <2>2 DEF Underway
    <3> QED
      BY <2>2, <3>1
  <2>4. /\ b \in Config /\ Len(b.peers) = 1 /\ ~b.replace
        /\ e = EncodePeer(b.peers[1]) /\ e \in Encoded
        /\ \E i \in DOMAIN Requested : PartOf(e, Requested[i])
    <3>1. /\ b \in Config /\ Len(b.peers) = 1 /\ b.replace = (cfg.replace /\ sent = 0)
          /\ e = EncodePeer(b.peers[1]) /\ e \in Encoded
          /\ \E i \in DOMAIN Requested : PartOf(e, Requested[i])
          /\ sent \in Nat
      BY <2>1, <2>2, <2>3, NextMessage
    <3> HIDE DEF b, e
    <3>2. sent # 0
      BY <3>1
    <3>3. ~b.replace
      BY <3>1, <3>2, Zenon
    <3> QED
      BY <3>1, <3>3
  <2> HIDE DEF b, e
  <2>5. dev' = SetPeer(dev, e)
    BY <2>1, <2>2, <2>4, OneEntry
  <2>6. PICK i \in DOMAIN Requested : PartOf(e, Requested[i])
    BY <2>4
  <2>7. /\ DOMAIN Requested = 1..Len(cfg.peers) /\ DOMAIN cfg.peers = 1..Len(cfg.peers)
        /\ \A n \in 1..Len(cfg.peers) : /\ cfg.peers[n] \in PeerConfig
                                        /\ Requested[n] = EncodePeer(cfg.peers[n])
    BY <2>1, RequestedParts, LenProperties
  <2>8. e.key = cfg.peers[i].key /\ e.remove = cfg.peers[i].remove
    BY <2>6, <2>7, EncodedParts DEF PartOf
  <2>9. e.remove => e.key # cfg.peers[l].key
    BY <2>6, <2>7, <2>8 DEF DistinctKeys
  <2>10. dev'.peers = dev.peers \/ dev'.peers = (IF e.remove THEN dev.peers \ {e.key}
                                                 ELSE dev.peers \cup {e.key})
    BY <2>1, <2>4, <2>5, SetPeerParts
  <2> QED
    BY <2>9, <2>10
<1> QED
  BY <1>1, <1>2, <1>3, PTL DEF Spec, LaterMessagesKeep
-----------------------------------------------------------------------------
(* The clients of Windows, OpenBSD and FreeBSD: what their errors say.     *)
(*                                                                         *)
(* IoctlErrorsAreTrue rests on an invariant (Asking) of what each          *)
(* goroutine knows.  All that the errors depend on is which adapters there *)
(* are, with which paths (Alike).  A call has witnessed (Witnessed) a      *)
(* moment alike to now, all that the other calls under way have, and that  *)
(* a path does not change under an adapter; so what a map or the cache     *)
(* says was so at one of these moments (Scanned, Cached, Opening), a call  *)
(* without events is where it has to be (Quiet), and what was not found    *)
(* was missing (Missed).                                                   *)

(* What the errors depend on: which adapters there are, and which path     *)
(* each has; not the devices behind them.                                  *)
Alike(g, h) ==
  \A n \in IfName : g[n].path = h[n].path /\ (g[n].started <=> h[n].started)

PathIn(h, n) == IF UpIn(h, n) THEN h[n].path ELSE None

Past(t) == t.had \cup t.before
Always(t, n) == \A h \in Past(t) : UpIn(h, n)

(* The tasks, as far as they are of one form.                              *)
WindowsStages == {"snapshot", "scan", "range", "lookup", "open", "get", "set"}
OtherStages == {"count", "fetch", "get", "check", "set"}
TaskForm(t) ==
  /\ DOMAIN t = DOMAIN Idle
  /\ t.at \in IF os = "windows" THEN WindowsStages \cup {"idle", "done"}
              ELSE OtherStages \cup {"idle", "done"}
  /\ t.at # "idle" =>
       /\ IsCall(t.call)
       /\ t.call.op # "Devices" => t.name = t.call.name
       /\ t.call.op = "Devices" => \E S : t.todo \in Seq(S)
  /\ t.at \in {"range", "count", "fetch"} => t.call.op = "Devices"
  /\ t.at = "fetch" => t.slots \in Nat
  /\ t.at = "check" => t.call.op = "Configure" /\ os = "freebsd" /\ t.checks \in Nat
  /\ t.at = "set" => t.call.op = "Configure" /\ os # "openbsd"
  /\ t.at = "get" /\ t.call.op = "Configure" => os = "openbsd"
  /\ t.at \in {"snapshot", "scan", "lookup"} /\ t.name = NoName => t.call.op = "Devices"

(* What a goroutine has witnessed: there is always one who was there when  *)
(* the last change was made, all who are in a call have seen what the      *)
(* others have, and a path changes only while the adapter is away.         *)
Witnessed(c) ==
  LET t == task[c] IN
  /\ \E h \in t.had : Alike(h, adapter)
  /\ ~t.hurt => ~denied
  /\ os = "windows" => \A d \in Caller : InCall(d) =>
       \A h \in task[d].had : \E g \in Past(t) : Alike(h, g)
  /\ \A n \in IfName : Always(t, n) => \A g, h \in Past(t) : g[n].path = h[n].path

(* A map is true to the moment at which each name was looked at.           *)
Scanned(t) ==
  t.at = "scan" =>
    /\ DOMAIN t.found = IfName
    /\ \A n \in IfName \ t.scan : \E h \in t.had : t.found[n] = PathIn(h, n)

(* So is the cache, once a call has published its map; before, as it was   *)
(* when the call began, it may lack names.                                 *)
Unpublished(t) ==
  IF t.call.op = "Devices" THEN t.at \in {"snapshot", "scan"} ELSE ~t.refreshed

Cached(t) ==
  os = "windows" /\ ~t.stale /\ t.at # "done" =>
    \A n \in IfName :
      \/ \E h \in Past(t) : cache[n] = PathIn(h, n)
      \/ Unpublished(t) /\ cache[n] = None
      \/ Unpublished(t) /\ \E h \in Past(t) : h[n].path # None /\ cache[n] = h[n].path

Opening(t) ==
  t.at = "open" /\ ~t.stale =>
    t.name \in IfName /\ \E h \in Past(t) : h[t.name].path # None /\ t.path = h[t.name].path

(* A call in which nothing has happened.                                   *)
Listing(t, h) ==
  t.call.op = "Devices" =>
    /\ t.at \in {"lookup", "open", "get"} => UpIn(h, t.name)
    /\ t.at \in {"snapshot", "scan"} /\ t.name # NoName => UpIn(h, t.name)
    /\ t.at \in {"snapshot", "scan", "lookup", "open", "get"} /\ t.name # NoName =>
         \A i \in DOMAIN t.todo : UpIn(h, t.todo[i])
    /\ t.at = "fetch" => /\ t.slots = Cardinality({n \in IfName : UpIn(h, n)})
                         /\ \E n \in IfName : UpIn(h, n)

Reaching(t, h) ==
  /\ os = "windows" /\ t.at \in {"get", "set"} => UpIn(h, t.name) /\ t.path = h[t.name].path
  /\ os = "freebsd" /\ UpIn(h, t.name) =>
       /\ t.at = "check" => t.checks = UpdateOnlys(t.call.cfg)
       /\ t.at = "set" => UpdateOnlys(t.call.cfg) = 0

Quiet(t) ==
  ~t.hurt /\ ~t.stale => \A h \in Past(t) : Past(t) = {h} =>
    /\ Listing(t, h) /\ Reaching(t, h)
    /\ t.at = "done" => t.result = Expected(t.call, h)

Missed(t) ==
  t.at = "done" /\ ~t.stale /\ t.call.op # "Devices" /\ t.result = "missing" =>
    \E h \in Past(t) : ~UpIn(h, t.name)

Alright(t) ==
  t.at # "idle" => Scanned(t) /\ Cached(t) /\ Opening(t) /\ Quiet(t) /\ Missed(t)

HostForm(h) == /\ DOMAIN h = IfName
               /\ \A n \in IfName : DOMAIN h[n] = DOMAIN NoAdapter

Planned(c) == \E S : plan[c] \in Seq(S) /\ \A call \in S : IsCall(call)

Asking ==
  /\ os \in {"windows", "openbsd", "freebsd"}
  /\ HostForm(adapter) /\ DOMAIN cache = IfName
  /\ DOMAIN task = Caller /\ DOMAIN plan = Caller /\ \A c \in Caller : Planned(c)
  /\ \A c \in Caller : TaskForm(task[c]) /\ Alright(task[c]) /\ (InCall(c) => Witnessed(c))

(* The fields of a goroutine.                                              *)
Fields == {"at", "call", "name", "todo", "refreshed", "found", "scan", "path", "checks", "cap",
           "mem", "slots", "out", "result", "had", "before", "hurt", "stale"}

(* A goroutine that calls nothing.                                         *)
LEMMA IdleFields == DOMAIN Idle = Fields /\ Idle.at = "idle"
BY DEF Idle, Fields

(* Steps that say nothing about the past.                                  *)
SamePast(t, u) ==
  /\ t.had = u.had /\ t.before = u.before /\ t.hurt = u.hurt
  /\ t.at = "idle" <=> u.at = "idle"

(* Such steps leave what has been witnessed.                               *)
LEMMA WitnessedOn ==
  ASSUME UNCHANGED <<os, adapter, denied>>,
         \A d \in Caller : SamePast(task[d], task'[d]),
         NEW c \in Caller, InCall(c) => Witnessed(c)
  PROVE  (InCall(c) => Witnessed(c))'
<1>1. InCall(c)' <=> InCall(c)
  BY DEF InCall, SamePast
<1>2. ASSUME Witnessed(c) PROVE Witnessed(c)'
  <2> DEFINE t == task[c]
             u == task'[c]
  <2>1. Past(u) = Past(t) /\ u.had = t.had /\ u.hurt = t.hurt
    BY DEF Past, SamePast
  <2>2. \A g, h : Alike(g, h)' <=> Alike(g, h)
    BY DEF Alike
  <2>3. \A d \in Caller : InCall(d)' <=> InCall(d)
    BY DEF InCall, SamePast
  <2>4. \A n : Always(u, n) <=> Always(t, n)
    BY <2>1, Zenon DEF Always
  <2> QED
    BY <1>2, <2>1, <2>2, <2>3, <2>4 DEF Witnessed, SamePast
<1> QED
  BY <1>1, <1>2

(* A goroutine takes a step of its own, within its call.                   *)
SameCall(t, u) ==
  /\ DOMAIN u = DOMAIN t
  /\ u.had = t.had /\ u.before = t.before /\ u.hurt = t.hurt /\ u.stale = t.stale
  /\ u.call = t.call

(* What a task is worth does not depend on other variables than these.     *)
LEMMA FormPrimed ==
  ASSUME UNCHANGED os, NEW d \in Caller, TaskForm(task'[d])
  PROVE  TaskForm(task[d])'
BY DEF TaskForm

(* Where no map changes, a task that is right stays so; so is one whose    *)
(* map has changed but suits it (CachedPrimed is about the other).         *)
LEMMA RightPrimed ==
  ASSUME UNCHANGED os, NEW d \in Caller, task'[d].at # "idle" => Scanned(task'[d]) /\ Opening(task'[d])
         /\ Quiet(task'[d]) /\ Missed(task'[d]) /\ Cached(task[d])'
  PROVE  Alright(task[d])'
<1>1. Scanned(task'[d]) => Scanned(task[d])'
  BY DEF Scanned, PathIn, UpIn
<1>2. Opening(task'[d]) => Opening(task[d])'
  BY DEF Opening, Past
<1>3. Missed(task'[d]) => Missed(task[d])'
  BY DEF Missed, Past, UpIn
<1>4. Quiet(task'[d]) => Quiet(task[d])'
  <2>1. \A h : Listing(task'[d], h) => Listing(task[d], h)'
    BY DEF Listing, UpIn
  <2>2. \A h : Reaching(task'[d], h) => Reaching(task[d], h)'
    BY DEF Reaching, UpIn, UpdateOnlys
  <2>3. \A call, h : Expected(call, h)' = Expected(call, h)
    BY DEF Expected, UpIn, UpdateOnlys
  <2> QED
    BY <2>1, <2>2, <2>3 DEF Quiet, Past
<1> QED
  BY <1>1, <1>2, <1>3, <1>4 DEF Alright

(* A cache that stays suits a task in the next state if it does now.       *)
LEMMA CachedPrimed ==
  ASSUME UNCHANGED <<os, cache>>, NEW d \in Caller, Cached(task'[d])
  PROVE  Cached(task[d])'
BY DEF Cached, Past, PathIn, UpIn, Unpublished

(* A step of one goroutine within its call (of those below it is left to   *)
(* show that what it makes of its task is right).                          *)
LEMMA LocalKeeps ==
  ASSUME Asking, NEW c \in Caller, NEW u, task' = [task EXCEPT ![c] = u], InCall(c),
         UNCHANGED <<os, adapter, denied, cache, plan>>,
         SameCall(task[c], u), u.at # "idle", TaskForm(u), Alright(u)
  PROVE  Asking'
<1>1. task'[c] = u /\ \A d \in Caller \ {c} : task'[d] = task[d]
  BY DEF Asking
<1>2. \A d \in Caller : SamePast(task[d], task'[d])
  BY <1>1 DEF SamePast, SameCall, InCall
<1>3. \A d \in Caller : TaskForm(task'[d]) /\ Alright(task'[d])
  BY <1>1 DEF Asking
<1>4. ASSUME NEW d \in Caller PROVE TaskForm(task[d])'
  BY <1>3, FormPrimed
<1>5. ASSUME NEW d \in Caller PROVE Alright(task[d])'
  BY <1>3, RightPrimed, CachedPrimed DEF Alright
<1>6. \A d \in Caller : (InCall(d) => Witnessed(d))'
  BY <1>2, WitnessedOn DEF Asking
<1> QED
  BY <1>4, <1>5, <1>6 DEF Asking, HostForm, Planned

(* There are three systems.                                                *)
LEMMA SystemIs ==
  ASSUME Asking
  PROVE  os \in {"windows", "openbsd", "freebsd"}
BY DEF Asking

(* A task has the fields of Idle.                                          *)
LEMMA FieldsOf ==
  ASSUME NEW t, TaskForm(t)
  PROVE  DOMAIN t = Fields
BY IdleFields DEF TaskForm

(* An end changes two fields.                                              *)
LEMMA EndIs ==
  ASSUME NEW t, NEW r, DOMAIN t = Fields
  PROVE  /\ DOMAIN End(t, r) = Fields
         /\ End(t, r).at = "done" /\ End(t, r).result = r
         /\ \A f \in Fields \ {"at", "result"} : End(t, r)[f] = t[f]
BY DEF End, Fields

(* What is alike has the same adapters with the same paths, and is         *)
(* expected to give the same results.                                      *)
LEMMA AlikeUp ==
  ASSUME NEW g, NEW h, Alike(g, h)
  PROVE  /\ \A n : UpIn(g, n) <=> UpIn(h, n)
         /\ \A n \in IfName : PathIn(g, n) = PathIn(h, n) /\ g[n].path = h[n].path
         /\ \A k : Alike(h, k) => Alike(g, k)
         /\ Alike(h, g)
         /\ \A call : Expected(call, g) = Expected(call, h)
<1>1. \A n : UpIn(g, n) <=> UpIn(h, n)
  BY DEF Alike, UpIn
<1>2. \A n \in IfName : PathIn(g, n) = PathIn(h, n) /\ g[n].path = h[n].path
  BY <1>1 DEF Alike, PathIn
<1>3. \A k : Alike(h, k) => Alike(g, k)
  BY DEF Alike
<1>4. Alike(h, g)
  BY DEF Alike
<1>5. \A call : Expected(call, g) = Expected(call, h)
  BY <1>1 DEF Expected
<1> QED
  BY <1>1, <1>2, <1>3, <1>4, <1>5

(* What is known at a step of a goroutine.                                 *)
LEMMA Knows ==
  ASSUME Asking, NEW c \in Caller, InCall(c)
  PROVE  LET t == task[c] IN
         /\ TaskForm(t) /\ DOMAIN t = Fields /\ t.at # "idle"
         /\ Scanned(t) /\ Cached(t) /\ Opening(t) /\ Quiet(t) /\ Missed(t)
         /\ \E h \in Past(t) : Alike(h, adapter)
         /\ \E h \in t.had : Alike(h, adapter)
         /\ ~t.hurt => ~denied
         /\ \A h : Past(t) = {h} => Alike(h, adapter)
<1>1. TaskForm(task[c]) /\ Alright(task[c]) /\ Witnessed(c) /\ task[c].at # "idle"
  BY DEF Asking, InCall
<1>2. DOMAIN task[c] = Fields
  BY <1>1, FieldsOf
<1>3. \E h \in task[c].had : Alike(h, adapter)
  BY <1>1 DEF Witnessed
<1>4. ~task[c].hurt => ~denied
  BY <1>1 DEF Witnessed
<1>5. \E h \in Past(task[c]) : Alike(h, adapter)
  BY <1>3 DEF Past
<1> QED
  BY <1>1, <1>2, <1>3, <1>4, <1>5 DEF Alright

(* A call ends well, if nothing has happened and it ends as it must, or    *)
(* something has; and if it says "not found" of what was missing.          *)
LEMMA EndsRight ==
  ASSUME NEW t, NEW r, TaskForm(t), t.at # "idle",
         ~t.hurt /\ ~t.stale => \A h : Past(t) = {h} => r = Expected(t.call, h),
         r = "missing" /\ ~t.stale /\ t.call.op # "Devices" => \E h \in Past(t) : ~UpIn(h, t.name)
  PROVE  /\ SameCall(t, End(t, r)) /\ End(t, r).at # "idle"
         /\ TaskForm(End(t, r)) /\ Alright(End(t, r))
<1> DEFINE u == End(t, r)
<1> HIDE DEF u
<1>1. DOMAIN t = Fields
  BY FieldsOf
<1>2. /\ DOMAIN u = Fields /\ u.at = "done" /\ u.result = r
      /\ \A f \in Fields \ {"at", "result"} : u[f] = t[f]
  BY <1>1, EndIs DEF u
<1>3. /\ u.call = t.call /\ u.name = t.name /\ u.todo = t.todo /\ u.had = t.had /\ u.before = t.before
      /\ u.hurt = t.hurt /\ u.stale = t.stale
  BY <1>2 DEF Fields
<1>4. SameCall(t, u)
  BY <1>1, <1>2, <1>3 DEF SameCall
<1>5. TaskForm(u)
  BY <1>1, <1>2, <1>3, IdleFields DEF TaskForm
<1>6. Past(u) = Past(t)
  BY <1>3 DEF Past
<1>7. Scanned(u) /\ Cached(u) /\ Opening(u)
  BY <1>2 DEF Scanned, Cached, Opening
<1>8. Quiet(u)
  BY <1>2, <1>3, <1>6 DEF Quiet, Listing, Reaching
<1>9. Missed(u)
  BY <1>2, <1>3, <1>6 DEF Missed
<1> QED
  BY <1>2, <1>4, <1>5, <1>7, <1>8, <1>9 DEF Alright, u

(* A step that ends the call.                                              *)
LEMMA EndKeeps ==
  ASSUME Asking, NEW c \in Caller, NEW r, task' = [task EXCEPT ![c] = End(task[c], r)], InCall(c),
         UNCHANGED <<os, adapter, denied, cache, plan>>,
         ~task[c].hurt /\ ~task[c].stale => \A h : Past(task[c]) = {h} => r = Expected(task[c].call, h),
         r = "missing" /\ ~task[c].stale /\ task[c].call.op # "Devices" =>
            \E h \in Past(task[c]) : ~UpIn(h, task[c].name)
  PROVE  Asking'
<1> DEFINE u == End(task[c], r)
<1>1. TaskForm(task[c]) /\ task[c].at # "idle"
  BY Knows
<1>2. SameCall(task[c], u) /\ u.at # "idle" /\ TaskForm(u) /\ Alright(u)
  BY <1>1, EndsRight
<1> HIDE DEF u
<1>3. task' = [task EXCEPT ![c] = u]
  BY DEF u
<1> QED
  BY <1>2, <1>3, LocalKeeps

(* So does a step that ends it and does nothing else.                      *)
LEMMA EndStepKeeps ==
  ASSUME Asking, NEW c \in Caller, NEW from, from # "idle", NEW r, Local(c, from, End(task[c], r)),
         ~task[c].hurt /\ ~task[c].stale => \A h : Past(task[c]) = {h} => r = Expected(task[c].call, h),
         r = "missing" /\ ~task[c].stale /\ task[c].call.op # "Devices" =>
            \E h \in Past(task[c]) : ~UpIn(h, task[c].name)
  PROVE  Asking'
<1>1. task' = [task EXCEPT ![c] = End(task[c], r)] /\ InCall(c)
      /\ UNCHANGED <<os, adapter, denied, cache, plan>>
  BY DEF Local, Becomes, InCall, host, client
<1> QED
  BY <1>1, EndKeeps

(* A step that is Local.                                                   *)
LEMMA StepKeeps ==
  ASSUME Asking, NEW c \in Caller, NEW from, from # "idle", NEW u, Local(c, from, u),
         SameCall(task[c], u), u.at # "idle", TaskForm(u), Alright(u)
  PROVE  Asking'
<1>1. task' = [task EXCEPT ![c] = u] /\ InCall(c)
      /\ UNCHANGED <<os, adapter, denied, cache, plan>>
  BY DEF Local, Becomes, InCall, host, client
<1> QED
  BY <1>1, LocalKeeps

(* SystemFails: only of a call during which something was denied.          *)
LEMMA FailsKeeps ==
  ASSUME Asking, NEW c \in Caller, SystemFails(c)
  PROVE  Asking'
<1>1. ASSUME NEW at \in {"snapshot", "get", "set", "count", "fetch"}, Local(c, at, End(task[c], "failed"))
      PROVE  Asking'
  <2>1. InCall(c) /\ denied
    BY <1>1 DEF Local, Becomes, InCall, SystemFails
  <2>2. task[c].hurt
    BY <2>1, Knows
  <2> QED
    BY <1>1, <2>2, EndStepKeeps
<1>2. ASSUME Local(c, "check", End(task[c], "unsupported"))
      PROVE  Asking'
  <2>1. InCall(c) /\ denied
    BY <1>2 DEF Local, Becomes, InCall, SystemFails
  <2>2. task[c].hurt
    BY <2>1, Knows
  <2> QED
    BY <1>2, <2>2, EndStepKeeps
<1> QED
  BY <1>1, <1>2 DEF SystemFails

(* What stays as it was: the rest of what Alright says of a task.          *)
LEMMA CachedOn ==
  ASSUME NEW t, NEW u, SameCall(t, u), Cached(t), t.at # "done",
         Unpublished(t) => Unpublished(u)
  PROVE  Cached(u)
<1>1. Past(u) = Past(t)
  BY DEF Past, SameCall
<1> QED
  BY <1>1 DEF Cached, SameCall

(* Snapshot: an adapter that is not in it has no path.                     *)
LEMMA SnapshotKeeps ==
  ASSUME Asking, NEW c \in Caller, Snapshot(c)
  PROVE  Asking'
<1> DEFINE t == task[c]
           S == {n \in IfName : adapter[n].path # None}
           u == [t EXCEPT !.at = "scan", !.found = Idle.found, !.scan = S]
<1>1. Local(c, "snapshot", u) /\ t.at = "snapshot" /\ InCall(c)
  BY DEF Snapshot, Local, Becomes, InCall
<1>2. /\ TaskForm(t) /\ DOMAIN t = Fields /\ Cached(t) /\ Quiet(t)
      /\ \E h \in t.had : Alike(h, adapter)
  BY <1>1, Knows
<1> HIDE DEF S
<1>3. /\ DOMAIN u = Fields /\ u.at = "scan" /\ u.found = Idle.found /\ u.scan = S
      /\ \A f \in Fields \ {"at", "found", "scan"} : u[f] = t[f]
  BY <1>2 DEF Fields
<1>4. Idle.found = [n \in IfName |-> None]
  BY DEF Idle
<1> HIDE DEF u
<1>5. SameCall(t, u) /\ u.name = t.name /\ u.todo = t.todo /\ u.refreshed = t.refreshed
  BY <1>2, <1>3 DEF SameCall, Fields
<1>6. TaskForm(u)
  BY <1>1, <1>2, <1>3, <1>5, IdleFields DEF TaskForm, SameCall, WindowsStages, OtherStages
<1>7. Scanned(u)
  <2> SUFFICES ASSUME NEW n \in IfName \ S PROVE \E h \in u.had : u.found[n] = PathIn(h, n)
    BY <1>3, <1>4 DEF Scanned
  <2>1. PathIn(adapter, n) = None
    BY DEF PathIn, UpIn, S
  <2>2. PICK h \in t.had : Alike(h, adapter)
    BY <1>2
  <2>3. PathIn(h, n) = None
    BY <2>1, <2>2, AlikeUp
  <2> QED
    BY <2>2, <2>3, <1>3, <1>4, <1>5 DEF SameCall
<1>8. Cached(u)
  <2>1. Unpublished(t) => Unpublished(u)
    BY <1>1, <1>3, <1>5 DEF Unpublished, SameCall
  <2> QED
    BY <2>1, <1>1, <1>2, <1>5, CachedOn
<1>9. Past(u) = Past(t)
  BY <1>5 DEF Past, SameCall
<1>10. Quiet(u)
  BY <1>1, <1>2, <1>3, <1>5, <1>9 DEF Quiet, Listing, Reaching, SameCall
<1>11. Opening(u) /\ Missed(u)
  BY <1>3 DEF Opening, Missed
<1>12. Alright(u)
  BY <1>7, <1>8, <1>10, <1>11 DEF Alright
<1> QED
  BY <1>1, <1>3, <1>5, <1>6, <1>12, StepKeeps

(* Scan: one name more is known as it is now.                              *)
LEMMA ScanKeeps ==
  ASSUME Asking, NEW c \in Caller, Scan(c)
  PROVE  Asking'
<1> DEFINE t == task[c]
<1>1. PICK n \in t.scan : Local(c, "scan", [t EXCEPT !.scan = @ \ {n},
                        !.found[n] = IF UpIn(adapter, n) THEN adapter[n].path ELSE None])
  BY DEF Scan
<1> DEFINE u == [t EXCEPT !.scan = @ \ {n}, !.found[n] = IF UpIn(adapter, n) THEN adapter[n].path ELSE None]
<1>2. Local(c, "scan", u) /\ t.at = "scan" /\ InCall(c)
  BY <1>1 DEF Local, Becomes, InCall
<1>3. /\ TaskForm(t) /\ DOMAIN t = Fields /\ Cached(t) /\ Quiet(t) /\ Scanned(t)
      /\ \E h \in t.had : Alike(h, adapter)
  BY <1>2, Knows
<1>4. /\ DOMAIN u = Fields /\ u.at = "scan" /\ u.scan = t.scan \ {n}
      /\ u.found = [t.found EXCEPT ![n] = PathIn(adapter, n)]
      /\ \A f \in Fields \ {"found", "scan"} : u[f] = t[f]
  BY <1>2, <1>3 DEF Fields, PathIn
<1> HIDE DEF u
<1>5. SameCall(t, u) /\ u.name = t.name /\ u.todo = t.todo /\ u.refreshed = t.refreshed
  BY <1>3, <1>4 DEF SameCall, Fields
<1>6. TaskForm(u)
  BY <1>2, <1>3, <1>4, <1>5, IdleFields DEF TaskForm, SameCall, WindowsStages, OtherStages
<1>7. Scanned(u)
  <2>1. DOMAIN t.found = IfName /\ \A m \in IfName \ t.scan : \E h \in t.had : t.found[m] = PathIn(h, m)
    BY <1>2, <1>3 DEF Scanned
  <2>2. DOMAIN u.found = IfName
    BY <1>4, <2>1
  <2>3. ASSUME NEW m \in IfName \ u.scan PROVE \E h \in u.had : u.found[m] = PathIn(h, m)
    <3>1. CASE m # n
      <4>1. u.found[m] = t.found[m] /\ m \in IfName \ t.scan
        BY <3>1, <1>4, <2>1, <2>3
      <4> QED
        BY <4>1, <2>1, <1>5 DEF SameCall
    <3>2. CASE m = n
      <4>1. u.found[m] = PathIn(adapter, m)
        BY <3>2, <1>4, <2>1, <2>3
      <4>2. PICK h \in t.had : Alike(h, adapter)
        BY <1>3
      <4>3. PathIn(h, m) = PathIn(adapter, m)
        BY <4>2, <2>3, AlikeUp
      <4> QED
        BY <4>1, <4>2, <4>3, <1>5 DEF SameCall
    <3> QED
      BY <3>1, <3>2
  <2> QED
    BY <2>2, <2>3 DEF Scanned
<1>8. Cached(u)
  <2>1. Unpublished(t) => Unpublished(u)
    BY <1>2, <1>4, <1>5 DEF Unpublished, SameCall
  <2> QED
    BY <2>1, <1>2, <1>3, <1>5, CachedOn
<1>9. Past(u) = Past(t)
  BY <1>5 DEF Past, SameCall
<1>10. Quiet(u)
  BY <1>2, <1>3, <1>4, <1>5, <1>9 DEF Quiet, Listing, Reaching, SameCall
<1>11. Opening(u) /\ Missed(u)
  BY <1>4 DEF Opening, Missed
<1>12. Alright(u)
  BY <1>7, <1>8, <1>10, <1>11 DEF Alright
<1> QED
  BY <1>2, <1>4, <1>5, <1>6, <1>12, StepKeeps

(* Fields that say nothing of the errors.                                  *)
LEMMA OtherFields ==
  ASSUME NEW t, NEW u, DOMAIN t = Fields, DOMAIN u = Fields,
         \A f \in Fields \ {"out", "cap", "mem"} : u[f] = t[f],
         TaskForm(t), Alright(t), t.at # "idle"
  PROVE  SameCall(t, u) /\ u.at # "idle" /\ TaskForm(u) /\ Alright(u)
<1>1. /\ u.at = t.at /\ u.call = t.call /\ u.name = t.name /\ u.todo = t.todo
      /\ u.refreshed = t.refreshed /\ u.found = t.found /\ u.scan = t.scan
      /\ u.path = t.path /\ u.checks = t.checks
      /\ u.slots = t.slots /\ u.result = t.result /\ u.had = t.had
      /\ u.before = t.before /\ u.hurt = t.hurt /\ u.stale = t.stale
  BY DEF Fields
<1>2. SameCall(t, u)
  BY <1>1 DEF SameCall
<1>3. TaskForm(u)
  BY <1>1, IdleFields DEF TaskForm
<1>4. Past(u) = Past(t)
  BY <1>1 DEF Past
<1>5. Scanned(u) /\ Opening(u) /\ Missed(u)
  BY <1>1, <1>4 DEF Alright, Scanned, Opening, Missed
<1>6. Cached(u)
  BY <1>1, <1>2, CachedOn DEF Alright, Unpublished, Cached
<1>7. Quiet(u)
  BY <1>1, <1>4 DEF Alright, Quiet, Listing, Reaching
<1> QED
  BY <1>1, <1>2, <1>3, <1>5, <1>6, <1>7 DEF Alright

(* A list goes on to its next device.                                      *)
LEMMA NextIs ==
  ASSUME NEW r, DOMAIN r = Fields, r.todo # <<>>
  PROVE  LET u == NextDevice(r) IN
         /\ DOMAIN u = Fields
         /\ u.at = (IF os = "windows" THEN "lookup" ELSE "get")
         /\ u.name = Head(r.todo) /\ u.todo = Tail(r.todo)
         /\ \A f \in Fields \ {"at", "name", "todo", "refreshed", "cap", "mem"} : u[f] = r[f]
BY DEF NextDevice, Fields

(* A list that goes on stays right, if all that it goes over is there as   *)
(* long as nothing happens.                                                *)
LEMMA NextRight ==
  ASSUME NEW r, TaskForm(r), r.at \notin {"idle", "done"}, r.call.op = "Devices",
         Cached(r), ~Unpublished(r), os \in {"windows", "openbsd", "freebsd"},
         ~r.hurt /\ ~r.stale => \A h : Past(r) = {h} =>
           /\ \A i \in DOMAIN r.todo : UpIn(h, r.todo[i])
           /\ os # "windows" => \E n \in IfName : UpIn(h, n)
  PROVE  LET u == NextDevice(r) IN
         SameCall(r, u) /\ u.at # "idle" /\ TaskForm(u) /\ Alright(u)
<1>1. DOMAIN r = Fields /\ IsCall(r.call)
  BY FieldsOf DEF TaskForm
<1>2. CASE r.todo = <<>>
  <2>1. NextDevice(r) = End(r, "ok")
    BY <1>2 DEF NextDevice
  <2>2. ~r.hurt /\ ~r.stale => \A h : Past(r) = {h} => "ok" = Expected(r.call, h)
    BY DEF Expected
  <2> HIDE DEF IsCall
  <2> QED
    BY <2>1, <2>2, EndsRight
<1>3. CASE r.todo # <<>>
  <2> DEFINE u == NextDevice(r)
  <2>1. /\ DOMAIN u = Fields
        /\ u.at = (IF os = "windows" THEN "lookup" ELSE "get")
        /\ u.name = Head(r.todo) /\ u.todo = Tail(r.todo)
        /\ \A f \in Fields \ {"at", "name", "todo", "refreshed", "cap", "mem"} : u[f] = r[f]
    BY <1>1, <1>3, NextIs
  <2> HIDE DEF u
  <2>2. SameCall(r, u)
    BY <1>1, <2>1 DEF SameCall, Fields
  <2>3. PICK S : r.todo \in Seq(S)
    BY DEF TaskForm
  <2>4. /\ Tail(r.todo) \in Seq(S) /\ Len(Tail(r.todo)) = Len(r.todo) - 1 /\ Len(r.todo) \in Nat \ {0}
        /\ \A i \in 1..Len(Tail(r.todo)) : Tail(r.todo)[i] = r.todo[i + 1]
    BY <1>3, <2>3
  <2>5. DOMAIN r.todo = 1..Len(r.todo) /\ DOMAIN Tail(r.todo) = 1..Len(Tail(r.todo))
    BY <2>3, <2>4, LenProperties
  <2>6. TaskForm(u)
    <3>1. DOMAIN u = DOMAIN Idle /\ u.call = r.call
      BY <2>1, <2>2, IdleFields DEF SameCall
    <3>2. \E T : u.todo \in Seq(T)
      BY <2>1, <2>4
    <3> QED
      BY <1>1, <2>1, <3>1, <3>2 DEF TaskForm, WindowsStages, OtherStages
  <2>7. Past(u) = Past(r)
    BY <2>2 DEF Past, SameCall
  <2>8. Scanned(u) /\ Opening(u) /\ Missed(u)
    BY <2>1 DEF Scanned, Opening, Missed
  <2>9. Cached(u)
    BY <2>2, CachedOn
  <2>10. Quiet(u)
    <3> SUFFICES ASSUME ~u.hurt, ~u.stale, NEW h \in Past(u), Past(u) = {h}
                 PROVE  Listing(u, h) /\ Reaching(u, h) /\ (u.at = "done" => u.result = Expected(u.call, h))
      BY DEF Quiet
    <3>1. \A i \in DOMAIN r.todo : UpIn(h, r.todo[i])
      BY <2>2, <2>7 DEF SameCall
    <3>2. UpIn(h, Head(r.todo))
      <4>1. 1 \in DOMAIN r.todo /\ Head(r.todo) = r.todo[1]
        BY <2>3, <2>4, <2>5, <1>3
      <4> QED
        BY <4>1, <3>1
    <3>3. ASSUME NEW i \in DOMAIN Tail(r.todo) PROVE UpIn(h, Tail(r.todo)[i])
      <4>1. i + 1 \in DOMAIN r.todo /\ Tail(r.todo)[i] = r.todo[i + 1]
        BY <2>4, <2>5, <3>3
      <4> QED
        BY <4>1, <3>1
    <3>4. Listing(u, h)
      BY <2>1, <3>2, <3>3 DEF Listing
    <3>5. Reaching(u, h)
      BY <2>1 DEF Reaching
    <3> QED
      BY <2>1, <3>4, <3>5
  <2>11. Alright(u)
    BY <2>8, <2>9, <2>10 DEF Alright
  <2>12. u.at # "idle"
    BY <2>1
  <2> QED
    BY <2>2, <2>6, <2>11, <2>12 DEF u
<1> QED
  BY <1>2, <1>3

(* These are stages of the client of Windows.                              *)
LEMMA OnWindows ==
  ASSUME NEW t, TaskForm(t), t.at \in {"snapshot", "scan", "range", "lookup", "open"}
  PROVE  os = "windows"
BY DEF TaskForm, OtherStages

(* A step of the same call on Windows, for the same device.                *)
LEMMA FormOn ==
  ASSUME NEW t, NEW u, TaskForm(t), t.at # "idle", SameCall(t, u), u.name = t.name,
         t.call.op = "Devices" => \E S : u.todo \in Seq(S),
         os = "windows", u.at \in {"range", "lookup", "open", "snapshot", "scan"},
         u.at = "range" => t.call.op = "Devices",
         u.name = NoName => t.call.op = "Devices"
  PROVE  TaskForm(u)
<1>1. DOMAIN u = DOMAIN Idle /\ u.call = t.call
  BY DEF TaskForm, SameCall
<1>2. IsCall(u.call) /\ (u.call.op # "Devices" => u.name = u.call.name)
  BY <1>1 DEF TaskForm
<1>3. u.call.op = "Devices" => \E S : u.todo \in Seq(S)
  BY <1>1
<1>4. u.at \in WindowsStages \cup {"idle", "done"}
  BY DEF WindowsStages
<1> QED
  BY <1>1, <1>2, <1>3, <1>4 DEF TaskForm

(* What a list asks for is a list of names, and only a list starts without *)
(* one.                                                                    *)
LEMMA ListedOrNot ==
  ASSUME NEW t, TaskForm(t), t.at # "idle"
  PROVE  /\ t.call.op = "Devices" => \E S : t.todo \in Seq(S)
         /\ t.at \in {"snapshot", "scan", "lookup"} /\ t.name = NoName => t.call.op = "Devices"
         /\ t.call.op # "Devices" => t.name # NoName
BY DEF TaskForm, IsCall

(* RangeCache: what the map names was there during the call.               *)
LEMMA RangeKeeps ==
  ASSUME Asking, NEW c \in Caller, RangeCache(c)
  PROVE  Asking'
<1> DEFINE t == task[c]
           S == {n \in IfName : cache[n] # None}
           r == [t EXCEPT !.todo = SetToSeq(S)]
<1>1. Local(c, "range", NextDevice(r)) /\ t.at = "range" /\ InCall(c)
  BY DEF RangeCache, Local, Becomes, InCall
<1>2. TaskForm(t) /\ DOMAIN t = Fields /\ Cached(t) /\ t.call.op = "Devices"
  BY <1>1, Knows DEF TaskForm
<1>3. os = "windows"
  BY <1>1, <1>2, OnWindows
<1>4. IsFiniteSet(S)
  BY IoctlTypes, FS_Subset
<1> HIDE DEF S
<1>5. DOMAIN r = Fields /\ r.todo = SetToSeq(S) /\ \A f \in Fields \ {"todo"} : r[f] = t[f]
  BY <1>2 DEF Fields
<1> HIDE DEF r
<1>6. SameCall(t, r) /\ r.at = "range" /\ r.name = t.name
  BY <1>1, <1>2, <1>5 DEF SameCall, Fields
<1>7. SetToSeq(S) \in Seq(S)
  BY <1>4, ListOfSet
<1>8. TaskForm(r)
  <2>1. \E T : r.todo \in Seq(T)
    BY <1>5, <1>7
  <2> QED
    BY <1>1, <1>2, <1>3, <1>6, <2>1, FormOn, ListedOrNot
<1>9. ~Unpublished(r) /\ ~Unpublished(t)
  BY <1>1, <1>2, <1>6 DEF Unpublished, SameCall
<1>10. Cached(r)
  BY <1>1, <1>2, <1>6, <1>9, CachedOn
<1>11. ASSUME ~r.hurt, ~r.stale, NEW h, Past(r) = {h}
       PROVE  \A i \in DOMAIN r.todo : UpIn(h, r.todo[i])
  <2> SUFFICES ASSUME NEW i \in DOMAIN r.todo PROVE UpIn(h, r.todo[i])
    OBVIOUS
  <2>1. r.todo[i] \in IfName /\ cache[r.todo[i]] # None
    <3>1. DOMAIN SetToSeq(S) = 1..Len(SetToSeq(S)) /\ \A k \in 1..Len(SetToSeq(S)) : SetToSeq(S)[k] \in S
      BY <1>7, LenProperties, ElementOfSeq
    <3> QED
      BY <3>1, <1>5 DEF S
  <2>2. cache[r.todo[i]] = PathIn(h, r.todo[i])
    BY <2>1, <1>3, <1>6, <1>9, <1>10, <1>11 DEF Cached
  <2> QED
    BY <2>1, <2>2 DEF PathIn
<1>12. SameCall(r, NextDevice(r)) /\ NextDevice(r).at # "idle" /\ TaskForm(NextDevice(r)) /\ Alright(NextDevice(r))
  <2>1. r.call.op = "Devices" /\ r.at \notin {"idle", "done"}
    BY <1>2, <1>6 DEF SameCall
  <2>2. ~r.hurt /\ ~r.stale => \A h : Past(r) = {h} =>
           /\ \A i \in DOMAIN r.todo : UpIn(h, r.todo[i])
           /\ os # "windows" => \E n \in IfName : UpIn(h, n)
    BY <1>3, <1>11
  <2> QED
    BY <2>1, <2>2, <1>3, <1>8, <1>9, <1>10, NextRight
<1>13. SameCall(t, NextDevice(r))
  BY <1>6, <1>12 DEF SameCall
<1> QED
  BY <1>1, <1>12, <1>13, StepKeeps

(* Lookup: what a new map does not name was missing; a path that it names  *)
(* was that of an adapter.                                                 *)
LEMMA LookupKeeps ==
  ASSUME Asking, NEW c \in Caller, Lookup(c)
  PROVE  Asking'
<1> DEFINE t == task[c]
<1>1. t.at = "lookup" /\ InCall(c)
  BY DEF Lookup, Local, Becomes, InCall
<1>2. TaskForm(t) /\ DOMAIN t = Fields /\ Cached(t) /\ Quiet(t) /\ \E h \in Past(t) : Alike(h, adapter)
  BY <1>1, Knows
<1>3. os = "windows"
  BY <1>1, <1>2, OnWindows
<1>4. CASE t.name \in IfName /\ cache[t.name] # None
  <2> DEFINE u == [t EXCEPT !.at = "open", !.path = cache[t.name]]
  <2>1. Local(c, "lookup", u)
    BY <1>4 DEF Lookup
  <2>2. /\ DOMAIN u = Fields /\ u.at = "open" /\ u.path = cache[t.name]
        /\ \A f \in Fields \ {"at", "path"} : u[f] = t[f]
    BY <1>2 DEF Fields
  <2> HIDE DEF u
  <2>3. SameCall(t, u) /\ u.name = t.name /\ u.todo = t.todo /\ u.refreshed = t.refreshed
    BY <1>2, <2>2 DEF SameCall, Fields
  <2>4. TaskForm(u)
    BY <1>1, <1>2, <1>3, <2>2, <2>3, FormOn, ListedOrNot
  <2>5. Past(u) = Past(t)
    BY <2>3 DEF Past, SameCall
  <2>6. Scanned(u) /\ Missed(u)
    BY <2>2 DEF Scanned, Missed
  <2>7. Opening(u)
    <3> SUFFICES ASSUME ~u.stale PROVE \E h \in Past(u) : h[t.name].path # None /\ cache[t.name] = h[t.name].path
      BY <1>4, <2>2, <2>3 DEF Opening
    <3>1. \/ \E h \in Past(t) : cache[t.name] = PathIn(h, t.name)
          \/ \E h \in Past(t) : h[t.name].path # None /\ cache[t.name] = h[t.name].path
      BY <1>1, <1>2, <1>3, <1>4, <2>3 DEF Cached, SameCall
    <3> QED
      BY <3>1, <1>4, <2>5 DEF PathIn
  <2>8. Cached(u)
    <3>1. Unpublished(t) => Unpublished(u)
      BY <1>1, <2>2, <2>3 DEF Unpublished, SameCall
    <3> QED
      BY <3>1, <1>1, <1>2, <2>3, CachedOn
  <2>9. Quiet(u)
    BY <1>1, <1>2, <2>2, <2>3, <2>5 DEF Quiet, Listing, Reaching, SameCall
  <2>10. Alright(u)
    BY <2>6, <2>7, <2>8, <2>9 DEF Alright
  <2> QED
    BY <2>1, <2>2, <2>3, <2>4, <2>10, StepKeeps
<1>5. CASE ~(t.name \in IfName /\ cache[t.name] # None) /\ t.refreshed
  <2>1. Local(c, "lookup", End(t, "missing"))
    BY <1>5 DEF Lookup
  <2>2. ASSUME ~t.stale, t.name \in IfName, ~Unpublished(t)
        PROVE  \E h \in Past(t) : ~UpIn(h, t.name)
    <3>1. \E h \in Past(t) : cache[t.name] = PathIn(h, t.name)
      BY <1>1, <1>2, <1>3, <2>2 DEF Cached
    <3> QED
      BY <3>1, <1>5, <2>2 DEF PathIn, UpIn
  <2>3. ~Unpublished(t)
    BY <1>1, <1>5 DEF Unpublished
  <2>4. ~t.stale => \E h \in Past(t) : ~UpIn(h, t.name)
    BY <1>2, <2>2, <2>3 DEF UpIn
  <2>5. ASSUME ~t.hurt, ~t.stale, NEW h, Past(t) = {h} PROVE "missing" = Expected(t.call, h)
    <3>1. ~UpIn(h, t.name)
      BY <2>4, <2>5
    <3>2. Listing(t, h)
      BY <1>2, <2>5 DEF Quiet
    <3>3. t.call.op # "Devices"
      BY <1>1, <3>1, <3>2 DEF Listing
    <3>4. t.call.name = t.name
      BY <1>1, <1>2, <3>3 DEF TaskForm
    <3> QED
      BY <3>1, <3>3, <3>4 DEF Expected
  <2> QED
    BY <2>1, <2>4, <2>5, EndStepKeeps
<1>6. CASE ~(t.name \in IfName /\ cache[t.name] # None) /\ ~t.refreshed
  <2> DEFINE u == [t EXCEPT !.at = "snapshot"]
  <2>1. Local(c, "lookup", u)
    BY <1>6 DEF Lookup
  <2>2. DOMAIN u = Fields /\ u.at = "snapshot" /\ \A f \in Fields \ {"at"} : u[f] = t[f]
    BY <1>2 DEF Fields
  <2> HIDE DEF u
  <2>3. SameCall(t, u) /\ u.name = t.name /\ u.todo = t.todo /\ u.refreshed = t.refreshed
    BY <1>2, <2>2 DEF SameCall, Fields
  <2>4. TaskForm(u)
    BY <1>1, <1>2, <1>3, <2>2, <2>3, FormOn, ListedOrNot
  <2>5. Past(u) = Past(t)
    BY <2>3 DEF Past, SameCall
  <2>6. Scanned(u) /\ Missed(u) /\ Opening(u)
    BY <2>2 DEF Scanned, Missed, Opening
  <2>7. Cached(u)
    <3>1. Unpublished(t) => Unpublished(u)
      BY <1>1, <2>2, <2>3 DEF Unpublished, SameCall
    <3> QED
      BY <3>1, <1>1, <1>2, <2>3, CachedOn
  <2>8. Quiet(u)
    BY <1>1, <1>2, <2>2, <2>3, <2>5 DEF Quiet, Listing, Reaching, SameCall
  <2>9. Alright(u)
    BY <2>6, <2>7, <2>8 DEF Alright
  <2> QED
    BY <2>1, <2>2, <2>3, <2>4, <2>9, StepKeeps
<1> QED
  BY <1>4, <1>5, <1>6

(* A path that cannot be opened was given up since it was published, so    *)
(* that its adapter was away at some moment.                               *)
LEMMA Gone ==
  ASSUME Asking, NEW c \in Caller, task[c].at = "open", ~task[c].stale, ~Reachable(task[c])
  PROVE  \E h \in Past(task[c]) : ~UpIn(h, task[c].name)
<1> DEFINE t == task[c]
<1>1. Opening(t) /\ Witnessed(c) /\ \E h \in Past(t) : Alike(h, adapter)
  BY Knows DEF InCall, Asking
<1>2. PICK h \in Past(t) : Alike(h, adapter)
  BY <1>1
<1>3. PICK g \in Past(t) : t.path = g[t.name].path
  BY <1>1 DEF Opening
<1>4. t.name \in IfName
  BY <1>1 DEF Opening
<1>5. ASSUME Always(t, t.name) PROVE FALSE
  <2>1. g[t.name].path = h[t.name].path
    BY <1>1, <1>4, <1>5 DEF Witnessed
  <2>2. UpIn(adapter, t.name)
    BY <1>2, <1>5, AlikeUp DEF Always
  <2>3. h[t.name].path = adapter[t.name].path
    BY <1>2, <1>4 DEF Alike
  <2> QED
    BY <2>1, <2>2, <2>3, <1>3 DEF Reachable
<1> QED
  BY <1>5 DEF Always

(* Open: the path is that of the adapter, or there was none.               *)
LEMMA OpenKeeps ==
  ASSUME Asking, NEW c \in Caller, Open(c)
  PROVE  Asking'
<1> DEFINE t == task[c]
<1>1. t.at = "open" /\ InCall(c)
  BY DEF Open, Local, Becomes, InCall
<1>2. TaskForm(t) /\ DOMAIN t = Fields /\ Cached(t) /\ Quiet(t) /\ \A h : Past(t) = {h} => Alike(h, adapter)
  BY <1>1, Knows
<1>3. os = "windows"
  BY <1>1, <1>2, OnWindows
<1>4. CASE ~Reachable(t)
  <2>1. Local(c, "open", End(t, "missing"))
    BY <1>4 DEF Open
  <2>2. ~t.stale => \E h \in Past(t) : ~UpIn(h, t.name)
    BY <1>1, <1>4, Gone
  <2>3. ASSUME ~t.hurt, ~t.stale, NEW h, Past(t) = {h} PROVE "missing" = Expected(t.call, h)
    <3>1. ~UpIn(h, t.name)
      BY <2>2, <2>3
    <3>2. Listing(t, h)
      BY <1>2, <2>3 DEF Quiet
    <3>3. t.call.op # "Devices"
      BY <1>1, <3>1, <3>2 DEF Listing
    <3>4. t.call.name = t.name
      BY <1>1, <1>2, <3>3 DEF TaskForm
    <3> QED
      BY <3>1, <3>3, <3>4 DEF Expected
  <2> QED
    BY <2>1, <2>2, <2>3, EndStepKeeps
<1>5. ASSUME Reachable(t), NEW u, Local(c, "open", u), DOMAIN u = Fields,
             \A f \in Fields \ {"at", "mem", "cap"} : u[f] = t[f],
             IF t.call.op = "Configure" THEN u.at = "set" ELSE u.at = "get"
      PROVE  Asking'
  <2>3. SameCall(t, u) /\ u.name = t.name /\ u.todo = t.todo /\ u.refreshed = t.refreshed /\ u.path = t.path
    BY <1>2, <1>5 DEF SameCall, Fields
  <2>4. TaskForm(u)
    <3>1. DOMAIN u = DOMAIN Idle /\ u.call = t.call
      BY <1>5, <2>3, IdleFields DEF SameCall
    <3>2. IsCall(u.call) /\ (u.call.op # "Devices" => u.name = u.call.name)
      BY <1>1, <1>2, <2>3, <3>1 DEF TaskForm
    <3>3. u.call.op = "Devices" => \E S : u.todo \in Seq(S)
      BY <1>1, <1>2, <2>3, <3>1 DEF TaskForm
    <3>4. u.at \in {"set", "get"}
      BY <1>5
    <3> QED
      BY <1>3, <1>5, <3>1, <3>2, <3>3, <3>4 DEF TaskForm, WindowsStages
  <2>5. Past(u) = Past(t)
    BY <2>3 DEF Past, SameCall
  <2>6. Scanned(u) /\ Missed(u) /\ Opening(u)
    BY <1>5 DEF Scanned, Missed, Opening
  <2>7. Cached(u)
    <3>1. Unpublished(t) => Unpublished(u)
      BY <1>1, <2>3 DEF Unpublished, SameCall
    <3> QED
      BY <3>1, <1>1, <1>2, <2>3, CachedOn
  <2>8. Quiet(u)
    <3> SUFFICES ASSUME ~u.hurt, ~u.stale, NEW h \in Past(u), Past(u) = {h}
                 PROVE  Listing(u, h) /\ Reaching(u, h) /\ (u.at = "done" => u.result = Expected(u.call, h))
      BY DEF Quiet
    <3>1. Listing(t, h) /\ Alike(h, adapter)
      BY <1>2, <2>3, <2>5 DEF Quiet, SameCall
    <3>2. UpIn(h, t.name) /\ h[t.name].path = t.path
      BY <1>5, <3>1, AlikeUp DEF Reachable, UpIn
    <3>3. Listing(u, h)
      BY <1>1, <1>5, <2>3, <3>1 DEF Listing, SameCall
    <3>4. Reaching(u, h)
      BY <1>3, <2>3, <3>2 DEF Reaching
    <3> QED
      BY <1>5, <3>3, <3>4
  <2>9. Alright(u)
    BY <2>6, <2>7, <2>8 DEF Alright
  <2>10. u.at # "idle"
    BY <1>5
  <2> QED
    BY <1>5, <2>3, <2>4, <2>9, <2>10, StepKeeps
<1>6. CASE Reachable(t) /\ t.call.op = "Configure"
  <2> DEFINE u == [t EXCEPT !.at = "set", !.mem = BuildConfiguration(t.call.cfg)]
  <2>1. Local(c, "open", u)
    BY <1>6, Zenon DEF Open
  <2>2. DOMAIN u = Fields /\ u.at = "set" /\ \A f \in Fields \ {"at", "mem", "cap"} : u[f] = t[f]
    BY <1>2 DEF Fields
  <2> QED
    BY <1>5, <1>6, <2>1, <2>2
<1>7. CASE Reachable(t) /\ t.call.op # "Configure"
  <2> DEFINE u == [t EXCEPT !.at = "get", !.cap = IF guess = 0 THEN Guess0 ELSE guess]
  <2>1. Local(c, "open", u)
    BY <1>7 DEF Open
  <2>2. DOMAIN u = Fields /\ u.at = "get" /\ \A f \in Fields \ {"at", "mem", "cap"} : u[f] = t[f]
    BY <1>2 DEF Fields
  <2> QED
    BY <1>5, <1>7, <2>1, <2>2
<1> QED
  BY <1>4, <1>6, <1>7

(* OpenFails: only where something was denied.                             *)
LEMMA OpenFailsKeeps ==
  ASSUME Asking, NEW c \in Caller, OpenFails(c)
  PROVE  Asking'
<1> DEFINE t == task[c]
<1>1. t.at = "open" /\ InCall(c) /\ denied
  BY DEF OpenFails, Local, Becomes, InCall
<1>2. TaskForm(t) /\ DOMAIN t = Fields /\ Cached(t) /\ t.hurt
  BY <1>1, Knows
<1>3. os = "windows"
  BY <1>1, <1>2, OnWindows
<1>4. CASE t.refreshed
  <2>1. Local(c, "open", End(t, "failed"))
    BY <1>4 DEF OpenFails
  <2> QED
    BY <2>1, <1>2, EndStepKeeps
<1>5. CASE ~t.refreshed
  <2> DEFINE u == [t EXCEPT !.at = "lookup"]
  <2>1. Local(c, "open", u)
    BY <1>5 DEF OpenFails
  <2>2. DOMAIN u = Fields /\ u.at = "lookup" /\ \A f \in Fields \ {"at"} : u[f] = t[f]
    BY <1>2 DEF Fields
  <2> HIDE DEF u
  <2>3. SameCall(t, u) /\ u.name = t.name /\ u.todo = t.todo /\ u.refreshed = t.refreshed
    BY <1>2, <2>2 DEF SameCall, Fields
  <2>4. TaskForm(u)
    BY <1>1, <1>2, <1>3, <2>2, <2>3, FormOn, ListedOrNot
  <2>6. Scanned(u) /\ Missed(u) /\ Opening(u) /\ Quiet(u)
    BY <1>2, <2>2, <2>3 DEF Scanned, Missed, Opening, Quiet, SameCall
  <2>7. Cached(u)
    <3>1. Unpublished(t) => Unpublished(u)
      BY <1>1, <2>2, <2>3 DEF Unpublished, SameCall
    <3> QED
      BY <3>1, <1>1, <1>2, <2>3, CachedOn
  <2>9. Alright(u)
    BY <2>6, <2>7 DEF Alright
  <2> QED
    BY <2>1, <2>2, <2>3, <2>4, <2>9, StepKeeps
<1> QED
  BY <1>4, <1>5

(* A device that was read: of a list, it goes on; otherwise the call ends  *)
(* as it must, since the device is there.                                  *)
LEMMA DeliversRight ==
  ASSUME NEW t, NEW peers, TaskForm(t), Alright(t), t.at = "get",
         os \in {"windows", "openbsd", "freebsd"},
         ~t.hurt /\ ~t.stale => \A h : Past(t) = {h} => UpIn(h, t.name)
  PROVE  LET u == Delivered(t, peers) IN
         SameCall(t, u) /\ u.at # "idle" /\ TaskForm(u) /\ Alright(u)
<1> DEFINE read == [t EXCEPT !.out = Append(@, [name |-> t.name, peers |-> peers])]
<1>1. DOMAIN t = Fields
  BY FieldsOf
<1>2. DOMAIN read = Fields /\ \A f \in Fields \ {"out", "cap", "mem"} : read[f] = t[f]
  BY <1>1 DEF Fields
<1>3. Delivered(t, peers) = CASE t.call.op = "Devices" -> NextDevice(read)
        [] t.call.op = "Device" -> End(read, "ok")
        [] OTHER -> End(t, "readonly")
  BY DEF Delivered
<1> HIDE DEF read
<1>4. SameCall(t, read) /\ read.at # "idle" /\ TaskForm(read) /\ Alright(read)
  BY <1>1, <1>2, OtherFields
<1>5. read.at = "get" /\ read.name = t.name /\ Past(read) = Past(t)
  BY <1>2, <1>4 DEF SameCall, Past, Fields
<1>6. ~read.hurt /\ ~read.stale => \A h : Past(read) = {h} => UpIn(h, read.name)
  BY <1>4, <1>5 DEF SameCall
<1>7. IsCall(t.call) /\ (t.call.op # "Devices" => t.name = t.call.name)
  BY DEF TaskForm
<1>8. CASE t.call.op = "Devices"
  <2>1. ~Unpublished(read)
    BY <1>4, <1>5, <1>8 DEF Unpublished, SameCall
  <2>2. ASSUME ~read.hurt, ~read.stale, NEW h, Past(read) = {h}
        PROVE  /\ \A i \in DOMAIN read.todo : UpIn(h, read.todo[i])
               /\ os # "windows" => \E n \in IfName : UpIn(h, n)
    <3>1. UpIn(h, read.name)
      BY <1>6, <2>2
    <3>2. read.name \in IfName /\ read.name # NoName
      BY <3>1, IoctlTypes DEF UpIn
    <3>3. Listing(read, h)
      BY <1>4, <1>5, <2>2 DEF Alright, Quiet
    <3>4. \A i \in DOMAIN read.todo : UpIn(h, read.todo[i])
      BY <1>4, <1>5, <1>8, <3>2, <3>3 DEF Listing, SameCall
    <3> QED
      BY <3>1, <3>2, <3>4
  <2>3. Cached(read)
    BY <1>4 DEF Alright
  <2>4. read.call.op = "Devices" /\ read.at \notin {"idle", "done"}
    BY <1>4, <1>5, <1>8 DEF SameCall
  <2>5. ~read.hurt /\ ~read.stale => \A h : Past(read) = {h} =>
           /\ \A i \in DOMAIN read.todo : UpIn(h, read.todo[i])
           /\ os # "windows" => \E n \in IfName : UpIn(h, n)
    BY <2>2
  <2>6. LET u == NextDevice(read) IN SameCall(read, u) /\ u.at # "idle" /\ TaskForm(u) /\ Alright(u)
    BY <1>4, <2>1, <2>3, <2>4, <2>5, NextRight
  <2>7. Delivered(t, peers) = NextDevice(read)
    BY <1>3, <1>8
  <2> QED
    BY <1>4, <2>6, <2>7 DEF SameCall
<1>9. CASE t.call.op = "Device"
  <2>1. Delivered(t, peers) = End(read, "ok")
    BY <1>3, <1>9
  <2>2. ASSUME ~read.hurt, ~read.stale, NEW h, Past(read) = {h} PROVE "ok" = Expected(read.call, h)
    <3>1. UpIn(h, t.call.name)
      BY <1>5, <1>6, <1>7, <1>9, <2>2
    <3> QED
      BY <1>4, <1>9, <3>1 DEF Expected, SameCall
  <2>3. LET u == End(read, "ok") IN SameCall(read, u) /\ u.at # "idle" /\ TaskForm(u) /\ Alright(u)
    BY <1>4, <2>2, EndsRight
  <2> QED
    BY <1>4, <2>1, <2>3 DEF SameCall
<1>10. CASE t.call.op = "Configure"
  <2>1. Delivered(t, peers) = End(t, "readonly")
    BY <1>3, <1>10
  <2>2. os = "openbsd"
    BY <1>10 DEF TaskForm
  <2>3. ASSUME ~t.hurt, ~t.stale, NEW h, Past(t) = {h} PROVE "readonly" = Expected(t.call, h)
    <3>1. UpIn(h, t.call.name)
      BY <1>7, <1>10, <2>3
    <3> QED
      BY <1>10, <2>2, <3>1 DEF Expected
  <2>4. LET u == End(t, "readonly") IN SameCall(t, u) /\ u.at # "idle" /\ TaskForm(u) /\ Alright(u)
    BY <2>3, EndsRight
  <2> QED
    BY <2>1, <2>4
<1> QED
  BY <1>7, <1>8, <1>9, <1>10 DEF IsCall

(* A step that may change the guess.                                       *)
LEMMA ReadStepKeeps ==
  ASSUME Asking, NEW c \in Caller, NEW from, from # "idle", NEW u, Becomes(c, from, u),
         UNCHANGED <<os, host, cache, plan>>,
         SameCall(task[c], u), u.at # "idle", TaskForm(u), Alright(u)
  PROVE  Asking'
<1>1. task' = [task EXCEPT ![c] = u] /\ InCall(c)
      /\ UNCHANGED <<os, adapter, denied, cache, plan>>
  BY DEF Becomes, InCall, host
<1> QED
  BY <1>1, LocalKeeps

(* A larger buffer is all that a repeated ioctl takes.                     *)
LEMMA RetryRight ==
  ASSUME NEW t, NEW n, TaskForm(t), Alright(t), t.at # "idle"
  PROVE  LET u == [t EXCEPT !.cap = n] IN
         SameCall(t, u) /\ u.at # "idle" /\ TaskForm(u) /\ Alright(u)
<1> DEFINE u == [t EXCEPT !.cap = n]
<1>1. DOMAIN t = Fields
  BY FieldsOf
<1>2. DOMAIN u = Fields /\ \A f \in Fields \ {"out", "cap", "mem"} : u[f] = t[f]
  BY <1>1 DEF Fields
<1> HIDE DEF u
<1>3. SameCall(t, u) /\ u.at # "idle" /\ TaskForm(u) /\ Alright(u)
  BY <1>1, <1>2, OtherFields
<1> QED
  BY <1>3 DEF u

(* GetWindows: a handle outlives its adapter only if something happens.    *)
LEMMA GetWindowsKeeps ==
  ASSUME Asking, NEW c \in Caller, GetWindows(c)
  PROVE  Asking'
<1> DEFINE t == task[c]
           mem == DeviceCells(adapter[t.name].dev)
<1> HIDE DEF mem
<1>1. t.at = "get" /\ InCall(c) /\ os = "windows"
  BY DEF GetWindows, InCall
<1>2. TaskForm(t) /\ Alright(t) /\ Quiet(t) /\ \A h : Past(t) = {h} => Alike(h, adapter)
  BY <1>1, Knows DEF Asking
<1>3. ASSUME ~t.hurt, ~t.stale, NEW h, Past(t) = {h}
      PROVE  UpIn(h, t.name) /\ Reachable(t)
  <2>1. Reaching(t, h) /\ Alike(h, adapter)
    BY <1>2, <1>3 DEF Quiet
  <2>2. UpIn(h, t.name) /\ t.path = h[t.name].path
    BY <1>1, <2>1 DEF Reaching
  <2> QED
    BY <2>1, <2>2, AlikeUp DEF Reachable, UpIn
<1>4. CASE Local(c, "get", End(t, "failed")) /\ ~Reachable(t)
  BY <1>3, <1>4, EndStepKeeps
<1>5. CASE Local(c, "get", [t EXCEPT !.cap = Len(mem)])
  BY <1>2, <1>1, <1>5, RetryRight, StepKeeps
<1>6. CASE /\ Becomes(c, "get", Delivered(t, ParseConfiguration(mem)))
           /\ UNCHANGED <<os, host, cache, plan>>
  <2> DEFINE u == Delivered(t, ParseConfiguration(mem))
  <2> HIDE DEF u
  <2>1. SameCall(t, u) /\ u.at # "idle" /\ TaskForm(u) /\ Alright(u)
    BY <1>1, <1>2, <1>3, DeliversRight DEF u
  <2>2. Becomes(c, "get", u)
    BY <1>6 DEF u
  <2> QED
    BY <1>6, <2>1, <2>2, ReadStepKeeps
<1>7. \/ Local(c, "get", End(t, "failed")) /\ ~Reachable(t)
      \/ Local(c, "get", [t EXCEPT !.cap = Len(mem)])
      \/ /\ Becomes(c, "get", Delivered(t, ParseConfiguration(mem)))
         /\ UNCHANGED <<os, host, cache, plan>>
  BY DEF GetWindows, mem
<1> QED
  BY <1>4, <1>5, <1>6, <1>7

(* A step of the same call on the other systems.                           *)
LEMMA FormBSD ==
  ASSUME NEW t, NEW u, TaskForm(t), t.at # "idle", SameCall(t, u), u.name = t.name,
         os # "windows", u.at \in {"fetch", "check", "set"},
         t.call.op = "Devices" => \E S : u.todo \in Seq(S),
         u.at = "fetch" => t.call.op = "Devices" /\ u.slots \in Nat,
         u.at = "check" => t.call.op = "Configure" /\ os = "freebsd" /\ u.checks \in Nat,
         u.at = "set" => t.call.op = "Configure" /\ os = "freebsd"
  PROVE  TaskForm(u)
<1>1. DOMAIN u = DOMAIN Idle /\ u.call = t.call
  BY DEF TaskForm, SameCall
<1>2. IsCall(u.call) /\ (u.call.op # "Devices" => u.name = u.call.name)
  BY <1>1 DEF TaskForm
<1>3. u.call.op = "Devices" => \E S : u.todo \in Seq(S)
  BY <1>1
<1>4. u.at \in OtherStages \cup {"idle", "done"}
  BY DEF OtherStages
<1> QED
  BY <1>1, <1>2, <1>3, <1>4 DEF TaskForm

(* On the other systems there is no map to be right about.                 *)
LEMMA RightBSD ==
  ASSUME NEW u, os # "windows", u.at \in {"fetch", "check", "set"}, Quiet(u)
  PROVE  Alright(u)
BY DEF Alright, Scanned, Cached, Opening, Missed

(* What is alike to now has the members of now.                            *)
LEMMA UpNow ==
  ASSUME NEW h, Alike(h, adapter)
  PROVE  {n \in IfName : UpIn(h, n)} = Members
BY AlikeUp DEF Members

(* There are finitely many members, and a count says if there are any.     *)
LEMMA MembersFinite == IsFiniteSet(Members) /\ Cardinality(Members) \in Nat
                       /\ (Cardinality(Members) = 0 <=> Members = {})
<1>1. IsFiniteSet(Members)
  BY IoctlTypes, FS_Subset DEF Members
<1> QED
  BY <1>1, FS_CardinalityType, FS_EmptySet

(* Count: the group is empty, or so many members are expected.             *)
LEMMA CountKeeps ==
  ASSUME Asking, NEW c \in Caller, Count(c)
  PROVE  Asking'
<1> DEFINE t == task[c]
<1>1. t.at = "count" /\ InCall(c)
  BY DEF Count, Local, Becomes, InCall
<1>2. TaskForm(t) /\ DOMAIN t = Fields /\ \A h : Past(t) = {h} => Alike(h, adapter)
  BY <1>1, Knows
<1>3. os # "windows" /\ t.call.op = "Devices"
  BY <1>1, <1>2 DEF TaskForm, WindowsStages
<1>4. CASE Members = {}
  <2>1. Local(c, "count", End(t, "missing"))
    BY <1>4 DEF Count
  <2>2. ASSUME NEW h, Past(t) = {h} PROVE "missing" = Expected(t.call, h)
    <3>1. ~\E n \in IfName : UpIn(h, n)
      BY <1>2, <1>4, <2>2, AlikeUp DEF Members
    <3> QED
      BY <1>3, <3>1 DEF Expected
  <2> QED
    BY <2>1, <2>2, <1>3, EndStepKeeps
<1>5. CASE Members # {}
  <2> DEFINE u == [t EXCEPT !.at = "fetch", !.slots = Cardinality(Members)]
  <2>1. Local(c, "count", u)
    BY <1>5 DEF Count
  <2>2. /\ DOMAIN u = Fields /\ u.at = "fetch" /\ u.slots = Cardinality(Members)
        /\ \A f \in Fields \ {"at", "slots"} : u[f] = t[f]
    BY <1>2 DEF Fields
  <2> HIDE DEF u
  <2>3. SameCall(t, u) /\ u.name = t.name /\ u.todo = t.todo
    BY <1>2, <2>2 DEF SameCall, Fields
  <2>4. TaskForm(u)
    BY <1>1, <1>2, <1>3, <2>2, <2>3, FormBSD, ListedOrNot, MembersFinite
  <2>5. Past(u) = Past(t)
    BY <2>3 DEF Past, SameCall
  <2>6. ASSUME NEW h, Past(u) = {h} PROVE Listing(u, h)
    <3>1. Alike(h, adapter)
      BY <1>2, <2>5, <2>6
    <3>2. {n \in IfName : UpIn(h, n)} = Members
      BY <3>1, UpNow
    <3>3. \E n \in IfName : UpIn(h, n)
      BY <1>5, <3>2
    <3> QED
      BY <2>2, <3>2, <3>3 DEF Listing
  <2>7. Quiet(u)
    BY <1>3, <2>2, <2>6 DEF Quiet, Reaching
  <2>8. Alright(u)
    BY <1>3, <2>2, <2>7, RightBSD
  <2> QED
    BY <2>1, <2>2, <2>3, <2>4, <2>8, StepKeeps
<1> QED
  BY <1>4, <1>5

(* Fetch: as long as nothing happens, as many as were counted, each a      *)
(* member.                                                                 *)
LEMMA FetchKeeps ==
  ASSUME Asking, NEW c \in Caller, Fetch(c)
  PROVE  Asking'
<1> DEFINE t == task[c]
           n == Cardinality(Members)
<1> HIDE DEF n
<1>1. t.at = "fetch" /\ InCall(c)
  BY DEF Fetch, Local, Becomes, InCall
<1>2. TaskForm(t) /\ DOMAIN t = Fields /\ Quiet(t) /\ \A h : Past(t) = {h} => Alike(h, adapter)
  BY <1>1, Knows
<1>3. os # "windows" /\ t.call.op = "Devices" /\ t.slots \in Nat
  BY <1>1, <1>2 DEF TaskForm, WindowsStages
<1>4. n \in Nat /\ (n = 0 <=> Members = {}) /\ IsFiniteSet(Members)
  BY MembersFinite DEF n
<1>5. ASSUME ~t.hurt, ~t.stale, NEW h, Past(t) = {h}
      PROVE  /\ {m \in IfName : UpIn(h, m)} = Members
             /\ t.slots = n /\ \E m \in IfName : UpIn(h, m)
  <2>1. Listing(t, h) /\ Alike(h, adapter)
    BY <1>2, <1>5 DEF Quiet
  <2>2. {m \in IfName : UpIn(h, m)} = Members
    BY <2>1, UpNow
  <2> QED
    BY <1>1, <1>3, <2>1, <2>2 DEF Listing, n
<1>6. CASE n = 0
  <2>1. Local(c, "fetch", End(t, "missing"))
    <3>1. ~(n > t.slots)
      BY <1>3, <1>6
    <3> QED
      BY <3>1, <1>6, Zenon DEF Fetch, n
  <2>2. ~t.hurt /\ ~t.stale => \A h : Past(t) # {h}
    BY <1>4, <1>5, <1>6
  <2> QED
    BY <2>1, <2>2, <1>3, EndStepKeeps
<1>7. CASE n > t.slots
  <2>1. Local(c, "fetch", End(t, "failed"))
    <3>1. n # 0
      BY <1>3, <1>4, <1>7
    <3> QED
      BY <3>1, <1>7, Zenon DEF Fetch, n
  <2>2. ~t.hurt /\ ~t.stale => \A h : Past(t) # {h}
    BY <1>3, <1>4, <1>5, <1>7
  <2> QED
    BY <2>1, <2>2, <1>3, EndStepKeeps
<1>8. CASE n # 0 /\ ~(n > t.slots)
  <2> DEFINE rest == [i \in 1..(t.slots - n) |-> NoName]
             list == SetToSeq(Members)
             r == [t EXCEPT !.todo = list \o rest]
  <2>1. Local(c, "fetch", NextDevice(r))
    BY <1>8, Zenon DEF Fetch, n
  <2>2. list \in Seq(Members)
    BY <1>4, ListOfSet
  <2>3. t.slots - n \in Nat
    BY <1>3, <1>4, <1>8
  <2>4. rest \in Seq({NoName}) /\ Len(rest) = t.slots - n
    <3>1. rest \in [1..(t.slots - n) -> {NoName}]
      OBVIOUS
    <3>2. rest \in Seq({NoName})
      BY <2>3, <3>1
    <3> QED
      BY <3>1, <3>2, <2>3, LenProperties
  <2>5. DOMAIN r = Fields /\ r.todo = list \o rest /\ \A f \in Fields \ {"todo"} : r[f] = t[f]
    BY <1>2 DEF Fields
  <2> HIDE DEF r, list, rest
  <2>6. SameCall(t, r) /\ r.at = "fetch" /\ r.name = t.name /\ r.slots = t.slots
    BY <1>1, <1>2, <2>5 DEF SameCall, Fields
  <2>7. list \o rest \in Seq(Members \cup {NoName})
    <3>1. list \in Seq(Members \cup {NoName}) /\ rest \in Seq(Members \cup {NoName})
      BY <2>2, <2>4, WiderSeq
    <3> QED
      BY ONLY <3>1, ConcatProperties
  <2>8. TaskForm(r)
    <3>1. \E S : r.todo \in Seq(S)
      BY <2>5, <2>7
    <3>2. /\ TaskForm(t) /\ t.at # "idle" /\ r.name = t.name /\ os # "windows"
          /\ r.at = "fetch" /\ r.slots \in Nat /\ t.call.op = "Devices"
      BY <1>1, <1>2, <1>3, <2>6
    <3> QED
      BY <2>6, <3>1, <3>2, FormBSD
  <2>9. Past(r) = Past(t) /\ r.call.op = "Devices" /\ r.at \notin {"idle", "done"}
    BY <1>3, <2>6 DEF Past, SameCall
  <2>10. Cached(r) /\ ~Unpublished(r)
    BY <1>3, <2>6, <2>9 DEF Cached, Unpublished
  <2>11. ASSUME ~r.hurt, ~r.stale, NEW h, Past(r) = {h}
         PROVE  /\ \A i \in DOMAIN r.todo : UpIn(h, r.todo[i])
                /\ os # "windows" => \E m \in IfName : UpIn(h, m)
    <3>1. /\ {m \in IfName : UpIn(h, m)} = Members
          /\ t.slots = n /\ \E m \in IfName : UpIn(h, m)
      BY <1>5, <2>6, <2>9, <2>11 DEF SameCall
    <3>2. Len(rest) = 0
      BY <1>4, <2>4, <3>1
    <3>3. DOMAIN list = 1..Len(list) /\ Len(list) \in Nat /\ \A i \in 1..Len(list) : list[i] \in Members
      BY <2>2, LenProperties, ElementOfSeq
    <3>4. ASSUME NEW i \in DOMAIN (list \o rest) PROVE (list \o rest)[i] \in Members
      <4>1. DOMAIN (list \o rest) = 1..(Len(list) + Len(rest))
        <5>1. Len(list \o rest) = Len(list) + Len(rest)
          BY ONLY <2>2, <2>4, ConcatProperties
        <5>2. DOMAIN (list \o rest) = 1..Len(list \o rest)
          BY ONLY <2>7, LenProperties
        <5> QED
          BY <5>1, <5>2
      <4>2. i \in 1..Len(list)
        BY <3>2, <3>3, <3>4, <4>1
      <4>3. (list \o rest)[i] = list[i]
        BY ONLY <2>2, <2>4, <4>2, ConcatProperties
      <4> QED
        BY <3>3, <4>2, <4>3
    <3>5. \A i \in DOMAIN r.todo : UpIn(h, r.todo[i])
      BY <2>5, <3>1, <3>4
    <3> QED
      BY <3>1, <3>5
  <2>12. LET u == NextDevice(r) IN SameCall(r, u) /\ u.at # "idle" /\ TaskForm(u) /\ Alright(u)
    <3>1. ~r.hurt /\ ~r.stale => \A h : Past(r) = {h} =>
           /\ \A i \in DOMAIN r.todo : UpIn(h, r.todo[i])
           /\ os # "windows" => \E m \in IfName : UpIn(h, m)
      BY <2>11
    <3> QED
      BY <3>1, <2>8, <2>9, <2>10, NextRight, SystemIs
  <2>13. SameCall(t, NextDevice(r))
    BY <2>6, <2>12 DEF SameCall
  <2> QED
    BY <2>1, <2>12, <2>13, StepKeeps
<1> QED
  BY <1>6, <1>7, <1>8

(* GetBSD: not found is what is not there; the rest ends as reads do.      *)
LEMMA GetBSDKeeps ==
  ASSUME Asking, NEW c \in Caller, GetBSD(c)
  PROVE  Asking'
<1> DEFINE t == task[c]
           mem == DeviceCells(adapter[t.name].dev)
           peers == IF os = "openbsd" THEN ParseDevice(mem) ELSE ParseList(DeviceList(adapter[t.name].dev))
<1>1. t.at = "get" /\ InCall(c) /\ os # "windows"
  BY DEF GetBSD, InCall
<1>2. /\ TaskForm(t) /\ Alright(t) /\ Quiet(t) /\ \A h : Past(t) = {h} => Alike(h, adapter)
      /\ \E h \in Past(t) : Alike(h, adapter)
  BY <1>1, Knows DEF Asking
<1>3. CASE Local(c, "get", End(t, "missing")) /\ ~UpIn(adapter, t.name)
  <2>1. \E h \in Past(t) : ~UpIn(h, t.name)
    BY <1>2, <1>3, AlikeUp
  <2>2. ASSUME ~t.hurt, ~t.stale, NEW h, Past(t) = {h} PROVE "missing" = Expected(t.call, h)
    <3>1. ~UpIn(h, t.name) /\ Listing(t, h)
      BY <1>2, <2>1, <2>2 DEF Quiet
    <3>2. t.call.op # "Devices" /\ t.name = t.call.name
      BY <1>1, <1>2, <3>1 DEF Listing, TaskForm
    <3> QED
      BY <3>1, <3>2 DEF Expected
  <2> QED
    BY <1>3, <2>1, <2>2, EndStepKeeps
<1>4. CASE Local(c, "get", [t EXCEPT !.cap = Len(mem)])
  <2> HIDE DEF mem
  <2> QED
    BY <1>2, <1>1, <1>4, RetryRight, StepKeeps
<1>5. CASE Local(c, "get", Delivered(t, peers)) /\ UpIn(adapter, t.name)
  <2> DEFINE u == Delivered(t, peers)
  <2>1. ~t.hurt /\ ~t.stale => \A h : Past(t) = {h} => UpIn(h, t.name)
    BY <1>2, <1>5, AlikeUp
  <2> HIDE DEF peers
  <2>2. SameCall(t, u) /\ u.at # "idle" /\ TaskForm(u) /\ Alright(u)
    BY <1>1, <1>2, <2>1, DeliversRight, SystemIs
  <2> QED
    BY <1>5, <2>2, StepKeeps
<1>6. \/ Local(c, "get", End(t, "missing")) /\ ~UpIn(adapter, t.name)
      \/ Local(c, "get", [t EXCEPT !.cap = Len(mem)])
      \/ Local(c, "get", Delivered(t, peers)) /\ UpIn(adapter, t.name)
  BY DEF GetBSD
<1> QED
  BY <1>3, <1>4, <1>5, <1>6

(* Check: it ends at the first update-only entry, or goes on without one   *)
(* or without a device.                                                    *)
LEMMA CheckKeeps ==
  ASSUME Asking, NEW c \in Caller, Check(c)
  PROVE  Asking'
<1> DEFINE t == task[c]
           device == adapter[t.name].dev
<1>1. t.at = "check" /\ InCall(c)
  BY DEF Check, Local, Becomes, InCall
<1>2. /\ TaskForm(t) /\ Alright(t) /\ Quiet(t) /\ \A h : Past(t) = {h} => Alike(h, adapter)
      /\ DOMAIN t = Fields
  BY <1>1, Knows DEF Asking
<1>3. os = "freebsd" /\ t.call.op = "Configure" /\ t.checks \in Nat /\ t.name = t.call.name
  BY <1>1, <1>2 DEF TaskForm
<1>4. ASSUME NEW h, Past(t) = {h}, ~t.hurt, ~t.stale
      PROVE  UpIn(h, t.name) => UpIn(adapter, t.name) /\ t.checks = UpdateOnlys(t.call.cfg)
  <2>1. Reaching(t, h) /\ Alike(h, adapter)
    BY <1>2, <1>4 DEF Quiet
  <2> QED
    BY <1>1, <1>3, <2>1, AlikeUp DEF Reaching
<1>5. ASSUME NEW u, Local(c, "check", u), DOMAIN u = Fields, u.at \in {"check", "set"},
             \A f \in Fields \ {"at", "mem", "checks", "cap"} : u[f] = t[f], u.checks \in Nat,
             ~t.hurt /\ ~t.stale => \A h : Past(t) = {h} /\ UpIn(h, t.name) =>
               IF u.at = "check" THEN u.checks = t.checks ELSE t.checks = 0
      PROVE  Asking'
  <2>1. SameCall(t, u) /\ u.name = t.name
    BY <1>2, <1>5 DEF SameCall, Fields
  <2>2. Past(u) = Past(t)
    BY <2>1 DEF Past, SameCall
  <2>3. TaskForm(u)
    BY <1>1, <1>2, <1>3, <1>5, <2>1, FormBSD
  <2>4. ASSUME ~u.hurt, ~u.stale, NEW h \in Past(u), Past(u) = {h} PROVE Reaching(u, h)
    <3>1. ~t.hurt /\ ~t.stale /\ Past(t) = {h} /\ u.call = t.call
      BY <2>1, <2>2, <2>4 DEF SameCall
    <3>2. UpIn(h, t.name) => t.checks = UpdateOnlys(t.call.cfg)
      BY <1>4, <3>1
    <3> QED
      BY <1>3, <1>5, <2>1, <3>1, <3>2 DEF Reaching
  <2>5. Quiet(u)
    BY <1>3, <1>5, <2>1, <2>4 DEF Quiet, Listing, SameCall
  <2>6. Alright(u)
    BY <1>3, <1>5, <2>5, RightBSD
  <2>7. u.at # "idle"
    BY <1>5
  <2> QED
    BY <1>5, <2>1, <2>3, <2>6, <2>7, StepKeeps
<1>6. CASE t.checks = 0
  <2> DEFINE u == [t EXCEPT !.at = "set", !.mem = UnparseConfig(t.call.cfg)]
  <2>1. Local(c, "check", u)
    <3>1. ~(t.checks > 0)
      BY <1>6
    <3> QED
      BY <3>1, <1>6, Zenon DEF Check
  <2>2. DOMAIN u = Fields /\ u.at = "set" /\ \A f \in Fields \ {"at", "mem"} : u[f] = t[f]
    BY <1>2 DEF Fields
  <2> HIDE DEF u
  <2>3. /\ \A f \in Fields \ {"at", "mem", "checks", "cap"} : u[f] = t[f]
        /\ u.checks = t.checks
    BY <2>2 DEF Fields
  <2> QED
    BY <1>3, <1>5, <1>6, <2>1, <2>2, <2>3
<1>7. CASE t.checks > 0 /\ ~UpIn(adapter, t.name)
  <2> DEFINE u == [t EXCEPT !.checks = @ - 1, !.cap = 0]
  <2>1. Local(c, "check", u)
    <3>1. t.checks # 0
      BY <1>7
    <3> QED
      BY <1>7, <3>1 DEF Check
  <2>2. DOMAIN u = Fields /\ u.checks = t.checks - 1 /\ \A f \in Fields \ {"checks", "cap"} : u[f] = t[f]
    BY <1>2 DEF Fields
  <2> HIDE DEF u
  <2>3. /\ \A f \in Fields \ {"at", "mem", "checks", "cap"} : u[f] = t[f]
        /\ u.at = "check"
    BY <1>1, <2>2 DEF Fields
  <2>4. u.checks \in Nat
    BY <1>3, <1>7, <2>2
  <2> QED
    BY <1>4, <1>5, <1>7, <2>1, <2>2, <2>3, <2>4
<1>8. CASE t.checks > 0 /\ UpIn(adapter, t.name) /\ Size(device) > t.cap
  <2> DEFINE u == [t EXCEPT !.cap = Size(device)]
  <2>1. Local(c, "check", u)
    <3>1. t.checks # 0
      BY <1>8
    <3> QED
      BY <1>8, <3>1 DEF Check
  <2> HIDE DEF device
  <2> QED
    BY <1>2, <1>1, <2>1, RetryRight, StepKeeps
<1>9. CASE t.checks > 0 /\ UpIn(adapter, t.name) /\ ~(Size(device) > t.cap)
  <2>1. Local(c, "check", End(t, "unsupported"))
    <3>1. t.checks # 0
      BY <1>9
    <3> QED
      BY <1>9, <3>1 DEF Check
  <2>2. ASSUME ~t.hurt, ~t.stale, NEW h, Past(t) = {h} PROVE "unsupported" = Expected(t.call, h)
    <3>1. UpIn(h, t.name)
      BY <1>2, <1>9, <2>2, AlikeUp
    <3>2. UpdateOnlys(t.call.cfg) > 0
      BY <1>4, <1>9, <2>2, <3>1
    <3> QED
      BY <1>3, <3>1, <3>2 DEF Expected
  <2> QED
    BY <2>1, <2>2, EndStepKeeps
<1> QED
  BY <1>3, <1>6, <1>7, <1>8, <1>9

(* Publish: the new map suits all calls that are under way, since they     *)
(* have seen whatever the scan has.                                        *)
LEMMA PublishKeeps ==
  ASSUME Asking, NEW c \in Caller, Publish(c)
  PROVE  Asking'
<1> DEFINE t == task[c]
           u == [t EXCEPT !.at = IF t.name = NoName THEN "range" ELSE "lookup",
                          !.found = Idle.found, !.refreshed = TRUE]
<1>1. /\ t.at = "scan" /\ InCall(c) /\ t.scan = {} /\ task' = [task EXCEPT ![c] = u]
      /\ cache' = t.found /\ UNCHANGED <<os, adapter, denied, plan>>
  BY DEF Publish, Becomes, InCall, host
<1>2. TaskForm(t) /\ DOMAIN t = Fields /\ Scanned(t) /\ Quiet(t)
  BY <1>1, Knows
<1>3. os = "windows"
  BY <1>1, <1>2, OnWindows
<1>4. /\ DOMAIN u = Fields /\ u.at = (IF t.name = NoName THEN "range" ELSE "lookup")
      /\ \A f \in Fields \ {"at", "found", "refreshed"} : u[f] = t[f]
  BY <1>2 DEF Fields
<1> HIDE DEF u
<1>5. SameCall(t, u) /\ u.name = t.name /\ u.todo = t.todo
  BY <1>2, <1>4 DEF SameCall, Fields
<1>6. TaskForm(u)
  BY <1>1, <1>2, <1>3, <1>4, <1>5, FormOn, ListedOrNot
<1>7. Past(u) = Past(t)
  BY <1>5 DEF Past, SameCall
<1>8. Scanned(u) /\ Opening(u) /\ Missed(u)
  BY <1>4 DEF Scanned, Opening, Missed
<1>9. Quiet(u)
  BY <1>1, <1>2, <1>4, <1>5, <1>7 DEF Quiet, Listing, Reaching, SameCall
<1>10. DOMAIN cache' = IfName /\ \A n \in IfName : \E h \in t.had : cache'[n] = PathIn(h, n)
  BY <1>1, <1>2 DEF Scanned
<1>11. task'[c] = u /\ (\A d \in Caller \ {c} : task'[d] = task[d]) /\ u.at # "idle" /\ DOMAIN task' = Caller
  BY <1>1, <1>4 DEF Asking
<1>12. \A d \in Caller : SamePast(task[d], task'[d])
  BY <1>1, <1>5, <1>11 DEF SamePast, SameCall
<1>13. \A d \in Caller : (InCall(d) => Witnessed(d))'
  BY <1>1, <1>12, WitnessedOn DEF Asking
<1>14. ASSUME NEW d \in Caller, task'[d].at # "idle" PROVE Cached(task[d])'
  <2>1. ASSUME NEW n \in IfName PROVE \E g \in Past(task'[d]) : cache'[n] = PathIn(g, n)
    <3>1. PICK h \in t.had : cache'[n] = PathIn(h, n)
      BY <1>10
    <3>2. CASE d = c
      BY <3>1, <3>2, <1>5, <1>11 DEF Past, SameCall
    <3>3. CASE d # c
      <4>1. InCall(d) /\ task'[d] = task[d]
        BY <3>3, <1>11, <1>14 DEF InCall
      <4>2. PICK g \in Past(task[d]) : Alike(h, g)
        BY <4>1, <1>1, <1>3, <3>1 DEF Asking, Witnessed
      <4> QED
        BY <4>1, <4>2, <3>1, AlikeUp
    <3> QED
      BY <3>2, <3>3
  <2> QED
    <3>1. \A g, n : PathIn(g, n)' = PathIn(g, n)
      BY DEF PathIn, UpIn
    <3>2. Past(task[d])' = Past(task'[d])
      BY DEF Past
    <3> QED
      BY <2>1, <3>1, <3>2 DEF Cached
<1>15. ASSUME NEW d \in Caller, task'[d].at # "idle"
       PROVE  Scanned(task'[d]) /\ Opening(task'[d]) /\ Quiet(task'[d]) /\ Missed(task'[d])
  <2>1. CASE d = c
    BY <2>1, <1>8, <1>9, <1>11
  <2>2. CASE d # c
    BY <2>2, <1>11, <1>15 DEF Asking, Alright
  <2> QED
    BY <2>1, <2>2
<1>16. ASSUME NEW d \in Caller PROVE Alright(task[d])'
  BY <1>1, <1>14, <1>15, RightPrimed
<1>17. ASSUME NEW d \in Caller PROVE TaskForm(task[d])'
  <2>1. TaskForm(task'[d])
    BY <1>6, <1>11 DEF Asking
  <2> QED
    BY <1>1, <2>1, FormPrimed
<1> QED
  BY <1>1, <1>10, <1>11, <1>13, <1>16, <1>17 DEF Asking, HostForm, Planned

(* IoctlReturn: one call less.                                             *)
LEMMA ReturnKeeps ==
  ASSUME Asking, NEW c \in Caller, IoctlReturn(c)
  PROVE  Asking'
<1>1. /\ task' = [task EXCEPT ![c] = Idle] /\ UNCHANGED <<os, adapter, denied, cache, plan>>
  BY DEF IoctlReturn, Local, Becomes, host, client
<1>2. task'[c] = Idle /\ (\A d \in Caller \ {c} : task'[d] = task[d]) /\ DOMAIN task' = Caller
  BY <1>1 DEF Asking
<1>3. ~InCall(c)' /\ \A d \in Caller : InCall(d)' => d # c /\ InCall(d)
  BY <1>2, IdleFields DEF InCall
<1>4. ASSUME NEW d \in Caller, InCall(d)' PROVE Witnessed(d)'
  <2>1. Witnessed(d) /\ task'[d] = task[d] /\ d # c
    BY <1>2, <1>3, <1>4 DEF Asking
  <2>2. \E h \in task'[d].had : Alike(h, adapter')
    BY <1>1, <2>1 DEF Witnessed
  <2>3. ~task'[d].hurt => ~denied'
    BY <1>1, <2>1 DEF Witnessed
  <2>4. os = "windows" => \A e \in Caller : InCall(e)' =>
          \A h \in task'[e].had : \E g \in Past(task'[d]) : Alike(h, g)
    BY <1>2, <1>3, <2>1 DEF Witnessed
  <2>5. \A n \in IfName : Always(task'[d], n) => \A g, h \in Past(task'[d]) : g[n].path = h[n].path
    BY <2>1 DEF Witnessed
  <2>6. \A g, h : Alike(g, h)' <=> Alike(g, h)
    BY DEF Alike
  <2>7. Past(task[d])' = Past(task'[d]) /\ \A n : Always(task[d], n)' <=> Always(task'[d], n)
    BY DEF Past, Always, UpIn
  <2> QED
    BY <1>1, <2>2, <2>3, <2>4, <2>5, <2>6, <2>7 DEF Witnessed
<1>5. TaskForm(Idle) /\ Alright(Idle)
  BY IdleFields DEF TaskForm, Alright
<1>6. \A d \in Caller : TaskForm(task'[d]) /\ Alright(task'[d])
  BY <1>2, <1>5 DEF Asking
<1>7. ASSUME NEW d \in Caller PROVE TaskForm(task[d])'
  BY <1>1, <1>6, FormPrimed
<1>8. ASSUME NEW d \in Caller PROVE Alright(task[d])'
  BY <1>1, <1>6, RightPrimed, CachedPrimed DEF Alright
<1> QED
  BY <1>1, <1>2, <1>4, <1>7, <1>8 DEF Asking, HostForm, Planned

(* How many entries are for a peer that must be there already.             *)
LEMMA NoUpdateOnlys ==
  ASSUME NEW x \in Config
  PROVE  /\ UpdateOnlys(x) \in Nat
         /\ ~(UpdateOnlys(x) > 0) => \A m \in DOMAIN x.peers : ~x.peers[m].updateOnly
<1> DEFINE S == {i \in DOMAIN x.peers : x.peers[i].updateOnly}
<1>1. DOMAIN x.peers = 1..Len(x.peers) /\ Len(x.peers) \in Nat
  BY LenProperties DEF Config
<1>2. IsFiniteSet(S)
  <2>1. IsFiniteSet(1..Len(x.peers))
    BY <1>1, FS_Interval
  <2>2. S \subseteq 1..Len(x.peers)
    BY <1>1
  <2> HIDE DEF S
  <2> QED
    BY <2>1, <2>2, FS_Subset
<1>3. UpdateOnlys(x) = Cardinality(S)
  BY DEF UpdateOnlys
<1>4. Cardinality(S) \in Nat /\ (Cardinality(S) = 0 <=> S = {})
  BY <1>2, FS_CardinalityType, FS_EmptySet
<1> QED
  BY <1>3, <1>4

(* The first stage of a call is one that its operation has.                *)
LEMMA BegunForm ==
  ASSUME NEW u, NEW call, os \in {"windows", "openbsd", "freebsd"}, IsCall(call),
         DOMAIN u = Fields, u.at = FirstStep(call), u.call = call, u.name = call.name, u.todo = <<>>,
         u.checks = IF call.op = "Configure" THEN UpdateOnlys(call.cfg) ELSE 0
  PROVE  TaskForm(u) /\ u.at \in {"snapshot", "count", "check", "lookup", "get"}
<1>1. /\ call.op = "Devices" => u.at = IF os = "windows" THEN "snapshot" ELSE "count"
      /\ call.op = "Configure" /\ os = "freebsd" => u.at = "check"
      /\ call.op # "Devices" /\ ~(call.op = "Configure" /\ os = "freebsd") =>
           u.at = IF os = "windows" THEN "lookup" ELSE "get"
  BY DEF FirstStep
<1>2. u.todo \in Seq({})
  OBVIOUS
<1>3. call.op = "Configure" => u.checks \in Nat
  <2> SUFFICES ASSUME call.op = "Configure" PROVE UpdateOnlys(call.cfg) \in Nat
    OBVIOUS
  <2> QED
    BY NoUpdateOnlys DEF IsCall
<1>4. call.op \in {"Devices", "Device", "Configure"} /\ (call.name = NoName => call.op = "Devices")
  BY DEF IsCall
<1>5. u.at \in {"snapshot", "count", "check", "lookup", "get"}
  BY <1>1, <1>4
<1>6. u.at \in IF os = "windows" THEN WindowsStages \cup {"idle", "done"} ELSE OtherStages \cup {"idle", "done"}
  BY <1>1, <1>4 DEF WindowsStages, OtherStages
<1>7. DOMAIN u = DOMAIN Idle
  BY IdleFields
<1>8. u.call.op = "Devices" => \E S : u.todo \in Seq(S)
  BY <1>2
<1>9. /\ u.at \in {"range", "count", "fetch"} => u.call.op = "Devices"
      /\ u.at = "fetch" => u.slots \in Nat
      /\ u.at = "check" => u.call.op = "Configure" /\ os = "freebsd" /\ u.checks \in Nat
      /\ u.at = "set" => u.call.op = "Configure" /\ os # "openbsd"
      /\ u.at = "get" /\ u.call.op = "Configure" => os = "openbsd"
      /\ u.at \in {"snapshot", "scan", "lookup"} /\ u.name = NoName => u.call.op = "Devices"
  BY <1>1, <1>3, <1>4
<1> HIDE DEF IsCall
<1> QED
  BY <1>5, <1>6, <1>7, <1>8, <1>9 DEF TaskForm

(* A call begins right: it has seen what there is, and the cache is true   *)
(* to that, or says nothing, or the call is marked as stale.               *)
LEMMA BegunRight ==
  ASSUME Asking, NEW u, NEW call, IsCall(call), TaskForm(u), u.at = FirstStep(call),
         u.at \in {"snapshot", "count", "check", "lookup", "get"},
         u.call = call, u.name = call.name, u.refreshed = FALSE, u.had = {adapter},
         u.stale = (\E n \in IfName : Outdated(n)),
         u.checks = IF call.op = "Configure" THEN UpdateOnlys(call.cfg) ELSE 0
  PROVE  Alright(u)
<1>1. Scanned(u) /\ Opening(u) /\ Missed(u)
  BY DEF Scanned, Opening, Missed
<1>2. os \in {"windows", "openbsd", "freebsd"}
  BY SystemIs
<1>3. call.op \in {"Devices", "Device", "Configure"} /\ (call.op = "Devices" => call.name = NoName)
  BY DEF IsCall
<1>4. Cached(u)
  <2> SUFFICES ASSUME os = "windows", ~u.stale, NEW n \in IfName
               PROVE  \/ Unpublished(u) /\ cache[n] = None
                      \/ Unpublished(u) /\ \E h \in Past(u) : h[n].path # None /\ cache[n] = h[n].path
    BY DEF Cached
  <2>1. Unpublished(u)
    <3>1. call.op = "Devices" => u.at = "snapshot"
      BY DEF FirstStep
    <3> QED
      BY <3>1 DEF Unpublished
  <2>2. cache[n] = None \/ (cache[n] # None /\ adapter[n].path = cache[n])
    BY DEF Outdated
  <2>3. adapter \in Past(u)
    BY DEF Past
  <2> QED
    BY <2>1, <2>2, <2>3
<1>5. ASSUME NEW h PROVE Listing(u, h) /\ Reaching(u, h)
  <2>1. Listing(u, h)
    <3>1. call.op = "Devices" => u.at \in {"snapshot", "count"} /\ u.name = NoName
      BY <1>3 DEF FirstStep
    <3> QED
      BY <3>1 DEF Listing
  <2>2. Reaching(u, h)
    <3>1. os = "windows" => u.at \in {"snapshot", "lookup"}
      BY <1>2, <1>3 DEF FirstStep
    <3>2. u.at = "check" => u.call.op = "Configure"
      BY DEF TaskForm
    <3> QED
      BY <3>1, <3>2 DEF Reaching
  <2> QED
    BY <2>1, <2>2
<1>6. Quiet(u)
  BY <1>5 DEF Quiet
<1> QED
  BY <1>1, <1>4, <1>6 DEF Alright

(* IoctlBegin: the call takes over what the calls under way have seen.     *)
LEMMA BeginKeeps ==
  ASSUME Asking, NEW c \in Caller, IoctlBegin(c)
  PROVE  Asking'
<1> DEFINE call == Head(plan[c])
           overlapping == {d \in Caller : InCall(d) /\ os = "windows"}
           old == UNION {task[d].had \cup task[d].before : d \in overlapping}
           u == [Idle EXCEPT !.at = FirstStep(call), !.call = call, !.name = call.name,
              !.checks = IF call.op = "Configure" THEN UpdateOnlys(call.cfg) ELSE 0,
              !.had = {adapter}, !.hurt = denied, !.stale = \E n \in IfName : Outdated(n),
              !.before = old]
<1>1. /\ plan[c] # <<>> /\ ~InCall(c) /\ task' = [task EXCEPT ![c] = u]
      /\ plan' = [plan EXCEPT ![c] = Tail(@)]
      /\ UNCHANGED <<os, adapter, denied, cache>>
  BY DEF IoctlBegin, Becomes, InCall, host, client
<1>2. IsCall(call) /\ \A d \in Caller : Planned(d)'
  <2>1. PICK S : plan[c] \in Seq(S) /\ \A x \in S : IsCall(x)
    BY DEF Asking, Planned
  <2>2. Head(plan[c]) \in S /\ Tail(plan[c]) \in Seq(S)
    BY <1>1, <2>1
  <2>3. IsCall(call)
    BY <2>1, <2>2
  <2>4. ASSUME NEW d \in Caller PROVE Planned(d)'
    <3>1. CASE d = c
      <4>1. plan'[d] = Tail(plan[c])
        BY <1>1, <3>1 DEF Asking
      <4> QED
        BY <2>1, <2>2, <4>1 DEF Planned
    <3>2. CASE d # c
      <4>1. plan'[d] = plan[d] /\ Planned(d)
        BY <1>1, <3>2 DEF Asking
      <4> QED
        BY <4>1 DEF Planned
    <3> QED
      BY <3>1, <3>2
  <2> QED
    BY <2>3, <2>4
<1> HIDE DEF call, old
<1>3. /\ DOMAIN u = Fields /\ u.at = FirstStep(call) /\ u.call = call /\ u.name = call.name
      /\ u.checks = (IF call.op = "Configure" THEN UpdateOnlys(call.cfg) ELSE 0)
      /\ u.had = {adapter} /\ u.hurt = denied /\ u.stale = (\E n \in IfName : Outdated(n))
      /\ u.before = old /\ u.todo = <<>> /\ u.refreshed = FALSE
  BY DEF Idle, Fields
<1> HIDE DEF u
<1>4. os \in {"windows", "openbsd", "freebsd"}
  BY SystemIs
<1>5. TaskForm(u) /\ u.at \in {"snapshot", "count", "check", "lookup", "get"}
  BY <1>2, <1>3, <1>4, BegunForm
<1>6. Alright(u)
  BY <1>2, <1>3, <1>5, BegunRight
<1>7. task'[c] = u /\ (\A d \in Caller \ {c} : task'[d] = task[d]) /\ DOMAIN task' = Caller
  BY <1>1 DEF Asking
<1>8. \A d \in Caller : TaskForm(task'[d]) /\ Alright(task'[d])
  BY <1>5, <1>6, <1>7 DEF Asking
<1>9. InCall(c)' /\ \A d \in Caller \ {c} : InCall(d)' <=> InCall(d)
  BY <1>5, <1>7 DEF InCall
<1>10. \A h \in Past(u) : h = adapter \/ \E d \in overlapping : h \in Past(task[d])
  BY <1>3 DEF Past, old
<1>11. \A d \in overlapping : Past(task[d]) \subseteq Past(u)
  BY <1>3 DEF Past, old
<1>12. ASSUME NEW d \in Caller, InCall(d)' PROVE Witnessed(d)'
  <2>1. \A g, h : Alike(g, h)' <=> Alike(g, h)
    BY DEF Alike
  <2>2. Past(task[d])' = Past(task'[d]) /\ \A n : Always(task[d], n)' <=> Always(task'[d], n)
    BY DEF Past, Always, UpIn
  <2>3. Alike(adapter, adapter)
    BY DEF Alike
  <2>4. CASE d = c
    <3>1. ASSUME NEW e \in Caller, InCall(e)', os = "windows", NEW h \in task'[e].had
          PROVE  h \in Past(u)
      <4>1. CASE e = c
        BY <3>1, <4>1, <1>7 DEF Past
      <4>2. CASE e # c
        <5>1. e \in overlapping /\ h \in Past(task[e])
          BY <3>1, <4>2, <1>7, <1>9 DEF Past
        <5> QED
          BY <5>1, <1>11
      <4> QED
        BY <4>1, <4>2
    <3>2. ASSUME NEW n \in IfName, Always(u, n), NEW g \in Past(u)
          PROVE  g[n].path = adapter[n].path
      <4>1. CASE g = adapter
        BY <4>1
      <4>2. CASE g # adapter
        <5>1. PICK e \in overlapping : g \in Past(task[e])
          BY <4>2, <1>10
        <5>2. Witnessed(e) /\ Always(task[e], n)
          BY <3>2, <1>11 DEF Asking, Always
        <5>3. PICK h \in task[e].had : Alike(h, adapter)
          BY <5>2 DEF Witnessed
        <5>4. h \in Past(task[e]) /\ h[n].path = adapter[n].path
          BY <5>3 DEF Past, Alike
        <5> QED
          BY <5>1, <5>2, <5>4 DEF Witnessed
      <4> QED
        BY <4>1, <4>2
    <3>3. \E h \in task'[d].had : Alike(h, adapter')
      BY <2>3, <2>4, <1>1, <1>3, <1>7
    <3>4. ~task'[d].hurt => ~denied'
      BY <2>4, <1>1, <1>3, <1>7
    <3>5. os = "windows" => \A e \in Caller : InCall(e)' =>
            \A h \in task'[e].had : \E g \in Past(task'[d]) : Alike(h, g)
      BY <2>4, <3>1, <1>7 DEF Alike
    <3>6. \A n \in IfName : Always(task'[d], n) => \A g, h \in Past(task'[d]) : g[n].path = h[n].path
      BY <2>4, <3>2, <1>7
    <3> QED
      BY <1>1, <2>1, <2>2, <3>3, <3>4, <3>5, <3>6 DEF Witnessed
  <2>5. CASE d # c
    <3>1. Witnessed(d) /\ task'[d] = task[d]
      BY <2>5, <1>7, <1>9, <1>12 DEF Asking
    <3>2. \E h \in task'[d].had : Alike(h, adapter')
      BY <1>1, <3>1 DEF Witnessed
    <3>3. ~task'[d].hurt => ~denied'
      BY <1>1, <3>1 DEF Witnessed
    <3>4. ASSUME os = "windows", NEW e \in Caller, InCall(e)', NEW h \in task'[e].had
          PROVE  \E g \in Past(task'[d]) : Alike(h, g)
      <4>1. CASE e = c
        <5>1. PICK g \in task[d].had : Alike(g, adapter)
          BY <3>1 DEF Witnessed
        <5>2. h = adapter
          BY <3>4, <4>1, <1>3, <1>7
        <5>3. Alike(h, g)
          BY <5>1, <5>2 DEF Alike
        <5> QED
          BY <5>1, <5>3, <3>1 DEF Past
      <4>2. CASE e # c
        BY <4>2, <3>1, <3>4, <1>7, <1>9 DEF Witnessed
      <4> QED
        BY <4>1, <4>2
    <3>5. \A n \in IfName : Always(task'[d], n) => \A g, h \in Past(task'[d]) : g[n].path = h[n].path
      BY <3>1 DEF Witnessed
    <3> QED
      BY <1>1, <2>1, <2>2, <3>2, <3>3, <3>4, <3>5 DEF Witnessed
  <2> QED
    BY <2>4, <2>5
<1>13. ASSUME NEW d \in Caller PROVE TaskForm(task[d])'
  BY <1>1, <1>8, FormPrimed
<1>14. ASSUME NEW d \in Caller PROVE Alright(task[d])'
  BY <1>1, <1>8, RightPrimed, CachedPrimed DEF Alright
<1>15. DOMAIN plan' = Caller
  BY <1>1 DEF Asking
<1> QED
  BY <1>1, <1>2, <1>7, <1>12, <1>13, <1>14, <1>15 DEF Asking, HostForm

(* A call has seen what others have done.                                  *)
SeenMore(t, u) ==
  /\ DOMAIN u = DOMAIN t
  /\ \A f \in Fields \ {"had", "hurt", "path"} : u[f] = t[f]
  /\ u.had = t.had \cup {adapter'}
  /\ u.hurt <=> t.hurt \/ denied'
  /\ u.path # t.path => t.at \in {"get", "set"} /\ ~UpIn(adapter', t.name)

PathsStay == \A n \in IfName : UpIn(adapter, n) /\ UpIn(adapter', n) => adapter'[n].path = adapter[n].path

(* What Shown makes of a task.                                             *)
LEMMA ShownIs ==
  ASSUME NEW others, NEW d \in Caller, DOMAIN task[d] = Fields
  PROVE  IF d \notin others \/ ~InCall(d) THEN Shown(others)[d] = task[d]
         ELSE SeenMore(task[d], Shown(others)[d])
<1> DEFINE t == task[d]
           u == [t EXCEPT !.had = @ \cup {adapter'}, !.hurt = @ \/ denied',
                   !.path = IF @ # None /\ t.at \in {"get", "set"} /\ ~UpIn(adapter', t.name)
                        THEN None ELSE @]
<1>1. Shown(others)[d] = IF d \notin others \/ ~InCall(d) THEN t ELSE u
  BY DEF Shown
<1>2. /\ DOMAIN u = DOMAIN t
      /\ \A f \in Fields \ {"had", "hurt", "path"} : u[f] = t[f]
      /\ u.had = t.had \cup {adapter'}
      /\ u.hurt = (t.hurt \/ denied')
      /\ u.path = IF t.path # None /\ t.at \in {"get", "set"} /\ ~UpIn(adapter', t.name)
                  THEN None ELSE t.path
  BY DEF Fields
<1> HIDE DEF u
<1>3. SeenMore(t, u)
  BY <1>2 DEF SeenMore
<1> QED
  BY <1>1, <1>3

(* A task that has seen more is still right: it has no less to appeal to,  *)
(* and only where nothing has happened does it have to be exact.           *)
LEMMA SeenRight ==
  ASSUME Asking, NEW d \in Caller, InCall(d), NEW u, SeenMore(task[d], u)
  PROVE  /\ u.at = task[d].at /\ Past(u) = Past(task[d]) \cup {adapter'}
         /\ TaskForm(u) /\ Alright(u)
<1> DEFINE t == task[d]
<1>1. /\ TaskForm(t) /\ DOMAIN t = Fields /\ t.at # "idle"
      /\ Scanned(t) /\ Cached(t) /\ Opening(t) /\ Quiet(t) /\ Missed(t)
      /\ \E h \in Past(t) : Alike(h, adapter)
  BY Knows
<1>2. /\ DOMAIN u = DOMAIN Idle /\ u.at = t.at /\ u.call = t.call /\ u.name = t.name /\ u.todo = t.todo
      /\ u.refreshed = t.refreshed /\ u.found = t.found /\ u.scan = t.scan
      /\ u.checks = t.checks /\ u.slots = t.slots /\ u.result = t.result
      /\ u.before = t.before /\ u.stale = t.stale
  BY <1>1, IdleFields DEF SeenMore, Fields
<1>3. u.had = t.had \cup {adapter'} /\ (u.hurt <=> t.hurt \/ denied')
  BY DEF SeenMore
<1>4. u.path # t.path => t.at \in {"get", "set"} /\ ~UpIn(adapter', t.name)
  BY DEF SeenMore
<1>5. Past(u) = Past(t) \cup {adapter'}
  BY <1>2, <1>3 DEF Past
<1>6. TaskForm(u)
  BY <1>1, <1>2 DEF TaskForm
<1>7. Scanned(u)
  BY <1>1, <1>2, <1>3 DEF Scanned
<1>8. Cached(u)
  <2>1. Unpublished(u) <=> Unpublished(t)
    BY <1>2 DEF Unpublished
  <2> QED
    BY <1>1, <1>2, <1>5, <2>1 DEF Cached
<1>9. Opening(u)
  <2>1. t.at = "open" => u.path = t.path
    BY <1>4
  <2> QED
    BY <1>1, <1>2, <1>5, <2>1 DEF Opening
<1>10. Missed(u)
  BY <1>1, <1>2, <1>5 DEF Missed
<1>11. Quiet(u)
  <2> SUFFICES ASSUME ~u.hurt, ~u.stale, NEW h \in Past(u), Past(u) = {h}
               PROVE  Listing(u, h) /\ Reaching(u, h) /\ (u.at = "done" => u.result = Expected(u.call, h))
    BY DEF Quiet
  <2>1. ~t.hurt /\ ~t.stale
    BY <1>2, <1>3
  <2>2. h = adapter' /\ Past(t) = {h}
    BY <1>1, <1>5
  <2>3. Listing(t, h) /\ Reaching(t, h) /\ (t.at = "done" => t.result = Expected(t.call, h))
    BY <1>1, <2>1, <2>2 DEF Quiet
  <2>4. Listing(u, h)
    BY <1>2, <2>3 DEF Listing
  <2>5. Reaching(u, h)
    BY <1>2, <1>4, <2>2, <2>3 DEF Reaching
  <2> QED
    BY <1>2, <2>3, <2>4, <2>5
<1> QED
  BY <1>2, <1>5, <1>6, <1>7, <1>8, <1>9, <1>10, <1>11 DEF Alright

(* The others' calls go on, when adapters or what is denied has changed.   *)
LEMMA SeenWitnessed ==
  ASSUME Asking, PathsStay, UNCHANGED os, HostForm(adapter'),
         NEW d \in Caller, InCall(d), SeenMore(task[d], task'[d]),
         \A e \in Caller : InCall(e)' =>
           InCall(e) /\ task'[e].had \subseteq task[e].had \cup {adapter'}
  PROVE  Witnessed(d)'
<1> DEFINE t == task[d]
<1> DEFINE u == task'[d]
<1>1. \A g, h : Alike(g, h)' <=> Alike(g, h)
  BY DEF Alike
<1>2. Past(task[d])' = Past(u) /\ \A n : Always(task[d], n)' <=> Always(u, n)
  BY DEF Past, Always, UpIn
<1>3. Witnessed(d)
  BY DEF Asking
<1>4. Past(u) = Past(t) \cup {adapter'}
  BY SeenRight
<1>5. u.had = t.had \cup {adapter'} /\ (u.hurt <=> t.hurt \/ denied')
  BY DEF SeenMore
<1>6. Alike(adapter', adapter')
  BY DEF Alike
<1>7. \E h \in u.had : Alike(h, adapter')
  BY <1>5, <1>6
<1>8. ~u.hurt => ~denied'
  BY <1>5
<1>9. ASSUME os = "windows", NEW e \in Caller, InCall(e)', NEW h \in task'[e].had
      PROVE  \E g \in Past(u) : Alike(h, g)
  <2>1. CASE h = adapter'
    BY <2>1, <1>4, <1>6
  <2>2. CASE h # adapter'
    BY <2>2, <1>3, <1>4, <1>9 DEF Witnessed
  <2> QED
    BY <2>1, <2>2
<1>10. ASSUME NEW n \in IfName, Always(u, n), NEW g \in Past(u)
       PROVE  g[n].path = adapter'[n].path
  <2>1. CASE g = adapter'
    BY <2>1
  <2>2. CASE g # adapter'
    <3>1. Always(t, n) /\ UpIn(adapter', n) /\ g \in Past(t)
      BY <2>2, <1>4, <1>10 DEF Always
    <3>2. PICK h \in t.had : Alike(h, adapter)
      BY <1>3 DEF Witnessed
    <3>3. h \in Past(t) /\ h[n].path = adapter[n].path /\ UpIn(h, n)
      BY <3>1, <3>2 DEF Past, Alike, Always
    <3>4. g[n].path = h[n].path
      BY <1>3, <3>1, <3>3 DEF Witnessed
    <3>5. UpIn(adapter, n)
      BY <3>2, <3>3, AlikeUp
    <3> QED
      BY <3>1, <3>3, <3>4, <3>5 DEF PathsStay
  <2> QED
    BY <2>1, <2>2
<1>11. \A n \in IfName : Always(u, n) => \A g, h \in Past(u) : g[n].path = h[n].path
  BY <1>10
<1>12. os = "windows" => \A e \in Caller : InCall(e)' => \A h \in task'[e].had : \E g \in Past(u) : Alike(h, g)
  BY <1>9
<1> HIDE DEF u
<1>13. u = task'[d]
  BY DEF u
<1> QED
  BY <1>1, <1>2, <1>7, <1>8, <1>11, <1>12, <1>13 DEF Witnessed

(* A change by others keeps the invariant if paths stay.                   *)
LEMMA SeenKeeps ==
  ASSUME Asking, PathsStay, UNCHANGED <<os, cache, plan>>, HostForm(adapter'), task' = Shown(Caller)
  PROVE  Asking'
<1>1. DOMAIN task' = Caller
  BY DEF Shown
<1>2. ASSUME NEW d \in Caller
      PROVE  IF InCall(d) THEN SeenMore(task[d], task'[d]) ELSE task'[d] = task[d]
  <2>1. DOMAIN task[d] = Fields
    BY FieldsOf DEF Asking
  <2> QED
    BY <2>1, ShownIs
<1>3. ASSUME NEW d \in Caller
      PROVE  TaskForm(task'[d]) /\ Alright(task'[d]) /\ (InCall(d)' => InCall(d))
  <2>1. CASE InCall(d)
    BY <2>1, <1>2, SeenRight
  <2>2. CASE ~InCall(d)
    BY <2>2, <1>2 DEF Asking, InCall
  <2> QED
    BY <2>1, <2>2
<1>4. \A e \in Caller : InCall(e)' => InCall(e) /\ task'[e].had \subseteq task[e].had \cup {adapter'}
  BY <1>2, <1>3 DEF SeenMore
<1>5. ASSUME NEW d \in Caller, InCall(d)' PROVE Witnessed(d)'
  <2>1. InCall(d) /\ SeenMore(task[d], task'[d])
    BY <1>2, <1>3, <1>5
  <2> QED
    BY <2>1, <1>4, SeenWitnessed
<1>6. ASSUME NEW d \in Caller PROVE TaskForm(task[d])'
  BY <1>3, FormPrimed
<1>7. ASSUME NEW d \in Caller PROVE Alright(task[d])'
  BY <1>3, RightPrimed, CachedPrimed DEF Alright
<1> QED
  BY <1>1, <1>5, <1>6, <1>7 DEF Asking, Planned, HostForm

(* Happens, AdapterStarts: a path changes only while the adapter is away.  *)
LEMMA HappensKeeps ==
  ASSUME Asking, Happens \/ AdapterStarts
  PROVE  Asking'
<1>1. HostForm(adapter)
  BY DEF Asking
<1>2. ASSUME UNCHANGED adapter PROVE HostForm(adapter') /\ PathsStay
  BY <1>1, <1>2 DEF PathsStay
<1>3. ASSUME NEW n \in IfName, NEW a, adapter' = [adapter EXCEPT ![n] = a], DOMAIN a = DOMAIN NoAdapter,
             a.path = adapter[n].path \/ adapter[n].path = None \/ a.path = None
      PROVE  HostForm(adapter') /\ PathsStay
  <2>1. adapter'[n] = a /\ (\A m \in IfName \ {n} : adapter'[m] = adapter[m]) /\ DOMAIN adapter' = IfName
    BY <1>1, <1>3 DEF HostForm
  <2>2. HostForm(adapter')
    BY <1>1, <1>3, <2>1 DEF HostForm
  <2>3. PathsStay
    BY <1>3, <2>1 DEF PathsStay, UpIn
  <2> QED
    BY <2>2, <2>3
<1>4. ASSUME NEW n \in IfName, Others(n) PROVE HostForm(adapter') /\ PathsStay
  <2>1. DOMAIN adapter[n] = DOMAIN NoAdapter /\ DOMAIN NoAdapter = {"path", "started", "dev"} /\ NoAdapter.path = None
    BY <1>1 DEF HostForm, NoAdapter
  <2>2. ASSUME adapter[n].path = None, NEW way \in Path, NEW d \in Contents,
               adapter' = [adapter EXCEPT ![n] = [path |-> way, started |-> os # "windows", dev |-> d]]
        PROVE  HostForm(adapter') /\ PathsStay
    <3> DEFINE a == [path |-> way, started |-> os # "windows", dev |-> d]
    <3>1. DOMAIN a = {"path", "started", "dev"}
      OBVIOUS
    <3> HIDE DEF a
    <3>2. adapter' = [adapter EXCEPT ![n] = a]
      BY <2>2 DEF a
    <3> QED
      BY <1>3, <2>1, <2>2, <3>1, <3>2
  <2>3. CASE adapter' = [adapter EXCEPT ![n] = NoAdapter]
    BY <1>3, <2>1, <2>3
  <2>4. ASSUME NEW d, adapter' = [adapter EXCEPT ![n].dev = d]
        PROVE  HostForm(adapter') /\ PathsStay
    <3> DEFINE a == [adapter[n] EXCEPT !.dev = d]
    <3>1. DOMAIN a = DOMAIN NoAdapter /\ a.path = adapter[n].path
      BY <2>1
    <3>2. adapter' = [adapter EXCEPT ![n] = a]
      BY <2>4
    <3> HIDE DEF a
    <3> QED
      BY <1>3, <3>1, <3>2
  <2> QED
    BY <1>4, <2>2, <2>3, <2>4 DEF Others
<1>5. CASE Happens
  <2>1. HostForm(adapter') /\ PathsStay
    BY <1>2, <1>4, <1>5 DEF Happens
  <2> QED
    BY <1>5, <2>1, SeenKeeps DEF Happens, client
<1>6. CASE AdapterStarts
  <2>1. PICK n \in IfName : adapter' = [adapter EXCEPT ![n].started = TRUE]
    BY <1>6 DEF AdapterStarts
  <2> DEFINE a == [adapter[n] EXCEPT !.started = TRUE]
  <2>2. DOMAIN adapter[n] = DOMAIN NoAdapter /\ DOMAIN NoAdapter = {"path", "started", "dev"}
    BY <1>1 DEF HostForm, NoAdapter
  <2>3. DOMAIN a = DOMAIN NoAdapter /\ a.path = adapter[n].path
    BY <2>2
  <2>4. adapter' = [adapter EXCEPT ![n] = a]
    BY <2>1
  <2> HIDE DEF a
  <2>5. HostForm(adapter') /\ PathsStay
    BY <1>3, <2>3, <2>4
  <2> QED
    BY <1>6, <2>5, SeenKeeps DEF AdapterStarts, client
<1> QED
  BY <1>5, <1>6

(* Set: a device changes, but no adapter does; others see it, and the call *)
(* ends as it must.                                                        *)
LEMMA SetKeeps ==
  ASSUME Asking, NEW c \in Caller, Set(c)
  PROVE  Asking'
<1> DEFINE t == task[c]
<1>1. t.at = "set" /\ InCall(c) /\ ~denied /\ UNCHANGED <<os, cache, plan>>
  BY DEF Set, InCall, client
<1>2. /\ TaskForm(t) /\ DOMAIN t = Fields /\ Quiet(t) /\ \A h : Past(t) = {h} => Alike(h, adapter)
      /\ \E h \in Past(t) : Alike(h, adapter)
  BY <1>1, Knows
<1>3. t.call.op = "Configure" /\ t.name = t.call.name /\ os # "openbsd"
  BY <1>1, <1>2 DEF TaskForm
<1>4. ASSUME ~t.hurt, ~t.stale, NEW h, Past(t) = {h}
      PROVE  /\ UpIn(h, t.name) <=> UpIn(adapter, t.name)
             /\ os = "windows" => UpIn(h, t.name) /\ There(t)
             /\ os = "freebsd" /\ UpIn(h, t.name) => ~(UpdateOnlys(t.call.cfg) > 0)
  <2>1. Reaching(t, h) /\ Alike(h, adapter)
    BY <1>2, <1>4 DEF Quiet
  <2>2. UpIn(h, t.name) <=> UpIn(adapter, t.name)
    BY <2>1, AlikeUp
  <2>3. os = "windows" => UpIn(h, t.name) /\ t.path = h[t.name].path
    BY <1>1, <2>1 DEF Reaching
  <2>4. os = "windows" => There(t)
    BY <2>1, <2>2, <2>3, AlikeUp DEF There, Reachable, UpIn
  <2>5. os = "freebsd" /\ UpIn(h, t.name) => UpdateOnlys(t.call.cfg) = 0
    BY <1>1, <2>1 DEF Reaching
  <2> QED
    BY <2>2, <2>3, <2>4, <2>5
<1>5. CASE There(t) /\ task' = [Shown(Caller \ {c}) EXCEPT ![c] = End(t, "ok")]
           /\ adapter' = [adapter EXCEPT ![t.name].dev = SetDevice(@, Asked(t.mem))] /\ UNCHANGED denied
  <2>1. UpIn(adapter, t.name) /\ t.name \in IfName /\ HostForm(adapter)
    BY <1>5 DEF There, Reachable, UpIn, Asking
  <2>2. Alike(adapter, adapter') /\ HostForm(adapter')
    <3> DEFINE a == [adapter[t.name] EXCEPT !.dev = SetDevice(@, Asked(t.mem))]
    <3>1. adapter' = [adapter EXCEPT ![t.name] = a]
      BY <1>5
    <3>2. DOMAIN adapter[t.name] = DOMAIN NoAdapter /\ DOMAIN NoAdapter = {"path", "started", "dev"}
      BY <2>1 DEF HostForm, NoAdapter
    <3>3. DOMAIN a = DOMAIN NoAdapter /\ a.path = adapter[t.name].path /\ a.started = adapter[t.name].started
      BY <3>2
    <3> HIDE DEF a
    <3>4. adapter'[t.name] = a /\ (\A m \in IfName \ {t.name} : adapter'[m] = adapter[m]) /\ DOMAIN adapter' = IfName
      BY <2>1, <3>1 DEF HostForm
    <3> QED
      BY <2>1, <3>3, <3>4 DEF HostForm, Alike
  <2>3. PathsStay
    BY <2>2 DEF PathsStay, Alike
  <2> DEFINE u == End(t, "ok")
  <2>4. SameCall(t, u) /\ u.at # "idle" /\ TaskForm(u) /\ Alright(u)
    <3>1. ASSUME ~t.hurt, ~t.stale, NEW h, Past(t) = {h} PROVE "ok" = Expected(t.call, h)
      <4>1. UpIn(h, t.call.name) /\ ~(os = "freebsd" /\ UpdateOnlys(t.call.cfg) > 0)
        BY <1>3, <1>4, <2>1, <3>1
      <4> QED
        BY <1>3, <4>1 DEF Expected
    <3> QED
      BY <1>1, <1>2, <3>1, EndsRight
  <2> HIDE DEF u
  <2>5. /\ task'[c] = u /\ DOMAIN task' = Caller
        /\ \A d \in Caller \ {c} : task'[d] = Shown(Caller \ {c})[d]
    BY <1>5 DEF Shown, u
  <2>6. ASSUME NEW d \in Caller \ {c}
        PROVE  IF InCall(d) THEN SeenMore(task[d], task'[d]) ELSE task'[d] = task[d]
    <3>1. DOMAIN task[d] = Fields
      BY FieldsOf DEF Asking
    <3> QED
      BY <2>5, <3>1, ShownIs
  <2>7. ASSUME NEW d \in Caller
        PROVE  TaskForm(task'[d]) /\ Alright(task'[d]) /\ (InCall(d)' => InCall(d))
    <3>1. CASE d = c
      BY <3>1, <1>1, <2>4, <2>5
    <3>2. CASE d # c /\ InCall(d)
      BY <3>2, <2>6, SeenRight
    <3>3. CASE d # c /\ ~InCall(d)
      BY <3>3, <2>6 DEF Asking, InCall
    <3> QED
      BY <3>1, <3>2, <3>3
  <2>8. ASSUME NEW e \in Caller, InCall(e)'
        PROVE  InCall(e) /\ task'[e].had \subseteq task[e].had \cup {adapter'}
    <3>1. InCall(e)
      BY <2>7, <2>8
    <3>2. CASE e = c
      BY <3>1, <3>2, <2>4, <2>5 DEF SameCall
    <3>3. CASE e # c
      BY <3>1, <3>3, <2>6 DEF SeenMore
    <3> QED
      BY <3>1, <3>2, <3>3
  <2>9. Witnessed(c)'
    <3>1. \A g, h : Alike(g, h)' <=> Alike(g, h)
      BY DEF Alike
    <3>2. Past(task[c])' = Past(u) /\ \A n : Always(task[c], n)' <=> Always(u, n)
      BY <2>5 DEF Past, Always, UpIn
    <3>3. Witnessed(c) /\ Past(u) = Past(t) /\ u.had = t.had /\ u.hurt = t.hurt
      BY <1>1, <2>4 DEF Asking, Past, SameCall
    <3>4. PICK k \in t.had : Alike(k, adapter)
      BY <3>3 DEF Witnessed
    <3>5. Alike(k, adapter') /\ Alike(adapter', k)
      BY <2>2, <3>4, AlikeUp
    <3>6. ASSUME os = "windows", NEW e \in Caller, InCall(e)', NEW h \in task'[e].had
          PROVE  \E g \in Past(u) : Alike(h, g)
      <4>1. CASE h = adapter'
        BY <4>1, <3>3, <3>4, <3>5 DEF Past
      <4>2. CASE h # adapter'
        <5>1. InCall(e) /\ h \in task[e].had
          BY <4>2, <2>8, <3>6
        <5> QED
          BY <5>1, <3>3, <3>6 DEF Witnessed
      <4> QED
        BY <4>1, <4>2
    <3>7. \A n \in IfName : Always(u, n) => \A g, h \in Past(u) : g[n].path = h[n].path
      <4>1. \A n : Always(u, n) <=> Always(t, n)
        BY <3>3, Zenon DEF Always
      <4> QED
        BY <4>1, <3>3 DEF Witnessed
    <3>8. ~u.hurt => ~denied'
      BY <1>5, <3>3 DEF Witnessed
    <3>9. os = "windows" => \A e \in Caller : InCall(e)' => \A h \in task'[e].had : \E g \in Past(u) : Alike(h, g)
      BY <3>6
    <3> QED
      BY <1>1, <2>5, <3>1, <3>2, <3>3, <3>4, <3>5, <3>7, <3>8, <3>9 DEF Witnessed
  <2>10. ASSUME NEW d \in Caller, InCall(d)' PROVE Witnessed(d)'
    <3>1. CASE d = c
      BY <3>1, <2>9
    <3>2. CASE d # c
      <4>1. InCall(d) /\ SeenMore(task[d], task'[d])
        BY <3>2, <2>6, <2>8, <2>10
      <4> QED
        BY <1>1, <2>2, <2>3, <2>8, <4>1, SeenWitnessed
    <3> QED
      BY <3>1, <3>2
  <2>11. ASSUME NEW d \in Caller PROVE TaskForm(task[d])'
    BY <1>1, <2>7, FormPrimed
  <2>12. ASSUME NEW d \in Caller PROVE Alright(task[d])'
    BY <1>1, <2>7, RightPrimed, CachedPrimed DEF Alright
  <2> QED
    BY <1>1, <2>2, <2>5, <2>10, <2>11, <2>12 DEF Asking, Planned, HostForm
<1>6. CASE ~There(t) /\ UNCHANGED <<adapter, denied>>
           /\ task' = [task EXCEPT ![c] = End(t, IF os = "windows" THEN "failed" ELSE "missing")]
  <2> DEFINE r == IF os = "windows" THEN "failed" ELSE "missing"
  <2>1. os # "windows" => ~UpIn(adapter, t.name)
    BY <1>6 DEF There
  <2>2. os # "windows" => \E h \in Past(t) : ~UpIn(h, t.name)
    BY <1>2, <2>1, AlikeUp
  <2>3. ASSUME ~t.hurt, ~t.stale, NEW h, Past(t) = {h} PROVE r = Expected(t.call, h)
    <3>1. os # "windows" /\ ~UpIn(h, t.call.name)
      BY <1>3, <1>4, <1>6, <2>1, <2>3
    <3> QED
      BY <1>3, <3>1 DEF Expected
  <2>4. r = "missing" => \E h \in Past(t) : ~UpIn(h, t.name)
    BY <2>2
  <2>5. task' = [task EXCEPT ![c] = End(t, r)]
    BY <1>6
  <2> HIDE DEF r
  <2> QED
    BY <1>1, <1>6, <2>3, <2>4, <2>5, EndKeeps
<1> QED
  BY <1>1, <1>5, <1>6 DEF Set

(* Before the first call nothing is known and nothing is said.             *)
LEMMA AskingAtFirst == IoctlInit => Asking
<1> SUFFICES ASSUME IoctlInit PROVE Asking
  OBVIOUS
<1>1. task = [c \in Caller |-> Idle] /\ cache = [n \in IfName |-> None] /\ os \in DOMAIN Plans /\ plan \in Plans[os]
  BY DEF IoctlInit
<1>2. os \in {"windows", "openbsd", "freebsd"}
  BY <1>1, PlanTypes
<1>3. HostForm(adapter)
  <2>1. adapter \in [IfName -> {NoAdapter} \cup [path : Path, started : {TRUE}, dev : Contents]]
    BY IoctlTypes DEF IoctlInit
  <2>2. \A a \in [path : Path, started : {TRUE}, dev : Contents] : DOMAIN a = {"path", "started", "dev"}
    OBVIOUS
  <2>3. DOMAIN NoAdapter = {"path", "started", "dev"}
    BY DEF NoAdapter
  <2> QED
    BY <2>1, <2>2, <2>3 DEF HostForm
<1>4. DOMAIN plan = Caller
  BY <1>1, PlanTypes
<1>5. ASSUME NEW c \in Caller PROVE Planned(c)
  <2>1. plan[c] \in Seq(ToSet(plan[c])) /\ \A call \in ToSet(plan[c]) : IsCall(call)
    BY <1>1, PlanTypes
  <2> QED
    BY <2>1 DEF Planned
<1>6. TaskForm(Idle) /\ Alright(Idle)
  BY IdleFields DEF TaskForm, Alright
<1>7. \A c \in Caller : task[c] = Idle /\ ~InCall(c)
  BY <1>1, IdleFields DEF InCall
<1> QED
  BY <1>1, <1>2, <1>3, <1>4, <1>5, <1>6, <1>7 DEF Asking

(* Every step keeps it.                                                    *)
LEMMA AskingStep ==
  ASSUME Asking, [IoctlNext]_ivars
  PROVE  Asking'
<1>1. ASSUME NEW c \in Caller, IoctlBegin(c) \/ IoctlStep(c) PROVE Asking'
  BY <1>1, BeginKeeps, ReturnKeeps, FailsKeeps, SnapshotKeeps, ScanKeeps, PublishKeeps, RangeKeeps, LookupKeeps,
     OpenKeeps, OpenFailsKeeps, GetWindowsKeeps, CountKeeps, FetchKeeps, GetBSDKeeps, CheckKeeps, SetKeeps
     DEF IoctlStep
<1>2. CASE UNCHANGED ivars
  <2>1. UNCHANGED <<os, adapter, denied, cache, plan, task>>
    BY <1>2 DEF ivars, host, client
  <2>2. \A d \in Caller : SamePast(task[d], task'[d])
    BY <2>1 DEF SamePast
  <2>3. \A d \in Caller : (InCall(d) => Witnessed(d))'
    BY <2>1, <2>2, WitnessedOn DEF Asking
  <2>4. \A d \in Caller : TaskForm(task[d])'
    BY <2>1, FormPrimed DEF Asking
  <2>5. \A d \in Caller : Alright(task[d])'
    BY <2>1, RightPrimed, CachedPrimed DEF Asking, Alright
  <2> QED
    BY <2>1, <2>3, <2>4, <2>5 DEF Asking, HostForm, Planned
<1> QED
  BY <1>1, <1>2, HappensKeeps DEF IoctlNext

(* Errors say what is the case: a call during which nothing happens ends   *)
(* as it must, and "not found" is said only of what was missing.           *)
THEOREM IoctlErrorsAreTrue == IoctlInit /\ [][IoctlNext]_ivars => []IoctlErrors
<1>1. Asking => IoctlErrors
  <2> SUFFICES ASSUME Asking, NEW c \in Caller, Done(c), ~task[c].stale
               PROVE  /\ ~task[c].hurt => \A h \in History(c) :
                           History(c) = {h} => task[c].result = Expected(task[c].call, h)
                      /\ SaysMissing(c) => \E h \in History(c) : ~UpIn(h, task[c].name)
    BY DEF IoctlErrors
  <2>1. InCall(c) /\ task[c].at = "done" /\ History(c) = Past(task[c])
    BY DEF Done, InCall, History, Past
  <2>2. Quiet(task[c]) /\ Missed(task[c])
    BY <2>1, Knows
  <2>3. ~task[c].hurt => \A h \in History(c) :
           History(c) = {h} => task[c].result = Expected(task[c].call, h)
    BY <2>1, <2>2 DEF Quiet
  <2>4. SaysMissing(c) => \E h \in History(c) : ~UpIn(h, task[c].name)
    BY <2>1, <2>2 DEF Missed, SaysMissing
  <2> QED
    BY <2>3, <2>4
<1> QED
  BY <1>1, AskingAtFirst, AskingStep, PTL
-----------------------------------------------------------------------------
(* What the clients of Windows and FreeBSD send                            *)

(* The first of each block says how many are behind it.                    *)
CountsIPs(b) == \A i \in 1..Len(b) : b[i][1].count \in Nat /\ Len(b[i]) = 1 + b[i][1].count

(* The walk from peer to peer by the counts comes to where each begins.    *)
LEMMA WalkPlaces ==
  ASSUME NEW b, AreLists(b), CountsIPs(b), NEW head, head.count = Len(b)
  PROVE  PeerPlaces(Headed(head, b)) = [m \in 1..Len(b) |-> 2 + PlaceIn(b, m)]
<1> DEFINE n == Len(b)
           mem == Headed(head, b)
<1>01. n \in Nat /\ head.count = n /\ \A i \in 1..n : b[i][1].count \in Nat /\ Len(b[i]) = 1 + b[i][1].count
  BY DEF AreLists, Indexed, CountsIPs
<1>1. Indexed(mem) /\ 1 \in DOMAIN mem /\ mem[1] = head /\ PlaceIn(b, 1) = 0
  BY BlockPlaces
<1>02. \A m \in 1..n : Block(mem, b, m)
  BY BlockPlaces
<1>99. SUFFICES PeerPlaces(mem) = [m \in 1..n |-> 2 + PlaceIn(b, m)]
  OBVIOUS
<1> HIDE DEF n, mem
<1> DEFINE Walk(f) == f = [m \in 1..n |-> IF m = 1 THEN FirstPeer ELSE NextPeer(mem, f[m - 1])]
           g == [m \in 1..n |-> 2 + PlaceIn(b, m)]
<1>0. n \in Nat
  BY <1>01
<1>2. ASSUME NEW m \in 1..n
      PROVE  /\ PlaceIn(b, m) \in Nat
             /\ PlaceIn(b, m + 1) = PlaceIn(b, m) + Len(b[m])
             /\ \A i \in 1..Len(b[m]) :
                  /\ 1 + (PlaceIn(b, m) + i) \in DOMAIN mem
                  /\ mem[1 + (PlaceIn(b, m) + i)] = b[m][i]
  <2>1. Block(mem, b, m)
    BY <1>02
  <2> QED
    BY <2>1 DEF Block
<1>3. At(mem, 1).count = n
  BY <1>01, <1>1 DEF At
<1>4. ASSUME NEW m \in 1..n
      PROVE  NextPeer(mem, 2 + PlaceIn(b, m)) = 2 + PlaceIn(b, m + 1)
  <2>1. PlaceIn(b, m) \in Nat /\ b[m][1].count \in Nat /\ Len(b[m]) = 1 + b[m][1].count
    BY <1>01, <1>2
  <2>2. 1 \in 1..Len(b[m])
    BY <2>1
  <2>3. 1 + (PlaceIn(b, m) + 1) = 2 + PlaceIn(b, m)
    BY <2>1
  <2>4. At(mem, 2 + PlaceIn(b, m)) = b[m][1]
    BY <1>2, <2>2, <2>3 DEF At
  <2>5. NextPeer(mem, 2 + PlaceIn(b, m)) = 2 + PlaceIn(b, m) + 1 + b[m][1].count
    BY <2>4 DEF NextPeer
  <2>6. PlaceIn(b, m + 1) = PlaceIn(b, m) + Len(b[m])
    BY <1>2
  <2> DEFINE x == PlaceIn(b, m)
             y == PlaceIn(b, m + 1)
             l == Len(b[m])
             k == b[m][1].count
             z == NextPeer(mem, 2 + x)
  <2>7. x \in Nat /\ k \in Nat /\ l = 1 + k /\ z = 2 + x + 1 + k /\ y = x + l
    BY <2>1, <2>5, <2>6
  <2>8. z = 2 + y
    <3> HIDE DEF x, y, l, k, z
    <3> QED
      BY <2>7
  <2> QED
    BY <2>8
<1>5. Walk(g)
  <2> SUFFICES ASSUME NEW m \in 1..n
               PROVE  2 + PlaceIn(b, m) = IF m = 1 THEN FirstPeer ELSE NextPeer(mem, g[m - 1])
    OBVIOUS
  <2>1. CASE m = 1
    BY <1>1, <2>1 DEF FirstPeer
  <2>2. CASE m # 1
    <3>1. m - 1 \in 1..n /\ (m - 1) + 1 = m
      BY <1>0, <2>2
    <3>2. NextPeer(mem, 2 + PlaceIn(b, m - 1)) = 2 + PlaceIn(b, m)
      BY <1>4, <3>1
    <3>3. g[m - 1] = 2 + PlaceIn(b, m - 1)
      BY <3>1
    <3> QED
      BY <2>2, <3>2, <3>3
  <2> QED
    BY <2>1, <2>2
<1>6. PeerPlaces(mem) = CHOOSE f : Walk(f)
  BY <1>3 DEF PeerPlaces
<1> HIDE DEF g
<1>7. ASSUME NEW f, Walk(f) PROVE f = g
  <2>1. \A m \in 1..n : f[m] = IF m = 1 THEN FirstPeer ELSE NextPeer(mem, f[m - 1])
    BY <1>7
  <2>2. \A m \in 1..n : g[m] = IF m = 1 THEN FirstPeer ELSE NextPeer(mem, g[m - 1])
    BY <1>5
  <2>3. f = [m \in 1..n |-> f[m]] /\ g = [m \in 1..n |-> g[m]]
    BY <1>5, <1>7
  <2> DEFINE K == {k \in 0..n : k = 0 \/ f[k] = g[k]}
  <2>4. 0 \in K
    BY <1>0
  <2>5. ASSUME NEW k \in 0..n, k < n, k \in K PROVE k + 1 \in K
    <3>1. k + 1 \in 1..n /\ (k + 1) - 1 = k /\ k \in Nat
      BY <1>0, <2>5
    <3>2. f[k + 1] = IF k + 1 = 1 THEN FirstPeer ELSE NextPeer(mem, f[k])
      BY <2>1, <3>1
    <3>3. g[k + 1] = IF k + 1 = 1 THEN FirstPeer ELSE NextPeer(mem, g[k])
      BY <2>2, <3>1
    <3>4. k + 1 # 1 => f[k] = g[k]
      BY <2>5, <3>1
    <3>5. f[k + 1] = g[k + 1]
      BY <3>2, <3>3, <3>4
    <3> QED
      BY <3>1, <3>5
  <2> HIDE DEF K
  <2>6. \A k \in 0..n : k \in K
    BY <1>0, <2>4, <2>5, Upwards
  <2>7. ASSUME NEW m \in 1..n PROVE f[m] = g[m]
    <3>1. m \in K /\ m # 0
      BY <1>0, <2>6
    <3> QED
      BY <3>1 DEF K
  <2> HIDE DEF Walk
  <2> QED
    BY <2>3, <2>7
<1> HIDE DEF Walk
<1>8. PeerPlaces(mem) = g
  BY <1>5, <1>6, <1>7
<1> QED
  BY <1>8 DEF g

(* The structures that the client of Windows writes for an entry.          *)
LEMMA CellParts ==
  ASSUME NEW k, NEW s, NEW n, NEW f, NEW a
  PROVE  /\ PeerCell(k, s, n, f).key = k /\ PeerCell(k, s, n, f).setting = s
         /\ PeerCell(k, s, n, f).count = n /\ PeerCell(k, s, n, f).flags = f
         /\ Interface(n, f).count = n /\ Interface(n, f).flags = f
         /\ IPCell(a, f).ip = a /\ IPCell(a, f).flags = f
BY DEF PeerCell, Interface, IPCell, Blank

(* The flags that an entry has on Windows.                                 *)
PeerFlags(e) == Has(e.replaceIPs, "replaceIPs") \cup Has(e.updateOnly, "updateOnly")
                  \cup Has(e.remove, "remove") \cup Has(e.setting # Unset, "setting")

(* Each flag of an entry is there if the entry says so.                    *)
LEMMA EntryFlags ==
  ASSUME NEW e \in PeerConfig
  PROVE  /\ ("remove" \in PeerFlags(e)) = e.remove
         /\ ("updateOnly" \in PeerFlags(e)) = e.updateOnly
         /\ ("replaceIPs" \in PeerFlags(e)) = e.replaceIPs
         /\ "setting" \in PeerFlags(e) <=> e.setting # Unset
<1>1. e.remove \in BOOLEAN /\ e.updateOnly \in BOOLEAN /\ e.replaceIPs \in BOOLEAN
  BY DEF PeerConfig
<1>2. ASSUME NEW y, NEW z PROVE y \in Has(z, y) <=> z
  BY DEF Has
<1>3. /\ "remove" \in PeerFlags(e) <=> e.remove
      /\ "updateOnly" \in PeerFlags(e) <=> e.updateOnly
      /\ "replaceIPs" \in PeerFlags(e) <=> e.replaceIPs
      /\ "setting" \in PeerFlags(e) <=> e.setting # Unset
  BY DEF PeerFlags, Has
<1> QED
  BY <1>1, <1>3

(* What is written for an entry: its structure, its allowed IPs, its       *)
(* operations.                                                             *)
LEMMA BuiltPeer ==
  ASSUME NEW e \in PeerConfig
  PROVE  /\ Indexed(BuildPeer(e)) /\ Len(BuildPeer(e)) = 1 + (Len(e.ips) + Len(e.ops))
         /\ Len(e.ips) \in Nat /\ Len(e.ops) \in Nat /\ Len(e.ips) + Len(e.ops) \in Nat
         /\ BuildPeer(e)[1] = PeerCell(e.key, e.setting, Len(e.ips) + Len(e.ops), PeerFlags(e))
         /\ \A i \in 1..Len(e.ips) : BuildPeer(e)[1 + i] = IPCell(e.ips[i], {})
         /\ \A i \in 1..Len(e.ops) :
              BuildPeer(e)[1 + Len(e.ips) + i] = IPCell(e.ops[i].ip, Has(e.ops[i].op = "remove", "remove"))
<1>1. /\ e.ips \in Seq(IP) /\ e.ops \in Seq(Operation)
      /\ Len(e.ips) \in Nat /\ Len(e.ops) \in Nat
      /\ DOMAIN e.ips = 1..Len(e.ips) /\ DOMAIN e.ops = 1..Len(e.ops)
  <2>1. e.ips \in Seq(IP) /\ e.ops \in Seq(Operation)
    BY DEF PeerConfig, Operation
  <2> QED
    BY <2>1, LenProperties
<1> DEFINE c == PeerCell(e.key, e.setting, Len(e.ips) + Len(e.ops), PeerFlags(e))
           f == [n \in 1..Len(e.ips) |-> IPCell(e.ips[n], {})]
           g == [n \in 1..Len(e.ops) |-> IPCell(e.ops[n].ip, Has(e.ops[n].op = "remove", "remove"))]
           o == <<c>>
<1>2. BuildPeer(e) = (o \o f) \o g
  BY <1>1 DEF BuildPeer, PeerFlags
<1>3. /\ Indexed(f) /\ Len(f) = Len(e.ips) /\ \A i \in 1..Len(e.ips) : f[i] = IPCell(e.ips[i], {})
  <2>1. f = [n \in 1..Len(e.ips) |-> f[n]]
    OBVIOUS
  <2>2. \A i \in 1..Len(e.ips) : f[i] = IPCell(e.ips[i], {})
    OBVIOUS
  <2> HIDE DEF f
  <2> QED
    BY <1>1, <2>1, <2>2, ListIs
<1>4. /\ Indexed(g) /\ Len(g) = Len(e.ops)
      /\ \A i \in 1..Len(e.ops) : g[i] = IPCell(e.ops[i].ip, Has(e.ops[i].op = "remove", "remove"))
  <2>1. g = [n \in 1..Len(e.ops) |-> g[n]]
    OBVIOUS
  <2>2. \A i \in 1..Len(e.ops) : g[i] = IPCell(e.ops[i].ip, Has(e.ops[i].op = "remove", "remove"))
    OBVIOUS
  <2> HIDE DEF g
  <2> QED
    BY <1>1, <2>1, <2>2, ListIs
<1>5. Indexed(o) /\ Len(o) = 1 /\ o[1] = c
  BY OneList
<1> HIDE DEF f, g, c, o
<1>6. /\ Indexed(o \o f) /\ Len(o \o f) = 1 + Len(e.ips)
      /\ (o \o f)[1] = c /\ \A i \in 1..Len(e.ips) : (o \o f)[1 + i] = f[i]
  <2>1. /\ Indexed(o \o f) /\ Len(o \o f) = Len(o) + Len(f)
        /\ \A i \in 1..Len(o) : (o \o f)[i] = o[i]
        /\ \A i \in 1..Len(f) : (o \o f)[Len(o) + i] = f[i]
    <3>1. Indexed(o) /\ Indexed(f)
      BY <1>3, <1>5
    <3> QED
      BY ONLY <3>1, TwoLists
  <2>2. 1 \in 1..Len(o)
    BY <1>5
  <2> QED
    BY <1>3, <1>5, <2>1, <2>2
<1> DEFINE h == o \o f
<1> HIDE DEF h
<1>7. Indexed(h) /\ Len(h) = 1 + Len(e.ips) /\ h[1] = c /\ \A i \in 1..Len(e.ips) : h[1 + i] = f[i]
  BY <1>6 DEF h
<1>8. /\ Indexed(h \o g) /\ Len(h \o g) = Len(h) + Len(g)
      /\ \A i \in 1..Len(h) : (h \o g)[i] = h[i]
      /\ \A i \in 1..Len(g) : (h \o g)[Len(h) + i] = g[i]
  <2>1. Indexed(h) /\ Indexed(g)
    BY <1>4, <1>7
  <2> QED
    BY ONLY <2>1, TwoLists
<1>9. BuildPeer(e) = h \o g
  BY <1>2 DEF h
<1>10. 1 \in 1..Len(h) /\ \A i \in 1..Len(e.ips) : 1 + i \in 1..Len(h)
  BY <1>1, <1>7
<1>11. \A i \in 1..Len(e.ips) : BuildPeer(e)[1 + i] = IPCell(e.ips[i], {})
  BY <1>3, <1>7, <1>8, <1>9, <1>10
<1>12. \A i \in 1..Len(e.ops) :
         BuildPeer(e)[1 + Len(e.ips) + i] = IPCell(e.ops[i].ip, Has(e.ops[i].op = "remove", "remove"))
  BY <1>4, <1>7, <1>8, <1>9
<1>13. BuildPeer(e)[1] = c
  BY <1>7, <1>8, <1>9, <1>10
<1>14. Len(BuildPeer(e)) = 1 + (Len(e.ips) + Len(e.ops))
  <2>1. Len(BuildPeer(e)) = (1 + Len(e.ips)) + Len(e.ops)
    BY <1>4, <1>7, <1>8, <1>9
  <2> DEFINE x == Len(e.ips)
             y == Len(e.ops)
             z == Len(BuildPeer(e))
  <2>2. x \in Nat /\ y \in Nat /\ z = (1 + x) + y
    BY <1>1, <2>1
  <2>3. z = 1 + (x + y)
    <3> HIDE DEF x, y, z
    <3> QED
      BY <2>2
  <2> QED
    BY <2>3
<1>15. Len(e.ips) + Len(e.ops) \in Nat
  <2> DEFINE x == Len(e.ips)
             y == Len(e.ops)
  <2>1. x \in Nat /\ y \in Nat
    BY <1>1
  <2>2. x + y \in Nat
    <3> HIDE DEF x, y
    <3> QED
      BY <2>1
  <2> QED
    BY <2>2
<1> QED
  BY <1>1, <1>8, <1>9, <1>11, <1>12, <1>13, <1>14, <1>15 DEF c

(* The client of Windows says what the configuration does.                 *)
LEMMA WindowsMessage ==
  ASSUME NEW x \in Config
  PROVE  CellsMessage(BuildConfiguration(x)) = Message(x)
<1> DEFINE n == Len(x.peers)
           F == Has(x.replace, "replace")
           head == Interface(n, F)
           blk == [m \in 1..n |-> BuildPeer(x.peers[m])]
           mem == Headed(head, blk)
<1>1. /\ x.replace \in BOOLEAN /\ n \in Nat /\ DOMAIN x.peers = 1..n
      /\ \A m \in 1..n : x.peers[m] \in PeerConfig
  <2>1. x.peers \in Seq(PeerConfig) /\ x.replace \in BOOLEAN
    BY DEF Config
  <2> QED
    BY <2>1, LenProperties
<1>2. BuildConfiguration(x) = mem
  BY <1>1 DEF BuildConfiguration, Headed
<1>3. head.count = n /\ head.flags = F
  BY CellParts
<1>4. Indexed(blk) /\ Len(blk) = n
  <2>1. blk = [m \in 1..n |-> blk[m]]
    OBVIOUS
  <2> HIDE DEF blk
  <2> QED
    BY <1>1, <2>1, ListIs
<1>5. \A m \in 1..n : blk[m] = BuildPeer(x.peers[m])
  OBVIOUS
<1> HIDE DEF n, head, blk, mem
<1>6. ASSUME NEW m \in 1..n
      PROVE  /\ Indexed(blk[m]) /\ blk[m][1].count \in Nat /\ Len(blk[m]) = 1 + blk[m][1].count
  <2> DEFINE e == x.peers[m]
             k == Len(e.ips) + Len(e.ops)
  <2>1. e \in PeerConfig /\ blk[m] = BuildPeer(e)
    BY <1>1, <1>5
  <2>2. /\ Indexed(BuildPeer(e)) /\ Len(BuildPeer(e)) = 1 + k /\ k \in Nat
        /\ BuildPeer(e)[1] = PeerCell(e.key, e.setting, k, PeerFlags(e))
    <3> HIDE DEF e
    <3> QED
      BY <2>1, BuiltPeer
  <2> HIDE DEF e, k
  <2>3. BuildPeer(e)[1].count = k
    BY <2>2, CellParts
  <2> QED
    BY <2>1, <2>2, <2>3
<1>7. AreLists(blk) /\ CountsIPs(blk)
  BY <1>4, <1>6 DEF AreLists, CountsIPs
<1>8. PeerPlaces(mem) = [m \in 1..n |-> 2 + PlaceIn(blk, m)]
  BY <1>3, <1>4, <1>7, WalkPlaces DEF mem
<1>9. mem[1] = head /\ \A m \in 1..n : Block(mem, blk, m)
  BY <1>4, <1>7, BlockPlaces DEF mem
<1> DEFINE Allowed(i) == [q \in 1..mem[i].count |->
                            [ip |-> mem[i + q].ip, remove |-> "remove" \in mem[i + q].flags]]
           Peer(i) == [key |-> mem[i].key, setting |-> IF "setting" \in mem[i].flags
                                                         THEN mem[i].setting ELSE Unset,
                       remove |-> "remove" \in mem[i].flags, updateOnly |-> "updateOnly" \in mem[i].flags,
                       replaceIPs |-> "replaceIPs" \in mem[i].flags, allowed |-> Allowed(i)]
<1>10. ASSUME NEW m \in 1..n PROVE Peer(2 + PlaceIn(blk, m)) = EncodePeer(x.peers[m])
  <2> DEFINE e == x.peers[m]
             k == Len(e.ips) + Len(e.ops)
             i == 2 + PlaceIn(blk, m)
             w == BuildPeer(e)
  <2>1. e \in PeerConfig /\ blk[m] = w
    BY <1>1, <1>5
  <2> HIDE DEF e
  <2>2. /\ Len(w) = 1 + k /\ Len(e.ips) \in Nat /\ Len(e.ops) \in Nat /\ k \in Nat
        /\ w[1] = PeerCell(e.key, e.setting, k, PeerFlags(e))
        /\ \A q \in 1..Len(e.ips) : w[1 + q] = IPCell(e.ips[q], {})
        /\ \A q \in 1..Len(e.ops) : w[1 + Len(e.ips) + q] = IPCell(e.ops[q].ip, Has(e.ops[q].op = "remove", "remove"))
    BY <2>1, BuiltPeer
  <2>3. /\ PlaceIn(blk, m) \in Nat
        /\ \A q \in 1..Len(w) : mem[1 + (PlaceIn(blk, m) + q)] = w[q]
    BY <1>9, <2>1 DEF Block
  <2>4. e.ips \in Seq(IP) /\ e.ops \in Seq(Operation)
    BY <2>1 DEF PeerConfig, Operation
  <2>5. /\ Len(AllowedIPs(e.ips, e.ops)) = k
        /\ AllowedIPs(e.ips, e.ops) \in Seq(AllowedIP)
        /\ \A q \in 1..k :
              AllowedIPs(e.ips, e.ops)[q] =
                IF q <= Len(e.ips) THEN [ip |-> e.ips[q], remove |-> FALSE]
                ELSE [ip |-> e.ops[q - Len(e.ips)].ip, remove |-> e.ops[q - Len(e.ips)].op = "remove"]
    BY <2>4, AllowedParts
  <2>6. mem[i] = w[1] /\ \A q \in 1..k : mem[i + q] = w[1 + q]
    <3> DEFINE u == PlaceIn(blk, m)
    <3>1. u \in Nat /\ k \in Nat /\ Len(w) = 1 + k /\ i = 2 + u /\ \A q \in 1..Len(w) : mem[1 + (u + q)] = w[q]
      <4> HIDE DEF k, w
      <4> QED
        BY <2>2, <2>3
    <3> HIDE DEF u, k, w, i
    <3>2. 1 \in 1..Len(w) /\ 1 + (u + 1) = i
      BY <3>1
    <3>3. ASSUME NEW q \in 1..k PROVE 1 + q \in 1..Len(w) /\ 1 + (u + (1 + q)) = i + q
      BY <3>1
    <3>4. mem[i] = w[1]
      BY <3>1, <3>2
    <3>5. ASSUME NEW q \in 1..k PROVE mem[i + q] = w[1 + q]
      <4>1. mem[1 + (u + (1 + q))] = w[1 + q]
        BY <3>1, <3>3
      <4> QED
        BY <3>3, <4>1
    <3> QED
      BY <3>4, <3>5
  <2> HIDE DEF i, w, k
  <2>7. /\ mem[i].key = e.key /\ mem[i].setting = e.setting /\ mem[i].count = k
        /\ mem[i].flags = PeerFlags(e)
    BY <2>2, <2>6, CellParts
  <2>8. ASSUME NEW q \in 1..k
        PROVE  [ip |-> mem[i + q].ip, remove |-> "remove" \in mem[i + q].flags] = AllowedIPs(e.ips, e.ops)[q]
    <3> DEFINE l == Len(e.ips)
    <3>1. CASE q <= l
      <4>1. q \in 1..l
        BY <2>2, <3>1
      <4>2. mem[i + q] = IPCell(e.ips[q], {})
        BY <2>2, <2>6, <4>1
      <4>3. mem[i + q].ip = e.ips[q] /\ mem[i + q].flags = {}
        BY <4>2, CellParts
      <4>4. AllowedIPs(e.ips, e.ops)[q] = [ip |-> e.ips[q], remove |-> FALSE]
        BY <2>5, <3>1
      <4>5. ("remove" \in mem[i + q].flags) = FALSE
        BY <4>3
      <4> QED
        BY <4>3, <4>4, <4>5
    <3>2. CASE ~(q <= l)
      <4> DEFINE r == q - l
                 z == e.ops[r]
      <4>1. r \in 1..Len(e.ops) /\ 1 + l + r = 1 + q
        <5> DEFINE y == Len(e.ops)
        <5>1. l \in Nat /\ y \in Nat /\ k = l + y
          BY <2>2 DEF k
        <5> HIDE DEF l, y
        <5>2. r \in 1..y /\ 1 + l + r = 1 + q
          BY <3>2, <5>1
        <5> QED
          BY <5>2 DEF y
      <4>2. mem[i + q] = IPCell(z.ip, Has(z.op = "remove", "remove"))
        <5>1. w[1 + l + r] = IPCell(e.ops[r].ip, Has(e.ops[r].op = "remove", "remove"))
          BY <2>2, <4>1
        <5> QED
          BY <2>6, <4>1, <5>1
      <4>4. AllowedIPs(e.ips, e.ops)[q] = [ip |-> z.ip, remove |-> z.op = "remove"]
        BY <2>5, <3>2
      <4> HIDE DEF z
      <4>3. mem[i + q].ip = z.ip /\ mem[i + q].flags = Has(z.op = "remove", "remove")
        BY <4>2, CellParts
      <4>5. ("remove" \in mem[i + q].flags) = (z.op = "remove")
        BY <4>3 DEF Has
      <4> QED
        BY <4>3, <4>4, <4>5
    <3> QED
      BY <3>1, <3>2
  <2>9. Allowed(i) = AllowedIPs(e.ips, e.ops)
    <3> DEFINE A == AllowedIPs(e.ips, e.ops)
    <3>1. A \in Seq(AllowedIP) /\ Len(A) = k /\ k \in Nat
      BY <2>2, <2>5
    <3>2. \A q \in 1..k : [ip |-> mem[i + q].ip, remove |-> "remove" \in mem[i + q].flags] = A[q]
      BY <2>8
    <3> HIDE DEF A, k
    <3>3. A = [q \in 1..k |-> A[q]]
      BY <3>1, LenProperties
    <3>4. Allowed(i) = [q \in 1..k |-> A[q]]
      BY <2>7, <3>2
    <3> QED
      BY <3>3, <3>4 DEF A
  <2>10. /\ ("remove" \in mem[i].flags) = e.remove
         /\ ("updateOnly" \in mem[i].flags) = e.updateOnly
         /\ ("replaceIPs" \in mem[i].flags) = e.replaceIPs
         /\ (IF "setting" \in mem[i].flags THEN mem[i].setting ELSE Unset) = e.setting
    BY <2>1, <2>7, EntryFlags
  <2> HIDE DEF Allowed
  <2>11. Peer(i) = EncodePeer(e)
    BY <2>7, <2>9, <2>10 DEF EncodePeer
  <2> QED
    BY <2>11 DEF i, e
<1>11. ("replace" \in mem[1].flags) = x.replace
  <2>1. mem[1].flags = Has(x.replace, "replace")
    BY <1>3, <1>9
  <2> QED
    BY <1>1, <2>1 DEF Has
<1> DEFINE place == PeerPlaces(mem)
<1>12. CellsMessage(mem) = [replace |-> "replace" \in mem[1].flags, peers |-> [m \in DOMAIN place |-> Peer(place[m])]]
  BY DEF CellsMessage
<1>13. [m \in DOMAIN place |-> Peer(place[m])] = [m \in 1..n |-> EncodePeer(x.peers[m])]
  <2> HIDE DEF Peer
  <2>1. DOMAIN place = 1..n /\ \A m \in 1..n : place[m] = 2 + PlaceIn(blk, m)
    BY <1>8
  <2> HIDE DEF place
  <2>2. \A m \in 1..n : Peer(place[m]) = EncodePeer(x.peers[m])
    BY <1>10, <2>1
  <2> QED
    BY <2>1, <2>2
<1>14. Message(x) = [replace |-> x.replace, peers |-> [m \in 1..n |-> EncodePeer(x.peers[m])]]
  BY <1>1 DEF Message
<1> HIDE DEF place, Peer
<1> QED
  BY <1>2, <1>11, <1>12, <1>13, <1>14

(* An allowed IP in a list.                                                *)
LEMMA UnparsedIP ==
  ASSUME NEW ip, NEW rm \in BOOLEAN
  PROVE  /\ UnparseAllowedIP(ip, rm)["ip"] = ip
         /\ ("flags" \in DOMAIN UnparseAllowedIP(ip, rm)) = rm
<1>1. "flags" # "ip"
  OBVIOUS
<1>2. "flags" \in DOMAIN UnparseAllowedIP(ip, rm) <=> rm
  BY <1>1 DEF UnparseAllowedIP, Has
<1> QED
  BY <1>2 DEF UnparseAllowedIP

(* An allowed IP as the kernel reads it; what is written for those of an   *)
(* entry.                                                                  *)
SaidIP(l) == [ip |-> l["ip"], remove |-> "flags" \in DOMAIN l]
Unparsed(e) == [n \in DOMAIN e.ips |-> UnparseAllowedIP(e.ips[n], FALSE)]
                 \o [n \in DOMAIN e.ops |-> UnparseAllowedIP(e.ops[n].ip, e.ops[n].op = "remove")]

(* All of them, additions first.                                           *)
LEMMA UnparsedIPs ==
  ASSUME NEW e \in PeerConfig
  PROVE  /\ Indexed(Unparsed(e)) /\ Len(Unparsed(e)) = Len(AllowedIPs(e.ips, e.ops))
         /\ [n \in DOMAIN Unparsed(e) |-> SaidIP(Unparsed(e)[n])] = AllowedIPs(e.ips, e.ops)
         /\ Unparsed(e) = <<>> <=> AllowedIPs(e.ips, e.ops) = <<>>
<1> DEFINE x == Len(e.ips)
           y == Len(e.ops)
           f == [n \in DOMAIN e.ips |-> UnparseAllowedIP(e.ips[n], FALSE)]
           g == [n \in DOMAIN e.ops |-> UnparseAllowedIP(e.ops[n].ip, e.ops[n].op = "remove")]
           u == f \o g
           A == AllowedIPs(e.ips, e.ops)
<1>1. e.ips \in Seq(IP) /\ e.ops \in Seq(Operation)
  BY DEF PeerConfig, Operation
<1>2. x \in Nat /\ y \in Nat /\ DOMAIN e.ips = 1..x /\ DOMAIN e.ops = 1..y
  BY <1>1, LenProperties
<1>3. /\ A \in Seq(AllowedIP) /\ Len(A) = x + y
      /\ \A i \in 1..(x + y) :
           A[i] = IF i <= x THEN [ip |-> e.ips[i], remove |-> FALSE]
                  ELSE [ip |-> e.ops[i - x].ip, remove |-> e.ops[i - x].op = "remove"]
  BY <1>1, AllowedParts
<1>4. Indexed(f) /\ Len(f) = x /\ \A i \in 1..x : f[i] = UnparseAllowedIP(e.ips[i], FALSE)
  <2>1. f = [n \in 1..x |-> f[n]] /\ \A i \in 1..x : f[i] = UnparseAllowedIP(e.ips[i], FALSE)
    BY <1>2
  <2> HIDE DEF f, x
  <2> QED
    BY <1>2, <2>1, ListIs
<1>5. Indexed(g) /\ Len(g) = y /\ \A i \in 1..y : g[i] = UnparseAllowedIP(e.ops[i].ip, e.ops[i].op = "remove")
  <2>1. g = [n \in 1..y |-> g[n]] /\ \A i \in 1..y : g[i] = UnparseAllowedIP(e.ops[i].ip, e.ops[i].op = "remove")
    BY <1>2
  <2> HIDE DEF g, y
  <2> QED
    BY <1>2, <2>1, ListIs
<1>6. Unparsed(e) = u
  BY DEF Unparsed
<1>7. ASSUME NEW l, NEW ip, NEW rm \in BOOLEAN, l = UnparseAllowedIP(ip, rm)
      PROVE  SaidIP(l) = [ip |-> ip, remove |-> rm]
  <2>1. l["ip"] = ip /\ ("flags" \in DOMAIN l) = rm
    BY <1>7, UnparsedIP
  <2> QED
    BY <2>1 DEF SaidIP
<1> HIDE DEF f, g
<1>8. /\ Indexed(u) /\ Len(u) = Len(f) + Len(g)
      /\ \A i \in 1..Len(f) : u[i] = f[i]
      /\ \A i \in 1..Len(g) : u[Len(f) + i] = g[i]
  <2>1. Indexed(f) /\ Indexed(g)
    BY <1>4, <1>5
  <2> QED
    BY ONLY <2>1, TwoLists
<1> HIDE DEF u, A, x, y
<1>9. DOMAIN u = 1..(x + y) /\ DOMAIN A = 1..(x + y) /\ x + y \in Nat /\ Len(u) = x + y
  <2>1. Len(u) = x + y /\ x + y \in Nat
    BY <1>2, <1>4, <1>5, <1>8
  <2>2. DOMAIN u = 1..Len(u)
    BY <1>8, ListParts
  <2>3. DOMAIN A = 1..Len(A)
    BY <1>3, LenProperties
  <2> QED
    BY <1>3, <2>1, <2>2, <2>3
<1>10. ASSUME NEW i \in 1..(x + y) PROVE SaidIP(u[i]) = A[i]
  <2>1. CASE i <= x
    <3>1. i \in 1..x
      BY <1>2, <2>1
    <3>2. u[i] = UnparseAllowedIP(e.ips[i], FALSE)
      BY <1>4, <1>8, <3>1
    <3>3. SaidIP(u[i]) = [ip |-> e.ips[i], remove |-> FALSE]
      BY <1>7, <3>2
    <3> QED
      BY <1>3, <2>1, <3>3
  <2>2. CASE ~(i <= x)
    <3> DEFINE r == i - x
               z == e.ops[r]
    <3>1. r \in 1..y /\ x + r = i
      BY <1>2, <2>2
    <3>2. u[x + r] = UnparseAllowedIP(z.ip, z.op = "remove")
      BY <1>4, <1>5, <1>8, <3>1
    <3>3. A[i] = [ip |-> z.ip, remove |-> z.op = "remove"]
      BY <1>3, <2>2
    <3>4. (z.op = "remove") \in BOOLEAN
      OBVIOUS
    <3> HIDE DEF z
    <3>5. SaidIP(u[x + r]) = [ip |-> z.ip, remove |-> z.op = "remove"]
      <4> PICK v, yes, w : v = z.ip /\ yes = (z.op = "remove") /\ w = u[x + r]
        OBVIOUS
      <4>1. w = UnparseAllowedIP(v, yes) /\ yes \in BOOLEAN
        BY <3>2, <3>4
      <4>2. SaidIP(w) = [ip |-> v, remove |-> yes]
        BY ONLY <1>7, <4>1
      <4> QED
        BY <4>2
    <3> QED
      BY <3>1, <3>3, <3>5
  <2> QED
    BY <2>1, <2>2
<1>11. A = [i \in 1..(x + y) |-> A[i]]
  BY <1>3, <1>9
<1>12. [n \in DOMAIN u |-> SaidIP(u[n])] = A
  BY <1>9, <1>10, <1>11
<1>13. u = <<>> <=> A = <<>>
  <2>1. u = <<>> <=> Len(u) = 0
    BY <1>8, ListParts, EmptySeq
  <2>2. A = <<>> <=> Len(A) = 0
    BY <1>3, EmptySeq
  <2> QED
    BY <1>3, <1>9, <2>1, <2>2
<1>14. Len(u) = Len(A)
  BY <1>3, <1>9
<1> QED
  BY <1>6, <1>8, <1>12, <1>13, <1>14 DEF A

(* An entry in a list, as the kernel reads it.                             *)
SaidPeer(l) ==
  [key |-> l["public-key"],
   setting |-> IF "preshared-key" \in DOMAIN l THEN l["preshared-key"] ELSE Unset,
   remove |-> "remove" \in DOMAIN l, updateOnly |-> FALSE,
   replaceIPs |-> "replace-allowedips" \in DOMAIN l,
   allowed |-> IF "allowed-ips" \in DOMAIN l
                 THEN [n \in DOMAIN l["allowed-ips"] |-> SaidIP(l["allowed-ips"][n])]
                 ELSE <<>>]

(* What the kernel reads in the list of an entry is the entry, except that *)
(* it cannot say that the peer must be there.                              *)
LEMMA UnparsedPeer ==
  ASSUME NEW e \in PeerConfig, ~e.updateOnly
  PROVE  SaidPeer(UnparsePeerConfig(e)) = EncodePeer(e)
<1> DEFINE l == UnparsePeerConfig(e)
           allowed == Unparsed(e)
           names == {"public-key"} \cup Has(e.setting # Unset, "preshared-key")
                      \cup Has(e.replaceIPs, "replace-allowedips") \cup Has(e.remove, "remove")
                      \cup Has(allowed # <<>>, "allowed-ips")
           val(n) == CASE n = "public-key" -> e.key
                       [] n = "preshared-key" -> e.setting
                       [] n = "allowed-ips" -> allowed
                       [] OTHER -> TRUE
<1>1. l = [n \in names |-> val(n)]
  BY DEF UnparsePeerConfig, Unparsed
<1>2. e.remove \in BOOLEAN /\ e.updateOnly \in BOOLEAN /\ e.replaceIPs \in BOOLEAN
  BY DEF PeerConfig
<1>3. /\ "public-key" # "preshared-key" /\ "public-key" # "allowed-ips" /\ "preshared-key" # "allowed-ips"
      /\ "public-key" # "replace-allowedips" /\ "public-key" # "remove"
      /\ "preshared-key" # "replace-allowedips" /\ "preshared-key" # "remove"
      /\ "allowed-ips" # "replace-allowedips" /\ "allowed-ips" # "remove" /\ "replace-allowedips" # "remove"
  OBVIOUS
<1>4. /\ "public-key" \in names
      /\ "preshared-key" \in names <=> e.setting # Unset
      /\ "replace-allowedips" \in names <=> e.replaceIPs
      /\ "remove" \in names <=> e.remove
      /\ "allowed-ips" \in names <=> allowed # <<>>
  BY <1>3 DEF Has
<1>5. val("public-key") = e.key
  BY <1>3
<1>6. val("preshared-key") = e.setting
  BY <1>3
<1>7. val("allowed-ips") = allowed
  BY <1>3
<1> HIDE DEF names, val, l, allowed
<1>8. DOMAIN l = names /\ \A n \in names : l[n] = val(n)
  BY <1>1
<1>9. l["public-key"] = e.key
  BY <1>4, <1>5, <1>8
<1>10. (IF "preshared-key" \in DOMAIN l THEN l["preshared-key"] ELSE Unset) = e.setting
  BY <1>4, <1>6, <1>8
<1>11. ("remove" \in DOMAIN l) = e.remove
  BY <1>2, <1>4, <1>8
<1>12. ("replace-allowedips" \in DOMAIN l) = e.replaceIPs
  BY <1>2, <1>4, <1>8
<1>13. FALSE = e.updateOnly
  BY <1>2
<1>14. (IF "allowed-ips" \in DOMAIN l THEN [n \in DOMAIN l["allowed-ips"] |-> SaidIP(l["allowed-ips"][n])]
        ELSE <<>>) = AllowedIPs(e.ips, e.ops)
  <2>1. /\ [n \in DOMAIN allowed |-> SaidIP(allowed[n])] = AllowedIPs(e.ips, e.ops)
        /\ allowed = <<>> <=> AllowedIPs(e.ips, e.ops) = <<>>
    BY UnparsedIPs DEF allowed
  <2>2. CASE allowed = <<>>
    BY <1>4, <1>8, <2>1, <2>2
  <2>3. CASE allowed # <<>>
    <3>1. "allowed-ips" \in DOMAIN l /\ l["allowed-ips"] = allowed
      BY <1>4, <1>7, <1>8, <2>3
    <3> QED
      BY <2>1, <3>1
  <2> QED
    BY <2>2, <2>3
<1>15. SaidPeer(l) = EncodePeer(e)
  BY <1>9, <1>10, <1>11, <1>12, <1>13, <1>14 DEF SaidPeer, EncodePeer
<1> QED
  BY <1>15 DEF l

(* The client of FreeBSD says what the configuration does, when no entry   *)
(* is for a peer that must be there already.                               *)
LEMMA FreeBSDMessage ==
  ASSUME NEW x \in Config, \A m \in DOMAIN x.peers : ~x.peers[m].updateOnly
  PROVE  ListMessage(UnparseConfig(x)) = Message(x)
<1> DEFINE n == Len(x.peers)
           names == {"peers"} \cup Has(x.replace, "replace-peers")
           list == UnparseConfig(x)
           P == [m \in DOMAIN x.peers |-> UnparsePeerConfig(x.peers[m])]
<1>1. /\ x.replace \in BOOLEAN /\ \A m \in DOMAIN x.peers : x.peers[m] \in PeerConfig
  <2>1. x.peers \in Seq(PeerConfig) /\ x.replace \in BOOLEAN
    BY DEF Config
  <2> QED
    BY <2>1, LenProperties
<1>2. list = [m \in names |-> IF m = "peers" THEN P ELSE TRUE]
  BY DEF UnparseConfig
<1>3. "peers" # "replace-peers"
  OBVIOUS
<1>4. "peers" \in names /\ ("replace-peers" \in names <=> x.replace)
  BY <1>3 DEF Has
<1> HIDE DEF names, list
<1>5. DOMAIN list = names /\ list["peers"] = P
  <2> HIDE DEF P
  <2> QED
    BY <1>2, <1>4
<1>6. ("replace-peers" \in DOMAIN list) = x.replace
  BY <1>1, <1>4, <1>5
<1>7. ListMessage(list) = [replace |-> "replace-peers" \in DOMAIN list,
                           peers |-> [m \in DOMAIN list["peers"] |-> SaidPeer(list["peers"][m])]]
  BY DEF ListMessage, SaidPeer, SaidIP
<1>8. [m \in DOMAIN P |-> SaidPeer(P[m])] = [m \in DOMAIN x.peers |-> EncodePeer(x.peers[m])]
  <2>1. DOMAIN P = DOMAIN x.peers /\ \A m \in DOMAIN x.peers : P[m] = UnparsePeerConfig(x.peers[m])
    OBVIOUS
  <2>2. \A m \in DOMAIN x.peers : SaidPeer(P[m]) = EncodePeer(x.peers[m])
    BY <1>1, <2>1, UnparsedPeer
  <2> HIDE DEF P
  <2> QED
    BY <2>1, <2>2
<1>9. Message(x) = [replace |-> x.replace, peers |-> [m \in DOMAIN x.peers |-> EncodePeer(x.peers[m])]]
  BY DEF Message
<1> HIDE DEF P
<1>10. ListMessage(list) = Message(x)
  BY <1>5, <1>6, <1>7, <1>8, <1>9
<1> QED
  BY <1>10 DEF list

(* What is going to be sent is what the call asks for.                     *)
Prepared(call) == IF os = "windows" THEN BuildConfiguration(call.cfg) ELSE UnparseConfig(call.cfg)
Holds(t) == t.at = "set" => t.mem = Prepared(t.call)
Carrying == \A c \in Caller : Holds(task[c])

(* A step of one goroutine keeps this if what it carries is right.         *)
LEMMA CarryingOn ==
  ASSUME Asking, Carrying, UNCHANGED os, NEW c \in Caller, NEW u, task' = [task EXCEPT ![c] = u], Holds(u)
  PROVE  Carrying'
<1>1. task'[c] = u /\ \A d \in Caller \ {c} : task'[d] = task[d]
  BY DEF Asking
<1>2. \A d \in Caller : Holds(task'[d])
  BY <1>1 DEF Carrying
<1>3. \A d \in Caller : Holds(task'[d]) => Holds(task[d])'
  BY DEF Holds, Prepared
<1> QED
  BY <1>2, <1>3 DEF Carrying

(* So does what others see happen, whatever it is.                         *)
LEMMA CarryingSeen ==
  ASSUME Asking, Carrying, UNCHANGED os, NEW c, NEW others,
         \A d \in Caller : Holds(task'[d]) \/ task'[d] = Shown(others)[d]
  PROVE  Carrying'
<1>1. ASSUME NEW d \in Caller, task'[d] = Shown(others)[d] PROVE Holds(task'[d])
  <2>1. DOMAIN task[d] = Fields /\ Holds(task[d])
    BY FieldsOf DEF Asking, Carrying
  <2>2. task'[d] = task[d] \/ SeenMore(task[d], task'[d])
    BY <1>1, <2>1, ShownIs
  <2>3. task'[d].at = task[d].at /\ task'[d].mem = task[d].mem /\ task'[d].call = task[d].call
    BY <2>2 DEF SeenMore, Fields
  <2> QED
    BY <2>1, <2>3 DEF Holds
<1>2. \A d \in Caller : Holds(task'[d]) => Holds(task[d])'
  BY DEF Holds, Prepared
<1> QED
  BY <1>1, <1>2 DEF Carrying

(* Nothing is sent by a task that ends, or a list that goes on.            *)
LEMMA NothingSent ==
  ASSUME NEW t, DOMAIN t = Fields
  PROVE  /\ \A r : Holds(End(t, r))
         /\ Holds(NextDevice(t))
         /\ \A ps : Holds(Delivered(t, ps))
<1>1. ASSUME NEW x, DOMAIN x = Fields, NEW r PROVE Holds(End(x, r))
  BY <1>1, EndIs DEF Holds
<1>2. ASSUME NEW x, DOMAIN x = Fields PROVE Holds(NextDevice(x))
  <2>1. CASE x.todo = <<>>
    BY <1>1, <1>2, <2>1 DEF NextDevice
  <2>2. CASE x.todo # <<>>
    <3>1. NextDevice(x).at = (IF os = "windows" THEN "lookup" ELSE "get")
      BY <1>2, <2>2, NextIs
    <3> QED
      BY <3>1 DEF Holds
  <2> QED
    BY <2>1, <2>2
<1>3. ASSUME NEW ps PROVE Holds(Delivered(t, ps))
  <2> DEFINE read == [t EXCEPT !.out = Append(@, [name |-> t.name, peers |-> ps])]
  <2>1. DOMAIN read = Fields
    OBVIOUS
  <2>2. Delivered(t, ps) = CASE t.call.op = "Devices" -> NextDevice(read)
                             [] t.call.op = "Device" -> End(read, "ok")
                             [] OTHER -> End(t, "readonly")
    BY DEF Delivered
  <2> HIDE DEF read
  <2>3. CASE t.call.op = "Devices"
    BY <1>2, <2>1, <2>2, <2>3
  <2>4. CASE t.call.op = "Device"
    BY <1>1, <2>1, <2>2, <2>4
  <2>5. CASE t.call.op \notin {"Devices", "Device"}
    BY <1>1, <2>2, <2>5
  <2> QED
    BY <2>3, <2>4, <2>5
<1> QED
  BY <1>1, <1>2, <1>3

(* And a step that is Local.                                               *)
LEMMA CarryingLocal ==
  ASSUME Asking, Carrying, NEW c \in Caller, NEW from, NEW u, Local(c, from, u), Holds(u)
  PROVE  Carrying'
<1>1. task' = [task EXCEPT ![c] = u] /\ UNCHANGED os
  BY DEF Local, Becomes
<1> QED
  BY <1>1, CarryingOn

(* Only Open and Check prepare memory to send: one on Windows, one on      *)
(* FreeBSD.                                                                *)
LEMMA CarryingStep ==
  ASSUME Asking, Carrying, [IoctlNext]_ivars
  PROVE  Carrying'
<1>0. \A d \in Caller : DOMAIN task[d] = Fields /\ TaskForm(task[d])
  BY FieldsOf DEF Asking
<1>1. ASSUME NEW c \in Caller, IoctlBegin(c) PROVE Carrying'
  <2> DEFINE call == Head(plan[c])
             old == UNION {task[d].had \cup task[d].before : d \in {e \in Caller : InCall(e) /\ os = "windows"}}
             u == [Idle EXCEPT !.at = FirstStep(call), !.call = call, !.name = call.name,
                     !.checks = IF call.op = "Configure" THEN UpdateOnlys(call.cfg) ELSE 0,
                     !.had = {adapter}, !.hurt = denied, !.stale = \E n \in IfName : Outdated(n),
                     !.before = old]
  <2>1. task' = [task EXCEPT ![c] = u] /\ UNCHANGED os
    BY <1>1 DEF IoctlBegin, Becomes
  <2>2. u.at = FirstStep(call)
    BY IdleFields DEF Fields
  <2>3. FirstStep(call) # "set"
    BY DEF FirstStep
  <2> HIDE DEF u
  <2>4. Holds(u)
    BY <2>2, <2>3 DEF Holds
  <2> QED
    BY <2>1, <2>4, CarryingOn
<1>2. ASSUME NEW c \in Caller, IoctlReturn(c) PROVE Carrying'
  <2>1. Holds(Idle)
    BY IdleFields DEF Holds
  <2> QED
    BY <1>2, <2>1, CarryingLocal DEF IoctlReturn
<1>3. ASSUME NEW c \in Caller, SystemFails(c) PROVE Carrying'
  <2>1. PICK from, r : Local(c, from, End(task[c], r))
    BY <1>3 DEF SystemFails
  <2>2. Holds(End(task[c], r))
    BY <1>0, NothingSent
  <2> QED
    BY <2>1, <2>2, CarryingLocal
<1>4. ASSUME NEW c \in Caller, Snapshot(c) \/ Scan(c) PROVE Carrying'
  <2>1. PICK from, u : Local(c, from, u) /\ u.at = "scan"
    <3>1. CASE Snapshot(c)
      <4> DEFINE u == [task[c] EXCEPT !.at = "scan", !.found = Idle.found,
                             !.scan = {n \in IfName : adapter[n].path # None}]
      <4>1. Local(c, "snapshot", u)
        BY <3>1 DEF Snapshot
      <4>2. u.at = "scan"
        BY <1>0 DEF Fields
      <4> QED
        BY <4>1, <4>2
    <3>2. CASE Scan(c)
      <4>1. PICK n \in task[c].scan :
               Local(c, "scan", [task[c] EXCEPT !.scan = @ \ {n},
                        !.found[n] = IF UpIn(adapter, n) THEN adapter[n].path ELSE None])
        BY <3>2 DEF Scan
      <4> DEFINE u == [task[c] EXCEPT !.scan = @ \ {n},
                        !.found[n] = IF UpIn(adapter, n) THEN adapter[n].path ELSE None]
      <4>2. task[c].at = "scan"
        BY <4>1 DEF Local, Becomes
      <4>3. u.at = "scan"
        BY <1>0, <4>2 DEF Fields
      <4> QED
        BY <4>1, <4>3
    <3> QED
      BY <1>4, <3>1, <3>2
  <2>2. Holds(u)
    BY <2>1 DEF Holds
  <2> QED
    BY <2>1, <2>2, CarryingLocal
<1>5. ASSUME NEW c \in Caller, Publish(c) PROVE Carrying'
  <2> DEFINE u == [task[c] EXCEPT !.at = IF task[c].name = NoName THEN "range" ELSE "lookup",
                           !.found = Idle.found, !.refreshed = TRUE]
  <2>1. task' = [task EXCEPT ![c] = u] /\ UNCHANGED os
    BY <1>5 DEF Publish, Becomes
  <2>2. u.at = IF task[c].name = NoName THEN "range" ELSE "lookup"
    BY <1>0 DEF Fields
  <2> HIDE DEF u
  <2>3. Holds(u)
    BY <2>2 DEF Holds
  <2> QED
    BY <2>1, <2>3, CarryingOn
<1>6. ASSUME NEW c \in Caller, RangeCache(c) PROVE Carrying'
  <2> DEFINE r == [task[c] EXCEPT !.todo = SetToSeq({n \in IfName : cache[n] # None})]
  <2>1. Local(c, "range", NextDevice(r))
    BY <1>6 DEF RangeCache
  <2>2. DOMAIN r = Fields
    BY <1>0
  <2> HIDE DEF r
  <2> QED
    BY <2>1, <2>2, NothingSent, CarryingLocal
<1>7. ASSUME NEW c \in Caller, Lookup(c) PROVE Carrying'
  <2> DEFINE t == task[c]
  <2>1. PICK u : Local(c, "lookup", u) /\ (u = End(t, "missing") \/ u = [t EXCEPT !.at = "open", !.path = cache[t.name]]
                                          \/ u = [t EXCEPT !.at = "snapshot"])
    BY <1>7, Zenon DEF Lookup
  <2>2. Holds([t EXCEPT !.at = "open", !.path = cache[t.name]]) /\ Holds([t EXCEPT !.at = "snapshot"])
    BY <1>0 DEF Fields, Holds
  <2>3. Holds(u)
    BY <1>0, <2>1, <2>2, NothingSent
  <2> QED
    BY <2>1, <2>3, CarryingLocal
<1>8. ASSUME NEW c \in Caller, Open(c) PROVE Carrying'
  <2> DEFINE t == task[c]
             u == [t EXCEPT !.at = "set", !.mem = BuildConfiguration(t.call.cfg)]
             v == [t EXCEPT !.at = "get", !.cap = IF guess = 0 THEN Guess0 ELSE guess]
  <2>1. PICK w : Local(c, "open", w) /\ (w = End(t, "missing") \/ w = u \/ w = v)
    BY <1>8, Zenon DEF Open
  <2>2. t.at = "open"
    BY <2>1 DEF Local, Becomes
  <2>3. os = "windows"
    BY <1>0, <2>2, OnWindows
  <2>4. u.mem = BuildConfiguration(t.call.cfg) /\ u.call = t.call
    BY <1>0 DEF Fields
  <2>5. v.at = "get"
    BY <1>0 DEF Fields
  <2> HIDE DEF u, v
  <2>6. Holds(u) /\ Holds(v)
    BY <2>3, <2>4, <2>5 DEF Holds, Prepared
  <2>7. Holds(w)
    BY <1>0, <2>1, <2>6, NothingSent
  <2> QED
    BY <2>1, <2>7, CarryingLocal
<1>9. ASSUME NEW c \in Caller, OpenFails(c) PROVE Carrying'
  <2> DEFINE t == task[c]
  <2>1. PICK u : Local(c, "open", u) /\ (u = End(t, "failed") \/ u = [t EXCEPT !.at = "lookup"])
    BY <1>9, Zenon DEF OpenFails
  <2>2. Holds([t EXCEPT !.at = "lookup"])
    BY <1>0 DEF Fields, Holds
  <2>3. Holds(u)
    BY <1>0, <2>1, <2>2, NothingSent
  <2> QED
    BY <2>1, <2>3, CarryingLocal
<1>10. ASSUME NEW c \in Caller, NEW n, task[c].at = "get" PROVE Holds([task[c] EXCEPT !.cap = n])
  BY <1>0, <1>10 DEF Fields, Holds
<1>11. ASSUME NEW c \in Caller, GetWindows(c) \/ GetBSD(c) PROVE Carrying'
  <2> DEFINE t == task[c]
  <2>1. PICK u : task' = [task EXCEPT ![c] = u] /\ UNCHANGED os /\ t.at = "get"
                 /\ ((\E r : u = End(t, r)) \/ (\E n : u = [t EXCEPT !.cap = n]) \/ \E ps : u = Delivered(t, ps))
    <3>1. CASE GetWindows(c)
      BY <3>1, Zenon DEF GetWindows, Local, Becomes
    <3>2. CASE GetBSD(c)
      BY <3>2, Zenon DEF GetBSD, Local, Becomes
    <3> QED
      BY <1>11, <3>1, <3>2
  <2>2. Holds(u)
    BY <1>0, <1>10, <2>1, NothingSent
  <2> QED
    BY <2>1, <2>2, CarryingOn
<1>12. ASSUME NEW c \in Caller, Count(c) PROVE Carrying'
  <2> DEFINE t == task[c]
             v == [t EXCEPT !.at = "fetch", !.slots = Cardinality(Members)]
  <2>1. PICK u : Local(c, "count", u) /\ (u = End(t, "missing") \/ u = v)
    BY <1>12, Zenon DEF Count
  <2>2. Holds(v)
    BY <1>0 DEF Fields, Holds
  <2>3. Holds(u)
    BY <1>0, <2>1, <2>2, NothingSent
  <2> QED
    BY <2>1, <2>3, CarryingLocal
<1>13. ASSUME NEW c \in Caller, Fetch(c) PROVE Carrying'
  <2> DEFINE t == task[c]
             n == Cardinality(Members)
             r == [t EXCEPT !.todo = SetToSeq(Members) \o [i \in 1..(t.slots - n) |-> NoName]]
  <2>1. PICK u : Local(c, "fetch", u) /\ ((\E x : u = End(t, x)) \/ u = NextDevice(r))
    BY <1>13, Zenon DEF Fetch
  <2>2. DOMAIN r = Fields
    BY <1>0
  <2> HIDE DEF r
  <2>3. Holds(u)
    BY <1>0, <2>1, <2>2, NothingSent
  <2> QED
    BY <2>1, <2>3, CarryingLocal
<1>14. ASSUME NEW c \in Caller, Check(c) PROVE Carrying'
  <2> DEFINE t == task[c]
             v == [t EXCEPT !.at = "set", !.mem = UnparseConfig(t.call.cfg)]
             Repeats(u) == (\E n : u = [t EXCEPT !.checks = n, !.cap = 0]) \/ \E n : u = [t EXCEPT !.cap = n]
  <2>1. PICK u : Local(c, "check", u) /\ (u = End(t, "unsupported") \/ u = v \/ Repeats(u))
    <3> DEFINE dev0 == adapter[t.name].dev
    <3>1. Local(c, "check",
           CASE t.checks = 0 -> v
             [] t.checks > 0 /\ ~UpIn(adapter, t.name) -> [t EXCEPT !.checks = t.checks - 1, !.cap = 0]
             [] t.checks > 0 /\ UpIn(adapter, t.name) /\ Size(dev0) > t.cap -> [t EXCEPT !.cap = Size(dev0)]
             [] OTHER -> End(t, "unsupported"))
      BY <1>14, Zenon DEF Check
    <3> QED
      BY <3>1, Zenon
  <2>2. t.at = "check"
    BY <2>1 DEF Local, Becomes
  <2>3. os = "freebsd"
    BY <1>0, <2>2 DEF TaskForm
  <2>4. v.mem = UnparseConfig(t.call.cfg) /\ v.call = t.call
    BY <1>0 DEF Fields
  <2>5. ASSUME Repeats(u) PROVE u.at = "check"
    BY <1>0, <2>2, <2>5 DEF Fields
  <2> HIDE DEF v, Repeats
  <2>6. Holds(v) /\ (Repeats(u) => Holds(u))
    BY <2>3, <2>4, <2>5 DEF Holds, Prepared
  <2>7. Holds(u)
    BY <1>0, <2>1, <2>6, NothingSent
  <2> QED
    BY <2>1, <2>7, CarryingLocal
<1>15. ASSUME NEW c \in Caller, Set(c) PROVE Carrying'
  <2>1. UNCHANGED os
    BY <1>15 DEF Set
  <2>2. CASE task' = [Shown(Caller \ {c}) EXCEPT ![c] = End(task[c], "ok")]
    <3>1. task'[c] = End(task[c], "ok") /\ \A d \in Caller \ {c} : task'[d] = Shown(Caller \ {c})[d]
      BY <2>2 DEF Shown
    <3>2. \A d \in Caller : Holds(task'[d]) \/ task'[d] = Shown(Caller \ {c})[d]
      BY <1>0, <3>1, NothingSent
    <3> QED
      BY <2>1, <3>2, CarryingSeen
  <2>3. CASE task' = [task EXCEPT ![c] = End(task[c], IF os = "windows" THEN "failed" ELSE "missing")]
    <3>1. Holds(End(task[c], IF os = "windows" THEN "failed" ELSE "missing"))
      BY <1>0, NothingSent
    <3> QED
      BY <2>1, <2>3, <3>1, CarryingOn
  <2> QED
    BY <1>15, <2>2, <2>3 DEF Set
<1>16. ASSUME Happens \/ AdapterStarts PROVE Carrying'
  <2>1. UNCHANGED os /\ task' = Shown(Caller)
    BY <1>16 DEF Happens, AdapterStarts
  <2> QED
    BY <2>1, CarryingSeen
<1>17. ASSUME UNCHANGED ivars PROVE Carrying'
  BY <1>17 DEF ivars, Carrying, Holds, Prepared
<1> QED
  BY <1>1, <1>2, <1>3, <1>4, <1>5, <1>6, <1>7, <1>8, <1>9, <1>11, <1>12, <1>13, <1>14, <1>15, <1>16, <1>17
     DEF IoctlNext, IoctlStep

(* What the kernel gets is the configuration of the call.                  *)
THEOREM ConfiguredAsAsked == IoctlInit /\ [][IoctlNext]_ivars => ConfiguresAsAsked
<1> DEFINE Step == \A c \in Caller :
             LET t == task[c]
                 emulated == os = "freebsd" /\ UpdateOnlys(t.call.cfg) > 0
             IN  Set(c) /\ There(t) /\ ~emulated =>
                   adapter' = [adapter EXCEPT ![t.name].dev = SetDevice(@, Message(t.call.cfg))]
<1>1. Asking /\ Carrying => Step
  <2> SUFFICES ASSUME Asking, Carrying, NEW c \in Caller, Set(c), There(task[c]),
                      ~(os = "freebsd" /\ UpdateOnlys(task[c].call.cfg) > 0)
               PROVE  adapter' = [adapter EXCEPT ![task[c].name].dev = SetDevice(@, Message(task[c].call.cfg))]
    OBVIOUS
  <2> DEFINE t == task[c]
  <2>1. t.at = "set" /\ adapter' = [adapter EXCEPT ![t.name].dev = SetDevice(@, Asked(t.mem))]
    BY DEF Set
  <2>2. TaskForm(t) /\ t.mem = Prepared(t.call)
    BY <2>1 DEF Asking, Carrying, Holds
  <2>3. t.call.cfg \in Config /\ os \in {"windows", "freebsd"}
    BY <2>1, <2>2, SystemIs DEF TaskForm, IsCall
  <2>4. Asked(t.mem) = Message(t.call.cfg)
    <3>1. CASE os = "windows"
      BY <2>2, <2>3, <3>1, WindowsMessage DEF Asked, Prepared
    <3>2. CASE os = "freebsd"
      BY <2>2, <2>3, <3>2, NoUpdateOnlys, FreeBSDMessage DEF Asked, Prepared
    <3> QED
      BY <2>3, <3>1, <3>2
  <2> QED
    BY <2>1, <2>4
<1>2. IoctlInit => Carrying
  <2> SUFFICES ASSUME IoctlInit, NEW c \in Caller PROVE Holds(task[c])
    BY DEF Carrying
  <2> QED
    BY IdleFields DEF IoctlInit, Holds
<1> HIDE DEF Step
<1>3. ConfiguresAsAsked <=> [][Step]_ivars
  BY DEF ConfiguresAsAsked, Step
<1> QED
  BY <1>1, <1>2, <1>3, AskingAtFirst, AskingStep, CarryingStep, PTL
-----------------------------------------------------------------------------
(* What the clients of Windows, OpenBSD and FreeBSD read.                  *)
(*                                                                         *)
(* IoctlReadsAreTrue rests on an invariant (Telling) of what each call has *)
(* read so far (Kept) and of the names it still has to ask for (Upcoming): *)
(* a name is in one of three places, read, being read or left to do, and a *)
(* device that was there at all moments of the call is in one of them.     *)
(* When a list gets its names this is so because the map it goes over is   *)
(* true to moments of the call (Mapped) or because the call has seen what  *)
(* there is (Present).  That what is parsed is the device is CellsRead and *)
(* ListRead; that there is a device to parse, SentDevice.                  *)

(* A peer as a caller sees it.                                             *)
PeerOf(dev0, k) == [key |-> k, setting |-> dev0.setting[k], ips |-> IPsOf(dev0, k)]

(* What a list of the keys of a device says, one peer for each.            *)
LEMMA PeersInTurn ==
  ASSUME NEW d \in Device, NEW f, NEW n, n = Len(SetToSeq(d.peers)),
         f = [m \in 1..n |-> PeerOf(d, SetToSeq(d.peers)[m])]
  PROVE  ToSet(f) = PeersOf(d) /\ Len(f) = Cardinality(PeersOf(d))
<1> DEFINE keys == SetToSeq(d.peers)
<1>1. IsFiniteSet(d.peers)
  <2>1. d.peers \subseteq Key
    BY DEF Device
  <2> QED
    BY <2>1, FiniteData, FS_Subset
<1>2. /\ keys \in Seq(d.peers) /\ n = Len(keys)
      /\ \A x \in d.peers : \E i \in DOMAIN keys : keys[i] = x
      /\ \A i, m \in DOMAIN keys : keys[i] = keys[m] => i = m
  BY <1>1, ListOfSet
<1>3. f = [m \in 1..n |-> PeerOf(d, keys[m])]
  OBVIOUS
<1> HIDE DEF keys
<1>4. n \in Nat /\ DOMAIN keys = 1..n /\ \A m \in 1..n : keys[m] \in d.peers
  BY <1>2, LenProperties
<1>5. DOMAIN f = 1..n /\ \A m \in 1..n : f[m] = PeerOf(d, keys[m])
  BY <1>3
<1>6. Len(f) = n
  <2>1. f = [m \in 1..n |-> f[m]]
    BY <1>3
  <2> QED
    BY <1>4, <2>1, ListIs
<1>7. PeersOf(d) = {PeerOf(d, k) : k \in d.peers}
  BY DEF PeersOf, PeerOf
<1>8. ToSet(f) = PeersOf(d)
  <2>1. ASSUME NEW x \in ToSet(f) PROVE x \in PeersOf(d)
    <3>1. PICK m \in 1..n : x = PeerOf(d, keys[m])
      BY <1>5, <2>1 DEF ToSet
    <3> QED
      BY <1>4, <1>7, <3>1
  <2>2. ASSUME NEW x \in PeersOf(d) PROVE x \in ToSet(f)
    <3>1. PICK k \in d.peers : x = PeerOf(d, k)
      BY <1>7, <2>2
    <3>2. PICK m \in 1..n : keys[m] = k
      BY <1>2, <1>4
    <3>3. x = f[m] /\ m \in DOMAIN f
      BY <1>5, <3>1, <3>2
    <3> QED
      BY <3>3 DEF ToSet
  <2> QED
    BY <2>1, <2>2
<1>9. \A i, m \in 1..n : f[i] = f[m] => i = m
  <2> SUFFICES ASSUME NEW i \in 1..n, NEW m \in 1..n, f[i] = f[m] PROVE i = m
    OBVIOUS
  <2>1. PeerOf(d, keys[i]).key = keys[i] /\ PeerOf(d, keys[m]).key = keys[m]
    BY DEF PeerOf
  <2>2. keys[i] = keys[m]
    BY <1>5, <2>1
  <2> QED
    BY <1>2, <1>4, <2>2
<1>10. ExistsBijection(1..n, PeersOf(d))
  <2>1. f \in [1..n -> PeersOf(d)]
    <3>1. f = [m \in 1..n |-> f[m]]
      BY <1>3
    <3>2. \A m \in 1..n : f[m] \in PeersOf(d)
      BY <1>5, <1>8 DEF ToSet
    <3> QED
      BY <3>1, <3>2
  <2>2. IsInjective(f)
    BY <1>5, <1>9 DEF IsInjective
  <2>3. \A x \in PeersOf(d) : \E m \in 1..n : f[m] = x
    BY <1>5, <1>8 DEF ToSet
  <2>4. f \in Bijection(1..n, PeersOf(d))
    BY <2>1, <2>2, <2>3 DEF Bijection, Injection, Surjection
  <2> QED
    BY <2>4 DEF ExistsBijection
<1>11. Cardinality(PeersOf(d)) = n
  BY <1>4, <1>10, FS_CountingElements
<1> QED
  BY <1>6, <1>8, <1>11

(* The addresses of a peer, listed.                                        *)
LEMMA IPsListed ==
  ASSUME NEW d \in Device, NEW k
  PROVE  LET ips == SetToSeq(IPsOf(d, k)) IN
         /\ Len(ips) \in Nat /\ DOMAIN ips = 1..Len(ips)
         /\ {ips[i] : i \in 1..Len(ips)} = IPsOf(d, k)
         /\ ips = <<>> <=> IPsOf(d, k) = {}
<1> DEFINE S == IPsOf(d, k)
           ips == SetToSeq(S)
<1>1. IsFiniteSet(S)
  <2>1. S \subseteq IP
    BY DEF IPsOf
  <2> QED
    BY <2>1, FiniteData, FS_Subset
<1> HIDE DEF S
<1>2. /\ ips \in Seq(S)
      /\ \A x \in S : \E i \in DOMAIN ips : ips[i] = x
  BY <1>1, ListOfSet
<1> HIDE DEF ips
<1>3. Len(ips) \in Nat /\ DOMAIN ips = 1..Len(ips) /\ \A i \in 1..Len(ips) : ips[i] \in S
  BY <1>2, LenProperties
<1>4. {ips[i] : i \in 1..Len(ips)} = S
  BY <1>2, <1>3
<1>5. ips = <<>> <=> S = {}
  <2>1. ips = <<>> <=> Len(ips) = 0
    BY <1>2, EmptySeq
  <2>2. Len(ips) = 0 => S = {}
    BY <1>2, <1>3
  <2>3. S = {} => Len(ips) = 0
    <3> SUFFICES ASSUME S = {}, Len(ips) # 0 PROVE FALSE
      OBVIOUS
    <3>1. 1 \in 1..Len(ips)
      BY <1>3
    <3> QED
      BY <1>3, <3>1
  <2> QED
    BY <2>1, <2>2, <2>3
<1> QED
  BY <1>3, <1>4, <1>5 DEF S, ips

(* What the kernel writes for a peer, and where it is in the memory.       *)
ListOfIPs(d, k) == SetToSeq(IPsOf(d, k))
FirstCell(d, k) ==
  PeerCell(k, IF d.setting[k] # Default THEN d.setting[k] ELSE Unset, Len(ListOfIPs(d, k)),
           Has(d.setting[k] # Default, "setting"))

(* Its structure, and behind it one for each of its allowed IPs.           *)
LEMMA CellsOfPeer ==
  ASSUME NEW d \in Device, NEW k
  PROVE  /\ Indexed(PeerCells(d, k)) /\ Len(PeerCells(d, k)) = 1 + Len(ListOfIPs(d, k))
         /\ Len(ListOfIPs(d, k)) \in Nat
         /\ PeerCells(d, k)[1] = FirstCell(d, k)
         /\ \A i \in 1..Len(ListOfIPs(d, k)) : PeerCells(d, k)[1 + i] = IPCell(ListOfIPs(d, k)[i], {})
<1> DEFINE ips == ListOfIPs(d, k)
           o == <<FirstCell(d, k)>>
           f == [n \in 1..Len(ips) |-> IPCell(ips[n], {})]
<1>1. Len(ips) \in Nat /\ DOMAIN ips = 1..Len(ips)
  BY IPsListed DEF ListOfIPs
<1>2. PeerCells(d, k) = o \o f
  <2>1. DOMAIN SetToSeq(IPsOf(d, k)) = 1..Len(ips)
    BY <1>1 DEF ListOfIPs
  <2> QED
    BY <2>1 DEF PeerCells, FirstCell, ListOfIPs
<1>3. Indexed(f) /\ Len(f) = Len(ips) /\ \A i \in 1..Len(ips) : f[i] = IPCell(ips[i], {})
  <2>1. f = [n \in 1..Len(ips) |-> f[n]] /\ \A i \in 1..Len(ips) : f[i] = IPCell(ips[i], {})
    OBVIOUS
  <2> HIDE DEF f
  <2> QED
    BY <1>1, <2>1, ListIs
<1>4. Indexed(o) /\ Len(o) = 1 /\ o[1] = FirstCell(d, k)
  BY OneList
<1> HIDE DEF f, o
<1>5. /\ Indexed(o \o f) /\ Len(o \o f) = Len(o) + Len(f)
      /\ \A i \in 1..Len(o) : (o \o f)[i] = o[i]
      /\ \A i \in 1..Len(f) : (o \o f)[Len(o) + i] = f[i]
  <2>1. Indexed(o) /\ Indexed(f)
    BY <1>3, <1>4
  <2> QED
    BY ONLY <2>1, TwoLists
<1>6. 1 \in 1..Len(o)
  BY <1>4
<1> QED
  BY <1>1, <1>2, <1>3, <1>4, <1>5, <1>6

(* The counts lead to each peer, and to its allowed IPs.                   *)
LEMMA CellsInPlace ==
  ASSUME NEW d \in Device, NEW keys, keys = SetToSeq(d.peers), NEW n, n = Len(keys)
  PROVE  LET mem == DeviceCells(d) IN
         /\ DOMAIN PeerPlaces(mem) = 1..n
         /\ \A m \in 1..n :
              /\ PeerPlaces(mem)[m] \in Nat
              /\ At(mem, PeerPlaces(mem)[m]) = FirstCell(d, keys[m])
              /\ \A i \in 1..Len(ListOfIPs(d, keys[m])) :
                   At(mem, PeerPlaces(mem)[m] + i) = IPCell(ListOfIPs(d, keys[m])[i], {})
<1> DEFINE head == Interface(n, {})
           blk == [m \in 1..n |-> PeerCells(d, keys[m])]
           mem == Headed(head, blk)
<1>1. n \in Nat /\ DOMAIN keys = 1..n
  <2>1. IsFiniteSet(d.peers)
    <3>1. d.peers \subseteq Key
      BY DEF Device
    <3> QED
      BY <3>1, FiniteData, FS_Subset
  <2>2. keys \in Seq(d.peers)
    BY <2>1, ListOfSet
  <2> QED
    BY <2>2, LenProperties
<1>2. DeviceCells(d) = mem
  BY <1>1 DEF DeviceCells, Headed
<1>3. head.count = n
  BY CellParts
<1>4. Indexed(blk) /\ Len(blk) = n
  <2>1. blk = [m \in 1..n |-> blk[m]]
    OBVIOUS
  <2> HIDE DEF blk
  <2> QED
    BY <1>1, <2>1, ListIs
<1>5. \A m \in 1..n : blk[m] = PeerCells(d, keys[m])
  OBVIOUS
<1> HIDE DEF head, blk, mem
<1>6. ASSUME NEW m \in 1..n
      PROVE  Indexed(blk[m]) /\ blk[m][1].count \in Nat /\ Len(blk[m]) = 1 + blk[m][1].count
  <2> DEFINE w == PeerCells(d, keys[m])
             l == Len(ListOfIPs(d, keys[m]))
  <2>1. Indexed(w) /\ Len(w) = 1 + l /\ l \in Nat /\ w[1] = FirstCell(d, keys[m])
    BY CellsOfPeer
  <2>2. FirstCell(d, keys[m]).count = l
    BY CellParts DEF FirstCell
  <2>3. blk[m] = w
    BY <1>5
  <2> HIDE DEF w, l
  <2> QED
    BY <2>1, <2>2, <2>3
<1>7. AreLists(blk) /\ CountsIPs(blk)
  BY <1>4, <1>6 DEF AreLists, CountsIPs
<1>8. PeerPlaces(mem) = [m \in 1..n |-> 2 + PlaceIn(blk, m)]
  BY <1>3, <1>4, <1>7, WalkPlaces DEF mem
<1>9. \A m \in 1..n : Block(mem, blk, m)
  BY <1>4, <1>7, BlockPlaces DEF mem
<1>10. ASSUME NEW m \in 1..n
       PROVE  /\ PeerPlaces(mem)[m] \in Nat
              /\ At(mem, PeerPlaces(mem)[m]) = FirstCell(d, keys[m])
              /\ \A i \in 1..Len(ListOfIPs(d, keys[m])) :
                   At(mem, PeerPlaces(mem)[m] + i) = IPCell(ListOfIPs(d, keys[m])[i], {})
  <2> DEFINE w == PeerCells(d, keys[m])
             l == Len(ListOfIPs(d, keys[m]))
             z == PlaceIn(blk, m)
             y == PeerPlaces(mem)[m]
  <2>1. /\ Len(w) = 1 + l /\ l \in Nat /\ w[1] = FirstCell(d, keys[m])
        /\ \A i \in 1..l : w[1 + i] = IPCell(ListOfIPs(d, keys[m])[i], {})
    BY CellsOfPeer
  <2>2. z \in Nat /\ \A i \in 1..Len(w) : 1 + (z + i) \in DOMAIN mem /\ mem[1 + (z + i)] = w[i]
    BY <1>5, <1>9 DEF Block
  <2>3. y = 2 + z
    BY <1>8
  <2> HIDE DEF w, l, z, y
  <2>4. 1 \in 1..Len(w) /\ 1 + (z + 1) = y /\ y \in Nat
    BY <2>1, <2>2, <2>3
  <2>5. At(mem, y) = w[1]
    BY <2>2, <2>4 DEF At
  <2>6. ASSUME NEW i \in 1..l PROVE At(mem, y + i) = w[1 + i]
    <3>1. 1 + i \in 1..Len(w) /\ 1 + (z + (1 + i)) = y + i
      BY <2>1, <2>2, <2>3
    <3>2. 1 + (z + (1 + i)) \in DOMAIN mem /\ mem[1 + (z + (1 + i))] = w[1 + i]
      BY <2>2, <3>1
    <3> QED
      BY <3>1, <3>2 DEF At
  <2>7. At(mem, y) = FirstCell(d, keys[m])
       /\ \A i \in 1..l : At(mem, y + i) = IPCell(ListOfIPs(d, keys[m])[i], {})
    BY <2>1, <2>5, <2>6
  <2> QED
    BY <2>4, <2>7 DEF y, l
<1>11. DOMAIN PeerPlaces(mem) = 1..n
  BY <1>8
<1> QED
  BY <1>2, <1>10, <1>11

(* Windows and OpenBSD read the device that the kernel wrote.              *)
LEMMA CellsRead ==
  ASSUME NEW d \in Device, NEW f, f = ParseConfiguration(DeviceCells(d)) \/ f = ParseDevice(DeviceCells(d))
  PROVE  ToSet(f) = PeersOf(d) /\ Len(f) = Cardinality(PeersOf(d))
<1> DEFINE keys == SetToSeq(d.peers)
           n == Len(keys)
           mem == DeviceCells(d)
           place == PeerPlaces(mem)
<1>1. /\ DOMAIN place = 1..n
      /\ \A m \in 1..n :
              /\ place[m] \in Nat
              /\ At(mem, place[m]) = FirstCell(d, keys[m])
              /\ \A i \in 1..Len(ListOfIPs(d, keys[m])) :
                   At(mem, place[m] + i) = IPCell(ListOfIPs(d, keys[m])[i], {})
  BY CellsInPlace
<1> HIDE DEF keys, n, mem, place
<1>2. ASSUME NEW m \in 1..n
      PROVE  LET i == place[m]
                 cell == At(mem, i)
             IN  /\ cell.key = keys[m] /\ SettingIn(cell) = d.setting[keys[m]]
                 /\ {At(mem, i + q).ip : q \in 1..cell.count} = IPsOf(d, keys[m])
                 /\ {At(mem, i + 1 + q).ip : q \in 0..(cell.count - 1)} = IPsOf(d, keys[m])
  <2> DEFINE i == place[m]
             cell == At(mem, i)
             k == keys[m]
             ips == ListOfIPs(d, k)
             l == Len(ips)
  <2>1. /\ i \in Nat /\ cell = FirstCell(d, k) /\ \A q \in 1..l : At(mem, i + q) = IPCell(ips[q], {})
    BY <1>1
  <2>2. l \in Nat /\ {ips[q] : q \in 1..l} = IPsOf(d, k)
    BY IPsListed DEF ListOfIPs
  <2>3. cell.key = k /\ cell.count = l /\ SettingIn(cell) = d.setting[k]
    <3> HIDE DEF cell, k
    <3>1. /\ cell.key = k /\ cell.count = l
          /\ cell.setting = IF d.setting[k] # Default THEN d.setting[k] ELSE Unset
          /\ cell.flags = Has(d.setting[k] # Default, "setting")
      BY <2>1, CellParts DEF FirstCell
    <3> QED
      BY <3>1 DEF SettingIn, Has
  <2>4. \A q \in 1..l : At(mem, i + q).ip = ips[q]
    <3> SUFFICES ASSUME NEW q \in 1..l PROVE At(mem, i + q).ip = ips[q]
      OBVIOUS
    <3>1. At(mem, i + q) = IPCell(ips[q], {})
      BY <2>1
    <3>2. IPCell(ips[q], {}).ip = ips[q]
      BY CellParts
    <3> QED
      BY <3>1, <3>2
  <2> HIDE DEF i, cell, ips, l, k
  <2>5. {At(mem, i + q).ip : q \in 1..cell.count} = IPsOf(d, k)
    BY <2>2, <2>3, <2>4
  <2>6. {At(mem, i + 1 + q).ip : q \in 0..(cell.count - 1)} = {At(mem, i + q).ip : q \in 1..cell.count}
    <3> DEFINE A(x) == At(mem, x).ip
    <3>1. ASSUME NEW q \in 0..(l - 1) PROVE q + 1 \in 1..l /\ i + 1 + q = i + (q + 1)
      BY <2>1, <2>2
    <3>2. ASSUME NEW q \in 1..l PROVE q - 1 \in 0..(l - 1) /\ i + q = i + 1 + (q - 1)
      BY <2>1, <2>2
    <3> HIDE DEF A
    <3>3. {A(i + 1 + q) : q \in 0..(l - 1)} = {A(i + q) : q \in 1..l}
      <4>1. ASSUME NEW q \in 0..(l - 1) PROVE \E r \in 1..l : A(i + 1 + q) = A(i + r)
        <5>1. A(i + 1 + q) = A(i + (q + 1))
          BY <3>1
        <5> QED
          BY <3>1, <5>1
      <4>2. ASSUME NEW q \in 1..l PROVE \E r \in 0..(l - 1) : A(i + q) = A(i + 1 + r)
        <5>1. A(i + q) = A(i + 1 + (q - 1))
          BY <3>2
        <5> QED
          BY <3>2, <5>1
      <4> QED
        BY <4>1, <4>2
    <3> QED
      BY <2>3, <3>3 DEF A
  <2> QED
    BY <2>3, <2>5, <2>6 DEF i, cell, k
<1>3. ParseConfiguration(mem) = [m \in 1..n |-> PeerOf(d, keys[m])]
  <2> DEFINE Allowed(i) == {At(mem, i + q).ip : q \in 1..At(mem, i).count}
             Peer(i) == [key |-> At(mem, i).key, setting |-> SettingIn(At(mem, i)), ips |-> Allowed(i)]
  <2>1. ParseConfiguration(mem) = [m \in DOMAIN place |-> Peer(place[m])]
    BY DEF ParseConfiguration, place
  <2>2. \A m \in 1..n : Peer(place[m]) = PeerOf(d, keys[m])
    BY <1>2 DEF PeerOf
  <2> HIDE DEF Peer
  <2> QED
    BY <1>1, <2>1, <2>2
<1>4. ParseDevice(mem) = [m \in 1..n |-> PeerOf(d, keys[m])]
  <2> DEFINE Allowed(i) == {At(mem, i + 1 + q).ip : q \in 0..(At(mem, i).count - 1)}
             Peer(i) == [key |-> At(mem, i).key, setting |-> SettingIn(At(mem, i)), ips |-> Allowed(i)]
  <2>1. ParseDevice(mem) = [m \in DOMAIN place |-> Peer(place[m])]
    BY DEF ParseDevice, place
  <2>2. \A m \in 1..n : Peer(place[m]) = PeerOf(d, keys[m])
    BY <1>2 DEF PeerOf
  <2> HIDE DEF Peer
  <2> QED
    BY <1>1, <2>1, <2>2
<1>5. f = [m \in 1..n |-> PeerOf(d, keys[m])]
  BY <1>3, <1>4 DEF mem
<1> QED
  BY <1>5, PeersInTurn DEF n, keys

(* So does FreeBSD.                                                        *)
ReadPeer(l) ==
  [key |-> l["public-key"],
   setting |-> IF "preshared-key" \in DOMAIN l THEN l["preshared-key"] ELSE Default,
   ips |-> IF "allowed-ips" \in DOMAIN l
             THEN {l["allowed-ips"][n]["ip"] : n \in DOMAIN l["allowed-ips"]} ELSE {}]

(* What is read in the list of a peer is the peer.                         *)
LEMMA ListOfPeer ==
  ASSUME NEW d \in Device, NEW k
  PROVE  ReadPeer(PeerList(d, k)) = PeerOf(d, k)
<1> DEFINE l == PeerList(d, k)
           ips == ListOfIPs(d, k)
           I == [m \in DOMAIN ips |-> [ip |-> ips[m]]]
           names == {"public-key"} \cup Has(d.setting[k] # Default, "preshared-key")
                    \cup Has(ips # <<>>, "allowed-ips")
           val(n) == CASE n = "public-key" -> k
                       [] n = "preshared-key" -> d.setting[k]
                       [] n = "allowed-ips" -> I
<1>1. l = [n \in names |-> val(n)]
  BY DEF PeerList, ListOfIPs
<1>2. "public-key" # "preshared-key" /\ "public-key" # "allowed-ips" /\ "preshared-key" # "allowed-ips"
  OBVIOUS
<1>3. /\ "public-key" \in names
      /\ "preshared-key" \in names <=> d.setting[k] # Default
      /\ "allowed-ips" \in names <=> ips # <<>>
  BY <1>2 DEF Has
<1>4. val("public-key") = k
  BY <1>2
<1>5. val("preshared-key") = d.setting[k]
  BY <1>2
<1>6. val("allowed-ips") = I
  BY <1>2
<1>7. /\ DOMAIN I = 1..Len(ips) /\ \A m \in 1..Len(ips) : I[m]["ip"] = ips[m]
      /\ {ips[i] : i \in 1..Len(ips)} = IPsOf(d, k)
      /\ ips = <<>> <=> IPsOf(d, k) = {}
  BY IPsListed DEF ListOfIPs
<1> HIDE DEF names, val, I, l, ips
<1>8. DOMAIN l = names /\ \A n \in names : l[n] = val(n)
  BY <1>1
<1>9. l["public-key"] = k
  BY <1>3, <1>4, <1>8
<1>10. (IF "preshared-key" \in DOMAIN l THEN l["preshared-key"] ELSE Default) = d.setting[k]
  BY <1>3, <1>5, <1>8
<1>11. (IF "allowed-ips" \in DOMAIN l
          THEN {l["allowed-ips"][n]["ip"] : n \in DOMAIN l["allowed-ips"]} ELSE {}) = IPsOf(d, k)
  <2>1. CASE ips = <<>>
    BY <1>3, <1>7, <1>8, <2>1
  <2>2. CASE ips # <<>>
    <3>1. "allowed-ips" \in DOMAIN l /\ l["allowed-ips"] = I
      BY <1>3, <1>6, <1>8, <2>2
    <3>2. {I[n]["ip"] : n \in DOMAIN I} = {ips[i] : i \in 1..Len(ips)}
      BY <1>7
    <3> QED
      BY <1>7, <3>1, <3>2
  <2> QED
    BY <2>1, <2>2
<1>12. ReadPeer(l) = PeerOf(d, k)
  BY <1>9, <1>10, <1>11 DEF ReadPeer, PeerOf
<1> QED
  BY <1>12 DEF l

(* And so in the list of all.                                              *)
LEMMA ListRead ==
  ASSUME NEW d \in Device, NEW f, f = ParseList(DeviceList(d))
  PROVE  ToSet(f) = PeersOf(d) /\ Len(f) = Cardinality(PeersOf(d))
<1> DEFINE keys == SetToSeq(d.peers)
           n == Len(keys)
           names == Has(keys # <<>>, "peers")
           P == [m \in 1..n |-> PeerList(d, keys[m])]
           list == DeviceList(d)
<1>1. keys \in Seq(d.peers) /\ n \in Nat /\ DOMAIN keys = 1..n
  <2>1. IsFiniteSet(d.peers)
    <3>1. d.peers \subseteq Key
      BY DEF Device
    <3> QED
      BY <3>1, FiniteData, FS_Subset
  <2>2. keys \in Seq(d.peers)
    BY <2>1, ListOfSet
  <2> QED
    BY <2>2, LenProperties
<1>2. list = [m \in names |-> P]
  BY <1>1 DEF DeviceList
<1>3. "peers" \in names <=> keys # <<>>
  BY DEF Has
<1>4. ParseList(list) = IF "peers" \in DOMAIN list
                          THEN [m \in DOMAIN list["peers"] |-> ReadPeer(list["peers"][m])] ELSE <<>>
  BY DEF ParseList, ReadPeer
<1>5. DOMAIN P = 1..n /\ \A m \in 1..n : ReadPeer(P[m]) = PeerOf(d, keys[m])
  BY ListOfPeer
<1> HIDE DEF names, P, list
<1>6. DOMAIN list = names /\ ("peers" \in names => list["peers"] = P)
  BY <1>2
<1>7. f = [m \in 1..n |-> PeerOf(d, keys[m])]
  <2>1. CASE keys = <<>>
    <3>1. f = <<>> /\ n = 0
      BY <1>1, <1>3, <1>4, <1>6, <2>1, EmptySeq DEF list
    <3>2. <<>> = [m \in 1..0 |-> PeerOf(d, keys[m])]
      OBVIOUS
    <3> QED
      BY <3>1, <3>2
  <2>2. CASE keys # <<>>
    <3>1. f = [m \in DOMAIN P |-> ReadPeer(P[m])]
      BY <1>3, <1>4, <1>6, <2>2 DEF list
    <3> QED
      BY <1>5, <3>1
  <2> QED
    BY <2>1, <2>2
<1> QED
  BY <1>7, PeersInTurn

(* What a read returns is true to a state of the host.                     *)
TrueTo(o, h) ==
  /\ h[o.name].path # None
  /\ ToSet(o.peers) = PeersOf(h[o.name].dev)
  /\ Len(o.peers) = Cardinality(PeersOf(h[o.name].dev))

OutNames(t) == {t.out[i].name : i \in DOMAIN t.out}
Todo(t) == {t.todo[i] : i \in DOMAIN t.todo}

(* A list that does not have its names yet.                                *)
Unlisted(t) ==
  \/ t.at \in {"range", "count", "fetch"}
  \/ t.at \in {"snapshot", "scan"} /\ t.name = NoName

(* Each device that was read is true to a state of its time, and is there  *)
(* once.                                                                   *)
Kept(t) ==
  /\ \E S : t.out \in Seq(S)
  /\ \A i \in DOMAIN t.out : t.out[i].name \in IfName /\ \E h \in t.had : TrueTo(t.out[i], h)
  /\ \A i, m \in DOMAIN t.out : t.out[i].name = t.out[m].name => i = m

(* A name is read, being read or going to be read, and only one of them;   *)
(* and what was there all the time is.                                     *)
NamesOnce(t) ==
  /\ os = "windows" => Todo(t) \subseteq IfName
  /\ OutNames(t) \cap Todo(t) = {}
  /\ \A i, m \in DOMAIN t.todo : t.todo[i] = t.todo[m] => i = m \/ t.todo[i] = NoName

Upcoming(t) ==
  /\ NamesOnce(t)
  /\ os = "windows" => t.name \in IfName
  /\ t.name \notin OutNames(t)
  /\ t.name \in Todo(t) => t.name = NoName
  /\ \A n \in IfName : Always(t, n) => n \in OutNames(t) \cup Todo(t) \cup {t.name}

Told(t) ==
  t.at # "idle" =>
    /\ Kept(t)
    /\ t.call.op # "Devices" /\ t.at # "done" => t.out = <<>>
    /\ t.call.op = "Devices" /\ t.at # "done" => IF Unlisted(t) THEN t.out = <<>> ELSE Upcoming(t)
    /\ t.call.op = "Devices" /\ t.at = "done" /\ t.result = "ok" =>
         \A n \in IfName : Always(t, n) => n \in OutNames(t)

(* The map that a list is going to go over is true to its time.            *)
Mapped(t) == t.at = "range" => \A n \in IfName : \E h \in Past(t) : cache[n] = PathIn(h, n)

(* A goroutine has seen what there is.                                     *)
Present(t) == t.at \notin {"idle", "done"} => adapter \in t.had

Telling ==
  /\ \A n \in IfName : adapter[n].dev \in Device
  /\ \A c \in Caller : Told(task[c]) /\ Mapped(task[c]) /\ Present(task[c])

(* A step that neither reads nor goes on to another name tells what was    *)
(* told.                                                                   *)
LEMMA ToldOn ==
  ASSUME NEW t, NEW u, SameCall(t, u), Told(t), u.out = t.out, u.todo = t.todo, u.name = t.name,
         t.at \notin {"idle", "done"}, u.at \notin {"idle", "done"},
         t.call.op = "Devices" => (Unlisted(u) <=> Unlisted(t))
  PROVE  Told(u)
<1>1. u.had = t.had /\ u.before = t.before /\ u.call = t.call
  BY DEF SameCall
<1>2. Past(u) = Past(t) /\ OutNames(u) = OutNames(t) /\ Todo(u) = Todo(t)
  BY <1>1 DEF Past, OutNames, Todo
<1>3. \A n : Always(u, n) <=> Always(t, n)
  BY <1>2, Zenon DEF Always
<1>4. Kept(u)
  BY <1>1 DEF Told, Kept
<1>5. Upcoming(t) => Upcoming(u)
  BY <1>2, <1>3 DEF Upcoming, NamesOnce
<1> QED
  BY <1>1, <1>4, <1>5 DEF Told

(* So does an end, unless it says that a list is complete.                 *)
LEMMA ToldEnd ==
  ASSUME NEW t, DOMAIN t = Fields, Told(t), t.at # "idle", NEW r,
         r = "ok" => t.call.op # "Devices"
  PROVE  Told(End(t, r))
<1> DEFINE u == End(t, r)
<1>1. u.at = "done" /\ u.result = r /\ \A f \in Fields \ {"at", "result"} : u[f] = t[f]
  BY EndIs
<1> HIDE DEF u
<1>2. u.out = t.out /\ u.had = t.had /\ u.call = t.call
  BY <1>1 DEF Fields
<1>3. Kept(u)
  BY <1>2 DEF Told, Kept
<1>4. Told(u)
  BY <1>1, <1>2, <1>3 DEF Told
<1> QED
  BY <1>4 DEF u

(* Between two devices of a list.                                          *)
Between(t) ==
  /\ Kept(t) /\ NamesOnce(t) /\ (\E S : t.todo \in Seq(S))
  /\ \A n \in IfName : Always(t, n) => n \in OutNames(t) \cup Todo(t)

(* The next name of a list is one that was left to do; after the last one  *)
(* the list is complete.                                                   *)
LEMMA ToldNext ==
  ASSUME NEW r, DOMAIN r = Fields, r.call.op = "Devices", Between(r)
  PROVE  /\ Told(NextDevice(r))
         /\ NextDevice(r).at \in {"done", "lookup", "get"} /\ NextDevice(r).had = r.had
         /\ NextDevice(r).before = r.before
<1> DEFINE u == NextDevice(r)
<1>1. CASE r.todo = <<>>
  <2>1. u = End(r, "ok")
    BY <1>1 DEF NextDevice
  <2>2. u.at = "done" /\ \A f \in Fields \ {"at", "result"} : u[f] = r[f]
    BY <2>1, EndIs
  <2> HIDE DEF u
  <2>3. u.out = r.out /\ u.had = r.had /\ u.before = r.before /\ u.call = r.call
    BY <2>2 DEF Fields
  <2>4. Past(u) = Past(r) /\ OutNames(u) = OutNames(r)
    BY <2>3 DEF Past, OutNames
  <2>5. \A n : Always(u, n) <=> Always(r, n)
    BY <2>4, Zenon DEF Always
  <2>6. Kept(u)
    BY <2>3 DEF Between, Kept
  <2>7. Todo(r) = {}
    <3>1. DOMAIN r.todo = {}
      BY <1>1
    <3> QED
      BY <3>1 DEF Todo
  <2>8. Told(u)
    BY <2>2, <2>3, <2>4, <2>5, <2>6, <2>7 DEF Told, Between
  <2> QED
    BY <2>2, <2>3, <2>8 DEF u
<1>2. CASE r.todo # <<>>
  <2>1. /\ DOMAIN u = Fields
        /\ u.at = (IF os = "windows" THEN "lookup" ELSE "get")
        /\ u.name = Head(r.todo) /\ u.todo = Tail(r.todo)
        /\ \A f \in Fields \ {"at", "name", "todo", "refreshed", "cap", "mem"} : u[f] = r[f]
    BY <1>2, NextIs
  <2> HIDE DEF u
  <2>2. u.out = r.out /\ u.had = r.had /\ u.before = r.before /\ u.call = r.call
    BY <2>1 DEF Fields
  <2>3. PICK S : r.todo \in Seq(S)
    BY DEF Between
  <2>4. /\ Len(Tail(r.todo)) = Len(r.todo) - 1 /\ Len(r.todo) \in Nat \ {0} /\ Tail(r.todo) \in Seq(S)
        /\ \A i \in 1..Len(Tail(r.todo)) : Tail(r.todo)[i] = r.todo[i + 1]
        /\ Head(r.todo) = r.todo[1]
    BY <1>2, <2>3
  <2>5. DOMAIN r.todo = 1..Len(r.todo) /\ DOMAIN u.todo = 1..(Len(r.todo) - 1)
    BY <2>1, <2>3, <2>4, LenProperties
  <2>6. u.name = r.todo[1] /\ 1 \in DOMAIN r.todo
    BY <2>1, <2>4, <2>5
  <2>7. \A i \in DOMAIN u.todo : i + 1 \in DOMAIN r.todo /\ i + 1 # 1 /\ u.todo[i] = r.todo[i + 1]
    BY <2>1, <2>4, <2>5
  <2>8. \A i \in DOMAIN r.todo : i = 1 \/ (i - 1 \in DOMAIN u.todo /\ r.todo[i] = u.todo[i - 1])
    <3> SUFFICES ASSUME NEW i \in DOMAIN r.todo, i # 1
                 PROVE i - 1 \in DOMAIN u.todo /\ r.todo[i] = u.todo[i - 1]
      OBVIOUS
    <3>1. i - 1 \in DOMAIN u.todo /\ (i - 1) + 1 = i
      BY <2>4, <2>5
    <3> QED
      BY <2>7, <3>1
  <2>9. Todo(u) \subseteq Todo(r) /\ u.name \in Todo(r)
    BY <2>6, <2>7 DEF Todo
  <2>10. Todo(r) \subseteq Todo(u) \cup {u.name}
    BY <2>6, <2>8 DEF Todo
  <2>11. u.name \in Todo(u) => u.name = NoName
    <3> SUFFICES ASSUME NEW i \in DOMAIN u.todo, u.todo[i] = u.name PROVE u.name = NoName
      BY DEF Todo
    <3>1. r.todo[i + 1] = r.todo[1] /\ i + 1 \in DOMAIN r.todo /\ i + 1 # 1
      BY <2>6, <2>7
    <3>2. r.todo[i + 1] = NoName
      BY <2>6, <3>1 DEF Between, NamesOnce
    <3> QED
      BY <2>6, <3>1, <3>2
  <2>12. OutNames(u) = OutNames(r) /\ Past(u) = Past(r)
    BY <2>2 DEF OutNames, Past
  <2>13. NamesOnce(u)
    <3>1. ASSUME NEW i \in DOMAIN u.todo, NEW m \in DOMAIN u.todo, u.todo[i] = u.todo[m]
          PROVE  i = m \/ u.todo[i] = NoName
      <4>1. /\ i + 1 \in DOMAIN r.todo /\ m + 1 \in DOMAIN r.todo
            /\ r.todo[i + 1] = r.todo[m + 1] /\ u.todo[i] = r.todo[i + 1]
        BY <2>7, <3>1
      <4>2. i + 1 = m + 1 \/ r.todo[i + 1] = NoName
        BY <4>1 DEF Between, NamesOnce
      <4>3. i \in Nat /\ m \in Nat
        BY <2>5, <2>4
      <4> QED
        BY <4>1, <4>2, <4>3
    <3> QED
      BY <2>9, <2>12, <3>1 DEF NamesOnce, Between
  <2>14. \A n : Always(u, n) <=> Always(r, n)
    BY <2>12, Zenon DEF Always
  <2>15. Upcoming(u)
    <3>1. \A n \in IfName : Always(u, n) => n \in OutNames(u) \cup Todo(u) \cup {u.name}
      BY <2>10, <2>12, <2>14 DEF Between
    <3>2. os = "windows" => u.name \in IfName
      BY <2>9 DEF Between, NamesOnce
    <3>3. u.name \notin OutNames(u)
      BY <2>9, <2>12 DEF Between, NamesOnce
    <3> QED
      BY <2>11, <2>13, <3>1, <3>2, <3>3 DEF Upcoming
  <2>16. Kept(u)
    BY <2>2 DEF Between, Kept
  <2>17. u.at \notin {"idle", "done"} /\ ~Unlisted(u) /\ u.at \in {"lookup", "get"}
    BY <2>1 DEF Unlisted
  <2>18. Told(u)
    BY <2>2, <2>15, <2>16, <2>17 DEF Told
  <2> QED
    BY <2>2, <2>17, <2>18 DEF u
<1> QED
  BY <1>1, <1>2

(* A device is delivered as it is.                                         *)
LEMMA ToldRead ==
  ASSUME Asking, Telling, NEW c \in Caller, task[c].at = "get", UpIn(adapter, task[c].name), NEW ps,
         ToSet(ps) = PeersOf(adapter[task[c].name].dev),
         Len(ps) = Cardinality(PeersOf(adapter[task[c].name].dev))
  PROVE  LET u == Delivered(task[c], ps) IN
         /\ Told(u) /\ u.at \in {"done", "lookup", "get"} /\ u.had = task[c].had
<1> DEFINE t == task[c]
           o == [name |-> t.name, peers |-> ps]
           read == [t EXCEPT !.out = Append(@, o)]
<1>1. DOMAIN t = Fields /\ TaskForm(t) /\ Told(t) /\ adapter \in t.had
  BY FieldsOf DEF Asking, Telling, Present
<1>2. DOMAIN read = Fields /\ read.out = Append(t.out, o) /\ \A f \in Fields \ {"out"} : read[f] = t[f]
  BY <1>1 DEF Fields
<1>3. Delivered(t, ps) = CASE t.call.op = "Devices" -> NextDevice(read)
                           [] t.call.op = "Device" -> End(read, "ok")
                           [] OTHER -> End(t, "readonly")
  BY DEF Delivered
<1>4. o.name = t.name /\ o.peers = ps
  OBVIOUS
<1> HIDE DEF read, o
<1>5. /\ read.had = t.had /\ read.before = t.before /\ read.call = t.call /\ read.todo = t.todo
      /\ read.name = t.name /\ read.at = t.at
  BY <1>2 DEF Fields
<1>6. TrueTo(o, adapter) /\ o.name \in IfName
  BY <1>4 DEF TrueTo, UpIn
<1>7. PICK S : t.out \in Seq(S)
  BY <1>1 DEF Told, Kept
<1> DEFINE l == Len(t.out)
<1>8. /\ l \in Nat /\ DOMAIN t.out = 1..l /\ DOMAIN read.out = 1..(l + 1)
      /\ read.out[l + 1] = o /\ \A i \in 1..l : read.out[i] = t.out[i]
      /\ read.out \in Seq(S \cup {o})
  <2>1. t.out \in Seq(S \cup {o}) /\ o \in S \cup {o}
    BY <1>7, WiderSeq
  <2>2. /\ Append(t.out, o) \in Seq(S \cup {o}) /\ Len(Append(t.out, o)) = l + 1
        /\ Append(t.out, o)[l + 1] = o /\ \A i \in 1..l : Append(t.out, o)[i] = t.out[i]
    BY <2>1, AppendProperties
  <2> QED
    BY <1>2, <1>7, <2>2, LenProperties
<1> HIDE DEF l
<1>9. l + 1 \in 1..(l + 1) /\ \A i \in 1..(l + 1) : i = l + 1 \/ i \in 1..l
  BY <1>8
<1>10. \A i \in 1..l : i \in 1..(l + 1)
  BY <1>8
<1>11. OutNames(read) = OutNames(t) \cup {t.name}
  BY <1>4, <1>8, <1>9, <1>10 DEF OutNames
<1>12. ASSUME t.name \notin OutNames(t) PROVE Kept(read)
  <2>1. ASSUME NEW i \in DOMAIN read.out
        PROVE  read.out[i].name \in IfName /\ \E h \in read.had : TrueTo(read.out[i], h)
    <3>1. CASE i = l + 1
      BY <1>1, <1>5, <1>6, <1>8, <3>1
    <3>2. CASE i \in 1..l
      BY <1>1, <1>5, <1>8, <3>2 DEF Told, Kept
    <3> QED
      BY <1>8, <1>9, <2>1, <3>1, <3>2
  <2>2. ASSUME NEW i \in DOMAIN read.out, NEW m \in DOMAIN read.out, read.out[i].name = read.out[m].name
        PROVE  i = m
    <3>1. \A q \in 1..l : t.out[q].name # t.name
      BY <1>8, <1>12 DEF OutNames
    <3>2. CASE i = l + 1 /\ m \in 1..l
      BY <1>4, <1>8, <2>2, <3>1, <3>2
    <3>3. CASE i \in 1..l /\ m = l + 1
      BY <1>4, <1>8, <2>2, <3>1, <3>3
    <3>4. CASE i \in 1..l /\ m \in 1..l
      BY <1>1, <1>8, <2>2, <3>4 DEF Told, Kept
    <3> QED
      BY <1>8, <1>9, <2>2, <3>2, <3>3, <3>4
  <2> QED
    BY <1>8, <2>1, <2>2 DEF Kept
<1>13. Past(read) = Past(t) /\ Todo(read) = Todo(t)
  BY <1>5 DEF Past, Todo
<1>14. \A n : Always(read, n) <=> Always(t, n)
  BY <1>13, Zenon DEF Always
<1>15. CASE t.call.op = "Devices"
  <2>1. Upcoming(t)
    BY <1>1, <1>15 DEF Told, Unlisted
  <2>2. t.name # NoName
    BY IoctlTypes DEF UpIn
  <2>3. NamesOnce(read)
    BY <1>5, <1>11, <1>13, <2>1, <2>2 DEF NamesOnce, Upcoming
  <2>4. \A n \in IfName : Always(read, n) => n \in OutNames(read) \cup Todo(read)
    BY <1>11, <1>13, <1>14, <2>1 DEF Upcoming
  <2>5. \E Q : read.todo \in Seq(Q)
    BY <1>1, <1>5, <1>15 DEF TaskForm
  <2>6. Kept(read)
    BY <1>12, <2>1 DEF Upcoming
  <2>7. Between(read)
    BY <2>3, <2>4, <2>5, <2>6 DEF Between
  <2>8. Delivered(t, ps) = NextDevice(read)
    BY <1>3, <1>15
  <2>9. read.call.op = "Devices"
    BY <1>5, <1>15
  <2> QED
    BY <1>2, <1>5, <2>7, <2>8, <2>9, ToldNext
<1>16. CASE t.call.op = "Device"
  <2>1. t.out = <<>>
    BY <1>1, <1>16 DEF Told
  <2>2. OutNames(t) = {}
    <3>1. DOMAIN t.out = {}
      BY <2>1
    <3> QED
      BY <3>1 DEF OutNames
  <2>3. Kept(read)
    BY <1>12, <2>2
  <2> DEFINE u == End(read, "ok")
  <2>4. u.at = "done" /\ \A f \in Fields \ {"at", "result"} : u[f] = read[f]
    BY <1>2, EndIs
  <2>5. Delivered(t, ps) = u
    BY <1>3, <1>16
  <2> HIDE DEF u
  <2>6. u.out = read.out /\ u.had = t.had /\ u.call = t.call
    BY <1>5, <2>4 DEF Fields
  <2>7. Kept(u)
    BY <1>5, <2>3, <2>6 DEF Kept
  <2>8. Told(u)
    BY <1>16, <2>4, <2>6, <2>7 DEF Told
  <2> QED
    BY <2>4, <2>5, <2>6, <2>8
<1>17. CASE t.call.op \notin {"Devices", "Device"}
  <2> DEFINE u == End(t, "readonly")
  <2>1. Delivered(t, ps) = u
    BY <1>3, <1>17
  <2>2. u.at = "done" /\ \A f \in Fields \ {"at", "result"} : u[f] = t[f]
    BY <1>1, EndIs
  <2>3. Told(u)
    BY <1>1, ToldEnd
  <2> HIDE DEF u
  <2>4. u.had = t.had
    BY <2>2 DEF Fields
  <2> QED
    BY <2>1, <2>2, <2>3, <2>4
<1> QED
  BY <1>15, <1>16, <1>17

(* What a task tells does not depend on more than the system.              *)
LEMMA ToldPrimed ==
  ASSUME UNCHANGED os, NEW d \in Caller, Told(task'[d])
  PROVE  Told(task[d])'
<1>1. Kept(task[d])' <=> Kept(task'[d])
  BY DEF Kept, TrueTo
<1>2. Unlisted(task[d])' <=> Unlisted(task'[d])
  BY DEF Unlisted
<1>3. OutNames(task[d])' = OutNames(task'[d]) /\ Todo(task[d])' = Todo(task'[d])
  BY DEF OutNames, Todo
<1>4. \A n : Always(task[d], n)' <=> Always(task'[d], n)
  BY DEF Always, Past, UpIn
<1>5. NamesOnce(task[d])' <=> NamesOnce(task'[d])
  BY <1>3 DEF NamesOnce
<1>6. Upcoming(task[d])' <=> Upcoming(task'[d])
  BY <1>3, <1>4, <1>5 DEF Upcoming
<1> QED
  BY <1>1, <1>2, <1>3, <1>4, <1>6 DEF Told

(* A step of one goroutine keeps all this if its task keeps it.            *)
LEMMA TellingOn ==
  ASSUME Asking, Telling, UNCHANGED <<os, adapter, cache>>, NEW c \in Caller, NEW u,
         task' = [task EXCEPT ![c] = u], Told(u), Mapped(u), Present(u)
  PROVE  Telling'
<1>1. task'[c] = u /\ \A d \in Caller \ {c} : task'[d] = task[d]
  BY DEF Asking
<1>2. \A d \in Caller : Told(task'[d]) /\ Mapped(task'[d]) /\ Present(task'[d])
  BY <1>1 DEF Telling
<1>3. \A d \in Caller : Told(task[d])'
  BY <1>2, ToldPrimed
<1>4. \A d \in Caller : Mapped(task[d])' /\ Present(task[d])'
  BY <1>2 DEF Mapped, Present, Past, PathIn, UpIn
<1> QED
  BY <1>3, <1>4 DEF Telling

(* A task that sees more tells no less.                                    *)
LEMMA ToldSeen ==
  ASSUME NEW t, NEW u, DOMAIN t = Fields, SeenMore(t, u), Told(t)
  PROVE  Told(u) /\ adapter' \in u.had /\ u.at = t.at /\ Past(t) \subseteq Past(u)
<1>1. /\ u.at = t.at /\ u.out = t.out /\ u.todo = t.todo /\ u.name = t.name /\ u.call = t.call
      /\ u.result = t.result /\ u.before = t.before /\ u.had = t.had \cup {adapter'}
  BY DEF SeenMore, Fields
<1>2. Past(t) \subseteq Past(u)
  BY <1>1 DEF Past
<1>3. \A n : Always(u, n) => Always(t, n)
  BY <1>2 DEF Always
<1>4. OutNames(u) = OutNames(t) /\ Todo(u) = Todo(t) /\ (Unlisted(u) <=> Unlisted(t))
  BY <1>1 DEF OutNames, Todo, Unlisted
<1>5. Kept(t) => Kept(u)
  BY <1>1 DEF Kept
<1>6. Upcoming(t) => Upcoming(u)
  BY <1>1, <1>3, <1>4 DEF Upcoming, NamesOnce
<1> QED
  BY <1>1, <1>2, <1>3, <1>4, <1>5, <1>6 DEF Told

(* What happens to the host is seen by all calls, but one that has ended.  *)
LEMMA TellingSeen ==
  ASSUME Asking, Telling, UNCHANGED <<os, cache>>, NEW others,
         \A n \in IfName : adapter'[n].dev \in Device,
         \A d \in Caller : \/ Told(task'[d]) /\ task'[d].at = "done"
                           \/ task'[d] = Shown(others)[d] /\ d \in others
  PROVE  Telling'
<1>1. ASSUME NEW d \in Caller, task'[d] = Shown(others)[d], d \in others
      PROVE  /\ Told(task'[d])
             /\ task'[d].at \notin {"idle", "done"} => adapter' \in task'[d].had
             /\ task'[d].at = "range" => \A n \in IfName : \E h \in Past(task'[d]) : cache[n] = PathIn(h, n)
  <2>1. DOMAIN task[d] = Fields /\ Told(task[d]) /\ Mapped(task[d])
    BY FieldsOf DEF Asking, Telling
  <2>2. CASE ~InCall(d)
    <3>1. task'[d] = task[d] /\ task[d].at = "idle"
      BY <1>1, <2>1, <2>2, ShownIs DEF InCall
    <3> QED
      BY <2>1, <3>1
  <2>3. CASE InCall(d)
    <3>1. SeenMore(task[d], task'[d])
      BY <1>1, <2>1, <2>3, ShownIs
    <3>2. /\ Told(task'[d]) /\ adapter' \in task'[d].had /\ task'[d].at = task[d].at
          /\ Past(task[d]) \subseteq Past(task'[d])
      BY <2>1, <3>1, ToldSeen
    <3> QED
      BY <2>1, <3>2 DEF Mapped
  <2> QED
    BY <2>2, <2>3
<1>2. ASSUME NEW d \in Caller
      PROVE  Told(task[d])' /\ Mapped(task[d])' /\ Present(task[d])'
  <2>1. /\ Told(task'[d])
        /\ task'[d].at \notin {"idle", "done"} => adapter' \in task'[d].had
        /\ task'[d].at = "range" => \A n \in IfName : \E h \in Past(task'[d]) : cache[n] = PathIn(h, n)
    BY <1>1
  <2>2. Told(task[d])'
    BY <2>1, ToldPrimed
  <2>3. Mapped(task[d])'
    BY <2>1 DEF Mapped, Past, PathIn, UpIn
  <2> QED
    BY <2>1, <2>2, <2>3 DEF Present
<1> QED
  BY <1>2 DEF Telling

(* A step that is Local and goes on.                                       *)
LEMMA TellingLocal ==
  ASSUME Asking, Telling, NEW c \in Caller, NEW from, from \notin {"idle", "done"}, NEW u,
         Local(c, from, u), Told(u), u.had = task[c].had, u.at # "range"
  PROVE  Telling'
<1>1. task' = [task EXCEPT ![c] = u] /\ UNCHANGED <<os, adapter, cache>> /\ task[c].at = from
  BY DEF Local, Becomes, host, client
<1>2. adapter \in u.had
  BY <1>1 DEF Telling, Present
<1>3. Mapped(u) /\ Present(u)
  BY <1>2 DEF Mapped, Present
<1> QED
  BY <1>1, <1>3, TellingOn

(* An end of a call that is not a list, or not a good end.                 *)
LEMMA TellingEnd ==
  ASSUME Asking, Telling, NEW c \in Caller, NEW from, from # "idle", NEW r,
         Local(c, from, End(task[c], r)), r = "ok" => task[c].call.op # "Devices"
  PROVE  Telling'
<1> DEFINE u == End(task[c], r)
<1>1. task' = [task EXCEPT ![c] = u] /\ UNCHANGED <<os, adapter, cache>> /\ task[c].at = from
  BY DEF Local, Becomes, host, client
<1>2. DOMAIN task[c] = Fields /\ Told(task[c])
  BY FieldsOf DEF Asking, Telling
<1>3. Told(u) /\ u.at = "done"
  BY <1>1, <1>2, EndIs, ToldEnd
<1> HIDE DEF u
<1>4. Mapped(u) /\ Present(u)
  BY <1>3 DEF Mapped, Present
<1> QED
  BY <1>1, <1>3, <1>4, TellingOn

(* A step that reads nothing.                                              *)
LEMMA TellingGoesOn ==
  ASSUME Asking, Telling, NEW c \in Caller, NEW from, from \notin {"idle", "done"}, NEW u,
         Local(c, from, u), DOMAIN u = Fields,
         \A f \in {"call", "name", "todo", "out", "had", "before", "hurt", "stale"} : u[f] = task[c][f],
         u.at \notin {"idle", "done", "range"},
         task[c].call.op = "Devices" => (Unlisted(u) <=> Unlisted(task[c]))
  PROVE  Telling'
<1>1. task[c].at = from
  BY DEF Local, Becomes
<1>2. DOMAIN task[c] = Fields /\ Told(task[c])
  BY FieldsOf DEF Asking, Telling
<1>3. SameCall(task[c], u) /\ u.out = task[c].out /\ u.todo = task[c].todo /\ u.name = task[c].name
  BY <1>2 DEF SameCall
<1>4. Told(u)
  BY <1>1, <1>2, <1>3, ToldOn
<1>5. u.had = task[c].had
  BY <1>3 DEF SameCall
<1> QED
  BY <1>4, <1>5, TellingLocal

(* A call begins with nothing read.                                        *)
LEMMA TellingBegin ==
  ASSUME Asking, Telling, NEW c \in Caller, IoctlBegin(c)
  PROVE  Telling'
<1> DEFINE call == Head(plan[c])
           old == UNION {task[d].had \cup task[d].before : d \in {e \in Caller : InCall(e) /\ os = "windows"}}
           u == [Idle EXCEPT !.at = FirstStep(call), !.call = call, !.name = call.name,
                   !.checks = IF call.op = "Configure" THEN UpdateOnlys(call.cfg) ELSE 0,
                   !.had = {adapter}, !.hurt = denied, !.stale = \E n \in IfName : Outdated(n),
                   !.before = old]
<1>1. /\ task' = [task EXCEPT ![c] = u] /\ plan[c] # <<>>
      /\ UNCHANGED <<os, adapter, cache>>
  BY DEF IoctlBegin, Becomes, host, client
<1>2. IsCall(call)
  <2>1. PICK S : plan[c] \in Seq(S) /\ \A x \in S : IsCall(x)
    BY DEF Asking, Planned
  <2>2. Head(plan[c]) \in S
    BY <1>1, <2>1
  <2> QED
    BY <2>1, <2>2
<1> HIDE DEF call, old
<1>3. /\ u.at = FirstStep(call) /\ u.call = call /\ u.name = call.name /\ u.had = {adapter} /\ u.out = <<>>
  BY DEF Idle, Fields
<1> HIDE DEF u
<1>4. call.op = "Devices" => call.name = NoName /\ u.at \in {"snapshot", "count"}
  BY <1>2, <1>3 DEF IsCall, FirstStep
<1>5. u.at \in {"snapshot", "count", "check", "lookup", "get"}
  BY <1>3 DEF FirstStep
<1>6. Kept(u)
  <2>1. u.out \in Seq({}) /\ DOMAIN u.out = {}
    BY <1>3
  <2> QED
    BY <2>1 DEF Kept
<1>7. Told(u)
  BY <1>3, <1>4, <1>5, <1>6 DEF Told, Unlisted
<1>8. Mapped(u) /\ Present(u)
  BY <1>3, <1>5 DEF Mapped, Present
<1> QED
  BY <1>1, <1>7, <1>8, TellingOn

(* Publish: the map is true to what all calls have seen.                   *)
LEMMA TellingPublish ==
  ASSUME Asking, Telling, NEW c \in Caller, Publish(c)
  PROVE  Telling'
<1> DEFINE t == task[c]
           u == [t EXCEPT !.at = IF t.name = NoName THEN "range" ELSE "lookup",
                          !.found = Idle.found, !.refreshed = TRUE]
<1>1. /\ t.at = "scan" /\ InCall(c) /\ t.scan = {} /\ task' = [task EXCEPT ![c] = u]
      /\ cache' = t.found /\ UNCHANGED <<os, adapter>>
  BY DEF Publish, Becomes, InCall, host
<1>2. TaskForm(t) /\ DOMAIN t = Fields /\ Scanned(t) /\ Told(t) /\ adapter \in t.had
  BY <1>1, Knows DEF Telling, Present
<1>3. os = "windows"
  BY <1>1, <1>2, OnWindows
<1>4. /\ DOMAIN u = Fields /\ u.at = (IF t.name = NoName THEN "range" ELSE "lookup")
      /\ \A f \in Fields \ {"at", "found", "refreshed"} : u[f] = t[f]
  BY <1>2 DEF Fields
<1> HIDE DEF u
<1>5. SameCall(t, u) /\ u.name = t.name /\ u.todo = t.todo /\ u.out = t.out
  BY <1>2, <1>4 DEF SameCall, Fields
<1>6. Told(u)
  <2>1. Unlisted(u) <=> Unlisted(t)
    BY <1>1, <1>4 DEF Unlisted
  <2>2. u.at \notin {"idle", "done"}
    BY <1>4
  <2> QED
    BY <1>1, <1>2, <1>5, <2>1, <2>2, ToldOn
<1>7. \A n \in IfName : \E h \in t.had : cache'[n] = PathIn(h, n)
  BY <1>1, <1>2 DEF Scanned
<1>8. task'[c] = u /\ (\A d \in Caller \ {c} : task'[d] = task[d])
  BY <1>1 DEF Asking
<1>9. ASSUME NEW d \in Caller, task'[d].at = "range", NEW n \in IfName
      PROVE  \E g \in Past(task'[d]) : cache'[n] = PathIn(g, n)
  <2>1. PICK h \in t.had : cache'[n] = PathIn(h, n)
    BY <1>7
  <2>2. CASE d = c
    BY <2>1, <2>2, <1>5, <1>8 DEF Past, SameCall
  <2>3. CASE d # c
    <3>1. InCall(d) /\ task'[d] = task[d]
      BY <2>3, <1>8, <1>9 DEF InCall
    <3>2. PICK g \in Past(task[d]) : Alike(h, g)
      BY <3>1, <1>1, <1>3, <2>1 DEF Asking, Witnessed
    <3> QED
      BY <3>1, <3>2, <2>1, AlikeUp
  <2> QED
    BY <2>2, <2>3
<1>10. ASSUME NEW d \in Caller PROVE Told(task[d])' /\ Mapped(task[d])' /\ Present(task[d])'
  <2>1. Told(task'[d])
    BY <1>6, <1>8 DEF Telling
  <2>2. task'[d].at \notin {"idle", "done"} => adapter \in task'[d].had
    <3>1. CASE d = c
      BY <3>1, <1>2, <1>5, <1>8 DEF SameCall
    <3>2. CASE d # c
      BY <3>2, <1>8 DEF Telling, Present
    <3> QED
      BY <3>1, <3>2
  <2>3. Told(task[d])'
    BY <1>1, <2>1, ToldPrimed
  <2>4. Mapped(task[d])'
    BY <1>9 DEF Mapped, Past, PathIn, UpIn
  <2>5. Present(task[d])'
    BY <1>1, <2>2 DEF Present
  <2> QED
    BY <2>3, <2>4, <2>5
<1> QED
  BY <1>1, <1>10 DEF Telling

(* The steps of a call before it reads, and its ends.                      *)
LEMMA TellingSearch ==
  ASSUME Asking, Telling, NEW c \in Caller, Snapshot(c) \/ Scan(c) \/ Lookup(c)
  PROVE  Telling'
<1> DEFINE t == task[c]
<1>0. DOMAIN t = Fields /\ TaskForm(t) /\ Told(t)
  BY FieldsOf DEF Asking, Telling
<1>1. CASE Snapshot(c)
  <2> DEFINE u == [t EXCEPT !.at = "scan", !.found = Idle.found,
                           !.scan = {n \in IfName : adapter[n].path # None}]
  <2>1. Local(c, "snapshot", u) /\ t.at = "snapshot"
    BY <1>1 DEF Snapshot, Local, Becomes
  <2>2. /\ DOMAIN u = Fields /\ u.at = "scan"
        /\ \A f \in {"call", "name", "todo", "out", "had", "before", "hurt", "stale"} : u[f] = t[f]
    BY <1>0 DEF Fields
  <2> HIDE DEF u
  <2>3. Unlisted(u) <=> Unlisted(t)
    BY <2>1, <2>2 DEF Unlisted
  <2> QED
    BY <2>1, <2>2, <2>3, TellingGoesOn
<1>2. CASE Scan(c)
  <2>1. PICK n \in t.scan : Local(c, "scan", [t EXCEPT !.scan = @ \ {n},
                        !.found[n] = IF UpIn(adapter, n) THEN adapter[n].path ELSE None])
    BY <1>2 DEF Scan
  <2> DEFINE u == [t EXCEPT !.scan = @ \ {n}, !.found[n] = IF UpIn(adapter, n) THEN adapter[n].path ELSE None]
  <2>2. Local(c, "scan", u) /\ t.at = "scan"
    BY <2>1 DEF Local, Becomes
  <2>3. /\ DOMAIN u = Fields /\ u.at = "scan"
        /\ \A f \in {"call", "name", "todo", "out", "had", "before", "hurt", "stale"} : u[f] = t[f]
    BY <1>0, <2>2 DEF Fields
  <2> HIDE DEF u
  <2>4. Unlisted(u) <=> Unlisted(t)
    BY <2>2, <2>3 DEF Unlisted
  <2> QED
    BY <2>2, <2>3, <2>4, TellingGoesOn
<1>3. CASE Lookup(c)
  <2> DEFINE v == [t EXCEPT !.at = "open", !.path = cache[t.name]]
             w == [t EXCEPT !.at = "snapshot"]
  <2>1. PICK u : Local(c, "lookup", u) /\ (u = End(t, "missing") \/ u = v \/ u = w)
    BY <1>3, Zenon DEF Lookup
  <2>2. t.at = "lookup"
    BY <2>1 DEF Local, Becomes
  <2>3. os = "windows"
    BY <1>0, <2>2, OnWindows
  <2>4. /\ DOMAIN v = Fields /\ v.at = "open"
        /\ \A f \in {"call", "name", "todo", "out", "had", "before", "hurt", "stale"} : v[f] = t[f]
    BY <1>0 DEF Fields
  <2>5. /\ DOMAIN w = Fields /\ w.at = "snapshot"
        /\ \A f \in {"call", "name", "todo", "out", "had", "before", "hurt", "stale"} : w[f] = t[f]
    BY <1>0 DEF Fields
  <2> HIDE DEF v, w
  <2>6. CASE u = v
    <3>1. Unlisted(u) <=> Unlisted(t)
      BY <2>2, <2>4, <2>6 DEF Unlisted
    <3> QED
      BY <2>1, <2>4, <2>6, <3>1, TellingGoesOn
  <2>7. CASE u = w
    <3>1. t.call.op = "Devices" => t.name # NoName
      BY <1>0, <2>2, <2>3, IoctlTypes DEF Told, Unlisted, Upcoming
    <3>2. t.call.op = "Devices" => (Unlisted(u) <=> Unlisted(t))
      BY <2>2, <2>5, <2>7, <3>1 DEF Unlisted
    <3> QED
      BY <2>1, <2>5, <2>7, <3>2, TellingGoesOn
  <2>8. CASE u = End(t, "missing")
    BY <2>1, <2>8, TellingEnd
  <2> QED
    BY <2>1, <2>6, <2>7, <2>8
<1> QED
  BY <1>1, <1>2, <1>3

(* Open and OpenFails: the name stays.                                     *)
LEMMA TellingOpen ==
  ASSUME Asking, Telling, NEW c \in Caller, Open(c) \/ OpenFails(c)
  PROVE  Telling'
<1> DEFINE t == task[c]
           Goes(u) == /\ DOMAIN u = Fields /\ u.at \in {"get", "set", "lookup"}
                      /\ \A f \in {"call", "name", "todo", "out", "had", "before", "hurt", "stale"}
                            : u[f] = t[f]
<1>0. DOMAIN t = Fields
  BY FieldsOf DEF Asking
<1>1. ASSUME NEW m, NEW n
      PROVE Goes([t EXCEPT !.at = "set", !.mem = m]) /\ Goes([t EXCEPT !.at = "get", !.cap = n])
            /\ Goes([t EXCEPT !.at = "lookup"])
  BY <1>0 DEF Fields
<1> HIDE DEF Goes
<1>2. PICK u : Local(c, "open", u) /\ ((\E r \in {"missing", "failed"} : u = End(t, r)) \/ Goes(u))
  <2>1. CASE Open(c)
    <3> DEFINE v == [t EXCEPT !.at = "set", !.mem = BuildConfiguration(t.call.cfg)]
               w == [t EXCEPT !.at = "get", !.cap = IF guess = 0 THEN Guess0 ELSE guess]
    <3>1. PICK u : Local(c, "open", u) /\ (u = End(t, "missing") \/ u = v \/ u = w)
      BY <2>1, Zenon DEF Open
    <3> QED
      BY <1>1, <3>1
  <2>2. CASE OpenFails(c)
    <3>1. PICK u : Local(c, "open", u) /\ (u = End(t, "failed") \/ u = [t EXCEPT !.at = "lookup"])
      BY <2>2, Zenon DEF OpenFails
    <3> QED
      BY <1>1, <3>1
  <2> QED
    BY <2>1, <2>2
<1>3. t.at = "open"
  BY <1>2 DEF Local, Becomes
<1>4. CASE Goes(u)
  <2>1. Unlisted(u) <=> Unlisted(t)
    BY <1>3, <1>4 DEF Goes, Unlisted
  <2> QED
    BY <1>2, <1>4, <2>1, TellingGoesOn DEF Goes
<1>5. CASE \E r \in {"missing", "failed"} : u = End(t, r)
  BY <1>2, <1>5, TellingEnd
<1> QED
  BY <1>2, <1>4, <1>5

(* Count and Check: nothing has been read.                                 *)
LEMMA TellingCount ==
  ASSUME Asking, Telling, NEW c \in Caller, Count(c) \/ Check(c)
  PROVE  Telling'
<1> DEFINE t == task[c]
           Goes(u) == /\ DOMAIN u = Fields
                      /\ \A f \in {"call", "name", "todo", "out", "had", "before", "hurt", "stale"}
                            : u[f] = t[f]
<1>0. DOMAIN t = Fields /\ TaskForm(t)
  BY FieldsOf DEF Asking
<1>1. CASE Count(c)
  <2> DEFINE v == [t EXCEPT !.at = "fetch", !.slots = Cardinality(Members)]
  <2>1. PICK u : Local(c, "count", u) /\ (u = End(t, "missing") \/ u = v)
    BY <1>1, Zenon DEF Count
  <2>2. Goes(v) /\ v.at = "fetch"
    BY <1>0 DEF Fields
  <2> HIDE DEF v
  <2>3. t.at = "count"
    BY <2>1 DEF Local, Becomes
  <2>4. Unlisted(v) <=> Unlisted(t)
    BY <2>2, <2>3 DEF Unlisted
  <2>5. CASE u = v
    BY <2>1, <2>2, <2>4, <2>5, TellingGoesOn
  <2>6. CASE u = End(t, "missing")
    BY <2>1, <2>6, TellingEnd
  <2> QED
    BY <2>1, <2>5, <2>6
<1>2. CASE Check(c)
  <2> DEFINE v == [t EXCEPT !.at = "set", !.mem = UnparseConfig(t.call.cfg)]
             Repeats(u) == (\E n : u = [t EXCEPT !.checks = n, !.cap = 0]) \/ \E n : u = [t EXCEPT !.cap = n]
  <2>1. PICK u : Local(c, "check", u) /\ (u = End(t, "unsupported") \/ u = v \/ Repeats(u))
    <3> DEFINE dev0 == adapter[t.name].dev
    <3>1. Local(c, "check",
           CASE t.checks = 0 -> v
             [] t.checks > 0 /\ ~UpIn(adapter, t.name) -> [t EXCEPT !.checks = t.checks - 1, !.cap = 0]
             [] t.checks > 0 /\ UpIn(adapter, t.name) /\ Size(dev0) > t.cap -> [t EXCEPT !.cap = Size(dev0)]
             [] OTHER -> End(t, "unsupported"))
      BY <1>2, Zenon DEF Check
    <3> QED
      BY <3>1, Zenon
  <2>2. t.at = "check"
    BY <2>1 DEF Local, Becomes
  <2>3. t.call.op = "Configure"
    BY <1>0, <2>2 DEF TaskForm
  <2>4. Goes(v) /\ v.at = "set"
    BY <1>0 DEF Fields
  <2>5. ASSUME Repeats(u) PROVE Goes(u) /\ u.at = "check"
    BY <1>0, <2>2, <2>5 DEF Fields
  <2> HIDE DEF v, Repeats
  <2>6. CASE u = v \/ Repeats(u)
    <3>1. Goes(u) /\ u.at \in {"set", "check"}
      BY <2>4, <2>5, <2>6
    <3> QED
      BY <2>1, <2>3, <3>1, TellingGoesOn
  <2>7. CASE u = End(t, "unsupported")
    BY <2>1, <2>7, TellingEnd
  <2> QED
    BY <2>1, <2>6, <2>7
<1> QED
  BY <1>1, <1>2

(* What ends here is no list that went well.                               *)
LEMMA TellingEnds ==
  ASSUME Asking, Telling, NEW c \in Caller, IoctlReturn(c) \/ SystemFails(c)
  PROVE  Telling'
<1>1. CASE IoctlReturn(c)
  <2>1. task' = [task EXCEPT ![c] = Idle] /\ UNCHANGED <<os, adapter, cache>>
    BY <1>1 DEF IoctlReturn, Local, Becomes, host, client
  <2>2. Told(Idle) /\ Mapped(Idle) /\ Present(Idle)
    BY IdleFields DEF Told, Mapped, Present
  <2> QED
    BY <2>1, <2>2, TellingOn
<1>2. CASE SystemFails(c)
  <2>1. PICK from \in {"snapshot", "get", "set", "count", "fetch", "check"}, r \in {"failed", "unsupported"} :
          Local(c, from, End(task[c], r))
    BY <1>2 DEF SystemFails
  <2> QED
    BY <2>1, TellingEnd
<1> QED
  BY <1>1, <1>2

(* A list that has its names goes over them.                               *)
LEMMA TellingNames ==
  ASSUME Asking, Telling, NEW c \in Caller, NEW from \in {"range", "fetch"}, NEW r,
         Local(c, from, NextDevice(r)), DOMAIN r = Fields,
         \A f \in Fields \ {"todo"} : r[f] = task[c][f],
         \E S : r.todo \in Seq(S),
         os = "windows" => Todo(r) \subseteq IfName,
         \A i, m \in DOMAIN r.todo : r.todo[i] = r.todo[m] => i = m \/ r.todo[i] = NoName,
         \A n \in IfName : Always(r, n) => n \in Todo(r)
  PROVE  Telling'
<1> DEFINE t == task[c]
<1>1. t.at = from
  BY DEF Local, Becomes
<1>2. TaskForm(t) /\ Told(t) /\ t.call.op = "Devices"
  BY <1>1 DEF Asking, Telling, TaskForm
<1>3. r.call = t.call /\ r.out = t.out /\ r.had = t.had
  BY DEF Fields
<1>4. t.out = <<>>
  BY <1>1, <1>2 DEF Told, Unlisted
<1>5. OutNames(r) = {} /\ Kept(r)
  <2>1. r.out \in Seq({}) /\ DOMAIN r.out = {}
    BY <1>3, <1>4
  <2> QED
    BY <2>1 DEF OutNames, Kept
<1>6. Between(r)
  BY <1>5 DEF Between, NamesOnce
<1>7. Told(NextDevice(r)) /\ NextDevice(r).at \in {"done", "lookup", "get"} /\ NextDevice(r).had = t.had
  BY <1>2, <1>3, <1>6, ToldNext
<1> QED
  BY <1>7, TellingLocal

(* RangeCache: what was there all the time has a path in the map.          *)
LEMMA TellingRange ==
  ASSUME Asking, Telling, NEW c \in Caller, RangeCache(c)
  PROVE  Telling'
<1> DEFINE t == task[c]
           S == {n \in IfName : cache[n] # None}
           r == [t EXCEPT !.todo = SetToSeq(S)]
<1>1. Local(c, "range", NextDevice(r)) /\ t.at = "range"
  BY DEF RangeCache, Local, Becomes
<1>2. DOMAIN t = Fields /\ Mapped(t)
  BY FieldsOf DEF Asking, Telling
<1>3. IsFiniteSet(S) /\ S \subseteq IfName
  BY IoctlTypes, FS_Subset
<1>4. ASSUME NEW n \in IfName, Always(t, n) PROVE n \in S
  <2>1. PICK h \in Past(t) : cache[n] = PathIn(h, n)
    BY <1>1, <1>2 DEF Mapped
  <2> QED
    BY <1>4, <2>1 DEF Always, PathIn, UpIn
<1> HIDE DEF S
<1>5. DOMAIN r = Fields /\ r.todo = SetToSeq(S) /\ \A f \in Fields \ {"todo"} : r[f] = t[f]
  BY <1>2 DEF Fields
<1> HIDE DEF r
<1>6. /\ SetToSeq(S) \in Seq(S)
      /\ \A x \in S : \E i \in DOMAIN SetToSeq(S) : SetToSeq(S)[i] = x
      /\ \A i, m \in DOMAIN SetToSeq(S) : SetToSeq(S)[i] = SetToSeq(S)[m] => i = m
  BY <1>3, ListOfSet
<1>7. \A i \in DOMAIN SetToSeq(S) : SetToSeq(S)[i] \in S
  BY <1>6, LenProperties, ElementOfSeq
<1>8. Todo(r) = S
  BY <1>5, <1>6, <1>7 DEF Todo
<1>9. r.had = t.had /\ r.before = t.before
  BY <1>5 DEF Fields
<1>10. \A n \in IfName : Always(r, n) => n \in Todo(r)
  BY <1>4, <1>8, <1>9 DEF Always, Past
<1>11. \E Q : r.todo \in Seq(Q)
  BY <1>5, <1>6
<1>12. \A i, m \in DOMAIN r.todo : r.todo[i] = r.todo[m] => i = m \/ r.todo[i] = NoName
  BY <1>5, <1>6
<1> QED
  BY <1>1, <1>3, <1>5, <1>8, <1>10, <1>11, <1>12, TellingNames

(* Fetch: what was there all the time is a member; the rest of the slots   *)
(* is empty.                                                               *)
LEMMA TellingFetch ==
  ASSUME Asking, Telling, NEW c \in Caller, Fetch(c)
  PROVE  Telling'
<1> DEFINE t == task[c]
           n == Cardinality(Members)
           rest == [i \in 1..(t.slots - n) |-> NoName]
           list == SetToSeq(Members)
           r == [t EXCEPT !.todo = list \o rest]
<1>1. PICK u : Local(c, "fetch", u) /\ (u = End(t, "missing") \/ u = End(t, "failed")
                                        \/ (u = NextDevice(r) /\ ~(n > t.slots)))
  BY Zenon DEF Fetch
<1>2. CASE u = End(t, "missing") \/ u = End(t, "failed")
  BY <1>1, <1>2, TellingEnd
<1>3. CASE u = NextDevice(r) /\ ~(n > t.slots)
  <2>1. t.at = "fetch" /\ Local(c, "fetch", NextDevice(r))
    BY <1>1, <1>3 DEF Local, Becomes
  <2>2. DOMAIN t = Fields /\ TaskForm(t) /\ adapter \in t.had
    BY <2>1, FieldsOf DEF Asking, Telling, Present
  <2>3. os # "windows" /\ t.slots \in Nat
    BY <2>1, <2>2 DEF TaskForm, WindowsStages
  <2>4. n \in Nat /\ IsFiniteSet(Members)
    BY MembersFinite
  <2>5. /\ list \in Seq(Members)
        /\ \A x \in Members : \E i \in DOMAIN list : list[i] = x
        /\ \A i, m \in DOMAIN list : list[i] = list[m] => i = m
    BY <2>4, ListOfSet
  <2>6. t.slots - n \in Nat
    BY <1>3, <2>3, <2>4
  <2>7. rest \in Seq({NoName}) /\ Len(rest) = t.slots - n
    <3>1. rest \in [1..(t.slots - n) -> {NoName}]
      OBVIOUS
    <3>2. rest \in Seq({NoName})
      BY <2>6, <3>1
    <3> QED
      BY <3>1, <3>2, <2>6, LenProperties
  <2>8. DOMAIN r = Fields /\ r.todo = list \o rest /\ \A f \in Fields \ {"todo"} : r[f] = t[f]
    BY <2>2 DEF Fields
  <2> DEFINE a == Len(list)
             b == Len(rest)
             s == list \o rest
  <2>9. s \in Seq(Members \cup {NoName})
    <3>1. list \in Seq(Members \cup {NoName}) /\ rest \in Seq(Members \cup {NoName})
      BY <2>5, <2>7, WiderSeq
    <3> QED
      BY ONLY <3>1, ConcatProperties
  <2>10. /\ Len(s) = a + b /\ (\A i \in 1..a : s[i] = list[i])
         /\ \A i \in 1..b : s[a + i] = rest[i]
    <3>0. list \in Seq(Members \cup {NoName}) /\ rest \in Seq(Members \cup {NoName})
      BY <2>5, <2>7, WiderSeq
    <3>1. /\ Len(s) = Len(list) + Len(rest)
          /\ \A i \in 1..(Len(list) + Len(rest)) : s[i]
                   = IF i <= Len(list) THEN list[i] ELSE rest[i - Len(list)]
      BY ONLY <3>0, ConcatProperties
    <3>2. a \in Nat /\ b \in Nat
      BY <2>5, <2>7, LenProperties
    <3> HIDE DEF s, list, rest
    <3> QED
      BY <3>1, <3>2
  <2>11. a \in Nat /\ b \in Nat /\ DOMAIN list = 1..a /\ DOMAIN rest = 1..b /\ DOMAIN s = 1..(a + b)
    BY <2>5, <2>7, <2>9, <2>10, LenProperties
  <2>12. \A i \in 1..b : rest[i] = NoName
    BY <2>7, <2>11
  <2>13. \A i \in 1..a : list[i] \in Members
    BY <2>5, <2>11, ElementOfSeq
  <2> HIDE DEF s, list, rest, a, b, r
  <2>14. \A i \in 1..(a + b) : i \in 1..a \/ (i - a \in 1..b /\ a + (i - a) = i)
    BY <2>11
  <2>15. \A i \in DOMAIN s : (i \in 1..a /\ s[i] = list[i]) \/ s[i] = NoName
    BY <2>10, <2>11, <2>12, <2>14
  <2>16. \A i, m \in DOMAIN s : s[i] = s[m] => i = m \/ s[i] = NoName
    BY <2>5, <2>11, <2>15
  <2>17. r.todo = s /\ r.had = t.had
    BY <2>8 DEF Fields, s
  <2>18. ASSUME NEW x \in IfName, Always(r, x) PROVE x \in Todo(r)
    <3>1. x \in Members
      BY <2>2, <2>17, <2>18 DEF Always, Past, Members
    <3>2. PICK i \in 1..a : list[i] = x
      BY <2>5, <2>11, <3>1
    <3>3. i \in DOMAIN s /\ s[i] = x
      BY <2>10, <2>11, <3>2
    <3> QED
      BY <2>17, <3>3 DEF Todo
  <2>19. \E Q : r.todo \in Seq(Q)
    BY <2>9, <2>17
  <2>20. \A i, m \in DOMAIN r.todo : r.todo[i] = r.todo[m] => i = m \/ r.todo[i] = NoName
    BY <2>16, <2>17
  <2> QED
    BY <2>1, <2>3, <2>8, <2>18, <2>19, <2>20, TellingNames
<1> QED
  BY <1>1, <1>2, <1>3

(* An answer that says how much is needed, or the answer.                  *)
LEMMA TellingGet ==
  ASSUME Asking, Telling, NEW c \in Caller, GetWindows(c) \/ GetBSD(c)
  PROVE  Telling'
<1> DEFINE t == task[c]
           d == adapter[t.name].dev
           mem == DeviceCells(d)
<1>0. DOMAIN t = Fields /\ TaskForm(t) /\ Told(t)
  BY FieldsOf DEF Asking, Telling
<1>1. PICK u : /\ task' = [task EXCEPT ![c] = u] /\ UNCHANGED <<os, adapter, cache>> /\ t.at = "get"
               /\ \/ \E r \in {"failed", "missing"} : u = End(t, r)
                  \/ \E n : u = [t EXCEPT !.cap = n]
                  \/ /\ UpIn(adapter, t.name)
                     /\ \E ps \in {ParseConfiguration(mem), ParseDevice(mem), ParseList(DeviceList(d))}
                            : u = Delivered(t, ps)
  <2>1. CASE GetWindows(c)
    <3>1. Reachable(t) => UpIn(adapter, t.name)
      BY DEF Reachable
    <3> QED
      BY <2>1, <3>1, Zenon DEF GetWindows, Local, Becomes, host, client
  <2>2. CASE GetBSD(c)
    <3> DEFINE ps == IF os = "openbsd" THEN ParseDevice(mem) ELSE ParseList(DeviceList(d))
    <3>1. ps \in {ParseConfiguration(mem), ParseDevice(mem), ParseList(DeviceList(d))}
      BY Zenon
    <3>2. \/ Local(c, "get", End(t, "missing"))
          \/ Local(c, "get", [t EXCEPT !.cap = Len(mem)])
          \/ UpIn(adapter, t.name) /\ Local(c, "get", Delivered(t, ps))
      BY <2>2, Zenon DEF GetBSD
    <3> HIDE DEF ps
    <3> QED
      BY <3>1, <3>2, Zenon DEF Local, Becomes, host, client
  <2> QED
    BY <2>1, <2>2
<1>2. adapter \in t.had
  BY <1>1 DEF Telling, Present
<1>3. CASE \E r \in {"failed", "missing"} : u = End(t, r)
  <2>1. PICK r \in {"failed", "missing"} : u = End(t, r)
    BY <1>3
  <2>2. Told(u) /\ u.at = "done"
    BY <1>0, <1>1, <2>1, EndIs, ToldEnd
  <2> QED
    BY <1>1, <2>2, TellingOn DEF Mapped, Present
<1>4. CASE \E n : u = [t EXCEPT !.cap = n]
  <2>1. /\ DOMAIN u = Fields /\ u.at = "get" /\ u.had = t.had
        /\ \A f \in {"call", "name", "todo", "out", "had", "before", "hurt", "stale"} : u[f] = t[f]
    BY <1>0, <1>1, <1>4 DEF Fields
  <2>2. SameCall(t, u) /\ u.out = t.out /\ u.todo = t.todo /\ u.name = t.name
    BY <1>0, <2>1 DEF SameCall
  <2>3. Unlisted(u) <=> Unlisted(t)
    BY <1>1, <2>1 DEF Unlisted
  <2>4. Told(u)
    BY <1>0, <1>1, <2>1, <2>2, <2>3, ToldOn
  <2> QED
    BY <1>1, <1>2, <2>1, <2>4, TellingOn DEF Mapped, Present
<1>5. CASE /\ UpIn(adapter, t.name)
           /\ \E ps \in {ParseConfiguration(mem), ParseDevice(mem), ParseList(DeviceList(d))}
                  : u = Delivered(t, ps)
  <2>1. PICK ps \in {ParseConfiguration(mem), ParseDevice(mem), ParseList(DeviceList(d))}
               : u = Delivered(t, ps)
    BY <1>5
  <2>2. d \in Device
    BY <1>5 DEF Telling, UpIn
  <2>3. ToSet(ps) = PeersOf(d) /\ Len(ps) = Cardinality(PeersOf(d))
    <3> HIDE DEF d
    <3> QED
      BY <2>1, <2>2, CellsRead, ListRead
  <2>4. Told(u) /\ u.at \in {"done", "lookup", "get"} /\ u.had = t.had
    BY <1>1, <1>5, <2>1, <2>3, ToldRead
  <2> QED
    BY <1>1, <1>2, <2>4, TellingOn DEF Mapped, Present
<1> QED
  BY <1>1, <1>3, <1>4, <1>5

(* A configuration without the flag that FreeBSD's list cannot say.        *)
Plain(x) ==
  [replace |-> x.replace, peers |-> [m \in DOMAIN x.peers |-> [x.peers[m] EXCEPT !.updateOnly = FALSE]]]

(* The list is the same without it.                                        *)
LEMMA PlainSame ==
  ASSUME NEW x \in Config
  PROVE  /\ Plain(x) \in Config /\ \A m \in DOMAIN Plain(x).peers : ~Plain(x).peers[m].updateOnly
         /\ UnparseConfig(Plain(x)) = UnparseConfig(x)
<1> DEFINE n == Len(x.peers)
           P == [m \in 1..n |-> [x.peers[m] EXCEPT !.updateOnly = FALSE]]
           y == Plain(x)
<1>1. x.replace \in BOOLEAN /\ n \in Nat /\ DOMAIN x.peers = 1..n /\ \A m \in 1..n : x.peers[m] \in PeerConfig
  <2>1. x.peers \in Seq(PeerConfig) /\ x.replace \in BOOLEAN
    BY DEF Config
  <2> QED
    BY <2>1, LenProperties
<1>2. y.replace = x.replace /\ y.peers = P /\ y = [replace |-> x.replace, peers |-> P]
  BY <1>1 DEF Plain
<1>3. ASSUME NEW m \in 1..n
      PROVE  P[m] \in PeerConfig /\ ~P[m].updateOnly
             /\ UnparsePeerConfig(P[m]) = UnparsePeerConfig(x.peers[m])
  <2> DEFINE e == x.peers[m]
             f == [e EXCEPT !.updateOnly = FALSE]
  <2>1. e \in PeerConfig /\ P[m] = f
    BY <1>1
  <2>2. f \in PeerConfig
    BY <2>1 DEF PeerConfig
  <2>3. /\ f.key = e.key /\ f.remove = e.remove /\ f.setting = e.setting /\ f.replaceIPs = e.replaceIPs
        /\ f.ips = e.ips /\ f.ops = e.ops /\ f.updateOnly = FALSE
    BY <2>1 DEF PeerConfig
  <2> HIDE DEF f, e, P
  <2>4. UnparsePeerConfig(f) = UnparsePeerConfig(e)
    BY <2>3 DEF UnparsePeerConfig
  <2> QED
    BY <2>1, <2>2, <2>3, <2>4 DEF e
<1>4. DOMAIN P = 1..n
  OBVIOUS
<1> HIDE DEF P
<1>5. y \in Config
  <2>1. P \in Seq(PeerConfig)
    <3>1. P = [m \in 1..n |-> P[m]]
      BY <1>2, <1>4 DEF P
    <3>2. P \in [1..n -> PeerConfig]
      BY <1>3, <3>1
    <3> QED
      BY <1>1, <3>2
  <2> QED
    BY <1>1, <1>2, <2>1 DEF Config
<1>6. UnparseConfig(y) = UnparseConfig(x)
  <2>1. [m \in DOMAIN y.peers |-> UnparsePeerConfig(y.peers[m])]
         = [m \in DOMAIN x.peers |-> UnparsePeerConfig(x.peers[m])]
    BY <1>1, <1>2, <1>3, <1>4
  <2> QED
    BY <1>2, <2>1, Zenon DEF UnparseConfig
<1> QED
  BY <1>2, <1>3, <1>4, <1>5, <1>6

(* What is sent makes a device of a device.                                *)
LEMMA SentDevice ==
  ASSUME Asking, Carrying, NEW c \in Caller, task[c].at = "set", NEW d \in Device
  PROVE  SetDevice(d, Asked(task[c].mem)) \in Device
<1> DEFINE t == task[c]
           x == t.call.cfg
<1>1. TaskForm(t) /\ t.mem = Prepared(t.call)
  BY DEF Asking, Carrying, Holds
<1>2. x \in Config /\ os \in {"windows", "freebsd"}
  BY <1>1, SystemIs DEF TaskForm, IsCall
<1>3. PICK y \in Config : Asked(t.mem) = Message(y)
  <2>1. CASE os = "windows"
    BY <1>1, <1>2, <2>1, WindowsMessage DEF Asked, Prepared
  <2>2. CASE os = "freebsd"
    <3>1. Asked(t.mem) = ListMessage(UnparseConfig(Plain(x)))
      BY <1>1, <1>2, <2>2, PlainSame DEF Asked, Prepared
    <3>2. Plain(x) \in Config /\ ListMessage(UnparseConfig(Plain(x))) = Message(Plain(x))
      BY <1>2, PlainSame, FreeBSDMessage
    <3> QED
      BY <3>1, <3>2
  <2> QED
    BY <1>2, <2>1, <2>2
<1>4. /\ Message(y).peers \in Seq(Encoded)
      /\ SetDevice(d, Message(y)) = After(IF y.replace THEN NoPeers ELSE d, Message(y).peers)
  BY MessageDoes
<1>5. (IF y.replace THEN NoPeers ELSE d) \in Device
  BY EmptyDevice
<1>6. SetDevice(d, Message(y)) \in Device
  BY <1>4, <1>5, AfterSteps
<1> QED
  BY <1>3, <1>6

(* Set: the device is still one, and the others have seen it.              *)
LEMMA TellingSet ==
  ASSUME Asking, Carrying, Telling, NEW c \in Caller, Set(c)
  PROVE  Telling'
<1> DEFINE t == task[c]
<1>0. DOMAIN t = Fields /\ Told(t) /\ TaskForm(t) /\ t.at = "set"
  BY FieldsOf DEF Asking, Telling, Set
<1>1. t.call.op = "Configure" /\ UNCHANGED <<os, cache>>
  BY <1>0 DEF Set, TaskForm, client
<1>2. CASE There(t) /\ adapter' = [adapter EXCEPT ![t.name].dev = SetDevice(@, Asked(t.mem))]
           /\ task' = [Shown(Caller \ {c}) EXCEPT ![c] = End(t, "ok")]
  <2>1. task'[c] = End(t, "ok") /\ \A d \in Caller \ {c} : task'[d] = Shown(Caller \ {c})[d]
    BY <1>2 DEF Shown
  <2>2. Told(task'[c]) /\ task'[c].at = "done"
    BY <1>0, <1>1, <2>1, EndIs, ToldEnd
  <2>3. t.name \in IfName /\ DOMAIN adapter = IfName
    BY <1>2 DEF There, Reachable, UpIn, Asking, HostForm
  <2>4. \A n \in IfName : adapter'[n].dev \in Device
    <3>1. SetDevice(adapter[t.name].dev, Asked(t.mem)) \in Device
      BY <1>0, <2>3, SentDevice DEF Telling
    <3>2. DOMAIN adapter[t.name] = DOMAIN NoAdapter
      BY <2>3 DEF Asking, HostForm
    <3>3. adapter'[t.name].dev = SetDevice(adapter[t.name].dev, Asked(t.mem))
      BY <1>2, <2>3, <3>2 DEF NoAdapter
    <3>4. \A n \in IfName \ {t.name} : adapter'[n] = adapter[n]
      BY <1>2, <2>3
    <3> QED
      BY <3>1, <3>3, <3>4 DEF Telling
  <2>5. \A d \in Caller : \/ Told(task'[d]) /\ task'[d].at = "done"
                          \/ task'[d] = Shown(Caller \ {c})[d] /\ d \in Caller \ {c}
    BY <2>1, <2>2
  <2> QED
    BY <1>1, <2>4, <2>5, TellingSeen
<1>3. CASE UNCHANGED <<adapter, denied>>
            /\ task' = [task EXCEPT ![c] = End(t, IF os = "windows" THEN "failed" ELSE "missing")]
  <2> DEFINE u == End(t, IF os = "windows" THEN "failed" ELSE "missing")
  <2>1. Told(u) /\ u.at = "done"
    BY <1>0, <1>1, EndIs, ToldEnd
  <2>2. Mapped(u) /\ Present(u)
    BY <2>1 DEF Mapped, Present
  <2> QED
    BY <1>1, <1>3, <2>1, <2>2, TellingOn
<1> QED
  BY <1>2, <1>3 DEF Set

(* So it is with what happens.                                             *)
LEMMA TellingHappens ==
  ASSUME Asking, Telling, Happens \/ AdapterStarts
  PROVE  Telling'
<1>1. UNCHANGED <<os, cache>> /\ task' = Shown(Caller)
  BY DEF Happens, AdapterStarts, client
<1>2. DOMAIN adapter = IfName
      /\ \A n \in IfName : DOMAIN adapter[n] = DOMAIN NoAdapter /\ adapter[n].dev \in Device
  BY DEF Asking, HostForm, Telling
<1>3. NoAdapter.dev = NoPeers /\ NoPeers \in Device /\ Contents \subseteq Device
  BY EmptyDevice, IoctlTypes DEF NoAdapter
<1>4. ASSUME NEW n \in IfName, NEW x, adapter' = [adapter EXCEPT ![n] = x], x.dev \in Device, NEW m \in IfName
      PROVE  adapter'[m].dev \in Device
  BY <1>2, <1>4
<1>5. ASSUME NEW n \in IfName, Others(n) PROVE \A m \in IfName : adapter'[m].dev \in Device
  <2>1. CASE adapter' = [adapter EXCEPT ![n] = NoAdapter]
    BY <1>3, <1>4, <2>1
  <2>2. ASSUME NEW p0 \in Path, NEW d \in Contents,
               adapter' = [adapter EXCEPT ![n] = [path |-> p0, started |-> os # "windows", dev |-> d]]
        PROVE  \A m \in IfName : adapter'[m].dev \in Device
    <3> DEFINE x == [path |-> p0, started |-> os # "windows", dev |-> d]
    <3>1. x.dev = d
      OBVIOUS
    <3>2. adapter' = [adapter EXCEPT ![n] = x]
      BY <2>2
    <3> HIDE DEF x
    <3> QED
      BY <1>3, <1>4, <3>1, <3>2
  <2>3. ASSUME NEW d \in Contents, adapter' = [adapter EXCEPT ![n].dev = d]
        PROVE  \A m \in IfName : adapter'[m].dev \in Device
    <3>1. adapter' = [adapter EXCEPT ![n] = [adapter[n] EXCEPT !.dev = d]]
      BY <1>2, <2>3
    <3>2. [adapter[n] EXCEPT !.dev = d].dev \in Device
      BY <1>2, <1>3 DEF NoAdapter
    <3> QED
      BY <1>4, <3>1, <3>2
  <2> QED
    BY <1>5, <2>1, <2>2, <2>3 DEF Others
<1>6. ASSUME NEW n \in IfName, adapter' = [adapter EXCEPT ![n].started = TRUE]
      PROVE  \A m \in IfName : adapter'[m].dev \in Device
  <2>1. \A m \in IfName : adapter'[m].dev = adapter[m].dev
    BY <1>2, <1>6
  <2> QED
    BY <1>2, <2>1
<1>7. \A m \in IfName : adapter'[m].dev \in Device
  BY <1>2, <1>5, <1>6 DEF Happens, AdapterStarts
<1>8. \A d \in Caller : task'[d] = Shown(Caller)[d] /\ d \in Caller
  BY <1>1
<1> QED
  BY <1>1, <1>7, <1>8, TellingSeen

(* Every step keeps what the goroutines tell.                              *)
LEMMA TellingStep ==
  ASSUME Asking, Carrying, Telling, [IoctlNext]_ivars
  PROVE  Telling'
<1>1. ASSUME NEW c \in Caller, IoctlBegin(c) \/ IoctlStep(c) PROVE Telling'
  BY <1>1, TellingBegin, TellingEnds, TellingSearch, TellingPublish, TellingRange, TellingOpen,
     TellingGet, TellingCount, TellingFetch, TellingSet DEF IoctlStep
<1>2. ASSUME UNCHANGED ivars PROVE Telling'
  <2>1. UNCHANGED <<os, adapter, cache, task>>
    BY <1>2 DEF ivars, host, client
  <2>2. \A d \in Caller : Told(task'[d])
    BY <2>1 DEF Telling
  <2>3. \A d \in Caller : Told(task[d])'
    BY <2>1, <2>2, ToldPrimed
  <2> QED
    BY <2>1, <2>3 DEF Telling, Mapped, Present, Past, PathIn, UpIn
<1> QED
  BY <1>1, <1>2, TellingHappens DEF IoctlNext

(* At first nobody tells anything.                                         *)
LEMMA TellingAtFirst == IoctlInit => Telling
<1> SUFFICES ASSUME IoctlInit PROVE Telling
  OBVIOUS
<1>1. ASSUME NEW n \in IfName PROVE adapter[n].dev \in Device
  <2>1. adapter[n] \in {NoAdapter} \cup [path : Path, started : {TRUE}, dev : Contents]
    BY IoctlTypes DEF IoctlInit
  <2>2. NoAdapter.dev = NoPeers /\ NoPeers \in Device /\ Contents \subseteq Device
    BY EmptyDevice, IoctlTypes DEF NoAdapter
  <2>3. adapter[n] = NoAdapter \/ adapter[n].dev \in Contents
    BY <2>1
  <2> QED
    BY <2>2, <2>3
<1>2. \A c \in Caller : task[c] = Idle
  BY DEF IoctlInit
<1>3. Told(Idle) /\ Mapped(Idle) /\ Present(Idle)
  BY IdleFields DEF Told, Mapped, Present
<1> QED
  BY <1>1, <1>2, <1>3 DEF Telling

(* A read returns what the device was at one moment of the call, a list    *)
(* has every device that was there all the time, and none twice.           *)
THEOREM IoctlReadsAreTrue == IoctlInit /\ [][IoctlNext]_ivars => []IoctlTruthful
<1>1. Telling => IoctlTruthful
  <2> SUFFICES ASSUME Telling, NEW c \in Caller, Done(c), task[c].result = "ok"
               PROVE  LET out == task[c].out IN
                      /\ \A i \in DOMAIN out : \E h \in task[c].had : TrueTo(out[i], h)
                      /\ \A i, m \in DOMAIN out : out[i].name = out[m].name => i = m
                      /\ task[c].call.op = "Devices" =>
                           \A n \in IfName : (\A h \in History(c) : UpIn(h, n))
                               => \E i \in DOMAIN out : out[i].name = n
    BY DEF IoctlTruthful, TrueTo
  <2>1. Told(task[c]) /\ task[c].at = "done"
    BY DEF Telling, Done
  <2>2. Kept(task[c])
    BY <2>1 DEF Told
  <2>3. \A n \in IfName : (\A h \in History(c) : UpIn(h, n)) <=> Always(task[c], n)
    BY DEF History, Always, Past
  <2>4. task[c].call.op = "Devices" => \A n \in IfName : Always(task[c], n) => n \in OutNames(task[c])
    BY <2>1 DEF Told
  <2> QED
    BY <2>2, <2>3, <2>4 DEF Kept, OutNames
<1>2. IoctlInit => Carrying
  <2> SUFFICES ASSUME IoctlInit, NEW c \in Caller PROVE Holds(task[c])
    BY DEF Carrying
  <2> QED
    BY IdleFields DEF IoctlInit, Holds
<1> QED
  BY <1>1, <1>2, AskingAtFirst, AskingStep, CarryingStep, TellingAtFirst, TellingStep, PTL
=============================================================================
