-------------------------- MODULE ConfApplyProofs --------------------------
(***************************************************************************)
(* Proofs about ConfLoops and ConfApply.  First what the closed forms of   *)
(* ConfData return, for every configuration: the facts that the rest needs *)
(* of them.  Then that the two loops behind wgconf.Apply compute them,     *)
(* however long the configuration: the invariant is that the closed forms  *)
(* hold of the entries passed so far (ClosedForms), with what one loop has *)
(* left when the next has begun.                                           *)
(*                                                                         *)
(* Of ConfApply, TypesHold needs nothing of the constants but their types; *)
(* nor does SetconfLeavesNoStrays, where the names that are saved are      *)
(* computed from the peers that were read back and no others.              *)
(*                                                                         *)
(* The rest is for a device that only wgd uses while nothing fails         *)
(* (Undisturbed), for any number of handlers, interfaces and requests.     *)
(* There InStep is inductive (HandlersInStep): Server.mu makes the steps   *)
(* from a configuration to the saving of its names those of one task, and  *)
(* what the callback of Apply computes from the peers it read back names   *)
(* only those (NamesFollow).  Requests through one wgd are atomic          *)
(* (RequestsAreSerialised), and syncconf leaves exactly the peers that it  *)
(* names (SyncIsExact): both rest on InStep and on what a handler has in   *)
(* its hands when it configures the device, the configuration that was     *)
(* asked for, with the removals that are right at that moment (Accepted).  *)
(***************************************************************************)
EXTENDS ConfApply, ConfLoops, ListProofs, FunctionTheorems

(* Some entry is the last one that decides about a key, if any decides.    *)
LEMMA LastDecidesExists ==
  ASSUME NEW c \in Config, NEW ex, NEW k,
         \E j \in DOMAIN c.peers : Decides(c, ex, k, j)
  PROVE  \E j \in DOMAIN c.peers : LastDecides(c, ex, k, j)
<1> DEFINE S == {j \in DOMAIN c.peers : Decides(c, ex, k, j)}
<1>1. Len(c.peers) \in Nat /\ DOMAIN c.peers = 1..Len(c.peers)
  BY DEF Config
<1>2. S \in SUBSET (1..Len(c.peers)) /\ S # {}
  BY <1>1
<1> HIDE DEF S
<1>3. PICK j \in S : \A l \in S : j >= l
  BY <1>1, <1>2, LastIn
<1>4. \A l \in S : ~(l > j)
  BY <1>1, <1>2, <1>3
<1> QED
  BY <1>3, <1>4 DEF LastDecides, S

(* The callback leaves a map of names.                                     *)
LEMMA NamesAfterType ==
  ASSUME NEW c \in Config, NEW ex, NEW nm \in NameMap
  PROVE  NamesAfter(c, ex, nm) \in NameMap
<1> SUFFICES ASSUME NEW k \in Key
             PROVE  NamesAfter(c, ex, nm)[k] \in Name \cup {NoName}
  BY DEF NamesAfter, NameMap
<1>1. CASE \E j \in DOMAIN c.peers : Decides(c, ex, k, j)
  <2> DEFINE last == CHOOSE j \in DOMAIN c.peers : LastDecides(c, ex, k, j)
  <2>1. last \in DOMAIN c.peers /\ LastDecides(c, ex, k, last)
    BY <1>1, LastDecidesExists
  <2>2. c.peers[last] \in PeerConfig
    BY <2>1 DEF Config
  <2>3. NamesAfter(c, ex, nm)[k] = EntryName(c.peers[last])
    BY <1>1 DEF NamesAfter
  <2> QED
    BY <2>1, <2>2, <2>3 DEF LastDecides, Decides, EntryName, PeerConfig
<1>2. CASE ~\E j \in DOMAIN c.peers : Decides(c, ex, k, j)
  BY <1>2 DEF NamesAfter, NameMap
<1> QED
  BY <1>1, <1>2

(* Names that follow the peers of a device still do after a configuration  *)
(* was applied to both: the heart of NamesFollowDevice.                    *)
LEMMA NamesStayWithPeers ==
  ASSUME NEW c \in Config, NEW P \in SUBSET Key, NEW nm \in NameMap,
         Named(nm) \subseteq P
  PROVE  Named(NamesAfter(c, PeersAfter(c, P), nm)) \subseteq PeersAfter(c, P)
<1> DEFINE ex == PeersAfter(c, P)
<1> SUFFICES ASSUME NEW k \in Key, NamesAfter(c, ex, nm)[k] # NoName
             PROVE  k \in ex
  BY DEF Named
<1>1. CASE \E j \in DOMAIN c.peers : Decides(c, ex, k, j)
  <2> DEFINE last == CHOOSE j \in DOMAIN c.peers : LastDecides(c, ex, k, j)
  <2>1. last \in DOMAIN c.peers /\ LastDecides(c, ex, k, last)
    BY <1>1, LastDecidesExists
  <2>2. NamesAfter(c, ex, nm)[k] = EntryName(c.peers[last])
    BY <1>1 DEF NamesAfter
  <2> HIDE DEF ex, last
  <2> QED
    BY <2>1, <2>2 DEF LastDecides, Decides, EntryName
<1>2. CASE ~\E j \in DOMAIN c.peers : Decides(c, ex, k, j)
  <2>1. ~c.replace /\ nm[k] # NoName
    BY <1>2 DEF NamesAfter
  <2>2. k \in P
    BY <2>1 DEF Named
  <2>3. \A l \in DOMAIN c.peers : ~Removes(c, k, l)
    BY <1>2 DEF Decides, Removes
  <2> QED
    BY <2>1, <2>2, <2>3 DEF PeersAfter
<1> QED
  BY <1>1, <1>2

(* A setconf leaves only names of peers that Apply has seen on the device. *)
LEMMA ReplacedNames ==
  ASSUME NEW c \in Config, NEW ex \in SUBSET Key, NEW nm \in NameMap, c.replace
  PROVE  Named(NamesAfter(c, ex, nm)) \subseteq ex
<1> SUFFICES ASSUME NEW k \in Key, NamesAfter(c, ex, nm)[k] # NoName
             PROVE  k \in ex
  BY DEF Named
<1>1. \E j \in DOMAIN c.peers : Decides(c, ex, k, j)
  BY DEF NamesAfter
<1> DEFINE last == CHOOSE j \in DOMAIN c.peers : LastDecides(c, ex, k, j)
<1>2. last \in DOMAIN c.peers /\ LastDecides(c, ex, k, last)
  BY <1>1, LastDecidesExists
<1>3. NamesAfter(c, ex, nm)[k] = EntryName(c.peers[last])
  BY <1>1 DEF NamesAfter
<1> HIDE DEF last
<1> QED
  BY <1>2, <1>3 DEF LastDecides, Decides, EntryName

(* Sync adds removals to a configuration.                                  *)
LEMMA SyncType ==
  ASSUME NEW c \in Config, NEW P \in SUBSET Key
  PROVE  SyncPeerConfigs(c, P) \in Config
<1> DEFINE D == P \ Keys(c)
           f == [k \in D |-> Removal(k)]
           R == {Removal(k) : k \in D}
<1>1. ASSUME NEW k \in D PROVE Removal(k) \in PeerConfig
  BY DEF Removal, PeerConfig
<1>2. IsFiniteSet(R)
  <2>1. IsFiniteSet(D)
    BY FinitelyManyKeys, FS_Subset
  <2>2. f \in Surjection(D, R)
    BY DEF Surjection
  <2> HIDE DEF D, f, R
  <2> QED
    BY <2>1, <2>2, FS_Surjection
<1>3. SetToSeq(R) \in Seq(R)
  BY <1>2, ListOfSet
<1>4. R \subseteq PeerConfig
  BY <1>1
<1>5. SetToSeq(R) \in Seq(PeerConfig)
  <2> HIDE DEF R
  <2> QED
    BY <1>3, <1>4
<1>6. c.peers \o SetToSeq(R) \in Seq(PeerConfig)
  <2>1. c.peers \in Seq(PeerConfig)
    BY DEF Config
  <2> HIDE DEF R
  <2> QED
    BY <1>5, <2>1, ConcatProperties
<1>7. SyncPeerConfigs(c, P) = [c EXCEPT !.peers = c.peers \o SetToSeq(R)]
  BY DEF SyncPeerConfigs
<1> HIDE DEF R
<1> QED
  BY <1>6, <1>7 DEF Config
-----------------------------------------------------------------------------
(* The first entries of a configuration: those, and the same flag.         *)
LEMMA FirstEntriesParts ==
  ASSUME NEW c \in Config, NEW n \in 0..Len(c.peers)
  PROVE  /\ FirstEntries(c, n).replace = c.replace
         /\ DOMAIN FirstEntries(c, n).peers = 1..n
         /\ \A j \in 1..n : FirstEntries(c, n).peers[j] = c.peers[j]
<1>1. c.peers \in Seq(PeerConfig)
  BY DEF Config
<1>2. FirstEntries(c, n).peers = SubSeq(c.peers, 1, n)
  BY DEF FirstEntries, Config
<1>3. DOMAIN SubSeq(c.peers, 1, n) = 1..n
      /\ \A j \in 1..n : SubSeq(c.peers, 1, n)[j] = c.peers[j]
  BY <1>1
<1> QED
  BY <1>2, <1>3 DEF FirstEntries, Config

(* All entries are the configuration.                                      *)
LEMMA AllEntries ==
  ASSUME NEW c \in Config
  PROVE  FirstEntries(c, Len(c.peers)) = c
<1>1. c.peers \in Seq(PeerConfig)
  BY DEF Config
<1>2. SubSeq(c.peers, 1, Len(c.peers)) = c.peers
  BY <1>1
<1> QED
  BY <1>2 DEF FirstEntries, Config

(* Before the first entry only REPLACE_PEERS has been looked at.           *)
LEMMA NoEntries ==
  ASSUME NEW c \in Config, NEW P \in SUBSET Key, NEW ex, NEW nm \in NameMap
  PROVE  /\ PeersAfter(FirstEntries(c, 0), P) = IF c.replace THEN {} ELSE P
         /\ NamesAfter(FirstEntries(c, 0), ex, nm) = IF c.replace THEN NoNames ELSE nm
<1> DEFINE F == FirstEntries(c, 0)
<1>1. Len(c.peers) \in Nat
  BY DEF Config
<1>2. F.replace = c.replace /\ DOMAIN F.peers = {}
  BY <1>1, FirstEntriesParts
<1> HIDE DEF F
<1>3. PeersAfter(F, P) = IF c.replace THEN {} ELSE P
  BY <1>2 DEF PeersAfter
<1>4. NamesAfter(F, ex, nm) = [k \in Key |-> IF c.replace THEN NoName ELSE nm[k]]
  BY <1>2 DEF NamesAfter
<1>5. c.replace \in BOOLEAN
  BY DEF Config
<1> QED
  BY <1>3, <1>4, <1>5 DEF NoNames, NameMap, F

(* One entry more, as a device takes it: SetPeer of ConfLoops.             *)
LEMMA OneMorePeer ==
  ASSUME NEW c \in Config, NEW P \in SUBSET Key, NEW n \in Nat, n < Len(c.peers)
  PROVE  LET e == c.peers[n + 1]
             was == PeersAfter(FirstEntries(c, n), P)
         IN  PeersAfter(FirstEntries(c, n + 1), P) =
               IF e.remove THEN was \ {e.key}
               ELSE IF e.updateOnly \/ e.key = SelfKey THEN was
               ELSE was \cup {e.key}
<1> DEFINE e == c.peers[n + 1]
           F == FirstEntries(c, n)
           G == FirstEntries(c, n + 1)
<1>1. /\ Len(c.peers) \in Nat
      /\ e \in PeerConfig
  BY DEF Config
<1>2. F.replace = c.replace /\ DOMAIN F.peers = 1..n /\ \A j \in 1..n : F.peers[j] = c.peers[j]
  BY <1>1, FirstEntriesParts
<1>3. G.replace = c.replace /\ DOMAIN G.peers = 1..(n + 1)
      /\ \A j \in 1..(n + 1) : G.peers[j] = c.peers[j]
  <2>1. n + 1 \in 0..Len(c.peers)
    BY <1>1
  <2> HIDE DEF G
  <2> QED
    BY <2>1, FirstEntriesParts DEF G
<1>4. 1..(n + 1) = 1..n \cup {n + 1} /\ \A j \in 1..n : n + 1 > j /\ ~(j > n + 1)
  OBVIOUS
<1> HIDE DEF F, G
<1>5. ASSUME NEW k, NEW j \in 1..n
      PROVE  /\ Removes(G, k, j) <=> Removes(F, k, j)
             /\ Adds(G, k, j) <=> Adds(F, k, j)
  BY <1>2, <1>3, <1>4 DEF Removes, Adds
<1>6. ASSUME NEW k
      PROVE  /\ Removes(G, k, n + 1) <=> (e.key = k /\ e.remove)
             /\ Adds(G, k, n + 1) <=>
                  (e.key = k /\ ~e.remove /\ ~e.updateOnly /\ k # SelfKey)
  BY <1>3, <1>4 DEF Removes, Adds
<1> HIDE DEF e
<1>7. ASSUME NEW k \in Key
      PROVE  k \in PeersAfter(G, P) <=>
               \/ Adds(G, k, n + 1)
               \/ k \in PeersAfter(F, P) /\ ~Removes(G, k, n + 1)
  <2>1. k \in PeersAfter(G, P) <=>
          \/ \E j \in 1..(n + 1) : Adds(G, k, j) /\ \A l \in 1..(n + 1) : l > j => ~Removes(G, k, l)
          \/ k \in P /\ ~c.replace /\ \A l \in 1..(n + 1) : ~Removes(G, k, l)
    BY <1>3 DEF PeersAfter
  <2>2. k \in PeersAfter(F, P) <=>
          \/ \E j \in 1..n : Adds(G, k, j) /\ \A l \in 1..n : l > j => ~Removes(G, k, l)
          \/ k \in P /\ ~c.replace /\ \A l \in 1..n : ~Removes(G, k, l)
    <3>1. k \in PeersAfter(F, P) <=>
            \/ \E j \in 1..n : Adds(F, k, j) /\ \A l \in 1..n : l > j => ~Removes(F, k, l)
            \/ k \in P /\ ~c.replace /\ \A l \in 1..n : ~Removes(F, k, l)
      BY <1>2 DEF PeersAfter
    <3> QED
      BY <1>5, <3>1
  <2>3. CASE Removes(G, k, n + 1)
    <3>1. ~Adds(G, k, n + 1)
      BY <1>6, <2>3
    <3>2. ASSUME NEW j \in 1..(n + 1), Adds(G, k, j),
                 \A l \in 1..(n + 1) : l > j => ~Removes(G, k, l)
          PROVE  FALSE
      BY <1>4, <2>3, <3>1, <3>2
    <3> QED
      BY <1>4, <2>1, <2>3, <3>1, <3>2
  <2>4. CASE Adds(G, k, n + 1)
    <3>1. \A l \in 1..(n + 1) : ~(l > n + 1)
      OBVIOUS
    <3> QED
      BY <1>4, <2>1, <2>4, <3>1
  <2>5. CASE ~Removes(G, k, n + 1) /\ ~Adds(G, k, n + 1)
    <3>1. \A j \in 1..n : (\A l \in 1..(n + 1) : l > j => ~Removes(G, k, l))
                       <=> (\A l \in 1..n : l > j => ~Removes(G, k, l))
      BY <1>4, <2>5
    <3>2. (\A l \in 1..(n + 1) : ~Removes(G, k, l)) <=> (\A l \in 1..n : ~Removes(G, k, l))
      BY <1>4, <2>5
    <3> QED
      BY <1>4, <2>1, <2>2, <2>5, <3>1, <3>2
  <2> QED
    BY <2>3, <2>4, <2>5
<1>8. PeersAfter(G, P) \subseteq Key /\ PeersAfter(F, P) \subseteq Key /\ e.key \in Key
  BY <1>1 DEF PeersAfter, PeerConfig
<1>9. /\ e.remove \in BOOLEAN /\ e.updateOnly \in BOOLEAN
  BY <1>1 DEF PeerConfig
<1>10. PeersAfter(G, P) = IF e.remove THEN PeersAfter(F, P) \ {e.key}
               ELSE IF e.updateOnly \/ e.key = SelfKey THEN PeersAfter(F, P)
               ELSE PeersAfter(F, P) \cup {e.key}
  <2> DEFINE A == PeersAfter(F, P)
             B == PeersAfter(G, P)
  <2>1. A \subseteq Key /\ B \subseteq Key /\ e.key \in Key
    BY <1>8
  <2>2. \A k \in Key :
          k \in B <=>
            \/ e.key = k /\ ~e.remove /\ ~e.updateOnly /\ k # SelfKey
            \/ k \in A /\ ~(e.key = k /\ e.remove)
    BY <1>6, <1>7
  <2> HIDE DEF A, B
  <2>3. CASE e.remove
    BY <2>1, <2>2, <2>3 DEF A, B
  <2>4. CASE ~e.remove /\ (e.updateOnly \/ e.key = SelfKey)
    <3>1. B = A
      BY <2>1, <2>2, <2>4
    <3> QED
      BY <2>4, <3>1 DEF A, B
  <2>5. CASE ~e.remove /\ ~(e.updateOnly \/ e.key = SelfKey)
    <3>1. B = A \cup {e.key}
      BY <2>1, <2>2, <2>5
    <3> QED
      BY <2>5, <3>1 DEF A, B
  <2> QED
    BY <2>3, <2>4, <2>5
<1> QED
  BY <1>10 DEF e, F, G

(* No two entries are the last that decides.                               *)
LEMMA LastDecidesUnique ==
  ASSUME NEW c \in Config, NEW ex, NEW k,
         NEW i \in DOMAIN c.peers, NEW j \in DOMAIN c.peers,
         LastDecides(c, ex, k, i), LastDecides(c, ex, k, j)
  PROVE  i = j
<1>1. Len(c.peers) \in Nat /\ DOMAIN c.peers = 1..Len(c.peers)
  BY DEF Config
<1>2. ~(i > j) /\ ~(j > i)
  BY DEF LastDecides
<1> QED
  BY <1>1, <1>2

(* The name of a key is what the last entry that decides about it says.    *)
LEMMA NameDecided ==
  ASSUME NEW c \in Config, NEW ex, NEW nm \in NameMap, NEW k \in Key,
         NEW j \in DOMAIN c.peers, LastDecides(c, ex, k, j)
  PROVE  NamesAfter(c, ex, nm)[k] = EntryName(c.peers[j])
<1> DEFINE last == CHOOSE i \in DOMAIN c.peers : LastDecides(c, ex, k, i)
<1>1. last \in DOMAIN c.peers /\ LastDecides(c, ex, k, last)
  OBVIOUS
<1>2. last = j
  BY <1>1, LastDecidesUnique
<1>3. Decides(c, ex, k, j)
  BY DEF LastDecides
<1>4. NamesAfter(c, ex, nm)[k] = EntryName(c.peers[last])
  BY <1>3 DEF NamesAfter
<1> QED
  BY <1>2, <1>4

(* A key about which no entry decides.                                     *)
LEMMA NameUndecided ==
  ASSUME NEW c \in Config, NEW ex, NEW nm \in NameMap, NEW k \in Key,
         \A j \in DOMAIN c.peers : ~Decides(c, ex, k, j)
  PROVE  NamesAfter(c, ex, nm)[k] = IF c.replace THEN NoName ELSE nm[k]
  BY DEF NamesAfter

(* The first entries are a configuration, too.                             *)
LEMMA FirstEntriesType ==
  ASSUME NEW c \in Config, NEW n \in 0..Len(c.peers)
  PROVE  FirstEntries(c, n) \in Config
<1>1. c.peers \in Seq(PeerConfig)
  BY DEF Config
<1>2. SubSeq(c.peers, 1, n) \in Seq(PeerConfig)
  <2>1. n \in Nat /\ \A j \in 1..n : c.peers[j] \in PeerConfig
    BY <1>1
  <2> QED
    BY <1>1, <2>1
<1> QED
  BY <1>2 DEF FirstEntries, Config

(* One entry more, as the callback takes it: SetName of ConfLoops.         *)
NameEntry(e, ex, was) ==
  IF e.remove \/ (e.key \in ex /\ e.name = Clear) THEN [was EXCEPT ![e.key] = NoName]
  ELSE IF e.key \notin ex \/ e.name = Keep THEN was
  ELSE [was EXCEPT ![e.key] = e.name]

(* It is the closed form of the entries so far that the callback goes on   *)
(* from.                                                                   *)
LEMMA OneMoreName ==
  ASSUME NEW c \in Config, NEW ex, NEW nm \in NameMap, NEW n \in Nat, n < Len(c.peers)
  PROVE  NamesAfter(FirstEntries(c, n + 1), ex, nm) =
           NameEntry(c.peers[n + 1], ex, NamesAfter(FirstEntries(c, n), ex, nm))
<1> DEFINE e == c.peers[n + 1]
           F == FirstEntries(c, n)
           G == FirstEntries(c, n + 1)
<1>1. /\ Len(c.peers) \in Nat
      /\ e \in PeerConfig
      /\ n \in 0..Len(c.peers) /\ n + 1 \in 0..Len(c.peers)
  BY DEF Config
<1>2. F.replace = c.replace /\ DOMAIN F.peers = 1..n /\ \A j \in 1..n : F.peers[j] = c.peers[j]
  BY <1>1, FirstEntriesParts
<1>3. G.replace = c.replace /\ DOMAIN G.peers = 1..(n + 1)
      /\ \A j \in 1..(n + 1) : G.peers[j] = c.peers[j]
  <2> HIDE DEF G
  <2> QED
    BY <1>1, FirstEntriesParts DEF G
<1>4. F \in Config /\ G \in Config
  <2> HIDE DEF F, G
  <2> QED
    BY <1>1, FirstEntriesType DEF F, G
<1>5. 1..(n + 1) = 1..n \cup {n + 1} /\ \A j \in 1..n : n + 1 > j /\ ~(j > n + 1)
  OBVIOUS
<1> HIDE DEF F, G
<1>6. ASSUME NEW k, NEW j \in 1..n
      PROVE  Decides(G, ex, k, j) <=> Decides(F, ex, k, j)
  BY <1>2, <1>3, <1>5 DEF Decides
<1>7. ASSUME NEW k
      PROVE  Decides(G, ex, k, n + 1) <=>
               (e.key = k /\ (e.remove \/ (k \in ex /\ e.name # Keep)))
  BY <1>3, <1>5 DEF Decides
<1> HIDE DEF e
<1> DEFINE A == NamesAfter(F, ex, nm)
           B == NamesAfter(G, ex, nm)
<1>8. ASSUME NEW k \in Key
      PROVE  B[k] = IF Decides(G, ex, k, n + 1) THEN EntryName(e) ELSE A[k]
  <2>1. CASE Decides(G, ex, k, n + 1)
    <3>1. n + 1 \in DOMAIN G.peers /\ \A l \in DOMAIN G.peers : ~(l > n + 1)
      BY <1>3, <1>5
    <3>2. LastDecides(G, ex, k, n + 1)
      BY <2>1, <3>1 DEF LastDecides
    <3>3. G.peers[n + 1] = e
      BY <1>3, <3>1 DEF e
    <3> QED
      BY <1>4, <2>1, <3>1, <3>2, <3>3, NameDecided
  <2>2. CASE ~Decides(G, ex, k, n + 1) /\ \E j \in 1..n : Decides(F, ex, k, j)
    <3>1. PICK j \in 1..n : LastDecides(F, ex, k, j)
      BY <1>2, <1>4, <2>2, LastDecidesExists
    <3>2. Decides(G, ex, k, j)
      BY <1>6, <3>1 DEF LastDecides
    <3>3. \A l \in 1..(n + 1) : l > j => ~Decides(G, ex, k, l)
      BY <1>2, <1>5, <1>6, <2>2, <3>1 DEF LastDecides
    <3>4. j \in DOMAIN G.peers /\ LastDecides(G, ex, k, j) /\ G.peers[j] = F.peers[j]
      BY <1>2, <1>3, <1>5, <3>2, <3>3 DEF LastDecides
    <3>5. B[k] = EntryName(G.peers[j]) /\ A[k] = EntryName(F.peers[j])
      BY <1>2, <1>4, <3>1, <3>4, NameDecided
    <3> QED
      BY <2>2, <3>4, <3>5
  <2>3. CASE ~Decides(G, ex, k, n + 1) /\ ~\E j \in 1..n : Decides(F, ex, k, j)
    <3>1. \A j \in DOMAIN G.peers : ~Decides(G, ex, k, j)
      BY <1>3, <1>5, <1>6, <2>3
    <3>2. \A j \in DOMAIN F.peers : ~Decides(F, ex, k, j)
      BY <1>2, <2>3
    <3> QED
      BY <1>2, <1>3, <1>4, <2>3, <3>1, <3>2, NameUndecided
  <2> QED
    BY <2>1, <2>2, <2>3
<1>9. DOMAIN A = Key /\ DOMAIN B = Key /\ A \in NameMap /\ B \in NameMap
  BY <1>4, NamesAfterType DEF NameMap
<1>10. /\ e.key \in Key /\ e.remove \in BOOLEAN
  BY <1>1 DEF PeerConfig
<1> HIDE DEF A, B
<1>11. B = [k \in Key |-> IF Decides(G, ex, k, n + 1) THEN EntryName(e) ELSE A[k]]
  BY <1>8, <1>9 DEF NameMap
<1>12. A = [k \in Key |-> A[k]]
  BY <1>9 DEF NameMap
<1>13. CASE e.remove \/ (e.key \in ex /\ e.name = Clear)
  <2>1. \A k \in Key : Decides(G, ex, k, n + 1) <=> k = e.key
    BY <1>7, <1>13, NameSentinels
  <2>2. EntryName(e) = NoName
    BY <1>13 DEF EntryName
  <2>3. B = [A EXCEPT ![e.key] = NoName]
    BY <1>11, <1>12, <2>1, <2>2
  <2> QED
    BY <1>13, <2>3 DEF e, F, G, A, B, NameEntry
<1>14. CASE /\ ~(e.remove \/ (e.key \in ex /\ e.name = Clear))
            /\ e.key \notin ex \/ e.name = Keep
  <2>1. \A k \in Key : ~Decides(G, ex, k, n + 1)
    BY <1>7, <1>14
  <2>2. B = A
    BY <1>11, <1>12, <2>1
  <2> QED
    BY <1>14, <2>2 DEF e, F, G, A, B, NameEntry
<1>15. CASE /\ ~(e.remove \/ (e.key \in ex /\ e.name = Clear))
            /\ ~(e.key \notin ex \/ e.name = Keep)
  <2>1. \A k \in Key : Decides(G, ex, k, n + 1) <=> k = e.key
    BY <1>7, <1>15
  <2>2. EntryName(e) = e.name
    BY <1>15 DEF EntryName
  <2>3. B = [A EXCEPT ![e.key] = e.name]
    BY <1>11, <1>12, <2>1, <2>2
  <2> QED
    BY <1>15, <2>3 DEF e, F, G, A, B, NameEntry
<1> QED
  BY <1>13, <1>14, <1>15
-----------------------------------------------------------------------------
(* The loops                                                               *)

(* What the variables hold: the loops stay within the entries.             *)
LoopsTyped ==
  /\ conf \in Config
  /\ before.peers \in SUBSET Key /\ before.names \in NameMap
  /\ passed \in 0..Len(conf.peers)
  /\ running \in {"device", "callback", "done"}

DeviceLeft == running # "device" => device = PeersAfter(conf, before.peers)

NamesLeft == running = "done" => metadata = NamesAfter(conf, device, before.names)

(* The callback begins with the map that the device loop has not touched.  *)
NotYetNamed ==
  running = "device" => metadata = IF conf.replace THEN NoNames ELSE before.names

LoopsInv ==
  /\ LoopsTyped /\ DevicePrefix /\ CallbackPrefix
  /\ DeviceLeft /\ NamesLeft /\ NotYetNamed

(* The closed forms of no entry are what the loops begin with.             *)
LEMMA LoopsStart == LoopsInit => LoopsInv
<1> SUFFICES ASSUME LoopsInit PROVE LoopsInv
  OBVIOUS
<1>1. LoopsTyped
  <2>1. conf \in Config
    BY AppliedType DEF LoopsInit
  <2>2. Len(conf.peers) \in Nat
    BY <2>1 DEF Config
  <2> QED
    BY <2>1, <2>2 DEF LoopsInit, LoopsTyped
<1>2. PeersAfter(FirstEntries(conf, 0), before.peers) = IF conf.replace THEN {} ELSE before.peers
  BY <1>1, NoEntries DEF LoopsTyped
<1>3. DevicePrefix
  BY <1>2 DEF DevicePrefix, LoopsInit
<1> QED
  BY <1>1, <1>3 DEF LoopsInit, LoopsInv, CallbackPrefix, DeviceLeft, NamesLeft, NotYetNamed

(* Each entry takes the loop that is running from one closed form to the   *)
(* next.                                                                   *)
LEMMA LoopsStep == LoopsInv /\ [LoopsNext]_lvars => LoopsInv'
<1> SUFFICES ASSUME LoopsInv, [LoopsNext]_lvars PROVE LoopsInv'
  OBVIOUS
<1>1. /\ conf \in Config /\ Len(conf.peers) \in Nat
      /\ before.peers \in SUBSET Key /\ before.names \in NameMap
      /\ passed \in 0..Len(conf.peers) /\ passed \in Nat
  BY DEF LoopsInv, LoopsTyped, Config
<1>2. CASE SetPeer
  <2>1. /\ running = "device" /\ passed < Len(conf.peers)
        /\ passed' = passed + 1
        /\ UNCHANGED <<conf, before, running, metadata>>
    BY <1>2 DEF SetPeer
  <2>2. device = PeersAfter(FirstEntries(conf, passed), before.peers)
    BY <2>1 DEF LoopsInv, DevicePrefix
  <2>3. device' = PeersAfter(FirstEntries(conf, passed + 1), before.peers)
    BY <1>1, <1>2, <2>1, <2>2, OneMorePeer DEF SetPeer, ThisEntry
  <2>4. LoopsTyped'
    BY <1>1, <2>1 DEF LoopsInv, LoopsTyped
  <2> QED
    BY <2>1, <2>3, <2>4
    DEF LoopsInv, DevicePrefix, CallbackPrefix, DeviceLeft, NamesLeft, NotYetNamed
<1>3. CASE StartCallback
  <2>1. /\ running = "device" /\ passed = Len(conf.peers)
        /\ passed' = 0 /\ running' = "callback"
        /\ UNCHANGED <<conf, before, device, metadata>>
    BY <1>3 DEF StartCallback
  <2>2. device = PeersAfter(conf, before.peers)
    BY <1>1, <2>1, AllEntries DEF LoopsInv, DevicePrefix
  <2>3. metadata = NamesAfter(FirstEntries(conf, 0), device, before.names)
    <3>1. metadata = IF conf.replace THEN NoNames ELSE before.names
      BY <2>1 DEF LoopsInv, NotYetNamed
    <3>2. NamesAfter(FirstEntries(conf, 0), device, before.names)
            = IF conf.replace THEN NoNames ELSE before.names
      BY <1>1, NoEntries
    <3> QED
      BY <3>1, <3>2
  <2>4. LoopsTyped'
    BY <1>1, <2>1 DEF LoopsInv, LoopsTyped
  <2> QED
    BY <2>1, <2>2, <2>3, <2>4
    DEF LoopsInv, DevicePrefix, CallbackPrefix, DeviceLeft, NamesLeft, NotYetNamed
<1>4. CASE SetName
  <2>1. /\ running = "callback" /\ passed < Len(conf.peers)
        /\ passed' = passed + 1
        /\ UNCHANGED <<conf, before, running, device>>
    BY <1>4 DEF SetName
  <2>2. metadata = NamesAfter(FirstEntries(conf, passed), device, before.names)
    BY <2>1 DEF LoopsInv, CallbackPrefix
  <2>3. metadata' = NamesAfter(FirstEntries(conf, passed + 1), device, before.names)
    <3>1. metadata' = NameEntry(conf.peers[passed + 1], device, metadata)
      BY <1>4 DEF SetName, ThisEntry, NameEntry
    <3> QED
      BY <1>1, <2>1, <2>2, <3>1, OneMoreName
  <2>4. LoopsTyped'
    BY <1>1, <2>1 DEF LoopsInv, LoopsTyped
  <2> QED
    BY <2>1, <2>3, <2>4
    DEF LoopsInv, DevicePrefix, CallbackPrefix, DeviceLeft, NamesLeft, NotYetNamed
<1>5. CASE Finish
  <2>1. /\ running = "callback" /\ passed = Len(conf.peers)
        /\ running' = "done"
        /\ UNCHANGED <<conf, before, passed, device, metadata>>
    BY <1>5 DEF Finish
  <2>2. metadata = NamesAfter(conf, device, before.names)
    BY <1>1, <2>1, AllEntries DEF LoopsInv, CallbackPrefix
  <2>3. LoopsTyped'
    BY <2>1 DEF LoopsInv, LoopsTyped
  <2> QED
    BY <2>1, <2>2, <2>3
    DEF LoopsInv, DevicePrefix, CallbackPrefix, DeviceLeft, NamesLeft, NotYetNamed
<1>6. CASE UNCHANGED lvars
  BY <1>6 DEF lvars, LoopsInv, LoopsTyped, DevicePrefix, CallbackPrefix, DeviceLeft,
              NamesLeft, NotYetNamed
<1> QED
  BY <1>2, <1>3, <1>4, <1>5, <1>6 DEF LoopsNext

(* After every entry, of configurations of any length, the device has the  *)
(* peers and the callback the names that the closed forms give             *)
(* (conf.go:27-61); the handlers of ConfApply may use them.                *)
THEOREM LoopsHaveClosedForms == LoopsSpec => []ClosedForms
<1>1. LoopsInv => ClosedForms
  BY DEF LoopsInv, ClosedForms
<1> QED
  BY LoopsStart, LoopsStep, <1>1, PTL DEF LoopsSpec

(* Applying any configuration to a device and to names that follow its     *)
(* peers leaves names that do (conf.go:19-20).                             *)
THEOREM LoopsKeepNames == LoopsSpec => []NamesFollowPeers
<1>1. LoopsInv => NamesFollowPeers
  BY NamesStayWithPeers
  DEF LoopsInv, LoopsTyped, DeviceLeft, NamesLeft, NamesFollowPeers
<1> QED
  BY LoopsStart, LoopsStep, <1>1, PTL DEF LoopsSpec
-----------------------------------------------------------------------------

(* Types.  Busy is needed with them: it says where req[t] is a request.    *)
Typed == TypeOK /\ Busy

(* What the fields of an accepted request are.                             *)
LEMMA RequestParts ==
  ASSUME NEW r \in Request
  PROVE  /\ r.iface \in Iface
         /\ r.cfg \in Config
         /\ r.sync \in BOOLEAN
         /\ r.via \in {"post", "conf"}
         /\ FirstStep(r) \in {"current", "configure"}
         /\ FileOf[r.iface] \in File
         /\ r # NoRequest
  BY RequestTypes, FileOfType DEF FirstStep

(* An idle task has an empty configuration.                                *)
LEMMA NoConfigType == AConfig \in Config
  BY DEF AConfig, Config

(* The types hold before the first request.                                *)
LEMMA InitTyped == Init => Typed
<1> SUFFICES ASSUME Init PROVE Typed
  OBVIOUS
<1> QED
  BY NoConfigType DEF Init, Typed, TypeOK, Busy, PCs

(* Every step keeps the types, and a busy task has a request.              *)
LEMMA StepTyped == Typed /\ [Next]_vars => Typed'
<1> SUFFICES ASSUME Typed, [Next]_vars PROVE Typed'
  OBVIOUS
<1> USE DEF Typed
<1>1. ASSUME NEW t \in Task, Arrive(t) PROVE Typed'
  <2>1. PICK r \in Request :
          /\ t \notin Handlers => r.via = "conf"
          /\ Goto(t, "idle", IF r.via = "post" THEN "lock" ELSE "parse")
          /\ req' = [req EXCEPT ![t] = r]
          /\ UNCHANGED <<up, peers, names, mu, cfg, exists>>
    BY <1>1 DEF Arrive
  <2>2. TypeOK'
    BY <2>1 DEF Goto, TypeOK, PCs
  <2>3. Busy'
    BY <2>1, RequestParts DEF Goto, TypeOK, Busy
  <2> QED
    BY <2>2, <2>3
<1>2. ASSUME NEW t \in Task, Parse(t) PROVE Typed'
  <2>1. req[t] \in Request
    BY <1>2 DEF Parse, Goto, Busy
  <2>2. TypeOK'
    BY <1>2, <2>1, RequestParts DEF Parse, Goto, TypeOK, PCs
  <2>3. Busy'
    BY <1>2, <2>1, RequestParts DEF Parse, Goto, TypeOK, Busy
  <2> QED
    BY <2>2, <2>3
<1>3. ASSUME NEW t \in Task, ParseFails(t) PROVE Typed'
  <2>1. TypeOK'
    BY <1>3 DEF ParseFails, Goto, TypeOK, PCs
  <2>2. Busy'
    BY <1>3 DEF ParseFails, Goto, TypeOK, Busy
  <2> QED
    BY <2>1, <2>2
<1>4. ASSUME NEW t \in Task, Lock(t) PROVE Typed'
  <2>1. req[t] \in Request /\ t \in Handlers
    BY <1>4 DEF Lock, Goto, Busy
  <2>2. TypeOK'
    BY <1>4, <2>1, RequestParts DEF Lock, Goto, TypeOK, PCs
  <2>3. Busy'
    BY <1>4, <2>1, RequestParts DEF Lock, Goto, TypeOK, Busy
  <2> QED
    BY <2>2, <2>3
<1>5. ASSUME NEW t \in Task, ReadCurrent(t) PROVE Typed'
  <2>1. req[t] \in Request
    BY <1>5 DEF ReadCurrent, Goto, Busy
  <2>2. peers[Dev(t)] \in SUBSET Key /\ cfg[t] \in Config
    BY <2>1, RequestParts DEF Dev, TypeOK
  <2>3. SyncPeerConfigs(cfg[t], peers[Dev(t)]) \in Config
    BY <2>2, SyncType
  <2>4. TypeOK'
    BY <1>5, <2>3 DEF ReadCurrent, Goto, TypeOK, PCs
  <2>5. Busy'
    BY <1>5 DEF ReadCurrent, Goto, TypeOK, Busy
  <2> QED
    BY <2>4, <2>5
<1>6. ASSUME NEW t \in Task, Configure(t) PROVE Typed'
  <2>1. PeersAfter(cfg[t], peers[Dev(t)]) \in SUBSET Key
    BY DEF PeersAfter
  <2>2. TypeOK'
    BY <1>6, <2>1 DEF Configure, Goto, TypeOK, PCs
  <2>3. Busy'
    BY <1>6 DEF Configure, Goto, TypeOK, Busy
  <2> QED
    BY <2>2, <2>3
<1>7. ASSUME NEW t \in Task, ConfigureFails(t) PROVE Typed'
  <2>1. PICK n \in 0..Len(cfg[t].peers) :
          peers' = [peers EXCEPT ![Dev(t)] = PeersAfter(FirstEntries(cfg[t], n), @)]
    BY <1>7 DEF ConfigureFails
  <2>2. PeersAfter(FirstEntries(cfg[t], n), peers[Dev(t)]) \in SUBSET Key
    BY DEF PeersAfter
  <2>3. TypeOK'
    BY <1>7, <2>1, <2>2 DEF ConfigureFails, Goto, TypeOK, PCs
  <2>4. Busy'
    BY <1>7 DEF ConfigureFails, Goto, TypeOK, Busy
  <2> QED
    BY <2>3, <2>4
<1>8. ASSUME NEW t \in Task, ReadBack(t) PROVE Typed'
  <2>1. peers[Dev(t)] \in SUBSET Key
    BY <1>8, RequestParts DEF ReadBack, Goto, Busy, Dev, TypeOK
  <2>2. TypeOK'
    BY <1>8, <2>1 DEF ReadBack, Goto, TypeOK, PCs
  <2>3. Busy'
    BY <1>8 DEF ReadBack, Goto, TypeOK, Busy
  <2> QED
    BY <2>2, <2>3
<1>9. ASSUME NEW t \in Task, NoSuchDevice(t) PROVE Typed'
  <2>1. TypeOK'
    BY <1>9 DEF NoSuchDevice, TypeOK, PCs
  <2>2. Busy'
    BY <1>9 DEF NoSuchDevice, TypeOK, Busy
  <2> QED
    BY <2>1, <2>2
<1>10. ASSUME NEW t \in Task, Save(t) PROVE Typed'
  <2>1. names[Path(t)] \in NameMap /\ cfg[t] \in Config
    BY <1>10, RequestParts DEF Save, Goto, Busy, Path, Dev, TypeOK
  <2>2. NamesAfter(cfg[t], exists[t], names[Path(t)]) \in NameMap
    BY <2>1, NamesAfterType
  <2>3. TypeOK'
    BY <1>10, <2>2 DEF Save, Goto, TypeOK, PCs
  <2>4. Busy'
    BY <1>10 DEF Save, Goto, TypeOK, Busy
  <2> QED
    BY <2>3, <2>4
<1>11. ASSUME NEW t \in Task, SaveFails(t) PROVE Typed'
  <2>1. TypeOK'
    BY <1>11 DEF SaveFails, Goto, TypeOK, PCs
  <2>2. Busy'
    BY <1>11 DEF SaveFails, Goto, TypeOK, Busy
  <2> QED
    BY <2>1, <2>2
<1>12. ASSUME NEW t \in Task, Reply(t) PROVE Typed'
  <2>1. TypeOK'
    BY <1>12, NoConfigType DEF Reply, Goto, TypeOK, PCs
  <2>2. Busy'
    BY <1>12 DEF Reply, Goto, TypeOK, Busy
  <2> QED
    BY <2>1, <2>2
<1>13. ASSUME NEW T, Stop(T) PROVE Typed'
  <2>1. TypeOK'
    BY <1>13, NoConfigType DEF Stop, TypeOK, PCs
  <2>2. Busy'
    BY <1>13 DEF Stop, TypeOK, Busy
  <2> QED
    BY <2>1, <2>2
<1>14. ASSUME NEW d \in Iface, LinkDel(d) \/ LinkAdd(d) PROVE Typed'
  <2>1. TypeOK'
    BY <1>14 DEF LinkDel, LinkAdd, TypeOK
  <2>2. Busy'
    BY <1>14 DEF LinkDel, LinkAdd, Busy
  <2> QED
    BY <2>1, <2>2
<1>15. CASE UNCHANGED vars
  BY <1>15 DEF vars, TypeOK, Busy
<1> QED
  BY <1>1, <1>2, <1>3, <1>4, <1>5, <1>6, <1>7, <1>8, <1>9, <1>10, <1>11, <1>12,
     <1>13, <1>14, <1>15 DEF Next, Step, Fails

(* The devices, the names files, Server.mu and every handler stay within   *)
(* their types, whatever fails and whoever is killed.                      *)
THEOREM TypesHold == Spec => []TypeOK
<1>1. Typed => TypeOK
  BY DEF Typed
<1> QED
  BY InitTyped, StepTyped, <1>1, PTL DEF Spec
-----------------------------------------------------------------------------
(* Only the task that holds Server.mu is between its lock and its answer.  *)
LEMMA Alone ==
  ASSUME Undisturbed, InStep, NEW t \in Task, mu = t
  PROVE  \A u \in Task \ {t} : pc[u] \notin {"current", "configure", "readback", "save"}
  BY DEF Undisturbed, InStep, LockHeld

(* A step of a task that is not about to save, and that touches neither    *)
(* device nor file, disturbs no task that is.                              *)
LEMMA QuietStep ==
  ASSUME Typed, Fresh, NamesFollowDevice, NEW t \in Task,
         UNCHANGED <<peers, names>>,
         pc[t] \notin {"readback", "save"}, pc'[t] \notin {"readback", "save"},
         \A u \in Task \ {t} : /\ pc'[u] = pc[u] /\ req'[u] = req[u]
                               /\ cfg'[u] = cfg[u] /\ exists'[u] = exists[u]
  PROVE  Fresh' /\ NamesFollowDevice'
<1>1. Fresh'
  BY DEF Fresh, Dev, Path
<1>2. ASSUME NEW d \in Iface, Unsaved(d)' = {}
      PROVE  Unsaved(d) = {}
  <2> SUFFICES ASSUME NEW u \in Task, pc[u] \in {"readback", "save"}, Dev(u) = d
               PROVE  FALSE
    BY DEF Unsaved
  <2>1. u \in Unsaved(d)'
    BY DEF Unsaved, Dev
  <2> QED
    BY <1>2, <2>1
<1>3. NamesFollowDevice'
  BY <1>2 DEF NamesFollowDevice
<1> QED
  BY <1>1, <1>3

(* The invariant holds at the start.                                       *)
LEMMA InitInStep == ASSUME Undisturbed PROVE Init => InStep
<1> SUFFICES ASSUME Init PROVE InStep
  OBVIOUS
<1>1. Typed
  BY InitTyped
<1>2. LockHeld /\ Fresh
  BY DEF Init, LockHeld, Fresh, Undisturbed
<1>3. NamesFollowDevice
  <2> SUFFICES ASSUME NEW d \in Iface
               PROVE  Named(names[FileOf[d]]) \subseteq peers[d]
    BY DEF NamesFollowDevice
  <2>1. FileOf[d] \in File
    BY FileOfType
  <2>2. {e \in Iface : FileOf[e] = FileOf[d]} = {d}
    BY DEF Undisturbed
  <2>3. UNION {peers[e] : e \in {e \in Iface : FileOf[e] = FileOf[d]}} = peers[d]
    BY <2>2
  <2> QED
    BY <2>1, <2>3 DEF Init
<1> QED
  BY <1>1, <1>2, <1>3 DEF InStep, Typed, Init

(* Every step keeps it.  The lock makes the steps between a configuration  *)
(* and the saving of its names those of one task; NamesStayWithPeers is    *)
(* what that task then relies on.                                          *)
LEMMA StepInStep == ASSUME Undisturbed PROVE InStep /\ [Next]_vars => InStep'
<1> SUFFICES ASSUME InStep, [Next]_vars PROVE InStep'
  OBVIOUS
<1>1. Typed /\ Typed'
  BY StepTyped DEF InStep, Typed
<1>2. SUFFICES (up = Iface)' /\ LockHeld' /\ Fresh' /\ NamesFollowDevice'
  BY <1>1 DEF InStep, Typed
<1>3. up = Iface /\ LockHeld /\ Fresh /\ NamesFollowDevice /\ Busy /\ TypeOK
  BY DEF InStep
<1>4. Handlers = Task /\ Faults = {}
  BY DEF Undisturbed
<1>5. ASSUME NEW t \in Task, Arrive(t)
      PROVE  (up = Iface)' /\ LockHeld' /\ Fresh' /\ NamesFollowDevice'
  <2>1. PICK r \in Request :
          /\ Goto(t, "idle", IF r.via = "post" THEN "lock" ELSE "parse")
          /\ req' = [req EXCEPT ![t] = r]
          /\ UNCHANGED <<up, peers, names, mu, cfg, exists>>
    BY <1>5 DEF Arrive
  <2>2. LockHeld'
    BY <1>3, <1>4, <2>1 DEF LockHeld, Goto, TypeOK
  <2>3. Fresh' /\ NamesFollowDevice'
    BY <1>1, <1>3, <2>1, QuietStep DEF Goto, TypeOK
  <2> QED
    BY <1>3, <2>1, <2>2, <2>3
<1>6. ASSUME NEW t \in Task, Parse(t)
      PROVE  (up = Iface)' /\ LockHeld' /\ Fresh' /\ NamesFollowDevice'
  <2>1. req[t] \in Request
    BY <1>3, <1>6 DEF Parse, Goto, Busy
  <2>2. LockHeld'
    BY <1>3, <1>4, <1>6, <2>1, RequestParts DEF LockHeld, Parse, Goto, TypeOK
  <2>3. Fresh' /\ NamesFollowDevice'
    BY <1>1, <1>3, <1>6, <2>1, RequestParts, QuietStep DEF Parse, Goto, TypeOK
  <2> QED
    BY <1>3, <1>6, <2>2, <2>3 DEF Parse
<1>7. ASSUME NEW t \in Task, ParseFails(t)
      PROVE  (up = Iface)' /\ LockHeld' /\ Fresh' /\ NamesFollowDevice'
  <2>1. LockHeld'
    BY <1>3, <1>4, <1>7 DEF LockHeld, ParseFails, Goto, TypeOK
  <2>2. Fresh' /\ NamesFollowDevice'
    BY <1>1, <1>3, <1>7, QuietStep DEF ParseFails, Goto, TypeOK
  <2> QED
    BY <1>3, <1>7, <2>1, <2>2 DEF ParseFails
<1>8. ASSUME NEW t \in Task, Lock(t)
      PROVE  (up = Iface)' /\ LockHeld' /\ Fresh' /\ NamesFollowDevice'
  <2>1. req[t] \in Request
    BY <1>3, <1>8 DEF Lock, Goto, Busy
  <2>2. \A u \in Task : mu # u
    BY <1>8, TaskTypes DEF Lock
  <2>3. LockHeld'
    BY <1>3, <1>4, <1>8, <2>2 DEF LockHeld, Lock, Goto, TypeOK
  <2>4. Fresh' /\ NamesFollowDevice'
    BY <1>1, <1>3, <1>8, <2>1, RequestParts, QuietStep DEF Lock, Goto, TypeOK
  <2> QED
    BY <1>3, <1>8, <2>3, <2>4 DEF Lock
<1>9. ASSUME NEW t \in Task, ReadCurrent(t)
      PROVE  (up = Iface)' /\ LockHeld' /\ Fresh' /\ NamesFollowDevice'
  <2>1. LockHeld'
    BY <1>3, <1>4, <1>9 DEF LockHeld, ReadCurrent, Goto, TypeOK
  <2>2. Fresh' /\ NamesFollowDevice'
    BY <1>1, <1>3, <1>9, QuietStep DEF ReadCurrent, Goto, TypeOK
  <2> QED
    BY <1>3, <1>9, <2>1, <2>2 DEF ReadCurrent
<1>10. ASSUME NEW t \in Task, Configure(t)
       PROVE  (up = Iface)' /\ LockHeld' /\ Fresh' /\ NamesFollowDevice'
  <2> DEFINE d == Dev(t)
             after == PeersAfter(cfg[t], peers[d])
  <2>1. req[t] \in Request /\ mu = t
    BY <1>3, <1>4, <1>10 DEF Configure, Goto, Busy, LockHeld
  <2>2. d \in Iface /\ names[Path(t)] \in NameMap /\ cfg[t] \in Config
        /\ peers[d] \in SUBSET Key
    BY <1>3, <2>1, RequestParts DEF Dev, Path, TypeOK
  <2>3. \A u \in Task \ {t} : pc[u] \notin {"readback", "save"}
    BY <2>1, Alone
  <2>4. pc[t] = "configure" /\ pc'[t] = "readback"
        /\ \A u \in Task \ {t} : pc'[u] = pc[u]
    BY <1>3, <1>10 DEF Configure, Goto, TypeOK
  <2>5. \A e \in Iface : Named(names[FileOf[e]]) \subseteq peers[e]
    BY <1>3, <2>3, <2>4 DEF NamesFollowDevice, Unsaved
  <2>6. peers'[d] = after /\ \A e \in Iface \ {d} : peers'[e] = peers[e]
    BY <1>3, <1>10, <2>2 DEF Configure, TypeOK
  <2>7. LockHeld'
    BY <1>3, <1>4, <1>10 DEF LockHeld, Configure, Goto, TypeOK
  <2>8. Named(NamesAfter(cfg[t], after, names[Path(t)])) \subseteq after
    BY <2>2, <2>5, NamesStayWithPeers DEF Path
  <2>9. UNCHANGED <<up, names, req, cfg, exists>>
    BY <1>10 DEF Configure
  <2>10. Fresh'
    <3> HIDE DEF after
    <3> QED
      BY <2>3, <2>4, <2>6, <2>8, <2>9 DEF Fresh, Dev, Path
  <2>11. NamesFollowDevice'
    <3> SUFFICES ASSUME NEW e \in Iface, Unsaved(e)' = {}
                 PROVE  Named(names[FileOf[e]]) \subseteq peers'[e]
      BY <2>9 DEF NamesFollowDevice
    <3>1. e # Dev(t)
      BY <2>4, <2>9 DEF Unsaved, Dev
    <3> QED
      BY <2>5, <2>6, <3>1
  <2> QED
    BY <1>3, <2>7, <2>9, <2>10, <2>11
<1>11. ASSUME NEW t \in Task, ReadBack(t)
       PROVE  (up = Iface)' /\ LockHeld' /\ Fresh' /\ NamesFollowDevice'
  <2>1. /\ pc[t] = "readback" /\ pc'[t] = "save"
        /\ \A u \in Task \ {t} : pc'[u] = pc[u] /\ exists'[u] = exists[u]
        /\ exists'[t] = peers[Dev(t)]
        /\ UNCHANGED <<up, peers, names, mu, req, cfg>>
    BY <1>3, <1>11 DEF ReadBack, Goto, TypeOK
  <2>2. LockHeld'
    BY <1>3, <1>4, <2>1 DEF LockHeld
  <2>3. Fresh'
    BY <1>3, <2>1 DEF Fresh, Dev, Path
  <2>4. \A e \in Iface : Unsaved(e)' = Unsaved(e)
    BY <2>1 DEF Unsaved, Dev
  <2> QED
    BY <1>3, <2>1, <2>2, <2>3, <2>4 DEF NamesFollowDevice
<1>12. ASSUME NEW t \in Task, Save(t)
       PROVE  (up = Iface)' /\ LockHeld' /\ Fresh' /\ NamesFollowDevice'
  <2> DEFINE d == Dev(t)
             saved == NamesAfter(cfg[t], peers[d], names[Path(t)])
  <2>1. req[t] \in Request /\ mu = t
    BY <1>3, <1>4, <1>12 DEF Save, Goto, Busy, LockHeld
  <2>2. d \in Iface /\ Path(t) \in File
    BY <2>1, RequestParts DEF Dev, Path
  <2>3. \A u \in Task \ {t} : pc[u] \notin {"readback", "save"}
    BY <2>1, Alone
  <2>4. /\ pc[t] = "save" /\ pc'[t] = "reply"
        /\ \A u \in Task \ {t} : pc'[u] = pc[u]
        /\ UNCHANGED <<up, peers, mu, req, cfg, exists>>
    BY <1>3, <1>12 DEF Save, Goto, TypeOK
  <2>5. exists[t] = peers[d] /\ Named(saved) \subseteq peers[d]
    BY <1>3, <2>4 DEF Fresh
  <2>6. names'[Path(t)] = saved /\ \A f \in File \ {Path(t)} : names'[f] = names[f]
    BY <1>3, <1>12, <2>2, <2>5 DEF Save, TypeOK
  <2>7. LockHeld'
    BY <1>3, <1>4, <2>4 DEF LockHeld
  <2>8. Fresh'
    BY <2>3, <2>4 DEF Fresh
  <2>9. NamesFollowDevice'
    <3> SUFFICES ASSUME NEW e \in Iface
                 PROVE  Named(names'[FileOf[e]]) \subseteq peers[e]
      BY <2>4 DEF NamesFollowDevice
    <3>1. CASE e = d
      <4> HIDE DEF saved
      <4> QED
        BY <2>5, <2>6, <3>1 DEF Path
    <3>2. CASE e # d
      <4>1. FileOf[e] \in File \ {Path(t)}
        BY <2>2, <3>2, FileOfType DEF Undisturbed, Path
      <4>2. Unsaved(e) = {}
        BY <2>3, <3>2 DEF Unsaved
      <4> QED
        BY <1>3, <2>6, <4>1, <4>2 DEF NamesFollowDevice
    <3> QED
      BY <3>1, <3>2
  <2> QED
    BY <1>3, <2>4, <2>7, <2>8, <2>9
<1>13. ASSUME NEW t \in Task, Reply(t)
       PROVE  (up = Iface)' /\ LockHeld' /\ Fresh' /\ NamesFollowDevice'
  <2>1. LockHeld'
    BY <1>3, <1>4, <1>13 DEF LockHeld, Reply, Goto, TypeOK
  <2>2. Fresh' /\ NamesFollowDevice'
    BY <1>1, <1>3, <1>13, QuietStep DEF Reply, Goto, TypeOK
  <2> QED
    BY <1>3, <1>13, <2>1, <2>2 DEF Reply
<1>14. ASSUME NEW t \in Task PROVE ~NoSuchDevice(t)
  BY <1>3, RequestParts DEF NoSuchDevice, Dev, Busy
<1>15. ASSUME NEW t \in Task PROVE ~ConfigureFails(t) /\ ~SaveFails(t)
  BY <1>4 DEF ConfigureFails, SaveFails
<1>16. \A T : ~Stop(T)
  BY <1>4 DEF Stop
<1>17. \A d \in Iface : ~LinkDel(d) /\ ~LinkAdd(d)
  BY <1>3, <1>4 DEF LinkDel, LinkAdd
<1>18. CASE UNCHANGED vars
  BY <1>3, <1>18 DEF vars, LockHeld, Fresh, NamesFollowDevice, Unsaved, Dev, Path
<1> QED
  BY <1>5, <1>6, <1>7, <1>8, <1>9, <1>10, <1>11, <1>12, <1>13, <1>14, <1>15,
     <1>16, <1>17, <1>18 DEF Next, Step, Fails

(* Once wgd alone uses its devices and nothing fails, names never outlive  *)
(* the peers they were given to: Apply under Server.mu (conf.go:19-20).    *)
THEOREM NamesFollow == ASSUME Undisturbed PROVE Spec => []NamesFollowDevice
<1>1. InStep => NamesFollowDevice
  BY DEF InStep
<1> QED
  BY InitInStep, StepInStep, <1>1, PTL DEF Spec

(* More than that: who holds Server.mu, what a handler has read and what   *)
(* it is going to save agree with the device at every moment.              *)
THEOREM HandlersInStep == ASSUME Undisturbed PROVE Spec => []InStep
  BY InitInStep, StepInStep, PTL DEF Spec

(* Whatever has failed before, on its own or with others: a setconf that   *)
(* gets as far as saving leaves only names of peers that it saw on the     *)
(* device (conf.go:30-33, 62).                                             *)
THEOREM SetconfLeavesNoStrays == Spec => SetconfRepairs
<1>1. Typed /\ [Next]_vars =>
        [\A t \in Task :
           pc[t] = "save" /\ Save(t) /\ cfg[t].replace /\ exists[t] = peers[Dev(t)]
             => Named(names'[Path(t)]) \subseteq peers[Dev(t)]]_vars
  <2> SUFFICES ASSUME Typed, NEW t \in Task, pc[t] = "save", Save(t), cfg[t].replace,
                      exists[t] = peers[Dev(t)]
               PROVE  Named(names'[Path(t)]) \subseteq peers[Dev(t)]
    OBVIOUS
  <2>1. /\ req[t] \in Request /\ cfg[t] \in Config /\ exists[t] \in SUBSET Key
        /\ names \in [File -> NameMap]
    BY DEF Typed, TypeOK, Busy
  <2>2. Path(t) \in File
    BY <2>1, RequestParts DEF Path, Dev
  <2>3. names'[Path(t)] = NamesAfter(cfg[t], exists[t], names[Path(t)])
    BY <2>1, <2>2 DEF Save
  <2> QED
    BY <2>1, <2>2, <2>3, ReplacedNames
<1> QED
  BY InitTyped, StepTyped, <1>1, PTL DEF Spec, SetconfRepairs
-----------------------------------------------------------------------------
(* Whole requests                                                          *)

(* Sync adds its removals behind the entries.                              *)
LEMMA SyncParts ==
  ASSUME NEW c \in Config, NEW P \in SUBSET Key
  PROVE  LET s == SyncPeerConfigs(c, P)
         IN  /\ s.replace = c.replace
             /\ Len(c.peers) \in Nat /\ Len(s.peers) \in Nat
             /\ DOMAIN c.peers = 1..Len(c.peers) /\ DOMAIN s.peers = 1..Len(s.peers)
             /\ Len(c.peers) <= Len(s.peers)
             /\ \A j \in 1..Len(c.peers) : s.peers[j] = c.peers[j]
             /\ \A j \in 1..Len(s.peers) : j > Len(c.peers) =>
                  \E k \in P \ Keys(c) : s.peers[j] = Removal(k)
             /\ \A k \in P \ Keys(c) : \E j \in 1..Len(s.peers) : s.peers[j] = Removal(k)
<1> DEFINE D == P \ Keys(c)
           R == {Removal(k) : k \in D}
           added == SetToSeq(R)
           s == SyncPeerConfigs(c, P)
<1>1. IsFiniteSet(R)
  <2> DEFINE f == [k \in D |-> Removal(k)]
  <2>1. IsFiniteSet(D)
    BY FinitelyManyKeys, FS_Subset
  <2>2. f \in Surjection(D, R)
    BY DEF Surjection
  <2> HIDE DEF D, f, R
  <2> QED
    BY <2>1, <2>2, FS_Surjection
<1>2. added \in Seq(R) /\ \A x \in R : \E i \in DOMAIN added : added[i] = x
  <2> HIDE DEF R
  <2> QED
    BY <1>1, ListOfSet
<1>3. s = [c EXCEPT !.peers = c.peers \o added]
  BY DEF SyncPeerConfigs
<1>4. s.replace = c.replace /\ s.peers = c.peers \o added
  <2> HIDE DEF added, s
  <2> QED
    BY <1>3 DEF Config
<1>5. c.peers \in Seq(PeerConfig)
  BY DEF Config
<1>6. /\ Len(c.peers) \in Nat /\ Len(added) \in Nat
      /\ DOMAIN c.peers = 1..Len(c.peers) /\ DOMAIN added = 1..Len(added)
      /\ \A i \in 1..Len(added) : added[i] \in R
  <2> HIDE DEF R, added
  <2> QED
    BY <1>2, <1>5
<1>7. /\ Len(s.peers) = Len(c.peers) + Len(added)
      /\ DOMAIN s.peers = 1..Len(s.peers)
      /\ \A j \in 1..Len(c.peers) : s.peers[j] = c.peers[j]
      /\ \A j \in 1..Len(s.peers) : j > Len(c.peers) => s.peers[j] = added[j - Len(c.peers)]
  <2> HIDE DEF R, added, s
  <2> QED
    BY <1>2, <1>4, <1>5
<1>8. ASSUME NEW j \in 1..Len(s.peers), j > Len(c.peers)
      PROVE  \E k \in D : s.peers[j] = Removal(k)
  <2>1. j - Len(c.peers) \in 1..Len(added)
    BY <1>6, <1>7, <1>8
  <2>2. s.peers[j] \in R
    BY <1>6, <1>7, <1>8, <2>1
  <2> QED
    BY <2>2
<1>9. ASSUME NEW k \in D
      PROVE  \E j \in 1..Len(s.peers) : s.peers[j] = Removal(k)
  <2>1. PICK i \in 1..Len(added) : added[i] = Removal(k)
    BY <1>2, <1>6
  <2> DEFINE j == Len(c.peers) + i
  <2>2. j \in 1..Len(s.peers) /\ j > Len(c.peers) /\ j - Len(c.peers) = i
    BY <1>6, <1>7
  <2> QED
    BY <1>7, <2>1, <2>2
<1>10. Len(s.peers) \in Nat /\ Len(c.peers) <= Len(s.peers)
  BY <1>6, <1>7
<1> HIDE DEF D, R, added, s
<1> QED
  BY <1>4, <1>6, <1>7, <1>8, <1>9, <1>10 DEF D, s

(* A configuration from a file removes nothing and adds all its peers.     *)
FromFile(c) == \A j \in DOMAIN c.peers : ~c.peers[j].remove /\ ~c.peers[j].updateOnly

(* With the removals for what a device has, its peers afterwards are those *)
(* of the file.                                                            *)
LEMMA SyncLeaves ==
  ASSUME NEW c \in Config, FromFile(c), NEW P \in SUBSET Key, SelfKey \notin P
  PROVE  PeersAfter(SyncPeerConfigs(c, P), P) = Keys(c) \ {SelfKey}
<1> DEFINE s == SyncPeerConfigs(c, P)
<1>1. /\ s.replace = c.replace
      /\ Len(c.peers) \in Nat /\ Len(s.peers) \in Nat
      /\ DOMAIN c.peers = 1..Len(c.peers) /\ DOMAIN s.peers = 1..Len(s.peers)
      /\ Len(c.peers) <= Len(s.peers)
      /\ \A j \in 1..Len(c.peers) : s.peers[j] = c.peers[j]
      /\ \A j \in 1..Len(s.peers) : j > Len(c.peers) =>
           \E k \in P \ Keys(c) : s.peers[j] = Removal(k)
      /\ \A k \in P \ Keys(c) : \E j \in 1..Len(s.peers) : s.peers[j] = Removal(k)
  BY SyncParts
<1> HIDE DEF s
<1>2. Keys(c) \subseteq Key
  <2>1. \A j \in 1..Len(c.peers) : c.peers[j] \in PeerConfig
    BY <1>1 DEF Config
  <2>2. \A e \in PeerConfig : e.key \in Key
    BY DEF PeerConfig
  <2> QED
    BY <1>1, <2>1, <2>2 DEF Keys
<1>2a. ASSUME NEW k
      PROVE  Removal(k).key = k /\ Removal(k).remove
  BY DEF Removal
\* Only peers that the file does not mention are removed, and all of them.
<1>3. ASSUME NEW k, NEW j \in 1..Len(s.peers), Removes(s, k, j)
      PROVE  k \in P \ Keys(c) /\ j > Len(c.peers)
  <2>1. CASE j <= Len(c.peers)
    <3>1. j \in 1..Len(c.peers) /\ s.peers[j] = c.peers[j]
      BY <1>1, <2>1
    <3> QED
      BY <1>1, <1>3, <3>1 DEF FromFile, Removes
  <2>2. CASE j > Len(c.peers)
    <3>1. PICK l \in P \ Keys(c) : s.peers[j] = Removal(l)
      BY <1>1, <2>2
    <3> QED
      BY <1>3, <1>2a, <2>2, <3>1 DEF Removes
  <2> QED
    BY <1>1, <2>1, <2>2
<1>4. ASSUME NEW k \in P \ Keys(c)
      PROVE  \E j \in 1..Len(s.peers) : Removes(s, k, j)
  <2>1. PICK j \in 1..Len(s.peers) : s.peers[j] = Removal(k)
    BY <1>1
  <2> QED
    BY <1>2a, <2>1 DEF Removes
\* All peers of the file but the device itself are added.
<1>5. ASSUME NEW k, NEW j \in 1..Len(s.peers), Adds(s, k, j)
      PROVE  k \in Keys(c) \ {SelfKey}
  <2>1. j <= Len(c.peers)
    <3>1. CASE j > Len(c.peers)
      <4>1. PICK l \in P \ Keys(c) : s.peers[j] = Removal(l)
        BY <1>1, <3>1
      <4> QED
        BY <1>5, <1>2a, <4>1 DEF Adds
    <3> QED
      BY <1>1, <3>1
  <2>2. c.peers[j].key = k /\ j \in DOMAIN c.peers
    BY <1>1, <1>5, <2>1 DEF Adds
  <2> QED
    BY <1>5, <2>2 DEF Adds, Keys
<1>6. ASSUME NEW k \in Keys(c) \ {SelfKey}
      PROVE  \E j \in 1..Len(s.peers) : Adds(s, k, j)
  <2>1. PICK j \in DOMAIN c.peers : c.peers[j].key = k
    BY DEF Keys
  <2>2. j \in 1..Len(s.peers) /\ s.peers[j] = c.peers[j]
    BY <1>1
  <2> QED
    BY <2>1, <2>2 DEF Adds, FromFile
<1>7. ASSUME NEW k \in PeersAfter(s, P)
      PROVE  k \in Keys(c) \ {SelfKey}
  <2>1. CASE \E j \in DOMAIN s.peers : Adds(s, k, j)
    BY <1>1, <1>5, <2>1
  <2>2. CASE ~\E j \in DOMAIN s.peers : Adds(s, k, j)
    <3>1. k \in P /\ \A l \in DOMAIN s.peers : ~Removes(s, k, l)
      BY <2>2 DEF PeersAfter
    <3> QED
      BY <1>1, <1>4, <3>1
  <2> QED
    BY <2>1, <2>2
<1>8. ASSUME NEW k \in Keys(c) \ {SelfKey}
      PROVE  k \in PeersAfter(s, P)
  <2>1. PICK j \in 1..Len(s.peers) : Adds(s, k, j)
    BY <1>6
  <2>2. \A l \in 1..Len(s.peers) : ~Removes(s, k, l)
    BY <1>3
  <2> QED
    BY <1>1, <1>2, <2>1, <2>2 DEF PeersAfter
<1> QED
  BY <1>7, <1>8 DEF s
-----------------------------------------------------------------------------
(* The promise speaks of the same functions.                               *)
LEMMA PromisedSync ==
  ASSUME NEW c, NEW P
  PROVE  Promise!SyncPeerConfigs(c, P) = SyncPeerConfigs(c, P)
<1>1. \A k : Promise!Removal(k) = Removal(k)
  BY DEF Promise!Removal, Removal
<1>2. Promise!Keys(c) = Keys(c)
  BY DEF Promise!Keys, Keys
<1>3. \A S : Promise!SetToSeq(S) = SetToSeq(S)
  BY Zenon DEF Promise!SetToSeq, SetToSeq, Promise!Cardinality, Cardinality,
               Promise!IsInjective, IsInjective
<1>4. {Promise!Removal(k) : k \in P \ Promise!Keys(c)} = {Removal(k) : k \in P \ Keys(c)}
  BY <1>1, <1>2
<1> QED
  BY <1>3, <1>4, Zenon DEF Promise!SyncPeerConfigs, SyncPeerConfigs

(* What a handler is going to do to its device is what it was asked for,   *)
(* and Sync's look at the device is still right.                           *)
Agreed(t) ==
  /\ pc[t] = "lock" /\ req[t].via = "conf" => cfg[t] = req[t].cfg
  /\ pc[t] = "current" => cfg[t] = req[t].cfg /\ req[t].sync
  /\ pc[t] = "configure" => cfg[t] = Promise!Expanded(req[t], peers[Dev(t)])

Accepted == \A t \in Task : Agreed(t)

(* No device is a peer of its own.                                         *)
NoSelf == \A d \in Iface : SelfKey \notin peers[d]

SerialInv == InStep /\ Accepted /\ NoSelf

(* A step that leaves the devices alone is about one handler.              *)
LEMMA OthersAgree ==
  ASSUME Accepted, NEW t \in Task, UNCHANGED peers, Agreed(t)',
         \A u \in Task \ {t} : pc'[u] = pc[u] /\ req'[u] = req[u] /\ cfg'[u] = cfg[u]
  PROVE  Accepted'
<1> SUFFICES ASSUME NEW u \in Task \ {t} PROVE Agreed(u)'
  BY DEF Accepted
<1> QED
  BY DEF Accepted, Agreed, Dev

(* Every step keeps what was agreed upon.                                  *)
LEMMA AcceptedStep == ASSUME Undisturbed PROVE SerialInv /\ [Next]_vars => Accepted' /\ NoSelf'
<1> SUFFICES ASSUME SerialInv, [Next]_vars PROVE Accepted' /\ NoSelf'
  OBVIOUS
<1>1. InStep /\ TypeOK /\ Busy /\ LockHeld /\ up = Iface /\ Accepted /\ NoSelf
  BY DEF SerialInv, InStep
<1>2. Handlers = Task /\ Faults = {}
  BY DEF Undisturbed
<1>3. ASSUME NEW t \in Task, Arrive(t) PROVE Accepted' /\ NoSelf'
  <2>1. PICK r \in Request :
          /\ Goto(t, "idle", IF r.via = "post" THEN "lock" ELSE "parse")
          /\ req' = [req EXCEPT ![t] = r]
          /\ UNCHANGED <<up, peers, names, mu, cfg, exists>>
    BY <1>3 DEF Arrive
  <2>2. Agreed(t)'
    BY <1>1, <2>1 DEF Agreed, Goto, TypeOK
  <2> QED
    BY <1>1, <2>1, <2>2, OthersAgree DEF Goto, TypeOK, NoSelf
<1>4. ASSUME NEW t \in Task, Parse(t) PROVE Accepted' /\ NoSelf'
  <2>1. req[t] \in Request /\ req[t].via \in {"post", "conf"}
    BY <1>1, <1>4, RequestParts DEF Parse, Goto, Busy
  <2>2. /\ pc'[t] = IF req[t].via = "conf" THEN "lock" ELSE FirstStep(req[t])
        /\ cfg'[t] = req[t].cfg
        /\ UNCHANGED <<peers, req>>
    BY <1>1, <1>2, <1>4 DEF Parse, Goto, TypeOK
  <2>3. Agreed(t)'
    BY <2>1, <2>2 DEF Agreed, FirstStep, Promise!Expanded
  <2> QED
    BY <1>1, <1>4, <2>3, OthersAgree DEF Parse, Goto, TypeOK, NoSelf
<1>5. ASSUME NEW t \in Task, Lock(t) PROVE Accepted' /\ NoSelf'
  <2>1. req[t] \in Request /\ req[t].via \in {"post", "conf"}
    BY <1>1, <1>5, RequestParts DEF Lock, Goto, Busy
  <2>2. /\ pc[t] = "lock"
        /\ pc'[t] = IF req[t].via = "post" THEN "parse" ELSE FirstStep(req[t])
        /\ UNCHANGED <<peers, req, cfg>>
    BY <1>1, <1>5 DEF Lock, Goto, TypeOK
  <2>3. Agreed(t)'
    BY <1>1, <2>1, <2>2 DEF Accepted, Agreed, FirstStep, Promise!Expanded
  <2> QED
    BY <1>1, <1>5, <2>3, OthersAgree DEF Lock, Goto, TypeOK, NoSelf
<1>6. ASSUME NEW t \in Task, ReadCurrent(t) PROVE Accepted' /\ NoSelf'
  <2>1. /\ pc[t] = "current" /\ pc'[t] = "configure"
        /\ cfg'[t] = SyncPeerConfigs(cfg[t], peers[Dev(t)])
        /\ UNCHANGED <<peers, req>>
    BY <1>1, <1>6 DEF ReadCurrent, Goto, TypeOK
  <2>2. cfg[t] = req[t].cfg /\ req[t].sync
    BY <1>1, <2>1 DEF Accepted, Agreed
  <2>3. cfg'[t] = Promise!Expanded(req[t], peers[Dev(t)])
    BY <2>1, <2>2, PromisedSync DEF Promise!Expanded
  <2>4. Agreed(t)'
    BY <2>1, <2>3 DEF Agreed, Dev
  <2> QED
    BY <1>1, <1>6, <2>4, OthersAgree DEF ReadCurrent, Goto, TypeOK, NoSelf
<1>7. ASSUME NEW t \in Task, Configure(t) PROVE Accepted' /\ NoSelf'
  <2>1. req[t] \in Request /\ mu = t
    BY <1>1, <1>2, <1>7 DEF Configure, Goto, Busy, LockHeld
  <2>2. \A u \in Task \ {t} : pc[u] \notin {"current", "configure", "readback", "save"}
    BY <1>1, <2>1, Alone
  <2>3. /\ pc'[t] = "readback" /\ \A u \in Task \ {t} : pc'[u] = pc[u]
        /\ UNCHANGED <<req, cfg>>
    BY <1>1, <1>7 DEF Configure, Goto, TypeOK
  <2>4. Accepted'
    BY <1>1, <2>2, <2>3 DEF Accepted, Agreed
  <2>5. Dev(t) \in Iface
    BY <2>1, RequestParts DEF Dev
  <2>6. SelfKey \notin PeersAfter(cfg[t], peers[Dev(t)])
    BY <1>1, <2>5 DEF PeersAfter, Adds, NoSelf
  <2>7. NoSelf'
    BY <1>1, <1>7, <2>5, <2>6 DEF NoSelf, Configure, TypeOK
  <2> QED
    BY <2>4, <2>7
<1>8. ASSUME NEW t \in Task, ParseFails(t) \/ ReadBack(t) \/ Save(t) \/ Reply(t)
      PROVE  Accepted' /\ NoSelf'
  <2>1. /\ pc'[t] \in {"save", "reply", "idle"} /\ UNCHANGED peers
        /\ \A u \in Task \ {t} : pc'[u] = pc[u] /\ req'[u] = req[u] /\ cfg'[u] = cfg[u]
    BY <1>1, <1>8 DEF ParseFails, ReadBack, Save, Reply, Goto, TypeOK
  <2>2. Agreed(t)'
    BY <2>1 DEF Agreed
  <2> QED
    BY <1>1, <2>1, <2>2, OthersAgree DEF NoSelf
<1>9. ASSUME NEW t \in Task PROVE ~NoSuchDevice(t) /\ ~ConfigureFails(t) /\ ~SaveFails(t)
  BY <1>1, <1>2, RequestParts DEF NoSuchDevice, ConfigureFails, SaveFails, Dev, Busy
<1>10. /\ \A T : ~Stop(T)
       /\ \A d \in Iface : ~LinkDel(d) /\ ~LinkAdd(d)
  BY <1>1, <1>2 DEF Stop, LinkDel, LinkAdd
<1>11. CASE UNCHANGED vars
  BY <1>1, <1>11 DEF vars, Accepted, Agreed, Dev, NoSelf
<1> QED
  BY <1>3, <1>4, <1>5, <1>6, <1>7, <1>8, <1>9, <1>10, <1>11 DEF Next, Step, Fails

(* The invariant of an undisturbed server.                                 *)
LEMMA SerialInvariant == ASSUME Undisturbed PROVE Spec => []SerialInv
<1>1. Init => SerialInv
  <2> SUFFICES ASSUME Init PROVE SerialInv
    OBVIOUS
  <2>1. Accepted
    BY DEF Init, Accepted, Agreed
  <2>2. NoSelf
    BY DEF Init, NoSelf
  <2> QED
    BY <2>1, <2>2, InitInStep DEF SerialInv
<1>2. SerialInv /\ [Next]_vars => SerialInv'
  BY StepInStep, AcceptedStep DEF SerialInv
<1> QED
  BY <1>1, <1>2, PTL DEF Spec
-----------------------------------------------------------------------------
(* syncconf reads files: wgconfig.Parse knows no removals, and updates     *)
(* nothing only.                                                           *)
SyncsFiles == \A r \in Request : r.sync => FromFile(r.cfg)

(* The step from "configure" to "readback" is Configure.                   *)
LEMMA OnlyConfigure ==
  ASSUME Undisturbed, SerialInv, [Next]_vars, NEW t \in Task,
         pc[t] = "configure", pc'[t] = "readback"
  PROVE  Configure(t)
<1>1. pc \in [Task -> PCs] /\ Faults = {} /\ Handlers = Task
  BY DEF SerialInv, InStep, TypeOK, Undisturbed
<1>2. ASSUME NEW u \in Task,
             \/ Arrive(u) \/ Parse(u) \/ ParseFails(u) \/ Lock(u) \/ ReadCurrent(u)
             \/ ReadBack(u) \/ NoSuchDevice(u) \/ Save(u) \/ Reply(u)
      PROVE  FALSE
  <2>1. ASSUME NEW from, NEW to, Goto(u, from, to), from # "configure" \/ to # "readback"
        PROVE  FALSE
    BY <1>1, <2>1 DEF Goto
  <2>2. CASE NoSuchDevice(u)
    BY <1>1, <2>2 DEF NoSuchDevice
  <2>3. CASE Arrive(u)
    BY <2>1, <2>3 DEF Arrive
  <2>4. CASE Parse(u) \/ ParseFails(u) \/ Lock(u) \/ ReadCurrent(u) \/ ReadBack(u)
             \/ Save(u) \/ Reply(u)
    BY <2>1, <2>4 DEF Parse, ParseFails, Lock, ReadCurrent, ReadBack, Save, Reply
  <2> QED
    BY <1>2, <2>2, <2>3, <2>4
<1>3. ASSUME NEW u \in Task, Configure(u) PROVE Configure(t)
  <2>1. u = t
    BY <1>1, <1>3 DEF Configure, Goto
  <2> QED
    BY <1>3, <2>1
<1>4. ASSUME NEW u \in Task PROVE ~ConfigureFails(u) /\ ~SaveFails(u)
  BY <1>1 DEF ConfigureFails, SaveFails
<1>5. /\ \A T : ~Stop(T)
      /\ \A d \in Iface : ~LinkDel(d)
      /\ \A d \in Iface : ~LinkAdd(d)
  BY <1>1 DEF Stop, LinkDel, LinkAdd
<1>6. ~UNCHANGED vars
  BY DEF vars
<1> QED
  BY <1>2, <1>3, <1>4, <1>5, <1>6 DEF Next, Step, Fails

(* syncconf leaves exactly the peers that its file names: what Sync read   *)
(* of the device is still true when the removals arrive there.             *)
LEMMA SyncStep ==
  ASSUME Undisturbed, SyncsFiles, SerialInv, [Next]_vars, NEW t \in Task,
         pc[t] = "configure", pc'[t] = "readback", req[t].sync
  PROVE  peers'[Dev(t)] = Keys(req[t].cfg) \ {SelfKey}
<1> DEFINE d == Dev(t)
           c == req[t].cfg
<1>1. Configure(t)
  BY OnlyConfigure
<1>2. TypeOK /\ Busy /\ Accepted /\ NoSelf
  BY DEF SerialInv, InStep
<1>3. req[t] \in Request
  BY <1>2 DEF Busy
<1>4. d \in Iface /\ c \in Config /\ FromFile(c)
  BY <1>3, RequestParts DEF Dev, SyncsFiles
<1>5. cfg[t] = SyncPeerConfigs(c, peers[d])
  BY <1>2, PromisedSync DEF Accepted, Agreed, Promise!Expanded
<1>6. peers'[d] = PeersAfter(cfg[t], peers[d])
  BY <1>1, <1>2, <1>4 DEF Configure, TypeOK
<1>7. peers[d] \in SUBSET Key /\ SelfKey \notin peers[d]
  BY <1>2, <1>4 DEF TypeOK, NoSelf
<1> QED
  BY <1>4, <1>5, <1>6, <1>7, SyncLeaves

(* "The peers of the target configuration and of the device are the same"  *)
(* (conf.go:68-69), however many handlers sync at the same time.           *)
THEOREM SyncIsExact == ASSUME Undisturbed, SyncsFiles PROVE Spec => SyncExact
<1>1. SerialInv /\ [Next]_vars =>
        [\A t \in Task :
           pc[t] = "configure" /\ pc'[t] = "readback" /\ req[t].sync
             => peers'[Dev(t)] = Keys(req[t].cfg) \ {SelfKey}]_vars
  BY SyncStep
<1> QED
  BY <1>1, SerialInvariant, PTL DEF Spec, SyncExact
-----------------------------------------------------------------------------
(* The promise applies a configuration to peers and names as Apply does.   *)
LEMMA PromisedFunctions ==
  ASSUME NEW c, NEW P, NEW nm
  PROVE  /\ Promise!PeersAfter(c, P) = PeersAfter(c, P)
         /\ Promise!NamesAfter(c, P, nm) = NamesAfter(c, P, nm)
<1>1. Promise!PeersAfter(c, P) = PeersAfter(c, P)
  BY Zenon DEF Promise!PeersAfter, PeersAfter, Promise!Adds, Adds, Promise!Removes, Removes
<1>2. Promise!NamesAfter(c, P, nm) = NamesAfter(c, P, nm)
  BY Zenon DEF Promise!NamesAfter, NamesAfter, Promise!LastDecides, LastDecides,
               Promise!Decides, Decides, Promise!EntryName, EntryName
<1> QED
  BY <1>1, <1>2

(* The task whose names an interface is waiting for.                       *)
Saver(T) == CHOOSE t \in T : TRUE

(* What the names of an interface count as.                                *)
LEMMA SettledNames ==
  ASSUME NEW d \in Iface
  PROVE  settledNames[d] =
           IF Unsaved(d) = {} THEN names[FileOf[d]]
           ELSE NamesAfter(cfg[Saver(Unsaved(d))], peers[d], names[FileOf[d]])
  BY DEF settledNames, Saver

(* And after a step.                                                       *)
LEMMA SettledNamesNext ==
  ASSUME NEW d \in Iface
  PROVE  settledNames'[d] =
           IF Unsaved(d)' = {} THEN names'[FileOf[d]]
           ELSE NamesAfter(cfg'[Saver(Unsaved(d)')], peers'[d], names'[FileOf[d]])
  BY DEF settledNames, Saver

(* They are a function of the interfaces.                                  *)
LEMMA SettledDomain ==
  /\ settledNames = [d \in Iface |-> settledNames[d]]
  /\ settledNames' = [d \in Iface |-> settledNames'[d]]
  BY DEF settledNames

(* Steps after which the same tasks are going to save the same names.      *)
LEMMA SettledStays ==
  ASSUME UNCHANGED <<peers, names>>,
         \A d \in Iface : Unsaved(d)' = Unsaved(d),
         \A t \in Task : pc[t] \in {"readback", "save"} => cfg'[t] = cfg[t]
  PROVE  UNCHANGED <<peers, settledNames>>
<1>1. ASSUME NEW d \in Iface
      PROVE  settledNames'[d] = settledNames[d]
  <2>1. CASE Unsaved(d) = {}
    BY <2>1, SettledNames, SettledNamesNext
  <2>2. CASE Unsaved(d) # {}
    <3>1. Saver(Unsaved(d)) \in Unsaved(d)
      BY <2>2 DEF Saver
    <3>2. cfg'[Saver(Unsaved(d))] = cfg[Saver(Unsaved(d))]
      BY <3>1 DEF Unsaved
    <3> QED
      BY <2>2, <3>2, SettledNames, SettledNamesNext
  <2> QED
    BY <2>1, <2>2
<1> QED
  BY <1>1, SettledDomain

(* A step of a task that is not about to save is not seen.                 *)
LEMMA UnseenStep ==
  ASSUME NEW t \in Task, UNCHANGED <<peers, names>>,
         \/ pc[t] \notin {"readback", "save"} /\ pc'[t] \notin {"readback", "save"}
         \/ /\ pc[t] \in {"readback", "save"} /\ pc'[t] \in {"readback", "save"}
            /\ req'[t] = req[t] /\ cfg'[t] = cfg[t],
         \A u \in Task \ {t} : pc'[u] = pc[u] /\ req'[u] = req[u] /\ cfg'[u] = cfg[u]
  PROVE  UNCHANGED <<peers, settledNames>>
<1>1. \A d \in Iface : Unsaved(d)' = Unsaved(d)
  BY DEF Unsaved, Dev
<1>2. \A u \in Task : pc[u] \in {"readback", "save"} => cfg'[u] = cfg[u]
  OBVIOUS
<1> QED
  BY <1>1, <1>2, SettledStays

(* Configuring the device is the moment at which a request is served.      *)
LEMMA ConfigureServes ==
  ASSUME Undisturbed, SerialInv, NEW t \in Task, Configure(t),
         NEW d \in Iface, d = Dev(t)
  PROVE  Promise!Serve(req[t]) /\ req[t] \in Request
<1> DEFINE after == PeersAfter(cfg[t], peers[d])
           nm == NamesAfter(cfg[t], after, names[FileOf[d]])
<1>1. TypeOK /\ Busy /\ LockHeld /\ Accepted /\ InStep /\ Handlers = Task
  BY DEF SerialInv, InStep, Undisturbed
<1>2. /\ pc[t] = "configure" /\ pc'[t] = "readback"
      /\ \A u \in Task \ {t} : pc'[u] = pc[u]
      /\ UNCHANGED <<up, names, mu, req, cfg, exists>>
      /\ peers' = [peers EXCEPT ![d] = after]
  BY <1>1 DEF Configure, Goto, TypeOK
<1>3. req[t] \in Request /\ mu = t
  BY <1>1, <1>2 DEF Busy, LockHeld
<1>4. d \in Iface /\ d = req[t].iface
  BY DEF Dev
<1>5. \A u \in Task \ {t} : pc[u] \notin {"readback", "save"}
  BY <1>1, <1>3, Alone
<1>6. \A e \in Iface : Unsaved(e) = {}
  BY <1>2, <1>5 DEF Unsaved
<1>7. Unsaved(d)' = {t} /\ \A e \in Iface \ {d} : Unsaved(e)' = {}
  BY <1>2, <1>5 DEF Unsaved, Dev
<1>8. Saver({t}) = t
  BY DEF Saver
<1>9. peers'[d] = after /\ peers \in [Iface -> SUBSET Key]
  BY <1>1, <1>2, <1>4 DEF TypeOK
<1>10. cfg[t] = Promise!Expanded(req[t], peers[d])
  BY <1>1, <1>2 DEF Accepted, Agreed
<1>11. \A e \in Iface : settledNames[e] = names[FileOf[e]]
  BY <1>6, SettledNames
<1>12. settledNames'[d] = nm
  <2>1. Unsaved(d)' # {} /\ Saver(Unsaved(d)') = t /\ cfg' = cfg /\ names' = names
    BY <1>2, <1>7, <1>8
  <2> HIDE DEF after
  <2> QED
    BY <1>4, <1>9, <2>1, SettledNamesNext
<1>13. \A e \in Iface \ {d} : settledNames'[e] = settledNames[e]
  BY <1>2, <1>7, <1>11, SettledNamesNext
<1> HIDE DEF after, nm
<1>14. settledNames' = [settledNames EXCEPT ![d] = nm]
  BY <1>4, <1>12, <1>13, SettledDomain
<1>15. nm = NamesAfter(cfg[t], after, settledNames[d])
  BY <1>4, <1>11 DEF nm
<1>16. /\ peers' = [peers EXCEPT ![d] = Promise!PeersAfter(cfg[t], peers[d])]
       /\ settledNames' = [settledNames EXCEPT ![d] =
            Promise!NamesAfter(cfg[t], Promise!PeersAfter(cfg[t], peers[d]), settledNames[d])]
  <2>1. Promise!PeersAfter(cfg[t], peers[d]) = after
    BY PromisedFunctions DEF after
  <2>2. Promise!NamesAfter(cfg[t], after, settledNames[d]) = nm
    BY <1>15, PromisedFunctions
  <2> QED
    BY <1>2, <1>14, <2>1, <2>2, Zenon
<1> QED
  BY <1>3, <1>4, <1>10, <1>16, Zenon DEF Promise!Serve

(* Saving the names only brings the file up to what it counts as.          *)
LEMMA SaveUnseen ==
  ASSUME Undisturbed, SerialInv, NEW t \in Task, Save(t)
  PROVE  UNCHANGED <<peers, settledNames>>
<1> DEFINE d == Dev(t)
           nm == NamesAfter(cfg[t], peers[d], names[FileOf[d]])
<1>1. TypeOK /\ Busy /\ LockHeld /\ Fresh /\ InStep /\ Handlers = Task
  BY DEF SerialInv, InStep, Undisturbed
<1>2. /\ pc[t] = "save" /\ pc'[t] = "reply"
      /\ \A u \in Task \ {t} : pc'[u] = pc[u]
      /\ UNCHANGED <<up, peers, mu, req, cfg, exists>>
      /\ names' = [names EXCEPT ![FileOf[d]] = NamesAfter(cfg[t], exists[t], @)]
  BY <1>1 DEF Save, Goto, TypeOK, Path
<1>3. req[t] \in Request /\ mu = t /\ exists[t] = peers[d]
  BY <1>1, <1>2 DEF Busy, LockHeld, Fresh
<1>4. d \in Iface /\ FileOf[d] \in File
  BY <1>3, RequestParts DEF Dev
<1>5. \A u \in Task \ {t} : pc[u] \notin {"readback", "save"}
  BY <1>1, <1>3, Alone
<1>6. Unsaved(d) = {t} /\ \A e \in Iface \ {d} : Unsaved(e) = {}
  BY <1>2, <1>5 DEF Unsaved, Dev
<1>7. \A e \in Iface : Unsaved(e)' = {}
  BY <1>2, <1>5 DEF Unsaved
<1>8. names'[FileOf[d]] = nm /\ \A f \in File \ {FileOf[d]} : names'[f] = names[f]
  BY <1>1, <1>2, <1>3, <1>4 DEF TypeOK
<1>9. settledNames[d] = nm
  <2>1. Saver(Unsaved(d)) = t
    BY <1>6 DEF Saver
  <2> QED
    BY <1>4, <1>6, <2>1, SettledNames
<1> HIDE DEF nm
<1>10. settledNames'[d] = nm
  BY <1>4, <1>7, <1>8, SettledNamesNext
<1>11. ASSUME NEW e \in Iface \ {d}
       PROVE  settledNames'[e] = settledNames[e]
  <2>1. FileOf[e] \in File \ {FileOf[d]}
    BY <1>4, FileOfType DEF Undisturbed
  <2> QED
    BY <1>6, <1>7, <1>8, <2>1, SettledNames, SettledNamesNext
<1> QED
  BY <1>2, <1>9, <1>10, <1>11, SettledDomain

(* Each step serves one request or is not seen.                            *)
LEMMA StepSerial ==
  ASSUME Undisturbed
  PROVE  SerialInv /\ [Next]_vars => [Promise!Next]_Promise!vars
<1> SUFFICES ASSUME SerialInv, [Next]_vars
             PROVE  Promise!Next \/ UNCHANGED <<peers, settledNames>>
  BY DEF Promise!vars
<1>1. TypeOK /\ up = Iface /\ Busy /\ Handlers = Task /\ Faults = {}
  BY DEF SerialInv, InStep, Undisturbed
<1>2. ASSUME NEW t \in Task, Configure(t) PROVE Promise!Next
  <2>1. Dev(t) \in Iface
    BY <1>1, <1>2, RequestParts DEF Configure, Goto, Busy, Dev
  <2>2. PICK d \in Iface : d = Dev(t)
    BY <2>1
  <2> QED
    BY <1>2, <2>2, ConfigureServes DEF Promise!Next
<1>3. ASSUME NEW t \in Task, Save(t) PROVE UNCHANGED <<peers, settledNames>>
  BY <1>3, SaveUnseen
<1>4. ASSUME NEW t \in Task, Arrive(t) PROVE UNCHANGED <<peers, settledNames>>
  BY <1>1, <1>4, UnseenStep DEF Arrive, Goto, TypeOK
<1>5. ASSUME NEW t \in Task, Parse(t) \/ Lock(t)
      PROVE  UNCHANGED <<peers, settledNames>>
  <2>1. req[t] \in Request
    BY <1>1, <1>5 DEF Parse, Lock, Goto, Busy
  <2>2. /\ pc[t] \in {"parse", "lock"} /\ pc'[t] \in {"parse", "lock", "current", "configure"}
        /\ UNCHANGED <<peers, names, req>>
        /\ \A u \in Task \ {t} : pc'[u] = pc[u] /\ cfg'[u] = cfg[u]
    BY <1>1, <1>5, <2>1, RequestParts DEF Parse, Lock, Goto, TypeOK
  <2> QED
    BY <2>2, UnseenStep
<1>6. ASSUME NEW t \in Task, ParseFails(t) \/ ReadCurrent(t) \/ ReadBack(t) \/ Reply(t)
      PROVE  UNCHANGED <<peers, settledNames>>
  <2>1. /\ UNCHANGED <<peers, names>>
        /\ \A u \in Task \ {t} : pc'[u] = pc[u] /\ req'[u] = req[u] /\ cfg'[u] = cfg[u]
        /\ \/ pc[t] \notin {"readback", "save"} /\ pc'[t] \notin {"readback", "save"}
           \/ /\ pc[t] \in {"readback", "save"} /\ pc'[t] \in {"readback", "save"}
              /\ req'[t] = req[t] /\ cfg'[t] = cfg[t]
    BY <1>1, <1>6 DEF ParseFails, ReadCurrent, ReadBack, Reply, Goto, TypeOK
  <2> QED
    BY <2>1, UnseenStep
<1>7. ASSUME NEW t \in Task PROVE ~NoSuchDevice(t) /\ ~ConfigureFails(t) /\ ~SaveFails(t)
  BY <1>1, RequestParts DEF NoSuchDevice, ConfigureFails, SaveFails, Dev, Busy
<1>8. /\ \A T : ~Stop(T)
      /\ \A d \in Iface : ~LinkDel(d)
      /\ \A d \in Iface : ~LinkAdd(d)
  BY <1>1 DEF Stop, LinkDel, LinkAdd
<1>9. ASSUME UNCHANGED vars PROVE UNCHANGED <<peers, settledNames>>
  BY <1>9, SettledStays DEF vars, Unsaved, Dev
<1> QED
  BY <1>2, <1>3, <1>4, <1>5, <1>6, <1>7, <1>8, <1>9 DEF Next, Step, Fails

(* The start is one of the promise's.                                      *)
LEMMA InitSerial == ASSUME Undisturbed PROVE Init => Promise!Init
<1> SUFFICES ASSUME Init PROVE Promise!Init
  OBVIOUS
<1>1. InStep
  BY InitInStep
<1>2. \A d \in Iface : Unsaved(d) = {}
  BY DEF Init, Unsaved
<1>3. \A d \in Iface : /\ settledNames[d] = names[FileOf[d]]
                       /\ names[FileOf[d]] \in NameMap
                       /\ Named(names[FileOf[d]]) \subseteq peers[d]
  BY <1>1, <1>2, FileOfType, SettledNames DEF InStep, TypeOK, NamesFollowDevice
<1>4. settledNames \in [Iface -> NameMap]
  BY <1>3, SettledDomain
<1> QED
  BY <1>3, <1>4 DEF Init, Promise!Init, Promise!NameMap, NameMap, Promise!Named, Named

(* "mu serialises all writes" (server.go:42): requests of any number of    *)
(* handlers on any number of interfaces have the effect of each changing   *)
(* the device and its names in one step.                                   *)
THEOREM RequestsAreSerialised == ASSUME Undisturbed PROVE Spec => Serialised
  BY InitSerial, StepSerial, SerialInvariant, PTL DEF Spec, Serialised, Promise!Spec
=============================================================================
