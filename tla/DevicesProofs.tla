--------------------------- MODULE DevicesProofs ---------------------------
(***************************************************************************)
(* Proofs about Devices: its types and what its calls promise.  A device   *)
(* that is being read is a device that there was during the call, of which *)
(* `got' is the beginning and `rest' the end; one peer may be cut between  *)
(* the two (Joined).  What a call concludes of many devices, and of none,  *)
(* rests on what it has asked for so far (Progress).                       *)
(***************************************************************************)
EXTENDS Devices, FiniteSetTheorems, SequenceTheorems, TLAPS

(* p is what g and r have together; o = 1 when the last peer of g goes on  *)
(* at the head of r.                                                       *)
Joined(p, g, r, o) ==
  /\ o \in {0, 1} /\ o <= Len(g) /\ o <= Len(r)
  /\ Len(p) = Len(g) - o + Len(r)
  /\ \A i \in 1..Len(g) : g[i].key = p[i].key
  /\ \A i \in 1..(Len(g) - o) : g[i] = p[i]
  /\ \A j \in 1..Len(r) : r[j].key = p[Len(g) - o + j].key
  /\ \A j \in (1 + o)..Len(r) : r[j] = p[Len(g) - o + j]
  /\ o = 1 => /\ p[Len(g)].ips = g[Len(g)].ips \o r[1].ips
              /\ r[1].ips # <<>>

Distinct(p) == \A i, j \in DOMAIN p : p[i].key = p[j].key => i = j

Cut(r, n) ==
  IF n = Len(Head(r).ips) THEN Tail(r)
  ELSE <<[Head(r) EXCEPT !.ips = SubSeq(@, n + 1, Len(@))]>> \o Tail(r)

Taken(g, r, o, n) ==
  IF o = 1 THEN [g EXCEPT ![Len(g)].ips = @ \o SubSeq(Head(r).ips, 1, n)]
  ELSE Append(g, [Head(r) EXCEPT !.ips = SubSeq(@, 1, n)])

(* Two parts of a list are the list: what Remains cuts off is what Piece   *)
(* takes.                                                                  *)
LEMMA Halves ==
  ASSUME NEW s \in Seq(IP), NEW n \in 0..Len(s)
  PROVE  /\ SubSeq(s, 1, n) \in Seq(IP) /\ SubSeq(s, n + 1, Len(s)) \in Seq(IP)
         /\ SubSeq(s, 1, n) \o SubSeq(s, n + 1, Len(s)) = s
         /\ n = Len(s) => SubSeq(s, 1, n) = s
         /\ n # Len(s) => SubSeq(s, n + 1, Len(s)) # <<>>
<1>1. SubSeq(s, 1, n) \in Seq(IP) /\ Len(SubSeq(s, 1, n)) = n
  BY SubSeqProperties
<1>2. SubSeq(s, n + 1, Len(s)) \in Seq(IP)
  BY SubSeqProperties
<1>3. Len(SubSeq(s, n + 1, Len(s))) = Len(s) - n
  BY SubSeqProperties
<1>4. SubSeq(s, 1, n) \o SubSeq(s, n + 1, Len(s)) = s
  <2>1. /\ Len(s) \in Nat /\ 1 \in 1..(Len(s) + 1) /\ n \in (1 - 1)..Len(s)
        /\ Len(s) \in n..Len(s)
    OBVIOUS
  <2>2. SubSeq(s, 1, n) \o SubSeq(s, n + 1, Len(s)) = SubSeq(s, 1, Len(s))
    BY <2>1, ConcatAdjacentSubSeq
  <2> QED
    BY <2>2, SubSeqFull
<1>5. n = Len(s) => SubSeq(s, 1, n) = s
  BY SubSeqFull
<1>6. n # Len(s) => SubSeq(s, n + 1, Len(s)) # <<>>
  <2> DEFINE u == SubSeq(s, n + 1, Len(s))
  <2>1. u \in Seq(IP) /\ Len(u) = Len(s) - n
    BY <1>2, <1>3
  <2> HIDE DEF u
  <2>2. n # Len(s) => u # <<>>
    BY <2>1, EmptySeq
  <2> QED
    BY <2>2 DEF u
<1> QED
  BY <1>1, <1>2, <1>4, <1>5, <1>6

(* Peers of Device with the same key and allowed IPs are the same.         *)
LEMMA PeerEqual ==
  ASSUME NEW x \in Peer, NEW y \in Peer, x.key = y.key, x.ips = y.ips
  PROVE  x = y
BY DEF Peer

(* Each part of an answer moves the cut on: mergeDevices and peerParse     *)
(* neither lose nor repeat an IP (parse_linux.go:300, parse.go:148).       *)
LEMMA MovesOn ==
  ASSUME NEW p \in Seq(Peer), NEW g \in Seq(Peer), NEW r \in Seq(Peer),
         NEW o, Joined(p, g, r, o), r # <<>>, NEW n \in 0..Len(Head(r).ips)
  PROVE  /\ Taken(g, r, o, n) \in Seq(Peer)
         /\ Cut(r, n) \in Seq(Peer)
         /\ Joined(p, Taken(g, r, o, n), Cut(r, n), IF n = Len(Head(r).ips) THEN 0 ELSE 1)
<1> DEFINE h == Head(r)
           t == Tail(r)
           g2 == Taken(g, r, o, n)
           r2 == Cut(r, n)
           a == SubSeq(h.ips, 1, n)
           b == SubSeq(h.ips, n + 1, Len(h.ips))
<1>1. /\ h \in Peer /\ h = r[1] /\ t \in Seq(Peer) /\ Len(t) = Len(r) - 1
      /\ \A j \in 1..Len(t) : t[j] = r[j + 1]
      /\ h.ips \in Seq(IP) /\ h.key \in Key
  <2>1. /\ h \in Peer /\ t \in Seq(Peer) /\ Len(t) = Len(r) - 1
        /\ \A j \in 1..Len(t) : t[j] = r[j + 1]
    BY HeadTailProperties
  <2>2. h = r[1]
    OBVIOUS
  <2>3. h.ips \in Seq(IP) /\ h.key \in Key
    BY <2>1 DEF Peer
  <2> QED
    BY <2>1, <2>2, <2>3
<1>2. /\ a \in Seq(IP) /\ b \in Seq(IP) /\ a \o b = h.ips
      /\ n = Len(h.ips) => a = h.ips
      /\ n # Len(h.ips) => b # <<>>
  BY <1>1, Halves
<1>3. o \in {0, 1} /\ Len(g) \in Nat /\ Len(r) \in Nat /\ Len(r) > 0
  BY DEF Joined
<1>4. /\ g2 \in Seq(Peer)
      /\ Len(g2) = Len(g) + 1 - o
      /\ \A i \in 1..(Len(g) - o) : g2[i] = g[i]
      /\ g2[Len(g2)].key = h.key
      /\ o = 0 => g2[Len(g2)].ips = a
      /\ o = 1 => g2[Len(g2)].ips = g[Len(g)].ips \o a
  <2>1. CASE o = 0
    <3>1. g2 = Append(g, [h EXCEPT !.ips = a])
      BY <2>1 DEF Taken
    <3>2. [h EXCEPT !.ips = a] \in Peer
      BY <1>1, <1>2 DEF Peer
    <3>3. [h EXCEPT !.ips = a].key = h.key /\ [h EXCEPT !.ips = a].ips = a
      BY <1>1 DEF Peer
    <3> DEFINE e == [h EXCEPT !.ips = a]
    <3>4. /\ g2 = Append(g, e) /\ e \in Peer /\ e.key = h.key /\ e.ips = a
      BY <3>1, <3>2, <3>3
    <3> HIDE DEF e, g2, h, a
    <3>5. /\ g2 \in Seq(Peer) /\ Len(g2) = Len(g) + 1
          /\ \A i \in 1..Len(g) : g2[i] = g[i]
          /\ g2[Len(g) + 1] = e
      BY <3>4, AppendProperties
    <3> QED
      BY <2>1, <3>4, <3>5
  <2>2. CASE o = 1
    <3>1. Len(g) \in 1..Len(g) /\ g[Len(g)] \in Peer /\ g[Len(g)].key = h.key
      <4>1. Len(g) >= 1 /\ Len(g) - o + 1 = Len(g)
        BY <2>2 DEF Joined
      <4>2. g[Len(g)].key = p[Len(g)].key /\ r[1].key = p[Len(g)].key
        BY <1>3, <2>2, <4>1 DEF Joined
      <4>3. g[Len(g)] \in Peer
        BY <1>3, <4>1, ElementOfSeq
      <4> QED
        BY <1>1, <1>3, <4>1, <4>2, <4>3
    <3>2. g2 = [g EXCEPT ![Len(g)] = [g[Len(g)] EXCEPT !.ips = g[Len(g)].ips \o a]]
      BY <2>2 DEF Taken
    <3>3. g[Len(g)].ips \o a \in Seq(IP)
      <4>1. g[Len(g)].ips \in Seq(IP)
        BY <3>1 DEF Peer
      <4> QED
        BY <4>1, <1>2, ConcatProperties
    <3>4. [g[Len(g)] EXCEPT !.ips = g[Len(g)].ips \o a] \in Peer
      BY <3>1, <3>3 DEF Peer
    <3> DEFINE e == [g[Len(g)] EXCEPT !.ips = g[Len(g)].ips \o a]
    <3>5. g2 = [g EXCEPT ![Len(g)] = e] /\ e \in Peer
      BY <3>2, <3>4
    <3>6. e.key = h.key /\ e.ips = g[Len(g)].ips \o a
      BY <3>1 DEF Peer
    <3> HIDE DEF e, g2, h, a
    <3>7. /\ g2 \in Seq(Peer) /\ Len(g2) = Len(g)
          /\ \A i \in 1..Len(g) : g2[i] = IF i = Len(g) THEN e ELSE g[i]
      BY <3>1, <3>5, ExceptSeq
    <3>8. \A i \in 1..(Len(g) - o) : g2[i] = g[i]
      BY <1>3, <2>2, <3>7
    <3>9. g2[Len(g2)] = e /\ Len(g2) = Len(g) + 1 - o
      BY <1>3, <2>2, <3>1, <3>7
    <3> QED
      BY <2>2, <3>6, <3>7, <3>8, <3>9
  <2> QED
    BY <1>3, <2>1, <2>2
<1> DEFINE h2 == [h EXCEPT !.ips = b]
<1>7. /\ r2 = IF n = Len(h.ips) THEN t ELSE <<h2>> \o t
      /\ h2 \in Peer /\ h2.key = h.key /\ h2.ips = b
  BY <1>1, <1>2 DEF Cut, Peer
<1>8. Joined(p, g, r, o) /\ n \in 0..Len(h.ips)
  OBVIOUS
<1> HIDE DEF h, t, g2, r2, a, b, h2
<1>9. /\ o <= Len(g) /\ o <= Len(r)
      /\ Len(g2) = Len(g) - o + 1 /\ Len(p) = Len(g) - o + Len(r)
      /\ Len(g2) \in 1..Len(p) /\ Len(g2) \in 1..Len(g2)
  <2>1. o <= Len(g) /\ o <= Len(r) /\ Len(p) = Len(g) - o + Len(r)
    BY <1>8 DEF Joined
  <2> QED
    BY <2>1, <1>3, <1>4
<1>10. p[Len(g2)].key = h.key
  <2>1. r[1].key = p[Len(g) - o + 1].key
    BY <1>3, <1>8 DEF Joined
  <2> QED
    BY <2>1, <1>1, <1>9
<1>11. ASSUME NEW i \in 1..(Len(g2) - 1)
       PROVE  g2[i] = p[i]
  <2>1. i \in 1..(Len(g) - o)
    BY <1>3, <1>9
  <2>2. g2[i] = g[i]
    BY <2>1, <1>4
  <2>3. g[i] = p[i]
    BY <2>1, <1>8 DEF Joined
  <2> QED
    BY <2>2, <2>3
<1>12. ASSUME NEW j \in 2..Len(r)
       PROVE  r[j] = p[Len(g2) - 1 + j]
  <2>1. j \in (1 + o)..Len(r)
    BY <1>3
  <2>2. r[j] = p[Len(g) - o + j]
    BY <2>1, <1>8 DEF Joined
  <2> QED
    BY <2>2, <1>3, <1>9
<1>13. /\ p[Len(g2)].ips = g2[Len(g2)].ips \o b
       /\ n = Len(h.ips) => p[Len(g2)].ips = g2[Len(g2)].ips
  <2>1. CASE o = 0
    <3>1. r[1] = p[Len(g) - o + 1]
      BY <2>1, <1>3, <1>8 DEF Joined
    <3>2. p[Len(g2)] = h
      BY <3>1, <1>1, <1>9
    <3> QED
      BY <2>1, <3>2, <1>2, <1>4
  <2>2. CASE o = 1
    <3> DEFINE x == g[Len(g)].ips
    <3>1. x \in Seq(IP)
      <4>1. Len(g) \in 1..Len(g)
        BY <2>2, <1>3, <1>9
      <4>2. g[Len(g)] \in Peer
        BY <4>1, ElementOfSeq
      <4> QED
        BY <4>2 DEF Peer
    <3>2. Len(g2) = Len(g)
      BY <2>2, <1>3, <1>9
    <3>3. p[Len(g2)].ips = x \o h.ips
      <4>1. p[Len(g)].ips = g[Len(g)].ips \o r[1].ips
        BY <2>2, <1>8 DEF Joined
      <4> QED
        BY <4>1, <3>2, <1>1
    <3>4. g2[Len(g2)].ips = x \o a
      BY <2>2, <1>4
    <3> HIDE DEF x
    <3>5. a \in Seq(IP) /\ b \in Seq(IP)
      BY <1>2
    <3>6. (x \o a) \o b = x \o (a \o b)
      <4> HIDE DEF a, b
      <4> DEFINE Associative(S) == \A v, w, z \in Seq(S) : (v \o w) \o z = v \o (w \o z)
      <4>1. ASSUME NEW S PROVE Associative(S)
        BY ONLY ConcatAssociative, SMTT(30)
      <4>2. Associative(IP)
        <5> HIDE DEF Associative
        <5> QED
          BY <4>1
      <4> QED
        BY ONLY <3>1, <3>5, <4>2
    <3>7. a \o b = h.ips /\ (n = Len(h.ips) => a = h.ips)
      BY <1>2
    <3> QED
      BY <3>3, <3>4, <3>6, <3>7
  <2> QED
    BY <1>3, <2>1, <2>2
<1>14. /\ Len(g2) \in Nat /\ g2[Len(g2)].key = p[Len(g2)].key
       /\ \A i \in 1..Len(g2) : g2[i].key = p[i].key
  <2>1. Len(g2) \in Nat /\ g2[Len(g2)].key = p[Len(g2)].key
    BY <1>4, <1>9, <1>10
  <2>2. ASSUME NEW i \in 1..Len(g2) PROVE g2[i].key = p[i].key
    <3>1. i = Len(g2) \/ i \in 1..(Len(g2) - 1)
      BY <2>1
    <3> QED
      BY <3>1, <2>1, <1>11
  <2> QED
    BY <2>1, <2>2
<1>5. CASE n = Len(h.ips)
  <2>1. r2 = t
    BY <1>5, <1>7
  <2>2. g2[Len(g2)] = p[Len(g2)]
    <3>1. g2[Len(g2)] \in Peer /\ p[Len(g2)] \in Peer
      BY <1>4, <1>9, ElementOfSeq
    <3>2. g2[Len(g2)].key = p[Len(g2)].key /\ g2[Len(g2)].ips = p[Len(g2)].ips
      BY <1>5, <1>13, <1>14
    <3> QED
      BY <3>1, <3>2, PeerEqual
  <2>3. ASSUME NEW i \in 1..(Len(g2) - 0) PROVE g2[i] = p[i]
    <3>1. i = Len(g2) \/ i \in 1..(Len(g2) - 1)
      BY <1>14
    <3> QED
      BY <3>1, <2>2, <1>11
  <2>4. Len(p) = Len(g2) - 0 + Len(r2) /\ Len(r2) \in Nat
    BY <2>1, <1>1, <1>3, <1>9
  <2>5. ASSUME NEW j \in 1..Len(r2) PROVE r2[j] = p[Len(g2) - 0 + j]
    <3>1. j + 1 \in 2..Len(r) /\ r2[j] = r[j + 1]
      BY <2>1, <1>1, <1>3
    <3>2. r[j + 1] = p[Len(g2) - 1 + (j + 1)]
      BY <3>1, <1>12
    <3>3. Len(g2) - 1 + (j + 1) = Len(g2) - 0 + j
      BY <1>14
    <3> QED
      BY <3>1, <3>2, <3>3
  <2>6. \A j \in (1 + 0)..Len(r2) : r2[j] = p[Len(g2) - 0 + j]
    BY <2>4, <2>5
  <2>7. \A j \in 1..Len(r2) : r2[j].key = p[Len(g2) - 0 + j].key
    BY <2>5
  <2>8. 0 \in {0, 1} /\ 0 <= Len(g2) /\ 0 <= Len(r2)
    BY <2>4, <1>14
  <2>9. Joined(p, g2, r2, 0)
    <3>1. 0 # 1
      OBVIOUS
    <3> QED
      BY <3>1, <2>3, <2>4, <2>6, <2>7, <2>8, <1>14, Zenon DEF Joined
  <2> QED
    BY <1>5, <2>1, <2>9, <1>1, <1>4 DEF h, g2, r2
<1>6. CASE n # Len(h.ips)
  <2>1. r2 = <<h2>> \o t
    BY <1>6, <1>7
  <2>2. /\ r2 \in Seq(Peer) /\ Len(r2) = Len(r)
        /\ r2[1] = h2
        /\ \A j \in 2..Len(r) : r2[j] = r[j]
    <3> DEFINE u == <<h2>>
    <3>1. u \in Seq(Peer) /\ Len(u) = 1 /\ u[1] = h2 /\ r2 = u \o t /\ t \in Seq(Peer)
      BY <1>1, <1>7, <2>1
    <3> HIDE DEF u
    <3>2. /\ u \o t \in Seq(Peer) /\ Len(u \o t) = Len(u) + Len(t)
          /\ \A i \in 1..(Len(u) + Len(t)) :
               (u \o t)[i] = IF i <= Len(u) THEN u[i] ELSE t[i - Len(u)]
      BY <3>1, ConcatProperties
    <3>3. r2 \in Seq(Peer) /\ Len(r2) = Len(r)
      BY <3>1, <3>2, <1>1, <1>3
    <3>4. r2[1] = h2
      BY <3>1, <3>2, <1>1, <1>3
    <3>5. ASSUME NEW j \in 2..Len(r) PROVE r2[j] = r[j]
      <4>1. /\ j \in 1..(Len(u) + Len(t)) /\ ~(j <= Len(u))
            /\ j - 1 \in 1..Len(t) /\ (j - 1) + 1 = j
        BY <3>1, <1>1, <1>3
      <4>2. r2[j] = t[j - 1]
        BY <3>1, <3>2, <4>1
      <4> QED
        BY <4>1, <4>2, <1>1
    <3> QED
      BY <3>3, <3>4, <3>5
  <2>3. Len(p) = Len(g2) - 1 + Len(r2)
    BY <2>2, <1>3, <1>9
  <2>4. ASSUME NEW j \in 2..Len(r2) PROVE r2[j] = p[Len(g2) - 1 + j]
    BY <2>2, <1>12
  <2>5. ASSUME NEW j \in 1..Len(r2) PROVE r2[j].key = p[Len(g2) - 1 + j].key
    <3>1. CASE j = 1
      <4>1. Len(g2) - 1 + j = Len(g2)
        BY <3>1, <1>14
      <4> QED
        BY <3>1, <4>1, <2>2, <1>7, <1>10
    <3>2. CASE j # 1
      BY <3>2, <2>2, <2>4
    <3> QED
      BY <3>1, <3>2
  <2>6. /\ p[Len(g2)].ips = g2[Len(g2)].ips \o r2[1].ips
        /\ r2[1].ips # <<>>
    BY <2>2, <1>2, <1>6, <1>7, <1>13
  <2>7. Joined(p, g2, r2, 1)
    <3>1. 1 \in {0, 1} /\ 1 <= Len(g2) /\ 1 <= Len(r2)
      BY <2>2, <1>3, <1>9
    <3> HIDE DEF g2, r2
    <3> QED
      BY <3>1, <2>3, <2>4, <2>5, <2>6, <1>11, <1>14, SMTT(30) DEF Joined
  <2> QED
    BY <1>6, <2>2, <2>7, <1>4 DEF h, g2, r2
<1> QED
  BY <1>5, <1>6
-----------------------------------------------------------------------------
(* The types, with that of the history and of the configuration to write.  *)
TypeInv ==
  /\ TypeOK
  /\ op = "ConfigureDevice" => cfg \in Device
  /\ seen \subseteq [on : Backend, name : Name, peers : Device]

(* What Versions lists has the type of the history.                        *)
LEMMA VersionsType ==
  ASSUME NEW h \in [Backend -> [Name -> Device \cup {None, Stale}]]
  PROVE  Versions(h) \subseteq [on : Backend, name : Name, peers : Device]
BY DEF Versions, Up, IsUp

(* A cut answer is a list of peers, of any type Remains is used at.        *)
LEMMA PieceTypes ==
  ASSUME NEW r \in Seq(Peer), r # <<>>, NEW n \in 0..Len(Head(r).ips)
  PROVE  /\ Head(r) \in Peer /\ Tail(r) \in Seq(Peer)
         /\ [Head(r) EXCEPT !.ips = SubSeq(@, 1, n)] \in Peer
         /\ SubSeq(Head(r).ips, 1, n) \in Seq(IP)
         /\ Cut(r, n) \in Seq(Peer)
<1>1. Head(r) \in Peer /\ Tail(r) \in Seq(Peer)
  BY HeadTailProperties
<1>2. Head(r).ips \in Seq(IP) /\ Head(r).key \in Key
  BY <1>1 DEF Peer
<1>3. SubSeq(Head(r).ips, 1, n) \in Seq(IP) /\ SubSeq(Head(r).ips, n + 1, Len(Head(r).ips)) \in Seq(IP)
  BY <1>2, Halves
<1> DEFINE a == SubSeq(Head(r).ips, 1, n)
           b == SubSeq(Head(r).ips, n + 1, Len(Head(r).ips))
           hd == Head(r)
<1>4. [hd EXCEPT !.ips = a] \in Peer /\ [hd EXCEPT !.ips = b] \in Peer
  <2> HIDE DEF a, b, hd
  <2>1. hd \in Peer /\ a \in Seq(IP) /\ b \in Seq(IP)
    BY <1>1, <1>3 DEF a, b, hd
  <2> QED
    BY <2>1 DEF Peer
<1>5. <<[hd EXCEPT !.ips = b]>> \o Tail(r) \in Seq(Peer)
  <2> DEFINE u == <<[hd EXCEPT !.ips = b]>>
  <2>1. u \in Seq(Peer)
    BY <1>4
  <2> HIDE DEF u
  <2>2. u \o Tail(r) \in Seq(Peer)
    BY <2>1, <1>1, ConcatProperties
  <2> QED
    BY <2>2 DEF u
<1> QED
  BY <1>1, <1>3, <1>4, <1>5 DEF Cut

(* Of one peer at most there is a part on both sides of the cut, and it is *)
(* the last of those that have come: the kernel lists each peer once.      *)
LEMMA OnlyTheLast ==
  ASSUME NEW p \in Seq(Peer), NEW g \in Seq(Peer), NEW r \in Seq(Peer),
         NEW o, Joined(p, g, r, o), Distinct(p), r # <<>>
  PROVE  /\ o = 1 => Len(g) \in 1..Len(g) /\ g[Len(g)].key = Head(r).key
                     /\ Head(r).ips # <<>>
         /\ \A i \in 1..Len(g) : g[i].key = Head(r).key => o = 1 /\ i = Len(g)
<1>1. Head(r) = r[1] /\ Len(r) >= 1 /\ Len(r) \in Nat /\ Len(g) \in Nat /\ Len(p) \in Nat
  OBVIOUS
<1>2. o \in {0, 1} /\ o <= Len(g) /\ Len(p) = Len(g) - o + Len(r)
  BY DEF Joined
<1>3. r[1].key = p[Len(g) - o + 1].key
  BY <1>1 DEF Joined
<1>4. ASSUME o = 1
      PROVE  Len(g) \in 1..Len(g) /\ g[Len(g)].key = Head(r).key /\ Head(r).ips # <<>>
  <2>1. Len(g) \in 1..Len(g) /\ Len(g) - o + 1 = Len(g)
    BY <1>1, <1>2, <1>4
  <2>2. g[Len(g)].key = p[Len(g)].key
    BY <2>1 DEF Joined
  <2>3. r[1].ips # <<>>
    BY <1>4 DEF Joined
  <2> QED
    BY <2>1, <2>2, <2>3, <1>1, <1>3
<1>5. ASSUME NEW i \in 1..Len(g), g[i].key = Head(r).key
      PROVE  o = 1 /\ i = Len(g)
  <2>1. g[i].key = p[i].key
    BY DEF Joined
  <2>2. p[i].key = p[Len(g) - o + 1].key
    BY <2>1, <1>1, <1>3, <1>5
  <2>3. i \in 1..Len(p) /\ Len(g) - o + 1 \in 1..Len(p)
    BY <1>1, <1>2
  <2>4. i = Len(g) - o + 1
    BY <2>2, <2>3 DEF Distinct
  <2> QED
    BY <2>4, <1>1, <1>2
<1> QED
  BY <1>4, <1>5

(* The types hold of a client that has not been called.                   *)
LEMMA TypeInit == Init => TypeInv
<1>1. AnyName \in Name
  BY DeviceTypes DEF AnyName
<1> QED
  BY <1>1 DEF Init, TypeInv, TypeOK, Backend, Op

(* While the kernel answers, knownPeers is where the peers are.            *)
KnownPeers ==
  at = "kernel" =>
    /\ \A k \in Key : known[k] # 0 => known[k] \in 1..Len(got) /\ got[known[k]].key = k
    /\ \A i \in 1..Len(got) : known[got[i].key] # 0

(* What is being read was there during the call.                           *)
ReadsAVersion(v, o) ==
  /\ v \in seen /\ v.on = at /\ v.name = cur
  /\ Joined(v.peers, got, rest, o)

Reading == pc = "read" => KnownPeers /\ \E v \in seen, o \in {0, 1} : ReadsAVersion(v, o)

(* A piece of a dump moves the cut on (parse_linux.go:300).                *)
LEMMA PieceMovesOn ==
  ASSUME TypeInv, Piece, KnownPeers, NEW v, NEW o, ReadsAVersion(v, o)
  PROVE  /\ got' \in Seq(Peer) /\ rest' \in Seq(Peer) /\ known' \in [Key -> Nat]
         /\ KnownPeers'
         /\ \E o2 \in {0, 1} : Joined(v.peers, got', rest', o2)
<1> USE DEF TypeInv, TypeOK
<1>1. PICK n \in 0..Len(Head(rest).ips) :
        /\ Merge([Head(rest) EXCEPT !.ips = SubSeq(@, 1, n)])
        /\ rest' = Remains(n)
  BY DEF Piece
<1>2. rest \in Seq(Peer) /\ rest # <<>> /\ got \in Seq(Peer) /\ at = "kernel" /\ at' = at
  BY DEF Piece
<1>3. v.peers \in Seq(Peer) /\ Distinct(v.peers) /\ Joined(v.peers, got, rest, o)
  BY DeviceTypes DEF ReadsAVersion, Distinct
<1>4. o \in {0, 1}
  BY <1>3 DEF Joined
<1> DEFINE x == [Head(rest) EXCEPT !.ips = SubSeq(@, 1, n)]
           k == Head(rest).key
<1>5. x \in Peer /\ x.key = k /\ x.ips = SubSeq(Head(rest).ips, 1, n) /\ k \in Key
  <2>1. Head(rest) \in Peer
    BY <1>2, HeadTailProperties
  <2>2. x \in Peer
    BY <1>2, PieceTypes
  <2> QED
    BY <2>1, <2>2 DEF Peer
<1>6. /\ o = 1 => Len(got) \in 1..Len(got) /\ got[Len(got)].key = k
      /\ \A i \in 1..Len(got) : got[i].key = k => o = 1 /\ i = Len(got)
  BY <1>2, <1>3, OnlyTheLast
<1>7. /\ Taken(got, rest, o, n) \in Seq(Peer)
      /\ Cut(rest, n) \in Seq(Peer)
      /\ Joined(v.peers, Taken(got, rest, o, n), Cut(rest, n),
                IF n = Len(Head(rest).ips) THEN 0 ELSE 1)
  BY <1>2, <1>3, MovesOn
<1>8. rest' = Cut(rest, n)
  BY <1>1 DEF Cut, Remains
<1>9. /\ \A l \in Key : known[l] # 0 => known[l] \in 1..Len(got) /\ got[known[l]].key = l
      /\ \A i \in 1..Len(got) : known[got[i].key] # 0
  BY <1>2 DEF KnownPeers
<1>10. Merge(x)
  BY <1>1
<1>11. /\ got' = Taken(got, rest, o, n)
       /\ known' \in [Key -> Nat]
       /\ \A l \in Key : known'[l] # 0 => known'[l] \in 1..Len(got') /\ got'[known'[l]].key = l
       /\ \A i \in 1..Len(got') : known'[got'[i].key] # 0
  <2>1. CASE known[k] # 0
    <3>1. known[k] \in 1..Len(got) /\ got[known[k]].key = k
      BY <2>1, <1>5, <1>9
    <3>2. o = 1 /\ known[k] = Len(got)
      BY <3>1, <1>6
    <3>3. got' = [got EXCEPT ![Len(got)].ips = @ \o SubSeq(Head(rest).ips, 1, n)] /\ known' = known
      BY <2>1, <3>2, <1>5, <1>10 DEF Merge
    <3>4. got' = Taken(got, rest, o, n)
      BY <3>2, <3>3 DEF Taken
    <3>5. Len(got') = Len(got) /\ \A i \in 1..Len(got) : got'[i].key = got[i].key
      <4> DEFINE y == [got[Len(got)] EXCEPT !.ips = got[Len(got)].ips \o SubSeq(Head(rest).ips, 1, n)]
      <4>1. got' = [got EXCEPT ![Len(got)] = y]
        BY <3>3
      <4>2. got[Len(got)] \in Peer
        BY <3>1, <3>2, ElementOfSeq
      <4>3. y.key = got[Len(got)].key
        BY <4>2 DEF Peer
      <4> HIDE DEF y
      <4> QED
        BY <1>2, <4>1, <4>3
    <3> QED
      BY <3>3, <3>4, <3>5, <1>9
  <2>2. CASE known[k] = 0
    <3>1. o = 0
      BY <2>2, <1>4, <1>6, <1>9
    <3>2. got' = Append(got, x) /\ known' = [known EXCEPT ![k] = Len(got')]
      BY <2>2, <1>5, <1>10 DEF Merge
    <3>3. got' = Taken(got, rest, o, n)
      BY <3>1, <3>2 DEF Taken
    <3> HIDE DEF x, k
    <3>4. /\ Len(got') = Len(got) + 1 /\ got'[Len(got) + 1] = x
          /\ \A i \in 1..Len(got) : got'[i] = got[i]
      BY <3>2, <1>2, <1>5, AppendProperties
    <3>5. Len(got) \in Nat /\ Len(got') \in Nat \ {0}
      BY <3>4, <1>2
    <3>6. known' \in [Key -> Nat] /\ known'[k] = Len(got')
          /\ \A l \in Key : l # k => known'[l] = known[l]
      BY <3>2, <3>5, <1>5
    <3>7. ASSUME NEW l \in Key, known'[l] # 0
          PROVE  known'[l] \in 1..Len(got') /\ got'[known'[l]].key = l
      <4>1. CASE l = k
        BY <4>1, <3>4, <3>5, <3>6, <1>5
      <4>2. CASE l # k
        <5>1. known[l] \in 1..Len(got) /\ got[known[l]].key = l /\ known'[l] = known[l]
          BY <4>2, <3>6, <3>7, <1>9
        <5>2. got'[known'[l]] = got[known[l]]
          BY <5>1, <3>4
        <5> QED
          BY <5>1, <5>2, <3>4, <3>5
      <4> QED
        BY <4>1, <4>2
    <3>8. ASSUME NEW i \in 1..Len(got') PROVE known'[got'[i].key] # 0
      <4>1. CASE i = Len(got')
        BY <4>1, <3>4, <3>5, <3>6, <1>5
      <4>2. CASE i # Len(got')
        <5>1. i \in 1..Len(got) /\ got'[i] = got[i] /\ known[got[i].key] # 0
          <6>1. i \in 1..Len(got') /\ Len(got') = Len(got) + 1
            BY <3>4, <3>8
          <6>2. i \in 1..Len(got)
            BY <6>1, <4>2, <3>5
          <6> QED
            BY <6>2, <3>4, <1>9
        <5>2. got[i] \in Peer
          BY <5>1, <1>2, ElementOfSeq
        <5>3. got[i].key \in Key
          BY <5>2 DEF Peer
        <5> QED
          BY <5>1, <5>3, <3>5, <3>6
      <4> QED
        BY <4>1, <4>2
    <3> QED
      BY <3>3, <3>6, <3>7, <3>8
  <2> QED
    BY <2>1, <2>2
<1> QED
  BY <1>2, <1>7, <1>8, <1>11 DEF KnownPeers

(* So does a line of a daemon's answer (parse.go:148).                     *)
LEMMA LineMovesOn ==
  ASSUME TypeInv, Line, NEW v, NEW o, ReadsAVersion(v, o)
  PROVE  /\ got' \in Seq(Peer) /\ rest' \in Seq(Peer)
         /\ \E o2 \in {0, 1} : Joined(v.peers, got', rest', o2)
<1> USE DEF TypeInv, TypeOK
<1>1. rest \in Seq(Peer) /\ rest # <<>> /\ got \in Seq(Peer)
  BY DEF Line
<1>2. v.peers \in Seq(Peer) /\ Distinct(v.peers) /\ Joined(v.peers, got, rest, o)
  BY DeviceTypes DEF ReadsAVersion, Distinct
<1>3. o \in {0, 1}
  BY <1>2 DEF Joined
<1> DEFINE h == Head(rest)
<1>4. h \in Peer /\ h.ips \in Seq(IP)
  <2>1. h \in Peer
    BY <1>1, HeadTailProperties
  <2> QED
    BY <2>1 DEF Peer
<1>5. /\ o = 1 => Len(got) \in 1..Len(got) /\ got[Len(got)].key = h.key /\ h.ips # <<>>
      /\ \A i \in 1..Len(got) : got[i].key = h.key => o = 1 /\ i = Len(got)
  BY <1>1, <1>2, OnlyTheLast
<1>6. \A n \in 0..Len(h.ips) :
        /\ Taken(got, rest, o, n) \in Seq(Peer)
        /\ Cut(rest, n) \in Seq(Peer)
        /\ Joined(v.peers, Taken(got, rest, o, n), Cut(rest, n), IF n = Len(h.ips) THEN 0 ELSE 1)
  BY <1>1, <1>2, MovesOn
<1>7. CASE Begun
  <2>1. o = 1
    <3>1. got # <<>> /\ got[Len(got)].key = h.key
      BY <1>7 DEF Begun, Last
    <3>2. Len(got) \in 1..Len(got)
      BY <3>1, <1>1, EmptySeq
    <3> QED
      BY <3>1, <3>2, <1>5
  <2>2. Len(h.ips) \in Nat \ {0} /\ 1 \in 0..Len(h.ips)
    <3> HIDE DEF h
    <3>1. Len(h.ips) \in Nat \ {0}
      BY <2>1, <1>4, <1>5, EmptySeq
    <3> QED
      BY <3>1
  <2>3. got' = [got EXCEPT ![Len(got)].ips = Append(@, Head(h.ips))] /\ rest' = Cut(rest, 1)
    BY <1>7 DEF Line, Remains, Cut
  <2>4. got' = Taken(got, rest, o, 1)
    <3> DEFINE x == got[Len(got)].ips
               s == h.ips
    <3>1. x \in Seq(IP)
      <4>1. Len(got) \in 1..Len(got)
        BY <2>1, <1>5
      <4>2. got[Len(got)] \in Peer
        BY <4>1, <1>1, ElementOfSeq
      <4> QED
        BY <4>2 DEF Peer
    <3>2. Append(x, Head(s)) = x \o SubSeq(s, 1, 1)
      <4> HIDE DEF x, s
      <4>1. s \in Seq(IP) /\ s # <<>> /\ Len(s) >= 1
        BY <1>4, <1>5, <2>1, <2>2 DEF s
      <4>2. Head(s) \in IP
        BY <4>1, HeadTailProperties
      <4>3. SubSeq(s, 1, 1) = <<Head(s)>>
        <5>1. 1 \in 1..(Len(s) + 1) /\ 1 \in (1 - 1)..Len(s)
          BY <4>1
        <5>2. SubSeq(s, 1, 1) \in Seq(IP) /\ Len(SubSeq(s, 1, 1)) = 1
              /\ \A i \in 1..1 : SubSeq(s, 1, 1)[i] = s[i]
          BY <4>1, <5>1, SubSeqProperties
        <5>3. Head(s) = s[1]
          BY <4>1
        <5>4. <<Head(s)>> \in Seq(IP) /\ Len(<<Head(s)>>) = 1 /\ <<Head(s)>>[1] = s[1]
          BY <4>2, <5>3
        <5> DEFINE c == SubSeq(s, 1, 1)
                   d == <<Head(s)>>
        <5>5. /\ c \in Seq(IP) /\ d \in Seq(IP) /\ Len(c) = 1 /\ Len(d) = 1
              /\ c[1] = s[1] /\ d[1] = s[1]
          BY <5>2, <5>4
        <5> HIDE DEF c, d
        <5>6. c = d
          BY <5>5, SeqEqual
        <5> QED
          BY <5>6 DEF c, d
      <4> QED
        BY <3>1, <4>2, <4>3, AppendIsConcat
    <3> QED
      BY <2>1, <2>3, <3>2 DEF Taken
  <2> QED
    BY <2>2, <2>3, <2>4, <1>6
<1>8. CASE ~Begun
  <2>1. o = 0
    <3>1. o # 1
      <4> SUFFICES ASSUME o = 1 PROVE FALSE
        OBVIOUS
      <4>1. Len(got) \in 1..Len(got) /\ got[Len(got)].key = h.key
        BY <1>5
      <4>2. got # <<>>
        <5>1. Len(<<>>) = 0
          OBVIOUS
        <5>2. Len(got) # 0
          <6>1. Len(got) \in Nat
            BY <1>1
          <6>2. \A l \in Nat : l \in 1..l => l # 0
            OBVIOUS
          <6> QED
            BY <4>1, <6>1, <6>2
        <5> QED
          BY <5>1, <5>2
      <4> QED
        BY <4>1, <4>2, <1>8 DEF Begun, Last
    <3> QED
      BY <3>1, <1>3
  <2>2. 0 \in 0..Len(h.ips)
    <3> HIDE DEF h
    <3> QED
      BY <1>4
  <2>3. got' = Append(got, [h EXCEPT !.ips = <<>>]) /\ rest' = Cut(rest, 0)
    BY <1>8 DEF Line, Remains, Cut
  <2>4. SubSeq(h.ips, 1, 0) = <<>>
    BY SubSeqEmpty
  <2>5. got' = Taken(got, rest, o, 0)
    BY <2>1, <2>3, <2>4 DEF Taken
  <2> QED
    BY <2>2, <2>3, <2>5, <1>6
<1> QED
  BY <1>7, <1>8
-----------------------------------------------------------------------------
SeenNow == pc \notin {"idle", "done"} => Versions(host) \subseteq seen

IInv == TypeInv /\ SeenNow /\ Reading /\ Truthful

(* Before the first call nothing has been read.                            *)
LEMMA IInvInit == Init => IInv
<1> SUFFICES ASSUME Init PROVE IInv
  OBVIOUS
<1>1. out = <<>> /\ pc = "idle"
  BY DEF Init
<1> QED
  BY <1>1, TypeInit DEF IInv, SeenNow, Reading, Truthful

(* Every step keeps the types; Piece and Line by the lemmas on the cut.    *)
LEMMA TypeStep == IInv /\ [Next]_vars => TypeInv'
<1> SUFFICES ASSUME IInv, [Next]_vars PROVE TypeInv'
  OBVIOUS
<1> USE DEF TypeInv, TypeOK, IInv
<1>1. CASE Begin
  <2>1. seen' \subseteq [on : Backend, name : Name, peers : Device]
    BY <1>1, VersionsType DEF Begin
  <2> QED
    BY <1>1, <2>1 DEF Begin, reading, Backend
<1>2. CASE List
  BY <1>2 DEF List, call, reading, history
<1>3. CASE NextBackend
  BY <1>3 DEF NextBackend, Finish, call, reading, history, Backend
<1>4. CASE Piece
  <2>1. PICK v \in seen, o \in {0, 1} : ReadsAVersion(v, o)
    BY <1>4 DEF Piece, Reading
  <2>2. KnownPeers
    BY <1>4 DEF Piece, Reading
  <2>3. got' \in Seq(Peer) /\ rest' \in Seq(Peer) /\ known' \in [Key -> Nat]
    BY <1>4, <2>1, <2>2, PieceMovesOn
  <2> QED
    BY <1>4, <2>3 DEF Piece, call, history
<1>5. CASE Line
  <2>1. PICK v \in seen, o \in {0, 1} : ReadsAVersion(v, o)
    BY <1>5 DEF Line, Reading
  <2>2. got' \in Seq(Peer) /\ rest' \in Seq(Peer)
    BY <1>5, <2>1, LineMovesOn
  <2> QED
    BY <1>5, <2>2 DEF Line, call, history
<1>6. ASSUME Deliver PROVE out' \in Seq([on : Backend, name : Name, peers : Seq(Peer)])
  <2> DEFINE R == [on : Backend, name : Name, peers : Seq(Peer)]
             e == [on |-> at, name |-> cur, peers |-> got]
  <2>1. e \in R
    OBVIOUS
  <2>2. out' = Append(out, e)
    BY <1>6 DEF Deliver
  <2> HIDE DEF R, e
  <2>3. out \in Seq(R)
    BY DEF R
  <2>4. out' \in Seq(R)
    BY <2>1, <2>2, <2>3, AppendProperties
  <2> QED
    BY <2>4 DEF R
<1>7. CASE EndOfAnswer
  BY <1>6, <1>7 DEF EndOfAnswer, Deliver, Finish, call, reading, history
<1>8. CASE EndOfStream
  BY <1>6, <1>8 DEF EndOfStream, Deliver, Finish, call, reading, history
<1>9. CASE Return
  <2>1. AnyName \in Name
    BY DeviceTypes DEF AnyName
  <2> QED
    BY <1>9, <2>1 DEF Return, Backend, Op
<1>10. ASSUME NEW n \in Name, NotThere(n) PROVE TypeInv'
  BY <1>10 DEF NotThere, Finish, call, reading, history
<1>11. ASSUME NEW n \in Name, Refused(n) PROVE TypeInv'
  BY <1>11 DEF Refused, Finish, call, reading, history
<1>12. ASSUME NEW n \in Name, Configure(n) PROVE TypeInv'
  <2>1. host' \in [Backend -> [Name -> Device \cup {None, Stale}]]
    BY <1>12 DEF Configure
  <2>2. seen' \subseteq [on : Backend, name : Name, peers : Device]
    BY <1>12, <2>1, VersionsType DEF Configure
  <2> QED
    BY <1>12, <2>1, <2>2 DEF Configure, Finish, call, reading
<1>13. ASSUME NEW n \in Name, StartReading(n) PROVE TypeInv'
  <2>1. host[at][n] \in Seq(Peer)
    BY <1>13, DeviceTypes DEF StartReading, IsUp
  <2> QED
    BY <1>13, <2>1 DEF StartReading, call, history
<1>14. CASE Happens
  <2>1. host' \in [Backend -> [Name -> Device \cup {None, Stale}]]
    BY <1>14 DEF Happens
  <2>2. seen' \subseteq [on : Backend, name : Name, peers : Device]
    BY <1>14, <2>1, VersionsType DEF Happens
  <2> QED
    BY <1>14, <2>1, <2>2 DEF Happens, call, reading
<1>15. CASE UNCHANGED vars
  BY <1>15 DEF vars, call, reading, history
<1> QED
  BY <1>1, <1>2, <1>3, <1>4, <1>5, <1>7, <1>8, <1>9, <1>10, <1>11, <1>12, <1>13, <1>14, <1>15
     DEF Next, Step

(* What there is now is among what there was: whoever changes an interface *)
(* during a call leaves a version of it in the history.                    *)
LEMMA SeenStep == IInv /\ [Next]_vars => SeenNow'
<1> SUFFICES ASSUME IInv, [Next]_vars PROVE SeenNow'
  OBVIOUS
<1> USE DEF IInv, SeenNow
<1>1. CASE Begin
  BY <1>1 DEF Begin, Versions, Up, IsUp
<1>2. CASE Happens
  BY <1>2 DEF Happens
<1>3. ASSUME NEW n \in Name, Configure(n) PROVE SeenNow'
  BY <1>3 DEF Configure
<1>4. CASE Return
  BY <1>4 DEF Return
<1>5. ASSUME UNCHANGED <<host, seen>>, pc' \notin {"idle", "done"} => pc \notin {"idle", "done"}
      PROVE  SeenNow'
  BY <1>5 DEF Versions, Up, IsUp
<1>6. CASE UNCHANGED vars
  BY <1>5, <1>6 DEF vars, history
<1>7. CASE Step
  <2>1. ASSUME NEW n \in Name, NotThere(n) \/ Refused(n) \/ StartReading(n) PROVE SeenNow'
    BY <2>1, <1>5 DEF NotThere, Refused, StartReading, Finish, history
  <2>2. CASE List \/ NextBackend \/ Piece \/ Line
    BY <2>2, <1>5 DEF List, NextBackend, Piece, Line, Finish, history
  <2>3. CASE EndOfAnswer \/ EndOfStream
    BY <2>3, <1>5 DEF EndOfAnswer, EndOfStream, Deliver, Finish, history
  <2> QED
    BY <1>3, <1>4, <1>7, <2>1, <2>2, <2>3 DEF Step
<1> QED
  BY <1>1, <1>2, <1>6, <1>7 DEF Next

(* An answer is of one moment, and stays so while it is read.              *)
LEMMA ReadingStep == IInv /\ [Next]_vars => Reading'
<1> SUFFICES ASSUME IInv, [Next]_vars PROVE Reading'
  OBVIOUS
<1> USE DEF IInv
<1>1. ASSUME NEW n \in Name, StartReading(n) PROVE Reading'
  <2> DEFINE p == host[at][n]
             v == [on |-> at, name |-> n, peers |-> p]
  <2>1. /\ rest' = p /\ got' = <<>> /\ known' = [k \in Key |-> 0]
        /\ at' = at /\ cur' = n /\ seen' = seen
    BY <1>1 DEF StartReading, history
  <2>2. v \in seen
    <3>1. <<at, n>> \in Up(host)
      BY <1>1 DEF StartReading, Up, TypeInv, TypeOK
    <3>2. v \in Versions(host)
      BY <3>1 DEF Versions
    <3> QED
      BY <1>1, <3>2 DEF StartReading, SeenNow
  <2>3. p \in Seq(Peer)
    BY <1>1, DeviceTypes DEF StartReading, IsUp, TypeInv, TypeOK
  <2>4. Joined(p, <<>>, p, 0)
    <3> HIDE DEF p
    <3>1. Len(<<>>) = 0 /\ Len(p) \in Nat
      BY <2>3
    <3> QED
      BY <3>1 DEF Joined
  <2>5. v.on = at /\ v.name = n /\ v.peers = p
    OBVIOUS
  <2>6. /\ v \in seen' /\ v.on = at' /\ v.name = cur'
        /\ Joined(v.peers, got', rest', 0)
    <3> HIDE DEF p, v
    <3> QED
      BY <2>1, <2>2, <2>4, <2>5
  <2>7. KnownPeers'
    <3>1. Len(<<>>) = 0
      OBVIOUS
    <3> QED
      BY <2>1, <3>1 DEF KnownPeers
  <2> QED
    <3> HIDE DEF p, v
    <3> QED
      BY <2>6, <2>7 DEF Reading, ReadsAVersion
<1>2. CASE Piece
  <2>1. PICK v \in seen, o \in {0, 1} : ReadsAVersion(v, o)
    BY <1>2 DEF Piece, Reading
  <2>2. KnownPeers
    BY <1>2 DEF Piece, Reading
  <2>3. KnownPeers' /\ \E o2 \in {0, 1} : Joined(v.peers, got', rest', o2)
    BY <1>2, <2>1, <2>2, PieceMovesOn
  <2> QED
    BY <1>2, <2>1, <2>3 DEF Piece, ReadsAVersion, Reading, history
<1>3. CASE Line
  <2>1. PICK v \in seen, o \in {0, 1} : ReadsAVersion(v, o)
    BY <1>3 DEF Line, Reading
  <2>2. \E o2 \in {0, 1} : Joined(v.peers, got', rest', o2)
    BY <1>3, <2>1, LineMovesOn
  <2>3. KnownPeers'
    BY <1>3 DEF Line, KnownPeers
  <2> QED
    BY <1>3, <2>1, <2>2, <2>3 DEF Line, ReadsAVersion, Reading, history
<1>4. ASSUME pc' = pc, UNCHANGED <<at, reading>>, seen \subseteq seen'
      PROVE  Reading'
  <2> SUFFICES ASSUME pc' = "read" PROVE Reading'
    BY DEF Reading
  <2>1. KnownPeers /\ \E v \in seen, o \in {0, 1} : ReadsAVersion(v, o)
    BY <1>4 DEF Reading
  <2>2. KnownPeers'
    BY <1>4, <2>1 DEF KnownPeers, reading
  <2> QED
    BY <1>4, <2>1, <2>2 DEF Reading, ReadsAVersion, reading
<1>5. CASE Happens
  BY <1>4, <1>5 DEF Happens
<1>6. CASE UNCHANGED vars
  BY <1>4, <1>6 DEF vars, history
<1>7. ASSUME pc' # "read" PROVE Reading'
  BY <1>7 DEF Reading
<1>8. ASSUME NEW n \in Name, NotThere(n) \/ Refused(n) \/ Configure(n) PROVE Reading'
  BY <1>7, <1>8 DEF NotThere, Refused, Configure, Finish
<1>9. CASE Begin \/ List \/ NextBackend \/ Return
  BY <1>7, <1>9 DEF Begin, List, NextBackend, Finish, Return
<1>10. CASE EndOfAnswer \/ EndOfStream
  BY <1>7, <1>10 DEF EndOfAnswer, EndOfStream, Deliver, Finish
<1> QED
  BY <1>1, <1>2, <1>3, <1>5, <1>6, <1>8, <1>9, <1>10 DEF Next, Step

(* What has been read of a device is a part of that device.                *)
LEMMA JoinedPart ==
  ASSUME NEW p \in Seq(Peer), NEW g \in Seq(Peer), NEW r \in Seq(Peer),
         NEW o, Joined(p, g, r, o)
  PROVE  /\ r = <<>> => g = p
         /\ Part(g, p)
<1>1. /\ o \in {0, 1} /\ o <= Len(g) /\ o <= Len(r) /\ Len(p) = Len(g) - o + Len(r)
      /\ Len(g) \in Nat /\ Len(r) \in Nat /\ Len(p) \in Nat
  BY DEF Joined
<1>2. Len(g) <= Len(p)
  BY <1>1
<1>3. ASSUME r = <<>> PROVE g = p
  <2>1. Len(r) = 0 /\ o = 0 /\ Len(g) = Len(p)
    BY <1>1, <1>3
  <2>2. \A i \in 1..Len(g) : g[i] = p[i]
    BY <2>1, <1>1 DEF Joined
  <2> QED
    BY <2>1, <2>2, SeqEqual
<1>4. ASSUME NEW i \in 1..Len(g), i < Len(g) PROVE g[i] = p[i]
  <2>1. i \in 1..(Len(g) - o)
    BY <1>1, <1>4
  <2> QED
    BY <2>1 DEF Joined
<1>5. ASSUME NEW i \in 1..Len(g), i = Len(g)
      PROVE  g[i].key = p[i].key /\ IsPrefix(g[i].ips, p[i].ips)
  <2>1. g[i].key = p[i].key
    BY DEF Joined
  <2>2. g[i] \in Peer /\ p[i] \in Peer
    BY <1>1, <1>2, ElementOfSeq
  <2>3. g[i].ips \in Seq(IP) /\ p[i].ips \in Seq(IP)
    BY <2>2 DEF Peer
  <2>4. CASE o = 0
    <3>1. i \in 1..(Len(g) - o)
      BY <1>1, <2>4
    <3>2. g[i] = p[i]
      BY <3>1 DEF Joined
    <3> QED
      BY <2>3, <3>2 DEF IsPrefix
  <2>5. CASE o = 1
    <3> DEFINE a == g[i].ips
               b == r[1].ips
    <3>1. p[i].ips = a \o b
      BY <1>5, <2>5 DEF Joined
    <3>2. b \in Seq(IP)
      <4>1. r[1] \in Peer
        BY <1>1, <2>5, ElementOfSeq
      <4> QED
        BY <4>1 DEF Peer
    <3> HIDE DEF b
    <3> HIDE DEF a
    <3>3. a \in Seq(IP)
      BY <2>3 DEF a
    <3>4. /\ a \o b \in Seq(IP) /\ Len(a \o b) = Len(a) + Len(b)
          /\ \A j \in 1..(Len(a) + Len(b)) :
               (a \o b)[j] = IF j <= Len(a) THEN a[j] ELSE b[j - Len(a)]
      BY <3>2, <3>3, ConcatProperties
    <3>5. IsPrefix(a, a \o b)
      <4>1. Len(a) <= Len(a \o b) /\ Len(a) \in Nat /\ Len(b) \in Nat
        BY <3>2, <3>3, <3>4
      <4>2. SubSeq(a, 1, Len(a)) = a
        BY <3>3, SubSeqFull
      <4>3. SubSeq(a \o b, 1, Len(a)) = a
        <5> DEFINE c == a \o b
        <5>1. 1 \in 1..(Len(c) + 1) /\ Len(a) \in (1 - 1)..Len(c)
          BY <4>1, <3>4
        <5>2. /\ SubSeq(c, 1, Len(a)) \in Seq(IP) /\ Len(SubSeq(c, 1, Len(a))) = Len(a)
              /\ \A j \in 1..Len(a) : SubSeq(c, 1, Len(a))[j] = c[j]
          <6>1. c \in Seq(IP)
            BY <3>4
          <6> HIDE DEF c
          <6> QED
            BY <5>1, <6>1, <4>1, SubSeqProperties
        <5>3. \A j \in 1..Len(a) : c[j] = a[j]
          BY <3>4, <4>1
        <5> HIDE DEF c
        <5>4. SubSeq(c, 1, Len(a)) = a
          BY <5>2, <5>3, <3>3, SeqEqual
        <5> QED
          BY <5>4 DEF c
      <4> QED
        BY <4>1, <4>2, <4>3 DEF IsPrefix
    <3> QED
      BY <2>1, <3>1, <3>5 DEF a
  <2> QED
    BY <1>1, <2>4, <2>5
<1>6. ASSUME NEW i \in DOMAIN g
      PROVE  IF i < Len(g) THEN g[i] = p[i]
             ELSE g[i].key = p[i].key /\ IsPrefix(g[i].ips, p[i].ips)
  <2>1. i \in 1..Len(g)
    OBVIOUS
  <2>2. i < Len(g) \/ i = Len(g)
    BY <2>1, <1>1
  <2> QED
    BY <2>1, <2>2, <1>4, <1>5
<1> QED
  BY <1>2, <1>3, <1>6 DEF Part

(* What is delivered is what was read; the end of the answer makes it      *)
(* whole, the death of a daemon leaves it a part.                          *)
LEMMA TruthfulStep == IInv /\ [Next]_vars => Truthful'
<1> SUFFICES ASSUME IInv, [Next]_vars PROVE Truthful'
  OBVIOUS
<1> USE DEF IInv
<1>1. may' = may
  BY DEF Next, Step, Begin, List, NextBackend, Piece, Line, EndOfAnswer, EndOfStream, Return,
         NotThere, Refused, Configure, StartReading, Happens, vars
<1>2. ASSUME out' = out, seen \subseteq seen' PROVE Truthful'
  BY <1>1, <1>2 DEF Truthful
<1>3. ASSUME out' = <<>> PROVE Truthful'
  BY <1>3 DEF Truthful
<1>4. ASSUME Deliver, seen' = seen, NEW v \in seen, v.on = at, v.name = cur,
             got = v.peers \/ (at = "user" /\ "killed" \in may /\ Part(got, v.peers))
      PROVE  Truthful'
  <2> DEFINE R == [on : Backend, name : Name, peers : Seq(Peer)]
             e == [on |-> at, name |-> cur, peers |-> got]
  <2>1. e \in R /\ e.on = at /\ e.name = cur /\ e.peers = got
    BY DEF TypeInv, TypeOK
  <2>2. out \in Seq(R) /\ out' = Append(out, e)
    BY <1>4 DEF Deliver, TypeInv, TypeOK
  <2>3. got = v.peers => e = v
    BY <1>4 DEF TypeInv
  <2> HIDE DEF R, e
  <2>4. /\ Len(out') = Len(out) + 1 /\ out'[Len(out) + 1] = e
        /\ \A i \in 1..Len(out) : out'[i] = out[i]
        /\ out' \in Seq(R) /\ Len(out) \in Nat
    BY <2>1, <2>2, AppendProperties
  <2>5. \A i \in DOMAIN out' : i = Len(out) + 1 \/ i \in DOMAIN out
    BY <2>2, <2>4
  <2>6. \A i \in DOMAIN out : out'[i] = out[i]
    BY <2>2, <2>4
  <2> QED
    BY <1>1, <1>4, <2>1, <2>3, <2>4, <2>5, <2>6 DEF Truthful
<1>5. ASSUME NEW v \in seen, NEW o \in {0, 1}, ReadsAVersion(v, o)
      PROVE  /\ rest = <<>> => got = v.peers
             /\ Part(got, v.peers)
             /\ v.on = at /\ v.name = cur
  <2>1. v.peers \in Seq(Peer)
    BY DeviceTypes DEF TypeInv
  <2>2. got \in Seq(Peer) /\ rest \in Seq(Peer)
    BY DEF TypeInv, TypeOK
  <2> QED
    BY <1>5, <2>1, <2>2, JoinedPart DEF ReadsAVersion
<1>6. CASE EndOfAnswer
  <2>1. PICK v \in seen, o \in {0, 1} : ReadsAVersion(v, o)
    BY <1>6 DEF EndOfAnswer, Reading
  <2>2. got = v.peers /\ v.on = at /\ v.name = cur
    BY <1>6, <2>1, <1>5 DEF EndOfAnswer
  <2>3. Deliver /\ seen' = seen
    BY <1>6 DEF EndOfAnswer, history
  <2> QED
    BY <2>2, <2>3, <1>4
<1>7. CASE EndOfStream
  <2>1. PICK v \in seen, o \in {0, 1} : ReadsAVersion(v, o)
    BY <1>7 DEF EndOfStream, Reading
  <2>2. Part(got, v.peers) /\ v.on = at /\ v.name = cur
    BY <2>1, <1>5
  <2>3. Deliver /\ seen' = seen /\ at = "user" /\ "killed" \in may
    BY <1>7 DEF EndOfStream, history
  <2> QED
    BY <2>2, <2>3, <1>4
<1>8. CASE Begin \/ Return
  BY <1>3, <1>8 DEF Begin, Return
<1>9. CASE List \/ NextBackend \/ Piece \/ Line
  BY <1>2, <1>9 DEF List, NextBackend, Piece, Line, history
<1>10. ASSUME NEW n \in Name, NotThere(n) \/ Refused(n) \/ Configure(n) \/ StartReading(n)
       PROVE  Truthful'
  BY <1>2, <1>10 DEF NotThere, Refused, Configure, StartReading, history
<1>11. CASE Happens
  BY <1>2, <1>11 DEF Happens
<1>12. CASE UNCHANGED vars
  BY <1>2, <1>12 DEF vars, history
<1> QED
  BY <1>6, <1>7, <1>8, <1>9, <1>10, <1>11, <1>12 DEF Next, Step
-----------------------------------------------------------------------------
(* The inductive invariant holds of every behaviour of the client.         *)
LEMMA Invariance == Spec => []IInv
<1>1. Init => IInv
  BY IInvInit
<1>2. IInv /\ [Next]_vars => IInv'
  BY TypeStep, SeenStep, ReadingStep, TruthfulStep DEF IInv
<1> QED
  BY <1>1, <1>2, PTL DEF Spec

(* A call has the types of TypeOK whatever is up, however often interfaces *)
(* change and wherever the kernel cuts its answers (client.go:44).         *)
THEOREM DeviceTypesHold == Spec => []TypeOK
<1>1. IInv => TypeOK
  BY DEF IInv, TypeInv
<1> QED
  BY <1>1, Invariance, PTL

(* Whatever a call of Devices or Device returns was there, as a whole, at  *)
(* one moment of the call: mergeDevices (parse_linux.go:300) and the line  *)
(* parser (parse.go:148) mix, lose and repeat nothing.                     *)
THEOREM ReadsAreTruthful == Spec => []Truthful
<1>1. IInv => Truthful
  BY DEF IInv
<1> QED
  BY <1>1, Invariance, PTL
-----------------------------------------------------------------------------
(* While a call is under way no backend has been changed, and what has     *)
(* been there all the time is there; as long as nothing happens, what      *)
(* there is, is all that there was.                                        *)
Working == pc \in {"list", "next", "read"}

HostSeen ==
  /\ changes \in Nat
  /\ \A n \in Name : host["kernel"][n] # Stale
  /\ pc # "idle" => present \subseteq Up(host)
  /\ Working => changed = {}
  /\ Working /\ changes = 0 => present = Up(host) /\ seen = Versions(host)
  /\ changed \subseteq {at}

(* A call for one name asks for this name, and leaves a backend behind     *)
(* that did not have it all the time.                                      *)
ForOneName ==
  op # "Devices" /\ Working =>
    /\ out = <<>>
    /\ pc = "next" => todo \subseteq {name}
    /\ pc = "read" => cur = name /\ op = "Device"
    /\ at = "user" => <<"kernel", name>> \notin present
    /\ pc = "next" /\ name \notin todo => <<at, name>> \notin present

(* Devices has read what is no longer in todo, and keeps each backend's    *)
(* names together.                                                         *)
Waits(n) == (pc \in {"next", "read"} /\ n \in todo) \/ (pc = "read" /\ n = cur)

ReadOf(x) == \E i \in DOMAIN out : <<out[i].on, out[i].name>> = x

Listing ==
  op = "Devices" /\ Working =>
    /\ pc = "read" => cur \notin todo
    /\ \A i \in DOMAIN out :
         /\ out[i].on = "user" => at = "user"
         /\ out[i].on = at => pc # "list" /\ ~Waits(out[i].name)
    /\ \A i, j \in DOMAIN out : i < j =>
         /\ <<out[i].on, out[i].name>> # <<out[j].on, out[j].name>>
         /\ out[i].on = "user" => out[j].on = "user"
    /\ \A x \in present :
         \/ x[1] = "kernel" /\ at = "user" /\ ReadOf(x)
         \/ x[1] = "user" /\ at = "kernel"
         \/ x[1] = at /\ (pc = "list" \/ Waits(x[2]) \/ ReadOf(x))

(* Nothing fails by itself: what was listed is there.                      *)
Listed ==
  changes = 0 =>
    /\ pc \in {"next", "read"} /\ (op = "Devices" \/ at = "user") => \A n \in todo : host[at][n] # None
    /\ pc = "read" => IsUp(host, at, cur)

(* The device that ConfigureDevice has written is the first of its name.   *)
WrittenFirst ==
  wrote # <<>> =>
    /\ changes = 0
    /\ LET first == IF IsUp(host, "kernel", wrote[1]) THEN "kernel" ELSE "user"
       IN  IsUp(host, first, wrote[1]) /\ host[first][wrote[1]] = wrote[2]

Progress ==
  /\ HostSeen /\ ForOneName /\ Listing /\ Listed /\ WrittenFirst
  /\ ErrorsAreTrue /\ Complete /\ ReadsBack

(* Most steps of a call go on with it, or end it.                          *)
LEMMA QuietSteps ==
  \/ List \/ NextBackend \/ Piece \/ Line \/ EndOfAnswer \/ EndOfStream
  \/ \E n \in Name : NotThere(n) \/ Refused(n) \/ StartReading(n)
  => /\ Working /\ pc' \in {"list", "next", "read", "done"}
     /\ UNCHANGED <<host, seen, present, changes, changed, wrote, may, op, name, cfg>>
  BY DEF List, NextBackend, Piece, Line, EndOfAnswer, EndOfStream, Deliver, Finish,
         NotThere, Refused, StartReading, Working, history, call

(* What the call knows of the system stays true, whatever happens to it.   *)
LEMMA HostSeenStep == IInv /\ HostSeen /\ [Next]_vars => HostSeen'
<1> SUFFICES ASSUME IInv, HostSeen, [Next]_vars PROVE HostSeen'
  OBVIOUS
<1>0. TypeOK /\ TypeInv
  BY DEF IInv, TypeInv
<1>1. CASE Begin
  BY <1>1 DEF Begin, HostSeen, Working
<1>2. CASE Return
  BY <1>2 DEF Return, HostSeen, Working
<1>3. CASE UNCHANGED vars
  BY <1>3 DEF vars, history, HostSeen, Working
<1>4. ASSUME Working, pc' \in {"list", "next", "read", "done"},
             UNCHANGED <<host, seen, present, changes, changed>>
      PROVE  HostSeen'
  BY <1>4 DEF HostSeen, Working
<1>5. ASSUME NEW n \in Name, Configure(n) PROVE HostSeen'
  <2>1. /\ host' = [host EXCEPT ![at][n] = cfg] /\ cfg \in Device
        /\ pc' = "done" /\ changed' = changed \cup {at} /\ at' = at
        /\ present' = present /\ changed = {} /\ changes' = changes
    BY <1>0, <1>5 DEF Configure, Finish, history, Working, HostSeen, TypeInv
  <2>2. Up(host) \subseteq Up(host')
    BY <1>0, <2>1, DeviceTypes DEF Up, IsUp, TypeOK
  <2>3. \A m \in Name : host'["kernel"][m] # Stale
    BY <1>0, <2>1, DeviceTypes DEF HostSeen, TypeOK, Backend
  <2>4. present \subseteq Up(host) /\ changes \in Nat
    BY <1>5 DEF HostSeen, Configure
  <2> QED
    BY <2>1, <2>2, <2>3, <2>4 DEF HostSeen, Working
<1>6. CASE Happens
  <2>1. /\ Working /\ pc' = pc /\ at' = at /\ changed' = changed
        /\ changes' # 0 /\ changes' \in Nat /\ present' = present \cap Up(host')
    <3>1. changes + 1 # 0 /\ changes + 1 \in Nat
      BY DEF HostSeen
    <3> QED
      BY <3>1, <1>0, <1>6 DEF Happens, Working, TypeOK
  <2>2. \A m \in Name : host'["kernel"][m] # Stale
    BY <1>0, <1>6 DEF Happens, HostSeen, TypeOK, Backend
  <2> QED
    BY <2>1, <2>2 DEF HostSeen, Working
<1> QED
  BY <1>1, <1>2, <1>3, <1>4, <1>5, <1>6, QuietSteps DEF Next, Step

(* What is up is listed, and what was there all the time is up.            *)
LEMMA PresentIsUp ==
  ASSUME HostSeen, Working, NEW b \in Backend, NEW n \in Name, ~IsUp(host, b, n)
  PROVE  <<b, n>> \notin present
  BY DEF HostSeen, Working, Up

(* A call for one name gets no other, and looks for it in one backend      *)
(* after the other.                                                        *)
LEMMA ForOneNameStep == IInv /\ HostSeen /\ ForOneName /\ [Next]_vars => ForOneName'
<1> SUFFICES ASSUME IInv, HostSeen, ForOneName, [Next]_vars,
                    op' # "Devices", pc' \in {"list", "next", "read"}
             PROVE  ForOneName'
  BY DEF ForOneName, Working
<1>0. TypeOK
  BY DEF IInv, TypeInv
<1>1. CASE Begin
  BY <1>1 DEF Begin, ForOneName
<1>2. CASE List
  <2>1. Working /\ op # "Devices" /\ name \in Name /\ at \in Backend
    BY <1>0, <1>2 DEF List, call, Working, TypeOK
  <2>2. todo' \subseteq {name} /\ pc' = "next"
    BY <1>2, <2>1 DEF List
  <2>3. name \notin todo' => ~IsUp(host, at, name)
    BY <1>2, <2>1 DEF List, IsUp
  <2> QED
    BY <1>2, <2>1, <2>2, <2>3, PresentIsUp DEF List, ForOneName, call, history
<1>3. CASE NextBackend
  BY <1>3 DEF NextBackend, Finish, ForOneName, Working, call, history
<1>4. ASSUME Piece \/ Line PROVE ForOneName'
  <2>1. UNCHANGED <<host, pc, call, at, todo, cur, out, history>> /\ pc = "read"
    BY <1>4 DEF Piece, Line
  <2> QED
    BY <2>1 DEF ForOneName, Working, call, history
<1>5. CASE EndOfAnswer \/ EndOfStream
  BY <1>5 DEF EndOfAnswer, EndOfStream, Deliver, Finish, call
<1>6. ASSUME NEW n \in Name, NotThere(n) PROVE ForOneName'
  <2>1. Working /\ op # "Devices" /\ at \in Backend /\ n = name
    BY <1>0, <1>6 DEF NotThere, call, Working, TypeOK, ForOneName
  <2>2. ~IsUp(host, at, name)
    BY <1>6, <2>1 DEF NotThere, IsUp
  <2> QED
    BY <1>0, <1>6, <2>1, <2>2, PresentIsUp DEF NotThere, ForOneName, call, history
<1>7. ASSUME NEW n \in Name, StartReading(n) PROVE ForOneName'
  BY <1>0, <1>7 DEF StartReading, ForOneName, Working, call, history, TypeOK, Op
<1>8. ASSUME NEW n \in Name, Refused(n) \/ Configure(n) PROVE ForOneName'
  BY <1>8 DEF Refused, Configure, Finish
<1>9. CASE Return
  BY <1>9 DEF Return
<1>10. CASE Happens
  <2>1. /\ UNCHANGED <<pc, op, name, cfg, at, todo, cur, out>>
        /\ present' \subseteq present
    BY <1>10 DEF Happens, call, reading
  <2> QED
    BY <2>1 DEF ForOneName, Working
<1>11. CASE UNCHANGED vars
  BY <1>11 DEF vars, history, call, reading, ForOneName, Working
<1> QED
  BY <1>1, <1>2, <1>3, <1>4, <1>5, <1>6, <1>7, <1>8, <1>9, <1>10, <1>11 DEF Next, Step

(* What was listed is there as long as nothing happens.                    *)
LEMMA ListedStep == IInv /\ HostSeen /\ Listed /\ [Next]_vars => Listed'
<1> SUFFICES ASSUME IInv, HostSeen, Listed, [Next]_vars,
                    changes' = 0, pc' \in {"next", "read"}
             PROVE  Listed'
  BY DEF Listed
<1>0. TypeOK
  BY DEF IInv, TypeInv
<1>1. CASE Begin \/ Return
  BY <1>1 DEF Begin, Return
<1>2. CASE List
  BY <1>2 DEF List, Listed, call, history
<1>3. CASE NextBackend
  BY <1>3 DEF NextBackend, Finish
<1>4. CASE Piece \/ Line
  BY <1>4 DEF Piece, Line, Listed, call, history
<1>5. CASE EndOfAnswer \/ EndOfStream
  BY <1>5 DEF EndOfAnswer, EndOfStream, Deliver, Finish, Listed, call, history
<1>6. ASSUME NEW n \in Name, NotThere(n) \/ StartReading(n) PROVE Listed'
  BY <1>6 DEF NotThere, StartReading, Finish, Listed, call, history
<1>7. ASSUME NEW n \in Name, Refused(n) \/ Configure(n) PROVE Listed'
  BY <1>7 DEF Refused, Configure, Finish
<1>8. CASE Happens
  <2>1. changes + 1 # 0
    BY DEF HostSeen
  <2> QED
    BY <1>8, <2>1 DEF Happens
<1>9. CASE UNCHANGED vars
  BY <1>9 DEF vars, history, call, reading, Listed
<1> QED
  BY <1>1, <1>2, <1>3, <1>4, <1>5, <1>6, <1>7, <1>8, <1>9 DEF Next, Step

(* ConfigureDevice goes past a backend only if that has no such device, so *)
(* what it has written is what a later call finds first.                   *)
LEMMA WrittenFirstStep ==
  IInv /\ HostSeen /\ ForOneName /\ WrittenFirst /\ [Next]_vars => WrittenFirst'
<1> SUFFICES ASSUME IInv, HostSeen, ForOneName, WrittenFirst, [Next]_vars, wrote' # <<>>
             PROVE  WrittenFirst'
  BY DEF WrittenFirst
<1>0. TypeOK /\ TypeInv
  BY DEF IInv, TypeInv
<1>1. ASSUME UNCHANGED <<host, wrote>>, changes' \in {0, changes} PROVE WrittenFirst'
  BY <1>1 DEF WrittenFirst, IsUp
<1>2. CASE Begin \/ Return
  BY <1>1, <1>2 DEF Begin, Return
<1>3. ASSUME NEW n \in Name, Configure(n) PROVE WrittenFirst'
  <2>1. /\ host' = [host EXCEPT ![at][n] = cfg] /\ cfg \in Device /\ at \in Backend
        /\ changes = 0 /\ wrote' = <<n, cfg>> /\ changes' = changes
        /\ op = "ConfigureDevice" /\ Working /\ pc = "next"
    BY <1>0, <1>3 DEF Configure, history, Working, TypeInv, TypeOK
  <2>2. n = name
    BY <1>3, <2>1 DEF Configure, ForOneName
  <2>3. IsUp(host', at, n) /\ host'[at][n] = cfg
    BY <1>0, <2>1, DeviceTypes DEF IsUp, TypeOK
  <2>4. CASE at = "kernel"
    BY <2>1, <2>3, <2>4 DEF WrittenFirst
  <2>5. CASE at = "user"
    <3>1. <<"kernel", n>> \notin Up(host)
      BY <2>1, <2>2, <2>5 DEF ForOneName, HostSeen
    <3>2. ~IsUp(host, "kernel", n) /\ host'["kernel"] = host["kernel"]
      BY <1>0, <2>1, <2>5, <3>1 DEF Up, Backend, TypeOK
    <3>3. ~IsUp(host', "kernel", n)
      BY <3>2 DEF IsUp
    <3> QED
      BY <2>1, <2>3, <2>5, <3>3 DEF WrittenFirst
  <2> QED
    BY <2>1, <2>4, <2>5 DEF Backend
<1>4. CASE Happens
  BY <1>4 DEF Happens
<1>5. CASE UNCHANGED vars
  BY <1>1, <1>5 DEF vars, history
<1> QED
  BY <1>1, <1>2, <1>3, <1>4, <1>5, QuietSteps DEF Next, Step

(* What Devices, Device and ConfigureDevice say at their end is true.      *)
LEMMA ErrorsStep ==
  IInv /\ HostSeen /\ HostSeen' /\ ForOneName /\ Listed /\ ErrorsAreTrue /\ [Next]_vars
    => ErrorsAreTrue'
<1> SUFFICES ASSUME IInv, HostSeen, HostSeen', ForOneName, Listed, ErrorsAreTrue, [Next]_vars
             PROVE  ErrorsAreTrue'
  OBVIOUS
<1>0. TypeOK /\ TypeInv /\ TypeOK'
  BY TypeStep DEF IInv, TypeInv
<1>1. Cardinality(changed') <= 1
  <2>1. changed' = {} \/ changed' = {at'}
    BY DEF HostSeen
  <2>2. Cardinality({}) = 0 /\ Cardinality({at'}) = 1
    BY FS_EmptySet, FS_Singleton
  <2> QED
    BY <2>1, <2>2
<1>2. ASSUME pc' # "done" PROVE ErrorsAreTrue'
  BY <1>1, <1>2 DEF ErrorsAreTrue, Missing
<1>3. CASE UNCHANGED vars
  BY <1>3 DEF vars, call, history, ErrorsAreTrue, Missing, Quiet, IsUp
<1>4. CASE NextBackend
  <2> SUFFICES ASSUME at = "user", pc' = "done" PROVE ErrorsAreTrue'
    BY <1>0, <1>2, <1>4 DEF NextBackend, Finish, TypeOK, Backend
  <2>1. /\ UNCHANGED <<host, op, name, present, changed, changes, may>> /\ Working
        /\ result' = (IF op = "Devices" THEN "ok" ELSE "missing") /\ changed = {}
    BY <1>4 DEF NextBackend, Finish, call, history, HostSeen, Working
  <2>2. op # "Devices" => \A b \in Backend : <<b, name>> \notin present
    BY <1>4, <2>1 DEF NextBackend, ForOneName, Backend
  <2>3. op # "Devices" /\ changes = 0 => \A b \in Backend : ~IsUp(host, b, name)
    BY <1>0, <2>1, <2>2 DEF HostSeen, Up, TypeOK
  <2> QED
    BY <1>1, <2>1, <2>2, <2>3 DEF ErrorsAreTrue, Missing, Quiet, IsUp
<1>5. ASSUME NEW n \in Name, NotThere(n) \/ Refused(n) PROVE ErrorsAreTrue'
  <2> SUFFICES ASSUME pc' = "done" PROVE ErrorsAreTrue'
    BY <1>2
  <2>1. /\ result' = "failed" /\ changed' = {} /\ UNCHANGED <<host, changes, may>>
    BY <1>5 DEF NotThere, Refused, Finish, history, HostSeen, Working
  <2>2. ~Quiet'
    <3> SUFFICES ASSUME changes = 0, may = {}, host["user"][n] # Stale PROVE FALSE
      BY <2>1 DEF Quiet
    <3>1. host[at][n] # None
      BY <1>5, DeviceTypes DEF NotThere, Refused, Finish, Listed
    <3>2. host[at][n] # Stale
      BY <1>0 DEF HostSeen, TypeOK, Backend
    <3> QED
      BY <1>5, <3>1, <3>2 DEF NotThere, Refused
  <2> QED
    BY <1>1, <2>1, <2>2 DEF ErrorsAreTrue, Missing
<1>6. ASSUME NEW n \in Name, Configure(n) PROVE ErrorsAreTrue'
  <2>1. /\ host' = [host EXCEPT ![at][n] = cfg] /\ cfg \in Device /\ at \in Backend
        /\ op = "ConfigureDevice" /\ UNCHANGED <<op, name, may, at>>
        /\ result' \in {"ok", "failed"} /\ (result' = "ok" \/ "lost" \in may)
    BY <1>0, <1>6 DEF Configure, Finish, call, TypeInv, TypeOK
  <2>2. n = name
    BY <1>6, <2>1 DEF Configure, ForOneName, Working
  <2>3. IsUp(host', at, name)
    BY <1>0, <2>1, <2>2, DeviceTypes DEF IsUp, TypeOK
  <2> QED
    BY <1>1, <2>1, <2>3 DEF ErrorsAreTrue, Missing, Quiet
<1>7. CASE EndOfAnswer \/ EndOfStream
  <2> SUFFICES ASSUME pc' = "done" PROVE ErrorsAreTrue'
    BY <1>2
  <2>1. /\ result' = "ok" /\ changed' = {} /\ UNCHANGED <<host, op, name, changes, may>>
        /\ op # "Devices" /\ pc = "read"
    BY <1>7 DEF EndOfAnswer, EndOfStream, Deliver, Finish, call, history, HostSeen, Working
  <2>2. changes = 0 => IsUp(host, at, name) /\ at \in Backend
    BY <1>0, <2>1 DEF Listed, ForOneName, Working, TypeOK
  <2> QED
    BY <1>1, <2>1, <2>2 DEF ErrorsAreTrue, Missing, Quiet, IsUp
<1>8. CASE Begin \/ List \/ Piece \/ Line \/ Return \/ Happens
  BY <1>2, <1>8 DEF Begin, List, Piece, Line, Return, Happens
<1>9. ASSUME NEW n \in Name, StartReading(n) PROVE ErrorsAreTrue'
  BY <1>2, <1>9 DEF StartReading
<1> QED
  BY <1>3, <1>4, <1>5, <1>6, <1>7, <1>8, <1>9 DEF Next, Step

(* Device asks in the order in which ConfigureDevice did.                  *)
LEMMA ReadsBackStep ==
  IInv /\ HostSeen /\ ForOneName /\ Listed /\ WrittenFirst /\ ReadsBack /\ [Next]_vars
    => ReadsBack'
<1> SUFFICES ASSUME IInv, HostSeen, ForOneName, Listed, WrittenFirst, ReadsBack, [Next]_vars
             PROVE  ReadsBack'
  OBVIOUS
<1>0. TypeOK /\ TypeInv
  BY DEF IInv, TypeInv
<1>1. CASE UNCHANGED vars
  BY <1>1 DEF vars, call, ReadsBack
<1>2. ASSUME pc' # "done" \/ op' # "Device" \/ result' # "ok" PROVE ReadsBack'
  BY <1>2 DEF ReadsBack
<1>3. CASE Begin \/ List \/ NextBackend \/ Piece \/ Line \/ Return \/ Happens
  BY <1>2, <1>3 DEF Begin, List, NextBackend, Finish, Piece, Line, Return, Happens, call
<1>4. ASSUME NEW n \in Name, NotThere(n) \/ Refused(n) \/ Configure(n) \/ StartReading(n)
      PROVE  ReadsBack'
  BY <1>2, <1>4 DEF NotThere, Refused, Configure, StartReading, Finish, call
<1>5. CASE EndOfAnswer \/ EndOfStream
  <2> SUFFICES ASSUME op = "Device", wrote # <<>>, wrote[1] = name
               PROVE  ReadsBack'
    BY <1>5 DEF EndOfAnswer, EndOfStream, Deliver, call, ReadsBack
  <2>1. Working /\ pc = "read" /\ cur = name /\ out = <<>> /\ changes = 0
    BY <1>5 DEF EndOfAnswer, EndOfStream, Working, ForOneName, WrittenFirst
  <2>2. IsUp(host, at, name)
    BY <2>1 DEF Listed
  <2>3. host[at][name] = wrote[2]
    <3>1. at = "user" => ~IsUp(host, "kernel", name)
      <4> SUFFICES ASSUME at = "user" PROVE <<"kernel", name>> \notin Up(host)
        BY <1>0 DEF Up, TypeOK, Backend
      <4> QED
        BY <2>1 DEF ForOneName, HostSeen
    <3> QED
      BY <1>0, <2>2, <3>1 DEF WrittenFirst, TypeOK, Backend
  <2>4. PICK v \in seen, o \in {0, 1} : ReadsAVersion(v, o)
    BY <2>1 DEF IInv, Reading
  <2>5. v.peers = host[at][name]
    <3>1. v \in Versions(host) /\ v.on = at /\ v.name = name
      BY <2>1, <2>4 DEF HostSeen, ReadsAVersion
    <3> QED
      BY <3>1 DEF Versions
  <2>6. rest = <<>>
    <3>1. ~(at = "user" /\ host["user"][cur] = Stale)
      BY <2>1, <2>2 DEF IsUp
    <3> QED
      BY <1>5, <3>1 DEF EndOfAnswer, EndOfStream
  <2>7. got = v.peers
    <3>1. v.peers \in Seq(Peer)
      BY <1>0, DeviceTypes DEF TypeInv
    <3>2. got \in Seq(Peer) /\ rest \in Seq(Peer) /\ Joined(v.peers, got, rest, o)
      BY <1>0, <2>4 DEF TypeOK, ReadsAVersion
    <3> QED
      BY <2>6, <3>1, <3>2, JoinedPart
  <2>8. out'[1].peers = got
    <3>1. out' = Append(<<>>, [on |-> at, name |-> cur, peers |-> got])
      BY <1>5, <2>1 DEF EndOfAnswer, EndOfStream, Deliver
    <3> QED
      BY <3>1
  <2> QED
    BY <1>5, <2>3, <2>5, <2>7, <2>8 DEF EndOfAnswer, EndOfStream, ReadsBack
<1> QED
  BY <1>1, <1>3, <1>4, <1>5 DEF Next, Step

(* Devices comes back to no name, and passes none that was there.          *)
LEMMA ListingStep == IInv /\ HostSeen /\ Listing /\ [Next]_vars => Listing'
<1> SUFFICES ASSUME IInv, HostSeen, Listing, [Next]_vars,
                    op' = "Devices", pc' \in {"list", "next", "read"}
             PROVE  Listing'
  BY DEF Listing, Working
<1>0. TypeOK
  BY DEF IInv, TypeInv
<1>1. pc # "idle" => \A x \in present : x \in Backend \X Name
  BY DEF HostSeen, Working, Up
<1>2. CASE Begin
  BY <1>2 DEF Begin, Listing, Up, Backend
<1>3. CASE List
  <2>1. /\ Working /\ op = "Devices" /\ pc = "list" /\ pc' = "next"
        /\ UNCHANGED <<at, out, present>>
    BY <1>3 DEF List, call, history, Working
  <2>2. \A i \in DOMAIN out : out[i].on # at
    BY <2>1 DEF Listing
  <2>3. \A x \in present : x[1] = at => x[2] \in todo'
    BY <1>3, <2>1 DEF List, HostSeen, Up, IsUp
  <2> QED
    BY <2>1, <2>2, <2>3 DEF Listing, Waits, ReadOf
<1>4. CASE NextBackend
  <2>1. /\ Working /\ op = "Devices" /\ pc = "next" /\ todo = {}
        /\ UNCHANGED <<out, present>> /\ at = "kernel" /\ at' = "user" /\ pc' = "list"
    BY <1>4 DEF NextBackend, Finish, call, history, Working
  <2>2. \A i \in DOMAIN out : out[i].on # "user"
    BY <2>1 DEF Listing
  <2>3. \A x \in present : x[1] = "kernel" => ReadOf(x)
    BY <2>1 DEF Listing, Waits
  <2> QED
    BY <1>1, <2>1, <2>2, <2>3 DEF Listing, ReadOf, Backend
<1>5. CASE Piece \/ Line
  BY <1>5 DEF Piece, Line, Listing, Working, Waits, ReadOf, call, history
<1>6. CASE EndOfAnswer \/ EndOfStream
  <2> DEFINE R == [on : Backend, name : Name, peers : Seq(Peer)]
             e == [on |-> at, name |-> cur, peers |-> got]
  <2>1. /\ Working /\ op = "Devices" /\ pc = "read" /\ pc' = "next"
        /\ UNCHANGED <<at, todo, cur, present>> /\ out' = Append(out, e)
        /\ out \in Seq(R) /\ e \in R
    BY <1>0, <1>6 DEF EndOfAnswer, EndOfStream, Deliver, call, history, reading, Working, TypeOK
  <2>2. e.on = at /\ e.name = cur
    OBVIOUS
  <2> HIDE DEF R, e
  <2>3. /\ Len(out) \in Nat /\ DOMAIN out = 1..Len(out) /\ DOMAIN out' = 1..(Len(out) + 1)
        /\ \A i \in DOMAIN out : out'[i] = out[i]
        /\ out'[Len(out) + 1] = e
    BY <2>1, AppendProperties
  <2>4. \A i \in DOMAIN out' : i \in DOMAIN out \/ (i = Len(out) + 1 /\ out'[i] = e)
    BY <2>3
  <2>5. cur \notin todo
        /\ \A i \in DOMAIN out : out[i].on = at => out[i].name \notin todo /\ out[i].name # cur
    BY <2>1 DEF Listing, Waits
  <2>6. ASSUME NEW i \in DOMAIN out'
        PROVE  /\ out'[i].on = "user" => at = "user"
               /\ out'[i].on = at => out'[i].name \notin todo
    BY <2>1, <2>2, <2>3, <2>4, <2>5 DEF Listing
  <2>7. ASSUME NEW i \in DOMAIN out', NEW j \in DOMAIN out', i < j
        PROVE  /\ <<out'[i].on, out'[i].name>> # <<out'[j].on, out'[j].name>>
               /\ out'[i].on = "user" => out'[j].on = "user"
    <3>1. i \in DOMAIN out
      BY <2>3, <2>7
    <3>2. CASE j \in DOMAIN out
      BY <2>1, <2>3, <2>7, <3>1, <3>2 DEF Listing
    <3>3. CASE out'[j] = e
      BY <2>1, <2>2, <2>3, <2>5, <3>1, <3>3 DEF Listing
    <3> QED
      BY <2>4, <3>2, <3>3
  <2>8. ASSUME NEW x \in present
        PROVE  \/ x[1] = "kernel" /\ at = "user" /\ ReadOf(x)'
               \/ x[1] = "user" /\ at = "kernel"
               \/ x[1] = at /\ (Waits(x[2])' \/ ReadOf(x)')
    <3>1. ReadOf(x) => ReadOf(x)'
      BY <2>3 DEF ReadOf
    <3>2. x = <<at, cur>> => ReadOf(x)'
      BY <2>2, <2>3 DEF ReadOf
    <3>3. x = <<x[1], x[2]>>
      BY <1>1, <2>1
    <3> QED
      BY <2>1, <3>1, <3>2, <3>3 DEF Listing, Waits
  <2> QED
    BY <2>1, <2>6, <2>7, <2>8 DEF Listing, Waits
<1>7. ASSUME NEW n \in Name, NotThere(n) \/ Refused(n) \/ Configure(n) PROVE Listing'
  BY <1>7 DEF NotThere, Refused, Configure, Finish, call
<1>8. ASSUME NEW n \in Name, StartReading(n) PROVE Listing'
  <2>1. /\ Working /\ op = "Devices" /\ pc = "next" /\ pc' = "read" /\ n \in todo
        /\ todo' = todo \ {n} /\ cur' = n /\ UNCHANGED <<at, out, present>>
    BY <1>8 DEF StartReading, call, history, Working
  <2>2. \A m : Waits(m)' <=> Waits(m)
    BY <2>1 DEF Waits
  <2> QED
    BY <2>1, <2>2 DEF Listing, ReadOf
<1>9. CASE Return
  BY <1>9 DEF Return
<1>10. CASE Happens
  <2>1. /\ UNCHANGED <<pc, op, at, todo, cur, out>>
        /\ present' \subseteq present
    BY <1>10 DEF Happens, call, reading
  <2> QED
    BY <2>1 DEF Listing, Working, Waits, ReadOf
<1>11. CASE UNCHANGED vars
  BY <1>11 DEF vars, history, call, reading, Listing, Working, Waits, ReadOf
<1> QED
  BY <1>2, <1>3, <1>4, <1>5, <1>6, <1>7, <1>8, <1>9, <1>10, <1>11 DEF Next, Step

(* When it has no name left in either backend, it has read them all.       *)
LEMMA CompleteStep == IInv /\ HostSeen /\ Listing /\ Complete /\ [Next]_vars => Complete'
<1> SUFFICES ASSUME IInv, HostSeen, Listing, Complete, [Next]_vars PROVE Complete'
  OBVIOUS
<1>0. TypeOK
  BY DEF IInv, TypeInv
<1>1. CASE UNCHANGED vars
  BY <1>1 DEF vars, call, history, Complete
<1>2. ASSUME pc' # "done" \/ op' # "Devices" \/ result' # "ok" PROVE Complete'
  BY <1>2 DEF Complete
<1>3. CASE NextBackend
  <2> SUFFICES ASSUME op = "Devices", at = "user" PROVE Complete'
    BY <1>0, <1>2, <1>3 DEF NextBackend, call, TypeOK, Backend
  <2>1. Working /\ pc = "next" /\ todo = {} /\ UNCHANGED <<out, present>>
    BY <1>3 DEF NextBackend, history, Working
  <2>2. \A x \in present : ReadOf(x)
    BY <2>1 DEF Listing, Waits
  <2> QED
    BY <2>1, <2>2 DEF Listing, Complete, ReadOf
<1>4. CASE Begin \/ List \/ Piece \/ Line \/ Return \/ Happens
  BY <1>2, <1>4 DEF Begin, List, Piece, Line, Return, Happens
<1>5. CASE EndOfAnswer \/ EndOfStream
  BY <1>2, <1>5 DEF EndOfAnswer, EndOfStream, Deliver, Finish, call
<1>6. ASSUME NEW n \in Name, NotThere(n) \/ Refused(n) \/ Configure(n) \/ StartReading(n)
      PROVE  Complete'
  BY <1>2, <1>6 DEF NotThere, Refused, Configure, StartReading, Finish, call
<1> QED
  BY <1>1, <1>3, <1>4, <1>5, <1>6 DEF Next, Step

(* Before the first call nothing is asked for, and nothing written.        *)
LEMMA ProgressInit == Init => Progress
<1> SUFFICES ASSUME Init PROVE Progress
  OBVIOUS
<1>1. /\ pc = "idle" /\ changed = {} /\ changes = 0 /\ wrote = <<>>
      /\ \A n \in Name : host["kernel"][n] # Stale
  BY DEF Init
<1>2. Cardinality(changed) = 0
  BY <1>1, FS_EmptySet
<1> QED
  BY <1>1, <1>2 DEF Progress, HostSeen, ForOneName, Listing, Listed, WrittenFirst, Working,
                    ErrorsAreTrue, Missing, Complete, ReadsBack

(* A call, its history and its answer go together.                         *)
LEMMA ProgressHolds == Spec => []Progress
<1>1. IInv /\ Progress /\ [Next]_vars => Progress'
  BY HostSeenStep, ForOneNameStep, ListingStep, ListedStep, WrittenFirstStep, ErrorsStep,
     CompleteStep, ReadsBackStep DEF Progress
<1> QED
  BY <1>1, ProgressInit, Invariance, PTL DEF Spec

(* Devices finds whatever is there all the time, each once, the kernel's   *)
(* first (client.go:45, os_linux.go:33).                                   *)
THEOREM DevicesAreComplete == Spec => []Complete
<1>1. Progress => Complete
  BY DEF Progress
<1> QED
  BY <1>1, ProgressHolds, PTL

(* os.ErrNotExist, other errors and success mean what client.go:60-98 has  *)
(* them mean, whatever happens to interfaces during a call.                *)
THEOREM ErrorsTellTheTruth == Spec => []ErrorsAreTrue
<1>1. Progress => ErrorsAreTrue
  BY DEF Progress
<1> QED
  BY <1>1, ProgressHolds, PTL

(* Device finds the device that ConfigureDevice has written, although both *)
(* look for its name in two backends.                                      *)
THEOREM DeviceReadsBack == Spec => []ReadsBack
<1>1. Progress => ReadsBack
  BY DEF Progress
<1> QED
  BY <1>1, ProgressHolds, PTL
=============================================================================
