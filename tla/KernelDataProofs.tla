-------------------------- MODULE KernelDataProofs -------------------------
(***************************************************************************)
(* What the entries of a message do to a device: whose an IP is after a    *)
(* list of additions and removals, what one entry changes, and that the    *)
(* kernel goes from one entry to the next.  SetPeer and SetDevice fold     *)
(* over their lists; here the folds are unrolled.                          *)
(***************************************************************************)
EXTENDS KernelData, ListProofs

(* A peer's addition or removal, see KernelData.                           *)
Operation == [ip : IP, op : {"set", "add", "remove"}]

-----------------------------------------------------------------------------
(* Whose an IP is after an entry's additions and removals                  *)

(* What encodeAllowedIP writes (configure_linux.go:288-308), and whose     *)
(* each IP of a device is.                                                 *)
AllowedIP == [ip : IP, remove : BOOLEAN]
Owners == [IP -> Key \cup {Nobody}]

(* A list gives an IP to its peer, takes it away, gives it and does not    *)
(* take it away later.                                                     *)
Gives(s, a) == \E i \in DOMAIN s : s[i].ip = a /\ ~s[i].remove
Takes(s, a) == \E i \in DOMAIN s : s[i].ip = a /\ s[i].remove
GivesLast(s, a) ==
  \E i \in DOMAIN s : /\ s[i].ip = a /\ ~s[i].remove
                      /\ \A n \in DOMAIN s : n > i /\ s[n].ip = a => ~s[n].remove

(* The owner of a, who was x, after the list s of the peer k.              *)
OwnedAfter(k, x, s, a) ==
  IF Gives(s, a) THEN IF GivesLast(s, a) THEN k ELSE Nobody
  ELSE IF Takes(s, a) /\ x = k THEN Nobody ELSE x

(* Of two lists the second has the last word.                              *)
LEMMA ConcatAllowed ==
  ASSUME NEW s \in Seq(AllowedIP), NEW t \in Seq(AllowedIP), NEW a
  PROVE  /\ Gives(s \o t, a) <=> Gives(s, a) \/ Gives(t, a)
         /\ Takes(s \o t, a) <=> Takes(s, a) \/ Takes(t, a)
         /\ GivesLast(s \o t, a) <=> GivesLast(t, a) \/ (GivesLast(s, a) /\ ~Takes(t, a))
<1>1. /\ Len(s) \in Nat /\ Len(t) \in Nat
      /\ DOMAIN s = 1..Len(s) /\ DOMAIN t = 1..Len(t)
      /\ DOMAIN (s \o t) = 1..(Len(s) + Len(t))
  BY ConcatProperties, LenProperties
<1>2. \A i \in 1..Len(s) : i \in DOMAIN (s \o t) /\ (s \o t)[i] = s[i]
  BY <1>1, ConcatProperties
<1>3. \A i \in 1..Len(t) : /\ Len(s) + i \in DOMAIN (s \o t)
                           /\ (s \o t)[Len(s) + i] = t[i]
  <2> TAKE i \in 1..Len(t)
  <2>1. Len(s) + i \in 1..(Len(s) + Len(t)) /\ ~(Len(s) + i <= Len(s)) /\ (Len(s) + i) - Len(s) = i
    BY <1>1
  <2> QED
    BY <1>1, <2>1, ConcatProperties
<1>4. \A i \in DOMAIN (s \o t) : i \in 1..Len(s) \/ \E n \in 1..Len(t) : i = Len(s) + n
  <2> TAKE i \in DOMAIN (s \o t)
  <2>1. CASE i <= Len(s)
    BY <1>1, <2>1
  <2>2. CASE ~(i <= Len(s))
    <3>1. i - Len(s) \in 1..Len(t) /\ i = Len(s) + (i - Len(s))
      BY <1>1, <2>2
    <3> QED
      BY <3>1
  <2> QED
    BY <2>1, <2>2
<1> DEFINE u == s \o t
           m == Len(s)
<1> HIDE DEF u, m
<1>5. /\ \A i \in DOMAIN s : i \in DOMAIN u /\ u[i] = s[i] /\ i \in Nat /\ i <= m
      /\ \A i \in DOMAIN t : m + i \in DOMAIN u /\ u[m + i] = t[i] /\ i \in Nat /\ i > 0
      /\ \A i \in DOMAIN u : i \in DOMAIN s \/ \E n \in DOMAIN t : i = m + n
      /\ m \in Nat
  <2>1. \A i \in DOMAIN s : i \in DOMAIN u /\ u[i] = s[i] /\ i \in Nat /\ i <= m
    BY <1>1, <1>2 DEF u, m
  <2>2. \A i \in DOMAIN t : m + i \in DOMAIN u /\ u[m + i] = t[i]
    BY <1>1, <1>3 DEF u, m
  <2>3. \A i \in DOMAIN t : i \in Nat /\ i > 0
    BY <1>1
  <2>4. \A i \in DOMAIN u : i \in DOMAIN s \/ \E n \in DOMAIN t : i = m + n
    BY <1>1, <1>4, Zenon DEF u, m
  <2>5. m \in Nat
    BY <1>1 DEF m
  <2> QED
    BY <2>1, <2>2, <2>3, <2>4, <2>5
<1>6. Gives(u, a) <=> Gives(s, a) \/ Gives(t, a)
  BY <1>5 DEF Gives
<1>7. Takes(u, a) <=> Takes(s, a) \/ Takes(t, a)
  BY <1>5 DEF Takes
<1>8. ASSUME GivesLast(t, a) PROVE GivesLast(u, a)
  <2>1. PICK i \in DOMAIN t : /\ t[i].ip = a /\ ~t[i].remove
                              /\ \A n \in DOMAIN t : n > i /\ t[n].ip = a => ~t[n].remove
    BY <1>8 DEF GivesLast
  <2>2. m + i \in DOMAIN u /\ u[m + i].ip = a /\ ~u[m + i].remove
    BY <1>5, <2>1
  <2>3. ASSUME NEW n \in DOMAIN u, n > m + i, u[n].ip = a PROVE ~u[n].remove
    <3>1. n \notin DOMAIN s
      BY <1>5, <2>1, <2>3
    <3>2. PICK x \in DOMAIN t : n = m + x
      BY <1>5, <3>1
    <3>3. x > i /\ t[x] = u[n]
      BY <1>5, <2>1, <2>3, <3>2
    <3> QED
      BY <2>1, <2>3, <3>3
  <2> QED
    BY <2>2, <2>3 DEF GivesLast
<1>9. ASSUME GivesLast(s, a), ~Takes(t, a) PROVE GivesLast(u, a)
  <2>1. PICK i \in DOMAIN s : /\ s[i].ip = a /\ ~s[i].remove
                              /\ \A n \in DOMAIN s : n > i /\ s[n].ip = a => ~s[n].remove
    BY <1>9 DEF GivesLast
  <2>2. i \in DOMAIN u /\ u[i].ip = a /\ ~u[i].remove
    BY <1>5, <2>1
  <2>3. ASSUME NEW n \in DOMAIN u, n > i, u[n].ip = a PROVE ~u[n].remove
    <3>1. CASE n \in DOMAIN s
      BY <1>5, <2>1, <2>3, <3>1
    <3>2. CASE n \notin DOMAIN s
      BY <1>5, <1>9, <2>3, <3>2 DEF Takes
    <3> QED
      BY <3>1, <3>2
  <2> QED
    BY <2>2, <2>3 DEF GivesLast
<1>10. ASSUME GivesLast(u, a) PROVE GivesLast(t, a) \/ (GivesLast(s, a) /\ ~Takes(t, a))
  <2>1. PICK i \in DOMAIN u : /\ u[i].ip = a /\ ~u[i].remove
                              /\ \A n \in DOMAIN u : n > i /\ u[n].ip = a => ~u[n].remove
    BY <1>10 DEF GivesLast
  <2>2. CASE i \in DOMAIN s
    <3>1. GivesLast(s, a)
      BY <1>5, <2>1, <2>2 DEF GivesLast
    <3>2. ~Takes(t, a)
      <4> SUFFICES ASSUME NEW n \in DOMAIN t, t[n].ip = a PROVE ~t[n].remove
        BY DEF Takes
      <4>1. m + n \in DOMAIN u /\ u[m + n] = t[n] /\ m + n > i
        BY <1>5, <2>2
      <4> QED
        BY <2>1, <4>1
    <3> QED
      BY <3>1, <3>2
  <2>3. CASE i \notin DOMAIN s
    <3>1. PICK x \in DOMAIN t : i = m + x
      BY <1>5, <2>3
    <3>2. t[x].ip = a /\ ~t[x].remove
      BY <1>5, <2>1, <3>1
    <3>3. ASSUME NEW n \in DOMAIN t, n > x, t[n].ip = a PROVE ~t[n].remove
      <4>1. m + n \in DOMAIN u /\ u[m + n] = t[n] /\ m + n > i
        BY <1>5, <3>1, <3>3
      <4> QED
        BY <2>1, <3>3, <4>1
    <3> QED
      BY <3>2, <3>3 DEF GivesLast
  <2> QED
    BY <2>2, <2>3
<1> QED
  BY <1>6, <1>7, <1>8, <1>9, <1>10 DEF u

(* If what is given is not given last, it is taken.                        *)
LEMMA GivenOrTaken ==
  ASSUME NEW s \in Seq(AllowedIP), NEW a, Gives(s, a), ~GivesLast(s, a)
  PROVE  Takes(s, a)
BY DEF Gives, GivesLast, Takes

(* One list after the other is both in one.                                *)
LEMMA OwnedInTurn ==
  ASSUME NEW s \in Seq(AllowedIP), NEW t \in Seq(AllowedIP), NEW a, NEW k, NEW x
  PROVE  OwnedAfter(k, x, s \o t, a) = OwnedAfter(k, OwnedAfter(k, x, s, a), t, a)
<1>1. GivesLast(s, a) => Gives(s, a)
  BY DEF Gives, GivesLast
<1>2. GivesLast(t, a) => Gives(t, a)
  BY DEF Gives, GivesLast
<1>3. Gives(t, a) /\ ~GivesLast(t, a) => Takes(t, a)
  BY GivenOrTaken
<1> QED
  BY <1>1, <1>2, <1>3, ConcatAllowed DEF OwnedAfter

(* The owners after a list (SetPeer of KernelData).                        *)
Given(k, o, s) == FoldLeft(LAMBDA x, a : SetOwner(k, x, a), o, s)

(* One addition or removal.                                                *)
LEMMA SetOwnerParts ==
  ASSUME NEW k \in Key, NEW o \in Owners, NEW e \in AllowedIP
  PROVE  /\ SetOwner(k, o, e) \in Owners
         /\ \A a \in IP : SetOwner(k, o, e)[a] = OwnedAfter(k, o[a], <<e>>, a)
<1>1. e.ip \in IP /\ e.remove \in BOOLEAN
  BY DEF AllowedIP
<1>2. SetOwner(k, o, e) \in Owners
  BY <1>1 DEF SetOwner, Owners
<1>3. ASSUME NEW a \in IP
      PROVE  SetOwner(k, o, e)[a] = OwnedAfter(k, o[a], <<e>>, a)
  <2>1. DOMAIN <<e>> = {1} /\ <<e>>[1] = e
    OBVIOUS
  <2>2. /\ Gives(<<e>>, a) <=> e.ip = a /\ ~e.remove
        /\ Takes(<<e>>, a) <=> e.ip = a /\ e.remove
        /\ GivesLast(<<e>>, a) <=> e.ip = a /\ ~e.remove
    BY <2>1 DEF Gives, Takes, GivesLast
  <2>3. SetOwner(k, o, e)[a] = IF e.ip # a THEN o[a]
                               ELSE IF ~e.remove THEN k
                               ELSE IF o[a] = k THEN Nobody ELSE o[a]
    BY <1>1 DEF SetOwner, Owners
  <2> QED
    BY <2>2, <2>3 DEF OwnedAfter
<1> QED
  BY <1>2, <1>3

(* Element by element.                                                     *)
LEMMA GivenAll ==
  ASSUME NEW k \in Key, NEW o \in Owners, NEW s \in Seq(AllowedIP)
  PROVE  \E g \in [0..Len(s) -> Owners] :
           /\ g[0] = o /\ g[Len(s)] = Given(k, o, s)
           /\ \A i \in 1..Len(s) : g[i] = SetOwner(k, g[i - 1], s[i])
<1> DEFINE n == Len(s)
           F == [x \in Owners \X (1..n) |-> SetOwner(k, x[1], s[x[2]])]
           Is(h) == h = [t \in SUBSET (1..n) |->
                           IF t = {} THEN o ELSE SetOwner(k, h[t \ {Max(t)}], s[Max(t)])]
<1>1. n \in Nat /\ DOMAIN s = 1..n /\ \A i \in 1..n : s[i] \in AllowedIP
  BY LenProperties
<1>2. F \in [Owners \X (1..n) -> Owners]
  BY <1>1, SetOwnerParts
<1>3. PICK h \in [SUBSET (1..n) -> Owners] : IsFold(h, n, o, F)
  <2>1. n \in Nat /\ o \in Owners
    BY <1>1
  <2> HIDE DEF F, n
  <2> QED
    BY <2>1, <1>2, Folding
<1>4. ASSUME NEW t \in SUBSET (1..n), t # {}
      PROVE  Max(t) \in 1..n
  <2>1. \E m \in t : \A x \in t : m >= x
    BY <1>1, <1>4, LastIn
  <2> QED
    BY <2>1 DEF Max
<1>5. ASSUME NEW t \in SUBSET (1..n), t # {}
      PROVE  h[t] = SetOwner(k, h[t \ {Max(t)}], s[Max(t)])
  <2>1. h[t] = F[<<h[t \ {Max(t)}], Max(t)>>]
    BY <1>3, <1>5, Zenon DEF IsFold
  <2>2. h[t \ {Max(t)}] \in Owners
    BY <1>3
  <2> QED
    BY <1>4, <1>5, <2>1, <2>2
<1>6. Is(h)
  BY <1>3, <1>5 DEF IsFold
<1>7. Given(k, o, s) = (CHOOSE f : Is(f))[1..n]
  BY <1>1 DEF Given, FoldLeft, MapThenFoldSet
<1> DEFINE f == CHOOSE f : Is(f)
<1>8. Is(f)
  BY <1>6
<1> HIDE DEF f
<1>9. ASSUME NEW i \in 1..n PROVE f[1..i] = SetOwner(k, f[1..(i - 1)], s[i])
  <2>1. 1..i \in SUBSET (1..n) /\ 1..i # {} /\ (1..i) \ {i} = 1..(i - 1) /\ Max(1..i) = i
    BY <1>1, FirstPositions
  <2> QED
    BY <1>8, <2>1, Zenon
<1>10. f[1..0] = o
  <2>1. 1..0 \in SUBSET (1..n) /\ 1..0 = {}
    BY <1>1
  <2> QED
    BY <1>8, <2>1, Zenon
<1> DEFINE g == [i \in 0..n |-> f[1..i]]
           S == {i \in 0..n : f[1..i] \in Owners}
<1>11. \A i \in 0..n : i \in S
  <2>1. 0 \in S
    BY <1>1, <1>10
  <2>2. ASSUME NEW i \in 0..n, i < n, i \in S PROVE i + 1 \in S
    <3>1. i + 1 \in 1..n /\ (i + 1) - 1 = i
      BY <1>1, <2>2
    <3>2. f[1..(i + 1)] = SetOwner(k, f[1..i], s[i + 1])
      BY <1>9, <3>1
    <3>3. f[1..i] \in Owners /\ s[i + 1] \in AllowedIP
      BY <1>1, <2>2, <3>1
    <3>4. f[1..(i + 1)] \in Owners
      <4> PICK w, e : w = f[1..i] /\ e = s[i + 1]
        OBVIOUS
      <4>1. SetOwner(k, w, e) \in Owners
        BY <3>3, SetOwnerParts
      <4> QED
        BY <3>2, <4>1
    <3>5. i + 1 \in 0..n
      BY <1>1, <2>2
    <3> QED
      BY <3>4, <3>5
  <2> HIDE DEF S, n
  <2> QED
    BY <1>1, <2>1, <2>2, Upwards
<1>12. g \in [0..n -> Owners] /\ g[0] = o /\ g[n] = Given(k, o, s)
  <2>1. g \in [0..n -> Owners]
    BY <1>11
  <2>2. 0 \in 0..n /\ n \in 0..n
    BY <1>1
  <2>3. g[n] = f[1..n]
    BY <2>2
  <2> QED
    BY <1>7, <1>10, <2>1, <2>2, <2>3 DEF f
<1>13. \A i \in 1..n : g[i] = SetOwner(k, g[i - 1], s[i])
  BY <1>1, <1>9
<1> HIDE DEF g
<1> QED
  BY <1>12, <1>13

(* In closed form.                                                         *)
LEMMA GivenParts ==
  ASSUME NEW k \in Key, NEW o \in Owners, NEW s \in Seq(AllowedIP)
  PROVE  /\ Given(k, o, s) \in Owners
         /\ \A a \in IP : Given(k, o, s)[a] = OwnedAfter(k, o[a], s, a)
<1>1. PICK g \in [0..Len(s) -> Owners] :
           /\ g[0] = o /\ g[Len(s)] = Given(k, o, s)
           /\ \A i \in 1..Len(s) : g[i] = SetOwner(k, g[i - 1], s[i])
  BY GivenAll
<1>2. Len(s) \in Nat
  BY LenProperties
<1>3. Given(k, o, s) \in Owners
  BY <1>1, <1>2
<1>4. ASSUME NEW a \in IP PROVE Given(k, o, s)[a] = OwnedAfter(k, o[a], s, a)
  <2> DEFINE S == {i \in 0..Len(s) : g[i][a] = OwnedAfter(k, o[a], SubSeq(s, 1, i), a)}
  <2>1. 0 \in S
    <3>1. SubSeq(s, 1, 0) = <<>>
      BY SubSeqEmpty
    <3>2. OwnedAfter(k, o[a], <<>>, a) = o[a]
      BY DEF OwnedAfter, Gives, Takes
    <3>3. g[0][a] = OwnedAfter(k, o[a], SubSeq(s, 1, 0), a)
      BY <1>1, <3>1, <3>2
    <3>4. 0 \in 0..Len(s)
      BY <1>2
    <3> QED
      BY <3>3, <3>4
  <2>2. ASSUME NEW i \in 0..Len(s), i < Len(s), i \in S PROVE i + 1 \in S
    <3>1. /\ SubSeq(s, 1, i) \in Seq(AllowedIP) /\ s[i + 1] \in AllowedIP
          /\ SubSeq(s, 1, i + 1) = Append(SubSeq(s, 1, i), s[i + 1])
      BY <2>2, Beginning
    <3>2. Append(SubSeq(s, 1, i), s[i + 1]) = SubSeq(s, 1, i) \o <<s[i + 1]>>
      BY <3>1
    <3>3. i + 1 \in 1..Len(s) /\ i + 1 \in 0..Len(s) /\ (i + 1) - 1 = i
      BY <1>2, <2>2
    <3>4. g[i + 1] = SetOwner(k, g[i], s[i + 1]) /\ g[i] \in Owners
      BY <1>1, <3>3
    <3>5. g[i + 1][a] = OwnedAfter(k, g[i][a], <<s[i + 1]>>, a)
      BY <3>1, <3>4, SetOwnerParts
    <3>6. <<s[i + 1]>> \in Seq(AllowedIP)
      BY <3>1
    <3>7. g[i][a] = OwnedAfter(k, o[a], SubSeq(s, 1, i), a)
      BY <2>2
    <3>8. OwnedAfter(k, o[a], SubSeq(s, 1, i) \o <<s[i + 1]>>, a)
            = OwnedAfter(k, OwnedAfter(k, o[a], SubSeq(s, 1, i), a), <<s[i + 1]>>, a)
      <4> DEFINE y == SubSeq(s, 1, i)
                 z == <<s[i + 1]>>
      <4>1. y \in Seq(AllowedIP) /\ z \in Seq(AllowedIP)
        BY <3>1, <3>6
      <4> HIDE DEF y, z
      <4>2. OwnedAfter(k, o[a], y \o z, a) = OwnedAfter(k, OwnedAfter(k, o[a], y, a), z, a)
        BY <4>1, OwnedInTurn
      <4> QED
        BY <4>2, Zenon DEF y, z
    <3> QED
      BY <3>1, <3>2, <3>3, <3>5, <3>7, <3>8
  <2>3. Len(s) \in S
    <3> HIDE DEF S
    <3>1. \A i \in 0..Len(s) : i \in S
      BY <1>2, <2>1, <2>2, Upwards
    <3> QED
      BY <1>2, <3>1
  <2> QED
    BY <1>1, <2>3, SubSeqFull
<1> QED
  BY <1>3, <1>4
-----------------------------------------------------------------------------
(* What one entry does                                                     *)

(* An entry as it is sent, and when the kernel heeds it.                   *)
Encoded == [key : Key, remove : BOOLEAN, updateOnly : BOOLEAN,
            setting : Setting \cup {Default, Unset},
            replaceIPs : BOOLEAN, allowed : Seq(AllowedIP)]

Acts(e, d) == e.remove \/ ~e.updateOnly \/ e.key \in d.peers
Disowned(k, x) == IF x = k THEN Nobody ELSE x

(* What one entry does, field by field.                                    *)
LEMMA SetPeerParts ==
  ASSUME NEW d \in Device, NEW e \in Encoded
  PROVE  /\ SetPeer(d, e) \in Device
         /\ ~Acts(e, d) => SetPeer(d, e) = d
         /\ Acts(e, d) =>
              /\ SetPeer(d, e).peers = IF e.remove THEN d.peers \ {e.key} ELSE d.peers \cup {e.key}
              /\ \A x \in Key : SetPeer(d, e).setting[x] =
                   IF x # e.key THEN d.setting[x]
                   ELSE IF e.remove THEN Default
                   ELSE IF e.setting = Unset THEN d.setting[x] ELSE e.setting
              /\ \A a \in IP : SetPeer(d, e).owner[a] =
                   IF e.remove THEN Disowned(e.key, d.owner[a])
                   ELSE OwnedAfter(e.key, IF e.replaceIPs THEN Disowned(e.key, d.owner[a])
                                          ELSE d.owner[a], e.allowed, a)
<1>1. /\ e.key \in Key /\ e.remove \in BOOLEAN /\ e.updateOnly \in BOOLEAN
      /\ e.setting \in Setting \cup {Default, Unset} /\ e.replaceIPs \in BOOLEAN
      /\ e.allowed \in Seq(AllowedIP)
  BY DEF Encoded
<1>2. /\ d.peers \subseteq Key /\ d.setting \in [Key -> Setting \cup {Default}]
      /\ d.owner \in Owners
  BY DEF Device, Owners
<1>3. /\ Disown(d, e.key) \in Owners
      /\ \A a \in IP : Disown(d, e.key)[a] = Disowned(e.key, d.owner[a])
  BY <1>1, <1>2 DEF Disown, Disowned, Owners
<1>4. CASE e.remove
  <2>1. SetPeer(d, e) = [peers |-> d.peers \ {e.key},
                         setting |-> [d.setting EXCEPT ![e.key] = Default],
                         owner |-> Disown(d, e.key)]
    BY <1>4 DEF SetPeer, Without
  <2>2. SetPeer(d, e) \in Device
    BY <1>1, <1>2, <1>3, <2>1 DEF Device, Owners
  <2> QED
    BY <1>1, <1>2, <1>3, <1>4, <2>1, <2>2 DEF Acts
<1>5. CASE ~e.remove /\ e.updateOnly /\ e.key \notin d.peers
  <2>1. SetPeer(d, e) = d
    BY <1>5 DEF SetPeer
  <2> QED
    BY <1>5, <2>1 DEF Acts
<1>6. CASE ~e.remove /\ ~(e.updateOnly /\ e.key \notin d.peers)
  <2> DEFINE o == IF e.replaceIPs THEN Disown(d, e.key) ELSE d.owner
  <2>1. SetPeer(d, e) =
          [peers   |-> d.peers \cup {e.key},
           setting |-> IF e.setting = Unset THEN d.setting
                       ELSE [d.setting EXCEPT ![e.key] = e.setting],
           owner   |-> Given(e.key, o, e.allowed)]
    BY <1>6 DEF SetPeer, Given
  <2>2. o \in Owners
    BY <1>2, <1>3
  <2>3. \A a \in IP : o[a] = IF e.replaceIPs THEN Disowned(e.key, d.owner[a]) ELSE d.owner[a]
    BY <1>3
  <2> HIDE DEF o
  <2>4. /\ Given(e.key, o, e.allowed) \in Owners
        /\ \A a \in IP : Given(e.key, o, e.allowed)[a] = OwnedAfter(e.key, o[a], e.allowed, a)
    BY <1>1, <2>2, GivenParts
  <2>5. SetPeer(d, e) \in Device
    BY <1>1, <1>2, <2>1, <2>4 DEF Device, Owners
  <2>6. \A x \in Key : SetPeer(d, e).setting[x] =
                   IF x # e.key THEN d.setting[x]
                   ELSE IF e.setting = Unset THEN d.setting[x] ELSE e.setting
    BY <1>1, <1>2, <2>1
  <2>7. \A a \in IP : SetPeer(d, e).owner[a] = 
                   OwnedAfter(e.key, IF e.replaceIPs THEN Disowned(e.key, d.owner[a])
                                          ELSE d.owner[a], e.allowed, a)
    <3> TAKE a \in IP
    <3>1. SetPeer(d, e).owner = Given(e.key, o, e.allowed)
      BY <2>1
    <3> QED
      BY <2>3, <2>4, <3>1
  <2> QED
    BY <1>6, <2>1, <2>5, <2>6, <2>7 DEF Acts
<1> QED
  BY <1>4, <1>5, <1>6

(* Devices are equal if their parts are.                                   *)
LEMMA SameDevice ==
  ASSUME NEW d \in Device, NEW e \in Device, d.peers = e.peers,
         \A x \in Key : d.setting[x] = e.setting[x],
         \A a \in IP : d.owner[a] = e.owner[a]
  PROVE  d = e
<1>1. d.setting = e.setting
  BY DEF Device
<1>2. d.owner = e.owner
  BY DEF Device
<1> QED
  BY <1>1, <1>2 DEF Device

(* The device after a list of entries.                                     *)
After(d, s) == FoldLeft(SetPeer, d, s)

(* Entry by entry.                                                         *)
LEMMA AfterAll ==
  ASSUME NEW b \in Device, NEW s \in Seq(Encoded)
  PROVE  \E g \in [0..Len(s) -> Device] :
           /\ g[0] = b /\ g[Len(s)] = After(b, s)
           /\ \A i \in 1..Len(s) : g[i] = SetPeer(g[i - 1], s[i])
<1> DEFINE n == Len(s)
           F == [x \in Device \X (1..n) |-> SetPeer(x[1], s[x[2]])]
           Is(h) == h = [t \in SUBSET (1..n) |->
                           IF t = {} THEN b ELSE SetPeer(h[t \ {Max(t)}], s[Max(t)])]
<1>1. n \in Nat /\ DOMAIN s = 1..n /\ \A i \in 1..n : s[i] \in Encoded
  BY LenProperties
<1>2. F \in [Device \X (1..n) -> Device]
  BY <1>1, SetPeerParts
<1>3. PICK h \in [SUBSET (1..n) -> Device] :
        IsFold(h, n, b, F)
  <2>1. n \in Nat /\ b \in Device
    BY <1>1
  <2> HIDE DEF F, n
  <2> QED
    BY <2>1, <1>2, Folding
<1>4. ASSUME NEW t \in SUBSET (1..n), t # {}
      PROVE  Max(t) \in 1..n
  <2>1. \E m \in t : \A x \in t : m >= x
    BY <1>1, <1>4, LastIn
  <2> QED
    BY <2>1 DEF Max
<1>5. ASSUME NEW t \in SUBSET (1..n), t # {}
      PROVE  h[t] = SetPeer(h[t \ {Max(t)}], s[Max(t)])
  <2>1. h[t] = F[<<h[t \ {Max(t)}], Max(t)>>]
    BY <1>3, <1>5, Zenon DEF IsFold
  <2>2. h[t \ {Max(t)}] \in Device
    BY <1>3
  <2> QED
    BY <1>4, <1>5, <2>1, <2>2
<1>6. Is(h)
  BY <1>3, <1>5 DEF IsFold
<1>7. After(b, s) = (CHOOSE f : Is(f))[1..n]
  BY <1>1 DEF After, FoldLeft, MapThenFoldSet
<1> DEFINE f == CHOOSE f : Is(f)
<1>8. Is(f)
  BY <1>6
<1> HIDE DEF f
<1>9. ASSUME NEW i \in 1..n PROVE f[1..i] = SetPeer(f[1..(i - 1)], s[i])
  <2>1. 1..i \in SUBSET (1..n) /\ 1..i # {} /\ (1..i) \ {i} = 1..(i - 1) /\ Max(1..i) = i
    BY <1>1, FirstPositions
  <2> QED
    BY <1>8, <2>1, Zenon
<1>10. f[1..0] = b
  <2>1. 1..0 \in SUBSET (1..n) /\ 1..0 = {}
    BY <1>1
  <2> QED
    BY <1>8, <2>1, Zenon
<1> DEFINE g == [i \in 0..n |-> f[1..i]]
           S == {i \in 0..n : f[1..i] \in Device}
<1>11. \A i \in 0..n : i \in S
  <2>1. 0 \in S
    BY <1>1, <1>10
  <2>2. ASSUME NEW i \in 0..n, i < n, i \in S PROVE i + 1 \in S
    <3>1. i + 1 \in 1..n /\ (i + 1) - 1 = i
      BY <1>1, <2>2
    <3>2. f[1..(i + 1)] = SetPeer(f[1..i], s[i + 1])
      BY <1>9, <3>1
    <3>3. f[1..i] \in Device /\ s[i + 1] \in Encoded
      BY <1>1, <2>2, <3>1
    <3>4. f[1..(i + 1)] \in Device
      <4>1. SetPeer(f[1..i], s[i + 1]) \in Device
        BY <3>3, SetPeerParts
      <4> QED
        BY <3>2, <4>1
    <3>5. i + 1 \in 0..n
      BY <1>1, <2>2
    <3> QED
      BY <3>4, <3>5
  <2> HIDE DEF S, n
  <2> QED
    BY <1>1, <2>1, <2>2, Upwards
<1>12. g \in [0..n -> Device] /\ g[0] = b /\ g[n] = After(b, s)
  <2>1. g \in [0..n -> Device]
    BY <1>11
  <2>2. 0 \in 0..n /\ n \in 0..n
    BY <1>1
  <2>3. g[n] = f[1..n]
    BY <2>2
  <2> QED
    BY <1>7, <1>10, <2>1, <2>2, <2>3 DEF f
<1>13. \A i \in 1..n : g[i] = SetPeer(g[i - 1], s[i])
  BY <1>1, <1>9
<1> HIDE DEF g
<1> QED
  BY <1>12, <1>13

(* There is one way to go through them.                                    *)
LEMMA OneWay ==
  ASSUME NEW b \in Device, NEW s \in Seq(Encoded), NEW n \in 0..Len(s), NEW g,
         g[0] = b, \A i \in 1..n : g[i] = SetPeer(g[i - 1], s[i])
  PROVE  g[n] = After(b, SubSeq(s, 1, n))
<1> DEFINE t == SubSeq(s, 1, n)
<1>1. t \in Seq(Encoded) /\ Len(t) = n /\ \A i \in 1..n : t[i] = s[i]
  BY Beginning
<1> HIDE DEF t
<1>2. PICK h \in [0..Len(t) -> Device] :
           /\ h[0] = b /\ h[Len(t)] = After(b, t)
           /\ \A i \in 1..Len(t) : h[i] = SetPeer(h[i - 1], t[i])
  BY <1>1, AfterAll
<1> DEFINE S == {i \in 0..n : g[i] = h[i]}
<1>3. n \in Nat
  BY LenProperties
<1>4. 0 \in S
  BY <1>2, <1>3
<1>5. ASSUME NEW i \in 0..n, i < n, i \in S PROVE i + 1 \in S
  <2>1. i + 1 \in 1..n /\ i + 1 \in 0..n /\ (i + 1) - 1 = i
    BY <1>3, <1>5
  <2>2. g[i + 1] = SetPeer(g[i], s[i + 1]) /\ h[i + 1] = SetPeer(h[i], s[i + 1])
    BY <1>1, <1>2, <2>1
  <2> QED
    BY <1>5, <2>1, <2>2
<1>6. \A i \in 0..n : i \in S
  <2> HIDE DEF S
  <2> QED
    BY <1>3, <1>4, <1>5, Upwards
<1>7. g[n] = h[n]
  BY <1>3, <1>6
<1> QED
  BY <1>1, <1>2, <1>7 DEF t

(* Its beginnings do what the steps do.                                    *)
LEMMA AfterSteps ==
  ASSUME NEW b \in Device, NEW s \in Seq(Encoded)
  PROVE  /\ After(b, s) \in Device
         /\ After(b, SubSeq(s, 1, 0)) = b
         /\ After(b, SubSeq(s, 1, Len(s))) = After(b, s)
         /\ \A i \in 0..Len(s) :
              /\ After(b, SubSeq(s, 1, i)) \in Device
              /\ i < Len(s) =>
                   After(b, SubSeq(s, 1, i + 1)) = SetPeer(After(b, SubSeq(s, 1, i)), s[i + 1])
<1>1. PICK g \in [0..Len(s) -> Device] :
           /\ g[0] = b /\ g[Len(s)] = After(b, s)
           /\ \A i \in 1..Len(s) : g[i] = SetPeer(g[i - 1], s[i])
  BY AfterAll
<1>2. Len(s) \in Nat
  BY LenProperties
<1>3. ASSUME NEW n \in 0..Len(s) PROVE g[n] = After(b, SubSeq(s, 1, n))
  <2>1. \A i \in 1..n : g[i] = SetPeer(g[i - 1], s[i])
    BY <1>1, <1>2
  <2> QED
    BY <1>1, <2>1, OneWay
<1>4. 0 \in 0..Len(s) /\ Len(s) \in 0..Len(s)
  BY <1>2
<1>5. ASSUME NEW i \in 0..Len(s), i < Len(s)
      PROVE  After(b, SubSeq(s, 1, i + 1)) = SetPeer(After(b, SubSeq(s, 1, i)), s[i + 1])
  <2>1. i + 1 \in 1..Len(s) /\ i + 1 \in 0..Len(s) /\ (i + 1) - 1 = i
    BY <1>2, <1>5
  <2> QED
    BY <1>1, <1>3, <2>1
<1>6. SubSeq(s, 1, Len(s)) = s
  BY SubSeqFull
<1> QED
  BY <1>1, <1>3, <1>4, <1>5, <1>6

(* An entry at the end comes last.                                         *)
LEMMA AfterOneMore ==
  ASSUME NEW b \in Device, NEW s \in Seq(Encoded), NEW e \in Encoded
  PROVE  After(b, Append(s, e)) = SetPeer(After(b, s), e)
<1> DEFINE t == Append(s, e)
<1>1. /\ t \in Seq(Encoded) /\ Len(t) = Len(s) + 1 /\ t[Len(s) + 1] = e /\ Len(s) \in Nat
      /\ SubSeq(t, 1, Len(s)) = s
  <2>1. /\ t \in Seq(Encoded) /\ Len(t) = Len(s) + 1 /\ t[Len(s) + 1] = e /\ Len(s) \in Nat
        /\ \A i \in 1..Len(s) : t[i] = s[i]
    BY LenProperties
  <2> HIDE DEF t
  <2>2. /\ SubSeq(t, 1, Len(s)) \in Seq(Encoded) /\ Len(SubSeq(t, 1, Len(s))) = Len(s)
        /\ \A i \in 1..Len(s) : SubSeq(t, 1, Len(s))[i] = s[i]
    <3>1. Len(s) \in 0..Len(t)
      BY <2>1
    <3> QED
      BY <2>1, <3>1, Beginning
  <2>3. SubSeq(t, 1, Len(s)) = s
    BY <2>2, SeqEqual
  <2> QED
    BY <2>1, <2>3
<1> HIDE DEF t
<1>2. Len(s) \in 0..Len(t) /\ Len(s) < Len(t)
  BY <1>1
<1>3. After(b, SubSeq(t, 1, Len(s) + 1)) = SetPeer(After(b, SubSeq(t, 1, Len(s))), t[Len(s) + 1])
  BY <1>1, <1>2, AfterSteps
<1>4. SubSeq(t, 1, Len(t)) = t
  BY <1>1, SubSeqFull
<1> QED
  BY <1>1, <1>3, <1>4 DEF t
-----------------------------------------------------------------------------
(* Entries as they are encoded                                             *)

(* IPs first, then operations.                                             *)
LEMMA AllowedParts ==
  ASSUME NEW ips \in Seq(IP), NEW ops \in Seq(Operation)
  PROVE  /\ AllowedIPs(ips, ops) \in Seq(AllowedIP)
         /\ Len(AllowedIPs(ips, ops)) = Len(ips) + Len(ops)
         /\ \A i \in 1..(Len(ips) + Len(ops)) :
              AllowedIPs(ips, ops)[i] =
                IF i <= Len(ips) THEN [ip |-> ips[i], remove |-> FALSE]
                ELSE [ip |-> ops[i - Len(ips)].ip, remove |-> ops[i - Len(ips)].op = "remove"]
<1> DEFINE f == [i \in DOMAIN ips |-> [ip |-> ips[i], remove |-> FALSE]]
           g == [i \in DOMAIN ops |-> [ip |-> ops[i].ip, remove |-> ops[i].op = "remove"]]
<1>1. /\ Len(ips) \in Nat /\ DOMAIN ips = 1..Len(ips) /\ \A i \in 1..Len(ips) : ips[i] \in IP
      /\ Len(ops) \in Nat /\ DOMAIN ops = 1..Len(ops) /\ \A i \in 1..Len(ops) : ops[i] \in Operation
  BY LenProperties
<1>2. f \in Seq(AllowedIP) /\ Len(f) = Len(ips)
      /\ \A i \in 1..Len(ips) : f[i] = [ip |-> ips[i], remove |-> FALSE]
  BY <1>1 DEF AllowedIP
<1>3. g \in Seq(AllowedIP) /\ Len(g) = Len(ops)
      /\ \A i \in 1..Len(ops) : g[i] = [ip |-> ops[i].ip, remove |-> ops[i].op = "remove"]
  <2>1. \A i \in 1..Len(ops) : g[i] \in AllowedIP
    BY <1>1 DEF AllowedIP, Operation
  <2> QED
    BY <1>1, <2>1
<1>4. AllowedIPs(ips, ops) = f \o g
  BY DEF AllowedIPs
<1> HIDE DEF f, g
<1>5. \A i \in 1..(Len(ips) + Len(ops)) :
        (f \o g)[i] = IF i <= Len(ips) THEN f[i] ELSE g[i - Len(ips)]
  BY <1>2, <1>3, ConcatProperties
<1>6. f \o g \in Seq(AllowedIP) /\ Len(f \o g) = Len(ips) + Len(ops)
  <2>1. f \o g \in Seq(AllowedIP) /\ Len(f \o g) = Len(f) + Len(g)
    BY ONLY <1>2, <1>3, ConcatProperties
  <2> QED
    BY <1>2, <1>3, <2>1
<1>7. ASSUME NEW i \in 1..(Len(ips) + Len(ops))
      PROVE  (f \o g)[i] =
                IF i <= Len(ips) THEN [ip |-> ips[i], remove |-> FALSE]
                ELSE [ip |-> ops[i - Len(ips)].ip, remove |-> ops[i - Len(ips)].op = "remove"]
  <2>1. CASE i <= Len(ips)
    BY <1>1, <1>2, <1>5, <2>1
  <2>2. CASE ~(i <= Len(ips))
    <3>1. i - Len(ips) \in 1..Len(ops)
      BY <1>1, <2>2
    <3> QED
      BY <1>3, <1>5, <2>2, <3>1
  <2> QED
    BY <2>1, <2>2
<1> QED
  BY <1>4, <1>6, <1>7

(* encodePeer keeps what it does not turn into a list.                     *)
LEMMA EncodedParts ==
  ASSUME NEW e \in PeerConfig
  PROVE  /\ EncodePeer(e) \in Encoded
         /\ EncodePeer(e).key = e.key /\ EncodePeer(e).remove = e.remove
         /\ EncodePeer(e).updateOnly = e.updateOnly /\ EncodePeer(e).setting = e.setting
         /\ EncodePeer(e).replaceIPs = e.replaceIPs
         /\ EncodePeer(e).allowed = AllowedIPs(e.ips, e.ops)
<1>1. e.ips \in Seq(IP) /\ e.ops \in Seq(Operation)
  BY DEF PeerConfig, Operation
<1>2. AllowedIPs(e.ips, e.ops) \in Seq(AllowedIP)
  BY <1>1, AllowedParts
<1> QED
  BY <1>2 DEF EncodePeer, Encoded, PeerConfig

(* replace_peers begins with a device without peers.                       *)
LEMMA EmptyDevice == NoPeers \in Device
BY DEF NoPeers, Device
=============================================================================
