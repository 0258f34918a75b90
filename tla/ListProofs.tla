----------------------------- MODULE ListProofs ----------------------------
(***************************************************************************)
(* Facts about lists that the proofs about the components share: their     *)
(* positions and beginnings, lists of the members of a set, and recursions *)
(* over the positions of a list, which FoldLeft is one of.  Induction over *)
(* the positions goes by Upwards, with the set of the positions for which  *)
(* something holds in the place of what holds.                             *)
(***************************************************************************)
EXTENDS Naturals, Sequences, FiniteSets, SequencesExt, FiniteSetTheorems, SequenceTheorems,
  WellFoundedInduction, NaturalsInduction, TLAPS

(* A set of numbers has a least one.                                       *)
LEMMA FirstOf ==
  ASSUME NEW S \in SUBSET Nat, S # {}
  PROVE  \E m \in S : \A x \in S : m <= x
<1> DEFINE R == {x \in Nat \X Nat : x[1] < x[2]}
<1>1. PICK m \in S : \A y \in S : ~(<<y, m>> \in R)
  <2>1. IsWellFoundedOn(R, Nat)
    BY NatLessThanWellFounded DEF OpToRel
  <2> HIDE DEF R
  <2> QED
    BY <2>1, WFMin
<1>2. ASSUME NEW y \in S, ~(m <= y) PROVE FALSE
  <2>1. y \in Nat /\ m \in Nat /\ y < m
    BY <1>2
  <2>2. <<y, m>> \in R
    BY <2>1
  <2> QED
    BY <1>1, <2>2
<1> QED
  BY <1>2

(* From 0 up to n, step by step.                                           *)
LEMMA Upwards ==
  ASSUME NEW n \in Nat, NEW S, 0 \in S, \A i \in 0..n : i < n /\ i \in S => i + 1 \in S
  PROVE  \A i \in 0..n : i \in S
<1> SUFFICES ASSUME {i \in 0..n : i \notin S} # {} PROVE FALSE
  OBVIOUS
<1>1. {i \in 0..n : i \notin S} \in SUBSET Nat
  OBVIOUS
<1>2. PICK m \in {i \in 0..n : i \notin S} : \A x \in {i \in 0..n : i \notin S} : m <= x
  BY <1>1, FirstOf
<1>3. m # 0 /\ m - 1 \in 0..n /\ m - 1 < n /\ (m - 1) + 1 = m
  BY <1>2
<1>4. m - 1 \in S
  BY <1>2, <1>3
<1> QED
  BY <1>2, <1>3, <1>4

(* The largest position of a list.                                         *)
LEMMA MaxOf ==
  ASSUME NEW n \in Nat, NEW S \in SUBSET (1..n), n \in S
  PROVE  Max(S) = n
<1>1. n \in S /\ \A y \in S : n >= y
  OBVIOUS
<1>2. \A x \in S : (\A y \in S : x >= y) => x = n
  OBVIOUS
<1> QED
  BY <1>1, <1>2 DEF Max

(* The first positions of a list.                                          *)
LEMMA FirstPositions ==
  ASSUME NEW n \in Nat, NEW i \in 1..n
  PROVE  /\ 1..i \in SUBSET (1..n) /\ 1..i # {} /\ (1..i) \ {i} = 1..(i - 1)
         /\ Max(1..i) = i
<1>1. i \in Nat /\ i > 0 /\ i <= n
  OBVIOUS
<1>2. 1..i \in SUBSET (1..n)
  BY <1>1
<1>3. i \in 1..i
  BY <1>1
<1>4. (1..i) \ {i} = 1..(i - 1)
  <2>1. \A x \in 1..i : x # i <=> x \in 1..(i - 1)
    BY <1>1
  <2>2. 1..(i - 1) \subseteq 1..i
    BY <1>1
  <2> QED
    BY <2>1, <2>2
<1>5. Max(1..i) = i
  BY <1>2, <1>3, MaxOf
<1> QED
  BY <1>2, <1>3, <1>4, <1>5

(* A recursion over the subsets of 1..n that takes the largest member.     *)
IsFold(g, n, b, F) ==
  /\ g[{}] = b
  /\ \A s \in SUBSET (1..n) : s # {} => g[s] = F[<<g[s \ {Max(s)}], Max(s)>>]

(* There is such a recursion.                                              *)
LEMMA Folding ==
  ASSUME NEW n \in Nat, NEW D, NEW b \in D, NEW F \in [D \X (1..n) -> D]
  PROVE  \E g \in [SUBSET (1..n) -> D] : IsFold(g, n, b, F)
<1> DEFINE Is(g, m) == IsFold(g, m, b, F)
           S == {m \in 0..n : \E g \in [SUBSET (1..m) -> D] : Is(g, m)}
<1>1. 0 \in S
  <2> DEFINE g == [s \in SUBSET (1..0) |-> b]
  <2>1. g \in [SUBSET (1..0) -> D]
    OBVIOUS
  <2>2. \A s \in SUBSET (1..0) : s = {}
    OBVIOUS
  <2>3. {} \in SUBSET (1..0)
    OBVIOUS
  <2>4. Is(g, 0)
    BY <2>2, <2>3 DEF IsFold
  <2> HIDE DEF g
  <2>5. \E f \in [SUBSET (1..0) -> D] : Is(f, 0)
    BY <2>1, <2>4
  <2> HIDE DEF Is
  <2>6. 0 \in 0..n
    OBVIOUS
  <2> QED
    BY <2>5, <2>6, Zenon
<1>2. ASSUME NEW m \in 0..n, m < n, m \in S PROVE m + 1 \in S
  <2>1. PICK h \in [SUBSET (1..m) -> D] : Is(h, m)
    BY <1>2
  <2> DEFINE k == m + 1
             g == [s \in SUBSET (1..k) |-> IF k \in s THEN F[<<h[s \ {k}], k>>] ELSE h[s]]
  <2>2. k \in 1..n /\ k \in 0..n /\ m \in Nat /\ k \in Nat
    BY <1>2
  <2>3. ASSUME NEW s \in SUBSET (1..k)
        PROVE  /\ s \ {k} \in SUBSET (1..m)
               /\ k \notin s => s \in SUBSET (1..m)
    BY <2>2
  <2>4. ASSUME NEW s \in SUBSET (1..k) PROVE g[s] \in D
    <3>1. h[s \ {k}] \in D
      BY <2>1, <2>3
    <3>2. CASE k \in s
      BY <2>2, <3>1, <3>2
    <3>3. CASE k \notin s
      BY <2>1, <2>3, <3>3
    <3> QED
      BY <3>2, <3>3
  <2>5. ASSUME NEW s \in SUBSET (1..k), s # {}
        PROVE  g[s] = F[<<g[s \ {Max(s)}], Max(s)>>]
    <3>1. CASE k \in s
      <4>1. Max(s) = k
        BY <2>2, <3>1, MaxOf
      <4>2. s \ {k} \in SUBSET (1..k) /\ k \notin s \ {k}
        OBVIOUS
      <4>3. g[s \ {k}] = h[s \ {k}]
        BY <4>2
      <4> QED
        BY <3>1, <4>1, <4>3
    <3>2. CASE k \notin s
      <4>1. s \in SUBSET (1..m) /\ s \ {Max(s)} \in SUBSET (1..k) /\ k \notin s \ {Max(s)}
        BY <2>3, <3>2
      <4>2. g[s] = h[s] /\ g[s \ {Max(s)}] = h[s \ {Max(s)}]
        BY <4>1, <3>2
      <4>3. h[s] = F[<<h[s \ {Max(s)}], Max(s)>>]
        BY <2>1, <2>5, <4>1, Zenon DEF IsFold
      <4> QED
        BY <4>2, <4>3
    <3> QED
      BY <3>1, <3>2
  <2>6. g[{}] = b
    <3>1. {} \in SUBSET (1..k) /\ k \notin {}
      OBVIOUS
    <3>2. g[{}] = h[{}]
      BY <3>1
    <3> QED
      BY <2>1, <3>2 DEF IsFold
  <2>7. g \in [SUBSET (1..k) -> D]
    BY <2>4
  <2> HIDE DEF g
  <2>8. Is(g, k)
    BY <2>5, <2>6 DEF IsFold
  <2>9. \E f \in [SUBSET (1..k) -> D] : Is(f, k)
    BY <2>7, <2>8
  <2> QED
    BY <2>2, <2>9
<1> HIDE DEF S
<1>3. n \in S
  BY <1>1, <1>2, Upwards
<1> QED
  BY <1>3 DEF S

(* A set of positions has a last one.                                      *)
LEMMA LastIn ==
  ASSUME NEW n \in Nat, NEW S \in SUBSET (1..n), S # {}
  PROVE  \E m \in S : \A x \in S : m >= x
<1> DEFINE T == {n - x : x \in S}
<1>1. T \in SUBSET Nat /\ T # {}
  <2>1. \A x \in S : n - x \in Nat
    OBVIOUS
  <2>2. PICK x \in S : TRUE
    OBVIOUS
  <2>3. n - x \in T
    OBVIOUS
  <2> QED
    BY <2>1, <2>3
<1>2. PICK y \in T : \A x \in T : y <= x
  <2> HIDE DEF T
  <2> QED
    BY <1>1, FirstOf
<1>3. PICK m \in S : y = n - m
  OBVIOUS
<1>4. ASSUME NEW x \in S PROVE m >= x
  <2>1. n - x \in T
    OBVIOUS
  <2>2. y <= n - x
    BY <1>2, <2>1
  <2> QED
    BY <1>3, <2>2
<1> QED
  BY <1>4

(* A beginning of a list, and the next one.                                *)
LEMMA Beginning ==
  ASSUME NEW S, NEW s \in Seq(S), NEW i \in 0..Len(s)
  PROVE  /\ SubSeq(s, 1, i) \in Seq(S) /\ Len(SubSeq(s, 1, i)) = i
         /\ \A n \in 1..i : SubSeq(s, 1, i)[n] = s[n]
         /\ i < Len(s) => /\ i + 1 \in DOMAIN s /\ s[i + 1] \in S
                          /\ SubSeq(s, 1, i + 1) = Append(SubSeq(s, 1, i), s[i + 1])
<1>1. Len(s) \in Nat /\ i \in Nat /\ \A n \in 1..Len(s) : s[n] \in S
  BY LenProperties
<1>2. /\ SubSeq(s, 1, i) \in Seq(S) /\ Len(SubSeq(s, 1, i)) = i
      /\ \A n \in 1..i : SubSeq(s, 1, i)[n] = s[n]
  BY <1>1
<1>3. ASSUME i < Len(s)
      PROVE  /\ i + 1 \in DOMAIN s /\ s[i + 1] \in S
             /\ SubSeq(s, 1, i + 1) = Append(SubSeq(s, 1, i), s[i + 1])
  <2>1. i + 1 \in DOMAIN s /\ s[i + 1] \in S
    BY <1>1, <1>3, LenProperties
  <2>2. /\ SubSeq(s, 1, i + 1) \in Seq(S) /\ Len(SubSeq(s, 1, i + 1)) = i + 1
        /\ \A n \in 1..(i + 1) : SubSeq(s, 1, i + 1)[n] = s[n]
    BY <1>1, <1>3
  <2> DEFINE t == Append(SubSeq(s, 1, i), s[i + 1])
  <2>3. t \in Seq(S) /\ Len(t) = i + 1 /\ \A n \in 1..(i + 1) : t[n] = s[n]
    BY <1>1, <1>2, <2>1
  <2> HIDE DEF t
  <2>4. SubSeq(s, 1, i + 1) = t
    BY <2>2, <2>3, SeqEqual
  <2> QED
    BY <2>1, <2>4 DEF t
<1> QED
  BY <1>2, <1>3

(* A finite set can be listed: each member once, and nothing else.     *)
LEMMA ListOfSet ==
  ASSUME NEW S, IsFiniteSet(S)
  PROVE  /\ SetToSeq(S) \in Seq(S)
         /\ Range(SetToSeq(S)) = S
         /\ \A x \in S : \E i \in DOMAIN SetToSeq(S) : SetToSeq(S)[i] = x
         /\ \A i, j \in DOMAIN SetToSeq(S) : SetToSeq(S)[i] = SetToSeq(S)[j] => i = j
<1>1. PICK n \in Nat : ExistsBijection(1..n, S)
  BY FS_NatBijection
<1>2. Cardinality(S) = n
  BY <1>1, FS_CountingElements
<1>3. PICK f : f \in Bijection(1..n, S)
  BY <1>1 DEF ExistsBijection
<1>4. f \in [1..n -> S] /\ IsInjective(f)
  BY <1>3 DEF Bijection, Injection
<1> DEFINE g == SetToSeq(S)
<1>5. g \in [1..n -> S] /\ IsInjective(g)
  BY <1>2, <1>4 DEF SetToSeq
<1>6. g \in Surjection(1..n, S)
  <2>1. g \in Injection(1..n, S)
    BY <1>5 DEF Injection
  <2>2. Cardinality(1..n) = Cardinality(S)
    BY <1>2, FS_Interval
  <2> QED
    BY <2>1, <2>2, FS_Injection
<1>7. \A x \in S : \E i \in 1..n : g[i] = x
  BY <1>6 DEF Surjection
<1>8. DOMAIN g = 1..n /\ \A i, j \in 1..n : g[i] = g[j] => i = j
  BY <1>5 DEF IsInjective
<1> HIDE DEF g
<1>9. g \in Seq(S) /\ Range(g) = S
  BY <1>5, <1>7, <1>8 DEF Range
<1> QED
  BY <1>7, <1>8, <1>9 DEF g

(* Lists are functions on 1..n, and a list of some values is one of more.  *)
LEMMA WiderSeq ==
  ASSUME NEW S, NEW T, S \subseteq T, NEW s \in Seq(S)
  PROVE  s \in Seq(T)
<1>1. Len(s) \in Nat /\ DOMAIN s = 1..Len(s) /\ \A i \in 1..Len(s) : s[i] \in S
  BY LenProperties
<1>2. s = [i \in 1..Len(s) |-> s[i]]
  BY <1>1
<1> DEFINE f == [i \in 1..Len(s) |-> s[i]]
<1>3. f \in [1..Len(s) -> T]
  BY <1>1
<1>4. f \in Seq(T)
  BY <1>1, <1>3
<1> QED
  BY <1>2, <1>4

(* A function on 1..n is a list.                                           *)
LEMMA FunctionIsList ==
  ASSUME NEW n \in Nat, NEW f, f = [i \in 1..n |-> f[i]]
  PROVE  Len(f) = n /\ DOMAIN f = 1..n /\ f \in Seq({f[i] : i \in 1..n})
<1>1. f \in [1..n -> {f[i] : i \in 1..n}]
  OBVIOUS
<1>2. f \in Seq({f[i] : i \in 1..n})
  BY <1>1
<1>3. DOMAIN f = 1..n
  BY <1>1
<1> QED
  BY <1>2, <1>3, LenProperties

(* A list with one more at the end.                                        *)
LEMMA AppendParts ==
  ASSUME NEW n \in Nat, NEW f, f = [i \in 1..n |-> f[i]], NEW x
  PROVE  /\ Append(f, x) = [i \in 1..(n + 1) |-> IF i = n + 1 THEN x ELSE f[i]]
         /\ \A i \in 1..n : Append(f, x)[i] = f[i]
         /\ Append(f, x)[n + 1] = x
         /\ Len(Append(f, x)) = n + 1 /\ DOMAIN Append(f, x) = 1..(n + 1)
<1> DEFINE S == {f[i] : i \in 1..n}
           T == S \cup {x}
           g == [i \in 1..(n + 1) |-> IF i = n + 1 THEN x ELSE f[i]]
<1>1. Len(f) = n /\ f \in Seq(S)
  BY FunctionIsList
<1>2. f \in Seq(T)
  <2> HIDE DEF S
  <2> QED
    BY <1>1, WiderSeq
<1>3. \A i \in 1..(n + 1) : i # n + 1 => i \in 1..n
  OBVIOUS
<1>4. \A i \in 1..(n + 1) : g[i] \in T
  BY <1>3
<1>5. g \in Seq(T) /\ Len(g) = n + 1
  <2>1. g \in [1..(n + 1) -> T]
    BY <1>4
  <2>2. n + 1 \in Nat /\ DOMAIN g = 1..(n + 1)
    OBVIOUS
  <2> HIDE DEF g, T
  <2>3. g \in Seq(T)
    BY <2>1, <2>2
  <2> QED
    BY <2>2, <2>3, LenProperties
<1>6. x \in T
  OBVIOUS
<1> HIDE DEF T
<1>7. /\ Append(f, x) \in Seq(T) /\ Len(Append(f, x)) = n + 1
      /\ \A i \in 1..(n + 1) : Append(f, x)[i] = IF i = n + 1 THEN x ELSE f[i]
  BY <1>1, <1>2, <1>6
<1>8. Append(f, x) = g
  <2>1. \A i \in 1..(n + 1) : Append(f, x)[i] = g[i]
    BY <1>7
  <2> HIDE DEF g
  <2> QED
    BY <1>5, <1>7, <2>1, SeqEqual
<1>9. n + 1 \in 1..(n + 1) /\ \A i \in 1..n : i \in 1..(n + 1) /\ i # n + 1
  OBVIOUS
<1> QED
  BY <1>7, <1>8, <1>9
(* FlattenSeq, one list at a time.                                         *)
Flattens(f, s, n) == f = [i \in 1..n |-> IF i = 1 THEN s[i] ELSE f[i - 1] \o s[i]]

(* There is such a recursion.                                              *)
LEMMA FlattenExists ==
  ASSUME NEW s, NEW n \in Nat
  PROVE  \E f : Flattens(f, s, n)
<1> DEFINE S == {m \in 0..n : \E f : Flattens(f, s, m)}
<1>1. 0 \in S
  <2> DEFINE f == [i \in 1..0 |-> s]
  <2>1. Flattens(f, s, 0)
    BY DEF Flattens
  <2>2. 0 \in 0..n
    OBVIOUS
  <2> QED
    BY <2>1, <2>2
<1>2. ASSUME NEW m \in 0..n, m < n, m \in S PROVE m + 1 \in S
  <2>1. PICK f : Flattens(f, s, m)
    BY <1>2
  <2> DEFINE k == m + 1
             g == [i \in 1..k |-> IF i = 1 THEN s[i] ELSE f[i - 1] \o s[i]]
  <2>2. \A i \in 1..m : g[i] = f[i]
    <3>1. \A i \in 1..m : f[i] = IF i = 1 THEN s[i] ELSE f[i - 1] \o s[i]
      BY <2>1 DEF Flattens
    <3>2. \A i \in 1..m : g[i] = IF i = 1 THEN s[i] ELSE f[i - 1] \o s[i]
      OBVIOUS
    <3> QED
      BY <3>1, <3>2
  <2>3. \A i \in 1..k : i # 1 => i - 1 \in 1..m
    OBVIOUS
  <2>4. g = [i \in 1..k |-> IF i = 1 THEN s[i] ELSE g[i - 1] \o s[i]]
    <3>1. \A i \in 1..k : i # 1 => g[i - 1] = f[i - 1]
      BY <2>2, <2>3
    <3>2. \A i \in 1..k : (IF i = 1 THEN s[i] ELSE f[i - 1] \o s[i])
                          = (IF i = 1 THEN s[i] ELSE g[i - 1] \o s[i])
      BY <3>1
    <3> QED
      BY <3>2
  <2>5. k \in 0..n
    BY <1>2
  <2> HIDE DEF g
  <2>6. Flattens(g, s, k)
    BY <2>4 DEF Flattens
  <2> QED
    BY <2>5, <2>6
<1> HIDE DEF S
<1>3. \A m \in 0..n : m \in S
  BY <1>1, <1>2, Upwards
<1> QED
  BY <1>3 DEF S

(* Lists put together, and one more at the end.                            *)
LEMMA FlattenMore ==
  ASSUME NEW X, NEW s \in Seq(X), NEW x \in X
  PROVE  FlattenSeq(Append(s, x)) = IF s = <<>> THEN x ELSE FlattenSeq(s) \o x
<1> DEFINE n == Len(s)
           t == Append(s, x)
           f == CHOOSE f : Flattens(f, s, n)
           g == CHOOSE g : Flattens(g, t, n + 1)
<1>1. n \in Nat /\ Len(t) = n + 1 /\ (\A i \in 1..n : t[i] = s[i]) /\ t[n + 1] = x
      /\ (s = <<>> <=> n = 0)
  BY LenProperties, EmptySeq
<1> HIDE DEF t
<1>2. Flattens(f, s, n) /\ Flattens(g, t, n + 1)
  <2>1. \E h : Flattens(h, s, n)
    BY <1>1, FlattenExists
  <2>2. n + 1 \in Nat
    BY <1>1
  <2> HIDE DEF n
  <2>3. \E h : Flattens(h, t, n + 1)
    BY <2>2, FlattenExists
  <2> QED
    BY <2>1, <2>3
<1>3. FlattenSeq(t) = g[n + 1]
  <2>1. Len(t) # 0 /\ Len(t) = n + 1
    BY <1>1
  <2> QED
    BY <2>1 DEF FlattenSeq, Flattens
<1>4. s # <<>> => FlattenSeq(s) = f[n]
  BY <1>1 DEF FlattenSeq, Flattens
<1> HIDE DEF f, g
<1>5. /\ \A i \in 1..n : f[i] = IF i = 1 THEN s[i] ELSE f[i - 1] \o s[i]
      /\ \A i \in 1..(n + 1) : g[i] = IF i = 1 THEN t[i] ELSE g[i - 1] \o t[i]
  BY <1>2 DEF Flattens
<1> HIDE DEF n
<1> DEFINE S == {i \in 0..n : i > 0 => f[i] = g[i]}
<1>6. \A i \in 0..n : i \in S
  <2>1. 0 \in S
    BY <1>1
  <2>2. ASSUME NEW i \in 0..n, i < n, i \in S PROVE i + 1 \in S
    <3>1. i + 1 \in 1..n /\ i + 1 \in 1..(n + 1) /\ i + 1 \in 0..n /\ (i + 1) - 1 = i
          /\ (i + 1 = 1 <=> ~(i > 0))
      BY <1>1, <2>2
    <3>2. f[i + 1] = IF i + 1 = 1 THEN s[i + 1] ELSE f[i] \o s[i + 1]
      BY <1>5, <3>1
    <3>3. g[i + 1] = IF i + 1 = 1 THEN t[i + 1] ELSE g[i] \o t[i + 1]
      BY <1>5, <3>1
    <3>4. f[i + 1] = g[i + 1]
      BY <1>1, <2>2, <3>1, <3>2, <3>3
    <3> QED
      BY <3>1, <3>4
  <2> HIDE DEF S
  <2> QED
    BY <1>1, <2>1, <2>2, Upwards
<1>7. CASE n = 0
  <2>1. 1 \in 1..(n + 1)
    BY <1>7
  <2>2. g[1] = t[1]
    BY <1>5, <2>1
  <2> QED
    BY <1>1, <1>3, <1>7, <2>2 DEF t
<1>8. CASE n # 0
  <2>1. n + 1 \in 1..(n + 1) /\ n + 1 # 1 /\ (n + 1) - 1 = n /\ n \in 0..n /\ n > 0
    BY <1>1, <1>8
  <2>2. g[n + 1] = g[n] \o t[n + 1] /\ f[n] = g[n]
    BY <1>5, <1>6, <2>1
  <2> QED
    BY <1>1, <1>3, <1>4, <1>8, <2>2 DEF t
<1> QED
  BY <1>7, <1>8

(* Lists put together.                                                     *)
LEMMA FlattenList ==
  ASSUME NEW S, NEW n \in Nat, NEW s, s = [i \in 1..n |-> s[i]], \A i \in 1..n : s[i] \in Seq(S)
  PROVE  FlattenSeq(s) \in Seq(S)
<1>1. Len(s) = n
  BY FunctionIsList
<1>2. CASE n = 0
  <2>1. FlattenSeq(s) = s
    BY <1>1, <1>2 DEF FlattenSeq
  <2>2. s = <<>>
    BY <1>2
  <2> QED
    BY <2>1, <2>2, EmptySeq
<1>3. CASE n # 0
  <2> DEFINE f == CHOOSE f : Flattens(f, s, n)
  <2>1. FlattenSeq(s) = f[n]
    BY <1>1, <1>3 DEF FlattenSeq, Flattens
  <2>2. Flattens(f, s, n)
    BY FlattenExists
  <2> HIDE DEF f
  <2>3. \A i \in 1..n : f[i] = IF i = 1 THEN s[i] ELSE f[i - 1] \o s[i]
    BY <2>2 DEF Flattens
  <2> DEFINE T == {i \in 0..n : i > 0 => f[i] \in Seq(S)}
  <2>4. 0 \in T
    OBVIOUS
  <2>5. ASSUME NEW i \in 0..n, i < n, i \in T PROVE i + 1 \in T
    <3>1. i + 1 \in 1..n /\ (i + 1) - 1 = i /\ i + 1 \in 0..n /\ (i + 1 = 1 <=> ~(i > 0))
      BY <2>5
    <3>2. f[i + 1] = IF i + 1 = 1 THEN s[i + 1] ELSE f[i] \o s[i + 1]
      BY <2>3, <3>1
    <3>3. CASE i > 0
      <4>1. f[i] \in Seq(S) /\ s[i + 1] \in Seq(S)
        BY <2>5, <3>1, <3>3
      <4>2. f[i] \o s[i + 1] \in Seq(S)
        BY ONLY <4>1, ConcatProperties
      <4> QED
        BY <3>1, <3>2, <3>3, <4>2
    <3>4. CASE ~(i > 0)
      BY <3>1, <3>2, <3>4
    <3> QED
      BY <3>3, <3>4
  <2>6. n \in T
    <3> HIDE DEF T
    <3>1. \A i \in 0..n : i \in T
      BY <2>4, <2>5, Upwards
    <3> QED
      BY <3>1
  <2> QED
    BY <1>3, <2>1, <2>6
<1> QED
  BY <1>2, <1>3
-----------------------------------------------------------------------------
(* Lists of whatever there is in them.                                     *)
Indexed(f) == Len(f) \in Nat /\ f = [i \in 1..Len(f) |-> f[i]]

(* Lists put together: where each begins.                                  *)
Before(b, m) == FlattenSeq(SubSeq(b, 1, m - 1))
PlaceIn(b, m) == Len(Before(b, m))

(* What is before the first is empty, before one behind the last is all,   *)
(* and each one adds itself.                                               *)
LEMMA BeforeParts ==
  ASSUME NEW S, NEW b, Indexed(b), NEW n, n = Len(b), \A i \in 1..n : b[i] \in Seq(S)
  PROVE  /\ Before(b, 1) = <<>> /\ Before(b, n + 1) = FlattenSeq(b)
         /\ \A m \in 1..(n + 1) : Before(b, m) \in Seq(S)
         /\ \A m \in 1..n : Before(b, m + 1) = Before(b, m) \o b[m]
<1> DEFINE T == {b[i] : i \in 1..n}
<1>1. b \in Seq(T) /\ Len(b) = n /\ n \in Nat
  BY FunctionIsList DEF Indexed
<1> HIDE DEF T
<1>2. Before(b, 1) = <<>>
  <2>1. SubSeq(b, 1, 0) = <<>>
    BY <1>1
  <2> QED
    BY <2>1 DEF Before, FlattenSeq
<1>3. Before(b, n + 1) = FlattenSeq(b)
  <2>1. SubSeq(b, 1, n) = b /\ (n + 1) - 1 = n
    BY <1>1
  <2> QED
    BY <2>1 DEF Before
<1>4. ASSUME NEW m \in 0..n
      PROVE  /\ SubSeq(b, 1, m) \in Seq(T) /\ Len(SubSeq(b, 1, m)) = m
             /\ \A i \in 1..m : SubSeq(b, 1, m)[i] = b[i]
             /\ m < n => b[m + 1] \in T /\ SubSeq(b, 1, m + 1) = Append(SubSeq(b, 1, m), b[m + 1])
  BY <1>1, Beginning
<1>5. ASSUME NEW m \in 1..(n + 1) PROVE Before(b, m) \in Seq(S)
  <2>1. m - 1 \in 0..n /\ m - 1 \in Nat
    OBVIOUS
  <2> DEFINE s == SubSeq(b, 1, m - 1)
  <2>2. /\ s \in Seq(T) /\ Len(s) = m - 1
        /\ \A i \in 1..(m - 1) : s[i] = b[i]
    BY <1>4, <2>1
  <2> HIDE DEF s
  <2>3. DOMAIN s = 1..(m - 1)
    BY <2>2, LenProperties
  <2>4. s = [i \in 1..(m - 1) |-> s[i]]
    BY <2>2, <2>3
  <2>5. \A i \in 1..(m - 1) : s[i] \in Seq(S)
    BY <2>1, <2>2
  <2>6. FlattenSeq(s) \in Seq(S)
    BY <2>1, <2>4, <2>5, FlattenList
  <2> QED
    BY <2>6 DEF Before, s
<1>6. ASSUME NEW m \in 1..n PROVE Before(b, m + 1) = Before(b, m) \o b[m]
  <2>1. m - 1 \in 0..n /\ m - 1 < n /\ (m - 1) + 1 = m /\ (m + 1) - 1 = m
    OBVIOUS
  <2> DEFINE s == SubSeq(b, 1, m - 1)
  <2>2. s \in Seq(T) /\ b[m] \in T /\ SubSeq(b, 1, m) = Append(s, b[m]) /\ Len(s) = m - 1
    BY <1>4, <2>1
  <2>3. FlattenSeq(Append(s, b[m])) = IF s = <<>> THEN b[m] ELSE FlattenSeq(s) \o b[m]
    <3> HIDE DEF s
    <3> QED
      BY <2>2, FlattenMore
  <2>4. Before(b, m + 1) = FlattenSeq(Append(s, b[m])) /\ Before(b, m) = FlattenSeq(s)
    BY <2>1, <2>2 DEF Before
  <2>5. CASE s = <<>>
    <3>1. FlattenSeq(s) = <<>>
      BY <2>5 DEF FlattenSeq
    <3>2. b[m] \in Seq(S)
      OBVIOUS
    <3>3. <<>> \o b[m] = b[m]
      BY <3>2
    <3> HIDE DEF s
    <3> QED
      BY <2>3, <2>4, <2>5, <3>1, <3>3
  <2>6. CASE s # <<>>
    <3> HIDE DEF s
    <3> QED
      BY <2>3, <2>4, <2>6
  <2> QED
    BY <2>5, <2>6
<1> QED
  BY <1>2, <1>3, <1>5, <1>6

(* Two sequences in a row: the first, and behind it the second.            *)
LEMMA ConcatParts ==
  ASSUME NEW S, NEW s \in Seq(S), NEW t \in Seq(S)
  PROVE  /\ s \o t \in Seq(S) /\ Len(s \o t) = Len(s) + Len(t)
         /\ \A i \in 1..Len(s) : (s \o t)[i] = s[i]
         /\ \A i \in 1..Len(t) : (s \o t)[Len(s) + i] = t[i]
<1>1. /\ s \o t \in Seq(S) /\ Len(s \o t) = Len(s) + Len(t)
      /\ \A i \in 1..(Len(s) + Len(t)) : (s \o t)[i] = IF i <= Len(s) THEN s[i] ELSE t[i - Len(s)]
  BY ONLY s \in Seq(S), t \in Seq(S), ConcatProperties
<1>2. Len(s) \in Nat /\ Len(t) \in Nat
  BY LenProperties
<1>3. ASSUME NEW i \in 1..Len(s) PROVE (s \o t)[i] = s[i]
  BY <1>1, <1>2
<1>4. ASSUME NEW i \in 1..Len(t) PROVE (s \o t)[Len(s) + i] = t[i]
  <2>1. Len(s) + i \in 1..(Len(s) + Len(t)) /\ ~(Len(s) + i <= Len(s)) /\ (Len(s) + i) - Len(s) = i
    BY <1>2
  <2> QED
    BY <1>1, <2>1
<1> QED
  BY <1>1, <1>3, <1>4

(* Each list is found again where it begins.                               *)
LEMMA FlattenPlaces ==
  ASSUME NEW S, NEW b, Indexed(b), NEW n, n = Len(b), \A i \in 1..n : b[i] \in Seq(S)
  PROVE  /\ PlaceIn(b, 1) = 0 /\ FlattenSeq(b) \in Seq(S)
         /\ \A m \in 1..n : /\ PlaceIn(b, m) \in Nat /\ Len(b[m]) \in Nat
                            /\ PlaceIn(b, m + 1) = PlaceIn(b, m) + Len(b[m])
                            /\ \A i \in 1..Len(b[m]) :
                                 /\ PlaceIn(b, m) + i \in 1..Len(FlattenSeq(b))
                                 /\ FlattenSeq(b)[PlaceIn(b, m) + i] = b[m][i]
<1> DEFINE B(m) == Before(b, m)
<1>0. n \in Nat
  BY DEF Indexed
<1>1. /\ B(1) = <<>> /\ B(n + 1) = FlattenSeq(b)
      /\ \A m \in 1..(n + 1) : B(m) \in Seq(S)
      /\ \A m \in 1..n : B(m + 1) = B(m) \o b[m]
  BY BeforeParts
<1> HIDE DEF B
<1>2. ASSUME NEW m \in 1..n
      PROVE  /\ Len(B(m)) \in Nat /\ Len(b[m]) \in Nat /\ Len(B(m + 1)) = Len(B(m)) + Len(b[m])
             /\ \A i \in 1..Len(B(m)) : B(m + 1)[i] = B(m)[i]
             /\ \A i \in 1..Len(b[m]) : B(m + 1)[Len(B(m)) + i] = b[m][i]
  <2>1. B(m) \in Seq(S) /\ b[m] \in Seq(S) /\ B(m + 1) = B(m) \o b[m]
    BY <1>1
  <2>2. Len(B(m)) \in Nat /\ Len(b[m]) \in Nat
    BY <2>1, LenProperties
  <2> QED
    BY <2>1, <2>2, ConcatParts
<1> DEFINE Found(k) == \A m \in 1..k : \A i \in 1..Len(b[m]) :
                         Len(B(m)) + i \in 1..Len(B(k + 1)) /\ B(k + 1)[Len(B(m)) + i] = b[m][i]
           K == {k \in 0..n : Found(k)}
<1>3. 0 \in K
  BY <1>0
<1>4. ASSUME NEW k \in 0..n, k < n, k \in K PROVE k + 1 \in K
  <2> DEFINE l == k + 1
  <2>1. l \in 1..n /\ l \in 0..n /\ k \in Nat
    BY <1>0, <1>4
  <2>2. /\ Len(B(l)) \in Nat /\ Len(b[l]) \in Nat /\ Len(B(l + 1)) = Len(B(l)) + Len(b[l])
        /\ \A i \in 1..Len(B(l)) : B(l + 1)[i] = B(l)[i]
        /\ \A i \in 1..Len(b[l]) : B(l + 1)[Len(B(l)) + i] = b[l][i]
    BY <1>2, <2>1
  <2>3. ASSUME NEW m \in 1..k, NEW i \in 1..Len(b[m])
        PROVE  Len(B(m)) + i \in 1..Len(B(l)) /\ B(l)[Len(B(m)) + i] = b[m][i]
    BY <1>4, <2>3
  <2> HIDE DEF l
  <2>4. ASSUME NEW m \in 1..l, NEW i \in 1..Len(b[m])
        PROVE  Len(B(m)) + i \in 1..Len(B(l + 1)) /\ B(l + 1)[Len(B(m)) + i] = b[m][i]
    <3>1. CASE m = l
      <4>1. Len(B(l)) + i \in 1..(Len(B(l)) + Len(b[l]))
        BY <2>2, <2>4, <3>1
      <4> QED
        BY <2>2, <2>4, <3>1, <4>1
    <3>2. CASE m # l
      <4>1. m \in 1..k
        BY <2>1, <2>4, <3>2 DEF l
      <4>2. Len(B(m)) + i \in 1..Len(B(l)) /\ B(l)[Len(B(m)) + i] = b[m][i]
        BY <2>3, <4>1
      <4>3. Len(B(m)) + i \in 1..Len(B(l + 1))
        BY <2>2, <4>2
      <4> QED
        BY <2>2, <4>2, <4>3
    <3> QED
      BY <3>1, <3>2
  <2>5. Found(l)
    BY <2>4
  <2> QED
    BY <2>1, <2>5 DEF l
<1> HIDE DEF K
<1>5. \A k \in 0..n : k \in K
  BY <1>0, <1>3, <1>4, Upwards
<1>6. Found(n)
  <2>1. n \in K
    BY <1>0, <1>5
  <2> QED
    BY <2>1 DEF K
<1>7. \A m : PlaceIn(b, m) = Len(B(m))
  BY DEF PlaceIn, B
<1>8. PlaceIn(b, 1) = 0 /\ FlattenSeq(b) \in Seq(S)
  BY <1>1, <1>7
<1>9. ASSUME NEW m \in 1..n, NEW i \in 1..Len(b[m])
      PROVE  /\ PlaceIn(b, m) + i \in 1..Len(FlattenSeq(b))
             /\ FlattenSeq(b)[PlaceIn(b, m) + i] = b[m][i]
  <2>1. Len(B(m)) + i \in 1..Len(B(n + 1)) /\ B(n + 1)[Len(B(m)) + i] = b[m][i]
    BY <1>6
  <2>2. B(n + 1) = FlattenSeq(b)
    BY <1>1
  <2> QED
    BY <1>7, <2>1, <2>2
<1>10. ASSUME NEW m \in 1..n
       PROVE  /\ PlaceIn(b, m) \in Nat /\ Len(b[m]) \in Nat
              /\ PlaceIn(b, m + 1) = PlaceIn(b, m) + Len(b[m])
  BY <1>2, <1>7
<1> QED
  BY ONLY <1>8, <1>9, <1>10


(* Such a list is a sequence of what is in it.                             *)
LEMMA ListParts ==
  ASSUME NEW f, Indexed(f)
  PROVE  DOMAIN f = 1..Len(f) /\ f \in Seq({f[i] : i \in 1..Len(f)})
BY FunctionIsList DEF Indexed

(* Two lists in a row are a list: the first, and behind it the second.     *)
LEMMA TwoLists ==
  ASSUME NEW f, NEW g, Indexed(f), Indexed(g)
  PROVE  /\ Indexed(f \o g) /\ Len(f \o g) = Len(f) + Len(g)
         /\ \A i \in 1..Len(f) : (f \o g)[i] = f[i]
         /\ \A i \in 1..Len(g) : (f \o g)[Len(f) + i] = g[i]
<1> DEFINE A == {f[i] : i \in 1..Len(f)}
           B == {g[i] : i \in 1..Len(g)}
           S == A \cup B
<1>1. f \in Seq(A) /\ g \in Seq(B)
  BY ListParts
<1>2. A \subseteq S /\ B \subseteq S
  OBVIOUS
<1> HIDE DEF A, B, S
<1>3. f \in Seq(S) /\ g \in Seq(S)
  BY <1>1, <1>2, WiderSeq
<1>4. /\ f \o g \in Seq(S) /\ Len(f \o g) = Len(f) + Len(g)
      /\ \A i \in 1..Len(f) : (f \o g)[i] = f[i]
      /\ \A i \in 1..Len(g) : (f \o g)[Len(f) + i] = g[i]
  BY <1>3, ConcatParts
<1>5. Indexed(f \o g)
  <2> DEFINE h == f \o g
  <2>1. h \in Seq(S)
    BY <1>4
  <2> HIDE DEF h
  <2>2. Len(h) \in Nat /\ DOMAIN h = 1..Len(h) /\ h \in [1..Len(h) -> S]
    BY <2>1, LenProperties, SeqDef
  <2> QED
    BY <2>2 DEF Indexed, h
<1> QED
  BY <1>4, <1>5

(* A function on 1..n is a list.                                           *)
LEMMA ListIs ==
  ASSUME NEW n \in Nat, NEW f, f = [i \in 1..n |-> f[i]]
  PROVE  Indexed(f) /\ Len(f) = n /\ DOMAIN f = 1..n
BY FunctionIsList DEF Indexed

(* So is one thing.                                                        *)
LEMMA OneList ==
  ASSUME NEW x
  PROVE  Indexed(<<x>>) /\ Len(<<x>>) = 1 /\ <<x>>[1] = x
BY DEF Indexed

(* Blocks after a head: where each is.                                     *)
AreLists(b) == Indexed(b) /\ \A i \in 1..Len(b) : Indexed(b[i])
Headed(head, b) == <<head>> \o FlattenSeq(b)
Block(mem, b, m) ==
  /\ PlaceIn(b, m) \in Nat
  /\ PlaceIn(b, m + 1) = PlaceIn(b, m) + Len(b[m])
  /\ \A i \in 1..Len(b[m]) : /\ 1 + (PlaceIn(b, m) + i) \in DOMAIN mem
                             /\ mem[1 + (PlaceIn(b, m) + i)] = b[m][i]

(* Lists behind a head: each is where it begins, one behind the other.     *)
LEMMA BlockPlaces ==
  ASSUME NEW b, AreLists(b), NEW head
  PROVE  /\ Indexed(Headed(head, b)) /\ 1 \in DOMAIN Headed(head, b) /\ Headed(head, b)[1] = head
         /\ PlaceIn(b, 1) = 0
         /\ \A m \in 1..Len(b) : Block(Headed(head, b), b, m)
<1> DEFINE n == Len(b)
           mem == Headed(head, b)
<1>0. Indexed(b) /\ n = Len(b) /\ (\A i \in 1..n : Indexed(b[i])) /\ mem = <<head>> \o FlattenSeq(b)
  BY DEF AreLists, Headed
<1> HIDE DEF n, mem
<1> DEFINE S == UNION {{b[i][q] : q \in 1..Len(b[i])} : i \in 1..n}
<1>1. ASSUME NEW i \in 1..n PROVE b[i] \in Seq(S)
  <2> DEFINE R == {b[i][q] : q \in 1..Len(b[i])}
  <2>1. b[i] \in Seq(R)
    BY <1>0, ListParts
  <2>2. R \subseteq S
    OBVIOUS
  <2> HIDE DEF R, S
  <2> QED
    BY <2>1, <2>2, WiderSeq
<1> HIDE DEF S
<1> DEFINE F == FlattenSeq(b)
<1>13. /\ PlaceIn(b, 1) = 0 /\ F \in Seq(S)
       /\ \A m \in 1..n : /\ PlaceIn(b, m) \in Nat /\ Len(b[m]) \in Nat
                           /\ PlaceIn(b, m + 1) = PlaceIn(b, m) + Len(b[m])
                           /\ \A i \in 1..Len(b[m]) :
                                /\ PlaceIn(b, m) + i \in 1..Len(F)
                                /\ F[PlaceIn(b, m) + i] = b[m][i]
  <2>1. \A i \in 1..n : b[i] \in Seq(S)
    BY <1>1
  <2> HIDE DEF S, n
  <2> QED
    BY <1>0, <2>1, FlattenPlaces
<1>2. /\ PlaceIn(b, 1) = 0 /\ F \in Seq(S)
      /\ \A m \in 1..n : PlaceIn(b, m) \in Nat /\ Len(b[m]) \in Nat /\ PlaceIn(b, m + 1) = PlaceIn(b, m) + Len(b[m])
  <2> HIDE DEF F
  <2> QED
    BY <1>13
<1>11. ASSUME NEW m \in 1..n, NEW i \in 1..Len(b[m])
      PROVE  PlaceIn(b, m) + i \in 1..Len(F) /\ F[PlaceIn(b, m) + i] = b[m][i]
  <2> HIDE DEF F
  <2> QED
    BY <1>13
<1> HIDE DEF F
<1>3. Indexed(F)
  BY <1>2, LenProperties, SeqDef DEF Indexed
<1> DEFINE one == <<head>>
<1>4. Indexed(one) /\ Len(one) = 1 /\ one[1] = head
  BY OneList
<1>5. mem = one \o F
  BY <1>0 DEF F
<1> HIDE DEF one
<1>6. /\ Indexed(mem) /\ Len(mem) = 1 + Len(F)
      /\ \A i \in 1..1 : mem[i] = one[i]
      /\ \A i \in 1..Len(F) : mem[1 + i] = F[i]
  <2>1. /\ Indexed(one \o F) /\ Len(one \o F) = Len(one) + Len(F)
        /\ \A i \in 1..Len(one) : (one \o F)[i] = one[i]
        /\ \A i \in 1..Len(F) : (one \o F)[Len(one) + i] = F[i]
    <3>1. Indexed(one)
      BY <1>4
    <3> QED
      BY ONLY <1>3, <3>1, TwoLists
  <2> QED
    BY <1>4, <1>5, <2>1
<1>7. DOMAIN mem = 1..(1 + Len(F)) /\ Len(F) \in Nat
  BY <1>3, <1>6, ListParts DEF Indexed
<1>8. 1 \in DOMAIN mem /\ mem[1] = head
  BY <1>4, <1>6, <1>7
<1>9. ASSUME NEW m \in 1..n, NEW i \in 1..Len(b[m])
      PROVE  1 + (PlaceIn(b, m) + i) \in DOMAIN mem /\ mem[1 + (PlaceIn(b, m) + i)] = b[m][i]
  <2>1. PlaceIn(b, m) + i \in 1..Len(F) /\ F[PlaceIn(b, m) + i] = b[m][i]
    BY <1>11
  <2> DEFINE q == PlaceIn(b, m) + i
  <2> HIDE DEF q
  <2>2. q \in 1..Len(F) /\ F[q] = b[m][i]
    BY <2>1 DEF q
  <2>3. 1 + q \in DOMAIN mem /\ mem[1 + q] = b[m][i]
    <3>1. 1 + q \in 1..(1 + Len(F))
      BY <1>7, <2>2
    <3> QED
      BY <1>6, <1>7, <2>2, <3>1
  <2> QED
    BY <2>3 DEF q
<1>10. \A m \in 1..n : PlaceIn(b, m) \in Nat /\ PlaceIn(b, m + 1) = PlaceIn(b, m) + Len(b[m])
  BY <1>2
<1>12. \A m \in 1..n : Block(mem, b, m)
  BY <1>9, <1>10 DEF Block
<1> QED
  BY <1>2, <1>6, <1>8, <1>12 DEF n, mem
=============================================================================
