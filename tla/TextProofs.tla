----------------------------- MODULE TextProofs -----------------------------
(***************************************************************************)
(* What a client of wgd can go by, for any requests in any order, any      *)
(* texts and any devices.  StatusIsTrue says it of a request that has been *)
(* answered; the invariant (Served) says of one that is being served that  *)
(* the device is as the request found it until it is configured, after     *)
(* which nothing is called a bad request any more, and that a device that  *)
(* is not there has been missing during the request.                       *)
(*                                                                         *)
(* The rest is about texts.  What one more line adds to the meaning of a   *)
(* text (MeantMore) is what the parser does with the line (ParsesOn).  A   *)
(* text that broke off is the beginning of the one that was sent and a     *)
(* line that starts no section, which leaves all entries before the last   *)
(* (ArrivesReadable).  The invariant (Reading) carries both through a      *)
(* request.                                                                *)
(*                                                                         *)
(* Last comes the way back (ShownCanBePutBack): what the text that Encode  *)
(* writes means, peer by peer (EncodeBack), and what a device is after the *)
(* entries that it means (OnlyPeers).  The invariant (Restoring) says of a *)
(* request that brings a text back that it means the device that was shown *)
(* until that is applied.                                                  *)
(*                                                                         *)
(* What wg-quick makes of its files, for any number of runs, keys,         *)
(* addresses, lists and lines.                                             *)
(*                                                                         *)
(* That a run can read back what another has written is EncodeParse: Parse *)
(* undoes Encode, for every configuration that Parse accepts.  It is       *)
(* proved along the lines: what each of them does to what has been read    *)
(* (GotHeader, GotField, GotPeer) and, as Parse is a fold over the lines,  *)
(* what texts one after the other do (RunBoth).                            *)
(*                                                                         *)
(* FilesAreReadAlike goes along the lines, too: after each line that       *)
(* wg-quick can read, what it holds agrees with what the lines so far mean *)
(* to wg (AgreesOn, over MeantMore), so it does for                        *)
(* the file and for what Strip leaves of it (FilesMean, StripReads).       *)
(*                                                                         *)
(* SavesAreWhole rests on an invariant (Kept) that says what each run      *)
(* holds at each of its steps (Fits): the file it has read, with the       *)
(* network part of the beginning (SameNet); that file with the device      *)
(* (Merged); the temporary file with the first lines of it (HalfWritten).  *)
(* As long as one run at a time has the temporary file open (OneWriter)    *)
(* the file is whole after each rename (LastSaved), and whatever can be    *)
(* read of it has the network part of the beginning (NetStays), so the     *)
(* next run merges into that.                                              *)
(***************************************************************************)
EXTENDS RestRequest, QuickSave, KernelDataProofs

(* Where a request may be.                                                 *)
Stages == {"idle", "peek", "auth", "parse", "sync", "configure", "readback"}

Untouched == at \notin {"idle", "readback"} => dev = before
Gone == ~up => gone

Served == at \in Stages /\ Untouched /\ Gone /\ RefusedIsHarmless /\ NotFoundIsMissing

(* Nobody has asked for anything.                                          *)
LEMMA ServedInit == Init => Served
BY DEF Init, Served, Stages, Untouched, Gone, RefusedIsHarmless, NotFoundIsMissing

(* A request may be refused before it has changed anything, and a device   *)
(* may be called missing when it is.                                       *)
LEMMA ServedReply ==
  ASSUME Served, NEW code, Reply(code),
         code \in {400, 401, 405} => dev' = before,
         code = 404 /\ req.path \in {"device", "conf"} => ~up
  PROVE  Served'
BY DEF Served, Reply, asked, Stages, Untouched, Gone, RefusedIsHarmless, NotFoundIsMissing

(* A request that goes on with the device as it is.                        *)
LEMMA ServedOn ==
  ASSUME Served, at # "idle", at # "readback", NEW next, next \in Stages \ {"idle"}, at' = next,
         UNCHANGED <<asked, dev, up, gone>>
  PROVE  Served'
BY DEF Served, asked, Stages, Untouched, Gone, RefusedIsHarmless, NotFoundIsMissing

(* Replies that are not about the device's being there.                    *)
LEMMA ServedAnswers ==
  ASSUME Served,
         \/ Unauthorized \/ NotFound \/ MethodNotAllowed \/ Alive \/ ListDevices
         \/ ShowDevice \/ ShowConf \/ WrongMode \/ Refused \/ BadConfig
  PROVE  Served'
<1>1. at \in {"auth", "parse"} => dev = before
  BY DEF Served, Untouched
<1>2. CASE Unauthorized
  BY <1>1, <1>2, ServedReply DEF Unauthorized, ReplyOnly
<1>3. CASE NotFound
  BY <1>3, ServedReply DEF NotFound, ReplyOnly
<1>4. CASE MethodNotAllowed
  BY <1>1, <1>4, ServedReply DEF MethodNotAllowed, Known, ReplyOnly
<1>5. CASE Alive
  BY <1>5, ServedReply DEF Alive, ReplyOnly
<1>6. CASE ListDevices
  <2>1. PICK code \in {200, 500} : ReplyOnly(code)
    BY <1>6 DEF ListDevices
  <2> QED
    BY <2>1, ServedReply DEF ReplyOnly
<1>7. CASE ShowDevice
  BY <1>7, ServedReply DEF ShowDevice, ReplyOnly
<1>8. CASE ShowConf
  BY <1>8, ServedReply DEF ShowConf
<1>9. CASE WrongMode
  BY <1>1, <1>9, ServedReply DEF WrongMode, Writes, Routed, Known, ReplyOnly
<1>10. CASE Refused
  BY <1>1, <1>10, ServedReply DEF Refused, ReplyOnly
<1>11. CASE BadConfig
  BY <1>1, <1>11, ServedReply DEF BadConfig, Structured, Routed, Known, ReplyOnly
<1> QED
  BY <1>2, <1>3, <1>4, <1>5, <1>6, <1>7, <1>8, <1>9, <1>10, <1>11

(* Steps of serving.                                                       *)
LEMMA ServedServe == Served /\ Serve => Served'
<1> SUFFICES ASSUME Served, Serve PROVE Served'
  OBVIOUS
<1>1. CASE Peek \/ PeekFails
  BY <1>1, ServedOn DEF Peek, PeekFails, Stages
<1>2. CASE Missing \/ DeviceMissing
  BY <1>2, ServedReply DEF Missing, DeviceMissing, ReplyOnly
<1>3. CASE Parse
  BY <1>3, ServedOn DEF Parse, Writes, Routed, Known, Goto, Stages
<1>4. CASE ParseLine
  BY <1>4 DEF ParseLine, web, asked, Served, Untouched, Gone, RefusedIsHarmless, NotFoundIsMissing
<1>5. CASE Parsed
  BY <1>5, ServedOn DEF Parsed, Goto, Stages
<1>6. CASE ParseConfig
  BY <1>6, ServedOn DEF ParseConfig, Structured, Routed, Known, Goto, Stages
<1>7. CASE StepFails
  BY <1>7, ServedReply DEF StepFails, ReplyOnly
<1>8. CASE Sync
  BY <1>8, ServedOn DEF Sync, Goto, Stages
<1>9. CASE Configure
  BY <1>9 DEF Configure, Goto, asked, Served, Stages, Untouched, Gone, RefusedIsHarmless,
              NotFoundIsMissing
<1>10. CASE SaveNames
  BY <1>10, ServedReply DEF SaveNames
<1> QED
  BY <1>1, <1>2, <1>3, <1>4, <1>5, <1>6, <1>7, <1>8, <1>9, <1>10, ServedAnswers DEF Serve

(* Every step keeps it.                                                    *)
LEMMA ServedStep == Served /\ [Next]_vars => Served'
<1> SUFFICES ASSUME Served, [Next]_vars PROVE Served'
  OBVIOUS
<1>1. CASE Ask
  BY <1>1 DEF Ask, Served, Stages, Untouched, Gone, RefusedIsHarmless, NotFoundIsMissing
<1>2. CASE Vanish
  BY <1>2 DEF Vanish, asked, Served, Stages, Untouched, Gone, RefusedIsHarmless, NotFoundIsMissing
<1>3. CASE UNCHANGED vars
  BY <1>3 DEF vars, web, asked, Served, Stages, Untouched, Gone, RefusedIsHarmless, NotFoundIsMissing
<1> QED
  BY <1>1, <1>2, <1>3, ServedServe DEF Next

(* A request that is told it was wrong has changed nothing, however far it *)
(* came, and "not found" is said only of a device that was missing during  *)
(* the request (server.go:386-458, deviceErrorStatus).                     *)
THEOREM StatusCanBeTrusted == Spec => []StatusIsTrue
<1>1. Served => StatusIsTrue
  BY DEF Served, StatusIsTrue
<1> QED
  BY <1>1, ServedInit, ServedStep, PTL DEF Spec
-----------------------------------------------------------------------------
(* The lines of a text in order, and what the last of some lines says.     *)

(* InOrder, one line at a time: it is a recursion of ListProofs.           *)
LEMMA InOrderFolds ==
  ASSUME NEW n \in Nat
  PROVE  \E g \in [SUBSET (1..n) -> Seq(1..n)] :
           /\ g[{}] = <<>>
           /\ \A u \in SUBSET (1..n) : u # {} => /\ Max(u) \in u /\ \A m \in u : m <= Max(u)
                                                 /\ g[u] = Append(g[u \ {Max(u)}], Max(u))
           /\ \A u \in SUBSET (1..n) : InOrder(u) = g[u]
<1> DEFINE D == Seq(1..n)
           F == [y \in D \X (1..n) |-> Append(y[1], y[2])]
<1>1. F \in [D \X (1..n) -> D] /\ <<>> \in D
  OBVIOUS
<1>2. PICK g \in [SUBSET (1..n) -> D] : IsFold(g, n, <<>>, F)
  <2> HIDE DEF D, F
  <2> QED
    BY <1>1, Folding
<1>3. ASSUME NEW u \in SUBSET (1..n), u # {}
      PROVE  Max(u) \in u /\ \A m \in u : m <= Max(u)
  <2>1. \E m \in u : \A x \in u : m >= x
    BY <1>3, LastIn
  <2>2. Max(u) \in u /\ \A x \in u : Max(u) >= x
    BY <2>1 DEF Max
  <2> QED
    BY <2>2
<1>4. ASSUME NEW u \in SUBSET (1..n), u # {}
      PROVE  g[u] = Append(g[u \ {Max(u)}], Max(u))
  <2>1. g[u] = F[<<g[u \ {Max(u)}], Max(u)>>]
    BY <1>2, <1>4, Zenon DEF IsFold
  <2>2. g[u \ {Max(u)}] \in D /\ Max(u) \in 1..n
    BY <1>2, <1>3, <1>4
  <2> QED
    BY <2>1, <2>2
<1>5. ASSUME NEW v \in SUBSET (1..n) PROVE InOrder(v) = g[v]
  <2> DEFINE Is(h) == h = [u \in SUBSET v |->
                             IF u = {} THEN <<>> ELSE Append(h[u \ {Max(u)}], Max(u))]
             h0 == [u \in SUBSET v |-> g[u]]
             h == CHOOSE h : Is(h)
  <2>1. Is(h0)
    <3>1. \A u \in SUBSET v : g[u] = IF u = {} THEN <<>> ELSE Append(h0[u \ {Max(u)}], Max(u))
      <4> SUFFICES ASSUME NEW u \in SUBSET v
                   PROVE  g[u] = IF u = {} THEN <<>> ELSE Append(h0[u \ {Max(u)}], Max(u))
        OBVIOUS
      <4>1. u \in SUBSET (1..n) /\ h0[u \ {Max(u)}] = g[u \ {Max(u)}]
        OBVIOUS
      <4>2. CASE u = {}
        BY <1>2, <4>2 DEF IsFold
      <4>3. CASE u # {}
        BY <1>4, <4>1, <4>3
      <4> QED
        BY <4>2, <4>3
    <3> QED
      BY <3>1
  <2>2. Is(h)
    BY <2>1
  <2>3. InOrder(v) = h[v]
    BY DEF InOrder, MapThenFoldSet
  <2> HIDE DEF h
  <2> DEFINE S == {m \in 0..n : \A u \in SUBSET v : u \subseteq 1..m => h[u] = g[u]}
  <2>4. \A u \in SUBSET v : h[u] = IF u = {} THEN <<>> ELSE Append(h[u \ {Max(u)}], Max(u))
    BY <2>2, Zenon
  <2>5. 0 \in S
    <3>1. h[{}] = <<>> /\ g[{}] = <<>>
      BY <1>2, <2>4 DEF IsFold
    <3>2. \A u \in SUBSET v : u \subseteq 1..0 => u = {}
      OBVIOUS
    <3>3. \A u \in SUBSET v : u \subseteq 1..0 => h[u] = g[u]
      BY <3>1, <3>2, Zenon
    <3>4. 0 \in 0..n
      OBVIOUS
    <3> QED
      BY <3>3, <3>4
  <2>6. ASSUME NEW m \in 0..n, m < n, m \in S PROVE m + 1 \in S
    <3>1. ASSUME NEW u \in SUBSET v, u \subseteq 1..(m + 1) PROVE h[u] = g[u]
      <4>1. CASE u = {}
        BY <1>2, <2>4, <4>1 DEF IsFold
      <4>2. CASE u # {}
        <5>1. u \in SUBSET (1..n)
          OBVIOUS
        <5>2. Max(u) \in u /\ \A x \in u : x <= Max(u)
          BY <1>3, <4>2, <5>1
        <5>3. u \ {Max(u)} \in SUBSET v /\ u \ {Max(u)} \subseteq 1..m
          <6>1. u \ {Max(u)} \in SUBSET v
            OBVIOUS
          <6>2. \A x \in u : x \in 1..(m + 1)
            BY <3>1
          <6>3. \A x \in u : x # Max(u) => x \in 1..m
            <7>1. PICK y : y = Max(u)
              OBVIOUS
            <7>2. y \in 1..(m + 1) /\ \A x \in u : x <= y
              BY <5>2, <6>2, <7>1
            <7>3. \A x \in u : x # y => x \in 1..m
              BY <2>6, <6>2, <7>2
            <7> QED
              BY <7>1, <7>3
          <6> QED
            BY <6>1, <6>3
        <5>4. h[u \ {Max(u)}] = g[u \ {Max(u)}]
          BY <2>6, <5>3
        <5>5. h[u] = Append(h[u \ {Max(u)}], Max(u))
          BY <2>4, <4>2
        <5>6. g[u] = Append(g[u \ {Max(u)}], Max(u))
          BY <1>4, <4>2, <5>1
        <5> QED
          BY <5>4, <5>5, <5>6
      <4> QED
        BY <4>1, <4>2
    <3>2. m + 1 \in 0..n
      BY <2>6
    <3> QED
      BY <3>1, <3>2
  <2> HIDE DEF S
  <2>7. \A m \in 0..n : m \in S
    BY <2>5, <2>6, Upwards
  <2>8. h[v] = g[v]
    <3>1. n \in 0..n
      OBVIOUS
    <3>2. n \in S
      BY <2>7, <3>1
    <3>3. v \in SUBSET v /\ v \subseteq 1..n
      OBVIOUS
    <3> QED
      BY <3>2, <3>3 DEF S
  <2> QED
    BY <2>3, <2>8
<1> QED
  BY <1>2, <1>3, <1>4, <1>5 DEF IsFold

(* The lines in order, and one more after them.                            *)
LEMMA InOrderMore ==
  ASSUME NEW n \in Nat, NEW S \in SUBSET (1..n)
  PROVE  InOrder(S \cup {n + 1}) = Append(InOrder(S), n + 1)
<1> DEFINE k == n + 1
           T == S \cup {k}
<1>1. k \in Nat /\ T \in SUBSET (1..k) /\ S \in SUBSET (1..k) /\ k \in T /\ T # {}
      /\ \A m \in T : m <= k
  OBVIOUS
<1>2. T \ {k} = S
  OBVIOUS
<1> HIDE DEF T, k
<1>3. PICK g \in [SUBSET (1..k) -> Seq(1..k)] :
           /\ g[{}] = <<>>
           /\ \A u \in SUBSET (1..k) : u # {} => /\ Max(u) \in u /\ \A m \in u : m <= Max(u)
                                                 /\ g[u] = Append(g[u \ {Max(u)}], Max(u))
           /\ \A u \in SUBSET (1..k) : InOrder(u) = g[u]
  BY <1>1, InOrderFolds
<1>4. Max(T) = k
  BY <1>1, MaxOf
<1>5. InOrder(T) = g[T] /\ InOrder(S) = g[S] /\ g[T] = Append(g[T \ {Max(T)}], Max(T))
  BY <1>1, <1>3
<1> QED
  BY <1>2, <1>4, <1>5 DEF T, k

(* They are these lines and no others, the greatest at the end.            *)
LEMMA InOrderParts ==
  ASSUME NEW n \in Nat, NEW S \in SUBSET (1..n)
  PROVE  /\ InOrder({}) = <<>>
         /\ InOrder(S) \in Seq(S)
         /\ \A k \in S : (\A m \in S : m <= k) =>
              /\ InOrder(S \ {k}) \in Seq(S \ {k})
              /\ InOrder(S) = Append(InOrder(S \ {k}), k)
<1>1. PICK g \in [SUBSET (1..n) -> Seq(1..n)] :
           /\ g[{}] = <<>>
           /\ \A u \in SUBSET (1..n) : u # {} => /\ Max(u) \in u /\ \A m \in u : m <= Max(u)
                                                 /\ g[u] = Append(g[u \ {Max(u)}], Max(u))
           /\ \A u \in SUBSET (1..n) : InOrder(u) = g[u]
  BY InOrderFolds
<1> DEFINE P(u) == InOrder(u) \in Seq(u)
           A == {m \in 0..n : \A u \in SUBSET (1..n) : u \subseteq 1..m => P(u)}
<1>2. InOrder({}) = <<>>
  BY <1>1
<1>3. ASSUME NEW u \in SUBSET (1..n), NEW k \in u, \A m \in u : m <= k
      PROVE  InOrder(u) = Append(InOrder(u \ {k}), k)
  <2>1. u # {} /\ u \ {k} \in SUBSET (1..n)
    OBVIOUS
  <2>2. Max(u) \in u /\ (\A m \in u : m <= Max(u)) /\ g[u] = Append(g[u \ {Max(u)}], Max(u))
    BY <1>1, <2>1
  <2>3. PICK y : y = Max(u)
    OBVIOUS
  <2>4. y \in u /\ y <= k /\ k <= y
    BY <1>3, <2>2, <2>3
  <2>5. y = k
    BY <2>4
  <2> QED
    BY <1>1, <2>1, <2>2, <2>3, <2>5
<1>4. 0 \in A
  <2>1. P({})
    <3>1. <<>> \in Seq({})
      BY EmptySeq
    <3> QED
      BY <1>2, <3>1
  <2>2. \A u \in SUBSET (1..n) : u \subseteq 1..0 => u = {}
    OBVIOUS
  <2>3. \A u \in SUBSET (1..n) : u \subseteq 1..0 => P(u)
    BY <2>1, <2>2
  <2>4. 0 \in 0..n
    OBVIOUS
  <2> QED
    BY <2>3, <2>4
<1>5. ASSUME NEW m \in 0..n, m < n, m \in A PROVE m + 1 \in A
  <2>1. ASSUME NEW u \in SUBSET (1..n), u \subseteq 1..(m + 1) PROVE P(u)
    <3>1. CASE u = {}
      <4>1. <<>> \in Seq({})
        BY EmptySeq
      <4> QED
        BY <1>2, <3>1, <4>1
    <3>2. CASE u # {}
      <4>1. PICK y : y \in u /\ \A x \in u : x <= y
        BY <1>1, <3>2
      <4>2. \A x \in u : x \in 1..(m + 1)
        BY <2>1
      <4>3. \A x \in u : x # y => x \in 1..m
        BY <1>5, <4>1, <4>2
      <4>4. u \ {y} \in SUBSET (1..n) /\ u \ {y} \subseteq 1..m
        BY <4>3
      <4>5. InOrder(u \ {y}) \in Seq(u \ {y})
        BY <1>5, <4>4
      <4>6. InOrder(u) = Append(InOrder(u \ {y}), y)
        BY <1>3, <4>1
      <4>7. InOrder(u \ {y}) \in Seq(u)
        BY <4>5
      <4> QED
        BY <4>1, <4>6, <4>7
    <3> QED
      BY <3>1, <3>2
  <2>2. m + 1 \in 0..n
    BY <1>5
  <2> QED
    BY <2>1, <2>2
<1>6. \A u \in SUBSET (1..n) : P(u)
  <2> HIDE DEF A
  <2>1. \A m \in 0..n : m \in A
    BY <1>4, <1>5, Upwards
  <2>2. n \in A
    BY <2>1
  <2> QED
    BY <2>2 DEF A
<1>7. \A k \in S : S \ {k} \in SUBSET (1..n)
  OBVIOUS
<1> QED
  BY <1>2, <1>3, <1>6, <1>7
-----------------------------------------------------------------------------
(* A text and one more line                                                *)

IsHeader(l) == l.kind \in {"interface", "peer"}

(* Where the lines are.                                                    *)
LEMMA TextMore ==
  ASSUME NEW X, NEW t \in Seq(X), NEW l \in X
  PROVE  /\ Len(t) \in Nat /\ DOMAIN t = 1..Len(t)
         /\ DOMAIN Append(t, l) = 1..(Len(t) + 1)
         /\ Append(t, l)[Len(t) + 1] = l
         /\ \A m \in 1..Len(t) : Append(t, l)[m] = t[m]
         /\ Headers(t) \in SUBSET (1..Len(t))
         /\ Headers(Append(t, l)) = Headers(t) \cup (IF IsHeader(l) THEN {Len(t) + 1} ELSE {})
<1>1. Len(t) \in Nat /\ DOMAIN t = 1..Len(t)
  BY LenProperties
<1> DEFINE u == Append(t, l)
           n == Len(t) + 1
<1>2. DOMAIN u = 1..n /\ u[n] = l /\ \A m \in 1..Len(t) : u[m] = t[m]
  BY <1>1
<1>3. \A m \in 1..n : m \in 1..Len(t) \/ m = n
  BY <1>1
<1>4. 1..Len(t) \subseteq 1..n /\ n \in 1..n
  BY <1>1
<1> HIDE DEF u, n
<1>5. Headers(u) = Headers(t) \cup (IF IsHeader(l) THEN {n} ELSE {})
  <2>1. \A m \in 1..Len(t) : m \in Headers(u) <=> m \in Headers(t)
    BY <1>1, <1>2, <1>4 DEF Headers
  <2>2. n \in Headers(u) <=> IsHeader(l)
    BY <1>2, <1>4 DEF Headers, IsHeader
  <2>3. Headers(u) \subseteq 1..n /\ Headers(t) \subseteq 1..Len(t)
    BY <1>1, <1>2 DEF Headers
  <2> QED
    BY <1>3, <2>1, <2>2, <2>3
<1>6. Headers(t) \in SUBSET (1..Len(t))
  BY <1>1 DEF Headers
<1> QED
  BY <1>1, <1>2, <1>5, <1>6 DEF u, n

(* h is the last header so far.                                            *)
Latest(t, h) == \A g \in Headers(t) : ~(g > h)

(* The line is under the last header, if it is no header itself.           *)
LEMMA UnderMore ==
  ASSUME NEW X, NEW t \in Seq(X), NEW l \in X, NEW h \in 1..Len(t), NEW kind,
         kind \notin {"interface", "peer"}
  PROVE  /\ Under(Append(t, l), h, kind)
              = Under(t, h, kind) \cup (IF l.kind = kind /\ Latest(t, h) THEN {Len(t) + 1} ELSE {})
         /\ Under(t, h, kind) \in SUBSET (1..Len(t))
<1> DEFINE u == Append(t, l)
           n == Len(t) + 1
<1>1. /\ Len(t) \in Nat /\ DOMAIN t = 1..Len(t) /\ DOMAIN u = 1..n /\ u[n] = l
      /\ \A m \in 1..Len(t) : u[m] = t[m]
      /\ Headers(t) \in SUBSET (1..Len(t))
      /\ Headers(u) = Headers(t) \cup (IF IsHeader(l) THEN {n} ELSE {})
  BY TextMore
<1>2. \A m \in 1..n : m \in 1..Len(t) \/ m = n
  BY <1>1
<1>3. 1..Len(t) \subseteq 1..n /\ n \in 1..n /\ \A m \in 1..Len(t) : n > m /\ ~(m > n)
  BY <1>1
<1> HIDE DEF u
<1>4. ~(n > n)
  BY <1>1
<1> HIDE DEF n
<1>5. \A m \in 1..Len(t) : m \in Under(u, h, kind) <=> m \in Under(t, h, kind)
  <2> TAKE m \in 1..Len(t)
  <2>1. (\A g \in Headers(u) : g > h => g > m) <=> (\A g \in Headers(t) : g > h => g > m)
    BY <1>1, <1>3
  <2> QED
    BY <1>1, <1>3, <2>1 DEF Under
<1>6. n \in Under(u, h, kind) <=> l.kind = kind /\ Latest(t, h)
  <2>1. ~IsHeader(l) => Headers(u) = Headers(t)
    BY <1>1
  <2>2. l.kind = kind => ~IsHeader(l)
    BY DEF IsHeader
  <2>3. \A g \in Headers(t) : ~(g > n)
    BY <1>1, <1>3
  <2>4. (\A g \in Headers(t) : g > h => g > n) <=> Latest(t, h)
    BY <2>3 DEF Latest
  <2> QED
    BY <1>1, <1>3, <2>1, <2>2, <2>4 DEF Under
<1>7. Under(u, h, kind) \subseteq 1..n /\ Under(t, h, kind) \subseteq 1..Len(t)
  BY <1>1 DEF Under
<1> QED
  BY <1>2, <1>5, <1>6, <1>7 DEF u, n

(* Under a new header there is nothing.                                    *)
LEMMA UnderNew ==
  ASSUME NEW X, NEW t \in Seq(X), NEW l \in X, NEW kind
  PROVE  Under(Append(t, l), Len(t) + 1, kind) = {}
<1>1. Len(t) \in Nat /\ DOMAIN Append(t, l) = 1..(Len(t) + 1)
  BY TextMore
<1>2. \A m \in 1..(Len(t) + 1) : ~(m > Len(t) + 1)
  BY <1>1
<1> QED
  BY <1>1, <1>2 DEF Under

(* The last value is that of the new line, if it is one of the lines.      *)
LEMMA LastMore ==
  ASSUME NEW X, NEW t \in Seq(X), NEW l \in X, NEW S \in SUBSET (1..Len(t)), NEW d
  PROVE  /\ LastValue(Append(t, l), S, d) = LastValue(t, S, d)
         /\ LastValue(Append(t, l), S \cup {Len(t) + 1}, d) = l.value
<1> DEFINE u == Append(t, l)
           n == Len(t) + 1
           T == S \cup {n}
<1>1. /\ Len(t) \in Nat /\ DOMAIN t = 1..Len(t) /\ DOMAIN u = 1..n /\ u[n] = l
      /\ \A m \in 1..Len(t) : u[m] = t[m]
  BY TextMore
<1>2. \A m \in T : m \in Nat /\ m <= n
  <2>1. n \in Nat /\ n <= n /\ \A m \in 1..Len(t) : m \in Nat /\ m <= n
    BY <1>1
  <2> HIDE DEF n
  <2> QED
    BY <2>1
<1>3. n \in T
  OBVIOUS
<1>4. LastValue(u, T, d) = l.value
  <2> DEFINE c == CHOOSE m \in T : \A k \in T : k <= m
  <2>1. c \in T /\ \A k \in T : k <= c
    BY <1>2, <1>3
  <2> HIDE DEF c
  <2>2. c = n
    BY <1>2, <1>3, <2>1
  <2> QED
    BY <1>1, <1>3, <2>2 DEF LastValue, c
<1>5. LastValue(u, S, d) = LastValue(t, S, d)
  <2>1. CASE S = {}
    BY <2>1 DEF LastValue
  <2>2. CASE S # {}
    <3> DEFINE c == CHOOSE m \in S : \A k \in S : k <= m
    <3>1. \E m \in S : \A k \in S : m >= k
      BY <1>1, <2>2, LastIn
    <3>2. c \in S
      BY <3>1
    <3> HIDE DEF c
    <3>3. u[c] = t[c]
      BY <1>1, <3>2
    <3> QED
      BY <2>2, <3>3 DEF LastValue, c
  <2> QED
    BY <2>1, <2>2
<1> QED
  BY <1>4, <1>5

(* The lists of some lines put together, and what the last of them says.   *)
Listed(t, S) == FlattenSeq([i \in DOMAIN InOrder(S) |-> t[InOrder(S)[i]].value])
Replaces(t, S) == InOrder(S) = <<>> \/ ~Incremental(t[InOrder(S)[Len(InOrder(S))]].value)
Joined(a, b) == a \o b
IsList(v) == v \in Seq(IPOp)

(* Both with one line more.                                                *)
LEMMA ListedMore ==
  ASSUME NEW X, NEW t \in Seq(X), NEW l \in X, NEW S \in SUBSET (1..Len(t))
  PROVE  /\ Listed(Append(t, l), S) = Listed(t, S)
         /\ Replaces(Append(t, l), S) <=> Replaces(t, S)
         /\ Replaces(Append(t, l), S \cup {Len(t) + 1}) <=> ~Incremental(l.value)
         /\ IsList(l.value) =>
              Listed(Append(t, l), S \cup {Len(t) + 1}) = Joined(Listed(t, S), l.value)
<1> DEFINE u == Append(t, l)
           n == Len(t) + 1
           s == InOrder(S)
<1>1. /\ Len(t) \in Nat /\ DOMAIN t = 1..Len(t) /\ DOMAIN u = 1..n /\ u[n] = l
      /\ \A m \in 1..Len(t) : u[m] = t[m]
  BY TextMore
<1>2. s \in Seq(S)
  BY <1>1, InOrderParts
<1>3. /\ Len(s) \in Nat /\ DOMAIN s = 1..Len(s) /\ \A i \in 1..Len(s) : s[i] \in S
      /\ s # <<>> => Len(s) \in 1..Len(s)
  BY <1>2, LenProperties, EmptySeq
<1>4. InOrder(S \cup {n}) = Append(s, n)
  BY <1>1, InOrderMore
<1> HIDE DEF u, s
<1>5. \A i \in 1..Len(s) : u[s[i]] = t[s[i]]
  BY <1>1, <1>3
<1> DEFINE V(w) == [i \in DOMAIN s |-> w[s[i]].value]
<1>6. V(u) = V(t)
  BY <1>3, <1>5
<1>7. Listed(u, S) = Listed(t, S)
  BY <1>6, Zenon DEF Listed, s
<1>8. Replaces(u, S) <=> Replaces(t, S)
  BY <1>3, <1>5 DEF Replaces, s
<1> DEFINE r == Append(s, n)
<1>9. /\ Len(r) = Len(s) + 1 /\ DOMAIN r = 1..(Len(s) + 1) /\ r[Len(s) + 1] = n
      /\ \A i \in 1..Len(s) : r[i] = s[i]
  <2> DEFINE Z == S \cup {n}
  <2>1. n \in Z /\ S \subseteq Z
    OBVIOUS
  <2>2. s \in Seq(Z)
    BY <1>2, <2>1
  <2> HIDE DEF Z
  <2> QED
    BY <2>1, <2>2, <1>3
<1> HIDE DEF r
<1>10. Replaces(u, S \cup {n}) <=> ~Incremental(l.value)
  <2>1. r # <<>>
    BY <1>3, <1>9
  <2>2. u[r[Len(r)]] = l
    BY <1>1, <1>9
  <2> QED
    BY <1>4, <2>1, <2>2 DEF Replaces, r
<1>11. ASSUME l.value \in Seq(IPOp) PROVE Listed(u, S \cup {n}) = Listed(t, S) \o l.value
  <2> DEFINE a == [i \in DOMAIN s |-> t[s[i]].value]
             b == [i \in DOMAIN r |-> u[r[i]].value]
             Y == {a[i] : i \in DOMAIN s} \cup {l.value}
  <2>1. a \in Seq(Y) /\ Len(a) = Len(s) /\ l.value \in Y
    BY <1>3
  <2>2. DOMAIN b = 1..(Len(s) + 1) /\ \A i \in 1..(Len(s) + 1) :
           b[i] = IF i = Len(s) + 1 THEN l.value ELSE a[i]
    <3>1. \A i \in 1..(Len(s) + 1) : i = Len(s) + 1 \/ i \in 1..Len(s)
      BY <1>3
    <3>2. b[Len(s) + 1] = l.value
      BY <1>1, <1>3, <1>9
    <3>3. \A i \in 1..Len(s) : b[i] = a[i] /\ i # Len(s) + 1
      BY <1>3, <1>5, <1>9
    <3> QED
      BY <1>9, <3>1, <3>2, <3>3
  <2>3. b = Append(a, l.value)
    <3> HIDE DEF a, Y
    <3>1. /\ DOMAIN Append(a, l.value) = 1..(Len(s) + 1)
          /\ \A i \in 1..(Len(s) + 1) :
               Append(a, l.value)[i] = IF i = Len(s) + 1 THEN l.value ELSE a[i]
      BY <1>3, <2>1
    <3> QED
      BY <2>2, <3>1
  <2>4. FlattenSeq(b) = IF a = <<>> THEN l.value ELSE FlattenSeq(a) \o l.value
    <3> HIDE DEF a, b, Y
    <3> QED
      BY <2>1, <2>3, FlattenMore
  <2>5. a = <<>> => FlattenSeq(a) = <<>>
    <3> HIDE DEF a
    <3>1. a = <<>> => Len(a) = 0
      BY EmptySeq
    <3> QED
      BY <3>1, Zenon DEF FlattenSeq
  <2>6. <<>> \o l.value = l.value
    BY <1>11
  <2>7. Listed(t, S) = FlattenSeq(a)
    BY DEF Listed, s
  <2>8. Listed(u, S \cup {n}) = FlattenSeq(b)
    BY <1>4 DEF Listed, r
  <2> HIDE DEF a, b
  <2> QED
    BY <2>4, <2>5, <2>6, <2>7, <2>8
<1> QED
  BY <1>7, <1>8, <1>10, <1>11 DEF u, Joined, IsList

(* An entry by its fields; no is FALSE, none is <<>>.                      *)
Fields(no, none, key, name, setting, ops, replaceIPs) ==
  [key |-> key, remove |-> no, updateOnly |-> no, setting |-> setting,
   replaceIPs |-> replaceIPs, ips |-> none, ops |-> ops, name |-> name]

(* What the lines behind a header mean, by the fields of the entry.        *)
LEMMA EntryParts ==
  ASSUME NEW t, NEW h, NEW no, NEW none, no = FALSE, none = <<>>
  PROVE  MeantEntry(t, h) =
           Fields(no, none, LastValue(t, Under(t, h, "publickey"), NoKey),
                  LastValue(t, Under(t, h, "name"), Unset),
                  Address(LastValue(t, Under(t, h, "setting"), Unset)),
                  Listed(t, Under(t, h, "allowedips")),
                  Replaces(t, Under(t, h, "allowedips")))
<1> DEFINE A == LastValue(t, Under(t, h, "publickey"), NoKey)
           B == LastValue(t, Under(t, h, "name"), Unset)
           C == Address(LastValue(t, Under(t, h, "setting"), Unset))
           D == Listed(t, Under(t, h, "allowedips"))
           E == Replaces(t, Under(t, h, "allowedips"))
<1>1. MeantEntry(t, h) = [NewEntry EXCEPT !.key = A, !.name = B, !.setting = C, !.ops = D,
                                          !.replaceIPs = E]
  BY Zenon DEF MeantEntry, Replaces, Listed
<1> HIDE DEF A, B, C, D, E
<1>2. PICK yes : yes = TRUE
  OBVIOUS
<1>3. NewEntry = Fields(no, none, NoKey, Unset, Unset, none, yes)
  BY <1>2 DEF NewEntry, Fields
<1> DEFINE f0 == Fields(no, none, NoKey, Unset, Unset, none, yes)
           f1 == [f0 EXCEPT !.key = A]
           f2 == [f1 EXCEPT !.name = B]
           f3 == [f2 EXCEPT !.setting = C]
           f4 == [f3 EXCEPT !.ops = D]
<1>4. [f0 EXCEPT !.key = A, !.name = B, !.setting = C, !.ops = D, !.replaceIPs = E]
      = [f4 EXCEPT !.replaceIPs = E]
  <2> HIDE DEF f0
  <2> QED
    OBVIOUS
<1>5. f1 = Fields(no, none, A, Unset, Unset, none, yes)
  BY SMT DEF Fields
<1> HIDE DEF f1
<1>6. f2 = Fields(no, none, A, B, Unset, none, yes)
  BY <1>5, SMT DEF Fields
<1> HIDE DEF f2
<1>7. f3 = Fields(no, none, A, B, C, none, yes)
  BY <1>6, SMT DEF Fields
<1> HIDE DEF f3
<1>8. f4 = Fields(no, none, A, B, C, D, yes)
  BY <1>7, SMT DEF Fields
<1> HIDE DEF f4
<1>9. [f4 EXCEPT !.replaceIPs = E] = Fields(no, none, A, B, C, D, E)
  BY <1>8, SMT DEF Fields
<1>10. MeantEntry(t, h) = Fields(no, none, A, B, C, D, E)
  BY <1>1, <1>3, <1>4, <1>9, Zenon
<1> QED
  BY <1>10 DEF A, B, C, D, E

(* What a line does to the entry that it belongs to.                       *)
Edited(e, l) ==
  CASE l.kind = "publickey"  -> [e EXCEPT !.key = l.value]
    [] l.kind = "name"       -> [e EXCEPT !.name = l.value]
    [] l.kind = "setting"    -> [e EXCEPT !.setting = Address(l.value)]
    [] l.kind = "allowedips" ->
         [e EXCEPT !.ops = @ \o l.value, !.replaceIPs = ~Incremental(l.value)]
    [] OTHER -> e

(* One field of an entry, and its lists.                                   *)
LEMMA FieldMore ==
  ASSUME NEW X, NEW t \in Seq(X), NEW l \in X, NEW h \in 1..Len(t), NEW d,
         NEW k, k \notin {"interface", "peer"}
  PROVE  LastValue(Append(t, l), Under(Append(t, l), h, k), d)
           = IF l.kind = k /\ Latest(t, h) THEN l.value ELSE LastValue(t, Under(t, h, k), d)
<1> DEFINE U == Under(t, h, k)
           W == Under(Append(t, l), h, k)
<1>1. /\ W = U \cup (IF l.kind = k /\ Latest(t, h) THEN {Len(t) + 1} ELSE {})
      /\ U \in SUBSET (1..Len(t))
  BY UnderMore
<1> HIDE DEF W, U
<1>4. U \in SUBSET (1..Len(t))
  BY <1>1
<1>2. /\ LastValue(Append(t, l), U, d) = LastValue(t, U, d)
      /\ LastValue(Append(t, l), U \cup {Len(t) + 1}, d) = l.value
  BY <1>4, LastMore
<1>3. W = IF l.kind = k /\ Latest(t, h) THEN U \cup {Len(t) + 1} ELSE U
  BY <1>1
<1> QED
  BY <1>2, <1>3 DEF W, U

(* Both for the lists behind a header.                                     *)
LEMMA ListsMore ==
  ASSUME NEW X, NEW t \in Seq(X), NEW l \in X, NEW h \in 1..Len(t), NEW S, NEW T,
         S = Under(t, h, "allowedips"), T = Under(Append(t, l), h, "allowedips")
  PROVE  /\ l.kind = "allowedips" /\ Latest(t, h) =>
              /\ Replaces(Append(t, l), T) = ~Incremental(l.value)
              /\ l.value \in Seq(IPOp) => Listed(Append(t, l), T) = Listed(t, S) \o l.value
         /\ ~(l.kind = "allowedips" /\ Latest(t, h)) =>
              /\ Replaces(Append(t, l), T) = Replaces(t, S)
              /\ Listed(Append(t, l), T) = Listed(t, S)
<1>1. /\ T = S \cup (IF l.kind = "allowedips" /\ Latest(t, h) THEN {Len(t) + 1} ELSE {})
      /\ S \in SUBSET (1..Len(t))
  BY UnderMore
<1>2. T = IF l.kind = "allowedips" /\ Latest(t, h) THEN S \cup {Len(t) + 1} ELSE S
  BY <1>1
<1>5. S \in SUBSET (1..Len(t))
  BY <1>1
<1>3. Listed(Append(t, l), S) = Listed(t, S)
  BY <1>5, ListedMore
<1>8. IsList(l.value) =>
        Listed(Append(t, l), S \cup {Len(t) + 1}) = Joined(Listed(t, S), l.value)
  <2> SUFFICES ASSUME IsList(l.value)
               PROVE  Listed(Append(t, l), S \cup {Len(t) + 1}) = Joined(Listed(t, S), l.value)
    OBVIOUS
  <2> QED
    BY <1>5, ListedMore, SMTT(30)
<1>6. Replaces(Append(t, l), S) <=> Replaces(t, S)
  BY <1>5, ListedMore
<1>7. Replaces(Append(t, l), S \cup {Len(t) + 1}) <=> ~Incremental(l.value)
  BY <1>5, ListedMore
<1>4. /\ Replaces(Append(t, l), S) = Replaces(t, S)
      /\ Replaces(Append(t, l), S \cup {Len(t) + 1}) = ~Incremental(l.value)
  BY <1>6, <1>7, Zenon DEF Replaces
<1> QED
  BY <1>2, <1>3, <1>4, <1>8, Zenon DEF Joined, IsList

(* A line is about the last header, if about any.                          *)
LEMMA EntryMore ==
  ASSUME NEW X, NEW t \in Seq(X), NEW l \in X, NEW h \in 1..Len(t)
  PROVE  /\ ~Latest(t, h) => MeantEntry(Append(t, l), h) = MeantEntry(t, h)
         /\ Latest(t, h) /\ (l.kind = "allowedips" => l.value \in Seq(IPOp)) =>
              MeantEntry(Append(t, l), h) = Edited(MeantEntry(t, h), l)
<1> DEFINE u == Append(t, l)
           A(w) == LastValue(w, Under(w, h, "publickey"), NoKey)
           B(w) == LastValue(w, Under(w, h, "name"), Unset)
           C(w) == LastValue(w, Under(w, h, "setting"), Unset)
           D(w) == Listed(w, Under(w, h, "allowedips"))
           E(w) == Replaces(w, Under(w, h, "allowedips"))
<1>1. A(u) = IF l.kind = "publickey" /\ Latest(t, h) THEN l.value ELSE A(t)
  BY FieldMore
<1>2. B(u) = IF l.kind = "name" /\ Latest(t, h) THEN l.value ELSE B(t)
  BY FieldMore
<1>3. C(u) = IF l.kind = "setting" /\ Latest(t, h) THEN l.value ELSE C(t)
  BY FieldMore
<1>4. /\ l.kind = "allowedips" /\ Latest(t, h) =>
           /\ E(u) = ~Incremental(l.value)
           /\ l.value \in Seq(IPOp) => D(u) = D(t) \o l.value
      /\ ~(l.kind = "allowedips" /\ Latest(t, h)) => E(u) = E(t) /\ D(u) = D(t)
  BY ListsMore
<1>5. PICK no, none : no = FALSE /\ none = <<>>
  OBVIOUS
<1>6. /\ MeantEntry(t, h) = Fields(no, none, A(t), B(t), Address(C(t)), D(t), E(t))
      /\ MeantEntry(u, h) = Fields(no, none, A(u), B(u), Address(C(u)), D(u), E(u))
  BY <1>5, EntryParts
<1> HIDE DEF A, B, C, D, E, u
<1>7. ASSUME ~Latest(t, h) PROVE MeantEntry(u, h) = MeantEntry(t, h)
  <2>1. A(u) = A(t) /\ B(u) = B(t) /\ C(u) = C(t) /\ D(u) = D(t) /\ E(u) = E(t)
    BY <1>1, <1>2, <1>3, <1>4, <1>7, Zenon
  <2> QED
    BY <1>6, <2>1, Zenon
<1>8. ASSUME Latest(t, h), l.kind = "allowedips" => l.value \in Seq(IPOp)
      PROVE  MeantEntry(u, h) = Edited(MeantEntry(t, h), l)
  <2>1. CASE l.kind = "publickey"
    <3>1. A(u) = l.value /\ B(u) = B(t) /\ C(u) = C(t) /\ D(u) = D(t) /\ E(u) = E(t)
      BY <1>1, <1>2, <1>3, <1>4, <1>8, <2>1
    <3>2. Edited(MeantEntry(t, h), l) = [MeantEntry(t, h) EXCEPT !.key = l.value]
      BY <2>1 DEF Edited
    <3>3. [Fields(no, none, A(t), B(t), Address(C(t)), D(t), E(t)) EXCEPT !.key = l.value]
          = Fields(no, none, l.value, B(t), Address(C(t)), D(t), E(t))
      BY SMT DEF Fields
    <3> QED
      BY <1>6, <3>1, <3>2, <3>3, Zenon
  <2>2. CASE l.kind = "name"
    <3>1. A(u) = A(t) /\ B(u) = l.value /\ C(u) = C(t) /\ D(u) = D(t) /\ E(u) = E(t)
      BY <1>1, <1>2, <1>3, <1>4, <1>8, <2>2
    <3>2. Edited(MeantEntry(t, h), l) = [MeantEntry(t, h) EXCEPT !.name = l.value]
      BY <2>2 DEF Edited
    <3>3. [Fields(no, none, A(t), B(t), Address(C(t)), D(t), E(t)) EXCEPT !.name = l.value]
          = Fields(no, none, A(t), l.value, Address(C(t)), D(t), E(t))
      BY SMT DEF Fields
    <3> QED
      BY <1>6, <3>1, <3>2, <3>3, Zenon
  <2>3. CASE l.kind = "setting"
    <3>1. A(u) = A(t) /\ B(u) = B(t) /\ C(u) = l.value /\ D(u) = D(t) /\ E(u) = E(t)
      BY <1>1, <1>2, <1>3, <1>4, <1>8, <2>3
    <3>2. Edited(MeantEntry(t, h), l) = [MeantEntry(t, h) EXCEPT !.setting = Address(l.value)]
      BY <2>3 DEF Edited
    <3>3. [Fields(no, none, A(t), B(t), Address(C(t)), D(t), E(t)) EXCEPT !.setting = Address(l.value)]
          = Fields(no, none, A(t), B(t), Address(l.value), D(t), E(t))
      BY SMT DEF Fields
    <3> QED
      BY <1>6, <3>1, <3>2, <3>3, Zenon
  <2>4. CASE l.kind = "allowedips"
    <3>1. A(u) = A(t) /\ B(u) = B(t) /\ C(u) = C(t) /\ D(u) = D(t) \o l.value
      BY <1>1, <1>2, <1>3, <1>4, <1>8, <2>4
    <3>2. E(u) = ~Incremental(l.value)
      BY <1>4, <1>8, <2>4, Zenon
    <3> DEFINE y == ~Incremental(l.value)
               z == D(t) \o l.value
               f == MeantEntry(t, h)
               g == [f EXCEPT !.ops = f.ops \o l.value]
    <3>3. Edited(f, l) = [g EXCEPT !.replaceIPs = y]
      BY <2>4 DEF Edited
    <3>4. E(u) = y
      BY <3>2, Zenon DEF y
    <3>5. f.ops = D(t)
      BY <1>6, SMT DEF Fields
    <3>6. g = [f EXCEPT !.ops = z]
      BY <3>5, Zenon
    <3> HIDE DEF g, y, z, f
    <3>7. f = Fields(no, none, A(t), B(t), Address(C(t)), D(t), E(t))
      BY <1>6 DEF f
    <3>8. g = Fields(no, none, A(t), B(t), Address(C(t)), z, E(t))
      BY <3>6, <3>7, SMT DEF Fields
    <3>9. [g EXCEPT !.replaceIPs = y] = Fields(no, none, A(t), B(t), Address(C(t)), z, y)
      BY <3>8, SMT DEF Fields
    <3>10. D(u) = z
      BY <3>1 DEF z
    <3> QED
      BY <1>6, <3>1, <3>3, <3>4, <3>9, <3>10, Zenon DEF f
  <2>5. CASE l.kind \notin {"publickey", "name", "setting", "allowedips"}
    <3>1. A(u) = A(t) /\ B(u) = B(t) /\ C(u) = C(t) /\ D(u) = D(t)
      BY <1>1, <1>2, <1>3, <1>4, <2>5
    <3>2. E(u) = E(t)
      BY <1>4, <2>5, Zenon
    <3>3. Edited(MeantEntry(t, h), l) = MeantEntry(t, h)
      BY <2>5 DEF Edited
    <3> QED
      BY <1>6, <3>1, <3>2, <3>3, Zenon
  <2> QED
    BY <2>1, <2>2, <2>3, <2>4, <2>5
<1> QED
  BY <1>7, <1>8, Zenon DEF u

(* The entry under a header that nothing follows.                          *)
LEMMA EntryNew ==
  ASSUME NEW X, NEW t \in Seq(X), NEW l \in X
  PROVE  MeantEntry(Append(t, l), Len(t) + 1) = NewEntry
<1> DEFINE u == Append(t, l)
           n == Len(t) + 1
<1>1. /\ Under(u, n, "publickey") = {} /\ Under(u, n, "name") = {}
      /\ Under(u, n, "setting") = {} /\ Under(u, n, "allowedips") = {}
  BY UnderNew
<1>2. InOrder({}) = <<>>
  BY InOrderParts
<1>3. Listed(u, {}) = <<>> /\ Replaces(u, {}) = TRUE
  <2>1. [i \in DOMAIN <<>> |-> u[<<>>[i]].value] = <<>>
    OBVIOUS
  <2>2. FlattenSeq(<<>>) = <<>>
    BY EmptySeq, Zenon DEF FlattenSeq
  <2> QED
    BY <1>2, <2>1, <2>2, Zenon DEF Listed, Replaces
<1>4. \A d : LastValue(u, {}, d) = d
  BY DEF LastValue
<1>5. Address(Unset) = Unset
  BY HostResolves DEF Address
<1> HIDE DEF u, n
<1>6. PICK no, none : no = FALSE /\ none = <<>>
  OBVIOUS
<1>7. MeantEntry(u, n) = Fields(no, none, NoKey, Unset, Unset, <<>>, TRUE)
  BY <1>1, <1>3, <1>4, <1>5, <1>6, EntryParts
<1>8. NewEntry = Fields(no, none, NoKey, Unset, Unset, <<>>, TRUE)
  BY <1>6 DEF NewEntry, Fields
<1> QED
  BY <1>7, <1>8 DEF u, n

(* The headers of peers, their entries, and the fields of a peer.          *)
PeerHeads(t) == {h \in Headers(t) : t[h].kind = "peer"}
Peers(t) == [j \in DOMAIN InOrder(PeerHeads(t)) |-> MeantEntry(t, InOrder(PeerHeads(t))[j])]
FieldKinds == {"publickey", "name", "setting", "allowedips"}

(* The section in which a text ends.                                       *)
Ends(t, s) == IF s = "" THEN Headers(t) = {}
              ELSE \E h \in Headers(t) : Latest(t, h) /\ t[h].kind = s

(* The headers of peers.                                                   *)
LEMMA HeadsMore ==
  ASSUME NEW X, NEW t \in Seq(X), NEW l \in X
  PROVE  /\ PeerHeads(t) \in SUBSET (1..Len(t))
         /\ l.kind = "peer" => PeerHeads(Append(t, l)) = PeerHeads(t) \cup {Len(t) + 1}
         /\ l.kind # "peer" => PeerHeads(Append(t, l)) = PeerHeads(t)
<1> DEFINE u == Append(t, l)
           n == Len(t) + 1
<1>1. /\ Len(t) \in Nat /\ u[n] = l /\ \A m \in 1..Len(t) : u[m] = t[m]
      /\ Headers(t) \in SUBSET (1..Len(t))
      /\ Headers(u) = Headers(t) \cup (IF IsHeader(l) THEN {n} ELSE {})
  BY TextMore
<1>2. n \notin 1..Len(t)
  BY <1>1
<1> HIDE DEF u, n
<1>3. \A h \in Headers(t) : u[h] = t[h] /\ h # n
  BY <1>1, <1>2
<1>4. l.kind = "peer" => IsHeader(l)
  BY DEF IsHeader
<1>5. \A h : h \in PeerHeads(u) <=> h \in PeerHeads(t) \/ (h = n /\ l.kind = "peer")
  BY <1>1, <1>3, <1>4 DEF PeerHeads
<1>6. PeerHeads(t) \in SUBSET (1..Len(t))
  BY <1>1 DEF PeerHeads
<1> QED
  BY <1>5, <1>6 DEF u, n

(* One peer for each of them; only the last can still change.              *)
LEMMA HeadsInOrder ==
  ASSUME NEW X, NEW t \in Seq(X), NEW o, o = InOrder(PeerHeads(t))
  PROVE  /\ Len(o) \in Nat /\ DOMAIN o = 1..Len(o)
         /\ o \in Seq(1..Len(t))
         /\ \A j \in 1..Len(o) : o[j] \in PeerHeads(t) /\ o[j] \in 1..Len(t)
         /\ \A j \in 1..Len(o) : j # Len(o) => ~Latest(t, o[j])
         /\ Ends(t, "peer") => Len(o) # 0 /\ Latest(t, o[Len(o)])
<1> DEFINE P == PeerHeads(t)
<1>1. Len(t) \in Nat /\ P \in SUBSET (1..Len(t))
  BY HeadsMore, LenProperties DEF PeerHeads, Headers
<1>2. o \in Seq(P) /\ o \in Seq(1..Len(t))
  <2>1. o \in Seq(P)
    BY <1>1, InOrderParts
  <2> HIDE DEF P
  <2> QED
    BY <1>1, <2>1, WiderSeq
<1>3. Len(o) \in Nat /\ DOMAIN o = 1..Len(o) /\ \A j \in 1..Len(o) : o[j] \in P
  BY <1>2, LenProperties
<1>4. \A h \in P : h \in Headers(t) /\ h \in 1..Len(t)
  BY <1>1 DEF PeerHeads
<1>5. CASE P = {}
  <2>1. o = <<>>
    BY <1>1, <1>5, InOrderParts
  <2>2. ~Ends(t, "peer")
    BY <1>5 DEF Ends, PeerHeads
  <2>3. Len(o) = 0
    BY <2>1
  <2> QED
    BY <1>2, <1>3, <1>4, <2>2, <2>3
<1>6. CASE P # {}
  <2>1. PICK k \in P : \A m \in P : k >= m
    BY <1>1, <1>6, LastIn
  <2>2. \A m \in P : m <= k
    BY <1>1, <2>1
  <2> DEFINE r == InOrder(P \ {k})
  <2>3. r \in Seq(P \ {k}) /\ o = Append(r, k)
    BY <1>1, <2>2, InOrderParts
  <2>4. Len(r) \in Nat /\ \A j \in 1..Len(r) : r[j] \in P \ {k}
    BY <2>3, LenProperties
  <2>5. Len(o) = Len(r) + 1 /\ o[Len(o)] = k /\ \A j \in 1..Len(r) : o[j] = r[j]
    <3> DEFINE Z == P
    <3>1. r \in Seq(Z) /\ k \in Z
      BY <2>3
    <3> HIDE DEF Z, r
    <3> QED
      BY <2>3, <2>4, <3>1
  <2> HIDE DEF r
  <2>6. \A j \in 1..Len(o) : j # Len(o) => ~Latest(t, o[j])
    <3> SUFFICES ASSUME NEW j \in 1..Len(o), j # Len(o) PROVE ~Latest(t, o[j])
      OBVIOUS
    <3>1. j \in 1..Len(r)
      BY <2>4, <2>5
    <3>2. o[j] \in P /\ o[j] # k
      BY <2>4, <2>5, <3>1
    <3>3. k > o[j]
      BY <1>1, <2>2, <3>2
    <3> QED
      BY <1>4, <3>3 DEF Latest
  <2>7. ASSUME Ends(t, "peer") PROVE Latest(t, k)
    <3>1. PICK h \in Headers(t) : Latest(t, h) /\ t[h].kind = "peer"
      BY <2>7 DEF Ends
    <3>2. h \in P
      BY <3>1 DEF PeerHeads
    <3>3. h <= k /\ ~(k > h)
      BY <1>4, <2>2, <3>1, <3>2 DEF Latest
    <3>4. h = k
      BY <1>1, <3>2, <3>3
    <3> QED
      BY <3>1, <3>4
  <2>8. Len(o) # 0
    BY <2>4, <2>5
  <2> QED
    BY <1>2, <1>3, <1>4, <2>5, <2>6, <2>7, <2>8
<1> QED
  BY <1>5, <1>6

(* The peers of a text with one more line.                                 *)
LEMMA PeersMore ==
  ASSUME NEW X, NEW t \in Seq(X), NEW l \in X
  PROVE  LET p == Peers(t)
             q == Peers(Append(t, l))
         IN  /\ Len(p) \in Nat /\ DOMAIN p = 1..Len(p)
             /\ l.kind = "peer" => q = Append(p, NewEntry)
             /\ l.kind \notin FieldKinds \cup {"peer"} => q = p
             /\ l.kind # "peer" => Len(q) = Len(p) /\ DOMAIN q = DOMAIN p
             /\ l.kind # "peer" => \A j \in 1..Len(p) : j # Len(p) => q[j] = p[j]
             /\ l.kind # "peer" /\ Ends(t, "peer") /\ (l.kind = "allowedips" => IsList(l.value)) =>
                  Len(p) # 0 /\ q[Len(p)] = Edited(p[Len(p)], l)
<1> DEFINE u == Append(t, l)
           n == Len(t) + 1
           o == InOrder(PeerHeads(t))
           p == Peers(t)
           q == Peers(u)
<1>1. /\ Len(o) \in Nat /\ DOMAIN o = 1..Len(o)
      /\ o \in Seq(1..Len(t))
      /\ \A j \in 1..Len(o) : o[j] \in PeerHeads(t) /\ o[j] \in 1..Len(t)
      /\ \A j \in 1..Len(o) : j # Len(o) => ~Latest(t, o[j])
      /\ Ends(t, "peer") => Len(o) # 0 /\ Latest(t, o[Len(o)])
  BY HeadsInOrder
<1>2. Len(t) \in Nat /\ PeerHeads(t) \in SUBSET (1..Len(t))
  BY HeadsMore, LenProperties
<1>3. /\ l.kind = "peer" => PeerHeads(u) = PeerHeads(t) \cup {n}
      /\ l.kind # "peer" => PeerHeads(u) = PeerHeads(t)
  BY HeadsMore
<1>4. \A h \in 1..Len(t) : ~Latest(t, h) => MeantEntry(u, h) = MeantEntry(t, h)
  BY EntryMore
<1>5. \A h \in 1..Len(t) : Latest(t, h) /\ (l.kind = "allowedips" => IsList(l.value)) =>
         MeantEntry(u, h) = Edited(MeantEntry(t, h), l)
  BY EntryMore, Zenon DEF IsList
<1>6. l.kind \notin FieldKinds => \A h \in 1..Len(t) : MeantEntry(u, h) = MeantEntry(t, h)
  <2>1. l.kind \notin FieldKinds =>
          l.kind # "allowedips" /\ \A h : Edited(MeantEntry(t, h), l) = MeantEntry(t, h)
    BY DEF FieldKinds, Edited
  <2> QED
    BY <1>4, <1>5, <2>1
<1> DEFINE c(w) == [j \in DOMAIN o |-> MeantEntry(w, o[j])]
<1>7. PICK N : N = Len(o)
  OBVIOUS
<1>8. N \in Nat /\ DOMAIN o = 1..N
  BY <1>1, <1>7
<1>9. /\ p = c(t) /\ DOMAIN p = 1..N /\ \A j \in 1..N : p[j] = MeantEntry(t, o[j])
      /\ p = [j \in 1..N |-> p[j]]
  BY <1>8 DEF Peers
<1>10. l.kind # "peer" =>
         /\ q = c(u) /\ DOMAIN q = 1..N /\ \A j \in 1..N : q[j] = MeantEntry(u, o[j])
         /\ q = [j \in 1..N |-> q[j]]
  BY <1>3, <1>8 DEF Peers
<1> HIDE DEF p, q, o
<1>15. Len(p) = N /\ (l.kind # "peer" => Len(q) = N)
  BY <1>8, <1>9, <1>10, FunctionIsList
<1>16. \A j \in 1..N : /\ o[j] \in PeerHeads(t) /\ o[j] \in 1..Len(t)
                       /\ j # N => ~Latest(t, o[j])
  BY <1>1, <1>7
<1>11. ASSUME l.kind = "peer" PROVE q = Append(p, NewEntry)
  <2> DEFINE r == Append(o, n)
             v == [j \in DOMAIN r |-> MeantEntry(u, r[j])]
  <2>1. q = v
    <3>1. InOrder(PeerHeads(u)) = r
      BY <1>2, <1>3, <1>11, InOrderMore DEF o
    <3> QED
      BY <3>1, Zenon DEF q, Peers
  <2>2. /\ DOMAIN r = 1..(N + 1) /\ r[N + 1] = n
        /\ \A i \in 1..N : r[i] = o[i]
    <3>1. o = [i \in 1..N |-> o[i]]
      BY <1>1, <1>7
    <3> HIDE DEF n
    <3> QED
      BY <1>8, <3>1, AppendParts
  <2>3. MeantEntry(u, n) = NewEntry
    BY EntryNew
  <2>4. \A i \in 1..N : MeantEntry(u, o[i]) = p[i]
    BY <1>6, <1>9, <1>11, <1>16 DEF FieldKinds
  <2> HIDE DEF r
  <2>5. \A i \in 1..(N + 1) : v[i] = IF i = N + 1 THEN NewEntry ELSE p[i]
    <3>1. \A i \in 1..(N + 1) : i # N + 1 => i \in 1..N
      BY <1>8
    <3> QED
      BY <2>2, <2>3, <2>4, <3>1
  <2>6. v = [i \in 1..(N + 1) |-> IF i = N + 1 THEN NewEntry ELSE p[i]]
    BY <2>2, <2>5
  <2>7. Append(p, NewEntry) = [i \in 1..(N + 1) |-> IF i = N + 1 THEN NewEntry ELSE p[i]]
    BY <1>8, <1>9, AppendParts
  <2> QED
    BY <2>1, <2>6, <2>7, Zenon
<1>12. ASSUME l.kind \notin FieldKinds \cup {"peer"} PROVE q = p
  <2>1. \A j \in 1..N : MeantEntry(u, o[j]) = MeantEntry(t, o[j])
    BY <1>6, <1>12, <1>16
  <2>2. \A j \in 1..N : q[j] = p[j]
    BY <1>9, <1>10, <1>12, <2>1
  <2> QED
    BY <1>9, <1>10, <1>12, <2>2
<1>13. ASSUME l.kind # "peer", NEW j \in 1..N, j # N PROVE q[j] = p[j]
  BY <1>4, <1>9, <1>10, <1>13, <1>16
<1>14. ASSUME l.kind # "peer", Ends(t, "peer"), l.kind = "allowedips" => IsList(l.value)
       PROVE  N # 0 /\ q[N] = Edited(p[N], l)
  <2>1. N # 0 /\ Latest(t, o[N])
    BY <1>1, <1>7, <1>14
  <2>2. N \in 1..N
    BY <1>8, <2>1
  <2>3. MeantEntry(u, o[N]) = Edited(MeantEntry(t, o[N]), l)
    BY <1>5, <1>14, <1>16, <2>1, <2>2
  <2> QED
    BY <1>9, <1>10, <1>14, <2>1, <2>2, <2>3
<1> QED
  BY <1>8, <1>9, <1>10, <1>11, <1>12, <1>13, <1>14, <1>15 DEF p, q, u

(* The lines that set the interface.                                       *)
IfaceLines(t) ==
  UNION {Under(t, h, "iface") : h \in {g \in Headers(t) : t[g].kind = "interface"}}

(* The lines of the interface.                                             *)
LEMMA IfacesMore ==
  ASSUME NEW X, NEW t \in Seq(X), NEW l \in X
  PROVE  /\ IfaceLines(t) \in SUBSET (1..Len(t))
         /\ l.kind # "iface" => IfaceLines(Append(t, l)) = IfaceLines(t)
         /\ l.kind = "iface" /\ Ends(t, "interface") =>
              IfaceLines(Append(t, l)) = IfaceLines(t) \cup {Len(t) + 1}
<1> DEFINE u == Append(t, l)
           n == Len(t) + 1
           H == {g \in Headers(t) : t[g].kind = "interface"}
           K == {g \in Headers(u) : u[g].kind = "interface"}
<1>1. /\ Len(t) \in Nat /\ u[n] = l /\ \A m \in 1..Len(t) : u[m] = t[m]
      /\ Headers(t) \in SUBSET (1..Len(t))
      /\ Headers(u) = Headers(t) \cup (IF IsHeader(l) THEN {n} ELSE {})
  BY TextMore
<1>2. ASSUME NEW h \in H
      PROVE  /\ Under(u, h, "iface")
                  = Under(t, h, "iface")
                      \cup (IF l.kind = "iface" /\ Latest(t, h) THEN {n} ELSE {})
             /\ Under(t, h, "iface") \in SUBSET (1..Len(t))
  <2>1. h \in 1..Len(t)
    BY <1>1
  <2> QED
    BY <2>1, UnderMore
<1>3. Under(u, n, "iface") = {}
  BY UnderNew
<1> HIDE DEF u
<1>4. \A h \in H : u[h] = t[h] /\ h \in K
  BY <1>1
<1>5. \A h \in K : h \in H \/ h = n
  <2>1. \A h \in Headers(u) : h \in Headers(t) \/ h = n
    BY <1>1
  <2>2. \A h \in Headers(t) : u[h] = t[h]
    BY <1>1
  <2> QED
    BY <2>1, <2>2
<1>6. IfaceLines(u) = UNION {Under(u, h, "iface") : h \in K}
      /\ IfaceLines(t) = UNION {Under(t, h, "iface") : h \in H}
  BY DEF IfaceLines
<1>7. Ends(t, "interface") => \E h \in H : Latest(t, h)
  BY DEF Ends
<1> HIDE DEF H, K, n
<1>8. \A m : m \in IfaceLines(u) <=> \E h \in H : m \in Under(u, h, "iface")
  BY <1>3, <1>4, <1>5, <1>6
<1>9. \A m : m \in IfaceLines(t) <=> \E h \in H : m \in Under(t, h, "iface")
  BY <1>6
<1>10. IfaceLines(t) \in SUBSET (1..Len(t))
  BY <1>2, <1>9
<1>11. ASSUME l.kind # "iface" PROVE IfaceLines(u) = IfaceLines(t)
  <2>1. \A h \in H : Under(u, h, "iface") = Under(t, h, "iface")
    BY <1>2, <1>11
  <2> QED
    BY <1>8, <1>9, <2>1
<1>12. ASSUME l.kind = "iface", Ends(t, "interface")
       PROVE  IfaceLines(u) = IfaceLines(t) \cup {n}
  <2>1. \A h \in H : \A m : m \in Under(u, h, "iface") <=>
                              m \in Under(t, h, "iface") \/ (m = n /\ Latest(t, h))
    BY <1>2, <1>12
  <2> QED
    BY <1>7, <1>8, <1>9, <1>12, <2>1
<1> QED
  BY <1>10, <1>11, <1>12 DEF u, n

(* The setting of the interface.                                           *)
LEMMA IfaceMore ==
  ASSUME NEW X, NEW t \in Seq(X), NEW l \in X, NEW d
  PROVE  /\ l.kind # "iface" =>
              LastValue(Append(t, l), IfaceLines(Append(t, l)), d) = LastValue(t, IfaceLines(t), d)
         /\ l.kind = "iface" /\ Ends(t, "interface") =>
              LastValue(Append(t, l), IfaceLines(Append(t, l)), d) = l.value
<1> DEFINE U == IfaceLines(t)
           W == IfaceLines(Append(t, l))
<1>1. /\ U \in SUBSET (1..Len(t))
      /\ l.kind # "iface" => W = U
      /\ l.kind = "iface" /\ Ends(t, "interface") => W = U \cup {Len(t) + 1}
  BY IfacesMore
<1>2. U \in SUBSET (1..Len(t))
  BY <1>1
<1> HIDE DEF W, U
<1>3. /\ LastValue(Append(t, l), U, d) = LastValue(t, U, d)
      /\ LastValue(Append(t, l), U \cup {Len(t) + 1}, d) = l.value
  BY <1>2, LastMore, SMTT(30)
<1> QED
  BY <1>1, <1>3 DEF W, U

(* A header starts a section, another line stays in it.                    *)
LEMMA EndsMore ==
  ASSUME NEW X, NEW t \in Seq(X), NEW l \in X, NEW s
  PROVE  /\ IsHeader(l) => Ends(Append(t, l), l.kind)
         /\ ~IsHeader(l) /\ Ends(t, s) => Ends(Append(t, l), s)
<1> DEFINE u == Append(t, l)
           n == Len(t) + 1
<1>1. /\ Len(t) \in Nat /\ u[n] = l /\ \A m \in 1..Len(t) : u[m] = t[m]
      /\ Headers(t) \in SUBSET (1..Len(t))
      /\ Headers(u) = Headers(t) \cup (IF IsHeader(l) THEN {n} ELSE {})
  BY TextMore
<1>2. \A g \in Headers(t) \cup {n} : ~(g > n)
  BY <1>1
<1> HIDE DEF u, n
<1>3. IsHeader(l) => n \in Headers(u) /\ Latest(u, n) /\ l.kind # ""
  BY <1>1, <1>2 DEF Latest, IsHeader
<1>4. ~IsHeader(l) => Headers(u) = Headers(t) /\ \A h \in Headers(t) : u[h] = t[h]
  BY <1>1
<1> QED
  BY <1>1, <1>3, <1>4 DEF Ends, Latest, u

(* A configuration by its parts.                                           *)
Parts(iface, replace, peers) == [iface |-> iface, replace |-> replace, peers |-> peers]

(* A text means its interface lines, its mode and its peers.               *)
LEMMA MeantParts ==
  ASSUME NEW t, NEW append
  PROVE  Meant(t, append)
           = Parts(LastValue(t, IfaceLines(t), Empty(append).iface), ~append, Peers(t))
BY Zenon DEF Meant, IfaceLines, Peers, PeerHeads, Parts

(* One part changes.                                                       *)
LEMMA PartsEdited ==
  ASSUME NEW i, NEW r, NEW p, NEW x
  PROVE  /\ [Parts(i, r, p) EXCEPT !.iface = x] = Parts(x, r, p)
         /\ [Parts(i, r, p) EXCEPT !.peers = x] = Parts(i, r, x)
         /\ Parts(i, r, p).peers = p /\ Parts(i, r, p).iface = i /\ Parts(i, r, p).replace = r
BY SMT DEF Parts

(* What one more line means.                                               *)
LEMMA MeantMore ==
  ASSUME NEW X, NEW t \in Seq(X), NEW l \in X, NEW append, NEW m, NEW w,
         m = Meant(t, append), w = Meant(Append(t, l), append)
  PROVE  /\ Len(m.peers) \in Nat /\ DOMAIN m.peers = 1..Len(m.peers)
         /\ l.kind \notin FieldKinds \cup {"peer", "iface"} => w = m
         /\ l.kind = "peer" => w = [m EXCEPT !.peers = Append(m.peers, NewEntry)]
         /\ l.kind = "iface" /\ Ends(t, "interface") => w = [m EXCEPT !.iface = l.value]
         /\ l.kind \in FieldKinds /\ Ends(t, "peer") /\ (l.kind = "allowedips" => IsList(l.value)) =>
              /\ Len(m.peers) # 0
              /\ w = [m EXCEPT !.peers = [m.peers EXCEPT ![Len(m.peers)] =
                                                           Edited(m.peers[Len(m.peers)], l)]]
<1> DEFINE u == Append(t, l)
           n == Len(t) + 1
           d == Empty(append).iface
           i == LastValue(t, IfaceLines(t), d)
           j == LastValue(u, IfaceLines(u), d)
           p == Peers(t)
           q == Peers(u)
           r == ~append
<1>1. m = Parts(i, r, p) /\ w = Parts(j, r, q)
  BY MeantParts, Zenon
<1>5. /\ l.kind # "iface" => j = i
      /\ l.kind = "iface" /\ Ends(t, "interface") => j = l.value
  <2> HIDE DEF d
  <2> QED
    BY IfaceMore
<1>6. /\ Len(p) \in Nat /\ DOMAIN p = 1..Len(p)
      /\ l.kind = "peer" => q = Append(p, NewEntry)
      /\ l.kind \notin FieldKinds \cup {"peer"} => q = p
      /\ l.kind # "peer" => Len(q) = Len(p) /\ DOMAIN q = DOMAIN p
      /\ l.kind # "peer" => \A k \in 1..Len(p) : k # Len(p) => q[k] = p[k]
      /\ l.kind # "peer" /\ Ends(t, "peer") /\ (l.kind = "allowedips" => IsList(l.value)) =>
           Len(p) # 0 /\ q[Len(p)] = Edited(p[Len(p)], l)
  BY PeersMore
<1>7. p = [k \in DOMAIN p |-> p[k]] /\ q = [k \in DOMAIN q |-> q[k]]
  BY DEF Peers
<1> HIDE DEF i, j, p, q, r, u, d
<1>8. m.peers = p
  BY <1>1, PartsEdited
<1>9. ASSUME l.kind \notin FieldKinds \cup {"peer", "iface"} PROVE w = m
  BY <1>1, <1>5, <1>6, <1>9
<1>10. ASSUME l.kind = "peer" PROVE w = [m EXCEPT !.peers = Append(p, NewEntry)]
  <2>1. j = i /\ q = Append(p, NewEntry)
    BY <1>5, <1>6, <1>10
  <2> DEFINE x == Append(p, NewEntry)
  <2> HIDE DEF x
  <2>2. [m EXCEPT !.peers = x] = Parts(i, r, x)
    BY <1>1, SMT DEF Parts
  <2> QED
    BY <1>1, <2>1, <2>2, Zenon DEF x
<1>11. ASSUME l.kind = "iface", Ends(t, "interface") PROVE w = [m EXCEPT !.iface = l.value]
  <2>1. j = l.value /\ q = p
    BY <1>5, <1>6, <1>11 DEF FieldKinds
  <2> QED
    BY <1>1, <2>1, PartsEdited
<1>12. ASSUME l.kind \in FieldKinds, Ends(t, "peer"), l.kind = "allowedips" => IsList(l.value)
       PROVE  /\ Len(p) # 0
              /\ w = [m EXCEPT !.peers = [p EXCEPT ![Len(p)] = Edited(p[Len(p)], l)]]
  <2>1. l.kind # "peer" /\ l.kind # "iface"
    BY <1>12 DEF FieldKinds
  <2>2. j = i /\ Len(p) # 0 /\ Len(q) = Len(p) /\ DOMAIN q = DOMAIN p
        /\ q[Len(p)] = Edited(p[Len(p)], l)
        /\ \A k \in 1..Len(p) : k # Len(p) => q[k] = p[k]
    BY <1>5, <1>6, <1>12, <2>1
  <2>3. q = [p EXCEPT ![Len(p)] = Edited(p[Len(p)], l)]
    BY <1>6, <1>7, <2>2
  <2> DEFINE x == [p EXCEPT ![Len(p)] = Edited(p[Len(p)], l)]
  <2> HIDE DEF x
  <2>4. [m EXCEPT !.peers = x] = Parts(i, r, x)
    BY <1>1, SMT DEF Parts
  <2>5. q = x
    BY <2>3 DEF x
  <2>6. w = [m EXCEPT !.peers = x]
    BY <1>1, <2>2, <2>4, <2>5, Zenon
  <2> QED
    BY <2>2, <2>6, Zenon DEF x
<1> QED
  BY <1>6, <1>8, <1>9, <1>10, <1>11, <1>12
-----------------------------------------------------------------------------
(* Reading a text                                                          *)

Readable(t) ==
  \E S : t \in Seq(S) /\ \A l \in S : l.kind = "allowedips" /\ l.value # Bad => IsList(l.value)

(* Where a line may be.                                                    *)
Sections == {"", "interface", "peer"}

(* What has been made of the lines that are done.                          *)
ReadSoFar ==
  /\ parsing \in {"yes", "parsed", "refused"}
  /\ line \in 0..Len(text) /\ section \in Sections
  /\ cfg = Meant(SubSeq(text, 1, line), AppendMode)
  /\ Ends(SubSeq(text, 1, line), section)
  /\ parsing = "parsed" => line = Len(text)

(* One line more has been done.                                            *)
LEMMA OneMoreLine ==
  ASSUME Readable(text), ReadSoFar, line < Len(text), Advance, parsing = "yes",
         UNCHANGED req, section' \in Sections,
         NEW t, t = SubSeq(text, 1, line),
         cfg' = Meant(Append(t, This), AppendMode),
         Ends(Append(t, This), section')
  PROVE  ReadSoFar'
<1>1. PICK S : text \in Seq(S)
  BY DEF Readable
<1>2. line \in 0..Len(text) /\ Len(text) \in Nat
  BY <1>1, LenProperties DEF ReadSoFar
<1>3. SubSeq(text, 1, line + 1) = Append(t, This)
  BY <1>1, <1>2, Beginning DEF This
<1>4. line + 1 \in 0..Len(text)
  BY <1>2
<1>5. /\ line' = line + 1 /\ text' = text /\ parsing' = "yes"
      /\ (AppendMode <=> AppendMode')
  BY DEF Advance, input, AppendMode, Mode
<1>6. cfg' = Meant(SubSeq(text, 1, line + 1), AppendMode)
  BY <1>3
<1>7. Ends(SubSeq(text, 1, line + 1), section')
  BY <1>3
<1>8. AppendMode' = AppendMode
  BY DEF AppendMode, Mode
<1> QED
  BY <1>4, <1>5, <1>6, <1>7, <1>8, Zenon DEF ReadSoFar

(* Two fields of an entry are set at once.                                 *)
InPlace(m, n, x, y) == [m EXCEPT !.peers[n].ops = @ \o x, !.peers[n].replaceIPs = y]
InEntry(m, p, n, x, y) ==
  [m EXCEPT !.peers = [p EXCEPT ![n] = [p[n] EXCEPT !.ops = @ \o x, !.replaceIPs = y]]]

(* It makes no difference which way they are set.                          *)
LEMMA SetTwo ==
  ASSUME NEW i, NEW r, NEW p, NEW n \in DOMAIN p, NEW x, NEW y, NEW m, m = Parts(i, r, p)
  PROVE  InPlace(m, n, x, y) = InEntry(m, p, n, x, y)
<1> DEFINE e == [p[n] EXCEPT !.ops = p[n].ops \o x]
           q == [p EXCEPT ![n] = e]
           k == Parts(i, r, q)
<1>1. m.peers = p
  BY SMT DEF Parts
<1>2. [m EXCEPT !.peers = q] = k
  <2> HIDE DEF q
  <2> QED
    BY SMT DEF Parts
<1>3. [m EXCEPT !.peers[n].ops = @ \o x] = k
  <2>1. [m EXCEPT !.peers[n].ops = @ \o x]
        = [m EXCEPT !.peers = [m.peers EXCEPT ![n] = [m.peers[n] EXCEPT !.ops = m.peers[n].ops \o x]]]
    OBVIOUS
  <2> QED
    BY <1>1, <1>2, <2>1, Zenon
<1>4. [m EXCEPT !.peers[n].ops = @ \o x, !.peers[n].replaceIPs = y]
      = [k EXCEPT !.peers[n].replaceIPs = y]
  <2> HIDE DEF k
  <2>1. [m EXCEPT !.peers[n].ops = @ \o x, !.peers[n].replaceIPs = y]
        = [[m EXCEPT !.peers[n].ops = @ \o x] EXCEPT !.peers[n].replaceIPs = y]
    OBVIOUS
  <2> QED
    BY <1>3, <2>1, Zenon
<1>5. k.peers = q
  <2> HIDE DEF q
  <2> QED
    BY SMT DEF Parts
<1>6. [k EXCEPT !.peers[n].replaceIPs = y]
      = [k EXCEPT !.peers = [q EXCEPT ![n] = [q[n] EXCEPT !.replaceIPs = y]]]
  <2> HIDE DEF k
  <2>1. [k EXCEPT !.peers[n].replaceIPs = y]
        = [k EXCEPT !.peers = [k.peers EXCEPT ![n] = [k.peers[n] EXCEPT !.replaceIPs = y]]]
    OBVIOUS
  <2> QED
    BY <1>5, <2>1, Zenon
<1>7. q[n] = e
  OBVIOUS
<1> DEFINE f == [e EXCEPT !.replaceIPs = y]
<1>8. [q EXCEPT ![n] = [q[n] EXCEPT !.replaceIPs = y]] = [p EXCEPT ![n] = f]
  <2> HIDE DEF f, e
  <2>1. [q EXCEPT ![n] = f] = [p EXCEPT ![n] = f]
    OBVIOUS
  <2> QED
    BY <1>7, <2>1, Zenon DEF f
<1>9. f = [p[n] EXCEPT !.ops = @ \o x, !.replaceIPs = y]
  OBVIOUS
<1> DEFINE g == [p EXCEPT ![n] = f]
<1>10. [k EXCEPT !.peers = g] = [m EXCEPT !.peers = g]
  <2> HIDE DEF g, q
  <2> QED
    BY SMT DEF Parts
<1> QED
  BY <1>4, <1>6, <1>8, <1>9, <1>10, Zenon DEF InPlace, InEntry

(* Every step of the parser does what the line means, or refuses it.       *)
LEMMA ParsesOn ==
  ASSUME Readable(text), ReadSoFar, ParseStep, UNCHANGED req
  PROVE  ReadSoFar'
<1>1. PICK S : /\ text \in Seq(S)
               /\ \A l \in S : l.kind = "allowedips" /\ l.value # Bad => IsList(l.value)
  BY DEF Readable
<1>2. line \in 0..Len(text) /\ Len(text) \in Nat
  BY <1>1, LenProperties DEF ReadSoFar
<1> DEFINE t == SubSeq(text, 1, line)
           l == This
           w == Meant(Append(t, l), AppendMode)
           p == cfg.peers
<1>3. ASSUME parsing = "yes", line < Len(text), Advance, section' \in Sections, cfg' = w,
             Ends(Append(t, l), section')
      PROVE  ReadSoFar'
  BY <1>3, OneMoreLine
<1>4. cfg = Meant(t, AppendMode) /\ Ends(t, section) /\ section \in Sections
  BY DEF ReadSoFar
<1>5. line < Len(text) => t \in Seq(S) /\ l \in S
  BY <1>1, <1>2, Beginning DEF This
<1>6. ASSUME line < Len(text)
      PROVE  /\ Len(p) \in Nat /\ DOMAIN p = 1..Len(p)
             /\ l.kind \notin FieldKinds \cup {"peer", "iface"} => w = cfg
             /\ l.kind = "peer" => w = [cfg EXCEPT !.peers = Append(p, NewEntry)]
             /\ l.kind = "iface" /\ Ends(t, "interface") => w = [cfg EXCEPT !.iface = l.value]
             /\ l.kind \in FieldKinds /\ Ends(t, "peer") /\ (l.kind = "allowedips" => IsList(l.value)) =>
                  /\ Len(p) # 0
                  /\ w = [cfg EXCEPT !.peers = [p EXCEPT ![Len(p)] = Edited(p[Len(p)], l)]]
  <2>1. t \in Seq(S) /\ l \in S
    BY <1>5, <1>6
  <2> HIDE DEF t, l
  <2> QED
    BY <1>4, <2>1, MeantMore
<1>7. ASSUME line < Len(text)
      PROVE  /\ IsHeader(l) => Ends(Append(t, l), l.kind)
             /\ ~IsHeader(l) => Ends(Append(t, l), section)
  <2>1. t \in Seq(S) /\ l \in S
    BY <1>5, <1>7
  <2> HIDE DEF t, l
  <2> QED
    BY <1>4, <2>1, EndsMore
<1>8. PICK i, r, q : cfg = Parts(i, r, q)
  BY <1>4, MeantParts
<1>9. q = p
  BY <1>8, SMT DEF Parts
<1> HIDE DEF t, w
<1>10. CASE SkipLine
  <2>1. w = cfg /\ ~IsHeader(l)
    BY <1>6, <1>10 DEF SkipLine, At, FieldKinds, IsHeader
  <2> QED
    BY <1>3, <1>4, <1>7, <1>10, <2>1 DEF SkipLine, At, place
<1>11. CASE StartInterface
  <2>1. w = cfg /\ IsHeader(l) /\ l.kind = "interface"
    BY <1>6, <1>11 DEF StartInterface, At, FieldKinds, IsHeader
  <2> QED
    BY <1>3, <1>7, <1>11, <2>1 DEF StartInterface, At, Sections
<1>12. CASE StartPeer
  <2>1. w = [cfg EXCEPT !.peers = Append(p, NewEntry)] /\ IsHeader(l) /\ l.kind = "peer"
    BY <1>6, <1>12 DEF StartPeer, At, IsHeader
  <2> QED
    BY <1>3, <1>7, <1>12, <2>1 DEF StartPeer, At, Sections
<1>13. CASE SetInterface
  <2>1. section = "interface"
    BY <1>13 DEF SetInterface, At, Legal, Misplaced
  <2>2. w = [cfg EXCEPT !.iface = l.value] /\ ~IsHeader(l)
    BY <1>4, <1>6, <1>13, <2>1 DEF SetInterface, At, IsHeader
  <2> QED
    BY <1>3, <1>4, <1>7, <1>13, <2>2 DEF SetInterface, At, place
<1>14. ASSUME NEW field, NEW v, SetEntry(field, v), parsing = "yes", line < Len(text), Advance,
              UNCHANGED section, section = "peer", l.kind \in FieldKinds, l.kind # "allowedips",
              \A e : Edited(e, l) = [e EXCEPT ![field] = v]
       PROVE  ReadSoFar'
  <2>1. w = [cfg EXCEPT !.peers = [p EXCEPT ![Len(p)] = Edited(p[Len(p)], l)]] /\ ~IsHeader(l)
    BY <1>4, <1>6, <1>14 DEF FieldKinds, IsHeader
  <2>2. cfg' = [cfg EXCEPT !.peers = [p EXCEPT ![Len(p)] = [p[Len(p)] EXCEPT ![field] = v]]]
    BY <1>14 DEF SetEntry, Newest
  <2>3. cfg' = w
    BY <1>14, <2>1, <2>2, Zenon
  <2> QED
    BY <1>3, <1>4, <1>7, <1>14, <2>1, <2>3
<1>15. CASE SetName
  <2>1. section = "peer" /\ l.kind \in FieldKinds /\ l.kind # "allowedips"
    BY <1>15 DEF SetName, At, Legal, Misplaced, FieldKinds
  <2>2. \A e : Edited(e, l) = [e EXCEPT !["name"] = l.value]
    BY <1>15 DEF SetName, At, Edited
  <2> QED
    BY <1>14, <1>15, <2>1, <2>2 DEF SetName, At
<1>16. CASE SetPublicKey
  <2>1. section = "peer" /\ l.kind \in FieldKinds /\ l.kind # "allowedips"
    BY <1>16 DEF SetPublicKey, At, Legal, Misplaced, FieldKinds
  <2>2. \A e : Edited(e, l) = [e EXCEPT !["key"] = l.value]
    BY <1>16 DEF SetPublicKey, At, Edited
  <2> QED
    BY <1>14, <1>16, <2>1, <2>2 DEF SetPublicKey, At, place
<1>17. CASE SetSetting
  <2>1. section = "peer" /\ l.kind \in FieldKinds /\ l.kind # "allowedips"
    BY <1>17 DEF SetSetting, At, Legal, Misplaced, FieldKinds
  <2>2. \A e : Edited(e, l) = [e EXCEPT !["setting"] = l.value]
    BY <1>17 DEF SetSetting, At, Edited, Address
  <2> QED
    BY <1>14, <1>17, <2>1, <2>2 DEF SetSetting, At, place
<1>18. CASE Lookup
  <2>1. section = "peer" /\ l.kind \in FieldKinds /\ l.kind # "allowedips"
    BY <1>18 DEF Lookup, Looking, At, Legal, Misplaced, FieldKinds
  <2>2. \A e : Edited(e, l) = [e EXCEPT !["setting"] = HostAddr]
    BY <1>18 DEF Lookup, Looking, At, Edited, Address
  <2> QED
    BY <1>14, <1>18, <2>1, <2>2 DEF Lookup, Looking, At
<1>19. CASE AddAllowedIPs
  <2>1. /\ section = "peer" /\ l.kind = "allowedips" /\ l.value # Bad /\ line < Len(text)
        /\ l.kind \in FieldKinds /\ ~IsHeader(l)
    BY <1>19 DEF AddAllowedIPs, At, Legal, Misplaced, FieldKinds, IsHeader
  <2>2. IsList(l.value)
    BY <1>1, <1>5, <2>1
  <2>3. /\ Len(p) # 0
        /\ w = [cfg EXCEPT !.peers = [p EXCEPT ![Len(p)] = Edited(p[Len(p)], l)]]
    BY <1>4, <1>6, <2>1, <2>2
  <2>4. Len(p) \in DOMAIN q
    BY <1>6, <1>9, <2>1, <2>3
  <2> DEFINE y == ~Incremental(l.value)
             x == l.value
             N == Len(p)
  <2>5. cfg' = InPlace(cfg, N, x, y)
    BY <1>19 DEF AddAllowedIPs, Newest, InPlace
  <2>6. Edited(p[N], l) = [p[N] EXCEPT !.ops = @ \o x, !.replaceIPs = y]
    BY <2>1 DEF Edited
  <2> HIDE DEF x, y, N
  <2>7. InPlace(cfg, N, x, y) = InEntry(cfg, q, N, x, y)
    <3>1. N \in DOMAIN q
      BY <2>4 DEF N
    <3> QED
      BY <1>8, <3>1, SetTwo
  <2>8. cfg' = w
    BY <1>9, <2>3, <2>5, <2>6, <2>7, Zenon DEF N, InEntry
  <2> QED
    BY <1>3, <1>4, <1>7, <1>19, <2>1, <2>8 DEF AddAllowedIPs, At, place
<1>20. CASE LookupAgain \/ LookupFails \/ RefuseLine \/ EndParse
  <2>1. /\ UNCHANGED <<line, section, cfg, text>>
        /\ parsing' \in {"yes", "parsed", "refused"}
        /\ parsing' = "parsed" => line = Len(text)
    BY <1>20 DEF LookupAgain, LookupFails, Looking, At, RefuseLine, EndParse, input, place
  <2>2. AppendMode' = AppendMode
    BY DEF AppendMode, Mode
  <2> QED
    BY <2>1, <2>2 DEF ReadSoFar
<1> QED
  BY <1>10, <1>11, <1>12, <1>13, <1>15, <1>16, <1>17, <1>18, <1>19, <1>20 DEF ParseStep
-----------------------------------------------------------------------------
(* The device                                                              *)

(* SetPeer for one entry after the other, as FoldLeft goes.                *)
SetsPeers(f, b, s, n) ==
  f = [t \in SUBSET (1..n) |-> IF t = {} THEN b ELSE SetPeer(f[t \ {Max(t)}], s[Max(t)])]

(* There is such a recursion.                                              *)
LEMMA SetsPeersExists ==
  ASSUME NEW b, NEW s, NEW n \in Nat
  PROVE  \E f : SetsPeers(f, b, s, n)
<1> DEFINE S == {m \in 0..n : \E f : SetsPeers(f, b, s, m)}
<1>1. 0 \in S
  <2> DEFINE f == [t \in SUBSET (1..0) |-> b]
  <2>1. \A t \in SUBSET (1..0) : t = {}
    OBVIOUS
  <2>2. SetsPeers(f, b, s, 0)
    BY <2>1 DEF SetsPeers
  <2>3. 0 \in 0..n
    OBVIOUS
  <2> QED
    BY <2>2, <2>3
<1>2. ASSUME NEW m \in 0..n, m < n, m \in S PROVE m + 1 \in S
  <2>1. PICK h : SetsPeers(h, b, s, m)
    BY <1>2
  <2> DEFINE k == m + 1
             g == [t \in SUBSET (1..k) |-> IF k \in t THEN SetPeer(h[t \ {k}], s[k]) ELSE h[t]]
  <2>2. k \in 1..n /\ k \in 0..n /\ m \in Nat /\ k \in Nat
    BY <1>2
  <2>3. ASSUME NEW t \in SUBSET (1..k)
        PROVE  /\ t \ {k} \in SUBSET (1..m)
               /\ k \notin t => t \in SUBSET (1..m)
    BY <2>2
  <2>4. \A t \in SUBSET (1..m) :
          h[t] = IF t = {} THEN b ELSE SetPeer(h[t \ {Max(t)}], s[Max(t)])
    BY <2>1, Zenon DEF SetsPeers
  <2>5. ASSUME NEW t \in SUBSET (1..k)
        PROVE  g[t] = IF t = {} THEN b ELSE SetPeer(g[t \ {Max(t)}], s[Max(t)])
    <3>1. CASE k \in t
      <4>1. Max(t) = k /\ t # {}
        BY <2>2, <3>1, MaxOf
      <4>2. t \ {k} \in SUBSET (1..k) /\ k \notin t \ {k}
        OBVIOUS
      <4>3. g[t \ {k}] = h[t \ {k}]
        BY <4>2
      <4> QED
        BY <3>1, <4>1, <4>3
    <3>2. CASE k \notin t /\ t # {}
      <4>1. t \in SUBSET (1..m) /\ t \ {Max(t)} \in SUBSET (1..k) /\ k \notin t \ {Max(t)}
        BY <2>3, <3>2
      <4>2. g[t] = h[t] /\ g[t \ {Max(t)}] = h[t \ {Max(t)}]
        BY <4>1, <3>2
      <4> QED
        BY <2>4, <3>2, <4>1, <4>2
    <3>3. CASE t = {}
      <4>1. k \notin t /\ t \in SUBSET (1..m)
        BY <3>3
      <4> QED
        BY <2>4, <3>3, <4>1
    <3> QED
      BY <3>1, <3>2, <3>3
  <2>6. SetsPeers(g, b, s, k)
    <3>1. g = [t \in SUBSET (1..k) |-> g[t]]
      OBVIOUS
    <3> HIDE DEF g, k
    <3> QED
      BY <2>5, <3>1 DEF SetsPeers
  <2> QED
    BY <2>2, <2>6
<1> HIDE DEF S
<1>3. n \in S
  BY <1>1, <1>2, Upwards
<1> QED
  BY <1>3 DEF S

(* One message leaves a device with finitely many peers.                   *)
LEMMA PeersFinite ==
  ASSUME NEW b, IsFiniteSet(b.peers), NEW n \in Nat, NEW s, DOMAIN s = 1..n
  PROVE  IsFiniteSet(FoldLeft(SetPeer, b, s).peers)
<1> DEFINE f == CHOOSE f : SetsPeers(f, b, s, n)
<1>1. FoldLeft(SetPeer, b, s) = f[1..n]
  BY DEF FoldLeft, MapThenFoldSet, SetsPeers
<1>2. SetsPeers(f, b, s, n)
  BY SetsPeersExists
<1> HIDE DEF f
<1>3. ASSUME NEW i \in 1..n PROVE f[1..i] = SetPeer(f[1..(i - 1)], s[i])
  <2>1. 1..i \in SUBSET (1..n) /\ 1..i # {} /\ (1..i) \ {i} = 1..(i - 1) /\ Max(1..i) = i
    BY FirstPositions
  <2> QED
    BY <1>2, <2>1, Zenon DEF SetsPeers
<1>4. f[1..0] = b
  <2>1. 1..0 \in SUBSET (1..n) /\ 1..0 = {}
    OBVIOUS
  <2> QED
    BY <1>2, <2>1, Zenon DEF SetsPeers
<1>5. ASSUME NEW d, NEW p, IsFiniteSet(d.peers)
      PROVE  IsFiniteSet(SetPeer(d, p).peers)
  <2>1. IsFiniteSet(d.peers \ {p.key}) /\ IsFiniteSet(d.peers \cup {p.key})
    BY <1>5, FS_AddElement, FS_RemoveElement
  <2>2. \/ SetPeer(d, p) = d
        \/ SetPeer(d, p).peers = d.peers \ {p.key}
        \/ SetPeer(d, p).peers = d.peers \cup {p.key}
    <3>1. CASE p.remove
      BY <3>1 DEF SetPeer, Without
    <3>2. CASE ~p.remove /\ p.updateOnly /\ p.key \notin d.peers
      BY <3>2, Zenon DEF SetPeer
    <3>3. CASE ~p.remove /\ ~(p.updateOnly /\ p.key \notin d.peers)
      BY <3>3 DEF SetPeer
    <3> QED
      BY <3>1, <3>2, <3>3
  <2> QED
    BY <1>5, <2>1, <2>2
<1> DEFINE S == {i \in 0..n : IsFiniteSet(f[1..i].peers)}
<1>6. 0 \in S
  BY <1>4
<1>7. ASSUME NEW i \in 0..n, i < n, i \in S PROVE i + 1 \in S
  <2>1. i + 1 \in 1..n /\ (i + 1) - 1 = i /\ i + 1 \in 0..n
    BY <1>7
  <2>2. f[1..(i + 1)] = SetPeer(f[1..i], s[i + 1])
    BY <1>3, <2>1
  <2> QED
    BY <1>5, <1>7, <2>1, <2>2
<1>8. n \in S
  <2> HIDE DEF S
  <2>1. \A i \in 0..n : i \in S
    BY <1>6, <1>7, Upwards
  <2> QED
    BY <2>1
<1> QED
  BY <1>1, <1>8
-----------------------------------------------------------------------------
(* Texts that are written and texts that break off                         *)

(* A list in a line is a list.                                             *)
GoodLine(l) == l.kind = "allowedips" /\ l.value # Bad => IsList(l.value)

(* The peers that encode gets to.                                          *)
LEMMA EncodedPeersList ==
  ASSUME NEW d, IsFiniteSet(d.wg.peers)
  PROVE  EncodedPeers(d) \in Seq(d.wg.peers)
<1> DEFINE P == d.wg.peers
           order == SetToSeq(P)
           refused == {i \in DOMAIN order : d.names[order[i]] \in OddName}
<1>1. order \in Seq(P)
  BY ListOfSet
<1>2. Len(order) \in Nat /\ DOMAIN order = 1..Len(order)
  BY <1>1, LenProperties
<1> HIDE DEF P, order
<1>3. CASE refused = {}
  BY <1>1, <1>3 DEF EncodedPeers, order, P
<1>4. CASE refused # {}
  <2> DEFINE c == CHOOSE i \in refused : \A j \in refused : i <= j
  <2>1. refused \in SUBSET Nat
    BY <1>2
  <2>2. \E i \in refused : \A j \in refused : i <= j
    <3> HIDE DEF refused
    <3> QED
      BY <1>4, <2>1, FirstOf
  <2>3. c \in refused
    BY <2>2
  <2> HIDE DEF c
  <2>4. c \in 0..Len(order)
    BY <1>2, <2>3
  <2>5. SubSeq(order, 1, c) \in Seq(P)
    BY <1>1, <2>4, Beginning
  <2>6. EncodedPeers(d) = SubSeq(order, 1, c)
    BY <1>4, Zenon DEF EncodedPeers, order, P, c
  <2> QED
    BY <2>5, <2>6 DEF P
<1> QED
  BY <1>3, <1>4

(* What Encode writes can be read.                                         *)
LEMMA EncodeReadable ==
  ASSUME NEW d, IsFiniteSet(d.wg.peers)
  PROVE  Readable(Encode(d))
<1> DEFINE P == d.wg.peers
           A(k) == [i \in DOMAIN IPsOf(d, k) |-> [ip |-> IPsOf(d, k)[i], op |-> "set"]]
           S == {L("interface", Nil), L("iface", d.iface), L("blank", Nil), L("peer", Nil)}
                  \cup {L("name", d.names[k]) : k \in P} \cup {L("publickey", k) : k \in P}
                  \cup {L("setting", d.wg.setting[k]) : k \in P}
                  \cup {L("allowedips", A(k)) : k \in P}
<1>1. ASSUME NEW k PROVE IsList(A(k))
  <2> DEFINE I == {a \in IP : d.wg.owner[a] = k}
             s == IPsOf(d, k)
  <2>1. IsFiniteSet(I) /\ I \subseteq IP
    BY BodyTypes, FS_Subset
  <2>2. s \in Seq(I)
    <3> HIDE DEF I
    <3>1. SetToSeq(I) \in Seq(I)
      BY <2>1, ListOfSet
    <3> QED
      BY <3>1 DEF IPsOf, I
  <2>3. Len(s) \in Nat /\ DOMAIN s = 1..Len(s) /\ \A i \in 1..Len(s) : s[i] \in IP
    BY <2>2, LenProperties
  <2> HIDE DEF s
  <2> DEFINE a == [i \in DOMAIN s |-> [ip |-> s[i], op |-> "set"]]
  <2>4. a \in [1..Len(s) -> IPOp]
    BY <2>3 DEF IPOp
  <2>5. a \in Seq(IPOp)
    BY <2>3, <2>4
  <2> QED
    BY <2>5 DEF IsList, s
<1>2. \A l \in S : GoodLine(l)
  <2>1. \A k : GoodLine(L("allowedips", A(k)))
    BY <1>1 DEF GoodLine, L
  <2> HIDE DEF A
  <2>2. \A v : /\ GoodLine(L("interface", v)) /\ GoodLine(L("iface", v)) /\ GoodLine(L("blank", v))
               /\ GoodLine(L("peer", v)) /\ GoodLine(L("name", v)) /\ GoodLine(L("publickey", v))
               /\ GoodLine(L("setting", v))
    BY DEF GoodLine, L
  <2> QED
    BY <2>1, <2>2
<1>3. /\ L("interface", Nil) \in S /\ L("iface", d.iface) \in S /\ L("blank", Nil) \in S
      /\ L("peer", Nil) \in S
  OBVIOUS
<1>4. \A k \in P : /\ L("name", d.names[k]) \in S /\ L("publickey", k) \in S
                   /\ L("setting", d.wg.setting[k]) \in S /\ L("allowedips", A(k)) \in S
  OBVIOUS
<1> HIDE DEF S, A, P
<1>5. /\ <<>> \in Seq(S) /\ \A l \in S : <<l>> \in Seq(S)
      /\ \A s, t \in Seq(S) : s \o t \in Seq(S)
  <2>1. <<>> \in Seq(S)
    BY EmptySeq
  <2>2. \A l \in S : <<l>> \in Seq(S)
    OBVIOUS
  <2>3. \A s, t \in Seq(S) : s \o t \in Seq(S)
    BY ONLY ConcatProperties
  <2> QED
    BY <2>1, <2>2, <2>3
<1>6. ASSUME NEW k \in P PROVE PeerLines(d, k) \in Seq(S)
  <2> DEFINE h == <<L("peer", Nil)>>
             n == IF d.names[k] = NoName THEN <<>> ELSE <<L("name", d.names[k])>>
             p == <<L("publickey", k)>>
             a == IF IPsOf(d, k) = <<>> THEN <<>> ELSE <<L("allowedips", A(k))>>
             s == IF d.wg.setting[k] = Default THEN <<>> ELSE <<L("setting", d.wg.setting[k])>>
  <2>1. h \in Seq(S) /\ p \in Seq(S)
    BY <1>3, <1>4, <1>5
  <2>2. n \in Seq(S)
    BY <1>4, <1>5
  <2>3. a \in Seq(S)
    BY <1>4, <1>5
  <2>4. s \in Seq(S)
    BY <1>4, <1>5
  <2>5. PeerLines(d, k) = IF d.names[k] \in OddName THEN h ELSE h \o n \o p \o a \o s
    BY Zenon DEF PeerLines, A
  <2> HIDE DEF h, n, p, a, s
  <2>6. h \o n \in Seq(S)
    BY <1>5, <2>1, <2>2
  <2>7. h \o n \o p \in Seq(S)
    BY <1>5, <2>1, <2>6
  <2>8. h \o n \o p \o a \in Seq(S)
    BY <1>5, <2>3, <2>7
  <2>9. h \o n \o p \o a \o s \in Seq(S)
    BY <1>5, <2>4, <2>8
  <2> QED
    BY <2>1, <2>5, <2>9
<1> DEFINE e == EncodedPeers(d)
           f == [i \in DOMAIN e |-> PeerLines(d, e[i])]
<1>7. FlattenSeq(f) \in Seq(S)
  <2>1. e \in Seq(P)
    BY EncodedPeersList DEF P
  <2>2. PICK n \in Nat : DOMAIN e = 1..n /\ \A i \in 1..n : e[i] \in P
    BY <2>1, LenProperties
  <2> HIDE DEF e
  <2>3. f = [i \in 1..n |-> f[i]] /\ \A i \in 1..n : f[i] \in Seq(S)
    BY <1>6, <2>2
  <2> HIDE DEF f
  <2> QED
    BY <2>3, FlattenList
<1> DEFINE i == IF d.iface = Default THEN <<>> ELSE <<L("iface", d.iface)>>
           h == <<L("interface", Nil)>>
           b == <<L("blank", Nil)>>
           g == FlattenSeq(f)
<1>8. Encode(d) = h \o i \o b \o g
  BY Zenon DEF Encode
<1>9. h \in Seq(S) /\ b \in Seq(S) /\ i \in Seq(S) /\ g \in Seq(S)
  BY <1>3, <1>5, <1>7
<1> HIDE DEF h, i, b, g
<1>10. h \o i \in Seq(S)
  BY <1>5, <1>9
<1>11. h \o i \o b \in Seq(S)
  BY <1>5, <1>9, <1>10
<1>12. Encode(d) \in Seq(S)
  BY <1>5, <1>8, <1>9, <1>11
<1> QED
  BY <1>2, <1>12 DEF Readable, GoodLine

(* A line that breaks off is no header, and a list in it is a list.        *)
LEMMA StumpGood ==
  ASSUME NEW k, GoodLine(k), NEW l \in Stump(k)
  PROVE  GoodLine(l) /\ l.kind \notin {"peer", "interface"}
<1>1. CASE l \in {L("blank", Nil), L("junk", Nil)}
  BY <1>1 DEF GoodLine, L
<1>2. CASE k.kind = "allowedips" /\ k.value # Bad /\ l \notin {L("blank", Nil), L("junk", Nil)}
  <2>1. l \in {L(k.kind, SubSeq(k.value, 1, n)) : n \in 0..Len(k.value)}
    BY <1>2 DEF Stump
  <2>2. PICK n \in 0..Len(k.value) : l = L(k.kind, SubSeq(k.value, 1, n))
    BY <2>1
  <2>3. k.value \in Seq(IPOp)
    BY <1>2 DEF GoodLine, IsList
  <2>4. SubSeq(k.value, 1, n) \in Seq(IPOp)
    BY <2>3, Beginning
  <2> QED
    BY <1>2, <2>2, <2>4 DEF GoodLine, IsList, L
<1>3. CASE k.kind \in {"iface", "setting"} /\ l \notin {L("blank", Nil), L("junk", Nil)}
  <2>1. l \in [kind : {k.kind}, value : Setting \cup {Bad}]
    BY <1>3 DEF Stump
  <2> QED
    BY <1>3, <2>1 DEF GoodLine
<1>4. CASE k.kind \in {"name", "publickey"} /\ l \notin {L("blank", Nil), L("junk", Nil)}
  <2>1. l \in {L(k.kind, Bad)}
    BY <1>4 DEF Stump
  <2> QED
    BY <1>4, <2>1 DEF GoodLine, L
<1>5. CASE /\ ~(k.kind = "allowedips" /\ k.value # Bad)
           /\ k.kind \notin {"iface", "setting", "name", "publickey"}
           /\ l \notin {L("blank", Nil), L("junk", Nil)}
  BY <1>5 DEF Stump
<1> QED
  BY <1>1, <1>2, <1>3, <1>4, <1>5

(* A text that breaks off.                                                 *)
LEMMA BreaksOff ==
  ASSUME NEW S, NEW t \in Seq(S), \A l \in S : GoodLine(l), NEW x \in BrokenOff(t)
  PROVE  \E n \in 1..Len(t) : \E l :
           /\ x = Append(SubSeq(t, 1, n - 1), l)
           /\ GoodLine(l) /\ l.kind \notin {"peer", "interface"}
<1>1. Len(t) \in Nat /\ DOMAIN t = 1..Len(t) /\ \A n \in 1..Len(t) : t[n] \in S
  BY LenProperties
<1>2. PICK n \in 1..Len(t) : \E l \in Stump(t[n]) : x = SubSeq(t, 1, n - 1) \o <<l>>
  BY <1>1 DEF BrokenOff
<1>3. PICK l \in Stump(t[n]) : x = SubSeq(t, 1, n - 1) \o <<l>>
  BY <1>2
<1>4. GoodLine(l) /\ l.kind \notin {"peer", "interface"}
  BY <1>1, StumpGood
<1>5. n - 1 \in 0..Len(t)
  BY <1>1
<1>6. SubSeq(t, 1, n - 1) \in Seq(S)
  BY <1>5, Beginning
<1> DEFINE b == SubSeq(t, 1, n - 1)
<1>7. b \o <<l>> = Append(b, l)
  <2> HIDE DEF b
  <2>1. b \in Seq(S \cup {l}) /\ l \in S \cup {l}
    BY <1>6, WiderSeq DEF b
  <2> QED
    BY <2>1
<1> QED
  BY <1>3, <1>4, <1>7

(* The peers of a text are a list; a text without lines has none.          *)
LEMMA PeersList ==
  ASSUME NEW S, NEW t \in Seq(S)
  PROVE  Len(Peers(t)) \in Nat /\ DOMAIN Peers(t) = 1..Len(Peers(t))
<1>1. t \in Seq(S \cup {Nil}) /\ Nil \in S \cup {Nil}
  BY WiderSeq
<1> QED
  BY <1>1, PeersMore

(* No lines mean nothing.                                                  *)
LEMMA NoLines ==
  /\ \A S : <<>> \in Seq(S)
  /\ Headers(<<>>) = {} /\ Peers(<<>>) = <<>> /\ Len(Peers(<<>>)) = 0
  /\ Ends(<<>>, "")
  /\ \A append : Meant(<<>>, append) = Empty(append)
<1>1. \A S : <<>> \in Seq(S)
  OBVIOUS
<1>2. DOMAIN <<>> = {}
  OBVIOUS
<1>3. Headers(<<>>) = {}
  BY <1>2 DEF Headers
<1>4. PeerHeads(<<>>) = {}
  BY <1>3 DEF PeerHeads
<1>5. InOrder({}) = <<>>
  BY InOrderFolds
<1>6. Peers(<<>>) = <<>>
  BY <1>2, <1>4, <1>5 DEF Peers
<1>7. IfaceLines(<<>>) = {}
  BY <1>3 DEF IfaceLines
<1>8. ASSUME NEW append PROVE Meant(<<>>, append) = Empty(append)
  <2>1. LastValue(<<>>, IfaceLines(<<>>), Empty(append).iface) = Empty(append).iface
    BY <1>7 DEF LastValue
  <2>2. Meant(<<>>, append) = Parts(Empty(append).iface, ~append, <<>>)
    BY <1>6, <2>1, MeantParts, Zenon
  <2>3. Empty(append).iface = IF append THEN Unset ELSE Default
    BY DEF Empty
  <2> QED
    BY <2>2, <2>3, Zenon DEF Empty, Parts
<1> QED
  BY <1>1, <1>3, <1>6, <1>8 DEF Ends

(* The entries of x before its last are those of t.                        *)
Follows(x, t) ==
  /\ Len(Peers(x)) <= Len(Peers(t))
  /\ \A j \in 1..Len(Peers(x)) : j < Len(Peers(x)) => Peers(x)[j] = Peers(t)[j]

(* Of a text that goes on, and goes on.                                    *)
LEMMA FollowsFurther ==
  ASSUME NEW x, NEW p, NEW q, Follows(x, p), Follows(p, q),
         Len(Peers(x)) \in Nat, Len(Peers(p)) \in Nat, Len(Peers(q)) \in Nat
  PROVE  Follows(x, q)
<1>1. Len(Peers(x)) <= Len(Peers(q))
  BY DEF Follows
<1>2. ASSUME NEW j \in 1..Len(Peers(x)), j < Len(Peers(x)) PROVE Peers(x)[j] = Peers(q)[j]
  <2>1. j \in 1..Len(Peers(p)) /\ j < Len(Peers(p))
    BY <1>2 DEF Follows
  <2> QED
    BY <1>2, <2>1 DEF Follows
<1> QED
  BY <1>1, <1>2 DEF Follows

(* One line more leaves what is before the last entry.                     *)
LEMMA FollowsOne ==
  ASSUME NEW S, NEW t \in Seq(S), NEW l \in S
  PROVE  Follows(t, Append(t, l)) /\ Len(Peers(t)) \in Nat /\ Len(Peers(Append(t, l))) \in Nat
<1> DEFINE p == Peers(t)
           q == Peers(Append(t, l))
<1>1. /\ Len(p) \in Nat /\ DOMAIN p = 1..Len(p)
      /\ l.kind = "peer" => q = Append(p, NewEntry)
      /\ l.kind # "peer" => Len(q) = Len(p)
      /\ l.kind # "peer" => \A j \in 1..Len(p) : j # Len(p) => q[j] = p[j]
  BY PeersMore
<1>2. p = [j \in 1..Len(p) |-> p[j]]
  BY <1>1 DEF Peers
<1> HIDE DEF p, q
<1>3. p \in Seq({p[j] : j \in 1..Len(p)})
  BY <1>1, <1>2
<1>4. l.kind = "peer" => Len(q) = Len(p) + 1 /\ \A j \in 1..Len(p) : q[j] = p[j]
  BY <1>1, <1>3
<1>5. Len(q) \in Nat /\ Len(p) <= Len(q) /\ \A j \in 1..Len(p) : j < Len(p) => p[j] = q[j]
  <2>1. CASE l.kind = "peer"
    BY <1>1, <1>4, <2>1
  <2>2. CASE l.kind # "peer"
    <3>1. Len(q) = Len(p) /\ Len(p) \in Nat
      BY <1>1, <2>2
    <3>2. \A j \in 1..Len(p) : j # Len(p) => q[j] = p[j]
      BY <1>1, <2>2, Zenon
    <3>3. \A j \in 1..Len(p) : j < Len(p) => j # Len(p)
      BY <3>1
    <3>4. \A j \in 1..Len(p) : j < Len(p) => p[j] = q[j]
      BY <3>2, <3>3, Zenon
    <3> QED
      BY <3>1, <3>4
  <2> QED
    BY <2>1, <2>2
<1> QED
  BY <1>1, <1>5, Zenon DEF Follows, p, q

(* What the first lines of a text mean, all of it does not undo.           *)
LEMMA FollowsWhole ==
  ASSUME NEW S, NEW t \in Seq(S), NEW m \in 0..Len(t)
  PROVE  Follows(SubSeq(t, 1, m), t)
<1> DEFINE N == Len(t)
           U(i) == SubSeq(t, 1, i)
           T == {i \in 0..N : i >= m => Follows(U(m), U(i))}
<1>1. N \in Nat /\ m \in Nat /\ m <= N /\ U(N) = t
  BY LenProperties
<1>2. \A i \in 0..N : U(i) \in Seq(S)
  BY Beginning
<1>3. \A i \in 0..N : i < N => t[i + 1] \in S /\ U(i + 1) = Append(U(i), t[i + 1])
  BY Beginning
<1> HIDE DEF U, N
<1>4. Follows(U(m), U(m))
  <2>1. Len(Peers(U(m))) \in Nat
    BY <1>1, <1>2, PeersList
  <2> QED
    BY <2>1 DEF Follows
<1>5. 0 \in T
  <2>1. 0 >= m => m = 0
    BY <1>1
  <2> QED
    BY <1>1, <1>4, <2>1
<1>6. ASSUME NEW i \in 0..N, i < N, i \in T PROVE i + 1 \in T
  <2>1. i + 1 \in 0..N
    BY <1>1, <1>6
  <2>2. ASSUME i >= m PROVE Follows(U(m), U(i + 1))
    <3>1. U(i) \in Seq(S) /\ t[i + 1] \in S /\ U(i + 1) = Append(U(i), t[i + 1])
      BY <1>2, <1>3, <1>6
    <3>2. /\ Follows(U(i), U(i + 1))
          /\ Len(Peers(U(i))) \in Nat /\ Len(Peers(U(i + 1))) \in Nat
      BY <3>1, FollowsOne
    <3>3. Len(Peers(U(m))) \in Nat
      BY <1>1, <1>2, PeersList
    <3>4. Follows(U(m), U(i))
      BY <1>6, <2>2
    <3> QED
      BY <3>2, <3>3, <3>4, FollowsFurther
  <2>3. i + 1 >= m => i >= m \/ i + 1 = m
    BY <1>1, <1>6
  <2>4. i + 1 = m => Follows(U(m), U(i + 1))
    BY <1>4
  <2> QED
    BY <2>1, <2>2, <2>3, <2>4
<1>7. N \in T
  <2> HIDE DEF T
  <2>1. \A i \in 0..N : i \in T
    BY <1>1, <1>5, <1>6, Upwards
  <2> QED
    BY <1>1, <2>1
<1> QED
  BY <1>1, <1>7 DEF U

(* What arrives of a text can be read, and only its last entry is not as   *)
(* it was sent.                                                            *)
LEMMA ArrivesReadable ==
  ASSUME NEW t, Readable(t), NEW x, x \in {<<>>, t} \cup BrokenOff(t)
  PROVE  Readable(x) /\ Follows(x, t)
<1>1. PICK S : t \in Seq(S) /\ \A l \in S : GoodLine(l)
  BY DEF Readable, GoodLine
<1>2. Len(Peers(t)) \in Nat
  BY <1>1, PeersList
<1>3. CASE x = <<>>
  <2>1. Readable(<<>>)
    BY NoLines DEF Readable
  <2>2. Follows(<<>>, t)
    <3> DEFINE p == Peers(t)
               o == Peers(<<>>)
    <3>1. Len(o) = 0
      BY NoLines
    <3> HIDE DEF p, o
    <3>2. Len(o) <= Len(p) /\ \A j \in 1..Len(o) : j < Len(o) => o[j] = p[j]
      BY <1>2, <3>1 DEF p
    <3> QED
      BY <3>2, Zenon DEF Follows, p, o
  <2> QED
    BY <1>3, <2>1, <2>2
<1>4. CASE x = t
  BY <1>2, <1>4 DEF Follows
<1>5. CASE x \in BrokenOff(t)
  <2> PICK n \in 1..Len(t) : \E l :
           /\ x = Append(SubSeq(t, 1, n - 1), l)
           /\ GoodLine(l) /\ l.kind \notin {"peer", "interface"}
    BY <1>1, <1>5, BreaksOff
  <2>1. PICK l : /\ x = Append(SubSeq(t, 1, n - 1), l)
                 /\ GoodLine(l) /\ l.kind \notin {"peer", "interface"}
    OBVIOUS
  <2> DEFINE b == SubSeq(t, 1, n - 1)
             X == S \cup {l}
  <2>2. n - 1 \in 0..Len(t)
    BY <1>1, LenProperties
  <2>3. b \in Seq(S)
    BY <1>1, <2>2, Beginning
  <2>4. Follows(b, t)
    BY <1>1, <2>2, FollowsWhole
  <2> HIDE DEF b
  <2>5. b \in Seq(X) /\ l \in X
    BY <2>3, WiderSeq
  <2>6. x \in Seq(X)
    <3> HIDE DEF X
    <3> QED
      BY <2>1, <2>5 DEF b
  <2>7. Readable(x)
    <3>1. \A k \in X : GoodLine(k)
      BY <1>1, <2>1
    <3> HIDE DEF X
    <3> QED
      BY <2>6, <3>1 DEF Readable, GoodLine
  <2>8. /\ Len(Peers(b)) \in Nat
        /\ Len(Peers(x)) = Len(Peers(b))
        /\ \A j \in 1..Len(Peers(b)) : j # Len(Peers(b)) => Peers(x)[j] = Peers(b)[j]
    <3>1. x = Append(b, l) /\ l.kind # "peer"
      BY <2>1 DEF b
    <3> HIDE DEF X
    <3> DEFINE p == Peers(b)
               q == Peers(Append(b, l))
    <3>2. /\ Len(p) \in Nat
          /\ l.kind # "peer" => Len(q) = Len(p) /\ DOMAIN q = DOMAIN p
          /\ l.kind # "peer" => \A j \in 1..Len(p) : j # Len(p) => q[j] = p[j]
      BY <2>5, PeersMore
    <3> HIDE DEF p, q
    <3>3. Len(p) \in Nat /\ Len(q) = Len(p) /\ \A j \in 1..Len(p) : j # Len(p) => q[j] = p[j]
      BY <3>1, <3>2
    <3> QED
      BY <3>1, <3>3, Zenon DEF p, q
  <2>9. Follows(x, t)
    BY <1>2, <2>4, <2>8 DEF Follows
  <2> QED
    BY <2>7, <2>9
<1> QED
  BY <1>3, <1>4, <1>5
-----------------------------------------------------------------------------
(* The invariant                                                           *)

Sent == IF IsText THEN body ELSE <<>>

(* The body of a request is a text that can be read, or has a list of      *)
(* peers.                                                                  *)
IsBody(where, b) ==
  /\ where = "conf" /\ b # NoBody => Readable(b)
  /\ where = "device" /\ b # NoBody =>
       Len(b.peers) \in Nat /\ DOMAIN b.peers = 1..Len(b.peers)

(* A configuration has a list of entries, a device finitely many peers.    *)
IsConfig(c) == /\ c = [iface |-> c.iface, replace |-> c.replace, peers |-> c.peers]
               /\ \E S : c.peers \in Seq(S)

IsDevice(d) == /\ d = [wg |-> d.wg, iface |-> d.iface, names |-> d.names]
               /\ IsFiniteSet(d.wg.peers)

(* The parser before it begins, and while it is at it.                     *)
Beginning0 == line = 0 /\ section = ""
Parsing == ReadSoFar /\ req.path = "conf"

(* What holds between two steps of a request.                              *)
Reading ==
  /\ at \in Stages
  /\ parsing = "yes" => at = "parse"
  /\ at \in {"peek", "auth"} => Beginning0
  /\ at \in {"peek", "auth", "parse"} => IsBody(req.path, body)
  /\ at \in {"auth", "parse"} => Follows(text, Sent)
  /\ at = "parse" => Parsing
  /\ at \in {"sync", "configure"} => IsConfig(cfg)
  /\ Readable(text) /\ Readable(shown) /\ IsDevice(dev) /\ turn \in Nat

(* It says what is to be shown.                                            *)
LEMMA ReadingEnough == Reading => ParsedAsWritten /\ DamageIsLast
<1> SUFFICES ASSUME Reading PROVE ParsedAsWritten /\ DamageIsLast
  OBVIOUS
<1>1. ParsedAsWritten
  BY DEF Reading, Parsing, ReadSoFar, ParsedAsWritten
<1>2. ASSUME parsing = "parsed", at = "parse"
      PROVE  LET sent == Meant(IF IsText THEN body ELSE <<>>, AppendMode).peers IN
               /\ Len(cfg.peers) <= Len(sent)
               /\ \A j \in DOMAIN cfg.peers : j < Len(cfg.peers) => cfg.peers[j] = sent[j]
  <2> DEFINE sent == Meant(IF IsText THEN body ELSE <<>>, AppendMode).peers
             p == Peers(text)
             q == Peers(Sent)
  <2>1. \A t : Meant(t, AppendMode).peers = Peers(t)
    BY MeantParts, PartsEdited
  <2>2. sent = q
    BY <2>1 DEF Sent
  <2>3. PICK S : text \in Seq(S)
    BY DEF Reading, Readable
  <2>4. SubSeq(text, 1, line) = text
    BY <1>2, <2>3 DEF Reading, Parsing, ReadSoFar
  <2>5. cfg.peers = p
    BY <1>2, <2>1, <2>4 DEF Reading, Parsing, ReadSoFar
  <2>6. Follows(text, Sent)
    BY <1>2 DEF Reading
  <2>7. DOMAIN p = 1..Len(p)
    BY <2>3, PeersList
  <2>8. Len(p) <= Len(q) /\ \A j \in DOMAIN p : j < Len(p) => p[j] = q[j]
    BY <2>6, <2>7 DEF Follows
  <2> HIDE DEF sent, p, q
  <2> QED
    BY <2>2, <2>5, <2>8, Zenon DEF sent
<1>3. DamageIsLast
  BY <1>2, Zenon DEF DamageIsLast
<1> QED
  BY <1>1, <1>3

(* A text of no lines.                                                     *)
LEMMA NoLinesReadable == Readable(<<>>) /\ Follows(<<>>, <<>>)
<1>1. Readable(<<>>)
  BY NoLines DEF Readable
<1> QED
  BY <1>1, ArrivesReadable

(* Nobody has asked for anything.                                          *)
LEMMA ReadingInit == Init => Reading
<1> SUFFICES ASSUME Init PROVE Reading
  OBVIOUS
<1>1. dev \in NamedDevice
  BY StartType DEF Init
<1>2. dev.wg \in Device
  BY <1>1, Zenon DEF NamedDevice
<1>3. dev = [wg |-> dev.wg, iface |-> dev.iface, names |-> dev.names]
  BY <1>1 DEF NamedDevice
<1>4. dev.wg.peers \subseteq Key
  BY <1>2 DEF Device
<1>5. IsDevice(dev)
  BY <1>3, <1>4, BodyTypes, FS_Subset DEF IsDevice
<1> QED
  BY <1>5, NoLinesReadable DEF Init, Idle, Reading, Stages

(* A request that is answered, or goes on to a later stage.                *)
LEMMA ReadingReply ==
  ASSUME Reading, at' = "idle", parsing # "yes",
         UNCHANGED <<parser, turn>>, IsDevice(dev'), Readable(shown')
  PROVE  Reading'
<1>1. UNCHANGED <<parsing, text>>
  BY DEF parser, input
<1> QED
  BY <1>1 DEF Reading, Stages

(* An answer that changes nothing.                                         *)
LEMMA ReadingReplyOnly ==
  ASSUME Reading, NEW code, ReplyOnly(code), parsing # "yes"
  PROVE  Reading'
<1>1. IsDevice(dev') /\ Readable(shown')
  BY DEF Reading, ReplyOnly, answers
<1> QED
  BY <1>1, ReadingReply DEF ReplyOnly, Reply, asked

(* The client asks.                                                         *)
LEMMA ReadingAsk ==
  ASSUME Reading, Ask
  PROVE  Reading'
<1>1. PICK r \in Script[turn + 1] :
        req' = Header(r) /\ body' = IF r.body = Shown THEN shown ELSE r.body
  BY DEF Ask
<1>2. req'.path = r.path
  BY <1>1 DEF Header
<1>3. turn + 1 \in DOMAIN Script
  BY BodyTypes DEF Ask, Reading
<1>4. IsBody(r.path, body')
  <2>1. CASE r.path = "conf" /\ body' # NoBody
    <3>1. CASE r.body = Shown
      BY <1>1, <2>1, <3>1 DEF Reading, IsBody
    <3>2. CASE r.body # Shown
      <4>1. body' \in Seq(Line)
        BY <1>1, <1>3, <2>1, <3>2, BodyTypes
      <4>2. \A l \in Line : l.kind = "allowedips" /\ l.value # Bad => IsList(l.value)
        BY DEF Line, IsList
      <4>3. Readable(body')
        <5> HIDE DEF Line
        <5> QED
          BY <4>1, <4>2 DEF Readable
      <4> QED
        BY <2>1, <4>3 DEF IsBody
    <3> QED
      BY <3>1, <3>2
  <2>2. CASE r.path = "device" /\ body' # NoBody
    <3>1. r.body # NoBody
      BY <1>1, <2>2, BodyTypes, <1>3
    <3>2. body' = r.body
      BY <1>1, <1>3, <2>2, <3>1, BodyTypes
    <3>3. body' \in Structure
      BY <1>3, <2>2, <3>1, <3>2, BodyTypes
    <3>4. body'.peers \in Seq(Entry)
      BY <3>3 DEF Structure
    <3> QED
      BY <2>2, <3>4, LenProperties DEF IsBody
  <2> QED
    BY <2>1, <2>2 DEF IsBody
<1>5. IsBody(req'.path, body')
  BY <1>2, <1>4
<1>6. /\ at' = "peek" /\ parsing' = "no" /\ text' = <<>> /\ line' = 0 /\ section' = ""
      /\ turn' = turn + 1 /\ UNCHANGED <<dev, shown>>
  BY DEF Ask, Renew, answers
<1>7. IsDevice(dev') /\ Readable(shown') /\ Readable(text') /\ turn' \in Nat
  <2>1. dev' = dev /\ shown' = shown /\ IsDevice(dev) /\ Readable(shown) /\ turn \in Nat
    BY <1>6 DEF Reading
  <2>2. turn' \in Nat
    <3>1. turn' = turn + 1
      BY DEF Ask
    <3>2. turn \in Nat
      BY <2>1
    <3> QED
      BY <3>1, <3>2
  <2> QED
    BY <1>6, <2>1, <2>2, NoLinesReadable, Zenon
<1>8. at' \in Stages /\ Beginning0'
  BY <1>6 DEF Stages, Beginning0
<1>9. (req.path)' = req'.path
  OBVIOUS
<1>10. at' = "peek" /\ parsing' # "yes"
  BY <1>6
<1> QED
  BY <1>5, <1>7, <1>8, <1>9, <1>10 DEF Reading

(* What arrives.                                                           *)
LEMMA ReadingPeek ==
  ASSUME Reading, Peek \/ PeekFails
  PROVE  Reading'
<1>1. IsBody(req.path, body)
  BY DEF Reading, Peek, PeekFails
<1>2. Readable(Sent)
  BY <1>1, NoLinesReadable DEF Sent, IsText, IsBody
<1>3. text' \in {<<>>, Sent} \cup BrokenOff(Sent)
  BY DEF Peek, PeekFails, Sent
<1>4. Readable(text') /\ Follows(text', Sent)
  BY <1>2, <1>3, ArrivesReadable
<1>5. /\ at = "peek" /\ at' = "auth"
      /\ UNCHANGED <<req, body, turn, dev, shown, parsing, line, section, Sent>>
  BY DEF Peek, PeekFails, asked, answers, place, Sent, IsText
<1> QED
  BY <1>1, <1>4, <1>5 DEF Reading, Stages, Beginning0

(* The parser begins.                                                      *)
LEMMA ReadingParse ==
  ASSUME Reading, Parse
  PROVE  Reading'
<1>1. /\ at = "auth" /\ at' = "parse" /\ parsing' = "yes" /\ cfg' = Empty(AppendMode)
      /\ req.path = "conf"
      /\ UNCHANGED <<req, body, turn, dev, shown, text, line, section>>
  BY DEF Parse, Writes, Routed, Known, StartParse, Goto, asked, answers, input, place
<1>2. AppendMode' = AppendMode /\ Sent' = Sent
  BY <1>1 DEF AppendMode, Mode, Sent, IsText
<1>3. PICK S : text \in Seq(S)
  BY DEF Reading, Readable
<1>4. SubSeq(text, 1, 0) = <<>> /\ 0 \in 0..Len(text)
  BY <1>3, LenProperties
<1>5. line = 0 /\ section = ""
  BY <1>1 DEF Reading, Beginning0
<1>6. ReadSoFar'
  BY <1>1, <1>2, <1>4, <1>5, NoLines DEF ReadSoFar, Sections
<1> QED
  BY <1>1, <1>2, <1>6 DEF Reading, Stages, Parsing

(* The parser goes on.                                                     *)
LEMMA ReadingLine ==
  ASSUME Reading, ParseLine
  PROVE  Reading'
<1>1. at = "parse" /\ UNCHANGED <<at, req, body, turn, dev, shown, Sent>>
  BY DEF ParseLine, web, asked, answers, Sent, IsText
<1>2. text' = text
  BY DEF ParseLine, ParseStep, SkipLine, StartInterface, StartPeer, SetInterface, SetName,
         SetPublicKey, SetSetting, AddAllowedIPs, Lookup, LookupAgain, LookupFails, RefuseLine,
         EndParse, Advance, input
<1>3. ReadSoFar'
  BY <1>1, ParsesOn DEF Reading, Parsing, ParseLine
<1> QED
  BY <1>1, <1>2, <1>3 DEF Reading, Parsing

(* What has been parsed is a configuration.                                *)
LEMMA MeantConfig ==
  ASSUME NEW S, NEW t \in Seq(S), NEW append
  PROVE  IsConfig(Meant(t, append))
<1> DEFINE p == Peers(t)
           X == {p[j] : j \in 1..Len(p)}
<1>1. PICK i, r : Meant(t, append) = Parts(i, r, p)
  BY MeantParts
<1>2. Len(p) \in Nat /\ p = [j \in 1..Len(p) |-> p[j]]
  BY PeersList DEF Peers
<1> HIDE DEF p
<1>3. p \in Seq(X)
  BY <1>2
<1> HIDE DEF X
<1> QED
  BY <1>1, <1>3, SMT DEF IsConfig, Parts

(* The mode decides about ReplacePeers.                                    *)
LEMMA ReadingParsed ==
  ASSUME Reading, Parsed
  PROVE  Reading'
<1>1. /\ at' \in {"sync", "configure"} /\ at = "parse" /\ parsing = "parsed"
      /\ cfg' = [cfg EXCEPT !.replace = ReplacePeers]
      /\ UNCHANGED <<turn, dev, shown, text, parsing>>
  BY DEF Parsed, Goto, asked, answers, input
<1>2. IsConfig(cfg)
  <2>1. PICK S : text \in Seq(S)
    BY DEF Reading, Readable
  <2>2. line \in 0..Len(text) /\ cfg = Meant(SubSeq(text, 1, line), AppendMode)
    BY <1>1 DEF Reading, Parsing, ReadSoFar
  <2>3. SubSeq(text, 1, line) \in Seq(S)
    BY <2>1, <2>2, Beginning
  <2> QED
    BY <2>2, <2>3, MeantConfig
<1>3. IsConfig(cfg')
  BY <1>1, <1>2 DEF IsConfig
<1> QED
  BY <1>1, <1>3 DEF Reading, Stages

(* A structured configuration.                                             *)
LEMMA ReadingParseConfig ==
  ASSUME Reading, ParseConfig
  PROVE  Reading'
<1> DEFINE f == [j \in DOMAIN body.peers |-> FromJSON(body.peers[j])]
<1>1. /\ at = "auth" /\ at' = "configure" /\ req.path = "device" /\ body # NoBody
      /\ cfg' = [iface |-> body.iface, replace |-> body.replace, peers |-> f]
      /\ UNCHANGED <<turn, dev, shown, text, parsing>>
  BY DEF ParseConfig, Structured, Routed, Known, Goto, asked, answers, input
<1>2. Len(body.peers) \in Nat /\ DOMAIN body.peers = 1..Len(body.peers)
  BY <1>1 DEF Reading, IsBody
<1>3. \E S : f \in Seq(S)
  <2>1. f = [j \in 1..Len(body.peers) |-> f[j]]
    BY <1>2
  <2> HIDE DEF f
  <2> QED
    BY <1>2, <2>1, FunctionIsList
<1> HIDE DEF f
<1>4. IsConfig(cfg')
  BY <1>1, <1>3 DEF IsConfig
<1>5. at' \in Stages /\ parsing' # "yes"
  BY <1>1 DEF Stages, Reading
<1> QED
  BY <1>1, <1>4, <1>5 DEF Reading

(* Removals are appended to the entries.                                   *)
LEMMA ReadingSync ==
  ASSUME Reading, Sync
  PROVE  Reading'
<1> DEFINE P == dev.wg.peers \ Meta!Keys(cfg)
           u == SetToSeq(P)
           f == [i \in DOMAIN u |-> Removal(u[i])]
<1>1. /\ at = "sync" /\ at' = "configure"
      /\ cfg' = [cfg EXCEPT !.peers = @ \o f]
      /\ UNCHANGED <<turn, dev, shown, text, parsing>>
  BY DEF Sync, Goto, asked, answers, input
<1>2. IsFiniteSet(P)
  BY FS_Subset DEF Reading, IsDevice
<1> HIDE DEF P
<1>3. Len(u) \in Nat /\ DOMAIN u = 1..Len(u)
  <2>1. u \in Seq(P)
    BY <1>2, ListOfSet
  <2> QED
    BY <2>1, LenProperties
<1> HIDE DEF u
<1>4. PICK T : f \in Seq(T)
  <2>1. f = [j \in 1..Len(u) |-> f[j]]
    BY <1>3
  <2> HIDE DEF f
  <2> QED
    BY <1>3, <2>1, FunctionIsList
<1> HIDE DEF f
<1>5. IsConfig(cfg)
  BY <1>1 DEF Reading
<1>6. PICK S : cfg.peers \in Seq(S)
  BY <1>5 DEF IsConfig
<1>7. cfg.peers \o f \in Seq(S \cup T)
  <2>1. cfg.peers \in Seq(S \cup T) /\ f \in Seq(S \cup T)
    BY <1>4, <1>6, WiderSeq
  <2> QED
    BY ONLY <2>1, ConcatProperties
<1> DEFINE c == cfg.peers \o f
<1>8. cfg' = [cfg EXCEPT !.peers = c]
  BY <1>1
<1>9. \E X : c \in Seq(X)
  BY <1>7
<1> HIDE DEF c
<1>10. IsConfig(cfg')
  BY <1>5, <1>8, <1>9 DEF IsConfig
<1>11. at' \in Stages /\ parsing' # "yes"
  BY <1>1 DEF Stages, Reading
<1> QED
  BY <1>1, <1>10, <1>11 DEF Reading

(* The device gets what the entries say.                                   *)
LEMMA ReadingConfigure ==
  ASSUME Reading, Configure
  PROVE  Reading'
<1> DEFINE m == Message(cfg)
           b == IF m.replace THEN NoPeers ELSE dev.wg
           w == SetDevice(dev.wg, m)
           i == IF cfg.iface = Unset THEN dev.iface ELSE cfg.iface
<1>1. /\ at = "configure" /\ at' = "readback"
      /\ dev' = [dev EXCEPT !.wg = w, !.iface = i]
      /\ UNCHANGED <<turn, shown, text, parsing>>
  BY DEF Configure, Goto, asked, answers, parser, input
<1>2. IsConfig(cfg) /\ IsDevice(dev)
  BY <1>1 DEF Reading
<1>3. PICK S : cfg.peers \in Seq(S)
  BY <1>2 DEF IsConfig
<1>4. Len(cfg.peers) \in Nat /\ DOMAIN m.peers = 1..Len(cfg.peers)
  BY <1>3, LenProperties DEF Message
<1>5. IsFiniteSet(b.peers)
  BY <1>2, FS_EmptySet DEF IsDevice, NoPeers
<1>6. w = FoldLeft(SetPeer, b, m.peers)
  BY Zenon DEF SetDevice
<1> HIDE DEF m, b, w, i
<1>7. IsFiniteSet(w.peers)
  BY <1>4, <1>5, <1>6, PeersFinite
<1>8. IsDevice(dev')
  BY <1>1, <1>2, <1>7 DEF IsDevice
<1>9. at' \in Stages /\ parsing' # "yes"
  BY <1>1 DEF Stages, Reading
<1> QED
  BY <1>1, <1>8, <1>9 DEF Reading

(* Answers that change nothing but what is shown, or the names.            *)
LEMMA ReadingAnswers ==
  ASSUME Reading,
         \/ Unauthorized \/ NotFound \/ MethodNotAllowed \/ Alive \/ ListDevices
         \/ Missing \/ ShowDevice \/ WrongMode \/ Refused \/ BadConfig
         \/ DeviceMissing \/ StepFails
  PROVE  Reading'
<1>1. at \in {"auth", "sync", "configure", "readback"} => parsing # "yes"
  BY DEF Reading
<1>2. CASE Unauthorized \/ NotFound \/ MethodNotAllowed
  BY <1>1, <1>2, ReadingReplyOnly DEF Unauthorized, NotFound, MethodNotAllowed, Known
<1>3. CASE Alive
  BY <1>1, <1>3, ReadingReplyOnly DEF Alive, Routed, Known
<1>4. CASE ListDevices
  BY <1>1, <1>4, ReadingReplyOnly DEF ListDevices, Routed, Known
<1>5. CASE Missing \/ ShowDevice
  BY <1>1, <1>5, ReadingReplyOnly DEF Missing, ShowDevice, Reads, Routed, Known
<1>6. CASE WrongMode \/ BadConfig
  BY <1>1, <1>6, ReadingReplyOnly DEF WrongMode, Writes, BadConfig, Structured, Routed, Known
<1>7. CASE Refused
  BY <1>7, ReadingReplyOnly DEF Refused
<1>8. CASE DeviceMissing \/ StepFails
  BY <1>1, <1>8, ReadingReplyOnly DEF DeviceMissing, StepFails, Applying
<1> QED
  BY <1>2, <1>3, <1>4, <1>5, <1>6, <1>7, <1>8

(* What is shown can be read.                                              *)
LEMMA ReadingShow ==
  ASSUME Reading, ShowConf
  PROVE  Reading'
<1>1. at = "auth" /\ at' = "idle" /\ UNCHANGED <<parser, turn, dev>>
  BY DEF ShowConf, Routed, Known, Reply, asked
<1>2. PICK x : shown' = Encode([dev EXCEPT !.names = x])
  BY DEF ShowConf
<1> DEFINE d == [dev EXCEPT !.names = x]
<1>3. IsDevice(dev)
  BY DEF Reading
<1>4. IsFiniteSet(d.wg.peers)
  BY <1>3 DEF IsDevice
<1> HIDE DEF d
<1>5. Readable(shown')
  BY <1>2, <1>4, EncodeReadable DEF d
<1> QED
  BY <1>1, <1>3, <1>5, ReadingReply DEF Reading

(* Names are saved.                                                        *)
LEMMA ReadingSave ==
  ASSUME Reading, SaveNames
  PROVE  Reading'
<1> DEFINE n == Meta!NamesAfter(cfg, dev.wg.peers, dev.names)
<1>1. /\ at = "readback" /\ at' = "idle" /\ UNCHANGED <<parser, turn, shown>>
      /\ dev' = [dev EXCEPT !.names = n]
  BY DEF SaveNames, Reply, asked, answers
<1> HIDE DEF n
<1>2. IsDevice(dev')
  BY <1>1 DEF Reading, IsDevice
<1> QED
  BY <1>1, <1>2, ReadingReply DEF Reading

(* Every step keeps it.                                                    *)
LEMMA ReadingStep == Reading /\ [Next]_vars => Reading'
<1> SUFFICES ASSUME Reading, [Next]_vars PROVE Reading'
  OBVIOUS
<1>1. CASE Ask
  BY <1>1, ReadingAsk
<1>2. CASE Serve
  BY <1>2, ReadingPeek, ReadingAnswers, ReadingShow, ReadingParse, ReadingLine, ReadingParsed,
     ReadingParseConfig, ReadingSync, ReadingConfigure, ReadingSave DEF Serve
<1>3. CASE Vanish \/ UNCHANGED vars
  <2>1. /\ UNCHANGED <<at, req, body, turn, dev, shown>>
        /\ UNCHANGED <<parsing, text, line, section, cfg>>
    BY <1>3 DEF Vanish, vars, web, asked, answers, parser, input, place
  <2>2. UNCHANGED <<Sent, AppendMode>>
    BY <2>1 DEF Sent, IsText, AppendMode, Mode
  <2> QED
    BY <2>1, <2>2 DEF Reading, Parsing, ReadSoFar, Beginning0
<1> QED
  BY <1>1, <1>2, <1>3 DEF Next

(* Line by line, the configuration so far is what the lines so far mean:   *)
(* a field belongs to the last header before it, the last of two wins,     *)
(* lists add up, names and marks of one section never reach the next       *)
(* (parse.go:28-140).                                                      *)
THEOREM TextsAreRead == Spec => []ParsedAsWritten
<1> QED
  BY ReadingInit, ReadingStep, ReadingEnough, PTL DEF Spec

(* An upload that breaks off is accepted if what arrived can be parsed;    *)
(* but all entries before the last are what the client sent                *)
(* (server.go:244-267, parse.go:152).                                      *)
THEOREM DamageStaysLast == Spec => []DamageIsLast
<1> QED
  BY ReadingInit, ReadingStep, ReadingEnough, PTL DEF Spec
-----------------------------------------------------------------------------
(* Reading line by line                                                    *)
(* QuickParse folds ReadLine over the lines; here the fold is unrolled.    *)

(* The results of reading the lines of each prefix set of 1..n, as the     *)
(* fold over lines goes through them: the last line is read last.          *)
ReadSteps(f, b, t, n) ==
  f = [u \in SUBSET (1..n) |-> IF u = {} THEN b ELSE ReadLine(f[u \ {Max(u)}], t[Max(u)])]

(* Reading all lines from a state on.                                      *)
Run(b, t) == FoldLeft(ReadLine, b, t)

(* There are such results, so the fold is one of them.                     *)
LEMMA ReadsExists ==
  ASSUME NEW b, NEW t, NEW n \in Nat
  PROVE  \E f : ReadSteps(f, b, t, n)
<1> DEFINE S == {m \in 0..n : \E f : ReadSteps(f, b, t, m)}
<1>1. 0 \in S
  <2> DEFINE f == [u \in SUBSET (1..0) |-> b]
  <2>1. \A u \in SUBSET (1..0) : u = {}
    OBVIOUS
  <2>2. ReadSteps(f, b, t, 0)
    BY <2>1 DEF ReadSteps
  <2>3. 0 \in 0..n
    OBVIOUS
  <2> QED
    BY <2>2, <2>3
<1>2. ASSUME NEW m \in 0..n, m < n, m \in S PROVE m + 1 \in S
  <2>1. PICK h : ReadSteps(h, b, t, m)
    BY <1>2
  <2> DEFINE k == m + 1
             g == [u \in SUBSET (1..k) |-> IF k \in u THEN ReadLine(h[u \ {k}], t[k]) ELSE h[u]]
  <2>2. k \in 1..n /\ k \in 0..n /\ m \in Nat /\ k \in Nat
    BY <1>2
  <2>3. ASSUME NEW u \in SUBSET (1..k)
        PROVE  /\ u \ {k} \in SUBSET (1..m)
               /\ k \notin u => u \in SUBSET (1..m)
    BY <2>2
  <2>4. \A u \in SUBSET (1..m) :
          h[u] = IF u = {} THEN b ELSE ReadLine(h[u \ {Max(u)}], t[Max(u)])
    BY <2>1, Zenon DEF ReadSteps
  <2>5. ASSUME NEW u \in SUBSET (1..k)
        PROVE  g[u] = IF u = {} THEN b ELSE ReadLine(g[u \ {Max(u)}], t[Max(u)])
    <3>1. CASE k \in u
      <4>1. Max(u) = k /\ u # {}
        BY <2>2, <3>1, MaxOf
      <4>2. u \ {k} \in SUBSET (1..k) /\ k \notin u \ {k}
        OBVIOUS
      <4>3. g[u \ {k}] = h[u \ {k}]
        BY <4>2
      <4> QED
        BY <3>1, <4>1, <4>3
    <3>2. CASE k \notin u /\ u # {}
      <4>1. u \in SUBSET (1..m) /\ u \ {Max(u)} \in SUBSET (1..k) /\ k \notin u \ {Max(u)}
        BY <2>3, <3>2
      <4>2. g[u] = h[u] /\ g[u \ {Max(u)}] = h[u \ {Max(u)}]
        BY <4>1, <3>2
      <4> QED
        BY <2>4, <3>2, <4>1, <4>2
    <3>3. CASE u = {}
      <4>1. k \notin u /\ u \in SUBSET (1..m)
        BY <3>3
      <4> QED
        BY <2>4, <3>3, <4>1
    <3> QED
      BY <3>1, <3>2, <3>3
  <2>6. ReadSteps(g, b, t, k)
    <3>1. g = [u \in SUBSET (1..k) |-> g[u]]
      OBVIOUS
    <3> HIDE DEF g, k
    <3> QED
      BY <2>5, <3>1 DEF ReadSteps
  <2> QED
    BY <2>2, <2>6
<1> HIDE DEF S
<1>3. n \in S
  BY <1>1, <1>2, Upwards
<1> QED
  BY <1>3 DEF S

(* g[i] is the state after i lines.                                        *)
Through(g, b, t) ==
  /\ g[0] = b /\ g[Len(t)] = Run(b, t)
  /\ \A i \in 1..Len(t) : g[i] = ReadLine(g[i - 1], t[i])

(* Reading goes line by line.                                              *)
LEMMA RunThrough ==
  ASSUME NEW b, NEW t, Indexed(t)
  PROVE  \E g : Through(g, b, t)
<1> DEFINE n == Len(t)
           f == CHOOSE f : ReadSteps(f, b, t, n)
           g == [i \in 0..n |-> f[1..i]]
<1>0. n \in Nat /\ DOMAIN t = 1..n
  BY ListParts DEF Indexed
<1>1. Run(b, t) = f[1..n]
  BY <1>0 DEF Run, FoldLeft, MapThenFoldSet, ReadSteps
<1>2. ReadSteps(f, b, t, n)
  BY <1>0, ReadsExists
<1> HIDE DEF f, n
<1>3. ASSUME NEW i \in 1..n PROVE f[1..i] = ReadLine(f[1..(i - 1)], t[i])
  <2>1. 1..i \in SUBSET (1..n) /\ 1..i # {} /\ (1..i) \ {i} = 1..(i - 1) /\ Max(1..i) = i
    BY <1>0, FirstPositions
  <2> QED
    BY <1>2, <2>1, Zenon DEF ReadSteps
<1>4. f[1..0] = b
  <2>1. 1..0 \in SUBSET (1..n) /\ 1..0 = {}
    BY <1>0
  <2> QED
    BY <1>2, <2>1, Zenon DEF ReadSteps
<1>5. \A i \in 0..n : g[i] = f[1..i]
  OBVIOUS
<1> HIDE DEF g
<1>6. g[0] = b /\ g[n] = Run(b, t)
  BY <1>0, <1>1, <1>4, <1>5
<1>7. ASSUME NEW i \in 1..n PROVE g[i] = ReadLine(g[i - 1], t[i])
  <2>1. i \in 0..n /\ i - 1 \in 0..n
    BY <1>0
  <2> QED
    BY <1>3, <1>5, <2>1
<1>8. Through(g, b, t)
  BY <1>6, <1>7 DEF Through, n
<1> QED
  BY <1>8

(* No line changes nothing.                                                *)
LEMMA RunNone ==
  ASSUME NEW b
  PROVE  Run(b, <<>>) = b
<1>1. Indexed(<<>>) /\ Len(<<>>) = 0
  BY DEF Indexed
<1>2. PICK g : Through(g, b, <<>>)
  BY <1>1, RunThrough
<1> QED
  BY <1>1, <1>2 DEF Through

(* One line is read once.                                                  *)
LEMMA RunOne ==
  ASSUME NEW b, NEW l
  PROVE  Run(b, <<l>>) = ReadLine(b, l)
<1> DEFINE t == <<l>>
<1>1. Indexed(t) /\ Len(t) = 1 /\ t[1] = l
  BY OneList
<1> HIDE DEF t
<1>2. PICK g : Through(g, b, t)
  BY <1>1, RunThrough
<1>3. g[0] = b /\ g[1] = Run(b, t) /\ g[1] = ReadLine(g[1 - 1], t[1]) /\ 1 - 1 = 0
  BY <1>1, <1>2 DEF Through
<1>4. Run(b, t) = ReadLine(b, l)
  BY <1>1, <1>3
<1> QED
  BY <1>4 DEF t

(* Two texts one after the other are read one after the other.             *)
LEMMA RunBoth ==
  ASSUME NEW b, NEW s, NEW t, Indexed(s), Indexed(t)
  PROVE  Run(b, s \o t) = Run(Run(b, s), t)
<1> DEFINE m == Len(s)
           n == Len(t)
           u == s \o t
<1>1. /\ m \in Nat /\ n \in Nat
      /\ Indexed(u) /\ Len(u) = m + n
      /\ \A i \in 1..m : u[i] = s[i]
      /\ \A i \in 1..n : u[m + i] = t[i]
  BY TwoLists DEF Indexed
<1>2. PICK g : Through(g, b, u)
  BY <1>1, RunThrough
<1>3. PICK h : Through(h, b, s)
  BY RunThrough
<1>4. PICK k : Through(k, Run(b, s), t)
  BY RunThrough
<1> HIDE DEF u
<1>5. /\ g[0] = b /\ g[m + n] = Run(b, u)
      /\ \A i \in 1..(m + n) : g[i] = ReadLine(g[i - 1], u[i])
  BY <1>1, <1>2 DEF Through
<1>6. /\ h[0] = b /\ h[m] = Run(b, s)
      /\ \A i \in 1..m : h[i] = ReadLine(h[i - 1], s[i])
  BY <1>3 DEF Through
<1>7. /\ k[0] = Run(b, s) /\ k[n] = Run(Run(b, s), t)
      /\ \A i \in 1..n : k[i] = ReadLine(k[i - 1], t[i])
  BY <1>4 DEF Through
<1> HIDE DEF m, n
<1> DEFINE S == {i \in 0..m : g[i] = h[i]}
           T == {i \in 0..n : g[m + i] = k[i]}
<1>8. m \in S
  <2>1. 0 \in S
    BY <1>1, <1>5, <1>6
  <2>2. ASSUME NEW i \in 0..m, i < m, i \in S PROVE i + 1 \in S
    <3>1. i + 1 \in 1..m /\ i + 1 \in 1..(m + n) /\ (i + 1) - 1 = i /\ i + 1 \in 0..m
      BY <1>1, <2>2
    <3>2. g[i + 1] = ReadLine(g[i], s[i + 1]) /\ h[i + 1] = ReadLine(h[i], s[i + 1])
      BY <1>1, <1>5, <1>6, <3>1
    <3> QED
      BY <2>2, <3>1, <3>2
  <2> HIDE DEF S
  <2>3. \A i \in 0..m : i \in S
    BY <1>1, <2>1, <2>2, Upwards
  <2> QED
    BY <1>1, <2>3
<1>9. n \in T
  <2>1. 0 \in T
    BY <1>1, <1>6, <1>7, <1>8
  <2>2. ASSUME NEW i \in 0..n, i < n, i \in T PROVE i + 1 \in T
    <3>1. /\ i + 1 \in 1..n /\ (m + (i + 1)) \in 1..(m + n) /\ (i + 1) - 1 = i /\ i + 1 \in 0..n
          /\ (m + (i + 1)) - 1 = m + i
      BY <1>1, <2>2
    <3>2. g[m + (i + 1)] = ReadLine(g[m + i], t[i + 1])
      BY <1>1, <1>5, <3>1
    <3>3. k[i + 1] = ReadLine(k[i], t[i + 1])
      BY <1>7, <3>1
    <3> QED
      BY <2>2, <3>1, <3>2, <3>3
  <2> HIDE DEF T
  <2>3. \A i \in 0..n : i \in T
    BY <1>1, <2>1, <2>2, Upwards
  <2> QED
    BY <1>1, <2>3
<1> QED
  BY <1>5, <1>7, <1>9 DEF u

-----------------------------------------------------------------------------
(* What has been read has its type                                         *)

(* The settings a file can give: Host is looked up when it is read.        *)
FileSetting == (Setting \cup {Default, Unset}) \ {Host}
(* A peer that has been read; its key may still be missing.                *)
QuickPeer == [key : Key \cup {NoKey}, setting : FileSetting, ips : Seq(IP)]
(* What wgquick.Config holds.                                              *)
QuickFile ==
  [iface : Setting \cup {Default, Unset}, addresses : Seq(ListValue), hooks : Seq(ListValue),
   net : NetValue \cup {Zero}, peers : Seq(QuickPeer)]

(* What the loop of Parse holds: in a peer section there is a peer.        *)
QuickState ==
  {s \in [ok : BOOLEAN, section : {"", "interface", "peer"}, file : QuickFile] :
     s.section = "peer" => s.file.peers # <<>>}

(* A configuration whose peers have their keys.                            *)
KeyedFile(c) == c \in QuickFile /\ \A n \in DOMAIN c.peers : c.peers[n].key \in Key

(* What a line can say.                                                    *)
LEMMA LineParts ==
  ASSUME NEW l \in QuickLine
  PROVE  /\ l.kind \in {"blank", "junk", "interface", "peer", "iface", "name", "publickey", "setting",
                        "allowedips", "address", "hook", "net"}
         /\ l.kind = "iface" => l.value \in Setting \cup {Default, Bad}
         /\ l.kind = "publickey" => l.value \in Key \cup {Bad}
         /\ l.kind = "setting" => l.value \in Setting \cup {Default, Host, Bad}
         /\ l.kind = "allowedips" => l.value \in Seq(IPOp) \cup {Bad}
         /\ l.kind \in {"address", "hook"} => l.value \in ListValue \cup {Bad}
         /\ l.kind = "net" => l.value \in NetValue \cup {Zero, Bad}
<1>1. CASE l \in [kind : {"address", "hook"}, value : ListValue \cup {Bad}]
  BY <1>1
<1>2. CASE l \in [kind : {"net"}, value : NetValue \cup {Zero, Bad}]
  BY <1>2
<1>3. CASE l \in Line
  BY <1>3 DEF Line
<1> QED
  BY <1>1, <1>2, <1>3 DEF QuickLine

(* An address that has been looked up is a setting.                        *)
LEMMA AddressTypes ==
  ASSUME NEW v \in Setting \cup {Default, Host}
  PROVE  Address(v) \in FileSetting
BY HostResolves DEF Address, FileSetting

(* The addresses of the operations of a line.                              *)
IPsIn(v) == [n \in DOMAIN v |-> v[n].ip]

(* They are addresses.                                                     *)
LEMMA IPsInTypes ==
  ASSUME NEW v \in Seq(IPOp)
  PROVE  IPsIn(v) \in Seq(IP)
<1>1. Len(v) \in Nat /\ DOMAIN v = 1..Len(v) /\ \A n \in 1..Len(v) : v[n] \in IPOp
  BY LenProperties
<1>2. IPsIn(v) \in [1..Len(v) -> IP]
  BY <1>1 DEF IPsIn, IPOp
<1> QED
  BY <1>1, <1>2, SeqDef

(* A field of a peer leaves a peer.                                        *)
LEMMA PeerRead ==
  ASSUME NEW p \in QuickPeer, NEW l \in QuickLine, l.kind \in PeerFields, l.value # Bad
  PROVE  ParsePeer(p, l) \in QuickPeer
<1>1. CASE l.kind = "publickey"
  <2>1. ParsePeer(p, l) = [p EXCEPT !.key = l.value]
    BY <1>1 DEF ParsePeer
  <2>2. l.value \in Key
    BY <1>1, LineParts
  <2> QED
    BY <2>1, <2>2 DEF QuickPeer
<1>2. CASE l.kind = "setting"
  <2>1. ParsePeer(p, l) = [p EXCEPT !.setting = Address(l.value)]
    BY <1>2 DEF ParsePeer
  <2>2. l.value \in Setting \cup {Default, Host}
    BY <1>2, LineParts
  <2>3. Address(l.value) \in FileSetting
    BY <2>2, AddressTypes
  <2> QED
    BY <2>1, <2>3 DEF QuickPeer
<1>3. CASE l.kind = "allowedips"
  <2>1. ParsePeer(p, l) = [p EXCEPT !.ips = @ \o IPsIn(l.value)]
    BY <1>3 DEF ParsePeer, IPsIn
  <2>2. l.value \in Seq(IPOp)
    BY <1>3, LineParts
  <2>3. IPsIn(l.value) \in Seq(IP) /\ p.ips \in Seq(IP)
    BY <2>2, IPsInTypes DEF QuickPeer
  <2>4. p.ips \o IPsIn(l.value) \in Seq(IP)
    BY ONLY <2>3, ConcatProperties
  <2> QED
    BY <2>1, <2>4 DEF QuickPeer
<1> QED
  BY <1>1, <1>2, <1>3 DEF PeerFields

(* A field of the interface leaves a configuration with the same peers.    *)
LEMMA InterfaceRead ==
  ASSUME NEW c \in QuickFile, NEW l \in QuickLine, l.kind \in InterfaceFields, l.value # Bad
  PROVE  ParseInterface(c, l) \in QuickFile /\ ParseInterface(c, l).peers = c.peers
<1>1. CASE l.kind = "iface"
  <2>1. ParseInterface(c, l) = [c EXCEPT !.iface = l.value]
    BY <1>1 DEF ParseInterface
  <2>2. l.value \in Setting \cup {Default}
    BY <1>1, LineParts
  <2> QED
    BY <2>1, <2>2 DEF QuickFile
<1>2. CASE l.kind = "address"
  <2> DEFINE q == Append(c.addresses, l.value)
  <2>1. ParseInterface(c, l) = [c EXCEPT !.addresses = q]
    BY <1>2 DEF ParseInterface
  <2>2. l.value \in ListValue /\ c.addresses \in Seq(ListValue)
    BY <1>2, LineParts DEF QuickFile
  <2>3. q \in Seq(ListValue)
    BY ONLY <2>2, AppendProperties
  <2> HIDE DEF q
  <2> QED
    BY <2>1, <2>3 DEF QuickFile
<1>3. CASE l.kind = "hook"
  <2> DEFINE q == Append(c.hooks, l.value)
  <2>1. ParseInterface(c, l) = [c EXCEPT !.hooks = q]
    BY <1>3 DEF ParseInterface
  <2>2. l.value \in ListValue /\ c.hooks \in Seq(ListValue)
    BY <1>3, LineParts DEF QuickFile
  <2>3. q \in Seq(ListValue)
    BY ONLY <2>2, AppendProperties
  <2> HIDE DEF q
  <2> QED
    BY <2>1, <2>3 DEF QuickFile
<1>4. CASE l.kind = "net"
  <2>1. ParseInterface(c, l) = [c EXCEPT !.net = l.value]
    BY <1>4 DEF ParseInterface
  <2>2. l.value \in NetValue \cup {Zero}
    BY <1>4, LineParts
  <2> QED
    BY <2>1, <2>2 DEF QuickFile
<1> QED
  BY <1>1, <1>2, <1>3, <1>4 DEF InterfaceFields

(* Every line keeps the type of what has been read.                        *)
LEMMA LineRead ==
  ASSUME NEW s \in QuickState, NEW l \in QuickLine
  PROVE  ReadLine(s, l) \in QuickState
<1>0. s.file \in QuickFile /\ s.ok \in BOOLEAN /\ s.section \in {"", "interface", "peer"}
  BY DEF QuickState
<1>1. CASE ~s.ok
  BY <1>1 DEF ReadLine
<1>2. CASE s.ok
  <2>0. ReadLine(s, l) = ParseLine1(s, l)
    BY <1>2 DEF ReadLine
  <2>1. CASE l.kind \in {"blank", "name"}
    <3>1. ParseLine1(s, l) = s
      BY <2>1 DEF ParseLine1, InterfaceFields, PeerFields
    <3> QED
      BY <2>0, <3>1
  <2>2. CASE l.kind = "interface"
    <3>1. ParseLine1(s, l) = [s EXCEPT !.section = "interface"]
      BY <2>2 DEF ParseLine1, InterfaceFields, PeerFields
    <3> QED
      BY <2>0, <3>1 DEF QuickState
  <2>3. CASE l.kind = "peer"
    <3>1. ParseLine1(s, l) = [s EXCEPT !.section = "peer", !.file.peers = Append(@, NewPeer)]
      BY <2>3 DEF ParseLine1, InterfaceFields, PeerFields
    <3>2. NewPeer \in QuickPeer
      BY HostResolves DEF NewPeer, QuickPeer, FileSetting
    <3>3. s.file.peers \in Seq(QuickPeer)
      BY <1>0 DEF QuickFile
    <3> DEFINE q == Append(s.file.peers, NewPeer)
    <3>4. q \in Seq(QuickPeer) /\ q # <<>>
      BY <3>2, <3>3, AppendProperties
    <3>5. ParseLine1(s, l) = [s EXCEPT !.section = "peer", !.file = [s.file EXCEPT !.peers = q]]
      BY <3>1
    <3> HIDE DEF q
    <3>6. [s.file EXCEPT !.peers = q] \in QuickFile /\ [s.file EXCEPT !.peers = q].peers = q
      BY <1>0, <3>4 DEF QuickFile
    <3> QED
      BY <2>0, <3>4, <3>5, <3>6 DEF QuickState
  <2>4. CASE s.section = "interface" /\ l.kind \in InterfaceFields /\ ~Unreadable(l)
    <3>1. ParseLine1(s, l) = [s EXCEPT !.file = ParseInterface(@, l)]
      BY <2>4 DEF ParseLine1, InterfaceFields, PeerFields
    <3>2. ParseInterface(s.file, l) \in QuickFile /\ ParseInterface(s.file, l).peers = s.file.peers
      BY <1>0, <2>4, InterfaceRead DEF Unreadable
    <3> QED
      BY <2>0, <3>1, <3>2 DEF QuickState
  <2>5. CASE s.section = "peer" /\ l.kind \in PeerFields /\ ~Unreadable(l)
    <3> DEFINE n == Len(s.file.peers)
               q == [s.file.peers EXCEPT ![n] = ParsePeer(@, l)]
    <3>1. ParseLine1(s, l) = [s EXCEPT !.file.peers[n] = ParsePeer(@, l)]
      BY <2>5 DEF ParseLine1, InterfaceFields, PeerFields
    <3>2. s.file.peers \in Seq(QuickPeer) /\ s.file.peers # <<>>
      BY <1>0, <2>5 DEF QuickFile, QuickState
    <3>3. n \in Nat /\ DOMAIN s.file.peers = 1..n /\ n \in 1..n /\ s.file.peers[n] \in QuickPeer
      BY <3>2, LenProperties, EmptySeq
    <3>4. ParsePeer(s.file.peers[n], l) \in QuickPeer
      BY <2>5, <3>3, PeerRead DEF Unreadable
    <3>5. q \in Seq(QuickPeer) /\ q # <<>>
      <4>1. q \in [1..n -> QuickPeer]
        BY <3>2, <3>3, <3>4, LenProperties
      <4>2. q \in Seq(QuickPeer) /\ Len(q) = n
        BY <3>3, <4>1, SeqDef, LenProperties
      <4> QED
        BY <3>3, <4>2
    <3>6. ParseLine1(s, l) = [s EXCEPT !.file = [s.file EXCEPT !.peers = q]]
      BY <3>1
    <3> HIDE DEF q, n
    <3>7. [s.file EXCEPT !.peers = q] \in QuickFile /\ [s.file EXCEPT !.peers = q].peers = q
      BY <1>0, <3>5 DEF QuickFile
    <3> QED
      BY <2>0, <3>5, <3>6, <3>7 DEF QuickState
  <2>6. CASE /\ l.kind \notin {"blank", "name", "interface", "peer"}
             /\ ~(s.section = "interface" /\ l.kind \in InterfaceFields /\ ~Unreadable(l))
             /\ ~(s.section = "peer" /\ l.kind \in PeerFields /\ ~Unreadable(l))
    <3>1. ParseLine1(s, l) = [s EXCEPT !.ok = FALSE]
      BY <2>6 DEF ParseLine1
    <3> QED
      BY <2>0, <3>1 DEF QuickState
  <2> QED
    BY <2>1, <2>2, <2>3, <2>4, <2>5, <2>6
<1> QED
  BY <1>1, <1>2

(* So do all lines.                                                        *)
LEMMA RunTypes ==
  ASSUME NEW b \in QuickState, NEW t \in Seq(QuickLine)
  PROVE  Run(b, t) \in QuickState
<1> DEFINE n == Len(t)
<1>1. n \in Nat /\ Indexed(t) /\ \A i \in 1..n : t[i] \in QuickLine
  BY LenProperties, SeqDef DEF Indexed
<1>2. PICK g : Through(g, b, t)
  BY <1>1, RunThrough
<1>3. g[0] = b /\ g[n] = Run(b, t) /\ \A i \in 1..n : g[i] = ReadLine(g[i - 1], t[i])
  BY <1>2 DEF Through
<1> HIDE DEF n
<1> DEFINE S == {i \in 0..n : g[i] \in QuickState}
<1>4. 0 \in S
  BY <1>1, <1>3
<1>5. ASSUME NEW i \in 0..n, i < n, i \in S PROVE i + 1 \in S
  <2>1. i + 1 \in 1..n /\ (i + 1) - 1 = i /\ i + 1 \in 0..n
    BY <1>1, <1>5
  <2>2. g[i + 1] = ReadLine(g[i], t[i + 1]) /\ t[i + 1] \in QuickLine
    BY <1>1, <1>3, <2>1
  <2>3. g[i + 1] \in QuickState
    BY <1>5, <2>2, LineRead
  <2> QED
    BY <2>1, <2>3
<1> HIDE DEF S
<1>6. \A i \in 0..n : i \in S
  BY <1>1, <1>4, <1>5, Upwards
<1> QED
  BY <1>1, <1>3, <1>6 DEF S

(* What Parse returns is a usable configuration whose peers have keys.     *)
LEMMA ParseTypes ==
  ASSUME NEW t \in Seq(QuickLine), QuickParse(t) # Bad
  PROVE  KeyedFile(QuickParse(t)) /\ Usable(QuickParse(t))
<1> DEFINE end == Run(NothingRead, t)
<1>1. NothingRead \in QuickState
  <2>1. NewFile \in QuickFile
    BY DEF NewFile, QuickFile
  <2> QED
    BY <2>1 DEF NothingRead, QuickState
<1>2. end \in QuickState
  BY <1>1, RunTypes
<1>3. /\ QuickParse(t) = end.file /\ Usable(end.file)
      /\ \A n \in DOMAIN end.file.peers : end.file.peers[n].key # NoKey
  BY DEF QuickParse, Run
<1> HIDE DEF end
<1>4. end.file \in QuickFile /\ end.file.peers \in Seq(QuickPeer)
  BY <1>2 DEF QuickState, QuickFile
<1>5. \A n \in DOMAIN end.file.peers : end.file.peers[n] \in QuickPeer
  BY <1>4, LenProperties
<1>6. \A n \in DOMAIN end.file.peers : end.file.peers[n].key \in Key
  BY <1>3, <1>5 DEF QuickPeer
<1> QED
  BY <1>3, <1>4, <1>6 DEF KeyedFile

-----------------------------------------------------------------------------
(* What single lines do                                                    *)

(* A state of the loop in which nothing went wrong.                        *)
Got(sec, i, a, h, n, p) ==
  [ok |-> TRUE, section |-> sec,
   file |-> [iface |-> i, addresses |-> a, hooks |-> h, net |-> n, peers |-> p]]

(* What headers and blank lines do.                                        *)
LEMMA GotHeader ==
  ASSUME NEW i, NEW a, NEW h, NEW n, NEW p, NEW sec, NEW v
  PROVE  /\ ReadLine(Got(sec, i, a, h, n, p), L("interface", v)) = Got("interface", i, a, h, n, p)
         /\ ReadLine(Got(sec, i, a, h, n, p), L("blank", v)) = Got(sec, i, a, h, n, p)
         /\ ReadLine(Got(sec, i, a, h, n, p), L("peer", v)) = Got("peer", i, a, h, n, Append(p, NewPeer))
<1> USE DEF ReadLine, ParseLine1, L, Got, InterfaceFields, PeerFields
<1>1. ReadLine(Got(sec, i, a, h, n, p), L("interface", v)) = Got("interface", i, a, h, n, p)
  OBVIOUS
<1>2. ReadLine(Got(sec, i, a, h, n, p), L("blank", v)) = Got(sec, i, a, h, n, p)
  OBVIOUS
<1>3. ReadLine(Got(sec, i, a, h, n, p), L("peer", v)) = Got("peer", i, a, h, n, Append(p, NewPeer))
  OBVIOUS
<1> QED
  BY <1>1, <1>2, <1>3

(* What the fields of the interface do.                                    *)
LEMMA GotField ==
  ASSUME NEW i, NEW a, NEW h, NEW n, NEW p, NEW v, v # Bad
  PROVE  /\ ReadLine(Got("interface", i, a, h, n, p), L("iface", v)) = Got("interface", v, a, h, n, p)
         /\ ReadLine(Got("interface", i, a, h, n, p), L("address", v))
              = Got("interface", i, Append(a, v), h, n, p)
         /\ ReadLine(Got("interface", i, a, h, n, p), L("hook", v))
              = Got("interface", i, a, Append(h, v), n, p)
         /\ ReadLine(Got("interface", i, a, h, n, p), L("net", v)) = Got("interface", i, a, h, v, p)
<1> USE DEF ReadLine, ParseLine1, ParseInterface, Unreadable, L, Got, InterfaceFields, PeerFields
<1>1. ReadLine(Got("interface", i, a, h, n, p), L("iface", v)) = Got("interface", v, a, h, n, p)
  OBVIOUS
<1>2. ReadLine(Got("interface", i, a, h, n, p), L("address", v)) = Got("interface", i, Append(a, v), h, n, p)
  OBVIOUS
<1>3. ReadLine(Got("interface", i, a, h, n, p), L("hook", v)) = Got("interface", i, a, Append(h, v), n, p)
  OBVIOUS
<1>4. ReadLine(Got("interface", i, a, h, n, p), L("net", v)) = Got("interface", i, a, h, v, p)
  OBVIOUS
<1> QED
  BY <1>1, <1>2, <1>3, <1>4

(* A field of a peer changes the last peer.                                *)
LEMMA GotPeer ==
  ASSUME NEW i, NEW a, NEW h, NEW n, NEW X, NEW p \in Seq(X), NEW e, NEW l,
         l.kind \in PeerFields, ~Unreadable(l)
  PROVE  ReadLine(Got("peer", i, a, h, n, Append(p, e)), l)
           = Got("peer", i, a, h, n, Append(p, ParsePeer(e, l)))
<1> DEFINE q == Append(p, e)
           m == Len(q)
           s == Got("peer", i, a, h, n, q)
           x == ParsePeer(e, l)
<1>1. Len(p) \in Nat /\ p = [k \in 1..Len(p) |-> p[k]]
  BY LenProperties, SeqDef
<1>2. /\ q = [k \in 1..(Len(p) + 1) |-> IF k = Len(p) + 1 THEN e ELSE p[k]]
      /\ q[Len(p) + 1] = e /\ m = Len(p) + 1
  BY <1>1, AppendParts
<1>3. Append(p, x) = [k \in 1..(Len(p) + 1) |-> IF k = Len(p) + 1 THEN x ELSE p[k]]
  BY <1>1, AppendParts
<1>4. ReadLine(s, l) = [s EXCEPT !.file.peers[m] = ParsePeer(@, l)]
  BY DEF ReadLine, ParseLine1, Got, InterfaceFields, PeerFields
<1>5. ReadLine(s, l) = Got("peer", i, a, h, n, [q EXCEPT ![m] = ParsePeer(q[m], l)])
  <2> HIDE DEF q, m
  <2> QED
    BY <1>4 DEF Got
<1>6. [q EXCEPT ![m] = ParsePeer(q[m], l)] = Append(p, x)
  <2> HIDE DEF q, m, x
  <2>1. m \in 1..(Len(p) + 1) /\ q[m] = e
    BY <1>1, <1>2
  <2>2. [q EXCEPT ![m] = x] = Append(p, x)
    BY <1>1, <1>2, <1>3, <2>1
  <2> QED
    BY <2>1, <2>2 DEF x
<1> QED
  BY <1>5, <1>6

(* An optional line.                                                       *)
LEMMA RunIf ==
  ASSUME NEW b, NEW yes \in BOOLEAN, NEW l
  PROVE  Run(b, LineIf(yes, l)) = (IF yes THEN ReadLine(b, l) ELSE b) /\ Indexed(LineIf(yes, l))
<1>1. Indexed(<<>>)
  BY DEF Indexed
<1> QED
  BY <1>1, RunNone, RunOne, OneList DEF LineIf

-----------------------------------------------------------------------------
(* What Encode writes is what Parse reads                                  *)

(* The addresses or the hooks read so far are v.                           *)
ListRead(kind, i, a, h, n, p, v) ==
  Got("interface", i, IF kind = "address" THEN v ELSE a, IF kind = "hook" THEN v ELSE h, n, p)

(* The lines of a list are read to the list.                               *)
LEMMA RunEach ==
  ASSUME NEW kind \in {"address", "hook"}, NEW i, NEW a, NEW h, NEW n, NEW p, NEW v \in Seq(ListValue)
  PROVE  /\ Run(ListRead(kind, i, a, h, n, p, <<>>), Each(kind, v)) = ListRead(kind, i, a, h, n, p, v)
         /\ Indexed(Each(kind, v)) /\ Each(kind, v) \in Seq(QuickLine)
<1> DEFINE t == Each(kind, v)
           m == Len(v)
           Now(x) == ListRead(kind, i, a, h, n, p, x)
<1>1. m \in Nat /\ DOMAIN v = 1..m /\ \A k \in 1..m : v[k] \in ListValue
  BY LenProperties
<1>2. Indexed(t) /\ Len(t) = m /\ \A k \in 1..m : t[k] = L(kind, v[k])
  <2>1. t = [k \in 1..m |-> L(kind, v[k])]
    BY <1>1 DEF Each
  <2>2. \A k \in 1..m : t[k] = L(kind, v[k])
    BY <2>1
  <2>3. t = [k \in 1..m |-> t[k]]
    BY <2>1
  <2> HIDE DEF t, m
  <2>4. Indexed(t) /\ Len(t) = m
    BY <1>1, <2>3, ListIs
  <2> QED
    BY <2>2, <2>4
<1> HIDE DEF t
<1>3. PICK g : Through(g, Now(<<>>), t)
  BY <1>2, RunThrough
<1>4. g[0] = Now(<<>>) /\ g[m] = Run(Now(<<>>), t) /\ \A k \in 1..m : g[k] = ReadLine(g[k - 1], t[k])
  BY <1>2, <1>3 DEF Through
<1>5. ASSUME NEW x, NEW y, y # Bad
      PROVE  ReadLine(Now(x), L(kind, y)) = Now(Append(x, y))
  <2>1. CASE kind = "address"
    <3>1. ReadLine(Got("interface", i, x, h, n, p), L("address", y))
            = Got("interface", i, Append(x, y), h, n, p)
      BY <1>5, GotField
    <3> QED
      BY <2>1, <3>1 DEF ListRead
  <2>2. CASE kind = "hook"
    <3>1. ReadLine(Got("interface", i, a, x, n, p), L("hook", y))
            = Got("interface", i, a, Append(x, y), n, p)
      BY <1>5, GotField
    <3> QED
      BY <2>2, <3>1 DEF ListRead
  <2> QED
    BY <2>1, <2>2
<1> HIDE DEF Now
<1> DEFINE S == {k \in 0..m : g[k] = Now(SubSeq(v, 1, k))}
<1>6. 0 \in S
  <2>1. SubSeq(v, 1, 0) = <<>> /\ 0 \in 0..m
    BY <1>1
  <2> QED
    BY <1>4, <2>1
<1>7. ASSUME NEW k \in 0..m, k < m, k \in S PROVE k + 1 \in S
  <2>1. k + 1 \in 1..m /\ (k + 1) - 1 = k /\ k + 1 \in 0..m
    BY <1>1, <1>7
  <2>2. g[k + 1] = ReadLine(Now(SubSeq(v, 1, k)), L(kind, v[k + 1])) /\ v[k + 1] # Bad
    BY <1>1, <1>2, <1>4, <1>7, <2>1, ReadableValues
  <2>3. SubSeq(v, 1, k + 1) = Append(SubSeq(v, 1, k), v[k + 1])
    BY <1>7, Beginning
  <2>4. g[k + 1] = Now(SubSeq(v, 1, k + 1))
    BY <1>5, <2>2, <2>3
  <2> QED
    BY <2>1, <2>4
<1>8. m \in S
  <2> HIDE DEF S, m
  <2>1. \A k \in 0..m : k \in S
    BY <1>1, <1>6, <1>7, Upwards
  <2> QED
    BY <1>1, <2>1
<1>9. SubSeq(v, 1, m) = v
  BY <1>1
<1>10. t \in Seq(QuickLine)
  <2>1. \A x \in ListValue : L(kind, x) \in QuickLine
    BY DEF L, QuickLine
  <2>3. \A k \in 1..m : t[k] \in QuickLine
    BY <1>1, <1>2, <2>1
  <2>2. t \in Seq({t[k] : k \in 1..m}) /\ {t[k] : k \in 1..m} \subseteq QuickLine
    BY <1>2, <2>3, ListParts
  <2> QED
    BY ONLY <2>2, WiderSeq
<1> QED
  BY <1>2, <1>4, <1>8, <1>9, <1>10 DEF t, Now

(* What a line says that sets these addresses.                             *)
AsOps(v) == [n \in DOMAIN v |-> [ip |-> v[n], op |-> "set"]]

(* It says them, and no operation on them.                                 *)
LEMMA AsOpsParts ==
  ASSUME NEW v \in Seq(IP)
  PROVE  AsOps(v) \in Seq(IPOp) /\ IPsIn(AsOps(v)) = v /\ ~Incremental(AsOps(v)) /\ AsOps(v) # Bad
<1>1. /\ Len(v) \in Nat /\ DOMAIN v = 1..Len(v) /\ \A n \in 1..Len(v) : v[n] \in IP
      /\ v = [n \in 1..Len(v) |-> v[n]]
  BY LenProperties, SeqDef
<1>2. AsOps(v) \in [1..Len(v) -> IPOp]
  BY <1>1 DEF AsOps, IPOp
<1>3. AsOps(v) \in Seq(IPOp) /\ DOMAIN AsOps(v) = 1..Len(v)
  BY <1>1, <1>2, SeqDef
<1>4. \A n \in 1..Len(v) : AsOps(v)[n].ip = v[n] /\ AsOps(v)[n].op = "set"
  BY <1>1 DEF AsOps
<1>5. IPsIn(AsOps(v)) = v
  BY <1>1, <1>3, <1>4 DEF IPsIn
<1>6. ~Incremental(AsOps(v))
  BY <1>3, <1>4 DEF Incremental
<1>7. AsOps(v) # Bad
  BY <1>3, ReadableValues
<1> QED
  BY <1>3, <1>5, <1>6, <1>7

(* A peer of its parts.                                                    *)
Peer(k, s, ips) == [key |-> k, setting |-> s, ips |-> ips]

(* What Encode writes for a peer is read to the peer, behind those before. *)
LEMMA RunPeer ==
  ASSUME NEW sec, NEW i, NEW a, NEW h, NEW n, NEW X, NEW q \in Seq(X), NEW p \in QuickPeer, p.key \in Key
  PROVE  /\ Run(Got(sec, i, a, h, n, q), WritePeer(p)) = Got("peer", i, a, h, n, Append(q, p))
         /\ WritePeer(p) \in Seq(Line)
<1> DEFINE b == Got(sec, i, a, h, n, q)
           B(e) == Got("peer", i, a, h, n, Append(q, e))
           head == <<L("blank", Nil), L("peer", Nil), L("publickey", p.key)>>
           ips == LineIf(p.ips # <<>>, L("allowedips", AsOps(p.ips)))
           set == LineIf(p.setting # Unset, L("setting", p.setting))
<1>1. p.key # Bad /\ p.setting \in FileSetting /\ p.ips \in Seq(IP) /\ p = Peer(p.key, p.setting, p.ips)
  BY ReadableValues DEF QuickPeer, Peer
<1>2. WritePeer(p) = (head \o ips) \o set
  BY DEF WritePeer, AsOps
<1>3. /\ Indexed(head) /\ Len(head) = 3 /\ head[1] = L("blank", Nil)
      /\ head[2] = L("peer", Nil) /\ head[3] = L("publickey", p.key)
  BY DEF Indexed
<1>4. Run(b, head) = B(Peer(p.key, Unset, <<>>))
  <2> HIDE DEF head
  <2>1. PICK g : Through(g, b, head)
    BY <1>3, RunThrough
  <2>2. /\ g[0] = b /\ g[3] = Run(b, head)
        /\ g[1] = ReadLine(g[0], head[1]) /\ g[2] = ReadLine(g[1], head[2]) /\ g[3] = ReadLine(g[2], head[3])
    <3>1. \A j \in 1..3 : g[j] = ReadLine(g[j - 1], head[j])
      BY <1>3, <2>1 DEF Through
    <3> QED
      BY <1>3, <2>1, <3>1 DEF Through
  <2>3. g[1] = b
    BY <1>3, <2>2, GotHeader
  <2>4. g[2] = B(NewPeer)
    BY <1>3, <2>2, <2>3, GotHeader
  <2>5. g[3] = B(ParsePeer(NewPeer, head[3]))
    <3>1. head[3].kind \in PeerFields /\ ~Unreadable(head[3])
      BY <1>1, <1>3 DEF L, PeerFields, Unreadable
    <3> QED
      BY <2>2, <2>4, <3>1, GotPeer
  <2>6. ParsePeer(NewPeer, head[3]) = Peer(p.key, Unset, <<>>)
    BY <1>3 DEF ParsePeer, NewPeer, Peer, L
  <2> QED
    BY <2>2, <2>5, <2>6
<1>5. Run(B(Peer(p.key, Unset, <<>>)), ips) = B(Peer(p.key, Unset, p.ips)) /\ Indexed(ips)
  <2> DEFINE l == L("allowedips", AsOps(p.ips))
             e == Peer(p.key, Unset, <<>>)
  <2>1. Indexed(ips) /\ Run(B(e), ips) = IF p.ips # <<>> THEN ReadLine(B(e), l) ELSE B(e)
    BY RunIf
  <2>2. ~Unreadable(l) /\ l.kind \in PeerFields
    BY <1>1, AsOpsParts DEF L, Unreadable, PeerFields
  <2>3. ReadLine(B(e), l) = B(ParsePeer(e, l))
    BY <2>2, GotPeer
  <2>4. ParsePeer(e, l) = Peer(p.key, Unset, p.ips)
    <3>1. ParsePeer(e, l) = Peer(p.key, Unset, <<>> \o IPsIn(AsOps(p.ips)))
      BY DEF ParsePeer, Peer, L, IPsIn
    <3>2. <<>> \o IPsIn(AsOps(p.ips)) = p.ips
      BY <1>1, AsOpsParts, ConcatEmptySeq
    <3> QED
      BY <3>1, <3>2
  <2> QED
    BY <2>1, <2>3, <2>4
<1>6. Run(B(Peer(p.key, Unset, p.ips)), set) = B(p) /\ Indexed(set)
  <2> DEFINE l == L("setting", p.setting)
             e == Peer(p.key, Unset, p.ips)
  <2>1. Indexed(set) /\ Run(B(e), set) = IF p.setting # Unset THEN ReadLine(B(e), l) ELSE B(e)
    BY RunIf
  <2>2. CASE p.setting = Unset
    BY <1>1, <2>1, <2>2
  <2>3. CASE p.setting # Unset
    <3>1. p.setting # Bad /\ p.setting # Host
      BY <1>1, <2>3, ReadableValues DEF FileSetting
    <3>2. ~Unreadable(l) /\ l.kind \in PeerFields
      BY <3>1 DEF L, Unreadable, PeerFields
    <3>3. ReadLine(B(e), l) = B(ParsePeer(e, l))
      BY <3>2, GotPeer
    <3>4. ParsePeer(e, l) = Peer(p.key, p.setting, p.ips)
      BY <3>1 DEF ParsePeer, Peer, L, Address
    <3> QED
      BY <1>1, <2>1, <2>3, <3>3, <3>4
  <2> QED
    BY <2>2, <2>3
<1>7. Indexed(head \o ips)
  <2> HIDE DEF head, ips
  <2> QED
    BY <1>3, <1>5, TwoLists
<1>8. Run(b, WritePeer(p)) = B(p)
  <2> HIDE DEF head, ips, set, b, B
  <2>1. Run(b, head \o ips) = Run(Run(b, head), ips)
    BY <1>3, <1>5, RunBoth
  <2>2. Run(b, (head \o ips) \o set) = Run(Run(b, head \o ips), set)
    BY <1>6, <1>7, RunBoth
  <2> QED
    BY <1>2, <1>4, <1>5, <1>6, <2>1, <2>2
<1>9. WritePeer(p) \in Seq(Line)
  <2>1. /\ L("blank", Nil) \in Line /\ L("peer", Nil) \in Line
        /\ L("publickey", p.key) \in Line /\ L("allowedips", AsOps(p.ips)) \in Line
    BY <1>1, AsOpsParts DEF L, Line
  <2>2. p.setting # Unset => L("setting", p.setting) \in Line
    BY <1>1 DEF L, Line, FileSetting
  <2>3. head \in Seq(Line) /\ ips \in Seq(Line) /\ set \in Seq(Line)
    BY <2>1, <2>2 DEF LineIf
  <2>4. head \o ips \in Seq(Line)
    BY ONLY <2>3, ConcatProperties
  <2>5. (head \o ips) \o set \in Seq(Line)
    BY ONLY <2>3, <2>4, ConcatProperties
  <2> QED
    BY <1>2, <2>5
<1> QED
  BY <1>8, <1>9

(* What Encode writes for each peer.                                       *)
Blocks(s) == [n \in DOMAIN s |-> WritePeer(s[n])]

(* And so for all peers.                                                   *)
LEMMA RunPeers ==
  ASSUME NEW start, NEW i, NEW a, NEW h, NEW n, NEW s \in Seq(QuickPeer),
         \A m \in DOMAIN s : s[m].key \in Key
  PROVE  /\ \E sec : Run(Got(start, i, a, h, n, <<>>), FlattenSeq(Blocks(s))) = Got(sec, i, a, h, n, s)
         /\ FlattenSeq(Blocks(s)) \in Seq(Line)
<1> DEFINE b == Got(start, i, a, h, n, <<>>)
           m == Len(s)
           w == Blocks(s)
           X == {x \in Seq(Line) : TRUE}
           First(k) == FlattenSeq(SubSeq(w, 1, k))
           Is(k) == \E sec : Run(b, First(k)) = Got(sec, i, a, h, n, SubSeq(s, 1, k))
<1>1. m \in Nat /\ DOMAIN s = 1..m /\ \A k \in 1..m : s[k] \in QuickPeer /\ s[k].key \in Key
  BY LenProperties
<1>2. \A k \in 1..m : WritePeer(s[k]) \in X
  <2>1. <<>> \in Seq({})
    OBVIOUS
  <2> QED
    BY <1>1, <2>1, RunPeer
<1>3. w \in Seq(X) /\ Len(w) = m /\ \A k \in 1..m : w[k] = WritePeer(s[k])
  <2>1. w = [k \in 1..m |-> WritePeer(s[k])]
    BY <1>1 DEF Blocks
  <2>2. w \in [1..m -> X]
    BY <1>2, <2>1
  <2> HIDE DEF w, X
  <2>3. w \in Seq(X) /\ Len(w) = m
    BY <1>1, <2>2, SeqDef, LenProperties
  <2> QED
    BY <2>1, <2>3
<1> HIDE DEF w
<1>4. ASSUME NEW k \in 0..m
      PROVE  First(k) \in Seq(Line)
  <2> DEFINE u == SubSeq(w, 1, k)
  <2>1. u \in Seq(X) /\ Len(u) = k /\ k \in Nat
    BY <1>1, <1>3, Beginning
  <2>2. u = [j \in 1..k |-> u[j]] /\ \A j \in 1..k : u[j] \in Seq(Line)
    <3> HIDE DEF u
    <3> QED
      BY <2>1, LenProperties, SeqDef
  <2> HIDE DEF u
  <2>3. FlattenSeq(u) \in Seq(Line)
    BY <2>1, <2>2, FlattenList
  <2> QED
    BY <2>3 DEF u
<1> DEFINE S == {k \in 0..m : Is(k)}
<1>5. 0 \in S
  <2>1. SubSeq(w, 1, 0) = <<>> /\ SubSeq(s, 1, 0) = <<>> /\ 0 \in 0..m
    BY <1>1
  <2>2. FlattenSeq(<<>>) = <<>>
    BY DEF FlattenSeq
  <2>3. Run(b, First(0)) = b
    BY <2>1, <2>2, RunNone
  <2>4. Is(0)
    BY <2>1, <2>3
  <2> QED
    BY <2>1, <2>4
<1>6. ASSUME NEW k \in 0..m, k < m, k \in S PROVE k + 1 \in S
  <2> DEFINE u == SubSeq(w, 1, k)
             q == SubSeq(s, 1, k)
             p == s[k + 1]
  <2>1. k + 1 \in 1..m /\ k + 1 \in 0..m /\ p \in QuickPeer /\ p.key \in Key
    BY <1>1, <1>6
  <2>2. /\ u \in Seq(X) /\ SubSeq(w, 1, k + 1) = Append(u, w[k + 1])
        /\ w[k + 1] \in X /\ w[k + 1] = WritePeer(p)
    BY <1>3, <1>6, <2>1, Beginning
  <2>3. q \in Seq(QuickPeer) /\ SubSeq(s, 1, k + 1) = Append(q, p)
    BY <1>6, Beginning
  <2>4. PICK sec : Run(b, FlattenSeq(u)) = Got(sec, i, a, h, n, q)
    BY <1>6
  <2>5. FlattenSeq(u) \in Seq(Line) /\ WritePeer(p) \in Seq(Line)
    BY <1>4, <2>2
  <2> HIDE DEF u, q, p, b, X
  <2>6. Indexed(FlattenSeq(u)) /\ Indexed(WritePeer(p))
    BY <2>5, LenProperties, SeqDef DEF Indexed
  <2>7. Run(Got(sec, i, a, h, n, q), WritePeer(p)) = Got("peer", i, a, h, n, Append(q, p))
    BY <2>1, <2>3, RunPeer
  <2>8. First(k + 1) = IF u = <<>> THEN WritePeer(p) ELSE FlattenSeq(u) \o WritePeer(p)
    BY <2>2, FlattenMore
  <2>9. First(k + 1) = FlattenSeq(u) \o WritePeer(p)
    <3>1. CASE u = <<>>
      <4>1. FlattenSeq(u) = <<>>
        BY <3>1 DEF FlattenSeq
      <4>2. <<>> \o WritePeer(p) = WritePeer(p)
        BY <2>5, ConcatEmptySeq
      <4> QED
        BY <2>8, <3>1, <4>1, <4>2
    <3> QED
      BY <2>8, <3>1
  <2>10. Run(b, First(k + 1)) = Got("peer", i, a, h, n, Append(q, p))
    <3>1. Run(b, FlattenSeq(u) \o WritePeer(p)) = Run(Run(b, FlattenSeq(u)), WritePeer(p))
      BY <2>6, RunBoth
    <3> HIDE DEF First
    <3> QED
      BY <2>4, <2>7, <2>9, <3>1
  <2>11. Is(k + 1)
    BY <2>3, <2>10 DEF p
  <2> QED
    BY <2>1, <2>11
<1>7. Is(m) /\ m \in 0..m
  <2> HIDE DEF S, m
  <2>1. \A k \in 0..m : k \in S
    BY <1>1, <1>5, <1>6, Upwards
  <2> QED
    BY <1>1, <2>1 DEF S
<1>8. SubSeq(s, 1, m) = s /\ SubSeq(w, 1, m) = w
  BY <1>1, <1>3
<1>9. First(m) \in Seq(Line)
  BY <1>4, <1>7
<1> QED
  BY <1>7, <1>8, <1>9 DEF w

(* What Encode writes is read to what it was given, if the file can be     *)
(* used: Parse undoes Encode.                                              *)
LEMMA EncodeParse ==
  ASSUME NEW c, KeyedFile(c)
  PROVE  /\ QuickParse(QuickEncode(c)) = IF Usable(c) THEN c ELSE Bad
         /\ QuickEncode(c) \in Seq(QuickLine)
<1> DEFINE one == <<L("interface", Nil)>>
           two == WriteInterfaceCrypto(c)
           three == Each("address", c.addresses)
           four == LineIf(c.net # Zero, L("net", c.net))
           five == Each("hook", c.hooks)
           six == WritePeers(c)
           b == NothingRead
<1>1. /\ c.iface \in Setting \cup {Default, Unset}
      /\ c.addresses \in Seq(ListValue) /\ c.hooks \in Seq(ListValue)
      /\ c.net \in NetValue \cup {Zero} /\ c.peers \in Seq(QuickPeer)
      /\ \A m \in DOMAIN c.peers : c.peers[m].key \in Key
  BY DEF KeyedFile, QuickFile
<1>2. c = [iface |-> c.iface, addresses |-> c.addresses, hooks |-> c.hooks, net |-> c.net, peers |-> c.peers]
  BY DEF KeyedFile, QuickFile
<1>3. QuickEncode(c) = (((((one \o two) \o three) \o four) \o five) \o six)
  BY DEF QuickEncode
<1>4. one \in Seq(QuickLine) /\ Run(b, one) = Got("interface", Unset, <<>>, <<>>, Zero, <<>>)
  <2>1. PICK none : b = Got(none, Unset, <<>>, <<>>, Zero, <<>>)
    BY DEF NothingRead, NewFile, Got
  <2>2. L("interface", Nil) \in QuickLine
    BY DEF L, QuickLine, Line
  <2>3. Run(b, one) = ReadLine(b, L("interface", Nil))
    BY RunOne
  <2>4. ReadLine(b, L("interface", Nil)) = Got("interface", Unset, <<>>, <<>>, Zero, <<>>)
    <3> HIDE DEF b
    <3> QED
      BY <2>1, GotHeader
  <2>5. one \in Seq(QuickLine)
    BY <2>2
  <2> QED
    BY <2>3, <2>4, <2>5
<1>5. /\ two \in Seq(QuickLine)
      /\ Run(Got("interface", Unset, <<>>, <<>>, Zero, <<>>), two)
           = Got("interface", c.iface, <<>>, <<>>, Zero, <<>>)
  <2> DEFINE l == L("iface", c.iface)
             g == Got("interface", Unset, <<>>, <<>>, Zero, <<>>)
  <2>1. c.iface # Unset => c.iface # Bad /\ l \in QuickLine
    BY <1>1, ReadableValues DEF L, QuickLine, Line
  <2>2. Run(g, two) = IF c.iface # Unset THEN ReadLine(g, l) ELSE g
    BY RunIf DEF WriteInterfaceCrypto
  <2>3. two \in Seq(QuickLine)
    BY <2>1 DEF WriteInterfaceCrypto, LineIf
  <2>4. c.iface # Unset => ReadLine(g, l) = Got("interface", c.iface, <<>>, <<>>, Zero, <<>>)
    BY <2>1, GotField
  <2> QED
    BY <2>2, <2>3, <2>4
<1>6. /\ three \in Seq(QuickLine)
      /\ Run(Got("interface", c.iface, <<>>, <<>>, Zero, <<>>), three)
           = Got("interface", c.iface, c.addresses, <<>>, Zero, <<>>)
  BY <1>1, RunEach DEF ListRead
<1>7. /\ four \in Seq(QuickLine)
      /\ Run(Got("interface", c.iface, c.addresses, <<>>, Zero, <<>>), four)
           = Got("interface", c.iface, c.addresses, <<>>, c.net, <<>>)
  <2> DEFINE l == L("net", c.net)
             g == Got("interface", c.iface, c.addresses, <<>>, Zero, <<>>)
  <2>1. c.net # Bad /\ l \in QuickLine
    BY <1>1, ReadableValues DEF L, QuickLine, Line
  <2>2. Run(g, four) = IF c.net # Zero THEN ReadLine(g, l) ELSE g
    BY RunIf
  <2>3. four \in Seq(QuickLine)
    BY <2>1 DEF LineIf
  <2>4. ReadLine(g, l) = Got("interface", c.iface, c.addresses, <<>>, c.net, <<>>)
    BY <2>1, GotField
  <2> QED
    BY <2>2, <2>3, <2>4
<1>8. /\ five \in Seq(QuickLine)
      /\ Run(Got("interface", c.iface, c.addresses, <<>>, c.net, <<>>), five)
           = Got("interface", c.iface, c.addresses, c.hooks, c.net, <<>>)
  BY <1>1, RunEach DEF ListRead
<1>9. six = FlattenSeq(Blocks(c.peers))
  BY DEF WritePeers, Blocks
<1>10. PICK sec : Run(Got("interface", c.iface, c.addresses, c.hooks, c.net, <<>>), six)
                    = Got(sec, c.iface, c.addresses, c.hooks, c.net, c.peers)
  <2>1. \E sec : Run(Got("interface", c.iface, c.addresses, c.hooks, c.net, <<>>), FlattenSeq(Blocks(c.peers)))
                  = Got(sec, c.iface, c.addresses, c.hooks, c.net, c.peers)
    <3> DEFINE s == c.peers
    <3>1. s \in Seq(QuickPeer) /\ \A m \in DOMAIN s : s[m].key \in Key
      BY <1>1
    <3> HIDE DEF s
    <3>2. \E sec : Run(Got("interface", c.iface, c.addresses, c.hooks, c.net, <<>>), FlattenSeq(Blocks(s)))
                    = Got(sec, c.iface, c.addresses, c.hooks, c.net, s)
      BY <3>1, RunPeers
    <3> QED
      BY <3>2 DEF s
  <2> HIDE DEF six
  <2> QED
    BY <1>9, <2>1
<1>11. six \in Seq(QuickLine)
  <2>1. FlattenSeq(Blocks(c.peers)) \in Seq(Line)
    BY <1>1, RunPeers
  <2>2. Line \subseteq QuickLine
    BY DEF QuickLine
  <2>3. FlattenSeq(Blocks(c.peers)) \in Seq(QuickLine)
    BY ONLY <2>1, <2>2, WiderSeq
  <2> QED
    BY <1>9, <2>3
<1> HIDE DEF one, two, three, four, five, six, b
<1>12. ASSUME NEW s \in Seq(QuickLine), NEW t \in Seq(QuickLine)
       PROVE  s \o t \in Seq(QuickLine) /\ Run(b, s \o t) = Run(Run(b, s), t)
  <2>1. s \o t \in Seq(QuickLine)
    BY ConcatProperties
  <2>2. Indexed(s) /\ Indexed(t)
    BY LenProperties, SeqDef DEF Indexed
  <2> QED
    BY <2>1, <2>2, RunBoth
<1> DEFINE t2 == one \o two
           t3 == t2 \o three
           t4 == t3 \o four
           t5 == t4 \o five
           t6 == t5 \o six
<1>13. t2 \in Seq(QuickLine) /\ Run(b, t2) = Got("interface", c.iface, <<>>, <<>>, Zero, <<>>)
  BY <1>4, <1>5, <1>12
<1> HIDE DEF t2
<1>14. t3 \in Seq(QuickLine) /\ Run(b, t3) = Got("interface", c.iface, c.addresses, <<>>, Zero, <<>>)
  BY <1>6, <1>12, <1>13
<1> HIDE DEF t3
<1>15. t4 \in Seq(QuickLine) /\ Run(b, t4) = Got("interface", c.iface, c.addresses, <<>>, c.net, <<>>)
  BY <1>7, <1>12, <1>14
<1> HIDE DEF t4
<1>16. t5 \in Seq(QuickLine) /\ Run(b, t5) = Got("interface", c.iface, c.addresses, c.hooks, c.net, <<>>)
  BY <1>8, <1>12, <1>15
<1> HIDE DEF t5
<1>17. t6 \in Seq(QuickLine) /\ Run(b, t6) = Got(sec, c.iface, c.addresses, c.hooks, c.net, c.peers)
  BY <1>10, <1>11, <1>12, <1>16
<1>18. QuickEncode(c) = t6
  BY <1>3 DEF t2, t3, t4, t5
<1> HIDE DEF t6
<1>19. Run(b, t6).ok /\ Run(b, t6).file = c
  BY <1>2, <1>17 DEF Got
<1>20. \A m \in DOMAIN c.peers : c.peers[m].key # NoKey
  BY <1>1, ReadableValues
<1> DEFINE end == Run(b, t6)
<1>21. QuickParse(t6)
         = IF /\ end.ok /\ Usable(end.file)
              /\ \A m \in DOMAIN end.file.peers : end.file.peers[m].key # NoKey
             THEN end.file ELSE Bad
  BY DEF QuickParse, Run, b
<1> HIDE DEF end
<1>22. QuickParse(t6) = IF Usable(c) THEN c ELSE Bad
  BY <1>19, <1>20, <1>21 DEF end
<1> QED
  BY <1>17, <1>18, <1>22

-----------------------------------------------------------------------------
(* What a file means to wg-quick and to wg                                 *)
(* Two parsers of two packages go through the same lines; after each of    *)
(* them what they have read agrees (Agrees, AgreesOn).                     *)

(* The places of the lines that wg knows.                                  *)
KnownLines(t) == {n \in DOMAIN t : t[n].kind \notin OwnFields}

(* One more line is one of wg's or none.                                   *)
LEMMA WgLinesMore ==
  ASSUME NEW X, NEW t \in Seq(X), NEW l \in X
  PROVE  /\ l.kind \in OwnFields => WgLines(Append(t, l)) = WgLines(t)
         /\ l.kind \notin OwnFields => WgLines(Append(t, l)) = Append(WgLines(t), l)
<1> DEFINE u == Append(t, l)
           n == Len(t) + 1
           S == KnownLines(t)
           o == InOrder(S)
           Of(x, r) == [i \in DOMAIN r |-> x[r[i]]]
<1>1. /\ Len(t) \in Nat /\ DOMAIN t = 1..Len(t) /\ DOMAIN u = 1..n
      /\ u[n] = l /\ \A m \in 1..Len(t) : u[m] = t[m]
  BY TextMore
<1>2. S \in SUBSET (1..Len(t)) /\ n \in 1..n /\ 1..n = 1..Len(t) \cup {n} /\ n \notin 1..Len(t)
  BY <1>1 DEF KnownLines
<1>3. /\ l.kind \in OwnFields => KnownLines(u) = S
      /\ l.kind \notin OwnFields => KnownLines(u) = S \cup {n}
  <2> HIDE DEF u, n
  <2> QED
    BY <1>1, <1>2 DEF KnownLines
<1>4. o \in Seq(S)
  BY <1>1, <1>2, InOrderParts
<1>5. PICK N : N = Len(o)
  OBVIOUS
<1>6. N \in Nat /\ DOMAIN o = 1..N /\ (\A i \in 1..N : o[i] \in S) /\ o = [i \in 1..N |-> o[i]]
  <2> HIDE DEF o, S
  <2> QED
    BY <1>4, <1>5, LenProperties, SeqDef
<1>7. WgLines(t) = Of(t, o) /\ WgLines(u) = Of(u, InOrder(KnownLines(u)))
  BY Zenon DEF WgLines, KnownLines
<1>8. InOrder(S \cup {n}) = Append(o, n)
  BY <1>1, <1>2, InOrderMore
<1> HIDE DEF u, S, o
<1>9. \A i \in 1..N : u[o[i]] = t[o[i]]
  BY <1>1, <1>2, <1>6
<1>10. CASE l.kind \in OwnFields
  <2>1. Of(u, o) = Of(t, o)
    BY <1>6, <1>9
  <2> QED
    BY <1>3, <1>7, <1>10, <2>1 DEF o, u
<1>11. CASE l.kind \notin OwnFields
  <2> DEFINE r == Append(o, n)
             a == Of(t, o)
  <2>1. r = [i \in 1..(N + 1) |-> IF i = N + 1 THEN n ELSE o[i]]
    BY <1>6, AppendParts
  <2>2. a = [i \in 1..N |-> a[i]] /\ \A i \in 1..N : a[i] = t[o[i]]
    BY <1>6
  <2> HIDE DEF a
  <2>3. Append(a, l) = [i \in 1..(N + 1) |-> IF i = N + 1 THEN l ELSE a[i]]
    BY <1>6, <2>2, AppendParts
  <2> HIDE DEF r, n
  <2>4. DOMAIN r = 1..(N + 1) /\ r[N + 1] = n /\ \A i \in 1..N : r[i] = o[i]
    BY <1>6, <2>1
  <2>5. \A i \in 1..(N + 1) : u[r[i]] = IF i = N + 1 THEN l ELSE a[i]
    <3>1. \A i \in 1..(N + 1) : i # N + 1 => i \in 1..N
      BY <1>6
    <3> QED
      BY <1>1, <1>9, <2>2, <2>4, <3>1
  <2>6. Of(u, r) = Append(a, l)
    BY <2>3, <2>4, <2>5
  <2>7. InOrder(KnownLines(u)) = r
    BY <1>3, <1>8, <1>11, Zenon DEF r
  <2> HIDE DEF Of
  <2>8. WgLines(u) = Append(a, l) /\ WgLines(t) = a
    BY <1>7, <2>6, <2>7, Zenon DEF a
  <2> QED
    BY <1>11, <2>8, Zenon DEF u
<1> QED
  BY <1>10, <1>11 DEF u

(* Without lines there are none of wg's.                                   *)
LEMMA NoWgLines == WgLines(<<>>) = <<>>
<1>1. KnownLines(<<>>) = {}
  BY DEF KnownLines
<1>2. InOrder({}) = <<>>
  BY InOrderFolds
<1>3. WgLines(<<>>) = [i \in DOMAIN <<>> |-> <<>>[<<>>[i]]]
  BY <1>1, <1>2, Zenon DEF WgLines, KnownLines
<1> QED
  BY <1>3

(* A text of wg's lines alone stays as it is.                              *)
LEMMA WgLinesAll ==
  ASSUME NEW t \in Seq(Line)
  PROVE  WgLines(t) = t
<1> DEFINE n == Len(t)
           S == {i \in 0..n : WgLines(SubSeq(t, 1, i)) = SubSeq(t, 1, i)}
<1>1. n \in Nat /\ \A i \in 1..n : t[i] \in Line
  BY LenProperties
<1>2. 0 \in S
  <2>1. SubSeq(t, 1, 0) = <<>> /\ 0 \in 0..n
    BY <1>1
  <2> QED
    BY <2>1, NoWgLines
<1>3. ASSUME NEW i \in 0..n, i < n, i \in S PROVE i + 1 \in S
  <2> DEFINE u == SubSeq(t, 1, i)
             l == t[i + 1]
  <2>1. u \in Seq(Line) /\ l \in Line /\ SubSeq(t, 1, i + 1) = Append(u, l) /\ i + 1 \in 0..n
    BY <1>1, <1>3, Beginning
  <2>2. l.kind \notin OwnFields
    BY <2>1 DEF Line, OwnFields
  <2>3. WgLines(u) = u
    BY <1>3
  <2> HIDE DEF u, l
  <2>4. WgLines(Append(u, l)) = Append(u, l)
    BY <2>1, <2>2, <2>3, WgLinesMore
  <2> QED
    BY <2>1, <2>4
<1>4. n \in S
  <2> HIDE DEF S, n
  <2>1. \A i \in 0..n : i \in S
    BY <1>1, <1>2, <1>3, Upwards
  <2> QED
    BY <1>1, <2>1
<1>5. SubSeq(t, 1, n) = t
  BY <1>1
<1> QED
  BY <1>4, <1>5

(* What wg makes of a peer: its name beside it, its addresses as           *)
(* operations.                                                             *)
EntryOf(no, none, yes, p, name, ops) == Fields(no, none, p.key, name, p.setting, ops, yes)
(* To the device the peer and the entry are the same.                      *)
Alike(p, e) ==
  \E name, ops : /\ ops \in Seq(IPOp) /\ IPsIn(ops) = p.ips /\ ~Incremental(ops)
                 /\ e = EntryOf(FALSE, <<>>, TRUE, p, name, ops)

(* So are a new peer and a new entry ...                                   *)
LEMMA AlikeNew == Alike(NewPeer, NewEntry)
<1>1. PICK none, no, yes : none = <<>> /\ no = FALSE /\ yes = TRUE
  OBVIOUS
<1>2. NewEntry = EntryOf(no, none, yes, NewPeer, Unset, none)
  BY <1>1 DEF NewEntry, EntryOf, NewPeer, Fields
<1>3. none \in Seq(IPOp) /\ IPsIn(none) = NewPeer.ips /\ ~Incremental(none)
  BY <1>1 DEF IPsIn, NewPeer, Incremental
<1> QED
  BY <1>1, <1>2, <1>3 DEF Alike

(* ... still after a name, which is a comment to wg-quick ...              *)
LEMMA AlikeName ==
  ASSUME NEW p, NEW e, Alike(p, e), NEW l, l.kind = "name"
  PROVE  Alike(p, Edited(e, l))
<1>1. PICK none, no, yes : none = <<>> /\ no = FALSE /\ yes = TRUE
  OBVIOUS
<1>2. PICK name, ops : /\ ops \in Seq(IPOp) /\ IPsIn(ops) = p.ips /\ ~Incremental(ops)
                       /\ e = EntryOf(no, none, yes, p, name, ops)
  BY <1>1 DEF Alike
<1>3. Edited(e, l) = [e EXCEPT !.name = l.value]
  BY DEF Edited
<1>4. [e EXCEPT !.name = l.value] = EntryOf(no, none, yes, p, l.value, ops)
  BY <1>2 DEF EntryOf, Fields
<1>5. Edited(e, l) = EntryOf(no, none, yes, p, l.value, ops)
  BY <1>3, <1>4
<1> QED
  BY <1>1, <1>2, <1>5, Zenon DEF Alike

(* The addresses of two lists one after the other.                         *)
LEMMA IPsInBoth ==
  ASSUME NEW v \in Seq(IPOp), NEW w \in Seq(IPOp)
  PROVE  /\ v \o w \in Seq(IPOp) /\ IPsIn(v \o w) = IPsIn(v) \o IPsIn(w)
         /\ ~Incremental(v) /\ ~Incremental(w) => ~Incremental(v \o w)
<1> DEFINE u == v \o w
           m == Len(v)
           n == Len(w)
           a == IPsIn(v)
           b == IPsIn(w)
           c == a \o b
<1>1. /\ u \in Seq(IPOp) /\ Len(u) = m + n /\ m \in Nat /\ n \in Nat
      /\ (\A i \in 1..m : u[i] = v[i]) /\ (\A i \in 1..n : u[m + i] = w[i])
      /\ DOMAIN v = 1..m /\ DOMAIN w = 1..n
  BY ConcatParts, LenProperties
<1>2. a \in Seq(IP) /\ b \in Seq(IP)
  BY IPsInTypes
<1>3. /\ Len(a) = m /\ Len(b) = n
      /\ (\A i \in 1..m : a[i] = v[i].ip) /\ (\A i \in 1..n : b[i] = w[i].ip)
  <2>1. a = [i \in 1..m |-> v[i].ip] /\ b = [i \in 1..n |-> w[i].ip]
    BY <1>1 DEF IPsIn
  <2> HIDE DEF a, b, m, n
  <2>2. Len(a) = m /\ Len(b) = n
    BY <1>1, <1>2, <2>1, LenProperties
  <2> QED
    BY <2>1, <2>2
<1> HIDE DEF u, a, b, m, n
<1>4. /\ c \in Seq(IP) /\ Len(c) = m + n
      /\ (\A i \in 1..m : c[i] = a[i]) /\ (\A i \in 1..n : c[m + i] = b[i])
  <2>1. /\ c \in Seq(IP) /\ Len(c) = Len(a) + Len(b)
        /\ (\A i \in 1..Len(a) : c[i] = a[i]) /\ (\A i \in 1..Len(b) : c[Len(a) + i] = b[i])
    BY <1>2, ConcatParts
  <2> HIDE DEF c
  <2> QED
    BY <1>3, <2>1
<1> HIDE DEF c
<1>5. DOMAIN u = 1..(m + n) /\ c = [i \in 1..(m + n) |-> c[i]]
  BY <1>1, <1>4, LenProperties, SeqDef
<1>6. ASSUME NEW i \in 1..(m + n) PROVE i \in 1..m \/ (i - m \in 1..n /\ m + (i - m) = i)
  BY <1>1
<1>7. ASSUME NEW i \in 1..(m + n) PROVE u[i].ip = c[i]
  <2>1. CASE i \in 1..m
    BY <1>1, <1>3, <1>4, <2>1
  <2>2. CASE i - m \in 1..n /\ m + (i - m) = i
    <3> DEFINE j == i - m
    <3>1. u[m + j] = w[j] /\ c[m + j] = b[j] /\ b[j] = w[j].ip
      BY <1>1, <1>3, <1>4, <2>2
    <3> QED
      BY <2>2, <3>1
  <2> QED
    BY <1>6, <2>1, <2>2
<1>8. IPsIn(u) = c
  BY <1>5, <1>7 DEF IPsIn
<1>9. ASSUME ~Incremental(v), ~Incremental(w) PROVE ~Incremental(u)
  <2>1. (\A i \in 1..m : v[i].op = "set") /\ \A i \in 1..n : w[i].op = "set"
    BY <1>1, <1>9 DEF Incremental
  <2>2. ASSUME NEW i \in 1..(m + n) PROVE u[i].op = "set"
    <3>1. CASE i \in 1..m
      BY <1>1, <2>1, <3>1
    <3>2. CASE i - m \in 1..n /\ m + (i - m) = i
      <4>1. u[m + (i - m)] = w[i - m]
        BY <1>1, <3>2
      <4> QED
        BY <2>1, <3>2, <4>1
    <3> QED
      BY <1>6, <3>1, <3>2
  <2> QED
    BY <1>5, <2>2 DEF Incremental
<1> QED
  BY <1>1, <1>8, <1>9 DEF u, c, a, b

(* ... and after any field that wg-quick reads.                            *)
LEMMA AlikeField ==
  ASSUME NEW p \in QuickPeer, NEW e, Alike(p, e),
         NEW l \in QuickLine, l.kind \in PeerFields, ~Unreadable(l)
  PROVE  Alike(ParsePeer(p, l), Edited(e, l))
<1>1. PICK none, no, yes : none = <<>> /\ no = FALSE /\ yes = TRUE
  OBVIOUS
<1>2. PICK name, ops : /\ ops \in Seq(IPOp) /\ IPsIn(ops) = p.ips /\ ~Incremental(ops)
                       /\ e = EntryOf(no, none, yes, p, name, ops)
  BY <1>1 DEF Alike
<1>0. p = Peer(p.key, p.setting, p.ips)
  BY DEF QuickPeer, Peer
<1>3. CASE l.kind = "publickey"
  <2> DEFINE q == ParsePeer(p, l)
  <2>1. q = Peer(l.value, p.setting, p.ips)
    BY <1>0, <1>3 DEF ParsePeer, Peer
  <2>2. Edited(e, l) = [e EXCEPT !.key = l.value]
    BY <1>3 DEF Edited
  <2>3. [e EXCEPT !.key = l.value] = Fields(no, none, l.value, name, p.setting, ops, yes)
    BY <1>2 DEF EntryOf, Fields
  <2> HIDE DEF q
  <2>4. q.key = l.value /\ q.setting = p.setting /\ q.ips = p.ips
    BY <2>1 DEF Peer
  <2>5. Edited(e, l) = EntryOf(no, none, yes, q, name, ops)
    BY <2>2, <2>3, <2>4 DEF EntryOf
  <2>6. Alike(q, Edited(e, l))
    BY <1>1, <1>2, <2>4, <2>5, Zenon DEF Alike
  <2> QED
    BY <2>6 DEF q
<1>4. CASE l.kind = "setting"
  <2> DEFINE q == ParsePeer(p, l)
             v == Address(l.value)
  <2>1. q = Peer(p.key, v, p.ips)
    <3>1. q = [p EXCEPT !.setting = v]
      BY <1>4 DEF ParsePeer
    <3> HIDE DEF v, q
    <3> QED
      BY <1>0, <3>1 DEF Peer
  <2>2. Edited(e, l) = [e EXCEPT !.setting = v]
    BY <1>4 DEF Edited
  <2> HIDE DEF v
  <2>3. [e EXCEPT !.setting = v] = Fields(no, none, p.key, name, v, ops, yes)
    BY <1>2 DEF EntryOf, Fields
  <2> HIDE DEF q
  <2>4. q.key = p.key /\ q.setting = v /\ q.ips = p.ips
    BY <2>1 DEF Peer
  <2>5. Edited(e, l) = EntryOf(no, none, yes, q, name, ops)
    BY <2>2, <2>3, <2>4 DEF EntryOf
  <2>6. Alike(q, Edited(e, l))
    BY <1>1, <1>2, <2>4, <2>5, Zenon DEF Alike
  <2> QED
    BY <2>6 DEF q
<1>5. CASE l.kind = "allowedips"
  <2> DEFINE q == ParsePeer(p, l)
             v == l.value
             x == ops \o v
             y == ~Incremental(v)
  <2>1. v \in Seq(IPOp) /\ ~Incremental(v)
    BY <1>5, LineParts DEF Unreadable
  <2>2. x \in Seq(IPOp) /\ IPsIn(x) = IPsIn(ops) \o IPsIn(v) /\ ~Incremental(x)
    BY <1>2, <2>1, IPsInBoth
  <2>3. q = Peer(p.key, p.setting, p.ips \o IPsIn(v))
    <3>1. q = [p EXCEPT !.ips = p.ips \o IPsIn(v)]
      BY <1>5 DEF ParsePeer, IPsIn
    <3> DEFINE z == p.ips \o IPsIn(v)
    <3> HIDE DEF z, q
    <3>2. q = Peer(p.key, p.setting, z)
      BY <1>0, <3>1 DEF Peer, z
    <3> QED
      BY <3>2 DEF z
  <2>4. Edited(e, l) = [e EXCEPT !.ops = e.ops \o v, !.replaceIPs = y]
    BY <1>5, Zenon DEF Edited
  <2>5. e.ops = ops
    BY <1>2 DEF EntryOf, Fields
  <2>6. y = yes
    BY <1>1, <2>1
  <2> HIDE DEF x, y, v
  <2>7. Edited(e, l) = [[e EXCEPT !.ops = x] EXCEPT !.replaceIPs = yes]
    <3>1. Edited(e, l) = [e EXCEPT !.ops = x, !.replaceIPs = yes]
      BY <2>4, <2>5, <2>6, Zenon DEF x, v
    <3>2. [e EXCEPT !.ops = x, !.replaceIPs = yes] = [[e EXCEPT !.ops = x] EXCEPT !.replaceIPs = yes]
      OBVIOUS
    <3> QED
      BY <3>1, <3>2, Zenon
  <2>8. [e EXCEPT !.ops = x] = Fields(no, none, p.key, name, p.setting, x, yes)
    BY <1>2 DEF EntryOf, Fields
  <2> DEFINE f == [e EXCEPT !.ops = x]
  <2> HIDE DEF f
  <2>9. [f EXCEPT !.replaceIPs = yes] = Fields(no, none, p.key, name, p.setting, x, yes)
    <3>1. f = Fields(no, none, p.key, name, p.setting, x, yes)
      BY <2>8, Zenon DEF f
    <3> QED
      BY <3>1 DEF Fields
  <2> HIDE DEF q
  <2>10. q.key = p.key /\ q.setting = p.setting /\ q.ips = p.ips \o IPsIn(v)
    BY <2>3 DEF Peer
  <2>11. Edited(e, l) = EntryOf(no, none, yes, q, name, x)
    BY <2>7, <2>9, <2>10, Zenon DEF EntryOf, f
  <2>12. Alike(q, Edited(e, l))
    BY <1>1, <1>2, <2>2, <2>10, <2>11, Zenon DEF Alike
  <2> QED
    BY <2>12 DEF q
<1> QED
  BY <1>3, <1>4, <1>5 DEF PeerFields

(* setconf clears what a file does not set.                                *)
IfaceOf(v) == IF v = Unset THEN Default ELSE v

(* The configuration that wg-quick has read says what m says.              *)
Agrees(c, m) ==
  /\ m = Parts(IfaceOf(c.iface), TRUE, m.peers)
  /\ Len(m.peers) = Len(c.peers) /\ m.peers = [n \in 1..Len(c.peers) |-> m.peers[n]]
  /\ \A n \in 1..Len(c.peers) : Alike(c.peers[n], m.peers[n])

(* A changed setting of the interface.                                     *)
LEMMA PartsIface ==
  ASSUME NEW m, NEW i, NEW r, NEW a, m = Parts(i, r, a), NEW x
  PROVE  [m EXCEPT !.iface = x] = Parts(x, r, a)
BY PartsEdited

(* Changed peers.                                                          *)
LEMMA PartsPeers ==
  ASSUME NEW m, NEW i, NEW r, NEW a, m = Parts(i, r, a), NEW x
  PROVE  [m EXCEPT !.peers = x] = Parts(i, r, x)
BY PartsEdited

(* The parts of a configuration.                                           *)
LEMMA PartsHas ==
  ASSUME NEW m, NEW i, NEW r, NEW a, m = Parts(i, r, a)
  PROVE  m.iface = i /\ m.replace = r /\ m.peers = a
BY SMT DEF Parts

(* A name changes nothing but the name of an entry, wherever it stands.    *)
LEMMA NameMore ==
  ASSUME NEW X, NEW t \in Seq(X), NEW l \in X, l.kind = "name"
  PROVE  LET p == Peers(t)
             q == Peers(Append(t, l))
         IN  /\ Len(p) \in Nat /\ Len(q) = Len(p)
             /\ p = [n \in 1..Len(p) |-> p[n]] /\ q = [n \in 1..Len(p) |-> q[n]]
             /\ \A n \in 1..Len(p) : q[n] = p[n] \/ q[n] = Edited(p[n], l)
<1> DEFINE u == Append(t, l)
           o == InOrder(PeerHeads(t))
           p == Peers(t)
           q == Peers(u)
<1>1. Len(o) \in Nat /\ DOMAIN o = 1..Len(o) /\ \A n \in 1..Len(o) : o[n] \in 1..Len(t)
  BY HeadsInOrder
<1>2. PeerHeads(u) = PeerHeads(t)
  BY HeadsMore
<1>3. \A h \in 1..Len(t) : \/ MeantEntry(u, h) = MeantEntry(t, h)
                           \/ MeantEntry(u, h) = Edited(MeantEntry(t, h), l)
  <2> SUFFICES ASSUME NEW h \in 1..Len(t)
               PROVE  \/ MeantEntry(u, h) = MeantEntry(t, h)
                      \/ MeantEntry(u, h) = Edited(MeantEntry(t, h), l)
    OBVIOUS
  <2>1. CASE Latest(t, h)
    BY <2>1, EntryMore
  <2>2. CASE ~Latest(t, h)
    BY <2>2, EntryMore
  <2> QED
    BY <2>1, <2>2
<1>4. p = [n \in 1..Len(o) |-> MeantEntry(t, o[n])] /\ q = [n \in 1..Len(o) |-> MeantEntry(u, o[n])]
  BY <1>1, <1>2 DEF Peers
<1> HIDE DEF o, p, q, u
<1>5. (\A n \in 1..Len(o) : p[n] = MeantEntry(t, o[n]) /\ q[n] = MeantEntry(u, o[n]))
      /\ p = [n \in 1..Len(o) |-> p[n]] /\ q = [n \in 1..Len(o) |-> q[n]]
  BY <1>4
<1>6. Len(p) = Len(o) /\ Len(q) = Len(o)
  BY <1>1, <1>5, FunctionIsList
<1>7. \A n \in 1..Len(o) : q[n] = p[n] \/ q[n] = Edited(p[n], l)
  BY <1>1, <1>3, <1>5
<1> QED
  BY <1>1, <1>5, <1>6, <1>7 DEF p, q, u

(* The peers that have been read.                                          *)
LEMMA AgreesParts ==
  ASSUME NEW c, NEW m, Agrees(c, m), c \in QuickFile
  PROVE  /\ Len(c.peers) \in Nat /\ DOMAIN c.peers = 1..Len(c.peers)
         /\ c.peers = [n \in 1..Len(c.peers) |-> c.peers[n]]
         /\ \A n \in 1..Len(c.peers) : c.peers[n] \in QuickPeer
<1>1. c.peers \in Seq(QuickPeer)
  BY DEF QuickFile
<1> QED
  BY <1>1, LenProperties, SeqDef

(* Addresses, hooks and the network fields do not count.                   *)
LEMMA AgreesSame ==
  ASSUME NEW c, NEW m, Agrees(c, m), NEW d, d.iface = c.iface, d.peers = c.peers
  PROVE  Agrees(d, m)
BY DEF Agrees

(* One more line that wg-quick can read means the same to both parsers.    *)
LEMMA AgreesOn ==
  ASSUME NEW s \in QuickState, NEW w \in Seq(Line), NEW l \in QuickLine,
         Agrees(s.file, Meant(w, FALSE)), Ends(w, s.section), s.ok, ReadLine(s, l).ok
  PROVE  LET r == ReadLine(s, l)
             v == IF l.kind \in OwnFields THEN w ELSE Append(w, l)
         IN  /\ v \in Seq(Line) /\ Agrees(r.file, Meant(v, FALSE)) /\ Ends(v, r.section)
<1> DEFINE r == ReadLine(s, l)
           c == s.file
           m == Meant(w, FALSE)
           n == Len(c.peers)
           u == Append(w, l)
           x == Meant(u, FALSE)
<1>1. r = ParseLine1(s, l)
  BY DEF ReadLine
<1>2. c \in QuickFile /\ Agrees(c, m)
  BY DEF QuickState
<1>3. /\ n \in Nat /\ DOMAIN c.peers = 1..n /\ c.peers = [i \in 1..n |-> c.peers[i]]
      /\ \A i \in 1..n : c.peers[i] \in QuickPeer
  BY <1>2, AgreesParts
<1>4. /\ m = Parts(IfaceOf(c.iface), TRUE, m.peers) /\ Len(m.peers) = n
      /\ m.peers = [i \in 1..n |-> m.peers[i]] /\ \A i \in 1..n : Alike(c.peers[i], m.peers[i])
  BY <1>2 DEF Agrees
<1>5. ASSUME l.kind \notin OwnFields
      PROVE  /\ l \in Line /\ u \in Seq(Line)
             /\ l.kind \notin FieldKinds \cup {"peer", "iface"} => x = m
             /\ l.kind = "peer" => x = [m EXCEPT !.peers = Append(m.peers, NewEntry)]
             /\ l.kind = "iface" /\ Ends(w, "interface") => x = [m EXCEPT !.iface = l.value]
             /\ l.kind \in FieldKinds /\ Ends(w, "peer") /\ (l.kind = "allowedips" => IsList(l.value)) =>
                  /\ n # 0
                  /\ x = [m EXCEPT !.peers = [m.peers EXCEPT ![n] = Edited(m.peers[n], l)]]
             /\ IsHeader(l) => Ends(u, l.kind)
             /\ ~IsHeader(l) => Ends(u, s.section)
  <2>1. l \in Line
    BY <1>5 DEF QuickLine, OwnFields
  <2>2. u \in Seq(Line)
    BY <2>1, AppendProperties
  <2> HIDE DEF u, m, x, n
  <2>3. /\ l.kind \notin FieldKinds \cup {"peer", "iface"} => x = m
        /\ l.kind = "peer" => x = [m EXCEPT !.peers = Append(m.peers, NewEntry)]
        /\ l.kind = "iface" /\ Ends(w, "interface") => x = [m EXCEPT !.iface = l.value]
        /\ l.kind \in FieldKinds /\ Ends(w, "peer") /\ (l.kind = "allowedips" => IsList(l.value)) =>
             /\ Len(m.peers) # 0
             /\ x = [m EXCEPT !.peers = [m.peers EXCEPT ![Len(m.peers)] = Edited(m.peers[Len(m.peers)], l)]]
    <3>1. PICK no : no = FALSE
      OBVIOUS
    <3>2. m = Meant(w, no) /\ x = Meant(Append(w, l), no)
      BY <3>1 DEF u, m, x
    <3> QED
      BY <2>1, <3>2, MeantMore
  <2>4. /\ IsHeader(l) => Ends(u, l.kind)
        /\ ~IsHeader(l) => Ends(u, s.section)
    BY <2>1, EndsMore DEF u
  <2> QED
    BY <1>4, <2>1, <2>2, <2>3, <2>4
<1> HIDE DEF r, u, x, n
<1>6. CASE l.kind = "blank"
  <2>1. r = s
    BY <1>1, <1>6 DEF ParseLine1, InterfaceFields, PeerFields
  <2>2. u \in Seq(Line) /\ x = m /\ Ends(u, s.section)
    BY <1>5, <1>6 DEF OwnFields, FieldKinds, IsHeader
  <2> QED
    BY <1>2, <1>6, <2>1, <2>2 DEF r, u, x, OwnFields
<1>7. CASE l.kind = "interface"
  <2>1. r = [s EXCEPT !.section = "interface"]
    BY <1>1, <1>7 DEF ParseLine1, InterfaceFields, PeerFields
  <2>2. u \in Seq(Line) /\ x = m /\ Ends(u, "interface")
    BY <1>5, <1>7 DEF OwnFields, FieldKinds, IsHeader
  <2>3. r.file = c /\ r.section = "interface"
    BY <2>1 DEF QuickState
  <2> QED
    BY <1>2, <1>7, <2>2, <2>3 DEF r, u, x, OwnFields
<1>8. CASE l.kind = "peer"
  <2> DEFINE p == Append(c.peers, NewPeer)
             q == Append(m.peers, NewEntry)
  <2>1. r = [s EXCEPT !.section = "peer", !.file.peers = p]
    BY <1>1, <1>8 DEF ParseLine1, InterfaceFields, PeerFields
  <2>2. u \in Seq(Line) /\ x = [m EXCEPT !.peers = q] /\ Ends(u, "peer")
    BY <1>5, <1>8 DEF OwnFields, FieldKinds, IsHeader
  <2>3. /\ p = [i \in 1..(n + 1) |-> IF i = n + 1 THEN NewPeer ELSE c.peers[i]]
        /\ q = [i \in 1..(n + 1) |-> IF i = n + 1 THEN NewEntry ELSE m.peers[i]]
    <3> DEFINE a == c.peers
               b == m.peers
    <3>1. a = [i \in 1..n |-> a[i]] /\ b = [i \in 1..n |-> b[i]]
      BY <1>3, <1>4
    <3> HIDE DEF a, b
    <3>2. Append(a, NewPeer) = [i \in 1..(n + 1) |-> IF i = n + 1 THEN NewPeer ELSE a[i]]
      BY <1>3, <3>1, AppendParts
    <3>3. Append(b, NewEntry) = [i \in 1..(n + 1) |-> IF i = n + 1 THEN NewEntry ELSE b[i]]
      BY <1>3, <3>1, AppendParts
    <3> QED
      BY <3>2, <3>3 DEF a, b
  <2> HIDE DEF p, q
  <2>4. r.file.iface = c.iface /\ r.file.peers = p /\ r.section = "peer"
    BY <2>1, <1>2 DEF QuickState, QuickFile
  <2>5. x = Parts(IfaceOf(c.iface), TRUE, q) /\ x.peers = q
    <3> DEFINE i == IfaceOf(c.iface)
               a == m.peers
    <3>1. PICK yes : yes = TRUE
      OBVIOUS
    <3>2. m = Parts(i, yes, a)
      BY <1>4, <3>1
    <3> HIDE DEF i, a, m
    <3>5. x = [m EXCEPT !.peers = q]
      BY <2>2
    <3>6. [m EXCEPT !.peers = q] = Parts(i, yes, q)
      BY <3>2, PartsPeers
    <3>3. x = Parts(i, yes, q)
      BY <3>5, <3>6
    <3>4. x.peers = q
      BY <3>3, PartsHas
    <3> QED
      BY <3>1, <3>3, <3>4 DEF i
  <2>6. Len(p) = n + 1 /\ Len(q) = n + 1 /\ q = [i \in 1..(n + 1) |-> q[i]] /\ n + 1 \in Nat
    <3>1. n + 1 \in Nat /\ p = [i \in 1..(n + 1) |-> p[i]] /\ q = [i \in 1..(n + 1) |-> q[i]]
      BY <1>3, <2>3
    <3> QED
      BY <3>1, FunctionIsList
  <2>7. \A i \in 1..(n + 1) : Alike(p[i], q[i])
    <3> SUFFICES ASSUME NEW i \in 1..(n + 1) PROVE Alike(p[i], q[i])
      OBVIOUS
    <3>1. CASE i = n + 1
      BY <2>3, <3>1, AlikeNew
    <3>2. CASE i # n + 1
      <4>1. i \in 1..n
        BY <1>3, <3>2
      <4> QED
        BY <1>4, <2>3, <3>2, <4>1
    <3> QED
      BY <3>1, <3>2
  <2>8. Agrees(r.file, x)
    BY <2>4, <2>5, <2>6, <2>7 DEF Agrees
  <2> QED
    BY <1>8, <2>2, <2>4, <2>8 DEF r, u, x, OwnFields
<1>9. CASE l.kind = "name"
  <2>1. r = s
    BY <1>1, <1>9 DEF ParseLine1, InterfaceFields, PeerFields
  <2>2. u \in Seq(Line) /\ l \in Line /\ Ends(u, s.section)
    BY <1>5, <1>9 DEF OwnFields, IsHeader
  <2> DEFINE p == Peers(w)
             q == Peers(u)
             i == LastValue(w, IfaceLines(w), Empty(FALSE).iface)
             j == LastValue(u, IfaceLines(u), Empty(FALSE).iface)
  <2>3. /\ Len(p) \in Nat /\ Len(q) = Len(p) /\ q = [k \in 1..Len(p) |-> q[k]]
        /\ \A k \in 1..Len(p) : q[k] = p[k] \/ q[k] = Edited(p[k], l)
    BY <1>9, <2>2, NameMore DEF u
  <2>4. i = j
    <3> DEFINE d == Empty(FALSE).iface
    <3> HIDE DEF d
    <3>1. LastValue(w, IfaceLines(w), d) = LastValue(u, IfaceLines(u), d)
      BY <1>9, <2>2, IfaceMore DEF u
    <3> QED
      BY <3>1 DEF d
  <2>5. m = Parts(i, ~FALSE, p) /\ x = Parts(j, ~FALSE, q)
    BY MeantParts, Zenon DEF x
  <2> HIDE DEF i, j, p, q, m
  <2>6. m.peers = p /\ m.iface = i /\ x.peers = q
    BY <2>5, PartsEdited
  <2>7. i = IfaceOf(c.iface)
    <3> DEFINE y == IfaceOf(c.iface)
               a == m.peers
    <3>1. PICK yes : yes = TRUE
      OBVIOUS
    <3>2. m = Parts(y, yes, a)
      BY <1>4, <3>1
    <3> HIDE DEF y, a
    <3>3. m.iface = y
      BY <3>2, PartsHas
    <3> QED
      BY <2>6, <3>3 DEF y
  <2>8. ASSUME NEW k \in 1..n PROVE Alike(c.peers[k], q[k])
    <3>1. Alike(c.peers[k], p[k]) /\ (q[k] = p[k] \/ q[k] = Edited(p[k], l))
      BY <1>4, <2>3, <2>6
    <3>2. Alike(c.peers[k], Edited(p[k], l))
      BY <1>9, <3>1, AlikeName
    <3> QED
      BY <3>1, <3>2
  <2>9. Agrees(c, x)
    <3>1. Len(q) = n /\ q = [k \in 1..n |-> q[k]]
      BY <1>4, <2>3, <2>6
    <3>2. x = Parts(IfaceOf(c.iface), TRUE, q)
      BY <2>4, <2>5, <2>7
    <3> HIDE DEF n
    <3> QED
      BY <2>6, <2>8, <3>1, <3>2, Zenon DEF Agrees, n
  <2> QED
    BY <1>9, <2>1, <2>2, <2>9 DEF r, u, x, OwnFields
<1>10. CASE s.section = "interface" /\ l.kind \in InterfaceFields /\ ~Unreadable(l)
  <2>1. r = [s EXCEPT !.file = ParseInterface(@, l)]
    BY <1>1, <1>10 DEF ParseLine1, InterfaceFields, PeerFields
  <2> DEFINE d == ParseInterface(c, l)
  <2>2. r.file = d /\ r.section = s.section
    BY <2>1 DEF QuickState
  <2>3. d.peers = c.peers
    BY <1>2, <1>10, InterfaceRead DEF Unreadable
  <2>4. CASE l.kind = "iface"
    <3>1. l.value \in Setting \cup {Default} /\ l.value # Unset
      BY <1>10, <2>4, LineParts, ReadableValues, MissingValues DEF Unreadable
    <3>2. d.iface = l.value
      BY <1>2, <2>4 DEF ParseInterface, QuickFile
    <3>3. u \in Seq(Line) /\ x = [m EXCEPT !.iface = l.value] /\ Ends(u, s.section)
      BY <1>5, <1>10, <2>4 DEF OwnFields, IsHeader
    <3>4. x = Parts(l.value, TRUE, m.peers) /\ x.peers = m.peers
      <4> DEFINE i == IfaceOf(c.iface)
                 a == m.peers
      <4>1. PICK yes : yes = TRUE
        OBVIOUS
      <4>2. m = Parts(i, yes, a)
        BY <1>4, <4>1
      <4> HIDE DEF i, a, m
      <4>3. x = Parts(l.value, yes, a)
        BY <3>3, <4>2, PartsIface
      <4>4. x.peers = a
        BY <4>3, PartsHas
      <4> QED
        BY <4>1, <4>3, <4>4 DEF a
    <3> HIDE DEF d
    <3>5. Agrees(d, x)
      BY <1>4, <2>3, <3>1, <3>2, <3>4 DEF Agrees, IfaceOf, n
    <3> QED
      BY <2>2, <2>4, <3>3, <3>5 DEF r, u, x, OwnFields
  <2>5. CASE l.kind \in OwnFields
    <3>1. d.iface = c.iface
      <4>1. CASE l.kind = "address"
        <5>1. d = [c EXCEPT !.addresses = Append(c.addresses, l.value)]
          BY <4>1 DEF ParseInterface
        <5> QED
          BY <1>2, <5>1 DEF QuickFile
      <4>2. CASE l.kind = "hook"
        <5>1. d = [c EXCEPT !.hooks = Append(c.hooks, l.value)]
          BY <4>2 DEF ParseInterface
        <5> QED
          BY <1>2, <5>1 DEF QuickFile
      <4>3. CASE l.kind = "net"
        <5>1. d = [c EXCEPT !.net = l.value]
          BY <4>3 DEF ParseInterface
        <5> QED
          BY <1>2, <5>1 DEF QuickFile
      <4> QED
        BY <2>5, <4>1, <4>2, <4>3 DEF OwnFields
    <3> HIDE DEF d
    <3>2. Agrees(d, m)
      BY <1>2, <2>3, <3>1, AgreesSame
    <3> QED
      BY <2>2, <2>5, <3>2 DEF r
  <2> QED
    BY <1>10, <2>4, <2>5 DEF InterfaceFields, OwnFields
<1>11. CASE s.section = "peer" /\ l.kind \in PeerFields /\ ~Unreadable(l)
  <2> DEFINE e == ParsePeer(c.peers[n], l)
             p == [c.peers EXCEPT ![n] = e]
             f == Edited(m.peers[n], l)
             q == [m.peers EXCEPT ![n] = f]
  <2>1. r = [s EXCEPT !.file.peers[n] = ParsePeer(@, l)]
    BY <1>1, <1>11 DEF ParseLine1, InterfaceFields, PeerFields, n
  <2>2. u \in Seq(Line) /\ n # 0 /\ x = [m EXCEPT !.peers = q] /\ Ends(u, "peer")
    <3>1. l.kind = "allowedips" => IsList(l.value)
      BY <1>11, LineParts DEF Unreadable, IsList
    <3> QED
      BY <1>5, <1>11, <3>1 DEF OwnFields, FieldKinds, IsHeader, PeerFields
  <2>3. n \in 1..n
    BY <1>3, <2>2
  <2>4. r.file.iface = c.iface /\ r.file.peers = p /\ r.section = "peer"
    <3>1. r = [s EXCEPT !.file = [c EXCEPT !.peers = p]]
      BY <2>1
    <3> HIDE DEF p
    <3> QED
      BY <1>2, <1>11, <3>1 DEF QuickState, QuickFile
  <2>5. Alike(e, f)
    BY <1>3, <1>4, <1>11, <2>3, AlikeField
  <2> HIDE DEF e, f
  <2>6. /\ p = [i \in 1..n |-> p[i]] /\ q = [i \in 1..n |-> q[i]]
        /\ p[n] = e /\ q[n] = f
        /\ \A i \in 1..n : i # n => p[i] = c.peers[i] /\ q[i] = m.peers[i]
    BY <1>3, <1>4, <2>3
  <2> HIDE DEF p, q
  <2>7. Len(p) = n /\ Len(q) = n
    BY <1>3, <2>6, FunctionIsList
  <2>8. \A i \in 1..n : Alike(p[i], q[i])
    BY <1>4, <2>5, <2>6
  <2>9. x = Parts(IfaceOf(c.iface), TRUE, q) /\ x.peers = q
    <3> DEFINE i == IfaceOf(c.iface)
               a == m.peers
    <3>1. PICK yes : yes = TRUE
      OBVIOUS
    <3>2. m = Parts(i, yes, a)
      BY <1>4, <3>1
    <3> HIDE DEF i, a, m
    <3>5. x = [m EXCEPT !.peers = q]
      BY <2>2
    <3>6. [m EXCEPT !.peers = q] = Parts(i, yes, q)
      BY <3>2, PartsPeers
    <3>3. x = Parts(i, yes, q)
      BY <3>5, <3>6
    <3>4. x.peers = q
      BY <3>3, PartsHas
    <3> QED
      BY <3>1, <3>3, <3>4 DEF i
  <2>10. Agrees(r.file, x)
    BY <2>4, <2>6, <2>7, <2>8, <2>9 DEF Agrees
  <2> QED
    BY <1>11, <2>2, <2>4, <2>10 DEF r, u, x, OwnFields, PeerFields
<1>12. CASE /\ l.kind \notin {"blank", "name", "interface", "peer"}
            /\ ~(s.section = "interface" /\ l.kind \in InterfaceFields /\ ~Unreadable(l))
            /\ ~(s.section = "peer" /\ l.kind \in PeerFields /\ ~Unreadable(l))
  <2>1. r = [s EXCEPT !.ok = FALSE]
    BY <1>1, <1>12 DEF ParseLine1
  <2>2. ~r.ok
    BY <2>1 DEF QuickState
  <2> QED
    BY <2>2 DEF r
<1> QED
  BY <1>6, <1>7, <1>8, <1>9, <1>10, <1>11, <1>12


(* At the beginning both have nothing.                                     *)
LEMMA StartAgrees ==
  /\ NothingRead \in QuickState /\ NothingRead.ok /\ NothingRead.section = ""
  /\ Agrees(NothingRead.file, Meant(<<>>, FALSE))
<1>1. NewFile \in QuickFile /\ NewFile.iface = Unset /\ NewFile.peers = <<>>
  BY DEF NewFile, QuickFile
<1>2. NothingRead \in QuickState /\ NothingRead.ok /\ NothingRead.section = "" /\ NothingRead.file = NewFile
  BY <1>1 DEF NothingRead, QuickState
<1>3. PICK no, yes, none : no = FALSE /\ yes = TRUE /\ none = <<>>
  OBVIOUS
<1> DEFINE m == Meant(<<>>, no)
<1>4. m = Empty(no)
  BY NoLines
<1> HIDE DEF m
<1>5. m = Parts(Default, yes, none)
  BY <1>3, <1>4 DEF Empty, Parts
<1>6. m.peers = none
  BY <1>5, PartsHas
<1>7. Len(none) = 0 /\ none = [n \in 1..0 |-> none[n]]
  BY <1>3
<1>8. Agrees(NewFile, m)
  <2> DEFINE i == IfaceOf(NewFile.iface)
             p == NewFile.peers
             q == m.peers
  <2>1. i = Default /\ p = none /\ q = none
    BY <1>1, <1>3, <1>6 DEF IfaceOf
  <2> HIDE DEF i, p, q
  <2>2. m = Parts(i, TRUE, q)
    BY <1>3, <1>5, <2>1
  <2>3. Len(p) = 0 /\ Len(q) = 0 /\ q = [n \in 1..Len(p) |-> q[n]]
    BY <1>7, <2>1
  <2>4. 1..Len(p) = {}
    BY <2>3
  <2> QED
    BY <2>2, <2>3, <2>4, Zenon DEF Agrees, i, p, q
<1> QED
  BY <1>2, <1>3, <1>8 DEF m

(* What could not be read stays so.                                        *)
LEMMA ReadStops ==
  ASSUME NEW s, NEW l, ReadLine(s, l).ok
  PROVE  s.ok
BY DEF ReadLine

(* All lines that wg-quick can read mean the same to both.                 *)
LEMMA FilesMean ==
  ASSUME NEW t \in Seq(QuickLine), NEW s, s = Run(NothingRead, t), s.ok
  PROVE  WgLines(t) \in Seq(Line) /\ Agrees(s.file, Meant(WgLines(t), FALSE)) /\ s \in QuickState
<1> DEFINE n == Len(t)
           b == NothingRead
           w(i) == WgLines(SubSeq(t, 1, i))
           Agreed(i, r) == w(i) \in Seq(Line) /\ Agrees(r.file, Meant(w(i), FALSE)) /\ Ends(w(i), r.section)
<1>1. n \in Nat /\ Indexed(t) /\ \A i \in 1..n : t[i] \in QuickLine
  BY LenProperties, SeqDef DEF Indexed
<1>2. PICK g : Through(g, b, t)
  BY <1>1, RunThrough
<1>3. g[0] = b /\ g[n] = s /\ \A i \in 1..n : g[i] = ReadLine(g[i - 1], t[i])
  BY <1>2 DEF Through
<1> HIDE DEF n, b
<1> DEFINE S == {i \in 0..n : g[i] \in QuickState /\ (g[i].ok => Agreed(i, g[i]))}
<1>4. 0 \in S
  <2>1. SubSeq(t, 1, 0) = <<>> /\ 0 \in 0..n
    BY <1>1
  <2>2. w(0) = <<>>
    BY <2>1, NoWgLines
  <2>3. g[0] \in QuickState /\ g[0].section = "" /\ Agrees(g[0].file, Meant(<<>>, FALSE))
    BY <1>3, StartAgrees DEF b
  <2>4. <<>> \in Seq(Line) /\ Ends(<<>>, "")
    BY NoLines
  <2> QED
    BY <2>1, <2>2, <2>3, <2>4
<1>5. ASSUME NEW i \in 0..n, i < n, i \in S PROVE i + 1 \in S
  <2> DEFINE u == SubSeq(t, 1, i)
             l == t[i + 1]
             r == g[i]
             x == g[i + 1]
  <2>1. i + 1 \in 1..n /\ (i + 1) - 1 = i /\ i + 1 \in 0..n
    BY <1>1, <1>5
  <2>2. x = ReadLine(r, l) /\ l \in QuickLine
    BY <1>1, <1>3, <2>1
  <2>3. u \in Seq(QuickLine) /\ SubSeq(t, 1, i + 1) = Append(u, l)
    BY <1>5, Beginning DEF n
  <2>4. r \in QuickState /\ (r.ok => Agreed(i, r))
    BY <1>5
  <2> HIDE DEF l, x, r
  <2>5. x \in QuickState
    BY <2>2, <2>4, LineRead
  <2>6. ASSUME x.ok PROVE Agreed(i + 1, x)
    <3> DEFINE v == w(i)
    <3>1. r.ok
      BY <2>2, <2>6, ReadStops
    <3>2. v \in Seq(Line) /\ Agrees(r.file, Meant(v, FALSE)) /\ Ends(v, r.section)
      BY <2>4, <3>1
    <3>3. w(i + 1) = IF l.kind \in OwnFields THEN v ELSE Append(v, l)
      <4> HIDE DEF u
      <4>1. /\ l.kind \in OwnFields => WgLines(Append(u, l)) = WgLines(u)
            /\ l.kind \notin OwnFields => WgLines(Append(u, l)) = Append(WgLines(u), l)
        BY <2>2, <2>3, WgLinesMore
      <4> QED
        BY <2>3, <4>1 DEF u
    <3> HIDE DEF v
    <3> DEFINE z == IF l.kind \in OwnFields THEN v ELSE Append(v, l)
    <3>4. z \in Seq(Line) /\ Agrees(x.file, Meant(z, FALSE)) /\ Ends(z, x.section)
      BY <2>2, <2>4, <2>6, <3>1, <3>2, AgreesOn
    <3> HIDE DEF z
    <3>5. w(i + 1) = z
      BY <3>3 DEF z
    <3> HIDE DEF w
    <3> QED
      BY <3>4, <3>5
  <2> HIDE DEF Agreed
  <2> QED
    BY <2>1, <2>5, <2>6 DEF x
<1> HIDE DEF Agreed
<1>6. n \in S
  <2> HIDE DEF S
  <2>1. \A i \in 0..n : i \in S
    BY <1>1, <1>4, <1>5, Upwards
  <2> QED
    BY <1>1, <2>1
<1>7. g[n] \in QuickState /\ Agreed(n, g[n])
  BY <1>3, <1>6
<1>8. SubSeq(t, 1, n) = t
  BY <1>1 DEF n
<1>9. w(n) = WgLines(t)
  BY <1>8
<1> HIDE DEF w
<1> QED
  BY <1>3, <1>7, <1>9 DEF Agreed

(* An entry of WireGuardConfig.                                            *)
WgPeer(p) ==
  [key |-> p.key, remove |-> FALSE, updateOnly |-> FALSE, setting |-> p.setting,
   replaceIPs |-> TRUE, ips |-> p.ips, ops |-> <<>>]

(* Addresses or operations that set them: the kernel gets the same.        *)
LEMMA AllowedAlike ==
  ASSUME NEW ops \in Seq(IPOp), ~Incremental(ops)
  PROVE  AllowedIPs(<<>>, ops) = AllowedIPs(IPsIn(ops), <<>>)
<1> DEFINE n == Len(ops)
           D == [ip : IP, remove : BOOLEAN]
           a == [i \in DOMAIN ops |-> [ip |-> ops[i].ip, remove |-> ops[i].op = "remove"]]
           b == [i \in DOMAIN IPsIn(ops) |-> [ip |-> IPsIn(ops)[i], remove |-> FALSE]]
<1>1. n \in Nat /\ DOMAIN ops = 1..n /\ \A i \in 1..n : ops[i] \in IPOp
  BY LenProperties
<1>2. \A i \in 1..n : ops[i].op = "set" /\ ops[i].ip \in IP
  BY <1>1 DEF Incremental, IPOp
<1>3. DOMAIN IPsIn(ops) = 1..n /\ \A i \in 1..n : IPsIn(ops)[i] = ops[i].ip
  BY <1>1 DEF IPsIn
<1>4. a = b
  <2>1. \A i \in 1..n : (ops[i].op = "remove") = FALSE
    BY <1>2
  <2> QED
    BY <1>1, <1>3, <2>1
<1>5. b \in Seq(D)
  <2>1. b \in [1..n -> D]
    BY <1>2, <1>3
  <2> HIDE DEF b, n, D
  <2> QED
    BY <1>1, <2>1, SeqDef
<1>6. [i \in DOMAIN <<>> |-> [ip |-> <<>>[i], remove |-> FALSE]] = <<>>
  OBVIOUS
<1>7. [i \in DOMAIN <<>> |-> [ip |-> <<>>[i].ip, remove |-> <<>>[i].op = "remove"]] = <<>>
  OBVIOUS
<1>8. AllowedIPs(<<>>, ops) = <<>> \o a /\ AllowedIPs(IPsIn(ops), <<>>) = b \o <<>>
  BY <1>6, <1>7, Zenon DEF AllowedIPs
<1> HIDE DEF a, b
<1>9. <<>> \o b = b /\ b \o <<>> = b
  BY <1>5, ConcatEmptySeq
<1> QED
  BY <1>4, <1>8, <1>9

(* What is alike is sent alike.                                            *)
LEMMA AlikeEncoded ==
  ASSUME NEW p, NEW e, Alike(p, e)
  PROVE  EncodePeer(e) = EncodePeer(WgPeer(p))
<1>1. PICK none, no, yes : none = <<>> /\ no = FALSE /\ yes = TRUE
  OBVIOUS
<1>2. PICK name, ops : /\ ops \in Seq(IPOp) /\ IPsIn(ops) = p.ips /\ ~Incremental(ops)
                       /\ e = EntryOf(no, none, yes, p, name, ops)
  BY <1>1 DEF Alike
<1>3. /\ e.key = p.key /\ e.remove = no /\ e.updateOnly = no /\ e.setting = p.setting
      /\ e.replaceIPs = yes /\ e.ips = none /\ e.ops = ops
  BY <1>2 DEF EntryOf, Fields
<1> DEFINE f == WgPeer(p)
<1>4. f = [key |-> p.key, remove |-> no, updateOnly |-> no, setting |-> p.setting,
           replaceIPs |-> yes, ips |-> p.ips, ops |-> none]
  BY <1>1, Zenon DEF WgPeer
<1> HIDE DEF f
<1>5. /\ f.key = p.key /\ f.remove = no /\ f.updateOnly = no /\ f.setting = p.setting
      /\ f.replaceIPs = yes /\ f.ips = p.ips /\ f.ops = none
  BY <1>4
<1>6. AllowedIPs(e.ips, e.ops) = AllowedIPs(f.ips, f.ops)
  <2>1. AllowedIPs(none, ops) = AllowedIPs(p.ips, none)
    BY <1>1, <1>2, AllowedAlike
  <2> QED
    BY <1>3, <1>5, <2>1
<1>7. EncodePeer(e) = EncodePeer(f)
  BY <1>3, <1>5, <1>6, Zenon DEF EncodePeer
<1> QED
  BY <1>7 DEF f

(* So it makes the same device.                                            *)
LEMMA AgreesMade ==
  ASSUME NEW c \in QuickFile, NEW m, Agrees(c, m)
  PROVE  Made(m) = Made(WireGuardConfig(c)) /\ m.iface = IfaceOf(c.iface)
<1> DEFINE n == Len(c.peers)
           q == m.peers
           w == [i \in DOMAIN c.peers |-> WgPeer(c.peers[i])]
           x == WireGuardConfig(c)
           y == IfaceOf(c.iface)
<1>1. n \in Nat /\ DOMAIN c.peers = 1..n
  BY AgreesParts
<1>2. PICK yes : yes = TRUE
  OBVIOUS
<1>3. /\ m = Parts(y, yes, q) /\ q = [i \in 1..n |-> q[i]]
      /\ \A i \in 1..n : Alike(c.peers[i], q[i])
  BY <1>2 DEF Agrees
<1>4. x = [replace |-> yes, peers |-> w]
  BY <1>2, Zenon DEF WireGuardConfig, WgPeer
<1>5. DOMAIN w = 1..n /\ \A i \in 1..n : w[i] = WgPeer(c.peers[i])
  BY <1>1
<1>6. \A i \in 1..n : EncodePeer(q[i]) = EncodePeer(w[i])
  BY <1>3, <1>5, AlikeEncoded
<1> HIDE DEF q, w, x, y, n
<1>7. m.replace = yes /\ m.iface = y
  BY <1>3, PartsHas
<1>8. x.replace = yes /\ x.peers = w
  BY <1>4
<1>9. DOMAIN q = 1..n
  BY <1>3
<1>10. [i \in DOMAIN q |-> EncodePeer(q[i])] = [i \in DOMAIN w |-> EncodePeer(w[i])]
  BY <1>5, <1>6, <1>9
<1>11. Message(m) = Message(x)
  BY <1>7, <1>8, <1>10, Zenon DEF Message, q
<1> QED
  BY <1>7, <1>11, Zenon DEF Made, x, y

(* What Strip writes is lines of wg, and Parse reads from them the         *)
(* interface's settings and the peers.                                     *)
LEMMA StripReads ==
  ASSUME NEW c, KeyedFile(c)
  PROVE  /\ Strip(c) \in Seq(Line)
         /\ \E start : Run(NothingRead, Strip(c)) = Got(start, c.iface, <<>>, <<>>, Zero, c.peers)
<1> DEFINE one == LineIf(c.iface # Unset, L("interface", Nil))
           two == WriteInterfaceCrypto(c)
           three == WritePeers(c)
           b == NothingRead
           B(start) == Got(start, c.iface, <<>>, <<>>, Zero, <<>>)
<1>1. /\ c.iface \in Setting \cup {Default, Unset} /\ c.peers \in Seq(QuickPeer)
      /\ \A m \in DOMAIN c.peers : c.peers[m].key \in Key
  BY DEF KeyedFile, QuickFile
<1>2. Strip(c) = (one \o two) \o three
  BY DEF Strip
<1>3. PICK none : b = Got(none, Unset, <<>>, <<>>, Zero, <<>>)
  BY DEF NothingRead, NewFile, Got
<1>4. one \in Seq(Line) /\ two \in Seq(Line)
  <2>1. L("interface", Nil) \in Line
    BY DEF L, Line
  <2>2. c.iface # Unset => L("iface", c.iface) \in Line
    BY <1>1 DEF L, Line
  <2>3. one \in Seq(Line)
    BY <2>1 DEF LineIf
  <2>4. two \in Seq(Line)
    BY <2>2 DEF WriteInterfaceCrypto, LineIf
  <2> QED
    BY <2>3, <2>4
<1>5. \E start : Run(Run(b, one), two) = B(start)
  <2> DEFINE l == L("interface", Nil)
             k == L("iface", c.iface)
             x == Run(b, one)
  <2>1. x = IF c.iface # Unset THEN ReadLine(b, l) ELSE b
    BY RunIf
  <2>2. Run(x, two) = IF c.iface # Unset THEN ReadLine(x, k) ELSE x
    <3> HIDE DEF x
    <3> QED
      BY RunIf DEF WriteInterfaceCrypto
  <2>3. CASE c.iface = Unset
    BY <1>3, <2>1, <2>2, <2>3
  <2>4. CASE c.iface # Unset
    <3> HIDE DEF b, x
    <3>1. x = Got("interface", Unset, <<>>, <<>>, Zero, <<>>)
      <4>1. ReadLine(b, l) = Got("interface", Unset, <<>>, <<>>, Zero, <<>>)
        BY <1>3, GotHeader
      <4> QED
        BY <2>1, <2>4, <4>1
    <3>2. c.iface # Bad
      BY <1>1, <2>4, ReadableValues
    <3>3. ReadLine(x, k) = B("interface")
      BY <3>1, <3>2, GotField
    <3>4. Run(x, two) = B("interface")
      BY <2>2, <2>4, <3>3
    <3> QED
      BY <3>4 DEF x
  <2> QED
    BY <2>3, <2>4
<1>6. PICK start : Run(Run(b, one), two) = B(start)
  BY <1>5
<1>7. three = FlattenSeq(Blocks(c.peers))
  BY DEF WritePeers, Blocks
<1>8. three \in Seq(Line) /\ \E sec : Run(B(start), three) = Got(sec, c.iface, <<>>, <<>>, Zero, c.peers)
  <2> DEFINE s == c.peers
  <2>1. s \in Seq(QuickPeer) /\ \A m \in DOMAIN s : s[m].key \in Key
    BY <1>1
  <2> HIDE DEF s
  <2>2. /\ FlattenSeq(Blocks(s)) \in Seq(Line)
        /\ \E sec : Run(B(start), FlattenSeq(Blocks(s))) = Got(sec, c.iface, <<>>, <<>>, Zero, s)
    BY <2>1, RunPeers
  <2> HIDE DEF three
  <2> QED
    BY <1>7, <2>2 DEF s
<1> HIDE DEF one, two, three, b, B
<1> DEFINE u == one \o two
<1>9. u \in Seq(Line) /\ Indexed(u) /\ Indexed(one) /\ Indexed(two) /\ Indexed(three)
  <2>1. u \in Seq(Line)
    BY ONLY <1>4, ConcatProperties
  <2> HIDE DEF u
  <2> QED
    BY <1>4, <1>8, <2>1, LenProperties, SeqDef DEF Indexed
<1>10. Run(b, u) = B(start)
  BY <1>6, <1>9, RunBoth
<1> HIDE DEF u
<1> DEFINE z == u \o three
<1>11. z \in Seq(Line)
  BY ONLY <1>8, <1>9, ConcatProperties
<1>12. Run(b, z) = Run(B(start), three)
  BY <1>9, <1>10, RunBoth
<1> HIDE DEF z
<1>13. Strip(c) = z
  BY <1>2 DEF z, u
<1> QED
  BY <1>8, <1>11, <1>12, <1>13 DEF b

(* The file, what Encode and Strip write of it, and WireGuardConfig agree. *)
LEMMA AllAgree ==
  ASSUME source \in Seq(QuickLine)
  PROVE  FilesAgree
<1> DEFINE c == QuickParse(source)
           s == Strip(c)
           m == Meant(s, FALSE)
           x == Meant(WgLines(source), FALSE)
<1> SUFFICES ASSUME c # Bad
             PROVE  /\ QuickParse(QuickEncode(c)) = c
                    /\ \A n \in DOMAIN s : s[n] \in Line
                    /\ m.iface = IfaceOf(c.iface)
                    /\ Made(m) = Made(WireGuardConfig(c))
                    /\ Made(m) = Made(x)
  BY Zenon DEF FilesAgree, IfaceOf
<1>1. KeyedFile(c) /\ Usable(c) /\ c \in QuickFile
  BY ParseTypes DEF KeyedFile
<1>2. Agrees(c, x)
  <2> DEFINE end == Run(NothingRead, source)
  <2>1. c = end.file /\ end.ok
    BY DEF QuickParse, Run
  <2> HIDE DEF end
  <2>2. Agrees(end.file, x)
    BY <2>1, FilesMean DEF end
  <2> HIDE DEF x, c
  <2> QED
    BY <2>1, <2>2
<1> HIDE DEF c, x
<1>3. QuickParse(QuickEncode(c)) = c
  BY <1>1, EncodeParse
<1>4. s \in Seq(Line)
  BY <1>1, StripReads
<1>5. Agrees(c, m)
  <2>1. PICK start : Run(NothingRead, s) = Got(start, c.iface, <<>>, <<>>, Zero, c.peers)
    BY <1>1, StripReads
  <2> HIDE DEF s
  <2> DEFINE end == Run(NothingRead, s)
  <2>2. end.ok /\ end.file.iface = c.iface /\ end.file.peers = c.peers
    BY <2>1 DEF Got
  <2>3. s \in Seq(QuickLine)
    <3>1. Line \subseteq QuickLine
      BY DEF QuickLine
    <3> QED
      BY ONLY <1>4, <3>1, WiderSeq
  <2>4. WgLines(s) = s
    BY <1>4, WgLinesAll
  <2> DEFINE y == Meant(WgLines(s), FALSE)
  <2>5. Agrees(end.file, y)
    BY <2>2, <2>3, FilesMean
  <2>6. y = m
    BY <2>4
  <2> HIDE DEF y, m, end
  <2> QED
    BY <2>2, <2>5, <2>6, AgreesSame
<1>6. /\ Made(m) = Made(WireGuardConfig(c)) /\ m.iface = IfaceOf(c.iface)
      /\ Made(x) = Made(WireGuardConfig(c))
  <2> HIDE DEF m
  <2> QED
    BY <1>1, <1>2, <1>5, AgreesMade
<1>7. \A n \in DOMAIN s : s[n] \in Line
  <2> HIDE DEF s
  <2> QED
    BY <1>4, LenProperties
<1> QED
  BY <1>3, <1>6, <1>7

(* Whatever lines a file has: as far as wg-quick can read it, wg makes the *)
(* same device of what `wg-quick strip` leaves of it, of the file without  *)
(* wg-quick's own lines, and Up makes that device too; and Encode writes   *)
(* back a file that is read as the one it was made of (Parse, Encode,      *)
(* Strip and WireGuardConfig of internal/wgquick, Parse of                 *)
(* internal/wgconfig).                                                     *)
THEOREM FilesAreReadAlike == QuickSpec => []FilesAgree
<1>1. QuickInit => source \in Seq(QuickLine)
  BY SourceTypes DEF QuickInit
<1>2. source \in Seq(QuickLine) /\ [UNCHANGED source]_source => (source \in Seq(QuickLine))'
  OBVIOUS
<1>3. source \in Seq(QuickLine) => FilesAgree
  BY AllAgree
<1> QED
  BY <1>1, <1>2, <1>3, PTL DEF QuickSpec

-----------------------------------------------------------------------------
(* The invariant of the runs of Save                                       *)

(* The device's part left aside, the configuration is the same.            *)
SameNet(c, f) ==
  c \in QuickFile /\ f \in QuickFile /\ c.addresses = f.addresses /\ c.hooks = f.hooks /\ c.net = f.net

(* The state of a run of its parts.                                        *)
RunOf(a, c, d, f, n) == [at |-> a, file |-> c, dev |-> d, fd |-> f, done |-> n]
(* The state of a run has these parts and no other.                        *)
IsRun(r) == r = RunOf(r.at, r.file, r.dev, r.fd, r.done)

(* A run holds the file of the beginning with a device in it.              *)
Merged(r, f) == r.dev \in DeviceNow /\ f \in QuickFile /\ r.file = ApplyDevice(f, r.dev)

(* The temporary file has the lines the run has written so far.            *)
HalfWritten(r, t, c) ==
  /\ r.fd = t /\ t # 0
  /\ r.done \in 0..Len(QuickEncode(r.file))
  /\ c[t].lines = SubSeq(QuickEncode(r.file), 1, r.done)

(* What a run holds fits with the step it is at.                           *)
Fits(r, f, t, c) ==
  /\ IsRun(r)
  /\ r.at = "device" => SameNet(r.file, f)
  /\ r.at \in {"open", "write", "rename"} => Merged(r, f)
  /\ r.at \in {"idle", "device", "open"} => r.done = 0
  /\ r.at \in {"write", "rename"} => HalfWritten(r, t, c)
  /\ r.at = "rename" => r.done = Len(QuickEncode(r.file))

(* So it is for each run.                                                  *)
RunsFit == DOMAIN saver = Saver /\ \A s \in Saver : Fits(saver[s], first, tmp, content)

(* At most one run has the temporary file open.                            *)
OneWriter == \A s, o \in Saver : Writing(s) /\ Writing(o) => s = o

(* Any number of files, on disk or not.                                    *)
SavedFiles == Seq([lines : Seq(QuickLine), safe : BOOLEAN])

(* The two names are of different files.                                   *)
NamesFit ==
  /\ content \in SavedFiles
  /\ path \in 0..Len(content) /\ tmp \in 0..Len(content)
  /\ tmp # 0 => tmp # path

(* What can be read of the file has what is not of the device from the     *)
(* beginning.                                                              *)
NetStays == FileNow # Bad => SameNet(FileNow, first)

(* The file has the lines of the save that ended last.                     *)
LastSaved ==
  published # Nil =>
    /\ path # 0 /\ published \in DeviceNow /\ first \in QuickFile
    /\ content[path].lines = QuickEncode(ApplyDevice(first, published))

(* All of these.                                                           *)
Sound == wg \in DeviceNow /\ NamesFit /\ RunsFit /\ OneWriter /\ NetStays /\ LastSaved

(* Nothing has happened that SavedWhole excepts.                           *)
Quiet == ~overlapped /\ ~powerless
(* The inductive invariant.                                                *)
Kept == Quiet => Sound

(* ApplyDevice leaves a configuration with the device's part exchanged.    *)
LEMMA MergedTypes ==
  ASSUME NEW f \in QuickFile, NEW d \in DeviceNow
  PROVE  KeyedFile(ApplyDevice(f, d)) /\ SameNet(ApplyDevice(f, d), f)
<1> DEFINE keys == SetToSeq(d.wg.peers)
           q == PeersFromDevice(d)
           i == OrUnset(d.iface)
<1>1. d.wg \in Device /\ d.iface \in Setting \cup {Default} /\ IsFiniteSet(Key) /\ IsFiniteSet(IP)
  BY SaveTypes
<1>2. d.wg.peers \subseteq Key /\ d.wg.setting \in [Key -> Setting \cup {Default}]
  BY <1>1 DEF Device
<1>3. keys \in Seq(d.wg.peers)
  BY <1>1, <1>2, FS_Subset, ListOfSet
<1>4. Len(keys) \in Nat /\ DOMAIN keys = 1..Len(keys) /\ \A n \in 1..Len(keys) : keys[n] \in Key
  BY <1>2, <1>3, LenProperties
<1>5. ASSUME NEW k \in Key
      PROVE  IPsOf(d, k) \in Seq(IP)
  <2> DEFINE A == {a \in IP : d.wg.owner[a] = k}
  <2>1. A \subseteq IP
    OBVIOUS
  <2>2. IsFiniteSet(A)
    BY <1>1, <2>1, FS_Subset
  <2> HIDE DEF A
  <2>3. SetToSeq(A) \in Seq(A)
    BY <2>2, ListOfSet
  <2>4. SetToSeq(A) \in Seq(IP)
    BY ONLY <2>1, <2>3, WiderSeq
  <2> QED
    BY <2>4 DEF IPsOf, A
<1>6. ASSUME NEW x \in Setting \cup {Default}
      PROVE  OrUnset(x) \in FileSetting /\ OrUnset(x) \in Setting \cup {Default, Unset}
  BY HostResolves DEF OrUnset, FileSetting
<1> HIDE DEF keys
<1>7. q = [n \in 1..Len(keys) |->
             [key |-> keys[n], setting |-> OrUnset(d.wg.setting[keys[n]]), ips |-> IPsOf(d, keys[n])]]
  BY <1>4 DEF PeersFromDevice, keys
<1>8. ASSUME NEW n \in 1..Len(keys)
      PROVE  q[n] \in QuickPeer /\ q[n].key \in Key
  <2>1. keys[n] \in Key /\ d.wg.setting[keys[n]] \in Setting \cup {Default}
    BY <1>2, <1>4
  <2>2. OrUnset(d.wg.setting[keys[n]]) \in FileSetting /\ IPsOf(d, keys[n]) \in Seq(IP)
    BY <1>5, <1>6, <2>1
  <2> QED
    BY <1>7, <2>1, <2>2 DEF QuickPeer
<1> HIDE DEF q
<1>9. q \in [1..Len(keys) -> QuickPeer]
  BY <1>7, <1>8
<1>10. q \in Seq(QuickPeer) /\ DOMAIN q = 1..Len(keys)
  BY <1>4, <1>9, SeqDef
<1>11. i \in Setting \cup {Default, Unset}
  BY <1>1, <1>6
<1>12. ApplyDevice(f, d) = [f EXCEPT !.iface = i, !.peers = q]
  BY DEF ApplyDevice, q
<1> HIDE DEF i
<1>13. /\ ApplyDevice(f, d) \in QuickFile /\ ApplyDevice(f, d).peers = q
       /\ ApplyDevice(f, d).addresses = f.addresses /\ ApplyDevice(f, d).hooks = f.hooks
       /\ ApplyDevice(f, d).net = f.net
  BY <1>10, <1>11, <1>12 DEF QuickFile
<1> QED
  BY <1>8, <1>10, <1>13 DEF KeyedFile, SameNet

(* Merging into the file of an earlier save gives what merging into the    *)
(* first one gives.                                                        *)
LEMMA SameMerge ==
  ASSUME NEW f \in QuickFile, NEW c, SameNet(c, f), NEW d
  PROVE  ApplyDevice(c, d) = ApplyDevice(f, d)
<1> DEFINE i == OrUnset(d.iface)
           q == PeersFromDevice(d)
<1> HIDE DEF i, q
<1>1. c \in QuickFile /\ c.addresses = f.addresses /\ c.hooks = f.hooks /\ c.net = f.net
  BY DEF SameNet
<1>2. [c EXCEPT !.iface = i, !.peers = q] = [f EXCEPT !.iface = i, !.peers = q]
  BY <1>1 DEF QuickFile
<1> QED
  BY <1>2 DEF ApplyDevice, i, q

(* What a save writes is what can be read of it.                           *)
LEMMA SavedParse ==
  ASSUME NEW f \in QuickFile, NEW d \in DeviceNow
  PROVE  LET c == ApplyDevice(f, d)
         IN  /\ QuickEncode(c) \in Seq(QuickLine)
             /\ QuickParse(QuickEncode(c)) = IF Usable(c) THEN c ELSE Bad
BY MergedTypes, EncodeParse

(* The invariant says that saves are whole.                                *)
LEMMA KeptEnough == Kept => SavedWhole
<1> SUFFICES ASSUME Kept, Quiet, published # Nil, Usable(ApplyDevice(first, published))
             PROVE  FileNow = ApplyDevice(first, published)
  BY DEF SavedWhole, Quiet
<1>1. LastSaved
  BY DEF Kept, Sound
<1>2. /\ path # 0 /\ published \in DeviceNow /\ first \in QuickFile
      /\ content[path].lines = QuickEncode(ApplyDevice(first, published))
  BY <1>1 DEF LastSaved
<1>3. QuickParse(QuickEncode(ApplyDevice(first, published))) = ApplyDevice(first, published)
  BY <1>2, SavedParse
<1> QED
  BY <1>2, <1>3 DEF FileNow

(* It holds at first.                                                      *)
LEMMA KeptInit == SaveInit => Kept
<1> SUFFICES ASSUME SaveInit, Quiet PROVE Sound
  BY DEF Kept
<1>1. wg \in DeviceNow /\ tmp = 0 /\ saver = [s \in Saver |-> Resting] /\ published = Nil
  BY DEF SaveInit
<1>2. \A s \in Saver : Fits(saver[s], first, tmp, content)
  <2>1. IsRun(Resting) /\ Resting.at = "idle" /\ Resting.done = 0
    BY DEF IsRun, RunOf, Resting
  <2>2. Fits(Resting, first, tmp, content)
    BY <2>1 DEF Fits
  <2> QED
    BY <1>1, <2>2
<1>3. RunsFit /\ OneWriter /\ LastSaved
  BY <1>1, <1>2 DEF RunsFit, OneWriter, LastSaved, Writing, Resting
<1>4. CASE content = <<>> /\ path = 0 /\ first = NewFile
  <2>1. FileNow = NewFile /\ NewFile \in QuickFile
    BY <1>4 DEF FileNow, NewFile, QuickFile
  <2>2. NetStays
    BY <1>4, <2>1 DEF NetStays, SameNet
  <2>3. NamesFit
    BY <1>1, <1>4 DEF NamesFit, SavedFiles
  <2> QED
    BY <1>1, <1>3, <2>2, <2>3 DEF Sound
<1>5. ASSUME NEW t \in Original \ {NoText},
             content = <<[lines |-> t, safe |-> TRUE]>>, first = QuickParse(t), path = 1
      PROVE  Sound
  <2>1. t \in Seq(QuickLine)
    BY SaveTypes
  <2>2. [lines |-> t, safe |-> TRUE] \in [lines : Seq(QuickLine), safe : BOOLEAN]
    BY <2>1
  <2>3. content \in SavedFiles /\ Len(content) = 1 /\ content[1].lines = t
    BY <1>5, <2>2 DEF SavedFiles
  <2>4. NamesFit
    BY <1>1, <1>5, <2>3 DEF NamesFit
  <2>5. FileNow = first
    BY <1>5, <2>3 DEF FileNow
  <2>6. first # Bad => first \in QuickFile
    BY <1>5, <2>1, ParseTypes DEF KeyedFile
  <2>7. NetStays
    BY <2>5, <2>6 DEF NetStays, SameNet
  <2> QED
    BY <1>1, <1>3, <2>4, <2>7 DEF Sound
<1> QED
  BY <1>4, <1>5 DEF SaveInit

-----------------------------------------------------------------------------
(* How a step changes a run                                                *)

(* How the parts of a run change: only its place.                          *)
LEMMA GoesTo ==
  ASSUME NEW r, IsRun(r), NEW x
  PROVE  [r EXCEPT !.at = x] = RunOf(x, r.file, r.dev, r.fd, r.done)
<1> DEFINE e == [r EXCEPT !.at = x]
<1>1. r \in [at : {r.at}, file : {r.file}, dev : {r.dev}, fd : {r.fd}, done : {r.done}]
  BY DEF IsRun, RunOf
<1>2. e.at = x /\ e.file = r.file /\ e.dev = r.dev /\ e.fd = r.fd /\ e.done = r.done
  BY <1>1
<1>3. e \in [at : {x}, file : {r.file}, dev : {r.dev}, fd : {r.fd}, done : {r.done}]
  BY <1>1
<1> HIDE DEF e
<1>4. e = [at |-> e.at, file |-> e.file, dev |-> e.dev, fd |-> e.fd, done |-> e.done]
  BY <1>3
<1>5. e = RunOf(x, r.file, r.dev, r.fd, r.done)
  BY <1>2, <1>4 DEF RunOf
<1> QED
  BY <1>5 DEF e

(* One more line written.                                                  *)
LEMMA HasDone ==
  ASSUME NEW r, IsRun(r), NEW x
  PROVE  [r EXCEPT !.done = x] = RunOf(r.at, r.file, r.dev, r.fd, x)
<1> DEFINE e == [r EXCEPT !.done = x]
<1>1. r \in [at : {r.at}, file : {r.file}, dev : {r.dev}, fd : {r.fd}, done : {r.done}]
  BY DEF IsRun, RunOf
<1>2. e.at = r.at /\ e.file = r.file /\ e.dev = r.dev /\ e.fd = r.fd /\ e.done = x
  BY <1>1
<1>3. e \in [at : {r.at}, file : {r.file}, dev : {r.dev}, fd : {r.fd}, done : {x}]
  BY <1>1
<1> HIDE DEF e
<1>4. e = [at |-> e.at, file |-> e.file, dev |-> e.dev, fd |-> e.fd, done |-> e.done]
  BY <1>3
<1>5. e = RunOf(r.at, r.file, r.dev, r.fd, x)
  BY <1>2, <1>4 DEF RunOf
<1> QED
  BY <1>5 DEF e

(* The file has been read.                                                 *)
LEMMA HasFile ==
  ASSUME NEW r, IsRun(r), NEW x, NEW y
  PROVE  [r EXCEPT !.at = x, !.file = y] = RunOf(x, y, r.dev, r.fd, r.done)
<1> DEFINE e == [r EXCEPT !.at = x, !.file = y]
<1>1. r \in [at : {r.at}, file : {r.file}, dev : {r.dev}, fd : {r.fd}, done : {r.done}]
  BY DEF IsRun, RunOf
<1>2. e.at = x /\ e.file = y /\ e.dev = r.dev /\ e.fd = r.fd /\ e.done = r.done
  BY <1>1
<1>3. e \in [at : {x}, file : {y}, dev : {r.dev}, fd : {r.fd}, done : {r.done}]
  BY <1>1
<1> HIDE DEF e
<1>4. e = [at |-> e.at, file |-> e.file, dev |-> e.dev, fd |-> e.fd, done |-> e.done]
  BY <1>3
<1>5. e = RunOf(x, y, r.dev, r.fd, r.done)
  BY <1>2, <1>4 DEF RunOf
<1> QED
  BY <1>5 DEF e

(* The temporary file is open.                                             *)
LEMMA HasTmp ==
  ASSUME NEW r, IsRun(r), NEW x, NEW y
  PROVE  [r EXCEPT !.at = x, !.fd = y] = RunOf(x, r.file, r.dev, y, r.done)
<1> DEFINE e == [r EXCEPT !.at = x, !.fd = y]
<1>1. r \in [at : {r.at}, file : {r.file}, dev : {r.dev}, fd : {r.fd}, done : {r.done}]
  BY DEF IsRun, RunOf
<1>2. e.at = x /\ e.file = r.file /\ e.dev = r.dev /\ e.fd = y /\ e.done = r.done
  BY <1>1
<1>3. e \in [at : {x}, file : {r.file}, dev : {r.dev}, fd : {y}, done : {r.done}]
  BY <1>1
<1> HIDE DEF e
<1>4. e = [at |-> e.at, file |-> e.file, dev |-> e.dev, fd |-> e.fd, done |-> e.done]
  BY <1>3
<1>5. e = RunOf(x, r.file, r.dev, y, r.done)
  BY <1>2, <1>4 DEF RunOf
<1> QED
  BY <1>5 DEF e

(* The device has been read and merged.                                    *)
LEMMA HasDevice ==
  ASSUME NEW r, IsRun(r), NEW x, NEW y, NEW z
  PROVE  [r EXCEPT !.at = x, !.dev = y, !.file = z] = RunOf(x, z, y, r.fd, r.done)
<1> DEFINE e == [r EXCEPT !.at = x, !.dev = y, !.file = z]
<1>1. r \in [at : {r.at}, file : {r.file}, dev : {r.dev}, fd : {r.fd}, done : {r.done}]
  BY DEF IsRun, RunOf
<1>2. e.at = x /\ e.file = z /\ e.dev = y /\ e.fd = r.fd /\ e.done = r.done
  BY <1>1
<1>3. e \in [at : {x}, file : {z}, dev : {y}, fd : {r.fd}, done : {r.done}]
  BY <1>1
<1> HIDE DEF e
<1>4. e = [at |-> e.at, file |-> e.file, dev |-> e.dev, fd |-> e.fd, done |-> e.done]
  BY <1>3
<1>5. e = RunOf(x, z, y, r.fd, r.done)
  BY <1>2, <1>4 DEF RunOf
<1> QED
  BY <1>5 DEF e

-----------------------------------------------------------------------------
(* The files                                                               *)

(* One file.                                                               *)
SavedFile == [lines : Seq(QuickLine), safe : BOOLEAN]

(* The files as a function.                                                *)
LEMMA FilesParts ==
  ASSUME NEW c \in SavedFiles
  PROVE  Len(c) \in Nat /\ DOMAIN c = 1..Len(c) /\ c \in [1..Len(c) -> SavedFile]
<1> DEFINE X == SavedFile
<1>1. c \in Seq(X)
  BY DEF SavedFiles, SavedFile
<1> HIDE DEF X
<1>2. Len(c) \in Nat /\ DOMAIN c = 1..Len(c) /\ c \in [1..Len(c) -> X]
  BY <1>1, LenProperties
<1> QED
  BY <1>2 DEF X

(* Another content for one of them.                                        *)
LEMMA FileEdited ==
  ASSUME NEW c \in SavedFiles, NEW n \in 1..Len(c), NEW x \in SavedFile
  PROVE  /\ [c EXCEPT ![n] = x] \in SavedFiles /\ Len([c EXCEPT ![n] = x]) = Len(c)
         /\ [c EXCEPT ![n] = x][n] = x
         /\ \A m \in 1..Len(c) \ {n} : [c EXCEPT ![n] = x][m] = c[m]
<1> DEFINE X == SavedFile
           e == [c EXCEPT ![n] = x]
<1>1. Len(c) \in Nat /\ DOMAIN c = 1..Len(c) /\ c \in [1..Len(c) -> X]
  BY FilesParts
<1> HIDE DEF X
<1>2. x \in X
  BY DEF X
<1>3. /\ e \in [1..Len(c) -> X]
      /\ e[n] = x /\ \A m \in 1..Len(c) \ {n} : e[m] = c[m]
  BY <1>1, <1>2
<1> HIDE DEF e
<1>4. e \in Seq(X)
  BY <1>1, <1>3, SeqDef
<1>5. Len(e) = Len(c)
  BY <1>1, <1>3, <1>4, LenProperties
<1>6. e \in SavedFiles
  BY <1>4 DEF X, SavedFiles, SavedFile
<1> QED
  BY <1>3, <1>5, <1>6 DEF e

(* A flush leaves the lines.                                               *)
LEMMA FileFlushed ==
  ASSUME NEW e \in SavedFile
  PROVE  [e EXCEPT !.safe = TRUE] \in SavedFile /\ [e EXCEPT !.safe = TRUE].lines = e.lines
<1>1. e \in [lines : Seq(QuickLine), safe : BOOLEAN]
  BY DEF SavedFile
<1> QED
  BY <1>1 DEF SavedFile

-----------------------------------------------------------------------------
(* The steps                                                               *)

(* A run that does not write does not see the temporary file.              *)
LEMMA FitsOn ==
  ASSUME NEW r, NEW f, NEW t, NEW c, NEW u, NEW e, Fits(r, f, t, c),
         r.at \in {"write", "rename"} => u = t /\ e[t].lines = c[t].lines
  PROVE  Fits(r, f, u, e)
BY DEF Fits, HalfWritten

(* A run that has ended fits.                                              *)
LEMMA FitsResting ==
  ASSUME NEW f, NEW t, NEW c
  PROVE  Fits(Resting, f, t, c) /\ Resting.at = "idle"
BY DEF Fits, Resting, IsRun, RunOf

(* A step of one run keeps all runs fitting if it leaves the others alone. *)
LEMMA OneMoves ==
  ASSUME RunsFit, OneWriter, NEW s \in Saver, NEW r, saver' = [saver EXCEPT ![s] = r],
         Fits(r, first', tmp', content'),
         \A o \in Saver \ {s} : Writing(o) => tmp' = tmp /\ content'[tmp].lines = content[tmp].lines,
         first' = first,
         r.at \in {"write", "rename"} => \A o \in Saver \ {s} : ~Writing(o)
  PROVE  RunsFit' /\ OneWriter'
<1>1. saver'[s] = r /\ DOMAIN saver' = Saver /\ \A o \in Saver \ {s} : saver'[o] = saver[o]
  BY DEF RunsFit
<1>2. ASSUME NEW o \in Saver
      PROVE  Fits(saver'[o], first', tmp', content')
  <2>1. CASE o = s
    BY <1>1, <2>1
  <2>2. CASE o # s
    <3>1. Fits(saver[o], first, tmp, content)
      BY DEF RunsFit
    <3>2. saver[o].at \in {"write", "rename"} => tmp' = tmp /\ content'[tmp].lines = content[tmp].lines
      BY <2>2 DEF Writing
    <3>3. Fits(saver[o], first, tmp', content')
      BY <3>1, <3>2, FitsOn
    <3> QED
      BY <1>1, <2>2, <3>3
  <2> QED
    BY <2>1, <2>2
<1>3. RunsFit'
  BY <1>1, <1>2 DEF RunsFit
<1>4. OneWriter'
  <2>1. \A o \in Saver \ {s} : Writing(o)' <=> Writing(o)
    BY <1>1 DEF Writing
  <2>2. Writing(s)' <=> r.at \in {"write", "rename"}
    BY <1>1 DEF Writing
  <2> QED
    BY <2>1, <2>2 DEF OneWriter
<1> QED
  BY <1>3, <1>4

(* A step that leaves the file alone keeps what is said of it.             *)
LEMMA FileStays ==
  ASSUME NetStays, LastSaved, path' = path, first' = first, published' = published,
         path # 0 => content'[path].lines = content[path].lines
  PROVE  NetStays' /\ LastSaved'
<1>1. FileNow' = FileNow
  BY DEF FileNow
<1>2. NetStays'
  BY <1>1 DEF NetStays
<1>3. LastSaved'
  BY DEF LastSaved
<1> QED
  BY <1>2, <1>3

(* What the invariant says of one run.                                     *)
LEMMA RunParts ==
  ASSUME RunsFit, NEW s \in Saver
  PROVE  /\ Fits(saver[s], first, tmp, content) /\ IsRun(saver[s])
         /\ DOMAIN saver = Saver
BY DEF RunsFit, Fits

(* ReadFile: what is read has the network part of the beginning.           *)
LEMMA KeptReadFile ==
  ASSUME Sound, NEW s \in Saver, ReadFile(s)
  PROVE  Sound'
<1> DEFINE r == RunOf("device", FileNow, Nil, 0, 0)
<1>1. FileNow # Bad /\ UNCHANGED <<wg, content, path, tmp, first, published>>
  BY DEF ReadFile, names
<1>2. saver' = [saver EXCEPT ![s] = r]
  <2>1. saver' = [saver EXCEPT ![s] = [Resting EXCEPT !.at = "device", !.file = FileNow]]
    BY DEF ReadFile, Steps
  <2>2. IsRun(Resting) /\ Resting.dev = Nil /\ Resting.fd = 0 /\ Resting.done = 0
    BY DEF IsRun, Resting, RunOf
  <2>3. [Resting EXCEPT !.at = "device", !.file = FileNow]
          = RunOf("device", FileNow, Resting.dev, Resting.fd, Resting.done)
    BY <2>2, HasFile, Zenon
  <2> QED
    BY <2>1, <2>2, <2>3
<1>3. SameNet(FileNow, first)
  BY <1>1 DEF Sound, NetStays
<1>4. Fits(r, first, tmp, content) /\ r.at = "device"
  BY <1>3 DEF Fits, IsRun, RunOf
<1> HIDE DEF r
<1>5. RunsFit' /\ OneWriter'
  BY <1>1, <1>2, <1>4, OneMoves DEF Sound
<1>6. NetStays' /\ LastSaved'
  BY <1>1, FileStays DEF Sound
<1>7. NamesFit'
  BY <1>1 DEF Sound, NamesFit
<1> QED
  BY <1>1, <1>5, <1>6, <1>7 DEF Sound

(* ReadDevice1: what is merged is the first file with the device.          *)
LEMMA KeptReadDevice ==
  ASSUME Sound, NEW s \in Saver, ReadDevice1(s)
  PROVE  Sound'
<1> DEFINE o == saver[s]
           r == RunOf("open", ApplyDevice(o.file, wg), wg, o.fd, o.done)
<1>1. Fits(o, first, tmp, content) /\ IsRun(o)
  BY RunParts DEF Sound
<1>2. o.at = "device" /\ UNCHANGED <<wg, content, path, tmp, first, published>>
  BY DEF ReadDevice1, Steps, names, saves
<1>3. saver' = [saver EXCEPT ![s] = r]
  <2>1. saver' = [saver EXCEPT ![s] = [o EXCEPT !.at = "open", !.dev = wg, !.file = ApplyDevice(o.file, wg)]]
    BY DEF ReadDevice1, Steps
  <2>2. [o EXCEPT !.at = "open", !.dev = wg, !.file = ApplyDevice(o.file, wg)] = r
    <3> HIDE DEF o
    <3> QED
      BY <1>1, HasDevice, Zenon
  <2> QED
    BY <2>1, <2>2
<1>4. SameNet(o.file, first) /\ o.done = 0
  BY <1>1, <1>2 DEF Fits
<1> HIDE DEF o
<1>5. ApplyDevice(o.file, wg) = ApplyDevice(first, wg) /\ first \in QuickFile
  BY <1>4, SameMerge DEF SameNet
<1>6. wg \in DeviceNow
  BY DEF Sound
<1>7. Fits(r, first, tmp, content) /\ r.at = "open"
  BY <1>4, <1>5, <1>6 DEF Fits, IsRun, RunOf, Merged
<1> HIDE DEF r
<1>8. RunsFit' /\ OneWriter'
  BY <1>2, <1>3, <1>7, OneMoves DEF Sound
<1>9. NetStays' /\ LastSaved'
  BY <1>2, FileStays DEF Sound
<1>10. NamesFit'
  BY <1>2 DEF Sound, NamesFit
<1> QED
  BY <1>2, <1>8, <1>9, <1>10 DEF Sound

(* OpenTmp: the temporary file is empty, and no other run has it open.     *)
LEMMA KeptOpenTmp ==
  ASSUME Sound, NEW s \in Saver, OpenTmp(s), ~overlapped'
  PROVE  Sound'
<1> DEFINE o == saver[s]
           r == RunOf("write", o.file, o.dev, tmp', o.done)
           new == [lines |-> <<>>, safe |-> FALSE]
<1>1. Fits(o, first, tmp, content) /\ IsRun(o)
  BY RunParts DEF Sound
<1>2. /\ o.at = "open" /\ UNCHANGED <<wg, path, first, published>>
      /\ \A x \in Saver : ~Writing(x)
  BY DEF OpenTmp, Steps
<1>3. saver' = [saver EXCEPT ![s] = r]
  <2>1. saver' = [saver EXCEPT ![s] = [o EXCEPT !.at = "write", !.fd = tmp']]
    BY DEF OpenTmp, Steps
  <2>2. [o EXCEPT !.at = "write", !.fd = tmp'] = r
    <3> HIDE DEF o
    <3> QED
      BY <1>1, HasTmp, Zenon
  <2> QED
    BY <2>1, <2>2
<1>4. Merged(o, first) /\ o.done = 0
  BY <1>1, <1>2 DEF Fits
<1> HIDE DEF o
<1>5. /\ content \in SavedFiles /\ Len(content) \in Nat /\ DOMAIN content = 1..Len(content)
      /\ path \in 0..Len(content) /\ tmp \in 0..Len(content) /\ (tmp # 0 => tmp # path)
  BY LenProperties DEF Sound, NamesFit, SavedFiles
<1>6. new \in [lines : Seq(QuickLine), safe : BOOLEAN]
  OBVIOUS
<1>7. /\ content' \in SavedFiles /\ Len(content') >= Len(content) /\ Len(content') \in Nat
      /\ tmp' \in 1..Len(content') /\ tmp' # path
      /\ content'[tmp'].lines = <<>>
      /\ path # 0 => content'[path].lines = content[path].lines
  <2>1. CASE tmp = 0
    <3>1. content' = Append(content, new) /\ tmp' = Len(content) + 1
      BY <2>1 DEF OpenTmp
    <3> HIDE DEF new
    <3>2. /\ content' \in SavedFiles /\ Len(content') = Len(content) + 1
          /\ \A x \in 1..Len(content) : content'[x] = content[x]
          /\ content'[Len(content) + 1] = new
      BY <1>5, <1>6, <3>1, AppendProperties DEF SavedFiles
    <3>3. new.lines = <<>>
      BY DEF new
    <3> QED
      BY <1>5, <3>1, <3>2, <3>3
  <2>2. CASE tmp # 0
    <3>1. content' = [content EXCEPT ![tmp] = new] /\ tmp' = tmp
      BY <2>2 DEF OpenTmp
    <3> HIDE DEF new
    <3>2. tmp \in 1..Len(content)
      BY <1>5, <2>2
    <3>3. /\ content' \in SavedFiles /\ Len(content') = Len(content)
          /\ content'[tmp] = new /\ \A x \in 1..Len(content) \ {tmp} : content'[x] = content[x]
      <4>1. new \in SavedFile
        BY <1>6 DEF SavedFile
      <4> QED
        BY <1>5, <3>1, <3>2, <4>1, FileEdited
    <3>4. new.lines = <<>>
      BY DEF new
    <3> QED
      BY <1>5, <2>2, <3>1, <3>2, <3>3, <3>4
  <2> QED
    BY <2>1, <2>2
<1> HIDE DEF new
<1>8. Fits(r, first', tmp', content') /\ r.at = "write"
  <2>1. QuickEncode(o.file) \in Seq(QuickLine)
    BY <1>4, SavedParse DEF Merged
  <2>2. Len(QuickEncode(o.file)) \in Nat /\ SubSeq(QuickEncode(o.file), 1, 0) = <<>>
    BY <2>1, LenProperties
  <2>3. HalfWritten(r, tmp', content')
    BY <1>4, <1>5, <1>7, <2>2 DEF HalfWritten, RunOf
  <2>4. Merged(r, first')
    BY <1>2, <1>4 DEF Merged, RunOf
  <2> QED
    BY <2>3, <2>4 DEF Fits, IsRun, RunOf
<1> HIDE DEF r
<1>9. RunsFit' /\ OneWriter'
  BY <1>2, <1>3, <1>8, OneMoves DEF Sound
<1>10. NetStays' /\ LastSaved'
  BY <1>2, <1>7, FileStays DEF Sound
<1>11. NamesFit'
  BY <1>2, <1>5, <1>7 DEF NamesFit
<1> QED
  BY <1>2, <1>9, <1>10, <1>11 DEF Sound

(* Writing the next line over what is there gives the next prefix.         *)
LEMMA NextLine ==
  ASSUME NEW S, NEW all \in Seq(S), NEW n \in 0..Len(all), n < Len(all)
  PROVE  Overwritten(SubSeq(all, 1, n), n + 1, all[n + 1]) = SubSeq(all, 1, n + 1)
<1> DEFINE s == SubSeq(all, 1, n)
           t == SubSeq(all, 1, n + 1)
<1>1. /\ s \in Seq(S) /\ Len(s) = n /\ (\A i \in 1..n : s[i] = all[i]) /\ n \in Nat
  BY LenProperties, Beginning
<1>2. n + 1 \in 0..Len(all)
  BY LenProperties
<1>3. t \in Seq(S) /\ Len(t) = n + 1 /\ \A i \in 1..(n + 1) : t[i] = all[i]
  BY <1>2, Beginning
<1> HIDE DEF s, t
<1>4. DOMAIN s = 1..n /\ t = [i \in 1..(n + 1) |-> t[i]]
  BY <1>1, <1>3, LenProperties, SeqDef
<1>5. Overwritten(s, n + 1, all[n + 1]) = [i \in 1..(n + 1) |-> IF i = n + 1 THEN all[n + 1] ELSE s[i]]
  BY <1>1, <1>4 DEF Overwritten
<1>6. \A i \in 1..(n + 1) : t[i] = IF i = n + 1 THEN all[n + 1] ELSE s[i]
  BY <1>1, <1>3
<1>7. Overwritten(s, n + 1, all[n + 1]) = t
  BY <1>4, <1>5, <1>6
<1> QED
  BY <1>7 DEF s, t

(* WriteLine: one more line is in the temporary file.                      *)
LEMMA KeptWriteLine ==
  ASSUME Sound, NEW s \in Saver, WriteLine(s)
  PROVE  Sound'
<1> DEFINE o == saver[s]
           all == QuickEncode(o.file)
           r == RunOf(o.at, o.file, o.dev, o.fd, o.done + 1)
           ls == Overwritten(content[o.fd].lines, o.done + 1, all[o.done + 1])
<1>1. Fits(o, first, tmp, content) /\ IsRun(o)
  BY RunParts DEF Sound
<1>2. o.at = "write" /\ o.done < Len(all) /\ UNCHANGED <<wg, path, tmp, first, published>>
  BY DEF WriteLine, Steps, names, saves
<1>3. saver' = [saver EXCEPT ![s] = r]
  <2>1. saver' = [saver EXCEPT ![s] = [o EXCEPT !.done = o.done + 1]]
    BY DEF WriteLine, Steps
  <2>2. [o EXCEPT !.done = o.done + 1] = r
    <3> HIDE DEF o
    <3> QED
      BY <1>1, HasDone, Zenon
  <2> QED
    BY <2>1, <2>2
<1>4. content' = [content EXCEPT ![o.fd].lines = ls, ![o.fd].safe = FALSE]
  BY DEF WriteLine
<1>5. Merged(o, first) /\ HalfWritten(o, tmp, content)
  BY <1>1, <1>2 DEF Fits
<1>6. \A x \in Saver \ {s} : ~Writing(x)
  BY <1>2 DEF Sound, OneWriter, Writing
<1> HIDE DEF o
<1>7. all \in Seq(QuickLine)
  BY <1>5, SavedParse DEF Merged
<1> HIDE DEF all
<1>8. /\ o.fd = tmp /\ tmp # 0 /\ o.done \in 0..Len(all) /\ content[tmp].lines = SubSeq(all, 1, o.done)
  BY <1>5 DEF HalfWritten, all
<1>9. ls = SubSeq(all, 1, o.done + 1)
  BY <1>2, <1>7, <1>8, NextLine
<1> HIDE DEF ls
<1>10. /\ content \in SavedFiles /\ Len(content) \in Nat /\ DOMAIN content = 1..Len(content)
       /\ path \in 0..Len(content) /\ tmp \in 1..Len(content) /\ tmp # path
  BY <1>8, FilesParts DEF Sound, NamesFit
<1>11. o.done + 1 \in 0..Len(all) /\ ls \in Seq(QuickLine)
  <2>1. o.done + 1 \in 0..Len(all)
    BY <1>2, <1>7, <1>8, LenProperties
  <2> QED
    BY <1>7, <1>9, <2>1, Beginning
<1>12. content' = [content EXCEPT ![tmp] = [lines |-> ls, safe |-> FALSE]]
  <2>1. content[tmp] \in [lines : Seq(QuickLine), safe : BOOLEAN]
    BY <1>10, FilesParts DEF SavedFile
  <2> DEFINE e == [[content[tmp] EXCEPT !.lines = ls] EXCEPT !.safe = FALSE]
  <2>2. e.lines = ls /\ e.safe = FALSE /\ e \in [lines : {ls}, safe : {FALSE}]
    BY <2>1
  <2>3. content' = [content EXCEPT ![tmp] = e]
    BY <1>4, <1>8, <1>10
  <2> HIDE DEF e
  <2>4. e = [lines |-> ls, safe |-> FALSE]
    BY <2>2
  <2> QED
    BY <2>3, <2>4
<1>13. /\ content' \in SavedFiles /\ Len(content') = Len(content)
       /\ content'[tmp].lines = ls
       /\ path # 0 => content'[path].lines = content[path].lines
  <2> DEFINE new == [lines |-> ls, safe |-> FALSE]
  <2>1. new \in SavedFile /\ new.lines = ls
    BY <1>11 DEF SavedFile
  <2> HIDE DEF new
  <2>2. content' = [content EXCEPT ![tmp] = new]
    BY <1>12 DEF new
  <2>3. /\ content' \in SavedFiles /\ Len(content') = Len(content) /\ content'[tmp] = new
        /\ \A n \in 1..Len(content) \ {tmp} : content'[n] = content[n]
    BY <1>10, <2>1, <2>2, FileEdited
  <2> QED
    BY <1>10, <2>1, <2>3
<1>14. Fits(r, first', tmp', content') /\ r.at = "write"
  <2>1. HalfWritten(r, tmp', content')
    BY <1>2, <1>8, <1>9, <1>11, <1>13 DEF HalfWritten, RunOf, all
  <2>2. Merged(r, first')
    BY <1>2, <1>5 DEF Merged, RunOf
  <2> QED
    BY <1>2, <2>1, <2>2 DEF Fits, IsRun, RunOf
<1> HIDE DEF r
<1>15. RunsFit' /\ OneWriter'
  BY <1>2, <1>3, <1>6, <1>14, OneMoves DEF Sound
<1>16. NetStays' /\ LastSaved'
  BY <1>2, <1>13, FileStays DEF Sound
<1>17. NamesFit'
  BY <1>2, <1>10, <1>13 DEF NamesFit
<1> QED
  BY <1>2, <1>15, <1>16, <1>17 DEF Sound

(* CloseTmp: all lines are.                                                *)
LEMMA KeptCloseTmp ==
  ASSUME Sound, NEW s \in Saver, CloseTmp(s)
  PROVE  Sound'
<1> DEFINE o == saver[s]
           r == RunOf("rename", o.file, o.dev, o.fd, o.done)
<1>1. Fits(o, first, tmp, content) /\ IsRun(o)
  BY RunParts DEF Sound
<1>2. /\ o.at = "write" /\ o.done = Len(QuickEncode(o.file))
      /\ UNCHANGED <<wg, content, path, tmp, first, published>>
  BY DEF CloseTmp, Steps, names, saves
<1>3. saver' = [saver EXCEPT ![s] = r]
  <2>1. saver' = [saver EXCEPT ![s] = [o EXCEPT !.at = "rename"]]
    BY DEF CloseTmp, Steps
  <2>2. [o EXCEPT !.at = "rename"] = r
    <3> HIDE DEF o
    <3> QED
      BY <1>1, GoesTo, Zenon
  <2> QED
    BY <2>1, <2>2
<1>4. \A x \in Saver \ {s} : ~Writing(x)
  BY <1>2 DEF Sound, OneWriter, Writing
<1> HIDE DEF o
<1>5. Fits(r, first', tmp', content') /\ r.at = "rename"
  BY <1>1, <1>2 DEF Fits, IsRun, RunOf, HalfWritten, Merged
<1> HIDE DEF r
<1>6. RunsFit' /\ OneWriter'
  BY <1>2, <1>3, <1>4, <1>5, OneMoves DEF Sound
<1>7. NetStays' /\ LastSaved'
  BY <1>2, FileStays DEF Sound
<1>8. NamesFit'
  BY <1>2 DEF Sound, NamesFit
<1> QED
  BY <1>2, <1>6, <1>7, <1>8 DEF Sound

(* A run that ends, or fails, takes nothing but its temporary file.        *)
LEMMA KeptEnds ==
  ASSUME Sound, NEW s \in Saver, saver' = [saver EXCEPT ![s] = Resting],
         UNCHANGED <<wg, content, path, first, published>>,
         tmp' \in {0, tmp}, tmp' = tmp \/ \A o \in Saver \ {s} : ~Writing(o)
  PROVE  Sound'
<1>1. Fits(Resting, first', tmp', content') /\ Resting.at = "idle"
  BY FitsResting
<1>2. RunsFit' /\ OneWriter'
  BY <1>1, OneMoves DEF Sound
<1>3. NetStays' /\ LastSaved'
  BY FileStays DEF Sound
<1>4. NamesFit'
  BY LenProperties DEF Sound, NamesFit, SavedFiles
<1> QED
  BY <1>2, <1>3, <1>4 DEF Sound

(* Rename: the file is now what this run has written, all of it.           *)
LEMMA KeptRename ==
  ASSUME Sound, NEW s \in Saver, Rename(s)
  PROVE  Sound'
<1> DEFINE o == saver[s]
<1>1. Fits(o, first, tmp, content) /\ IsRun(o)
  BY RunParts DEF Sound
<1>2. /\ o.at = "rename" /\ saver' = [saver EXCEPT ![s] = Resting]
      /\ UNCHANGED <<wg, content, first>>
  BY DEF Rename, Steps
<1>3. Merged(o, first) /\ HalfWritten(o, tmp, content) /\ o.done = Len(QuickEncode(o.file))
  BY <1>1, <1>2 DEF Fits
<1>4. \A x \in Saver \ {s} : ~Writing(x)
  BY <1>2 DEF Sound, OneWriter, Writing
<1>5. path' = tmp /\ tmp' = 0 /\ published' = o.dev
  BY <1>3 DEF Rename, HalfWritten
<1> HIDE DEF o
<1>6. QuickEncode(o.file) \in Seq(QuickLine)
  BY <1>3, SavedParse DEF Merged
<1>7. content[tmp].lines = QuickEncode(o.file) /\ tmp # 0
  <2>1. SubSeq(QuickEncode(o.file), 1, Len(QuickEncode(o.file))) = QuickEncode(o.file)
    BY <1>6
  <2> QED
    BY <1>3, <2>1 DEF HalfWritten
<1>8. /\ o.dev \in DeviceNow /\ first \in QuickFile
      /\ o.file = ApplyDevice(first, o.dev)
  BY <1>3 DEF Merged
<1>9. LastSaved'
  BY <1>2, <1>5, <1>7, <1>8 DEF LastSaved
<1>10. NetStays'
  <2>1. FileNow' = QuickParse(QuickEncode(o.file))
    BY <1>2, <1>5, <1>7 DEF FileNow
  <2>2. FileNow' # Bad => FileNow' = o.file
    BY <1>8, <2>1, SavedParse
  <2>3. SameNet(o.file, first)
    BY <1>8, MergedTypes
  <2> QED
    BY <1>2, <2>2, <2>3 DEF NetStays
<1>11. Fits(Resting, first', tmp', content') /\ Resting.at = "idle"
  BY FitsResting
<1>12. RunsFit' /\ OneWriter'
  BY <1>2, <1>4, <1>11, OneMoves DEF Sound
<1>13. NamesFit'
  BY <1>2, <1>5, <1>7, LenProperties DEF Sound, NamesFit, SavedFiles
<1> QED
  BY <1>2, <1>9, <1>10, <1>12, <1>13 DEF Sound

(* Flush leaves the lines.                                                 *)
LEMMA KeptFlush ==
  ASSUME Sound, Flush
  PROVE  Sound'
<1> DEFINE new == [content[path] EXCEPT !.safe = TRUE]
<1>1. /\ path # 0 /\ content' = [content EXCEPT ![path] = new]
      /\ UNCHANGED <<wg, path, tmp, saver, first, published>>
  BY DEF Flush, names, saves
<1>2. content \in SavedFiles /\ Len(content) \in Nat /\ path \in 1..Len(content) /\ content[path] \in SavedFile
  <2>1. content \in SavedFiles /\ path \in 0..Len(content)
    BY DEF Sound, NamesFit
  <2> QED
    BY <1>1, <2>1, FilesParts
<1>3. new \in SavedFile /\ new.lines = content[path].lines
  BY <1>2, FileFlushed
<1> HIDE DEF new
<1>4. /\ content' \in SavedFiles /\ Len(content') = Len(content) /\ content'[path] = new
      /\ \A n \in 1..Len(content) \ {path} : content'[n] = content[n]
  <2>1. content' = [content EXCEPT ![path] = new]
    BY <1>1
  <2>2. content \in SavedFiles /\ path \in 1..Len(content) /\ new \in SavedFile
    BY <1>2, <1>3
  <2> DEFINE c == content
             p == path
             e == [c EXCEPT ![p] = new]
  <2> HIDE DEF c, p
  <2>3. c \in SavedFiles /\ p \in 1..Len(c)
    BY <2>2 DEF c, p
  <2>4. e \in SavedFiles /\ Len(e) = Len(c) /\ e[p] = new /\ \A n \in 1..Len(c) \ {p} : e[n] = c[n]
    BY <2>2, <2>3, FileEdited
  <2> HIDE DEF e
  <2>5. content' = e
    BY <2>1 DEF e, c, p
  <2> QED
    BY <2>4, <2>5 DEF c, p
<1>5. ASSUME NEW n \in 1..Len(content) PROVE content'[n].lines = content[n].lines
  <2>1. CASE n = path
    BY <1>3, <1>4, <2>1
  <2>2. CASE n # path
    BY <1>4, <2>2
  <2> QED
    BY <2>1, <2>2
<1>6. NamesFit'
  BY <1>1, <1>4 DEF Sound, NamesFit
<1>7. NetStays' /\ LastSaved'
  BY <1>1, <1>2, <1>5, FileStays DEF Sound
<1>8. ASSUME NEW s \in Saver PROVE Fits(saver[s], first', tmp', content')
  <2>1. Fits(saver[s], first, tmp, content) /\ tmp \in 0..Len(content)
    BY RunParts DEF Sound, NamesFit
  <2>2. saver[s].at \in {"write", "rename"} => tmp # 0
    BY <2>1 DEF Fits, HalfWritten
  <2>3. saver[s].at \in {"write", "rename"} => tmp' = tmp /\ content'[tmp].lines = content[tmp].lines
    BY <1>1, <1>2, <1>5, <2>1, <2>2
  <2>4. Fits(saver[s], first, tmp', content')
    BY <2>1, <2>3, FitsOn
  <2> QED
    BY <1>1, <2>4
<1>9. RunsFit' /\ OneWriter'
  BY <1>1, <1>8 DEF Sound, RunsFit, OneWriter, Writing
<1> QED
  BY <1>1, <1>6, <1>7, <1>9 DEF Sound

(* PowerFails, if what the file has is on disk.                            *)
LEMMA KeptPowerFails ==
  ASSUME Sound, PowerFails, ~powerless'
  PROVE  Sound'
<1>1. /\ saver' = [s \in Saver |-> Resting] /\ content' = content
      /\ UNCHANGED <<wg, path, tmp, first, published>>
  BY DEF PowerFails, names
<1>2. RunsFit' /\ OneWriter'
  <2>1. \A s \in Saver : Fits(saver'[s], first', tmp', content') /\ ~Writing(s)'
    BY <1>1, FitsResting DEF Writing
  <2> QED
    BY <1>1, <2>1 DEF RunsFit, OneWriter
<1>3. NetStays' /\ LastSaved'
  BY <1>1, FileStays DEF Sound
<1>4. NamesFit'
  BY <1>1 DEF Sound, NamesFit
<1> QED
  BY <1>1, <1>2, <1>3, <1>4 DEF Sound

(* Another device, nothing else.                                           *)
LEMMA KeptIdle ==
  ASSUME Sound, wg' \in DeviceNow, UNCHANGED <<content, path, tmp, saver, first, published>>
  PROVE  Sound'
BY DEF Sound, NamesFit, RunsFit, OneWriter, Writing, NetStays, FileNow, LastSaved

(* Every step keeps the invariant.                                         *)
LEMMA KeptStep == Kept /\ [SaveNext]_qvars => Kept'
<1> SUFFICES ASSUME Kept, [SaveNext]_qvars, Quiet' PROVE Sound'
  BY DEF Kept
<1>1. Sound
  <2>1. Quiet' => Quiet
    <3>1. overlapped => overlapped'
      BY DEF SaveNext, ReadFile, ReadDevice1, OpenTmp, WriteLine, CloseTmp, WriteFails, Rename, SaverEnds,
             DeviceChanges, Flush, PowerFails, qvars, saves
    <3>2. powerless => powerless'
      BY DEF SaveNext, ReadFile, ReadDevice1, OpenTmp, WriteLine, CloseTmp, WriteFails, Rename, SaverEnds,
             DeviceChanges, Flush, PowerFails, qvars, saves
    <3> QED
      BY <3>1, <3>2 DEF Quiet
  <2> QED
    BY <2>1 DEF Kept
<1>2. ~overlapped' /\ ~powerless'
  BY DEF Quiet
<1>3. CASE UNCHANGED qvars
  BY <1>1, <1>3, KeptIdle DEF qvars, names, saves, Sound
<1>4. ASSUME NEW s \in Saver, ReadFile(s) PROVE Sound'
  BY <1>1, <1>4, KeptReadFile
<1>5. ASSUME NEW s \in Saver, ReadDevice1(s) PROVE Sound'
  BY <1>1, <1>5, KeptReadDevice
<1>6. ASSUME NEW s \in Saver, OpenTmp(s) PROVE Sound'
  BY <1>1, <1>2, <1>6, KeptOpenTmp
<1>7. ASSUME NEW s \in Saver, WriteLine(s) PROVE Sound'
  BY <1>1, <1>7, KeptWriteLine
<1>8. ASSUME NEW s \in Saver, CloseTmp(s) PROVE Sound'
  BY <1>1, <1>8, KeptCloseTmp
<1>9. ASSUME NEW s \in Saver, WriteFails(s) PROVE Sound'
  <2>1. /\ saver' = [saver EXCEPT ![s] = Resting] /\ tmp' = 0 /\ saver[s].at = "write"
        /\ UNCHANGED <<wg, content, path, first, published>>
    BY <1>9 DEF WriteFails, Steps, saves
  <2>2. \A o \in Saver \ {s} : ~Writing(o)
    BY <1>1, <2>1 DEF Sound, OneWriter, Writing
  <2> QED
    BY <1>1, <2>1, <2>2, KeptEnds
<1>10. ASSUME NEW s \in Saver, Rename(s) PROVE Sound'
  BY <1>1, <1>10, KeptRename
<1>11. ASSUME NEW s \in Saver, SaverEnds(s) PROVE Sound'
  BY <1>1, <1>11, KeptEnds DEF SaverEnds, names, saves
<1>12. CASE DeviceChanges
  BY <1>1, <1>12, KeptIdle DEF DeviceChanges, names, saves
<1>13. CASE Flush
  BY <1>1, <1>13, KeptFlush
<1>14. CASE PowerFails
  BY <1>1, <1>2, <1>14, KeptPowerFails
<1> QED
  BY <1>3, <1>4, <1>5, <1>6, <1>7, <1>8, <1>9, <1>10, <1>11, <1>12, <1>13, <1>14 DEF SaveNext

(* After any number of saves the file is what the last save that ended     *)
(* made of it: the file as it was at the beginning with the device of that *)
(* save in it, whole, or nothing of that save - unless two saves have had  *)
(* the temporary file open at the same time, or the power has failed       *)
(* before the content was on disk (Save, renameio without fsync).          *)
THEOREM SavesAreWhole == SaveSpec => []SavedWhole
<1>1. SaveInit => Kept
  BY KeptInit
<1>2. Kept /\ [SaveNext]_qvars => Kept'
  BY KeptStep
<1>3. Kept => SavedWhole
  BY KeptEnough
<1> QED
  BY <1>1, <1>2, <1>3, PTL DEF SaveSpec
-----------------------------------------------------------------------------

(* What is shown and put back                                              *)

(* The value of the last of some lines is that of one of them.             *)
LEMMA LastIsOne ==
  ASSUME NEW X, NEW t \in Seq(X), NEW S \in SUBSET (1..Len(t)), NEW d
  PROVE  LastValue(t, S, d) = d \/ \E n \in S : LastValue(t, S, d) = t[n].value
<1>1. CASE S = {}
  BY <1>1 DEF LastValue
<1>2. CASE S # {}
  <2> DEFINE c == CHOOSE n \in S : \A m \in S : m <= n
  <2>1. Len(t) \in Nat
    BY LenProperties
  <2>2. \E n \in S : \A m \in S : n >= m
    BY <1>2, <2>1, LastIn
  <2>3. \E n \in S : \A m \in S : m <= n
    BY <2>1, <2>2
  <2>4. c \in S
    BY <2>3
  <2>5. LastValue(t, S, d) = t[c].value
    BY <1>2 DEF LastValue
  <2> HIDE DEF c
  <2> QED
    BY <2>4, <2>5
<1> QED
  BY <1>1, <1>2

(* Lines without a value that cannot be parsed.                            *)
GoodValues(t) == \A n \in DOMAIN t : t[n].kind \in FieldKinds \cup {"iface"} => t[n].value # Bad

(* An entry as Parse or FromJSON makes it, and one that can be applied.    *)
AnyEntry ==
  [key : Key \cup {NoKey}, remove : BOOLEAN, updateOnly : BOOLEAN,
   setting : Setting \cup {Default, Unset}, replaceIPs : BOOLEAN, ips : Seq(IP),
   ops : Seq(IPOp), name : Name \cup OddName \cup {Unset, Clear}]
KeyedEntry == {e \in AnyEntry : e.key \in Key}

(* The value of a field behind a header is a value of such a line.         *)
LEMMA FieldTypes ==
  ASSUME NEW t \in Seq(Line), GoodValues(t), NEW h, NEW kind \in FieldKinds \cup {"iface"},
         NEW d, NEW S \in SUBSET {n \in DOMAIN t : t[n].kind = kind}
  PROVE  LET v == LastValue(t, S, d) IN
           v = d \/ \E l \in Line : l.kind = kind /\ l.value # Bad /\ v = l.value
<1>1. Len(t) \in Nat /\ DOMAIN t = 1..Len(t) /\ \A n \in 1..Len(t) : t[n] \in Line
  BY LenProperties
<1>2. S \in SUBSET (1..Len(t))
  BY <1>1
<1>3. LastValue(t, S, d) = d \/ \E n \in S : LastValue(t, S, d) = t[n].value
  BY <1>2, LastIsOne
<1>4. \A n \in S : t[n] \in Line /\ t[n].kind = kind /\ t[n].value # Bad
  BY <1>1 DEF GoodValues
<1> HIDE DEF Line
<1> QED
  BY <1>3, <1>4, Zenon

(* The values of lines by their kinds.                                     *)
LEMMA LineValues ==
  ASSUME NEW l \in Line, l.value # Bad
  PROVE  /\ l.kind = "iface" => l.value \in Setting \cup {Default}
         /\ l.kind = "name" => l.value \in Name \cup {Clear}
         /\ l.kind = "publickey" => l.value \in Key
         /\ l.kind = "setting" => l.value \in Setting \cup {Default, Host}
         /\ l.kind = "allowedips" => l.value \in Seq(IPOp)
BY DEF Line

(* The entry under a header.                                               *)
LEMMA MeantEntryTypes ==
  ASSUME NEW t \in Seq(Line), GoodValues(t), NEW h
  PROVE  MeantEntry(t, h) \in AnyEntry
<1>1. Len(t) \in Nat /\ DOMAIN t = 1..Len(t) /\ \A n \in 1..Len(t) : t[n] \in Line
  BY LenProperties
<1>2. \A kind : Under(t, h, kind) \in SUBSET {n \in DOMAIN t : t[n].kind = kind}
  BY DEF Under
<1> DEFINE A == LastValue(t, Under(t, h, "publickey"), NoKey)
           B == LastValue(t, Under(t, h, "name"), Unset)
           C == LastValue(t, Under(t, h, "setting"), Unset)
           U == Under(t, h, "allowedips")
           D == Listed(t, U)
           E == Replaces(t, U)
<1>3. A \in Key \cup {NoKey}
  <2>1. Under(t, h, "publickey") \in SUBSET {n \in DOMAIN t : t[n].kind = "publickey"}
    BY <1>2
  <2>2. "publickey" \in FieldKinds \cup {"iface"}
    BY DEF FieldKinds
  <2> HIDE DEF Line
  <2>3. A = NoKey \/ \E l \in Line : l.kind = "publickey" /\ l.value # Bad /\ A = l.value
    BY <2>1, <2>2, FieldTypes
  <2> QED
    BY <2>3, LineValues
<1>4. B \in Name \cup {Clear, Unset}
  <2>1. Under(t, h, "name") \in SUBSET {n \in DOMAIN t : t[n].kind = "name"}
    BY <1>2
  <2>2. "name" \in FieldKinds \cup {"iface"}
    BY DEF FieldKinds
  <2> HIDE DEF Line
  <2>3. B = Unset \/ \E l \in Line : l.kind = "name" /\ l.value # Bad /\ B = l.value
    BY <2>1, <2>2, FieldTypes
  <2> QED
    BY <2>3, LineValues
<1>5. Address(C) \in Setting \cup {Default, Unset}
  <2>1. Under(t, h, "setting") \in SUBSET {n \in DOMAIN t : t[n].kind = "setting"}
    BY <1>2
  <2>2. "setting" \in FieldKinds \cup {"iface"}
    BY DEF FieldKinds
  <2> HIDE DEF Line
  <2>3. C = Unset \/ \E l \in Line : l.kind = "setting" /\ l.value # Bad /\ C = l.value
    BY <2>1, <2>2, FieldTypes
  <2>4. C \in Setting \cup {Default, Host, Unset}
    BY <2>3, LineValues
  <2> QED
    BY <2>4, HostResolves DEF Address
<1>6. D \in Seq(IPOp)
  <2> DEFINE o == InOrder(U)
             f == [i \in DOMAIN o |-> t[o[i]].value]
  <2>1. U \in SUBSET (1..Len(t)) /\ \A n \in U : t[n].value \in Seq(IPOp)
    <3>1. U \in SUBSET {n \in DOMAIN t : t[n].kind = "allowedips"}
      BY <1>2
    <3>2. \A n \in U : t[n] \in Line /\ t[n].kind = "allowedips" /\ t[n].value # Bad
      <4> HIDE DEF Line, U
      <4> QED
        BY <1>1, <3>1 DEF GoodValues, FieldKinds
    <3> HIDE DEF Line, U
    <3> QED
      BY <1>1, <3>1, <3>2, LineValues
  <2>2. o \in Seq(U)
    <3> HIDE DEF U
    <3> QED
      BY <1>1, <2>1, InOrderParts
  <2>3. Len(o) \in Nat /\ DOMAIN o = 1..Len(o) /\ \A i \in 1..Len(o) : o[i] \in U
    BY <2>2, LenProperties
  <2> HIDE DEF o, U
  <2>4. f = [i \in 1..Len(o) |-> f[i]] /\ \A i \in 1..Len(o) : f[i] \in Seq(IPOp)
    BY <2>1, <2>3
  <2>5. FlattenSeq(f) \in Seq(IPOp)
    <3> HIDE DEF f
    <3> QED
      BY <2>3, <2>4, FlattenList
  <2> QED
    BY <2>5 DEF Listed, o, U
<1>7. E \in BOOLEAN
  BY DEF Replaces
<1>8. PICK no, none : no = FALSE /\ none = <<>>
  OBVIOUS
<1>9. MeantEntry(t, h) = Fields(no, none, A, B, Address(C), D, E)
  BY <1>8, EntryParts
<1>10. none \in Seq(IP) /\ no \in BOOLEAN
  BY <1>8, EmptySeq, Zenon
<1> HIDE DEF A, B, C, D, E
<1> QED
  BY <1>3, <1>4, <1>5, <1>6, <1>7, <1>9, <1>10 DEF Fields, AnyEntry

(* What lines that can be parsed mean can be applied if all keys are there. *)
LEMMA MeantTypes ==
  ASSUME NEW t \in Seq(Line), GoodValues(t), NEW append \in BOOLEAN
  PROVE  /\ Meant(t, append).iface \in Setting \cup {Default, Unset}
         /\ Meant(t, append).peers \in Seq(AnyEntry)
<1> DEFINE i == LastValue(t, IfaceLines(t), Empty(append).iface)
           p == Peers(t)
<1>1. PICK r : Meant(t, append) = Parts(i, r, p)
  BY MeantParts
<1>2. i \in Setting \cup {Default, Unset}
  <2>1. IfaceLines(t) \in SUBSET {n \in DOMAIN t : t[n].kind = "iface"}
    BY DEF IfaceLines, Under
  <2> DEFINE e == Empty(append).iface
  <2>2. e \in {Default, Unset}
    BY DEF Empty
  <2> HIDE DEF Line, e
  <2>3. i = e \/ \E l \in Line : l.kind = "iface" /\ l.value # Bad /\ i = l.value
    BY <2>1, FieldTypes DEF e
  <2> QED
    BY <2>2, <2>3, LineValues
<1>3. p \in Seq(AnyEntry)
  <2>1. Len(p) \in Nat /\ p = [j \in 1..Len(p) |-> p[j]]
    BY PeersList DEF Peers
  <2>2. \A j \in 1..Len(p) : p[j] \in AnyEntry
    BY <2>1, MeantEntryTypes DEF Peers
  <2> HIDE DEF p
  <2> QED
    BY <2>1, <2>2
<1> HIDE DEF i, p
<1> QED
  BY <1>1, <1>2, <1>3 DEF Parts

(* A text that means an interface setting and some entries.                *)
TextReads(t, append, i, p, s) ==
  t \in Seq(Line) /\ Meant(t, append) = Parts(i, ~append, p) /\ Ends(t, s)

(* With one line more.                                                     *)
LEMMA ReadsMore ==
  ASSUME NEW t, NEW append, NEW i, NEW p, NEW s, TextReads(t, append, i, p, s), NEW l \in Line
  PROVE  /\ l.kind = "blank" => TextReads(Append(t, l), append, i, p, s)
         /\ l.kind = "interface" => TextReads(Append(t, l), append, i, p, "interface")
         /\ l.kind = "iface" /\ s = "interface" => TextReads(Append(t, l), append, l.value, p, s)
         /\ l.kind = "peer" => TextReads(Append(t, l), append, i, Append(p, NewEntry), "peer")
         /\ l.kind \in FieldKinds /\ s = "peer" /\ (l.kind = "allowedips" => IsList(l.value)) =>
              TextReads(Append(t, l), append, i, [p EXCEPT ![Len(p)] = Edited(p[Len(p)], l)], s)
<1> DEFINE u == Append(t, l)
           m == Meant(t, append)
           w == Meant(u, append)
           r == ~append
<1>1. t \in Seq(Line) /\ m = Parts(i, r, p) /\ Ends(t, s)
  BY DEF TextReads
<1>2. u \in Seq(Line)
  <2> HIDE DEF Line
  <2> QED
    BY <1>1
<1>3. /\ l.kind \notin FieldKinds \cup {"peer", "iface"} => w = m
      /\ l.kind = "peer" => w = [m EXCEPT !.peers = Append(m.peers, NewEntry)]
      /\ l.kind = "iface" /\ Ends(t, "interface") => w = [m EXCEPT !.iface = l.value]
      /\ l.kind \in FieldKinds /\ Ends(t, "peer") /\ (l.kind = "allowedips" => IsList(l.value)) =>
           w = [m EXCEPT !.peers = [m.peers EXCEPT ![Len(m.peers)] =
                                                     Edited(m.peers[Len(m.peers)], l)]]
  <2> HIDE DEF Line
  <2> QED
    BY <1>1, MeantMore
<1>4. /\ IsHeader(l) => Ends(u, l.kind)
      /\ ~IsHeader(l) => Ends(u, s)
  <2> HIDE DEF Line
  <2> QED
    BY <1>1, EndsMore
<1> HIDE DEF u, m, w, r, Line
<1>5. /\ m.peers = p
      /\ \A x : [m EXCEPT !.iface = x] = Parts(x, r, p)
      /\ \A x : [m EXCEPT !.peers = x] = Parts(i, r, x)
  BY <1>1, PartsEdited
<1>6. ASSUME l.kind = "blank" PROVE TextReads(u, append, i, p, s)
  <2>1. w = m /\ ~IsHeader(l)
    BY <1>3, <1>6 DEF FieldKinds, IsHeader
  <2> QED
    BY <1>1, <1>2, <1>4, <2>1 DEF TextReads, w, r
<1>7. ASSUME l.kind = "interface" PROVE TextReads(u, append, i, p, "interface")
  <2>1. w = m /\ IsHeader(l)
    BY <1>3, <1>7 DEF FieldKinds, IsHeader
  <2> QED
    BY <1>1, <1>2, <1>4, <1>7, <2>1 DEF TextReads, w, r
<1>8. ASSUME l.kind = "iface", s = "interface" PROVE TextReads(u, append, l.value, p, s)
  <2>1. w = Parts(l.value, r, p) /\ ~IsHeader(l)
    BY <1>1, <1>3, <1>5, <1>8 DEF IsHeader
  <2> QED
    BY <1>2, <1>4, <2>1 DEF TextReads, w, r
<1>9. ASSUME l.kind = "peer" PROVE TextReads(u, append, i, Append(p, NewEntry), "peer")
  <2>1. w = [m EXCEPT !.peers = Append(m.peers, NewEntry)] /\ IsHeader(l)
    BY <1>3, <1>9 DEF IsHeader
  <2>2. w = Parts(i, r, Append(p, NewEntry))
    BY <1>5, <2>1, Zenon
  <2> QED
    BY <1>2, <1>4, <1>9, <2>1, <2>2 DEF TextReads, w, r
<1>10. ASSUME l.kind \in FieldKinds, s = "peer", l.kind = "allowedips" => IsList(l.value)
       PROVE  TextReads(u, append, i, [p EXCEPT ![Len(p)] = Edited(p[Len(p)], l)], s)
  <2> DEFINE x(q) == [q EXCEPT ![Len(q)] = Edited(q[Len(q)], l)]
  <2>1. w = [m EXCEPT !.peers = x(m.peers)] /\ ~IsHeader(l)
    BY <1>1, <1>3, <1>10 DEF FieldKinds, IsHeader
  <2> HIDE DEF x
  <2>2. w = Parts(i, r, x(p))
    BY <1>5, <2>1, Zenon
  <2> QED
    BY <1>2, <1>4, <2>1, <2>2 DEF TextReads, w, r, x
<1> QED
  BY <1>6, <1>7, <1>8, <1>9, <1>10 DEF u

(* The last of a list changes.                                             *)
LEMMA LastChanges ==
  ASSUME NEW q, Indexed(q), NEW e, NEW x, NEW p, p = Append(q, e)
  PROVE  p[Len(p)] = e /\ [p EXCEPT ![Len(p)] = x] = Append(q, x)
<1> DEFINE n == Len(q)
<1>1. n \in Nat /\ q = [j \in 1..n |-> q[j]]
  BY DEF Indexed
<1>2. /\ p = [j \in 1..(n + 1) |-> IF j = n + 1 THEN e ELSE q[j]]
      /\ Len(p) = n + 1
      /\ Append(q, x) = [j \in 1..(n + 1) |-> IF j = n + 1 THEN x ELSE q[j]]
  <2> HIDE DEF n
  <2> QED
    BY <1>1, AppendParts
<1> HIDE DEF n
<1>3. n + 1 \in 1..(n + 1) /\ p[n + 1] = e
  BY <1>1, <1>2
<1>4. [p EXCEPT ![n + 1] = x] = [j \in 1..(n + 1) |-> IF j = n + 1 THEN x ELSE q[j]]
  BY <1>2
<1> QED
  BY <1>2, <1>3, <1>4, Zenon

(* A field of the last entry.                                              *)
LEMMA ReadsField ==
  ASSUME NEW t, NEW append, NEW i, NEW q, Indexed(q), NEW e,
         TextReads(t, append, i, Append(q, e), "peer"),
         NEW l \in Line, l.kind \in FieldKinds, l.kind = "allowedips" => IsList(l.value)
  PROVE  TextReads(Append(t, l), append, i, Append(q, Edited(e, l)), "peer")
<1> DEFINE p == Append(q, e)
<1> HIDE DEF p, Line
<1>1. TextReads(Append(t, l), append, i, [p EXCEPT ![Len(p)] = Edited(p[Len(p)], l)], "peer")
  <2>1. TextReads(t, append, i, p, "peer")
    BY DEF p
  <2> DEFINE v == Append(t, l)
             z == [p EXCEPT ![Len(p)] = Edited(p[Len(p)], l)]
  <2>2. l.kind \in FieldKinds /\ (l.kind = "allowedips" => IsList(l.value)) =>
          TextReads(v, append, i, z, "peer")
    BY <2>1, ReadsMore
  <2> HIDE DEF v, z
  <2> QED
    BY <2>2 DEF v, z
<1> DEFINE x == Edited(e, l)
<1>2. p[Len(p)] = e /\ [p EXCEPT ![Len(p)] = x] = Append(q, x)
  <2> HIDE DEF x
  <2>1. p = Append(q, e)
    BY DEF p
  <2> QED
    BY <2>1, LastChanges
<1>3. [p EXCEPT ![Len(p)] = Edited(p[Len(p)], l)] = Append(q, Edited(e, l))
  BY <1>2, Zenon
<1> QED
  BY <1>1, <1>3, Zenon

(* What a line does to an entry given by its fields.                       *)
LEMMA FieldsEdited ==
  ASSUME NEW no, NEW none, NEW key, NEW name, NEW setting, NEW ops, NEW r, NEW l, NEW e,
         e = Fields(no, none, key, name, setting, ops, r)
  PROVE  /\ l.kind = "publickey" => Edited(e, l) = Fields(no, none, l.value, name, setting, ops, r)
         /\ l.kind = "name" => Edited(e, l) = Fields(no, none, key, l.value, setting, ops, r)
         /\ l.kind = "setting" =>
              Edited(e, l) = Fields(no, none, key, name, Address(l.value), ops, r)
         /\ l.kind = "allowedips" =>
              Edited(e, l) = Fields(no, none, key, name, setting, ops \o l.value,
                                    ~Incremental(l.value))
<1> DEFINE Both(x, y) == [e EXCEPT !.ops = x, !.replaceIPs = y]
<1>1. /\ l.kind = "publickey" => Edited(e, l) = [e EXCEPT !.key = l.value]
      /\ l.kind = "name" => Edited(e, l) = [e EXCEPT !.name = l.value]
      /\ l.kind = "setting" => Edited(e, l) = [e EXCEPT !.setting = Address(l.value)]
      /\ l.kind = "allowedips" => Edited(e, l) = Both(e.ops \o l.value, ~Incremental(l.value))
  BY DEF Edited
<1>2. \A x : [e EXCEPT !.key = x] = Fields(no, none, x, name, setting, ops, r)
  BY SMT DEF Fields
<1>3. \A x : [e EXCEPT !.name = x] = Fields(no, none, key, x, setting, ops, r)
  BY SMT DEF Fields
<1>4. \A x : [e EXCEPT !.setting = x] = Fields(no, none, key, name, x, ops, r)
  BY SMT DEF Fields
<1>5. \A x, y : Both(x, y) = Fields(no, none, key, name, setting, x, y)
  <2> TAKE x, y
  <2> DEFINE f == [e EXCEPT !.ops = x]
  <2>1. f = Fields(no, none, key, name, setting, x, r)
    BY SMT DEF Fields
  <2>2. [e EXCEPT !.ops = x, !.replaceIPs = y] = [f EXCEPT !.replaceIPs = y]
    OBVIOUS
  <2> HIDE DEF f
  <2>3. [f EXCEPT !.replaceIPs = y] = Fields(no, none, key, name, setting, x, y)
    BY <2>1, SMT DEF Fields
  <2> QED
    BY <2>2, <2>3, Zenon
<1>6. e.ops = ops
  BY SMT DEF Fields
<1> HIDE DEF Both
<1>7. l.kind = "allowedips" =>
        Edited(e, l) = Fields(no, none, key, name, setting, ops \o l.value, ~Incremental(l.value))
  BY <1>1, <1>5, <1>6, Zenon
<1> QED
  BY <1>1, <1>2, <1>3, <1>4, <1>7, Zenon

(* The list of allowed IPs as it is read back.                             *)
OpsOf(d, k) == [n \in DOMAIN IPsOf(d, k) |-> [ip |-> IPsOf(d, k)[n], op |-> "set"]]

(* It has the IPs that the peer owns, and is not incremental.              *)
LEMMA OpsParts ==
  ASSUME NEW d, NEW k
  PROVE  /\ OpsOf(d, k) \in Seq(IPOp) /\ ~Incremental(OpsOf(d, k))
         /\ IPsOf(d, k) = <<>> => OpsOf(d, k) = <<>>
         /\ \A n \in DOMAIN OpsOf(d, k) : OpsOf(d, k)[n].op = "set"
         /\ \A a \in IP : (\E n \in DOMAIN OpsOf(d, k) : OpsOf(d, k)[n].ip = a) <=> d.wg.owner[a] = k
<1> DEFINE I == {a \in IP : d.wg.owner[a] = k}
           s == IPsOf(d, k)
<1>1. IsFiniteSet(I)
  BY BodyTypes, FS_Subset
<1>2. /\ s \in Seq(I)
      /\ \A a \in I : \E n \in DOMAIN s : s[n] = a
  <2> HIDE DEF I
  <2>1. /\ SetToSeq(I) \in Seq(I)
        /\ \A a \in I : \E n \in DOMAIN SetToSeq(I) : SetToSeq(I)[n] = a
    BY <1>1, ListOfSet
  <2> QED
    BY <2>1 DEF IPsOf, I
<1>3. Len(s) \in Nat /\ DOMAIN s = 1..Len(s) /\ \A n \in 1..Len(s) : s[n] \in I
  BY <1>2, LenProperties
<1> HIDE DEF s
<1> DEFINE o == [n \in DOMAIN s |-> [ip |-> s[n], op |-> "set"]]
<1>4. o = [n \in 1..Len(s) |-> o[n]] /\ DOMAIN o = 1..Len(s)
  BY <1>3
<1>5. \A n \in 1..Len(s) : o[n] \in IPOp /\ o[n].ip = s[n] /\ o[n].op = "set"
  BY <1>3 DEF IPOp
<1>6. s = <<>> => o = <<>>
  OBVIOUS
<1>7. o = OpsOf(d, k)
  BY DEF OpsOf, s
<1> HIDE DEF o
<1>8. o \in Seq(IPOp)
  BY <1>3, <1>4, <1>5
<1>9. ~Incremental(o)
  BY <1>4, <1>5 DEF Incremental
<1>10. \A a \in IP : (\E n \in DOMAIN o : o[n].ip = a) <=> d.wg.owner[a] = k
  <2> TAKE a \in IP
  <2>1. a \in I <=> d.wg.owner[a] = k
    OBVIOUS
  <2> HIDE DEF I
  <2> QED
    BY <1>2, <1>3, <1>4, <1>5, <2>1
<1> QED
  BY <1>4, <1>5, <1>6, <1>7, <1>8, <1>9, <1>10 DEF s

(* The entry that is read back for a peer; yes is TRUE.                    *)
EntryFor(no, none, yes, d, k) ==
  Fields(no, none, k, IF d.names[k] = NoName THEN Unset ELSE d.names[k],
         IF d.wg.setting[k] = Default THEN Unset ELSE d.wg.setting[k], OpsOf(d, k), yes)

(* A line that is there, or none.                                          *)
Maybe(there, l) == IF there THEN <<l>> ELSE <<>>

(* Two texts, and a text behind two others.                                *)
LEMMA BothTexts ==
  ASSUME NEW v \in Seq(Line), NEW w \in Seq(Line)
  PROVE  v \o w \in Seq(Line)
<1> HIDE DEF Line
<1> QED
  BY ONLY v \in Seq(Line), w \in Seq(Line), ConcatProperties

(* A text behind two others.                                               *)
LEMMA BehindBoth ==
  ASSUME NEW v \in Seq(Line), NEW w \in Seq(Line), NEW z \in Seq(Line)
  PROVE  v \o (w \o z) = (v \o w) \o z
<1> DEFINE Associative(X) == \A a, b, c \in Seq(X) : (a \o b) \o c = a \o (b \o c)
<1>1. ASSUME NEW X PROVE Associative(X)
  BY ONLY ConcatAssociative, SMTT(30)
<1> HIDE DEF Line
<1>2. Associative(Line)
  <2> HIDE DEF Associative
  <2> QED
    BY <1>1
<1> QED
  BY <1>2, Zenon

(* Five pieces behind a text.                                              *)
Five(a, b, c, e, f) == a \o b \o c \o e \o f
OneByOne(t, a, b, c, e, f) == ((((t \o a) \o b) \o c) \o e) \o f

(* Five pieces behind a text are those pieces one by one.                  *)
LEMMA FiveBehind ==
  ASSUME NEW t, NEW a, NEW b, NEW c, NEW e, NEW f,
         t \in Seq(Line), a \in Seq(Line), b \in Seq(Line), c \in Seq(Line), e \in Seq(Line),
         f \in Seq(Line)
  PROVE  t \o Five(a, b, c, e, f) = OneByOne(t, a, b, c, e, f)
<1> DEFINE ab == a \o b
           abc == ab \o c
           abce == abc \o e
<1> HIDE DEF Line
<1>1. ab \in Seq(Line)
  BY BothTexts, Zenon
<1>2. abc \in Seq(Line)
  BY <1>1, BothTexts, Zenon
<1>3. abce \in Seq(Line)
  BY <1>2, BothTexts, Zenon
<1>4. t \o ab = (t \o a) \o b
  BY ONLY t \in Seq(Line), a \in Seq(Line), b \in Seq(Line), BehindBoth
<1> HIDE DEF ab
<1>5. t \o (ab \o c) = (t \o ab) \o c
  BY ONLY <1>1, t \in Seq(Line), c \in Seq(Line), BehindBoth
<1> HIDE DEF abc
<1>6. t \o (abc \o e) = (t \o abc) \o e
  BY ONLY <1>2, t \in Seq(Line), e \in Seq(Line), BehindBoth
<1> HIDE DEF abce
<1>7. t \o (abce \o f) = (t \o abce) \o f
  BY ONLY <1>3, t \in Seq(Line), f \in Seq(Line), BehindBoth
<1> QED
  BY <1>4, <1>5, <1>6, <1>7, Zenon DEF ab, abc, abce, Five, OneByOne

(* The lines of a peer are lines.                                          *)
LEMMA PeerLinesTypes ==
  ASSUME NEW d \in NamedDevice, NEW k \in Key
  PROVE  /\ L("peer", Nil) \in Line /\ L("publickey", k) \in Line
         /\ d.names[k] \notin OddName \cup {NoName} => L("name", d.names[k]) \in Line
         /\ L("allowedips", OpsOf(d, k)) \in Line
         /\ L("setting", d.wg.setting[k]) \in Line
<1>1. d.wg.setting[k] \in Setting \cup {Default} /\ d.names[k] \in Name \cup OddName \cup {NoName}
  <2>1. d.wg \in Device /\ d.names \in Meta!NameMap
    BY DEF NamedDevice
  <2>2. d.wg.setting \in [Key -> Setting \cup {Default}]
    BY <2>1 DEF Device
  <2>3. d.names \in [Key -> Name \cup OddName \cup {NoName}]
    BY <2>1 DEF Meta!NameMap
  <2> QED
    BY <2>2, <2>3
<1>2. L("peer", Nil) \in Line
  BY DEF L, Line
<1>3. L("publickey", k) \in Line
  BY DEF L, Line
<1>4. d.names[k] \notin OddName \cup {NoName} => L("name", d.names[k]) \in Line
  BY <1>1 DEF L, Line
<1>5. L("allowedips", OpsOf(d, k)) \in Line
  BY OpsParts DEF L, Line
<1>6. L("setting", d.wg.setting[k]) \in Line
  BY <1>1 DEF L, Line
<1> QED
  BY <1>2, <1>3, <1>4, <1>5, <1>6

(* A line that may be there.                                               *)
LEMMA ReadsMaybe ==
  ASSUME NEW t, NEW append, NEW i, NEW q, Indexed(q), NEW e, NEW f,
         TextReads(t, append, i, Append(q, e), "peer"),
         NEW c \in BOOLEAN, NEW l,
         c => l \in Line /\ l.kind \in FieldKinds /\ (l.kind = "allowedips" => IsList(l.value)),
         f = IF c THEN Edited(e, l) ELSE e
  PROVE  /\ TextReads(t \o Maybe(c, l), append, i, Append(q, f), "peer")
         /\ Maybe(c, l) \in Seq(Line)
<1> HIDE DEF Line
<1>1. t \in Seq(Line)
  BY DEF TextReads
<1>2. CASE c
  <2>1. Maybe(c, l) = <<l>> /\ f = Edited(e, l) /\ l \in Line
    BY <1>2 DEF Maybe
  <2>2. t \o <<l>> = Append(t, l) /\ <<l>> \in Seq(Line)
    BY <1>1, <2>1
  <2>3. TextReads(Append(t, l), append, i, Append(q, Edited(e, l)), "peer")
    BY <1>2, ReadsField
  <2> QED
    BY <2>1, <2>2, <2>3, Zenon
<1>3. CASE ~c
  <2>1. Maybe(c, l) = <<>> /\ f = e
    BY <1>3 DEF Maybe
  <2>2. t \o <<>> = t /\ <<>> \in Seq(Line)
    BY <1>1
  <2> QED
    BY <2>1, <2>2, Zenon
<1> QED
  BY <1>2, <1>3

(* The lines of a peer mean its entry.                                     *)
LEMMA PeerLinesMean ==
  ASSUME NEW d \in NamedDevice, NEW k \in Key, d.names[k] \notin OddName,
         NEW t, NEW append, NEW i, NEW q, Indexed(q), NEW s, TextReads(t, append, i, q, s),
         NEW no, NEW none, NEW yes, no = FALSE, none = <<>>, yes = TRUE
  PROVE  /\ TextReads(t \o PeerLines(d, k), append, i, Append(q, EntryFor(no, none, yes, d, k)), "peer")
         /\ PeerLines(d, k) \in Seq(Line)
<1> DEFINE N == d.names[k]
           V == d.wg.setting[k]
           O == OpsOf(d, k)
           n == Maybe(N # NoName, L("name", N))
           a == Maybe(IPsOf(d, k) # <<>>, L("allowedips", O))
           g == Maybe(V # Default, L("setting", V))
           h == <<L("peer", Nil)>>
           p == <<L("publickey", k)>>
           name == IF N = NoName THEN Unset ELSE N
           set == IF V = Default THEN Unset ELSE V
           e0 == Fields(no, none, NoKey, Unset, Unset, none, yes)
           e1 == Fields(no, none, NoKey, name, Unset, none, yes)
           e2 == Fields(no, none, k, name, Unset, none, yes)
           e3 == Fields(no, none, k, name, Unset, O, yes)
           e4 == Fields(no, none, k, name, set, O, yes)
<1>1. /\ L("peer", Nil) \in Line /\ L("publickey", k) \in Line
      /\ N # NoName => L("name", N) \in Line
      /\ L("allowedips", O) \in Line /\ L("setting", V) \in Line
  BY PeerLinesTypes
<1>2. \A kind, v : L(kind, v).kind = kind /\ L(kind, v).value = v
  BY DEF L
<1>3. t \in Seq(Line)
  BY DEF TextReads
<1> HIDE DEF Line
<1>4. TextReads(t \o h, append, i, Append(q, e0), "peer") /\ h \in Seq(Line)
  <2>1. NewEntry = e0
    BY DEF NewEntry, Fields
  <2>2. TextReads(Append(t, L("peer", Nil)), append, i, Append(q, NewEntry), "peer")
    <3> DEFINE l == L("peer", Nil)
               u == Append(t, l)
               r == Append(q, NewEntry)
    <3>1. l \in Line /\ l.kind = "peer"
      BY <1>1, <1>2
    <3> HIDE DEF l
    <3>2. l.kind = "peer" => TextReads(u, append, i, r, "peer")
      BY <3>1, ReadsMore
    <3> HIDE DEF u, r
    <3> QED
      BY <3>1, <3>2 DEF u, r, l
  <2>3. t \o h = Append(t, L("peer", Nil)) /\ h \in Seq(Line)
    BY <1>1, <1>3
  <2> QED
    BY <2>1, <2>2, <2>3, Zenon
<1> DEFINE t1 == t \o h
           t2 == t1 \o n
           t3 == t2 \o p
           t4 == t3 \o a
           t5 == t4 \o g
<1>5. TextReads(t2, append, i, Append(q, e1), "peer") /\ n \in Seq(Line)
  <2> DEFINE l == L("name", N)
             c == N # NoName
  <2>1. c => l \in Line /\ l.kind \in FieldKinds /\ l.kind = "name" /\ l.value = N
    BY <1>1, <1>2 DEF FieldKinds
  <2>2. e1 = IF c THEN Edited(e0, l) ELSE e0
    <3>1. c => Edited(e0, l) = Fields(no, none, NoKey, l.value, Unset, none, yes)
      <4>1. e0 = Fields(no, none, NoKey, Unset, Unset, none, yes)
        OBVIOUS
      <4> HIDE DEF c, l, e0
      <4> QED
        BY ONLY <2>1, <4>1, FieldsEdited
    <3>2. c => name = l.value
      BY <2>1
    <3>3. ~c => name = Unset
      OBVIOUS
    <3> HIDE DEF c, l, name
    <3> QED
      BY <3>1, <3>2, <3>3
  <2> HIDE DEF c, l, e0, e1, t1
  <2>3. TextReads(t1 \o Maybe(c, l), append, i, Append(q, e1), "peer") /\ Maybe(c, l) \in Seq(Line)
    <3>1. c \in BOOLEAN
      BY DEF c
    <3>2. TextReads(t1, append, i, Append(q, e0), "peer")
      BY <1>4 DEF t1
    <3> QED
      BY <2>1, <2>2, <3>1, <3>2, ReadsMaybe
  <2> QED
    BY <2>3 DEF c, l
<1>6. TextReads(t3, append, i, Append(q, e2), "peer") /\ p \in Seq(Line)
  <2> DEFINE l == L("publickey", k)
  <2>1. l \in Line /\ l.kind \in FieldKinds /\ l.kind = "publickey" /\ l.value = k
    BY <1>1, <1>2 DEF FieldKinds
  <2> HIDE DEF l, name
  <2>2. Edited(e1, l) = e2
    <3>1. Edited(e1, l) = Fields(no, none, l.value, name, Unset, none, yes)
      <4>1. e1 = Fields(no, none, NoKey, name, Unset, none, yes)
        OBVIOUS
      <4> HIDE DEF e1
      <4> QED
        BY ONLY <2>1, <4>1, FieldsEdited
    <3> QED
      BY <2>1, <3>1
  <2> HIDE DEF e1, e2, t2
  <2>3. TextReads(Append(t2, l), append, i, Append(q, Edited(e1, l)), "peer")
    BY <1>5, <2>1, ReadsField
  <2>4. t2 \in Seq(Line)
    BY <1>5 DEF TextReads
  <2>5. t2 \o <<l>> = Append(t2, l) /\ <<l>> \in Seq(Line)
    BY <2>1, <2>4
  <2> QED
    BY <2>2, <2>3, <2>5, Zenon DEF l
<1>7. TextReads(t4, append, i, Append(q, e3), "peer") /\ a \in Seq(Line)
  <2> DEFINE l == L("allowedips", O)
             c == IPsOf(d, k) # <<>>
  <2>1. /\ l \in Line /\ l.kind \in FieldKinds /\ l.kind = "allowedips" /\ l.value = O
        /\ IsList(l.value)
    BY <1>1, <1>2, OpsParts DEF FieldKinds, IsList
  <2>2. e3 = IF c THEN Edited(e2, l) ELSE e2
    <3>1. /\ O \in Seq(IPOp) /\ ~Incremental(O)
          /\ ~c => O = <<>>
      BY OpsParts
    <3>2. none \o O = O
      <4> HIDE DEF O
      <4> QED
        BY <3>1
    <3> HIDE DEF c, l, name, O
    <3>3. Edited(e2, l) = Fields(no, none, k, name, Unset, none \o l.value, ~Incremental(l.value))
      <4>1. e2 = Fields(no, none, k, name, Unset, none, yes)
        OBVIOUS
      <4> HIDE DEF e2
      <4> QED
        BY ONLY <2>1, <4>1, FieldsEdited
    <3>4. none \o l.value = O /\ ~Incremental(l.value) = yes
      BY <2>1, <3>1, <3>2, Zenon
    <3> QED
      BY <3>1, <3>3, <3>4, Zenon
  <2> HIDE DEF c, l, e2, e3, t3
  <2>3. TextReads(t3 \o Maybe(c, l), append, i, Append(q, e3), "peer") /\ Maybe(c, l) \in Seq(Line)
    <3>1. c \in BOOLEAN
      BY DEF c
    <3> QED
      BY <1>6, <2>1, <2>2, <3>1, ReadsMaybe
  <2> QED
    BY <2>3 DEF c, l
<1>8. TextReads(t5, append, i, Append(q, e4), "peer") /\ g \in Seq(Line)
  <2> DEFINE l == L("setting", V)
             c == V # Default
  <2>1. l \in Line /\ l.kind \in FieldKinds /\ l.kind = "setting" /\ l.value = V
    BY <1>1, <1>2 DEF FieldKinds
  <2>2. e4 = IF c THEN Edited(e3, l) ELSE e3
    <3>1. c => Address(V) = V
      <4>1. d.wg \in Device
        BY DEF NamedDevice
      <4>2. V \in Setting \cup {Default}
        BY <4>1 DEF Device
      <4> QED
        BY <4>2, HostResolves DEF Address
    <3>2. c => set = V
      OBVIOUS
    <3>3. ~c => set = Unset
      OBVIOUS
    <3> HIDE DEF c, l, name, O, set, V
    <3>4. Edited(e3, l) = Fields(no, none, k, name, Address(l.value), O, yes)
      <4>1. e3 = Fields(no, none, k, name, Unset, O, yes)
        OBVIOUS
      <4> HIDE DEF e3
      <4> QED
        BY ONLY <2>1, <4>1, FieldsEdited
    <3> QED
      BY <2>1, <3>1, <3>2, <3>3, <3>4
  <2> HIDE DEF c, l, e3, e4, t4
  <2>3. TextReads(t4 \o Maybe(c, l), append, i, Append(q, e4), "peer") /\ Maybe(c, l) \in Seq(Line)
    <3>1. c \in BOOLEAN
      BY DEF c
    <3> QED
      BY <1>7, <2>1, <2>2, <3>1, ReadsMaybe
  <2> QED
    BY <2>3 DEF c, l
<1>9. PeerLines(d, k) = Five(h, n, p, a, g)
  <2>1. /\ n = IF N = NoName THEN <<>> ELSE <<L("name", N)>>
        /\ a = IF IPsOf(d, k) = <<>> THEN <<>> ELSE <<L("allowedips", O)>>
        /\ g = IF V = Default THEN <<>> ELSE <<L("setting", V)>>
    BY DEF Maybe
  <2> HIDE DEF n, a, g, h, p
  <2>2. PeerLines(d, k) =
          h \o (IF N = NoName THEN <<>> ELSE <<L("name", N)>>) \o p
            \o (IF IPsOf(d, k) = <<>> THEN <<>> ELSE <<L("allowedips", O)>>)
            \o (IF V = Default THEN <<>> ELSE <<L("setting", V)>>)
    BY Zenon DEF PeerLines, OpsOf, h, p
  <2> QED
    BY <2>1, <2>2, Zenon DEF Five
<1>10. t \o PeerLines(d, k) = t5
  <2>2. /\ t \in Seq(Line) /\ h \in Seq(Line) /\ n \in Seq(Line) /\ p \in Seq(Line)
        /\ a \in Seq(Line) /\ g \in Seq(Line)
    BY <1>3, <1>4, <1>5, <1>6, <1>7, <1>8
  <2> HIDE DEF h, n, p, a, g
  <2>1. t \o Five(h, n, p, a, g) = OneByOne(t, h, n, p, a, g)
    BY ONLY <2>2, FiveBehind
  <2> QED
    BY <1>9, <2>1, Zenon DEF OneByOne
<1>11. PeerLines(d, k) \in Seq(Line)
  <2> HIDE DEF h, n, p, a, g
  <2>1. \A v, w \in Seq(Line) : v \o w \in Seq(Line)
    BY BothTexts
  <2>2. h \o n \in Seq(Line)
    BY <1>4, <1>5, <2>1
  <2>3. h \o n \o p \in Seq(Line)
    BY <1>6, <2>1, <2>2
  <2>4. h \o n \o p \o a \in Seq(Line)
    BY <1>7, <2>1, <2>3
  <2> QED
    BY <1>8, <1>9, <2>1, <2>4, Zenon DEF Five
<1>12. e4 = EntryFor(no, none, yes, d, k)
  BY Zenon DEF EntryFor
<1> HIDE DEF t5, e4
<1> QED
  BY <1>8, <1>10, <1>11, <1>12, Zenon

(* Peers with names that are refused.                                      *)
OddPeers(d) == {k \in d.wg.peers : d.names[k] \in OddName}
EntriesFor(no, none, yes, d, e) == [j \in 1..Len(e) |-> EntryFor(no, none, yes, d, e[j])]

(* Encode gets to all peers, or to the first with such a name.             *)
LEMMA StopsAtOdd ==
  ASSUME NEW d, IsFiniteSet(d.wg.peers), NEW e, e = EncodedPeers(d)
  PROVE  /\ e \in Seq(d.wg.peers)
         /\ OddPeers(d) = {} => e = SetToSeq(d.wg.peers)
         /\ OddPeers(d) # {} => /\ Len(e) # 0 /\ d.names[e[Len(e)]] \in OddName
                                /\ \A j \in 1..Len(e) : j # Len(e) => d.names[e[j]] \notin OddName
<1> DEFINE P == d.wg.peers
           order == SetToSeq(P)
           refused == {i \in DOMAIN order : d.names[order[i]] \in OddName}
<1>1. order \in Seq(P) /\ \A x \in P : \E i \in DOMAIN order : order[i] = x
  BY ListOfSet
<1>2. Len(order) \in Nat /\ DOMAIN order = 1..Len(order) /\ \A i \in 1..Len(order) : order[i] \in P
  BY <1>1, LenProperties
<1>3. e \in Seq(P)
  BY EncodedPeersList
<1> HIDE DEF order
<1>4. refused = {} <=> OddPeers(d) = {}
  <2>1. ASSUME NEW i \in refused PROVE order[i] \in OddPeers(d)
    <3>1. order[i] \in P /\ d.names[order[i]] \in OddName
      BY <1>2
    <3> QED
      BY <3>1 DEF OddPeers
  <2>2. ASSUME NEW k \in OddPeers(d) PROVE \E i \in DOMAIN order : i \in refused
    <3>1. PICK i \in DOMAIN order : order[i] = k
      BY <1>1 DEF OddPeers
    <3> QED
      BY <3>1 DEF OddPeers
  <2> HIDE DEF refused
  <2> QED
    BY <2>1, <2>2
<1>5. ASSUME OddPeers(d) = {} PROVE e = order
  BY <1>4, <1>5 DEF EncodedPeers, order
<1>6. ASSUME OddPeers(d) # {}
      PROVE  /\ Len(e) # 0 /\ d.names[e[Len(e)]] \in OddName
             /\ \A j \in 1..Len(e) : j # Len(e) => d.names[e[j]] \notin OddName
  <2> DEFINE c == CHOOSE i \in refused : \A j \in refused : i <= j
  <2>1. refused \in SUBSET Nat /\ refused # {}
    BY <1>2, <1>4, <1>6
  <2>2. \E i \in refused : \A j \in refused : i <= j
    <3> HIDE DEF refused
    <3> QED
      BY <2>1, FirstOf
  <2>3. c \in refused /\ \A j \in refused : c <= j
    BY <2>2
  <2>4. e = SubSeq(order, 1, c)
    BY <1>4, <1>6, Zenon DEF EncodedPeers, order
  <2> HIDE DEF c
  <2>5. c \in 1..Len(order) /\ c \in 0..Len(order) /\ d.names[order[c]] \in OddName
    BY <1>2, <2>3
  <2>6. Len(e) = c /\ \A i \in 1..c : e[i] = order[i]
    BY <1>1, <2>4, <2>5, Beginning
  <2>7. \A j \in 1..c : j # c => d.names[order[j]] \notin OddName
    <3> TAKE j \in 1..c
    <3>1. j \in DOMAIN order /\ (j # c => ~(c <= j))
      BY <1>2, <2>5
    <3> QED
      BY <2>3, <3>1
  <2>8. c # 0 /\ c \in 1..c
    BY <1>2, <2>5
  <2> QED
    BY <2>5, <2>6, <2>7, <2>8
<1> QED
  BY <1>3, <1>5, <1>6 DEF order

(* What Encode writes before the peers.                                    *)
HeadOf(d) ==
  <<L("interface", Nil)>> \o (IF d.iface = Default THEN <<>> ELSE <<L("iface", d.iface)>>)
    \o <<L("blank", Nil)>>
IfaceRead(d, append) == IF d.iface = Default THEN Empty(append).iface ELSE d.iface

(* What is written before the peers means the interface setting alone.     *)
LEMMA HeadReads ==
  ASSUME NEW d \in NamedDevice, NEW append \in BOOLEAN, NEW none, none = <<>>
  PROVE  TextReads(HeadOf(d), append, IfaceRead(d, append), none, "interface")
<1> DEFINE h == L("interface", Nil)
           f == L("iface", d.iface)
           b == L("blank", Nil)
           i == Empty(append).iface
           w == IfaceRead(d, append)
<1>1. /\ h \in Line /\ h.kind = "interface"
      /\ f \in Line /\ f.kind = "iface" /\ f.value = d.iface
      /\ b \in Line /\ b.kind = "blank"
  BY DEF L, Line, NamedDevice
<1>2. TextReads(none, append, i, none, "")
  <2>1. Meant(none, append) = Empty(append) /\ Ends(none, "")
    BY NoLines
  <2>2. Empty(append) = Parts(i, ~append, none)
    BY DEF Empty, Parts
  <2>3. none \in Seq(Line)
    BY EmptySeq, Zenon
  <2> QED
    BY <2>1, <2>2, <2>3, Zenon DEF TextReads
<1> DEFINE t1 == Append(none, h)
           t2 == IF d.iface = Default THEN t1 ELSE Append(t1, f)
           t3 == Append(t2, b)
<1> HIDE DEF Line, h, f, b, i
<1>3. TextReads(t1, append, i, none, "interface")
  <2> HIDE DEF t1
  <2>1. h.kind = "interface" => TextReads(t1, append, i, none, "interface")
    BY ONLY <1>1, <1>2, ReadsMore DEF t1
  <2> QED
    BY <1>1, <2>1
<1> HIDE DEF t1
<1>4. TextReads(t2, append, w, none, "interface")
  <2>1. CASE d.iface = Default
    BY <1>3, <2>1 DEF IfaceRead, i
  <2>2. CASE d.iface # Default
    <3> DEFINE u == Append(t1, f)
    <3>1. TextReads(u, append, f.value, none, "interface")
      BY ONLY <1>1, <1>3, ReadsMore
    <3>2. t2 = u /\ w = f.value
      BY <1>1, <2>2 DEF IfaceRead
    <3> QED
      BY <3>1, <3>2, Zenon
  <2> QED
    BY <2>1, <2>2
<1> HIDE DEF t2, w
<1>5. TextReads(t3, append, w, none, "interface")
  BY ONLY <1>1, <1>4, ReadsMore
<1>6. HeadOf(d) = t3
  <2>1. <<h>> = t1 /\ t1 \in Seq(Line)
    BY <1>1 DEF t1
  <2>2. t1 \o (IF d.iface = Default THEN <<>> ELSE <<f>>) = t2 /\ t2 \in Seq(Line)
    BY <1>1, <2>1 DEF t2
  <2>3. t2 \o <<b>> = t3
    BY <1>1, <2>2
  <2>4. HeadOf(d) = <<h>> \o (IF d.iface = Default THEN <<>> ELSE <<f>>) \o <<b>>
    BY Zenon DEF HeadOf, h, f, b
  <2> QED
    BY <2>1, <2>2, <2>3, <2>4, Zenon
<1> QED
  BY <1>5, <1>6, Zenon DEF w

(* All lines of all peers are lines.                                       *)
LEMMA PeerLinesAreLines ==
  ASSUME NEW d \in NamedDevice, NEW k \in Key
  PROVE  PeerLines(d, k) \in Seq(Line)
<1>1. PICK no, none, yes : no = FALSE /\ none = <<>> /\ yes = TRUE
  OBVIOUS
<1>2. CASE d.names[k] \in OddName
  <2>1. L("peer", Nil) \in Line
    BY PeerLinesTypes
  <2>2. PeerLines(d, k) = <<L("peer", Nil)>>
    BY <1>2, Zenon DEF PeerLines
  <2> HIDE DEF Line
  <2>3. <<L("peer", Nil)>> \in Seq(Line)
    BY <2>1
  <2> QED
    BY <2>2, <2>3
<1>3. CASE d.names[k] \notin OddName
  <2>1. PICK append : append = TRUE
    OBVIOUS
  <2>2. append \in BOOLEAN /\ Indexed(none)
    <3>1. append \in BOOLEAN
      BY <2>1
    <3>2. Indexed(<<>>)
      BY DEF Indexed
    <3> QED
      BY <1>1, <3>1, <3>2, Zenon
  <2>3. TextReads(HeadOf(d), append, IfaceRead(d, append), none, "interface")
    BY <1>1, <2>2, HeadReads
  <2> QED
    BY <1>1, <1>3, <2>2, <2>3, PeerLinesMean
<1> QED
  BY <1>2, <1>3

(* The lines of the first peers mean the first entries.                    *)
BlocksOf(d, e) == [j \in DOMAIN e |-> PeerLines(d, e[j])]
FirstRead(d, e, append, q, m) ==
  \E s : TextReads(HeadOf(d) \o Before(BlocksOf(d, e), m + 1), append, IfaceRead(d, append), q, s)

(* As long as no name is odd, each peer becomes an entry.                  *)
LEMMA PeersRead ==
  ASSUME NEW d \in NamedDevice, NEW append \in BOOLEAN, NEW e \in Seq(Key), NEW m \in 0..Len(e),
         \A j \in 1..m : d.names[e[j]] \notin OddName,
         NEW no, NEW none, NEW yes, no = FALSE, none = <<>>, yes = TRUE
  PROVE  /\ FirstRead(d, e, append, [j \in 1..m |-> EntryFor(no, none, yes, d, e[j])], m)
         /\ Indexed(BlocksOf(d, e)) /\ Len(BlocksOf(d, e)) = Len(e)
         /\ \A j \in 1..Len(e) : BlocksOf(d, e)[j] \in Seq(Line)
<1> DEFINE b == BlocksOf(d, e)
           q(n) == [j \in 1..n |-> EntryFor(no, none, yes, d, e[j])]
           T == {n \in 0..m : FirstRead(d, e, append, q(n), n)}
<1>1. Len(e) \in Nat /\ DOMAIN e = 1..Len(e) /\ \A j \in 1..Len(e) : e[j] \in Key
  BY LenProperties
<1>2. m \in Nat /\ m <= Len(e)
  BY <1>1
<1>3. b = [j \in 1..Len(e) |-> b[j]] /\ \A j \in 1..Len(e) : b[j] = PeerLines(d, e[j])
  BY <1>1 DEF BlocksOf
<1>4. \A j \in 1..Len(e) : b[j] \in Seq(Line)
  BY <1>1, <1>3, PeerLinesAreLines
<1> HIDE DEF b, Line
<1>5. Indexed(b) /\ Len(b) = Len(e)
  BY <1>1, <1>3, ListIs
<1>6. /\ Before(b, 1) = <<>>
      /\ \A n \in 1..(Len(e) + 1) : Before(b, n) \in Seq(Line)
      /\ \A n \in 1..Len(e) : Before(b, n + 1) = Before(b, n) \o b[n]
  BY <1>4, <1>5, BeforeParts
<1> DEFINE H == HeadOf(d)
           I == IfaceRead(d, append)
<1>7. TextReads(H, append, I, none, "interface")
  BY HeadReads
<1>8. H \in Seq(Line)
  BY <1>7 DEF TextReads
<1> HIDE DEF H, I
<1>9. 0 \in T
  <2>1. H \o Before(b, 0 + 1) = H
    BY <1>6, <1>8
  <2>2. q(0) = none
    OBVIOUS
  <2>3. TextReads(H \o Before(b, 0 + 1), append, I, q(0), "interface")
    BY <1>7, <2>1, <2>2, Zenon
  <2> HIDE DEF q
  <2>4. FirstRead(d, e, append, q(0), 0)
    BY <2>3, Zenon DEF FirstRead, H, I, b
  <2> QED
    BY <1>2, <2>4
<1>10. ASSUME NEW n \in 0..m, n < m, n \in T PROVE n + 1 \in T
  <2>1. n + 1 \in 1..m /\ n + 1 \in 0..m /\ n + 1 \in 1..Len(e) /\ (n + 1) + 1 \in 1..(Len(e) + 1)
    BY <1>2, <1>10
  <2>2. PICK s : TextReads(H \o Before(b, n + 1), append, I, q(n), s)
    BY <1>10, Zenon DEF FirstRead, H, I, b
  <2> DEFINE k == e[n + 1]
             x == EntryFor(no, none, yes, d, k)
             t == H \o Before(b, n + 1)
  <2>3. k \in Key /\ d.names[k] \notin OddName
    BY <1>1, <2>1
  <2>4. Append(q(n), x) = q(n + 1) /\ Indexed(q(n))
    <3>1. n \in Nat /\ q(n) = [j \in 1..n |-> q(n)[j]]
      BY <1>2
    <3>2. \A j \in 1..n : q(n)[j] = EntryFor(no, none, yes, d, e[j])
      OBVIOUS
    <3>3. q(n + 1) = [j \in 1..(n + 1) |-> IF j = n + 1 THEN x ELSE EntryFor(no, none, yes, d, e[j])]
      OBVIOUS
    <3> HIDE DEF x
    <3> DEFINE y == q(n)
    <3>8. n \in Nat /\ y = [j \in 1..n |-> y[j]]
      BY <3>1
    <3> HIDE DEF y
    <3>4. Append(y, x) = [j \in 1..(n + 1) |-> IF j = n + 1 THEN x ELSE y[j]]
      BY <3>8, AppendParts
    <3>5. Indexed(y)
      BY <3>8, ListIs
    <3>6. \A j \in 1..(n + 1) : j # n + 1 => j \in 1..n
      BY <3>1
    <3>7. [j \in 1..(n + 1) |-> IF j = n + 1 THEN x ELSE y[j]]
          = [j \in 1..(n + 1) |-> IF j = n + 1 THEN x ELSE EntryFor(no, none, yes, d, e[j])]
      BY <3>2, <3>6 DEF y
    <3> QED
      BY <3>3, <3>4, <3>5, <3>7, Zenon DEF y
  <2> HIDE DEF k, q, x
  <2>5. TextReads(t \o PeerLines(d, k), append, I, Append(q(n), x), "peer")
    BY <2>2, <2>3, <2>4, PeerLinesMean DEF x
  <2>6. t \o PeerLines(d, k) = H \o Before(b, (n + 1) + 1)
    <3> DEFINE v == Before(b, n + 1)
               z == PeerLines(d, k)
    <3>1. Before(b, (n + 1) + 1) = v \o b[n + 1]
      BY <1>6, <2>1
    <3>2. b[n + 1] = z
      BY <1>3, <2>1 DEF k
    <3>3. v \in Seq(Line) /\ z \in Seq(Line)
      <4>1. n + 1 \in 1..(Len(e) + 1)
        BY <1>1, <2>1
      <4> QED
        BY <1>4, <1>6, <2>1, <3>2, <4>1
    <3> HIDE DEF v, z
    <3>4. H \o (v \o z) = (H \o v) \o z
      BY ONLY <1>8, <3>3, BehindBoth
    <3> QED
      BY <3>1, <3>2, <3>4, Zenon DEF v, z
  <2>7. FirstRead(d, e, append, q(n + 1), n + 1)
    BY <2>4, <2>5, <2>6, Zenon DEF FirstRead, H, I, b
  <2> QED
    BY <2>1, <2>7
<1>11. m \in T
  <2> HIDE DEF T
  <2>1. \A n \in 0..m : n \in T
    BY <1>2, <1>9, <1>10, Upwards
  <2> QED
    BY <1>2, <2>1
<1> QED
  BY <1>4, <1>5, <1>11 DEF b

(* A device has finitely many peers.                                       *)
LEMMA FewPeers ==
  ASSUME NEW d \in NamedDevice
  PROVE  /\ d.wg \in Device /\ d.wg.peers \subseteq Key /\ IsFiniteSet(d.wg.peers)
         /\ d.names \in Meta!NameMap /\ d.iface \in Setting \cup {Default}
<1>1. d.wg \in Device /\ d.names \in Meta!NameMap /\ d.iface \in Setting \cup {Default}
  BY Zenon DEF NamedDevice
<1>2. d.wg.peers \subseteq Key
  BY <1>1 DEF Device
<1> QED
  BY <1>1, <1>2, BodyTypes, FS_Subset

(* Encode writes the head, and the lines of the peers it gets to.          *)
LEMMA EncodeParts ==
  ASSUME NEW d \in NamedDevice, NEW e, e = EncodedPeers(d)
  PROVE  /\ e \in Seq(Key)
         /\ Encode(d) = HeadOf(d) \o Before(BlocksOf(d, e), Len(e) + 1)
         /\ HeadOf(d) \in Seq(Line)
         /\ \A n \in 1..(Len(e) + 1) : Before(BlocksOf(d, e), n) \in Seq(Line)
         /\ \A n \in 1..Len(e) : Before(BlocksOf(d, e), n + 1)
                                   = Before(BlocksOf(d, e), n) \o BlocksOf(d, e)[n]
         /\ \A n \in 1..Len(e) : BlocksOf(d, e)[n] = PeerLines(d, e[n])
<1>1. d.wg.peers \subseteq Key /\ IsFiniteSet(d.wg.peers)
  BY FewPeers
<1>2. e \in Seq(Key)
  <2>1. e \in Seq(d.wg.peers)
    BY <1>1, EncodedPeersList
  <2> QED
    BY <1>1, <2>1, WiderSeq
<1>3. Len(e) \in Nat /\ DOMAIN e = 1..Len(e)
  BY <1>2, LenProperties
<1> DEFINE b == BlocksOf(d, e)
<1>4. \A n \in 1..Len(e) : b[n] = PeerLines(d, e[n])
  BY <1>3 DEF BlocksOf
<1>5. Encode(d) = HeadOf(d) \o FlattenSeq(b)
  BY Zenon DEF Encode, HeadOf, BlocksOf
<1>6. PICK none : none = <<>>
  OBVIOUS
<1>7. PICK no : no = FALSE
  OBVIOUS
<1>8. PICK yes : yes = TRUE
  OBVIOUS
<1> HIDE DEF Line
<1>9. Indexed(b) /\ Len(b) = Len(e) /\ \A j \in 1..Len(e) : b[j] \in Seq(Line)
  <2> HIDE DEF b
  <2>1. 0 \in 0..Len(e) /\ \A j \in 1..0 : d.names[e[j]] \notin OddName
    BY <1>3
  <2>2. TRUE \in BOOLEAN
    OBVIOUS
  <2> QED
    BY <1>2, <1>6, <1>7, <1>8, <2>1, <2>2, PeersRead, Zenon DEF b
<1>10. HeadOf(d) \in Seq(Line)
  <2>1. \E append \in BOOLEAN : TextReads(HeadOf(d), append, IfaceRead(d, append), none, "interface")
    BY <1>6, HeadReads
  <2> QED
    BY <2>1 DEF TextReads
<1> HIDE DEF b
<1>11. /\ Before(b, Len(e) + 1) = FlattenSeq(b)
       /\ \A n \in 1..(Len(e) + 1) : Before(b, n) \in Seq(Line)
       /\ \A n \in 1..Len(e) : Before(b, n + 1) = Before(b, n) \o b[n]
  BY <1>9, BeforeParts
<1> QED
  BY <1>2, <1>4, <1>5, <1>10, <1>11, Zenon DEF b

(* What a text means.                                                      *)
Means(t, append, i, p) == Meant(t, append) = Parts(i, ~append, p)

(* What is read back from what Encode writes: the interface setting and an *)
(* entry for every peer, or the header of a peer behind some entries.      *)
LEMMA EncodeMeans ==
  ASSUME NEW d \in NamedDevice, NEW append \in BOOLEAN,
         NEW no, NEW none, NEW yes, no = FALSE, none = <<>>, yes = TRUE
  PROVE  /\ Encode(d) \in Seq(Line)
         /\ OddPeers(d) = {} =>
              Means(Encode(d), append, IfaceRead(d, append),
                    EntriesFor(no, none, yes, d, SetToSeq(d.wg.peers)))
         /\ OddPeers(d) # {} =>
              \E q : Indexed(q) /\ Meant(Encode(d), append).peers = Append(q, NewEntry)
<1> DEFINE e == EncodedPeers(d)
           b == BlocksOf(d, e)
           H == HeadOf(d)
           I == IfaceRead(d, append)
           q(m) == [j \in 1..m |-> EntryFor(no, none, yes, d, e[j])]
           h == L("peer", Nil)
<1>1. /\ e \in Seq(Key)
      /\ Encode(d) = H \o Before(b, Len(e) + 1)
      /\ H \in Seq(Line)
      /\ \A n \in 1..(Len(e) + 1) : Before(b, n) \in Seq(Line)
      /\ \A n \in 1..Len(e) : Before(b, n + 1) = Before(b, n) \o b[n]
      /\ \A n \in 1..Len(e) : b[n] = PeerLines(d, e[n])
  <2> HIDE DEF e, Line
  <2> QED
    BY EncodeParts DEF e
<1>2. /\ OddPeers(d) = {} => e = SetToSeq(d.wg.peers)
      /\ OddPeers(d) # {} => /\ Len(e) # 0 /\ d.names[e[Len(e)]] \in OddName
                             /\ \A j \in 1..Len(e) : j # Len(e) => d.names[e[j]] \notin OddName
      /\ \A j \in 1..Len(e) : e[j] \in d.wg.peers
  <2>1. IsFiniteSet(d.wg.peers)
    BY FewPeers
  <2> HIDE DEF e
  <2>2. e \in Seq(d.wg.peers)
    BY <2>1, StopsAtOdd DEF e
  <2> QED
    BY <2>1, <2>2, StopsAtOdd, LenProperties DEF e
<1>3. h \in Line /\ h.kind = "peer"
  BY DEF L, Line
<1> HIDE DEF e, Line, h
<1>4. Len(e) \in Nat
  BY <1>1, LenProperties
<1>5. Encode(d) \in Seq(Line)
  <2>1. Len(e) + 1 \in 1..(Len(e) + 1)
    BY <1>4
  <2> DEFINE v == Before(b, Len(e) + 1)
  <2>2. v \in Seq(Line)
    BY <1>1, <2>1
  <2> HIDE DEF v, H
  <2>3. H \o v \in Seq(Line)
    BY <1>1, <2>2, BothTexts
  <2> QED
    BY <1>1, <2>3, Zenon DEF v
<1>6. ASSUME NEW m \in 0..Len(e), \A j \in 1..m : d.names[e[j]] \notin OddName
      PROVE  \E s : TextReads(H \o Before(b, m + 1), append, I, q(m), s)
  <2>1. FirstRead(d, e, append, q(m), m)
    <3>1. e \in Seq(Key)
      BY <1>1
    <3> QED
      BY ONLY d \in NamedDevice, append \in BOOLEAN, no = FALSE, none = <<>>, yes = TRUE,
              <1>6, <3>1, m \in 0..Len(e), PeersRead, Zenon
  <2> QED
    BY <2>1, Zenon DEF FirstRead
<1>7. ASSUME OddPeers(d) = {}
      PROVE  Means(Encode(d), append, I, EntriesFor(no, none, yes, d, SetToSeq(d.wg.peers)))
  <2>1. Len(e) \in 0..Len(e) /\ \A j \in 1..Len(e) : d.names[e[j]] \notin OddName
    BY <1>2, <1>4, <1>7 DEF OddPeers
  <2>2. PICK s : TextReads(H \o Before(b, Len(e) + 1), append, I, q(Len(e)), s)
    BY <1>6, <2>1
  <2>3. q(Len(e)) = EntriesFor(no, none, yes, d, e)
    BY Zenon DEF EntriesFor
  <2> HIDE DEF H, I, q, b
  <2> QED
    BY <1>1, <1>2, <1>7, <2>2, <2>3, Zenon DEF TextReads, Means
<1>8. ASSUME OddPeers(d) # {}
      PROVE  \E p : Indexed(p) /\ Meant(Encode(d), append).peers = Append(p, NewEntry)
  <2> DEFINE m == Len(e) - 1
             n == Len(e)
  <2>1. m \in 0..Len(e) /\ m + 1 = n /\ n \in 1..Len(e) /\ n \in 1..(Len(e) + 1) /\ m \in Nat
    BY <1>2, <1>4, <1>8
  <2>2. \A j \in 1..m : d.names[e[j]] \notin OddName
    <3> TAKE j \in 1..m
    <3>1. j \in 1..Len(e) /\ j # Len(e)
      BY <1>4
    <3> QED
      BY <1>2, <1>8, <3>1
  <2>3. PICK s : TextReads(H \o Before(b, n), append, I, q(m), s)
    <3>1. \E s : TextReads(H \o Before(b, m + 1), append, I, q(m), s)
      BY ONLY <1>6, <2>1, <2>2
    <3> QED
      BY <2>1, <3>1, Zenon
  <2>4. b[n] = <<h>>
    <3>1. PeerLines(d, e[n]) = <<h>>
      BY <1>2, <1>8, Zenon DEF PeerLines, h
    <3> QED
      BY <1>1, <2>1, <3>1, Zenon
  <2>5. Indexed(q(m))
    <3> DEFINE y == q(m)
    <3>1. y = [j \in 1..m |-> y[j]]
      OBVIOUS
    <3> HIDE DEF y, m
    <3>2. Indexed(y)
      BY <2>1, <3>1, ListIs
    <3> QED
      BY <3>2 DEF y
  <2> HIDE DEF q, m, n, H, I, b
  <2> DEFINE v == Before(b, n)
             t == H \o v
  <2>6. Encode(d) = Append(t, h)
    <3>1. Encode(d) = H \o (v \o <<h>>)
      BY <1>1, <2>1, <2>4, Zenon DEF n
    <3>2. v \in Seq(Line) /\ <<h>> \in Seq(Line) /\ H \in Seq(Line)
      BY <1>1, <1>3, <2>1
    <3> HIDE DEF v
    <3>3. H \o (v \o <<h>>) = (H \o v) \o <<h>>
      <4> DEFINE z == <<h>>
      <4>1. z \in Seq(Line)
        BY <3>2
      <4> HIDE DEF z
      <4>2. H \o (v \o z) = (H \o v) \o z
        BY ONLY <3>2, <4>1, BehindBoth
      <4> QED
        BY <4>2 DEF z
    <3>4. H \o v \in Seq(Line)
      BY ONLY <3>2, BothTexts
    <3> HIDE DEF t
    <3>5. t \o <<h>> = Append(t, h)
      BY <1>3, <3>4 DEF t
    <3> QED
      BY <3>1, <3>3, <3>5, Zenon DEF t
  <2>7. TextReads(Append(t, h), append, I, Append(q(m), NewEntry), "peer")
    <3> HIDE DEF t
    <3>1. TextReads(t, append, I, q(m), s)
      BY <2>3, Zenon DEF t, n
    <3>2. h.kind = "peer" => TextReads(Append(t, h), append, I, Append(q(m), NewEntry), "peer")
      BY ONLY <1>3, <3>1, ReadsMore
    <3> QED
      BY <1>3, <3>2
  <2>8. Meant(Encode(d), append) = Parts(I, ~append, Append(q(m), NewEntry))
    BY <2>6, <2>7, Zenon DEF TextReads
  <2> DEFINE w == Append(q(m), NewEntry)
  <2> HIDE DEF w
  <2>9. Parts(I, ~append, w).peers = w
    BY DEF Parts
  <2>10. Meant(Encode(d), append).peers = Append(q(m), NewEntry)
    BY <2>8, <2>9, Zenon DEF w
  <2> QED
    BY <2>5, <2>10, Zenon
<1> QED
  BY <1>5, <1>7, <1>8

(* The same, with the constants in the entries.                            *)
EntryBack(d, k) ==
  Fields(FALSE, <<>>, k, IF d.names[k] = NoName THEN Unset ELSE d.names[k],
         IF d.wg.setting[k] = Default THEN Unset ELSE d.wg.setting[k], OpsOf(d, k), TRUE)
EntriesBack(d, e) == [j \in 1..Len(e) |-> EntryBack(d, e[j])]
ReadBack(d, append) ==
  Parts(IfaceRead(d, append), ~append, EntriesBack(d, SetToSeq(d.wg.peers)))

(* The two ways to say what entry a peer becomes.                          *)
LEMMA EntryIsBack ==
  ASSUME NEW d, NEW k, NEW no, NEW none, NEW yes, no = FALSE, none = <<>>, yes = TRUE
  PROVE  EntryFor(no, none, yes, d, k) = EntryBack(d, k)
BY Zenon DEF EntryFor, EntryBack

(* What Encode writes is read back, unless a name is odd: then the text ends *)
(* in a header without a key.                                              *)
LEMMA EncodeBack ==
  ASSUME NEW d \in NamedDevice, NEW append \in BOOLEAN
  PROVE  /\ Encode(d) \in Seq(Line)
         /\ OddPeers(d) = {} => Meant(Encode(d), append) = ReadBack(d, append)
         /\ OddPeers(d) # {} =>
              \E q : Indexed(q) /\ Meant(Encode(d), append).peers = Append(q, NewEntry)
<1>1. PICK none : none = <<>>
  OBVIOUS
<1>2. PICK no : no = FALSE
  OBVIOUS
<1>3. PICK yes : yes = TRUE
  OBVIOUS
<1>4. ASSUME NEW e PROVE EntriesFor(no, none, yes, d, e) = EntriesBack(d, e)
  <2> DEFINE F(j) == EntryFor(no, none, yes, d, e[j])
             G(j) == EntryBack(d, e[j])
  <2>1. \A j \in 1..Len(e) : F(j) = G(j)
    BY <1>1, <1>2, <1>3, EntryIsBack, Zenon
  <2>2. EntriesFor(no, none, yes, d, e) = [j \in 1..Len(e) |-> F(j)]
    BY Zenon DEF EntriesFor
  <2>3. EntriesBack(d, e) = [j \in 1..Len(e) |-> G(j)]
    BY Zenon DEF EntriesBack
  <2> HIDE DEF F, G
  <2>4. [j \in 1..Len(e) |-> F(j)] = [j \in 1..Len(e) |-> G(j)]
    BY <2>1
  <2> QED
    BY <2>2, <2>3, <2>4, Zenon
<1>5. /\ Encode(d) \in Seq(Line)
      /\ OddPeers(d) = {} =>
           Means(Encode(d), append, IfaceRead(d, append),
                 EntriesFor(no, none, yes, d, SetToSeq(d.wg.peers)))
      /\ OddPeers(d) # {} =>
           \E q : Indexed(q) /\ Meant(Encode(d), append).peers = Append(q, NewEntry)
  <2> DEFINE G(x, y, z) ==
               /\ Encode(d) \in Seq(Line)
               /\ OddPeers(d) = {} =>
                    Means(Encode(d), append, IfaceRead(d, append),
                          EntriesFor(x, y, z, d, SetToSeq(d.wg.peers)))
               /\ OddPeers(d) # {} =>
                    \E q : Indexed(q) /\ Meant(Encode(d), append).peers = Append(q, NewEntry)
  <2>1. ASSUME NEW x, NEW y, NEW z, x = FALSE, y = <<>>, z = TRUE PROVE G(x, y, z)
    BY <2>1, EncodeMeans
  <2> HIDE DEF G
  <2>2. G(no, none, yes)
    BY <1>1, <1>2, <1>3, <2>1, Zenon
  <2> QED
    BY <2>2 DEF G
<1>6. EntriesFor(no, none, yes, d, SetToSeq(d.wg.peers)) = EntriesBack(d, SetToSeq(d.wg.peers))
  BY <1>4, Zenon
<1>7. ASSUME OddPeers(d) = {} PROVE Meant(Encode(d), append) = ReadBack(d, append)
  BY <1>5, <1>6, <1>7, Zenon DEF ReadBack, Means
<1> QED
  BY ONLY <1>5, <1>7, Zenon

(* An entry with a key, as the client of the device gets it.               *)
LEMMA EntryEncoded ==
  ASSUME NEW e \in KeyedEntry
  PROVE  /\ EncodePeer(e) \in Encoded
         /\ EncodePeer(e).key = e.key /\ EncodePeer(e).remove = e.remove
         /\ EncodePeer(e).updateOnly = e.updateOnly /\ EncodePeer(e).setting = e.setting
         /\ EncodePeer(e).replaceIPs = e.replaceIPs
         /\ EncodePeer(e).allowed = AllowedIPs(e.ips, e.ops)
<1>1. e.ips \in Seq(IP) /\ e.ops \in Seq(Operation)
  BY DEF KeyedEntry, AnyEntry, IPOp, Operation
<1>2. AllowedIPs(e.ips, e.ops) \in Seq(AllowedIP)
  BY <1>1, AllowedParts
<1>3. /\ e.key \in Key /\ e.remove \in BOOLEAN /\ e.updateOnly \in BOOLEAN
      /\ e.setting \in Setting \cup {Default, Unset} /\ e.replaceIPs \in BOOLEAN
  BY DEF KeyedEntry, AnyEntry
<1> QED
  BY <1>2, <1>3 DEF EncodePeer, Encoded

(* The entry that is read back for a peer has the parts of that peer.      *)
LEMMA EntryBackParts ==
  ASSUME NEW d \in NamedDevice, NEW k \in Key, d.names[k] \notin OddName,
         NEW e, e = EntryBack(d, k)
  PROVE  /\ e \in KeyedEntry
         /\ e.key = k /\ ~e.remove /\ ~e.updateOnly /\ e.replaceIPs
         /\ e.setting = IF d.wg.setting[k] = Default THEN Unset ELSE d.wg.setting[k]
         /\ e.name = IF d.names[k] = NoName THEN Unset ELSE d.names[k]
         /\ e.ips = <<>> /\ e.ops = OpsOf(d, k)
<1> DEFINE n == IF d.names[k] = NoName THEN Unset ELSE d.names[k]
           s == IF d.wg.setting[k] = Default THEN Unset ELSE d.wg.setting[k]
           o == OpsOf(d, k)
<1>1. d.wg \in Device /\ d.names \in Meta!NameMap
  BY FewPeers
<1>2. n \in Name \cup {Unset}
  BY <1>1 DEF Meta!NameMap
<1>3. s \in Setting \cup {Unset}
  BY <1>1 DEF Device
<1>4. o \in Seq(IPOp)
  BY OpsParts
<1>5. PICK none : none = <<>>
  OBVIOUS
<1>6. PICK no : no = FALSE
  OBVIOUS
<1>7. PICK yes : yes = TRUE
  OBVIOUS
<1>8. none \in Seq(IP) /\ no \in BOOLEAN /\ yes \in BOOLEAN
  <2>1. none \in Seq(IP)
    BY <1>5, EmptySeq, Zenon
  <2> QED
    BY <1>6, <1>7, <2>1
<1>9. e = Fields(no, none, k, n, s, o, yes)
  BY <1>5, <1>6, <1>7, Zenon DEF EntryBack
<1>10. /\ k \in Key \cup {NoKey} /\ n \in Name \cup OddName \cup {Unset, Clear}
       /\ s \in Setting \cup {Default, Unset}
  BY <1>2, <1>3
<1> HIDE DEF n, s, o
<1>11. /\ e.key = k /\ e.remove = no /\ e.updateOnly = no /\ e.replaceIPs = yes
       /\ e.setting = s /\ e.name = n /\ e.ips = none /\ e.ops = o
  BY ONLY <1>9, SMT DEF Fields
<1>12. e \in AnyEntry
  BY ONLY <1>4, <1>8, <1>9, <1>10, SMT DEF Fields, AnyEntry
<1>13. e \in KeyedEntry
  BY ONLY <1>11, <1>12, k \in Key DEF KeyedEntry
<1> QED
  BY <1>5, <1>6, <1>7, <1>11, <1>13, Zenon DEF n, s, o

(* A device with some of its peers only.                                   *)
OnlyPeers(d, P) ==
  [peers   |-> P,
   setting |-> [x \in Key |-> IF x \in P THEN d.setting[x] ELSE Default],
   owner   |-> [a \in IP |-> IF d.owner[a] \in P THEN d.owner[a] ELSE Nobody]]

(* What only peers have is a device.                                       *)
LEMMA OnlyPeersParts ==
  ASSUME NEW d \in Device
  PROVE  /\ \A P \in SUBSET Key : OnlyPeers(d, P) \in Device
         /\ OnlyPeers(d, {}) = NoPeers
         /\ Tidy(d) => OnlyPeers(d, d.peers) = d
<1>1. d.peers \in SUBSET Key /\ d.setting \in [Key -> Setting \cup {Default}]
      /\ d.owner \in [IP -> Key \cup {Nobody}]
  BY DEF Device
<1>2. ASSUME NEW P \in SUBSET Key PROVE OnlyPeers(d, P) \in Device
  BY <1>1 DEF OnlyPeers, Device
<1>3. OnlyPeers(d, {}) = NoPeers
  BY DEF OnlyPeers, NoPeers
<1>4. ASSUME Tidy(d) PROVE OnlyPeers(d, d.peers) = d
  <2> DEFINE o == OnlyPeers(d, d.peers)
  <2>1. o \in Device
    BY <1>1, <1>2
  <2>2. o.peers = d.peers
    BY DEF OnlyPeers
  <2>3. \A x \in Key : o.setting[x] = d.setting[x]
    BY <1>4 DEF OnlyPeers, Tidy
  <2>4. \A a \in IP : o.owner[a] = d.owner[a]
    BY <1>4 DEF OnlyPeers, Tidy
  <2> HIDE DEF o
  <2>5. o = d
    BY <2>1, <2>2, <2>3, <2>4, SameDevice
  <2> QED
    BY <2>5 DEF o
<1> QED
  BY <1>2, <1>3, <1>4

(* The entry gives the device that peer as it was.                         *)
LEMMA EntryAdds ==
  ASSUME NEW d \in NamedDevice, NEW k \in Key, d.names[k] \notin OddName, NEW P \in SUBSET Key
  PROVE  /\ EncodePeer(EntryBack(d, k)) \in Encoded
         /\ SetPeer(OnlyPeers(d.wg, P), EncodePeer(EntryBack(d, k)))
              = OnlyPeers(d.wg, P \cup {k})
<1> DEFINE w == OnlyPeers(d.wg, P)
           v == OnlyPeers(d.wg, P \cup {k})
           o == OpsOf(d, k)
           s == IF d.wg.setting[k] = Default THEN Unset ELSE d.wg.setting[k]
<1>1. PICK e : e = EntryBack(d, k)
  OBVIOUS
<1>2. PICK none : none = <<>>
  OBVIOUS
<1> DEFINE A == AllowedIPs(none, o)
<1>3. /\ e \in KeyedEntry
      /\ e.key = k /\ ~e.remove /\ ~e.updateOnly /\ e.replaceIPs
      /\ e.setting = s /\ e.ips = <<>> /\ e.ops = o
  BY ONLY <1>1, d \in NamedDevice, k \in Key, d.names[k] \notin OddName, EntryBackParts
<1>4. e.ips = none
  BY <1>2, <1>3
<1> HIDE DEF s
<1>5. PICK f : f = EncodePeer(e)
  OBVIOUS
<1>6. /\ f \in Encoded /\ f.key = k /\ ~f.remove /\ ~f.updateOnly
      /\ f.replaceIPs /\ f.allowed = A /\ f.setting = s
  <2>1. /\ f \in Encoded /\ f.key = e.key /\ f.remove = e.remove
        /\ f.updateOnly = e.updateOnly /\ f.setting = e.setting
        /\ f.replaceIPs = e.replaceIPs /\ f.allowed = AllowedIPs(e.ips, e.ops)
    BY ONLY <1>3, <1>5, EntryEncoded
  <2> HIDE DEF o
  <2>2. f.allowed = A
    BY <1>3, <1>4, <2>1
  <2> QED
    BY ONLY <1>3, <2>1, <2>2
<1>7. d.wg \in Device
  BY FewPeers
<1>8. w \in Device /\ v \in Device
  BY <1>7, OnlyPeersParts
<1>9. /\ o \in Seq(Operation)
      /\ \A n \in DOMAIN o : o[n].op = "set"
      /\ \A a \in IP : (\E n \in DOMAIN o : o[n].ip = a) <=> d.wg.owner[a] = k
  <2>1. Operation = IPOp
    BY DEF Operation, IPOp
  <2> QED
    BY <2>1, OpsParts
<1> HIDE DEF o
<1>10. /\ \A a \in IP : Gives(A, a) <=> d.wg.owner[a] = k
       /\ \A a \in IP : ~Takes(A, a)
       /\ \A a \in IP : Gives(A, a) => GivesLast(A, a)
  <2>1. none \in Seq(IP)
    BY <1>2, EmptySeq, Zenon
  <2>2. /\ A \in Seq(AllowedIP)
        /\ Len(A) = Len(none) + Len(o)
        /\ \A i \in 1..(Len(none) + Len(o)) :
             A[i] = IF i <= Len(none) THEN [ip |-> none[i], remove |-> FALSE]
                    ELSE [ip |-> o[i - Len(none)].ip, remove |-> o[i - Len(none)].op = "remove"]
    BY ONLY <1>9, <2>1, AllowedParts
  <2>3. Len(none) = 0
    BY <1>2
  <2>4. Len(o) \in Nat /\ DOMAIN o = 1..Len(o)
    BY <1>9, LenProperties
  <2>5. DOMAIN A = 1..Len(A)
    BY <2>2, LenProperties
  <2> HIDE DEF A
  <2>6. DOMAIN A = DOMAIN o
    BY <2>2, <2>3, <2>4, <2>5
  <2>7. \A i \in DOMAIN o : A[i].ip = o[i].ip /\ ~A[i].remove
    <3> TAKE i \in DOMAIN o
    <3>1. i \in 1..(Len(none) + Len(o)) /\ ~(i <= Len(none)) /\ i - Len(none) = i
      BY <2>3, <2>4
    <3>2. PICK r : r = (o[i].op = "remove")
      OBVIOUS
    <3>3. A[i] = [ip |-> o[i].ip, remove |-> r]
      BY <2>2, <3>1, <3>2, Zenon
    <3>4. A[i].ip = o[i].ip /\ A[i].remove = r
      BY ONLY <3>3
    <3> QED
      BY <1>9, <3>2, <3>4
  <2> QED
    BY <1>9, <2>6, <2>7 DEF Gives, Takes, GivesLast
<1> HIDE DEF A
<1>11. s = IF d.wg.setting[k] = Default THEN Unset ELSE d.wg.setting[k]
  BY DEF s
<1>12. Unset # Default /\ (d.wg.setting[k] # Default => d.wg.setting[k] # Unset)
  BY <1>7, MissingValues DEF Device
<1> DEFINE u == SetPeer(w, f)
<1> HIDE DEF w, v
<1>13. Acts(f, w)
  BY <1>6 DEF Acts
<1>14. /\ u \in Device /\ u.peers = IF f.remove THEN w.peers \ {f.key} ELSE w.peers \cup {f.key}
       /\ \A x \in Key : u.setting[x] =
            IF x # f.key THEN w.setting[x]
            ELSE IF f.remove THEN Default
            ELSE IF f.setting = Unset THEN w.setting[x] ELSE f.setting
       /\ \A a \in IP : u.owner[a] =
            IF f.remove THEN Disowned(f.key, w.owner[a])
            ELSE OwnedAfter(f.key, IF f.replaceIPs THEN Disowned(f.key, w.owner[a])
                                   ELSE w.owner[a], f.allowed, a)
  <2>1. f \in Encoded
    BY <1>6
  <2> QED
    BY ONLY <1>8, <1>13, <2>1, SetPeerParts
<1> HIDE DEF u
<1>15. u.peers = v.peers
  BY <1>6, <1>14 DEF w, v, OnlyPeers
<1>16. ASSUME NEW x \in Key PROVE u.setting[x] = v.setting[x]
  <2>1. /\ w.setting[x] = IF x \in P THEN d.wg.setting[x] ELSE Default
        /\ v.setting[x] = IF x \in P \cup {k} THEN d.wg.setting[x] ELSE Default
    BY DEF w, v, OnlyPeers
  <2>2. u.setting[x] = IF x # k THEN w.setting[x] ELSE IF s = Unset THEN w.setting[x] ELSE s
    BY <1>6, <1>14
  <2> QED
    BY <1>11, <1>12, <2>1, <2>2
<1>17. ASSUME NEW a \in IP PROVE u.owner[a] = v.owner[a]
  <2>1. /\ w.owner[a] = IF d.wg.owner[a] \in P THEN d.wg.owner[a] ELSE Nobody
        /\ v.owner[a] = IF d.wg.owner[a] \in P \cup {k} THEN d.wg.owner[a] ELSE Nobody
    BY DEF w, v, OnlyPeers
  <2>2. u.owner[a] = OwnedAfter(k, Disowned(k, w.owner[a]), A, a)
    BY <1>6, <1>14
  <2>3. OwnedAfter(k, Disowned(k, w.owner[a]), A, a)
        = IF d.wg.owner[a] = k THEN k ELSE Disowned(k, w.owner[a])
    BY <1>10 DEF OwnedAfter
  <2> QED
    BY <2>1, <2>2, <2>3 DEF Disowned
<1>18. u = v
  BY <1>8, <1>14, <1>15, <1>16, <1>17, SameDevice
<1> QED
  BY <1>1, <1>5, <1>6, <1>18 DEF u, w, v

(* All entries, as the client of the device gets them.                     *)
EncodedBack(d, e) == [j \in 1..Len(e) |-> EncodePeer(EntryBack(d, e[j]))]

(* All of them give it all of its peers, and leave those it has.           *)
LEMMA EntriesAdd ==
  ASSUME NEW d \in NamedDevice, NEW e \in Seq(Key),
         \A j \in 1..Len(e) : d.names[e[j]] \notin OddName,
         NEW P \in SUBSET Key
  PROVE  After(OnlyPeers(d.wg, P), EncodedBack(d, e))
           = OnlyPeers(d.wg, P \cup {e[j] : j \in 1..Len(e)})
<1> DEFINE s == EncodedBack(d, e)
           Q(i) == P \cup {e[j] : j \in 1..i}
           b == OnlyPeers(d.wg, P)
           W(i) == OnlyPeers(d.wg, Q(i))
           A(i) == After(b, SubSeq(s, 1, i))
           T == {i \in 0..Len(e) : A(i) = W(i)}
<1>1. Len(e) \in Nat /\ \A j \in 1..Len(e) : e[j] \in Key
  BY LenProperties
<1>2. /\ s = [j \in 1..Len(e) |-> s[j]]
      /\ \A j \in 1..Len(e) : s[j] = EncodePeer(EntryBack(d, e[j]))
  BY DEF EncodedBack
<1> HIDE DEF s
<1>3. ASSUME NEW j \in 1..Len(e), NEW R \in SUBSET Key
      PROVE  s[j] \in Encoded /\ SetPeer(OnlyPeers(d.wg, R), s[j]) = OnlyPeers(d.wg, R \cup {e[j]})
  <2> DEFINE x == EncodePeer(EntryBack(d, e[j]))
  <2>1. x \in Encoded /\ SetPeer(OnlyPeers(d.wg, R), x) = OnlyPeers(d.wg, R \cup {e[j]})
    BY <1>1, EntryAdds
  <2>2. s[j] = x
    BY <1>2
  <2> QED
    BY ONLY <2>1, <2>2, Zenon
<1>4. s \in Seq(Encoded) /\ Len(s) = Len(e)
  <2>1. \A j \in 1..Len(e) : s[j] \in Encoded
    BY <1>3
  <2> QED
    BY ONLY <1>1, <1>2, <2>1
<1>5. b \in Device
  BY FewPeers, OnlyPeersParts
<1> HIDE DEF b
<1>6. /\ A(0) = b /\ A(Len(e)) = After(b, s)
      /\ \A i \in 0..Len(e) : i < Len(e) => A(i + 1) = SetPeer(A(i), s[i + 1])
  BY ONLY <1>4, <1>5, AfterSteps
<1> HIDE DEF A
<1>7. \A i \in 0..Len(e) : Q(i) \in SUBSET Key
  BY <1>1
<1>8. 0 \in T
  <2>1. Q(0) = P
    OBVIOUS
  <2> HIDE DEF Q
  <2>2. A(0) = W(0)
    BY <1>6, <2>1 DEF b
  <2> QED
    BY <1>1, <2>2
<1>9. ASSUME NEW i \in 0..Len(e), i < Len(e), i \in T PROVE i + 1 \in T
  <2>1. i + 1 \in 1..Len(e) /\ i + 1 \in 0..Len(e)
    BY <1>1, <1>9
  <2>2. Q(i + 1) = Q(i) \cup {e[i + 1]}
    <3>1. 1..(i + 1) = (1..i) \cup {i + 1}
      BY <2>1
    <3> QED
      BY <3>1
  <2>3. Q(i) \in SUBSET Key
    BY <1>7
  <2> HIDE DEF Q
  <2>4. A(i + 1) = SetPeer(OnlyPeers(d.wg, Q(i)), s[i + 1])
    BY <1>6, <1>9
  <2>5. A(i + 1) = W(i + 1)
    BY <1>3, <2>1, <2>2, <2>3, <2>4
  <2> QED
    BY <2>1, <2>5
<1>10. Len(e) \in T
  <2> HIDE DEF T
  <2>1. \A i \in 0..Len(e) : i \in T
    BY <1>1, <1>8, <1>9, Upwards
  <2> QED
    BY <1>1, <2>1
<1> QED
  BY <1>6, <1>10 DEF b, s

(* A device is put back.                                                   *)
LEMMA PutsBack ==
  ASSUME NEW d \in NamedDevice, Tidy(d.wg), OddPeers(d) = {},
         NEW i, NEW r \in BOOLEAN, NEW c,
         c = Parts(i, r, EntriesBack(d, SetToSeq(d.wg.peers))),
         NEW w, r \/ w = d.wg
  PROVE  SetDevice(w, Message(c)) = d.wg
<1> DEFINE e == SetToSeq(d.wg.peers)
           p == EntriesBack(d, e)
           s == EncodedBack(d, e)
           b == IF r THEN NoPeers ELSE w
<1>1. d.wg \in Device /\ d.wg.peers \subseteq Key /\ IsFiniteSet(d.wg.peers)
  BY FewPeers
<1>2. e \in Seq(d.wg.peers) /\ \A x \in d.wg.peers : \E n \in DOMAIN e : e[n] = x
  BY <1>1, ListOfSet
<1> HIDE DEF e
<1>3. /\ Len(e) \in Nat /\ DOMAIN e = 1..Len(e) /\ \A j \in 1..Len(e) : e[j] \in d.wg.peers
      /\ e \in Seq(Key)
  BY <1>1, <1>2, LenProperties, WiderSeq
<1>4. \A j \in 1..Len(e) : d.names[e[j]] \notin OddName
  BY <1>3 DEF OddPeers
<1>5. {e[j] : j \in 1..Len(e)} = d.wg.peers
  BY <1>2, <1>3
<1>6. DOMAIN p = 1..Len(e) /\ \A j \in 1..Len(e) : p[j] = EntryBack(d, e[j])
  BY DEF EntriesBack
<1>7. c.replace = r /\ c.peers = p
  <2>1. c = Parts(i, r, p)
    BY DEF e
  <2> HIDE DEF p
  <2> QED
    BY <2>1, PartsHas
<1> HIDE DEF p
<1>8. SetDevice(w, Message(c)) = After(b, s)
  <2>1. [j \in DOMAIN p |-> EncodePeer(p[j])] = s
    BY <1>6, Zenon DEF EncodedBack
  <2>2. Message(c) = [replace |-> r, peers |-> s]
    BY <1>7, <2>1, Zenon DEF Message
  <2> HIDE DEF s
  <2>3. Message(c).replace = r /\ Message(c).peers = s
    BY <2>2
  <2> HIDE DEF b
  <2>4. After(IF Message(c).replace THEN NoPeers ELSE w, s) = After(b, s)
    BY <2>3, Zenon DEF b
  <2> QED
    BY <2>3, <2>4, Zenon DEF SetDevice, After
<1>9. \E P \in SUBSET Key : b = OnlyPeers(d.wg, P) /\ P \cup d.wg.peers = d.wg.peers
  <2>1. OnlyPeers(d.wg, {}) = NoPeers /\ OnlyPeers(d.wg, d.wg.peers) = d.wg
    BY <1>1, OnlyPeersParts
  <2>2. CASE r
    <3> WITNESS {} \in SUBSET Key
    <3> QED
      BY <2>1, <2>2
  <2>3. CASE ~r
    <3>1. d.wg.peers \in SUBSET Key
      BY <1>1
    <3> QED
      BY <2>1, <2>3, <3>1
  <2> QED
    BY <2>2, <2>3
<1>10. PICK P \in SUBSET Key : b = OnlyPeers(d.wg, P) /\ P \cup d.wg.peers = d.wg.peers
  BY <1>9
<1> HIDE DEF b
<1>11. After(b, s) = OnlyPeers(d.wg, P \cup {e[j] : j \in 1..Len(e)})
  <2>1. After(OnlyPeers(d.wg, P), s) = OnlyPeers(d.wg, P \cup {e[j] : j \in 1..Len(e)})
    BY ONLY <1>3, <1>4, d \in NamedDevice, P \in SUBSET Key, EntriesAdd
  <2> QED
    BY <1>10, <2>1
<1> HIDE DEF s
<1>12. OnlyPeers(d.wg, d.wg.peers) = d.wg
  BY <1>1, OnlyPeersParts
<1> QED
  BY <1>5, <1>8, <1>10, <1>11, <1>12

(* Only peers have settings and IPs, whatever the entries say.             *)
LEMMA SetPeerTidy ==
  ASSUME NEW d \in Device, Tidy(d), NEW e \in Encoded
  PROVE  SetPeer(d, e) \in Device /\ Tidy(SetPeer(d, e))
<1> DEFINE u == SetPeer(d, e)
<1>1. /\ u \in Device
      /\ ~Acts(e, d) => u = d
      /\ Acts(e, d) =>
           /\ u.peers = IF e.remove THEN d.peers \ {e.key} ELSE d.peers \cup {e.key}
           /\ \A x \in Key : u.setting[x] =
                IF x # e.key THEN d.setting[x]
                ELSE IF e.remove THEN Default
                ELSE IF e.setting = Unset THEN d.setting[x] ELSE e.setting
           /\ \A a \in IP : u.owner[a] =
                IF e.remove THEN Disowned(e.key, d.owner[a])
                ELSE OwnedAfter(e.key, IF e.replaceIPs THEN Disowned(e.key, d.owner[a])
                                       ELSE d.owner[a], e.allowed, a)
  BY SetPeerParts
<1> HIDE DEF u
<1>2. CASE ~Acts(e, d)
  BY <1>1, <1>2 DEF u
<1>3. CASE Acts(e, d)
  <2>1. \A k \in Key \ u.peers : u.setting[k] = Default
    BY <1>1, <1>3 DEF Tidy
  <2>2. \A a \in IP : u.owner[a] \in u.peers \cup {Nobody}
    <3> TAKE a \in IP
    <3>1. d.owner[a] \in d.peers \cup {Nobody}
      BY DEF Tidy
    <3>2. CASE e.remove
      BY <1>1, <1>3, <3>1, <3>2 DEF Disowned
    <3>3. CASE ~e.remove
      <4> DEFINE x == IF e.replaceIPs THEN Disowned(e.key, d.owner[a]) ELSE d.owner[a]
      <4>1. x \in d.peers \cup {Nobody}
        BY <3>1 DEF Disowned
      <4>2. u.owner[a] = OwnedAfter(e.key, x, e.allowed, a)
        BY <1>1, <1>3, <3>3
      <4> HIDE DEF x
      <4>3. OwnedAfter(e.key, x, e.allowed, a) \in {e.key, Nobody, x}
        BY DEF OwnedAfter
      <4>4. u.peers = d.peers \cup {e.key}
        BY <1>1, <1>3, <3>3
      <4> QED
        BY <4>1, <4>2, <4>3, <4>4
    <3> QED
      BY <3>2, <3>3
  <2> QED
    BY <1>1, <2>1, <2>2 DEF Tidy, u
<1> QED
  BY <1>2, <1>3

(* No entry gives anything to a key that is no peer.                       *)
LEMMA AfterTidy ==
  ASSUME NEW b \in Device, Tidy(b), NEW s \in Seq(Encoded)
  PROVE  After(b, s) \in Device /\ Tidy(After(b, s))
<1> DEFINE A(i) == After(b, SubSeq(s, 1, i))
           T == {i \in 0..Len(s) : A(i) \in Device /\ Tidy(A(i))}
<1>1. Len(s) \in Nat /\ \A i \in 1..Len(s) : s[i] \in Encoded
  BY LenProperties
<1>2. /\ A(0) = b /\ A(Len(s)) = After(b, s)
      /\ \A i \in 0..Len(s) : i < Len(s) => A(i + 1) = SetPeer(A(i), s[i + 1])
  BY AfterSteps
<1> HIDE DEF A
<1>3. 0 \in T
  BY <1>1, <1>2
<1>4. ASSUME NEW i \in 0..Len(s), i < Len(s), i \in T PROVE i + 1 \in T
  <2>1. i + 1 \in 1..Len(s) /\ i + 1 \in 0..Len(s)
    BY <1>1, <1>4
  <2>2. A(i + 1) = SetPeer(A(i), s[i + 1]) /\ s[i + 1] \in Encoded
    BY <1>1, <1>2, <1>4, <2>1
  <2>3. A(i + 1) \in Device /\ Tidy(A(i + 1))
    BY <1>4, <2>2, SetPeerTidy
  <2> QED
    BY <2>1, <2>3
<1>5. Len(s) \in T
  <2> HIDE DEF T
  <2>1. \A i \in 0..Len(s) : i \in T
    BY <1>1, <1>3, <1>4, Upwards
  <2> QED
    BY <1>1, <2>1
<1> QED
  BY <1>2, <1>5

(* A configuration that can be applied; what it makes of a device.         *)
Applicable(c) ==
  /\ c = Parts(c.iface, c.replace, c.peers)
  /\ c.iface \in Setting \cup {Default, Unset}
  /\ c.replace \in BOOLEAN /\ c.peers \in Seq(KeyedEntry)

(* Nor does a configuration, in however many messages it is sent.          *)
LEMMA SetDeviceTidy ==
  ASSUME NEW w \in Device, Tidy(w), NEW c, Applicable(c)
  PROVE  SetDevice(w, Message(c)) \in Device /\ Tidy(SetDevice(w, Message(c)))
<1> DEFINE p == c.peers
           s == [j \in DOMAIN p |-> EncodePeer(p[j])]
           b == IF c.replace THEN NoPeers ELSE w
<1>1. p \in Seq(KeyedEntry) /\ c.replace \in BOOLEAN
  BY DEF Applicable
<1> HIDE DEF p
<1>2. Len(p) \in Nat /\ DOMAIN p = 1..Len(p) /\ \A j \in 1..Len(p) : p[j] \in KeyedEntry
  BY <1>1, LenProperties
<1>3. s \in Seq(Encoded)
  <2>1. s = [j \in 1..Len(p) |-> s[j]] /\ \A j \in 1..Len(p) : s[j] = EncodePeer(p[j])
    BY <1>2
  <2>2. \A j \in 1..Len(p) : s[j] \in Encoded
    BY <1>2, <2>1, EntryEncoded
  <2> HIDE DEF s
  <2> QED
    BY ONLY <1>2, <2>1, <2>2
<1>4. SetDevice(w, Message(c)) = After(b, s)
  <2>1. Message(c) = [replace |-> c.replace, peers |-> s]
    BY Zenon DEF Message, p
  <2>2. PICK r : r = c.replace
    OBVIOUS
  <2> HIDE DEF s
  <2>3. Message(c) = [replace |-> r, peers |-> s]
    BY <2>1, <2>2, Zenon
  <2>4. Message(c).replace = r /\ Message(c).peers = s
    BY ONLY <2>3
  <2> QED
    BY <2>2, <2>4, Zenon DEF SetDevice, After
<1>5. b \in Device /\ Tidy(b)
  <2>1. Tidy(NoPeers)
    BY DEF Tidy, NoPeers
  <2> QED
    BY <2>1, EmptyDevice
<1> HIDE DEF s, b
<1> QED
  BY <1>3, <1>4, <1>5, AfterTidy

(* The last entry that says something about a key.                         *)
LEMMA LastDecidesIs ==
  ASSUME NEW c, NEW exists, NEW k, Applicable(c), NEW n \in DOMAIN c.peers,
         Meta!Decides(c, exists, k, n),
         NEW m, m = CHOOSE j \in DOMAIN c.peers : Meta!LastDecides(c, exists, k, j)
  PROVE  m \in DOMAIN c.peers /\ Meta!Decides(c, exists, k, m)
<1> DEFINE D == {j \in DOMAIN c.peers : Meta!Decides(c, exists, k, j)}
<1>1. PICK l \in Nat : DOMAIN c.peers = 1..l
  <2>1. c.peers \in Seq(KeyedEntry)
    BY DEF Applicable
  <2> QED
    BY <2>1, LenProperties
<1>2. \E j \in D : \A x \in D : j >= x
  <2>1. D \in SUBSET (1..l) /\ D # {}
    BY <1>1
  <2> HIDE DEF D
  <2> QED
    BY <1>1, <2>1, LastIn
<1>3. \E j \in DOMAIN c.peers : Meta!LastDecides(c, exists, k, j)
  <2>1. PICK j \in D : \A x \in D : j >= x
    BY <1>2
  <2>2. \A x \in DOMAIN c.peers : x > j => ~Meta!Decides(c, exists, k, x)
    <3> TAKE x \in DOMAIN c.peers
    <3>1. x \in Nat /\ j \in Nat
      BY <1>1
    <3>2. x \in D => ~(x > j)
      BY <2>1, <3>1
    <3> QED
      BY <3>2
  <2> QED
    BY <2>2 DEF Meta!LastDecides
<1>4. m \in DOMAIN c.peers /\ Meta!LastDecides(c, exists, k, m)
  BY <1>3, Zenon
<1> QED
  BY <1>4 DEF Meta!LastDecides

(* Names are names.                                                        *)
LEMMA NamesTyped ==
  ASSUME NEW c, NEW exists, Applicable(c), NEW old \in Meta!NameMap
  PROVE  Meta!NamesAfter(c, exists, old) \in Meta!NameMap
<1> DEFINE N == Name \cup OddName \cup {NoName}
           F == Meta!NamesAfter(c, exists, old)
<1>1. F = [k \in Key |-> F[k]]
  BY DEF Meta!NamesAfter
<1>2. ASSUME NEW k \in Key PROVE F[k] \in N
  <2> DEFINE m == CHOOSE j \in DOMAIN c.peers : Meta!LastDecides(c, exists, k, j)
             y == \E j \in DOMAIN c.peers : Meta!Decides(c, exists, k, j)
             d == IF c.replace THEN NoName ELSE old[k]
  <2>1. F[k] = IF y THEN Meta!EntryName(c.peers[m]) ELSE d
    BY DEF Meta!NamesAfter
  <2>2. d \in N
    BY DEF Meta!NameMap
  <2>3. ASSUME y PROVE Meta!EntryName(c.peers[m]) \in N
    <3>1. PICK z : z = m
      OBVIOUS
    <3>2. z \in DOMAIN c.peers /\ Meta!Decides(c, exists, k, z)
      BY <2>3, <3>1, LastDecidesIs
    <3>3. c.peers \in Seq(KeyedEntry)
      BY DEF Applicable
    <3>4. c.peers[z] \in KeyedEntry
      BY <3>2, <3>3, LenProperties
    <3>5. c.peers[z].name \in Name \cup OddName \cup {Unset, Clear}
      BY <3>4 DEF KeyedEntry, AnyEntry
    <3>6. c.peers[z].remove \/ c.peers[z].name # Unset
      BY <3>2 DEF Meta!Decides
    <3>7. Meta!EntryName(c.peers[z]) \in N
      BY <3>5, <3>6 DEF Meta!EntryName
    <3> QED
      BY <3>1, <3>7
  <2> HIDE DEF y, d, N, F, m
  <2> QED
    BY <2>1, <2>2, <2>3
<1> HIDE DEF F
<1>3. F \in [Key -> N]
  BY <1>1, <1>2
<1> QED
  BY <1>3 DEF Meta!NameMap, F

(* The names come back with the peers.                                     *)
LEMMA NamesBack ==
  ASSUME NEW d \in NamedDevice, OddPeers(d) = {}, NEW old, NEW i, NEW r \in BOOLEAN, NEW c,
         c = Parts(i, r, EntriesBack(d, SetToSeq(d.wg.peers))), r \/ old = d.names,
         Applicable(c), NEW k \in d.wg.peers
  PROVE  Meta!NamesAfter(c, d.wg.peers, old)[k] = d.names[k]
<1> DEFINE e == SetToSeq(d.wg.peers)
           p == EntriesBack(d, e)
           X == d.wg.peers
<1>1. d.wg.peers \subseteq Key /\ IsFiniteSet(d.wg.peers) /\ d.names \in Meta!NameMap
  BY FewPeers
<1>2. /\ e \in Seq(X) /\ \A x \in X : \E n \in DOMAIN e : e[n] = x
      /\ \A n, m \in DOMAIN e : e[n] = e[m] => n = m
  BY <1>1, ListOfSet
<1> HIDE DEF e
<1>3. Len(e) \in Nat /\ DOMAIN e = 1..Len(e) /\ \A j \in 1..Len(e) : e[j] \in X
  BY <1>2, LenProperties
<1>4. DOMAIN p = 1..Len(e) /\ \A j \in 1..Len(e) : p[j] = EntryBack(d, e[j])
  BY DEF EntriesBack
<1> HIDE DEF p
<1>5. c.replace = r /\ c.peers = p
  <2>1. c = Parts(i, r, p)
    BY DEF e, p
  <2> QED
    BY <2>1, PartsHas
<1>6. \A j \in 1..Len(e) :
        /\ p[j].key = e[j] /\ ~p[j].remove
        /\ p[j].name = IF d.names[e[j]] = NoName THEN Unset ELSE d.names[e[j]]
  <2> TAKE j \in 1..Len(e)
  <2>1. e[j] \in Key /\ d.names[e[j]] \notin OddName
    BY <1>1, <1>3 DEF OddPeers
  <2>2. PICK x : x = EntryBack(d, e[j])
    OBVIOUS
  <2>3. /\ x.key = e[j] /\ ~x.remove
        /\ x.name = IF d.names[e[j]] = NoName THEN Unset ELSE d.names[e[j]]
    BY <2>1, <2>2, EntryBackParts
  <2> QED
    BY <1>4, <2>2, <2>3
<1>7. PICK n \in 1..Len(e) : e[n] = k
  BY <1>2, <1>3
<1>8. \A j \in 1..Len(e) : p[j].key = k => j = n
  BY <1>2, <1>3, <1>6, <1>7
<1>9. d.names[k] \in Name \cup OddName \cup {NoName}
  BY <1>1 DEF Meta!NameMap
<1> DEFINE y == \E j \in DOMAIN c.peers : Meta!Decides(c, X, k, j)
           m == CHOOSE j \in DOMAIN c.peers : Meta!LastDecides(c, X, k, j)
<1>10. Meta!NamesAfter(c, X, old)[k] =
         IF y THEN Meta!EntryName(c.peers[m]) ELSE IF c.replace THEN NoName ELSE old[k]
  BY <1>1 DEF Meta!NamesAfter
<1>11. CASE d.names[k] = NoName
  <2>1. ~y
    <3> SUFFICES ASSUME NEW j \in DOMAIN c.peers PROVE ~Meta!Decides(c, X, k, j)
      OBVIOUS
    <3>1. j \in 1..Len(e)
      BY <1>4, <1>5
    <3>2. p[j].key = k => p[j].name = Unset /\ ~p[j].remove
      BY <1>6, <1>7, <1>8, <1>11, <3>1
    <3> QED
      BY <1>5, <3>2 DEF Meta!Decides
  <2> HIDE DEF y, m
  <2> QED
    BY <1>5, <1>10, <1>11, <2>1
<1>12. CASE d.names[k] # NoName
  <2>1. d.names[k] \in Name \cup OddName /\ d.names[k] # Unset /\ d.names[k] # Clear
    BY <1>9, <1>12, OddNames
  <2>2. p[n].name = d.names[k] /\ ~p[n].remove /\ p[n].key = k
    BY <1>6, <1>7, <1>12
  <2>3. n \in DOMAIN c.peers /\ Meta!Decides(c, X, k, n)
    BY <1>4, <1>5, <2>1, <2>2 DEF Meta!Decides
  <2>4. y
    BY <2>3
  <2>5. PICK z : z = m
    OBVIOUS
  <2>6. z \in DOMAIN c.peers /\ Meta!Decides(c, X, k, z)
    BY <2>3, <2>5, LastDecidesIs
  <2>7. z = n
    BY <1>4, <1>5, <1>8, <2>6 DEF Meta!Decides
  <2>8. Meta!EntryName(c.peers[n]) = d.names[k]
    BY <1>5, <2>1, <2>2 DEF Meta!EntryName
  <2> HIDE DEF y, m
  <2> QED
    BY <1>10, <2>4, <2>5, <2>7, <2>8
<1> QED
  BY <1>11, <1>12

(* What breaks off is lines again.                                         *)
LEMMA StumpsAreLines ==
  ASSUME NEW l \in Line, NEW k \in Stump(l)
  PROVE  k \in Line
<1>1. CASE k \in {L("blank", Nil), L("junk", Nil)}
  BY <1>1 DEF L, Line
<1>2. CASE l.kind = "allowedips" /\ l.value # Bad /\ k \notin {L("blank", Nil), L("junk", Nil)}
  <2>1. l.value \in Seq(IPOp)
    BY <1>2, LineValues
  <2>2. PICK n \in 0..Len(l.value) : k = L("allowedips", SubSeq(l.value, 1, n))
    BY <1>2 DEF Stump
  <2>3. PICK v : v = SubSeq(l.value, 1, n)
    OBVIOUS
  <2>4. v \in Seq(IPOp)
    BY <2>1, <2>2, <2>3, Beginning
  <2>5. k = [kind |-> "allowedips", value |-> v]
    BY <2>2, <2>3 DEF L
  <2> QED
    BY <2>4, <2>5 DEF Line
<1>3. CASE l.kind \in {"iface", "setting"} /\ k \notin {L("blank", Nil), L("junk", Nil)}
  <2>1. k \in [kind : {l.kind}, value : Setting \cup {Bad}]
    BY <1>3 DEF Stump
  <2> QED
    BY <1>3, <2>1 DEF Line
<1>4. CASE l.kind \in {"name", "publickey"} /\ k \notin {L("blank", Nil), L("junk", Nil)}
  <2>1. k = [kind |-> l.kind, value |-> Bad]
    BY <1>4 DEF Stump, L
  <2> QED
    BY <1>4, <2>1 DEF Line
<1>5. CASE /\ l.kind \notin {"iface", "setting", "name", "publickey"}
           /\ ~(l.kind = "allowedips" /\ l.value # Bad)
           /\ k \notin {L("blank", Nil), L("junk", Nil)}
  BY <1>5 DEF Stump
<1> QED
  BY <1>1, <1>2, <1>3, <1>4, <1>5

(* What breaks off is lines.                                               *)
LEMMA BrokenLines ==
  ASSUME NEW t \in Seq(Line), NEW x \in BrokenOff(t)
  PROVE  x \in Seq(Line)
<1>1. Len(t) \in Nat /\ DOMAIN t = 1..Len(t) /\ \A n \in 1..Len(t) : t[n] \in Line
  BY LenProperties
<1>2. PICK n \in DOMAIN t : \E l \in Stump(t[n]) : x = SubSeq(t, 1, n - 1) \o <<l>>
  BY Zenon DEF BrokenOff
<1>9. PICK l \in Stump(t[n]) : x = SubSeq(t, 1, n - 1) \o <<l>>
  BY <1>2
<1>3. l \in Line
  BY <1>1, <1>9, StumpsAreLines
<1>4. n - 1 \in 0..Len(t)
  BY <1>1
<1> HIDE DEF Line
<1> DEFINE v == SubSeq(t, 1, n - 1)
           w == <<l>>
<1>5. v \in Seq(Line)
  BY <1>4, Beginning
<1>6. w \in Seq(Line)
  BY <1>3
<1> HIDE DEF v, w
<1>7. v \o w \in Seq(Line)
  BY ONLY <1>5, <1>6, BothTexts
<1> QED
  BY <1>9, <1>7 DEF v, w

(* What holds on the way back.                                             *)
Nameless(d) == [d EXCEPT !.names = Meta!NoNames]

ShownTypes ==
  /\ dev \in NamedDevice /\ Tidy(dev.wg) /\ shownOf \in NamedDevice /\ Tidy(shownOf.wg)
  /\ shown \in Seq(Line) /\ text \in Seq(Line)
  /\ shown # <<>> => shown \in {Encode(shownOf), Encode(Nameless(shownOf))}

BodyFits ==
  /\ req.path = "conf" /\ body # NoBody => body \in Seq(Line)
  /\ req.path = "device" /\ body # NoBody => body \in Structure

LinesFit ==
  /\ GoodValues(SubSeq(text, 1, line))
  /\ parsing = "parsed" => \A j \in DOMAIN cfg.peers : cfg.peers[j].key # NoKey

(* What was shown is on its way back, and means what was there.            *)
Returning == /\ req.path = "conf" /\ shown # <<>> /\ text = shown
             /\ before = shownOf \/ ReplacePeers
ShownAs == IF shown = Encode(shownOf) THEN shownOf ELSE Nameless(shownOf)
SaysShown ==
  /\ OddPeers(ShownAs) = {}
  /\ cfg = Parts(IfaceRead(ShownAs, AppendMode), ReplacePeers,
                 EntriesBack(ShownAs, SetToSeq(ShownAs.wg.peers)))
Restored == dev.wg = shownOf.wg /\ dev.iface = shownOf.iface /\ dev.names = before.names

Restoring ==
  /\ ShownTypes
  /\ at \in {"peek", "auth"} => BodyFits
  /\ at = "parse" => LinesFit
  /\ at = "sync" => SyncPeers
  /\ at \in {"sync", "configure", "readback"} => Applicable(cfg) /\ (Returning => SaysShown)
  /\ at = "readback" /\ Returning => Restored
  /\ PutBack

(* A device whose names could not be read.                                 *)
LEMMA NamelessParts ==
  ASSUME NEW d \in NamedDevice
  PROVE  /\ Nameless(d) \in NamedDevice /\ Nameless(d).wg = d.wg /\ Nameless(d).iface = d.iface
         /\ OddPeers(Nameless(d)) = {}
<1>1. d = [wg |-> d.wg, iface |-> d.iface, names |-> d.names]
      /\ d.wg \in Device /\ d.iface \in Setting \cup {Default} /\ d.names \in Meta!NameMap
  <2> HIDE DEF Device, Meta!NameMap
  <2> QED
    BY DEF NamedDevice
<1>2. Meta!NoNames \in Meta!NameMap /\ \A k \in Key : Meta!NoNames[k] = NoName
  BY DEF Meta!NoNames, Meta!NameMap
<1> DEFINE n == Meta!NoNames
           u == Nameless(d)
<1> HIDE DEF n
<1>3. u = [wg |-> d.wg, iface |-> d.iface, names |-> n]
  BY <1>1 DEF Nameless, n
<1>4. u \in NamedDevice /\ u.wg = d.wg /\ u.iface = d.iface /\ u.names = n
  BY <1>1, <1>2, <1>3 DEF NamedDevice, n
<1> HIDE DEF u
<1>5. OddPeers(u) = {}
  <2>1. \A k \in u.wg.peers : k \in Key
    BY <1>4, FewPeers
  <2> QED
    BY <1>2, <1>4, <2>1, OddNames DEF OddPeers, n
<1> QED
  BY <1>4, <1>5 DEF u

(* At first nothing has been shown.                                        *)
LEMMA RestoringInit == Init => Restoring
<1> SUFFICES ASSUME Init PROVE Restoring
  OBVIOUS
<1>1. dev \in NamedDevice /\ Tidy(dev.wg)
  BY StartType DEF Init
<1>2. /\ at = "idle" /\ status = 0 /\ shown = <<>> /\ shownOf = dev /\ text = <<>>
  BY DEF Init, Idle
<1>3. ShownTypes
  <2> HIDE DEF Line
  <2>1. shown \in Seq(Line) /\ text \in Seq(Line)
    BY <1>2
  <2> QED
    BY <1>1, <1>2, <2>1 DEF ShownTypes
<1>4. PutBack
  BY <1>2 DEF PutBack
<1> QED
  BY <1>2, <1>3, <1>4 DEF Restoring

(* An answer that changes nothing.                                         *)
LEMMA RestoringReply ==
  ASSUME Restoring, NEW code, ReplyOnly(code),
         code = 200 => req.path # "conf" \/ req.method = "GET"
  PROVE  Restoring'
<1>1. /\ at' = "idle" /\ status' = code
      /\ UNCHANGED <<req, dev, shown, shownOf, text>>
  BY DEF ReplyOnly, Reply, asked, answers, parser, input
<1>2. ShownTypes'
  BY <1>1 DEF Restoring, ShownTypes
<1>3. PutBack'
  BY <1>1 DEF PutBack
<1> QED
  BY <1>1, <1>2, <1>3 DEF Restoring

(* An answer that changes no device.                                       *)
LEMMA RestoringAnswers ==
  ASSUME Restoring,
         \/ Unauthorized \/ NotFound \/ MethodNotAllowed \/ Alive \/ ListDevices
         \/ Missing \/ ShowDevice \/ WrongMode \/ Refused \/ BadConfig
         \/ DeviceMissing \/ StepFails
  PROVE  Restoring'
<1>1. CASE \/ Unauthorized \/ NotFound \/ MethodNotAllowed \/ Missing \/ WrongMode \/ Refused
           \/ BadConfig \/ DeviceMissing \/ StepFails
  <2>1. \E code \in {400, 401, 404, 405, 500} : ReplyOnly(code)
    BY <1>1 DEF Unauthorized, NotFound, MethodNotAllowed, Missing, WrongMode, Refused, BadConfig,
                DeviceMissing, StepFails
  <2> QED
    BY <2>1, RestoringReply
<1>2. CASE Alive \/ ListDevices \/ ShowDevice
  <2>1. req.path # "conf" /\ \E code \in {200, 500} : ReplyOnly(code)
    BY <1>2 DEF Alive, ListDevices, ShowDevice, Routed, OpenPaths
  <2> QED
    BY <2>1, RestoringReply
<1> QED
  BY <1>1, <1>2

(* The client asks.                                                        *)
LEMMA RestoringAsk ==
  ASSUME Reading, Restoring, Ask
  PROVE  Restoring'
<1>1. PICK r \in Script[turn + 1] :
        req' = Header(r) /\ body' = IF r.body = Shown THEN shown ELSE r.body
  BY DEF Ask
<1>2. turn + 1 \in DOMAIN Script
  BY BodyTypes DEF Ask, Reading
<1>3. req'.path = r.path
  BY <1>1 DEF Header
<1>4. /\ at' = "peek" /\ status' = 0 /\ text' = <<>> /\ UNCHANGED <<dev, shown, shownOf>>
  BY DEF Ask, Renew, answers
<1>5. ASSUME r.path = "conf", body' # NoBody PROVE body' \in Seq(Line)
  <2>1. r.path = "conf" /\ r.body \notin {NoBody, Shown} => r.body \in Seq(Line)
    BY <1>2, BodyTypes
  <2>2. shown \in Seq(Line)
    BY DEF Restoring, ShownTypes
  <2> HIDE DEF Line
  <2> QED
    BY <1>1, <1>5, <2>1, <2>2
<1>6. ASSUME r.path = "device", body' # NoBody PROVE body' \in Structure
  <2>1. r.path = "device" /\ r.body # NoBody => r.body # Shown /\ r.body \in Structure
    BY <1>2, BodyTypes
  <2>2. NoBody # Shown
    BY BodyTypes
  <2> HIDE DEF Structure
  <2> QED
    BY <1>1, <1>6, <2>1, <2>2
<1>7. BodyFits'
  <2> HIDE DEF Line, Structure
  <2> QED
    BY <1>3, <1>5, <1>6 DEF BodyFits
<1>8. ShownTypes'
  <2> HIDE DEF Line
  <2>1. text' \in Seq(Line)
    BY <1>4
  <2> QED
    BY <1>4, <2>1 DEF Restoring, ShownTypes
<1>9. PutBack'
  BY <1>4 DEF PutBack
<1> QED
  BY <1>4, <1>7, <1>8, <1>9 DEF Restoring

(* What arrives.                                                           *)
LEMMA RestoringPeek ==
  ASSUME Restoring, Peek \/ PeekFails
  PROVE  Restoring'
<1>1. /\ at = "peek" /\ at' = "auth"
      /\ text' \in IF IsText THEN {<<>>, body} \cup BrokenOff(body) ELSE {<<>>}
      /\ UNCHANGED <<req, body, dev, shown, shownOf, status>>
  BY DEF Peek, PeekFails, asked, answers
<1>2. BodyFits
  BY <1>1 DEF Restoring
<1>3. text' \in Seq(Line)
  <2>1. <<>> \in Seq(Line)
    <3> HIDE DEF Line
    <3> QED
      OBVIOUS
  <2>2. CASE IsText
    <3>1. body \in Seq(Line)
      BY <1>2, <2>2 DEF BodyFits, IsText
    <3> QED
      BY <1>1, <2>1, <2>2, <3>1, BrokenLines
  <2> QED
    BY <1>1, <2>1, <2>2
<1>4. ShownTypes'
  BY <1>1, <1>3 DEF Restoring, ShownTypes
<1>5. BodyFits'
  BY <1>1, <1>2 DEF BodyFits
<1>6. PutBack'
  BY <1>1 DEF PutBack
<1> QED
  BY <1>1, <1>4, <1>5, <1>6 DEF Restoring

(* The parser begins.                                                      *)
LEMMA RestoringParse ==
  ASSUME Reading, Restoring, Parse
  PROVE  Restoring'
<1>1. /\ at = "auth" /\ at' = "parse" /\ parsing' = "yes"
      /\ UNCHANGED <<dev, shown, shownOf, text, line>>
  BY DEF Parse, Writes, Routed, Known, StartParse, Goto, answers, input
<1>2. line = 0
  BY <1>1 DEF Reading, Beginning0
<1>3. GoodValues(SubSeq(text, 1, line))'
  <2>1. text \in Seq(Line)
    BY DEF Restoring, ShownTypes
  <2> HIDE DEF Line
  <2>2. SubSeq(text', 1, line') = <<>>
    BY <1>1, <1>2, <2>1
  <2>3. GoodValues(<<>>)
    BY DEF GoodValues
  <2> QED
    BY <2>2, <2>3
<1>4. LinesFit'
  BY <1>1, <1>3 DEF LinesFit
<1>5. ShownTypes'
  BY <1>1 DEF Restoring, ShownTypes
<1>6. PutBack'
  BY <1>1 DEF PutBack
<1> QED
  BY <1>1, <1>4, <1>5, <1>6 DEF Restoring

(* The parser goes on: a line with a value that cannot be parsed ends it.  *)
LEMMA RestoringLine ==
  ASSUME Reading, Restoring, ParseLine
  PROVE  Restoring'
<1>1. /\ at = "parse" /\ ParseStep /\ UNCHANGED <<at, req, dev, shown, shownOf, before, status>>
  BY DEF ParseLine, web, asked, answers
<1>2. text' = text
  BY <1>1 DEF ParseStep, SkipLine, StartInterface, StartPeer, SetInterface, SetName,
         SetPublicKey, SetSetting, AddAllowedIPs, Lookup, LookupAgain, LookupFails, RefuseLine,
         EndParse, Advance, input
<1>3. LinesFit /\ text \in Seq(Line)
  BY <1>1 DEF Restoring, ShownTypes
<1>4. line \in 0..Len(text) /\ Len(text) \in Nat
  <2>1. ReadSoFar
    BY <1>1 DEF Reading, Parsing
  <2>2. Len(text) \in Nat
    BY <1>3, LenProperties
  <2> QED
    BY <2>1, <2>2 DEF ReadSoFar
<1>5. ASSUME \/ SkipLine \/ StartInterface \/ StartPeer \/ SetInterface \/ SetName
             \/ SetPublicKey \/ SetSetting \/ AddAllowedIPs \/ Lookup
      PROVE  LinesFit'
  <2>1. /\ parsing' = "yes" /\ line' = line + 1 /\ line < Len(text)
        /\ This.kind \in FieldKinds \cup {"iface"} => This.value # Bad
    BY <1>5 DEF SkipLine, StartInterface, StartPeer, SetInterface, SetName, SetPublicKey,
         SetSetting, AddAllowedIPs, Lookup, Looking, At, Advance, Legal, FieldKinds
  <2> DEFINE v == SubSeq(text, 1, line)
             x == SubSeq(text, 1, line + 1)
  <2>2. /\ v \in Seq(Line) /\ Len(v) = line /\ x = Append(v, text[line + 1])
        /\ x \in Seq(Line) /\ Len(x) = line + 1
    <3>1. line + 1 \in 0..Len(text)
      BY <1>4, <2>1
    <3> QED
      BY <1>3, <1>4, <2>1, <3>1, Beginning
  <2>3. GoodValues(v) /\ This = text[line + 1]
    BY <1>3 DEF LinesFit, This
  <2> HIDE DEF v, x, Line
  <2>4. GoodValues(x)
    <3> SUFFICES ASSUME NEW n \in DOMAIN x, x[n].kind \in FieldKinds \cup {"iface"}
                 PROVE  x[n].value # Bad
      BY DEF GoodValues
    <3>1. n \in 1..(line + 1) /\ DOMAIN v = 1..line
      BY <2>2, LenProperties
    <3>2. n \in 1..line => x[n] = v[n]
      BY <1>4, <2>2
    <3>3. n = line + 1 => x[n] = This
      BY <1>4, <2>2, <2>3
    <3>4. n \in 1..line \/ n = line + 1
      BY <1>4, <3>1
    <3> QED
      BY <2>1, <2>3, <3>1, <3>2, <3>3, <3>4 DEF GoodValues
  <2>5. GoodValues(SubSeq(text, 1, line))'
    BY <1>2, <2>1, <2>4, Zenon DEF x
  <2>6. parsing' # "parsed"
    BY <2>1
  <2> QED
    BY ONLY <2>5, <2>6 DEF LinesFit
<1>6. ASSUME LookupAgain \/ LookupFails \/ RefuseLine \/ EndParse PROVE LinesFit'
  <2>1. /\ line' = line
        /\ parsing' = "parsed" => Complete /\ cfg' = cfg
    BY <1>6 DEF LookupAgain, LookupFails, RefuseLine, EndParse, Looking, At
  <2>2. GoodValues(SubSeq(text, 1, line))'
    BY <1>2, <1>3, <2>1, Zenon DEF LinesFit
  <2>3. parsing' = "parsed" => \A j \in DOMAIN cfg'.peers : cfg'.peers[j].key # NoKey
    BY <2>1, Zenon DEF Complete
  <2> QED
    BY ONLY <2>2, <2>3 DEF LinesFit
<1>7. LinesFit'
  BY <1>1, <1>5, <1>6, Zenon DEF ParseStep
<1>8. ShownTypes'
  BY <1>1, <1>2 DEF Restoring, ShownTypes
<1>9. PutBack'
  BY <1>1 DEF PutBack
<1> QED
  BY <1>1, <1>7, <1>8, <1>9 DEF Restoring

(* The device that the text shows.                                         *)
LEMMA ShownAsParts ==
  ASSUME ShownTypes, shown # <<>>
  PROVE  /\ ShownAs \in NamedDevice /\ Tidy(ShownAs.wg) /\ shown = Encode(ShownAs)
         /\ ShownAs.wg = shownOf.wg /\ ShownAs.iface = shownOf.iface
         /\ shown = Encode(shownOf) => ShownAs = shownOf
<1>1. shownOf \in NamedDevice /\ Tidy(shownOf.wg)
      /\ shown \in {Encode(shownOf), Encode(Nameless(shownOf))}
  BY DEF ShownTypes
<1> DEFINE n == Nameless(shownOf)
<1>2. n \in NamedDevice /\ n.wg = shownOf.wg /\ n.iface = shownOf.iface
  BY <1>1, NamelessParts
<1> HIDE DEF n
<1>3. ShownAs = IF shown = Encode(shownOf) THEN shownOf ELSE n
  BY DEF ShownAs, n
<1>4. shown # Encode(shownOf) => shown = Encode(n)
  BY <1>1 DEF n
<1> QED
  BY <1>1, <1>2, <1>3, <1>4

(* The values that Parse makes.                                            *)
LEMMA ParsedParts ==
  ASSUME NEW t \in Seq(Line), GoodValues(t), NEW append \in BOOLEAN, NEW c, c = Meant(t, append),
         \A j \in DOMAIN c.peers : c.peers[j].key # NoKey, NEW r \in BOOLEAN
  PROVE  /\ [c EXCEPT !.replace = r] = Parts(c.iface, r, c.peers)
         /\ Applicable([c EXCEPT !.replace = r])
<1>1. c.iface \in Setting \cup {Default, Unset} /\ c.peers \in Seq(AnyEntry)
  BY MeantTypes
<1>2. PICK i, x, p : c = Parts(i, x, p)
  BY MeantParts
<1>3. c.iface = i /\ c.peers = p
  BY <1>2, PartsHas
<1>4. [c EXCEPT !.replace = r] = Parts(i, r, p)
  BY <1>2, SMT DEF Parts
<1>5. p \in Seq(KeyedEntry)
  <2>1. Len(p) \in Nat /\ DOMAIN p = 1..Len(p) /\ \A j \in 1..Len(p) : p[j] \in AnyEntry
    BY <1>1, <1>3, LenProperties
  <2>2. \A j \in 1..Len(p) : p[j] \in KeyedEntry
    BY <1>3, <2>1 DEF KeyedEntry, AnyEntry
  <2>3. p = [j \in 1..Len(p) |-> p[j]]
    BY <1>1, <1>3, <2>1
  <2> QED
    BY ONLY <2>1, <2>2, <2>3
<1> DEFINE u == Parts(i, r, p)
<1>6. u.iface = i /\ u.replace = r /\ u.peers = p
  BY PartsHas
<1>7. Applicable(u)
  BY <1>1, <1>3, <1>5, <1>6 DEF Applicable
<1> QED
  BY <1>3, <1>4, <1>7

(* The mode decides about ReplacePeers.                                    *)
LEMMA RestoringParsed ==
  ASSUME Reading, Restoring, Parsed
  PROVE  Restoring'
<1>1. /\ at = "parse" /\ parsing = "parsed" /\ at' \in {"sync", "configure"}
      /\ cfg' = [cfg EXCEPT !.replace = ReplacePeers]
      /\ UNCHANGED <<req, dev, shown, shownOf, before, text, status>>
      /\ at' = "sync" => SyncPeers
  BY DEF Parsed, Goto, asked, answers, input
<1>2. UNCHANGED <<AppendMode, ReplacePeers, SyncPeers, ShownAs, Returning>>
  BY <1>1 DEF AppendMode, ReplacePeers, SyncPeers, Mode, ShownAs, Returning
<1>3. ShownTypes /\ LinesFit /\ text \in Seq(Line)
  BY <1>1 DEF Restoring, ShownTypes
<1>4. cfg = Meant(text, AppendMode) /\ GoodValues(text)
  <2>1. line = Len(text) /\ cfg = Meant(SubSeq(text, 1, line), AppendMode)
    BY <1>1 DEF Reading, Parsing, ReadSoFar
  <2>2. SubSeq(text, 1, Len(text)) = text
    BY <1>3, SubSeqFull
  <2> QED
    BY <1>3, <2>1, <2>2 DEF LinesFit
<1>5. \A j \in DOMAIN cfg.peers : cfg.peers[j].key # NoKey
  BY <1>1, <1>3 DEF LinesFit
<1>6. AppendMode \in BOOLEAN /\ ReplacePeers \in BOOLEAN
  BY DEF AppendMode, ReplacePeers
<1>7. cfg' = Parts(cfg.iface, ReplacePeers, cfg.peers) /\ Applicable(cfg')
  BY <1>1, <1>3, <1>4, <1>5, <1>6, ParsedParts
<1>8. ASSUME Returning PROVE SaysShown'
  <2> DEFINE d == ShownAs
  <2>1. d \in NamedDevice /\ text = Encode(d)
    BY <1>3, <1>8, ShownAsParts DEF Returning
  <2> HIDE DEF d
  <2>2. /\ OddPeers(d) = {} => cfg = ReadBack(d, AppendMode)
        /\ OddPeers(d) # {} => \E q : Indexed(q) /\ cfg.peers = Append(q, NewEntry)
    BY <1>4, <1>6, <2>1, EncodeBack
  <2>3. OddPeers(d) = {}
    <3> SUFFICES ASSUME OddPeers(d) # {} PROVE FALSE
      OBVIOUS
    <3>1. PICK q : Indexed(q) /\ cfg.peers = Append(q, NewEntry)
      BY <2>2
    <3>2. PICK n : n = NewEntry
      OBVIOUS
    <3>3. Append(q, n)[Len(q) + 1] = n /\ DOMAIN Append(q, n) = 1..(Len(q) + 1) /\ Len(q) \in Nat
      <4>1. Len(q) \in Nat /\ q = [i \in 1..Len(q) |-> q[i]]
        BY <3>1 DEF Indexed
      <4> QED
        BY <4>1, AppendParts
    <3>4. n.key # NoKey
      BY <1>5, <3>1, <3>2, <3>3
    <3> QED
      BY <3>2, <3>4 DEF NewEntry
  <2> DEFINE i == IfaceRead(d, AppendMode)
             p == EntriesBack(d, SetToSeq(d.wg.peers))
  <2>4. cfg = Parts(i, ~AppendMode, p)
    BY <2>2, <2>3 DEF ReadBack
  <2> HIDE DEF i, p
  <2>5. cfg.iface = i /\ cfg.peers = p
    BY <2>4, PartsHas
  <2>6. cfg' = Parts(i, ReplacePeers, p)
    BY <1>7, <2>5
  <2> QED
    BY <1>2, <2>3, <2>6, Zenon DEF SaysShown, d, i, p
<1>9. ShownTypes'
  BY <1>1, <1>3 DEF ShownTypes
<1>10. PutBack'
  BY <1>1 DEF PutBack
<1> QED
  BY <1>1, <1>2, <1>7, <1>8, <1>9, <1>10, Zenon DEF Restoring

(* An entry of a structured configuration.                                 *)
LEMMA FromJSONTypes ==
  ASSUME NEW e \in Entry, ~BadEntry(e)
  PROVE  FromJSON(e) \in KeyedEntry
<1> DEFINE u == FromJSON(e)
           s == Address(e.setting)
<1>1. /\ e.key \in Key \cup {Bad} /\ e.remove \in BOOLEAN /\ e.updateOnly \in BOOLEAN
      /\ e.name \in Name \cup OddName \cup {Unset, Clear}
      /\ e.setting \in Setting \cup {Default, Unset, Host, Bad}
      /\ e.replaceIPs \in BOOLEAN /\ e.ips \in Seq(IP)
  BY DEF Entry
<1>2. e.key \in Key /\ s \in Setting \cup {Default, Unset}
  BY <1>1, HostResolves DEF BadEntry, Address
<1> HIDE DEF s
<1>3. PICK none : none = <<>>
  OBVIOUS
<1>4. u = [key |-> e.key, remove |-> e.remove, updateOnly |-> e.updateOnly, setting |-> s,
           replaceIPs |-> e.replaceIPs, ips |-> e.ips, ops |-> none, name |-> e.name]
  <2> DEFINE n0 == NewEntry
             n1 == [n0 EXCEPT !.key = e.key]
             n2 == [n1 EXCEPT !.remove = e.remove]
             n3 == [n2 EXCEPT !.updateOnly = e.updateOnly]
             n4 == [n3 EXCEPT !.name = e.name]
             n5 == [n4 EXCEPT !.setting = s]
             n6 == [n5 EXCEPT !.replaceIPs = e.replaceIPs]
             n7 == [n6 EXCEPT !.ips = e.ips]
  <2>1. PICK a, r, o, t, x, b, i, m :
          /\ n0 = [key |-> a, remove |-> r, updateOnly |-> o, setting |-> t,
                   replaceIPs |-> x, ips |-> b, ops |-> i, name |-> m]
          /\ i = none
    BY <1>3, Zenon DEF NewEntry
  <2>2. u = [n0 EXCEPT !.key = e.key, !.remove = e.remove, !.updateOnly = e.updateOnly,
                       !.name = e.name, !.setting = s, !.replaceIPs = e.replaceIPs,
                       !.ips = e.ips]
    BY Zenon DEF FromJSON, s
  <2> HIDE DEF n0, u
  <2>3. u = n7
    BY <2>2, SMT
  <2>4. n1 = [key |-> e.key, remove |-> r, updateOnly |-> o, setting |-> t,
              replaceIPs |-> x, ips |-> b, ops |-> i, name |-> m]
    BY ONLY <2>1, SMT
  <2> HIDE DEF n1
  <2>5. n2 = [key |-> e.key, remove |-> e.remove, updateOnly |-> o, setting |-> t,
              replaceIPs |-> x, ips |-> b, ops |-> i, name |-> m]
    BY ONLY <2>4, SMT
  <2> HIDE DEF n2
  <2>6. n3 = [key |-> e.key, remove |-> e.remove, updateOnly |-> e.updateOnly, setting |-> t,
              replaceIPs |-> x, ips |-> b, ops |-> i, name |-> m]
    BY ONLY <2>5, SMT
  <2> HIDE DEF n3
  <2>7. n4 = [key |-> e.key, remove |-> e.remove, updateOnly |-> e.updateOnly, setting |-> t,
              replaceIPs |-> x, ips |-> b, ops |-> i, name |-> e.name]
    BY ONLY <2>6, SMT
  <2> HIDE DEF n4
  <2>8. n5 = [key |-> e.key, remove |-> e.remove, updateOnly |-> e.updateOnly, setting |-> s,
              replaceIPs |-> x, ips |-> b, ops |-> i, name |-> e.name]
    BY ONLY <2>7, SMT
  <2> HIDE DEF n5
  <2>9. n6 = [key |-> e.key, remove |-> e.remove, updateOnly |-> e.updateOnly, setting |-> s,
              replaceIPs |-> e.replaceIPs, ips |-> b, ops |-> i, name |-> e.name]
    BY ONLY <2>8, SMT
  <2> HIDE DEF n6
  <2>10. n7 = [key |-> e.key, remove |-> e.remove, updateOnly |-> e.updateOnly, setting |-> s,
               replaceIPs |-> e.replaceIPs, ips |-> e.ips, ops |-> i, name |-> e.name]
    BY ONLY <2>9, SMT
  <2> HIDE DEF n7
  <2> QED
    BY <2>1, <2>3, <2>10
<1>5. none \in Seq(IPOp)
  BY <1>3, EmptySeq, Zenon
<1> HIDE DEF u
<1>6. u \in AnyEntry /\ u.key = e.key
  BY ONLY <1>1, <1>2, <1>4, <1>5, SMT DEF AnyEntry
<1> QED
  BY <1>2, <1>6 DEF KeyedEntry, u

(* A structured configuration that was sent.                               *)
LEMMA RestoringParseConfig ==
  ASSUME Reading, Restoring, ParseConfig
  PROVE  Restoring'
<1> DEFINE b == body.peers
           f == [j \in DOMAIN b |-> FromJSON(b[j])]
<1>1. /\ at = "auth" /\ at' = "configure" /\ req.path = "device" /\ body # NoBody
      /\ \A j \in DOMAIN b : ~BadEntry(b[j])
      /\ cfg' = [iface |-> body.iface, replace |-> body.replace, peers |-> f]
      /\ UNCHANGED <<req, dev, shown, shownOf, text, status>>
  BY DEF ParseConfig, Structured, Routed, Known, Goto, asked, answers, input
<1>2. /\ body.iface \in Setting \cup {Default, Unset} /\ body.replace \in BOOLEAN
      /\ b \in Seq(Entry)
  <2>1. body \in Structure
    BY <1>1 DEF Restoring, BodyFits
  <2> QED
    BY <2>1 DEF Structure
<1> HIDE DEF b
<1>3. f \in Seq(KeyedEntry)
  <2>1. Len(b) \in Nat /\ DOMAIN b = 1..Len(b) /\ \A j \in 1..Len(b) : b[j] \in Entry
    BY <1>2, LenProperties
  <2>2. f = [j \in 1..Len(b) |-> f[j]] /\ \A j \in 1..Len(b) : f[j] = FromJSON(b[j])
    BY <2>1
  <2>3. \A j \in 1..Len(b) : f[j] \in KeyedEntry
    BY <1>1, <2>1, <2>2, FromJSONTypes
  <2> HIDE DEF f
  <2> QED
    BY ONLY <2>1, <2>2, <2>3
<1> HIDE DEF f
<1>4. Applicable(cfg')
  <2>1. PICK i, r : i = body.iface /\ r = body.replace
    OBVIOUS
  <2>2. cfg' = Parts(i, r, f)
    BY <1>1, <2>1, Zenon DEF Parts
  <2>3. cfg'.iface = i /\ cfg'.replace = r /\ cfg'.peers = f
    BY <2>2, PartsHas
  <2> QED
    BY <1>2, <1>3, <2>1, <2>2, <2>3 DEF Applicable
<1>5. ~Returning'
  BY <1>1 DEF Returning
<1>6. ShownTypes'
  BY <1>1 DEF Restoring, ShownTypes
<1>7. PutBack'
  BY <1>1 DEF PutBack
<1> QED
  BY <1>1, <1>4, <1>5, <1>6, <1>7, Zenon DEF Restoring

(* A removal.                                                              *)
LEMMA RemovalTypes ==
  ASSUME NEW k \in Key
  PROVE  Removal(k) \in KeyedEntry
<1>1. PICK none, no, yes, unset : none = <<>> /\ no = FALSE /\ yes = TRUE /\ unset = Unset
  OBVIOUS
<1> DEFINE n0 == NewEntry
           n1 == [n0 EXCEPT !.key = k]
           n2 == [n1 EXCEPT !.remove = yes]
           n3 == [n2 EXCEPT !.replaceIPs = no]
           u == Removal(k)
<1>2. n0 = Fields(no, none, NoKey, unset, unset, none, yes)
  BY <1>1, Zenon DEF NewEntry, Fields
<1>3. u = [n0 EXCEPT !.key = k, !.remove = yes, !.replaceIPs = no]
  BY <1>1, Zenon DEF Removal
<1> HIDE DEF n0, u
<1>4. u = n3
  BY <1>3, SMT
<1>5. n1 = Fields(no, none, k, unset, unset, none, yes)
  BY ONLY <1>2, SMT DEF Fields
<1> HIDE DEF n1
<1>6. n2 = [key |-> k, remove |-> yes, updateOnly |-> no, setting |-> unset,
            replaceIPs |-> yes, ips |-> none, ops |-> none, name |-> unset]
  BY ONLY <1>5, SMT DEF Fields
<1> HIDE DEF n2
<1>7. n3 = [key |-> k, remove |-> yes, updateOnly |-> no, setting |-> unset,
            replaceIPs |-> no, ips |-> none, ops |-> none, name |-> unset]
  BY ONLY <1>6, SMT
<1> HIDE DEF n3
<1>8. none \in Seq(IPOp) /\ none \in Seq(IP)
  BY <1>1, EmptySeq, Zenon
<1>9. no \in BOOLEAN /\ yes \in BOOLEAN
  BY <1>1
<1>10. unset = Unset
  BY <1>1
<1>11. u \in AnyEntry /\ u.key = k
  BY ONLY k \in Key, <1>4, <1>7, <1>8, <1>9, <1>10, SMT DEF AnyEntry
<1> QED
  BY <1>11 DEF KeyedEntry, u

(* The key of every peer is in the text that was read back.                *)
LEMMA KeysBack ==
  ASSUME NEW d \in NamedDevice, OddPeers(d) = {}, NEW i, NEW r, NEW c,
         c = Parts(i, r, EntriesBack(d, SetToSeq(d.wg.peers)))
  PROVE  d.wg.peers \subseteq Meta!Keys(c)
<1> DEFINE e == SetToSeq(d.wg.peers)
           p == EntriesBack(d, e)
           X == d.wg.peers
<1>1. d.wg.peers \subseteq Key /\ IsFiniteSet(d.wg.peers)
  BY FewPeers
<1>2. e \in Seq(X) /\ \A x \in X : \E n \in DOMAIN e : e[n] = x
  BY <1>1, ListOfSet
<1>3. c.peers = p
  BY PartsHas
<1> HIDE DEF e
<1>4. DOMAIN e = 1..Len(e)
  BY <1>2, LenProperties
<1>5. DOMAIN p = 1..Len(e) /\ \A j \in 1..Len(e) : p[j] = EntryBack(d, e[j])
  BY DEF EntriesBack
<1> HIDE DEF p
<1>6. ASSUME NEW k \in X PROVE k \in Meta!Keys(c)
  <2>1. PICK n \in 1..Len(e) : e[n] = k
    BY <1>2, <1>4
  <2>2. PICK x : x = EntryBack(d, k)
    OBVIOUS
  <2>3. k \in Key /\ d.names[k] \notin OddName
    BY <1>1 DEF OddPeers
  <2>4. x.key = k
    BY <2>2, <2>3, EntryBackParts
  <2>5. n \in DOMAIN c.peers /\ c.peers[n].key = k
    BY <1>3, <1>5, <2>1, <2>2, <2>4
  <2> QED
    BY <2>5 DEF Meta!Keys
<1> QED
  BY <1>6

(* Sync appends nothing to what was shown of a device that is as it was.   *)
LEMMA RestoringSync ==
  ASSUME Served, Restoring, Sync
  PROVE  Restoring'
<1> DEFINE P == dev.wg.peers \ Meta!Keys(cfg)
           u == SetToSeq(P)
           f == [i \in DOMAIN u |-> Removal(u[i])]
<1>1. /\ at = "sync" /\ at' = "configure"
      /\ cfg' = [cfg EXCEPT !.peers = @ \o f]
      /\ UNCHANGED <<req, dev, shown, shownOf, before, text, status>>
  BY DEF Sync, Goto, asked, answers, input
<1>2. UNCHANGED <<AppendMode, ReplacePeers, ShownAs, Returning>>
  BY <1>1 DEF AppendMode, ReplacePeers, Mode, ShownAs, Returning
<1>3. Applicable(cfg) /\ (Returning => SaysShown) /\ ShownTypes /\ dev = before
  BY <1>1 DEF Restoring, Served, Untouched
<1>4. P \in SUBSET Key /\ IsFiniteSet(P)
  <2>1. dev.wg.peers \subseteq Key /\ IsFiniteSet(dev.wg.peers)
    BY <1>3, FewPeers DEF ShownTypes
  <2> QED
    BY <2>1, FS_Subset
<1> HIDE DEF P
<1>5. u \in Seq(P) /\ Range(u) = P
  BY <1>4, ListOfSet
<1> HIDE DEF u
<1>6. Len(u) \in Nat /\ DOMAIN u = 1..Len(u) /\ \A j \in 1..Len(u) : u[j] \in P
  BY <1>5, LenProperties
<1>7. f = [j \in 1..Len(u) |-> f[j]] /\ \A j \in 1..Len(u) : f[j] = Removal(u[j])
  BY <1>6
<1>8. f \in Seq(KeyedEntry)
  <2>1. \A j \in 1..Len(u) : f[j] \in KeyedEntry
    BY <1>4, <1>6, <1>7, RemovalTypes
  <2> HIDE DEF f
  <2> QED
    BY ONLY <1>6, <1>7, <2>1
<1>9. P = {} => f = <<>>
  <2> SUFFICES ASSUME P = {} PROVE f = <<>>
    OBVIOUS
  <2>1. Len(u) = 0
    <3>1. \A j \in 1..Len(u) : FALSE
      BY <1>6
    <3> QED
      BY <1>6, <3>1
  <2> QED
    BY <1>7, <2>1
<1> HIDE DEF f
<1> DEFINE p == cfg.peers
           z == p \o f
<1>10. PICK i, r : i = cfg.iface /\ r = cfg.replace
  OBVIOUS
<1>11. /\ cfg = Parts(i, r, p) /\ i \in Setting \cup {Default, Unset} /\ r \in BOOLEAN
       /\ p \in Seq(KeyedEntry)
  BY <1>3, <1>10 DEF Applicable
<1>12. cfg' = Parts(i, r, z)
  <2>1. cfg' = [cfg EXCEPT !.peers = z]
    BY <1>1
  <2> HIDE DEF z, p
  <2> QED
    BY <1>11, <2>1, PartsPeers
<1> HIDE DEF p
<1>13. z \in Seq(KeyedEntry)
  <2> HIDE DEF KeyedEntry
  <2> QED
    BY ONLY <1>8, <1>11, ConcatProperties
<1>14. Applicable(cfg')
  <2> HIDE DEF z
  <2>1. cfg'.iface = i /\ cfg'.replace = r /\ cfg'.peers = z
    BY <1>12, PartsHas
  <2> QED
    BY <1>11, <1>12, <1>13, <2>1 DEF Applicable
<1>15. ASSUME Returning PROVE SaysShown'
  <2> DEFINE d == ShownAs
             e == EntriesBack(d, SetToSeq(d.wg.peers))
             j == IfaceRead(d, AppendMode)
  <2>1. before = shownOf
    <3>1. SyncPeers
      BY <1>1 DEF Restoring
    <3> QED
      BY <1>15, <3>1 DEF Returning, SyncPeers, ReplacePeers
  <2>2. d \in NamedDevice /\ d.wg = dev.wg
    BY <1>3, <1>15, <2>1, ShownAsParts DEF Returning
  <2>3. OddPeers(d) = {} /\ cfg = Parts(j, ReplacePeers, e)
    BY <1>3, <1>15, Zenon DEF SaysShown
  <2> HIDE DEF d, j
  <2>4. d.wg.peers \subseteq Meta!Keys(cfg)
    BY <2>2, <2>3, KeysBack
  <2>5. P = {}
    BY <2>2, <2>4 DEF P
  <2>6. z = p
    BY <1>9, <1>11, <2>5
  <2>7. cfg' = cfg
    BY <1>11, <1>12, <2>6
  <2> QED
    BY <1>2, <1>3, <1>15, <2>7, Zenon DEF SaysShown
<1>16. ShownTypes'
  BY <1>1, <1>3 DEF ShownTypes
<1>17. PutBack'
  BY <1>1 DEF PutBack
<1> QED
  BY <1>1, <1>2, <1>14, <1>15, <1>16, <1>17, Zenon DEF Restoring

(* The device gets what the entries say: what was shown, if they say that. *)
LEMMA RestoringConfigure ==
  ASSUME Served, Restoring, Configure
  PROVE  Restoring'
<1> DEFINE w == SetDevice(dev.wg, Message(cfg))
           i == IF cfg.iface = Unset THEN dev.iface ELSE cfg.iface
<1>1. /\ at = "configure" /\ at' = "readback"
      /\ dev' = [dev EXCEPT !.wg = w, !.iface = i]
      /\ UNCHANGED <<req, shown, shownOf, before, text, status, cfg>>
  BY DEF Configure, Goto, asked, answers, parser, input
<1>2. UNCHANGED <<AppendMode, ReplacePeers, ShownAs, Returning>>
  BY <1>1 DEF AppendMode, ReplacePeers, Mode, ShownAs, Returning
<1>3. Applicable(cfg) /\ (Returning => SaysShown) /\ ShownTypes /\ dev = before
  BY <1>1 DEF Restoring, Served, Untouched
<1>4. dev \in NamedDevice /\ dev.wg \in Device /\ Tidy(dev.wg) /\ dev.iface \in Setting \cup {Default}
      /\ dev.names \in Meta!NameMap
  BY <1>3, FewPeers DEF ShownTypes
<1>5. w \in Device /\ Tidy(w)
  BY <1>3, <1>4, SetDeviceTidy
<1>6. i \in Setting \cup {Default}
  BY <1>3, <1>4 DEF Applicable
<1> DEFINE n == dev.names
<1>7. dev = [wg |-> dev.wg, iface |-> dev.iface, names |-> n]
  BY <1>4 DEF NamedDevice
<1> HIDE DEF w, i, n
<1>8. dev' = [wg |-> w, iface |-> i, names |-> n]
  <2> DEFINE u == [dev EXCEPT !.wg = w]
  <2>1. dev' = [u EXCEPT !.iface = i]
    BY <1>1
  <2>2. u = [wg |-> w, iface |-> dev.iface, names |-> n]
    BY ONLY <1>7, SMT
  <2> HIDE DEF u
  <2> QED
    BY ONLY <2>1, <2>2, SMT
<1>9. dev'.wg = w /\ dev'.iface = i /\ dev'.names = n
  BY ONLY <1>8, SMT
<1>10. dev' \in NamedDevice
  BY <1>4, <1>5, <1>6, <1>8 DEF NamedDevice, n
<1>11. ShownTypes'
  BY <1>1, <1>3, <1>5, <1>9, <1>10 DEF ShownTypes
<1>12. ASSUME Returning PROVE Restored'
  <2> DEFINE d == ShownAs
             e == EntriesBack(d, SetToSeq(d.wg.peers))
             j == IfaceRead(d, AppendMode)
  <2>1. d \in NamedDevice /\ Tidy(d.wg) /\ d.wg = shownOf.wg /\ d.iface = shownOf.iface
    BY <1>3, <1>12, ShownAsParts DEF Returning
  <2>2. OddPeers(d) = {} /\ cfg = Parts(j, ReplacePeers, e)
    BY <1>3, <1>12, Zenon DEF SaysShown
  <2>3. ReplacePeers \/ dev = shownOf
    BY <1>3, <1>12 DEF Returning
  <2>4. j = IF d.iface = Default THEN IF AppendMode THEN Unset ELSE Default ELSE d.iface
    <3>1. \A a : Empty(a).iface = IF a THEN Unset ELSE Default
      BY DEF Empty
    <3> QED
      BY <3>1 DEF IfaceRead
  <2> HIDE DEF d, j
  <2>5. w = d.wg
    <3>1. ReplacePeers \in BOOLEAN /\ (ReplacePeers \/ dev.wg = d.wg)
      BY <2>1, <2>3 DEF ReplacePeers
    <3>2. SetDevice(dev.wg, Message(cfg)) = d.wg
      BY <2>1, <2>2, <3>1, PutsBack
    <3> QED
      BY <3>2 DEF w
  <2>6. cfg.iface = j
    BY <2>2, PartsHas
  <2>7. d.iface \in Setting \cup {Default} /\ d.iface # Unset
    BY <2>1, FewPeers, MissingValues
  <2>8. AppendMode => ~ReplacePeers
    BY DEF AppendMode, ReplacePeers
  <2>9. i = d.iface
    BY <2>1, <2>3, <2>4, <2>6, <2>7, <2>8, MissingValues DEF i
  <2> QED
    BY <1>1, <1>3, <1>9, <2>1, <2>5, <2>9 DEF Restored, n
<1>13. Returning => SaysShown'
  BY <1>1, <1>2, <1>3, Zenon DEF SaysShown
<1>14. PutBack'
  BY <1>1 DEF PutBack
<1> QED
  BY <1>1, <1>2, <1>3, <1>11, <1>12, <1>13, <1>14, Zenon DEF Restoring

(* A text is shown.                                                        *)
LEMMA RestoringShow ==
  ASSUME Restoring, ShowConf
  PROVE  Restoring'
<1>1. /\ at' = "idle" /\ req'.method = "GET" /\ shownOf' = dev
      /\ UNCHANGED <<dev, text>>
  BY DEF ShowConf, Routed, Known, Reply, asked, parser, input
<1>2. shown' \in {Encode(dev), Encode(Nameless(dev))}
  <2>1. dev = [dev EXCEPT !.names = dev.names]
    BY DEF Restoring, ShownTypes, NamedDevice
  <2>2. PICK x \in {dev.names, Meta!NoNames} : shown' = Encode([dev EXCEPT !.names = x])
    BY DEF ShowConf
  <2> QED
    BY <2>1, <2>2 DEF Nameless
<1>3. dev \in NamedDevice /\ Tidy(dev.wg) /\ text \in Seq(Line)
  BY DEF Restoring, ShownTypes
<1>4. Encode(dev) \in Seq(Line) /\ Encode(Nameless(dev)) \in Seq(Line)
  <2>1. Nameless(dev) \in NamedDevice
    BY <1>3, NamelessParts
  <2>2. \E append : append \in BOOLEAN
    OBVIOUS
  <2> HIDE DEF Line, NamedDevice
  <2> QED
    BY <1>3, <2>1, <2>2, EncodeBack
<1>5. ShownTypes'
  <2> HIDE DEF Line, NamedDevice
  <2>1. shown' \in Seq(Line)
    BY <1>2, <1>4
  <2>2. shown' \in {Encode(shownOf'), Encode(Nameless(shownOf'))}
    BY <1>1, <1>2
  <2> QED
    BY <1>1, <1>3, <2>1, <2>2 DEF ShownTypes
<1>6. PutBack'
  BY <1>1 DEF PutBack
<1> QED
  BY <1>1, <1>5, <1>6 DEF Restoring

(* The names follow.                                                       *)
LEMMA RestoringSave ==
  ASSUME Restoring, SaveNames
  PROVE  Restoring'
<1> DEFINE n == Meta!NamesAfter(cfg, dev.wg.peers, dev.names)
<1>1. /\ at = "readback" /\ at' = "idle" /\ dev' = [dev EXCEPT !.names = n]
      /\ UNCHANGED <<req, shown, shownOf, before, text, cfg>>
  BY DEF SaveNames, Reply, asked, answers, parser, input
<1>2. UNCHANGED <<AppendMode, ReplacePeers, ShownAs, Returning>>
  BY <1>1 DEF AppendMode, ReplacePeers, Mode, ShownAs, Returning
<1>3. Applicable(cfg) /\ (Returning => SaysShown /\ Restored) /\ ShownTypes
  BY <1>1 DEF Restoring
<1>4. dev \in NamedDevice /\ dev.wg \in Device /\ dev.iface \in Setting \cup {Default}
      /\ dev.names \in Meta!NameMap
  BY <1>3, FewPeers DEF ShownTypes
<1>5. n \in Meta!NameMap
  BY <1>3, <1>4, NamesTyped
<1>6. dev = [wg |-> dev.wg, iface |-> dev.iface, names |-> dev.names]
  BY <1>4 DEF NamedDevice
<1> HIDE DEF n
<1>7. dev' = [wg |-> dev.wg, iface |-> dev.iface, names |-> n]
  BY ONLY <1>1, <1>6, SMT
<1>8. dev'.wg = dev.wg /\ dev'.iface = dev.iface /\ dev'.names = n
  BY ONLY <1>7, SMT
<1>9. dev' \in NamedDevice
  BY <1>4, <1>5, <1>7 DEF NamedDevice
<1>10. ShownTypes'
  BY <1>1, <1>3, <1>8, <1>9 DEF ShownTypes
<1>11. ASSUME Returning
       PROVE  /\ dev.wg = shownOf.wg /\ dev.iface = shownOf.iface
              /\ shown = Encode(shownOf) =>
                   \A k \in dev.wg.peers : n[k] = shownOf.names[k]
  <2>1. Restored /\ SaysShown
    BY <1>3, <1>11
  <2> SUFFICES ASSUME shown = Encode(shownOf), NEW k \in dev.wg.peers
               PROVE  n[k] = shownOf.names[k]
    BY <2>1 DEF Restored
  <2> DEFINE d == shownOf
             e == EntriesBack(d, SetToSeq(d.wg.peers))
             j == IfaceRead(d, AppendMode)
  <2>2. d \in NamedDevice /\ ShownAs = d
    BY <1>3 DEF ShownTypes, ShownAs
  <2>3. OddPeers(d) = {} /\ cfg = Parts(j, ReplacePeers, e)
    BY <2>1, <2>2, Zenon DEF SaysShown
  <2>4. dev.wg = d.wg
    BY <2>1 DEF Restored
  <2>5. ReplacePeers \in BOOLEAN /\ (ReplacePeers \/ dev.names = d.names)
    BY <1>11, <2>1 DEF Returning, Restored, ReplacePeers
  <2> HIDE DEF j
  <2>6. Meta!NamesAfter(cfg, d.wg.peers, dev.names)[k] = d.names[k]
    BY <1>3, <2>2, <2>3, <2>4, <2>5, NamesBack
  <2> QED
    BY <2>4, <2>6 DEF n
<1>12. PutBack'
  <2> SUFFICES ASSUME Returning'
               PROVE  /\ dev'.wg = shownOf'.wg
                      /\ dev'.iface = shownOf'.iface
                      /\ shown' = Encode(shownOf)' =>
                           \A k \in dev'.wg.peers : dev'.names[k] = shownOf'.names[k]
    BY Zenon DEF PutBack, Returning
  <2>1. Returning
    BY <1>2
  <2>2. Encode(shownOf)' = Encode(shownOf)
    BY <1>1
  <2> QED
    BY <1>1, <1>8, <1>11, <2>1, <2>2
<1> QED
  BY <1>1, <1>10, <1>12 DEF Restoring

(* Every step keeps it.                                                    *)
LEMMA RestoringStep == Reading /\ Served /\ Restoring /\ [Next]_vars => Restoring'
<1> SUFFICES ASSUME Reading, Served, Restoring, [Next]_vars PROVE Restoring'
  OBVIOUS
<1>1. CASE Ask
  BY <1>1, RestoringAsk
<1>2. CASE Serve
  BY <1>2, RestoringPeek, RestoringAnswers, RestoringShow, RestoringParse, RestoringLine,
     RestoringParsed, RestoringParseConfig, RestoringSync, RestoringConfigure, RestoringSave
     DEF Serve
<1>3. CASE Vanish \/ UNCHANGED vars
  <2>1. UNCHANGED <<at, req, body, dev, shown, shownOf, before, status, parsing, text, line, cfg>>
    BY <1>3 DEF Vanish, vars, web, asked, answers, parser, input
  <2>2. UNCHANGED <<ShownTypes, BodyFits, LinesFit, PutBack, Restored>>
    BY <2>1 DEF ShownTypes, BodyFits, LinesFit, PutBack, Restored, ReplacePeers, Mode
  <2>3. UNCHANGED <<AppendMode, ReplacePeers, SyncPeers, ShownAs, Returning>>
    BY <2>1 DEF AppendMode, ReplacePeers, SyncPeers, Mode, ShownAs, Returning
  <2>4. SaysShown' = SaysShown
    BY <2>1, <2>3, Zenon DEF SaysShown
  <2> QED
    BY <2>1, <2>2, <2>3, <2>4 DEF Restoring
<1> QED
  BY <1>1, <1>2, <1>3 DEF Next

(* What GET /conf shows can be put back: in the mode "set" the device is   *)
(* as it was when it was shown, whatever was done to it in between; every  *)
(* mode leaves an unchanged device as it is, the names of its peers        *)
(* included (encode.go:47, server.go:412-458).                             *)
THEOREM ShownCanBePutBack == Spec => []PutBack
<1>1. Restoring => PutBack
  BY DEF Restoring
<1> QED
  BY <1>1, RestoringInit, RestoringStep, ReadingInit, ReadingStep, ServedInit, ServedStep, PTL
     DEF Spec

=============================================================================
