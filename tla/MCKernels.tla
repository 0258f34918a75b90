----------------------------- MODULE MCKernels -----------------------------
(* The clients of the four systems in one run; a part says which.  "linux" *)
(* is one call of KernelConfigure, "ioctl" two goroutines on one of the    *)
(* other systems, which list, read and configure one or two devices while  *)
(* something comes, goes or changes up to MaxHappens times.                *)
EXTENDS MCKernelConfigure, IoctlDevices

CONSTANTS g1, g2, n1, n2, p1, p2

VARIABLE part

Dev(P, own) ==
  [peers |-> P, setting |-> [k \in Key |-> IF k = k1 /\ k \in P THEN s ELSE Default], owner |-> own]

\* Smaller and larger than the first guess of a size.
MCContents == {NoPeers, Dev({k1, k2}, [x \in IP |-> IF x = b THEN k1 ELSE k2])}

Started(d) == [path |-> p1, started |-> TRUE, dev |-> d]

MCHosts ==
  {[n \in IfName |-> IF n = n1 THEN x ELSE Started(NoPeers)] :
     x \in {NoAdapter} \cup {Started(d) : d \in MCContents}}

List == [op |-> "Devices", name |-> NoName]
Read(n) == [op |-> "Device", name |-> n]
Change(n, c) == [op |-> "Configure", name |-> n, cfg |-> c]

\* Both kinds of lists in one entry, and an entry behind it; entries that
\* remove and that update only.
Edit == [replace |-> FALSE,
         peers |-> <<Entry(k1, Whole, <<a>>, <<[ip |-> b, op |-> "set"], [ip |-> a, op |-> "remove"]>>),
                     Entry(k2, Plain, <<b>>, <<>>)>>]
Renew == [replace |-> TRUE,
          peers |-> <<Entry(k2, [Plain EXCEPT !.updateOnly = TRUE, !.setting = s], <<b>>, <<>>),
                      Entry(k1, [Plain EXCEPT !.remove = TRUE], <<>>, <<>>)>>]

Pair(x, y) == [c \in Caller |-> IF c = g1 THEN x ELSE y]

MCPlans ==
  [sys \in {"windows", "openbsd", "freebsd"} |->
     {Pair(<<List>>, <<Read(n1)>>), Pair(<<Read(n1)>>, <<Change(n1, Edit)>>)}
       \cup (IF sys = "openbsd" THEN {} ELSE {Pair(<<>>, <<Change(n1, Renew)>>)})]

LinuxRest ==
  /\ dev = NoPeers /\ pc = "ok" /\ cfg = [replace |-> FALSE, peers |-> <<>>]
  /\ j = 0 /\ p = NoEntry /\ known = {} /\ batches = <<>> /\ sent = 0
  /\ goal = NoPeers /\ refused = 0

IoctlRest ==
  /\ os = "windows" /\ plan = [c \in Caller |-> <<>>]
  /\ adapter = [n \in IfName |-> NoAdapter] /\ denied = FALSE
  /\ cache = [n \in IfName |-> None] /\ guess = 0
  /\ task = [c \in Caller |-> Idle] /\ happened = MaxHappens

KernelsInit ==
  \/ part = "linux" /\ Init /\ IoctlRest
  \/ part = "ioctl" /\ LinuxRest /\ IoctlInit

KernelsNext ==
  /\ UNCHANGED part
  /\ \/ part = "linux" /\ Next /\ UNCHANGED ivars
     \/ part = "ioctl" /\ IoctlNext /\ UNCHANGED vars

KernelsSpec ==
  KernelsInit /\ [][KernelsNext]_<<vars, ivars, part>> /\ WF_vars(Run) /\ IoctlFairness

\* One goroutine of Windows reads a device twice.
StalePlans == [sys \in {"windows"} |-> {Pair(<<Read(n1), Read(n1)>>, <<>>)}]

IoctlSpec ==
  /\ part = "ioctl" /\ LinuxRest /\ IoctlInit
  /\ [][UNCHANGED <<part, vars>> /\ IoctlNext]_<<vars, ivars, part>>
=============================================================================
