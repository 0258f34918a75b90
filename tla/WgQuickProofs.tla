---------------------------- MODULE WgQuickProofs ---------------------------
(***************************************************************************)
(* What wg-quick promises, for any number of interfaces, configurations    *)
(* and copies of rules, whatever command fails and whichever run is        *)
(* killed.                                                                 *)
(*                                                                         *)
(* DownCleans: when Down has ended nothing of its interface is left.  The  *)
(* invariant (Cleaned) follows Down: the link has gone, with it the        *)
(* routes, then the DNS entry that the file says there may be.  That the   *)
(* file still says what it said when the interface went up is part of it   *)
(* (DNSInFile): Save keeps the network fields.                             *)
(*                                                                         *)
(* RulesHaveRoutes, Isolated, RulesPaired: the policy rules.  The          *)
(* invariant (RulesAndRoutes) says of each run how far it is with its      *)
(* default routes (Ahead, Done) and that the device has what the file says *)
(* (SetUp), of each rule for a table that an interface with a route in it  *)
(* secures it (Secured), and of each run whether it holds the rules of a   *)
(* family (Holds): its table has its rule then, and the suppressing rule   *)
(* is there once for each holder.  A table has one default route of a      *)
(* family (OneOwner), so nobody deletes the rule of somebody else.         *)
(***************************************************************************)
EXTENDS WgQuick, ListProofs

(* Each run has an interface of its own: nobody brings up what is going    *)
(* down.                                                                   *)
OwnInterfaces == \A r, s \in Run : OnOf[r] = OnOf[s] => r = s

PCs == {"idle", "preup", "add", "configure", "address", "dns", "routes", "rule",
        "suppress", "undo", "unlink", "predown", "del", "undns", "postdown"}

Shapes ==
  /\ pc \in [Run -> PCs]
  /\ DOMAIN cfg = Run /\ DOMAIN file = Iface
  /\ \A d \in Iface : "dns" \in DOMAIN file[d]

(* A configuration that was loaded has the DNS field of the file.          *)
Loaded(r) == pc[r] # "idle" => cfg[r].dns = file[OnOf[r]].dns

(* resolvconf knows only interfaces whose files have a DNS field.          *)
DNSInFile == \A d \in dns \cap Iface : file[d].dns = TRUE

(* What Down has done so far.                                              *)
Gone(r) ==
  /\ pc[r] \in {"undns", "postdown"} =>
       OnOf[r] \notin link /\ \A x \in routes : x.dev # OnOf[r]
  /\ pc[r] = "postdown" /\ "dns" \notin may => OnOf[r] \notin dns

Cleaned == Shapes /\ DNSInFile /\ \A r \in Run : Loaded(r) /\ Gone(r)

(* Before the first run nothing is up.                                     *)
LEMMA CleanedInit == Init => Cleaned
<1> SUFFICES ASSUME Init PROVE Cleaned
  OBVIOUS
<1>1. Shapes
  <2>1. \A c \in Conf : "dns" \in DOMAIN c
    BY DEF Conf
  <2> QED
    BY <2>1, QuickTypes DEF Init, Shapes, PCs
<1> QED
  BY <1>1 DEF Init, Cleaned, DNSInFile, Loaded, Gone

(* A step of a run is about its own interface.                             *)
LEMMA OwnStep ==
  ASSUME OwnInterfaces, Cleaned, NEW r \in Run, NEW to \in PCs,
         pc' = [pc EXCEPT ![r] = to],
         DOMAIN cfg' = Run, \A s \in Run \ {r} : cfg'[s] = cfg[s],
         UNCHANGED <<file, may>>,
         link' \subseteq link \cup {OnOf[r]},
         \A x \in routes' : x \in routes \/ x.dev = OnOf[r],
         dns' \subseteq dns \cup {OnOf[r]},
         OnOf[r] \in dns' => file[OnOf[r]].dns = TRUE,
         Loaded(r)', Gone(r)'
  PROVE  Cleaned'
<1>1. Shapes'
  BY DEF Cleaned, Shapes
<1>2. DNSInFile'
  BY DEF Cleaned, DNSInFile
<1>3. ASSUME NEW s \in Run \ {r}
      PROVE  Loaded(s)' /\ Gone(s)'
  <2>1. OnOf[s] # OnOf[r]
    BY DEF OwnInterfaces
  <2>2. pc'[s] = pc[s] /\ cfg'[s] = cfg[s]
    BY DEF Cleaned, Shapes
  <2>3. Loaded(s) /\ Gone(s)
    BY DEF Cleaned
  <2> QED
    BY <2>1, <2>2, <2>3 DEF Loaded, Gone
<1> QED
  BY <1>1, <1>2, <1>3 DEF Cleaned

(* Most steps only move on, or change the rules and the device.            *)
LEMMA MovesOn ==
  ASSUME OwnInterfaces, Cleaned, NEW r \in Run, NEW to \in PCs,
         pc' = [pc EXCEPT ![r] = to],
         UNCHANGED <<cfg, file, may, link, routes, dns>>,
         pc[r] # "idle" \/ to = "idle",
         to \notin {"undns", "postdown"}
  PROVE  Cleaned'
<1>1. Loaded(r) /\ Gone(r) /\ DNSInFile /\ Shapes
  BY DEF Cleaned
<1>2. pc'[r] = to
  BY <1>1 DEF Shapes
<1>3. Loaded(r)' /\ Gone(r)'
  BY <1>1, <1>2 DEF Loaded, Gone
<1>4. OnOf[r] \in dns' => file[OnOf[r]].dns = TRUE
  BY <1>1, QuickTypes DEF DNSInFile
<1> QED
  BY <1>1, <1>3, <1>4, OwnStep DEF Shapes

(* Every step keeps it.                                                    *)
LEMMA CleanedStep == ASSUME OwnInterfaces PROVE Cleaned /\ [Next]_vars => Cleaned'
<1> SUFFICES ASSUME Cleaned, [Next]_vars PROVE Cleaned'
  OBVIOUS
<1>1. /\ Shapes /\ DNSInFile /\ pc \in [Run -> PCs] /\ DOMAIN cfg = Run
      /\ \A r \in Run : Loaded(r) /\ Gone(r) /\ OnOf[r] \in Iface
  BY QuickTypes DEF Cleaned, Shapes
<1>2. ASSUME NEW r \in Run,
             \/ UpRefused(r) \/ PreUp(r) \/ Configure(r) \/ AddTableRule(r)
             \/ AddSuppressRule(r) \/ PostUp(r) \/ UpFails(r) \/ UndoRules(r)
             \/ DownRules(r) \/ DownFails(r) \/ Killed(r) \/ PostDown(r)
      PROVE  Cleaned'
  <2>1. PICK to \in PCs \ {"undns", "postdown"} :
          pc' = [pc EXCEPT ![r] = to] /\ (pc[r] # "idle" \/ to = "idle")
    BY <1>2 DEF UpRefused, PreUp, Configure, AddTableRule, AddSuppressRule, PostUp,
                UpFails, UndoRules, DownRules, DownFails, Killed, PostDown, Goto, PCs
  <2>2. UNCHANGED <<cfg, file, may, link, routes, dns>>
    BY <1>2 DEF UpRefused, PreUp, Configure, AddTableRule, AddSuppressRule, PostUp,
                UpFails, UndoRules, DownRules, DownFails, Killed, PostDown, host
  <2> QED
    BY <2>1, <2>2, MovesOn
<1>3. ASSUME NEW r \in Run, StartUp(r) \/ StartDown(r) PROVE Cleaned'
  <2>1. PICK to \in PCs \ {"undns", "postdown"} :
          /\ pc' = [pc EXCEPT ![r] = to]
          /\ cfg' = [cfg EXCEPT ![r] = file[OnOf[r]]]
          /\ UNCHANGED <<file, may, link, routes, dns>>
    BY <1>3 DEF StartUp, StartDown, Goto, PCs, host
  <2>2. cfg'[r] = file[OnOf[r]] /\ pc'[r] = to /\ DOMAIN cfg' = Run
        /\ \A s \in Run \ {r} : cfg'[s] = cfg[s]
    BY <1>1, <2>1
  <2>3. Loaded(r)' /\ Gone(r)'
    BY <2>1, <2>2 DEF Loaded, Gone
  <2> QED
    BY <1>1, <2>1, <2>2, <2>3, OwnStep DEF DNSInFile
<1>4. ASSUME NEW r \in Run, AddInterface(r) \/ SetLinkUp(r) PROVE Cleaned'
  <2>1. PICK to \in PCs \ {"undns", "postdown"} : pc' = [pc EXCEPT ![r] = to] /\ pc[r] # "idle"
    BY <1>4 DEF AddInterface, SetLinkUp, Goto, PCs
  <2>2. /\ UNCHANGED <<cfg, file, may, dns>>
        /\ link' \subseteq link \cup {OnOf[r]}
        /\ \A x \in routes' : x \in routes \/ x.dev = OnOf[r]
    BY <1>4 DEF AddInterface, SetLinkUp, Route
  <2>3. Loaded(r)' /\ Gone(r)'
    BY <1>1, <2>1, <2>2 DEF Loaded, Gone
  <2> QED
    BY <1>1, <2>1, <2>2, <2>3, OwnStep DEF DNSInFile
<1>5. ASSUME NEW r \in Run, SetDNS(r) PROVE Cleaned'
  <2>1. /\ pc[r] = "dns" /\ pc' = [pc EXCEPT ![r] = "routes"]
        /\ UNCHANGED <<cfg, file, may, link, routes>>
    BY <1>5 DEF SetDNS, Goto
  <2>2. cfg[r].dns = file[OnOf[r]].dns
    BY <1>1, <2>1 DEF Loaded
  <2>3. dns' = dns \/ (cfg[r].dns = TRUE /\ dns' = dns \cup {OnOf[r]})
    <3>1. \A d \in Iface : file[d].dns = TRUE \/ ~file[d].dns
      OBVIOUS
    <3> QED
      BY <1>5 DEF SetDNS
  <2>4. Loaded(r)' /\ Gone(r)'
    BY <1>1, <2>1, <2>2 DEF Loaded, Gone
  <2> QED
    BY <1>1, <2>1, <2>2, <2>3, <2>4, OwnStep DEF DNSInFile, PCs
<1>6. ASSUME NEW r \in Run, SkipRoute(r) \/ AddRoute(r) PROVE Cleaned'
  <2>1. /\ pc[r] = "routes"
        /\ \E to \in {"routes", "rule"} : pc' = [pc EXCEPT ![r] = to]
        /\ UNCHANGED <<cfg, file, may, link, dns>>
        /\ \A x \in routes' : x \in routes \/ x.dev = OnOf[r]
    BY <1>1, <1>6 DEF SkipRoute, AddRoute, Route, host
  <2>2. PICK to \in {"routes", "rule"} : pc' = [pc EXCEPT ![r] = to]
    BY <2>1
  <2>3. Loaded(r)' /\ Gone(r)'
    BY <1>1, <2>1, <2>2 DEF Loaded, Gone
  <2> QED
    BY <1>1, <2>1, <2>2, <2>3, OwnStep DEF DNSInFile, PCs
<1>7. ASSUME NEW r \in Run, UndoLink(r) \/ DownLink(r) PROVE Cleaned'
  <2>1. PICK to \in {"idle", "undns"} : pc' = [pc EXCEPT ![r] = to] /\ pc[r] # "idle"
    BY <1>7 DEF UndoLink, DownLink, Goto
  <2>2. /\ UNCHANGED <<cfg, file, may, dns>>
        /\ link' = link \ {OnOf[r]}
        /\ routes' = {x \in routes : x.dev # OnOf[r]}
    BY <1>7 DEF UndoLink, DownLink, DelLink
  <2>3. Loaded(r)' /\ Gone(r)'
    BY <1>1, <2>1, <2>2 DEF Loaded, Gone
  <2> QED
    BY <1>1, <2>1, <2>2, <2>3, OwnStep DEF DNSInFile, PCs
<1>8. ASSUME NEW r \in Run, UnsetDNS(r) PROVE Cleaned'
  <2>1. /\ pc[r] = "undns" /\ pc' = [pc EXCEPT ![r] = "postdown"]
        /\ UNCHANGED <<cfg, file, may, link, routes>>
        /\ \/ dns' = IF cfg[r].dns THEN dns \ {OnOf[r]} ELSE dns
           \/ "dns" \in may /\ dns' = dns
    BY <1>8 DEF UnsetDNS, Goto
  <2>2. cfg[r].dns = file[OnOf[r]].dns
    BY <1>1, <2>1 DEF Loaded
  <2>3. dns' \subseteq dns /\ ("dns" \notin may => OnOf[r] \notin dns')
    <3>1. OnOf[r] \in dns => cfg[r].dns = TRUE
      BY <1>1, <2>2 DEF DNSInFile
    <3> QED
      BY <2>1, <3>1
  <2>4. Loaded(r)' /\ Gone(r)'
    BY <1>1, <2>1, <2>2, <2>3 DEF Loaded, Gone
  <2> QED
    BY <1>1, <2>1, <2>3, <2>4, OwnStep DEF DNSInFile, PCs
<1>9. ASSUME NEW r \in Run, Save(r) PROVE Cleaned'
  <2>1. /\ pc' = pc /\ OnOf[r] \in Iface
        /\ file' = [file EXCEPT ![OnOf[r]] = Saved(@, device[OnOf[r]])]
        /\ UNCHANGED <<link, routes, dns, cfg, may>>
    BY <1>1, <1>9 DEF Save, Goto, host
  <2>2. DOMAIN file' = Iface
        /\ \A d \in Iface : "dns" \in DOMAIN file'[d] /\ file'[d].dns = file[d].dns
    BY <1>1, <2>1 DEF Shapes, Saved
  <2>3. Shapes' /\ DNSInFile'
    BY <1>1, <2>1, <2>2 DEF Shapes, DNSInFile
  <2>4. \A s \in Run : Loaded(s)' /\ Gone(s)'
    BY <1>1, <2>1, <2>2 DEF Loaded, Gone
  <2> QED
    BY <2>3, <2>4 DEF Cleaned
<1>10. ASSUME NEW d \in Iface, WgSet(d) PROVE Cleaned'
  BY <1>10 DEF WgSet, Cleaned, Shapes, DNSInFile, Loaded, Gone
<1>11. CASE UNCHANGED vars
  BY <1>11 DEF vars, Cleaned, Shapes, DNSInFile, Loaded, Gone
<1> QED
  BY <1>2, <1>3, <1>4, <1>5, <1>6, <1>7, <1>8, <1>9, <1>10, <1>11 DEF Next

(* Down "deletes the interface (addresses and routes go with it) and       *)
(* cleans up DNS" (quick_linux.go:116), whatever happened before.          *)
THEOREM DownLeavesNothing == ASSUME OwnInterfaces PROVE Spec => DownCleans
<1>1. Cleaned /\ [Next]_vars =>
        [\A r \in Run : PostDown(r) =>
           LET d == OnOf[r]
           IN  /\ d \notin link
               /\ \A x \in routes : x.dev # d
               /\ "dns" \notin may => d \notin dns]_vars
  BY DEF Cleaned, Gone, PostDown, Goto
<1> QED
  BY CleanedInit, CleanedStep, <1>1, PTL DEF Spec, DownCleans
-----------------------------------------------------------------------------
(* The rules                                                               *)

(* No behaviour of these proofs saves AllowedIPs that `wg set` has made.   *)
Steady == ~({"set", "save"} \subseteq may)
Calm == may \cap {"kill", "unlink", "stray"} = {}

Typed ==
  /\ pc \in [Run -> PCs]
  /\ file \in [Iface -> Conf]
  /\ DOMAIN cfg = Run
  /\ \A r \in Run : pc[r] # "idle" => cfg[r] = file[OnOf[r]]
  /\ todo \in [Run -> Seq(Prefix)]
  /\ \A r \in Run : pc[r] \in {"rule", "suppress"} => todo[r] # <<>>
  /\ added \in [Run -> SUBSET Family]
  /\ active \in [Iface -> Conf \cup {NoConf}]
  /\ device \in [Iface -> [mark : Number \cup {NoMark}, allowed : SUBSET Prefix]]
  /\ routes \subseteq [dev : Iface, prefix : Prefix, table : Number \cup {Main}]
  /\ rules \in [Family \X (Number \cup {Suppress}) -> Nat]

(* Routes and interfaces come and go together, and a table has one route   *)
(* for a prefix.                                                           *)
Hosted ==
  /\ \A x \in routes : x.dev \in link
  /\ \A d \in link : \E r \in Run : OnOf[r] = d
  /\ \A d \in Iface : active[d] # NoConf => \E r \in Run : OnOf[r] = d
  /\ \A x, y \in routes :
       x.table \in Number /\ x.table = y.table /\ x.prefix = y.prefix => x = y

(* The default routes of an interface, and the families that they are of.  *)
Families(c) == {FamilyOf[p] : p \in Isolates(c)}
Routed(d, f) ==
  \E p \in Isolates(file[d]) :
    FamilyOf[p] = f /\ Route(d, p, RouteTable(file[d])) \in routes

(* Which of them Up has still to do, and which it has done.                *)
Ahead(r) ==
  /\ pc[r] \in {"preup", "add", "configure", "address", "dns"} =>
       todo[r] = cfg[r].routes /\ added[r] = {}
  /\ pc[r] \in {"routes", "rule", "suppress"} =>
       \A p \in Isolates(cfg[r]) :
         FamilyOf[p] \in added[r] \/ \E i \in DOMAIN todo[r] : todo[r][i] = p
  /\ pc[r] \in {"routes", "rule", "suppress"} =>
       \A i \in DOMAIN todo[r] : \E j \in DOMAIN cfg[r].routes : todo[r][i] = cfg[r].routes[j]
Done(r) ==
  /\ pc[r] \in {"configure", "address", "dns"} =>
       \A x \in routes : x.dev = OnOf[r] => x.table \notin Number
  /\ pc[r] \in {"routes", "rule", "suppress", "undo"} =>
       \A f \in added[r] : Routed(OnOf[r], f)
  /\ pc[r] \in {"rule", "suppress"} =>
       /\ Head(todo[r]) \in Isolates(cfg[r])
       /\ FamilyOf[Head(todo[r])] \notin added[r]
       /\ Route(OnOf[r], Head(todo[r]), RouteTable(cfg[r])) \in routes

(* The device has what the file says, or nothing yet.                      *)
MarkOf(c) == IF Isolates(c) # {} THEN RouteTable(c) ELSE c.mark
AsConfigured(d) ==
  /\ device[d].mark = MarkOf(file[d])
  /\ "set" \notin may => device[d].allowed = Range(file[d].routes)
Bare(d) ==
  /\ device[d].mark = NoMark
  /\ "set" \notin may => device[d].allowed = {}
  /\ \A x \in routes : x.dev = d => x.table \notin Number
SetUp(r) ==
  /\ OnOf[r] \notin link => device[OnOf[r]] = NoDevice
  /\ OnOf[r] \in link => AsConfigured(OnOf[r]) \/ Bare(OnOf[r])
  /\ pc[r] \in {"address", "dns", "routes", "rule", "suppress"} => AsConfigured(OnOf[r])

Own(r) == Ahead(r) /\ Done(r) /\ SetUp(r)
Kept == Steady => Typed /\ Hosted /\ \A r \in Run : Own(r)

(* The rule of a table is that of an interface with the route.             *)
Secured(r, f, n) ==
  /\ n = RouteTable(file[OnOf[r]])
  /\ Routed(OnOf[r], f)
  /\ pc[r] \in {"routes", "rule", "suppress", "undo"} =>
       f \in added[r] \/ (pc[r] = "suppress" /\ f = FamilyOf[Head(todo[r])])
  /\ pc[r] \notin {"configure", "address", "dns", "unlink", "del"}
RulesSecured ==
  \A f \in Family, n \in Number :
    /\ rules[<<f, n>>] <= 1
    /\ rules[<<f, n>>] > 0 => \E r \in Run : Secured(r, f, n)
Ruled == Steady /\ "rule" \notin may => RulesSecured

(* Whoever isolates has both rules.                                        *)
Holds(r, f) ==
  \/ pc[r] \in {"routes", "rule", "suppress", "undo"} /\ f \in added[r]
  \/ active[OnOf[r]] # NoConf /\ f \in Families(active[OnOf[r]])
UpNow(r) ==
  /\ pc[r] \in {"idle", "preup", "add", "predown"} =>
       (OnOf[r] \in link <=> active[OnOf[r]] # NoConf)
  /\ pc[r] \notin {"idle", "preup", "add", "predown"} => active[OnOf[r]] = NoConf
  /\ pc[r] \in {"configure", "address", "dns", "routes", "rule", "suppress", "predown"} =>
       OnOf[r] \in link
  /\ pc[r] \in {"undns", "postdown"} => OnOf[r] \notin link
  /\ active[OnOf[r]] # NoConf =>
       /\ AsConfigured(OnOf[r])
       /\ Isolates(active[OnOf[r]]) = Isolates(file[OnOf[r]])
       /\ RouteTable(active[OnOf[r]]) = RouteTable(file[OnOf[r]])
       /\ \A f \in Families(file[OnOf[r]]) : Routed(OnOf[r], f)
TableRules(r) ==
  /\ \A f \in Family : Holds(r, f) => rules[<<f, RouteTable(file[OnOf[r]])>>] > 0
  /\ pc[r] = "suppress" => rules[<<FamilyOf[Head(todo[r])], RouteTable(cfg[r])>>] > 0
Holders(f) == {r \in Run : Holds(r, f)}
Counted == \A f \in Family : rules[<<f, Suppress>>] = Cardinality(Holders(f))
AllHeld == Counted /\ \A r \in Run : UpNow(r) /\ TableRules(r)
Held == Steady /\ Calm => AllHeld
-----------------------------------------------------------------------------
(* Tables have numbers, and what is isolated is a default route of the     *)
(* file.                                                                   *)
LEMMA ConfFacts ==
  ASSUME NEW c \in Conf
  PROVE  /\ RouteTable(c) \in Number
         /\ MarkOf(c) \in Number \cup {NoMark}
         /\ Isolates(c) \subseteq Default
         /\ Families(c) \subseteq Family
         /\ \A p \in Isolates(c) :
              RouteMode(c) = "auto" /\ \E i \in DOMAIN c.routes : c.routes[i] = p
         /\ c # NoConf
<1>1. c.table \in Number \cup {AutoTable, OffTable} /\ c.mark \in Number \cup {NoMark}
  BY DEF Conf
<1>2. RouteTable(c) \in Number
  BY <1>1, QuickTypes DEF RouteTable
<1>3. Isolates(c) \subseteq Default
  BY DEF Isolates, Defaults
<1>4. Families(c) \subseteq Family
  BY <1>3, QuickTypes DEF Families, Family
<1> QED
  BY <1>1, <1>2, <1>3, <1>4, QuickTypes DEF MarkOf, Isolates, Defaults

(* Save (save.go) leaves a file from which Up does what it did before: the *)
(* same table, the same isolated routes and the same mark.                 *)
LEMMA SavedSame ==
  ASSUME NEW c \in Conf, NEW v \in [mark : Number \cup {NoMark}, allowed : SUBSET Prefix]
  PROVE  /\ Saved(c, v) \in Conf
         /\ Range(Saved(c, v).routes) = v.allowed
         /\ v.mark = MarkOf(c) /\ v.allowed = Range(c.routes) =>
              /\ Isolates(Saved(c, v)) = Isolates(c)
              /\ RouteTable(Saved(c, v)) = RouteTable(c)
              /\ MarkOf(Saved(c, v)) = MarkOf(c)
<1> DEFINE n == Saved(c, v)
<1>1. /\ SetToSeq(v.allowed) \in Seq(Prefix)
      /\ Range(SetToSeq(v.allowed)) = v.allowed
  <2>1. v.allowed \subseteq Prefix
    OBVIOUS
  <2>2. IsFiniteSet(v.allowed)
    BY <2>1, QuickTypes, FS_Subset
  <2>3. SetToSeq(v.allowed) \in Seq(v.allowed) /\ Range(SetToSeq(v.allowed)) = v.allowed
    BY <2>2, ListOfSet
  <2> QED
    BY <2>1, <2>3
<1>2. /\ n \in Conf
      /\ n.table = c.table /\ n.mark = v.mark /\ n.routes = SetToSeq(v.allowed)
  BY <1>1 DEF Saved, Conf
<1>3. Range(n.routes) = v.allowed
  BY <1>1, <1>2
<1> HIDE DEF n
<1>4. ASSUME v.mark = MarkOf(c), v.allowed = Range(c.routes)
      PROVE  Isolates(n) = Isolates(c) /\ RouteTable(n) = RouteTable(c) /\ MarkOf(n) = MarkOf(c)
  <2>1. \A p : (\E i \in DOMAIN n.routes : n.routes[i] = p)
                 <=> (\E i \in DOMAIN c.routes : c.routes[i] = p)
    BY <1>3, <1>4 DEF Range
  <2>2. Defaults(n) = Defaults(c)
    BY <2>1 DEF Defaults
  <2>3. Isolates(n) = Isolates(c)
    BY <1>2, <2>2 DEF Isolates, RouteMode
  <2>4. RouteTable(n) = RouteTable(c)
    <3>1. CASE Isolates(c) = {}
      BY <1>2, <1>4, <3>1 DEF RouteTable, MarkOf
    <3>2. CASE Isolates(c) # {}
      <4>1. v.mark = RouteTable(c) /\ c.table \notin Number
        BY <1>4, <3>2, QuickTypes DEF MarkOf, Isolates, RouteMode, Conf
      <4>2. v.mark # NoMark
        BY <4>1, ConfFacts, QuickTypes
      <4> QED
        BY <1>2, <4>1, <4>2 DEF RouteTable
    <3> QED
      BY <3>1, <3>2
  <2> QED
    BY <1>2, <1>4, <2>3, <2>4 DEF MarkOf
<1> QED
  BY <1>2, <1>3, <1>4 DEF n

(* Which rules addRule and delRule change, and how (rules_linux.go).       *)
LEMMA RuleAdded ==
  ASSUME rules \in [Family \X (Number \cup {Suppress}) -> Nat],
         NEW f \in Family, NEW k \in Number \cup {Suppress}, AddRule(f, k)
  PROVE  /\ rules' \in [Family \X (Number \cup {Suppress}) -> Nat]
         /\ rules'[<<f, k>>] = rules[<<f, k>>] + 1
         /\ \A g \in Family, j \in Number \cup {Suppress} :
              g # f \/ j # k => rules'[<<g, j>>] = rules[<<g, j>>]
<1> DEFINE x == <<f, k>>
           D == Family \X (Number \cup {Suppress})
<1>1. x \in D /\ rules[x] \in Nat /\ rules' = [rules EXCEPT ![x] = rules[x] + 1]
  BY DEF AddRule
<1>2. \A g \in Family, j \in Number \cup {Suppress} :
        <<g, j>> \in D /\ (<<g, j>> = x => g = f /\ j = k)
  OBVIOUS
<1>3. rules \in [D -> Nat]
  OBVIOUS
<1> HIDE DEF x, D
<1>4. rules' \in [D -> Nat] /\ rules'[x] = rules[x] + 1 /\ \A y \in D : y # x => rules'[y] = rules[y]
  BY <1>1, <1>3
<1>5. \A g \in Family, j \in Number \cup {Suppress} :
        g # f \/ j # k => rules'[<<g, j>>] = rules[<<g, j>>]
  BY <1>2, <1>4
<1> QED
  BY <1>4, <1>5 DEF x, D

(* And which ones `ip rule del` takes away.                                *)
LEMMA RulesDeleted ==
  ASSUME rules \in [Family \X (Number \cup {Suppress}) -> Nat],
         NEW F, NEW n \in Number, DelRules(F, n)
  PROVE  /\ rules' \in [Family \X (Number \cup {Suppress}) -> Nat]
         /\ \A f \in Family, k \in Number \cup {Suppress} :
              rules'[<<f, k>>] = IF f \in F /\ k \in {n, Suppress} /\ rules[<<f, k>>] > 0
                                   THEN rules[<<f, k>>] - 1 ELSE rules[<<f, k>>]
<1> DEFINE D == Family \X (Number \cup {Suppress})
           New(x) == IF x[1] \in F /\ x[2] \in {n, Suppress} /\ rules[x] > 0
                       THEN rules[x] - 1 ELSE rules[x]
<1>1. rules' = [x \in D |-> New(x)]
  BY DEF DelRules
<1>2. ASSUME NEW x \in D PROVE New(x) \in Nat
  <2>1. rules[x] \in Nat
    OBVIOUS
  <2> HIDE DEF D
  <2> QED
    BY <2>1
<1>3. rules' \in [D -> Nat]
  <2> HIDE DEF D, New
  <2> QED
    BY <1>1, <1>2
<1>4. ASSUME NEW f \in Family, NEW k \in Number \cup {Suppress}
      PROVE  rules'[<<f, k>>] = IF f \in F /\ k \in {n, Suppress} /\ rules[<<f, k>>] > 0
                                  THEN rules[<<f, k>>] - 1 ELSE rules[<<f, k>>]
  <2>1. <<f, k>> \in D
    OBVIOUS
  <2>2. rules'[<<f, k>>] = New(<<f, k>>)
    <3> HIDE DEF D, New
    <3> QED
      BY <1>1, <2>1
  <2> QED
    BY <2>2
<1> QED
  BY <1>3, <1>4

(* What a step of a run leaves alone: the other runs, their interfaces and *)
(* the routes of those.                                                    *)
Only(r) ==
  /\ \A s \in Run \ {r} : /\ pc'[s] = pc[s] /\ cfg'[s] = cfg[s]
                          /\ todo'[s] = todo[s] /\ added'[s] = added[s]
  /\ \A d \in Iface \ {OnOf[r]} : /\ file'[d] = file[d] /\ device'[d] = device[d]
                                  /\ active'[d] = active[d] /\ (d \in link' <=> d \in link)
  /\ \A x : x.dev # OnOf[r] => (x \in routes' <=> x \in routes)
  /\ may' = may

StepOf(r) ==
  \/ StartUp(r) \/ UpRefused(r) \/ PreUp(r) \/ AddInterface(r) \/ Configure(r)
  \/ SetLinkUp(r) \/ SetDNS(r) \/ SkipRoute(r) \/ AddRoute(r)
  \/ AddTableRule(r) \/ AddSuppressRule(r) \/ PostUp(r) \/ UpFails(r)
  \/ UndoRules(r) \/ UndoLink(r)
  \/ StartDown(r) \/ DownRules(r) \/ DownLink(r) \/ UnsetDNS(r) \/ PostDown(r)
  \/ DownFails(r) \/ Killed(r) \/ Save(r)

(* Every step of a run is its own.                                         *)
LEMMA StepsAreOwn == ASSUME NEW r \in Run, StepOf(r), Typed PROVE Only(r)
<1>1. /\ pc \in [Run -> PCs] /\ DOMAIN cfg = Run /\ todo \in [Run -> Seq(Prefix)]
      /\ added \in [Run -> SUBSET Family] /\ DOMAIN file = Iface /\ DOMAIN active = Iface
      /\ DOMAIN device = Iface /\ OnOf[r] \in Iface
  BY QuickTypes DEF Typed
<1>2. ASSUME StartUp(r) \/ UpRefused(r) \/ PreUp(r) \/ SetDNS(r) \/ UpFails(r)
      PROVE  Only(r)
  BY <1>1, <1>2 DEF StartUp, UpRefused, PreUp, SetDNS, UpFails, Goto, host, Only
<1>3. ASSUME AddInterface(r) \/ Configure(r) \/ PostUp(r) \/ SkipRoute(r)
      PROVE  Only(r)
  BY <1>1, <1>3 DEF AddInterface, Configure, PostUp, SkipRoute, NextRoute, Goto, host, Only
<1>4. ASSUME SetLinkUp(r) \/ AddRoute(r)
      PROVE  Only(r)
  <2>1. /\ UNCHANGED <<cfg, file, device, active, link, added, may>>
        /\ \E to : pc' = [pc EXCEPT ![r] = to]
        /\ todo' = [todo EXCEPT ![r] = todo'[r]]
        /\ \A x : x \in routes' => x \in routes \/ x.dev = OnOf[r]
        /\ routes \subseteq routes'
    BY <1>1, <1>4 DEF SetLinkUp, AddRoute, NextRoute, Route, Goto
  <2> QED
    BY <1>1, <2>1 DEF Only
<1>5. ASSUME AddTableRule(r) \/ AddSuppressRule(r) \/ UndoRules(r) \/ DownRules(r)
      PROVE  Only(r)
  BY <1>1, <1>5 DEF AddTableRule, AddSuppressRule, UndoRules, DownRules, NextRoute, Goto, Only
<1>6. ASSUME UndoLink(r) \/ DownLink(r)
      PROVE  Only(r)
  BY <1>1, <1>6 DEF UndoLink, DownLink, DelLink, Goto, Only
<1>7. ASSUME StartDown(r) \/ UnsetDNS(r) \/ PostDown(r) \/ DownFails(r) \/ Killed(r)
      PROVE  Only(r)
  BY <1>1, <1>7 DEF StartDown, UnsetDNS, PostDown, DownFails, Killed, Goto, host, Only
<1>8. ASSUME Save(r)
      PROVE  Only(r)
  BY <1>1, <1>8 DEF Save, Goto, host, Only
<1> QED
  BY <1>2, <1>3, <1>4, <1>5, <1>6, <1>7, <1>8 DEF StepOf

(* Types are kept.                                                         *)
LEMMA TypedStep == ASSUME OwnInterfaces, Typed, Next PROVE Typed'
<1>1. /\ pc \in [Run -> PCs] /\ file \in [Iface -> Conf] /\ DOMAIN cfg = Run
      /\ \A r \in Run : pc[r] # "idle" => cfg[r] = file[OnOf[r]]
      /\ todo \in [Run -> Seq(Prefix)]
      /\ \A r \in Run : pc[r] \in {"rule", "suppress"} => todo[r] # <<>>
      /\ added \in [Run -> SUBSET Family]
      /\ active \in [Iface -> Conf \cup {NoConf}]
      /\ device \in [Iface -> [mark : Number \cup {NoMark}, allowed : SUBSET Prefix]]
      /\ routes \subseteq [dev : Iface, prefix : Prefix, table : Number \cup {Main}]
      /\ rules \in [Family \X (Number \cup {Suppress}) -> Nat]
      /\ \A r \in Run : OnOf[r] \in Iface
  BY QuickTypes DEF Typed
<1>2. ASSUME NEW r \in Run, StepOf(r) PROVE Typed'
  <2>1. Only(r)
    BY <1>2, StepsAreOwn
  <2>2. pc' \in [Run -> PCs]
    <3>1. \E to \in PCs : pc' = [pc EXCEPT ![r] = to]
      BY <1>1, <1>2, SMTT(30) DEF StepOf, StartUp, UpRefused, PreUp, AddInterface, Configure, SetLinkUp,
           SetDNS, SkipRoute, AddRoute, AddTableRule, AddSuppressRule, PostUp, UpFails, UndoRules,
           UndoLink, StartDown, DownRules, DownLink, UnsetDNS, PostDown, DownFails, Killed, Save,
           Goto, PCs
    <3> QED
      BY <1>1, <3>1
  <2>3. file' \in [Iface -> Conf] /\ (Save(r) \/ file' = file)
    <3>1. CASE Save(r)
      BY <1>1, <3>1, SavedSame DEF Save
    <3>2. CASE ~Save(r)
      BY <1>1, <1>2, <3>2 DEF StepOf, StartUp, UpRefused, PreUp, AddInterface, Configure, SetLinkUp,
           SetDNS, SkipRoute, AddRoute, AddTableRule, AddSuppressRule, PostUp, UpFails, UndoRules,
           UndoLink, StartDown, DownRules, DownLink, UnsetDNS, PostDown, DownFails, Killed
    <3> QED
      BY <3>1, <3>2
  <2>4. DOMAIN cfg' = Run /\ (pc'[r] # "idle" => cfg'[r] = file'[OnOf[r]])
    <3>1. CASE Save(r)
      BY <1>1, <3>1 DEF Save, Goto
    <3>2. CASE StartUp(r) \/ StartDown(r)
      BY <1>1, <3>2 DEF StartUp, StartDown
    <3>3. CASE ~(Save(r) \/ StartUp(r) \/ StartDown(r))
      <4>1. cfg' = cfg /\ (pc[r] = "idle" => pc'[r] = "idle")
        BY <1>1, <1>2, <3>3 DEF StepOf, UpRefused, PreUp, AddInterface, Configure, SetLinkUp,
           SetDNS, SkipRoute, AddRoute, AddTableRule, AddSuppressRule, PostUp, UpFails, UndoRules,
           UndoLink, DownRules, DownLink, UnsetDNS, PostDown, DownFails, Killed, Goto
      <4> QED
        BY <1>1, <2>3, <3>3, <4>1
    <3> QED
      BY <3>1, <3>2, <3>3
  <2>5. \A s \in Run : pc'[s] # "idle" => cfg'[s] = file'[OnOf[s]]
    <3> TAKE s \in Run
    <3>1. CASE s = r
      BY <2>4, <3>1
    <3>2. CASE s # r
      <4>1. OnOf[s] \in Iface \ {OnOf[r]}
        BY <1>1, <3>2 DEF OwnInterfaces
      <4>2. pc'[s] = pc[s] /\ cfg'[s] = cfg[s] /\ file'[OnOf[s]] = file[OnOf[s]]
        BY <2>1, <3>2, <4>1 DEF Only
      <4> QED
        BY <1>1, <4>2
    <3> QED
      BY <3>1, <3>2
  <2>6. \A p \in Prefix : FamilyOf[p] \in Family
    BY DEF Family
  <2>7. todo' \in [Run -> Seq(Prefix)]
    <3>1. file[OnOf[r]].routes \in Seq(Prefix)
      BY <1>1 DEF Conf
    <3>2. todo[r] # <<>> => Tail(todo[r]) \in Seq(Prefix)
      BY <1>1
    <3>3. CASE StartUp(r)
      BY <1>1, <3>1, <3>3 DEF StartUp
    <3>4. CASE SkipRoute(r) \/ AddRoute(r)
      BY <1>1, <3>2, <3>4 DEF SkipRoute, AddRoute, NextRoute
    <3>5. CASE AddSuppressRule(r)
      BY <1>1, <3>2, <3>5 DEF AddSuppressRule, NextRoute, Goto
    <3>6. CASE ~(StartUp(r) \/ SkipRoute(r) \/ AddRoute(r) \/ AddSuppressRule(r))
      BY <1>1, <1>2, <3>6 DEF StepOf, UpRefused, PreUp, AddInterface, Configure, SetLinkUp,
           SetDNS, AddTableRule, PostUp, UpFails, UndoRules,
           UndoLink, StartDown, DownRules, DownLink, UnsetDNS, PostDown, DownFails, Killed, Save
    <3> QED
      BY <3>3, <3>4, <3>5, <3>6
  <2>8. \A s \in Run : pc'[s] \in {"rule", "suppress"} => todo'[s] # <<>>
    <3>1. pc'[r] \in {"rule", "suppress"} => todo'[r] = todo[r] /\ todo[r] # <<>>
      BY <1>1, <1>2 DEF StepOf, StartUp, UpRefused, PreUp, AddInterface, Configure, SetLinkUp,
           SetDNS, SkipRoute, AddRoute, AddTableRule, AddSuppressRule, PostUp, UpFails, UndoRules,
           UndoLink, StartDown, DownRules, DownLink, UnsetDNS, PostDown, DownFails, Killed, Save,
           Goto
    <3> QED
      BY <1>1, <2>1, <3>1 DEF Only
  <2>9. todo[r] # <<>> => Head(todo[r]) \in Prefix
    BY <1>1
  <2>10. added' \in [Run -> SUBSET Family]
    <3>1. CASE StartUp(r)
      BY <1>1, <3>1 DEF StartUp
    <3>2. CASE AddSuppressRule(r)
      BY <1>1, <2>6, <2>9, <3>2 DEF AddSuppressRule, Goto
    <3>3. CASE ~(StartUp(r) \/ AddSuppressRule(r))
      BY <1>1, <1>2, <3>3 DEF StepOf, UpRefused, PreUp, AddInterface, Configure, SetLinkUp,
           SetDNS, SkipRoute, AddRoute, AddTableRule, PostUp, UpFails, UndoRules,
           UndoLink, StartDown, DownRules, DownLink, UnsetDNS, PostDown, DownFails, Killed, Save
    <3> QED
      BY <3>1, <3>2, <3>3
  <2>11. active' \in [Iface -> Conf \cup {NoConf}]
    <3>1. CASE PostUp(r)
      BY <1>1, <3>1, ZenonT(40) DEF PostUp, Goto
    <3>2. CASE ~PostUp(r)
      BY <1>1, <1>2, <3>2 DEF StepOf, StartUp, UpRefused, PreUp, AddInterface, Configure, SetLinkUp,
           SetDNS, SkipRoute, AddRoute, AddTableRule, AddSuppressRule, UpFails, UndoRules,
           UndoLink, StartDown, DownRules, DownLink, UnsetDNS, PostDown, DownFails, Killed, Save
    <3> QED
      BY <3>1, <3>2
  <2>12. device' \in [Iface -> [mark : Number \cup {NoMark}, allowed : SUBSET Prefix]]
    <3>1. CASE Configure(r)
      <4>1. cfg[r] \in Conf
        BY <1>1, <3>1 DEF Configure, Goto
      <4>2. MarkOf(cfg[r]) \in Number \cup {NoMark}
        BY <4>1, ConfFacts
      <4>3. Range(cfg[r].routes) \in SUBSET Prefix
        BY <4>1 DEF Conf, Range
      <4>4. device' = [device EXCEPT ![OnOf[r]] =
                         [mark |-> MarkOf(cfg[r]), allowed |-> Range(cfg[r].routes)]]
        BY <3>1 DEF Configure, MarkOf
      <4> QED
        BY <1>1, <4>2, <4>3, <4>4
    <3>2. CASE ~Configure(r)
      BY <1>1, <1>2, <3>2 DEF StepOf, StartUp, UpRefused, PreUp, AddInterface, SetLinkUp,
           SetDNS, SkipRoute, AddRoute, AddTableRule, AddSuppressRule, PostUp, UpFails, UndoRules,
           UndoLink, StartDown, DownRules, DownLink, UnsetDNS, PostDown, DownFails, Killed, Save,
           DelLink, NoDevice, host
    <3> QED
      BY <3>1, <3>2
  <2>13. routes' \subseteq [dev : Iface, prefix : Prefix, table : Number \cup {Main}]
    <3>1. CASE SetLinkUp(r)
      <4>1. cfg[r].nets \subseteq Prefix
        BY <1>1, <3>1 DEF SetLinkUp, Goto, Conf
      <4> QED
        BY <1>1, <3>1, <4>1 DEF SetLinkUp, Route
    <3>2. CASE AddRoute(r)
      <4>1. RouteGoesTo(r) \in Number \cup {Main}
        BY <1>1, <3>2, ConfFacts DEF AddRoute, RouteGoesTo
      <4> QED
        BY <1>1, <2>9, <3>2, <4>1 DEF AddRoute, Route
    <3>3. CASE ~(SetLinkUp(r) \/ AddRoute(r))
      BY <1>1, <1>2, <3>3 DEF StepOf, StartUp, UpRefused, PreUp, AddInterface, Configure,
           SetDNS, SkipRoute, AddTableRule, AddSuppressRule, PostUp, UpFails, UndoRules,
           UndoLink, StartDown, DownRules, DownLink, UnsetDNS, PostDown, DownFails, Killed, Save,
           DelLink, host
    <3> QED
      BY <3>1, <3>2, <3>3
  <2>14. rules' \in [Family \X (Number \cup {Suppress}) -> Nat]
    <3>1. CASE AddTableRule(r)
      <4>1. FamilyOf[Head(todo[r])] \in Family /\ RouteTable(cfg[r]) \in Number
        BY <1>1, <2>6, <2>9, <3>1, ConfFacts DEF AddTableRule, Goto
      <4> QED
        BY <1>1, <3>1, <4>1, RuleAdded DEF AddTableRule
    <3>2. CASE AddSuppressRule(r)
      <4>1. FamilyOf[Head(todo[r])] \in Family
        BY <1>1, <2>6, <2>9, <3>2 DEF AddSuppressRule, Goto
      <4> QED
        BY <1>1, <3>2, <4>1, RuleAdded DEF AddSuppressRule
    <3>4. CASE UndoRules(r) \/ DownRules(r)
      <4>1. RouteTable(cfg[r]) \in Number
        BY <1>1, <3>4, ConfFacts DEF UndoRules, DownRules, Goto
      <4> QED
        BY <1>1, <3>4, <4>1, RulesDeleted DEF UndoRules, DownRules
    <3>3. CASE ~(AddTableRule(r) \/ AddSuppressRule(r) \/ UndoRules(r) \/ DownRules(r))
      BY <1>1, <1>2, <3>3 DEF StepOf, StartUp, UpRefused, PreUp, AddInterface, Configure, SetLinkUp,
           SetDNS, SkipRoute, AddRoute, PostUp, UpFails,
           UndoLink, StartDown, DownLink, UnsetDNS, PostDown, DownFails, Killed, Save, host
    <3> QED
      BY <3>1, <3>2, <3>3, <3>4
  <2> QED
    BY <2>2, <2>3, <2>4, <2>5, <2>7, <2>8, <2>10, <2>11, <2>12, <2>13, <2>14 DEF Typed
<1>3. ASSUME NEW d \in Iface, WgSet(d) PROVE Typed'
  <2>1. PICK p \in Prefix : device' = [device EXCEPT ![d].allowed =
                                          IF p \in @ THEN @ \ {p} ELSE @ \cup {p}]
    BY <1>3 DEF WgSet
  <2>2. device' \in [Iface -> [mark : Number \cup {NoMark}, allowed : SUBSET Prefix]]
    <3> DEFINE a == IF p \in device[d].allowed THEN device[d].allowed \ {p}
                                              ELSE device[d].allowed \cup {p}
               e == [device[d] EXCEPT !.allowed = a]
               R == [mark : Number \cup {NoMark}, allowed : SUBSET Prefix]
    <3>1. device' = [device EXCEPT ![d] = e]
      BY <2>1
    <3>2. device[d].allowed \in SUBSET Prefix /\ device[d] \in R
      BY <1>1
    <3>3. a \in SUBSET Prefix
      BY <3>2
    <3> HIDE DEF a
    <3>4. e \in R
      BY <3>2, <3>3
    <3> HIDE DEF e, R
    <3> QED
      BY <1>1, <3>1, <3>4 DEF R
  <2> QED
    BY <1>1, <1>3, <2>2 DEF WgSet, Typed
<1> QED
  BY <1>2, <1>3 DEF Next, StepOf

(* Routes are added to interfaces that exist and to tables that have no    *)
(* such route yet.                                                         *)
LEMMA HostedStep == ASSUME Typed, Hosted, Next PROVE Hosted'
<1>1. /\ \A r \in Run : OnOf[r] \in Iface
      /\ active \in [Iface -> Conf \cup {NoConf}]
      /\ Main \notin Number
  BY QuickTypes DEF Typed
<1>2. ASSUME NEW r \in Run, StepOf(r) PROVE Hosted'
  <2>1. Only(r)
    BY <1>2, StepsAreOwn
  <2>2. (\A d \in link' : \E s \in Run : OnOf[s] = d)
        /\ \A d \in Iface : active'[d] # NoConf => \E s \in Run : OnOf[s] = d
    <3>1. link' \subseteq link \cup {OnOf[r]}
      BY <1>2 DEF StepOf, StartUp, UpRefused, PreUp, AddInterface, Configure, SetLinkUp,
           SetDNS, SkipRoute, AddRoute, AddTableRule, AddSuppressRule, PostUp, UpFails, UndoRules,
           UndoLink, StartDown, DownRules, DownLink, UnsetDNS, PostDown, DownFails, Killed, Save,
           DelLink, host
    <3> QED
      BY <2>1, <3>1 DEF Hosted, Only
  <2>3. (\A x \in routes' : x.dev \in link')
        /\ \A x, y \in routes' :
             x.table \in Number /\ x.table = y.table /\ x.prefix = y.prefix => x = y
    <3>1. CASE SetLinkUp(r)
      BY <1>1, <3>1 DEF SetLinkUp, Hosted, Route
    <3>2. CASE AddRoute(r)
      BY <3>2 DEF AddRoute, CanAddRoute, Taken, Hosted, Route
    <3>3. CASE UndoLink(r) \/ DownLink(r)
      BY <3>3 DEF UndoLink, DownLink, DelLink, Hosted
    <3>4. CASE ~(SetLinkUp(r) \/ AddRoute(r) \/ UndoLink(r) \/ DownLink(r))
      <4>1. routes' = routes /\ link \subseteq link'
        BY <1>2, <3>4 DEF StepOf, StartUp, UpRefused, PreUp, AddInterface, Configure,
           SetDNS, SkipRoute, AddTableRule, AddSuppressRule, PostUp, UpFails, UndoRules,
           StartDown, DownRules, UnsetDNS, PostDown, DownFails, Killed, Save, host
      <4> QED
        BY <4>1 DEF Hosted
    <3> QED
      BY <3>1, <3>2, <3>3, <3>4
  <2> QED
    BY <2>2, <2>3 DEF Hosted
<1>3. ASSUME NEW d \in Iface, WgSet(d) PROVE Hosted'
  BY <1>3 DEF WgSet, Hosted
<1> QED
  BY <1>2, <1>3 DEF Next, StepOf

(* The first AllowedIP of a list, and the others.                          *)
LEMMA HeadAndTail ==
  ASSUME NEW S, NEW s \in Seq(S), s # <<>>
  PROVE  /\ Head(s) = s[1] /\ 1 \in DOMAIN s
         /\ \A i \in DOMAIN s : s[i] = Head(s) \/ \E j \in DOMAIN Tail(s) : Tail(s)[j] = s[i]
         /\ \A j \in DOMAIN Tail(s) : \E i \in DOMAIN s : Tail(s)[j] = s[i]
<1>1. /\ Len(s) \in Nat /\ DOMAIN s = 1..Len(s) /\ Len(s) > 0
      /\ Tail(s) \in Seq(S) /\ Len(Tail(s)) = Len(s) - 1
      /\ \A j \in 1..Len(Tail(s)) : Tail(s)[j] = s[j + 1]
      /\ DOMAIN Tail(s) = 1..Len(Tail(s))
  BY HeadTailProperties
<1>2. \A i \in 1..Len(s) : i = 1 \/ (i - 1 \in 1..Len(Tail(s)) /\ i = (i - 1) + 1)
  BY <1>1
<1>3. Head(s) = s[1]
  BY <1>1
<1> QED
  BY <1>1, <1>2, <1>3

(* Up goes through the AllowedIPs in order and gives each default route    *)
(* that it isolates its rules.                                             *)
LEMMA AheadStep ==
  ASSUME NEW r \in Run, Typed, Own(r), StepOf(r)
  PROVE  Ahead(r)'
<1>1. /\ pc \in [Run -> PCs]
      /\ todo \in [Run -> Seq(Prefix)] /\ added \in [Run -> SUBSET Family]
      /\ DOMAIN cfg = Run /\ OnOf[r] \in Iface /\ file[OnOf[r]] \in Conf
      /\ pc[r] # "idle" => cfg[r] = file[OnOf[r]]
      /\ pc[r] \in {"rule", "suppress"} => todo[r] # <<>>
      /\ Ahead(r)
  BY QuickTypes DEF Typed, Own
<1>2. ASSUME StartUp(r) PROVE Ahead(r)'
  BY <1>1, <1>2 DEF StartUp, Goto, Ahead
<1>3. ASSUME PreUp(r) \/ AddInterface(r) \/ Configure(r) \/ SetLinkUp(r) PROVE Ahead(r)'
  BY <1>1, <1>3 DEF PreUp, AddInterface, Configure, SetLinkUp, Goto, Ahead
<1>4. ASSUME SetDNS(r) PROVE Ahead(r)'
  <2>1. pc[r] = "dns" /\ pc'[r] = "routes" /\ UNCHANGED <<cfg, todo, added>>
    BY <1>1, <1>4 DEF SetDNS, Goto
  <2>2. todo[r] = cfg[r].routes /\ cfg[r] \in Conf
    BY <1>1, <2>1 DEF Ahead
  <2> QED
    BY <2>1, <2>2, ConfFacts DEF Ahead
<1>5. ASSUME SkipRoute(r) \/ AddRoute(r) \/ AddSuppressRule(r) PROVE Ahead(r)'
  <2>1. /\ pc[r] \in {"routes", "suppress"} /\ todo[r] # <<>> /\ cfg' = cfg
        /\ pc'[r] \in {"routes", "rule"} /\ added[r] \subseteq added'[r]
        /\ cfg[r] \in Conf
    BY <1>1, <1>5 DEF SkipRoute, AddRoute, AddSuppressRule, Goto
  <2>2. \/ todo'[r] = todo[r]
        \/ /\ todo'[r] = Tail(todo[r])
           /\ Head(todo[r]) \in Isolates(cfg[r]) => FamilyOf[Head(todo[r])] \in added'[r]
    <3>1. CASE SkipRoute(r)
      BY <1>1, <2>1, <3>1, ConfFacts DEF SkipRoute, Skipped, NextRoute, Isolates, Defaults
    <3>2. CASE AddRoute(r)
      BY <1>1, <2>1, <3>2, ConfFacts DEF AddRoute, NextRoute, Isolates, Defaults
    <3>3. CASE AddSuppressRule(r)
      BY <1>1, <3>3 DEF AddSuppressRule, NextRoute
    <3> QED
      BY <1>5, <3>1, <3>2, <3>3
  <2>3. CASE todo'[r] = todo[r]
    BY <1>1, <2>1, <2>3 DEF Ahead
  <2>4. CASE /\ todo'[r] = Tail(todo[r])
             /\ Head(todo[r]) \in Isolates(cfg[r]) => FamilyOf[Head(todo[r])] \in added'[r]
    <3>1. /\ \A i \in DOMAIN todo[r] : todo[r][i] = Head(todo[r])
                                       \/ \E j \in DOMAIN todo'[r] : todo'[r][j] = todo[r][i]
          /\ \A j \in DOMAIN todo'[r] : \E i \in DOMAIN todo[r] : todo'[r][j] = todo[r][i]
      BY <1>1, <2>1, <2>4, HeadAndTail
    <3>2. /\ \A p \in Isolates(cfg[r]) :
               FamilyOf[p] \in added[r] \/ \E i \in DOMAIN todo[r] : todo[r][i] = p
          /\ \A i \in DOMAIN todo[r] : \E j \in DOMAIN cfg[r].routes : todo[r][i] = cfg[r].routes[j]
      BY <1>1, <2>1 DEF Ahead
    <3>3. \A p \in Isolates(cfg[r]) :
            FamilyOf[p] \in added'[r] \/ \E i \in DOMAIN todo'[r] : todo'[r][i] = p
      BY <2>1, <2>4, <3>1, <3>2
    <3>4. \A i \in DOMAIN todo'[r] : \E j \in DOMAIN cfg[r].routes : todo'[r][i] = cfg[r].routes[j]
      BY <3>1, <3>2
    <3> QED
      BY <2>1, <3>3, <3>4 DEF Ahead
  <2> QED
    BY <2>2, <2>3, <2>4
<1>6. ASSUME AddTableRule(r) PROVE Ahead(r)'
  BY <1>1, <1>6 DEF AddTableRule, Goto, Ahead
<1>7. ASSUME \/ UpRefused(r) \/ PostUp(r) \/ UpFails(r) \/ UndoRules(r) \/ UndoLink(r) \/ StartDown(r)
             \/ DownRules(r) \/ DownLink(r) \/ UnsetDNS(r) \/ PostDown(r) \/ DownFails(r)
             \/ Killed(r) \/ Save(r)
      PROVE  Ahead(r)'
  <2>1. pc'[r] \in {"idle", "undo", "unlink", "predown", "del", "undns", "postdown"}
    BY <1>1, <1>7 DEF UpRefused, PostUp, UpFails, UndoRules, UndoLink, StartDown, DownRules,
         DownLink, UnsetDNS, PostDown, DownFails, Killed, Save, Goto
  <2> QED
    BY <2>1 DEF Ahead
<1> QED
  BY <1>2, <1>3, <1>4, <1>5, <1>6, <1>7 DEF StepOf

(* Up has the route of each default route that it has added rules for.     *)
LEMMA DoneStep ==
  ASSUME NEW r \in Run, Typed, Hosted, Own(r), StepOf(r)
  PROVE  Done(r)'
<1>1. /\ pc \in [Run -> PCs] /\ file \in [Iface -> Conf]
      /\ todo \in [Run -> Seq(Prefix)] /\ added \in [Run -> SUBSET Family]
      /\ DOMAIN cfg = Run /\ OnOf[r] \in Iface /\ file[OnOf[r]] \in Conf
      /\ pc[r] # "idle" => cfg[r] = file[OnOf[r]]
      /\ pc[r] \in {"rule", "suppress"} => todo[r] # <<>>
      /\ Ahead(r) /\ Done(r)
      /\ Main \notin Number
  BY QuickTypes DEF Typed, Own
<1>2. ASSUME AddInterface(r) PROVE Done(r)'
  BY <1>1, <1>2 DEF AddInterface, Goto, Hosted, Done
<1>3. ASSUME Configure(r) PROVE Done(r)'
  BY <1>1, <1>3 DEF Configure, Goto, Done
<1>4. ASSUME SetLinkUp(r) PROVE Done(r)'
  BY <1>1, <1>4 DEF SetLinkUp, Goto, Done, Route
<1>5. ASSUME SetDNS(r) PROVE Done(r)'
  BY <1>1, <1>5 DEF SetDNS, Goto, Ahead, Done
<1>6. ASSUME SkipRoute(r) \/ AddTableRule(r) PROVE Done(r)'
  <2>1. /\ UNCHANGED <<cfg, file, added, routes>>
        /\ pc[r] \in {"routes", "rule"} /\ pc'[r] \in {"routes", "suppress"}
        /\ pc'[r] = "suppress" => todo'[r] = todo[r] /\ pc[r] = "rule"
    BY <1>1, <1>6 DEF SkipRoute, AddTableRule, Goto, host
  <2> QED
    BY <1>1, <2>1 DEF Done, Routed
<1>7. ASSUME AddRoute(r) PROVE Done(r)'
  <2>1. /\ pc[r] = "routes" /\ pc'[r] \in {"routes", "rule"} /\ todo[r] # <<>>
        /\ UNCHANGED <<cfg, file, added>> /\ cfg[r] = file[OnOf[r]]
        /\ routes \subseteq routes'
    BY <1>1, <1>7 DEF AddRoute
  <2>2. \A f \in added[r] : Routed(OnOf[r], f)'
    BY <1>1, <2>1 DEF Done, Routed
  <2>3. ASSUME pc'[r] = "rule"
        PROVE  /\ Head(todo'[r]) \in Isolates(cfg[r])
               /\ FamilyOf[Head(todo[r])] \notin added[r]
               /\ Route(OnOf[r], Head(todo[r]), RouteTable(cfg[r])) \in routes'
               /\ todo'[r] = todo[r]
    <3>1. /\ RouteMode(cfg[r]) = "auto" /\ Head(todo[r]) \in Default /\ todo' = todo
          /\ RouteGoesTo(r) = RouteTable(cfg[r])
          /\ Route(OnOf[r], Head(todo[r]), RouteTable(cfg[r])) \in routes'
          /\ ~Taken(Head(todo[r]), RouteTable(cfg[r]))
      BY <1>1, <1>7, <2>1, <2>3 DEF AddRoute, CanAddRoute, RouteGoesTo
    <3>2. Head(todo[r]) \in Isolates(cfg[r])
      <4>1. Head(todo[r]) = todo[r][1] /\ 1 \in DOMAIN todo[r]
        BY <1>1, <2>1, HeadAndTail
      <4>2. \E j \in DOMAIN cfg[r].routes : Head(todo[r]) = cfg[r].routes[j]
        BY <1>1, <2>1, <4>1 DEF Ahead
      <4> QED
        BY <3>1, <4>2 DEF Isolates, Defaults
    <3>3. FamilyOf[Head(todo[r])] \notin added[r]
      <4> SUFFICES ASSUME FamilyOf[Head(todo[r])] \in added[r] PROVE FALSE
        OBVIOUS
      <4>1. PICK p \in Isolates(cfg[r]) : /\ FamilyOf[p] = FamilyOf[Head(todo[r])]
                                          /\ Route(OnOf[r], p, RouteTable(cfg[r])) \in routes
        BY <1>1, <2>1 DEF Done, Routed
      <4>2. p = Head(todo[r])
        <5>1. Isolates(cfg[r]) \subseteq Default
          BY <1>1, <2>1, ConfFacts
        <5> QED
          BY <3>1, <4>1, <5>1, QuickTypes
      <4> QED
        BY <3>1, <4>1, <4>2 DEF Taken, Route
    <3> QED
      BY <3>1, <3>2, <3>3
  <2> QED
    BY <1>1, <2>1, <2>2, <2>3 DEF Done
<1>8. ASSUME AddSuppressRule(r) PROVE Done(r)'
  <2>1. /\ pc[r] = "suppress" /\ pc'[r] = "routes" /\ UNCHANGED <<cfg, file, routes>>
        /\ added'[r] = added[r] \cup {FamilyOf[Head(todo[r])]}
        /\ cfg[r] = file[OnOf[r]]
    BY <1>1, <1>8 DEF AddSuppressRule, Goto
  <2>2. Routed(OnOf[r], FamilyOf[Head(todo[r])])
    BY <1>1, <2>1 DEF Done, Routed
  <2>3. \A f \in added[r] : Routed(OnOf[r], f)
    BY <1>1, <2>1 DEF Done
  <2>4. \A f : Routed(OnOf[r], f)' <=> Routed(OnOf[r], f)
    BY <2>1 DEF Routed
  <2> QED
    BY <2>1, <2>2, <2>3, <2>4 DEF Done
<1>9. ASSUME UpFails(r) PROVE Done(r)'
  <2>1. /\ UNCHANGED <<cfg, file, added, routes>>
        /\ pc[r] \in {"configure", "address", "routes", "rule", "suppress"} /\ pc'[r] = "undo"
    BY <1>1, <1>9 DEF UpFails, Goto, host
  <2> QED
    BY <1>1, <2>1 DEF Done, Ahead, Routed
<1>10. ASSUME \/ StartUp(r) \/ PreUp(r) \/ UpRefused(r) \/ PostUp(r) \/ UndoRules(r) \/ UndoLink(r)
              \/ StartDown(r) \/ DownRules(r) \/ DownLink(r) \/ UnsetDNS(r) \/ PostDown(r)
              \/ DownFails(r) \/ Killed(r) \/ Save(r)
       PROVE  Done(r)'
  <2>1. pc'[r] \in {"idle", "preup", "add", "unlink", "predown", "del", "undns", "postdown"}
    BY <1>1, <1>10 DEF StartUp, PreUp, UpRefused, PostUp, UndoRules, UndoLink, StartDown, DownRules,
         DownLink, UnsetDNS, PostDown, DownFails, Killed, Save, Goto
  <2> QED
    BY <2>1 DEF Done
<1> QED
  BY <1>2, <1>3, <1>4, <1>5, <1>6, <1>7, <1>8, <1>9, <1>10 DEF StepOf

(* ConfigureDevice gives the device what the file says, and Save writes    *)
(* what the device has.                                                    *)
LEMMA SetUpStep ==
  ASSUME NEW r \in Run, Steady, Typed, Hosted, Own(r), StepOf(r)
  PROVE  SetUp(r)'
<1>1. /\ pc \in [Run -> PCs] /\ file \in [Iface -> Conf]
      /\ device \in [Iface -> [mark : Number \cup {NoMark}, allowed : SUBSET Prefix]]
      /\ OnOf[r] \in Iface /\ file[OnOf[r]] \in Conf
      /\ pc[r] # "idle" => cfg[r] = file[OnOf[r]]
      /\ SetUp(r)
      /\ Main \notin Number
      /\ may' = may
  BY StepsAreOwn, QuickTypes DEF Typed, Own, Only
<1>2. ASSUME AddInterface(r) PROVE SetUp(r)'
  <2>1. /\ OnOf[r] \notin link /\ UNCHANGED <<device, routes, file>>
        /\ pc'[r] = "configure" /\ link' = link \cup {OnOf[r]}
    BY <1>1, <1>2 DEF AddInterface, Goto
  <2>2. device'[OnOf[r]] = NoDevice /\ \A x \in routes' : x.dev # OnOf[r]
    BY <1>1, <2>1 DEF SetUp, Hosted
  <2>3. Bare(OnOf[r])'
    BY <2>2 DEF Bare, NoDevice
  <2> QED
    BY <2>1, <2>3 DEF SetUp
<1>3. ASSUME Configure(r) PROVE SetUp(r)'
  <2>1. /\ device'[OnOf[r]] = [mark |-> MarkOf(cfg[r]), allowed |-> Range(cfg[r].routes)]
        /\ UNCHANGED <<link, file>> /\ OnOf[r] \in link
        /\ cfg[r] = file[OnOf[r]]
    BY <1>1, <1>3 DEF Configure, Goto, MarkOf
  <2>2. AsConfigured(OnOf[r])'
    BY <2>1 DEF AsConfigured
  <2> QED
    BY <2>1, <2>2 DEF SetUp
<1>4. ASSUME SetLinkUp(r) \/ AddRoute(r) PROVE SetUp(r)'
  <2>1. /\ UNCHANGED <<link, file, device, may>> /\ pc[r] \in {"address", "routes"}
        /\ OnOf[r] \in link
    BY <1>4 DEF SetLinkUp, AddRoute, Goto, CanAddRoute
  <2>2. AsConfigured(OnOf[r])'
    BY <1>1, <2>1 DEF SetUp, AsConfigured
  <2> QED
    BY <2>1, <2>2 DEF SetUp
<1>5. ASSUME UndoLink(r) \/ DownLink(r) PROVE SetUp(r)'
  <2>1. /\ device'[OnOf[r]] = NoDevice /\ OnOf[r] \notin link'
        /\ pc'[r] \in {"idle", "undns"}
    BY <1>1, <1>5 DEF UndoLink, DownLink, DelLink, Goto
  <2> QED
    BY <2>1 DEF SetUp
<1>6. ASSUME Save(r) PROVE SetUp(r)'
  <2>1. /\ pc'[r] = "idle" /\ UNCHANGED <<link, device, routes>> /\ OnOf[r] \in link
        /\ file'[OnOf[r]] = Saved(file[OnOf[r]], device[OnOf[r]])
        /\ "set" \notin may
    BY <1>1, <1>6 DEF Save, Goto, host, Steady
  <2>2. CASE Bare(OnOf[r])
    <3>1. Bare(OnOf[r])'
      BY <1>1, <2>1, <2>2 DEF Bare
    <3> QED
      BY <2>1, <3>1 DEF SetUp
  <2>3. CASE AsConfigured(OnOf[r])
    <3>1. device[OnOf[r]].mark = MarkOf(file[OnOf[r]])
          /\ device[OnOf[r]].allowed = Range(file[OnOf[r]].routes)
      BY <2>1, <2>3 DEF AsConfigured
    <3>2. AsConfigured(OnOf[r])'
      BY <1>1, <2>1, <3>1, SavedSame, SMTT(30) DEF AsConfigured
    <3> QED
      BY <2>1, <3>2 DEF SetUp
  <2> QED
    BY <1>1, <2>1, <2>2, <2>3 DEF SetUp
<1>7. ASSUME ~(\/ AddInterface(r) \/ Configure(r) \/ SetLinkUp(r) \/ AddRoute(r) \/ UndoLink(r)
               \/ DownLink(r) \/ Save(r))
      PROVE  SetUp(r)'
  <2>1. /\ UNCHANGED <<link, device, file, routes>>
        /\ pc'[r] \in {"address", "dns", "routes", "rule", "suppress"} =>
             pc[r] \in {"address", "dns", "routes", "rule", "suppress"}
    BY <1>1, <1>7 DEF StepOf, StartUp, UpRefused, PreUp, SetDNS, SkipRoute, AddTableRule,
         AddSuppressRule, PostUp, UpFails, UndoRules, StartDown, DownRules, UnsetDNS, PostDown,
         DownFails, Killed, host, Goto
  <2>2. /\ AsConfigured(OnOf[r])' <=> AsConfigured(OnOf[r])
        /\ Bare(OnOf[r])' <=> Bare(OnOf[r])
    BY <1>1, <2>1 DEF AsConfigured, Bare
  <2> QED
    BY <1>1, <2>1, <2>2 DEF SetUp
<1> QED
  BY <1>2, <1>3, <1>4, <1>5, <1>6, <1>7

(* What a run leaves alone is as it was.                                   *)
LEMMA OthersKept ==
  ASSUME OwnInterfaces, NEW r \in Run, NEW s \in Run \ {r}, Only(r)
  PROVE  /\ pc'[s] = pc[s] /\ cfg'[s] = cfg[s] /\ todo'[s] = todo[s] /\ added'[s] = added[s]
         /\ file'[OnOf[s]] = file[OnOf[s]] /\ device'[OnOf[s]] = device[OnOf[s]]
         /\ active'[OnOf[s]] = active[OnOf[s]]
         /\ (OnOf[s] \in link' <=> OnOf[s] \in link)
         /\ \A x : x.dev = OnOf[s] => (x \in routes' <=> x \in routes)
         /\ \A f : Routed(OnOf[s], f)' <=> Routed(OnOf[s], f)
         /\ AsConfigured(OnOf[s])' <=> AsConfigured(OnOf[s])
         /\ Own(s) => Own(s)'
<1>1. OnOf[s] # OnOf[r] /\ OnOf[s] \in Iface
  BY QuickTypes DEF OwnInterfaces
<1>2. /\ pc'[s] = pc[s] /\ cfg'[s] = cfg[s] /\ todo'[s] = todo[s] /\ added'[s] = added[s]
      /\ file'[OnOf[s]] = file[OnOf[s]] /\ device'[OnOf[s]] = device[OnOf[s]]
      /\ active'[OnOf[s]] = active[OnOf[s]]
      /\ (OnOf[s] \in link' <=> OnOf[s] \in link)
      /\ \A x : x.dev = OnOf[s] => (x \in routes' <=> x \in routes)
      /\ may' = may
  <2>1. OnOf[s] \in Iface \ {OnOf[r]}
    BY <1>1
  <2>2. \A x : x.dev = OnOf[s] => (x \in routes' <=> x \in routes)
    BY <1>1 DEF Only
  <2> QED
    BY <2>1, <2>2 DEF Only
<1>3. \A p, n : Route(OnOf[s], p, n) \in routes' <=> Route(OnOf[s], p, n) \in routes
  BY <1>2 DEF Route
<1>4. \A f : Routed(OnOf[s], f)' <=> Routed(OnOf[s], f)
  BY <1>2, <1>3 DEF Routed
<1>5. /\ AsConfigured(OnOf[s])' <=> AsConfigured(OnOf[s])
      /\ Bare(OnOf[s])' <=> Bare(OnOf[s])
  BY <1>2 DEF AsConfigured, Bare
<1>6. ASSUME Own(s) PROVE Own(s)'
  <2>1. Ahead(s) /\ Done(s) /\ SetUp(s)
    BY <1>6 DEF Own
  <2>2. Ahead(s)'
    BY <1>2, <2>1 DEF Ahead
  <2>3. Done(s)'
    BY <1>2, <1>3, <1>4, <2>1 DEF Done
  <2>4. SetUp(s)'
    BY <1>2, <1>5, <2>1 DEF SetUp
  <2> QED
    BY <2>2, <2>3, <2>4 DEF Own
<1> QED
  BY <1>2, <1>4, <1>5, <1>6

(* `wg set` changes only AllowedIPs.                                       *)
LEMMA WgSetKeeps ==
  ASSUME NEW d \in Iface, WgSet(d), Typed
  PROVE  /\ "set" \in may
         /\ UNCHANGED <<link, routes, rules, file, pc, cfg, todo, added, active, may>>
         /\ \A e \in Iface : device'[e].mark = device[e].mark
         /\ \A e \in Iface \ link : device'[e] = device[e]
<1>1. /\ "set" \in may /\ d \in link
      /\ UNCHANGED <<link, routes, rules, file, pc, cfg, todo, added, active, may>>
      /\ \E p \in Prefix :
           device' = [device EXCEPT ![d].allowed = IF p \in @ THEN @ \ {p} ELSE @ \cup {p}]
  BY DEF WgSet
<1>2. device \in [Iface -> [mark : Number \cup {NoMark}, allowed : SUBSET Prefix]]
  BY DEF Typed
<1> QED
  BY <1>1, <1>2

(* Before the first run there is nothing.                                  *)
LEMMA KeptInit == Init => Kept
<1> SUFFICES ASSUME Init PROVE Typed /\ Hosted /\ \A r \in Run : Own(r)
  BY DEF Kept
<1>1. Typed
  BY QuickTypes DEF Init, Typed, PCs, NoDevice
<1>2. Hosted
  BY DEF Init, Hosted
<1>3. \A r \in Run : Own(r)
  BY QuickTypes DEF Init, Own, Ahead, Done, SetUp
<1> QED
  BY <1>1, <1>2, <1>3

(* Every step keeps routes, files and devices in agreement.                *)
LEMMA KeptStep == ASSUME OwnInterfaces PROVE Kept /\ [Next]_vars => Kept'
<1> SUFFICES ASSUME Kept, [Next]_vars, Steady' PROVE Typed' /\ Hosted' /\ \A r \in Run : Own(r)'
  BY DEF Kept
<1>1. CASE UNCHANGED vars
  <2>1. UNCHANGED <<link, device, routes, rules, file, pc, cfg, todo, added, active, may>>
    BY <1>1 DEF vars
  <2>2. Typed /\ Hosted /\ \A r \in Run : Own(r)
    BY <2>1 DEF Steady, Kept
  <2>3. Typed' /\ Hosted'
    BY <2>1, <2>2 DEF Typed, Hosted
  <2>4. \A r \in Run : Own(r)'
    BY <2>1, <2>2 DEF Own, Ahead, Done, SetUp, Routed, AsConfigured, Bare
  <2> QED
    BY <2>3, <2>4
<1>2. CASE Next
  <2>1. may' = may
    BY <1>2 DEF Next, StartUp, UpRefused, PreUp, AddInterface, Configure, SetLinkUp,
           SetDNS, SkipRoute, AddRoute, AddTableRule, AddSuppressRule, PostUp, UpFails, UndoRules,
           UndoLink, StartDown, DownRules, DownLink, UnsetDNS, PostDown, DownFails, Killed, Save,
           WgSet
  <2>2. Steady /\ Typed /\ Hosted /\ \A r \in Run : Own(r)
    BY <2>1 DEF Steady, Kept
  <2>3. Typed' /\ Hosted'
    BY <1>2, <2>2, TypedStep, HostedStep
  <2>4. ASSUME NEW r \in Run, StepOf(r) PROVE \A s \in Run : Own(s)'
    <3>1. Only(r)
      BY <2>2, <2>4, StepsAreOwn
    <3>2. Own(r)'
      BY <2>2, <2>4, AheadStep, DoneStep, SetUpStep DEF Own
    <3> QED
      BY <2>2, <3>1, <3>2, OthersKept
  <2>5. ASSUME NEW d \in Iface, WgSet(d) PROVE \A s \in Run : Own(s)'
    <3> SUFFICES ASSUME NEW s \in Run PROVE Own(s)'
      OBVIOUS
    <3>1. OnOf[s] \in Iface
      BY QuickTypes
    <3>2. /\ "set" \in may
          /\ UNCHANGED <<link, routes, rules, file, pc, cfg, todo, added, active, may>>
          /\ \A e \in Iface : device'[e].mark = device[e].mark
          /\ \A e \in Iface \ link : device'[e] = device[e]
      BY <2>2, <2>5, WgSetKeeps
    <3>3. Ahead(s) /\ Done(s) /\ SetUp(s)
      BY <2>2 DEF Own
    <3>4. Ahead(s)' /\ Done(s)'
      BY <3>2, <3>3 DEF Ahead, Done, Routed
    <3>5. /\ AsConfigured(OnOf[s])' <=> AsConfigured(OnOf[s])
          /\ Bare(OnOf[s])' <=> Bare(OnOf[s])
      BY <3>1, <3>2 DEF AsConfigured, Bare
    <3>6. SetUp(s)'
      BY <3>1, <3>2, <3>3, <3>5 DEF SetUp
    <3> QED
      BY <3>4, <3>6 DEF Own
  <2> QED
    BY <1>2, <2>3, <2>4, <2>5 DEF Next, StepOf
<1> QED
  BY <1>1, <1>2
-----------------------------------------------------------------------------
(* Two interfaces have no default route of one family in one table.        *)
LEMMA OneOwner ==
  ASSUME Typed, Hosted, NEW d \in Iface, NEW e \in Iface, NEW f, Routed(d, f), Routed(e, f),
         RouteTable(file[d]) = RouteTable(file[e])
  PROVE  d = e
<1>1. file[d] \in Conf /\ file[e] \in Conf
  BY DEF Typed
<1>2. PICK p \in Isolates(file[d]) : FamilyOf[p] = f /\ Route(d, p, RouteTable(file[d])) \in routes
  BY DEF Routed
<1>3. PICK q \in Isolates(file[e]) : FamilyOf[q] = f /\ Route(e, q, RouteTable(file[e])) \in routes
  BY DEF Routed
<1>4. p = q /\ RouteTable(file[d]) \in Number
  <2>1. p \in Default /\ q \in Default /\ RouteTable(file[d]) \in Number
    BY <1>1, ConfFacts
  <2> QED
    BY <1>2, <1>3, <2>1, QuickTypes
<1> DEFINE x == Route(d, p, RouteTable(file[d]))
           y == Route(e, q, RouteTable(file[e]))
<1>5. /\ x.dev = d /\ x.prefix = p /\ x.table = RouteTable(file[d])
      /\ y.dev = e /\ y.prefix = q /\ y.table = RouteTable(file[e])
  BY DEF Route
<1> HIDE DEF x, y
<1>6. x \in routes /\ y \in routes
  BY <1>2, <1>3 DEF x, y
<1>7. x = y
  BY <1>4, <1>5, <1>6 DEF Hosted
<1> QED
  BY <1>5, <1>7

(* A device that has nothing yet has no default route in a table.          *)
LEMMA BareHasNoRoute ==
  ASSUME Typed, NEW d \in Iface, Bare(d), NEW f
  PROVE  ~Routed(d, f)
<1>1. file[d] \in Conf
  BY DEF Typed
<1>2. RouteTable(file[d]) \in Number
  BY <1>1, ConfFacts
<1>3. \A p : Route(d, p, RouteTable(file[d])).dev = d
             /\ Route(d, p, RouteTable(file[d])).table = RouteTable(file[d])
  BY DEF Route
<1> QED
  BY <1>2, <1>3 DEF Bare, Routed

(* Save does not take a route away from its table.                         *)
LEMMA SaveKeepsRoutes ==
  ASSUME Steady, Typed, Hosted, NEW r \in Run, Own(r), Save(r)
  PROVE  /\ AsConfigured(OnOf[r]) =>
              /\ Isolates(file'[OnOf[r]]) = Isolates(file[OnOf[r]])
              /\ RouteTable(file'[OnOf[r]]) = RouteTable(file[OnOf[r]])
              /\ \A f : Routed(OnOf[r], f) <=> Routed(OnOf[r], f)'
              /\ AsConfigured(OnOf[r])'
         /\ \A f : Routed(OnOf[r], f) => AsConfigured(OnOf[r])
<1>1. /\ file \in [Iface -> Conf]
      /\ device \in [Iface -> [mark : Number \cup {NoMark}, allowed : SUBSET Prefix]]
      /\ OnOf[r] \in Iface
  BY QuickTypes DEF Typed
<1>2. /\ UNCHANGED routes /\ OnOf[r] \in link /\ "set" \notin may
      /\ file'[OnOf[r]] = Saved(file[OnOf[r]], device[OnOf[r]])
  BY <1>1 DEF Save, host, Steady
<1>3. ASSUME AsConfigured(OnOf[r])
      PROVE  /\ Isolates(file'[OnOf[r]]) = Isolates(file[OnOf[r]])
             /\ RouteTable(file'[OnOf[r]]) = RouteTable(file[OnOf[r]])
             /\ AsConfigured(OnOf[r])'
  <2>1. device[OnOf[r]].mark = MarkOf(file[OnOf[r]])
        /\ device[OnOf[r]].allowed = Range(file[OnOf[r]].routes)
    BY <1>2, <1>3 DEF AsConfigured
  <2>2. device' = device /\ file[OnOf[r]] \in Conf
    BY <1>1 DEF Save, host
  <2> QED
    BY <1>1, <1>2, <2>1, <2>2, SavedSame DEF AsConfigured
<1>4. AsConfigured(OnOf[r]) => \A f : Routed(OnOf[r], f) <=> Routed(OnOf[r], f)'
  BY <1>2, <1>3 DEF Routed
<1>5. AsConfigured(OnOf[r]) \/ Bare(OnOf[r])
  BY <1>2 DEF Own, SetUp
<1> QED
  BY <1>1, <1>3, <1>4, <1>5, BareHasNoRoute

(* A step that adds no rule for a table keeps each rule with its route if  *)
(* its own rules that stay are still secured.                              *)
LEMMA StillSecured ==
  ASSUME OwnInterfaces, Typed, RulesSecured, NEW r \in Run, Only(r),
         rules' \in [Family \X (Number \cup {Suppress}) -> Nat],
         \A f \in Family, n \in Number :
           /\ rules'[<<f, n>>] <= rules[<<f, n>>]
           /\ rules'[<<f, n>>] > 0 /\ Secured(r, f, n) => Secured(r, f, n)'
  PROVE  RulesSecured'
<1> SUFFICES ASSUME NEW f \in Family, NEW n \in Number
             PROVE  /\ rules'[<<f, n>>] <= 1
                    /\ rules'[<<f, n>>] > 0 => \E s \in Run : Secured(s, f, n)'
  BY DEF RulesSecured
<1>1. rules[<<f, n>>] \in Nat /\ rules'[<<f, n>>] \in Nat
      /\ rules'[<<f, n>>] <= rules[<<f, n>>] /\ rules[<<f, n>>] <= 1
  BY DEF Typed, RulesSecured
<1>2. ASSUME rules'[<<f, n>>] > 0 PROVE \E s \in Run : Secured(s, f, n)'
  <2>1. PICK s \in Run : Secured(s, f, n)
    BY <1>1, <1>2 DEF RulesSecured
  <2>2. CASE s = r
    BY <1>2, <2>1, <2>2
  <2>3. CASE s # r
    <3>1. /\ pc'[s] = pc[s] /\ todo'[s] = todo[s] /\ added'[s] = added[s]
          /\ file'[OnOf[s]] = file[OnOf[s]]
      BY <2>3, OthersKept
    <3>2. Routed(OnOf[s], f)' <=> Routed(OnOf[s], f)
      BY <2>3, OthersKept
    <3>3. Secured(s, f, n)'
      BY <2>1, <3>1, <3>2 DEF Secured
    <3> QED
      BY <3>3
  <2> QED
    BY <2>2, <2>3
<1> QED
  BY <1>1, <1>2

(* Who moves on without changing rules for tables keeps its own secured.   *)
LEMMA SecuredStep ==
  ASSUME Steady, "rule" \notin may, Typed, Hosted, NEW r \in Run, Own(r), StepOf(r),
         ~(AddTableRule(r) \/ UndoRules(r) \/ DownRules(r)),
         NEW f, NEW n \in Number, Secured(r, f, n)
  PROVE  Secured(r, f, n)'
<1>1. /\ pc \in [Run -> PCs] /\ OnOf[r] \in Iface /\ added \in [Run -> SUBSET Family]
      /\ n = RouteTable(file[OnOf[r]]) /\ Routed(OnOf[r], f)
      /\ pc[r] \in {"routes", "rule", "suppress", "undo"} =>
           f \in added[r] \/ (pc[r] = "suppress" /\ f = FamilyOf[Head(todo[r])])
      /\ pc[r] \notin {"configure", "address", "dns", "unlink", "del"}
  BY QuickTypes DEF Typed, Secured
<1>2. OnOf[r] \in link
  BY <1>1 DEF Routed, Hosted, Route
<1>3. ASSUME SkipRoute(r) \/ AddRoute(r) \/ AddSuppressRule(r) PROVE Secured(r, f, n)'
  <2>1. /\ file' = file /\ routes \subseteq routes' /\ pc'[r] \in {"routes", "rule"}
        /\ \/ pc[r] = "routes" /\ added' = added
           \/ pc[r] = "suppress" /\ added'[r] = added[r] \cup {FamilyOf[Head(todo[r])]}
    BY <1>1, <1>3 DEF SkipRoute, AddRoute, AddSuppressRule, Goto, host
  <2> QED
    BY <1>1, <2>1 DEF Secured, Routed
<1>4. ASSUME Save(r) PROVE Secured(r, f, n)'
  <2>1. pc'[r] = "idle"
    BY <1>1, <1>4 DEF Save, Goto
  <2>2. RouteTable(file'[OnOf[r]]) = n /\ Routed(OnOf[r], f)'
    BY <1>1, <1>4, SaveKeepsRoutes
  <2> QED
    BY <2>1, <2>2 DEF Secured
<1>5. ASSUME \/ StartUp(r) \/ UpRefused(r) \/ PreUp(r) \/ PostUp(r) \/ UpFails(r) \/ StartDown(r)
             \/ UnsetDNS(r) \/ PostDown(r) \/ DownFails(r) \/ Killed(r)
      PROVE  Secured(r, f, n)'
  <2>1. /\ UNCHANGED <<file, routes>>
        /\ \/ pc'[r] \in {"idle", "preup", "add", "predown", "postdown"}
           \/ pc[r] = "routes" /\ pc'[r] = "undo" /\ added' = added
    BY <1>1, <1>5 DEF StartUp, UpRefused, PreUp, PostUp, UpFails, StartDown, UnsetDNS, PostDown,
         DownFails, Killed, Goto, host
  <2> QED
    BY <1>1, <2>1 DEF Secured, Routed
<1>6. ASSUME AddInterface(r) \/ Configure(r) \/ SetLinkUp(r) \/ SetDNS(r) \/ UndoLink(r) \/ DownLink(r)
      PROVE  FALSE
  BY <1>1, <1>2, <1>6 DEF AddInterface, Configure, SetLinkUp, SetDNS, UndoLink, DownLink, Goto
<1> QED
  BY <1>3, <1>4, <1>5, <1>6 DEF StepOf

(* Every step keeps the rules for tables with their routes.                *)
LEMMA RulesStep ==
  ASSUME OwnInterfaces, Steady, "rule" \notin may, Typed, Typed', Hosted, NEW r \in Run, Own(r),
         RulesSecured, StepOf(r)
  PROVE  RulesSecured'
<1>1. /\ pc \in [Run -> PCs] /\ OnOf[r] \in Iface /\ file \in [Iface -> Conf]
      /\ rules \in [Family \X (Number \cup {Suppress}) -> Nat]
      /\ rules' \in [Family \X (Number \cup {Suppress}) -> Nat]
      /\ todo \in [Run -> Seq(Prefix)] /\ Suppress \notin Number
      /\ pc[r] # "idle" => cfg[r] = file[OnOf[r]]
      /\ pc[r] \in {"rule", "suppress"} => todo[r] # <<>>
  BY QuickTypes DEF Typed
<1>2. Only(r)
  BY StepsAreOwn
<1>3. pc[r] \in {"rule", "suppress"} => FamilyOf[Head(todo[r])] \in Family
  BY <1>1 DEF Family
<1>4. ASSUME ~(\/ AddTableRule(r) \/ UndoRules(r) \/ DownRules(r) \/ AddSuppressRule(r))
      PROVE  RulesSecured'
  <2>1. rules' = rules
    BY <1>4 DEF StepOf, StartUp, UpRefused, PreUp, AddInterface, Configure, SetLinkUp,
           SetDNS, SkipRoute, AddRoute, PostUp, UpFails,
           UndoLink, StartDown, DownLink, UnsetDNS, PostDown, DownFails, Killed, Save, DelLink, host
  <2>2. \A f \in Family, n \in Number : rules[<<f, n>>] <= rules[<<f, n>>]
    <3> SUFFICES ASSUME NEW f \in Family, NEW n \in Number PROVE rules[<<f, n>>] <= rules[<<f, n>>]
      OBVIOUS
    <3>1. rules[<<f, n>>] \in Nat
      BY <1>1
    <3> QED
      BY <3>1
  <2> QED
    BY <1>1, <1>2, <1>4, <2>1, <2>2, SecuredStep, StillSecured
<1>5. ASSUME AddSuppressRule(r) PROVE RulesSecured'
  <2>1. PICK f0 \in Family : AddRule(f0, Suppress)
    BY <1>1, <1>3, <1>5 DEF AddSuppressRule, Goto
  <2>2. ASSUME NEW f \in Family, NEW n \in Number PROVE rules'[<<f, n>>] <= rules[<<f, n>>]
    <3>1. rules'[<<f, n>>] = rules[<<f, n>>]
      <4>1. /\ rules \in [Family \X (Number \cup {Suppress}) -> Nat]
            /\ n # Suppress /\ Suppress \in Number \cup {Suppress} /\ n \in Number \cup {Suppress}
        BY <1>1
      <4>2. \A g \in Family, j \in Number \cup {Suppress} :
              g # f0 \/ j # Suppress => rules'[<<g, j>>] = rules[<<g, j>>]
        BY <2>1, <4>1, RuleAdded
      <4> QED
        BY <4>1, <4>2
    <3>2. rules[<<f, n>>] \in Nat
      BY <1>1
    <3> QED
      BY <3>1, <3>2
  <2>3. ~(AddTableRule(r) \/ UndoRules(r) \/ DownRules(r))
    BY <1>5 DEF AddSuppressRule, AddTableRule, UndoRules, DownRules, Goto
  <2> QED
    BY <1>1, <1>2, <2>2, <2>3, SecuredStep, StillSecured
<1>6. ASSUME UndoRules(r) \/ DownRules(r) PROVE RulesSecured'
  <2>1. PICK F : /\ DelRules(F, RouteTable(cfg[r]))
                 /\ \/ pc[r] = "undo" /\ F = added[r]
                    \/ pc[r] = "predown" /\ F = Families(cfg[r])
    BY <1>6 DEF UndoRules, DownRules, Goto, Families
  <2>2. cfg[r] = file[OnOf[r]] /\ RouteTable(cfg[r]) \in Number
    BY <1>1, <2>1, ConfFacts
  <2>3. \A f \in Family, k \in Number \cup {Suppress} :
          rules'[<<f, k>>] = IF f \in F /\ k \in {RouteTable(cfg[r]), Suppress} /\ rules[<<f, k>>] > 0
                               THEN rules[<<f, k>>] - 1 ELSE rules[<<f, k>>]
    BY <1>1, <2>1, <2>2, RulesDeleted
  <2>4. ASSUME NEW f \in Family, NEW n \in Number
        PROVE  /\ rules'[<<f, n>>] <= rules[<<f, n>>]
               /\ ~(rules'[<<f, n>>] > 0 /\ Secured(r, f, n))
    <3>1. rules[<<f, n>>] \in Nat /\ rules[<<f, n>>] <= 1
      BY <1>1 DEF RulesSecured
    <3>2. Secured(r, f, n) => f \in F /\ n = RouteTable(cfg[r])
      BY <2>1, <2>2 DEF Secured, Routed, Families
    <3> QED
      BY <2>3, <3>1, <3>2
  <2> QED
    BY <1>1, <1>2, <2>4, StillSecured
<1>7. ASSUME AddTableRule(r) PROVE RulesSecured'
  <2>0. PICK f0 \in Family, n0 \in Number : f0 = FamilyOf[Head(todo[r])] /\ n0 = RouteTable(cfg[r])
    BY <1>1, <1>3, <1>7, ConfFacts DEF AddTableRule, Goto
  <2>1. /\ pc[r] = "rule" /\ pc'[r] = "suppress" /\ UNCHANGED <<todo, added, file, routes>>
        /\ AddRule(f0, n0) /\ cfg[r] = file[OnOf[r]]
    BY <1>1, <1>7, <2>0 DEF AddTableRule, Goto
  <2>2. /\ f0 \notin added[r] /\ Routed(OnOf[r], f0)
    BY <1>1, <2>0, <2>1 DEF Own, Done, Routed
  <2>3. Secured(r, f0, n0)'
    <3>1. Routed(OnOf[r], f0)'
      BY <2>1, <2>2 DEF Routed
    <3> QED
      BY <2>0, <2>1, <3>1 DEF Secured
  <2>4. rules[<<f0, n0>>] = 0
    <3> SUFFICES ASSUME rules[<<f0, n0>>] > 0 PROVE FALSE
      <4>1. rules[<<f0, n0>>] \in Nat
        BY <1>1, <2>1
      <4> QED
        BY <4>1
    <3>1. PICK s \in Run : Secured(s, f0, n0)
      BY <2>1 DEF RulesSecured
    <3>2. OnOf[s] = OnOf[r]
      <4>1. Routed(OnOf[s], f0) /\ RouteTable(file[OnOf[s]]) = RouteTable(file[OnOf[r]])
        BY <2>0, <2>1, <3>1 DEF Secured
      <4>2. OnOf[s] \in Iface
        BY QuickTypes
      <4> QED
        BY <1>1, <2>2, <4>1, <4>2, OneOwner
    <3>3. s = r
      BY <3>2 DEF OwnInterfaces
    <3> QED
      BY <2>0, <2>1, <2>2, <3>1, <3>3 DEF Secured
  <2>5. /\ rules'[<<f0, n0>>] = 1
        /\ \A f \in Family, n \in Number : f # f0 \/ n # n0 => rules'[<<f, n>>] = rules[<<f, n>>]
    <3>1. /\ rules'[<<f0, n0>>] = rules[<<f0, n0>>] + 1
          /\ \A f \in Family, j \in Number \cup {Suppress} :
               f # f0 \/ j # n0 => rules'[<<f, j>>] = rules[<<f, j>>]
      <4>1. AddRule(f0, n0) /\ n0 \in Number \cup {Suppress}
        BY <2>1
      <4>2. rules \in [Family \X (Number \cup {Suppress}) -> Nat]
        BY <1>1
      <4> QED
        BY <4>1, <4>2, RuleAdded
    <3> QED
      BY <2>4, <3>1
  <2>6. ASSUME NEW f \in Family, NEW n \in Number
        PROVE  /\ rules'[<<f, n>>] <= 1
               /\ rules'[<<f, n>>] > 0 => \E s \in Run : Secured(s, f, n)'
    <3>1. CASE f = f0 /\ n = n0
      BY <2>3, <2>5, <3>1
    <3>2. CASE f # f0 \/ n # n0
      <4>1. rules'[<<f, n>>] = rules[<<f, n>>]
        BY <2>5, <3>2
      <4>2. ASSUME NEW s \in Run, Secured(s, f, n) PROVE Secured(s, f, n)'
        <5>1. CASE s = r
          BY <2>1, <4>2, <5>1 DEF Secured, Routed
        <5>2. CASE s # r
          BY <1>2, <4>2, <5>2, OthersKept DEF Secured
        <5> QED
          BY <5>1, <5>2
      <4> QED
        BY <4>1, <4>2 DEF RulesSecured
    <3> QED
      BY <3>1, <3>2
  <2> QED
    BY <2>6 DEF RulesSecured
<1> QED
  BY <1>4, <1>5, <1>6, <1>7
-----------------------------------------------------------------------------
(* Who holds rules has the routes.                                         *)
LEMMA HoldersHaveRoutes ==
  ASSUME Typed, NEW r \in Run, Own(r), UpNow(r), NEW f, Holds(r, f)
  PROVE  Routed(OnOf[r], f)
<1>1. pc[r] \in {"routes", "rule", "suppress", "undo"} => \A g \in added[r] : Routed(OnOf[r], g)
  BY DEF Own, Done
<1>2. active[OnOf[r]] # NoConf => /\ Families(active[OnOf[r]]) = Families(file[OnOf[r]])
                                  /\ \A g \in Families(file[OnOf[r]]) : Routed(OnOf[r], g)
  BY DEF UpNow, Families
<1> QED
  BY <1>1, <1>2 DEF Holds

(* An interface is up when Up has ended, until Down has deleted its rules. *)
LEMMA UpNowStep ==
  ASSUME OwnInterfaces, Steady, Calm, Typed, Hosted, NEW r \in Run, Own(r), Own(r)', UpNow(r),
         StepOf(r)
  PROVE  UpNow(r)'
<1>1. /\ pc \in [Run -> PCs] /\ OnOf[r] \in Iface /\ file \in [Iface -> Conf]
      /\ active \in [Iface -> Conf \cup {NoConf}] /\ added \in [Run -> SUBSET Family]
      /\ todo \in [Run -> Seq(Prefix)] /\ NoConf \notin Conf
      /\ pc[r] # "idle" => cfg[r] = file[OnOf[r]]
      /\ "kill" \notin may /\ "unlink" \notin may /\ "stray" \notin may /\ may' = may
  BY StepsAreOwn, QuickTypes DEF Typed, Calm, Only
<1>2. ASSUME \/ StartUp(r) \/ UpRefused(r) \/ PreUp(r) \/ StartDown(r) \/ DownFails(r)
      PROVE  UpNow(r)'
  <2>1. /\ UNCHANGED <<link, active, file, device, routes, may>>
        /\ pc[r] \in {"idle", "preup", "add", "predown"}
        /\ pc'[r] \in {"idle", "preup", "add", "predown"}
        /\ pc'[r] = "predown" => OnOf[r] \in link
    BY <1>1, <1>2 DEF StartUp, UpRefused, PreUp, StartDown, DownFails, Goto, host
  <2> QED
    BY <2>1 DEF UpNow, AsConfigured, Routed
<1>3. ASSUME AddInterface(r) PROVE UpNow(r)'
  <2>1. /\ active[OnOf[r]] = NoConf /\ active' = active /\ pc'[r] = "configure"
        /\ OnOf[r] \in link'
    BY <1>1, <1>3 DEF AddInterface, Goto, UpNow
  <2> QED
    BY <2>1 DEF UpNow
<1>4. ASSUME \/ Configure(r) \/ SetLinkUp(r) \/ SetDNS(r) \/ SkipRoute(r) \/ AddRoute(r)
             \/ AddTableRule(r) \/ AddSuppressRule(r) \/ UpFails(r) \/ UndoRules(r)
      PROVE  UpNow(r)'
  <2>1. /\ UNCHANGED <<active, link>>
        /\ pc[r] \in {"configure", "address", "dns", "routes", "rule", "suppress", "undo"}
        /\ pc'[r] \in {"address", "dns", "routes", "rule", "suppress", "undo", "unlink"}
        /\ pc'[r] \in {"address", "dns", "routes", "rule", "suppress"} => pc[r] # "undo"
    BY <1>1, <1>4 DEF Configure, SetLinkUp, SetDNS, SkipRoute, AddRoute, AddTableRule,
         AddSuppressRule, UpFails, UndoRules, Goto, host
  <2>2. active'[OnOf[r]] = NoConf
    BY <2>1 DEF UpNow
  <2> QED
    BY <2>1, <2>2 DEF UpNow
<1>5. ASSUME UndoLink(r) \/ DownLink(r) \/ UnsetDNS(r) \/ PostDown(r) PROVE UpNow(r)'
  <2>1. /\ active' = active /\ OnOf[r] \notin link'
        /\ pc[r] \in {"unlink", "del", "undns", "postdown"}
        /\ pc'[r] \in {"idle", "undns", "postdown"}
    BY <1>1, <1>5 DEF UndoLink, DownLink, UnsetDNS, PostDown, DelLink, Goto, host, UpNow
  <2>2. active'[OnOf[r]] = NoConf
    BY <2>1 DEF UpNow
  <2> QED
    BY <2>1, <2>2 DEF UpNow
<1>6. ASSUME DownRules(r) PROVE UpNow(r)'
  <2>1. active'[OnOf[r]] = NoConf /\ pc'[r] = "del"
    BY <1>1, <1>6 DEF DownRules, Goto
  <2> QED
    BY <2>1 DEF UpNow
<1>7. ASSUME PostUp(r) PROVE UpNow(r)'
  <2>1. /\ pc[r] = "routes" /\ pc'[r] = "idle" /\ todo[r] = <<>>
        /\ active'[OnOf[r]] = cfg[r] /\ cfg[r] = file[OnOf[r]]
        /\ UNCHANGED <<link, device, routes, file, may>>
    BY <1>1, <1>7 DEF PostUp, Goto, host
  <2>2. OnOf[r] \in link /\ active'[OnOf[r]] # NoConf
    BY <1>1, <2>1 DEF UpNow
  <2>3. AsConfigured(OnOf[r])'
    BY <2>1 DEF Own, SetUp, AsConfigured
  <2>4. ASSUME NEW f \in Families(file[OnOf[r]]) PROVE Routed(OnOf[r], f)'
    <3>1. PICK p \in Isolates(file[OnOf[r]]) : FamilyOf[p] = f
      BY DEF Families
    <3>2. FamilyOf[p] \in added[r]
      BY <2>1, <3>1 DEF Own, Ahead
    <3> QED
      BY <2>1, <3>1, <3>2 DEF Own, Done, Routed
  <2> QED
    BY <2>1, <2>2, <2>3, <2>4 DEF UpNow
<1>8. ASSUME Save(r) PROVE UpNow(r)'
  <2>1. /\ UNCHANGED <<link, active>> /\ pc[r] = "idle" /\ pc'[r] = "idle" /\ OnOf[r] \in link
    BY <1>1, <1>8 DEF Save, Goto, host
  <2>2. /\ active[OnOf[r]] # NoConf /\ AsConfigured(OnOf[r])
        /\ Isolates(active[OnOf[r]]) = Isolates(file[OnOf[r]])
        /\ RouteTable(active[OnOf[r]]) = RouteTable(file[OnOf[r]])
        /\ \A f \in Families(file[OnOf[r]]) : Routed(OnOf[r], f)
    BY <2>1 DEF UpNow
  <2>3. /\ Isolates(file'[OnOf[r]]) = Isolates(file[OnOf[r]])
        /\ RouteTable(file'[OnOf[r]]) = RouteTable(file[OnOf[r]])
        /\ \A f : Routed(OnOf[r], f) <=> Routed(OnOf[r], f)'
        /\ AsConfigured(OnOf[r])'
    BY <1>8, <2>2, SaveKeepsRoutes
  <2>4. \A f \in Families(file'[OnOf[r]]) : Routed(OnOf[r], f)'
    BY <2>2, <2>3 DEF Families
  <2> QED
    BY <2>1, <2>2, <2>3, <2>4 DEF UpNow
<1>9. ~Killed(r)
  BY <1>1 DEF Killed
<1> QED
  BY <1>2, <1>3, <1>4, <1>5, <1>6, <1>7, <1>8, <1>9 DEF StepOf

(* Only addDefaultRules and the two ways of deleting rules change who      *)
(* holds them.                                                             *)
LEMMA HoldsStep ==
  ASSUME OwnInterfaces, Steady, Calm, Typed, NEW r \in Run, Own(r), UpNow(r), StepOf(r),
         ~(AddSuppressRule(r) \/ UndoRules(r) \/ DownRules(r)), NEW f
  PROVE  Holds(r, f)' <=> Holds(r, f)
<1>1. /\ pc \in [Run -> PCs] /\ OnOf[r] \in Iface /\ file \in [Iface -> Conf]
      /\ active \in [Iface -> Conf \cup {NoConf}] /\ added \in [Run -> SUBSET Family]
      /\ NoConf \notin Conf
      /\ pc[r] # "idle" => cfg[r] = file[OnOf[r]]
      /\ "kill" \notin may
  BY QuickTypes DEF Typed, Calm
<1> DEFINE Rules4 == {"routes", "rule", "suppress", "undo"}
<1>2. ASSUME PostUp(r) PROVE Holds(r, f)' <=> Holds(r, f)
  <2>1. /\ pc[r] = "routes" /\ pc'[r] = "idle" /\ todo[r] = <<>>
        /\ active'[OnOf[r]] = cfg[r] /\ cfg[r] = file[OnOf[r]]
    BY <1>1, <1>2 DEF PostUp, Goto
  <2>2. active[OnOf[r]] = NoConf /\ active'[OnOf[r]] # NoConf
    BY <1>1, <2>1 DEF UpNow
  <2>3. f \in added[r] => f \in Families(cfg[r])
    BY <2>1 DEF Own, Done, Routed, Families
  <2>4. f \in Families(cfg[r]) => f \in added[r]
    BY <2>1 DEF Own, Ahead, Families
  <2> QED
    BY <2>1, <2>2, <2>3, <2>4 DEF Holds
<1>3. ASSUME \/ SkipRoute(r) \/ AddRoute(r) \/ AddTableRule(r)
      PROVE  Holds(r, f)' <=> Holds(r, f)
  <2>1. UNCHANGED <<active, added>> /\ pc[r] \in Rules4 /\ pc'[r] \in Rules4
    BY <1>1, <1>3 DEF SkipRoute, AddRoute, AddTableRule, Goto
  <2> QED
    BY <2>1 DEF Holds
<1>4. ASSUME SetDNS(r) \/ UpFails(r) PROVE Holds(r, f)' <=> Holds(r, f)
  <2>1. /\ UNCHANGED <<active, added>> /\ pc'[r] \in Rules4
        /\ pc[r] \in Rules4 \/ pc[r] \in {"configure", "address", "dns"}
    BY <1>1, <1>4 DEF SetDNS, UpFails, Goto
  <2> QED
    BY <2>1 DEF Own, Ahead, Holds
<1>5. ASSUME \/ StartUp(r) \/ UpRefused(r) \/ PreUp(r) \/ AddInterface(r) \/ Configure(r)
             \/ SetLinkUp(r) \/ UndoLink(r) \/ StartDown(r) \/ DownLink(r)
             \/ UnsetDNS(r) \/ PostDown(r) \/ DownFails(r) \/ Save(r)
      PROVE  Holds(r, f)' <=> Holds(r, f)
  <2>1. active' = active /\ pc[r] \notin Rules4 /\ pc'[r] \notin Rules4
    BY <1>1, <1>5 DEF StartUp, UpRefused, PreUp, AddInterface, Configure, SetLinkUp, UndoLink,
         StartDown, DownLink, UnsetDNS, PostDown, DownFails, Save, Goto
  <2> QED
    BY <2>1 DEF Holds
<1>6. ~Killed(r)
  BY <1>1 DEF Killed
<1> QED
  BY <1>2, <1>3, <1>4, <1>5, <1>6 DEF StepOf

(* Other runs hold what they held.                                         *)
LEMMA OthersHold ==
  ASSUME OwnInterfaces, NEW r \in Run, NEW s \in Run \ {r}, Only(r), UpNow(s)
  PROVE  UpNow(s)' /\ \A f : Holds(s, f)' <=> Holds(s, f)
<1>1. /\ pc'[s] = pc[s] /\ added'[s] = added[s]
      /\ file'[OnOf[s]] = file[OnOf[s]]
      /\ active'[OnOf[s]] = active[OnOf[s]]
      /\ (OnOf[s] \in link' <=> OnOf[s] \in link)
      /\ \A f : Routed(OnOf[s], f)' <=> Routed(OnOf[s], f)
      /\ AsConfigured(OnOf[s])' <=> AsConfigured(OnOf[s])
  BY OthersKept
<1>2. UpNow(s)'
  BY <1>1 DEF UpNow
<1>3. \A f : Holds(s, f)' <=> Holds(s, f)
  BY <1>1 DEF Holds
<1> QED
  BY <1>2, <1>3

(* While no rule is deleted, every holder keeps the rule of its table.     *)
LEMMA TableRulesGrow ==
  ASSUME OwnInterfaces, Steady, Calm, Typed, NEW r \in Run, Only(r), AllHeld,
         NEW s \in Run \ {r},
         \A f \in Family, n \in Number : rules[<<f, n>>] > 0 => rules'[<<f, n>>] > 0
  PROVE  TableRules(s)'
<1>1. /\ pc'[s] = pc[s] /\ todo'[s] = todo[s] /\ cfg'[s] = cfg[s]
      /\ file'[OnOf[s]] = file[OnOf[s]]
  BY OthersKept
<1>2. \A f : Holds(s, f)' <=> Holds(s, f)
  BY OthersHold DEF AllHeld
<1>3. TableRules(s) /\ OnOf[s] \in Iface
  BY QuickTypes DEF AllHeld
<1>4. RouteTable(file[OnOf[s]]) \in Number
  BY <1>3, ConfFacts DEF Typed
<1>5. pc[s] = "suppress" =>
        FamilyOf[Head(todo[s])] \in Family /\ RouteTable(cfg[s]) \in Number
  <2>1. pc[s] = "suppress" =>
          todo[s] \in Seq(Prefix) /\ todo[s] # <<>> /\ cfg[s] = file[OnOf[s]]
    BY DEF Typed
  <2>2. pc[s] = "suppress" => Head(todo[s]) \in Prefix
    BY <2>1
  <2> QED
    BY <1>4, <2>1, <2>2 DEF Family
<1> QED
  BY <1>1, <1>2, <1>3, <1>4, <1>5 DEF TableRules

(* Steps that change neither the rules nor who holds them.                 *)
LEMMA QuietHolds ==
  ASSUME OwnInterfaces, Steady, Calm, Typed, Hosted, NEW r \in Run, Own(r), AllHeld,
         StepOf(r), UpNow(r)',
         ~(AddTableRule(r) \/ AddSuppressRule(r) \/ UndoRules(r) \/ DownRules(r))
  PROVE  AllHeld'
<1>1. Only(r) /\ UpNow(r) /\ TableRules(r) /\ Counted
  BY StepsAreOwn DEF AllHeld
<1>2. rules' = rules
  BY DEF StepOf, StartUp, UpRefused, PreUp, AddInterface, Configure, SetLinkUp,
         SetDNS, SkipRoute, AddRoute, PostUp, UpFails,
         UndoLink, StartDown, DownLink, UnsetDNS, PostDown, DownFails, Killed, Save, DelLink, host
<1>3. \A s \in Run : \A f : Holds(s, f)' <=> Holds(s, f)
  BY <1>1, HoldsStep, OthersHold DEF AllHeld
<1>4. \A s \in Run \ {r} : UpNow(s)' /\ TableRules(s)'
  BY <1>1, <1>2, OthersHold, TableRulesGrow DEF AllHeld
<1>5. Counted'
  <2>1. \A f : Holders(f)' = Holders(f)
    BY <1>3 DEF Holders
  <2> QED
    BY <1>1, <1>2, <2>1 DEF Counted
<1>6. TableRules(r)'
  <2>1. pc'[r] # "suppress"
    BY DEF StepOf, StartUp, UpRefused, PreUp, AddInterface, Configure, SetLinkUp,
         SetDNS, SkipRoute, AddRoute, PostUp, UpFails,
         UndoLink, StartDown, DownLink, UnsetDNS, PostDown, DownFails, Killed, Save, Goto,
         Typed, PCs
  <2>2. ASSUME NEW f \in Family, Holds(r, f)
        PROVE  RouteTable(file'[OnOf[r]]) = RouteTable(file[OnOf[r]])
    <3>1. CASE Save(r)
      <4>1. pc[r] = "idle"
        BY <3>1 DEF Save, Goto
      <4>2. AsConfigured(OnOf[r])
        BY <1>1, <2>2, <4>1 DEF Holds, UpNow
      <4> QED
        BY <3>1, <4>2, SaveKeepsRoutes
    <3>2. CASE ~Save(r)
      <4>1. file' = file
        BY <3>2 DEF StepOf, StartUp, UpRefused, PreUp, AddInterface, Configure, SetLinkUp,
             SetDNS, SkipRoute, AddRoute, PostUp, UpFails,
             UndoLink, StartDown, DownLink, UnsetDNS, PostDown, DownFails, Killed
      <4> QED
        BY <4>1
    <3> QED
      BY <3>1, <3>2
  <2> QED
    BY <1>1, <1>2, <1>3, <2>1, <2>2 DEF TableRules
<1> QED
  BY <1>4, <1>5, <1>6 DEF AllHeld

(* addDefaultRules, first half: the rule for the table.                    *)
LEMMA TableRuleHolds ==
  ASSUME OwnInterfaces, Steady, Calm, Typed, Hosted, NEW r \in Run, Own(r), AllHeld,
         StepOf(r), UpNow(r)', AddTableRule(r)
  PROVE  AllHeld'
<1>1. Only(r) /\ UpNow(r) /\ TableRules(r) /\ Counted
  BY StepsAreOwn DEF AllHeld
<1>2. /\ pc[r] = "rule" /\ pc'[r] = "suppress" /\ UNCHANGED <<todo, cfg, file>>
      /\ todo[r] \in Seq(Prefix) /\ todo[r] # <<>> /\ cfg[r] = file[OnOf[r]]
      /\ cfg[r] \in Conf
      /\ rules \in [Family \X (Number \cup {Suppress}) -> Nat]
      /\ AddRule(FamilyOf[Head(todo[r])], RouteTable(cfg[r]))
      /\ Suppress \notin Number
  BY QuickTypes DEF AddTableRule, Goto, Typed
<1>3. PICK f0 \in Family, n0 \in Number : f0 = FamilyOf[Head(todo[r])] /\ n0 = RouteTable(cfg[r])
  <2>1. Head(todo[r]) \in Prefix
    BY <1>2
  <2> QED
    BY <1>2, <2>1, ConfFacts DEF Family
<1>4. /\ rules'[<<f0, n0>>] = rules[<<f0, n0>>] + 1
      /\ \A f \in Family, j \in Number \cup {Suppress} :
           f # f0 \/ j # n0 => rules'[<<f, j>>] = rules[<<f, j>>]
  <2>1. AddRule(f0, n0) /\ n0 \in Number \cup {Suppress}
    BY <1>2, <1>3
  <2>2. rules \in [Family \X (Number \cup {Suppress}) -> Nat]
    BY <1>2
  <2> QED
    BY <2>1, <2>2, RuleAdded
<1>5. \A s \in Run : \A f : Holds(s, f)' <=> Holds(s, f)
  <2>1. ~(AddSuppressRule(r) \/ UndoRules(r) \/ DownRules(r))
    BY <1>2 DEF AddSuppressRule, UndoRules, DownRules, Goto
  <2> QED
    BY <1>1, <2>1, HoldsStep, OthersHold DEF AllHeld
<1>6. ASSUME NEW f \in Family, NEW n \in Number
      PROVE  rules[<<f, n>>] > 0 => rules'[<<f, n>>] > 0
  <2>1. rules[<<f, n>>] \in Nat
    BY <1>2
  <2>2. CASE f = f0 /\ n = n0
    BY <1>4, <2>1, <2>2
  <2>3. CASE f # f0 \/ n # n0
    BY <1>4, <2>3
  <2> QED
    BY <2>2, <2>3
<1>7. \A s \in Run \ {r} : UpNow(s)' /\ TableRules(s)'
  BY <1>1, <1>6, OthersHold, TableRulesGrow DEF AllHeld
<1>8. Counted'
  <2>1. \A f : Holders(f)' = Holders(f)
    BY <1>5 DEF Holders
  <2>2. \A f \in Family : rules'[<<f, Suppress>>] = rules[<<f, Suppress>>]
    BY <1>2, <1>4
  <2> QED
    BY <1>1, <2>1, <2>2 DEF Counted
<1>9. TableRules(r)'
  <2>1. rules'[<<f0, n0>>] > 0
    <3>1. rules[<<f0, n0>>] \in Nat
      BY <1>2
    <3> QED
      BY <1>4, <3>1
  <2> QED
    BY <1>1, <1>2, <1>3, <1>5, <1>6, <2>1 DEF TableRules
<1> QED
  BY <1>7, <1>8, <1>9 DEF AllHeld

(* And its second half: now the run holds both.                            *)
LEMMA SuppressRuleHolds ==
  ASSUME OwnInterfaces, Steady, Calm, Typed, Hosted, NEW r \in Run, Own(r), AllHeld,
         StepOf(r), UpNow(r)', AddSuppressRule(r)
  PROVE  AllHeld'
<1>1. Only(r) /\ UpNow(r) /\ TableRules(r) /\ Counted
  BY StepsAreOwn DEF AllHeld
<1>2. /\ pc[r] = "suppress" /\ pc'[r] = "routes" /\ UNCHANGED <<cfg, file, active>>
      /\ todo[r] \in Seq(Prefix) /\ todo[r] # <<>> /\ cfg[r] = file[OnOf[r]]
      /\ file[OnOf[r]] \in Conf
      /\ rules \in [Family \X (Number \cup {Suppress}) -> Nat]
      /\ AddRule(FamilyOf[Head(todo[r])], Suppress)
      /\ added'[r] = added[r] \cup {FamilyOf[Head(todo[r])]}
      /\ Suppress \notin Number
  BY QuickTypes DEF AddSuppressRule, Goto, Typed
<1>3. PICK f0 \in Family : f0 = FamilyOf[Head(todo[r])]
  <2>1. Head(todo[r]) \in Prefix
    BY <1>2
  <2> QED
    BY <1>2, <2>1 DEF Family
<1>4. /\ rules'[<<f0, Suppress>>] = rules[<<f0, Suppress>>] + 1
      /\ \A f \in Family, j \in Number \cup {Suppress} :
           f # f0 \/ j # Suppress => rules'[<<f, j>>] = rules[<<f, j>>]
  <2>1. AddRule(f0, Suppress) /\ Suppress \in Number \cup {Suppress}
    BY <1>2, <1>3
  <2>2. rules \in [Family \X (Number \cup {Suppress}) -> Nat]
    BY <1>2
  <2> QED
    BY <2>1, <2>2, RuleAdded
<1>5. /\ active[OnOf[r]] = NoConf /\ f0 \notin added[r]
      /\ \A f : Holds(r, f)' <=> Holds(r, f) \/ f = f0
      /\ ~Holds(r, f0)
  <2>1. active[OnOf[r]] = NoConf /\ f0 \notin added[r]
    BY <1>1, <1>2, <1>3 DEF UpNow, Own, Done
  <2> QED
    BY <1>2, <1>3, <2>1 DEF Holds
<1>6. \A f \in Family, n \in Number : rules'[<<f, n>>] = rules[<<f, n>>]
  BY <1>2, <1>4
<1>7. \A s \in Run \ {r} : UpNow(s)' /\ TableRules(s)' /\ \A f : Holds(s, f)' <=> Holds(s, f)
  BY <1>1, <1>6, OthersHold, TableRulesGrow DEF AllHeld
<1>8. Counted'
  <2> SUFFICES ASSUME NEW f \in Family
               PROVE  rules'[<<f, Suppress>>] = Cardinality(Holders(f)')
    BY DEF Counted
  <2>1. rules[<<f, Suppress>>] = Cardinality(Holders(f))
    BY <1>1 DEF Counted
  <2>2. CASE f = f0
    <3>1. Holders(f)' = Holders(f) \cup {r} /\ r \notin Holders(f)
      BY <1>5, <1>7, <2>2 DEF Holders
    <3>2. IsFiniteSet(Holders(f))
      BY QuickTypes, FS_Subset DEF Holders
    <3>3. Cardinality(Holders(f)') = Cardinality(Holders(f)) + 1
      BY <3>1, <3>2, FS_AddElement
    <3> QED
      BY <1>4, <2>1, <2>2, <3>3
  <2>3. CASE f # f0
    <3>1. Holders(f)' = Holders(f)
      BY <1>5, <1>7, <2>3 DEF Holders
    <3> QED
      BY <1>4, <2>1, <2>3, <3>1
  <2> QED
    BY <2>2, <2>3
<1>9. TableRules(r)'
  <2>1. rules[<<f0, RouteTable(file[OnOf[r]])>>] > 0
    BY <1>1, <1>2, <1>3 DEF TableRules
  <2>2. RouteTable(file[OnOf[r]]) \in Number
    BY <1>2, ConfFacts
  <2> QED
    BY <1>1, <1>2, <1>5, <1>6, <2>1, <2>2 DEF TableRules
<1> QED
  BY <1>7, <1>8, <1>9 DEF AllHeld

(* delDefaultRules: the run gives up its rules, and nobody else loses one. *)
LEMMA DeletedRulesHold ==
  ASSUME OwnInterfaces, Steady, Calm, Typed, Hosted, \A s \in Run : Own(s), NEW r \in Run, AllHeld,
         StepOf(r), UpNow(r)', UndoRules(r) \/ DownRules(r)
  PROVE  AllHeld'
<1>1. Only(r) /\ UpNow(r) /\ TableRules(r) /\ Counted /\ Own(r)
  BY StepsAreOwn DEF AllHeld
<1>0. PICK F : F = IF pc[r] = "undo" THEN added[r] ELSE Families(cfg[r])
  OBVIOUS
<1>2. /\ DelRules(F, RouteTable(cfg[r]))
      /\ \/ pc[r] = "undo" /\ F = added[r] /\ pc'[r] = "unlink" /\ active' = active
         \/ pc[r] = "predown" /\ F = Families(cfg[r]) /\ pc'[r] = "del" /\ active'[OnOf[r]] = NoConf
  <2>1. pc \in [Run -> PCs] /\ active \in [Iface -> Conf \cup {NoConf}] /\ OnOf[r] \in Iface
    BY QuickTypes DEF Typed
  <2>2. CASE UndoRules(r)
    BY <1>0, <2>1, <2>2 DEF UndoRules, Goto
  <2>3. CASE DownRules(r)
    BY <1>0, <2>1, <2>3 DEF DownRules, Goto, Families
  <2> QED
    BY <2>2, <2>3
<1>3. /\ cfg[r] = file[OnOf[r]] /\ file[OnOf[r]] \in Conf
      /\ rules \in [Family \X (Number \cup {Suppress}) -> Nat]
  BY <1>2, QuickTypes DEF Typed
<1>4. PICK n0 \in Number : n0 = RouteTable(file[OnOf[r]])
  BY <1>3, ConfFacts
<1>5. \A f \in Family, k \in Number \cup {Suppress} :
        rules'[<<f, k>>] = IF f \in F /\ k \in {n0, Suppress} /\ rules[<<f, k>>] > 0
                             THEN rules[<<f, k>>] - 1 ELSE rules[<<f, k>>]
  BY <1>2, <1>3, <1>4, RulesDeleted
<1>6. /\ active'[OnOf[r]] = NoConf
      /\ \A f : ~Holds(r, f)'
      /\ \A f : Holds(r, f) <=> f \in F
  <2>1. CASE pc[r] = "undo"
    BY <1>1, <1>2, <2>1 DEF UpNow, Holds
  <2>2. CASE pc[r] = "predown"
    <3>1. OnOf[r] \in link /\ active[OnOf[r]] # NoConf
      BY <1>1, <2>2 DEF UpNow
    <3>2. Families(active[OnOf[r]]) = F
      BY <1>1, <1>2, <1>3, <2>2, <3>1 DEF UpNow, Families
    <3> QED
      BY <1>2, <2>2, <3>1, <3>2 DEF Holds
  <2> QED
    BY <1>2, <2>1, <2>2
<1>7. \A f \in F : Routed(OnOf[r], f)
  BY <1>1, <1>6, HoldersHaveRoutes
<1>8. ASSUME NEW s \in Run \ {r} PROVE TableRules(s)'
  <2>1. /\ pc'[s] = pc[s] /\ todo'[s] = todo[s] /\ cfg'[s] = cfg[s]
        /\ file'[OnOf[s]] = file[OnOf[s]]
        /\ OnOf[s] \in Iface /\ OnOf[r] \in Iface /\ OnOf[s] # OnOf[r]
    BY <1>1, OthersKept, QuickTypes DEF OwnInterfaces
  <2>2. TableRules(s) /\ UpNow(s) /\ Own(s)
    BY DEF AllHeld
  <2>3. \A f : Holds(s, f)' <=> Holds(s, f)
    BY <1>1, <2>2, OthersHold
  <2>4. PICK n \in Number : n = RouteTable(file[OnOf[s]])
    BY <2>1, ConfFacts DEF Typed
  <2>5. ASSUME NEW f \in Family, Routed(OnOf[s], f), rules[<<f, n>>] > 0
        PROVE  rules'[<<f, n>>] > 0
    <3>1. ~(f \in F /\ n = n0)
      BY <1>4, <1>7, <2>1, <2>4, <2>5, OneOwner
    <3>2. n # Suppress
      BY QuickTypes
    <3> QED
      BY <1>5, <2>5, <3>1, <3>2
  <2>6. ASSUME NEW f \in Family, Holds(s, f)' PROVE rules'[<<f, n>>] > 0
    <3>1. Routed(OnOf[s], f)
      BY <2>2, <2>3, <2>6, HoldersHaveRoutes
    <3>2. rules[<<f, n>>] > 0
      BY <2>2, <2>3, <2>4, <2>6 DEF TableRules
    <3> QED
      BY <2>5, <3>1, <3>2
  <2>7. ASSUME pc[s] = "suppress"
        PROVE  rules'[<<FamilyOf[Head(todo[s])], RouteTable(cfg[s])>>] > 0
    <3>1. cfg[s] = file[OnOf[s]] /\ todo[s] \in Seq(Prefix) /\ todo[s] # <<>>
      BY <2>7 DEF Typed
    <3>2. FamilyOf[Head(todo[s])] \in Family
      <4>1. Head(todo[s]) \in Prefix
        BY <3>1
      <4> QED
        BY <4>1 DEF Family
    <3>3. Routed(OnOf[s], FamilyOf[Head(todo[s])])
      BY <2>2, <2>7, <3>1 DEF Own, Done, Routed
    <3>4. rules[<<FamilyOf[Head(todo[s])], n>>] > 0
      BY <2>2, <2>4, <2>7, <3>1 DEF TableRules
    <3> QED
      BY <2>4, <2>5, <3>1, <3>2, <3>3, <3>4
  <2> QED
    BY <2>1, <2>4, <2>6, <2>7 DEF TableRules
<1>9. TableRules(r)'
  BY <1>2, <1>6 DEF TableRules
<1>10. \A s \in Run \ {r} : UpNow(s)' /\ \A f : Holds(s, f)' <=> Holds(s, f)
  BY <1>1, OthersHold DEF AllHeld
<1>11. Counted'
  <2> SUFFICES ASSUME NEW f \in Family
               PROVE  rules'[<<f, Suppress>>] = Cardinality(Holders(f)')
    BY DEF Counted
  <2>1. rules[<<f, Suppress>>] = Cardinality(Holders(f))
    BY <1>1 DEF Counted
  <2>2. IsFiniteSet(Holders(f))
    BY QuickTypes, FS_Subset DEF Holders
  <2>3. CASE f \in F
    <3>1. r \in Holders(f) /\ Holders(f)' = Holders(f) \ {r}
      BY <1>6, <1>10, <2>3 DEF Holders
    <3>2. Cardinality(Holders(f)') = Cardinality(Holders(f)) - 1
      BY <2>2, <3>1, FS_RemoveElement
    <3>3. Cardinality(Holders(f)) \in Nat /\ Cardinality(Holders(f)) # 0
      BY <2>2, <3>1, FS_CardinalityType, FS_EmptySet
    <3> QED
      BY <1>5, <2>1, <2>3, <3>2, <3>3
  <2>4. CASE f \notin F
    <3>1. Holders(f)' = Holders(f)
      BY <1>6, <1>10, <2>4 DEF Holders
    <3> QED
      BY <1>5, <2>1, <2>4, <3>1
  <2> QED
    BY <2>3, <2>4
<1> QED
  BY <1>8, <1>9, <1>10, <1>11 DEF AllHeld
-----------------------------------------------------------------------------
(* Routes, devices and rules together.                                     *)
RulesAndRoutes == Kept /\ Ruled /\ Held

(* Before the first run nobody holds a rule, and there is none.            *)
LEMMA RulesAndRoutesInit == Init => RulesAndRoutes
<1> SUFFICES ASSUME Init PROVE RulesAndRoutes
  OBVIOUS
<1>1. Kept
  BY KeptInit
<1>2. \A f \in Family, k \in Number \cup {Suppress} : rules[<<f, k>>] = 0
  BY DEF Init
<1>3. RulesSecured
  <2>1. ASSUME NEW f \in Family, NEW n \in Number
        PROVE  rules[<<f, n>>] <= 1 /\ ~(rules[<<f, n>>] > 0)
    <3>1. rules[<<f, n>>] = 0
      BY <1>2
    <3> QED
      BY <3>1
  <2> QED
    BY <2>1 DEF RulesSecured
<1>4. \A r \in Run : OnOf[r] \in Iface /\ active[OnOf[r]] = NoConf /\ pc[r] = "idle"
                     /\ OnOf[r] \notin link
  BY QuickTypes DEF Init
<1>5. \A r \in Run : \A f : ~Holds(r, f)
  BY <1>4 DEF Holds
<1>6. \A r \in Run : UpNow(r) /\ TableRules(r)
  BY <1>4, <1>5 DEF UpNow, TableRules
<1>7. Counted
  <2>1. \A f : Holders(f) = {}
    BY <1>5 DEF Holders
  <2> QED
    BY <1>2, <2>1, FS_EmptySet DEF Counted
<1> QED
  BY <1>1, <1>3, <1>6, <1>7 DEF RulesAndRoutes, Ruled, Held, AllHeld

(* Every step keeps them together.                                         *)
LEMMA RulesAndRoutesStep ==
  ASSUME OwnInterfaces PROVE RulesAndRoutes /\ [Next]_vars => RulesAndRoutes'
<1> SUFFICES ASSUME RulesAndRoutes, [Next]_vars PROVE RulesAndRoutes'
  OBVIOUS
<1>1. Kept'
  BY KeptStep DEF RulesAndRoutes
<1>2. CASE UNCHANGED vars
  <2>1. UNCHANGED <<link, device, routes, rules, file, pc, cfg, todo, added, active, may>>
    BY <1>2 DEF vars
  <2>2. Ruled'
    <3>1. \A r, f, n : Secured(r, f, n)' <=> Secured(r, f, n)
      BY <2>1 DEF Secured, Routed
    <3> QED
      BY <2>1, <3>1 DEF RulesAndRoutes, Ruled, RulesSecured, Steady
  <2>3. Held'
    <3>1. /\ \A r, f : Holds(r, f)' <=> Holds(r, f)
          /\ \A r : UpNow(r)' <=> UpNow(r)
          /\ \A f : Holders(f)' = Holders(f)
      BY <2>1 DEF Holds, UpNow, Holders, AsConfigured, Routed
    <3> QED
      BY <2>1, <3>1 DEF RulesAndRoutes, Held, AllHeld, Counted, TableRules, Steady, Calm
  <2> QED
    BY <1>1, <2>2, <2>3 DEF RulesAndRoutes
<1>3. ASSUME NEW r \in Run, StepOf(r) PROVE RulesAndRoutes'
  <2>1. may' = may
    BY <1>3 DEF StepOf, StartUp, UpRefused, PreUp, AddInterface, Configure, SetLinkUp,
           SetDNS, SkipRoute, AddRoute, AddTableRule, AddSuppressRule, PostUp, UpFails, UndoRules,
           UndoLink, StartDown, DownRules, DownLink, UnsetDNS, PostDown, DownFails, Killed, Save
  <2>2. ASSUME Steady PROVE Ruled' /\ Held'
    <3>1. Typed /\ Typed' /\ Hosted /\ (\A s \in Run : Own(s) /\ Own(s)')
      BY <1>1, <2>1, <2>2 DEF RulesAndRoutes, Kept, Steady
    <3>2. Ruled'
      BY <1>3, <2>1, <2>2, <3>1, RulesStep DEF RulesAndRoutes, Ruled
    <3>3. ASSUME Calm PROVE AllHeld'
      <4>1. AllHeld
        BY <2>2, <3>3 DEF RulesAndRoutes, Held
      <4>2. UpNow(r)'
        BY <1>3, <2>2, <3>1, <3>3, <4>1, UpNowStep DEF AllHeld
      <4>3. CASE AddTableRule(r)
        BY <1>3, <2>2, <3>1, <3>3, <4>1, <4>2, <4>3, TableRuleHolds
      <4>4. CASE AddSuppressRule(r)
        BY <1>3, <2>2, <3>1, <3>3, <4>1, <4>2, <4>4, SuppressRuleHolds
      <4>5. CASE UndoRules(r) \/ DownRules(r)
        BY <1>3, <2>2, <3>1, <3>3, <4>1, <4>2, <4>5, DeletedRulesHold
      <4>6. CASE ~(AddTableRule(r) \/ AddSuppressRule(r) \/ UndoRules(r) \/ DownRules(r))
        BY <1>3, <2>2, <3>1, <3>3, <4>1, <4>2, <4>6, QuietHolds
      <4> QED
        BY <4>3, <4>4, <4>5, <4>6
    <3> QED
      BY <2>1, <3>2, <3>3 DEF Held, Calm
  <2> QED
    BY <1>1, <2>1, <2>2 DEF RulesAndRoutes, Ruled, Held, Steady
<1>4. ASSUME NEW d \in Iface, WgSet(d) PROVE RulesAndRoutes'
  <2>1. may' = may
    BY <1>4 DEF WgSet
  <2>2. ASSUME Steady PROVE Ruled' /\ Held'
    <3>1. Typed /\ \A r \in Run : OnOf[r] \in Iface
      BY <2>2, QuickTypes DEF RulesAndRoutes, Kept
    <3>2. /\ "set" \in may
          /\ UNCHANGED <<link, routes, rules, file, pc, cfg, todo, added, active, may>>
          /\ \A e \in Iface : device'[e].mark = device[e].mark
      BY <1>4, <3>1, WgSetKeeps
    <3>3. Ruled'
      <4>1. \A r, f, n : Secured(r, f, n)' <=> Secured(r, f, n)
        BY <3>2 DEF Secured, Routed
      <4> QED
        BY <3>2, <4>1 DEF RulesAndRoutes, Ruled, RulesSecured, Steady
    <3>4. Held'
      <4>1. \A r, f : Holds(r, f)' <=> Holds(r, f)
        BY <3>2 DEF Holds
      <4>2. \A r \in Run : AsConfigured(OnOf[r])' <=> AsConfigured(OnOf[r])
        BY <3>1, <3>2 DEF AsConfigured
      <4>3. \A r \in Run : UpNow(r)' <=> UpNow(r)
        BY <3>2, <4>2 DEF UpNow, Routed
      <4>4. \A f : Holders(f)' = Holders(f)
        BY <4>1 DEF Holders
      <4> QED
        BY <3>2, <4>1, <4>3, <4>4 DEF RulesAndRoutes, Held, AllHeld, Counted, TableRules, Steady, Calm
    <3> QED
      BY <3>3, <3>4
  <2> QED
    BY <1>1, <2>1, <2>2 DEF RulesAndRoutes, Ruled, Held, Steady
<1> QED
  BY <1>2, <1>3, <1>4 DEF Next, StepOf

(* "A policy rule for a table of ours is there once at most, and while it  *)
(* is there the table has the default route it was made for" (addRule,     *)
(* delDefaultRules), for any number of interfaces: runs may be killed and  *)
(* devices deleted under them.                                             *)
THEOREM RulesFollowRoutes == ASSUME OwnInterfaces PROVE Spec => []RulesHaveRoutes
<1>1. RulesAndRoutes => RulesHaveRoutes
  <2> SUFFICES ASSUME RulesAndRoutes, Without({"rule"}), NEW f \in Family, NEW n \in Number
               PROVE  rules[<<f, n>>] <= Cardinality({x \in routes : /\ x.table = n
                                                                    /\ x.prefix \in Default
                                                                    /\ FamilyOf[x.prefix] = f})
    BY DEF RulesHaveRoutes
  <2> DEFINE S == {x \in routes : x.table = n /\ x.prefix \in Default /\ FamilyOf[x.prefix] = f}
  <2>1. Steady /\ "rule" \notin may
    BY DEF Without, Steady
  <2>2. Typed /\ Hosted /\ RulesSecured
    BY <2>1 DEF RulesAndRoutes, Kept, Ruled
  <2>3. rules[<<f, n>>] \in Nat /\ rules[<<f, n>>] <= 1
    BY <2>2 DEF Typed, RulesSecured
  <2>4. \A x, y \in S : x = y
    BY <2>2, QuickTypes DEF Hosted
  <2>5. ASSUME rules[<<f, n>>] > 0 PROVE Cardinality(S) = 1
    <3>1. PICK r \in Run : Secured(r, f, n)
      BY <2>2, <2>5 DEF RulesSecured
    <3>2. PICK p \in Isolates(file[OnOf[r]]) :
            FamilyOf[p] = f /\ Route(OnOf[r], p, n) \in routes
      BY <3>1 DEF Secured, Routed
    <3>3. p \in Default
      BY <2>2, QuickTypes, ConfFacts DEF Typed
    <3>4. Route(OnOf[r], p, n) \in S
      BY <3>2, <3>3 DEF Route
    <3>5. S = {Route(OnOf[r], p, n)}
      BY <2>4, <3>4
    <3> QED
      BY <3>5, FS_Singleton
  <2>6. Cardinality(S) \in Nat
    <3>1. CASE S = {}
      BY <3>1, FS_EmptySet
    <3>2. CASE S # {}
      <4>1. PICK x \in S : S = {x}
        BY <2>4, <3>2
      <4> QED
        BY <4>1, FS_Singleton
    <3> QED
      BY <3>1, <3>2
  <2> HIDE DEF S
  <2>7. rules[<<f, n>>] <= Cardinality(S)
    BY <2>3, <2>5, <2>6
  <2> QED
    BY <2>7 DEF S
<1> QED
  BY RulesAndRoutesInit, RulesAndRoutesStep, <1>1, PTL DEF Spec

(* "auto: default routes are isolated" (quick_linux.go:95), whatever other *)
(* interfaces come, fail and go.                                           *)
THEOREM DefaultRoutesIsolated == ASSUME OwnInterfaces PROVE Spec => []Isolated
<1>1. RulesAndRoutes => Isolated
  <2> SUFFICES ASSUME RulesAndRoutes, Without({"kill", "unlink", "stray"}),
                      NEW d \in Iface, active[d] # NoConf, NEW p \in Isolates(active[d])
               PROVE  /\ Route(d, p, RouteTable(active[d])) \in routes
                      /\ rules[<<FamilyOf[p], RouteTable(active[d])>>] > 0
                      /\ rules[<<FamilyOf[p], Suppress>>] > 0
                      /\ device[d].mark = RouteTable(active[d])
    BY DEF Isolated
  <2>1. Steady /\ Calm
    BY DEF Without, Steady, Calm
  <2>2. Typed /\ Hosted /\ AllHeld
    BY <2>1 DEF RulesAndRoutes, Kept, Held
  <2>3. PICK r \in Run : OnOf[r] = d
    BY <2>2 DEF Hosted
  <2>4. /\ AsConfigured(d) /\ Isolates(active[d]) = Isolates(file[d])
        /\ RouteTable(active[d]) = RouteTable(file[d])
        /\ \A f \in Families(file[d]) : Routed(d, f)
        /\ TableRules(r) /\ Counted
    BY <2>2, <2>3 DEF AllHeld, UpNow
  <2>5. FamilyOf[p] \in Families(file[d]) /\ FamilyOf[p] \in Family /\ Holds(r, FamilyOf[p])
        /\ p \in Default /\ Isolates(file[d]) \subseteq Default
    <3>1. file[d] \in Conf
      BY <2>2 DEF Typed
    <3>2. p \in Default /\ Isolates(file[d]) \subseteq Default
      BY <2>4, <3>1, ConfFacts
    <3>3. FamilyOf[p] \in Families(active[d]) /\ FamilyOf[p] \in Families(file[d])
      BY <2>4 DEF Families
    <3>4. FamilyOf[p] \in Family
      BY <3>2, QuickTypes DEF Family
    <3> QED
      BY <2>3, <3>2, <3>3, <3>4 DEF Holds
  <2>6. Route(d, p, RouteTable(active[d])) \in routes
    BY <2>4, <2>5, QuickTypes DEF Routed
  <2>7. rules[<<FamilyOf[p], RouteTable(active[d])>>] > 0
    BY <2>3, <2>4, <2>5 DEF TableRules
  <2>8. rules[<<FamilyOf[p], Suppress>>] > 0
    <3>1. rules[<<FamilyOf[p], Suppress>>] = Cardinality(Holders(FamilyOf[p]))
      BY <2>4, <2>5 DEF Counted
    <3>2. IsFiniteSet(Holders(FamilyOf[p])) /\ r \in Holders(FamilyOf[p])
      BY <2>5, QuickTypes, FS_Subset DEF Holders
    <3>3. Cardinality(Holders(FamilyOf[p])) \in Nat /\ Cardinality(Holders(FamilyOf[p])) # 0
      BY <3>2, FS_CardinalityType, FS_EmptySet
    <3> QED
      BY <3>1, <3>3
  <2>9. device[d].mark = RouteTable(active[d])
    BY <2>4 DEF AsConfigured, MarkOf
  <2> QED
    BY <2>6, <2>7, <2>8, <2>9
<1> QED
  BY RulesAndRoutesInit, RulesAndRoutesStep, <1>1, PTL DEF Spec

(* Rules come and go in pairs (addDefaultRules, delDefaultRules): who      *)
(* holds rules of a family, or has made the first of a pair, has a table   *)
(* of its own, and each table with a rule belongs to one of them.          *)
THEOREM RulesComeInPairs == ASSUME OwnInterfaces PROVE Spec => []RulesPaired
<1>1. RulesAndRoutes => RulesPaired
  <2> SUFFICES ASSUME RulesAndRoutes, Without({"rule", "kill", "unlink", "stray"}), NEW f \in Family
               PROVE  rules[<<f, Suppress>>]
                        + Cardinality({r \in Run : pc[r] = "suppress" /\ FamilyOf[Head(todo[r])] = f})
                        = Cardinality({n \in Number : rules[<<f, n>>] > 0})
    BY DEF RulesPaired
  <2> DEFINE half == {r \in Run : pc[r] = "suppress" /\ FamilyOf[Head(todo[r])] = f}
             tables == {n \in Number : rules[<<f, n>>] > 0}
             owners == Holders(f) \cup half
             table == [r \in owners |-> RouteTable(file[OnOf[r]])]
  <2>1. Steady /\ Calm /\ "rule" \notin may
    BY DEF Without, Steady, Calm
  <2>2. Typed /\ Hosted /\ RulesSecured /\ AllHeld /\ \A r \in Run : Own(r)
    BY <2>1 DEF RulesAndRoutes, Kept, Ruled, Held
  <2>3. \A r \in owners : Routed(OnOf[r], f)
    <3>1. \A r \in Holders(f) : Routed(OnOf[r], f)
      BY <2>2, HoldersHaveRoutes DEF Holders, AllHeld
    <3>2. \A r \in half : Routed(OnOf[r], f)
      BY <2>2 DEF Own, Done, Routed, Typed
    <3> QED
      BY <3>1, <3>2
  <2>4. \A r \in owners : r \in Run /\ table[r] \in tables
    <3>1. ASSUME NEW r \in owners PROVE r \in Run /\ RouteTable(file[OnOf[r]]) \in tables
      <4>1. r \in Run /\ TableRules(r) /\ OnOf[r] \in Iface
        BY <2>2, QuickTypes DEF Holders, AllHeld
      <4>2. RouteTable(file[OnOf[r]]) \in Number
        BY <2>2, <4>1, ConfFacts DEF Typed
      <4>3. pc[r] = "suppress" => cfg[r] = file[OnOf[r]]
        BY <2>2, <4>1 DEF Typed
      <4>4. rules[<<f, RouteTable(file[OnOf[r]])>>] > 0
        BY <4>1, <4>3 DEF TableRules, Holders
      <4> QED
        BY <4>1, <4>2, <4>4
    <3> QED
      BY <3>1
  <2>5. \A r, s \in owners : table[r] = table[s] => r = s
    <3> SUFFICES ASSUME NEW r \in owners, NEW s \in owners, table[r] = table[s] PROVE r = s
      OBVIOUS
    <3>1. /\ Routed(OnOf[r], f) /\ Routed(OnOf[s], f) /\ r \in Run /\ s \in Run
          /\ RouteTable(file[OnOf[r]]) = RouteTable(file[OnOf[s]])
      BY <2>3, <2>4
    <3>2. OnOf[r] \in Iface /\ OnOf[s] \in Iface
      BY <3>1, QuickTypes
    <3>3. OnOf[r] = OnOf[s]
      BY <2>2, <3>1, <3>2, OneOwner
    <3> QED
      BY <3>1, <3>3 DEF OwnInterfaces
  <2>6. \A n \in tables : \E r \in owners : table[r] = n
    <3> SUFFICES ASSUME NEW n \in tables PROVE \E r \in owners : table[r] = n
      OBVIOUS
    <3>1. PICK r \in Run : Secured(r, f, n)
      BY <2>2 DEF RulesSecured
    <3>2. UpNow(r) /\ pc[r] \in PCs
      BY <2>2 DEF AllHeld, Typed
    <3>3. Routed(OnOf[r], f) /\ n = RouteTable(file[OnOf[r]])
      BY <3>1 DEF Secured
    <3>4. OnOf[r] \in link /\ f \in Families(file[OnOf[r]])
      BY <2>2, <3>3 DEF Routed, Hosted, Route, Families
    <3>5. r \in owners
      <4>1. CASE pc[r] \in {"routes", "rule", "suppress", "undo"}
        BY <3>1, <4>1 DEF Secured, Holders, Holds
      <4>2. CASE pc[r] \in {"idle", "preup", "add", "predown"}
        <5>1. active[OnOf[r]] # NoConf
          BY <3>2, <3>4, <4>2 DEF UpNow
        <5>2. f \in Families(active[OnOf[r]])
          BY <3>2, <3>4, <5>1 DEF UpNow, Families
        <5> QED
          BY <5>1, <5>2 DEF Holders, Holds
      <4>3. pc[r] \in {"routes", "rule", "suppress", "undo", "idle", "preup", "add", "predown"}
        BY <3>1, <3>2, <3>4 DEF Secured, UpNow, PCs
      <4> QED
        BY <4>1, <4>2, <4>3
    <3> QED
      BY <3>3, <3>5
  <2>7. /\ IsFiniteSet(Holders(f)) /\ IsFiniteSet(half)
        /\ Holders(f) \cap half = {}
    <3>1. Holders(f) \subseteq Run /\ half \subseteq Run
      BY DEF Holders
    <3>2. ASSUME NEW r \in half PROVE ~Holds(r, f)
      <4>1. active[OnOf[r]] = NoConf
        BY <2>2, <3>2 DEF AllHeld, UpNow
      <4>2. f \notin added[r]
        BY <2>2, <3>2 DEF Own, Done
      <4> QED
        BY <4>1, <4>2 DEF Holds
    <3> QED
      BY <3>1, <3>2, QuickTypes, FS_Subset DEF Holders
  <2> HIDE DEF half, tables
  <2>8. /\ IsFiniteSet(owners)
        /\ Cardinality(owners) = Cardinality(Holders(f)) + Cardinality(half)
    <3>1. IsFiniteSet(Holders(f) \cap half) /\ Cardinality(Holders(f) \cap half) = 0
      BY <2>7, FS_EmptySet
    <3>2. /\ IsFiniteSet(owners)
          /\ Cardinality(owners) = Cardinality(Holders(f)) + Cardinality(half)
                                     - Cardinality(Holders(f) \cap half)
      BY <2>7, FS_Union
    <3>3. Cardinality(Holders(f)) \in Nat /\ Cardinality(half) \in Nat
      BY <2>7, FS_CardinalityType
    <3> HIDE DEF owners
    <3> QED
      BY <3>1, <3>2, <3>3
  <2>9. table \in Bijection(owners, tables)
    <3> HIDE DEF owners
    <3>1. table \in [owners -> tables]
      BY <2>4
    <3> HIDE DEF table
    <3> QED
      BY <2>5, <2>6, <3>1 DEF Bijection, Injection, Surjection, IsInjective
  <2>10. Cardinality(tables) = Cardinality(owners)
    <3>1. ExistsBijection(owners, tables)
      BY <2>9 DEF ExistsBijection
    <3> HIDE DEF owners
    <3> QED
      BY <2>8, <3>1, FS_Bijection
  <2>11. rules[<<f, Suppress>>] = Cardinality(Holders(f))
    BY <2>2 DEF AllHeld, Counted
  <2>12. rules[<<f, Suppress>>] + Cardinality(half) = Cardinality(tables)
    BY <2>8, <2>10, <2>11
  <2> QED
    BY <2>12 DEF half, tables
<1> QED
  BY RulesAndRoutesInit, RulesAndRoutesStep, <1>1, PTL DEF Spec
=============================================================================
