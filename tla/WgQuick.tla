------------------------------ MODULE WgQuick ------------------------------
(***************************************************************************)
(* internal/wgquick: runs of `wg-quick up`, `down` and `save` on one host. *)
(* Each run is a sequence of ip, resolvconf and hook commands; the host is *)
(* what they change.  Default routes are isolated: they go to a table of   *)
(* their own, which a policy rule prefers for unmarked packets.            *)
(***************************************************************************)
EXTENDS Naturals, Sequences, FiniteSets, SequencesExt

CONSTANTS
  Run,           \* runs of wg-quick, each on an interface of its own
  Iface,         \* interfaces
  OnOf,          \* the interface of each run
  Prefix,        \* AllowedIPs of peers
  Default,       \* those of them that are 0.0.0.0/0 or ::/0
  FamilyOf,      \* -4 or -6
  Covers,        \* pairs of prefixes, the first of which contains the second
  Number,        \* numbers of route tables, which are fwmarks, too
  DefaultTable,  \* 51820
  AutoTable, OffTable,  \* Table is empty or "auto"; Table is "off"
  NoMark,        \* no FwMark
  Main,          \* the main table
  Suppress,      \* the rule: main table without its default route
  NoConf,        \* an interface that is not up
  Confs,         \* configuration files
  Weathers,      \* what may happen in a behaviour: the kinds of command that
                 \* fail, and "kill", "stray", "set" and "save"
  MostRules      \* bound on the copies of a policy rule that have leaked

Conf == [table : Number \cup {AutoTable, OffTable}, mark : Number \cup {NoMark},
         routes : Seq(Prefix), nets : SUBSET Prefix, dns : BOOLEAN]
Family == {FamilyOf[p] : p \in Prefix}

ASSUME QuickTypes ==
  /\ OnOf \in [Run -> Iface]
  /\ IsFiniteSet(Run) /\ IsFiniteSet(Prefix)
  /\ Default \subseteq Prefix
  /\ \A p, q \in Default : FamilyOf[p] = FamilyOf[q] => p = q
  /\ DefaultTable \in Number
  /\ {AutoTable, OffTable, NoMark, Main, Suppress} \cap Number = {}
  /\ Confs \subseteq Conf /\ NoConf \notin Conf

VARIABLES
  link,     \* the interfaces that exist
  device,   \* their fwmarks and the allowed IPs of their peers
  routes,   \* the routes of the host
  rules,    \* how often each policy rule is there
  dns,      \* the interfaces with a resolvconf entry
  file,     \* the configuration files
  pc,       \* where each run is
  cfg,      \* the configuration it has loaded
  todo,     \* the AllowedIPs that Up has still to go through
  added,    \* Up's addedRules
  active,   \* the configuration that each interface was brought up with
  may       \* the weather of this behaviour

host == <<link, device, routes, rules, dns>>
vars == <<link, device, routes, rules, dns, file, pc, cfg, todo, added, active, may>>

NoDevice == [mark |-> NoMark, allowed |-> {}]

Init ==
  /\ link = {}
  /\ device = [d \in Iface |-> NoDevice]
  /\ routes = {}
  /\ rules = [x \in Family \X (Number \cup {Suppress}) |-> 0]
  /\ dns = {}
  /\ file \in [Iface -> Confs]
  /\ pc = [r \in Run |-> "idle"]
  /\ cfg = [r \in Run |-> NoConf]
  /\ todo = [r \in Run |-> <<>>]
  /\ added = [r \in Run |-> {}]
  /\ active = [d \in Iface |-> NoConf]
  /\ may \in Weathers

RouteTable(c) ==
  CASE c.table \in Number -> c.table
    [] c.table \notin Number /\ c.mark # NoMark -> c.mark
    [] OTHER -> DefaultTable

RouteMode(c) ==
  CASE c.table = OffTable -> "off" [] c.table \in Number -> "explicit" [] OTHER -> "auto"

Defaults(c) == {p \in Default : \E i \in DOMAIN c.routes : c.routes[i] = p}
HasDefaultRoute(c) == Defaults(c) # {}

(* The default routes that Up isolates.                                    *)
Isolates(c) == IF RouteMode(c) = "auto" THEN Defaults(c) ELSE {}

Goto(r, from, to) ==
  /\ pc[r] = from
  /\ pc' = [pc EXCEPT ![r] = to]

(* One `ip rule add` adds one rule, one `ip rule del` deletes one of them. *)
AddRule(f, k) == rules' = [rules EXCEPT ![<<f, k>>] = @ + 1]
DelTableRules(F, n) ==
  rules' = [x \in DOMAIN rules |->
              IF x[1] \in F /\ x[2] = n /\ rules[x] > 0 THEN rules[x] - 1 ELSE rules[x]]

DelRules(F, n) ==
  rules' = [x \in DOMAIN rules |->
              IF x[1] \in F /\ x[2] \in {n, Suppress} /\ rules[x] > 0
                THEN rules[x] - 1 ELSE rules[x]]

Route(d, p, n) == [dev |-> d, prefix |-> p, table |-> n]
Taken(p, n) == \E x \in routes : x.prefix = p /\ x.table = n

(* `ip link del` takes routes and addresses with it. *)
DelLink(d) ==
  /\ link' = link \ {d}
  /\ routes' = {x \in routes : x.dev # d}
  /\ device' = [device EXCEPT ![d] = NoDevice]
-----------------------------------------------------------------------------
(* Up                                                                      *)

StartUp(r) ==
  /\ Goto(r, "idle", "preup")
  /\ cfg' = [cfg EXCEPT ![r] = file[OnOf[r]]]
  /\ todo' = [todo EXCEPT ![r] = cfg'[r].routes]
  /\ added' = [added EXCEPT ![r] = {}]
  /\ UNCHANGED <<host, file, active, may>>

(* A PreUp hook fails, or the interface cannot be made: nothing to undo.   *)
UpRefused(r) ==
  /\ \/ Goto(r, "preup", "idle") /\ "hook" \in may
     \/ Goto(r, "add", "idle") /\ (OnOf[r] \in link \/ "link" \in may)
  /\ UNCHANGED <<host, file, cfg, todo, added, active, may>>

PreUp(r) ==
  /\ Goto(r, "preup", "add")
  /\ UNCHANGED <<host, file, cfg, todo, added, active, may>>

AddInterface(r) ==
  /\ Goto(r, "add", "configure")
  /\ OnOf[r] \notin link
  /\ link' = link \cup {OnOf[r]}
  /\ UNCHANGED <<device, routes, rules, dns, file, cfg, todo, added, active, may>>

ConfigureUnmarked(r) ==
  /\ Goto(r, "configure", "address")
  /\ OnOf[r] \in link
  /\ device' = [device EXCEPT ![OnOf[r]] =
                  [mark |-> cfg[r].mark, allowed |-> Range(cfg[r].routes)]]
  /\ UNCHANGED <<link, routes, rules, dns, file, cfg, todo, added, active, may>>

(* ConfigureDevice: in auto mode with a default route the fwmark is the    *)
(* number of the table.                                                    *)
Configure(r) ==
  LET c == cfg[r]
  IN  /\ Goto(r, "configure", "address")
      /\ OnOf[r] \in link
      /\ device' = [device EXCEPT ![OnOf[r]] =
                      [mark    |-> IF Isolates(c) # {} THEN RouteTable(c) ELSE c.mark,
                       allowed |-> Range(c.routes)]]
      /\ UNCHANGED <<link, routes, rules, dns, file, cfg, todo, added, active, may>>

(* Addresses, MTU, link up: the networks of the addresses get routes.      *)
SetLinkUp(r) ==
  /\ Goto(r, "address", "dns")
  /\ OnOf[r] \in link
  /\ routes' = routes \cup {Route(OnOf[r], p, Main) : p \in cfg[r].nets}
  /\ UNCHANGED <<link, device, rules, dns, file, cfg, todo, added, active, may>>

SetDNS(r) ==
  /\ Goto(r, "dns", "routes")
  /\ \/ dns' = IF cfg[r].dns THEN dns \cup {OnOf[r]} ELSE dns
     \/ "dns" \in may /\ dns' = dns
  /\ UNCHANGED <<link, device, routes, rules, file, cfg, todo, added, active, may>>

NextRoute(r) == todo' = [todo EXCEPT ![r] = Tail(@)]

(* Table = off: no route.  A normal route in auto mode is skipped where    *)
(* the interface has one that covers it.                                   *)
Skipped(r) ==
  \/ RouteMode(cfg[r]) = "off"
  \/ /\ RouteMode(cfg[r]) = "auto"
     /\ Head(todo[r]) \notin Default
     /\ \E x \in routes : /\ x.dev = OnOf[r] /\ x.table = Main
                          /\ <<x.prefix, Head(todo[r])>> \in Covers

SkipRoute(r) ==
  /\ pc[r] = "routes"
  /\ todo[r] # <<>>
  /\ Skipped(r)
  /\ NextRoute(r)
  /\ UNCHANGED <<host, file, pc, cfg, added, active, may>>

RouteGoesTo(r) ==
  IF RouteMode(cfg[r]) = "auto" /\ Head(todo[r]) \notin Default
    THEN Main ELSE RouteTable(cfg[r])

CanAddRoute(r) == OnOf[r] \in link /\ ~Taken(Head(todo[r]), RouteGoesTo(r))

AddRoute(r) ==
  /\ pc[r] = "routes"
  /\ todo[r] # <<>>
  /\ ~Skipped(r)
  /\ CanAddRoute(r)
  /\ routes' = routes \cup {Route(OnOf[r], Head(todo[r]), RouteGoesTo(r))}
  /\ IF RouteMode(cfg[r]) = "auto" /\ Head(todo[r]) \in Default
       THEN pc' = [pc EXCEPT ![r] = "rule"] /\ UNCHANGED todo
       ELSE NextRoute(r) /\ UNCHANGED pc
  /\ UNCHANGED <<link, device, rules, dns, file, cfg, added, active, may>>

(* addDefaultRules: the rule for the table, then the one for main.  When   *)
(* the second fails, the first stays.                                      *)
AddTableRule(r) ==
  /\ Goto(r, "rule", "suppress")
  /\ rules[<<FamilyOf[Head(todo[r])], RouteTable(cfg[r])>>] < MostRules
  /\ AddRule(FamilyOf[Head(todo[r])], RouteTable(cfg[r]))
  /\ UNCHANGED <<link, device, routes, dns, file, cfg, todo, added, active, may>>

AddSuppressRule(r) ==
  /\ Goto(r, "suppress", "routes")
  /\ AddRule(FamilyOf[Head(todo[r])], Suppress)
  /\ added' = [added EXCEPT ![r] = @ \cup {FamilyOf[Head(todo[r])]}]
  /\ NextRoute(r)
  /\ UNCHANGED <<link, device, routes, dns, file, cfg, active, may>>

PostUp(r) ==
  /\ Goto(r, "routes", "idle")
  /\ todo[r] = <<>>
  /\ active' = [active EXCEPT ![OnOf[r]] = cfg[r]]
  /\ UNCHANGED <<host, file, cfg, todo, added, may>>

(* A command after the creation of the interface fails.                    *)
UpFails(r) ==
  /\ \/ Goto(r, "configure", "undo") /\ (OnOf[r] \notin link \/ "device" \in may)
     \/ Goto(r, "address", "undo") /\ (OnOf[r] \notin link \/ "address" \in may)
     \/ /\ Goto(r, "routes", "undo")
        /\ IF todo[r] = <<>> THEN "hook" \in may
           ELSE ~Skipped(r) /\ (~CanAddRoute(r) \/ "route" \in may)
     \/ Goto(r, "rule", "undo") /\ "rule" \in may
     \/ Goto(r, "suppress", "undo") /\ "rule" \in may
  /\ UNCHANGED <<host, file, cfg, todo, added, active, may>>

UndoRulesNever(r) ==
  /\ Goto(r, "undo", "unlink")
  /\ UNCHANGED <<host, file, cfg, todo, added, active, may>>

(* The deferred functions of Up: the rules that were added, in pairs, then *)
(* the interface.  The DNS entry stays.                                    *)
UndoRules(r) ==
  /\ Goto(r, "undo", "unlink")
  /\ DelRules(added[r], RouteTable(cfg[r]))
  /\ UNCHANGED <<link, device, routes, dns, file, cfg, todo, added, active, may>>

UndoLink(r) ==
  /\ Goto(r, "unlink", "idle")
  /\ DelLink(OnOf[r])
  /\ UNCHANGED <<rules, dns, file, cfg, todo, added, active, may>>
-----------------------------------------------------------------------------
(* Down and Save                                                           *)

StartDown(r) ==
  /\ Goto(r, "idle", "predown")
  /\ OnOf[r] \in link \/ "stray" \in may
  /\ cfg' = [cfg EXCEPT ![r] = file[OnOf[r]]]
  /\ UNCHANGED <<host, file, todo, added, active, may>>

(* Rules do not go with the interface; Down deletes those that its         *)
(* configuration says Up has added.                                        *)
DownRules(r) ==
  /\ Goto(r, "predown", "del")
  /\ DelRules({FamilyOf[p] : p \in Isolates(cfg[r])}, RouteTable(cfg[r]))
  /\ active' = [active EXCEPT ![OnOf[r]] = NoConf]
  /\ UNCHANGED <<link, device, routes, dns, file, cfg, todo, added, may>>

DownLink(r) ==
  /\ Goto(r, "del", "undns")
  /\ DelLink(OnOf[r])
  /\ UNCHANGED <<rules, dns, file, cfg, todo, added, active, may>>

UnsetDNSNever(r) ==
  /\ Goto(r, "undns", "postdown")
  /\ UNCHANGED <<host, file, cfg, todo, added, active, may>>

UnsetDNS(r) ==
  /\ Goto(r, "undns", "postdown")
  /\ \/ dns' = IF cfg[r].dns THEN dns \ {OnOf[r]} ELSE dns
     \/ "dns" \in may /\ dns' = dns
  /\ UNCHANGED <<link, device, routes, rules, file, cfg, todo, added, active, may>>

PostDown(r) ==
  /\ Goto(r, "postdown", "idle")
  /\ UNCHANGED <<host, file, cfg, todo, added, active, may>>

(* A PreDown hook fails, or the interface cannot be deleted: Down stops.   *)
DownFails(r) ==
  /\ \/ Goto(r, "predown", "idle") /\ "hook" \in may
     \/ Goto(r, "del", "idle") /\ "unlink" \in may /\ OnOf[r] \in link
  /\ UNCHANGED <<host, file, cfg, todo, added, active, may>>

(* A run is killed: nothing is undone. *)
Killed(r) ==
  /\ "kill" \in may
  /\ pc[r] # "idle"
  /\ pc' = [pc EXCEPT ![r] = "idle"]
  /\ UNCHANGED <<host, file, cfg, todo, added, active, may>>

(* The network fields of the file and what the device has now.             *)
Saved(c, dev) == [c EXCEPT !.mark = dev.mark, !.routes = SetToSeq(dev.allowed)]

Save(r) ==
  /\ Goto(r, "idle", "idle")
  /\ "save" \in may
  /\ OnOf[r] \in link
  /\ file' = [file EXCEPT ![OnOf[r]] = Saved(@, device[OnOf[r]])]
  /\ UNCHANGED <<host, cfg, todo, added, active, may>>

(* `wg set` gives a peer another AllowedIPs, or takes one away.            *)
WgSet(d) ==
  /\ "set" \in may
  /\ d \in link
  /\ \E p \in Prefix :
       device' = [device EXCEPT ![d].allowed = IF p \in @ THEN @ \ {p} ELSE @ \cup {p}]
  /\ UNCHANGED <<link, routes, rules, dns, file, pc, cfg, todo, added, active, may>>
-----------------------------------------------------------------------------
Next ==
  \/ \E r \in Run :
       \/ StartUp(r) \/ UpRefused(r) \/ PreUp(r) \/ AddInterface(r) \/ Configure(r)
       \/ SetLinkUp(r) \/ SetDNS(r) \/ SkipRoute(r) \/ AddRoute(r)
       \/ AddTableRule(r) \/ AddSuppressRule(r) \/ PostUp(r) \/ UpFails(r)
       \/ UndoRules(r) \/ UndoLink(r)
       \/ StartDown(r) \/ DownRules(r) \/ DownLink(r) \/ UnsetDNS(r) \/ PostDown(r)
       \/ DownFails(r) \/ Killed(r) \/ Save(r)
  \/ \E d \in Iface : WgSet(d)

Spec == Init /\ [][Next]_vars
-----------------------------------------------------------------------------
(* None of these happens in this behaviour, and no file is saved with      *)
(* other AllowedIPs than its interface was brought up with.                *)
Without(S) == may \cap S = {} /\ ~({"set", "save"} \subseteq may)

(* A policy rule for a table of ours is there once at most, and while it   *)
(* is there the table has the default route it was made for.  Rules do not *)
(* go with the interface (quick_linux.go:127), so each `ip rule add` has   *)
(* to be matched by one `ip rule del` before the link goes, by Down or by  *)
(* the deferred functions of Up, runs that are killed included.            *)
RulesHaveRoutes ==
  Without({"rule"}) =>
    \A f \in Family, n \in Number :
      rules[<<f, n>>] <= Cardinality({x \in routes : /\ x.table = n
                                                    /\ x.prefix \in Default
                                                    /\ FamilyOf[x.prefix] = f})

(* "auto: default routes are isolated" (quick_linux.go:95): whatever other *)
(* interfaces come, fail and go, an interface that is up has its default   *)
(* routes in its table, a rule for that table, the rule that suppresses    *)
(* the default route of main, and the mark that the rule excepts.          *)
Isolated ==
  Without({"kill", "unlink", "stray"}) =>
    \A d \in Iface : active[d] # NoConf =>
      \A p \in Isolates(active[d]) :
        LET n == RouteTable(active[d])
        IN  /\ Route(d, p, n) \in routes
            /\ rules[<<FamilyOf[p], n>>] > 0
            /\ rules[<<FamilyOf[p], Suppress>>] > 0
            /\ device[d].mark = n

(* Rules come and go in pairs (addDefaultRules, delDefaultRules): for each *)
(* table with a rule one suppressing rule, which all interfaces share.     *)
RulesPaired ==
  Without({"rule", "kill", "unlink", "stray"}) =>
    \A f \in Family :
      LET tables == {n \in Number : rules[<<f, n>>] > 0}
          half   == {r \in Run : pc[r] = "suppress" /\ FamilyOf[Head(todo[r])] = f}
      IN  rules[<<f, Suppress>>] + Cardinality(half) = Cardinality(tables)

(* Down "deletes the interface (addresses and routes go with it) and       *)
(* cleans up DNS" (quick_linux.go:116): when it has, nothing of the        *)
(* interface is left, be it that an Up or a Down before it was killed.     *)
DownCleans ==
  [][\A r \in Run : PostDown(r) =>
       LET d == OnOf[r]
       IN  /\ d \notin link
           /\ \A x \in routes : x.dev # d
           /\ "dns" \notin may => d \notin dns]_vars

(* Down "removes the rules that isolate default routes" (quick_linux.go:   *)
(* 116): when every interface has gone, so has every rule.                 *)
NoRulesLeft ==
  link = {} /\ (\A r \in Run : pc[r] = "idle") => \A x \in DOMAIN rules : rules[x] = 0
=============================================================================
