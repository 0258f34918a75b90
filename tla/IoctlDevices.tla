---------------------------- MODULE IoctlDevices ---------------------------
(***************************************************************************)
(* The clients of Windows, OpenBSD and FreeBSD, which ask their kernels by *)
(* ioctl.  The size of a device is not known before it is read: the caller *)
(* offers a buffer, learns what would have been needed and tries again,    *)
(* while devices come, change and go.  On Windows an adapter is opened by  *)
(* its path, which the client remembers for its name; wgd's goroutines     *)
(* share one client, and only those that write hold Server.mu.             *)
(***************************************************************************)
EXTENDS IoctlMemory

CONSTANTS
  Caller,      \* goroutines
  IfName,      \* names of interfaces
  NoName,      \* the name in a slot that the kernel did not fill
  Path,        \* the paths that an adapter of one name may get
  None,        \* no path
  Contents,    \* devices as others create or configure them
  Hosts,       \* the adapters at the beginning
  Guess0,      \* the first size on Windows, 512 bytes in the code
  Plans,       \* per system, what each goroutine is going to call
  MaxHappens   \* bound on what others do

NoAdapter == [path |-> None, started |-> FALSE, dev |-> NoPeers]

ASSUME IoctlTypes ==
  /\ Contents \subseteq Device
  /\ Hosts \subseteq [IfName -> {NoAdapter} \cup [path : Path, started : {TRUE}, dev : Contents]]
  /\ None \notin Path /\ NoName \notin IfName /\ IsFiniteSet(IfName)
  /\ Guess0 \in Nat \ {0} /\ MaxHappens \in Nat

(* Devices has no name; a configuration has so many entries.               *)
IsCall(call) ==
  \/ call.op = "Devices" /\ call.name = NoName
  \/ call.op = "Device" /\ call.name # NoName
  \/ /\ call.op = "Configure" /\ call.name # NoName
     /\ call.cfg \in Config

ASSUME PlanTypes ==
  /\ DOMAIN Plans \subseteq {"windows", "openbsd", "freebsd"}
  /\ \A sys \in DOMAIN Plans : \A calls \in Plans[sys] :
       /\ DOMAIN calls = Caller
       /\ \A c \in Caller : /\ calls[c] \in Seq(ToSet(calls[c]))
                          /\ \A call \in ToSet(calls[c]) : IsCall(call)

VARIABLES
  os,        \* "windows", "openbsd" or "freebsd"
  adapter,   \* the adapter of each name: its path, whether it has started, its device
  denied,    \* the system refuses what the callers ask for
  cache,     \* cachedInterfaces: a path per name
  guess,     \* lastLenGuess
  plan,      \* what each goroutine is going to call
  task,      \* what each goroutine is doing
  happened   \* what others have done

host == <<adapter, denied, happened>>
client == <<cache, guess>>
ivars == <<os, host, client, plan, task>>

UpIn(h, n) == n \in IfName /\ h[n].path # None /\ h[n].started
Members == {n \in IfName : UpIn(adapter, n)}

NoCall == [op |-> "none", name |-> NoName]

(* A goroutine: its call, its local variables, what it has read, and what  *)
(* there was during the call and during calls that had begun before it.    *)
Idle ==
  [at |-> "idle", call |-> NoCall, name |-> NoName, todo |-> <<>>, refreshed |-> FALSE,
   found |-> [n \in IfName |-> None], scan |-> {}, path |-> None, checks |-> 0,
   cap |-> 0, mem |-> <<>>, slots |-> 0, out |-> <<>>, result |-> "",
   had |-> {}, before |-> {}, hurt |-> FALSE, stale |-> FALSE]

InCall(c) == task[c].at # "idle"

IoctlInit ==
  /\ os \in DOMAIN Plans
  /\ plan \in Plans[os]
  /\ adapter \in Hosts
  /\ denied = FALSE
  /\ cache = [n \in IfName |-> None]
  /\ guess = 0
  /\ task = [c \in Caller |-> Idle]
  /\ happened = 0

Becomes(c, from, t) ==
  /\ task[c].at = from
  /\ task' = [task EXCEPT ![c] = t]

Local(c, from, t) == Becomes(c, from, t) /\ UNCHANGED <<os, host, client, plan>>

(* The calls of the others have now seen this, too; a handle does not      *)
(* outlive its adapter.                                                    *)
Shown(others) ==
  [d \in Caller |->
     IF d \notin others \/ ~InCall(d) THEN task[d]
     ELSE [task[d] EXCEPT !.had = @ \cup {adapter'}, !.hurt = @ \/ denied',
             !.path = IF @ # None /\ task[d].at \in {"get", "set"} /\ ~UpIn(adapter', task[d].name)
                        THEN None ELSE @]]
-----------------------------------------------------------------------------
(* Devices, Device and ConfigureDevice.                                    *)
FirstStep(call) ==
  CASE call.op = "Devices" -> IF os = "windows" THEN "snapshot" ELSE "count"
    [] call.op = "Configure" /\ os = "freebsd" -> "check"
    [] OTHER -> IF os = "windows" THEN "lookup" ELSE "get"

UpdateOnlys(config) == Cardinality({i \in DOMAIN config.peers : config.peers[i].updateOnly})

Outdated(n) == cache[n] # None /\ adapter[n].path # cache[n]

IoctlBegin(c) ==
  /\ plan[c] # <<>>
  /\ LET call == Head(plan[c])
         overlapping == {d \in Caller : InCall(d) /\ os = "windows"}
     IN  Becomes(c, "idle",
           [Idle EXCEPT !.at = FirstStep(call), !.call = call, !.name = call.name,
              !.checks = IF call.op = "Configure" THEN UpdateOnlys(call.cfg) ELSE 0,
              !.had = {adapter}, !.hurt = denied, !.stale = \E n \in IfName : Outdated(n),
              !.before = UNION {task[d].had \cup task[d].before : d \in overlapping}])
  /\ plan' = [plan EXCEPT ![c] = Tail(@)]
  /\ UNCHANGED <<os, host, client>>

End(t, result) == [t EXCEPT !.at = "done", !.result = result]

(* A list asks for one device after the other.                             *)
NextDevice(t) ==
  IF t.todo = <<>> THEN End(t, "ok")
  ELSE [t EXCEPT !.at = IF os = "windows" THEN "lookup" ELSE "get",
                 !.name = Head(t.todo), !.todo = Tail(t.todo),
                 !.refreshed = FALSE, !.cap = 0, !.mem = <<>>]

Delivered(t, peers) ==
  LET read == [t EXCEPT !.out = Append(@, [name |-> t.name, peers |-> peers])]
  IN  CASE t.call.op = "Devices" -> NextDevice(read)
        [] t.call.op = "Device" -> End(read, "ok")
        [] OTHER -> End(t, "readonly")

IoctlReturn(c) == Local(c, "done", Idle)

(* Any other error of the system.  FreeBSD's check takes it for a device.  *)
SystemFails(c) ==
  /\ denied
  /\ \/ \E at \in {"snapshot", "get", "set", "count", "fetch"} : Local(c, at, End(task[c], "failed"))
     \/ task[c].checks > 0 /\ Local(c, "check", End(task[c], "unsupported"))
-----------------------------------------------------------------------------
(* Windows.  refreshInterfaceCache takes the list of adapters, then asks   *)
(* for the name, the state and the path of each; one that goes meanwhile,  *)
(* or has not started, is left out.                                        *)
Snapshot(c) ==
  /\ ~denied
  /\ Local(c, "snapshot", [task[c] EXCEPT !.at = "scan", !.found = Idle.found,
                             !.scan = {n \in IfName : adapter[n].path # None}])

Scan(c) ==
  \E n \in task[c].scan :
    Local(c, "scan", [task[c] EXCEPT !.scan = @ \ {n},
                        !.found[n] = IF UpIn(adapter, n) THEN adapter[n].path ELSE None])

Publish(c) ==
  /\ task[c].scan = {}
  /\ Becomes(c, "scan", [task[c] EXCEPT !.at = IF task[c].name = NoName THEN "range" ELSE "lookup",
                           !.found = Idle.found, !.refreshed = TRUE])
  /\ cache' = task[c].found
  /\ UNCHANGED <<os, host, guess, plan>>

(* Devices goes over the map it finds, its own or a later one.             *)
RangeCache(c) ==
  Local(c, "range", NextDevice([task[c] EXCEPT !.todo = SetToSeq({n \in IfName : cache[n] # None})]))

(* interfaceHandle: a name that is not in the cache is looked for once.    *)
(* Slip to exclude: it is not looked for.                                  *)
LookupOnce(c) ==
  LET t == task[c] IN
  Local(c, "lookup",
        IF t.name \in IfName /\ cache[t.name] # None THEN [t EXCEPT !.at = "open", !.path = cache[t.name]]
        ELSE End(t, "missing"))

Lookup(c) ==
  LET t == task[c]
      known == t.name \in IfName /\ cache[t.name] # None
  IN
  Local(c, "lookup",
        CASE known -> [t EXCEPT !.at = "open", !.path = cache[t.name]]
          [] ~known /\ t.refreshed -> End(t, "missing")
          [] OTHER -> [t EXCEPT !.at = "snapshot"])

Reachable(t) == UpIn(adapter, t.name) /\ adapter[t.name].path = t.path

(* CreateFile: a path that is not there any more is ERROR_FILE_NOT_FOUND,  *)
(* which is os.ErrNotExist to errors.Is.                                   *)
Open(c) ==
  LET t == task[c] IN
  /\ Reachable(t) => ~denied
  /\ Local(c, "open",
           CASE ~Reachable(t) -> End(t, "missing")
             [] Reachable(t) /\ t.call.op = "Configure" -> 
               [t EXCEPT !.at = "set", !.mem = BuildConfiguration(t.call.cfg)]
             [] OTHER -> [t EXCEPT !.at = "get", !.cap = IF guess = 0 THEN Guess0 ELSE guess])

(* Slip to exclude: it is tried again with a new map, too.                 *)
OpenFailsAgain(c) ==
  /\ denied /\ Reachable(task[c])
  /\ Local(c, "open", [task[c] EXCEPT !.at = "lookup"])

(* Any other error ends the call if the cache is new; otherwise the loop   *)
(* goes round, with the same path and without waiting.                     *)
OpenFails(c) ==
  /\ denied /\ Reachable(task[c])
  /\ Local(c, "open", IF task[c].refreshed THEN End(task[c], "failed")
                      ELSE [task[c] EXCEPT !.at = "lookup"])

(* DeviceIoControl(IoctlGet): ERROR_MORE_DATA comes with the size, which   *)
(* is the next guess for all when it was enough.                           *)
GetWindows(c) ==
  LET t == task[c] IN
  /\ t.at = "get" /\ os = "windows" /\ ~denied
  /\ \/ ~Reachable(t) /\ Local(c, "get", End(t, "failed"))
     \/ /\ Reachable(t)
        /\ \E mem \in {DeviceCells(adapter[t.name].dev)} :
             \/ Len(mem) > t.cap /\ Local(c, "get", [t EXCEPT !.cap = Len(mem)])
             \/ /\ Len(mem) <= t.cap
                /\ Becomes(c, "get", Delivered(t, ParseConfiguration(mem)))
                /\ guess' = Len(mem)
                /\ UNCHANGED <<os, host, cache, plan>>
-----------------------------------------------------------------------------
(* OpenBSD and FreeBSD.  Devices asks how many names there are in the      *)
(* group "wg" and then for the names; more of them than before do not fit, *)
(* for fewer of them the last slots stay empty.  Slip to exclude: what     *)
(* does not fit is left out.                                               *)
Count(c) ==
  /\ ~denied
  /\ Local(c, "count", IF Members = {} THEN End(task[c], "missing")
                       ELSE [task[c] EXCEPT !.at = "fetch", !.slots = Cardinality(Members)])

FetchShort(c) ==
  LET n == Cardinality(Members)
      t == task[c]
  IN
  /\ ~denied
  /\ Local(c, "fetch",
           CASE n = 0 -> End(t, "missing")
             [] OTHER -> NextDevice([t EXCEPT !.todo =
                           SubSeq(SetToSeq(Members) \o [i \in 1..(t.slots - n) |-> NoName], 1, t.slots)]))

Fetch(c) ==
  LET n == Cardinality(Members)
      t == task[c]
  IN
  /\ ~denied
  /\ Local(c, "fetch",
           CASE n = 0 -> End(t, "missing")
             [] n > t.slots -> End(t, "failed")
             [] OTHER -> NextDevice([t EXCEPT !.todo =
                           SetToSeq(Members) \o [i \in 1..(t.slots - n) |-> NoName]]))

(* The first ioctl has no memory and gets the size; each one with less     *)
(* than what is needed gets the size, too.                                 *)
GetBSD(c) ==
  LET t == task[c] IN
  /\ t.at = "get" /\ os # "windows" /\ ~denied
  /\ \/ ~UpIn(adapter, t.name) /\ Local(c, "get", End(t, "missing"))
     \/ /\ UpIn(adapter, t.name)
        /\ \E mem \in {DeviceCells(adapter[t.name].dev)}, list \in {DeviceList(adapter[t.name].dev)} :
             \/ Len(mem) > t.cap /\ Local(c, "get", [t EXCEPT !.cap = Len(mem)])
             \/ Len(mem) <= t.cap /\ Local(c, "get", Delivered(t, IF os = "openbsd" THEN ParseDevice(mem)
                                                      ELSE ParseList(list)))

(* ConfigureDevice on FreeBSD: the kernel has no update-only, so for each  *)
(* such entry the device is read, to be able to say that it is unsupported *)
(* or that there is no device; then the list is sent all the same.         *)
Check(c) ==
  LET t == task[c]
      dev == adapter[t.name].dev
  IN
  /\ t.checks > 0 => ~denied
  /\ Local(c, "check",
           CASE t.checks = 0 -> [t EXCEPT !.at = "set", !.mem = UnparseConfig(t.call.cfg)]
             [] t.checks > 0 /\ ~UpIn(adapter, t.name) -> [t EXCEPT !.checks = @ - 1, !.cap = 0]
             [] t.checks > 0 /\ UpIn(adapter, t.name) /\ Size(dev) > t.cap -> [t EXCEPT !.cap = Size(dev)]
             [] OTHER -> End(t, "unsupported"))

Asked(mem) == IF os = "windows" THEN CellsMessage(mem) ELSE ListMessage(mem)

There(t) == IF os = "windows" THEN Reachable(t) ELSE UpIn(adapter, t.name)

(* The second ioctl of ConfigureDevice.                                    *)
Set(c) ==
  /\ task[c].at = "set" /\ ~denied
  /\ LET t == task[c] IN
     \/ /\ There(t)
        /\ adapter' = [adapter EXCEPT ![t.name].dev = SetDevice(@, Asked(t.mem))]
        /\ UNCHANGED denied
        /\ task' = [Shown(Caller \ {c}) EXCEPT ![c] = End(t, "ok")]
     \/ /\ ~There(t)
        /\ UNCHANGED <<adapter, denied>>
        /\ task' = [task EXCEPT ![c] = End(t, IF os = "windows" THEN "failed" ELSE "missing")]
  /\ UNCHANGED <<os, happened, client, plan>>
-----------------------------------------------------------------------------
(* What others do: an adapter that comes again may have its old path or a  *)
(* new one.  On Windows it takes a while to start.                         *)
Others(n) ==
  \/ /\ adapter[n].path = None
     /\ \E p \in Path, d \in Contents :
          adapter' = [adapter EXCEPT ![n] = [path |-> p, started |-> os # "windows", dev |-> d]]
  \/ /\ adapter[n].path # None
     /\ \/ adapter' = [adapter EXCEPT ![n] = NoAdapter]
        \/ \E d \in Contents \ {adapter[n].dev} : adapter' = [adapter EXCEPT ![n].dev = d]

Happens ==
  /\ happened < MaxHappens
  /\ happened' = happened + 1
  /\ \/ UNCHANGED denied /\ \E n \in IfName : Others(n)
     \/ denied' = ~denied /\ UNCHANGED adapter
  /\ task' = Shown(Caller)
  /\ UNCHANGED <<os, client, plan>>

AdapterStarts ==
  /\ \E n \in IfName : /\ adapter[n].path # None /\ ~adapter[n].started
                       /\ adapter' = [adapter EXCEPT ![n].started = TRUE]
  /\ UNCHANGED denied
  /\ task' = Shown(Caller)
  /\ UNCHANGED <<os, happened, client, plan>>
-----------------------------------------------------------------------------
IoctlStep(c) ==
  \/ IoctlReturn(c) \/ SystemFails(c)
  \/ Snapshot(c) \/ Scan(c) \/ Publish(c) \/ RangeCache(c)
  \/ Lookup(c) \/ Open(c) \/ OpenFails(c) \/ GetWindows(c)
  \/ Count(c) \/ Fetch(c) \/ GetBSD(c) \/ Check(c) \/ Set(c)

IoctlNext ==
  \/ \E c \in Caller : IoctlBegin(c) \/ IoctlStep(c)
  \/ Happens \/ AdapterStarts

(* A call that can go on goes on.                                          *)
IoctlFairness == \A c \in Caller : WF_task(IoctlStep(c))
-----------------------------------------------------------------------------
Done(c) == task[c].at = "done"
History(c) == task[c].had \cup task[c].before

(* What a read returns is the whole device as it was at one moment of the  *)
(* call, although its size may change between the ioctls ("the data.Size   *)
(* field changes between call 1 and 2, so the caller must loop again",     *)
(* client_openbsd_test.go:57) and another goroutine sets the next size     *)
(* (client_windows.go:148-164).  A list has every device that was there    *)
(* all the time, once; on Windows "all the time" begins with the calls of  *)
(* other goroutines that were under way, whose older map may win.          *)
IoctlTruthful ==
  \A c \in Caller : Done(c) /\ task[c].result = "ok" =>
    LET out == task[c].out IN
    /\ \A i \in DOMAIN out : \E h \in task[c].had :
         /\ h[out[i].name].path # None
         /\ ToSet(out[i].peers) = PeersOf(h[out[i].name].dev)
         /\ Len(out[i].peers) = Cardinality(PeersOf(h[out[i].name].dev))
    /\ \A i, j \in DOMAIN out : out[i].name = out[j].name => i = j
    /\ task[c].call.op = "Devices" =>
         \A n \in IfName : (\A h \in History(c) : UpIn(h, n)) => \E i \in DOMAIN out : out[i].name = n

Expected(call, h) ==
  CASE call.op = "Devices" ->
         IF os = "windows" \/ (\E n \in IfName : UpIn(h, n)) THEN "ok" ELSE "missing"
    [] call.op # "Devices" /\ ~UpIn(h, call.name) -> "missing"
    [] call.op = "Configure" /\ UpIn(h, call.name) /\ os = "openbsd" -> "readonly"
    [] call.op = "Configure" /\ UpIn(h, call.name) /\ os = "freebsd" /\ UpdateOnlys(call.cfg) > 0
         -> "unsupported"
    [] OTHER -> "ok"

SaysMissing(c) == Done(c) /\ task[c].call.op # "Devices" /\ task[c].result = "missing"

(* If nothing happens during a call it ends as it must.  And whatever      *)
(* happens, "not found" (client.go:61) is said only of a device that was   *)
(* missing at some moment, as long as the cache had no path of an adapter  *)
(* that had gone (client_windows.go:90-108).                               *)
IoctlErrors ==
  \A c \in Caller : Done(c) /\ ~task[c].stale =>
    /\ ~task[c].hurt => \A h \in History(c) :
                          History(c) = {h} => task[c].result = Expected(task[c].call, h)
    /\ SaysMissing(c) => \E h \in History(c) : ~UpIn(h, task[c].name)

(* ConfigureDevice leaves the device as its configuration says, entry by   *)
(* entry (types.go:275-315): the counts, flags and order in the memory     *)
(* say the same as the configuration (client_windows.go:253-313,           *)
(* client_freebsd.go:473-545).  On FreeBSD a configuration with an         *)
(* update-only entry is sent only when the device was missing; should it   *)
(* have come meanwhile, the entry adds its peer.                           *)
ConfiguresAsAsked ==
  [][\A c \in Caller :
       LET t == task[c]
           emulated == os = "freebsd" /\ UpdateOnlys(t.call.cfg) > 0
       IN  Set(c) /\ There(t) /\ ~emulated =>
             adapter' = [adapter EXCEPT ![t.name].dev = SetDevice(@, Message(t.call.cfg))]]_ivars

(* Every call returns, however the size of a device changes, unless the    *)
(* system refuses for ever to open a path that was in the cache: that call *)
(* goes round without end (client_windows.go:89-109), every other one      *)
(* fails (client_windows.go:158-163, client_openbsd.go:139).               *)
Refused(c) == denied /\ task[c].at \in {"lookup", "open"} /\ ~task[c].refreshed

IoctlReturns ==
  \A c \in Caller : []<>~Refused(c) => (InCall(c) ~> ~InCall(c))

(* "If the device specified by name does not exist or is not a WireGuard   *)
(* device, an error is returned which can be checked using                 *)
(* errors.Is(err, os.ErrNotExist)" (client.go:60-61): so one that was      *)
(* there all the time is found.  On Windows it is not, when the cache has  *)
(* the path of an earlier adapter with its name: CreateFile fails and the  *)
(* entry stays (client_windows.go:106).                                    *)
NotFoundIsMissing ==
  \A c \in Caller : SaysMissing(c) => \E h \in task[c].had : ~UpIn(h, task[c].name)
=============================================================================
