------------------------------ MODULE Devices ------------------------------
(***************************************************************************)
(* The public client (client.go) and the two backends it asks in turn on   *)
(* Linux: the kernel (internal/wglinux), whose answers come in pieces that *)
(* are merged, and the sockets of userspace daemons (internal/wguser),     *)
(* whose answers are parsed line by line.  Interfaces come, change and go  *)
(* while a call is under way.                                              *)
(***************************************************************************)
EXTENDS Naturals, Sequences, FiniteSets, SequencesExt

CONSTANTS
  Name,        \* names of interfaces
  Device,      \* what an interface may be: its peers with their allowed IPs
  None,        \* no such interface, no such socket
  Stale,       \* a socket that a daemon left behind
  Key,         \* public keys
  IP,          \* allowed IPs
  Weathers,    \* which of "denied", "lost" and "killed" may happen together
  MaxChanges   \* bound on what happens to interfaces during one call

Peer == [key : Key, ips : Seq(IP)]
Backend == {"kernel", "user"}
Op == {"Devices", "Device", "ConfigureDevice"}

(* The kernel lists each peer of a device once. *)
ASSUME DeviceTypes ==
  /\ Device \subseteq {d \in Seq(Peer) :
                         \A i, j \in DOMAIN d : d[i].key = d[j].key => i = j}
  /\ None \notin Device /\ Stale \notin Device /\ None # Stale
  /\ Name # {}
  /\ MaxChanges \in Nat

VARIABLES
  host,      \* the interfaces of the kernel and the sockets
  pc, op, name, cfg,   \* the call: its position and its arguments
  at,        \* the backend it is asking
  todo,      \* the names it has still to ask that backend for
  cur,       \* the name it reads now
  rest,      \* what has yet to come of an answer
  got,       \* the peers parsed or merged so far
  known,     \* knownPeers: where a key is in got, or 0
  out,       \* the devices read
  result,    \* how the call ended
  seen,      \* history: what there was at any time during the call
  present,   \* history: what was there, in some form, all the time
  changed,   \* history: the backends that the call has changed
  changes,   \* history: what happened to interfaces during the call
  wrote,     \* history: <<name, peers>> as configured while nothing happened
  may        \* the weather of this behaviour

call == <<op, name, cfg>>
reading == <<cur, rest, got, known>>
history == <<seen, present, changes>>
vars == <<host, pc, call, at, todo, reading, out, result, history, changed, wrote, may>>

IsUp(h, b, n) == h[b][n] \notin {None, Stale}
Up(h) == {x \in Backend \X Name : IsUp(h, x[1], x[2])}
Versions(h) == {[on |-> x[1], name |-> x[2], peers |-> h[x[1]][x[2]]] : x \in Up(h)}

AnyName == CHOOSE n \in Name : TRUE

Init ==
  /\ host \in [Backend -> [Name -> Device \cup {None, Stale}]]
  /\ \A n \in Name : host["kernel"][n] # Stale
  /\ may \in Weathers
  /\ pc = "idle"
  /\ op = "Devices" /\ name = AnyName /\ cfg = <<>>
  /\ at = "kernel" /\ todo = {} /\ cur = AnyName
  /\ rest = <<>> /\ got = <<>> /\ known = [k \in Key |-> 0]
  /\ out = <<>> /\ result = "ok"
  /\ seen = {} /\ present = {} /\ changes = 0 /\ changed = {} /\ wrote = <<>>
-----------------------------------------------------------------------------
(* Client.Devices, Device and ConfigureDevice: backend after backend.      *)

BeginAtUser ==
  /\ pc = "idle"
  /\ pc' = "list"
  /\ op' \in Op
  /\ name' \in IF op' = "Devices" THEN {name} ELSE Name
  /\ cfg' \in IF op' = "ConfigureDevice" THEN Device ELSE {cfg}
  /\ at' = IF op' = "ConfigureDevice" THEN "user" ELSE "kernel"
  /\ out' = <<>>
  /\ seen' = Versions(host)
  /\ present' = Up(host)
  /\ changed' = {}
  /\ changes' = 0
  /\ UNCHANGED <<host, todo, reading, result, wrote, may>>

Begin ==
  /\ pc = "idle"
  /\ pc' = "list"
  /\ op' \in Op
  /\ name' \in IF op' = "Devices" THEN {name} ELSE Name
  /\ cfg' \in IF op' = "ConfigureDevice" THEN Device ELSE {cfg}
  /\ at' = "kernel"
  /\ out' = <<>>
  /\ seen' = Versions(host)
  /\ present' = Up(host)
  /\ changed' = {}
  /\ changes' = 0
  /\ UNCHANGED <<host, todo, reading, result, wrote, may>>

Finish(r) ==
  /\ pc' = "done"
  /\ result' = r

(* rtnlInterfaces and findUNIXSockets list what there is; the kernel is    *)
(* asked for a single name at once.                                        *)
List ==
  /\ pc = "list"
  /\ pc' = "next"
  /\ todo' = LET wanted == IF op = "Devices" THEN Name ELSE {name}
             IN  IF at = "kernel" /\ op # "Devices" THEN wanted
                 ELSE {n \in wanted : host[at][n] # None}
  /\ UNCHANGED <<host, call, at, reading, out, result, history, changed, wrote, may>>

NextBackendFirstHit ==
  /\ pc = "next"
  /\ todo = {}
  /\ IF at = "kernel" /\ out = <<>>
       THEN pc' = "list" /\ at' = "user" /\ UNCHANGED result
       ELSE Finish(IF op = "Devices" THEN "ok" ELSE "missing") /\ UNCHANGED at
  /\ UNCHANGED <<host, call, todo, reading, out, history, changed, wrote, may>>

NextBackend ==
  /\ pc = "next"
  /\ todo = {}
  /\ IF at = "kernel"
       THEN pc' = "list" /\ at' = "user" /\ UNCHANGED result
       ELSE Finish(IF op = "Devices" THEN "ok" ELSE "missing") /\ UNCHANGED at
  /\ UNCHANGED <<host, call, todo, reading, out, history, changed, wrote, may>>

NotThereAnywhere(n) ==
  /\ pc = "next"
  /\ n \in todo
  /\ host[at][n] = None
  /\ Finish(IF op = "Devices" THEN "failed" ELSE "missing")
  /\ todo' = todo \ {n}
  /\ UNCHANGED <<host, call, at, reading, out, history, changed, wrote, may>>

NotThereAgain(n) ==
  /\ pc = "next"
  /\ n \in todo
  /\ host[at][n] = None
  /\ IF op = "Devices" THEN Finish("failed") ELSE UNCHANGED <<pc, result>>
  /\ UNCHANGED <<host, call, at, todo, reading, out, history, changed, wrote, may>>

(* The interface is not there (ENODEV), or its socket is not (ENOENT, when *)
(* it went after the listing): one name is then looked for further on, a   *)
(* list of devices fails.                                                  *)
NotThere(n) ==
  /\ pc = "next"
  /\ n \in todo
  /\ host[at][n] = None
  /\ IF op = "Devices" THEN Finish("failed") ELSE UNCHANGED <<pc, result>>
  /\ todo' = todo \ {n}
  /\ UNCHANGED <<host, call, at, reading, out, history, changed, wrote, may>>

(* Any other error: nobody listens at the socket, or the caller is not     *)
(* allowed to ask the kernel.                                              *)
Refused(n) ==
  /\ pc = "next"
  /\ n \in todo
  /\ host[at][n] = Stale \/ (at = "kernel" /\ "denied" \in may)
  /\ Finish("failed")
  /\ UNCHANGED <<host, call, at, todo, reading, out, history, changed, wrote, may>>

(* The answer to `set=1` may be lost after the daemon has done it. *)
Configure(n) ==
  /\ pc = "next"
  /\ n \in todo
  /\ op = "ConfigureDevice"
  /\ IsUp(host, at, n)
  /\ host' = [host EXCEPT ![at][n] = cfg]
  /\ changed' = changed \cup {at}
  /\ \/ Finish("ok") /\ wrote' = IF changes = 0 THEN <<n, cfg>> ELSE <<>>
     \/ /\ at = "user" /\ "lost" \in may
        /\ Finish("failed")
        /\ wrote' = <<>>
  /\ seen' = seen \cup Versions(host')
  /\ UNCHANGED <<call, at, todo, reading, out, present, changes, may>>

StartReadingUnchecked(n) ==
  /\ pc = "next"
  /\ n \in todo
  /\ op # "ConfigureDevice"
  /\ pc' = "read"
  /\ cur' = n
  /\ todo' = todo \ {n}
  /\ rest' = host[at][n]
  /\ got' = <<>>
  /\ known' = [k \in Key |-> 0]
  /\ UNCHANGED <<host, call, at, out, result, history, changed, wrote, may>>

(* The dump, or the answer to `get=1`, is of one moment.                   *)
StartReading(n) ==
  /\ pc = "next"
  /\ n \in todo
  /\ op # "ConfigureDevice"
  /\ IsUp(host, at, n)
  /\ pc' = "read"
  /\ cur' = n
  /\ todo' = todo \ {n}
  /\ rest' = host[at][n]
  /\ got' = <<>>
  /\ known' = [k \in Key |-> 0]
  /\ UNCHANGED <<host, call, at, out, result, history, changed, wrote, may>>
-----------------------------------------------------------------------------
(* What remains of an answer after n more IPs of the peer at its head.     *)
Remains(n) ==
  IF n = Len(Head(rest).ips) THEN Tail(rest)
  ELSE <<[Head(rest) EXCEPT !.ips = SubSeq(@, n + 1, Len(@))]>> \o Tail(rest)

(* The kernel cuts an answer into messages where it likes, within the IPs  *)
(* of a peer, too, and names the peer again in the next one; mergeDevices  *)
(* puts the parts together.                                                *)
MergeForgetful(p) ==
  /\ known' = known
  /\ got' = IF known[p.key] # 0 THEN [got EXCEPT ![known[p.key]].ips = @ \o p.ips]
            ELSE Append(got, p)

Merge(p) ==
  IF known[p.key] # 0
    THEN /\ got' = [got EXCEPT ![known[p.key]].ips = @ \o p.ips]
         /\ UNCHANGED known
    ELSE /\ got' = Append(got, p)
         /\ known' = [known EXCEPT ![p.key] = Len(got')]

Piece ==
  /\ pc = "read"
  /\ at = "kernel"
  /\ rest # <<>>
  /\ \E n \in 0..Len(Head(rest).ips) :
       /\ n > 0 \/ known[Head(rest).key] = 0
       /\ Merge([Head(rest) EXCEPT !.ips = SubSeq(@, 1, n)])
       /\ rest' = Remains(n)
  /\ UNCHANGED <<host, pc, call, at, todo, cur, out, result, history, changed, wrote, may>>

(* deviceParser: a public_key begins a peer, an allowed_ip is of the last. *)
Begun == got # <<>> /\ Last(got).key = Head(rest).key

Line ==
  /\ pc = "read"
  /\ at = "user"
  /\ rest # <<>>
  /\ IF Begun
       THEN /\ got' = [got EXCEPT ![Len(got)].ips = Append(@, Head(Head(rest).ips))]
            /\ rest' = Remains(1)
       ELSE /\ got' = Append(got, [Head(rest) EXCEPT !.ips = <<>>])
            /\ rest' = Remains(0)
  /\ UNCHANGED <<host, pc, call, at, todo, cur, known>>
  /\ UNCHANGED <<out, result, history, changed, wrote, may>>

Deliver ==
  /\ out' = Append(out, [on |-> at, name |-> cur, peers |-> got])
  /\ IF op = "Devices" THEN pc' = "next" /\ UNCHANGED result ELSE Finish("ok")

(* The last message of a dump, or the empty line. *)
EndOfAnswer ==
  /\ pc = "read"
  /\ rest = <<>>
  /\ Deliver
  /\ UNCHANGED <<host, call, at, todo, reading, history, changed, wrote, may>>

(* The daemon has been killed in the middle of its answer: the end of the  *)
(* stream is taken for the end of the answer (parse.go:51).                *)
EndOfStream ==
  /\ pc = "read"
  /\ at = "user"
  /\ "killed" \in may
  /\ rest # <<>>
  /\ host["user"][cur] = Stale
  /\ Deliver
  /\ UNCHANGED <<host, call, at, todo, reading, history, changed, wrote, may>>

Return ==
  /\ pc = "done"
  /\ pc' = "idle"
  /\ op' = "Devices" /\ name' = AnyName /\ cfg' = <<>>
  /\ at' = "kernel" /\ todo' = {} /\ cur' = AnyName
  /\ rest' = <<>> /\ got' = <<>> /\ known' = [k \in Key |-> 0]
  /\ out' = <<>> /\ result' = "ok"
  /\ seen' = {} /\ present' = {} /\ changes' = 0 /\ changed' = {}
  /\ UNCHANGED <<host, may, wrote>>

(* Interfaces and daemons come, are configured by others and go; a daemon  *)
(* that is killed leaves its socket.                                       *)
Happens ==
  /\ pc \notin {"idle", "done"}
  /\ changes < MaxChanges
  /\ changes' = changes + 1
  /\ \E b \in Backend, n \in Name, d \in Device \cup {None, Stale} :
       /\ d # host[b][n]
       /\ d = Stale => IsUp(host, b, n) /\ b = "user"
       /\ host' = [host EXCEPT ![b][n] = d]
  /\ seen' = seen \cup Versions(host')
  /\ present' = present \cap Up(host')
  /\ wrote' = <<>>
  /\ UNCHANGED <<pc, call, at, todo, reading, out, result, changed, may>>
-----------------------------------------------------------------------------
Step ==
  \/ List \/ NextBackend \/ Piece \/ Line \/ EndOfAnswer \/ EndOfStream \/ Return
  \/ \E n \in Name : NotThere(n) \/ Refused(n) \/ Configure(n) \/ StartReading(n)

Next == Begin \/ Step \/ Happens

Spec == Init /\ [][Next]_vars

(* A call that can go on goes on; a daemon that is asked answers.          *)
FairSpec == Spec /\ WF_vars(Step)
-----------------------------------------------------------------------------
(* Type invariant of a call and of what it asks.                           *)
TypeOK ==
  /\ host \in [Backend -> [Name -> Device \cup {None, Stale}]]
  /\ pc \in {"idle", "list", "next", "read", "done"}
  /\ op \in Op /\ name \in Name /\ cfg \in Device \cup {<<>>}
  /\ at \in Backend /\ todo \subseteq Name /\ cur \in Name
  /\ rest \in Seq(Peer) /\ got \in Seq(Peer) /\ known \in [Key -> Nat]
  /\ out \in Seq([on : Backend, name : Name, peers : Seq(Peer)])
  /\ result \in {"ok", "missing", "failed"}

Part(p, q) ==
  /\ Len(p) <= Len(q)
  /\ \A i \in DOMAIN p :
       IF i < Len(p) THEN p[i] = q[i]
       ELSE p[i].key = q[i].key /\ IsPrefix(p[i].ips, q[i].ips)

(* What a call returns was there, as a whole, at some moment of the call:  *)
(* merging (parse_linux.go:300) and parsing lose, repeat and mix nothing   *)
(* wherever the kernel cuts its answer.  Of a daemon that was killed it is *)
(* the beginning of such a device.                                         *)
Truthful ==
  \A i \in DOMAIN out :
    \/ out[i] \in seen
    \/ /\ out[i].on = "user" /\ "killed" \in may
       /\ \E v \in seen : /\ v.on = "user" /\ v.name = out[i].name
                          /\ Part(out[i].peers, v.peers)

(* Devices returns every device that was there all the time, each once,    *)
(* those of the kernel first (client.go:45, os_linux.go:33).               *)
Complete ==
  op = "Devices" /\ pc = "done" /\ result = "ok" =>
    /\ \A x \in present : \E i \in DOMAIN out : x = <<out[i].on, out[i].name>>
    /\ \A i, j \in DOMAIN out : i < j =>
         /\ <<out[i].on, out[i].name>> # <<out[j].on, out[j].name>>
         /\ out[i].on = "user" => out[j].on = "user"

(* What an error says (client.go:60-98).  os.ErrNotExist says that no      *)
(* backend had the device all the time.  ConfigureDevice changes the       *)
(* device of one backend at most, and then reports no error, unless the    *)
(* answer was lost.  And while nothing happens to interfaces no call fails: *)
(* a device that one backend does not have is found in the other.          *)
Missing == pc = "done" /\ result = "missing"
Quiet   == changes = 0 /\ may = {} /\ \A n \in Name : host["user"][n] # Stale

ErrorsAreTrue ==
  /\ Missing => changed = {} /\ \A b \in Backend : <<b, name>> \notin present
  /\ Cardinality(changed) <= 1
  /\ pc = "done" /\ changed # {} /\ "lost" \notin may => result = "ok"
  /\ pc = "done" /\ Quiet =>
       /\ result # "failed"
       /\ op # "Devices" => (result = "ok" <=> \E b \in Backend : IsUp(host, b, name))

(* Device shows what ConfigureDevice has written, if nothing happened      *)
(* during either: both ask the backends in one order, whatever other       *)
(* device has that name.                                                   *)
ReadsBack ==
  op = "Device" /\ pc = "done" /\ result = "ok" =>
    (wrote # <<>> /\ wrote[1] = name => out[1].peers = wrote[2])

(* Every call returns, whatever happens to interfaces meanwhile.           *)
CallReturns == pc # "idle" ~> pc = "idle"
=============================================================================
