----------------------------- MODULE ConfApply -----------------------------
(***************************************************************************)
(* internal/wgconf.Apply and Sync under their callers: the POST and PUT    *)
(* handlers of the wgd server (internal/wgapi), which run them with        *)
(* Server.mu held, and runs of `wg setconf/addconf/syncconf` (cmd/wg),     *)
(* which do not.  A request is applied in two places that no transaction   *)
(* spans: the peers of the device, then the names file.                    *)
(*                                                                         *)
(* Store.Update is one step here: FileProofs!StoreIsAtomic.                *)
(***************************************************************************)
EXTENDS ConfData

CONSTANTS
  Task,       \* request handlers and command runs
  Handlers,   \* those of them that are goroutines of wgd
  Iface,      \* WireGuard interfaces
  File,       \* names files
  FileOf,     \* wgmeta.ResolveFile: the file of each interface
  Request,    \* what clients may ask for
  Faults,     \* what may go wrong: "device", "store", "link", "kill"
  NoTask,     \* the holder of a free Server.mu
  NoRequest   \* a task with nothing to do

ASSUME TaskTypes    == Handlers \subseteq Task /\ NoTask \notin Task
ASSUME FileOfType   == FileOf \in [Iface -> File]
ASSUME RequestTypes ==
  /\ Request \subseteq [iface : Iface, cfg : Config, sync : BOOLEAN, via : {"post", "conf"}]
  /\ NoRequest \notin Request

VARIABLES
  up,      \* the interfaces that exist
  peers,   \* the peers of each interface
  names,   \* the content of each names file
  mu,      \* the holder of Server.mu
  pc,      \* where each task is
  req,     \* its request
  cfg,     \* its configuration, after Sync has added removals
  exists   \* Apply's local: the peers it read back from the device

vars == <<up, peers, names, mu, pc, req, cfg, exists>>

AConfig == [replace |-> FALSE, peers |-> <<>>]

(* Every name in a file belongs to a peer of an interface that uses it.    *)
Init ==
  /\ up = Iface
  /\ peers \in [Iface -> SUBSET (Key \ {SelfKey})]
  /\ names \in [File -> NameMap]
  /\ \A f \in File :
       Named(names[f]) \subseteq UNION {peers[d] : d \in {e \in Iface : FileOf[e] = f}}
  /\ mu = NoTask
  /\ pc = [t \in Task |-> "idle"]
  /\ req = [t \in Task |-> NoRequest]
  /\ cfg = [t \in Task |-> AConfig]
  /\ exists = [t \in Task |-> {}]

Goto(t, from, to) ==
  /\ pc[t] = from
  /\ pc' = [pc EXCEPT ![t] = to]

Dev(t)  == req[t].iface
Path(t) == FileOf[Dev(t)]

(* Sync reads the device first; Apply starts with ConfigureDevice. *)
FirstStep(r) == IF r.sync THEN "current" ELSE "configure"

(* A request arrives.  handleDeviceResource takes the lock before it       *)
(* decodes the body; handleDeviceConf and the wg command parse first.      *)
Arrive(t) ==
  \E r \in Request :
    /\ t \notin Handlers => r.via = "conf"
    /\ Goto(t, "idle", IF r.via = "post" THEN "lock" ELSE "parse")
    /\ req' = [req EXCEPT ![t] = r]
    /\ UNCHANGED <<up, peers, names, mu, cfg, exists>>

Parse(t) ==
  /\ Goto(t, "parse", IF req[t].via = "conf" /\ t \in Handlers
                        THEN "lock" ELSE FirstStep(req[t]))
  /\ cfg' = [cfg EXCEPT ![t] = req[t].cfg]
  /\ UNCHANGED <<up, peers, names, mu, req, exists>>

(* Bad syntax, or an endpoint that does not resolve: status 400. *)
ParseFails(t) ==
  /\ Goto(t, "parse", "reply")
  /\ UNCHANGED <<up, peers, names, mu, req, cfg, exists>>

(* A slip to exclude: a handler that forgets Server.mu. *)
LockForgotten(t) ==
  /\ Goto(t, "lock", IF req[t].via = "post" THEN "parse" ELSE FirstStep(req[t]))
  /\ UNCHANGED <<up, peers, names, mu, req, cfg, exists>>

Lock(t) ==
  /\ mu = NoTask
  /\ Goto(t, "lock", IF req[t].via = "post" THEN "parse" ELSE FirstStep(req[t]))
  /\ mu' = t
  /\ UNCHANGED <<up, peers, names, req, cfg, exists>>

(* Sync: the peers to remove are those the device has now. *)
ReadCurrent(t) ==
  /\ Goto(t, "current", "configure")
  /\ Dev(t) \in up
  /\ cfg' = [cfg EXCEPT ![t] = SyncPeerConfigs(@, peers[Dev(t)])]
  /\ UNCHANGED <<up, peers, names, mu, req, exists>>

Configure(t) ==
  /\ Goto(t, "configure", "readback")
  /\ Dev(t) \in up
  /\ peers' = [peers EXCEPT ![Dev(t)] = PeersAfter(cfg[t], @)]
  /\ UNCHANGED <<up, names, mu, req, cfg, exists>>

(* The device stops with an error after some of the entries.               *)
ConfigureFails(t) ==
  /\ "device" \in Faults
  /\ Goto(t, "configure", "reply")
  /\ Dev(t) \in up
  /\ \E n \in 0..Len(cfg[t].peers) :
       peers' = [peers EXCEPT ![Dev(t)] = PeersAfter(FirstEntries(cfg[t], n), @)]
  /\ UNCHANGED <<up, names, mu, req, cfg, exists>>

(* A slip to exclude: trusting the configuration instead of reading back.  *)
ReadBackTrusting(t) ==
  /\ Goto(t, "readback", "save")
  /\ Dev(t) \in up
  /\ exists' = [exists EXCEPT ![t] = Keys(cfg[t])]
  /\ UNCHANGED <<up, peers, names, mu, req, cfg>>

ReadBack(t) ==
  /\ Goto(t, "readback", "save")
  /\ Dev(t) \in up
  /\ exists' = [exists EXCEPT ![t] = peers[Dev(t)]]
  /\ UNCHANGED <<up, peers, names, mu, req, cfg>>

(* Any of the three device calls finds the interface gone. *)
NoSuchDevice(t) ==
  /\ pc[t] \in {"current", "configure", "readback"}
  /\ Dev(t) \notin up
  /\ pc' = [pc EXCEPT ![t] = "reply"]
  /\ UNCHANGED <<up, peers, names, mu, req, cfg, exists>>

(* Slips to exclude: the names are not cleared with the peers; the names   *)
(* are taken from the configuration without asking what the device has.    *)
SaveMerges(t) ==
  /\ Goto(t, "save", "reply")
  /\ names' = [names EXCEPT ![Path(t)] =
                 NamesAfter([cfg[t] EXCEPT !.replace = FALSE], exists[t], @)]
  /\ UNCHANGED <<up, peers, mu, req, cfg, exists>>

SaveUnasked(t) ==
  /\ Goto(t, "save", "reply")
  /\ names' = [names EXCEPT ![Path(t)] = NamesAfter(cfg[t], Key, @)]
  /\ UNCHANGED <<up, peers, mu, req, cfg, exists>>

Save(t) ==
  /\ Goto(t, "save", "reply")
  /\ names' = [names EXCEPT ![Path(t)] = NamesAfter(cfg[t], exists[t], @)]
  /\ UNCHANGED <<up, peers, mu, req, cfg, exists>>

(* "the configuration is in effect, but saving the names failed" *)
SaveFails(t) ==
  /\ "store" \in Faults
  /\ Goto(t, "save", "reply")
  /\ UNCHANGED <<up, peers, names, mu, req, cfg, exists>>

(* A slip to exclude: a path to the answer without the Unlock. *)
ReplyLocked(t) ==
  /\ Goto(t, "reply", "idle")
  /\ req' = [req EXCEPT ![t] = NoRequest]
  /\ cfg' = [cfg EXCEPT ![t] = AConfig]
  /\ exists' = [exists EXCEPT ![t] = {}]
  /\ UNCHANGED <<up, peers, names, mu>>

(* The answer, and the deferred Server.mu.Unlock. *)
Reply(t) ==
  /\ Goto(t, "reply", "idle")
  /\ mu' = IF mu = t THEN NoTask ELSE mu
  /\ req' = [req EXCEPT ![t] = NoRequest]
  /\ cfg' = [cfg EXCEPT ![t] = AConfig]
  /\ exists' = [exists EXCEPT ![t] = {}]
  /\ UNCHANGED <<up, peers, names>>
-----------------------------------------------------------------------------
(* wgd is killed, or its Shutdown gives up on a handler after five seconds *)
(* and main returns; a wg command is killed on its own.                    *)
Stop(T) ==
  /\ "kill" \in Faults
  /\ pc' = [t \in Task |-> IF t \in T THEN "idle" ELSE pc[t]]
  /\ req' = [t \in Task |-> IF t \in T THEN NoRequest ELSE req[t]]
  /\ cfg' = [t \in Task |-> IF t \in T THEN AConfig ELSE cfg[t]]
  /\ exists' = [t \in Task |-> IF t \in T THEN {} ELSE exists[t]]
  /\ mu' = IF mu \in T THEN NoTask ELSE mu
  /\ UNCHANGED <<up, peers, names>>

(* Somebody deletes the interface, its peers with it, or creates it anew.  *)
LinkDel(d) ==
  /\ "link" \in Faults
  /\ d \in up
  /\ up' = up \ {d}
  /\ peers' = [peers EXCEPT ![d] = {}]
  /\ UNCHANGED <<names, mu, pc, req, cfg, exists>>

LinkAdd(d) ==
  /\ d \notin up
  /\ up' = up \cup {d}
  /\ UNCHANGED <<peers, names, mu, pc, req, cfg, exists>>

Step(t) ==
  \/ Parse(t) \/ Lock(t) \/ ReadCurrent(t) \/ Configure(t) \/ ReadBack(t)
  \/ NoSuchDevice(t) \/ Save(t) \/ Reply(t)

Fails(t) == ParseFails(t) \/ ConfigureFails(t) \/ SaveFails(t)

Next ==
  \/ \E t \in Task : Arrive(t) \/ Step(t) \/ Fails(t)
  \/ Stop(Handlers)
  \/ \E t \in Task \ Handlers : Stop({t})
  \/ \E d \in Iface : LinkDel(d) \/ LinkAdd(d)

Spec == Init /\ [][Next]_vars

(* A task runs on, and Server.mu (a sync.Mutex) is handed to a waiter that *)
(* would starve.  Nothing has to fail and no request has to come.          *)
Fairness == \A t \in Task : WF_vars(Step(t)) /\ SF_vars(Lock(t))

FairSpec == Spec /\ Fairness
-----------------------------------------------------------------------------
PCs == {"idle", "lock", "parse", "current", "configure", "readback", "save", "reply"}

(* Type invariant of the devices, the names files and the tasks. *)
TypeOK ==
  /\ up \subseteq Iface
  /\ peers \in [Iface -> SUBSET Key]
  /\ names \in [File -> NameMap]
  /\ mu \in Handlers \cup {NoTask}
  /\ pc \in [Task -> PCs]
  /\ req \in [Task -> Request \cup {NoRequest}]
  /\ cfg \in [Task -> Config]
  /\ exists \in [Task -> SUBSET Key]

(* The tasks that have configured interface d and not yet saved its names. *)
Unsaved(d) == {t \in Task : pc[t] \in {"readback", "save"} /\ Dev(t) = d}

(* "Once the configuration is in effect the metadata is updated from the   *)
(* actual state of the device" (conf.go:19-20): between requests no name   *)
(* is left behind for a peer that the interface does not have, where it    *)
(* would come back with the next peer of that key.                         *)
NamesFollowDevice ==
  \A d \in Iface : Unsaved(d) = {} => Named(names[FileOf[d]]) \subseteq peers[d]

(* The inductive invariant behind NamesFollowDevice, for a device that only *)
(* wgd uses and nothing that fails (Undisturbed): every request after its  *)
(* lock holds Server.mu, what Apply read back is still true when it saves, *)
(* and the names it is going to save belong to peers that the device has.  *)
Undisturbed ==
  /\ Handlers = Task
  /\ Faults = {}
  /\ \A d, e \in Iface : FileOf[d] = FileOf[e] => d = e

Busy ==
  \A t \in Task : pc[t] # "idle" =>
    /\ req[t] \in Request
    /\ pc[t] = "lock" => t \in Handlers
    /\ req[t].via = "post" => t \in Handlers

LockHeld ==
  \A t \in Handlers :
    \/ pc[t] \in {"current", "configure", "readback", "save"}
    \/ pc[t] = "parse" /\ req[t].via = "post"
    => mu = t

Fresh ==
  \A t \in Task :
    /\ pc[t] = "save" => exists[t] = peers[Dev(t)]
    /\ pc[t] \in {"readback", "save"} =>
         Named(NamesAfter(cfg[t], peers[Dev(t)], names[Path(t)])) \subseteq peers[Dev(t)]

InStep ==
  /\ TypeOK
  /\ up = Iface
  /\ Busy
  /\ LockHeld
  /\ Fresh
  /\ NamesFollowDevice

(* "The peers of the target configuration and of the device are the same"  *)
(* (conf.go:68-69): syncconf computes its removals from an earlier look at *)
(* the device; nothing may have changed by the time they are applied.      *)
SyncExact ==
  [][\A t \in Task :
       pc[t] = "configure" /\ pc'[t] = "readback" /\ req[t].sync
         => peers'[Dev(t)] = Keys(req[t].cfg) \ {SelfKey}]_vars

(* "mu serialises all writes" (server.go:42): with all requests coming     *)
(* through one wgd, every behaviour is one in which each request changed   *)
(* device and names in a single step.  A request that has configured its   *)
(* device counts as having written the names it is going to write.         *)
settledNames ==
  [d \in Iface |->
     IF Unsaved(d) = {} THEN names[FileOf[d]]
     ELSE LET t == CHOOSE t \in Unsaved(d) : TRUE
          IN  NamesAfter(cfg[t], peers[d], names[FileOf[d]])]

Promise == INSTANCE AtomicConf WITH names <- settledNames

Serialised == Promise!Spec

(* A request that failed or was killed halfway, and a command or a link    *)
(* that changed under it, can leave names of peers that are gone           *)
(* (conf.go:30-33, 62).  Repeating it as a setconf leaves only names of    *)
(* peers that the device has, unless that changes between read and save.   *)
SetconfRepairs ==
  [][\A t \in Task :
       pc[t] = "save" /\ Save(t) /\ cfg[t].replace /\ exists[t] = peers[Dev(t)]
         => Named(names'[Path(t)]) \subseteq peers[Dev(t)]]_vars

(* Every request is answered, so Server.mu is given back, whichever step   *)
(* fails and whoever is killed (server.go:390-391, 447-448).               *)
RequestsAnswered == \A t \in Task : pc[t] # "idle" ~> pc[t] = "idle"
=============================================================================
