------------------------------ MODULE MCServer ------------------------------
(* The server and the loops it leaves out, in one run.                     *)
(* "server": the requests of MCConfApply on one server, nothing failing.   *)
(* "loops": every configuration of up to three entries over two keys, one  *)
(* of them the device's own, from every earlier state; alice, Clear and    *)
(* Keep tell a name that is set from one that is cleared or left alone.    *)
EXTENDS MCConfApply, ConfLoops

VARIABLE part

Small == {k1, self}
SmallEntry == {e \in PeerConfig : e.key \in Small}
MCApplied == {[replace |-> r, peers |-> s] :
                r \in BOOLEAN, s \in UNION {[1..n -> SmallEntry] : n \in 0..3}}

LoopsRest ==
  /\ conf = AConfig
  /\ before = [peers |-> {}, names |-> NoNames]
  /\ passed = 0 /\ running = "done" /\ device = {} /\ metadata = NoNames

ServerRest ==
  /\ up = Iface
  /\ peers = [d \in Iface |-> {}] /\ names = [f \in File |-> NoNames]
  /\ mu = NoTask
  /\ pc = [t \in Task |-> "idle"] /\ req = [t \in Task |-> NoRequest]
  /\ cfg = [t \in Task |-> AConfig] /\ exists = [t \in Task |-> {}]

ServerInit ==
  \/ part = "server" /\ Init /\ LoopsRest
  \/ /\ part = "loops" /\ ServerRest /\ LoopsInit
     /\ before.peers \subseteq Small /\ Named(before.names) \subseteq Small

ServerNext ==
  /\ UNCHANGED part
  /\ \/ part = "server" /\ Next /\ UNCHANGED lvars
     \/ part = "loops" /\ LoopsNext /\ UNCHANGED vars
     \/ part = "loops" /\ running = "done" /\ UNCHANGED <<vars, lvars>>   \* no deadlock

ServerSpec == ServerInit /\ [][ServerNext]_<<vars, lvars, part>>
=============================================================================
