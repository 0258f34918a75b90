----------------------------- MODULE AtomicConf ----------------------------
(***************************************************************************)
(* What wgd promises to the clients of its REST API about configuration:   *)
(* each accepted request changes the peers of a device and their names     *)
(* together, at one instant, or is refused and changes neither.            *)
(***************************************************************************)
EXTENDS ConfData

CONSTANTS
  Iface,     \* WireGuard interfaces
  Request    \* requests: an interface, a configuration, whether to sync

VARIABLES
  peers,     \* the peers of each interface
  names      \* the names file of each interface

vars == <<peers, names>>

Init ==
  /\ peers \in [Iface -> SUBSET (Key \ {SelfKey})]
  /\ names \in [Iface -> NameMap]
  /\ \A d \in Iface : Named(names[d]) \subseteq peers[d]

(* What reaches the device: for syncconf, with the removals. *)
Expanded(r, present) ==
  IF r.sync THEN SyncPeerConfigs(r.cfg, present) ELSE r.cfg

Serve(r) ==
  LET d     == r.iface
      cfg   == Expanded(r, peers[d])
      after == PeersAfter(cfg, peers[d])
  IN  /\ peers' = [peers EXCEPT ![d] = after]
      /\ names' = [names EXCEPT ![d] = NamesAfter(cfg, after, @)]

Next == \E r \in Request : Serve(r)

Spec == Init /\ [][Next]_vars
=============================================================================
