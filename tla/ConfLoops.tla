----------------------------- MODULE ConfLoops -----------------------------
(***************************************************************************)
(* The two loops behind one wgconf.Apply, entry by entry: the device going *)
(* through the peers of the configuration, then the callback that Apply    *)
(* hands to Store.Update going through them again for the names.  The rest *)
(* of the project uses the closed forms PeersAfter and NamesAfter; this    *)
(* module shows that they are what the loops compute, for configurations   *)
(* that mention a key twice, remove and add again, or update only.         *)
(***************************************************************************)
EXTENDS ConfData

CONSTANT Applied    \* the configurations that are applied

ASSUME AppliedType == Applied \subseteq Config

VARIABLES
  conf,      \* the configuration
  before,    \* the peers and the names before it was applied
  passed,    \* entries done by the loop that is running
  running,   \* "device", "callback" or "done"
  device,    \* the peers of the device
  metadata   \* the callback's map

lvars == <<conf, before, passed, running, device, metadata>>

LoopsInit ==
  /\ conf \in Applied
  /\ before \in [peers : SUBSET (Key \ {SelfKey}), names : NameMap]
  /\ passed = 0
  /\ running = "device"
  /\ device = IF conf.replace THEN {} ELSE before.peers
  /\ metadata = IF conf.replace THEN NoNames ELSE before.names

ThisEntry == conf.peers[passed + 1]

SetPeer ==
  /\ running = "device" /\ passed < Len(conf.peers)
  /\ device' = IF ThisEntry.remove THEN device \ {ThisEntry.key}
               ELSE IF ThisEntry.updateOnly \/ ThisEntry.key = SelfKey THEN device
               ELSE device \cup {ThisEntry.key}
  /\ passed' = passed + 1
  /\ UNCHANGED <<conf, before, running, metadata>>

StartCallback ==
  /\ running = "device" /\ passed = Len(conf.peers)
  /\ passed' = 0
  /\ running' = "callback"
  /\ UNCHANGED <<conf, before, device, metadata>>

(* Slips to exclude: the device is asked before removals are looked at; it *)
(* is not asked at all.                                                    *)
SetNamePresent ==
  /\ running = "callback" /\ passed < Len(conf.peers)
  /\ metadata' = IF ThisEntry.key \notin device THEN metadata
                 ELSE IF ThisEntry.remove \/ ThisEntry.name = Clear
                   THEN [metadata EXCEPT ![ThisEntry.key] = NoName]
                 ELSE IF ThisEntry.name = Keep THEN metadata
                 ELSE [metadata EXCEPT ![ThisEntry.key] = ThisEntry.name]
  /\ passed' = passed + 1
  /\ UNCHANGED <<conf, before, running, device>>

SetNameUnasked ==
  /\ running = "callback" /\ passed < Len(conf.peers)
  /\ metadata' = IF ThisEntry.remove \/ ThisEntry.name = Clear
                   THEN [metadata EXCEPT ![ThisEntry.key] = NoName]
                 ELSE IF ThisEntry.name = Keep THEN metadata
                 ELSE [metadata EXCEPT ![ThisEntry.key] = ThisEntry.name]
  /\ passed' = passed + 1
  /\ UNCHANGED <<conf, before, running, device>>

SetName ==
  /\ running = "callback" /\ passed < Len(conf.peers)
  /\ metadata' = IF ThisEntry.remove \/ (ThisEntry.key \in device /\ ThisEntry.name = Clear)
                   THEN [metadata EXCEPT ![ThisEntry.key] = NoName]
                 ELSE IF ThisEntry.key \notin device \/ ThisEntry.name = Keep THEN metadata
                 ELSE [metadata EXCEPT ![ThisEntry.key] = ThisEntry.name]
  /\ passed' = passed + 1
  /\ UNCHANGED <<conf, before, running, device>>

Finish ==
  /\ running = "callback" /\ passed = Len(conf.peers)
  /\ running' = "done"
  /\ UNCHANGED <<conf, before, passed, device, metadata>>

LoopsNext == SetPeer \/ StartCallback \/ SetName \/ Finish

LoopsSpec == LoopsInit /\ [][LoopsNext]_lvars
-----------------------------------------------------------------------------
DevicePrefix ==
  running = "device" => device = PeersAfter(FirstEntries(conf, passed), before.peers)

CallbackPrefix ==
  running = "callback" =>
    metadata = NamesAfter(FirstEntries(conf, passed), device, before.names)

(* After some entries the device has the peers, and the callback the names, *)
(* that the closed forms give for those entries: a later entry for the     *)
(* same key wins, and the callback goes by the peers that the device ended *)
(* with, not by those it had at the entry (conf.go:27-61).                 *)
ClosedForms == DevicePrefix /\ CallbackPrefix

(* Applying a configuration never leaves a name without a peer if there    *)
(* was none before: "the metadata follows the actual state of the device"  *)
(* (conf.go:19-20), even when entries contradict each other.               *)
NamesFollowPeers ==
  running = "done" /\ Named(before.names) \subseteq before.peers
    => Named(metadata) \subseteq device
=============================================================================
