----------------------------- MODULE ConfData ------------------------------
(***************************************************************************)
(* Configurations as internal/wgconf sees them, and what applying one does *)
(* to the peers of a device and to the names of its peers.  Only the parts *)
(* of wgtypes.Config that decide which peers exist and how they are called *)
(* are kept: keys, endpoints, allowed IPs and the rest travel with a peer. *)
(***************************************************************************)
EXTENDS Naturals, Sequences, FiniteSets, SequencesExt

CONSTANTS
  Key,       \* public keys of peers
  SelfKey,   \* the public key of the device itself
  Name,      \* friendly names
  NoName,    \* no entry in the names file
  Keep,      \* PeerConfig.Name is nil
  Clear      \* PeerConfig.Name points to ""

(* A key is 32 bytes.                                                      *)
ASSUME FinitelyManyKeys == IsFiniteSet(Key)
ASSUME NameSentinels == {NoName, Keep, Clear} \cap Name = {} /\ Keep # Clear

NameMap == [Key -> Name \cup {NoName}]
NoNames == [k \in Key |-> NoName]
Named(names) == {k \in Key : names[k] # NoName}

PeerConfig == [key : Key, remove : BOOLEAN, updateOnly : BOOLEAN,
               name : Name \cup {Keep, Clear}]
Config == [replace : BOOLEAN, peers : Seq(PeerConfig)]

Keys(cfg) == {cfg.peers[j].key : j \in DOMAIN cfg.peers}

(* The device (kernel or userspace): REPLACE_PEERS empties it, then each   *)
(* entry in order removes, updates or adds its peer.  An update-only entry *)
(* adds nothing, and no device is its own peer.  So a peer is there in the *)
(* end if an entry added it and none removed it later, or if it was there  *)
(* and nothing removed it.                                                 *)
Removes(cfg, k, j) == cfg.peers[j].key = k /\ cfg.peers[j].remove
Adds(cfg, k, j)    == /\ cfg.peers[j].key = k
                      /\ ~cfg.peers[j].remove
                      /\ ~cfg.peers[j].updateOnly
                      /\ k # SelfKey

PeersAfter(cfg, peers) ==
  {k \in Key :
     \/ \E j \in DOMAIN cfg.peers :
          /\ Adds(cfg, k, j)
          /\ \A l \in DOMAIN cfg.peers : l > j => ~Removes(cfg, k, l)
     \/ /\ k \in peers
        /\ ~cfg.replace
        /\ \A l \in DOMAIN cfg.peers : ~Removes(cfg, k, l)}

(* The callback of Apply: with ReplacePeers every name goes; then, entry   *)
(* by entry, a removed peer loses its name and a peer that the device now  *)
(* has gets the name the entry gives it.  The last entry that says         *)
(* something about a key decides.                                          *)
Decides(cfg, exists, k, j) ==
  /\ cfg.peers[j].key = k
  /\ cfg.peers[j].remove \/ (k \in exists /\ cfg.peers[j].name # Keep)

LastDecides(cfg, exists, k, j) ==
  /\ Decides(cfg, exists, k, j)
  /\ \A l \in DOMAIN cfg.peers : l > j => ~Decides(cfg, exists, k, l)

(* A slip to exclude: a pointer to "" is stored as a name. *)
EntryNameEmpty(e) == IF e.remove THEN NoName ELSE e.name

EntryName(e) == IF e.remove \/ e.name = Clear THEN NoName ELSE e.name

NamesAfter(cfg, exists, names) ==
  [k \in Key |->
     IF \E j \in DOMAIN cfg.peers : Decides(cfg, exists, k, j)
       THEN LET last == CHOOSE j \in DOMAIN cfg.peers : LastDecides(cfg, exists, k, j)
            IN  EntryName(cfg.peers[last])
     ELSE IF cfg.replace THEN NoName ELSE names[k]]

(* syncPeerConfigs appends a removal for every peer of the device that the *)
(* wanted configuration does not mention.                                  *)
Removal(k) == [key |-> k, remove |-> TRUE, updateOnly |-> FALSE, name |-> Keep]

SyncPeerConfigs(cfg, peers) ==
  [cfg EXCEPT !.peers = @ \o SetToSeq({Removal(k) : k \in peers \ Keys(cfg)})]

(* The first n entries of a configuration.                                 *)
FirstEntries(cfg, n) == [cfg EXCEPT !.peers = SubSeq(@, 1, n)]
=============================================================================
