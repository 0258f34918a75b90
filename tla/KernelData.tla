----------------------------- MODULE KernelData ----------------------------
(***************************************************************************)
(* Configurations as internal/wglinux sends them to the kernel, and what   *)
(* the kernel does with a message.  The preshared key, the endpoint and    *)
(* the keepalive of a peer travel alike and are one "setting" here.        *)
(***************************************************************************)
EXTENDS Naturals, Sequences, FiniteSets, SequencesExt

CONSTANTS
  Key,        \* public keys
  IP,         \* allowed IPs
  Setting,    \* what an entry may set for its peer
  Unset,      \* a nil pointer in an entry
  Default,    \* the setting of a new peer
  Nobody,     \* the owner of an IP that no peer has
  IPChunk,    \* ipBatchChunk, 256 in the code
  PeerChunk   \* peerBatchChunk, 32 in the code

ASSUME ChunkSizes == IPChunk \in Nat \ {0} /\ PeerChunk \in Nat
ASSUME MissingValues == Unset \notin Setting \cup {Default} /\ Nobody \notin Key

(* A wgtypes.PeerConfig, and the same as encodePeer writes it: one list of *)
(* additions and removals, where "set" is an addition.                     *)
PeerConfig ==
  [key : Key, remove : BOOLEAN, updateOnly : BOOLEAN, setting : Setting \cup {Unset},
   replaceIPs : BOOLEAN, ips : Seq(IP),
   ops : Seq([ip : IP, op : {"set", "add", "remove"}])]

Config == [replace : BOOLEAN, peers : Seq(PeerConfig)]

AllowedIPs(ips, ops) ==
  [i \in DOMAIN ips |-> [ip |-> ips[i], remove |-> FALSE]] \o
  [i \in DOMAIN ops |-> [ip |-> ops[i].ip, remove |-> ops[i].op = "remove"]]

EncodePeer(p) ==
  [key |-> p.key, remove |-> p.remove, updateOnly |-> p.updateOnly,
   setting |-> p.setting, replaceIPs |-> p.replaceIPs,
   allowed |-> AllowedIPs(p.ips, p.ops)]

Message(cfg) ==
  [replace |-> cfg.replace, peers |-> [j \in DOMAIN cfg.peers |-> EncodePeer(cfg.peers[j])]]

(* A device: its peers, their settings, and whose each allowed IP is.      *)
Device == [peers : SUBSET Key, setting : [Key -> Setting \cup {Default}],
           owner : [IP -> Key \cup {Nobody}]]

NoPeers == [peers |-> {}, setting |-> [k \in Key |-> Default],
            owner |-> [a \in IP |-> Nobody]]

Disown(dev, k) == [a \in IP |-> IF dev.owner[a] = k THEN Nobody ELSE dev.owner[a]]

Without(dev, k) ==
  [peers   |-> dev.peers \ {k},
   setting |-> [dev.setting EXCEPT ![k] = Default],
   owner   |-> Disown(dev, k)]

(* An IP has one owner; only its owner can give it up. *)
SetOwner(k, owner, a) ==
  CASE ~a.remove -> [owner EXCEPT ![a.ip] = k]
    [] a.remove /\ owner[a.ip] = k -> [owner EXCEPT ![a.ip] = Nobody]
    [] OTHER -> owner

SetPeer(dev, p) ==
  CASE p.remove -> Without(dev, p.key)
    [] ~p.remove /\ p.updateOnly /\ p.key \notin dev.peers -> dev
    [] OTHER ->
         [peers   |-> dev.peers \cup {p.key},
          setting |-> IF p.setting = Unset THEN dev.setting
                      ELSE [dev.setting EXCEPT ![p.key] = p.setting],
          owner   |-> FoldLeft(LAMBDA o, a : SetOwner(p.key, o, a),
                               IF p.replaceIPs THEN Disown(dev, p.key) ELSE dev.owner,
                               p.allowed)]

(* The kernel handles a message under the lock of the device. *)
SetDevice(dev, m) == FoldLeft(SetPeer, IF m.replace THEN NoPeers ELSE dev, m.peers)
-----------------------------------------------------------------------------
AllowedCount(cfg) ==
  FoldLeft(LAMBDA n, p : n + Len(p.ips) + Len(p.ops), 0, cfg.peers)

ShouldBatch(cfg) == Len(cfg.peers) > PeerChunk \/ AllowedCount(cfg) > IPChunk

DistinctKeys(cfg) ==
  \A i, j \in DOMAIN cfg.peers : cfg.peers[i].key = cfg.peers[j].key => i = j
=============================================================================
