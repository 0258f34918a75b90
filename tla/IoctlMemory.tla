---------------------------- MODULE IoctlMemory ----------------------------
(***************************************************************************)
(* The memory that the clients of Windows, OpenBSD and FreeBSD share with  *)
(* their kernels for one ioctl.  On Windows and OpenBSD it is flat: the    *)
(* interface, then each peer followed by its allowed IPs, found by adding  *)
(* sizes and counts; a structure is one cell here and an address is the    *)
(* number of a cell.  On FreeBSD it is a name-value list with lists in it, *)
(* in which what is not set is not there.                                  *)
(***************************************************************************)
EXTENDS KernelData

(* There are so many keys and addresses of their lengths.                  *)
ASSUME FiniteData == IsFiniteSet(Key) /\ IsFiniteSet(IP)

(* A cell has the fields of all structures, so that a walk that goes astray *)
(* reads something; Blank is memory that nobody has written.               *)
Blank == [count |-> 0, flags |-> {}, key |-> Nobody, setting |-> Unset, ip |-> Nobody]

Interface(count, flags) == [Blank EXCEPT !.count = count, !.flags = flags]
PeerCell(key, setting, count, flags) ==
  [Blank EXCEPT !.key = key, !.setting = setting, !.count = count, !.flags = flags]
IPCell(ip, flags) == [Blank EXCEPT !.ip = ip, !.flags = flags]

Has(yes, flag) == IF yes THEN {flag} ELSE {}

At(mem, i) == IF i \in DOMAIN mem THEN mem[i] ELSE Blank

FirstPeer == 2

(* A slip to exclude: the allowed IPs of the last peer are not skipped.    *)
NextPeerFlat(mem, i) == i + 1

NextPeer(mem, i) == i + 1 + At(mem, i).count

(* Where the peers are, by the counts that the memory itself gives.        *)
PeerPlaces(mem) ==
  LET place[n \in 1..At(mem, 1).count] ==
        IF n = 1 THEN FirstPeer ELSE NextPeer(mem, place[n - 1])
  IN  place
-----------------------------------------------------------------------------
(* The peers of a device as a caller of the client sees them.              *)
IPsOf(dev, k) == {a \in IP : dev.owner[a] = k}
PeersOf(dev) == {[key |-> k, setting |-> dev.setting[k], ips |-> IPsOf(dev, k)] : k \in dev.peers}

SettingIn(cell) == IF "setting" \in cell.flags THEN cell.setting ELSE Default

(* parseConfiguration on Windows: from structure to structure.             *)
ParseConfiguration(mem) ==
  LET Allowed(i) == {At(mem, i + n).ip : n \in 1..At(mem, i).count}
      Peer(i) == [key |-> At(mem, i).key, setting |-> SettingIn(At(mem, i)), ips |-> Allowed(i)]
      place == PeerPlaces(mem)
  IN  [n \in DOMAIN place |-> Peer(place[n])]

(* parseDevice on OpenBSD: a pointer that is moved on behind each peer.    *)
ParseDevice(mem) ==
  LET Allowed(i) == {At(mem, i + 1 + n).ip : n \in 0..(At(mem, i).count - 1)}
      Peer(i) == [key |-> At(mem, i).key, setting |-> SettingIn(At(mem, i)), ips |-> Allowed(i)]
      pointer == PeerPlaces(mem)
  IN  [n \in DOMAIN pointer |-> Peer(pointer[n])]

(* parseDevice on FreeBSD: each name that the list has.                    *)
ParseList(list) ==
  LET Peer(l) == [key |-> l["public-key"],
                  setting |-> IF "preshared-key" \in DOMAIN l THEN l["preshared-key"] ELSE Default,
                  ips |-> IF "allowed-ips" \in DOMAIN l
                            THEN {l["allowed-ips"][n]["ip"] : n \in DOMAIN l["allowed-ips"]} ELSE {}]
  IN  IF "peers" \in DOMAIN list THEN [n \in DOMAIN list["peers"] |-> Peer(list["peers"][n])]
      ELSE <<>>
-----------------------------------------------------------------------------
(* buildConfiguration and appendAllowedIP on Windows.                      *)
BuildPeer(p) ==
  <<PeerCell(p.key, p.setting, Len(p.ips) + Len(p.ops),
             Has(p.replaceIPs, "replaceIPs") \cup Has(p.updateOnly, "updateOnly")
               \cup Has(p.remove, "remove") \cup Has(p.setting # Unset, "setting"))>>
    \o [n \in DOMAIN p.ips |-> IPCell(p.ips[n], {})]
    \o [n \in DOMAIN p.ops |-> IPCell(p.ops[n].ip, Has(p.ops[n].op = "remove", "remove"))]

BuildConfiguration(cfg) ==
  <<Interface(Len(cfg.peers), Has(cfg.replace, "replace"))>>
    \o FlattenSeq([n \in DOMAIN cfg.peers |-> BuildPeer(cfg.peers[n])])

(* unparseConfig and unparsePeerConfig on FreeBSD.  Nothing in a list says *)
(* that an entry is for a peer that is there already.                      *)
UnparseAllowedIP(ip, remove) ==
  [n \in {"ip"} \cup Has(remove, "flags") |-> IF n = "ip" THEN ip ELSE 1]

UnparsePeerConfig(p) ==
  LET allowed == [n \in DOMAIN p.ips |-> UnparseAllowedIP(p.ips[n], FALSE)]
                   \o [n \in DOMAIN p.ops |-> UnparseAllowedIP(p.ops[n].ip, p.ops[n].op = "remove")]
      names == {"public-key"} \cup Has(p.setting # Unset, "preshared-key")
                 \cup Has(p.replaceIPs, "replace-allowedips") \cup Has(p.remove, "remove")
                 \cup Has(allowed # <<>>, "allowed-ips")
  IN  [n \in names |-> CASE n = "public-key" -> p.key
                         [] n = "preshared-key" -> p.setting
                         [] n = "allowed-ips" -> allowed
                         [] OTHER -> TRUE]

UnparseConfig(cfg) ==
  [n \in {"peers"} \cup Has(cfg.replace, "replace-peers") |->
     IF n = "peers" THEN [m \in DOMAIN cfg.peers |-> UnparsePeerConfig(cfg.peers[m])] ELSE TRUE]
-----------------------------------------------------------------------------
(* The kernels' side of the same memory: what they write for a device, in  *)
(* some order, and how they read a configuration.                          *)
PeerCells(dev, k) ==
  LET ips == SetToSeq(IPsOf(dev, k))
      set == dev.setting[k] # Default
  IN  <<PeerCell(k, IF set THEN dev.setting[k] ELSE Unset, Len(ips), Has(set, "setting"))>>
        \o [n \in DOMAIN ips |-> IPCell(ips[n], {})]

DeviceCells(dev) ==
  LET keys == SetToSeq(dev.peers)
  IN  <<Interface(Len(keys), {})>> \o FlattenSeq([n \in DOMAIN keys |-> PeerCells(dev, keys[n])])

Size(dev) == Len(DeviceCells(dev))

PeerList(dev, k) ==
  LET ips == SetToSeq(IPsOf(dev, k))
      names == {"public-key"} \cup Has(dev.setting[k] # Default, "preshared-key")
                 \cup Has(ips # <<>>, "allowed-ips")
  IN  [n \in names |-> CASE n = "public-key" -> k
                         [] n = "preshared-key" -> dev.setting[k]
                         [] n = "allowed-ips" -> [m \in DOMAIN ips |-> [ip |-> ips[m]]]]

DeviceList(dev) ==
  LET keys == SetToSeq(dev.peers)
  IN  [n \in Has(keys # <<>>, "peers") |-> [m \in DOMAIN keys |-> PeerList(dev, keys[m])]]

CellsMessage(mem) ==
  LET Allowed(i) == [n \in 1..mem[i].count |->
                       [ip |-> mem[i + n].ip, remove |-> "remove" \in mem[i + n].flags]]
      Peer(i) == [key |-> mem[i].key, setting |-> IF "setting" \in mem[i].flags
                                                    THEN mem[i].setting ELSE Unset,
                  remove |-> "remove" \in mem[i].flags, updateOnly |-> "updateOnly" \in mem[i].flags,
                  replaceIPs |-> "replaceIPs" \in mem[i].flags, allowed |-> Allowed(i)]
      place == PeerPlaces(mem)
  IN  [replace |-> "replace" \in mem[1].flags, peers |-> [n \in DOMAIN place |-> Peer(place[n])]]

ListMessage(list) ==
  LET AllowedIP(l) == [ip |-> l["ip"], remove |-> "flags" \in DOMAIN l]
      Peer(l) == [key |-> l["public-key"],
                  setting |-> IF "preshared-key" \in DOMAIN l THEN l["preshared-key"] ELSE Unset,
                  remove |-> "remove" \in DOMAIN l, updateOnly |-> FALSE,
                  replaceIPs |-> "replace-allowedips" \in DOMAIN l,
                  allowed |-> IF "allowed-ips" \in DOMAIN l
                                THEN [n \in DOMAIN l["allowed-ips"] |-> AllowedIP(l["allowed-ips"][n])]
                                ELSE <<>>]
  IN  [replace |-> "replace-peers" \in DOMAIN list,
       peers |-> [n \in DOMAIN list["peers"] |-> Peer(list["peers"][n])]]
=============================================================================
