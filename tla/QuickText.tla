----------------------------- MODULE QuickText -----------------------------
(***************************************************************************)
(* The configuration files of wg-quick: how Parse of internal/wgquick      *)
(* reads one, how Encode writes it back and what Strip leaves of it for    *)
(* `wg setconf`.  A file has the lines of ConfText and three more kinds:   *)
(* an "address", a "hook" (or a DNS server), of which there may be many,   *)
(* and a "net" field (MTU, Table, SaveConfig), of which the last counts.   *)
(***************************************************************************)
EXTENDS ConfText

CONSTANTS
  NetValue,  \* values of network fields ...
  Zero,      \* ... and the one that stands for none
  ListValue, \* addresses, hooks and DNS servers
  Sources    \* files to look at

ASSUME ZeroValue == Zero \notin NetValue

(* What cannot be read is no value, and nobody has the zero key: no        *)
(* private key makes it.                                                   *)
ASSUME ReadableValues ==
  /\ Bad \notin Key \cup Setting \cup {Default} \cup ListValue \cup NetValue \cup {Zero}
  /\ Bad \notin Seq(IPOp) /\ NoKey \notin Key

QuickLine ==
  Line \cup [kind : {"address", "hook"}, value : ListValue \cup {Bad}]
       \cup [kind : {"net"}, value : NetValue \cup {Zero, Bad}]

ASSUME SourceTypes == Sources \subseteq Seq(QuickLine)

VARIABLE source   \* a file

InterfaceFields == {"iface", "address", "hook", "net"}
PeerFields == {"publickey", "setting", "allowedips"}

NewPeer == [key |-> NoKey, setting |-> Unset, ips |-> <<>>]
NewFile == [iface |-> Unset, addresses |-> <<>>, hooks |-> <<>>, net |-> Zero, peers |-> <<>>]

ParseInterface(c, l) ==
  CASE l.kind = "iface"   -> [c EXCEPT !.iface = l.value]
    [] l.kind = "address" -> [c EXCEPT !.addresses = Append(@, l.value)]
    [] l.kind = "hook"    -> [c EXCEPT !.hooks = Append(@, l.value)]
    [] l.kind = "net"     -> [c EXCEPT !.net = l.value]

(* A slip to exclude: a list in place of the lists before it.              *)
ParsePeerLast(p, l) ==
  CASE l.kind = "publickey"  -> [p EXCEPT !.key = l.value]
    [] l.kind = "setting"    -> [p EXCEPT !.setting = Address(l.value)]
    [] l.kind = "allowedips" -> [p EXCEPT !.ips = [n \in DOMAIN l.value |-> l.value[n].ip]]

ParsePeer(p, l) ==
  CASE l.kind = "publickey"  -> [p EXCEPT !.key = l.value]
    [] l.kind = "setting"    -> [p EXCEPT !.setting = Address(l.value)]
    [] l.kind = "allowedips" -> [p EXCEPT !.ips = @ \o [n \in DOMAIN l.value |-> l.value[n].ip]]

(* Values that do not parse; + and - are wg's, not wg-quick's.             *)
Unreadable(l) == l.value = Bad \/ (l.kind = "allowedips" /\ Incremental(l.value))

ParseLine1(s, l) ==
  CASE l.kind \in {"blank", "name"} -> s      \* to wg-quick a name is a comment
    [] l.kind = "interface" -> [s EXCEPT !.section = "interface"]
    [] l.kind = "peer" -> [s EXCEPT !.section = "peer", !.file.peers = Append(@, NewPeer)]
    [] s.section = "interface" /\ l.kind \in InterfaceFields /\ ~Unreadable(l) ->
         [s EXCEPT !.file = ParseInterface(@, l)]
    [] s.section = "peer" /\ l.kind \in PeerFields /\ ~Unreadable(l) ->
         [s EXCEPT !.file.peers[Len(s.file.peers)] = ParsePeer(@, l)]
    [] OTHER -> [s EXCEPT !.ok = FALSE]

Usable(c) == c.iface # Unset \/ c.addresses # <<>> \/ c.peers # <<>>

(* Parse, which stops at the first line that it cannot read.               *)
ReadLine(s, l) == IF s.ok THEN ParseLine1(s, l) ELSE s
NothingRead == [ok |-> TRUE, section |-> "", file |-> NewFile]

QuickParse(t) ==
  LET end == FoldLeft(ReadLine, NothingRead, t)
  IN  IF end.ok /\ Usable(end.file) /\ (\A n \in DOMAIN end.file.peers : end.file.peers[n].key # NoKey)
        THEN end.file ELSE Bad
-----------------------------------------------------------------------------
LineIf(yes, l) == IF yes THEN <<l>> ELSE <<>>
Each(kind, values) == [n \in DOMAIN values |-> L(kind, values[n])]

WritePeer(p) ==
  <<L("blank", Nil), L("peer", Nil), L("publickey", p.key)>>
    \o LineIf(p.ips # <<>>, L("allowedips", [n \in DOMAIN p.ips |-> [ip |-> p.ips[n], op |-> "set"]]))
    \o LineIf(p.setting # Unset, L("setting", p.setting))

WriteInterfaceCrypto(c) == LineIf(c.iface # Unset, L("iface", c.iface))
WritePeers(c) == FlattenSeq([n \in DOMAIN c.peers |-> WritePeer(c.peers[n])])

QuickEncode(c) ==
  <<L("interface", Nil)>> \o WriteInterfaceCrypto(c)
    \o Each("address", c.addresses) \o LineIf(c.net # Zero, L("net", c.net))
    \o Each("hook", c.hooks) \o WritePeers(c)

Strip(c) ==
  LineIf(c.iface # Unset, L("interface", Nil)) \o WriteInterfaceCrypto(c) \o WritePeers(c)

(* What Up hands to ConfigureDevice.                                       *)
WireGuardConfig(c) ==
  [replace |-> TRUE,
   peers |-> [n \in DOMAIN c.peers |->
                [key |-> c.peers[n].key, remove |-> FALSE, updateOnly |-> FALSE,
                 setting |-> c.peers[n].setting, replaceIPs |-> TRUE,
                 ips |-> c.peers[n].ips, ops |-> <<>>]]]

(* Save: applyDevice and peersFromDevice.  A zero in the device is no      *)
(* line in the file.                                                       *)
OrUnset(v) == IF v = Default THEN Unset ELSE v

PeersFromDevice(d) ==
  LET keys == SetToSeq(d.wg.peers)
  IN  [n \in DOMAIN keys |-> [key |-> keys[n], setting |-> OrUnset(d.wg.setting[keys[n]]),
                              ips |-> IPsOf(d, keys[n])]]

ApplyDevice(c, d) == [c EXCEPT !.iface = OrUnset(d.iface), !.peers = PeersFromDevice(d)]
-----------------------------------------------------------------------------
QuickInit == source \in Sources
QuickSpec == QuickInit /\ [][UNCHANGED source]_source

(* The lines that wg knows, in their order.                                *)
OwnFields == {"address", "hook", "net"}
WgLines(t) ==
  LET known == InOrder({n \in DOMAIN t : t[n].kind \notin OwnFields})
  IN  [i \in DOMAIN known |-> t[known[i]]]

Made(c) == SetDevice(NoPeers, Message(c))

(* `wg-quick strip` writes "the encryption fields in the format of setconf"*)
(* (strip.go:10).  Two parsers of two packages read the same of it: with   *)
(* `wg setconf` it makes the device that Up makes of the file, and that wg *)
(* would make of the file without wg-quick's own lines.  And Encode writes *)
(* "the complete configuration" (strip.go:30): a file that is read as the  *)
(* one it was made of.                                                     *)
FilesAgree ==
  LET c == QuickParse(source)
      setconf == Meant(Strip(c), FALSE)
  IN  c # Bad =>
        /\ QuickParse(QuickEncode(c)) = c
        /\ \A n \in DOMAIN Strip(c) : Strip(c)[n] \in Line
        /\ setconf.iface = IF c.iface = Unset THEN Default ELSE c.iface
        /\ Made(setconf) = Made(WireGuardConfig(c))
        /\ Made(setconf) = Made(Meant(WgLines(source), FALSE))
=============================================================================
