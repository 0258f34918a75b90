------------------------------ MODULE ConfText ------------------------------
(***************************************************************************)
(* The text of a configuration: what wgconfig.Parse makes of its lines,    *)
(* one at a time, and the lines that wgconfig.Encode writes for a device.  *)
(* The fields of [Interface] are parsed alike and are one "iface" here;    *)
(* the preshared key, the keepalive and the endpoint of a peer are one     *)
(* "setting", as in KernelData.  An endpoint may be a host name, which is  *)
(* looked up, again and again if the failure is said to be temporary.      *)
(***************************************************************************)
EXTENDS KernelData

CONSTANTS
  Name,      \* the names that validatePeerName accepts
  OddName,   \* other names: too long, or with a line break
  NoName,    \* no name
  Clear,     \* the empty name
  Nil,       \* the value of a line that has none
  Bad,       \* a value that cannot be parsed
  NoKey,     \* the zero key of an entry without a PublicKey line
  Host,      \* an endpoint that is a host name ...
  HostAddr,  \* ... and the address it stands for
  Retries    \* WG_ENDPOINT_RESOLUTION_RETRIES, 15 if not set

ASSUME RetriesFinite == Retries \in Nat
ASSUME HostResolves == HostAddr \in Setting /\ Host \notin Setting \cup {Unset}
ASSUME OddNames == OddName \cap Name = {} /\ {NoName, Unset, Clear} \cap (Name \cup OddName) = {}

IPOp == [ip : IP, op : {"set", "add", "remove"}]

(* A line that is no section, no field and no comment, an unknown section  *)
(* and an unknown field are "junk"; an empty line or a comment is "blank". *)
Line ==
  [kind : {"blank", "junk", "interface", "peer"}, value : {Nil}]
    \cup [kind : {"iface"}, value : Setting \cup {Default, Bad}]
    \cup [kind : {"name"}, value : Name \cup {Clear, Bad}]
    \cup [kind : {"publickey"}, value : Key \cup {Bad}]
    \cup [kind : {"setting"}, value : Setting \cup {Default, Host, Bad}]
    \cup [kind : {"allowedips"}, value : Seq(IPOp) \cup {Bad}]

L(kind, value) == [kind |-> kind, value |-> value]
-----------------------------------------------------------------------------
NewEntry ==
  [key |-> NoKey, remove |-> FALSE, updateOnly |-> FALSE, setting |-> Unset,
   replaceIPs |-> TRUE, ips |-> <<>>, ops |-> <<>>, name |-> Unset]

Empty(append) ==
  [iface |-> IF append THEN Unset ELSE Default, replace |-> ~append, peers |-> <<>>]

IPsOf(dev, k) == SetToSeq({a \in IP : dev.wg.owner[a] = k})

(* A slip to exclude: the lines of a peer without its allowed IPs.         *)
PeerLinesNoIPs(dev, k) ==
  <<L("peer", Nil)>>
    \o (IF dev.names[k] = NoName THEN <<>> ELSE <<L("name", dev.names[k])>>)
    \o <<L("publickey", k)>>
    \o (IF dev.wg.setting[k] = Default THEN <<>> ELSE <<L("setting", dev.wg.setting[k])>>)

(* encode stops at a name that it refuses, after the header of its peer.   *)
PeerLines(dev, k) ==
  IF dev.names[k] \in OddName THEN <<L("peer", Nil)>>
  ELSE <<L("peer", Nil)>>
    \o (IF dev.names[k] = NoName THEN <<>> ELSE <<L("name", dev.names[k])>>)
    \o <<L("publickey", k)>>
    \o (IF IPsOf(dev, k) = <<>> THEN <<>>
        ELSE <<L("allowedips", [i \in DOMAIN IPsOf(dev, k) |->
                                  [ip |-> IPsOf(dev, k)[i], op |-> "set"]])>>)
    \o (IF dev.wg.setting[k] = Default THEN <<>> ELSE <<L("setting", dev.wg.setting[k])>>)

EncodedPeers(dev) ==
  LET order   == SetToSeq(dev.wg.peers)
      refused == {i \in DOMAIN order : dev.names[order[i]] \in OddName}
  IN  IF refused = {} THEN order
      ELSE SubSeq(order, 1, CHOOSE i \in refused : \A j \in refused : i <= j)

Encode(dev) ==
  <<L("interface", Nil)>>
    \o (IF dev.iface = Default THEN <<>> ELSE <<L("iface", dev.iface)>>)
    \o <<L("blank", Nil)>>
    \o FlattenSeq([i \in DOMAIN EncodedPeers(dev) |-> PeerLines(dev, EncodedPeers(dev)[i])])
-----------------------------------------------------------------------------
VARIABLES
  parsing,    \* "no", "yes", "parsed" or "refused"
  text,       \* the lines that arrive
  readError,  \* after them, reading fails
  line,       \* how many lines are done
  section,    \* "", "interface" or "peer"
  named,      \* peerHasName
  tries,      \* lookups of the endpoint at hand that have failed
  cfg         \* the configuration so far

input  == <<text, readError>>
place  == <<section, named, tries>>
parser == <<parsing, input, line, place, cfg>>

Idle ==
  /\ parsing = "no" /\ text = <<>> /\ readError = FALSE /\ line = 0
  /\ section = "" /\ named = FALSE /\ tries = 0 /\ cfg = Empty(TRUE)

(* The variables of a Parse that has not been called.                      *)
Renew ==
  /\ parsing' = "no" /\ text' = <<>> /\ readError' = FALSE /\ line' = 0
  /\ section' = "" /\ named' = FALSE /\ tries' = 0 /\ cfg' = Empty(TRUE)

(* Parse(r, appendMode) on the lines that have arrived.                    *)
StartParse(append) ==
  /\ parsing' = "yes"
  /\ cfg' = Empty(append)
  /\ UNCHANGED <<input, line, place>>

This == text[line + 1]
At(kind) == parsing = "yes" /\ line < Len(text) /\ This.kind = kind
Newest == Len(cfg.peers)
Advance == line' = line + 1 /\ UNCHANGED <<parsing, input>>
SetEntry(field, value) == cfg' = [cfg EXCEPT !.peers[Newest][field] = value]

SkipLine == At("blank") /\ Advance /\ UNCHANGED <<place, cfg>>

StartInterface ==
  /\ At("interface")
  /\ section' = "interface"
  /\ named' = FALSE
  /\ Advance
  /\ UNCHANGED <<tries, cfg>>

StartPeer ==
  /\ At("peer")
  /\ section' = "peer"
  /\ named' = FALSE
  /\ cfg' = [cfg EXCEPT !.peers = Append(@, NewEntry)]
  /\ Advance
  /\ UNCHANGED tries

(* A field or a name that does not belong to the section, a second name    *)
(* and a value that cannot be parsed end the parsing.                      *)
Misplaced ==
  CASE This.kind \in {"blank", "interface", "peer"} -> FALSE
    [] This.kind = "junk"  -> TRUE
    [] This.kind = "iface" -> section # "interface"
    [] This.kind = "name"  -> section # "peer" \/ named
    [] OTHER -> section # "peer"

Legal == ~Misplaced /\ This.value # Bad

SetInterface ==
  /\ At("iface") /\ Legal
  /\ cfg' = [cfg EXCEPT !.iface = This.value]
  /\ Advance
  /\ UNCHANGED place

SetName ==
  /\ At("name") /\ Legal
  /\ SetEntry("name", This.value)
  /\ named' = TRUE
  /\ Advance
  /\ UNCHANGED <<section, tries>>

SetPublicKey ==
  /\ At("publickey") /\ Legal
  /\ SetEntry("key", This.value)
  /\ Advance
  /\ UNCHANGED place

SetSetting ==
  /\ At("setting") /\ Legal /\ This.value # Host
  /\ SetEntry("setting", This.value)
  /\ Advance
  /\ UNCHANGED place

Incremental(ops) == \E i \in DOMAIN ops : ops[i].op # "set"

(* A slip to exclude: a list in place of the lists before it.              *)
AddAllowedIPsLast ==
  /\ At("allowedips") /\ Legal
  /\ cfg' = [cfg EXCEPT !.peers[Newest].ops = This.value,
                        !.peers[Newest].replaceIPs = ~Incremental(This.value)]
  /\ Advance
  /\ UNCHANGED place

(* Every AllowedIPs line starts with ReplaceAllowedIPs = true again; one   *)
(* + or - in it makes it incremental.                                      *)
AddAllowedIPs ==
  /\ At("allowedips") /\ Legal
  /\ cfg' = [cfg EXCEPT !.peers[Newest].ops = @ \o This.value,
                        !.peers[Newest].replaceIPs = ~Incremental(This.value)]
  /\ Advance
  /\ UNCHANGED place

Looking == At("setting") /\ Legal /\ This.value = Host

Lookup ==
  /\ Looking
  /\ SetEntry("setting", HostAddr)
  /\ tries' = 0
  /\ Advance
  /\ UNCHANGED <<section, named>>

(* A slip to exclude: the retries have no end.                             *)
LookupForever ==
  /\ Looking
  /\ tries' = 1 - tries
  /\ UNCHANGED <<parsing, input, line, section, named, cfg>>

(* A temporary failure is tried again after a sleep that grows from one    *)
(* second to twenty.                                                       *)
LookupAgain ==
  /\ Looking
  /\ tries < Retries
  /\ tries' = tries + 1
  /\ UNCHANGED <<parsing, input, line, section, named, cfg>>

(* A permanent failure, or a temporary one after the last retry.           *)
LookupFails ==
  /\ Looking
  /\ parsing' = "refused"
  /\ UNCHANGED <<input, line, place, cfg>>

RefuseLine ==
  /\ parsing = "yes" /\ line < Len(text) /\ ~Legal
  /\ parsing' = "refused"
  /\ UNCHANGED <<input, line, place, cfg>>

Complete == ~readError /\ \A j \in DOMAIN cfg.peers : cfg.peers[j].key # NoKey

EndParse ==
  /\ parsing = "yes" /\ line = Len(text)
  /\ parsing' = IF Complete THEN "parsed" ELSE "refused"
  /\ UNCHANGED <<input, line, place, cfg>>

ParseStep ==
  \/ SkipLine \/ StartInterface \/ StartPeer
  \/ SetInterface \/ SetName \/ SetPublicKey \/ SetSetting \/ AddAllowedIPs
  \/ Lookup \/ LookupAgain \/ LookupFails
  \/ RefuseLine \/ EndParse
-----------------------------------------------------------------------------
(* What a text means, without going through it: a line belongs to the      *)
(* section whose header is the last before it.                             *)
Headers(t) == {n \in DOMAIN t : t[n].kind \in {"interface", "peer"}}
Under(t, h, kind) ==
  {n \in DOMAIN t : /\ n > h /\ t[n].kind = kind
                    /\ \A g \in Headers(t) : g > h => g > n}

Address(v) == IF v = Host THEN HostAddr ELSE v
LastValue(t, lines, default) ==
  IF lines = {} THEN default
  ELSE t[CHOOSE n \in lines : \A m \in lines : m <= n].value

(* The greatest comes last.                                                *)
InOrder(lines) ==
  MapThenFoldSet(LAMBDA n, others : Append(others, n), <<>>, LAMBDA n : n, Max, lines)

MeantEntry(t, h) ==
  LET lists == InOrder(Under(t, h, "allowedips"))
  IN  [NewEntry EXCEPT
         !.key        = LastValue(t, Under(t, h, "publickey"), NoKey),
         !.name       = LastValue(t, Under(t, h, "name"), Unset),
         !.setting    = Address(LastValue(t, Under(t, h, "setting"), Unset)),
         !.ops        = FlattenSeq([i \in DOMAIN lists |-> t[lists[i]].value]),
         !.replaceIPs = lists = <<>> \/ ~Incremental(t[lists[Len(lists)]].value)]

Meant(t, append) ==
  LET ifaces == UNION {Under(t, h, "iface") : h \in {g \in Headers(t) : t[g].kind = "interface"}}
      heads  == InOrder({h \in Headers(t) : t[h].kind = "peer"})
  IN  [iface   |-> LastValue(t, ifaces, Empty(append).iface),
       replace |-> ~append,
       peers   |-> [j \in DOMAIN heads |-> MeantEntry(t, heads[j])]]
=============================================================================
