----------------------------- MODULE RestRequest -----------------------------
(***************************************************************************)
(* One client of wgd that makes requests one after the other: the logging  *)
(* middleware that reads a body ahead, the key, the routes, the methods,   *)
(* the modes, the parsing of ConfText, and Apply and Sync with the device  *)
(* and its names.  What several clients do to each other is in ConfApply.  *)
(***************************************************************************)
EXTENDS ConfText

CONSTANTS
  NoBody,  \* a request without a body
  Shown,   \* as a body: what the last GET of a configuration answered
  Script,  \* Script[n]: the requests that the client may make as its n-th
  Start    \* the devices to start with

Right == "right"
OpenPaths == {"autotest", "health"}
Paths == OpenPaths \cup {"devices", "device", "conf", "unknown"}
Request == [method : {"GET", "PUT", "POST", "DELETE"}, path : Paths,
            key : {Right, "wrong", "none"}, mode : {"", "add", "set", "sync", "merge"}]
NoRequest == [method |-> "GET", path |-> "unknown", key |-> "none", mode |-> ""]

(* The names of Apply, see ConfData. *)
Meta == INSTANCE ConfData WITH SelfKey <- Nobody, Keep <- Unset, Name <- Name \cup OddName

(* A device with its peers, its own settings and the names of its peers.   *)
NamedDevice == [wg : Device, iface : Setting \cup {Default}, names : Meta!NameMap]

Header(r) == [method |-> r.method, path |-> r.path, key |-> r.key, mode |-> r.mode]

(* Only peers have settings and IPs.                                       *)
Tidy(d) == /\ \A k \in Key \ d.peers : d.setting[k] = Default
           /\ \A a \in IP : d.owner[a] \in d.peers \cup {Nobody}

ASSUME StartType  == \A d \in Start : d \in NamedDevice /\ Tidy(d.wg)
ASSUME ScriptType == \A n \in DOMAIN Script : \A r \in Script[n] : Header(r) \in Request

(* A structured configuration has a list of peers.                         *)
Entry ==
  [key : Key \cup {Bad}, remove : BOOLEAN, updateOnly : BOOLEAN,
   name : Name \cup OddName \cup {Unset, Clear},
   setting : Setting \cup {Default, Unset, Host, Bad}, replaceIPs : BOOLEAN, ips : Seq(IP)]
Structure ==
  [iface : Setting \cup {Default, Unset}, replace : BOOLEAN, peers : Seq(Entry)]

ASSUME BodyTypes ==
  /\ IsFiniteSet(Key) /\ IsFiniteSet(IP) /\ NoBody # Shown
  /\ Len(Script) \in Nat /\ DOMAIN Script = 1..Len(Script)
  /\ \A n \in DOMAIN Script : \A r \in Script[n] :
       /\ r.path = "conf" /\ r.body \notin {NoBody, Shown} => r.body \in Seq(Line)
       /\ r.path = "device" /\ r.body # NoBody =>
            r.body # Shown /\ r.body \in Structure

VARIABLES
  at,      \* where the request is
  req,     \* the request
  body,    \* what its client sent
  dev,     \* the device and the names of its peers
  up,      \* whether the device is there
  status,  \* of the last answer
  turn,    \* requests made
  shown,   \* the lines of the last GET of the configuration ...
  shownOf, \* ... and the device it was asked about
  before,  \* the device when the request arrived
  gone     \* the device has been missing during the request

asked   == <<req, body, turn, before>>
answers == <<shown, shownOf>>
web     == <<at, asked, dev, up, status, answers, gone>>
vars    == <<web, parser>>

Init ==
  /\ Idle
  /\ at = "idle" /\ req = NoRequest /\ body = NoBody
  /\ dev \in Start /\ up = TRUE
  /\ status = 0 /\ turn = 0
  /\ shown = <<>> /\ shownOf = dev /\ before = dev /\ gone = FALSE

Ask ==
  /\ at = "idle" /\ turn < Len(Script)
  /\ \E r \in Script[turn + 1] :
       /\ req' = Header(r)
       /\ body' = IF r.body = Shown THEN shown ELSE r.body
  /\ turn' = turn + 1
  /\ at' = "peek"
  /\ status' = 0
  /\ before' = dev
  /\ gone' = ~up
  /\ Renew
  /\ UNCHANGED <<dev, up, answers>>
-----------------------------------------------------------------------------
(* What is left of a line in which a text breaks off: nothing, junk, a     *)
(* shorter value or a shorter list.                                        *)
Stump(l) ==
  {L("blank", Nil), L("junk", Nil)}
    \cup CASE l.kind = "allowedips" /\ l.value # Bad ->
                {L(l.kind, SubSeq(l.value, 1, n)) : n \in 0..Len(l.value)}
           [] l.kind \in {"iface", "setting"} -> [kind : {l.kind}, value : Setting \cup {Bad}]
           [] l.kind \in {"name", "publickey"} -> {L(l.kind, Bad)}
           [] OTHER -> {}

BrokenOff(t) ==
  UNION {{SubSeq(t, 1, n - 1) \o <<l>> : l \in Stump(t[n])} : n \in DOMAIN t}

IsText == req.path = "conf" /\ body # NoBody

(* A slip to exclude: what lies between the part that was read ahead and   *)
(* the rest is lost.                                                       *)
PeekLoses ==
  /\ at = "peek"
  /\ at' = "auth"
  /\ text' \in IF IsText THEN {SubSeq(body, 1, m) \o SubSeq(body, n, Len(body)) :
                               m \in 0..Len(body), n \in 1..Len(body)}
              ELSE {<<>>}
  /\ UNCHANGED <<asked, dev, up, status, answers, gone, readError, parsing, line, place, cfg>>

(* peekRequestBody reads the whole body and puts it back as one that ends  *)
(* where the reading ended, whatever the reason.                           *)
Peek ==
  /\ at = "peek"
  /\ at' = "auth"
  /\ text' \in IF IsText THEN {body} \cup BrokenOff(body) ELSE {<<>>}
  /\ UNCHANGED <<asked, dev, up, status, answers, gone, readError, parsing, line, place, cfg>>

(* Only an error other than the end of the stream within the first         *)
(* kilobyte is left for the handler to see; a body longer than             *)
(* MaxBytesReader lets through ends in an error too.                       *)
PeekFails ==
  /\ at = "peek" /\ IsText
  /\ at' = "auth"
  /\ text' \in {<<>>, body}
  /\ readError' = TRUE
  /\ UNCHANGED <<asked, dev, up, status, answers, gone, parsing, line, place, cfg>>

Reply(code) == at' = "idle" /\ status' = code /\ UNCHANGED <<asked, up, gone>>
ReplyOnly(code) == Reply(code) /\ UNCHANGED <<dev, answers, parser>>
Goto(next) == at' = next /\ UNCHANGED <<asked, up, gone, status, answers>>

Authorized == req.path \in OpenPaths \/ req.key = Right

Unauthorized == at = "auth" /\ ~Authorized /\ ReplyOnly(401)

Methods ==
  CASE req.path = "device" -> {"GET", "POST"}
    [] req.path = "conf" -> {"GET", "PUT", "POST"}
    [] req.path = "autotest" -> {"GET"}
    [] OTHER -> {"GET", "PUT", "POST", "DELETE"}

Known == at = "auth" /\ Authorized /\ req.path # "unknown"
NotFound == at = "auth" /\ Authorized /\ req.path = "unknown" /\ ReplyOnly(404)
MethodNotAllowed == Known /\ req.method \notin Methods /\ ReplyOnly(405)
Routed(path) == Known /\ req.path = path /\ req.method \in Methods

Alive == \E path \in OpenPaths : Routed(path) /\ ReplyOnly(200)

ListDevices == Routed("devices") /\ \E code \in {200, 500} : ReplyOnly(code)

(* client.Device on both resources.                                        *)
Reads == req.method = "GET" /\ (Routed("device") \/ Routed("conf"))
Missing == Reads /\ ~up /\ ReplyOnly(404)
ShowDevice == Routed("device") /\ req.method = "GET" /\ up /\ ReplyOnly(200)

(* Names that cannot be read are left out, with a warning in the log.      *)
ShowConf ==
  /\ Routed("conf") /\ req.method = "GET" /\ up
  /\ \E names \in {dev.names, Meta!NoNames} : shown' = Encode([dev EXCEPT !.names = names])
  /\ shownOf' = dev
  /\ Reply(200)
  /\ UNCHANGED <<dev, parser>>
-----------------------------------------------------------------------------
Mode == IF req.mode # "" THEN req.mode ELSE IF req.method = "PUT" THEN "set" ELSE "add"
AppendMode   == Mode = "add"
ReplacePeers == Mode = "set"
SyncPeers    == Mode = "sync"

Writes == Routed("conf") /\ req.method # "GET"

WrongMode == Writes /\ Mode \notin {"add", "set", "sync"} /\ ReplyOnly(400)

Parse ==
  /\ Writes /\ Mode \in {"add", "set", "sync"}
  /\ StartParse(AppendMode)
  /\ Goto("parse")
  /\ UNCHANGED dev

ParseLine == at = "parse" /\ ParseStep /\ UNCHANGED web

Refused == at = "parse" /\ parsing = "refused" /\ ReplyOnly(400)

(* The mode decides about ReplacePeers, not the parser.                    *)
Parsed ==
  /\ at = "parse" /\ parsing = "parsed"
  /\ cfg' = [cfg EXCEPT !.replace = ReplacePeers]
  /\ Goto(IF SyncPeers THEN "sync" ELSE "configure")
  /\ UNCHANGED <<dev, parsing, input, line, place>>

(* POST /devices/{name}.  A pointer that is absent or null becomes nil;    *)
(* endpoints are resolved at once, without retries.                        *)
FromJSON(entry) ==
  [NewEntry EXCEPT !.key = entry.key, !.remove = entry.remove,
     !.updateOnly = entry.updateOnly, !.name = entry.name,
     !.setting = Address(entry.setting),
     !.replaceIPs = entry.replaceIPs, !.ips = entry.ips]

BadEntry(entry) == entry.key = Bad \/ entry.setting = Bad

Structured == Routed("device") /\ req.method = "POST"

ParseConfig ==
  /\ Structured /\ body # NoBody
  /\ \A j \in DOMAIN body.peers : ~BadEntry(body.peers[j])
  /\ cfg' = [iface |-> body.iface, replace |-> body.replace,
             peers |-> [j \in DOMAIN body.peers |-> FromJSON(body.peers[j])]]
  /\ Goto("configure")
  /\ UNCHANGED <<dev, parsing, input, line, place>>

(* Something in it is wrong, a host cannot be looked up, or the body broke *)
(* off: unlike a text, it is no JSON then.                                 *)
BadConfig == Structured /\ ReplyOnly(400)
-----------------------------------------------------------------------------
Applying == at \in {"sync", "configure", "readback"}

(* The device is asked for at each of these steps.                         *)
DeviceMissing == Applying /\ ~up /\ ReplyOnly(404)

(* A slip to exclude: an error while applying is taken for a bad request.  *)
StepFailsBad == Applying /\ up /\ ReplyOnly(400)

(* A step that fails otherwise, the saving of the names included.  What a  *)
(* failing device call has done by then is in ConfApply.                   *)
StepFails == Applying /\ up /\ ReplyOnly(500)

(* Sync: a removal for every peer that the configuration does not mention. *)
Removal(k) == [NewEntry EXCEPT !.key = k, !.remove = TRUE, !.replaceIPs = FALSE]

Sync ==
  /\ at = "sync" /\ up
  /\ LET unwanted == SetToSeq(dev.wg.peers \ Meta!Keys(cfg))
     IN  cfg' = [cfg EXCEPT !.peers = @ \o [i \in DOMAIN unwanted |-> Removal(unwanted[i])]]
  /\ Goto("configure")
  /\ UNCHANGED <<dev, parsing, input, line, place>>

Configure ==
  /\ at = "configure" /\ up
  /\ dev' = [dev EXCEPT !.wg = SetDevice(@, Message(cfg)),
                        !.iface = IF cfg.iface = Unset THEN @ ELSE cfg.iface]
  /\ Goto("readback")
  /\ UNCHANGED parser

(* The callback of Apply over the peers read back.                         *)
SaveNames ==
  /\ at = "readback" /\ up
  /\ dev' = [dev EXCEPT !.names = Meta!NamesAfter(cfg, dev.wg.peers, @)]
  /\ Reply(200)
  /\ UNCHANGED <<answers, parser>>

(* Someone removes the interface.                                          *)
Vanish ==
  /\ up
  /\ up' = FALSE
  /\ gone' = TRUE
  /\ UNCHANGED <<at, asked, dev, status, answers, parser>>

Serve ==
  \/ Peek \/ PeekFails
  \/ Unauthorized \/ NotFound \/ MethodNotAllowed \/ Alive
  \/ ListDevices \/ Missing \/ ShowDevice \/ ShowConf
  \/ WrongMode \/ Parse \/ ParseLine \/ Refused \/ Parsed
  \/ ParseConfig \/ BadConfig
  \/ DeviceMissing \/ StepFails \/ Sync \/ Configure \/ SaveNames

Next == Ask \/ Serve \/ Vanish

(* net/http runs the handler on; lookups end (Retries is finite).          *)
Spec == Init /\ [][Next]_vars /\ WF_vars(Serve)
-----------------------------------------------------------------------------
(* Line by line, the configuration so far is what the lines so far mean:   *)
(* a field belongs to the last header before it, the last of two wins,     *)
(* lists add up, names and marks of one section never reach the next       *)
(* (parse.go:28-140).                                                      *)
ParsedAsWritten ==
  parsing = "yes" => cfg = Meant(SubSeq(text, 1, line), AppendMode)

(* What GET /conf shows can be put back: in the mode "set" the device is   *)
(* as it was when it was shown, whatever was done to it in between; every  *)
(* mode leaves an unchanged device as it is.  However its peers are        *)
(* called, so are they then, unless the names could not be read for        *)
(* showing.  A text that Encode had to stop in is refused                  *)
(* (encode.go:47, server.go:412-458).                                      *)
PutBack ==
  at = "idle" /\ status = 200 /\ req.path = "conf" /\ req.method # "GET"
    /\ shown # <<>> /\ text = shown /\ (before = shownOf \/ ReplacePeers) =>
    /\ dev.wg = shownOf.wg
    /\ dev.iface = shownOf.iface
    /\ shown = Encode(shownOf) =>
         \A k \in dev.wg.peers : dev.names[k] = shownOf.names[k]

(* An upload that breaks off is accepted if what arrived can be parsed;    *)
(* but all entries before the last are what the client sent                *)
(* (server.go:244-267, parse.go:152).                                      *)
DamageIsLast ==
  parsing = "parsed" /\ at = "parse" =>
    LET sent == Meant(IF IsText THEN body ELSE <<>>, AppendMode).peers IN
      /\ Len(cfg.peers) <= Len(sent)
      /\ \A j \in DOMAIN cfg.peers : j < Len(cfg.peers) => cfg.peers[j] = sent[j]

RefusedIsHarmless ==
  at = "idle" /\ status \in {400, 401, 405} => dev = before

NotFoundIsMissing ==
  at = "idle" /\ status = 404 /\ req.path \in {"device", "conf"} => gone

(* A client can go by the status: a request that is told it was wrong has  *)
(* changed nothing, however far it came, and "not found" is said only of a *)
(* device that was missing during the request (server.go:386-458,          *)
(* deviceErrorStatus).                                                     *)
StatusIsTrue == RefusedIsHarmless /\ NotFoundIsMissing

(* syncconf clears the preshared key and the keepalive of a peer whose     *)
(* only entry in the configuration does not give them (conf.go:94).       *)
SyncClears ==
  at = "idle" /\ status = 200 /\ req.path = "conf" /\ req.method # "GET" /\ SyncPeers =>
    \A e \in {cfg.peers[j] : j \in DOMAIN cfg.peers} :
      e.setting = Unset /\ DistinctKeys(cfg) => dev.wg.setting[e.key] = Default

(* Every request is answered: parsing, with its lookups, comes to an end   *)
(* (parse.go:231-250).                                                     *)
Answered == at # "idle" ~> at = "idle"
=============================================================================
