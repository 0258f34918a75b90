-------------------------- MODULE KernelConfigure --------------------------
(***************************************************************************)
(* ConfigureDevice of internal/wglinux.  buildBatches cuts a large         *)
(* configuration into messages of one entry and at most IPChunk allowed    *)
(* IPs; they go to the kernel one by one, each waits for its               *)
(* acknowledgement, and the first error ends the call with the messages    *)
(* before it in effect.                                                    *)
(***************************************************************************)
EXTENDS KernelData

CONSTANTS
  Input,     \* the configurations to apply
  Start,     \* the devices to apply them to
  Refusals   \* how often the kernel refuses a message, at most

ASSUME InputTypes ==
  /\ Input \subseteq Config
  /\ Start \subseteq Device
  /\ Refusals \in Nat

VARIABLES
  dev,       \* the device
  pc,        \* "start", "peer", "chunk", "clear", "send", "failed" or "ok"
  cfg,       \* the configuration
  j,         \* the number of entries that were begun
  p,         \* the copy of the last of them, whose lists shrink
  known,     \* knownPeers
  batches,   \* the configurations to send
  sent,      \* how many of them were
  goal,      \* the device that one message with all of cfg would leave
  refused    \* how often the kernel refused

vars == <<dev, pc, cfg, j, p, known, batches, sent, goal, refused>>

NoEntry == [ips |-> <<>>, ops |-> <<>>]

Init ==
  /\ dev \in Start
  /\ pc = "start"
  /\ cfg \in Input
  /\ j = 0 /\ p = NoEntry /\ known = {}
  /\ batches = <<>> /\ sent = 0
  /\ goal = SetDevice(dev, Message(cfg))
  /\ refused = 0

(* A small configuration is one message. *)
Small ==
  /\ pc = "start"
  /\ ~ShouldBatch(cfg)
  /\ batches' = <<cfg>>
  /\ pc' = "send"
  /\ UNCHANGED <<dev, cfg, j, p, known, sent, goal, refused>>

Large ==
  /\ pc = "start"
  /\ ShouldBatch(cfg)
  /\ pc' = "peer"
  /\ UNCHANGED <<dev, cfg, j, p, known, batches, sent, goal, refused>>

BeginPeer ==
  /\ pc = "peer"
  /\ j < Len(cfg.peers)
  /\ j' = j + 1
  /\ p' = cfg.peers[j + 1]
  /\ pc' = "chunk"
  /\ UNCHANGED <<dev, cfg, known, batches, sent, goal, refused>>

LowerOf(a, b) == IF a < b THEN a ELSE b

(* How many IPs, and how many operations after them, this message takes.   *)
TakeIPs == LowerOf(Len(p.ips), IPChunk)
TakeOps == LowerOf(Len(p.ops), IPChunk - TakeIPs)

Rest(taken, s) == SubSeq(s, taken + 1, Len(s))

(* The entry of the message.  The first one about a key carries it all.    *)
Part ==
  [p EXCEPT !.ips = SubSeq(@, 1, TakeIPs),
            !.ops = SubSeq(@, 1, TakeOps),
            !.setting = IF p.key \in known THEN Unset ELSE @,
            !.replaceIPs = p.key \notin known /\ @]

(* Slips to exclude: the operations go with the last IPs whether or not    *)
(* they fit; the cursor over the operations stands still.                  *)
ChunkOverfull ==
  /\ pc = "chunk"
  /\ batches' = Append(batches, [replace |-> cfg.replace,
                                 peers |-> <<[Part EXCEPT !.ops = p.ops]>>])
  /\ known' = known \cup {p.key}
  /\ p' = [p EXCEPT !.ips = Rest(TakeIPs, @), !.ops = <<>>]
  /\ pc' = IF p'.ips = <<>> THEN "peer" ELSE "chunk"
  /\ UNCHANGED <<dev, cfg, j, sent, goal, refused>>

ChunkStuck ==
  /\ pc = "chunk"
  /\ known' = known \cup {p.key}
  /\ p' = [p EXCEPT !.ips = Rest(TakeIPs, @)]
  /\ pc' = IF p'.ips = <<>> /\ p'.ops = <<>> THEN "peer" ELSE "chunk"
  /\ UNCHANGED <<dev, cfg, j, batches, sent, goal, refused>>

Chunk ==
  /\ pc = "chunk"
  /\ batches' = Append(batches, [replace |-> cfg.replace, peers |-> <<Part>>])
  /\ known' = known \cup {p.key}
  /\ p' = [p EXCEPT !.ips = Rest(TakeIPs, @), !.ops = Rest(TakeOps, @)]
  /\ pc' = IF p'.ips = <<>> /\ p'.ops = <<>> THEN "peer" ELSE "chunk"
  /\ UNCHANGED <<dev, cfg, j, sent, goal, refused>>

EndPeers ==
  /\ pc = "peer"
  /\ j = Len(cfg.peers)
  /\ pc' = "clear"
  /\ UNCHANGED <<dev, cfg, j, p, known, batches, sent, goal, refused>>

(* A slip to exclude: every message replaces the peers. *)
ClearReplaceNever ==
  /\ pc = "clear"
  /\ pc' = "send"
  /\ UNCHANGED <<dev, cfg, j, p, known, batches, sent, goal, refused>>

(* Only the first message replaces the peers. *)
ClearReplace ==
  /\ pc = "clear"
  /\ batches' = [i \in DOMAIN batches |-> [batches[i] EXCEPT !.replace = @ /\ i = 1]]
  /\ pc' = "send"
  /\ UNCHANGED <<dev, cfg, j, p, known, sent, goal, refused>>
-----------------------------------------------------------------------------
Sending == Message(batches[sent + 1])

Send ==
  /\ pc = "send"
  /\ sent < Len(batches)
  /\ dev' = SetDevice(dev, Sending)
  /\ sent' = sent + 1
  /\ UNCHANGED <<pc, cfg, j, p, known, batches, goal, refused>>

(* A slip to exclude: the call goes on after a message that failed. *)
SendFailsResuming ==
  /\ pc = "send"
  /\ sent < Len(batches)
  /\ refused < Refusals
  /\ sent' = sent + 1
  /\ refused' = refused + 1
  /\ UNCHANGED <<dev, pc, cfg, j, p, known, batches, goal>>

(* The kernel stops at an entry of the message that it does not like, or   *)
(* the message cannot be encoded and is not sent.                          *)
SendFails ==
  /\ pc = "send"
  /\ sent < Len(batches)
  /\ refused < Refusals
  /\ \/ UNCHANGED dev
     \/ \E n \in 0..Len(Sending.peers) :
          dev' = SetDevice(dev, [Sending EXCEPT !.peers = SubSeq(@, 1, n)])
  /\ pc' = "failed"
  /\ refused' = refused + 1
  /\ UNCHANGED <<cfg, j, p, known, batches, sent, goal>>

Return ==
  /\ pc = "send"
  /\ sent = Len(batches)
  /\ pc' = "ok"
  /\ UNCHANGED <<dev, cfg, j, p, known, batches, sent, goal, refused>>

(* The caller has learnt of the error and tries the same again.            *)
Again ==
  /\ pc = "failed"
  /\ pc' = "start"
  /\ j' = 0 /\ p' = NoEntry /\ known' = {}
  /\ batches' = <<>> /\ sent' = 0
  /\ UNCHANGED <<dev, cfg, goal, refused>>

Run == Small \/ Large \/ BeginPeer \/ Chunk \/ EndPeers \/ ClearReplace \/ Send \/ Return

Next == Run \/ SendFails \/ Again

(* ConfigureDevice runs on; the kernel need not refuse, nobody has to try  *)
(* again.                                                                  *)
Spec == Init /\ [][Next]_vars /\ WF_vars(Run)
-----------------------------------------------------------------------------
(* Type invariant.                                                         *)
TypeOK ==
  /\ dev \in Device
  /\ pc \in {"start", "peer", "chunk", "clear", "send", "failed", "ok"}
  /\ cfg \in Config
  /\ j \in 0..Len(cfg.peers)
  /\ known \subseteq Key
  /\ batches \in Seq(Config)
  /\ sent \in 0..Len(batches)
  /\ goal \in Device
  /\ refused \in 0..Refusals

(* A message of a large configuration holds at most IPChunk allowed IPs,   *)
(* and none at all only for an entry that has none: what ipBatchChunk is   *)
(* there for, at the boundaries of both lists (configure_linux.go:99-138). *)
MessagesFit ==
  ShouldBatch(cfg) =>
    \A i \in DOMAIN batches :
      LET q == batches[i].peers[1]
          n == Len(q.ips) + Len(q.ops)
      IN  /\ n <= IPChunk
          /\ n = 0 => \E l \in DOMAIN cfg.peers :
                        cfg.peers[l].key = q.key /\ cfg.peers[l].ips = <<>>
                        /\ cfg.peers[l].ops = <<>>

(* A call that succeeds, at once or after tries that failed between or     *)
(* inside messages, leaves the device as one message with the whole        *)
(* configuration would have left it (client_linux.go:127-145).             *)
LeavesGoal == pc = "ok" => dev = goal

(* So it is if the configuration names no key twice.  Otherwise the        *)
(* later entries lose their settings and their ReplaceAllowedIPs, and      *)
(* LeavesGoal fails: "a non-nil PresharedKey specifies the preshared key   *)
(* of the peer entry" (types.go:294) holds in small configurations only.   *)
RetryCompletes == DistinctKeys(cfg) => LeavesGoal

(* "Do not allow peer replacement beyond the first message in a batch, so  *)
(* we don't overwrite our previous batch work" (configure_linux.go:175):   *)
(* later messages take no peer away that the configuration asks for.       *)
LaterMessagesKeep ==
  [][Send /\ sent > 0 /\ DistinctKeys(cfg) =>
       \A l \in DOMAIN cfg.peers :
         LET q == cfg.peers[l]
         IN  q.key \in dev.peers /\ ~q.remove => q.key \in dev'.peers]_vars

(* A call returns for every configuration, at every boundary of its lists. *)
CallReturns == pc = "start" ~> pc \in {"ok", "failed"}
=============================================================================
