---------------------------- MODULE AtomicNames ----------------------------
(***************************************************************************)
(* What the peer-name store of internal/wgmeta promises to its callers:    *)
(* one file of names per path, and two operations on it, Update and Names, *)
(* each of which takes effect at a single instant between its call and its *)
(* return, or fails and leaves no trace.  NameStore is the detailed        *)
(* specification; it implements this one.                                  *)
(***************************************************************************)

EXTENDS NameFile

VARIABLES
  file,   \* what a reader of each path finds now
  disk,   \* what each path may hold after a power failure
  call,   \* the call each goroutine has in progress
  ret,    \* the result of each goroutine's last call
  phase   \* "idle", "called" or "done"

vars == <<file, disk, call, ret, phase>>

Init ==
  /\ file \in [File -> NameMap \cup {Absent, Bad}]
  /\ disk = [f \in File |-> {file[f]}]
  /\ call = [t \in Task |-> NoCall]
  /\ ret = [t \in Task |-> NoResult]
  /\ phase = [t \in Task |-> "idle"]

Invoke(t) ==
  /\ phase[t] = "idle"
  /\ \E c \in Call : call' = [call EXCEPT ![t] = c]
  /\ ret' = [ret EXCEPT ![t] = NoResult]
  /\ phase' = [phase EXCEPT ![t] = "called"]
  /\ UNCHANGED <<file, disk>>

(* The whole read-modify-write happens in one step.  The new version may   *)
(* or may not have reached the disk when the power fails.                  *)
Update(t) ==
  LET f == call[t].file
      m == call[t].fn[Decode(file[f])]
  IN  /\ phase[t] = "called"
      /\ call[t] \in UpdateCall
      /\ Readable(file[f])
      /\ file' = [file EXCEPT ![f] = m]
      /\ disk' = [disk EXCEPT ![f] = @ \cup {m}]
      /\ ret' = [ret EXCEPT ![t] = Ok]
      /\ phase' = [phase EXCEPT ![t] = "done"]
      /\ UNCHANGED call

Names(t) ==
  /\ phase[t] = "called"
  /\ call[t] \in LookupCall
  /\ Readable(file[call[t].file])
  /\ ret' = [ret EXCEPT ![t] = Decode(file[call[t].file])]
  /\ phase' = [phase EXCEPT ![t] = "done"]
  /\ UNCHANGED <<file, disk, call>>

Fail(t) ==
  /\ phase[t] = "called"
  /\ ret' = [ret EXCEPT ![t] = Error]
  /\ phase' = [phase EXCEPT ![t] = "done"]
  /\ UNCHANGED <<file, disk, call>>

Return(t) ==
  /\ phase[t] = "done"
  /\ phase' = [phase EXCEPT ![t] = "idle"]
  /\ call' = [call EXCEPT ![t] = NoCall]
  /\ UNCHANGED <<file, disk, ret>>

(* The tasks in T disappear with whatever they were doing. *)
Vanish(T) ==
  /\ phase' = [t \in Task |-> IF t \in T THEN "idle" ELSE phase[t]]
  /\ call' = [t \in Task |-> IF t \in T THEN NoCall ELSE call[t]]
  /\ ret' = [t \in Task |-> IF t \in T THEN NoResult ELSE ret[t]]

Kill(p) ==
  /\ Vanish({t \in Task : ProcOf[t] = p})
  /\ UNCHANGED <<file, disk>>

PowerLoss ==
  /\ Vanish(Task)
  /\ file' \in [File -> UNION {disk[f] : f \in File}]
  /\ \A f \in File : file'[f] \in disk[f]
  /\ disk' = [f \in File |-> {file'[f]}]

Settle(f) ==
  /\ disk' = [disk EXCEPT ![f] = {file[f]}]
  /\ UNCHANGED <<file, call, ret, phase>>

Next ==
  \/ \E t \in Task : Invoke(t) \/ Update(t) \/ Names(t) \/ Fail(t) \/ Return(t)
  \/ \E p \in Process : Kill(p)
  \/ PowerLoss
  \/ \E f \in File : Settle(f)

Spec == Init /\ [][Next]_vars
=============================================================================
