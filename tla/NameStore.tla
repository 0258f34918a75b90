----------------------------- MODULE NameStore -----------------------------
(***************************************************************************)
(* internal/wgmeta: the friendly names of WireGuard peers, one JSON file   *)
(* per interface beside its configuration.  Goroutines of several          *)
(* processes (the wgd server, runs of the wg command) call Store.Names and *)
(* Store.Update.  Update takes the package's mutex processMu, then an      *)
(* exclusive flock on path+".lock", reads the file, applies the caller's   *)
(* callback, writes a temporary file, fsyncs it and renames it over the    *)
(* path.  Names takes only the mutex and relies on the rename.             *)
(*                                                                         *)
(* The file system, flock and the ways a process or the machine can stop   *)
(* are the environment; they are modelled as the code relies on them.      *)
(***************************************************************************)

EXTENDS NameFile

CONSTANTS
  NoTask,     \* the holder of a free lock
  NoTemp      \* a goroutine with no temporary file

VARIABLES
  pc,      \* where each goroutine is in Update or Names
  call,    \* its arguments
  ret,     \* the result of its last call
  base,    \* its local variable names: the map decoded from the file
  tmp,     \* its temporary file: content, and whether it has been fsynced
  mu,      \* processMu of each process
  flock,   \* the lock on path+".lock" of each path
  file,    \* the content found at each path
  disk     \* the contents each path may have after a power failure

vars == <<pc, call, ret, base, tmp, mu, flock, file, disk>>

(* The abstract state: a call is done once its result is decided. *)
PhaseOf(at) == IF at = "idle" THEN "idle"
               ELSE IF at \in {"unlock", "unlockMu"} THEN "done"
               ELSE "called"

phase == [t \in Task |-> PhaseOf(pc[t])]

Promise == INSTANCE AtomicNames

TempFile == [data : Content, synced : BOOLEAN]

ASSUME NoTaskType == NoTask \notin Task
ASSUME NoTempType == NoTemp \notin TempFile
-----------------------------------------------------------------------------
(* Any file an operator can have left at the path; it is on the disk.      *)
Init ==
  /\ file \in [File -> NameMap \cup {Absent, Bad}]
  /\ disk = [f \in File |-> {file[f]}]
  /\ pc = [t \in Task |-> "idle"]
  /\ call = [t \in Task |-> NoCall]
  /\ ret = [t \in Task |-> NoResult]
  /\ base = [t \in Task |-> EmptyMap]
  /\ tmp = [t \in Task |-> NoTemp]
  /\ mu = [p \in Process |-> NoTask]
  /\ flock = [f \in File |-> NoTask]

Goto(t, from, to) ==
  /\ pc[t] = from
  /\ pc' = [pc EXCEPT ![t] = to]

Invoke(t) ==
  /\ Goto(t, "idle", "wantMu")
  /\ \E c \in Call : call' = [call EXCEPT ![t] = c]
  /\ ret' = [ret EXCEPT ![t] = NoResult]
  /\ UNCHANGED <<base, tmp, mu, flock, file, disk>>

LockMu(t) ==
  /\ mu[ProcOf[t]] = NoTask
  /\ mu' = [mu EXCEPT ![ProcOf[t]] = t]
  /\ Goto(t, "wantMu", IF call[t] \in UpdateCall THEN "wantFlock" ELSE "load")
  /\ UNCHANGED <<call, ret, base, tmp, flock, file, disk>>

(* Names: no file lock.  os.ReadFile opens the inode that the path has at  *)
(* that instant; nobody writes to an inode once it has a path.             *)
Load(t) ==
  /\ Goto(t, "load", "unlockMu")
  /\ ret' = [ret EXCEPT ![t] = IF Readable(file[call[t].file])
                                 THEN Decode(file[call[t].file]) ELSE Error]
  /\ UNCHANGED <<call, base, tmp, mu, flock, file, disk>>

(* A slip to exclude: the lock is shared, flock(LOCK_SH). *)
LockFileShared(t) ==
  /\ Goto(t, "wantFlock", "read")
  /\ flock' = [flock EXCEPT ![call[t].file] = t]
  /\ UNCHANGED <<call, ret, base, tmp, mu, file, disk>>

(* Update waits for the file lock with processMu held. *)
LockFile(t) ==
  /\ Goto(t, "wantFlock", "read")
  /\ flock[call[t].file] = NoTask
  /\ flock' = [flock EXCEPT ![call[t].file] = t]
  /\ UNCHANGED <<call, ret, base, tmp, mu, file, disk>>

(* The directory or the lock file cannot be created, or flock fails. *)
LockFails(t) ==
  /\ Goto(t, "wantFlock", "unlockMu")
  /\ ret' = [ret EXCEPT ![t] = Error]
  /\ UNCHANGED <<call, base, tmp, mu, flock, file, disk>>

ReadNames(t) ==
  /\ Goto(t, "read", "create")
  /\ Readable(file[call[t].file])
  /\ base' = [base EXCEPT ![t] = Decode(file[call[t].file])]
  /\ UNCHANGED <<call, ret, tmp, mu, flock, file, disk>>

CreateTemp(t) ==
  /\ Goto(t, "create", "write")
  /\ tmp' = [tmp EXCEPT ![t] = [data |-> Torn, synced |-> FALSE]]
  /\ UNCHANGED <<call, ret, base, mu, flock, file, disk>>

(* A slip to exclude: the map as it was read is encoded, not the update. *)
WriteTempUnchanged(t) ==
  /\ Goto(t, "write", "sync")
  /\ tmp' = [tmp EXCEPT ![t].data = base[t]]
  /\ UNCHANGED <<call, ret, base, mu, flock, file, disk>>

WriteTemp(t) ==
  /\ Goto(t, "write", "sync")
  /\ tmp' = [tmp EXCEPT ![t].data = call[t].fn[base[t]]]
  /\ UNCHANGED <<call, ret, base, mu, flock, file, disk>>

(* A slip to exclude: renaming without fsync. *)
SyncTempSkipped(t) ==
  /\ Goto(t, "sync", "rename")
  /\ UNCHANGED <<call, ret, base, tmp, mu, flock, file, disk>>

SyncTemp(t) ==
  /\ Goto(t, "sync", "rename")
  /\ tmp' = [tmp EXCEPT ![t].synced = TRUE]
  /\ UNCHANGED <<call, ret, base, mu, flock, file, disk>>

(* The directory is not fsynced: after a power failure the path may have   *)
(* its old content or the new one, and the new one only if that was on the *)
(* disk before the rename.                                                 *)
RenameTemp(t) ==
  LET f == call[t].file IN
  /\ Goto(t, "rename", "unlock")
  /\ file' = [file EXCEPT ![f] = tmp[t].data]
  /\ disk' = [disk EXCEPT ![f] = @ \cup {tmp[t].data}
                                   \cup (IF tmp[t].synced THEN {} ELSE {Torn})]
  /\ tmp' = [tmp EXCEPT ![t] = NoTemp]
  /\ ret' = [ret EXCEPT ![t] = Ok]
  /\ UNCHANGED <<call, base, mu, flock>>

(* Slips to exclude: an error that is swallowed, and an early return       *)
(* before the file lock has its deferred Close.                            *)
UpdateFailsSilently(t) ==
  /\ pc[t] \in {"read", "create", "write", "sync", "rename"}
  /\ pc' = [pc EXCEPT ![t] = "unlock"]
  /\ ret' = [ret EXCEPT ![t] = Ok]
  /\ tmp' = [tmp EXCEPT ![t] = NoTemp]
  /\ UNCHANGED <<call, base, mu, flock, file, disk>>

UpdateFailsLocked(t) ==
  /\ pc[t] \in {"read", "create", "write", "sync", "rename"}
  /\ pc' = [pc EXCEPT ![t] = "unlockMu"]
  /\ ret' = [ret EXCEPT ![t] = Error]
  /\ tmp' = [tmp EXCEPT ![t] = NoTemp]
  /\ UNCHANGED <<call, base, mu, flock, file, disk>>

(* Any step between the file lock and the rename can return an error: the  *)
(* content does not decode, an I/O error, a full disk.  The deferred       *)
(* os.Remove deletes the temporary file.                                   *)
UpdateFails(t) ==
  /\ pc[t] \in {"read", "create", "write", "sync", "rename"}
  /\ pc' = [pc EXCEPT ![t] = "unlock"]
  /\ ret' = [ret EXCEPT ![t] = Error]
  /\ tmp' = [tmp EXCEPT ![t] = NoTemp]
  /\ UNCHANGED <<call, base, mu, flock, file, disk>>

UnlockFile(t) ==
  /\ Goto(t, "unlock", "unlockMu")
  /\ flock' = [flock EXCEPT ![call[t].file] = NoTask]
  /\ UNCHANGED <<call, ret, base, tmp, mu, file, disk>>

UnlockMu(t) ==
  /\ Goto(t, "unlockMu", "idle")
  /\ mu' = [mu EXCEPT ![ProcOf[t]] = NoTask]
  /\ call' = [call EXCEPT ![t] = NoCall]
  /\ base' = [base EXCEPT ![t] = EmptyMap]
  /\ UNCHANGED <<ret, tmp, flock, file, disk>>
-----------------------------------------------------------------------------
(* The goroutines in T are gone: the mutex was their process's memory and  *)
(* the kernel closes their lock files.  A temporary file they leave behind *)
(* has a random name that nothing opens again.                             *)
Vanish(T) ==
  /\ pc' = [t \in Task |-> IF t \in T THEN "idle" ELSE pc[t]]
  /\ call' = [t \in Task |-> IF t \in T THEN NoCall ELSE call[t]]
  /\ ret' = [t \in Task |-> IF t \in T THEN NoResult ELSE ret[t]]
  /\ base' = [t \in Task |-> IF t \in T THEN EmptyMap ELSE base[t]]
  /\ tmp' = [t \in Task |-> IF t \in T THEN NoTemp ELSE tmp[t]]
  /\ mu' = [p \in Process |-> IF mu[p] \in T THEN NoTask ELSE mu[p]]
  /\ flock' = [f \in File |-> IF flock[f] \in T THEN NoTask ELSE flock[f]]

Kill(p) ==
  /\ Vanish({t \in Task : ProcOf[t] = p})
  /\ UNCHANGED <<file, disk>>

PowerLoss ==
  /\ Vanish(Task)
  /\ file' \in [File -> UNION {disk[f] : f \in File}]
  /\ \A f \in File : file'[f] \in disk[f]
  /\ disk' = [f \in File |-> {file'[f]}]

(* The kernel has written everything out. *)
Settle(f) ==
  /\ disk' = [disk EXCEPT ![f] = {file[f]}]
  /\ UNCHANGED <<pc, call, ret, base, tmp, mu, flock, file>>

Step(t) ==
  \/ LockMu(t) \/ Load(t) \/ LockFile(t) \/ ReadNames(t)
  \/ CreateTemp(t) \/ WriteTemp(t) \/ SyncTemp(t) \/ RenameTemp(t)
  \/ UpdateFails(t) \/ UnlockFile(t) \/ UnlockMu(t)

Next ==
  \/ \E t \in Task : Invoke(t) \/ Step(t) \/ LockFails(t)
  \/ \E p \in Process : Kill(p)
  \/ PowerLoss
  \/ \E f \in File : Settle(f)

Spec == Init /\ [][Next]_vars

(* sync.Mutex hands itself over to a waiter that starves, and the kernel   *)
(* queues flock waiters in order, so both locks are strongly fair; the     *)
(* other steps are the goroutine running.  Waiting for the file lock never *)
(* has to fail, and nothing has to be killed.                              *)
Fairness ==
  \A t \in Task : /\ WF_vars(Step(t))
                  /\ SF_vars(LockMu(t))
                  /\ SF_vars(LockFile(t))

FairSpec == Spec /\ Fairness
-----------------------------------------------------------------------------
PCs == {"idle", "wantMu", "load", "wantFlock", "read", "create", "write",
        "sync", "rename", "unlock", "unlockMu"}

HasFlock == {"read", "create", "write", "sync", "rename", "unlock"}

(* Type invariant of the store and of the goroutines inside it. *)
TypeOK ==
  /\ file \in [File -> Content]
  /\ disk \in [File -> SUBSET Content]
  /\ pc \in [Task -> PCs]
  /\ call \in [Task -> Call \cup {NoCall}]
  /\ ret \in [Task -> Result]
  /\ base \in [Task -> NameMap]
  /\ tmp \in [Task -> TempFile \cup {NoTemp}]
  /\ mu \in [Process -> Task \cup {NoTask}]
  /\ flock \in [File -> Task \cup {NoTask}]

(* Update is a read-modify-write (store.go:60-70): whatever the goroutines *)
(* of other processes do, and whoever was killed before, the map a         *)
(* goroutine decoded is still the content of the path when it renames its  *)
(* new version over it, so nobody else's change is overwritten unseen.     *)
ReadIsCurrent ==
  \A t \in Task :
    pc[t] \in {"create", "write", "sync", "rename"}
      => LET f == call[t].file
         IN  Readable(file[f]) /\ base[t] = Decode(file[f])

(* atomicWriteFile (store.go:105-132): no reader, and nobody after a power *)
(* failure at any moment, finds a file that was written in part.           *)
WholeVersions ==
  \A f \in File : file[f] # Torn /\ Torn \notin disk[f]

(* The inductive invariant behind the three above, checked here and proved *)
(* in FileProofs: which call a goroutine is in, that it owns the file      *)
(* lock from the read to the unlock (store.go:55-70), and what its         *)
(* temporary file holds.                                                   *)
CallFits ==
  \A t \in Task :
    /\ pc[t] # "idle" => call[t] \in Call
    /\ pc[t] = "load" => call[t] \in LookupCall
    /\ pc[t] \in {"wantFlock"} \cup HasFlock => call[t] \in UpdateCall

FlockHeld == \A t \in Task : pc[t] \in HasFlock => flock[call[t].file] = t

TempFits ==
  \A t \in Task :
    /\ pc[t] \in {"write", "sync", "rename"} => tmp[t] \in TempFile
    /\ pc[t] \in {"sync", "rename"} => tmp[t].data = call[t].fn[base[t]]
    /\ pc[t] = "rename" => tmp[t].synced = TRUE

Consistent ==
  /\ TypeOK
  /\ CallFits
  /\ FlockHeld
  /\ TempFits
  /\ ReadIsCurrent
  /\ WholeVersions

(* "Update atomically updates the map" (store.go:49): every behaviour of   *)
(* locks, temporary files, crashes and power failures looks to the callers *)
(* as if each Update and each Names had taken effect in one step.          *)
Atomic == Promise!Spec

(* Every call returns: the two locks are always taken in the same order,   *)
(* every error path gives back what it holds, and a dead process blocks    *)
(* nobody (store.go:52-59, lock_unix.go:30-36).                            *)
CallsReturn == \A t \in Task : pc[t] = "wantMu" ~> pc[t] = "idle"
=============================================================================
