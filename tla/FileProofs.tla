----------------------------- MODULE FileProofs -----------------------------
(***************************************************************************)
(* The files that several hosts or processes read, change and write back:  *)
(* the names store and what wg syncgitee publishes.                        *)
(*                                                                         *)
(* NameStore, for any processes, goroutines, paths, maps and updates:      *)
(* Consistent is inductive, so the read-modify-write of Update is never    *)
(* interleaved and no file is ever torn; and every step of the store is a  *)
(* step of AtomicNames or changes nothing its callers can see.             *)
(*                                                                         *)
(* GiteeSync, for any number of hosts, keys and runs.  The invariant       *)
(* (Filed) says of each host that what it has collected is one node per    *)
(* key, its own with the private key and the others without (Collected),   *)
(* that what it merges with is what it has seen of its file, and of each   *)
(* file that no run has written over unseen what Published says, with one  *)
(* node per key in the place of the count.  That a merge keeps this is     *)
(* proved along its loop (MergeParts).                                     *)
(***************************************************************************)
EXTENDS NameStore, GiteeSync, ListProofs

(* The names store                                                         *)

(* A step that moves one goroutine keeps pc a function into PCs.           *)
LEMMA GotoType ==
  ASSUME pc \in [Task -> PCs], NEW t \in Task,
         NEW from, NEW to \in PCs, Goto(t, from, to)
  PROVE  /\ pc' \in [Task -> PCs]
         /\ pc[t] = from
         /\ pc'[t] = to
         /\ \A u \in Task \ {t} : pc'[u] = pc[u]
  BY DEF Goto

(* The initial states are consistent.                                      *)
LEMMA InitConsistent == Init => Consistent
<1> SUFFICES ASSUME Init PROVE Consistent
  OBVIOUS
<1>1. TypeOK
  BY UpdatesType DEF Init, TypeOK, Content, Result, PCs
<1>2. CallFits /\ FlockHeld /\ TempFits /\ ReadIsCurrent
  BY DEF Init, CallFits, FlockHeld, TempFits, ReadIsCurrent, HasFlock
<1>3. WholeVersions
  BY Sentinels DEF Init, WholeVersions
<1> QED
  BY <1>1, <1>2, <1>3 DEF Consistent

(* Whatever an update makes of a decoded file is again a map of names.     *)
LEMMA NewVersionType ==
  ASSUME NEW c \in UpdateCall, NEW m \in NameMap
  PROVE  c.fn[m] \in NameMap
  BY UpdatesType DEF UpdateCall

(* Goroutines that vanish leave nothing behind that the invariant is about.*)
LEMMA VanishKeeps ==
  ASSUME Consistent, NEW T \in SUBSET Task, Vanish(T)
  PROVE  /\ pc' \in [Task -> PCs]
         /\ call' \in [Task -> Call \cup {NoCall}]
         /\ ret' \in [Task -> Result]
         /\ base' \in [Task -> NameMap]
         /\ tmp' \in [Task -> TempFile \cup {NoTemp}]
         /\ mu' \in [Process -> Task \cup {NoTask}]
         /\ flock' \in [File -> Task \cup {NoTask}]
         /\ CallFits' /\ FlockHeld' /\ TempFits'
         /\ \A t \in T : pc'[t] = "idle"
         /\ \A t \in Task \ T : pc'[t] = pc[t] /\ call'[t] = call[t]
                                  /\ base'[t] = base[t]
<1> USE DEF Consistent, TypeOK, Vanish
<1>1. /\ pc' \in [Task -> PCs]
      /\ \A t \in T : pc'[t] = "idle"
      /\ \A t \in Task \ T : /\ pc'[t] = pc[t]
                              /\ call'[t] = call[t]
                              /\ base'[t] = base[t]
                              /\ tmp'[t] = tmp[t]
  BY DEF PCs
<1>2. /\ call' \in [Task -> Call \cup {NoCall}]
      /\ ret' \in [Task -> Result]
      /\ base' \in [Task -> NameMap]
      /\ tmp' \in [Task -> TempFile \cup {NoTemp}]
      /\ mu' \in [Process -> Task \cup {NoTask}]
      /\ flock' \in [File -> Task \cup {NoTask}]
  BY UpdatesType DEF Result
<1>3. CallFits'
  BY <1>1 DEF CallFits, HasFlock
<1>4. FlockHeld'
  <2> SUFFICES ASSUME NEW t \in Task, pc'[t] \in HasFlock
               PROVE  flock'[call'[t].file] = t
    BY DEF FlockHeld
  <2>1. t \in Task \ T /\ pc[t] \in HasFlock /\ call'[t] = call[t]
    BY <1>1 DEF HasFlock
  <2>2. flock[call[t].file] = t /\ call[t].file \in File
    BY <2>1 DEF FlockHeld, CallFits, UpdateCall
  <2> QED
    BY <2>1, <2>2
<1>5. TempFits'
  BY <1>1 DEF TempFits
<1> QED
  BY <1>1, <1>2, <1>3, <1>4, <1>5

(* Every step of the store, of the kernel and of a crash is consistent:    *)
(* only RenameTemp changes a file, and only the owner of the lock does.    *)
LEMMA StepConsistent == Consistent /\ [Next]_vars => Consistent'
<1> SUFFICES ASSUME Consistent, [Next]_vars PROVE Consistent'
  OBVIOUS
<1> USE DEF Consistent
<1>1. ASSUME NEW t \in Task, Invoke(t) PROVE Consistent'
  <2>1. PICK c \in Call : call' = [call EXCEPT ![t] = c]
    BY <1>1 DEF Invoke
  <2>2. TypeOK'
    BY <1>1, <2>1 DEF Invoke, Goto, TypeOK, PCs, Result
  <2>3. CallFits' /\ FlockHeld' /\ TempFits' /\ ReadIsCurrent' /\ WholeVersions'
    BY <1>1, <2>1 DEF Invoke, Goto, TypeOK, PCs, HasFlock, CallFits, FlockHeld,
                      TempFits, ReadIsCurrent, WholeVersions
  <2> QED
    BY <2>2, <2>3
<1>2. ASSUME NEW t \in Task, LockMu(t) PROVE Consistent'
  <2>1. TypeOK'
    BY <1>2, ProcOfType DEF LockMu, Goto, TypeOK, PCs
  <2>2. CallFits'
    BY <1>2 DEF LockMu, Goto, TypeOK, PCs, HasFlock, CallFits, Call
  <2>3. FlockHeld' /\ TempFits' /\ ReadIsCurrent' /\ WholeVersions'
    BY <1>2 DEF LockMu, Goto, TypeOK, PCs, HasFlock, FlockHeld, TempFits,
                ReadIsCurrent, WholeVersions
  <2> QED
    BY <2>1, <2>2, <2>3
<1>3. ASSUME NEW t \in Task, Load(t) PROVE Consistent'
  <2>1. ret' \in [Task -> Result]
    BY <1>3, UpdatesType DEF Load, TypeOK, Result, Readable, Decode
  <2>2. TypeOK'
    BY <1>3, <2>1 DEF Load, Goto, TypeOK, PCs
  <2>3. CallFits' /\ FlockHeld' /\ TempFits' /\ ReadIsCurrent' /\ WholeVersions'
    BY <1>3 DEF Load, Goto, TypeOK, PCs, HasFlock, CallFits, FlockHeld,
                TempFits, ReadIsCurrent, WholeVersions
  <2> QED
    BY <2>2, <2>3
<1>4. ASSUME NEW t \in Task, LockFile(t) PROVE Consistent'
  <2>1. call[t] \in UpdateCall /\ call[t].file \in File
    BY <1>4 DEF LockFile, Goto, CallFits, UpdateCall
  <2>2. TypeOK'
    BY <1>4, <2>1 DEF LockFile, Goto, TypeOK, PCs
  <2>3. FlockHeld'
    <3> SUFFICES ASSUME NEW u \in Task, pc'[u] \in HasFlock
                 PROVE  flock'[call'[u].file] = u
      BY DEF FlockHeld
    <3>1. CASE u = t
      BY <3>1, <1>4, <2>1 DEF LockFile, TypeOK
    <3>2. CASE u # t
      <4>1. flock[call[u].file] = u
        BY <3>2, <1>4 DEF LockFile, Goto, TypeOK, FlockHeld
      <4>2. call[u].file # call[t].file
        BY <4>1, <1>4, NoTaskType DEF LockFile
      <4> QED
        BY <4>1, <4>2, <1>4, <2>1 DEF LockFile, TypeOK
    <3> QED
      BY <3>1, <3>2
  <2>4. CallFits' /\ TempFits' /\ ReadIsCurrent' /\ WholeVersions'
    BY <1>4 DEF LockFile, Goto, TypeOK, PCs, HasFlock, CallFits, TempFits,
                ReadIsCurrent, WholeVersions
  <2> QED
    BY <2>2, <2>3, <2>4
<1>5. ASSUME NEW t \in Task, LockFails(t) PROVE Consistent'
  <2>1. TypeOK'
    BY <1>5 DEF LockFails, Goto, TypeOK, PCs, Result
  <2>2. CallFits' /\ FlockHeld' /\ TempFits' /\ ReadIsCurrent' /\ WholeVersions'
    BY <1>5 DEF LockFails, Goto, TypeOK, PCs, HasFlock, CallFits, FlockHeld,
                TempFits, ReadIsCurrent, WholeVersions
  <2> QED
    BY <2>1, <2>2
<1>6. ASSUME NEW t \in Task, ReadNames(t) PROVE Consistent'
  <2>1. Decode(file[call[t].file]) \in NameMap
    BY <1>6, UpdatesType DEF ReadNames, Readable, Decode
  <2>2. TypeOK'
    BY <1>6, <2>1 DEF ReadNames, Goto, TypeOK, PCs
  <2>3. CallFits' /\ FlockHeld' /\ TempFits' /\ ReadIsCurrent' /\ WholeVersions'
    BY <1>6, <2>1 DEF ReadNames, Goto, TypeOK, PCs, HasFlock, CallFits, FlockHeld,
                TempFits, ReadIsCurrent, WholeVersions
  <2> QED
    BY <2>2, <2>3
<1>7. ASSUME NEW t \in Task, CreateTemp(t) PROVE Consistent'
  <2>1. [data |-> Torn, synced |-> FALSE] \in TempFile
    BY DEF TempFile, Content
  <2>2. TypeOK'
    BY <1>7, <2>1 DEF CreateTemp, Goto, TypeOK, PCs
  <2>3. CallFits' /\ FlockHeld' /\ TempFits' /\ ReadIsCurrent' /\ WholeVersions'
    BY <1>7, <2>1 DEF CreateTemp, Goto, TypeOK, PCs, HasFlock, CallFits, FlockHeld,
                TempFits, ReadIsCurrent, WholeVersions
  <2> QED
    BY <2>2, <2>3
<1>8. ASSUME NEW t \in Task, WriteTemp(t) PROVE Consistent'
  <2>1. /\ call[t] \in UpdateCall
        /\ tmp[t] \in TempFile
        /\ call[t].fn[base[t]] \in NameMap
    BY <1>8, NewVersionType DEF WriteTemp, Goto, CallFits, TempFits, HasFlock, TypeOK
  <2>2. /\ tmp'[t] = [data |-> call[t].fn[base[t]], synced |-> tmp[t].synced]
        /\ tmp'[t] \in TempFile
        /\ tmp' = [tmp EXCEPT ![t] = tmp'[t]]
    BY <1>8, <2>1 DEF WriteTemp, TypeOK, TempFile, Content
  <2>3. TypeOK'
    BY <1>8, <2>2 DEF WriteTemp, Goto, TypeOK, PCs
  <2>4. TempFits'
    BY <1>8, <2>2 DEF WriteTemp, Goto, TypeOK, TempFits
  <2>5. CallFits' /\ FlockHeld' /\ ReadIsCurrent' /\ WholeVersions'
    BY <1>8 DEF WriteTemp, Goto, TypeOK, PCs, HasFlock, CallFits, FlockHeld,
                ReadIsCurrent, WholeVersions
  <2> QED
    BY <2>3, <2>4, <2>5
<1>9. ASSUME NEW t \in Task, SyncTemp(t) PROVE Consistent'
  <2>1. tmp[t] \in TempFile
    BY <1>9 DEF SyncTemp, Goto, TempFits
  <2>2. /\ tmp'[t] = [data |-> tmp[t].data, synced |-> TRUE]
        /\ tmp'[t] \in TempFile
        /\ tmp' = [tmp EXCEPT ![t] = tmp'[t]]
    BY <1>9, <2>1 DEF SyncTemp, TypeOK, TempFile
  <2>3. TypeOK'
    BY <1>9, <2>2 DEF SyncTemp, Goto, TypeOK, PCs
  <2>4. TempFits'
    <3>1. /\ pc[t] = "sync" /\ pc'[t] = "rename" /\ UNCHANGED <<call, base>>
          /\ \A u \in Task \ {t} : pc'[u] = pc[u] /\ tmp'[u] = tmp[u]
      BY <1>9 DEF SyncTemp, Goto, TypeOK
    <3>2. tmp'[t].data = call[t].fn[base[t]] /\ tmp'[t].synced = TRUE
      BY <2>2, <3>1 DEF TempFits
    <3> QED
      BY <2>2, <3>1, <3>2 DEF TempFits
  <2>5. CallFits' /\ FlockHeld' /\ ReadIsCurrent' /\ WholeVersions'
    BY <1>9 DEF SyncTemp, Goto, TypeOK, PCs, HasFlock, CallFits, FlockHeld,
                ReadIsCurrent, WholeVersions
  <2> QED
    BY <2>3, <2>4, <2>5
<1>10. ASSUME NEW t \in Task, RenameTemp(t) PROVE Consistent'
  <2> DEFINE f == call[t].file
             m == tmp[t].data
  <2>1. /\ call[t] \in UpdateCall /\ f \in File
        /\ m = call[t].fn[base[t]] /\ m \in NameMap
        /\ tmp[t].synced = TRUE
        /\ pc[t] = "rename" /\ flock[f] = t
    BY <1>10, NewVersionType
    DEF RenameTemp, Goto, CallFits, TempFits, FlockHeld, HasFlock, TypeOK, UpdateCall
  <2>2. /\ file' = [file EXCEPT ![f] = m]
        /\ disk' = [disk EXCEPT ![f] = @ \cup {m}]
    BY <1>10, <2>1, Zenon DEF RenameTemp
  <2>3. m \in Content /\ m # Torn
    BY <2>1, Sentinels DEF Content
  <2>4. TypeOK'
    <3>1. file' \in [File -> Content] /\ disk' \in [File -> SUBSET Content]
      BY <2>2, <2>3 DEF TypeOK
    <3> QED
      BY <3>1, <1>10 DEF RenameTemp, Goto, TypeOK, PCs, Result
  <2>5. WholeVersions'
    BY <2>1, <2>2, <2>3 DEF WholeVersions, TypeOK
  <2>6. CallFits' /\ FlockHeld' /\ TempFits'
    BY <1>10 DEF RenameTemp, Goto, TypeOK, PCs, HasFlock, CallFits, FlockHeld, TempFits
  \* Another goroutine between its read and its rename holds another lock.
  <2>7. ReadIsCurrent'
    <3> SUFFICES ASSUME NEW u \in Task,
                        pc'[u] \in {"create", "write", "sync", "rename"}
                 PROVE  /\ Readable(file'[call'[u].file])
                        /\ base'[u] = Decode(file'[call'[u].file])
      BY DEF ReadIsCurrent, Readable, Decode
    <3>1. u # t /\ pc'[u] = pc[u] /\ call'[u] = call[u] /\ base'[u] = base[u]
      BY <1>10 DEF RenameTemp, Goto, TypeOK
    <3>2. pc[u] \in HasFlock /\ call[u].file \in File /\ flock[call[u].file] = u
      BY <3>1 DEF HasFlock, FlockHeld, CallFits, UpdateCall
    <3>3. call[u].file # f
      BY <3>1, <3>2, <2>1
    <3>4. file'[call[u].file] = file[call[u].file]
      BY <3>2, <3>3, <2>1, <2>2 DEF TypeOK
    <3> QED
      BY <3>1, <3>4 DEF ReadIsCurrent
  <2> QED
    BY <2>4, <2>5, <2>6, <2>7
<1>11. ASSUME NEW t \in Task, UpdateFails(t) PROVE Consistent'
  <2>1. TypeOK'
    BY <1>11 DEF UpdateFails, TypeOK, PCs, Result
  <2>2. CallFits' /\ FlockHeld' /\ TempFits' /\ ReadIsCurrent' /\ WholeVersions'
    BY <1>11 DEF UpdateFails, TypeOK, PCs, HasFlock, CallFits, FlockHeld,
                 TempFits, ReadIsCurrent, WholeVersions
  <2> QED
    BY <2>1, <2>2
<1>12. ASSUME NEW t \in Task, UnlockFile(t) PROVE Consistent'
  <2>1. /\ call[t].file \in File /\ flock[call[t].file] = t /\ pc[t] = "unlock"
    BY <1>12 DEF UnlockFile, Goto, CallFits, FlockHeld, HasFlock, UpdateCall
  <2>2. TypeOK'
    BY <1>12 DEF UnlockFile, Goto, TypeOK, PCs
  <2>3. FlockHeld'
    <3> SUFFICES ASSUME NEW u \in Task, pc'[u] \in HasFlock
                 PROVE  flock'[call'[u].file] = u
      BY DEF FlockHeld
    <3>1. u # t /\ pc[u] \in HasFlock /\ call'[u] = call[u]
      BY <1>12 DEF UnlockFile, Goto, TypeOK, HasFlock
    <3>2. flock[call[u].file] = u
      BY <3>1 DEF FlockHeld
    <3> QED
      BY <3>1, <3>2, <2>1, <1>12 DEF UnlockFile, TypeOK
  <2>4. CallFits' /\ TempFits' /\ ReadIsCurrent' /\ WholeVersions'
    BY <1>12 DEF UnlockFile, Goto, TypeOK, PCs, HasFlock, CallFits, TempFits,
                 ReadIsCurrent, WholeVersions
  <2> QED
    BY <2>2, <2>3, <2>4
<1>13. ASSUME NEW t \in Task, UnlockMu(t) PROVE Consistent'
  <2>1. TypeOK'
    BY <1>13, UpdatesType DEF UnlockMu, Goto, TypeOK, PCs
  <2>2. CallFits' /\ FlockHeld' /\ TempFits' /\ ReadIsCurrent' /\ WholeVersions'
    BY <1>13 DEF UnlockMu, Goto, TypeOK, PCs, HasFlock, CallFits, FlockHeld,
                 TempFits, ReadIsCurrent, WholeVersions
  <2> QED
    BY <2>1, <2>2
<1>14. ASSUME NEW p \in Process, Kill(p) PROVE Consistent'
  <2> DEFINE T == {t \in Task : ProcOf[t] = p}
  <2>1. T \in SUBSET Task /\ Vanish(T) /\ UNCHANGED <<file, disk>>
    BY <1>14 DEF Kill
  <2>2. TypeOK' /\ CallFits' /\ FlockHeld' /\ TempFits'
    BY <2>1, VanishKeeps DEF TypeOK
  <2>3. ReadIsCurrent'
    <3> SUFFICES ASSUME NEW u \in Task,
                        pc'[u] \in {"create", "write", "sync", "rename"}
                 PROVE  /\ Readable(file'[call'[u].file])
                        /\ base'[u] = Decode(file'[call'[u].file])
      BY DEF ReadIsCurrent, Readable, Decode
    <3>1. u \in Task \ T /\ pc'[u] = pc[u] /\ call'[u] = call[u] /\ base'[u] = base[u]
      BY <2>1, VanishKeeps
    <3> QED
      BY <3>1, <2>1 DEF ReadIsCurrent
  <2>4. WholeVersions'
    BY <2>1 DEF WholeVersions
  <2> QED
    BY <2>2, <2>3, <2>4
<1>15. CASE PowerLoss
  <2>1. /\ Vanish(Task)
        /\ file' \in [File -> Content] /\ \A f \in File : file'[f] \in disk[f]
        /\ disk' = [f \in File |-> {file'[f]}]
    BY <1>15 DEF PowerLoss, TypeOK
  <2>2. TypeOK' /\ CallFits' /\ FlockHeld' /\ TempFits' /\ \A t \in Task : pc'[t] = "idle"
    BY <2>1, VanishKeeps DEF TypeOK
  <2>3. WholeVersions'
    BY <2>1 DEF WholeVersions
  <2>4. ReadIsCurrent'
    BY <2>2 DEF ReadIsCurrent
  <2> QED
    BY <2>2, <2>3, <2>4
<1>16. ASSUME NEW f \in File, Settle(f) PROVE Consistent'
  <2>1. TypeOK' /\ WholeVersions'
    BY <1>16 DEF Settle, TypeOK, WholeVersions
  <2>2. CallFits' /\ FlockHeld' /\ TempFits' /\ ReadIsCurrent'
    BY <1>16 DEF Settle, CallFits, FlockHeld, TempFits, ReadIsCurrent
  <2> QED
    BY <2>1, <2>2
<1>17. CASE UNCHANGED vars
  BY <1>17 DEF vars, TypeOK, CallFits, FlockHeld, TempFits, ReadIsCurrent, WholeVersions
<1> QED
  BY <1>1, <1>2, <1>3, <1>4, <1>5, <1>6, <1>7, <1>8, <1>9, <1>10, <1>11, <1>12,
     <1>13, <1>14, <1>15, <1>16, <1>17 DEF Next, Step

(* Type correctness, and with it what a goroutine in the store owns: the   *)
(* invariant that the three theorems below and the refinement rest on.     *)
THEOREM StoreConsistent == Spec => []Consistent
  BY InitConsistent, StepConsistent, PTL DEF Spec

(* Store.Update never overwrites a change it has not read (store.go:60-70) *)
(* for any number of processes and goroutines, and any crashes.            *)
THEOREM NoLostUpdate == Spec => []ReadIsCurrent
<1>1. Consistent => ReadIsCurrent
  BY DEF Consistent
<1> QED
  BY <1>1, StoreConsistent, PTL

(* atomicWriteFile (store.go:105-132): no partial file is ever visible, or *)
(* found after a power failure.                                            *)
THEOREM NoTornFile == Spec => []WholeVersions
<1>1. Consistent => WholeVersions
  BY DEF Consistent
<1> QED
  BY <1>1, StoreConsistent, PTL
-----------------------------------------------------------------------------
(* What a step of one goroutine does to the state its caller sees.         *)
LEMMA PhaseMoves ==
  ASSUME pc \in [Task -> PCs], NEW t \in Task,
         NEW to \in PCs, pc' = [pc EXCEPT ![t] = to]
  PROVE  phase' = [phase EXCEPT ![t] = PhaseOf(to)]
  BY DEF phase

LEMMA PhaseVanishes ==
  ASSUME NEW T \in SUBSET Task,
         pc' = [t \in Task |-> IF t \in T THEN "idle" ELSE pc[t]]
  PROVE  phase' = [t \in Task |-> IF t \in T THEN "idle" ELSE phase[t]]
  BY DEF phase, PhaseOf

(* Each step of the store is one of the promise's steps, or invisible.     *)
LEMMA StepImplements == Consistent /\ [Next]_vars => [Promise!Next]_Promise!vars
<1> SUFFICES ASSUME Consistent, [Next]_vars PROVE [Promise!Next]_Promise!vars
  OBVIOUS
<1> USE DEF Consistent, TypeOK
<1>1. ASSUME NEW t \in Task, Invoke(t) PROVE Promise!Invoke(t)
  <2>1. phase' = [phase EXCEPT ![t] = "called"] /\ phase[t] = "idle"
    BY <1>1, PhaseMoves DEF Invoke, Goto, phase, PhaseOf, PCs
  <2> QED
    BY <1>1, <2>1 DEF Invoke, Promise!Invoke, Promise!Call, Promise!UpdateCall,
                      Promise!LookupCall, Call, UpdateCall, LookupCall
<1>2. ASSUME NEW t \in Task,
             \/ LockMu(t) \/ LockFile(t) \/ ReadNames(t) \/ CreateTemp(t)
             \/ WriteTemp(t) \/ SyncTemp(t) \/ UnlockFile(t)
      PROVE  UNCHANGED Promise!vars
  <2>1. UNCHANGED <<file, disk, call, ret>>
    BY <1>2 DEF LockMu, LockFile, ReadNames, CreateTemp, WriteTemp, SyncTemp, UnlockFile
  <2>2. PICK to \in PCs \ {"idle"} : /\ pc' = [pc EXCEPT ![t] = to]
                                     /\ PhaseOf(to) = PhaseOf(pc[t])
    BY <1>2 DEF LockMu, LockFile, ReadNames, CreateTemp, WriteTemp, SyncTemp,
                UnlockFile, Goto, PCs, PhaseOf
  <2>3. phase' = phase
    BY <2>2, PhaseMoves DEF phase
  <2> QED
    BY <2>1, <2>3 DEF Promise!vars
<1>3. ASSUME NEW t \in Task, Load(t) PROVE Promise!Names(t) \/ Promise!Fail(t)
  <2>1. /\ phase' = [phase EXCEPT ![t] = "done"] /\ phase[t] = "called"
        /\ call[t] \in LookupCall
    BY <1>3, PhaseMoves DEF Load, Goto, phase, PhaseOf, PCs, CallFits
  <2> QED
    BY <1>3, <2>1 DEF Load, Promise!Names, Promise!Fail, Promise!Readable, Readable,
                      Promise!Decode, Decode, Promise!LookupCall, LookupCall
<1>4. ASSUME NEW t \in Task, LockFails(t) \/ UpdateFails(t) PROVE Promise!Fail(t)
  <2>1. phase' = [phase EXCEPT ![t] = "done"] /\ phase[t] = "called"
    BY <1>4, PhaseMoves DEF LockFails, UpdateFails, Goto, phase, PhaseOf, PCs
  <2> QED
    BY <1>4, <2>1 DEF LockFails, UpdateFails, Promise!Fail
\* The one step that changes a file: what it writes is the update of what
\* is there, because of ReadIsCurrent.
<1>5. ASSUME NEW t \in Task, RenameTemp(t) PROVE Promise!Update(t)
  <2>1. phase' = [phase EXCEPT ![t] = "done"] /\ phase[t] = "called"
    BY <1>5, PhaseMoves DEF RenameTemp, Goto, phase, PhaseOf, PCs
  <2>2. /\ call[t] \in UpdateCall
        /\ Readable(file[call[t].file])
        /\ tmp[t].data = call[t].fn[Decode(file[call[t].file])]
        /\ tmp[t].synced = TRUE
    BY <1>5 DEF RenameTemp, Goto, CallFits, HasFlock, TempFits, ReadIsCurrent
  <2>3. /\ file' = [file EXCEPT ![call[t].file] = tmp[t].data]
        /\ disk' = [disk EXCEPT ![call[t].file] = @ \cup {tmp[t].data}]
    BY <1>5, <2>2, Zenon DEF RenameTemp
  <2> QED
    BY <1>5, <2>1, <2>2, <2>3, Zenon
    DEF RenameTemp, Promise!Update, Promise!UpdateCall, UpdateCall,
        Promise!Readable, Readable, Promise!Decode, Decode
<1>6. ASSUME NEW t \in Task, UnlockMu(t) PROVE Promise!Return(t)
  <2>1. phase' = [phase EXCEPT ![t] = "idle"] /\ phase[t] = "done"
    BY <1>6, PhaseMoves DEF UnlockMu, Goto, phase, PhaseOf, PCs
  <2> QED
    BY <1>6, <2>1 DEF UnlockMu, Promise!Return
<1>7. ASSUME NEW p \in Process, Kill(p) PROVE Promise!Kill(p)
  <2> DEFINE T == {t \in Task : ProcOf[t] = p}
  <2>1. Promise!Vanish(T)
    BY <1>7, PhaseVanishes DEF Kill, Vanish, Promise!Vanish
  <2> QED
    BY <1>7, <2>1 DEF Kill, Promise!Kill
<1>8. ASSUME PowerLoss PROVE Promise!PowerLoss
  <2>1. Promise!Vanish(Task)
    BY <1>8, PhaseVanishes DEF PowerLoss, Vanish, Promise!Vanish
  <2> QED
    BY <1>8, <2>1 DEF PowerLoss, Promise!PowerLoss
<1>9. ASSUME NEW f \in File, Settle(f) PROVE Promise!Settle(f)
  BY <1>9 DEF Settle, Promise!Settle, phase
<1>10. CASE UNCHANGED vars
  BY <1>10 DEF vars, Promise!vars, phase
<1> QED
  BY <1>1, <1>2, <1>3, <1>4, <1>5, <1>6, <1>7, <1>8, <1>9, <1>10
  DEF Next, Step, Promise!Next

(* "Update atomically updates the map of names" (store.go:49): the store   *)
(* with its two locks, temporary files, failures and crashes implements    *)
(* the specification in which every call takes effect in one step.         *)
THEOREM StoreIsAtomic == Spec => Atomic
<1>1. Init => Promise!Init
  BY DEF Init, Promise!Init, phase, PhaseOf
<1> QED
  BY <1>1, StepImplements, StoreConsistent, PTL DEF Spec, Atomic, Promise!Spec
-----------------------------------------------------------------------------
(* wg syncgitee                                                            *)

(* At most one node for each key.                                          *)
OneEach(s) == \A m, n \in DOMAIN s : s[m].key = s[n].key => m = n

(* As many nodes as keys.                                                  *)
LEMMA CountOneEach ==
  ASSUME NEW s \in Seq(Node), OneEach(s)
  PROVE  Cardinality(KeysIn(s)) = Len(s)
<1> DEFINE f == [n \in 1..Len(s) |-> s[n].key]
<1>1. Len(s) \in Nat /\ DOMAIN s = 1..Len(s)
  BY LenProperties
<1>2. f \in Bijection(1..Len(s), KeysIn(s))
  <2>1. f \in [1..Len(s) -> KeysIn(s)] /\ \A k \in KeysIn(s) : \E n \in 1..Len(s) : f[n] = k
    BY <1>1 DEF KeysIn
  <2>2. \A m, n \in 1..Len(s) : f[m] = f[n] => m = n
    BY <1>1 DEF OneEach
  <2>3. f \in Surjection(1..Len(s), KeysIn(s))
    BY <2>1 DEF Surjection
  <2>4. f \in Injection(1..Len(s), KeysIn(s))
    BY <2>1, <2>2 DEF Injection, IsInjective
  <2> QED
    BY <2>3, <2>4 DEF Bijection
<1> HIDE DEF f
<1>3. ExistsBijection(1..Len(s), KeysIn(s))
  BY <1>2 DEF ExistsBijection
<1> QED
  BY <1>1, <1>3, FS_CountingElements
-----------------------------------------------------------------------------
(* The merge                                                               *)

(* One round of the loop of mergeSyncGiteeNodes.                           *)
Put(merged, node) ==
  IF node.key \in KeysIn(merged)
    THEN [n \in DOMAIN merged |-> IF merged[n].key = node.key THEN node ELSE merged[n]]
  ELSE Append(merged, node)

(* Each node of r is one of t, or one of s that t says nothing about.      *)
FromBoth(r, s, t) ==
  \A n \in DOMAIN r : \/ \E m \in DOMAIN t : r[n] = t[m]
                      \/ \E m \in DOMAIN s : r[n] = s[m] /\ s[m].key \notin KeysIn(t)

(* A node takes the place of the one with its key, or the end.             *)
LEMMA PutParts ==
  ASSUME NEW s \in Seq(Node), NEW e \in Node, OneEach(s)
  PROVE  /\ Put(s, e) \in Seq(Node) /\ OneEach(Put(s, e))
         /\ KeysIn(Put(s, e)) = KeysIn(s) \cup {e.key}
         /\ \A n \in DOMAIN Put(s, e) :
              \/ Put(s, e)[n] = e
              \/ \E m \in DOMAIN s : Put(s, e)[n] = s[m] /\ s[m].key # e.key
<1>1. Len(s) \in Nat /\ DOMAIN s = 1..Len(s) /\ \A n \in 1..Len(s) : s[n] \in Node
  BY LenProperties
<1>2. CASE e.key \in KeysIn(s)
  <2> DEFINE r == [n \in 1..Len(s) |-> IF s[n].key = e.key THEN e ELSE s[n]]
  <2>1. Put(s, e) = r
    BY <1>1, <1>2 DEF Put
  <2>2. DOMAIN r = 1..Len(s)
        /\ \A n \in 1..Len(s) : r[n] = IF s[n].key = e.key THEN e ELSE s[n]
    OBVIOUS
  <2>3. r \in Seq(Node)
    BY <1>1
  <2> HIDE DEF r
  <2>4. \A n \in 1..Len(s) : r[n].key = s[n].key
    BY <2>2
  <2>5. OneEach(r)
    BY <1>1, <2>2, <2>4 DEF OneEach
  <2>6. KeysIn(r) = KeysIn(s)
    BY <1>1, <2>2, <2>4 DEF KeysIn
  <2>7. \A n \in DOMAIN r : r[n] = e \/ \E m \in DOMAIN s : r[n] = s[m] /\ s[m].key # e.key
    BY <1>1, <2>2
  <2> QED
    BY <1>2, <2>1, <2>3, <2>5, <2>6, <2>7
<1>3. CASE e.key \notin KeysIn(s)
  <2> DEFINE r == Append(s, e)
             k == Len(s) + 1
  <2>1. Put(s, e) = r
    BY <1>3 DEF Put
  <2>2. /\ r \in Seq(Node) /\ DOMAIN r = 1..k /\ r[k] = e
        /\ \A n \in 1..Len(s) : r[n] = s[n]
    BY <1>1
  <2> HIDE DEF r
  <2>3. \A n \in DOMAIN r : n \in DOMAIN s \/ n = k
    BY <1>1, <2>2
  <2>4. \A n \in DOMAIN s : n \in DOMAIN r /\ r[n] = s[n] /\ s[n].key # e.key
    BY <1>1, <1>3, <2>2 DEF KeysIn
  <2>5. k \in DOMAIN r /\ r[k] = e
    BY <1>1, <2>2
  <2>6. OneEach(r)
    BY <2>3, <2>4, <2>5 DEF OneEach
  <2>7. KeysIn(r) = KeysIn(s) \cup {e.key}
    BY <2>3, <2>4, <2>5 DEF KeysIn
  <2>8. \A n \in DOMAIN r : r[n] = e \/ \E m \in DOMAIN s : r[n] = s[m] /\ s[m].key # e.key
    BY <2>3, <2>4, <2>5
  <2> QED
    BY <2>1, <2>2, <2>6, <2>7, <2>8
<1> QED
  BY <1>2, <1>3

(* The lists files and runs have.                                          *)
Lists == {s \in Seq(Node) : OneEach(s)}

(* So what the loop has is always a list with one node per key.            *)
LEMMA PutList ==
  ASSUME NEW s \in Lists, NEW e \in Node
  PROVE  Put(s, e) \in Lists
<1>1. s \in Seq(Node) /\ OneEach(s)
  BY DEF Lists
<1>2. Put(s, e) \in Seq(Node) /\ OneEach(Put(s, e))
  BY <1>1, PutParts
<1> QED
  BY <1>2 DEF Lists

(* The loop, round by round.                                               *)
LEMMA MergeRounds ==
  ASSUME NEW s \in Lists, NEW t \in Seq(Node)
  PROVE  \E g \in [0..Len(t) -> Lists] :
           /\ g[0] = s /\ g[Len(t)] = Merge(s, t)
           /\ \A i \in 1..Len(t) : g[i] = Put(g[i - 1], t[i])
<1> DEFINE n == Len(t)
           F == [x \in Lists \X (1..n) |-> Put(x[1], t[x[2]])]
           Is(h) == h = [u \in SUBSET (1..n) |->
                           IF u = {} THEN s ELSE Put(h[u \ {Max(u)}], t[Max(u)])]
<1>1. n \in Nat /\ DOMAIN t = 1..n /\ \A i \in 1..n : t[i] \in Node
  BY LenProperties
<1>2. F \in [Lists \X (1..n) -> Lists]
  BY <1>1, PutList
<1>3. PICK h \in [SUBSET (1..n) -> Lists] : IsFold(h, n, s, F)
  <2>1. n \in Nat /\ s \in Lists
    BY <1>1
  <2> HIDE DEF F, n
  <2> QED
    BY <2>1, <1>2, Folding
<1>4. ASSUME NEW u \in SUBSET (1..n), u # {}
      PROVE  Max(u) \in 1..n
  <2>1. \E m \in u : \A x \in u : m >= x
    BY <1>1, <1>4, LastIn
  <2> QED
    BY <2>1 DEF Max
<1>5. ASSUME NEW u \in SUBSET (1..n), u # {}
      PROVE  h[u] = Put(h[u \ {Max(u)}], t[Max(u)])
  <2>1. h[u] = F[<<h[u \ {Max(u)}], Max(u)>>]
    BY <1>3, <1>5, Zenon DEF IsFold
  <2>2. h[u \ {Max(u)}] \in Lists
    BY <1>3
  <2> QED
    BY <1>4, <1>5, <2>1, <2>2
<1>6. Is(h)
  BY <1>3, <1>5 DEF IsFold
<1>7. Merge(s, t) = (CHOOSE f : Is(f))[1..n]
  BY <1>1 DEF Merge, FoldLeft, MapThenFoldSet, Put
<1> DEFINE f == CHOOSE f : Is(f)
<1>8. Is(f)
  BY <1>6
<1> HIDE DEF f
<1>9. ASSUME NEW i \in 1..n PROVE f[1..i] = Put(f[1..(i - 1)], t[i])
  <2>1. 1..i \in SUBSET (1..n) /\ 1..i # {} /\ (1..i) \ {i} = 1..(i - 1) /\ Max(1..i) = i
    BY <1>1, FirstPositions
  <2> QED
    BY <1>8, <2>1, Zenon
<1>10. f[1..0] = s
  <2>1. 1..0 \in SUBSET (1..n) /\ 1..0 = {}
    BY <1>1
  <2> QED
    BY <1>8, <2>1, Zenon
<1> DEFINE g == [i \in 0..n |-> f[1..i]]
           S == {i \in 0..n : f[1..i] \in Lists}
<1>11. \A i \in 0..n : i \in S
  <2>1. 0 \in S
    BY <1>1, <1>10
  <2>2. ASSUME NEW i \in 0..n, i < n, i \in S PROVE i + 1 \in S
    <3>1. i + 1 \in 1..n /\ (i + 1) - 1 = i
      BY <1>1, <2>2
    <3>2. f[1..(i + 1)] = Put(f[1..i], t[i + 1])
      BY <1>9, <3>1
    <3>3. f[1..i] \in Lists /\ t[i + 1] \in Node
      BY <1>1, <2>2, <3>1
    <3>4. f[1..(i + 1)] \in Lists
      BY <3>2, <3>3, PutList
    <3>5. i + 1 \in 0..n
      BY <1>1, <2>2
    <3> QED
      BY <3>4, <3>5
  <2> HIDE DEF S, n
  <2> QED
    BY <1>1, <2>1, <2>2, Upwards
<1>12. g \in [0..n -> Lists] /\ g[0] = s /\ g[n] = Merge(s, t)
  <2>1. g \in [0..n -> Lists]
    BY <1>11
  <2>2. 0 \in 0..n /\ n \in 0..n
    BY <1>1
  <2>3. g[n] = f[1..n]
    BY <2>2
  <2> QED
    BY <1>7, <1>10, <2>1, <2>2, <2>3 DEF f
<1>13. \A i \in 1..n : g[i] = Put(g[i - 1], t[i])
  BY <1>1, <1>9
<1> HIDE DEF g
<1> QED
  BY <1>12, <1>13

(* What a merge leaves: the nodes of t, and those of s about other keys.   *)
LEMMA MergeParts ==
  ASSUME NEW s \in Seq(Node), OneEach(s), NEW t \in Seq(Node)
  PROVE  /\ Merge(s, t) \in Seq(Node) /\ OneEach(Merge(s, t))
         /\ KeysIn(Merge(s, t)) = KeysIn(s) \cup KeysIn(t)
         /\ FromBoth(Merge(s, t), s, t)
<1> DEFINE T(i) == SubSeq(t, 1, i)
<1>1. s \in Lists /\ Len(t) \in Nat
  BY LenProperties DEF Lists
<1>2. PICK g \in [0..Len(t) -> Lists] :
           /\ g[0] = s /\ g[Len(t)] = Merge(s, t)
           /\ \A i \in 1..Len(t) : g[i] = Put(g[i - 1], t[i])
  BY <1>1, MergeRounds
<1> DEFINE S == {i \in 0..Len(t) : /\ KeysIn(g[i]) = KeysIn(s) \cup KeysIn(T(i))
                                   /\ FromBoth(g[i], s, T(i))}
<1>3. 0 \in S
  <2>1. T(0) = <<>> /\ DOMAIN T(0) = {} /\ 0 \in 0..Len(t)
    BY <1>1, SubSeqEmpty
  <2> HIDE DEF T
  <2>2. KeysIn(T(0)) = {}
    BY <2>1 DEF KeysIn
  <2>3. FromBoth(s, s, T(0))
    BY <2>1, <2>2 DEF FromBoth
  <2> QED
    BY <1>2, <2>1, <2>2, <2>3
<1>4. ASSUME NEW i \in 0..Len(t), i < Len(t), i \in S PROVE i + 1 \in S
  <2>1. /\ T(i) \in Seq(Node) /\ t[i + 1] \in Node
        /\ T(i + 1) = Append(T(i), t[i + 1])
    BY <1>4, Beginning
  <2>2. i + 1 \in 1..Len(t) /\ i + 1 \in 0..Len(t) /\ (i + 1) - 1 = i
    BY <1>1, <1>4
  <2>3. g[i + 1] = Put(g[i], t[i + 1]) /\ g[i] \in Seq(Node) /\ OneEach(g[i])
    BY <1>2, <2>2 DEF Lists
  <2>4. KeysIn(g[i]) = KeysIn(s) \cup KeysIn(T(i)) /\ FromBoth(g[i], s, T(i))
    BY <1>4
  <2> DEFINE e == t[i + 1]
             b == T(i)
             c == T(i + 1)
             r == g[i]
             q == g[i + 1]
  <2>5. b \in Seq(Node) /\ e \in Node /\ c = Append(b, e) /\ r \in Seq(Node) /\ OneEach(r)
        /\ q = Put(r, e) /\ KeysIn(r) = KeysIn(s) \cup KeysIn(b) /\ FromBoth(r, s, b)
    BY <2>1, <2>3, <2>4
  <2> HIDE DEF T, b, c, e, r, q
  <2>6. /\ Len(b) \in Nat /\ DOMAIN b = 1..Len(b) /\ DOMAIN c = 1..(Len(b) + 1)
        /\ c[Len(b) + 1] = e /\ \A n \in 1..Len(b) : c[n] = b[n]
    BY <2>5
  <2>7. /\ \A n \in DOMAIN b : n \in DOMAIN c /\ c[n] = b[n]
        /\ Len(b) + 1 \in DOMAIN c /\ c[Len(b) + 1] = e
        /\ \A n \in DOMAIN c : n \in DOMAIN b \/ n = Len(b) + 1
    BY <2>6
  <2>8. KeysIn(c) = KeysIn(b) \cup {e.key}
    BY <2>7 DEF KeysIn
  <2>9. /\ KeysIn(q) = KeysIn(r) \cup {e.key}
        /\ \A n \in DOMAIN q : q[n] = e \/ \E m \in DOMAIN r : q[n] = r[m] /\ r[m].key # e.key
    BY <2>5, PutParts
  <2>10. KeysIn(q) = KeysIn(s) \cup KeysIn(c)
    BY <2>5, <2>8, <2>9
  <2>11. FromBoth(q, s, c)
    <3> SUFFICES ASSUME NEW n \in DOMAIN q
                 PROVE  \/ \E m \in DOMAIN c : q[n] = c[m]
                        \/ \E m \in DOMAIN s : q[n] = s[m] /\ s[m].key \notin KeysIn(c)
      BY DEF FromBoth
    <3>1. CASE q[n] = e
      BY <2>7, <3>1
    <3>2. CASE \E m \in DOMAIN r : q[n] = r[m] /\ r[m].key # e.key
      <4>1. PICK m \in DOMAIN r : q[n] = r[m] /\ r[m].key # e.key
        BY <3>2
      <4>2. \/ \E l \in DOMAIN b : r[m] = b[l]
            \/ \E l \in DOMAIN s : r[m] = s[l] /\ s[l].key \notin KeysIn(b)
        BY <2>5 DEF FromBoth
      <4> QED
        BY <2>7, <2>8, <4>1, <4>2
    <3> QED
      BY <2>9, <3>1, <3>2
  <2> QED
    BY <2>2, <2>10, <2>11 DEF c, q
<1>5. Len(t) \in S
  <2> HIDE DEF S
  <2>1. \A i \in 0..Len(t) : i \in S
    BY <1>1, <1>3, <1>4, Upwards
  <2> QED
    BY <1>1, <2>1
<1>6. T(Len(t)) = t
  BY SubSeqFull
<1>7. Merge(s, t) \in Lists
  BY <1>1, <1>2
<1> QED
  BY <1>2, <1>5, <1>6, <1>7 DEF Lists
-----------------------------------------------------------------------------
(* The files                                                               *)

(* What a host collects: itself, and others without their private keys.    *)
Collected(h, s) ==
  /\ s \in Seq(Node) /\ OneEach(s)
  /\ \A n \in DOMAIN s : s[n].by = h /\ (s[n].private <=> s[n].key = KeyOf[h])

(* The values the variables have; no host has itself as a peer.             *)
Typed ==
  /\ peersOf \in [Computer -> Views] /\ \A h \in Computer : peersOf[h][KeyOf[h]] = "none"
  /\ step \in [Computer -> {"idle", "create", "read", "update"}]
  /\ local \in [Computer -> Lists] /\ remote \in [Computer -> Lists]
  /\ seen \in [Computer -> Lists]
  /\ gists \in Seq(Lists) /\ Len(gists) <= MaxGists
  /\ gistID \in [Computer -> 0..Len(gists)]
  /\ latest \in [1..MaxGists -> [NodeKey -> Computer \cup {"nobody"}]]

(* A run has collected its nodes, and merges with what it has seen.        *)
Running ==
  \A h \in Computer :
    /\ step[h] # "idle" => Collected(h, local[h])
    /\ step[h] \in {"read", "update"} => gistID[h] # 0
    /\ step[h] = "update" => remote[h] = seen[h]

(* What a file says that was never written over unseen: of each key the    *)
(* node of the host that wrote about it last.                              *)
True(view, s) ==
  /\ OneEach(s)
  /\ KeysIn(s) = {k \in NodeKey : view[k] # "nobody"}
  /\ \A n \in DOMAIN s : /\ s[n].by = view[s[n].key]
                         /\ s[n].private <=> s[n].key = KeyOf[s[n].by]

Filed ==
  /\ Typed /\ Running
  /\ \A g \in DOMAIN gists \ stale : True(latest[g], gists[g])
  /\ \A g \in (1..MaxGists) \ DOMAIN gists : \A k \in NodeKey : latest[g][k] = "nobody"

(* syncGiteeNodes names the host first, then each of its peers once.       *)
LEMMA NodesCollected ==
  ASSUME Typed, NEW h \in Computer
  PROVE  Collected(h, Nodes(h))
<1> DEFINE P == {k \in NodeKey : peersOf[h][k] # "none"}
           order == SetToSeq(P)
           own0 == [key |-> KeyOf[h], by |-> h, private |-> TRUE, readable |-> TRUE]
           a == <<own0>>
           b == [i \in DOMAIN order |-> PeerNode(h, order[i])]
<1>1. KeyOf[h] \in NodeKey /\ KeyOf[h] \notin P /\ IsFiniteSet(P)
  BY HostKeys, FS_Subset DEF Typed
<1>2. order \in Seq(P) /\ \A i, m \in DOMAIN order : order[i] = order[m] => i = m
  BY <1>1, ListOfSet
<1> HIDE DEF P
<1> HIDE DEF order
<1> DEFINE k == Len(order)
<1>3. k \in Nat /\ DOMAIN order = 1..k /\ \A i \in 1..k : order[i] \in P
  BY <1>2, LenProperties
<1>4. \A i \in 1..k : order[i] \in NodeKey /\ order[i] # KeyOf[h]
  BY <1>1, <1>3 DEF P
<1>5. own0 \in Node /\ own0.by = h /\ own0.private = TRUE /\ own0.key = KeyOf[h]
  BY <1>1 DEF Node
<1>6. \A i \in 1..k : /\ PeerNode(h, order[i]) \in Node
                      /\ PeerNode(h, order[i]).key = order[i] /\ PeerNode(h, order[i]).by = h
                      /\ PeerNode(h, order[i]).private = FALSE
  BY <1>4 DEF PeerNode, Node
<1> HIDE DEF own0
<1>7. a \in Seq(Node) /\ Len(a) = 1 /\ a[1] = own0
  BY <1>5
<1>8. b \in Seq(Node) /\ Len(b) = k /\ \A i \in 1..k : b[i] = PeerNode(h, order[i])
  BY <1>3, <1>6
<1>9. Nodes(h) = a \o b
  BY DEF Nodes, a, b, own0, order, P
<1> HIDE DEF a, b
<1> DEFINE s == a \o b
<1>10. s \in Seq(Node) /\ DOMAIN s = 1..(1 + k)
       /\ \A n \in 1..(1 + k) : s[n] = IF n <= 1 THEN a[n] ELSE b[n - 1]
  <2>1. a \in Seq(Node) /\ b \in Seq(Node)
    BY <1>7, <1>8
  <2>2. a \o b \in Seq(Node)
    BY ONLY <2>1, ConcatProperties
  <2>3. Len(a \o b) = Len(a) + Len(b)
    BY ONLY <2>1, ConcatProperties
  <2>4. \A n \in 1..(Len(a) + Len(b)) : (a \o b)[n] = IF n <= Len(a) THEN a[n] ELSE b[n - Len(a)]
    BY ONLY <2>1, ConcatProperties
  <2>5. Len(a) = 1 /\ Len(b) = k
    BY <1>7, <1>8
  <2>6. \A n \in 1..(1 + k) : (a \o b)[n] = IF n <= 1 THEN a[n] ELSE b[n - 1]
    BY ONLY <2>4, <2>5
  <2>7. Len(a \o b) = 1 + k
    BY ONLY <2>3, <2>5
  <2> QED
    BY <2>2, <2>6, <2>7, LenProperties
<1> HIDE DEF s
<1>11. s[1] = own0 /\ \A n \in DOMAIN s : n # 1 => /\ n - 1 \in 1..k
                                                   /\ s[n] = PeerNode(h, order[n - 1])
  <2>1. 1 \in 1..(1 + k) /\ s[1] = own0
    BY <1>3, <1>7, <1>10
  <2>2. ASSUME NEW n \in DOMAIN s, n # 1 PROVE n - 1 \in 1..k /\ s[n] = PeerNode(h, order[n - 1])
    <3>1. n \in 1..(1 + k) /\ ~(n <= 1) /\ n - 1 \in 1..k
      BY <1>3, <1>10, <2>2
    <3> QED
      BY <1>8, <1>10, <3>1
  <2> QED
    BY <2>1, <2>2
<1>12. OneEach(s)
  <2> SUFFICES ASSUME NEW m \in DOMAIN s, NEW n \in DOMAIN s, s[m].key = s[n].key PROVE m = n
    BY DEF OneEach
  <2>1. CASE m = 1 \/ n = 1
    BY <1>4, <1>5, <1>6, <1>11, <2>1
  <2>2. CASE m # 1 /\ n # 1
    <3>1. order[m - 1] = order[n - 1] /\ m - 1 \in 1..k /\ n - 1 \in 1..k
      BY <1>6, <1>11, <2>2
    <3>2. m - 1 = n - 1
      BY <1>2, <1>3, <3>1
    <3> QED
      BY <1>3, <1>10, <3>2
  <2> QED
    BY <2>1, <2>2
<1>13. \A n \in DOMAIN s : s[n].by = h /\ (s[n].private <=> s[n].key = KeyOf[h])
  <2> TAKE n \in DOMAIN s
  <2>1. CASE n = 1
    BY <1>5, <1>11, <2>1
  <2>2. CASE n # 1
    BY <1>4, <1>6, <1>11, <2>2
  <2> QED
    BY <2>1, <2>2
<1> QED
  BY <1>9, <1>10, <1>12, <1>13 DEF Collected, s

(* What host h writes of the keys in s.                                    *)
Over(view, s, h) == [k \in NodeKey |-> IF k \in KeysIn(s) THEN h ELSE view[k]]
(* For each key, the host that wrote about it last.                        *)
AllViews == [NodeKey -> Computer \cup {"nobody"}]

(* The keys in a list of nodes are keys.                                   *)
LEMMA KeysOfNodes ==
  ASSUME NEW s \in Seq(Node)
  PROVE  \A n \in DOMAIN s : s[n].key \in NodeKey /\ s[n].key \in KeysIn(s)
<1>1. \A n \in DOMAIN s : s[n] \in Node
  BY LenProperties
<1> QED
  BY <1>1 DEF KeysIn, Node

(* Creating a file makes it say what the host has collected.               *)
LEMMA TrueCreated ==
  ASSUME NEW h \in Computer, NEW s, Collected(h, s),
         NEW view \in AllViews, \A k \in NodeKey : view[k] = "nobody"
  PROVE  True(Over(view, s, h), s)
<1>1. s \in Seq(Node) /\ h # "nobody"
  BY HostKeys DEF Collected
<1>2. \A n \in DOMAIN s : s[n].key \in NodeKey /\ s[n].key \in KeysIn(s)
  BY <1>1, KeysOfNodes
<1>3. KeysIn(s) \subseteq NodeKey
  BY <1>2 DEF KeysIn
<1> QED
  BY <1>1, <1>2, <1>3 DEF Collected, True, Over

(* Writing a file back, merged, keeps it true to what was written last.    *)
LEMMA TrueMerged ==
  ASSUME NEW h \in Computer, NEW t, Collected(h, t),
         NEW view \in AllViews, NEW s \in Seq(Node), True(view, s)
  PROVE  True(Over(view, t, h), Merge(s, t))
<1> DEFINE r == Merge(s, t)
           w == Over(view, t, h)
<1>1. t \in Seq(Node) /\ OneEach(s) /\ h # "nobody"
  BY HostKeys DEF Collected, True
<1>2. OneEach(r) /\ KeysIn(r) = KeysIn(s) \cup KeysIn(t) /\ FromBoth(r, s, t)
  BY <1>1, MergeParts
<1> HIDE DEF r
<1>3. \A n \in DOMAIN t : t[n].key \in NodeKey /\ t[n].key \in KeysIn(t)
  BY <1>1, KeysOfNodes
<1>4. \A n \in DOMAIN s : s[n].key \in NodeKey
  BY KeysOfNodes
<1>5. \A k \in NodeKey : w[k] = IF k \in KeysIn(t) THEN h ELSE view[k]
  BY DEF Over
<1> HIDE DEF w
<1>6. KeysIn(t) \subseteq NodeKey
  BY <1>3 DEF KeysIn
<1>7. KeysIn(r) = {k \in NodeKey : w[k] # "nobody"}
  BY <1>1, <1>2, <1>5, <1>6 DEF True
<1>8. ASSUME NEW n \in DOMAIN r
      PROVE  r[n].by = w[r[n].key] /\ (r[n].private <=> r[n].key = KeyOf[r[n].by])
  <2>1. CASE \E m \in DOMAIN t : r[n] = t[m]
    <3>1. PICK m \in DOMAIN t : r[n] = t[m]
      BY <2>1
    <3>2. t[m].by = h /\ (t[m].private <=> t[m].key = KeyOf[h]) /\ w[t[m].key] = h
      BY <1>3, <1>5 DEF Collected
    <3> QED
      BY <3>1, <3>2
  <2>2. CASE \E m \in DOMAIN s : r[n] = s[m] /\ s[m].key \notin KeysIn(t)
    <3>1. PICK m \in DOMAIN s : r[n] = s[m] /\ s[m].key \notin KeysIn(t)
      BY <2>2
    <3>2. w[s[m].key] = view[s[m].key]
      BY <1>4, <1>5, <3>1
    <3>3. s[m].by = view[s[m].key] /\ (s[m].private <=> s[m].key = KeyOf[s[m].by])
      BY DEF True
    <3> QED
      BY <3>1, <3>2, <3>3
  <2> QED
    BY <1>2, <2>1, <2>2 DEF FromBoth
<1> QED
  BY <1>2, <1>7, <1>8 DEF True, r, w
-----------------------------------------------------------------------------
(* The steps                                                               *)

(* At the start there is no file and no run.                               *)
LEMMA FiledInit == GiteeInit => Filed
<1> SUFFICES ASSUME GiteeInit PROVE Filed
  OBVIOUS
<1>1. DOMAIN gists = {} /\ gists \in Seq(Lists) /\ Len(gists) = 0
  BY DEF GiteeInit
<1>2. Typed
  <2>1. <<>> \in Lists
    BY DEF Lists, OneEach
  <2>2. /\ local \in [Computer -> Lists] /\ remote \in [Computer -> Lists]
        /\ seen \in [Computer -> Lists] /\ gistID \in [Computer -> 0..Len(gists)]
    BY <1>1, <2>1 DEF GiteeInit
  <2>3. gists \in Seq(Lists) /\ Len(gists) <= MaxGists
    BY <1>1, HostKeys
  <2>4. latest \in [1..MaxGists -> [NodeKey -> Computer \cup {"nobody"}]]
    BY DEF GiteeInit
  <2> QED
    BY <2>2, <2>3, <2>4 DEF GiteeInit, Typed
<1>3. Running
  BY DEF GiteeInit, Running
<1> QED
  BY <1>1, <1>2, <1>3 DEF GiteeInit, Filed

(* What a run is told, has and has seen, when it is over.                  *)
LEMMA EndsRunning ==
  ASSUME Typed, Running, NEW h \in Computer, NEW from, Ends(h, from)
  PROVE  /\ Running'
         /\ peersOf' = peersOf /\ gistID' = gistID
         /\ step' \in [Computer -> {"idle", "create", "read", "update"}]
         /\ local' \in [Computer -> Lists] /\ remote' \in [Computer -> Lists]
         /\ seen' \in [Computer -> Lists]
<1>1. /\ peersOf' = peersOf /\ gistID' = gistID
      /\ step' = [step EXCEPT ![h] = "idle"] /\ local' = [local EXCEPT ![h] = <<>>]
      /\ remote' = [remote EXCEPT ![h] = <<>>] /\ seen' = [seen EXCEPT ![h] = <<>>]
  BY DEF Ends, Goes
<1>2. <<>> \in Lists
  BY DEF Lists, OneEach
<1>3. /\ step' \in [Computer -> {"idle", "create", "read", "update"}]
      /\ local' \in [Computer -> Lists] /\ remote' \in [Computer -> Lists]
      /\ seen' \in [Computer -> Lists]
  BY <1>1, <1>2 DEF Typed
<1>4. ASSUME NEW i \in Computer
      PROVE  /\ step'[i] # "idle" => Collected(i, local'[i])
             /\ step'[i] \in {"read", "update"} => gistID'[i] # 0
             /\ step'[i] = "update" => remote'[i] = seen'[i]
  <2>1. CASE i = h
    BY <1>1, <2>1 DEF Typed
  <2>2. CASE i # h
    BY <1>1, <2>2 DEF Typed, Running
  <2> QED
    BY <2>1, <2>2
<1> QED
  BY <1>1, <1>3, <1>4 DEF Running, Collected

(* A step that leaves the files alone.                                     *)
LEMMA FilesKept ==
  ASSUME Filed, Typed', Running', UNCHANGED <<gists, stale, latest>>
  PROVE  Filed'
BY DEF Filed, True

(* A run that reads the device has what NodesCollected says.               *)
LEMMA FiledReadDevice ==
  ASSUME Filed, NEW h \in Computer, ReadDevice(h)
  PROVE  Filed'
<1>1. Typed /\ Running /\ Collected(h, Nodes(h))
  BY NodesCollected DEF Filed
<1> DEFINE to == IF gistID[h] = 0 THEN "create" ELSE "read"
<1>2. /\ step' = [step EXCEPT ![h] = to] /\ local' = [local EXCEPT ![h] = Nodes(h)]
      /\ UNCHANGED <<peersOf, gistID, remote, gists, seen, stale, latest>>
  BY DEF ReadDevice, Goes, history
<1>3. Typed'
  BY <1>1, <1>2 DEF Typed, Collected, Lists
<1>4. ASSUME NEW i \in Computer
      PROVE  /\ step'[i] # "idle" => Collected(i, local'[i])
             /\ step'[i] \in {"read", "update"} => gistID'[i] # 0
             /\ step'[i] = "update" => remote'[i] = seen'[i]
  <2>1. CASE i = h
    BY <1>1, <1>2, <2>1 DEF Typed
  <2>2. CASE i # h
    BY <1>1, <1>2, <2>2 DEF Typed, Running
  <2> QED
    BY <2>1, <2>2
<1>5. Running'
  BY <1>4 DEF Running, Collected
<1> QED
  BY <1>2, <1>3, <1>5, FilesKept

(* A run that fails leaves nothing behind.                                 *)
LEMMA FiledRequestFails ==
  ASSUME Filed, NEW h \in Computer, RequestFails(h)
  PROVE  Filed'
<1>1. Typed /\ Running /\ Ends(h, step[h]) /\ UNCHANGED <<gists, stale, latest>>
  BY DEF Filed, RequestFails
<1>2. Typed' /\ Running'
  BY <1>1, EndsRunning DEF Typed
<1> QED
  BY <1>1, <1>2, FilesKept

(* A new file is said to be nobody's until it is created.                  *)
LEMMA FiledCreateGist ==
  ASSUME Filed, NEW h \in Computer, CreateGist(h)
  PROVE  Filed'
<1> DEFINE g == Len(gists) + 1
           t == local[h]
<1>1. /\ Typed /\ Running /\ Ends(h, "create") /\ step[h] = "create" /\ Len(gists) < MaxGists
      /\ gists' = Append(gists, t) /\ stale' = stale /\ Wrote(g, t, h)
  BY DEF Filed, CreateGist, Ends, Goes
<1>2. Collected(h, t) /\ t \in Lists /\ gists \in Seq(Lists) /\ Len(gists) \in Nat
  BY <1>1 DEF Typed, Running, Collected
<1>3. g \in (1..MaxGists) \ DOMAIN gists /\ MaxGists \in Nat /\ DOMAIN gists = 1..Len(gists)
  BY <1>1, <1>2, HostKeys
<1>4. latest[g] \in AllViews /\ \A k \in NodeKey : latest[g][k] = "nobody"
  BY <1>1, <1>3 DEF Filed, Typed, AllViews
<1>5. latest' = [latest EXCEPT ![g] = Over(latest[g], t, h)]
  BY <1>1 DEF Wrote, Over
<1>6. Over(latest[g], t, h) \in AllViews
  BY <1>4 DEF Over, AllViews
<1>7. True(Over(latest[g], t, h), t)
  BY <1>2, <1>4, TrueCreated
<1>8. /\ gists' \in Seq(Lists) /\ Len(gists') = g /\ DOMAIN gists' = 1..g /\ gists'[g] = t
      /\ \A m \in DOMAIN gists : gists'[m] = gists[m]
  BY <1>1, <1>2, <1>3
<1>9. /\ latest' \in [1..MaxGists -> AllViews] /\ latest'[g] = Over(latest[g], t, h)
      /\ \A m \in 1..MaxGists : m # g => latest'[m] = latest[m]
  BY <1>1, <1>3, <1>5, <1>6 DEF Typed, AllViews
<1>10. Typed' /\ Running'
  <2>1. gistID' = gistID /\ gistID' \in [Computer -> 0..Len(gists')]
    BY <1>1, <1>2, <1>3, <1>8, EndsRunning DEF Typed
  <2>2. Len(gists') <= MaxGists
    BY <1>3, <1>8
  <2> QED
    BY <1>1, <1>8, <1>9, <2>1, <2>2, EndsRunning DEF Typed, AllViews
<1>11. ASSUME NEW m \in DOMAIN gists' \ stale' PROVE True(latest'[m], gists'[m])
  <2>1. CASE m = g
    BY <1>7, <1>8, <1>9, <2>1
  <2>2. CASE m # g
    <3>1. m \in DOMAIN gists \ stale /\ m \in 1..MaxGists
      BY <1>1, <1>2, <1>3, <1>8, <1>11, <2>2
    <3>2. True(latest[m], gists[m])
      BY <3>1 DEF Filed
    <3>3. latest'[m] = latest[m] /\ gists'[m] = gists[m]
      BY <1>8, <1>9, <2>2, <3>1
    <3> QED
      BY <3>2, <3>3
  <2> QED
    BY <2>1, <2>2
<1>12. ASSUME NEW m \in (1..MaxGists) \ DOMAIN gists', NEW k \in NodeKey
       PROVE  latest'[m][k] = "nobody"
  <2>1. m # g /\ m \in (1..MaxGists) \ DOMAIN gists
    BY <1>2, <1>3, <1>8, <1>12
  <2> QED
    BY <1>9, <2>1 DEF Filed
<1> QED
  BY <1>10, <1>11, <1>12 DEF Filed, True

(* The hosts are told an ID of a file there is.                            *)
LEMMA FiledTellID ==
  ASSUME Filed, NEW h \in Computer, TellID(h)
  PROVE  Filed'
<1>1. PICK g \in DOMAIN gists : gistID' = [gistID EXCEPT ![h] = g]
  BY DEF TellID
<1>2. /\ Typed /\ Running /\ step[h] = "idle"
      /\ UNCHANGED <<peersOf, step, local, remote, gists, seen, stale, latest>>
  BY DEF Filed, TellID, own, history
<1>3. g \in 0..Len(gists)
  BY <1>2, LenProperties DEF Typed
<1>4. Typed'
  BY <1>1, <1>2, <1>3 DEF Typed
<1>5. Running'
  BY <1>1, <1>2 DEF Typed, Running, Collected
<1> QED
  BY <1>2, <1>4, <1>5, FilesKept

(* A run that reads its file merges with what it has seen.                 *)
LEMMA FiledReadGist ==
  ASSUME Filed, NEW h \in Computer, ReadGist(h)
  PROVE  Filed'
<1> DEFINE s == gists[gistID[h]]
<1>1. /\ Typed /\ Running /\ gistID[h] # 0 /\ step[h] = "read"
      /\ step' = [step EXCEPT ![h] = "update"]
      /\ remote' = [remote EXCEPT ![h] = s] /\ seen' = [seen EXCEPT ![h] = s]
      /\ UNCHANGED <<peersOf, gistID, local, gists, stale, latest>>
  BY DEF Filed, ReadGist, Goes
<1>2. s \in Lists
  <2>1. gistID[h] \in DOMAIN gists
    BY <1>1, LenProperties DEF Typed
  <2> QED
    BY <1>1, <2>1 DEF Typed
<1>3. Typed'
  BY <1>1, <1>2 DEF Typed
<1>4. ASSUME NEW i \in Computer
      PROVE  /\ step'[i] # "idle" => Collected(i, local'[i])
             /\ step'[i] \in {"read", "update"} => gistID'[i] # 0
             /\ step'[i] = "update" => remote'[i] = seen'[i]
  <2>1. CASE i = h
    BY <1>1, <2>1 DEF Typed, Running
  <2>2. CASE i # h
    BY <1>1, <2>2 DEF Typed, Running
  <2> QED
    BY <2>1, <2>2
<1>5. Running'
  BY <1>4 DEF Running, Collected
<1> QED
  BY <1>1, <1>3, <1>5, FilesKept

(* A run that writes its file has seen it, or the file is stale.           *)
LEMMA FiledUpdateGist ==
  ASSUME Filed, NEW h \in Computer, UpdateGist(h)
  PROVE  Filed'
<1> DEFINE g == gistID[h]
           t == local[h]
           r == Merge(remote[h], t)
<1>1. /\ Typed /\ Running /\ Ends(h, "update") /\ step[h] = "update"
      /\ gists' = [gists EXCEPT ![g] = r] /\ Wrote(g, t, h)
      /\ stale' = IF gists[g] = seen[h] THEN stale ELSE stale \cup {g}
  BY DEF Filed, UpdateGist, Ends, Goes
<1>2. /\ Collected(h, t) /\ t \in Seq(Node) /\ t \in Lists /\ gists \in Seq(Lists) /\ Len(gists) \in Nat
      /\ remote[h] = seen[h] /\ remote[h] \in Lists /\ g # 0
  BY <1>1 DEF Typed, Running, Collected
<1>3. g \in DOMAIN gists /\ g \in 1..MaxGists /\ DOMAIN gists = 1..Len(gists)
  BY <1>1, <1>2, HostKeys DEF Typed
<1>4. latest[g] \in AllViews
  BY <1>1, <1>3 DEF Typed, AllViews
<1>5. latest' = [latest EXCEPT ![g] = Over(latest[g], t, h)]
  BY <1>1 DEF Wrote, Over
<1>6. Over(latest[g], t, h) \in AllViews
  BY <1>4 DEF Over, AllViews
<1>8. /\ gists' \in Seq(Lists) /\ Len(gists') = Len(gists) /\ DOMAIN gists' = DOMAIN gists
      /\ gists'[g] = r /\ \A m \in DOMAIN gists : m # g => gists'[m] = gists[m]
  <2>1. r \in Lists
    BY <1>2, MergeParts DEF Lists
  <2> HIDE DEF r
  <2> QED
    BY <1>1, <1>2, <1>3, <2>1, ExceptSeq
<1>9. /\ latest' \in [1..MaxGists -> AllViews] /\ latest'[g] = Over(latest[g], t, h)
      /\ \A m \in 1..MaxGists : m # g => latest'[m] = latest[m]
  BY <1>1, <1>3, <1>5, <1>6 DEF Typed, AllViews
<1>10. Typed' /\ Running'
  <2>1. gistID' = gistID /\ gistID' \in [Computer -> 0..Len(gists')]
    BY <1>1, <1>8, EndsRunning DEF Typed
  <2> QED
    BY <1>1, <1>8, <1>9, <2>1, EndsRunning DEF Typed, AllViews
<1>11. ASSUME NEW m \in DOMAIN gists' \ stale' PROVE True(latest'[m], gists'[m])
  <2>1. m \in DOMAIN gists \ stale
    BY <1>1, <1>8, <1>11
  <2>2. True(latest[m], gists[m])
    BY <2>1 DEF Filed
  <2>3. CASE m = g
    <3>1. gists[g] = remote[h]
      BY <1>1, <1>2, <1>11, <2>3
    <3>2. True(Over(latest[g], t, h), r)
      BY <1>2, <1>4, <2>2, <2>3, <3>1, TrueMerged DEF Lists
    <3> QED
      BY <1>8, <1>9, <2>3, <3>2
  <2>4. CASE m # g
    <3>1. m \in 1..MaxGists
      BY <1>1, <1>2, <1>3, <2>1, HostKeys DEF Typed
    <3>2. latest'[m] = latest[m] /\ gists'[m] = gists[m]
      BY <1>8, <1>9, <2>1, <2>4, <3>1
    <3> QED
      BY <2>2, <3>2
  <2> QED
    BY <2>3, <2>4
<1>12. ASSUME NEW m \in (1..MaxGists) \ DOMAIN gists', NEW k \in NodeKey
       PROVE  latest'[m][k] = "nobody"
  <2>1. m # g /\ m \in (1..MaxGists) \ DOMAIN gists
    BY <1>3, <1>8, <1>12
  <2> QED
    BY <1>9, <2>1 DEF Filed
<1> QED
  BY <1>10, <1>11, <1>12 DEF Filed, True

(* A host is never one of its own peers.                                   *)
LEMMA FiledConfigurePeer ==
  ASSUME Filed, NEW h \in Computer, ConfigurePeer(h)
  PROVE  Filed'
<1>1. PICK k \in NodeKey \ {KeyOf[h]}, v \in {"none", "readable", "odd"} :
        peersOf' = [peersOf EXCEPT ![h][k] = v]
  BY DEF ConfigurePeer
<1>2. Typed /\ Running /\ UNCHANGED <<step, local, remote, gistID, gists, seen, stale, latest>>
  BY DEF Filed, ConfigurePeer, own, history
<1>3. /\ peersOf' \in [Computer -> Views]
      /\ \A i \in Computer : peersOf'[i][KeyOf[i]] = "none"
  BY <1>1, <1>2, HostKeys DEF Typed, Views
<1>4. Typed' /\ Running'
  BY <1>2, <1>3 DEF Typed, Running, Collected
<1> QED
  BY <1>2, <1>4, FilesKept

(* Every step keeps it.                                                    *)
LEMMA FiledStep == Filed /\ [GiteeNext]_gvars => Filed'
<1> SUFFICES ASSUME Filed, [GiteeNext]_gvars PROVE Filed'
  OBVIOUS
<1>1. ASSUME NEW h \in Computer, ReadDevice(h) PROVE Filed'
  BY <1>1, FiledReadDevice
<1>2. ASSUME NEW h \in Computer, RequestFails(h) PROVE Filed'
  BY <1>2, FiledRequestFails
<1>3. ASSUME NEW h \in Computer, CreateGist(h) PROVE Filed'
  BY <1>3, FiledCreateGist
<1>4. ASSUME NEW h \in Computer, TellID(h) PROVE Filed'
  BY <1>4, FiledTellID
<1>5. ASSUME NEW h \in Computer, ReadGist(h) PROVE Filed'
  BY <1>5, FiledReadGist
<1>6. ASSUME NEW h \in Computer, UpdateGist(h) PROVE Filed'
  BY <1>6, FiledUpdateGist
<1>7. ASSUME NEW h \in Computer, ConfigurePeer(h) PROVE Filed'
  BY <1>7, FiledConfigurePeer
<1>8. CASE UNCHANGED gvars
  BY <1>8 DEF gvars, own, history, Filed, Typed, Running, Collected, True
<1> QED
  BY <1>1, <1>2, <1>3, <1>4, <1>5, <1>6, <1>7, <1>8 DEF GiteeNext

(* A file no run has written over unseen says of each key ever published   *)
(* in it what the host that wrote about it last says, once                 *)
(* (syncgitee_linux.go:428-443).                                           *)
THEOREM FilesSayLatest == GiteeSpec => []Published
<1>1. Filed => Published
  <2> SUFFICES ASSUME Filed, NEW g \in DOMAIN gists \ stale
               PROVE  /\ KeysIn(gists[g]) = {k \in NodeKey : latest[g][k] # "nobody"}
                      /\ Cardinality(KeysIn(gists[g])) = Len(gists[g])
                      /\ \A n \in DOMAIN gists[g] :
                           /\ gists[g][n].by = latest[g][gists[g][n].key]
                           /\ gists[g][n].private <=> gists[g][n].key = KeyOf[gists[g][n].by]
    BY DEF Published
  <2>1. True(latest[g], gists[g]) /\ gists[g] \in Seq(Node)
    BY DEF Filed, Typed, Lists
  <2>2. Cardinality(KeysIn(gists[g])) = Len(gists[g])
    BY <2>1, CountOneEach DEF True
  <2> QED
    BY <2>1, <2>2 DEF True
<1> QED
  BY <1>1, FiledInit, FiledStep, PTL DEF GiteeSpec
=============================================================================
