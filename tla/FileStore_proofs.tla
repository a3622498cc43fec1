-------------------------- MODULE FileStore_proofs --------------------------
(***************************************************************************)
(* Proofs about FileStore, for every set of tasks, keys, values and        *)
(* temporary names, every TTL and every bound on the clock and on dropped  *)
(* futures.                                                                *)
(*                                                                         *)
(* Inv is the inductive invariant.  Besides the properties themselves it   *)
(* says which phases a lock holder can exist in and how far the temporary  *)
(* file has got at each step of a persist, which is what makes the rename  *)
(* publish a complete owner-only file.                                     *)
(***************************************************************************)
EXTENDS FileStore, TLAPS

(* Who can hold the lock, when. *)
LockOwner ==
  /\ lock = Opener <=> phase = "opening"
  /\ lock \in Task => phase = "up" /\ call[lock] # NoCall
  /\ phase # "up" => \A t \in Task : call[t] = NoCall
  /\ \A n \in Write : job[n].step = "over" => job[n].by = Detached

(* How far the temporary file of a persist has got. *)
TmpProgress ==
  \A n \in Write :
    /\ job[n].step \in {"chmod", "rename"} =>
         tmp[n].state = "whole" /\ tmp[n].bytes = job[n].bytes
    /\ job[n].step = "rename" => tmp[n].mode = "0600"

Inv == TypeOK /\ LockOwner /\ TmpProgress /\ WriterExclusion /\ FileIsWhole

-----------------------------------------------------------------------------
(* The operators on stores map stores to stores. *)
LEMMA EmptyType == EmptyStore \in Persisted
  BY DEF EmptyStore, Persisted

(* The reaping pass of persist leaves a store. *)
LEMMA RetainType ==
  ASSUME NEW d \in Persisted, NEW time \in Nat
  PROVE  Retain(d, time) \in Persisted
  BY DEF Retain, Persisted

(* Every writing method leaves a store: a request is saved under its own key
   with the time. *)
LEMMA EffectType ==
  ASSUME NEW d \in Persisted, NEW c \in Call, NEW time \in Nat
  PROVE  Effect(d, c, time) \in Persisted
  <1>1. CASE c.op \in {"upsert_session", "delete_session"}
    <2>1. c.key \in Session /\ c.value \in Value \cup {None}
      BY <1>1 DEF Call, UpsertSession, DeleteSession, SaveAuthReq, DeleteAuthReq
    <2>2. QED
      BY <1>1, <2>1 DEF Effect, Persisted
  <1>2. CASE c.op \notin {"upsert_session", "delete_session"}
    <2>1. c.key \in State
      BY <1>2 DEF Call, UpsertSession, DeleteSession, SaveAuthReq, DeleteAuthReq
    <2>2. QED
      BY <1>2, <2>1 DEF Effect, Persisted
  <1>3. QED
    BY <1>1, <1>2

(* The key a method is called with is a session key or a state parameter. *)
LEMMA CallKey ==
  ASSUME NEW c \in Call
  PROVE  c.key \in Key
  BY DEF Call, UpsertSession, DeleteSession, SaveAuthReq, DeleteAuthReq, Key

(* Whatever the file holds, open starts from a store. *)
LEMMA ParsedType ==
  ASSUME NEW f \in File
  PROVE  Parsed(f) \in Persisted
  BY EmptyType DEF Parsed, File

(* A missing file is a file state. *)
LEMMA AbsentType == Absent \in File
  BY EmptyType DEF Absent, File, FileState, Mode

(* A persist that is over is a job. *)
LEMMA NoJobType == NoJob \in Job
  BY EmptyType DEF NoJob, Job

(* A key names a session or an authorization request, never both. *)
LEMMA LookupType ==
  ASSUME NEW d \in Persisted, NEW k \in Key, NEW time \in Nat
  PROVE  Lookup(d, k, time) \in Value \cup Nat \cup {None}
  BY DEF Lookup, get_session, get_auth_req_info, Persisted, Key

-----------------------------------------------------------------------------
(* The pieces several actions share: starting a persist, and its end. *)
LEMMA StartPersistStep ==
  ASSUME Inv, NEW h \in Task \cup {Opener}, NEW d \in Persisted,
         lock = NoOne, StartPersist(h, d), lock' = h,
         phase' \in {"opening", "up"}, h = Opener <=> phase' = "opening",
         h \in Task => call[h] # NoCall /\ phase' = "up" /\ phase = "up",
         h = Opener => phase = "down",
         UNCHANGED <<call, tmp, file, now, cancels>>,
         promised' \in [Key -> Value \cup Nat \cup {None, Unknown}]
  PROVE  Inv'
  <1> USE FileAssumption
  <1>1. PICK n \in Write :
          /\ job[n].step = "over"
          /\ job' = [job EXCEPT ![n] = [by |-> h, step |-> "create", bytes |-> mem']]
    BY DEF StartPersist
  <1>2. mem' \in Persisted
    BY RetainType DEF StartPersist, Inv, TypeOK
  <1>3. TypeOK'
    BY <1>1, <1>2 DEF Inv, TypeOK, Job, Running
  <1>4. LockOwner'
    BY <1>1 DEF Inv, TypeOK, LockOwner, Job
  <1>5. TmpProgress'
    BY <1>1 DEF Inv, TypeOK, TmpProgress, Job
  <1>6. WriterExclusion'
    <2>1. \A m \in Write : job[m].by = Detached
      BY DEF Inv, TypeOK, LockOwner, WriterExclusion, Job
    <2>2. QED
      BY <1>1, <2>1 DEF Inv, TypeOK, WriterExclusion, Job
  <1>7. FileIsWhole'
    BY DEF Inv, FileIsWhole, TypeOK
  <1>8. QED
    BY <1>3, <1>4, <1>5, <1>6, <1>7 DEF Inv

(* What a caller concludes from Ok is a value, nothing, or Unknown. *)
LEMMA OutcomeType ==
  ASSUME mem \in Persisted, now \in Nat, NEW k \in Key
  PROVE  Outcome(k) \in Value \cup Nat \cup {None, Unknown}
  BY LookupType DEF Outcome

(* The last step of a persist, successful or not, of whoever owned it. *)
LEMMA ReturnStep ==
  ASSUME Inv, NEW n \in Write, job[n].step \in Running,
         job' = [job EXCEPT ![n] = NoJob], Litter(n), UNCHANGED <<now, cancels>>,
         \/ Return(job[n].by, TRUE) /\ file' = tmp[n] /\ job[n].step = "rename"
         \/ Return(job[n].by, FALSE) /\ file' = file
  PROVE  Inv'
  <1> DEFINE h == job[n].by
  <1> USE FileAssumption
  <1>1. h \in Task \cup {Opener, Detached}
    BY DEF Inv, TypeOK, Job
  <1>2. h # Detached => h = lock /\ \A m \in Write : job[m].by # Detached => m = n
    BY DEF Inv, WriterExclusion
  <1>3. h \in Task => call[h].key \in Key
    BY <1>2, CallKey DEF Inv, TypeOK, LockOwner
  <1>4. file' \in File /\ FileIsWhole'
    <2>1. CASE Return(job[n].by, TRUE) /\ file' = tmp[n] /\ job[n].step = "rename"
      <3>1. file' \in File /\ file'.state = "whole" /\ file'.mode = "0600"
        BY <2>1 DEF Inv, TypeOK, TmpProgress
      <3>2. QED
        BY <3>1 DEF FileIsWhole
    <2>2. CASE Return(job[n].by, FALSE) /\ file' = file
      <3>1. phase' = "up" => phase = "up"
        BY <2>2 DEF Return
      <3>2. QED
        BY <2>2, <3>1 DEF Inv, TypeOK, FileIsWhole
    <2>3. QED
      BY <2>1, <2>2
  <1>5. TypeOK'
    <2>1. promised' \in [Key -> Value \cup Nat \cup {None, Unknown}]
      BY <1>3, OutcomeType DEF Inv, TypeOK, Return
    <2>2. mem' \in Persisted /\ phase' \in {"down", "opening", "up"}
          /\ lock' \in Task \cup {Opener, NoOne}
          /\ call' \in [Task -> Call \cup {NoCall}]
      BY EmptyType DEF Inv, TypeOK, Return
    <2>3. job' \in [Write -> Job] /\ tmp' \in [Write -> File]
      BY NoJobType, AbsentType DEF Inv, TypeOK, Litter, TmpName
    <2>4. QED
      BY <1>4, <2>1, <2>2, <2>3 DEF Inv, TypeOK
  <1>6. LockOwner'
    <2>1. CASE h = Detached
      BY <2>1 DEF Inv, TypeOK, LockOwner, Return, NoJob
    <2>2. CASE h # Detached
      <3>1. lock' = NoOne /\ (phase' = "opening" => phase = "opening" /\ h # Opener)
        BY <2>2 DEF Return
      <3>2. phase' # "opening"
        BY <3>1, <2>2, <1>2 DEF Inv, LockOwner
      <3>3. phase' # "up" => \A t \in Task : call'[t] = NoCall
        <4>1. CASE h = Opener
          BY <4>1, <1>2 DEF Inv, TypeOK, LockOwner, Return
        <4>2. CASE h \in Task
          BY <4>2, <1>2 DEF Inv, TypeOK, LockOwner, Return
        <4>3. QED
          BY <1>1, <2>2, <4>1, <4>2
      <3>4. QED
        BY <3>1, <3>2, <3>3 DEF Inv, TypeOK, LockOwner, NoJob
    <2>3. QED
      BY <2>1, <2>2
  <1>7. TmpProgress'
    BY DEF Inv, TypeOK, TmpProgress, Litter, TmpName, NoJob
  <1>8. WriterExclusion'
    <2>1. CASE h = Detached
      BY <2>1, <1>1 DEF Inv, TypeOK, WriterExclusion, Return, NoJob
    <2>2. CASE h # Detached
      BY <2>2, <1>2 DEF Inv, TypeOK, WriterExclusion, NoJob
    <2>3. QED
      BY <2>1, <2>2
  <1>9. QED
    BY <1>4, <1>5, <1>6, <1>7, <1>8 DEF Inv

-----------------------------------------------------------------------------
(* The invariant holds before the first start, whatever file there is. *)
LEMMA InitInv == Init => Inv
  BY EmptyType, AbsentType, NoJobType, FileAssumption
  DEF Init, Inv, TypeOK, LockOwner, TmpProgress, WriterExclusion, FileIsWhole,
      Absent, NoJob, File, FileState, Mode

(* Every step preserves the invariant, dropped futures and crashes included. *)
LEMMA NextInv == Inv /\ [Next]_vars => Inv'
  <1> SUFFICES ASSUME Inv, [Next]_vars PROVE Inv'
    OBVIOUS
  <1> USE FileAssumption
  <1>1. CASE Open
    <2>1. Parsed(file) \in Persisted
      BY ParsedType DEF Inv, TypeOK
    <2>2. lock = NoOne
      BY <1>1 DEF Open, Inv, TypeOK, LockOwner
    <2>3. QED
      BY <1>1, <2>1, <2>2, StartPersistStep DEF Open, Inv, TypeOK
  <1>2. CASE Crash
    BY <1>2, EmptyType, AbsentType, NoJobType
    DEF Crash, Inv, TypeOK, LockOwner, TmpProgress, WriterExclusion, FileIsWhole, NoJob
  <1>3. ASSUME NEW t \in Task, Begin(t) PROVE Inv'
    <2>1. lock # t
      BY <1>3 DEF Begin, Inv, LockOwner
    <2>2. QED
      BY <1>3, <2>1
      DEF Begin, Inv, TypeOK, LockOwner, TmpProgress, WriterExclusion, FileIsWhole
  <1>4. ASSUME NEW t \in Task, Acquire(t) PROVE Inv'
    <2>1. Effect(mem, call[t], now) \in Persisted /\ call[t].key \in Key
      BY <1>4, EffectType, CallKey DEF Acquire, Inv, TypeOK
    <2>2. QED
      BY <1>4, <2>1, StartPersistStep DEF Acquire, Inv, TypeOK
  <1>5. ASSUME NEW t \in Task, Cancel(t) PROVE Inv'
    <2>1. \A n \in Write : job[n].by = t => job'[n] = [job[n] EXCEPT !.by = Detached]
      BY <1>5 DEF Cancel, JobsOf, Inv, TypeOK, LockOwner, Job
    <2>2. \A n \in Write : job[n].by # t => job'[n] = job[n]
      BY <1>5 DEF Cancel, JobsOf, Inv, TypeOK
    <2>3. TypeOK'
      <3>1. job' \in [Write -> Job]
        BY <1>5, <2>1, <2>2 DEF Cancel, Inv, TypeOK, Job
      <3>2. QED
        BY <1>5, <3>1 DEF Cancel, Inv, TypeOK
    <2>4. LockOwner'
      BY <1>5, <2>1, <2>2 DEF Cancel, Inv, TypeOK, LockOwner, Job
    <2>5. TmpProgress'
      BY <1>5, <2>1, <2>2 DEF Cancel, Inv, TypeOK, TmpProgress, Job
    <2>6. WriterExclusion'
      <3>1. CASE lock = t
        <4>1. \A n \in Write : job[n].by \in {t, Detached}
          BY <3>1 DEF Inv, WriterExclusion
        <4>2. \A n \in Write : job'[n].by = Detached
          BY <4>1, <2>1, <2>2 DEF Inv, TypeOK, Job
        <4>3. QED
          BY <4>2 DEF WriterExclusion
      <3>2. CASE lock # t
        <4>1. lock' = lock /\ mem' = mem
          BY <1>5, <3>2 DEF Cancel
        <4>2. \A n \in Write : job[n].by # t
          BY <3>2 DEF Inv, WriterExclusion
        <4>3. \A n \in Write : job'[n] = job[n]
          BY <4>2, <2>2
        <4>4. QED
          BY <4>1, <4>3 DEF Inv, WriterExclusion
      <3>3. QED
        BY <3>1, <3>2
    <2>7. FileIsWhole'
      BY <1>5 DEF Cancel, Inv, FileIsWhole
    <2>8. QED
      BY <2>3, <2>4, <2>5, <2>6, <2>7 DEF Inv
  <1>6. ASSUME NEW n \in Write, Create(n) PROVE Inv'
    BY <1>6
    DEF Create, Inv, TypeOK, LockOwner, TmpProgress, WriterExclusion, FileIsWhole,
        TmpName, Job, Running, File, FileState
  <1>7. ASSUME NEW n \in Write, Fill(n) PROVE Inv'
    <2>1. CASE job[n].by = Detached
      BY <1>7, <2>1, AbsentType, NoJobType
      DEF Fill, Continue, Litter, Inv, TypeOK, LockOwner, TmpProgress, WriterExclusion,
          FileIsWhole, TmpName, NoJob
    <2>2. CASE job[n].by # Detached
      <3>1. /\ job' = [job EXCEPT ![n] = [job[n] EXCEPT !.step = "chmod"]]
            /\ tmp' = [tmp EXCEPT ![n] = [tmp[n] EXCEPT !.state = "whole", !.bytes = job[n].bytes]]
            /\ UNCHANGED <<phase, mem, lock, call, file, now, cancels, promised>>
        BY <1>7, <2>2 DEF Fill, Continue, TmpName
      <3>2. job[n] \in Job /\ tmp[n] \in File
        BY DEF Inv, TypeOK
      <3>3. TypeOK'
        BY <3>1, <3>2 DEF Inv, TypeOK, Job, Running, File, FileState, Mode
      <3>4. LockOwner'
        BY <3>1, <3>2, <2>2 DEF Inv, TypeOK, LockOwner, Job
      <3>5. TmpProgress'
        BY <1>7, <3>1, <3>2 DEF Fill, Inv, TypeOK, TmpProgress, Job, File
      <3>6. WriterExclusion'
        BY <3>1, <3>2 DEF Inv, TypeOK, WriterExclusion, Job
      <3>7. FileIsWhole'
        BY <3>1 DEF Inv, FileIsWhole
      <3>8. QED
        BY <3>3, <3>4, <3>5, <3>6, <3>7 DEF Inv
    <2>3. QED
      BY <2>1, <2>2
  <1>8. ASSUME NEW n \in Write, Chmod(n) PROVE Inv'
    <2>1. CASE job[n].by = Detached
      BY <1>8, <2>1, AbsentType, NoJobType
      DEF Chmod, Continue, Litter, Inv, TypeOK, LockOwner, TmpProgress, WriterExclusion,
          FileIsWhole, TmpName, NoJob
    <2>2. CASE job[n].by # Detached
      <3>1. /\ job' = [job EXCEPT ![n] = [job[n] EXCEPT !.step = "rename"]]
            /\ tmp' = [tmp EXCEPT ![n] = [tmp[n] EXCEPT !.mode = "0600"]]
            /\ UNCHANGED <<phase, mem, lock, call, file, now, cancels, promised>>
        BY <1>8, <2>2 DEF Chmod, Continue, TmpName
      <3>2. job[n] \in Job /\ tmp[n] \in File
        BY DEF Inv, TypeOK
      <3>3. TypeOK'
        BY <3>1, <3>2 DEF Inv, TypeOK, Job, Running, File, FileState, Mode
      <3>4. LockOwner'
        BY <3>1, <3>2, <2>2 DEF Inv, TypeOK, LockOwner, Job
      <3>5. TmpProgress'
        BY <1>8, <3>1, <3>2 DEF Chmod, Inv, TypeOK, TmpProgress, Job, File
      <3>6. WriterExclusion'
        BY <3>1, <3>2 DEF Inv, TypeOK, WriterExclusion, Job
      <3>7. FileIsWhole'
        BY <3>1 DEF Inv, FileIsWhole
      <3>8. QED
        BY <3>3, <3>4, <3>5, <3>6, <3>7 DEF Inv
    <2>3. QED
      BY <2>1, <2>2
  <1>9. ASSUME NEW n \in Write, Rename(n) PROVE Inv'
    BY <1>9, ReturnStep DEF Rename, Running, TmpName
  <1>10. ASSUME NEW n \in Write, Fail(n) PROVE Inv'
    BY <1>10, ReturnStep DEF Fail
  <1>11. ASSUME NEW time \in 0..MaxNow, SetClock(time) PROVE Inv'
    BY <1>11
    DEF SetClock, Inv, TypeOK, LockOwner, TmpProgress, WriterExclusion, FileIsWhole
  <1>12. CASE UNCHANGED vars
    BY <1>12
    DEF vars, Inv, TypeOK, LockOwner, TmpProgress, WriterExclusion, FileIsWhole
  <1>13. QED
    BY <1>1, <1>2, <1>3, <1>4, <1>5, <1>6, <1>7, <1>8, <1>9, <1>10, <1>11, <1>12
    DEF Next, PoolStep

(* Inv is an invariant of the file store. *)
THEOREM Invariance == Spec => []Inv
  BY InitInv, NextInv, PTL DEF Spec

(* Every reachable state is well typed. *)
THEOREM TypeCorrect == Spec => []TypeOK
  <1>1. Inv => TypeOK
    BY DEF Inv
  <1>2. QED
    BY <1>1, Invariance, PTL

(* Of the persists somebody waits for there is one, written under the lock,
   and it writes the map in memory. *)
THEOREM WriterExclusionHolds == Spec => []WriterExclusion
  <1>1. Inv => WriterExclusion
    BY DEF Inv
  <1>2. QED
    BY <1>1, Invariance, PTL

(* The store's path never holds a truncated or a world-readable snapshot. *)
THEOREM FileIsWholeHolds == Spec => []FileIsWhole
  <1>1. Inv => FileIsWhole
    BY DEF Inv
  <1>2. QED
    BY <1>1, Invariance, PTL

-----------------------------------------------------------------------------
(* A caller is told something definite about a key only in a step that leaves
   it on disk. *)
LEMMA OkMeansOnDiskStep ==
  ASSUME Inv, [Next]_vars, NEW k \in Key, promised[k] = Unknown, promised'[k] # Unknown
  PROVE  Lookup(Parsed(file'), k, now') = promised'[k]
  <1> USE FileAssumption
  <1>1. \A time \in 0..MaxNow : ~SetClock(time)
    BY DEF SetClock
  <1>2. \A t \in Task : ~Acquire(t)
    BY DEF Acquire, Inv, TypeOK
  <1>3. PICK n \in Write : Rename(n) \/ Fail(n)
    BY <1>1, <1>2
    DEF Next, PoolStep, vars, Open, Crash, Begin, Cancel, Create, Fill, Chmod
  <1>4. Rename(n) /\ job[n].by \in Task /\ k = call[job[n].by].key
    <2>1. ~Fail(n)
      BY DEF Fail, Return
    <2>2. QED
      BY <1>3, <2>1 DEF Rename, Return, Inv, TypeOK
  <1>5. promised'[k] = Outcome(k)
    BY <1>4 DEF Rename, Return, Inv, TypeOK
  <1>6. Parsed(file') = mem
    <2>1. file' = tmp[n] /\ tmp[n].state = "whole" /\ tmp[n].bytes = job[n].bytes
      BY <1>4 DEF Rename, TmpName, Inv, TmpProgress
    <2>2. job[n].bytes = mem
      BY <1>4 DEF Inv, WriterExclusion
    <2>3. QED
      BY <2>1, <2>2 DEF Parsed
  <1>7. now' = now
    BY <1>4 DEF Rename
  <1>8. QED
    BY <1>5, <1>6, <1>7 DEF Outcome

(* Ok is never returned ahead of the rename. *)
THEOREM OkMeansOnDiskHolds == Spec => OkMeansOnDisk
  <1>1. Inv /\ [Next]_vars =>
          [\A k \in Key : promised[k] = Unknown /\ promised'[k] # Unknown =>
              Lookup(Parsed(file'), k, now') = promised'[k]]_vars
    BY OkMeansOnDiskStep
  <1>2. QED
    BY <1>1, Invariance, PTL DEF Spec, OkMeansOnDisk
=============================================================================
