---------------------- MODULE FileStorePromise_proofs ----------------------
(***************************************************************************)
(* What the file store promises while no future is dropped inside it       *)
(* (MaxCancel = 0): acknowledged writes are durable, reads honour them     *)
(* across crashes and failed writes, and every step is a step of the       *)
(* abstract store.  With a dropped future the first is false: see the run  *)
(* file_store_stale_rename.                                                *)
(***************************************************************************)
EXTENDS FileStore_proofs

(* The raw entry of d under k, before expiry is looked at. *)
Entry(d, k) == IF k \in Session THEN d.sessions[k] ELSE d.auth_requests[k]

(* d holds everything callers were told. *)
Agrees(d) == \A k \in Key : promised[k] # Unknown => Entry(d, k) = promised[k]

(* A request somebody can still count on has not expired, so no reaping pass
   takes it. *)
Unexpired == \A s \in State : promised[s] \in Nat => ~ is_expired(promised[s], now)

(* The inductive invariant: no job outlives its future, and both the file and,
   while the process runs, the map hold everything callers were told. *)
PromiseInv ==
  /\ Inv
  /\ \A n \in Write : job[n].step \in Running => job[n].by # Detached
  /\ Agrees(Parsed(file))
  /\ phase # "down" => Agrees(mem)
  /\ Unexpired

-----------------------------------------------------------------------------
(* What a raw entry is, and when a reader sees it. *)
LEMMA EntryType ==
  ASSUME NEW d \in Persisted, NEW k \in Key
  PROVE  Entry(d, k) \in Value \cup Nat \cup {None}
         /\ (k \in State => Entry(d, k) \in Nat \cup {None})
  BY DataAssumption DEF Entry, Key, Persisted

(* A reader of an entry that has not expired is told the entry. *)
LEMMA LookupEntry ==
  ASSUME NEW d, NEW k \in Key, NEW time,
         k \in State => Entry(d, k) = None \/ ~ is_expired(Entry(d, k), time)
  PROVE  Lookup(d, k, time) = Entry(d, k)
  BY DataAssumption DEF Lookup, get_session, get_auth_req_info, Entry, Key

(* Reaping touches no session and no request that has not expired. *)
LEMMA RetainEntry ==
  ASSUME NEW d \in Persisted, NEW k \in Key, NEW time,
         k \in State => Entry(d, k) = None \/ ~ is_expired(Entry(d, k), time)
  PROVE  Entry(Retain(d, time), k) = Entry(d, k)
  BY DataAssumption DEF Retain, Entry, Key, Persisted

(* A call changes no key but its own. *)
LEMMA EffectEntry ==
  ASSUME NEW d \in Persisted, NEW c \in Call, NEW time, NEW k \in Key, k # c.key
  PROVE  Entry(Effect(d, c, time), k) = Entry(d, k)
  <1>1. \/ c.op \in {"upsert_session", "delete_session"} /\ c.key \in Session
        \/ c.op \notin {"upsert_session", "delete_session"} /\ c.key \in State
    BY DEF Call, UpsertSession, DeleteSession, SaveAuthReq, DeleteAuthReq
  <1>2. CASE c.op \in {"upsert_session", "delete_session"}
    BY <1>1, <1>2 DEF Effect, Entry, Key, Persisted
  <1>3. CASE c.op \notin {"upsert_session", "delete_session"}
    BY <1>1, <1>3 DEF Effect, Entry, Key, Persisted
  <1>4. QED
    BY <1>2, <1>3

(* Nothing callers count on is lost by reaping a store that has it. *)
LEMMA RetainAgrees ==
  ASSUME TypeOK, Unexpired, NEW d \in Persisted, Agrees(d)
  PROVE  Agrees(Retain(d, now))
  <1> SUFFICES ASSUME NEW k \in Key, promised[k] # Unknown
               PROVE  Entry(Retain(d, now), k) = promised[k]
    BY DEF Agrees
  <1>1. Entry(d, k) = promised[k]
    BY DEF Agrees
  <1>2. k \in State => Entry(d, k) = None \/ ~ is_expired(Entry(d, k), now)
    BY <1>1, EntryType DEF Unexpired
  <1>3. QED
    BY <1>1, <1>2, RetainEntry

-----------------------------------------------------------------------------
(* The strengthened invariant holds before the first start. *)
LEMMA InitPromise == Init => PromiseInv
  <1> SUFFICES ASSUME Init PROVE PromiseInv
    OBVIOUS
  <1>1. \A k \in Key : Entry(EmptyStore, k) = None
    BY DEF Entry, EmptyStore, Key
  <1>2. Parsed(file) = EmptyStore
    BY DEF Init, Parsed, Absent
  <1>3. Unexpired
    BY DataAssumption DEF Init, Unexpired, Key
  <1>4. QED
    BY <1>1, <1>2, <1>3, InitInv DEF Init, PromiseInv, Agrees, NoJob, Running

(* Starting a persist of a store that has everything callers count on. *)
LEMMA StartPersistPromise ==
  ASSUME PromiseInv, NEW h \in Task \cup {Opener}, NEW d \in Persisted,
         StartPersist(h, d), file' = file, now' = now,
         promised' \in [Key -> Value \cup Nat \cup {None, Unknown}],
         \A k \in Key : promised'[k] # Unknown => promised'[k] = promised[k],
         \A k \in Key : promised'[k] # Unknown => Entry(d, k) = promised'[k],
         Inv'
  PROVE  PromiseInv'
  <1> USE FileAssumption
  <1>1. PICK n \in Write :
          job' = [job EXCEPT ![n] = [by |-> h, step |-> "create", bytes |-> mem']]
    BY DEF StartPersist
  <1>2. \A m \in Write : job'[m].step \in Running => job'[m].by # Detached
    BY <1>1 DEF PromiseInv, Inv, TypeOK, Job
  <1>3. Unexpired'
    BY DEF PromiseInv, Unexpired, Key
  <1>4. Agrees(Parsed(file))'
    BY DEF PromiseInv, Agrees
  <1>5. Agrees(mem)'
    <2> SUFFICES ASSUME NEW k \in Key, promised'[k] # Unknown
                 PROVE  Entry(mem', k) = promised'[k]
      BY DEF Agrees
    <2>1. k \in State => Entry(d, k) = None \/ ~ is_expired(Entry(d, k), now)
      BY <1>3, EntryType DEF Unexpired
    <2>2. Entry(mem', k) = Entry(d, k)
      BY <2>1, RetainEntry DEF StartPersist
    <2>3. QED
      BY <2>2
  <1>6. QED
    BY <1>2, <1>3, <1>4, <1>5 DEF PromiseInv

(* The end of a persist: after the rename the file is the map. *)
LEMMA RenamePromise ==
  ASSUME PromiseInv, NEW n \in Write, Rename(n), Inv'
  PROVE  PromiseInv'
  <1> USE FileAssumption
  <1>1. job[n].by = lock /\ job[n].by \in Task \cup {Opener} /\ job[n].bytes = mem
    BY DEF PromiseInv, Inv, TypeOK, WriterExclusion, Rename, Running, Job
  <1>2. Parsed(file') = mem /\ mem' = mem /\ now' = now
    BY <1>1 DEF PromiseInv, Inv, TmpProgress, Rename, Return, TmpName, Parsed
  <1>3. phase # "down"
    BY <1>1 DEF PromiseInv, Inv, TypeOK, LockOwner
  <1>4. \A k \in Key : promised'[k] # promised[k] => promised'[k] = Outcome(k)
    BY DEF Rename, Return, PromiseInv, Inv, TypeOK
  <1>5. \A k \in Key : Outcome(k) # Unknown =>
          /\ Outcome(k) = Entry(mem, k)
          /\ k \in State => Entry(mem, k) = None \/ ~ is_expired(Entry(mem, k), now)
    <2> SUFFICES ASSUME NEW k \in Key, Outcome(k) # Unknown
                 PROVE  /\ Outcome(k) = Entry(mem, k)
                        /\ k \in State => Entry(mem, k) = None
                                            \/ ~ is_expired(Entry(mem, k), now)
      OBVIOUS
    <2>1. k \in State => Entry(mem, k) = mem.auth_requests[k]
      BY DataAssumption DEF Entry
    <2>2. k \in State => Entry(mem, k) = None \/ ~ is_expired(Entry(mem, k), now)
      BY <2>1 DEF Outcome
    <2>3. Outcome(k) = Lookup(mem, k, now)
      BY DEF Outcome
    <2>4. QED
      BY <2>2, <2>3, LookupEntry
  <1>6. \A k \in Key : promised'[k] # Unknown => Entry(mem, k) = promised'[k]
    BY <1>3, <1>4, <1>5 DEF PromiseInv, Agrees
  <1>7. Unexpired'
    <2> SUFFICES ASSUME NEW s \in State, promised'[s] \in Nat
                 PROVE  ~ is_expired(promised'[s], now)
      BY <1>2 DEF Unexpired
    <2>1. s \in Key
      BY DEF Key
    <2>2. CASE promised'[s] = promised[s]
      BY <2>2 DEF PromiseInv, Unexpired
    <2>3. CASE promised'[s] # promised[s]
      <3>1. promised'[s] # Unknown /\ promised'[s] # None
        BY DataAssumption
      <3>2. QED
        BY <1>4, <1>5, <2>1, <2>3, <3>1
    <2>4. QED
      BY <2>2, <2>3
  <1>8. \A m \in Write : job'[m].step \in Running => job'[m].by # Detached
    BY DEF Rename, PromiseInv, Inv, TypeOK, NoJob, Running
  <1>9. QED
    BY <1>2, <1>6, <1>7, <1>8 DEF PromiseInv, Agrees

(* Every step preserves it when no future is dropped. *)
LEMMA NextPromise ==
  ASSUME MaxCancel = 0
  PROVE  PromiseInv /\ [Next]_vars => PromiseInv'
  <1> SUFFICES ASSUME PromiseInv, [Next]_vars PROVE PromiseInv'
    OBVIOUS
  <1> USE FileAssumption
  <1>0. Inv /\ Inv' /\ TypeOK
    BY NextInv DEF PromiseInv, Inv
  <1>1. CASE Open
    <2>1. Parsed(file) \in Persisted
      BY <1>0, ParsedType DEF TypeOK
    <2>2. QED
      BY <1>0, <1>1, <2>1, StartPersistPromise DEF Open, TypeOK, PromiseInv, Agrees
  <1>2. CASE Crash
    BY <1>0, <1>2 DEF Crash, PromiseInv, Agrees, Unexpired, NoJob, Running
  <1>3. ASSUME NEW t \in Task, Begin(t) PROVE PromiseInv'
    BY <1>0, <1>3 DEF Begin, PromiseInv, Agrees, Unexpired
  <1>4. ASSUME NEW t \in Task, Acquire(t) PROVE PromiseInv'
    <2>1. call[t] \in Call /\ call[t].key \in Key
          /\ Effect(mem, call[t], now) \in Persisted
      BY <1>0, <1>4, EffectType, CallKey DEF Acquire, TypeOK
    <2>2. \A k \in Key : promised'[k] # Unknown =>
            promised'[k] = promised[k] /\ k # call[t].key
      BY <1>0, <1>4, <2>1 DEF Acquire, TypeOK
    <2>3. \A k \in Key : promised'[k] # Unknown =>
            Entry(Effect(mem, call[t], now), k) = promised'[k]
      BY <1>0, <1>4, <2>1, <2>2, EffectEntry DEF Acquire, PromiseInv, Agrees, TypeOK
    <2>4. promised' \in [Key -> Value \cup Nat \cup {None, Unknown}]
      BY <1>0 DEF Inv, TypeOK
    <2>5. QED
      BY <1>0, <1>4, <2>1, <2>2, <2>3, <2>4, StartPersistPromise DEF Acquire
  <1>5. ASSUME NEW t \in Task, Cancel(t) PROVE PromiseInv'
    BY <1>0, <1>5 DEF Cancel, TypeOK
  <1>6. ASSUME NEW n \in Write, Create(n) \/ Fill(n) \/ Chmod(n) PROVE PromiseInv'
    <2>1. UNCHANGED <<phase, mem, file, now, promised>>
      BY <1>6 DEF Create, Fill, Chmod
    <2>2. \A m \in Write : job'[m].step \in Running => job'[m].by # Detached
      BY <1>0, <1>6
      DEF Create, Fill, Chmod, Continue, PromiseInv, TypeOK, Job, NoJob, Running
    <2>3. QED
      BY <1>0, <2>1, <2>2 DEF PromiseInv, Agrees, Unexpired
  <1>7. ASSUME NEW n \in Write, Rename(n) PROVE PromiseInv'
    BY <1>0, <1>7, RenamePromise
  <1>8. ASSUME NEW n \in Write, Fail(n) PROVE PromiseInv'
    <2>1. UNCHANGED <<file, now, promised>>
      BY <1>8 DEF Fail, Return
    <2>2. phase' # "down" => mem' = mem /\ phase # "down"
      <3>1. job[n].by \in Task \cup {Opener} /\ job[n].by = lock
        BY <1>0, <1>8
        DEF Fail, Return, PromiseInv, Inv, TypeOK, WriterExclusion, Running, Job
      <3>2. QED
        BY <1>0, <1>8, <3>1 DEF Fail, Return, Inv, LockOwner
    <2>3. \A m \in Write : job'[m].step \in Running => job'[m].by # Detached
      BY <1>0, <1>8 DEF Fail, PromiseInv, TypeOK, NoJob, Running
    <2>4. QED
      BY <1>0, <2>1, <2>2, <2>3 DEF PromiseInv, Agrees, Unexpired
  <1>9. ASSUME NEW time \in 0..MaxNow, SetClock(time) PROVE PromiseInv'
    <2>1. \A k \in Key : promised'[k] # Unknown => promised'[k] = promised[k]
      BY <1>9 DEF SetClock
    <2>2. Agrees(Parsed(file))' /\ (phase' # "down" => Agrees(mem)')
      BY <1>9, <2>1 DEF SetClock, PromiseInv, Agrees
    <2>3. Unexpired'
      <3> SUFFICES ASSUME NEW s \in State, promised'[s] \in Nat
                   PROVE  ~ is_expired(promised'[s], now')
        BY DEF Unexpired
      <3>1. s \in Key /\ promised'[s] # Unknown
        BY DEF Key
      <3>2. now' = time /\ promised'[s] = promised[s]
        BY <1>9, <2>1, <3>1 DEF SetClock
      <3>3. ~ (promised[s] \in Nat /\ is_expired(promised[s], time))
        BY <1>9, <3>1 DEF SetClock
      <3>4. QED
        BY <3>2, <3>3
    <2>4. QED
      BY <1>0, <1>9, <2>2, <2>3 DEF SetClock, PromiseInv
  <1>10. CASE UNCHANGED vars
    BY <1>0, <1>10 DEF vars, PromiseInv, Agrees, Unexpired
  <1>11. QED
    BY <1>1, <1>2, <1>3, <1>4, <1>5, <1>6, <1>7, <1>8, <1>9, <1>10 DEF Next, PoolStep

(* PromiseInv is an invariant of a file store whose callers are never dropped. *)
THEOREM PromiseInvariance ==
  ASSUME MaxCancel = 0
  PROVE  Spec => []PromiseInv
  BY InitPromise, NextPromise, PTL DEF Spec

(* A store that has everything callers count on answers them so. *)
LEMMA AgreesLookup ==
  ASSUME TypeOK, Unexpired, NEW d \in Persisted, Agrees(d), NEW k \in Key,
         promised[k] # Unknown
  PROVE  Lookup(d, k, now) = promised[k]
  <1>1. Entry(d, k) = promised[k]
    BY DEF Agrees
  <1>2. k \in State => Entry(d, k) = None \/ ~ is_expired(Entry(d, k), now)
    BY <1>1, EntryType DEF Unexpired
  <1>3. QED
    BY <1>1, <1>2, LookupEntry

(* Acknowledged writes survive crashes and other tasks' failed writes. *)
THEOREM DurabilityHolds ==
  ASSUME MaxCancel = 0
  PROVE  Spec => []AcknowledgedIsDurable
  <1>1. PromiseInv => AcknowledgedIsDurable
    BY AgreesLookup, ParsedType DEF PromiseInv, Inv, TypeOK, AcknowledgedIsDurable
  <1>2. QED
    BY <1>1, PromiseInvariance, PTL

(* Reads agree with what callers were told, before and after restarts. *)
THEOREM ReadsHonourAnswersHolds ==
  ASSUME MaxCancel = 0
  PROVE  Spec => []ReadsHonourAnswers
  <1>1. PromiseInv => ReadsHonourAnswers
    BY AgreesLookup DEF PromiseInv, Inv, TypeOK, ReadsHonourAnswers
  <1>2. QED
    BY <1>1, PromiseInvariance, PTL

-----------------------------------------------------------------------------
(* The abstract store's data operators are this module's, instantiated. *)
LEMMA SameData ==
  /\ Promise!EmptyStore = EmptyStore
  /\ Promise!Call = Call
  /\ \A d, time : Promise!Retain(d, time) = Retain(d, time)
  /\ \A d, c, time : Promise!Effect(d, c, time) = Effect(d, c, time)
  BY DEF Promise!EmptyStore, EmptyStore, Promise!Call, Call, Promise!Retain, Retain,
         Promise!is_expired, is_expired, Promise!Effect, Effect,
         Promise!UpsertSession, UpsertSession, Promise!DeleteSession, DeleteSession,
         Promise!SaveAuthReq, SaveAuthReq, Promise!DeleteAuthReq, DeleteAuthReq

(* The file store starts where the abstract store starts. *)
LEMMA InitRefines == Init => Promise!Init
  <1> SUFFICES ASSUME Init PROVE Promise!Init
    OBVIOUS
  <1>1. Parsed(file) = EmptyStore
    BY DEF Init, Parsed, Absent
  <1>2. QED
    BY <1>1, SameData DEF Init, Promise!Init

(* Every step of the file store is a step of the abstract store or leaves it
   unchanged. *)
LEMMA StepRefines ==
  ASSUME MaxCancel = 0
  PROVE  PromiseInv /\ [Next]_vars => [Promise!Next]_(Promise!vars)
  <1> SUFFICES ASSUME PromiseInv, [Next]_vars
               PROVE  Promise!Next \/ UNCHANGED Promise!vars
    OBVIOUS
  <1> USE FileAssumption
  <1>0. Inv /\ TypeOK
    BY DEF PromiseInv, Inv
  <1>1. CASE Open
    <2>1. Promise!Start
      BY <1>1, SameData DEF Open, StartPersist, Promise!Start
    <2>2. QED
      BY <2>1 DEF Promise!Next
  <1>2. CASE Crash
    <2>1. Promise!Stop
      BY <1>2, SameData DEF Crash, Promise!Stop
    <2>2. QED
      BY <2>1 DEF Promise!Next
  <1>3. ASSUME NEW t \in Task, Begin(t) PROVE Promise!Next
    <2>1. Promise!Submit(t)
      BY <1>3, SameData DEF Begin, Promise!Submit
    <2>2. QED
      BY <2>1 DEF Promise!Next
  <1>4. ASSUME NEW t \in Task, Acquire(t) PROVE Promise!Next
    <2>1. Promise!Apply(t)
      BY <1>4, SameData DEF Acquire, StartPersist, Promise!Apply
    <2>2. QED
      BY <2>1 DEF Promise!Next
  <1>5. ASSUME NEW t \in Task, Cancel(t) PROVE FALSE
    BY <1>0, <1>5 DEF Cancel, TypeOK
  <1>6. ASSUME NEW n \in Write, Create(n) \/ Fill(n) \/ Chmod(n)
        PROVE  UNCHANGED Promise!vars
    BY <1>6 DEF Create, Fill, Chmod, Promise!vars
  <1>7. ASSUME NEW n \in Write, Rename(n) PROVE Promise!Next
    <2>1. job[n].by = lock /\ job[n].by \in Task \cup {Opener} /\ job[n].bytes = mem
      BY <1>0, <1>7
      DEF PromiseInv, Inv, TypeOK, WriterExclusion, Rename, Running, Job
    <2>2. Parsed(file') = mem /\ mem' = mem /\ now' = now
      BY <1>0, <1>7, <2>1
      DEF Inv, TmpProgress, Rename, Return, TmpName, Parsed
    <2>3. CASE lock = Opener
      <3>1. Promise!Started
        BY <1>0, <1>7, <2>1, <2>2, <2>3 DEF Rename, Return, Inv, LockOwner, Promise!Started
      <3>2. QED
        BY <3>1 DEF Promise!Next
    <2>4. CASE lock \in Task
      <3>1. Promise!AnswerOk(lock)
        BY <1>0, <1>7, <2>1, <2>2, <2>4 DEF Rename, Return, Promise!AnswerOk
      <3>2. QED
        BY <2>4, <3>1 DEF Promise!Next
    <2>5. QED
      BY <2>1, <2>3, <2>4
  <1>8. ASSUME NEW n \in Write, Fail(n) PROVE Promise!Next
    <2>1. job[n].by = lock /\ job[n].by \in Task \cup {Opener}
      BY <1>0, <1>8 DEF PromiseInv, Inv, TypeOK, WriterExclusion, Fail, Running, Job
    <2>2. CASE lock = Opener
      <3>1. call' = [t \in Task |-> NoCall]
        BY <1>0, <1>8, <2>1, <2>2 DEF Fail, Return, Inv, LockOwner, TypeOK
      <3>2. Promise!Stop
        BY <1>0, <1>8, <2>1, <2>2, <3>1, SameData
        DEF Fail, Return, Inv, LockOwner, Promise!Stop
      <3>3. QED
        BY <3>2 DEF Promise!Next
    <2>3. CASE lock \in Task
      <3>1. Promise!AnswerError(lock)
        BY <1>0, <1>8, <2>1, <2>3 DEF Fail, Return, Promise!AnswerError
      <3>2. QED
        BY <2>3, <3>1 DEF Promise!Next
    <2>4. QED
      BY <2>1, <2>2, <2>3
  <1>9. ASSUME NEW time \in 0..MaxNow, SetClock(time) PROVE Promise!Next
    <2>1. Promise!SetClock
      BY <1>9 DEF SetClock, Promise!SetClock
    <2>2. QED
      BY <2>1 DEF Promise!Next
  <1>10. CASE UNCHANGED vars
    BY <1>10 DEF vars, Promise!vars
  <1>11. QED
    BY <1>1, <1>2, <1>3, <1>4, <1>5, <1>6, <1>7, <1>8, <1>9, <1>10 DEF Next, PoolStep

(* The file store implements the abstract session store. *)
THEOREM FileStoreImplementsAuthStore ==
  ASSUME MaxCancel = 0
  PROVE  Spec => KeepsPromise
  BY InitRefines, StepRefines, PromiseInvariance, PTL DEF Spec, KeepsPromise, Promise!Spec
=============================================================================
