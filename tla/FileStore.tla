----------------------------- MODULE FileStore -----------------------------
(***************************************************************************)
(* The file-backed session store, src/src/session/file.rs.                 *)
(*                                                                         *)
(* Every call that writes takes the RwLock, changes the map in memory and  *)
(* then persists the whole map: write a temporary file, set its mode,      *)
(* rename it over the store.  Each of the three is an await on a job that  *)
(* tokio hands to its blocking pool, and that gives the model its shape:   *)
(*                                                                         *)
(*   - a job can fail, and the call then returns an error with the map in  *)
(*     memory already changed;                                             *)
(*   - the caller's future can be dropped at an await (client gone, or the *)
(*     request timeout), which releases the lock but does not stop the job *)
(*     already handed over: it becomes Detached and runs to its end;       *)
(*   - the process can die between any two steps and be started again.     *)
(*                                                                         *)
(* Reads (get_session, get_auth_req_info) hold the read lock over no await *)
(* and change nothing, so they are state functions: see Readable.          *)
(***************************************************************************)
EXTENDS SessionData, FiniteSets

CONSTANTS
  Task,        \* request handlers calling the store
  Write,       \* names of temporary files in use at one time
  Opener,      \* the startup code running FileStore::open
  NoOne,       \* nobody holds the write lock
  Detached,    \* owner of a job whose future was dropped
  NoCall,      \* a task that is not in a call
  Unknown,     \* the caller was told nothing definite about a key
  MaxNow,      \* bound on the clock
  MaxCancel    \* bound on dropped futures; 0 for a build that never drops one

ASSUME FileAssumption ==
  /\ Opener \notin Task /\ NoOne \notin Task \cup {Opener}
  /\ Detached \notin Task \cup {Opener, NoOne}
  /\ NoCall \notin Call
  /\ Unknown \notin Value \cup Nat \cup {None}
  /\ MaxNow \in Nat /\ MaxCancel \in Nat

VARIABLES
  phase,     \* "down", "opening" (inside FileStore::open) or "up"
  mem,       \* the Persisted map behind the lock
  lock,      \* holder of the write lock
  call,      \* call[t]: the call task t is making
  job,       \* job[n]: the persist that uses temporary name n
  tmp,       \* tmp[n]: the temporary file of that name
  file,      \* the file at the store's path
  now,       \* the system clock
  cancels,   \* dropped futures so far
  promised   \* history: what callers were told the store holds

vars == <<phase, mem, lock, call, job, tmp, file, now, cancels, promised>>

-----------------------------------------------------------------------------
(* Files.  A file's mode is the umask's until set_permissions runs. *)
FileState == {"absent", "garbage", "partial", "whole"}
Mode == {"umask", "0600"}
File == [state : FileState, mode : Mode, bytes : Persisted]

Absent == [state |-> "absent", mode |-> "umask", bytes |-> EmptyStore]

(* Mutant: a file written by the previous run does not parse. *)
ParsedNever(f) == EmptyStore

(* serde_json::from_slice(..).unwrap_or_else(empty), and NotFound => empty. *)
Parsed(f) == IF f.state = "whole" THEN f.bytes ELSE EmptyStore

(* The steps of one persist.  "create" and "fill" are one tokio::fs::write:
   the file exists before its contents are complete. *)
Running == {"create", "fill", "chmod", "rename"}
Job == [by : Task \cup {Opener, Detached}, step : Running \cup {"over"}, bytes : Persisted]

NoJob == [by |-> Detached, step |-> "over", bytes |-> EmptyStore]

(* Mutant: one fixed `.tmp` for every writer. *)
TmpNameFixed(n) == CHOOSE m \in Write : TRUE

(* `tmp.{pid}.{counter}`: a name no other running persist has. *)
TmpName(n) == n

(* A temporary file whose persist is over is litter: nobody will ever read,
   write or remove it, so the model forgets it. *)
Litter(n) == tmp' = [tmp EXCEPT ![TmpName(n)] = Absent]

(* The job that holder h of the lock is waiting for. *)
JobsOf(h) == {n \in Write : job[n].by = h /\ job[n].step \in Running}

(* What a caller knows about key k once its call on k returned Ok: a request
   that expired meanwhile may be gone at any moment. *)
Outcome(k) ==
  IF k \in State /\ mem.auth_requests[k] # None /\ is_expired(mem.auth_requests[k], now)
    THEN Unknown ELSE Lookup(mem, k, now)

-----------------------------------------------------------------------------
Init ==
  /\ phase = "down"
  /\ mem = EmptyStore
  /\ lock = NoOne
  /\ call = [t \in Task |-> NoCall]
  /\ job = [n \in Write |-> NoJob]
  /\ tmp = [n \in Write |-> Absent]
  /\ file \in {Absent, [Absent EXCEPT !.state = "garbage"]}
  /\ now = 0
  /\ cancels = 0
  /\ promised = [k \in Key |-> None]

(* Mutant: persist without the reaping pass. *)
StartPersistUnreaped(h, d) ==
  /\ mem' = d
  /\ \E n \in Write :
       /\ job[n].step = "over"
       /\ job' = [job EXCEPT ![n] = [by |-> h, step |-> "create", bytes |-> mem']]

(* persist(d) by h up to its first await: reap, serialise, pick a name and
   hand the write to the blocking pool. *)
StartPersist(h, d) ==
  /\ mem' = Retain(d, now)
  /\ \E n \in Write :
       /\ job[n].step = "over"
       /\ job' = [job EXCEPT ![n] = [by |-> h, step |-> "create", bytes |-> mem']]

(* FileStore::open: read what is there, then persist once. *)
Open ==
  /\ phase = "down"
  /\ phase' = "opening"
  /\ lock' = Opener
  /\ StartPersist(Opener, Parsed(file))
  /\ UNCHANGED <<call, tmp, file, now, cancels, promised>>

(* A request handler calls a writing method and waits for the lock. *)
Begin(t) ==
  /\ phase = "up"
  /\ call[t] = NoCall
  /\ \E c \in Call : call' = [call EXCEPT ![t] = c]
  /\ UNCHANGED <<phase, mem, lock, job, tmp, file, now, cancels, promised>>

(* Mutant: the write guard is dropped before persist is awaited. *)
AcquireUnlocked(t) ==
  /\ phase = "up"
  /\ call[t] # NoCall
  /\ lock = NoOne
  /\ StartPersist(t, Effect(mem, call[t], now))
  /\ promised' = [promised EXCEPT ![call[t].key] = Unknown]
  /\ UNCHANGED <<phase, lock, call, tmp, file, now, cancels>>

(* Mutant: the map is serialised before the change is made in it. *)
AcquireStale(t) ==
  /\ phase = "up"
  /\ call[t] # NoCall
  /\ lock = NoOne
  /\ lock' = t
  /\ mem' = Effect(mem, call[t], now)
  /\ \E n \in Write :
       /\ job[n].step = "over"
       /\ job' = [job EXCEPT ![n] =
                    [by |-> t, step |-> "create", bytes |-> Retain(mem, now)]]
  /\ promised' = [promised EXCEPT ![call[t].key] = Unknown]
  /\ UNCHANGED <<phase, call, tmp, file, now, cancels>>

(* upsert_session, delete_session, save_auth_req_info, delete_auth_req_info:
   the lock is granted, the map changes, persist starts. There is no await
   in between. *)
Acquire(t) ==
  /\ phase = "up"
  /\ call[t] # NoCall
  /\ lock = NoOne
  /\ lock' = t
  /\ StartPersist(t, Effect(mem, call[t], now))
  /\ promised' = [promised EXCEPT ![call[t].key] = Unknown]
  /\ UNCHANGED <<phase, call, tmp, file, now, cancels>>

-----------------------------------------------------------------------------
(* What the end of a persist means to the one waiting for it: the guard is
   dropped, and the call (or startup) returns. *)
Return(h, ok) ==
  /\ lock' = IF h = Detached THEN lock ELSE NoOne
  /\ call' = IF h \in Task THEN [call EXCEPT ![h] = NoCall] ELSE call
  /\ phase' = IF h = Opener THEN (IF ok THEN "up" ELSE "down") ELSE phase
  /\ mem' = IF h = Opener /\ ~ok THEN EmptyStore ELSE mem
  /\ promised' = IF h \in Task /\ ok
                   THEN [promised EXCEPT ![call[h].key] = Outcome(call[h].key)]
                   ELSE promised

(* A job whose future was dropped has nobody to start the next one. *)
Continue(n, step) ==
  job' = [job EXCEPT ![n] = IF @.by = Detached THEN NoJob ELSE [@ EXCEPT !.step = step]]

(* tokio::fs::write, first half: the temporary file exists and is incomplete. *)
Create(n) ==
  /\ job[n].step = "create"
  /\ tmp' = [tmp EXCEPT ![TmpName(n)].state = "partial"]
  /\ job' = [job EXCEPT ![n].step = "fill"]
  /\ UNCHANGED <<phase, mem, lock, call, file, now, cancels, promised>>

(* tokio::fs::write, second half. *)
Fill(n) ==
  /\ job[n].step = "fill"
  /\ IF job[n].by = Detached
       THEN Litter(n)
       ELSE tmp' = [tmp EXCEPT ![TmpName(n)] =
                      [@ EXCEPT !.state = "whole", !.bytes = job[n].bytes]]
  /\ Continue(n, "chmod")
  /\ UNCHANGED <<phase, mem, lock, call, file, now, cancels, promised>>

(* tokio::fs::set_permissions(tmp, 0600). *)
Chmod(n) ==
  /\ job[n].step = "chmod"
  /\ IF job[n].by = Detached
       THEN Litter(n)
       ELSE tmp' = [tmp EXCEPT ![TmpName(n)].mode = "0600"]
  /\ Continue(n, "rename")
  /\ UNCHANGED <<phase, mem, lock, call, file, now, cancels, promised>>

(* tokio::fs::rename(tmp, path): the last step, atomic on POSIX. *)
Rename(n) ==
  /\ job[n].step = "rename"
  /\ file' = tmp[TmpName(n)]
  /\ Litter(n)
  /\ job' = [job EXCEPT ![n] = NoJob]
  /\ Return(job[n].by, TRUE)
  /\ UNCHANGED <<now, cancels>>

(* Mutant: the error of a failed write is logged and dropped. *)
FailSwallowed(n) ==
  /\ job[n].step \in Running
  /\ Litter(n)
  /\ job' = [job EXCEPT ![n] = NoJob]
  /\ Return(job[n].by, TRUE)
  /\ UNCHANGED <<file, now, cancels>>

(* An IO error in any of the three: `?` returns it. The map keeps the change,
   the file at the store's path keeps its old contents. *)
Fail(n) ==
  /\ job[n].step \in Running
  /\ Litter(n)
  /\ job' = [job EXCEPT ![n] = NoJob]
  /\ Return(job[n].by, FALSE)
  /\ UNCHANGED <<file, now, cancels>>

(* Mutant: the guard outlives the future that held it. *)
CancelLeaksLock(t) ==
  /\ cancels < MaxCancel
  /\ call[t] # NoCall
  /\ cancels' = cancels + 1
  /\ call' = [call EXCEPT ![t] = NoCall]
  /\ job' = [n \in Write |->
               IF n \in JobsOf(t) THEN [job[n] EXCEPT !.by = Detached] ELSE job[n]]
  /\ UNCHANGED <<phase, mem, lock, tmp, file, now, promised>>

(* The future of t is dropped: waiting for the lock, or inside persist. *)
Cancel(t) ==
  /\ cancels < MaxCancel
  /\ call[t] # NoCall
  /\ cancels' = cancels + 1
  /\ call' = [call EXCEPT ![t] = NoCall]
  /\ lock' = IF lock = t THEN NoOne ELSE lock
  /\ job' = [n \in Write |->
               IF n \in JobsOf(t) THEN [job[n] EXCEPT !.by = Detached] ELSE job[n]]
  /\ UNCHANGED <<phase, mem, tmp, file, now, promised>>

(* The process dies; files stay. *)
Crash ==
  /\ phase # "down"
  /\ phase' = "down"
  /\ mem' = EmptyStore
  /\ lock' = NoOne
  /\ call' = [t \in Task |-> NoCall]
  /\ job' = [n \in Write |-> NoJob]
  /\ tmp' = [n \in Write |-> Absent]
  /\ UNCHANGED <<file, now, cancels, promised>>

(* SystemTime moves, forwards or (NTP, an operator) backwards. Once a saved
   request has expired it may be reaped at any write. *)
SetClock(time) ==
  /\ now' = time
  /\ promised' = [k \in Key |->
       IF k \in State /\ promised[k] \in Nat /\ is_expired(promised[k], time)
         THEN Unknown ELSE promised[k]]
  /\ UNCHANGED <<phase, mem, lock, call, job, tmp, file, cancels>>

-----------------------------------------------------------------------------
PoolStep(n) == Create(n) \/ Fill(n) \/ Chmod(n) \/ Rename(n)

Next ==
  \/ Open \/ Crash
  \/ \E t \in Task : Begin(t) \/ Acquire(t) \/ Cancel(t)
  \/ \E n \in Write : PoolStep(n) \/ Fail(n)
  \/ \E time \in 0..MaxNow : SetClock(time)

Spec == Init /\ [][Next]_vars

(* The blocking pool runs every job it is given, and the lock is fair: tokio's
   RwLock is granted in order of arrival, so a waiter is not passed over for
   ever. Nothing makes a client call, a future drop, the clock move, the
   process die or an operator start it. *)
Fairness ==
  /\ \A n \in Write : WF_vars(PoolStep(n) \/ Fail(n))
  /\ \A t \in Task : SF_vars(Acquire(t))

FairSpec == Spec /\ Fairness

-----------------------------------------------------------------------------
(* Every variable holds a value of the shape the code gives it. *)
TypeOK ==
  /\ phase \in {"down", "opening", "up"}
  /\ mem \in Persisted
  /\ lock \in Task \cup {Opener, NoOne}
  /\ call \in [Task -> Call \cup {NoCall}]
  /\ job \in [Write -> Job]
  /\ tmp \in [Write -> File]
  /\ file \in File
  /\ now \in Nat
  /\ cancels \in Nat
  /\ promised \in [Key -> Value \cup Nat \cup {None, Unknown}]

(* "Called with the write lock held, so no other task can interleave a
   read-modify-write" (file.rs:129): of the persists somebody still waits for
   there is at most one, its waiter holds the lock, and what it is writing is
   exactly the map in memory. Dropped futures and failed writes included. *)
WriterExclusion ==
  \A n \in Write : job[n].by # Detached =>
    /\ job[n].by = lock
    /\ job[n].bytes = mem
    /\ \A m \in Write : job[m].by = lock => m = n

(* "A reader sees either the old file or the new one -- never a truncated one"
   (file.rs:146), and a file holding tokens is never at its final name with
   the umask's mode (file.rs:162): whatever failed, crashed or was dropped, the
   store's path holds a complete owner-only snapshot from the moment startup
   has finished, and never a partial one. *)
FileIsWhole ==
  /\ file.state # "partial"
  /\ file.state = "whole" => file.mode = "0600"
  /\ phase = "up" => file.state = "whole"

(* A caller is told something definite about a key only in a step that leaves
   it on disk: Ok is never returned ahead of the rename, whoever else failed
   or was dropped before. *)
OkMeansOnDisk ==
  [][\A k \in Key : promised[k] = Unknown /\ promised'[k] # Unknown =>
        Lookup(Parsed(file'), k, now') = promised'[k]]_vars

(* Reads agree with what callers were told: while no write is in progress, a
   reader finds the last acknowledged value of every key whose last write was
   acknowledged, in this run of the process and after any number of restarts. *)
ReadsHonourAnswers ==
  phase = "up" /\ lock = NoOne =>
    \A k \in Key : promised[k] # Unknown => Lookup(mem, k, now) = promised[k]

(* An acknowledged write is not undone on disk by another writer: at every
   moment the file a restart would read has the last acknowledged value of
   every key whose last write was acknowledged. This is the lost update
   that "No serialisation of read-modify-write" (file.rs:12) describes. *)
AcknowledgedIsDurable ==
  \A k \in Key : promised[k] # Unknown => Lookup(Parsed(file), k, now) = promised[k]

(* Every call ends and startup ends: neither a failed write nor a dropped
   future leaves the lock held. *)
EveryCallReturns ==
  /\ \A t \in Task : call[t] # NoCall ~> call[t] = NoCall
  /\ phase = "opening" ~> phase # "opening"

-----------------------------------------------------------------------------
(* The file store is a session store: the map in memory is what reads return
   and the parsed file is what a restart brings back. *)
Promise == INSTANCE AuthStore WITH
  live <- mem, durable <- Parsed(file), pending <- call, turn <- lock,
  Nobody <- NoOne, Startup <- Opener

(* The file store keeps the promise of AuthStore. *)
KeepsPromise == Promise!Spec
=============================================================================
