------------------------------ MODULE JobStore ------------------------------
(***************************************************************************)
(* The job tables of Graphile Worker RS and the SQL that changes them.     *)
(*                                                                         *)
(* A table is a function whose domain is the set of its rows.  Every SQL   *)
(* function of the schema, and every query the worker sends, is one        *)
(* operator that states the tables after it; each is atomic because it is  *)
(* one transaction that locks the rows it reads before it changes them.    *)
(*                                                                         *)
(* Time is abstract: "due" says run_at <= now(), and a lock's age is       *)
(*   0  younger than the sweep threshold,                                  *)
(*   1  older than the sweep threshold,                                    *)
(*   2  older than the four hours after which the administration functions *)
(*      ignore a lock.                                                     *)
(***************************************************************************)
EXTENDS Naturals, FiniteSets

CONSTANTS
  Worker,       \* worker ids; an id is drawn at random and never used again
  Queue,        \* named queues
  Key,          \* job keys
  None,         \* SQL null
  MaxJobs,      \* bound: number of rows ever inserted
  MaxAttempts,  \* bound: the largest max_attempts of a job
  MaxAge        \* bound: the age that locks reach

ASSUME StoreAssumption ==
  /\ None \notin Worker \cup Queue \cup Key
  /\ MaxJobs \in Nat /\ MaxAttempts \in Nat /\ MaxAge \in 0..2

VARIABLES
  jobs,         \* _private_jobs: job id -> row
  queues,       \* _private_job_queues: queue -> its lock
  retirements,  \* _private_job_retirements: ids that must not run again
  nextId        \* the identity sequence of _private_jobs

store == <<jobs, queues, retirements, nextId>>

JobId == 1..MaxJobs

Row == [key : Key \cup {None}, queue : Queue \cup {None},
        attempts : 0..MaxAttempts, max_attempts : 1..MaxAttempts,
        locked_by : Worker \cup {None}, age : 0..2, due : BOOLEAN]

Lock == [locked_by : Worker \cup {None}, age : 0..2]

Unheld == [locked_by |-> None, age |-> 0]

StoreInit ==
  /\ jobs = [j \in {} |-> None]
  /\ queues = [q \in Queue |-> Unheld]
  /\ retirements = {}
  /\ nextId = 1

StoreTypeOK ==
  /\ DOMAIN jobs \subseteq JobId
  /\ jobs \in [DOMAIN jobs -> Row]
  /\ queues \in [Queue -> Lock]
  /\ retirements \subseteq DOMAIN jobs
  /\ nextId \in 1..(MaxJobs + 1)
  /\ \A j \in DOMAIN jobs : j < nextId

-----------------------------------------------------------------------------
(* Parts of the queries.                                                   *)

\* Faulty: exhausted jobs stay available.
IsAvailableUnbounded(row) == row.locked_by = None

\* The generated column is_available.
IsAvailable(row) == row.locked_by = None /\ row.attempts < row.max_attempts

\* "locked_at is null or locked_at < now() - interval '4 hours'"
Editable(row) == row.locked_by = None \/ row.age = 2

Unlocked(row) == [row EXCEPT !.locked_by = None, !.age = 0]

\* greatest(0, attempts - 1)
OneLess(n) == IF n = 0 THEN 0 ELSE n - 1

\* Faulty: the retirement marker is not read.
RestoredBlindly(j) == [Unlocked(jobs[j]) EXCEPT !.attempts = OneLess(@)]

\* An interrupted run gives its attempt back, unless the job was retired.
Restored(j) ==
  [Unlocked(jobs[j]) EXCEPT !.attempts = IF j \in retirements THEN @ ELSE OneLess(@)]

\* Retiring a job exhausts its attempts and frees its key.
Superseded(row) == [row EXCEPT !.key = None, !.attempts = row.max_attempts]


Held(w, S) == {j \in S \cap DOMAIN jobs : jobs[j].locked_by = w}

\* The queues after the rows in S let go of theirs on behalf of worker w.
ReleaseQueues(w, S) ==
  [q \in Queue |-> IF queues[q].locked_by = w /\ \E j \in S : jobs[j].queue = q
                     THEN Unheld ELSE queues[q]]

WithKey(k) == {j \in DOMAIN jobs : k # None /\ jobs[j].key = k}

-----------------------------------------------------------------------------
(* Claims.                                                                 *)

\* Faulty: the lock of the queue is not looked at.
ClaimableInLockedQueues == {j \in DOMAIN jobs : IsAvailable(jobs[j]) /\ jobs[j].due}

Claimable ==
  {j \in DOMAIN jobs :
     /\ IsAvailable(jobs[j]) /\ jobs[j].due
     /\ jobs[j].queue # None => queues[jobs[j].queue].locked_by = None}

\* Priority, task registration and job flags only narrow or order the
\* candidates: any claimable job may be the one a query selects.
ClaimJobs(w, S) ==
  /\ jobs' = [j \in DOMAIN jobs |->
                IF j \in S
                  THEN [jobs[j] EXCEPT !.attempts = @ + 1, !.locked_by = w, !.age = 0]
                  ELSE jobs[j]]
  /\ queues' = [q \in Queue |-> IF \E j \in S : jobs[j].queue = q
                                  THEN [locked_by |-> w, age |-> 0] ELSE queues[q]]
  /\ UNCHANGED <<retirements, nextId>>

\* Faulty: a batch may hold several jobs of a named queue.
ManyPerQueue(S) == TRUE

\* "distinct on" keeps one candidate of a named queue.
OnePerQueue(S) ==
  \A i, j \in S : i # j /\ jobs[i].queue # None => jobs[i].queue # jobs[j].queue

-----------------------------------------------------------------------------
(* Releases.  "queued" is what the claimed copy of the row said.           *)

\* Faulty: the queue stays locked.
CompleteJobOnly(w, j, queued) ==
  /\ jobs' = [i \in DOMAIN jobs \ {j} |-> jobs[i]]
  /\ retirements' = retirements \ {j}
  /\ UNCHANGED <<queues, nextId>>

CompleteJob(w, j, queued) ==
  /\ jobs' = [i \in DOMAIN jobs \ {j} |-> jobs[i]]
  /\ queues' = IF queued THEN ReleaseQueues(w, {j} \cap DOMAIN jobs) ELSE queues
  /\ retirements' = retirements \ {j}
  /\ UNCHANGED nextId

\* The backoff is never zero, so a failed job is not due.
FailJob(w, j, queued) ==
  /\ jobs' = [i \in DOMAIN jobs |->
                IF i \in Held(w, {j}) THEN [Unlocked(jobs[i]) EXCEPT !.due = FALSE]
                                      ELSE jobs[i]]
  /\ queues' = IF queued THEN ReleaseQueues(w, Held(w, {j})) ELSE queues
  /\ UNCHANGED <<retirements, nextId>>

\* _private_return_jobs; "delayed" when a recovery delay moves run_at.
ReturnJobs(w, S, delayed) ==
  /\ jobs' = [i \in DOMAIN jobs |->
                IF i \in Held(w, S) THEN [Restored(i) EXCEPT !.due = @ /\ ~delayed]
                                    ELSE jobs[i]]
  /\ queues' = ReleaseQueues(w, Held(w, S))
  /\ UNCHANGED <<retirements, nextId>>

\* Faulty: the queues of the dead workers stay locked.
RecoverJobsOnly(W) ==
  /\ jobs' = [i \in DOMAIN jobs |->
                IF jobs[i].locked_by \in W THEN [Restored(i) EXCEPT !.due = FALSE]
                                           ELSE jobs[i]]
  /\ UNCHANGED <<queues, retirements, nextId>>

\* recover_dead_worker_jobs: also frees queues that no job of theirs holds.
RecoverDeadWorkerJobs(W) ==
  /\ jobs' = [i \in DOMAIN jobs |->
                IF jobs[i].locked_by \in W THEN [Restored(i) EXCEPT !.due = FALSE]
                                           ELSE jobs[i]]
  /\ queues' = [q \in Queue |-> IF queues[q].locked_by \in W THEN Unheld ELSE queues[q]]
  /\ UNCHANGED <<retirements, nextId>>

-----------------------------------------------------------------------------
(* Adding jobs.                                                            *)

NewRow(k, q, m, due) ==
  [key |-> k, queue |-> q, attempts |-> 0, max_attempts |-> m,
   locked_by |-> None, age |-> 0, due |-> due]

\* add_jobs for one spec: the modes replace and preserve_run_at.  A row with
\* the key that is locked or exhausted is retired and a new row takes the key;
\* an available one is updated in place.
AddJobs(k, q, m, due, preserve_run_at) ==
  LET current == {j \in WithKey(k) : IsAvailable(jobs[j])}
      retired == WithKey(k) \ current
      new     == IF current = {} THEN {nextId} ELSE {}
      run_at(row) == IF preserve_run_at /\ row.attempts = 0 THEN row.due ELSE due
  IN  /\ current = {} => nextId <= MaxJobs
      /\ jobs' = [j \in DOMAIN jobs \cup new |->
                    IF j \in new THEN NewRow(k, q, m, due)
                    ELSE IF j \in current THEN NewRow(k, q, m, run_at(jobs[j]))
                    ELSE IF j \in retired THEN Superseded(jobs[j])
                    ELSE jobs[j]]
      /\ retirements' = retirements \cup retired
      /\ nextId' = IF current = {} THEN nextId + 1 ELSE nextId
      /\ UNCHANGED queues

\* add_job in mode unsafe_dedupe: an existing row, locked or not, only has its
\* revision counted up.
AddJobUnsafeDedupe(k, q, m, due) ==
  /\ WithKey(k) = {} /\ nextId <= MaxJobs
  /\ jobs' = [j \in DOMAIN jobs \cup {nextId} |->
                IF j = nextId THEN NewRow(k, q, m, due) ELSE jobs[j]]
  /\ nextId' = nextId + 1
  /\ UNCHANGED <<queues, retirements>>

-----------------------------------------------------------------------------
(* Administration functions, for one job or worker of their argument.      *)

DeleteJobs(S) ==
  /\ jobs' = [i \in DOMAIN jobs \ S |-> jobs[i]]
  /\ retirements' = retirements \ S
  /\ UNCHANGED <<queues, nextId>>

RemoveJob(k) ==
  LET rows == WithKey(k)
  IN  /\ rows # {}
      /\ IF \A j \in rows : Editable(jobs[j])
           THEN DeleteJobs(rows)
           ELSE /\ jobs' = [j \in DOMAIN jobs |->
                              IF j \in rows THEN Superseded(jobs[j]) ELSE jobs[j]]
                /\ retirements' = retirements \cup rows
                /\ UNCHANGED <<queues, nextId>>

CompleteJobs(j) == Editable(jobs[j]) /\ DeleteJobs({j})

PermanentlyFailJobs(j) ==
  /\ Editable(jobs[j])
  /\ jobs' = [jobs EXCEPT ![j].attempts = jobs[j].max_attempts]
  /\ retirements' = retirements \cup {j}
  /\ UNCHANGED <<queues, nextId>>

\* coalesce: an option that is not supplied keeps the column.
Coalesce(option, column) == IF option = None THEN column ELSE option

RescheduledRow(row, due, attempts, max_attempts) ==
  [row EXCEPT !.due = Coalesce(due, @), !.attempts = Coalesce(attempts, @),
              !.max_attempts = Coalesce(max_attempts, @)]

RescheduleJobs(j, due, attempts, max_attempts) ==
  /\ Editable(jobs[j])
  /\ jobs' = [jobs EXCEPT ![j] = RescheduledRow(@, due, attempts, max_attempts)]
  /\ retirements' = retirements \ {j}
  /\ UNCHANGED <<queues, nextId>>

\* CleanupTask::DeletePermanentlyFailedJobs
PermanentlyFailed ==
  {j \in DOMAIN jobs : jobs[j].attempts = jobs[j].max_attempts /\ jobs[j].locked_by = None}

\* force_unlock_workers gives no attempt back.
ForceUnlockWorkers(w) ==
  /\ jobs' = [i \in DOMAIN jobs |->
                IF jobs[i].locked_by = w THEN Unlocked(jobs[i]) ELSE jobs[i]]
  /\ queues' = [q \in Queue |-> IF queues[q].locked_by = w THEN Unheld ELSE queues[q]]
  /\ UNCHANGED <<retirements, nextId>>

-----------------------------------------------------------------------------
(* Time.                                                                   *)

BecomeDue(j) ==
  /\ ~jobs[j].due
  /\ jobs' = [jobs EXCEPT ![j].due = TRUE]
  /\ UNCHANGED <<queues, retirements, nextId>>

AgeJobLock(j) ==
  /\ jobs[j].locked_by # None /\ jobs[j].age < MaxAge
  /\ jobs' = [jobs EXCEPT ![j].age = @ + 1]
  /\ UNCHANGED <<queues, retirements, nextId>>

AgeQueueLock(q) ==
  /\ queues[q].locked_by # None /\ queues[q].age < MaxAge
  /\ queues' = [queues EXCEPT ![q].age = @ + 1]
  /\ UNCHANGED <<jobs, retirements, nextId>>

-----------------------------------------------------------------------------
(* What the tables promise.                                                *)

\* Jobs of one named queue are locked one at a time, whatever crashes, sweeps,
\* key replacements and retried returns happen between two claims.
QueueSerial ==
  \A i, j \in DOMAIN jobs :
    (/\ jobs[i].locked_by # None /\ jobs[j].locked_by # None
     /\ jobs[i].queue # None /\ jobs[i].queue = jobs[j].queue) => i = j

\* A queue is locked exactly while a job of it is, and by the same worker: no
\* path leaves a queue locked that no release will unlock.
QueueLockBacked ==
  \A q \in Queue, w \in Worker :
    queues[q].locked_by = w <=>
      \E j \in DOMAIN jobs : jobs[j].queue = q /\ jobs[j].locked_by = w

\* A job that was replaced, removed or permanently failed cannot be claimed
\* again: no release, sweep, unlock or retry of one makes it available.
RetiredUnavailable == \A j \in retirements : ~IsAvailable(jobs[j])
=============================================================================
