---------------------------- MODULE WorkerFleet -----------------------------
(***************************************************************************)
(* Worker processes that claim jobs from the store, run them and release   *)
(* them, while the recovery sweep, operators and clients change the same   *)
(* tables.                                                                 *)
(*                                                                         *)
(* A claim is what a process remembers of a job it fetched: it sits in the *)
(* local queue, runs in a concurrency slot or waits in a batcher until one *)
(* release statement is sent.  The process never looks at the row again,   *)
(* so a claim may outlive the lock it stands for.                          *)
(***************************************************************************)
EXTENDS Recovery

CONSTANTS
  JobSpecs,         \* the specs that clients add: key, queue and max_attempts
  RecoveryEnabled,  \* workers configured with worker_recovery
  MaxClaims,        \* bound: claims a worker holds at a time
  Outages,          \* whether a live worker may miss heartbeats past the threshold
  DbErrors,         \* whether statements of workers may fail
  Operations        \* the administration functions that operators call

ASSUME FleetAssumption ==
  /\ JobSpecs \subseteq
       [key : Key \cup {None}, queue : Queue \cup {None}, max_attempts : 1..MaxAttempts]
  /\ RecoveryEnabled \subseteq Worker
  /\ MaxClaims \in Nat
  /\ Outages \in BOOLEAN /\ DbErrors \in BOOLEAN
  /\ Operations \subseteq {"complete", "fail", "reschedule", "remove", "unlock", "cleanup"}

VARIABLES
  claims,  \* the claims that processes remember
  proc     \* worker -> "new", "up", "stopping" or "down"

vars == <<store, recoveryVars, claims, proc>>

\* stage "held": no release was sent.  "returning": a return was sent and its
\* answer lost, so it is sent again.  "reschedule", "reset": unlocked, and the
\* schedule the recovery hook asked for is still to be written.
Stage == {"held", "returning", "reschedule", "reset"}

Claim == [worker : Worker, job : JobId, run : 1..MaxClaims, queued : BOOLEAN, stage : Stage]

Init ==
  /\ StoreInit /\ RecoveryInit
  /\ claims = {}
  /\ proc = [w \in Worker |-> "new"]

TypeOK ==
  /\ StoreTypeOK /\ RecoveryTypeOK
  /\ claims \subseteq Claim
  /\ proc \in [Worker -> {"new", "up", "stopping", "down"}]

Running(w) == proc[w] \in {"up", "stopping"}

ClaimsOf(w) == {c \in claims : c.worker = w}

-----------------------------------------------------------------------------
(* The life of a worker process.                                           *)

\* Faulty: the worker fetches before its first heartbeat is written.
StartUnregistered(w) ==
  /\ proc[w] = "new"
  /\ proc' = [proc EXCEPT ![w] = "up"]
  /\ UNCHANGED <<store, recoveryVars, claims>>

\* Worker::run registers before it fetches anything.
Start(w) ==
  /\ proc[w] = "new"
  /\ proc' = [proc EXCEPT ![w] = "up"]
  /\ IF w \in RecoveryEnabled THEN WorkerHeartbeat(w) ELSE UNCHANGED workers
  /\ UNCHANGED <<store, sweep, claims>>

RequestShutdown(w) ==
  /\ proc[w] = "up"
  /\ proc' = [proc EXCEPT ![w] = "stopping"]
  /\ UNCHANGED <<store, recoveryVars, claims>>

\* The row is removed once every claim is released; removing it may fail.
Deregister(w) ==
  /\ proc[w] = "stopping" /\ ClaimsOf(w) = {}
  /\ proc' = [proc EXCEPT ![w] = "down"]
  /\ WorkerDeregister(w) \/ (DbErrors /\ UNCHANGED workers)
  /\ UNCHANGED <<store, sweep, claims>>

Crash(w) ==
  /\ Running(w)
  /\ proc' = [proc EXCEPT ![w] = "down"]
  /\ claims' = claims \ ClaimsOf(w)
  /\ UNCHANGED <<store, recoveryVars>>

Heartbeat(w) ==
  /\ Running(w) /\ w \in RecoveryEnabled /\ workers[w] # 0
  /\ WorkerHeartbeat(w)
  /\ UNCHANGED <<store, sweep, claims, proc>>

MissHeartbeat(w) ==
  /\ proc[w] = "down" \/ Outages
  /\ AgeHeartbeat(w)
  /\ UNCHANGED <<claims, proc>>

-----------------------------------------------------------------------------
(* Claims.                                                                 *)

FreshRun(w, j) ==
  CHOOSE n \in 1..MaxClaims : \A c \in ClaimsOf(w) : c.job = j => c.run # n

NewClaims(w, S) ==
  {[worker |-> w, job |-> j, run |-> FreshRun(w, j),
    queued |-> jobs[j].queue # None, stage |-> "held"] : j \in S}

\* Faulty: unanswered returns do not hold fetches back.
MayAlwaysFetch(w) == TRUE

\* ClaimCoordinator: no fetch while a return of this process is unanswered.
MayFetch(w) == \A c \in ClaimsOf(w) : c.stage # "returning"

Fetch(w, S) ==
  /\ proc[w] = "up" /\ MayFetch(w)
  /\ Cardinality(ClaimsOf(w)) + Cardinality(S) <= MaxClaims
  /\ ClaimJobs(w, S)
  /\ claims' = claims \cup NewClaims(w, S)
  /\ UNCHANGED <<recoveryVars, proc>>

GetJob(w) == \E j \in Claimable : Fetch(w, {j})

BatchGetJobs(w) ==
  \E S \in SUBSET Claimable : Cardinality(S) > 1 /\ OnePerQueue(S) /\ Fetch(w, S)

-----------------------------------------------------------------------------
(* Releases.                                                               *)

Forget(c) == claims' = claims \ {c} /\ UNCHANGED <<recoveryVars, proc>>

AtStage(c, stage) ==
  claims' = (claims \ {c}) \cup {[c EXCEPT !.stage = stage]} /\ UNCHANGED <<recoveryVars, proc>>

ReleaseCompletedJob(c) ==
  /\ c.stage = "held"
  /\ CompleteJob(c.worker, c.job, c.queued)
  /\ Forget(c)

ReleaseFailedJob(c) ==
  /\ c.stage = "held"
  /\ FailJob(c.worker, c.job, c.queued)
  /\ Forget(c)

\* The local queue returns a claim that no handler took.
ReturnCachedJob(c) ==
  /\ c.stage \in {"held", "returning"}
  /\ ReturnJobs(c.worker, {c.job}, FALSE)
  /\ Forget(c) \/ (DbErrors /\ AtStage(c, "returning"))

\* recover_shutdown_aborted_job: the grace period of a running job is over.
RecoverShutdownAbortedJob(c) ==
  /\ c.stage = "held" /\ proc[c.worker] = "stopping"
  /\ \E result \in IF HookResults = {} THEN {"default"} ELSE HookResults :
       \/ result = "default" /\ ReturnJobs(c.worker, {c.job}, TRUE) /\ Forget(c)
       \/ /\ result \in {"reschedule", "reset"}
          /\ ReturnJobs(c.worker, {c.job}, FALSE) /\ AtStage(c, result)
       \/ result = "fail" /\ FailJob(c.worker, c.job, c.queued) /\ Forget(c)
       \/ result = "skip" /\ UNCHANGED store /\ Forget(c)

\* The second statement of a rescheduling recovery, outside any transaction.
WriteRecoveredSchedule(c) ==
  /\ c.stage \in {"reschedule", "reset"}
  /\ jobs' = [j \in DOMAIN jobs |->
                IF j = c.job THEN SetRecoveredJobSchedule(jobs[j], c.stage) ELSE jobs[j]]
  /\ Forget(c)
  /\ UNCHANGED <<queues, retirements, nextId>>

\* A release fails and is not tried again: a failed completion batch is only
\* logged, and a failed direct release stops the worker.
LoseClaim(c) == DbErrors /\ Forget(c) /\ UNCHANGED store

-----------------------------------------------------------------------------
(* Clients and operators.                                                  *)

AddJob ==
  /\ \E spec \in JobSpecs, due \in BOOLEAN :
       \/ \E preserve_run_at \in BOOLEAN :
            AddJobs(spec.key, spec.queue, spec.max_attempts, due, preserve_run_at)
       \/ AddJobUnsafeDedupe(spec.key, spec.queue, spec.max_attempts, due)
  /\ UNCHANGED <<recoveryVars, claims, proc>>

\* Operators unlock workers that they know are gone.
Operate ==
  /\ \/ "remove" \in Operations /\ \E k \in Key : RemoveJob(k)
     \/ "complete" \in Operations /\ \E j \in DOMAIN jobs : CompleteJobs(j)
     \/ "fail" \in Operations /\ \E j \in DOMAIN jobs : PermanentlyFailJobs(j)
     \/ /\ "reschedule" \in Operations
        /\ \E j \in DOMAIN jobs, due \in {None} \cup BOOLEAN,
              attempts \in {None} \cup 0..MaxAttempts, max \in {None} \cup 1..MaxAttempts :
             RescheduleJobs(j, due, attempts, max)
     \/ "cleanup" \in Operations /\ DeleteJobs(PermanentlyFailed)
     \/ /\ "unlock" \in Operations
        /\ \E w \in Worker : (proc[w] = "down" \/ Outages) /\ ForceUnlockWorkers(w)
  /\ UNCHANGED <<recoveryVars, claims, proc>>

-----------------------------------------------------------------------------
(* The system.                                                             *)

PassTime ==
  /\ \/ \E j \in DOMAIN jobs : BecomeDue(j) \/ AgeJobLock(j)
     \/ \E q \in Queue : AgeQueueLock(q)
  /\ UNCHANGED <<recoveryVars, claims, proc>>

\* A sweep is started by a worker's background task or by WorkerUtils.
Sweep ==
  /\ SweepDiscover \/ SweepRecover \/ SweepList \/ SweepApply
  /\ UNCHANGED <<claims, proc>>

AbandonSweep == SweepRollback /\ UNCHANGED <<claims, proc>>

Next ==
  \/ \E w \in Worker :
       \/ Start(w) \/ RequestShutdown(w) \/ Deregister(w) \/ Crash(w)
       \/ Heartbeat(w) \/ MissHeartbeat(w)
       \/ GetJob(w) \/ BatchGetJobs(w)
  \/ \E c \in claims :
       \/ ReleaseCompletedJob(c) \/ ReleaseFailedJob(c) \/ ReturnCachedJob(c)
       \/ RecoverShutdownAbortedJob(c) \/ WriteRecoveredSchedule(c) \/ LoseClaim(c)
  \/ AddJob \/ Operate \/ PassTime \/ Sweep \/ AbandonSweep

Spec == Init /\ [][Next]_vars

\* The sweeper loop of a worker that enabled recovery ends when shutdown begins.
Sweeping(w) == w \in RecoveryEnabled /\ proc[w] = "up"

BackgroundSweep == (\E w \in Worker : Sweeping(w)) /\ Sweep

\* Time passes, and background sweepers run on their interval.  A sweep may be
\* abandoned, but not every time.
Fairness ==
  /\ \A j \in JobId : WF_vars(j \in DOMAIN jobs /\ AgeJobLock(j) /\ UNCHANGED <<recoveryVars, claims, proc>>)
  /\ \A q \in Queue : WF_vars(AgeQueueLock(q) /\ UNCHANGED <<recoveryVars, claims, proc>>)
  /\ \A w \in Worker : WF_vars(proc[w] = "down" /\ MissHeartbeat(w))
  /\ WF_vars(BackgroundSweep)
  /\ SF_vars(BackgroundSweep /\ sweep'.phase = "idle")

FairSpec == Spec /\ Fairness

-----------------------------------------------------------------------------
(* Properties.                                                             *)

\* The conditions under which nobody releases a lock behind its owner's back:
\* every worker is registered, a live one keeps its heartbeat young, and no
\* lock grows so old that the administration functions ignore it.
Reliable == ~Outages /\ RecoveryEnabled = Worker /\ MaxAge < 2

\* A process only ever acts on jobs it has locked: the job of a claim whose
\* release was not sent exists and is locked by the claim's worker.  Completion
\* deletes by id and failure and return match on locked_by alone, so this is
\* what makes them touch the run they belong to.
ClaimsOwned ==
  \A c \in claims : c.stage = "held" =>
    c.job \in DOMAIN jobs /\ jobs[c.job].locked_by = c.worker

\* No job is run by two claims at a time, neither of two workers nor of one
\* (get_job locks the row it selects, recovery unlocks only dead workers' rows,
\* and a return that is retried excludes new fetches).
SingleClaim ==
  \A c, d \in claims : c.stage = "held" /\ d.stage = "held" /\ c.job = d.job => c = d

\* A sweep takes jobs only from workers that have stopped: the order in which a
\* worker registers, drains its jobs and deregisters never makes a live one look
\* dead to find_dead_worker_ids.
SweptWorkersStopped == \A w \in sweep.dead : proc[w] = "down"


HoldsLocks(w) ==
  \/ \E j \in DOMAIN jobs : jobs[j].locked_by = w
  \/ \E q \in Queue : queues[q].locked_by = w

\* While some worker keeps sweeping, every lock on a job or a queue that a stopped
\* worker left behind is released in the end, however the worker stopped: crash,
\* shutdown with lost releases, or a failed deregistration.
DeadLocksReleased ==
  <>[](\E w \in Worker : Sweeping(w)) =>
    \A w \in Worker : (proc[w] = "down") ~> ~HoldsLocks(w)
-----------------------------------------------------------------------------
(* What the documentation says and some configuration contradicts.         *)

\* docs/src/concepts/queues.md: "When the job finishes, the completed job is
\* removed and the queue can be used by later work."  So a queue is not left
\* locked by a live worker that holds neither a job of it nor a claim.
FinishedJobFreesQueue ==
  \A q \in Queue, w \in Worker : queues[q].locked_by = w /\ Running(w) =>
    \/ \E j \in DOMAIN jobs : jobs[j].queue = q /\ jobs[j].locked_by = w
    \/ \E c \in ClaimsOf(w) : c.queued
=============================================================================
