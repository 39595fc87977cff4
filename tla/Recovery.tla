------------------------------ MODULE Recovery ------------------------------
(***************************************************************************)
(* Worker heartbeats and the sweep that recovers the jobs of dead workers. *)
(*                                                                         *)
(* workers[w] is None when _private_workers has no row for w, otherwise    *)
(* the age of its last heartbeat:                                          *)
(*   0  younger than sweep_threshold,                                      *)
(*   1  older than sweep_threshold,                                        *)
(*   2  older than the threshold extended for resilient jobs.              *)
(*                                                                         *)
(* A sweep is one transaction under an advisory lock, so at most one runs  *)
(* at a time.  It reads which workers are dead in one statement and        *)
(* changes their jobs in later ones, and other transactions commit in      *)
(* between.  Its own changes are visible from its commit on; the rows it   *)
(* has changed are locked until then, so they are modelled as one step.    *)
(***************************************************************************)
EXTENDS JobStore

CONSTANTS
  Resilient,    \* ids of the jobs that carry a resilient flag
  HookResults   \* what the JobRecovery hook may answer; {} if there is no hook

VARIABLES workers, sweep

recoveryVars == <<workers, sweep>>

\* Reschedule either keeps the attempts or sets them (here: to zero).
HookResult == {"default", "reschedule", "reset", "fail", "skip"}

ASSUME RecoveryAssumption ==
  HookResults \subseteq HookResult /\ Resilient \subseteq JobId /\ None \notin 0..2

Listed == [job : JobId, previous : Worker, queued : BOOLEAN]

NoSweep == [phase |-> "idle", dead |-> {}, listed |-> {}]

RecoveryInit ==
  /\ workers = [w \in Worker |-> None]
  /\ sweep = NoSweep

RecoveryTypeOK ==
  /\ workers \in [Worker -> {None} \cup 0..2]
  /\ sweep \in [phase : {"idle", "found", "listed"}, dead : SUBSET Worker,
                listed : SUBSET Listed]

-----------------------------------------------------------------------------
(* The rows of _private_workers.                                           *)

WorkerHeartbeat(w) == workers' = [workers EXCEPT ![w] = 0]

WorkerDeregister(w) == workers' = [workers EXCEPT ![w] = None]

AgeHeartbeat(w) ==
  /\ workers[w] \in {0, 1}
  /\ workers' = [workers EXCEPT ![w] = @ + 1]
  /\ UNCHANGED <<store, sweep>>

-----------------------------------------------------------------------------
(* Discovery.                                                              *)

\* Faulty: the threshold is not applied.
ListRegisteredWorkers == {w \in Worker : workers[w] # None}

ListStaleWorkers == {w \in Worker : workers[w] \in {1, 2}}

WorkerHoldsResilientLocks(w) == \E j \in DOMAIN jobs \cap Resilient : jobs[j].locked_by = w

ShouldRecoverWorker(w) == WorkerHoldsResilientLocks(w) => workers[w] = 2

\* Faulty: registered workers with old locks count as orphans.
ListLockedWorkers ==
  {w \in Worker : \E j \in DOMAIN jobs : jobs[j].locked_by = w /\ jobs[j].age > 0}

\* The resilient multiplier is not applied to orphan locks.
ListOrphanLockedWorkers ==
  {w \in Worker :
     /\ workers[w] = None
     /\ \/ \E j \in DOMAIN jobs : jobs[j].locked_by = w /\ jobs[j].age > 0
        \/ \E q \in Queue : queues[q].locked_by = w /\ queues[q].age > 0}

FindDeadWorkerIds ==
  {w \in ListStaleWorkers : ShouldRecoverWorker(w)} \cup ListOrphanLockedWorkers

\* A sweep that finds nobody, and a dry run, change nothing.
SweepDiscover ==
  /\ sweep.phase = "idle" /\ FindDeadWorkerIds # {}
  /\ sweep' = [NoSweep EXCEPT !.phase = "found", !.dead = FindDeadWorkerIds]
  /\ UNCHANGED <<store, workers>>

-----------------------------------------------------------------------------
(* Recovery.                                                               *)

DeleteStaleWorkers(W) ==
  workers' = [w \in Worker |-> IF w \in W THEN None ELSE workers[w]]

SweepRecover ==
  /\ sweep.phase = "found" /\ HookResults = {}
  /\ RecoverDeadWorkerJobs(sweep.dead)
  /\ DeleteStaleWorkers(sweep.dead)
  /\ sweep' = NoSweep

\* With a hook, get_locked_jobs_for_recovery reads the jobs without locking them.
SweepList ==
  /\ sweep.phase = "found" /\ HookResults # {}
  /\ sweep' = [sweep EXCEPT !.phase = "listed", !.listed =
       {[job |-> j, previous |-> jobs[j].locked_by, queued |-> jobs[j].queue # None] :
          j \in {i \in DOMAIN jobs : jobs[i].locked_by \in sweep.dead}}]
  /\ UNCHANGED <<store, workers>>

\* set_recovered_job_schedule: an update by id that looks at no lock.
SetRecoveredJobSchedule(row, result) ==
  [row EXCEPT !.due = FALSE, !.attempts = IF result = "reset" THEN 0 ELSE @]

\* apply_job_recovery: row j after the hook answered "result" for worker w's claim.
AppliedRow(j, w, result) ==
  LET mine == jobs[j].locked_by = w
  IN  CASE result = "default" ->
             IF mine THEN [Restored(j) EXCEPT !.due = FALSE] ELSE jobs[j]
        [] result \in {"reschedule", "reset"} ->
             SetRecoveredJobSchedule(IF mine THEN Restored(j) ELSE jobs[j], result)
        [] result = "fail" ->
             IF mine THEN [Unlocked(jobs[j]) EXCEPT !.due = FALSE] ELSE jobs[j]
        [] result = "skip" -> jobs[j]

\* Faulty: failing a recovered job keeps its queue locked.
ReturnReleasesQueue(entry, result) ==
  /\ entry.job \in Held(entry.previous, {entry.job})
  /\ result \notin {"skip", "fail"}

\* fail_job releases the queue only for a claim that had one; returns always do.
ReleasesQueue(entry, result) ==
  /\ entry.job \in Held(entry.previous, {entry.job})
  /\ result # "skip" /\ (result = "fail" => entry.queued)

\* Only queues reached through a listed job are unlocked here.
SweepApply ==
  /\ sweep.phase = "listed"
  /\ \E answer \in [sweep.listed -> HookResults] :
       /\ jobs' = [j \in DOMAIN jobs |->
            IF \E e \in sweep.listed : e.job = j
              THEN LET e == CHOOSE e \in sweep.listed : e.job = j
                   IN  AppliedRow(j, e.previous, answer[e])
              ELSE jobs[j]]
       /\ queues' = [q \in Queue |->
            IF \E e \in sweep.listed :
                 /\ ReleasesQueue(e, answer[e]) /\ jobs[e.job].queue = q
                 /\ queues[q].locked_by = e.previous
              THEN Unheld ELSE queues[q]]
  /\ DeleteStaleWorkers(sweep.dead)
  /\ sweep' = NoSweep
  /\ UNCHANGED <<retirements, nextId>>

\* The sweeper's connection or process dies: PostgreSQL rolls back.
SweepRollback ==
  /\ sweep.phase # "idle"
  /\ sweep' = NoSweep
  /\ UNCHANGED <<store, workers>>
=============================================================================
