----------------------- MODULE FleetRetirementProofs ------------------------
(***************************************************************************)
(* A retired job never becomes available again.                            *)
(*                                                                         *)
(* It may still be locked, so it has to stay exhausted while it runs, not  *)
(* only unavailable.                                                       *)
(***************************************************************************)
EXTENDS FleetTypeProofs

RetiredExhausted == \A j \in retirements : jobs[j].attempts >= jobs[j].max_attempts

NoReset == \A c \in claims : c.stage # "reset"

LEMMA ExhaustedUnavailable ==
  ASSUME StoreTypeOK, RetiredExhausted
  PROVE  RetiredUnavailable /\ \A j \in DOMAIN jobs : IsAvailable(jobs[j]) => j \notin retirements
BY DEF StoreTypeOK, Row, RetiredExhausted, RetiredUnavailable, IsAvailable

\* The step keeps the attempts of retired rows and exhausts the rows it retires.
LEMMA RetiredKept ==
  ASSUME RetiredExhausted, StoreTypeOK, StoreTypeOK',
         \A j \in retirements' :
           \/ /\ j \in retirements /\ jobs'[j].attempts = jobs[j].attempts
              /\ jobs'[j].max_attempts = jobs[j].max_attempts
           \/ jobs'[j].attempts = jobs'[j].max_attempts
  PROVE  RetiredExhausted'
BY DEF RetiredExhausted, StoreTypeOK, Row

LEMMA FailJobRetired ==
  ASSUME StoreTypeOK, RetiredExhausted, NEW w, NEW j, NEW queued, FailJob(w, j, queued)
  PROVE  RetiredExhausted'
<1>1. ASSUME NEW i \in DOMAIN jobs
      PROVE  /\ [Unlocked(jobs[i]) EXCEPT !.due = FALSE].attempts = jobs[i].attempts
             /\ [Unlocked(jobs[i]) EXCEPT !.due = FALSE].max_attempts = jobs[i].max_attempts
  BY UnlockedType DEF StoreTypeOK, Row
<1>2. retirements \subseteq DOMAIN jobs /\ retirements' = retirements
  BY DEF StoreTypeOK, FailJob
<1>3. \A i \in retirements : /\ jobs'[i].attempts = jobs[i].attempts
                             /\ jobs'[i].max_attempts = jobs[i].max_attempts
  BY <1>1, <1>2 DEF FailJob
<1> QED
  BY <1>2, <1>3, FailJobType, RetiredKept

LEMMA ReturnJobsRetired ==
  ASSUME StoreTypeOK, RetiredExhausted, NEW w, NEW S, NEW delayed \in BOOLEAN,
         ReturnJobs(w, S, delayed)
  PROVE  RetiredExhausted'
<1>1. retirements \subseteq DOMAIN jobs /\ retirements' = retirements
  BY DEF StoreTypeOK, ReturnJobs
<1>2. ASSUME NEW i \in retirements
      PROVE  /\ jobs'[i].attempts = jobs[i].attempts
             /\ jobs'[i].max_attempts = jobs[i].max_attempts
  <2> DEFINE due == Restored(i).due /\ ~delayed
  <2>1. /\ Restored(i) \in Row /\ Restored(i).attempts = jobs[i].attempts
        /\ Restored(i).max_attempts = jobs[i].max_attempts
    BY <1>1, RestoredType
  <2>2. jobs'[i] = jobs[i] \/ jobs'[i] = [Restored(i) EXCEPT !.due = due]
    BY <1>1, Zenon DEF ReturnJobs
  <2> HIDE DEF due
  <2> QED
    BY <2>1, <2>2 DEF Row
<1> QED
  BY <1>1, <1>2, ReturnJobsType, RetiredKept

LEMMA RecoverDeadWorkerJobsRetired ==
  ASSUME StoreTypeOK, RetiredExhausted, NEW W, RecoverDeadWorkerJobs(W)
  PROVE  RetiredExhausted'
<1>1. retirements \subseteq DOMAIN jobs /\ retirements' = retirements
  BY DEF StoreTypeOK, RecoverDeadWorkerJobs
<1>2. ASSUME NEW i \in retirements
      PROVE  /\ jobs'[i].attempts = jobs[i].attempts
             /\ jobs'[i].max_attempts = jobs[i].max_attempts
  <2>1. /\ Restored(i) \in Row /\ Restored(i).attempts = jobs[i].attempts
        /\ Restored(i).max_attempts = jobs[i].max_attempts
    BY <1>1, RestoredType
  <2>2. jobs'[i] = jobs[i] \/ jobs'[i] = [Restored(i) EXCEPT !.due = FALSE]
    BY <1>1, Zenon DEF RecoverDeadWorkerJobs
  <2> QED
    BY <2>1, <2>2 DEF Row
<1> QED
  BY <1>1, <1>2, RecoverDeadWorkerJobsType, RetiredKept

LEMMA ClaimJobsRetired ==
  ASSUME StoreTypeOK, RetiredExhausted, NEW w \in Worker, NEW S, S \subseteq Claimable,
         ClaimJobs(w, S)
  PROVE  RetiredExhausted'
<1>1. S \cap retirements = {}
  BY ExhaustedUnavailable DEF Claimable
<1>2. retirements' = retirements /\ \A j \in retirements : jobs'[j] = jobs[j]
  BY Zenon, <1>1 DEF ClaimJobs, StoreTypeOK
<1> QED
  BY <1>2, ClaimJobsType, RetiredKept

LEMMA DeleteRetired ==
  ASSUME StoreTypeOK, StoreTypeOK', RetiredExhausted, NEW S,
         jobs' = [i \in DOMAIN jobs \ S |-> jobs[i]], retirements' = retirements \ S
  PROVE  RetiredExhausted'
<1>1. \A j \in retirements' : j \in retirements /\ jobs'[j] = jobs[j]
  BY DEF StoreTypeOK
<1> QED
  BY <1>1, RetiredKept

LEMMA AddJobRetired ==
  ASSUME StoreTypeOK, RetiredExhausted, AddJob
  PROVE  RetiredExhausted'
<1>1. StoreTypeOK'
  BY AddJobStoreType
<1>2. ASSUME NEW spec \in JobSpecs, NEW due \in BOOLEAN, NEW preserve_run_at \in BOOLEAN,
             AddJobs(spec.key, spec.queue, spec.max_attempts, due, preserve_run_at)
      PROVE  RetiredExhausted'
  <2> DEFINE k       == spec.key
             current == {j \in WithKey(k) : IsAvailable(jobs[j])}
             retired == WithKey(k) \ current
             new     == IF current = {} THEN {nextId} ELSE {}
  <2>1. /\ retirements' = retirements \cup retired
        /\ \A j \in DOMAIN jobs \ new : j \notin current =>
             jobs'[j] = IF j \in retired THEN Superseded(jobs[j]) ELSE jobs[j]
    BY <1>2, Zenon DEF AddJobs
  <2>2. current \cap retirements = {} /\ retirements \subseteq DOMAIN jobs
    BY ExhaustedUnavailable DEF WithKey, StoreTypeOK
  <2>3. retired \subseteq DOMAIN jobs /\ retired \cap current = {}
    BY DEF WithKey
  <2>4. new \cap DOMAIN jobs = {}
    <3> HIDE DEF current
    <3> QED
      BY StoreAssumption DEF StoreTypeOK, JobId
  <2>5. \A j \in DOMAIN jobs : /\ Superseded(jobs[j]).attempts = jobs[j].max_attempts
                              /\ Superseded(jobs[j]).max_attempts = jobs[j].max_attempts
    BY SupersededType DEF StoreTypeOK
  <2> HIDE DEF k, current, retired, new
  <2> QED
    BY <1>1, <2>1, <2>2, <2>3, <2>4, <2>5, RetiredKept
<1>3. ASSUME NEW spec \in JobSpecs, NEW due \in BOOLEAN,
             AddJobUnsafeDedupe(spec.key, spec.queue, spec.max_attempts, due)
      PROVE  RetiredExhausted'
  <2>1. nextId \notin DOMAIN jobs /\ retirements \subseteq DOMAIN jobs
    BY StoreAssumption DEF StoreTypeOK, JobId
  <2>2. retirements' = retirements /\ \A j \in retirements : jobs'[j] = jobs[j]
    BY <1>3, <2>1 DEF AddJobUnsafeDedupe
  <2> QED
    BY <1>1, <2>2, RetiredKept
<1> QED
  BY <1>2, <1>3 DEF AddJob

LEMMA OperateRetired ==
  ASSUME StoreTypeOK, RetiredExhausted, Operate
  PROVE  RetiredExhausted'
<1>1. StoreTypeOK' /\ retirements \subseteq DOMAIN jobs
  BY OperateStoreType DEF StoreTypeOK
<1>2. ASSUME NEW k, RemoveJob(k) PROVE RetiredExhausted'
  <2> DEFINE rows == WithKey(k)
  <2>1. CASE DeleteJobs(rows)
    BY <1>1, <2>1, DeleteRetired DEF DeleteJobs
  <2>2. CASE /\ jobs' = [j \in DOMAIN jobs |->
                            IF j \in rows THEN Superseded(jobs[j]) ELSE jobs[j]]
             /\ retirements' = retirements \cup rows
    <3>1. rows \subseteq DOMAIN jobs
      BY DEF WithKey
    <3>2. \A j \in DOMAIN jobs : /\ Superseded(jobs[j]).attempts = jobs[j].max_attempts
                                /\ Superseded(jobs[j]).max_attempts = jobs[j].max_attempts
      BY SupersededType DEF StoreTypeOK
    <3> HIDE DEF rows
    <3> QED
      BY <1>1, <2>2, <3>1, <3>2, RetiredKept
  <2> QED
    BY <1>2, <2>1, <2>2 DEF RemoveJob
<1>3. ASSUME NEW j \in DOMAIN jobs, PermanentlyFailJobs(j) PROVE RetiredExhausted'
  <2> DEFINE row == [jobs[j] EXCEPT !.attempts = jobs[j].max_attempts]
  <2>1. row.attempts = row.max_attempts
    BY DEF StoreTypeOK, Row
  <2>2. /\ jobs'[j] = row /\ retirements' = retirements \cup {j}
        /\ \A i \in DOMAIN jobs \ {j} : jobs'[i] = jobs[i]
    BY <1>3 DEF PermanentlyFailJobs, StoreTypeOK
  <2> HIDE DEF row
  <2> QED
    BY <1>1, <2>1, <2>2, RetiredKept
<1>4. ASSUME NEW j \in DOMAIN jobs, NEW due, NEW attempts, NEW max,
             RescheduleJobs(j, due, attempts, max)
      PROVE  RetiredExhausted'
  <2>1. /\ retirements' = retirements \ {j}
        /\ \A i \in DOMAIN jobs \ {j} : jobs'[i] = jobs[i]
    BY <1>4 DEF RescheduleJobs, StoreTypeOK
  <2> QED
    BY <1>1, <2>1, RetiredKept
<1>5. ASSUME NEW w \in Worker, ForceUnlockWorkers(w) PROVE RetiredExhausted'
  <2>1. \A j \in DOMAIN jobs : /\ Unlocked(jobs[j]).attempts = jobs[j].attempts
                              /\ Unlocked(jobs[j]).max_attempts = jobs[j].max_attempts
    BY UnlockedType DEF StoreTypeOK
  <2>2. \A j \in retirements : jobs'[j] = jobs[j] \/ jobs'[j] = Unlocked(jobs[j])
    BY <1>1, <1>5 DEF ForceUnlockWorkers
  <2>3. retirements' = retirements
    BY <1>5 DEF ForceUnlockWorkers
  <2> QED
    BY <1>1, <2>1, <2>2, <2>3, RetiredKept
<1>6. ASSUME NEW S, DeleteJobs(S) PROVE RetiredExhausted'
  BY <1>1, <1>6, DeleteRetired DEF DeleteJobs
<1> QED
  BY Zenon, <1>2, <1>3, <1>4, <1>5, <1>6 DEF Operate, CompleteJobs

LEMMA TimeRetired ==
  ASSUME StoreTypeOK, RetiredExhausted, PassTime
  PROVE  RetiredExhausted'
<1>1. StoreTypeOK' /\ retirements \subseteq DOMAIN jobs
  BY TimeType DEF PassTime, StoreTypeOK
<1>2. ASSUME NEW j \in DOMAIN jobs, BecomeDue(j) \/ AgeJobLock(j) PROVE RetiredExhausted'
  <2>1. \A d : /\ [jobs[j] EXCEPT !.due = d].attempts = jobs[j].attempts
               /\ [jobs[j] EXCEPT !.due = d].max_attempts = jobs[j].max_attempts
    BY DEF StoreTypeOK, Row
  <2>2. \A a : /\ [jobs[j] EXCEPT !.age = a].attempts = jobs[j].attempts
               /\ [jobs[j] EXCEPT !.age = a].max_attempts = jobs[j].max_attempts
    BY DEF StoreTypeOK, Row
  <2>3. \E row : /\ row.attempts = jobs[j].attempts /\ row.max_attempts = jobs[j].max_attempts
                 /\ jobs' = [jobs EXCEPT ![j] = row] /\ retirements' = retirements
    BY Zenon, <1>2, <2>1, <2>2 DEF BecomeDue, AgeJobLock
  <2>4. /\ jobs'[j].attempts = jobs[j].attempts /\ jobs'[j].max_attempts = jobs[j].max_attempts
        /\ \A i \in DOMAIN jobs \ {j} : jobs'[i] = jobs[i]
        /\ retirements' = retirements
    BY <2>3 DEF StoreTypeOK
  <2> QED
    BY <1>1, <2>4, RetiredKept
<1>3. ASSUME NEW q \in Queue, AgeQueueLock(q) PROVE RetiredExhausted'
  BY <1>1, <1>3, RetiredKept DEF AgeQueueLock
<1> QED
  BY <1>2, <1>3 DEF PassTime

LEMMA SweepRetired ==
  ASSUME TypeInv, RetiredExhausted, "reset" \notin HookResults, Sweep \/ AbandonSweep
  PROVE  RetiredExhausted'
<1>1. StoreTypeOK /\ StoreTypeOK' /\ retirements \subseteq DOMAIN jobs
  BY SweepType DEF TypeInv, TypeOK, StoreTypeOK
<1>2. CASE SweepRecover
  BY <1>1, <1>2, RecoverDeadWorkerJobsRetired DEF SweepRecover
<1>3. CASE SweepApply
  <2>1. PICK answer \in [sweep.listed -> HookResults] :
          \A j \in DOMAIN jobs :
            IF \E e \in sweep.listed : e.job = j
              THEN \E e \in sweep.listed :
                     e.job = j /\ jobs'[j] = AppliedRow(j, e.previous, answer[e])
              ELSE jobs'[j] = jobs[j]
    BY <1>3, SweepApplyRows
  <2>2. \A e \in sweep.listed : /\ e.previous \in Worker
                                /\ answer[e] \in HookResult /\ answer[e] # "reset"
    BY RecoveryAssumption DEF TypeInv, TypeOK, RecoveryTypeOK, Listed
  <2>3. ASSUME NEW j \in retirements
        PROVE  /\ jobs'[j].attempts = jobs[j].attempts
               /\ jobs'[j].max_attempts = jobs[j].max_attempts
    <3>1. \/ jobs'[j] = jobs[j]
          \/ \E e \in sweep.listed : jobs'[j] = AppliedRow(j, e.previous, answer[e])
      BY <1>1, <2>1, Zenon
    <3> QED
      BY <1>1, <2>2, <3>1, AppliedRowType
  <2>4. retirements' = retirements
    BY <1>3 DEF SweepApply
  <2> QED
    BY <1>1, <2>3, <2>4, RetiredKept
<1>4. CASE UNCHANGED store
  BY <1>4 DEF store, RetiredExhausted
<1> QED
  BY <1>2, <1>3, <1>4 DEF Sweep, AbandonSweep, SweepDiscover, SweepList, SweepRollback

LEMMA ReleaseRetired ==
  ASSUME TypeInv, RetiredExhausted, NoReset, "reset" \notin HookResults, NEW c \in claims,
         \/ ReleaseCompletedJob(c) \/ ReleaseFailedJob(c) \/ ReturnCachedJob(c)
         \/ RecoverShutdownAbortedJob(c) \/ WriteRecoveredSchedule(c) \/ LoseClaim(c)
  PROVE  RetiredExhausted' /\ NoReset'
<1>1. StoreTypeOK /\ StoreTypeOK' /\ retirements \subseteq DOMAIN jobs
  BY ReleaseType DEF TypeInv, TypeOK, StoreTypeOK
<1>2. Forget(c) \/ \E stage \in Stage \ {"reset"} : AtStage(c, stage)
  BY Zenon DEF ReleaseCompletedJob, ReleaseFailedJob, ReturnCachedJob, RecoverShutdownAbortedJob,
         WriteRecoveredSchedule, LoseClaim, Stage
<1>3. NoReset'
  <2>1. \A stage \in Stage \ {"reset"} : [c EXCEPT !.stage = stage].stage # "reset"
    BY DEF TypeInv, TypeOK, Claim
  <2> QED
    BY Zenon, <1>2, <2>1 DEF Forget, AtStage, NoReset
<1>4. CASE ReleaseCompletedJob(c)
  BY <1>1, <1>3, <1>4, DeleteRetired DEF ReleaseCompletedJob, CompleteJob
<1>5. CASE ReleaseFailedJob(c)
  BY <1>1, <1>3, <1>5, FailJobRetired DEF ReleaseFailedJob
<1>6. CASE ReturnCachedJob(c)
  BY Zenon, <1>1, <1>3, <1>6, ReturnJobsRetired DEF ReturnCachedJob
<1>7. CASE UNCHANGED store
  BY <1>3, <1>7 DEF store, RetiredExhausted
<1>8. CASE RecoverShutdownAbortedJob(c)
  BY Zenon, <1>1, <1>3, <1>7, <1>8, ReturnJobsRetired, FailJobRetired DEF RecoverShutdownAbortedJob
<1>9. CASE WriteRecoveredSchedule(c)
  <2>1. c.stage # "reset"
    BY DEF NoReset
  <2>2. \A j \in DOMAIN jobs :
          LET row == SetRecoveredJobSchedule(jobs[j], c.stage)
          IN  row.attempts = jobs[j].attempts /\ row.max_attempts = jobs[j].max_attempts
    BY <2>1, <1>1, SetRecoveredJobScheduleType DEF StoreTypeOK
  <2>3. /\ retirements' = retirements
        /\ \A j \in DOMAIN jobs : \/ jobs'[j] = jobs[j]
                                  \/ jobs'[j] = SetRecoveredJobSchedule(jobs[j], c.stage)
    BY <1>9 DEF WriteRecoveredSchedule
  <2> QED
    BY <1>1, <1>3, <2>2, <2>3, RetiredKept
<1> QED
  BY <1>3, <1>4, <1>5, <1>6, <1>7, <1>8, <1>9 DEF LoseClaim

\* Unless a JobRecovery hook sets the attempts of the job it reschedules, a job
\* that add_jobs replaced, remove_job removed or permanently_fail_jobs failed never
\* becomes available again, whatever late releases, sweeps, unlocks and retries
\* follow: _private_return_jobs and recover_dead_worker_jobs give no attempt back
\* to a retired row.  Nothing is assumed of heartbeats or the age of locks.
THEOREM RetiredStayUnavailable ==
  ASSUME "reset" \notin HookResults
  PROVE  Spec => []RetiredUnavailable
<1> DEFINE RetiredInv == TypeInv /\ RetiredExhausted /\ NoReset
<1>1. Init => RetiredInv
  BY TypeInvInit DEF Init, StoreInit, RetiredExhausted, NoReset
<1>2. RetiredInv /\ [Next]_vars => RetiredInv'
  <2> SUFFICES ASSUME TypeInv, RetiredExhausted, NoReset, [Next]_vars
               PROVE  RetiredExhausted' /\ NoReset'
    BY TypeInvNext
  <2>1. StoreTypeOK
    BY DEF TypeInv, TypeOK
  <2>2. ASSUME NEW w \in Worker, GetJob(w) \/ BatchGetJobs(w)
        PROVE  RetiredExhausted' /\ NoReset'
    <3>1. PICK S \in SUBSET Claimable : Fetch(w, S)
      BY Zenon, <2>2 DEF GetJob, BatchGetJobs
    <3>2. \A c \in NewClaims(w, S) : c.stage # "reset"
      BY DEF NewClaims
    <3> QED
      BY <2>1, <3>1, <3>2, ClaimJobsRetired DEF Fetch, NoReset
  <2>3. ASSUME NEW w \in Worker,
               \/ Start(w) \/ RequestShutdown(w) \/ Deregister(w) \/ Crash(w)
               \/ Heartbeat(w) \/ MissHeartbeat(w)
        PROVE  RetiredExhausted' /\ NoReset'
    <3>1. UNCHANGED store /\ claims' \subseteq claims
      BY <2>3 DEF Start, RequestShutdown, Deregister, Crash, Heartbeat, MissHeartbeat,
                  AgeHeartbeat
    <3> QED
      BY <3>1 DEF store, RetiredExhausted, NoReset
  <2>4. CASE AddJob \/ Operate \/ PassTime
    <3>1. UNCHANGED claims
      BY <2>4 DEF AddJob, Operate, PassTime
    <3> QED
      BY <2>1, <2>4, <3>1, AddJobRetired, OperateRetired, TimeRetired DEF NoReset
  <2>5. CASE Sweep \/ AbandonSweep
    BY <2>5, SweepRetired DEF Sweep, AbandonSweep, NoReset
  <2>6. CASE UNCHANGED vars
    BY <2>6 DEF vars, store, RetiredExhausted, NoReset
  <2> QED
    BY <2>2, <2>3, <2>4, <2>5, <2>6, ReleaseRetired DEF Next
<1>3. RetiredInv => RetiredUnavailable
  BY ExhaustedUnavailable DEF TypeInv, TypeOK
<1> QED
  BY <1>1, <1>2, <1>3, PTL DEF Spec
=============================================================================
