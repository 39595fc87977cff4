-------------------------- MODULE FleetTypeProofs ---------------------------
(***************************************************************************)
(* Type correctness of the fleet, for every set of workers, queues, keys   *)
(* and jobs and every bound.                                               *)
(*                                                                         *)
(* A claim's run number exists because a worker holds fewer claims than    *)
(* MaxClaims when it fetches, which needs the claims to be finite.         *)
(***************************************************************************)
EXTENDS WorkerFleet, JobStoreProofs, FiniteSetTheorems

TypeInv == TypeOK /\ IsFiniteSet(claims)

LEMMA FreshRunType ==
  ASSUME IsFiniteSet(claims), NEW w \in Worker, NEW j,
         Cardinality(ClaimsOf(w)) < MaxClaims
  PROVE  FreshRun(w, j) \in 1..MaxClaims
<1>1. IsFiniteSet(ClaimsOf(w)) /\ Cardinality(ClaimsOf(w)) \in Nat
  BY FS_Subset, FS_CardinalityType DEF ClaimsOf
<1>2. \E n \in 1..MaxClaims : \A c \in ClaimsOf(w) : c.job = j => c.run # n
  <2> SUFFICES ASSUME \A n \in 1..MaxClaims : \E c \in ClaimsOf(w) : c.job = j /\ c.run = n
               PROVE  FALSE
    OBVIOUS
  <2> DEFINE f == [n \in 1..MaxClaims |-> CHOOSE c \in ClaimsOf(w) : c.job = j /\ c.run = n]
  <2>1. \A n \in 1..MaxClaims : f[n] \in ClaimsOf(w) /\ f[n].run = n
    OBVIOUS
  <2>2. f \in Injection(1..MaxClaims, ClaimsOf(w))
    BY <2>1 DEF Injection, IsInjective
  <2>3. Cardinality(1..MaxClaims) <= Cardinality(ClaimsOf(w))
    BY <1>1, <2>2, FS_Injection
  <2>4. Cardinality(1..MaxClaims) = MaxClaims
    BY FS_Interval, FleetAssumption
  <2> QED
    BY <1>1, <2>3, <2>4, FleetAssumption
<1> QED
  BY <1>2 DEF FreshRun

LEMMA FetchType ==
  ASSUME TypeInv, NEW w \in Worker, NEW S, S \subseteq Claimable, S # {}, Fetch(w, S)
  PROVE  TypeInv'
<1>1. StoreTypeOK'
  BY ClaimJobsType DEF Fetch, TypeInv, TypeOK
<1>2. S \subseteq JobId /\ IsFiniteSet(S)
  <2>1. S \subseteq 1..MaxJobs
    BY DEF Claimable, TypeInv, TypeOK, StoreTypeOK, JobId
  <2>2. IsFiniteSet(1..MaxJobs)
    BY FS_Interval, StoreAssumption
  <2> QED
    BY Zenon, <2>1, <2>2, FS_Subset DEF JobId
<1>3. Cardinality(ClaimsOf(w)) < MaxClaims
  <2>1. Cardinality(S) \in Nat /\ Cardinality(S) # 0
    BY <1>2, FS_CardinalityType, FS_EmptySet
  <2>2. Cardinality(ClaimsOf(w)) \in Nat
    BY FS_Subset, FS_CardinalityType DEF ClaimsOf, TypeInv
  <2>3. Cardinality(ClaimsOf(w)) + Cardinality(S) <= MaxClaims
    BY DEF Fetch
  <2> QED
    BY <2>1, <2>2, <2>3, FleetAssumption
<1>4. \A j \in S : FreshRun(w, j) \in 1..MaxClaims
  BY <1>3, FreshRunType DEF TypeInv
<1> DEFINE new == [j \in S |-> [worker |-> w, job |-> j, run |-> FreshRun(w, j),
                                queued |-> jobs[j].queue # None, stage |-> "held"]]
<1>5. NewClaims(w, S) \subseteq Claim
  <2> SUFFICES ASSUME NEW j \in S PROVE new[j] \in Claim
    BY Zenon DEF NewClaims
  <2> QED
    BY <1>2, <1>4 DEF Claim, Stage
<1>6. IsFiniteSet(NewClaims(w, S))
  <2>1. new \in Surjection(S, NewClaims(w, S))
    BY Zenon DEF Surjection, NewClaims
  <2> QED
    BY <1>2, <2>1, FS_Surjection
<1>7. claims' \subseteq Claim /\ IsFiniteSet(claims')
  BY Zenon, <1>5, <1>6, FS_Union DEF Fetch, TypeInv, TypeOK
<1> QED
  BY <1>1, <1>7 DEF TypeInv, TypeOK, RecoveryTypeOK, Fetch, recoveryVars

LEMMA ClaimStepType ==
  ASSUME TypeInv, NEW c \in claims,
         claims' = claims \ {c} \/
           \E stage \in Stage : claims' = (claims \ {c}) \cup {[c EXCEPT !.stage = stage]}
  PROVE  claims' \subseteq Claim /\ IsFiniteSet(claims')
<1>1. IsFiniteSet(claims \ {c})
  BY FS_Subset DEF TypeInv
<1>2. CASE claims' = claims \ {c}
  BY <1>1, <1>2 DEF TypeInv, TypeOK
<1>3. ASSUME NEW stage \in Stage, claims' = (claims \ {c}) \cup {[c EXCEPT !.stage = stage]}
      PROVE  claims' \subseteq Claim /\ IsFiniteSet(claims')
  <2>1. [c EXCEPT !.stage = stage] \in Claim
    BY DEF TypeInv, TypeOK, Claim
  <2>2. IsFiniteSet(claims')
    BY Zenon, <1>1, <1>3, FS_AddElement
  <2> QED
    BY <1>3, <2>1, <2>2 DEF TypeInv, TypeOK
<1> QED
  BY <1>2, <1>3

LEMMA SetRecoveredJobScheduleType ==
  ASSUME NEW row \in Row, NEW result
  PROVE  /\ SetRecoveredJobSchedule(row, result) \in Row
         /\ SetRecoveredJobSchedule(row, result).locked_by = row.locked_by
         /\ SetRecoveredJobSchedule(row, result).queue = row.queue
         /\ SetRecoveredJobSchedule(row, result).age = row.age
         /\ SetRecoveredJobSchedule(row, result).max_attempts = row.max_attempts
         /\ result # "reset" => SetRecoveredJobSchedule(row, result).attempts = row.attempts
<1>1. (IF result = "reset" THEN 0 ELSE row.attempts) \in 0..MaxAttempts
  BY StoreAssumption DEF Row
<1>2. [row EXCEPT !.due = FALSE] \in Row /\ [row EXCEPT !.due = FALSE].attempts = row.attempts
  BY Zenon, ColumnType DEF Row
<1>3. SetRecoveredJobSchedule(row, result) \in Row
  BY <1>1, <1>2, ColumnType, Zenon DEF SetRecoveredJobSchedule
<1> QED
  BY <1>3 DEF SetRecoveredJobSchedule, Row

\* What apply_job_recovery does to a row: answers other than "skip" unlock it if
\* the dead worker still has it, and no answer locks or moves it.
LEMMA AppliedRowType ==
  ASSUME StoreTypeOK, NEW j \in DOMAIN jobs, NEW w \in Worker, NEW result \in HookResult
  PROVE  LET row == AppliedRow(j, w, result)
         IN  /\ row \in Row
             /\ row.queue = jobs[j].queue
             /\ row.locked_by = IF jobs[j].locked_by = w /\ result # "skip"
                                  THEN None ELSE jobs[j].locked_by
             /\ row.age = 2 => jobs[j].age = 2
             /\ row.max_attempts = jobs[j].max_attempts
             /\ result # "reset" /\ j \in retirements => row.attempts = jobs[j].attempts
<1>1. jobs[j] \in Row
  BY DEF StoreTypeOK
<1>2. CASE result = "default"
  <2> DEFINE row == [Restored(j) EXCEPT !.due = FALSE]
  <2>1. AppliedRow(j, w, result) = IF jobs[j].locked_by = w THEN row ELSE jobs[j]
    BY <1>2 DEF AppliedRow
  <2>2. Restored(j) \in Row
    BY <1>1, RestoredType
  <2>3. row \in Row
    BY <2>2, ColumnType, Zenon
  <2>4. /\ row.queue = Restored(j).queue /\ row.locked_by = Restored(j).locked_by
        /\ row.age = Restored(j).age /\ row.attempts = Restored(j).attempts
        /\ row.max_attempts = Restored(j).max_attempts
    BY <2>2 DEF Row
  <2> HIDE DEF row
  <2>5. /\ row.queue = jobs[j].queue /\ row.locked_by = None /\ row.age = 0
        /\ row.max_attempts = jobs[j].max_attempts
        /\ j \in retirements => row.attempts = jobs[j].attempts
    BY <1>1, <2>4, RestoredType, ReleasedRow
  <2> QED
    BY <1>1, <1>2, <2>1, <2>3, <2>5
<1>3. CASE result \in {"reschedule", "reset"}
  <2>1. AppliedRow(j, w, result) =
          SetRecoveredJobSchedule(IF jobs[j].locked_by = w THEN Restored(j) ELSE jobs[j], result)
    BY <1>3 DEF AppliedRow
  <2>2. CASE jobs[j].locked_by = w
    BY <1>3, <2>1, <2>2, RestoredType, ReleasedRow, SetRecoveredJobScheduleType
  <2>3. CASE jobs[j].locked_by # w
    BY <1>1, <1>3, <2>1, <2>3, SetRecoveredJobScheduleType
  <2> QED
    BY <2>2, <2>3
<1>4. CASE result = "fail"
  <2> DEFINE row == [Unlocked(jobs[j]) EXCEPT !.due = FALSE]
  <2>1. AppliedRow(j, w, result) = IF jobs[j].locked_by = w THEN row ELSE jobs[j]
    BY <1>4 DEF AppliedRow
  <2>2. Unlocked(jobs[j]) \in Row
    BY <1>1, UnlockedType
  <2>3. row \in Row
    BY <2>2, ColumnType, Zenon
  <2>4. /\ row.queue = Unlocked(jobs[j]).queue /\ row.locked_by = Unlocked(jobs[j]).locked_by
        /\ row.age = Unlocked(jobs[j]).age /\ row.attempts = Unlocked(jobs[j]).attempts
        /\ row.max_attempts = Unlocked(jobs[j]).max_attempts
    BY <2>2 DEF Row
  <2> HIDE DEF row
  <2>5. /\ row.queue = jobs[j].queue /\ row.locked_by = None /\ row.age = 0
        /\ row.max_attempts = jobs[j].max_attempts
        /\ j \in retirements => row.attempts = jobs[j].attempts
    BY <1>1, <2>4, UnlockedType, ReleasedRow
  <2> QED
    BY <1>1, <1>4, <2>1, <2>3, <2>5
<1>5. CASE result = "skip"
  <2>1. AppliedRow(j, w, result) = jobs[j]
    BY <1>5 DEF AppliedRow
  <2> QED
    BY <1>1, <1>5, <2>1
<1> QED
  BY <1>2, <1>3, <1>4, <1>5 DEF HookResult

LEMMA SweepApplyRows ==
  ASSUME TypeInv, SweepApply
  PROVE  \E answer \in [sweep.listed -> HookResults] :
           /\ jobs' = [j \in DOMAIN jobs |-> jobs'[j]]
           /\ \A j \in DOMAIN jobs :
                IF \E e \in sweep.listed : e.job = j
                  THEN \E e \in sweep.listed :
                         e.job = j /\ jobs'[j] = AppliedRow(j, e.previous, answer[e])
                  ELSE jobs'[j] = jobs[j]
           /\ \A q \in Queue : queues'[q] =
                IF \E e \in sweep.listed :
                     /\ ReleasesQueue(e, answer[e]) /\ jobs[e.job].queue = q
                     /\ queues[q].locked_by = e.previous
                  THEN Unheld ELSE queues[q]
<1>1. PICK answer \in [sweep.listed -> HookResults] :
        /\ jobs' = [j \in DOMAIN jobs |->
             IF \E e \in sweep.listed : e.job = j
               THEN LET e == CHOOSE e \in sweep.listed : e.job = j
                    IN  AppliedRow(j, e.previous, answer[e])
               ELSE jobs[j]]
        /\ queues' = [q \in Queue |->
             IF \E e \in sweep.listed :
                  /\ ReleasesQueue(e, answer[e]) /\ jobs[e.job].queue = q
                  /\ queues[q].locked_by = e.previous
               THEN Unheld ELSE queues[q]]
  BY Zenon DEF SweepApply
<1>2. ASSUME NEW j \in DOMAIN jobs, \E e \in sweep.listed : e.job = j
      PROVE  \E e \in sweep.listed :
               e.job = j /\ jobs'[j] = AppliedRow(j, e.previous, answer[e])
  <2> DEFINE e == CHOOSE e \in sweep.listed : e.job = j
  <2>1. e \in sweep.listed /\ e.job = j
    BY <1>2
  <2>2. jobs'[j] = AppliedRow(j, e.previous, answer[e])
    BY <1>1, <1>2, Zenon
  <2> HIDE DEF e
  <2> QED
    BY <2>1, <2>2
<1>3. jobs' = [j \in DOMAIN jobs |-> jobs'[j]]
  BY <1>1, Zenon
<1>4. \A j \in DOMAIN jobs : ~(\E e \in sweep.listed : e.job = j) => jobs'[j] = jobs[j]
  BY <1>1, Zenon
<1>5. \A q \in Queue : queues'[q] =
        IF \E e \in sweep.listed :
             /\ ReleasesQueue(e, answer[e]) /\ jobs[e.job].queue = q
             /\ queues[q].locked_by = e.previous
          THEN Unheld ELSE queues[q]
  BY <1>1, Zenon
<1> QED
  BY <1>2, <1>3, <1>4, <1>5

LEMMA SweepApplyType ==
  ASSUME TypeInv, SweepApply
  PROVE  StoreTypeOK'
<1>1. PICK answer \in [sweep.listed -> HookResults] :
           /\ jobs' = [j \in DOMAIN jobs |-> jobs'[j]]
           /\ \A j \in DOMAIN jobs :
                IF \E e \in sweep.listed : e.job = j
                  THEN \E e \in sweep.listed :
                         e.job = j /\ jobs'[j] = AppliedRow(j, e.previous, answer[e])
                  ELSE jobs'[j] = jobs[j]
           /\ \A q \in Queue : queues'[q] =
                IF \E e \in sweep.listed :
                     /\ ReleasesQueue(e, answer[e]) /\ jobs[e.job].queue = q
                     /\ queues[q].locked_by = e.previous
                  THEN Unheld ELSE queues[q]
  BY SweepApplyRows
<1>2. \A e \in sweep.listed : e.previous \in Worker /\ answer[e] \in HookResult
  BY RecoveryAssumption DEF TypeInv, TypeOK, RecoveryTypeOK, Listed
<1>3. ASSUME NEW j \in DOMAIN jobs PROVE jobs'[j] \in Row
  <2>1. \/ jobs'[j] = jobs[j]
        \/ \E e \in sweep.listed : jobs'[j] = AppliedRow(j, e.previous, answer[e])
    BY <1>1, Zenon
  <2>2. StoreTypeOK /\ jobs[j] \in Row
    BY DEF TypeInv, TypeOK, StoreTypeOK
  <2> QED
    BY <1>2, <2>1, <2>2, AppliedRowType
<1>4. jobs' \in [DOMAIN jobs -> Row]
  <2>1. jobs' = [j \in DOMAIN jobs |-> jobs'[j]]
    BY <1>1
  <2> QED
    BY <1>3, <2>1, Zenon
<1>5. queues' \in [Queue -> Lock]
  BY <1>1 DEF SweepApply, TypeInv, TypeOK, StoreTypeOK, Lock, Unheld
<1> QED
  BY <1>1, <1>4, <1>5 DEF SweepApply, TypeInv, TypeOK, StoreTypeOK

LEMMA WriteRecoveredScheduleType ==
  ASSUME TypeInv, NEW c \in claims, WriteRecoveredSchedule(c)
  PROVE  StoreTypeOK'
<1>1. \A j \in DOMAIN jobs : SetRecoveredJobSchedule(jobs[j], c.stage) \in Row
  BY SetRecoveredJobScheduleType DEF TypeInv, TypeOK, StoreTypeOK
<1>2. jobs' \in [DOMAIN jobs -> Row]
  BY <1>1 DEF WriteRecoveredSchedule, TypeInv, TypeOK, StoreTypeOK
<1> QED
  BY <1>2 DEF WriteRecoveredSchedule, TypeInv, TypeOK, StoreTypeOK

\* Steps that only release, by the claim that ends or changes its stage.
LEMMA ReleaseType ==
  ASSUME TypeInv, NEW c \in claims,
         \/ ReleaseCompletedJob(c) \/ ReleaseFailedJob(c) \/ ReturnCachedJob(c)
         \/ RecoverShutdownAbortedJob(c) \/ WriteRecoveredSchedule(c) \/ LoseClaim(c)
  PROVE  TypeInv'
<1>1. StoreTypeOK
  BY DEF TypeInv, TypeOK
<1>2. StoreTypeOK'
  <2>1. CASE ReleaseCompletedJob(c)
    BY <1>1, <2>1, CompleteJobType DEF ReleaseCompletedJob
  <2>2. CASE ReleaseFailedJob(c)
    BY <1>1, <2>2, FailJobType DEF ReleaseFailedJob
  <2>3. CASE ReturnCachedJob(c)
    BY Zenon, <1>1, <2>3, ReturnJobsType DEF ReturnCachedJob
  <2>4. CASE RecoverShutdownAbortedJob(c)
    BY Zenon, <1>1, <2>4, ReturnJobsType, FailJobType, StoreStutterType
       DEF RecoverShutdownAbortedJob
  <2>5. CASE WriteRecoveredSchedule(c)
    BY <2>5, WriteRecoveredScheduleType
  <2>6. CASE LoseClaim(c)
    BY <1>1, <2>6, StoreStutterType DEF LoseClaim
  <2> QED
    BY <2>1, <2>2, <2>3, <2>4, <2>5, <2>6
<1>3. Forget(c) \/ \E stage \in Stage : AtStage(c, stage)
  BY Zenon DEF ReleaseCompletedJob, ReleaseFailedJob, ReturnCachedJob, RecoverShutdownAbortedJob,
         WriteRecoveredSchedule, LoseClaim, Stage
<1>4. claims' \subseteq Claim /\ IsFiniteSet(claims')
  BY <1>3, ClaimStepType, Zenon DEF Forget, AtStage
<1>5. UNCHANGED <<workers, sweep, proc>>
  BY <1>3 DEF Forget, AtStage, recoveryVars
<1> QED
  BY <1>2, <1>4, <1>5 DEF TypeInv, TypeOK, RecoveryTypeOK

LEMMA AddJobStoreType ==
  ASSUME StoreTypeOK, AddJob
  PROVE  StoreTypeOK'
BY AddJobsType, AddJobUnsafeDedupeType, FleetAssumption DEF AddJob

LEMMA OperateStoreType ==
  ASSUME StoreTypeOK, Operate
  PROVE  StoreTypeOK'
BY Zenon, RemoveJobType, DeleteJobsType, PermanentlyFailJobsType, RescheduleJobsType,
   ForceUnlockWorkersType DEF Operate, CompleteJobs

LEMMA SweepType ==
  ASSUME TypeInv, Sweep \/ AbandonSweep
  PROVE  TypeInv'
<1>1. UNCHANGED <<claims, proc>>
  BY DEF Sweep, AbandonSweep
<1>2. NoSweep \in [phase : {"idle", "found", "listed"}, dead : SUBSET Worker,
                  listed : SUBSET Listed]
  BY DEF NoSweep
<1>3. CASE SweepDiscover
  <2>1. FindDeadWorkerIds \subseteq Worker
    BY DEF FindDeadWorkerIds, ListStaleWorkers, ListOrphanLockedWorkers
  <2>2. sweep' = [phase |-> "found", dead |-> FindDeadWorkerIds, listed |-> {}]
    BY Zenon, <1>3 DEF SweepDiscover, NoSweep
  <2>3. StoreTypeOK'
    BY <1>3, StoreStutterType DEF SweepDiscover, TypeInv, TypeOK
  <2> QED
    BY <1>1, <1>3, <2>1, <2>2, <2>3 DEF TypeInv, TypeOK, RecoveryTypeOK, SweepDiscover
<1>4. CASE SweepRecover
  <2>1. StoreTypeOK'
    BY <1>4, RecoverDeadWorkerJobsType DEF SweepRecover, TypeInv, TypeOK
  <2> QED
    BY <1>1, <1>2, <1>4, <2>1
       DEF SweepRecover, TypeInv, TypeOK, RecoveryTypeOK, DeleteStaleWorkers
<1>5. CASE SweepList
  <2> DEFINE entry(j) == [job |-> j, previous |-> jobs[j].locked_by,
                          queued |-> jobs[j].queue # None]
  <2>1. \A j \in DOMAIN jobs : jobs[j].locked_by \in sweep.dead => entry(j) \in Listed
    BY DEF TypeInv, TypeOK, StoreTypeOK, RecoveryTypeOK, Listed
  <2>2. {entry(j) : j \in {i \in DOMAIN jobs : jobs[i].locked_by \in sweep.dead}} \subseteq Listed
    BY <2>1, Zenon
  <2>3. sweep' \in [phase : {"idle", "found", "listed"}, dead : SUBSET Worker,
                    listed : SUBSET Listed]
    BY Zenon, <1>5, <2>2 DEF SweepList, TypeInv, TypeOK, RecoveryTypeOK
  <2>4. StoreTypeOK'
    BY <1>5, StoreStutterType DEF SweepList, TypeInv, TypeOK
  <2> QED
    BY Zenon, <1>1, <1>5, <2>3, <2>4 DEF SweepList, TypeInv, TypeOK, RecoveryTypeOK
<1>6. CASE SweepApply
  <2>1. StoreTypeOK'
    BY <1>6, SweepApplyType
  <2> QED
    BY <1>1, <1>2, <1>6, <2>1
       DEF SweepApply, TypeInv, TypeOK, RecoveryTypeOK, DeleteStaleWorkers
<1>7. CASE SweepRollback
  <2>1. StoreTypeOK'
    BY <1>7, StoreStutterType DEF SweepRollback, TypeInv, TypeOK
  <2> QED
    BY <1>1, <1>2, <1>7, <2>1 DEF SweepRollback, TypeInv, TypeOK, RecoveryTypeOK
<1> QED
  BY <1>3, <1>4, <1>5, <1>6, <1>7 DEF Sweep, AbandonSweep

LEMMA ProcessType ==
  ASSUME TypeInv, NEW w \in Worker,
         \/ Start(w) \/ RequestShutdown(w) \/ Deregister(w) \/ Crash(w)
         \/ Heartbeat(w) \/ MissHeartbeat(w)
  PROVE  TypeInv'
<1>1. UNCHANGED store
  BY DEF Start, RequestShutdown, Deregister, Crash, Heartbeat, MissHeartbeat, AgeHeartbeat
<1>2. StoreTypeOK'
  BY <1>1, StoreStutterType DEF TypeInv, TypeOK
<1>3. claims' \subseteq claims
  BY DEF Start, RequestShutdown, Deregister, Crash, Heartbeat, MissHeartbeat
<1>4. claims' \subseteq Claim /\ IsFiniteSet(claims')
  BY <1>3, FS_Subset DEF TypeInv, TypeOK
<1>5. proc' \in [Worker -> {"new", "up", "stopping", "down"}] /\ UNCHANGED sweep
  BY DEF Start, RequestShutdown, Deregister, Crash, Heartbeat, MissHeartbeat, AgeHeartbeat,
         recoveryVars, TypeInv, TypeOK
<1>6. workers' \in [Worker -> {None} \cup 0..2]
  BY DEF Start, RequestShutdown, Deregister, Crash, Heartbeat, MissHeartbeat, AgeHeartbeat,
         WorkerHeartbeat, WorkerDeregister, recoveryVars, TypeInv, TypeOK, RecoveryTypeOK
<1> QED
  BY <1>2, <1>4, <1>5, <1>6 DEF TypeInv, TypeOK, RecoveryTypeOK

LEMMA TypeInvInit == ASSUME Init PROVE TypeInv
BY StoreInitType, FS_EmptySet
   DEF Init, TypeInv, TypeOK, RecoveryInit, RecoveryTypeOK, NoSweep

LEMMA TypeInvNext == ASSUME TypeInv, [Next]_vars PROVE TypeInv'
<1>1. ASSUME NEW w \in Worker, GetJob(w) \/ BatchGetJobs(w)
      PROVE  TypeInv'
  <2>1. CASE GetJob(w)
    BY <2>1, FetchType DEF GetJob
  <2>2. CASE BatchGetJobs(w)
    <3>1. PICK S \in SUBSET Claimable : Cardinality(S) > 1 /\ Fetch(w, S)
      BY <2>2 DEF BatchGetJobs
    <3>2. S # {}
      BY <3>1, FS_EmptySet
    <3> QED
      BY <3>1, <3>2, FetchType
  <2> QED
    BY <1>1, <2>1, <2>2
<1>2. CASE AddJob \/ Operate \/ PassTime
  <2>1. StoreTypeOK'
    BY <1>2, AddJobStoreType, OperateStoreType, TimeType DEF PassTime, TypeInv, TypeOK
  <2>2. UNCHANGED <<workers, sweep, claims, proc>>
    BY <1>2 DEF AddJob, Operate, PassTime, recoveryVars
  <2> QED
    BY <2>1, <2>2 DEF TypeInv, TypeOK, RecoveryTypeOK
<1>3. CASE UNCHANGED vars
  <2>1. StoreTypeOK'
    BY <1>3, StoreStutterType DEF vars, TypeInv, TypeOK
  <2> QED
    BY <1>3, <2>1 DEF vars, recoveryVars, TypeInv, TypeOK, RecoveryTypeOK
<1> QED
  BY <1>1, <1>2, <1>3, ProcessType, ReleaseType, SweepType DEF Next

\* The tables, heartbeats, sweeps and claims keep their types: claims never count
\* a job's attempts past the largest max_attempts, retirement markers refer to
\* rows, and no late worker, sweep or operator writes an ill-formed row.
THEOREM TypeCorrect == Spec => []TypeOK
<1>1. Init => TypeInv
  BY TypeInvInit
<1>2. TypeInv /\ [Next]_vars => TypeInv'
  BY TypeInvNext
<1>3. TypeInv => TypeOK
  BY DEF TypeInv
<1> QED
  BY <1>1, <1>2, <1>3, PTL DEF Spec
=============================================================================
