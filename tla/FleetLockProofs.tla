-------------------------- MODULE FleetLockProofs ---------------------------
(***************************************************************************)
(* Locks in a reliable fleet: every claim stands for a lock of its worker, *)
(* and the jobs of a queue are locked one at a time.                       *)
(*                                                                         *)
(* Whatever is not a fetch only releases locks, so the argument is about   *)
(* the claims on the jobs that a step releases.                            *)
(***************************************************************************)
EXTENDS FleetTypeProofs

Registered == \A w \in Worker : Running(w) => workers[w] = 0

\* A worker that has not started has no row and no locks.
Unstarted ==
  \A w \in Worker : proc[w] = "new" =>
    workers[w] = None /\ \A j \in DOMAIN jobs : jobs[j].locked_by # w

LiveClaims == \A c \in claims : Running(c.worker)

\* The copy a claim keeps agrees with the row as long as the claim is held.
HeldClaims ==
  \A c \in claims : c.stage = "held" =>
    /\ c.job \in DOMAIN jobs /\ jobs[c.job].locked_by = c.worker
    /\ c.queued <=> jobs[c.job].queue # None

\* A return that is sent again finds nothing to release.
SentClaims ==
  \A c \in claims : c.stage = "returning" /\ c.job \in DOMAIN jobs =>
    jobs[c.job].locked_by # c.worker

\* What a sweep with a hook has read is still true of the jobs it will release.
SweepInv ==
  /\ SweptWorkersStopped
  /\ \A e \in sweep.listed :
       /\ e.previous \in sweep.dead
       /\ e.job \in DOMAIN jobs /\ jobs[e.job].locked_by = e.previous =>
            (e.queued <=> jobs[e.job].queue # None)
  /\ \A e, f \in sweep.listed : e.job = f.job => e = f

FleetInv ==
  /\ TypeInv /\ StoreInv /\ Registered /\ Unstarted
  /\ LiveClaims /\ HeldClaims /\ SingleClaim /\ SentClaims /\ SweepInv

\* A step that releases D keeps the invariant if no claim on D stays held.  It may
\* be the last step of a sweep.
LEMMA ReleaseKeepsFleetInv ==
  ASSUME FleetInv, TypeInv', NEW D, Releases(D), UNCHANGED proc,
         \/ UNCHANGED <<workers, sweep>>
         \/ DeleteStaleWorkers(sweep.dead) /\ sweep' = NoSweep,
         \A c \in claims' :
           \/ c \in claims /\ (c.stage = "held" => c.job \notin D)
           \/ Running(c.worker) /\ c.stage \in {"reschedule", "reset"}
           \/ /\ Running(c.worker) /\ c.stage = "returning"
              /\ c.job \in DOMAIN jobs' => jobs'[c.job].locked_by # c.worker
  PROVE  FleetInv'
<1>1. StoreInv'
  BY ReleasesKeepStoreInv DEF FleetInv, TypeInv, TypeOK
<1>2. \A j \in DOMAIN jobs' : jobs'[j].locked_by # None =>
        /\ j \in DOMAIN jobs \ D /\ jobs'[j].locked_by = jobs[j].locked_by
        /\ jobs'[j].queue = jobs[j].queue
  BY DEF Releases, Locked
<1>3. \A j \in DOMAIN jobs \ D : jobs[j].locked_by # None =>
        /\ j \in DOMAIN jobs' /\ jobs'[j].locked_by = jobs[j].locked_by
        /\ jobs'[j].queue = jobs[j].queue
  BY DEF Releases, Locked
<1>4. None \notin Worker /\ \A c \in claims : c.worker \in Worker
  BY StoreAssumption DEF FleetInv, TypeInv, TypeOK, Claim
<1>5. Registered'
  BY DEF FleetInv, Registered, Running, DeleteStaleWorkers, SweepInv, SweptWorkersStopped
<1>6. Unstarted'
  BY <1>2, <1>4 DEF FleetInv, Unstarted, DeleteStaleWorkers
<1>7. LiveClaims'
  BY DEF FleetInv, LiveClaims, Running
<1>8. HeldClaims'
  BY <1>3, <1>4 DEF FleetInv, HeldClaims
<1>9. SingleClaim'
  BY DEF FleetInv, SingleClaim
<1>10. SentClaims'
  BY <1>2, <1>4 DEF FleetInv, SentClaims
<1>11. SweepInv'
  <2>1. \A e \in sweep.listed : e.previous # None
    BY <1>4 DEF FleetInv, TypeInv, TypeOK, RecoveryTypeOK, Listed
  <2> QED
    BY <1>2, <2>1 DEF FleetInv, SweepInv, SweptWorkersStopped, NoSweep
<1> QED
  BY <1>1, <1>5, <1>6, <1>7, <1>8, <1>9, <1>10, <1>11 DEF FleetInv

LEMMA ReleaseFleetInv ==
  ASSUME FleetInv, TypeInv', NEW c \in claims,
         \/ ReleaseCompletedJob(c) \/ ReleaseFailedJob(c) \/ ReturnCachedJob(c)
         \/ RecoverShutdownAbortedJob(c) \/ WriteRecoveredSchedule(c) \/ LoseClaim(c)
  PROVE  FleetInv'
<1>1. /\ StoreInv /\ Running(c.worker)
      /\ c \in Claim /\ c.worker \in Worker /\ c.worker # None
  BY StoreAssumption DEF FleetInv, LiveClaims, TypeInv, TypeOK, Claim
<1>2. c.stage = "held" =>
        /\ c.job \in DOMAIN jobs /\ jobs[c.job].locked_by = c.worker
        /\ c.queued <=> jobs[c.job].queue # None
        /\ \A d \in claims \ {c} : d.stage = "held" => d.job # c.job
  BY DEF FleetInv, HeldClaims, SingleClaim
<1>3. ASSUME Forget(c), NEW D, D \subseteq {c.job}, Releases(D),
             D # {} => c.stage = "held"
      PROVE  FleetInv'
  <2>1. UNCHANGED <<workers, sweep, proc>> /\ claims' = claims \ {c}
    BY <1>3 DEF Forget, recoveryVars
  <2> QED
    BY <1>2, <1>3, <2>1, ReleaseKeepsFleetInv
<1>4. ASSUME NEW stage \in {"returning", "reschedule", "reset"}, AtStage(c, stage),
             NEW D, D \subseteq {c.job}, Releases(D), D # {} => c.stage = "held",
             stage = "returning" /\ c.job \in DOMAIN jobs' => jobs'[c.job].locked_by # c.worker
      PROVE  FleetInv'
  <2> DEFINE d == [c EXCEPT !.stage = stage]
  <2>1. UNCHANGED <<workers, sweep, proc>> /\ claims' = (claims \ {c}) \cup {d}
    BY <1>4 DEF AtStage, recoveryVars
  <2>2. d.worker = c.worker /\ d.job = c.job /\ d.stage = stage
    BY <1>1 DEF Claim
  <2> HIDE DEF d
  <2> QED
    BY <1>1, <1>2, <1>4, <2>1, <2>2, ReleaseKeepsFleetInv
<1>5. ASSUME NEW delayed \in BOOLEAN, ReturnJobs(c.worker, {c.job}, delayed),
             c.stage \in {"held", "returning"}
      PROVE  /\ Releases(Held(c.worker, {c.job}))
             /\ Held(c.worker, {c.job}) \subseteq {c.job}
             /\ Held(c.worker, {c.job}) # {} => c.stage = "held"
             /\ c.job \in DOMAIN jobs' => jobs'[c.job].locked_by # c.worker
  <2>1. Releases(Held(c.worker, {c.job}))
    BY <1>1, <1>5, ReturnJobsReleases
  <2>2. Held(c.worker, {c.job}) # {} => c.stage = "held"
    BY <1>5 DEF Held, FleetInv, SentClaims
  <2> QED
    BY Zenon, <1>1, <2>1, <2>2 DEF Held, Releases, Locked
<1>6. UNCHANGED store => Releases({})
  BY NoLockTouched DEF store, Locked
<1>7. CASE ReleaseCompletedJob(c)
  <2>1. Releases({c.job})
    BY <1>1, <1>2, <1>7, CompleteJobReleases DEF ReleaseCompletedJob
  <2> QED
    BY <1>3, <1>7, <2>1 DEF ReleaseCompletedJob
<1>8. ASSUME FailJob(c.worker, c.job, c.queued), c.stage = "held", Forget(c)
      PROVE  FleetInv'
  <2>1. Releases({c.job})
    BY <1>1, <1>2, <1>8, FailJobReleases
  <2> QED
    BY <1>3, <1>8, <2>1
<1>9. CASE ReturnCachedJob(c)
  BY Zenon, <1>3, <1>4, <1>5, <1>9 DEF ReturnCachedJob
<1>10. CASE RecoverShutdownAbortedJob(c)
  BY Zenon, <1>3, <1>4, <1>5, <1>6, <1>8, <1>10 DEF RecoverShutdownAbortedJob
<1>11. CASE WriteRecoveredSchedule(c)
  <2>1. ASSUME NEW j \in DOMAIN jobs
        PROVE  LET row == SetRecoveredJobSchedule(jobs[j], c.stage)
               IN  /\ row.locked_by = jobs[j].locked_by /\ row.queue = jobs[j].queue
                   /\ row.age = jobs[j].age
    BY SetRecoveredJobScheduleType DEF FleetInv, StoreInv, StoreTypeOK
  <2>2. Releases({})
    BY <1>11, <2>1, NoLockTouched DEF WriteRecoveredSchedule, Locked
  <2> QED
    BY Zenon, <1>3, <1>11, <2>2 DEF WriteRecoveredSchedule
<1>12. CASE LoseClaim(c)
  BY <1>3, <1>6, <1>12 DEF LoseClaim
<1> QED
  BY <1>7, <1>8, <1>9, <1>10, <1>11, <1>12 DEF ReleaseFailedJob

\* Claiming rows of free queues: the new claims agree with the rows, no older
\* claim is on them, and no return of the worker is unanswered.
LEMMA FetchFleetInv ==
  ASSUME FleetInv, TypeInv', NEW w \in Worker, NEW S, S \subseteq Claimable, OnePerQueue(S),
         Fetch(w, S)
  PROVE  FleetInv'
<1>1. /\ StoreInv'
      /\ DOMAIN jobs' = DOMAIN jobs
      /\ \A j \in DOMAIN jobs :
           /\ jobs'[j].queue = jobs[j].queue
           /\ jobs'[j].locked_by = IF j \in S THEN w ELSE jobs[j].locked_by
  BY ClaimJobsKeepStoreInv DEF Fetch, FleetInv
<1>2. UNCHANGED <<workers, sweep, proc>> /\ claims' = claims \cup NewClaims(w, S)
  BY DEF Fetch, recoveryVars
<1>3. /\ proc[w] = "up" /\ Running(w)
      /\ \A c \in claims : c.worker = w => c.stage # "returning"
  BY DEF Fetch, MayFetch, ClaimsOf, Running
<1>4. /\ S \subseteq DOMAIN jobs /\ None \notin Worker
      /\ \A j \in S : jobs[j].locked_by = None
  BY StoreAssumption DEF Claimable, IsAvailable
<1>5. \A c \in claims : c.worker \in Worker
  BY DEF FleetInv, TypeInv, TypeOK, Claim
<1> DEFINE new(j) == [worker |-> w, job |-> j, run |-> FreshRun(w, j),
                      queued |-> jobs[j].queue # None, stage |-> "held"]
<1>a. \A c \in NewClaims(w, S) : \E j \in S : c = new(j)
  BY Zenon DEF NewClaims
<1>b. \A j : /\ new(j).worker = w /\ new(j).job = j /\ new(j).stage = "held"
             /\ new(j).queued <=> jobs[j].queue # None
  BY Zenon
<1> HIDE DEF new
<1>6. \A c \in NewClaims(w, S) :
        /\ c.worker = w /\ c.job \in S /\ c.stage = "held"
        /\ c.queued <=> jobs[c.job].queue # None
  BY <1>a, <1>b
<1>7. \A c, d \in NewClaims(w, S) : c.job = d.job => c = d
  BY <1>a, <1>b
<1>8. Registered'
  BY <1>2 DEF FleetInv, Registered, Running
<1>9. Unstarted'
  BY <1>1, <1>2, <1>3, <1>4 DEF FleetInv, Unstarted
<1>10. LiveClaims'
  BY <1>2, <1>3, <1>6 DEF FleetInv, LiveClaims, Running
<1>11. \A c \in claims : c.stage = "held" => c.job \notin S
  BY <1>4, <1>5 DEF FleetInv, HeldClaims
<1>12. HeldClaims'
  BY <1>1, <1>2, <1>4, <1>6, <1>11 DEF FleetInv, HeldClaims
<1>13. SingleClaim'
  BY <1>2, <1>6, <1>7, <1>11 DEF FleetInv, SingleClaim
<1>14. SentClaims'
  BY <1>1, <1>2, <1>3, <1>6 DEF FleetInv, SentClaims
<1>15. SweepInv'
  <2>1. w \notin sweep.dead
    BY <1>3 DEF FleetInv, SweepInv, SweptWorkersStopped
  <2> QED
    BY <1>1, <1>2, <1>4, <2>1 DEF FleetInv, SweepInv, SweptWorkersStopped
<1> QED
  BY <1>1, <1>8, <1>9, <1>10, <1>12, <1>13, <1>14, <1>15 DEF FleetInv

\* Without outages a live worker's heartbeat never ages; a worker registers before
\* it is up and deregisters once it has no claims.
LEMMA ProcessFleetInv ==
  ASSUME FleetInv, TypeInv', Reliable, NEW w \in Worker,
         \/ Start(w) \/ RequestShutdown(w) \/ Deregister(w) \/ Crash(w)
         \/ Heartbeat(w) \/ MissHeartbeat(w)
  PROVE  FleetInv'
<1>1. UNCHANGED <<jobs, queues, sweep>> /\ claims' \subseteq claims
  BY DEF Start, RequestShutdown, Deregister, Crash, Heartbeat, MissHeartbeat, AgeHeartbeat,
         store, recoveryVars
<1>2. StoreInv'
  BY <1>1, StoreInvUnchanged DEF FleetInv, TypeInv, TypeOK
<1>3. HeldClaims' /\ SingleClaim' /\ SentClaims'
  BY <1>1 DEF FleetInv, HeldClaims, SingleClaim, SentClaims
<1>4. /\ w \in RecoveryEnabled /\ ~Outages /\ MaxAge < 2
      /\ workers \in [Worker -> {None} \cup 0..2]
      /\ proc \in [Worker -> {"new", "up", "stopping", "down"}]
  BY DEF Reliable, FleetInv, TypeInv, TypeOK, RecoveryTypeOK
<1>5. \A v \in Worker \ {w} : proc'[v] = proc[v] /\ workers'[v] = workers[v]
  BY <1>4 DEF Start, RequestShutdown, Deregister, Crash, Heartbeat, MissHeartbeat, AgeHeartbeat,
              WorkerHeartbeat, WorkerDeregister, recoveryVars
<1>6. Registered'
  <2>1. Running(w)' => workers'[w] = 0
    BY <1>4 DEF Start, RequestShutdown, Deregister, Crash, Heartbeat, MissHeartbeat, AgeHeartbeat,
                WorkerHeartbeat, WorkerDeregister, recoveryVars, Running, FleetInv, Registered
  <2> QED
    BY <1>5, <2>1 DEF FleetInv, Registered, Running
<1>7. Unstarted'
  <2>1. proc'[w] # "new"
    <3>1. proc[w] # "new" \/ Start(w)
      BY <1>4, RecoveryAssumption
         DEF RequestShutdown, Deregister, Crash, Heartbeat, MissHeartbeat, Running
    <3> QED
      BY <1>4, <3>1 DEF Start, RequestShutdown, Deregister, Crash, Heartbeat, MissHeartbeat
  <2> QED
    BY Zenon, <1>1, <1>5, <2>1 DEF FleetInv, Unstarted
<1>8. LiveClaims'
  <2>1. Running(w)' \/ ~\E c \in claims' : c.worker = w
    BY <1>4 DEF Start, RequestShutdown, Deregister, Crash, Heartbeat, MissHeartbeat,
                Running, ClaimsOf, FleetInv, LiveClaims
  <2>2. \A c \in claims : c.worker \in Worker
    BY DEF FleetInv, TypeInv, TypeOK, Claim
  <2> QED
    BY Zenon, <1>1, <1>5, <2>1, <2>2 DEF FleetInv, LiveClaims, Running
<1>9. SweepInv'
  <2>1. proc[w] = "down" => proc'[w] = "down"
    BY <1>4 DEF Start, RequestShutdown, Deregister, Crash, Heartbeat, MissHeartbeat
  <2>2. sweep.dead \subseteq Worker
    BY DEF FleetInv, TypeInv, TypeOK, RecoveryTypeOK
  <2> QED
    BY <1>1, <1>5, <2>1, <2>2 DEF FleetInv, SweepInv, SweptWorkersStopped
<1> QED
  BY <1>2, <1>3, <1>6, <1>7, <1>8, <1>9 DEF FleetInv

LEMMA AddJobReleasesNothing ==
  ASSUME StoreInv, AddJob
  PROVE  Releases({})
BY AddJobsReleases, AddJobUnsafeDedupeReleases, FleetAssumption DEF AddJob

\* Operators release the locks of stopped workers only.
LEMMA OperateReleases ==
  ASSUME StoreInv, Operate, ~Outages
  PROVE  \/ Releases({})
         \/ \E w \in Worker : proc[w] = "down" /\ Releases({i \in DOMAIN jobs : jobs[i].locked_by = w})
<1>1. ASSUME NEW j \in DOMAIN jobs, CompleteJobs(j) PROVE Releases({})
  BY <1>1, EditableUnlocked, DeleteJobsReleases DEF CompleteJobs
<1>2. ASSUME DeleteJobs(PermanentlyFailed) PROVE Releases({})
  BY <1>2, DeleteJobsReleases DEF PermanentlyFailed
<1> QED
  BY Zenon, <1>1, <1>2, RemoveJobReleases, PermanentlyFailJobsReleases, RescheduleJobsReleases,
     ForceUnlockWorkersReleases DEF Operate

LEMMA ClientFleetInv ==
  ASSUME FleetInv, TypeInv', Reliable, AddJob \/ Operate \/ PassTime
  PROVE  FleetInv'
<1>1. UNCHANGED <<workers, sweep, claims, proc>>
  BY DEF AddJob, Operate, PassTime, recoveryVars
<1>2. \/ Releases({})
      \/ \E w \in Worker : proc[w] = "down" /\ Releases({i \in DOMAIN jobs : jobs[i].locked_by = w})
  BY AddJobReleasesNothing, OperateReleases, TimeReleases DEF PassTime, Reliable, FleetInv
<1>3. ASSUME NEW w \in Worker, proc[w] = "down", NEW c \in claims, c.stage = "held"
      PROVE  c.job \notin {i \in DOMAIN jobs : jobs[i].locked_by = w}
  BY <1>3 DEF FleetInv, LiveClaims, HeldClaims, Running
<1> QED
  BY Zenon, <1>1, <1>2, <1>3, ReleaseKeepsFleetInv

\* find_dead_worker_ids finds stopped workers only.
LEMMA DeadAreStopped ==
  ASSUME FleetInv, NEW w \in FindDeadWorkerIds
  PROVE  w \in Worker /\ proc[w] = "down"
<1>1. w \in Worker /\ proc[w] \in {"new", "up", "stopping", "down"}
  BY DEF FindDeadWorkerIds, ListStaleWorkers, ListOrphanLockedWorkers, FleetInv, TypeInv, TypeOK
<1>2. ~Running(w)
  BY <1>1, RecoveryAssumption DEF FindDeadWorkerIds, ListStaleWorkers, ListOrphanLockedWorkers,
         FleetInv, Registered
<1>3. proc[w] # "new"
  <2>1. CASE workers[w] # None
    BY <1>1, <2>1 DEF FleetInv, Unstarted
  <2>2. CASE workers[w] = None
    <3>1. w \in ListOrphanLockedWorkers
      BY <2>2, RecoveryAssumption DEF FindDeadWorkerIds, ListStaleWorkers
    <3>2. \E j \in DOMAIN jobs : jobs[j].locked_by = w
      BY <1>1, <3>1 DEF ListOrphanLockedWorkers, FleetInv, StoreInv, QueueLockBacked
    <3> QED
      BY <1>1, <3>2 DEF FleetInv, Unstarted
  <2> QED
    BY <2>1, <2>2
<1> QED
  BY <1>1, <1>2, <1>3 DEF Running

\* A sweep that asked the hook releases the jobs that the dead workers still have
\* and for which the hook did not answer Skip, with their queues.
LEMMA SweepApplyReleases ==
  ASSUME FleetInv, SweepApply
  PROVE  \E D : Releases(D) /\ \A j \in D : jobs[j].locked_by \in sweep.dead
<1>1. PICK answer \in [sweep.listed -> HookResults] :
           /\ jobs' = [j \in DOMAIN jobs |-> jobs'[j]]
           /\ \A j \in DOMAIN jobs :
                IF \E e \in sweep.listed : e.job = j
                  THEN \E e \in sweep.listed :
                         e.job = j /\ jobs'[j] = AppliedRow(j, e.previous, answer[e])
                  ELSE jobs'[j] = jobs[j]
           /\ \A q \in Queue : queues'[q] =
                IF \E e \in sweep.listed :
                     /\ ReleasesQueue(e, answer[e]) /\ jobs[e.job].queue = q
                     /\ queues[q].locked_by = e.previous
                  THEN Unheld ELSE queues[q]
  BY SweepApplyRows DEF FleetInv
<1> DEFINE released(e) == /\ e.job \in DOMAIN jobs /\ jobs[e.job].locked_by = e.previous
                          /\ answer[e] # "skip"
           D == {j \in DOMAIN jobs : \E e \in sweep.listed : e.job = j /\ released(e)}
<1>2. \A e \in sweep.listed : /\ e.previous \in Worker /\ e.previous \in sweep.dead
                              /\ answer[e] \in HookResult
  BY RecoveryAssumption DEF FleetInv, SweepInv, TypeInv, TypeOK, RecoveryTypeOK, Listed
<1>3. ASSUME NEW j \in DOMAIN jobs
      PROVE  /\ jobs'[j].queue = jobs[j].queue
             /\ jobs'[j].locked_by = IF j \in D THEN None ELSE jobs[j].locked_by
             /\ jobs'[j].age = 2 => jobs[j].age = 2
  <2>1. CASE \E e \in sweep.listed : e.job = j
    <3>1. PICK e \in sweep.listed : e.job = j /\ jobs'[j] = AppliedRow(j, e.previous, answer[e])
      BY <1>1, <2>1
    <3>2. j \in D <=> released(e)
      BY <3>1 DEF FleetInv, SweepInv
    <3>3. /\ jobs'[j].queue = jobs[j].queue
          /\ jobs'[j].locked_by = IF jobs[j].locked_by = e.previous /\ answer[e] # "skip"
                                    THEN None ELSE jobs[j].locked_by
          /\ jobs'[j].age = 2 => jobs[j].age = 2
      BY <1>2, <3>1, AppliedRowType DEF FleetInv, TypeInv, TypeOK
    <3> QED
      BY <3>1, <3>2, <3>3
  <2>2. CASE ~\E e \in sweep.listed : e.job = j
    BY <1>1, <2>2
  <2> QED
    BY <2>1, <2>2
<1>4. ASSUME NEW q \in Queue
      PROVE  queues'[q].locked_by =
               IF \E j \in D : jobs[j].queue = q THEN None ELSE queues[q].locked_by
  <2>1. (\E j \in D : jobs[j].queue = q) <=>
        (\E e \in sweep.listed : /\ ReleasesQueue(e, answer[e]) /\ jobs[e.job].queue = q
                                 /\ queues[q].locked_by = e.previous)
    <3>1. ASSUME NEW e \in sweep.listed, released(e), jobs[e.job].queue = q
          PROVE  ReleasesQueue(e, answer[e]) /\ queues[q].locked_by = e.previous
      <4>1. queues[q].locked_by = e.previous
        BY <1>2, <3>1 DEF FleetInv, StoreInv, QueueLockBacked
      <4>2. e.queued
        BY <3>1, StoreAssumption DEF FleetInv, SweepInv
      <4> QED
        BY <3>1, <4>1, <4>2 DEF ReleasesQueue, Held
    <3>2. ASSUME NEW e \in sweep.listed, ReleasesQueue(e, answer[e])
          PROVE  released(e)
      BY <3>2 DEF ReleasesQueue, Held
    <3> QED
      BY Zenon, <3>1, <3>2
  <2> HIDE DEF D
  <2> QED
    BY <1>1, <2>1 DEF Unheld
<1>5. /\ D \subseteq Locked /\ DOMAIN jobs' = DOMAIN jobs
      /\ \A j \in D : jobs[j].locked_by \in sweep.dead
  BY <1>1, <1>2, StoreAssumption DEF Locked
<1> HIDE DEF D
<1>6. Releases(D)
  BY <1>3, <1>4, <1>5 DEF Releases, Locked
<1> QED
  BY <1>5, <1>6

LEMMA SweepFleetInv ==
  ASSUME FleetInv, TypeInv', Sweep \/ AbandonSweep
  PROVE  FleetInv'
<1>1. UNCHANGED <<claims, proc>>
  BY DEF Sweep, AbandonSweep
<1>2. ASSUME NEW D, Releases(D), \A j \in D : jobs[j].locked_by \in sweep.dead,
             DeleteStaleWorkers(sweep.dead), sweep' = NoSweep
      PROVE  FleetInv'
  <2>1. ASSUME NEW c \in claims, c.stage = "held" PROVE c.job \notin D
    <3>1. c.worker \notin sweep.dead
      BY DEF FleetInv, LiveClaims, SweepInv, SweptWorkersStopped, Running
    <3> QED
      BY <1>2, <2>1, <3>1 DEF FleetInv, HeldClaims
  <2> QED
    BY Zenon, <1>1, <1>2, <2>1, ReleaseKeepsFleetInv
<1>3. CASE SweepRecover
  <2>1. sweep.dead \in SUBSET Worker
    BY DEF FleetInv, TypeInv, TypeOK, RecoveryTypeOK
  <2>2. Releases({i \in DOMAIN jobs : jobs[i].locked_by \in sweep.dead})
    BY <1>3, <2>1, RecoverDeadWorkerJobsReleases DEF SweepRecover, FleetInv
  <2> QED
    BY <1>2, <1>3, <2>2 DEF SweepRecover
<1>4. CASE SweepApply
  BY Zenon, <1>2, <1>4, SweepApplyReleases DEF SweepApply
<1>5. ASSUME UNCHANGED <<jobs, queues, workers>>, SweepInv'
      PROVE  FleetInv'
  <2>1. StoreInv'
    BY <1>5, StoreInvUnchanged DEF FleetInv, TypeInv, TypeOK
  <2>2. Registered' /\ Unstarted' /\ LiveClaims'
    BY <1>1, <1>5 DEF FleetInv, Registered, Unstarted, LiveClaims, Running
  <2>3. HeldClaims' /\ SingleClaim' /\ SentClaims'
    BY <1>1, <1>5 DEF FleetInv, HeldClaims, SingleClaim, SentClaims
  <2> QED
    BY <1>5, <2>1, <2>2, <2>3 DEF FleetInv
<1>6. CASE SweepDiscover
  <2>1. sweep'.dead = FindDeadWorkerIds /\ sweep'.listed = {}
    BY <1>6 DEF SweepDiscover, NoSweep
  <2>2. SweepInv'
    BY <1>1, <2>1, DeadAreStopped DEF SweepInv, SweptWorkersStopped
  <2> QED
    BY <1>5, <1>6, <2>2 DEF SweepDiscover, store
<1>7. CASE SweepList
  <2> DEFINE entry(j) == [job |-> j, previous |-> jobs[j].locked_by,
                          queued |-> jobs[j].queue # None]
             read == {i \in DOMAIN jobs : jobs[i].locked_by \in sweep.dead}
  <2>1. UNCHANGED jobs /\ sweep'.dead = sweep.dead /\ sweep'.listed = {entry(j) : j \in read}
    BY Zenon, <1>7 DEF SweepList, store, FleetInv, TypeInv, TypeOK, RecoveryTypeOK
  <2>2. \A e \in sweep'.listed : \E j \in read : e = entry(j)
    BY <2>1, Zenon
  <2>3. \A j : /\ entry(j).job = j /\ entry(j).previous = jobs[j].locked_by
               /\ entry(j).queued <=> jobs[j].queue # None
    BY Zenon
  <2> HIDE DEF entry
  <2>4. SweepInv'
    BY <1>1, <2>1, <2>2, <2>3 DEF SweepInv, SweptWorkersStopped, FleetInv
  <2> QED
    BY <1>5, <1>7, <2>4 DEF SweepList, store
<1>8. CASE SweepRollback
  <2>1. SweepInv'
    BY <1>8 DEF SweepRollback, NoSweep, SweepInv, SweptWorkersStopped
  <2> QED
    BY <1>5, <1>8, <2>1 DEF SweepRollback, store
<1> QED
  BY <1>3, <1>4, <1>6, <1>7, <1>8 DEF Sweep, AbandonSweep

LEMMA FleetInvInit == ASSUME Init PROVE FleetInv
<1>1. TypeInv
  BY TypeInvInit
<1>2. StoreInv
  BY StoreInitType, StoreAssumption
     DEF Init, StoreInit, StoreInv, QueueSerial, QueueLockBacked, Young, Unheld
<1> QED
  BY <1>1, <1>2
     DEF Init, StoreInit, RecoveryInit, FleetInv, Registered, Unstarted, LiveClaims, HeldClaims,
         SingleClaim, SentClaims, SweepInv, SweptWorkersStopped, NoSweep, Running

LEMMA FleetInvNext ==
  ASSUME FleetInv, Reliable, [Next]_vars
  PROVE  FleetInv'
<1>1. TypeInv'
  BY TypeInvNext DEF FleetInv
<1>2. ASSUME NEW w \in Worker, GetJob(w) \/ BatchGetJobs(w) PROVE FleetInv'
  <2>1. \A j : OnePerQueue({j})
    BY DEF OnePerQueue
  <2>2. PICK S \in SUBSET Claimable : OnePerQueue(S) /\ Fetch(w, S)
    BY Zenon, <1>2, <2>1 DEF GetJob, BatchGetJobs
  <2> QED
    BY <1>1, <2>2, FetchFleetInv
<1>3. CASE UNCHANGED vars
  <2>1. StoreInv'
    BY <1>1, <1>3, StoreInvUnchanged DEF vars, store, TypeInv, TypeOK, FleetInv
  <2>2. Registered' /\ Unstarted' /\ LiveClaims'
    BY <1>3 DEF vars, store, recoveryVars, FleetInv, Registered, Unstarted, LiveClaims, Running
  <2>3. HeldClaims' /\ SingleClaim' /\ SentClaims' /\ SweepInv'
    BY <1>3 DEF vars, store, recoveryVars, FleetInv, HeldClaims, SingleClaim, SentClaims,
                SweepInv, SweptWorkersStopped
  <2> QED
    BY <1>1, <2>1, <2>2, <2>3 DEF FleetInv
<1> QED
  BY <1>1, <1>2, <1>3, ProcessFleetInv, ReleaseFleetInv, ClientFleetInv, SweepFleetInv DEF Next

THEOREM FleetInvariant == ASSUME Reliable PROVE Spec => []FleetInv
<1>1. Init => FleetInv
  BY FleetInvInit
<1>2. FleetInv /\ [Next]_vars => FleetInv'
  BY FleetInvNext
<1> QED
  BY <1>1, <1>2, PTL DEF Spec

\* In a reliable fleet the jobs of a named queue are locked one at a time: get_job
\* and batch_get_jobs respect queue locks, and no release, sweep, replacement or
\* unlock frees a queue while one of its jobs is locked.
THEOREM QueuesAreSerial == ASSUME Reliable PROVE Spec => []QueueSerial
<1>1. FleetInv => QueueSerial
  BY DEF FleetInv, StoreInv
<1> QED
  BY <1>1, FleetInvariant, PTL

\* In a reliable fleet a queue is locked exactly while a job of it is, by the same
\* worker: neither complete_job nor a recovery hook leaves a queue locked for good.
THEOREM QueueLocksAreBacked == ASSUME Reliable PROVE Spec => []QueueLockBacked
<1>1. FleetInv => QueueLockBacked
  BY DEF FleetInv, StoreInv
<1> QED
  BY <1>1, FleetInvariant, PTL

\* In a reliable fleet a process only completes, fails or returns jobs that it has
\* locked, so the release statements need not compare more than they do.
THEOREM ClaimsAreOwned == ASSUME Reliable PROVE Spec => []ClaimsOwned
<1>1. FleetInv => ClaimsOwned
  BY DEF FleetInv, HeldClaims, ClaimsOwned
<1> QED
  BY <1>1, FleetInvariant, PTL

\* In a reliable fleet no job is run by two claims at a time.
THEOREM ClaimsAreSingle == ASSUME Reliable PROVE Spec => []SingleClaim
<1>1. FleetInv => SingleClaim
  BY DEF FleetInv
<1> QED
  BY <1>1, FleetInvariant, PTL

\* In a reliable fleet a sweep only ever takes jobs from stopped workers, however
\* its discovery interleaves with starts, shutdowns and releases.
THEOREM SweepsSpareLiveWorkers == ASSUME Reliable PROVE Spec => []SweptWorkersStopped
<1>1. FleetInv => SweptWorkersStopped
  BY DEF FleetInv, SweepInv
<1> QED
  BY <1>1, FleetInvariant, PTL
=============================================================================
