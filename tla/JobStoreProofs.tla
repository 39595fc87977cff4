--------------------------- MODULE JobStoreProofs ---------------------------
(***************************************************************************)
(* Every statement on the job tables keeps them well typed.                *)
(***************************************************************************)
EXTENDS JobStore, TLAPS

\* Assigning to one column of a row.
LEMMA ColumnType ==
  ASSUME NEW row \in Row
  PROVE  /\ \A k \in Key \cup {None} : [row EXCEPT !.key = k] \in Row
         /\ \A n \in 0..MaxAttempts : [row EXCEPT !.attempts = n] \in Row
         /\ \A m \in 1..MaxAttempts : [row EXCEPT !.max_attempts = m] \in Row
         /\ \A w \in Worker \cup {None} : [row EXCEPT !.locked_by = w] \in Row
         /\ \A a \in 0..2 : [row EXCEPT !.age = a] \in Row
         /\ \A due \in BOOLEAN : [row EXCEPT !.due = due] \in Row
BY DEF Row

LEMMA UnlockedType ==
  ASSUME NEW row \in Row
  PROVE  /\ Unlocked(row) \in Row
         /\ Unlocked(row).queue = row.queue
         /\ Unlocked(row).locked_by = None
         /\ Unlocked(row).attempts = row.attempts
         /\ Unlocked(row).max_attempts = row.max_attempts
<1>1. [row EXCEPT !.locked_by = None] \in Row
  BY Zenon, ColumnType
<1>2. 0 \in 0..2
  OBVIOUS
<1>3. Unlocked(row) \in Row
  BY <1>1, <1>2, ColumnType, Zenon DEF Unlocked
<1> QED
  BY <1>3 DEF Unlocked, Row

LEMMA RestoredType ==
  ASSUME StoreTypeOK, NEW j \in DOMAIN jobs
  PROVE  /\ Restored(j) \in Row
         /\ Restored(j).queue = jobs[j].queue
         /\ Restored(j).locked_by = None
         /\ Restored(j).max_attempts = jobs[j].max_attempts
         /\ j \in retirements => Restored(j).attempts = jobs[j].attempts
<1>1. jobs[j] \in Row
  BY DEF StoreTypeOK
<1>2. OneLess(jobs[j].attempts) \in 0..MaxAttempts
  BY <1>1, StoreAssumption DEF Row, OneLess
<1> QED
  BY Zenon, <1>1, <1>2, UnlockedType DEF Restored, Row, Unlocked

LEMMA SupersededType ==
  ASSUME NEW row \in Row
  PROVE  /\ Superseded(row) \in Row
         /\ Superseded(row).queue = row.queue
         /\ Superseded(row).locked_by = row.locked_by
         /\ Superseded(row).attempts = row.max_attempts
         /\ Superseded(row).max_attempts = row.max_attempts
<1>1. [row EXCEPT !.key = None] \in Row
  BY Zenon, ColumnType
<1>2. row.max_attempts \in 0..MaxAttempts
  BY StoreAssumption DEF Row
<1>3. Superseded(row) \in Row
  BY <1>1, <1>2, ColumnType, Zenon DEF Superseded
<1> QED
  BY <1>3 DEF Superseded, Row

LEMMA LockType ==
  ASSUME StoreTypeOK, NEW w, NEW S
  PROVE  ReleaseQueues(w, S) \in [Queue -> Lock]
BY DEF ReleaseQueues, StoreTypeOK, Lock, Unheld

LEMMA StoreInitType == ASSUME StoreInit PROVE StoreTypeOK
BY StoreAssumption DEF StoreInit, StoreTypeOK, JobId, Row, Lock, Unheld

LEMMA StoreStutterType ==
  ASSUME StoreTypeOK, UNCHANGED store PROVE StoreTypeOK'
BY DEF StoreTypeOK, store

LEMMA ClaimJobsType ==
  ASSUME StoreTypeOK, NEW w \in Worker, NEW S, S \subseteq Claimable, ClaimJobs(w, S)
  PROVE  StoreTypeOK'
<1>1. ASSUME NEW j \in S
      PROVE  [jobs[j] EXCEPT !.attempts = @ + 1, !.locked_by = w, !.age = 0] \in Row
  <2>1. jobs[j] \in Row /\ jobs[j].attempts + 1 \in 0..MaxAttempts /\ 0 \in 0..2
    BY StoreAssumption DEF StoreTypeOK, Claimable, IsAvailable, Row
  <2>2. [jobs[j] EXCEPT !.attempts = @ + 1] \in Row
    BY <2>1, ColumnType, Zenon
  <2>3. [jobs[j] EXCEPT !.attempts = @ + 1, !.locked_by = w] \in Row
    BY <2>2, ColumnType, Zenon
  <2> QED
    BY <2>1, <2>3, ColumnType, Zenon
<1>2. jobs' \in [DOMAIN jobs -> Row]
  BY Zenon, <1>1 DEF ClaimJobs, StoreTypeOK
<1>3. queues' \in [Queue -> Lock]
  <2>1. [locked_by |-> w, age |-> 0] \in Lock
    BY DEF Lock
  <2>2. queues' = [q \in Queue |-> IF \E j \in S : jobs[j].queue = q
                                    THEN [locked_by |-> w, age |-> 0] ELSE queues[q]]
    BY Zenon DEF ClaimJobs
  <2> QED
    BY <2>1, <2>2 DEF StoreTypeOK
<1> QED
  BY Zenon, <1>2, <1>3 DEF StoreTypeOK, ClaimJobs

LEMMA DeleteJobsType ==
  ASSUME StoreTypeOK, NEW S, DeleteJobs(S)
  PROVE  StoreTypeOK'
BY DEF StoreTypeOK, DeleteJobs

LEMMA CompleteJobType ==
  ASSUME StoreTypeOK, NEW w, NEW j, NEW queued, CompleteJob(w, j, queued)
  PROVE  StoreTypeOK'
BY LockType DEF StoreTypeOK, CompleteJob

LEMMA FailJobType ==
  ASSUME StoreTypeOK, NEW w, NEW j, NEW queued, FailJob(w, j, queued)
  PROVE  StoreTypeOK'
<1>1. ASSUME NEW i \in DOMAIN jobs
      PROVE  [Unlocked(jobs[i]) EXCEPT !.due = FALSE] \in Row
  <2>1. Unlocked(jobs[i]) \in Row
    BY UnlockedType DEF StoreTypeOK
  <2> QED
    BY <2>1, ColumnType, Zenon
<1>2. jobs' \in [DOMAIN jobs -> Row]
  BY <1>1 DEF FailJob, StoreTypeOK
<1> QED
  BY Zenon, <1>2, LockType DEF StoreTypeOK, FailJob

LEMMA ReturnJobsType ==
  ASSUME StoreTypeOK, NEW w, NEW S, NEW delayed \in BOOLEAN, ReturnJobs(w, S, delayed)
  PROVE  StoreTypeOK'
<1>1. ASSUME NEW i \in DOMAIN jobs
      PROVE  [Restored(i) EXCEPT !.due = @ /\ ~delayed] \in Row
  BY Zenon, RestoredType DEF Row
<1>2. jobs' \in [DOMAIN jobs -> Row]
  BY <1>1 DEF ReturnJobs, StoreTypeOK
<1> QED
  BY <1>2, LockType DEF StoreTypeOK, ReturnJobs

LEMMA RecoverDeadWorkerJobsType ==
  ASSUME StoreTypeOK, NEW W, RecoverDeadWorkerJobs(W)
  PROVE  StoreTypeOK'
<1>1. ASSUME NEW i \in DOMAIN jobs
      PROVE  [Restored(i) EXCEPT !.due = FALSE] \in Row
  BY Zenon, RestoredType DEF Row
<1>2. jobs' \in [DOMAIN jobs -> Row]
  BY <1>1 DEF RecoverDeadWorkerJobs, StoreTypeOK
<1>3. queues' \in [Queue -> Lock]
  BY DEF RecoverDeadWorkerJobs, StoreTypeOK, Lock, Unheld
<1> QED
  BY <1>2, <1>3 DEF StoreTypeOK, RecoverDeadWorkerJobs

LEMMA ForceUnlockWorkersType ==
  ASSUME StoreTypeOK, NEW w, ForceUnlockWorkers(w)
  PROVE  StoreTypeOK'
<1>1. jobs' \in [DOMAIN jobs -> Row]
  BY UnlockedType DEF ForceUnlockWorkers, StoreTypeOK
<1>2. queues' \in [Queue -> Lock]
  BY DEF ForceUnlockWorkers, StoreTypeOK, Lock, Unheld
<1> QED
  BY <1>1, <1>2 DEF StoreTypeOK, ForceUnlockWorkers

LEMMA NewRowType ==
  ASSUME NEW k \in Key \cup {None}, NEW q \in Queue \cup {None},
         NEW m \in 1..MaxAttempts, NEW due \in BOOLEAN
  PROVE  /\ NewRow(k, q, m, due) \in Row
         /\ NewRow(k, q, m, due).locked_by = None
BY StoreAssumption DEF NewRow, Row

LEMMA AddJobsType ==
  ASSUME StoreTypeOK,
         NEW k \in Key \cup {None}, NEW q \in Queue \cup {None},
         NEW m \in 1..MaxAttempts, NEW due \in BOOLEAN, NEW preserve_run_at \in BOOLEAN,
         AddJobs(k, q, m, due, preserve_run_at)
  PROVE  StoreTypeOK'
<1> DEFINE current == {j \in WithKey(k) : IsAvailable(jobs[j])}
           retired == WithKey(k) \ current
           new     == IF current = {} THEN {nextId} ELSE {}
           run_at(row) == IF preserve_run_at /\ row.attempts = 0 THEN row.due ELSE due
<1>1. current \subseteq DOMAIN jobs /\ retired \subseteq DOMAIN jobs
  BY DEF WithKey
<1>2. /\ current = {} => nextId <= MaxJobs
      /\ jobs' = [j \in DOMAIN jobs \cup new |->
                    IF j \in new THEN NewRow(k, q, m, due)
                    ELSE IF j \in current THEN NewRow(k, q, m, run_at(jobs[j]))
                    ELSE IF j \in retired THEN Superseded(jobs[j])
                    ELSE jobs[j]]
      /\ retirements' = retirements \cup retired
      /\ nextId' = IF current = {} THEN nextId + 1 ELSE nextId
      /\ UNCHANGED queues
  BY Zenon DEF AddJobs
<1>3. ASSUME NEW j \in DOMAIN jobs
      PROVE  /\ run_at(jobs[j]) \in BOOLEAN
             /\ jobs[j] \in Row /\ Superseded(jobs[j]) \in Row
  BY SupersededType DEF StoreTypeOK, Row
<1>4. NewRow(k, q, m, due) \in Row
  BY NewRowType
<1>5. \A j \in current : NewRow(k, q, m, run_at(jobs[j])) \in Row
  BY <1>1, <1>3, NewRowType
<1>6. /\ nextId \in 1..(MaxJobs + 1) /\ nextId' \in 1..(MaxJobs + 1)
      /\ new \subseteq JobId /\ \A j \in DOMAIN jobs \cup new : j < nextId'
  <2> HIDE DEF current
  <2> QED
    BY <1>2, StoreAssumption DEF StoreTypeOK, JobId
<1> HIDE DEF current, retired, new, run_at
<1>7. jobs' \in [DOMAIN jobs \cup new -> Row]
  BY <1>2, <1>3, <1>4, <1>5
<1> QED
  BY <1>1, <1>2, <1>6, <1>7 DEF StoreTypeOK

LEMMA AddJobUnsafeDedupeType ==
  ASSUME StoreTypeOK,
         NEW k \in Key \cup {None}, NEW q \in Queue \cup {None},
         NEW m \in 1..MaxAttempts, NEW due \in BOOLEAN,
         AddJobUnsafeDedupe(k, q, m, due)
  PROVE  StoreTypeOK'
<1>1. NewRow(k, q, m, due) \in Row
  BY NewRowType
<1>2. jobs' \in [DOMAIN jobs \cup {nextId} -> Row]
  BY <1>1 DEF AddJobUnsafeDedupe, StoreTypeOK
<1>3. nextId \in JobId /\ nextId' = nextId + 1 /\ nextId' \in 1..(MaxJobs + 1)
  BY StoreAssumption DEF AddJobUnsafeDedupe, StoreTypeOK, JobId
<1>4. \A j \in DOMAIN jobs \cup {nextId} : j < nextId'
  BY <1>3, StoreAssumption DEF StoreTypeOK, JobId
<1> QED
  BY <1>2, <1>3, <1>4 DEF StoreTypeOK, AddJobUnsafeDedupe

LEMMA RemoveJobType ==
  ASSUME StoreTypeOK, NEW k, RemoveJob(k)
  PROVE  StoreTypeOK'
<1> DEFINE rows == WithKey(k)
<1>1. CASE DeleteJobs(rows)
  BY <1>1, DeleteJobsType
<1>2. CASE /\ jobs' = [j \in DOMAIN jobs |->
                          IF j \in rows THEN Superseded(jobs[j]) ELSE jobs[j]]
           /\ retirements' = retirements \cup rows
           /\ UNCHANGED <<queues, nextId>>
  <2>1. rows \subseteq DOMAIN jobs
    BY DEF WithKey
  <2>2. jobs' \in [DOMAIN jobs -> Row]
    BY <1>2, SupersededType DEF StoreTypeOK
  <2> QED
    BY <1>2, <2>1, <2>2 DEF StoreTypeOK
<1> QED
  BY <1>1, <1>2 DEF RemoveJob

LEMMA PermanentlyFailJobsType ==
  ASSUME StoreTypeOK, NEW j \in DOMAIN jobs, PermanentlyFailJobs(j)
  PROVE  StoreTypeOK'
<1>1. jobs[j] \in Row /\ jobs[j].max_attempts \in 0..MaxAttempts
  BY StoreAssumption DEF StoreTypeOK, Row
<1>2. [jobs[j] EXCEPT !.attempts = jobs[j].max_attempts] \in Row
  BY <1>1, ColumnType, Zenon
<1>3. jobs' \in [DOMAIN jobs -> Row]
  BY <1>2 DEF PermanentlyFailJobs, StoreTypeOK
<1> QED
  BY <1>3 DEF StoreTypeOK, PermanentlyFailJobs

LEMMA RescheduledRowType ==
  ASSUME NEW row \in Row, NEW due \in {None} \cup BOOLEAN,
         NEW attempts \in {None} \cup 0..MaxAttempts,
         NEW max_attempts \in {None} \cup 1..MaxAttempts
  PROVE  /\ RescheduledRow(row, due, attempts, max_attempts) \in Row
         /\ RescheduledRow(row, due, attempts, max_attempts).locked_by = row.locked_by
         /\ RescheduledRow(row, due, attempts, max_attempts).queue = row.queue
<1>1. /\ Coalesce(due, row.due) \in BOOLEAN
      /\ Coalesce(attempts, row.attempts) \in 0..MaxAttempts
      /\ Coalesce(max_attempts, row.max_attempts) \in 1..MaxAttempts
  BY DEF Coalesce, Row
<1>2. [row EXCEPT !.due = Coalesce(due, @)] \in Row
  BY <1>1, ColumnType, Zenon
<1>3. [row EXCEPT !.due = Coalesce(due, @), !.attempts = Coalesce(attempts, @)] \in Row
  BY <1>1, <1>2, ColumnType, Zenon
<1>4. RescheduledRow(row, due, attempts, max_attempts) \in Row
  BY <1>1, <1>3, ColumnType, Zenon DEF RescheduledRow
<1> QED
  BY <1>4 DEF RescheduledRow, Row

LEMMA RescheduleJobsType ==
  ASSUME StoreTypeOK, NEW j \in DOMAIN jobs, NEW due \in {None} \cup BOOLEAN,
         NEW attempts \in {None} \cup 0..MaxAttempts,
         NEW max_attempts \in {None} \cup 1..MaxAttempts,
         RescheduleJobs(j, due, attempts, max_attempts)
  PROVE  StoreTypeOK'
<1>1. RescheduledRow(jobs[j], due, attempts, max_attempts) \in Row
  BY Zenon, RescheduledRowType DEF StoreTypeOK
<1>2. jobs' \in [DOMAIN jobs -> Row]
  BY <1>1 DEF RescheduleJobs, StoreTypeOK
<1> QED
  BY <1>2 DEF StoreTypeOK, RescheduleJobs

LEMMA TimeType ==
  ASSUME StoreTypeOK,
         \/ \E j \in DOMAIN jobs : BecomeDue(j) \/ AgeJobLock(j)
         \/ \E q \in Queue : AgeQueueLock(q)
  PROVE  StoreTypeOK'
<1>1. ASSUME NEW j \in DOMAIN jobs, BecomeDue(j) PROVE StoreTypeOK'
  <2>1. [jobs[j] EXCEPT !.due = TRUE] \in Row
    BY Zenon, ColumnType DEF StoreTypeOK
  <2> QED
    BY <1>1, <2>1 DEF StoreTypeOK, BecomeDue
<1>2. ASSUME NEW j \in DOMAIN jobs, AgeJobLock(j) PROVE StoreTypeOK'
  <2>1. jobs[j] \in Row /\ jobs[j].age + 1 \in 0..2
    BY <1>2, StoreAssumption DEF StoreTypeOK, Row, AgeJobLock
  <2>2. [jobs[j] EXCEPT !.age = @ + 1] \in Row
    BY <2>1, ColumnType, Zenon
  <2> QED
    BY <1>2, <2>2 DEF StoreTypeOK, AgeJobLock
<1>3. ASSUME NEW q \in Queue, AgeQueueLock(q) PROVE StoreTypeOK'
  <2>1. [queues[q] EXCEPT !.age = @ + 1] \in Lock
    BY <1>3, StoreAssumption DEF StoreTypeOK, Lock, AgeQueueLock
  <2> QED
    BY <1>3, <2>1 DEF StoreTypeOK, AgeQueueLock
<1> QED
  BY <1>1, <1>2, <1>3

-----------------------------------------------------------------------------
(* Locks.  Every statement but a claim releases some set D of locked rows,  *)
(* together with exactly the queues of these rows.                          *)

Locked == {j \in DOMAIN jobs : jobs[j].locked_by # None}

\* The step leaves the locks outside D and their queues alone.
Releases(D) ==
  /\ D \subseteq Locked
  /\ \A j \in Locked \ D : /\ j \in DOMAIN jobs'
                           /\ jobs'[j].locked_by = jobs[j].locked_by
                           /\ jobs'[j].queue = jobs[j].queue
  /\ \A j \in DOMAIN jobs' : jobs'[j].locked_by # None => j \in Locked \ D
  /\ \A q \in Queue : queues'[q].locked_by =
       IF \E j \in D : jobs[j].queue = q THEN None ELSE queues[q].locked_by
  /\ \A j \in DOMAIN jobs' : jobs'[j].age = 2 => j \in DOMAIN jobs /\ jobs[j].age = 2

\* No lock is older than four hours.
Young == \A j \in DOMAIN jobs : jobs[j].age # 2

StoreInv == StoreTypeOK /\ QueueSerial /\ QueueLockBacked /\ Young

LEMMA ReleasesKeepStoreInv ==
  ASSUME StoreInv, StoreTypeOK', NEW D, Releases(D)
  PROVE  StoreInv'
<1>1. QueueSerial'
  BY DEF StoreInv, QueueSerial, Releases, Locked
<1>2. Young'
  BY DEF StoreInv, Young, Releases
<1>3. QueueLockBacked'
  <2> SUFFICES ASSUME NEW q \in Queue, NEW w \in Worker
               PROVE  queues'[q].locked_by = w <=>
                        \E j \in DOMAIN jobs' : jobs'[j].queue = q /\ jobs'[j].locked_by = w
    BY DEF QueueLockBacked
  <2>1. w # None
    BY StoreAssumption
  <2>2. CASE \E j \in D : jobs[j].queue = q
    <3>1. PICK d \in D : jobs[d].queue = q
      BY <2>2
    <3>2. queues'[q].locked_by = None
      BY <2>2 DEF Releases
    <3>3. ASSUME NEW j \in DOMAIN jobs', jobs'[j].queue = q, jobs'[j].locked_by = w
          PROVE  FALSE
      <4>1. j \in Locked \ D /\ jobs[j].queue = q
        BY <2>1, <3>3 DEF Releases
      <4>2. q # None
        BY StoreAssumption
      <4> QED
        BY <3>1, <4>1, <4>2 DEF StoreInv, QueueSerial, Releases, Locked
    <3> QED
      BY <2>1, <3>2, <3>3
  <2>3. CASE ~\E j \in D : jobs[j].queue = q
    <3>1. queues'[q].locked_by = queues[q].locked_by
      BY <2>3 DEF Releases
    <3>2. (\E j \in DOMAIN jobs' : jobs'[j].queue = q /\ jobs'[j].locked_by = w) <=>
          (\E j \in DOMAIN jobs : jobs[j].queue = q /\ jobs[j].locked_by = w)
      BY <2>1, <2>3 DEF Releases, Locked
    <3> QED
      BY <3>1, <3>2 DEF StoreInv, QueueLockBacked
  <2> QED
    BY <2>2, <2>3
<1> QED
  BY <1>1, <1>2, <1>3 DEF StoreInv

\* A row that a release writes: unlocked, and not older than it was.
LEMMA ReleasedRow ==
  ASSUME StoreTypeOK, NEW j \in DOMAIN jobs
  PROVE  /\ Unlocked(jobs[j]).age = 0
         /\ Restored(j).age = 0
         /\ \A due \in BOOLEAN :
              /\ [Unlocked(jobs[j]) EXCEPT !.due = due].locked_by = None
              /\ [Unlocked(jobs[j]) EXCEPT !.due = due].age = 0
              /\ [Restored(j) EXCEPT !.due = due].locked_by = None
              /\ [Restored(j) EXCEPT !.due = due].age = 0
<1>1. jobs[j] \in Row
  BY DEF StoreTypeOK
<1>2. Unlocked(jobs[j]).age = 0
  BY <1>1 DEF Unlocked, Row
<1>3. Unlocked(jobs[j]) \in Row /\ Unlocked(jobs[j]).locked_by = None
  BY <1>1, UnlockedType
<1>4. Restored(j).age = 0
  BY <1>2, <1>3 DEF Restored, Row
<1>5. Restored(j) \in Row /\ Restored(j).locked_by = None
  BY RestoredType
<1> QED
  BY <1>2, <1>3, <1>4, <1>5 DEF Row

LEMMA ReleasedQueues ==
  ASSUME StoreInv, NEW w \in Worker, NEW S, S \subseteq DOMAIN jobs,
         \A j \in S : jobs[j].locked_by = w
  PROVE  \A q \in Queue : ReleaseQueues(w, S)[q].locked_by =
           IF \E j \in S : jobs[j].queue = q THEN None ELSE queues[q].locked_by
BY DEF StoreInv, QueueLockBacked, ReleaseQueues, Unheld

\* complete_job and fail_job of a run that is still locked release its row and,
\* if it has one, its queue.
LEMMA CompleteJobReleases ==
  ASSUME StoreInv, NEW w \in Worker, NEW j \in DOMAIN jobs, jobs[j].locked_by = w,
         NEW queued, queued <=> jobs[j].queue # None, CompleteJob(w, j, queued)
  PROVE  Releases({j})
<1>1. w # None /\ {j} \cap DOMAIN jobs = {j} /\ None \notin Queue
  BY StoreAssumption
<1>2. ASSUME NEW q \in Queue
      PROVE  queues'[q].locked_by =
               IF \E i \in {j} : jobs[i].queue = q THEN None ELSE queues[q].locked_by
  <2>1. CASE queued
    BY <1>1, <2>1, ReleasedQueues DEF CompleteJob
  <2>2. CASE ~queued
    BY <1>1, <2>2 DEF CompleteJob
  <2> QED
    BY <2>1, <2>2
<1>3. jobs' = [i \in DOMAIN jobs \ {j} |-> jobs[i]]
  BY DEF CompleteJob
<1> QED
  BY <1>1, <1>2, <1>3 DEF Releases, Locked

LEMMA FailJobReleases ==
  ASSUME StoreInv, NEW w \in Worker, NEW j \in DOMAIN jobs, jobs[j].locked_by = w,
         NEW queued, queued <=> jobs[j].queue # None, FailJob(w, j, queued)
  PROVE  Releases({j})
<1>1. w # None /\ Held(w, {j}) = {j} /\ None \notin Queue
  BY StoreAssumption DEF Held
<1>2. ASSUME NEW q \in Queue
      PROVE  queues'[q].locked_by =
               IF \E i \in {j} : jobs[i].queue = q THEN None ELSE queues[q].locked_by
  <2>1. CASE queued
    <3>1. queues' = ReleaseQueues(w, {j})
      BY Zenon, <1>1, <2>1 DEF FailJob
    <3> QED
      BY <3>1, ReleasedQueues
  <2>2. CASE ~queued
    BY <1>1, <2>2 DEF FailJob
  <2> QED
    BY <2>1, <2>2
<1>3. /\ DOMAIN jobs' = DOMAIN jobs
      /\ \A i \in DOMAIN jobs \ {j} : jobs'[i] = jobs[i]
  BY <1>1 DEF FailJob
<1>4. jobs'[j].locked_by = None /\ jobs'[j].age = 0
  <2>1. jobs'[j] = [Unlocked(jobs[j]) EXCEPT !.due = FALSE]
    BY <1>1 DEF FailJob
  <2> QED
    BY Zenon, <2>1, ReleasedRow DEF StoreInv
<1> QED
  BY <1>1, <1>2, <1>3, <1>4 DEF Releases, Locked

\* A return releases what the worker holds, nothing if it lost its lock.
LEMMA ReturnJobsReleases ==
  ASSUME StoreInv, NEW w \in Worker, NEW S, NEW delayed \in BOOLEAN,
         ReturnJobs(w, S, delayed)
  PROVE  Releases(Held(w, S))
<1>1. w # None /\ Held(w, S) \subseteq Locked /\ Held(w, S) \subseteq DOMAIN jobs
  BY StoreAssumption DEF Held, Locked
<1>2. \A q \in Queue : queues'[q].locked_by =
        IF \E j \in Held(w, S) : jobs[j].queue = q THEN None ELSE queues[q].locked_by
  BY <1>1, ReleasedQueues DEF ReturnJobs, Held
<1>3. /\ DOMAIN jobs' = DOMAIN jobs
      /\ \A i \in DOMAIN jobs \ Held(w, S) : jobs'[i] = jobs[i]
  BY DEF ReturnJobs
<1>4. ASSUME NEW i \in Held(w, S) PROVE jobs'[i].locked_by = None /\ jobs'[i].age = 0
  <2> DEFINE due == Restored(i).due /\ ~delayed
  <2>1. i \in DOMAIN jobs /\ due \in BOOLEAN /\ StoreTypeOK
    BY <1>1 DEF StoreInv
  <2>2. jobs'[i] = [Restored(i) EXCEPT !.due = due]
    BY <2>1, Zenon DEF ReturnJobs
  <2> HIDE DEF due
  <2> QED
    BY <2>1, <2>2, ReleasedRow
<1> QED
  BY <1>1, <1>2, <1>3, <1>4 DEF Releases, Locked

\* The queues of the workers in W are exactly the queues of the jobs they hold.
LEMMA WorkerQueues ==
  ASSUME StoreInv, NEW W \in SUBSET Worker,
         queues' = [q \in Queue |-> IF queues[q].locked_by \in W THEN Unheld ELSE queues[q]]
  PROVE  \A q \in Queue : queues'[q].locked_by =
           IF \E j \in {i \in DOMAIN jobs : jobs[i].locked_by \in W} : jobs[j].queue = q
             THEN None ELSE queues[q].locked_by
BY DEF StoreInv, QueueLockBacked, Unheld

LEMMA RecoverDeadWorkerJobsReleases ==
  ASSUME StoreInv, NEW W \in SUBSET Worker, RecoverDeadWorkerJobs(W)
  PROVE  Releases({i \in DOMAIN jobs : jobs[i].locked_by \in W})
<1> DEFINE D == {i \in DOMAIN jobs : jobs[i].locked_by \in W}
<1>1. None \notin W /\ D \subseteq Locked
  BY StoreAssumption DEF Locked
<1>2. \A q \in Queue : queues'[q].locked_by =
        IF \E j \in D : jobs[j].queue = q THEN None ELSE queues[q].locked_by
  BY Zenon, WorkerQueues DEF RecoverDeadWorkerJobs
<1>3. /\ DOMAIN jobs' = DOMAIN jobs
      /\ \A i \in DOMAIN jobs \ D : jobs'[i] = jobs[i]
      /\ \A i \in D : jobs'[i] = [Restored(i) EXCEPT !.due = FALSE]
  BY DEF RecoverDeadWorkerJobs
<1>4. \A i \in D : jobs'[i].locked_by = None /\ jobs'[i].age = 0
  BY Zenon, <1>3, ReleasedRow DEF StoreInv
<1> QED
  BY <1>1, <1>2, <1>3, <1>4 DEF Releases, Locked

LEMMA ForceUnlockWorkersReleases ==
  ASSUME StoreInv, NEW w \in Worker, ForceUnlockWorkers(w)
  PROVE  Releases({i \in DOMAIN jobs : jobs[i].locked_by = w})
<1> DEFINE D == {i \in DOMAIN jobs : jobs[i].locked_by = w}
<1>1. None # w /\ D \subseteq Locked
  BY StoreAssumption DEF Locked
<1>2. \A q \in Queue : queues'[q].locked_by =
        IF \E j \in D : jobs[j].queue = q THEN None ELSE queues[q].locked_by
  BY DEF ForceUnlockWorkers, StoreInv, QueueLockBacked, Unheld
<1>3. /\ DOMAIN jobs' = DOMAIN jobs
      /\ \A i \in DOMAIN jobs \ D : jobs'[i] = jobs[i]
      /\ \A i \in D : jobs'[i] = Unlocked(jobs[i])
  BY DEF ForceUnlockWorkers
<1>4. \A i \in D : jobs'[i].locked_by = None /\ jobs'[i].age = 0
  BY <1>3, ReleasedRow, UnlockedType DEF StoreInv, StoreTypeOK
<1> QED
  BY <1>1, <1>2, <1>3, <1>4 DEF Releases, Locked

\* A step that deletes, inserts and updates rows without touching a lock.
LEMMA NoLockTouched ==
  ASSUME UNCHANGED queues,
         \A j \in Locked : j \in DOMAIN jobs',
         \A j \in DOMAIN jobs' :
           IF j \in DOMAIN jobs
             THEN /\ jobs'[j].locked_by = jobs[j].locked_by
                  /\ jobs[j].locked_by # None => jobs'[j].queue = jobs[j].queue
                  /\ jobs'[j].age = 2 => jobs[j].age = 2
             ELSE jobs'[j].locked_by = None /\ jobs'[j].age # 2
  PROVE  Releases({})
BY DEF Releases, Locked

LEMMA AddJobsReleases ==
  ASSUME StoreInv,
         NEW k \in Key \cup {None}, NEW q \in Queue \cup {None},
         NEW m \in 1..MaxAttempts, NEW due \in BOOLEAN, NEW preserve_run_at \in BOOLEAN,
         AddJobs(k, q, m, due, preserve_run_at)
  PROVE  Releases({})
<1> DEFINE current == {j \in WithKey(k) : IsAvailable(jobs[j])}
           retired == WithKey(k) \ current
           new     == IF current = {} THEN {nextId} ELSE {}
           run_at(row) == IF preserve_run_at /\ row.attempts = 0 THEN row.due ELSE due
<1>1. /\ current \subseteq DOMAIN jobs
      /\ \A j \in current : jobs[j].locked_by = None
  BY DEF WithKey, IsAvailable
<1>2. /\ jobs' = [j \in DOMAIN jobs \cup new |->
                    IF j \in new THEN NewRow(k, q, m, due)
                    ELSE IF j \in current THEN NewRow(k, q, m, run_at(jobs[j]))
                    ELSE IF j \in retired THEN Superseded(jobs[j])
                    ELSE jobs[j]]
      /\ UNCHANGED queues
  BY Zenon DEF AddJobs
<1>3. new \cap DOMAIN jobs = {}
  <2> HIDE DEF current
  <2> QED
    BY StoreAssumption DEF StoreInv, StoreTypeOK, JobId
<1>4. \A d : NewRow(k, q, m, d).locked_by = None /\ NewRow(k, q, m, d).age = 0
  BY DEF NewRow
<1>5. \A j \in DOMAIN jobs : /\ Superseded(jobs[j]).locked_by = jobs[j].locked_by
                            /\ Superseded(jobs[j]).queue = jobs[j].queue
                            /\ Superseded(jobs[j]).age = jobs[j].age
  BY DEF Superseded, StoreInv, StoreTypeOK, Row
<1> HIDE DEF current, retired, new, run_at
<1>6. ASSUME NEW j \in DOMAIN jobs'
      PROVE  IF j \in DOMAIN jobs
               THEN /\ jobs'[j].locked_by = jobs[j].locked_by
                    /\ jobs[j].locked_by # None => jobs'[j].queue = jobs[j].queue
                    /\ jobs'[j].age = 2 => jobs[j].age = 2
               ELSE jobs'[j].locked_by = None /\ jobs'[j].age # 2
  BY <1>1, <1>2, <1>3, <1>4, <1>5
<1>7. Locked \subseteq DOMAIN jobs'
  BY <1>2 DEF Locked
<1> QED
  BY <1>2, <1>6, <1>7, NoLockTouched

LEMMA AddJobUnsafeDedupeReleases ==
  ASSUME StoreInv, NEW k, NEW q, NEW m, NEW due, AddJobUnsafeDedupe(k, q, m, due)
  PROVE  Releases({})
<1>1. nextId \notin DOMAIN jobs
  BY StoreAssumption DEF StoreInv, StoreTypeOK, JobId
<1>2. NewRow(k, q, m, due).locked_by = None /\ NewRow(k, q, m, due).age = 0
  BY DEF NewRow
<1> QED
  BY <1>1, <1>2, NoLockTouched DEF AddJobUnsafeDedupe, Locked

LEMMA DeleteJobsReleases ==
  ASSUME NEW S, \A j \in S \cap DOMAIN jobs : jobs[j].locked_by = None, DeleteJobs(S)
  PROVE  Releases({})
BY NoLockTouched DEF DeleteJobs, Locked

\* The administration functions skip locks that are younger than four hours.
LEMMA EditableUnlocked ==
  ASSUME StoreInv, NEW j \in DOMAIN jobs, Editable(jobs[j])
  PROVE  jobs[j].locked_by = None
BY DEF StoreInv, Young, Editable

LEMMA RemoveJobReleases ==
  ASSUME StoreInv, NEW k, RemoveJob(k)
  PROVE  Releases({})
<1> DEFINE rows == WithKey(k)
<1>1. rows \subseteq DOMAIN jobs
  BY DEF WithKey
<1>2. CASE (\A j \in rows : Editable(jobs[j])) /\ DeleteJobs(rows)
  BY <1>1, <1>2, EditableUnlocked, DeleteJobsReleases
<1>3. CASE /\ jobs' = [j \in DOMAIN jobs |->
                          IF j \in rows THEN Superseded(jobs[j]) ELSE jobs[j]]
           /\ UNCHANGED queues
  <2>1. \A j \in DOMAIN jobs : /\ Superseded(jobs[j]).locked_by = jobs[j].locked_by
                              /\ Superseded(jobs[j]).queue = jobs[j].queue
                              /\ Superseded(jobs[j]).age = jobs[j].age
    BY DEF Superseded, StoreInv, StoreTypeOK, Row
  <2> QED
    BY <1>3, <2>1, NoLockTouched DEF Locked
<1> QED
  BY <1>2, <1>3 DEF RemoveJob

LEMMA PermanentlyFailJobsReleases ==
  ASSUME StoreInv, NEW j \in DOMAIN jobs, PermanentlyFailJobs(j)
  PROVE  Releases({})
<1>1. \A n : LET row == [jobs[j] EXCEPT !.attempts = n]
             IN  /\ row.locked_by = jobs[j].locked_by /\ row.queue = jobs[j].queue
                 /\ row.age = jobs[j].age
  BY DEF StoreInv, StoreTypeOK, Row
<1> QED
  BY <1>1, NoLockTouched DEF PermanentlyFailJobs, Locked

LEMMA RescheduleJobsReleases ==
  ASSUME StoreInv, NEW j \in DOMAIN jobs, NEW due, NEW attempts, NEW max_attempts,
         RescheduleJobs(j, due, attempts, max_attempts)
  PROVE  Releases({})
<1> DEFINE row == RescheduledRow(jobs[j], due, attempts, max_attempts)
<1>1. /\ row.locked_by = jobs[j].locked_by /\ row.queue = jobs[j].queue
      /\ row.age = jobs[j].age
  BY DEF StoreInv, StoreTypeOK, Row, RescheduledRow
<1> HIDE DEF row
<1>2. jobs' = [jobs EXCEPT ![j] = row] /\ UNCHANGED queues
  BY DEF RescheduleJobs, row
<1> QED
  BY <1>1, <1>2, NoLockTouched DEF Locked

LEMMA TimeReleases ==
  ASSUME StoreInv, MaxAge < 2,
         \/ \E j \in DOMAIN jobs : BecomeDue(j) \/ AgeJobLock(j)
         \/ \E q \in Queue : AgeQueueLock(q)
  PROVE  Releases({})
<1>1. ASSUME NEW j \in DOMAIN jobs, BecomeDue(j) PROVE Releases({})
  <2>1. LET row == [jobs[j] EXCEPT !.due = TRUE]
        IN  /\ row.locked_by = jobs[j].locked_by /\ row.queue = jobs[j].queue
            /\ row.age = jobs[j].age
    BY DEF StoreInv, StoreTypeOK, Row
  <2> QED
    BY <1>1, <2>1, NoLockTouched DEF BecomeDue, Locked
<1>2. ASSUME NEW j \in DOMAIN jobs, AgeJobLock(j) PROVE Releases({})
  <2>1. LET row == [jobs[j] EXCEPT !.age = @ + 1]
        IN  /\ row.locked_by = jobs[j].locked_by /\ row.queue = jobs[j].queue
            /\ row.age # 2
    BY <1>2, StoreAssumption DEF StoreInv, StoreTypeOK, Row, AgeJobLock
  <2> QED
    BY <1>2, <2>1, NoLockTouched DEF AgeJobLock, Locked
<1>3. ASSUME NEW q \in Queue, AgeQueueLock(q) PROVE Releases({})
  <2>1. [queues[q] EXCEPT !.age = @ + 1].locked_by = queues[q].locked_by
    BY DEF StoreInv, StoreTypeOK, Lock
  <2>2. \A p \in Queue : queues'[p].locked_by = queues[p].locked_by
    BY <1>3, <2>1 DEF AgeQueueLock, StoreInv, StoreTypeOK
  <2> QED
    BY <1>3, <2>2 DEF AgeQueueLock, Releases, Locked
<1> QED
  BY <1>1, <1>2, <1>3

-----------------------------------------------------------------------------
\* get_job and batch_get_jobs lock rows whose queues are free, at most one of each.
LEMMA ClaimJobsKeepStoreInv ==
  ASSUME StoreInv, NEW w \in Worker, NEW S, S \subseteq Claimable, OnePerQueue(S),
         ClaimJobs(w, S)
  PROVE  /\ StoreInv'
         /\ DOMAIN jobs' = DOMAIN jobs
         /\ \A j \in DOMAIN jobs : /\ jobs'[j].queue = jobs[j].queue
                                  /\ jobs'[j].locked_by = IF j \in S THEN w ELSE jobs[j].locked_by
<1>1. StoreTypeOK'
  BY ClaimJobsType DEF StoreInv
<1>2. S \subseteq DOMAIN jobs /\ w # None /\ None \notin Queue
  BY StoreAssumption DEF Claimable
<1>3. \A j \in S : LET row == [jobs[j] EXCEPT !.attempts = @ + 1, !.locked_by = w, !.age = 0]
                  IN  row.locked_by = w /\ row.queue = jobs[j].queue /\ row.age = 0
  BY <1>2 DEF StoreInv, StoreTypeOK, Row
<1>4. /\ DOMAIN jobs' = DOMAIN jobs
      /\ \A j \in DOMAIN jobs : IF j \in S
           THEN jobs'[j].locked_by = w /\ jobs'[j].queue = jobs[j].queue /\ jobs'[j].age = 0
           ELSE jobs'[j] = jobs[j]
  BY Zenon, <1>2, <1>3 DEF ClaimJobs
<1>5. \A q \in Queue : queues'[q].locked_by =
        IF \E j \in S : jobs[j].queue = q THEN w ELSE queues[q].locked_by
  <2>1. queues' = [q \in Queue |-> IF \E j \in S : jobs[j].queue = q
                                    THEN [locked_by |-> w, age |-> 0] ELSE queues[q]]
    BY Zenon DEF ClaimJobs
  <2> QED
    BY <2>1
<1>6. \A j \in S : jobs[j].locked_by = None /\
        (jobs[j].queue # None => queues[jobs[j].queue].locked_by = None)
  BY DEF Claimable, IsAvailable
<1>7. \A j \in DOMAIN jobs : jobs[j].queue \in Queue \cup {None} /\
                             jobs[j].locked_by \in Worker \cup {None}
  BY DEF StoreInv, StoreTypeOK, Row
<1>8. \A j \in S : jobs[j].queue # None =>
        ~\E i \in DOMAIN jobs : jobs[i].queue = jobs[j].queue /\ jobs[i].locked_by # None
  BY <1>2, <1>6, <1>7, StoreAssumption DEF StoreInv, QueueLockBacked
<1>9. QueueSerial'
  BY <1>2, <1>4, <1>6, <1>8 DEF QueueSerial, OnePerQueue, StoreInv
<1>10. QueueLockBacked'
  <2> SUFFICES ASSUME NEW q \in Queue, NEW v \in Worker
               PROVE  queues'[q].locked_by = v <=>
                        \E j \in DOMAIN jobs' : jobs'[j].queue = q /\ jobs'[j].locked_by = v
    BY DEF QueueLockBacked
  <2>1. v # None /\ q # None
    BY StoreAssumption
  <2>2. CASE \E j \in S : jobs[j].queue = q
    <3>1. PICK j \in S : jobs[j].queue = q
      BY <2>2
    <3>2. queues'[q].locked_by = w
      BY <1>5, <2>2
    <3>3. j \in DOMAIN jobs' /\ jobs'[j].queue = q /\ jobs'[j].locked_by = w
      BY <1>2, <1>4, <3>1
    <3>4. \A i \in DOMAIN jobs' : jobs'[i].queue = q /\ jobs'[i].locked_by = v => i \in S
      BY <1>4, <1>8, <2>1, <3>1
    <3> QED
      BY <1>2, <1>4, <3>2, <3>3, <3>4
  <2>3. CASE ~\E j \in S : jobs[j].queue = q
    <3>1. queues'[q].locked_by = queues[q].locked_by
      BY <1>5, <2>3
    <3>2. \A i \in DOMAIN jobs : jobs[i].queue = q \/ jobs'[i].queue = q => jobs'[i] = jobs[i]
      BY <1>4, <2>3
    <3> QED
      BY <1>4, <3>1, <3>2 DEF StoreInv, QueueLockBacked
  <2> QED
    BY <2>2, <2>3
<1>11. Young'
  BY <1>4 DEF Young, StoreInv
<1> QED
  BY <1>1, <1>4, <1>9, <1>10, <1>11 DEF StoreInv

LEMMA StoreInvUnchanged ==
  ASSUME StoreInv, StoreTypeOK', UNCHANGED <<jobs, queues>>
  PROVE  StoreInv'
<1>1. QueueSerial' /\ Young'
  BY DEF StoreInv, QueueSerial, Young
<1>2. QueueLockBacked'
  BY DEF StoreInv, QueueLockBacked
<1> QED
  BY <1>1, <1>2 DEF StoreInv
=============================================================================
