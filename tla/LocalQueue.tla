----------------------------- MODULE LocalQueue -----------------------------
(***************************************************************************)
(* The local queue of one worker process: a fetch loop fills a cache of    *)
(* claimed jobs, job slots take them, and a TTL timer and the shutdown     *)
(* return what nobody took.                                                *)
(*                                                                         *)
(* The fetch loop, the slots, the TTL timer, the refetch-delay timer and   *)
(* the releasing task are tasks of one process that run in parallel.  A    *)
(* step ends where a task awaits a lock, a statement or a wakeup, or where *)
(* another task can see what it did.                                       *)
(***************************************************************************)
EXTENDS Naturals, FiniteSets

CONSTANTS
  Job,          \* job ids
  Slot,         \* the concurrency slots of the worker
  None,         \* no value
  Size,         \* config.size: the largest batch
  Threshold,    \* refetch_delay.threshold, or None without a refetch delay
  MaxAbort,     \* bound: the largest abort threshold drawn
  MaxAttempts,  \* RETURN_JOBS_RETRY_OPTIONS.max_attempts
  MaxReleases,  \* bound: how often release() is called
  Direct,       \* whether get_job is also called with flags: the worker never does
  Others,       \* whether the worker has another queue
  Pulses,       \* whether notifications and freed queues pulse the queue
  DbErrors      \* whether statements may fail or their answers be lost

ASSUME LocalQueueAssumption ==
  /\ None \notin Job /\ None \notin Nat
  /\ Size \in Nat \ {0} /\ Threshold \in Nat \cup {None}
  /\ MaxAbort \in Nat \ {0} /\ MaxAttempts \in Nat \ {0} /\ MaxReleases \in Nat
  /\ Direct \in BOOLEAN /\ Others \in BOOLEAN /\ Pulses \in BOOLEAN /\ DbErrors \in BOOLEAN

VARIABLES
  owner,        \* job -> "free", "self" (locked by this worker) or "done"
  lost,         \* jobs locked by a claim whose answer was lost
  other,        \* claims of another queue of this worker, and whether it returns them
  mode,         \* LocalQueueMode
  cache,        \* job_queue
  pending,      \* pending_returns.jobs
  permit,       \* pending_returns.permit: no claims of this worker meanwhile
  ttlComplete,  \* ttl_return_complete
  loop,         \* where the fetch loop is
  fetched,      \* the batch the fetch loop received and has not cached
  wake,         \* the stored permit of state_notify
  again,        \* fetch_again
  delay,        \* the refetch delay
  task,         \* where the TTL timer and the releasing task are
  attempt,      \* failed attempts of the return in progress
  releases,     \* calls of release() that are still to come
  slots         \* slot -> where it is in get_job, and the job it runs

rows == <<owner, lost, other>>
claimVars == <<cache, pending, permit>>
loopVars == <<loop, fetched, wake, again>>
taskVars == <<task, attempt, releases>>
vars == <<rows, mode, ttlComplete, claimVars, loopVars, delay, taskVars, slots>>

Mode == {"Starting", "Polling", "Waiting", "TtlExpired", "Released"}

\* "listen": the loop has decided to wait and not yet registered as a waiter.
LoopStep == {"start", "check", "listen", "waiting", "fetch", "sql", "fetched", "cache", "received",
             "arm", "after", "sleep", "done"}

Returner == {"ttl", "release"}

\* "return": to return_cached_jobs.  "drain", "send", "ack": the cache is to be
\* drained, the statement to be sent, or committed and not answered yet.
TaskStep == {"none", "armed", "expired", "return", "drain", "send", "ack", "store", "released",
             "notified", "complete"}

\* "notify": the mode is written and the waiters are not notified yet.
SlotStep == {"idle", "reset", "pop", "drained", "notify", "run", "direct"}

Init ==
  /\ owner = [j \in Job |-> "free"] /\ lost = {} /\ other = [jobs |-> {}, returning |-> FALSE]
  /\ mode = "Starting" /\ ttlComplete = FALSE
  /\ cache = {} /\ pending = {} /\ permit = FALSE
  /\ loop = "start" /\ fetched = {} /\ wake = FALSE /\ again = FALSE
  /\ delay = [active |-> FALSE, timer |-> "none", aborted |-> FALSE, counter |-> 0,
              threshold |-> MaxAbort, wake |-> FALSE]
  /\ task = [r \in Returner |-> "none"] /\ attempt = 0 /\ releases = MaxReleases
  /\ slots = [s \in Slot |-> [step |-> "idle", job |-> None]]

TypeOK ==
  /\ owner \in [Job -> {"free", "self", "done"}] /\ lost \subseteq Job
  /\ other \in [jobs : SUBSET Job, returning : BOOLEAN]
  /\ mode \in Mode /\ ttlComplete \in BOOLEAN
  /\ cache \subseteq Job /\ pending \subseteq Job /\ permit \in BOOLEAN
  /\ loop \in LoopStep /\ fetched \subseteq Job /\ wake \in BOOLEAN /\ again \in BOOLEAN
  /\ delay \in [active : BOOLEAN, timer : {"none", "running", "aborting", "aborted"}, aborted : BOOLEAN,
                counter : 0..MaxAbort, threshold : 1..MaxAbort, wake : BOOLEAN]
  /\ task \in [Returner -> TaskStep] /\ attempt \in 0..MaxAttempts /\ releases \in 0..MaxReleases
  /\ slots \in [Slot -> [step : SlotStep, job : Job \cup {None}]]

-----------------------------------------------------------------------------
(* Waking the fetch loop, and modes.                                       *)

Listening == loop \in {"waiting", "sleep"}

\* notify_one stores a permit when the loop is not waiting, notify_waiters not.
NotifyOne ==
  /\ loop' = IF Listening THEN "check" ELSE loop
  /\ wake' = (wake \/ ~Listening)
  /\ UNCHANGED <<fetched, again>>

NotifyWaiters ==
  /\ loop' = IF Listening THEN "check" ELSE loop
  /\ UNCHANGED <<fetched, wake, again>>

\* A direct get_job holds the mode's read guard while its statement runs.
ModeWritable == \A s \in Slot : slots[s].step # "direct"

\* Faulty: Released is not terminal.
SetsAnyMode(new) ==
  /\ mode # new
  /\ mode = "TtlExpired" /\ new = "Polling" => ttlComplete

SetsMode(new) ==
  /\ mode \notin {new, "Released"}
  /\ mode = "TtlExpired" /\ new = "Polling" => ttlComplete

SetMode(new) ==
  /\ ModeWritable
  /\ mode' = IF SetsMode(new) THEN new ELSE mode

-----------------------------------------------------------------------------
(* The fetch loop.                                                         *)

Goto(step) == loop' = step /\ UNCHANGED <<fetched, wake, again>>

Started ==
  /\ loop = "start" /\ SetMode("Polling") /\ Goto("check")
  /\ UNCHANGED <<rows, ttlComplete, claimVars, delay, taskVars, slots>>

CheckMode ==
  /\ loop = "check"
  /\ Goto(CASE mode = "Released" -> "done"
            [] mode = "Polling" /\ ~delay.active -> "fetch"
            [] OTHER -> "listen")
  /\ UNCHANGED <<rows, mode, ttlComplete, claimVars, delay, taskVars, slots>>

\* notified().await: a stored permit ends the wait at once.
Listen ==
  /\ loop = "listen"
  /\ loop' = IF wake THEN "check" ELSE "waiting"
  /\ wake' = FALSE
  /\ UNCHANGED <<fetched, again, rows, mode, ttlComplete, claimVars, delay, taskVars, slots>>

\* Faulty: every queue has a coordinator of its own.
ExcludedAlone == permit

\* The coordinator is shared by the queues of a worker: pending returns of any of
\* them exclude claims of all.
Excluded == permit \/ other.returning

\* ClaimCoordinator::try_fetch, which also fails while a return waits for its
\* permit; then the flags are reset before the statement.
BeginFetch ==
  /\ loop = "fetch"
  /\ \/ /\ Excluded \/ other.jobs # {} \/ \E r \in Returner : task[r] = "return"
        /\ Goto("after") /\ UNCHANGED delay
     \/ /\ ~Excluded
        /\ loop' = "sql" /\ again' = FALSE /\ delay' = [delay EXCEPT !.counter = 0]
        /\ UNCHANGED <<fetched, wake>>
  /\ UNCHANGED <<rows, mode, ttlComplete, claimVars, taskVars, slots>>

\* The loop is not waiting when its own fetch calls notify_one.
FetchAnswered ==
  /\ loop = "sql"
  /\ \E S \in SUBSET {j \in Job : owner[j] = "free"} :
       /\ Cardinality(S) <= Size
       /\ owner' = [j \in Job |-> IF j \in S THEN "self" ELSE owner[j]]
       /\ \/ loop' = "fetched" /\ fetched' = S /\ UNCHANGED lost
          \/ DbErrors /\ loop' = "after" /\ lost' = lost \cup S /\ UNCHANGED fetched
  /\ wake' = TRUE
  /\ UNCHANGED <<other, again, mode, ttlComplete, claimVars, delay, taskVars, slots>>

\* start_refetch_delay spawns the timer, which an old abort permit ends at once.
StartRefetchDelay ==
  \E threshold \in 1..MaxAbort :
    delay' = [delay EXCEPT !.active = TRUE, !.aborted = FALSE, !.threshold = threshold,
                           !.timer = IF delay.wake THEN "aborting" ELSE "running", !.wake = FALSE]

LowYield == Cardinality(fetched) < Size /\ Threshold # None /\ Cardinality(fetched) <= Threshold

DelayRefetch ==
  /\ loop = "fetched"
  /\ IF LowYield THEN StartRefetchDelay ELSE UNCHANGED delay
  /\ Goto(IF fetched = {} THEN "after" ELSE "cache")
  /\ UNCHANGED <<rows, mode, ttlComplete, claimVars, taskVars, slots>>

CacheFetched ==
  /\ loop = "cache"
  /\ cache' = cache \cup fetched
  /\ Goto("received")
  /\ UNCHANGED <<rows, mode, ttlComplete, pending, permit, delay, taskVars, slots>>

SetWaiting ==
  /\ loop = "received"
  /\ SetMode("Waiting") /\ Goto("arm")
  /\ UNCHANGED <<rows, ttlComplete, claimVars, delay, taskVars, slots>>

\* start_ttl_timer replaces and aborts the timer of the batch before.
StartTtlTimer ==
  /\ loop = "arm"
  /\ task' = [task EXCEPT !["ttl"] = "armed"]
  /\ loop' = "after" /\ fetched' = {} /\ again' = (again \/ Cardinality(fetched) >= Size)
  /\ UNCHANGED <<wake, rows, mode, ttlComplete, claimVars, delay, attempt, releases, slots>>

AfterFetch ==
  /\ loop = "after"
  /\ IF mode = "Polling"
     THEN LET soon == again \/ delay.aborted IN
          /\ again' = FALSE /\ delay' = [delay EXCEPT !.aborted = FALSE]
          /\ loop' = IF soon \/ wake THEN "check" ELSE "sleep"
          /\ wake' = (wake /\ soon)
     ELSE loop' = "check" /\ UNCHANGED <<again, delay, wake>>
  /\ UNCHANGED <<fetched, rows, mode, ttlComplete, claimVars, taskVars, slots>>

PollIntervalOver ==
  /\ loop = "sleep" /\ Goto("check")
  /\ UNCHANGED <<rows, mode, ttlComplete, claimVars, delay, taskVars, slots>>

-----------------------------------------------------------------------------
(* The refetch delay and pulses.                                           *)

\* refetch_delay_complete wakes the loop before it asks for another fetch.
DelayOver ==
  /\ delay.timer \in {"running", "aborting"}
  /\ delay' = [delay EXCEPT !.active = FALSE,
                            !.timer = IF @ = "aborting" THEN "aborted" ELSE "none"]
  /\ NotifyOne
  /\ UNCHANGED <<rows, mode, ttlComplete, claimVars, taskVars, slots>>

DelayAborted ==
  /\ delay.timer = "aborted"
  /\ delay' = [delay EXCEPT !.timer = "none", !.aborted = TRUE]
  /\ UNCHANGED <<rows, mode, ttlComplete, claimVars, loopVars, taskVars, slots>>

\* notify_one of abort_notify: the permit is stored unless the timer is waiting.
AbortDelay ==
  IF delay.timer = "running" THEN [delay EXCEPT !.timer = "aborting"]
                             ELSE [delay EXCEPT !.wake = TRUE]


Counted == IF delay.counter < MaxAbort THEN delay.counter + 1 ELSE MaxAbort

\* pulse(1): the counter only matters up to the threshold.
Pulse ==
  /\ Pulses
  /\ delay' = [(IF delay.active /\ Counted >= delay.threshold THEN AbortDelay ELSE delay)
                 EXCEPT !.counter = Counted]
  /\ \/ mode = "Polling" /\ loop = "sql" /\ wake' = TRUE /\ again' = TRUE /\ UNCHANGED <<loop, fetched>>
     \/ mode = "Polling" /\ loop # "sql" /\ ~delay.active /\ NotifyOne
     \/ mode # "Polling" /\ UNCHANGED loopVars
     \/ mode = "Polling" /\ loop # "sql" /\ delay.active /\ UNCHANGED loopVars
  /\ UNCHANGED <<rows, mode, ttlComplete, claimVars, taskVars, slots>>

-----------------------------------------------------------------------------
(* Returning cached claims.                                                *)

TaskGoto(r, step) == task' = [task EXCEPT ![r] = step]

TtlOver ==
  /\ task["ttl"] = "armed"
  /\ TaskGoto("ttl", IF mode = "Waiting" THEN "expired" ELSE "none")
  /\ UNCHANGED <<rows, mode, ttlComplete, claimVars, loopVars, delay, attempt, releases, slots>>

SetModeTtlExpired ==
  /\ task["ttl"] = "expired" /\ ModeWritable
  /\ IF mode = "Waiting"
     THEN mode' = "TtlExpired" /\ ttlComplete' = FALSE /\ TaskGoto("ttl", "return")
     ELSE TaskGoto("ttl", "none") /\ UNCHANGED <<mode, ttlComplete>>
  /\ UNCHANGED <<rows, claimVars, loopVars, delay, attempt, releases, slots>>

StoreTtlComplete ==
  /\ task["ttl"] = "store"
  /\ ttlComplete' = TRUE /\ TaskGoto("ttl", "none")
  /\ UNCHANGED <<rows, mode, claimVars, loopVars, delay, attempt, releases, slots>>

\* Claims of this worker that hold the coordinator's read guard.
Claiming == loop = "sql" \/ \E s \in Slot : slots[s].step = "direct"

Returned(r) == IF r = "ttl" THEN "store" ELSE "complete"

\* return_cached_jobs holds the pending returns until it ends.
BeginReturn(r) ==
  /\ task[r] = "return"
  /\ \A q \in Returner : task[q] \notin {"drain", "send", "ack"}
  /\ permit \/ ~Claiming
  /\ permit' = TRUE /\ TaskGoto(r, "drain")
  /\ UNCHANGED <<rows, mode, ttlComplete, cache, pending, loopVars, delay, attempt, releases, slots>>

\* Faulty: the claims are copied and stay in the cache.
CopyCache(r) ==
  /\ task[r] = "drain"
  /\ pending' = pending \cup cache
  /\ permit' = (pending' # {})
  /\ TaskGoto(r, IF pending' = {} THEN Returned(r) ELSE "send")
  /\ attempt' = 0
  /\ UNCHANGED <<rows, mode, ttlComplete, cache, loopVars, delay, releases, slots>>

DrainCache(r) ==
  /\ task[r] = "drain"
  /\ pending' = pending \cup cache /\ cache' = {}
  /\ permit' = (pending' # {})
  /\ TaskGoto(r, IF pending' = {} THEN Returned(r) ELSE "send")
  /\ attempt' = 0
  /\ UNCHANGED <<rows, mode, ttlComplete, loopVars, delay, releases, slots>>

\* return_jobs unlocks those of the rows that this worker has locked.
ReturnCommitted(r) ==
  /\ task[r] = "send"
  /\ owner' = [j \in Job |-> IF j \in pending /\ owner[j] = "self" THEN "free" ELSE owner[j]]
  /\ TaskGoto(r, "ack")
  /\ UNCHANGED <<lost, other, mode, ttlComplete, claimVars, loopVars, delay, attempt, releases, slots>>

ReturnAnswered(r) ==
  /\ task[r] = "ack"
  /\ pending' = {} /\ permit' = FALSE
  /\ TaskGoto(r, Returned(r))
  /\ UNCHANGED <<rows, mode, ttlComplete, cache, loopVars, delay, attempt, releases, slots>>


\* The statement failed or its answer was lost.  After the last attempt the claims
\* stay pending.
ReturnFailed(r) ==
  /\ DbErrors /\ task[r] \in {"send", "ack"}
  /\ attempt' = attempt + 1
  /\ TaskGoto(r, IF attempt' < MaxAttempts THEN "send" ELSE "none")
  /\ UNCHANGED <<rows, mode, ttlComplete, claimVars, loopVars, delay, releases, slots>>

-----------------------------------------------------------------------------
(* Shutdown: release().                                                    *)

Release ==
  /\ task["release"] = "none" /\ releases > 0 /\ ModeWritable
  /\ releases' = releases - 1
  /\ mode' = "Released"
  /\ TaskGoto("release", "released")
  /\ UNCHANGED <<rows, ttlComplete, claimVars, loopVars, delay, attempt, slots>>

\* Faulty: a loop that has not registered as a waiter misses the notification.
ReleaseNotifyWaiters ==
  /\ task["release"] = "released"
  /\ delay' = [delay EXCEPT !.active = FALSE,
                            !.timer = IF @ = "running" THEN "aborting" ELSE @]
  /\ NotifyWaiters
  /\ task' = [r \in Returner |-> IF r = "ttl" THEN "none" ELSE "notified"]
  /\ UNCHANGED <<rows, mode, ttlComplete, claimVars, attempt, releases, slots>>

\* The loop and the delay are woken and the TTL timer aborted, whatever it does.
ReleaseNotify ==
  /\ task["release"] = "released"
  /\ delay' = [delay EXCEPT !.active = FALSE,
                            !.timer = IF @ = "running" THEN "aborting" ELSE @]
  /\ NotifyOne
  /\ task' = [r \in Returner |-> IF r = "ttl" THEN "none" ELSE "notified"]
  /\ UNCHANGED <<rows, mode, ttlComplete, claimVars, attempt, releases, slots>>


RunComplete ==
  /\ task["release"] = "notified" /\ loop = "done"
  /\ delay' = [delay EXCEPT !.timer = "none"]
  /\ task' = [r \in Returner |-> IF r = "ttl" THEN "none" ELSE "return"]
  /\ UNCHANGED <<rows, mode, ttlComplete, claimVars, loopVars, attempt, releases, slots>>

-----------------------------------------------------------------------------
(* Job slots.                                                              *)

SlotGoto(s, step) == slots' = [slots EXCEPT ![s].step = step]

GetJob(s) ==
  /\ slots[s].step = "idle" /\ mode # "Released"
  /\ SlotGoto(s, IF mode = "TtlExpired" /\ ttlComplete THEN "reset" ELSE "pop")
  /\ UNCHANGED <<rows, mode, ttlComplete, claimVars, loopVars, delay, taskVars>>

ResetMode(s) ==
  /\ slots[s].step = "reset"
  /\ SetMode("Polling") /\ SlotGoto(s, IF SetsMode("Polling") THEN "notify" ELSE "pop")
  /\ UNCHANGED <<rows, ttlComplete, claimVars, loopVars, delay, taskVars>>

\* get_job_from_cache keeps the mode from changing while it takes the job.
TakeCached(s) ==
  /\ slots[s].step = "pop"
  /\ IF mode \in {"Released", "TtlExpired"} \/ cache = {}
     THEN SlotGoto(s, "idle") /\ UNCHANGED cache
     ELSE \E j \in cache :
            /\ cache' = cache \ {j}
            /\ slots' = [slots EXCEPT ![s] = [step |-> IF cache' = {} THEN "drained" ELSE "run",
                                              job |-> j]]
  /\ UNCHANGED <<rows, mode, ttlComplete, pending, permit, loopVars, delay, taskVars>>

Drained(s) ==
  /\ slots[s].step = "drained"
  /\ SetMode("Polling") /\ SlotGoto(s, IF SetsMode("Polling") THEN "notify" ELSE "run")
  /\ UNCHANGED <<rows, ttlComplete, claimVars, loopVars, delay, taskVars>>

\* set_mode emits its hook and then notifies the waiters of state_notify.
NotifyMode(s) ==
  /\ slots[s].step = "notify"
  /\ NotifyWaiters /\ SlotGoto(s, IF slots[s].job = None THEN "pop" ELSE "run")
  /\ UNCHANGED <<rows, mode, ttlComplete, claimVars, delay, taskVars>>

\* get_job with flags asks the database; it holds both read guards meanwhile.
GetJobDirect(s) ==
  /\ Direct /\ slots[s].step = "idle" /\ mode # "Released" /\ ~Excluded
  /\ SlotGoto(s, "direct")
  /\ UNCHANGED <<rows, mode, ttlComplete, claimVars, loopVars, delay, taskVars>>

DirectAnswered(s) ==
  /\ slots[s].step = "direct"
  /\ \/ SlotGoto(s, "idle") /\ UNCHANGED <<owner, lost>>
     \/ \E j \in Job :
          /\ owner[j] = "free" /\ owner' = [owner EXCEPT ![j] = "self"]
          /\ \/ slots' = [slots EXCEPT ![s] = [step |-> "run", job |-> j]] /\ UNCHANGED lost
             \/ DbErrors /\ SlotGoto(s, "idle") /\ lost' = lost \cup {j}
  /\ UNCHANGED <<other, mode, ttlComplete, claimVars, loopVars, delay, taskVars>>

\* The handler ended: the job is deleted, or unlocked to be retried.
FinishJob(s) ==
  /\ slots[s].step = "run"
  /\ \E after \in {"done", "free"} : owner' = [owner EXCEPT ![slots[s].job] = after]
  /\ slots' = [slots EXCEPT ![s] = [step |-> "idle", job |-> None]]
  /\ UNCHANGED <<lost, other, mode, ttlComplete, claimVars, loopVars, delay, taskVars>>

-----------------------------------------------------------------------------
(* Another queue of the same worker, as far as this one can tell: it claims and *)
(* returns jobs under the same worker id.                                      *)

OtherFetch ==
  /\ Others /\ ~Excluded /\ other.jobs = {}
  /\ \E j \in Job :
       /\ owner[j] = "free" /\ owner' = [owner EXCEPT ![j] = "self"]
       /\ other' = [other EXCEPT !.jobs = {j}]
  /\ UNCHANGED <<lost, mode, ttlComplete, claimVars, loopVars, delay, taskVars, slots>>

OtherBeginReturn ==
  /\ other.jobs # {} /\ ~other.returning /\ ~Claiming
  /\ other' = [other EXCEPT !.returning = TRUE]
  /\ UNCHANGED <<owner, lost, mode, ttlComplete, claimVars, loopVars, delay, taskVars, slots>>

\* The statement is sent again when its answer was lost.
OtherReturn ==
  /\ other.returning
  /\ owner' = [j \in Job |-> IF j \in other.jobs /\ owner[j] = "self" THEN "free" ELSE owner[j]]
  /\ \/ other' = [jobs |-> {}, returning |-> FALSE]
     \/ DbErrors /\ UNCHANGED other
  /\ UNCHANGED <<lost, mode, ttlComplete, claimVars, loopVars, delay, taskVars, slots>>

-----------------------------------------------------------------------------
(* The system.                                                             *)

FetchLoop ==
  \/ Started \/ CheckMode \/ Listen \/ BeginFetch \/ FetchAnswered \/ DelayRefetch
  \/ CacheFetched \/ SetWaiting \/ StartTtlTimer \/ AfterFetch \/ PollIntervalOver

TtlTimer ==
  \/ TtlOver \/ SetModeTtlExpired \/ StoreTtlComplete
  \/ BeginReturn("ttl") \/ DrainCache("ttl") \/ ReturnCommitted("ttl") \/ ReturnAnswered("ttl")
  \/ ReturnFailed("ttl")

Releasing ==
  \/ ReleaseNotify \/ RunComplete
  \/ BeginReturn("release") \/ DrainCache("release") \/ ReturnCommitted("release")
  \/ ReturnAnswered("release") \/ ReturnFailed("release")

Taking(s) ==
  \/ ResetMode(s) \/ TakeCached(s) \/ Drained(s) \/ NotifyMode(s) \/ DirectAnswered(s)
  \/ FinishJob(s)

Delaying == DelayOver \/ DelayAborted

Next ==
  \/ FetchLoop \/ TtlTimer \/ Releasing \/ Release \/ Delaying \/ Pulse
  \/ OtherFetch \/ OtherBeginReturn \/ OtherReturn
  \/ \E s \in Slot : GetJob(s) \/ GetJobDirect(s) \/ Taking(s)

Spec == Init /\ [][Next]_vars

\* Every task runs until it waits, statements are answered, timers fire, and slots
\* ask for jobs again and again.  The fairness is strong because the tasks wait for
\* write guards of async_lock's RwLock: it prefers writers, so a writer that waits
\* is not overtaken for ever by the readers of direct claims.
Fairness ==
  /\ SF_vars(FetchLoop) /\ SF_vars(TtlTimer) /\ SF_vars(Releasing) /\ WF_vars(Delaying)
  /\ \A s \in Slot : SF_vars(Taking(s)) /\ WF_vars(GetJob(s))

FairSpec == Spec /\ Fairness

-----------------------------------------------------------------------------
(* Properties.                                                             *)

Running == {slots[s].job : s \in Slot} \ {None}

Uncached == IF loop \in {"fetched", "cache"} THEN fetched ELSE {}

\* A cached or running job is locked by this worker: a return whose answer was
\* lost, sent again or cancelled, by this queue or another one of the worker, never
\* unlocks a job that was claimed since.
ClaimsLocked == \A j \in cache \cup Uncached \cup Running : owner[j] = "self"

\* Claims whose return may have committed must not reach a handler, and no claim
\* is handed out twice: a job is cached, running, or pending, never two of these.
OneHolder ==
  /\ pending \cap (cache \cup Uncached \cup Running) = {}
  /\ cache \cap (Uncached \cup Running) = {} /\ Uncached \cap Running = {}
  /\ \A s, t \in Slot : slots[s].job = slots[t].job /\ slots[s].job # None => s = t



\* Released is terminal, and no slot starts a job after it.
NoJobAfterRelease ==
  [][mode = "Released" => mode' = "Released" /\ Running' \subseteq Running]_vars

\* release() ends: neither the fetch loop, nor a refetch delay, nor a return in
\* progress keeps it waiting.
ReleaseEnds == (task["release"] = "released") ~> (task["release"] \in {"none", "complete"})

-----------------------------------------------------------------------------
(* What the documentation says and the code does not keep.                 *)

\* src/builder/core.rs on poll_interval: "The interval between database polls".  Without
\* jobs and pulses an answered fetch is followed by the interval.
PollsOnInterval ==
  [][loop = "after" /\ mode = "Polling" => loop' \in {"after", "sleep"}]_vars

\* docs/src/concepts/workers.md: "`poll_interval` controls how often the worker
\* checks PostgreSQL for work when notification delivery is not enough".
PollingKeepsFetching ==
  <>[](mode = "Polling" /\ ~permit /\ ~delay.active) => []<>(loop = "sql")

\* docs/src/guides/local-queue.md: "When TTL expires, unclaimed jobs are returned to
\* PostgreSQL and later fetches can poll again."
TtlReturnsToPolling == (mode = "TtlExpired") ~> (mode # "TtlExpired")

=============================================================================
