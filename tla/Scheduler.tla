----------------------------- MODULE Scheduler -----------------------------
(***************************************************************************)
(* GlobalScheduler over its SQLite repository: submit under _submit_lock,  *)
(* one thread that calls tick(), callers of cancel() in other threads (or  *)
(* in a dispatch callback), deadlines, and a process that may crash and    *)
(* start over with resume_interrupted().                                   *)
(*                                                                         *)
(* A job read from the repository is a copy and update() writes the whole  *)
(* copy back, so a copy may be stale when it is written.  Jobs are         *)
(* numbered by their place in the sort order of _ready (priority, age,     *)
(* id), which need not be the order in which they are submitted.           *)
(***************************************************************************)
EXTENDS Naturals, FiniteSets

(* The idempotency_key of a job that has none. *)
NoKey == ""

CONSTANTS N,           \* number of jobs
          Keys,        \* idempotency keys, besides NoKey
          MaxAttempts, \* ScheduledJob.max_attempts
          HasDispatch, \* a dispatch executor is configured
          MaxCancels,  \* bound on cancel() calls
          MaxCrashes   \* bound on crashes of the process

ASSUME SchedulerAssumption ==
    /\ N \in Nat
    /\ NoKey \notin Keys
    /\ MaxAttempts \in Nat \ {0}
    /\ HasDispatch \in BOOLEAN
    /\ MaxCancels \in Nat
    /\ MaxCrashes \in Nat

Jobs == 1..N
Terminal == {"SUCCEEDED", "FAILED", "CANCELLED"}
ScheduledStatus == Terminal \cup {"QUEUED", "RUNNING"}
Row == [status : ScheduledStatus \cup {"absent"}, attempts : Nat]

VARIABLES
    deps,       \* job -> the jobs it is submitted with as dependencies
    key,        \* job -> its idempotency_key
    row,        \* job -> its row in the repository
    late,       \* jobs whose deadline has passed
    pc,         \* where tick() is
    copy,       \* the ticker's copies, as _ready listed them
    missed,     \* jobs _ready found late and has still to fail
    batch,      \* jobs _ready returned and tick() has still to run
    cancelling, \* jobs whose cancel() is between its read and its write
    held,       \* job -> the copy that cancel() read
    cancels,
    crashes,
    dispatched, \* job -> how often it was handed to dispatch
    succeeded,  \* jobs whose success was recorded
    withdrawn   \* jobs cancelled while no tick() was in progress

jobVars == <<deps, key>>
tickVars == <<pc, copy, missed, batch>>
cancelVars == <<cancelling, held, cancels, withdrawn>>
vars == <<deps, key, row, late, pc, copy, missed, batch, cancelling, held, cancels,
          crashes, dispatched, succeeded, withdrawn>>

NoRow == [status |-> "absent", attempts |-> 0]
Empty == [j \in Jobs |-> NoRow]

Init ==
    /\ deps \in [Jobs -> SUBSET Jobs]
    /\ key \in [Jobs -> Keys \cup {NoKey}]
    /\ row = Empty
    /\ late = {}
    /\ pc = "idle"
    /\ copy = Empty
    /\ missed = {}
    /\ batch = {}
    /\ cancelling = {}
    /\ held = Empty
    /\ cancels = 0
    /\ crashes = 0
    /\ dispatched = [j \in Jobs |-> 0]
    /\ succeeded = {}
    /\ withdrawn = {}

Known == {j \in Jobs : row[j].status # "absent"}
First(S) == CHOOSE j \in S : \A k \in S : j <= k

-----------------------------------------------------------------------------
(* What submit requires of a new job: nobody holds its key, and every        *)
(* dependency is known.  Jobs are never removed and ids are never reused, so *)
(* a job whose dependencies are all known before it closes no cycle, and     *)
(* _assert_acyclic finds none.                                               *)
Accepted(j) ==
    /\ deps[j] \subseteq Known
    /\ key[j] # NoKey => \A k \in Known : key[k] # key[j]

(* submit, under _submit_lock; what is not accepted leaves no trace. *)
Submit(j) ==
    /\ j \notin Known
    /\ Accepted(j)
    /\ row' = [row EXCEPT ![j] = [status |-> "QUEUED", attempts |-> 0]]
    /\ UNCHANGED <<jobVars, late, tickVars, cancelVars, crashes, dispatched, succeeded>>

MutantReadyIn(rows) ==    \* dependencies need only have ended
    {j \in Jobs : /\ rows[j].status = "QUEUED" /\ j \notin late
                  /\ \A d \in deps[j] : rows[d].status \in Terminal}

(* The jobs _ready returns, from the rows it listed. *)
ReadyIn(rows) ==
    {j \in Jobs : /\ rows[j].status = "QUEUED" /\ j \notin late
                  /\ \A d \in deps[j] : rows[d].status = "SUCCEEDED"}

(* tick: _ready lists the repository; in quiet hours it returns nothing. *)
Tick ==
    /\ pc = "idle"
    /\ copy' = row
    /\ missed' = {j \in late : row[j].status = "QUEUED"}
    /\ \/ batch' = ReadyIn(row)
       \/ batch' = {}
    /\ pc' = IF missed' = {} /\ batch' = {} THEN "idle" ELSE "tick"
    /\ UNCHANGED <<jobVars, row, late, cancelVars, crashes, dispatched, succeeded>>

(* "deadline missed before execution" *)
MissDeadline ==
    /\ pc = "tick"
    /\ \E j \in missed :
          /\ row' = [row EXCEPT ![j] = [copy[j] EXCEPT !.status = "FAILED"]]
          /\ missed' = missed \ {j}
    /\ pc' = IF missed' = {} /\ batch = {} THEN "idle" ELSE "tick"
    /\ UNCHANGED <<jobVars, late, copy, batch, cancelVars, crashes, dispatched,
                   succeeded>>

(* _run_one of the first job left: marked RUNNING, from the copy. *)
Start ==
    /\ pc = "tick"
    /\ missed = {}
    /\ batch # {}
    /\ LET j == First(batch)
           running == [status |-> "RUNNING", attempts |-> copy[j].attempts + 1]
       IN /\ copy' = [copy EXCEPT ![j] = running]
          /\ row' = [row EXCEPT ![j] = running]
    /\ pc' = "route"
    /\ UNCHANGED <<jobVars, late, missed, batch, cancelVars, crashes, dispatched,
                   succeeded>>

(* The job's last write in this tick, after which tick goes on to the next. *)
Conclude(status) ==
    LET j == First(batch) IN
    /\ row' = [row EXCEPT ![j] = [copy[j] EXCEPT !.status = status]]
    /\ batch' = batch \ {j}
    /\ pc' = IF batch' = {} THEN "idle" ELSE "tick"
    /\ succeeded' = IF status = "SUCCEEDED" THEN succeeded \cup {j} ELSE succeeded

MutantRouteFails ==    \* a status that ScheduledStatus does not have
    /\ pc = "route"
    /\ Conclude("UNROUTED")
    /\ UNCHANGED <<jobVars, late, copy, missed, cancelVars, crashes, dispatched>>

(* No executor or no route: _finish with FAILED. *)
RouteFails ==
    /\ pc = "route"
    /\ Conclude("FAILED")
    /\ UNCHANGED <<jobVars, late, copy, missed, cancelVars, crashes, dispatched>>

(* Routed: the provider is recorded and the job handed to dispatch. *)
Route ==
    /\ pc = "route"
    /\ HasDispatch
    /\ LET j == First(batch)
       IN /\ row' = [row EXCEPT ![j] = copy[j]]
          /\ dispatched' = [dispatched EXCEPT ![j] = @ + 1]
    /\ pc' = "dispatch"
    /\ UNCHANGED <<jobVars, late, copy, missed, batch, cancelVars, crashes, succeeded>>

MutantDispatchRaises ==    \* off by one: one attempt too many
    /\ pc = "dispatch"
    /\ Conclude(IF copy[First(batch)].attempts <= MaxAttempts THEN "QUEUED" ELSE "FAILED")
    /\ UNCHANGED <<jobVars, late, copy, missed, cancelVars, crashes, dispatched>>

(* dispatch raises: queued again, or failed when the attempts are used up. *)
DispatchRaises ==
    /\ pc = "dispatch"
    /\ Conclude(IF copy[First(batch)].attempts < MaxAttempts THEN "QUEUED" ELSE "FAILED")
    /\ UNCHANGED <<jobVars, late, copy, missed, cancelVars, crashes, dispatched>>

MutantDispatchReturns ==    \* the success is not written back
    /\ pc = "dispatch"
    /\ batch' = batch \ {First(batch)}
    /\ pc' = IF batch' = {} THEN "idle" ELSE "tick"
    /\ succeeded' = succeeded \cup {First(batch)}
    /\ UNCHANGED <<jobVars, row, late, copy, missed, cancelVars, crashes, dispatched>>

DispatchReturns ==
    /\ pc = "dispatch"
    /\ Conclude("SUCCEEDED")
    /\ UNCHANGED <<jobVars, late, copy, missed, cancelVars, crashes, dispatched>>

Ticker ==
    \/ Tick \/ MissDeadline \/ Start \/ RouteFails \/ Route \/ DispatchRaises
    \/ DispatchReturns

-----------------------------------------------------------------------------
(* cancel: the job is read and must be QUEUED ... *)
CancelRead(j) ==
    /\ cancels < MaxCancels
    /\ j \notin cancelling
    /\ row[j].status = "QUEUED"
    /\ cancels' = cancels + 1
    /\ cancelling' = cancelling \cup {j}
    /\ held' = [held EXCEPT ![j] = row[j]]
    /\ UNCHANGED <<jobVars, row, late, tickVars, crashes, dispatched, succeeded,
                   withdrawn>>

(* ... and the copy is written back as CANCELLED. *)
CancelWrite(j) ==
    /\ j \in cancelling
    /\ row' = [row EXCEPT ![j] = [held[j] EXCEPT !.status = "CANCELLED"]]
    /\ cancelling' = cancelling \ {j}
    /\ withdrawn' = IF pc = "idle" THEN withdrawn \cup {j} ELSE withdrawn
    /\ UNCHANGED <<jobVars, late, tickVars, held, cancels, crashes, dispatched,
                   succeeded>>

(* The clock passes a job's deadline, before or after it is submitted.  A    *)
(* tick in progress keeps the moment it started with.                        *)
DeadlinePasses(j) ==
    /\ pc = "idle"
    /\ j \notin late
    /\ late' = late \cup {j}
    /\ UNCHANGED <<jobVars, row, tickVars, cancelVars, crashes, dispatched, succeeded>>

MutantResumed(rows) ==    \* every job that is not queued is queued again
    [j \in Jobs |-> IF rows[j].status \in {"RUNNING", "SUCCEEDED", "FAILED"}
                    THEN [rows[j] EXCEPT !.status = "QUEUED"] ELSE rows[j]]

MutantRequeue(rows) ==    \* whatever has not succeeded is queued again
    [j \in Jobs |-> IF rows[j].status \in {"RUNNING", "FAILED", "CANCELLED"}
                    THEN [rows[j] EXCEPT !.status = "QUEUED"] ELSE rows[j]]

(* resume_interrupted *)
Resumed(rows) ==
    [j \in Jobs |-> IF rows[j].status = "RUNNING"
                    THEN [rows[j] EXCEPT !.status = "QUEUED"] ELSE rows[j]]

(* The process dies; the next one resumes before anything else. *)
Crash ==
    /\ crashes < MaxCrashes
    /\ crashes' = crashes + 1
    /\ row' = Resumed(row)
    /\ pc' = "idle"
    /\ copy' = Empty
    /\ missed' = {}
    /\ batch' = {}
    /\ cancelling' = {}
    /\ UNCHANGED <<jobVars, late, held, cancels, dispatched, succeeded, withdrawn>>

Next ==
    \/ Ticker
    \/ \E j \in Jobs : Submit(j) \/ CancelRead(j) \/ CancelWrite(j) \/ DeadlinePasses(j)
    \/ Crash

(* Somebody keeps calling tick(), a tick goes on until it is done, dispatch  *)
(* comes back, and quiet hours end.                                          *)
Fairness ==
    /\ WF_vars(Ticker)
    /\ SF_vars(Tick /\ batch' = ReadyIn(row))

Spec == Init /\ [][Next]_vars
FairSpec == Spec /\ Fairness

-----------------------------------------------------------------------------
TypeOK ==
    /\ deps \in [Jobs -> SUBSET Jobs]
    /\ key \in [Jobs -> Keys \cup {NoKey}]
    /\ row \in [Jobs -> Row]
    /\ late \in SUBSET Jobs
    /\ pc \in {"idle", "tick", "route", "dispatch"}
    /\ copy \in [Jobs -> Row]
    /\ missed \in SUBSET Jobs
    /\ batch \in SUBSET Jobs
    /\ cancelling \in SUBSET Jobs
    /\ held \in [Jobs -> Row]
    /\ cancels \in 0..MaxCancels
    /\ crashes \in 0..MaxCrashes
    /\ dispatched \in [Jobs -> Nat]
    /\ succeeded \in SUBSET Jobs
    /\ withdrawn \in SUBSET Jobs

(* A job is handed to dispatch only after every job it depends on succeeded, *)
(* although readiness was judged on copies that other jobs, cancellations    *)
(* and a restart may have overtaken.                                         *)
DependenciesSucceeded ==
    \A j \in Jobs : dispatched[j] > 0 => deps[j] \subseteq succeeded

(* Without crashes no job is dispatched more than max_attempts times, not    *)
(* even when cancel() writes back an old copy of the job.                    *)
RetriesBounded == crashes = 0 => \A j \in Jobs : dispatched[j] <= MaxAttempts

(* A job whose success was recorded is not dispatched again, across crashes  *)
(* and late cancellations.                                                   *)
SucceededOnce ==
    [][\A j \in succeeded : dispatched'[j] = dispatched[j]]_vars

(* A job whose cancel() took effect while no tick() was in progress is not   *)
(* dispatched any more, not even after a crash.  (During a tick the ticker   *)
(* may hold a copy that is still QUEUED, and runs the job regardless.)       *)
WithdrawnNotDispatched ==
    [][\A j \in withdrawn : dispatched'[j] = dispatched[j]]_vars

(* A queued job whose dependencies have succeeded is not left queued for     *)
(* ever, whatever fails, is retried, cancelled, delayed or restarted.  (A    *)
(* dispatcher that raises counts as a failure; an exception of the routing   *)
(* callback other than RoutingError, which leaves tick(), is not modelled.)  *)
Settles ==
    \A j \in Jobs :
        (row[j].status = "QUEUED" /\ \A d \in deps[j] : row[d].status = "SUCCEEDED")
            ~> (row[j].status \in Terminal \/ \E d \in deps[j] : row[d].status = "CANCELLED")

(* No job is dispatched before the jobs it depends on have succeeded, across *)
(* crashes and lost updates, nor, until a crash, more often than its retries *)
(* allow.                                                                    *)
JobsSafe == TypeOK /\ DependenciesSucceeded /\ RetriesBounded

(* A job that succeeded is not run again, and one that was withdrawn while   *)
(* it waited is not handed out.                                              *)
DispatchSafe == SucceededOnce /\ WithdrawnNotDispatched
=============================================================================
