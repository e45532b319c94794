------------------------------ MODULE Executor ------------------------------
(***************************************************************************)
(* ParallelExecutor.execute_graph over a TaskGraph: one coordinator thread *)
(* that schedules plan steps, a pool of worker threads that run the tools  *)
(* of one step each, an operator who may cancel, step deadlines, a         *)
(* database that keeps the graph snapshot, and a process that may crash    *)
(* and be restarted from that snapshot.                                    *)
(*                                                                         *)
(* Steps are numbered in plan order.  READY is assigned and left inside    *)
(* one call of _submit_ready, before any other thread or the database can  *)
(* see it, so no state of the model shows it.                              *)
(***************************************************************************)
EXTENDS Naturals, FiniteSets

CONSTANTS N,              \* number of plan steps
          MaxConcurrency, \* size of the worker pool
          MaxTools,       \* bound on the number of tools of a step
          MaxRestarts     \* bound on process restarts

ASSUME ExecutorAssumption ==
    /\ N \in Nat
    /\ MaxConcurrency \in Nat \ {0}
    /\ MaxTools \in Nat
    /\ MaxRestarts \in Nat

Steps == 1..N

FailedStates == {"FAILED", "TIMED_OUT"}
NonSuccessTerminal == FailedStates \cup {"CANCELLED", "SKIPPED"}
TerminalStepStates == NonSuccessTerminal \cup {"SUCCEEDED"}
StepState == TerminalStepStates \cup {"PENDING", "RUNNING"}

(* A pool thread is absent, between two tools, inside a tool, or finished    *)
(* with the ok it returned.                                                  *)
WorkState == {"none", "before", "calling", "ok", "bad"}
ActiveWork == {"before", "calling"}

VARIABLES
    deps,        \* step -> steps it depends on (the validated plan)
    tools,       \* step -> how many tools it names (the validated plan)
    failFast,    \* the executor's failure_policy is FAIL_FAST
    state,       \* GraphNode.state
    interrupted, \* GraphNode.interrupted
    work,        \* what the pool thread of a step is doing
    left,        \* tools the pool thread of a step has still to run
    inflight,    \* the in_flight map, by step
    expired,     \* steps whose child token passed its deadline
    stop,        \* the operator's CancellationToken is set
    halting,     \* the local of execute_graph
    gathered,    \* steps this call of execute_graph has collected
    pc,          \* where the coordinator is
    outcome,     \* ExecutionResult.status, or "RAISED"
    saved,       \* context.metadata["graph"] as last committed
    restarts

plan == <<deps, tools, failFast>>
graphVars == <<state, interrupted>>
runVars == <<work, left, inflight, expired, stop, halting, gathered>>
vars == <<deps, tools, failFast, state, interrupted, work, left, inflight, expired,
          stop, halting, gathered, pc, outcome, saved, restarts>>

Outcomes == {"none", "COMPLETED", "FAILED", "CANCELLED", "RAISED"}
Places == {"start", "loop", "submit", "flight", "collect", "finish",
           "done", "aborted", "down"}

-----------------------------------------------------------------------------
(* DependencyResolver.order has accepted the plan: some ranking of the steps *)
(* puts every dependency before its dependents (plan order need not).       *)
Acyclic(d) ==
    \E rank \in [Steps -> Steps] :
        \A s \in Steps : \A t \in d[s] : rank[t] < rank[s]

NewGraph == [s \in Steps |-> "PENDING"]
NotInterrupted == [s \in Steps |-> FALSE]
NoWork == [s \in Steps |-> "none"]

Init ==
    /\ deps \in [Steps -> SUBSET Steps]
    /\ Acyclic(deps)
    /\ tools \in [Steps -> 0..MaxTools]
    /\ failFast \in BOOLEAN
    /\ state = NewGraph
    /\ interrupted = NotInterrupted
    /\ work = NoWork
    /\ left = [s \in Steps |-> 0]
    /\ inflight = {}
    /\ expired = {}
    /\ stop = FALSE
    /\ halting = FALSE
    /\ gathered = {}
    /\ pc = "start"
    /\ outcome = "none"
    /\ saved = [state |-> NewGraph, interrupted |-> NotInterrupted]
    /\ restarts = 0

-----------------------------------------------------------------------------
MutantDone(st) == \A s \in Steps : st[s] # "PENDING"    \* forgets RUNNING
Done(st) == \A s \in Steps : st[s] \in TerminalStepStates

MutantReady ==    \* a dependency that has not failed counts as satisfied
    {s \in Steps : /\ state[s] = "PENDING"
                   /\ \A d \in deps[s] : state[d] \notin NonSuccessTerminal}

(* TaskGraph.ready *)
Ready == {s \in Steps : /\ state[s] = "PENDING"
                        /\ \A d \in deps[s] : state[d] = "SUCCEEDED"}

(* TaskGraph.mark_unsatisfiable: one pass in plan order, so a step sees the *)
(* steps this pass has skipped only when they come earlier in the plan.     *)
Unsatisfiable(st) ==
    LET skip[s \in Steps] ==
            /\ st[s] = "PENDING"
            /\ \E d \in deps[s] : \/ st[d] \in NonSuccessTerminal
                                  \/ d < s /\ skip[d]
    IN {s \in Steps : skip[s]}

(* GraphNode.transition applied to the unstarted nodes of a set. *)
Retire(st, S, to) ==
    [s \in Steps |-> IF st[s] = "PENDING" /\ s \in S THEN to ELSE st[s]]

MutantChildCancelled(s) == stop \/ s \in expired    \* no finally block
(* CancellationToken.cancelled of a step's child token: its own event (set   *)
(* in the finally block), its parent, or its deadline.  _enforce_deadlines   *)
(* sets the event of tokens whose deadline has passed, which changes nothing *)
(* that cancelled reports.                                                   *)
ChildCancelled(s) == stop \/ s \in expired \/ pc = "aborted"

MutantFirstFailure(st) == \E s \in Steps : st[s] = "FAILED"
FirstFailure(st) == \E s \in Steps : st[s] \in FailedStates

Snapshot(st) == [state |-> st, interrupted |-> interrupted]

-----------------------------------------------------------------------------
(* execute_graph up to the loop: an unknown tool raises, otherwise the graph *)
(* is persisted and the pool created.                                        *)
StartGraph ==
    /\ pc = "start"
    /\ \/ /\ pc' = "loop"
          /\ saved' = Snapshot(state)
          /\ UNCHANGED outcome
       \/ /\ pc' = "aborted"
          /\ outcome' = "RAISED"
          /\ UNCHANGED saved
    /\ UNCHANGED <<plan, graphVars, runVars, restarts>>

(* The loop test, the first read of the token and _stop_unstarted. *)
LoopHead ==
    /\ pc = "loop"
    /\ \/ /\ Done(state)
          /\ pc' = "finish"
          /\ UNCHANGED state
       \/ /\ ~Done(state)
          /\ pc' = "submit"
          /\ state' = IF stop \/ halting
                      THEN Retire(state, Steps, "CANCELLED") ELSE state
    /\ UNCHANGED <<plan, interrupted, runVars, outcome, saved, restarts>>

MutantStartable ==    \* off by one at the limit of the pool
    {s \in Ready : Cardinality({r \in Ready : r < s}) + Cardinality(inflight)
                       <= MaxConcurrency}

(* The steps _submit_ready starts: ready ones in plan order until the pool   *)
(* is full.                                                                  *)
Startable ==
    {s \in Ready : Cardinality({r \in Ready : r < s}) + Cardinality(inflight)
                       < MaxConcurrency}

(* The second read of the token and _submit_ready. *)
Submit ==
    /\ pc = "submit"
    /\ LET go == IF stop \/ halting THEN {} ELSE Startable
       IN /\ state' = [s \in Steps |-> IF s \in go THEN "RUNNING" ELSE state[s]]
          /\ work' = [s \in Steps |-> IF s \in go THEN "before" ELSE work[s]]
          /\ left' = [s \in Steps |-> IF s \in go THEN tools[s] ELSE left[s]]
          /\ inflight' = inflight \cup go
          /\ expired' = expired \ go
    /\ pc' = "flight"
    /\ UNCHANGED <<plan, interrupted, stop, halting, gathered, outcome, saved,
                   restarts>>

MutantDrain ==    \* continues without marking the stuck steps
    /\ pc = "flight"
    /\ inflight = {}
    /\ pc' = IF \E s \in Steps : state[s] = "PENDING" THEN "loop" ELSE "finish"
    /\ UNCHANGED <<plan, graphVars, runVars, outcome, saved, restarts>>

(* "if not in_flight": _drain_stuck skips what is left, or the loop breaks. *)
Drain ==
    /\ pc = "flight"
    /\ inflight = {}
    /\ IF \E s \in Steps : state[s] = "PENDING"
       THEN /\ state' = Retire(state, Steps, "SKIPPED")
            /\ \/ saved' = Snapshot(state') /\ pc' = "loop" /\ UNCHANGED outcome
               \/ UNCHANGED saved /\ pc' = "aborted" /\ outcome' = "RAISED"
       ELSE /\ pc' = "finish"
            /\ UNCHANGED <<state, saved, outcome>>
    /\ UNCHANGED <<plan, interrupted, runVars, restarts>>

AwaitWork ==
    /\ pc = "flight"
    /\ inflight # {}
    /\ pc' = "collect"
    /\ UNCHANGED <<plan, graphVars, runVars, outcome, saved, restarts>>

(* The state _collect_completed gives a finished step. *)
Collected(s) ==
    CASE work[s] = "ok" -> "SUCCEEDED"
      [] work[s] = "bad" /\ s \in expired -> "TIMED_OUT"
      [] OTHER -> "FAILED"

(* The rest of the iteration: wait() hands over every future done by now     *)
(* (none, when the poll interval ran out), then _enforce_deadlines,          *)
(* mark_unsatisfiable, the fail-fast test and _persist, which may raise.     *)
Collect ==
    /\ pc = "collect"
    /\ LET done == {s \in inflight : work[s] \in {"ok", "bad"}}
           seen == [s \in Steps |-> IF s \in done THEN Collected(s) ELSE state[s]]
       IN /\ inflight' = inflight \ done
          /\ gathered' = gathered \cup done
          /\ work' = [s \in Steps |-> IF s \in done THEN "none" ELSE work[s]]
          /\ state' = Retire(seen, Unsatisfiable(seen), "SKIPPED")
    /\ halting' = (halting \/ (failFast /\ FirstFailure(state')))
    /\ \/ saved' = Snapshot(state') /\ pc' = "loop" /\ UNCHANGED outcome
       \/ UNCHANGED saved /\ pc' = "aborted" /\ outcome' = "RAISED"
    /\ UNCHANGED <<plan, interrupted, left, expired, stop, restarts>>

(* _overall_status, _aggregate and the last _persist, which may raise. *)
Finish ==
    /\ pc = "finish"
    /\ \/ /\ pc' = "done"
          /\ outcome' = IF stop THEN "CANCELLED"
                        ELSE IF \A s \in Steps : state[s] = "SUCCEEDED"
                             THEN "COMPLETED" ELSE "FAILED"
          /\ saved' = Snapshot(state)
       \/ /\ pc' = "aborted"
          /\ outcome' = "RAISED"
          /\ UNCHANGED saved
    /\ UNCHANGED <<plan, graphVars, runVars, restarts>>

Coordinator ==
    StartGraph \/ LoopHead \/ Submit \/ Drain \/ AwaitWork \/ Collect \/ Finish

-----------------------------------------------------------------------------
(* _run_node: with tools left, test the token before the next one ... *)
WorkerCheck(s) ==
    /\ work[s] = "before"
    /\ left[s] > 0
    /\ \/ /\ ChildCancelled(s)
          /\ work' = [work EXCEPT ![s] = "bad"]
       \/ /\ ~ChildCancelled(s)
          /\ work' = [work EXCEPT ![s] = "calling"]
    /\ UNCHANGED <<plan, graphVars, left, inflight, expired, stop, halting, gathered,
                   pc, outcome, saved, restarts>>

(* ... the tool returns: a failure or an exception ends the step, a success  *)
(* leads to the next tool ...                                                *)
WorkerReturn(s) ==
    /\ work[s] = "calling"
    /\ \E w \in {"bad", "before"} : work' = [work EXCEPT ![s] = w]
    /\ left' = [left EXCEPT ![s] = @ - 1]
    /\ UNCHANGED <<plan, graphVars, inflight, expired, stop, halting, gathered,
                   pc, outcome, saved, restarts>>

(* ... and after the last one the token is tested before success is reported. *)
WorkerEnd(s) ==
    /\ work[s] = "before"
    /\ left[s] = 0
    /\ work' = [work EXCEPT ![s] = IF ChildCancelled(s) THEN "bad" ELSE "ok"]
    /\ UNCHANGED <<plan, graphVars, left, inflight, expired, stop, halting, gathered,
                   pc, outcome, saved, restarts>>

Worker(s) == WorkerCheck(s) \/ WorkerReturn(s) \/ WorkerEnd(s)

(* The operator cancels the task, at any moment of the run. *)
Cancel ==
    /\ pc \notin {"done", "aborted", "down"}
    /\ ~stop
    /\ stop' = TRUE
    /\ UNCHANGED <<plan, graphVars, work, left, inflight, expired, halting, gathered,
                   pc, outcome, saved, restarts>>

(* The clock passes the deadline of a running step. *)
DeadlinePasses(s) ==
    /\ s \in inflight
    /\ s \notin expired
    /\ expired' = expired \cup {s}
    /\ UNCHANGED <<plan, graphVars, work, left, inflight, stop, halting, gathered,
                   pc, outcome, saved, restarts>>

-----------------------------------------------------------------------------
(* The process dies: threads, tokens and the in-memory graph are gone. *)
Crash ==
    /\ pc \notin {"start", "done", "aborted", "down"}
    /\ restarts < MaxRestarts
    /\ pc' = "down"
    /\ restarts' = restarts + 1
    /\ state' = NewGraph
    /\ interrupted' = NotInterrupted
    /\ work' = NoWork
    /\ left' = [s \in Steps |-> 0]
    /\ inflight' = {}
    /\ expired' = {}
    /\ stop' = FALSE
    /\ halting' = FALSE
    /\ gathered' = {}
    /\ UNCHANGED <<plan, outcome, saved>>

MutantRestore ==    \* rebuilds the graph from the plan, ignoring the snapshot
    /\ pc = "down"
    /\ pc' = "start"
    /\ state' = NewGraph
    /\ interrupted' = NotInterrupted
    /\ UNCHANGED <<plan, runVars, outcome, saved, restarts>>

(* TaskGraph.restore of the persisted snapshot, handed to execute_graph. *)
Restore ==
    /\ pc = "down"
    /\ pc' = "start"
    /\ state' = [s \in Steps |-> IF saved.state[s] = "RUNNING"
                                 THEN "PENDING" ELSE saved.state[s]]
    /\ interrupted' = [s \in Steps |-> \/ saved.state[s] = "RUNNING"
                                       \/ saved.interrupted[s]]
    /\ UNCHANGED <<plan, runVars, outcome, saved, restarts>>

Next ==
    \/ Coordinator
    \/ \E s \in Steps : Worker(s) \/ DeadlinePasses(s)
    \/ Cancel
    \/ Crash
    \/ Restore

(* Every thread keeps running: the coordinator never blocks (wait() has a    *)
(* poll interval), a tool call returns (ToolRunner joins it with the tool's  *)
(* timeout).  Nobody has to cancel, crash, or let a deadline pass.           *)
Fairness ==
    /\ WF_vars(Coordinator)
    /\ WF_vars(Restore)
    /\ \A s \in Steps : WF_vars(Worker(s))

Spec == Init /\ [][Next]_vars
FairSpec == Spec /\ Fairness

-----------------------------------------------------------------------------
(* The refinement of PlanRun: what the graph says of a step, and what the    *)
(* snapshot says while the process is down.                                  *)
StatusOf(st) ==
    [s \in Steps |-> CASE st[s] = "PENDING" -> "todo"
                       [] st[s] = "RUNNING" -> "running"
                       [] st[s] = "SUCCEEDED" -> "succeeded"
                       [] st[s] \in FailedStates -> "failed"
                       [] OTHER -> "dropped"]

KeptStatus == [s \in Steps |-> IF saved.state[s] = "RUNNING" THEN "todo"
                               ELSE StatusOf(saved.state)[s]]

RunStatus == IF pc = "down" THEN KeptStatus ELSE StatusOf(state)

Promise == INSTANCE PlanRun WITH
    Width <- MaxConcurrency, status <- RunStatus, kept <- KeptStatus

-----------------------------------------------------------------------------
TypeOK ==
    /\ deps \in [Steps -> SUBSET Steps]
    /\ tools \in [Steps -> 0..MaxTools]
    /\ failFast \in BOOLEAN
    /\ state \in [Steps -> StepState]
    /\ interrupted \in [Steps -> BOOLEAN]
    /\ work \in [Steps -> WorkState]
    /\ left \in [Steps -> 0..MaxTools]
    /\ inflight \in SUBSET Steps
    /\ expired \in SUBSET Steps
    /\ stop \in BOOLEAN
    /\ halting \in BOOLEAN
    /\ gathered \in SUBSET Steps
    /\ pc \in Places
    /\ outcome \in Outcomes
    /\ saved \in [state : [Steps -> StepState], interrupted : [Steps -> BOOLEAN]]
    /\ restarts \in 0..MaxRestarts

(* A step runs, has run, or failed while running, only after every step it   *)
(* depends on succeeded: in memory and, after any crash, in the snapshot the *)
(* restarted executor schedules from.                                        *)
Started == {"RUNNING", "SUCCEEDED"} \cup FailedStates

DependencyOrder ==
    \A s \in Steps : \A d \in deps[s] :
        /\ state[s] \in Started => state[d] = "SUCCEEDED"
        /\ saved.state[s] \in Started => saved.state[d] = "SUCCEEDED"

(* When execute_graph returns, every step has settled and no pool thread is  *)
(* still working, whatever the mixture of failures, deadlines, cancellation  *)
(* and out-of-order plans: the break of the loop leaves nothing behind.      *)
ReturnsSettled ==
    pc = "done" => /\ Done(state)
                   /\ \A s \in Steps : work[s] = "none"

(* in_flight never exceeds max_concurrency, and it never disagrees with the  *)
(* RUNNING states the graph shows and persists.                              *)
PoolBound ==
    /\ Cardinality(inflight) <= MaxConcurrency
    /\ inflight = {s \in Steps : state[s] = "RUNNING"}

(* Under FAIL_FAST nothing more is started once this call of execute_graph   *)
(* has collected a step while the graph shows a failure, one of this run or  *)
(* one restored from the snapshot: the halt is in force before the next pass *)
(* over the ready steps.  (The passes before the first collection are not    *)
(* covered: halting starts as False even for a restored graph that has a     *)
(* FAILED step, and such a run starts what is ready once more.)              *)
FailFastHalts ==
    [][(failFast /\ gathered # {} /\ \E s \in Steps : state[s] \in FailedStates)
          => inflight' \subseteq inflight]_vars

(* A step that was persisted as SUCCEEDED stays so in every later snapshot   *)
(* and is not executed again, by this or any later incarnation.              *)
SucceededNotRerun ==
    [][\A s \in Steps : saved.state[s] = "SUCCEEDED" =>
          work'[s] # "calling" /\ saved'.state[s] = "SUCCEEDED"]_vars

(* After execute_graph raised, the pool threads it abandoned (shutdown does  *)
(* not wait) enter no further tool.                                          *)
AbandonedStop ==
    [][pc = "aborted" => \A s \in Steps :
          work'[s] = "calling" => work[s] = "calling"]_vars

(* The executor runs plans as PlanRun promises: through submissions, polls,  *)
(* deadlines, fail-fast, cancellation, failing saves, crashes and restores,  *)
(* every step of it is a step of the abstract specification or no step.      *)
ImplementsPlanRun == Promise!RunSpec

(* execute_graph always comes to an end, however often it is cancelled,      *)
(* restarted or surprised by a deadline.                                     *)
AlwaysReturns == <>(pc \in {"done", "aborted"})
=============================================================================
