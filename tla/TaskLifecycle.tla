--------------------------- MODULE TaskLifecycle ---------------------------
(***************************************************************************)
(* One task from dispatch to its end: the SingleAgent PACE loop on a       *)
(* dispatcher worker, the state machine and TaskManager.transition, the    *)
(* API thread that cancels, and the restart loop of build_stack.           *)
(*                                                                         *)
(* A transition is three steps, because the database lock is not held      *)
(* across it: enter the transaction() block, read the row and check the    *)
(* edge; write the row and load the context; save the context and leave    *)
(* the block.  (Database.tla models transaction() itself.)                 *)
(***************************************************************************)
EXTENDS Naturals, Sequences

CONSTANTS MaxCancels,  \* bound on cancel requests
          MaxTools,    \* bound on tool calls of a task
          MaxRestarts, \* bound on process restarts
          HasPlanner   \* a recovery_planner_factory is configured

ASSUME TaskLifecycleAssumption ==
    /\ MaxCancels \in Nat
    /\ MaxTools \in Nat
    /\ MaxRestarts \in Nat
    /\ HasPlanner \in BOOLEAN

Terminal == {"COMPLETED", "FAILED", "CANCELLED"}
Forward == <<"CREATED", "UNDERSTANDING", "AWARENESS", "PLANNING",
             "WAITING_PERMISSION", "EXECUTING", "VERIFYING">>
TaskState == {Forward[i] : i \in 1..7} \cup {"RESEARCHING", "RECOVERING"} \cup Terminal

(* ALLOWED_TRANSITIONS before the escalation edges are added. *)
Edges ==
    {<<"CREATED", "UNDERSTANDING">>, <<"UNDERSTANDING", "AWARENESS">>,
     <<"AWARENESS", "RESEARCHING">>, <<"AWARENESS", "PLANNING">>,
     <<"RESEARCHING", "PLANNING">>, <<"PLANNING", "WAITING_PERMISSION">>,
     <<"WAITING_PERMISSION", "EXECUTING">>, <<"EXECUTING", "VERIFYING">>,
     <<"VERIFYING", "COMPLETED">>, <<"VERIFYING", "RECOVERING">>,
     <<"RECOVERING", "EXECUTING">>, <<"RECOVERING", "PLANNING">>}

IsValidTransition(from, to) ==
    <<from, to>> \in Edges \/ (from \notin Terminal /\ to \in {"FAILED", "CANCELLED"})

Phases == {"new", "rejected", "queued", "understand", "aware", "research", "plan",
           "execute", "verify", "recover", "settle", "complete", "abort", "ended",
           "dropped", "down"}
WorkerSteps == {"check", "walk", "enter", "write", "save", "work"}
CancelSteps == {"idle", "enter", "write", "save", "notify"}
Results == {"none", "COMPLETED", "FAILED"}
Contexts == [plan : BOOLEAN, current : TaskState, result : Results]
Rows == [task : TaskState, ctx : Contexts]
Threads == {"worker", "api"}

VARIABLES
    cur,      \* the task row and the context row, as the connection shows them
    com,      \* the same, as committed
    inside,   \* threads inside a transaction() block
    owner,    \* the thread whose block is the outermost, or "none"
    phase,    \* where the worker is in the PACE loop
    step,     \* ... and in the phase
    path,     \* transitions the phase has still to make
    mem,      \* the worker's ExecutionContext object
    loaded,   \* thread -> the context its transition loaded
    aim,      \* the state complete or abort is heading for
    exec,     \* status of the first execution
    passed,   \* its verification, then the one recovery ended with, passed
    proven,   \* some one execution COMPLETED and its verification PASSED
    resumed,  \* the worker runs resume(), which gets no cancel token
    token,    \* the CancellationToken is set
    capc,     \* where the cancelling API thread is
    cancels,  \* cancel requests so far
    acked,    \* a cancel request has been answered with success
    toolruns, \* tool calls of the plan that passed their last look at the token
    restarts

db == <<cur, com, inside, owner>>
worker == <<phase, step, path, mem, aim, exec, passed, proven, resumed>>
api == <<capc, cancels, acked>>
vars == <<db, worker, loaded, token, api, toolruns, restarts>>

NewContext == [plan |-> FALSE, current |-> "CREATED", result |-> "none"]

Init ==
    /\ cur = [task |-> "CREATED", ctx |-> NewContext]
    /\ com = cur
    /\ inside = {}
    /\ owner = "none"
    /\ phase = "new"
    /\ step = "check"
    /\ path = <<>>
    /\ mem = NewContext
    /\ loaded = [t \in Threads |-> NewContext]
    /\ aim = "FAILED"
    /\ exec = "none"
    /\ passed = FALSE
    /\ proven = FALSE
    /\ resumed = FALSE
    /\ token = FALSE
    /\ capc = "idle"
    /\ cancels = 0
    /\ acked = FALSE
    /\ toolruns = 0
    /\ restarts = 0

-----------------------------------------------------------------------------
(* transition(): the three steps of a thread t towards state "to".  BEGIN    *)
(* and the read and check that follow it are one step; a refusal, which      *)
(* rolls back an empty block or leaves the one it joined, writes nothing.    *)
EnterBlock(t) ==
    /\ inside' = inside \cup {t}
    /\ owner' = IF inside = {} THEN t ELSE owner
    /\ UNCHANGED <<cur, com>>

WriteTask(t, to) ==
    /\ cur' = [cur EXCEPT !.task = to]
    /\ com' = IF owner = "none" THEN cur' ELSE com
    /\ loaded' = [loaded EXCEPT ![t] = [cur.ctx EXCEPT !.current = to]]
    /\ UNCHANGED <<inside, owner>>

SaveAndLeave(t) ==
    /\ cur' = [cur EXCEPT !.ctx = loaded[t]]
    /\ com' = IF owner \in {t, "none"} THEN cur' ELSE com
    /\ owner' = IF owner = t THEN "none" ELSE owner
    /\ inside' = inside \ {t}

(* contexts_repo.save outside a transaction() block of the thread. *)
SaveContext(ctx) ==
    /\ cur' = [cur EXCEPT !.ctx = ctx]
    /\ com' = IF owner = "none" THEN cur' ELSE com
    /\ UNCHANGED <<inside, owner>>

-----------------------------------------------------------------------------
Go(p, s) == phase' = p /\ step' = s

Stopped == token /\ ~resumed

(* The except clauses of _drive and resume. *)
Raise ==
    /\ Go("abort", "walk")
    /\ aim' = IF Stopped THEN "CANCELLED" ELSE "FAILED"

(* The index of a state in _FORWARD, 0 if it is not there. *)
Position(st) == IF \E i \in 1..7 : Forward[i] = st
                THEN CHOOSE i \in 1..7 : Forward[i] = st ELSE 0

MutantWalkTo(st, target) ==    \* no way back from VERIFYING
    CASE st = target -> <<>>
      [] st = "RECOVERING" /\ target = "VERIFYING" -> <<"EXECUTING", "VERIFYING">>
      [] Position(st) \in 1..(Position(target) - 1) ->
            SubSeq(Forward, Position(st) + 1, Position(target))
      [] OTHER -> <<target>>

(* _walk_to: the transitions from a state to EXECUTING or VERIFYING. *)
WalkTo(st, target) ==
    CASE st = target -> <<>>
      [] st = "VERIFYING" /\ target = "EXECUTING" -> <<"RECOVERING", "EXECUTING">>
      [] st = "RECOVERING" /\ target = "VERIFYING" -> <<"EXECUTING", "VERIFYING">>
      [] Position(st) \in 1..(Position(target) - 1) ->
            SubSeq(Forward, Position(st) + 1, Position(target))
      [] OTHER -> <<target>>

(* The transitions a phase begins with, given the state it reads. *)
PathOf(p, st) ==
    CASE p = "understand" -> <<"UNDERSTANDING">>
      [] p = "aware" -> <<"AWARENESS">>
      [] p = "research" -> <<"RESEARCHING">>
      [] p = "plan" -> IF st = "PLANNING" THEN <<>> ELSE <<"PLANNING">>
      [] p = "execute" -> WalkTo(st, "EXECUTING")
      [] p = "verify" -> WalkTo(st, "VERIFYING")
      [] p = "recover" -> <<"RECOVERING">>
      [] p = "settle" -> <<"EXECUTING", "VERIFYING">>
      [] p = "complete" -> <<aim>>
      [] p = "abort" -> IF st \in Terminal THEN <<>> ELSE <<aim>>

Settled == {"new", "rejected", "queued", "ended", "dropped", "down"}
Running == phase \notin Settled

(* create_task hands the task to dispatch: without a model it fails at once, *)
(* a full queue is an error to the client, else a worker will take it.       *)
Dispatch ==
    /\ phase = "new"
    /\ \/ /\ phase' = "ended"
          /\ cur' = [task |-> "FAILED",
                     ctx |-> [cur.ctx EXCEPT !.current = "FAILED",
                                             !.result = "FAILED"]]
          /\ com' = cur'
       \/ phase' \in {"rejected", "queued"} /\ UNCHANGED <<cur, com>>
    /\ UNCHANGED <<inside, owner, step, path, mem, aim, exec, passed, proven,
                   resumed, loaded, token, api, toolruns, restarts>>

(* A dispatcher worker takes the task: run_task, or resume after a restart.  *)
(* When agent_factory raises (router.select finds no provider) the error is  *)
(* logged and the worker drops the task as it is.                            *)
Begin ==
    /\ phase = "queued"
    /\ \/ mem' = cur.ctx /\ ~resumed /\ Go("understand", "check")
       \/ mem' = cur.ctx /\ resumed /\ Go("execute", "walk")
       \/ phase' = "dropped" /\ UNCHANGED <<mem, step>>
    /\ UNCHANGED <<db, path, aim, exec, passed, proven, resumed, loaded, token,
                   api, toolruns, restarts>>

(* _check_cancelled *)
Check ==
    /\ Running /\ step = "check"
    /\ IF Stopped THEN Raise ELSE step' = "walk" /\ UNCHANGED <<phase, aim>>
    /\ UNCHANGED <<db, path, mem, exec, passed, proven, resumed, loaded, token,
                   api, toolruns, restarts>>

(* The phase reads the state and lays out its transitions; _complete turns   *)
(* to _cancelled when it finds the task cancelled.                           *)
Walk ==
    /\ Running /\ step = "walk"
    /\ \/ /\ phase = "complete" /\ cur.task = "CANCELLED"
          /\ Go("abort", "walk")
          /\ aim' = "CANCELLED"
          /\ UNCHANGED path
       \/ /\ ~(phase = "complete" /\ cur.task = "CANCELLED")
          /\ path' = PathOf(phase, cur.task)
          /\ step' = IF path' = <<>> THEN "work" ELSE "enter"
          /\ UNCHANGED <<phase, aim>>
    /\ UNCHANGED <<db, mem, exec, passed, proven, resumed, loaded, token, api,
                   toolruns, restarts>>

(* transition() by the worker.  An illegal edge raises in the block, which   *)
(* was just entered and has written nothing; in abort the finally clause     *)
(* still stores the result.                                                  *)
Enter ==
    /\ Running /\ step = "enter"
    /\ \/ /\ IsValidTransition(cur.task, Head(path))
          /\ EnterBlock("worker")
          /\ step' = "write"
          /\ UNCHANGED <<phase, aim>>
       \/ /\ ~IsValidTransition(cur.task, Head(path))
          /\ UNCHANGED db
          /\ IF phase = "abort" THEN step' = "work" /\ UNCHANGED <<phase, aim>>
             ELSE Raise
    /\ UNCHANGED <<path, mem, exec, passed, proven, resumed, loaded, token, api,
                   toolruns, restarts>>

Write ==
    /\ Running /\ step = "write"
    /\ WriteTask("worker", Head(path))
    /\ step' = "save"
    /\ UNCHANGED <<phase, path, mem, aim, exec, passed, proven, resumed, token,
                   api, toolruns, restarts>>

Save ==
    /\ Running /\ step = "save"
    /\ SaveAndLeave("worker")
    /\ path' = Tail(path)
    /\ step' = IF path' = <<>> THEN "work" ELSE "enter"
    /\ UNCHANGED <<phase, mem, aim, exec, passed, proven, resumed, loaded, token,
                   api, toolruns, restarts>>

-----------------------------------------------------------------------------
(* _understand, _aware, _research_phase and _recall after their transition:  *)
(* model calls and tools, which _aware and _research_phase start without     *)
(* handing the token on, then the context is saved.                          *)
WorkEarly ==
    /\ step = "work"
    /\ \/ phase = "understand" /\ Go("aware", "check")
       \/ phase = "aware" /\ Go("research", "check")
       \/ phase = "aware" /\ Go("plan", "check")
       \/ phase = "research" /\ Go("plan", "walk")
    /\ SaveContext(mem)
    /\ UNCHANGED <<path, mem, aim, exec, passed, proven, resumed, loaded, token,
                   api, toolruns, restarts>>

MutantWorkPlan ==    \* the plan is kept in memory only
    /\ step = "work" /\ phase = "plan"
    /\ mem' = [mem EXCEPT !.plan = TRUE]
    /\ SaveContext(mem)
    /\ Go("execute", "walk")
    /\ UNCHANGED <<path, aim, exec, passed, proven, resumed, loaded, token, api,
                   toolruns, restarts>>

(* _plan *)
WorkPlan ==
    /\ step = "work" /\ phase = "plan"
    /\ mem' = [mem EXCEPT !.plan = TRUE]
    /\ SaveContext(mem')
    /\ Go("execute", "walk")
    /\ UNCHANGED <<path, aim, exec, passed, proven, resumed, loaded, token, api,
                   toolruns, restarts>>

(* Whether recovery can execute again: RETRY of a failed execution, or       *)
(* REPLAN when there is a planner (see Recovery.tla).                        *)
CanRepeat == exec = "FAILED" \/ HasPlanner

MutantToolRuns ==    \* the executor is not given the token
    /\ step = "work"
    /\ phase = "execute" \/ (phase = "recover" /\ CanRepeat)
    /\ toolruns < MaxTools
    /\ toolruns' = toolruns + 1
    /\ SaveContext(mem)
    /\ UNCHANGED <<worker, loaded, token, api, restarts>>

(* A tool call of execute_graph passes ToolRunner's last look at the token   *)
(* and is on its way to the handler (see Executor.tla and ToolRunner.tla);   *)
(* the executor persists the context.                                        *)
ToolRuns ==
    /\ step = "work"
    /\ phase = "execute" \/ (phase = "recover" /\ CanRepeat)
    /\ ~Stopped
    /\ toolruns < MaxTools
    /\ toolruns' = toolruns + 1
    /\ SaveContext(mem)
    /\ UNCHANGED <<worker, loaded, token, api, restarts>>

WorkExecute ==
    /\ step = "work" /\ phase = "execute"
    /\ exec' \in IF Stopped THEN {"CANCELLED"} ELSE {"COMPLETED", "FAILED"}
    /\ SaveContext(mem)
    /\ Go("verify", IF resumed THEN "walk" ELSE "check")
    /\ UNCHANGED <<path, mem, aim, passed, proven, resumed, loaded, token, api,
                   toolruns, restarts>>

MutantWorkVerify ==    \* a failed execution that verifies needs no recovery
    /\ step = "work" /\ phase = "verify"
    /\ passed' \in BOOLEAN
    /\ IF passed'
       THEN Go("complete", "walk") /\ aim' = "COMPLETED"
       ELSE Go("recover", "walk") /\ UNCHANGED aim
    /\ proven' = (exec = "COMPLETED" /\ passed')
    /\ UNCHANGED <<db, path, mem, exec, resumed, loaded, token, api, toolruns,
                   restarts>>

(* _verify, and the test at the head of _recover_if_needed. *)
WorkVerify ==
    /\ step = "work" /\ phase = "verify"
    /\ passed' \in BOOLEAN
    /\ IF exec = "COMPLETED" /\ passed'
       THEN Go("complete", "walk") /\ aim' = "COMPLETED"
       ELSE Go("recover", "walk") /\ UNCHANGED aim
    /\ proven' = (exec = "COMPLETED" /\ passed')
    /\ UNCHANGED <<db, path, mem, exec, resumed, loaded, token, api, toolruns,
                   restarts>>

MutantWorkRecover ==    \* the agent's status taken for a task state
    /\ step = "work" /\ phase = "recover"
    /\ aim' = "ESCALATED"
    /\ SaveContext(mem)
    /\ Go("settle", "walk")
    /\ UNCHANGED <<path, mem, exec, passed, proven, resumed, loaded, token, api,
                   toolruns, restarts>>

(* RecoveryEngine.run_with_prior and what _complete will make of it.  A      *)
(* RECOVERED outcome has an execution that completed and verified; any other *)
(* one carries the last verification, of whichever execution was the last,   *)
(* while "execution" in _drive is still the first.                           *)
WorkRecover ==
    /\ step = "work" /\ phase = "recover"
    /\ \/ /\ CanRepeat /\ ~Stopped
          /\ passed' = TRUE /\ proven' = TRUE /\ aim' = "COMPLETED"
       \/ /\ passed' \in IF CanRepeat THEN BOOLEAN ELSE {FALSE}
          /\ aim' = IF exec = "COMPLETED" /\ passed' THEN "COMPLETED" ELSE "FAILED"
          /\ UNCHANGED proven
    /\ SaveContext(mem)
    /\ Go("settle", "walk")
    /\ UNCHANGED <<path, mem, exec, resumed, loaded, token, api, toolruns, restarts>>

WorkSettle ==
    /\ step = "work" /\ phase = "settle"
    /\ Go("complete", "walk")
    /\ UNCHANGED <<db, path, mem, aim, exec, passed, proven, resumed, loaded,
                   token, api, toolruns, restarts>>

(* A phase may raise: model, planner, tool registry, verifier, summary. *)
WorkRaises ==
    /\ step = "work" /\ phase \notin {"settle", "abort"}
    /\ Running
    /\ Raise
    /\ UNCHANGED <<db, path, mem, exec, passed, proven, resumed, loaded, token,
                   api, toolruns, restarts>>

MutantWorkEnd ==    \* the result reports the last verification
    /\ step = "work" /\ phase \in {"complete", "abort"}
    /\ mem' = [mem EXCEPT !.result = IF passed THEN "COMPLETED" ELSE "FAILED"]
    /\ SaveContext(mem')
    /\ phase' = "ended"
    /\ UNCHANGED <<step, path, aim, exec, passed, proven, resumed, loaded, token,
                   api, toolruns, restarts>>

(* The end of _complete, _cancelled and _fail: the result is stored. *)
WorkEnd ==
    /\ step = "work" /\ phase \in {"complete", "abort"}
    /\ mem' = [mem EXCEPT !.result =
                  IF phase = "complete" /\ aim = "COMPLETED" THEN "COMPLETED"
                  ELSE "FAILED"]
    /\ SaveContext(mem')
    /\ phase' = "ended"
    /\ UNCHANGED <<step, path, aim, exec, passed, proven, resumed, loaded, token,
                   api, toolruns, restarts>>

Worker ==
    \/ Begin \/ Check \/ Walk \/ Enter \/ Write \/ Save
    \/ WorkEarly \/ WorkPlan \/ ToolRuns \/ WorkExecute \/ WorkVerify
    \/ WorkRecover \/ WorkSettle \/ WorkRaises \/ WorkEnd

-----------------------------------------------------------------------------
(* cancel_task: the task is read and refused when terminal ... *)
CancelRead ==
    /\ capc = "idle"
    /\ cancels < MaxCancels
    /\ phase \notin {"new", "down"}
    /\ cur.task \notin Terminal
    /\ cancels' = cancels + 1
    /\ capc' = "enter"
    /\ UNCHANGED <<db, worker, loaded, token, acked, toolruns, restarts>>

(* ... then transition(CANCELLED) reads it again; a refusal is an error ... *)
CancelEnter ==
    /\ capc = "enter"
    /\ \/ /\ IsValidTransition(cur.task, "CANCELLED")
          /\ EnterBlock("api")
          /\ capc' = "write"
       \/ /\ ~IsValidTransition(cur.task, "CANCELLED")
          /\ capc' = "idle"
          /\ UNCHANGED db
    /\ UNCHANGED <<worker, loaded, token, cancels, acked, toolruns, restarts>>

CancelWrite ==
    /\ capc = "write"
    /\ WriteTask("api", "CANCELLED")
    /\ capc' = "save"
    /\ UNCHANGED <<worker, token, cancels, acked, toolruns, restarts>>

CancelSave ==
    /\ capc = "save"
    /\ SaveAndLeave("api")
    /\ capc' = "notify"
    /\ UNCHANGED <<worker, loaded, token, cancels, acked, toolruns, restarts>>

(* ... and on_cancel sets the token, if one is registered for the task. *)
CancelNotify ==
    /\ capc = "notify"
    /\ token' = (token \/ (phase \notin {"ended", "dropped"} /\ ~resumed))
    /\ acked' = TRUE
    /\ capc' = "idle"
    /\ UNCHANGED <<db, worker, loaded, cancels, toolruns, restarts>>

Canceller ==
    CancelRead \/ CancelEnter \/ CancelWrite \/ CancelSave \/ CancelNotify

(* The process dies: an open transaction is lost with it. *)
Crash ==
    /\ phase \notin {"new", "down"}
    /\ restarts < MaxRestarts
    /\ restarts' = restarts + 1
    /\ phase' = "down"
    /\ step' = "check"
    /\ path' = <<>>
    /\ cur' = com
    /\ inside' = {}
    /\ owner' = "none"
    /\ token' = FALSE
    /\ capc' = "idle"
    /\ mem' = NewContext
    /\ exec' = "none"
    /\ passed' = FALSE
    /\ UNCHANGED <<com, loaded, aim, proven, resumed, cancels, acked, toolruns>>

MutantRestart ==    \* only tasks with a plan are looked at
    /\ phase = "down"
    /\ \/ /\ cur.task \in Terminal \/ ~cur.ctx.plan
          /\ phase' = "ended"
          /\ UNCHANGED <<cur, com, resumed>>
       \/ /\ cur.task \notin Terminal /\ cur.ctx.plan
          /\ phase' = "queued"
          /\ resumed' = TRUE
          /\ UNCHANGED <<cur, com>>
    /\ UNCHANGED <<inside, owner, step, path, mem, aim, exec, passed, proven,
                   loaded, token, api, toolruns, restarts>>

(* The restart loop of build_stack: a task with a durable plan is resumed    *)
(* (when a model is configured), any other unfinished one is failed.         *)
Restart ==
    /\ phase = "down"
    /\ \/ /\ cur.task \in Terminal
          /\ phase' = "ended"
          /\ UNCHANGED <<cur, com, resumed>>
       \/ /\ cur.task \notin Terminal /\ cur.ctx.plan
          /\ phase' = "queued"
          /\ resumed' = TRUE
          /\ UNCHANGED <<cur, com>>
       \/ /\ cur.task \notin Terminal
          /\ cur' = [task |-> "FAILED", ctx |-> [cur.ctx EXCEPT !.current = "FAILED"]]
          /\ com' = cur'
          /\ phase' = "ended"
          /\ UNCHANGED resumed
    /\ UNCHANGED <<inside, owner, step, path, mem, aim, exec, passed, proven,
                   loaded, token, api, toolruns, restarts>>

Next == Dispatch \/ Worker \/ Canceller \/ Crash \/ Restart

(* Dispatcher workers and started API requests keep running; a crashed       *)
(* process is restarted.  Nobody has to cancel or crash.                     *)
Fairness ==
    /\ WF_vars(Dispatch) /\ WF_vars(Worker) /\ WF_vars(Restart)
    /\ WF_vars(CancelEnter \/ CancelWrite \/ CancelSave \/ CancelNotify)

Spec == Init /\ [][Next]_vars
FairSpec == Spec /\ Fairness

-----------------------------------------------------------------------------
TypeOK ==
    /\ cur \in Rows
    /\ com \in Rows
    /\ inside \in SUBSET Threads
    /\ owner \in Threads \cup {"none"}
    /\ phase \in Phases
    /\ step \in WorkerSteps
    /\ path \in Seq(TaskState)
    /\ mem \in Contexts
    /\ loaded \in [Threads -> Contexts]
    /\ aim \in Terminal
    /\ exec \in {"none", "COMPLETED", "FAILED", "CANCELLED"}
    /\ passed \in BOOLEAN
    /\ proven \in BOOLEAN
    /\ resumed \in BOOLEAN
    /\ token \in BOOLEAN
    /\ capc \in CancelSteps
    /\ cancels \in 0..MaxCancels
    /\ acked \in BOOLEAN
    /\ toolruns \in 0..MaxTools
    /\ restarts \in 0..MaxRestarts

(* A task is durably COMPLETED only when one and the same execution          *)
(* completed and passed its verification, at first or in recovery ("A        *)
(* recovered task is NOT successful until verification passes").  It holds   *)
(* without a recovery planner, as in serve.py, and not with one.             *)
CompletedIsProven == com.task = "COMPLETED" => proven

(* From the moment the durable state says that the plan is being carried     *)
(* out, the plan is durable too, so that a restart can resume the task.  (A  *)
(* cancel request that races _plan may write back the context it loaded      *)
(* before the plan was saved; that task is CANCELLED or about to be.)        *)
ResumableAfterCrash ==
    (cancels = 0 /\ com.task \in {"WAITING_PERMISSION", "EXECUTING", "VERIFYING",
                                   "RECOVERING"}) => com.ctx.plan

(* As long as nobody cancels, the worker never asks for a transition the     *)
(* state machine refuses: wherever a crash left the task and however often   *)
(* it is resumed, the way _walk_to lays out from there is legal.             *)
NeverRefused ==
    (Running /\ step = "enter" /\ cancels = 0)
        => IsValidTransition(cur.task, Head(path))

(* A result that says COMPLETED is only ever stored for a task that is       *)
(* durably COMPLETED, and a worker that drove the task to its end has stored *)
(* some result, unless a cancel request, whose check and write are apart,    *)
(* overwrote it.  (One that could not build its agent stores nothing.)       *)
ResultTruthful ==
    cancels = 0 =>
        /\ com.ctx.result = "COMPLETED" => com.task = "COMPLETED"
        /\ (phase = "ended" /\ restarts = 0) => com.ctx.result # "none"

(* Once a cancel request was answered with success, no tool call of the plan *)
(* gets past its last look at the token, and the worker enters none of the   *)
(* phases that start tools without one: at most the _aware or                *)
(* _research_phase it was in, and calls already past the look, go on.  (While *)
(* the process lives; resumed tasks are another matter, see below.)          *)
Unguarded == phase \in {"aware", "research"} /\ step # "check"

CancelStopsTools ==
    [][(acked /\ restarts = 0) => /\ toolruns' = toolruns
                                  /\ Unguarded' => Unguarded /\ phase' = phase]_vars

(* A task that a worker takes ends in a terminal state, through failures in  *)
(* any phase, cancellation at any time, and restarts, unless the worker      *)
(* cannot build its agent and drops it.                                      *)
Settles == phase = "queued" ~> com.task \in Terminal \/ phase = "dropped"

-----------------------------------------------------------------------------
(* "cancelled: cancellation requested and work did not proceed": also for a  *)
(* task that was resumed after a restart.                                    *)
CancelStopsWork == [][acked => toolruns' = toolruns]_vars

(* A crash between any two saves leaves rows a restart can go on from: the   *)
(* task and its context agree enough to be resumed, and no transition the    *)
(* worker goes on to ask for is one the state machine refuses.               *)
CrashSafe == TypeOK /\ ResumableAfterCrash /\ NeverRefused

(* What the caller and the table are told is true: a result agrees with the  *)
(* stored task, and COMPLETED was verified.                                  *)
OutcomeTruthful == ResultTruthful /\ CompletedIsProven
=============================================================================
