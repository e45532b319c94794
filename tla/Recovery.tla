------------------------------ MODULE Recovery ------------------------------
(***************************************************************************)
(* RecoveryEngine.run_with_prior: the bounded execute / verify / classify  *)
(* / act loop, with FailureClassifier, RecoveryPolicy and RecoveryPlanner. *)
(* What an execution, a verification and the replan provider answer is     *)
(* chosen by the environment.                                              *)
(***************************************************************************)
EXTENDS Naturals, FiniteSets

CONSTANTS MaxAttempts, \* max_attempts of the engine and of the RetryPolicy
          MaxReplans,  \* RecoveryPolicy.max_replans
          Plans,       \* plan versions the provider may come up with
          HasPlanner,  \* a RecoveryPlanner is configured
          Overrides    \* RecoveryPolicy.overrides, as <<class, action>> pairs

(* MODEL_FAILURE and LOGICAL_FAILURE come from exceptions only, which end the *)
(* loop without asking the policy.                                           *)
FailureClass == {"TIMEOUT", "TRANSIENT", "TOOL_FAILURE", "PERMISSION_FAILURE",
                 "DEPENDENCY_FAILURE", "VERIFICATION_FAILURE", "UNKNOWN"}
RecoveryAction == {"RETRY", "REPLAN", "SKIP", "ESCALATE", "FAIL"}

ASSUME RecoveryAssumption ==
    /\ MaxAttempts \in Nat
    /\ MaxReplans \in Nat
    /\ HasPlanner \in BOOLEAN
    /\ Overrides \subseteq FailureClass \X RecoveryAction
    /\ \A o, q \in Overrides : o[1] = q[1] => o = q    \* a dictionary

(* The class of a failed tool result, by the text of its error. *)
ErrorClass == {"PERMISSION_FAILURE", "TIMEOUT", "TRANSIENT", "TOOL_FAILURE"}

(* What the engine sees of an ExecutionResult: its status, whether some step *)
(* timed out or was skipped, and the failed tool results: whether one of     *)
(* them was denied, and the class of the first ("none" if all succeeded).    *)
Executions ==
    {r \in [status : {"COMPLETED", "FAILED", "CANCELLED"}, denied : BOOLEAN,
            timedOut : BOOLEAN, skipped : BOOLEAN,
            failed : ErrorClass \cup {"none"}] :
        /\ r.status = "COMPLETED" =>
              ~r.denied /\ ~r.timedOut /\ ~r.skipped /\ r.failed = "none"
        /\ r.denied => r.failed # "none"
        /\ r.failed = "PERMISSION_FAILURE" => r.denied}

NoResult == [status |-> "none", denied |-> FALSE, timedOut |-> FALSE,
             skipped |-> FALSE, failed |-> "none"]

(* INCONCLUSIVE stands for every status that is neither PASSED nor FAILED. *)
Verdicts == {"PASSED", "FAILED", "INCONCLUSIVE"}
Outcomes == {"RECOVERED", "FAILED", "ESCALATED", "PARTIAL"}

VARIABLES
    result,     \* the local of that name, NoResult for None
    verdict,    \* status of the local verification, "none" for None
    executions,
    retries,
    replans,
    current,    \* the plan being executed
    seen,       \* plan versions seen
    outcome,    \* "none" until the engine returns
    last,       \* the last execution that took place
    judged      \* how many executions there were when verdict was given

vars == <<result, verdict, executions, retries, replans, current, seen, outcome,
          last, judged>>

(* The engine is entered through run, with nothing, or with the failure the  *)
(* orchestrator observed; a success handed over is returned at once.         *)
Init ==
    /\ current \in Plans
    /\ seen = {current}
    /\ retries = 0
    /\ replans = 0
    /\ \/ /\ result = NoResult
          /\ verdict = "none"
          /\ executions = 0
          /\ outcome = "none"
       \/ /\ result \in Executions
          /\ verdict \in Verdicts
          /\ executions = 1
          /\ outcome = IF result.status = "COMPLETED" /\ verdict = "PASSED"
                       THEN "RECOVERED" ELSE "none"
    /\ last = result
    /\ judged = executions

-----------------------------------------------------------------------------
(* _classify with FailureClassifier: execution failures before verification. *)
Classify(r, v) ==
    CASE r.denied -> "PERMISSION_FAILURE"
      [] ~r.denied /\ r.timedOut -> "TIMEOUT"
      [] ~r.denied /\ ~r.timedOut /\ r.failed # "none" -> r.failed
      [] r.status = "FAILED" /\ ~r.denied /\ ~r.timedOut /\ r.failed = "none" ->
            IF r.skipped THEN "DEPENDENCY_FAILURE" ELSE "UNKNOWN"
      [] OTHER -> IF v = "FAILED" THEN "VERIFICATION_FAILURE" ELSE "UNKNOWN"

MutantActionFor(kind) ==    \* permission failures are retried like the rest
    IF \E o \in Overrides : o[1] = kind
    THEN (CHOOSE o \in Overrides : o[1] = kind)[2]
    ELSE CASE kind \in ErrorClass -> IF retries < MaxAttempts THEN "RETRY" ELSE "ESCALATE"
           [] kind = "VERIFICATION_FAILURE" ->
                 IF replans < MaxReplans THEN "REPLAN" ELSE "ESCALATE"
           [] OTHER -> "FAIL"

(* RecoveryPolicy.action_for *)
ActionFor(kind) ==
    IF \E o \in Overrides : o[1] = kind
    THEN (CHOOSE o \in Overrides : o[1] = kind)[2]
    ELSE CASE kind = "PERMISSION_FAILURE" -> "ESCALATE"
           [] kind \in {"TIMEOUT", "TRANSIENT", "TOOL_FAILURE"} ->
                 IF retries < MaxAttempts THEN "RETRY" ELSE "ESCALATE"
           [] kind = "VERIFICATION_FAILURE" ->
                 IF replans < MaxReplans THEN "REPLAN" ELSE "ESCALATE"
           [] OTHER -> "FAIL"

Return(status) ==
    /\ outcome' = status
    /\ UNCHANGED <<result, verdict, executions, retries, replans, current, seen,
                   last, judged>>

(* result = None; verification = None; continue *)
Again == result' = NoResult /\ verdict' = "none"

MutantExecute ==    \* the budget is checked after the execution
    /\ outcome = "none"
    /\ result = NoResult
    /\ executions <= MaxAttempts
    /\ result' \in Executions
    /\ executions' = executions + 1
    /\ verdict' = "none"
    /\ last' = result'
    /\ outcome' = IF result'.status = "CANCELLED" THEN "FAILED" ELSE "none"
    /\ UNCHANGED <<retries, replans, current, seen, judged>>

(* execute_fn, when the budget allows; a cancelled execution ends the loop. *)
Execute ==
    /\ outcome = "none"
    /\ result = NoResult
    /\ executions < MaxAttempts
    /\ result' \in Executions
    /\ executions' = executions + 1
    /\ verdict' = "none"
    /\ last' = result'
    /\ outcome' = IF result'.status = "CANCELLED" THEN "FAILED" ELSE "none"
    /\ UNCHANGED <<retries, replans, current, seen, judged>>

MutantExhausted ==    \* tries again instead of leaving the loop
    /\ outcome = "none"
    /\ result = NoResult
    /\ executions >= MaxAttempts
    /\ UNCHANGED vars

(* "attempt budget exhausted" *)
Exhausted ==
    /\ outcome = "none"
    /\ result = NoResult
    /\ executions >= MaxAttempts
    /\ Return("FAILED")

(* verify_fn; an exception ends the loop through _give_up. *)
Verify ==
    /\ outcome = "none"
    /\ result # NoResult
    /\ verdict = "none"
    /\ \/ Return("FAILED")
       \/ /\ verdict' \in Verdicts
          /\ judged' = executions
          /\ UNCHANGED <<result, executions, retries, replans, current, seen,
                         outcome, last>>

Judged == outcome = "none" /\ result # NoResult /\ verdict # "none"
MutantSuccess == verdict = "PASSED"    \* whatever the execution's status
Success == result.status = "COMPLETED" /\ verdict = "PASSED"
Decision == ActionFor(Classify(result, verdict))

Recovered == Judged /\ Success /\ Return("RECOVERED")

Retry ==
    /\ Judged /\ ~Success
    /\ Decision = "RETRY"
    /\ retries' = retries + 1
    /\ Again
    /\ UNCHANGED <<executions, replans, current, seen, outcome, last, judged>>

(* A replacement plan that request_replan accepts: not one seen before, and  *)
(* valid and allowed by policy, which is up to the environment.              *)
Replan ==
    /\ Judged /\ ~Success
    /\ Decision = "REPLAN"
    /\ HasPlanner
    /\ \E p \in Plans \ seen : current' = p /\ seen' = seen \cup {p}
    /\ replans' = replans + 1
    /\ Again
    /\ UNCHANGED <<executions, retries, outcome, last, judged>>

(* No planner, or the replacement is rejected. *)
ReplanFails == Judged /\ ~Success /\ Decision = "REPLAN" /\ Return("FAILED")

MutantStop ==    \* reports the action where the outcome belongs
    /\ Judged /\ ~Success
    /\ Decision \in {"SKIP", "ESCALATE", "FAIL"}
    /\ Return(Decision)

Stop ==
    /\ Judged /\ ~Success
    /\ \/ Decision = "SKIP" /\ Return("PARTIAL")
       \/ Decision = "ESCALATE" /\ Return("ESCALATED")
       \/ Decision = "FAIL" /\ Return("FAILED")

Next ==
    \/ Execute \/ Exhausted \/ Verify \/ Recovered
    \/ Retry \/ Replan \/ ReplanFails \/ Stop

Spec == Init /\ [][Next]_vars

(* The engine is a loop on one thread: while it has not returned it goes on. *)
FairSpec == Spec /\ WF_vars(Next)

-----------------------------------------------------------------------------
TypeOK ==
    /\ result \in Executions \cup {NoResult}
    /\ verdict \in Verdicts \cup {"none"}
    /\ executions \in Nat
    /\ retries \in Nat
    /\ replans \in Nat
    /\ current \in Plans
    /\ seen \subseteq Plans
    /\ outcome \in Outcomes \cup {"none"}
    /\ last \in Executions \cup {NoResult}
    /\ judged \in Nat

(* RECOVERED is returned only when the last execution itself completed and   *)
(* the verification that passed was made of that execution, not of an        *)
(* earlier one.                                                              *)
RecoveredIsVerified ==
    outcome = "RECOVERED" =>
        last.status = "COMPLETED" /\ verdict = "PASSED" /\ judged = executions

(* The budget holds whatever the policy decides, overrides included: at most *)
(* max_attempts executions, the one handed over counted, and no more retries *)
(* and replans together than there were executions.                          *)
WithinBudget ==
    /\ executions <= MaxAttempts \/ executions <= 1
    /\ retries + replans <= executions

(* No override asks for what was denied to be done again: to skip it, to     *)
(* fail or to escalate are the answers left for a permission failure.        *)
DenialRespected ==
    \A o \in Overrides : o[1] = "PERMISSION_FAILURE" => o[2] \notin {"RETRY", "REPLAN"}

(* "should not automatically repeat permission/security failures": after a   *)
(* denied execution nothing is executed, whatever the policy overrides, as   *)
(* long as no override maps PERMISSION_FAILURE itself to RETRY or REPLAN.    *)
(* The exception is the code's and not the documentation's: policy.py:5 says *)
(* "never retried under any policy", but action_for looks the overrides up   *)
(* first and does not treat this class apart.                                *)
DeniedNotRepeated ==
    [][(DenialRespected /\ last.denied) => executions' = executions]_vars

(* The engine returns, whatever the answers. *)
Returns == <>(outcome # "none")

(* A recovery that reports success ends with a verified execution, and it    *)
(* stays within its attempts, retries and replans on the way.                *)
RecoverySafe == TypeOK /\ RecoveredIsVerified /\ WithinBudget
=============================================================================
