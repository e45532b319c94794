----------------------------- MODULE ToolRunner -----------------------------
(***************************************************************************)
(* ToolRunner.run, the only way to a tool's handler: validation, the       *)
(* AuthorizationManager with its ApprovalStore, the wait for a human, the  *)
(* ExecutionLedger and the handler.  Several calls run at once (pool       *)
(* threads of the executor), the operator decides approvals and cancels,   *)
(* approvals expire, and the process may crash and be restarted.           *)
(*                                                                         *)
(* All actions are argument lists of one tool in one task, so equality of  *)
(* actions stands for equality of action_hash and of approval_hash.  The   *)
(* ApprovalStore is the one serve.py builds, over the SQLite repository:   *)
(* a request read from it is a copy, and update writes the copy back.      *)
(*                                                                         *)
(* The ledger shares the connection of runtime.db with every other thread. *)
(* While one of them has a transaction() open, a ledger row joins it: it   *)
(* is visible at once and durable only if that block commits.  Approval    *)
(* rows are taken as committed when they are written.                      *)
(***************************************************************************)
EXTENDS Naturals, FiniteSets

CONSTANTS Calls,       \* ToolCall objects
          Actions,     \* what they ask for
          MaxRequests, \* bound on the approval requests created
          MaxRuns,     \* bound on how often one ToolCall is run
          MaxRestarts  \* bound on process restarts

ASSUME ToolRunnerAssumption ==
    /\ MaxRequests \in Nat
    /\ MaxRuns \in Nat
    /\ MaxRestarts \in Nat

Requests == 1..MaxRequests
Decided == {"APPROVED", "DENIED"}
ApprovalStatus == Decided \cup {"PENDING", "EXPIRED", "absent"}
LedgerState == {"none", "STARTED", "COMPLETED", "FAILED", "UNKNOWN"}

(* Where a call is in run(). *)
Asking == {"waiting", "sweeping", "polling", "check"}
Cleared == {"granted", "reserve", "begin", "insert", "seen", "run", "running"}
Places == {"idle", "authorize", "request", "ended"} \cup Asking \cup Cleared

VARIABLES
    action,    \* call -> action
    needs,     \* actions for which _needs_approval holds
    ledgered,  \* the runner has an ExecutionLedger (a sub-agent's has none)
    pc,        \* call -> place in run()
    held,      \* call -> permission.approval_id, 0 for none
    listed,    \* call -> requests its unlocked sweep read as PENDING
    token,     \* calls whose cancel token is set
    runs,      \* call -> how often run() was entered
    asked,     \* request -> its action
    status,    \* request -> its status in the repository
    overdue,   \* requests past expires_at
    ledger,    \* action -> state of its row, as the connection shows it
    foreign,   \* another thread has a transaction() open on the connection
    kept,      \* the rows a rollback of that block goes back to
    seen,      \* _seen_ids
    restarts,
    effects,   \* call -> how often it started its handler
    consent,   \* actions the operator has approved
    withdrawn, \* calls cancelled before run() last read the token
    earlier,   \* actions started by an earlier incarnation of the process
    lost       \* actions whose row went with a foreign block

conf == <<action, needs, ledgered>>
store == <<asked, status, overdue>>
tx == <<foreign, kept, lost>>
world == <<effects, consent, withdrawn, earlier>>
vars == <<conf, pc, held, listed, token, runs, store, ledger, tx, seen,
          restarts, world>>

NoRows == [a \in Actions |-> "none"]

Init ==
    /\ action \in [Calls -> Actions]
    /\ needs \in SUBSET Actions
    /\ ledgered \in BOOLEAN
    /\ pc = [c \in Calls |-> "idle"]
    /\ held = [c \in Calls |-> 0]
    /\ listed = [c \in Calls |-> {}]
    /\ token = {}
    /\ runs = [c \in Calls |-> 0]
    /\ asked = [i \in Requests |-> "unasked"]
    /\ status = [i \in Requests |-> "absent"]
    /\ overdue = {}
    /\ ledger = NoRows
    /\ foreign = FALSE
    /\ kept = NoRows
    /\ seen = {}
    /\ restarts = 0
    /\ effects = [c \in Calls |-> 0]
    /\ consent = {}
    /\ withdrawn = {}
    /\ earlier = {}
    /\ lost = {}

Goto(c, place) == pc' = [pc EXCEPT ![c] = place]

-----------------------------------------------------------------------------
(* _expire_one on the requests of a set, as the repository shows them now. *)
Expire(S) ==
    [i \in Requests |-> IF i \in S \cap overdue /\ status[i] = "PENDING"
                        THEN "EXPIRED" ELSE status[i]]

(* run() up to authorize: the token, then the registry, the guard and the    *)
(* argument check, any of which may refuse the call.                         *)
Begin(c) ==
    /\ pc[c] \in {"idle", "ended"}
    /\ runs[c] < MaxRuns
    /\ runs' = [runs EXCEPT ![c] = @ + 1]
    /\ \/ Goto(c, "ended")
       \/ c \notin token /\ Goto(c, "authorize")
    /\ UNCHANGED <<conf, tx, held, listed, token, store, ledger, seen,
                   restarts, world>>

MutantValidFor(a) == {i \in Requests : status[i] = "APPROVED"}    \* of any action
(* The approvals find_valid would accept for an action. *)
ValidFor(a) == {i \in Requests : status[i] = "APPROVED" /\ asked[i] = a}

(* _decide: a hard deny or an error ends the call, a low risk is granted,    *)
(* the rest goes through the first half of _approval_gate: find_valid looks  *)
(* at the requests in the order of their last update, expiring what is       *)
(* overdue, until it meets a valid one.                                      *)
Authorize(c) ==
    /\ pc[c] = "authorize"
    /\ \/ Goto(c, "ended") /\ UNCHANGED status
       \/ action[c] \notin needs /\ Goto(c, "granted") /\ UNCHANGED status
       \/ /\ action[c] \in needs
          /\ \E visited \in SUBSET Requests :
                /\ ValidFor(action[c]) = {} => visited = Requests
                /\ status' = Expire(visited)
          /\ Goto(c, IF ValidFor(action[c]) # {} THEN "granted" ELSE "request")
    /\ UNCHANGED <<conf, tx, held, listed, token, runs, asked, overdue,
                   ledger, seen, restarts, world>>

MutantPendingFor(a, st) == {}    \* never reuses a request
(* The pending requests ApprovalStore.request would reuse. *)
PendingFor(a, st) == {i \in Requests : st[i] = "PENDING" /\ asked[i] = a}

(* The second half of _approval_gate: ApprovalStore.request, under the lock. *)
Request(c) ==
    /\ pc[c] = "request"
    /\ LET st == Expire(Requests)
           reusable == PendingFor(action[c], st)
       IN \/ /\ reusable # {}
             /\ \E i \in reusable : held' = [held EXCEPT ![c] = i]
             /\ status' = st
             /\ UNCHANGED asked
          \/ /\ reusable = {}
             /\ \E i \in Requests :
                   /\ st[i] = "absent"
                   /\ \A j \in Requests : j < i => st[j] # "absent"
                   /\ held' = [held EXCEPT ![c] = i]
                   /\ asked' = [asked EXCEPT ![i] = action[c]]
                   /\ status' = [st EXCEPT ![i] = "PENDING"]
    /\ Goto(c, "waiting")
    /\ UNCHANGED <<conf, tx, listed, token, runs, overdue, ledger, seen,
                   restarts, world>>

-----------------------------------------------------------------------------
(* One turn of await_approval.  A cancelled call gives up; otherwise         *)
(* sweep_expired, which takes no lock here, first lists the requests ...     *)
Poll(c) ==
    /\ pc[c] = "waiting"
    /\ IF c \in token
       THEN Goto(c, "ended") /\ UNCHANGED listed
       ELSE /\ Goto(c, "sweeping")
            /\ listed' = [listed EXCEPT
                             ![c] = {i \in Requests : status[i] = "PENDING"}]
    /\ UNCHANGED <<conf, tx, held, token, runs, store, ledger, seen,
                   restarts, world>>

(* ... then writes EXPIRED over those it read as PENDING and finds overdue. *)
Sweep(c) ==
    /\ pc[c] = "sweeping"
    /\ status' = [i \in Requests |-> IF i \in listed[c] \cap overdue
                                     THEN "EXPIRED" ELSE status[i]]
    /\ listed' = [listed EXCEPT ![c] = {}]
    /\ Goto(c, "polling")
    /\ UNCHANGED <<conf, tx, held, token, runs, asked, overdue, ledger,
                   seen, restarts, world>>

(* The request is read and its status decides. *)
ReadDecision(c) ==
    /\ pc[c] = "polling"
    /\ Goto(c, CASE status[held[c]] = "APPROVED" -> "check"
                 [] status[held[c]] = "PENDING" -> "waiting"
                 [] OTHER -> "ended")
    /\ UNCHANGED <<conf, tx, held, listed, token, runs, store, ledger, seen,
                   restarts, world>>

(* "approval wait timed out" *)
WaitTimeout(c) ==
    /\ pc[c] = "waiting"
    /\ Goto(c, "ended")
    /\ UNCHANGED <<conf, tx, held, listed, token, runs, store, ledger, seen,
                   restarts, world>>

(* The rest of _await_human: the token again, then check_approval, which     *)
(* reads the request once more and compares the exact action.                *)
CheckApproval(c) ==
    /\ pc[c] = "check"
    /\ IF c \in token
       THEN Goto(c, "ended") /\ UNCHANGED status
       ELSE /\ status' = Expire({held[c]})
            /\ IF status'[held[c]] = "APPROVED" /\ asked[held[c]] = action[c]
               THEN Goto(c, "granted") ELSE Goto(c, "ended")
    /\ UNCHANGED <<conf, tx, held, listed, token, runs, asked, overdue,
                   ledger, seen, restarts, world>>

-----------------------------------------------------------------------------
MutantGranted(c) ==    \* does not look at the token again
    /\ pc[c] = "granted"
    /\ Goto(c, "reserve")
    /\ UNCHANGED <<conf, tx, held, listed, token, runs, store, ledger, seen,
                   restarts, world>>

(* The last look at the token. *)
Granted(c) ==
    /\ pc[c] = "granted"
    /\ Goto(c, IF c \in token THEN "ended" ELSE "reserve")
    /\ UNCHANGED <<conf, tx, held, listed, token, runs, store, ledger, seen,
                   restarts, world>>

MutantReserve(c) ==    \* forgets that UNKNOWN must be reconciled first
    /\ pc[c] = "reserve"
    /\ Goto(c, CASE ~ledgered -> "seen"
                 [] ledger[action[c]] \in {"none", "UNKNOWN"} -> "begin"
                 [] OTHER -> "ended")
    /\ UNCHANGED <<conf, tx, held, listed, token, runs, store, ledger, seen,
                   restarts, world>>

(* _reserve_action: ledger.get refuses an action with any durable state ... *)
Reserve(c) ==
    /\ pc[c] = "reserve"
    /\ Goto(c, CASE ~ledgered -> "seen"
                 [] ledger[action[c]] = "none" -> "begin"
                 [] OTHER -> "ended")
    /\ UNCHANGED <<conf, tx, held, listed, token, runs, store, ledger, seen,
                   restarts, world>>

(* ... ledger.begin reads the row again and, for a FAILED one, restarts it ... *)
BeginRow(c) ==
    /\ pc[c] = "begin"
    /\ \/ /\ ledger[action[c]] = "none"
          /\ Goto(c, "insert")
          /\ UNCHANGED ledger
       \/ /\ ledger[action[c]] # "none"
          /\ Goto(c, "seen")
          /\ ledger' = [ledger EXCEPT
                           ![action[c]] = IF @ = "FAILED" THEN "STARTED" ELSE @]
    /\ UNCHANGED <<conf, tx, held, listed, token, runs, store, seen,
                   restarts, world>>

MutantInsertRow(c) ==    \* the row is written only when the handler is done
    /\ pc[c] = "insert"
    /\ Goto(c, "seen")
    /\ UNCHANGED <<conf, tx, held, listed, token, runs, store, ledger, seen,
                   restarts, world>>

(* ... or else inserts it, unless another thread did meanwhile. *)
InsertRow(c) ==
    /\ pc[c] = "insert"
    /\ ledger' = [ledger EXCEPT ![action[c]] = IF @ = "none" THEN "STARTED" ELSE @]
    /\ Goto(c, "seen")
    /\ UNCHANGED <<conf, tx, held, listed, token, runs, store, seen,
                   restarts, world>>

MutantSeen(c) ==    \* the id is not remembered
    /\ pc[c] = "seen"
    /\ Goto(c, IF c \in seen THEN "ended" ELSE "run")
    /\ UNCHANGED <<conf, tx, held, listed, token, runs, store, ledger, seen,
                   restarts, world>>

(* The call id is tested and recorded under _seen_lock. *)
Seen(c) ==
    /\ pc[c] = "seen"
    /\ Goto(c, IF c \in seen THEN "ended" ELSE "run")
    /\ seen' = seen \cup {c}
    /\ UNCHANGED <<conf, tx, held, listed, token, runs, store, ledger,
                   restarts, world>>

(* The handler is looked up, and started unless the tool was revoked or has  *)
(* no sandbox profile.                                                       *)
Run(c) ==
    /\ pc[c] = "run"
    /\ \/ Goto(c, "ended") /\ UNCHANGED effects
       \/ /\ Goto(c, "running")
          /\ effects' = [effects EXCEPT ![c] = @ + 1]
    /\ UNCHANGED <<conf, tx, held, listed, token, runs, store, ledger, seen,
                   restarts, consent, withdrawn, earlier>>

MutantHandlerReturns(c) ==    \* a late cancellation overrides the result
    /\ pc[c] = "running"
    /\ \E result \in {"COMPLETED", "FAILED"} :
          ledger' = [ledger EXCEPT
                        ![action[c]] = IF c \in token THEN "CANCELLED" ELSE result]
    /\ Goto(c, "ended")
    /\ UNCHANGED <<conf, tx, held, listed, token, runs, store, seen,
                   restarts, world>>

(* The handler returns a ToolResult: _finish records it ... *)
HandlerReturns(c) ==
    /\ pc[c] = "running"
    /\ \E result \in {"COMPLETED", "FAILED"} :
          ledger' = [ledger EXCEPT ![action[c]] = IF @ = "none" THEN @ ELSE result]
    /\ Goto(c, "ended")
    /\ UNCHANGED <<conf, tx, held, listed, token, runs, store, seen,
                   restarts, world>>

(* ... or it raises, times out or returns something else: _fail leaves the row. *)
HandlerRaises(c) ==
    /\ pc[c] = "running"
    /\ Goto(c, "ended")
    /\ UNCHANGED <<conf, tx, held, listed, token, runs, store, ledger, seen,
                   restarts, world>>

Thread(c) ==
    \/ Authorize(c) \/ Request(c) \/ Poll(c) \/ Sweep(c) \/ ReadDecision(c)
    \/ CheckApproval(c) \/ Granted(c) \/ Reserve(c) \/ BeginRow(c)
    \/ InsertRow(c) \/ Seen(c) \/ Run(c) \/ HandlerReturns(c) \/ HandlerRaises(c)

-----------------------------------------------------------------------------
(* ApprovalStore.decide by the operator, under the lock: an overdue request  *)
(* is expired and refused, a decided one refused.                            *)
Decide(i) ==
    /\ status[i] = "PENDING"
    /\ IF i \in overdue
       THEN status' = Expire({i}) /\ UNCHANGED consent
       ELSE \E answer \in Decided :
              /\ status' = [status EXCEPT ![i] = answer]
              /\ consent' = IF answer = "APPROVED"
                            THEN consent \cup {asked[i]} ELSE consent
    /\ UNCHANGED <<conf, tx, pc, held, listed, token, runs, asked, overdue,
                   ledger, seen, restarts, effects, withdrawn, earlier>>

(* expires_at passes.  It may be any time after the request was created. *)
Overdue(i) ==
    /\ status[i] # "absent"
    /\ i \notin overdue
    /\ overdue' = overdue \cup {i}
    /\ UNCHANGED <<conf, tx, pc, held, listed, token, runs, asked, status,
                   ledger, seen, restarts, world>>

(* The operator, a deadline or a failed sibling step sets a call's token. *)
Cancel(c) ==
    /\ pc[c] # "ended"
    /\ c \notin token
    /\ token' = token \cup {c}
    /\ withdrawn' = IF pc[c] \in Cleared \ {"granted"}
                    THEN withdrawn ELSE withdrawn \cup {c}
    /\ UNCHANGED <<conf, tx, pc, held, listed, runs, store, ledger, seen,
                   restarts, effects, consent, earlier>>

(* ExecutionLedger.recover_unknowns *)
RecoverUnknowns(rows) ==
    [a \in Actions |-> IF rows[a] = "STARTED" THEN "UNKNOWN" ELSE rows[a]]

(* Another thread (TaskManager.create_task or transition, MemoryStore)       *)
(* enters its transaction() block on the shared connection ...               *)
BlockOpens ==
    /\ ~foreign
    /\ foreign' = TRUE
    /\ kept' = ledger
    /\ UNCHANGED <<conf, pc, held, listed, token, runs, store, ledger, lost,
                   seen, restarts, world>>

(* Without its block, the connection's rows are the durable ones. *)
Durable == IF foreign THEN kept ELSE ledger

Vanished(rows) == {a \in Actions : ledger[a] # "none" /\ rows[a] = "none"}

(* ... and leaves it, with a COMMIT or a ROLLBACK of everything written      *)
(* meanwhile, the ledger rows of other threads included.                     *)
BlockEnds ==
    /\ foreign
    /\ foreign' = FALSE
    /\ kept' = NoRows
    /\ \/ UNCHANGED <<ledger, lost>>
       \/ ledger' = kept /\ lost' = lost \cup Vanished(kept)
    /\ UNCHANGED <<conf, pc, held, listed, token, runs, store, seen,
                   restarts, world>>

(* The process dies and build_stack runs in the next one: threads, tokens    *)
(* and seen ids are gone, the approvals and the durable rows are still there. *)
Restart ==
    /\ restarts < MaxRestarts
    /\ restarts' = restarts + 1
    /\ pc' = [c \in Calls |-> "ended"]
    /\ held' = [c \in Calls |-> 0]
    /\ listed' = [c \in Calls |-> {}]
    /\ token' = {}
    /\ seen' = {}
    /\ withdrawn' = {}
    /\ ledger' = RecoverUnknowns(Durable)
    /\ lost' = lost \cup Vanished(Durable)
    /\ foreign' = FALSE
    /\ kept' = NoRows
    /\ earlier' = {action[c] : c \in {d \in Calls : effects[d] > 0}}
    /\ UNCHANGED <<conf, runs, store, effects, consent>>

Next ==
    \/ \E c \in Calls : Begin(c) \/ Thread(c) \/ WaitTimeout(c) \/ Cancel(c)
    \/ \E i \in Requests : Decide(i) \/ Overdue(i)
    \/ BlockOpens \/ BlockEnds
    \/ Restart

Spec == Init /\ [][Next]_vars

-----------------------------------------------------------------------------
TypeOK ==
    /\ action \in [Calls -> Actions]
    /\ needs \in SUBSET Actions
    /\ ledgered \in BOOLEAN
    /\ pc \in [Calls -> Places]
    /\ held \in [Calls -> 0..MaxRequests]
    /\ listed \in [Calls -> SUBSET Requests]
    /\ token \in SUBSET Calls
    /\ runs \in [Calls -> 0..MaxRuns]
    /\ asked \in [Requests -> Actions \cup {"unasked"}]
    /\ status \in [Requests -> ApprovalStatus]
    /\ overdue \in SUBSET Requests
    /\ ledger \in [Actions -> LedgerState]
    /\ foreign \in BOOLEAN
    /\ kept \in [Actions -> LedgerState]
    /\ lost \in SUBSET Actions
    /\ seen \in SUBSET Calls
    /\ restarts \in 0..MaxRestarts
    /\ effects \in [Calls -> Nat]
    /\ consent \in SUBSET Actions
    /\ withdrawn \in SUBSET Calls
    /\ earlier \in SUBSET Actions

(* No handler is started for an action that needs approval unless a human    *)
(* approved exactly that action, whichever way the call was cleared (an old  *)
(* approval found, or one waited for) and whatever expired meanwhile.        *)
EffectNeedsApproval ==
    \A c \in Calls : (effects[c] > 0 /\ action[c] \in needs) => action[c] \in consent

(* Before a handler starts, its action has a row, which stays there through  *)
(* everything the calls do and through crashes (with a ledger).  Only a      *)
(* block of another thread that was open when the row was written, and was   *)
(* rolled back or cut off by the crash, takes the row away.                  *)
EffectRecorded ==
    ledgered => \A c \in Calls :
        effects[c] > 0 => ledger[action[c]] # "none" \/ action[c] \in lost

(* An action some earlier incarnation of the process started is not started  *)
(* again, however its row ended and however often it is asked for again,     *)
(* unless its row went with a block of another thread: then                  *)
(* recover_unknowns finds nothing and the action is started again, although  *)
(* docs/EXECUTION_MODEL.md:40 says "across retries/restarts" without this    *)
(* exception.                                                                *)
NoReplayAfterRestart ==
    [][ledgered => \A c \in Calls :
          action[c] \in earlier \ lost => effects'[c] = effects[c]]_vars

(* A call cancelled while it was being authorised or was waiting for a human *)
(* never reaches its handler, even if the human approves after all.          *)
WithdrawnNeverRuns ==
    \A c \in Calls : c \in withdrawn => pc[c] \notin Cleared \ {"granted"}

(* Concurrent calls for one action share one pending request, so that the    *)
(* operator is asked once and one answer settles all of them.                *)
OnePendingRequest ==
    \A i, j \in Requests :
        (status[i] = "PENDING" /\ status[j] = "PENDING" /\ asked[i] = asked[j])
            => i = j

(* Even without a ledger, one process starts the handler of a ToolCall at    *)
(* most once, however often that call is run.                                *)
CallRunsOnce == \A c \in Calls : effects[c] <= restarts + 1

-----------------------------------------------------------------------------
(* "The purpose is to prevent replay and duplicate side effects": with a     *)
(* ledger, the handler of one action is started at most once.                *)
AtMostOnce ==
    ledgered => \A c, d \in Calls :
        (effects[c] > 0 /\ effects[d] > 0 /\ action[c] = action[d]) => c = d

(* Side effects stay under the operator's control: a tool that needs a       *)
(* decision runs only on a granted one, no withdrawn call ever starts, and   *)
(* repeated or concurrent asks for one action share a single open request,   *)
(* through expiries, late answers and restarts.                              *)
EffectSafe == TypeOK /\ EffectNeedsApproval /\ WithdrawnNeverRuns /\ OnePendingRequest

(* The ledger and the seen ids account for what happened: every effect has   *)
(* its row unless a foreign block took it, and no call object takes effect   *)
(* twice in one process.                                                     *)
LedgerTruthful == EffectRecorded /\ CallRunsOnce
=============================================================================
