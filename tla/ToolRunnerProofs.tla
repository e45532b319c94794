-------------------------- MODULE ToolRunnerProofs --------------------------
(***************************************************************************)
(* Proofs about ToolRunner for any number of calls, actions, requests,     *)
(* runs of one call and restarts.                                          *)
(***************************************************************************)
EXTENDS ToolRunner, TLAPS

(* A request that exists asks for an action. *)
RequestsAsk == \A i \in Requests : status[i] # "absent" => asked[i] \in Actions

(* What a sweep has listed exists. *)
ListedExist == \A c \in Calls : \A i \in listed[c] : status[i] # "absent"

(* A call that waits for a human waits for a request. *)
AskingHolds == \A c \in Calls : pc[c] \in Asking => held[c] \in Requests

(* An APPROVED request is the operator's consent to its action, for ever. *)
ApprovalIsConsent ==
    \A i \in Requests : status[i] = "APPROVED" => asked[i] \in consent

(* A call past the authorisation has the consent it needs. *)
ClearedHasConsent ==
    \A c \in Calls :
        (pc[c] \in Cleared /\ action[c] \in needs) => action[c] \in consent

(* A withdrawn call has its token set until the process dies. *)
WithdrawnHasToken == withdrawn \subseteq token

(* A call past the reservation has a row, unless a foreign block took it. *)
ReservedHasRow ==
    ledgered => \A c \in Calls :
        pc[c] \in {"seen", "run", "running"} =>
            ledger[action[c]] # "none" \/ action[c] \in lost

(* An effect of this incarnation is remembered in _seen_ids, and a call on   *)
(* its way to the handler has had none in it.                                *)
SeenBeforeEffect ==
    \A c \in Calls :
        /\ c \notin seen => effects[c] <= restarts
        /\ pc[c] = "run" => c \in seen /\ effects[c] <= restarts

(* What an earlier incarnation started still has its row, unless a foreign   *)
(* block took it, and the row stops every call for it at the reservation.    *)
EarlierStopped ==
    ledgered => /\ \A a \in earlier \ lost : ledger[a] # "none"
                /\ \A c \in Calls : action[c] \in earlier \ lost =>
                      pc[c] \notin {"begin", "insert", "seen", "run"}

(* Approvals, cancellation, and the ledger with the seen ids. *)
ApprovalInv ==
    /\ RequestsAsk
    /\ ListedExist
    /\ AskingHolds
    /\ ApprovalIsConsent
    /\ ClearedHasConsent
    /\ EffectNeedsApproval
    /\ OnePendingRequest

WithdrawInv == WithdrawnHasToken /\ WithdrawnNeverRuns

LedgerInv ==
    /\ ReservedHasRow
    /\ EffectRecorded
    /\ SeenBeforeEffect
    /\ CallRunsOnce
    /\ EarlierStopped

(* The inductive invariant. *)
Inv == TypeOK /\ ApprovalInv /\ WithdrawInv /\ LedgerInv

-----------------------------------------------------------------------------
(* Expiry only turns PENDING requests into EXPIRED ones. *)
LEMMA ExpireKeeps ==
    ASSUME TypeOK, NEW S
    PROVE  /\ Expire(S) \in [Requests -> ApprovalStatus]
           /\ \A i \in Requests :
                 \/ Expire(S)[i] = status[i]
                 \/ status[i] = "PENDING" /\ Expire(S)[i] = "EXPIRED"
BY DEF TypeOK, Expire, ApprovalStatus

LEMMA NoRowsType == NoRows \in [Actions -> LedgerState]
BY DEF NoRows, LedgerState

LEMMA InitInv == Init => Inv
<1> SUFFICES ASSUME Init PROVE Inv
  OBVIOUS
<1>1. TypeOK
  <2>1. /\ restarts \in 0..MaxRestarts /\ runs \in [Calls -> 0..MaxRuns]
        /\ held \in [Calls -> 0..MaxRequests] /\ effects \in [Calls -> Nat]
    BY ToolRunnerAssumption DEF Init
  <2> QED BY <2>1, NoRowsType DEF Init, TypeOK, Places, ApprovalStatus
<1>2. ApprovalInv
  BY DEF Init, ApprovalInv, RequestsAsk, ListedExist, AskingHolds,
         ApprovalIsConsent, ClearedHasConsent, EffectNeedsApproval,
         OnePendingRequest, Asking, Cleared
<1>3. WithdrawInv
  BY DEF Init, WithdrawInv, WithdrawnHasToken, WithdrawnNeverRuns
<1>4. LedgerInv
  BY DEF Init, LedgerInv, ReservedHasRow, EffectRecorded, SeenBeforeEffect,
         CallRunsOnce, EarlierStopped
<1> QED BY <1>1, <1>2, <1>3, <1>4 DEF Inv

LEMMA BeginInv == ASSUME Inv, NEW c \in Calls, Begin(c) PROVE Inv'
<1> USE DEF Inv, Begin, Goto, conf, store, tx, world
<1>1. TypeOK'
  BY ToolRunnerAssumption DEF TypeOK, Places
<1>2. ApprovalInv'
  BY DEF TypeOK, ApprovalInv, RequestsAsk, ListedExist, AskingHolds,
         ApprovalIsConsent, ClearedHasConsent, EffectNeedsApproval,
         OnePendingRequest, Asking, Cleared
<1>3. WithdrawInv'
  BY DEF TypeOK, WithdrawInv, WithdrawnHasToken, WithdrawnNeverRuns, Cleared
<1>4. LedgerInv'
  BY DEF TypeOK, LedgerInv, ReservedHasRow, EffectRecorded, SeenBeforeEffect,
         CallRunsOnce, EarlierStopped
<1> QED BY <1>1, <1>2, <1>3, <1>4

LEMMA AuthorizeInv == ASSUME Inv, NEW c \in Calls, Authorize(c) PROVE Inv'
<1> USE DEF Inv, Authorize, Goto, conf, store, tx, world, ValidFor
<1>1. TypeOK'
  BY ExpireKeeps DEF TypeOK, Places, Cleared
<1>2. ApprovalInv'
  BY ExpireKeeps DEF TypeOK, ApprovalInv, RequestsAsk, ListedExist, AskingHolds,
         ApprovalIsConsent, ClearedHasConsent, EffectNeedsApproval,
         OnePendingRequest, Asking, Cleared
<1>3. WithdrawInv'
  BY DEF TypeOK, WithdrawInv, WithdrawnHasToken, WithdrawnNeverRuns, Cleared
<1>4. LedgerInv'
  BY DEF TypeOK, LedgerInv, ReservedHasRow, EffectRecorded, SeenBeforeEffect,
         CallRunsOnce, EarlierStopped
<1> QED BY <1>1, <1>2, <1>3, <1>4

LEMMA RequestInv == ASSUME Inv, NEW c \in Calls, Request(c) PROVE Inv'
<1> USE DEF Inv, conf, store, tx, world
<1> DEFINE st == Expire(Requests)
<1>1. /\ st \in [Requests -> ApprovalStatus]
      /\ \A i \in Requests : \/ st[i] = status[i]
                             \/ status[i] = "PENDING" /\ st[i] = "EXPIRED"
  BY ExpireKeeps
<1>2. PICK i \in Requests :
        /\ held' = [held EXCEPT ![c] = i]
        /\ \/ status' = st /\ asked' = asked
           \/ /\ PendingFor(action[c], st) = {}
              /\ st[i] = "absent"
              /\ asked' = [asked EXCEPT ![i] = action[c]]
              /\ status' = [st EXCEPT ![i] = "PENDING"]
  BY DEF Request, PendingFor
<1>3. pc[c] = "request" /\ pc' = [pc EXCEPT ![c] = "waiting"]
  BY DEF Request, Goto
<1>4. UNCHANGED <<conf, tx, listed, token, runs, overdue, ledger, seen,
                  restarts, world>>
  BY DEF Request
<1> HIDE DEF st
<1>5. TypeOK'
  BY <1>1, <1>2, <1>3, <1>4, ToolRunnerAssumption
     DEF TypeOK, Requests, Places, Asking, ApprovalStatus
<1>6. RequestsAsk' /\ ListedExist' /\ AskingHolds' /\ ApprovalIsConsent'
  BY <1>1, <1>2, <1>3, <1>4
     DEF TypeOK, ApprovalInv, RequestsAsk, ListedExist, AskingHolds,
         ApprovalIsConsent, Asking
<1>7. ClearedHasConsent' /\ EffectNeedsApproval'
  BY <1>3, <1>4 DEF TypeOK, ApprovalInv, ClearedHasConsent, EffectNeedsApproval, Cleared
<1>8. OnePendingRequest'
  BY <1>1, <1>2, <1>4 DEF TypeOK, ApprovalInv, OnePendingRequest, PendingFor
<1>9. WithdrawInv'
  BY <1>3, <1>4 DEF TypeOK, WithdrawInv, WithdrawnHasToken, WithdrawnNeverRuns, Cleared
<1>10. LedgerInv'
  BY <1>3, <1>4 DEF TypeOK, LedgerInv, ReservedHasRow, EffectRecorded,
                    SeenBeforeEffect, CallRunsOnce, EarlierStopped
<1> QED BY <1>5, <1>6, <1>7, <1>8, <1>9, <1>10 DEF ApprovalInv

LEMMA PollInv == ASSUME Inv, NEW c \in Calls, Poll(c) PROVE Inv'
<1> USE DEF Inv, Poll, Goto, conf, store, tx, world
<1>1. TypeOK'
  BY ToolRunnerAssumption DEF TypeOK, Places, Asking
<1>2. ApprovalInv'
  BY DEF TypeOK, ApprovalInv, RequestsAsk, ListedExist, AskingHolds,
         ApprovalIsConsent, ClearedHasConsent, EffectNeedsApproval,
         OnePendingRequest, Asking, Cleared
<1>3. WithdrawInv'
  BY DEF TypeOK, WithdrawInv, WithdrawnHasToken, WithdrawnNeverRuns, Cleared
<1>4. LedgerInv'
  BY DEF TypeOK, LedgerInv, ReservedHasRow, EffectRecorded, SeenBeforeEffect,
         CallRunsOnce, EarlierStopped
<1> QED BY <1>1, <1>2, <1>3, <1>4

LEMMA SweepInv == ASSUME Inv, NEW c \in Calls, Sweep(c) PROVE Inv'
<1> USE DEF Inv, Sweep, Goto, conf, store, tx, world
<1>1. TypeOK'
  BY ToolRunnerAssumption DEF TypeOK, Places, ApprovalStatus, Asking
<1>2. ApprovalInv'
  BY DEF TypeOK, ApprovalInv, RequestsAsk, ListedExist, AskingHolds,
         ApprovalIsConsent, ClearedHasConsent, EffectNeedsApproval,
         OnePendingRequest, Asking, Cleared
<1>3. WithdrawInv'
  BY DEF TypeOK, WithdrawInv, WithdrawnHasToken, WithdrawnNeverRuns, Cleared
<1>4. LedgerInv'
  BY DEF TypeOK, LedgerInv, ReservedHasRow, EffectRecorded, SeenBeforeEffect,
         CallRunsOnce, EarlierStopped
<1> QED BY <1>1, <1>2, <1>3, <1>4

LEMMA ReadDecisionInv == ASSUME Inv, NEW c \in Calls, ReadDecision(c) PROVE Inv'
<1> USE DEF Inv, ReadDecision, Goto, conf, store, tx, world
<1>1. TypeOK'
  BY ToolRunnerAssumption DEF TypeOK, Places, Asking
<1>2. ApprovalInv'
  BY DEF TypeOK, ApprovalInv, RequestsAsk, ListedExist, AskingHolds,
         ApprovalIsConsent, ClearedHasConsent, EffectNeedsApproval,
         OnePendingRequest, Asking, Cleared
<1>3. WithdrawInv'
  BY DEF TypeOK, WithdrawInv, WithdrawnHasToken, WithdrawnNeverRuns, Cleared
<1>4. LedgerInv'
  BY DEF TypeOK, LedgerInv, ReservedHasRow, EffectRecorded, SeenBeforeEffect,
         CallRunsOnce, EarlierStopped
<1> QED BY <1>1, <1>2, <1>3, <1>4

LEMMA WaitTimeoutInv == ASSUME Inv, NEW c \in Calls, WaitTimeout(c) PROVE Inv'
<1> USE DEF Inv, WaitTimeout, Goto, conf, store, tx, world
<1>1. TypeOK'
  BY ToolRunnerAssumption DEF TypeOK, Places
<1>2. ApprovalInv'
  BY DEF TypeOK, ApprovalInv, RequestsAsk, ListedExist, AskingHolds,
         ApprovalIsConsent, ClearedHasConsent, EffectNeedsApproval,
         OnePendingRequest, Asking, Cleared
<1>3. WithdrawInv'
  BY DEF TypeOK, WithdrawInv, WithdrawnHasToken, WithdrawnNeverRuns, Cleared
<1>4. LedgerInv'
  BY DEF TypeOK, LedgerInv, ReservedHasRow, EffectRecorded, SeenBeforeEffect,
         CallRunsOnce, EarlierStopped
<1> QED BY <1>1, <1>2, <1>3, <1>4

LEMMA CheckApprovalInv == ASSUME Inv, NEW c \in Calls, CheckApproval(c) PROVE Inv'
<1> USE DEF Inv, CheckApproval, Goto, conf, store, tx, world, Expire
<1>1. TypeOK'
  BY ToolRunnerAssumption DEF TypeOK, Places, ApprovalStatus, Cleared
<1>2. ApprovalInv'
  BY DEF TypeOK, ApprovalInv, RequestsAsk, ListedExist, AskingHolds,
         ApprovalIsConsent, ClearedHasConsent, EffectNeedsApproval,
         OnePendingRequest, Asking, Cleared
<1>3. WithdrawInv'
  BY DEF TypeOK, WithdrawInv, WithdrawnHasToken, WithdrawnNeverRuns, Cleared
<1>4. LedgerInv'
  BY DEF TypeOK, LedgerInv, ReservedHasRow, EffectRecorded, SeenBeforeEffect,
         CallRunsOnce, EarlierStopped
<1> QED BY <1>1, <1>2, <1>3, <1>4

LEMMA GrantedInv == ASSUME Inv, NEW c \in Calls, Granted(c) PROVE Inv'
<1> USE DEF Inv, Granted, Goto, conf, store, tx, world
<1>1. TypeOK'
  BY ToolRunnerAssumption DEF TypeOK, Places, Cleared
<1>2. ApprovalInv'
  BY DEF TypeOK, ApprovalInv, RequestsAsk, ListedExist, AskingHolds,
         ApprovalIsConsent, ClearedHasConsent, EffectNeedsApproval,
         OnePendingRequest, Asking, Cleared
<1>3. WithdrawInv'
  BY DEF TypeOK, WithdrawInv, WithdrawnHasToken, WithdrawnNeverRuns, Cleared
<1>4. LedgerInv'
  BY DEF TypeOK, LedgerInv, ReservedHasRow, EffectRecorded, SeenBeforeEffect,
         CallRunsOnce, EarlierStopped
<1> QED BY <1>1, <1>2, <1>3, <1>4

LEMMA ReserveInv == ASSUME Inv, NEW c \in Calls, Reserve(c) PROVE Inv'
<1> USE DEF Inv, Reserve, Goto, conf, store, tx, world
<1>1. TypeOK'
  BY ToolRunnerAssumption DEF TypeOK, Places, Cleared
<1>2. ApprovalInv'
  BY DEF TypeOK, ApprovalInv, RequestsAsk, ListedExist, AskingHolds,
         ApprovalIsConsent, ClearedHasConsent, EffectNeedsApproval,
         OnePendingRequest, Asking, Cleared
<1>3. WithdrawInv'
  BY DEF TypeOK, WithdrawInv, WithdrawnHasToken, WithdrawnNeverRuns, Cleared
<1>4. LedgerInv'
  BY DEF TypeOK, LedgerInv, ReservedHasRow, EffectRecorded, SeenBeforeEffect,
         CallRunsOnce, EarlierStopped
<1> QED BY <1>1, <1>2, <1>3, <1>4

LEMMA BeginRowInv == ASSUME Inv, NEW c \in Calls, BeginRow(c) PROVE Inv'
<1> USE DEF Inv, BeginRow, Goto, conf, store, tx, world
<1>1. TypeOK'
  BY ToolRunnerAssumption DEF TypeOK, Places, Cleared, LedgerState
<1>2. ApprovalInv'
  BY DEF TypeOK, ApprovalInv, RequestsAsk, ListedExist, AskingHolds,
         ApprovalIsConsent, ClearedHasConsent, EffectNeedsApproval,
         OnePendingRequest, Asking, Cleared
<1>3. WithdrawInv'
  BY DEF TypeOK, WithdrawInv, WithdrawnHasToken, WithdrawnNeverRuns, Cleared
<1>4. LedgerInv'
  BY DEF TypeOK, LedgerInv, ReservedHasRow, EffectRecorded, SeenBeforeEffect,
         CallRunsOnce, EarlierStopped
<1> QED BY <1>1, <1>2, <1>3, <1>4

LEMMA InsertRowInv == ASSUME Inv, NEW c \in Calls, InsertRow(c) PROVE Inv'
<1> USE DEF Inv, InsertRow, Goto, conf, store, tx, world
<1>1. TypeOK'
  BY ToolRunnerAssumption DEF TypeOK, Places, Cleared, LedgerState
<1>2. ApprovalInv'
  BY DEF TypeOK, ApprovalInv, RequestsAsk, ListedExist, AskingHolds,
         ApprovalIsConsent, ClearedHasConsent, EffectNeedsApproval,
         OnePendingRequest, Asking, Cleared
<1>3. WithdrawInv'
  BY DEF TypeOK, WithdrawInv, WithdrawnHasToken, WithdrawnNeverRuns, Cleared
<1>4. LedgerInv'
  BY DEF TypeOK, LedgerInv, ReservedHasRow, EffectRecorded, SeenBeforeEffect,
         CallRunsOnce, EarlierStopped
<1> QED BY <1>1, <1>2, <1>3, <1>4

LEMMA SeenInv == ASSUME Inv, NEW c \in Calls, Seen(c) PROVE Inv'
<1> USE DEF Inv, Seen, Goto, conf, store, tx, world
<1>1. TypeOK'
  BY ToolRunnerAssumption DEF TypeOK, Places, Cleared
<1>2. ApprovalInv'
  BY DEF TypeOK, ApprovalInv, RequestsAsk, ListedExist, AskingHolds,
         ApprovalIsConsent, ClearedHasConsent, EffectNeedsApproval,
         OnePendingRequest, Asking, Cleared
<1>3. WithdrawInv'
  BY DEF TypeOK, WithdrawInv, WithdrawnHasToken, WithdrawnNeverRuns, Cleared
<1>4. LedgerInv'
  BY DEF TypeOK, LedgerInv, ReservedHasRow, EffectRecorded, SeenBeforeEffect,
         CallRunsOnce, EarlierStopped
<1> QED BY <1>1, <1>2, <1>3, <1>4

LEMMA RunInv == ASSUME Inv, NEW c \in Calls, Run(c) PROVE Inv'
<1> USE DEF Inv, Run, Goto, conf, store, tx, world
<1>1. TypeOK'
  BY ToolRunnerAssumption DEF TypeOK, Places, Cleared
<1>2. ApprovalInv'
  BY DEF TypeOK, ApprovalInv, RequestsAsk, ListedExist, AskingHolds,
         ApprovalIsConsent, ClearedHasConsent, EffectNeedsApproval,
         OnePendingRequest, Asking, Cleared
<1>3. WithdrawInv'
  BY DEF TypeOK, WithdrawInv, WithdrawnHasToken, WithdrawnNeverRuns, Cleared
<1>4. LedgerInv'
  BY DEF TypeOK, LedgerInv, ReservedHasRow, EffectRecorded, SeenBeforeEffect,
         CallRunsOnce, EarlierStopped
<1> QED BY <1>1, <1>2, <1>3, <1>4

LEMMA HandlerReturnsInv == ASSUME Inv, NEW c \in Calls, HandlerReturns(c) PROVE Inv'
<1> USE DEF Inv, HandlerReturns, Goto, conf, store, tx, world
<1>1. TypeOK'
  BY ToolRunnerAssumption DEF TypeOK, Places, LedgerState
<1>2. ApprovalInv'
  BY DEF TypeOK, ApprovalInv, RequestsAsk, ListedExist, AskingHolds,
         ApprovalIsConsent, ClearedHasConsent, EffectNeedsApproval,
         OnePendingRequest, Asking, Cleared
<1>3. WithdrawInv'
  BY DEF TypeOK, WithdrawInv, WithdrawnHasToken, WithdrawnNeverRuns, Cleared
<1>4. LedgerInv'
  BY DEF TypeOK, LedgerInv, ReservedHasRow, EffectRecorded, SeenBeforeEffect,
         CallRunsOnce, EarlierStopped
<1> QED BY <1>1, <1>2, <1>3, <1>4

LEMMA HandlerRaisesInv == ASSUME Inv, NEW c \in Calls, HandlerRaises(c) PROVE Inv'
<1> USE DEF Inv, HandlerRaises, Goto, conf, store, tx, world
<1>1. TypeOK'
  BY ToolRunnerAssumption DEF TypeOK, Places
<1>2. ApprovalInv'
  BY DEF TypeOK, ApprovalInv, RequestsAsk, ListedExist, AskingHolds,
         ApprovalIsConsent, ClearedHasConsent, EffectNeedsApproval,
         OnePendingRequest, Asking, Cleared
<1>3. WithdrawInv'
  BY DEF TypeOK, WithdrawInv, WithdrawnHasToken, WithdrawnNeverRuns, Cleared
<1>4. LedgerInv'
  BY DEF TypeOK, LedgerInv, ReservedHasRow, EffectRecorded, SeenBeforeEffect,
         CallRunsOnce, EarlierStopped
<1> QED BY <1>1, <1>2, <1>3, <1>4

LEMMA CancelInv == ASSUME Inv, NEW c \in Calls, Cancel(c) PROVE Inv'
<1> USE DEF Inv, Cancel, Goto, conf, store, tx, world
<1>1. TypeOK'
  BY ToolRunnerAssumption DEF TypeOK, Places
<1>2. ApprovalInv'
  BY DEF TypeOK, ApprovalInv, RequestsAsk, ListedExist, AskingHolds,
         ApprovalIsConsent, ClearedHasConsent, EffectNeedsApproval,
         OnePendingRequest, Asking, Cleared
<1>3. WithdrawInv'
  BY DEF TypeOK, WithdrawInv, WithdrawnHasToken, WithdrawnNeverRuns, Cleared
<1>4. LedgerInv'
  BY DEF TypeOK, LedgerInv, ReservedHasRow, EffectRecorded, SeenBeforeEffect,
         CallRunsOnce, EarlierStopped
<1> QED BY <1>1, <1>2, <1>3, <1>4

LEMMA DecideInv == ASSUME Inv, NEW i \in Requests, Decide(i) PROVE Inv'
<1> USE DEF Inv, Decide, conf, store, tx, world
<1>1. TypeOK'
  BY ExpireKeeps DEF TypeOK, ApprovalInv, RequestsAsk, ApprovalStatus, Decided
<1>2. ApprovalInv'
  BY ExpireKeeps DEF TypeOK, ApprovalInv, RequestsAsk, ListedExist, AskingHolds,
         ApprovalIsConsent, ClearedHasConsent, EffectNeedsApproval,
         OnePendingRequest, Asking, Cleared, Decided
<1>3. WithdrawInv'
  BY DEF TypeOK, WithdrawInv, WithdrawnHasToken, WithdrawnNeverRuns, Cleared
<1>4. LedgerInv'
  BY DEF TypeOK, LedgerInv, ReservedHasRow, EffectRecorded, SeenBeforeEffect,
         CallRunsOnce, EarlierStopped
<1> QED BY <1>1, <1>2, <1>3, <1>4

LEMMA OverdueInv == ASSUME Inv, NEW i \in Requests, Overdue(i) PROVE Inv'
<1> USE DEF Inv, Overdue, conf, store, tx, world
<1>1. TypeOK'
  BY DEF TypeOK
<1>2. ApprovalInv'
  BY DEF TypeOK, ApprovalInv, RequestsAsk, ListedExist, AskingHolds,
         ApprovalIsConsent, ClearedHasConsent, EffectNeedsApproval,
         OnePendingRequest, Asking, Cleared
<1>3. WithdrawInv'
  BY DEF TypeOK, WithdrawInv, WithdrawnHasToken, WithdrawnNeverRuns, Cleared
<1>4. LedgerInv'
  BY DEF TypeOK, LedgerInv, ReservedHasRow, EffectRecorded, SeenBeforeEffect,
         CallRunsOnce, EarlierStopped
<1> QED BY <1>1, <1>2, <1>3, <1>4

LEMMA BlockOpensInv == ASSUME Inv, BlockOpens PROVE Inv'
<1> USE DEF Inv, BlockOpens, conf, store, tx, world
<1>1. TypeOK'
  BY DEF TypeOK
<1>2. ApprovalInv'
  BY DEF TypeOK, ApprovalInv, RequestsAsk, ListedExist, AskingHolds,
         ApprovalIsConsent, ClearedHasConsent, EffectNeedsApproval,
         OnePendingRequest, Asking, Cleared
<1>3. WithdrawInv'
  BY DEF TypeOK, WithdrawInv, WithdrawnHasToken, WithdrawnNeverRuns, Cleared
<1>4. LedgerInv'
  BY DEF TypeOK, LedgerInv, ReservedHasRow, EffectRecorded, SeenBeforeEffect,
         CallRunsOnce, EarlierStopped
<1> QED BY <1>1, <1>2, <1>3, <1>4

LEMMA BlockEndsInv == ASSUME Inv, BlockEnds PROVE Inv'
<1> USE DEF Inv, BlockEnds, Vanished, NoRows, conf, store, tx, world
<1>1. TypeOK'
  BY DEF TypeOK, LedgerState
<1>2. ApprovalInv'
  BY DEF TypeOK, ApprovalInv, RequestsAsk, ListedExist, AskingHolds,
         ApprovalIsConsent, ClearedHasConsent, EffectNeedsApproval,
         OnePendingRequest, Asking, Cleared
<1>3. WithdrawInv'
  BY DEF TypeOK, WithdrawInv, WithdrawnHasToken, WithdrawnNeverRuns, Cleared
<1>4. LedgerInv'
  BY DEF TypeOK, LedgerInv, ReservedHasRow, EffectRecorded, SeenBeforeEffect,
         CallRunsOnce, EarlierStopped
<1> QED BY <1>1, <1>2, <1>3, <1>4

LEMMA RestartInv == ASSUME Inv, Restart PROVE Inv'
<1> USE DEF Inv, Restart, RecoverUnknowns, Durable, Vanished, conf, store, tx, world
<1>1. TypeOK'
  <2>1. restarts' \in 0..MaxRestarts /\ held' \in [Calls -> 0..MaxRequests]
    BY ToolRunnerAssumption DEF TypeOK
  <2>2. ledger' \in [Actions -> LedgerState] /\ lost' \in SUBSET Actions
    BY DEF TypeOK, LedgerState
  <2>3. earlier' \in SUBSET Actions
    BY DEF TypeOK
  <2> QED BY <2>1, <2>2, <2>3, NoRowsType DEF TypeOK, Places
<1>2. ApprovalInv'
  BY DEF TypeOK, ApprovalInv, RequestsAsk, ListedExist, AskingHolds,
         ApprovalIsConsent, ClearedHasConsent, EffectNeedsApproval,
         OnePendingRequest, Asking, Cleared
<1>3. WithdrawInv'
  BY DEF TypeOK, WithdrawInv, WithdrawnHasToken, WithdrawnNeverRuns, Cleared
<1>4. LedgerInv'
  BY DEF TypeOK, LedgerInv, ReservedHasRow, EffectRecorded, SeenBeforeEffect,
         CallRunsOnce, EarlierStopped
<1> QED BY <1>1, <1>2, <1>3, <1>4

LEMMA StutterInv == ASSUME Inv, UNCHANGED vars PROVE Inv'
<1> USE DEF Inv, vars, conf, store, tx, world
<1>1. TypeOK'
  BY DEF TypeOK
<1>2. ApprovalInv'
  BY DEF TypeOK, ApprovalInv, RequestsAsk, ListedExist, AskingHolds,
         ApprovalIsConsent, ClearedHasConsent, EffectNeedsApproval,
         OnePendingRequest, Asking, Cleared
<1>3. WithdrawInv'
  BY DEF TypeOK, WithdrawInv, WithdrawnHasToken, WithdrawnNeverRuns, Cleared
<1>4. LedgerInv'
  BY DEF TypeOK, LedgerInv, ReservedHasRow, EffectRecorded, SeenBeforeEffect,
         CallRunsOnce, EarlierStopped
<1> QED BY <1>1, <1>2, <1>3, <1>4

LEMMA NextInv == Inv /\ [Next]_vars => Inv'
<1> SUFFICES ASSUME Inv, [Next]_vars PROVE Inv'
  OBVIOUS
<1>1. ASSUME NEW c \in Calls, Begin(c) \/ Thread(c) \/ WaitTimeout(c) \/ Cancel(c)
      PROVE  Inv'
  BY <1>1, BeginInv, AuthorizeInv, RequestInv, PollInv, SweepInv, ReadDecisionInv,
     WaitTimeoutInv, CheckApprovalInv, GrantedInv, ReserveInv, BeginRowInv,
     InsertRowInv, SeenInv, RunInv, HandlerReturnsInv, HandlerRaisesInv, CancelInv
     DEF Thread
<1>2. ASSUME NEW i \in Requests, Decide(i) \/ Overdue(i) PROVE Inv'
  BY <1>2, DecideInv, OverdueInv
<1>3. CASE BlockOpens \/ BlockEnds \/ Restart
  BY <1>3, BlockOpensInv, BlockEndsInv, RestartInv
<1>4. CASE UNCHANGED vars
  BY <1>4, StutterInv
<1> QED BY <1>1, <1>2, <1>3, <1>4 DEF Next

LEMMA Invariant == Spec => []Inv
BY InitInv, NextInv, PTL DEF Spec

-----------------------------------------------------------------------------
(* A tool that needs a decision runs only on a human's approval of exactly   *)
(* its action, a withdrawn call never starts, and calls for one action share *)
(* one open request (ToolRunner.run, AuthorizationManager, ApprovalStore).   *)
THEOREM EffectsUnderControl == Spec => []EffectSafe
<1>1. Inv => EffectSafe
  BY DEF Inv, ApprovalInv, WithdrawInv, EffectSafe
<1> QED BY <1>1, Invariant, PTL

(* Every effect has a row before it happens and keeps it, unless the block   *)
(* of another thread that the row joined was rolled back or cut off, and no  *)
(* ToolCall takes effect twice in one process (_reserve_action, _seen_ids).  *)
THEOREM LedgerIsTruthful == Spec => []LedgerTruthful
<1>1. Inv => LedgerTruthful
  BY DEF Inv, LedgerInv, LedgerTruthful
<1> QED BY <1>1, Invariant, PTL

(* An action an earlier incarnation of the process started is not started    *)
(* again (ExecutionLedger.get and recover_unknowns), unless its row went     *)
(* with a block of another thread.                                           *)
THEOREM NotReplayed == Spec => NoReplayAfterRestart
<1>1. ASSUME Inv, [Next]_vars
      PROVE  [ledgered => \A c \in Calls :
                 action[c] \in earlier \ lost => effects'[c] = effects[c]]_vars
  <2> SUFFICES ASSUME ledgered, NEW d \in Calls, action[d] \in earlier \ lost
               PROVE  effects'[d] = effects[d]
    OBVIOUS
  <2>1. pc[d] # "run" /\ effects \in [Calls -> Nat]
    BY <1>1 DEF Inv, TypeOK, LedgerInv, EarlierStopped
  <2>2. ASSUME NEW c \in Calls, Run(c) PROVE effects'[d] = effects[d]
    BY <2>1, <2>2 DEF Run
  <2>3. ASSUME NEW c \in Calls,
               Begin(c) \/ WaitTimeout(c) \/ Cancel(c) \/ (Thread(c) /\ ~Run(c))
        PROVE  effects' = effects
    BY <2>3 DEF Thread, Begin, Authorize, Request, Poll, Sweep, ReadDecision,
                WaitTimeout, CheckApproval, Granted, Reserve, BeginRow, InsertRow,
                Seen, HandlerReturns, HandlerRaises, Cancel, world
  <2>4. ASSUME NEW i \in Requests, Decide(i) \/ Overdue(i) PROVE effects' = effects
    BY <2>4 DEF Decide, Overdue, world
  <2>5. CASE BlockOpens \/ BlockEnds \/ Restart \/ UNCHANGED vars
    BY <2>5 DEF BlockOpens, BlockEnds, Restart, vars, world
  <2> QED BY <1>1, <2>2, <2>3, <2>4, <2>5 DEF Next
<1> QED BY <1>1, Invariant, PTL DEF Spec, NoReplayAfterRestart
=============================================================================
