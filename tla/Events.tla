------------------------------- MODULE Events -------------------------------
(***************************************************************************)
(* The event backbone of one task: EventBus delivers what a thread         *)
(* publishes to the handlers subscribed at that moment, one after the      *)
(* other in the publisher's thread; SqliteEventStore appends to the event  *)
(* table; EventAdapter folds events into what the UI shows; a consumer     *)
(* polls the table by sequence number.  Publishers run concurrently, and   *)
(* the table shares its connection with TaskManager's transactions, whose  *)
(* rollback takes back every row appended since they began.                *)
(***************************************************************************)
EXTENDS Naturals, Sequences, SequencesExt

CONSTANTS Publishers,  \* threads that publish
          Transactors, \* those that publish inside a transaction too
          Kinds,       \* event types that are published
          MaxEvents    \* bound on the events published

ASSUME EventsAssumption == MaxEvents \in Nat

VARIABLES
    handlers,   \* the subscribed handlers, in delivery order
    publisher,  \* what each thread is delivering
    published,  \* how many events were published
    log,        \* the event table; an event's place is its sequence number
    begun,      \* length of the table when the open transaction began, or NoTx
    lost,       \* events a rollback took back
    view,       \* the TaskView the adapter keeps
    shown,      \* the kinds the adapter has ingested, in order
    cursor,     \* the last sequence number the consumer has seen
    seen        \* the events the consumer was given

eventVars == <<handlers, publisher, published, log, begun, lost, view, shown, cursor, seen>>

NoTx == MaxEvents + 1
Quiet == [event |-> [n |-> 0, by |-> "none", kind |-> "none"], todo |-> <<>>, tx |-> FALSE]
NewView == [state |-> "NONE", step |-> "NONE", tool |-> "NONE", perm |-> "NONE",
            verification |-> "PENDING", recovery |-> "NONE"]

(* A handler of one event type comes before the global ones. *)
EventsInit ==
    /\ handlers = <<"typed", "log", "view">>
    /\ publisher = [t \in Publishers |-> Quiet]
    /\ published = 0
    /\ log = <<>>
    /\ begun = NoTx
    /\ lost = {}
    /\ view = NewView
    /\ shown = <<>>
    /\ cursor = 0
    /\ seen = <<>>

-----------------------------------------------------------------------------
Ended == {"COMPLETED", "FAILED", "CANCELLED"}

(* ingest, field by field: the state of the task ... *)
ShownState(s, kind) ==
    CASE kind = "TASK_CREATED" -> "CREATED"
      [] kind = "GRAPH_STARTED" -> IF s \in Ended THEN s ELSE "EXECUTING"
      [] kind \in {"STEP_FAILED", "STEP_TIMED_OUT"} -> "FAILED"
      [] kind = "GRAPH_COMPLETED" ->
            IF s \in {"FAILED", "CANCELLED", "RECOVERING"} THEN s ELSE "COMPLETED"
      [] kind = "RECOVERY_STARTED" -> "RECOVERING"
      [] OTHER -> s

(* ... of its step ... *)
ShownStep(s, kind) ==
    CASE kind = "PLAN_CREATED" -> "PENDING"
      [] kind = "STEP_READY" -> "READY"
      [] kind = "STEP_STARTED" -> "RUNNING"
      [] kind = "STEP_COMPLETED" -> "SUCCEEDED"
      [] kind = "STEP_FAILED" -> "FAILED"
      [] kind = "STEP_TIMED_OUT" -> "TIMED_OUT"
      [] kind = "STEP_CANCELLED" -> "CANCELLED"
      [] kind = "STEP_SKIPPED" -> "SKIPPED"
      [] OTHER -> s

(* ... of its tool call, which a denial marks only once it is known ... *)
ShownTool(s, kind) ==
    CASE kind = "TOOL_REQUESTED" -> IF s = "NONE" THEN "REQUESTED" ELSE s
      [] kind = "TOOL_STARTED" -> "RUNNING"
      [] kind = "TOOL_COMPLETED" -> "COMPLETED"
      [] kind = "TOOL_FAILED" -> "FAILED"
      [] kind = "PERMISSION_DENIED" -> IF s = "NONE" THEN s ELSE "DENIED"
      [] OTHER -> s

(* ... and of its permission, where a result settles only what is pending. *)
ShownPermission(s, kind) ==
    CASE kind = "TOOL_REQUESTED" -> IF s = "NONE" THEN "PENDING" ELSE s
      [] kind \in {"TOOL_COMPLETED", "TOOL_FAILED"} -> IF s = "PENDING" THEN "GRANTED" ELSE s
      [] kind = "PERMISSION_DENIED" -> "DENIED"
      [] kind = "PERMISSION_GRANTED" -> "GRANTED"
      [] OTHER -> s

Verifying == [k \in {"VERIFICATION_STARTED", "VERIFICATION_PASSED", "VERIFICATION_FAILED",
                     "VERIFICATION_INCONCLUSIVE", "VERIFICATION_ERROR"} |->
                 CASE k = "VERIFICATION_STARTED" -> "RUNNING"
                   [] k = "VERIFICATION_PASSED" -> "PASSED"
                   [] k = "VERIFICATION_FAILED" -> "FAILED"
                   [] k = "VERIFICATION_INCONCLUSIVE" -> "INCONCLUSIVE"
                   [] OTHER -> "ERROR"]

Recovering == [k \in {"RECOVERY_STARTED", "RECOVERY_DECIDED", "RECOVERY_EXHAUSTED"} |->
                  CASE k = "RECOVERY_STARTED" -> "RUNNING"
                    [] k = "RECOVERY_DECIDED" -> "DECIDED"
                    [] OTHER -> "EXHAUSTED"]

(* One event at a time: ingest tests the state before it sets it, without a  *)
(* lock, but the kinds that meet in such a test (of a graph, its steps and   *)
(* its recovery) are all emitted by the one thread that drives the task.     *)
Ingest(v, kind) ==
    [state |-> ShownState(v.state, kind), step |-> ShownStep(v.step, kind),
     tool |-> ShownTool(v.tool, kind), perm |-> ShownPermission(v.perm, kind),
     verification |-> IF kind \in DOMAIN Verifying THEN Verifying[kind] ELSE v.verification,
     recovery |-> IF kind \in DOMAIN Recovering THEN Recovering[kind] ELSE v.recovery]

-----------------------------------------------------------------------------
(* publish takes the targets under the bus's lock ... *)
Publish(t, kind) ==
    /\ publisher[t].todo = <<>>
    /\ published < MaxEvents
    /\ published' = published + 1
    /\ publisher' = [publisher EXCEPT ![t].todo = handlers,
                                      ![t].event = [n |-> published', by |-> t, kind |-> kind]]
    /\ UNCHANGED <<handlers, log, begun, lost, view, shown, cursor, seen>>

MutantAfter(todo, failed) == IF failed THEN <<>> ELSE Tail(todo)

(* What is left to deliver; a handler that fails never blocks the others. *)
After(todo, failed) == Tail(todo)

(* ... and calls them in turn without it. *)
Deliver(t) ==
    /\ publisher[t].todo # <<>>
    /\ LET h == Head(publisher[t].todo)
           e == publisher[t].event
       IN /\ log' = IF h = "log" THEN Append(log, e) ELSE log
          /\ view' = IF h = "view" THEN Ingest(view, e.kind) ELSE view
          /\ shown' = IF h = "view" THEN Append(shown, e.kind) ELSE shown
          /\ \E failed \in IF h = "typed" THEN BOOLEAN ELSE {FALSE} :
                publisher' = [publisher EXCEPT ![t].todo = After(@, failed)]
    /\ UNCHANGED <<handlers, published, begun, lost, cursor, seen>>

(* The handlers of an event's own type come before the global ones. *)
Subscribe ==
    /\ Head(handlers) # "typed"
    /\ handlers' = <<"typed">> \o handlers
    /\ UNCHANGED <<publisher, published, log, begun, lost, view, shown, cursor, seen>>

Unsubscribe ==
    /\ Head(handlers) = "typed"
    /\ handlers' = Tail(handlers)
    /\ UNCHANGED <<publisher, published, log, begun, lost, view, shown, cursor, seen>>

-----------------------------------------------------------------------------
(* TaskManager.create_task and transition publish between BEGIN and COMMIT;  *)
(* a refused transition or a failed write rolls back instead.                *)
BeginTx(t) ==
    /\ t \in Transactors
    /\ publisher[t].todo = <<>>
    /\ begun = NoTx
    /\ begun' = Len(log)
    /\ publisher' = [publisher EXCEPT ![t].tx = TRUE]
    /\ UNCHANGED <<handlers, published, log, lost, view, shown, cursor, seen>>

Commit(t) ==
    /\ publisher[t].tx
    /\ publisher[t].todo = <<>>
    /\ begun' = NoTx
    /\ publisher' = [publisher EXCEPT ![t].tx = FALSE]
    /\ UNCHANGED <<handlers, published, log, lost, view, shown, cursor, seen>>

Rollback(t) ==
    /\ publisher[t].tx
    /\ publisher[t].todo = <<>>
    /\ lost' = lost \cup ToSet(SubSeq(log, begun + 1, Len(log)))
    /\ log' = SubSeq(log, 1, begun)
    /\ begun' = NoTx
    /\ publisher' = [publisher EXCEPT ![t].tx = FALSE]
    /\ UNCHANGED <<handlers, published, view, shown, cursor, seen>>

(* events_since: every row above the cursor, which moves to the last one. *)
Poll ==
    /\ cursor < Len(log)
    /\ seen' = seen \o SubSeq(log, cursor + 1, Len(log))
    /\ cursor' = Len(log)
    /\ UNCHANGED <<handlers, publisher, published, log, begun, lost, view, shown>>

EventsNext ==
    \/ Subscribe \/ Unsubscribe \/ Poll
    \/ \E t \in Publishers :
          \/ Deliver(t) \/ BeginTx(t) \/ Commit(t) \/ Rollback(t)
          \/ \E kind \in Kinds : Publish(t, kind)

EventsSpec == EventsInit /\ [][EventsNext]_eventVars

-----------------------------------------------------------------------------
EventsTypeOK ==
    /\ published \in 0..MaxEvents
    /\ begun \in 0..NoTx
    /\ cursor \in 0..MaxEvents
    /\ ToSet(log) \cap lost = {}

(* When its publisher is done with it, an event is in the table once and in  *)
(* the publisher's own order, whatever other handlers failed or unsubscribed *)
(* meanwhile; only a rollback loses one (publish, append).                   *)
EveryEventLogged ==
    \A t \in Publishers :
        /\ \A i, k \in DOMAIN log : i < k /\ log[i].by = t /\ log[k].by = t =>
              log[i].n < log[k].n
        /\ publisher[t].todo = <<>> /\ publisher[t].event.n # 0 =>
              publisher[t].event \in ToSet(log) \cup lost

(* A task is shown COMPLETED only if it was created anew or a recovery began *)
(* after every failure of a step, whatever order the events arrive in        *)
(* (ingest).                                                                 *)
CompletionHonest ==
    view.state = "COMPLETED" =>
        \A i \in DOMAIN shown : shown[i] \in {"STEP_FAILED", "STEP_TIMED_OUT"} =>
            \E k \in DOMAIN shown : k > i /\ shown[k] \in {"TASK_CREATED", "RECOVERY_STARTED"}

(* A consumer that polls from the last sequence it saw neither misses nor    *)
(* repeats an event of the table (EventStore.events_since).                  *)
PollExact == \A i \in 1..cursor : i \in DOMAIN log => Contains(seen, log[i])

(* The log holds what was published and the view shows what happened.        *)
EventsSafe == EventsTypeOK /\ EveryEventLogged /\ CompletionHonest
=============================================================================
