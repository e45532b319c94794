------------------------------- MODULE Agents -------------------------------
(***************************************************************************)
(* The multi-agent layer: AgentRegistry and AgentTaskRepository (durable), *)
(* AgentManager.run_task on pool threads, and one caller thread that runs  *)
(* Coordinator.fan_out, Coordinator.chain, Supervisor.run_goal, the        *)
(* agent.delegate tool, or run_all on what a restart reset.  Requests,     *)
(* results and handoffs go through a MessageBus.  Every repository call is *)
(* a step of its own: nothing holds a lock across two of them.             *)
(***************************************************************************)
EXTENDS Naturals, FiniteSets

CONSTANTS Team,       \* agent ids
          Sup,        \* the supervisor's id on the bus
          Subtasks,   \* number of subtasks of a run
          MaxWorkers, \* max_workers
          MaxMail,    \* max_inbox of the team's bus
          MaxCrashes  \* bound on restarts

ASSUME AgentsAssumption ==
    /\ Subtasks \in Nat \ {0}
    /\ MaxWorkers \in Nat \ {0}
    /\ MaxCrashes \in Nat
    /\ Team # {} /\ Sup \notin Team

Records == 1..Subtasks
Members == Team \cup {Sup}
Modes == {"fan_out", "chain", "run_goal", "delegate", "rerun"}

VARIABLES
    agent,    \* AgentDefinition.status, "absent" without a row
    record,   \* AgentTask.status, "none" without a row
    owner,    \* owner_agent of each subtask of the run
    thread,   \* record -> where run_task is and what the executor answered
    caller,   \* the run in progress: its mode, place and position
    stop,     \* the run's CancellationToken is set
    batch,    \* record ids handed to run_all and not yet started
    got,      \* the results of run_all (or of the chain), by record
    report,   \* Coordination.verified, by agent
    gone,     \* agents that were deregistered at some time
    crashes,
    peers, mail, paired, relays, kept, late, read   \* the team's MessageBus

runVars == <<agent, record, owner, thread, caller, stop, batch, got, report,
             gone, crashes>>
mailVars == <<peers, mail, paired, relays, kept, late, read>>
teamVars == <<runVars, mailVars>>

Bus == INSTANCE MessageBus
         WITH Peers <- Members, Ids <- 1..(2 * Subtasks), MaxInbox <- MaxMail, MaxHops <- 0,
              Ttl <- 8, Persistent <- TRUE, registered <- peers, inbox <- mail,
              pairs <- paired, forwarded <- relays, stored <- kept, expired <- late,
              received <- read

Request(r) == Bus!NewMessage(r, Sup, owner[r])
Result(r) == Bus!NewMessage(Subtasks + r, owner[r], Sup)

Idle == [at |-> "idle", ok |-> FALSE]
Resting == [mode |-> "none", at |-> "idle", k |-> 0]
Threads == {"idle", "read", "mark", "busyGet", "busyPut", "executing",
            "freeGet", "freePut", "settle", "done", "raised"}
Calls == {"idle", "submit", "request", "handoff", "fill", "inline", "report",
          "returned", "raised"}

AgentsInit ==
    /\ agent = [a \in Team |-> "absent"]
    /\ record = [r \in Records |-> "none"]
    /\ owner = [r \in Records |-> Sup]
    /\ thread = [r \in Records |-> Idle]
    /\ caller = Resting
    /\ stop = FALSE
    /\ batch = {}
    /\ got = [r \in Records |-> "none"]
    /\ report = [a \in Team |-> "none"]
    /\ gone = {}
    /\ crashes = 0
    /\ Bus!BusInit

-----------------------------------------------------------------------------
(* AgentRegistry.register, spawn and deregister, called by the application.  *)
RegisterAgent(a) ==
    /\ agent[a] = "absent"
    /\ a \notin gone    \* an id is used once
    /\ agent' = [agent EXCEPT ![a] = "CREATED"]
    /\ UNCHANGED <<record, owner, thread, caller, stop, batch, got, report,
                   gone, crashes, mailVars>>

Spawn(a) ==
    /\ agent[a] = "CREATED"
    /\ agent' = [agent EXCEPT ![a] = "READY"]
    /\ UNCHANGED <<record, owner, thread, caller, stop, batch, got, report,
                   gone, crashes, mailVars>>

Deregister(a) ==
    /\ agent[a] # "absent"
    /\ agent' = [agent EXCEPT ![a] = "absent"]
    /\ gone' = gone \cup {a}
    /\ UNCHANGED <<record, owner, thread, caller, stop, batch, got, report,
                   crashes, mailVars>>

(* The rest of the bus's users: agents join it, before a run or not at all,  *)
(* and read their inboxes whenever they like.                                *)
BusStep ==
    /\ \E p \in Members :
          \/ caller = Resting /\ p \notin peers /\ Bus!Register(p)
          \/ Bus!Receive(p)
    /\ UNCHANGED runVars

-----------------------------------------------------------------------------
Move(r, at) == thread' = [thread EXCEPT ![r].at = at]
ThreadFrame == UNCHANGED <<owner, caller, stop, batch, got, report, gone, crashes, mailVars>>

MutantRead(r) ==    \* runs whatever is not running
    /\ thread[r].at = "read"
    /\ Move(r, IF record[r] # "RUNNING" /\ agent[owner[r]] # "absent" THEN "mark" ELSE "raised")
    /\ UNCHANGED <<agent, record>>
    /\ ThreadFrame

(* run_task: the record is read, and scoped_runner looks the owner up. *)
Read(r) ==
    /\ thread[r].at = "read"
    /\ Move(r, IF record[r] \in {"CREATED", "READY"} /\ agent[owner[r]] # "absent"
               THEN "mark" ELSE "raised")
    /\ UNCHANGED <<agent, record>>
    /\ ThreadFrame

Mark(r) ==
    /\ thread[r].at = "mark"
    /\ record' = [record EXCEPT ![r] = "RUNNING"]
    /\ Move(r, "busyGet")
    /\ UNCHANGED agent
    /\ ThreadFrame

(* set_status reads the row and raises when there is none ... *)
StatusGet(r) ==
    /\ \/ thread[r].at = "busyGet" /\ Move(r, IF agent[owner[r]] = "absent" THEN "raised" ELSE "busyPut")
       \/ thread[r].at = "freeGet" /\ Move(r, IF agent[owner[r]] = "absent" THEN "raised" ELSE "freePut")
    /\ UNCHANGED <<agent, record>>
    /\ ThreadFrame

(* ... then writes it back; update inserts a row that has gone meanwhile. *)
StatusPut(r) ==
    /\ \/ thread[r].at = "busyPut" /\ agent' = [agent EXCEPT ![owner[r]] = "RUNNING"] /\ Move(r, "executing")
       \/ thread[r].at = "freePut" /\ agent' = [agent EXCEPT ![owner[r]] = "READY"] /\ Move(r, "settle")
    /\ UNCHANGED record
    /\ ThreadFrame

(* The executor returns COMPLETED, another status, or raises (recorded as    *)
(* FAILED); the finally block follows in every case.                         *)
ExecuteRecord(r) ==
    /\ thread[r].at = "executing"
    /\ \E ok \in BOOLEAN : thread' = [thread EXCEPT ![r] = [at |-> "freeGet", ok |-> ok]]
    /\ UNCHANGED <<agent, record>>
    /\ ThreadFrame

Settle(r) ==
    /\ thread[r].at = "settle"
    /\ record' = [record EXCEPT ![r] = IF thread[r].ok THEN "COMPLETED" ELSE "FAILED"]
    /\ Move(r, "done")
    /\ UNCHANGED agent
    /\ ThreadFrame

RunTask(r) == Read(r) \/ Mark(r) \/ StatusGet(r) \/ StatusPut(r) \/ ExecuteRecord(r) \/ Settle(r)

-----------------------------------------------------------------------------
(* What the caller gets for a thread that ended: an exception becomes a      *)
(* FAILED result in run_all, and the caller's own exception elsewhere.       *)
Ended(r) == thread[r].at \in {"done", "raised"}
Answer(r) == IF thread[r].at = "done" /\ thread[r].ok THEN "ok" ELSE "bad"
InFlight == {r \in Records : thread[r].at # "idle"}

Go(at, k) == caller' = [caller EXCEPT !.at = at, !.k = k]
Raise == caller' = [caller EXCEPT !.at = "raised"]

(* A run begins; fan_out and chain put the supervisor on the bus.  Agents    *)
(* differ in nothing but their ids, so who the first subtask goes to is      *)
(* fixed.                                                                    *)
Begin(mode, who) ==
    /\ caller = Resting
    /\ who[1] = CHOOSE a \in Team : TRUE
    /\ caller' = [mode |-> mode, at |-> "submit", k |-> 1]
    /\ owner' = who
    /\ IF mode \in {"fan_out", "chain"} THEN Bus!Register(Sup) ELSE UNCHANGED mailVars
    /\ UNCHANGED <<agent, record, thread, stop, batch, got, report, gone, crashes>>

(* AgentManager.submit raises for an agent that is unknown or not runnable,  *)
(* which leaves the records before it CREATED; agent.delegate looks first    *)
(* and reports a failure.                                                    *)
Submit ==
    LET k == caller.k
        runnable == agent[owner[k]] \in {"READY", "RUNNING"}
    IN /\ caller.at = "submit"
       /\ record' = IF runnable THEN [record EXCEPT ![k] = "CREATED"] ELSE record
       /\ \/ ~runnable /\ Raise
          \/ /\ runnable
             /\ Go(CASE caller.mode = "fan_out" -> "request"
                     [] caller.mode = "chain" /\ k > 1 -> "handoff"
                     [] caller.mode \in {"chain", "delegate"} -> "inline"
                     [] OTHER -> IF k = Subtasks THEN "fill" ELSE "submit",
                   IF caller.mode = "run_goal" /\ k < Subtasks THEN k + 1 ELSE k)
       /\ thread' = IF caller'.at = "inline" THEN [thread EXCEPT ![k].at = "read"] ELSE thread
       /\ batch' = IF caller'.at = "fill" THEN Records ELSE batch
       /\ UNCHANGED <<agent, owner, stop, got, report, gone, crashes, mailVars>>

(* fan_out: the request to the owner; a refused message raises. *)
SendRequest ==
    /\ caller.at = "request"
    /\ \/ /\ Bus!Send(Request(caller.k))
          /\ IF caller.k = Subtasks THEN Go("fill", Subtasks) ELSE Go("submit", caller.k + 1)
          /\ batch' = IF caller.k = Subtasks THEN Records ELSE batch
       \/ /\ ~Bus!Accepted(Request(caller.k))
          /\ Raise
          /\ UNCHANGED <<batch, mailVars>>
    /\ UNCHANGED <<agent, record, owner, thread, stop, got, report, gone, crashes>>

(* chain: MessageBus.handoff of the previous result to the next owner. *)
SendHandoff ==
    /\ caller.at = "handoff"
    /\ \/ /\ Bus!Send(Request(caller.k))
          /\ Go("inline", caller.k)
          /\ Move(caller.k, "read")
       \/ /\ ~Bus!Accepted(Request(caller.k))
          /\ Raise
          /\ UNCHANGED <<thread, mailVars>>
    /\ UNCHANGED <<agent, record, owner, stop, batch, got, report, gone, crashes>>

(* chain and agent.delegate run the task on the caller's own thread. *)
Inline ==
    LET k == caller.k
    IN /\ caller.at = "inline"
       /\ Ended(k)
       /\ thread' = [thread EXCEPT ![k] = Idle]
       /\ \/ thread[k].at = "raised" /\ Raise /\ UNCHANGED <<got, report>>
          \/ /\ thread[k].at = "done"
             /\ got' = [got EXCEPT ![k] = Answer(k)]
             /\ \E verified \in {"ok", "bad"} :
                   /\ verified = "ok" => Answer(k) = "ok"
                   /\ report' = [report EXCEPT ![owner[k]] = verified]
             /\ IF caller.mode = "delegate" \/ Answer(k) = "bad" \/ k = Subtasks
                THEN Go("returned", k) ELSE Go("submit", k + 1)
       /\ UNCHANGED <<agent, record, owner, stop, batch, gone, crashes, mailVars>>

Full == Cardinality(InFlight) >= MaxWorkers

(* run_all, inner loop: the token is read before each submission, and clears *)
(* what is pending; otherwise the next record gets a pool thread.            *)
Fill ==
    /\ caller.at = "fill"
    /\ batch # {} /\ ~Full
    /\ \/ stop /\ batch' = {} /\ UNCHANGED thread
       \/ /\ ~stop
          /\ \E r \in batch : /\ \A x \in batch : r <= x
                             /\ batch' = batch \ {r}
                             /\ Move(r, "read")
    /\ UNCHANGED <<agent, record, owner, caller, stop, got, report, gone, crashes, mailVars>>

MutantCollect ==    \* a thread that raised is popped without a result
    LET done == {r \in InFlight : Ended(r)}
    IN /\ caller.at = "fill"
       /\ batch = {} \/ Full
       /\ done # {}
       /\ got' = [r \in Records |-> IF r \in done /\ thread[r].at = "done" THEN Answer(r) ELSE got[r]]
       /\ thread' = [r \in Records |-> IF r \in done THEN Idle ELSE thread[r]]
       /\ UNCHANGED <<agent, record, owner, caller, stop, batch, report, gone, crashes, mailVars>>

(* wait(FIRST_COMPLETED) and the results of every future that is done. *)
Collect ==
    LET done == {r \in InFlight : Ended(r)}
    IN /\ caller.at = "fill"
       /\ batch = {} \/ Full
       /\ done # {}
       /\ got' = [r \in Records |-> IF r \in done THEN Answer(r) ELSE got[r]]
       /\ thread' = [r \in Records |-> IF r \in done THEN Idle ELSE thread[r]]
       /\ UNCHANGED <<agent, record, owner, caller, stop, batch, report, gone, crashes, mailVars>>

MutantRunAllReturns ==    \* waits for a result of every record
    /\ caller.at = "fill"
    /\ batch = {} /\ InFlight = {}
    /\ \A r \in Records : got[r] # "none"
    /\ IF caller.mode = "fan_out" THEN Go("report", 1) ELSE Go("returned", Subtasks)
    /\ UNCHANGED <<agent, record, owner, thread, stop, batch, got, report, gone, crashes, mailVars>>

(* run_all returns: fan_out goes on to report, run_goal looks every record   *)
(* up and raises KeyError for one that cancellation dropped.                 *)
RunAllReturns ==
    /\ caller.at = "fill"
    /\ batch = {} /\ InFlight = {}
    /\ \/ caller.mode = "fan_out" /\ Go("report", 1)
       \/ /\ caller.mode = "run_goal"
          /\ IF \A r \in Records : got[r] # "none" THEN Go("returned", Subtasks) ELSE Raise
       \/ caller.mode = "rerun" /\ Go("returned", Subtasks)
    /\ UNCHANGED <<agent, record, owner, thread, stop, batch, got, report, gone, crashes, mailVars>>

(* fan_out: the result message, then the verdict, keyed by the owner. *)
Report ==
    LET k == caller.k
    IN /\ caller.at = "report"
       /\ \/ /\ Bus!Send(Result(k))
             /\ \E verified \in {"ok", "bad"} :
                   /\ verified = "ok" => got[k] = "ok"
                   /\ report' = [report EXCEPT ![owner[k]] = verified]
             /\ IF k = Subtasks THEN Go("returned", Subtasks) ELSE Go("report", k + 1)
          \/ /\ ~Bus!Accepted(Result(k))
             /\ Raise
             /\ UNCHANGED <<report, mailVars>>
       /\ UNCHANGED <<agent, record, owner, thread, stop, batch, got, gone, crashes>>

(* The fan-out timer fires, or the caller of run_goal cancels. *)
CancelRun ==
    /\ caller.mode \in {"fan_out", "run_goal"}
    /\ caller.at = "fill"
    /\ ~stop
    /\ stop' = TRUE
    /\ UNCHANGED <<agent, record, owner, thread, caller, batch, got, report, gone, crashes, mailVars>>

-----------------------------------------------------------------------------
(* resume_interrupted *)
Resumed == [r \in Records |-> IF record[r] = "RUNNING" THEN "READY" ELSE record[r]]

(* The process dies and comes up again: threads, the token and the bus are   *)
(* gone, the two tables and the stored messages stay.  startup_recovery      *)
(* resets the RUNNING records, and the application runs those it was told    *)
(* were reset, or everything that is on record; agents keep their status.    *)
Restart ==
    /\ caller.at \notin {"idle", "returned", "raised"}
    /\ crashes < MaxCrashes
    /\ crashes' = crashes + 1
    /\ record' = Resumed
    /\ thread' = [r \in Records |-> Idle]
    /\ stop' = FALSE
    /\ got' = [r \in Records |-> "none"]
    /\ report' = [a \in Team |-> "none"]
    /\ batch' \in {{r \in Records : record[r] = "RUNNING"}, {r \in Records : record[r] # "none"}}
    /\ caller' = [mode |-> "rerun", at |-> "fill", k |-> 1]
    /\ peers' = {}
    /\ mail' = [p \in Members |-> <<>>]
    /\ paired' = {}
    /\ read' = [p \in Members |-> {}]
    /\ UNCHANGED <<agent, owner, gone, relays, kept, late>>

Caller ==
    \/ Submit \/ SendRequest \/ SendHandoff \/ Inline
    \/ Fill \/ Collect \/ RunAllReturns \/ Report

AgentsNext ==
    \/ \E a \in Team : RegisterAgent(a) \/ Spawn(a) \/ Deregister(a)
    \/ BusStep
    \/ \E mode \in Modes \ {"rerun"}, who \in [Records -> Team] : Begin(mode, who)
    \/ Caller
    \/ \E r \in Records : RunTask(r)
    \/ CancelRun
    \/ Restart

(* The threads of the process run; nobody has to register, spawn, deregister *)
(* or read an inbox, the timer need not fire and the process need not crash. *)
AgentsFairness ==
    /\ WF_teamVars(Caller)
    /\ \A r \in Records : WF_teamVars(RunTask(r))

AgentsSpec == AgentsInit /\ [][AgentsNext]_teamVars /\ AgentsFairness

-----------------------------------------------------------------------------
AgentsTypeOK ==
    /\ agent \in [Team -> {"absent", "CREATED", "READY", "RUNNING"}]
    /\ record \in [Records -> {"none", "CREATED", "READY", "RUNNING", "COMPLETED", "FAILED"}]
    /\ owner \in [Records -> Members]
    /\ thread \in [Records -> [at : Threads, ok : BOOLEAN]]
    /\ caller \in [mode : Modes \cup {"none"}, at : Calls, k : 0..Subtasks]
    /\ stop \in BOOLEAN
    /\ batch \subseteq Records
    /\ got \in [Records -> {"none", "ok", "bad"}]
    /\ report \in [Team -> {"none", "ok", "bad"}]
    /\ gone \subseteq Team
    /\ crashes \in 0..MaxCrashes

ResultsRecorded ==
    /\ \A r \in Records :
          /\ got[r] = "ok" => record[r] = "COMPLETED"
          /\ (got[r] = "bad" /\ owner[r] \notin gone) =>
                record[r] = "FAILED" \/ (caller.mode = "rerun" /\ record[r] = "COMPLETED")
          /\ (record[r] = "RUNNING" /\ thread[r].at \in {"idle", "done", "raised"})
                => owner[r] \in gone
    /\ caller.at = "returned" =>
          /\ \A r \in Records : thread[r] = Idle
          /\ (caller.mode \in {"run_goal", "fan_out"} /\ ~stop) =>
                \A r \in Records : got[r] # "none"

(* What a run hands back agrees with the durable records, and every thread   *)
(* leaves its record settled unless its agent was deregistered meanwhile: no *)
(* result is lost between the pool, the results of run_all and the tables.   *)
ReturnAccounts == AgentsTypeOK /\ ResultsRecorded

(* A record that is COMPLETED or FAILED is never executed again and never    *)
(* changes, in this process or after any restart.                            *)
SettledNotRerun ==
    [][\A r \in Records : record[r] \in {"COMPLETED", "FAILED"} =>
          record'[r] = record[r] /\ thread'[r].at # "executing"]_teamVars

(* Every run comes to an end: nobody waits for a thread that is gone, full   *)
(* inboxes and missing agents raise instead of blocking.                     *)
RunEnds == caller.at = "submit" ~> caller.at \in {"returned", "raised"}
=============================================================================
