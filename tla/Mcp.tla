-------------------------------- MODULE Mcp ---------------------------------
(***************************************************************************)
(* One MCP server under MCPManager: an operator enables, disables and      *)
(* edits it, each enabling mints a revision with a connection of its own,  *)
(* the connection's thread runs an asyncio loop that serves one request at *)
(* a time, and tool calls reach it through the registry.  What holds the   *)
(* manager's lock is one step; everything between two locks, every step of *)
(* the connection's thread and every step of a caller interleaves.  A      *)
(* change of the configuration is written to the database under the lock.  *)
(***************************************************************************)
EXTENDS Naturals, Sequences

CONSTANTS MaxRevision,  \* bound on the revisions ever minted
          Openers,      \* threads in enable or restore
          Calls,        \* tool calls
          QueueSize     \* maxsize of the session's queue

ASSUME McpAssumption == MaxRevision \in Nat

Revisions == 1..MaxRevision

VARIABLES
    config,    \* "absent", "off" or "on": the server's configuration
    revision,  \* the current revision, 0 when revoked
    held,      \* revision of the connection the manager holds, 0 when none
    status,    \* what the operator is shown
    offered,   \* revisions whose tools are in the registry
    closed,    \* the manager is shutting down
    minted,    \* how many revisions were minted
    opener,    \* where each enabling thread is
    session,   \* revision -> its MCPConnection
    call       \* where each tool call is

mcpVars == <<config, revision, held, status, offered, closed, minted, opener, session, call>>
managerVars == <<config, revision, held, status, offered, closed, minted>>

(* thread: none, started, looped (loop, task and queue exist), opening,      *)
(* serving or dead.  ready: what the event and error say to connect.         *)
NewSession == [thread |-> "none", stopping |-> FALSE, cancelled |-> FALSE,
               ready |-> "no", queue |-> <<>>, busy |-> "none"]
NoCall == [at |-> "idle", rev |-> 0, late |-> FALSE, dropped |-> FALSE]
AtRest == [at |-> "idle", rev |-> 0]

McpInit ==
    /\ config = "absent"
    /\ revision = 0
    /\ held = 0
    /\ status = "disabled"
    /\ offered = {}
    /\ closed = FALSE
    /\ minted = 0
    /\ opener = [o \in Openers |-> AtRest]
    /\ session = [r \in Revisions |-> NewSession]
    /\ call = [q \in Calls |-> NoCall]

-----------------------------------------------------------------------------
(* MCPConnection.close: stop, and cancel the task if the loop has one. *)
Closed(s) ==
    [s EXCEPT !.stopping = TRUE,
              !.cancelled = s.cancelled \/ s.thread \in {"looped", "opening", "serving"}]

(* _revoke, up to the revision: the tools go and the connection is closed. *)
Revoke ==
    /\ offered' = {}
    /\ session' = IF held = 0 THEN session ELSE [session EXCEPT ![held] = Closed(@)]

Save ==
    /\ ~closed
    /\ config = "absent"
    /\ config' = "off"
    /\ UNCHANGED <<revision, held, status, offered, closed, minted, opener, session, call>>

(* enable, first lock: whatever runs is revoked and a revision minted. *)
Enable(o) ==
    /\ opener[o] = AtRest
    /\ ~closed
    /\ config # "absent"
    /\ status # "connecting"
    /\ minted < MaxRevision
    /\ Revoke
    /\ minted' = minted + 1
    /\ revision' = minted'
    /\ held' = 0
    /\ config' = "on"
    /\ status' = "connecting"
    /\ opener' = [opener EXCEPT ![o] = [at |-> "hold", rev |-> minted']]
    /\ UNCHANGED <<closed, call>>

Move(o, at) == opener' = [opener EXCEPT ![o].at = at]

MutantHold(o) ==    \* trusts the first lock
    /\ opener[o].at = "hold"
    /\ held' = opener[o].rev
    /\ Move(o, "connect")
    /\ UNCHANGED <<config, revision, status, offered, closed, minted, session, call>>

(* Second lock: the connection is the manager's unless revoked meanwhile. *)
Hold(o) ==
    /\ opener[o].at = "hold"
    /\ IF closed \/ revision # opener[o].rev
       THEN UNCHANGED held /\ Move(o, "fail")
       ELSE held' = opener[o].rev /\ Move(o, "connect")
    /\ UNCHANGED <<config, revision, status, offered, closed, minted, session, call>>

(* connect: look at the stop flag, start the thread, wait for it. *)
Connect(o) ==
    /\ opener[o].at = "connect"
    /\ Move(o, IF session[opener[o].rev].stopping THEN "fail" ELSE "start")
    /\ UNCHANGED <<managerVars, session, call>>

Start(o) ==
    /\ opener[o].at = "start"
    /\ session' = [session EXCEPT ![opener[o].rev].thread = "started"]
    /\ Move(o, "wait")
    /\ UNCHANGED <<managerVars, call>>

(* The wait ends with tools, which may not pass validation, or with an error *)
(* or a timeout.                                                             *)
Wait(o) ==
    /\ opener[o].at = "wait"
    /\ \/ session[opener[o].rev].ready = "ok" /\ Move(o, "register")
       \/ Move(o, "fail")
    /\ UNCHANGED <<managerVars, session, call>>

(* Third lock: the tools are offered unless revoked meanwhile. *)
Register(o) ==
    /\ opener[o].at = "register"
    /\ IF closed \/ revision # opener[o].rev
       THEN Move(o, "fail") /\ UNCHANGED <<held, status, offered>>
       ELSE /\ offered' = offered \cup {opener[o].rev}
            /\ held' = opener[o].rev
            /\ status' = "connected"
            /\ opener' = [opener EXCEPT ![o] = AtRest]
    /\ UNCHANGED <<config, revision, closed, minted, session, call>>

(* Any failure closes the connection and then reports, if still current. *)
Fail(o) ==
    /\ opener[o].at = "fail"
    /\ session' = [session EXCEPT ![opener[o].rev] = Closed(@)]
    /\ Move(o, "report")
    /\ UNCHANGED <<managerVars, call>>

Report(o) ==
    /\ opener[o].at = "report"
    /\ status' = IF revision = opener[o].rev THEN "error" ELSE status
    /\ opener' = [opener EXCEPT ![o] = AtRest]
    /\ UNCHANGED <<config, revision, held, offered, closed, minted, session, call>>

Disable ==
    /\ config # "absent"
    /\ Revoke
    /\ revision' = 0
    /\ held' = 0
    /\ config' = "off"
    /\ status' = "disabled"
    /\ UNCHANGED <<closed, minted, opener, call>>

(* close: only a server whose connection is held is revoked. *)
CloseManager ==
    /\ ~closed
    /\ closed' = TRUE
    /\ IF held = 0 THEN UNCHANGED <<revision, held, offered, session>>
       ELSE Revoke /\ revision' = 0 /\ held' = 0
    /\ UNCHANGED <<config, status, minted, opener, call>>

-----------------------------------------------------------------------------
(* The connection's thread.  Whatever ends it sets the error and wakes       *)
(* connect, and ends the requests that its loop still held.                  *)
Dead(s) == [s EXCEPT !.thread = "dead", !.ready = "error", !.queue = <<>>, !.busy = "none"]

Ended(r) == [q \in Calls |-> IF call[q].rev = r /\ call[q].at \in {"putting", "waiting"}
                             THEN [call[q] EXCEPT !.at = "done"] ELSE call[q]]

ThreadLoop(r) ==
    /\ session[r].thread = "started"
    /\ session' = [session EXCEPT ![r].thread = "looped"]
    /\ UNCHANGED <<managerVars, opener, call>>

MutantThreadCheck(r) ==    \* does not look at the flag
    /\ session[r].thread = "looped"
    /\ session' = [session EXCEPT ![r].thread = "opening"]
    /\ UNCHANGED <<managerVars, opener, call>>

(* The flag is read only after the loop and the task are there to cancel. *)
ThreadCheck(r) ==
    /\ session[r].thread = "looped"
    /\ session' = [session EXCEPT ![r] = IF @.stopping THEN Dead(@)
                                         ELSE [@ EXCEPT !.thread = "opening"]]
    /\ UNCHANGED <<managerVars, opener, call>>

(* The session is opened and its tools listed, or something is missing. *)
ThreadOpen(r) ==
    /\ session[r].thread = "opening"
    /\ ~session[r].cancelled
    /\ \E s \in {Dead(session[r]), [session[r] EXCEPT !.thread = "serving", !.ready = "ok"]} :
          session' = [session EXCEPT ![r] = s]
    /\ UNCHANGED <<managerVars, opener, call>>

(* The task is cancelled, or a serving session breaks. *)
ThreadEnds(r) ==
    /\ session[r].thread \in {"opening", "serving"}
    /\ session[r].cancelled \/ session[r].thread = "serving"
    /\ session' = [session EXCEPT ![r] = Dead(@)]
    /\ call' = Ended(r)
    /\ UNCHANGED <<managerVars, opener>>

-----------------------------------------------------------------------------
SetCall(q, next) == call' = [call EXCEPT ![q] = next]

(* A runner looks the handler up ... *)
Lookup(q) ==
    /\ call[q].at = "idle"
    /\ \E r \in offered : SetCall(q, [NoCall EXCEPT !.at = "found", !.rev = r])
    /\ UNCHANGED <<managerVars, opener, session>>

(* ... which answers for itself under the lock and checks the arguments for  *)
(* what may not leave ...                                                    *)
Invoke(q) ==
    /\ call[q].at = "found"
    /\ \/ /\ ~closed /\ revision = call[q].rev /\ config = "on"
          /\ SetCall(q, [call[q] EXCEPT !.at = "checked"])
       \/ SetCall(q, [call[q] EXCEPT !.at = "done"])
    /\ UNCHANGED <<managerVars, opener, session>>

(* ... and asks the connection, without the lock. *)
Request(q) ==
    /\ call[q].at = "checked"
    /\ LET s == session[call[q].rev]
       IN SetCall(q, [call[q] EXCEPT !.at = IF s.thread = "serving" THEN "putting" ELSE "done"])
    /\ UNCHANGED <<managerVars, opener, session>>

(* On the loop: the request waits for room in the queue. *)
Put(q) ==
    /\ call[q].at = "putting"
    /\ ~call[q].dropped
    /\ LET r == call[q].rev
       IN /\ session[r].thread = "serving"
          /\ Len(session[r].queue) < QueueSize
          /\ session' = [session EXCEPT ![r].queue = Append(@, q)]
    /\ SetCall(q, [call[q] EXCEPT !.at = "waiting"])
    /\ UNCHANGED <<managerVars, opener>>

Answered(q) ==
    call' = [call EXCEPT ![q].at = IF @ = "waiting" /\ ~call[q].dropped THEN "done" ELSE @]

MutantStale(q, s) == call[q].dropped \/ s.stopping    \* forgets the deadline

(* _dispatch refuses what has expired, was dropped or comes too late. *)
Stale(q, s) == call[q].dropped \/ call[q].late \/ s.stopping

Dispatch(r) ==
    /\ session[r].thread = "serving"
    /\ session[r].busy = "none"
    /\ session[r].queue # <<>>
    /\ LET q == Head(session[r].queue)
           s == [session[r] EXCEPT !.queue = Tail(@)]
       IN IF Stale(q, s)
          THEN session' = [session EXCEPT ![r] = s] /\ Answered(q)
          ELSE session' = [session EXCEPT ![r] = [s EXCEPT !.busy = q]] /\ UNCHANGED call
    /\ UNCHANGED <<managerVars, opener>>

(* The server answers, fails, or the deadline cuts the wait short. *)
Reply(r) ==
    /\ session[r].thread = "serving"
    /\ session[r].busy # "none"
    /\ session' = [session EXCEPT ![r].busy = "none"]
    /\ Answered(session[r].busy)
    /\ UNCHANGED <<managerVars, opener>>

(* The deadline passes two seconds before the caller gives up ... *)
Expire(q) ==
    /\ call[q].at \in {"putting", "waiting"}
    /\ ~call[q].late
    /\ call' = [call EXCEPT ![q].late = TRUE]
    /\ UNCHANGED <<managerVars, opener, session>>

(* ... and the caller's cancellation reaches the loop some time after. *)
GiveUp(q) ==
    /\ call[q].at \in {"putting", "waiting"}
    /\ call[q].late
    /\ call' = [call EXCEPT ![q].at = "given up"]
    /\ UNCHANGED <<managerVars, opener, session>>

LoopDrops(q) ==
    /\ call[q].at = "given up"
    /\ ~call[q].dropped
    /\ call' = [call EXCEPT ![q].dropped = TRUE]
    /\ UNCHANGED <<managerVars, opener, session>>

McpNext ==
    \/ Save \/ Disable \/ CloseManager
    \/ \E o \in Openers : Enable(o) \/ Hold(o) \/ Connect(o) \/ Start(o) \/ Wait(o)
                             \/ Register(o) \/ Fail(o) \/ Report(o)
    \/ \E r \in Revisions : ThreadLoop(r) \/ ThreadCheck(r) \/ ThreadOpen(r) \/ ThreadEnds(r)
                               \/ Dispatch(r) \/ Reply(r)
    \/ \E q \in Calls : Lookup(q) \/ Invoke(q) \/ Request(q) \/ Put(q) \/ Expire(q)
                           \/ GiveUp(q) \/ LoopDrops(q)

(* Threads that can run do: enabling threads and the threads of connections. *)
McpFairness ==
    /\ \A o \in Openers : WF_mcpVars(Hold(o) \/ Connect(o) \/ Start(o) \/ Wait(o)
                                        \/ Register(o) \/ Fail(o) \/ Report(o))
    /\ \A r \in Revisions :
          WF_mcpVars(ThreadLoop(r) \/ ThreadCheck(r) \/ ThreadOpen(r)
                        \/ (session[r].cancelled /\ ThreadEnds(r)))

McpSpec == McpInit /\ [][McpNext]_mcpVars /\ McpFairness

-----------------------------------------------------------------------------
McpTypeOK ==
    /\ config \in {"absent", "off", "on"}
    /\ revision \in 0..MaxRevision
    /\ held \in 0..MaxRevision
    /\ status \in {"disabled", "connecting", "connected", "error"}
    /\ offered \subseteq Revisions
    /\ closed \in BOOLEAN
    /\ \A r \in Revisions : session[r].queue \in Seq(Calls)

(* A running session that has not been told to stop belongs to the current   *)
(* revision, and only that revision's tools can be called: disabling,        *)
(* re-enabling and closing leave no session or tool behind, wherever the     *)
(* thread that was enabling had got to (enable, _revoke, close).             *)
SessionOwned ==
    /\ \A r \in Revisions :
          session[r].thread \notin {"none", "dead"} /\ ~session[r].stopping =>
             revision = r /\ held = r
    /\ offered \subseteq {revision}
    /\ offered # {} => config = "on" /\ ~closed

(* Every live session and every offered tool belongs to the manager's        *)
(* current revision of the server.                                           *)
McpSafe == McpTypeOK /\ SessionOwned

(* No request starts on the server once its caller has been told that it     *)
(* failed, although the cancellation reaches the loop later (request,        *)
(* _dispatch).                                                               *)
GivenUpNotStarted ==
    [][\A r \in Revisions : session'[r].busy \notin {"none", session[r].busy} =>
          call[session'[r].busy].at = "waiting"]_mcpVars

(* A connection told to stop ends its thread, even when it was told before   *)
(* the thread had a loop to cancel (close, connect, _run).                   *)
StoppedEnds ==
    \A r \in Revisions : session[r].stopping ~> session[r].thread \in {"none", "dead"}
=============================================================================
