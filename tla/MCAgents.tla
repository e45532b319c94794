------------------------------ MODULE MCAgents ------------------------------
(***************************************************************************)
(* What a goal is handed to, for TLC: the recovery loop, the multi-agent   *)
(* manager with its message bus, and the bus on its own with relaying.     *)
(* They share no state: `focus` says which of them moves in a behaviour.   *)
(***************************************************************************)
EXTENDS Recovery, MessageBus, Agents

CONSTANTS p1, p2, p3

(* Overrides a deployment could choose: what looks transient is always       *)
(* retried, a failed verification always replanned, skipped steps accepted.  *)
EagerOverrides ==
    {<<"TRANSIENT", "RETRY">>, <<"VERIFICATION_FAILURE", "REPLAN">>,
     <<"DEPENDENCY_FAILURE", "SKIP">>}

VARIABLE focus

-----------------------------------------------------------------------------
MCInit ==
    /\ focus \in {"recovery", "team", "bus"}
    /\ Init
    /\ focus # "recovery" => result = NoResult /\ current = p1
    /\ AgentsInit
    /\ BusInit

MCNext ==
    \/ /\ focus = "recovery" /\ Next
       /\ UNCHANGED <<focus, teamVars, busVars>>
    \/ /\ focus = "team" /\ AgentsNext
       /\ UNCHANGED <<focus, vars, busVars>>
    \/ /\ focus = "bus" /\ BusNext
       /\ UNCHANGED <<focus, vars, teamVars>>

MCSpec ==
    /\ MCInit
    /\ [][MCNext]_<<focus, vars, teamVars, busVars>>
    /\ WF_vars(focus = "recovery" /\ Next)
    /\ WF_teamVars(focus = "team" /\ Caller)
    /\ \A r \in Records : WF_teamVars(focus = "team" /\ RunTask(r))

-----------------------------------------------------------------------------
(* The recovery loop comes to an end (Recovery).                             *)
RecoveryReturns == focus = "recovery" => Returns

(* Every run of the team comes to an end (Agents).                           *)
TeamEnds == focus = "team" => RunEnds
=============================================================================
