------------------------------ MODULE MCTasks ------------------------------
(***************************************************************************)
(* A task's life, the events it publishes, the model router it asks and    *)
(* the skills it is planned with, for TLC.  They share no state: `focus`   *)
(* says which of them moves in a behaviour.                                *)
(*                                                                         *)
(* Two threads publish, one of them inside transactions too; the kinds are *)
(* those that decide what is shown as completed.  Callers only read the    *)
(* router, so one of them meets every interleaving with the switch.        *)
(***************************************************************************)
EXTENDS TaskLifecycle, Events, Models, Skills

VARIABLE focus

(* The constants of Models that the configuration cannot write. *)
Request(class, localOnly, context) ==
    [class |-> class, localOnly |-> localOnly, context |-> context]

MCRequests == {Request("INTERNAL", FALSE, FALSE), Request("SECRET", FALSE, FALSE),
               Request("PERSONAL", TRUE, TRUE)}
MCHttp == <<"h1", "h2">>

-----------------------------------------------------------------------------
MCInit ==
    /\ focus \in {"task", "events", "router", "skills"}
    /\ Init
    /\ EventsInit
    /\ ModelsInit
    /\ SkillsInit
    /\ focus # "router" => providers = Entries(<<Stub>>)

MCNext ==
    \/ focus = "task" /\ Next /\ UNCHANGED <<focus, eventVars, modelVars, skillVars>>
    \/ focus = "events" /\ EventsNext /\ UNCHANGED <<focus, vars, modelVars, skillVars>>
    \/ focus = "router" /\ ModelsNext /\ UNCHANGED <<focus, vars, eventVars, skillVars>>
    \/ focus = "skills" /\ SkillsNext /\ UNCHANGED <<focus, vars, eventVars, modelVars>>

MCSpec ==
    /\ MCInit
    /\ [][MCNext]_<<focus, vars, eventVars, modelVars, skillVars>>
    /\ WF_vars(focus = "task" /\ Dispatch)
    /\ WF_vars(focus = "task" /\ Worker)
    /\ WF_vars(focus = "task" /\ Restart)
    /\ WF_vars(focus = "task" /\ (CancelEnter \/ CancelWrite \/ CancelSave \/ CancelNotify))

-----------------------------------------------------------------------------
(* A started task comes to rest (TaskLifecycle).                             *)
TaskSettles == focus = "task" => Settles
=============================================================================
