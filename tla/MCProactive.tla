----------------------------- MODULE MCProactive -----------------------------
(***************************************************************************)
(* What works for the user in the background, for TLC: the global          *)
(* scheduler, the memory store and the learning cycle.  They share no      *)
(* state: `focus` says which of them moves in a behaviour.                 *)
(***************************************************************************)
EXTENDS Scheduler, Memory, Learning

VARIABLE focus

-----------------------------------------------------------------------------
MCInit ==
    /\ focus \in {"scheduler", "memory", "learning"}
    /\ Init
    /\ focus # "scheduler" => \A j \in Jobs : deps[j] = {} /\ key[j] = NoKey
    /\ MemoryInit
    /\ LearningInit

MCNext ==
    \/ focus = "scheduler" /\ Next /\ UNCHANGED <<focus, memoryVars, learningVars>>
    \/ focus = "memory" /\ MemoryNext /\ UNCHANGED <<focus, vars, learningVars>>
    \/ focus = "learning" /\ LearningNext /\ UNCHANGED <<focus, vars, memoryVars>>

MCSpec ==
    /\ MCInit
    /\ [][MCNext]_<<focus, vars, memoryVars, learningVars>>
    /\ WF_vars(focus = "scheduler" /\ Ticker)
    /\ SF_vars(focus = "scheduler" /\ Tick /\ batch' = ReadyIn(row))

-----------------------------------------------------------------------------
(* Every job that can run ends, whatever is cancelled or crashes (Scheduler).*)
JobsSettle == focus = "scheduler" => Settles
=============================================================================
