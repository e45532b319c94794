------------------------------ MODULE PlanRun ------------------------------
(***************************************************************************)
(* What running a plan promises, whatever schedules it: the abstract       *)
(* specification that Executor implements.  A step begins only when all    *)
(* the steps it depends on have succeeded, at most Width run at a time,    *)
(* what has settled stays settled, and a crash falls back to what was last *)
(* kept, in which nothing is running.                                      *)
(***************************************************************************)
EXTENDS Naturals, FiniteSets

CONSTANTS Steps,
          Width      \* how many steps may run at once

VARIABLES deps,      \* step -> the steps it depends on
          status,    \* step -> what has become of it
          kept       \* the statuses a crash falls back to

runVars == <<deps, status, kept>>

Status == {"todo", "running", "succeeded", "failed", "dropped"}

(* What a crash makes of statuses: a running step is to be done again. *)
Fallen(st) == [s \in Steps |-> IF st[s] = "running" THEN "todo" ELSE st[s]]

RunInit ==
    /\ deps \in [Steps -> SUBSET Steps]
    /\ status = [s \in Steps |-> "todo"]
    /\ kept = [s \in Steps |-> "todo"]

(* Some steps begin. *)
Begin ==
    /\ status' \in [Steps -> Status]
    /\ \A s \in Steps : status'[s] # status[s] =>
          /\ status[s] = "todo" /\ status'[s] = "running"
          /\ \A d \in deps[s] : status[d] = "succeeded"
    /\ Cardinality({s \in Steps : status'[s] = "running"}) <= Width
    /\ UNCHANGED <<deps, kept>>

(* Running steps end, waiting ones are given up, and the outcome may be kept. *)
Settle ==
    /\ status' \in [Steps -> Status]
    /\ \A s \in Steps : status'[s] # status[s] =>
          \/ status[s] = "running" /\ status'[s] \in {"succeeded", "failed"}
          \/ status[s] = "todo" /\ status'[s] = "dropped"
    /\ kept' = kept \/ kept' = Fallen(status')
    /\ UNCHANGED deps

FallBack ==
    /\ status' = kept
    /\ UNCHANGED <<deps, kept>>

RunNext == Begin \/ Settle \/ FallBack

RunSpec == RunInit /\ [][RunNext]_runVars
=============================================================================
