----------------------------- MODULE MCExecutor -----------------------------
(***************************************************************************)
(* The planner and the executor for TLC.  They share no state, so one of   *)
(* them moves in a behaviour and `focus` says which.                       *)
(***************************************************************************)
EXTENDS Executor, Planning

VARIABLE focus

-----------------------------------------------------------------------------
(* Drafts of three steps with every mixture of these dependency lists, among *)
(* them cycles, repetitions and forward references, and one draft for each   *)
(* other reason to refuse.                                                   *)
StepOn(id, on) == [id |-> id, deps |-> on]

DraftOf(ss, flaw, mcp) == [steps |-> ss, flaw |-> flaw, mcp |-> mcp]

DepLists == {<< >>, <<"a">>, <<"b">>, <<"c">>, <<"a", "b">>, <<"b", "c">>, <<"a", "a">>}

MCDrafts ==
    {DraftOf(<<StepOn("a", x), StepOn("b", y), StepOn("c", z)>>, FALSE, FALSE) :
        x, y, z \in DepLists}
    \cup {DraftOf(<<StepOn("a", << >>)>>, flaw, mcp) : flaw, mcp \in BOOLEAN}
    \cup {DraftOf(<< >>, FALSE, FALSE),
          DraftOf(<<StepOn("a", <<"z">>)>>, FALSE, FALSE),
          DraftOf(<<StepOn("a", << >>), StepOn("a", << >>)>>, FALSE, FALSE),
          DraftOf([i \in 1..4 |-> StepOn(<<"a", "b", "c", "d">>[i], << >>)], FALSE, FALSE)}

-----------------------------------------------------------------------------
(* Crashes are explored on plans listed in dependency order; the others run  *)
(* without a crash, under FAIL_FAST also with a step that has no tools.      *)
Crashing == \A s \in Steps : \A d \in deps[s] : d < s

MCInit ==
    /\ focus \in {"executor", "planner"}
    /\ Init
    /\ \A s \in Steps : tools[s] = MaxTools \/ (failFast /\ s = 1 /\ ~Crashing)
    /\ focus = "planner" =>
          ~failFast /\ \A s \in Steps : deps[s] = {}
    /\ PlanningInit

MCNext ==
    \/ /\ focus = "executor"
       /\ Next
       /\ ~Crashing => restarts' = 0
       /\ UNCHANGED <<focus, planVars>>
    \/ /\ focus = "planner"
       /\ PlanningNext
       /\ UNCHANGED <<focus, vars>>

MCSpec ==
    /\ MCInit
    /\ [][MCNext]_<<focus, vars, planVars>>
    /\ WF_vars(focus = "executor" /\ Coordinator)
    /\ WF_vars(focus = "executor" /\ Restore)
    /\ \A s \in Steps : WF_vars(focus = "executor" /\ Worker(s))

-----------------------------------------------------------------------------
(* execute_graph always comes to an end (Executor).                          *)
RunReturns == focus = "executor" => AlwaysReturns
=============================================================================
