------------------------------ MODULE Planning ------------------------------
(***************************************************************************)
(* The planner: agent/planner/validator.py (PlanValidator and the Kahn     *)
(* ordering of DependencyResolver) and agent/planner/backend.py            *)
(* (ModelReasoningBackend.plan: draft, validate, repair, fall back).       *)
(*                                                                         *)
(* A goal is the kind plan() tells it apart by; a draft is a record        *)
(*   steps : sequence of [id, deps], deps a sequence that may repeat       *)
(*   flaw  : TRUE iff one of the per-step or per-plan text, tool, argument *)
(*           and risk checks refuses it                                    *)
(*   mcp   : TRUE iff it uses an mcp.* tool or web.search                  *)
(* One action per call of the model and per turn of the ordering loop.     *)
(***************************************************************************)
EXTENDS Naturals, Sequences, FiniteSets, SequencesExt

CONSTANTS
    Drafts,         \* the plans the model may answer with
    MaxSteps,       \* PlanValidator's max_steps
    MaxRepairs      \* max_repair_attempts

ASSUME PlanningAssumption ==
    /\ MaxSteps \in Nat \ {0}    \* max(1, max_steps)
    /\ MaxRepairs \in Nat
    /\ \A p \in Drafts : p \in [steps : Seq([id : STRING, deps : Seq(STRING)]),
                               flaw : BOOLEAN, mcp : BOOLEAN]

VARIABLES
    goal,           \* the kind of goal
    offered,        \* available_tools, as far as plan() looks at it
    research,       \* the context holds research results
    phase,          \* where plan() is
    tries,          \* drafts asked for
    draft,          \* the plan being validated
    kahn,           \* DependencyResolver.order's locals
    planned         \* what plan() returned or raised

planVars == <<goal, offered, research, phase, tries, draft, kahn, planned>>

Goals == {"date", "chat", "look_up", "search", "action"}

Tools == {"system.date", "agent.respond", "web.search"}

\* _looks_action_oriented and the explicit-search pattern ("look up" is one
\* without being action-oriented).
Action(g) == g \in {"search", "action"}
Explicit(g) == g \in {"search", "look_up"}

\* The fixed one-step plans of plan() and _direct_response_plan.
OneStep(id) == [steps |-> <<[id |-> id, deps |-> << >>]>>, flaw |-> FALSE,
                mcp |-> id = "search"]

NoDraft == [steps |-> << >>, flaw |-> FALSE, mcp |-> FALSE]
NoKahn == [incoming |-> << >>, ready |-> << >>, ordered |-> << >>]

Ids(p) == {p.steps[i].id : i \in 1..Len(p.steps)}
StepOf(p, id) == CHOOSE s \in ToSet(p.steps) : s.id = id

-----------------------------------------------------------------------------
(* PlanValidator.validate up to the ordering. *)

Structural(p) ==
    /\ p.steps # << >>
    /\ Len(p.steps) <= MaxSteps
    /\ Cardinality(Ids(p)) = Len(p.steps)
    /\ ~p.flaw

\* The first loop of order(): no step depends on itself or on an unknown one.
DepsKnown(p) ==
    \A i \in 1..Len(p.steps) :
        /\ p.steps[i].id \notin ToSet(p.steps[i].deps)
        /\ ToSet(p.steps[i].deps) \subseteq Ids(p)

\* incoming[s] counts every mention, a repeated dependency twice.
Counted(p) == [id \in Ids(p) |-> Len(StepOf(p, id).deps)]

ReadyAtFirst(p) == {id \in Ids(p) : Counted(p)[id] = 0}

\* Both loops over the steps go through them in plan order: the one sequence
\* of the ids in S that does.
Place(p, id) == CHOOSE i \in 1..Len(p.steps) : p.steps[i].id = id
InPlanOrder(p, S) ==
    {s \in [1..Cardinality(S) -> S] :
        \A i, j \in 1..Cardinality(S) : i < j => Place(p, s[i]) < Place(p, s[j])}

\* Plausible slip: children kept as a set while incoming counts mentions.
MutantMentions(p, id, dep) == IF dep \in ToSet(StepOf(p, id).deps) THEN 1 ELSE 0

\* How often the step names a dependency: children[dep] holds it that often.
Mentions(p, id, dep) ==
    Cardinality({i \in 1..Len(StepOf(p, id).deps) : StepOf(p, id).deps[i] = dep})

-----------------------------------------------------------------------------
(* plan(): one model call, its validation, and what follows. *)

Return(kind, p) == planned' = [kind |-> kind, plan |-> p] /\ phase' = "done"
Raise == planned' = [kind |-> "error", plan |-> NoDraft] /\ phase' = "done"

\* A date question is answered by a fixed plan, without the model.
DatePlan ==
    /\ phase = "start"
    /\ goal = "date"
    /\ "system.date" \in offered
    /\ Return("fixed", OneStep("date"))
    /\ UNCHANGED <<goal, offered, research, tries, draft, kahn>>

AskDraft ==
    /\ phase = "start"
    /\ ~(goal = "date" /\ "system.date" \in offered)
    /\ phase' = "draft"
    /\ UNCHANGED <<goal, offered, research, tries, draft, kahn, planned>>

\* A draft or a repair failed: try again while repairs are left.
Failed(asked) ==
    phase' = IF asked <= MaxRepairs THEN "draft" ELSE "fallback"

\* draft() or _repair() comes back with a plan.
Drafted(p) ==
    /\ phase = "draft"
    /\ tries' = tries + 1
    /\ IF Structural(p) /\ DepsKnown(p)
       THEN /\ phase' = "order"
            /\ draft' = p
            /\ \E first \in InPlanOrder(p, ReadyAtFirst(p)) :
                  kahn' = [incoming |-> Counted(p), ready |-> first, ordered |-> << >>]
       ELSE /\ Failed(tries + 1)
            /\ UNCHANGED <<draft, kahn>>
    /\ UNCHANGED <<goal, offered, research, planned>>

\* draft() or _repair() raises a ModelError, AiEcosystemError or ValueError.
DraftFails ==
    /\ phase = "draft"
    /\ tries' = tries + 1
    /\ Failed(tries + 1)
    /\ UNCHANGED <<goal, offered, research, draft, kahn, planned>>

\* Any other exception of the model stack leaves plan() at once.
DraftEscapes ==
    /\ phase \in {"draft", "direct", "last_direct"}
    /\ Raise
    /\ UNCHANGED <<goal, offered, research, tries, draft, kahn>>

\* One turn of `while ready`: take the first, release its children.
OrderStep ==
    /\ phase = "order"
    /\ kahn.ready # << >>
    /\ LET current == Head(kahn.ready)
           open    == [id \in Ids(draft) |->
                          kahn.incoming[id] - Mentions(draft, id, current)]
           freed   == {id \in Ids(draft) : kahn.incoming[id] > 0 /\ open[id] = 0}
       IN  \E released \in InPlanOrder(draft, freed) :
              kahn' = [incoming |-> open,
                       ready    |-> Tail(kahn.ready) \o released,
                       ordered  |-> Append(kahn.ordered, current)]
    /\ UNCHANGED <<goal, offered, research, phase, tries, draft, planned>>

\* A non-action goal answered without an external tool becomes a direct
\* response; any other validated plan is returned.
Answered ==
    ~Action(goal) /\ "agent.respond" \in offered /\ ~draft.mcp

OrderEnds ==
    /\ phase = "order"
    /\ kahn.ready = << >>
    /\ kahn' = NoKahn /\ draft' = NoDraft
    /\ \/ /\ Len(kahn.ordered) # Len(draft.steps)
          /\ Failed(tries)
          /\ UNCHANGED planned
       \/ /\ Len(kahn.ordered) = Len(draft.steps)
          /\ Answered
          /\ phase' = "direct"
          /\ UNCHANGED planned
       \/ /\ Len(kahn.ordered) = Len(draft.steps)
          /\ ~Answered
          /\ Return("drafted", draft)
    /\ UNCHANGED <<goal, offered, research, tries>>

\* _direct_response_plan: the model's text, or an error that sends the loop on
\* but leaves plan() when no repair is left.
Direct(ok) ==
    /\ phase \in {"direct", "last_direct"}
    /\ \/ ok /\ Return("fixed", OneStep("respond"))
       \/ ~ok /\ phase = "direct" /\ Failed(tries) /\ UNCHANGED planned
       \/ ~ok /\ phase = "last_direct" /\ Raise
    /\ UNCHANGED <<goal, offered, research, tries, draft, kahn>>

\* Plausible slip: any goal may fall back to a direct answer.
MutantMayAnswer == "agent.respond" \in offered

\* The model gave no usable plan: what a direct answer is still allowed for.
MayAnswer ==
    /\ "agent.respond" \in offered
    /\ ~Action(goal) \/ (Explicit(goal) /\ "web.search" \in offered /\ research)

FallBack ==
    /\ phase = "fallback"
    /\ \/ /\ MayAnswer
          /\ phase' = "last_direct"
          /\ UNCHANGED planned
       \/ /\ ~MayAnswer
          /\ Explicit(goal) /\ "web.search" \in offered
          /\ Return("fixed", OneStep("search"))
       \/ /\ ~MayAnswer
          /\ ~(Explicit(goal) /\ "web.search" \in offered)
          /\ Raise
    /\ UNCHANGED <<goal, offered, research, tries, draft, kahn>>

-----------------------------------------------------------------------------
\* A new goal.
Plan(g, ts, r) ==
    /\ phase = "idle"
    /\ goal' = g /\ offered' = ts /\ research' = r
    /\ phase' = "start"
    /\ UNCHANGED <<tries, draft, kahn, planned>>

PlanningInit ==
    /\ goal = "action" /\ offered = {} /\ research = FALSE
    /\ phase = "idle"
    /\ tries = 0
    /\ draft = NoDraft
    /\ kahn = NoKahn
    /\ planned = [kind |-> "none", plan |-> NoDraft]

PlanningNext ==
    \/ \E g \in Goals, ts \in SUBSET Tools, r \in BOOLEAN : Plan(g, ts, r)
    \/ DatePlan \/ AskDraft
    \/ \E p \in Drafts : Drafted(p)
    \/ DraftFails \/ DraftEscapes
    \/ OrderStep \/ OrderEnds
    \/ \E ok \in BOOLEAN : Direct(ok)
    \/ FallBack

PlanningSpec == PlanningInit /\ [][PlanningNext]_planVars

-----------------------------------------------------------------------------
\* Reference definition: the steps can be put in an order in which each comes
\* after everything it depends on.
Orderable(p) ==
    /\ DepsKnown(p)
    /\ \E rank \in [Ids(p) -> 1..Len(p.steps)] :
          \A i \in 1..Len(p.steps) : \A d \in ToSet(p.steps[i].deps) :
              rank[d] < rank[p.steps[i].id]

\* The ordering is exact: when its loop ends it has placed every step, each
\* once and after its dependencies, if and only if the plan can be ordered at
\* all, repeated dependencies included (validator.py DependencyResolver.order).
OrderExact ==
    phase = "order" /\ kahn.ready = << >> =>
        /\ (Len(kahn.ordered) = Len(draft.steps)) <=> Orderable(draft)
        /\ \A i \in 1..Len(kahn.ordered) : \A d \in ToSet(StepOf(draft, kahn.ordered[i]).deps) :
              \E j \in 1..(i - 1) : kahn.ordered[j] = d

\* Whatever the model answers over all drafts and repairs, what plan() returns
\* can run, and it is a plan the goal allows: an action request ends in a plan
\* the model drafted and the validator accepted, or in an error ("general
\* action requests still fail closed"), never in a made-up answer; only an
\* explicit search gets the fixed search plan (backend.py plan).
FailsClosed ==
    /\ planned.kind \in {"drafted", "fixed"} =>
          Structural(planned.plan) /\ Orderable(planned.plan)
    /\ planned.kind = "fixed" =>
          /\ planned.plan = OneStep("respond") =>
                ~Action(goal) \/ (Explicit(goal) /\ research)
          /\ planned.plan = OneStep("search") => Explicit(goal)

\* The validator decides exactly, and plan() returns only what may run.
PlanningSafe == OrderExact /\ FailsClosed
=============================================================================
