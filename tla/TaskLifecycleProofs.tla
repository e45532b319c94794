------------------------ MODULE TaskLifecycleProofs ------------------------
(***************************************************************************)
(* Proofs about TaskLifecycle for any number of cancel requests, tool      *)
(* calls and restarts.                                                     *)
(*                                                                         *)
(* The inductive invariant has four parts: what holds whatever happens     *)
(* (the way ahead is well formed), what makes a COMPLETED row proven, what *)
(* makes an acknowledged cancel request visible to the worker, and what    *)
(* holds as long as nobody cancels (then the worker is the only writer, so *)
(* the rows, the phase and the way ahead determine each other).            *)
(***************************************************************************)
EXTENDS TaskLifecycle, SequenceTheorems, TLAPS

Moving == Running /\ step \in {"enter", "write", "save"}

(* A worker in the middle of a transition knows where it goes, and only      *)
(* _complete goes to COMPLETED.                                              *)
WayAhead ==
    /\ Moving => /\ path # <<>>
                 /\ \A i \in 1..Len(path) : path[i] = "COMPLETED" =>
                       phase = "complete" /\ aim = "COMPLETED"
    /\ phase = "abort" => aim # "COMPLETED"
    /\ phase = "down" => cur = com /\ capc = "idle" /\ restarts # 0

(* A COMPLETED row, and the intention to write one, have their proof; rows   *)
(* are COMPLETED at the end of the loop only.                                *)
ProvenInv ==
    /\ (cur.task = "COMPLETED" \/ com.task = "COMPLETED")
          => proven /\ phase \in {"complete", "abort", "ended", "down"}
    /\ (phase \in {"settle", "complete"} /\ aim = "COMPLETED") => proven

(* Before the first restart the token is there for everyone to see. *)
TokenInv ==
    restarts = 0 => ~resumed /\ (acked => token \/ phase \in {"ended", "dropped"})

-----------------------------------------------------------------------------
(* The states in which a task can have a plan, and those in which it must. *)
Planned == {"PLANNING", "WAITING_PERMISSION", "EXECUTING", "VERIFYING", "RECOVERING"}
Carried == Planned \ {"PLANNING"}

(* A row from which a restart can go on. *)
RowOK(r) ==
    /\ r.ctx.plan => r.task \in Planned \cup Terminal
    /\ r.task \in Carried => r.ctx.plan
    /\ r.ctx.result = "COMPLETED" => r.task = "COMPLETED"

(* The state of the task when a phase begins, ... *)
BeginsIn(st) ==
    /\ phase = "understand" => st = "CREATED"
    /\ phase = "aware" => st = "UNDERSTANDING"
    /\ phase = "research" => st = "AWARENESS"
    /\ phase = "plan" => st \in {"AWARENESS", "RESEARCHING"}
    /\ phase = "execute" => st \in Planned
    /\ phase = "verify" => st = "EXECUTING"
    /\ phase = "recover" => st = "VERIFYING"
    /\ phase = "settle" => st = "RECOVERING"
    /\ phase = "complete" => st = "VERIFYING"

(* ... and when its transitions are made. *)
LeadsTo(st) ==
    /\ phase = "understand" => st = "UNDERSTANDING"
    /\ phase = "aware" => st = "AWARENESS"
    /\ phase = "research" => st = "RESEARCHING"
    /\ phase = "plan" => st = "PLANNING"
    /\ phase = "execute" => st = "EXECUTING"
    /\ phase = "verify" => st = "VERIFYING"
    /\ phase = "recover" => st = "RECOVERING"
    /\ phase = "settle" => st = "VERIFYING"
    /\ phase = "complete" => st = aim
    /\ phase = "abort" => st \in Terminal

(* The transitions that are left: legal one after the other, towards the end *)
(* of the phase, and into states that agree with the plan.                   *)
LegalPath(p) ==
    /\ \A i \in 1..(Len(p) - 1) : IsValidTransition(p[i], p[i + 1])
    /\ LeadsTo(p[Len(p)])
    /\ \A i \in 1..Len(p) : /\ p[i] \in Carried => cur.ctx.plan
                            /\ cur.ctx.plan => p[i] \in Planned \cup Terminal

Legal ==
    /\ step \in {"enter", "write"} => IsValidTransition(cur.task, path[1])
    /\ step = "save" => cur.task = path[1]
    /\ LegalPath(path)

(* While nobody cancels the worker is alone in the database, ... *)
Alone ==
    /\ capc = "idle"
    /\ IF Running /\ step \in {"write", "save"}
       THEN owner = "worker" /\ inside = {"worker"}
       ELSE owner = "none" /\ inside = {} /\ cur = com
    /\ (Running /\ step = "save") =>
          /\ loaded["worker"].plan = cur.ctx.plan
          /\ loaded["worker"].result = cur.ctx.result

(* ... has the plan from _plan on, ... *)
PlanKept ==
    /\ phase = "new" => cur.task = "CREATED" /\ ~resumed
    /\ phase = "queued" => IF resumed THEN cur.ctx.plan /\ cur.task \in Planned
                           ELSE cur.task = "CREATED"
    /\ phase \in {"understand", "aware", "research", "plan"}
          => ~mem.plan /\ ~cur.ctx.plan
    /\ phase \in {"execute", "verify", "recover", "settle", "complete"}
          => mem.plan /\ cur.ctx.plan
    /\ Running => mem.result # "COMPLETED" /\ cur.ctx.result # "COMPLETED"
    /\ (phase = "ended" /\ restarts = 0) => com.ctx.result # "none"

(* ... and the task is where the loop says. *)
OnTheWay ==
    /\ (Running /\ step \in {"check", "walk"}) => BeginsIn(cur.task)
    /\ Moving => Legal
    /\ (Running /\ step = "work") => LeadsTo(cur.task)

QuietInv == Alone /\ RowOK(cur) /\ RowOK(com) /\ PlanKept /\ OnTheWay

(* The inductive invariant. *)
Inv ==
    /\ TypeOK
    /\ WayAhead
    /\ ~HasPlanner => ProvenInv
    /\ TokenInv
    /\ cancels = 0 => QuietInv

-----------------------------------------------------------------------------
LEMMA TaskStates ==
    TaskState = {"CREATED", "UNDERSTANDING", "AWARENESS", "PLANNING",
                 "WAITING_PERMISSION", "EXECUTING", "VERIFYING", "RESEARCHING",
                 "RECOVERING", "COMPLETED", "FAILED", "CANCELLED"}
<1> DEFINE F == {"CREATED", "UNDERSTANDING", "AWARENESS", "PLANNING",
                 "WAITING_PERMISSION", "EXECUTING", "VERIFYING"}
<1>1. {Forward[i] : i \in 1..7} = F
  <2>1. /\ Forward[1] = "CREATED" /\ Forward[2] = "UNDERSTANDING"
        /\ Forward[3] = "AWARENESS" /\ Forward[4] = "PLANNING"
        /\ Forward[5] = "WAITING_PERMISSION" /\ Forward[6] = "EXECUTING"
        /\ Forward[7] = "VERIFYING"
    BY DEF Forward
  <2>2. \A i \in 1..7 : i = 1 \/ i = 2 \/ i = 3 \/ i = 4 \/ i = 5 \/ i = 6 \/ i = 7
    OBVIOUS
  <2>3. \A x \in F : \E i \in 1..7 : Forward[i] = x
    BY <2>1
  <2>4. \A i \in 1..7 : Forward[i] \in F
    BY <2>1, <2>2
  <2> QED BY <2>3, <2>4
<1> QED BY <1>1 DEF TaskState, Terminal

(* The fields of a row and of a context after an assignment to one of them. *)
LEMMA SetTask ==
    ASSUME NEW r \in Rows, NEW to \in TaskState
    PROVE  /\ [r EXCEPT !.task = to] \in Rows
           /\ [r EXCEPT !.task = to].task = to
           /\ [r EXCEPT !.task = to].ctx = r.ctx
BY DEF Rows

LEMMA SetCtx ==
    ASSUME NEW r \in Rows, NEW c \in Contexts
    PROVE  /\ [r EXCEPT !.ctx = c] \in Rows
           /\ [r EXCEPT !.ctx = c].task = r.task
           /\ [r EXCEPT !.ctx = c].ctx = c
BY DEF Rows

LEMMA RowFields ==
    ASSUME NEW r \in Rows
    PROVE  /\ r.task \in TaskState /\ r.ctx \in Contexts
           /\ r.ctx.plan \in BOOLEAN /\ r.ctx.result \in Results
BY DEF Rows, Contexts

LEMMA SetCurrent ==
    ASSUME NEW c \in Contexts, NEW to \in TaskState
    PROVE  /\ [c EXCEPT !.current = to] \in Contexts
           /\ [c EXCEPT !.current = to].plan = c.plan
           /\ [c EXCEPT !.current = to].result = c.result
BY DEF Contexts

LEMMA SetResult ==
    ASSUME NEW c \in Contexts, NEW res \in Results
    PROVE  /\ [c EXCEPT !.result = res] \in Contexts
           /\ [c EXCEPT !.result = res].plan = c.plan
           /\ [c EXCEPT !.result = res].result = res
BY DEF Contexts

LEMMA SetPlan ==
    ASSUME NEW c \in Contexts
    PROVE  /\ [c EXCEPT !.plan = TRUE] \in Contexts
           /\ [c EXCEPT !.plan = TRUE].plan = TRUE
           /\ [c EXCEPT !.plan = TRUE].result = c.result
BY DEF Contexts

LEMMA FailedRow ==
    ASSUME NEW c \in Contexts
    PROVE  [task |-> "FAILED", ctx |-> c] \in Rows
BY TaskStates DEF Rows

LEMMA NewContextType == NewContext \in Contexts
BY TaskStates DEF NewContext, Contexts, Results

(* Where the forward walk finds its states. *)
LEMMA Positions ==
    /\ Position("PLANNING") = 4 /\ Position("WAITING_PERMISSION") = 5
    /\ Position("EXECUTING") = 6 /\ Position("VERIFYING") = 7
    /\ Position("RECOVERING") = 0
    /\ \A st : Position(st) \in 0..7
    /\ Len(Forward) = 7 /\ Forward \in Seq(TaskState \ Terminal)
    /\ Forward[5] = "WAITING_PERMISSION" /\ Forward[6] = "EXECUTING"
    /\ Forward[7] = "VERIFYING"
<1>1. /\ Forward[1] = "CREATED" /\ Forward[2] = "UNDERSTANDING"
      /\ Forward[3] = "AWARENESS" /\ Forward[4] = "PLANNING"
      /\ Forward[5] = "WAITING_PERMISSION" /\ Forward[6] = "EXECUTING"
      /\ Forward[7] = "VERIFYING"
  BY DEF Forward
<1>2. \A i \in 1..7 : i = 1 \/ i = 2 \/ i = 3 \/ i = 4 \/ i = 5 \/ i = 6 \/ i = 7
  OBVIOUS
<1>3. ASSUME NEW st, NEW k \in 1..7, Forward[k] = st,
             \A i \in 1..7 : Forward[i] = st => i = k
      PROVE  Position(st) = k
  BY <1>3 DEF Position
<1>4. /\ \A i \in 1..7 : Forward[i] = "PLANNING" => i = 4
      /\ \A i \in 1..7 : Forward[i] = "WAITING_PERMISSION" => i = 5
      /\ \A i \in 1..7 : Forward[i] = "EXECUTING" => i = 6
      /\ \A i \in 1..7 : Forward[i] = "VERIFYING" => i = 7
      /\ \A i \in 1..7 : Forward[i] # "RECOVERING"
  BY <1>1, <1>2
<1>5. /\ Position("PLANNING") = 4 /\ Position("WAITING_PERMISSION") = 5
      /\ Position("EXECUTING") = 6 /\ Position("VERIFYING") = 7
  BY <1>1, <1>3, <1>4
<1>6. Position("RECOVERING") = 0
  BY <1>4 DEF Position
<1>7. \A st : Position(st) \in 0..7
  <2> SUFFICES ASSUME NEW st PROVE Position(st) \in 0..7
    OBVIOUS
  <2>1. CASE \E i \in 1..7 : Forward[i] = st
    <3>1. (CHOOSE i \in 1..7 : Forward[i] = st) \in 1..7
      BY <2>1
    <3> QED BY <2>1, <3>1 DEF Position
  <2>2. CASE ~\E i \in 1..7 : Forward[i] = st
    BY <2>2 DEF Position
  <2> QED BY <2>1, <2>2
<1>8. Len(Forward) = 7 /\ Forward \in Seq(TaskState \ Terminal)
  BY TaskStates DEF Forward, Terminal
<1> QED BY <1>1, <1>5, <1>6, <1>7, <1>8

(* A stretch of _FORWARD. *)
LEMMA Stretch ==
    ASSUME NEW m \in 1..7, NEW n \in m..7
    PROVE  /\ SubSeq(Forward, m, n) \in Seq(TaskState \ Terminal)
           /\ Len(SubSeq(Forward, m, n)) = n - m + 1
           /\ \A i \in 1..(n - m + 1) : SubSeq(Forward, m, n)[i] = Forward[m + i - 1]
<1>1. Forward \in Seq(TaskState \ Terminal) /\ Len(Forward) = 7
  BY Positions
<1> DEFINE S == TaskState \ Terminal
<1>2. m \in Int /\ n \in Int /\ m <= n /\ \A i \in m..n : Forward[i] \in S
  <2> HIDE DEF S
  <2>1. Forward \in Seq(S) /\ Len(Forward) = 7
    BY <1>1 DEF S
  <2>2. \A i \in 1..7 : Forward[i] \in S
    BY <2>1, ElementOfSeq
  <2>3. \A i \in m..n : i \in 1..7
    OBVIOUS
  <2> QED BY <2>2, <2>3
<1>3. /\ SubSeq(Forward, m, n) \in Seq(TaskState \ Terminal)
      /\ Len(SubSeq(Forward, m, n)) = IF m <= n THEN n - m + 1 ELSE 0
      /\ \A i \in 1..(n - m + 1) : SubSeq(Forward, m, n)[i] = Forward[m + i - 1]
  BY <1>2, SubSeqProperties
<1> QED BY <1>2, <1>3

(* _walk_to never passes through a terminal state ... *)
LEMMA WalkToType ==
    ASSUME NEW st \in TaskState, NEW target \in {"EXECUTING", "VERIFYING"}
    PROVE  WalkTo(st, target) \in Seq(TaskState \ Terminal)
<1>1. {"RECOVERING", "EXECUTING", "VERIFYING"} \subseteq TaskState \ Terminal
  BY TaskStates DEF Terminal
<1>2. /\ <<>> \in Seq(TaskState \ Terminal)
      /\ <<"RECOVERING", "EXECUTING">> \in Seq(TaskState \ Terminal)
      /\ <<"EXECUTING", "VERIFYING">> \in Seq(TaskState \ Terminal)
      /\ <<target>> \in Seq(TaskState \ Terminal)
  BY <1>1
<1>3. CASE Position(st) \in 1..(Position(target) - 1)
  <2>1. /\ Position(st) + 1 \in 1..7
        /\ Position(target) \in (Position(st) + 1)..7
    BY <1>3, Positions
  <2>2. SubSeq(Forward, Position(st) + 1, Position(target)) \in Seq(TaskState \ Terminal)
    BY <2>1, Stretch
  <2> QED BY <1>2, <2>2 DEF WalkTo
<1>4. CASE Position(st) \notin 1..(Position(target) - 1)
  BY <1>2, <1>4 DEF WalkTo
<1> QED BY <1>3, <1>4

(* ... and is legal from wherever a task with a plan may be. *)
LEMMA WalkToExecuting ==
    /\ WalkTo("EXECUTING", "EXECUTING") = <<>>
    /\ WalkTo("VERIFYING", "EXECUTING") = <<"RECOVERING", "EXECUTING">>
    /\ WalkTo("RECOVERING", "EXECUTING") = <<"EXECUTING">>
    /\ Len(WalkTo("PLANNING", "EXECUTING")) = 2
    /\ WalkTo("PLANNING", "EXECUTING")[1] = "WAITING_PERMISSION"
    /\ WalkTo("PLANNING", "EXECUTING")[2] = "EXECUTING"
    /\ Len(WalkTo("WAITING_PERMISSION", "EXECUTING")) = 1
    /\ WalkTo("WAITING_PERMISSION", "EXECUTING")[1] = "EXECUTING"
    /\ Len(WalkTo("EXECUTING", "VERIFYING")) = 1
    /\ WalkTo("EXECUTING", "VERIFYING")[1] = "VERIFYING"
<1>1. /\ WalkTo("EXECUTING", "EXECUTING") = <<>>
      /\ WalkTo("VERIFYING", "EXECUTING") = <<"RECOVERING", "EXECUTING">>
      /\ WalkTo("RECOVERING", "EXECUTING") = <<"EXECUTING">>
  BY Positions DEF WalkTo
<1>2. ASSUME NEW st, NEW target, st # target, st \notin {"VERIFYING", "RECOVERING"},
             Position(st) \in 1..(Position(target) - 1)
      PROVE  WalkTo(st, target) = SubSeq(Forward, Position(st) + 1, Position(target))
  BY <1>2 DEF WalkTo
<1>a. /\ 4 \in 1..(6 - 1) /\ 5 \in 1..(6 - 1) /\ 6 \in 1..(7 - 1)
  OBVIOUS
<1>b. /\ WalkTo("PLANNING", "EXECUTING") = SubSeq(Forward, 4 + 1, 6)
      /\ WalkTo("WAITING_PERMISSION", "EXECUTING") = SubSeq(Forward, 5 + 1, 6)
      /\ WalkTo("EXECUTING", "VERIFYING") = SubSeq(Forward, 6 + 1, 7)
  BY <1>2, <1>a, Positions
<1>3. /\ Len(SubSeq(Forward, 5, 6)) = 2
      /\ SubSeq(Forward, 5, 6)[1] = Forward[5] /\ SubSeq(Forward, 5, 6)[2] = Forward[6]
  BY Stretch
<1>4. /\ Len(SubSeq(Forward, 6, 6)) = 1 /\ SubSeq(Forward, 6, 6)[1] = Forward[6]
      /\ Len(SubSeq(Forward, 7, 7)) = 1 /\ SubSeq(Forward, 7, 7)[1] = Forward[7]
  BY Stretch
<1>5. 4 + 1 = 5 /\ 5 + 1 = 6 /\ 6 + 1 = 7
  OBVIOUS
<1> QED BY <1>1, <1>b, <1>3, <1>4, <1>5, Positions

(* The transitions a phase lays out: states, COMPLETED only from _complete, ... *)
LEMMA PathOfType ==
    ASSUME TypeOK, Running, WayAhead
    PROVE  /\ PathOf(phase, cur.task) \in Seq(TaskState)
           /\ \A i \in 1..Len(PathOf(phase, cur.task)) :
                 PathOf(phase, cur.task)[i] = "COMPLETED" =>
                     phase = "complete" /\ aim = "COMPLETED"
<1> DEFINE p == PathOf(phase, cur.task)
<1>1. cur.task \in TaskState
  BY RowFields DEF TypeOK
<1>2. CASE phase \in {"execute", "verify"}
  <2>1. \E target \in {"EXECUTING", "VERIFYING"} : p = WalkTo(cur.task, target)
    BY <1>2 DEF PathOf
  <2>2. p \in Seq(TaskState \ Terminal)
    BY <1>1, <2>1, WalkToType
  <2> HIDE DEF p
  <2>3. \A i \in 1..Len(p) : p[i] \in TaskState \ Terminal
    BY <2>2, ElementOfSeq
  <2>4. p \in Seq(TaskState)
    <3>1. Len(p) \in Nat /\ p = [i \in 1..Len(p) |-> p[i]]
      BY <2>2
    <3> QED BY <2>3, <3>1
  <2> QED BY <2>3, <2>4 DEF Terminal, p
<1>3. CASE phase \in {"understand", "aware", "research", "plan", "recover", "settle",
                      "complete", "abort"}
  <2>1. \/ p = <<>>
        \/ \E a \in TaskState :
              p = <<a>> /\ (a = "COMPLETED" => phase = "complete" /\ aim = "COMPLETED")
        \/ p = <<"EXECUTING", "VERIFYING">>
    BY <1>3, TaskStates DEF PathOf, TypeOK, WayAhead, Terminal
  <2> HIDE DEF p
  <2>2. CASE p = <<>>
    BY <2>2 DEF p
  <2>3. ASSUME NEW a \in TaskState, p = <<a>>,
               a = "COMPLETED" => phase = "complete" /\ aim = "COMPLETED"
        PROVE  /\ p \in Seq(TaskState)
               /\ \A i \in 1..Len(p) : p[i] = "COMPLETED" =>
                     phase = "complete" /\ aim = "COMPLETED"
    BY <2>3
  <2>4. CASE p = <<"EXECUTING", "VERIFYING">>
    <3>1. Len(p) = 2 /\ p[1] = "EXECUTING" /\ p[2] = "VERIFYING" /\ p \in Seq(TaskState)
      BY <2>4, TaskStates
    <3> QED BY <3>1 DEF p
  <2> QED BY <2>1, <2>2, <2>3, <2>4 DEF p
<1> QED BY <1>2, <1>3 DEF TypeOK, Running, Settled, Phases

(* ... and, when nobody cancels, legal ones that agree with the plan. *)
LEMMA PathOfLegal ==
    ASSUME TypeOK, Running, WayAhead, BeginsIn(cur.task), PlanKept, RowOK(cur)
    PROVE  /\ PathOf(phase, cur.task) = <<>> => LeadsTo(cur.task)
           /\ PathOf(phase, cur.task) # <<>> =>
                 /\ IsValidTransition(cur.task, PathOf(phase, cur.task)[1])
                 /\ LegalPath(PathOf(phase, cur.task))
<1> DEFINE p == PathOf(phase, cur.task)
<1>1. cur.task \in TaskState
  BY RowFields DEF TypeOK
<1>a. ASSUME NEW a, p = <<a>>, IsValidTransition(cur.task, a), LeadsTo(a),
             a \in Carried => cur.ctx.plan,
             cur.ctx.plan => a \in Planned \cup Terminal
      PROVE  p # <<>> /\ IsValidTransition(cur.task, p[1]) /\ LegalPath(p)
  <2> HIDE DEF p
  <2>1. Len(p) = 1 /\ p[1] = a /\ p # <<>>
    BY <1>a
  <2> QED BY <1>a, <2>1 DEF LegalPath
<1>b. ASSUME NEW a, NEW b, Len(p) = 2, p[1] = a, p[2] = b, IsValidTransition(cur.task, a),
             IsValidTransition(a, b), LeadsTo(b), cur.ctx.plan, a \in Planned, b \in Planned
      PROVE  p # <<>> /\ IsValidTransition(cur.task, p[1]) /\ LegalPath(p)
  <2> HIDE DEF p
  <2>1. p # <<>> /\ \A i \in 1..(Len(p) - 1) : i = 1 /\ p[i] = a /\ p[i + 1] = b
    BY <1>b
  <2>2. \A i \in 1..Len(p) : p[i] \in Planned
    BY <1>b
  <2> QED BY <1>b, <2>1, <2>2 DEF LegalPath
<1>2. CASE phase \in {"understand", "aware", "research", "plan"}
  <2>1. ~cur.ctx.plan
    BY <1>2 DEF PlanKept
  <2>2. \E a : /\ p = <<a>> /\ IsValidTransition(cur.task, a) /\ LeadsTo(a)
               /\ a \notin Carried
    BY <1>2 DEF BeginsIn, PathOf, IsValidTransition, Edges, LeadsTo, Carried, Planned
  <2> QED BY <1>a, <2>1, <2>2
<1>3. CASE phase = "execute"
  <2>1. p = WalkTo(cur.task, "EXECUTING") /\ cur.task \in Planned /\ cur.ctx.plan
    BY <1>3 DEF PathOf, BeginsIn, PlanKept
  <2>2. CASE cur.task = "EXECUTING"
    BY <1>3, <2>1, <2>2, WalkToExecuting DEF LeadsTo
  <2>3. CASE cur.task \in {"WAITING_PERMISSION", "RECOVERING"}
    <3>1. Len(p) = 1 /\ p[1] = "EXECUTING"
      BY <2>1, <2>3, WalkToExecuting
    <3>2. p = <<"EXECUTING">>
      <4>1. p \in Seq(TaskState)
        BY PathOfType
      <4> HIDE DEF p
      <4> QED BY <3>1, <4>1
    <3> QED BY <1>3, <1>a, <2>1, <2>3, <3>2
            DEF IsValidTransition, Edges, LeadsTo, Carried, Planned
  <2>4. CASE cur.task \in {"PLANNING", "VERIFYING"}
    <3>1. Len(p) = 2 /\ p[1] \in {"WAITING_PERMISSION", "RECOVERING"} /\ p[2] = "EXECUTING"
          /\ IsValidTransition(cur.task, p[1])
      BY <2>1, <2>4, WalkToExecuting DEF IsValidTransition, Edges
    <3>2. IsValidTransition(p[1], "EXECUTING") /\ LeadsTo("EXECUTING") /\ p[1] \in Planned
          /\ "EXECUTING" \in Planned
      BY <1>3, <3>1 DEF IsValidTransition, Edges, LeadsTo, Planned
    <3> HIDE DEF p
    <3>3. p # <<>> /\ IsValidTransition(cur.task, p[1]) /\ LegalPath(p)
      BY <1>b, <2>1, <3>1, <3>2
    <3> QED BY <3>3 DEF p
  <2> QED BY <2>1, <2>2, <2>3, <2>4 DEF Planned
<1>4. CASE phase = "verify"
  <2>1. Len(p) = 1 /\ p[1] = "VERIFYING" /\ cur.task = "EXECUTING" /\ cur.ctx.plan
    BY <1>4, WalkToExecuting DEF PathOf, BeginsIn, PlanKept
  <2>2. p = <<"VERIFYING">>
    <3>1. p \in Seq(TaskState)
      BY PathOfType
    <3> HIDE DEF p
    <3> QED BY <2>1, <3>1
  <2> QED BY <1>4, <1>a, <2>1, <2>2 DEF IsValidTransition, Edges, LeadsTo, Planned
<1>5. CASE phase = "recover"
  <2>1. p = <<"RECOVERING">> /\ cur.task = "VERIFYING" /\ cur.ctx.plan
    BY <1>5 DEF PathOf, BeginsIn, PlanKept
  <2> QED BY <1>5, <1>a, <2>1 DEF IsValidTransition, Edges, LeadsTo, Planned
<1>6. CASE phase = "settle"
  <2>1. p = <<"EXECUTING", "VERIFYING">> /\ cur.task = "RECOVERING" /\ cur.ctx.plan
    BY <1>6 DEF PathOf, BeginsIn, PlanKept
  <2>2. Len(p) = 2 /\ p[1] = "EXECUTING" /\ p[2] = "VERIFYING"
    BY <2>1
  <2> QED BY <1>6, <1>b, <2>1, <2>2 DEF IsValidTransition, Edges, LeadsTo, Planned
<1>7. CASE phase = "complete"
  <2>1. p = <<aim>> /\ cur.task = "VERIFYING" /\ cur.ctx.plan /\ aim \in Terminal
    BY <1>7 DEF PathOf, BeginsIn, PlanKept, TypeOK
  <2> QED BY <1>7, <1>a, <2>1
          DEF IsValidTransition, Edges, LeadsTo, Planned, Carried, Terminal
<1>8. CASE phase = "abort"
  <2>1. aim \in {"FAILED", "CANCELLED"}
    BY <1>8 DEF TypeOK, WayAhead, Terminal
  <2>2. CASE cur.task \in Terminal
    BY <1>8, <2>2 DEF PathOf, LeadsTo
  <2>3. CASE cur.task \notin Terminal
    <3>1. p = <<aim>>
      BY <1>8, <2>3 DEF PathOf
    <3> QED BY <1>8, <1>a, <2>1, <2>3, <3>1
            DEF IsValidTransition, LeadsTo, Planned, Carried, Terminal
  <2> QED BY <2>2, <2>3
<1> QED BY <1>2, <1>3, <1>4, <1>5, <1>6, <1>7, <1>8 DEF TypeOK, Running, Settled, Phases

-----------------------------------------------------------------------------
(* What the steps of a transition, and a save, leave in the two rows. *)
LEMMA SavedContext ==
    ASSUME TypeOK, NEW c \in Contexts, SaveContext(c)
    PROVE  /\ cur' \in Rows /\ com' \in Rows
           /\ cur'.task = cur.task /\ cur'.ctx = c
           /\ (com' = com /\ owner # "none") \/ com' = cur'
           /\ owner = "none" => com' = cur'
           /\ inside' = inside /\ owner' = owner
BY SetCtx DEF SaveContext, TypeOK

LEMMA Wrote ==
    ASSUME TypeOK, NEW t \in Threads, NEW to \in TaskState, WriteTask(t, to)
    PROVE  /\ cur' \in Rows /\ com' \in Rows
           /\ cur'.task = to /\ cur'.ctx = cur.ctx
           /\ (com' = com /\ owner # "none") \/ com' = cur'
           /\ owner # "none" => com' = com
           /\ loaded' \in [Threads -> Contexts]
           /\ loaded'[t].plan = cur.ctx.plan /\ loaded'[t].result = cur.ctx.result
           /\ inside' = inside /\ owner' = owner
<1>1. cur.ctx \in Contexts
  BY RowFields DEF TypeOK
<1> DEFINE c == [cur.ctx EXCEPT !.current = to]
<1>2. c \in Contexts /\ c.plan = cur.ctx.plan /\ c.result = cur.ctx.result
  BY <1>1, SetCurrent
<1>3. loaded' = [loaded EXCEPT ![t] = c]
  BY DEF WriteTask
<1> HIDE DEF c
<1>4. loaded' \in [Threads -> Contexts] /\ loaded'[t] = c
  BY <1>2, <1>3 DEF TypeOK
<1>5. /\ cur' \in Rows /\ cur'.task = to /\ cur'.ctx = cur.ctx
  BY SetTask DEF WriteTask, TypeOK
<1> QED BY <1>2, <1>4, <1>5 DEF WriteTask, TypeOK

LEMMA LeftBlock ==
    ASSUME TypeOK, NEW t \in Threads, SaveAndLeave(t)
    PROVE  /\ cur' \in Rows /\ com' \in Rows
           /\ cur'.task = cur.task /\ cur'.ctx = loaded[t]
           /\ com' = com \/ com' = cur'
           /\ owner \in {t, "none"} => com' = cur'
           /\ inside' \in SUBSET Threads /\ owner' \in Threads \cup {"none"}
<1>1. loaded[t] \in Contexts
  BY DEF TypeOK
<1>2. cur' \in Rows /\ cur'.task = cur.task /\ cur'.ctx = loaded[t]
  BY <1>1, SetCtx DEF SaveAndLeave, TypeOK
<1>3. com' \in Rows /\ (com' = com \/ com' = cur') /\ (owner \in {t, "none"} => com' = cur')
  BY <1>2 DEF SaveAndLeave, TypeOK
<1>4. inside' \in SUBSET Threads /\ owner' \in Threads \cup {"none"}
  BY DEF SaveAndLeave, TypeOK
<1> QED BY <1>2, <1>3, <1>4

-----------------------------------------------------------------------------
LEMMA BeginInv == ASSUME Inv, Begin PROVE Inv'
<1> USE DEF Inv, Begin, db, api
<1>1. TypeOK'
  BY RowFields DEF TypeOK, Phases, WorkerSteps, Terminal, Running, Settled, Go
<1>2. WayAhead'
  BY RowFields DEF WayAhead, Moving, Running, Settled, Go
<1>3. ASSUME ~HasPlanner PROVE ProvenInv'
  BY <1>3, RowFields DEF ProvenInv, WayAhead, Running, Settled, Go
<1>4. TokenInv'
  BY RowFields DEF TokenInv, WayAhead, Running, Settled, Go
<1>5. ASSUME cancels' = 0 PROVE QuietInv'
  <2> USE <1>5 DEF QuietInv
  <2>1. Alone'
    BY RowFields DEF Alone, Running, Settled, Go
  <2>2. RowOK(cur)' /\ RowOK(com)'
    BY RowFields DEF RowOK, Alone
  <2>3. PlanKept'
    BY RowFields DEF PlanKept, RowOK, Alone, Running, Settled, Go, Planned, Terminal
  <2>4. OnTheWay'
    BY RowFields
       DEF OnTheWay, PlanKept, BeginsIn, Legal, LegalPath, LeadsTo, Moving, Running,
           Settled, Go
  <2> QED BY <2>1, <2>2, <2>3, <2>4
<1> QED BY <1>1, <1>2, <1>3, <1>4, <1>5

LEMMA CheckInv == ASSUME Inv, Check PROVE Inv'
<1> USE DEF Inv, Check, db, api, Stopped
<1>1. TypeOK'
  BY DEF TypeOK, Phases, WorkerSteps, Terminal, Running, Settled, Go, Raise
<1>2. WayAhead'
  BY DEF WayAhead, Moving, Running, Settled, Go, Raise
<1>3. ASSUME ~HasPlanner PROVE ProvenInv'
  BY <1>3 DEF ProvenInv, WayAhead, Running, Settled, Go, Raise
<1>4. TokenInv'
  BY DEF TokenInv, WayAhead, Running, Settled, Go, Raise
<1>5. ASSUME cancels' = 0 PROVE QuietInv'
  <2> USE <1>5 DEF QuietInv
  <2>1. Alone'
    BY DEF Alone, Running, Settled, Go, Raise
  <2>2. RowOK(cur)' /\ RowOK(com)'
    BY DEF RowOK, Alone
  <2>3. PlanKept'
    BY DEF PlanKept, RowOK, Alone, Running, Settled, Go, Raise
  <2>4. OnTheWay'
    BY DEF OnTheWay, PlanKept, BeginsIn, Legal, LegalPath, LeadsTo, Moving, Running,
           Settled, Go, Raise
  <2> QED BY <2>1, <2>2, <2>3, <2>4
<1> QED BY <1>1, <1>2, <1>3, <1>4, <1>5

LEMMA WorkVerifyInv == ASSUME Inv, WorkVerify PROVE Inv'
<1> USE DEF Inv, WorkVerify, db, api
<1>1. TypeOK'
  BY DEF TypeOK, Phases, WorkerSteps, Terminal, Running, Settled, Go
<1>2. WayAhead'
  BY DEF WayAhead, Moving, Running, Settled, Go
<1>3. ASSUME ~HasPlanner PROVE ProvenInv'
  BY <1>3 DEF ProvenInv, WayAhead, Running, Settled, Go
<1>4. TokenInv'
  BY DEF TokenInv, WayAhead, Running, Settled, Go
<1>5. ASSUME cancels' = 0 PROVE QuietInv'
  <2> USE <1>5 DEF QuietInv
  <2>1. Alone'
    BY DEF Alone, Running, Settled, Go
  <2>2. RowOK(cur)' /\ RowOK(com)'
    BY DEF RowOK, Alone
  <2>3. PlanKept'
    BY DEF PlanKept, RowOK, Alone, Running, Settled, Go
  <2>4. OnTheWay'
    BY DEF OnTheWay, PlanKept, BeginsIn, Legal, LegalPath, LeadsTo, Moving, Running,
           Settled, Go
  <2> QED BY <2>1, <2>2, <2>3, <2>4
<1> QED BY <1>1, <1>2, <1>3, <1>4, <1>5

LEMMA WorkSettleInv == ASSUME Inv, WorkSettle PROVE Inv'
<1> USE DEF Inv, WorkSettle, db, api
<1>1. TypeOK'
  BY DEF TypeOK, Phases, WorkerSteps, Terminal, Running, Settled, Go
<1>2. WayAhead'
  BY DEF WayAhead, Moving, Running, Settled, Go
<1>3. ASSUME ~HasPlanner PROVE ProvenInv'
  BY <1>3 DEF ProvenInv, WayAhead, Running, Settled, Go
<1>4. TokenInv'
  BY DEF TokenInv, WayAhead, Running, Settled, Go
<1>5. ASSUME cancels' = 0 PROVE QuietInv'
  <2> USE <1>5 DEF QuietInv
  <2>1. Alone'
    BY DEF Alone, Running, Settled, Go
  <2>2. RowOK(cur)' /\ RowOK(com)'
    BY DEF RowOK, Alone
  <2>3. PlanKept'
    BY DEF PlanKept, RowOK, Alone, Running, Settled, Go
  <2>4. OnTheWay'
    BY DEF OnTheWay, PlanKept, BeginsIn, Legal, LegalPath, LeadsTo, Moving, Running,
           Settled, Go
  <2> QED BY <2>1, <2>2, <2>3, <2>4
<1> QED BY <1>1, <1>2, <1>3, <1>4, <1>5

LEMMA WorkRaisesInv == ASSUME Inv, WorkRaises PROVE Inv'
<1> USE DEF Inv, WorkRaises, db, api, Stopped
<1>1. TypeOK'
  BY DEF TypeOK, Phases, WorkerSteps, Terminal, Running, Settled, Go, Raise
<1>2. WayAhead'
  BY DEF WayAhead, Moving, Running, Settled, Go, Raise
<1>3. ASSUME ~HasPlanner PROVE ProvenInv'
  BY <1>3 DEF ProvenInv, WayAhead, Running, Settled, Go, Raise
<1>4. TokenInv'
  BY DEF TokenInv, WayAhead, Running, Settled, Go, Raise
<1>5. ASSUME cancels' = 0 PROVE QuietInv'
  <2> USE <1>5 DEF QuietInv
  <2>1. Alone'
    BY DEF Alone, Running, Settled, Go, Raise
  <2>2. RowOK(cur)' /\ RowOK(com)'
    BY DEF RowOK, Alone
  <2>3. PlanKept'
    BY DEF PlanKept, RowOK, Alone, Running, Settled, Go, Raise
  <2>4. OnTheWay'
    BY DEF OnTheWay, PlanKept, BeginsIn, Legal, LegalPath, LeadsTo, Moving, Running,
           Settled, Go, Raise
  <2> QED BY <2>1, <2>2, <2>3, <2>4
<1> QED BY <1>1, <1>2, <1>3, <1>4, <1>5

LEMMA CancelNotifyInv == ASSUME Inv, CancelNotify PROVE Inv'
<1> USE DEF Inv, CancelNotify, db, worker
<1>1. TypeOK'
  BY DEF TypeOK, Phases, WorkerSteps, Terminal, Running, Settled, CancelSteps
<1>2. WayAhead'
  BY DEF WayAhead, Moving, Running, Settled
<1>3. ASSUME ~HasPlanner PROVE ProvenInv'
  BY <1>3 DEF ProvenInv, WayAhead, Running, Settled
<1>4. TokenInv'
  BY DEF TokenInv, WayAhead, Running, Settled
<1>5. ASSUME cancels' = 0 PROVE QuietInv'
  <2> USE <1>5 DEF QuietInv
  <2>1. Alone'
    BY DEF Alone, Running, Settled
  <2>2. RowOK(cur)' /\ RowOK(com)'
    BY DEF RowOK, Alone
  <2>3. PlanKept'
    BY DEF PlanKept, RowOK, Alone, Running, Settled
  <2>4. OnTheWay'
    BY DEF OnTheWay, PlanKept, BeginsIn, Legal, LegalPath, LeadsTo, Moving, Running,
           Settled
  <2> QED BY <2>1, <2>2, <2>3, <2>4
<1> QED BY <1>1, <1>2, <1>3, <1>4, <1>5

LEMMA CancelReadInv == ASSUME Inv, CancelRead PROVE Inv'
<1> USE DEF Inv, CancelRead, db, worker
<1>1. TypeOK' /\ cancels' # 0
  BY TaskLifecycleAssumption DEF TypeOK, CancelSteps
<1>2. WayAhead'
  BY DEF WayAhead, Moving, Running
<1>3. ASSUME ~HasPlanner PROVE ProvenInv'
  BY <1>3 DEF ProvenInv
<1>4. TokenInv'
  BY DEF TokenInv
<1> QED BY <1>1, <1>2, <1>3, <1>4

LEMMA WorkEarlyInv == ASSUME Inv, WorkEarly PROVE Inv'
<1> USE DEF Inv, WorkEarly, api
<1>a. mem \in Contexts /\ SaveContext(mem)
  BY DEF TypeOK
<1>b. /\ cur' \in Rows /\ com' \in Rows
      /\ cur'.task = cur.task /\ cur'.ctx = mem
      /\ (com' = com /\ owner # "none") \/ com' = cur'
      /\ owner = "none" => com' = cur'
      /\ inside' = inside /\ owner' = owner
  BY <1>a, SavedContext
<1>1. TypeOK'
  BY <1>b DEF TypeOK, Phases, WorkerSteps, Terminal, Running, Settled, Go
<1>2. WayAhead'
  BY <1>b DEF WayAhead, Moving, Running, Settled, Go
<1>3. ASSUME ~HasPlanner PROVE ProvenInv'
  BY <1>3, <1>b DEF ProvenInv, WayAhead, Running, Settled, Go
<1>4. TokenInv'
  BY <1>b DEF TokenInv, WayAhead, Running, Settled, Go
<1>5. ASSUME cancels' = 0 PROVE QuietInv'
  <2> USE <1>5 DEF QuietInv
  <2>1. Alone'
    BY <1>b DEF Alone, Running, Settled, Go, Moving
  <2>2. RowOK(cur)' /\ RowOK(com)'
    BY <1>b
       DEF RowOK, Alone, OnTheWay, LeadsTo, PlanKept, Planned, Carried, Terminal,
           Running, Settled
  <2>3. PlanKept'
    BY <1>b DEF PlanKept, RowOK, Alone, Running, Settled, Go
  <2>4. OnTheWay'
    BY <1>b
       DEF OnTheWay, PlanKept, BeginsIn, Legal, LegalPath, LeadsTo, Moving, Running,
           Settled, Go
  <2> QED BY <2>1, <2>2, <2>3, <2>4
<1> QED BY <1>1, <1>2, <1>3, <1>4, <1>5

LEMMA ToolRunsInv == ASSUME Inv, ToolRuns PROVE Inv'
<1> USE DEF Inv, ToolRuns, worker, api
<1>a. mem \in Contexts /\ SaveContext(mem)
  BY DEF TypeOK
<1>b. /\ cur' \in Rows /\ com' \in Rows
      /\ cur'.task = cur.task /\ cur'.ctx = mem
      /\ (com' = com /\ owner # "none") \/ com' = cur'
      /\ owner = "none" => com' = cur'
      /\ inside' = inside /\ owner' = owner
  BY <1>a, SavedContext
<1>1. TypeOK'
  BY <1>b, TaskLifecycleAssumption
     DEF TypeOK, Phases, WorkerSteps, Terminal, Running, Settled
<1>2. WayAhead'
  BY <1>b DEF WayAhead, Moving, Running, Settled
<1>3. ASSUME ~HasPlanner PROVE ProvenInv'
  BY <1>3, <1>b DEF ProvenInv, WayAhead, Running, Settled
<1>4. TokenInv'
  BY <1>b DEF TokenInv, WayAhead, Running, Settled
<1>5. ASSUME cancels' = 0 PROVE QuietInv'
  <2> USE <1>5 DEF QuietInv
  <2>1. Alone'
    BY <1>b DEF Alone, Running, Settled, Moving
  <2>2. RowOK(cur)' /\ RowOK(com)'
    BY <1>b
       DEF RowOK, Alone, OnTheWay, LeadsTo, PlanKept, Planned, Carried, Terminal,
           Running, Settled
  <2>3. PlanKept'
    BY <1>b DEF PlanKept, RowOK, Alone, Running, Settled
  <2>4. OnTheWay'
    BY <1>b
       DEF OnTheWay, PlanKept, BeginsIn, Legal, LegalPath, LeadsTo, Moving, Running,
           Settled
  <2> QED BY <2>1, <2>2, <2>3, <2>4
<1> QED BY <1>1, <1>2, <1>3, <1>4, <1>5

LEMMA WorkExecuteInv == ASSUME Inv, WorkExecute PROVE Inv'
<1> USE DEF Inv, WorkExecute, api, Stopped
<1>a. mem \in Contexts /\ SaveContext(mem)
  BY DEF TypeOK
<1>b. /\ cur' \in Rows /\ com' \in Rows
      /\ cur'.task = cur.task /\ cur'.ctx = mem
      /\ (com' = com /\ owner # "none") \/ com' = cur'
      /\ owner = "none" => com' = cur'
      /\ inside' = inside /\ owner' = owner
  BY <1>a, SavedContext
<1>1. TypeOK'
  BY <1>b DEF TypeOK, Phases, WorkerSteps, Terminal, Running, Settled, Go
<1>2. WayAhead'
  BY <1>b DEF WayAhead, Moving, Running, Settled, Go
<1>3. ASSUME ~HasPlanner PROVE ProvenInv'
  BY <1>3, <1>b DEF ProvenInv, WayAhead, Running, Settled, Go
<1>4. TokenInv'
  BY <1>b DEF TokenInv, WayAhead, Running, Settled, Go
<1>5. ASSUME cancels' = 0 PROVE QuietInv'
  <2> USE <1>5 DEF QuietInv
  <2>1. Alone'
    BY <1>b DEF Alone, Running, Settled, Go, Moving
  <2>2. RowOK(cur)' /\ RowOK(com)'
    BY <1>b
       DEF RowOK, Alone, OnTheWay, LeadsTo, PlanKept, Planned, Carried, Terminal,
           Running, Settled
  <2>3. PlanKept'
    BY <1>b DEF PlanKept, RowOK, Alone, Running, Settled, Go
  <2>4. OnTheWay'
    BY <1>b
       DEF OnTheWay, PlanKept, BeginsIn, Legal, LegalPath, LeadsTo, Moving, Running,
           Settled, Go
  <2> QED BY <2>1, <2>2, <2>3, <2>4
<1> QED BY <1>1, <1>2, <1>3, <1>4, <1>5

LEMMA WorkRecoverInv == ASSUME Inv, WorkRecover PROVE Inv'
<1> USE DEF Inv, WorkRecover, api, CanRepeat
<1>a. mem \in Contexts /\ SaveContext(mem)
  BY DEF TypeOK
<1>b. /\ cur' \in Rows /\ com' \in Rows
      /\ cur'.task = cur.task /\ cur'.ctx = mem
      /\ (com' = com /\ owner # "none") \/ com' = cur'
      /\ owner = "none" => com' = cur'
      /\ inside' = inside /\ owner' = owner
  BY <1>a, SavedContext
<1>1. TypeOK'
  BY <1>b DEF TypeOK, Phases, WorkerSteps, Terminal, Running, Settled, Go
<1>2. WayAhead'
  BY <1>b DEF WayAhead, Moving, Running, Settled, Go
<1>3. ASSUME ~HasPlanner PROVE ProvenInv'
  BY <1>3, <1>b DEF ProvenInv, WayAhead, Running, Settled, Go
<1>4. TokenInv'
  BY <1>b DEF TokenInv, WayAhead, Running, Settled, Go
<1>5. ASSUME cancels' = 0 PROVE QuietInv'
  <2> USE <1>5 DEF QuietInv
  <2>1. Alone'
    BY <1>b DEF Alone, Running, Settled, Go, Moving
  <2>2. RowOK(cur)' /\ RowOK(com)'
    BY <1>b
       DEF RowOK, Alone, OnTheWay, LeadsTo, PlanKept, Planned, Carried, Terminal,
           Running, Settled
  <2>3. PlanKept'
    BY <1>b DEF PlanKept, RowOK, Alone, Running, Settled, Go
  <2>4. OnTheWay'
    BY <1>b
       DEF OnTheWay, PlanKept, BeginsIn, Legal, LegalPath, LeadsTo, Moving, Running,
           Settled, Go
  <2> QED BY <2>1, <2>2, <2>3, <2>4
<1> QED BY <1>1, <1>2, <1>3, <1>4, <1>5

LEMMA WorkPlanInv == ASSUME Inv, WorkPlan PROVE Inv'
<1> USE DEF Inv, WorkPlan, api
<1>a. /\ mem' \in Contexts /\ SaveContext(mem')
      /\ mem'.plan = TRUE /\ mem'.result = mem.result
  BY SetPlan DEF TypeOK
<1>b. /\ cur' \in Rows /\ com' \in Rows
      /\ cur'.task = cur.task /\ cur'.ctx = mem'
      /\ (com' = com /\ owner # "none") \/ com' = cur'
      /\ owner = "none" => com' = cur'
      /\ inside' = inside /\ owner' = owner
  BY <1>a, SavedContext
<1>1. TypeOK'
  BY <1>a, <1>b DEF TypeOK, Phases, WorkerSteps, Terminal, Running, Settled, Go
<1>2. WayAhead'
  BY <1>a, <1>b DEF WayAhead, Moving, Running, Settled, Go
<1>3. ASSUME ~HasPlanner PROVE ProvenInv'
  BY <1>3, <1>a, <1>b DEF ProvenInv, WayAhead, Running, Settled, Go
<1>4. TokenInv'
  BY <1>a, <1>b DEF TokenInv, WayAhead, Running, Settled, Go
<1>5. ASSUME cancels' = 0 PROVE QuietInv'
  <2> USE <1>5 DEF QuietInv
  <2>1. Alone'
    BY <1>a, <1>b DEF Alone, Running, Settled, Go, Moving
  <2>2. RowOK(cur)' /\ RowOK(com)'
    BY <1>a, <1>b
       DEF RowOK, Alone, OnTheWay, LeadsTo, PlanKept, Planned, Carried, Terminal,
           Running, Settled
  <2>3. PlanKept'
    BY <1>a, <1>b DEF PlanKept, RowOK, Alone, Running, Settled, Go
  <2>4. OnTheWay'
    BY <1>a, <1>b
       DEF OnTheWay, PlanKept, BeginsIn, Legal, LegalPath, LeadsTo, Moving, Running,
           Settled, Go, Planned
  <2> QED BY <2>1, <2>2, <2>3, <2>4
<1> QED BY <1>1, <1>2, <1>3, <1>4, <1>5

LEMMA WorkEndInv == ASSUME Inv, WorkEnd PROVE Inv'
<1> USE DEF Inv, WorkEnd, api
<1>a. /\ mem' \in Contexts /\ SaveContext(mem') /\ mem'.result # "none"
      /\ mem'.result = "COMPLETED" => phase = "complete" /\ aim = "COMPLETED"
      /\ mem'.plan = mem.plan
  <2> DEFINE res == IF phase = "complete" /\ aim = "COMPLETED" THEN "COMPLETED" ELSE "FAILED"
  <2>1. res \in Results
    BY DEF Results
  <2>2. mem' = [mem EXCEPT !.result = res] /\ SaveContext(mem')
    OBVIOUS
  <2>3. mem' \in Contexts /\ mem'.plan = mem.plan /\ mem'.result = res
    <3> HIDE DEF res, WorkEnd
    <3>1. mem \in Contexts
      BY DEF TypeOK
    <3> QED BY <2>1, <2>2, <3>1, SetResult
  <2> QED BY <2>2, <2>3
<1>b. /\ cur' \in Rows /\ com' \in Rows
      /\ cur'.task = cur.task /\ cur'.ctx = mem'
      /\ (com' = com /\ owner # "none") \/ com' = cur'
      /\ owner = "none" => com' = cur'
      /\ inside' = inside /\ owner' = owner
  BY <1>a, SavedContext
<1>1. TypeOK'
  BY <1>a, <1>b DEF TypeOK, Phases, WorkerSteps, Terminal, Running, Settled
<1>2. WayAhead'
  BY <1>a, <1>b DEF WayAhead, Moving, Running, Settled
<1>3. ASSUME ~HasPlanner PROVE ProvenInv'
  BY <1>3, <1>a, <1>b DEF ProvenInv, WayAhead, Running, Settled
<1>4. TokenInv'
  BY <1>a, <1>b DEF TokenInv, WayAhead, Running, Settled
<1>5. ASSUME cancels' = 0 PROVE QuietInv'
  <2> USE <1>5 DEF QuietInv
  <2>1. Alone'
    BY <1>a, <1>b DEF Alone, Running, Settled, Moving
  <2>2. RowOK(cur)' /\ RowOK(com)'
    BY <1>a, <1>b
       DEF RowOK, Alone, OnTheWay, LeadsTo, PlanKept, Planned, Carried, Terminal,
           Running, Settled
  <2>3. PlanKept'
    BY <1>a, <1>b DEF PlanKept, RowOK, Alone, Running, Settled
  <2>4. OnTheWay'
    BY <1>a, <1>b
       DEF OnTheWay, PlanKept, BeginsIn, Legal, LegalPath, LeadsTo, Moving, Running,
           Settled
  <2> QED BY <2>1, <2>2, <2>3, <2>4
<1> QED BY <1>1, <1>2, <1>3, <1>4, <1>5

LEMMA WalkInv == ASSUME Inv, Walk PROVE Inv'
<1> USE DEF Inv, Walk, db, api
<1>a. /\ PathOf(phase, cur.task) \in Seq(TaskState)
      /\ \A i \in 1..Len(PathOf(phase, cur.task)) :
            PathOf(phase, cur.task)[i] = "COMPLETED" => phase = "complete" /\ aim = "COMPLETED"
  BY PathOfType
<1>1. TypeOK'
  BY <1>a DEF TypeOK, Phases, WorkerSteps, Terminal, Running, Settled, Go
<1>2. WayAhead'
  BY <1>a DEF WayAhead, Moving, Running, Settled, Go
<1>3. ASSUME ~HasPlanner PROVE ProvenInv'
  BY <1>3 DEF ProvenInv, WayAhead, Running, Settled, Go
<1>4. TokenInv'
  BY DEF TokenInv, WayAhead, Running, Settled, Go
<1>5. ASSUME cancels' = 0 PROVE QuietInv'
  <2> USE <1>5 DEF QuietInv
  <2>1. Alone'
    BY DEF Alone, Running, Settled, Go
  <2>2. RowOK(cur)' /\ RowOK(com)'
    BY DEF RowOK, Alone
  <2>3. PlanKept'
    BY DEF PlanKept, RowOK, Alone, Running, Settled, Go
  <2>4. OnTheWay'

    <3>1. Running /\ step = "walk" /\ BeginsIn(cur.task)
      BY DEF OnTheWay
    <3>2. /\ PathOf(phase, cur.task) = <<>> => LeadsTo(cur.task)
          /\ PathOf(phase, cur.task) # <<>> =>
                /\ IsValidTransition(cur.task, PathOf(phase, cur.task)[1])
                /\ LegalPath(PathOf(phase, cur.task))
      BY <3>1, PathOfLegal
    <3>3. CASE phase = "complete" /\ cur.task = "CANCELLED"
      BY <3>1, <3>3 DEF BeginsIn
    <3>4. CASE ~(phase = "complete" /\ cur.task = "CANCELLED")
      <4>1. path' = PathOf(phase, cur.task) /\ phase' = phase /\ aim' = aim
            /\ step' = IF path' = <<>> THEN "work" ELSE "enter"
        BY <3>4
      <4> QED BY <3>2, <4>1 DEF OnTheWay, Moving, Legal, LegalPath, LeadsTo
    <3> QED BY <3>3, <3>4
  <2> QED BY <2>1, <2>2, <2>3, <2>4
<1> QED BY <1>1, <1>2, <1>3, <1>4, <1>5

LEMMA EnterInv == ASSUME Inv, Enter PROVE Inv'
<1> USE DEF Inv, Enter, db, api, EnterBlock, Stopped
<1>a. /\ Moving /\ path # <<>> /\ path \in Seq(TaskState) /\ Len(path) >= 1
      /\ Head(path) = path[1] /\ path[1] \in TaskState
  BY DEF Moving, WayAhead, TypeOK
<1>1. TypeOK'

  <2>1. /\ step' \in WorkerSteps /\ phase' \in Phases /\ aim' \in Terminal
    BY DEF TypeOK, WorkerSteps, Phases, Terminal, Raise, Go
  <2>2. inside' \in SUBSET Threads /\ owner' \in Threads \cup {"none"}
    BY DEF TypeOK, Threads
  <2>3. cur' = cur /\ com' = com
    OBVIOUS
  <2> QED BY <2>1, <2>2, <2>3 DEF TypeOK
<1>2. WayAhead'
  BY <1>a DEF WayAhead, Moving, Running, Settled, Go, Raise
<1>3. ASSUME ~HasPlanner PROVE ProvenInv'
  BY <1>3, <1>a DEF ProvenInv, WayAhead, Running, Settled, Go, Raise
<1>4. TokenInv'
  BY <1>a DEF TokenInv, WayAhead, Running, Settled, Go, Raise
<1>5. ASSUME cancels' = 0 PROVE QuietInv'
  <2> USE <1>5 DEF QuietInv
  <2>1. Alone'
    BY <1>a DEF Alone, Running, Settled, Go, Raise, OnTheWay, Legal
  <2>2. RowOK(cur)' /\ RowOK(com)'
    BY <1>a DEF RowOK, Alone, OnTheWay, Legal
  <2>3. PlanKept'
    BY <1>a DEF PlanKept, RowOK, Alone, Running, Settled, Go, Raise, OnTheWay, Legal
  <2>4. OnTheWay'
    BY <1>a
       DEF OnTheWay, PlanKept, BeginsIn, Legal, LegalPath, LeadsTo, Moving, Running,
           Settled, Go, Raise
  <2> QED BY <2>1, <2>2, <2>3, <2>4
<1> QED BY <1>1, <1>2, <1>3, <1>4, <1>5

LEMMA WriteInv == ASSUME Inv, Write PROVE Inv'
<1> USE DEF Inv, Write, api
<1>a. /\ Moving /\ path # <<>> /\ path \in Seq(TaskState) /\ Len(path) >= 1
      /\ Head(path) = path[1] /\ path[1] \in TaskState
  BY DEF Moving, WayAhead, TypeOK
<1>b. /\ cur' \in Rows /\ com' \in Rows
      /\ cur'.task = path[1] /\ cur'.ctx = cur.ctx
      /\ (com' = com /\ owner # "none") \/ com' = cur'
      /\ owner # "none" => com' = com
      /\ loaded' \in [Threads -> Contexts]
      /\ loaded'["worker"].plan = cur.ctx.plan /\ loaded'["worker"].result = cur.ctx.result
      /\ inside' = inside /\ owner' = owner
  BY <1>a, Wrote DEF Threads
<1>1. TypeOK'
  BY <1>a, <1>b DEF TypeOK, Phases, WorkerSteps, Terminal, Running, Settled
<1>2. WayAhead'
  BY <1>a, <1>b DEF WayAhead, Moving, Running, Settled
<1>3. ASSUME ~HasPlanner PROVE ProvenInv'
  BY <1>3, <1>a, <1>b DEF ProvenInv, WayAhead, Running, Settled
<1>4. TokenInv'
  BY <1>a, <1>b DEF TokenInv, WayAhead, Running, Settled
<1>5. ASSUME cancels' = 0 PROVE QuietInv'
  <2> USE <1>5 DEF QuietInv
  <2>1. Alone'
    BY <1>a, <1>b DEF Alone, Running, Settled
  <2>2. RowOK(cur)' /\ RowOK(com)'
    BY <1>a, <1>b DEF RowOK, Alone, OnTheWay, Legal, LegalPath, PlanKept
  <2>3. PlanKept'
    BY <1>a, <1>b DEF PlanKept, RowOK, Alone, Running, Settled
  <2>4. OnTheWay'
    BY <1>a, <1>b
       DEF OnTheWay, PlanKept, BeginsIn, Legal, LegalPath, LeadsTo, Moving, Running,
           Settled
  <2> QED BY <2>1, <2>2, <2>3, <2>4
<1> QED BY <1>1, <1>2, <1>3, <1>4, <1>5

LEMMA SaveInv == ASSUME Inv, Save PROVE Inv'
<1> USE DEF Inv, Save, api
<1>a. /\ Moving /\ path # <<>> /\ path \in Seq(TaskState) /\ Len(path) >= 1
      /\ Head(path) = path[1] /\ path[1] \in TaskState
  BY DEF Moving, WayAhead, TypeOK
<1>b. /\ cur' \in Rows /\ com' \in Rows
      /\ cur'.task = cur.task /\ cur'.ctx = loaded["worker"]
      /\ com' = com \/ com' = cur'
      /\ owner \in {"worker", "none"} => com' = cur'
      /\ inside' \in SUBSET Threads /\ owner' \in Threads \cup {"none"}
  BY LeftBlock DEF Threads
<1>c. /\ path' \in Seq(TaskState) /\ Len(path') = Len(path) - 1
      /\ \A i \in 1..Len(path') : path'[i] = path[i + 1]
      /\ (path' = <<>>) <=> (Len(path) = 1)
  <2>1. path' = Tail(path)
    OBVIOUS
  <2>2. /\ path' \in Seq(TaskState) /\ Len(path') = Len(path) - 1
        /\ \A i \in 1..Len(path') : path'[i] = path[i + 1]
    BY <1>a, <2>1, HeadTailProperties
  <2>3. (path' = <<>>) <=> (Len(path') = 0)
    <3> HIDE DEF Save
    <3> QED BY <2>2, EmptySeq
  <2> QED BY <1>a, <2>2, <2>3
<1>1. TypeOK'
  BY <1>a, <1>b, <1>c DEF TypeOK, Phases, WorkerSteps, Terminal, Running, Settled
<1>2. WayAhead'
  BY <1>a, <1>b, <1>c DEF WayAhead, Moving, Running, Settled
<1>3. ASSUME ~HasPlanner PROVE ProvenInv'
  BY <1>3, <1>a, <1>b, <1>c DEF ProvenInv, WayAhead, Running, Settled
<1>4. TokenInv'
  BY <1>a, <1>b, <1>c DEF TokenInv, WayAhead, Running, Settled
<1>5. ASSUME cancels' = 0 PROVE QuietInv'
  <2> USE <1>5 DEF QuietInv
  <2>1. Alone'
    BY <1>b DEF Alone, Running, Settled, SaveAndLeave
  <2>2. RowOK(cur)' /\ RowOK(com)'
    BY <1>a, <1>b, <1>c DEF RowOK, Alone
  <2>3. PlanKept'
    BY <1>a, <1>b, <1>c DEF PlanKept, RowOK, Alone, Running, Settled
  <2>4. OnTheWay'

    <3>1. Legal /\ cur.task = path[1] /\ cur'.ctx.plan = cur.ctx.plan
      BY <1>a, <1>b DEF OnTheWay, Legal, Alone
    <3>2. CASE Len(path) = 1
      BY <1>a, <1>b, <1>c, <3>1, <3>2 DEF OnTheWay, Moving, Legal, LegalPath, LeadsTo
    <3>3. CASE Len(path) # 1
      <4>1. step' = "enter" /\ Len(path') >= 1 /\ path'[Len(path')] = path[Len(path)]
        BY <1>a, <1>c, <3>3
      <4>2. IsValidTransition(cur'.task, path'[1])
        BY <1>a, <1>b, <1>c, <3>1, <3>3 DEF Legal, LegalPath
      <4>3. \A i \in 1..(Len(path') - 1) : IsValidTransition(path'[i], path'[i + 1])
        BY <1>a, <1>c, <3>1 DEF Legal, LegalPath
      <4>4. \A i \in 1..Len(path') : /\ path'[i] \in Carried => cur'.ctx.plan
                                     /\ cur'.ctx.plan => path'[i] \in Planned \cup Terminal
        BY <1>a, <1>c, <3>1 DEF Legal, LegalPath
      <4>5. LeadsTo(path[Len(path)])'
        BY <3>1, <4>1 DEF Legal, LegalPath, LeadsTo
      <4>6. LegalPath(path)'
        BY <4>3, <4>4, <4>5 DEF LegalPath
      <4> QED BY <4>1, <4>2, <4>6 DEF OnTheWay, Legal
    <3> QED BY <3>2, <3>3
  <2> QED BY <2>1, <2>2, <2>3, <2>4
<1> QED BY <1>1, <1>2, <1>3, <1>4, <1>5

LEMMA CancelEnterInv == ASSUME Inv, CancelEnter PROVE Inv'
<1> USE DEF Inv, CancelEnter, db, worker, EnterBlock
<1>1. TypeOK'

  <2>1. inside' \in SUBSET Threads /\ owner' \in Threads \cup {"none"}
    BY DEF TypeOK, Threads
  <2>2. capc' \in CancelSteps
    BY DEF CancelSteps
  <2>3. cur' = cur /\ com' = com
    OBVIOUS
  <2> QED BY <2>1, <2>2, <2>3 DEF TypeOK
<1>2. WayAhead'
  BY DEF WayAhead, Moving, Running, Settled
<1>3. ASSUME ~HasPlanner PROVE ProvenInv'
  BY <1>3 DEF ProvenInv, WayAhead, Running, Settled
<1>4. TokenInv'
  BY DEF TokenInv, WayAhead, Running, Settled
<1>5. cancels' # 0
  BY DEF QuietInv, Alone
<1> QED BY <1>1, <1>2, <1>3, <1>4, <1>5

LEMMA CancelWriteInv == ASSUME Inv, CancelWrite PROVE Inv'
<1> USE DEF Inv, CancelWrite, worker
<1>a. /\ cur' \in Rows /\ com' \in Rows /\ cur'.task = "CANCELLED"
      /\ com' = com \/ com' = cur'
      /\ loaded' \in [Threads -> Contexts]
      /\ inside' = inside /\ owner' = owner
  BY Wrote, TaskStates DEF Threads
<1>1. TypeOK'
  BY <1>a DEF TypeOK, Phases, WorkerSteps, Terminal, Running, Settled, CancelSteps
<1>2. WayAhead'

  BY <1>a DEF WayAhead, Moving, Running
<1>3. ASSUME ~HasPlanner PROVE ProvenInv'
  BY <1>3, <1>a DEF ProvenInv, WayAhead, Running, Settled
<1>4. TokenInv'
  BY <1>a DEF TokenInv, WayAhead, Running, Settled
<1>5. cancels' # 0
  BY DEF QuietInv, Alone
<1> QED BY <1>1, <1>2, <1>3, <1>4, <1>5

LEMMA CancelSaveInv == ASSUME Inv, CancelSave PROVE Inv'
<1> USE DEF Inv, CancelSave, worker
<1>a. /\ cur' \in Rows /\ com' \in Rows /\ cur'.task = cur.task
      /\ com' = com \/ com' = cur'
      /\ inside' \in SUBSET Threads /\ owner' \in Threads \cup {"none"}
  BY LeftBlock DEF Threads
<1>1. TypeOK'
  BY <1>a DEF TypeOK, Phases, WorkerSteps, Terminal, Running, Settled, CancelSteps
<1>2. WayAhead'
  BY <1>a DEF WayAhead, Moving, Running, Settled
<1>3. ASSUME ~HasPlanner PROVE ProvenInv'
  BY <1>3, <1>a DEF ProvenInv, WayAhead, Running, Settled
<1>4. TokenInv'
  BY <1>a DEF TokenInv, WayAhead, Running, Settled
<1>5. cancels' # 0
  BY DEF QuietInv, Alone
<1> QED BY <1>1, <1>2, <1>3, <1>4, <1>5

LEMMA DispatchInv == ASSUME Inv, Dispatch PROVE Inv'
<1> USE DEF Inv, Dispatch, api
<1>a. \/ phase' \in {"rejected", "queued"} /\ cur' = cur /\ com' = com
      \/ /\ phase' = "ended" /\ cur' \in Rows /\ com' = cur' /\ cur'.task = "FAILED"
         /\ cur'.ctx.result = "FAILED"
  <2>1. CASE phase' \in {"rejected", "queued"} /\ UNCHANGED <<cur, com>>
    BY <2>1
  <2> DEFINE c == [cur.ctx EXCEPT !.current = "FAILED", !.result = "FAILED"]
  <2>2. CASE phase' = "ended" /\ cur' = [task |-> "FAILED", ctx |-> c] /\ com' = cur'
    <3>1. c \in Contexts /\ c.result = "FAILED"
      BY RowFields, TaskStates DEF TypeOK, Contexts, Results
    <3> HIDE DEF c
    <3> QED BY <2>2, <3>1, FailedRow
  <2> QED BY <2>1, <2>2
<1>1. TypeOK'
  BY <1>a DEF TypeOK, Phases, WorkerSteps, Terminal, Running, Settled
<1>2. WayAhead'
  BY <1>a DEF WayAhead, Moving, Running, Settled
<1>3. ASSUME ~HasPlanner PROVE ProvenInv'
  BY <1>3, <1>a DEF ProvenInv, WayAhead, Running, Settled
<1>4. TokenInv'
  BY <1>a DEF TokenInv, WayAhead, Running, Settled
<1>5. ASSUME cancels' = 0 PROVE QuietInv'
  <2> USE <1>5 DEF QuietInv
  <2>1. Alone'
    BY <1>a DEF Alone, Running, Settled
  <2>2. RowOK(cur)' /\ RowOK(com)'
    BY <1>a DEF RowOK, Alone, Planned, Carried, Terminal
  <2>3. PlanKept'
    BY <1>a DEF PlanKept, RowOK, Alone, Running, Settled
  <2>4. OnTheWay'
    BY <1>a
       DEF OnTheWay, PlanKept, BeginsIn, Legal, LegalPath, LeadsTo, Moving, Running,
           Settled
  <2> QED BY <2>1, <2>2, <2>3, <2>4
<1> QED BY <1>1, <1>2, <1>3, <1>4, <1>5

LEMMA CrashInv == ASSUME Inv, Crash PROVE Inv'
<1> USE DEF Inv, Crash
<1>1. TypeOK'

  <2>1. restarts' \in 0..MaxRestarts
    BY TaskLifecycleAssumption DEF TypeOK
  <2>2. /\ phase' \in Phases /\ step' \in WorkerSteps /\ capc' \in CancelSteps
        /\ path' \in Seq(TaskState) /\ inside' \in SUBSET Threads
        /\ owner' \in Threads \cup {"none"}
    BY DEF Phases, WorkerSteps, CancelSteps
  <2>3. mem' \in Contexts
    BY NewContextType
  <2> QED BY <2>1, <2>2, <2>3 DEF TypeOK
<1>2. WayAhead'
  BY TaskLifecycleAssumption DEF WayAhead, Moving, Running, Settled, TypeOK
<1>3. ASSUME ~HasPlanner PROVE ProvenInv'
  BY <1>3 DEF ProvenInv, WayAhead, Running, Settled
<1>4. TokenInv'
  BY TaskLifecycleAssumption DEF TokenInv, WayAhead, Running, Settled, TypeOK
<1>5. ASSUME cancels' = 0 PROVE QuietInv'
  <2> USE <1>5 DEF QuietInv
  <2>1. Alone'
    BY DEF Alone, Running, Settled
  <2>2. RowOK(cur)' /\ RowOK(com)'
    BY DEF RowOK, Alone
  <2>3. PlanKept'
    BY DEF PlanKept, RowOK, Alone, Running, Settled
  <2>4. OnTheWay'
    BY DEF OnTheWay, PlanKept, BeginsIn, Legal, LegalPath, LeadsTo, Moving, Running,
           Settled
  <2> QED BY <2>1, <2>2, <2>3, <2>4
<1> QED BY <1>1, <1>2, <1>3, <1>4, <1>5

LEMMA RestartInv == ASSUME Inv, Restart PROVE Inv'
<1> USE DEF Inv, Restart, api
<1>a. \/ /\ cur' = cur /\ com' = com /\ cur.task \in Terminal
         /\ phase' = "ended" /\ resumed' = resumed
      \/ /\ cur' = cur /\ com' = com /\ cur.task \notin Terminal /\ cur.ctx.plan
         /\ phase' = "queued" /\ resumed' = TRUE
      \/ /\ phase' = "ended" /\ resumed' = resumed /\ cur.task \notin Terminal
         /\ cur' \in Rows /\ com' = cur' /\ cur'.task = "FAILED"
         /\ cur'.ctx.result = cur.ctx.result
  <2> DEFINE c == [cur.ctx EXCEPT !.current = "FAILED"]
  <2>1. c \in Contexts /\ c.result = cur.ctx.result
    BY RowFields, SetCurrent, TaskStates DEF TypeOK
  <2>2. CASE cur' = [task |-> "FAILED", ctx |-> c] /\ com' = cur' /\ cur.task \notin Terminal
             /\ phase' = "ended" /\ resumed' = resumed
    <3> HIDE DEF c
    <3> QED BY <2>1, <2>2, FailedRow
  <2>3. CASE cur.task \in Terminal /\ phase' = "ended" /\ UNCHANGED <<cur, com, resumed>>
    BY <2>3
  <2>4. CASE /\ cur.task \notin Terminal /\ cur.ctx.plan /\ phase' = "queued"
             /\ resumed' = TRUE /\ UNCHANGED <<cur, com>>
    BY <2>4
  <2> QED BY <2>2, <2>3, <2>4
<1>1. TypeOK'

  <2>1. cur' \in Rows /\ com' \in Rows
    BY <1>a DEF TypeOK
  <2>2. phase' \in Phases /\ resumed' \in BOOLEAN
    BY <1>a DEF TypeOK, Phases
  <2> QED BY <2>1, <2>2 DEF TypeOK
<1>2. WayAhead'
  BY <1>a DEF WayAhead, Moving, Running, Settled
<1>3. ASSUME ~HasPlanner PROVE ProvenInv'
  BY <1>3, <1>a DEF ProvenInv, WayAhead, Running, Settled, Terminal
<1>4. TokenInv'
  BY <1>a DEF TokenInv, WayAhead, Running, Settled
<1>5. ASSUME cancels' = 0 PROVE QuietInv'
  <2> USE <1>5 DEF QuietInv
  <2>1. Alone'
    BY <1>a DEF Alone, Running, Settled
  <2>2. RowOK(cur)' /\ RowOK(com)'
    BY <1>a DEF RowOK, Alone, Planned, Carried, Terminal
  <2>3. PlanKept'
    BY <1>a
       DEF PlanKept, RowOK, Alone, Running, Settled, Planned, Carried, Terminal,
           WayAhead
  <2>4. OnTheWay'
    BY <1>a
       DEF OnTheWay, PlanKept, BeginsIn, Legal, LegalPath, LeadsTo, Moving, Running,
           Settled
  <2> QED BY <2>1, <2>2, <2>3, <2>4
<1> QED BY <1>1, <1>2, <1>3, <1>4, <1>5

LEMMA InitInv == Init => Inv
<1> SUFFICES ASSUME Init PROVE Inv
  OBVIOUS
<1>1. /\ cur \in Rows /\ com = cur /\ cur.task = "CREATED"
      /\ cur.ctx.plan = FALSE /\ cur.ctx.result = "none"
  BY NewContextType, TaskStates DEF Init, Rows, NewContext
<1>2. TypeOK
  <2>1. /\ phase \in Phases /\ step \in WorkerSteps /\ capc \in CancelSteps
        /\ path \in Seq(TaskState) /\ inside \in SUBSET Threads
        /\ owner \in Threads \cup {"none"} /\ aim \in Terminal
    BY DEF Init, Phases, WorkerSteps, CancelSteps, Terminal
  <2>2. mem \in Contexts /\ loaded \in [Threads -> Contexts]
    BY NewContextType DEF Init
  <2>3. /\ cancels \in 0..MaxCancels /\ toolruns \in 0..MaxTools
        /\ restarts \in 0..MaxRestarts
    BY TaskLifecycleAssumption DEF Init
  <2> QED BY <1>1, <2>1, <2>2, <2>3 DEF Init, TypeOK
<1>3. WayAhead /\ ProvenInv /\ TokenInv
  BY <1>1 DEF Init, WayAhead, Moving, Running, Settled, ProvenInv, TokenInv
<1>4. QuietInv
  BY <1>1
     DEF Init, QuietInv, Alone, RowOK, PlanKept, OnTheWay, Moving, Running, Settled,
              Planned, Carried
<1> QED BY <1>2, <1>3, <1>4 DEF Inv

LEMMA NextInv == Inv /\ [Next]_vars => Inv'
<1> SUFFICES ASSUME Inv, [Next]_vars PROVE Inv'
  OBVIOUS
<1>1. CASE Worker
  BY <1>1, BeginInv, CheckInv, WalkInv, EnterInv, WriteInv, SaveInv, WorkEarlyInv,
     WorkPlanInv, ToolRunsInv, WorkExecuteInv, WorkVerifyInv, WorkRecoverInv,
     WorkSettleInv, WorkRaisesInv, WorkEndInv DEF Worker
<1>2. CASE Canceller
  BY <1>2, CancelReadInv, CancelEnterInv, CancelWriteInv, CancelSaveInv, CancelNotifyInv
     DEF Canceller
<1>3. CASE UNCHANGED vars
  BY <1>3 DEF vars, db, worker, api, Inv, TypeOK, WayAhead, Moving, Running, ProvenInv,
              TokenInv, QuietInv, Alone, RowOK, PlanKept, OnTheWay, BeginsIn, Legal,
              LegalPath, LeadsTo
<1> QED BY <1>1, <1>2, <1>3, DispatchInv, CrashInv, RestartInv DEF Next

LEMMA Invariant == Spec => []Inv
BY InitInv, NextInv, PTL DEF Spec

-----------------------------------------------------------------------------
(* A crash between any two saves leaves rows a restart can go on from, and   *)
(* the transitions the worker asks for from there are never refused, as long *)
(* as nobody cancels (TaskManager.transition, _walk_to, the restart loop of  *)
(* build_stack).                                                             *)
THEOREM CrashIsSafe == Spec => []CrashSafe
<1>1. Inv => ResumableAfterCrash
  BY DEF Inv, QuietInv, RowOK, ResumableAfterCrash, Carried, Planned
<1>2. Inv => NeverRefused
  <2> SUFFICES ASSUME Inv, Running, step = "enter", cancels = 0
               PROVE  IsValidTransition(cur.task, Head(path))
    BY DEF NeverRefused
  <2>1. Moving /\ path # <<>> /\ path \in Seq(TaskState)
    BY DEF Inv, Moving, WayAhead, TypeOK
  <2>2. Head(path) = path[1]
    BY <2>1
  <2> QED BY <2>1, <2>2 DEF Inv, QuietInv, OnTheWay, Legal
<1> QED BY <1>1, <1>2, Invariant, PTL DEF CrashSafe, Inv

(* A result that says COMPLETED is stored only for a COMPLETED task, and a   *)
(* worker that built its agent has stored one at the end, unless a cancel    *)
(* request came in (_complete, _fail, dispatch), with or without a planner.  *)
THEOREM ResultIsTruthful == Spec => []ResultTruthful
<1>1. Inv => ResultTruthful
  BY DEF Inv, QuietInv, RowOK, PlanKept, ResultTruthful
<1> QED BY <1>1, Invariant, PTL

(* Without a recovery planner, as in serve.py, a task is durably COMPLETED   *)
(* only if one execution completed and passed its verification, also when    *)
(* cancel requests and crashes interfere (_recover_if_needed, _complete).    *)
THEOREM OutcomeIsTruthful == ASSUME ~HasPlanner PROVE Spec => []OutcomeTruthful
<1>1. Inv => CompletedIsProven
  BY DEF Inv, ProvenInv, CompletedIsProven
<1> QED BY <1>1, ResultIsTruthful, Invariant, PTL DEF OutcomeTruthful

(* Once a cancel request was answered, and before a restart, no tool call of *)
(* the plan passes its last look at the token, and the worker enters no      *)
(* phase that starts tools without one (cancel_task, on_cancel,              *)
(* _check_cancelled, execute_graph).                                         *)
THEOREM CancelIsEffective == Spec => CancelStopsTools
<1> DEFINE A == (acked /\ restarts = 0) => /\ toolruns' = toolruns
                                           /\ Unguarded' => Unguarded /\ phase' = phase
<1>1. ASSUME Inv, [Next]_vars
      PROVE  [A]_vars
  <2> SUFFICES ASSUME acked, restarts = 0
               PROVE  /\ toolruns' = toolruns
                      /\ Unguarded' => Unguarded /\ phase' = phase
    OBVIOUS
  <2>1. ~resumed /\ (token \/ phase \in {"ended", "dropped"})
    BY <1>1 DEF Inv, TokenInv
  <2>2. \/ Dispatch \/ Worker \/ Canceller \/ Crash \/ Restart \/ UNCHANGED vars
    BY <1>1 DEF Next
  <2>3. CASE Begin \/ Check
    BY <2>1, <2>3 DEF Begin, Check, Unguarded, Stopped, Raise, Go, Running, Settled
  <2>4. CASE Walk \/ Enter \/ Write \/ Save
    BY <2>4 DEF Walk, Enter, Write, Save, Unguarded, Raise, Go
  <2>5. CASE WorkEarly \/ WorkPlan \/ ToolRuns \/ WorkExecute \/ WorkVerify
    BY <2>1, <2>5 DEF WorkEarly, WorkPlan, ToolRuns, WorkExecute, WorkVerify,
                      Unguarded, Stopped, Go
  <2>6. CASE WorkRecover \/ WorkSettle \/ WorkRaises \/ WorkEnd
    BY <2>6 DEF WorkRecover, WorkSettle, WorkRaises, WorkEnd, Unguarded, Raise, Go
  <2>7. CASE Canceller
    BY <2>7 DEF Canceller, CancelRead, CancelEnter, CancelWrite, CancelSave,
                CancelNotify, Unguarded, worker
  <2>8. CASE Dispatch \/ Crash \/ Restart \/ UNCHANGED vars
    BY <2>8 DEF Dispatch, Crash, Restart, vars, worker, Unguarded
  <2> QED BY <2>2, <2>3, <2>4, <2>5, <2>6, <2>7, <2>8 DEF Worker
<1> QED BY <1>1, Invariant, PTL DEF Spec, CancelStopsTools
=============================================================================
