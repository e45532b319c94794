--------------------------- MODULE ExecutorProofs ---------------------------
(***************************************************************************)
(* Proofs about Executor for any number of steps, any acyclic plan, any    *)
(* pool size, any number of tools and any number of restarts, and about    *)
(* Planning for any drafts and bounds.                                     *)
(***************************************************************************)
EXTENDS Executor, Planning, FiniteSetTheorems, SequenceTheorems, WellFoundedInduction, TLAPS

(* A pool thread inside a tool still has that tool to account for. *)
CallingHasTool == \A s \in Steps : work[s] = "calling" => left[s] > 0

(* in_flight and the RUNNING nodes are the same steps. *)
FlightIsRunning == inflight = {s \in Steps : state[s] = "RUNNING"}

(* A pool thread exists only for a step in flight. *)
WorkInFlight == \A s \in Steps : work[s] # "none" => s \in inflight

(* What the snapshot shows as succeeded has succeeded in memory too, unless  *)
(* the process is down.                                                      *)
SavedSucceeded ==
    pc # "down" => \A s \in Steps :
        saved.state[s] = "SUCCEEDED" => state[s] = "SUCCEEDED"

(* The loop is left only when nothing is pending or running. *)
FinishSettled == pc \in {"finish", "done"} => Done(state)

(* A process that is down has nothing in flight and forgot what it gathered. *)
DownIsIdle == pc = "down" => inflight = {} /\ gathered = {}

(* A failure in the graph has raised the halt once a step was gathered. *)
FailureHalts ==
    (failFast /\ gathered # {} /\ \E s \in Steps : state[s] \in FailedStates)
        => halting

PoolNotOverfull == Cardinality(inflight) <= MaxConcurrency

(* The inductive invariant. *)
Inv ==
    /\ TypeOK
    /\ CallingHasTool
    /\ FlightIsRunning
    /\ WorkInFlight
    /\ SavedSucceeded
    /\ FinishSettled
    /\ DownIsIdle
    /\ FailureHalts
    /\ PoolNotOverfull
    /\ DependencyOrder

-----------------------------------------------------------------------------
(* Facts about the operators the scheduler is built from. *)

(* The least-number principle, by descent. *)
LEMMA LeastNumber ==
    ASSUME NEW T \in SUBSET Nat, T # {}
    PROVE  \E x \in T : \A y \in T : x <= y
<1> DEFINE R == {ss \in Nat \X Nat : ss[1] < ss[2]}
<1>1. IsWellFoundedOn(R, Nat)
  BY NatLessThanWellFounded, Zenon DEF OpToRel
<1>2. PICK x \in T : \A y \in T : ~(<<y, x>> \in R)
  <2> HIDE DEF R
  <2> QED BY <1>1, WFMin
<1>3. ASSUME NEW y \in T PROVE x <= y
  <2>1. x \in Nat /\ y \in Nat /\ <<y, x>> \in Nat \X Nat
    OBVIOUS
  <2>2. ~(y < x)
    BY <1>2, <2>1
  <2> QED BY <2>1, <2>2
<1> QED BY <1>3

(* A non-empty set of steps has a last one in plan order. *)
LEMMA LastStep ==
    ASSUME NEW S \in SUBSET Steps, S # {}
    PROVE  \E m \in S : \A s \in S : s <= m
<1> DEFINE T == {N - s : s \in S}
<1>0. \A s \in S : s \in Int /\ N - s \in Nat
  BY ExecutorAssumption DEF Steps
<1>1. T \subseteq Nat /\ T # {}
  BY <1>0
<1>4. PICK x \in T : \A y \in T : x <= y
  <2> HIDE DEF T
  <2> QED BY <1>1, LeastNumber
<1>5. PICK m \in S : x = N - m
  OBVIOUS
<1>6. \A s \in S : s <= m
  <2> SUFFICES ASSUME NEW s \in S PROVE s <= m
    OBVIOUS
  <2>1. N - s \in T
    OBVIOUS
  <2>2. N - m <= N - s
    BY <1>4, <1>5, <2>1
  <2> QED BY <2>2, ExecutorAssumption DEF Steps
<1> QED BY <1>6

LEMMA StepsFinite ==
    ASSUME NEW S \in SUBSET Steps
    PROVE  IsFiniteSet(S) /\ Cardinality(S) \in Nat
<1>1. IsFiniteSet(Steps)
  BY FS_Interval, ExecutorAssumption DEF Steps
<1>2. IsFiniteSet(S)
  BY <1>1, FS_Subset
<1> QED BY <1>2, FS_CardinalityType

(* _submit_ready never overfills the pool: the last step it starts was       *)
(* admitted with all the earlier ones counted.                               *)
LEMMA SubmitRespectsPool ==
    ASSUME inflight \in SUBSET Steps, Cardinality(inflight) <= MaxConcurrency
    PROVE  Cardinality(inflight \cup Startable) <= MaxConcurrency
<1>0. Ready \in SUBSET Steps /\ Startable \in SUBSET Ready
  BY DEF Ready, Startable
<1>1. CASE Startable = {}
  BY <1>1
<1>2. CASE Startable # {}
  <2>1. PICK m \in Startable : \A s \in Startable : s <= m
    BY <1>0, <1>2, LastStep
  <2> DEFINE Below == {r \in Ready : r < m}
  <2>2. /\ Below \in SUBSET Steps
        /\ Startable \in SUBSET (Below \cup {m})
    <3>1. Below \in SUBSET Steps
      BY <1>0
    <3>2. \A s \in Startable : s \in Ready /\ s \in Int /\ m \in Int
      BY <1>0, <2>1, ExecutorAssumption DEF Steps
    <3>3. \A s \in Startable : s \in Below \/ s = m
      BY <2>1, <3>2
    <3> QED BY <3>1, <3>3
  <2>3. Cardinality(Below) + Cardinality(inflight) < MaxConcurrency
    BY <2>1 DEF Startable
  <2> HIDE DEF Below
  <2>4. /\ IsFiniteSet(Below) /\ Cardinality(Below) \in Nat
        /\ IsFiniteSet(inflight) /\ Cardinality(inflight) \in Nat
    BY <2>2, StepsFinite
  <2>5. /\ IsFiniteSet(Below \cup {m})
        /\ Cardinality(Below \cup {m}) <= Cardinality(Below) + 1
    <3>1. /\ IsFiniteSet(Below \cup {m})
          /\ Cardinality(Below \cup {m})
                = IF m \in Below THEN Cardinality(Below) ELSE Cardinality(Below) + 1
      BY <2>4, FS_AddElement, Zenon
    <3> QED BY <2>4, <3>1
  <2>6. /\ IsFiniteSet(Startable)
        /\ Cardinality(Startable) <= Cardinality(Below \cup {m})
    BY <2>2, <2>5, FS_Subset
  <2>7. Cardinality(Startable) \in Nat /\ Cardinality(Below \cup {m}) \in Nat
    BY <2>5, <2>6, FS_CardinalityType
  <2>8. Cardinality(inflight \cup Startable)
            = Cardinality(inflight) + Cardinality(Startable)
              - Cardinality(inflight \cap Startable)
    BY <2>4, <2>6, FS_Union
  <2>9. Cardinality(inflight \cap Startable) \in Nat
    BY <1>0, StepsFinite
  <2> QED BY <2>3, <2>4, <2>5, <2>6, <2>7, <2>8, <2>9, ExecutorAssumption
<1> QED BY <1>1, <1>2

-----------------------------------------------------------------------------
(* The invariant holds initially and is kept by every action. *)

LEMMA InitInv == Init => Inv
<1> SUFFICES ASSUME Init PROVE Inv
  OBVIOUS
<1>1. TypeOK
  <2>1. /\ NewGraph \in [Steps -> StepState]
        /\ NotInterrupted \in [Steps -> BOOLEAN]
        /\ NoWork \in [Steps -> WorkState]
    BY DEF NewGraph, NotInterrupted, NoWork, StepState, WorkState
  <2>2. left \in [Steps -> 0..MaxTools] /\ restarts \in 0..MaxRestarts
    BY ExecutorAssumption DEF Init
  <2> QED BY <2>1, <2>2 DEF Init, TypeOK, Places, Outcomes
<1>2. PoolNotOverfull
  BY FS_EmptySet, ExecutorAssumption DEF Init, PoolNotOverfull
<1>3. /\ CallingHasTool /\ FlightIsRunning /\ WorkInFlight /\ SavedSucceeded
      /\ FinishSettled /\ DownIsIdle /\ FailureHalts /\ DependencyOrder
  BY DEF Init, NewGraph, NoWork, CallingHasTool, FlightIsRunning, WorkInFlight,
         SavedSucceeded, FinishSettled, DownIsIdle, FailureHalts, FailedStates,
         DependencyOrder, Started
<1> QED BY <1>1, <1>2, <1>3 DEF Inv

LEMMA StartGraphInv == Inv /\ StartGraph => Inv'
<1> SUFFICES ASSUME Inv, StartGraph PROVE Inv'
  OBVIOUS
<1> USE DEF Inv, StartGraph, plan, graphVars, runVars, Snapshot
<1>1. TypeOK'
  BY DEF TypeOK, Places, Outcomes
<1>2. /\ CallingHasTool' /\ FlightIsRunning' /\ WorkInFlight' /\ SavedSucceeded'
      /\ FinishSettled' /\ DownIsIdle' /\ FailureHalts' /\ PoolNotOverfull'
  BY DEF CallingHasTool, FlightIsRunning, WorkInFlight, SavedSucceeded,
         FinishSettled, DownIsIdle, FailureHalts, PoolNotOverfull
<1>3. DependencyOrder'
  BY DEF DependencyOrder
<1> QED BY <1>1, <1>2, <1>3

(* Retiring unstarted steps as cancelled or skipped keeps what succeeded,    *)
(* what runs and what failed as it was.                                      *)
LEMMA RetireKeeps ==
    ASSUME NEW st \in [Steps -> StepState], NEW S,
           NEW to \in {"CANCELLED", "SKIPPED"}
    PROVE  /\ Retire(st, S, to) \in [Steps -> StepState]
           /\ \A s \in Steps :
                 /\ Retire(st, S, to)[s] \in Started => st[s] = Retire(st, S, to)[s]
                 /\ st[s] # "PENDING" => Retire(st, S, to)[s] = st[s]
BY DEF Retire, Started, StepState, TerminalStepStates, NonSuccessTerminal, FailedStates

LEMMA LoopHeadInv == Inv /\ LoopHead => Inv'
<1> SUFFICES ASSUME Inv, LoopHead PROVE Inv'
  OBVIOUS
<1> USE DEF Inv, LoopHead, plan, runVars
<1>1. /\ state' \in [Steps -> StepState]
      /\ \A s \in Steps : /\ state'[s] \in Started => state[s] = state'[s]
                          /\ state[s] # "PENDING" => state'[s] = state[s]
  BY RetireKeeps DEF TypeOK
<1>2. TypeOK'
  BY <1>1 DEF TypeOK, Places
<1>3. /\ CallingHasTool' /\ WorkInFlight' /\ FinishSettled' /\ DownIsIdle'
      /\ PoolNotOverfull'
  BY DEF CallingHasTool, WorkInFlight, FinishSettled, DownIsIdle, PoolNotOverfull, Done
<1>4. FlightIsRunning' /\ SavedSucceeded' /\ FailureHalts' /\ DependencyOrder'
  BY <1>1 DEF FlightIsRunning, SavedSucceeded, FailureHalts, DependencyOrder,
              Started, FailedStates, TypeOK
<1> QED BY <1>2, <1>3, <1>4

LEMMA SubmitInv == Inv /\ Submit => Inv'
<1> SUFFICES ASSUME Inv, Submit PROVE Inv'
  OBVIOUS
<1> USE DEF Inv, plan
<1> DEFINE go == IF stop \/ halting THEN {} ELSE Startable
<1>1. /\ go \in SUBSET Steps
      /\ \A s \in go : /\ state[s] = "PENDING"
                       /\ \A d \in deps[s] : state[d] = "SUCCEEDED"
  BY DEF Startable, Ready
<1>2. halting => go = {}
  OBVIOUS
<1>3. /\ state' = [s \in Steps |-> IF s \in go THEN "RUNNING" ELSE state[s]]
      /\ work' = [s \in Steps |-> IF s \in go THEN "before" ELSE work[s]]
      /\ left' = [s \in Steps |-> IF s \in go THEN tools[s] ELSE left[s]]
      /\ inflight' = inflight \cup go
      /\ expired' = expired \ go
      /\ pc' = "flight"
      /\ UNCHANGED <<deps, tools, failFast, interrupted, stop, halting, gathered, outcome, saved,
                     restarts>>
  BY DEF Submit
<1>4. PoolNotOverfull'
  <2>1. Cardinality(inflight \cup Startable) <= MaxConcurrency
    BY SubmitRespectsPool DEF TypeOK, PoolNotOverfull
  <2> QED BY <1>3, <2>1 DEF PoolNotOverfull
<1> HIDE DEF go
<1>5. TypeOK'
  BY <1>1, <1>3 DEF TypeOK, Places, StepState, WorkState
<1>6. CallingHasTool' /\ WorkInFlight' /\ FinishSettled' /\ DownIsIdle'
  BY <1>1, <1>3 DEF CallingHasTool, WorkInFlight, FinishSettled, DownIsIdle, TypeOK
<1>7. FlightIsRunning' /\ SavedSucceeded' /\ FailureHalts'
  BY <1>1, <1>3 DEF FlightIsRunning, SavedSucceeded, FailureHalts, FailedStates,
                    TypeOK, Submit
<1>8. DependencyOrder'
  BY <1>1, <1>3 DEF DependencyOrder, TypeOK, Started, FailedStates
<1> QED BY <1>4, <1>5, <1>6, <1>7, <1>8

LEMMA DrainInv == Inv /\ Drain => Inv'
<1> SUFFICES ASSUME Inv, Drain PROVE Inv'
  OBVIOUS
<1> USE DEF Inv, Drain, plan, runVars, Snapshot
<1>1. /\ state' \in [Steps -> StepState]
      /\ \A s \in Steps : /\ state'[s] \in Started => state[s] = state'[s]
                          /\ state[s] # "PENDING" => state'[s] = state[s]
  BY RetireKeeps DEF TypeOK
<1>2. TypeOK'
  BY <1>1 DEF TypeOK, Places, Outcomes
<1>3. CallingHasTool' /\ WorkInFlight' /\ DownIsIdle' /\ PoolNotOverfull'
  BY DEF CallingHasTool, WorkInFlight, DownIsIdle, PoolNotOverfull
<1>4. FinishSettled'
  <2> SUFFICES ASSUME pc' \in {"finish", "done"} PROVE Done(state)'
    BY DEF FinishSettled
  <2>1. state' = state /\ \A s \in Steps : state[s] # "PENDING"
    OBVIOUS
  <2>2. \A s \in Steps : state[s] # "RUNNING"
    BY DEF FlightIsRunning
  <2> QED BY <2>1, <2>2 DEF Done, TypeOK, StepState
<1>5. FlightIsRunning' /\ SavedSucceeded' /\ FailureHalts' /\ DependencyOrder'
  BY <1>1 DEF FlightIsRunning, SavedSucceeded, FailureHalts, DependencyOrder,
              Started, FailedStates, TypeOK
<1> QED BY <1>2, <1>3, <1>4, <1>5

LEMMA AwaitWorkInv == Inv /\ AwaitWork => Inv'
BY DEF Inv, AwaitWork, plan, graphVars, runVars, TypeOK, Places, CallingHasTool,
       FlightIsRunning, WorkInFlight, SavedSucceeded, FinishSettled, DownIsIdle,
       FailureHalts, PoolNotOverfull, DependencyOrder

LEMMA CollectInv == Inv /\ Collect => Inv'
<1> SUFFICES ASSUME Inv, Collect PROVE Inv'
  OBVIOUS
<1> USE DEF Inv, plan
<1> DEFINE done == {s \in inflight : work[s] \in {"ok", "bad"}}
           seen == [s \in Steps |-> IF s \in done THEN Collected(s) ELSE state[s]]
<1>1. /\ inflight' = inflight \ done
      /\ gathered' = gathered \cup done
      /\ work' = [s \in Steps |-> IF s \in done THEN "none" ELSE work[s]]
      /\ state' = Retire(seen, Unsatisfiable(seen), "SKIPPED")
      /\ halting' = (halting \/ (failFast /\ FirstFailure(state')))
      /\ \/ saved' = Snapshot(state') /\ pc' = "loop" /\ UNCHANGED outcome
         \/ UNCHANGED saved /\ pc' = "aborted" /\ outcome' = "RAISED"
      /\ UNCHANGED <<deps, tools, failFast, interrupted, left, expired, stop, restarts>>
  BY DEF Collect
<1>2. /\ done \in SUBSET inflight
      /\ \A s \in inflight : s \in Steps /\ state[s] = "RUNNING"
  BY DEF FlightIsRunning
<1>3. \A s \in Steps : Collected(s) \in FailedStates \cup {"SUCCEEDED"}
  BY DEF Collected, FailedStates
<1>4. seen \in [Steps -> StepState]
  BY <1>3 DEF StepState, TerminalStepStates, NonSuccessTerminal, TypeOK
<1> HIDE DEF done
<1>5. \A s \in Steps : /\ s \in done => seen[s] \in FailedStates \cup {"SUCCEEDED"}
                       /\ s \notin done => seen[s] = state[s]
  BY <1>3
<1> HIDE DEF seen
<1>6. /\ state' \in [Steps -> StepState]
      /\ \A s \in Steps : /\ state'[s] \in Started => seen[s] = state'[s]
                          /\ seen[s] # "PENDING" => state'[s] = seen[s]
  BY <1>1, <1>4, RetireKeeps
<1>7. TypeOK'
  <2>1. halting' \in BOOLEAN
    BY <1>1
  <2>2. Snapshot(state') \in [state : [Steps -> StepState],
                              interrupted : [Steps -> BOOLEAN]]
    BY <1>6 DEF TypeOK, Snapshot
  <2> QED BY <1>1, <1>2, <1>6, <2>1, <2>2 DEF TypeOK, WorkState, Places, Outcomes
<1>8. CallingHasTool' /\ WorkInFlight' /\ FinishSettled' /\ DownIsIdle'
  BY <1>1 DEF CallingHasTool, WorkInFlight, FinishSettled, DownIsIdle, TypeOK
<1>9. PoolNotOverfull'
  <2>1. /\ IsFiniteSet(inflight) /\ Cardinality(inflight) \in Nat
        /\ Cardinality(inflight') \in Nat /\ inflight' \in SUBSET inflight
    BY <1>1, <1>7, StepsFinite DEF TypeOK
  <2>2. Cardinality(inflight') <= Cardinality(inflight)
    BY <2>1, FS_Subset
  <2> QED BY <2>1, <2>2, ExecutorAssumption DEF PoolNotOverfull
<1>10. FlightIsRunning'
  <2>1. \A s \in Steps : state'[s] = "RUNNING" <=> seen[s] = "RUNNING"
    BY <1>6 DEF Started
  <2>2. \A s \in Steps : seen[s] = "RUNNING" <=> (s \notin done /\ state[s] = "RUNNING")
    BY <1>5 DEF FailedStates
  <2> QED BY <1>1, <2>1, <2>2 DEF FlightIsRunning
<1>11. SavedSucceeded'
  <2>1. \A s \in Steps : state[s] = "SUCCEEDED" => state'[s] = "SUCCEEDED"
    BY <1>2, <1>5, <1>6
  <2>2. pc # "down"
    BY DEF Collect
  <2> QED BY <1>1, <2>1, <2>2 DEF SavedSucceeded, Snapshot
<1>12. FailureHalts'
  BY <1>1 DEF FailureHalts, FirstFailure
<1>13. DependencyOrder'
  <2>1. ASSUME NEW s \in Steps, NEW d \in deps[s], state'[s] \in Started
        PROVE  state'[d] = "SUCCEEDED"
    <3>1. d \in Steps
      BY DEF TypeOK
    <3>2. state[s] \in Started
      BY <1>2, <1>5, <1>6, <2>1 DEF Started
    <3>3. state[d] = "SUCCEEDED"
      BY <3>2 DEF DependencyOrder
    <3> QED BY <1>2, <1>5, <1>6, <3>1, <3>3
  <2> QED BY <1>1, <2>1 DEF DependencyOrder, Snapshot
<1> QED BY <1>7, <1>8, <1>9, <1>10, <1>11, <1>12, <1>13

LEMMA FinishInv == Inv /\ Finish => Inv'
<1> SUFFICES ASSUME Inv, Finish PROVE Inv'
  OBVIOUS
<1> USE DEF Inv, Finish, plan, graphVars, runVars, Snapshot
<1>1. TypeOK'
  BY DEF TypeOK, Places, Outcomes
<1>2. /\ CallingHasTool' /\ FlightIsRunning' /\ WorkInFlight' /\ SavedSucceeded'
      /\ FinishSettled' /\ DownIsIdle' /\ FailureHalts' /\ PoolNotOverfull'
  BY DEF CallingHasTool, FlightIsRunning, WorkInFlight, SavedSucceeded,
         FinishSettled, DownIsIdle, FailureHalts, PoolNotOverfull, Done
<1>3. DependencyOrder'
  BY DEF DependencyOrder
<1> QED BY <1>1, <1>2, <1>3

(* A pool thread touches nothing of the graph. *)
LEMMA WorkerInv == ASSUME NEW s \in Steps PROVE Inv /\ Worker(s) => Inv'
<1> SUFFICES ASSUME Inv, Worker(s) PROVE Inv'
  OBVIOUS
<1> USE DEF Inv
<1>1. /\ work[s] # "none" /\ work[s] \in WorkState
      /\ work' \in [Steps -> WorkState]
      /\ \A t \in Steps : t # s => work'[t] = work[t] /\ left'[t] = left[t]
      /\ work'[s] = "calling" => left'[s] > 0
      /\ left' \in [Steps -> 0..MaxTools]
  <2>1. CASE WorkerCheck(s)
    BY <2>1 DEF WorkerCheck, TypeOK, WorkState
  <2>2. CASE WorkerReturn(s)
    <3>1. left[s] > 0 /\ left[s] \in 0..MaxTools
      BY <2>2 DEF WorkerReturn, CallingHasTool, TypeOK
    <3>2. left[s] - 1 \in 0..MaxTools
      BY <3>1, ExecutorAssumption
    <3> QED BY <2>2, <3>2 DEF WorkerReturn, TypeOK, WorkState
  <2>3. CASE WorkerEnd(s)
    BY <2>3 DEF WorkerEnd, TypeOK, WorkState
  <2> QED BY <2>1, <2>2, <2>3 DEF Worker
<1>2. UNCHANGED <<deps, tools, failFast, state, interrupted, inflight, expired, stop,
                  halting, gathered, pc, outcome, saved, restarts>>
  BY DEF Worker, WorkerCheck, WorkerReturn, WorkerEnd, plan, graphVars
<1>3. TypeOK'
  BY <1>1, <1>2 DEF TypeOK
<1>4. CallingHasTool' /\ WorkInFlight'
  BY <1>1, <1>2 DEF CallingHasTool, WorkInFlight
<1>5. /\ FlightIsRunning' /\ SavedSucceeded' /\ FinishSettled' /\ DownIsIdle'
      /\ FailureHalts' /\ PoolNotOverfull' /\ DependencyOrder'
  BY <1>2 DEF FlightIsRunning, SavedSucceeded, FinishSettled, DownIsIdle,
              FailureHalts, PoolNotOverfull, DependencyOrder, Done
<1> QED BY <1>3, <1>4, <1>5

LEMMA CancelInv == Inv /\ Cancel => Inv'
BY DEF Inv, Cancel, plan, graphVars, TypeOK, CallingHasTool, FlightIsRunning,
       WorkInFlight, SavedSucceeded, FinishSettled, DownIsIdle, FailureHalts,
       PoolNotOverfull, DependencyOrder, Done

LEMMA DeadlinePassesInv ==
    ASSUME NEW s \in Steps PROVE Inv /\ DeadlinePasses(s) => Inv'
BY DEF Inv, DeadlinePasses, plan, graphVars, TypeOK, CallingHasTool, FlightIsRunning,
       WorkInFlight, SavedSucceeded, FinishSettled, DownIsIdle, FailureHalts,
       PoolNotOverfull, DependencyOrder, Done

LEMMA CrashInv == Inv /\ Crash => Inv'
<1> SUFFICES ASSUME Inv, Crash PROVE Inv'
  OBVIOUS
<1> USE DEF Inv, Crash, plan, NewGraph, NoWork, NotInterrupted
<1>0. restarts \in Nat /\ restarts' = restarts + 1
  BY DEF TypeOK
<1>1. TypeOK'
  <2>1. restarts' \in 0..MaxRestarts
    BY ExecutorAssumption DEF TypeOK
  <2>2. left' \in [Steps -> 0..MaxTools]
    BY ExecutorAssumption
  <2>3. /\ state' \in [Steps -> StepState] /\ interrupted' \in [Steps -> BOOLEAN]
        /\ work' \in [Steps -> WorkState]
    BY DEF StepState, WorkState
  <2> QED BY <2>1, <2>2, <2>3 DEF TypeOK, Places
<1>2. /\ CallingHasTool' /\ FlightIsRunning' /\ WorkInFlight' /\ SavedSucceeded'
      /\ FinishSettled' /\ DownIsIdle' /\ FailureHalts'
  BY <1>0 DEF CallingHasTool, FlightIsRunning, WorkInFlight, SavedSucceeded,
              FinishSettled, DownIsIdle, FailureHalts, FailedStates
<1>3. PoolNotOverfull'
  BY FS_EmptySet, ExecutorAssumption DEF PoolNotOverfull
<1>4. DependencyOrder'
  BY DEF DependencyOrder, Started, FailedStates
<1> QED BY <1>1, <1>2, <1>3, <1>4

LEMMA RestoreInv == Inv /\ Restore => Inv'
<1> SUFFICES ASSUME Inv, Restore PROVE Inv'
  OBVIOUS
<1> USE DEF Inv, Restore, plan, runVars
<1>1. saved.state \in [Steps -> StepState] /\ saved.interrupted \in [Steps -> BOOLEAN]
  BY DEF TypeOK
<1>2. TypeOK'
  <2>1. state' \in [Steps -> StepState] /\ interrupted' \in [Steps -> BOOLEAN]
    BY <1>1 DEF StepState
  <2> QED BY <2>1 DEF TypeOK, Places
<1>3. /\ CallingHasTool' /\ FlightIsRunning' /\ WorkInFlight' /\ SavedSucceeded'
      /\ FinishSettled' /\ DownIsIdle' /\ PoolNotOverfull' /\ FailureHalts'
  BY <1>1 DEF CallingHasTool, FlightIsRunning, WorkInFlight, SavedSucceeded,
              FinishSettled, DownIsIdle, PoolNotOverfull, FailureHalts
<1>4. DependencyOrder'
  BY <1>1 DEF DependencyOrder, Started, FailedStates, TypeOK
<1> QED BY <1>2, <1>3, <1>4

LEMMA NextInv == Inv /\ [Next]_vars => Inv'
<1> SUFFICES ASSUME Inv, [Next]_vars PROVE Inv'
  OBVIOUS
<1>1. CASE Coordinator
  BY <1>1, StartGraphInv, LoopHeadInv, SubmitInv, DrainInv, AwaitWorkInv,
     CollectInv, FinishInv DEF Coordinator
<1>2. CASE \E s \in Steps : Worker(s) \/ DeadlinePasses(s)
  BY <1>2, WorkerInv, DeadlinePassesInv
<1>3. CASE Cancel \/ Crash \/ Restore
  BY <1>3, CancelInv, CrashInv, RestoreInv
<1>4. CASE UNCHANGED vars
  BY <1>4 DEF vars, Inv, TypeOK, CallingHasTool, FlightIsRunning, WorkInFlight,
              SavedSucceeded, FinishSettled, DownIsIdle, FailureHalts,
              PoolNotOverfull, DependencyOrder, Done
<1> QED BY <1>1, <1>2, <1>3, <1>4 DEF Next

LEMMA Invariance == Spec => []Inv
BY InitInv, NextInv, PTL DEF Spec

-----------------------------------------------------------------------------
(* Every variable of the executor keeps its type; in particular a pool       *)
(* thread never runs out of its step's tools (the counter stays natural).    *)
THEOREM TypeCorrect == Spec => []TypeOK
<1>1. Inv => TypeOK
  BY DEF Inv
<1> QED BY <1>1, Invariance, PTL

(* A step is started only after all its dependencies succeeded, in memory    *)
(* and in the snapshot, for every plan and across any number of crashes of   *)
(* execute_graph.                                                            *)
THEOREM DependenciesFirst == Spec => []DependencyOrder
<1>1. Inv => DependencyOrder
  BY DEF Inv
<1> QED BY <1>1, Invariance, PTL

(* in_flight is exactly the RUNNING nodes and never exceeds max_concurrency. *)
THEOREM PoolBounded == Spec => []PoolBound
<1>1. Inv => PoolBound
  BY DEF Inv, PoolBound, PoolNotOverfull, FlightIsRunning
<1> QED BY <1>1, Invariance, PTL

(* execute_graph returns only with every step settled and no pool thread at  *)
(* work, whichever way it left its loop.                                     *)
THEOREM SettledOnReturn == Spec => []ReturnsSettled
<1>1. Inv => ReturnsSettled
  <2> SUFFICES ASSUME Inv, pc = "done"
               PROVE  Done(state) /\ \A s \in Steps : work[s] = "none"
    BY DEF ReturnsSettled
  <2>1. Done(state)
    BY DEF Inv, FinishSettled
  <2>2. inflight = {}
    BY <2>1 DEF Inv, FlightIsRunning, Done, TerminalStepStates, NonSuccessTerminal,
                FailedStates
  <2> QED BY <2>1, <2>2 DEF Inv, WorkInFlight
<1> QED BY <1>1, Invariance, PTL

(* Under FAIL_FAST, once a call of execute_graph has collected a step while  *)
(* the graph shows a failure, also a restored one, it adds no step to        *)
(* in_flight.                                                                *)
THEOREM HaltsOnFailure == Spec => FailFastHalts
<1> DEFINE A == (failFast /\ gathered # {} /\ \E s \in Steps : state[s] \in FailedStates)
                   => inflight' \subseteq inflight
<1>1. Inv /\ [Next]_vars => [A]_vars
  <2> SUFFICES ASSUME Inv, Next, failFast, gathered # {},
                      \E s \in Steps : state[s] \in FailedStates
               PROVE  inflight' \subseteq inflight
    OBVIOUS
  <2>1. halting
    BY DEF Inv, FailureHalts
  <2>2. CASE Submit
    BY <2>1, <2>2 DEF Submit
  <2>3. CASE Coordinator /\ ~Submit
    BY <2>3 DEF Coordinator, StartGraph, LoopHead, Drain, AwaitWork, Collect, Finish,
                runVars
  <2>4. CASE \E s \in Steps : Worker(s) \/ DeadlinePasses(s)
    BY <2>4 DEF Worker, WorkerCheck, WorkerReturn, WorkerEnd, DeadlinePasses
  <2>5. CASE Cancel \/ Crash \/ Restore
    BY <2>5 DEF Cancel, Crash, Restore, runVars
  <2> QED BY <2>2, <2>3, <2>4, <2>5 DEF Next
<1> QED BY <1>1, Invariance, PTL DEF Spec, FailFastHalts

(* No incarnation of the process enters a tool of a step whose success was   *)
(* persisted, and no later snapshot forgets that success.                    *)
THEOREM SuccessIsFinal == Spec => SucceededNotRerun
<1> DEFINE A == \A s \in Steps : saved.state[s] = "SUCCEEDED" =>
                    work'[s] # "calling" /\ saved'.state[s] = "SUCCEEDED"
<1>1. Inv /\ [Next]_vars => [A]_vars
  <2> SUFFICES ASSUME Inv, Next, NEW s \in Steps, saved.state[s] = "SUCCEEDED"
               PROVE  work'[s] # "calling" /\ saved'.state[s] = "SUCCEEDED"
    OBVIOUS
  <2>1. s \notin inflight /\ (pc # "down" => state[s] = "SUCCEEDED")
    BY DEF Inv, SavedSucceeded, FlightIsRunning, DownIsIdle
  <2>2. work[s] = "none" /\ work \in [Steps -> WorkState]
    BY <2>1 DEF Inv, WorkInFlight, TypeOK
  <2>3. CASE Coordinator
    <3>1. work'[s] # "calling"
      BY <2>2, <2>3 DEF Coordinator, StartGraph, LoopHead, Submit, Drain, AwaitWork,
                        Collect, Finish, runVars
    <3>2. state[s] = "SUCCEEDED"
      BY <2>1, <2>3 DEF Coordinator, StartGraph, LoopHead, Submit, Drain, AwaitWork,
                        Collect, Finish
    <3>3. CASE StartGraph \/ Finish
      BY <3>1, <3>2, <3>3 DEF StartGraph, Finish, Snapshot
    <3>4. CASE LoopHead \/ Submit \/ AwaitWork
      BY <3>1, <3>4 DEF LoopHead, Submit, AwaitWork
    <3>5. CASE Drain
      BY <3>1, <3>2, <3>5 DEF Drain, Retire, Snapshot
    <3>6. CASE Collect
      <4> DEFINE done == {r \in inflight : work[r] \in {"ok", "bad"}}
                 seen == [r \in Steps |-> IF r \in done THEN Collected(r) ELSE state[r]]
      <4>1. seen[s] = "SUCCEEDED"
        BY <2>1, <3>2
      <4>2. /\ state' = Retire(seen, Unsatisfiable(seen), "SKIPPED")
            /\ saved' = Snapshot(state') \/ saved' = saved
        BY <3>6 DEF Collect
      <4> HIDE DEF seen
      <4>3. state'[s] = "SUCCEEDED"
        BY <4>1, <4>2 DEF Retire
      <4> QED BY <3>1, <4>2, <4>3 DEF Snapshot
    <3> QED BY <2>3, <3>3, <3>4, <3>5, <3>6 DEF Coordinator
  <2>4. ASSUME NEW t \in Steps, Worker(t) \/ DeadlinePasses(t)
        PROVE  work'[s] # "calling" /\ saved' = saved
    BY <2>2, <2>4 DEF Worker, WorkerCheck, WorkerReturn, WorkerEnd, DeadlinePasses
  <2>5. CASE Cancel \/ Crash \/ Restore
    BY <2>2, <2>5 DEF Cancel, Crash, Restore, runVars, NoWork
  <2> QED BY <2>3, <2>4, <2>5 DEF Next
<1> QED BY <1>1, Invariance, PTL DEF Spec, SucceededNotRerun

(* The pool threads an exception of execute_graph leaves behind enter no     *)
(* further tool.                                                             *)
THEOREM AbandonedThreadsStop == Spec => AbandonedStop
<1> DEFINE A == pc = "aborted" => \A s \in Steps :
                    work'[s] = "calling" => work[s] = "calling"
<1>1. Inv /\ [Next]_vars => [A]_vars
  <2> SUFFICES ASSUME Inv, Next, pc = "aborted", NEW s \in Steps,
                      work'[s] = "calling"
               PROVE  work[s] = "calling"
    OBVIOUS
  <2>1. work \in [Steps -> WorkState]
    BY DEF Inv, TypeOK
  <2>2. ~Coordinator /\ ~Cancel /\ ~Crash /\ ~Restore
    BY DEF Coordinator, StartGraph, LoopHead, Submit, Drain, AwaitWork, Collect,
           Finish, Cancel, Crash, Restore
  <2>3. PICK t \in Steps : Worker(t) \/ DeadlinePasses(t)
    BY <2>2 DEF Next
  <2> QED BY <2>1, <2>3 DEF Worker, WorkerCheck, WorkerReturn, WorkerEnd,
                            DeadlinePasses, ChildCancelled
<1> QED BY <1>1, Invariance, PTL DEF Spec, AbandonedStop

-----------------------------------------------------------------------------
(* The refinement of PlanRun.  Statuses have their type, and a snapshot of   *)
(* the graph is kept as what a crash makes of its statuses.                  *)
LEMMA StatusTyped ==
    ASSUME NEW st \in [Steps -> StepState]
    PROVE  /\ StatusOf(st) \in [Steps -> Promise!Status]
           /\ \A s \in Steps :
                /\ StatusOf(st)[s] = "todo" <=> st[s] = "PENDING"
                /\ StatusOf(st)[s] = "running" <=> st[s] = "RUNNING"
                /\ StatusOf(st)[s] = "succeeded" <=> st[s] = "SUCCEEDED"
                /\ StatusOf(st)[s] = "failed" <=> st[s] \in FailedStates
                /\ StatusOf(st)[s] = "dropped" <=> st[s] \in {"CANCELLED", "SKIPPED"}
BY DEF StatusOf, Promise!Status, StepState, TerminalStepStates, NonSuccessTerminal,
       FailedStates

(* A change of the graph that only ends running steps and gives waiting ones *)
(* up, with or without a save, is a Settle.                                  *)
LEMMA SettleStep ==
    ASSUME state \in [Steps -> StepState], state' \in [Steps -> StepState],
           \A s \in Steps : state'[s] # state[s] =>
              \/ state[s] = "RUNNING" /\ state'[s] \in FailedStates \cup {"SUCCEEDED"}
              \/ state[s] = "PENDING" /\ state'[s] \in {"CANCELLED", "SKIPPED"},
           pc # "down", pc' # "down",
           saved' = saved \/ saved'.state = state',
           deps' = deps
    PROVE  Promise!Settle
<1>1. RunStatus = StatusOf(state) /\ RunStatus' = StatusOf(state')
  BY DEF RunStatus, StatusOf
<1>2. StatusOf(state') \in [Steps -> Promise!Status]
  BY StatusTyped
<1>3. ASSUME NEW s \in Steps, StatusOf(state')[s] # StatusOf(state)[s]
      PROVE  \/ StatusOf(state)[s] = "running"
                /\ StatusOf(state')[s] \in {"succeeded", "failed"}
             \/ StatusOf(state)[s] = "todo" /\ StatusOf(state')[s] = "dropped"
  <2>1. state'[s] # state[s]
    BY <1>3 DEF StatusOf
  <2> QED BY <2>1, StatusTyped
<1>4. KeptStatus' = KeptStatus \/ KeptStatus' = Promise!Fallen(StatusOf(state'))
  <2>1. CASE saved' = saved
    BY <2>1 DEF KeptStatus, StatusOf
  <2>2. CASE saved'.state = state'
    BY <2>2, StatusTyped DEF KeptStatus, Promise!Fallen
  <2> QED BY <2>1, <2>2
<1> QED BY <1>1, <1>2, <1>3, <1>4 DEF Promise!Settle

(* Submit begins steps whose dependencies have succeeded, within the pool.   *)
LEMMA SubmitBegins == Inv /\ Inv' /\ Submit => Promise!Begin
<1> SUFFICES ASSUME Inv, Inv', Submit PROVE Promise!Begin
  OBVIOUS
<1> DEFINE go == IF stop \/ halting THEN {} ELSE Startable
<1>1. /\ state' = [s \in Steps |-> IF s \in go THEN "RUNNING" ELSE state[s]]
      /\ pc = "submit" /\ pc' = "flight"
      /\ deps' = deps /\ saved' = saved
  BY DEF Submit, plan
<1>2. \A s \in go : state[s] = "PENDING" /\ \A d \in deps[s] : state[d] = "SUCCEEDED"
  BY DEF Startable, Ready
<1>3. state \in [Steps -> StepState] /\ state' \in [Steps -> StepState]
      /\ deps \in [Steps -> SUBSET Steps]
  BY DEF Inv, TypeOK
<1> HIDE DEF go
<1>4. RunStatus = StatusOf(state) /\ RunStatus' = StatusOf(state') /\ KeptStatus' = KeptStatus
  BY <1>1 DEF RunStatus, StatusOf, KeptStatus
<1>5. StatusOf(state') \in [Steps -> Promise!Status]
  BY <1>3, StatusTyped
<1>6. ASSUME NEW s \in Steps, StatusOf(state')[s] # StatusOf(state)[s]
      PROVE  /\ StatusOf(state)[s] = "todo" /\ StatusOf(state')[s] = "running"
             /\ \A d \in deps[s] : StatusOf(state)[d] = "succeeded"
  <2>1. s \in go
    BY <1>1, <1>6 DEF StatusOf
  <2>2. state[s] = "PENDING" /\ state'[s] = "RUNNING"
    BY <1>1, <1>2, <2>1
  <2>3. \A d \in deps[s] : d \in Steps /\ state[d] = "SUCCEEDED"
    BY <1>2, <1>3, <2>1
  <2> QED BY <1>3, <2>2, <2>3, StatusTyped
<1>7. Cardinality({s \in Steps : StatusOf(state')[s] = "running"}) <= MaxConcurrency
  <2>1. {s \in Steps : StatusOf(state')[s] = "running"} = inflight'
    BY <1>3, StatusTyped DEF Inv, FlightIsRunning
  <2> QED BY <2>1 DEF Inv, PoolNotOverfull
<1>8. Promise!Cardinality({s \in Steps : StatusOf(state')[s] = "running"}) <= MaxConcurrency
  BY <1>7 DEF Promise!Cardinality, Cardinality
<1> QED BY <1>1, <1>4, <1>5, <1>6, <1>8 DEF Promise!Begin

(* Every other step settles, falls back, or changes nothing PlanRun shows.   *)
LEMMA StepRefines ==
    Inv /\ Inv' /\ [Next]_vars => [Promise!RunNext]_(Promise!runVars)
<1> SUFFICES ASSUME Inv, Inv', [Next]_vars
             PROVE  Promise!RunNext \/ UNCHANGED Promise!runVars
  OBVIOUS
<1> USE DEF Promise!RunNext
<1>0. state \in [Steps -> StepState] /\ state' \in [Steps -> StepState]
      /\ saved.state \in [Steps -> StepState]
  BY DEF Inv, TypeOK
<1>1. CASE StartGraph
  <2>1. /\ state' = state /\ pc # "down" /\ pc' # "down" /\ deps' = deps
        /\ saved' = saved \/ saved'.state = state'
    BY <1>1 DEF StartGraph, plan, graphVars, Snapshot
  <2> QED BY <1>0, <2>1, SettleStep
<1>2. CASE LoopHead
  <2>1. /\ pc # "down" /\ pc' # "down" /\ deps' = deps /\ saved' = saved
        /\ state' = state \/ state' = Retire(state, Steps, "CANCELLED")
    BY <1>2 DEF LoopHead, plan
  <2> QED BY <1>0, <2>1, SettleStep DEF Retire
<1>3. CASE Submit
  BY <1>3, SubmitBegins
<1>4. CASE Drain
  <2>1. /\ pc # "down" /\ pc' # "down" /\ deps' = deps
        /\ saved' = saved \/ saved'.state = state'
        /\ state' = state \/ state' = Retire(state, Steps, "SKIPPED")
    BY <1>4 DEF Drain, plan, Snapshot
  <2> QED BY <1>0, <2>1, SettleStep DEF Retire
<1>5. CASE Collect
  <2> DEFINE done == {s \in inflight : work[s] \in {"ok", "bad"}}
             seen == [s \in Steps |-> IF s \in done THEN Collected(s) ELSE state[s]]
  <2>1. /\ pc # "down" /\ pc' # "down" /\ deps' = deps
        /\ saved' = saved \/ saved'.state = state'
        /\ state' = Retire(seen, Unsatisfiable(seen), "SKIPPED")
    BY <1>5 DEF Collect, plan, Snapshot
  <2>2. \A s \in done : s \in Steps /\ state[s] = "RUNNING"
    BY DEF Inv, FlightIsRunning
  <2>3. \A s \in Steps : Collected(s) \in FailedStates \cup {"SUCCEEDED"}
    BY DEF Collected, FailedStates
  <2>4. \A s \in Steps : \/ seen[s] = state[s]
                         \/ state[s] = "RUNNING" /\ seen[s] \in FailedStates \cup {"SUCCEEDED"}
    BY <2>2, <2>3
  <2> HIDE DEF seen
  <2>5. \A s \in Steps : state'[s] = seen[s] \/ (seen[s] = "PENDING" /\ state'[s] = "SKIPPED")
    BY <2>1 DEF Retire
  <2>6. \A s \in Steps : state'[s] # state[s] =>
          \/ state[s] = "RUNNING" /\ state'[s] \in FailedStates \cup {"SUCCEEDED"}
          \/ state[s] = "PENDING" /\ state'[s] \in {"CANCELLED", "SKIPPED"}
    BY <2>4, <2>5 DEF FailedStates
  <2> QED BY <1>0, <2>1, <2>6, SettleStep
<1>6. CASE Finish
  <2>1. /\ state' = state /\ pc # "down" /\ pc' # "down" /\ deps' = deps
        /\ saved' = saved \/ saved'.state = state'
    BY <1>6 DEF Finish, plan, graphVars, Snapshot
  <2> QED BY <1>0, <2>1, SettleStep
<1>7. CASE Crash
  <2>1. pc' = "down" /\ saved' = saved /\ deps' = deps
    BY <1>7 DEF Crash, plan
  <2>2. KeptStatus' = KeptStatus /\ RunStatus' = KeptStatus'
    BY <2>1 DEF RunStatus, KeptStatus, StatusOf
  <2> QED BY <2>1, <2>2 DEF Promise!FallBack
<1>8. CASE Restore
  <2>1. /\ pc = "down" /\ pc' = "start" /\ saved' = saved /\ deps' = deps
        /\ state' = [s \in Steps |-> IF saved.state[s] = "RUNNING"
                                     THEN "PENDING" ELSE saved.state[s]]
    BY <1>8 DEF Restore, plan
  <2>2. KeptStatus' = KeptStatus
    BY <2>1 DEF KeptStatus, StatusOf
  <2>3. StatusOf(state') = KeptStatus
    BY <2>1 DEF KeptStatus, StatusOf, FailedStates
  <2>4. RunStatus' = RunStatus
    BY <2>1, <2>2, <2>3 DEF RunStatus, StatusOf
  <2> QED BY <2>1, <2>2, <2>4 DEF Promise!runVars
<1>9. CASE /\ state' = state /\ saved' = saved /\ deps' = deps
           /\ (pc' = "down") <=> (pc = "down")
  BY <1>9 DEF Promise!runVars, RunStatus, KeptStatus, StatusOf
<1>10. CASE AwaitWork
  BY <1>9, <1>10 DEF AwaitWork, plan, graphVars
<1>11. CASE \E s \in Steps : Worker(s) \/ DeadlinePasses(s)
  BY <1>9, <1>11 DEF Worker, WorkerCheck, WorkerReturn, WorkerEnd, DeadlinePasses,
                     plan, graphVars
<1>12. CASE Cancel
  BY <1>9, <1>12 DEF Cancel, plan, graphVars
<1>13. CASE UNCHANGED vars
  BY <1>9, <1>13 DEF vars
<1> QED BY <1>1, <1>2, <1>3, <1>4, <1>5, <1>6, <1>7, <1>8, <1>10, <1>11, <1>12, <1>13
           DEF Next, Coordinator

(* The executor implements PlanRun, for every plan, pool and number of       *)
(* restarts: each of its steps is a step of PlanRun or changes nothing that  *)
(* PlanRun shows.                                                            *)
THEOREM Refinement == Spec => ImplementsPlanRun
<1>1. Init => Promise!RunInit
  <2> SUFFICES ASSUME Init PROVE Promise!RunInit
    OBVIOUS
  <2>1. /\ state \in [Steps -> StepState] /\ \A s \in Steps : state[s] = "PENDING"
        /\ saved.state = state /\ pc # "down" /\ deps \in [Steps -> SUBSET Steps]
    BY DEF Init, NewGraph, StepState
  <2>2. StatusOf(state) = [s \in Steps |-> "todo"]
    <3>1. \A s \in Steps : StatusOf(state)[s] = "todo"
      BY <2>1, StatusTyped
    <3>2. StatusOf(state) \in [Steps -> Promise!Status]
      BY <2>1, StatusTyped
    <3> QED BY <3>1, <3>2
  <2>3. KeptStatus = [s \in Steps |-> "todo"]
    BY <2>1, <2>2 DEF KeptStatus
  <2> QED BY <2>1, <2>2, <2>3 DEF Promise!RunInit, RunStatus
<1> QED BY <1>1, StepRefines, Invariance, PTL DEF Spec, ImplementsPlanRun, Promise!RunSpec

-----------------------------------------------------------------------------
(* Planning: what plan() drafts, orders and returns.                       *)

PlanRecords == [steps : Seq([id : STRING, deps : Seq(STRING)]), flaw : BOOLEAN, mcp : BOOLEAN]

Needs(p, id) == ToSet(StepOf(p, id).deps)

(* No element twice. *)
Distinct(s) == \A i, j \in 1..Len(s) : i # j => s[i] # s[j]

(* The mentions in a step's list of dependencies that are not in D. *)
Open(p, id, D) == {i \in 1..Len(StepOf(p, id).deps) : StepOf(p, id).deps[i] \notin D}

LEMMA Segment == ASSUME NEW n \in Nat PROVE IsFiniteSet(1..n) /\ Cardinality(1..n) = n
BY FS_Interval

(* A plan's ids are unique, so an id stands for one step. *)
LEMMA StepFacts ==
    ASSUME NEW p \in PlanRecords, Structural(p), DepsKnown(p)
    PROVE  /\ Len(p.steps) \in Nat /\ IsFiniteSet(Ids(p)) /\ Cardinality(Ids(p)) = Len(p.steps)
           /\ \A i \in 1..Len(p.steps) : p.steps[i].id \in Ids(p) /\ StepOf(p, p.steps[i].id) = p.steps[i]
           /\ \A id \in Ids(p) : /\ StepOf(p, id).deps \in Seq(STRING)
                                 /\ Needs(p, id) \subseteq Ids(p)
                                 /\ Place(p, id) \in 1..Len(p.steps)
<1> DEFINE n == Len(p.steps)
           f == [i \in 1..n |-> p.steps[i].id]
<1>1. /\ p.steps \in Seq([id : STRING, deps : Seq(STRING)]) /\ n \in Nat
      /\ DOMAIN p.steps = 1..n
      /\ \A i \in 1..n : p.steps[i] \in [id : STRING, deps : Seq(STRING)]
  <2> DEFINE Step == [id : STRING, deps : Seq(STRING)]
  <2>1. p.steps \in Seq(Step)
    BY DEF PlanRecords
  <2> HIDE DEF Step
  <2>2. n \in Nat /\ DOMAIN p.steps = 1..n /\ \A i \in 1..n : p.steps[i] \in Step
    BY <2>1
  <2> QED BY <2>1, <2>2 DEF Step
<1>2. IsFiniteSet(1..n) /\ Cardinality(1..n) = n
  BY <1>1, Segment
<1>3. f \in Surjection(1..n, Ids(p))
  BY DEF Surjection, Ids
<1>4. Cardinality(Ids(p)) = n
  BY DEF Structural
<1>5. IsFiniteSet(Ids(p)) /\ f \in Injection(1..n, Ids(p))
  <2> HIDE DEF f, n
  <2> QED BY <1>2, <1>3, <1>4, FS_Surjection
<1>6. \A i, j \in 1..n : p.steps[i].id = p.steps[j].id => i = j
  BY <1>5 DEF Injection, IsInjective
<1>7. ASSUME NEW i \in 1..n PROVE p.steps[i].id \in Ids(p) /\ StepOf(p, p.steps[i].id) = p.steps[i]
  <2>1. p.steps[i] \in ToSet(p.steps) /\ p.steps[i].id \in Ids(p)
    BY <1>1 DEF ToSet, Ids
  <2>2. \A s \in ToSet(p.steps) : s.id = p.steps[i].id => s = p.steps[i]
    BY <1>1, <1>6 DEF ToSet
  <2> QED BY <2>1, <2>2 DEF StepOf
<1>8. ASSUME NEW id \in Ids(p)
      PROVE  /\ StepOf(p, id).deps \in Seq(STRING)
             /\ Needs(p, id) \subseteq Ids(p)
             /\ Place(p, id) \in 1..n
  <2>1. PICK i \in 1..n : p.steps[i].id = id
    BY DEF Ids
  <2>2. StepOf(p, id) = p.steps[i]
    BY <1>7, <2>1
  <2>3. StepOf(p, id).deps \in Seq(STRING)
    BY <1>1, <2>2
  <2>4. Needs(p, id) \subseteq Ids(p)
    BY <2>2 DEF Needs, DepsKnown
  <2>5. Place(p, id) \in 1..n
    BY <2>1 DEF Place
  <2> QED BY <2>3, <2>4, <2>5
<1> QED BY <1>1, <1>4, <1>5, <1>7, <1>8

(* Ids in plan order: each one of the set, once. *)
LEMMA PlanOrderFacts ==
    ASSUME NEW p \in PlanRecords, Structural(p), DepsKnown(p),
           NEW S \in SUBSET Ids(p), NEW s \in InPlanOrder(p, S)
    PROVE  /\ s \in Seq(Ids(p)) /\ ToSet(s) = S
           /\ Distinct(s)
<1> DEFINE n == Cardinality(S)
<1>1. IsFiniteSet(S) /\ n \in Nat /\ IsFiniteSet(1..n) /\ Cardinality(1..n) = n
  <2>1. IsFiniteSet(S)
    BY StepFacts, FS_Subset
  <2>2. n \in Nat
    BY <2>1, FS_CardinalityType
  <2> HIDE DEF n
  <2> QED BY <2>1, <2>2, Segment
<1>2. s \in [1..n -> S] /\ \A i, j \in 1..n : i < j => Place(p, s[i]) < Place(p, s[j])
  BY DEF InPlanOrder
<1> HIDE DEF n
<1>3. \A i, j \in 1..n : i < j => s[i] # s[j]
  <2> SUFFICES ASSUME NEW i \in 1..n, NEW j \in 1..n, i < j, s[i] = s[j] PROVE FALSE
    OBVIOUS
  <2>1. s[i] \in Ids(p) /\ Place(p, s[i]) < Place(p, s[j])
    BY <1>2
  <2>2. Place(p, s[i]) \in Nat
    BY <2>1, StepFacts
  <2> QED BY <2>1, <2>2
<1>4. \A i, j \in 1..n : i # j => s[i] # s[j]
  BY <1>1, <1>3
<1>5. s \in Injection(1..n, S)
  BY <1>2, <1>4 DEF Injection, IsInjective
<1>6. s \in Surjection(1..n, S)
  BY <1>1, <1>5, FS_Injection DEF n
<1>7. s \in Seq(Ids(p)) /\ Len(s) = n /\ DOMAIN s = 1..n
  BY <1>1, <1>2
<1>8. ToSet(s) = S
  BY <1>2, <1>6, <1>7 DEF ToSet, Surjection
<1> QED BY <1>4, <1>7, <1>8 DEF Distinct

(* The counter of a step is the number of its open mentions. *)
LEMMA OpenFacts ==
    ASSUME NEW p \in PlanRecords, Structural(p), DepsKnown(p), NEW id \in Ids(p), NEW D
    PROVE  /\ IsFiniteSet(Open(p, id, D)) /\ Cardinality(Open(p, id, D)) \in Nat
           /\ Cardinality(Open(p, id, D)) = 0 <=> Needs(p, id) \subseteq D
<1> DEFINE ds == StepOf(p, id).deps
<1>1. ds \in Seq(STRING) /\ Len(ds) \in Nat /\ DOMAIN ds = 1..Len(ds)
  BY StepFacts
<1>2. IsFiniteSet(1..Len(ds))
  BY <1>1, Segment
<1>3. IsFiniteSet(Open(p, id, D))
  BY <1>2, FS_Subset DEF Open
<1>4. Open(p, id, D) = {} <=> Needs(p, id) \subseteq D
  BY <1>1 DEF Open, Needs, ToSet
<1> QED BY <1>3, <1>4, FS_CardinalityType, FS_EmptySet

LEMMA CountedOpen ==
    ASSUME NEW p \in PlanRecords, Structural(p), DepsKnown(p), NEW id \in Ids(p)
    PROVE  Counted(p)[id] = Cardinality(Open(p, id, {}))
<1>1. StepOf(p, id).deps \in Seq(STRING) /\ Len(StepOf(p, id).deps) \in Nat
  BY StepFacts
<1>2. Open(p, id, {}) = 1..Len(StepOf(p, id).deps)
  BY DEF Open
<1>3. Cardinality(1..Len(StepOf(p, id).deps)) = Len(StepOf(p, id).deps)
  BY <1>1, FS_Interval
<1> QED BY <1>2, <1>3 DEF Counted

(* Placing a step closes exactly its mentions. *)
LEMMA MentionsClosed ==
    ASSUME NEW p \in PlanRecords, Structural(p), DepsKnown(p), NEW id \in Ids(p),
           NEW D, NEW c, c \notin D
    PROVE  Cardinality(Open(p, id, D)) - Mentions(p, id, c) = Cardinality(Open(p, id, D \cup {c}))
<1> DEFINE M == {i \in 1..Len(StepOf(p, id).deps) : StepOf(p, id).deps[i] = c}
           A == Open(p, id, D)
<1>1. IsFiniteSet(A)
  BY OpenFacts
<1>2. A \ M = Open(p, id, D \cup {c}) /\ A \cap M = M
  BY DEF Open
<1>3. Mentions(p, id, c) = Cardinality(M)
  BY DEF Mentions
<1> HIDE DEF A, M
<1>4. Cardinality(A \ M) = Cardinality(A) - Cardinality(A \cap M)
  BY <1>1, FS_Difference
<1> QED BY <1>2, <1>3, <1>4 DEF A

(* A set of steps that holds every step whose dependencies it holds is all   *)
(* of an orderable plan: the lowest-ranked step outside would belong to it.  *)
LEMMA ClosedIsAll ==
    ASSUME NEW p \in PlanRecords, Structural(p), Orderable(p), NEW D,
           \A id \in Ids(p) : Needs(p, id) \subseteq D => id \in D
    PROVE  Ids(p) \subseteq D
<1>1. PICK rank \in [Ids(p) -> 1..Len(p.steps)] :
         \A i \in 1..Len(p.steps) : \A d \in ToSet(p.steps[i].deps) : rank[d] < rank[p.steps[i].id]
  BY DEF Orderable
<1>2. DepsKnown(p)
  BY DEF Orderable
<1> DEFINE T == {rank[id] : id \in Ids(p) \ D}
<1> SUFFICES ASSUME Ids(p) \ D # {} PROVE FALSE
  OBVIOUS
<1>3. T # {} /\ T \in SUBSET Nat
  <2>1. \A id \in Ids(p) : rank[id] \in Nat
    BY <1>1, <1>2, StepFacts
  <2> QED BY <2>1
<1>4. PICK x \in T : \A y \in T : x <= y
  <2> HIDE DEF T
  <2> QED BY <1>3, LeastNumber
<1>5. PICK id \in Ids(p) \ D : x = rank[id]
  BY <1>4
<1>6. PICK d \in Needs(p, id) : d \notin D
  BY <1>5
<1>7. d \in Ids(p) /\ rank[d] \in T
  BY <1>2, <1>5, <1>6, StepFacts
<1>8. rank[d] < rank[id]
  <2>1. PICK i \in 1..Len(p.steps) : p.steps[i].id = id
    BY <1>5 DEF Ids
  <2>2. StepOf(p, id) = p.steps[i]
    BY <1>2, <2>1, StepFacts
  <2> QED BY <1>1, <1>6, <2>1, <2>2 DEF Needs
<1>9. rank[d] \in Nat /\ rank[id] \in Nat
  BY <1>3, <1>4, <1>5, <1>7
<1>10. rank[id] <= rank[d]
  <2> HIDE DEF T
  <2> QED BY <1>4, <1>5, <1>7
<1> HIDE DEF T
<1> QED BY <1>8, <1>9, <1>10

(* An ordering without repetition, each step after its dependencies. *)
LEMMA OrderingRanks ==
    ASSUME NEW p \in PlanRecords, Structural(p), DepsKnown(p), NEW o \in Seq(Ids(p)),
           Distinct(o),
           \A i \in 1..Len(o) : \A d \in Needs(p, o[i]) : \E j \in 1..(i - 1) : o[j] = d
    PROVE  /\ Len(o) = Len(p.steps) <=> Ids(p) \subseteq ToSet(o)
           /\ Len(o) = Len(p.steps) => Orderable(p)
<1> DEFINE n == Len(o)
<1>1. n \in Nat /\ DOMAIN o = 1..n /\ o \in [1..n -> Ids(p)] /\ ToSet(o) \subseteq Ids(p)
  BY DEF ToSet
<1>2. o \in Injection(1..n, Ids(p))
  BY <1>1 DEF Injection, IsInjective, Distinct
<1>3. IsFiniteSet(Ids(p)) /\ Cardinality(Ids(p)) = Len(p.steps) /\ Cardinality(1..n) = n
  <2>1. IsFiniteSet(Ids(p)) /\ Cardinality(Ids(p)) = Len(p.steps)
    BY StepFacts
  <2> HIDE DEF n
  <2> QED BY <1>1, <2>1, Segment
<1>4. Len(p.steps) = n <=> o \in Surjection(1..n, Ids(p))
  <2> HIDE DEF n
  <2> QED BY <1>2, <1>3, FS_Injection
<1>5. o \in Surjection(1..n, Ids(p)) <=> Ids(p) \subseteq ToSet(o)
  BY <1>1 DEF Surjection, ToSet
<1>6. ASSUME n = Len(p.steps) PROVE Orderable(p)
  <2> DEFINE rank == [id \in Ids(p) |-> CHOOSE i \in 1..n : o[i] = id]
  <2>1. \A id \in Ids(p) : rank[id] \in 1..n /\ o[rank[id]] = id
    BY <1>4, <1>6 DEF Surjection
  <2>2. rank \in [Ids(p) -> 1..Len(p.steps)]
    BY <1>6, <2>1
  <2>3. ASSUME NEW i \in 1..Len(p.steps), NEW d \in ToSet(p.steps[i].deps)
        PROVE  rank[d] < rank[p.steps[i].id]
    <3> DEFINE id == p.steps[i].id
    <3>1. id \in Ids(p) /\ d \in Needs(p, id) /\ d \in Ids(p)
      BY StepFacts, <2>3 DEF Needs
    <3> HIDE DEF rank, id
    <3>2. rank[id] \in 1..n /\ o[rank[id]] = id
      BY <2>1, <3>1
    <3>3. PICK j \in 1..(rank[id] - 1) : o[j] = d
      BY <3>1, <3>2
    <3>4. j \in 1..n /\ rank[d] \in 1..n /\ o[rank[d]] = d
      BY <1>1, <2>1, <3>1, <3>2, <3>3
    <3>5. rank[d] = j
      BY <3>3, <3>4 DEF Distinct
    <3> QED BY <1>1, <3>2, <3>3, <3>5 DEF id
  <2> HIDE DEF rank
  <2> QED BY <2>2, <2>3 DEF Orderable
<1> QED BY <1>4, <1>5, <1>6

-----------------------------------------------------------------------------
(* The ordering loop: what is placed or waits is what has no open mention,   *)
(* each step once, and what is placed comes after its dependencies.          *)
LoopInv ==
    /\ draft \in Drafts /\ Structural(draft) /\ DepsKnown(draft)
    /\ kahn.ordered \in Seq(Ids(draft)) /\ kahn.ready \in Seq(Ids(draft))
    /\ Distinct(kahn.ordered) /\ Distinct(kahn.ready)
    /\ ToSet(kahn.ordered) \cap ToSet(kahn.ready) = {}
    /\ \A id \in Ids(draft) :
          /\ kahn.incoming[id] = Cardinality(Open(draft, id, ToSet(kahn.ordered)))
          /\ kahn.incoming[id] = 0 <=> id \in ToSet(kahn.ordered) \cup ToSet(kahn.ready)
    /\ \A i \in 1..Len(kahn.ordered) : \A d \in Needs(draft, kahn.ordered[i]) :
          \E j \in 1..(i - 1) : kahn.ordered[j] = d

(* Nothing is returned before the end, and a direct answer is under way only *)
(* for a goal it is allowed for.                                             *)
AnswerInv ==
    /\ phase # "done" => planned.kind = "none"
    /\ phase = "direct" => ~Action(goal)
    /\ phase = "last_direct" => ~Action(goal) \/ (Explicit(goal) /\ research)

PlanningInv == (phase = "order" => LoopInv) /\ AnswerInv /\ FailsClosed

LEMMA DraftRecord == \A p \in Drafts : p \in PlanRecords
BY PlanningAssumption DEF PlanRecords

LEMMA LoopExact == LoopInv /\ kahn.ready = << >> =>
    /\ (Len(kahn.ordered) = Len(draft.steps)) <=> Orderable(draft)
    /\ \A i \in 1..Len(kahn.ordered) : \A d \in ToSet(StepOf(draft, kahn.ordered[i]).deps) :
          \E j \in 1..(i - 1) : kahn.ordered[j] = d
<1> SUFFICES ASSUME LoopInv, kahn.ready = << >>
             PROVE  (Len(kahn.ordered) = Len(draft.steps)) <=> Orderable(draft)
  BY DEF LoopInv, Needs
<1> DEFINE o == kahn.ordered
           p == draft
<1>1. /\ p \in PlanRecords /\ Structural(p) /\ DepsKnown(p) /\ o \in Seq(Ids(p))
      /\ Distinct(o)
      /\ \A i \in 1..Len(o) : \A d \in Needs(p, o[i]) : \E j \in 1..(i - 1) : o[j] = d
  BY DraftRecord DEF LoopInv
<1>2. \A id \in Ids(p) : Needs(p, id) \subseteq ToSet(o) => id \in ToSet(o)
  <2>1. ToSet(kahn.ready) = {}
    BY DEF ToSet
  <2>2. \A id \in Ids(p) : kahn.incoming[id] = Cardinality(Open(p, id, ToSet(o)))
                           /\ (kahn.incoming[id] = 0 <=> id \in ToSet(o))
    BY <2>1 DEF LoopInv
  <2> QED BY <1>1, <2>2, OpenFacts
<1> HIDE DEF o, p
<1>3. Orderable(p) => Ids(p) \subseteq ToSet(o)
  BY <1>1, <1>2, ClosedIsAll
<1>4. /\ Len(o) = Len(p.steps) <=> Ids(p) \subseteq ToSet(o)
      /\ Len(o) = Len(p.steps) => Orderable(p)
  BY <1>1, OrderingRanks
<1> QED BY <1>3, <1>4 DEF o, p

(* The plans that plan() makes up itself can run. *)
LEMMA OneStepRuns == ASSUME NEW id PROVE Structural(OneStep(id)) /\ Orderable(OneStep(id))
<1> DEFINE p == OneStep(id)
<1>1. /\ p.steps = <<[id |-> id, deps |-> << >>]>> /\ p.flaw = FALSE
      /\ Len(p.steps) = 1 /\ p.steps[1].id = id /\ p.steps[1].deps = << >>
  BY DEF OneStep
<1>2. 1..1 = {1}
  OBVIOUS
<1> HIDE DEF p
<1>3. Ids(p) = {id} /\ Cardinality({id}) = 1
  <2>1. Ids(p) = {id}
    BY <1>1, <1>2 DEF Ids
  <2>2. Cardinality({id}) = 1
    BY FS_Singleton
  <2> QED BY <2>1, <2>2
<1>4. Structural(p)
  <2>1. p.steps # << >>
    BY <1>1
  <2> QED BY <1>1, <1>3, <2>1, PlanningAssumption DEF Structural
<1>5. ToSet(<< >>) = {}
  BY DEF ToSet
<1>6. DepsKnown(p)
  BY <1>1, <1>2, <1>5 DEF DepsKnown
<1>7. Orderable(p)
  <2>1. [x \in Ids(p) |-> 1] \in [Ids(p) -> 1..Len(p.steps)]
    BY <1>1
  <2> QED BY <1>1, <1>2, <1>5, <1>6, <2>1 DEF Orderable
<1> QED BY <1>4, <1>7 DEF p

(* Sequences without repetition: what the loop does to its lists. *)
LEMMA AppendDistinct ==
    ASSUME NEW S, NEW s \in Seq(S), NEW x \in S
    PROVE  /\ Append(s, x) \in Seq(S) /\ Len(Append(s, x)) = Len(s) + 1
           /\ \A i \in 1..Len(s) : Append(s, x)[i] = s[i]
           /\ Append(s, x)[Len(s) + 1] = x
           /\ ToSet(Append(s, x)) = ToSet(s) \cup {x}
           /\ Distinct(s) /\ x \notin ToSet(s) => Distinct(Append(s, x))
<1> DEFINE t == Append(s, x)
<1>1. /\ t \in Seq(S) /\ Len(t) = Len(s) + 1 /\ Len(s) \in Nat
      /\ \A i \in 1..Len(s) : t[i] = s[i]
      /\ t[Len(s) + 1] = x
      /\ DOMAIN s = 1..Len(s) /\ DOMAIN t = 1..(Len(s) + 1)
  OBVIOUS
<1> HIDE DEF t
<1>2. 1..(Len(s) + 1) = (1..Len(s)) \cup {Len(s) + 1}
  BY <1>1
<1>3. ToSet(t) = ToSet(s) \cup {x}
  BY <1>1, <1>2 DEF ToSet
<1>4. Distinct(s) /\ x \notin ToSet(s) => Distinct(t)
  BY <1>1, <1>2 DEF Distinct, ToSet
<1> QED BY <1>1, <1>3, <1>4 DEF t

LEMMA TailDistinct ==
    ASSUME NEW S, NEW s \in Seq(S), s # << >>, Distinct(s)
    PROVE  /\ Tail(s) \in Seq(S) /\ Head(s) \in S /\ Head(s) \in ToSet(s)
           /\ ToSet(Tail(s)) = ToSet(s) \ {Head(s)}
           /\ Distinct(Tail(s))
<1> DEFINE t == Tail(s)
<1>1. /\ t \in Seq(S) /\ Len(s) \in Nat \ {0} /\ Len(t) = Len(s) - 1
      /\ \A i \in 1..Len(t) : t[i] = s[i + 1]
      /\ Head(s) = s[1] /\ s[1] \in S
      /\ DOMAIN s = 1..Len(s) /\ DOMAIN t = 1..Len(t)
  OBVIOUS
<1> HIDE DEF t
<1>2. Distinct(t)
  BY <1>1 DEF Distinct
<1>3. \A x : x \in ToSet(t) => x \in ToSet(s) /\ x # s[1]
  BY <1>1 DEF ToSet, Distinct
<1>4. \A i \in 2..Len(s) : s[i] \in ToSet(t)
  <2> SUFFICES ASSUME NEW i \in 2..Len(s) PROVE s[i] \in ToSet(t)
    OBVIOUS
  <2>1. i - 1 \in 1..Len(t) /\ t[i - 1] = s[i]
    BY <1>1
  <2> QED BY <1>1, <2>1 DEF ToSet
<1>5. \A x \in ToSet(s) : x # s[1] => x \in ToSet(t)
  BY <1>1, <1>4 DEF ToSet
<1>6. Head(s) \in ToSet(s)
  BY <1>1 DEF ToSet
<1> QED BY <1>1, <1>2, <1>3, <1>5, <1>6 DEF t

LEMMA ConcatDistinct ==
    ASSUME NEW S, NEW s \in Seq(S), NEW t \in Seq(S), Distinct(s), Distinct(t),
           ToSet(s) \cap ToSet(t) = {}
    PROVE  /\ s \o t \in Seq(S) /\ ToSet(s \o t) = ToSet(s) \cup ToSet(t)
           /\ Distinct(s \o t)
<1> DEFINE u == s \o t
           m == Len(s)
           n == Len(t)
<1>1. /\ u \in Seq(S) /\ m \in Nat /\ n \in Nat /\ Len(u) = m + n
      /\ \A i \in 1..m : u[i] = s[i]
      /\ DOMAIN s = 1..m /\ DOMAIN t = 1..n /\ DOMAIN u = 1..(m + n)
  BY ConcatProperties
<1>2. \A i \in 1..(m + n) : i > m => i - m \in 1..n /\ u[i] = t[i - m]
  BY ConcatProperties
<1>3. \A j \in 1..n : j + m \in 1..(m + n) /\ j + m > m /\ (j + m) - m = j
  BY <1>1
<1>4. \A i \in 1..(m + n) : i \in 1..m \/ i > m
  BY <1>1
<1>5. 1..m \subseteq 1..(m + n)
  BY <1>1
<1> HIDE DEF u, m, n
<1>6. ToSet(u) = ToSet(s) \cup ToSet(t)
  <2>1. \A x \in ToSet(u) : x \in ToSet(s) \cup ToSet(t)
    BY <1>1, <1>2, <1>4 DEF ToSet
  <2>2. \A x \in ToSet(s) : x \in ToSet(u)
    BY <1>1, <1>5 DEF ToSet
  <2>3. ASSUME NEW j \in 1..n PROVE t[j] \in ToSet(u)
    <3>1. u[j + m] = t[j] /\ j + m \in DOMAIN u
      BY <1>1, <1>2, <1>3
    <3> QED BY <3>1 DEF ToSet
  <2>4. \A x \in ToSet(t) : x \in ToSet(u)
    BY <1>1, <2>3 DEF ToSet
  <2> QED BY <2>1, <2>2, <2>4
<1>7. ASSUME NEW i \in 1..(m + n), NEW j \in 1..(m + n), i # j PROVE u[i] # u[j]
  <2>1. \A k \in 1..m : s[k] \in ToSet(s)
    BY <1>1 DEF ToSet
  <2>2. \A k \in 1..n : t[k] \in ToSet(t)
    BY <1>1 DEF ToSet
  <2>3. CASE i \in 1..m /\ j \in 1..m
    BY <1>1, <1>7, <2>3 DEF Distinct, m
  <2>4. CASE i > m /\ j > m
    <3>1. i - m \in 1..n /\ j - m \in 1..n /\ i - m # j - m
      BY <1>1, <1>2, <1>7, <2>4
    <3> QED BY <1>2, <2>4, <3>1 DEF Distinct, n
  <2>5. CASE i \in 1..m /\ j > m
    BY <1>1, <1>2, <2>1, <2>2, <2>5
  <2>6. CASE j \in 1..m /\ i > m
    BY <1>1, <1>2, <2>1, <2>2, <2>6
  <2> QED BY <1>4, <2>3, <2>4, <2>5, <2>6
<1> QED BY <1>1, <1>6, <1>7 DEF Distinct, u

-----------------------------------------------------------------------------
LEMMA PlanningInitHolds == PlanningInit => PlanningInv
BY DEF PlanningInit, PlanningInv, AnswerInv, FailsClosed

LEMMA DraftedKeeps == ASSUME PlanningInv, NEW p \in Drafts, Drafted(p) PROVE PlanningInv'
<1>1. /\ phase = "draft" /\ UNCHANGED <<goal, offered, research, planned>>
      /\ phase' \in {"order", "draft", "fallback"}
  BY DEF Drafted, Failed
<1>2. AnswerInv' /\ FailsClosed'
  BY <1>1 DEF PlanningInv, AnswerInv, FailsClosed
<1>3. ASSUME phase' = "order" PROVE LoopInv'
  <2>1. Structural(p) /\ DepsKnown(p) /\ draft' = p
    BY <1>3 DEF Drafted, Failed
  <2>2. PICK first \in InPlanOrder(p, ReadyAtFirst(p)) :
           kahn' = [incoming |-> Counted(p), ready |-> first, ordered |-> << >>]
    BY <1>3 DEF Drafted, Failed
  <2>3. p \in PlanRecords /\ ReadyAtFirst(p) \in SUBSET Ids(p)
    BY DraftRecord DEF ReadyAtFirst
  <2>4. first \in Seq(Ids(p)) /\ ToSet(first) = ReadyAtFirst(p) /\ Distinct(first)
    BY <2>1, <2>3, PlanOrderFacts
  <2>5. /\ << >> \in Seq(Ids(p)) /\ Len(<< >>) = 0 /\ 1..0 = {}
        /\ ToSet(<< >>) = {} /\ Distinct(<< >>)
    BY DEF ToSet, Distinct
  <2>6. \A id \in Ids(p) : /\ Counted(p)[id] = Cardinality(Open(p, id, {}))
                           /\ Counted(p)[id] = 0 <=> id \in {} \cup ReadyAtFirst(p)
    BY <2>1, <2>3, CountedOpen DEF ReadyAtFirst
  <2>7. kahn'.incoming = Counted(p) /\ kahn'.ready = first /\ kahn'.ordered = << >>
    BY <2>2
  <2> QED BY <2>1, <2>4, <2>5, <2>6, <2>7 DEF LoopInv
<1> QED BY <1>2, <1>3 DEF PlanningInv

LEMMA OrderStepKeeps == ASSUME PlanningInv, OrderStep PROVE PlanningInv'
<1> DEFINE p == draft
           o == kahn.ordered
           ready == kahn.ready
           c == Head(kahn.ready)
           D == ToSet(o)
           open == [id \in Ids(draft) |-> kahn.incoming[id] - Mentions(draft, id, c)]
           freed == {id \in Ids(draft) : kahn.incoming[id] > 0 /\ open[id] = 0}
<1>1. /\ phase = "order" /\ ready # << >> /\ LoopInv
      /\ UNCHANGED <<goal, offered, research, phase, tries, draft, planned>>
  BY DEF OrderStep, PlanningInv
<1>2. PICK released \in InPlanOrder(draft, freed) :
         kahn' = [incoming |-> open, ready |-> Tail(ready) \o released, ordered |-> Append(o, c)]
  BY DEF OrderStep
<1>3. /\ kahn'.incoming = open /\ kahn'.ready = Tail(ready) \o released
      /\ kahn'.ordered = Append(o, c)
  BY <1>2
<1>4. AnswerInv' /\ FailsClosed'
  BY <1>1 DEF PlanningInv, AnswerInv, FailsClosed
<1>5. /\ p \in PlanRecords /\ Structural(p) /\ DepsKnown(p) /\ p \in Drafts
      /\ o \in Seq(Ids(p)) /\ ready \in Seq(Ids(p)) /\ Distinct(o) /\ Distinct(ready)
      /\ D \cap ToSet(ready) = {}
      /\ \A id \in Ids(p) : /\ kahn.incoming[id] = Cardinality(Open(p, id, D))
                            /\ kahn.incoming[id] = 0 <=> id \in D \cup ToSet(ready)
      /\ \A i \in 1..Len(o) : \A d \in Needs(p, o[i]) : \E j \in 1..(i - 1) : o[j] = d
  BY <1>1, DraftRecord DEF LoopInv
<1>6. /\ Tail(ready) \in Seq(Ids(p)) /\ c \in Ids(p) /\ c \in ToSet(ready)
      /\ ToSet(Tail(ready)) = ToSet(ready) \ {c} /\ Distinct(Tail(ready))
  BY <1>1, <1>5, TailDistinct
<1>7. freed \in SUBSET Ids(p) /\ released \in InPlanOrder(p, freed)
  BY <1>2
<1>8. \A id \in Ids(p) : open[id] = Cardinality(Open(p, id, D \cup {c}))
  <2> SUFFICES ASSUME NEW id \in Ids(p) PROVE open[id] = Cardinality(Open(p, id, D \cup {c}))
    OBVIOUS
  <2>1. c \notin D
    BY <1>5, <1>6
  <2>2. open[id] = Cardinality(Open(p, id, D)) - Mentions(p, id, c)
    BY <1>5
  <2> HIDE DEF open, c, D, p
  <2> QED BY <1>5, <2>1, <2>2, MentionsClosed
<1>9. \A id \in freed : kahn.incoming[id] > 0 /\ open[id] = 0
  OBVIOUS
<1>10. \A id \in Ids(p) : (kahn.incoming[id] > 0 /\ open[id] = 0) => id \in freed
  OBVIOUS
<1> HIDE DEF open, freed, c
<1>11. released \in Seq(Ids(p)) /\ ToSet(released) = freed /\ Distinct(released)
  <2> HIDE DEF p
  <2> QED BY <1>5, <1>7, PlanOrderFacts
<1>12. \A id \in Ids(p) : kahn.incoming[id] \in Nat
  BY <1>5, OpenFacts
<1>13. ToSet(Tail(ready)) \cap ToSet(released) = {}
  BY <1>5, <1>6, <1>7, <1>9, <1>11
<1>14. /\ Tail(ready) \o released \in Seq(Ids(p)) /\ Distinct(Tail(ready) \o released)
       /\ ToSet(Tail(ready) \o released) = (ToSet(ready) \ {c}) \cup freed
  <2> DEFINE t == Tail(ready)
             S == Ids(p)
  <2>1. /\ t \in Seq(S) /\ released \in Seq(S) /\ Distinct(t) /\ Distinct(released)
        /\ ToSet(t) \cap ToSet(released) = {}
    BY <1>6, <1>11, <1>13
  <2> HIDE DEF t, S
  <2>2. /\ t \o released \in Seq(S) /\ ToSet(t \o released) = ToSet(t) \cup ToSet(released)
        /\ Distinct(t \o released)
    BY <2>1, ConcatDistinct
  <2> QED BY <1>6, <1>11, <2>2 DEF t, S
<1>15. c \notin D
  BY <1>5, <1>6
<1>16. /\ Append(o, c) \in Seq(Ids(p)) /\ Len(Append(o, c)) = Len(o) + 1
       /\ \A i \in 1..Len(o) : Append(o, c)[i] = o[i]
       /\ Append(o, c)[Len(o) + 1] = c
       /\ ToSet(Append(o, c)) = D \cup {c} /\ Distinct(Append(o, c))
  BY <1>5, <1>6, <1>15, AppendDistinct
<1>17. \A id \in Ids(p) : open[id] = 0 <=> id \in (D \cup {c}) \cup ((ToSet(ready) \ {c}) \cup freed)
  <2> SUFFICES ASSUME NEW id \in Ids(p)
               PROVE  open[id] = 0 <=> id \in D \cup ToSet(ready) \cup freed
    BY <1>6
  <2>1. ASSUME id \in D \cup ToSet(ready) PROVE open[id] = 0
    <3>1. Cardinality(Open(p, id, D)) = 0
      BY <1>5, <2>1
    <3>2. Needs(p, id) \subseteq D \cup {c}
      BY <1>5, <3>1, OpenFacts
    <3> QED BY <1>5, <1>8, <3>2, OpenFacts
  <2>2. ASSUME open[id] = 0, id \notin D \cup ToSet(ready) PROVE id \in freed
    <3>1. kahn.incoming[id] \in Nat /\ kahn.incoming[id] # 0
      BY <1>5, <1>12, <2>2
    <3> QED BY <1>10, <2>2, <3>1
  <2> QED BY <1>9, <2>1, <2>2
<1>18. (D \cup {c}) \cap ((ToSet(ready) \ {c}) \cup freed) = {}
  BY <1>5, <1>6, <1>7, <1>9
<1>19. ASSUME NEW i \in 1..(Len(o) + 1), NEW d \in Needs(p, Append(o, c)[i])
       PROVE  \E j \in 1..(i - 1) : Append(o, c)[j] = d
  <2>1. Len(o) \in Nat /\ DOMAIN o = 1..Len(o)
    BY <1>5
  <2>2. CASE i \in 1..Len(o)
    <3>1. PICK j \in 1..(i - 1) : o[j] = d
      BY <1>5, <1>16, <1>19, <2>2
    <3>2. j \in 1..Len(o)
      BY <2>1, <2>2
    <3> QED BY <1>16, <3>1, <3>2
  <2>3. CASE i = Len(o) + 1
    <3>1. Cardinality(Open(p, c, D)) = 0
      BY <1>5, <1>6
    <3>2. d \in D
      BY <1>5, <1>6, <1>16, <1>19, <2>3, <3>1, OpenFacts
    <3>3. PICK j \in 1..Len(o) : o[j] = d
      BY <2>1, <3>2 DEF ToSet
    <3>4. j \in 1..(i - 1)
      BY <2>1, <2>3
    <3> QED BY <1>16, <3>3, <3>4
  <2> QED BY <2>1, <2>2, <2>3
<1>20. LoopInv'
  <2>1. draft' = p /\ Structural(draft)' /\ DepsKnown(draft)' /\ draft' \in Drafts
    BY <1>1, <1>5
  <2> DEFINE o1 == Append(o, c)
             r1 == Tail(ready) \o released
  <2>2. kahn'.ordered = o1 /\ kahn'.ready = r1 /\ kahn'.incoming = open
    BY <1>3
  <2>3. /\ o1 \in Seq(Ids(p)) /\ r1 \in Seq(Ids(p)) /\ Distinct(o1) /\ Distinct(r1)
        /\ ToSet(o1) \cap ToSet(r1) = {}
    BY <1>14, <1>16, <1>18
  <2>4. \A id \in Ids(p) : /\ open[id] = Cardinality(Open(p, id, ToSet(o1)))
                           /\ open[id] = 0 <=> id \in ToSet(o1) \cup ToSet(r1)
    BY <1>8, <1>14, <1>16, <1>17
  <2>5. \A i \in 1..Len(o1) : \A d \in Needs(p, o1[i]) : \E j \in 1..(i - 1) : o1[j] = d
    BY <1>16, <1>19
  <2> HIDE DEF p, o1, r1
  <2> QED BY <2>1, <2>2, <2>3, <2>4, <2>5 DEF LoopInv
<1> QED BY <1>4, <1>20 DEF PlanningInv

LEMMA OrderEndsKeeps == ASSUME PlanningInv, OrderEnds PROVE PlanningInv'
<1>1. /\ phase = "order" /\ kahn.ready = << >> /\ LoopInv
      /\ UNCHANGED <<goal, offered, research>>
  BY DEF OrderEnds, PlanningInv
<1>2. CASE UNCHANGED planned /\ phase' \in {"draft", "fallback"}
  BY <1>1, <1>2 DEF PlanningInv, AnswerInv, FailsClosed
<1>3. CASE UNCHANGED planned /\ phase' = "direct" /\ ~Action(goal)
  BY <1>1, <1>3 DEF PlanningInv, AnswerInv, FailsClosed
<1>4. CASE Len(kahn.ordered) = Len(draft.steps) /\ Return("drafted", draft)
  <2>1. Structural(draft) /\ Orderable(draft)
    BY <1>1, <1>4, LoopExact DEF LoopInv
  <2>2. phase' = "done" /\ planned'.kind = "drafted" /\ planned'.plan = draft
    BY <1>4 DEF Return
  <2> QED BY <2>1, <2>2 DEF PlanningInv, AnswerInv, FailsClosed
<1> QED BY <1>2, <1>3, <1>4 DEF OrderEnds, Failed, Answered

(* A fixed plan is returned where the goal allows it. *)
LEMMA FixedKeeps ==
    ASSUME PlanningInv, NEW id \in {"date", "respond", "search"}, Return("fixed", OneStep(id)),
           UNCHANGED <<goal, research>>,
           id = "respond" => ~Action(goal) \/ (Explicit(goal) /\ research),
           id = "search" => Explicit(goal)
    PROVE  PlanningInv'
<1>1. phase' = "done" /\ planned'.kind = "fixed" /\ planned'.plan = OneStep(id)
  BY DEF Return
<1>2. Structural(OneStep(id)) /\ Orderable(OneStep(id))
  BY OneStepRuns
<1>3. \A x \in {"respond", "search"} : OneStep(id) = OneStep(x) => id = x
  BY DEF OneStep
<1>4. FailsClosed'
  BY <1>1, <1>2, <1>3 DEF FailsClosed
<1> QED BY <1>1, <1>4 DEF PlanningInv, AnswerInv

LEMMA RaiseKeepsPlanning ==
    ASSUME PlanningInv, Raise PROVE PlanningInv'
BY DEF Raise, PlanningInv, AnswerInv, FailsClosed

(* The other steps on the way only move. *)
LEMMA MoveKeeps ==
    ASSUME PlanningInv, UNCHANGED planned, phase' \notin {"order", "direct", "done"},
           phase # "done",
           phase' = "last_direct" => (~Action(goal) \/ (Explicit(goal) /\ research))'
    PROVE  PlanningInv'
BY DEF PlanningInv, AnswerInv, FailsClosed

LEMMA PlanningNextKeeps == PlanningInv /\ [PlanningNext]_planVars => PlanningInv'
<1> SUFFICES ASSUME PlanningInv, [PlanningNext]_planVars PROVE PlanningInv'
  OBVIOUS
<1>1. CASE UNCHANGED planVars
  BY <1>1 DEF planVars, PlanningInv, LoopInv, AnswerInv, FailsClosed
<1>2. ASSUME NEW g \in Goals, NEW ts \in SUBSET Tools, NEW r \in BOOLEAN, Plan(g, ts, r)
      PROVE  PlanningInv'
  BY <1>2, MoveKeeps DEF Plan
<1>3. CASE DatePlan
  BY <1>3, FixedKeeps DEF DatePlan
<1>4. CASE AskDraft \/ DraftFails
  BY <1>4, MoveKeeps DEF AskDraft, DraftFails, Failed
<1>5. CASE DraftEscapes
  BY <1>5, RaiseKeepsPlanning DEF DraftEscapes
<1>6. ASSUME NEW ok \in BOOLEAN, Direct(ok) PROVE PlanningInv'
  <2>1. UNCHANGED <<goal, research>> /\ phase \in {"direct", "last_direct"}
        /\ (~Action(goal) \/ (Explicit(goal) /\ research))
    BY <1>6 DEF Direct, PlanningInv, AnswerInv
  <2>2. CASE Return("fixed", OneStep("respond"))
    BY <2>1, <2>2, FixedKeeps
  <2>3. CASE Failed(tries) /\ UNCHANGED planned
    BY <2>1, <2>3, MoveKeeps DEF Failed
  <2> QED BY <1>6, <2>2, <2>3, RaiseKeepsPlanning DEF Direct
<1>7. CASE FallBack
  <2>1. UNCHANGED <<goal, research>> /\ phase = "fallback"
    BY <1>7 DEF FallBack
  <2>2. CASE MayAnswer /\ phase' = "last_direct" /\ UNCHANGED planned
    BY <2>1, <2>2, MoveKeeps DEF MayAnswer, Action, Explicit
  <2>3. CASE Explicit(goal) /\ Return("fixed", OneStep("search"))
    BY <2>1, <2>3, FixedKeeps
  <2> QED BY <1>7, <2>2, <2>3, RaiseKeepsPlanning DEF FallBack
<1> QED BY <1>1, <1>2, <1>3, <1>4, <1>5, <1>6, <1>7, DraftedKeeps, OrderStepKeeps, OrderEndsKeeps
        DEF PlanningNext

(* For any drafts, any bound on steps and repairs, and whatever the model    *)
(* answers: DependencyResolver.order accepts exactly the plans that can be   *)
(* ordered, and plan() returns only what can run and what the goal allows.   *)
THEOREM PlanningIsSafe == PlanningSpec => []PlanningSafe
<1>1. PlanningInv => PlanningSafe
  BY LoopExact DEF PlanningInv, PlanningSafe, OrderExact
<1> QED BY <1>1, PlanningInitHolds, PlanningNextKeeps, PTL DEF PlanningSpec
=============================================================================
