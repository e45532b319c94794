-------------------------- MODULE ProactiveProofs ---------------------------
(***************************************************************************)
(* Proofs about what works in the background: about Scheduler for any      *)
(* number of jobs, dependencies, keys, attempts, cancellations and         *)
(* crashes, about Memory for any number of memories, contents and clients, *)
(* and about Learning for any operators, proposals and memories adopted.   *)
(***************************************************************************)
EXTENDS Scheduler, Memory, Learning, WellFoundedInduction, TLAPS

(* Where a tick is: nothing is left over when it is done, and a job that is  *)
(* being run is the first of the batch, marked RUNNING in the ticker's copy. *)
TickPlace ==
    /\ pc = "idle" => batch = {}
    /\ pc \in {"route", "dispatch"} =>
          batch # {} /\ copy[First(batch)].status = "RUNNING"

(* A row says SUCCEEDED only of a recorded success. *)
SuccessRecorded == \A j \in Jobs : row[j].status = "SUCCEEDED" => j \in succeeded

(* What a tick has picked had its dependencies succeed. *)
BatchReady == \A j \in batch : deps[j] \subseteq succeeded

(* Jobs that nobody submitted are nowhere. *)
UnknownIdle ==
    \A j \in Jobs : row[j].status = "absent" => j \notin batch /\ dispatched[j] = 0

(* A job that succeeded, or was cancelled between ticks, is over: its row is *)
(* terminal, whatever stale copy is written to it, and no tick has picked    *)
(* it.                                                                       *)
OverIsOver ==
    \A j \in succeeded \cup withdrawn : row[j].status \in Terminal /\ j \notin batch

(* The job that is being run. *)
Current(j) == pc \in {"route", "dispatch"} /\ j = First(batch)

(* Until a crash loses count, every dispatch is paid for by an attempt: in   *)
(* the row while the job is queued, in the ticker's copy while it is in the  *)
(* batch.                                                                    *)
AttemptsPaid ==
    crashes = 0 => \A j \in Jobs :
        /\ row[j].status = "QUEUED" =>
              dispatched[j] <= row[j].attempts /\ row[j].attempts < MaxAttempts
        /\ (j \in batch /\ ~Current(j)) =>
              dispatched[j] <= copy[j].attempts /\ copy[j].attempts < MaxAttempts
        /\ Current(j) => copy[j].attempts <= MaxAttempts
        /\ (Current(j) /\ pc = "route") => dispatched[j] < copy[j].attempts
        /\ (Current(j) /\ pc = "dispatch") => dispatched[j] <= copy[j].attempts

(* The inductive invariant. *)
Inv ==
    /\ TypeOK
    /\ TickPlace
    /\ SuccessRecorded
    /\ BatchReady
    /\ UnknownIdle
    /\ OverIsOver
    /\ AttemptsPaid
    /\ DependenciesSucceeded
    /\ RetriesBounded

-----------------------------------------------------------------------------
(* A non-empty set of jobs has a first one, so tick() takes one of its batch. *)
LEMMA FirstIn ==
    ASSUME NEW S \in SUBSET Jobs, S # {}
    PROVE  First(S) \in S
<1> DEFINE R == {p \in Nat \X Nat : p[1] < p[2]}
<1>1. S \subseteq Nat
  BY SchedulerAssumption DEF Jobs
<1>2. IsWellFoundedOn(R, Nat)
  BY NatLessThanWellFounded, Zenon DEF OpToRel
<1>3. PICK x \in S : \A y \in S : ~(<<y, x>> \in R)
  <2> HIDE DEF R
  <2> QED BY <1>1, <1>2, WFMin
<1>4. \A y \in S : x <= y
  <2> SUFFICES ASSUME NEW y \in S PROVE x <= y
    OBVIOUS
  <2>1. x \in Nat /\ y \in Nat /\ <<y, x>> \in Nat \X Nat
    BY <1>1
  <2>2. ~(y < x)
    BY <1>3, <2>1
  <2> QED BY <2>1, <2>2
<1> QED BY <1>4 DEF First

(* A copy written back with another status keeps its attempts. *)
LEMMA Rewritten ==
    ASSUME NEW r \in Row, NEW s \in ScheduledStatus
    PROVE  /\ [r EXCEPT !.status = s] \in Row
           /\ [r EXCEPT !.status = s].status = s
           /\ [r EXCEPT !.status = s].attempts = r.attempts
           /\ r.attempts \in Nat
BY DEF Row

LEMMA InitInv == Init => Inv
<1> SUFFICES ASSUME Init PROVE Inv
  OBVIOUS
<1>1. TypeOK
  BY SchedulerAssumption DEF Init, TypeOK, Empty, NoRow, Row
<1>2. /\ TickPlace /\ SuccessRecorded /\ BatchReady /\ UnknownIdle /\ OverIsOver
      /\ DependenciesSucceeded
  BY DEF Init, Empty, NoRow, TickPlace, SuccessRecorded, BatchReady, UnknownIdle,
         OverIsOver, DependenciesSucceeded
<1>3. AttemptsPaid /\ RetriesBounded
  BY SchedulerAssumption DEF Init, Empty, NoRow, AttemptsPaid, Current, RetriesBounded
<1> QED BY <1>1, <1>2, <1>3 DEF Inv

LEMMA SubmitInv == ASSUME Inv, NEW j \in Jobs, Submit(j) PROVE Inv'
<1> USE DEF Inv, Submit, jobVars, tickVars, cancelVars
<1>1. row[j].status = "absent"
  BY DEF Known
<1>2. TypeOK'
  BY DEF TypeOK, Row, ScheduledStatus
<1>3. TickPlace' /\ BatchReady' /\ DependenciesSucceeded' /\ RetriesBounded'
  BY DEF TickPlace, BatchReady, DependenciesSucceeded, RetriesBounded
<1>4. SuccessRecorded' /\ UnknownIdle'
  BY DEF SuccessRecorded, UnknownIdle, TypeOK
<1>5. OverIsOver'
  BY <1>1 DEF OverIsOver, TypeOK, Terminal
<1>6. AttemptsPaid'
  BY <1>1, SchedulerAssumption DEF AttemptsPaid, Current, UnknownIdle, TypeOK
<1> QED BY <1>2, <1>3, <1>4, <1>5, <1>6

LEMMA TickInv == ASSUME Inv, Tick PROVE Inv'
<1> USE DEF Inv, Tick, jobVars, cancelVars
<1>1. batch' \subseteq ReadyIn(row) /\ ReadyIn(row) \subseteq Jobs
  BY DEF ReadyIn
<1>2. TypeOK'
  BY <1>1 DEF TypeOK
<1>3. TickPlace' /\ SuccessRecorded' /\ DependenciesSucceeded' /\ RetriesBounded'
  BY DEF TickPlace, SuccessRecorded, DependenciesSucceeded, RetriesBounded
<1>4. BatchReady' /\ UnknownIdle'
  BY <1>1 DEF BatchReady, UnknownIdle, SuccessRecorded, ReadyIn, TypeOK
<1>5. OverIsOver'
  BY <1>1 DEF OverIsOver, ReadyIn, Terminal
<1>6. AttemptsPaid'
  BY <1>1 DEF AttemptsPaid, Current, ReadyIn
<1> QED BY <1>2, <1>3, <1>4, <1>5, <1>6

LEMMA MissDeadlineInv == ASSUME Inv, MissDeadline PROVE Inv'
<1> USE DEF Inv, MissDeadline, jobVars, cancelVars
<1>1. PICK j \in missed : row' = [row EXCEPT ![j] = [copy[j] EXCEPT !.status = "FAILED"]]
  OBVIOUS
<1>2. /\ row' \in [Jobs -> Row] /\ j \in Jobs
      /\ row'[j].status = "FAILED"
      /\ \A k \in Jobs : k # j => row'[k] = row[k]
  BY <1>1, Rewritten DEF TypeOK, ScheduledStatus, Terminal
<1>3. TypeOK'
  BY <1>2 DEF TypeOK
<1>4. TickPlace' /\ BatchReady' /\ DependenciesSucceeded' /\ RetriesBounded'
  BY DEF TickPlace, BatchReady, DependenciesSucceeded, RetriesBounded
<1>5. SuccessRecorded' /\ UnknownIdle' /\ OverIsOver'
  BY <1>2 DEF SuccessRecorded, UnknownIdle, OverIsOver, Terminal, TypeOK
<1>6. AttemptsPaid'
  BY <1>2 DEF AttemptsPaid, Current
<1> QED BY <1>3, <1>4, <1>5, <1>6

LEMMA StartInv == ASSUME Inv, Start PROVE Inv'
<1> USE DEF Inv
<1> DEFINE j == First(batch)
           running == [status |-> "RUNNING", attempts |-> copy[j].attempts + 1]
<1>1. j \in batch /\ j \in Jobs
  BY FirstIn DEF Start, TypeOK
<1>2. /\ copy' = [copy EXCEPT ![j] = running]
      /\ row' = [row EXCEPT ![j] = running]
      /\ pc = "tick" /\ pc' = "route"
      /\ UNCHANGED <<deps, key, late, missed, batch, cancelling, held, cancels,
                     withdrawn, crashes, dispatched, succeeded>>
  BY DEF Start, jobVars, cancelVars
<1>3. copy[j].attempts \in Nat
  BY <1>1, Rewritten DEF TypeOK, ScheduledStatus
<1>4. running \in Row /\ running.status = "RUNNING"
  BY <1>3 DEF Row, ScheduledStatus
<1>5. running.attempts = copy[j].attempts + 1
  OBVIOUS
<1>6. First(batch)' = j
  BY <1>2
<1> HIDE DEF running, j
<1>7. TypeOK'
  BY <1>1, <1>2, <1>4 DEF TypeOK
<1>8. TickPlace' /\ BatchReady' /\ DependenciesSucceeded' /\ RetriesBounded'
  BY <1>1, <1>2, <1>4, <1>6
     DEF TickPlace, BatchReady, DependenciesSucceeded, RetriesBounded, TypeOK
<1>9. SuccessRecorded' /\ UnknownIdle' /\ OverIsOver'
  BY <1>1, <1>2, <1>4 DEF SuccessRecorded, UnknownIdle, OverIsOver, TypeOK
<1>10. AttemptsPaid'
  BY <1>1, <1>2, <1>3, <1>4, <1>5, <1>6, SchedulerAssumption
     DEF AttemptsPaid, Current, TypeOK
<1> QED BY <1>7, <1>8, <1>9, <1>10

(* The last write of a job in a tick, in any of its three forms. *)
LEMMA ConcludeInv ==
    ASSUME Inv, NEW status \in {"QUEUED", "FAILED", "SUCCEEDED"}, Conclude(status),
           pc \in {"route", "dispatch"},
           status = "QUEUED" => /\ pc = "dispatch"
                                /\ copy[First(batch)].attempts < MaxAttempts,
           UNCHANGED <<jobVars, late, copy, missed, cancelVars, crashes, dispatched>>
    PROVE  Inv'
<1> USE DEF Inv
<1> DEFINE j == First(batch)
           last == [copy[j] EXCEPT !.status = status]
<1>1. j \in batch /\ j \in Jobs
  BY FirstIn DEF TickPlace, TypeOK
<1>2. /\ row' = [row EXCEPT ![j] = last]
      /\ batch' = batch \ {j}
      /\ pc' = IF batch' = {} THEN "idle" ELSE "tick"
      /\ succeeded' = IF status = "SUCCEEDED" THEN succeeded \cup {j} ELSE succeeded
      /\ UNCHANGED <<deps, key, late, copy, missed, cancelling, held, cancels,
                     withdrawn, crashes, dispatched>>
  BY DEF Conclude, jobVars, cancelVars
<1>3. /\ last \in Row /\ last.status = status
      /\ last.attempts = copy[j].attempts /\ copy[j].attempts \in Nat
  BY <1>1, Rewritten DEF TypeOK, ScheduledStatus, Terminal
<1>4. j \notin succeeded \cup withdrawn
  BY <1>1 DEF OverIsOver
<1>5. \A k \in Jobs : k # j => ~Current(k)
  BY DEF Current
<1>6. Current(j)
  BY DEF Current
<1>7. status = "QUEUED" => pc = "dispatch" /\ copy[j].attempts < MaxAttempts
  OBVIOUS
<1> HIDE DEF last, j
<1>8. TypeOK'
  BY <1>1, <1>2, <1>3 DEF TypeOK
<1>9. TickPlace' /\ BatchReady' /\ DependenciesSucceeded' /\ RetriesBounded'
  BY <1>1, <1>2 DEF TickPlace, BatchReady, DependenciesSucceeded, RetriesBounded
<1>10. SuccessRecorded' /\ UnknownIdle'
  BY <1>1, <1>2, <1>3 DEF SuccessRecorded, UnknownIdle, TypeOK
<1>11. OverIsOver'
  BY <1>1, <1>2, <1>3, <1>4 DEF OverIsOver, TypeOK, Terminal
<1>12. AttemptsPaid'
  BY <1>1, <1>2, <1>3, <1>5, <1>6, <1>7 DEF AttemptsPaid, Current, TypeOK
<1> QED BY <1>8, <1>9, <1>10, <1>11, <1>12

LEMMA RouteInv == ASSUME Inv, Route PROVE Inv'
<1> USE DEF Inv
<1> DEFINE j == First(batch)
<1>1. j \in batch /\ j \in Jobs /\ copy[j].status = "RUNNING"
  BY FirstIn DEF Route, TickPlace, TypeOK
<1>2. /\ row' = [row EXCEPT ![j] = copy[j]]
      /\ dispatched' = [dispatched EXCEPT ![j] = @ + 1]
      /\ pc = "route" /\ pc' = "dispatch"
      /\ UNCHANGED <<deps, key, late, copy, missed, batch, cancelling, held, cancels,
                     withdrawn, crashes, succeeded>>
  BY DEF Route, jobVars, cancelVars
<1>3. First(batch)' = j /\ \A k \in Jobs : Current(k)' <=> k = j
  BY <1>2 DEF Current
<1>4. \A k \in Jobs : Current(k) <=> k = j
  BY <1>2 DEF Current
<1> HIDE DEF j
<1>5. TypeOK'
  BY <1>1, <1>2 DEF TypeOK
<1>6. TickPlace' /\ BatchReady' /\ SuccessRecorded' /\ UnknownIdle' /\ OverIsOver'
  BY <1>1, <1>2, <1>3
     DEF TickPlace, BatchReady, SuccessRecorded, UnknownIdle, OverIsOver, TypeOK
<1>7. DependenciesSucceeded'
  BY <1>1, <1>2 DEF BatchReady, DependenciesSucceeded, TypeOK
<1>8. copy[j].attempts \in Nat
  BY <1>1, Rewritten DEF TypeOK, ScheduledStatus
<1>9. AttemptsPaid' /\ RetriesBounded'
  BY <1>1, <1>2, <1>3, <1>4, <1>8, SchedulerAssumption
     DEF AttemptsPaid, RetriesBounded, TypeOK
<1> QED BY <1>5, <1>6, <1>7, <1>9

LEMMA CancelReadInv == ASSUME Inv, NEW j \in Jobs, CancelRead(j) PROVE Inv'
<1> USE DEF Inv, CancelRead, jobVars, tickVars
<1>1. TypeOK'
  BY SchedulerAssumption DEF TypeOK
<1>2. /\ TickPlace' /\ SuccessRecorded' /\ BatchReady' /\ UnknownIdle' /\ OverIsOver'
      /\ AttemptsPaid' /\ DependenciesSucceeded' /\ RetriesBounded'
  BY DEF TickPlace, SuccessRecorded, BatchReady, UnknownIdle, OverIsOver, AttemptsPaid,
         Current, DependenciesSucceeded, RetriesBounded
<1> QED BY <1>1, <1>2

LEMMA CancelWriteInv == ASSUME Inv, NEW j \in Jobs, CancelWrite(j) PROVE Inv'
<1> USE DEF Inv, CancelWrite, jobVars, tickVars
<1>1. /\ row' \in [Jobs -> Row]
      /\ row'[j].status = "CANCELLED"
      /\ \A k \in Jobs : k # j => row'[k] = row[k]
  BY Rewritten DEF TypeOK, ScheduledStatus, Terminal
<1>2. TypeOK'
  BY <1>1 DEF TypeOK
<1>3. TickPlace' /\ BatchReady' /\ DependenciesSucceeded' /\ RetriesBounded'
  BY DEF TickPlace, BatchReady, DependenciesSucceeded, RetriesBounded
<1>4. SuccessRecorded' /\ UnknownIdle' /\ AttemptsPaid'
  BY <1>1 DEF SuccessRecorded, UnknownIdle, AttemptsPaid, Current
<1>5. OverIsOver'
  BY <1>1 DEF OverIsOver, TickPlace, Terminal, TypeOK
<1> QED BY <1>2, <1>3, <1>4, <1>5

LEMMA DeadlinePassesInv == ASSUME Inv, NEW j \in Jobs, DeadlinePasses(j) PROVE Inv'
<1> USE DEF Inv, DeadlinePasses, jobVars, tickVars, cancelVars
<1>1. TypeOK'
  BY DEF TypeOK
<1>2. /\ TickPlace' /\ SuccessRecorded' /\ BatchReady' /\ UnknownIdle' /\ OverIsOver'
      /\ AttemptsPaid' /\ DependenciesSucceeded' /\ RetriesBounded'
  BY DEF TickPlace, SuccessRecorded, BatchReady, UnknownIdle, OverIsOver, AttemptsPaid,
         Current, DependenciesSucceeded, RetriesBounded
<1> QED BY <1>1, <1>2

LEMMA CrashInv == ASSUME Inv, Crash PROVE Inv'
<1> USE DEF Inv, Crash, jobVars
<1>1. /\ row' \in [Jobs -> Row]
      /\ \A j \in Jobs : \/ row'[j] = row[j]
                         \/ row[j].status = "RUNNING" /\ row'[j].status = "QUEUED"
  <2>1. ASSUME NEW j \in Jobs
        PROVE  /\ Resumed(row)[j] \in Row
               /\ \/ Resumed(row)[j] = row[j]
                  \/ row[j].status = "RUNNING" /\ Resumed(row)[j].status = "QUEUED"
    <3>1. row[j] \in Row /\ "QUEUED" \in ScheduledStatus
      BY DEF TypeOK, ScheduledStatus
    <3>2. Resumed(row)[j] = IF row[j].status = "RUNNING"
                            THEN [row[j] EXCEPT !.status = "QUEUED"] ELSE row[j]
      BY DEF Resumed
    <3> QED BY <3>1, <3>2, Rewritten
  <2>2. row' = [j \in Jobs |-> Resumed(row)[j]]
    BY DEF Resumed
  <2> QED BY <2>1, <2>2
<1>2. TypeOK'
  BY <1>1, SchedulerAssumption DEF TypeOK, Empty, NoRow, Row
<1>3. TickPlace' /\ BatchReady' /\ DependenciesSucceeded'
  BY DEF TickPlace, BatchReady, DependenciesSucceeded
<1>4. SuccessRecorded' /\ UnknownIdle' /\ OverIsOver'
  BY <1>1 DEF SuccessRecorded, UnknownIdle, OverIsOver, Terminal, TypeOK
<1>5. crashes' # 0
  BY SchedulerAssumption DEF TypeOK
<1>6. AttemptsPaid' /\ RetriesBounded'
  BY <1>5 DEF AttemptsPaid, RetriesBounded
<1> QED BY <1>2, <1>3, <1>4, <1>6

LEMMA NextInv == Inv /\ [Next]_vars => Inv'
<1> SUFFICES ASSUME Inv, [Next]_vars PROVE Inv'
  OBVIOUS
<1>1. CASE Tick \/ MissDeadline \/ Start \/ Route
  BY <1>1, TickInv, MissDeadlineInv, StartInv, RouteInv
<1>2. CASE RouteFails
  BY <1>2, ConcludeInv DEF RouteFails
<1>3. CASE DispatchRaises
  BY <1>3, ConcludeInv DEF DispatchRaises
<1>4. CASE DispatchReturns
  BY <1>4, ConcludeInv DEF DispatchReturns
<1>5. ASSUME NEW j \in Jobs,
             Submit(j) \/ CancelRead(j) \/ CancelWrite(j) \/ DeadlinePasses(j)
      PROVE  Inv'
  BY <1>5, SubmitInv, CancelReadInv, CancelWriteInv, DeadlinePassesInv
<1>6. CASE Crash
  BY <1>6, CrashInv
<1>7. CASE UNCHANGED vars
  BY <1>7 DEF vars, Inv, TypeOK, TickPlace, SuccessRecorded, BatchReady, UnknownIdle,
              OverIsOver, AttemptsPaid, Current, DependenciesSucceeded, RetriesBounded
<1> QED BY <1>1, <1>2, <1>3, <1>4, <1>5, <1>6, <1>7 DEF Next, Ticker

LEMMA Invariant == Spec => []Inv
BY InitInv, NextInv, PTL DEF Spec

(* The only step that dispatches hands out a job that is not over. *)
LEMMA DispatchesOpenJobs ==
    ASSUME Inv, [Next]_vars, NEW j \in succeeded \cup withdrawn
    PROVE  dispatched'[j] = dispatched[j]
<1>1. CASE Route
  <2>1. First(batch) \in batch
    BY <1>1, FirstIn DEF Route, Inv, TickPlace, TypeOK
  <2> QED BY <1>1, <2>1 DEF Route, Inv, OverIsOver, TypeOK
<1>2. CASE Ticker /\ ~Route
  BY <1>2 DEF Ticker, Tick, MissDeadline, Start, RouteFails, DispatchRaises,
              DispatchReturns
<1>3. ASSUME NEW k \in Jobs,
             Submit(k) \/ CancelRead(k) \/ CancelWrite(k) \/ DeadlinePasses(k)
      PROVE  dispatched' = dispatched
  BY <1>3 DEF Submit, CancelRead, CancelWrite, DeadlinePasses
<1>4. CASE Crash \/ UNCHANGED vars
  BY <1>4 DEF Crash, vars
<1> QED BY <1>1, <1>2, <1>3, <1>4 DEF Next, Ticker

-----------------------------------------------------------------------------
(* A job is dispatched only after its dependencies succeeded and, until a    *)
(* crash, at most max_attempts times, although ticker and cancel() write     *)
(* whole copies over each other (GlobalScheduler.tick, cancel, submit).      *)
THEOREM JobsAreSafe == Spec => []JobsSafe
<1>1. Inv => JobsSafe
  BY DEF Inv, JobsSafe
<1> QED BY <1>1, Invariant, PTL

(* A job that succeeded, or was cancelled between two ticks, is never        *)
(* dispatched again, across crashes and stale writes (_run_one, cancel,      *)
(* resume_interrupted).                                                      *)
THEOREM DispatchIsSafe == Spec => DispatchSafe
<1>1. ASSUME Inv, [Next]_vars
      PROVE  [\A j \in succeeded : dispatched'[j] = dispatched[j]]_vars
  BY <1>1, DispatchesOpenJobs
<1>2. ASSUME Inv, [Next]_vars
      PROVE  [\A j \in withdrawn : dispatched'[j] = dispatched[j]]_vars
  BY <1>2, DispatchesOpenJobs
<1>3. Spec => SucceededOnce
  BY <1>1, Invariant, PTL DEF Spec, SucceededOnce
<1>4. Spec => WithdrawnNotDispatched
  BY <1>2, Invariant, PTL DEF Spec, WithdrawnNotDispatched
<1> QED BY <1>3, <1>4 DEF DispatchSafe

-----------------------------------------------------------------------------
(* Memory *)

Places == {"idle", "put", "store", "link", "archive", "bury"}
ClientStates == [at : Places, id : 0..MaxMemories, row : Rows \cup {Absent},
                 todo : SUBSET Memories, from : 0..MaxMemories]

(* A row whose verification, if any, is of the content it has. *)
Honest == {r \in Rows : r.verified => r.receipt = r.content}

RowsHonest == memory \in [Memories -> Honest \cup {Absent}]

(* What a client is about to write is an honest row of a memory. *)
ClientsHonest ==
    \A t \in Clients :
        /\ client[t].at \in {"put", "store", "link", "archive", "bury"} => client[t].id \in Memories
        /\ client[t].at \in {"put", "link", "bury"} => client[t].row \in Honest
        /\ client[t].at = "bury" => client[t].from \in Memories

(* While the sources are archived, the memory that replaces them is there,   *)
(* or was deleted.                                                           *)
Replaced(m) == memory[m] # Absent \/ m \in deleted
MergedFirst ==
    \A t \in Clients : client[t].at \in {"archive", "bury"} => Replaced(client[t].id)

(* The inductive invariant. *)
MemoryInv ==
    /\ MemoryTypeOK
    /\ client \in [Clients -> ClientStates]
    /\ RowsHonest
    /\ ClientsHonest
    /\ MergedFirst
    /\ ConsolidationKeeps

USE MemoryAssumption

-----------------------------------------------------------------------------
(* The rows the store makes out of others. *)
LEMMA AbsentIsNoRow == Absent \notin Rows /\ ~Absent.verified
BY DEF Absent, Rows

LEMMA FreshIsHonest ==
    ASSUME NEW c \in Contents, NEW receipt \in {"none", c}
    PROVE  Fresh(c, receipt) \in Honest
BY DEF Fresh, Honest, Rows

LEMMA EditedIsHonest ==
    ASSUME NEW r \in Honest, NEW c \in Contents
    PROVE  Archived(r) \in Honest /\ Updated(r, c) \in Honest
<1>1. r \in Rows /\ (r.verified => r.receipt = r.content)
  BY DEF Honest
<1>2. Archived(r) \in Rows /\ Archived(r).verified = r.verified
         /\ Archived(r).receipt = r.receipt /\ Archived(r).content = r.content
  BY <1>1 DEF Archived, Rows
<1>3. Updated(r, c) \in Rows /\ ~Updated(r, c).verified
  BY <1>1 DEF Updated, Rows
<1> QED BY <1>1, <1>2, <1>3 DEF Honest

LEMMA FreeFields ==
    /\ Free \in ClientStates /\ Free.at = "idle"
BY DEF Free, ClientStates, Places

(* The invariant from its parts: a memory that is replaced stays so unless a *)
(* row is removed, which is recorded.                                        *)
LEMMA Kept ==
    ASSUME MemoryInv, made' \in 0..MaxMemories, deleted' \in SUBSET Memories,
           memory' \in [Memories -> Honest \cup {Absent}],
           merged' = merged,
           \A m \in Memories : Replaced(m) => Replaced(m)'
    PROVE  MemoryTypeOK' /\ RowsHonest' /\ ConsolidationKeeps'
<1>1. memory' \in [Memories -> Rows \cup {Absent}]
  BY DEF Honest
<1>2. MemoryTypeOK'
  BY <1>1 DEF MemoryInv, MemoryTypeOK
<1>3. \A m \in Memories : merged[m] \in Memories
  BY DEF MemoryInv, MemoryTypeOK
<1>4. ConsolidationKeeps'
  BY <1>3 DEF MemoryInv, ConsolidationKeeps, Replaced
<1> QED BY <1>2, <1>4 DEF RowsHonest

LEMMA RowWritten ==
    ASSUME MemoryInv, NEW m \in Memories, NEW r \in Honest,
           memory' = [memory EXCEPT ![m] = r], deleted' = deleted
    PROVE  /\ memory' \in [Memories -> Honest \cup {Absent}]
           /\ \A x \in Memories : Replaced(x) => Replaced(x)'
           /\ Replaced(m)'
<1>1. r # Absent
  BY AbsentIsNoRow DEF Honest
<1>2. /\ memory' \in [Memories -> Honest \cup {Absent}] /\ memory'[m] = r
      /\ \A x \in Memories : x # m => memory'[x] = memory[x]
  BY DEF MemoryInv, RowsHonest
<1> QED BY <1>1, <1>2 DEF Replaced

LEMMA RowsRemoved ==
    ASSUME MemoryInv, NEW m \in Memories, Remove({m})
    PROVE  /\ memory' \in [Memories -> Honest \cup {Absent}]
           /\ \A x \in Memories : Replaced(x) => Replaced(x)'
           /\ deleted' \in SUBSET Memories
BY DEF MemoryInv, MemoryTypeOK, RowsHonest, Remove, Replaced

LEMMA ClientsSame ==
    ASSUME MemoryInv, UNCHANGED client, \A m \in Memories : Replaced(m) => Replaced(m)'
    PROVE  client' \in [Clients -> ClientStates] /\ ClientsHonest' /\ MergedFirst'
<1>1. client' \in [Clients -> ClientStates] /\ ClientsHonest'
  BY DEF MemoryInv, ClientsHonest
<1>2. MergedFirst'
  BY DEF MemoryInv, ClientsHonest, MergedFirst, Replaced
<1> QED BY <1>1, <1>2

LEMMA ClientSet ==
    ASSUME MemoryInv, NEW t \in Clients, NEW c \in ClientStates,
           client' = [client EXCEPT ![t] = c],
           c.at # "idle" => c.id \in Memories,
           c.at \in {"put", "link", "bury"} => c.row \in Honest,
           c.at = "bury" => c.from \in Memories,
           c.at \in {"archive", "bury"} => memory'[c.id] # Absent \/ c.id \in deleted',
           \A m \in Memories : Replaced(m) => Replaced(m)'
    PROVE  client' \in [Clients -> ClientStates] /\ ClientsHonest' /\ MergedFirst'
<1>1. /\ client' \in [Clients -> ClientStates] /\ client'[t] = c
      /\ \A x \in Clients : x # t => client'[x] = client[x]
  BY DEF MemoryInv
<1>2. ClientsHonest'
  BY <1>1 DEF MemoryInv, ClientsHonest
<1>3. ASSUME NEW x \in Clients, client'[x].at \in {"archive", "bury"}
      PROVE  memory'[client'[x].id] # Absent \/ client'[x].id \in deleted'
  <2>1. CASE x = t
    BY <1>1, <1>3, <2>1
  <2>2. CASE x # t
    BY <1>1, <1>3, <2>2 DEF MemoryInv, ClientsHonest, MergedFirst, Replaced
  <2> QED BY <2>1, <2>2
<1>4. MergedFirst'
  BY <1>3 DEF MergedFirst, Replaced
<1> QED BY <1>1, <1>2, <1>4

LEMMA Stays ==
    ASSUME MemoryInv, UNCHANGED <<memory, deleted>>
    PROVE  /\ memory' \in [Memories -> Honest \cup {Absent}]
           /\ deleted' \in SUBSET Memories
           /\ \A m \in Memories : Replaced(m) => Replaced(m)'
BY DEF MemoryInv, MemoryTypeOK, RowsHonest, Replaced

-----------------------------------------------------------------------------
LEMMA StoreKeeps ==
    ASSUME MemoryInv, NEW t \in Clients, NEW c \in Contents,
           NEW receipt \in Contents \cup {"none"}, Store(t, c, receipt)
    PROVE  MemoryInv'
<1>1. made' \in Memories /\ made' \in 0..MaxMemories
  BY DEF MemoryInv, MemoryTypeOK, Store, Memories
<1>2. Fresh(c, receipt) \in Honest
  BY FreshIsHonest DEF Store
<1>3. /\ memory' \in [Memories -> Honest \cup {Absent}]
      /\ \A x \in Memories : Replaced(x) => Replaced(x)'
  BY <1>1, <1>2, RowWritten DEF Store
<1>4. MemoryTypeOK' /\ RowsHonest' /\ ConsolidationKeeps'
  BY <1>1, <1>3, Kept DEF Store, MemoryInv, MemoryTypeOK
<1>5. client' \in [Clients -> ClientStates] /\ ClientsHonest' /\ MergedFirst'
  BY <1>3, ClientsSame DEF Store
<1> QED BY <1>4, <1>5 DEF MemoryInv

LEMMA ReadRowKeeps ==
    ASSUME MemoryInv, NEW t \in Clients, NEW m \in Memories, ReadRow(t, m)
    PROVE  MemoryInv'
<1>1. memory[m] \in Honest
  BY DEF MemoryInv, RowsHonest, ReadRow
<1>2. PICK r \in {Archived(memory[m])} \cup {Updated(memory[m], c) : c \in Contents} :
         client' = [client EXCEPT ![t] = [Free EXCEPT !.at = "put", !.id = m, !.row = r]]
  BY DEF ReadRow
<1>3. r \in Honest
  <2>1. CASE r = Archived(memory[m])
    <3>1. memory[m].content \in Contents
      BY <1>1 DEF Honest, Rows
    <3> QED BY <1>1, <2>1, <3>1, EditedIsHonest
  <2>2. CASE r \in {Updated(memory[m], c) : c \in Contents}
    BY <1>1, <2>2, EditedIsHonest
  <2> QED BY <1>2, <2>1, <2>2
<1> DEFINE c == [Free EXCEPT !.at = "put", !.id = m, !.row = r]
<1>4. c \in ClientStates /\ c.at = "put" /\ c.id = m /\ c.row = r
  <2>1. m \in 0..MaxMemories /\ r \in Rows
    BY <1>3 DEF Memories, Honest
  <2> QED BY <2>1, FreeFields DEF ClientStates, Places
<1>5. client' = [client EXCEPT ![t] = c]
  BY <1>2
<1> HIDE DEF c
<1>6. /\ memory' \in [Memories -> Honest \cup {Absent}]
      /\ deleted' \in SUBSET Memories
      /\ \A x \in Memories : Replaced(x) => Replaced(x)'
  BY Stays DEF ReadRow
<1>7. MemoryTypeOK' /\ RowsHonest' /\ ConsolidationKeeps'
  BY <1>6, Kept DEF ReadRow, MemoryInv, MemoryTypeOK
<1>8. client' \in [Clients -> ClientStates] /\ ClientsHonest' /\ MergedFirst'
  BY <1>3, <1>4, <1>5, <1>6, ClientSet
<1> QED BY <1>7, <1>8 DEF MemoryInv

LEMMA WriteRowKeeps ==
    ASSUME MemoryInv, NEW t \in Clients, WriteRow(t)
    PROVE  MemoryInv'
<1>1. client[t].id \in Memories /\ client[t].row \in Honest
  BY DEF MemoryInv, ClientsHonest, WriteRow
<1>2. /\ memory' \in [Memories -> Honest \cup {Absent}]
      /\ \A x \in Memories : Replaced(x) => Replaced(x)'
  BY <1>1, RowWritten DEF WriteRow
<1>3. MemoryTypeOK' /\ RowsHonest' /\ ConsolidationKeeps'
  BY <1>2, Kept DEF WriteRow, MemoryInv, MemoryTypeOK
<1>4. client' \in [Clients -> ClientStates] /\ ClientsHonest' /\ MergedFirst'
  BY <1>2, FreeFields, ClientSet DEF WriteRow
<1> QED BY <1>3, <1>4 DEF MemoryInv

LEMMA RemoveKeeps ==
    ASSUME MemoryInv, NEW m \in Memories, Remove({m}), UNCHANGED client
    PROVE  MemoryInv'
<1>1. /\ memory' \in [Memories -> Honest \cup {Absent}]
      /\ deleted' \in SUBSET Memories
      /\ \A x \in Memories : Replaced(x) => Replaced(x)'
  BY RowsRemoved
<1>2. MemoryTypeOK' /\ RowsHonest' /\ ConsolidationKeeps'
  BY <1>1, Kept DEF Remove, MemoryInv, MemoryTypeOK
<1>3. client' \in [Clients -> ClientStates] /\ ClientsHonest' /\ MergedFirst'
  BY <1>1, ClientsSame
<1> QED BY <1>2, <1>3 DEF MemoryInv

LEMMA ConsolidateKeeps ==
    ASSUME MemoryInv, NEW t \in Clients, NEW S \in SUBSET Memories, Consolidate(t, S)
    PROVE  MemoryInv'
<1>1. made' \in Memories /\ made' \in 0..MaxMemories
  BY DEF MemoryInv, MemoryTypeOK, Consolidate, Memories
<1> DEFINE c == [Free EXCEPT !.at = "store", !.id = made', !.todo = S]
<1>2. c \in ClientStates /\ c.at = "store" /\ c.id = made'
  BY <1>1, FreeFields DEF ClientStates, Places
<1>3. client' = [client EXCEPT ![t] = c]
  BY DEF Consolidate
<1> HIDE DEF c
<1>4. /\ memory' \in [Memories -> Honest \cup {Absent}]
      /\ deleted' \in SUBSET Memories
      /\ \A x \in Memories : Replaced(x) => Replaced(x)'
  BY Stays DEF Consolidate
<1>5. MemoryTypeOK' /\ RowsHonest' /\ ConsolidationKeeps'
  BY <1>1, <1>4, Kept DEF Consolidate
<1>6. client' \in [Clients -> ClientStates] /\ ClientsHonest' /\ MergedFirst'
  BY <1>1, <1>2, <1>3, <1>4, ClientSet
<1> QED BY <1>5, <1>6 DEF MemoryInv

LEMMA StoreMergedKeeps ==
    ASSUME MemoryInv, NEW t \in Clients, StoreMerged(t)
    PROVE  MemoryInv'
<1>1. PICK k \in Contents :
         /\ memory' = [memory EXCEPT ![client[t].id] = Fresh(k, "none")]
         /\ client' = [client EXCEPT ![t].at = "link", ![t].row = Fresh(k, "none")]
  BY DEF StoreMerged
<1>2. Fresh(k, "none") \in Honest /\ Fresh(k, "none") \in Rows
  BY FreshIsHonest DEF Honest
<1>3. client[t].id \in Memories /\ client[t] \in ClientStates
  BY DEF MemoryInv, ClientsHonest, StoreMerged
<1>4. /\ memory' \in [Memories -> Honest \cup {Absent}]
      /\ \A x \in Memories : Replaced(x) => Replaced(x)'
  BY <1>1, <1>2, <1>3, RowWritten DEF StoreMerged
<1> DEFINE r == Fresh(k, "none")
           c == [client[t] EXCEPT !.at = "link", !.row = r]
<1> HIDE DEF r
<1>5. r \in Honest /\ r \in Rows
  BY <1>2 DEF r
<1>6. c \in ClientStates /\ c.at = "link" /\ c.id = client[t].id /\ c.row = r
  BY <1>3, <1>5 DEF ClientStates, Places
<1>7. client' = [client EXCEPT ![t] = c]
  BY <1>1 DEF r, MemoryInv
<1> HIDE DEF c
<1>8. MemoryTypeOK' /\ RowsHonest' /\ ConsolidationKeeps'
  BY <1>4, Kept DEF StoreMerged, MemoryInv, MemoryTypeOK
<1>9. client' \in [Clients -> ClientStates] /\ ClientsHonest' /\ MergedFirst'
  BY <1>3, <1>4, <1>5, <1>6, <1>7, ClientSet
<1> QED BY <1>8, <1>9 DEF MemoryInv

LEMMA LinkMergedKeeps ==
    ASSUME MemoryInv, NEW t \in Clients, LinkMerged(t)
    PROVE  MemoryInv'
<1>1. client[t].id \in Memories /\ client[t].row \in Honest /\ client[t] \in ClientStates
  BY DEF MemoryInv, ClientsHonest, LinkMerged
<1>2. /\ memory' \in [Memories -> Honest \cup {Absent}]
      /\ \A x \in Memories : Replaced(x) => Replaced(x)'
      /\ memory'[client[t].id] # Absent \/ client[t].id \in deleted'
  BY <1>1, RowWritten DEF LinkMerged, Replaced
<1> DEFINE c == [client[t] EXCEPT !.at = "archive", !.row = Absent]
<1>3. c \in ClientStates /\ c.at = "archive" /\ c.id = client[t].id
  BY <1>1 DEF ClientStates, Places
<1>4. client' = [client EXCEPT ![t] = c]
  BY DEF LinkMerged, MemoryInv
<1> HIDE DEF c
<1>5. MemoryTypeOK' /\ RowsHonest' /\ ConsolidationKeeps'
  BY <1>2, Kept DEF LinkMerged, MemoryInv, MemoryTypeOK
<1>6. client' \in [Clients -> ClientStates] /\ ClientsHonest' /\ MergedFirst'
  BY <1>1, <1>2, <1>3, <1>4, ClientSet
<1> QED BY <1>5, <1>6 DEF MemoryInv

LEMMA ArchiveReadKeeps ==
    ASSUME MemoryInv, NEW t \in Clients, ArchiveRead(t)
    PROVE  MemoryInv'
<1>1. /\ memory' \in [Memories -> Honest \cup {Absent}]
      /\ deleted' \in SUBSET Memories
      /\ \A x \in Memories : Replaced(x) => Replaced(x)'
  BY Stays DEF ArchiveRead
<1>2. MemoryTypeOK' /\ RowsHonest' /\ ConsolidationKeeps'
  BY <1>1, Kept DEF ArchiveRead, MemoryInv, MemoryTypeOK
<1>3. CASE client' = [client EXCEPT ![t] = Free]
  <2>1. client' \in [Clients -> ClientStates] /\ ClientsHonest' /\ MergedFirst'
    BY <1>1, <1>3, FreeFields, ClientSet
  <2> QED BY <1>2, <2>1 DEF MemoryInv
<1>4. ASSUME NEW s \in client[t].todo, memory[s] # Absent,
             client' = [client EXCEPT ![t].at = "bury", ![t].from = s,
                                      ![t].row = Archived(memory[s]), ![t].todo = @ \ {s}]
      PROVE  MemoryInv'
  <2>1. client[t] \in ClientStates /\ client[t].id \in Memories /\ client[t].at = "archive"
    BY DEF MemoryInv, ClientsHonest, ArchiveRead
  <2>2. s \in Memories /\ s \in 0..MaxMemories
    BY <1>4, <2>1 DEF ClientStates, Memories
  <2>3. memory[s] \in Honest
    BY <1>4, <2>2 DEF MemoryInv, RowsHonest
  <2>4. Archived(memory[s]) \in Honest
    <3>1. memory[s].content \in Contents
      BY <2>3 DEF Honest, Rows
    <3> QED BY <2>3, <3>1, EditedIsHonest
  <2> DEFINE r == Archived(memory[s])
             w == client[t].todo \ {s}
  <2>5. r \in Honest /\ r \in Rows /\ w \in SUBSET Memories
    BY <2>1, <2>4 DEF Honest, ClientStates
  <2> DEFINE c == [client[t] EXCEPT !.at = "bury", !.from = s, !.row = r, !.todo = w]
  <2>6. client' = [client EXCEPT ![t] = c]
    BY <1>4 DEF MemoryInv
  <2> HIDE DEF r, w
  <2>7. /\ c \in ClientStates /\ c.at = "bury" /\ c.id = client[t].id
        /\ c.row = r /\ c.from = s
    BY <2>1, <2>2, <2>5 DEF ClientStates, Places
  <2> HIDE DEF c
  <2>8. memory'[c.id] # Absent \/ c.id \in deleted'
    BY <2>1, <2>7, <1>1 DEF MemoryInv, MergedFirst, Replaced
  <2>9. client' \in [Clients -> ClientStates] /\ ClientsHonest' /\ MergedFirst'
    BY <1>1, <2>1, <2>2, <2>5, <2>6, <2>7, <2>8, ClientSet
  <2> QED BY <1>2, <2>9 DEF MemoryInv
<1> QED BY <1>3, <1>4 DEF ArchiveRead

LEMMA ArchiveWriteKeeps ==
    ASSUME MemoryInv, NEW t \in Clients, ArchiveWrite(t)
    PROVE  MemoryInv'
<1> DEFINE s == client[t].from
<1>1. /\ s \in Memories /\ client[t].row \in Honest /\ client[t] \in ClientStates
      /\ client[t].id \in Memories /\ client[t].at = "bury"
  BY DEF MemoryInv, ClientsHonest, ArchiveWrite
<1>2. /\ memory' \in [Memories -> Honest \cup {Absent}]
      /\ \A x \in Memories : Replaced(x) => Replaced(x)'
  BY <1>1, RowWritten DEF ArchiveWrite
<1>3. memory'[client[t].id] # Absent \/ client[t].id \in deleted'
  BY <1>1, <1>2 DEF MemoryInv, MergedFirst, Replaced
<1> DEFINE c == [client[t] EXCEPT !.at = "archive", !.from = 0, !.row = Absent]
<1>4. c \in ClientStates /\ c.at = "archive" /\ c.id = client[t].id
  <2>1. 0 \in 0..MaxMemories
    OBVIOUS
  <2> QED BY <1>1, <2>1 DEF ClientStates, Places
<1>5. client' = [client EXCEPT ![t] = c]
  BY DEF ArchiveWrite, MemoryInv
<1> HIDE DEF c
<1>6. client' \in [Clients -> ClientStates] /\ ClientsHonest' /\ MergedFirst'
  BY <1>1, <1>2, <1>3, <1>4, <1>5, ClientSet
<1>7. /\ merged' \in [Memories -> Memories] /\ merged'[s] = client[t].id
      /\ \A m \in Memories : m # s => merged'[m] = merged[m]
  BY <1>1 DEF ArchiveWrite, MemoryInv, MemoryTypeOK
<1>8. MemoryTypeOK'
  <2>1. memory' \in [Memories -> Rows \cup {Absent}]
    BY <1>2 DEF Honest
  <2> QED BY <1>7, <2>1 DEF ArchiveWrite, MemoryInv, MemoryTypeOK
<1>9. ConsolidationKeeps'
  <2> SUFFICES ASSUME NEW m \in Memories, merged'[m] # m
               PROVE  memory'[merged'[m]] # Absent \/ merged'[m] \in deleted'
    BY DEF ConsolidationKeeps
  <2>1. CASE m = s
    BY <1>3, <1>7, <2>1
  <2>2. CASE m # s
    <3>1. merged'[m] = merged[m] /\ merged[m] \in Memories
      BY <1>7, <2>2 DEF MemoryInv, MemoryTypeOK
    <3>2. Replaced(merged[m])
      BY <3>1 DEF MemoryInv, ConsolidationKeeps, Replaced
    <3> QED BY <1>2, <3>1, <3>2 DEF Replaced
  <2> QED BY <2>1, <2>2
<1> QED BY <1>2, <1>6, <1>8, <1>9 DEF MemoryInv, RowsHonest

LEMMA MemoryCrashKeeps ==
    ASSUME MemoryInv, MemoryCrash
    PROVE  MemoryInv'
<1>1. /\ memory' \in [Memories -> Honest \cup {Absent}]
      /\ deleted' \in SUBSET Memories
      /\ \A x \in Memories : Replaced(x) => Replaced(x)'
  BY Stays DEF MemoryCrash
<1>2. MemoryTypeOK' /\ RowsHonest' /\ ConsolidationKeeps'
  BY <1>1, Kept DEF MemoryCrash, MemoryInv, MemoryTypeOK
<1>3. client' \in [Clients -> ClientStates] /\ \A t \in Clients : client'[t].at = "idle"
  BY FreeFields DEF MemoryCrash
<1>4. ClientsHonest' /\ MergedFirst'
  BY <1>3 DEF ClientsHonest, MergedFirst
<1> QED BY <1>2, <1>3, <1>4 DEF MemoryInv

-----------------------------------------------------------------------------
LEMMA MemoryInitHolds == MemoryInit => MemoryInv
<1> SUFFICES ASSUME MemoryInit PROVE MemoryInv
  OBVIOUS
<1>1. MemoryTypeOK /\ RowsHonest
  BY DEF MemoryInit, MemoryTypeOK, RowsHonest
<1>2. client \in [Clients -> ClientStates] /\ \A t \in Clients : client[t].at = "idle"
  BY FreeFields DEF MemoryInit
<1>3. ClientsHonest /\ MergedFirst
  BY <1>2 DEF ClientsHonest, MergedFirst
<1>4. ConsolidationKeeps
  BY DEF MemoryInit, ConsolidationKeeps
<1> QED BY <1>1, <1>2, <1>3, <1>4 DEF MemoryInv

LEMMA MemoryNextKeeps == MemoryInv /\ [MemoryNext]_memoryVars => MemoryInv'
<1> SUFFICES ASSUME MemoryInv, [MemoryNext]_memoryVars PROVE MemoryInv'
  OBVIOUS
<1>1. ASSUME NEW t \in Clients, NEW c \in Contents, NEW receipt \in Contents \cup {"none"},
             Store(t, c, receipt)
      PROVE  MemoryInv'
  BY <1>1, StoreKeeps
<1>2. ASSUME NEW t \in Clients, NEW m \in Memories, ReadRow(t, m) \/ Delete(t, m)
      PROVE  MemoryInv'
  BY <1>2, ReadRowKeeps, RemoveKeeps DEF Delete
<1>3. ASSUME NEW t \in Clients, NEW S \in SUBSET Memories, Consolidate(t, S)
      PROVE  MemoryInv'
  BY <1>3, ConsolidateKeeps
<1>4. ASSUME NEW t \in Clients, Purge(t)
      PROVE  MemoryInv'
  BY <1>4, RemoveKeeps DEF Purge
<1>5. ASSUME NEW t \in Clients,
             WriteRow(t) \/ StoreMerged(t) \/ LinkMerged(t) \/ ArchiveRead(t) \/ ArchiveWrite(t)
      PROVE  MemoryInv'
  BY <1>5, WriteRowKeeps, StoreMergedKeeps, LinkMergedKeeps, ArchiveReadKeeps, ArchiveWriteKeeps
<1>6. CASE UNCHANGED memoryVars
  BY <1>6 DEF memoryVars, MemoryInv, MemoryTypeOK, RowsHonest, ClientsHonest, MergedFirst,
              Replaced, ConsolidationKeeps
<1> QED BY <1>1, <1>2, <1>3, <1>4, <1>5, <1>6, MemoryCrashKeeps DEF MemoryNext

(* Concurrent updates, archives, deletions, purges and consolidations, and a *)
(* crash anywhere, neither leave a memory verified for another content than  *)
(* its receipt's, nor lose what a consolidation took out of sight            *)
(* (MemoryStore.update, apply_consolidation, MemoryRepository.update).       *)
THEOREM MemoriesAreSafe == MemorySpec => []MemorySafe
<1>1. MemoryInv => MemorySafe
  <2> SUFFICES ASSUME MemoryInv PROVE MemorySafe
    OBVIOUS
  <2>1. VerifiedMatches
    BY AbsentIsNoRow DEF MemoryInv, RowsHonest, Honest, VerifiedMatches
  <2> QED BY <2>1 DEF MemoryInv, MemorySafe
<1> QED BY <1>1, MemoryInitHolds, MemoryNextKeeps, PTL DEF MemorySpec

-----------------------------------------------------------------------------
(* Learning.                                                               *)

RowStates == [status : {"none", "PROPOSED", "ADOPTED", "REJECTED", "ROLLED_BACK"},
              content : Actions \cup {"none"}, target : Targets \cup {"none"},
              object : 0..MaxObjects]
OperatorStates == [at : {"idle", "adopt", "undo", "file"}, p : 0..MaxProposals, row : RowStates]

LearningTypes ==
    /\ filed \in 0..MaxProposals
    /\ governor \in [mode : GovernorModes, killed : BOOLEAN]
    /\ posture \in [mode : GovernorModes, killed : BOOLEAN]
    /\ minted \in 0..MaxObjects
    /\ objects \subseteq 1..minted
    /\ profile \in [flows : SUBSET Actions, tools : BOOLEAN]
    /\ proposal \in [Proposals -> RowStates]
    /\ operator \in [Operators -> OperatorStates]

(* A row, in the store or in an operator's hands, names a memory only when   *)
(* it was adopted as one that exists or existed.                             *)
Traceable(entry, n) ==
    /\ entry.object \in 0..n
    /\ entry.object # 0 => entry.target = "memory"
    /\ entry.status # "none" => entry.content \in Actions
    /\ entry.status = "PROPOSED" => entry.object = 0

RowsTraceable == \A p \in Proposals : Traceable(proposal[p], minted)

OperatorsTraceable ==
    \A o \in Operators : operator[o].at # "idle" =>
        /\ operator[o].p \in Proposals
        /\ Traceable(operator[o].row, minted)
        /\ operator[o].row.status \in {"ADOPTED", "REJECTED", "ROLLED_BACK"}
        /\ operator[o].at = "adopt" => operator[o].row.object = 0

(* Who is about to file a rollback has undone the adoption. *)
UndoneBeforeFiled ==
    \A o \in Operators :
        /\ operator[o].at = "file" /\ operator[o].row.status = "ROLLED_BACK" =>
              operator[o].row.object \notin objects
        /\ operator[o].at = "adopt" => operator[o].row.status = "ADOPTED"

(* The memory a rolled back row names is gone. *)
NamedGone ==
    \A p \in Proposals :
        proposal[p].status = "ROLLED_BACK" => proposal[p].object \notin objects

(* The inductive invariant. *)
LearningInv ==
    /\ LearningTypes
    /\ RowsTraceable
    /\ OperatorsTraceable
    /\ UndoneBeforeFiled
    /\ NamedGone

-----------------------------------------------------------------------------
LEMMA ReadyState ==
    Unfiled \in RowStates /\ Ready \in OperatorStates /\ Ready.at = "idle"
BY LearningAssumption DEF Unfiled, Ready, RowStates, OperatorStates

LEMMA LearningFields ==
    ASSUME LearningInv
    PROVE  /\ minted \in 0..MaxObjects /\ objects \subseteq 1..minted
           /\ proposal \in [Proposals -> RowStates]
           /\ operator \in [Operators -> OperatorStates]
BY DEF LearningInv, LearningTypes

(* An operator goes on with a row, and nothing else that is at stake moves.  *)
LEMMA BusyKeeps ==
    ASSUME LearningInv, UNCHANGED <<proposal, filed, governor, posture>>,
           NEW o \in Operators, NEW at \in {"adopt", "undo", "file"}, NEW p \in Proposals,
           NEW entry \in RowStates, Busy(o, at, p, entry),
           minted' \in 0..MaxObjects, minted <= minted', objects' \subseteq 1..minted',
           \A x \in objects' : x \in objects \/ x > minted,
           profile' \in [flows : SUBSET Actions, tools : BOOLEAN],
           Traceable(entry, minted'), entry.status \in {"ADOPTED", "REJECTED", "ROLLED_BACK"},
           at = "adopt" => entry.object = 0 /\ entry.status = "ADOPTED",
           at = "file" /\ entry.status = "ROLLED_BACK" => entry.object \notin objects'
    PROVE  LearningInv'
<1> DEFINE s == [at |-> at, p |-> p, row |-> entry]
<1>1. s \in OperatorStates /\ s.at = at /\ s.p = p /\ s.row = entry
  BY LearningAssumption DEF OperatorStates, Proposals
<1>2. operator' = [operator EXCEPT ![o] = s]
  BY DEF Busy
<1> HIDE DEF s
<1>3. /\ operator' \in [Operators -> OperatorStates] /\ operator'[o] = s
      /\ \A q \in Operators : q # o => operator'[q] = operator[q]
  BY <1>1, <1>2, LearningFields
<1>4. LearningTypes'
  BY <1>3 DEF LearningInv, LearningTypes
<1>5. minted \in Nat /\ minted' \in Nat
  BY LearningFields, LearningAssumption
<1>6. \A r \in RowStates : Traceable(r, minted) => Traceable(r, minted') /\ r.object \in 0..minted
  BY <1>5 DEF Traceable, RowStates
<1>7. RowsTraceable'
  BY <1>6, LearningFields DEF LearningInv, RowsTraceable
<1>8. OperatorsTraceable'
  <2> SUFFICES ASSUME NEW q \in Operators, operator'[q].at # "idle"
               PROVE  /\ operator'[q].p \in Proposals
                      /\ Traceable(operator'[q].row, minted')
                      /\ operator'[q].row.status \in {"ADOPTED", "REJECTED", "ROLLED_BACK"}
                      /\ operator'[q].at = "adopt" => operator'[q].row.object = 0
    BY DEF OperatorsTraceable
  <2>1. CASE q = o
    BY <1>1, <1>3, <2>1
  <2>2. CASE q # o
    <3>1. operator'[q] = operator[q] /\ operator[q].row \in RowStates
      BY <1>3, <2>2, LearningFields DEF OperatorStates
    <3> QED BY <1>6, <3>1 DEF LearningInv, OperatorsTraceable
  <2> QED BY <2>1, <2>2
<1>9. \A n \in 0..minted : n \notin objects => n \notin objects'
  BY <1>5
<1>10. UndoneBeforeFiled'
  <2> SUFFICES ASSUME NEW q \in Operators
               PROVE  /\ operator'[q].at = "file" /\ operator'[q].row.status = "ROLLED_BACK" =>
                            operator'[q].row.object \notin objects'
                      /\ operator'[q].at = "adopt" => operator'[q].row.status = "ADOPTED"
    BY DEF UndoneBeforeFiled
  <2>1. CASE q = o
    BY <1>1, <1>3, <2>1
  <2>2. CASE q # o
    <3>1. operator'[q] = operator[q] /\ operator[q].row \in RowStates
      BY <1>3, <2>2, LearningFields DEF OperatorStates
    <3>2. operator[q].at = "file" => operator[q].row.object \in 0..minted
      BY <1>6, <3>1 DEF LearningInv, OperatorsTraceable
    <3> QED BY <1>9, <3>1, <3>2 DEF LearningInv, UndoneBeforeFiled
  <2> QED BY <2>1, <2>2
<1>11. NamedGone'
  <2>1. \A q \in Proposals : proposal[q].object \in 0..minted
    BY <1>6, LearningFields DEF LearningInv, RowsTraceable
  <2> QED BY <1>9, <2>1 DEF LearningInv, NamedGone
<1> QED BY <1>4, <1>7, <1>8, <1>10, <1>11 DEF LearningInv

(* An operator reads a row and decides. *)
LEMMA DecidesKeeps ==
    ASSUME LearningInv, UNCHANGED <<proposal, filed, governor, posture, objects, minted, profile>>,
           NEW o \in Operators, NEW at \in {"adopt", "undo", "file"}, NEW p \in Proposals,
           NEW entry \in RowStates, Busy(o, at, p, entry),
           Traceable(entry, minted), entry.status \in {"ADOPTED", "REJECTED", "ROLLED_BACK"},
           at = "adopt" => entry.object = 0 /\ entry.status = "ADOPTED",
           at = "file" => entry.status = "REJECTED"
    PROVE  LearningInv'
<1>1. /\ minted' \in 0..MaxObjects /\ minted <= minted' /\ objects' \subseteq 1..minted'
      /\ \A x \in objects' : x \in objects \/ x > minted
      /\ profile' \in [flows : SUBSET Actions, tools : BOOLEAN]
  BY LearningAssumption DEF LearningInv, LearningTypes
<1>2. Traceable(entry, minted')
  OBVIOUS
<1> QED BY <1>1, <1>2, BusyKeeps

LEMMA ApproveKeeps ==
    ASSUME LearningInv, NEW o \in Operators, NEW p \in Proposals, NEW target \in Targets,
           Approve(o, p, target)
    PROVE  LearningInv'
<1> DEFINE entry == [proposal[p] EXCEPT !.status = "ADOPTED", !.target = target]
<1>1. proposal[p] \in RowStates /\ Traceable(proposal[p], minted) /\ proposal[p].status = "PROPOSED"
  BY LearningFields DEF LearningInv, RowsTraceable, Approve
<1>2. /\ entry \in RowStates /\ entry.status = "ADOPTED" /\ entry.object = 0
      /\ entry.content = proposal[p].content
  BY <1>1 DEF RowStates, Traceable
<1> HIDE DEF entry
<1>3. Traceable(entry, minted)
  BY <1>1, <1>2 DEF Traceable
<1>4. Busy(o, "adopt", p, entry)
  BY DEF Approve, entry
<1> QED BY <1>2, <1>3, <1>4, DecidesKeeps DEF Approve

LEMMA RejectKeeps ==
    ASSUME LearningInv, NEW o \in Operators, NEW p \in Proposals, Reject(o, p)
    PROVE  LearningInv'
<1> DEFINE entry == [proposal[p] EXCEPT !.status = "REJECTED"]
<1>1. proposal[p] \in RowStates /\ Traceable(proposal[p], minted) /\ proposal[p].status = "PROPOSED"
  BY LearningFields DEF LearningInv, RowsTraceable, Reject
<1>2. /\ entry \in RowStates /\ entry.status = "REJECTED" /\ entry.object = proposal[p].object
      /\ entry.content = proposal[p].content /\ entry.target = proposal[p].target
  BY <1>1 DEF RowStates
<1> HIDE DEF entry
<1>3. Traceable(entry, minted)
  BY <1>1, <1>2 DEF Traceable
<1>4. Busy(o, "file", p, entry)
  BY DEF Reject, entry
<1> QED BY <1>2, <1>3, <1>4, DecidesKeeps DEF Reject

LEMMA RollbackKeeps ==
    ASSUME LearningInv, NEW o \in Operators, NEW p \in Proposals, Rollback(o, p)
    PROVE  LearningInv'
<1> DEFINE entry == [proposal[p] EXCEPT !.status = "ROLLED_BACK"]
<1>1. proposal[p] \in RowStates /\ Traceable(proposal[p], minted) /\ proposal[p].status = "ADOPTED"
  BY LearningFields DEF LearningInv, RowsTraceable, Rollback
<1>2. /\ entry \in RowStates /\ entry.status = "ROLLED_BACK" /\ entry.object = proposal[p].object
      /\ entry.content = proposal[p].content /\ entry.target = proposal[p].target
  BY <1>1 DEF RowStates
<1> HIDE DEF entry
<1>3. Traceable(entry, minted)
  BY <1>1, <1>2 DEF Traceable
<1>4. Busy(o, "undo", p, entry)
  BY DEF Rollback, entry
<1> QED BY <1>2, <1>3, <1>4, DecidesKeeps DEF Rollback

LEMMA HeldRow ==
    ASSUME LearningInv, NEW o \in Operators, operator[o].at # "idle"
    PROVE  /\ operator[o].p \in Proposals /\ operator[o].row \in RowStates
           /\ Traceable(operator[o].row, minted)
           /\ operator[o].row.status \in {"ADOPTED", "REJECTED", "ROLLED_BACK"}
BY LearningFields DEF LearningInv, OperatorsTraceable, OperatorStates

LEMMA AdoptKeeps ==
    ASSUME LearningInv, NEW o \in Operators, Adopt(o)
    PROVE  LearningInv'
<1> DEFINE p == operator[o].p
           entry == operator[o].row
           new == [entry EXCEPT !.object = minted']
<1>1. /\ p \in Proposals /\ entry \in RowStates /\ Traceable(entry, minted)
      /\ entry.status = "ADOPTED" /\ entry.object = 0
  BY HeldRow DEF Adopt, LearningInv, OperatorsTraceable, UndoneBeforeFiled
<1>2. minted \in Nat /\ minted \in 0..MaxObjects /\ objects \subseteq 1..minted /\ MaxObjects \in Nat
  BY LearningFields, LearningAssumption
<1>3. \/ /\ entry.target = "memory"
         /\ minted < MaxObjects
         /\ minted' = minted + 1
         /\ objects' = objects \cup {minted'}
         /\ Busy(o, "file", p, new)
         /\ UNCHANGED profile
      \/ /\ entry.target = "preference"
         /\ profile' = [EmptyProfile EXCEPT !.flows = {entry.content}]
         /\ Busy(o, "file", p, entry)
         /\ UNCHANGED <<objects, minted>>
  BY DEF Adopt
<1>4. UNCHANGED <<proposal, filed, governor, posture>>
  BY DEF Adopt
<1> HIDE DEF p, entry
<1>5. CASE /\ entry.target = "memory"
           /\ minted < MaxObjects
           /\ minted' = minted + 1
           /\ objects' = objects \cup {minted'}
           /\ Busy(o, "file", p, new)
           /\ UNCHANGED profile
  <2>1. /\ minted' \in 0..MaxObjects /\ minted <= minted' /\ objects' \subseteq 1..minted'
        /\ \A x \in objects' : x \in objects \/ x > minted
    BY <1>2, <1>5
  <2>2. /\ new \in RowStates /\ new.object = minted' /\ new.status = "ADOPTED"
        /\ new.target = "memory" /\ new.content = entry.content
    BY <1>1, <1>5, <2>1 DEF RowStates
  <2> HIDE DEF new
  <2>3. Traceable(new, minted')
    BY <1>1, <1>2, <1>5, <2>2 DEF Traceable
  <2>4. profile' \in [flows : SUBSET Actions, tools : BOOLEAN]
    BY <1>5 DEF LearningInv, LearningTypes
  <2>5. Busy(o, "file", p, new)
    BY <1>5
  <2> QED BY <1>1, <1>4, <2>1, <2>2, <2>3, <2>4, <2>5, BusyKeeps
<1>6. CASE /\ entry.target = "preference"
           /\ profile' = [EmptyProfile EXCEPT !.flows = {entry.content}]
           /\ Busy(o, "file", p, entry)
           /\ UNCHANGED <<objects, minted>>
  <2>1. /\ minted' \in 0..MaxObjects /\ minted <= minted' /\ objects' \subseteq 1..minted'
        /\ \A x \in objects' : x \in objects \/ x > minted
    BY <1>2, <1>6
  <2>2. entry.content \in Actions
    BY <1>1 DEF Traceable
  <2>3. profile' \in [flows : SUBSET Actions, tools : BOOLEAN]
    BY <1>6, <2>2 DEF EmptyProfile
  <2>4. Traceable(entry, minted')
    BY <1>1, <1>6
  <2>5. Busy(o, "file", p, entry)
    BY <1>6
  <2> QED BY <1>1, <1>4, <2>1, <2>3, <2>4, <2>5, BusyKeeps
<1> QED BY <1>3, <1>5, <1>6

LEMMA UndoKeeps ==
    ASSUME LearningInv, NEW o \in Operators, Undo(o)
    PROVE  LearningInv'
<1> DEFINE p == operator[o].p
           entry == operator[o].row
<1>1. /\ p \in Proposals /\ entry \in RowStates /\ Traceable(entry, minted)
      /\ entry.status \in {"ADOPTED", "REJECTED", "ROLLED_BACK"}
  BY HeldRow DEF Undo
<1>2. /\ minted' = minted /\ Busy(o, "file", p, entry)
      /\ UNCHANGED <<proposal, filed, governor, posture>>
      /\ objects' = IF entry.target = "memory" THEN objects \ {entry.object} ELSE objects
      /\ profile' = IF entry.target = "preference"
                    THEN [profile EXCEPT !.flows = profile.flows \ {entry.content}] ELSE profile
  BY DEF Undo
<1> HIDE DEF p, entry
<1>3. minted \in Nat /\ minted \in 0..MaxObjects /\ objects \subseteq 1..minted
  BY LearningFields, LearningAssumption
<1>4. /\ minted' \in 0..MaxObjects /\ minted <= minted' /\ objects' \subseteq 1..minted'
      /\ \A x \in objects' : x \in objects \/ x > minted
  BY <1>2, <1>3
<1>5. entry.object \notin objects'
  <2>1. CASE entry.target = "memory"
    BY <1>2, <2>1
  <2>2. CASE entry.target # "memory"
    BY <1>1, <1>2, <1>3, <2>2 DEF Traceable
  <2> QED BY <2>1, <2>2
<1>6. profile' \in [flows : SUBSET Actions, tools : BOOLEAN]
  BY <1>2 DEF LearningInv, LearningTypes
<1>7. Traceable(entry, minted')
  BY <1>1, <1>2
<1>8. Busy(o, "file", p, entry) /\ UNCHANGED <<proposal, filed, governor, posture>>
  BY <1>2
<1> QED BY <1>1, <1>4, <1>5, <1>6, <1>7, <1>8, BusyKeeps

LEMMA FileKeeps ==
    ASSUME LearningInv, NEW o \in Operators, File(o)
    PROVE  LearningInv'
<1> DEFINE p == operator[o].p
           entry == operator[o].row
<1>1. /\ p \in Proposals /\ entry \in RowStates /\ Traceable(entry, minted)
      /\ entry.status \in {"ADOPTED", "REJECTED", "ROLLED_BACK"}
      /\ entry.status = "ROLLED_BACK" => entry.object \notin objects
  BY HeldRow DEF File, LearningInv, UndoneBeforeFiled
<1>2. /\ proposal' = [proposal EXCEPT ![p] = entry]
      /\ operator' = [operator EXCEPT ![o] = Ready]
      /\ minted' = minted /\ objects' = objects
  BY DEF File
<1> HIDE DEF p, entry
<1>3. /\ proposal' \in [Proposals -> RowStates] /\ proposal'[p] = entry
      /\ \A q \in Proposals : q # p => proposal'[q] = proposal[q]
      /\ operator' \in [Operators -> OperatorStates] /\ operator'[o].at = "idle"
      /\ \A q \in Operators : q # o => operator'[q] = operator[q]
  BY <1>1, <1>2, LearningFields, ReadyState
<1>4. LearningTypes'
  BY <1>3 DEF File, LearningInv, LearningTypes
<1>5. RowsTraceable' /\ NamedGone'
  BY <1>1, <1>2, <1>3 DEF LearningInv, RowsTraceable, NamedGone
<1>6. OperatorsTraceable' /\ UndoneBeforeFiled'
  BY <1>2, <1>3 DEF LearningInv, OperatorsTraceable, UndoneBeforeFiled
<1> QED BY <1>4, <1>5, <1>6 DEF LearningInv

LEMMA GenerateKeeps ==
    ASSUME LearningInv, NEW a \in Actions, Generate(a)
    PROVE  LearningInv'
<1> DEFINE entry == [Unfiled EXCEPT !.status = "PROPOSED", !.content = a]
<1>1. /\ entry \in RowStates /\ entry.status = "PROPOSED" /\ entry.object = 0 /\ entry.content = a
  BY ReadyState DEF Unfiled, RowStates
<1>2. proposal' = [proposal EXCEPT ![filed'] = entry]
  BY DEF Generate
<1> HIDE DEF entry
<1>3. filed' \in Proposals /\ filed' \in 0..MaxProposals
  BY LearningAssumption DEF Generate, LearningInv, LearningTypes, Proposals
<1>4. /\ proposal' \in [Proposals -> RowStates] /\ proposal'[filed'] = entry
      /\ \A q \in Proposals : q # filed' => proposal'[q] = proposal[q]
  BY <1>1, <1>2, <1>3, LearningFields
<1>5. LearningTypes'
  BY <1>3, <1>4 DEF Generate, LearningInv, LearningTypes
<1>6. Traceable(entry, minted)
  BY <1>1, LearningFields, LearningAssumption DEF Traceable
<1>7. RowsTraceable' /\ NamedGone'
  BY <1>1, <1>4, <1>6 DEF Generate, LearningInv, RowsTraceable, NamedGone
<1>8. OperatorsTraceable' /\ UndoneBeforeFiled'
  BY DEF Generate, LearningInv, OperatorsTraceable, UndoneBeforeFiled
<1> QED BY <1>5, <1>7, <1>8 DEF LearningInv

(* Steps of the governor and of the user. *)
LEMMA ElsewhereKeeps ==
    ASSUME LearningInv, UNCHANGED <<proposal, filed, objects, minted, operator>>,
           governor' \in [mode : GovernorModes, killed : BOOLEAN],
           posture' \in [mode : GovernorModes, killed : BOOLEAN],
           profile' \in [flows : SUBSET Actions, tools : BOOLEAN]
    PROVE  LearningInv'
BY DEF LearningInv, LearningTypes, RowsTraceable, OperatorsTraceable, UndoneBeforeFiled,
       NamedGone

LEMMA RestartKeeps ==
    ASSUME LearningInv, LearningRestart
    PROVE  LearningInv'
<1>1. /\ operator' \in [Operators -> OperatorStates]
      /\ \A o \in Operators : operator'[o].at = "idle"
  BY ReadyState DEF LearningRestart
<1>2. LearningTypes'
  BY <1>1 DEF LearningRestart, Loaded, LearningInv, LearningTypes
<1> QED BY <1>1, <1>2 DEF LearningRestart, LearningInv, RowsTraceable, OperatorsTraceable,
                         UndoneBeforeFiled, NamedGone

LEMMA GovernsKeeps ==
    ASSUME LearningInv,
           SavePreferences \/ Kill \/ Revive \/ Persist \/ \E m \in GovernorModes : SetMode(m)
    PROVE  LearningInv'
<1>1. /\ governor \in [mode : GovernorModes, killed : BOOLEAN]
      /\ posture \in [mode : GovernorModes, killed : BOOLEAN]
      /\ profile \in [flows : SUBSET Actions, tools : BOOLEAN]
  BY DEF LearningInv, LearningTypes
<1>2. CASE SavePreferences
  BY <1>1, <1>2, ElsewhereKeeps DEF SavePreferences
<1>3. CASE Kill
  BY <1>1, <1>3, ElsewhereKeeps DEF Kill, Govern
<1>4. CASE Revive
  BY <1>1, <1>4, ElsewhereKeeps DEF Revive, Govern
<1>5. CASE Persist
  BY <1>1, <1>5, ElsewhereKeeps DEF Persist
<1>6. ASSUME NEW m \in GovernorModes, SetMode(m) PROVE LearningInv'
  BY <1>1, <1>6, ElsewhereKeeps DEF SetMode, Govern
<1> QED BY <1>2, <1>3, <1>4, <1>5, <1>6

LEMMA LearningInitHolds == LearningInit => LearningInv
<1> SUFFICES ASSUME LearningInit PROVE LearningInv
  OBVIOUS
<1>1. /\ proposal \in [Proposals -> RowStates]
      /\ operator \in [Operators -> OperatorStates]
      /\ \A o \in Operators : operator[o].at = "idle"
      /\ \A p \in Proposals : proposal[p] = Unfiled
  BY ReadyState DEF LearningInit
<1>2. LearningTypes
  BY <1>1, LearningAssumption
     DEF LearningInit, LearningTypes, DefaultGovernor, EmptyProfile, GovernorModes
<1>3. Traceable(Unfiled, minted)
  BY DEF Traceable, Unfiled, LearningInit
<1> QED BY <1>1, <1>2, <1>3 DEF LearningInit, LearningInv, RowsTraceable, OperatorsTraceable,
                               UndoneBeforeFiled, NamedGone

LEMMA LearningNextKeeps == LearningInv /\ [LearningNext]_learningVars => LearningInv'
<1> SUFFICES ASSUME LearningInv, [LearningNext]_learningVars PROVE LearningInv'
  OBVIOUS
<1>1. CASE UNCHANGED learningVars
  BY <1>1, ElsewhereKeeps DEF learningVars, LearningInv, LearningTypes
<1>2. ASSUME NEW a \in Actions, Generate(a) PROVE LearningInv'
  BY <1>2, GenerateKeeps
<1>3. ASSUME NEW o \in Operators, NEW p \in Proposals, NEW target \in Targets, Approve(o, p, target)
      PROVE  LearningInv'
  BY <1>3, ApproveKeeps
<1>4. ASSUME NEW o \in Operators, NEW p \in Proposals, Reject(o, p) \/ Rollback(o, p)
      PROVE  LearningInv'
  BY <1>4, RejectKeeps, RollbackKeeps
<1>5. ASSUME NEW o \in Operators, Adopt(o) \/ Undo(o) \/ File(o) PROVE LearningInv'
  BY <1>5, AdoptKeeps, UndoKeeps, FileKeeps
<1>6. CASE SavePreferences \/ Kill \/ Revive \/ Persist \/ \E m \in GovernorModes : SetMode(m)
  BY <1>6, GovernsKeeps
<1>7. CASE LearningRestart
  BY <1>7, RestartKeeps
<1> QED BY <1>1, <1>2, <1>3, <1>4, <1>5, <1>6, <1>7 DEF LearningNext

(* A row that says the proposal was adopted, in the store or in the hands of *)
(* an operator that has adopted, names what it was adopted as.               *)
Names(entry, p) == entry.status \in {"ADOPTED", "ROLLED_BACK"} => entry.object \in adopted[p]
AdoptedInv ==
    /\ adopted \in [Proposals -> SUBSET (0..minted)]
    /\ \A p \in Proposals : Names(proposal[p], p)
    /\ \A o \in Operators :
          operator[o].at \in {"undo", "file"} => Names(operator[o].row, operator[o].p)

LEMMA AdoptedInitHolds == LearningInit => AdoptedInv
<1> SUFFICES ASSUME LearningInit PROVE AdoptedInv
  OBVIOUS
<1>1. \A p \in Proposals : proposal[p] = Unfiled /\ Unfiled.status = "none"
  BY DEF LearningInit, Unfiled
<1>2. \A o \in Operators : operator[o] = Ready /\ Ready.at = "idle"
  BY DEF LearningInit, Ready
<1> QED BY <1>1, <1>2 DEF AdoptedInv, Names, LearningInit

(* Adoptions are never forgotten, so a step keeps the invariant if the rows  *)
(* it writes and hands over name an adoption.                                *)
LEMMA AdoptedGrows ==
    ASSUME AdoptedInv, LearningInv, minted' \in Nat, minted <= minted',
           adopted' \in [Proposals -> SUBSET (0..minted')],
           \A p \in Proposals : adopted[p] \subseteq adopted'[p],
           \A p \in Proposals : proposal'[p] = proposal[p] \/ Names(proposal[p], p)',
           \A o \in Operators :
              \/ operator'[o] = operator[o]
              \/ operator'[o].at \notin {"undo", "file"}
              \/ Names(operator[o].row, operator[o].p)'
    PROVE  AdoptedInv'
<1>1. \A p \in Proposals : Names(proposal[p], p)'
  BY DEF AdoptedInv, Names
<1>2. ASSUME NEW o \in Operators, operator'[o].at \in {"undo", "file"}
      PROVE  Names(operator[o].row, operator[o].p)'
  <2>1. CASE operator'[o] = operator[o]
    <3>1. operator[o].p \in Proposals /\ Names(operator[o].row, operator[o].p)
      BY <1>2, <2>1, HeldRow DEF AdoptedInv
    <3> QED BY <2>1, <3>1 DEF Names
  <2>2. CASE operator'[o] # operator[o]
    BY <1>2, <2>2
  <2> QED BY <2>1, <2>2
<1> QED BY <1>1, <1>2 DEF AdoptedInv

LEMMA AdoptedNextKeeps ==
    AdoptedInv /\ LearningInv /\ [LearningNext]_learningVars => AdoptedInv'
<1> SUFFICES ASSUME AdoptedInv, LearningInv, [LearningNext]_learningVars PROVE AdoptedInv'
  OBVIOUS
<1> USE LearningFields
<1>0. minted \in Nat /\ minted <= minted
  BY LearningAssumption
<1>1. ASSUME UNCHANGED <<proposal, minted, adopted, operator>> PROVE AdoptedInv'
  BY <1>1 DEF AdoptedInv, Names
(* An operator takes up a row, or has undone what the row names. *)
<1>2. ASSUME NEW o \in Operators, NEW at \in {"adopt", "undo", "file"}, NEW p \in Proposals,
             NEW entry \in RowStates, Busy(o, at, p, entry), UNCHANGED <<proposal, minted, adopted>>,
             at # "adopt" => Names(entry, p)
      PROVE  AdoptedInv'
  <2> DEFINE s == [at |-> at, p |-> p, row |-> entry]
  <2>1. \A q \in Operators : operator'[q] = operator[q] \/ operator'[q] = s
    BY <1>2 DEF Busy
  <2>2. s.at = at /\ s.p = p /\ s.row = entry
    OBVIOUS
  <2> HIDE DEF s
  <2>3. at # "adopt" => Names(entry, p)'
    BY <1>2 DEF Names
  <2>4. \A q \in Operators : \/ operator'[q] = operator[q]
                              \/ operator'[q].at \notin {"undo", "file"}
                              \/ Names(operator[q].row, operator[q].p)'
    BY <2>1, <2>2, <2>3 DEF Names
  <2>5. adopted' \in [Proposals -> SUBSET (0..minted')]
        /\ \A q \in Proposals : adopted[q] \subseteq adopted'[q]
    BY <1>2 DEF AdoptedInv
  <2> QED BY <1>0, <1>2, <2>4, <2>5, AdoptedGrows
<1>3. ASSUME NEW a \in Actions, Generate(a) PROVE AdoptedInv'
  <2> DEFINE entry == [Unfiled EXCEPT !.status = "PROPOSED", !.content = a]
  <2>1. entry.status = "PROPOSED"
    BY DEF Unfiled
  <2>2. proposal' = [proposal EXCEPT ![filed'] = entry]
        /\ UNCHANGED <<minted, adopted, operator>>
    BY <1>3 DEF Generate
  <2> HIDE DEF entry
  <2>3. \A p \in Proposals : proposal'[p] = proposal[p] \/ Names(proposal[p], p)'
    BY <2>1, <2>2 DEF Names
  <2> QED BY <1>0, <2>2, <2>3, AdoptedGrows DEF AdoptedInv
<1>4. ASSUME NEW o \in Operators, NEW p \in Proposals, NEW target \in Targets, Approve(o, p, target)
      PROVE  AdoptedInv'
  <2> DEFINE entry == [proposal[p] EXCEPT !.status = "ADOPTED", !.target = target]
  <2>1. entry \in RowStates
    BY DEF RowStates
  <2>2. Busy(o, "adopt", p, entry)
    BY <1>4 DEF Approve
  <2> HIDE DEF entry
  <2> QED BY <1>2, <1>4, <2>1, <2>2 DEF Approve
<1>5. ASSUME NEW o \in Operators, NEW p \in Proposals, Reject(o, p) PROVE AdoptedInv'
  <2> DEFINE entry == [proposal[p] EXCEPT !.status = "REJECTED"]
  <2>1. entry \in RowStates /\ entry.status = "REJECTED"
    BY DEF RowStates
  <2>2. Busy(o, "file", p, entry)
    BY <1>5 DEF Reject
  <2> HIDE DEF entry
  <2>3. Names(entry, p)
    BY <2>1 DEF Names
  <2> QED BY <1>2, <1>5, <2>1, <2>2, <2>3 DEF Reject
<1>6. ASSUME NEW o \in Operators, NEW p \in Proposals, Rollback(o, p) PROVE AdoptedInv'
  <2> DEFINE entry == [proposal[p] EXCEPT !.status = "ROLLED_BACK"]
  <2>1. entry \in RowStates /\ entry.object = proposal[p].object
    BY DEF RowStates
  <2>2. Busy(o, "undo", p, entry) /\ proposal[p].status = "ADOPTED"
    BY <1>6 DEF Rollback
  <2> HIDE DEF entry
  <2>3. Names(entry, p)
    BY <2>1, <2>2 DEF Names, AdoptedInv
  <2> QED BY <1>2, <1>6, <2>1, <2>2, <2>3 DEF Rollback
<1>7. ASSUME NEW o \in Operators, Undo(o) PROVE AdoptedInv'
  <2>1. operator[o].p \in Proposals /\ operator[o].row \in RowStates
    BY <1>7, HeldRow DEF Undo
  <2>2. Names(operator[o].row, operator[o].p)
    BY <1>7 DEF Undo, AdoptedInv
  <2> QED BY <1>2, <1>7, <2>1, <2>2 DEF Undo
<1>8. ASSUME NEW o \in Operators, File(o) PROVE AdoptedInv'
  <2>1. operator[o].p \in Proposals /\ Names(operator[o].row, operator[o].p)
    BY <1>8, HeldRow DEF File, AdoptedInv
  <2>2. /\ proposal' = [proposal EXCEPT ![operator[o].p] = operator[o].row]
        /\ operator' = [operator EXCEPT ![o] = Ready]
        /\ UNCHANGED <<minted, adopted>>
    BY <1>8 DEF File
  <2>3. \A p \in Proposals : proposal'[p] = proposal[p] \/ Names(proposal[p], p)'
    BY <2>1, <2>2 DEF Names
  <2>4. \A q \in Operators : operator'[q] = operator[q] \/ operator'[q].at \notin {"undo", "file"}
    BY <2>2, ReadyState
  <2> QED BY <1>0, <2>2, <2>3, <2>4, AdoptedGrows DEF AdoptedInv
<1>9. ASSUME NEW o \in Operators, Adopt(o) PROVE AdoptedInv'
  <2> DEFINE p == operator[o].p
             entry == operator[o].row
             new == [entry EXCEPT !.object = minted']
  <2>1. p \in Proposals /\ entry \in RowStates /\ entry.object = 0
    BY <1>9, HeldRow DEF Adopt, LearningInv, OperatorsTraceable
  <2> HIDE DEF p, entry
  <2>2. ASSUME NEW r, NEW x, Busy(o, "file", p, r), adopted' = [adopted EXCEPT ![p] = @ \cup {x}],
               r.object = x, x \in 0..minted', minted' \in Nat, minted <= minted',
               UNCHANGED proposal
        PROVE  AdoptedInv'
    <3> DEFINE s == [at |-> "file", p |-> p, row |-> r]
    <3>1. s.p = p /\ s.row = r
      OBVIOUS
    <3>2. \A q \in Operators : operator'[q] = operator[q] \/ operator'[q] = s
      BY <2>2 DEF Busy
    <3> HIDE DEF s
    <3>3. /\ adopted' \in [Proposals -> SUBSET (0..minted')]
          /\ \A q \in Proposals : adopted[q] \subseteq adopted'[q]
          /\ x \in adopted'[p]
      <4>1. 0..minted \subseteq 0..minted'
        BY <1>0, <2>2
      <4> QED BY <2>1, <2>2, <4>1 DEF AdoptedInv
    <3>4. \A q \in Operators : operator'[q] = operator[q] \/ Names(operator[q].row, operator[q].p)'
      BY <2>2, <3>1, <3>2, <3>3 DEF Names
    <3> QED BY <2>2, <3>3, <3>4, AdoptedGrows
  <2>3. CASE /\ minted' = minted + 1
             /\ adopted' = [adopted EXCEPT ![p] = @ \cup {minted'}]
             /\ Busy(o, "file", p, new)
    <3>1. new.object = minted'
      BY <2>1 DEF RowStates
    <3> HIDE DEF new
    <3>2. UNCHANGED proposal /\ minted' \in Nat /\ minted <= minted' /\ minted' \in 0..minted'
      BY <1>0, <1>9, <2>3 DEF Adopt
    <3> QED BY <2>2, <2>3, <3>1, <3>2
  <2>4. CASE /\ minted' = minted
             /\ adopted' = [adopted EXCEPT ![p] = @ \cup {0}]
             /\ Busy(o, "file", p, entry)
    <3>1. UNCHANGED proposal /\ minted' \in Nat /\ minted <= minted' /\ 0 \in 0..minted'
      BY <1>0, <1>9, <2>4 DEF Adopt
    <3> QED BY <2>1, <2>2, <2>4, <3>1
  <2> QED BY <1>9, <2>3, <2>4 DEF Adopt, p, entry
<1>10. CASE LearningRestart
  <2>1. \A o \in Operators : operator'[o].at \notin {"undo", "file"}
    BY <1>10, ReadyState DEF LearningRestart
  <2> QED BY <1>0, <1>10, <2>1, AdoptedGrows DEF LearningRestart, AdoptedInv
<1>11. CASE SavePreferences \/ Kill \/ Revive \/ Persist \/ \E m \in GovernorModes : SetMode(m)
  BY <1>1, <1>11 DEF SavePreferences, Kill, Revive, Persist, SetMode, Govern
<1>12. CASE UNCHANGED learningVars
  BY <1>1, <1>12 DEF learningVars
<1> QED BY <1>3, <1>4, <1>5, <1>6, <1>7, <1>8, <1>9, <1>10, <1>11, <1>12 DEF LearningNext

(* Nothing but Approve begins an adoption. *)
LEMMA AdoptionsBegin ==
    ASSUME LearningInv, [LearningNext]_learningVars, governor.killed
    PROVE  \A o \in Operators : operator'[o].at = "adopt" => operator[o].at = "adopt"
<1> USE LearningFields
<1>1. ASSUME NEW o \in Operators, NEW s \in OperatorStates, s.at # "adopt",
             operator' = [operator EXCEPT ![o] = s]
      PROVE  \A q \in Operators : operator'[q].at = "adopt" => operator[q].at = "adopt"
  BY <1>1
<1>2. ASSUME NEW o \in Operators, NEW at \in {"undo", "file"}, NEW p, NEW entry, Busy(o, at, p, entry)
      PROVE  \A q \in Operators : operator'[q].at = "adopt" => operator[q].at = "adopt"
  <2>1. \A q \in Operators : operator'[q] = operator[q] \/ operator'[q].at = at
    BY <1>2 DEF Busy
  <2> QED BY <2>1
<1>3. ASSUME NEW o \in Operators, NEW p \in Proposals, NEW target \in Targets, Approve(o, p, target)
      PROVE  FALSE
  BY <1>3 DEF Approve, MayAdopt
<1>4. ASSUME NEW o \in Operators, NEW p \in Proposals, Reject(o, p) \/ Rollback(o, p)
      PROVE  \A q \in Operators : operator'[q].at = "adopt" => operator[q].at = "adopt"
  BY <1>2, <1>4 DEF Reject, Rollback
<1>5. ASSUME NEW o \in Operators, Adopt(o) \/ Undo(o)
      PROVE  \A q \in Operators : operator'[q].at = "adopt" => operator[q].at = "adopt"
  BY <1>2, <1>5 DEF Adopt, Undo
<1>6. ASSUME NEW o \in Operators, File(o)
      PROVE  \A q \in Operators : operator'[q].at = "adopt" => operator[q].at = "adopt"
  BY <1>1, <1>6, ReadyState DEF File
<1>7. CASE LearningRestart
  BY <1>7, ReadyState DEF LearningRestart
<1>8. CASE UNCHANGED operator
  BY <1>8
<1>9. \/ UNCHANGED operator \/ LearningRestart
      \/ \E o \in Operators :
          \/ \E p \in Proposals : \/ \E target \in Targets : Approve(o, p, target)
                                  \/ Reject(o, p)
                                  \/ Rollback(o, p)
          \/ Adopt(o) \/ Undo(o) \/ File(o)
  BY DEF LearningNext, learningVars, Generate, SavePreferences, Kill, Revive, Persist, SetMode, Govern
<1> QED BY <1>3, <1>4, <1>5, <1>6, <1>7, <1>8, <1>9

(* A persisted kill is lifted by revive alone. *)
LEMMA KillStays ==
    ASSUME LearningInv, [LearningNext]_learningVars, governor.killed, posture.killed
    PROVE  governor'.killed \/ Revive
<1>1. governor \in [mode : GovernorModes, killed : BOOLEAN]
  BY DEF LearningInv, LearningTypes
<1>2. CASE UNCHANGED governor
  BY <1>2
<1>3. ASSUME NEW m \in GovernorModes, SetMode(m) PROVE governor'.killed
  BY <1>1, <1>3 DEF SetMode, Govern
<1>4. CASE Kill
  BY <1>4 DEF Kill
<1>5. CASE LearningRestart
  BY <1>5 DEF LearningRestart, Loaded
<1>6. \/ UNCHANGED governor \/ Kill \/ Revive \/ LearningRestart
      \/ \E m \in GovernorModes : SetMode(m)
  BY DEF LearningNext, learningVars, Generate, Approve, Reject, Rollback, Adopt, Undo, File,
         SavePreferences, Persist
<1> QED BY <1>2, <1>3, <1>4, <1>5, <1>6

(* For any operators and any number of proposals and memories: the memory a  *)
(* rolled back row names is gone, and with it all that was adopted of a      *)
(* proposal adopted once; a kill lets no further approval through, and       *)
(* outlives restarts once persisted (approve, reject, rollback, may_adopt,   *)
(* kill, persist, load).                                                     *)
THEOREM LearningIsSafe == LearningSpec => LearningSafe
<1>1. LearningInv /\ AdoptedInv => LearningInvariant
  <2> SUFFICES ASSUME LearningInv, AdoptedInv PROVE LearningInvariant
    OBVIOUS
  <2>1. LearningTypeOK
    BY DEF LearningInv, LearningTypes, AdoptedInv, LearningTypeOK
  <2>2. RolledBackGone
    BY DEF LearningInv, NamedGone, AdoptedInv, Names, AdoptedOnce, RolledBackGone
  <2> QED BY <2>1, <2>2 DEF LearningInvariant
<1>2. ASSUME LearningInv, [LearningNext]_learningVars
      PROVE  [governor.killed =>
                /\ posture.killed => governor'.killed \/ Revive
                /\ \A o \in Operators : operator'[o].at = "adopt" => operator[o].at = "adopt"]_learningVars
  BY <1>2, AdoptionsBegin, KillStays
<1> QED BY <1>1, <1>2, LearningInitHolds, LearningNextKeeps, AdoptedInitHolds, AdoptedNextKeeps, PTL
        DEF LearningSpec, LearningSafe, KillHolds
=============================================================================
