---------------------------- MODULE AgentsProofs ----------------------------
(***************************************************************************)
(* Proofs about what a goal is handed to: about Recovery for any budget,   *)
(* any plans, any policy overrides and whatever executions, verifications  *)
(* and replans answer, about MessageBus for any agents, messages and       *)
(* bounds, and about Agents for any team, subtasks, pool and restarts.     *)
(***************************************************************************)
EXTENDS Recovery, MessageBus, Agents, SequenceTheorems, WellFoundedInduction, TLAPS

(* The result in hand is the last execution, and it has been paid for.       *)
ResultIsLast ==
    result # NoResult => result = last /\ retries + replans < executions

(* A verification in hand is of the last execution. *)
VerdictIsCurrent == verdict # "none" => judged = executions

(* A denied execution is in hand, or the engine has returned. *)
DeniedInHand ==
    (DenialRespected /\ last.denied) => (result # NoResult \/ outcome # "none")

(* The inductive invariant. *)
Inv ==
    /\ TypeOK
    /\ ResultIsLast
    /\ VerdictIsCurrent
    /\ RecoveredIsVerified
    /\ WithinBudget
    /\ DeniedInHand

-----------------------------------------------------------------------------
LEMMA NoResultDiffers ==
    NoResult \notin Executions /\ ~NoResult.denied
BY DEF NoResult, Executions

(* What was denied is neither a success nor repeated by such a policy. *)
LEMMA DeniedStops ==
    ASSUME NEW r \in Executions, r.denied, NEW v
    PROVE  /\ r.status # "COMPLETED"
           /\ Classify(r, v) = "PERMISSION_FAILURE"
           /\ DenialRespected => ActionFor(Classify(r, v)) \notin {"RETRY", "REPLAN"}
<1>1. r.status # "COMPLETED"
  BY DEF Executions
<1>2. Classify(r, v) = "PERMISSION_FAILURE"
  BY DEF Classify
<1>3. ASSUME DenialRespected
      PROVE  ActionFor("PERMISSION_FAILURE") \notin {"RETRY", "REPLAN"}
  <2>1. CASE \E o \in Overrides : o[1] = "PERMISSION_FAILURE"
    <3> DEFINE c == CHOOSE o \in Overrides : o[1] = "PERMISSION_FAILURE"
    <3>1. c \in Overrides /\ c[1] = "PERMISSION_FAILURE"
      BY <2>1
    <3>2. ActionFor("PERMISSION_FAILURE") = c[2]
      BY <2>1 DEF ActionFor
    <3> HIDE DEF c
    <3> QED BY <1>3, <3>1, <3>2 DEF DenialRespected
  <2>2. CASE ~ \E o \in Overrides : o[1] = "PERMISSION_FAILURE"
    BY <2>2 DEF ActionFor
  <2> QED BY <2>1, <2>2
<1> QED BY <1>1, <1>2, <1>3

LEMMA InitInv == Init => Inv
<1> SUFFICES ASSUME Init PROVE Inv
  OBVIOUS
<1>1. TypeOK
  BY DEF Init, TypeOK, Outcomes
<1>2. ResultIsLast /\ VerdictIsCurrent /\ RecoveredIsVerified /\ WithinBudget
  BY RecoveryAssumption
     DEF Init, ResultIsLast, VerdictIsCurrent, RecoveredIsVerified, WithinBudget
<1>3. DeniedInHand
  BY NoResultDiffers DEF Init, DeniedInHand
<1> QED BY <1>1, <1>2, <1>3 DEF Inv

LEMMA ExecuteInv == ASSUME Inv, Execute PROVE Inv'
<1> USE DEF Inv, Execute
<1>1. TypeOK'
  BY DEF TypeOK, Outcomes
<1>2. result' = last' /\ verdict' = "none" /\ result' # NoResult
  BY NoResultDiffers
<1>3. ResultIsLast' /\ WithinBudget'
  BY <1>2, RecoveryAssumption DEF TypeOK, ResultIsLast, WithinBudget
<1>4. VerdictIsCurrent' /\ RecoveredIsVerified' /\ DeniedInHand'
  BY <1>2 DEF VerdictIsCurrent, RecoveredIsVerified, DeniedInHand
<1> QED BY <1>1, <1>3, <1>4

(* Leaving the loop with anything but RECOVERED. *)
LEMMA ReturnInv ==
    ASSUME Inv, NEW status \in {"FAILED", "ESCALATED", "PARTIAL"}, Return(status)
    PROVE  Inv'
BY DEF Inv, Return, TypeOK, Outcomes, ResultIsLast, VerdictIsCurrent,
       RecoveredIsVerified, WithinBudget, DeniedInHand

LEMMA VerifyInv == ASSUME Inv, Verify PROVE Inv'
<1>1. CASE Return("FAILED")
  BY <1>1, ReturnInv
<1>2. CASE ~Return("FAILED")
  BY <1>2 DEF Inv, Verify, TypeOK, ResultIsLast, VerdictIsCurrent,
              RecoveredIsVerified, WithinBudget, DeniedInHand
<1> QED BY <1>1, <1>2

LEMMA RecoveredInv == ASSUME Inv, Recovered PROVE Inv'
BY DEF Inv, Recovered, Judged, Success, Return, TypeOK, Outcomes, ResultIsLast,
       VerdictIsCurrent, RecoveredIsVerified, WithinBudget, DeniedInHand

(* Another execution is due: a retry or a replan, counted, that the policy   *)
(* decided on.                                                               *)
LEMMA AgainInv ==
    ASSUME Inv, Judged, Decision \in {"RETRY", "REPLAN"}, Again,
           current' \in Plans, seen' \subseteq Plans,
           \/ retries' = retries + 1 /\ replans' = replans
           \/ retries' = retries /\ replans' = replans + 1,
           UNCHANGED <<executions, outcome, last, judged>>
    PROVE  Inv'
<1> USE DEF Inv, Judged, Again
<1>1. TypeOK'
  BY DEF TypeOK
<1>2. ResultIsLast' /\ VerdictIsCurrent' /\ RecoveredIsVerified'
  BY DEF ResultIsLast, VerdictIsCurrent, RecoveredIsVerified
<1>3. WithinBudget'
  BY DEF TypeOK, ResultIsLast, WithinBudget
<1>4. DeniedInHand'
  <2>1. DenialRespected => ~last.denied
    BY DeniedStops DEF TypeOK, ResultIsLast, Decision
  <2> QED BY <2>1 DEF DeniedInHand, DenialRespected
<1> QED BY <1>1, <1>2, <1>3, <1>4

LEMMA NextInv == Inv /\ [Next]_vars => Inv'
<1> SUFFICES ASSUME Inv, [Next]_vars PROVE Inv'
  OBVIOUS
<1>1. CASE Execute
  BY <1>1, ExecuteInv
<1>2. CASE Exhausted \/ ReplanFails \/ Stop
  BY <1>2, ReturnInv DEF Exhausted, ReplanFails, Stop
<1>3. CASE Verify
  BY <1>3, VerifyInv
<1>4. CASE Recovered
  BY <1>4, RecoveredInv
<1>5. CASE Retry
  BY <1>5, AgainInv DEF Retry, Inv, TypeOK
<1>6. CASE Replan
  BY <1>6, AgainInv DEF Replan, Inv, TypeOK
<1>7. CASE UNCHANGED vars
  BY <1>7 DEF vars, Inv, TypeOK, ResultIsLast, VerdictIsCurrent,
              RecoveredIsVerified, WithinBudget, DeniedInHand
<1> QED BY <1>1, <1>2, <1>3, <1>4, <1>5, <1>6, <1>7 DEF Next

LEMMA Invariant == Spec => []Inv
BY InitInv, NextInv, PTL DEF Spec

-----------------------------------------------------------------------------
(* RECOVERED is reported only for a last execution that completed and was    *)
(* itself verified, and the attempt budget holds under every policy          *)
(* (RecoveryEngine.run_with_prior).                                          *)
THEOREM RecoveryIsSafe == Spec => []RecoverySafe
<1>1. Inv => RecoverySafe
  BY DEF Inv, RecoverySafe
<1> QED BY <1>1, Invariant, PTL

(* Nothing is executed after a denied execution, under every policy but one  *)
(* that overrides PERMISSION_FAILURE itself to RETRY or REPLAN, which        *)
(* RecoveryPolicy.action_for follows although policy.py:5 rules it out.      *)
THEOREM DenialIsFinal == Spec => DeniedNotRepeated
<1>1. ASSUME Inv, [Next]_vars
      PROVE  [(DenialRespected /\ last.denied) => executions' = executions]_vars
  <2> SUFFICES ASSUME DenialRespected, last.denied
               PROVE  executions' = executions
    OBVIOUS
  <2>1. ~Execute
    BY <1>1 DEF Inv, DeniedInHand, Execute
  <2> QED BY <1>1, <2>1 DEF Next, Exhausted, Verify, Recovered, Retry, Replan,
                            ReplanFails, Stop, Return, vars
<1> QED BY <1>1, Invariant, PTL DEF Spec, DeniedNotRepeated

-----------------------------------------------------------------------------
(* MessageBus *)

(* A message an agent holds or has received was routed to it, and what it    *)
(* has travelled and may still travel add up.                                *)
RoutedTo(p) == {m \in Message : <<m.id, p>> \in pairs /\ m.ttl + m.hops = Ttl}

AllRouted ==
    \A p \in Peers :
        /\ \A i \in 1..Len(inbox[p]) : inbox[p][i] \in RoutedTo(p)
        /\ received[p] \subseteq RoutedTo(p)

(* An inbox is within its bound and has no message twice, nor one that was   *)
(* received before.                                                          *)
Distinct(q, S) ==
    /\ Len(q) <= MaxInbox
    /\ \A i, j \in 1..Len(q) : q[i].id = q[j].id => i = j
    /\ \A m, n \in S : m.id = n.id => m = n
    /\ \A m \in S, i \in 1..Len(q) : m.id # q[i].id

AllDistinct == \A p \in Peers : Distinct(inbox[p], received[p])

(* The inductive invariant. *)
BusInv == BusTypeOK /\ AllRouted /\ AllDistinct

USE MessageBusAssumption

-----------------------------------------------------------------------------
LEMMA NewMessageFields ==
    ASSUME NEW id \in Ids, NEW p \in Peers, NEW q \in Peers
    PROVE  LET m == NewMessage(id, p, q)
           IN /\ m \in Message /\ m.id = id /\ m.to = q
              /\ m.ttl + m.hops = Ttl
BY DEF NewMessage, Message

LEMMA RelayFields ==
    ASSUME NEW m \in Message, NEW to \in Peers, m.hops + 1 <= MaxHops, m.ttl > 1
    PROVE  /\ Relay(m, to) \in Message /\ Relay(m, to).id = m.id /\ Relay(m, to).to = to
           /\ Relay(m, to).ttl + Relay(m, to).hops = m.ttl + m.hops
<1>1. m.hops + 1 \in 0..MaxHops /\ m.ttl - 1 \in 0..Ttl
  BY DEF Message
<1>2. Relay(m, to) = [m EXCEPT !.to = to, !.hops = m.hops + 1, !.ttl = m.ttl - 1]
  BY DEF Relay
<1>3. /\ Relay(m, to) \in Message /\ Relay(m, to).id = m.id /\ Relay(m, to).to = to
      /\ Relay(m, to).hops = m.hops + 1 /\ Relay(m, to).ttl = m.ttl - 1
  BY <1>1, <1>2 DEF Message
<1>4. m.hops \in Nat /\ m.ttl \in Nat
  BY DEF Message
<1> QED BY <1>3, <1>4

(* receive finds a message of the inbox, or none. *)
LEMMA FirstFreshInRange ==
    ASSUME NEW q \in Seq(Message)
    PROVE  FirstFresh(q) \in 0..Len(q)
<1> DEFINE I == {i \in 1..Len(q) : q[i].id \notin expired}
           R == {p \in Nat \X Nat : p[1] < p[2]}
<1>1. FirstFresh(q) = IF I # {} THEN Min(I) ELSE 0
  BY DEF FirstFresh, SelectInSeq
<1>2. CASE I # {}
  <2>1. I \subseteq Nat
    OBVIOUS
  <2>2. IsWellFoundedOn(R, Nat)
    BY NatLessThanWellFounded, Zenon DEF OpToRel
  <2>3. PICK x \in I : \A y \in I : ~(<<y, x>> \in R)
    <3> HIDE DEF R, I
    <3> QED BY <1>2, <2>1, <2>2, WFMin
  <2>4. \A y \in I : x <= y
    <3> SUFFICES ASSUME NEW y \in I PROVE x <= y
      OBVIOUS
    <3>1. x \in Nat /\ y \in Nat /\ <<y, x>> \in Nat \X Nat
      BY <2>1
    <3>2. ~(y < x)
      BY <2>3, <3>1
    <3> QED BY <3>1, <3>2
  <2> HIDE DEF I
  <2>5. Min(I) \in I
    BY <2>4 DEF Min
  <2> QED BY <1>1, <1>2, <2>5 DEF I
<1>3. CASE I = {}
  BY <1>1, <1>3
<1> QED BY <1>2, <1>3

LEMMA InboxFields ==
    ASSUME BusTypeOK, NEW p \in Peers
    PROVE  /\ inbox[p] \in Seq(Message) /\ Len(inbox[p]) \in Nat
           /\ DOMAIN inbox[p] = 1..Len(inbox[p]) /\ received[p] \in SUBSET Message
           /\ \A i \in 1..Len(inbox[p]) : inbox[p][i] \in Message
<1>1. inbox[p] \in Seq(Message) /\ received[p] \in SUBSET Message
  BY DEF BusTypeOK
<1> QED BY <1>1, LenProperties, ElementOfSeq

(* send: a message that was not routed to its recipient before is appended. *)
LEMMA RouteKeeps ==
    ASSUME BusInv, NEW m \in Message, Accepted(m), Route(m), m.ttl + m.hops = Ttl,
           forwarded' \in [Peers \X Peers -> 0..(MaxHops + 1)]
    PROVE  BusInv'
<1> DEFINE to == m.to
           q == inbox[to]
           v == Append(q, m)
<1>1. to \in Peers /\ m.id \in Ids
  BY DEF Message
<1>2. q \in Seq(Message) /\ Len(q) \in Nat
  BY <1>1, InboxFields DEF BusInv
<1>3. /\ v \in Seq(Message) /\ Len(v) = Len(q) + 1 /\ v[Len(q) + 1] = m
      /\ \A i \in 1..Len(q) : v[i] = q[i]
  <2> HIDE DEF q
  <2> QED BY <1>2, AppendProperties
<1>4. inbox' = [inbox EXCEPT ![to] = v] /\ pairs' = pairs \cup {<<m.id, to>>}
         /\ UNCHANGED <<registered, expired, received>>
  BY DEF Route
<1>5. /\ \A i \in 1..Len(q) : q[i] \in RoutedTo(to)
      /\ received[to] \subseteq RoutedTo(to) /\ Distinct(q, received[to])
  BY <1>1 DEF BusInv, AllRouted, AllDistinct
<1>6. \A x \in RoutedTo(to) : x.id # m.id
  BY DEF Accepted, RoutedTo
<1>7. Len(q) < MaxInbox
  BY DEF Accepted
<1> HIDE DEF v
<1>8. /\ inbox' \in [Peers -> Seq(Message)] /\ inbox'[to] = v
      /\ \A p \in Peers : p # to => inbox'[p] = inbox[p]
  BY <1>1, <1>3, <1>4 DEF BusInv, BusTypeOK
<1>9. BusTypeOK'
  <2>1. pairs' \in SUBSET (Ids \X Peers) /\ stored' \in SUBSET Ids
    BY <1>1, <1>4 DEF BusInv, BusTypeOK, Route
  <2> QED BY <1>4, <1>8, <2>1 DEF BusInv, BusTypeOK
<1>10. \A p \in Peers : RoutedTo(p) \subseteq RoutedTo(p)'
  BY <1>4 DEF RoutedTo
<1> HIDE DEF q, to
<1>11. m \in {x \in Message : <<x.id, to>> \in pairs' /\ x.ttl + x.hops = Ttl}
  BY <1>4
<1>12. \A i \in 1..Len(v) : i \in 1..Len(q) \/ i = Len(q) + 1
  BY <1>2, <1>3
<1>13. AllRouted'
  <2> SUFFICES ASSUME NEW p \in Peers
               PROVE  /\ \A i \in 1..Len(inbox'[p]) : inbox'[p][i] \in RoutedTo(p)'
                      /\ received'[p] \subseteq RoutedTo(p)'
    BY DEF AllRouted
  <2>1. CASE p = to
    <3>1. RoutedTo(p)' = {x \in Message : <<x.id, to>> \in pairs' /\ x.ttl + x.hops = Ttl}
      BY <2>1 DEF RoutedTo
    <3>2. \A i \in 1..Len(q) : q[i] \in RoutedTo(p)'
      BY <1>5, <1>10, <2>1
    <3>3. \A i \in 1..Len(v) : v[i] \in RoutedTo(p)'
      <4> SUFFICES ASSUME NEW i \in 1..Len(v) PROVE v[i] \in RoutedTo(p)'
        OBVIOUS
      <4>1. CASE i \in 1..Len(q)
        BY <1>3, <3>2, <4>1
      <4>2. CASE i = Len(q) + 1
        BY <1>3, <1>11, <3>1, <4>2
      <4> QED BY <1>12, <4>1, <4>2
    <3>4. inbox'[p] = v
      BY <1>8, <2>1
    <3> QED BY <1>4, <1>5, <1>10, <2>1, <3>3, <3>4
  <2>2. CASE p # to
    <3>1. inbox'[p] = inbox[p] /\ received'[p] = received[p]
      BY <1>4, <1>8, <2>2
    <3>2. /\ \A i \in 1..Len(inbox[p]) : inbox[p][i] \in RoutedTo(p)
          /\ received[p] \subseteq RoutedTo(p)
      BY DEF BusInv, AllRouted
    <3> QED BY <1>10, <3>1, <3>2
  <2> QED BY <2>1, <2>2
<1>14. Distinct(v, received[to])
  <2>1. Len(v) <= MaxInbox
    BY <1>2, <1>3, <1>7
  <2>2. \A i \in 1..Len(q) : v[i] = q[i] /\ v[i].id # m.id
    BY <1>3, <1>5, <1>6
  <2>3. \A i, j \in 1..Len(v) : v[i].id = v[j].id => i = j
    <3> SUFFICES ASSUME NEW i \in 1..Len(v), NEW j \in 1..Len(v), v[i].id = v[j].id
                 PROVE  i = j
      OBVIOUS
    <3>1. CASE i \in 1..Len(q) /\ j \in 1..Len(q)
      BY <1>5, <2>2, <3>1 DEF Distinct
    <3>2. CASE i \in 1..Len(q) /\ j = Len(q) + 1
      BY <1>3, <2>2, <3>2
    <3>3. CASE i = Len(q) + 1 /\ j \in 1..Len(q)
      BY <1>3, <2>2, <3>3
    <3> QED BY <1>12, <3>1, <3>2, <3>3
  <2>4. \A x \in received[to], i \in 1..Len(v) : x.id # v[i].id
    <3> SUFFICES ASSUME NEW x \in received[to], NEW i \in 1..Len(v) PROVE x.id # v[i].id
      OBVIOUS
    <3>1. CASE i \in 1..Len(q)
      BY <1>5, <2>2, <3>1 DEF Distinct
    <3>2. CASE i = Len(q) + 1
      BY <1>3, <1>5, <1>6, <3>2
    <3> QED BY <1>12, <3>1, <3>2
  <2> QED BY <1>5, <2>1, <2>3, <2>4 DEF Distinct
<1>15. AllDistinct'
  <2> SUFFICES ASSUME NEW p \in Peers PROVE Distinct(inbox'[p], received'[p])
    BY DEF AllDistinct
  <2>1. CASE p = to
    <3>1. inbox'[p] = v /\ received'[p] = received[to]
      BY <1>4, <1>8, <2>1
    <3> QED BY <1>14, <3>1
  <2>2. CASE p # to
    <3>1. inbox'[p] = inbox[p] /\ received'[p] = received[p]
      BY <1>4, <1>8, <2>2
    <3> QED BY <3>1 DEF BusInv, AllDistinct
  <2> QED BY <2>1, <2>2
<1> QED BY <1>9, <1>13, <1>15 DEF BusInv

(* receive: the rest of the inbox keeps its order. *)
LEMMA ReceiveKeeps ==
    ASSUME BusInv, NEW p \in Peers, Receive(p)
    PROVE  BusInv'
<1> DEFINE q == inbox[p]
           k == FirstFresh(q)
<1>1. q \in Seq(Message) /\ Len(q) \in Nat /\ received[p] \in SUBSET Message
         /\ \A i \in 1..Len(q) : q[i] \in Message
  BY InboxFields DEF BusInv
<1>2. k \in 0..Len(q)
  BY <1>1, FirstFreshInRange
<1>3. /\ \A i \in 1..Len(q) : q[i] \in RoutedTo(p)
      /\ received[p] \subseteq RoutedTo(p) /\ Distinct(q, received[p])
  BY DEF BusInv, AllRouted, AllDistinct
<1>4. PICK v \in Seq(Message), S \in SUBSET Message :
         /\ inbox' = [inbox EXCEPT ![p] = v] /\ received' = [received EXCEPT ![p] = S]
         /\ \A i \in 1..Len(v) : v[i] \in RoutedTo(p)
         /\ S \subseteq RoutedTo(p)
         /\ Distinct(v, S)
  <2>1. CASE k = 0
    <3> DEFINE v == <<>>
    <3>1. v \in Seq(Message) /\ Len(v) = 0
      OBVIOUS
    <3>2. inbox' = [inbox EXCEPT ![p] = v] /\ received' = [received EXCEPT ![p] = received[p]]
      BY <2>1 DEF Receive, BusInv, BusTypeOK
    <3> HIDE DEF v
    <3>3. Distinct(v, received[p]) /\ \A i \in 1..Len(v) : v[i] \in RoutedTo(p)
      BY <1>3, <3>1 DEF Distinct
    <3> QED BY <1>1, <1>3, <3>1, <3>2, <3>3
  <2>2. CASE k # 0
    <3> DEFINE v == SubSeq(q, k + 1, Len(q))
               S == received[p] \cup {q[k]}
    <3>1. inbox' = [inbox EXCEPT ![p] = v] /\ received' = [received EXCEPT ![p] = S]
      BY <2>2 DEF Receive
    <3> HIDE DEF k, q
    <3>2. k \in 1..Len(q) /\ k + 1 \in Int /\ Len(q) \in Int
      BY <1>1, <1>2, <2>2
    <3>3. \A i \in (k + 1)..Len(q) : q[i] \in Message
      BY <1>1, <3>2
    <3>4. /\ v \in Seq(Message)
          /\ Len(v) = IF k + 1 <= Len(q) THEN Len(q) - (k + 1) + 1 ELSE 0
          /\ \A i \in 1..(Len(q) - (k + 1) + 1) : v[i] = q[(k + 1) + i - 1]
      BY <3>2, <3>3, SubSeqProperties
    <3> HIDE DEF v
    <3>5. Len(v) = Len(q) - k
      BY <3>2, <3>4
    <3>6. \A i \in 1..Len(v) : v[i] = q[k + i] /\ k + i \in 1..Len(q) /\ k + i # k
      <4> SUFFICES ASSUME NEW i \in 1..Len(v)
                   PROVE  v[i] = q[k + i] /\ k + i \in 1..Len(q) /\ k + i # k
        OBVIOUS
      <4>1. (k + 1) + i - 1 = k + i /\ i \in 1..(Len(q) - (k + 1) + 1)
        BY <3>2, <3>5
      <4> QED BY <3>2, <3>4, <3>5, <4>1
    <3>7. \A i \in 1..Len(v) : v[i] \in RoutedTo(p)
      BY <1>3, <3>6
    <3>8. S \in SUBSET Message /\ S \subseteq RoutedTo(p)
      BY <1>1, <1>3, <3>2
    <3>9. Distinct(v, S)
      <4>1. Len(v) <= MaxInbox
        BY <1>1, <1>3, <3>2, <3>5 DEF Distinct
      <4>2. \A i, j \in 1..Len(v) : v[i].id = v[j].id => i = j
        <5> SUFFICES ASSUME NEW i \in 1..Len(v), NEW j \in 1..Len(v), v[i].id = v[j].id
                     PROVE  i = j
          OBVIOUS
        <5>1. k + i = k + j
          BY <1>3, <3>6 DEF Distinct
        <5> QED BY <3>2, <5>1
      <4>3. \A x, y \in S : x.id = y.id => x = y
        BY <1>3, <3>2 DEF Distinct
      <4>4. \A x \in S, i \in 1..Len(v) : x.id # v[i].id
        <5> SUFFICES ASSUME NEW x \in S, NEW i \in 1..Len(v) PROVE x.id # v[i].id
          OBVIOUS
        <5>1. CASE x \in received[p]
          BY <1>3, <3>6, <5>1 DEF Distinct
        <5>2. CASE x = q[k]
          BY <1>3, <3>2, <3>6, <5>2 DEF Distinct
        <5> QED BY <5>1, <5>2
      <4> QED BY <4>1, <4>2, <4>3, <4>4 DEF Distinct
    <3> QED BY <3>1, <3>4, <3>7, <3>8, <3>9
  <2> QED BY <2>1, <2>2
<1>5. UNCHANGED <<registered, pairs, forwarded, stored, expired>>
  BY DEF Receive
<1>6. /\ inbox' \in [Peers -> Seq(Message)] /\ inbox'[p] = v
      /\ received' \in [Peers -> SUBSET Message] /\ received'[p] = S
      /\ \A x \in Peers : x # p => inbox'[x] = inbox[x] /\ received'[x] = received[x]
  BY <1>4 DEF BusInv, BusTypeOK
<1>7. BusTypeOK'
  BY <1>5, <1>6 DEF BusInv, BusTypeOK
<1>8. \A x \in Peers : RoutedTo(x)' = RoutedTo(x)
  BY <1>5 DEF RoutedTo
<1>9. ASSUME NEW x \in Peers
      PROVE  /\ \A i \in 1..Len(inbox'[x]) : inbox'[x][i] \in RoutedTo(x)'
             /\ received'[x] \subseteq RoutedTo(x)'
             /\ Distinct(inbox'[x], received'[x])
  <2>1. CASE x = p
    <3>1. inbox'[x] = v /\ received'[x] = S /\ RoutedTo(x)' = RoutedTo(p)
      BY <1>6, <1>8, <2>1
    <3> QED BY <1>4, <3>1
  <2>2. CASE x # p
    <3>1. inbox'[x] = inbox[x] /\ received'[x] = received[x]
      BY <1>6, <2>2
    <3> QED BY <1>8, <3>1 DEF BusInv, AllRouted, AllDistinct
  <2> QED BY <2>1, <2>2
<1>10. AllRouted' /\ AllDistinct'
  BY <1>9 DEF AllRouted, AllDistinct
<1> QED BY <1>7, <1>10 DEF BusInv

(* What leaves inboxes, pairs and received messages alone. *)
LEMMA BusStays ==
    ASSUME BusInv, BusTypeOK', UNCHANGED <<inbox, pairs, received>>
    PROVE  BusInv'
<1>1. \A x \in Peers : RoutedTo(x)' = RoutedTo(x)
  BY DEF RoutedTo
<1>2. AllRouted'
  BY <1>1 DEF BusInv, AllRouted
<1>3. AllDistinct'
  BY DEF BusInv, AllDistinct
<1> QED BY <1>2, <1>3 DEF BusInv

(* forward: what is relayed keeps its id, so it is routed to an agent once,  *)
(* whoever relays it.                                                        *)
LEMMA ForwardKeeps ==
    ASSUME BusInv, NEW p \in Peers, NEW m \in received[p], NEW to \in Peers, Forward(m, to)
    PROVE  BusInv'
<1>1. m \in RoutedTo(p) /\ m \in Message /\ m.ttl + m.hops = Ttl
  BY DEF BusInv, AllRouted, RoutedTo
<1> DEFINE e == <<m.from, to>>
<1>2. e \in Peers \X Peers
  BY <1>1 DEF Message
<1>3. forwarded[e] <= MaxHops /\ forwarded' = [forwarded EXCEPT ![e] = forwarded[e] + 1]
  BY DEF Forward
<1>4. forwarded' \in [Peers \X Peers -> 0..(MaxHops + 1)]
  <2>1. forwarded[e] \in 0..(MaxHops + 1)
    BY <1>2 DEF BusInv, BusTypeOK
  <2>2. forwarded[e] + 1 \in 0..(MaxHops + 1)
    BY <1>3, <2>1
  <2> HIDE DEF e
  <2> QED BY <1>2, <1>3, <2>2 DEF BusInv, BusTypeOK
<1>5. /\ Relay(m, to) \in Message
      /\ Relay(m, to).ttl + Relay(m, to).hops = m.ttl + m.hops
  BY <1>1, RelayFields DEF Forward
<1>6. CASE Accepted(Relay(m, to)) /\ Route(Relay(m, to))
  BY <1>1, <1>4, <1>5, <1>6, RouteKeeps
<1>7. CASE UNCHANGED <<registered, inbox, pairs, stored, expired, received>>
  <2>1. BusTypeOK'
    BY <1>4, <1>7 DEF BusInv, BusTypeOK
  <2> QED BY <1>7, <2>1, BusStays
<1> QED BY <1>6, <1>7 DEF Forward

-----------------------------------------------------------------------------
LEMMA BusInitHolds == BusInit => BusInv
<1> SUFFICES ASSUME BusInit PROVE BusInv
  OBVIOUS
<1> DEFINE w == <<>>
<1>1. w \in Seq(Message) /\ Len(w) = 0
  OBVIOUS
<1>2. inbox = [p \in Peers |-> w]
  BY DEF BusInit
<1> HIDE DEF w
<1>3. BusTypeOK
  BY <1>1, <1>2 DEF BusInit, BusTypeOK
<1>4. \A p \in Peers : inbox[p] = w /\ received[p] = {}
  BY <1>2 DEF BusInit
<1>5. AllRouted
  BY <1>1, <1>4 DEF AllRouted
<1>6. Distinct(w, {})
  BY <1>1 DEF Distinct
<1>7. AllDistinct
  BY <1>4, <1>6 DEF AllDistinct
<1> QED BY <1>3, <1>5, <1>7 DEF BusInv

LEMMA BusNextKeeps == BusInv /\ [BusNext]_busVars => BusInv'
<1> SUFFICES ASSUME BusInv, [BusNext]_busVars PROVE BusInv'
  OBVIOUS
<1>1. ASSUME NEW p \in Peers, Register(p)
      PROVE  BusInv'
  <2>1. BusTypeOK'
    BY <1>1 DEF Register, BusInv, BusTypeOK
  <2> QED BY <1>1, <2>1, BusStays DEF Register
<1>2. ASSUME NEW p \in Peers, NEW q \in Peers, NEW id \in Ids, Send(NewMessage(id, p, q))
      PROVE  BusInv'
  <2> DEFINE m == NewMessage(id, p, q)
  <2>1. m \in Message /\ m.ttl + m.hops = Ttl
    BY NewMessageFields
  <2>2. Accepted(m) /\ Route(m) /\ UNCHANGED forwarded
    BY <1>2 DEF Send
  <2>3. forwarded' \in [Peers \X Peers -> 0..(MaxHops + 1)]
    BY <2>2 DEF BusInv, BusTypeOK
  <2> HIDE DEF m
  <2> QED BY <2>1, <2>2, <2>3, RouteKeeps
<1>3. ASSUME NEW p \in Peers, Receive(p)
      PROVE  BusInv'
  BY <1>3, ReceiveKeeps
<1>4. ASSUME NEW p \in Peers, NEW q \in Peers, NEW m \in received[p], Forward(m, q)
      PROVE  BusInv'
  BY <1>4, ForwardKeeps
<1>5. ASSUME NEW id \in Ids, Expire(id)
      PROVE  BusInv'
  <2>1. BusTypeOK'
    BY <1>5 DEF Expire, BusInv, BusTypeOK
  <2> QED BY <1>5, <2>1, BusStays DEF Expire
<1>6. CASE UNCHANGED busVars
  <2>1. BusTypeOK'
    BY <1>6 DEF busVars, BusInv, BusTypeOK
  <2> QED BY <1>6, <2>1, BusStays DEF busVars
<1> QED BY <1>1, <1>2, <1>3, <1>4, <1>5, <1>6 DEF BusNext

(* However messages are relayed in circles and whatever expires, no agent    *)
(* holds or has received one message twice, none travels further than its    *)
(* ttl, and inboxes stay within max_inbox (MessageBus.send, receive,         *)
(* forward).                                                                 *)
THEOREM BusIsSafe == BusSpec => []BusSafe
<1>1. BusInv => BusSafe
  <2> SUFFICES ASSUME BusInv PROVE BusSafe
    OBVIOUS
  <2>1. DeliveredOnce
    <3> SUFFICES ASSUME NEW p \in Peers
                 PROVE  /\ \A i, j \in DOMAIN inbox[p] : inbox[p][i].id = inbox[p][j].id => i = j
                        /\ \A m, n \in received[p] : m.id = n.id => m = n
                        /\ \A m \in received[p], i \in DOMAIN inbox[p] : m.id # inbox[p][i].id
                        /\ \A i \in DOMAIN inbox[p] : inbox[p][i].ttl + inbox[p][i].hops = Ttl
                        /\ Len(inbox[p]) <= MaxInbox
      BY DEF DeliveredOnce
    <3>1. DOMAIN inbox[p] = 1..Len(inbox[p])
      BY InboxFields DEF BusInv
    <3>2. Distinct(inbox[p], received[p])
      BY DEF BusInv, AllDistinct
    <3>3. \A i \in 1..Len(inbox[p]) : inbox[p][i].ttl + inbox[p][i].hops = Ttl
      BY DEF BusInv, AllRouted, RoutedTo
    <3> QED BY <3>1, <3>2, <3>3 DEF Distinct
  <2> QED BY <2>1 DEF BusInv, BusSafe
<1> QED BY <1>1, BusInitHolds, BusNextKeeps, PTL DEF BusSpec

-----------------------------------------------------------------------------
(* Agents: the runs of a team, for any team, subtasks, pool and restarts.  *)

(* A subtask no thread has taken up and no result is known of. *)
Untouched(r) == thread[r].at = "idle" /\ got[r] = "none"

(* Where a run is decides which subtasks are on record, taken up and         *)
(* answered.                                                                 *)
Submitting ==
    /\ caller.at \in {"idle", "submit", "request", "handoff"} => \A r \in Records :
          /\ r > caller.k => Untouched(r) /\ record[r] = "none"
          /\ (r < caller.k /\ caller.mode \in {"fan_out", "run_goal"}) =>
                Untouched(r) /\ record[r] = "CREATED"
    /\ caller.at = "submit" =>
          /\ caller.k \in Records /\ caller.mode \in Modes \ {"rerun"}
          /\ Untouched(caller.k) /\ record[caller.k] = "none"
    /\ caller.at \in {"request", "handoff"} =>
          /\ caller.k \in Records /\ Untouched(caller.k) /\ record[caller.k] = "CREATED"
          /\ caller.mode = IF caller.at = "request" THEN "fan_out" ELSE "chain"
    /\ caller.at = "inline" =>
          /\ caller.k \in Records /\ caller.mode \in {"chain", "delegate"}
          /\ \A r \in Records : r > caller.k => Untouched(r) /\ record[r] = "none"

Collecting ==
    /\ caller.at = "fill" =>
          /\ caller.mode \in {"fan_out", "run_goal", "rerun"}
          /\ \A r \in batch : Untouched(r) /\ record[r] \in
                IF caller.mode = "rerun" THEN {"CREATED", "READY", "COMPLETED", "FAILED"}
                                         ELSE {"CREATED"}
          /\ (caller.mode # "rerun" /\ ~stop) =>
                \A r \in Records : r \in batch \/ ~Untouched(r)
    /\ (caller.at \in {"report", "returned"} /\ caller.mode \in {"run_goal", "fan_out"} /\ ~stop) =>
          \A r \in Records : got[r] # "none"
    /\ caller.at = "report" => caller.k \in Records

(* Threads run only while run_all or an inline call waits for them, and the  *)
(* record is where the thread has brought it.                                *)
ThreadsTracked ==
    \A r \in Records :
        /\ caller.at = "inline" => r = caller.k \/ thread[r].at = "idle"
        /\ thread[r].at # "idle" => caller.at \in {"inline", "fill"} /\ got[r] = "none"
        /\ thread[r].at = "idle" => ~thread[r].ok /\ (record[r] = "RUNNING" => owner[r] \in gone)
        /\ thread[r].at = "read" => record[r] \in
              IF caller.mode = "rerun" THEN {"CREATED", "READY", "COMPLETED", "FAILED"}
                                       ELSE {"CREATED"}
        /\ thread[r].at = "mark" => record[r] \in {"CREATED", "READY"}
        /\ thread[r].at \in {"busyGet", "busyPut", "executing", "freeGet", "freePut", "settle"} =>
              record[r] = "RUNNING"
        /\ thread[r].at = "done" =>
              record[r] = IF thread[r].ok THEN "COMPLETED" ELSE "FAILED"
        /\ (thread[r].at = "raised" /\ owner[r] \notin gone) =>
              record[r] = "FAILED" \/ (caller.mode = "rerun" /\ record[r] = "COMPLETED")

GotRecorded ==
    \A r \in Records :
        /\ got[r] = "ok" => record[r] = "COMPLETED"
        /\ (got[r] = "bad" /\ owner[r] \notin gone) =>
              record[r] = "FAILED" \/ (caller.mode = "rerun" /\ record[r] = "COMPLETED")

(* The owner of a record was registered, and has a row unless it was         *)
(* deregistered.                                                             *)
OwnersKnown ==
    /\ caller.at # "idle" => owner \in [Records -> Team]
    /\ \A r \in Records : record[r] # "none" =>
          owner[r] \in Team /\ (agent[owner[r]] # "absent" \/ owner[r] \in gone)

AgentsInv == /\ AgentsTypeOK /\ Submitting /\ Collecting /\ ThreadsTracked
             /\ GotRecorded /\ OwnersKnown

-----------------------------------------------------------------------------
LEMMA RecordsFacts ==
    /\ Subtasks \in Nat /\ Subtasks >= 1 /\ 1 \in Records
    /\ \A r \in Records : r \in Nat /\ r >= 1 /\ r <= Subtasks
BY AgentsAssumption DEF Records

LEMMA AgentsInitHolds == AgentsInit => AgentsInv
<1> SUFFICES ASSUME AgentsInit PROVE AgentsInv
  OBVIOUS
<1>1. AgentsTypeOK
  <2>1. Idle \in [at : Threads, ok : BOOLEAN]
    BY DEF Idle, Threads
  <2>2. Resting \in [mode : Modes \cup {"none"}, at : Calls, k : 0..Subtasks]
    BY RecordsFacts DEF Resting, Calls
  <2>3. crashes \in 0..MaxCrashes /\ Sup \in Members
    BY AgentsAssumption DEF AgentsInit, Members
  <2>4. /\ agent \in [Team -> {"absent", "CREATED", "READY", "RUNNING"}]
        /\ record \in [Records -> {"none", "CREATED", "READY", "RUNNING", "COMPLETED", "FAILED"}]
        /\ got \in [Records -> {"none", "ok", "bad"}]
        /\ report \in [Team -> {"none", "ok", "bad"}]
    BY DEF AgentsInit
  <2>5. /\ owner \in [Records -> Members]
        /\ thread \in [Records -> [at : Threads, ok : BOOLEAN]]
        /\ caller \in [mode : Modes \cup {"none"}, at : Calls, k : 0..Subtasks]
        /\ stop \in BOOLEAN /\ batch \subseteq Records /\ gone \subseteq Team
    BY <2>1, <2>2, <2>3 DEF AgentsInit
  <2> QED BY <2>3, <2>4, <2>5 DEF AgentsTypeOK
<1>2. caller.at = "idle" /\ caller.k = 0 /\ caller.mode = "none"
  BY DEF AgentsInit, Resting
<1>3. \A r \in Records : thread[r].at = "idle" /\ ~thread[r].ok /\ got[r] = "none" /\ record[r] = "none"
  BY DEF AgentsInit, Idle
<1>4. Submitting /\ Collecting /\ ThreadsTracked /\ GotRecorded /\ OwnersKnown
  BY <1>2, <1>3, RecordsFacts
     DEF Submitting, Collecting, ThreadsTracked, GotRecorded, OwnersKnown, Untouched
<1> QED BY <1>1, <1>4 DEF AgentsInv

(* Agents come and go: a row goes only with its id put among the gone. *)
LEMMA RegistryKeeps ==
    ASSUME AgentsInv, AgentsTypeOK',
           UNCHANGED <<record, owner, thread, caller, stop, batch, got>>,
           gone \in SUBSET gone',
           \A a \in Team : agent'[a] # "absent" \/ a \in gone' \/ agent[a] = "absent"
    PROVE  AgentsInv'
<1> USE DEF AgentsInv
<1>1. Submitting' /\ Collecting'
  BY DEF Submitting, Collecting, Untouched
<1>2. ThreadsTracked'
  BY DEF ThreadsTracked
<1>3. GotRecorded'
  BY DEF GotRecorded
<1>4. OwnersKnown'
  BY DEF OwnersKnown
<1> QED BY <1>1, <1>2, <1>3, <1>4

(* A step of one thread leaves the run alone. *)
LEMMA ThreadKeeps ==
    ASSUME AgentsInv, NEW r \in Records, thread[r].at # "idle", ThreadFrame,
           NEW t \in [at : Threads, ok : BOOLEAN], t.at # "idle",
           thread' = [thread EXCEPT ![r] = t],
           NEW s \in {"none", "CREATED", "READY", "RUNNING", "COMPLETED", "FAILED"},
           record' = [record EXCEPT ![r] = s],
           s # "none" => record[r] # "none",
           agent' \in [Team -> {"absent", "CREATED", "READY", "RUNNING"}],
           \A a \in Team : agent'[a] # "absent" \/ agent[a] = "absent",
           t.at = "mark" => s \in {"CREATED", "READY"},
           t.at # "read",
           t.at \in {"busyGet", "busyPut", "executing", "freeGet", "freePut", "settle"} =>
              s = "RUNNING",
           t.at = "done" => s = IF t.ok THEN "COMPLETED" ELSE "FAILED",
           (t.at = "raised" /\ owner[r] \notin gone) =>
              s = "FAILED" \/ (caller.mode = "rerun" /\ s = "COMPLETED")
    PROVE  AgentsInv'
<1> USE DEF AgentsInv, ThreadFrame
<1>1. /\ \A q \in Records : q # r => thread'[q] = thread[q] /\ record'[q] = record[q]
      /\ thread'[r] = t /\ record'[r] = s /\ got[r] = "none"
      /\ caller.at \in {"inline", "fill"} /\ (caller.at = "inline" => r = caller.k)
      /\ r \notin batch \/ caller.at = "inline"
  BY DEF AgentsTypeOK, ThreadsTracked, Collecting, Untouched
<1>2. AgentsTypeOK'
  BY DEF AgentsTypeOK
<1>3. Submitting'
  BY <1>1, RecordsFacts DEF Submitting, Untouched, AgentsTypeOK
<1>4. Collecting'
  BY <1>1 DEF Collecting, Untouched, AgentsTypeOK
<1>5. ThreadsTracked'
  BY <1>1 DEF ThreadsTracked
<1>6. GotRecorded'
  BY <1>1 DEF GotRecorded
<1>7. OwnersKnown'
  BY <1>1 DEF OwnersKnown
<1> QED BY <1>2, <1>3, <1>4, <1>5, <1>6, <1>7

LEMMA RunTaskKeeps ==
    ASSUME AgentsInv, NEW r \in Records, RunTask(r)
    PROVE  AgentsInv'
<1> USE DEF AgentsInv
<1> DEFINE x == thread[r]
<1>1. /\ x \in [at : Threads, ok : BOOLEAN] /\ x.at \notin {"idle", "done", "raised"}
      /\ record[r] \in {"none", "CREATED", "READY", "RUNNING", "COMPLETED", "FAILED"}
      /\ agent \in [Team -> {"absent", "CREATED", "READY", "RUNNING"}]
      /\ ThreadFrame
  BY DEF RunTask, Read, Mark, StatusGet, StatusPut, ExecuteRecord, Settle, AgentsTypeOK
<1>2. record[r] # "none" /\ owner[r] \in Team /\ (agent[owner[r]] # "absent" \/ owner[r] \in gone)
  BY <1>1 DEF ThreadsTracked, OwnersKnown, Threads
<1>3. ASSUME NEW at \in Threads, Move(r, at)
      PROVE  LET t == [x EXCEPT !.at = at]
             IN /\ thread' = [thread EXCEPT ![r] = t]
                /\ t \in [at : Threads, ok : BOOLEAN] /\ t.at = at /\ t.ok = x.ok
  BY <1>1, <1>3 DEF Move, AgentsTypeOK
<1>4. UNCHANGED record => record' = [record EXCEPT ![r] = record[r]]
  BY DEF AgentsTypeOK
<1>5. CASE Read(r)
  <2> DEFINE at == IF record[r] \in {"CREATED", "READY"} /\ agent[owner[r]] # "absent"
                   THEN "mark" ELSE "raised"
             t == [x EXCEPT !.at = at]
  <2>1. at \in Threads /\ Move(r, at) /\ x.at = "read" /\ UNCHANGED <<agent, record>>
    BY <1>5 DEF Read, Threads
  <2>2. /\ thread' = [thread EXCEPT ![r] = t]
        /\ t \in [at : Threads, ok : BOOLEAN] /\ t.at = at
    BY <1>3, <2>1
  <2>3. record[r] \in {"CREATED", "READY", "COMPLETED", "FAILED"}
        /\ (caller.mode # "rerun" => record[r] = "CREATED")
    BY <2>1 DEF ThreadsTracked
  <2> HIDE DEF t
  <2> QED BY <1>1, <1>2, <1>4, <2>1, <2>2, <2>3, ThreadKeeps
<1>6. CASE Mark(r)
  <2> DEFINE t == [x EXCEPT !.at = "busyGet"]
  <2>1. Move(r, "busyGet") /\ UNCHANGED agent /\ record' = [record EXCEPT ![r] = "RUNNING"]
    BY <1>6 DEF Mark
  <2>2. /\ thread' = [thread EXCEPT ![r] = t]
        /\ t \in [at : Threads, ok : BOOLEAN] /\ t.at = "busyGet"
    BY <1>3, <2>1 DEF Threads
  <2> HIDE DEF t
  <2> QED BY <1>1, <1>2, <2>1, <2>2, ThreadKeeps
<1>7. CASE StatusGet(r)
  <2>1. PICK at \in {"raised", "busyPut", "freePut"} :
           /\ Move(r, at) /\ (at = "raised" => agent[owner[r]] = "absent")
           /\ x.at \in {"busyGet", "freeGet"} /\ UNCHANGED <<agent, record>>
    BY <1>7 DEF StatusGet
  <2> DEFINE t == [x EXCEPT !.at = at]
  <2>2. /\ thread' = [thread EXCEPT ![r] = t]
        /\ t \in [at : Threads, ok : BOOLEAN] /\ t.at = at
    BY <1>3, <2>1 DEF Threads
  <2>3. record[r] = "RUNNING"
    BY <2>1 DEF ThreadsTracked
  <2> HIDE DEF t
  <2> QED BY <1>1, <1>2, <1>4, <2>1, <2>2, <2>3, ThreadKeeps
<1>8. CASE StatusPut(r)
  <2>1. PICK at \in {"executing", "settle"}, status \in {"RUNNING", "READY"} :
           /\ Move(r, at) /\ agent' = [agent EXCEPT ![owner[r]] = status]
           /\ x.at \in {"busyPut", "freePut"} /\ UNCHANGED record
    BY <1>8 DEF StatusPut
  <2> DEFINE t == [x EXCEPT !.at = at]
  <2>2. /\ thread' = [thread EXCEPT ![r] = t]
        /\ t \in [at : Threads, ok : BOOLEAN] /\ t.at = at
    BY <1>3, <2>1 DEF Threads
  <2>3. record[r] = "RUNNING"
    BY <2>1 DEF ThreadsTracked
  <2>4. /\ agent' \in [Team -> {"absent", "CREATED", "READY", "RUNNING"}]
        /\ \A a \in Team : agent'[a] # "absent" \/ agent[a] = "absent"
    BY <1>1, <2>1
  <2> HIDE DEF t
  <2> QED BY <1>1, <1>2, <1>4, <2>1, <2>2, <2>3, <2>4, ThreadKeeps
<1>9. CASE ExecuteRecord(r)
  <2>1. PICK ok \in BOOLEAN : thread' = [thread EXCEPT ![r] = [at |-> "freeGet", ok |-> ok]]
    BY <1>9 DEF ExecuteRecord
  <2> DEFINE t == [at |-> "freeGet", ok |-> ok]
  <2>2. t \in [at : Threads, ok : BOOLEAN] /\ t.at = "freeGet"
    BY DEF Threads
  <2>3. record[r] = "RUNNING" /\ UNCHANGED <<agent, record>>
    BY <1>9 DEF ThreadsTracked, ExecuteRecord
  <2> HIDE DEF t
  <2>4. thread' = [thread EXCEPT ![r] = t]
    BY <2>1 DEF t
  <2> QED BY <1>1, <1>2, <1>4, <2>2, <2>3, <2>4, ThreadKeeps
<1>10. CASE Settle(r)
  <2> DEFINE t == [x EXCEPT !.at = "done"]
             s == IF x.ok THEN "COMPLETED" ELSE "FAILED"
  <2>1. Move(r, "done") /\ UNCHANGED agent /\ record' = [record EXCEPT ![r] = s]
    BY <1>10 DEF Settle
  <2>2. /\ thread' = [thread EXCEPT ![r] = t]
        /\ t \in [at : Threads, ok : BOOLEAN] /\ t.at = "done" /\ t.ok = x.ok
    BY <1>3, <2>1 DEF Threads
  <2> HIDE DEF t
  <2> QED BY <1>1, <1>2, <2>1, <2>2, ThreadKeeps
<1> QED BY <1>5, <1>6, <1>7, <1>8, <1>9, <1>10 DEF RunTask

-----------------------------------------------------------------------------
(* The caller's steps. *)

LEMMA CallerFacts ==
    ASSUME AgentsTypeOK
    PROVE  /\ caller \in [mode : Modes \cup {"none"}, at : Calls, k : 0..Subtasks]
           /\ \A at \in Calls, k \in 0..Subtasks : Go(at, k) =>
                 /\ caller' \in [mode : Modes \cup {"none"}, at : Calls, k : 0..Subtasks]
                 /\ caller'.at = at /\ caller'.k = k /\ caller'.mode = caller.mode
           /\ Raise =>
                 /\ caller' \in [mode : Modes \cup {"none"}, at : Calls, k : 0..Subtasks]
                 /\ caller'.at = "raised" /\ caller'.k = caller.k /\ caller'.mode = caller.mode
BY DEF AgentsTypeOK, Go, Raise, Calls

(* A run that ends without touching anything else. *)
LEMMA RaiseKeeps ==
    ASSUME AgentsInv, Raise, caller.at \notin {"idle", "inline", "fill"},
           UNCHANGED <<agent, record, owner, thread, stop, batch, got, report, gone, crashes>>
    PROVE  AgentsInv'
<1> USE DEF AgentsInv
<1>1. /\ caller' \in [mode : Modes \cup {"none"}, at : Calls, k : 0..Subtasks]
      /\ caller'.at = "raised" /\ caller'.mode = caller.mode
  BY CallerFacts
<1>2. \A r \in Records : thread[r].at = "idle"
  BY DEF ThreadsTracked
<1>3. AgentsTypeOK'
  BY <1>1 DEF AgentsTypeOK
<1>4. Submitting' /\ Collecting'
  BY <1>1 DEF Submitting, Collecting
<1>5. ThreadsTracked'
  BY <1>1, <1>2 DEF ThreadsTracked
<1>6. GotRecorded' /\ OwnersKnown'
  BY <1>1 DEF GotRecorded, OwnersKnown
<1> QED BY <1>3, <1>4, <1>5, <1>6

LEMMA BeginKeeps ==
    ASSUME AgentsInv, NEW mode \in Modes \ {"rerun"}, NEW who \in [Records -> Team],
           Begin(mode, who)
    PROVE  AgentsInv'
<1> USE DEF AgentsInv
<1>1. /\ caller.at = "idle" /\ caller.k = 0
      /\ caller' = [mode |-> mode, at |-> "submit", k |-> 1] /\ owner' = who
      /\ UNCHANGED <<agent, record, thread, stop, batch, got, report, gone, crashes>>
  BY DEF Begin, Resting
<1>2. /\ caller' \in [mode : Modes \cup {"none"}, at : Calls, k : 0..Subtasks]
      /\ caller'.at = "submit" /\ caller'.k = 1 /\ caller'.mode = mode
  BY <1>1, RecordsFacts DEF Calls
<1>3. \A r \in Records : Untouched(r) /\ record[r] = "none" /\ r > 0
  BY <1>1, RecordsFacts DEF Submitting
<1>4. AgentsTypeOK'
  BY <1>1, <1>2 DEF AgentsTypeOK, Members
<1>5. Submitting'
  BY <1>1, <1>2, <1>3, RecordsFacts DEF Submitting, Untouched
<1>6. Collecting'
  BY <1>2 DEF Collecting
<1>7. ThreadsTracked'
  BY <1>1, <1>2, <1>3 DEF ThreadsTracked, Untouched
<1>8. GotRecorded' /\ OwnersKnown'
  BY <1>1, <1>3 DEF GotRecorded, OwnersKnown, Untouched
<1> QED BY <1>4, <1>5, <1>6, <1>7, <1>8

(* The last subtask has been handed over: every one is pending. *)
LEMMA SubmitKeeps == ASSUME AgentsInv, Submit PROVE AgentsInv'
<1> USE DEF AgentsInv
<1> DEFINE k == caller.k
           runnable == agent[owner[k]] \in {"READY", "RUNNING"}
<1>1. /\ caller.at = "submit" /\ k \in Records /\ caller.mode \in Modes \ {"rerun"}
      /\ Untouched(k) /\ record[k] = "none" /\ owner \in [Records -> Team]
      /\ UNCHANGED <<agent, owner, stop, got, report, gone, crashes>>
      /\ k \in Nat /\ k >= 1 /\ k <= Subtasks /\ Subtasks \in Nat
  BY RecordsFacts DEF Submit, Submitting, OwnersKnown
<1>2. CASE ~runnable
  <2>1. Raise /\ UNCHANGED record
    BY <1>2 DEF Submit
  <2>2. caller'.at = "raised"
    BY <2>1, CallerFacts
  <2>3. UNCHANGED <<thread, batch>>
    BY <2>2 DEF Submit
  <2> QED BY <1>1, <2>1, <2>3, RaiseKeeps
<1>3. CASE runnable
  <2> DEFINE to == CASE caller.mode = "fan_out" -> "request"
                     [] caller.mode = "chain" /\ k > 1 -> "handoff"
                     [] caller.mode \in {"chain", "delegate"} -> "inline"
                     [] OTHER -> IF k = Subtasks THEN "fill" ELSE "submit"
             next == IF caller.mode = "run_goal" /\ k < Subtasks THEN k + 1 ELSE k
  <2>1. /\ Go(to, next) /\ record' = [record EXCEPT ![k] = "CREATED"]
        /\ thread' = IF caller'.at = "inline" THEN [thread EXCEPT ![k].at = "read"] ELSE thread
        /\ batch' = IF caller'.at = "fill" THEN Records ELSE batch
    BY <1>3 DEF Submit
  <2>2. /\ next \in 0..Subtasks
        /\ \/ caller.mode = "fan_out" /\ to = "request" /\ next = k
           \/ caller.mode = "chain" /\ k > 1 /\ to = "handoff" /\ next = k
           \/ caller.mode \in {"chain", "delegate"} /\ to = "inline" /\ next = k
           \/ caller.mode = "run_goal" /\ k = Subtasks /\ to = "fill" /\ next = k
           \/ caller.mode = "run_goal" /\ k < Subtasks /\ to = "submit" /\ next = k + 1
    BY <1>1 DEF Modes
  <2>3. to \in Calls
    BY <2>2 DEF Calls
  <2> HIDE DEF to, next
  <2>4. /\ caller' \in [mode : Modes \cup {"none"}, at : Calls, k : 0..Subtasks]
        /\ caller'.at = to /\ caller'.k = next /\ caller'.mode = caller.mode
    BY <2>1, <2>2, <2>3, CallerFacts
  <2>5. \A r \in Records : thread[r].at = "idle" /\ thread[r] \in [at : Threads, ok : BOOLEAN]
    BY <1>1 DEF ThreadsTracked, AgentsTypeOK
  <2>6. /\ record'[k] = "CREATED" /\ \A r \in Records : r # k => record'[r] = record[r]
        /\ record' \in [Records -> {"none", "CREATED", "READY", "RUNNING", "COMPLETED", "FAILED"}]
    BY <1>1, <2>1 DEF AgentsTypeOK
  <2>7. /\ thread' \in [Records -> [at : Threads, ok : BOOLEAN]]
        /\ \A r \in Records : /\ r # k => thread'[r] = thread[r]
                              /\ to # "inline" => thread'[r] = thread[r]
        /\ to = "inline" => thread'[k].at = "read"
    BY <1>1, <2>1, <2>4 DEF AgentsTypeOK, Threads
  <2>8. AgentsTypeOK'
    BY <1>1, <2>1, <2>4, <2>6, <2>7 DEF AgentsTypeOK
  <2>9. \A r \in Records : /\ r > k => Untouched(r) /\ record[r] = "none"
                           /\ (r < k /\ caller.mode \in {"fan_out", "run_goal"}) =>
                                 Untouched(r) /\ record[r] = "CREATED"
    BY <1>1 DEF Submitting
  <2>10. Submitting'
    <3>1. \A r \in Records :
             /\ r > k => Untouched(r)' /\ record'[r] = "none"
             /\ (r < k /\ caller.mode \in {"fan_out", "run_goal"}) =>
                   Untouched(r)' /\ record'[r] = "CREATED"
             /\ (r = k /\ to # "inline") => Untouched(r)' /\ record'[r] = "CREATED"
      BY <1>1, <2>6, <2>7, <2>9, RecordsFacts DEF Untouched
    <3>2. CASE to \in {"request", "handoff"} /\ next = k
      BY <1>1, <2>2, <2>4, <3>1, <3>2 DEF Submitting
    <3>3. CASE to \in {"inline", "fill"} /\ next = k
      BY <1>1, <2>2, <2>4, <3>1, <3>3 DEF Submitting
    <3>4. CASE caller.mode = "run_goal" /\ k < Subtasks /\ to = "submit" /\ next = k + 1
      <4>1. k + 1 \in Records /\ \A r \in Records : (r > k + 1 => r > k) /\ (r < k + 1 => r < k \/ r = k)
        BY <1>1, <3>4, RecordsFacts DEF Records
      <4>2. caller'.at = "submit" /\ caller'.k = k + 1 /\ caller'.mode = "run_goal" /\ k + 1 > k
        BY <1>1, <2>4, <3>4
      <4> HIDE DEF k
      <4> QED BY <3>1, <3>4, <4>1, <4>2 DEF Submitting, Modes
    <3> QED BY <2>2, <3>2, <3>3, <3>4
  <2>11. Collecting'
    <3>1. CASE to # "fill"
      BY <2>2, <2>4, <3>1 DEF Collecting
    <3>2. CASE to = "fill"
      <4>1. \A r \in Records : r = k \/ r < k
        BY <1>1, <2>2, <3>2, RecordsFacts
      <4>2. \A r \in Records : Untouched(r)' /\ record'[r] = "CREATED"
        BY <1>1, <2>2, <2>6, <2>7, <2>9, <3>2, <4>1 DEF Untouched
      <4> QED BY <2>1, <2>2, <2>4, <3>2, <4>2 DEF Collecting
    <3> QED BY <3>1, <3>2
  <2>12. ThreadsTracked'
    BY <1>1, <2>2, <2>4, <2>5, <2>6, <2>7 DEF ThreadsTracked, Untouched
  <2>13. GotRecorded'
    BY <1>1, <2>4, <2>6 DEF GotRecorded, Untouched
  <2>14. OwnersKnown'
    BY <1>1, <1>3, <2>6 DEF OwnersKnown, AgentsTypeOK
  <2> QED BY <2>8, <2>10, <2>11, <2>12, <2>13, <2>14
<1> QED BY <1>2, <1>3

LEMMA SendRequestKeeps == ASSUME AgentsInv, SendRequest PROVE AgentsInv'
<1> USE DEF AgentsInv
<1> DEFINE k == caller.k
<1>1. /\ caller.at = "request" /\ k \in Records /\ caller.mode = "fan_out"
      /\ Untouched(k) /\ record[k] = "CREATED"
      /\ UNCHANGED <<agent, record, owner, thread, stop, got, report, gone, crashes>>
      /\ k \in Nat /\ k >= 1 /\ k <= Subtasks /\ Subtasks \in Nat
  BY RecordsFacts DEF SendRequest, Submitting
<1>2. CASE Raise /\ UNCHANGED batch
  BY <1>1, <1>2, RaiseKeeps
<1>3. CASE /\ IF k = Subtasks THEN Go("fill", Subtasks) ELSE Go("submit", k + 1)
           /\ batch' = IF k = Subtasks THEN Records ELSE batch
  <2> DEFINE to == IF k = Subtasks THEN "fill" ELSE "submit"
             next == IF k = Subtasks THEN Subtasks ELSE k + 1
  <2>1. /\ to \in Calls /\ next \in 0..Subtasks /\ Go(to, next)
    BY <1>1, <1>3 DEF Calls
  <2>2. /\ caller' \in [mode : Modes \cup {"none"}, at : Calls, k : 0..Subtasks]
        /\ caller'.at = to /\ caller'.k = next /\ caller'.mode = caller.mode
    BY <2>1, CallerFacts
  <2>3. \A r \in Records : /\ r > k => Untouched(r) /\ record[r] = "none"
                           /\ r <= k => Untouched(r) /\ record[r] = "CREATED"
    BY <1>1, RecordsFacts DEF Submitting
  <2>4. AgentsTypeOK'
    BY <1>1, <1>3, <2>2 DEF AgentsTypeOK
  <2>5. Submitting'
    <3>1. \A r \in Records : Untouched(r)' = Untouched(r)
      BY <1>1 DEF Untouched
    <3>2. CASE k = Subtasks
      BY <2>2, <3>2 DEF Submitting
    <3>3. CASE k # Subtasks
      <4>1. k + 1 \in Records /\ \A r \in Records : (r > k + 1 => r > k) /\ (r < k + 1 => r <= k)
        BY <1>1, <3>3, RecordsFacts DEF Records
      <4>2. caller'.at = "submit" /\ caller'.k = k + 1 /\ caller'.mode = "fan_out" /\ k + 1 > k
            /\ UNCHANGED record
        BY <1>1, <2>2, <3>3
      <4> HIDE DEF k
      <4> QED BY <2>3, <3>1, <4>1, <4>2 DEF Submitting, Modes
    <3> QED BY <3>2, <3>3
  <2>6. Collecting'
    BY <1>1, <1>3, <2>2, <2>3, RecordsFacts DEF Collecting, Untouched
  <2>7. ThreadsTracked'
    BY <1>1, <2>2, <2>3, RecordsFacts DEF ThreadsTracked, Untouched
  <2>8. GotRecorded' /\ OwnersKnown'
    BY <1>1, <2>2 DEF GotRecorded, OwnersKnown
  <2> QED BY <2>4, <2>5, <2>6, <2>7, <2>8
<1> QED BY <1>2, <1>3 DEF SendRequest

LEMMA SendHandoffKeeps == ASSUME AgentsInv, SendHandoff PROVE AgentsInv'
<1> USE DEF AgentsInv
<1> DEFINE k == caller.k
<1>1. /\ caller.at = "handoff" /\ k \in Records /\ caller.mode = "chain"
      /\ Untouched(k) /\ record[k] = "CREATED"
      /\ UNCHANGED <<agent, record, owner, stop, batch, got, report, gone, crashes>>
      /\ k \in Nat /\ k >= 1 /\ k <= Subtasks /\ Subtasks \in Nat
  BY RecordsFacts DEF SendHandoff, Submitting
<1>2. CASE Raise /\ UNCHANGED thread
  BY <1>1, <1>2, RaiseKeeps
<1>3. CASE Go("inline", k) /\ Move(k, "read")
  <2>1. /\ caller' \in [mode : Modes \cup {"none"}, at : Calls, k : 0..Subtasks]
        /\ caller'.at = "inline" /\ caller'.k = k /\ caller'.mode = "chain"
    BY <1>1, <1>3, CallerFacts DEF Calls
  <2>2. /\ thread' \in [Records -> [at : Threads, ok : BOOLEAN]]
        /\ \A r \in Records : r # k => thread'[r] = thread[r]
        /\ thread'[k].at = "read"
        /\ \A r \in Records : thread[r].at = "idle"
    BY <1>1, <1>3 DEF AgentsTypeOK, Threads, Move, ThreadsTracked
  <2>3. AgentsTypeOK'
    BY <1>1, <2>1, <2>2 DEF AgentsTypeOK
  <2>4. Submitting' /\ Collecting'
    BY <1>1, <2>1, <2>2, RecordsFacts DEF Submitting, Collecting, Untouched
  <2>5. ThreadsTracked'
    BY <1>1, <2>1, <2>2 DEF ThreadsTracked, Untouched
  <2>6. GotRecorded' /\ OwnersKnown'
    BY <1>1, <2>1 DEF GotRecorded, OwnersKnown
  <2> QED BY <2>3, <2>4, <2>5, <2>6
<1> QED BY <1>2, <1>3 DEF SendHandoff

LEMMA InlineKeeps == ASSUME AgentsInv, Inline PROVE AgentsInv'
<1> USE DEF AgentsInv
<1> DEFINE k == caller.k
<1>1. /\ caller.at = "inline" /\ k \in Records /\ caller.mode \in {"chain", "delegate"}
      /\ Ended(k) /\ thread' = [thread EXCEPT ![k] = Idle]
      /\ UNCHANGED <<agent, record, owner, stop, batch, gone, crashes>>
      /\ k \in Nat /\ k >= 1 /\ k <= Subtasks /\ Subtasks \in Nat
      /\ \A r \in Records : r > k => Untouched(r) /\ record[r] = "none"
      /\ owner \in [Records -> Team]
  BY RecordsFacts DEF Inline, Submitting, OwnersKnown
<1>2. /\ thread' \in [Records -> [at : Threads, ok : BOOLEAN]]
      /\ \A r \in Records : r # k => thread'[r] = thread[r]
      /\ \A r \in Records : thread'[r].at = "idle" /\ ~thread'[r].ok
  BY <1>1 DEF AgentsTypeOK, Idle, Threads, ThreadsTracked
<1>3. /\ got[k] = "none"
      /\ \A r \in Records : record[r] = "RUNNING" => owner[r] \in gone
  BY <1>1 DEF ThreadsTracked, Ended, OwnersKnown
<1>4. CASE thread[k].at = "raised" /\ Raise /\ UNCHANGED <<got, report>>
  <2>1. /\ caller' \in [mode : Modes \cup {"none"}, at : Calls, k : 0..Subtasks]
        /\ caller'.at = "raised" /\ caller'.mode = caller.mode
    BY <1>4, CallerFacts
  <2>2. AgentsTypeOK'
    BY <1>1, <1>2, <1>4, <2>1 DEF AgentsTypeOK
  <2>3. Submitting' /\ Collecting'
    BY <2>1 DEF Submitting, Collecting
  <2>4. ThreadsTracked'
    BY <1>1, <1>2, <1>3, <2>1 DEF ThreadsTracked
  <2>5. GotRecorded' /\ OwnersKnown'
    BY <1>1, <1>4, <2>1 DEF GotRecorded, OwnersKnown
  <2> QED BY <2>2, <2>3, <2>4, <2>5
<1>5. CASE /\ thread[k].at = "done"
           /\ got' = [got EXCEPT ![k] = Answer(k)]
           /\ \E verified \in {"ok", "bad"} : report' = [report EXCEPT ![owner[k]] = verified]
           /\ IF caller.mode = "delegate" \/ Answer(k) = "bad" \/ k = Subtasks
              THEN Go("returned", k) ELSE Go("submit", k + 1)
  <2>1. /\ Answer(k) \in {"ok", "bad"}
        /\ record[k] = IF Answer(k) = "ok" THEN "COMPLETED" ELSE "FAILED"
    BY <1>1, <1>5 DEF Answer, ThreadsTracked
  <2>2. /\ got' \in [Records -> {"none", "ok", "bad"}]
        /\ got'[k] = Answer(k) /\ \A r \in Records : r # k => got'[r] = got[r]
        /\ report' \in [Team -> {"none", "ok", "bad"}]
    <3>1. got \in [Records -> {"none", "ok", "bad"}] /\ report \in [Team -> {"none", "ok", "bad"}]
      BY DEF AgentsTypeOK
    <3> HIDE DEF k
    <3> QED BY <1>1, <1>5, <2>1, <3>1
  <2>3. \/ Go("returned", k)
        \/ k < Subtasks /\ caller.mode = "chain" /\ Go("submit", k + 1)
    BY <1>1, <1>5
  <2>4. /\ caller' \in [mode : Modes \cup {"none"}, at : Calls, k : 0..Subtasks]
        /\ caller'.mode = caller.mode
        /\ \/ caller'.at = "returned" /\ caller'.k = k
           \/ caller'.at = "submit" /\ caller'.k = k + 1 /\ k < Subtasks /\ caller.mode = "chain"
    BY <1>1, <2>3, CallerFacts DEF Calls
  <2>5. AgentsTypeOK'
    BY <1>1, <1>2, <2>2, <2>4 DEF AgentsTypeOK
  <2>6. Submitting'
    <3>1. CASE caller'.at = "returned"
      BY <3>1 DEF Submitting
    <3>2. CASE caller'.at = "submit"
      <4>1. k + 1 \in Records /\ \A r \in Records : r > k + 1 => r > k
        BY <1>1, <2>4, <3>2, RecordsFacts DEF Records
      <4>2. \A r \in Records : r > k => Untouched(r)' /\ record'[r] = "none"
        BY <1>1, <1>2, <2>2 DEF Untouched
      <4>3. caller'.k = k + 1 /\ caller'.mode = "chain" /\ k + 1 > k
        BY <1>1, <2>4, <3>2
      <4> HIDE DEF k
      <4> QED BY <3>2, <4>1, <4>2, <4>3 DEF Submitting, Modes
    <3> QED BY <2>4, <3>1, <3>2
  <2>7. Collecting'
    BY <1>1, <2>4 DEF Collecting
  <2>8. ThreadsTracked'
    BY <1>1, <1>2, <1>3, <2>4 DEF ThreadsTracked
  <2>9. GotRecorded'
    BY <1>1, <2>1, <2>2, <2>4 DEF GotRecorded
  <2>10. OwnersKnown'
    BY <1>1, <2>4 DEF OwnersKnown
  <2> QED BY <2>5, <2>6, <2>7, <2>8, <2>9, <2>10
<1> QED BY <1>4, <1>5 DEF Inline

LEMMA FillKeeps == ASSUME AgentsInv, Fill PROVE AgentsInv'
<1> USE DEF AgentsInv
<1>1. /\ caller.at = "fill"
      /\ UNCHANGED <<agent, record, owner, caller, stop, got, report, gone, crashes>>
  BY DEF Fill
<1>2. CASE stop /\ batch' = {} /\ UNCHANGED thread
  <2>1. AgentsTypeOK'
    BY <1>1, <1>2 DEF AgentsTypeOK
  <2>2. Submitting' /\ ThreadsTracked' /\ GotRecorded' /\ OwnersKnown'
    BY <1>1, <1>2 DEF Submitting, ThreadsTracked, GotRecorded, OwnersKnown
  <2>3. Collecting'
    BY <1>1, <1>2 DEF Collecting
  <2> QED BY <2>1, <2>2, <2>3
<1>3. ASSUME NEW r \in batch, batch' = batch \ {r}, Move(r, "read")
      PROVE  AgentsInv'
  <2>1. r \in Records /\ Untouched(r)
    BY <1>1 DEF AgentsTypeOK, Collecting
  <2>2. /\ thread' \in [Records -> [at : Threads, ok : BOOLEAN]]
        /\ \A q \in Records : q # r => thread'[q] = thread[q]
        /\ thread'[r].at = "read"
    BY <1>3, <2>1 DEF AgentsTypeOK, Threads, Move
  <2>3. AgentsTypeOK'
    BY <1>1, <1>3, <2>2 DEF AgentsTypeOK
  <2>4. Submitting'
    BY <1>1 DEF Submitting
  <2>5. Collecting'
    BY <1>1, <1>3, <2>1, <2>2 DEF Collecting, Untouched, AgentsTypeOK
  <2>6. ThreadsTracked'
    BY <1>1, <2>1, <2>2 DEF ThreadsTracked, Collecting, Untouched
  <2>7. GotRecorded' /\ OwnersKnown'
    BY <1>1 DEF GotRecorded, OwnersKnown
  <2> QED BY <2>3, <2>4, <2>5, <2>6, <2>7
<1> QED BY <1>2, <1>3 DEF Fill

LEMMA CollectKeeps == ASSUME AgentsInv, Collect PROVE AgentsInv'
<1> USE DEF AgentsInv
<1> DEFINE over == {r \in InFlight : Ended(r)}
<1>1. /\ caller.at = "fill"
      /\ got' = [r \in Records |-> IF r \in over THEN Answer(r) ELSE got[r]]
      /\ thread' = [r \in Records |-> IF r \in over THEN Idle ELSE thread[r]]
      /\ UNCHANGED <<agent, record, owner, caller, stop, batch, report, gone, crashes>>
  BY DEF Collect
<1>2. \A r \in Records : (r \in over) = (thread[r].at \in {"done", "raised"})
  BY DEF InFlight, Ended
<1>3. \A r \in Records : Answer(r) \in {"ok", "bad"}
  BY DEF Answer
<1> HIDE DEF over
<1>4. \A r \in Records : /\ r \in over => thread'[r].at = "idle" /\ ~thread'[r].ok /\ got'[r] = Answer(r)
                         /\ r \notin over => thread'[r] = thread[r] /\ got'[r] = got[r]
  BY <1>1 DEF Idle
<1>5. AgentsTypeOK'
  <2>1. Idle \in [at : Threads, ok : BOOLEAN]
    BY DEF Idle, Threads
  <2>2. /\ thread' \in [Records -> [at : Threads, ok : BOOLEAN]]
        /\ got' \in [Records -> {"none", "ok", "bad"}]
    BY <1>1, <1>3, <2>1 DEF AgentsTypeOK
  <2> QED BY <1>1, <2>2 DEF AgentsTypeOK
<1>6. Submitting'
  BY <1>1 DEF Submitting
<1>7. Collecting'
  <2>1. \A r \in Records : Untouched(r)' = Untouched(r)
    BY <1>2, <1>3, <1>4 DEF Untouched
  <2> QED BY <1>1, <2>1 DEF Collecting, AgentsTypeOK
<1>8. ThreadsTracked'
  BY <1>1, <1>2, <1>4 DEF ThreadsTracked
<1>9. GotRecorded'
  BY <1>1, <1>2, <1>4 DEF GotRecorded, ThreadsTracked, Answer
<1>10. OwnersKnown'
  BY <1>1 DEF OwnersKnown
<1> QED BY <1>5, <1>6, <1>7, <1>8, <1>9, <1>10

LEMMA RunAllReturnsKeeps == ASSUME AgentsInv, RunAllReturns PROVE AgentsInv'
<1> USE DEF AgentsInv
<1>1. /\ caller.at = "fill" /\ batch = {}
      /\ \A r \in Records : thread[r].at = "idle"
      /\ UNCHANGED <<agent, record, owner, thread, stop, batch, got, report, gone, crashes>>
  BY DEF RunAllReturns, InFlight
<1>2. /\ caller' \in [mode : Modes \cup {"none"}, at : Calls, k : 0..Subtasks]
      /\ caller'.mode = caller.mode
      /\ \/ caller'.at = "report" /\ caller'.k = 1
         \/ caller'.at = "returned"
         \/ caller'.at = "raised"
  <2>1. Go("report", 1) \/ Go("returned", Subtasks) \/ Raise
    BY DEF RunAllReturns
  <2> QED BY <2>1, CallerFacts, RecordsFacts DEF Calls
<1>3. (caller.mode \in {"run_goal", "fan_out"} /\ ~stop) => \A r \in Records : got[r] # "none"
  BY <1>1 DEF Collecting, Untouched
<1>4. AgentsTypeOK'
  BY <1>1, <1>2 DEF AgentsTypeOK
<1>5. Submitting' /\ Collecting'
  BY <1>1, <1>2, <1>3, RecordsFacts DEF Submitting, Collecting
<1>6. ThreadsTracked'
  BY <1>1, <1>2 DEF ThreadsTracked
<1>7. GotRecorded' /\ OwnersKnown'
  BY <1>1, <1>2 DEF GotRecorded, OwnersKnown
<1> QED BY <1>4, <1>5, <1>6, <1>7

LEMMA ReportKeeps == ASSUME AgentsInv, Report PROVE AgentsInv'
<1> USE DEF AgentsInv
<1> DEFINE k == caller.k
<1>1. /\ caller.at = "report" /\ k \in Records
      /\ UNCHANGED <<agent, record, owner, thread, stop, batch, got, gone, crashes>>
      /\ k \in Nat /\ k >= 1 /\ k <= Subtasks /\ Subtasks \in Nat
  BY RecordsFacts DEF Report, Collecting
<1>2. CASE Raise /\ UNCHANGED report
  BY <1>1, <1>2, RaiseKeeps
<1>3. CASE /\ \E verified \in {"ok", "bad"} : report' = [report EXCEPT ![owner[k]] = verified]
           /\ IF k = Subtasks THEN Go("returned", Subtasks) ELSE Go("report", k + 1)
  <2>1. /\ caller' \in [mode : Modes \cup {"none"}, at : Calls, k : 0..Subtasks]
        /\ caller'.mode = caller.mode
        /\ \/ caller'.at = "report" /\ caller'.k \in Records
           \/ caller'.at = "returned"
    BY <1>1, <1>3, CallerFacts DEF Calls, Records
  <2>2. \A r \in Records : thread[r].at = "idle"
    BY <1>1 DEF ThreadsTracked
  <2>3. report' \in [Team -> {"none", "ok", "bad"}]
    BY <1>3 DEF AgentsTypeOK
  <2>4. AgentsTypeOK'
    BY <1>1, <2>1, <2>3 DEF AgentsTypeOK
  <2>5. Submitting' /\ Collecting'
    BY <1>1, <2>1 DEF Submitting, Collecting
  <2>6. ThreadsTracked'
    BY <1>1, <2>1, <2>2 DEF ThreadsTracked
  <2>7. GotRecorded' /\ OwnersKnown'
    BY <1>1, <2>1 DEF GotRecorded, OwnersKnown
  <2> QED BY <2>4, <2>5, <2>6, <2>7
<1> QED BY <1>2, <1>3 DEF Report

LEMMA CancelRunKeeps == ASSUME AgentsInv, CancelRun PROVE AgentsInv'
<1> USE DEF AgentsInv
<1>1. /\ stop' = TRUE /\ caller.at = "fill"
      /\ UNCHANGED <<agent, record, owner, thread, caller, batch, got, report, gone, crashes>>
  BY DEF CancelRun
<1>2. AgentsTypeOK'
  BY <1>1 DEF AgentsTypeOK
<1>3. Submitting' /\ ThreadsTracked' /\ GotRecorded' /\ OwnersKnown'
  BY <1>1 DEF Submitting, ThreadsTracked, GotRecorded, OwnersKnown
<1>4. Collecting'
  BY <1>1 DEF Collecting, Untouched
<1> QED BY <1>2, <1>3, <1>4

(* After a restart no record is RUNNING, so what is rerun can be run. *)
LEMMA RestartKeeps == ASSUME AgentsInv, Restart PROVE AgentsInv'
<1> USE DEF AgentsInv
<1>1. /\ caller.at # "idle" /\ crashes < MaxCrashes /\ crashes' = crashes + 1
      /\ record' = Resumed /\ thread' = [r \in Records |-> Idle]
      /\ stop' = FALSE /\ got' = [r \in Records |-> "none"]
      /\ report' = [a \in Team |-> "none"]
      /\ batch' \in {{r \in Records : record[r] = "RUNNING"}, {r \in Records : record[r] # "none"}}
      /\ caller' = [mode |-> "rerun", at |-> "fill", k |-> 1]
      /\ UNCHANGED <<agent, owner, gone>>
  BY DEF Restart
<1>2. /\ caller' \in [mode : Modes \cup {"none"}, at : Calls, k : 0..Subtasks]
      /\ caller'.at = "fill" /\ caller'.mode = "rerun"
  BY <1>1, RecordsFacts DEF Calls, Modes
<1>3. \A r \in Records :
         /\ record'[r] \in {"none", "CREATED", "READY", "COMPLETED", "FAILED"}
         /\ (record'[r] = "none") = (record[r] = "none")
         /\ thread'[r].at = "idle" /\ ~thread'[r].ok /\ got'[r] = "none"
  BY <1>1 DEF Resumed, AgentsTypeOK, Idle
<1>4. AgentsTypeOK'
  <2>1. Idle \in [at : Threads, ok : BOOLEAN]
    BY DEF Idle, Threads
  <2>2. /\ thread' \in [Records -> [at : Threads, ok : BOOLEAN]]
        /\ got' \in [Records -> {"none", "ok", "bad"}]
        /\ report' \in [Team -> {"none", "ok", "bad"}]
    BY <1>1, <2>1
  <2>3. record' \in [Records -> {"none", "CREATED", "READY", "RUNNING", "COMPLETED", "FAILED"}]
    BY <1>1, <1>3 DEF Resumed
  <2>4. crashes' \in 0..MaxCrashes
    BY <1>1, AgentsAssumption DEF AgentsTypeOK
  <2>5. stop' \in BOOLEAN /\ batch' \subseteq Records
    BY <1>1
  <2> QED BY <1>1, <1>2, <2>2, <2>3, <2>4, <2>5 DEF AgentsTypeOK
<1>5. Submitting'
  BY <1>2 DEF Submitting
<1>6. Collecting'
  <2>1. \A r \in batch' : r \in Records /\ record[r] # "none"
    BY <1>1
  <2> QED BY <1>2, <1>3, <2>1 DEF Collecting, Untouched
<1>7. ThreadsTracked' /\ GotRecorded'
  BY <1>2, <1>3 DEF ThreadsTracked, GotRecorded
<1>8. OwnersKnown'
  BY <1>1, <1>3 DEF OwnersKnown
<1> QED BY <1>4, <1>5, <1>6, <1>7, <1>8

LEMMA AgentsNextKeeps == AgentsInv /\ [AgentsNext]_teamVars => AgentsInv'
<1> SUFFICES ASSUME AgentsInv, [AgentsNext]_teamVars PROVE AgentsInv'
  OBVIOUS
<1>1. ASSUME NEW a \in Team, RegisterAgent(a) \/ Spawn(a) \/ Deregister(a) PROVE AgentsInv'
  <2>1. /\ UNCHANGED <<record, owner, thread, caller, stop, batch, got, report, crashes>>
        /\ agent' \in [Team -> {"absent", "CREATED", "READY", "RUNNING"}]
        /\ gone' \subseteq Team /\ gone \in SUBSET gone'
        /\ \A b \in Team : agent'[b] # "absent" \/ b \in gone' \/ agent[b] = "absent"
    BY <1>1 DEF AgentsInv, AgentsTypeOK, RegisterAgent, Spawn, Deregister
  <2>2. AgentsTypeOK'
    BY <2>1 DEF AgentsInv, AgentsTypeOK
  <2> QED BY <2>1, <2>2, RegistryKeeps
<1>2. CASE BusStep \/ UNCHANGED teamVars
  <2>1. UNCHANGED <<agent, record, owner, thread, caller, stop, batch, got, report, gone, crashes>>
    BY <1>2 DEF BusStep, runVars, teamVars
  <2>2. AgentsTypeOK'
    BY <2>1 DEF AgentsInv, AgentsTypeOK
  <2> QED BY <2>1, <2>2, RegistryKeeps
<1>3. CASE Caller
  BY <1>3, SubmitKeeps, SendRequestKeeps, SendHandoffKeeps, InlineKeeps, FillKeeps,
     CollectKeeps, RunAllReturnsKeeps, ReportKeeps DEF Caller
<1> QED BY <1>1, <1>2, <1>3, BeginKeeps, RunTaskKeeps, CancelRunKeeps, RestartKeeps DEF AgentsNext

LEMMA AgentsInvariant == AgentsSpec => []AgentsInv
BY AgentsInitHolds, AgentsNextKeeps, PTL DEF AgentsSpec

(* What run_all, chain and run_goal hand back agrees with the agent_tasks    *)
(* table, and a run that was not cancelled accounts for every subtask, for   *)
(* any team, number of subtasks, pool size and number of restarts.           *)
THEOREM ReturnIsAccounted == AgentsSpec => []ReturnAccounts
<1>1. AgentsInv => ReturnAccounts
  <2> SUFFICES ASSUME AgentsInv PROVE ResultsRecorded
    BY DEF AgentsInv, ReturnAccounts
  <2>1. \A r \in Records :
          /\ got[r] = "ok" => record[r] = "COMPLETED"
          /\ (got[r] = "bad" /\ owner[r] \notin gone) =>
                record[r] = "FAILED" \/ (caller.mode = "rerun" /\ record[r] = "COMPLETED")
    BY DEF AgentsInv, GotRecorded
  <2>2. \A r \in Records :
          (record[r] = "RUNNING" /\ thread[r].at \in {"idle", "done", "raised"}) => owner[r] \in gone
    BY DEF AgentsInv, ThreadsTracked
  <2>3. ASSUME caller.at = "returned", NEW r \in Records PROVE thread[r] = Idle
    <3>1. thread[r] \in [at : Threads, ok : BOOLEAN] /\ thread[r].at = "idle" /\ ~thread[r].ok
      BY <2>3 DEF AgentsInv, AgentsTypeOK, ThreadsTracked
    <3>2. thread[r].ok = FALSE
      BY <3>1
    <3> QED BY <3>1, <3>2 DEF Idle
  <2>4. (caller.at = "returned" /\ caller.mode \in {"run_goal", "fan_out"} /\ ~stop) =>
           \A r \in Records : got[r] # "none"
    BY DEF AgentsInv, Collecting
  <2> QED BY <2>1, <2>2, <2>3, <2>4 DEF ResultsRecorded
<1> QED BY <1>1, AgentsInvariant, PTL

(* run_task refuses a record that is not CREATED or READY, and               *)
(* resume_interrupted resets RUNNING ones only: a settled record is final    *)
(* and is never executed again, across threads and restarts.                 *)
THEOREM SettledIsFinal == AgentsSpec => SettledNotRerun
<1> DEFINE Final == \A r \in Records : record[r] \in {"COMPLETED", "FAILED"} =>
                       record'[r] = record[r] /\ thread'[r].at # "executing"
<1>1. AgentsInv /\ AgentsInv' /\ [AgentsNext]_teamVars => [Final]_teamVars
  <2> SUFFICES ASSUME AgentsInv, AgentsInv', AgentsNext PROVE Final
    OBVIOUS
  <2>0. \A r \in Records : thread'[r].at = "executing" => record'[r] = "RUNNING"
    BY DEF AgentsInv, ThreadsTracked
  <2> SUFFICES ASSUME NEW r \in Records, record[r] \in {"COMPLETED", "FAILED"}
               PROVE  record'[r] = record[r]
    BY <2>0
  <2>1. CASE \E a \in Team : RegisterAgent(a) \/ Spawn(a) \/ Deregister(a)
    BY <2>1 DEF RegisterAgent, Spawn, Deregister
  <2>2. CASE BusStep \/ CancelRun \/ \E mode \in Modes \ {"rerun"}, who \in [Records -> Team] : Begin(mode, who)
    BY <2>2 DEF BusStep, runVars, CancelRun, Begin
  <2>3. CASE Submit
    <3>1. record[caller.k] = "none" /\ record \in [Records -> {"none", "CREATED", "READY", "RUNNING", "COMPLETED", "FAILED"}]
      BY <2>3 DEF Submit, AgentsInv, Submitting, AgentsTypeOK
    <3>2. record' = [record EXCEPT ![caller.k] = "CREATED"] \/ record' = record
      BY <2>3 DEF Submit
    <3> QED BY <3>1, <3>2
  <2>4. CASE SendRequest \/ SendHandoff \/ Inline \/ Fill \/ Collect \/ RunAllReturns \/ Report
    BY <2>4 DEF SendRequest, SendHandoff, Inline, Fill, Collect, RunAllReturns, Report
  <2>5. ASSUME NEW q \in Records, RunTask(q) PROVE record'[r] = record[r]
    <3>1. CASE Read(q) \/ StatusGet(q) \/ StatusPut(q) \/ ExecuteRecord(q)
      BY <3>1 DEF Read, StatusGet, StatusPut, ExecuteRecord
    <3>2. CASE Mark(q) \/ Settle(q)
      <4>1. record[q] \notin {"COMPLETED", "FAILED"}
        BY <3>2 DEF AgentsInv, ThreadsTracked, Mark, Settle
      <4>2. \E s : record' = [record EXCEPT ![q] = s]
        BY <3>2 DEF Mark, Settle
      <4> QED BY <4>1, <4>2 DEF AgentsInv, AgentsTypeOK
    <3> QED BY <2>5, <3>1, <3>2 DEF RunTask
  <2>6. CASE Restart
    BY <2>6 DEF Restart, Resumed
  <2> QED BY <2>1, <2>2, <2>3, <2>4, <2>5, <2>6 DEF AgentsNext, Caller
<1> QED BY <1>1, AgentsInvariant, PTL DEF AgentsSpec, SettledNotRerun
=============================================================================
