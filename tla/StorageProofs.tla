---------------------------- MODULE StorageProofs ----------------------------
(***************************************************************************)
(* Proofs about what other parts are built on: Database for any finite set *)
(* of threads, any nesting, any number of blocks and of writes; Audit for  *)
(* any recorders, files, clock and crashes; Mcp for any revisions,         *)
(* enabling threads, tool calls and any size of the queue.                 *)
(***************************************************************************)
EXTENDS Database, Audit, Mcp, FiniteSetTheorems, SequenceTheorems, WellFoundedInduction, TLAPS

(* The rows of a frame are those of its present block. *)
RowsCounted == \A w \in pending \cup durable : w[2] <= wrote[w[1]]

(* The blocks AtomicWhenAlone speaks of. *)
Alone(f) == f \in Frames \ mixed /\ f[2] = 1

(* While such a block runs it owns the transaction, and its writes are       *)
(* pending.                                                                  *)
AloneOwns ==
    \A f \in Active : Alone(f) =>
        /\ frame[f] = "outermost"
        /\ WritesOf(f) \subseteq pending
        /\ WritesOf(f) \cap durable = {}

(* Once it is left its writes are durable, or gone from both places. *)
AloneLeft ==
    \A f \in Frames : Alone(f) =>
        /\ frame[f] = "done" => WritesOf(f) \subseteq durable
        /\ frame[f] = "failed" => WritesOf(f) \cap (durable \cup pending) = {}

(* The inductive invariant. *)
DatabaseInv == TypeOK /\ TransactionOwned /\ RowsCounted /\ AloneOwns /\ AloneLeft

-----------------------------------------------------------------------------
LEMMA FramesFinite == \A S \in SUBSET Frames : IsFiniteSet(S) /\ Cardinality(S) \in Nat
<1>1. IsFiniteSet(Levels)
  BY FS_Interval, DatabaseAssumption DEF Levels
<1>2. IsFiniteSet(Frames)
  BY <1>1, FS_Product, DatabaseAssumption DEF Frames
<1> QED BY <1>2, FS_Subset, FS_CardinalityType

LEMMA ActiveFinite == IsFiniteSet(Active) /\ Cardinality(Active) \in Nat
BY FramesFinite DEF Active

LEMMA DatabaseInitInv == Init => DatabaseInv
<1> SUFFICES ASSUME Init PROVE DatabaseInv
  OBVIOUS
<1>1. TypeOK
  <2>1. 0 \in 0..MaxWrites /\ 0 \in 0..MaxBlocks
    BY DatabaseAssumption
  <2> QED BY <2>1 DEF Init, TypeOK, FrameState
<1>2. Active = {}
  BY DEF Init, Active, Inside
<1>3. TransactionOwned
  BY <1>2, FS_EmptySet DEF Init, TransactionOwned
<1>4. RowsCounted /\ AloneOwns /\ AloneLeft
  BY <1>2 DEF Init, RowsCounted, AloneOwns, AloneLeft
<1> QED BY <1>1, <1>3, <1>4 DEF DatabaseInv

LEMMA EnterInv == ASSUME DatabaseInv, NEW f \in Frames, Enter(f) PROVE DatabaseInv'
<1> USE DEF DatabaseInv, Enter
<1>1. f \notin Active /\ Active' = Active \cup {f}
  BY DEF Enterable, Active, Inside, TypeOK
<1>2. TypeOK'
  <2>1. mixed' \in SUBSET Frames
    BY DEF TypeOK, Mixed, Active
  <2>2. frame' \in [Frames -> FrameState]
    BY DEF TypeOK, FrameState, Inside
  <2> QED BY <2>1, <2>2, DatabaseAssumption DEF TypeOK
<1>3. depth = 0 <=> Active = {}
  BY ActiveFinite, FS_EmptySet DEF TransactionOwned
<1>4. TransactionOwned'
  <2>1. depth' = Cardinality(Active)'
    BY <1>1, ActiveFinite, FS_AddElement DEF TransactionOwned
  <2>2. open' <=> \E g \in Active' : frame'[g] = "outermost"
    BY <1>1, <1>3 DEF TransactionOwned, TypeOK, Active
  <2>3. \A g, h \in Active' :
           (frame'[g] = "outermost" /\ frame'[h] = "outermost") => g = h
    BY <1>1, <1>3 DEF TransactionOwned, TypeOK, Active
  <2>4. ~open' => pending' = {}
    BY DEF TransactionOwned
  <2> QED BY <2>1, <2>2, <2>3, <2>4 DEF TransactionOwned
<1>5. RowsCounted'
  BY DEF RowsCounted, TypeOK
<1>6. Alone(f)' => Active = {}
  <2> SUFFICES ASSUME Alone(f)', NEW g \in Active PROVE FALSE
    OBVIOUS
  <2>1. g[1] = f[1]
    BY DEF Alone, Mixed
  <2>2. g \in Threads \X Levels /\ f[2] = 1
    BY DEF Active, Frames, Alone
  <2>3. g[2] \in Levels /\ g = <<f[1], g[2]>>
    BY <2>1, <2>2
  <2>4. g[2] < f[2]
    BY <2>3 DEF Enterable
  <2> QED BY <2>2, <2>3, <2>4, DatabaseAssumption DEF Levels
<1>7. \A g \in Frames : g # f =>
         /\ Alone(g)' => Alone(g)
         /\ WritesOf(g)' = WritesOf(g)
         /\ \A w \in WritesOf(g) : /\ w \in pending' <=> w \in pending
                                   /\ w \in durable' <=> w \in durable
         /\ frame'[g] = frame[g]
  BY DEF Alone, Mixed, WritesOf, TypeOK
<1>8. WritesOf(f)' = {}
  BY DEF WritesOf, TypeOK
<1>9. AloneOwns'
  BY <1>1, <1>3, <1>6, <1>7, <1>8 DEF AloneOwns, TypeOK, Active
<1>10. AloneLeft'
  BY <1>7, <1>8 DEF AloneLeft
<1> QED BY <1>2, <1>4, <1>5, <1>9, <1>10

LEMMA WriteInv == ASSUME DatabaseInv, NEW f \in Frames, Write(f) PROVE DatabaseInv'
<1> USE DEF DatabaseInv, Write
<1>1. /\ f \in Active /\ Active' = Active
      /\ wrote[f] + 1 \in 1..MaxWrites
      /\ wrote' = [wrote EXCEPT ![f] = wrote[f] + 1]
  BY DatabaseAssumption DEF Innermost, Active, TypeOK
<1> DEFINE row == <<f, wrote[f] + 1>>
<1>2. /\ row \in Frames \X (1..MaxWrites)
      /\ row \notin pending \cup durable
      /\ \/ open /\ pending' = pending \cup {row} /\ durable' = durable
         \/ ~open /\ durable' = durable \cup {row} /\ pending' = pending
  BY <1>1 DEF RowsCounted, TypeOK
<1>3. TypeOK'
  BY <1>1, <1>2 DEF TypeOK
<1>4. TransactionOwned'
  BY <1>1, <1>2 DEF TransactionOwned
<1>5. RowsCounted'
  BY <1>1, <1>2 DEF RowsCounted, TypeOK
<1>6. /\ WritesOf(f)' = WritesOf(f) \cup {row}
      /\ \A g \in Frames : g # f => WritesOf(g)' = WritesOf(g) /\ row \notin WritesOf(g)
      /\ \A g \in Frames : Alone(g)' = Alone(g)
  BY <1>1 DEF WritesOf, TypeOK, Alone
<1>7. Alone(f) => open
  BY <1>1 DEF AloneOwns, TransactionOwned
<1> HIDE DEF row
<1>8. AloneOwns'
  BY <1>1, <1>2, <1>6, <1>7 DEF AloneOwns, Active
<1>9. AloneLeft'
  BY <1>1, <1>2, <1>6 DEF AloneLeft, Active, Inside
<1> QED BY <1>3, <1>4, <1>5, <1>8, <1>9

LEMMA RaiseInv == ASSUME DatabaseInv, NEW f \in Frames, Raise(f) PROVE DatabaseInv'
<1>1. f[1] \in Threads
  BY DEF Frames
<1> QED BY <1>1 DEF DatabaseInv, Raise, TypeOK, TransactionOwned, RowsCounted, AloneOwns, AloneLeft,
                    Active, WritesOf, Alone

(* Leaving a block, normally or by an exception. *)
LEMMA LeaveInv ==
    ASSUME DatabaseInv, NEW f \in Frames, Exit(f) \/ ExitRaising(f)
    PROVE  DatabaseInv'
<1> USE DEF DatabaseInv
<1>1. /\ f \in Active
      /\ depth' = depth - 1
      /\ raising' \in SUBSET Threads
      /\ UNCHANGED <<wrote, entered, mixed>>
  BY DEF Exit, ExitRaising, Innermost, TypeOK
<1>2. PICK how \in {"done", "failed"} :
        /\ frame' = [frame EXCEPT ![f] = how]
        /\ \/ /\ frame[f] = "outermost"
              /\ open' = FALSE
              /\ durable' = IF how = "done" THEN durable \cup pending ELSE durable
              /\ pending' = {}
           \/ frame[f] # "outermost" /\ UNCHANGED <<open, durable, pending>>
  BY DEF Exit, ExitRaising
<1>3. Active' = Active \ {f}
  BY <1>2 DEF Active, Inside, TypeOK
<1>4. TypeOK'
  <2>1. depth' \in Nat
    <3>1. Cardinality(Active) # 0
      BY <1>1, ActiveFinite, FS_EmptySet
    <3> QED BY <1>1, <3>1 DEF TypeOK, TransactionOwned
  <2> QED BY <1>1, <1>2, <2>1 DEF TypeOK, FrameState
<1>5. TransactionOwned'
  <2>1. depth' = Cardinality(Active)'
    BY <1>1, <1>3, ActiveFinite, FS_RemoveElement DEF TransactionOwned
  <2>2. /\ open' <=> \E g \in Active' : frame'[g] = "outermost"
        /\ \A g, h \in Active' :
              (frame'[g] = "outermost" /\ frame'[h] = "outermost") => g = h
    BY <1>1, <1>2, <1>3 DEF TransactionOwned, TypeOK, Active
  <2>3. ~open' => pending' = {}
    BY <1>2 DEF TransactionOwned
  <2> QED BY <2>1, <2>2, <2>3 DEF TransactionOwned
<1>6. RowsCounted'
  BY <1>1, <1>2 DEF RowsCounted
<1>7. \A g \in Frames : WritesOf(g)' = WritesOf(g) /\ Alone(g)' = Alone(g)
  BY <1>1 DEF WritesOf, Alone
<1>8. AloneOwns'
  <2> SUFFICES ASSUME NEW g \in Active', Alone(g)
               PROVE  /\ frame'[g] = "outermost"
                      /\ WritesOf(g) \subseteq pending'
                      /\ WritesOf(g) \cap durable' = {}
    BY <1>7 DEF AloneOwns, Active
  <2>1. g \in Active /\ g # f /\ frame[g] = "outermost"
    BY <1>3 DEF AloneOwns
  <2>2. frame[f] # "outermost"
    BY <1>1, <2>1 DEF TransactionOwned
  <2> QED BY <1>2, <2>1, <2>2 DEF AloneOwns, TypeOK, Active
<1>9. AloneLeft'
  <2> SUFFICES ASSUME NEW g \in Frames, Alone(g)
               PROVE  /\ frame'[g] = "done" => WritesOf(g) \subseteq durable'
                      /\ frame'[g] = "failed" =>
                            WritesOf(g) \cap (durable' \cup pending') = {}
    BY <1>7 DEF AloneLeft
  <2>1. CASE g = f
    <3>1. /\ frame[f] = "outermost" /\ WritesOf(f) \subseteq pending
          /\ WritesOf(f) \cap durable = {}
      BY <1>1, <2>1 DEF AloneOwns
    <3> QED BY <1>2, <2>1, <3>1 DEF TypeOK
  <2>2. CASE g # f
    BY <1>2, <2>2 DEF AloneLeft, TypeOK
  <2> QED BY <2>1, <2>2
<1> QED BY <1>4, <1>5, <1>6, <1>8, <1>9

LEMMA DatabaseNextInv == DatabaseInv /\ [Next]_vars => DatabaseInv'
<1> SUFFICES ASSUME DatabaseInv, [Next]_vars PROVE DatabaseInv'
  OBVIOUS
<1>1. CASE Next
  BY <1>1, EnterInv, WriteInv, RaiseInv, LeaveInv DEF Next
<1>2. CASE UNCHANGED vars
  BY <1>2 DEF vars, DatabaseInv, TypeOK, TransactionOwned, RowsCounted, AloneOwns, AloneLeft,
              Active, WritesOf, Alone
<1> QED BY <1>1, <1>2

LEMMA DatabaseInvariant == Spec => []DatabaseInv
BY DatabaseInitInv, DatabaseNextInv, PTL DEF Spec

-----------------------------------------------------------------------------
(* However the blocks of any number of threads overlap on the one shared     *)
(* connection, _tx_depth counts them, BEGIN, COMMIT and ROLLBACK are sent by *)
(* one owner, and a block no other thread overlapped is all or nothing       *)
(* (Database.transaction).                                                   *)
THEOREM TransactionsAreSafe == Spec => []TransactionsSafe
<1>1. DatabaseInv => TransactionsSafe
  BY DEF DatabaseInv, TransactionsSafe, AtomicWhenAlone, AloneLeft, Alone, Left
<1> QED BY <1>1, DatabaseInvariant, PTL

-----------------------------------------------------------------------------
(* Audit.                                                                  *)

(* Rows are made in the order of their ids. *)
Increasing(t) == \A i, j \in 1..Len(t) : i < j => t[i].id < t[j].id

(* Each row links to the one before it, the first to GENESIS. *)
Linked(t) == \A i \in 1..Len(t) : t[i].prev = IF i = 1 THEN Genesis ELSE t[i - 1].id

RotationStates == [at : {"idle", "write", "list", "delete", "checkpoint"},
                   todo : SUBSET (1..MaxRecords), path : Paths \cup {"none"}, alone : BOOLEAN]

AuditTypes ==
    /\ table \in Seq(Row)
    /\ tail \in 0..Unknown
    /\ records \in 0..MaxRecords
    /\ archive \in [Paths -> SUBSET (1..MaxRecords)]
    /\ recorder \in [Recorders -> 0..Unknown]
    /\ rotation \in RotationStates
    /\ broken \in BOOLEAN

RowsInOrder == Increasing(table) /\ \A i \in 1..Len(table) : table[i].id <= records

(* No rotation is deleting and nothing has broken the chain. *)
Sound == rotation.at # "delete" /\ ~broken
ChainLinked == Sound => Linked(table)

(* While the chain is sound the cached tail is the last row's, and so is the *)
(* one held under the append lock, by one thread at a time.                  *)
TailCurrent ==
    /\ Sound => tail \in {Unknown, LastId} /\ \A t \in Recorders : recorder[t] \in {Unknown, LastId}
    /\ \A t, u \in Recorders : recorder[t] # Unknown /\ recorder[u] # Unknown => t = u

(* A rotation that nobody disturbs deletes all there is. *)
DeletesAll ==
    rotation.at = "delete" /\ rotation.alone =>
        Ids \subseteq rotation.todo /\ \A t \in Recorders : recorder[t] = Unknown

(* A rotation deletes what it has exported and what came late. *)
RotationExported ==
    /\ rotation.at \in {"write", "list", "delete"} => rotation.path \in Paths
    /\ rotation.at = "write" =>
          Ids \subseteq rotation.todo \cup late /\ archive[rotation.path] = {}
    /\ rotation.at = "list" => Ids \subseteq archive[rotation.path] \cup late
    /\ rotation.at = "delete" => rotation.todo \subseteq archive[rotation.path] \cup late

(* The inductive invariant. *)
AuditInv ==
    /\ AuditTypes
    /\ RowsInOrder
    /\ ChainLinked
    /\ TailCurrent
    /\ DeletesAll
    /\ RotationExported
    /\ NothingElseLost

-----------------------------------------------------------------------------
(* A nonempty set of naturals has a least element. *)
LEMMA LeastIn ==
    ASSUME NEW I \in SUBSET Nat, I # {}
    PROVE  Min(I) \in I /\ \A y \in I : Min(I) <= y
<1> DEFINE R == {p \in Nat \X Nat : p[1] < p[2]}
<1>1. IsWellFoundedOn(R, Nat)
  BY NatLessThanWellFounded, Zenon DEF OpToRel
<1>2. PICK x \in I : \A y \in I : ~(<<y, x>> \in R)
  <2> HIDE DEF R
  <2> QED BY <1>1, WFMin
<1>3. \A y \in I : x <= y
  <2> SUFFICES ASSUME NEW y \in I PROVE x <= y
    OBVIOUS
  <2>1. x \in Nat /\ y \in Nat /\ <<y, x>> \in Nat \X Nat
    OBVIOUS
  <2>2. ~(y < x)
    BY <1>2, <2>1
  <2> QED BY <2>1, <2>2
<1> QED BY <1>3 DEF Min

LEMMA RowFields == \A r \in Row : r.id \in 1..MaxRecords /\ r.prev \in 0..MaxRecords
BY DEF Row

LEMMA TableRows ==
    ASSUME NEW t \in Seq(Row)
    PROVE  /\ Len(t) \in Nat /\ DOMAIN t = 1..Len(t)
           /\ \A i \in 1..Len(t) : t[i] \in Row /\ t[i].id \in Nat /\ t[i].id > 0
<1>1. /\ Len(t) \in Nat /\ DOMAIN t = 1..Len(t)
      /\ \A i \in 1..Len(t) : t[i] \in Row
  OBVIOUS
<1>2. \A r \in Row : r.id \in Nat /\ r.id > 0
  BY RowFields, AuditAssumption
<1> QED BY <1>1, <1>2

(* A table linked in the order of its ids verifies: links do not fork, and   *)
(* the first row that a walk from GENESIS did not reach would be linked to   *)
(* one that it did.                                                          *)
LEMMA LinkedVerifies ==
    ASSUME table \in Seq(Row), Increasing(table), Linked(table)
    PROVE  Verify
<1> DEFINE n == Len(table)
<1>1. /\ n \in Nat /\ DOMAIN table = 1..n
      /\ \A i \in 1..n : table[i].id \in Nat /\ table[i].id > 0
  BY TableRows
<1>2. ASSUME NEW i \in 1..n, NEW j \in 1..n, i < j PROVE table[i].prev # table[j].prev
  <2>1. j - 1 \in 1..n /\ j # 1 /\ table[j].prev = table[j - 1].id
    BY <1>1, <1>2 DEF Linked
  <2>2. CASE i = 1
    BY <1>1, <2>1, <2>2 DEF Linked, Genesis
  <2>3. CASE i # 1
    <3>1. i - 1 \in 1..n /\ i - 1 < j - 1
      BY <1>1, <1>2, <2>3
    <3>2. table[i - 1].id < table[j - 1].id
      BY <2>1, <3>1 DEF Increasing
    <3>3. table[i].prev = table[i - 1].id
      BY <2>3 DEF Linked
    <3> QED BY <1>1, <2>1, <3>1, <3>2, <3>3
  <2> QED BY <2>2, <2>3
<1>3. ASSUME NEW r \in ToSet(table), NEW s \in ToSet(table), r.prev = s.prev PROVE r = s
  <2>1. PICK i \in 1..n : r = table[i]
    BY <1>1 DEF ToSet
  <2>2. PICK j \in 1..n : s = table[j]
    BY <1>1 DEF ToSet
  <2>3. i = j \/ i < j \/ j < i
    BY <1>1
  <2> QED BY <1>2, <1>3, <2>1, <2>2, <2>3
<1>4. ASSUME NEW S \in SUBSET Ids, Walked(S) PROVE S = Ids
  <2> DEFINE D == {i \in 1..n : table[i].id \notin S}
  <2>1. CASE D = {}
    BY <1>1, <2>1 DEF Ids
  <2>2. CASE D # {}
    <3>1. D \in SUBSET Nat
      OBVIOUS
    <3> DEFINE k == Min(D)
    <3>2. k \in D /\ \A y \in D : k <= y
      <4> HIDE DEF D
      <4> QED BY <2>2, <3>1, LeastIn
    <3> HIDE DEF k
    <3>3. k \in 1..n /\ table[k].id \notin S /\ table[k] \in ToSet(table)
      BY <1>1, <3>2 DEF ToSet
    <3>4. table[k].prev \notin S \cup {Genesis}
      BY <1>4, <3>3 DEF Walked
    <3>5. k # 1 /\ table[k].prev = table[k - 1].id
      BY <3>3, <3>4 DEF Linked
    <3>6. k - 1 \in 1..n /\ ~(k <= k - 1)
      BY <1>1, <3>3, <3>5
    <3>7. k - 1 \notin D
      BY <3>2, <3>6
    <3> QED BY <3>4, <3>5, <3>6, <3>7
  <2> QED BY <2>1, <2>2
<1> QED BY <1>3, <1>4 DEF Verify

(* A row more. *)
LEMMA Appended ==
    ASSUME NEW t \in Seq(Row), NEW r \in Row, NEW u, u = Append(t, r)
    PROVE  /\ u \in Seq(Row) /\ Len(u) = Len(t) + 1 /\ Len(t) \in Nat
           /\ u[Len(t) + 1] = r /\ u # <<>>
           /\ \A i \in 1..Len(t) : u[i] = t[i]
OBVIOUS

(* One element less. *)
LEMMA RemoveAtFacts ==
    ASSUME NEW S, NEW t \in Seq(S), NEW k \in 1..Len(t), NEW u, u = RemoveAt(t, k)
    PROVE  /\ u \in Seq(S) /\ Len(u) = Len(t) - 1
           /\ \A j \in 1..(Len(t) - 1) : u[j] = IF j < k THEN t[j] ELSE t[j + 1]
<1> DEFINE n == Len(t)
           a == SubSeq(t, 1, k - 1)
           b == SubSeq(t, k + 1, n)
<1>0. n \in Nat /\ k \in Nat /\ 1 <= k /\ k <= n
  OBVIOUS
<1>1. a \in Seq(S) /\ Len(a) = k - 1 /\ \A j \in 1..(k - 1) : a[j] = t[j]
  BY <1>0
<1>2. b \in Seq(S) /\ Len(b) = n - k /\ \A j \in 1..(n - k) : b[j] = t[k + j]
  BY <1>0
<1>3. u = a \o b
  BY DEF RemoveAt
<1> HIDE DEF a, b, n
<1>4. /\ u \in Seq(S) /\ Len(u) = Len(a) + Len(b)
      /\ \A j \in 1..(Len(a) + Len(b)) : u[j] = IF j <= Len(a) THEN a[j] ELSE b[j - Len(a)]
  BY <1>1, <1>2, <1>3, ConcatProperties
<1>5. Len(u) = n - 1
  BY <1>0, <1>1, <1>2, <1>4
<1>6. ASSUME NEW j \in 1..(n - 1) PROVE u[j] = IF j < k THEN t[j] ELSE t[j + 1]
  <2>1. u[j] = IF j <= k - 1 THEN a[j] ELSE b[j - (k - 1)]
    BY <1>0, <1>1, <1>2, <1>4
  <2>2. CASE j < k
    <3>1. j \in 1..(k - 1) /\ j <= k - 1
      BY <1>0, <2>2
    <3> QED BY <1>1, <2>1, <2>2, <3>1
  <2>3. CASE ~(j < k)
    <3>1. j - (k - 1) \in 1..(n - k) /\ k + (j - (k - 1)) = j + 1 /\ ~(j <= k - 1)
      BY <1>0, <2>3
    <3> QED BY <1>2, <2>1, <2>3, <3>1
  <2> QED BY <2>2, <2>3
<1> QED BY <1>4, <1>5, <1>6 DEF n

(* A row less. *)
LEMMA RemovedRow ==
    ASSUME table \in Seq(Row), Increasing(table), NEW id
    PROVE  /\ Without(id) \in Seq(Row) /\ Increasing(Without(id))
           /\ {Without(id)[j].id : j \in 1..Len(Without(id))} = {table[i].id : i \in 1..Len(table)} \ {id}
<1> DEFINE t == table
           u == Without(id)
           I == {i \in 1..Len(t) : t[i].id = id}
           k == Min(I)
<1>1. /\ Len(t) \in Nat
      /\ \A i \in 1..Len(t) : t[i] \in Row /\ t[i].id \in Nat
  BY TableRows
<1> SUFFICES /\ u \in Seq(Row) /\ Increasing(u)
             /\ {u[j].id : j \in 1..Len(u)} = {t[i].id : i \in 1..Len(t)} \ {id}
  OBVIOUS
<1> HIDE DEF t, u
<1>a. t \in Seq(Row) /\ Increasing(t)
  BY DEF t
<1>2. CASE I = {}
  <2>1. u = t
    BY <1>2 DEF RemoveFirstMatch, Without, t, u
  <2> QED BY <1>a, <1>2, <2>1
<1>3. CASE I # {}
  <2>1. u = RemoveAt(t, k)
    BY <1>3 DEF RemoveFirstMatch, SelectInSeq, Without, t, u
  <2>2. k \in 1..Len(t) /\ t[k].id = id
    <3>1. I \in SUBSET Nat
      OBVIOUS
    <3>2. k \in I
      <4> HIDE DEF I
      <4> QED BY <1>3, <3>1, LeastIn
    <3> HIDE DEF k
    <3> QED BY <3>2
  <2> HIDE DEF k
  <2>3. Len(t) \in Nat /\ k \in Nat /\ 1 <= k /\ k <= Len(t)
    BY <1>1, <2>2
  <2>6. /\ u \in Seq(Row) /\ Len(u) = Len(t) - 1
        /\ \A j \in 1..(Len(t) - 1) : u[j] = IF j < k THEN t[j] ELSE t[j + 1]
    BY <1>a, <2>1, <2>2, RemoveAtFacts, Zenon
  <2>7. Increasing(u)
    <3> SUFFICES ASSUME NEW i \in 1..Len(u), NEW j \in 1..Len(u), i < j
                 PROVE  u[i].id < u[j].id
      BY DEF Increasing
    <3> DEFINE p == IF i < k THEN i ELSE i + 1
               q == IF j < k THEN j ELSE j + 1
    <3>1. p \in 1..Len(t) /\ q \in 1..Len(t) /\ p < q
      BY <2>3, <2>6
    <3>2. u[i] = t[p] /\ u[j] = t[q]
      BY <2>6
    <3> HIDE DEF p, q
    <3> QED BY <1>a, <3>1, <3>2 DEF Increasing
  <2>8. ASSUME NEW j \in 1..Len(u) PROVE u[j].id # id /\ \E i \in 1..Len(t) : u[j].id = t[i].id
    <3> DEFINE q == IF j < k THEN j ELSE j + 1
    <3>0. j \in 1..(Len(t) - 1)
      BY <2>6
    <3>1. q \in 1..Len(t) /\ (q < k \/ k < q)
      BY <2>3, <3>0
    <3>4. u[j] = t[q]
      BY <2>6, <3>0
    <3> HIDE DEF q
    <3>2. t[q].id < t[k].id \/ t[k].id < t[q].id
      BY <1>a, <2>2, <3>1 DEF Increasing
    <3>3. t[q].id # t[k].id
      BY <1>1, <2>2, <3>1, <3>2
    <3> QED BY <2>2, <3>1, <3>3, <3>4
  <2>9. ASSUME NEW i \in 1..Len(t), t[i].id # id PROVE \E j \in 1..Len(u) : t[i].id = u[j].id
    <3>1. i # k
      BY <2>2, <2>9
    <3>2. CASE i < k
      <4>1. i \in 1..Len(u) /\ u[i] = t[i]
        <5>1. i \in 1..(Len(t) - 1)
          BY <2>3, <3>2
        <5> QED BY <2>6, <3>2, <5>1
      <4> QED BY <4>1
    <3>3. CASE k < i
      <4>1. i - 1 \in 1..(Len(t) - 1) /\ ~(i - 1 < k) /\ i - 1 + 1 = i
        BY <2>3, <3>3
      <4>2. u[i - 1] = t[i] /\ i - 1 \in 1..Len(u)
        BY <2>6, <4>1
      <4> QED BY <4>2
    <3>4. i < k \/ k < i
      BY <2>3, <3>1
    <3> QED BY <3>2, <3>3, <3>4
  <2>10. {u[j].id : j \in 1..Len(u)} = {t[i].id : i \in 1..Len(t)} \ {id}
    <3>1. \A j \in 1..Len(u) : u[j].id \in {t[i].id : i \in 1..Len(t)} \ {id}
      BY <2>8
    <3>2. \A i \in 1..Len(t) : t[i].id # id => t[i].id \in {u[j].id : j \in 1..Len(u)}
      BY <2>9
    <3> QED BY <3>1, <3>2, Zenon
  <2> QED BY <2>6, <2>7, <2>10
<1> QED BY <1>2, <1>3

LEMMA IdsOfTable ==
    ASSUME table \in Seq(Row)
    PROVE  Ids = {table[i].id : i \in 1..Len(table)}
BY TableRows DEF Ids

LEMMA LastIdBound ==
    ASSUME AuditInv
    PROVE  LastId \in 0..MaxRecords /\ LastId \in 0..records /\ LastId # Unknown
<1>1. /\ table \in Seq(Row) /\ records \in 0..MaxRecords
      /\ \A i \in 1..Len(table) : table[i].id <= records
  BY DEF AuditInv, AuditTypes, RowsInOrder
<1>2. CASE table = <<>>
  BY <1>1, <1>2, AuditAssumption DEF LastId, Genesis, Unknown
<1>3. CASE table # <<>>
  <2>1. Len(table) \in 1..Len(table)
    BY <1>1, <1>3
  <2>2. table[Len(table)].id \in Nat /\ table[Len(table)].id <= records
    BY <1>1, <2>1, TableRows
  <2> QED BY <1>1, <1>3, <2>2, AuditAssumption DEF LastId, Last, Unknown
<1> QED BY <1>2, <1>3

LEMMA IdsBound ==
    ASSUME AuditInv
    PROVE  Ids \subseteq 1..MaxRecords
BY IdsOfTable, RowFields, TableRows DEF AuditInv, AuditTypes

(* A tail that record can find is a record's, or GENESIS. *)
LEMMA TailsBound ==
    ASSUME AuditInv
    PROVE  Tails \subseteq 0..MaxRecords /\ Unknown \notin Tails
<1>1. table \in Seq(Row) /\ tail \in 0..Unknown
  BY DEF AuditInv, AuditTypes
<1>2. \A r \in ToSet(table) : r.id \in 1..MaxRecords
  BY <1>1, TableRows, RowFields DEF ToSet
<1>3. CASE tail # Unknown
  BY <1>1, <1>3, AuditAssumption DEF Tails, Unknown
<1>4. CASE tail = Unknown
  BY <1>2, <1>4, AuditAssumption DEF Tails, Newest, Genesis, Unknown
<1> QED BY <1>3, <1>4

(* While the chain is sound, a tail that is not misread is the last row's. *)
LEMMA TailRead ==
    ASSUME AuditInv, Sound, NEW link \in Tails, ~Misread(link)
    PROVE  link = LastId
BY DEF AuditInv, TailCurrent, Tails, Misread

-----------------------------------------------------------------------------
(* Appending a record. *)
LEMMA RecordAppended ==
    ASSUME AuditInv, NEW p \in 0..MaxRecords, AppendLinked(p)
    PROVE  /\ table' \in Seq(Row) /\ records' \in 0..MaxRecords /\ tail' \in 0..Unknown
           /\ RowsInOrder' /\ tail' = LastId' /\ Ids' = Ids \cup {records'}
           /\ 1..records' = 1..records \cup {records'}
           /\ p = LastId /\ Linked(table) => Linked(table')
<1> DEFINE n == Len(table)
<1>0. /\ records < MaxRecords /\ records' = records + 1 /\ tail' = records'
      /\ \E at \in Times : table' = Append(table, [id |-> records', prev |-> p, at |-> at])
  BY DEF AppendLinked
<1>a. PICK at \in Times : table' = Append(table, [id |-> records', prev |-> p, at |-> at])
  BY <1>0
<1> DEFINE r == [id |-> records', prev |-> p, at |-> at]
<1>1. /\ table \in Seq(Row) /\ records \in 0..MaxRecords
      /\ Increasing(table) /\ \A i \in 1..n : table[i].id <= records
      /\ n \in Nat /\ \A i \in 1..n : table[i] \in Row /\ table[i].id \in Nat
  BY TableRows DEF AuditInv, AuditTypes, RowsInOrder
<1>3. r \in Row /\ r.id = records + 1 /\ r.prev = p
  BY <1>0, <1>1, AuditAssumption DEF Row
<1> HIDE DEF r
<1>4. /\ table' \in Seq(Row) /\ Len(table') = n + 1
      /\ table'[n + 1] = r /\ table' # <<>>
      /\ \A i \in 1..n : table'[i] = table[i]
  <2>1. table' = Append(table, r)
    BY <1>a DEF r
  <2> QED BY <1>1, <1>3, <2>1, Appended
<1>5. records' \in 0..MaxRecords /\ tail' \in 0..Unknown
  BY <1>0, <1>1, AuditAssumption DEF Unknown
<1>6. RowsInOrder'
  <2>1. ASSUME NEW i \in 1..Len(table') PROVE table'[i].id <= records'
    <3>1. CASE i \in 1..n
      BY <1>0, <1>1, <1>4, <3>1
    <3>2. CASE i = n + 1
      BY <1>0, <1>1, <1>3, <1>4, <3>2
    <3> QED BY <1>1, <1>4, <3>1, <3>2
  <2>2. ASSUME NEW i \in 1..Len(table'), NEW j \in 1..Len(table'), i < j
        PROVE  table'[i].id < table'[j].id
    <3>1. CASE j \in 1..n
      BY <1>1, <1>4, <2>2, <3>1 DEF Increasing
    <3>2. CASE j = n + 1
      <4>1. i \in 1..n
        BY <1>1, <1>4, <2>2, <3>2
      <4> QED BY <1>1, <1>3, <1>4, <3>2, <4>1
    <3> QED BY <1>1, <1>4, <3>1, <3>2
  <2> QED BY <2>1, <2>2 DEF RowsInOrder, Increasing
<1>7. tail' = LastId'
  BY <1>0, <1>1, <1>3, <1>4 DEF LastId, Last
<1>8. Ids' = Ids \cup {records'}
  <2>1. DOMAIN table' = 1..(n + 1) /\ DOMAIN table = 1..n
    BY <1>1, <1>4
  <2>2. n + 1 \in 1..(n + 1) /\ \A i \in 1..(n + 1) : i \in 1..n \/ i = n + 1
    BY <1>1
  <2>3. \A i \in 1..n : i \in 1..(n + 1)
    BY <1>1
  <2> QED BY <1>0, <1>3, <1>4, <2>1, <2>2, <2>3 DEF Ids
<1>9. ASSUME p = LastId, Linked(table) \/ n = 0 PROVE Linked(table')
  <2> SUFFICES ASSUME NEW i \in 1..Len(table')
               PROVE  table'[i].prev = IF i = 1 THEN Genesis ELSE table'[i - 1].id
    BY DEF Linked
  <2>1. CASE i \in 1..n
    <3>1. n # 0 /\ i \in 1..n /\ (i # 1 => i - 1 \in 1..n)
      BY <1>1, <2>1
    <3> QED BY <1>4, <1>9, <3>1 DEF Linked
  <2>2. CASE i = n + 1
    <3>1. CASE n = 0
      BY <1>1, <1>3, <1>4, <1>9, <2>2, <3>1 DEF LastId
    <3>2. CASE n # 0
      <4>1. table # <<>> /\ i # 1 /\ i - 1 = n /\ n \in 1..n
        BY <1>1, <2>2, <3>2
      <4> QED BY <1>3, <1>4, <1>9, <2>2, <4>1 DEF LastId, Last
    <3> QED BY <3>1, <3>2
  <2> QED BY <1>1, <1>4, <2>1, <2>2
<1>10. 1..records' = 1..records \cup {records'}
  BY <1>0, <1>1
<1> QED BY <1>0, <1>4, <1>5, <1>6, <1>7, <1>8, <1>9, <1>10

LEMMA RecordKeeps ==
    ASSUME AuditInv, NEW t \in Recorders, Record(t)
    PROVE  AuditInv'
<1>1. PICK link \in Tails : /\ tail' = link
                            /\ recorder' = [recorder EXCEPT ![t] = link]
                            /\ broken' = (broken \/ Misread(link))
  BY DEF Record
<1>2. /\ rotation' \in RotationStates /\ rotation'.at = rotation.at /\ rotation'.todo = rotation.todo
      /\ rotation'.path = rotation.path /\ rotation'.alone = FALSE
  BY DEF Record, AuditInv, AuditTypes, RotationStates
<1>3. link \in 0..Unknown /\ link # Unknown
  BY TailsBound, AuditAssumption DEF Unknown
<1>4. /\ \A u \in Recorders : recorder[u] = Unknown
      /\ recorder' \in [Recorders -> 0..Unknown] /\ recorder'[t] = link
      /\ \A u \in Recorders : u # t => recorder'[u] = Unknown
  BY <1>1, <1>3 DEF Record, MayRecord, Recording, AuditInv, AuditTypes
<1>5. /\ Ids' = Ids /\ LastId' = LastId /\ Unknown' = Unknown
      /\ UNCHANGED <<table, records, archive, late, rewritten>>
  BY DEF Record, Ids, LastId, Unknown
<1>6. AuditTypes'
  <2>1. broken' \in BOOLEAN
    BY <1>1 DEF AuditInv, AuditTypes, Misread
  <2> QED BY <1>1, <1>2, <1>3, <1>4, <1>5, <2>1 DEF AuditInv, AuditTypes, Row
<1>7. Sound' => Sound /\ link = LastId
  BY <1>1, <1>2, TailRead DEF Sound, AuditInv, AuditTypes
<1>8. TailCurrent' /\ ChainLinked' /\ DeletesAll'
  BY <1>1, <1>2, <1>4, <1>5, <1>7 DEF AuditInv, TailCurrent, ChainLinked, DeletesAll
<1>9. RotationExported' /\ NothingElseLost' /\ RowsInOrder'
  BY <1>2, <1>5 DEF AuditInv, RotationExported, NothingElseLost, RowsInOrder, Archived
<1> QED BY <1>6, <1>8, <1>9 DEF AuditInv

(* Whatever is appended, nothing is lost by it. *)
LEMMA AppendLoses ==
    ASSUME AuditInv, Ids \subseteq Ids', 1..records' = 1..records \cup {records'}, records' \in Ids',
           archive' = archive, late \subseteq late', rewritten' = rewritten
    PROVE  NothingElseLost'
BY DEF AuditInv, NothingElseLost, Archived

LEMMA AppendRecordKeeps ==
    ASSUME AuditInv, NEW t \in Recorders, AppendRecord(t)
    PROVE  AuditInv'
<1>1. /\ recorder[t] \in 0..MaxRecords /\ AppendLinked(recorder[t])
      /\ \A u \in Recorders : u # t => recorder[u] = Unknown
  BY AuditAssumption DEF AuditInv, AuditTypes, TailCurrent, AppendRecord, Unknown
<1>2. /\ table' \in Seq(Row) /\ records' \in 0..MaxRecords /\ tail' \in 0..Unknown
      /\ RowsInOrder' /\ tail' = LastId' /\ Ids' = Ids \cup {records'}
      /\ 1..records' = 1..records \cup {records'}
      /\ recorder[t] = LastId /\ Linked(table) => Linked(table')
  BY <1>1, RecordAppended
<1>3. /\ recorder' \in [Recorders -> 0..Unknown]
      /\ \A u \in Recorders : recorder'[u] = Unknown
  <2>1. Unknown \in 0..Unknown
    BY AuditAssumption DEF Unknown
  <2> QED BY <1>1, <2>1 DEF AppendRecord, AuditInv, AuditTypes
<1>4. /\ rotation' \in RotationStates /\ rotation'.at = rotation.at /\ rotation'.todo = rotation.todo
      /\ rotation'.path = rotation.path /\ rotation'.alone = FALSE
  BY DEF AppendRecord, AuditInv, AuditTypes, RotationStates
<1>5. /\ late' = IF rotation.at \in {"write", "list"} THEN late \cup {records'} ELSE late
      /\ UNCHANGED <<archive, rewritten, broken>>
  BY DEF AppendRecord
<1>6. AuditTypes'
  BY <1>2, <1>3, <1>4, <1>5 DEF AuditInv, AuditTypes, Row, Unknown
<1>7. Sound' => Sound /\ recorder[t] = LastId
  BY <1>4, <1>5 DEF Sound, AuditInv, TailCurrent, AppendRecord
<1>8. TailCurrent' /\ ChainLinked' /\ DeletesAll'
  BY <1>2, <1>3, <1>4, <1>7 DEF AuditInv, TailCurrent, ChainLinked, DeletesAll, Unknown
<1>9. RotationExported'
  BY <1>2, <1>4, <1>5 DEF AuditInv, RotationExported
<1>10. NothingElseLost'
  BY <1>2, <1>5, AppendLoses
<1> QED BY <1>2, <1>6, <1>8, <1>9, <1>10 DEF AuditInv

LEMMA ExportKeeps ==
    ASSUME AuditInv, NEW path \in Paths, Export(path)
    PROVE  AuditInv'
<1>1. /\ Ids' = Ids /\ LastId' = LastId
      /\ UNCHANGED <<table, tail, records, recorder, late, broken>>
  BY DEF Export, Ids, LastId
<1>2. rotation.at = "idle"
  BY DEF Export, Still
<1>3. /\ rotation' \in RotationStates /\ rotation'.at = "write" /\ rotation'.todo = Ids
      /\ rotation'.path = path
  BY IdsBound DEF Export, RotationStates
<1>4. archive' = [archive EXCEPT ![path] = {}] /\ archive' \in [Paths -> SUBSET (1..MaxRecords)]
  BY DEF Export, AuditInv, AuditTypes
<1>b. archive'[path] = {}
  BY <1>4 DEF AuditInv, AuditTypes
<1>5. AuditTypes'
  BY <1>1, <1>3, <1>4 DEF AuditInv, AuditTypes, Row, Unknown
<1>6. TailCurrent' /\ ChainLinked' /\ DeletesAll' /\ RowsInOrder' /\ RotationExported'
  BY <1>1, <1>2, <1>3, <1>b DEF AuditInv, Sound, TailCurrent, ChainLinked, DeletesAll, RowsInOrder,
                               RotationExported, Unknown
<1>7. NothingElseLost'
  <2>1. rewritten' = rewritten \cup (archive[path] \ Ids)
    BY DEF Export
  <2>2. archive \in [Paths -> SUBSET (1..MaxRecords)]
    BY DEF AuditInv, AuditTypes
  <2>3. \A q \in Paths : q # path => archive'[q] = archive[q]
    BY <1>4, <2>2
  <2>4. ASSUME NEW x \in Archived, x \notin archive[path] PROVE x \in Archived'
    BY <2>3, <2>4 DEF Archived
  <2>5. 1..records \subseteq Ids \cup Archived \cup late \cup rewritten
    BY DEF AuditInv, NothingElseLost
  <2> QED BY <1>1, <2>1, <2>4, <2>5 DEF NothingElseLost
<1> QED BY <1>5, <1>6, <1>7 DEF AuditInv

LEMMA WriteFileKeeps ==
    ASSUME AuditInv, WriteFile
    PROVE  AuditInv'
<1>1. /\ Ids' = Ids /\ LastId' = LastId
      /\ UNCHANGED <<table, tail, records, recorder, late, rewritten, broken>>
  BY DEF WriteFile, Ids, LastId
<1>2. /\ rotation \in RotationStates /\ rotation.at = "write" /\ rotation.path \in Paths
      /\ archive \in [Paths -> SUBSET (1..MaxRecords)] /\ Ids \subseteq rotation.todo \cup late
  BY DEF WriteFile, AuditInv, AuditTypes, RotationExported
<1>3. /\ rotation' \in RotationStates /\ rotation'.at = "list" /\ rotation'.path = rotation.path
  BY <1>2 DEF WriteFile, RotationStates
<1>4. /\ archive' = [archive EXCEPT ![rotation.path] = rotation.todo]
      /\ rotation.todo \in SUBSET (1..MaxRecords)
  BY <1>2 DEF WriteFile, RotationStates
<1>5. /\ archive' \in [Paths -> SUBSET (1..MaxRecords)] /\ archive'[rotation.path] = rotation.todo
      /\ \A q \in Paths : q # rotation.path => archive'[q] = archive[q]
  BY <1>2, <1>4
<1>6. AuditTypes'
  BY <1>1, <1>3, <1>5 DEF AuditInv, AuditTypes, Row, Unknown
<1>7. TailCurrent' /\ ChainLinked' /\ DeletesAll' /\ RowsInOrder' /\ RotationExported'
  BY <1>1, <1>2, <1>3, <1>5 DEF AuditInv, Sound, TailCurrent, ChainLinked, DeletesAll, RowsInOrder,
                                RotationExported, Unknown
<1>9. NothingElseLost'
  <2>0. archive[rotation.path] = {}
    BY <1>2 DEF AuditInv, RotationExported
  <2>1. ASSUME NEW x \in Archived PROVE x \in Archived'
    BY <1>2, <1>5, <2>0, <2>1 DEF Archived
  <2>2. 1..records \subseteq Ids \cup Archived \cup late \cup rewritten
    BY DEF AuditInv, NothingElseLost
  <2> QED BY <1>1, <2>1, <2>2 DEF NothingElseLost
<1> QED BY <1>6, <1>7, <1>9 DEF AuditInv

LEMMA ListRowsKeeps ==
    ASSUME AuditInv, ListRows
    PROVE  AuditInv'
<1>1. /\ Ids' = Ids /\ LastId' = LastId
      /\ UNCHANGED <<table, tail, records, recorder, archive, late, rewritten, broken>>
  BY DEF ListRows, Ids, LastId
<1>2. rotation \in RotationStates /\ rotation.at = "list"
  BY DEF ListRows, AuditInv, AuditTypes
<1>3. /\ rotation' \in RotationStates /\ rotation'.at = "delete" /\ rotation'.todo = Ids
      /\ rotation'.path = rotation.path
      /\ rotation'.alone => \A t \in Recorders : recorder[t] = Unknown
  BY <1>2, IdsBound DEF ListRows, RotationStates, Recording
<1>4. AuditTypes'
  BY <1>1, <1>3 DEF AuditInv, AuditTypes, Row, Unknown
<1>5. TailCurrent' /\ ChainLinked' /\ DeletesAll' /\ RowsInOrder' /\ RotationExported'
  BY <1>1, <1>2, <1>3 DEF AuditInv, Sound, TailCurrent, ChainLinked, DeletesAll, RowsInOrder,
                          RotationExported, Unknown
<1>6. NothingElseLost'
  BY <1>1, <1>2, <1>3 DEF AuditInv, NothingElseLost, Archived
<1> QED BY <1>4, <1>5, <1>6 DEF AuditInv

LEMMA DeleteRowKeeps ==
    ASSUME AuditInv, DeleteRow
    PROVE  AuditInv'
<1>1. PICK id \in rotation.todo :
         /\ table' = Without(id)
         /\ rotation' = [rotation EXCEPT !.todo = rotation.todo \ {id}]
  BY DEF DeleteRow
<1>2. table \in Seq(Row) /\ Increasing(table) /\ rotation \in RotationStates /\ rotation.at = "delete"
  BY DEF AuditInv, AuditTypes, RowsInOrder, DeleteRow
<1>3. /\ table' \in Seq(Row) /\ Increasing(table')
      /\ {table'[j].id : j \in 1..Len(table')} = {table[i].id : i \in 1..Len(table)} \ {id}
  BY <1>1, <1>2, RemovedRow
<1>4. Ids' = Ids \ {id}
  <2>1. Ids' = {table'[j].id : j \in 1..Len(table')}
    BY <1>3, TableRows DEF Ids
  <2> QED BY <1>2, <1>3, <2>1, IdsOfTable
<1>5. /\ rotation' \in RotationStates /\ rotation'.at = "delete"
      /\ rotation'.todo = rotation.todo \ {id}
  BY <1>1, <1>2 DEF RotationStates
<1>6. AuditTypes'
  BY <1>3, <1>5 DEF DeleteRow, AuditInv, AuditTypes, Row, Unknown
<1>7. RowsInOrder'
  <2>1. ASSUME NEW j \in 1..Len(table') PROVE table'[j].id <= records'
    <3>1. PICK i \in 1..Len(table) : table'[j].id = table[i].id
      BY <1>3
    <3> QED BY <3>1 DEF AuditInv, RowsInOrder, DeleteRow
  <2> QED BY <1>3, <2>1 DEF RowsInOrder
<1>8. UNCHANGED <<tail, records, recorder, archive, late, rewritten, broken>>
  BY DEF DeleteRow
<1>9. rotation'.path = rotation.path /\ rotation'.alone = rotation.alone
  BY <1>1, <1>2 DEF RotationStates
<1>10. TailCurrent' /\ ChainLinked' /\ DeletesAll'
  BY <1>2, <1>4, <1>5, <1>8, <1>9 DEF AuditInv, Sound, TailCurrent, ChainLinked, DeletesAll, Unknown
<1>11. RotationExported'
  BY <1>2, <1>5, <1>8, <1>9 DEF AuditInv, RotationExported
<1>12. NothingElseLost'
  <2>1. id \in Archived \cup late
    BY <1>2 DEF AuditInv, RotationExported, Archived
  <2>2. 1..records \subseteq Ids \cup Archived \cup late \cup rewritten /\ Archived' = Archived
    BY <1>8 DEF AuditInv, NothingElseLost, Archived
  <2> QED BY <1>4, <1>8, <2>1, <2>2 DEF NothingElseLost
<1> QED BY <1>6, <1>7, <1>10, <1>11, <1>12 DEF AuditInv

LEMMA ForgetKeeps ==
    ASSUME AuditInv, Forget
    PROVE  AuditInv'
<1>1. /\ rotation.at = "delete" /\ rotation \in RotationStates /\ Ids' = Ids /\ LastId' = LastId
      /\ UNCHANGED <<table, records, recorder, archive, late, rewritten>>
      /\ tail' = Unknown /\ broken' = ~rotation.alone
  BY DEF Forget, AuditInv, AuditTypes, Ids, LastId
<1>2. ASSUME rotation.alone PROVE table = <<>>
  <2>0. Ids = {}
    BY <1>1, <1>2 DEF AuditInv, DeletesAll, Forget
  <2>1. table \in Seq(Row) /\ Len(table) \in Nat
    BY DEF AuditInv, AuditTypes
  <2>2. Len(table) = 0
    <3> SUFFICES ASSUME Len(table) # 0 PROVE FALSE
      OBVIOUS
    <3>1. 1 \in 1..Len(table)
      BY <2>1
    <3>2. table[1].id \in Ids
      BY <2>1, <3>1, IdsOfTable
    <3> QED BY <2>0, <3>2
  <2> QED BY <2>1, <2>2, EmptySeq
<1>3. rotation.alone => \A t \in Recorders : recorder[t] = Unknown
  BY <1>1 DEF AuditInv, DeletesAll
<1>4. rotation' \in RotationStates /\ rotation'.at = "checkpoint"
  BY <1>1 DEF Forget, RotationStates
<1>5. AuditTypes'
  BY <1>1, <1>4, AuditAssumption DEF AuditInv, AuditTypes, RotationStates, Unknown, Row
<1>6. Sound' => rotation.alone
  BY <1>1 DEF Sound
<1>7. TailCurrent'
  BY <1>1, <1>3, <1>6 DEF AuditInv, TailCurrent, Unknown
<1>8. ChainLinked'
  BY <1>1, <1>2, <1>6 DEF ChainLinked, Linked
<1>9. DeletesAll' /\ RotationExported' /\ RowsInOrder' /\ NothingElseLost'
  BY <1>1, <1>4 DEF AuditInv, DeletesAll, RotationExported, RowsInOrder, NothingElseLost, Archived
<1> QED BY <1>5, <1>7, <1>8, <1>9 DEF AuditInv

LEMMA CheckpointKeeps ==
    ASSUME AuditInv, Checkpoint
    PROVE  AuditInv'
<1>1. PICK link \in Tails : AppendLinked(link) /\ broken' = (broken \/ Misread(link))
  BY DEF Checkpoint
<1>2. link \in 0..MaxRecords
  BY TailsBound
<1>3. /\ table' \in Seq(Row) /\ records' \in 0..MaxRecords /\ tail' \in 0..Unknown
      /\ RowsInOrder' /\ tail' = LastId' /\ Ids' = Ids \cup {records'}
      /\ 1..records' = 1..records \cup {records'}
      /\ link = LastId /\ Linked(table) => Linked(table')
  BY <1>1, <1>2, RecordAppended
<1>4. /\ rotation' \in RotationStates /\ rotation'.at = "idle" /\ rotation.at = "checkpoint"
      /\ UNCHANGED <<recorder, archive, late, rewritten>>
  BY DEF Checkpoint, Still, RotationStates
<1>5. \A t \in Recorders : recorder[t] = Unknown
  BY DEF Checkpoint, Recording
<1>6. AuditTypes'
  <2>1. broken' \in BOOLEAN
    BY <1>1 DEF AuditInv, AuditTypes, Misread
  <2> QED BY <1>3, <1>4, <2>1 DEF AuditInv, AuditTypes, Row, Unknown
<1>7. Sound' => Sound /\ link = LastId
  BY <1>1, <1>4, TailRead DEF Sound, AuditInv, AuditTypes
<1>8. TailCurrent' /\ ChainLinked' /\ DeletesAll' /\ RotationExported'
  BY <1>3, <1>4, <1>5, <1>7 DEF AuditInv, TailCurrent, ChainLinked, DeletesAll, RotationExported, Unknown
<1>9. NothingElseLost'
  BY <1>3, <1>4, AppendLoses
<1> QED BY <1>3, <1>6, <1>8, <1>9 DEF AuditInv

LEMMA CrashKeeps ==
    ASSUME AuditInv, Crash
    PROVE  AuditInv'
<1>1. rotation' \in RotationStates /\ rotation'.at = "idle"
  BY DEF Crash, Still, RotationStates
<1>2. /\ recorder' \in [Recorders -> 0..Unknown] /\ tail' \in 0..Unknown /\ tail' = Unknown
      /\ \A t \in Recorders : recorder'[t] = Unknown
  <2>1. Unknown \in 0..Unknown
    BY AuditAssumption DEF Unknown
  <2> QED BY <2>1 DEF Crash
<1>3. /\ Ids' = Ids /\ UNCHANGED <<table, records, archive, late, rewritten>>
      /\ broken' = (broken \/ rotation.at = "delete")
  BY DEF Crash, Ids
<1>4. AuditTypes'
  BY <1>1, <1>2, <1>3 DEF AuditInv, AuditTypes, Row, Unknown
<1>5. Sound' => Sound
  BY <1>3 DEF Sound, AuditInv, AuditTypes
<1>6. TailCurrent' /\ ChainLinked' /\ DeletesAll' /\ RotationExported'
  BY <1>1, <1>2, <1>3, <1>5 DEF AuditInv, TailCurrent, ChainLinked, DeletesAll, RotationExported, Unknown
<1>7. RowsInOrder' /\ NothingElseLost'
  BY <1>3 DEF AuditInv, RowsInOrder, NothingElseLost, Archived
<1> QED BY <1>4, <1>6, <1>7 DEF AuditInv

LEMMA AuditInitHolds == AuditInit => AuditInv
<1> SUFFICES ASSUME AuditInit PROVE AuditInv
  OBVIOUS
<1>1. AuditTypes /\ rotation.at = "idle"
  <2>1. Still \in RotationStates /\ Still.at = "idle"
    BY DEF RotationStates, Still
  <2>2. Unknown \in 0..Unknown
    BY AuditAssumption DEF Unknown
  <2>3. 0 \in 0..MaxRecords /\ <<>> \in Seq(Row)
    BY AuditAssumption
  <2> QED BY <2>1, <2>2, <2>3 DEF AuditInit, AuditTypes
<1>2. Ids = {} /\ 1..records = {}
  BY DEF AuditInit, Ids
<1>3. \A t \in Recorders : recorder[t] = Unknown
  BY DEF AuditInit
<1> QED BY <1>1, <1>2, <1>3 DEF AuditInit, AuditInv, RowsInOrder, Increasing, ChainLinked, Linked,
                         TailCurrent, DeletesAll, RotationExported, NothingElseLost

LEMMA AuditNextKeeps == AuditInv /\ [AuditNext]_auditVars => AuditInv'
<1> SUFFICES ASSUME AuditInv, [AuditNext]_auditVars PROVE AuditInv'
  OBVIOUS
<1>1. CASE UNCHANGED auditVars
  BY <1>1 DEF auditVars, AuditInv, AuditTypes, RowsInOrder, ChainLinked, Sound, TailCurrent,
              DeletesAll, RotationExported, NothingElseLost, Ids, LastId, Archived
<1>2. CASE WriteFile \/ ListRows \/ DeleteRow \/ Forget \/ Checkpoint \/ Crash
  BY <1>2, WriteFileKeeps, ListRowsKeeps, DeleteRowKeeps, ForgetKeeps, CheckpointKeeps, CrashKeeps
<1>3. ASSUME NEW path \in Paths, Export(path) PROVE AuditInv'
  BY <1>3, ExportKeeps
<1>4. ASSUME NEW t \in Recorders, Record(t) \/ AppendRecord(t) PROVE AuditInv'
  BY <1>4, RecordKeeps, AppendRecordKeeps
<1> QED BY <1>1, <1>2, <1>3, <1>4 DEF AuditNext

(* For any recorders, archive paths, clock, records and crashes, and with    *)
(* records made in the middle of rotations: the chain verifies unless a      *)
(* crash or a record fell into a rotation's deletions or a restart misread   *)
(* the tail, and every record is in the table or in an exported file unless  *)
(* it was made between the two listings of a rotation or its file was        *)
(* exported over (record, verify, export, rotate).                           *)
THEOREM AuditIsSafe == AuditSpec => []AuditSafe
<1>1. AuditInv => AuditSafe
  <2> SUFFICES ASSUME AuditInv PROVE AuditSafe
    OBVIOUS
  <2>1. AuditTypeOK
    BY DEF AuditInv, AuditTypes, AuditTypeOK, RotationStates
  <2>2. ChainIntact
    BY LinkedVerifies DEF AuditInv, AuditTypes, RowsInOrder, ChainLinked, Sound, ChainIntact
  <2> QED BY <2>1, <2>2 DEF AuditInv, AuditSafe
<1> QED BY <1>1, AuditInitHolds, AuditNextKeeps, PTL DEF AuditSpec

-----------------------------------------------------------------------------
(* Mcp.                                                                    *)

OpenerAt == {"idle", "hold", "connect", "start", "wait", "register", "fail", "report"}
Opener == [at : OpenerAt, rev : 0..MaxRevision]
Session == [thread : {"none", "started", "looped", "opening", "serving", "dead"},
            stopping : BOOLEAN, cancelled : BOOLEAN, ready : {"no", "ok", "error"},
            queue : Seq(Calls), busy : Calls \cup {"none"}]
CallAt == {"idle", "found", "checked", "putting", "waiting", "given up", "done"}
Call == [at : CallAt, rev : 0..MaxRevision, late : BOOLEAN, dropped : BOOLEAN]

Types ==
    /\ config \in {"absent", "off", "on"}
    /\ revision \in 0..MaxRevision
    /\ held \in 0..MaxRevision
    /\ status \in {"disabled", "connecting", "connected", "error"}
    /\ offered \in SUBSET Revisions
    /\ closed \in BOOLEAN
    /\ minted \in 0..MaxRevision
    /\ opener \in [Openers -> Opener]
    /\ \A o \in Openers : opener[o].at # "idle" => opener[o].rev \in Revisions
    /\ session \in [Revisions -> Session]
    /\ call \in [Calls -> Call]
    /\ \A q \in Calls : call[q].at # "idle" => call[q].rev \in Revisions

(* A session that runs, or that an enabling thread is about to start, is the *)
(* manager's own unless it was told to stop.                                 *)
Owned(r) == revision = r /\ held = r

OwnedInv ==
    /\ \A r \in Revisions :
          session[r].thread \notin {"none", "dead"} /\ ~session[r].stopping => Owned(r)
    /\ \A o \in Openers :
          opener[o].at \in {"connect", "start"} =>
             session[opener[o].rev].stopping \/ Owned(opener[o].rev)

(* Tools are offered only while their connection is held, and a revision is  *)
(* current only while the server is switched on.                             *)
OfferedInv ==
    /\ offered \subseteq {revision}
    /\ offered # {} => held # 0 /\ ~closed
    /\ revision # 0 => config = "on"

(* A queued request belongs to the session, is there once and is waited for  *)
(* unless its deadline has passed; the request being served is not queued.   *)
Awaited(r) ==
    {q \in Calls : /\ call[q].rev = r
                   /\ \/ call[q].at = "waiting"
                      \/ call[q].at = "given up" /\ call[q].late = TRUE}

QueueInv ==
    \A r \in Revisions :
        LET s == session[r]
        IN /\ \A i \in 1..Len(s.queue) : s.queue[i] \in Awaited(r)
           /\ \A i, j \in 1..Len(s.queue) : s.queue[i] = s.queue[j] => i = j
           /\ s.busy # "none" => /\ s.busy \in Awaited(r)
                                 /\ \A i \in 1..Len(s.queue) : s.queue[i] # s.busy

(* The inductive invariant. *)
McpInv == Types /\ OwnedInv /\ OfferedInv /\ QueueInv

USE McpAssumption

-----------------------------------------------------------------------------
(* What the updates of a session make of its fields. *)
LEMMA ClosedFields ==
    ASSUME NEW s \in Session
    PROVE  /\ Closed(s) \in Session
           /\ Closed(s).stopping = TRUE
           /\ Closed(s).thread = s.thread
           /\ Closed(s).queue = s.queue /\ Closed(s).busy = s.busy
BY DEF Session, Closed

LEMMA DeadFields ==
    ASSUME NEW s \in Session
    PROVE  /\ Dead(s) \in Session
           /\ Dead(s).thread = "dead" /\ Dead(s).stopping = s.stopping
           /\ Dead(s).queue = <<>> /\ Dead(s).busy = "none"
<1> DEFINE t == [s EXCEPT !.thread = "dead", !.ready = "error"]
           w == <<>>
<1>1. t \in Session /\ t.thread = "dead" /\ t.stopping = s.stopping
  BY DEF Session
<1>2. w \in Seq(Calls)
  BY EmptySeq
<1>3. Dead(s) = [t EXCEPT !.queue = w, !.busy = "none"]
  BY DEF Dead, Session
<1> HIDE DEF t, w
<1>4. /\ [t EXCEPT !.queue = w, !.busy = "none"] \in Session
      /\ [t EXCEPT !.queue = w, !.busy = "none"].thread = t.thread
      /\ [t EXCEPT !.queue = w, !.busy = "none"].stopping = t.stopping
      /\ [t EXCEPT !.queue = w, !.busy = "none"].queue = w
      /\ [t EXCEPT !.queue = w, !.busy = "none"].busy = "none"
  BY <1>1, <1>2 DEF Session
<1> QED BY <1>1, <1>3, <1>4 DEF w

LEMMA ThreadFields ==
    ASSUME NEW s \in Session, NEW th \in {"started", "looped", "opening"}
    PROVE  /\ [s EXCEPT !.thread = th] \in Session
           /\ [s EXCEPT !.thread = th].thread = th
           /\ [s EXCEPT !.thread = th].stopping = s.stopping
           /\ [s EXCEPT !.thread = th].queue = s.queue
           /\ [s EXCEPT !.thread = th].busy = s.busy
BY DEF Session

LEMMA ServingFields ==
    ASSUME NEW s \in Session
    PROVE  LET t == [s EXCEPT !.thread = "serving", !.ready = "ok"]
           IN /\ t \in Session
              /\ t.stopping = s.stopping /\ t.thread = "serving"
              /\ t.queue = s.queue /\ t.busy = s.busy
BY DEF Session

LEMMA QueueFields ==
    ASSUME NEW s \in Session, NEW w \in Seq(Calls)
    PROVE  LET t == [s EXCEPT !.queue = w]
           IN /\ t \in Session
              /\ t.stopping = s.stopping /\ t.thread = s.thread
              /\ t.queue = w /\ t.busy = s.busy
BY DEF Session

LEMMA BusyFields ==
    ASSUME NEW s \in Session, NEW q \in Calls \cup {"none"}
    PROVE  LET t == [s EXCEPT !.busy = q]
           IN /\ t \in Session
              /\ t.stopping = s.stopping /\ t.thread = s.thread
              /\ t.queue = s.queue /\ t.busy = q
BY DEF Session

LEMMA SessionFields ==
    ASSUME Types, NEW r \in Revisions
    PROVE  /\ session[r] \in Session /\ session[r].queue \in Seq(Calls)
           /\ session[r].busy \in Calls \cup {"none"} /\ session[r].stopping \in BOOLEAN
BY DEF Types, Session

(* One session changes, the others do not. *)
LEMMA SetSession ==
    ASSUME Types, NEW r \in Revisions, NEW s \in Session,
           session' = [session EXCEPT ![r] = s]
    PROVE  /\ session' \in [Revisions -> Session] /\ session'[r] = s
           /\ \A x \in Revisions : x # r => session'[x] = session[x]
BY DEF Types

(* Likewise for an enabling thread and for a call. *)
LEMMA MoveFields ==
    ASSUME Types, NEW o \in Openers, NEW at \in OpenerAt, opener[o].at # "idle", Move(o, at)
    PROVE  /\ opener' \in [Openers -> Opener]
           /\ opener'[o].at = at /\ opener'[o].rev = opener[o].rev
           /\ \A x \in Openers : x # o => opener'[x] = opener[x]
           /\ \A x \in Openers : opener'[x].at # "idle" => opener'[x].rev \in Revisions
<1>1. opener[o] \in Opener
  BY DEF Types
<1>2. [opener[o] EXCEPT !.at = at] \in Opener
  BY <1>1 DEF Opener
<1>3. opener' = [opener EXCEPT ![o] = [opener[o] EXCEPT !.at = at]]
  BY DEF Move
<1>4. [opener[o] EXCEPT !.at = at].at = at /\ [opener[o] EXCEPT !.at = at].rev = opener[o].rev
  BY <1>1 DEF Opener
<1> QED BY <1>2, <1>3, <1>4 DEF Types

LEMMA RestFields ==
    ASSUME Types, NEW o \in Openers, opener' = [opener EXCEPT ![o] = AtRest]
    PROVE  /\ opener' \in [Openers -> Opener] /\ opener'[o].at = "idle"
           /\ \A x \in Openers : x # o => opener'[x] = opener[x]
           /\ \A x \in Openers : opener'[x].at # "idle" => opener'[x].rev \in Revisions
<1>1. AtRest \in Opener /\ AtRest.at = "idle"
  BY DEF AtRest, Opener, OpenerAt
<1> HIDE DEF AtRest
<1> QED BY <1>1 DEF Types

LEMMA SetAt ==
    ASSUME Types, NEW q \in Calls, NEW at \in CallAt, call[q].at # "idle",
           call' = [call EXCEPT ![q] = [call[q] EXCEPT !.at = at]]
    PROVE  /\ call' \in [Calls -> Call]
           /\ call'[q].at = at /\ call'[q].rev = call[q].rev /\ call'[q].late = call[q].late
           /\ \A x \in Calls : x # q => call'[x] = call[x]
           /\ \A x \in Calls : call'[x].at # "idle" => call'[x].rev \in Revisions
<1> DEFINE c == [call[q] EXCEPT !.at = at]
<1>1. call[q] \in Call
  BY DEF Types
<1>2. c \in Call /\ c.at = at /\ c.rev = call[q].rev /\ c.late = call[q].late
  BY <1>1 DEF Call
<1>3. call' = [call EXCEPT ![q] = c]
  OBVIOUS
<1> HIDE DEF c
<1> QED BY <1>2, <1>3 DEF Types

-----------------------------------------------------------------------------
(* Requests that are awaited stay so while queues are kept or emptied. *)
LEMMA QueueKept ==
    ASSUME QueueInv,
           \A r \in Revisions :
              \/ session'[r].queue = <<>> /\ session'[r].busy = "none"
              \/ /\ session'[r].queue = session[r].queue
                 /\ session'[r].busy \in {session[r].busy, "none"}
                 /\ Awaited(r) \subseteq Awaited(r)'
    PROVE  QueueInv'
<1> SUFFICES ASSUME NEW r \in Revisions
             PROVE  /\ \A i \in 1..Len(session'[r].queue) :
                          session'[r].queue[i] \in Awaited(r)'
                    /\ \A i, j \in 1..Len(session'[r].queue) :
                          session'[r].queue[i] = session'[r].queue[j] => i = j
                    /\ session'[r].busy # "none" =>
                          /\ session'[r].busy \in Awaited(r)'
                          /\ \A i \in 1..Len(session'[r].queue) :
                                session'[r].queue[i] # session'[r].busy
  BY DEF QueueInv
<1>1. CASE session'[r].queue = <<>> /\ session'[r].busy = "none"
  BY <1>1
<1>2. CASE /\ session'[r].queue = session[r].queue
           /\ session'[r].busy \in {session[r].busy, "none"}
           /\ Awaited(r) \subseteq Awaited(r)'
  <2>1. /\ \A i \in 1..Len(session[r].queue) : session[r].queue[i] \in Awaited(r)
        /\ \A i, j \in 1..Len(session[r].queue) :
              session[r].queue[i] = session[r].queue[j] => i = j
        /\ session[r].busy # "none" =>
              /\ session[r].busy \in Awaited(r)
              /\ \A i \in 1..Len(session[r].queue) : session[r].queue[i] # session[r].busy
    BY DEF QueueInv
  <2>2. session'[r].queue = session[r].queue
    BY <1>2
  <2>3. session'[r].busy # "none" => session'[r].busy = session[r].busy
    BY <1>2
  <2> QED BY <1>2, <2>1, <2>2, <2>3
<1> QED BY <1>1, <1>2

LEMMA QueueSame ==
    ASSUME QueueInv, UNCHANGED <<session, call>>
    PROVE  QueueInv'
<1>1. \A r \in Revisions : Awaited(r)' = Awaited(r)
  BY DEF Awaited
<1> QED BY <1>1, QueueKept

(* What is left to show when only one session, or only calls, change. *)
LEMMA SessionStep ==
    ASSUME Types, OwnedInv, OfferedInv, NEW r \in Revisions, NEW s \in Session,
           session' = [session EXCEPT ![r] = s], UNCHANGED <<managerVars, opener>>,
           s.stopping = session[r].stopping,
           s.thread \notin {"none", "dead"} => session[r].thread \notin {"none", "dead"},
           call' \in [Calls -> Call],
           \A q \in Calls : call'[q].at # "idle" => call'[q].rev \in Revisions
    PROVE  Types' /\ OwnedInv' /\ OfferedInv'
<1>1. /\ session' \in [Revisions -> Session] /\ session'[r] = s
      /\ \A x \in Revisions : x # r => session'[x] = session[x]
  BY SetSession
<1>2. Types'
  BY <1>1 DEF Types, managerVars
<1>3. \A x \in Revisions : session'[x].stopping = session[x].stopping
  BY <1>1
<1>4. \A x \in Revisions : session'[x].thread \notin {"none", "dead"} =>
                              session[x].thread \notin {"none", "dead"}
  BY <1>1
<1>5. \A o \in Openers : opener[o].at \in {"connect", "start"} => opener[o].rev \in Revisions
  BY DEF Types
<1>6. OwnedInv'
  BY <1>3, <1>4, <1>5 DEF OwnedInv, Owned, managerVars
<1>7. OfferedInv'
  BY DEF OfferedInv, managerVars
<1> QED BY <1>2, <1>6, <1>7

LEMMA CallStep ==
    ASSUME Types, OwnedInv, OfferedInv, UNCHANGED <<managerVars, opener, session>>,
           call' \in [Calls -> Call],
           \A q \in Calls : call'[q].at # "idle" => call'[q].rev \in Revisions
    PROVE  Types' /\ OwnedInv' /\ OfferedInv'
<1>1. Types'
  BY DEF Types, managerVars
<1>2. OwnedInv'
  BY DEF OwnedInv, Owned, managerVars
<1>3. OfferedInv'
  BY DEF OfferedInv, managerVars
<1> QED BY <1>1, <1>2, <1>3

-----------------------------------------------------------------------------
(* After _revoke every session that runs, or is about to, was told to stop. *)
LEMMA RevokeStops ==
    ASSUME Types, OwnedInv, QueueInv, Revoke, UNCHANGED call
    PROVE  /\ session' \in [Revisions -> Session]
           /\ \A r \in Revisions :
                 session'[r].thread \notin {"none", "dead"} => session'[r].stopping
           /\ \A o \in Openers :
                 opener[o].at \in {"connect", "start"} => session'[opener[o].rev].stopping
           /\ QueueInv'
<1>1. /\ session' \in [Revisions -> Session]
      /\ \A r \in Revisions : /\ session'[r].thread = session[r].thread
                              /\ session'[r].queue = session[r].queue
                              /\ session'[r].busy = session[r].busy
                              /\ session[r].stopping \/ r = held => session'[r].stopping
  <2>1. CASE held = 0
    BY <2>1 DEF Revoke, Types, Revisions
  <2>2. CASE held # 0
    <3>1. held \in Revisions
      BY <2>2 DEF Types, Revisions
    <3> DEFINE s == Closed(session[held])
    <3>2. session' = [session EXCEPT ![held] = s]
      BY <2>2 DEF Revoke
    <3>3. /\ s \in Session /\ s.stopping = TRUE /\ s.thread = session[held].thread
          /\ s.queue = session[held].queue /\ s.busy = session[held].busy
      BY <3>1, SessionFields, ClosedFields
    <3> HIDE DEF s
    <3>4. /\ session' \in [Revisions -> Session] /\ session'[held] = s
          /\ \A x \in Revisions : x # held => session'[x] = session[x]
      BY <3>1, <3>2, <3>3, SetSession
    <3> QED BY <3>1, <3>3, <3>4
  <2> QED BY <2>1, <2>2
<1>2. \A r \in Revisions :
         session'[r].thread \notin {"none", "dead"} => session'[r].stopping
  BY <1>1 DEF OwnedInv, Owned
<1>3. \A o \in Openers :
         opener[o].at \in {"connect", "start"} => session'[opener[o].rev].stopping
  <2> SUFFICES ASSUME NEW o \in Openers, opener[o].at \in {"connect", "start"}
               PROVE  session'[opener[o].rev].stopping
    OBVIOUS
  <2>1. opener[o].rev \in Revisions
    BY DEF Types
  <2>2. session[opener[o].rev].stopping \/ opener[o].rev = held
    BY DEF OwnedInv, Owned
  <2> QED BY <1>1, <2>1, <2>2
<1>4. \A r \in Revisions : Awaited(r)' = Awaited(r)
  BY DEF Awaited
<1>5. QueueInv'
  BY <1>1, <1>4, QueueKept
<1> QED BY <1>1, <1>2, <1>3, <1>5

LEMMA SaveKeeps ==
    ASSUME McpInv, Save
    PROVE  McpInv'
<1>1. Types'
  BY DEF McpInv, Save, Types
<1>2. OwnedInv'
  BY DEF McpInv, Save, OwnedInv, Owned
<1>3. OfferedInv'
  BY DEF McpInv, Save, OfferedInv
<1>4. QueueInv'
  BY QueueSame DEF McpInv, Save
<1> QED BY <1>1, <1>2, <1>3, <1>4 DEF McpInv

LEMMA EnableKeeps ==
    ASSUME McpInv, NEW o \in Openers, Enable(o)
    PROVE  McpInv'
<1> USE DEF McpInv
<1>1. /\ session' \in [Revisions -> Session]
      /\ \A r \in Revisions :
            session'[r].thread \notin {"none", "dead"} => session'[r].stopping
      /\ \A x \in Openers :
            opener[x].at \in {"connect", "start"} => session'[opener[x].rev].stopping
      /\ QueueInv'
  BY RevokeStops DEF Enable
<1> DEFINE n == [at |-> "hold", rev |-> minted']
<1>2. minted' \in Revisions /\ minted' \in 0..MaxRevision /\ minted' # 0
  BY DEF Enable, Types, Revisions
<1>3. n \in Opener /\ n.at = "hold" /\ n.rev = minted'
  BY <1>2 DEF Opener, OpenerAt
<1>4. opener' = [opener EXCEPT ![o] = n]
  BY DEF Enable
<1> HIDE DEF n
<1>5. /\ opener' \in [Openers -> Opener] /\ opener'[o] = n
      /\ \A x \in Openers : x # o => opener'[x] = opener[x]
  BY <1>3, <1>4 DEF Types
<1>6. \A x \in Openers : opener'[x].at # "idle" => opener'[x].rev \in Revisions
  BY <1>2, <1>3, <1>5 DEF Types
<1>7. Types'
  BY <1>1, <1>2, <1>5, <1>6 DEF Enable, Revoke, Types
<1>8. \A x \in Openers : opener'[x].at \in {"connect", "start"} =>
                            session'[opener'[x].rev].stopping
  BY <1>1, <1>3, <1>5
<1>9. OwnedInv'
  BY <1>1, <1>8 DEF OwnedInv
<1>10. OfferedInv'
  BY DEF Enable, Revoke, OfferedInv
<1> QED BY <1>1, <1>7, <1>9, <1>10

LEMMA DisableKeeps ==
    ASSUME McpInv, Disable
    PROVE  McpInv'
<1> USE DEF McpInv
<1>1. /\ session' \in [Revisions -> Session]
      /\ \A r \in Revisions :
            session'[r].thread \notin {"none", "dead"} => session'[r].stopping
      /\ \A x \in Openers :
            opener[x].at \in {"connect", "start"} => session'[opener[x].rev].stopping
      /\ QueueInv'
  BY RevokeStops DEF Disable
<1>2. Types'
  BY <1>1 DEF Disable, Revoke, Types
<1>3. OwnedInv'
  BY <1>1 DEF Disable, OwnedInv
<1>4. OfferedInv'
  BY DEF Disable, Revoke, OfferedInv
<1> QED BY <1>1, <1>2, <1>3, <1>4

LEMMA CloseManagerKeeps ==
    ASSUME McpInv, CloseManager
    PROVE  McpInv'
<1> USE DEF McpInv
<1>1. CASE held = 0
  <2>1. Types'
    BY <1>1 DEF CloseManager, Types
  <2>2. OwnedInv'
    BY <1>1 DEF CloseManager, OwnedInv, Owned
  <2>3. OfferedInv'
    BY <1>1 DEF CloseManager, OfferedInv
  <2>4. QueueInv'
    BY <1>1, QueueSame DEF CloseManager
  <2> QED BY <2>1, <2>2, <2>3, <2>4
<1>2. CASE held # 0
  <2>1. /\ session' \in [Revisions -> Session]
        /\ \A r \in Revisions :
              session'[r].thread \notin {"none", "dead"} => session'[r].stopping
        /\ \A x \in Openers :
              opener[x].at \in {"connect", "start"} => session'[opener[x].rev].stopping
        /\ QueueInv'
    BY <1>2, RevokeStops DEF CloseManager
  <2>2. Types'
    BY <1>2, <2>1 DEF CloseManager, Revoke, Types
  <2>3. OwnedInv'
    BY <2>1 DEF CloseManager, OwnedInv
  <2>4. OfferedInv'
    BY <1>2 DEF CloseManager, Revoke, OfferedInv
  <2> QED BY <2>1, <2>2, <2>3, <2>4
<1> QED BY <1>1, <1>2

-----------------------------------------------------------------------------
(* The enabling threads.  Opened: what every step of theirs starts from. *)
LEMMA Opened ==
    ASSUME Types, NEW o \in Openers, opener[o].at # "idle"
    PROVE  opener[o].rev \in Revisions /\ opener[o].rev # 0 /\ opener[o].rev \in 0..MaxRevision
BY DEF Types, Revisions

LEMMA HoldKeeps ==
    ASSUME McpInv, NEW o \in Openers, Hold(o)
    PROVE  McpInv'
<1> USE DEF McpInv
<1>1. opener[o].at # "idle" /\ opener[o].rev \in Revisions /\ opener[o].rev \in 0..MaxRevision
  BY Opened DEF Hold
<1>2. PICK at \in {"fail", "connect"} : Move(o, at)
  BY DEF Hold
<1>3. /\ opener' \in [Openers -> Opener]
      /\ opener'[o].at = at /\ opener'[o].rev = opener[o].rev
      /\ \A x \in Openers : x # o => opener'[x] = opener[x]
      /\ \A x \in Openers : opener'[x].at # "idle" => opener'[x].rev \in Revisions
  BY <1>1, <1>2, MoveFields DEF OpenerAt
<1>4. QueueInv'
  BY QueueSame DEF Hold
<1>5. CASE closed \/ revision # opener[o].rev
  <2>1. UNCHANGED held /\ Move(o, "fail")
    BY <1>5 DEF Hold
  <2>2. opener'[o].at = "fail"
    BY <2>1, <1>1, MoveFields DEF OpenerAt
  <2>3. Types'
    BY <1>3, <2>1 DEF Hold, Types
  <2>4. OwnedInv'
    BY <1>3, <2>1, <2>2 DEF Hold, OwnedInv, Owned
  <2>5. OfferedInv'
    BY <2>1 DEF Hold, OfferedInv
  <2> QED BY <1>4, <2>3, <2>4, <2>5
<1>6. CASE ~(closed \/ revision # opener[o].rev)
  <2>1. held' = opener[o].rev /\ revision' = opener[o].rev /\ revision = opener[o].rev
    BY <1>6 DEF Hold
  <2>2. Types'
    BY <1>1, <1>3, <2>1 DEF Hold, Types
  <2>3. \A r \in Revisions : Owned(r) => r = opener[o].rev
    BY <2>1 DEF Owned
  <2>4. Owned(opener[o].rev)'
    BY <1>3, <2>1 DEF Owned
  <2>5. \A r \in Revisions : Owned(r) => Owned(r)'
    BY <2>1 DEF Owned
  <2>6. \A x \in Openers : opener'[x].at \in {"connect", "start"} =>
           \/ session'[opener'[x].rev].stopping
           \/ revision' = opener'[x].rev /\ held' = opener'[x].rev
    <3> SUFFICES ASSUME NEW x \in Openers, opener'[x].at \in {"connect", "start"}
                 PROVE  \/ session'[opener'[x].rev].stopping
                        \/ revision' = opener'[x].rev /\ held' = opener'[x].rev
      OBVIOUS
    <3>1. CASE x = o
      BY <3>1, <1>3, <2>1
    <3>2. CASE x # o
      BY <3>2, <1>3, <2>1 DEF OwnedInv, Owned, Hold
    <3> QED BY <3>1, <3>2
  <2>7. \A r \in Revisions : session'[r].thread \notin {"none", "dead"} /\ ~session'[r].stopping
                                => Owned(r)'
    BY <2>5 DEF OwnedInv, Hold
  <2>8. OwnedInv'
    BY <2>6, <2>7 DEF OwnedInv, Owned
  <2>9. OfferedInv'
    BY <1>1, <2>1, Opened DEF Hold, OfferedInv
  <2> QED BY <1>4, <2>2, <2>8, <2>9
<1> QED BY <1>5, <1>6

LEMMA ConnectKeeps ==
    ASSUME McpInv, NEW o \in Openers, Connect(o)
    PROVE  McpInv'
<1> USE DEF McpInv
<1>1. opener[o].at # "idle"
  BY DEF Connect
<1>2. PICK at \in {"fail", "start"} : Move(o, at)
  BY DEF Connect
<1>3. /\ opener' \in [Openers -> Opener]
      /\ opener'[o].at = at /\ opener'[o].rev = opener[o].rev
      /\ \A x \in Openers : x # o => opener'[x] = opener[x]
      /\ \A x \in Openers : opener'[x].at # "idle" => opener'[x].rev \in Revisions
  BY <1>1, <1>2, MoveFields DEF OpenerAt
<1>4. Types'
  BY <1>3 DEF Connect, Types, managerVars
<1>5. \A x \in Openers : opener'[x].at \in {"connect", "start"} =>
         opener[x].at \in {"connect", "start"} /\ opener'[x].rev = opener[x].rev
  BY <1>3 DEF Connect
<1>6. OwnedInv'
  BY <1>5 DEF Connect, OwnedInv, Owned, managerVars
<1>7. OfferedInv'
  BY DEF Connect, OfferedInv, managerVars
<1>8. QueueInv'
  BY QueueSame DEF Connect
<1> QED BY <1>4, <1>6, <1>7, <1>8

LEMMA StartKeeps ==
    ASSUME McpInv, NEW o \in Openers, Start(o)
    PROVE  McpInv'
<1> USE DEF McpInv
<1>1. opener[o].at = "start" /\ opener[o].rev \in Revisions
  BY Opened DEF Start
<1>2. /\ opener' \in [Openers -> Opener]
      /\ opener'[o].at = "wait" /\ opener'[o].rev = opener[o].rev
      /\ \A x \in Openers : x # o => opener'[x] = opener[x]
      /\ \A x \in Openers : opener'[x].at # "idle" => opener'[x].rev \in Revisions
  BY <1>1, MoveFields DEF OpenerAt, Start
<1> DEFINE r == opener[o].rev
           s == [session[r] EXCEPT !.thread = "started"]
<1>3. session' = [session EXCEPT ![r] = s]
  BY DEF Start
<1>4. s \in Session /\ s.stopping = session[r].stopping /\ s.thread = "started"
         /\ s.queue = session[r].queue /\ s.busy = session[r].busy
  BY <1>1, SessionFields, ThreadFields
<1> HIDE DEF s
<1>5. /\ session' \in [Revisions -> Session] /\ session'[r] = s
      /\ \A x \in Revisions : x # r => session'[x] = session[x]
  BY <1>1, <1>3, <1>4, SetSession
<1>6. Types'
  BY <1>2, <1>5 DEF Start, Types, managerVars
<1>7. \A x \in Revisions : /\ session'[x].stopping = session[x].stopping
                           /\ session'[x].queue = session[x].queue
                           /\ session'[x].busy = session[x].busy
                           /\ x # r => session'[x].thread = session[x].thread
  BY <1>4, <1>5
<1>8. session[r].stopping \/ Owned(r)
  BY <1>1 DEF OwnedInv
<1>9. \A x \in Openers : opener'[x].at \in {"connect", "start"} =>
         /\ opener[x].at \in {"connect", "start"} /\ opener'[x].rev = opener[x].rev
         /\ opener[x].rev \in Revisions
  BY <1>2 DEF Types
<1> HIDE DEF r
<1>10. OwnedInv'
  BY <1>1, <1>7, <1>8, <1>9 DEF Start, OwnedInv, Owned, managerVars
<1>11. OfferedInv'
  BY DEF Start, OfferedInv, managerVars
<1>12. \A x \in Revisions : Awaited(x)' = Awaited(x)
  BY DEF Awaited, Start
<1>13. QueueInv'
  BY <1>7, <1>12, QueueKept
<1> QED BY <1>6, <1>10, <1>11, <1>13

LEMMA WaitKeeps ==
    ASSUME McpInv, NEW o \in Openers, Wait(o)
    PROVE  McpInv'
<1> USE DEF McpInv
<1>1. opener[o].at # "idle"
  BY DEF Wait
<1>2. PICK at \in {"fail", "register"} : Move(o, at)
  BY DEF Wait
<1>3. /\ opener' \in [Openers -> Opener]
      /\ opener'[o].at = at /\ opener'[o].rev = opener[o].rev
      /\ \A x \in Openers : x # o => opener'[x] = opener[x]
      /\ \A x \in Openers : opener'[x].at # "idle" => opener'[x].rev \in Revisions
  BY <1>1, <1>2, MoveFields DEF OpenerAt
<1>4. Types'
  BY <1>3 DEF Wait, Types, managerVars
<1>5. \A x \in Openers : opener'[x].at \in {"connect", "start"} => opener'[x] = opener[x]
  BY <1>3
<1>6. OwnedInv'
  BY <1>5 DEF Wait, OwnedInv, Owned, managerVars
<1>7. OfferedInv'
  BY DEF Wait, OfferedInv, managerVars
<1>8. QueueInv'
  BY QueueSame DEF Wait
<1> QED BY <1>4, <1>6, <1>7, <1>8

LEMMA RegisterKeeps ==
    ASSUME McpInv, NEW o \in Openers, Register(o)
    PROVE  McpInv'
<1> USE DEF McpInv
<1>1. /\ opener[o].at # "idle" /\ opener[o].rev \in Revisions
      /\ opener[o].rev # 0 /\ opener[o].rev \in 0..MaxRevision
  BY Opened DEF Register
<1>2. QueueInv'
  BY QueueSame DEF Register
<1>3. CASE closed \/ revision # opener[o].rev
  <2>1. Move(o, "fail") /\ UNCHANGED <<held, status, offered>>
    BY <1>3 DEF Register
  <2>2. /\ opener' \in [Openers -> Opener] /\ opener'[o].at = "fail"
        /\ \A x \in Openers : x # o => opener'[x] = opener[x]
        /\ \A x \in Openers : opener'[x].at # "idle" => opener'[x].rev \in Revisions
    BY <1>1, <2>1, MoveFields DEF OpenerAt
  <2>3. Types'
    BY <2>1, <2>2 DEF Register, Types
  <2>4. OwnedInv'
    BY <2>1, <2>2 DEF Register, OwnedInv, Owned
  <2>5. OfferedInv'
    BY <2>1 DEF Register, OfferedInv
  <2> QED BY <1>2, <2>3, <2>4, <2>5
<1>4. CASE ~(closed \/ revision # opener[o].rev)
  <2>1. /\ offered' = offered \cup {opener[o].rev} /\ held' = opener[o].rev
        /\ status' = "connected" /\ revision = opener[o].rev /\ ~closed
        /\ opener' = [opener EXCEPT ![o] = AtRest]
    BY <1>4 DEF Register
  <2>2. /\ opener' \in [Openers -> Opener] /\ opener'[o].at = "idle"
        /\ \A x \in Openers : x # o => opener'[x] = opener[x]
        /\ \A x \in Openers : opener'[x].at # "idle" => opener'[x].rev \in Revisions
    BY <2>1, RestFields
  <2>3. Types'
    BY <1>1, <2>1, <2>2 DEF Register, Types
  <2>4. \A x \in Openers : opener'[x].at \in {"connect", "start"} => opener'[x] = opener[x]
    BY <2>2
  <2>5. OwnedInv'
    BY <2>1, <2>4 DEF Register, OwnedInv, Owned
  <2>6. OfferedInv'
    BY <1>1, <2>1 DEF Register, OfferedInv
  <2> QED BY <1>2, <2>3, <2>5, <2>6
<1> QED BY <1>3, <1>4

LEMMA FailKeeps ==
    ASSUME McpInv, NEW o \in Openers, Fail(o)
    PROVE  McpInv'
<1> USE DEF McpInv
<1>1. opener[o].at = "fail" /\ opener[o].rev \in Revisions
  BY Opened DEF Fail
<1>2. /\ opener' \in [Openers -> Opener] /\ opener'[o].at = "report"
      /\ \A x \in Openers : x # o => opener'[x] = opener[x]
      /\ \A x \in Openers : opener'[x].at # "idle" => opener'[x].rev \in Revisions
  BY <1>1, MoveFields DEF OpenerAt, Fail
<1> DEFINE r == opener[o].rev
           s == Closed(session[r])
<1>3. session' = [session EXCEPT ![r] = s]
  BY DEF Fail
<1>4. s \in Session /\ s.stopping = TRUE /\ s.thread = session[r].thread
         /\ s.queue = session[r].queue /\ s.busy = session[r].busy
  BY <1>1, SessionFields, ClosedFields
<1> HIDE DEF s
<1>5. /\ session' \in [Revisions -> Session] /\ session'[r] = s
      /\ \A x \in Revisions : x # r => session'[x] = session[x]
  BY <1>1, <1>3, <1>4, SetSession
<1>6. Types'
  BY <1>2, <1>5 DEF Fail, Types, managerVars
<1>7. \A x \in Revisions : /\ session[x].stopping => session'[x].stopping
                           /\ session'[x].queue = session[x].queue
                           /\ session'[x].busy = session[x].busy
                           /\ session'[x].thread = session[x].thread
  BY <1>4, <1>5
<1>8. \A x \in Openers : opener'[x].at \in {"connect", "start"} =>
         opener'[x] = opener[x] /\ opener[x].rev \in Revisions
  BY <1>2 DEF Types
<1> HIDE DEF r
<1>9. OwnedInv'
  BY <1>7, <1>8 DEF Fail, OwnedInv, Owned, managerVars
<1>10. OfferedInv'
  BY DEF Fail, OfferedInv, managerVars
<1>11. \A x \in Revisions : Awaited(x)' = Awaited(x)
  BY DEF Awaited, Fail
<1>12. QueueInv'
  BY <1>7, <1>11, QueueKept
<1> QED BY <1>6, <1>9, <1>10, <1>12

LEMMA ReportKeeps ==
    ASSUME McpInv, NEW o \in Openers, Report(o)
    PROVE  McpInv'
<1> USE DEF McpInv
<1>1. /\ opener' \in [Openers -> Opener] /\ opener'[o].at = "idle"
      /\ \A x \in Openers : x # o => opener'[x] = opener[x]
      /\ \A x \in Openers : opener'[x].at # "idle" => opener'[x].rev \in Revisions
  BY RestFields DEF Report
<1>2. Types'
  BY <1>1 DEF Report, Types
<1>3. \A x \in Openers : opener'[x].at \in {"connect", "start"} => opener'[x] = opener[x]
  BY <1>1
<1>4. OwnedInv'
  BY <1>3 DEF Report, OwnedInv, Owned
<1>5. OfferedInv'
  BY DEF Report, OfferedInv
<1>6. QueueInv'
  BY QueueSame DEF Report
<1> QED BY <1>2, <1>4, <1>5, <1>6

-----------------------------------------------------------------------------
(* The connection's thread: no step of it starts a session that was not      *)
(* running, nor forgets that it was told to stop.                            *)
LEMMA ThreadKeeps ==
    ASSUME McpInv, NEW r \in Revisions, NEW s \in Session,
           session' = [session EXCEPT ![r] = s], UNCHANGED <<managerVars, opener, call>>,
           s.stopping = session[r].stopping,
           s.thread \notin {"none", "dead"} => session[r].thread \notin {"none", "dead"},
           \/ s.queue = <<>> /\ s.busy = "none"
           \/ s.queue = session[r].queue /\ s.busy = session[r].busy
    PROVE  McpInv'
<1> USE DEF McpInv
<1>1. Types' /\ OwnedInv' /\ OfferedInv'
  <2>1. /\ call' \in [Calls -> Call]
        /\ \A q \in Calls : call'[q].at # "idle" => call'[q].rev \in Revisions
    BY DEF Types
  <2> QED BY <2>1, SessionStep
<1>2. /\ session'[r] = s
      /\ \A x \in Revisions : x # r => session'[x] = session[x]
  BY SetSession
<1>3. \A x \in Revisions : Awaited(x)' = Awaited(x)
  BY DEF Awaited
<1>4. \A x \in Revisions :
         \/ session'[x].queue = <<>> /\ session'[x].busy = "none"
         \/ session'[x].queue = session[x].queue /\ session'[x].busy = session[x].busy
  BY <1>2
<1>5. QueueInv'
  BY <1>3, <1>4, QueueKept
<1> QED BY <1>1, <1>5

LEMMA ThreadLoopKeeps ==
    ASSUME McpInv, NEW r \in Revisions, ThreadLoop(r)
    PROVE  McpInv'
<1> DEFINE s == [session[r] EXCEPT !.thread = "looped"]
<1>1. /\ s \in Session /\ s.stopping = session[r].stopping
      /\ s.queue = session[r].queue /\ s.busy = session[r].busy
  BY SessionFields, ThreadFields DEF McpInv
<1>2. session' = [session EXCEPT ![r] = s] /\ session[r].thread = "started"
  BY DEF ThreadLoop
<1> HIDE DEF s
<1> QED BY <1>1, <1>2, ThreadKeeps DEF ThreadLoop

LEMMA ThreadCheckKeeps ==
    ASSUME McpInv, NEW r \in Revisions, ThreadCheck(r)
    PROVE  McpInv'
<1>1. PICK s \in {Dead(session[r]), [session[r] EXCEPT !.thread = "opening"]} :
         session' = [session EXCEPT ![r] = s]
  BY DEF ThreadCheck
<1>2. session[r].thread = "looped" /\ UNCHANGED <<managerVars, opener, call>>
  BY DEF ThreadCheck
<1>3. CASE s = Dead(session[r])
  <2>1. /\ s \in Session /\ s.stopping = session[r].stopping /\ s.thread = "dead"
        /\ s.queue = <<>> /\ s.busy = "none"
    BY <1>3, SessionFields, DeadFields DEF McpInv
  <2> QED BY <1>1, <1>2, <2>1, ThreadKeeps
<1>4. CASE s = [session[r] EXCEPT !.thread = "opening"]
  <2>1. /\ s \in Session /\ s.stopping = session[r].stopping
        /\ s.queue = session[r].queue /\ s.busy = session[r].busy
    BY <1>4, SessionFields, ThreadFields DEF McpInv
  <2> QED BY <1>1, <1>2, <2>1, ThreadKeeps
<1> QED BY <1>1, <1>3, <1>4

LEMMA ThreadOpenKeeps ==
    ASSUME McpInv, NEW r \in Revisions, ThreadOpen(r)
    PROVE  McpInv'
<1>1. PICK s \in {Dead(session[r]), [session[r] EXCEPT !.thread = "serving", !.ready = "ok"]} :
         session' = [session EXCEPT ![r] = s]
  BY DEF ThreadOpen
<1>2. session[r].thread = "opening" /\ UNCHANGED <<managerVars, opener, call>>
  BY DEF ThreadOpen
<1>3. CASE s = Dead(session[r])
  <2>1. /\ s \in Session /\ s.stopping = session[r].stopping /\ s.thread = "dead"
        /\ s.queue = <<>> /\ s.busy = "none"
    BY <1>3, SessionFields, DeadFields DEF McpInv
  <2> QED BY <1>1, <1>2, <2>1, ThreadKeeps
<1>4. CASE s = [session[r] EXCEPT !.thread = "serving", !.ready = "ok"]
  <2>1. /\ s \in Session /\ s.stopping = session[r].stopping
        /\ s.queue = session[r].queue /\ s.busy = session[r].busy
    BY <1>4, SessionFields, ServingFields DEF McpInv
  <2> QED BY <1>1, <1>2, <2>1, ThreadKeeps
<1> QED BY <1>1, <1>3, <1>4

LEMMA ThreadEndsKeeps ==
    ASSUME McpInv, NEW r \in Revisions, ThreadEnds(r)
    PROVE  McpInv'
<1> USE DEF McpInv
<1> DEFINE s == Dead(session[r])
<1>1. /\ s \in Session /\ s.stopping = session[r].stopping /\ s.thread = "dead"
      /\ s.queue = <<>> /\ s.busy = "none"
  BY SessionFields, DeadFields
<1>2. session' = [session EXCEPT ![r] = s]
  BY DEF ThreadEnds
<1> HIDE DEF s
<1>3. \A q \in Calls : /\ call'[q] \in Call /\ call'[q].rev = call[q].rev
                       /\ call[q].rev # r => call'[q] = call[q]
                       /\ call[q].at = "idle" => call'[q].at = "idle"
  <2> SUFFICES ASSUME NEW q \in Calls
               PROVE  /\ call'[q] \in Call /\ call'[q].rev = call[q].rev
                      /\ call[q].rev # r => call'[q] = call[q]
                      /\ call[q].at = "idle" => call'[q].at = "idle"
    OBVIOUS
  <2>1. call[q] \in Call
    BY DEF Types
  <2>2. /\ [call[q] EXCEPT !.at = "done"] \in Call
        /\ [call[q] EXCEPT !.at = "done"].rev = call[q].rev
    BY <2>1 DEF Call, CallAt
  <2>3. \/ call'[q] = call[q]
        \/ /\ call[q].rev = r /\ call[q].at \in {"putting", "waiting"}
           /\ call'[q] = [call[q] EXCEPT !.at = "done"]
    BY DEF ThreadEnds, Ended
  <2> QED BY <2>1, <2>2, <2>3
<1>4. call' \in [Calls -> Call]
  BY <1>3 DEF ThreadEnds, Ended
<1>5. Types' /\ OwnedInv' /\ OfferedInv'
  <2>1. \A q \in Calls : call'[q].at # "idle" => call'[q].rev \in Revisions
    BY <1>3 DEF Types
  <2> QED BY <1>1, <1>2, <1>4, <2>1, SessionStep DEF ThreadEnds
<1>6. /\ session'[r] = s
      /\ \A x \in Revisions : x # r => session'[x] = session[x]
  BY <1>1, <1>2, SetSession
<1>7. \A x \in Revisions : x # r => Awaited(x) \subseteq Awaited(x)'
  BY <1>3 DEF Awaited
<1>8. QueueInv'
  BY <1>1, <1>6, <1>7, QueueKept
<1> QED BY <1>5, <1>8

-----------------------------------------------------------------------------
(* The calls.  A call that is answered is awaited no more; the others are. *)
LEMMA AnsweredFields ==
    ASSUME Types, NEW r \in Revisions, NEW q \in Awaited(r), Answered(q)
    PROVE  /\ call' \in [Calls -> Call]
           /\ \A x \in Calls : call'[x].at # "idle" => call'[x].rev \in Revisions
           /\ \A x \in Revisions : Awaited(x) \ {q} \subseteq Awaited(x)'
           /\ \A x \in Revisions : x # r => Awaited(x) \subseteq Awaited(x)'
<1>1. q \in Calls /\ call[q].at # "idle" /\ call[q].rev = r
  BY DEF Awaited
<1>2. PICK at \in {call[q].at, "done"} :
         call' = [call EXCEPT ![q] = [call[q] EXCEPT !.at = at]]
  BY DEF Answered
<1>3. at \in CallAt
  BY <1>1, <1>2 DEF Types, Call, CallAt
<1>4. /\ call' \in [Calls -> Call]
      /\ \A x \in Calls : x # q => call'[x] = call[x]
      /\ \A x \in Calls : call'[x].at # "idle" => call'[x].rev \in Revisions
  BY <1>1, <1>2, <1>3, SetAt
<1>5. \A x \in Revisions : Awaited(x) \ {q} \subseteq Awaited(x)'
  BY <1>4 DEF Awaited
<1>6. \A x \in Revisions : x # r => q \notin Awaited(x)
  BY <1>1 DEF Awaited
<1> QED BY <1>4, <1>5, <1>6

LEMMA TailFacts ==
    ASSUME NEW w \in Seq(Calls), w # <<>>
    PROVE  /\ Tail(w) \in Seq(Calls)
           /\ \A i \in 1..Len(Tail(w)) : i + 1 \in 1..Len(w) /\ Tail(w)[i] = w[i + 1]
           /\ Len(w) \in Nat /\ 1 \in 1..Len(w) /\ Head(w) = w[1] /\ Head(w) \in Calls
<1>1. Len(w) \in Nat /\ Len(w) > 0
  BY EmptySeq
<1> QED BY <1>1

(* _dispatch takes the first request off the queue: the others are not it. *)
LEMMA TailKept ==
    ASSUME Types, QueueInv, NEW r \in Revisions, session[r].queue # <<>>
    PROVE  LET w == session[r].queue
           IN /\ Head(w) \in Awaited(r) /\ Head(w) \in Calls /\ Tail(w) \in Seq(Calls)
              /\ \A i \in 1..Len(Tail(w)) : Tail(w)[i] \in Awaited(r) \ {Head(w)}
              /\ \A i, j \in 1..Len(Tail(w)) : Tail(w)[i] = Tail(w)[j] => i = j
<1> DEFINE w == session[r].queue
<1>1. w \in Seq(Calls)
  BY SessionFields
<1>2. /\ \A i \in 1..Len(w) : w[i] \in Awaited(r)
      /\ \A i, j \in 1..Len(w) : w[i] = w[j] => i = j
  BY DEF QueueInv
<1>3. w # <<>>
  OBVIOUS
<1> HIDE DEF w
<1>4. /\ Tail(w) \in Seq(Calls)
      /\ \A i \in 1..Len(Tail(w)) : i + 1 \in 1..Len(w) /\ Tail(w)[i] = w[i + 1]
      /\ Len(w) \in Nat /\ 1 \in 1..Len(w) /\ Head(w) = w[1] /\ Head(w) \in Calls
  BY <1>1, <1>3, TailFacts
<1>5. Head(w) \in Awaited(r)
  BY <1>2, <1>4
<1>6. \A i \in 1..Len(Tail(w)) : Tail(w)[i] \in Awaited(r) \ {Head(w)}
  <2> SUFFICES ASSUME NEW i \in 1..Len(Tail(w))
               PROVE  Tail(w)[i] \in Awaited(r) /\ Tail(w)[i] # Head(w)
    OBVIOUS
  <2>1. i + 1 \in 1..Len(w) /\ Tail(w)[i] = w[i + 1] /\ i \in Nat /\ i >= 1
    BY <1>4
  <2>2. w[i + 1] \in Awaited(r)
    BY <1>2, <2>1
  <2>3. i + 1 # 1
    BY <2>1
  <2>4. w[i + 1] # w[1]
    BY <1>2, <1>4, <2>1, <2>3
  <2> QED BY <1>4, <2>1, <2>2, <2>4
<1>7. \A i, j \in 1..Len(Tail(w)) : Tail(w)[i] = Tail(w)[j] => i = j
  <2> SUFFICES ASSUME NEW i \in 1..Len(Tail(w)), NEW j \in 1..Len(Tail(w)),
                      Tail(w)[i] = Tail(w)[j]
               PROVE  i = j
    OBVIOUS
  <2>1. i + 1 \in 1..Len(w) /\ j + 1 \in 1..Len(w) /\ w[i + 1] = w[j + 1]
    BY <1>4
  <2>2. i + 1 = j + 1
    BY <1>2, <2>1
  <2> QED BY <2>2
<1> QED BY <1>4, <1>5, <1>6, <1>7 DEF w

(* The queue's invariant, when one session changes and the other sessions'   *)
(* requests stay awaited.                                                    *)
LEMMA QueueStep ==
    ASSUME Types, QueueInv, NEW r \in Revisions, NEW s \in Session,
           session' = [session EXCEPT ![r] = s],
           \A x \in Revisions : x # r => Awaited(x) \subseteq Awaited(x)',
           \A i \in 1..Len(s.queue) : s.queue[i] \in Awaited(r)',
           \A i, j \in 1..Len(s.queue) : s.queue[i] = s.queue[j] => i = j,
           s.busy # "none" => /\ s.busy \in Awaited(r)'
                              /\ \A i \in 1..Len(s.queue) : s.queue[i] # s.busy
    PROVE  QueueInv'
<1>1. session'[r] = s /\ \A x \in Revisions : x # r => session'[x] = session[x]
  BY SetSession
<1> SUFFICES ASSUME NEW x \in Revisions
             PROVE  /\ \A i \in 1..Len(session'[x].queue) :
                          session'[x].queue[i] \in Awaited(x)'
                    /\ \A i, j \in 1..Len(session'[x].queue) :
                          session'[x].queue[i] = session'[x].queue[j] => i = j
                    /\ session'[x].busy # "none" =>
                          /\ session'[x].busy \in Awaited(x)'
                          /\ \A i \in 1..Len(session'[x].queue) :
                                session'[x].queue[i] # session'[x].busy
  BY DEF QueueInv
<1>2. CASE x = r
  <2>1. session'[x] = s
    BY <1>1, <1>2
  <2> QED BY <1>2, <2>1
<1>3. CASE x # r
  <2>1. session'[x] = session[x] /\ Awaited(x) \subseteq Awaited(x)'
    BY <1>1, <1>3
  <2>2. /\ \A i \in 1..Len(session[x].queue) : session[x].queue[i] \in Awaited(x)
        /\ \A i, j \in 1..Len(session[x].queue) :
              session[x].queue[i] = session[x].queue[j] => i = j
        /\ session[x].busy # "none" =>
              /\ session[x].busy \in Awaited(x)
              /\ \A i \in 1..Len(session[x].queue) : session[x].queue[i] # session[x].busy
    BY DEF QueueInv
  <2> QED BY <2>1, <2>2
<1> QED BY <1>2, <1>3

LEMMA DispatchKeeps ==
    ASSUME McpInv, NEW r \in Revisions, Dispatch(r)
    PROVE  McpInv'
<1> USE DEF McpInv
<1> DEFINE w == session[r].queue
           q == Head(w)
           s == [session[r] EXCEPT !.queue = Tail(w)]
<1>1. /\ q \in Awaited(r) /\ q \in Calls /\ Tail(w) \in Seq(Calls)
      /\ \A i \in 1..Len(Tail(w)) : Tail(w)[i] \in Awaited(r) \ {q}
      /\ \A i, j \in 1..Len(Tail(w)) : Tail(w)[i] = Tail(w)[j] => i = j
  BY TailKept DEF Dispatch
<1>2. /\ s \in Session /\ s.stopping = session[r].stopping /\ s.thread = session[r].thread
      /\ s.queue = Tail(w) /\ s.busy = session[r].busy
  BY <1>1, SessionFields, QueueFields
<1>3. session[r].busy = "none" /\ UNCHANGED <<managerVars, opener>>
  BY DEF Dispatch
<1>4. IF Stale(q, s)
      THEN session' = [session EXCEPT ![r] = s] /\ Answered(q)
      ELSE session' = [session EXCEPT ![r] = [s EXCEPT !.busy = q]] /\ UNCHANGED call
  BY DEF Dispatch
<1>5. CASE Stale(q, s)
  <2> HIDE DEF s
  <2>1. session' = [session EXCEPT ![r] = s] /\ Answered(q)
    BY <1>4, <1>5
  <2> HIDE DEF q, w
  <2>2. /\ call' \in [Calls -> Call]
        /\ \A x \in Calls : call'[x].at # "idle" => call'[x].rev \in Revisions
        /\ \A x \in Revisions : Awaited(x) \ {q} \subseteq Awaited(x)'
        /\ \A x \in Revisions : x # r => Awaited(x) \subseteq Awaited(x)'
    BY <1>1, <2>1, AnsweredFields
  <2>3. Types' /\ OwnedInv' /\ OfferedInv'
    BY <1>2, <1>3, <2>1, <2>2, SessionStep
  <2>4. \A i \in 1..Len(s.queue) : s.queue[i] \in Awaited(r)'
    BY <1>1, <1>2, <2>2
  <2>5. QueueInv'
    BY <1>1, <1>2, <1>3, <2>1, <2>2, <2>4, QueueStep
  <2> QED BY <2>3, <2>5
<1>6. CASE ~Stale(q, s)
  <2> DEFINE t == [s EXCEPT !.busy = q]
  <2> HIDE DEF s
  <2>1. session' = [session EXCEPT ![r] = t] /\ UNCHANGED call
    BY <1>4, <1>6
  <2>2. /\ t \in Session /\ t.stopping = session[r].stopping /\ t.thread = session[r].thread
        /\ t.queue = Tail(w) /\ t.busy = q
    BY <1>1, <1>2, BusyFields
  <2> HIDE DEF t, q, w
  <2>3. Types' /\ OwnedInv' /\ OfferedInv'
    <3>1. /\ call' \in [Calls -> Call]
          /\ \A x \in Calls : call'[x].at # "idle" => call'[x].rev \in Revisions
      BY <2>1 DEF Types
    <3> QED BY <1>3, <2>1, <2>2, <3>1, SessionStep
  <2>4. \A x \in Revisions : Awaited(x)' = Awaited(x)
    BY <2>1 DEF Awaited
  <2>5. /\ \A i \in 1..Len(t.queue) : t.queue[i] \in Awaited(r)' /\ t.queue[i] # t.busy
        /\ \A i, j \in 1..Len(t.queue) : t.queue[i] = t.queue[j] => i = j
        /\ t.busy \in Awaited(r)'
    BY <1>1, <2>2, <2>4
  <2>6. QueueInv'
    BY <2>1, <2>2, <2>4, <2>5, QueueStep
  <2> QED BY <2>3, <2>6
<1> QED BY <1>5, <1>6

LEMMA ReplyKeeps ==
    ASSUME McpInv, NEW r \in Revisions, Reply(r)
    PROVE  McpInv'
<1> USE DEF McpInv
<1> DEFINE q == session[r].busy
           s == [session[r] EXCEPT !.busy = "none"]
<1>1. /\ q \in Awaited(r)
      /\ \A i \in 1..Len(session[r].queue) : session[r].queue[i] \in Awaited(r) \ {q}
      /\ \A i, j \in 1..Len(session[r].queue) :
            session[r].queue[i] = session[r].queue[j] => i = j
  BY DEF QueueInv, Reply
<1>2. /\ s \in Session /\ s.stopping = session[r].stopping /\ s.thread = session[r].thread
      /\ s.queue = session[r].queue /\ s.busy = "none"
  BY SessionFields, BusyFields
<1>3. session' = [session EXCEPT ![r] = s] /\ Answered(q) /\ UNCHANGED <<managerVars, opener>>
  BY DEF Reply
<1> HIDE DEF s, q
<1>4. /\ call' \in [Calls -> Call]
      /\ \A x \in Calls : call'[x].at # "idle" => call'[x].rev \in Revisions
      /\ \A x \in Revisions : Awaited(x) \ {q} \subseteq Awaited(x)'
      /\ \A x \in Revisions : x # r => Awaited(x) \subseteq Awaited(x)'
  BY <1>1, <1>3, AnsweredFields
<1>5. Types' /\ OwnedInv' /\ OfferedInv'
  BY <1>2, <1>3, <1>4, SessionStep
<1>6. \A i \in 1..Len(s.queue) : s.queue[i] \in Awaited(r)'
  BY <1>1, <1>2, <1>4
<1>7. QueueInv'
  BY <1>1, <1>2, <1>3, <1>4, <1>6, QueueStep
<1> QED BY <1>5, <1>7

(* A step of one caller that leaves it awaited where it was. *)
LEMMA CallKeeps ==
    ASSUME McpInv, NEW q \in Calls, NEW c \in Call, call' = [call EXCEPT ![q] = c],
           UNCHANGED <<managerVars, opener, session>>,
           c.at # "idle" => c.rev \in Revisions,
           \A r \in Revisions : q \in Awaited(r) =>
              c.rev = r /\ (c.at = "waiting" \/ (c.at = "given up" /\ c.late = TRUE))
    PROVE  McpInv'
<1> USE DEF McpInv
<1>1. /\ call' \in [Calls -> Call] /\ call'[q] = c
      /\ \A x \in Calls : x # q => call'[x] = call[x]
  BY DEF Types
<1>2. \A x \in Calls : call'[x].at # "idle" => call'[x].rev \in Revisions
  BY <1>1 DEF Types
<1>3. Types' /\ OwnedInv' /\ OfferedInv'
  BY <1>1, <1>2, CallStep
<1>4. \A r \in Revisions : Awaited(r) \subseteq Awaited(r)'
  BY <1>1 DEF Awaited
<1>5. QueueInv'
  BY <1>4, QueueKept
<1> QED BY <1>3, <1>5

LEMMA LookupKeeps ==
    ASSUME McpInv, NEW q \in Calls, Lookup(q)
    PROVE  McpInv'
<1>1. PICK r \in offered :
         call' = [call EXCEPT ![q] = [NoCall EXCEPT !.at = "found", !.rev = r]]
  BY DEF Lookup, SetCall
<1> DEFINE c == [NoCall EXCEPT !.at = "found", !.rev = r]
<1>2. r \in Revisions /\ r \in 0..MaxRevision
  BY DEF McpInv, Types, Revisions
<1>3. c \in Call /\ c.rev = r
  BY <1>2 DEF NoCall, Call, CallAt
<1>4. call' = [call EXCEPT ![q] = c]
  BY <1>1
<1>5. \A x \in Revisions : q \notin Awaited(x)
  BY DEF Lookup, Awaited
<1> HIDE DEF c
<1> QED BY <1>2, <1>3, <1>4, <1>5, CallKeeps DEF Lookup

LEMMA AtKeeps ==
    ASSUME McpInv, NEW q \in Calls, NEW at \in CallAt, call[q].at \in {"found", "checked"},
           call' = [call EXCEPT ![q] = [call[q] EXCEPT !.at = at]],
           UNCHANGED <<managerVars, opener, session>>
    PROVE  McpInv'
<1> DEFINE c == [call[q] EXCEPT !.at = at]
<1>1. call[q] \in Call /\ call[q].rev \in Revisions
  BY DEF McpInv, Types
<1>2. c \in Call /\ c.rev = call[q].rev
  BY <1>1 DEF Call
<1>3. \A x \in Revisions : q \notin Awaited(x)
  BY DEF Awaited
<1> HIDE DEF c
<1>4. call' = [call EXCEPT ![q] = c]
  BY DEF c
<1> QED BY <1>1, <1>2, <1>3, <1>4, CallKeeps

LEMMA InvokeKeeps ==
    ASSUME McpInv, NEW q \in Calls, Invoke(q)
    PROVE  McpInv'
<1>1. PICK at \in {"checked", "done"} :
         call' = [call EXCEPT ![q] = [call[q] EXCEPT !.at = at]]
  BY DEF Invoke, SetCall
<1>2. at \in CallAt
  BY DEF CallAt
<1> QED BY <1>1, <1>2, AtKeeps DEF Invoke

LEMMA RequestKeeps ==
    ASSUME McpInv, NEW q \in Calls, Request(q)
    PROVE  McpInv'
<1>1. PICK at \in {"putting", "done"} :
         call' = [call EXCEPT ![q] = [call[q] EXCEPT !.at = at]]
  BY DEF Request, SetCall
<1>2. at \in CallAt
  BY DEF CallAt
<1> QED BY <1>1, <1>2, AtKeeps DEF Request

LEMMA ExpireKeeps ==
    ASSUME McpInv, NEW q \in Calls, Expire(q)
    PROVE  McpInv'
<1> DEFINE c == [call[q] EXCEPT !.late = TRUE]
<1>1. call[q] \in Call /\ call[q].rev \in Revisions /\ call[q].at \in {"putting", "waiting"}
  BY DEF McpInv, Types, Expire
<1>2. c \in Call /\ c.rev = call[q].rev /\ c.at = call[q].at
  BY <1>1 DEF Call
<1>3. \A x \in Revisions : q \in Awaited(x) => call[q].rev = x /\ call[q].at = "waiting"
  BY <1>1 DEF Awaited
<1>4. call' = [call EXCEPT ![q] = c]
  BY DEF Expire
<1> HIDE DEF c
<1> QED BY <1>1, <1>2, <1>3, <1>4, CallKeeps DEF Expire

LEMMA GiveUpKeeps ==
    ASSUME McpInv, NEW q \in Calls, GiveUp(q)
    PROVE  McpInv'
<1> DEFINE c == [call[q] EXCEPT !.at = "given up"]
<1>1. /\ call[q] \in Call /\ call[q].rev \in Revisions
      /\ call[q].late = TRUE /\ call[q].at \in {"putting", "waiting"}
  BY DEF McpInv, Types, GiveUp, Call
<1>2. c \in Call /\ c.rev = call[q].rev /\ c.at = "given up" /\ c.late = call[q].late
  BY <1>1 DEF Call, CallAt
<1>3. \A x \in Revisions : q \in Awaited(x) => call[q].rev = x
  BY DEF Awaited
<1>4. call' = [call EXCEPT ![q] = c]
  BY DEF GiveUp
<1> HIDE DEF c
<1> QED BY <1>1, <1>2, <1>3, <1>4, CallKeeps DEF GiveUp

LEMMA LoopDropsKeeps ==
    ASSUME McpInv, NEW q \in Calls, LoopDrops(q)
    PROVE  McpInv'
<1> DEFINE c == [call[q] EXCEPT !.dropped = TRUE]
<1>1. call[q] \in Call /\ call[q].rev \in Revisions /\ call[q].at = "given up"
  BY DEF McpInv, Types, LoopDrops
<1>2. c \in Call /\ c.rev = call[q].rev /\ c.at = call[q].at /\ c.late = call[q].late
  BY <1>1 DEF Call
<1>3. \A x \in Revisions : q \in Awaited(x) => call[q].rev = x /\ call[q].late = TRUE
  BY <1>1 DEF Awaited
<1>4. call' = [call EXCEPT ![q] = c]
  BY DEF LoopDrops
<1> HIDE DEF c
<1> QED BY <1>1, <1>2, <1>3, <1>4, CallKeeps DEF LoopDrops

(* A request joins the end of the queue: it was putting, so it was not there. *)
LEMMA PutKeeps ==
    ASSUME McpInv, NEW q \in Calls, Put(q)
    PROVE  McpInv'
<1> USE DEF McpInv
<1>1. PICK r \in Revisions : call[q].rev = r /\ call[q].at = "putting"
  BY DEF Types, Put
<1> DEFINE w == session[r].queue
           v == Append(w, q)
           s == [session[r] EXCEPT !.queue = v]
<1>2. w \in Seq(Calls)
  BY <1>1, SessionFields
<1>3. /\ v \in Seq(Calls) /\ Len(v) = Len(w) + 1 /\ Len(w) \in Nat /\ v[Len(w) + 1] = q
      /\ \A i \in 1..Len(w) : v[i] = w[i]
  <2> HIDE DEF w
  <2> QED BY <1>2
<1>4. /\ s \in Session /\ s.stopping = session[r].stopping /\ s.thread = session[r].thread
      /\ s.queue = v /\ s.busy = session[r].busy
  <2>1. session[r] \in Session
    BY SessionFields
  <2> HIDE DEF v
  <2> QED BY <1>3, <2>1, QueueFields
<1>5. session' = [session EXCEPT ![r] = s]
  BY <1>1 DEF Put
<1>6. /\ call' \in [Calls -> Call]
      /\ call'[q].at = "waiting" /\ call'[q].rev = r
      /\ \A x \in Calls : x # q => call'[x] = call[x]
      /\ \A x \in Calls : call'[x].at # "idle" => call'[x].rev \in Revisions
  BY <1>1, SetAt DEF Put, SetCall, CallAt
<1>7. \A x \in Revisions : q \notin Awaited(x)
  BY <1>1 DEF Awaited
<1>8. \A x \in Revisions : Awaited(x) \subseteq Awaited(x)'
  BY <1>6, <1>7 DEF Awaited
<1>9. q \in Awaited(r)'
  BY <1>6 DEF Awaited
<1>10. UNCHANGED <<managerVars, opener>>
  BY DEF Put
<1>11. /\ \A i \in 1..Len(w) : w[i] \in Awaited(r)
       /\ \A i, j \in 1..Len(w) : w[i] = w[j] => i = j
       /\ session[r].busy # "none" => /\ session[r].busy \in Awaited(r)
                                      /\ \A i \in 1..Len(w) : w[i] # session[r].busy
  BY <1>1 DEF QueueInv
<1> HIDE DEF s, v, w
<1>12. Types' /\ OwnedInv' /\ OfferedInv'
  BY <1>1, <1>4, <1>5, <1>6, <1>10, SessionStep
<1>13. \A i \in 1..Len(v) : i \in 1..Len(w) \/ i = Len(w) + 1
  BY <1>3
<1>14. \A i \in 1..Len(w) : v[i] \in Awaited(r) /\ v[i] # q
  BY <1>1, <1>3, <1>7, <1>11
<1>15. \A i \in 1..Len(v) : v[i] \in Awaited(r)'
  <2> SUFFICES ASSUME NEW i \in 1..Len(v) PROVE v[i] \in Awaited(r)'
    OBVIOUS
  <2>1. CASE i \in 1..Len(w)
    BY <1>1, <1>8, <1>14, <2>1
  <2>2. CASE i = Len(w) + 1
    BY <1>3, <1>9, <2>2
  <2> QED BY <1>13, <2>1, <2>2
<1>16. \A i, j \in 1..Len(v) : v[i] = v[j] => i = j
  <2> SUFFICES ASSUME NEW i \in 1..Len(v), NEW j \in 1..Len(v), v[i] = v[j] PROVE i = j
    OBVIOUS
  <2>1. CASE i \in 1..Len(w) /\ j \in 1..Len(w)
    BY <1>3, <1>11, <2>1
  <2>2. CASE i \in 1..Len(w) /\ j = Len(w) + 1
    BY <1>3, <1>14, <2>2
  <2>3. CASE i = Len(w) + 1 /\ j \in 1..Len(w)
    BY <1>3, <1>14, <2>3
  <2>4. CASE i = Len(w) + 1 /\ j = Len(w) + 1
    BY <2>4
  <2> QED BY <1>13, <2>1, <2>2, <2>3, <2>4
<1>17. session[r].busy # "none" => /\ session[r].busy \in Awaited(r)'
                                   /\ \A i \in 1..Len(v) : v[i] # session[r].busy
  <2> SUFFICES ASSUME session[r].busy # "none"
               PROVE  /\ session[r].busy \in Awaited(r)'
                      /\ \A i \in 1..Len(v) : v[i] # session[r].busy
    OBVIOUS
  <2>1. session[r].busy \in Awaited(r) /\ session[r].busy # q
    BY <1>1, <1>7, <1>11
  <2>2. \A i \in 1..Len(w) : v[i] # session[r].busy
    BY <1>3, <1>11
  <2>3. v[Len(w) + 1] # session[r].busy
    BY <1>3, <2>1
  <2> QED BY <1>1, <1>8, <1>13, <2>1, <2>2, <2>3
<1>18. QueueInv'
  <2>1. /\ \A i \in 1..Len(s.queue) : s.queue[i] \in Awaited(r)'
        /\ \A i, j \in 1..Len(s.queue) : s.queue[i] = s.queue[j] => i = j
        /\ s.busy # "none" => /\ s.busy \in Awaited(r)'
                              /\ \A i \in 1..Len(s.queue) : s.queue[i] # s.busy
    BY <1>4, <1>15, <1>16, <1>17
  <2>2. s \in Session /\ Types /\ QueueInv
    BY <1>4
  <2> QED BY <1>5, <1>8, <2>1, <2>2, QueueStep
<1> QED BY <1>12, <1>18

-----------------------------------------------------------------------------
LEMMA InitHolds ==
    ASSUME McpInit
    PROVE  McpInv
<1>1. AtRest \in Opener /\ AtRest.at = "idle"
  BY DEF AtRest, Opener, OpenerAt
<1>2. NoCall \in Call /\ NoCall.at = "idle"
  BY DEF NoCall, Call, CallAt
<1> DEFINE w == <<>>
<1>3. w \in Seq(Calls) /\ Len(w) = 0
  OBVIOUS
<1>4. NewSession.thread = "none" /\ NewSession.queue = w /\ NewSession.busy = "none"
  BY DEF NewSession
<1>5. NewSession \in Session
  <2>1. NewSession = [thread |-> "none", stopping |-> FALSE, cancelled |-> FALSE,
                      ready |-> "no", queue |-> w, busy |-> "none"]
    BY DEF NewSession
  <2> HIDE DEF w
  <2> QED BY <1>3, <2>1 DEF Session
<1> HIDE DEF w
<1>6. Types
  <2>1. 0 \in 0..MaxRevision /\ {} \in SUBSET Revisions
    OBVIOUS
  <2>2. /\ opener \in [Openers -> Opener] /\ \A o \in Openers : opener[o].at = "idle"
        /\ session \in [Revisions -> Session]
        /\ call \in [Calls -> Call] /\ \A q \in Calls : call[q].at = "idle"
    BY <1>1, <1>2, <1>5 DEF McpInit
  <2> QED BY <2>1, <2>2 DEF McpInit, Types
<1>7. OwnedInv
  BY <1>1, <1>4 DEF McpInit, OwnedInv
<1>8. OfferedInv
  BY DEF McpInit, OfferedInv
<1>9. \A r \in Revisions : session[r].queue = w /\ session[r].busy = "none"
  BY <1>4 DEF McpInit
<1>10. QueueInv
  BY <1>3, <1>9 DEF QueueInv
<1> QED BY <1>6, <1>7, <1>8, <1>10 DEF McpInv

LEMMA NextKeeps ==
    ASSUME McpInv, [McpNext]_mcpVars
    PROVE  McpInv'
<1>1. CASE Save \/ Disable \/ CloseManager
  BY <1>1, SaveKeeps, DisableKeeps, CloseManagerKeeps
<1>2. ASSUME NEW o \in Openers,
             Enable(o) \/ Hold(o) \/ Connect(o) \/ Start(o) \/ Wait(o)
                \/ Register(o) \/ Fail(o) \/ Report(o)
      PROVE  McpInv'
  BY <1>2, EnableKeeps, HoldKeeps, ConnectKeeps, StartKeeps, WaitKeeps, RegisterKeeps,
     FailKeeps, ReportKeeps
<1>3. ASSUME NEW r \in Revisions,
             ThreadLoop(r) \/ ThreadCheck(r) \/ ThreadOpen(r) \/ ThreadEnds(r)
                \/ Dispatch(r) \/ Reply(r)
      PROVE  McpInv'
  BY <1>3, ThreadLoopKeeps, ThreadCheckKeeps, ThreadOpenKeeps, ThreadEndsKeeps,
     DispatchKeeps, ReplyKeeps
<1>4. ASSUME NEW q \in Calls,
             Lookup(q) \/ Invoke(q) \/ Request(q) \/ Put(q) \/ Expire(q)
                \/ GiveUp(q) \/ LoopDrops(q)
      PROVE  McpInv'
  BY <1>4, LookupKeeps, InvokeKeeps, RequestKeeps, PutKeeps, ExpireKeeps, GiveUpKeeps,
     LoopDropsKeeps
<1>5. CASE UNCHANGED mcpVars
  <2>1. Types'
    BY <1>5 DEF mcpVars, McpInv, Types
  <2>2. OwnedInv' /\ OfferedInv'
    BY <1>5 DEF mcpVars, McpInv, OwnedInv, Owned, OfferedInv
  <2>3. QueueInv'
    BY <1>5, QueueSame DEF mcpVars, McpInv
  <2> QED BY <2>1, <2>2, <2>3 DEF McpInv
<1> QED BY <1>1, <1>2, <1>3, <1>4, <1>5 DEF McpNext

(* The inductive invariant holds of every behaviour. *)
LEMMA McpInvariant == McpSpec => []McpInv
<1>1. McpInit => McpInv
  BY InitHolds
<1>2. McpInv /\ [McpNext]_mcpVars => McpInv'
  BY NextKeeps
<1> QED BY <1>1, <1>2, PTL DEF McpSpec

(* Whatever the interleaving of enabling threads, the operator and the       *)
(* connections' threads, a session that runs and was not told to stop is the *)
(* one the manager holds for the current revision, and only that revision's  *)
(* tools can be called (MCPManager.enable, disable, close, _revoke).         *)
THEOREM SessionsAreOwned == McpSpec => []McpSafe
<1>1. McpInv => McpSafe
  <2> SUFFICES ASSUME McpInv PROVE McpSafe
    OBVIOUS
  <2>1. \A r \in Revisions : session[r].queue \in Seq(Calls)
    BY SessionFields DEF McpInv
  <2>2. McpTypeOK
    BY <2>1 DEF McpInv, Types, McpTypeOK
  <2>3. offered # {} => revision # 0
    <3> SUFFICES ASSUME NEW r \in offered PROVE revision # 0
      OBVIOUS
    <3>1. r = revision /\ r \in 1..MaxRevision
      BY DEF McpInv, OfferedInv, Types, Revisions
    <3> QED BY <3>1
  <2>4. SessionOwned
    BY <2>3 DEF McpInv, OwnedInv, Owned, OfferedInv, SessionOwned
  <2> QED BY <2>2, <2>4 DEF McpSafe
<1> QED BY <1>1, McpInvariant, PTL

-----------------------------------------------------------------------------
(* Only _dispatch gives the server a request. *)
BusyKept == \A r \in Revisions : session'[r].busy \in {"none", session[r].busy}

LEMMA SetBusy ==
    ASSUME Types, NEW r \in Revisions, NEW s \in Session,
           session' = [session EXCEPT ![r] = s], s.busy \in {"none", session[r].busy}
    PROVE  BusyKept
BY SetSession DEF BusyKept

LEMMA RevokeStartsNone ==
    ASSUME Types, Revoke
    PROVE  BusyKept
<1>1. CASE held = 0
  BY <1>1 DEF Revoke, BusyKept
<1>2. CASE held # 0
  <2>1. held \in Revisions
    BY <1>2 DEF Types, Revisions
  <2>2. Closed(session[held]) \in Session /\ Closed(session[held]).busy = session[held].busy
    BY <2>1, SessionFields, ClosedFields
  <2>3. session' = [session EXCEPT ![held] = Closed(session[held])]
    BY <1>2 DEF Revoke
  <2> QED BY <2>1, <2>2, <2>3, SetBusy
<1> QED BY <1>1, <1>2

LEMMA ManagerStartsNone ==
    ASSUME McpInv, Save \/ Disable \/ CloseManager
    PROVE  BusyKept
<1>1. CASE UNCHANGED session
  BY <1>1 DEF BusyKept
<1>2. CASE Revoke
  BY <1>2, RevokeStartsNone DEF McpInv
<1> QED BY <1>1, <1>2 DEF Save, Disable, CloseManager

LEMMA OpenerStartsNone ==
    ASSUME McpInv, NEW o \in Openers,
           Enable(o) \/ Hold(o) \/ Connect(o) \/ Start(o) \/ Wait(o)
              \/ Register(o) \/ Fail(o) \/ Report(o)
    PROVE  BusyKept
<1>1. CASE Enable(o)
  BY <1>1, RevokeStartsNone DEF McpInv, Enable
<1>2. CASE Hold(o) \/ Connect(o) \/ Wait(o) \/ Register(o) \/ Report(o)
  <2>1. UNCHANGED session
    BY <1>2 DEF Hold, Connect, Wait, Register, Report
  <2> QED BY <2>1 DEF BusyKept
<1>3. CASE Start(o)
  <2>1. opener[o].rev \in Revisions
    BY <1>3, Opened DEF McpInv, Start
  <2> DEFINE s == [session[opener[o].rev] EXCEPT !.thread = "started"]
  <2>2. s \in Session /\ s.busy = session[opener[o].rev].busy
    BY <2>1, SessionFields, ThreadFields DEF McpInv
  <2>3. session' = [session EXCEPT ![opener[o].rev] = s]
    BY <1>3 DEF Start
  <2> HIDE DEF s
  <2> QED BY <2>1, <2>2, <2>3, SetBusy DEF McpInv
<1>4. CASE Fail(o)
  <2>1. opener[o].rev \in Revisions
    BY <1>4, Opened DEF McpInv, Fail
  <2> DEFINE s == Closed(session[opener[o].rev])
  <2>2. s \in Session /\ s.busy = session[opener[o].rev].busy
    BY <2>1, SessionFields, ClosedFields DEF McpInv
  <2>3. session' = [session EXCEPT ![opener[o].rev] = s]
    BY <1>4 DEF Fail
  <2> HIDE DEF s
  <2> QED BY <2>1, <2>2, <2>3, SetBusy DEF McpInv
<1> QED BY <1>1, <1>2, <1>3, <1>4

LEMMA ThreadStartsNone ==
    ASSUME McpInv, NEW r \in Revisions,
           ThreadLoop(r) \/ ThreadCheck(r) \/ ThreadOpen(r) \/ ThreadEnds(r) \/ Reply(r)
    PROVE  BusyKept
<1>1. PICK s : /\ session' = [session EXCEPT ![r] = s]
               /\ \/ s = [session[r] EXCEPT !.thread = "looped"]
                  \/ s = [session[r] EXCEPT !.thread = "opening"]
                  \/ s = [session[r] EXCEPT !.thread = "serving", !.ready = "ok"]
                  \/ s = [session[r] EXCEPT !.busy = "none"]
                  \/ s = Dead(session[r])
  <2>1. CASE ThreadLoop(r)
    BY <2>1 DEF ThreadLoop
  <2>2. CASE ThreadCheck(r)
    BY <2>2 DEF ThreadCheck
  <2>3. CASE ThreadOpen(r)
    BY <2>3 DEF ThreadOpen
  <2>4. CASE ThreadEnds(r)
    BY <2>4 DEF ThreadEnds
  <2>5. CASE Reply(r)
    BY <2>5 DEF Reply
  <2> QED BY <2>1, <2>2, <2>3, <2>4, <2>5
<1>2. s \in Session /\ s.busy \in {"none", session[r].busy}
  <2>1. session[r] \in Session
    BY SessionFields DEF McpInv
  <2>2. CASE s = [session[r] EXCEPT !.thread = "looped"]
    BY <2>1, <2>2, ThreadFields
  <2>3. CASE s = [session[r] EXCEPT !.thread = "opening"]
    BY <2>1, <2>3, ThreadFields
  <2>4. CASE s = [session[r] EXCEPT !.thread = "serving", !.ready = "ok"]
    BY <2>1, <2>4, ServingFields
  <2>5. CASE s = [session[r] EXCEPT !.busy = "none"]
    BY <2>1, <2>5, BusyFields
  <2>6. CASE s = Dead(session[r])
    BY <2>1, <2>6, DeadFields
  <2> QED BY <1>1, <2>2, <2>3, <2>4, <2>5, <2>6
<1> QED BY <1>1, <1>2, SetBusy DEF McpInv

LEMMA CallStartsNone ==
    ASSUME McpInv, NEW q \in Calls,
           Lookup(q) \/ Invoke(q) \/ Request(q) \/ Put(q) \/ Expire(q)
              \/ GiveUp(q) \/ LoopDrops(q)
    PROVE  BusyKept
<1>1. CASE Put(q)
  <2>1. PICK r \in Revisions : call[q].rev = r
    BY <1>1 DEF McpInv, Types, Put
  <2> DEFINE w == Append(session[r].queue, q)
             s == [session[r] EXCEPT !.queue = w]
  <2>2. session' = [session EXCEPT ![r] = s]
    BY <1>1, <2>1 DEF Put
  <2>3. w \in Seq(Calls)
    BY SessionFields DEF McpInv
  <2> HIDE DEF w
  <2>4. s \in Session /\ s.busy = session[r].busy
    BY <2>3, SessionFields, QueueFields DEF McpInv
  <2> HIDE DEF s
  <2> QED BY <2>2, <2>4, SetBusy DEF McpInv
<1>2. CASE Lookup(q) \/ Invoke(q) \/ Request(q) \/ Expire(q) \/ GiveUp(q) \/ LoopDrops(q)
  <2>1. UNCHANGED session
    BY <1>2 DEF Lookup, Invoke, Request, Expire, GiveUp, LoopDrops
  <2> QED BY <2>1 DEF BusyKept
<1> QED BY <1>1, <1>2

LEMMA DispatchStartsAwaited ==
    ASSUME McpInv, NEW r \in Revisions, Dispatch(r)
    PROVE  \A x \in Revisions : session'[x].busy \notin {"none", session[x].busy} =>
                                   call[session'[x].busy].at = "waiting"
<1> DEFINE w == session[r].queue
           q == Head(w)
           s == [session[r] EXCEPT !.queue = Tail(w)]
           t == [s EXCEPT !.busy = q]
<1>1. q \in Awaited(r) /\ q \in Calls /\ Tail(w) \in Seq(Calls)
  BY TailKept DEF Dispatch, McpInv
<1>2. s \in Session /\ s.busy = session[r].busy
  BY <1>1, SessionFields, QueueFields DEF McpInv
<1>3. IF Stale(q, s) THEN session' = [session EXCEPT ![r] = s]
                     ELSE session' = [session EXCEPT ![r] = t]
  BY DEF Dispatch
<1> HIDE DEF s
<1>4. t \in Session /\ t.busy = q
  BY <1>1, <1>2, BusyFields
<1> HIDE DEF t
<1>5. CASE Stale(q, s)
  BY <1>2, <1>3, <1>5, SetBusy DEF McpInv, BusyKept
<1>6. CASE ~Stale(q, s)
  <2>1. session'[r] = t /\ \A x \in Revisions : x # r => session'[x] = session[x]
    BY <1>3, <1>4, <1>6, SetSession DEF McpInv
  <2>2. call[q].at = "waiting"
    BY <1>1, <1>6 DEF Stale, Awaited
  <2> QED BY <1>4, <2>1, <2>2
<1> QED BY <1>5, <1>6

(* No request starts on the server once its caller has given up: _dispatch   *)
(* refuses what is past its deadline, and whoever gives up is past it        *)
(* (MCPConnection.request, _dispatch).                                       *)
THEOREM GivenUpIsNotStarted == McpSpec => GivenUpNotStarted
<1> DEFINE Allowed == \A r \in Revisions : session'[r].busy \notin {"none", session[r].busy} =>
                                              call[session'[r].busy].at = "waiting"
<1>1. ASSUME McpInv, McpNext PROVE Allowed
  <2>1. CASE Save \/ Disable \/ CloseManager
    BY <1>1, <2>1, ManagerStartsNone DEF BusyKept
  <2>2. ASSUME NEW o \in Openers,
               Enable(o) \/ Hold(o) \/ Connect(o) \/ Start(o) \/ Wait(o)
                  \/ Register(o) \/ Fail(o) \/ Report(o)
        PROVE  Allowed
    BY <1>1, <2>2, OpenerStartsNone DEF BusyKept
  <2>3. ASSUME NEW r \in Revisions,
               ThreadLoop(r) \/ ThreadCheck(r) \/ ThreadOpen(r) \/ ThreadEnds(r) \/ Reply(r)
        PROVE  Allowed
    BY <1>1, <2>3, ThreadStartsNone DEF BusyKept
  <2>4. ASSUME NEW r \in Revisions, Dispatch(r)
        PROVE  Allowed
    BY <1>1, <2>4, DispatchStartsAwaited
  <2>5. ASSUME NEW q \in Calls,
               Lookup(q) \/ Invoke(q) \/ Request(q) \/ Put(q) \/ Expire(q)
                  \/ GiveUp(q) \/ LoopDrops(q)
        PROVE  Allowed
    BY <1>1, <2>5, CallStartsNone DEF BusyKept
  <2> QED BY <1>1, <2>1, <2>2, <2>3, <2>4, <2>5 DEF McpNext
<1>2. McpInv /\ [McpNext]_mcpVars => [Allowed]_mcpVars
  BY <1>1
<1> QED BY <1>2, McpInvariant, PTL DEF McpSpec, GivenUpNotStarted
=============================================================================
