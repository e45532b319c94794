--------------------------- MODULE ServicesProofs ---------------------------
(***************************************************************************)
(* Proofs about the services a task works with: the skill library, the     *)
(* event bus with its log and its view, and the model router, for any      *)
(* number of curators, publishers and callers and any bounds.              *)
(*                                                                         *)
(* Skills.  A proposal has at most one claim to a skill: a curator about   *)
(* to create it, or one id, under which a row is stored or held by         *)
(* curators who read it.  Everybody who holds a row holds the same version *)
(* of it, so writing it back, even after a delete, alters nothing but the  *)
(* status.                                                                 *)
(*                                                                         *)
(* Events.  Every event has its own number, so what is stored, taken back  *)
(* or being delivered is told apart; a thread's event is stored exactly    *)
(* when its delivery is past the log, and an open failure is what the view *)
(* shows.                                                                  *)
(*                                                                         *)
(* Models.  A profile belongs to the id of its provider and a missing one  *)
(* denies everything, so whatever a scan reads of tables that are being    *)
(* replaced, it ranks no provider whose own profile would refuse; and a    *)
(* call that no switch met scans the table it started with.                *)
(***************************************************************************)
EXTENDS Skills, Events, Models, FiniteSetTheorems, SequenceTheorems, TLAPS

-----------------------------------------------------------------------------
(* Skills *)

SkillRows == [ver : 1..MaxVersion, status : SkillStatus, tools : ToolSets,
              origin : Candidates \cup {"hand", "version"}]

Holding == [at : {"idle", "create", "write", "build"}, id : 0..MaxSkills,
            row : SkillRows \cup {NoSkill}]

SkillsTypes ==
    /\ skill \in [Ids -> SkillRows \cup {NoSkill}]
    /\ created \in 0..MaxSkills
    /\ candidate \in [Candidates -> ToolSets \cup {"none"}]
    /\ verdict \in [Candidates -> {"none", "approved", "rejected"}]
    /\ curator \in [Curators -> Holding]

(* The curator read the row of that id. *)
HasRead(u) == curator[u].at \in {"write", "build"}

(* Only ids that were given out are used, and a call in progress has a row. *)
IdsGivenOut ==
    /\ \A i \in Ids : skill[i] # NoSkill => i <= created
    /\ \A u \in Curators :
          /\ curator[u].at # "idle" => curator[u].row \in SkillRows
          /\ HasRead(u) => curator[u].id \in 1..created

SameVersion(a, b) == a.ver = b.ver /\ a.tools = b.tools /\ a.origin = b.origin

(* Whoever read a row has the version that is stored, if it still is, and    *)
(* the one everybody else read.                                              *)
ReadsAgree ==
    \A u \in Curators : HasRead(u) =>
        /\ skill[curator[u].id] # NoSkill =>
              SameVersion(curator[u].row, skill[curator[u].id])
        /\ \A v \in Curators : HasRead(v) /\ curator[v].id = curator[u].id =>
              SameVersion(curator[u].row, curator[v].row)

(* The claims a proposal has: the rows made of it, stored or read, have one  *)
(* id, and while a curator is about to create one there is no other.         *)
StoredOnce ==
    \A p \in Candidates : \A i, j \in Ids :
        skill[i].origin = p /\ skill[j].origin = p => i = j
ReadOnce ==
    \A p \in Candidates : \A u \in Curators : HasRead(u) /\ curator[u].row.origin = p =>
        /\ \A i \in Ids : skill[i].origin = p => i = curator[u].id
        /\ \A v \in Curators : HasRead(v) /\ curator[v].row.origin = p =>
              curator[v].id = curator[u].id
CreatedOnce ==
    \A p \in Candidates : \A u \in Curators :
        curator[u].at = "create" /\ curator[u].row.origin = p =>
            /\ \A i \in Ids : skill[i].origin # p
            /\ \A v \in Curators : v # u => curator[v].row.origin # p

(* A proposal that waits is undecided, and one that was not approved has no  *)
(* claim at all.                                                             *)
Undecided ==
    \A p \in Candidates :
        /\ candidate[p] # "none" => verdict[p] = "none"
        /\ verdict[p] # "approved" =>
              /\ \A i \in Ids : skill[i].origin # p
              /\ \A u \in Curators : curator[u].row.origin # p

SkillsInv == /\ SkillsTypes /\ IdsGivenOut /\ ReadsAgree
             /\ StoredOnce /\ ReadOnce /\ CreatedOnce /\ Undecided

LEMMA NoSkillFacts ==
    /\ NoSkill \notin SkillRows
    /\ NoSkill.origin = "none" /\ NoSkill.status = "none"
    /\ AtRest \in Holding
    /\ AtRest.at = "idle" /\ AtRest.row = NoSkill
    /\ \A p \in Candidates : NoSkill.origin # p
BY SkillsAssumption DEF NoSkill, AtRest, SkillRows, Holding

LEMMA SkillsInitHolds == SkillsInit => SkillsInv
BY NoSkillFacts, SkillsAssumption
   DEF SkillsInit, SkillsInv, SkillsTypes, IdsGivenOut, ReadsAgree, StoredOnce, ReadOnce,
       CreatedOnce, Undecided, HasRead, Ids

(* A row stored under a new id: nobody has read it, and it is the only claim *)
(* of the proposal it is made of, if it is made of one.                      *)
LEMMA CreateKeeps ==
    ASSUME SkillsInv, NEW row \in SkillRows, CreateRow(row),
           UNCHANGED <<candidate, verdict>>,
           \/ UNCHANGED curator /\ row.origin \notin Candidates
           \/ \E u \in Curators : /\ curator[u].at = "create" /\ curator[u].row = row
                                  /\ curator' = [curator EXCEPT ![u] = AtRest]
    PROVE  SkillsInv'
<1> USE DEF SkillsInv, SkillsTypes, HasRead, Ids
<1>1. /\ created + 1 \in Ids /\ skill[created + 1] = NoSkill
      /\ created' = created + 1 /\ skill' = [skill EXCEPT ![created + 1] = row]
  BY SkillsAssumption DEF CreateRow, IdsGivenOut
<1>2. \A v \in Curators : curator'[v] = curator[v] \/ curator'[v] = AtRest
  OBVIOUS
<1>3. SkillsTypes'
  <2>1. skill' \in [Ids -> SkillRows \cup {NoSkill}]
    BY <1>1
  <2>2. created' \in 0..MaxSkills
    BY <1>1, SkillsAssumption
  <2>3. curator' \in [Curators -> Holding]
    BY NoSkillFacts
  <2> QED BY <2>1, <2>2, <2>3
<1>4. IdsGivenOut'
  BY <1>1, <1>2, NoSkillFacts, SkillsAssumption DEF IdsGivenOut
<1>5. ReadsAgree'
  BY <1>1, <1>2, NoSkillFacts, SkillsAssumption DEF ReadsAgree, IdsGivenOut
<1>6. row.origin \notin Candidates \/ \A i \in Ids : skill[i].origin # row.origin
  BY DEF CreatedOnce
<1>7. StoredOnce'
  BY <1>1, <1>6 DEF StoredOnce
<1>8. ReadOnce'
  BY <1>1, <1>2, <1>6, NoSkillFacts DEF ReadOnce, CreatedOnce
<1>9. CreatedOnce'
  BY <1>1, <1>2, <1>6, NoSkillFacts DEF CreatedOnce
<1>10. Undecided'
  BY <1>1, <1>2, <1>6, NoSkillFacts DEF Undecided
<1> QED BY <1>3, <1>4, <1>5, <1>7, <1>8, <1>9, <1>10

(* set_status and lookup read a row that is stored. *)
LEMMA ReadKeeps ==
    ASSUME SkillsInv, NEW u \in Curators, NEW i \in Ids, NEW at \in {"write", "build"},
           skill[i] # NoSkill, curator[u] = AtRest, NEW row \in SkillRows,
           SameVersion(row, skill[i]),
           Busy(u, at, i, row), UNCHANGED <<skill, created, candidate, verdict>>
    PROVE  SkillsInv'
<1> USE DEF SkillsInv, SkillsTypes, HasRead, Ids
<1>1. /\ curator'[u] = [at |-> at, id |-> i, row |-> row]
      /\ \A v \in Curators : v # u => curator'[v] = curator[v]
      /\ curator' \in [Curators -> Holding]
      /\ i \in 1..created
  BY SkillsAssumption DEF Busy, Holding, IdsGivenOut
<1>2. SkillsTypes'
  BY <1>1
<1>3. IdsGivenOut'
  BY <1>1 DEF IdsGivenOut
<1>4. ReadsAgree'
  BY <1>1 DEF ReadsAgree, SameVersion
<1>5. StoredOnce'
  BY DEF StoredOnce
<1>6. ReadOnce'
  BY <1>1 DEF ReadOnce, StoredOnce, SameVersion
<1>7. CreatedOnce'
  BY <1>1 DEF CreatedOnce, SameVersion
<1>8. Undecided'
  BY <1>1 DEF Undecided, SameVersion
<1> QED BY <1>2, <1>3, <1>4, <1>5, <1>6, <1>7, <1>8

LEMMA StatusKeeps ==
    ASSUME SkillsInv, NEW u \in Curators, NEW i \in Ids, NEW status \in SkillStatus,
           SetStatus(u, i, status)
    PROVE  SkillsInv'
<1> DEFINE row == [skill[i] EXCEPT !.status = status]
<1>1. skill[i] \in SkillRows
  BY DEF SetStatus, SkillsInv, SkillsTypes
<1>2. row \in SkillRows /\ SameVersion(row, skill[i])
  BY <1>1 DEF SkillRows, SameVersion
<1> QED BY <1>2, ReadKeeps DEF SetStatus

LEMMA LookUpKeeps ==
    ASSUME SkillsInv, NEW u \in Curators, NEW i \in Ids, LookUp(u, i)
    PROVE  SkillsInv'
<1>1. skill[i] \in SkillRows /\ skill[i] # NoSkill
  BY NoSkillFacts DEF LookUp, Highest, SkillsInv, SkillsTypes
<1>2. SameVersion(skill[i], skill[i])
  BY DEF SameVersion
<1> QED BY <1>1, <1>2, ReadKeeps DEF LookUp

LEMMA WriteKeeps ==
    ASSUME SkillsInv, NEW u \in Curators, WriteSkill(u)
    PROVE  /\ SkillsInv'
           /\ \A i \in Ids : skill[i] # NoSkill =>
                 SameVersion(skill[i], skill'[i]) \/ skill'[i] = NoSkill
<1> USE DEF SkillsInv, SkillsTypes, HasRead, Ids
<1> DEFINE i == curator[u].id
           row == curator[u].row
<1>1. /\ i \in Ids /\ i <= created /\ row \in SkillRows /\ row # NoSkill
      /\ skill' = [skill EXCEPT ![i] = row]
      /\ UNCHANGED <<created, candidate, verdict>>
  BY SkillsAssumption, NoSkillFacts DEF WriteSkill, IdsGivenOut
<1>2. \A v \in Curators : curator'[v] = curator[v] \/ curator'[v] = AtRest
  BY DEF WriteSkill
<1>3. SkillsTypes'
  BY <1>1, NoSkillFacts DEF WriteSkill
<1>4. IdsGivenOut'
  BY <1>1, <1>2, NoSkillFacts DEF IdsGivenOut
<1>5. \A v \in Curators : HasRead(v) /\ curator[v].id = i => SameVersion(curator[v].row, row)
  BY DEF ReadsAgree, WriteSkill, SameVersion
<1>6. ReadsAgree'
  BY <1>1, <1>2, <1>5, NoSkillFacts DEF ReadsAgree, SameVersion
<1>7. \A p \in Candidates : row.origin = p =>
         /\ \A k \in Ids : skill[k].origin = p => k = i
         /\ \A v \in Curators : HasRead(v) /\ curator[v].row.origin = p => curator[v].id = i
         /\ \A v \in Curators : curator[v].at = "create" => curator[v].row.origin # p
  BY DEF WriteSkill, ReadOnce, CreatedOnce
<1>8. StoredOnce'
  BY <1>1, <1>7 DEF StoredOnce
<1>9. ReadOnce'
  BY <1>1, <1>2, <1>7, NoSkillFacts DEF ReadOnce
<1>10. CreatedOnce'
  BY <1>1, <1>2, <1>7, NoSkillFacts DEF CreatedOnce
<1>11. Undecided'
  BY <1>1, <1>2, <1>7, NoSkillFacts DEF Undecided
<1>12. \A k \in Ids : skill[k] # NoSkill => SameVersion(skill[k], skill'[k])
  BY <1>1 DEF ReadsAgree, WriteSkill, SameVersion
<1> QED BY <1>3, <1>4, <1>6, <1>8, <1>9, <1>10, <1>11, <1>12

(* Rows, candidates and calls that go away leave fewer claims. *)
LEMMA FewerKeeps ==
    ASSUME SkillsInv, UNCHANGED created, SkillsTypes',
           \A i \in Ids : skill'[i] = skill[i] \/ skill'[i] = NoSkill,
           \A u \in Curators : curator'[u] = curator[u] \/ curator'[u] = AtRest,
           \A p \in Candidates :
              /\ candidate'[p] = "none" \/ verdict'[p] = "none"
              /\ verdict'[p] = "approved" \/ verdict[p] # "approved"
    PROVE  SkillsInv'
<1> USE DEF SkillsInv, SkillsTypes, HasRead, Ids
<1>1. IdsGivenOut'
  BY NoSkillFacts DEF IdsGivenOut
<1>2. ReadsAgree'
  BY NoSkillFacts, SkillsAssumption DEF ReadsAgree, IdsGivenOut
<1>3. StoredOnce'
  BY NoSkillFacts, SkillsAssumption DEF StoredOnce
<1>4. \A p \in Candidates :
         /\ \A i \in Ids : skill'[i].origin = p => skill[i].origin = p
         /\ \A u \in Curators : curator'[u].row.origin = p => curator[u].row.origin = p
  BY NoSkillFacts
<1>5. \A u \in Curators : curator'[u].at # "idle" => curator'[u] = curator[u]
  BY NoSkillFacts
<1>6. ReadOnce'
  BY <1>4, <1>5 DEF ReadOnce
<1>7. CreatedOnce'
  BY <1>4, <1>5 DEF CreatedOnce
<1>8. Undecided'
  <2> SUFFICES ASSUME NEW p \in Candidates
               PROVE  /\ candidate'[p] # "none" => verdict'[p] = "none"
                      /\ verdict'[p] # "approved" =>
                            /\ \A i \in Ids : skill'[i].origin # p
                            /\ \A u \in Curators : curator'[u].row.origin # p
    BY DEF Undecided
  <2> QED BY <1>4 DEF Undecided
<1> QED BY <1>1, <1>2, <1>3, <1>6, <1>7, <1>8

LEMMA ApproveKeeps ==
    ASSUME SkillsInv, NEW u \in Curators, NEW p \in Candidates, ApproveSkill(u, p)
    PROVE  SkillsInv'
<1> USE DEF SkillsInv, SkillsTypes, HasRead, Ids
<1> DEFINE row == Row(1, "ACTIVE", candidate[p], p)
<1>1. /\ row \in SkillRows /\ row # NoSkill /\ row.origin = p
      /\ curator[u] = AtRest
      /\ UNCHANGED <<skill, created>>
      /\ candidate' = [candidate EXCEPT ![p] = "none"]
      /\ verdict' = [verdict EXCEPT ![p] = "approved"]
  BY SkillsAssumption, NoSkillFacts DEF ApproveSkill, Popped, Row, SkillRows, SkillStatus
<1>2. /\ \A i \in Ids : skill[i].origin # p
      /\ \A v \in Curators : curator[v].row.origin # p
  BY DEF Undecided, ApproveSkill
<1>3. CASE UNCHANGED curator
  <2>1. SkillsTypes'
    BY <1>1, <1>3
  <2> QED BY <1>1, <1>3, <2>1, FewerKeeps DEF Undecided
<1>4. CASE Busy(u, "create", 0, row)
  <2>1. /\ curator'[u] = [at |-> "create", id |-> 0, row |-> row]
        /\ \A v \in Curators : v # u => curator'[v] = curator[v]
        /\ curator' \in [Curators -> Holding]
    BY <1>1, <1>4, SkillsAssumption DEF Busy, Holding
  <2>2. SkillsTypes'
    BY <1>1, <2>1
  <2>3. IdsGivenOut'
    BY <1>1, <2>1 DEF IdsGivenOut
  <2>4. ReadsAgree'
    BY <1>1, <2>1 DEF ReadsAgree
  <2>5. StoredOnce'
    BY <1>1 DEF StoredOnce
  <2>6. ReadOnce'
    BY <1>1, <2>1 DEF ReadOnce
  <2>7. CreatedOnce'
    BY <1>1, <1>2, <2>1 DEF CreatedOnce
  <2>8. Undecided'
    BY <1>1, <2>1 DEF Undecided
  <2> QED BY <2>2, <2>3, <2>4, <2>5, <2>6, <2>7, <2>8
<1> QED BY <1>3, <1>4 DEF ApproveSkill

LEMMA NewVersionKeeps ==
    ASSUME SkillsInv, NEW u \in Curators, NEW tools \in ToolSets, NewVersion(u, tools)
    PROVE  SkillsInv'
<1> USE DEF SkillsInv, SkillsTypes, HasRead, Ids
<1>1. PICK i \in Ids :
         /\ skill[i].status = "ACTIVE" /\ skill[i].ver < MaxVersion
         /\ Busy(u, "create", 0, Row(skill[i].ver + 1, "ACTIVE", tools, "version"))
  BY DEF NewVersion, Highest
<1> DEFINE row == Row(skill[i].ver + 1, "ACTIVE", tools, "version")
<1>2. skill[i] \in SkillRows
  BY <1>1, NoSkillFacts
<1>3. row \in SkillRows /\ row.origin \notin Candidates
  BY <1>1, <1>2, SkillsAssumption DEF Row, SkillRows, SkillStatus
<1>4. /\ curator'[u] = [at |-> "create", id |-> 0, row |-> row]
      /\ \A v \in Curators : v # u => curator'[v] = curator[v]
      /\ curator' \in [Curators -> Holding]
      /\ UNCHANGED <<skill, created, candidate, verdict>>
  BY <1>1, <1>3, SkillsAssumption DEF Busy, Holding, NewVersion
<1>5. SkillsTypes'
  BY <1>4
<1>6. IdsGivenOut'
  BY <1>3, <1>4 DEF IdsGivenOut
<1>7. ReadsAgree'
  BY <1>4 DEF ReadsAgree
<1>8. StoredOnce'
  BY <1>4 DEF StoredOnce
<1>9. ReadOnce'
  BY <1>4 DEF ReadOnce
<1>10. CreatedOnce'
  BY <1>3, <1>4 DEF CreatedOnce
<1>11. Undecided'
  BY <1>3, <1>4 DEF Undecided
<1> QED BY <1>5, <1>6, <1>7, <1>8, <1>9, <1>10, <1>11

-----------------------------------------------------------------------------
LEMMA SkillsNextKeeps ==
    ASSUME SkillsInv, [SkillsNext]_skillVars
    PROVE  SkillsInv'
<1> USE DEF SkillsInv
<1>1. ASSUME NEW u \in Curators, NEW tools \in ToolSets, NEW ver \in 1..MaxVersion,
             Register(u, ver, tools)
      PROVE  SkillsInv'
  <2>1. /\ Row(ver, "ACTIVE", tools, "hand") \in SkillRows
        /\ Row(ver, "ACTIVE", tools, "hand").origin \notin Candidates
    BY <1>1, SkillsAssumption DEF Row, SkillRows, SkillStatus
  <2> QED BY <1>1, <2>1, CreateKeeps DEF Register
<1>2. ASSUME NEW u \in Curators, Create(u)
      PROVE  SkillsInv'
  <2>1. curator[u].row \in SkillRows /\ curator[u].at = "create"
    BY <1>2 DEF Create, IdsGivenOut
  <2> QED BY <1>2, <2>1, CreateKeeps DEF Create
<1>3. ASSUME NEW u \in Curators, NEW i \in Ids, DeleteSkill(u, i)
      PROVE  SkillsInv'
  <2>1. SkillsTypes'
    BY <1>3 DEF DeleteSkill, SkillsTypes
  <2> QED BY <1>3, <2>1, FewerKeeps DEF DeleteSkill, SkillsTypes, Undecided
<1>4. ASSUME NEW u \in Curators, NEW p \in Candidates, RejectSkill(u, p)
      PROVE  SkillsInv'
  <2>1. SkillsTypes'
    BY <1>4 DEF RejectSkill, Popped, SkillsTypes
  <2>2. \A q \in Candidates : q # p => candidate'[q] = candidate[q] /\ verdict'[q] = verdict[q]
    BY <1>4 DEF RejectSkill, Popped, SkillsTypes
  <2>3. candidate'[p] = "none" /\ verdict[p] = "none"
    BY <1>4 DEF RejectSkill, Popped, SkillsTypes, Undecided
  <2> QED BY <1>4, <2>1, <2>2, <2>3, FewerKeeps DEF RejectSkill, Undecided
<1>5. ASSUME NEW u \in Curators, Build(u)
      PROVE  SkillsInv'
  <2>1. SkillsTypes'
    BY <1>5, NoSkillFacts DEF Build, SkillsTypes
  <2> QED BY <1>5, <2>1, FewerKeeps DEF Build, SkillsTypes, Undecided
<1>6. ASSUME NEW p \in Candidates, NEW tools \in ToolSets, Propose(p, tools)
      PROVE  SkillsInv'
  <2>1. SkillsTypes'
    BY <1>6 DEF Propose, SkillsTypes
  <2> QED BY <1>6, <2>1, FewerKeeps DEF Propose, SkillsTypes, Undecided
<1>7. ASSUME SkillsRestart PROVE SkillsInv'
  <2>1. SkillsTypes'
    BY <1>7, NoSkillFacts DEF SkillsRestart, SkillsTypes
  <2> QED BY <1>7, <2>1, FewerKeeps DEF SkillsRestart, SkillsTypes, Undecided
<1>8. ASSUME UNCHANGED skillVars PROVE SkillsInv'
  <2>1. SkillsTypes'
    BY <1>8 DEF skillVars, SkillsTypes
  <2> QED BY <1>8, <2>1, FewerKeeps DEF skillVars, Undecided
<1> QED BY <1>1, <1>2, <1>3, <1>4, <1>5, <1>6, <1>7, <1>8, StatusKeeps, LookUpKeeps,
           WriteKeeps, ApproveKeeps, NewVersionKeeps
        DEF SkillsNext

(* A stored version changes its status at most. *)
LEMMA StoredKept ==
    ASSUME SkillsInv, [SkillsNext]_skillVars, NEW i \in Ids,
           skill[i] # NoSkill, skill'[i] # NoSkill
    PROVE  SameVersion(skill[i], skill'[i])
<1> USE DEF SkillsInv, SkillsTypes
<1>1. ASSUME skill'[i] = skill[i] PROVE SameVersion(skill[i], skill'[i])
  BY <1>1 DEF SameVersion
<1>2. ASSUME NEW row, CreateRow(row) PROVE skill'[i] = skill[i]
  BY <1>2, SkillsAssumption DEF CreateRow, IdsGivenOut, Ids
<1>3. ASSUME NEW u \in Curators, NEW k \in Ids, DeleteSkill(u, k)
      PROVE  skill'[i] = skill[i]
  BY <1>3 DEF DeleteSkill
<1>4. ASSUME UNCHANGED skill PROVE skill'[i] = skill[i]
  BY <1>4
<1>5. ASSUME NEW u \in Curators, WriteSkill(u) PROVE SameVersion(skill[i], skill'[i])
  BY <1>5, WriteKeeps
<1> QED BY <1>1, <1>2, <1>3, <1>4, <1>5
        DEF SkillsNext, Register, NewVersion, Create, SetStatus, Propose, ApproveSkill,
            RejectSkill, LookUp, Build, SkillsRestart, skillVars

LEMMA DecidedOnceHolds == SkillsInv => DecidedOnce
<1> SUFFICES ASSUME SkillsInv, NEW p \in Candidates
             PROVE  /\ Cardinality({i \in Ids : skill[i].origin = p}) <= 1
                    /\ verdict[p] = "rejected" => {i \in Ids : skill[i].origin = p} = {}
  BY DEF DecidedOnce
<1> DEFINE from == {i \in Ids : skill[i].origin = p}
<1>1. from = {} \/ \E i \in Ids : from = {i}
  BY DEF SkillsInv, StoredOnce
<1>2. Cardinality(from) <= 1
  <2>1. CASE from = {}
    BY <2>1, FS_EmptySet
  <2>2. ASSUME NEW i \in Ids, from = {i} PROVE Cardinality(from) <= 1
    <3> HIDE DEF from
    <3>1. Cardinality({i}) = 1
      BY FS_Singleton
    <3> QED BY <2>2, <3>1
  <2> HIDE DEF from
  <2> QED BY <1>1, <2>1, <2>2
<1>3. verdict[p] = "rejected" => from = {}
  BY DEF SkillsInv, Undecided
<1> QED BY <1>2, <1>3

(* Whatever curators do at the same time, a proposal becomes one skill at    *)
(* most, and none if it was rejected, and a stored version keeps its number  *)
(* and its tools until it is deleted (approve, reject, new_version,          *)
(* set_status, delete, build).                                               *)
THEOREM SkillsAreSafe == SkillsSpec => SkillsSafe
<1>1. SkillsInv => SkillsInvariant
  BY DecidedOnceHolds
     DEF SkillsInv, SkillsTypes, SkillRows, SkillsInvariant, SkillsTypeOK
<1>2. ASSUME SkillsInv, [SkillsNext]_skillVars
      PROVE  [\A i \in Ids :
          /\ skill[i] # NoSkill /\ skill'[i] # NoSkill =>
                skill'[i] = [skill[i] EXCEPT !.status = skill'[i].status]
          /\ \A u \in Curators :
                curator[u].at = "build" /\ curator[u].id = i /\ skill[i] # NoSkill =>
                    curator[u].row.tools = skill[i].tools]_skillVars
  <2>1. ASSUME NEW i \in Ids, skill[i] # NoSkill, skill'[i] # NoSkill
        PROVE  skill'[i] = [skill[i] EXCEPT !.status = skill'[i].status]
    <3>1. skill[i] \in SkillRows /\ skill'[i] \in SkillRows
      BY <1>2, <2>1, SkillsNextKeeps DEF SkillsInv, SkillsTypes
    <3>2. SameVersion(skill[i], skill'[i])
      BY <1>2, <2>1, StoredKept
    <3> QED BY <3>1, <3>2 DEF SkillRows, SameVersion
  <2>2. ASSUME NEW i \in Ids, NEW u \in Curators, curator[u].at = "build",
               curator[u].id = i, skill[i] # NoSkill
        PROVE  curator[u].row.tools = skill[i].tools
    BY <1>2, <2>2 DEF SkillsInv, ReadsAgree, HasRead, SameVersion
  <2> QED BY <2>1, <2>2
<1> QED BY <1>1, <1>2, SkillsInitHolds, SkillsNextKeeps, PTL
        DEF SkillsSpec, SkillsSafe, VersionsImmutable

-----------------------------------------------------------------------------
(* Events *)

Ahead == {<<"typed", "log", "view">>, <<"log", "view">>, <<"view">>, <<>>}
LogPending(todo) == todo \in {<<"typed", "log", "view">>, <<"log", "view">>}

EventRecords == [n : 1..MaxEvents, by : Publishers, kind : Kinds]
Deliveries == [event : EventRecords \cup {Quiet.event}, todo : Ahead, tx : BOOLEAN]

EventsTypes ==
    /\ LogPending(handlers)
    /\ publisher \in [Publishers -> Deliveries]
    /\ published \in 0..MaxEvents
    /\ log \in Seq(EventRecords)
    /\ begun \in 0..NoTx
    /\ lost \in SUBSET EventRecords
    /\ shown \in Seq(Kinds)
    /\ cursor \in 0..MaxEvents

(* The events there are: stored, taken back, or last published by a thread. *)
Stored == ToSet(log) \cup lost
Known == Stored \cup {publisher[t].event : t \in {u \in Publishers : publisher[u].event.n # 0}}

(* A number is given to one event, and a thread's last event is its latest. *)
Numbered ==
    /\ \A e \in Known : e.n <= published
    /\ \A e, f \in Known : e.n = f.n => e = f
    /\ \A t \in Publishers :
          /\ publisher[t].event.n # 0 => publisher[t].event \in EventRecords /\ publisher[t].event.by = t
          /\ publisher[t].todo # <<>> => publisher[t].event.n # 0
    /\ \A e \in Stored : e.n <= publisher[e.by].event.n

(* An event is stored once: after its publisher was through with the log,    *)
(* and not before.                                                           *)
StoredOnceInOrder ==
    /\ \A t \in Publishers : publisher[t].event.n # 0 =>
          (publisher[t].event \in Stored <=> ~LogPending(publisher[t].todo))
    /\ ToSet(log) \cap lost = {}
    /\ \A i, k \in DOMAIN log : i < k =>
          log[i] # log[k] /\ (log[i].by = log[k].by => log[i].n < log[k].n)

(* Rows are taken back by the thread whose transaction is open, down to the  *)
(* place where it began.                                                     *)
OneTransaction ==
    /\ begun # NoTx => begun <= Len(log)
    /\ \A t \in Publishers : publisher[t].tx =>
          begun # NoTx /\ \A u \in Publishers : publisher[u].tx => u = t

(* A failure that nothing followed up is shown. *)
FailureShown ==
    (\E i \in DOMAIN shown :
        /\ shown[i] \in {"STEP_FAILED", "STEP_TIMED_OUT"}
        /\ \A k \in DOMAIN shown : k > i => shown[k] \notin {"TASK_CREATED", "RECOVERY_STARTED"})
    => view.state = "FAILED"

EventsInv == /\ EventsTypes /\ Numbered /\ StoredOnceInOrder
             /\ OneTransaction /\ FailureShown

-----------------------------------------------------------------------------
LEMMA TodoFacts ==
    /\ \A todo \in Ahead : todo # <<>> =>
          /\ Tail(todo) \in Ahead
          /\ LogPending(Tail(todo)) <=> LogPending(todo) /\ Head(todo) # "log"
          /\ Head(todo) = "log" => LogPending(todo)
    /\ \A todo : LogPending(todo) => todo \in Ahead /\ todo # <<>>
    /\ <<>> \in Ahead /\ ~LogPending(<<>>)
<1>1. /\ Tail(<<"typed", "log", "view">>) = <<"log", "view">>
      /\ Tail(<<"log", "view">>) = <<"view">>
      /\ Tail(<<"view">>) = <<>>
      /\ Head(<<"typed", "log", "view">>) = "typed"
      /\ Head(<<"log", "view">>) = "log"
      /\ Head(<<"view">>) = "view"
  OBVIOUS
<1>2. /\ <<"typed", "log", "view">> # <<>> /\ <<"log", "view">> # <<>> /\ <<"view">> # <<>>
      /\ <<"typed", "log", "view">> # <<"view">> /\ <<"log", "view">> # <<"view">>
      /\ <<"typed", "log", "view">> # <<"log", "view">>
  OBVIOUS
<1> QED BY <1>1, <1>2 DEF Ahead, LogPending

LEMMA SubscriptionFacts ==
    ASSUME LogPending(handlers)
    PROVE  /\ Head(handlers) # "typed" => LogPending(<<"typed">> \o handlers)
           /\ Head(handlers) = "typed" => LogPending(Tail(handlers))
<1>0. <<"typed">> \o <<"log", "view">> = <<"typed", "log", "view">>
  <2> DEFINE c == <<"typed">> \o <<"log", "view">>
             d == <<"typed", "log", "view">>
  <2>1. /\ c \in Seq({"typed", "log", "view"}) /\ Len(c) = 3
        /\ c[1] = "typed" /\ c[2] = "log" /\ c[3] = "view"
    OBVIOUS
  <2>2. d \in Seq({"typed", "log", "view"}) /\ Len(d) = 3 /\ d[1] = "typed" /\ d[2] = "log" /\ d[3] = "view"
    OBVIOUS
  <2> HIDE DEF c, d
  <2>3. \A i \in 1..3 : c[i] = d[i]
    <3>1. \A i \in 1..3 : i = 1 \/ i = 2 \/ i = 3
      OBVIOUS
    <3> QED BY <2>1, <2>2, <3>1
  <2>4. c = d
    BY <2>1, <2>2, <2>3, SeqEqual
  <2> QED BY <2>4 DEF c, d
<1>1. /\ Tail(<<"typed", "log", "view">>) = <<"log", "view">>
      /\ Head(<<"typed", "log", "view">>) = "typed"
      /\ Head(<<"log", "view">>) = "log"
  OBVIOUS
<1> QED BY <1>0, <1>1 DEF LogPending

(* An event appended to the log. *)
LEMMA AppendFacts ==
    ASSUME NEW S, NEW s \in Seq(S), NEW e \in S
    PROVE  /\ Append(s, e) \in Seq(S)
           /\ ToSet(Append(s, e)) = ToSet(s) \cup {e}
           /\ Len(Append(s, e)) = Len(s) + 1
           /\ DOMAIN Append(s, e) = 1..(Len(s) + 1) /\ DOMAIN s = 1..Len(s) /\ Len(s) \in Nat
           /\ \A i \in 1..Len(s) : Append(s, e)[i] = s[i]
           /\ Append(s, e)[Len(s) + 1] = e
<1>1. /\ Append(s, e) \in Seq(S)
      /\ Len(Append(s, e)) = Len(s) + 1
      /\ DOMAIN Append(s, e) = 1..(Len(s) + 1) /\ DOMAIN s = 1..Len(s) /\ Len(s) \in Nat
      /\ \A i \in 1..Len(s) : Append(s, e)[i] = s[i]
      /\ Append(s, e)[Len(s) + 1] = e
  OBVIOUS
<1>2. ToSet(Append(s, e)) = ToSet(s) \cup {e}
  BY <1>1 DEF ToSet
<1> QED BY <1>1, <1>2

(* The log cut at the place where a transaction began. *)
LEMMA CutFacts ==
    ASSUME NEW S, NEW s \in Seq(S), NEW k \in 0..Len(s)
    PROVE  LET kept == SubSeq(s, 1, k)
               cut  == SubSeq(s, k + 1, Len(s))
           IN /\ kept \in Seq(S)
              /\ Len(kept) = k /\ DOMAIN kept = 1..k /\ 1..k \in SUBSET DOMAIN s
              /\ \A i \in 1..k : kept[i] = s[i]
              /\ ToSet(s) = ToSet(kept) \cup ToSet(cut)
              /\ (\A i, j \in DOMAIN s : i < j => s[i] # s[j]) => ToSet(kept) \cap ToSet(cut) = {}
<1> DEFINE kept == SubSeq(s, 1, k)
           cut  == SubSeq(s, k + 1, Len(s))
<1>1. /\ Len(s) \in Nat /\ DOMAIN s = 1..Len(s) /\ k \in Nat /\ k <= Len(s)
  OBVIOUS
<1>2. /\ kept \in Seq(S) /\ Len(kept) = k /\ DOMAIN kept = 1..k
      /\ \A i \in 1..k : kept[i] = s[i]
  BY <1>1
<1>3. /\ DOMAIN cut = 1..(Len(s) - k)
      /\ \A i \in 1..(Len(s) - k) : cut[i] = s[k + i]
  BY <1>1
<1>4. ToSet(kept) = {s[i] : i \in 1..k}
  BY <1>2 DEF ToSet
<1>5. ToSet(cut) = {s[i] : i \in (k + 1)..Len(s)}
  <2>1. ASSUME NEW x \in ToSet(cut) PROVE x \in {s[i] : i \in (k + 1)..Len(s)}
    <3>1. PICK j \in 1..(Len(s) - k) : x = s[k + j]
      BY <1>3, <2>1 DEF ToSet
    <3>2. k + j \in (k + 1)..Len(s)
      BY <1>1
    <3> QED BY <3>1, <3>2
  <2>2. ASSUME NEW i \in (k + 1)..Len(s) PROVE s[i] \in ToSet(cut)
    <3>1. i - k \in 1..(Len(s) - k) /\ k + (i - k) = i
      BY <1>1
    <3> QED BY <1>3, <3>1 DEF ToSet
  <2> QED BY <2>1, <2>2
<1> HIDE DEF kept, cut
<1>6. ToSet(s) = ToSet(kept) \cup ToSet(cut)
  <2>1. ToSet(s) = {s[i] : i \in 1..Len(s)}
    BY <1>1 DEF ToSet
  <2>2. 1..Len(s) = (1..k) \cup ((k + 1)..Len(s))
    BY <1>1
  <2> QED BY <1>4, <1>5, <2>1, <2>2
<1>7. ASSUME \A i, j \in DOMAIN s : i < j => s[i] # s[j] PROVE ToSet(kept) \cap ToSet(cut) = {}
  BY <1>1, <1>4, <1>5, <1>7
<1> QED BY <1>1, <1>2, <1>6, <1>7 DEF kept, cut

(* Distinct events have distinct numbers, so the log is no longer than what  *)
(* was published.                                                            *)
LEMMA LogBounded ==
    ASSUME EventsInv
    PROVE  Len(log) \in Nat /\ Len(log) <= published
<1> DEFINE f == [i \in 1..Len(log) |-> log[i].n]
<1>1. Len(log) \in Nat /\ DOMAIN log = 1..Len(log) /\ published \in Nat
  BY EventsAssumption DEF EventsInv, EventsTypes
<1>2. \A i \in 1..Len(log) : log[i].n \in 1..published
  <2> TAKE i \in 1..Len(log)
  <2>1. log[i] \in EventRecords /\ log[i] \in Known
    BY <1>1 DEF EventsInv, EventsTypes, Known, Stored, ToSet
  <2>2. log[i].n \in 1..MaxEvents /\ log[i].n <= published
    BY <2>1 DEF EventsInv, Numbered, EventRecords
  <2> QED BY <1>1, <2>2, EventsAssumption
<1>3. \A i, k \in 1..Len(log) : i # k => log[i].n # log[k].n
  <2>1. SUFFICES ASSUME NEW i \in 1..Len(log), NEW k \in 1..Len(log), i < k
                 PROVE  log[i].n # log[k].n
    BY <1>1
  <2>2. log[i] # log[k] /\ log[i] \in Known /\ log[k] \in Known
    BY <1>1, <2>1 DEF EventsInv, StoredOnceInOrder, Known, Stored, ToSet
  <2> QED BY <2>2 DEF EventsInv, Numbered
<1>4. f \in [1..Len(log) -> 1..published]
  BY <1>2
<1>5. /\ IsFiniteSet(1..Len(log)) /\ Cardinality(1..Len(log)) = Len(log)
      /\ IsFiniteSet(1..published) /\ Cardinality(1..published) = published
  <2>1. ASSUME NEW b \in Nat
        PROVE  IsFiniteSet(1..b) /\ Cardinality(1..b) = b
    <3>1. /\ IsFiniteSet(1..b)
          /\ Cardinality(1..b) = IF 1 > b THEN 0 ELSE b - 1 + 1
      BY FS_Interval
    <3> QED BY <3>1
  <2> QED BY <1>1, <2>1
<1>6. \A i, k \in 1..Len(log) : i # k => f[i] # f[k]
  BY <1>3
<1> HIDE DEF f
<1>7. ~(Cardinality(1..published) < Cardinality(1..Len(log)))
  BY <1>4, <1>5, <1>6, FS_PigeonHole
<1> QED BY <1>1, <1>5, <1>7

-----------------------------------------------------------------------------
LEMMA EventsInitHolds == EventsInit => EventsInv
<1> SUFFICES ASSUME EventsInit PROVE EventsInv
  OBVIOUS
<1>1. /\ Quiet.event.n = 0 /\ Quiet.todo = <<>> /\ Quiet.tx = FALSE /\ Quiet \in Deliveries
      /\ NewView.state # "FAILED"
  BY TodoFacts DEF Quiet, NewView, Deliveries
<1>2. \A t \in Publishers : publisher[t] = Quiet
  BY DEF EventsInit
<1>3. log = <<>> /\ DOMAIN log = {} /\ ToSet(log) = {} /\ lost = {} /\ Known = {} /\ DOMAIN shown = {}
  BY <1>1, <1>2 DEF EventsInit, ToSet, Known, Stored
<1>4. EventsTypes
  BY <1>1, EventsAssumption DEF EventsInit, EventsTypes, LogPending, NoTx
<1>5. Numbered
  BY <1>1, <1>2, <1>3 DEF Numbered, Stored
<1>6. StoredOnceInOrder
  BY <1>1, <1>2, <1>3 DEF StoredOnceInOrder
<1>7. OneTransaction
  BY <1>1, <1>2 DEF OneTransaction, EventsInit
<1>8. FailureShown
  BY <1>3 DEF FailureShown
<1> QED BY <1>4, <1>5, <1>6, <1>7, <1>8 DEF EventsInv

(* What the parts depend on.  Steps that leave the log, the lost events and  *)
(* every thread's event alone keep what is known.                            *)
LEMMA SameKnown ==
    ASSUME UNCHANGED <<log, lost>>, \A t \in Publishers : publisher'[t].event = publisher[t].event
    PROVE  Known' = Known /\ Stored' = Stored
BY DEF Known, Stored

LEMMA KnownTyped ==
    ASSUME EventsTypes, Numbered
    PROVE  /\ Stored \in SUBSET Known
           /\ \A e \in Known : e \in EventRecords /\ e.n \in Nat /\ e.by \in Publishers
<1>1. ToSet(log) \in SUBSET EventRecords
  BY DEF EventsTypes, ToSet
<1>2. Known \in SUBSET EventRecords
  BY <1>1 DEF EventsTypes, Numbered, Known, Stored
<1> QED BY <1>2, EventsAssumption DEF Known, EventRecords

(* Events that move between the log and the lost ones keep their numbers.    *)
LEMMA NumberedKept ==
    ASSUME EventsTypes, Numbered, UNCHANGED published, Known' = Known,
           Stored' \in SUBSET Known,
           \A e \in Stored' : e \in Stored \/ e = publisher[e.by].event,
           \A t \in Publishers : /\ publisher'[t].event = publisher[t].event
                                 /\ publisher'[t].todo # <<>> => publisher[t].todo # <<>>
    PROVE  Numbered'
<1>1. ASSUME NEW e \in Stored' PROVE e.n <= publisher'[e.by].event.n
  <2>1. e.by \in Publishers /\ e.n \in Nat
    BY <1>1, KnownTyped
  <2>2. e.n <= publisher[e.by].event.n
    BY <2>1, <1>1 DEF Numbered
  <2> QED BY <2>1, <2>2
<1> QED BY <1>1 DEF Numbered

LEMMA FailureKept ==
    ASSUME FailureShown, shown \in Seq(Kinds), NEW kind \in Kinds,
           shown' = Append(shown, kind), view'.state = ShownState(view.state, kind)
    PROVE  FailureShown'
<1> DEFINE Failing == {"STEP_FAILED", "STEP_TIMED_OUT"}
           Fresh == {"TASK_CREATED", "RECOVERY_STARTED"}
           n == Len(shown)
<1>1. /\ DOMAIN shown' = 1..(n + 1) /\ DOMAIN shown = 1..n /\ n \in Nat
      /\ \A i \in 1..n : shown'[i] = shown[i]
      /\ shown'[n + 1] = kind
  BY AppendFacts
<1> SUFFICES ASSUME NEW i \in DOMAIN shown', shown'[i] \in Failing,
                    \A k \in DOMAIN shown' : k > i => shown'[k] \notin Fresh
             PROVE  view'.state = "FAILED"
  BY DEF FailureShown
<1>2. CASE i = n + 1
  BY <1>1, <1>2 DEF ShownState
<1>3. CASE i \in 1..n
  <2>1. kind \notin Fresh
    BY <1>1, <1>3
  <2>2. view.state = "FAILED"
    BY <1>1, <1>3 DEF FailureShown
  <2> QED BY <2>1, <2>2 DEF ShownState, Ended
<1> QED BY <1>1, <1>2, <1>3

LEMMA DeliverKeeps ==
    ASSUME EventsInv, NEW t \in Publishers, Deliver(t)
    PROVE  EventsInv'
<1> DEFINE todo == publisher[t].todo
           h == Head(todo)
           e == publisher[t].event
<1> USE DEF EventsInv, EventsTypes
<1>1. /\ todo \in Ahead /\ todo # <<>> /\ Tail(todo) \in Ahead
      /\ e \in EventRecords /\ e.by = t /\ e.n # 0 /\ e.kind \in Kinds
  BY TodoFacts DEF Deliver, Numbered, Deliveries, EventRecords
<1>2. /\ publisher' = [publisher EXCEPT ![t].todo = Tail(@)]
      /\ UNCHANGED <<handlers, published, begun, lost, cursor, seen>>
      /\ log' = IF h = "log" THEN Append(log, e) ELSE log
      /\ view' = IF h = "view" THEN Ingest(view, e.kind) ELSE view
      /\ shown' = IF h = "view" THEN Append(shown, e.kind) ELSE shown
  BY DEF Deliver, After
<1>3. /\ publisher' \in [Publishers -> Deliveries]
      /\ \A u \in Publishers : /\ publisher'[u].event = publisher[u].event
                               /\ publisher'[u].tx = publisher[u].tx
                               /\ u # t => publisher'[u].todo = publisher[u].todo
      /\ publisher'[t].todo = Tail(todo)
  BY <1>1, <1>2 DEF Deliveries
<1>4. LogPending(Tail(todo)) <=> LogPending(todo) /\ h # "log"
  BY <1>1, TodoFacts
<1> HIDE DEF todo, h, e
<1>5. EventsTypes'
  BY <1>1, <1>2, <1>3, AppendFacts
<1>6. OneTransaction'
  BY <1>1, <1>2, <1>3, AppendFacts, EventsAssumption DEF OneTransaction, NoTx
<1>7. FailureShown'
  <2>1. CASE h = "view"
    <3>1. view'.state = ShownState(view.state, e.kind)
      BY <1>2, <2>1 DEF Ingest
    <3> QED BY <1>1, <1>2, <2>1, <3>1, FailureKept
  <2>2. CASE h # "view"
    BY <1>2, <2>2 DEF FailureShown
  <2> QED BY <2>1, <2>2
<1>8. Numbered' /\ StoredOnceInOrder'
  <2>1. CASE h # "log"
    <3>1. UNCHANGED <<log, lost>>
      BY <1>2, <2>1
    <3>2. Known' = Known /\ Stored' = Stored
      BY <1>3, <3>1, SameKnown
    <3>3. Numbered'
      BY <1>1, <1>2, <1>3, <3>2 DEF Numbered, e
    <3>4. StoredOnceInOrder'
      BY <1>3, <1>4, <2>1, <3>1, <3>2 DEF StoredOnceInOrder, todo
    <3> QED BY <3>3, <3>4
  <2>2. CASE h = "log"
    <3>1. /\ log' = Append(log, e)
          /\ Stored' = Stored \cup {e}
      BY <1>1, <1>2, <2>2, AppendFacts DEF Stored
    <3>2. e \in Known /\ Known' = Known
      <4>1. e \in Known
        BY <1>1 DEF Known, e
      <4>2. {publisher'[u].event : u \in {v \in Publishers : publisher'[v].event.n # 0}}
              = {publisher[u].event : u \in {v \in Publishers : publisher[v].event.n # 0}}
        BY <1>3
      <4> QED BY <3>1, <4>1, <4>2 DEF Known
    <3>3. e \notin Stored
      BY <1>1, <2>2, TodoFacts DEF StoredOnceInOrder, e, todo, h
    <3>4. Numbered'
      <4>1. Stored' \in SUBSET Known /\ \A f \in Stored' : f \in Stored \/ f = publisher[f.by].event
        BY <1>1, <3>1, <3>2 DEF Known, e
      <4>2. \A u \in Publishers : publisher'[u].todo # <<>> => publisher[u].todo # <<>>
        BY <1>1, <1>3 DEF todo
      <4> QED BY <1>2, <1>3, <3>2, <4>1, <4>2, NumberedKept
    <3>5. \A u \in Publishers : u # t /\ publisher[u].event.n # 0 => publisher[u].event # e
      BY <1>1 DEF Numbered
    <3>6. \A u \in Publishers : publisher'[u].event.n # 0 =>
             (publisher'[u].event \in Stored' <=> ~LogPending(publisher'[u].todo))
      BY <1>3, <1>4, <2>2, <3>1, <3>5 DEF StoredOnceInOrder, e
    <3>7. ToSet(log') \cap lost' = {}
      BY <1>1, <1>2, <3>1, <3>3, AppendFacts DEF StoredOnceInOrder, Stored
    <3>8. \A i \in DOMAIN log : /\ log[i] # e /\ log[i].n \in Nat
                                /\ log[i].by = e.by => log[i].n < e.n
      <4> TAKE i \in DOMAIN log
      <4>1. log[i] \in Stored /\ log[i] \in Known /\ log[i] \in EventRecords
        BY DEF Stored, Known, ToSet
      <4>2. log[i].n \in Nat /\ e.n \in Nat /\ log[i] # e
        BY <1>1, <3>3, <4>1, EventsAssumption DEF EventRecords
      <4>3. log[i].n # e.n
        BY <3>2, <4>1, <4>2 DEF Numbered
      <4>4. log[i].by = e.by => log[i].n <= e.n
        BY <1>1, <4>1 DEF Numbered, e
      <4> QED BY <4>2, <4>3, <4>4
    <3>9. \A i, k \in DOMAIN log' : i < k =>
             log'[i] # log'[k] /\ (log'[i].by = log'[k].by => log'[i].n < log'[k].n)
      <4> DEFINE m == Len(log)
      <4>1. /\ DOMAIN log' = 1..(m + 1) /\ DOMAIN log = 1..m /\ m \in Nat
            /\ \A i \in 1..m : log'[i] = log[i]
            /\ log'[m + 1] = e
        BY <1>1, <3>1, AppendFacts
      <4> SUFFICES ASSUME NEW i \in DOMAIN log', NEW k \in DOMAIN log', i < k
                   PROVE  log'[i] # log'[k] /\ (log'[i].by = log'[k].by => log'[i].n < log'[k].n)
        OBVIOUS
      <4> HIDE DEF m
      <4>2. CASE k = m + 1
        BY <3>8, <4>1, <4>2
      <4>3. CASE k \in 1..m
        BY <4>1, <4>3 DEF StoredOnceInOrder
      <4> QED BY <4>1, <4>2, <4>3
    <3>10. StoredOnceInOrder'
      BY <3>6, <3>7, <3>9 DEF StoredOnceInOrder
    <3> QED BY <3>4, <3>10
  <2> QED BY <2>1, <2>2
<1> QED BY <1>5, <1>6, <1>7, <1>8

LEMMA PublishKeeps ==
    ASSUME EventsInv, NEW t \in Publishers, NEW kind \in Kinds, Publish(t, kind)
    PROVE  EventsInv'
<1> DEFINE e == [n |-> published + 1, by |-> t, kind |-> kind]
<1> USE DEF EventsInv, EventsTypes
<1>1. /\ e \in EventRecords /\ e.n = published + 1 /\ e.by = t
      /\ published \in Nat /\ published' = published + 1 /\ published' \in 0..MaxEvents
      /\ handlers \in Ahead /\ handlers # <<>>
      /\ UNCHANGED <<handlers, log, begun, lost, view, shown, cursor, seen>>
  BY EventsAssumption, TodoFacts DEF Publish, EventRecords
<1>2. /\ publisher' \in [Publishers -> Deliveries]
      /\ publisher'[t].event = e /\ publisher'[t].todo = handlers /\ publisher'[t].tx = publisher[t].tx
      /\ \A u \in Publishers : u # t => publisher'[u] = publisher[u]
  BY <1>1 DEF Publish, Deliveries
<1> HIDE DEF e
<1>3. Stored' = Stored /\ Known' \in SUBSET (Known \cup {e})
  BY <1>1, <1>2 DEF Stored, Known
<1>4. \A f \in Known : f.n <= published /\ f.n \in Nat
  BY KnownTyped DEF Numbered
<1>5. EventsTypes'
  BY <1>1, <1>2
<1>6. Numbered'
  <2>1. \A f \in Known' : f.n <= published'
    BY <1>1, <1>3, <1>4
  <2>2. \A f, g \in Known' : f.n = g.n => f = g
    BY <1>1, <1>3, <1>4 DEF Numbered
  <2>3. \A u \in Publishers :
          /\ publisher'[u].event.n # 0 => publisher'[u].event \in EventRecords /\ publisher'[u].event.by = u
          /\ publisher'[u].todo # <<>> => publisher'[u].event.n # 0
    BY <1>1, <1>2 DEF Numbered
  <2>4. ASSUME NEW f \in Stored' PROVE f.n <= publisher'[f.by].event.n
    <3>1. f \in Stored /\ f \in Known /\ f \in EventRecords
      BY <1>3, <2>4 DEF Known, Stored, ToSet
    <3> QED BY <1>1, <1>2, <1>4, <3>1 DEF Numbered, EventRecords
  <2> QED BY <2>1, <2>2, <2>3, <2>4 DEF Numbered
<1>7. StoredOnceInOrder'
  <2>1. e \notin Stored
    BY <1>1, <1>4 DEF Known
  <2> QED BY <1>1, <1>2, <1>3, <2>1 DEF StoredOnceInOrder
<1>8. OneTransaction'
  BY <1>1, <1>2 DEF OneTransaction
<1>9. FailureShown'
  BY <1>1 DEF FailureShown
<1> QED BY <1>5, <1>6, <1>7, <1>8, <1>9

LEMMA RollbackKeeps ==
    ASSUME EventsInv, NEW t \in Publishers, Rollback(t)
    PROVE  EventsInv'
<1> USE DEF EventsInv, EventsTypes
<1>1. /\ begun \in 0..Len(log) /\ begun' = NoTx
      /\ UNCHANGED <<handlers, published, view, shown, cursor, seen>>
  BY EventsAssumption DEF Rollback, OneTransaction, NoTx
<1>2. /\ publisher' \in [Publishers -> Deliveries]
      /\ \A u \in Publishers : /\ publisher'[u].event = publisher[u].event
                               /\ publisher'[u].todo = publisher[u].todo
                               /\ ~publisher'[u].tx
  BY DEF Rollback, Deliveries, OneTransaction
<1> DEFINE cut == ToSet(SubSeq(log, begun + 1, Len(log)))
<1>3. /\ log' \in Seq(EventRecords)
      /\ Len(log') = begun /\ DOMAIN log' = 1..begun /\ 1..begun \in SUBSET DOMAIN log
      /\ \A i \in 1..begun : log'[i] = log[i]
      /\ ToSet(log) = ToSet(log') \cup cut
      /\ ToSet(log') \cap cut = {}
      /\ lost' = lost \cup cut
  <2>1. log' = SubSeq(log, 1, begun) /\ lost' = lost \cup cut
    BY DEF Rollback
  <2>2. \A i, j \in DOMAIN log : i < j => log[i] # log[j]
    BY DEF StoredOnceInOrder
  <2> QED BY <1>1, <2>1, <2>2, CutFacts
<1> HIDE DEF cut
<1>4. ToSet(log) \in SUBSET EventRecords
  BY DEF ToSet
<1>5. Stored' = Stored
  BY <1>3 DEF Stored
<1>6. Known' = Known
  BY <1>2, <1>5 DEF Known
<1>7. EventsTypes'
  BY <1>1, <1>2, <1>3, <1>4, EventsAssumption DEF NoTx
<1>8. Numbered'
  BY <1>1, <1>2, <1>5, <1>6, KnownTyped, NumberedKept
<1>9. StoredOnceInOrder'
  BY <1>1, <1>2, <1>3, <1>5 DEF StoredOnceInOrder
<1>10. OneTransaction'
  BY <1>1, <1>2 DEF OneTransaction
<1>11. FailureShown'
  BY <1>1 DEF FailureShown
<1> QED BY <1>7, <1>8, <1>9, <1>10, <1>11

(* Steps that touch neither events nor what is shown. *)
LEMMA QuietKeeps ==
    ASSUME EventsInv, EventsTypes', UNCHANGED <<published, log, lost, view, shown>>,
           \A t \in Publishers : /\ publisher'[t].event = publisher[t].event
                                 /\ publisher'[t].todo = publisher[t].todo,
           OneTransaction'
    PROVE  EventsInv'
<1>1. Known' = Known /\ Stored' = Stored
  BY SameKnown
<1>2. Numbered'
  BY <1>1, KnownTyped, NumberedKept DEF EventsInv
<1>3. StoredOnceInOrder'
  BY <1>1 DEF EventsInv, StoredOnceInOrder
<1>4. FailureShown'
  BY DEF EventsInv, FailureShown
<1> QED BY <1>2, <1>3, <1>4 DEF EventsInv

LEMMA BeginKeeps ==
    ASSUME EventsInv, NEW t \in Publishers, BeginTx(t)
    PROVE  EventsInv'
<1>1. Len(log) \in 0..MaxEvents /\ MaxEvents \in Nat
  BY LogBounded, EventsAssumption DEF EventsInv, EventsTypes
<1>2. /\ publisher' \in [Publishers -> Deliveries]
      /\ \A u \in Publishers : /\ publisher'[u].event = publisher[u].event
                               /\ publisher'[u].todo = publisher[u].todo
                               /\ publisher'[u].tx => u = t
  BY DEF EventsInv, EventsTypes, OneTransaction, BeginTx, Deliveries
<1>3. EventsTypes'
  BY <1>1, <1>2 DEF EventsInv, EventsTypes, BeginTx, NoTx
<1>4. OneTransaction'
  BY <1>1, <1>2 DEF OneTransaction, BeginTx, NoTx
<1> QED BY <1>2, <1>3, <1>4, QuietKeeps DEF BeginTx

LEMMA CommitKeeps ==
    ASSUME EventsInv, NEW t \in Publishers, Commit(t)
    PROVE  EventsInv'
<1>1. /\ publisher' \in [Publishers -> Deliveries]
      /\ \A u \in Publishers : /\ publisher'[u].event = publisher[u].event
                               /\ publisher'[u].todo = publisher[u].todo
                               /\ ~publisher'[u].tx
  BY DEF EventsInv, EventsTypes, OneTransaction, Commit, Deliveries
<1>2. EventsTypes'
  BY <1>1, EventsAssumption DEF EventsInv, EventsTypes, Commit, NoTx
<1>3. OneTransaction'
  BY <1>1 DEF OneTransaction, Commit
<1> QED BY <1>1, <1>2, <1>3, QuietKeeps DEF Commit

LEMMA EventsNextKeeps ==
    ASSUME EventsInv, [EventsNext]_eventVars
    PROVE  EventsInv'
<1>1. ASSUME Subscribe \/ Unsubscribe PROVE EventsInv'
  <2>1. EventsTypes'
    BY <1>1, SubscriptionFacts DEF EventsInv, EventsTypes, Subscribe, Unsubscribe
  <2> QED BY <1>1, <2>1, QuietKeeps DEF EventsInv, OneTransaction, Subscribe, Unsubscribe
<1>2. ASSUME Poll PROVE EventsInv'
  <2>1. EventsTypes'
    BY <1>2, LogBounded, EventsAssumption DEF EventsInv, EventsTypes, Poll
  <2> QED BY <1>2, <2>1, QuietKeeps DEF EventsInv, OneTransaction, Poll
<1>3. ASSUME UNCHANGED eventVars PROVE EventsInv'
  <2>1. EventsTypes'
    BY <1>3 DEF EventsInv, EventsTypes, eventVars
  <2> QED BY <1>3, <2>1, QuietKeeps DEF EventsInv, OneTransaction, eventVars
<1> QED BY <1>1, <1>2, <1>3, DeliverKeeps, PublishKeeps, RollbackKeeps, BeginKeeps, CommitKeeps
        DEF EventsNext

(* The log holds what was published, once and in each publisher's order,     *)
(* until a rollback takes it back, whatever other handlers do, and no task   *)
(* with an open failure is shown COMPLETED (publish, append, transaction,    *)
(* ingest).                                                                  *)
THEOREM EventsAreSafe == EventsSpec => []EventsSafe
<1>1. ASSUME EventsInv PROVE EventsSafe
  <2>1. EventsTypeOK
    BY <1>1 DEF EventsInv, EventsTypes, StoredOnceInOrder, EventsTypeOK
  <2>2. EveryEventLogged
    BY <1>1, TodoFacts DEF EventsInv, StoredOnceInOrder, Stored, EveryEventLogged
  <2>3. CompletionHonest
    BY <1>1 DEF EventsInv, FailureShown, CompletionHonest
  <2> QED BY <2>1, <2>2, <2>3 DEF EventsSafe
<1> QED BY <1>1, EventsInitHolds, EventsNextKeeps, PTL DEF EventsSpec

-----------------------------------------------------------------------------
(* Models *)

Ollamas == {Ollama("loopback", m) : m \in Names \cup {""}}
Providers == {Stub} \cup Ollamas
             \cup {HttpProvider(i, e) : i \in ToSet(Http), e \in Endpoints}
Entry(p) == <<p.id, p>>

Switching == {"clear_providers", "clear_profiles", "set_provider", "set_profile"}
Calling == [step : {"scan", "profile", "try", "done"}, overlap : BOOLEAN, req : Requests,
            op : {"complete", "structured", "select"}, size : Nat, pos : Nat,
            entry : {Entry(p) : p \in Providers} \cup {<<>>}, ranked : Seq(Providers),
            outcome : {"none", "crashed", "no_suitable", "model_error", "escaped"} \cup Answers]
NotCalling == [step : {"idle"}, overlap : BOOLEAN]

ModelsTypes ==
    /\ providers \in Seq({Entry(p) : p \in Providers})
    /\ switch \in {NoSwitch} \cup [step : Switching, new : Ollamas]
    /\ caller \in [Callers -> Calling \cup NotCalling]

(* A profile belongs to the provider of its id. *)
OwnProfiles ==
    \A id \in DOMAIN profiles : \E p \in Providers : p.id = id /\ profiles[id] = ProfileOf(p)

(* Between switches every provider has its profile; during one, the tables   *)
(* are as far as the step says.                                              *)
SwitchStages ==
    /\ switch.step = "idle" =>
          providers # <<>> /\ \A i \in DOMAIN providers : providers[i][1] \in DOMAIN profiles
    /\ switch.step \in {"clear_profiles", "set_provider"} => providers = <<>>
    /\ switch.step = "set_profile" => providers = <<Entry(switch.new)>>

Ordinary(r) == r = [class |-> "INTERNAL", localOnly |-> FALSE, context |-> FALSE]

(* What a call has ranked, its request may be sent to. *)
CallAllowed(k) ==
    /\ \A i \in DOMAIN k.ranked : PrivacyAllowed(ProfileOf(k.ranked[i]), k.req)
    /\ k.step = "profile" => k.entry # <<>>
    /\ k.step = "try" => k.ranked # <<>>
RankedAllowed == \A c \in Callers : caller[c].step # "idle" => CallAllowed(caller[c])

(* A call no switch has met scans the table it started with, and an ordinary *)
(* request finds every provider it has looked at.                            *)
CallUndisturbed(k) ==
    /\ switch.step = "idle"
    /\ k.step \in {"scan", "profile"} => k.size = Len(providers)
    /\ k.step = "profile" => k.entry[1] \in DOMAIN profiles
    /\ Ordinary(k.req) =>
          /\ k.step = "scan" /\ k.pos # 0 => k.ranked # <<>>
          /\ k.step = "done" => k.outcome \notin {"no_suitable", "crashed"}
ScanUndisturbed ==
    \A c \in Callers : caller[c].step # "idle" /\ ~caller[c].overlap =>
        CallUndisturbed(caller[c])

ModelsInv == /\ ModelsTypes /\ OwnProfiles /\ SwitchStages /\ RankedAllowed
             /\ ScanUndisturbed /\ PrivacyKept

-----------------------------------------------------------------------------
LEMMA ProviderFacts ==
    ASSUME NEW p \in Providers
    PROVE  /\ p.kind \in {"stub", "ollama", "http"}
           /\ p.kind = "stub" => p.id = "unconfigured"
           /\ p.kind = "ollama" => p.id = "ollama" /\ p.endpoint = "loopback"
           /\ p.kind = "http" => p.id \notin {"ollama", "unconfigured"}
<1>1. CASE p = Stub
  BY <1>1 DEF Stub
<1>2. CASE p \in Ollamas
  <2>1. PICK m \in Names \cup {""} : p = Ollama("loopback", m)
    BY <1>2 DEF Ollamas
  <2> QED BY <2>1 DEF Ollama
<1>3. ASSUME NEW i \in ToSet(Http), NEW e \in Endpoints, p = HttpProvider(i, e)
      PROVE  p.kind = "http" /\ p.id \notin {"ollama", "unconfigured"}
  <2>1. p.kind = "http" /\ p.id = i
    BY <1>3 DEF HttpProvider
  <2>2. i \notin {"ollama", "unconfigured"}
    BY ModelsAssumption
  <2> QED BY <2>1, <2>2
<1> QED BY <1>1, <1>2, <1>3 DEF Providers

LEMMA ProfileFacts ==
    ASSUME NEW p \in Providers
    PROVE  /\ ProfileOf(p).local = (p.kind # "http")
           /\ ProfileOf(p).trusted = (p.kind = "http")
           /\ ProfileOf(p).trains = (p.kind # "ollama")
           /\ ProfileOf(p).classes = IF p.kind = "http" THEN {"PUBLIC", "INTERNAL", "PERSONAL"}
                                                        ELSE DataClasses
<1>1. CASE p.kind = "stub"
  BY <1>1 DEF ProfileOf, DefaultProfile
<1>2. CASE p.kind = "ollama"
  BY <1>2 DEF ProfileOf, DefaultProfile
<1>3. CASE p.kind = "http"
  BY <1>3 DEF ProfileOf, DefaultProfile
<1> QED BY <1>1, <1>2, <1>3, ProviderFacts

(* The id decides the profile. *)
LEMMA ProfileById ==
    ASSUME NEW p \in Providers, NEW q \in Providers, p.id = q.id
    PROVE  ProfileOf(p) = ProfileOf(q)
<1>1. p.kind = q.kind
  BY ProviderFacts
<1> QED BY <1>1, ProviderFacts DEF ProfileOf

(* A missing profile denies everything, so a scan that allows a provider has *)
(* read that provider's own profile.                                         *)
LEMMA DefaultDenies ==
    ASSUME NEW r \in Requests
    PROVE  ~PrivacyAllowed(DefaultProfile, r)
BY ModelsAssumption DEF PrivacyAllowed, DefaultProfile

LEMMA AllowedByOwn ==
    ASSUME OwnProfiles, NEW p \in Providers, NEW r \in Requests,
           PrivacyAllowed(ReadProfile(p.id), r)
    PROVE  PrivacyAllowed(ProfileOf(p), r)
<1>1. p.id \in DOMAIN profiles
  BY DefaultDenies DEF ReadProfile
<1>2. PICK q \in Providers : q.id = p.id /\ profiles[p.id] = ProfileOf(q)
  BY <1>1 DEF OwnProfiles
<1> QED BY <1>1, <1>2, ProfileById DEF ReadProfile

(* An ordinary request is let through by every profile. *)
LEMMA OrdinaryAllowed ==
    ASSUME NEW p \in Providers, NEW r, Ordinary(r)
    PROVE  PrivacyAllowed(ProfileOf(p), r) /\ Capable(p, r)
<1>1. "INTERNAL" \in ProfileOf(p).classes
  BY ProfileFacts DEF DataClasses
<1> QED BY <1>1 DEF Ordinary, PrivacyAllowed, Capable

(* What a request allows, its class allows. *)
LEMMA ClassAllowed ==
    ASSUME NEW p \in Providers, NEW r \in Requests, PrivacyAllowed(ProfileOf(p), r)
    PROVE  /\ PrivacyAllowed(ProfileOf(p), [class |-> r.class, localOnly |-> FALSE])
           /\ r.class = "SECRET" => p.endpoint = "loopback"
<1>1. /\ r.class \in DataClasses /\ r.localOnly \in BOOLEAN
  BY ModelsAssumption
<1> DEFINE f == ProfileOf(p)
           s == [class |-> r.class, localOnly |-> FALSE]
<1>2. s.class = r.class /\ s.localOnly = FALSE
  OBVIOUS
<1>3. f.local \in BOOLEAN /\ f.trusted \in BOOLEAN /\ f.trains \in BOOLEAN
  BY ProfileFacts
<1> HIDE DEF f, s
<1>4. PrivacyAllowed(f, r)
  BY DEF f
<1>5. PrivacyAllowed(f, s)
  BY <1>1, <1>2, <1>3, <1>4 DEF PrivacyAllowed, DataClasses
<1>6. r.class = "SECRET" => f.local /\ ~f.trains
  BY <1>4 DEF PrivacyAllowed
<1>7. f.local /\ ~f.trains => p.endpoint = "loopback"
  BY ProfileFacts, ProviderFacts DEF f
<1> QED BY <1>5, <1>6, <1>7 DEF f, s

(* Ranking inserts the candidate and keeps the others. *)
LEMMA RankedFacts ==
    ASSUME NEW ranked \in Seq(Providers), NEW p \in Providers
    PROVE  /\ Ranked(ranked, p) \in Seq(Providers)
           /\ Ranked(ranked, p) # <<>>
           /\ \A k \in DOMAIN Ranked(ranked, p) :
                 \/ Ranked(ranked, p)[k] = p
                 \/ \E j \in DOMAIN ranked : Ranked(ranked, p)[k] = ranked[j]
<1> DEFINE before == {k \in DOMAIN ranked : ~Cheaper(p, ranked[k])}
           m == Cardinality(before)
           n == Len(ranked)
           front == SubSeq(ranked, 1, m)
           back == SubSeq(ranked, m + 1, n)
<1>1. n \in Nat /\ DOMAIN ranked = 1..n
  OBVIOUS
<1>2. m \in 0..n
  <2>1. IsFiniteSet(1..n) /\ Cardinality(1..n) = n
    <3>1. /\ IsFiniteSet(1..n)
          /\ Cardinality(1..n) = IF 1 > n THEN 0 ELSE n - 1 + 1
      BY <1>1, FS_Interval
    <3> QED BY <1>1, <3>1
  <2>2. before \in SUBSET (1..n)
    BY <1>1
  <2> HIDE DEF before
  <2>3. IsFiniteSet(before) /\ Cardinality(before) <= n
    BY <2>1, <2>2, FS_Subset
  <2> QED BY <1>1, <2>3, FS_CardinalityType
<1> HIDE DEF before, m
<1>3. /\ front \in Seq(Providers) /\ Len(front) = m
      /\ \A k \in 1..m : front[k] = ranked[k]
  BY <1>1, <1>2
<1>4. /\ back \in Seq(Providers) /\ Len(back) = n - m
      /\ \A k \in 1..(n - m) : back[k] = ranked[m + k]
  <2>1. Len(back) = n - m /\ back \in Seq(Providers)
    <3>1. m + 1 \in Int /\ n \in Int /\ \A i \in (m + 1)..n : ranked[i] \in Providers
      BY <1>1, <1>2
    <3>2. /\ back \in Seq(Providers)
          /\ Len(back) = IF m + 1 <= n THEN n - (m + 1) + 1 ELSE 0
      BY <3>1, SubSeqProperties
    <3>3. m \in Int /\ n \in Int /\ m <= n
      BY <1>1, <1>2
    <3> HIDE DEF back, n
    <3>4. n - (m + 1) + 1 = n - m /\ (m + 1 <= n \/ n - m = 0)
      BY <3>3
    <3>5. CASE m + 1 <= n
      BY <3>2, <3>4, <3>5
    <3>6. CASE ~(m + 1 <= n)
      BY <3>2, <3>4, <3>6
    <3> QED BY <3>5, <3>6
  <2>2. \A k \in 1..(n - m) : back[k] = ranked[m + k]
    BY <1>1, <1>2
  <2> QED BY <2>1, <2>2
<1>5. Ranked(ranked, p) = (front \o <<p>>) \o back
  <2>1. Ranked(ranked, p) = SubSeq(ranked, 1, (1 + m) - 1) \o <<p>> \o SubSeq(ranked, 1 + m, n)
    BY DEF Ranked, InsertAt, m, before
  <2>2. (1 + m) - 1 = m /\ 1 + m = m + 1
    BY <1>2
  <2> QED BY <2>1, <2>2
<1> DEFINE to == front \o <<p>>
           new == to \o back
<1> HIDE DEF front, back
<1>6. /\ to \in Seq(Providers) /\ Len(to) = m + 1
      /\ \A k \in 1..m : to[k] = front[k]
      /\ to[m + 1] = p
  BY <1>2, <1>3
<1> HIDE DEF to
<1>7. /\ new \in Seq(Providers) /\ Len(new) = n + 1
      /\ \A k \in 1..(m + 1) : new[k] = to[k]
      /\ \A k \in (m + 2)..(n + 1) : new[k] = back[k - (m + 1)]
  <2>1. /\ new \in Seq(Providers) /\ Len(new) = Len(to) + Len(back)
        /\ \A k \in 1..Len(to) + Len(back) :
              new[k] = IF k <= Len(to) THEN to[k] ELSE back[k - Len(to)]
    BY <1>4, <1>6, ConcatProperties
  <2> HIDE DEF new
  <2>2. Len(to) = m + 1 /\ Len(to) + Len(back) = n + 1
    BY <1>1, <1>2, <1>4, <1>6
  <2> QED BY <1>1, <1>2, <2>1, <2>2
<1> HIDE DEF new
<1>8. DOMAIN new = 1..(n + 1)
  BY <1>1, <1>2, <1>7
<1>9. ASSUME NEW k \in DOMAIN new
      PROVE  new[k] = p \/ \E j \in DOMAIN ranked : new[k] = ranked[j]
  <2>1. CASE k \in 1..m
    BY <1>1, <1>2, <1>3, <1>6, <1>7, <2>1
  <2>2. CASE k = m + 1
    BY <1>2, <1>6, <1>7, <2>2
  <2>3. CASE k \in (m + 2)..(n + 1)
    <3>1. k - (m + 1) \in 1..(n - m) /\ m + (k - (m + 1)) = k - 1 /\ k - 1 \in 1..n
      BY <1>1, <1>2, <2>3
    <3> QED BY <1>1, <1>4, <1>7, <2>3, <3>1
  <2> QED BY <1>1, <1>2, <1>8, <2>1, <2>2, <2>3
<1>10. new # <<>>
  BY <1>1, <1>8
<1> QED BY <1>5, <1>7, <1>9, <1>10 DEF new, to

LEMMA CompleteFacts ==
    ASSUME NEW p \in Providers, NEW reply \in Replies
    PROVE  Complete(p, reply) \in {"unsent", "model_error", "escaped"} \cup Answers
<1>1. reply \in Failures \cup Unexpected \cup Answers
  BY DEF Replies
<1>2. /\ OllamaComplete(p, reply) \in {"unsent", "model_error", "escaped"} \cup Answers
      /\ HttpComplete(p, reply) \in {"unsent", "model_error", "escaped"} \cup Answers
  BY <1>1 DEF OllamaComplete, HttpComplete, Failures, Unexpected, Answers
<1> QED BY <1>2, ProviderFacts DEF Complete, StubComplete

-----------------------------------------------------------------------------
LEMMA ModelsInitHolds == ModelsInit => ModelsInv
<1> SUFFICES ASSUME ModelsInit PROVE ModelsInv
  OBVIOUS
<1>1. PICK ps \in Registered :
        /\ providers = Entries(ps)
        /\ profiles = [i \in {p.id : p \in ToSet(ps)} |->
                          ProfileOf(CHOOSE p \in ToSet(ps) : p.id = i)]
        /\ switch = NoSwitch
        /\ caller = [c \in Callers |-> Idle]
        /\ sent = {}
  BY DEF ModelsInit
<1>2. ps \in Seq(Providers) /\ ps # <<>>
  <2>1. CASE ps = <<Stub>>
    BY <2>1 DEF Providers
  <2>2. ASSUME NEW n \in 1..Len(Http), NEW e \in Endpoints,
               ps = [i \in 1..n |-> HttpProvider(Http[i], e)]
        PROVE  ps \in Seq(Providers) /\ ps # <<>>
    <3>1. Len(Http) \in Nat /\ DOMAIN Http = 1..Len(Http)
      BY ModelsAssumption
    <3>2. n \in Nat /\ 1 \in 1..n /\ 1..n \in SUBSET DOMAIN Http
      BY <3>1
    <3>3. \A i \in 1..n : HttpProvider(Http[i], e) \in Providers
      BY <3>2 DEF Providers, ToSet
    <3>4. DOMAIN ps = 1..n /\ ps \in Seq(Providers)
      BY <2>2, <3>2, <3>3
    <3> QED BY <3>2, <3>4
  <2> QED BY <2>1, <2>2 DEF Registered
<1>3. /\ Len(ps) \in Nat /\ Len(ps) # 0 /\ DOMAIN ps = 1..Len(ps)
      /\ \A i \in 1..Len(ps) : ps[i] \in Providers
      /\ ToSet(ps) \in SUBSET Providers
  BY <1>2 DEF ToSet
<1>4. /\ providers \in Seq({Entry(p) : p \in Providers})
      /\ DOMAIN providers = 1..Len(ps)
      /\ \A i \in 1..Len(ps) : providers[i] = <<ps[i].id, ps[i]>>
  <2>1. providers = [i \in 1..Len(ps) |-> <<ps[i].id, ps[i]>>]
    BY <1>1 DEF Entries
  <2>2. \A i \in 1..Len(ps) : <<ps[i].id, ps[i]>> \in {Entry(p) : p \in Providers}
    BY <1>3 DEF Entry
  <2> QED BY <1>3, <2>1, <2>2
<1>5. ModelsTypes
  <2>1. Idle \in NotCalling
    BY DEF Idle, NotCalling
  <2> QED BY <1>1, <1>4, <2>1 DEF ModelsTypes
<1>6. OwnProfiles
  <2> SUFFICES ASSUME NEW id \in DOMAIN profiles
               PROVE  \E p \in Providers : p.id = id /\ profiles[id] = ProfileOf(p)
    BY DEF OwnProfiles
  <2>1. \E p \in ToSet(ps) : p.id = id
    BY <1>1
  <2>2. profiles[id] = ProfileOf(CHOOSE p \in ToSet(ps) : p.id = id)
    BY <1>1
  <2> QED BY <1>3, <2>1, <2>2
<1>7. SwitchStages
  <2>1. providers # <<>>
    BY <1>3, <1>4
  <2>2. \A i \in 1..Len(ps) : providers[i][1] \in DOMAIN profiles
    BY <1>1, <1>3, <1>4 DEF ToSet
  <2> QED BY <1>1, <1>4, <2>1, <2>2 DEF SwitchStages, NoSwitch
<1>8. RankedAllowed /\ ScanUndisturbed /\ PrivacyKept
  BY <1>1 DEF RankedAllowed, ScanUndisturbed, PrivacyKept, Idle
<1> QED BY <1>5, <1>6, <1>7, <1>8 DEF ModelsInv

(* While a switch is going on every call in progress has met it. *)
LEMMA SwitchKeeps ==
    ASSUME ModelsInv, switch.step # "idle", ModelsTypes', OwnProfiles', SwitchStages',
           UNCHANGED <<caller, sent>>
    PROVE  ModelsInv'
<1>1. RankedAllowed'
  BY DEF ModelsInv, RankedAllowed
<1>2. ScanUndisturbed'
  BY DEF ModelsInv, ScanUndisturbed, CallUndisturbed
<1>3. PrivacyKept'
  BY DEF ModelsInv, PrivacyKept
<1> QED BY <1>1, <1>2, <1>3 DEF ModelsInv

LEMMA BeginSwitchKeeps ==
    ASSUME ModelsInv, NEW e \in Endpoints, NEW m \in Names \cup {""}, BeginSwitch(e, m)
    PROVE  ModelsInv'
<1>1. Ollama(e, m) \in Ollamas
  BY DEF BeginSwitch, OllamaAccepts, Ollamas
<1>2. /\ switch' = [step |-> "clear_providers", new |-> Ollama(e, m)]
      /\ UNCHANGED <<providers, profiles, sent>>
      /\ caller' = [c \in Callers |-> [caller[c] EXCEPT !.overlap = TRUE]]
  BY DEF BeginSwitch
<1>3. ASSUME NEW c \in Callers
      PROVE  /\ caller'[c] \in Calling \cup NotCalling /\ caller'[c].overlap
             /\ caller'[c].step = caller[c].step
             /\ caller[c].step # "idle" =>
                   /\ caller'[c].ranked = caller[c].ranked /\ caller'[c].req = caller[c].req
                   /\ caller'[c].entry = caller[c].entry
  <2>1. caller'[c] = [caller[c] EXCEPT !.overlap = TRUE]
    BY <1>2
  <2>2. CASE caller[c] \in Calling
    BY <2>1, <2>2 DEF Calling
  <2>3. CASE caller[c] \in NotCalling
    BY <2>1, <2>3 DEF NotCalling
  <2> QED BY <2>2, <2>3 DEF ModelsInv, ModelsTypes
<1>4. ModelsTypes'
  <2>1. switch' \in [step : Switching, new : Ollamas]
    BY <1>1, <1>2 DEF Switching
  <2>2. caller' \in [Callers -> Calling \cup NotCalling]
    BY <1>2, <1>3
  <2> QED BY <1>2, <2>1, <2>2 DEF ModelsInv, ModelsTypes
<1>5. OwnProfiles'
  BY <1>2 DEF ModelsInv, OwnProfiles
<1>6. SwitchStages'
  BY <1>2 DEF SwitchStages
<1>7. RankedAllowed'
  BY <1>3 DEF ModelsInv, RankedAllowed, CallAllowed
<1>8. ScanUndisturbed'
  BY <1>3 DEF ScanUndisturbed
<1>9. PrivacyKept'
  BY <1>2 DEF ModelsInv, PrivacyKept
<1> QED BY <1>4, <1>5, <1>6, <1>7, <1>8, <1>9 DEF ModelsInv

LEMMA NewIsOllama ==
    ASSUME ModelsTypes, switch.step # "idle"
    PROVE  /\ switch \in [step : Switching, new : Ollamas]
           /\ switch.new \in Providers
BY DEF ModelsTypes, NoSwitch, Providers

LEMMA SwitchStepsKeep ==
    ASSUME ModelsInv, ClearProviders \/ ClearProfiles \/ SetProvider \/ SetProfile
    PROVE  ModelsInv'
<1>1. switch.step # "idle" /\ UNCHANGED <<caller, sent>>
  BY DEF ClearProviders, ClearProfiles, SetProvider, SetProfile
<1>2. switch \in [step : Switching, new : Ollamas] /\ switch.new \in Providers
  BY <1>1, NewIsOllama DEF ModelsInv
<1>3. CASE ClearProviders
  <2>1. /\ switch' \in [step : Switching, new : Ollamas] /\ switch'.step = "clear_profiles"
        /\ providers' = <<>> /\ UNCHANGED profiles
    BY <1>2, <1>3 DEF ClearProviders, Switching
  <2>2. ModelsTypes' /\ OwnProfiles' /\ SwitchStages'
    BY <1>1, <2>1 DEF ModelsInv, ModelsTypes, OwnProfiles, SwitchStages
  <2> QED BY <1>1, <2>2, SwitchKeeps
<1>4. CASE ClearProfiles
  <2>1. /\ switch' \in [step : Switching, new : Ollamas] /\ switch'.step = "set_provider"
        /\ profiles' = <<>> /\ UNCHANGED providers
    BY <1>2, <1>4 DEF ClearProfiles, Switching
  <2>2. ModelsTypes' /\ OwnProfiles' /\ SwitchStages'
    BY <1>1, <1>4, <2>1 DEF ModelsInv, ModelsTypes, OwnProfiles, SwitchStages, ClearProfiles
  <2> QED BY <1>1, <2>2, SwitchKeeps
<1>5. CASE SetProvider
  <2>1. /\ switch' \in [step : Switching, new : Ollamas] /\ switch'.step = "set_profile"
        /\ switch'.new = switch.new /\ UNCHANGED profiles
    BY <1>2, <1>5 DEF SetProvider, Switching
  <2>2. providers = <<>>
    BY <1>5 DEF SetProvider, ModelsInv, SwitchStages
  <2>3. IndexOf(switch.new.id) = 0
    BY <2>2 DEF IndexOf
  <2>4. providers' = <<Entry(switch.new)>>
    BY <1>5, <2>2, <2>3 DEF SetProvider, Assigned, Entry
  <2>5. ModelsTypes' /\ OwnProfiles' /\ SwitchStages'
    BY <1>1, <1>2, <2>1, <2>4 DEF ModelsInv, ModelsTypes, OwnProfiles, SwitchStages
  <2> QED BY <1>1, <2>5, SwitchKeeps
<1>6. CASE SetProfile
  <2>1. /\ switch' = NoSwitch /\ UNCHANGED providers
        /\ profiles' = [i \in DOMAIN profiles \cup {switch.new.id} |->
                       IF i = switch.new.id THEN ProfileOf(switch.new) ELSE profiles[i]]
    BY <1>6 DEF SetProfile
  <2>2. providers = <<Entry(switch.new)>>
    BY <1>6 DEF SetProfile, ModelsInv, SwitchStages
  <2>3. /\ providers # <<>> /\ DOMAIN providers = {1}
        /\ providers[1][1] = switch.new.id
    BY <2>2 DEF Entry
  <2>4. ModelsTypes'
    BY <1>1, <2>1 DEF ModelsInv, ModelsTypes
  <2>5. OwnProfiles'
    BY <1>2, <2>1 DEF ModelsInv, OwnProfiles
  <2>6. SwitchStages'
    BY <2>1, <2>3 DEF SwitchStages, NoSwitch
  <2> QED BY <1>1, <2>4, <2>5, <2>6, SwitchKeeps
<1> QED BY <1>3, <1>4, <1>5, <1>6

-----------------------------------------------------------------------------
(* A step of one call. *)
LEMMA CallKeeps ==
    ASSUME ModelsInv, UNCHANGED <<providers, profiles, switch>>, PrivacyKept',
           NEW c \in Callers, NEW k \in Calling, caller' = [caller EXCEPT ![c] = k],
           CallAllowed(k), ~k.overlap => CallUndisturbed(k)
    PROVE  ModelsInv'
<1>1. /\ caller'[c] = k
      /\ \A d \in Callers : d # c => caller'[d] = caller[d]
      /\ caller' \in [Callers -> Calling \cup NotCalling]
  BY DEF ModelsInv, ModelsTypes
<1>2. ModelsTypes'
  BY <1>1 DEF ModelsInv, ModelsTypes
<1>3. OwnProfiles' /\ SwitchStages'
  BY DEF ModelsInv, OwnProfiles, SwitchStages
<1>4. RankedAllowed'
  BY <1>1 DEF ModelsInv, RankedAllowed, CallAllowed
<1>5. ScanUndisturbed'
  BY <1>1 DEF ModelsInv, ScanUndisturbed, CallUndisturbed
<1> QED BY <1>2, <1>3, <1>4, <1>5 DEF ModelsInv

LEMMA InCall ==
    ASSUME ModelsInv, NEW c \in Callers, caller[c].step # "idle"
    PROVE  /\ caller[c] \in Calling /\ CallAllowed(caller[c])
           /\ ~caller[c].overlap => CallUndisturbed(caller[c])
BY DEF ModelsInv, ModelsTypes, NotCalling, RankedAllowed, ScanUndisturbed

LEMMA AskKeeps ==
    ASSUME ModelsInv, NEW c \in Callers, NEW r \in Requests,
           NEW op \in {"complete", "structured", "select"}, Ask(c, r, op)
    PROVE  ModelsInv'
<1> DEFINE k == [step |-> "scan", overlap |-> switch.step # "idle", req |-> r, op |-> op,
                 size |-> Len(providers), pos |-> 0, entry |-> << >>, ranked |-> << >>,
                 outcome |-> "none"]
<1>1. Len(providers) \in Nat
  BY DEF ModelsInv, ModelsTypes
<1>2. k \in Calling
  BY <1>1 DEF Calling
<1>3. CallAllowed(k) /\ (~k.overlap => CallUndisturbed(k))
  <2>1. /\ k.step = "scan" /\ k.size = Len(providers) /\ k.pos = 0 /\ k.ranked = <<>>
        /\ k.overlap = (switch.step # "idle")
    OBVIOUS
  <2> HIDE DEF k
  <2>2. CallAllowed(k)
    BY <2>1 DEF CallAllowed
  <2>3. ~k.overlap => switch.step = "idle"
    BY <2>1
  <2>4. switch.step = "idle" => CallUndisturbed(k)
    BY <2>1 DEF CallUndisturbed
  <2> QED BY <2>2, <2>3, <2>4
<1>4. PrivacyKept'
  BY DEF Ask, ModelsInv, PrivacyKept
<1> HIDE DEF k
<1> QED BY <1>2, <1>3, <1>4, CallKeeps DEF Ask, k

LEMMA NextEntryKeeps ==
    ASSUME ModelsInv, NEW c \in Callers, NextEntry(c)
    PROVE  ModelsInv'
<1> DEFINE x == caller[c]
<1>1. /\ x.step = "scan" /\ x \in Calling /\ CallAllowed(x)
      /\ ~x.overlap => CallUndisturbed(x)
      /\ UNCHANGED <<providers, profiles, switch, sent>>
  BY InCall DEF NextEntry
<1>2. PrivacyKept'
  BY <1>1 DEF ModelsInv, PrivacyKept
<1>3. CASE Len(providers) # x.size
  <2> DEFINE k == [x EXCEPT !.step = "done", !.outcome = "crashed"]
  <2>1. k \in Calling /\ CallAllowed(k) /\ k.overlap = x.overlap
    BY <1>1 DEF Calling, CallAllowed
  <2>2. x.overlap
    BY <1>1, <1>3 DEF CallUndisturbed, Calling
  <2>3. caller' = [caller EXCEPT ![c] = k]
    BY <1>3 DEF NextEntry, EndCall
  <2> HIDE DEF k, x
  <2> QED BY <1>1, <1>2, <2>1, <2>2, <2>3, CallKeeps
<1>4. CASE Len(providers) = x.size
  <2> DEFINE k == [x EXCEPT !.step = "profile", !.pos = x.pos + 1, !.entry = providers[x.pos + 1]]
  <2>1. x.pos + 1 \in DOMAIN providers /\ x.pos \in Nat
    BY <1>1, <1>4 DEF NextEntry, ModelsInv, ModelsTypes, Calling
  <2>2. PICK p \in Providers : providers[x.pos + 1] = Entry(p)
    BY <2>1 DEF ModelsInv, ModelsTypes
  <2>3. Entry(p) # <<>>
    BY DEF Entry
  <2>4. /\ k \in Calling /\ k.ranked = x.ranked /\ k.req = x.req
        /\ k.step = "profile" /\ k.entry = Entry(p)
    <3>1. x.pos + 1 \in Nat /\ Entry(p) \in {Entry(q) : q \in Providers} \cup {<<>>}
      BY <2>1
    <3>2. k = [x EXCEPT !.step = "profile", !.pos = x.pos + 1, !.entry = Entry(p)]
      BY <2>2
    <3> HIDE DEF k, x
    <3> QED BY <1>1, <3>1, <3>2 DEF Calling
  <2>8. CallAllowed(k)
    BY <1>1, <2>3, <2>4 DEF CallAllowed
  <2>5. /\ k.overlap = x.overlap /\ k.size = x.size /\ k.step = "profile"
        /\ k.entry = providers[x.pos + 1]
    BY <1>1 DEF Calling
  <2>6. ~k.overlap => CallUndisturbed(k)
    BY <1>1, <1>4, <2>1, <2>5 DEF CallUndisturbed, ModelsInv, SwitchStages
  <2>7. caller' = [caller EXCEPT ![c] = k]
    BY <1>4 DEF NextEntry
  <2> HIDE DEF k, x
  <2> QED BY <1>1, <1>2, <2>4, <2>6, <2>7, <2>8, CallKeeps
<1> QED BY <1>3, <1>4

LEMMA RankEntryKeeps ==
    ASSUME ModelsInv, NEW c \in Callers, RankEntry(c)
    PROVE  ModelsInv'
<1> DEFINE x == caller[c]
           ok == PrivacyAllowed(ReadProfile(x.entry[1]), x.req) /\ Capable(x.entry[2], x.req)
           k == [x EXCEPT !.step = "scan",
                          !.ranked = IF ok THEN Ranked(x.ranked, x.entry[2])
                                       ELSE x.ranked]
<1>1. /\ x.step = "profile" /\ x \in Calling /\ CallAllowed(x)
      /\ ~x.overlap => CallUndisturbed(x)
      /\ UNCHANGED <<providers, profiles, switch, sent>>
      /\ caller' = [caller EXCEPT ![c] = k]
  BY InCall DEF RankEntry
<1>2. PrivacyKept'
  BY <1>1 DEF ModelsInv, PrivacyKept
<1>3. PICK p \in Providers : x.entry = Entry(p)
  BY <1>1 DEF CallAllowed, Calling
<1>4. x.entry[1] = p.id /\ x.entry[2] = p
  BY <1>3 DEF Entry
<1>5. /\ x.ranked \in Seq(Providers) /\ x.req \in Requests
  BY <1>1 DEF Calling
<1> DEFINE new == IF ok THEN Ranked(x.ranked, p) ELSE x.ranked
<1>6. k = [x EXCEPT !.step = "scan", !.ranked = new]
  BY <1>4
<1>7. new \in Seq(Providers)
  BY <1>5, RankedFacts
<1>8. \A i \in DOMAIN new : PrivacyAllowed(ProfileOf(new[i]), x.req)
  <2>1. CASE ok
    <3>1. PrivacyAllowed(ProfileOf(p), x.req)
      BY <1>4, <1>5, <2>1, AllowedByOwn DEF ModelsInv
    <3>2. new = Ranked(x.ranked, p)
      BY <2>1
    <3> HIDE DEF new
    <3> QED BY <1>1, <1>5, <3>1, <3>2, RankedFacts DEF CallAllowed
  <2>2. CASE ~ok
    BY <1>1, <2>2 DEF CallAllowed
  <2> QED BY <2>1, <2>2
<1>9. ~x.overlap /\ Ordinary(x.req) => new # <<>>
  <2> SUFFICES ASSUME ~x.overlap, Ordinary(x.req) PROVE new # <<>>
    OBVIOUS
  <2>1. p.id \in DOMAIN profiles
    BY <1>1, <1>4 DEF CallUndisturbed
  <2>2. ReadProfile(p.id) = ProfileOf(p)
    BY <2>1, ProfileById DEF ReadProfile, ModelsInv, OwnProfiles
  <2>3. ok
    BY <1>4, <2>2, OrdinaryAllowed
  <2>4. new = Ranked(x.ranked, p)
    BY <2>3
  <2> QED BY <1>5, <2>4, RankedFacts
<1> HIDE DEF new, ok, x
<1>10. /\ k \in Calling /\ k.step = "scan" /\ k.ranked = new /\ k.req = x.req
       /\ k.overlap = x.overlap /\ k.size = x.size
  <2> HIDE DEF k
  <2> QED BY <1>1, <1>6, <1>7 DEF Calling
<1> HIDE DEF k
<1>11. CallAllowed(k)
  BY <1>8, <1>10 DEF CallAllowed
<1>12. ~k.overlap => CallUndisturbed(k)
  BY <1>1, <1>9, <1>10 DEF CallUndisturbed
<1> QED BY <1>1, <1>2, <1>10, <1>11, <1>12, CallKeeps

LEMMA EndScanKeeps ==
    ASSUME ModelsInv, NEW c \in Callers, EndScan(c)
    PROVE  ModelsInv'
<1> DEFINE x == caller[c]
<1>1. /\ x.step = "scan" /\ x \in Calling /\ CallAllowed(x)
      /\ ~x.overlap => CallUndisturbed(x)
      /\ UNCHANGED <<providers, profiles, switch, sent>>
  BY InCall DEF EndScan
<1>2. PrivacyKept'
  BY <1>1 DEF ModelsInv, PrivacyKept
<1>3. CASE x.ranked = <<>>
  <2> DEFINE k == [x EXCEPT !.step = "done", !.outcome = "no_suitable"]
  <2>1. caller' = [caller EXCEPT ![c] = k]
    BY <1>3 DEF EndScan, EndCall
  <2>2. /\ k \in Calling /\ k.step = "done" /\ k.ranked = x.ranked
        /\ k.overlap = x.overlap /\ k.req = x.req
    BY <1>1 DEF Calling
  <2>3. ~x.overlap => ~Ordinary(x.req)
    <3> SUFFICES ASSUME ~x.overlap PROVE ~Ordinary(x.req)
      OBVIOUS
    <3>1. providers # <<>>
      BY <1>1 DEF CallUndisturbed, ModelsInv, SwitchStages
    <3>2. Len(providers) \in Nat /\ Len(providers) # 0
      BY <3>1 DEF ModelsInv, ModelsTypes
    <3>3. x.pos \in Nat /\ x.pos >= Len(providers)
      BY <1>1 DEF EndScan, Calling
    <3> QED BY <1>1, <1>3, <3>2, <3>3 DEF CallUndisturbed
  <2> HIDE DEF k, x
  <2>4. CallAllowed(k) /\ (~k.overlap => CallUndisturbed(k))
    BY <1>1, <2>2, <2>3 DEF CallAllowed, CallUndisturbed
  <2> QED BY <1>1, <1>2, <2>1, <2>2, <2>4, CallKeeps
<1>4. CASE x.ranked # <<>>
  <2> DEFINE new == IF x.op = "select" THEN SubSeq(x.ranked, 1, 1) ELSE x.ranked
             k == [x EXCEPT !.step = "try", !.ranked = new]
  <2>1. caller' = [caller EXCEPT ![c] = k]
    BY <1>4 DEF EndScan
  <2>2. x.ranked \in Seq(Providers)
    BY <1>1 DEF Calling
  <2>3. /\ new \in Seq(Providers) /\ new # <<>>
        /\ \A i \in DOMAIN new : new[i] = x.ranked[i] /\ i \in DOMAIN x.ranked
    <3>1. Len(x.ranked) \in Nat /\ Len(x.ranked) # 0 /\ DOMAIN x.ranked = 1..Len(x.ranked)
      BY <1>4, <2>2
    <3>2. /\ SubSeq(x.ranked, 1, 1) \in Seq(Providers)
          /\ DOMAIN SubSeq(x.ranked, 1, 1) = {1} /\ SubSeq(x.ranked, 1, 1)[1] = x.ranked[1]
      BY <2>2, <3>1
    <3> QED BY <1>4, <2>2, <3>1, <3>2
  <2> HIDE DEF new
  <2>4. /\ k \in Calling /\ k.step = "try" /\ k.ranked = new
        /\ k.overlap = x.overlap /\ k.req = x.req
    BY <1>1, <2>3 DEF Calling
  <2> HIDE DEF k, x
  <2>5. CallAllowed(k) /\ (~k.overlap => CallUndisturbed(k))
    BY <1>1, <2>3, <2>4 DEF CallAllowed, CallUndisturbed
  <2> QED BY <1>1, <1>2, <2>1, <2>4, <2>5, CallKeeps
<1> QED BY <1>3, <1>4

LEMMA TryKeeps ==
    ASSUME ModelsInv, NEW c \in Callers, NEW reply \in Replies, Try(c, reply)
    PROVE  ModelsInv'
<1> DEFINE x == caller[c]
           p == Head(x.ranked)
           result == Complete(p, reply)
           final == Structured(result, x.op)
<1>1. /\ x.step = "try" /\ x \in Calling /\ CallAllowed(x)
      /\ ~x.overlap => CallUndisturbed(x)
      /\ UNCHANGED <<providers, profiles, switch>>
  BY InCall DEF Try
<1>2. /\ x.ranked \in Seq(Providers) /\ x.ranked # <<>> /\ x.req \in Requests
      /\ p \in Providers /\ PrivacyAllowed(ProfileOf(p), x.req)
  BY <1>1 DEF CallAllowed, Calling
<1>3. final \in {"unsent", "model_error", "escaped"} \cup Answers
  BY <1>2, CompleteFacts DEF Structured
<1>4. PrivacyKept'
  <2>1. sent' \in SUBSET (sent \cup {<<x.req.class, p>>})
    BY DEF Try
  <2>2. /\ PrivacyAllowed(ProfileOf(p), [class |-> x.req.class, localOnly |-> FALSE])
        /\ x.req.class = "SECRET" => p.endpoint = "loopback"
    BY <1>2, ClassAllowed
  <2> HIDE DEF x, p
  <2>3. <<x.req.class, p>>[1] = x.req.class /\ <<x.req.class, p>>[2] = p
    OBVIOUS
  <2> QED BY <2>1, <2>2, <2>3 DEF ModelsInv, PrivacyKept
<1>5. ASSUME NEW k \in Calling, caller' = [caller EXCEPT ![c] = k],
             k.overlap = x.overlap, k.req = x.req,
             \A i \in DOMAIN k.ranked : \E j \in DOMAIN x.ranked : k.ranked[i] = x.ranked[j],
             \/ k.step = "try" /\ k.ranked # <<>>
             \/ k.step = "done" /\ k.outcome \in {"model_error", "escaped"} \cup Answers
      PROVE  ModelsInv'
  <2> HIDE DEF x
  <2>1. CallAllowed(k)
    BY <1>1, <1>5 DEF CallAllowed
  <2>2. ~k.overlap => CallUndisturbed(k)
    BY <1>1, <1>5 DEF CallUndisturbed, Answers
  <2> QED BY <1>1, <1>4, <1>5, <2>1, <2>2, CallKeeps
<1>6. CASE Len(x.ranked) > 1 /\ caller' = [caller EXCEPT ![c].ranked = Tail(@)]
  <2> DEFINE k == [x EXCEPT !.ranked = Tail(x.ranked)]
  <2>1. caller' = [caller EXCEPT ![c] = k]
    BY <1>6
  <2>2. /\ Tail(x.ranked) \in Seq(Providers) /\ Tail(x.ranked) # <<>>
        /\ \A i \in DOMAIN Tail(x.ranked) :
              i + 1 \in DOMAIN x.ranked /\ Tail(x.ranked)[i] = x.ranked[i + 1]
    BY <1>2, <1>6
  <2>3. /\ k \in Calling /\ k.step = "try" /\ k.ranked = Tail(x.ranked)
        /\ k.overlap = x.overlap /\ k.req = x.req
    BY <1>1, <2>2 DEF Calling
  <2> HIDE DEF k, x
  <2> QED BY <1>5, <2>1, <2>2, <2>3
<1>7. ASSUME NEW outcome \in {"model_error", "escaped"} \cup Answers, EndCall(c, outcome)
      PROVE  ModelsInv'
  <2> DEFINE k == [x EXCEPT !.step = "done", !.outcome = outcome]
  <2>1. caller' = [caller EXCEPT ![c] = k]
    BY <1>7 DEF EndCall
  <2>2. /\ k \in Calling /\ k.step = "done" /\ k.outcome = outcome /\ k.ranked = x.ranked
        /\ k.overlap = x.overlap /\ k.req = x.req
    BY <1>1 DEF Calling
  <2> HIDE DEF k, x
  <2> QED BY <1>5, <2>1, <2>2
<1>8. \/ Len(x.ranked) > 1 /\ caller' = [caller EXCEPT ![c].ranked = Tail(@)]
      \/ EndCall(c, "model_error")
      \/ final \notin {"model_error", "unsent"} /\ EndCall(c, final)
  BY DEF Try
<1> HIDE DEF final, x
<1> QED BY <1>3, <1>6, <1>7, <1>8

LEMMA ModelsNextKeeps ==
    ASSUME ModelsInv, [ModelsNext]_modelVars
    PROVE  ModelsInv'
<1>1. ASSUME UNCHANGED modelVars PROVE ModelsInv'
  BY <1>1 DEF modelVars, ModelsInv, ModelsTypes, OwnProfiles, SwitchStages, RankedAllowed,
              CallAllowed, ScanUndisturbed, CallUndisturbed, PrivacyKept
<1> QED BY <1>1, BeginSwitchKeeps, SwitchStepsKeep, AskKeeps, NextEntryKeeps, RankEntryKeeps,
           EndScanKeeps, TryKeeps
        DEF ModelsNext

(* Whatever a switch does in the middle of a scan, data goes only where the  *)
(* provider's own profile lets it and SECRET data stays on the machine, and  *)
(* an ordinary request is refused only if a switch met it (candidates,       *)
(* _privacy_allowed, complete, set_model_settings).                          *)
THEOREM RoutingIsSafe == ModelsSpec => []RoutingSafe
<1>1. ASSUME ModelsInv PROVE RoutingSafe
  <2>1. ASSUME NEW c \in Callers, caller[c].step = "done",
               caller[c].outcome \in {"no_suitable", "crashed"}, Ordinary(caller[c].req)
        PROVE  caller[c].overlap
    <3>1. caller[c] \in Calling /\ (~caller[c].overlap => CallUndisturbed(caller[c]))
      BY <1>1, <2>1, InCall
    <3> QED BY <2>1, <3>1 DEF CallUndisturbed, Calling
  <2> QED BY <1>1, <2>1 DEF RoutingSafe, RefusedOnlyInSwitch, ModelsInv, Ordinary
<1> QED BY <1>1, ModelsInitHolds, ModelsNextKeeps, PTL DEF ModelsSpec
=============================================================================
