------------------------------- MODULE Skills -------------------------------
(***************************************************************************)
(* SkillRegistry, SkillCandidateStore and SkillPlanBuilder: the versions   *)
(* of one skill in the skills table, proposals that wait in memory for a   *)
(* decision, and plans built from a skill that was looked up.  Several     *)
(* curators work at once; each repository call is a step.  Version n       *)
(* stands for "1.0.n": _bump adds one to the last part and _version_key    *)
(* orders by it.                                                           *)
(***************************************************************************)
EXTENDS Naturals, FiniteSets

CONSTANTS MaxSkills,  \* bound on the rows ever created
          MaxVersion, \* bound on the version number
          ToolSets,   \* allowed_tools a skill may have
          Candidates, \* proposal ids
          Curators

ASSUME SkillsAssumption ==
    /\ MaxSkills \in Nat
    /\ MaxVersion \in Nat \ {0}
    /\ "none" \notin ToolSets
    /\ Candidates \cap {"none", "hand", "version"} = {}

Ids == 1..MaxSkills
SkillStatus == {"ACTIVE", "DISABLED", "ARCHIVED"}

VARIABLES
    skill,     \* id -> row of the skills table, NoSkill without one
    created,   \* how many rows were created
    candidate, \* _candidates: proposal -> "none", or its allowed_tools
    verdict,   \* proposal -> what was decided about it
    curator    \* what each curator's call is in the middle of

skillVars == <<skill, created, candidate, verdict, curator>>

NoSkill == [ver |-> 0, status |-> "none", tools |-> "none", origin |-> "none"]
AtRest == [at |-> "idle", id |-> 0, row |-> NoSkill]
Row(ver, status, tools, origin) ==
    [ver |-> ver, status |-> status, tools |-> tools, origin |-> origin]

SkillsInit ==
    /\ skill = [i \in Ids |-> NoSkill]
    /\ created = 0
    /\ candidate = [p \in Candidates |-> "none"]
    /\ verdict = [p \in Candidates |-> "none"]
    /\ curator = [u \in Curators |-> AtRest]

-----------------------------------------------------------------------------
Busy(u, at, id, row) == curator' = [curator EXCEPT ![u] = [at |-> at, id |-> id, row |-> row]]

(* repository.create of a new id: register of a hand-written skill, and the  *)
(* end of new_version and of approve.                                        *)
CreateRow(row) ==
    /\ created < MaxSkills
    /\ created' = created + 1
    /\ skill' = [skill EXCEPT ![created'] = row]

Register(u, ver, tools) ==
    /\ curator[u] = AtRest
    /\ CreateRow(Row(ver, "ACTIVE", tools, "hand"))
    /\ UNCHANGED <<candidate, verdict, curator>>

(* lookup without a version: the highest ACTIVE one. *)
Highest(i) ==
    /\ skill[i].status = "ACTIVE"
    /\ \A j \in Ids : skill[j].status = "ACTIVE" => skill[j].ver <= skill[i].ver

MutantNewVersion(u, tools) ==    \* the current record is updated in place
    /\ curator[u] = AtRest
    /\ \E i \in Ids :
          /\ Highest(i)
          /\ skill[i].ver < MaxVersion
          /\ Busy(u, "write", i, Row(skill[i].ver + 1, "ACTIVE", tools, skill[i].origin))
    /\ UNCHANGED <<skill, created, candidate, verdict>>

(* new_version: the current version is read, then a copy with the next       *)
(* number and the changes is created.                                        *)
NewVersion(u, tools) ==
    /\ curator[u] = AtRest
    /\ \E i \in Ids :
          /\ Highest(i)
          /\ skill[i].ver < MaxVersion
          /\ Busy(u, "create", 0, Row(skill[i].ver + 1, "ACTIVE", tools, "version"))
    /\ UNCHANGED <<skill, created, candidate, verdict>>

Create(u) ==
    /\ curator[u].at = "create"
    /\ CreateRow(curator[u].row)
    /\ curator' = [curator EXCEPT ![u] = AtRest]
    /\ UNCHANGED <<candidate, verdict>>

(* set_status reads the row ... *)
SetStatus(u, i, status) ==
    /\ curator[u] = AtRest
    /\ skill[i] # NoSkill
    /\ skill[i].status # status
    /\ Busy(u, "write", i, [skill[i] EXCEPT !.status = status])
    /\ UNCHANGED <<skill, created, candidate, verdict>>

(* ... and writes it back, inserting it again if it was deleted meanwhile. *)
WriteSkill(u) ==
    /\ curator[u].at = "write"
    /\ skill' = [skill EXCEPT ![curator[u].id] = curator[u].row]
    /\ curator' = [curator EXCEPT ![u] = AtRest]
    /\ UNCHANGED <<created, candidate, verdict>>

DeleteSkill(u, i) ==
    /\ curator[u] = AtRest
    /\ skill[i] # NoSkill
    /\ skill' = [skill EXCEPT ![i] = NoSkill]
    /\ UNCHANGED <<created, candidate, verdict, curator>>

-----------------------------------------------------------------------------
Propose(p, tools) ==
    /\ candidate[p] = "none" /\ verdict[p] = "none"
    /\ candidate' = [candidate EXCEPT ![p] = tools]
    /\ UNCHANGED <<skill, created, verdict, curator>>

MutantPopped(p) == candidate    \* get instead of pop
(* _candidates.pop *)
Popped(p) == [candidate EXCEPT ![p] = "none"]

(* approve takes the candidate out of the inbox, then registers it ACTIVE as *)
(* 1.0.0; a version register refuses loses the candidate.                    *)
ApproveSkill(u, p) ==
    /\ curator[u] = AtRest
    /\ candidate[p] # "none"
    /\ candidate' = Popped(p)
    /\ verdict' = [verdict EXCEPT ![p] = "approved"]
    /\ \/ Busy(u, "create", 0, Row(1, "ACTIVE", candidate[p], p))
       \/ UNCHANGED curator
    /\ UNCHANGED <<skill, created>>

RejectSkill(u, p) ==
    /\ curator[u] = AtRest
    /\ candidate[p] # "none"
    /\ candidate' = Popped(p)
    /\ verdict' = [verdict EXCEPT ![p] = "rejected"]
    /\ UNCHANGED <<skill, created, curator>>

(* A skill is looked up, by name or by select, ... *)
LookUp(u, i) ==
    /\ curator[u] = AtRest
    /\ Highest(i)
    /\ Busy(u, "build", i, skill[i])
    /\ UNCHANGED <<skill, created, candidate, verdict>>

(* ... and build makes a plan of what was looked up: tools outside           *)
(* allowed_tools or unknown ones raise, and so does the validator.           *)
Build(u) ==
    /\ curator[u].at = "build"
    /\ curator' = [curator EXCEPT ![u] = AtRest]
    /\ UNCHANGED <<skill, created, candidate, verdict>>

(* The process restarts: candidates and calls in progress are gone. *)
SkillsRestart ==
    /\ \E u \in Curators : curator[u] # AtRest
    /\ curator' = [u \in Curators |-> AtRest]
    /\ candidate' = [p \in Candidates |-> "none"]
    /\ UNCHANGED <<skill, created, verdict>>

SkillsNext ==
    \/ \E u \in Curators :
          \/ \E tools \in ToolSets :
                NewVersion(u, tools) \/ \E ver \in 1..MaxVersion : Register(u, ver, tools)
          \/ \E i \in Ids : \/ \E status \in SkillStatus : SetStatus(u, i, status)
                            \/ DeleteSkill(u, i)
                            \/ LookUp(u, i)
          \/ \E p \in Candidates : ApproveSkill(u, p) \/ RejectSkill(u, p)
          \/ Create(u) \/ WriteSkill(u) \/ Build(u)
    \/ \E p \in Candidates, tools \in ToolSets : Propose(p, tools)
    \/ SkillsRestart

SkillsSpec == SkillsInit /\ [][SkillsNext]_skillVars

-----------------------------------------------------------------------------
SkillsTypeOK ==
    /\ skill \in [Ids -> {NoSkill} \cup [ver : 1..MaxVersion, status : SkillStatus,
                     tools : ToolSets, origin : Candidates \cup {"hand", "version"}]]
    /\ created \in 0..MaxSkills
    /\ candidate \in [Candidates -> ToolSets \cup {"none"}]
    /\ verdict \in [Candidates -> {"none", "approved", "rejected"}]

(* A proposal is decided once: two curators who approve it, or one who       *)
(* approves and one who rejects it, never make two skills of it, and none of *)
(* one that was rejected.                                                    *)
DecidedOnce ==
    \A p \in Candidates :
        LET from == {i \in Ids : skill[i].origin = p}
        IN /\ Cardinality(from) <= 1
           /\ verdict[p] = "rejected" => from = {}

(* "old records are never mutated": whatever curators do at the same time, a *)
(* stored version keeps its number and its tools as long as it exists, and   *)
(* a plan is built from the tools the version still has.                     *)
VersionsImmutable ==
    [][\A i \in Ids :
          /\ skill[i] # NoSkill /\ skill'[i] # NoSkill =>
                skill'[i] = [skill[i] EXCEPT !.status = skill'[i].status]
          /\ \A u \in Curators :
                curator[u].at = "build" /\ curator[u].id = i /\ skill[i] # NoSkill =>
                    curator[u].row.tools = skill[i].tools]_skillVars

SkillsInvariant == SkillsTypeOK /\ DecidedOnce

(* Concurrent curators decide a proposal once and never alter a version.     *)
(* Ids of proposals are fresh, as the callers make them: propose does not    *)
(* itself refuse one that was decided before.                                *)
SkillsSafe == []SkillsInvariant /\ VersionsImmutable
=============================================================================
