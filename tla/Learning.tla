------------------------------ MODULE Learning ------------------------------
(***************************************************************************)
(* ProposalEngine, LearningPipeline and LearningGovernor, with the memory  *)
(* and preference stores a proposal is adopted into.  Operators call the   *)
(* pipeline on threads of their own; every repository call is a step.      *)
(* What UsageObserver finds is a pattern about one action (a tool or model *)
(* name), whose words decide whether proposing it is refused and how risky *)
(* adopting it is.                                                         *)
(***************************************************************************)
EXTENDS Naturals

CONSTANTS Actions,      \* names that usage is recorded under
          Forbidden,    \* those with a word of _FORBIDDEN_KINDS
          Critical,     \* those with a word of _CRITICAL_HINTS
          Low,          \* model names without a hint: LOW risk
          MaxProposals, \* bound on the proposals ever filed
          MaxObjects,   \* bound on the memories ever created
          Operators

ASSUME LearningAssumption == MaxProposals \in Nat /\ MaxObjects \in Nat

Proposals == 1..MaxProposals
GovernorModes == {"DISABLED", "SUGGEST_ONLY", "APPROVAL_REQUIRED", "AUTO_APPROVE_LOW_RISK"}
Targets == {"memory", "preference"}

VARIABLES
    proposal,  \* proposal -> its row, Unfiled before it is filed
    filed,     \* how many proposals were filed
    governor,  \* mode and killed of the running LearningGovernor
    posture,   \* the persisted LearningPolicyState
    objects,   \* adopted memories in the memory store, numbered as created
    minted,    \* how many were created
    profile,   \* the latest global PreferenceProfile
    operator,  \* what each operator's call is in the middle of
    adopted    \* proposal -> what it was ever adopted as: memories by their
               \*   metadata's proposal_id, 0 for a profile

learningVars == <<proposal, filed, governor, posture,
                  objects, minted, profile, operator, adopted>>

Unfiled == [status |-> "none", content |-> "none", target |-> "none", object |-> 0]
DefaultGovernor == [mode |-> "APPROVAL_REQUIRED", killed |-> FALSE]
EmptyProfile == [flows |-> {}, tools |-> FALSE]
Ready == [at |-> "idle", p |-> 0, row |-> Unfiled]

LearningInit ==
    /\ proposal = [p \in Proposals |-> Unfiled]
    /\ filed = 0
    /\ governor = DefaultGovernor
    /\ posture = DefaultGovernor
    /\ objects = {}
    /\ minted = 0
    /\ profile = EmptyProfile
    /\ operator = [o \in Operators |-> Ready]
    /\ adopted = [p \in Proposals |-> {}]

-----------------------------------------------------------------------------
(* generate, one detected pattern: it is filed unless propose refuses its    *)
(* words, which ends the call.  Every call proposes the same patterns again. *)
Generate(a) ==
    /\ a \notin Forbidden
    /\ filed < MaxProposals
    /\ filed' = filed + 1
    /\ proposal' = [proposal EXCEPT ![filed'] = [Unfiled EXCEPT !.status = "PROPOSED", !.content = a]]
    /\ UNCHANGED <<governor, posture, objects, minted, profile, operator, adopted>>

-----------------------------------------------------------------------------
(* classify_change *)
Risk(a) == IF a \in Critical THEN "CRITICAL" ELSE IF a \in Low THEN "LOW" ELSE "MEDIUM"

(* may_adopt, which approve calls without approved=True: only the mode that  *)
(* adopts low risks lets anything through.                                   *)
MayAdopt(a) ==
    /\ ~governor.killed
    /\ governor.mode = "AUTO_APPROVE_LOW_RISK"
    /\ Risk(a) = "LOW"

Busy(o, at, p, row) == operator' = [operator EXCEPT ![o] = [at |-> at, p |-> p, row |-> row]]

(* approve: the row is read, validated and put to the governor ... *)
Approve(o, p, target) ==
    /\ operator[o] = Ready
    /\ proposal[p].status = "PROPOSED"
    /\ Risk(proposal[p].content) # "CRITICAL"
    /\ MayAdopt(proposal[p].content)
    /\ Busy(o, "adopt", p, [proposal[p] EXCEPT !.status = "ADOPTED", !.target = target])
    /\ UNCHANGED <<proposal, filed, governor, posture, objects, minted, profile, adopted>>

(* ... it is adopted, as a new memory or as a new version of the profile     *)
(* that holds nothing but this workflow ...                                  *)
Adopt(o) ==
    LET p == operator[o].p
        row == operator[o].row
    IN /\ operator[o].at = "adopt"
       /\ \/ /\ row.target = "memory"
             /\ minted < MaxObjects
             /\ minted' = minted + 1
             /\ objects' = objects \cup {minted'}
             /\ adopted' = [adopted EXCEPT ![p] = @ \cup {minted'}]
             /\ Busy(o, "file", p, [row EXCEPT !.object = minted'])
             /\ UNCHANGED profile
          \/ /\ row.target = "preference"
             /\ profile' = [EmptyProfile EXCEPT !.flows = {row.content}]
             /\ adopted' = [adopted EXCEPT ![p] = @ \cup {0}]
             /\ Busy(o, "file", p, row)
             /\ UNCHANGED <<objects, minted>>
       /\ UNCHANGED <<proposal, filed, governor, posture>>

(* reject: the row is read, then written. *)
Reject(o, p) ==
    /\ operator[o] = Ready
    /\ proposal[p].status = "PROPOSED"
    /\ Busy(o, "file", p, [proposal[p] EXCEPT !.status = "REJECTED"])
    /\ UNCHANGED <<proposal, filed, governor, posture, objects, minted, profile, adopted>>

(* rollback: the row is read ... *)
Rollback(o, p) ==
    /\ operator[o] = Ready
    /\ proposal[p].status = "ADOPTED"
    /\ Busy(o, "undo", p, [proposal[p] EXCEPT !.status = "ROLLED_BACK"])
    /\ UNCHANGED <<proposal, filed, governor, posture, objects, minted, profile, adopted>>

(* ... the memory is deleted, or the latest profile is saved again without   *)
(* the proposal's workflow ...                                               *)
Undo(o) ==
    LET row == operator[o].row
    IN /\ operator[o].at = "undo"
       /\ objects' = IF row.target = "memory" THEN objects \ {row.object} ELSE objects
       /\ profile' = IF row.target = "preference"
                     THEN [profile EXCEPT !.flows = profile.flows \ {row.content}] ELSE profile
       /\ Busy(o, "file", operator[o].p, row)
       /\ UNCHANGED <<proposal, filed, governor, posture, minted, adopted>>

(* ... and every decision ends by writing the row back. *)
File(o) ==
    /\ operator[o].at = "file"
    /\ proposal' = [proposal EXCEPT ![operator[o].p] = operator[o].row]
    /\ operator' = [operator EXCEPT ![o] = Ready]
    /\ UNCHANGED <<filed, governor, posture, objects, minted, profile, adopted>>

(* The user saves a profile of their own: PreferenceStore.save, next version. *)
SavePreferences ==
    /\ ~profile.tools
    /\ profile' = [profile EXCEPT !.tools = TRUE]
    /\ UNCHANGED <<proposal, filed, governor, posture, objects, minted, operator, adopted>>

-----------------------------------------------------------------------------
Govern(g) ==
    /\ governor' = g
    /\ UNCHANGED <<proposal, filed, posture, objects, minted, profile, operator, adopted>>

SetMode(m) == governor.mode # m /\ Govern([governor EXCEPT !.mode = m])
Kill == ~governor.killed /\ Govern([governor EXCEPT !.killed = TRUE])
Revive == governor.killed /\ Govern([governor EXCEPT !.killed = FALSE])

Persist ==
    /\ posture # governor
    /\ posture' = governor
    /\ UNCHANGED <<proposal, filed, governor, objects, minted, profile, operator, adopted>>

MutantLoaded == [DefaultGovernor EXCEPT !.mode = posture.mode]    \* the kill is not restored
(* LearningGovernor.load *)
Loaded == posture

(* The process restarts: session, calls in progress and what was not         *)
(* persisted are gone.                                                       *)
LearningRestart ==
    /\ governor # posture \/ \E o \in Operators : operator[o] # Ready
    /\ governor' = Loaded
    /\ operator' = [o \in Operators |-> Ready]
    /\ UNCHANGED <<proposal, filed, posture, objects, minted, profile, adopted>>

LearningNext ==
    \/ \E a \in Actions : Generate(a)
    \/ \E o \in Operators :
          \/ \E p \in Proposals : \/ \E target \in Targets : Approve(o, p, target)
                                  \/ Reject(o, p)
                                  \/ Rollback(o, p)
          \/ Adopt(o) \/ Undo(o) \/ File(o)
    \/ SavePreferences
    \/ \E m \in GovernorModes : SetMode(m)
    \/ Kill \/ Revive \/ Persist
    \/ LearningRestart

LearningSpec == LearningInit /\ [][LearningNext]_learningVars

-----------------------------------------------------------------------------
LearningTypeOK ==
    /\ filed \in 0..MaxProposals
    /\ governor \in [mode : GovernorModes, killed : BOOLEAN]
    /\ posture \in [mode : GovernorModes, killed : BOOLEAN]
    /\ objects \subseteq 1..minted
    /\ profile \in [flows : SUBSET Actions, tools : BOOLEAN]
    /\ adopted \in [Proposals -> SUBSET (0..minted)]

(* What a row that says ROLLED_BACK promises: the memory the row names is    *)
(* gone and, of a proposal that was adopted once, whatever it was adopted    *)
(* as, whatever else was approved, rejected, rolled back or interrupted      *)
(* meanwhile.  This is less than "every arrow is ... reversible"             *)
(* (cycle.py:4): two operators approving at once, or a second approval after *)
(* a crash between the adoption and the row's update, adopt a proposal       *)
(* twice, the row names one of the two, and a rollback leaves the other.     *)
AdoptedOnce(p) == \E m \in adopted[p] : adopted[p] = {m}
RolledBackGone ==
    \A p \in Proposals : proposal[p].status = "ROLLED_BACK" =>
        /\ proposal[p].object \notin objects
        /\ AdoptedOnce(p) => adopted[p] \cap objects = {}

(* The kill switch: no approval gets past the governor once kill returned,   *)
(* and a kill that was persisted is undone by nothing but revive, a restart  *)
(* included.  This is less than "no further adoptions, immediately"          *)
(* (safety.py:153): approve asks the governor once, before it adopts, and    *)
(* holds no lock, so an approval that had its answer adopts after the kill.  *)
KillHolds ==
    [][governor.killed =>
          /\ posture.killed => governor'.killed \/ Revive
          /\ \A o \in Operators : operator'[o].at = "adopt" => operator[o].at = "adopt"]_learningVars

LearningInvariant == LearningTypeOK /\ RolledBackGone

(* The learning loop stays reversible and stoppable, as far as it does: what *)
(* was adopted once and rolled back is gone, and a kill admits no approval   *)
(* that had not been admitted before it.                                     *)
LearningSafe == []LearningInvariant /\ KillHolds
=============================================================================
