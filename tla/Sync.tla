------------------------------- MODULE Sync -------------------------------
(***************************************************************************)
(* SyncManager: devices (the PC, the cloud agent) that each run their own  *)
(* manager against one remote, users that edit the objects, a network that *)
(* fails before a request or loses its answer, bounded retries, and an     *)
(* operator who resolves conflicts, which takes no lock.                   *)
(*                                                                         *)
(* make_sync_object derives the version of an object from the hash of its  *)
(* payload, so one value stands for payload, hash and version.  Every call *)
(* of the transport is a step of its own.                                  *)
(***************************************************************************)
EXTENDS Naturals, FiniteSets

CONSTANTS Devices,
          Objects,
          Contents,     \* payloads
          Secrets,      \* those for which contains_secrets holds
          None,         \* no object, no version
          MaxRetries,   \* max_retries of the SyncManager of each device
          MaxEdits,     \* bound on edits
          MaxFailures,  \* bound on network failures
          MaxResolves   \* bound on conflict resolutions

ASSUME SyncAssumption ==
    /\ Secrets \subseteq Contents
    /\ None \notin Contents
    /\ MaxRetries \in [Devices -> Nat]
    /\ MaxEdits \in Nat
    /\ MaxFailures \in Nat
    /\ MaxResolves \in Nat

SyncClass == {"LOCAL_ONLY", "SYNC_ALLOWED", "SYNC_RESTRICTED", "SYNC_FORBIDDEN"}
SyncState == {"SKIPPED", "IN_SYNC", "UPLOADED", "DOWNLOADED", "CONFLICT", "FAILED"}
Good == {"IN_SYNC", "UPLOADED", "DOWNLOADED"}
Version == Contents \cup {None}

VARIABLES
    class,    \* object -> class by its type or by an override
    optIn,    \* allow_restricted_download
    local,    \* device -> object -> what the user has there
    remote,   \* object -> what the remote has
    ack,      \* device -> _acknowledged
    pc,       \* device -> where its run is
    given,    \* device -> the objects its run was called with
    listed,   \* device -> remote_versions
    todo,     \* device -> objects the run has still to look at
    result,   \* device -> object -> its SyncResult in this run, or "none"
    attempts, \* device -> attempts of retry_sync
    edits,
    failures,
    resolves,
    past,     \* object -> everything the remote ever had for it
    moved     \* device -> objects changed since it listed, but not by its run

policyVars == <<class, optIn>>
bounds == <<edits, failures, resolves>>
runVars == <<pc, given, listed, todo, result, attempts>>
vars == <<class, optIn, local, remote, ack, pc, given, listed, todo, result,
          attempts, edits, failures, resolves, past, moved>>

Nothing == [o \in Objects |-> None]

Init ==
    /\ class \in [Objects -> SyncClass]
    /\ optIn \in BOOLEAN
    /\ local = [d \in Devices |-> Nothing]
    /\ remote = Nothing
    /\ ack = [d \in Devices |-> Nothing]
    /\ pc = [d \in Devices |-> "idle"]
    /\ given = [d \in Devices |-> Nothing]
    /\ listed = [d \in Devices |-> Nothing]
    /\ todo = [d \in Devices |-> {}]
    /\ result = [d \in Devices |-> [o \in Objects |-> "none"]]
    /\ attempts = [d \in Devices |-> 0]
    /\ edits = 0
    /\ failures = 0
    /\ resolves = 0
    /\ past = [o \in Objects |-> {}]
    /\ moved = [d \in Devices |-> {}]

-----------------------------------------------------------------------------
(* SyncPolicy *)
Classify(o, c) == IF c \in Secrets THEN "SYNC_FORBIDDEN" ELSE class[o]
CanUpload(o, c) == Classify(o, c) \in {"SYNC_ALLOWED", "SYNC_RESTRICTED"}
CanDownload(o, c) ==
    \/ Classify(o, c) = "SYNC_ALLOWED"
    \/ Classify(o, c) = "SYNC_RESTRICTED" /\ optIn

(* transport.push stores c, unseen by the runs of the devices in S. *)
Stored(o, c, S) ==
    /\ remote' = [remote EXCEPT ![o] = c]
    /\ past' = [past EXCEPT ![o] = @ \cup {c}]
    /\ moved' = [e \in Devices |-> IF e \in S THEN moved[e] \cup {o} ELSE moved[e]]

(* A request that fails, within the bound. *)
Fails == failures < MaxFailures /\ failures' = failures + 1

(* The user creates or changes an object. *)
Edit(d, o) ==
    /\ edits < MaxEdits
    /\ edits' = edits + 1
    /\ \E c \in Contents \ {local[d][o]} : local' = [local EXCEPT ![d][o] = c]
    /\ UNCHANGED <<policyVars, remote, ack, runVars, failures, resolves, past, moved>>

-----------------------------------------------------------------------------
MutantStart(d) ==    \* the objects of the first call are kept
    /\ pc[d] = "idle"
    /\ pc' = [pc EXCEPT ![d] = "list"]
    /\ given' = [given EXCEPT ![d] = IF @ = Nothing THEN local[d] ELSE @]
    /\ attempts' = [attempts EXCEPT ![d] = 1]
    /\ result' = [result EXCEPT ![d] = [o \in Objects |-> "none"]]
    /\ UNCHANGED <<policyVars, local, remote, ack, listed, todo, bounds, past, moved>>

(* retry_sync is called: the objects are those of this moment, also for the  *)
(* retries.  A second call meanwhile raises SyncInProgressError.             *)
Start(d) ==
    /\ pc[d] = "idle"
    /\ pc' = [pc EXCEPT ![d] = "list"]
    /\ given' = [given EXCEPT ![d] = local[d]]
    /\ attempts' = [attempts EXCEPT ![d] = 1]
    /\ result' = [result EXCEPT ![d] = [o \in Objects |-> "none"]]
    /\ UNCHANGED <<policyVars, local, remote, ack, listed, todo, bounds, past, moved>>

(* The run has failed: once more, or the retry budget is exhausted. *)
Again(d) ==
    IF attempts[d] <= MaxRetries[d]
    THEN /\ pc' = [pc EXCEPT ![d] = "list"]
         /\ attempts' = [attempts EXCEPT ![d] = @ + 1]
    ELSE /\ pc' = [pc EXCEPT ![d] = "idle"]
         /\ UNCHANGED attempts

(* _run: list_versions. *)
List(d) ==
    /\ pc[d] = "list"
    /\ listed' = [listed EXCEPT ![d] = remote]
    /\ moved' = [moved EXCEPT ![d] = {}]
    /\ todo' = [todo EXCEPT ![d] = {o \in Objects : given[d][o] # None}]
    /\ result' = [result EXCEPT ![d] = [o \in Objects |-> "none"]]
    /\ pc' = [pc EXCEPT ![d] = "objects"]
    /\ UNCHANGED <<policyVars, local, remote, ack, given, attempts, bounds, past>>

ListFails(d) ==
    /\ pc[d] = "list"
    /\ Fails
    /\ Again(d)
    /\ result' = [result EXCEPT ![d] =
                     [o \in Objects |-> IF given[d][o] # None THEN "FAILED" ELSE "none"]]
    /\ UNCHANGED <<policyVars, local, remote, ack, given, listed, todo, edits, resolves,
                   past, moved>>

-----------------------------------------------------------------------------
Record(d, o, state) ==
    /\ result' = [result EXCEPT ![d][o] = state]
    /\ todo' = [todo EXCEPT ![d] = @ \ {o}]

Turn(d, o) == pc[d] = "objects" /\ o \in todo[d]

MutantSkipObject(d, o) ==    \* reports the class where the state belongs
    /\ Turn(d, o)
    /\ ~CanUpload(o, given[d][o])
    /\ Record(d, o, Classify(o, given[d][o]))
    /\ UNCHANGED <<policyVars, local, remote, ack, pc, given, listed, attempts, bounds,
                   past, moved>>

(* _sync_one of an object the policy keeps here. *)
SkipObject(d, o) ==
    /\ Turn(d, o)
    /\ ~CanUpload(o, given[d][o])
    /\ Record(d, o, "SKIPPED")
    /\ UNCHANGED <<policyVars, local, remote, ack, pc, given, listed, attempts, bounds,
                   past, moved>>

InSync(d, o) ==
    /\ Turn(d, o)
    /\ CanUpload(o, given[d][o])
    /\ listed[d][o] = given[d][o]
    /\ ack' = [ack EXCEPT ![d][o] = given[d][o]]
    /\ Record(d, o, "IN_SYNC")
    /\ UNCHANGED <<policyVars, local, remote, pc, given, listed, attempts, bounds, past,
                   moved>>

MutantMustPush(d, o) == listed[d][o] # given[d][o]    \* the last writer wins
(* "new remote object", or "local newer": the remote has what this device    *)
(* acknowledged last.                                                        *)
MustPush(d, o) ==
    /\ listed[d][o] # given[d][o]
    /\ listed[d][o] \in {None, ack[d][o]}

Conflict(d, o) ==
    /\ Turn(d, o)
    /\ CanUpload(o, given[d][o])
    /\ listed[d][o] # given[d][o]
    /\ ~MustPush(d, o)
    /\ Record(d, o, "CONFLICT")
    /\ UNCHANGED <<policyVars, local, remote, ack, pc, given, listed, attempts, bounds,
                   past, moved>>

Push(d, o) ==
    /\ Turn(d, o)
    /\ CanUpload(o, given[d][o])
    /\ MustPush(d, o)
    /\ Stored(o, given[d][o], Devices \ {d})
    /\ ack' = [ack EXCEPT ![d][o] = given[d][o]]
    /\ Record(d, o, "UPLOADED")
    /\ UNCHANGED <<policyVars, local, pc, given, listed, attempts, bounds>>

MutantPushFails(d, o) ==    \* acknowledged before the push is known to succeed
    /\ Turn(d, o)
    /\ CanUpload(o, given[d][o])
    /\ MustPush(d, o)
    /\ Fails
    /\ \/ Stored(o, given[d][o], Devices \ {d})
       \/ UNCHANGED <<remote, past, moved>>
    /\ ack' = [ack EXCEPT ![d][o] = given[d][o]]
    /\ Record(d, o, "FAILED")
    /\ UNCHANGED <<policyVars, local, pc, given, listed, attempts, edits, resolves>>

(* The push fails, or was stored and the answer got lost. *)
PushFails(d, o) ==
    /\ Turn(d, o)
    /\ CanUpload(o, given[d][o])
    /\ MustPush(d, o)
    /\ Fails
    /\ \/ Stored(o, given[d][o], Devices \ {d})
       \/ UNCHANGED <<remote, past, moved>>
    /\ Record(d, o, "FAILED")
    /\ UNCHANGED <<policyVars, local, ack, pc, given, listed, attempts, edits, resolves>>

-----------------------------------------------------------------------------
(* All objects done: _pull_new turns to what is only in the listing. *)
BeginPull(d) ==
    /\ pc[d] = "objects"
    /\ todo[d] = {}
    /\ pc' = [pc EXCEPT ![d] = "pull"]
    /\ todo' = [todo EXCEPT ![d] = {o \in Objects : /\ given[d][o] = None
                                                   /\ listed[d][o] # None
                                                   /\ ack[d][o] # listed[d][o]}]
    /\ UNCHANGED <<policyVars, local, remote, ack, given, listed, result, attempts,
                   bounds, past, moved>>

(* One pull: the version listed is acknowledged, whatever came by now. *)
Pull(d, o) ==
    /\ pc[d] = "pull"
    /\ o \in todo[d]
    /\ IF CanDownload(o, remote[o])
       THEN /\ ack' = [ack EXCEPT ![d][o] = listed[d][o]]
            /\ Record(d, o, "DOWNLOADED")
       ELSE UNCHANGED ack /\ Record(d, o, "SKIPPED")
    /\ UNCHANGED <<policyVars, local, remote, pc, given, listed, attempts, bounds, past,
                   moved>>

(* A failing pull is not caught in the run: the whole attempt is lost. *)
PullFails(d) ==
    /\ pc[d] = "pull"
    /\ todo[d] # {}
    /\ Fails
    /\ Again(d)
    /\ UNCHANGED <<policyVars, local, remote, ack, given, listed, todo, result, edits,
                   resolves, past, moved>>

(* The report: FAILED when something failed and nothing went well. *)
Finish(d) ==
    /\ pc[d] = "pull"
    /\ todo[d] = {}
    /\ LET results == {result[d][o] : o \in Objects}
       IN IF "FAILED" \in results /\ results \cap Good = {}
          THEN Again(d)
          ELSE pc' = [pc EXCEPT ![d] = "idle"] /\ UNCHANGED attempts
    /\ UNCHANGED <<policyVars, local, remote, ack, given, listed, todo, result, bounds,
                   past, moved>>

Run(d) ==
    \/ Start(d) \/ List(d) \/ ListFails(d) \/ BeginPull(d) \/ PullFails(d) \/ Finish(d)
    \/ \E o \in Objects : \/ SkipObject(d, o) \/ InSync(d, o) \/ Conflict(d, o)
                          \/ Push(d, o) \/ PushFails(d, o) \/ Pull(d, o)

-----------------------------------------------------------------------------
Resolving(d, o) ==
    /\ resolves < MaxResolves
    /\ resolves' = resolves + 1
    /\ local[d][o] # None

MutantKeepLocal(d, o) ==    \* explicit resolution bypasses the policy
    /\ Resolving(d, o)
    /\ Stored(o, local[d][o], Devices)
    /\ ack' = [ack EXCEPT ![d][o] = local[d][o]]
    /\ UNCHANGED <<policyVars, local, runVars, edits, failures>>

(* resolve(keep="local"), also while a run is in progress; without          *)
(* permission to upload nothing happens.                                     *)
KeepLocal(d, o) ==
    /\ Resolving(d, o)
    /\ CanUpload(o, local[d][o])
    /\ \/ /\ Stored(o, local[d][o], Devices)
          /\ ack' = [ack EXCEPT ![d][o] = local[d][o]]
          /\ UNCHANGED failures
       \/ Fails /\ Stored(o, local[d][o], Devices) /\ UNCHANGED ack
    /\ UNCHANGED <<policyVars, local, runVars, edits>>

(* resolve(keep="remote"): acknowledged, and the local object left as it is. *)
KeepRemote(d, o) ==
    /\ Resolving(d, o)
    /\ remote[o] # None
    /\ CanDownload(o, remote[o])
    /\ ack' = [ack EXCEPT ![d][o] = remote[o]]
    /\ UNCHANGED <<policyVars, local, remote, runVars, edits, failures, past, moved>>

Next ==
    \E d \in Devices :
        \/ Run(d)
        \/ \E o \in Objects : Edit(d, o) \/ KeepLocal(d, o) \/ KeepRemote(d, o)

Spec == Init /\ [][Next]_vars

(* Every device keeps calling retry_sync and a run goes on until it returns. *)
FairSpec == Spec /\ \A d \in Devices : WF_vars(Run(d))

-----------------------------------------------------------------------------
TypeOK ==
    /\ class \in [Objects -> SyncClass]
    /\ optIn \in BOOLEAN
    /\ local \in [Devices -> [Objects -> Version]]
    /\ remote \in [Objects -> Version]
    /\ ack \in [Devices -> [Objects -> Version]]
    /\ pc \in [Devices -> {"idle", "list", "objects", "pull"}]
    /\ given \in [Devices -> [Objects -> Version]]
    /\ listed \in [Devices -> [Objects -> Version]]
    /\ todo \in [Devices -> SUBSET Objects]
    /\ result \in [Devices -> [Objects -> SyncState \cup {"none"}]]
    /\ attempts \in [Devices -> Nat]
    /\ \A d \in Devices : attempts[d] \in 0..(MaxRetries[d] + 1)
    /\ edits \in 0..MaxEdits
    /\ failures \in 0..MaxFailures
    /\ resolves \in 0..MaxResolves
    /\ past \in [Objects -> SUBSET Contents]
    /\ moved \in [Devices -> SUBSET Objects]

(* The remote never gets to hold a payload with secrets or an object whose   *)
(* class keeps it here: not through a run, a retry with old objects, or an   *)
(* explicit resolution ("Explicit resolution still passes policy").          *)
NothingForbiddenLeaves == \A o \in Objects : \A c \in past[o] : CanUpload(o, c)

(* A run replaces what the remote has only when this device acknowledged     *)
(* exactly that, so that a change of the other device that its listing shows *)
(* is not lost silently.  Nothing is said of a change that arrives between   *)
(* the listing and the push: the code overwrites it (sync.py:411), and the   *)
(* objects in `moved` are those.                                             *)
ConflictExplicit ==
    [][\A d \in Devices, o \in Objects :
          (/\ remote'[o] # remote[o] /\ remote[o] # None /\ o \notin moved[d]
           /\ result'[d] # result[d])
             => remote[o] = ack[d][o]]_vars

(* What a device acknowledged, or reported as uploaded or in sync, the       *)
(* remote really held at some time, whatever requests and answers were lost. *)
AcknowledgedWasStored ==
    \A d \in Devices, o \in Objects :
        /\ ack[d][o] \in past[o] \cup {None}
        /\ result[d][o] \in {"UPLOADED", "IN_SYNC"} => given[d][o] \in past[o]

(* When the edits, failures and resolutions end, every device ends up with   *)
(* every object it may upload either the same as the remote or reported as a *)
(* conflict: an interrupted run is made good by a later one.                 *)
Converges ==
    \A d \in Devices, o \in Objects :
        <>[](\/ ~CanUpload(o, local[d][o])
             \/ local[d][o] \in {None, remote[o]}
             \/ result[d][o] # "none" => result[d][o] = "CONFLICT")

(* Nothing the policy forbids reaches a peer, and what a device was told is  *)
(* stored remotely had been stored.                                          *)
SyncSafe == TypeOK /\ NothingForbiddenLeaves /\ AcknowledgedWasStored
=============================================================================
