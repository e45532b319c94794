----------------------------- MODULE CloudProofs -----------------------------
(***************************************************************************)
(* Proofs about the cloud layer: Sync for any devices, objects, contents   *)
(* and secrets, any retry budgets and any number of edits, failures and    *)
(* resolutions; Presence for any machines, threads and lease; Offload for  *)
(* any providers, policies, prices and threads.                            *)
(***************************************************************************)
EXTENDS Sync, Presence, Offload, WellFoundedInduction, TLAPS

(* What the remote has, and what a run listed, is part of the remote's past. *)
RemoteInPast == \A o \in Objects : remote[o] \in past[o] \cup {None}
ListedInPast ==
    \A d \in Devices, o \in Objects : listed[d][o] \in past[o] \cup {None}

(* A run looks first at the objects it was called with. *)
TodoGiven ==
    \A d \in Devices : pc[d] = "objects" =>
        \A o \in todo[d] : given[d][o] # None

(* Until it has looked at an object, what a run listed of it is what the     *)
(* remote has, unless somebody else moved it meanwhile.                      *)
UnmovedAsListed ==
    \A d \in Devices : pc[d] = "objects" =>
        \A o \in todo[d] \ moved[d] : listed[d][o] = remote[o]

StoredInv == RemoteInPast /\ ListedInPast /\ AcknowledgedWasStored
RunInv == TodoGiven /\ UnmovedAsListed

(* The inductive invariant. *)
Inv == TypeOK /\ NothingForbiddenLeaves /\ StoredInv /\ RunInv

-----------------------------------------------------------------------------
LEMMA InitInv == Init => Inv
<1> SUFFICES ASSUME Init PROVE Inv
  OBVIOUS
<1>1. TypeOK
  BY SyncAssumption DEF Init, TypeOK, Nothing, Version
<1>2. NothingForbiddenLeaves /\ StoredInv /\ RunInv
  BY DEF Init, Nothing, NothingForbiddenLeaves, StoredInv, RemoteInPast, ListedInPast,
         AcknowledgedWasStored, RunInv, TodoGiven, UnmovedAsListed
<1> QED BY <1>1, <1>2 DEF Inv

(* Another attempt, or none: the count stays within the device's budget. *)
LEMMA AgainKeeps ==
    ASSUME TypeOK, NEW d \in Devices, Again(d)
    PROVE  /\ pc' \in [Devices -> {"idle", "list", "objects", "pull"}]
           /\ attempts' \in [Devices -> Nat]
           /\ \A e \in Devices : attempts'[e] \in 0..(MaxRetries[e] + 1)
           /\ pc'[d] # "objects"
           /\ \A e \in Devices : e # d => pc'[e] = pc[e]
<1>1. MaxRetries[d] \in Nat /\ attempts[d] \in Nat
  BY SyncAssumption DEF TypeOK
<1>2. \A e \in Devices : attempts'[e] \in 0..(MaxRetries[e] + 1)
  <2> SUFFICES ASSUME NEW e \in Devices PROVE attempts'[e] \in 0..(MaxRetries[e] + 1)
    OBVIOUS
  <2>1. CASE e = d
    BY <1>1, <2>1 DEF Again, TypeOK
  <2>2. CASE e # d
    BY <2>2 DEF Again, TypeOK
  <2> QED BY <2>1, <2>2
<1>3. CASE attempts[d] <= MaxRetries[d]
  <2>1. attempts[d] + 1 \in Nat
    BY <1>1
  <2>2. pc' = [pc EXCEPT ![d] = "list"] /\ attempts' = [attempts EXCEPT ![d] = attempts[d] + 1]
    BY <1>3 DEF Again
  <2>3. attempts' \in [Devices -> Nat]
    BY <2>1, <2>2 DEF TypeOK
  <2> QED BY <1>2, <2>2, <2>3 DEF TypeOK
<1>4. CASE ~(attempts[d] <= MaxRetries[d])
  BY <1>1, <1>2, <1>4 DEF Again, TypeOK
<1> QED BY <1>3, <1>4

(* Acknowledging a version, or not, touches no other object. *)
LEMMA AckKeeps ==
    ASSUME TypeOK, NEW d \in Devices, NEW o \in Objects, NEW c \in Version,
           ack' \in {ack, [ack EXCEPT ![d][o] = c]}
    PROVE  /\ ack' \in [Devices -> [Objects -> Version]]
           /\ \A e \in Devices, p \in Objects :
                 ack'[e][p] = ack[e][p] \/ (p = o /\ ack'[e][p] = c)
<1>1. CASE ack' = ack
  BY <1>1 DEF TypeOK
<1>2. CASE ack' = [ack EXCEPT ![d][o] = c]
  BY <1>2 DEF TypeOK
<1> QED BY <1>1, <1>2

(* So does recording a result. *)
LEMMA RecordKeeps ==
    ASSUME TypeOK, NEW d \in Devices, NEW o \in Objects, NEW state \in SyncState,
           result' = [result EXCEPT ![d][o] = state], todo' = [todo EXCEPT ![d] = @ \ {o}]
    PROVE  /\ result' \in [Devices -> [Objects -> SyncState \cup {"none"}]]
           /\ todo' \in [Devices -> SUBSET Objects]
           /\ result'[d][o] = state
           /\ \A e \in Devices, p \in Objects :
                 result'[e][p] = result[e][p] \/ (e = d /\ p = o)
<1> HIDE DEF SyncState
<1> QED BY DEF TypeOK

(* A push of what the policy lets go adds to the remote's past. *)
LEMMA StoredKeeps ==
    ASSUME TypeOK, NothingForbiddenLeaves, RemoteInPast, NEW o \in Objects,
           NEW c \in Contents, CanUpload(o, c), NEW S, Stored(o, c, S), class' = class
    PROVE  /\ remote' \in [Objects -> Version]
           /\ past' \in [Objects -> SUBSET Contents]
           /\ moved' \in [Devices -> SUBSET Objects]
           /\ NothingForbiddenLeaves' /\ RemoteInPast'
           /\ c \in past'[o] /\ \A p \in Objects : past[p] \subseteq past'[p]
           /\ \A p \in Objects \ {o} : remote'[p] = remote[p]
           /\ \A e \in Devices : moved[e] \subseteq moved'[e]
           /\ \A e \in Devices \cap S : o \in moved'[e]
<1> USE DEF Stored, TypeOK
<1>1. /\ remote' \in [Objects -> Version]
      /\ past' \in [Objects -> SUBSET Contents]
      /\ moved' \in [Devices -> SUBSET Objects]
  BY DEF Version
<1>2. /\ c \in past'[o] /\ \A p \in Objects : past[p] \subseteq past'[p]
      /\ \A p \in Objects \ {o} : remote'[p] = remote[p] /\ past'[p] = past[p]
      /\ past'[o] = past[o] \cup {c} /\ remote'[o] = c
  OBVIOUS
<1>3. NothingForbiddenLeaves'
  <2>1. \A p \in Objects : \A x : CanUpload(p, x)' <=> CanUpload(p, x)
    BY DEF CanUpload, Classify
  <2> QED BY <1>2, <2>1 DEF NothingForbiddenLeaves
<1>4. RemoteInPast'
  BY <1>2 DEF RemoteInPast
<1> QED BY <1>1, <1>2, <1>3, <1>4

LEMMA EditInv == ASSUME Inv, NEW d \in Devices, NEW o \in Objects, Edit(d, o) PROVE Inv'
<1> USE DEF Inv, Edit, policyVars, bounds, runVars
<1>1. TypeOK'
  BY SyncAssumption DEF TypeOK, Version
<1>2. NothingForbiddenLeaves'
  BY DEF NothingForbiddenLeaves, CanUpload, Classify, TypeOK
<1>3. StoredInv'
  BY DEF StoredInv, RemoteInPast, ListedInPast, AcknowledgedWasStored, RunInv,
         TodoGiven, TypeOK
<1>4. RunInv'
  BY DEF RunInv, TodoGiven, UnmovedAsListed, TypeOK
<1> QED BY <1>1, <1>2, <1>3, <1>4

LEMMA StartInv == ASSUME Inv, NEW d \in Devices, Start(d) PROVE Inv'
<1> USE DEF Inv, Start, policyVars, bounds
<1>1. TypeOK'
  <2>1. \A e \in Devices : 1 \in 0..(MaxRetries[e] + 1)
    BY SyncAssumption
  <2>2. /\ attempts' \in [Devices -> Nat]
        /\ \A e \in Devices : attempts'[e] \in 0..(MaxRetries[e] + 1)
    BY <2>1 DEF TypeOK
  <2> QED BY <2>2 DEF TypeOK
<1>2. NothingForbiddenLeaves'
  BY DEF NothingForbiddenLeaves, CanUpload, Classify
<1>3. StoredInv'
  BY DEF StoredInv, RemoteInPast, ListedInPast, AcknowledgedWasStored, TypeOK
<1>4. RunInv'
  BY DEF RunInv, TodoGiven, UnmovedAsListed, TypeOK
<1> QED BY <1>1, <1>2, <1>3, <1>4

LEMMA ListInv == ASSUME Inv, NEW d \in Devices, List(d) PROVE Inv'
<1> USE DEF Inv, List, policyVars, bounds, runVars
<1>1. TypeOK'
  BY DEF TypeOK
<1>2. NothingForbiddenLeaves'
  BY DEF NothingForbiddenLeaves, CanUpload, Classify, TypeOK
<1>3. StoredInv'
  BY DEF StoredInv, RemoteInPast, ListedInPast, AcknowledgedWasStored, RunInv,
         TodoGiven, TypeOK
<1>4. RunInv'
  BY DEF RunInv, TodoGiven, UnmovedAsListed, TypeOK
<1> QED BY <1>1, <1>2, <1>3, <1>4

LEMMA ListFailsInv == ASSUME Inv, NEW d \in Devices, ListFails(d), Again(d) PROVE Inv'
<1> USE DEF Inv, ListFails, policyVars, bounds, Fails
<1>1. TypeOK'
  BY AgainKeeps, SyncAssumption DEF TypeOK, SyncState
<1>2. NothingForbiddenLeaves'
  BY DEF NothingForbiddenLeaves, CanUpload, Classify
<1>3. StoredInv'
  BY DEF StoredInv, RemoteInPast, ListedInPast, AcknowledgedWasStored, TypeOK
<1>4. RunInv'
  BY AgainKeeps DEF RunInv, TodoGiven, UnmovedAsListed, TypeOK
<1> QED BY <1>1, <1>2, <1>3, <1>4

LEMMA SkipObjectInv == ASSUME Inv, NEW d \in Devices, NEW o \in Objects, SkipObject(d, o) PROVE Inv'
<1> USE DEF Inv, SkipObject, policyVars, bounds, runVars, Turn, Record
<1>1. TypeOK'
  BY DEF TypeOK, SyncState
<1>2. NothingForbiddenLeaves'
  BY DEF NothingForbiddenLeaves, CanUpload, Classify, TypeOK
<1>3. StoredInv'
  BY DEF StoredInv, RemoteInPast, ListedInPast, AcknowledgedWasStored, RunInv,
         TodoGiven, TypeOK
<1>4. RunInv'
  BY DEF RunInv, TodoGiven, UnmovedAsListed, TypeOK
<1> QED BY <1>1, <1>2, <1>3, <1>4

LEMMA InSyncInv == ASSUME Inv, NEW d \in Devices, NEW o \in Objects, InSync(d, o) PROVE Inv'
<1> USE DEF Inv, InSync, policyVars, bounds, runVars, Turn, Record
<1>1. TypeOK'
  BY DEF TypeOK, SyncState
<1>2. NothingForbiddenLeaves'
  BY DEF NothingForbiddenLeaves, CanUpload, Classify, TypeOK
<1>3. StoredInv'
  BY DEF StoredInv, RemoteInPast, ListedInPast, AcknowledgedWasStored, RunInv,
         TodoGiven, TypeOK
<1>4. RunInv'
  BY DEF RunInv, TodoGiven, UnmovedAsListed, TypeOK
<1> QED BY <1>1, <1>2, <1>3, <1>4

LEMMA ConflictInv == ASSUME Inv, NEW d \in Devices, NEW o \in Objects, Conflict(d, o) PROVE Inv'
<1> USE DEF Inv, Conflict, policyVars, bounds, runVars, Turn, Record
<1>1. TypeOK'
  BY DEF TypeOK, SyncState
<1>2. NothingForbiddenLeaves'
  BY DEF NothingForbiddenLeaves, CanUpload, Classify, TypeOK
<1>3. StoredInv'
  BY DEF StoredInv, RemoteInPast, ListedInPast, AcknowledgedWasStored, RunInv,
         TodoGiven, TypeOK
<1>4. RunInv'
  BY DEF RunInv, TodoGiven, UnmovedAsListed, TypeOK
<1> QED BY <1>1, <1>2, <1>3, <1>4

(* A push that was stored, whether or not the device learns of it. *)
LEMMA PushedInv ==
    ASSUME Inv, NEW d \in Devices, NEW o \in Objects, Turn(d, o),
           CanUpload(o, given[d][o]), Stored(o, given[d][o], Devices \ {d}),
           NEW state \in SyncState, Record(d, o, state),
           ack' \in {ack, [ack EXCEPT ![d][o] = given[d][o]]},
           failures' \in 0..MaxFailures,
           UNCHANGED <<class, optIn, local, pc, given, listed, attempts, edits, resolves>>
    PROVE  Inv'
<1> USE DEF Inv, Turn, Record
<1>1. given[d][o] \in Contents
  BY DEF RunInv, TodoGiven, TypeOK, Version
<1>2. /\ remote' \in [Objects -> Version]
      /\ past' \in [Objects -> SUBSET Contents]
      /\ moved' \in [Devices -> SUBSET Objects]
      /\ NothingForbiddenLeaves' /\ RemoteInPast'
      /\ given[d][o] \in past'[o] /\ \A p \in Objects : past[p] \subseteq past'[p]
      /\ \A p \in Objects \ {o} : remote'[p] = remote[p]
      /\ \A e \in Devices : moved[e] \subseteq moved'[e]
      /\ \A e \in Devices \ {d} : o \in moved'[e]
  BY <1>1, StoredKeeps DEF StoredInv
<1>3. TypeOK'
  BY <1>1, <1>2, AckKeeps, RecordKeeps DEF TypeOK, Version
<1>4. ListedInPast'
  BY <1>2 DEF StoredInv, ListedInPast
<1>5. AcknowledgedWasStored'
  <2>1. /\ \A e \in Devices, p \in Objects :
              ack'[e][p] = ack[e][p] \/ (p = o /\ ack'[e][p] = given[d][o])
        /\ \A e \in Devices, p \in Objects :
              result'[e][p] = result[e][p] \/ (e = d /\ p = o)
    BY <1>1, AckKeeps, RecordKeeps DEF Version
  <2>2. \A e \in Devices, p \in Objects : ack'[e][p] \in past'[p] \cup {None}
    BY <1>2, <2>1 DEF StoredInv, AcknowledgedWasStored
  <2>3. \A e \in Devices, p \in Objects :
            result'[e][p] \in {"UPLOADED", "IN_SYNC"} => given'[e][p] \in past'[p]
    BY <1>2, <2>1 DEF StoredInv, AcknowledgedWasStored
  <2> QED BY <2>2, <2>3 DEF AcknowledgedWasStored
<1>6. RunInv'
  BY <1>2 DEF RunInv, TodoGiven, UnmovedAsListed, TypeOK
<1> QED BY <1>2, <1>3, <1>4, <1>5, <1>6 DEF StoredInv

LEMMA PushInv == ASSUME Inv, NEW d \in Devices, NEW o \in Objects, Push(d, o) PROVE Inv'
BY PushedInv DEF Inv, TypeOK, Push, policyVars, bounds, SyncState

LEMMA PushFailsInv ==
    ASSUME Inv, NEW d \in Devices, NEW o \in Objects, PushFails(d, o)
    PROVE  Inv'
<1> USE DEF Inv, PushFails, policyVars
<1>1. failures' \in 0..MaxFailures
  BY SyncAssumption DEF Fails, TypeOK
<1>2. CASE Stored(o, given[d][o], Devices \ {d})
  BY <1>1, <1>2, PushedInv DEF SyncState
<1>3. CASE UNCHANGED <<remote, past, moved>>
  <2> USE <1>3 DEF Turn, Record
  <2>1. TypeOK'
    BY <1>1 DEF TypeOK, SyncState
  <2>2. NothingForbiddenLeaves'
    BY DEF NothingForbiddenLeaves, CanUpload, Classify
  <2>3. StoredInv'
    BY DEF StoredInv, RemoteInPast, ListedInPast, AcknowledgedWasStored, TypeOK
  <2>4. RunInv'
    BY DEF RunInv, TodoGiven, UnmovedAsListed, TypeOK
  <2> QED BY <2>1, <2>2, <2>3, <2>4
<1> QED BY <1>2, <1>3

LEMMA BeginPullInv == ASSUME Inv, NEW d \in Devices, BeginPull(d) PROVE Inv'
<1> USE DEF Inv, BeginPull, policyVars, bounds, runVars
<1>1. TypeOK'
  BY DEF TypeOK
<1>2. NothingForbiddenLeaves'
  BY DEF NothingForbiddenLeaves, CanUpload, Classify, TypeOK
<1>3. StoredInv'
  BY DEF StoredInv, RemoteInPast, ListedInPast, AcknowledgedWasStored, RunInv,
         TodoGiven, TypeOK
<1>4. RunInv'
  BY DEF RunInv, TodoGiven, UnmovedAsListed, TypeOK
<1> QED BY <1>1, <1>2, <1>3, <1>4

LEMMA PullInv == ASSUME Inv, NEW d \in Devices, NEW o \in Objects, Pull(d, o) PROVE Inv'
<1> USE DEF Inv, policyVars, bounds
<1>1. PICK state \in {"DOWNLOADED", "SKIPPED"} :
        /\ result' = [result EXCEPT ![d][o] = state]
        /\ todo' = [todo EXCEPT ![d] = @ \ {o}]
        /\ ack' \in {ack, [ack EXCEPT ![d][o] = listed[d][o]]}
  BY DEF Pull, Record
<1>2. UNCHANGED <<class, optIn, local, remote, pc, given, listed, attempts, edits,
                 failures, resolves, past, moved>>
  BY DEF Pull
<1>a. state \in SyncState /\ listed[d][o] \in Version
  BY DEF SyncState, TypeOK
<1>3. TypeOK'
  BY <1>1, <1>2, <1>a, AckKeeps, RecordKeeps DEF TypeOK
<1>4. NothingForbiddenLeaves'
  BY <1>2 DEF NothingForbiddenLeaves, CanUpload, Classify
<1>5. RemoteInPast' /\ ListedInPast'
  BY <1>2 DEF StoredInv, RemoteInPast, ListedInPast
<1>6. AcknowledgedWasStored'
  BY <1>1, <1>2, <1>a, AckKeeps, RecordKeeps
     DEF StoredInv, ListedInPast, AcknowledgedWasStored
<1>7. RunInv'
  BY <1>1, <1>2 DEF RunInv, TodoGiven, UnmovedAsListed, TypeOK
<1> QED BY <1>3, <1>4, <1>5, <1>6, <1>7 DEF StoredInv

LEMMA PullFailsInv == ASSUME Inv, NEW d \in Devices, PullFails(d), Again(d) PROVE Inv'
<1> USE DEF Inv, PullFails, policyVars, bounds, Fails
<1>1. TypeOK'
  BY AgainKeeps, SyncAssumption DEF TypeOK, SyncState
<1>2. NothingForbiddenLeaves'
  BY DEF NothingForbiddenLeaves, CanUpload, Classify
<1>3. StoredInv'
  BY DEF StoredInv, RemoteInPast, ListedInPast, AcknowledgedWasStored, TypeOK
<1>4. RunInv'
  BY AgainKeeps DEF RunInv, TodoGiven, UnmovedAsListed, TypeOK
<1> QED BY <1>1, <1>2, <1>3, <1>4

LEMMA FinishInv == ASSUME Inv, NEW d \in Devices, Finish(d) PROVE Inv'
<1> USE DEF Inv, policyVars, bounds
<1>1. UNCHANGED <<class, optIn, local, remote, ack, given, listed, todo, result, edits,
                 failures, resolves, past, moved>>
  BY DEF Finish
<1>2. /\ pc' \in [Devices -> {"idle", "list", "objects", "pull"}]
      /\ attempts' \in [Devices -> Nat]
      /\ \A e \in Devices : attempts'[e] \in 0..(MaxRetries[e] + 1)
      /\ pc'[d] # "objects"
      /\ \A e \in Devices : e # d => pc'[e] = pc[e]
  <2>1. CASE Again(d)
    BY <2>1, AgainKeeps
  <2>2. CASE ~Again(d)
    BY <2>2 DEF Finish, TypeOK
  <2> QED BY <2>1, <2>2
<1>3. TypeOK'
  BY <1>1, <1>2 DEF TypeOK
<1>4. NothingForbiddenLeaves' /\ StoredInv'
  BY <1>1 DEF NothingForbiddenLeaves, CanUpload, Classify, StoredInv, RemoteInPast,
              ListedInPast, AcknowledgedWasStored
<1>5. RunInv'
  BY <1>1, <1>2 DEF RunInv, TodoGiven, UnmovedAsListed
<1> QED BY <1>3, <1>4, <1>5

LEMMA KeepLocalInv ==
    ASSUME Inv, NEW d \in Devices, NEW o \in Objects, KeepLocal(d, o)
    PROVE  Inv'
<1> USE DEF Inv, policyVars, runVars
<1> DEFINE c == local[d][o]
<1>1. c \in Contents
  BY DEF KeepLocal, Resolving, TypeOK, Version
<1>2. /\ Stored(o, c, Devices) /\ CanUpload(o, c)
      /\ ack' \in {ack, [ack EXCEPT ![d][o] = c]}
      /\ resolves' \in 0..MaxResolves /\ failures' \in 0..MaxFailures
      /\ UNCHANGED <<class, optIn, local, pc, given, listed, todo, result, attempts, edits>>
  BY SyncAssumption DEF KeepLocal, Resolving, Fails, TypeOK
<1> HIDE DEF c
<1>3. /\ remote' \in [Objects -> Version]
      /\ past' \in [Objects -> SUBSET Contents]
      /\ moved' \in [Devices -> SUBSET Objects]
      /\ NothingForbiddenLeaves' /\ RemoteInPast'
      /\ c \in past'[o] /\ \A p \in Objects : past[p] \subseteq past'[p]
      /\ \A p \in Objects \ {o} : remote'[p] = remote[p]
      /\ \A e \in Devices : moved[e] \subseteq moved'[e]
      /\ \A e \in Devices : o \in moved'[e]
  BY <1>1, <1>2, StoredKeeps DEF StoredInv
<1>4. TypeOK'
  BY <1>1, <1>2, <1>3, AckKeeps DEF TypeOK, Version
<1>5. ListedInPast' /\ AcknowledgedWasStored'
  BY <1>1, <1>2, <1>3, AckKeeps
     DEF StoredInv, ListedInPast, AcknowledgedWasStored, Version
<1>6. RunInv'
  BY <1>2, <1>3 DEF RunInv, TodoGiven, UnmovedAsListed, TypeOK
<1> QED BY <1>3, <1>4, <1>5, <1>6 DEF StoredInv

LEMMA KeepRemoteInv == ASSUME Inv, NEW d \in Devices, NEW o \in Objects, KeepRemote(d, o) PROVE Inv'
<1> USE DEF Inv, KeepRemote, policyVars, bounds, runVars, Resolving
<1>1. TypeOK'
  BY SyncAssumption DEF TypeOK, Version
<1>2. NothingForbiddenLeaves'
  BY DEF NothingForbiddenLeaves, CanUpload, Classify, TypeOK
<1>3. StoredInv'
  BY DEF StoredInv, RemoteInPast, ListedInPast, AcknowledgedWasStored, RunInv,
         TodoGiven, TypeOK
<1>4. RunInv'
  BY DEF RunInv, TodoGiven, UnmovedAsListed, TypeOK
<1> QED BY <1>1, <1>2, <1>3, <1>4

LEMMA NextInv == Inv /\ [Next]_vars => Inv'
<1> SUFFICES ASSUME Inv, [Next]_vars PROVE Inv'
  OBVIOUS
<1>1. ASSUME NEW d \in Devices,
             Start(d) \/ List(d) \/ ListFails(d) \/ BeginPull(d) \/ PullFails(d) \/ Finish(d)
      PROVE  Inv'
  BY <1>1, StartInv, ListInv, ListFailsInv, BeginPullInv, PullFailsInv, FinishInv
     DEF ListFails, PullFails
<1>2. ASSUME NEW d \in Devices, NEW o \in Objects,
             \/ SkipObject(d, o) \/ InSync(d, o) \/ Conflict(d, o)
             \/ Push(d, o) \/ PushFails(d, o) \/ Pull(d, o)
      PROVE  Inv'
  BY <1>2, SkipObjectInv, InSyncInv, ConflictInv, PushInv, PushFailsInv, PullInv
<1>3. ASSUME NEW d \in Devices, NEW o \in Objects,
             Edit(d, o) \/ KeepLocal(d, o) \/ KeepRemote(d, o)
      PROVE  Inv'
  BY <1>3, EditInv, KeepLocalInv, KeepRemoteInv
<1>4. CASE UNCHANGED vars
  BY <1>4 DEF vars, Inv, TypeOK, NothingForbiddenLeaves, CanUpload, Classify, StoredInv,
              RemoteInPast, ListedInPast, AcknowledgedWasStored, RunInv, TodoGiven,
              UnmovedAsListed
<1> QED BY <1>1, <1>2, <1>3, <1>4 DEF Next, Run

LEMMA Invariant == Spec => []Inv
BY InitInv, NextInv, PTL DEF Spec

-----------------------------------------------------------------------------
(* Nothing the policy keeps here ever reaches the remote, and what a device  *)
(* acknowledged or reported as stored had been stored, whatever was lost     *)
(* (SyncManager, SyncPolicy).                                                *)
THEOREM SyncIsSafe == Spec => []SyncSafe
<1>1. Inv => SyncSafe
  BY DEF Inv, StoredInv, SyncSafe
<1> QED BY <1>1, Invariant, PTL

(* A run overwrites a remote version only if this device acknowledged that   *)
(* very version, unless it arrived after the run had listed (_sync_one).     *)
THEOREM ConflictsAreExplicit == Spec => ConflictExplicit
<1>1. ASSUME Inv, [Next]_vars
      PROVE  [\A d \in Devices, o \in Objects :
                 (/\ remote'[o] # remote[o] /\ remote[o] # None /\ o \notin moved[d]
                  /\ result'[d] # result[d])
                    => remote[o] = ack[d][o]]_vars
  <2> SUFFICES ASSUME NEW d \in Devices, NEW o \in Objects,
                      remote'[o] # remote[o], remote[o] # None, o \notin moved[d],
                      result'[d] # result[d]
               PROVE  remote[o] = ack[d][o]
    OBVIOUS
  <2> USE DEF policyVars, bounds, runVars
  <2>1. ASSUME NEW e \in Devices, NEW p \in Objects, Push(e, p) \/ PushFails(e, p)
        PROVE  remote[o] = ack[d][o]
    <3>1. e = d /\ p = o
      BY <1>1, <2>1 DEF Inv, TypeOK, Push, PushFails, Stored, Record
    <3>2. /\ pc[d] = "objects" /\ o \in todo[d]
          /\ listed[d][o] \in {None, ack[d][o]}
      BY <2>1, <3>1 DEF Push, PushFails, Turn, MustPush
    <3>3. listed[d][o] = remote[o]
      BY <1>1, <3>2 DEF Inv, RunInv, UnmovedAsListed
    <3> QED BY <3>2, <3>3
  <2>2. ASSUME NEW e \in Devices, NEW p \in Objects,
               \/ SkipObject(e, p) \/ InSync(e, p) \/ Conflict(e, p) \/ Pull(e, p)
               \/ Edit(e, p) \/ KeepRemote(e, p)
        PROVE  remote' = remote
    BY <2>2 DEF SkipObject, InSync, Conflict, Pull, Edit, KeepRemote
  <2>3. ASSUME NEW e \in Devices,
               \/ Start(e) \/ List(e) \/ ListFails(e) \/ BeginPull(e) \/ PullFails(e)
               \/ Finish(e)
        PROVE  remote' = remote
    BY <2>3 DEF Start, List, ListFails, BeginPull, PullFails, Finish
  <2>4. ASSUME NEW e \in Devices, NEW p \in Objects, KeepLocal(e, p)
        PROVE  result' = result
    BY <2>4 DEF KeepLocal
  <2>5. ~UNCHANGED vars
    BY DEF vars
  <2> QED BY <1>1, <2>1, <2>2, <2>3, <2>4, <2>5 DEF Next, Run
<1> QED BY <1>1, Invariant, PTL DEF Spec, ConflictExplicit

-----------------------------------------------------------------------------
(* Presence.                                                               *)

(* A row is no fresher than the last heartbeat its device sent. *)
BackedAt(r, b, t) == b[r.device] \in 0..t /\ r.seen <= b[r.device]

HeldRow == [id : 0..MaxRows, device : Machines, seen : 0..MaxTime, status : Statuses]

CallStates == [at : {"idle", "write", "poll"}, row : HeldRow \cup {NoRow}, todo : SUBSET Row]

PresenceTypes ==
    /\ clock \in 0..MaxTime
    /\ rows \in Seq(Row)
    /\ nrows \in 0..MaxRows
    /\ beats \in [Machines -> 0..Never]

(* What a thread is about to write back was read from the table, and is      *)
(* backed however stale it is by now.                                        *)
CallBacked(k, b, t) ==
    /\ k \in CallStates
    /\ k.at = "write" => k.row \in HeldRow /\ BackedAt(k.row, b, t)
    /\ k.at = "poll" => \A r \in k.todo : BackedAt(r, b, t)

(* The inductive invariant. *)
PresenceInv ==
    /\ PresenceTypes
    /\ \A i \in 1..Len(rows) : BackedAt(rows[i], beats, clock)
    /\ DOMAIN call = Users
    /\ \A c \in Users : CallBacked(call[c], beats, clock)

-----------------------------------------------------------------------------
(* A nonempty set of naturals has a least element. *)
LEMMA LeastIn ==
    ASSUME NEW I \in SUBSET Nat, I # {}
    PROVE  Min(I) \in I
<1> DEFINE R == {p \in Nat \X Nat : p[1] < p[2]}
<1>1. IsWellFoundedOn(R, Nat)
  BY NatLessThanWellFounded, Zenon DEF OpToRel
<1>2. PICK x \in I : \A y \in I : ~(<<y, x>> \in R)
  <2> HIDE DEF R
  <2> QED BY <1>1, WFMin
<1>3. \A y \in I : x <= y
  <2> SUFFICES ASSUME NEW y \in I PROVE x <= y
    OBVIOUS
  <2>1. x \in Nat /\ y \in Nat /\ <<y, x>> \in Nat \X Nat
    OBVIOUS
  <2>2. ~(y < x)
    BY <1>2, <2>1
  <2> QED BY <2>1, <2>2
<1> QED BY <1>3 DEF Min

(* _find answers with a row of the device. *)
LEMMA PlaceInTable ==
    ASSUME rows \in Seq(Row), NEW d
    PROVE  /\ PlaceOf(d) \in 0..Len(rows)
           /\ PlaceOf(d) # 0 => rows[PlaceOf(d)].device = d /\ rows[PlaceOf(d)] \in Row
<1> DEFINE I == {i \in 1..Len(rows) : rows[i].device = d}
<1>1. PlaceOf(d) = IF I # {} THEN Min(I) ELSE 0
  BY DEF PlaceOf, SelectInSeq
<1>2. I # {} => Min(I) \in I
  <2>1. I \in SUBSET Nat
    OBVIOUS
  <2> HIDE DEF I
  <2> QED BY <2>1, LeastIn
<1>3. \A i \in 1..Len(rows) : rows[i] \in Row
  OBVIOUS
<1>4. CASE I # {}
  <2>1. PlaceOf(d) \in I
    BY <1>1, <1>2, <1>4
  <2> HIDE <1>1, <1>2, <1>4
  <2> QED BY <1>3, <2>1
<1>5. CASE I = {}
  BY <1>1, <1>5
<1> QED BY <1>4, <1>5

LEMMA Found ==
    ASSUME PresenceInv, NEW d \in Machines, Find(d) # NoRow
    PROVE  Find(d) \in Row /\ Find(d).device = d /\ BackedAt(Find(d), beats, clock)
<1>1. rows \in Seq(Row)
  BY DEF PresenceInv, PresenceTypes
<1>2. PlaceOf(d) \in 1..Len(rows) /\ Find(d) = rows[PlaceOf(d)]
  BY <1>1, PlaceInTable DEF Find
<1> QED BY <1>1, <1>2, PlaceInTable DEF PresenceInv

LEMMA Concatenated ==
    ASSUME NEW S, NEW s \in Seq(S), NEW t \in Seq(S)
    PROVE  /\ s \o t \in Seq(S) /\ Len(s \o t) = Len(s) + Len(t)
           /\ \A j \in 1..Len(s \o t) : (s \o t)[j] = IF j <= Len(s) THEN s[j] ELSE t[j - Len(s)]
OBVIOUS

(* Taking a row out leaves rows of the table. *)
LEMMA WithoutRows ==
    ASSUME rows \in Seq(Row), NEW id
    PROVE  /\ Without(id) \in Seq(Row)
           /\ \A j \in 1..Len(Without(id)) : \E i \in 1..Len(rows) : Without(id)[j] = rows[i]
<1> DEFINE I == {i \in 1..Len(rows) : rows[i].id = id}
           k == IF I # {} THEN Min(I) ELSE 0
<1>1. Without(id) = IF k = 0 THEN rows ELSE RemoveAt(rows, k)
  BY DEF Without, SelectInSeq
<1>2. k \in 0..Len(rows)
  <2>1. I \in SUBSET Nat
    OBVIOUS
  <2>2. I # {} => Min(I) \in I
    <3> HIDE DEF I
    <3> QED BY <2>1, LeastIn
  <2> QED BY <2>2
<1> HIDE DEF k
<1>3. CASE k = 0
  BY <1>1, <1>3
<1>4. CASE k # 0
  <2> DEFINE a == SubSeq(rows, 1, k - 1)
             b == SubSeq(rows, k + 1, Len(rows))
  <2>1. k \in 1..Len(rows) /\ Len(rows) \in Nat
    BY <1>2, <1>4
  <2>2. /\ a \in Seq(Row) /\ Len(a) = k - 1
        /\ \A j \in 1..Len(a) : a[j] = rows[j]
    BY <2>1
  <2>3. /\ b \in Seq(Row) /\ Len(b) = Len(rows) - k
        /\ \A j \in 1..Len(b) : b[j] = rows[k + j]
    BY <2>1
  <2>4. Without(id) = a \o b
    BY <1>1, <1>4 DEF RemoveAt
  <2> HIDE DEF a, b
  <2>5. /\ Without(id) \in Seq(Row) /\ Len(Without(id)) = Len(a) + Len(b)
        /\ \A j \in 1..Len(Without(id)) :
              Without(id)[j] = IF j <= Len(a) THEN a[j] ELSE b[j - Len(a)]
    <3>1. /\ a \o b \in Seq(Row) /\ Len(a \o b) = Len(a) + Len(b)
          /\ \A j \in 1..Len(a \o b) : (a \o b)[j] = IF j <= Len(a) THEN a[j] ELSE b[j - Len(a)]
      <4>1. a \in Seq(Row) /\ b \in Seq(Row)
        BY <2>2, <2>3
      <4> QED BY <4>1, Concatenated
    <3> QED BY <2>4, <3>1
  <2>6. ASSUME NEW j \in 1..Len(Without(id))
        PROVE  \E i \in 1..Len(rows) : Without(id)[j] = rows[i]
    <3>1. CASE j <= Len(a)
      BY <2>1, <2>2, <2>5, <2>6, <3>1
    <3>2. CASE ~(j <= Len(a))
      <4>1. j - Len(a) \in 1..Len(b) /\ k + (j - Len(a)) \in 1..Len(rows)
        BY <2>1, <2>2, <2>3, <2>5, <2>6, <3>2
      <4> QED BY <2>3, <2>5, <2>6, <3>2, <4>1
    <3> QED BY <3>1, <3>2
  <2> QED BY <2>5, <2>6
<1> QED BY <1>3, <1>4

(* Putting a backed row into the table keeps every row of it backed. *)
LEMMA PutBacked ==
    ASSUME PresenceInv, NEW r \in Row, BackedAt(r, beats, clock), rows' = Put(r), UNCHANGED <<clock, beats>>
    PROVE  rows' \in Seq(Row) /\ \A i \in 1..Len(rows') : BackedAt(rows'[i], beats', clock')
<1> DEFINE w == Without(r.id)
<1>1. rows \in Seq(Row) /\ \A i \in 1..Len(rows) : BackedAt(rows[i], beats, clock)
  BY DEF PresenceInv, PresenceTypes
<1>2. w \in Seq(Row) /\ \A j \in 1..Len(w) : BackedAt(w[j], beats, clock)
  BY <1>1, WithoutRows
<1>3. rows' = Append(w, r)
  BY DEF Put
<1> HIDE DEF w
<1>4. rows' \in Seq(Row) /\ Len(rows') = Len(w) + 1 /\ Len(w) \in Nat
      /\ rows'[Len(w) + 1] = r /\ \A j \in 1..Len(w) : rows'[j] = w[j]
  BY <1>2, <1>3
<1>5. ASSUME NEW i \in 1..Len(rows') PROVE BackedAt(rows'[i], beats, clock)
  <2>1. i = Len(w) + 1 \/ i \in 1..Len(w)
    BY <1>4
  <2>2. CASE i = Len(w) + 1
    BY <1>4, <2>2
  <2>3. CASE i \in 1..Len(w)
    BY <1>2, <1>4, <2>3
  <2> QED BY <2>1, <2>2, <2>3
<1> QED BY <1>4, <1>5

(* A row stays backed while the clock and the heartbeats move on. *)
LEMMA StaysBacked ==
    ASSUME PresenceInv, NEW r, BackedAt(r, beats, clock), r.seen \in Nat, beats' \in [Machines -> 0..Never],
           clock \in Nat, clock' \in Nat, clock <= clock', r.device \in Machines,
           beats'[r.device] = beats[r.device] \/ beats'[r.device] = clock'
    PROVE  BackedAt(r, beats', clock')
BY DEF BackedAt, PresenceInv, PresenceTypes

LEMMA AllStayBacked ==
    ASSUME PresenceInv, UNCHANGED rows, beats' \in [Machines -> 0..Never],
           clock' \in 0..MaxTime, clock <= clock',
           \A d \in Machines : beats'[d] = beats[d] \/ beats'[d] = clock'
    PROVE  /\ \A i \in 1..Len(rows') : BackedAt(rows'[i], beats', clock')
           /\ \A c \in Users : (call'[c] = call[c]) => CallBacked(call'[c], beats', clock')
<1>1. clock \in Nat /\ clock' \in Nat /\ rows \in Seq(Row)
  BY PresenceAssumption DEF PresenceInv, PresenceTypes
<1>2. ASSUME NEW r \in HeldRow, BackedAt(r, beats, clock) PROVE BackedAt(r, beats', clock')
  <2>1. r.seen \in Nat /\ r.device \in Machines
    BY PresenceAssumption DEF HeldRow
  <2> QED BY <1>1, <1>2, <2>1, StaysBacked
<1>3. Row \subseteq HeldRow
  BY PresenceAssumption DEF Row, HeldRow
<1>4. ASSUME NEW i \in 1..Len(rows') PROVE BackedAt(rows'[i], beats', clock')
  <2>1. rows[i] \in HeldRow /\ BackedAt(rows[i], beats, clock)
    BY <1>1, <1>3 DEF PresenceInv
  <2> QED BY <1>2, <2>1
<1>5. ASSUME NEW c \in Users, call'[c] = call[c] PROVE CallBacked(call'[c], beats', clock')
  <2>1. CallBacked(call[c], beats, clock)
    BY DEF PresenceInv
  <2>2. call[c].at = "write" => BackedAt(call[c].row, beats', clock')
    BY <1>2, <2>1 DEF CallBacked, CallStates
  <2>3. call[c].at = "poll" => \A r \in call[c].todo : BackedAt(r, beats', clock')
    BY <1>2, <1>3, <2>1 DEF CallBacked, CallStates
  <2> QED BY <1>5, <2>1, <2>2, <2>3 DEF CallBacked, CallStates
<1> QED BY <1>4, <1>5

(* A thread that has nothing more to write. *)
LEMMA IdleState == NoCall \in CallStates /\ NoCall.at = "idle"
BY DEF NoCall, CallStates

LEMMA IdleBacked == \A b, t : CallBacked(NoCall, b, t)
BY IdleState DEF CallBacked

LEMMA HeartbeatKeeps ==
    ASSUME PresenceInv, NEW c \in Users, NEW d \in Machines, NEW status \in Statuses,
           Heartbeat(c, d, status)
    PROVE  PresenceInv'
<1> DEFINE new == [Find(d) EXCEPT !.device = d, !.seen = clock, !.status = status]
           k == [NoCall EXCEPT !.at = "write", !.row = new]
<1>1. new \in HeldRow /\ new.device = d /\ new.seen = clock
  <2> DEFINE F == [id : 0..MaxRows, device : Machines \cup {"none"}, seen : 0..MaxTime,
                   status : Statuses]
  <2>1. NoRow \in F /\ Row \subseteq F
    BY PresenceAssumption DEF NoRow, Row, Statuses
  <2>2. Find(d) \in F
    BY <2>1, Found
  <2>3. clock \in 0..MaxTime
    BY DEF PresenceInv, PresenceTypes
  <2> QED BY <2>2, <2>3 DEF HeldRow
<1>2. /\ clock' = clock /\ rows' = rows /\ nrows' = nrows
      /\ beats' = [beats EXCEPT ![d] = clock]
      /\ call' = [call EXCEPT ![c] = k]
  BY DEF Heartbeat
<1>3. k.at = "write" /\ k.row = new /\ k \in CallStates
  BY <1>1, IdleState DEF CallStates
<1> HIDE DEF k, new
<1>4. clock \in 0..MaxTime /\ clock \in 0..Never /\ clock \in 0..clock
  BY PresenceAssumption DEF PresenceInv, PresenceTypes, Never
<1>5. /\ beats' \in [Machines -> 0..Never] /\ beats'[d] = clock
      /\ \A e \in Machines : beats'[e] = beats[e] \/ beats'[e] = clock'
  BY <1>2, <1>4 DEF PresenceInv, PresenceTypes
<1>6. PresenceTypes' /\ DOMAIN call' = Users
  BY <1>2, <1>5 DEF PresenceInv, PresenceTypes
<1>7. CallBacked(k, beats', clock')
  BY <1>1, <1>2, <1>3, <1>4, <1>5 DEF CallBacked, BackedAt
<1>8. /\ call'[c] = k
      /\ \A e \in Users : e # c => call'[e] = call[e]
  BY <1>2 DEF PresenceInv
<1>9. /\ \A i \in 1..Len(rows') : BackedAt(rows'[i], beats', clock')
      /\ \A e \in Users : (call'[e] = call[e]) => CallBacked(call'[e], beats', clock')
  <2>1. clock' \in 0..MaxTime /\ clock <= clock' /\ UNCHANGED rows
    BY <1>2, <1>4, PresenceAssumption
  <2> QED BY <1>5, <2>1, AllStayBacked
<1>10. \A e \in Users : CallBacked(call'[e], beats', clock')
  BY <1>7, <1>8, <1>9
<1> QED BY <1>6, <1>9, <1>10 DEF PresenceInv

(* The steps of one thread that leave the clock and the heartbeats alone. *)
LEMMA ThreadKeeps ==
    ASSUME PresenceInv, UNCHANGED <<clock, beats>>, NEW c \in Users, NEW k,
           call' = [call EXCEPT ![c] = k], CallBacked(k, beats, clock), PresenceTypes',
           \A i \in 1..Len(rows') : BackedAt(rows'[i], beats', clock')
    PROVE  PresenceInv'
<1>1. /\ DOMAIN call' = Users /\ call'[c] = k
      /\ \A e \in Users : e # c => call'[e] = call[e]
  BY DEF PresenceInv
<1>2. \A e \in Users : CallBacked(call'[e], beats', clock')
  BY <1>1 DEF PresenceInv
<1> QED BY <1>1, <1>2 DEF PresenceInv

LEMMA SetStatusKeeps ==
    ASSUME PresenceInv, NEW c \in Users, NEW d \in Machines, NEW status \in Statuses,
           SetStatus(c, d, status)
    PROVE  PresenceInv'
<1> DEFINE r == [Find(d) EXCEPT !.status = status]
           k == [NoCall EXCEPT !.at = "write", !.row = r]
<1>1. Find(d) \in Row /\ BackedAt(Find(d), beats, clock)
  BY Found DEF SetStatus
<1>2. r \in HeldRow /\ r.device = Find(d).device /\ r.seen = Find(d).seen
  BY <1>1, PresenceAssumption DEF Row, HeldRow
<1>3. k.at = "write" /\ k.row = r /\ k \in CallStates
  BY <1>2, IdleState DEF CallStates
<1>4. call' = [call EXCEPT ![c] = k]
  BY DEF SetStatus
<1> HIDE DEF r, k
<1>5. CallBacked(k, beats, clock)
  BY <1>1, <1>2, <1>3 DEF CallBacked, BackedAt
<1>6. PresenceTypes' /\ \A i \in 1..Len(rows') : BackedAt(rows'[i], beats', clock')
  BY DEF SetStatus, PresenceInv, PresenceTypes
<1> QED BY <1>4, <1>5, <1>6, ThreadKeeps DEF SetStatus

LEMMA WriteKeeps ==
    ASSUME PresenceInv, NEW c \in Users, Write(c)
    PROVE  PresenceInv'
<1> DEFINE held == call[c].row
           r == IF held.id = 0 THEN [held EXCEPT !.id = nrows'] ELSE held
<1>1. held \in HeldRow /\ BackedAt(held, beats, clock)
  BY DEF PresenceInv, CallBacked, Write
<1>2. nrows' \in 0..MaxRows /\ (held.id = 0 => nrows' \in 1..MaxRows)
  BY <1>1, PresenceAssumption DEF Write, PresenceInv, PresenceTypes
<1>3. r \in Row /\ r.device = held.device /\ r.seen = held.seen
  BY <1>1, <1>2, PresenceAssumption DEF Row, HeldRow
<1>4. rows' = Put(r) /\ clock' = clock /\ beats' = beats /\ call' = [call EXCEPT ![c] = NoCall]
  BY DEF Write
<1> HIDE DEF r, held
<1>5. BackedAt(r, beats, clock)
  BY <1>1, <1>3 DEF BackedAt
<1>6. rows' \in Seq(Row) /\ \A i \in 1..Len(rows') : BackedAt(rows'[i], beats', clock')
  BY <1>3, <1>4, <1>5, PutBacked
<1>7. PresenceTypes'
  BY <1>2, <1>4, <1>6 DEF PresenceInv, PresenceTypes
<1> QED BY <1>4, <1>6, <1>7, IdleBacked, ThreadKeeps

LEMMA PollKeeps ==
    ASSUME PresenceInv, NEW c \in Users, Poll(c)
    PROVE  PresenceInv'
<1> DEFINE k == [NoCall EXCEPT !.at = "poll", !.todo = Lapsed]
<1>1. Lapsed \subseteq Row /\ \A r \in Lapsed : BackedAt(r, beats, clock)
  <2> SUFFICES ASSUME NEW r \in Lapsed PROVE r \in Row /\ BackedAt(r, beats, clock)
    OBVIOUS
  <2>1. rows \in Seq(Row)
    BY DEF PresenceInv, PresenceTypes
  <2>2. PICK i \in DOMAIN rows : r = rows[i]
    BY DEF Lapsed, ToSet
  <2>3. i \in 1..Len(rows)
    BY <2>1
  <2> QED BY <2>1, <2>2, <2>3 DEF PresenceInv
<1>2. call' = [call EXCEPT ![c] = k]
  BY DEF Poll
<1>3. k.at = "poll" /\ k.todo = Lapsed /\ k \in CallStates
  BY <1>1, IdleState DEF CallStates
<1> HIDE DEF k
<1>4. CallBacked(k, beats, clock)
  BY <1>1, <1>3 DEF CallBacked
<1>5. PresenceTypes' /\ \A i \in 1..Len(rows') : BackedAt(rows'[i], beats', clock')
  BY DEF Poll, PresenceInv, PresenceTypes
<1> QED BY <1>2, <1>4, <1>5, ThreadKeeps DEF Poll

LEMMA PollRowKeeps ==
    ASSUME PresenceInv, NEW c \in Users, PollRow(c)
    PROVE  PresenceInv'
<1>1. PICK r \in call[c].todo :
         /\ rows' = Put([r EXCEPT !.status = "OFFLINE"])
         /\ call' = [call EXCEPT ![c] = IF call[c].todo \ {r} = {} THEN NoCall
                                        ELSE [call[c] EXCEPT !.todo = call[c].todo \ {r}]]
  BY DEF PollRow
<1> DEFINE off == [r EXCEPT !.status = "OFFLINE"]
           k == IF call[c].todo \ {r} = {} THEN NoCall
                ELSE [call[c] EXCEPT !.todo = call[c].todo \ {r}]
<1>2. /\ CallBacked(call[c], beats, clock) /\ call[c].at = "poll"
      /\ r \in Row /\ BackedAt(r, beats, clock)
  BY DEF PresenceInv, CallBacked, CallStates, PollRow
<1>3. off \in Row /\ off.device = r.device /\ off.seen = r.seen
  BY <1>2 DEF Row, Statuses
<1>4. CallBacked(k, beats, clock)
  <2>1. CASE call[c].todo \ {r} = {}
    BY <2>1, IdleBacked
  <2>2. CASE call[c].todo \ {r} # {}
    <3> DEFINE t == call[c].todo \ {r}
    <3>1. k = [call[c] EXCEPT !.todo = t]
      BY <2>2
    <3>2. k.at = "poll" /\ k.todo = t /\ k \in CallStates
      BY <1>2, <3>1 DEF CallBacked, CallStates
    <3> QED BY <1>2, <3>2 DEF CallBacked
  <2> QED BY <2>1, <2>2
<1>5. rows' = Put(off) /\ call' = [call EXCEPT ![c] = k] /\ clock' = clock /\ beats' = beats
  BY <1>1 DEF PollRow
<1> HIDE DEF off, k
<1>6. BackedAt(off, beats, clock)
  BY <1>2, <1>3 DEF BackedAt
<1>7. rows' \in Seq(Row) /\ \A i \in 1..Len(rows') : BackedAt(rows'[i], beats', clock')
  BY <1>3, <1>5, <1>6, PutBacked
<1>8. PresenceTypes'
  BY <1>5, <1>7 DEF PollRow, PresenceInv, PresenceTypes
<1> QED BY <1>4, <1>5, <1>7, <1>8, ThreadKeeps

LEMMA TickKeeps ==
    ASSUME PresenceInv, Tick
    PROVE  PresenceInv'
<1>1. /\ clock' \in 0..MaxTime /\ clock <= clock'
      /\ beats' \in [Machines -> 0..Never]
      /\ \A d \in Machines : beats'[d] = beats[d] \/ beats'[d] = clock'
  BY PresenceAssumption DEF Tick, PresenceInv, PresenceTypes
<1>2. /\ \A i \in 1..Len(rows') : BackedAt(rows'[i], beats', clock')
      /\ \A c \in Users : CallBacked(call'[c], beats', clock')
  BY <1>1, AllStayBacked DEF Tick
<1> QED BY <1>1, <1>2 DEF Tick, PresenceInv, PresenceTypes

-----------------------------------------------------------------------------
LEMMA PresenceInitHolds == PresenceInit => PresenceInv
<1> SUFFICES ASSUME PresenceInit PROVE PresenceInv
  OBVIOUS
<1>1. PresenceTypes
  BY PresenceAssumption DEF PresenceInit, PresenceTypes, Never
<1> QED BY <1>1, IdleBacked DEF PresenceInit, PresenceInv

LEMMA PresenceNextKeeps == PresenceInv /\ [PresenceNext]_presenceVars => PresenceInv'
<1> SUFFICES ASSUME PresenceInv, [PresenceNext]_presenceVars PROVE PresenceInv'
  OBVIOUS
<1>1. CASE UNCHANGED presenceVars
  BY <1>1 DEF presenceVars, PresenceInv, PresenceTypes
<1>2. CASE Tick
  BY <1>2, TickKeeps
<1>3. ASSUME NEW c \in Users, Write(c) \/ Poll(c) \/ PollRow(c) PROVE PresenceInv'
  BY <1>3, WriteKeeps, PollKeeps, PollRowKeeps
<1>4. ASSUME NEW c \in Users, NEW d \in Machines, NEW status \in Statuses,
             Heartbeat(c, d, status) \/ SetStatus(c, d, status)
      PROVE  PresenceInv'
  BY <1>4, HeartbeatKeeps, SetStatusKeeps
<1> QED BY <1>1, <1>2, <1>3, <1>4 DEF PresenceNext

(* For any devices, threads and lease, a device is reported available only   *)
(* within the lease of a heartbeat it really sent, although every operation  *)
(* writes back whole rows it has read earlier (heartbeat, set_status,        *)
(* mark_offline, poll, is_available).                                        *)
THEOREM PresenceIsSafe == PresenceSpec => []PresenceSafe
<1>1. PresenceInv => PresenceSafe
  <2> SUFFICES ASSUME PresenceInv PROVE PresenceSafe
    OBVIOUS
  <2>1. PresenceTypeOK
    BY DEF PresenceInv, PresenceTypes, PresenceTypeOK, CallBacked, CallStates
  <2>2. AvailableIsFresh
    <3> SUFFICES ASSUME NEW d \in Machines, IsAvailable(d)
                 PROVE  beats[d] # Never /\ clock - beats[d] <= Lease
      BY DEF AvailableIsFresh
    <3>1. Find(d) \in Row /\ Find(d).device = d /\ BackedAt(Find(d), beats, clock)
      BY Found DEF IsAvailable
    <3>2. clock - Find(d).seen <= Lease
      <4>1. Find(d).seen \in Nat /\ clock \in Nat
        BY <3>1, PresenceAssumption DEF Row, PresenceInv, PresenceTypes
      <4> QED BY <4>1, PresenceAssumption DEF IsAvailable, Expired
    <3>3. /\ beats[d] \in 0..clock /\ Find(d).seen <= beats[d] /\ clock \in 0..MaxTime
          /\ Find(d).seen \in Nat
      BY <3>1, PresenceAssumption DEF BackedAt, Row, PresenceInv, PresenceTypes
    <3> QED BY <3>2, <3>3, PresenceAssumption DEF Never
  <2> QED BY <2>1, <2>2 DEF PresenceSafe
<1> QED BY <1>1, PresenceInitHolds, PresenceNextKeeps, PTL DEF PresenceSpec

-----------------------------------------------------------------------------
(* Offload.                                                                *)

Routing == {"rank", "probe", "submit"}
Driving == {"polled", "fetch", "cancel", "cancelled"}
Aside == {"idle", "mark", "connect"}

CallerStates == [at : Routing \cup Driving \cup Aside, to : Clouds \cup {"none"},
                 ranked : SUBSET Providers, saw : RemoteState \cup JobStatus]

OffloadTypes ==
    /\ OffloadTypeOK
    /\ caller \in [Callers -> CallerStates]
    /\ \A c \in Callers :
          /\ caller[c].at \in {"connect", "submit"} \cup Driving => caller[c].to \in Clouds
          /\ caller[c].at = "polled" => caller[c].saw \in RemoteState \ {"none"}
          /\ caller[c].at = "mark" => caller[c].saw \in JobStatus

Finished(p) == backend[p] \in Done \cup {"none"}

(* A job is placed by one caller while no other drives it and no backend has *)
(* it at work.                                                               *)
PlacedAlone ==
    \A c \in Callers : caller[c].at \in Routing =>
        /\ \A d \in Callers : d # c => caller[d].at \in Aside
        /\ \A p \in Clouds : Finished(p)

(* Private work has no provider, ranks local ones only and is not about to   *)
(* be submitted; without a provider no backend has seen the job.             *)
PrivateUnplaced ==
    /\ job.private => job.provider = "none"
    /\ job.provider = "none" => \A p \in Clouds : backend[p] = "none"
    /\ \A c \in Callers :
          /\ caller[c].at = "probe" /\ job.private => caller[c].ranked \subseteq Local
          /\ caller[c].at = "submit" => ~job.private

(* Only the job's provider can have it at work. *)
OneAtWork == \A p \in Clouds : p # job.provider => Finished(p)

(* A backend that completed the job can only time it out. *)
ReachedStays == \A p \in reached : backend[p] \in {"COMPLETED", "TIMED_OUT"}

(* What a caller in the middle of a poll or a cancellation knows of a        *)
(* finished backend is still true, or the backend has timed the job out.     *)
DriverKnows ==
    \A c \in Callers :
        /\ caller[c].at \in Driving => caller[c].to = job.provider
        /\ caller[c].at = "polled" /\ caller[c].saw \in Done =>
              backend[caller[c].to] \in {caller[c].saw, "TIMED_OUT"}
        /\ caller[c].at = "polled" /\ caller[c].saw = "COMPLETED" => caller[c].to \in reached
        /\ caller[c].at = "fetch" => caller[c].to \in reached
        /\ caller[c].at = "cancelled" => backend[caller[c].to] \in Done

(* The job's status claims no more than the backend has reached, and a       *)
(* success has its result or somebody who fetches it, or was timed out.      *)
StatusHonest ==
    /\ job.status = "CANCELLED" => \A p \in Clouds : Finished(p)
    /\ job.status = "SUCCEEDED" =>
          \E p \in reached :
             \/ job.result \/ backend[p] = "TIMED_OUT"
             \/ \E c \in Callers : caller[c].at = "fetch" /\ caller[c].to = p

(* The inductive invariant. *)
OffloadInv ==
    /\ OffloadTypes
    /\ PlacedAlone
    /\ PrivateUnplaced
    /\ OneAtWork
    /\ ReachedStays
    /\ DriverKnows
    /\ StatusHonest

-----------------------------------------------------------------------------
LEMMA RestingFields ==
    Resting \in CallerStates /\ Resting.at = "idle"
BY DEF Resting, CallerStates, Routing, Driving, Aside, RemoteState, JobStatus, Terminal, Done

(* What a caller goes on to, in terms of the callers' places. *)
LEMMA Went ==
    ASSUME OffloadInv, NEW c \in Callers, NEW x \in CallerStates, Goto(c, x)
    PROVE  /\ caller' \in [Callers -> CallerStates] /\ caller'[c] = x
           /\ \A d \in Callers : d # c => caller'[d] = caller[d]
BY DEF OffloadInv, OffloadTypes, Goto

LEMMA JobFields ==
    ASSUME OffloadInv
    PROVE  /\ job \in [status : JobStatus, provider : Clouds \cup {"none"},
                       result : BOOLEAN, private : BOOLEAN]
           /\ backend \in [Clouds -> RemoteState]
           /\ caller \in [Callers -> CallerStates]
           /\ reached \subseteq Clouds
BY DEF OffloadInv, OffloadTypes, OffloadTypeOK

(* Steps that neither place nor drive the job: a caller at the side moves.   *)
LEMMA AsideKeeps ==
    ASSUME OffloadInv, UNCHANGED <<job, backend, reached>>, OffloadTypeOK',
           NEW c \in Callers, NEW x \in CallerStates, Goto(c, x),
           x.at \in Aside, caller[c].at \in Aside,
           x.at = "connect" => x.to \in Clouds,
           x.at = "mark" => x.saw \in JobStatus
    PROVE  OffloadInv'
<1>1. /\ caller' \in [Callers -> CallerStates] /\ caller'[c] = x
      /\ \A d \in Callers : d # c => caller'[d] = caller[d]
  BY Went
<1>2. OffloadTypes'
  BY <1>1 DEF OffloadInv, OffloadTypes, Aside, Driving
<1>3. PlacedAlone'
  BY <1>1 DEF OffloadInv, PlacedAlone, Finished, Aside, Routing
<1>4. PrivateUnplaced'
  BY <1>1 DEF OffloadInv, PrivateUnplaced, Aside
<1>5. OneAtWork' /\ ReachedStays' /\ DriverKnows'
  BY <1>1 DEF OffloadInv, OneAtWork, ReachedStays, DriverKnows, Finished, Aside, Driving
<1>6. StatusHonest'
  <2>1. \A d \in Callers : caller[d].at = "fetch" => caller'[d] = caller[d]
    BY <1>1 DEF Aside
  <2> QED BY <2>1 DEF OffloadInv, StatusHonest, Finished
<1> QED BY <1>2, <1>3, <1>4, <1>5, <1>6 DEF OffloadInv

LEMMA ConnectKeeps ==
    ASSUME OffloadInv, NEW c \in Callers, NEW p \in Clouds, Connect(c, p)
    PROVE  OffloadInv'
<1> DEFINE x == [Resting EXCEPT !.at = "connect", !.to = p]
<1>1. x \in CallerStates /\ x.at = "connect" /\ x.to = p
  BY RestingFields DEF Resting, CallerStates, Aside
<1>2. OffloadTypeOK' /\ caller[c].at \in Aside
  BY RestingFields DEF OffloadInv, OffloadTypes, OffloadTypeOK, Connect, Aside
<1> HIDE DEF x
<1>3. Goto(c, x)
  BY DEF Connect, x
<1> QED BY <1>1, <1>2, <1>3, AsideKeeps DEF Connect, Aside

LEMMA ConnectedKeeps ==
    ASSUME OffloadInv, NEW c \in Callers, Connected(c)
    PROVE  OffloadInv'
<1>1. OffloadTypeOK' /\ caller[c].at \in Aside
  BY DEF OffloadInv, OffloadTypes, OffloadTypeOK, Connected, Aside
<1> QED BY <1>1, RestingFields, AsideKeeps DEF Connected, Aside

LEMMA MarkReadKeeps ==
    ASSUME OffloadInv, NEW c \in Callers, NEW s \in JobStatus, MarkRead(c, s)
    PROVE  OffloadInv'
<1> DEFINE x == [Resting EXCEPT !.at = "mark", !.saw = s]
<1>1. x \in CallerStates /\ x.at = "mark" /\ x.saw = s
  BY RestingFields DEF Resting, CallerStates, Aside
<1>2. OffloadTypeOK' /\ caller[c].at \in Aside
  BY RestingFields DEF OffloadInv, OffloadTypes, OffloadTypeOK, MarkRead, Aside
<1> HIDE DEF x
<1>3. Goto(c, x)
  BY DEF MarkRead, x
<1> QED BY <1>1, <1>2, <1>3, AsideKeeps DEF MarkRead, Aside

LEMMA MarkWriteKeeps ==
    ASSUME OffloadInv, NEW c \in Callers, MarkWrite(c)
    PROVE  OffloadInv'
<1>1. OffloadTypeOK' /\ caller[c].at \in Aside
  BY DEF OffloadInv, OffloadTypes, OffloadTypeOK, MarkWrite, Aside
<1> QED BY <1>1, RestingFields, AsideKeeps DEF MarkWrite, Aside

(* Steps of the environment. *)
LEMMA SurroundingsKeep ==
    ASSUME OffloadInv, UNCHANGED <<job, backend, caller, reached>>, OffloadTypeOK'
    PROVE  OffloadInv'
BY DEF OffloadInv, OffloadTypes, PlacedAlone, PrivateUnplaced, OneAtWork, ReachedStays,
       DriverKnows, StatusHonest, Finished

-----------------------------------------------------------------------------
(* Placing the job. *)

LEMMA ValidateKeeps ==
    ASSUME OffloadInv, NEW c \in Callers, NEW private \in BOOLEAN, Validate(c, private)
    PROVE  OffloadInv'
<1> DEFINE x == [Resting EXCEPT !.at = "rank"]
<1>1. x \in CallerStates /\ x.at = "rank"
  BY RestingFields DEF Resting, CallerStates, Routing
<1>2. Goto(c, x)
  BY DEF Validate
<1> HIDE DEF x
<1>3. /\ caller' \in [Callers -> CallerStates] /\ caller'[c] = x
      /\ \A d \in Callers : d # c => caller'[d] = caller[d]
  BY <1>1, <1>2, Went
<1>4. /\ job' \in [status : JobStatus, provider : Clouds \cup {"none"},
                   result : BOOLEAN, private : BOOLEAN]
      /\ job'.status = job.status /\ job'.provider = job.provider
      /\ job'.result = job.result /\ job'.private = private
  BY JobFields DEF Validate
<1>5. /\ \A d \in Callers : caller[d].at \in Aside
      /\ \A p \in Clouds : Finished(p)
      /\ job.provider = "none" \/ private = job.private
      /\ backend' = backend /\ reached' = reached
  BY DEF Validate, NoOneBusy, Aside, Finished
<1>6. OffloadTypes'
  BY <1>1, <1>3, <1>4 DEF OffloadInv, OffloadTypes, OffloadTypeOK, Driving, Validate
<1>7. PlacedAlone'
  BY <1>1, <1>3, <1>5 DEF PlacedAlone, Finished, Aside, Routing
<1>8. PrivateUnplaced'
  BY <1>1, <1>3, <1>4, <1>5 DEF OffloadInv, PrivateUnplaced, Aside
<1>9. OneAtWork' /\ ReachedStays' /\ DriverKnows'
  BY <1>1, <1>3, <1>4, <1>5
  DEF OffloadInv, OneAtWork, ReachedStays, DriverKnows, Finished, Aside, Driving
<1>10. StatusHonest'
  BY <1>1, <1>3, <1>4, <1>5 DEF OffloadInv, StatusHonest, Finished, Aside
<1> QED BY <1>6, <1>7, <1>8, <1>9, <1>10 DEF OffloadInv

(* A caller that places the job goes on, or gives up. *)
LEMMA RoutingKeeps ==
    ASSUME OffloadInv, UNCHANGED <<conn, up, job, backend, stored, reached>>,
           NEW c \in Callers, NEW x \in CallerStates, Goto(c, x),
           caller[c].at \in Routing, x.at \in {"idle", "probe", "submit"},
           x.at = "probe" /\ job.private => x.ranked \subseteq Local,
           x.at = "submit" => x.to \in Clouds /\ ~job.private
    PROVE  OffloadInv'
<1>1. /\ caller' \in [Callers -> CallerStates] /\ caller'[c] = x
      /\ \A d \in Callers : d # c => caller'[d] = caller[d]
  BY Went
<1>2. OffloadTypes'
  BY <1>1 DEF OffloadInv, OffloadTypes, OffloadTypeOK, Driving
<1>3. PlacedAlone'
  BY <1>1 DEF OffloadInv, PlacedAlone, Finished, Aside, Routing
<1>4. PrivateUnplaced'
  BY <1>1 DEF OffloadInv, PrivateUnplaced
<1>5. OneAtWork' /\ ReachedStays' /\ DriverKnows'
  BY <1>1 DEF OffloadInv, OneAtWork, ReachedStays, DriverKnows, Finished, Driving
<1>6. StatusHonest'
  <2>1. \A d \in Callers : caller[d].at = "fetch" => caller'[d] = caller[d]
    BY <1>1 DEF Routing
  <2> QED BY <2>1 DEF OffloadInv, StatusHonest, Finished
<1> QED BY <1>2, <1>3, <1>4, <1>5, <1>6 DEF OffloadInv

LEMMA RankKeeps ==
    ASSUME OffloadInv, NEW c \in Callers, Rank(c)
    PROVE  OffloadInv'
<1> DEFINE x == [Resting EXCEPT !.at = "probe", !.ranked = Suitable]
<1>1. /\ Suitable \subseteq Providers
      /\ job.private => Suitable \subseteq Local
  BY DEF Suitable, OffloadInv, OffloadTypes, OffloadTypeOK
<1>2. x \in CallerStates /\ x.at = "probe" /\ x.ranked = Suitable
  BY <1>1, RestingFields DEF Resting, CallerStates, Routing
<1> HIDE DEF x
<1>3. Goto(c, Resting) \/ Goto(c, x)
  BY DEF Rank, x
<1> QED BY <1>1, <1>2, <1>3, RestingFields, RoutingKeeps DEF Rank, Routing

LEMMA ProbeKeeps ==
    ASSUME OffloadInv, NEW c \in Callers, Probe(c)
    PROVE  OffloadInv'
<1>1. PICK p \in FirstOf(caller[c].ranked) :
         LET rest == caller[c].ranked \ {p}
         IN \/ Goto(c, Resting)
            \/ p \notin Local /\ Goto(c, [Resting EXCEPT !.at = "submit", !.to = p])
            \/ Goto(c, [caller[c] EXCEPT !.ranked = rest])
  BY DEF Probe
<1> DEFINE x == [Resting EXCEPT !.at = "submit", !.to = p]
           y == [caller[c] EXCEPT !.ranked = caller[c].ranked \ {p}]
<1>2. caller[c] \in CallerStates /\ p \in caller[c].ranked /\ p \in Providers
  BY JobFields DEF FirstOf, CallerStates
<1>3. y \in CallerStates /\ y.at = "probe" /\ y.ranked \subseteq caller[c].ranked
  BY <1>2 DEF CallerStates, Probe
<1>4. p \notin Local => x \in CallerStates /\ x.at = "submit" /\ x.to = p /\ p \in Clouds
  BY <1>2, RestingFields DEF Resting, CallerStates, Routing, Clouds
<1>5. job.private => caller[c].ranked \subseteq Local
  BY DEF OffloadInv, PrivateUnplaced, Probe
<1> HIDE DEF x, y
<1>6. \/ Goto(c, Resting)
      \/ p \notin Local /\ Goto(c, x)
      \/ Goto(c, y)
  BY <1>1 DEF x, y
<1>7. CASE Goto(c, Resting)
  BY <1>7, RestingFields, RoutingKeeps DEF Probe, Routing
<1>8. CASE p \notin Local /\ Goto(c, x)
  BY <1>2, <1>4, <1>5, <1>8, RoutingKeeps DEF Probe, Routing
<1>9. CASE Goto(c, y)
  BY <1>3, <1>5, <1>9, RoutingKeeps DEF Probe, Routing
<1> QED BY <1>6, <1>7, <1>8, <1>9

LEMMA SubmitKeeps ==
    ASSUME OffloadInv, NEW c \in Callers, Submit(c)
    PROVE  OffloadInv'
<1> DEFINE p == caller[c].to
<1>1. p \in Clouds /\ p # "none" /\ ~job.private
  BY OffloadAssumption DEF OffloadInv, OffloadTypes, PrivateUnplaced, Submit, Clouds
<1>2. /\ caller' \in [Callers -> CallerStates] /\ caller'[c].at = "idle"
      /\ \A d \in Callers : d # c => caller'[d] = caller[d]
  BY RestingFields, Went DEF Submit
<1>3. /\ \A d \in Callers : caller'[d].at \in Aside
      /\ \A q \in Clouds : Finished(q)
  BY <1>2 DEF OffloadInv, PlacedAlone, Submit, Routing, Aside
<1> HIDE DEF p
<1>4. /\ job' \in [status : JobStatus, provider : Clouds \cup {"none"},
                   result : BOOLEAN, private : BOOLEAN]
      /\ ~job'.private
      /\ backend' \in [Clouds -> RemoteState]
      /\ \A q \in Clouds : q # p => backend'[q] = backend[q]
      /\ \/ job'.provider = p /\ job'.status = "QUEUED" /\ reached' = reached \ {p}
         \/ job'.provider = p /\ job'.status = job.status /\ job'.result = job.result
               /\ backend' = backend /\ reached' = reached
         \/ job' = job /\ backend' = backend /\ reached' = reached
  BY <1>1, JobFields DEF Submit, p, JobStatus, RemoteState
<1>5. OffloadTypes'
  BY <1>2, <1>3, <1>4 DEF OffloadInv, OffloadTypes, OffloadTypeOK, Driving, Aside, Submit
<1>6. PlacedAlone'
  BY <1>3 DEF PlacedAlone, Aside, Routing
<1>7. PrivateUnplaced'
  BY <1>1, <1>3, <1>4 DEF OffloadInv, PrivateUnplaced, Aside
<1>8. OneAtWork' /\ ReachedStays' /\ DriverKnows'
  BY <1>3, <1>4, JobFields DEF OffloadInv, OneAtWork, ReachedStays, DriverKnows, Finished, Aside, Driving
<1>9. StatusHonest'
  <2>1. \A d \in Callers : caller[d].at # "fetch"
    BY <1>2, <1>3 DEF Aside, Submit
  <2> QED BY <1>1, <1>3, <1>4, <2>1 DEF OffloadInv, StatusHonest, Finished
<1> QED BY <1>5, <1>6, <1>7, <1>8, <1>9 DEF OffloadInv

-----------------------------------------------------------------------------
(* Driving the job. *)

(* What a step may do to the backends while the job is driven: the provider  *)
(* of the job moves on, and keeps what it has finished or times it out.      *)
Progresses ==
    /\ backend' \in [Clouds -> RemoteState]
    /\ \A p \in Clouds : /\ p # job.provider => backend'[p] = backend[p]
                         /\ backend[p] \in Done => backend'[p] \in {backend[p], "TIMED_OUT"}
                         /\ backend[p] = "none" => backend'[p] \in Done \cup {"none"}
    /\ reached \subseteq reached' /\ reached' \subseteq Clouds
    /\ \A p \in reached' : p \notin reached => backend'[p] = "COMPLETED"

LEMMA DrivingKeeps ==
    ASSUME OffloadInv, UNCHANGED <<conn, up, stored>>, Progresses,
           job' \in [status : JobStatus, provider : Clouds \cup {"none"},
                     result : BOOLEAN, private : BOOLEAN],
           job'.provider = job.provider, job'.private = job.private,
           NEW c \in Callers, NEW x \in CallerStates, Goto(c, x),
           \A d \in Callers : caller[d].at \notin Routing,
           x.at \in Driving \cup {"idle"},
           x.at \in Driving => x.to = job.provider /\ x.to \in Clouds,
           x.at = "polled" => x.saw \in RemoteState \ {"none"} /\ x.saw = backend'[x.to],
           x.at = "polled" /\ x.saw = "COMPLETED" => x.to \in reached',
           x.at = "fetch" => x.to \in reached',
           x.at = "cancelled" => backend'[x.to] \in Done,
           StatusHonest'
    PROVE  OffloadInv'
<1>1. /\ caller' \in [Callers -> CallerStates] /\ caller'[c] = x
      /\ \A d \in Callers : d # c => caller'[d] = caller[d]
  BY Went
<1>2. OffloadTypes'
  BY <1>1 DEF OffloadInv, OffloadTypes, OffloadTypeOK, Driving, Progresses
<1>3. PlacedAlone'
  BY <1>1 DEF PlacedAlone, Routing, Driving
<1>4. PrivateUnplaced'
  <2>1. job.provider = "none" => \A p \in Clouds : p # job.provider
    BY OffloadAssumption DEF Clouds
  <2> QED BY <1>1, <2>1 DEF OffloadInv, PrivateUnplaced, Driving, Progresses
<1>5. OneAtWork' /\ ReachedStays'
  BY DEF OffloadInv, OneAtWork, ReachedStays, Progresses, Finished, Done
<1>6. DriverKnows'
  <2> SUFFICES ASSUME NEW d \in Callers
               PROVE  /\ caller'[d].at \in Driving => caller'[d].to = job'.provider
                      /\ caller'[d].at = "polled" /\ caller'[d].saw \in Done =>
                            backend'[caller'[d].to] \in {caller'[d].saw, "TIMED_OUT"}
                      /\ caller'[d].at = "polled" /\ caller'[d].saw = "COMPLETED" =>
                            caller'[d].to \in reached'
                      /\ caller'[d].at = "fetch" => caller'[d].to \in reached'
                      /\ caller'[d].at = "cancelled" => backend'[caller'[d].to] \in Done
    BY DEF DriverKnows
  <2>1. CASE d = c
    BY <1>1, <2>1
  <2>2. CASE d # c
    <3>1. caller'[d] = caller[d] /\ (caller[d].at \in Driving => caller[d].to \in Clouds)
      BY <1>1, <2>2 DEF OffloadInv, OffloadTypes
    <3> QED BY <3>1 DEF OffloadInv, DriverKnows, Progresses, Driving, Done
  <2> QED BY <2>1, <2>2
<1> QED BY <1>2, <1>3, <1>4, <1>5, <1>6 DEF OffloadInv

LEMMA NobodyPlaces ==
    ASSUME OffloadInv, NEW c \in Callers, caller[c].at \in Driving
    PROVE  \A d \in Callers : caller[d].at \notin Routing
BY DEF OffloadInv, PlacedAlone, Routing, Driving, Aside

LEMMA AdvancedStates ==
    ASSUME NEW s \in RemoteState \ {"none"}, NEW t \in Advanced(s)
    PROVE  t \in RemoteState \ {"none"} /\ (s \in Done => t \in {s, "TIMED_OUT"})
<1>1. CASE s = "CREATED"
  BY <1>1 DEF Advanced, RemoteState, Done
<1>2. CASE s \in {"QUEUED", "RUNNING"}
  BY <1>2 DEF Advanced, RemoteState, Done
<1>3. CASE s \in Done
  BY <1>3 DEF Advanced, RemoteState, Done
<1> QED BY <1>1, <1>2, <1>3 DEF RemoteState

LEMMA PollStatusKeeps ==
    ASSUME OffloadInv, NEW c \in Callers, PollStatus(c)
    PROVE  OffloadInv'
<1>1. PICK s \in Advanced(backend[job.provider]) :
         /\ backend' = [backend EXCEPT ![job.provider] = s]
         /\ Goto(c, [Resting EXCEPT !.at = "polled", !.to = job.provider, !.saw = s])
         /\ reached' = IF s = "COMPLETED" THEN reached \cup {job.provider} ELSE reached
  BY DEF PollStatus
<1> DEFINE x == [Resting EXCEPT !.at = "polled", !.to = job.provider, !.saw = s]
<1>2. job.provider \in Clouds /\ backend[job.provider] \in RemoteState \ {"none"}
  BY JobFields DEF PollStatus
<1>3. /\ s \in RemoteState \ {"none"}
      /\ backend[job.provider] \in Done => s \in {backend[job.provider], "TIMED_OUT"}
  BY <1>2, AdvancedStates
<1>4. x \in CallerStates /\ x.at = "polled" /\ x.to = job.provider /\ x.saw = s
  BY <1>2, <1>3, RestingFields DEF Resting, CallerStates, Driving
<1>5. /\ Progresses /\ backend'[job.provider] = s
      /\ s = "COMPLETED" => job.provider \in reached'
  BY <1>1, <1>2, <1>3, JobFields DEF Progresses
<1> HIDE DEF x
<1>6. Goto(c, x)
  BY <1>1 DEF x
<1>7. \A d \in Callers : caller[d].at \notin Routing
  BY DEF PollStatus, Routing
<1>8. StatusHonest'
  <2>1. \A d \in Callers : caller[d].at = "fetch" => caller'[d] = caller[d]
    BY <1>4, <1>6, Went, RestingFields DEF PollStatus
  <2>2. /\ \A p \in Clouds : /\ Finished(p) => backend'[p] \in Done \cup {"none"}
                             /\ backend[p] = "TIMED_OUT" => backend'[p] = "TIMED_OUT"
        /\ reached \subseteq reached' /\ reached \subseteq Clouds
    BY <1>5, JobFields DEF Progresses, Finished, Done
  <2> QED BY <2>1, <2>2 DEF OffloadInv, StatusHonest, Finished, PollStatus
<1> QED BY <1>2, <1>3, <1>4, <1>5, <1>6, <1>7, <1>8, JobFields, DrivingKeeps DEF PollStatus, Driving

LEMMA MappedStates ==
    ASSUME NEW s \in RemoteState \ {"none"}
    PROVE  /\ Mapped(s) \in JobStatus
           /\ Mapped(s) = "CANCELLED" => s = "CANCELLED"
           /\ Mapped(s) = "SUCCEEDED" => s = "COMPLETED"
<1>1. CASE s \in {"CREATED", "QUEUED"}
  BY <1>1 DEF Mapped, JobStatus
<1>2. CASE s = "COMPLETED"
  BY <1>2 DEF Mapped, JobStatus, Terminal
<1>3. CASE s \in {"RUNNING", "FAILED", "CANCELLED", "TIMED_OUT"}
  BY <1>3 DEF Mapped, JobStatus, Terminal
<1> QED BY <1>1, <1>2, <1>3 DEF RemoteState, Done

LEMMA StillDriving ==
    ASSUME OffloadInv, UNCHANGED <<backend, reached>>
    PROVE  Progresses
BY JobFields DEF Progresses

LEMMA PollApplyKeeps ==
    ASSUME OffloadInv, NEW c \in Callers, PollApply(c)
    PROVE  OffloadInv'
<1> DEFINE p == caller[c].to
           s == caller[c].saw
           y == [caller[c] EXCEPT !.at = "fetch"]
<1>1. /\ p \in Clouds /\ p = job.provider /\ s \in RemoteState \ {"none"}
      /\ s \in Done => backend[p] \in {s, "TIMED_OUT"}
      /\ s = "COMPLETED" => p \in reached
      /\ caller[c] \in CallerStates
  BY JobFields DEF OffloadInv, OffloadTypes, DriverKnows, PollApply, Driving
<1>2. y \in CallerStates /\ y.at = "fetch" /\ y.to = p
  BY <1>1 DEF CallerStates, Driving
<1>3. /\ job' \in [status : JobStatus, provider : Clouds \cup {"none"},
                   result : BOOLEAN, private : BOOLEAN]
      /\ job'.provider = job.provider /\ job'.private = job.private
      /\ job'.result = job.result /\ job'.status = Mapped(s)
  BY <1>1, MappedStates, JobFields DEF PollApply
<1> HIDE DEF y, p, s
<1>4. \/ s = "COMPLETED" /\ Goto(c, y)
      \/ s # "COMPLETED" /\ Goto(c, Resting)
  BY DEF PollApply, y, s
<1>5. \A d \in Callers : caller[d].at \notin Routing
  BY NobodyPlaces DEF PollApply, Driving
<1>6. \A q \in Clouds : q # p => Finished(q)
  BY <1>1 DEF OffloadInv, OneAtWork
<1>7. StatusHonest'
  <2>1. job'.status = "CANCELLED" => \A q \in Clouds : Finished(q)'
    BY <1>1, <1>3, <1>6, MappedStates DEF Finished, Done, PollApply
  <2>2. job'.status = "SUCCEEDED" => s = "COMPLETED" /\ p \in reached'
    BY <1>1, <1>3, MappedStates DEF PollApply
  <2>3. s = "COMPLETED" => caller'[c].at = "fetch" /\ caller'[c].to = p
    BY <1>2, <1>4, Went
  <2> QED BY <1>1, <2>1, <2>2, <2>3 DEF StatusHonest
<1>8. Progresses
  BY StillDriving DEF PollApply
<1>9. CASE s = "COMPLETED" /\ Goto(c, y)
  <2>1. p \in reached'
    BY <1>1, <1>9 DEF PollApply
  <2> QED BY <1>1, <1>2, <1>3, <1>5, <1>7, <1>8, <1>9, <2>1, DrivingKeeps DEF PollApply, Driving
<1>10. CASE Goto(c, Resting)
  BY <1>3, <1>5, <1>7, <1>8, <1>10, RestingFields, DrivingKeeps DEF PollApply, Driving
<1> QED BY <1>4, <1>9, <1>10

LEMMA PollResultKeeps ==
    ASSUME OffloadInv, NEW c \in Callers, PollResult(c)
    PROVE  OffloadInv'
<1>1. /\ caller[c].to \in reached
      /\ backend[caller[c].to] \in {"COMPLETED", "TIMED_OUT"}
  BY DEF OffloadInv, ReachedStays, DriverKnows, PollResult
<1>2. /\ job' \in [status : JobStatus, provider : Clouds \cup {"none"},
                   result : BOOLEAN, private : BOOLEAN]
      /\ job'.provider = job.provider /\ job'.private = job.private
      /\ job'.result \/ backend[caller[c].to] = "TIMED_OUT"
      /\ job'.status = job.status
  BY <1>1, JobFields DEF PollResult
<1>3. StatusHonest'
  BY <1>1, <1>2 DEF OffloadInv, StatusHonest, Finished, PollResult
<1>4. Progresses
  BY StillDriving DEF PollResult
<1>5. \A d \in Callers : caller[d].at \notin Routing
  BY NobodyPlaces DEF PollResult, Driving
<1> QED BY <1>2, <1>3, <1>4, <1>5, RestingFields, DrivingKeeps DEF PollResult, Driving

LEMMA CancelCheckKeeps ==
    ASSUME OffloadInv, NEW c \in Callers, CancelCheck(c)
    PROVE  OffloadInv'
<1> DEFINE x == [Resting EXCEPT !.at = "cancel", !.to = job.provider]
<1>1. job.provider \in Clouds
  BY JobFields DEF CancelCheck
<1>2. x \in CallerStates /\ x.at = "cancel" /\ x.to = job.provider
  BY <1>1, RestingFields DEF Resting, CallerStates, Driving
<1> HIDE DEF x
<1>3. Goto(c, x)
  BY DEF CancelCheck, x
<1>4. \A d \in Callers : caller[d].at \notin Routing
  BY DEF CancelCheck, Routing
<1>5. StatusHonest'
  <2>1. \A d \in Callers : caller[d].at = "fetch" => caller'[d] = caller[d]
    BY <1>2, <1>3, Went, RestingFields DEF CancelCheck
  <2> QED BY <2>1 DEF OffloadInv, StatusHonest, Finished, CancelCheck
<1>6. Progresses
  BY StillDriving DEF CancelCheck
<1> QED BY <1>1, <1>2, <1>3, <1>4, <1>5, <1>6, JobFields, DrivingKeeps DEF CancelCheck, Driving

LEMMA CancelRemoteKeeps ==
    ASSUME OffloadInv, NEW c \in Callers, CancelRemote(c)
    PROVE  OffloadInv'
<1> DEFINE p == caller[c].to
           y == [caller[c] EXCEPT !.at = "cancelled"]
<1>1. p \in Clouds /\ p = job.provider /\ caller[c] \in CallerStates
  BY JobFields DEF OffloadInv, OffloadTypes, DriverKnows, CancelRemote, Driving
<1>2. y \in CallerStates /\ y.at = "cancelled" /\ y.to = p
  BY <1>1 DEF CallerStates, Driving
<1> HIDE DEF y, p
<1>3. \/ /\ backend' = [backend EXCEPT ![p] = IF backend[p] \in Done THEN backend[p] ELSE "CANCELLED"]
         /\ Goto(c, y)
      \/ UNCHANGED backend /\ Goto(c, Resting)
  BY DEF CancelRemote, y, p
<1>4. \A d \in Callers : caller[d].at \notin Routing
  BY NobodyPlaces DEF CancelRemote, Driving
<1>5. Progresses
  BY <1>1, <1>3, JobFields DEF Progresses, RemoteState, Done, CancelRemote
<1>6. StatusHonest'
  <2>1. \A d \in Callers : caller[d].at = "fetch" => caller'[d] = caller[d]
    BY <1>2, <1>3, Went, RestingFields DEF CancelRemote
  <2>2. /\ \A q \in Clouds : /\ Finished(q) => backend'[q] \in Done \cup {"none"}
                             /\ backend[q] = "TIMED_OUT" => backend'[q] = "TIMED_OUT"
        /\ reached \subseteq reached' /\ reached \subseteq Clouds
    BY <1>5, JobFields DEF Progresses, Finished, Done
  <2> QED BY <2>1, <2>2 DEF OffloadInv, StatusHonest, Finished, CancelRemote
<1>7. CASE Goto(c, Resting)
  BY <1>4, <1>5, <1>6, <1>7, JobFields, RestingFields, DrivingKeeps DEF CancelRemote, Driving
<1>8. CASE /\ backend' = [backend EXCEPT ![p] = IF backend[p] \in Done THEN backend[p] ELSE "CANCELLED"]
           /\ Goto(c, y)
  <2>1. backend'[p] \in Done
    BY <1>1, <1>8, JobFields DEF Done
  <2> QED BY <1>1, <1>2, <1>4, <1>5, <1>6, <1>8, <2>1, JobFields, DrivingKeeps
          DEF CancelRemote, Driving
<1> QED BY <1>3, <1>7, <1>8

LEMMA CancelApplyKeeps ==
    ASSUME OffloadInv, NEW c \in Callers, CancelApply(c)
    PROVE  OffloadInv'
<1> DEFINE p == caller[c].to
<1>1. p \in Clouds /\ p = job.provider /\ backend[p] \in Done
  BY DEF OffloadInv, OffloadTypes, DriverKnows, CancelApply, Driving
<1> HIDE DEF p
<1>2. /\ job' \in [status : JobStatus, provider : Clouds \cup {"none"},
                   result : BOOLEAN, private : BOOLEAN]
      /\ job'.provider = job.provider /\ job'.private = job.private
      /\ job'.status = "CANCELLED"
  BY JobFields DEF CancelApply, JobStatus, Terminal
<1>3. StatusHonest'
  BY <1>1, <1>2 DEF OffloadInv, OneAtWork, StatusHonest, Finished, CancelApply
<1>4. Progresses
  BY StillDriving DEF CancelApply
<1>5. \A d \in Callers : caller[d].at \notin Routing
  BY NobodyPlaces DEF CancelApply, Driving
<1> QED BY <1>2, <1>3, <1>4, <1>5, RestingFields, DrivingKeeps DEF CancelApply, Driving

-----------------------------------------------------------------------------
LEMMA OffloadInitHolds == OffloadInit => OffloadInv
<1> SUFFICES ASSUME OffloadInit PROVE OffloadInv
  OBVIOUS
<1>1. /\ caller \in [Callers -> CallerStates]
      /\ \A c \in Callers : caller[c].at = "idle"
  BY RestingFields DEF OffloadInit
<1>2. OffloadTypes
  BY <1>1 DEF OffloadInit, OffloadTypes, OffloadTypeOK, JobStatus, RemoteState, Driving
<1> QED BY <1>1, <1>2 DEF OffloadInit, OffloadInv, PlacedAlone, PrivateUnplaced, OneAtWork,
                         ReachedStays, DriverKnows, StatusHonest, Finished, Routing, Driving

LEMMA OffloadNextKeeps == OffloadInv /\ [OffloadNext]_offloadVars => OffloadInv'
<1> SUFFICES ASSUME OffloadInv, [OffloadNext]_offloadVars PROVE OffloadInv'
  OBVIOUS
<1>1. CASE SubmitRow
  BY <1>1, SurroundingsKeep DEF SubmitRow, OffloadInv, OffloadTypes, OffloadTypeOK, JobStatus
<1>2. ASSUME NEW p \in Providers, Flip(p) PROVE OffloadInv'
  BY <1>2, SurroundingsKeep DEF Flip, OffloadInv, OffloadTypes, OffloadTypeOK
<1>3. ASSUME NEW p \in Clouds, Disconnect(p) PROVE OffloadInv'
  BY <1>3, SurroundingsKeep DEF Disconnect, OffloadInv, OffloadTypes, OffloadTypeOK
<1>4. ASSUME NEW c \in Callers,
             Connected(c) \/ Rank(c) \/ Probe(c) \/ Submit(c) \/ MarkWrite(c)
      PROVE  OffloadInv'
  BY <1>4, ConnectedKeeps, RankKeeps, ProbeKeeps, SubmitKeeps, MarkWriteKeeps
<1>5. ASSUME NEW c \in Callers, PollStatus(c) \/ PollApply(c) \/ PollResult(c)
      PROVE  OffloadInv'
  BY <1>5, PollStatusKeeps, PollApplyKeeps, PollResultKeeps
<1>6. ASSUME NEW c \in Callers, CancelCheck(c) \/ CancelRemote(c) \/ CancelApply(c)
      PROVE  OffloadInv'
  BY <1>6, CancelCheckKeeps, CancelRemoteKeeps, CancelApplyKeeps
<1>7. ASSUME NEW c \in Callers, NEW p \in Clouds, Connect(c, p) PROVE OffloadInv'
  BY <1>7, ConnectKeeps
<1>8. ASSUME NEW c \in Callers, NEW private \in BOOLEAN, Validate(c, private) PROVE OffloadInv'
  BY <1>8, ValidateKeeps
<1>9. ASSUME NEW c \in Callers, NEW s \in JobStatus, MarkRead(c, s) PROVE OffloadInv'
  BY <1>9, MarkReadKeeps
<1>10. CASE UNCHANGED offloadVars
  <2>1. OffloadTypeOK'
    BY <1>10 DEF offloadVars, OffloadInv, OffloadTypes, OffloadTypeOK
  <2> QED BY <1>10, <2>1, SurroundingsKeep DEF offloadVars
<1> QED BY <1>1, <1>2, <1>3, <1>4, <1>5, <1>6, <1>7, <1>8, <1>9, <1>10 DEF OffloadNext

(* For any providers, policies and prices and any number of threads, private *)
(* work never reaches a cloud, and once no call is in progress the job's     *)
(* status is true of its backend: a cancelled job is at work nowhere, and a  *)
(* succeeded one was completed and has its result, unless a poll after the   *)
(* completion timed it out; however polls, cancels, fallbacks and            *)
(* disconnections interleave (ComputeRouter.rank, select_first_available,    *)
(* ExternalProvider.submit_job, poll_job, cancel_job).                       *)
THEOREM OffloadIsSafe == OffloadSpec => []OffloadSafe
<1>1. OffloadInv => OffloadSafe
  <2> SUFFICES ASSUME OffloadInv PROVE OffloadSafe
    OBVIOUS
  <2>1. OffloadTypeOK /\ PrivateStaysLocal
    BY DEF OffloadInv, OffloadTypes, PrivateUnplaced, PrivateStaysLocal
  <2>2. SettledTruthful
    BY DEF OffloadInv, StatusHonest, SettledTruthful, Finished, NoOneBusy
  <2> QED BY <2>1, <2>2 DEF OffloadSafe
<1> QED BY <1>1, OffloadInitHolds, OffloadNextKeeps, PTL DEF OffloadSpec
=============================================================================
