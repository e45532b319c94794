------------------------------- MODULE Audit --------------------------------
(***************************************************************************)
(* AuditLog: records chained by hash in a table.  record reads the tail,   *)
(* hashes and appends under the append lock; rotate exports the table to a *)
(* path of the caller's choice, deletes its rows one by one and starts a   *)
(* fresh chain, holding the lock only for the checkpoint record at the     *)
(* end.  The tail is cached in memory and read back from the row that      *)
(* sorts last by updated_at after a restart.                               *)
(*                                                                         *)
(* A record's hash is the record itself: SHA-256 is taken as injective, so *)
(* the hash covers the record's contents and its link.  The clock is free: *)
(* stamps may tie and go backwards.  Nothing in the code keeps recorders   *)
(* away from a rotation and nothing does here; two rotations at once,      *)
(* which the code does not exclude either, are left out.                   *)
(***************************************************************************)
EXTENDS Naturals, Sequences, SequencesExt

CONSTANTS Recorders,   \* threads that record
          Paths,       \* archive paths a caller may name
          Times,       \* what the clock may say
          MaxRecords,  \* bound on the records ever made
          MaxCrashes   \* bound on the crashes

ASSUME AuditAssumption == MaxRecords \in Nat /\ MaxCrashes \in Nat /\ Times \subseteq Nat

VARIABLES
    table,     \* the rows, in the order they were inserted
    tail,      \* _tail_hash in memory, or Unknown
    records,   \* how many records were made
    recorder,  \* what each thread is recording, under the append lock
    rotation,  \* what rotate is at, and whether it deletes undisturbed
    archive,   \* path -> the records in the file there
    late,      \* records appended after an export listed the rows and before
               \*   the rows to delete were listed
    rewritten, \* records that were only in a file that was opened again
    broken,    \* the chain may not verify: see ChainIntact
    crashes

auditVars == <<table, tail, records, recorder, rotation, archive, late, rewritten,
               broken, crashes>>

Genesis == 0
Unknown == MaxRecords + 1
Row == [id : 1..MaxRecords, prev : 0..MaxRecords, at : Times]
Still == [at |-> "idle", todo |-> {}, path |-> "none", alone |-> FALSE]

AuditInit ==
    /\ table = <<>>
    /\ tail = Unknown
    /\ records = 0
    /\ recorder = [t \in Recorders |-> Unknown]
    /\ rotation = Still
    /\ archive = [p \in Paths |-> {}]
    /\ late = {}
    /\ rewritten = {}
    /\ broken = FALSE
    /\ crashes = 0

Ids == {table[i].id : i \in DOMAIN table}
LastId == IF table = <<>> THEN Genesis ELSE Last(table).id
Recording == {t \in Recorders : recorder[t] # Unknown}
Archived == UNION {archive[p] : p \in Paths}

(* The tail as record finds it: cached, or the last row by updated_at. *)
Newest == {r \in ToSet(table) : \A s \in ToSet(table) : s.at <= r.at}
Tails ==
    IF tail # Unknown THEN {tail}
    ELSE IF table = <<>> THEN {Genesis} ELSE {r.id : r \in Newest}

(* History: the tail read back is not that of the last record made. *)
Misread(link) == tail = Unknown /\ link # LastId

-----------------------------------------------------------------------------
(* The append lock is free. *)
MayRecord == Recording = {}

(* record takes the lock and the tail, which it reads back when unknown ... *)
Record(t) ==
    /\ recorder[t] = Unknown
    /\ MayRecord
    /\ \E link \in Tails :
          /\ tail' = link
          /\ recorder' = [recorder EXCEPT ![t] = link]
          /\ broken' = (broken \/ Misread(link))
    /\ rotation' = [rotation EXCEPT !.alone = FALSE]
    /\ UNCHANGED <<table, records, archive, late, rewritten, crashes>>

(* ... and appends a record linked to it, which is the tail from then on. *)
AppendLinked(link) ==
    /\ records < MaxRecords
    /\ records' = records + 1
    /\ \E at \in Times :
          table' = Append(table, [id |-> records', prev |-> link, at |-> at])
    /\ tail' = records'

AppendRecord(t) ==
    /\ recorder[t] # Unknown
    /\ AppendLinked(recorder[t])
    /\ recorder' = [recorder EXCEPT ![t] = Unknown]
    /\ late' = IF rotation.at \in {"write", "list"} THEN late \cup {records'} ELSE late
    /\ rotation' = [rotation EXCEPT !.alone = FALSE]
    /\ UNCHANGED <<archive, rewritten, broken, crashes>>

-----------------------------------------------------------------------------
MutantWriteFile ==    \* clears without exporting
    /\ rotation.at = "write"
    /\ rotation' = [rotation EXCEPT !.at = "list", !.todo = {}]
    /\ UNCHANGED <<table, tail, records, recorder, archive, late, rewritten, broken, crashes>>

(* rotate: export lists the rows and opens the path, which empties the file  *)
(* there; purge_older_than rotates too, when a row is old enough ...         *)
Export(path) ==
    /\ rotation = Still
    /\ archive' = [archive EXCEPT ![path] = {}]
    /\ rewritten' = rewritten \cup (archive[path] \ Ids)
    /\ rotation' = [at |-> "write", todo |-> Ids, path |-> path, alone |-> FALSE]
    /\ UNCHANGED <<table, tail, records, recorder, late, broken, crashes>>

(* ... writes what it listed ... *)
WriteFile ==
    /\ rotation.at = "write"
    /\ archive' = [archive EXCEPT ![rotation.path] = rotation.todo]
    /\ rotation' = [rotation EXCEPT !.at = "list", !.todo = {}]
    /\ UNCHANGED <<table, tail, records, recorder, late, rewritten, broken, crashes>>

(* ... and the rows to delete are listed again. *)
ListRows ==
    /\ rotation.at = "list"
    /\ rotation' = [rotation EXCEPT !.at = "delete", !.todo = Ids, !.alone = (Recording = {})]
    /\ UNCHANGED <<table, tail, records, recorder, archive, late, rewritten, broken, crashes>>

Without(id) == RemoveFirstMatch(table, LAMBDA r : r.id = id)

(* They go one by one, in the order of their stamps: any order. *)
DeleteRow ==
    /\ rotation.at = "delete"
    /\ \E id \in rotation.todo :
          /\ table' = Without(id)
          /\ rotation' = [rotation EXCEPT !.todo = rotation.todo \ {id}]
    /\ UNCHANGED <<tail, records, recorder, archive, late, rewritten, broken, crashes>>

(* The tail is forgotten, without the lock ... *)
Forget ==
    /\ rotation.at = "delete"
    /\ rotation.todo = {}
    /\ tail' = Unknown
    /\ rotation' = [rotation EXCEPT !.at = "checkpoint"]
    /\ broken' = ~rotation.alone
    /\ UNCHANGED <<table, records, recorder, archive, late, rewritten, crashes>>

(* ... and the checkpoint recorded, under it. *)
Checkpoint ==
    /\ rotation.at = "checkpoint"
    /\ Recording = {}
    /\ \E link \in Tails : AppendLinked(link) /\ broken' = (broken \/ Misread(link))
    /\ rotation' = Still
    /\ UNCHANGED <<recorder, archive, late, rewritten, crashes>>

(* The process dies: rows and files stay. *)
Crash ==
    /\ crashes < MaxCrashes
    /\ crashes' = crashes + 1
    /\ tail' = Unknown
    /\ recorder' = [t \in Recorders |-> Unknown]
    /\ broken' = (broken \/ rotation.at = "delete")
    /\ rotation' = Still
    /\ UNCHANGED <<table, records, archive, late, rewritten>>

AuditNext ==
    \/ \E path \in Paths : Export(path)
    \/ WriteFile \/ ListRows \/ DeleteRow \/ Forget \/ Checkpoint \/ Crash
    \/ \E t \in Recorders : Record(t) \/ AppendRecord(t)

AuditSpec == AuditInit /\ [][AuditNext]_auditVars

-----------------------------------------------------------------------------
(* A set of rows that walking the links from GENESIS does not leave. *)
Walked(S) == \A r \in ToSet(table) : r.prev \in S \cup {Genesis} => r.id \in S

(* verify: no two rows share a link, and the walk reaches every row.         *)
Verify ==
    /\ \A r, s \in ToSet(table) : r.prev = s.prev => r = s
    /\ \A S \in SUBSET Ids : Walked(S) => S = Ids

AuditTypeOK ==
    /\ table \in Seq(Row)
    /\ tail \in 0..Unknown
    /\ records \in 0..MaxRecords
    /\ archive \in [Paths -> SUBSET (1..MaxRecords)]
    /\ rotation.at \in {"idle", "write", "list", "delete", "checkpoint"}

(* The chain verifies while no rotation is deleting, however recorders       *)
(* interleave and wherever else a crash falls, but for three things, which   *)
(* `broken` records until a rotation that deletes undisturbed: a crash while *)
(* rows were being deleted, a record under way while they were, and a tail   *)
(* read back from a row that was not the last made (record, verify, rotate). *)
(* Two of them the documentation denies: audit.py:120 says of rotate that    *)
(* "live data never has legal gaps", and audit.py:87 that the tail is "not   *)
(* re-derived from timestamp ordering", which it is after a restart.         *)
ChainIntact == rotation.at # "delete" /\ ~broken => Verify

(* Every record made is in the table or in an exported file, wherever a      *)
(* crash falls in an export or a rotation, unless it was appended between    *)
(* an export and the listing of the rows to delete, or the one file it was   *)
(* in was named again for a later export, which opens it with "w".           *)
NothingElseLost == 1..records \subseteq Ids \cup Archived \cup late \cup rewritten

(* "pruning requires an explicit JSONL export first" (audit.py:6): no record *)
(* is deleted that was in no export.  rotate lists the rows to delete after  *)
(* the export and without the append lock, so a record made between goes     *)
(* with them.                                                                *)
PrunedWasExported == 1..records \subseteq Ids \cup Archived \cup rewritten

(* The chain verifies and no record is lost, but for the exceptions named.   *)
AuditSafe == AuditTypeOK /\ ChainIntact /\ NothingElseLost
=============================================================================
