------------------------------- MODULE Memory -------------------------------
(***************************************************************************)
(* MemoryStore over a MemoryRepository, with MemoryVerifier: memories are  *)
(* stored, updated, archived, deleted, purged and consolidated by several  *)
(* client threads.  A read-modify-write of a row is two repository calls   *)
(* with nothing held between them, and the repository's update inserts a   *)
(* row that has been deleted meanwhile.  Candidates below the importance   *)
(* or confidence bars are refused before anything is written.              *)
(***************************************************************************)
EXTENDS Naturals, FiniteSets

CONSTANTS MaxMemories, \* bound on the memories ever stored, numbered in order
          Contents,    \* what a memory says
          Clients,     \* threads that use the store
          Editors,     \* those of them that update and archive
          Mergers,     \* those of them that consolidate
          Expiring     \* memories whose expires_at or retention passes at some time

Memories == 1..MaxMemories

ASSUME MemoryAssumption == MaxMemories \in Nat /\ Expiring \subseteq Memories

VARIABLES
    memory,  \* memory -> its row, or Absent
    made,    \* how many memories were given an id
    client,  \* what each thread is in the middle of
    merged,  \* memory -> what it was consolidated into, itself if nothing
    deleted  \* memories delete has removed

memoryVars == <<memory, made, client, merged, deleted>>

Absent == [status |-> "absent", content |-> "none", verified |-> FALSE, receipt |-> "none"]
Rows == [status : {"ACTIVE", "ARCHIVED"}, content : Contents,
         verified : BOOLEAN, receipt : Contents \cup {"none"}]

(* A thread is idle, about to write back a row it has read, or in            *)
(* apply_consolidation: about to store, to link, or to archive what is left. *)
Free == [at |-> "idle", id |-> 0, row |-> Absent, todo |-> {}, from |-> 0]

MemoryInit ==
    /\ memory = [m \in Memories |-> Absent]
    /\ made = 0
    /\ client = [t \in Clients |-> Free]
    /\ merged = [m \in Memories |-> m]
    /\ deleted = {}

-----------------------------------------------------------------------------
Fresh(c, receipt) ==
    [status |-> "ACTIVE", content |-> c, verified |-> receipt # "none", receipt |-> receipt]

(* store, or store_verified with a receipt: MemoryVerifier.valid compares    *)
(* the hash the receipt was minted for with the candidate's.                 *)
Store(t, c, receipt) ==
    /\ client[t] = Free
    /\ made < MaxMemories
    /\ receipt \in {"none", c}
    /\ made' = made + 1
    /\ memory' = [memory EXCEPT ![made'] = Fresh(c, receipt)]
    /\ UNCHANGED <<client, merged, deleted>>

MutantUpdated(r, c) == [r EXCEPT !.content = c]    \* keeps the verification

(* The row update writes back: a changed memory loses its verification. *)
Updated(r, c) == [r EXCEPT !.content = c, !.verified = FALSE, !.receipt = "none"]
Archived(r) == [r EXCEPT !.status = "ARCHIVED"]

(* update or archive reads the row ... *)
ReadRow(t, m) ==
    /\ client[t] = Free
    /\ memory[m] # Absent
    /\ \E r \in {Archived(memory[m])} \cup {Updated(memory[m], c) : c \in Contents} :
          client' = [client EXCEPT ![t] = [Free EXCEPT !.at = "put", !.id = m, !.row = r]]
    /\ UNCHANGED <<memory, made, merged, deleted>>

(* ... and writes the whole of it. *)
WriteRow(t) ==
    /\ client[t].at = "put"
    /\ memory' = [memory EXCEPT ![client[t].id] = client[t].row]
    /\ client' = [client EXCEPT ![t] = Free]
    /\ UNCHANGED <<made, merged, deleted>>

Remove(S) ==
    /\ memory' = [m \in Memories |-> IF m \in S THEN Absent ELSE memory[m]]
    /\ deleted' = deleted \cup S
    /\ UNCHANGED <<made, merged>>

Delete(t, m) ==
    /\ client[t] = Free
    /\ memory[m] # Absent
    /\ Remove({m})
    /\ UNCHANGED client

(* purge_expired deletes what is past its time when it lists the table, *)
(* one row per repository call.                                          *)
Purge(t) ==
    /\ client[t] = Free
    /\ \E m \in Expiring : memory[m] # Absent /\ Remove({m})
    /\ UNCHANGED client

-----------------------------------------------------------------------------
MutantConsolidate(t, S) ==    \* archives the sources first
    /\ client[t] = Free
    /\ made < MaxMemories
    /\ made' = made + 1
    /\ Cardinality(S) >= 2
    /\ \A s \in S : memory[s].status = "ACTIVE"
    /\ client' = [client EXCEPT ![t] = [Free EXCEPT !.at = "archive", !.id = made', !.todo = S]]
    /\ UNCHANGED <<memory, merged, deleted>>

(* apply_consolidation: propose_consolidation checks the sources again ... *)
Consolidate(t, S) ==
    /\ client[t] = Free
    /\ made < MaxMemories
    /\ made' = made + 1
    /\ Cardinality(S) >= 2
    /\ \A s \in S : memory[s].status = "ACTIVE"
    /\ client' = [client EXCEPT ![t] = [Free EXCEPT !.at = "store", !.id = made', !.todo = S]]
    /\ UNCHANGED <<memory, merged, deleted>>

(* ... the new memory is stored, then rewritten with its sources ... *)
StoreMerged(t) ==
    /\ client[t].at = "store"
    /\ \E c \in Contents :
          /\ memory' = [memory EXCEPT ![client[t].id] = Fresh(c, "none")]
          /\ client' = [client EXCEPT ![t].at = "link", ![t].row = Fresh(c, "none")]
    /\ UNCHANGED <<made, merged, deleted>>

LinkMerged(t) ==
    /\ client[t].at = "link"
    /\ memory' = [memory EXCEPT ![client[t].id] = client[t].row]
    /\ client' = [client EXCEPT ![t].at = "archive", ![t].row = Absent]
    /\ UNCHANGED <<made, merged, deleted>>

(* ... and each source is archived: its row is read (a missing one raises,   *)
(* and the rest stay ACTIVE) ...                                             *)
ArchiveRead(t) ==
    /\ client[t].at = "archive"
    /\ \/ client[t].todo = {} /\ client' = [client EXCEPT ![t] = Free]
       \/ \E s \in client[t].todo :
             client' = IF memory[s] = Absent THEN [client EXCEPT ![t] = Free]
                       ELSE [client EXCEPT ![t].at = "bury", ![t].from = s,
                                           ![t].row = Archived(memory[s]), ![t].todo = @ \ {s}]
    /\ UNCHANGED <<memory, made, merged, deleted>>

(* ... and written back. *)
ArchiveWrite(t) ==
    LET s == client[t].from
    IN /\ client[t].at = "bury"
       /\ memory' = [memory EXCEPT ![s] = client[t].row]
       /\ merged' = [merged EXCEPT ![s] = client[t].id]
       /\ client' = [client EXCEPT ![t].at = "archive", ![t].from = 0, ![t].row = Absent]
       /\ UNCHANGED <<made, deleted>>

(* The process stops between two repository calls. *)
MemoryCrash ==
    /\ \E t \in Clients : client[t] # Free
    /\ client' = [t \in Clients |-> Free]
    /\ UNCHANGED <<memory, made, merged, deleted>>

MemoryNext ==
    \/ \E t \in Clients :
          \/ \E c \in Contents, receipt \in Contents \cup {"none"} : Store(t, c, receipt)
          \/ \E m \in Memories : (t \in Editors /\ ReadRow(t, m)) \/ Delete(t, m)
          \/ t \in Mergers /\ \E S \in SUBSET Memories : Consolidate(t, S)
          \/ WriteRow(t) \/ Purge(t) \/ StoreMerged(t) \/ LinkMerged(t)
          \/ ArchiveRead(t) \/ ArchiveWrite(t)
    \/ MemoryCrash

MemorySpec == MemoryInit /\ [][MemoryNext]_memoryVars

-----------------------------------------------------------------------------
MemoryTypeOK ==
    /\ memory \in [Memories -> Rows \cup {Absent}]
    /\ made \in 0..MaxMemories
    /\ merged \in [Memories -> Memories]
    /\ deleted \subseteq Memories

(* However updates, archives, deletions and consolidations interleave, and   *)
(* whichever of two writes of a row is lost, a memory marked verified holds  *)
(* exactly the content its receipt was minted for: no client combines one    *)
(* version's verification with another version's content.                    *)
VerifiedMatches ==
    \A m \in Memories : memory[m].verified => memory[m].receipt = memory[m].content

(* A consolidation interrupted anywhere, by a crash or by a source that has  *)
(* gone, loses nothing: what it took out of a reader's sight is replaced by  *)
(* a memory that is stored, unless that one was deleted in turn.             *)
ConsolidationKeeps ==
    \A m \in Memories :
        merged[m] # m => memory[merged[m]] # Absent \/ merged[m] \in deleted

(* Concurrent clients neither forge a verification nor lose a memory in a    *)
(* consolidation.                                                            *)
MemorySafe == MemoryTypeOK /\ VerifiedMatches /\ ConsolidationKeeps
=============================================================================
