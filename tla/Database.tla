------------------------------ MODULE Database ------------------------------
(***************************************************************************)
(* Database.transaction, write and the autocommit rule of the one SQLite   *)
(* connection that every thread of the backend shares.  The lock is held   *)
(* while a block is entered or left and during one statement, not across   *)
(* a block, and _tx_depth counts the blocks of all threads together.       *)
(*                                                                         *)
(* A frame is one transaction() block: its thread and its nesting level in *)
(* that thread.  A write is a row of its frame, numbered.  SQLite itself   *)
(* is external: COMMIT makes the pending writes durable, ROLLBACK drops    *)
(* them, a write outside BEGIN...COMMIT is durable at once.                *)
(***************************************************************************)
EXTENDS Integers, FiniteSets

CONSTANTS Threads,
          MaxNest,   \* bound on the nesting of blocks in one thread
          MaxWrites, \* bound on the writes of one block
          MaxBlocks  \* bound on the blocks entered in a run

ASSUME DatabaseAssumption ==
    /\ IsFiniteSet(Threads)
    /\ MaxNest \in Nat
    /\ MaxWrites \in Nat
    /\ MaxBlocks \in Nat

Levels == 1..MaxNest
Frames == Threads \X Levels

(* Not entered, the body running as the outermost block or as a joined one,  *)
(* left normally, left by an exception.                                      *)
Inside == {"outermost", "joined"}
FrameState == Inside \cup {"out", "done", "failed"}

VARIABLES
    frame,    \* frame -> where its block is
    depth,    \* _tx_depth
    open,     \* the connection is between BEGIN and COMMIT or ROLLBACK
    wrote,    \* frame -> how many writes its block has made
    pending,  \* writes of the open SQLite transaction
    durable,  \* committed writes
    raising,  \* threads in which an exception is on its way out
    entered,  \* blocks entered so far
    mixed     \* blocks that overlap, or overlapped, one of another thread

vars == <<frame, depth, open, wrote, pending, durable, raising, entered, mixed>>

Init ==
    /\ frame = [f \in Frames |-> "out"]
    /\ depth = 0
    /\ open = FALSE
    /\ wrote = [f \in Frames |-> 0]
    /\ pending = {}
    /\ durable = {}
    /\ raising = {}
    /\ entered = 0
    /\ mixed = {}

Active == {f \in Frames : frame[f] \in Inside}

(* The frame f is the innermost running block of its thread. *)
Innermost(f) ==
    /\ f \in Active
    /\ \A g \in Active : g[1] = f[1] => g[2] <= f[2]

(* The next block of thread t would be f. *)
Enterable(f) ==
    /\ f \notin Active
    /\ \A l \in Levels : <<f[1], l>> \in Active <=> l < f[2]

(* What entering f makes of the overlapping blocks. *)
Mixed(f) ==
    IF \E g \in Active : g[1] # f[1] THEN mixed \cup Active \cup {f} ELSE mixed \ {f}

-----------------------------------------------------------------------------
MutantEnter(f) ==    \* outermost is judged by the thread, not by _tx_depth
    /\ Enterable(f)
    /\ f[1] \notin raising
    /\ entered < MaxBlocks
    /\ entered' = entered + 1
    /\ frame' = [frame EXCEPT ![f] = IF f[2] = 1 THEN "outermost" ELSE "joined"]
    /\ open' = (open \/ f[2] = 1)
    /\ depth' = depth + 1
    /\ wrote' = [wrote EXCEPT ![f] = 0]
    /\ durable' = {w \in durable : w[1] # f}
    /\ pending' = {w \in pending : w[1] # f}
    /\ mixed' = Mixed(f)
    /\ UNCHANGED raising

(* Entering the block: BEGIN IMMEDIATE when _tx_depth is 0, then count.      *)
(* (The rows of an earlier block of the same frame are forgotten.)           *)
Enter(f) ==
    /\ Enterable(f)
    /\ f[1] \notin raising
    /\ entered < MaxBlocks
    /\ entered' = entered + 1
    /\ frame' = [frame EXCEPT ![f] = IF depth = 0 THEN "outermost" ELSE "joined"]
    /\ open' = (open \/ depth = 0)
    /\ depth' = depth + 1
    /\ wrote' = [wrote EXCEPT ![f] = 0]
    /\ durable' = {w \in durable : w[1] # f}
    /\ pending' = {w \in pending : w[1] # f}
    /\ mixed' = Mixed(f)
    /\ UNCHANGED raising

(* write() in the body: it joins the connection's transaction, whoever began *)
(* it, and autocommits when there is none.                                   *)
Write(f) ==
    /\ Innermost(f)
    /\ f[1] \notin raising
    /\ wrote[f] < MaxWrites
    /\ wrote' = [wrote EXCEPT ![f] = @ + 1]
    /\ IF open
       THEN pending' = pending \cup {<<f, wrote'[f]>>} /\ UNCHANGED durable
       ELSE durable' = durable \cup {<<f, wrote'[f]>>} /\ UNCHANGED pending
    /\ UNCHANGED <<frame, depth, open, raising, entered, mixed>>

(* The body raises, or catches what a nested block raised. *)
Raise(f) ==
    /\ Innermost(f)
    /\ raising' = IF f[1] \in raising THEN raising \ {f[1]} ELSE raising \cup {f[1]}
    /\ UNCHANGED <<frame, depth, open, wrote, pending, durable, entered, mixed>>

(* Leaving normally: the outermost block commits. *)
Exit(f) ==
    /\ Innermost(f)
    /\ f[1] \notin raising
    /\ depth' = depth - 1
    /\ frame' = [frame EXCEPT ![f] = "done"]
    /\ IF frame[f] = "outermost"
       THEN open' = FALSE /\ durable' = durable \cup pending /\ pending' = {}
       ELSE UNCHANGED <<open, durable, pending>>
    /\ UNCHANGED <<wrote, raising, entered, mixed>>

MutantExitRaising(f) ==    \* no except clause: commits regardless
    /\ Innermost(f)
    /\ f[1] \in raising
    /\ depth' = depth - 1
    /\ frame' = [frame EXCEPT ![f] = "failed"]
    /\ IF frame[f] = "outermost"
       THEN open' = FALSE /\ durable' = durable \cup pending /\ pending' = {}
       ELSE UNCHANGED <<open, durable, pending>>
    /\ raising' = IF f[2] = 1 THEN raising \ {f[1]} ELSE raising
    /\ UNCHANGED <<wrote, entered, mixed>>

MutantExitTwice(f) ==    \* counted down in except and again in finally
    /\ Innermost(f)
    /\ f[1] \in raising
    /\ depth' = depth - 2
    /\ frame' = [frame EXCEPT ![f] = "failed"]
    /\ IF frame[f] = "outermost"
       THEN open' = FALSE /\ pending' = {}
       ELSE UNCHANGED <<open, pending>>
    /\ raising' = IF f[2] = 1 THEN raising \ {f[1]} ELSE raising
    /\ UNCHANGED <<wrote, durable, entered, mixed>>

(* Leaving by an exception: the outermost block rolls back.  The exception   *)
(* goes on to the enclosing block, or out of the thread's work.              *)
ExitRaising(f) ==
    /\ Innermost(f)
    /\ f[1] \in raising
    /\ depth' = depth - 1
    /\ frame' = [frame EXCEPT ![f] = "failed"]
    /\ IF frame[f] = "outermost"
       THEN open' = FALSE /\ pending' = {}
       ELSE UNCHANGED <<open, pending>>
    /\ raising' = IF f[2] = 1 THEN raising \ {f[1]} ELSE raising
    /\ UNCHANGED <<wrote, durable, entered, mixed>>

Next == \E f \in Frames :
            Enter(f) \/ Write(f) \/ Raise(f) \/ Exit(f) \/ ExitRaising(f)

Spec == Init /\ [][Next]_vars

-----------------------------------------------------------------------------
TypeOK ==
    /\ frame \in [Frames -> FrameState]
    /\ depth \in Nat
    /\ open \in BOOLEAN
    /\ wrote \in [Frames -> 0..MaxWrites]
    /\ pending \in SUBSET (Frames \X (1..MaxWrites))
    /\ durable \in SUBSET (Frames \X (1..MaxWrites))
    /\ raising \in SUBSET Threads
    /\ entered \in 0..MaxBlocks
    /\ mixed \in SUBSET Frames

(* Whatever blocks of whatever threads overlap, BEGIN is never sent inside a *)
(* transaction and COMMIT or ROLLBACK never outside one: _tx_depth counts    *)
(* the running blocks, and exactly while a transaction is open one of them,  *)
(* and only one, is the outermost.  Outside a transaction nothing is left    *)
(* uncommitted.                                                              *)
TransactionOwned ==
    /\ depth = Cardinality(Active)
    /\ open <=> \E f \in Active : frame[f] = "outermost"
    /\ \A f, g \in Active :
          (frame[f] = "outermost" /\ frame[g] = "outermost") => f = g
    /\ ~open => pending = {}

WritesOf(f) == {f} \X (1..wrote[f])

(* A block that is not nested in its own thread and has been left. *)
Left(f, how) == f[2] = 1 /\ frame[f] = how

(* A block that no block of another thread overlapped is atomic, whatever    *)
(* its nested blocks do: all of its writes are durable once it is left       *)
(* normally, none when it raised.                                            *)
AtomicWhenAlone ==
    \A f \in Frames \ mixed :
        /\ Left(f, "done") => WritesOf(f) \subseteq durable
        /\ Left(f, "failed") => WritesOf(f) \cap durable = {}

-----------------------------------------------------------------------------
(* "Atomic block: exception rolls everything back": no write of a block that *)
(* raised becomes durable.                                                   *)
FailedLeavesNothing ==
    \A f \in Frames : Left(f, "failed") => WritesOf(f) \cap durable = {}

(* The transaction SQLite has open is the one the outermost block opened,    *)
(* and a thread that has the connection to itself gets all or nothing.       *)
TransactionsSafe == TypeOK /\ TransactionOwned /\ AtomicWhenAlone
=============================================================================
