---------------------------- MODULE MCToolRunner ----------------------------
(* Instances of ToolRunner for TLC. *)
EXTENDS ToolRunner, TLC

(* Neither calls nor actions are told apart except by equality. *)
Symmetry == Permutations(Calls) \cup Permutations(Actions)

(* Blocks of other threads touch the ledger alone: they are explored where   *)
(* there is one and no call waits for a human.                               *)
MCSpec == Init /\ [][Next /\ (foreign' => ledgered /\ needs = {})]_vars
=============================================================================
