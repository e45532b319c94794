------------------------------- MODULE MCCloud -------------------------------
(***************************************************************************)
(* The cloud layer, for TLC: synchronisation of devices, their presence,   *)
(* and compute jobs sent to providers.  They share no state: `focus` says  *)
(* which of them moves in a behaviour.                                     *)
(***************************************************************************)
EXTENDS Sync, Presence, Offload

VARIABLE focus

(* One device retries a failed run, the others do not. *)
Retries == [d \in Devices |-> IF d = CHOOSE e \in Devices : TRUE THEN 1 ELSE 0]

(* The cloud provider is the cheaper of the two. *)
Prices == [p \in Providers |-> IF p \in Local THEN 3 ELSE 1]

-----------------------------------------------------------------------------
MCInit ==
    /\ focus \in {"sync", "presence", "offload"}
    /\ Init
    /\ focus # "sync" => ~optIn /\ \A o \in Objects : class[o] = "SYNC_ALLOWED"
    /\ PresenceInit
    /\ OffloadInit

MCNext ==
    \/ focus = "sync" /\ Next /\ UNCHANGED <<focus, presenceVars, offloadVars>>
    \/ focus = "presence" /\ PresenceNext /\ UNCHANGED <<focus, vars, offloadVars>>
    \/ focus = "offload" /\ OffloadNext /\ UNCHANGED <<focus, vars, presenceVars>>

MCSpec ==
    /\ MCInit
    /\ [][MCNext]_<<focus, vars, presenceVars, offloadVars>>
    /\ \A d \in Devices : WF_vars(focus = "sync" /\ Run(d))

-----------------------------------------------------------------------------
(* Devices that keep synchronising converge (Sync).                          *)
DevicesConverge == focus = "sync" => Converges
=============================================================================
