------------------------------ MODULE Presence ------------------------------
(***************************************************************************)
(* PCAvailabilityService over its presence table: heartbeats renew a       *)
(* lease, poll expires the leases that lapsed, operators set a status.     *)
(* Every operation reads rows and later writes one back whole, and no lock *)
(* spans the two, so a write may put back what a heartbeat has renewed     *)
(* meanwhile, and two first heartbeats may create two rows.  The events    *)
(* published on the way inform observers and change no presence state.     *)
(***************************************************************************)
EXTENDS Naturals, Sequences, SequencesExt

CONSTANTS Machines,  \* opaque device ids
          Users,     \* threads that use the service
          Lease,     \* lease_timeout_s, in ticks of the clock
          MaxTime,   \* bound on the clock
          MaxRows    \* bound on the rows ever created

ASSUME PresenceAssumption == Lease \in Nat /\ MaxTime \in Nat /\ MaxRows \in Nat

VARIABLES
    clock,      \* utcnow()
    rows,       \* the table, least recently updated first, as list() returns it
    nrows,      \* how many rows were created
    beats,      \* device -> the last moment a heartbeat of it carried, or Never
    call        \* what each thread is in the middle of

presenceVars == <<clock, rows, nrows, beats, call>>

Never == MaxTime + 1
(* PCStatus up to what the code tells apart: AVAILABLE is ONLINE, and        *)
(* SLEEPING and UNREACHABLE are BUSY.                                        *)
Statuses == {"ONLINE", "OFFLINE", "BUSY"}
Row == [id : 1..MaxRows, device : Machines, seen : 0..MaxTime, status : Statuses]
NoRow == [id |-> 0, device |-> "none", seen |-> 0, status |-> "OFFLINE"]

(* A thread is idle, about to create or update the row it holds, or going    *)
(* through the rows poll has listed.                                         *)
NoCall == [at |-> "idle", row |-> NoRow, todo |-> {}]

PresenceInit ==
    /\ clock = 0
    /\ rows = <<>>
    /\ nrows = 0
    /\ beats = [d \in Machines |-> Never]
    /\ call = [c \in Users |-> NoCall]

-----------------------------------------------------------------------------
(* _find: the first row list() gives for the device. *)
PlaceOf(d) == SelectInSeq(rows, LAMBDA r : r.device = d)
Find(d) == IF PlaceOf(d) = 0 THEN NoRow ELSE rows[PlaceOf(d)]

MutantExpired(r, now) == now - r.seen > Lease + 1

(* _expired, for a row seen no later than now. *)
Expired(r, now) == now - r.seen > Lease

IsAvailable(d) ==
    /\ Find(d) # NoRow
    /\ Find(d).status = "ONLINE"
    /\ ~Expired(Find(d), clock)

(* update: the row is replaced, or inserted if it is gone; either way it is  *)
(* the most recently updated one.                                            *)
Without(id) ==
    LET i == SelectInSeq(rows, LAMBDA s : s.id = id)
    IN IF i = 0 THEN rows ELSE RemoveAt(rows, i)
Put(r) == Append(Without(r.id), r)

(* heartbeat takes its moment and looks the device up ... *)
Heartbeat(c, d, status) ==
    /\ call[c] = NoCall
    /\ LET old == Find(d)
           new == [old EXCEPT !.device = d, !.seen = clock, !.status = status]
       IN /\ old = NoRow => nrows < MaxRows
          /\ call' = [call EXCEPT ![c] = [NoCall EXCEPT !.at = "write", !.row = new]]
    /\ beats' = [beats EXCEPT ![d] = clock]
    /\ UNCHANGED <<clock, rows, nrows>>

(* ... as do set_status and mark_offline, which keep last_seen ... *)
MutantSetStatus(c, d, status) ==
    /\ call[c] = NoCall
    /\ Find(d) # NoRow
    /\ call' = [call EXCEPT ![c] = [NoCall EXCEPT !.at = "write",
                                       !.row = [Find(d) EXCEPT !.status = status, !.seen = clock]]]
    /\ UNCHANGED <<clock, rows, nrows, beats>>

SetStatus(c, d, status) ==
    /\ call[c] = NoCall
    /\ Find(d) # NoRow
    /\ call' = [call EXCEPT ![c] = [NoCall EXCEPT !.at = "write",
                                       !.row = [Find(d) EXCEPT !.status = status]]]
    /\ UNCHANGED <<clock, rows, nrows, beats>>

(* ... and each then creates or updates its row. *)
Write(c) ==
    /\ call[c].at = "write"
    /\ LET held == call[c].row
           fresh == held.id = 0
       IN /\ fresh => nrows < MaxRows
          /\ nrows' = nrows + (IF fresh THEN 1 ELSE 0)
          /\ rows' = Put(IF fresh THEN [held EXCEPT !.id = nrows'] ELSE held)
    /\ call' = [call EXCEPT ![c] = NoCall]
    /\ UNCHANGED <<clock, beats>>

(* poll takes its moment and lists the rows once; what it will do with each  *)
(* is settled by what it has listed.  A poll that finds no lapsed lease      *)
(* changes nothing.                                                          *)
Lapsed == {r \in ToSet(rows) : r.status # "OFFLINE" /\ Expired(r, clock)}

Poll(c) ==
    /\ call[c] = NoCall
    /\ Lapsed # {}
    /\ call' = [call EXCEPT ![c] = [NoCall EXCEPT !.at = "poll", !.todo = Lapsed]]
    /\ UNCHANGED <<clock, rows, nrows, beats>>

(* It writes the lapsed rows back OFFLINE, as they were when listed; in      *)
(* which order makes no difference to what is claimed here.                  *)
PollRow(c) ==
    /\ call[c].at = "poll"
    /\ \E r \in call[c].todo :
          LET rest == call[c].todo \ {r}
          IN /\ rows' = Put([r EXCEPT !.status = "OFFLINE"])
             /\ call' = [call EXCEPT ![c] = IF rest = {} THEN NoCall
                                            ELSE [call[c] EXCEPT !.todo = rest]]
    /\ UNCHANGED <<clock, nrows, beats>>

Tick ==
    /\ clock < MaxTime
    /\ clock' = clock + 1
    /\ UNCHANGED <<rows, nrows, beats, call>>

PresenceNext ==
    \/ Tick
    \/ \E c \in Users :
          \/ Write(c) \/ Poll(c) \/ PollRow(c)
          \/ \E d \in Machines :
                \/ \E status \in Statuses : Heartbeat(c, d, status)
                \/ \E status \in Statuses : SetStatus(c, d, status)

PresenceSpec == PresenceInit /\ [][PresenceNext]_presenceVars

-----------------------------------------------------------------------------
PresenceTypeOK ==
    /\ clock \in 0..MaxTime
    /\ rows \in Seq(Row)
    /\ nrows \in 0..MaxRows
    /\ beats \in [Machines -> 0..Never]
    /\ \A c \in Users : call[c].at \in {"idle", "write", "poll"}

(* A device is reported available only within the lease of a heartbeat it    *)
(* really sent, whatever stale rows operators, polls and other heartbeats    *)
(* put back over one another (is_available, set_status, poll).  The converse *)
(* does not hold: a stale OFFLINE written back hides a live device until its *)
(* next heartbeat.                                                           *)
AvailableIsFresh ==
    \A d \in Machines : IsAvailable(d) => beats[d] # Never /\ clock - beats[d] <= Lease

(* Presence is typed and never better than the heartbeats behind it.         *)
PresenceSafe == PresenceTypeOK /\ AvailableIsFresh
=============================================================================
