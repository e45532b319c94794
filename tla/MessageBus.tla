----------------------------- MODULE MessageBus -----------------------------
(***************************************************************************)
(* MessageBus: the bounded in-process router between agents, with an       *)
(* optional durable repository of sent messages.  A message keeps its id   *)
(* when it is relayed.  All messages of the model belong to one            *)
(* conversation, so _forwarded is keyed by sender and recipient.  Messages *)
(* without a task scope or over the size limit are refused by the same     *)
(* early returns as the others and change nothing.                         *)
(***************************************************************************)
EXTENDS Naturals, Sequences, SequencesExt

CONSTANTS Peers,     \* agent ids
          Ids,       \* message ids
          MaxInbox,  \* max_inbox
          MaxHops,   \* max_hops
          Ttl,       \* ttl_hops of a new message
          Persistent \* a repository is configured

ASSUME MessageBusAssumption == MaxInbox \in Nat /\ MaxHops \in Nat /\ Ttl \in Nat

VARIABLES
    registered, \* _registered
    inbox,      \* _inboxes: peer -> sequence of messages, oldest first
    pairs,      \* _seen_pairs
    forwarded,  \* _forwarded
    stored,     \* ids in the repository
    expired,    \* ids whose expires_at has passed
    received    \* peer -> messages receive returned to it

busVars == <<registered, inbox, pairs, forwarded, stored, expired, received>>

Message == [id : Ids, from : Peers, to : Peers, hops : 0..MaxHops, ttl : 0..Ttl]
NewMessage(id, from, to) == [id |-> id, from |-> from, to |-> to, hops |-> 0, ttl |-> Ttl]

BusInit ==
    /\ registered = {}
    /\ inbox = [p \in Peers |-> <<>>]
    /\ pairs = {}
    /\ forwarded = [e \in Peers \X Peers |-> 0]
    /\ stored = {}
    /\ expired = {}
    /\ received = [p \in Peers |-> {}]

-----------------------------------------------------------------------------
Register(p) ==
    /\ registered' = registered \cup {p}
    /\ UNCHANGED <<inbox, pairs, forwarded, stored, expired, received>>

(* _validate *)
Valid(m) ==
    /\ m.from \in registered
    /\ m.to \in registered
    /\ m.ttl >= 1
    /\ m.id \notin expired

MutantAccepted(m) ==    \* the pair is not looked up
    Valid(m) /\ Len(inbox[m.to]) < MaxInbox

(* The checks send makes before it changes anything. *)
Accepted(m) ==
    /\ Valid(m)
    /\ <<m.id, m.to>> \notin pairs
    /\ Len(inbox[m.to]) < MaxInbox

(* send, past its checks.  The repository inserts by id: a second copy of a  *)
(* stored id raises, but the message is already in the inbox.                *)
Route(m) ==
    /\ pairs' = pairs \cup {<<m.id, m.to>>}
    /\ inbox' = [inbox EXCEPT ![m.to] = Append(@, m)]
    /\ stored' = IF Persistent THEN stored \cup {m.id} ELSE stored
    /\ UNCHANGED <<registered, expired, received>>

Send(m) == Accepted(m) /\ Route(m) /\ UNCHANGED forwarded

(* The first message that has not expired, 0 without one. *)
FirstFresh(q) == SelectInSeq(q, LAMBDA m : m.id \notin expired)

(* receive: expired messages at the head are dropped on the way. *)
Receive(p) ==
    /\ p \in registered
    /\ inbox[p] # <<>>
    /\ LET fresh == FirstFresh(inbox[p])
       IN IF fresh = 0
          THEN inbox' = [inbox EXCEPT ![p] = <<>>] /\ UNCHANGED received
          ELSE /\ inbox' = [inbox EXCEPT ![p] = SubSeq(@, fresh + 1, Len(@))]
               /\ received' = [received EXCEPT ![p] = @ \cup {inbox[p][fresh]}]
    /\ UNCHANGED <<registered, pairs, forwarded, stored, expired>>

(* model_copy(update=...) *)
Relay(m, to) == [m EXCEPT !.to = to, !.hops = @ + 1, !.ttl = @ - 1]

(* forward: the loop counter moves even when the relay is then refused. *)
Forward(m, to) ==
    LET key == <<m.from, to>>
        relayed == Relay(m, to)
    IN /\ m.hops + 1 <= MaxHops
       /\ m.ttl > 1
       /\ forwarded[key] <= MaxHops    \* the bound on the counter
       /\ forwarded' = [forwarded EXCEPT ![key] = @ + 1]
       /\ \/ /\ forwarded'[key] <= MaxHops
             /\ Accepted(relayed)
             /\ Route(relayed)
          \/ /\ forwarded'[key] > MaxHops \/ ~Accepted(relayed)
             /\ UNCHANGED <<registered, inbox, pairs, stored, expired, received>>

Expire(id) ==
    /\ id \notin expired
    /\ expired' = expired \cup {id}
    /\ UNCHANGED <<registered, inbox, pairs, forwarded, stored, received>>

BusNext ==
    \/ \E p \in Peers : p \notin registered /\ Register(p)
    \/ \E p, q \in Peers, id \in Ids :
          /\ \A x \in pairs : x[1] # id    \* a new message has a new id
          /\ Send(NewMessage(id, p, q))
    \/ \E p \in Peers : Receive(p)
    \/ \E p, q \in Peers : \E m \in received[p] : Forward(m, q)
    \/ \E id \in Ids : Expire(id)

BusSpec == BusInit /\ [][BusNext]_busVars

-----------------------------------------------------------------------------
BusTypeOK ==
    /\ registered \subseteq Peers
    /\ inbox \in [Peers -> Seq(Message)]
    /\ pairs \subseteq Ids \X Peers
    /\ forwarded \in [Peers \X Peers -> 0..(MaxHops + 1)]
    /\ stored \subseteq Ids
    /\ expired \subseteq Ids
    /\ received \in [Peers -> SUBSET Message]

(* Loop prevention: however messages are relayed in circles, no agent holds  *)
(* or has received one message twice, no message travels further than its    *)
(* ttl allows, and no inbox outgrows max_inbox.                              *)
DeliveredOnce ==
    \A p \in Peers :
        /\ \A i, j \in DOMAIN inbox[p] : inbox[p][i].id = inbox[p][j].id => i = j
        /\ \A m, n \in received[p] : m.id = n.id => m = n
        /\ \A m \in received[p], i \in DOMAIN inbox[p] : m.id # inbox[p][i].id
        /\ \A i \in DOMAIN inbox[p] : inbox[p][i].ttl + inbox[p][i].hops = Ttl
        /\ Len(inbox[p]) <= MaxInbox

(* The bus delivers no message twice, however its messages are relayed. *)
BusSafe == BusTypeOK /\ DeliveredOnce
=============================================================================
