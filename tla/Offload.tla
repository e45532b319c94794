------------------------------ MODULE Offload -------------------------------
(***************************************************************************)
(* A compute job leaves the PC: ComputeRouter ranks the providers under    *)
(* the policy and falls back along the ranking, ExternalProvider connects, *)
(* submits, polls and cancels, and SqliteComputeJobRepository keeps the    *)
(* job's row.  Callers share the job object; the remote backend moves a    *)
(* job only when it is polled.  A job is submitted by one caller while no  *)
(* other uses it; poll, cancel and mark run at any time, and nothing is    *)
(* held between what they read and what they write.                        *)
(***************************************************************************)
EXTENDS Naturals

CONSTANTS Providers,  \* names of the declared providers
          Local,      \* those with caps.local: work routed there never leaves
          Fits,       \* those that are capable of the job and permitted by policy
          Price,      \* provider -> its place by cost, latency, reliability and name
          Callers     \* threads that drive the job

ASSUME OffloadAssumption ==
    /\ Local \subseteq Providers
    /\ Price \in [Providers -> Nat]
    /\ "none" \notin Providers

Clouds == Providers \ Local

VARIABLES
    conn,     \* cloud provider -> CloudStatus
    up,       \* providers the availability callback reports
    job,      \* the shared ComputeJob
    backend,  \* cloud provider -> the backend's state of the job
    stored,   \* the row's status, or "absent"
    caller,   \* what each thread is in the middle of
    reached   \* cloud providers that answered a poll with COMPLETED

offloadVars == <<conn, up, job, backend, stored, caller, reached>>

Terminal == {"SUCCEEDED", "FAILED", "CANCELLED", "TIMED_OUT"}
Done == {"COMPLETED", "FAILED", "CANCELLED", "TIMED_OUT"}
JobStatus == {"QUEUED", "RUNNING"} \cup Terminal
RemoteState == {"none", "CREATED", "QUEUED", "RUNNING"} \cup Done

Resting == [at |-> "idle", to |-> "none", ranked |-> {}, saw |-> "none"]
NoOneBusy == \A c \in Callers : caller[c].at \in {"idle", "mark", "connect"}

OffloadInit ==
    /\ conn = [p \in Clouds |-> "DISCONNECTED"]
    /\ up = Providers
    /\ job = [status |-> "QUEUED", provider |-> "none", result |-> FALSE, private |-> FALSE]
    /\ backend = [p \in Clouds |-> "none"]
    /\ stored = "absent"
    /\ caller = [c \in Callers |-> Resting]
    /\ reached = {}

Goto(c, next) == caller' = [caller EXCEPT ![c] = next]

-----------------------------------------------------------------------------
(* ExternalProvider.connect announces CONNECTING, shakes hands, and reports  *)
(* what came of it; disconnect may come in between.                          *)
Connect(c, p) ==
    /\ caller[c] = Resting
    /\ conn' = [conn EXCEPT ![p] = "CONNECTING"]
    /\ Goto(c, [Resting EXCEPT !.at = "connect", !.to = p])
    /\ UNCHANGED <<up, job, backend, stored, reached>>

Connected(c) ==
    /\ caller[c].at = "connect"
    /\ \E s \in {"CONNECTED", "ERROR"} : conn' = [conn EXCEPT ![caller[c].to] = s]
    /\ Goto(c, Resting)
    /\ UNCHANGED <<up, job, backend, stored, reached>>

Disconnect(p) ==
    /\ conn[p] # "DISCONNECTED"
    /\ conn' = [conn EXCEPT ![p] = "DISCONNECTED"]
    /\ UNCHANGED <<up, job, backend, stored, caller, reached>>

(* What the availability callback answers changes at any time. *)
Flip(p) ==
    /\ up' = IF p \in up THEN up \ {p} ELSE up \cup {p}
    /\ UNCHANGED <<conn, job, backend, stored, caller, reached>>

-----------------------------------------------------------------------------
(* rank validates first: private work is refused at once unless a local      *)
(* provider is up and suits it.                                              *)
Validate(c, private) ==
    /\ caller[c] = Resting
    /\ NoOneBusy
    /\ \A p \in Clouds : backend[p] \in Done \cup {"none"}
    /\ job.provider = "none" \/ private = job.private
    /\ private => up \cap Fits \cap Local # {}
    /\ job' = [job EXCEPT !.private = private]
    /\ Goto(c, [Resting EXCEPT !.at = "rank"])
    /\ UNCHANGED <<conn, up, backend, stored, reached>>

MutantSuitable == up \cap Fits    \* leaves privacy to the validation

(* The filters are applied with availability asked again. *)
Suitable == {p \in up \cap Fits : job.private => p \in Local}

Rank(c) ==
    /\ caller[c].at = "rank"
    /\ Goto(c, IF Suitable = {} THEN Resting
               ELSE [Resting EXCEPT !.at = "probe", !.ranked = Suitable])
    /\ UNCHANGED <<conn, up, job, backend, stored, reached>>

(* The ranking is sorted: the first of what is left of it is the cheapest. *)
FirstOf(ranked) == {p \in ranked : \A q \in ranked : Price[p] <= Price[q]}

(* health: a cloud has to be connected, and a handshake made for the purpose *)
(* has to go through; a local target answers for itself.                     *)
Health(p) == IF p \in Local \/ conn[p] = "CONNECTED" THEN BOOLEAN ELSE {FALSE}

(* select_first_available walks the ranking until a target probes healthy.   *)
(* Work placed on a local target runs outside this module.                   *)
Probe(c) ==
    /\ caller[c].at = "probe"
    /\ \E p \in FirstOf(caller[c].ranked) : \E healthy \in Health(p) :
          LET rest == caller[c].ranked \ {p}
          IN \/ healthy /\ p \in Local /\ Goto(c, Resting)
             \/ healthy /\ p \notin Local
                   /\ Goto(c, [Resting EXCEPT !.at = "submit", !.to = p])
             \/ ~healthy
                   /\ Goto(c, IF rest = {} THEN Resting ELSE [caller[c] EXCEPT !.ranked = rest])
    /\ UNCHANGED <<conn, up, job, backend, stored, reached>>

(* submit_job: refused when no longer connected or when a dataset fails the  *)
(* policy; a backend that cannot accept leaves the provider's name behind.   *)
Submit(c) ==
    /\ caller[c].at = "submit"
    /\ LET p == caller[c].to
       IN \/ /\ conn[p] = "CONNECTED"
             /\ job' = [job EXCEPT !.provider = p, !.status = "QUEUED"]
             /\ backend' = [backend EXCEPT ![p] = "CREATED"]
             /\ reached' = reached \ {p}
          \/ /\ conn[p] = "CONNECTED"
             /\ job' = [job EXCEPT !.provider = p]
             /\ UNCHANGED <<backend, reached>>
          \/ UNCHANGED <<job, backend, reached>>
    /\ Goto(c, Resting)
    /\ UNCHANGED <<conn, up, stored>>

-----------------------------------------------------------------------------
(* What the backend's state may be after one more poll, each a tick: once    *)
(* the ticks exceed ticks_to_timeout it is TIMED_OUT, whatever it was.       *)
Advanced(s) ==
    {"TIMED_OUT"} \cup
    CASE s = "CREATED" -> {"QUEUED"}
      [] s \in {"QUEUED", "RUNNING"} -> {"RUNNING", "COMPLETED", "FAILED", "CANCELLED"}
      [] OTHER -> {s}

(* poll_job asks the backend, which advances the job ... *)
PollStatus(c) ==
    /\ caller[c] = Resting
    /\ job.provider # "none"
    /\ backend[job.provider] # "none"
    /\ \A d \in Callers : caller[d].at \notin {"rank", "probe", "submit"}
    /\ \E s \in Advanced(backend[job.provider]) :
          /\ backend' = [backend EXCEPT ![job.provider] = s]
          /\ Goto(c, [Resting EXCEPT !.at = "polled", !.to = job.provider, !.saw = s])
          /\ reached' = IF s = "COMPLETED" THEN reached \cup {job.provider} ELSE reached
    /\ UNCHANGED <<conn, up, job, stored>>

Mapped(s) ==
    CASE s \in {"CREATED", "QUEUED"} -> "QUEUED"
      [] s = "COMPLETED" -> "SUCCEEDED"
      [] OTHER -> s

(* ... maps the answer onto the job ... *)
PollApply(c) ==
    /\ caller[c].at = "polled"
    /\ job' = [job EXCEPT !.status = Mapped(caller[c].saw)]
    /\ Goto(c, IF caller[c].saw = "COMPLETED" THEN [caller[c] EXCEPT !.at = "fetch"] ELSE Resting)
    /\ UNCHANGED <<conn, up, backend, stored, reached>>

(* ... and fetches the result of a completed one, which raises if the        *)
(* backend has meanwhile timed it out.                                       *)
PollResult(c) ==
    /\ caller[c].at = "fetch"
    /\ job' = [job EXCEPT !.result = @ \/ backend[caller[c].to] = "COMPLETED"]
    /\ Goto(c, Resting)
    /\ UNCHANGED <<conn, up, backend, stored, reached>>

(* cancel_job refuses a terminal job, cancels remotely, which may fail, and  *)
(* then locally.                                                             *)
CancelCheck(c) ==
    /\ caller[c] = Resting
    /\ job.status \notin Terminal
    /\ job.provider # "none"
    /\ backend[job.provider] # "none"
    /\ \A d \in Callers : caller[d].at \notin {"rank", "probe", "submit"}
    /\ Goto(c, [Resting EXCEPT !.at = "cancel", !.to = job.provider])
    /\ UNCHANGED <<conn, up, job, backend, stored, reached>>

MutantCancelRemote(c) ==    \* a failure to reach the backend is swallowed
    /\ caller[c].at = "cancel"
    /\ LET p == caller[c].to
       IN \E s \in {backend[p], "CANCELLED"} :
            backend' = [backend EXCEPT ![p] = IF backend[p] \in Done THEN backend[p] ELSE s]
    /\ Goto(c, [caller[c] EXCEPT !.at = "cancelled"])
    /\ UNCHANGED <<conn, up, job, stored, reached>>

CancelRemote(c) ==
    /\ caller[c].at = "cancel"
    /\ LET p == caller[c].to
       IN \/ /\ backend' = [backend EXCEPT ![p] = IF backend[p] \in Done THEN backend[p]
                                                ELSE "CANCELLED"]
             /\ Goto(c, [caller[c] EXCEPT !.at = "cancelled"])
          \/ UNCHANGED backend /\ Goto(c, Resting)
    /\ UNCHANGED <<conn, up, job, stored, reached>>

CancelApply(c) ==
    /\ caller[c].at = "cancelled"
    /\ job' = [job EXCEPT !.status = "CANCELLED"]
    /\ Goto(c, Resting)
    /\ UNCHANGED <<conn, up, backend, stored, reached>>

-----------------------------------------------------------------------------
(* The repository: submit inserts a QUEUED job; mark and cancel read the     *)
(* row, check the move and write it back.                                    *)
Allowed(s) ==
    CASE s = "QUEUED" -> {"RUNNING", "FAILED", "CANCELLED"}
      [] s = "RUNNING" -> Terminal
      [] OTHER -> {}

SubmitRow ==
    /\ stored = "absent"
    /\ job.status = "QUEUED"
    /\ stored' = "QUEUED"
    /\ UNCHANGED <<conn, up, job, backend, caller, reached>>

MarkRead(c, s) ==
    /\ caller[c] = Resting
    /\ s \in Allowed(stored)
    /\ s = job.status \/ s = "CANCELLED"
    /\ Goto(c, [Resting EXCEPT !.at = "mark", !.saw = s])
    /\ UNCHANGED <<conn, up, job, backend, stored, reached>>

MarkWrite(c) ==
    /\ caller[c].at = "mark"
    /\ stored' = caller[c].saw
    /\ Goto(c, Resting)
    /\ UNCHANGED <<conn, up, job, backend, reached>>

OffloadNext ==
    \/ SubmitRow
    \/ \E p \in Providers : Flip(p)
    \/ \E p \in Clouds : Disconnect(p)
    \/ \E c \in Callers :
          \/ Connected(c) \/ Rank(c) \/ Probe(c) \/ Submit(c)
          \/ PollStatus(c) \/ PollApply(c) \/ PollResult(c)
          \/ CancelCheck(c) \/ CancelRemote(c) \/ CancelApply(c)
          \/ MarkWrite(c)
          \/ \E p \in Clouds : Connect(c, p)
          \/ \E private \in BOOLEAN : Validate(c, private)
          \/ \E s \in JobStatus : MarkRead(c, s)

OffloadSpec == OffloadInit /\ [][OffloadNext]_offloadVars

-----------------------------------------------------------------------------
OffloadTypeOK ==
    /\ conn \in [Clouds -> {"DISCONNECTED", "CONNECTING", "CONNECTED", "ERROR"}]
    /\ up \subseteq Providers
    /\ job \in [status : JobStatus, provider : Clouds \cup {"none"}, result : BOOLEAN,
                private : BOOLEAN]
    /\ backend \in [Clouds -> RemoteState]
    /\ stored \in JobStatus \cup {"absent"}
    /\ reached \subseteq Clouds

(* Private work never reaches a cloud, even when the local provider that     *)
(* passed the validation goes down before the ranking is made, or the        *)
(* fallback walks the whole of it (rank, select_first_available).            *)
PrivateStaysLocal ==
    job.private => job.provider = "none" /\ \A p \in Clouds : backend[p] = "none"

(* Once no call on it is in progress, a job that says CANCELLED is not still *)
(* at work remotely, and one that says SUCCEEDED was completed there and has *)
(* a result, however polls and cancels interleaved; the one way to miss the  *)
(* result is a poll after the completion that timed the job out, which the   *)
(* backend does whatever the state (poll_job, cancel_job, status).           *)
SettledTruthful ==
    NoOneBusy =>
        /\ job.status = "CANCELLED" => \A p \in Clouds : backend[p] \in Done \cup {"none"}
        /\ job.status = "SUCCEEDED" =>
              \E p \in reached : job.result \/ backend[p] = "TIMED_OUT"

(* Offloaded work respects privacy and its status is true in the end, but    *)
(* for what a timeout after the completion takes back.                       *)
OffloadSafe == OffloadTypeOK /\ PrivateStaysLocal /\ SettledTruthful
=============================================================================
