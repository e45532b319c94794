------------------------------- MODULE Models -------------------------------
(***************************************************************************)
(* The model router and its providers: intelligence/router/router.py,      *)
(* intelligence/models/{providers,ollama,http}.py, and the provider switch *)
(* of interface/serve.py (build_router, set_model_settings).               *)
(*                                                                         *)
(* The router's two dictionaries are read by the worker threads while an   *)
(* API thread switches the provider: nothing locks them.  A scan of the    *)
(* candidates therefore takes one step per read, and a switch one step per *)
(* dictionary write.  The provider dictionary is a sequence of entries in  *)
(* insertion order, which is what an interrupted iteration depends on.     *)
(* A prompt is its data class; a reply is the branch of complete() it      *)
(* takes.                                                                  *)
(***************************************************************************)
EXTENDS Naturals, Sequences, FiniteSets, SequencesExt

CONSTANTS
    Callers,        \* worker threads that ask for a completion
    Http,           \* ids of HTTP providers the embedding program may register,
                    \* in the order of their names, in which it registers them
    Names,          \* installed model names a user may select
    Endpoints,      \* endpoints a user may enter
    Requests,       \* records [class, localOnly, context] callers may ask for
    MaxSwitches,    \* bound on set_model_settings calls
    MaxCalls        \* bound on completions

VARIABLES
    providers,      \* _providers: sequence of <<id, provider>> entries
    profiles,       \* _profiles: function from ids to profiles
    switch,         \* the API thread inside set_model_settings
    switches,       \* how many were started
    caller,         \* the worker threads inside the router
    calls,          \* how many completions were started
    sent            \* what was sent where: pairs <<class, provider>>

modelVars == <<providers, profiles, switch, switches, caller, calls, sent>>

DataClasses == {"PUBLIC", "INTERNAL", "PERSONAL", "SENSITIVE", "SECRET"}

ASSUME ModelsAssumption ==
    /\ Http \in Seq(ToSet(Http))
    /\ \A i, k \in DOMAIN Http : Http[i] = Http[k] => i = k
    /\ ToSet(Http) \cap {"ollama", "unconfigured"} = {}
    /\ Requests \subseteq [class : DataClasses, localOnly : BOOLEAN, context : BOOLEAN]

-----------------------------------------------------------------------------
(* Endpoints are told apart by where they lead. *)

\* Plausible slip: the rule of the HTTP provider, which lets a LAN through.
MutantOllamaAccepts(e) == e \in {"loopback", "lan"}

\* normalize_ollama_endpoint: only a loopback URL is accepted.
OllamaAccepts(e) == e = "loopback"

\* http.normalize_endpoint, without an API key: HTTPS goes anywhere, plain
\* HTTP to loopback and private addresses.
HttpAccepts(e) == e \in {"loopback", "lan", "https"}

Stub == [kind |-> "stub", id |-> "unconfigured", endpoint |-> "none", model |-> ""]

Ollama(e, m) == [kind |-> "ollama", id |-> "ollama", endpoint |-> e, model |-> m]

HttpProvider(i, e) == [kind |-> "http", id |-> i, endpoint |-> e, model |-> i]

-----------------------------------------------------------------------------
(* Profiles. *)

\* ProviderProfile's defaults, what a missing profile is read as.
DefaultProfile ==
    [local |-> FALSE, trusted |-> FALSE, trains |-> TRUE, classes |-> {}, cost |-> 0]

\* The profile each kind of provider is registered with.
ProfileOf(p) ==
    CASE p.kind = "stub" ->
            [DefaultProfile EXCEPT !.local = TRUE, !.classes = DataClasses]
      [] p.kind = "ollama" ->
            [DefaultProfile EXCEPT !.local = TRUE, !.trains = FALSE, !.classes = DataClasses]
      [] p.kind = "http" ->
            [DefaultProfile EXCEPT !.trusted = TRUE, !.cost = 1,
                                   !.classes = {"PUBLIC", "INTERNAL", "PERSONAL"}]

\* Plausible slip: a provider whose profile is missing is taken for a local one.
MutantReadProfile(id) ==
    IF id \in DOMAIN profiles THEN profiles[id]
    ELSE [DefaultProfile EXCEPT !.local = TRUE, !.trains = FALSE]

\* self._profiles.get(pid, ProviderProfile(provider_id=pid))
ReadProfile(id) == IF id \in DOMAIN profiles THEN profiles[id] ELSE DefaultProfile

\* _privacy_allowed
PrivacyAllowed(f, r) ==
    CASE r.class = "SECRET" -> f.local /\ ~f.trains
      [] r.class # "SECRET" /\ r.localOnly -> f.local
      [] r.class = "SENSITIVE" /\ ~r.localOnly ->
            f.local \/ (f.trusted /\ r.class \in f.classes /\ ~f.trains)
      [] r.class = "PERSONAL" /\ ~r.localOnly ->
            f.local \/ (f.trusted /\ r.class \in f.classes)
      [] OTHER -> r.class \in f.classes \/ f.local

\* The capability tests of candidates(): Ollama alone states a context length.
Capable(p, r) == r.context => p.kind = "ollama"

-----------------------------------------------------------------------------
(* What a provider's complete() makes of the reply it gets: a response, a    *)
(* ModelError (the router goes on to the next provider), or another          *)
(* exception, which leaves the router at once.                               *)

Failures == {"timeout", "http_error", "unreachable", "oversize",
             "bad_json", "bad_shape", "bad_calls", "empty"}

\* Replies no handler of complete() expects: a token count that is not a
\* number, a broken status line or chunk.
Unexpected == {"bad_count", "bad_protocol"}

\* A well-formed reply: prose, or the JSON a structured request wants.
Answers == {"prose", "json"}

Replies == Failures \cup Unexpected \cup Answers

OllamaComplete(p, reply) ==
    CASE p.model = "" /\ reply \in {"unreachable", "empty"} -> "unsent"
      [] reply \in Failures -> "model_error"
      [] reply \in Unexpected -> "escaped"
      [] reply \in Answers -> reply

HttpComplete(p, reply) ==
    CASE reply \in Failures -> "model_error"
      [] reply \in Unexpected -> "escaped"
      [] reply \in Answers -> reply

\* The stub of build_router raises ModelUnavailableError without sending.
StubComplete == "unsent"

Complete(p, reply) ==
    CASE p.kind = "stub" -> StubComplete
      [] p.kind = "ollama" -> OllamaComplete(p, reply)
      [] p.kind = "http" -> HttpComplete(p, reply)

\* request_structured: prose is an error unless a TaskSpec was asked for,
\* whose fallback is built from the request itself.
Structured(result, op) ==
    IF result = "prose" /\ op = "structured" THEN "model_error" ELSE result

-----------------------------------------------------------------------------
(* set_model_settings *)

NoSwitch == [step |-> "idle"]

\* Settings are validated before anything is written: a refused endpoint
\* leaves the router alone.
BeginSwitch(e, m) ==
    /\ switch.step = "idle"
    /\ switches < MaxSwitches
    /\ OllamaAccepts(e)
    /\ switches' = switches + 1
    /\ switch' = [step |-> "clear_providers", new |-> Ollama(e, m)]
    /\ caller' = [c \in Callers |-> [caller[c] EXCEPT !.overlap = TRUE]]
    /\ UNCHANGED <<providers, profiles, calls, sent>>

\* The position of an id in the provider dictionary, 0 if it is not there.
IndexOf(id) ==
    LET at == {i \in 1..Len(providers) : providers[i][1] = id}
    IN  IF at = {} THEN 0 ELSE CHOOSE i \in at : TRUE

\* d[id] = p keeps the place of an existing key.
Assigned(p) ==
    IF IndexOf(p.id) = 0 THEN Append(providers, <<p.id, p>>)
                         ELSE [providers EXCEPT ![IndexOf(p.id)] = <<p.id, p>>]

ClearProviders ==
    /\ switch.step = "clear_providers"
    /\ providers' = << >>
    /\ switch' = [switch EXCEPT !.step = "clear_profiles"]
    /\ UNCHANGED <<profiles, switches, caller, calls, sent>>

ClearProfiles ==
    /\ switch.step = "clear_profiles"
    /\ profiles' = << >>
    /\ switch' = [switch EXCEPT !.step = "set_provider"]
    /\ UNCHANGED <<providers, switches, caller, calls, sent>>

SetProvider ==
    /\ switch.step = "set_provider"
    /\ providers' = Assigned(switch.new)
    /\ switch' = [switch EXCEPT !.step = "set_profile"]
    /\ UNCHANGED <<profiles, switches, caller, calls, sent>>

\* Plausible slip: the new provider is stored and its profile forgotten.
MutantSetProfile ==
    /\ switch.step = "set_profile"
    /\ switch' = NoSwitch
    /\ UNCHANGED <<providers, profiles, switches, caller, calls, sent>>

SetProfile ==
    /\ switch.step = "set_profile"
    /\ profiles' = [i \in DOMAIN profiles \cup {switch.new.id} |->
                       IF i = switch.new.id THEN ProfileOf(switch.new) ELSE profiles[i]]
    /\ switch' = NoSwitch
    /\ UNCHANGED <<providers, switches, caller, calls, sent>>

-----------------------------------------------------------------------------
(* candidates(), select(), complete() and request_structured() *)

Idle == [step |-> "idle", overlap |-> FALSE]

Ask(c, r, op) ==
    /\ caller[c].step \in {"idle", "done"}
    /\ calls < MaxCalls
    /\ calls' = calls + 1
    /\ caller' = [caller EXCEPT ![c] =
         [step |-> "scan", overlap |-> switch.step # "idle", req |-> r, op |-> op,
          size |-> Len(providers), pos |-> 0, entry |-> << >>, ranked |-> << >>,
          outcome |-> "none"]]
    /\ UNCHANGED <<providers, profiles, switch, switches, sent>>

EndCall(c, outcome) ==
    caller' = [caller EXCEPT ![c] = [@ EXCEPT !.step = "done", !.outcome = outcome]]

\* The next entry of the iteration.  Python refuses to go on when the
\* dictionary's size has changed (RuntimeError).
NextEntry(c) ==
    /\ caller[c].step = "scan"
    /\ IF Len(providers) # caller[c].size
       THEN EndCall(c, "crashed")
       ELSE /\ caller[c].pos < Len(providers)
            /\ caller' = [caller EXCEPT ![c] =
                 [@ EXCEPT !.step = "profile", !.pos = caller[c].pos + 1,
                           !.entry = providers[caller[c].pos + 1]]]
    /\ UNCHANGED <<providers, profiles, switch, switches, calls, sent>>

\* ranked.sort: by cost, then by name, which is the order of the scan; the
\* latency classes are all the same.  A candidate goes behind the ones that
\* are not dearer.
Cheaper(a, b) == ProfileOf(a).cost < ProfileOf(b).cost

Ranked(ranked, p) ==
    InsertAt(ranked, 1 + Cardinality({k \in DOMAIN ranked : ~Cheaper(p, ranked[k])}), p)

\* The profile of the entry, the privacy and capability tests, and ranking.
RankEntry(c) ==
    /\ caller[c].step = "profile"
    /\ LET p  == caller[c].entry[2]
           ok == PrivacyAllowed(ReadProfile(caller[c].entry[1]), caller[c].req)
                 /\ Capable(p, caller[c].req)
       IN  caller' = [caller EXCEPT ![c] =
             [@ EXCEPT !.step = "scan",
                       !.ranked = IF ok THEN Ranked(caller[c].ranked, p)
                                        ELSE caller[c].ranked]]
    /\ UNCHANGED <<providers, profiles, switch, switches, calls, sent>>

\* The scan is over: no candidate is NoSuitableModelError, and select() takes
\* the first one and leaves failover out.
EndScan(c) ==
    /\ caller[c].step = "scan"
    /\ Len(providers) = caller[c].size
    /\ caller[c].pos >= Len(providers)
    /\ IF caller[c].ranked = << >>
       THEN EndCall(c, "no_suitable")
       ELSE caller' = [caller EXCEPT ![c] =
              [@ EXCEPT !.step = "try",
                        !.ranked = IF caller[c].op = "select"
                                    THEN SubSeq(caller[c].ranked, 1, 1)
                                    ELSE caller[c].ranked]]
    /\ UNCHANGED <<providers, profiles, switch, switches, calls, sent>>

\* One provider is tried: a ModelError moves on to the next one, and the last
\* one's error is raised.
Try(c, reply) ==
    /\ caller[c].step = "try"
    /\ LET p      == Head(caller[c].ranked)
           result == Complete(p, reply)
           final  == Structured(result, caller[c].op)
       IN  /\ sent' = IF result = "unsent" THEN sent
                      ELSE sent \cup {<<caller[c].req.class, p>>}
           /\ \/ /\ final \in {"model_error", "unsent"}
                 /\ Len(caller[c].ranked) > 1
                 /\ caller' = [caller EXCEPT ![c].ranked = Tail(@)]
              \/ /\ final \in {"model_error", "unsent"}
                 /\ Len(caller[c].ranked) = 1
                 /\ EndCall(c, "model_error")
              \/ /\ final \notin {"model_error", "unsent"}
                 /\ EndCall(c, final)
    /\ UNCHANGED <<providers, profiles, switch, switches, calls>>

-----------------------------------------------------------------------------
\* The start: build_router found no model and registered the stub, or an
\* embedding program registered HTTP providers, one or more of them, which
\* refuse an endpoint they do not accept.
Entries(ps) == [i \in 1..Len(ps) |-> <<ps[i].id, ps[i]>>]

Registered ==
    {<<Stub>>} \cup {[i \in 1..n |-> HttpProvider(Http[i], e)] :
                         n \in 1..Len(Http), e \in {e \in Endpoints : HttpAccepts(e)}}

ModelsInit ==
    \E ps \in Registered :
        /\ providers = Entries(ps)
        /\ profiles = [i \in {p.id : p \in ToSet(ps)} |->
                          ProfileOf(CHOOSE p \in ToSet(ps) : p.id = i)]
        /\ switch = NoSwitch
        /\ switches = 0
        /\ caller = [c \in Callers |-> Idle]
        /\ calls = 0
        /\ sent = {}

ModelsNext ==
    \/ \E e \in Endpoints, m \in Names \cup {""} : BeginSwitch(e, m)
    \/ ClearProviders \/ ClearProfiles \/ SetProvider \/ SetProfile
    \/ \E c \in Callers :
          \/ \E r \in Requests, op \in {"complete", "structured", "select"} : Ask(c, r, op)
          \/ NextEntry(c) \/ RankEntry(c) \/ EndScan(c)
          \/ \E reply \in Replies : Try(c, reply)

ModelsSpec == ModelsInit /\ [][ModelsNext]_modelVars

-----------------------------------------------------------------------------
\* Whatever a switch does in the middle of a scan, data goes only where the
\* provider's own profile lets it, and SECRET data never leaves the machine:
\* a half-registered provider is read with a profile that denies everything
\* (router.py candidates, register, clear; ollama.py normalize_ollama_endpoint).
\* A caller's own wish for a local model (localOnly) narrows the choice further
\* and is not part of this.
PrivacyKept ==
    \A pair \in sent :
        LET r == [class |-> pair[1], localOnly |-> FALSE]
        IN  /\ PrivacyAllowed(ProfileOf(pair[2]), r)
            /\ pair[1] = "SECRET" => pair[2].endpoint = "loopback"

\* Every switch leaves the router able to serve: an ordinary INTERNAL request
\* finds no provider, or breaks off its scan, only if a switch was going on
\* during that very call (serve.py set_model_settings).
RefusedOnlyInSwitch ==
    \A c \in Callers :
        /\ caller[c].step = "done"
        /\ caller[c].outcome \in {"no_suitable", "crashed"}
        /\ caller[c].req = [class |-> "INTERNAL", localOnly |-> FALSE, context |-> FALSE]
        => caller[c].overlap

\* The router never trades privacy for availability, and a switch never leaves
\* it unable to serve.
RoutingSafe == PrivacyKept /\ RefusedOnlyInSwitch
=============================================================================
