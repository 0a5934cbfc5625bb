------------------------- MODULE ClientCredentials -------------------------
(***************************************************************************)
(* fast_gateway/plugins/oauth/client_credentials.py for one server: the    *)
(* hook's dictionary of providers, one per configuration of the server,    *)
(* and in each provider a token cached until shortly before it expires,    *)
(* fetched under a lock, and fetched anew once when the upstream answers   *)
(* 401.  Mounts made before and after a change of the credentials connect  *)
(* side by side, each with the record it was mounted with.                 *)
(*                                                                         *)
(* Time is counted in units; Skew and Timeout are the 60 and 30 seconds.   *)
(***************************************************************************)
EXTENDS Integers, Sequences

CONSTANTS
    Requests,       \* coroutines that send requests to the upstream
    Configs,        \* (token url, client id, secret reference, scopes)
    Lifetimes,      \* values of expires_in
    Untold,         \* no numeric expires_in
    Default,        \* _DEFAULT_EXPIRES_IN_SECONDS
    Skew,           \* _EXPIRY_SKEW_SECONDS
    Timeout,        \* timeout_seconds of the token endpoint's client
    NoRequest,      \* nobody holds the lock
    NoConfig,       \* the configuration of a request not yet connected
    MaxTime, MaxTokens, MaxProviders    \* bounds

ASSUME CredentialsAssumption ==
    /\ NoRequest \notin Requests
    /\ NoConfig \notin Configs
    /\ Lifetimes \subseteq Nat
    /\ Untold \notin Nat
    /\ Default \in Nat /\ Skew \in Nat /\ Timeout \in Nat
    /\ Timeout <= Skew
    /\ MaxTime \in Nat /\ MaxTokens \in Nat /\ MaxProviders \in Nat

VARIABLES
    now,        \* time.monotonic()
    providers,  \* every ClientCredentialsAuth built so far
    current,    \* those the hook's dictionary holds, by number
    tokens,     \* every token the endpoint has issued
    pc,         \* where each request is
    job         \* its configuration, provider, token, and whether it retries

vars == <<now, providers, current, tokens, pc, job>>

(* Tokens and providers are numbered as they come; 0 is none.              *)
Provider ==
    [config : Configs, token : Nat, expires_at : Nat, lock : Requests \cup {NoRequest}]

(* life is expires_in, or Untold where the answer has no numeric one.      *)
Token == [config : Configs, at : Nat, life : Lifetimes \cup {Untold}]

(* refused is the token the upstream answered 401 to, and issued how many   *)
(* tokens there were by then;  at is when a cached token was taken.       *)
Job ==
    [config : Configs \cup {NoConfig}, provider : Nat, force : BOOLEAN, token : Nat,
     cached : BOOLEAN, at : Nat, refused : Nat, issued : Nat]

Fresh(c, k) ==
    [config |-> c, provider |-> k, force |-> FALSE, token |-> 0,
     cached |-> FALSE, at |-> 0, refused |-> 0, issued |-> 0]

TypeOK ==
    /\ now \in 0 .. MaxTime
    /\ providers \in Seq(Provider)
    /\ current \subseteq DOMAIN providers
    /\ tokens \in Seq(Token)
    /\ pc \in [Requests -> {"idle", "lock", "fetch", "answer", "sent", "ended"}]
    /\ job \in [Requests -> Job]
    /\ \A k \in DOMAIN providers, r \in Requests :
        providers[k].lock = r <=> pc[r] \in {"fetch", "answer"} /\ job[r].provider = k

Init ==
    /\ now = 0
    /\ providers = <<>>
    /\ current = {}
    /\ tokens = <<>>
    /\ pc = [r \in Requests |-> "idle"]
    /\ job = [r \in Requests |-> Fresh(NoConfig, 0)]

-----------------------------------------------------------------------------
Goto(r, place) == pc' = [pc EXCEPT ![r] = place]

(* The request is over; its session remains. *)
End(r) ==
    /\ Goto(r, "ended")
    /\ job' = [job EXCEPT ![r] = Fresh(@.config, @.provider)]

(* A session connects: the hook finds the provider of its configuration,   *)
(* or drops those of the server and builds one.  No await: one step.       *)
Attach(r, c, k) ==
    /\ Goto(r, "lock")
    /\ job' = [job EXCEPT ![r] = Fresh(c, k)]
    /\ UNCHANGED <<now, tokens>>

(* Fault: the key of the dictionary is the id of the server alone. *)
BugReuse(r, c) ==
    /\ pc[r] = "idle"
    /\ \E k \in current : Attach(r, c, k)
    /\ UNCHANGED <<providers, current>>

Reuse(r, c) ==
    /\ pc[r] = "idle"
    /\ \E k \in current : providers[k].config = c /\ Attach(r, c, k)
    /\ UNCHANGED <<providers, current>>

Build(r, c) ==
    /\ pc[r] = "idle"
    /\ \A k \in current : providers[k].config # c
    /\ Len(providers) < MaxProviders
    /\ providers' = Append(providers,
            [config |-> c, token |-> 0, expires_at |-> 0, lock |-> NoRequest])
    /\ current' = {Len(providers) + 1}
    /\ Attach(r, c, Len(providers) + 1)

(* build_client_credentials raises (a setting is missing, or a secret does *)
(* not resolve) when the old providers are gone already; nobody connects.  *)
BuildFails(c) ==
    /\ \A k \in current : providers[k].config # c
    /\ current' = {}
    /\ UNCHANGED <<now, providers, tokens, pc, job>>

-----------------------------------------------------------------------------
(* _get_token *)

Mine(r) == providers[job[r].provider]

(* The cached token does, and this is no retry. *)
CacheServes(r) ==
    /\ ~job[r].force
    /\ Mine(r).token # 0
    /\ now < Mine(r).expires_at

AtLock(r) == pc[r] = "lock" /\ Mine(r).lock = NoRequest

TakeCached(r) ==
    /\ AtLock(r)
    /\ CacheServes(r)
    /\ job' = [job EXCEPT ![r].token = Mine(r).token, ![r].cached = TRUE, ![r].at = now]
    /\ Goto(r, "sent")
    /\ UNCHANGED <<now, providers, current, tokens>>

(* Fault: the token is fetched outside the lock. *)
BugBeginFetch(r) ==
    /\ pc[r] = "lock"
    /\ ~CacheServes(r)
    /\ Goto(r, "fetch")
    /\ UNCHANGED <<now, providers, current, tokens, job>>

BeginFetch(r) ==
    /\ AtLock(r)
    /\ ~CacheServes(r)
    /\ providers' = [providers EXCEPT ![job[r].provider].lock = r]
    /\ Goto(r, "fetch")
    /\ UNCHANGED <<now, current, tokens, job>>

(* The endpoint answers with a new token; the answer is on its way.        *)
Issue(r) ==
    /\ pc[r] = "fetch"
    /\ Len(tokens) < MaxTokens
    /\ \E life \in Lifetimes \cup {Untold} :
        tokens' = Append(tokens, [config |-> Mine(r).config, at |-> now, life |-> life])
    /\ job' = [job EXCEPT ![r].token = Len(tokens) + 1, ![r].cached = FALSE]
    /\ Goto(r, "answer")
    /\ UNCHANGED <<now, providers, current>>

(* Fault: the token is kept until it expires. *)
BugKeepFor(token) == IF token.life = Untold THEN Default ELSE token.life

(* max(lifetime - _EXPIRY_SKEW_SECONDS, 0) *)
KeepFor(token) ==
    LET lifetime == IF token.life = Untold THEN Default ELSE token.life
    IN  IF lifetime > Skew THEN lifetime - Skew ELSE 0

Receive(r) ==
    /\ pc[r] = "answer"
    /\ providers' = [providers EXCEPT ![job[r].provider] =
                        [@ EXCEPT !.token = job[r].token,
                                  !.expires_at = now + KeepFor(tokens[job[r].token]),
                                  !.lock = NoRequest]]
    /\ Goto(r, "sent")
    /\ UNCHANGED <<now, current, tokens, job>>

(* Fault: the lock is not released when the fetch raises. *)
BugFetchFails(r) ==
    /\ pc[r] \in {"fetch", "answer"}
    /\ End(r)
    /\ UNCHANGED <<now, providers, current, tokens>>

(* An error status, no usable access_token, a timeout, or a cancellation:  *)
(* the request fails, the cache stays as it was.                           *)
FetchFails(r) ==
    /\ pc[r] \in {"fetch", "answer"}
    /\ providers' = [providers EXCEPT ![job[r].provider].lock = NoRequest]
    /\ End(r)
    /\ UNCHANGED <<now, current, tokens>>

-----------------------------------------------------------------------------
(* async_auth_flow *)

(* Fault: the retry does not force a refresh. *)
BugUnauthorized(r) ==
    /\ pc[r] = "sent"
    /\ job[r].refused = 0
    /\ job' = [job EXCEPT ![r].refused = job[r].token, ![r].issued = Len(tokens)]
    /\ Goto(r, "lock")
    /\ UNCHANGED <<now, providers, current, tokens>>

(* The first 401, for whatever reason the upstream has.                    *)
Unauthorized(r) ==
    /\ pc[r] = "sent"
    /\ ~job[r].force
    /\ job' = [job EXCEPT ![r].force = TRUE, ![r].refused = job[r].token,
                          ![r].issued = Len(tokens)]
    /\ Goto(r, "lock")
    /\ UNCHANGED <<now, providers, current, tokens>>

(* Any other answer, or a second 401, is the caller's. *)
Answered(r) ==
    /\ pc[r] = "sent"
    /\ End(r)
    /\ UNCHANGED <<now, providers, current, tokens>>

(* A request is cancelled while it waits for the lock. *)
CancelWaiting(r) ==
    /\ pc[r] = "lock"
    /\ End(r)
    /\ UNCHANGED <<now, providers, current, tokens>>

(* The next request of a session keeps its provider, current or not.       *)
NextRequest(r) ==
    /\ pc[r] = "ended"
    /\ Goto(r, "lock")
    /\ UNCHANGED <<now, providers, current, tokens, job>>

Disconnect(r) ==
    /\ pc[r] = "ended"
    /\ Goto(r, "idle")
    /\ job' = [job EXCEPT ![r] = Fresh(NoConfig, 0)]
    /\ UNCHANGED <<now, providers, current, tokens>>

(* An answer that was sent arrives within the timeout or not at all.       *)
Tick ==
    /\ now < MaxTime
    /\ \A r \in Requests : pc[r] = "answer" => now - tokens[job[r].token].at < Timeout
    /\ now' = now + 1
    /\ UNCHANGED <<providers, current, tokens, pc, job>>

Step(r) == Issue(r) \/ Receive(r) \/ FetchFails(r) \/ Unauthorized(r) \/ Answered(r)

Enter(r) == TakeCached(r) \/ BeginFetch(r)

Next ==
    \/ \E r \in Requests, c \in Configs : Reuse(r, c) \/ Build(r, c)
    \/ \E c \in Configs : BuildFails(c)
    \/ \E r \in Requests : Enter(r) \/ Step(r) \/ CancelWaiting(r)
                        \/ NextRequest(r) \/ Disconnect(r)
    \/ Tick

Spec == Init /\ [][Next]_vars

(* The endpoint answers or the client times out; asyncio.Lock wakes its    *)
(* waiters in turn.                                                        *)
FairSpec == Spec /\ \A r \in Requests : WF_vars(Step(r)) /\ SF_vars(Enter(r))

-----------------------------------------------------------------------------
(* Properties *)

(* A token taken from the cache is not expired when it is taken, whatever  *)
(* time the endpoint's answer took: the skew is longer than the timeout.   *)
(* (Only when the endpoint says how long it lives.)                        *)
CachedIsUnexpired ==
    \A r \in Requests :
        pc[r] = "sent" /\ job[r].cached /\ tokens[job[r].token].life # Untold =>
            job[r].at < tokens[job[r].token].at + tokens[job[r].token].life

(* A request carries a token that was issued to the configuration it was   *)
(* mounted with, though mounts of before and after a change of the         *)
(* credentials take turns to drop each other's provider.                   *)
OwnCredentials ==
    \A r \in Requests : pc[r] = "sent" => tokens[job[r].token].config = job[r].config

(* The retry after a 401 carries a token issued after that 401, not one    *)
(* another request had refreshed before.                                   *)
RetryIsNew ==
    \A r \in Requests : pc[r] = "sent" /\ job[r].refused # 0 => job[r].token > job[r].issued

(* A provider's cache never goes back to a token issued earlier: fetches   *)
(* do not overtake each other.                                             *)
CacheAdvances ==
    [][\A k \in DOMAIN providers : providers'[k].token >= providers[k].token]_vars

(* Every request is answered or fails: no fetch leaves the lock taken.     *)
RequestsEnd == \A r \in Requests : pc[r] = "lock" ~> pc[r] = "ended"
=============================================================================
