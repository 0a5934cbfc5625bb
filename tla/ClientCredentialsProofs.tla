----------------------- MODULE ClientCredentialsProofs -----------------------
(***************************************************************************)
(* Theorems about ClientCredentials, for any requests, configurations,     *)
(* lifetimes and providers, as long as the skew covers the timeout.        *)
(***************************************************************************)
EXTENDS ClientCredentials, SequenceTheorems, TLAPS

(* What a request knows at each place of its flow. *)
Tied(r) ==
    /\ pc[r] \in {"idle", "ended"} => job[r].refused = 0
    /\ pc[r] # "idle" =>
        /\ job[r].provider \in 1..Len(providers)
        /\ providers[job[r].provider].config = job[r].config
    /\ job[r].force <=> job[r].refused # 0
    /\ job[r].issued <= Len(tokens)
    /\ pc[r] \in {"answer", "sent"} =>
        /\ job[r].token \in 1..Len(tokens)
        /\ tokens[job[r].token].config = job[r].config
        /\ job[r].refused # 0 => job[r].token > job[r].issued
    /\ pc[r] = "answer" =>
        /\ ~job[r].cached
        /\ now <= tokens[job[r].token].at + Timeout
        /\ providers[job[r].provider].token <= job[r].token
    /\ pc[r] = "sent" /\ job[r].cached /\ tokens[job[r].token].life # Untold =>
        job[r].at < tokens[job[r].token].at + tokens[job[r].token].life

(* What a provider has cached: a token of its own configuration, kept no   *)
(* longer than it lives unless the cache is already stale.                 *)
Cached(k) ==
    /\ providers[k].token \in 0..Len(tokens)
    /\ providers[k].token # 0 =>
        /\ tokens[providers[k].token].config = providers[k].config
        /\ tokens[providers[k].token].life # Untold =>
            \/ providers[k].expires_at <=
                 tokens[providers[k].token].at + tokens[providers[k].token].life
            \/ providers[k].expires_at <= now

World ==
    /\ now \in 0 .. MaxTime
    /\ providers \in Seq(Provider)
    /\ tokens \in Seq(Token)
    /\ pc \in [Requests -> {"idle", "lock", "fetch", "answer", "sent", "ended"}]
    /\ job \in [Requests -> Job]

(* The lock of a provider is held by the request that fetches for it.      *)
Locks ==
    \A k \in 1..Len(providers), r \in Requests :
        providers[k].lock = r <=> pc[r] \in {"fetch", "answer"} /\ job[r].provider = k

IInv ==
    /\ World
    /\ current \subseteq 1..Len(providers)
    /\ Locks
    /\ \A r \in Requests : Tied(r)
    /\ \A k \in 1..Len(providers) : Cached(k)

LEMMA TypedInv == IInv => TypeOK
  <1> SUFFICES ASSUME IInv PROVE TypeOK
    OBVIOUS
  <1>1. DOMAIN providers = 1..Len(providers)
    BY LenProperties DEF IInv, World
  <1> QED
    BY <1>1 DEF IInv, World, Locks, TypeOK

LEMMA FreshJob ==
    ASSUME NEW c \in Configs \cup {NoConfig}, NEW k \in Nat
    PROVE  /\ Fresh(c, k) \in Job
           /\ Fresh(c, k).config = c /\ Fresh(c, k).provider = k
           /\ Fresh(c, k).force = FALSE /\ Fresh(c, k).refused = 0 /\ Fresh(c, k).issued = 0
  BY DEF Fresh, Job

LEMMA Lengths ==
    ASSUME World
    PROVE  /\ Len(providers) \in Nat /\ Len(tokens) \in Nat /\ now \in Nat
           /\ \A k \in 1..Len(providers) :
                /\ providers[k] \in Provider
                /\ providers[k].config \in Configs
                /\ providers[k].token \in Nat /\ providers[k].expires_at \in Nat
           /\ \A i \in 1..Len(tokens) :
                /\ tokens[i] \in Token /\ tokens[i].config \in Configs
                /\ tokens[i].at \in Nat
                /\ tokens[i].life \in Nat \/ tokens[i].life = Untold
           /\ \A r \in Requests :
                /\ job[r] \in Job /\ job[r].token \in Nat /\ job[r].issued \in Nat
                /\ job[r].refused \in Nat /\ job[r].at \in Nat
                /\ job[r].force \in BOOLEAN /\ job[r].cached \in BOOLEAN
  <1>1. /\ Len(providers) \in Nat /\ Len(tokens) \in Nat
        /\ \A k \in 1..Len(providers) : providers[k] \in Provider
        /\ \A i \in 1..Len(tokens) : tokens[i] \in Token
    BY LenProperties, ElementOfSeq DEF World
  <1>2. \A k \in 1..Len(providers) :
          /\ providers[k].config \in Configs
          /\ providers[k].token \in Nat /\ providers[k].expires_at \in Nat
    BY <1>1 DEF Provider
  <1>3. \A i \in 1..Len(tokens) :
          /\ tokens[i].config \in Configs /\ tokens[i].at \in Nat
          /\ tokens[i].life \in Nat \/ tokens[i].life = Untold
    BY <1>1, CredentialsAssumption DEF Token
  <1>4. \A r \in Requests :
          /\ job[r] \in Job /\ job[r].token \in Nat /\ job[r].issued \in Nat
          /\ job[r].refused \in Nat /\ job[r].at \in Nat
          /\ job[r].force \in BOOLEAN /\ job[r].cached \in BOOLEAN
    BY DEF World, Job
  <1>5. now \in Nat
    BY DEF World
  <1> QED
    BY <1>1, <1>2, <1>3, <1>4, <1>5

LEMMA InvInit == Init => IInv
  <1> SUFFICES ASSUME Init PROVE IInv
    OBVIOUS
  <1>1. Fresh(NoConfig, 0) \in Job /\ Fresh(NoConfig, 0).refused = 0
        /\ Fresh(NoConfig, 0).force = FALSE /\ Fresh(NoConfig, 0).issued = 0
    BY DEF Fresh, Job
  <1>2. <<>> \in Seq(Provider) /\ <<>> \in Seq(Token) /\ Len(<<>>) = 0
    BY EmptySeq
  <1>3. World /\ current \subseteq 1..Len(providers)
    BY <1>1, <1>2, CredentialsAssumption DEF Init, World
  <1>4. Locks /\ \A k \in 1..Len(providers) : Cached(k)
    BY <1>2 DEF Init, Locks
  <1>5. ASSUME NEW r \in Requests PROVE Tied(r)
    <2>1. pc[r] = "idle" /\ job[r] = Fresh(NoConfig, 0) /\ Len(tokens) = 0
      BY <1>2 DEF Init
    <2> QED
      BY <1>1, <2>1 DEF Tied
  <1> QED
    BY <1>3, <1>4, <1>5 DEF IInv

-----------------------------------------------------------------------------
(* Providers keep their configuration, and tokens stay as issued.          *)
Onward ==
    /\ Len(providers) <= Len(providers')
    /\ \A k \in 1..Len(providers) : providers'[k].config = providers[k].config
    /\ Len(tokens) <= Len(tokens')
    /\ \A i \in 1..Len(tokens) : tokens'[i] = tokens[i]

LEMMA TiedKept ==
    ASSUME IInv, World', Onward, now' = now, NEW q \in Requests,
           job'[q] = job[q], pc'[q] = pc[q],
           pc[q] = "answer" =>
               providers'[job[q].provider].token = providers[job[q].provider].token
    PROVE  Tied(q)'
  <1>1. /\ Len(providers) \in Nat /\ Len(tokens) \in Nat
        /\ Len(providers') \in Nat /\ Len(tokens') \in Nat
        /\ job[q].issued \in Nat /\ job[q].token \in Nat
    BY Lengths, LenProperties DEF IInv, World
  <1>2. Tied(q)
    BY DEF IInv
  <1> QED
    BY <1>1, <1>2 DEF Onward, Tied

LEMMA CachedKept ==
    ASSUME IInv, World', Onward, now' >= now, NEW k \in 1..Len(providers),
           providers'[k].token = providers[k].token,
           providers'[k].expires_at = providers[k].expires_at
    PROVE  Cached(k)'
  <1>1. /\ Len(providers) \in Nat /\ Len(tokens) \in Nat /\ Len(tokens') \in Nat
        /\ now \in Nat /\ now' \in Nat
        /\ providers[k].token \in Nat /\ providers[k].expires_at \in Nat
    BY Lengths, LenProperties DEF IInv, World
  <1>2. Cached(k)
    BY DEF IInv
  <1> QED
    BY <1>1, <1>2 DEF Onward, Cached

(* A step that leaves clock, providers and tokens alone. *)
LEMMA OneRequest ==
    ASSUME IInv, UNCHANGED <<now, providers, current, tokens>>, NEW r \in Requests,
           NEW place \in {"idle", "lock", "fetch", "answer", "sent", "ended"},
           NEW new \in Job,
           pc' = [pc EXCEPT ![r] = place], job' = [job EXCEPT ![r] = new],
           pc[r] \notin {"fetch", "answer"}, place \notin {"fetch", "answer"},
           Tied(r)'
    PROVE  IInv'
  <1>1. World'
    BY DEF IInv, World
  <1>2. Onward
    BY Lengths DEF IInv, Onward
  <1>3. \A q \in Requests : Tied(q)'
    BY <1>1, <1>2, TiedKept DEF IInv, World
  <1>4. \A k \in 1..Len(providers) : Cached(k)'
    BY <1>1, <1>2, CachedKept, Lengths DEF IInv
  <1>5. Locks'
    BY DEF IInv, World, Locks
  <1> QED
    BY <1>1, <1>3, <1>4, <1>5 DEF IInv

(* A step that changes one provider and not its configuration. *)
LEMMA OneProvider ==
    ASSUME IInv, UNCHANGED <<now, current, tokens>>, NEW r \in Requests,
           NEW place \in {"idle", "lock", "fetch", "answer", "sent", "ended"},
           NEW new \in Job, new.provider = job[r].provider,
           pc' = [pc EXCEPT ![r] = place], job' = [job EXCEPT ![r] = new],
           pc[r] # "idle",
           NEW value \in Provider,
           providers' = [providers EXCEPT ![job[r].provider] = value],
           value.config = providers[job[r].provider].config,
           Mine(r).lock \in {r, NoRequest},
           value.lock = IF place \in {"fetch", "answer"} THEN r ELSE NoRequest,
           Tied(r)', Cached(job[r].provider)'
    PROVE  IInv'
  <1> DEFINE k == job[r].provider
  <1>1. k \in 1..Len(providers)
    BY DEF IInv, Tied
  <1>2. /\ providers' \in Seq(Provider) /\ Len(providers') = Len(providers)
        /\ \A j \in 1..Len(providers) : providers'[j] = IF j = k THEN value ELSE providers[j]
    BY <1>1, ExceptSeq DEF IInv, World
  <1>3. World' /\ Onward
    BY <1>2, Lengths DEF IInv, World, Onward
  <1>4. ASSUME NEW q \in Requests \ {r} PROVE Tied(q)'
    <2>1. pc[q] = "answer" => job[q].provider # k
      BY <1>1, CredentialsAssumption DEF IInv, Locks, Mine
    <2>2. pc[q] = "answer" => job[q].provider \in 1..Len(providers)
      BY DEF IInv, Tied
    <2>3. job'[q] = job[q] /\ pc'[q] = pc[q]
      BY DEF IInv, World
    <2> QED
      BY <1>2, <1>3, <2>1, <2>2, <2>3, TiedKept
  <1>5. ASSUME NEW j \in 1..Len(providers), j # k PROVE Cached(j)'
    BY <1>2, <1>3, <1>5, CachedKept, Lengths DEF IInv
  <1>6. Locks'
    <2>1. ASSUME NEW j \in 1..Len(providers), NEW q \in Requests
          PROVE  providers'[j].lock = q <=> pc'[q] \in {"fetch", "answer"} /\ job'[q].provider = j
      <3>1. CASE q = r
        <4>1. pc'[q] = place /\ job'[q].provider = k
          BY <3>1 DEF IInv, World
        <4>2. CASE j = k
          BY <1>2, <3>1, <4>1, <4>2, CredentialsAssumption
        <4>3. CASE j # k
          <5>1. providers[j].lock # r
            BY <4>3 DEF IInv, Locks
          <5> QED
            BY <1>2, <3>1, <4>1, <4>3, <5>1
        <4> QED
          BY <4>2, <4>3
      <3>2. CASE q # r
        <4>1. pc'[q] = pc[q] /\ job'[q] = job[q]
          BY <3>2 DEF IInv, World
        <4>2. CASE j = k
          <5>1. providers[k].lock # q
            BY <3>2, CredentialsAssumption DEF Mine
          <5>2. value.lock # q
            BY <3>2, CredentialsAssumption
          <5> QED
            BY <1>1, <1>2, <4>1, <4>2, <5>1, <5>2 DEF IInv, Locks
        <4>3. CASE j # k
          BY <1>2, <4>1, <4>3 DEF IInv, Locks
        <4> QED
          BY <4>2, <4>3
      <3> QED
        BY <3>1, <3>2
    <2> QED
      BY <1>2, <2>1 DEF Locks
  <1> QED
    BY <1>2, <1>3, <1>4, <1>5, <1>6 DEF IInv

-----------------------------------------------------------------------------
(* One lemma per action. *)

LEMMA AtReuse ==
    ASSUME IInv, NEW r \in Requests, NEW c \in Configs, Reuse(r, c)
    PROVE  IInv'
  <1>1. PICK k \in current : providers[k].config = c /\ Attach(r, c, k)
    BY DEF Reuse
  <1>2. k \in 1..Len(providers) /\ k \in Nat
    BY <1>1, Lengths DEF IInv
  <1>3. /\ pc[r] = "idle" /\ UNCHANGED <<now, providers, current, tokens>>
        /\ pc' = [pc EXCEPT ![r] = "lock"] /\ job' = [job EXCEPT ![r] = Fresh(c, k)]
    BY <1>1 DEF Reuse, Attach, Goto
  <1>4. pc'[r] = "lock" /\ job'[r] = Fresh(c, k)
    BY <1>3 DEF IInv, World
  <1>5. Fresh(c, k) \in Job
    BY <1>2, FreshJob
  <1>6. Tied(r)'
    BY <1>1, <1>2, <1>3, <1>4, Lengths DEF IInv, Tied, Fresh
  <1> QED
    BY <1>3, <1>5, <1>6, OneRequest

LEMMA AtBuild ==
    ASSUME IInv, NEW r \in Requests, NEW c \in Configs, Build(r, c)
    PROVE  IInv'
  <1> DEFINE k == Len(providers) + 1
             new == [config |-> c, token |-> 0, expires_at |-> 0, lock |-> NoRequest]
  <1>1. /\ pc[r] = "idle" /\ UNCHANGED <<now, tokens>>
        /\ providers' = Append(providers, new) /\ current' = {k}
        /\ pc' = [pc EXCEPT ![r] = "lock"] /\ job' = [job EXCEPT ![r] = Fresh(c, k)]
    BY DEF Build, Attach, Goto
  <1>2. Len(providers) \in Nat /\ k \in Nat /\ new \in Provider
    BY Lengths DEF IInv, Provider
  <1>3. /\ providers' \in Seq(Provider) /\ Len(providers') = k
        /\ \A j \in 1..Len(providers) : providers'[j] = providers[j]
        /\ providers'[k] = new
    BY <1>1, <1>2, AppendProperties DEF IInv, World
  <1>4. /\ Fresh(c, k) \in Job /\ Fresh(c, k).provider = k /\ Fresh(c, k).config = c
        /\ Fresh(c, k).force = FALSE /\ Fresh(c, k).refused = 0 /\ Fresh(c, k).issued = 0
    BY <1>2 DEF Fresh, Job
  <1>5. /\ pc'[r] = "lock" /\ job'[r] = Fresh(c, k)
        /\ \A q \in Requests \ {r} : pc'[q] = pc[q] /\ job'[q] = job[q]
    BY <1>1 DEF IInv, World
  <1>6. World'
    BY <1>1, <1>3, <1>4 DEF IInv, World
  <1>7. Onward
    BY <1>1, <1>2, <1>3, Lengths DEF IInv, Onward
  <1>8. ASSUME NEW q \in Requests PROVE Tied(q)'
    <2>1. CASE q = r
      BY <1>1, <1>2, <1>3, <1>4, <1>5, <2>1, Lengths DEF IInv, Tied
    <2>2. CASE q # r
      <3>1. pc[q] = "answer" => job[q].provider \in 1..Len(providers)
        BY DEF IInv, Tied
      <3> QED
        BY <1>1, <1>3, <1>5, <1>6, <1>7, <2>2, <3>1, TiedKept
    <2> QED
      BY <2>1, <2>2
  <1>9. ASSUME NEW j \in 1..Len(providers') PROVE Cached(j)'
    <2>1. CASE j = k
      BY <1>1, <1>3, <2>1, Lengths DEF IInv, Cached
    <2>2. CASE j \in 1..Len(providers)
      BY <1>1, <1>3, <1>6, <1>7, <2>2, CachedKept, Lengths DEF IInv
    <2> QED
      BY <1>2, <1>3, <2>1, <2>2
  <1>10. ASSUME NEW j \in 1..Len(providers'), NEW q \in Requests
         PROVE  providers'[j].lock = q <=> pc'[q] \in {"fetch", "answer"} /\ job'[q].provider = j
    <2>1. CASE j = k
      <3>1. providers'[j].lock # q
        BY <1>3, <2>1, CredentialsAssumption
      <3>2. pc'[q] \in {"fetch", "answer"} => job'[q].provider # k
        BY <1>2, <1>5 DEF IInv, Tied
      <3> QED
        BY <2>1, <3>1, <3>2
    <2>2. CASE j \in 1..Len(providers)
      <3>1. providers[j].lock = q <=> pc[q] \in {"fetch", "answer"} /\ job[q].provider = j
        BY <2>2 DEF IInv, Locks
      <3> QED
        BY <1>1, <1>3, <1>5, <2>2, <3>1
    <2> QED
      BY <1>2, <1>3, <2>1, <2>2
  <1> QED
    <2>1. Locks' /\ (\A q \in Requests : Tied(q)') /\ \A j \in 1..Len(providers') : Cached(j)'
      BY <1>8, <1>9, <1>10 DEF Locks
    <2>2. current' \subseteq 1..Len(providers')
      BY <1>1, <1>2, <1>3
    <2> QED
      BY <1>6, <2>1, <2>2 DEF IInv

LEMMA AtTakeCached ==
    ASSUME IInv, NEW r \in Requests, TakeCached(r)
    PROVE  IInv'
  <1> DEFINE k == job[r].provider
             new == [job[r] EXCEPT !.token = Mine(r).token, !.cached = TRUE, !.at = now]
  <1>1. /\ pc[r] = "lock" /\ UNCHANGED <<now, providers, current, tokens>>
        /\ ~job[r].force /\ Mine(r).token # 0 /\ now < Mine(r).expires_at
        /\ pc' = [pc EXCEPT ![r] = "sent"] /\ job' = [job EXCEPT ![r] = new]
    BY DEF TakeCached, AtLock, CacheServes, Goto
  <1>2. k \in 1..Len(providers) /\ Mine(r) = providers[k]
    BY <1>1 DEF IInv, Tied, Mine
  <1>3. /\ new \in Job /\ new.config = job[r].config /\ new.provider = k
        /\ new.token = providers[k].token /\ new.cached /\ new.at = now
        /\ new.force = job[r].force /\ new.refused = job[r].refused
        /\ new.issued = job[r].issued
    <2>1. /\ job[r] \in Job /\ providers[k].token \in Nat /\ now \in Nat
      BY <1>2, Lengths DEF IInv
    <2> QED
      BY <1>2, <2>1 DEF Job
  <1>4. pc'[r] = "sent" /\ job'[r] = new
    BY <1>1 DEF IInv, World
  <1>5. Tied(r)'
    <2>1. Cached(k) /\ Tied(r)
      BY <1>2 DEF IInv
    <2>2. /\ Len(tokens) \in Nat /\ now \in Nat /\ Len(providers) \in Nat
          /\ providers[k].token \in Nat /\ providers[k].expires_at \in Nat
      BY <1>2, Lengths DEF IInv
    <2>3. providers[k].token \in 1..Len(tokens)
      BY <1>1, <1>2, <2>1, <2>2 DEF Cached
    <2>4. tokens[providers[k].token].at \in Nat
          /\ (tokens[providers[k].token].life \in Nat \/ tokens[providers[k].token].life = Untold)
      BY <2>3, Lengths DEF IInv
    <2>5. job[r].refused = 0 /\ ~new.force /\ new.refused = 0
      BY <1>1, <1>3, <2>1 DEF Tied
    <2>6. tokens[providers[k].token].life # Untold =>
            now < tokens[providers[k].token].at + tokens[providers[k].token].life
      <3>1. tokens[providers[k].token].life # Untold =>
              \/ providers[k].expires_at <=
                   tokens[providers[k].token].at + tokens[providers[k].token].life
              \/ providers[k].expires_at <= now
        BY <1>1, <1>2, <2>1 DEF Cached
      <3>2. now < providers[k].expires_at
        BY <1>1, <1>2
      <3> QED
        BY <2>2, <2>4, <3>1, <3>2
    <2>7. tokens[providers[k].token].config = job[r].config
      BY <1>1, <1>2, <2>1 DEF Cached, Tied
    <2>8. providers[k].config = job[r].config /\ job[r].issued <= Len(tokens)
      BY <1>1, <2>1 DEF Tied
    <2> HIDE DEF new
    <2> QED
      BY <1>1, <1>2, <1>3, <1>4, <2>3, <2>5, <2>6, <2>7, <2>8 DEF Tied
  <1> QED
    BY <1>1, <1>3, <1>5, OneRequest

LEMMA Refused ==
    ASSUME NEW j \in Job, NEW n \in Nat,
           NEW new, new = [j EXCEPT !.force = TRUE, !.refused = j.token, !.issued = n]
    PROVE  /\ new \in Job /\ new.config = j.config /\ new.provider = j.provider
           /\ new.force = TRUE /\ new.refused = j.token /\ new.issued = n
  BY DEF Job

LEMMA AtUnauthorized ==
    ASSUME IInv, NEW r \in Requests, Unauthorized(r)
    PROVE  IInv'
  <1> DEFINE new == [job[r] EXCEPT !.force = TRUE, !.refused = job[r].token,
                                   !.issued = Len(tokens)]
  <1>1. /\ pc[r] = "sent" /\ UNCHANGED <<now, providers, current, tokens>>
        /\ pc' = [pc EXCEPT ![r] = "lock"] /\ job' = [job EXCEPT ![r] = new]
    BY DEF Unauthorized, Goto
  <1>2. /\ new \in Job /\ new.config = job[r].config /\ new.provider = job[r].provider
        /\ new.force = TRUE /\ new.refused = job[r].token /\ new.issued = Len(tokens)
    <2>1. job[r] \in Job /\ job[r].token \in Nat /\ Len(tokens) \in Nat
      BY Lengths DEF IInv
    <2> QED
      BY <2>1, Refused
  <1>3. pc'[r] = "lock" /\ job'[r] = new
    BY <1>1 DEF IInv, World
  <1>4. Tied(r)'
    BY <1>1, <1>2, <1>3, Lengths DEF IInv, Tied
  <1> QED
    BY <1>1, <1>2, <1>4, OneRequest

(* A request that is over keeps its provider and forgets the rest.         *)
LEMMA Ended ==
    ASSUME IInv, NEW r \in Requests, pc[r] # "idle", End(r),
           UNCHANGED <<now, tokens>>, Len(providers') = Len(providers),
           providers'[job[r].provider].config = providers[job[r].provider].config
    PROVE  /\ Fresh(job[r].config, job[r].provider) \in Job
           /\ pc' = [pc EXCEPT ![r] = "ended"]
           /\ job' = [job EXCEPT ![r] = Fresh(job[r].config, job[r].provider)]
           /\ Fresh(job[r].config, job[r].provider).provider = job[r].provider
           /\ Tied(r)'
  <1> DEFINE new == Fresh(job[r].config, job[r].provider)
  <1>1. /\ new \in Job /\ new.config = job[r].config /\ new.provider = job[r].provider
        /\ new.force = FALSE /\ new.refused = 0 /\ new.issued = 0
    <2>1. job[r] \in Job
      BY Lengths DEF IInv
    <2> QED
      BY <2>1 DEF Fresh, Job
  <1>2. pc' = [pc EXCEPT ![r] = "ended"] /\ job' = [job EXCEPT ![r] = new]
    BY DEF End, Goto
  <1>3. pc'[r] = "ended" /\ job'[r] = new
    BY <1>2 DEF IInv, World
  <1>4. Tied(r)'
    <2>1. Len(tokens) \in Nat
      BY Lengths DEF IInv
    <2> QED
      BY <1>1, <1>3, <2>1 DEF IInv, Tied
  <1> QED
    BY <1>1, <1>2, <1>4

LEMMA AtEnd ==
    ASSUME IInv, NEW r \in Requests, Answered(r) \/ CancelWaiting(r)
    PROVE  IInv'
  <1>1. /\ pc[r] \in {"sent", "lock"} /\ End(r)
        /\ UNCHANGED <<now, providers, current, tokens>>
    BY DEF Answered, CancelWaiting
  <1>2. /\ Fresh(job[r].config, job[r].provider) \in Job
        /\ pc' = [pc EXCEPT ![r] = "ended"]
        /\ job' = [job EXCEPT ![r] = Fresh(job[r].config, job[r].provider)]
        /\ Tied(r)'
    BY <1>1, Ended
  <1> QED
    BY <1>1, <1>2, OneRequest

LEMMA AtNextRequest ==
    ASSUME IInv, NEW r \in Requests, NextRequest(r)
    PROVE  IInv'
  <1>1. /\ pc[r] = "ended" /\ UNCHANGED <<now, providers, current, tokens>>
        /\ pc' = [pc EXCEPT ![r] = "lock"] /\ job' = [job EXCEPT ![r] = job[r]]
        /\ job' = job /\ job[r] \in Job
    BY Lengths DEF NextRequest, Goto, IInv, World
  <1>2. pc'[r] = "lock"
    BY <1>1 DEF IInv, World
  <1>3. Tied(r)'
    BY <1>1, <1>2 DEF IInv, Tied
  <1> QED
    BY <1>1, <1>3, OneRequest

LEMMA AtDisconnect ==
    ASSUME IInv, NEW r \in Requests, Disconnect(r)
    PROVE  IInv'
  <1>1. /\ pc[r] = "ended" /\ UNCHANGED <<now, providers, current, tokens>>
        /\ pc' = [pc EXCEPT ![r] = "idle"]
        /\ job' = [job EXCEPT ![r] = Fresh(NoConfig, 0)]
    BY DEF Disconnect, Goto
  <1>2. /\ Fresh(NoConfig, 0) \in Job /\ Fresh(NoConfig, 0).force = FALSE
        /\ Fresh(NoConfig, 0).refused = 0 /\ Fresh(NoConfig, 0).issued = 0
    BY DEF Fresh, Job
  <1>3. pc'[r] = "idle" /\ job'[r] = Fresh(NoConfig, 0)
    BY <1>1 DEF IInv, World
  <1>4. Tied(r)'
    BY <1>1, <1>2, <1>3, Lengths DEF IInv, Tied
  <1> QED
    BY <1>1, <1>2, <1>4, OneRequest

LEMMA AtBeginFetch ==
    ASSUME IInv, NEW r \in Requests, BeginFetch(r)
    PROVE  IInv'
  <1> DEFINE k == job[r].provider
             value == [Mine(r) EXCEPT !.lock = r]
  <1>1. /\ pc[r] = "lock" /\ UNCHANGED <<now, current, tokens, job>>
        /\ Mine(r).lock = NoRequest
        /\ pc' = [pc EXCEPT ![r] = "fetch"]
        /\ providers' = [providers EXCEPT ![k] = value]
    BY DEF BeginFetch, AtLock, Goto, Mine
  <1>2. k \in 1..Len(providers) /\ Mine(r) = providers[k] /\ job[r] \in Job
    BY <1>1, Lengths DEF IInv, Tied, Mine
  <1>3. /\ value \in Provider /\ value.config = providers[k].config /\ value.lock = r
        /\ value.token = providers[k].token /\ value.expires_at = providers[k].expires_at
    <2>1. Mine(r) \in Provider
      BY <1>2, Lengths DEF IInv
    <2> QED
      BY <1>2, <2>1 DEF Provider
  <1>4. /\ job' = [job EXCEPT ![r] = job[r]] /\ pc'[r] = "fetch" /\ job'[r] = job[r]
    BY <1>1 DEF IInv, World
  <1>5. /\ providers' \in Seq(Provider) /\ Len(providers') = Len(providers)
        /\ \A j \in 1..Len(providers) : providers'[j] = IF j = k THEN value ELSE providers[j]
    BY <1>1, <1>2, <1>3, ExceptSeq DEF IInv, World
  <1>6. Tied(r)'
    BY <1>1, <1>2, <1>3, <1>4, <1>5 DEF IInv, Tied
  <1>7. Cached(k)'
    BY <1>1, <1>2, <1>3, <1>5 DEF IInv, Cached
  <1> QED
    <2>1. Mine(r).lock \in {r, NoRequest} /\ pc[r] # "idle"
          /\ value.lock = IF "fetch" \in {"fetch", "answer"} THEN r ELSE NoRequest
      BY <1>1, <1>3
    <2> HIDE DEF value
    <2> QED
      BY <1>1, <1>2, <1>3, <1>4, <1>6, <1>7, <2>1, OneProvider

(* A request that is fetching holds the lock of its provider.              *)
LEMMA Holds ==
    ASSUME IInv, NEW r \in Requests, pc[r] \in {"fetch", "answer"}
    PROVE  /\ job[r].provider \in 1..Len(providers) /\ Mine(r) = providers[job[r].provider]
           /\ Mine(r) \in Provider /\ Mine(r).lock = r /\ job[r] \in Job
  <1>1. job[r].provider \in 1..Len(providers)
    BY DEF IInv, Tied
  <1> QED
    BY <1>1, Lengths DEF IInv, Locks, Mine

LEMMA AtFetchFails ==
    ASSUME IInv, NEW r \in Requests, FetchFails(r)
    PROVE  IInv'
  <1> DEFINE k == job[r].provider
             value == [Mine(r) EXCEPT !.lock = NoRequest]
  <1>1. /\ pc[r] \in {"fetch", "answer"} /\ UNCHANGED <<now, current, tokens>> /\ End(r)
        /\ providers' = [providers EXCEPT ![k] = value]
    BY DEF FetchFails, Mine
  <1>2. /\ k \in 1..Len(providers) /\ Mine(r) = providers[k]
        /\ Mine(r) \in Provider /\ Mine(r).lock = r
    BY <1>1, Holds
  <1>3. /\ value \in Provider /\ value.config = providers[k].config
        /\ value.lock = NoRequest
        /\ value.token = providers[k].token /\ value.expires_at = providers[k].expires_at
    BY <1>2 DEF Provider
  <1>4. /\ providers' \in Seq(Provider) /\ Len(providers') = Len(providers)
        /\ \A j \in 1..Len(providers) : providers'[j] = IF j = k THEN value ELSE providers[j]
    BY <1>1, <1>2, <1>3, ExceptSeq DEF IInv, World
  <1> HIDE DEF value
  <1>5. /\ Fresh(job[r].config, k) \in Job
        /\ pc' = [pc EXCEPT ![r] = "ended"]
        /\ job' = [job EXCEPT ![r] = Fresh(job[r].config, k)]
        /\ Fresh(job[r].config, k).provider = k
        /\ Tied(r)'
    BY <1>1, <1>2, <1>3, <1>4, Ended
  <1>6. Cached(k)'
    <2>1. Cached(k) /\ job'[r].provider = k
      BY <1>2, <1>5 DEF IInv, World
    <2> QED
      BY <1>1, <1>2, <1>3, <1>4, <2>1 DEF Cached
  <1> QED
    <2>1. Mine(r).lock \in {r, NoRequest} /\ pc[r] # "idle"
          /\ value.lock = IF "ended" \in {"fetch", "answer"} THEN r ELSE NoRequest
      BY <1>1, <1>2, <1>3
    <2> QED
      BY <1>1, <1>2, <1>3, <1>5, <1>6, <2>1, OneProvider

LEMMA AtIssue ==
    ASSUME IInv, NEW r \in Requests, Issue(r)
    PROVE  IInv'
  <1> DEFINE k == job[r].provider
             n == Len(tokens) + 1
             new == [job[r] EXCEPT !.token = n, !.cached = FALSE]
  <1>1. /\ pc[r] = "fetch" /\ UNCHANGED <<now, providers, current>>
        /\ pc' = [pc EXCEPT ![r] = "answer"] /\ job' = [job EXCEPT ![r] = new]
    BY DEF Issue, Goto
  <1>2. /\ k \in 1..Len(providers) /\ Mine(r) = providers[k] /\ job[r] \in Job
        /\ providers[k].config = job[r].config /\ providers[k].config \in Configs
    BY <1>1, Holds, Lengths DEF IInv, Tied
  <1>3. PICK life \in Lifetimes \cup {Untold} :
            tokens' = Append(tokens, [config |-> Mine(r).config, at |-> now, life |-> life])
    BY DEF Issue
  <1> DEFINE issued == [config |-> Mine(r).config, at |-> now, life |-> life]
  <1>4. /\ Len(tokens) \in Nat /\ now \in Nat /\ n \in Nat /\ issued \in Token
        /\ issued.config = job[r].config /\ issued.at = now
    BY <1>2, Lengths DEF IInv, Token
  <1>5. /\ tokens' \in Seq(Token) /\ Len(tokens') = n
        /\ \A i \in 1..Len(tokens) : tokens'[i] = tokens[i]
        /\ tokens'[n] = issued
    BY <1>3, <1>4, AppendProperties DEF IInv, World
  <1>6. /\ new \in Job /\ new.config = job[r].config /\ new.provider = k
        /\ new.token = n /\ ~new.cached
        /\ new.force = job[r].force /\ new.refused = job[r].refused
        /\ new.issued = job[r].issued
    BY <1>2, <1>4 DEF Job
  <1> HIDE DEF new, issued
  <1>7. /\ pc'[r] = "answer" /\ job'[r] = new
        /\ \A q \in Requests \ {r} : pc'[q] = pc[q] /\ job'[q] = job[q]
    BY <1>1 DEF IInv, World
  <1>8. World'
    BY <1>1, <1>5, <1>6 DEF IInv, World
  <1>9. Onward
    BY <1>1, <1>4, <1>5, Lengths DEF IInv, Onward
  <1>10. ASSUME NEW q \in Requests PROVE Tied(q)'
    <2>1. CASE q = r
      <3>1. /\ Tied(r) /\ Cached(k) /\ Timeout \in Nat /\ providers[k].token \in Nat
            /\ job[r].issued \in Nat
        BY <1>2, CredentialsAssumption, Lengths DEF IInv
      <3>2. providers[k].token <= n /\ job[r].issued < n
        BY <1>4, <3>1 DEF Cached, Tied
      <3>3. (job[r].force <=> job[r].refused # 0) /\ job[r].issued <= Len(tokens)
        BY <3>1 DEF Tied
      <3> QED
        BY <1>1, <1>2, <1>4, <1>5, <1>6, <1>7, <2>1, <3>1, <3>2, <3>3 DEF Tied
    <2>2. CASE q # r
      BY <1>1, <1>7, <1>8, <1>9, <2>2, TiedKept
    <2> QED
      BY <2>1, <2>2
  <1>11. ASSUME NEW j \in 1..Len(providers) PROVE Cached(j)'
    BY <1>1, <1>8, <1>9, CachedKept, Lengths DEF IInv
  <1>12. Locks'
    BY <1>1, <1>2, <1>6, <1>7 DEF IInv, Locks
  <1> QED
    BY <1>1, <1>8, <1>10, <1>11, <1>12 DEF IInv

(* What is kept of a token stays below its life, if the skew covers the    *)
(* time its answer took.                                                   *)
LEMMA Kept ==
    ASSUME NEW token, token.at \in Nat, NEW m \in Nat, m <= token.at + Timeout,
           token.life \in Nat \/ token.life = Untold
    PROVE  /\ KeepFor(token) \in Nat
           /\ token.life # Untold =>
                  m + KeepFor(token) <= token.at + token.life \/ m + KeepFor(token) <= m
  <1>1. /\ Default \in Nat /\ Skew \in Nat /\ Timeout \in Nat /\ Timeout <= Skew
    BY CredentialsAssumption
  <1>2. CASE token.life = Untold
    BY <1>1, <1>2 DEF KeepFor
  <1>3. CASE token.life # Untold
    BY <1>1, <1>3 DEF KeepFor
  <1> QED
    BY <1>2, <1>3

LEMMA AtReceive ==
    ASSUME IInv, NEW r \in Requests, Receive(r)
    PROVE  IInv'
  <1> DEFINE k == job[r].provider
             t == job[r].token
             until == now + KeepFor(tokens[t])
             value == [Mine(r) EXCEPT !.token = t, !.expires_at = until, !.lock = NoRequest]
  <1>1. /\ pc[r] = "answer" /\ UNCHANGED <<now, current, tokens, job>>
        /\ pc' = [pc EXCEPT ![r] = "sent"]
        /\ providers' = [providers EXCEPT ![k] = value]
    BY DEF Receive, Goto, Mine
  <1>2. /\ k \in 1..Len(providers) /\ Mine(r) = providers[k] /\ Mine(r) \in Provider
        /\ Mine(r).lock = r /\ job[r] \in Job
    BY <1>1, Holds
  <1>3. /\ Tied(r) /\ now \in Nat /\ t \in Nat /\ t \in 1..Len(tokens)
        /\ now <= tokens[t].at + Timeout /\ ~job[r].cached
        /\ tokens[t].config = providers[k].config
    BY <1>1, Lengths DEF IInv, Tied
  <1>4. tokens[t].at \in Nat /\ (tokens[t].life \in Nat \/ tokens[t].life = Untold)
    BY <1>3, Lengths DEF IInv
  <1>5. /\ until \in Nat
        /\ tokens[t].life # Untold => until <= tokens[t].at + tokens[t].life \/ until <= now
    <2>1. /\ KeepFor(tokens[t]) \in Nat
          /\ tokens[t].life # Untold =>
               now + KeepFor(tokens[t]) <= tokens[t].at + tokens[t].life
               \/ now + KeepFor(tokens[t]) <= now
      BY <1>3, <1>4, Kept
    <2> QED
      BY <1>3, <2>1
  <1> HIDE DEF until
  <1>6. /\ value \in Provider /\ value.config = providers[k].config
        /\ value.lock = NoRequest /\ value.token = t /\ value.expires_at = until
    BY <1>2, <1>3, <1>5 DEF Provider
  <1> HIDE DEF value
  <1>7. /\ providers' \in Seq(Provider) /\ Len(providers') = Len(providers)
        /\ \A j \in 1..Len(providers) : providers'[j] = IF j = k THEN value ELSE providers[j]
    BY <1>1, <1>2, <1>6, ExceptSeq DEF IInv, World
  <1>8. job' = [job EXCEPT ![r] = job[r]] /\ pc'[r] = "sent" /\ job'[r] = job[r]
    BY <1>1 DEF IInv, World
  <1>9. Tied(r)'
    BY <1>1, <1>2, <1>3, <1>6, <1>7, <1>8 DEF Tied
  <1>10. Cached(k)'
    <2>1. providers'[k] = value /\ tokens' = tokens /\ now' = now /\ job' = job
      BY <1>1, <1>2, <1>7
    <2> QED
      BY <1>3, <1>5, <1>6, <2>1 DEF Cached
  <1> QED
    <2>1. Mine(r).lock \in {r, NoRequest} /\ pc[r] # "idle"
          /\ value.lock = IF "sent" \in {"fetch", "answer"} THEN r ELSE NoRequest
      BY <1>1, <1>2, <1>6
    <2> QED
      BY <1>1, <1>2, <1>6, <1>8, <1>9, <1>10, <2>1, OneProvider

LEMMA AtTick ==
    ASSUME IInv, Tick
    PROVE  IInv'
  <1>1. /\ now < MaxTime /\ now' = now + 1 /\ UNCHANGED <<providers, current, tokens, pc, job>>
        /\ \A r \in Requests : pc[r] = "answer" => now - tokens[job[r].token].at < Timeout
    BY DEF Tick
  <1>2. /\ now \in Nat /\ MaxTime \in Nat /\ Timeout \in Nat
    BY CredentialsAssumption, Lengths DEF IInv
  <1>3. World'
    BY <1>1, <1>2 DEF IInv, World
  <1>4. Onward
    BY <1>1, Lengths DEF IInv, Onward
  <1>5. ASSUME NEW r \in Requests PROVE Tied(r)'
    <2>1. Tied(r)
      BY DEF IInv
    <2>2. pc[r] = "answer" => now' <= tokens[job[r].token].at + Timeout
      <3>1. pc[r] = "answer" => tokens[job[r].token].at \in Nat
        BY <2>1, Lengths DEF IInv, Tied
      <3> QED
        BY <1>1, <1>2, <3>1
    <2> QED
      BY <1>1, <2>1, <2>2 DEF Tied
  <1>6. ASSUME NEW j \in 1..Len(providers) PROVE Cached(j)'
    BY <1>1, <1>2, <1>3, <1>4, CachedKept
  <1>7. Locks'
    BY <1>1 DEF IInv, Locks
  <1> QED
    BY <1>1, <1>3, <1>5, <1>6, <1>7 DEF IInv

LEMMA AtBuildFails ==
    ASSUME IInv, NEW c \in Configs, BuildFails(c)
    PROVE  IInv'
  <1>1. current' = {} /\ UNCHANGED <<now, providers, tokens, pc, job>>
    BY DEF BuildFails
  <1> QED
    BY <1>1 DEF IInv, World, Locks, Tied, Cached

LEMMA AtStutter == ASSUME IInv, UNCHANGED vars PROVE IInv'
  BY DEF IInv, World, Locks, Tied, Cached, vars

LEMMA InvStep == ASSUME IInv, [Next]_vars PROVE IInv'
  BY AtReuse, AtBuild, AtBuildFails, AtTakeCached, AtBeginFetch, AtIssue, AtReceive, AtFetchFails,
     AtUnauthorized, AtEnd, AtNextRequest, AtDisconnect, AtTick, AtStutter
     DEF Next, Enter, Step

LEMMA Invariant == Spec => []IInv
  <1>1. Init => IInv
    BY InvInit
  <1>2. IInv /\ [Next]_vars => IInv'
    BY InvStep
  <1> QED
    BY <1>1, <1>2, PTL DEF Spec

-----------------------------------------------------------------------------
(* A lock is held by the one request that fetches for its provider, and    *)
(* every variable keeps its type: asyncio.Lock around _get_token.          *)
THEOREM TypeCorrectness == Spec => []TypeOK
  BY Invariant, TypedInv, PTL

(* A token taken from the cache has not expired, however long the token    *)
(* endpoint took to answer: _EXPIRY_SKEW_SECONDS covers the timeout.       *)
THEOREM CachedLives == Spec => []CachedIsUnexpired
  <1>1. IInv => CachedIsUnexpired
    BY DEF IInv, Tied, CachedIsUnexpired
  <1> QED
    BY <1>1, Invariant, PTL

(* async_auth_flow sends a token issued to the configuration the server    *)
(* was mounted with, whichever providers the hook has dropped meanwhile.   *)
THEOREM CredentialsAreOwn == Spec => []OwnCredentials
  <1>1. IInv => OwnCredentials
    BY DEF IInv, Tied, OwnCredentials
  <1> QED
    BY <1>1, Invariant, PTL

(* The retry of async_auth_flow carries a token issued after the 401.      *)
THEOREM RetryRefreshes == Spec => []RetryIsNew
  <1>1. IInv => RetryIsNew
    BY DEF IInv, Tied, RetryIsNew
  <1> QED
    BY <1>1, Invariant, PTL

(* Under its lock _get_token never puts an older token over a newer one.   *)
THEOREM NoOvertaking == Spec => CacheAdvances
  <1> DEFINE Advances == \A k \in DOMAIN providers : providers'[k].token >= providers[k].token
  <1>1. ASSUME IInv, [Next]_vars PROVE [Advances]_vars
    <2>1. /\ providers \in Seq(Provider) /\ DOMAIN providers = 1..Len(providers)
          /\ \A k \in 1..Len(providers) : providers[k] \in Provider /\ providers[k].token \in Nat
      BY <1>1, LenProperties, Lengths DEF IInv, World
    <2>2. CASE UNCHANGED providers
      BY <2>1, <2>2
    <2>3. ASSUME NEW r \in Requests, NEW c \in Configs, Build(r, c) PROVE Advances
      BY <2>1, <2>3, AppendProperties DEF Build
    <2>4. ASSUME NEW r \in Requests, BeginFetch(r) \/ FetchFails(r) PROVE Advances
      <3>1. PICK place \in Requests \cup {NoRequest} :
              providers' = [providers EXCEPT ![job[r].provider].lock = place]
        BY <2>4 DEF BeginFetch, FetchFails
      <3> QED
        BY <2>1, <3>1 DEF Provider
    <2>5. ASSUME NEW r \in Requests, Receive(r) PROVE Advances
      <3>1. job[r].provider \in 1..Len(providers)
            /\ providers[job[r].provider].token <= job[r].token
        BY <1>1, <2>5 DEF Receive, IInv, Tied
      <3>2. job[r].token \in Nat
        BY <1>1, Lengths DEF IInv
      <3>3. \A k \in 1..Len(providers) :
              providers'[k].token =
                IF k = job[r].provider THEN job[r].token ELSE providers[k].token
        BY <2>1, <2>5, <3>1 DEF Receive, Provider
      <3> QED
        BY <2>1, <3>1, <3>2, <3>3
    <2> QED
      BY <1>1, <2>2, <2>3, <2>4, <2>5
         DEF Next, Enter, Step, Reuse, BuildFails, TakeCached, Issue, Unauthorized, Answered,
             CancelWaiting, NextRequest, Disconnect, Tick, Attach, vars
  <1> QED
    BY <1>1, Invariant, PTL DEF Spec, CacheAdvances
=============================================================================
