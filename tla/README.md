# A verification project for fast-mcp-gateway

fast-mcp-gateway (`src/src/fast_gateway/`) puts one MCP endpoint in front of many
upstream MCP servers. A registry of servers and groups lives in a store; from it
the gateway derives, in memory, an access policy and a set of mounted proxies, and,
in the store, a catalog of the tools the upstreams offer. Every tool call passes a
chain of hooks. All of it runs as coroutines of one asyncio event loop, so two
things only interleave at an `await`, and that is the grain of these models: **one
action is the code between two awaits**.

Paths below are relative to `src/src/fast_gateway/` unless they start with `src/`.

## 1. Inventory

| Component | State | Operations | Interacts with |
|---|---|---|---|
| Registry data (`models.py`) | `ServerRecord`, `GroupRecord`, `CatalogTool` | validation | every other part |
| Store contract (`store/base.py`), SQLite store (`store/sqlite.py`) | tables `servers`, `groups`, `catalog_tools`, the FTS5 index, one shared connection, `_write_lock` | create, update, delete, `replace_catalog`, `replace_server_catalog`, `list_*`, `search_catalog` | admin API, builder, list and search paths |
| Access policy (`access.py`) | rules by namespace, compiled groups | `rebuild`, `allows`, `filter_tools` | rebuilt by the builder, asked by middleware and search |
| Gateway builder (`builder.py`), introspection (`catalog.py`) | `_reload_lock`, the mounted providers | `rebuild_mounts`, `refresh_catalog`, `refresh_server`, `reload` | store, policy, upstreams |
| Assembly and lifespan (`app.py`) | phase of the process, startup task, plugins | startup in three modes, serving, shutdown | all |
| Admin API (`api/`) | none | CRUD, `reload`, `refresh` | store, builder |
| Hooks and middleware (`hooks.py`, `reference.py`) | per call: hook reached, arguments | `on_call_tool`, `on_list_tools`, `merge_hooks` | policy, user's hooks, upstream |
| Human in the loop (`plugins/hil/`) | `_approvals`, `_futures` | `create`, `wait`, `resolve`, `cancel_all`, JSON and HTML routes | a confirmation hook of the pipeline |
| OAuth (`plugins/oauth/`) | token, expiry and lock per provider; providers per server | token flow, provider cache | `pre_mcp_connect` |
| Connect (`connect.py`), secret references (`secret_refs.py`) | context variable of the runtime variables; environment and files | resolution of `${var:}`, `${env:}`, `${file:}`, layering of headers, timeout, auth | hooks, upstreams |
| Routing (`routing.py`), tools REST plugin (`plugins/tools_api/`), in-process client (`app.py`) | context variables: group, full catalog, runtime variables | bind, serve, restore | policy, pipeline, store |
| Search (`search.py`) | none | ranking, cap, policy filter, nested call | store, policy, pipeline |
| OAuth login (`plugins/oauth/plugin.py`) | token cache on disk, one directory per setting | login, logout, the daemon's provider per connection | configuration, upstreams |
| Configuration (`config.py`) | files of the user, environment | finding, creating, parsing, applying | `serve`, `login`, `logout` |
| Plugins (`plugins/__init__.py`) | those started | setup in order, teardown in reverse | lifespan, hooks |
| Command line (`cli.py`) | one process per command: ids looked up, exit code | name lookup, one write, reload | admin API |
| AgentOS plugin | none of the gateway's own | adapters | hooks |

Where it is hard, and what makes each part correct:

* **Builder.** Admin writes land between any two of its awaits, several operations
  are called at once, upstreams fail, the process dies. What is mounted must never
  go back to an older registry; policy and mounts must be those of one registry
  when nothing changed meanwhile; a server that fails must keep its last-known
  tools; nothing may be served before a policy exists; every operation must let the
  lock go.
* **Store.** Coroutines share one connection, hence one transaction. A write must
  be atomic against crashes, failing statements and other writers; what a write that
  raised leaves in the shared transaction must never be half a change; the search
  index must follow the table.
* **Policy.** What it compiles must be what the registry says, with groups only
  narrowing, for any globs, disabled servers and dangling member ids.
* **Pipeline.** Whatever hooks do, only a call that was permitted and confirmed may
  reach an upstream, with the arguments that were confirmed, and the audit hooks
  must hear of it.
* **OAuth client credentials.** Requests share a token cache and a lock, answers are
  late, an upstream refuses a token that did not expire, credentials change under
  sessions that are open. A request must carry a live token of its own
  configuration, and a retry one that is newer than the refusal.
* **Command line.** A command is several requests; other admins, timeouts and
  restarts come between them. Its exit code must not claim what is not served.
* **Requests.** Who a request is for travels in context variables, which every entry
  point binds and restores, also when requests nest or fail. A call or a listing must
  be judged for the group its own caller named, and an upstream sent that caller's
  variables, whatever the task served before. An MCP session serves all its requests in
  the scope of the one that opened it; nothing of another may get in.
* **Lifespan.** The store, the plugins and the builder's operations start and end one
  after another, any of them may raise, and the background refresh outlives the
  shutdown request. Nobody may work without what he works with, and everything that
  was started must be undone.
* **Files of one user.** Several processes share configuration and tokens without a
  lock. None may run with half a configuration; a login must reach the daemon, and a
  logout must hold.
* **Human in the loop.** Decision, timeout, cancellation and teardown race; only an
  approved call may go on, and two operators must not both be told they decided.

`PROJECT.json` lists every hazard at its line with the properties that would catch it.

## 2. Modules

| Module | Models | Proofs |
|---|---|---|
| `AccessPolicy` | `access.py`: `rebuild`, `allows`, `filter_tools` as operators | in `RequestScopeProofs` |
| `Search` (extends `AccessPolicy`) | `search.py`: the meta-tools as operators | in `RequestScopeProofs` |
| `RequestScope` (extends `Search`) | the way of a request through `routing.py`, `plugins/tools_api/`, the in-process client, policy, listing, search and `connect.py`, with the context variables it binds | `RequestScopeProofs` |
| `GatewayBuilder` (extends `AccessPolicy`) | `builder.py`, `catalog.py`, the admin writes, upstream changes | `GatewayBuilderProofs` |
| `Lifespan` (extends `GatewayBuilder`) | `app.py`'s lifespan and the plugin protocol around the builder's tasks | in `GatewayBuilderProofs` |
| `CatalogStore` | abstract: a store whose writes are atomic (`store/base.py`), and what a write that raised may leave behind | |
| `SqliteStore` | `store/sqlite.py` statement by statement: implements `CatalogStore` | `SqliteStoreProofs` |
| `Approval` | abstract: a gate that decides at most once and lets through only what was approved | |
| `PendingApprovals` | `plugins/hil/`: implements `Approval` | `PendingApprovalsProofs` |
| `HookPipeline` | `hooks.py`: `on_call_tool`, its confirmation hooks being `Approval` gates | `HookPipelineProofs` |
| `ClientCredentials` | `plugins/oauth/client_credentials.py`: provider dictionary, token cache, 401 retry | `ClientCredentialsProofs` |
| `AdminCli` | `cli.py`: every command that writes, against one gateway | `AdminCliProofs` |
| `LocalFiles` | `config.py`, `plugins/oauth/plugin.py`, `serve`, `login` and `logout`: the files the processes of one user share | `LocalFilesProofs` |
| `MC...` | the instances TLC checks | |

How they fit: `GatewayBuilder` takes a store with atomic writes; `SqliteStore` is
proved to give what `CatalogStore` says while no task is cancelled in the middle
of a write, and the violation `store_cancel` says where it ends. (That is atomic writes
but for one case: the whole change of a registry write that raises for want of a disk
or a lock may be read before it is on disk, and lost again. `GatewayBuilder` leaves
failures of the store out, see section 6.) `HookPipeline` is proved to keep
`Approval`'s promise for every confirmation it asks for, `PendingApprovals` to implement
it for every approval it is asked for. `HookPipeline` takes "the policy
permits this call" as a set that a reload changes at any time; `RequestScope` takes a
reload as one step and the pipeline as one judgement, and says what the set is and
for whom it is asked. `Lifespan` composes the steps of `GatewayBuilder` with those of
store and plugins: it adds when the builder's tasks may run at all.

### Correspondence with the code

* **`GatewayBuilder`.** `servers`, `groups`, `catalog` are the tables; `policy`,
  `mounts`, `lock` are `AccessPolicy`, the parent's providers and `_reload_lock`;
  `pc[t]`, `job[t]` are the program counter and the locals of the coroutine `t`.
  An operation is a path through `ListNames`, `LookupServer`, `ReadServers`,
  `RebuildMounts`, `ListForCatalog`, `Introspect`, `Retain`, `WriteCatalog`, one per
  await, and it ends in `Finish`, which frees the lock (`async with`). `listed`,
  `mounting`, `scan` are the three lists of servers `reload` reads, each at its own
  await: that is why they may differ. `Introspect` lets any subset of the enabled
  upstreams fail, and may never be taken; every other step waits for the store only
  (`StoreStep`). `WriteCatalog` has the primary key's error. `Boot`, `Serve` and
  `Stop` start the process, let it serve and end it at any point, which erases
  everything in memory; `Lifespan` says when each may happen. `writes` and
  `mountedAt` are history: the version of the registry, and the versions behind what
  is mounted.
* **`Lifespan`.** `stage` is where the lifespan's generator stands; `started` is its
  list of the same name, `running` the plugins that are up, `store` the connection.
  `Start`, `Yield` and `CancelRefresh` are `Boot`, `Serve` and `Stop` of the builder at
  their places, `Work` is what the builder's tasks do meanwhile. `SetUpRaises`,
  `StartRaises` and `TearDownRaises` are the exceptions, with the `finally` blocks they
  run through; `InitializeRaises` is the one before the `try`, which leaves the store as
  it happens to be (stage `failed`); `Die` is a kill. A stopped gateway is not entered
  again (its session manager cannot be), so the next start is a new process.
* **`RequestScope`.** `context[t]` holds the three context variables of a task,
  `frames[t]` the requests it is in, each with what its scope saved. `Enter` binds by
  entry point (`Scoped`): REST, `Gateway.call_tool`
  and `list_tools`, and `invoke_tool`'s nested call, which binds nothing. Over MCP the
  same is bound around the HTTP request, but the stateful session manager behind
  `http_app` runs a session's server in a copy of the context of the request that
  opened it: `OpenSession` keeps that context and its opener in `sessions`, `Continue`
  runs a later request of the session in it, whatever scope carried it there, and
  `EndSession` ends it. A frame's `scope` is the request whose scope it runs in:
  itself, or its session's opener. Then `Judge`
  (the policy check of `on_call_tool`), `Fetch` and `Filter` (a listing or search,
  which reads the store at one await and the policy at a later one), `Connect`
  (resolution), `RunConnectHook`, `Send`; `Abort` at any of them, and `Leave`, the
  `finally`. `Reload` changes registry and policy, `Rotate` a secret, at any time. A
  header's text is the set of references it embeds. Nesting needs no second context:
  a copy that is restored on every way out reads as the context itself, which
  `ScopesNest` confirms.
* **`LocalFiles`.** `files` holds a configuration, `Absent` or `Partial` (opened for
  writing, not closed) at each path; `proc[p]` is a process's program counter and
  locals, `oauth_dir` its environment variable. `Resolve`, `CreateDefault`,
  `WriteDefault`, `LoadConfig` are one access to a file each. `Cache(p, s)` is the
  entry a provider reads: directory and URL, not the server. `session[c]` is one
  connection of the daemon, which reads the cache once and writes it after a refresh.
  `whole`, `logged`, `gone`, `logouts` are history.
* **`AccessPolicy`.** A tool is a pair (namespace, bare name). `split_namespace`
  splits at the longest known namespace; server names have no underscore
  (`models.py`), so the pair is what it recovers. A pattern is the set of bare names
  it matches, which is all that `fnmatch` contributes.
* **`SqliteStore`.** `disk` is what is committed, `conn` what the shared connection
  sees, `lock` is `_write_lock`, `build` the SQLite the process runs with. Every
  `execute`, `executemany`, `commit` and `rollback` is an action; any statement of a
  catalog write may fail and is rolled back (`StatementFails`), any statement of a
  registry write, its commit included, may fail and is not (`RegistryWriteFails`);
  `Restart` drops the transaction and opens the file with the same build or another;
  reads take no lock. `Cancellable` says at which statements a task may be cancelled. A
  registry record is an id, a name and whether it would load again (`loads`), which is
  what the null patches break. `legacy` is history: rows older than the index. So is
  `left`: the registry as the last write left it for the store's own reads, which is
  what `CatalogStore` calls `visible`.
* **`PendingApprovals`.** A future's result and a timer only schedule the waiting
  task; `Expire` and `WakeExpired` are two steps so that a decision can fall between.
* **`HookPipeline`.** `pc`, `hook`, `confirmer` are where `on_call_tool` is. Each
  hook is the user's code and may return any result or raise. `hooks` holds how many
  hooks `merge_hooks` left in each seam and is chosen once. The other variables are
  history: who asked, what was shown, what was sent, who observed.

* **`ClientCredentials`.** `providers` are the `ClientCredentialsAuth` objects ever
  built, `current` the ones `attach` would find; a session keeps the object it was
  given, so a dropped one lives on. `_get_token` is `TakeCached` or `BeginFetch` (both
  at the lock), the round trip `Issue` and `Receive`: a token's life counts from
  `Issue`, the cache's from `Receive`. `Tick` is the clock. `BuildFails` is a connection
  whose provider cannot be built, after the old ones were dropped. The code has two
  requests per flow at most: `force` is its second pass. `tokens`, `refused`, `issued`,
  `cached` and `at` are history.
* **`AdminCli`.** One action per command (`Add`, `Remove`, ...) sends its first
  request; `ResolveTarget` and `ResolveMember` are `_resolve_group_id` and
  `_resolve_server_id`; `Written`, `Reloaded`, `Refused`, `GiveUp`, `ConnectFails`
  are the ways a request ends. `wire[p]` is the request or its answer: it outlives
  the process, for the gateway carries on after the client gave up. The gateway's
  handlers are one step each, a reload three: it reads the servers, then the groups and
  mounts, then answers. `version` and `wrote` are history.
* **`Search`.** Ranking is any order of the rows; what counts is that the cap comes
  before the policy filter and `limit` after it.

Some definitions are named `Bug...`: each is a variant of the definition after it
with one plausible programming error. No specification uses them; they show that a
property can fail (see `mutants` in `PROJECT.json`).

## 3. Runs

| Run | Instance | Shows |
|---|---|---|
| `request_scope` | 1 task, 15 requests from every entry point nested up to 3 deep, 2 MCP sessions that any of 3 of them may open, 2 servers, 2 names, groups `readers` and the empty name, 1 connect hook; every registry with at most one allow and one deny rule per record, of which two are busy with requests | the policy for every one of those registries (`AgreesWithRegistry`), `SearchFindsPermitted` for rankings shorter, as long and longer than the cap (`MaxLimit` 2, `CandidateCap` 3) and limits of 0, 1 and 9; on the busy registries `ScopesNest`, `OwnVariables`, `CallsAreGoverned`, `ViewIsTheCallers` |
| `builder_core` | 2 servers, 2 names, 1 tool, 2 tasks, 2 admin writes, one life of the process | `MountsAreCurrent`, `ReloadSettles`, `DegradedIsExact`, `NeverGoesBack`, `LastKnownKept` |
| `lifespan` | 1 server with and without a deny rule, 2 builder tasks, 2 plugins, 2 admin writes, 2 lives, background startup, anything may raise or die, `store.initialize()` included | `ServedUnderPolicy`, `WorkersHaveTheirStore`, `NothingLeaks`, `DependenciesOutlive`; under fairness, and the premise that introspections return, `OperationsEnd`, `LifespanEnds` |
| `store_writes` | 2 writers, 2 servers, 2 tools, 9 requests that fill, shrink, conflict and patch, of which any statement may fail, builds with and without FTS5, cancellation before the first change | `WritesAreAtomic` (the refinement of `CatalogStore`), `IndexMatchesCatalog`, `QuietReadsAreWhole`, `ServersLoad`; under fairness `WritesEnd` |
| `local_files` | 2 processes at a time, 3 starts, 2 directories, 1 edit, 1 server, 1 connection of the daemon | `RunsItsConfig`, `LoginReachesDaemon`, `LogoutHolds` |
| `hil_gate` | 2 calls | `IsApprovalGate` (the refinement of `Approval`), `OnlyApprovedProceed`, `OneJsonAnswer`, `WaitsEnd` |
| `hook_pipeline` | 1 call, every number of hooks up to 2 per seam, 2 argument values | `ClearedBeforeUpstream`, `SentAsShown`, `AuditIsComplete` |
| `client_credentials` | 2 requests, 2 configurations, 2 tokens, 2 providers, 3 instants | `CachedIsUnexpired`, `OwnCredentials`, `RetryIsNew`, `CacheAdvances`, `RequestsEnd` |
| `cli` | 2 processes, 12 command lines, 3 servers, 1 group, 1 rename, 1 restart | `ExitZeroIsLive`, `RemovedIsGone`, `CommandsEnd` |
| `builder_isolation`, `store_cancel`, `hil_html` | smaller | each finds the disagreement of section 5 |

Why the bounds are enough to see the interesting cases. Two servers and two names are
the fewest in which a server takes another's old name; two admin writes fit one between
any two reads of an operation and one more after it (the violations need three: two to
create and rename, one to take the name). Two tasks are a holder and a waiter of the
lock; two lives reach rows that outlive a process. One tool per server suffices because
rows are only told apart by owner and name, and two servers under one name already
collide. In the store, two writers are one inside and one waiting or following. Two
approvals show that they do not disturb each other. For requests, one task is enough,
since context variables are its own; depth three is a request, the call a meta-tool
nests in it, and one more inside. Two sessions are one on each mount, or two on one of
different callers, whose requests the task serves in turn. Two plugins are the one that
is up and the one that raises. Of processes that share files, two are one that reads
while the other writes, and three starts let a daemon, a login and a logout follow each
other. In the pipeline the calls share only the policy and the hook lists, so the run
spends its states on two hooks in each seam: an earlier and a later one. For tokens, two
requests are one fetching and one waiting, the two configurations one before and one
after a change; with `Skew` and `Timeout` 1, a life of 2 and a default of 1
for answers that name none there are tokens never cached and tokens that expire in the
cache; the first provider is taken to be built by one request for one configuration,
which the symmetry of both allows. For the command line, two processes are one
whose write falls between another's two requests, or whose reload runs during another's
removal; three server ids let a name be removed and created anew. The theorems of
section 4 hold for any number of each.

The bounds are `MaxWrites`, `MaxBoots`, `MaxHooks`, the sets `Tasks`, `ServerIds`,
`Names`, `Bares`, `Clients`, `Requests`, `Calls` and `Args`; for requests `MaxDepth`,
`ConnectHooks`, `Sessions` (of `RequestScope`), `Vars`, `Secrets` and `Values`; for the
lifespan `Plugins`; for the store `Builds` and `Cancellable`; for files `Procs`,
`MaxStarts`, `MaxEdits` and `Sessions`; for tokens `MaxTime`, `MaxTokens`,
`MaxProviders`; for the command line `MaxRenames`, `MaxRestarts`, `Processes` and
`Commands`; for search `MaxLimit`, `CandidateCap`, `Rankings` and `Limits`. Nothing else
is limited. Deadlock is checked everywhere but in `request_scope`, where all but the two
busy registries are only looked at, and in `cli` and `local_files`, where every process
may have exited for good. Type invariants are not model-checked for the modules that
have proofs: there they are theorems.

### Fairness

* `GatewayBuilder!FairSpec`: weak fairness of the steps inside the lock that wait for
  the store only (`StoreStep`), for its calls return; strong
  fairness of `Acquire`, for `asyncio.Lock` wakes its waiters in the order they came.
  Nothing is assumed of `Introspect`: it awaits the host's `pre_mcp_connect` and
  `connect_error` hooks (`connect.py:41`, `catalog.py:96`), which no timeout bounds.
  That every introspection returns in the end is therefore a premise of
  `OperationsEnd`, stated in it (`IntrospectionsReturn`): the property says that no way
  out of an operation keeps the lock, and that this step is the only one that can.
* `Lifespan!LifespanSpec`: the same for the builder's steps; the plugins' coroutines
  return or raise, a startup operation that came to its end goes on or raises, the store
  closes, and a cancelled task ends. Nobody has to shut the gateway down, and no
  introspection has to return: with `startup_catalog="refresh"` one that hangs keeps the
  gateway from serving, so the first half of `LifespanEnds` has the premise too.
* `SqliteStore!FairSpec`: the same two assumptions for statements and `_write_lock`.
* `PendingApprovals!FairSpec`: the timer fires and a scheduled task runs. Nothing is
  assumed of the notifier, which the code does not bound, so `WaitsEnd` starts where
  the wait does.
* `ClientCredentials!FairSpec`: weak fairness of what is inside the lock and of the
  request to the upstream, for both clients have timeouts; strong fairness of
  entering the lock, for `asyncio.Lock` wakes its waiters in order.
* `AdminCli!FairSpec`: weak fairness of each process, because httpx gives up after
  its default timeout. Nothing is assumed of the gateway.
* `HookPipeline` and `RequestScope` have no liveness property: hooks are arbitrary code
  and may never return. Nor has `LocalFiles`: its processes may be killed at any point.

## 4. Proofs

All theorems are checked for every value of the constants. They rest on the
named `ASSUME`s of the modules and on nothing else: patterns are sets of bare names,
the "none" values are not ids, records, tasks or arguments, the inputs are records,
the bounds are naturals. TLC evaluates each of them in the runs.

* **`RequestScopeProofs`.** `PolicyAgrees`: the policy compiled from the registry last
  loaded allows exactly what that registry permits. The lemmas follow the code:
  `CompiledAgrees` says that the rules found under a namespace are those of the one
  enabled server with that name (`UniqueNames` is needed here), `MembersById` that a
  dangling member id adds nothing, `GroupsNarrow` that a group never re-admits.
  `ContextNests`: a task's context is that of the requests it is in, each in its own
  scope or its session's. It is inductive only with what each scope saved (`Nested`):
  the saved value of a frame is what the requests below it say, so that restoring it is
  right whatever was bound above. Of a session it needs that the context kept is the one
  its opener bound (`Held`), whatever was bound, served or ended since.
  From both, for any depth and any reloads, `CallsGoverned` and `ViewsGoverned`.
  `VariablesAreTheCallers`: from the moment a call connects (`Carried`) every static
  header of its server holds, for each reference it embeds, a value and for each
  variable its caller's, or is what a connect hook put in its place. In a session the
  caller's value is the one bound by the request that opened it, not by the request
  under way, which is the limit section 5 records; the nested call
  of `invoke_tool` sits on the request that made it, and `ContextNests` says whose
  variables these are.
  `SearchesFindWhatIsPermitted`: for any ranking, cap, limit and group a search
  returns the first permitted matches among the candidates, in their order. What the
  loop has collected after `n` candidates (`Seen`) has the `k`-th permitted one at
  place `k`; a least counterexample would be one candidate past a place where that
  is true. `Visible` is a recursive function for this reason.
* **`LocalFilesProofs`.** `WholeConfigs`, `LoginsReach`, `LogoutsHold`, the last two
  action properties of `CacheInv`: the directory a process uses follows from the
  configuration it loaded, its shell and where it stands (`DirsFollow`); there is one
  daemon, and no connection without it (`OneDaemon`); the tokens of a login that
  ended are in its entry until a logout (`LoginsKept`); and once a logout cleared an
  entry, nobody who could write it again holds tokens for it (`LogoutsKept`).
* **`SqliteStoreProofs`.** Under the assumption `CancelledEarly` (no task is cancelled
  once its write has changed something, which is what section 5.2 is about):
  `TypeCorrect`, `IndexFollows`, `QuietReads`, `ServersAlwaysLoad`, and
  `ImplementsContract`, the refinement of `CatalogStore`. `IInv` says what is
  committed (`Sound`), that the transaction is empty while nobody holds the lock
  (`Quiet`), and for a writer at each statement what its request must be (`Fits`),
  how far the transaction has come (`Changed`), and that what is about to be
  committed is the whole change (`Whole`). What a registry write that raised
  leaves open is in `Between`: while nobody holds the lock the connection differs from
  the file at most in the registry, which is then `left`. The refinement is `Whole` at
  the commit, one of `CatalogStore`'s four ways to fail where a write raises, and a
  stutter everywhere else.
* **`GatewayBuilderProofs`.** `TypeCorrectness`, `LockIsExclusive`, `FreshSnapshots`,
  `CurrentMounts`, `HeldRows`, `NeverServedUnbuilt`, and the action properties
  `MountsAdvance` and `LastKnownRowsAreKept`. None of the properties is inductive
  alone. The inductive invariant `IInv` joins them with `Built`, `BuildsFirst` and
  `StartupBuilds`: what is mounted is versioned as soon as it is built, an operation
  that is past its mounting step has mounted, and while the process starts only the
  startup task runs and its first operation is one that mounts. Freshness needs the
  lock: a snapshot is younger than what is mounted only because nobody mounted since
  its reader took the lock. That the rows of failed servers are held needs it too,
  for nobody else may write the catalog between the read and the write.
  `ReloadsSettle` and `FailuresAreNamed` rest on a second invariant, `SettleInv`: what
  an operation has read is the registry if nothing was written since it took the lock
  (`Known`), and those who come after a settled reload read what it read and bring no
  other row (`Lasts`).
  `MountsAreGated`: a tool under a namespace the policy does not know is never
  refused, so nothing that is mounted may have one. Policy and mounts come of one
  reading of the servers (`OneReading`), in which names are unique for the table has
  them so, also while it is on its way to be mounted (`ReadWhole`); hence each mounted
  tool is judged by the rules of the record its proxy was made from.
  `OnlyRenamesLoseReloads`: in a run in which registered servers keep their names
  (`NamesStick`), no reload and no `refresh_catalog` ends with a key collision. Then
  rows carry the names their owners have in every snapshot (`NamedBy`, `StillNamed`),
  and two rows of one name have one owner. It is the other half of section 5.1.
* **`Lifespan`**, in the same module. `LifespanRunsBuilder`: every step of the lifespan
  is a step of the builder or leaves it alone, so all of the above holds within it.
  `LifespanInv` ties the generator's `stage` to the builder's phase, to the plugins
  that are up and to the store; with `DownIsIdle` of the builder (no task outlives
  the stop that cancels it) it gives `WorkersKeepTheirStore`, `TeardownsInReverse`,
  `NothingIsLeaked` and `LifespanServesUnderPolicy`, for any number of plugins and an
  exception at any of them, at the startup operation or in `store.initialize()`.
  `NothingIsLeaked` says what the two raising steps without a `finally` leave: a
  teardown the store and the plugins before it, the initialisation its connection.
* **`PendingApprovalsProofs`.** `IInv` says of each call how future, decision,
  verdict and answers agree. From it follow `ApprovedOnly`, `JsonAnswersAgree` and
  `ImplementsApproval`: initial states map to initial states, every step is a step
  of the gate (`Decide`, `Conclude`, `DenyAll`) or leaves its variables alone.
  `GatesAreFinal` says what that is worth, of any implementation: decision and verdict
  stand once given. Two results frame section 5: `JsonAnswersAreTrue` (the JSON API
  has not the fault of the HTML page) and `OnlyCancelledStayListed` (a call that was
  cancelled is the only one that may stay listed, and then it does).
* **`HookPipelineProofs`.** `OnlyCleared`, `ShownIsSent`, `AuditTrail`. `Placed` says
  what each place in the code implies, `Confirmations` what is known of every
  confirmation that is over; `OthersKept` shows once that a step of one call leaves
  the others alone, and that a gate's decision is never taken back. `Audited`, on
  top of it, counts the observers. `ConfirmationsAreGates` is the refinement of
  `Approval`. It alone would also hold of a pipeline whose calls are stuck at gates
  that were concluded before; `EachWaitsAtItsOwnGate` says they are not: the
  confirmations still ahead of a call have no verdict (`Fresh`).
* **`AdminCliProofs`.** `Known` types every variable and says of each process where
  its request can be (`At`) and that it has looked up an id of the right kind before
  it writes (`Informed`). `Dates` follows the version a command wrote through the
  snapshot of its reload into what is mounted: `ExitZeroMeansServed`. `Removals`
  adds that no id is issued twice and that everything read or mounted since a
  removal lacks the server: `RemovedStaysGone`. It needs the reload lock, for a
  snapshot older than the removal may still be waiting to be mounted when the
  removal is accepted, but not when a later reload reads.
* **`ClientCredentialsProofs`.** `CachedLives`, `CredentialsAreOwn`, `RetryRefreshes`
  and the action property `NoOvertaking`, for any lifetimes, requests and providers
  with `Timeout <= Skew`. `Tied` says what a request knows at each place: before a
  retry that the refused token is older than `issued`, while an answer is on its way
  that it is at most `Timeout` old and no older than what its provider caches.
  `Cached` says that a cached token has its provider's configuration and is kept no
  longer than it lives, unless it is stale already. `Locks` is what keeps `Tied` true
  of the other requests when one of them fills the cache. `OneRequest` and
  `OneProvider` show once what a step of one request leaves alone.

Every safety and action property of a passing run is the property of a theorem.
Model-checked only: liveness (`OperationsEnd`, `LifespanEnds`, `WritesEnd`,
`WaitsEnd`, `RequestsEnd`, `CommandsEnd`), which needs `ENABLED`. No module uses
`RECURSIVE` operators; the one recursion, over the candidates of a search, is proved
about by its least counterexample.

## 5. Where code and text disagree

Found while modelling; each has a run whose counterexample is the scenario.

1. `builder_isolation`. Server A is renamed, B takes A's old name, A does not answer:
   A's retained rows collide with B's and the whole reload fails, though "Failures
   are isolated per server" (`catalog.py:76`). A rename is needed for it:
   `OnlyRenamesLoseReloads`.
2. `store_cancel`. `CancelledError` is not an `Exception`: a cancelled replacement
   leaves its transaction open and another writer's commit persists half of it.
3. `hil_html`. The HTML page reports "approved" of calls that were denied or expired.

Smaller ones, seen in the models and without a run of their own:

* Rows retained for a renamed server have a namespace the policy does not know,
  count as gateway-local tools, and are listed to every group, though a group shows
  "only that group's member servers" (`src/README.md:444`, `access.py:125`).
* Reads see the uncommitted DELETE of a replacement under way: a `tools/list` during
  a reload may find no tool ("Atomically replace", `store/base.py:63`).
* A server created while `reload` runs may fail and be missing from the names it
  returns (`builder.py:128-133`; `DegradedIsExact` therefore speaks of reloads
  without a write between).
* `refresh_server` can raise `IntegrityError`, which its docstring does not name,
  from the same collision as 1.
* A call cancelled while it notifies stays in `list_pending()` for ever
  (`plugin.py:63`); an approval answered 200 may come after the timer and be denied
  all the same (`pending.py:75`).
* A search whose first `_CANDIDATE_CAP` matches are hidden from the caller finds
  nothing, although permitted tools match (`search.py:57`).
* A cached provider of client credentials keeps the secret it was built with:
  `models.py:96` says a secret reference is "resolved at connect time",
  `client_credentials.py:159` does not resolve it again after a rotation.
* `Gateway.list_tools` without a group "lists the full governed catalog"
  (`app.py:100`); with the default list mode it lists the meta-tools.
* The live endpoints of the admin API and every introspection run without runtime
  variables: a server whose headers name a `${var:}` is always among the degraded and
  has no catalog, and a call over REST cannot name a variable.
* The index is created `IF NOT EXISTS`, which succeeds without FTS5 when the file has
  it already. `_fts_enabled` is then true, and every catalog write and token search
  raises, though `initialize` says it "transparently falls back"
  (`store/sqlite.py:266`). The other way round, rows written without FTS5 are not
  found by index until they are replaced.
* A patch that sets a group's `allow` to null is stored unchecked
  (`store/sqlite.py:380`) and the group cannot be loaded again; for servers the same
  patch is refused.
* A plugin whose teardown raises skips the teardown of the others and leaves the store
  open (`app.py:256`), though `teardown` is to "flush / close"
  (`plugins/__init__.py:59`).
* `store.initialize()` is awaited outside the `try` (`app.py:231`): when it raises after
  connecting (`store/sqlite.py:269-281`: a locked file, an old schema that cannot be
  migrated), nobody calls `close`, and the connection with its thread stays. Stage
  `failed` of `Lifespan`; `NothingLeaks` excepts that connection by name.
* A registry write that raises anything but `IntegrityError` (disk full, file locked:
  `store/sqlite.py:305-312`, `331-340`, `345-346`, and those of groups) is not rolled
  back. The caller is told that it failed; the change stays in the open transaction, is
  seen by every read, and goes to disk with the next write that succeeds, or away with a
  catalog write that fails or with the process. The class promises that no write can
  "persist another's half-finished statements" (`store/sqlite.py:231`). What holds, and
  is proved, is that it is never half of a change: `CatalogStore` states the case as
  `LeftOpen`.
* `${var:NAME}` is "resolved per request at connect time" (`config.py:96`,
  `src/README.md:55`, `src/README.md:253`), "injected per request" (`secret_refs.py:5`),
  and `GroupDispatch` sets the group "per request" (`routing.py:4`). Over MCP it is per
  session: `http_app` (`app.py:209`) is stateful, and a session's later requests run in
  the context of the one that opened it. A client that changes its header within a
  session has its upstreams sent the first value; one that opened its session at `/mcp`
  and goes on at `/mcp/g/x` is not narrowed, nor the other way round widened. REST and
  in-process callers have their values per request. `OwnVariables`, `ScopesNest` and
  `CallsAreGoverned` say "the request that opened the session" for this reason: they
  exclude another session's values, not an earlier request's of the same one.
* A `pre_mcp_connect` or `connect_error` hook that hangs during an introspection keeps
  `_reload_lock`: no later reload, refresh or startup ends (`OperationsEnd`'s premise).
* "The daemon and the CLI always agree" on the token directory (`config.py:128`) only
  if both load the same file, unchanged between their starts, from shells with the
  same `FAST_GATEWAY_OAUTH_DIR`, and, when the directory is relative, stand in the
  same place. `LoginReachesDaemon` states it with those conditions.
* `serve` killed while it writes its first configuration leaves half of it, and every
  later start fails to parse it.
* "The next gateway connect will require a fresh login" (`cli.py:598`) unless the
  daemon was refreshing the token when it was cleared: it then writes it back.
  `LogoutHolds` excepts it. Two servers with one URL share their tokens, and `login`
  sends header references unresolved (`cli.py:111`).
* A command that exits 1 may have written, and its reload may still be running
  (`cli.py:125`): httpx gives up after five seconds, a reload introspects every
  upstream with that upstream's own timeout.

## 6. Not modelled, and why

* In `GatewayBuilder`: failures of the store itself; an upstream that lists one tool
  name twice (`builder.py:94`: the primary key then fails every reload), for the
  tools of an upstream are a set; and renaming a group, which is a delete and a create
  to everything that is checked. Live introspection endpoints change no state.
* In `Lifespan`: what routers, mounts and tools a plugin contributes, which is fixed
  when the gateway is created, and the exception of a background task nobody awaits; a
  host that enters the lifespan of the same gateway again after `store.initialize()`
  raised.
* In `SqliteStore`: the migration of old columns, by one process or by two at once
  (`store/sqlite.py:246`); ranking; a rollback that itself
  raises; a SELECT is one step with its fetch.
* In `HookPipeline`: middleware a plugin adds around the call; hooks that change the
  message in place; `pre_list_tools` hooks.
* In `RequestScope`: the rewriting of the path; timeout and auth of a connection, the
  last setter of which wins in the same loop as the headers; the rate limit, which
  counts an `invoke_tool` twice; header names that differ in case only. The
  session manager is the library's: a session is opened, used and ended at any time, and
  two requests of one session share nothing but its context.
* In `AccessPolicy`: the text of globs and of namespaces.
* In `ClientCredentials`: the value behind a secret reference; other servers, whose
  entries of the dictionary are disjoint. An answer arrives within `timeout_seconds`
  of its issue or not at all: httpx bounds each read, not their sum, so an endpoint
  that dribbles its answer is outside the model.
* In `AdminCli`: commands that only read, and `connect`, which writes the
  configuration of other programs; a name that is also the id of another server.
* In `LocalFiles`: a second `serve` on the same port, which runs its lifespan and then
  fails to bind, so there is one daemon; the policy file, read next to the
  configuration, as a step of its own (nothing here writes it); fields of the
  configuration that nothing here tells apart.
* In `Search`: the text score.
* AgentOS decides in a library; `src/scripts/` and `src/tools/` test the program and
  are no part of it.

## 7. Plan

Done, in this order: policy, builder, store, approvals, pipeline, search, command
line, client credentials; then lifespan, the store's registry writes and builds,
requests with their context variables, the files of one user, and the theorems on
the store, on settled reloads, on the lifespan, on lost reloads, on what upstreams are
sent and searches find, and on the gates of the pipeline. Next:

1. `ClientCredentials`: rotation of the secret behind a reference.
2. `GatewayBuilder`: an upstream as a bag of tools, and its effect on `reload`.
3. `SqliteStore`: the migration by two processes.
4. A composition of `GatewayBuilder` with `RequestScope`, in which a reload is several
   steps for the requests as well.
