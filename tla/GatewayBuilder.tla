--------------------------- MODULE GatewayBuilder ---------------------------
(***************************************************************************)
(* fast_gateway/builder.py and what it works on: the persisted registry    *)
(* (admin API), the upstream servers, and the access policy, proxy mounts  *)
(* and tool catalog it derives from the registry.                          *)
(*                                                                         *)
(* A task is a coroutine running one builder operation: the handler of     *)
(* POST /admin/reload or /servers/{id}/refresh, GatewayContext.reload, or  *)
(* the lifespan's startup task.  One action is what runs between two       *)
(* awaits; every read or write of the store is such a point.  The store is *)
(* atomic here: SqliteStore.tla shows how far the code keeps that promise. *)
(***************************************************************************)
EXTENDS AccessPolicy, Integers

CONSTANTS
    Tasks,          \* coroutines running builder operations
    Startup,        \* the task of the lifespan's own startup operations
    NoTask,         \* nobody holds the reload lock
    StartupCatalog, \* create_gateway's option: "refresh", "background" or "skip"
    TaskOps,        \* operations the tasks call while the gateway serves
    ServerInputs,   \* bodies the admin API is sent (all of ServerRecord, or fewer)
    GroupInputs,    \* likewise for groups
    MaxWrites,      \* bound: admin writes
    MaxBoots        \* bound: times the process is started

Operations == {"rebuild_mounts", "refresh_catalog", "reload", "refresh_server"}

ASSUME BuilderAssumption ==
    /\ Startup \in Tasks
    /\ NoTask \notin Tasks
    /\ StartupCatalog \in {"refresh", "background", "skip"}
    /\ TaskOps \subseteq Operations
    /\ ServerInputs \subseteq ServerRecord
    /\ GroupInputs \subseteq GroupRecord
    /\ MaxWrites \in Nat /\ MaxBoots \in Nat

VARIABLES
    \* Persisted in the store.
    servers,    \* the registry's servers, by id
    groups,     \* the registry's groups, by name
    catalog,    \* rows of catalog_tools
    \* Outside the gateway.
    upstream,   \* tools each upstream would list now
    \* In the memory of the process.
    phase,      \* "down", "starting" or "serving"
    policy,     \* the compiled AccessPolicy
    mounts,     \* proxies mounted on the parent server
    lock,       \* GatewayBuilder._reload_lock
    pc,         \* where each task is
    job,        \* the locals of each task's operation
    \* History: the registry's version, and that of what is mounted.
    issued,     \* ids the store has issued
    writes,     \* admin writes so far: the version of the registry
    mountedAt,  \* versions of the servers and groups behind policy and mounts
    boots

persistent == <<servers, groups, catalog>>
registry   == <<servers, groups, issued, writes>>
mounted    == <<policy, mounts, mountedAt>>
process    == <<phase, policy, mounts, lock, pc, job, mountedAt>>
vars == <<servers, groups, catalog, upstream, phase, policy, mounts, lock, pc, job,
          issued, writes, mountedAt, boots>>

-----------------------------------------------------------------------------
(* Values *)

Row   == [server_id : ServerIds, namespace : Names, bare : Bares]
Mount == [server_id : ServerIds, namespace : Names]

(* name is the PRIMARY KEY of catalog_tools. *)
UniqueTools(rows) ==
    \A r, s \in rows : r.namespace = s.namespace /\ r.bare = s.bare => r = s

NoSnapshot == [i \in ServerIds |-> NoServer]

Statuses == {"none", "ok", "degraded", "unknown", "integrity_error"}

(* listed, mounting and scan are the three lists of servers an operation   *)
(* reads; mountingAt and began are the registry's versions at the time.    *)
NewJob(operation, target) ==
    [op |-> operation, target |-> target, listed |-> NoSnapshot, mounting |-> NoSnapshot,
     mountingAt |-> 0, scan |-> NoSnapshot, failed |-> {}, rows |-> {},
     began |-> 0, status |-> "none", degraded |-> {}]

IdleJob == NewJob("none", NoServer)

(* What is left of an operation once it has returned or raised. *)
Ended(j, status, degraded) ==
    [op |-> j.op, target |-> j.target, listed |-> NoSnapshot, mounting |-> NoSnapshot,
     mountingAt |-> 0, scan |-> NoSnapshot, failed |-> j.failed, rows |-> {},
     began |-> j.began, status |-> status, degraded |-> degraded]

Job ==
    [op : Operations \cup {"none"}, target : ServerIds \cup {NoServer}, listed : Registry,
     mounting : Registry, mountingAt : Nat, scan : Registry, failed : SUBSET ServerIds,
     rows : SUBSET Row, began : Nat, status : Statuses, degraded : SUBSET Names]

Inside ==
    {"list", "lookup", "servers", "groups", "scan", "introspect", "retain", "write"}

TypeOK ==
    /\ servers \in Registry
    /\ UniqueNames(servers)
    /\ groups \in Groups
    /\ catalog \in SUBSET Row
    /\ UniqueTools(catalog)
    /\ upstream \in [ServerIds -> SUBSET Bares]
    /\ phase \in {"down", "starting", "serving"}
    /\ DOMAIN policy = {"servers", "groups"}
    /\ mounts \in SUBSET Mount
    /\ lock \in Tasks \cup {NoTask}
    /\ pc \in [Tasks -> Inside \cup {"idle", "waiting"}]
    /\ job \in [Tasks -> Job]
    /\ issued \in SUBSET ServerIds
    /\ writes \in Nat
    /\ mountedAt \in [servers : Int, groups : Int]
    /\ boots \in Nat

Init ==
    /\ servers = NoSnapshot
    /\ groups = [g \in GroupNames |-> NoServer]
    /\ catalog = {}
    /\ upstream \in [ServerIds -> SUBSET Bares]
    /\ phase = "down"
    /\ policy = EmptyPolicy
    /\ mounts = {}
    /\ lock = NoTask
    /\ pc = [t \in Tasks |-> "idle"]
    /\ job = [t \in Tasks |-> IdleJob]
    /\ issued = {}
    /\ writes = 0
    /\ mountedAt = [servers |-> -1, groups |-> -1]
    /\ boots = 0

-----------------------------------------------------------------------------
(* The admin API: each handler is one store write under the write lock.    *)
(* A duplicate name is answered 409 and an unknown id 404: nothing changes.*)

AdminWrite ==
    /\ phase = "serving"
    /\ writes < MaxWrites
    /\ writes' = writes + 1
    /\ UNCHANGED <<catalog, upstream, boots, process>>

NameFree(name, i) == \A j \in Registered(servers) \ {i} : servers[j].name # name

CreateServer(i, data) ==
    /\ i \notin issued
    /\ NameFree(data.name, i)
    /\ servers' = [servers EXCEPT ![i] = data]
    /\ issued' = issued \cup {i}
    /\ UNCHANGED groups
    /\ AdminWrite

UpdateServer(i, data) ==
    /\ i \in Registered(servers)
    /\ NameFree(data.name, i)
    /\ servers' = [servers EXCEPT ![i] = data]
    /\ UNCHANGED <<groups, issued>>
    /\ AdminWrite

(* Neither catalog_tools nor groups.member_server_ids refers to servers:   *)
(* rows and memberships of the deleted id stay.                            *)
DeleteServer(i) ==
    /\ i \in Registered(servers)
    /\ servers' = [servers EXCEPT ![i] = NoServer]
    /\ UNCHANGED <<groups, issued>>
    /\ AdminWrite

WriteGroup(g, data) ==
    /\ groups[g] # data
    /\ groups' = [groups EXCEPT ![g] = data]
    /\ UNCHANGED <<servers, issued>>
    /\ AdminWrite

(* An upstream deploys a new version with other tools. *)
UpstreamChanges(i, tools) ==
    /\ upstream[i] # tools
    /\ upstream' = [upstream EXCEPT ![i] = tools]
    /\ UNCHANGED <<persistent, process, issued, writes, boots>>

-----------------------------------------------------------------------------
(* The steps of an operation.  Everything below but Call and Acquire runs  *)
(* inside "async with self._reload_lock".                                  *)

Begin(t, operation, target) ==
    /\ pc' = [pc EXCEPT ![t] = "waiting"]
    /\ job' = [job EXCEPT ![t] = NewJob(operation, target)]

(* Leaves the locked section with a result or an exception. *)
Finish(t, status, degraded) ==
    /\ pc' = [pc EXCEPT ![t] = "idle"]
    /\ lock' = NoTask
    /\ job' = [job EXCEPT ![t] = Ended(job[t], status, degraded)]

Goto(t, place) == pc' = [pc EXCEPT ![t] = place] /\ UNCHANGED lock

Call(t, operation, target) ==
    /\ phase = "serving"
    /\ pc[t] = "idle"
    /\ operation = "refresh_server" <=> target # NoServer
    /\ Begin(t, operation, target)
    /\ UNCHANGED <<persistent, upstream, mounted, phase, lock, issued, writes, boots>>

FirstStep(operation) ==
    CASE operation = "rebuild_mounts" -> "servers"
      [] operation = "refresh_server" -> "lookup"
      [] OTHER                        -> "list"

(* Fault: no "async with self._reload_lock". *)
BugAcquire(t) ==
    /\ pc[t] = "waiting"
    /\ lock' = t
    /\ pc' = [pc EXCEPT ![t] = FirstStep(job[t].op)]
    /\ job' = [job EXCEPT ![t].began = writes]
    /\ UNCHANGED <<persistent, upstream, mounted, phase, issued, writes, boots>>

Acquire(t) ==
    /\ pc[t] = "waiting"
    /\ lock = NoTask
    /\ lock' = t
    /\ pc' = [pc EXCEPT ![t] = FirstStep(job[t].op)]
    /\ job' = [job EXCEPT ![t].began = writes]
    /\ UNCHANGED <<persistent, upstream, mounted, phase, issued, writes, boots>>

(* The snapshot that reload and refresh_catalog keep to name the servers.  *)
ListNames(t) ==
    /\ pc[t] = "list"
    /\ job' = [job EXCEPT ![t].listed = servers]
    /\ Goto(t, IF job[t].op = "reload" THEN "servers" ELSE "scan")
    /\ UNCHANGED <<persistent, upstream, mounted, phase, issued, writes, boots>>

(* Fault: KeyError raised with the lock still held. *)
BugLookupServer(t) ==
    /\ pc[t] = "lookup"
    /\ IF servers[job[t].target] = NoServer
       THEN /\ pc' = [pc EXCEPT ![t] = "idle"]
            /\ UNCHANGED <<lock, job>>
       ELSE /\ job' = [job EXCEPT ![t].scan =
                         [NoSnapshot EXCEPT ![job[t].target] = servers[job[t].target]]]
            /\ Goto(t, "servers")
    /\ UNCHANGED <<persistent, upstream, mounted, phase, issued, writes, boots>>

(* refresh_server's get_server: the record it will introspect. *)
LookupServer(t) ==
    /\ pc[t] = "lookup"
    /\ IF servers[job[t].target] = NoServer
       THEN Finish(t, "unknown", {})
       ELSE /\ job' = [job EXCEPT ![t].scan =
                         [NoSnapshot EXCEPT ![job[t].target] = servers[job[t].target]]]
            /\ Goto(t, "servers")
    /\ UNCHANGED <<persistent, upstream, mounted, phase, issued, writes, boots>>

(* _rebuild_mounts_locked: one await reads the servers, the next one the   *)
(* groups; policy and mounts then change without an await between them.    *)
ReadServers(t) ==
    /\ pc[t] = "servers"
    /\ job' = [job EXCEPT ![t].mounting = servers, ![t].mountingAt = writes]
    /\ Goto(t, "groups")
    /\ UNCHANGED <<persistent, upstream, mounted, phase, issued, writes, boots>>

MountsOf(snapshot) ==
    {[server_id |-> i, namespace |-> snapshot[i].name] : i \in Enabled(snapshot)}

AfterMounting(t) ==
    CASE job[t].op = "reload" -> "scan"
      [] job[t].op = "refresh_server" ->
            IF job[t].target \in Enabled(job[t].scan) THEN "introspect" ELSE "write"
      [] OTHER -> "idle"

(* Fault: reload hands its first snapshot to the policy. *)
BugRebuildMounts(t) ==
    /\ pc[t] = "groups"
    /\ policy' = Compile(IF job[t].op = "reload" THEN job[t].listed ELSE job[t].mounting, groups)
    /\ mounts' = MountsOf(job[t].mounting)
    /\ mountedAt' = [servers |-> job[t].mountingAt, groups |-> writes]
    /\ IF AfterMounting(t) = "idle"
       THEN Finish(t, "ok", {})
       ELSE Goto(t, AfterMounting(t)) /\ UNCHANGED job
    /\ UNCHANGED <<persistent, upstream, phase, issued, writes, boots>>

RebuildMounts(t) ==
    /\ pc[t] = "groups"
    /\ policy' = Compile(job[t].mounting, groups)
    /\ mounts' = MountsOf(job[t].mounting)
    /\ mountedAt' = [servers |-> job[t].mountingAt, groups |-> writes]
    /\ IF AfterMounting(t) = "idle"
       THEN Finish(t, "ok", {})
       ELSE Goto(t, AfterMounting(t)) /\ UNCHANGED job
    /\ UNCHANGED <<persistent, upstream, phase, issued, writes, boots>>

(* _refresh_catalog_locked reads the servers once more. *)
ListForCatalog(t) ==
    /\ pc[t] = "scan"
    /\ job' = [job EXCEPT ![t].scan = servers]
    /\ Goto(t, "introspect")
    /\ UNCHANGED <<persistent, upstream, mounted, phase, issued, writes, boots>>

Introspected(snapshot, ids) ==
    {r \in Row : /\ r.server_id \in ids
                 /\ r.namespace = snapshot[r.server_id].name
                 /\ r.bare \in upstream[r.server_id]}

(* Fault: disabled servers are introspected too. *)
BugIntrospect(t) ==
    /\ pc[t] = "introspect"
    /\ \E failed \in SUBSET Enabled(job[t].scan) :
        /\ job' = [job EXCEPT ![t].failed = failed,
                      ![t].rows = Introspected(job[t].scan, Registered(job[t].scan) \ failed)]
        /\ Goto(t, IF failed # {} THEN "retain" ELSE "write")
    /\ UNCHANGED <<persistent, upstream, mounted, phase, issued, writes, boots>>

(* collect_catalog: any of the upstreams may fail to connect or time out.  *)
(* refresh_server gives up at once when its own server failed.             *)
Introspect(t) ==
    /\ pc[t] = "introspect"
    /\ \E failed \in SUBSET Enabled(job[t].scan) :
        LET rows == Introspected(job[t].scan, Enabled(job[t].scan) \ failed)
        IN  IF job[t].op = "refresh_server" /\ failed # {}
            THEN Finish(t, "degraded", {})
            ELSE /\ job' = [job EXCEPT ![t].failed = failed, ![t].rows = rows]
                 /\ Goto(t, IF failed # {} THEN "retain" ELSE "write")
    /\ UNCHANGED <<persistent, upstream, mounted, phase, issued, writes, boots>>

(* Fault: rows are retained only for namespaces the policy knows. *)
BugRetain(t) ==
    /\ pc[t] = "retain"
    /\ job' = [job EXCEPT ![t].rows =
                  @ \cup {r \in catalog : /\ r.server_id \in job[t].failed
                                          /\ r.namespace \in DOMAIN policy.servers}]
    /\ Goto(t, "write")
    /\ UNCHANGED <<persistent, upstream, mounted, phase, issued, writes, boots>>

(* The last-known rows of the servers that failed. *)
Retain(t) ==
    /\ pc[t] = "retain"
    /\ job' = [job EXCEPT ![t].rows =
                  @ \cup {r \in catalog : r.server_id \in job[t].failed}]
    /\ Goto(t, "write")
    /\ UNCHANGED <<persistent, upstream, mounted, phase, issued, writes, boots>>

(* Fault: a server is reported only when it has rows to retain. *)
BugDegradedNames(t) ==
    {r.namespace : r \in {q \in job[t].rows : q.server_id \in job[t].failed}}

(* The names of the failed servers, by the first snapshot. *)
DegradedNames(t) ==
    {job[t].listed[i].name : i \in job[t].failed \cap Registered(job[t].listed)}

(* What replace_catalog and replace_server_catalog leave in the table. *)
Written(t) ==
    IF job[t].op = "refresh_server"
    THEN {r \in catalog : r.server_id # job[t].target} \cup job[t].rows
    ELSE job[t].rows

(* The store transaction and the return.  Two rows of one name violate the *)
(* primary key: the store rolls back and the operation raises.             *)
WriteCatalog(t) ==
    /\ pc[t] = "write"
    /\ IF UniqueTools(Written(t))
       THEN /\ catalog' = Written(t)
            /\ Finish(t, "ok", DegradedNames(t))
       ELSE /\ UNCHANGED catalog
            /\ Finish(t, "integrity_error", {})
    /\ UNCHANGED <<servers, groups, upstream, mounted, phase, issued, writes, boots>>

-----------------------------------------------------------------------------
(* The lifespan: the process starts, runs the startup operation, serves,   *)
(* and stops or crashes at any time; what it kept in memory is gone.       *)

Boot ==
    /\ phase = "down"
    /\ boots < MaxBoots
    /\ boots' = boots + 1
    /\ phase' = "starting"
    /\ Begin(Startup, IF StartupCatalog = "refresh" THEN "reload" ELSE "rebuild_mounts",
             NoServer)
    /\ UNCHANGED <<persistent, upstream, mounted, lock, issued, writes>>

(* Fault: serving starts before the startup operation has returned. *)
BugServe ==
    /\ phase = "starting"
    /\ phase' = "serving"
    /\ UNCHANGED <<persistent, upstream, mounted, lock, pc, job, issued, writes, boots>>

(* With "background", serving starts together with a catalog refresh. *)
Serve ==
    /\ phase = "starting"
    /\ pc[Startup] = "idle"
    /\ job[Startup].status = "ok"
    /\ phase' = "serving"
    /\ IF StartupCatalog = "background"
       THEN Begin(Startup, "refresh_catalog", NoServer)
       ELSE UNCHANGED <<pc, job>>
    /\ UNCHANGED <<persistent, upstream, mounted, lock, issued, writes, boots>>

(* Shutdown, a crash, or a startup operation that raised. *)
Stop ==
    /\ phase # "down"
    /\ phase' = "down"
    /\ policy' = EmptyPolicy
    /\ mounts' = {}
    /\ mountedAt' = [servers |-> -1, groups |-> -1]
    /\ lock' = NoTask
    /\ pc' = [t \in Tasks |-> "idle"]
    /\ job' = [t \in Tasks |-> IdleJob]
    /\ UNCHANGED <<persistent, upstream, issued, writes, boots>>

-----------------------------------------------------------------------------
Step(t) ==
    \/ ListNames(t) \/ LookupServer(t) \/ ReadServers(t) \/ RebuildMounts(t)
    \/ ListForCatalog(t) \/ Introspect(t) \/ Retain(t) \/ WriteCatalog(t)

Admin ==
    \/ \E i \in ServerIds, data \in ServerInputs : CreateServer(i, data) \/ UpdateServer(i, data)
    \/ \E i \in ServerIds : DeleteServer(i)
    \/ \E g \in GroupNames, data \in GroupInputs \cup {NoServer} : WriteGroup(g, data)

Next ==
    \/ \E t \in Tasks, operation \in TaskOps, target \in issued \cup {NoServer} :
            Call(t, operation, target)
    \/ \E t \in Tasks : Acquire(t) \/ Step(t)
    \/ Admin
    \/ \E i \in ServerIds, tools \in SUBSET Bares : UpstreamChanges(i, tools)
    \/ Boot \/ Serve \/ Stop

Spec == Init /\ [][Next]_vars

(* Store calls return, so a step inside the lock that only waits for the   *)
(* store is taken eventually; asyncio.Lock wakes its waiters in turn.  An  *)
(* introspection runs the host's pre_mcp_connect and connect_error hooks,  *)
(* which nothing bounds: it need not return.                               *)
StoreStep(t) == pc[t] # "introspect" /\ Step(t)

Fairness ==
    \A t \in Tasks : WF_vars(StoreStep(t)) /\ SF_vars(Acquire(t))

FairSpec == Spec /\ Fairness

-----------------------------------------------------------------------------
(* Properties *)

(* At most one task is between two steps of an operation, and it is the    *)
(* one that holds _reload_lock: "concurrent reloads cannot interleave      *)
(* store reads, provider mutation, and catalog replacement".               *)
MutualExclusion == \A t \in Tasks : pc[t] \in Inside <=> lock = t

(* What is mounted never goes back to an older registry: an operation that *)
(* read the servers or groups before another rebuilt the mounts cannot     *)
(* bring a deleted, disabled or denied server back.  (A restart begins     *)
(* from nothing.)                                                          *)
NeverGoesBack ==
    [][phase' # "down" => /\ mountedAt'.servers >= mountedAt.servers
                          /\ mountedAt'.groups >= mountedAt.groups]_vars

(* When no admin write came after the snapshots behind the mounts, policy  *)
(* and mounts are those of the registry as it stands, whatever operations  *)
(* are under way.                                                          *)
MountsAreCurrent ==
    /\ mountedAt.servers = writes => mounts = MountsOf(servers)
    /\ mountedAt.servers = writes /\ mountedAt.groups = writes =>
            policy = Compile(servers, groups)

(* The snapshot a task is about to mount is no older than what is mounted, *)
(* and is the registry itself when no admin write followed it.  Only the   *)
(* lock makes this so: a snapshot outlives the await that read it.         *)
SnapshotsAreFresh ==
    /\ mountedAt.servers <= writes
    /\ mountedAt.groups <= writes
    /\ \A t \in Tasks :
        pc[t] = "groups" =>
            /\ mountedAt.servers <= job[t].mountingAt
            /\ job[t].mountingAt <= writes
            /\ job[t].mountingAt = writes => job[t].mounting = servers

(* A task about to replace the whole catalog holds every row of the        *)
(* servers that failed it; one that replaces a server's rows failed none.  *)
RetainedRowsAreHeld ==
    /\ \A t \in Tasks :
        pc[t] = "write" /\ job[t].op # "refresh_server" =>
            \A r \in catalog : r.server_id \in job[t].failed => r \in job[t].rows
    /\ \A t \in Tasks :
        pc[t] # "idle" /\ job[t].op = "refresh_server" =>
            job[t].failed = {} /\ pc[t] # "retain"

(* A request is only served under a policy that was built: an empty policy *)
(* would allow every tool to every group.                                  *)
ServedUnderPolicy == phase = "serving" => mountedAt.servers >= 0 /\ mountedAt.groups >= 0

(* A reload that returned, with no admin write since it took the lock, has *)
(* settled: its mounts and policy are current, and but for the servers it  *)
(* reports as failed the catalog holds rows of enabled servers only, under *)
(* their present names, so the policy knows every namespace listed.        *)
ReloadSettles ==
    \A t \in Tasks :
        pc[t] = "idle" /\ job[t].op = "reload" /\ job[t].status = "ok"
            /\ job[t].began = writes
        => /\ policy = Compile(servers, groups)
           /\ mounts = MountsOf(servers)
           /\ \A r \in catalog :
                r.server_id \notin job[t].failed =>
                    [server_id |-> r.server_id, namespace |-> r.namespace] \in mounts

(* The names reload and refresh_catalog return are those of the servers    *)
(* that failed, when no admin write came between the lists they read.      *)
DegradedIsExact ==
    \A t \in Tasks :
        pc[t] = "idle" /\ job[t].op \in {"reload", "refresh_catalog"}
            /\ job[t].status = "ok" /\ job[t].began = writes
        => job[t].degraded = {servers[i].name : i \in job[t].failed}

(* Rows of a server go only because the operation that writes the catalog  *)
(* asked that server (it answered), or found it disabled or gone: the rows *)
(* of a server that failed introspection survive every operation.          *)
LastKnownKept ==
    [][\A r \in catalog \ catalog' :
            \E t \in Tasks : /\ pc[t] = "write"
                             /\ job[t].op = "refresh_server" => r.server_id = job[t].target
                             /\ r.server_id \notin job[t].failed]_vars

(* ("Failures are isolated per server - a transient blip does not wipe the *)
(* rest", catalog.py:76.)  No reload is lost to a server it could not      *)
(* reach.                                                                  *)
FailuresAreIsolated ==
    \A t \in Tasks : job[t].op = "reload" => job[t].status # "integrity_error"

IntrospectionsReturn == \A t \in Tasks : []<>(pc[t] # "introspect")

(* Every operation ends and lets the lock go, whatever upstreams fail, as  *)
(* long as each introspection returns or raises in the end: no way out     *)
(* keeps the lock, and the one step that may hang is the one named.        *)
OperationsEnd ==
    IntrospectionsReturn => \A t \in Tasks : pc[t] = "waiting" ~> pc[t] = "idle"
=============================================================================
