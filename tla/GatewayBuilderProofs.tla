------------------------ MODULE GatewayBuilderProofs ------------------------
(***************************************************************************)
(* Theorems about GatewayBuilder, for any number of tasks, servers, tools  *)
(* and groups and any bounds; at the end, about the Lifespan around it,    *)
(* for any number of plugins.                                              *)
(***************************************************************************)
EXTENDS Lifespan, TLAPS

(* No operation outlives its process. *)
DownIsIdle == phase = "down" => \A t \in Tasks : pc[t] = "idle"

(* The process has compiled a policy and mounted its proxies. *)
Built == mountedAt.servers >= 0 /\ mountedAt.groups >= 0

(* While the process starts nothing but its startup operation runs, and    *)
(* once that is past the mounts, or has returned, the policy is built.     *)
BuildsFirst ==
    /\ job[Startup].op \in {"reload", "rebuild_mounts"}
    /\ pc[Startup] = "list" => job[Startup].op = "reload"
    /\ pc[Startup] \in {"scan", "introspect", "retain", "write"} => Built
    /\ pc[Startup] = "idle" /\ job[Startup].status = "ok" => Built

StartupBuilds ==
    /\ phase = "serving" => Built
    /\ phase = "starting" => BuildsFirst

(* What the lock protects, as one inductive invariant.                     *)
IInv ==
    /\ TypeOK
    /\ DownIsIdle
    /\ StartupBuilds
    /\ MutualExclusion
    /\ SnapshotsAreFresh
    /\ MountsAreCurrent
    /\ RetainedRowsAreHeld

-----------------------------------------------------------------------------
(* Typing *)

(* The initial locals of an operation are well typed.                      *)
LEMMA NewJobType ==
    ASSUME NEW operation \in Operations \cup {"none"},
           NEW target \in ServerIds \cup {NoServer}
    PROVE  NewJob(operation, target) \in Job
  <1>1. NoSnapshot \in Registry
    BY DEF NoSnapshot, Registry
  <1> QED
    BY <1>1 DEF NewJob, Job, Statuses

(* What a task holds after it left the locked section is well typed.       *)
LEMMA FinishType ==
    ASSUME TypeOK, NEW t \in Tasks, NEW status \in Statuses, NEW names \in SUBSET Names,
           Finish(t, status, names)
    PROVE  /\ lock' \in Tasks \cup {NoTask}
           /\ pc' \in [Tasks -> Inside \cup {"idle", "waiting"}]
           /\ job' \in [Tasks -> Job]
  <1>1. NoSnapshot \in Registry
    BY DEF NoSnapshot, Registry
  <1>2. job[t] \in Job
    BY DEF TypeOK
  <1>3. Ended(job[t], status, names) \in Job
    BY <1>1, <1>2 DEF Ended, Job, Statuses
  <1> QED
    BY <1>3 DEF Finish, TypeOK

(* The names of failed servers are names. *)
LEMMA DegradedNamesType ==
    ASSUME TypeOK, NEW t \in Tasks
    PROVE  DegradedNames(t) \in SUBSET Names
  <1>1. job[t].listed \in Registry
    BY DEF TypeOK, Job
  <1>2. ASSUME NEW i \in Registered(job[t].listed)
        PROVE  job[t].listed[i].name \in Names
    BY <1>1, <1>2 DEF Registered, Registry, ServerRecord
  <1> QED
    BY <1>2 DEF DegradedNames

(* The initial states are well typed. *)
LEMMA InitType == Init => TypeOK
  <1> SUFFICES ASSUME Init PROVE TypeOK
    OBVIOUS
  <1>1. NoSnapshot \in Registry /\ UniqueNames(NoSnapshot)
    BY DEF NoSnapshot, Registry, UniqueNames, Registered
  <1>2. IdleJob \in Job
    BY NewJobType DEF IdleJob
  <1>3. DOMAIN policy = {"servers", "groups"}
    BY DEF Init, EmptyPolicy
  <1> QED
    BY <1>1, <1>2, <1>3 DEF Init, TypeOK, Groups, UniqueTools

(* Admin writes keep the registry well typed and its names unique.         *)
LEMMA AdminType == ASSUME TypeOK, Admin PROVE TypeOK'
  <1> USE BuilderAssumption DEF AdminWrite, process
  <1>1. ASSUME NEW i \in ServerIds, NEW data \in ServerInputs, CreateServer(i, data)
        PROVE  TypeOK'
    <2>1. data \in ServerRecord
      BY DEF BuilderAssumption
    <2>2. servers' \in Registry
      BY <1>1, <2>1 DEF CreateServer, TypeOK, Registry
    <2>3. UniqueNames(servers')
      BY <1>1, <2>1 DEF CreateServer, TypeOK, Registry, UniqueNames, NameFree, Registered
    <2> QED
      BY <1>1, <2>2, <2>3 DEF CreateServer, TypeOK
  <1>2. ASSUME NEW i \in ServerIds, NEW data \in ServerInputs, UpdateServer(i, data)
        PROVE  TypeOK'
    <2>1. data \in ServerRecord
      BY DEF BuilderAssumption
    <2>2. servers' \in Registry
      BY <1>2, <2>1 DEF UpdateServer, TypeOK, Registry
    <2>3. UniqueNames(servers')
      BY <1>2, <2>1 DEF UpdateServer, TypeOK, Registry, UniqueNames, NameFree, Registered
    <2> QED
      BY <1>2, <2>2, <2>3 DEF UpdateServer, TypeOK
  <1>3. ASSUME NEW i \in ServerIds, DeleteServer(i)
        PROVE  TypeOK'
    <2>1. servers' \in Registry /\ UniqueNames(servers')
      BY <1>3 DEF DeleteServer, TypeOK, Registry, UniqueNames, Registered
    <2> QED
      BY <1>3, <2>1 DEF DeleteServer, TypeOK
  <1>4. ASSUME NEW g \in GroupNames, NEW data \in GroupInputs \cup {NoServer},
               WriteGroup(g, data)
        PROVE  TypeOK'
    BY <1>4 DEF WriteGroup, TypeOK, Groups, BuilderAssumption
  <1> QED
    BY <1>1, <1>2, <1>3, <1>4 DEF Admin

(* Every step of an operation keeps the types.                             *)
LEMMA StepType == ASSUME TypeOK, NEW t \in Tasks, Step(t) PROVE TypeOK'
  <1> USE DEF persistent, mounted, Goto
  <1>0. job[t] \in Job /\ servers \in Registry
    BY DEF TypeOK
  <1>1. CASE ListNames(t)
    <2>1. [job[t] EXCEPT !.listed = servers] \in Job
      BY <1>0 DEF Job
    <2> QED
      BY <1>1, <2>1 DEF ListNames, TypeOK, Inside
  <1>2. CASE LookupServer(t)
    <2>1. CASE servers[job[t].target] = NoServer
      <3>1. Finish(t, "unknown", {})
        BY <1>2, <2>1 DEF LookupServer
      <3> QED
        BY <1>2, <2>1, <3>1, FinishType DEF LookupServer, TypeOK, Statuses
    <2>2. CASE servers[job[t].target] # NoServer
      <3> DEFINE found == [NoSnapshot EXCEPT ![job[t].target] = servers[job[t].target]]
      <3>1. found \in Registry
        <4>1. NoSnapshot \in Registry
          BY DEF NoSnapshot, Registry
        <4> QED
          BY <4>1, <1>0 DEF Registry, Job, NoSnapshot
      <3>2. [job[t] EXCEPT !.scan = found] \in Job
        BY <1>0, <3>1 DEF Job
      <3> QED
        BY <1>2, <2>2, <3>2 DEF LookupServer, TypeOK, Inside
    <2> QED
      BY <2>1, <2>2
  <1>3. CASE ReadServers(t)
    <2>1. [[job[t] EXCEPT !.mounting = servers] EXCEPT !.mountingAt = writes] \in Job
      BY <1>0 DEF Job, TypeOK
    <2> QED
      BY <1>3, <2>1 DEF ReadServers, TypeOK, Inside
  <1>4. CASE RebuildMounts(t)
    <2>1. /\ DOMAIN policy' = {"servers", "groups"}
          /\ mounts' \in SUBSET Mount
          /\ mountedAt' \in [servers : Int, groups : Int]
      <3>1. job[t].mounting \in Registry /\ job[t].mountingAt \in Nat
        BY <1>0 DEF Job
      <3>2. policy' = Compile(job[t].mounting, groups)
        BY <1>4 DEF RebuildMounts
      <3>3. DOMAIN policy' = {"servers", "groups"}
        BY <3>2 DEF Compile
      <3>4. MountsOf(job[t].mounting) \in SUBSET Mount
        BY <3>1 DEF MountsOf, Enabled, Registered, Registry, ServerRecord, Mount
      <3> QED
        BY <1>4, <3>1, <3>3, <3>4 DEF RebuildMounts, TypeOK
    <2>2. CASE AfterMounting(t) = "idle"
      <3>1. Finish(t, "ok", {})
        BY <1>4, <2>2 DEF RebuildMounts
      <3> QED
        BY <1>4, <2>1, <3>1, FinishType DEF RebuildMounts, TypeOK, Statuses
    <2>3. CASE AfterMounting(t) # "idle"
      <3>1. AfterMounting(t) \in Inside
        BY <2>3 DEF AfterMounting, Inside
      <3> QED
        BY <1>4, <2>1, <2>3, <3>1 DEF RebuildMounts, TypeOK
    <2> QED
      BY <2>2, <2>3
  <1>5. CASE ListForCatalog(t)
    <2>1. [job[t] EXCEPT !.scan = servers] \in Job
      BY <1>0 DEF Job
    <2> QED
      BY <1>5, <2>1 DEF ListForCatalog, TypeOK, Inside
  <1>6. CASE Introspect(t)
    <2> DEFINE answers(failed) == Introspected(job[t].scan, Enabled(job[t].scan) \ failed)
    <2>1. PICK failed \in SUBSET Enabled(job[t].scan) :
            IF job[t].op = "refresh_server" /\ failed # {}
            THEN Finish(t, "degraded", {})
            ELSE /\ job' = [job EXCEPT ![t].failed = failed, ![t].rows = answers(failed)]
                 /\ Goto(t, IF failed # {} THEN "retain" ELSE "write")
      BY <1>6 DEF Introspect
    <2>2. CASE job[t].op = "refresh_server" /\ failed # {}
      <3>1. Finish(t, "degraded", {})
        BY <2>1, <2>2
      <3> QED
        BY <1>6, <3>1, FinishType DEF Introspect, TypeOK, Statuses
    <2>3. CASE ~(job[t].op = "refresh_server" /\ failed # {})
      <3>1. failed \in SUBSET ServerIds /\ answers(failed) \in SUBSET Row
        BY DEF Enabled, Registered, Introspected
      <3>2. [[job[t] EXCEPT !.failed = failed] EXCEPT !.rows = answers(failed)] \in Job
        <4> HIDE DEF answers
        <4> QED
          BY <1>0, <3>1 DEF Job
      <3>3. job' = [job EXCEPT ![t] =
                      [[job[t] EXCEPT !.failed = failed] EXCEPT !.rows = answers(failed)]]
        <4> HIDE DEF answers
        <4> QED
          BY <2>1, <2>3, <1>0 DEF TypeOK
      <3> HIDE DEF answers
      <3> QED
        BY <1>6, <2>1, <2>3, <3>2, <3>3 DEF Introspect, TypeOK, Inside
    <2> QED
      BY <2>2, <2>3
  <1>7. CASE Retain(t)
    <2> DEFINE kept == job[t].rows \cup {r \in catalog : r.server_id \in job[t].failed}
    <2>1. kept \in SUBSET Row
      BY <1>0 DEF TypeOK, Job
    <2>2. [job[t] EXCEPT !.rows = kept] \in Job
      <3> HIDE DEF kept
      <3> QED
        BY <1>0, <2>1 DEF Job
    <2>3. job' = [job EXCEPT ![t] = [job[t] EXCEPT !.rows = kept]]
      BY <1>7 DEF Retain, TypeOK
    <2> HIDE DEF kept
    <2> QED
      BY <1>7, <2>2, <2>3 DEF Retain, TypeOK, Inside
  <1>8. CASE WriteCatalog(t)
    <2>1. CASE UniqueTools(Written(t))
      <3>1. Finish(t, "ok", DegradedNames(t)) /\ catalog' = Written(t)
        BY <1>8, <2>1 DEF WriteCatalog
      <3>2. Written(t) \in SUBSET Row
        BY <1>0 DEF Written, TypeOK, Job
      <3>3. DegradedNames(t) \in SUBSET Names
        BY DegradedNamesType
      <3> QED
        BY <1>8, <2>1, <3>1, <3>2, <3>3, FinishType DEF WriteCatalog, TypeOK, Statuses
    <2>2. CASE ~UniqueTools(Written(t))
      <3>1. Finish(t, "integrity_error", {}) /\ UNCHANGED catalog
        BY <1>8, <2>2 DEF WriteCatalog
      <3> QED
        BY <1>8, <3>1, FinishType DEF WriteCatalog, TypeOK, Statuses
    <2> QED
      BY <2>1, <2>2
  <1> QED
    BY <1>1, <1>2, <1>3, <1>4, <1>5, <1>6, <1>7, <1>8 DEF Step

(* The type invariant is inductive. *)
LEMMA NextType == ASSUME TypeOK, [Next]_vars PROVE TypeOK'
  <1> USE DEF persistent, mounted, process
  <1>1. ASSUME NEW t \in Tasks, NEW operation \in TaskOps, NEW target \in issued \cup {NoServer},
               Call(t, operation, target)
        PROVE  TypeOK'
    <2>1. NewJob(operation, target) \in Job
      BY NewJobType, BuilderAssumption DEF TypeOK
    <2> QED
      BY <1>1, <2>1 DEF Call, Begin, TypeOK
  <1>2. ASSUME NEW t \in Tasks, Acquire(t) PROVE TypeOK'
    <2>1. [job[t] EXCEPT !.began = writes] \in Job
      BY DEF TypeOK, Job
    <2>2. FirstStep(job[t].op) \in Inside
      BY DEF FirstStep, Inside
    <2> QED
      BY <1>2, <2>1, <2>2 DEF Acquire, TypeOK
  <1>3. ASSUME NEW t \in Tasks, Step(t) PROVE TypeOK'
    BY <1>3, StepType
  <1>4. CASE Admin
    BY <1>4, AdminType
  <1>5. ASSUME NEW i \in ServerIds, NEW tools \in SUBSET Bares, UpstreamChanges(i, tools)
        PROVE  TypeOK'
    BY <1>5 DEF UpstreamChanges, TypeOK
  <1>6. CASE Boot
    <2>1. \A operation \in Operations : NewJob(operation, NoServer) \in Job
      BY NewJobType
    <2>2. job' \in [Tasks -> Job] /\ pc' \in [Tasks -> Inside \cup {"idle", "waiting"}]
      BY <1>6, <2>1 DEF Boot, Begin, TypeOK, Operations
    <2> QED
      BY <1>6, <2>2 DEF Boot, TypeOK
  <1>7. CASE Serve
    <2>1. NewJob("refresh_catalog", NoServer) \in Job
      BY NewJobType DEF Operations
    <2>2. job' \in [Tasks -> Job] /\ pc' \in [Tasks -> Inside \cup {"idle", "waiting"}]
      BY <1>7, <2>1 DEF Serve, Begin, TypeOK
    <2> QED
      BY <1>7, <2>2 DEF Serve, TypeOK
  <1>8. CASE Stop
    <2>1. IdleJob \in Job
      BY NewJobType DEF IdleJob
    <2>2. DOMAIN policy' = {"servers", "groups"}
      BY <1>8 DEF Stop, EmptyPolicy
    <2>3. mountedAt' \in [servers : Int, groups : Int]
      BY <1>8 DEF Stop
    <2> QED
      BY <1>8, <2>1, <2>2, <2>3 DEF Stop, TypeOK
  <1>9. CASE UNCHANGED vars
    BY <1>9 DEF vars, TypeOK
  <1> QED
    BY <1>1, <1>2, <1>3, <1>4, <1>5, <1>6, <1>7, <1>8, <1>9 DEF Next

-----------------------------------------------------------------------------
(* The lock *)

(* A step is taken inside the lock, and either stays inside or returns.    *)
LEMMA StepShape ==
    ASSUME NEW t \in Tasks, Step(t)
    PROVE  /\ pc[t] \in Inside
           /\ \/ \E place \in Inside : Goto(t, place)
              \/ \E status \in Statuses : \E names : Finish(t, status, names)
  <1>1. AfterMounting(t) \in Inside \cup {"idle"}
    BY DEF AfterMounting, Inside
  <1> USE DEF Inside, Statuses
  <1>2. CASE ListNames(t) \/ ReadServers(t) \/ ListForCatalog(t) \/ Retain(t)
    BY <1>2 DEF ListNames, ReadServers, ListForCatalog, Retain
  <1>3. CASE LookupServer(t)
    BY <1>3 DEF LookupServer
  <1>4. CASE RebuildMounts(t)
    BY <1>1, <1>4 DEF RebuildMounts
  <1>5. CASE Introspect(t)
    BY <1>5 DEF Introspect
  <1>6. CASE WriteCatalog(t)
    BY <1>6 DEF WriteCatalog
  <1> QED
    BY <1>2, <1>3, <1>4, <1>5, <1>6 DEF Step

(* A stopped process leaves no operation, and none begins before a boot.  *)
LEMMA NextDownIsIdle ==
    ASSUME TypeOK, DownIsIdle, [Next]_vars PROVE DownIsIdle'
  <1>1. CASE Stop
    BY <1>1 DEF Stop, DownIsIdle
  <1>2. ASSUME phase = "down", ~Stop, ~Boot PROVE UNCHANGED pc
    <2>1. \A t \in Tasks : pc[t] = "idle"
      BY <1>2 DEF DownIsIdle
    <2>2. ASSUME NEW t \in Tasks PROVE ~Step(t) /\ ~Acquire(t)
      BY <2>1, StepShape DEF Acquire, Inside
    <2>3. \A t \in Tasks : \A operation, target : ~Call(t, operation, target)
      BY <1>2 DEF Call
    <2>4. Admin => UNCHANGED pc
      BY DEF Admin, CreateServer, UpdateServer, DeleteServer, WriteGroup, AdminWrite, process
    <2>5. ~Serve
      BY <1>2 DEF Serve
    <2>6. \A i \in ServerIds, tools \in SUBSET Bares : UpstreamChanges(i, tools) => UNCHANGED pc
      BY DEF UpstreamChanges, process
    <2> QED
      BY <1>2, <2>2, <2>3, <2>4, <2>5, <2>6 DEF Next, vars
  <1>3. ASSUME phase' = "down", ~Stop PROVE phase = "down" /\ ~Boot
    <2>1. \A t \in Tasks : Step(t) \/ Acquire(t) => UNCHANGED phase
      BY DEF Step, Acquire, ListNames, LookupServer, ReadServers, RebuildMounts,
             ListForCatalog, Introspect, Retain, WriteCatalog
    <2>2. \A t \in Tasks : \A operation, target : Call(t, operation, target) => UNCHANGED phase
      BY DEF Call
    <2>3. Admin => UNCHANGED phase
      BY DEF Admin, CreateServer, UpdateServer, DeleteServer, WriteGroup, AdminWrite, process
    <2>4. ~Serve /\ ~Boot
      BY <1>3 DEF Serve, Boot
    <2>5. \A i \in ServerIds, tools \in SUBSET Bares :
            UpstreamChanges(i, tools) => UNCHANGED phase
      BY DEF UpstreamChanges, process
    <2> QED
      BY <1>3, <2>1, <2>2, <2>3, <2>4, <2>5 DEF Next, vars
  <1> QED
    BY <1>1, <1>2, <1>3 DEF DownIsIdle

(* Mutual exclusion is inductive: a task enters only a free lock, and its  *)
(* last step, result or exception, frees it.                               *)
LEMMA NextMutualExclusion ==
    ASSUME TypeOK, DownIsIdle, MutualExclusion, [Next]_vars PROVE MutualExclusion'
  <1> USE BuilderAssumption DEF BuilderAssumption
  <1>1. ASSUME NEW t \in Tasks, NEW operation \in TaskOps, NEW target \in issued \cup {NoServer},
               Call(t, operation, target)
        PROVE  MutualExclusion'
    BY <1>1 DEF Call, Begin, MutualExclusion, TypeOK, Inside
  <1>2. ASSUME NEW t \in Tasks, Acquire(t) PROVE MutualExclusion'
    <2>1. FirstStep(job[t].op) \in Inside
      BY DEF FirstStep, Inside
    <2> QED
      BY <1>2, <2>1 DEF Acquire, MutualExclusion, TypeOK
  <1>3. ASSUME NEW t \in Tasks, Step(t) PROVE MutualExclusion'
    <2>1. lock = t
      BY <1>3, StepShape DEF MutualExclusion
    <2>2. CASE \E place \in Inside : Goto(t, place)
      BY <2>1, <2>2 DEF Goto, MutualExclusion, TypeOK
    <2>3. CASE \E status \in Statuses : \E names : Finish(t, status, names)
      <3>1. pc' = [pc EXCEPT ![t] = "idle"] /\ lock' = NoTask
        BY <2>3 DEF Finish
      <3> QED
        BY <2>1, <3>1 DEF MutualExclusion, TypeOK, Inside
    <2> QED
      BY <1>3, <2>2, <2>3, StepShape
  <1>4. CASE Admin
    BY <1>4 DEF Admin, CreateServer, UpdateServer, DeleteServer, WriteGroup, AdminWrite,
                process, MutualExclusion
  <1>5. ASSUME NEW i \in ServerIds, NEW tools \in SUBSET Bares, UpstreamChanges(i, tools)
        PROVE  MutualExclusion'
    BY <1>5 DEF UpstreamChanges, process, MutualExclusion
  <1>6. CASE Boot
    <2>1. pc' = [pc EXCEPT ![Startup] = "waiting"] /\ UNCHANGED lock
      BY <1>6 DEF Boot, Begin
    <2> QED
      BY <1>6, <2>1 DEF Boot, DownIsIdle, MutualExclusion, TypeOK, Inside
  <1>7. CASE Serve
    BY <1>7 DEF Serve, Begin, MutualExclusion, TypeOK, Inside
  <1>8. CASE Stop
    BY <1>8 DEF Stop, MutualExclusion, Inside
  <1>9. CASE UNCHANGED vars
    BY <1>9 DEF vars, MutualExclusion
  <1> QED
    BY <1>1, <1>2, <1>3, <1>4, <1>5, <1>6, <1>7, <1>8, <1>9 DEF Next

-----------------------------------------------------------------------------
(* Snapshots *)

(* Only the step that rebuilds the mounts, and a stop, change what is      *)
(* mounted.                                                                *)
LEMMA MountedBy ==
    ASSUME [Next]_vars, ~Stop, \A t \in Tasks : ~RebuildMounts(t)
    PROVE  UNCHANGED mounted
  <1>1. \A t \in Tasks : Step(t) \/ Acquire(t) => UNCHANGED mounted
    BY DEF Step, Acquire, ListNames, LookupServer, ReadServers, ListForCatalog, Introspect,
           Retain, WriteCatalog
  <1>2. \A t \in Tasks : \A operation, target : Call(t, operation, target) => UNCHANGED mounted
    BY DEF Call
  <1>3. Admin => UNCHANGED mounted
    BY DEF Admin, CreateServer, UpdateServer, DeleteServer, WriteGroup, AdminWrite, process,
           mounted
  <1>4. \A i \in ServerIds, tools \in SUBSET Bares :
          UpstreamChanges(i, tools) => UNCHANGED mounted
    BY DEF UpstreamChanges, process, mounted
  <1>5. Boot \/ Serve => UNCHANGED mounted
    BY DEF Boot, Serve
  <1>6. UNCHANGED vars => UNCHANGED mounted
    BY DEF vars, mounted
  <1> QED
    BY <1>1, <1>2, <1>3, <1>4, <1>5, <1>6 DEF Next

(* Only the admin API changes the registry. *)
LEMMA RegistryBy ==
    ASSUME [Next]_vars, ~Admin PROVE UNCHANGED <<servers, groups, writes>>
  <1> USE DEF persistent
  <1>1. \A t \in Tasks : Step(t) \/ Acquire(t) => UNCHANGED <<servers, groups, writes>>
    BY DEF Step, Acquire, ListNames, LookupServer, ReadServers, RebuildMounts, ListForCatalog,
           Introspect, Retain, WriteCatalog
  <1>2. \A t \in Tasks : \A operation, target :
          Call(t, operation, target) => UNCHANGED <<servers, groups, writes>>
    BY DEF Call
  <1>3. \A i \in ServerIds, tools \in SUBSET Bares :
          UpstreamChanges(i, tools) => UNCHANGED <<servers, groups, writes>>
    BY DEF UpstreamChanges
  <1>4. Boot \/ Serve \/ Stop => UNCHANGED <<servers, groups, writes>>
    BY DEF Boot, Serve, Stop
  <1>5. UNCHANGED vars => UNCHANGED <<servers, groups, writes>>
    BY DEF vars
  <1> QED
    BY <1>1, <1>2, <1>3, <1>4, <1>5 DEF Next

(* Admin writes leave the process alone and advance the registry's version.*)
LEMMA AdminAdvances ==
    ASSUME Admin
    PROVE  writes' = writes + 1 /\ UNCHANGED <<catalog, pc, job, lock, policy, mounts, mountedAt>>
  BY DEF Admin, CreateServer, UpdateServer, DeleteServer, WriteGroup, AdminWrite, process

(* A task gets to the point where it mounts only by reading the servers.   *)
LEMMA AtGroups ==
    ASSUME TypeOK, [Next]_vars, NEW t \in Tasks, pc'[t] = "groups", ~ReadServers(t)
    PROVE  pc[t] = "groups" /\ job'[t] = job[t]
  <1>1. ASSUME NEW u \in Tasks, NEW operation, NEW target, Call(u, operation, target)
        PROVE  pc[t] = "groups" /\ job'[t] = job[t]
    BY <1>1 DEF Call, Begin, TypeOK
  <1>2. ASSUME NEW u \in Tasks, Acquire(u) PROVE pc[t] = "groups" /\ job'[t] = job[t]
    BY <1>2 DEF Acquire, FirstStep, TypeOK
  <1>3. ASSUME NEW u \in Tasks, Step(u) PROVE pc[t] = "groups" /\ job'[t] = job[t]
    <2>1. CASE u = t
      BY <1>3, <2>1 DEF Step, ListNames, LookupServer, RebuildMounts, ListForCatalog, Introspect,
         Retain, WriteCatalog, Finish, Goto, AfterMounting, TypeOK
    <2>2. CASE u # t
      BY <1>3, <2>2 DEF Step, ListNames, LookupServer, ReadServers, RebuildMounts,
         ListForCatalog, Introspect, Retain, WriteCatalog, Finish, Goto, TypeOK
    <2> QED
      BY <2>1, <2>2
  <1>4. CASE Admin
    BY <1>4, AdminAdvances
  <1>5. ASSUME NEW i \in ServerIds, NEW tools \in SUBSET Bares, UpstreamChanges(i, tools)
        PROVE  pc[t] = "groups" /\ job'[t] = job[t]
    BY <1>5 DEF UpstreamChanges, process
  <1>6. CASE Boot
    BY <1>6 DEF Boot, Begin, TypeOK
  <1>7. CASE Serve
    BY <1>7 DEF Serve, Begin, TypeOK
  <1>8. CASE Stop
    BY <1>8 DEF Stop
  <1>9. CASE UNCHANGED vars
    BY <1>9 DEF vars
  <1> QED
    BY <1>1, <1>2, <1>3, <1>4, <1>5, <1>6, <1>7, <1>8, <1>9 DEF Next

(* SnapshotsAreFresh is inductive: a snapshot is read and mounted under the*)
(* lock, and no other task mounts in between.                              *)
LEMMA NextSnapshotsAreFresh ==
    ASSUME IInv, [Next]_vars PROVE SnapshotsAreFresh'
  <1> USE DEF IInv
  <1>1. CASE Stop
    BY <1>1 DEF Stop, SnapshotsAreFresh, TypeOK
  <1>2. CASE Admin
    <2>1. writes' = writes + 1 /\ UNCHANGED <<pc, job, mountedAt>>
      BY <1>2, AdminAdvances
    <2>2. \A t \in Tasks : job[t].mountingAt \in Nat
      BY DEF TypeOK, Job
    <2> QED
      BY <2>1, <2>2 DEF SnapshotsAreFresh, TypeOK
  <1>3. ASSUME ~Stop, ~Admin, NEW u \in Tasks, RebuildMounts(u) PROVE SnapshotsAreFresh'
    <2>1. UNCHANGED <<servers, groups, writes>>
      BY <1>3, RegistryBy
    <2>2. pc[u] = "groups"
      BY <1>3 DEF RebuildMounts
    <2>3. mountedAt' = [servers |-> job[u].mountingAt, groups |-> writes]
      BY <1>3 DEF RebuildMounts
    <2>4. \A t \in Tasks : pc'[t] # "groups"
      <3> SUFFICES ASSUME NEW t \in Tasks, pc'[t] = "groups" PROVE FALSE
        OBVIOUS
      <3>1. pc'[u] # "groups"
        BY <1>3 DEF RebuildMounts, Finish, Goto, AfterMounting, TypeOK
      <3>2. ~ReadServers(t)
        <4>1. ASSUME ReadServers(t) PROVE lock = t /\ lock = u
          BY <2>2, <4>1 DEF ReadServers, MutualExclusion, Inside
        <4> QED
          BY <4>1, <2>2 DEF ReadServers
      <3>3. pc[t] = "groups"
        BY <3>2, AtGroups
      <3> QED
        BY <2>2, <3>1, <3>3 DEF MutualExclusion, Inside
    <2> QED
      BY <2>1, <2>2, <2>3, <2>4 DEF SnapshotsAreFresh, TypeOK
  <1>4. ASSUME ~Stop, ~Admin, \A u \in Tasks : ~RebuildMounts(u) PROVE SnapshotsAreFresh'
    <2>1. UNCHANGED <<servers, groups, writes>> /\ UNCHANGED mountedAt
      BY <1>4, RegistryBy, MountedBy DEF mounted
    <2>2. ASSUME NEW t \in Tasks, ReadServers(t)
          PROVE  job'[t].mountingAt = writes /\ job'[t].mounting = servers
      <3>1. job[t] \in Job
        BY DEF TypeOK
      <3> QED
        BY <2>2, <3>1 DEF ReadServers, TypeOK, Job
    <2>3. \A t \in Tasks :
            pc'[t] = "groups" =>
                /\ mountedAt'.servers <= job'[t].mountingAt
                /\ job'[t].mountingAt <= writes'
                /\ job'[t].mountingAt = writes' => job'[t].mounting = servers'
      BY <2>1, <2>2, AtGroups DEF SnapshotsAreFresh, TypeOK
    <2> QED
      BY <2>1, <2>3 DEF SnapshotsAreFresh
  <1> QED
    BY <1>1, <1>2, <1>3, <1>4

(* MountsAreCurrent is inductive, given that snapshots are fresh.          *)
LEMMA NextMountsAreCurrent ==
    ASSUME IInv, [Next]_vars PROVE MountsAreCurrent'
  <1> USE DEF IInv
  <1>1. CASE Stop
    BY <1>1 DEF Stop, MountsAreCurrent, TypeOK
  <1>2. CASE Admin
    <2>1. writes' = writes + 1 /\ UNCHANGED mountedAt
      BY <1>2, AdminAdvances
    <2> QED
      BY <2>1 DEF MountsAreCurrent, SnapshotsAreFresh, TypeOK
  <1>3. ASSUME ~Stop, ~Admin, NEW u \in Tasks, RebuildMounts(u) PROVE MountsAreCurrent'
    <2>1. UNCHANGED <<servers, groups, writes>>
      BY <1>3, RegistryBy
    <2>2. job[u].mountingAt = writes => job[u].mounting = servers
      BY <1>3 DEF RebuildMounts, SnapshotsAreFresh
    <2>3. /\ mountedAt'.servers = job[u].mountingAt
          /\ mounts' = MountsOf(job[u].mounting)
          /\ policy' = Compile(job[u].mounting, groups)
      BY <1>3 DEF RebuildMounts
    <2>4. MountsOf(servers)' = MountsOf(servers) /\ Compile(servers, groups)' = Compile(servers, groups)
      BY <2>1
    <2> QED
      BY <2>1, <2>2, <2>3, <2>4 DEF MountsAreCurrent
  <1>4. ASSUME ~Stop, ~Admin, \A u \in Tasks : ~RebuildMounts(u) PROVE MountsAreCurrent'
    <2>1. UNCHANGED <<servers, groups, writes>> /\ UNCHANGED <<policy, mounts, mountedAt>>
      BY <1>4, RegistryBy, MountedBy DEF mounted
    <2>2. MountsOf(servers)' = MountsOf(servers) /\ Compile(servers, groups)' = Compile(servers, groups)
      BY <2>1
    <2> QED
      BY <2>1, <2>2 DEF MountsAreCurrent
  <1> QED
    BY <1>1, <1>2, <1>3, <1>4
-----------------------------------------------------------------------------
(* The catalog *)

(* Only the store transaction at the end of an operation changes the rows. *)
LEMMA CatalogBy ==
    ASSUME [Next]_vars, \A t \in Tasks : ~WriteCatalog(t) PROVE UNCHANGED catalog
  <1> USE DEF persistent
  <1>1. \A t \in Tasks : Step(t) \/ Acquire(t) => UNCHANGED catalog
    BY DEF Step, Acquire, ListNames, LookupServer, ReadServers, RebuildMounts, ListForCatalog,
           Introspect, Retain
  <1>2. \A t \in Tasks : \A operation, target : Call(t, operation, target) => UNCHANGED catalog
    BY DEF Call
  <1>3. Admin => UNCHANGED catalog
    BY AdminAdvances
  <1>4. \A i \in ServerIds, tools \in SUBSET Bares :
          UpstreamChanges(i, tools) => UNCHANGED catalog
    BY DEF UpstreamChanges
  <1>5. Boot \/ Serve \/ Stop => UNCHANGED catalog
    BY DEF Boot, Serve, Stop
  <1>6. UNCHANGED vars => UNCHANGED catalog
    BY DEF vars
  <1> QED
    BY <1>1, <1>2, <1>3, <1>4, <1>5, <1>6 DEF Next

(* A step of one task leaves the locals and the place of the others alone. *)
LEMMA OthersUntouched ==
    ASSUME TypeOK, NEW u \in Tasks, Step(u) \/ Acquire(u), NEW t \in Tasks, t # u
    PROVE  pc'[t] = pc[t] /\ job'[t] = job[t]
  BY DEF Step, Acquire, ListNames, LookupServer, ReadServers, RebuildMounts, ListForCatalog,
         Introspect, Retain, WriteCatalog, Finish, Goto, TypeOK

(* What RetainedRowsAreHeld says of one task. *)
Holds(t) ==
    /\ pc[t] = "write" /\ job[t].op # "refresh_server" =>
            \A r \in catalog : r.server_id \in job[t].failed => r \in job[t].rows
    /\ pc[t] # "idle" /\ job[t].op = "refresh_server" =>
            job[t].failed = {} /\ pc[t] # "retain"

(* The task that takes a step holds the rows it must when it gets to the   *)
(* point of writing: it came there from introspection without a failure,   *)
(* from retaining, or as a refresh_server.                                 *)
LEMMA StepHolds ==
    ASSUME TypeOK, NEW u \in Tasks, Holds(u), Step(u) PROVE Holds(u)'
  <1> USE DEF Holds, persistent
  <1>0. job[u] \in Job
    BY DEF TypeOK
  <1>1. CASE ListNames(u)
    <2>1. pc'[u] \in {"servers", "scan"} /\ job'[u].op = job[u].op
          /\ job'[u].failed = job[u].failed
      BY <1>1, <1>0 DEF ListNames, Goto, TypeOK, Job
    <2> QED
      BY <1>1, <2>1 DEF ListNames
  <1>2. CASE LookupServer(u)
    <2>1. CASE servers[job[u].target] = NoServer
      BY <1>2, <2>1 DEF LookupServer, Finish, TypeOK
    <2>2. CASE servers[job[u].target] # NoServer
      <3>1. pc'[u] = "servers" /\ job'[u].op = job[u].op /\ job'[u].failed = job[u].failed
        BY <1>2, <2>2, <1>0 DEF LookupServer, Goto, TypeOK, Job
      <3> QED
        BY <1>2, <3>1 DEF LookupServer
    <2> QED
      BY <2>1, <2>2
  <1>3. CASE ReadServers(u)
    <2>1. pc'[u] = "groups" /\ job'[u].op = job[u].op /\ job'[u].failed = job[u].failed
      BY <1>3, <1>0 DEF ReadServers, Goto, TypeOK, Job
    <2> QED
      BY <1>3, <2>1 DEF ReadServers
  <1>4. CASE RebuildMounts(u)
    <2>1. CASE AfterMounting(u) = "idle"
      BY <1>4, <2>1 DEF RebuildMounts, Finish, TypeOK
    <2>2. CASE AfterMounting(u) # "idle"
      <3>1. pc'[u] = AfterMounting(u) /\ job' = job
        BY <1>4, <2>2 DEF RebuildMounts, Goto, TypeOK
      <3>2. AfterMounting(u) = "write" => job[u].op = "refresh_server"
        BY DEF AfterMounting
      <3>3. AfterMounting(u) # "retain"
        BY DEF AfterMounting
      <3> QED
        BY <1>4, <3>1, <3>2, <3>3 DEF RebuildMounts
    <2> QED
      BY <2>1, <2>2
  <1>5. CASE ListForCatalog(u)
    <2>1. pc'[u] = "introspect" /\ job'[u].op = job[u].op /\ job'[u].failed = job[u].failed
      BY <1>5, <1>0 DEF ListForCatalog, Goto, TypeOK, Job
    <2> QED
      BY <1>5, <2>1 DEF ListForCatalog
  <1>6. CASE Introspect(u)
    <2> DEFINE answers(failed) == Introspected(job[u].scan, Enabled(job[u].scan) \ failed)
    <2>1. PICK failed \in SUBSET Enabled(job[u].scan) :
            IF job[u].op = "refresh_server" /\ failed # {}
            THEN Finish(u, "degraded", {})
            ELSE /\ job' = [job EXCEPT ![u].failed = failed, ![u].rows = answers(failed)]
                 /\ Goto(u, IF failed # {} THEN "retain" ELSE "write")
      BY <1>6 DEF Introspect
    <2> HIDE DEF answers
    <2>2. CASE job[u].op = "refresh_server" /\ failed # {}
      BY <2>1, <2>2 DEF Finish, TypeOK
    <2>3. CASE ~(job[u].op = "refresh_server" /\ failed # {})
      <3>1. job'[u].op = job[u].op /\ job'[u].failed = failed
        BY <2>1, <2>3, <1>0 DEF TypeOK, Job
      <3>2. pc'[u] = IF failed # {} THEN "retain" ELSE "write"
        BY <2>1, <2>3 DEF Goto, TypeOK
      <3> QED
        BY <2>3, <3>1, <3>2
    <2> QED
      BY <2>2, <2>3
  <1>7. CASE Retain(u)
    <2> DEFINE kept == {r \in catalog : r.server_id \in job[u].failed}
    <2>1. pc[u] = "retain" /\ pc'[u] = "write" /\ UNCHANGED catalog
      BY <1>7 DEF Retain, Goto, TypeOK
    <2>2. job'[u].op = job[u].op /\ job'[u].failed = job[u].failed
          /\ job'[u].rows = job[u].rows \cup kept
      BY <1>7, <1>0 DEF Retain, TypeOK, Job
    <2> QED
      BY <2>1, <2>2
  <1>8. CASE WriteCatalog(u)
    BY <1>8 DEF WriteCatalog, Finish, TypeOK
  <1> QED
    BY <1>1, <1>2, <1>3, <1>4, <1>5, <1>6, <1>7, <1>8 DEF Step

(* RetainedRowsAreHeld is inductive: the catalog changes only under the    *)
(* lock, and then no other task is about to write.                         *)
LEMMA NextRetainedRowsAreHeld ==
    ASSUME IInv, [Next]_vars PROVE RetainedRowsAreHeld'
  <1> USE DEF IInv
  <1> SUFFICES ASSUME NEW t \in Tasks PROVE Holds(t)'
    BY DEF RetainedRowsAreHeld, Holds
  <1>0. Holds(t)
    BY DEF RetainedRowsAreHeld, Holds
  <1>1. ASSUME NEW u \in Tasks, NEW operation \in TaskOps, NEW target \in issued \cup {NoServer},
               Call(u, operation, target)
        PROVE  Holds(t)'
    <2>1. UNCHANGED catalog
      BY <1>1 DEF Call, persistent
    <2>2. CASE t = u
      <3>1. pc'[t] = "waiting" /\ job'[t] = NewJob(operation, target)
        BY <1>1, <2>2 DEF Call, Begin, TypeOK
      <3> QED
        BY <3>1 DEF Holds, NewJob
    <2>3. CASE t # u
      BY <1>0, <1>1, <2>1, <2>3 DEF Call, Begin, Holds, TypeOK
    <2> QED
      BY <2>2, <2>3
  <1>2. ASSUME NEW u \in Tasks, Acquire(u) PROVE Holds(t)'
    <2>1. UNCHANGED catalog
      BY <1>2 DEF Acquire, persistent
    <2>2. CASE t = u
      <3>1. job[t] \in Job
        BY DEF TypeOK
      <3>2. job'[t].op = job[t].op /\ job'[t].failed = job[t].failed
        BY <1>2, <2>2, <3>1 DEF Acquire, TypeOK, Job
      <3>3. pc[t] = "waiting" /\ pc'[t] \in {"list", "lookup", "servers"}
        BY <1>2, <2>2 DEF Acquire, FirstStep, TypeOK
      <3> QED
        BY <1>0, <3>2, <3>3 DEF Holds
    <2>3. CASE t # u
      BY <1>0, <1>2, <2>1, <2>3, OthersUntouched DEF Holds
    <2> QED
      BY <2>2, <2>3
  <1>3. ASSUME NEW u \in Tasks, Step(u) PROVE Holds(t)'
    <2>1. CASE t = u
      BY <1>0, <1>3, <2>1, StepHolds
    <2>2. CASE t # u
      <3>1. pc'[t] = pc[t] /\ job'[t] = job[t]
        BY <1>3, <2>2, OthersUntouched
      <3>2. pc[t] # "write"
        BY <1>3, <2>2, StepShape DEF MutualExclusion, Inside
      <3> QED
        BY <1>0, <3>1, <3>2 DEF Holds
    <2> QED
      BY <2>1, <2>2
  <1>4. CASE Admin
    BY <1>0, <1>4, AdminAdvances DEF Holds
  <1>5. ASSUME NEW i \in ServerIds, NEW tools \in SUBSET Bares, UpstreamChanges(i, tools)
        PROVE  Holds(t)'
    BY <1>0, <1>5 DEF UpstreamChanges, persistent, process, Holds
  <1>6. ASSUME NEW operation, UNCHANGED catalog, Begin(Startup, operation, NoServer)
        PROVE  Holds(t)'
    <2>1. CASE t = Startup
      <3>1. pc'[t] = "waiting" /\ job'[t] = NewJob(operation, NoServer)
        BY <1>6, <2>1 DEF Begin, TypeOK
      <3> QED
        BY <3>1 DEF Holds, NewJob
    <2>2. CASE t # Startup
      BY <1>0, <1>6, <2>2 DEF Begin, Holds, TypeOK
    <2> QED
      BY <2>1, <2>2
  <1>7. CASE Boot
    BY <1>6, <1>7 DEF Boot, persistent
  <1>8. CASE Serve
    <2>1. UNCHANGED catalog
      BY <1>8 DEF Serve, persistent
    <2>2. CASE StartupCatalog = "background"
      BY <1>6, <1>8, <2>1, <2>2 DEF Serve
    <2>3. CASE StartupCatalog # "background"
      BY <1>0, <1>8, <2>1, <2>3 DEF Serve, Holds
    <2> QED
      BY <2>2, <2>3
  <1>9. CASE Stop
    BY <1>9 DEF Stop, Holds
  <1>10. CASE UNCHANGED vars
    BY <1>0, <1>10 DEF vars, Holds
  <1> QED
    BY <1>1, <1>2, <1>3, <1>4, <1>5, <1>7, <1>8, <1>9, <1>10 DEF Next
-----------------------------------------------------------------------------
(* Startup *)

(* A policy that was built stays built until the process stops.            *)
LEMMA StaysBuilt == ASSUME TypeOK, [Next]_vars, ~Stop, Built PROVE Built'
  <1>1. ASSUME NEW u \in Tasks, RebuildMounts(u) PROVE Built'
    <2>1. job[u].mountingAt \in Nat
      BY DEF TypeOK, Job
    <2> QED
      BY <1>1, <2>1 DEF RebuildMounts, Built, TypeOK
  <1>2. ASSUME \A u \in Tasks : ~RebuildMounts(u) PROVE Built'
    BY <1>2, MountedBy DEF mounted, Built
  <1> QED
    BY <1>1, <1>2

(* Only booting, serving and stopping change the phase.                    *)
LEMMA PhaseBy ==
    ASSUME [Next]_vars, ~Boot, ~Serve, ~Stop PROVE UNCHANGED phase
  <1>1. \A t \in Tasks : Step(t) \/ Acquire(t) => UNCHANGED phase
    BY DEF Step, Acquire, ListNames, LookupServer, ReadServers, RebuildMounts, ListForCatalog,
           Introspect, Retain, WriteCatalog
  <1>2. \A t \in Tasks : \A operation, target : Call(t, operation, target) => UNCHANGED phase
    BY DEF Call
  <1>3. Admin => UNCHANGED phase
    BY DEF Admin, CreateServer, UpdateServer, DeleteServer, WriteGroup, AdminWrite, process
  <1>4. \A i \in ServerIds, tools \in SUBSET Bares :
          UpstreamChanges(i, tools) => UNCHANGED phase
    BY DEF UpstreamChanges, process
  <1>5. UNCHANGED vars => UNCHANGED phase
    BY DEF vars
  <1> QED
    BY <1>1, <1>2, <1>3, <1>4, <1>5 DEF Next

(* A step of the startup task keeps it: it cannot get past the mounts      *)
(* without building them.                                                  *)
LEMMA StartupStep ==
    ASSUME TypeOK, [Next]_vars, ~Stop, BuildsFirst, Step(Startup) PROVE BuildsFirst'
  <1> USE BuilderAssumption DEF BuilderAssumption, BuildsFirst
  <1> DEFINE u == Startup
  <1>0. u \in Tasks /\ job[u] \in Job
    BY DEF TypeOK
  <1>1. Built => Built'
    BY StaysBuilt
  <1>2. CASE ListNames(u)
    <2>1. pc'[u] = "servers" /\ job'[u].op = job[u].op
      BY <1>2, <1>0 DEF ListNames, Goto, TypeOK, Job
    <2> QED
      BY <2>1
  <1>3. CASE LookupServer(u)
    <2>1. job'[u].op = job[u].op
      BY <1>3, <1>0 DEF LookupServer, Finish, Ended, TypeOK, Job
    <2>2. pc'[u] = "servers" \/ (pc'[u] = "idle" /\ job'[u].status = "unknown")
      BY <1>3, <1>0 DEF LookupServer, Goto, Finish, Ended, TypeOK
    <2> QED
      BY <2>1, <2>2
  <1>4. CASE ReadServers(u)
    <2>1. pc'[u] = "groups" /\ job'[u].op = job[u].op
      BY <1>4, <1>0 DEF ReadServers, Goto, TypeOK, Job
    <2> QED
      BY <2>1
  <1>5. CASE RebuildMounts(u)
    <2>1. Built'
      <3>1. job[u].mountingAt \in Nat
        BY <1>0 DEF Job
      <3> QED
        BY <1>5, <3>1 DEF RebuildMounts, Built, TypeOK
    <2>2. pc'[u] # "list" /\ job'[u].op = job[u].op
      BY <1>5, <1>0 DEF RebuildMounts, AfterMounting, Goto, Finish, Ended, TypeOK
    <2> QED
      BY <2>1, <2>2
  <1>6. CASE ListForCatalog(u)
    <2>1. pc[u] = "scan" /\ pc'[u] = "introspect" /\ job'[u].op = job[u].op
      BY <1>6, <1>0 DEF ListForCatalog, Goto, TypeOK, Job
    <2> QED
      BY <1>1, <2>1
  <1>7. CASE Introspect(u)
    <2> DEFINE answers(failed) == Introspected(job[u].scan, Enabled(job[u].scan) \ failed)
    <2>1. PICK failed \in SUBSET Enabled(job[u].scan) :
            IF job[u].op = "refresh_server" /\ failed # {}
            THEN Finish(u, "degraded", {})
            ELSE /\ job' = [job EXCEPT ![u].failed = failed, ![u].rows = answers(failed)]
                 /\ Goto(u, IF failed # {} THEN "retain" ELSE "write")
      BY <1>7 DEF Introspect
    <2> HIDE DEF answers
    <2>2. pc[u] = "introspect" /\ pc'[u] \in {"retain", "write"} /\ job'[u].op = job[u].op
      BY <1>7, <2>1, <1>0 DEF Introspect, Goto, TypeOK, Job
    <2> QED
      BY <1>1, <2>2
  <1>8. CASE Retain(u)
    <2>1. pc[u] = "retain" /\ pc'[u] = "write" /\ job'[u].op = job[u].op
      BY <1>8, <1>0 DEF Retain, Goto, TypeOK, Job
    <2> QED
      BY <1>1, <2>1
  <1>9. CASE WriteCatalog(u)
    <2>1. pc[u] = "write" /\ pc'[u] = "idle" /\ job'[u].op = job[u].op
      BY <1>9, <1>0 DEF WriteCatalog, Finish, Ended, TypeOK
    <2> QED
      BY <1>1, <2>1
  <1> QED
    BY <1>2, <1>3, <1>4, <1>5, <1>6, <1>7, <1>8, <1>9 DEF Step

(* StartupBuilds is inductive: no operation is called while the process    *)
(* starts, and serving waits for the startup operation.                    *)
LEMMA NextStartupBuilds ==
    ASSUME IInv, [Next]_vars PROVE StartupBuilds'
  <1> USE BuilderAssumption DEF BuilderAssumption, IInv
  <1>1. CASE Stop
    BY <1>1 DEF Stop, StartupBuilds
  <1>2. CASE Boot
    <2>1. phase' = "starting" /\ pc'[Startup] = "waiting"
      BY <1>2 DEF Boot, Begin, TypeOK
    <2>2. job'[Startup].op \in {"reload", "rebuild_mounts"}
      BY <1>2 DEF Boot, Begin, NewJob, TypeOK
    <2> QED
      BY <2>1, <2>2 DEF StartupBuilds, BuildsFirst
  <1>3. ASSUME Serve, ~Stop PROVE StartupBuilds'
    <2>1. phase' = "serving" /\ Built
      BY <1>3 DEF Serve, StartupBuilds, BuildsFirst
    <2>2. Built'
      BY <1>3, <2>1, StaysBuilt
    <2> QED
      BY <2>1, <2>2 DEF StartupBuilds
  <1>4. ASSUME ~Boot, ~Serve, ~Stop, phase = "serving" PROVE StartupBuilds'
    <2>1. UNCHANGED phase /\ Built'
      BY <1>4, PhaseBy, StaysBuilt DEF StartupBuilds
    <2> QED
      BY <1>4, <2>1 DEF StartupBuilds
  <1>5. ASSUME ~Boot, ~Serve, ~Stop, phase = "starting" PROVE StartupBuilds'
    <2>1. UNCHANGED phase
      BY <1>5, PhaseBy
    <2>2. BuildsFirst /\ (Built => Built')
      BY <1>5, StaysBuilt DEF StartupBuilds
    <2>3. ASSUME pc'[Startup] = pc[Startup], job'[Startup] = job[Startup] PROVE BuildsFirst'
      BY <2>2, <2>3 DEF BuildsFirst
    <2>4. ASSUME Step(Startup) PROVE BuildsFirst'
      BY <1>5, <2>2, <2>4, StartupStep
    <2>5. ASSUME Acquire(Startup) PROVE BuildsFirst'
      <3>1. job[Startup] \in Job
        BY DEF TypeOK
      <3>2. job'[Startup].op = job[Startup].op
        BY <2>5, <3>1 DEF Acquire, TypeOK, Job
      <3>3. pc'[Startup] \in {"list", "lookup", "servers"}
            /\ (pc'[Startup] = "list" => job[Startup].op # "rebuild_mounts")
        BY <2>5 DEF Acquire, FirstStep, TypeOK
      <3> QED
        BY <2>2, <3>2, <3>3 DEF BuildsFirst
    <2>6. ASSUME NEW u \in Tasks, Step(u) \/ Acquire(u) PROVE BuildsFirst'
      BY <2>3, <2>4, <2>5, <2>6, OthersUntouched
    <2>7. \A t \in Tasks : \A operation, target : ~Call(t, operation, target)
      BY <1>5 DEF Call
    <2>8. ASSUME Admin PROVE BuildsFirst'
      BY <2>3, <2>8, AdminAdvances
    <2>9. ASSUME NEW i \in ServerIds, NEW tools \in SUBSET Bares, UpstreamChanges(i, tools)
          PROVE  BuildsFirst'
      BY <2>3, <2>9 DEF UpstreamChanges, process
    <2>10. ASSUME UNCHANGED vars PROVE BuildsFirst'
      BY <2>3, <2>10 DEF vars
    <2>11. BuildsFirst'
      BY <1>5, <2>6, <2>7, <2>8, <2>9, <2>10 DEF Next
    <2> QED
      BY <1>5, <2>1, <2>11 DEF StartupBuilds
  <1>6. ASSUME ~Boot, ~Serve, ~Stop, phase = "down" PROVE StartupBuilds'
    BY <1>6, PhaseBy DEF StartupBuilds
  <1> QED
    BY <1>1, <1>2, <1>3, <1>4, <1>5, <1>6 DEF TypeOK

-----------------------------------------------------------------------------
(* Theorems *)

(* The conjuncts of IInv support each other and hold of every behaviour:   *)
(* the lock's holder alone is between two steps, its snapshots are fresh,  *)
(* and what it is about to write holds the rows it must.                   *)
THEOREM Invariance == Spec => []IInv
  <1>1. Init => IInv
    <2> SUFFICES ASSUME Init PROVE IInv
      OBVIOUS
    <2>1. TypeOK
      BY InitType
    <2>2. DownIsIdle /\ StartupBuilds
      BY DEF Init, DownIsIdle, StartupBuilds
    <2>3. MutualExclusion
      BY BuilderAssumption DEF Init, MutualExclusion, Inside, BuilderAssumption
    <2>4. SnapshotsAreFresh /\ MountsAreCurrent
      BY DEF Init, SnapshotsAreFresh, MountsAreCurrent
    <2>5. RetainedRowsAreHeld
      BY DEF Init, RetainedRowsAreHeld
    <2> QED
      BY <2>1, <2>2, <2>3, <2>4, <2>5 DEF IInv
  <1>2. IInv /\ [Next]_vars => IInv'
    <2> SUFFICES ASSUME IInv, [Next]_vars PROVE IInv'
      OBVIOUS
    <2>1. TypeOK /\ DownIsIdle /\ MutualExclusion
      BY DEF IInv
    <2>2. TypeOK' /\ DownIsIdle' /\ MutualExclusion'
      BY <2>1, NextType, NextDownIsIdle, NextMutualExclusion
    <2>3. StartupBuilds' /\ SnapshotsAreFresh' /\ MountsAreCurrent' /\ RetainedRowsAreHeld'
      BY NextStartupBuilds, NextSnapshotsAreFresh, NextMountsAreCurrent, NextRetainedRowsAreHeld
    <2> QED
      BY <2>2, <2>3 DEF IInv
  <1> QED
    BY <1>1, <1>2, PTL DEF Spec

(* Every variable keeps its type, names of servers and of catalogued tools *)
(* stay unique.                                                            *)
THEOREM TypeCorrectness == Spec => []TypeOK
  <1>1. IInv => TypeOK
    BY DEF IInv
  <1> QED
    BY <1>1, Invariance, PTL

(* The reload lock is exclusive and is let go by every return and raise.   *)
THEOREM LockIsExclusive == Spec => []MutualExclusion
  <1>1. IInv => MutualExclusion
    BY DEF IInv
  <1> QED
    BY <1>1, Invariance, PTL

(* A snapshot about to be mounted is never older than what is mounted.     *)
THEOREM FreshSnapshots == Spec => []SnapshotsAreFresh
  <1>1. IInv => SnapshotsAreFresh
    BY DEF IInv
  <1> QED
    BY <1>1, Invariance, PTL

(* Policy and mounts are those of the registry when no admin write came    *)
(* after the snapshots behind them.                                        *)
THEOREM CurrentMounts == Spec => []MountsAreCurrent
  <1>1. IInv => MountsAreCurrent
    BY DEF IInv
  <1> QED
    BY <1>1, Invariance, PTL

(* Whoever is about to replace the catalog holds the rows it must keep.    *)
THEOREM HeldRows == Spec => []RetainedRowsAreHeld
  <1>1. IInv => RetainedRowsAreHeld
    BY DEF IInv
  <1> QED
    BY <1>1, Invariance, PTL

(* Nothing is served under a policy that was not built.                    *)
THEOREM NeverServedUnbuilt == Spec => []ServedUnderPolicy
  <1>1. IInv => ServedUnderPolicy
    BY DEF IInv, StartupBuilds, Built, ServedUnderPolicy
  <1> QED
    BY <1>1, Invariance, PTL

(* No step but a stop brings an older registry back to what is mounted.    *)
THEOREM MountsAdvance == Spec => NeverGoesBack
  <1> DEFINE Advances ==
        phase' # "down" => /\ mountedAt'.servers >= mountedAt.servers
                           /\ mountedAt'.groups >= mountedAt.groups
  <1>1. IInv /\ [Next]_vars => [Advances]_vars
    <2> SUFFICES ASSUME IInv, [Next]_vars PROVE Advances
      OBVIOUS
    <2> USE DEF IInv
    <2>1. CASE Stop
      BY <2>1 DEF Stop
    <2>2. ASSUME NEW u \in Tasks, RebuildMounts(u) PROVE Advances
      <3>1. mountedAt' = [servers |-> job[u].mountingAt, groups |-> writes]
        BY <2>2 DEF RebuildMounts
      <3>2. mountedAt.servers <= job[u].mountingAt /\ mountedAt.groups <= writes
        BY <2>2 DEF RebuildMounts, SnapshotsAreFresh
      <3>3. job[u].mountingAt \in Nat
        BY DEF TypeOK, Job
      <3> QED
        BY <3>1, <3>2, <3>3 DEF TypeOK
    <2>3. ASSUME ~Stop, \A u \in Tasks : ~RebuildMounts(u) PROVE Advances
      BY <2>3, MountedBy DEF mounted, TypeOK
    <2> QED
      BY <2>1, <2>2, <2>3
  <1> HIDE DEF Advances
  <1>2. [][Advances]_vars => NeverGoesBack
    <2> USE DEF Advances
    <2> QED
      BY PTL DEF NeverGoesBack
  <1> QED
    BY <1>1, <1>2, Invariance, PTL DEF Spec

(* The rows of a server that failed introspection survive every operation: *)
(* rows go only when the writer of the catalog did not fail to reach their *)
(* server.                                                                 *)
THEOREM LastKnownRowsAreKept == Spec => LastKnownKept
  <1> DEFINE Kept ==
        \A r \in catalog \ catalog' :
            \E t \in Tasks : /\ pc[t] = "write"
                             /\ job[t].op = "refresh_server" => r.server_id = job[t].target
                             /\ r.server_id \notin job[t].failed
  <1>1. IInv /\ [Next]_vars => [Kept]_vars
    <2> SUFFICES ASSUME IInv, [Next]_vars, NEW r \in catalog \ catalog'
                 PROVE  \E t \in Tasks :
                            /\ pc[t] = "write"
                            /\ job[t].op = "refresh_server" => r.server_id = job[t].target
                            /\ r.server_id \notin job[t].failed
      OBVIOUS
    <2>1. PICK u \in Tasks : WriteCatalog(u)
      BY CatalogBy
    <2>2. pc[u] = "write" /\ catalog' = Written(u)
      BY <2>1 DEF WriteCatalog
    <2>3. CASE job[u].op = "refresh_server"
      <3>1. job[u].failed = {}
        BY <2>2, <2>3 DEF IInv, RetainedRowsAreHeld
      <3>2. r.server_id = job[u].target
        BY <2>2, <2>3 DEF Written
      <3> QED
        BY <2>2, <3>1, <3>2
    <2>4. CASE job[u].op # "refresh_server"
      <3>1. r \notin job[u].rows
        BY <2>2, <2>4 DEF Written
      <3>2. r.server_id \notin job[u].failed
        BY <2>2, <2>4, <3>1 DEF IInv, RetainedRowsAreHeld
      <3> QED
        BY <2>2, <2>4, <3>2
    <2> QED
      BY <2>3, <2>4
  <1> HIDE DEF Kept
  <1>2. [][Kept]_vars => LastKnownKept
    <2> USE DEF Kept
    <2> QED
      BY PTL DEF LastKnownKept
  <1> QED
    BY <1>1, <1>2, Invariance, PTL DEF Spec

-----------------------------------------------------------------------------
(* Reloads that settle *)

Named(r) == [server_id |-> r.server_id, namespace |-> r.namespace] \in MountsOf(servers)

(* What an operation's place says of it. *)
Path(u) ==
    /\ job[u].began <= writes
    /\ pc[u] \notin {"idle", "retain", "write"} => job[u].rows = {} /\ job[u].failed = {}
    /\ pc[u] = "lookup" => job[u].op = "refresh_server"
    /\ pc[u] \in {"list", "scan"} => job[u].op \notin {"refresh_server", "rebuild_mounts"}
    /\ pc[u] \in {"servers", "groups"} => job[u].op \in {"reload", "rebuild_mounts", "refresh_server"}
    /\ pc[u] \in {"introspect", "retain", "write"} => job[u].op # "rebuild_mounts"

(* What an operation has read is the registry, if nothing was written      *)
(* since it took the lock; what it collected is named accordingly.         *)
Known(u) ==
    pc[u] \in Inside /\ job[u].began = writes =>
        /\ job[u].op \in {"reload", "refresh_catalog"} /\ pc[u] # "list" => job[u].listed = servers
        /\ job[u].op = "reload" /\ pc[u] = "groups" => job[u].mountingAt = writes
        /\ job[u].op = "reload" /\ pc[u] \in {"scan", "introspect", "retain", "write"} =>
                mountedAt.servers = writes /\ mountedAt.groups = writes
        /\ \/ job[u].op = "refresh_server" /\ pc[u] # "lookup"
           \/ pc[u] \in {"introspect", "retain", "write"}
           => \A i \in Enabled(job[u].scan) :
                i \in Enabled(servers) /\ job[u].scan[i] = servers[i]
        /\ pc[u] \in {"retain", "write"} => job[u].failed \subseteq Enabled(servers)
        /\ pc[u] = "retain" => \A r \in job[u].rows : Named(r)
        /\ pc[u] = "write" => \A r \in job[u].rows : r.server_id \in job[u].failed \/ Named(r)

Settled(t) ==
    pc[t] = "idle" /\ job[t].op = "reload" /\ job[t].status = "ok" /\ job[t].began = writes

(* While nothing is written, those who come after a settled reload read    *)
(* what it read, and bring no other row into the catalog.                  *)
Lasts(t) ==
    Settled(t) =>
        /\ mountedAt.servers = writes /\ mountedAt.groups = writes
        /\ \A r \in catalog : r.server_id \in job[t].failed \/ Named(r)
        /\ \A u \in Tasks : pc[u] \in Inside => job[u].began = writes
        /\ \A u \in Tasks : pc[u] = "write" =>
                \A r \in job[u].rows : r.server_id \in job[t].failed \/ Named(r)

Exact(t) ==
    pc[t] = "idle" /\ job[t].op \in {"reload", "refresh_catalog"}
        /\ job[t].status = "ok" /\ job[t].began = writes
    => job[t].degraded = {servers[i].name : i \in job[t].failed}

SettleInv == \A t \in Tasks : Path(t) /\ Known(t) /\ Lasts(t) /\ Exact(t)

(* An operation that has ended keeps its name, its start and its failures. *)
LEMMA Finished ==
    ASSUME TypeOK, NEW u \in Tasks, NEW status, NEW names, Finish(u, status, names)
    PROVE  /\ pc'[u] = "idle" /\ job'[u].op = job[u].op /\ job'[u].began = job[u].began
           /\ job'[u].failed = job[u].failed /\ job'[u].status = status
           /\ job'[u].degraded = names
  BY DEF Finish, Ended, TypeOK

(* A step leaves what the operation has seen of the registry since it began. *)
LEMMA BeganStays ==
    ASSUME TypeOK, NEW u \in Tasks, Step(u)
    PROVE  job'[u].began = job[u].began
  <1>0. job[u] \in Job
    BY DEF TypeOK
  <1>1. ASSUME NEW status, NEW names, Finish(u, status, names)
        PROVE  job'[u].began = job[u].began
    BY <1>1, Finished
  <1>2. CASE job' = job
    BY <1>2
  <1>3. CASE ListNames(u)
    BY <1>0, <1>3 DEF ListNames, TypeOK, Job
  <1>4. CASE LookupServer(u)
    BY <1>0, <1>1, <1>4 DEF LookupServer, TypeOK, Job
  <1>5. CASE ReadServers(u)
    BY <1>0, <1>5 DEF ReadServers, TypeOK, Job
  <1>6. CASE RebuildMounts(u)
    BY <1>1, <1>2, <1>6 DEF RebuildMounts
  <1>7. CASE ListForCatalog(u)
    BY <1>0, <1>7 DEF ListForCatalog, TypeOK, Job
  <1>8. CASE Introspect(u)
    <2>1. PICK failed \in SUBSET Enabled(job[u].scan) :
            \/ Finish(u, "degraded", {})
            \/ job' = [job EXCEPT ![u].failed = failed,
                          ![u].rows = Introspected(job[u].scan, Enabled(job[u].scan) \ failed)]
      BY <1>8 DEF Introspect
    <2> DEFINE rows == Introspected(job[u].scan, Enabled(job[u].scan) \ failed)
    <2> HIDE DEF rows
    <2>2. CASE job' = [job EXCEPT ![u].failed = failed, ![u].rows = rows]
      BY <1>0, <2>2 DEF TypeOK, Job
    <2> QED
      BY <1>1, <2>1, <2>2 DEF rows
  <1>9. CASE Retain(u)
    <2> DEFINE rows == job[u].rows \cup {r \in catalog : r.server_id \in job[u].failed}
    <2>1. job' = [job EXCEPT ![u].rows = rows]
      BY <1>9 DEF Retain
    <2> HIDE DEF rows
    <2> QED
      BY <1>0, <2>1 DEF TypeOK, Job
  <1>10. CASE WriteCatalog(u)
    BY <1>1, <1>10 DEF WriteCatalog
  <1> QED
    BY <1>3, <1>4, <1>5, <1>6, <1>7, <1>8, <1>9, <1>10 DEF Step

(* The path of an operation, and what it knows, step by step. *)
LEMMA StepKnows ==
    ASSUME IInv, NEW u \in Tasks, Path(u), Known(u), Step(u)
    PROVE  Path(u)' /\ Known(u)'
  <1> USE DEF IInv
  <1>0. /\ job[u] \in Job /\ servers \in Registry /\ writes \in Nat
        /\ pc[u] \in Inside
    BY StepShape DEF TypeOK
  <1>1. UNCHANGED <<servers, writes>>
    BY DEF Step, ListNames, LookupServer, ReadServers, RebuildMounts, ListForCatalog,
           Introspect, Retain, WriteCatalog, persistent
  <1>2. MountsOf(servers)' = MountsOf(servers) /\ Enabled(servers)' = Enabled(servers)
    BY <1>1 DEF MountsOf, Enabled, Registered
  <1>3. ASSUME NEW status, NEW names, Finish(u, status, names) PROVE Path(u)' /\ Known(u)'
    <2>1. pc'[u] = "idle" /\ job'[u].began = job[u].began
      BY <1>3, Finished
    <2> QED
      BY <1>1, <2>1 DEF Path, Known, Inside
  <1>4. CASE ListNames(u)
    <2>1. /\ pc[u] = "list" /\ job' = [job EXCEPT ![u].listed = servers]
          /\ pc'[u] = IF job[u].op = "reload" THEN "servers" ELSE "scan"
      BY <1>4 DEF ListNames, Goto, TypeOK
    <2>2. /\ job'[u].op = job[u].op /\ job'[u].began = job[u].began
          /\ job'[u].rows = job[u].rows /\ job'[u].failed = job[u].failed
          /\ job'[u].listed = servers
      BY <1>0, <2>1 DEF TypeOK, Job
    <2> QED
      BY <1>1, <2>1, <2>2 DEF Path, Known
  <1>5. CASE LookupServer(u) /\ servers[job[u].target] # NoServer
    <2> DEFINE i == job[u].target
               found == [NoSnapshot EXCEPT ![i] = servers[i]]
    <2>1. /\ pc[u] = "lookup" /\ pc'[u] = "servers"
          /\ job' = [job EXCEPT ![u].scan = found]
      BY <1>5 DEF LookupServer, Goto, TypeOK
    <2>2. /\ job'[u].op = job[u].op /\ job'[u].began = job[u].began
          /\ job'[u].rows = job[u].rows /\ job'[u].failed = job[u].failed
          /\ job'[u].scan = found
      BY <1>0, <2>1 DEF TypeOK, Job
    <2>3. \A j \in Enabled(found) : j \in Enabled(servers) /\ found[j] = servers[j]
      BY DEF Enabled, Registered, NoSnapshot
    <2>4. job[u].op = "refresh_server"
      BY <2>1 DEF Path
    <2> HIDE DEF found
    <2> QED
      BY <1>1, <1>2, <2>1, <2>2, <2>3, <2>4 DEF Path, Known
  <1>6. CASE ReadServers(u)
    <2>1. /\ pc[u] = "servers" /\ pc'[u] = "groups"
          /\ job' = [job EXCEPT ![u].mounting = servers, ![u].mountingAt = writes]
      BY <1>6 DEF ReadServers, Goto, TypeOK
    <2>2. /\ job'[u].op = job[u].op /\ job'[u].began = job[u].began
          /\ job'[u].rows = job[u].rows /\ job'[u].failed = job[u].failed
          /\ job'[u].listed = job[u].listed /\ job'[u].scan = job[u].scan
          /\ job'[u].mountingAt = writes
      BY <1>0, <2>1 DEF TypeOK, Job
    <2> QED
      BY <1>0, <1>1, <1>2, <2>1, <2>2 DEF Path, Known
  <1>7. CASE RebuildMounts(u) /\ AfterMounting(u) # "idle"
    <2>1. /\ pc[u] = "groups" /\ pc'[u] = AfterMounting(u) /\ job' = job
          /\ mountedAt' = [servers |-> job[u].mountingAt, groups |-> writes]
      BY <1>7 DEF RebuildMounts, Goto, TypeOK
    <2>2. \/ job[u].op = "reload" /\ AfterMounting(u) = "scan"
          \/ job[u].op = "refresh_server" /\ AfterMounting(u) \in {"introspect", "write"}
      BY <1>7 DEF AfterMounting
    <2> QED
      BY <1>0, <1>1, <1>2, <2>1, <2>2 DEF Path, Known
  <1>8. CASE ListForCatalog(u)
    <2>1. /\ pc[u] = "scan" /\ pc'[u] = "introspect" /\ UNCHANGED mountedAt
          /\ job' = [job EXCEPT ![u].scan = servers]
      BY <1>8 DEF ListForCatalog, Goto, TypeOK, mounted
    <2>2. /\ job'[u].op = job[u].op /\ job'[u].began = job[u].began
          /\ job'[u].rows = job[u].rows /\ job'[u].failed = job[u].failed
          /\ job'[u].listed = job[u].listed /\ job'[u].scan = servers
      BY <1>0, <2>1 DEF TypeOK, Job
    <2> QED
      BY <1>0, <1>1, <1>2, <2>1, <2>2 DEF Path, Known
  <1>9. CASE Introspect(u)
    <2>1. PICK failed \in SUBSET Enabled(job[u].scan) :
            \/ Finish(u, "degraded", {})
            \/ /\ job' = [job EXCEPT ![u].failed = failed,
                             ![u].rows = Introspected(job[u].scan, Enabled(job[u].scan) \ failed)]
               /\ Goto(u, IF failed # {} THEN "retain" ELSE "write")
      BY <1>9 DEF Introspect
    <2> DEFINE rows == Introspected(job[u].scan, Enabled(job[u].scan) \ failed)
    <2>2. CASE ~Finish(u, "degraded", {})
      <3>1. /\ pc[u] = "introspect" /\ UNCHANGED mountedAt
            /\ pc'[u] = IF failed # {} THEN "retain" ELSE "write"
        BY <1>9, <2>1, <2>2 DEF Introspect, Goto, TypeOK, mounted
      <3>2. /\ job'[u].op = job[u].op /\ job'[u].began = job[u].began
            /\ job'[u].rows = rows /\ job'[u].failed = failed
            /\ job'[u].listed = job[u].listed /\ job'[u].scan = job[u].scan
        BY <1>0, <2>1, <2>2 DEF TypeOK, Job
      <3>3. ASSUME \A i \in Enabled(job[u].scan) :
                        i \in Enabled(servers) /\ job[u].scan[i] = servers[i]
            PROVE  \A r \in rows : Named(r)
        BY <3>3 DEF Introspected, Named, MountsOf
      <3> HIDE DEF rows
      <3> QED
        BY <1>0, <1>1, <1>2, <3>1, <3>2, <3>3 DEF Path, Known, Named
    <2> QED
      BY <1>3, <2>2
  <1>10. CASE Retain(u)
    <2> DEFINE kept == {r \in catalog : r.server_id \in job[u].failed}
    <2>1. /\ pc[u] = "retain" /\ pc'[u] = "write" /\ UNCHANGED mountedAt
          /\ job' = [job EXCEPT ![u].rows = @ \cup kept]
      BY <1>10 DEF Retain, Goto, TypeOK, mounted
    <2>2. /\ job'[u].op = job[u].op /\ job'[u].began = job[u].began
          /\ job'[u].rows = job[u].rows \cup kept /\ job'[u].failed = job[u].failed
          /\ job'[u].listed = job[u].listed /\ job'[u].scan = job[u].scan
      BY <1>0, <2>1 DEF TypeOK, Job
    <2> QED
      BY <1>0, <1>1, <1>2, <2>1, <2>2 DEF Path, Known, Named
  <1> QED
    BY <1>3, <1>4, <1>5, <1>6, <1>7, <1>8, <1>9, <1>10
    DEF Step, LookupServer, RebuildMounts, WriteCatalog

(* The step that ends an operation: only a write of the catalog ends a     *)
(* reload or a refresh with "ok", and it leaves what was collected.        *)
LEMMA EndSettles ==
    ASSUME IInv, NEW u \in Tasks, Path(u), Known(u), Step(u)
    PROVE  Lasts(u)' /\ Exact(u)'
  <1> USE DEF IInv
  <1>0. job[u] \in Job /\ pc[u] \in Inside
    BY StepShape DEF TypeOK
  <1>1. CASE pc'[u] # "idle"
    BY <1>1 DEF Lasts, Settled, Exact
  <1>2. ASSUME NEW status, NEW names, Finish(u, status, names),
               status = "ok" => job[u].op \notin {"reload", "refresh_catalog"}
        PROVE  Lasts(u)' /\ Exact(u)'
    BY <1>2, Finished DEF Lasts, Settled, Exact
  <1>3. CASE WriteCatalog(u)
    <2>1. CASE ~UniqueTools(Written(u))
      BY <1>2, <1>3, <2>1 DEF WriteCatalog
    <2>2. CASE UniqueTools(Written(u))
      <3>1. /\ pc[u] = "write" /\ catalog' = Written(u) /\ Finish(u, "ok", DegradedNames(u))
            /\ UNCHANGED <<servers, writes, mountedAt>>
        BY <1>3, <2>2 DEF WriteCatalog, mounted
      <3>2. /\ pc'[u] = "idle" /\ job'[u].op = job[u].op /\ job'[u].began = job[u].began
            /\ job'[u].failed = job[u].failed /\ job'[u].degraded = DegradedNames(u)
        BY <3>1, Finished
      <3>3. MountsOf(servers)' = MountsOf(servers)
        BY <3>1 DEF MountsOf, Enabled, Registered
      <3>4. \A t \in Tasks : pc'[t] \notin Inside
        BY <3>1 DEF Finish, MutualExclusion, TypeOK, Inside
      <3>5. ASSUME job[u].op = "reload", job[u].began = writes
            PROVE  \A r \in catalog' : r.server_id \in job[u].failed \/ Named(r)
        BY <1>0, <3>1, <3>5 DEF Known, Written
      <3>6. ASSUME job[u].op \in {"reload", "refresh_catalog"}, job[u].began = writes
            PROVE  DegradedNames(u) = {servers[i].name : i \in job[u].failed}
        <4>1. job[u].listed = servers /\ job[u].failed \subseteq Enabled(servers)
          BY <1>0, <3>1, <3>6 DEF Known
        <4> QED
          BY <4>1 DEF DegradedNames, Enabled
      <3>7. Lasts(u)'
        <4>1. Settled(u)' => job[u].op = "reload" /\ job[u].began = writes
          BY <3>1, <3>2 DEF Settled
        <4> QED
          BY <1>0, <3>1, <3>2, <3>3, <3>4, <3>5, <4>1 DEF Lasts, Known, Named, Inside
      <3>8. Exact(u)'
        BY <3>1, <3>2, <3>6 DEF Exact
      <3> QED
        BY <3>7, <3>8
    <2> QED
      BY <2>1, <2>2
  <1>4. CASE RebuildMounts(u) /\ AfterMounting(u) = "idle"
    <2>1. job[u].op # "reload" /\ job[u].op # "refresh_catalog"
      BY <1>4 DEF AfterMounting, RebuildMounts, Path
    <2> QED
      BY <1>2, <1>4, <2>1 DEF RebuildMounts
  <1>5. CASE LookupServer(u) /\ servers[job[u].target] = NoServer
    BY <1>2, <1>5 DEF LookupServer
  <1>6. CASE Introspect(u) /\ Finish(u, "degraded", {})
    BY <1>2, <1>6
  <1>7. CASE \E place \in Inside : Goto(u, place)
    BY <1>1, <1>7 DEF Goto, TypeOK, Inside
  <1>8. AfterMounting(u) \in Inside \cup {"idle"}
    BY DEF AfterMounting, Inside
  <1> QED
    BY <1>3, <1>4, <1>5, <1>6, <1>7, <1>8
    DEF Step, ListNames, LookupServer, ReadServers, RebuildMounts, ListForCatalog, Introspect,
        Retain, Inside

(* Who comes after a settled reload leaves what it settled. *)
LEMMA OthersSettled ==
    ASSUME IInv, NEW u \in Tasks, Path(u), Known(u), Step(u),
           NEW t \in Tasks, t # u, Lasts(t)
    PROVE  Lasts(t)'
  <1> USE DEF IInv
  <1>0. job[u] \in Job /\ pc[u] \in Inside /\ writes \in Nat
    BY StepShape DEF TypeOK
  <1>1. UNCHANGED <<servers, writes>>
    BY DEF Step, ListNames, LookupServer, ReadServers, RebuildMounts, ListForCatalog,
           Introspect, Retain, WriteCatalog, persistent
  <1>2. MountsOf(servers)' = MountsOf(servers)
    BY <1>1 DEF MountsOf, Enabled, Registered
  <1>3. pc'[t] = pc[t] /\ job'[t] = job[t]
    BY OthersUntouched
  <1> SUFFICES ASSUME Settled(t)
               PROVE  /\ mountedAt'.servers = writes /\ mountedAt'.groups = writes
                      /\ \A r \in catalog' : r.server_id \in job[t].failed \/ Named(r)
                      /\ \A v \in Tasks : pc'[v] \in Inside => job'[v].began = writes
                      /\ \A v \in Tasks : pc'[v] = "write" =>
                            \A r \in job'[v].rows : r.server_id \in job[t].failed \/ Named(r)
    BY <1>1, <1>2, <1>3 DEF Lasts, Settled, Named
  <1>4. /\ mountedAt.servers = writes /\ mountedAt.groups = writes
        /\ \A r \in catalog : r.server_id \in job[t].failed \/ Named(r)
        /\ job[u].began = writes
        /\ pc[u] = "write" => \A r \in job[u].rows : r.server_id \in job[t].failed \/ Named(r)
    BY <1>0 DEF Lasts
  <1>5. \A v \in Tasks \ {u} : pc'[v] \notin Inside
    BY <1>0, OthersUntouched DEF MutualExclusion
  <1>6. mountedAt'.servers = writes /\ mountedAt'.groups = writes
    <2>1. CASE RebuildMounts(u)
      BY <1>0, <1>4, <2>1 DEF RebuildMounts, SnapshotsAreFresh, TypeOK, Job
    <2>2. CASE ~RebuildMounts(u)
      BY <1>4, <2>2
      DEF Step, ListNames, LookupServer, ReadServers, ListForCatalog, Introspect, Retain,
          WriteCatalog, mounted
    <2> QED
      BY <2>1, <2>2
  <1>7. \A r \in catalog' : r.server_id \in job[t].failed \/ Named(r)
    <2>1. CASE WriteCatalog(u)
      BY <1>4, <2>1 DEF WriteCatalog, Written
    <2>2. CASE ~WriteCatalog(u)
      BY <1>4, <2>2
      DEF Step, ListNames, LookupServer, ReadServers, RebuildMounts, ListForCatalog,
          Introspect, Retain, persistent
    <2> QED
      BY <2>1, <2>2
  <1>8. pc'[u] \in Inside => job'[u].began = writes
    BY <1>4, BeganStays
  <1>9. pc'[u] = "write" =>
            \A r \in job'[u].rows : r.server_id \in job[t].failed \/ Named(r)
    <2>1. CASE Retain(u)
      <3>1. job'[u].rows = job[u].rows \cup {r \in catalog : r.server_id \in job[u].failed}
        BY <1>0, <2>1 DEF Retain, TypeOK, Job
      <3>2. \A r \in job[u].rows : Named(r)
        BY <1>0, <1>4, <2>1 DEF Retain, Known
      <3> QED
        BY <1>4, <3>1, <3>2
    <2>2. CASE ~Retain(u)
      <3>1. pc'[u] = "write" => Introspect(u) \/ RebuildMounts(u)
        BY <2>2
        DEF Step, ListNames, LookupServer, ReadServers, ListForCatalog, WriteCatalog, Goto,
            Finish, TypeOK
      <3>2. CASE RebuildMounts(u)
        BY <1>0, <3>2 DEF RebuildMounts, Path, Finish, Goto, TypeOK
      <3>3. CASE Introspect(u) /\ pc'[u] = "write"
        <4>1. PICK failed \in SUBSET Enabled(job[u].scan) :
                job' = [job EXCEPT ![u].failed = failed,
                           ![u].rows = Introspected(job[u].scan, Enabled(job[u].scan) \ failed)]
          BY <3>3 DEF Introspect, Finish, TypeOK
        <4> DEFINE rows == Introspected(job[u].scan, Enabled(job[u].scan) \ failed)
        <4>2. job'[u].rows = rows
          BY <1>0, <4>1 DEF TypeOK, Job
        <4>3. \A i \in Enabled(job[u].scan) :
                i \in Enabled(servers) /\ job[u].scan[i] = servers[i]
          BY <1>0, <1>4, <3>3 DEF Introspect, Known
        <4> QED
          BY <4>2, <4>3 DEF Introspected, Named, MountsOf
      <3> QED
        BY <3>1, <3>2, <3>3
    <2> QED
      BY <2>1, <2>2
  <1> QED
    BY <1>4, <1>5, <1>6, <1>7, <1>8, <1>9 DEF Inside

LEMMA StepSettles ==
    ASSUME IInv, SettleInv, NEW u \in Tasks, Step(u) PROVE SettleInv'
  <1>1. UNCHANGED <<servers, writes>>
    BY DEF Step, ListNames, LookupServer, ReadServers, RebuildMounts, ListForCatalog,
           Introspect, Retain, WriteCatalog, persistent
  <1>2. (Path(u) /\ Known(u) /\ Lasts(u) /\ Exact(u))'
    BY StepKnows, EndSettles DEF SettleInv
  <1>3. ASSUME NEW t \in Tasks, t # u PROVE (Path(t) /\ Known(t) /\ Lasts(t) /\ Exact(t))'
    <2>1. pc'[t] = pc[t] /\ job'[t] = job[t] /\ pc[t] \notin Inside
      BY <1>3, OthersUntouched, StepShape DEF IInv, MutualExclusion
    <2>2. Lasts(t)'
      BY <1>3, OthersSettled DEF SettleInv
    <2> QED
      BY <1>1, <2>1, <2>2 DEF SettleInv, Path, Known, Exact
  <1> QED
    BY <1>2, <1>3 DEF SettleInv

(* An operation begins, and waits for the lock. *)
LEMMA BeginSettles ==
    ASSUME IInv, SettleInv, NEW u \in Tasks, NEW operation, NEW target,
           Begin(u, operation, target), UNCHANGED <<servers, catalog, writes, mountedAt>>
    PROVE  SettleInv'
  <1>1. pc'[u] = "waiting" /\ job'[u] = NewJob(operation, target)
    BY DEF Begin, IInv, TypeOK
  <1>2. \A t \in Tasks : t # u => pc'[t] = pc[t] /\ job'[t] = job[t]
    BY DEF Begin, IInv, TypeOK
  <1>3. MountsOf(servers)' = MountsOf(servers)
    BY DEF MountsOf, Enabled, Registered
  <1>4. writes \in Nat
    BY DEF IInv, TypeOK
  <1>5. (Path(u) /\ Known(u) /\ Lasts(u) /\ Exact(u))'
    BY <1>1, <1>4 DEF Path, Known, Lasts, Settled, Exact, NewJob, Inside
  <1>6. ASSUME NEW t \in Tasks, t # u PROVE (Path(t) /\ Known(t) /\ Lasts(t) /\ Exact(t))'
    <2>1. Path(t)' /\ Exact(t)'
      BY <1>2, <1>6 DEF SettleInv, Path, Exact
    <2>2. Known(t)'
      BY <1>2, <1>3, <1>6 DEF SettleInv, Known, Named, Enabled, Registered
    <2>3. Lasts(t)'
      BY <1>1, <1>2, <1>3, <1>6 DEF SettleInv, Lasts, Settled, Named, Inside
    <2> QED
      BY <2>1, <2>2, <2>3
  <1> QED
    BY <1>5, <1>6 DEF SettleInv

LEMMA AcquireSettles ==
    ASSUME IInv, SettleInv, NEW u \in Tasks, Acquire(u) PROVE SettleInv'
  <1>1. /\ pc[u] = "waiting" /\ pc'[u] = FirstStep(job[u].op)
        /\ job' = [job EXCEPT ![u].began = writes]
        /\ UNCHANGED <<servers, catalog, writes, mountedAt>>
    BY DEF Acquire, IInv, TypeOK, persistent, mounted
  <1>2. /\ job'[u].op = job[u].op /\ job'[u].began = writes
        /\ job'[u].rows = job[u].rows /\ job'[u].failed = job[u].failed
    BY <1>1 DEF IInv, TypeOK, Job
  <1>3. \A t \in Tasks : t # u => pc'[t] = pc[t] /\ job'[t] = job[t]
    BY OthersUntouched DEF IInv
  <1>4. MountsOf(servers)' = MountsOf(servers)
    BY <1>1 DEF MountsOf, Enabled, Registered
  <1>5. writes \in Nat
    BY DEF IInv, TypeOK
  <1>6. /\ FirstStep(job[u].op) \in {"lookup", "servers", "list"}
        /\ FirstStep(job[u].op) = "lookup" <=> job[u].op = "refresh_server"
        /\ FirstStep(job[u].op) = "servers" <=> job[u].op = "rebuild_mounts"
    BY DEF FirstStep
  <1>7. (Path(u) /\ Known(u) /\ Lasts(u) /\ Exact(u))'
    BY <1>1, <1>2, <1>5, <1>6 DEF SettleInv, Path, Known, Lasts, Settled, Exact
  <1>8. ASSUME NEW t \in Tasks, t # u PROVE (Path(t) /\ Known(t) /\ Lasts(t) /\ Exact(t))'
    <2>1. Path(t)' /\ Exact(t)'
      BY <1>1, <1>3, <1>8 DEF SettleInv, Path, Exact
    <2>2. Known(t)'
      BY <1>1, <1>3, <1>4, <1>8 DEF SettleInv, Known, Named, Enabled, Registered
    <2>3. Lasts(t)'
      BY <1>1, <1>2, <1>3, <1>4, <1>6, <1>8 DEF SettleInv, Lasts, Settled, Named
    <2> QED
      BY <2>1, <2>2, <2>3
  <1> QED
    BY <1>7, <1>8 DEF SettleInv

LEMMA NextSettles == ASSUME IInv, SettleInv, [Next]_vars PROVE SettleInv'
  <1>1. ASSUME NEW u \in Tasks, NEW operation \in TaskOps, NEW target \in issued \cup {NoServer},
               Call(u, operation, target)
        PROVE  SettleInv'
    BY <1>1, BeginSettles DEF Call, persistent, mounted
  <1>2. ASSUME NEW u \in Tasks, Acquire(u) \/ Step(u) PROVE SettleInv'
    BY <1>2, AcquireSettles, StepSettles
  <1>3. CASE Admin
    <2>1. writes' = writes + 1 /\ UNCHANGED <<pc, job>> /\ writes \in Nat
      BY <1>3, AdminAdvances DEF IInv, TypeOK
    <2>2. \A t \in Tasks : job[t].began \in Nat
      BY DEF IInv, TypeOK, Job
    <2> QED
      BY <2>1, <2>2 DEF SettleInv, Path, Known, Lasts, Settled, Exact
  <1>4. ASSUME UNCHANGED <<servers, catalog, writes, mountedAt, pc, job>> PROVE SettleInv'
    <2>1. MountsOf(servers)' = MountsOf(servers)
      BY <1>4 DEF MountsOf, Enabled, Registered
    <2>2. ASSUME NEW t \in Tasks PROVE (Path(t) /\ Known(t) /\ Lasts(t) /\ Exact(t))'
      <3>1. Path(t)' /\ Exact(t)'
        BY <1>4 DEF SettleInv, Path, Exact
      <3>2. Known(t)'
        BY <1>4, <2>1 DEF SettleInv, Known, Named, Enabled, Registered
      <3>3. Lasts(t)'
        BY <1>4, <2>1 DEF SettleInv, Lasts, Settled, Named
      <3> QED
        BY <3>1, <3>2, <3>3
    <2> QED
      BY <2>2 DEF SettleInv
  <1>5. ASSUME NEW i \in ServerIds, NEW tools \in SUBSET Bares, UpstreamChanges(i, tools)
        PROVE  SettleInv'
    BY <1>4, <1>5 DEF UpstreamChanges, persistent, process
  <1>6. CASE Boot
    BY <1>6, BeginSettles, BuilderAssumption DEF Boot, persistent, mounted, BuilderAssumption
  <1>7. CASE Serve
    BY <1>4, <1>7, BeginSettles, BuilderAssumption
    DEF Serve, persistent, mounted, BuilderAssumption
  <1>8. CASE Stop
    <2>1. \A t \in Tasks : pc'[t] = "idle" /\ job'[t] = IdleJob
      BY <1>8 DEF Stop
    <2>2. writes' \in Nat
      BY <1>8 DEF Stop, IInv, TypeOK
    <2> QED
      BY <2>1, <2>2
      DEF SettleInv, Path, Known, Lasts, Settled, Exact, IdleJob, NewJob, Inside
  <1>9. CASE UNCHANGED vars
    BY <1>4, <1>9 DEF vars
  <1> QED
    BY <1>1, <1>2, <1>3, <1>5, <1>6, <1>7, <1>8, <1>9 DEF Next

LEMMA Settling == Spec => []SettleInv
  <1>1. Init => SettleInv
    BY DEF Init, SettleInv, Path, Known, Lasts, Settled, Exact, IdleJob, NewJob, Inside
  <1>2. IInv /\ SettleInv /\ [Next]_vars => SettleInv'
    BY NextSettles
  <1> QED
    BY <1>1, <1>2, Invariance, PTL DEF Spec

(* A reload that returned settles mounts, policy and, but for the servers  *)
(* it reports, the catalog, for as long as no admin writes.                *)
THEOREM ReloadsSettle == Spec => []ReloadSettles
  <1>1. IInv /\ SettleInv => ReloadSettles
    BY DEF IInv, MountsAreCurrent, SettleInv, Lasts, Settled, Named, ReloadSettles
  <1> QED
    BY <1>1, Invariance, Settling, PTL

(* reload and refresh_catalog name exactly the servers that failed.        *)
THEOREM FailuresAreNamed == Spec => []DegradedIsExact
  <1>1. SettleInv => DegradedIsExact
    BY DEF SettleInv, Exact, DegradedIsExact
  <1> QED
    BY <1>1, Settling, PTL

-----------------------------------------------------------------------------
(* What is mounted is gated *)

(* Policy and mounts were made from one reading of the servers, in which   *)
(* names are unique; before that there are none.                           *)
OneReading ==
    IF Built
    THEN \E S \in Registry, G \in Groups :
            UniqueNames(S) /\ policy = Compile(S, G) /\ mounts = MountsOf(S)
    ELSE mounts = {}

ReadWhole == \A t \in Tasks : pc[t] = "groups" => UniqueNames(job[t].mounting)

(* A tool whose namespace the policy does not know counts as the gateway's *)
(* own and is never refused (access.py, allows).  No tool behind a mounted *)
(* proxy does: it is judged by the rules of the very record the proxy was  *)
(* mounted from, whatever admins write and whoever reloads meanwhile.      *)
MountedTool(m, bare) == [namespace |-> m.namespace, bare |-> bare]

GatedByOwnRules ==
    mounts # {} =>
        \E S \in Registry, G \in Groups :
            /\ policy = Compile(S, G)
            /\ \A m \in mounts, bare \in Bares :
                /\ m.server_id \in Enabled(S) /\ m.namespace = S[m.server_id].name
                /\ IsNamespaced(policy, MountedTool(m, bare))
                /\ Allows(policy, MountedTool(m, bare), NoGroup) <=>
                        RuleAllows(bare, S[m.server_id].allow, S[m.server_id].deny)

(* The rules compiled for a name are those of the server that has it. *)
LEMMA CompiledRules ==
    ASSUME NEW S \in Registry, NEW G \in Groups, UniqueNames(S), NEW i \in Registered(S)
    PROVE  /\ S[i].name \in DOMAIN Compile(S, G).servers
           /\ Compile(S, G).servers[S[i].name] = [allow |-> S[i].allow, deny |-> S[i].deny]
  <1>1. Compile(S, G).servers = ServerRules(S)
    BY DEF Compile
  <1>2. S[i].name \in NamesOf(S)
    BY DEF NamesOf
  <1>3. OwnerOf(S, S[i].name) = i
    BY DEF OwnerOf, UniqueNames
  <1> QED
    BY <1>1, <1>2, <1>3 DEF ServerRules

(* Every step keeps policy and mounts of one reading. *)
LEMMA NextOneReading ==
    ASSUME IInv, ReadWhole, OneReading, [Next]_vars PROVE ReadWhole' /\ OneReading'
  <1> USE DEF IInv
  <1>1. CASE Stop
    <2>1. mounts' = {} /\ ~Built'
      BY <1>1 DEF Stop, Built
    <2>2. \A t \in Tasks : pc'[t] # "groups"
      BY <1>1 DEF Stop
    <2> QED
      BY <2>1, <2>2 DEF OneReading, ReadWhole
  <1>2. CASE ~Stop
    <2>1. ASSUME NEW t \in Tasks, pc'[t] = "groups" PROVE UniqueNames(job'[t].mounting)
      <3>1. CASE ReadServers(t)
        <4>1. job'[t].mounting = servers
          BY <3>1 DEF ReadServers, TypeOK, Job
        <4> QED
          BY <4>1 DEF TypeOK
      <3>2. CASE ~ReadServers(t)
        <4>1. pc[t] = "groups" /\ job'[t] = job[t]
          BY <2>1, <3>2, AtGroups
        <4> QED
          BY <4>1 DEF ReadWhole
      <3> QED
        BY <3>1, <3>2
    <2>2. ASSUME NEW t \in Tasks, RebuildMounts(t) PROVE OneReading'
      <3> DEFINE read == job[t].mounting
      <3>1. read \in Registry /\ UniqueNames(read) /\ groups \in Groups
        BY <2>2 DEF RebuildMounts, ReadWhole, TypeOK, Job
      <3>2. policy' = Compile(read, groups) /\ mounts' = MountsOf(read)
        BY <2>2 DEF RebuildMounts
      <3>3. Built'
        <4>1. mountedAt' = [servers |-> job[t].mountingAt, groups |-> writes]
          BY <2>2 DEF RebuildMounts
        <4> QED
          BY <4>1 DEF Built, TypeOK, Job
      <3> HIDE DEF read
      <3>4. \E s \in Registry, g \in Groups :
                UniqueNames(s) /\ policy' = Compile(s, g) /\ mounts' = MountsOf(s)
        BY <3>1, <3>2
      <3> QED
        BY <3>3, <3>4 DEF OneReading
    <2>3. ASSUME \A t \in Tasks : ~RebuildMounts(t) PROVE OneReading'
      <3>1. UNCHANGED <<policy, mounts, mountedAt>>
        BY <1>2, <2>3, MountedBy DEF mounted
      <3> QED
        BY <3>1 DEF OneReading, Built
    <2> QED
      BY <2>1, <2>2, <2>3 DEF ReadWhole
  <1> QED
    BY <1>1, <1>2

(* No tool behind a proxy escapes the policy. *)
THEOREM MountsAreGated == Spec => []GatedByOwnRules
  <1>1. Init => ReadWhole /\ OneReading
    BY DEF Init, ReadWhole, OneReading, Built
  <1>2. IInv /\ OneReading => GatedByOwnRules
    <2> SUFFICES ASSUME IInv, OneReading, mounts # {}
                 PROVE  \E S \in Registry, G \in Groups :
                            /\ policy = Compile(S, G)
                            /\ \A m \in mounts, bare \in Bares :
                                /\ m.server_id \in Enabled(S)
                                /\ m.namespace = S[m.server_id].name
                                /\ IsNamespaced(policy, MountedTool(m, bare))
                                /\ Allows(policy, MountedTool(m, bare), NoGroup) <=>
                                    RuleAllows(bare, S[m.server_id].allow, S[m.server_id].deny)
      BY DEF GatedByOwnRules
    <2>1. PICK S \in Registry, G \in Groups :
            UniqueNames(S) /\ policy = Compile(S, G) /\ mounts = MountsOf(S)
      BY DEF OneReading
    <2>2. ASSUME NEW m \in mounts, NEW bare \in Bares
          PROVE  /\ m.server_id \in Enabled(S)
                 /\ m.namespace = S[m.server_id].name
                 /\ IsNamespaced(policy, MountedTool(m, bare))
                 /\ Allows(policy, MountedTool(m, bare), NoGroup) <=>
                        RuleAllows(bare, S[m.server_id].allow, S[m.server_id].deny)
      <3>1. m.server_id \in Enabled(S) /\ m.namespace = S[m.server_id].name
        BY <2>1 DEF MountsOf
      <3>2. m.server_id \in Registered(S)
        BY <3>1 DEF Enabled
      <3>3. /\ m.namespace \in DOMAIN policy.servers
            /\ policy.servers[m.namespace].allow = S[m.server_id].allow
            /\ policy.servers[m.namespace].deny = S[m.server_id].deny
        <4>1. /\ S[m.server_id].name \in DOMAIN Compile(S, G).servers
              /\ Compile(S, G).servers[S[m.server_id].name] =
                    [allow |-> S[m.server_id].allow, deny |-> S[m.server_id].deny]
          BY <2>1, <3>2, CompiledRules
        <4> QED
          BY <2>1, <3>1, <4>1
      <3>4. IsNamespaced(policy, MountedTool(m, bare))
        BY <3>3 DEF IsNamespaced, MountedTool
      <3>5. Allows(policy, MountedTool(m, bare), NoGroup) <=>
                RuleAllows(bare, S[m.server_id].allow, S[m.server_id].deny)
        BY <3>3, <3>4 DEF Allows, MountedTool
      <3> QED
        BY <3>1, <3>4, <3>5
    <2> QED
      BY <2>1, <2>2
  <1> QED
    BY <1>1, <1>2, NextOneReading, Invariance, PTL DEF Spec

-----------------------------------------------------------------------------
(* Reloads that are lost *)

(* No server changes its name while it stays registered: admin writes      *)
(* create, delete, enable and re-rule servers, but rename none.            *)
NamesStick ==
    \A i \in ServerIds :
        servers[i] # NoServer /\ servers'[i] # NoServer => servers'[i].name = servers[i].name

(* Rows carry the names the snapshot knows their servers by; a snapshot    *)
(* carries the names the registry knows those that are left by.            *)
NamedBy(rows, snapshot) ==
    \A r \in rows : r.server_id \in Registered(snapshot) =>
                        r.namespace = snapshot[r.server_id].name

StillNamed(snapshot) ==
    \A i \in Registered(snapshot) :
        i \in issued /\ (servers[i] # NoServer => servers[i].name = snapshot[i].name)

(* What holds of the locals of a task inside the lock, and of the others.  *)
Collects(t) ==
    IF pc[t] \in Inside
    THEN /\ UniqueNames(job[t].scan)
         /\ NamedBy(catalog, job[t].scan)
         /\ NamedBy(job[t].rows, job[t].scan)
         /\ \A r \in job[t].rows : r.server_id \in Registered(job[t].scan)
         /\ pc[t] = "retain" => job[t].failed \subseteq Registered(job[t].scan)
    ELSE job[t].scan = NoSnapshot

NotLost(t) == job[t].op # "refresh_server" => job[t].status # "integrity_error"

StickInv ==
    /\ Registered(servers) \subseteq issued
    /\ \A r \in catalog : r.server_id \in issued
    /\ NamedBy(catalog, servers)
    /\ \A t \in Tasks : StillNamed(job[t].scan) /\ Collects(t) /\ NotLost(t)

(* Rows named by one snapshot never collide: that takes two servers of one *)
(* name, and a registry has none.                                          *)
LEMMA NoCollision ==
    ASSUME NEW rows \in SUBSET Row, NEW snapshot \in Registry, UniqueNames(snapshot),
           NamedBy(rows, snapshot), \A r \in rows : r.server_id \in Registered(snapshot)
    PROVE  UniqueTools(rows)
  <1> SUFFICES ASSUME NEW r \in rows, NEW s \in rows,
                      r.namespace = s.namespace, r.bare = s.bare
               PROVE  r = s
    BY DEF UniqueTools
  <1>1. r.server_id = s.server_id
    BY DEF NamedBy, UniqueNames
  <1> QED
    BY <1>1 DEF Row

(* Nothing registered, nothing to be named by. *)
LEMMA EmptySnapshot ==
    /\ Registered(NoSnapshot) = {}
    /\ StillNamed(NoSnapshot) /\ UniqueNames(NoSnapshot)
    /\ \A rows : NamedBy(rows, NoSnapshot)
  BY DEF Registered, NoSnapshot, StillNamed, UniqueNames, NamedBy

(* An admin write that renames nothing leaves every snapshot's names true: *)
(* a deleted id is never issued again.                                     *)
LEMMA AdminSticks ==
    ASSUME TypeOK, StickInv, NamesStick, Admin PROVE StickInv'
  <1>1. UNCHANGED <<catalog, pc, job>>
    BY AdminAdvances DEF process
  <1>2. /\ issued \subseteq issued'
        /\ \A i \in issued : servers'[i] # NoServer => servers[i] # NoServer
        /\ Registered(servers)' \subseteq issued'
    <2>1. ASSUME NEW i \in ServerIds, NEW data \in ServerInputs, CreateServer(i, data)
          PROVE  <1>2!1 /\ <1>2!2 /\ <1>2!3
      BY <2>1 DEF CreateServer, StickInv, Registered, TypeOK, Registry
    <2>2. ASSUME NEW i \in ServerIds, NEW data \in ServerInputs, UpdateServer(i, data)
          PROVE  <1>2!1 /\ <1>2!2 /\ <1>2!3
      BY <2>2 DEF UpdateServer, StickInv, Registered, TypeOK, Registry
    <2>3. ASSUME NEW i \in ServerIds, DeleteServer(i)
          PROVE  <1>2!1 /\ <1>2!2 /\ <1>2!3
      BY <2>3 DEF DeleteServer, StickInv, Registered, TypeOK, Registry
    <2>4. ASSUME NEW g \in GroupNames, NEW data \in GroupInputs \cup {NoServer}, WriteGroup(g, data)
          PROVE  <1>2!1 /\ <1>2!2 /\ <1>2!3
      BY <2>4 DEF WriteGroup, StickInv, Registered
    <2> QED
      BY <2>1, <2>2, <2>3, <2>4 DEF Admin
  <1>3. \A i \in issued : servers'[i] # NoServer =>
            servers[i] # NoServer /\ servers'[i].name = servers[i].name
    BY <1>2 DEF NamesStick, TypeOK
  <1>4. \A r \in catalog : r.server_id \in issued'
    BY <1>2 DEF StickInv
  <1>5. NamedBy(catalog, servers)'
    BY <1>1, <1>3 DEF StickInv, NamedBy, Registered
  <1>6. ASSUME NEW t \in Tasks PROVE (StillNamed(job[t].scan) /\ Collects(t) /\ NotLost(t))'
    BY <1>1, <1>2, <1>3 DEF StickInv, StillNamed, Collects, NotLost, NamedBy, Registered
  <1> QED
    BY <1>1, <1>2, <1>4, <1>5, <1>6 DEF StickInv

(* A step of an operation keeps its locals named by its snapshot, and when *)
(* it writes the whole catalog, what it writes does not collide.           *)
LEMMA StepCollects ==
    ASSUME IInv, SettleInv, StickInv, NEW u \in Tasks, Step(u)
    PROVE  /\ (StillNamed(job[u].scan) /\ Collects(u) /\ NotLost(u))'
           /\ \A r \in catalog' : r.server_id \in issued
           /\ NamedBy(catalog', servers)
  <1> USE DEF IInv
  <1>0. /\ job[u] \in Job /\ servers \in Registry /\ pc[u] \in Inside /\ Path(u)
        /\ StillNamed(job[u].scan) /\ Collects(u) /\ NotLost(u)
        /\ UniqueNames(servers) /\ catalog \in SUBSET Row
    BY StepShape DEF TypeOK, SettleInv, StickInv
  <1>1. UNCHANGED <<servers, issued>>
    BY DEF Step, ListNames, LookupServer, ReadServers, RebuildMounts, ListForCatalog,
           Introspect, Retain, WriteCatalog, persistent
  <1>2. /\ UniqueNames(job[u].scan) /\ NamedBy(catalog, job[u].scan)
        /\ NamedBy(job[u].rows, job[u].scan)
        /\ \A r \in job[u].rows : r.server_id \in Registered(job[u].scan)
        /\ pc[u] = "retain" => job[u].failed \subseteq Registered(job[u].scan)
    BY <1>0 DEF Collects
  <1>3. /\ \A r \in catalog : r.server_id \in issued
        /\ NamedBy(catalog, servers)
        /\ Registered(servers) \subseteq issued
    BY DEF StickInv
  <1>4. StillNamed(servers)
    BY <1>3 DEF StillNamed
  <1> DEFINE Goal == (StillNamed(job[u].scan) /\ Collects(u) /\ NotLost(u))'
  <1>5. ASSUME NEW status, NEW names, Finish(u, status, names),
               job[u].op = "refresh_server" \/ status # "integrity_error"
        PROVE  Goal
    <2>1. pc'[u] = "idle" /\ job'[u].op = job[u].op /\ job'[u].status = status
          /\ job'[u].scan = NoSnapshot
      BY <1>5, Finished DEF Finish, Ended, TypeOK
    <2>2. StillNamed(NoSnapshot)'
      BY <1>1, EmptySnapshot DEF StillNamed
    <2> QED
      BY <1>5, <2>1, <2>2 DEF Collects, NotLost, Inside, StillNamed
  <1>6. ASSUME ~WriteCatalog(u) PROVE UNCHANGED catalog
    BY <1>6 DEF Step, ListNames, LookupServer, ReadServers, RebuildMounts, ListForCatalog,
                Introspect, Retain, persistent
  <1>7. ASSUME pc'[u] \in Inside, job'[u].scan = job[u].scan, job'[u].rows = job[u].rows,
               job'[u].op = job[u].op, job'[u].status = job[u].status, pc'[u] # "retain",
               UNCHANGED catalog
        PROVE  Goal
    BY <1>0, <1>1, <1>2, <1>7 DEF Collects, NotLost, StillNamed
  <1>8. ASSUME NEW s, UniqueNames(s), NamedBy(catalog, s), StillNamed(s),
               pc'[u] \in Inside, pc'[u] # "retain", job'[u].scan = s, job'[u].rows = {},
               job'[u].op = job[u].op, job'[u].status = job[u].status, UNCHANGED catalog
        PROVE  Goal
    BY <1>0, <1>1, <1>8 DEF Collects, NotLost, StillNamed, NamedBy
  <1>9. ASSUME ListNames(u) PROVE Goal
    <2>1. /\ job' = [job EXCEPT ![u].listed = servers]
          /\ pc'[u] = IF job[u].op = "reload" THEN "servers" ELSE "scan"
      BY <1>9 DEF ListNames, Goto, TypeOK
    <2>2. /\ job'[u].op = job[u].op /\ job'[u].status = job[u].status
          /\ job'[u].rows = job[u].rows /\ job'[u].scan = job[u].scan
      BY <1>0, <2>1 DEF TypeOK, Job
    <2> QED
      BY <1>7, <1>9, <2>1, <2>2 DEF ListNames, persistent, Inside
  <1>10. ASSUME LookupServer(u) PROVE Goal
    <2> DEFINE i == job[u].target
               found == [NoSnapshot EXCEPT ![i] = servers[i]]
    <2>1. CASE servers[i] # NoServer
      <3>1. /\ pc[u] = "lookup" /\ pc'[u] = "servers" /\ UNCHANGED catalog
            /\ job' = [job EXCEPT ![u].scan = found]
        BY <1>10, <2>1 DEF LookupServer, Goto, TypeOK, persistent
      <3>2. /\ job'[u].op = job[u].op /\ job'[u].status = job[u].status
            /\ job'[u].rows = job[u].rows /\ job'[u].scan = found
        BY <1>0, <3>1 DEF TypeOK, Job
      <3>3. \A j \in Registered(found) : j = i /\ j \in Registered(servers) /\ found[j] = servers[j]
        BY DEF Registered, NoSnapshot
      <3>4. UniqueNames(found) /\ NamedBy(catalog, found) /\ StillNamed(found)
        BY <1>3, <1>4, <3>3 DEF UniqueNames, NamedBy, StillNamed
      <3>5. job'[u].rows = {}
        BY <1>0, <3>1, <3>2 DEF Path
      <3> HIDE DEF found
      <3> QED
        BY <1>8, <3>1, <3>2, <3>4, <3>5 DEF Inside
    <2>2. CASE servers[i] = NoServer
      BY <1>5, <1>10, <2>2 DEF LookupServer
    <2> QED
      BY <2>1, <2>2
  <1>11. ASSUME ReadServers(u) PROVE Goal
    <2>1. /\ job' = [job EXCEPT ![u].mounting = servers, ![u].mountingAt = writes]
          /\ pc'[u] = "groups"
      BY <1>11 DEF ReadServers, Goto, TypeOK
    <2>2. /\ job'[u].op = job[u].op /\ job'[u].status = job[u].status
          /\ job'[u].rows = job[u].rows /\ job'[u].scan = job[u].scan
      BY <1>0, <2>1 DEF TypeOK, Job
    <2> QED
      BY <1>7, <1>11, <2>1, <2>2 DEF ReadServers, persistent, Inside
  <1>12. ASSUME RebuildMounts(u) PROVE Goal
    <2>1. CASE AfterMounting(u) = "idle"
      BY <1>5, <1>12, <2>1 DEF RebuildMounts
    <2>2. CASE AfterMounting(u) # "idle"
      <3>1. pc'[u] = AfterMounting(u) /\ job' = job
        BY <1>12, <2>2 DEF RebuildMounts, Goto, TypeOK
      <3>2. AfterMounting(u) \in {"scan", "introspect", "write"}
        BY <2>2 DEF AfterMounting
      <3> QED
        BY <1>7, <1>12, <3>1, <3>2 DEF RebuildMounts, persistent, Inside
    <2> QED
      BY <2>1, <2>2
  <1>13. ASSUME ListForCatalog(u) PROVE Goal
    <2>1. /\ pc[u] = "scan" /\ pc'[u] = "introspect" /\ UNCHANGED catalog
          /\ job' = [job EXCEPT ![u].scan = servers]
      BY <1>13 DEF ListForCatalog, Goto, TypeOK, persistent
    <2>2. /\ job'[u].op = job[u].op /\ job'[u].status = job[u].status
          /\ job'[u].rows = job[u].rows /\ job'[u].scan = servers
      BY <1>0, <2>1 DEF TypeOK, Job
    <2>3. job'[u].rows = {}
      BY <1>0, <2>1, <2>2 DEF Path
    <2> QED
      BY <1>0, <1>3, <1>4, <1>8, <2>1, <2>2, <2>3 DEF Inside
  <1>14. ASSUME Introspect(u) PROVE Goal
    <2>1. PICK failed \in SUBSET Enabled(job[u].scan) :
            \/ Finish(u, "degraded", {})
            \/ /\ job' = [job EXCEPT ![u].failed = failed,
                             ![u].rows = Introspected(job[u].scan, Enabled(job[u].scan) \ failed)]
               /\ Goto(u, IF failed # {} THEN "retain" ELSE "write")
      BY <1>14 DEF Introspect
    <2> DEFINE rows == Introspected(job[u].scan, Enabled(job[u].scan) \ failed)
    <2>2. CASE ~Finish(u, "degraded", {})
      <3>1. UNCHANGED catalog /\ pc'[u] = IF failed # {} THEN "retain" ELSE "write"
        BY <1>14, <2>1, <2>2 DEF Introspect, Goto, TypeOK, persistent
      <3>2. /\ job'[u].op = job[u].op /\ job'[u].status = job[u].status
            /\ job'[u].rows = rows /\ job'[u].failed = failed /\ job'[u].scan = job[u].scan
        BY <1>0, <2>1, <2>2 DEF TypeOK, Job
      <3>3. /\ NamedBy(rows, job[u].scan)
            /\ \A r \in rows : r.server_id \in Registered(job[u].scan)
            /\ failed \subseteq Registered(job[u].scan)
        BY DEF Introspected, NamedBy, Enabled
      <3> HIDE DEF rows
      <3>4. Collects(u)'
        BY <1>2, <3>1, <3>2, <3>3 DEF Collects, Inside
      <3> QED
        BY <1>0, <1>1, <3>2, <3>4 DEF NotLost, StillNamed
    <2> QED
      BY <1>5, <2>1, <2>2
  <1>15. ASSUME Retain(u) PROVE Goal
    <2> DEFINE kept == {r \in catalog : r.server_id \in job[u].failed}
    <2>1. /\ pc[u] = "retain" /\ pc'[u] = "write" /\ UNCHANGED catalog
          /\ job' = [job EXCEPT ![u].rows = @ \cup kept]
      BY <1>15 DEF Retain, Goto, TypeOK, persistent
    <2>2. /\ job'[u].op = job[u].op /\ job'[u].status = job[u].status
          /\ job'[u].rows = job[u].rows \cup kept /\ job'[u].scan = job[u].scan
      BY <1>0, <2>1 DEF TypeOK, Job
    <2>3. Collects(u)'
      BY <1>2, <2>1, <2>2 DEF Collects, NamedBy, Inside
    <2> QED
      BY <1>0, <1>1, <2>2, <2>3 DEF NotLost, StillNamed
  <1>16. ASSUME WriteCatalog(u)
         PROVE  /\ Goal
                /\ \A r \in catalog' : r.server_id \in issued
                /\ NamedBy(catalog', servers)
    <2>1. \A r \in job[u].rows : /\ r.server_id \in issued
                                 /\ r.server_id \in Registered(servers) =>
                                        r.namespace = servers[r.server_id].name
      BY <1>0, <1>2 DEF StillNamed, NamedBy, Registered
    <2>2. \A r \in catalog' : r \in catalog \/ r \in job[u].rows
      BY <1>16 DEF WriteCatalog, Written
    <2>3. job[u].op # "refresh_server" => UniqueTools(Written(u))
      BY <1>0, <1>2, NoCollision DEF Written, Job
    <2>4. Goal
      BY <1>5, <1>16, <2>3 DEF WriteCatalog
    <2> QED
      BY <1>3, <2>1, <2>2, <2>4 DEF NamedBy
  <1>17. ASSUME ~WriteCatalog(u)
         PROVE  (\A r \in catalog' : r.server_id \in issued) /\ NamedBy(catalog', servers)
    BY <1>3, <1>6, <1>17
  <1> QED
    BY <1>9, <1>10, <1>11, <1>12, <1>13, <1>14, <1>15, <1>16, <1>17 DEF Step

(* A task outside the lock has nothing to be named. *)
LEMMA NextSticks ==
    ASSUME IInv, SettleInv, StickInv, [Next]_vars, [NamesStick]_vars
    PROVE  StickInv'
  <1> USE DEF IInv
  <1>1. ASSUME UNCHANGED <<servers, issued, catalog, pc, job>> PROVE StickInv'
    BY <1>1 DEF StickInv, NamedBy, StillNamed, Collects, NotLost, Registered
  <1>2. ASSUME NEW u \in Tasks, NEW operation, NEW target, Begin(u, operation, target),
               pc[u] \notin Inside, UNCHANGED <<servers, issued, catalog>>
        PROVE  StickInv'
    <2>1. /\ pc'[u] = "waiting" /\ job'[u].scan = NoSnapshot /\ job'[u].status = "none"
          /\ \A t \in Tasks \ {u} : pc'[t] = pc[t] /\ job'[t] = job[t]
      BY <1>2 DEF Begin, NewJob, TypeOK
    <2>2. (StillNamed(job[u].scan) /\ Collects(u) /\ NotLost(u))'
      BY <2>1, EmptySnapshot DEF StillNamed, Collects, NotLost, Inside
    <2>3. ASSUME NEW t \in Tasks, t # u
          PROVE  (StillNamed(job[t].scan) /\ Collects(t) /\ NotLost(t))'
      BY <1>2, <2>1, <2>3 DEF StickInv, StillNamed, Collects, NotLost, NamedBy
    <2> QED
      BY <1>2, <2>2, <2>3 DEF StickInv, NamedBy, Registered
  <1>3. ASSUME NEW u \in Tasks, NEW operation \in TaskOps, NEW target \in issued \cup {NoServer},
               Call(u, operation, target)
        PROVE  StickInv'
    BY <1>2, <1>3 DEF Call, persistent, Inside
  <1>4. ASSUME NEW u \in Tasks, Acquire(u) PROVE StickInv'
    <2>1. /\ pc[u] = "waiting" /\ pc'[u] = FirstStep(job[u].op)
          /\ job' = [job EXCEPT ![u].began = writes]
          /\ UNCHANGED <<servers, issued, catalog>>
      BY <1>4 DEF Acquire, TypeOK, persistent
    <2>2. /\ job'[u].op = job[u].op /\ job'[u].status = job[u].status
          /\ job'[u].rows = job[u].rows /\ job'[u].scan = job[u].scan
      BY <2>1 DEF TypeOK, Job
    <2>3. FirstStep(job[u].op) \in Inside /\ FirstStep(job[u].op) # "retain"
      BY DEF FirstStep, Inside
    <2>4. job[u].scan = NoSnapshot /\ job[u].rows = {}
      BY <2>1 DEF StickInv, Collects, SettleInv, Path, Inside
    <2>5. (StillNamed(job[u].scan) /\ Collects(u) /\ NotLost(u))'
      BY <2>1, <2>2, <2>3, <2>4, EmptySnapshot DEF StickInv, StillNamed, Collects, NotLost
    <2>6. ASSUME NEW t \in Tasks, t # u
          PROVE  (StillNamed(job[t].scan) /\ Collects(t) /\ NotLost(t))'
      BY <1>4, <2>1, <2>6, OthersUntouched DEF StickInv, StillNamed, Collects, NotLost, NamedBy
    <2> QED
      BY <2>1, <2>5, <2>6 DEF StickInv, NamedBy, Registered
  <1>5. ASSUME NEW u \in Tasks, Step(u) PROVE StickInv'
    <2>1. UNCHANGED <<servers, issued>>
      BY <1>5 DEF Step, ListNames, LookupServer, ReadServers, RebuildMounts, ListForCatalog,
                  Introspect, Retain, WriteCatalog, persistent
    <2>2. ASSUME NEW t \in Tasks, t # u
          PROVE  (StillNamed(job[t].scan) /\ Collects(t) /\ NotLost(t))'
      <3>1. pc'[t] = pc[t] /\ job'[t] = job[t] /\ pc[t] \notin Inside
        BY <1>5, <2>2, OthersUntouched, StepShape DEF MutualExclusion
      <3> QED
        BY <2>1, <3>1 DEF StickInv, StillNamed, Collects, NotLost
    <2>3. /\ (StillNamed(job[u].scan) /\ Collects(u) /\ NotLost(u))'
          /\ \A r \in catalog' : r.server_id \in issued
          /\ NamedBy(catalog', servers)
      BY <1>5, StepCollects
    <2> QED
      BY <2>1, <2>2, <2>3 DEF StickInv, NamedBy, Registered
  <1>6. CASE Admin
    <2>1. NamesStick
      BY <1>6, AdminAdvances DEF vars, TypeOK
    <2> QED
      BY <1>6, <2>1, AdminSticks
  <1>7. ASSUME NEW i \in ServerIds, NEW tools \in SUBSET Bares, UpstreamChanges(i, tools)
        PROVE  StickInv'
    BY <1>1, <1>7 DEF UpstreamChanges, persistent, process
  <1>8. CASE Boot
    BY <1>2, <1>8, BuilderAssumption
    DEF Boot, DownIsIdle, persistent, BuilderAssumption, Inside
  <1>9. CASE Serve
    BY <1>1, <1>2, <1>9, BuilderAssumption DEF Serve, persistent, BuilderAssumption, Inside
  <1>10. CASE Stop
    <2>1. /\ \A t \in Tasks : /\ pc'[t] = "idle" /\ job'[t].scan = NoSnapshot
                              /\ job'[t].status = "none"
          /\ UNCHANGED <<servers, issued, catalog>>
      BY <1>10 DEF Stop, IdleJob, NewJob, persistent
    <2>2. ASSUME NEW t \in Tasks
          PROVE  (StillNamed(job[t].scan) /\ Collects(t) /\ NotLost(t))'
      BY <2>1, EmptySnapshot DEF StillNamed, Collects, NotLost, Inside
    <2> QED
      BY <2>1, <2>2 DEF StickInv, NamedBy, Registered
  <1>11. CASE UNCHANGED vars
    BY <1>1, <1>11 DEF vars
  <1> QED
    BY <1>3, <1>4, <1>5, <1>6, <1>7, <1>8, <1>9, <1>10, <1>11 DEF Next

(* Only a rename loses a reload to the primary key of catalog_tools: while *)
(* every server keeps its name, no reload ends in an integrity error,      *)
(* whatever upstreams fail and whatever else the admin API is asked.  The  *)
(* run builder_isolation shows the reload a rename loses.                  *)
THEOREM OnlyRenamesLoseReloads ==
    Spec /\ [][NamesStick]_vars => []FailuresAreIsolated
  <1>1. Init => StickInv
    <2> SUFFICES ASSUME Init PROVE StickInv
      OBVIOUS
    <2>1. servers = NoSnapshot /\ catalog = {} /\ Registered(servers) = {}
      BY EmptySnapshot DEF Init
    <2>2. \A t \in Tasks : pc[t] = "idle" /\ job[t].scan = NoSnapshot /\ job[t].status = "none"
      BY DEF Init, IdleJob, NewJob
    <2> QED
      BY <2>1, <2>2, EmptySnapshot DEF StickInv, NamedBy, Collects, NotLost, Inside
  <1>2. IInv /\ SettleInv /\ StickInv /\ [Next]_vars /\ [NamesStick]_vars => StickInv'
    BY NextSticks
  <1>3. StickInv => FailuresAreIsolated
    BY DEF StickInv, NotLost, FailuresAreIsolated
  <1> QED
    BY <1>1, <1>2, <1>3, Invariance, Settling, PTL DEF Spec

-----------------------------------------------------------------------------
(* The lifespan around the builder (Lifespan.tla) *)

(* Where the lifespan stands says whether the builder's process is up, and *)
(* how much of what it started is still there.                             *)
PhaseFollows ==
    /\ phase = "down" <=> stage \in {"down", "setup", "teardown", "raised", "failed"}
    /\ phase = "starting" <=> stage = "starting"

(* The plugins that run are the first ones, and all of them while the      *)
(* builder works.  A teardown that raised left its plugin in the list.     *)
PluginsFollow ==
    /\ stage # "raised" => running = 1..started
    /\ stage = "raised" => started > 0 /\ running = 1..(started - 1)
    /\ stage \in {"down", "failed"} => started = 0
    /\ stage \in {"starting", "serving", "stopping"} => started = Plugins

(* A store that could not be initialised may be open or not. *)
StoreFollows == stage # "failed" => (store = "closed" <=> stage = "down")

LifespanInv == LifespanType /\ PhaseFollows /\ PluginsFollow /\ StoreFollows

(* What the lifespan does to the builder is a step of the builder.         *)
LEMMA LifespanStep ==
    ASSUME [LifespanNext]_all
    PROVE  [Next]_vars
  <1>1. CASE Start \/ StartRaises \/ Yield \/ CancelRefresh
    BY <1>1 DEF Start, StartRaises, Yield, CancelRefresh, Next
  <1>2. CASE Initialize \/ InitializeRaises \/ SetUp \/ SetUpRaises \/ Shutdown \/ TearDown \/ TearDownRaises
             \/ CloseStore
    BY <1>2
    DEF Initialize, InitializeRaises, SetUp, SetUpRaises, Shutdown, TearDown, TearDownRaises,
        CloseStore
  <1>3. CASE Die
    BY <1>3 DEF Die, Next
  <1>4. CASE Work
    BY <1>4 DEF Work, Next
  <1>5. CASE UNCHANGED all
    BY <1>5 DEF all
  <1> QED
    BY <1>1, <1>2, <1>3, <1>4, <1>5 DEF LifespanNext

(* The builder's own steps keep the phase. *)
LEMMA WorkKeepsPhase ==
    ASSUME Work
    PROVE  UNCHANGED <<phase, stage, started, running, store>>
  <1>1. ASSUME NEW t \in Tasks, Acquire(t) \/ Step(t) PROVE UNCHANGED phase
    BY <1>1
    DEF Acquire, Step, ListNames, LookupServer, ReadServers, RebuildMounts, ListForCatalog,
        Introspect, Retain, WriteCatalog
  <1>2. ASSUME Admin PROVE UNCHANGED phase
    BY <1>2
    DEF Admin, CreateServer, UpdateServer, DeleteServer, WriteGroup, AdminWrite, process
  <1>3. ASSUME NEW i, NEW tools, UpstreamChanges(i, tools) PROVE UNCHANGED phase
    BY <1>3 DEF UpstreamChanges, process
  <1>4. ASSUME NEW t, NEW operation, NEW target, Call(t, operation, target)
        PROVE  UNCHANGED phase
    BY <1>4 DEF Call
  <1>5. UNCHANGED phase
    BY <1>1, <1>2, <1>3, <1>4 DEF Work
  <1> QED
    BY <1>5 DEF Work, lifespan

LEMMA NextLifespanInv ==
    ASSUME LifespanInv, [LifespanNext]_all
    PROVE  LifespanInv'
  <1> USE PluginsAssumption DEF LifespanInv, LifespanType, Stages, PhaseFollows, PluginsFollow,
                                StoreFollows
  <1>1. CASE Initialize
    BY <1>1 DEF Initialize, vars
  <1>2. CASE SetUp
    BY <1>2 DEF SetUp, vars
  <1>3. CASE SetUpRaises
    BY <1>3 DEF SetUpRaises, vars
  <1>4. CASE Start
    BY <1>4 DEF Start, Boot
  <1>5. CASE StartRaises
    BY <1>5 DEF StartRaises, Stop
  <1>6. CASE Yield
    BY <1>6 DEF Yield, Serve
  <1>7. CASE Shutdown
    BY <1>7 DEF Shutdown, vars
  <1>8. CASE CancelRefresh
    BY <1>8 DEF CancelRefresh, Stop
  <1>9. CASE TearDown
    BY <1>9 DEF TearDown, vars
  <1>10. CASE TearDownRaises
    BY <1>10 DEF TearDownRaises, vars
  <1>11. CASE CloseStore
    BY <1>11 DEF CloseStore, vars
  <1>12. CASE Die
    <2>1. phase' = "down"
      BY <1>12 DEF Die, Stop, vars
    <2> QED
      BY <1>12, <2>1 DEF Die
  <1>13. CASE Work
    BY <1>13, WorkKeepsPhase
  <1>14. CASE InitializeRaises
    BY <1>14 DEF InitializeRaises, vars
  <1>15. CASE UNCHANGED all
    BY <1>15 DEF all, lifespan, vars
  <1> QED
    BY <1>1, <1>2, <1>3, <1>4, <1>5, <1>6, <1>7, <1>8, <1>9, <1>10, <1>11, <1>12, <1>13, <1>14,
       <1>15
    DEF LifespanNext

(* The lifespan implements the builder's specification: it only restricts  *)
(* when the builder starts, serves, works and stops.  Whatever was proved  *)
(* of the builder holds within it.                                         *)
THEOREM LifespanRunsBuilder == LifespanSpec => Spec
  <1>1. LifespanInit => Init
    BY DEF LifespanInit
  <1>2. [LifespanNext]_all => [Next]_vars
    BY LifespanStep
  <1> QED
    BY <1>1, <1>2, PTL DEF LifespanSpec, Spec

THEOREM LifespanInvariance == LifespanSpec => []LifespanInv
  <1>1. LifespanInit => LifespanInv
    BY PluginsAssumption
    DEF LifespanInit, Init, LifespanInv, LifespanType, Stages, PhaseFollows, PluginsFollow,
        StoreFollows
  <1>2. LifespanInv /\ [LifespanNext]_all => LifespanInv'
    BY NextLifespanInv
  <1> QED
    BY <1>1, <1>2, PTL DEF LifespanSpec

(* No operation of the builder runs without an open store and every plugin.*)
(* The builder's own invariant says that nothing runs in a process that is *)
(* down; the lifespan's, that until then all of it is there.               *)
THEOREM WorkersKeepTheirStore == LifespanSpec => []WorkersHaveTheirStore
  <1>1. IInv /\ LifespanInv => WorkersHaveTheirStore
    BY DEF IInv, DownIsIdle, LifespanInv, LifespanType, Stages, PhaseFollows, PluginsFollow,
           StoreFollows, WorkersHaveTheirStore
  <1> QED
    BY <1>1, LifespanRunsBuilder, Invariance, LifespanInvariance, PTL

(* Plugins go in reverse, each with the store still open.                  *)
THEOREM TeardownsInReverse == LifespanSpec => []DependenciesOutlive
  <1>1. LifespanInv => DependenciesOutlive
    BY PluginsAssumption
    DEF LifespanInv, LifespanType, PluginsFollow, StoreFollows, DependenciesOutlive
  <1> QED
    BY <1>1, LifespanInvariance, PTL

(* A lifespan that is over left nothing behind, unless a teardown raised,  *)
(* or initialising the store did: its connection may then be left.         *)
THEOREM NothingIsLeaked == LifespanSpec => []NothingLeaks
  <1>1. LifespanInv => NothingLeaks
    BY PluginsAssumption
    DEF LifespanInv, LifespanType, PluginsFollow, StoreFollows, NothingLeaks
  <1> QED
    BY <1>1, LifespanInvariance, PTL

(* Within the lifespan, too, nothing is served before a policy is built,   *)
(* and then only by the policy and mounts of a registry that was read.     *)
THEOREM LifespanServesUnderPolicy ==
    LifespanSpec => [](ServedUnderPolicy /\ (stage = "serving" => phase = "serving"))
  <1>1. TypeOK /\ LifespanInv => (stage = "serving" => phase = "serving")
    BY DEF TypeOK, LifespanInv, PhaseFollows
  <1> QED
    BY <1>1, LifespanRunsBuilder, TypeCorrectness, NeverServedUnbuilt, LifespanInvariance, PTL
=============================================================================
