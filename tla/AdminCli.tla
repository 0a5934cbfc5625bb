------------------------------ MODULE AdminCli ------------------------------
(***************************************************************************)
(* fast_gateway/cli.py against a running gateway.  Every process is one    *)
(* command: it looks up the ids of the names it was given, sends one write *)
(* to the admin API and, without --no-reload, POST /reload; its exit code  *)
(* is all the operator sees.  Other processes, other admins and a restart  *)
(* of the gateway come in between any two of its requests, and httpx gives *)
(* up waiting for an answer while the gateway goes on.                     *)
(*                                                                         *)
(* A handler of the admin API is one step (GatewayBuilder and SqliteStore  *)
(* look inside), a reload three: it reads the servers under the reload     *)
(* lock, reads the groups and mounts, and answers after the catalog        *)
(* refresh.                                                                *)
(***************************************************************************)
EXTENDS Integers, FiniteSets

CONSTANTS
    Processes,      \* invocations of the command line
    ServerIds, Names, GroupIds, GroupNames,
    Commands,       \* the command lines an operator may type
    FirstServers,   \* registries of servers the gateway may start with
    Absent,         \* no such row, no target, nobody holds the lock
    MaxRenames,     \* bound: renames by another admin
    MaxRestarts     \* bound: restarts of the gateway

Server  == [name : Names, enabled : BOOLEAN]
Group   == [name : GroupNames, members : SUBSET ServerIds]
Servers == [ServerIds -> Server \cup {Absent}]
Groups  == [GroupIds -> Group \cup {Absent}]

ServerOps == {"remove", "enable", "disable"}
GroupOps  == {"group_rm", "group_members"}
Ops       == ServerOps \cup GroupOps \cup {"add", "group_create", "reload"}

(* What is typed may be a name or an id; a creation is given a new name.   *)
Args == Names \cup ServerIds \cup GroupNames \cup GroupIds \cup {Absent}

FitsArg(op, arg) ==
    /\ op = "add" => arg \in Names
    /\ op = "group_create" => arg \in GroupNames

(* members are the names after --server, reload is without --no-reload.    *)
Command ==
    {c \in [op : Ops, arg : Args, members : SUBSET Names, reload : BOOLEAN] : FitsArg(c.op, c.arg)}

ASSUME CliAssumption ==
    /\ Commands \subseteq Command
    /\ FirstServers \subseteq Servers
    /\ Absent \notin Server \cup Group \cup ServerIds \cup GroupIds \cup Processes
    /\ (Names \cup GroupNames) \cap (ServerIds \cup GroupIds) = {}
    /\ MaxRenames \in Nat /\ MaxRestarts \in Nat

VARIABLES
    servers, groups,    \* the registry
    issued,     \* ids the store has issued: uuids, never issued twice
    version,    \* writes to the registry so far
    mounted,    \* what the policy and the mounts were built from
    lock,       \* the process whose reload holds _reload_lock
    snapshot,   \* the registry as that reload read its servers
    pc,         \* where each process is
    job,        \* its command, what it has looked up, the version it wrote
    wire,       \* its request to the gateway, or the answer to it
    exit,       \* its exit code
    renames, restarts

registry == <<servers, groups, issued, version>>
gateway  == <<mounted, lock, snapshot>>
vars == <<servers, groups, issued, version, mounted, lock, snapshot,
          pc, job, wire, exit, renames, restarts>>

Registry == [servers |-> servers, groups |-> groups, version |-> version]

UniquelyNamed(rows) ==
    \A i, j \in DOMAIN rows :
        rows[i] # Absent /\ rows[j] # Absent /\ rows[i].name = rows[j].name => i = j

Mounted == [servers : Servers, groups : Groups, version : Nat]

Job ==
    [op : Ops, arg : Args, todo : SUBSET Names, target : ServerIds \cup GroupIds \cup {Absent},
     members : SUBSET ServerIds, reload : BOOLEAN, wrote : Nat]

TypeOK ==
    /\ servers \in Servers /\ UniquelyNamed(servers)
    /\ groups \in Groups /\ UniquelyNamed(groups)
    /\ issued \in SUBSET (ServerIds \cup GroupIds)
    /\ version \in Nat
    /\ mounted \in Mounted
    /\ lock \in Processes \cup {Absent}
    /\ snapshot \in Mounted \cup {Absent}
    /\ pc \in [Processes -> {"idle", "resolve", "write", "reload", "done"}]
    /\ job \in [Processes -> Job \cup {Absent}]
    /\ wire \in [Processes -> {"none", "write", "reload", "reading", "mounted",
                               "ok", "refused", "failed"}]
    /\ exit \in [Processes -> {-1, 0, 1}]
    /\ renames \in Nat /\ restarts \in Nat

Init ==
    /\ servers \in FirstServers
    /\ UniquelyNamed(servers)
    /\ groups = [g \in GroupIds |-> Absent]
    /\ issued = {i \in ServerIds : servers[i] # Absent}
    /\ version = 0
    /\ mounted = Registry
    /\ lock = Absent
    /\ snapshot = Absent
    /\ pc = [p \in Processes |-> "idle"]
    /\ job = [p \in Processes |-> Absent]
    /\ wire = [p \in Processes |-> "none"]
    /\ exit = [p \in Processes |-> -1]
    /\ renames = 0
    /\ restarts = 0

-----------------------------------------------------------------------------
(* The process: what it does between two requests.                         *)

Goto(p, place) == pc' = [pc EXCEPT ![p] = place]

Exit(p, code) == Goto(p, "done") /\ exit' = [exit EXCEPT ![p] = code]

(* Reaching "write" or "reload" puts the request on the wire.              *)
Request(p, place) ==
    /\ Goto(p, place)
    /\ wire' = IF place \in {"write", "reload"} THEN [wire EXCEPT ![p] = place] ELSE wire

(* A command line is read and its first request goes out. *)
Begin(p, c, first) ==
    /\ pc[p] = "idle"
    /\ job' = [job EXCEPT ![p] =
                 [op |-> c.op, arg |-> c.arg, todo |-> c.members, target |-> Absent,
                  members |-> {}, reload |-> c.reload \/ c.op = "reload", wrote |-> version]]
    /\ Request(p, first)
    /\ UNCHANGED <<registry, gateway, exit, renames, restarts>>

Add(p, c)          == c.op = "add" /\ Begin(p, c, "write")
Remove(p, c)       == c.op = "remove" /\ Begin(p, c, "resolve")
SetEnabled(p, c)   == c.op \in {"enable", "disable"} /\ Begin(p, c, "resolve")
Reload(p, c)       == c.op = "reload" /\ Begin(p, c, "reload")
GroupCreate(p, c)  == c.op = "group_create" /\ Begin(p, c, "write")
GroupRm(p, c)      == c.op = "group_rm" /\ Begin(p, c, "resolve")
GroupMembers(p, c) == c.op = "group_members" /\ Begin(p, c, "resolve")

Start(p, c) ==
    \/ Add(p, c) \/ Remove(p, c) \/ SetEnabled(p, c) \/ Reload(p, c)
    \/ GroupCreate(p, c) \/ GroupRm(p, c) \/ GroupMembers(p, c)

Bearing(rows, arg) == {i \in DOMAIN rows : rows[i] # Absent /\ arg \in {i, rows[i].name}}

(* GET by id, else the list searched by name: a name is never an id, so    *)
(* only one of the two requests can find it.  Not found, or a gateway that *)
(* does not answer, ends the command.                                      *)
ResolveTarget(p) ==
    /\ pc[p] = "resolve"
    /\ job[p].target = Absent
    /\ LET found == Bearing(IF job[p].op \in GroupOps THEN groups ELSE servers, job[p].arg)
       IN  \/ \E i \in found :
                /\ job' = [job EXCEPT ![p].target = i]
                /\ Request(p, IF job[p].todo = {} THEN "write" ELSE "resolve")
                /\ UNCHANGED exit
           \/ found = {} /\ Exit(p, 1) /\ UNCHANGED <<job, wire>>
    /\ UNCHANGED <<registry, gateway, renames, restarts>>

(* group members looks its --server options up one by one. *)
ResolveMember(p) ==
    /\ pc[p] = "resolve"
    /\ job[p].target # Absent
    /\ \E name \in job[p].todo :
        \/ \E i \in Bearing(servers, name) :
            /\ job' = [job EXCEPT ![p].todo = @ \ {name}, ![p].members = @ \cup {i}]
            /\ Request(p, IF job[p].todo = {name} THEN "write" ELSE "resolve")
            /\ UNCHANGED exit
        \/ Bearing(servers, name) = {} /\ Exit(p, 1) /\ UNCHANGED <<job, wire>>
    /\ UNCHANGED <<registry, gateway, renames, restarts>>

(* The gateway is not listening: nothing was done. *)
ConnectFails(p) ==
    /\ \/ pc[p] = "resolve"
       \/ pc[p] \in {"write", "reload"} /\ wire[p] = pc[p]
    /\ Exit(p, 1)
    /\ wire' = [wire EXCEPT ![p] = "none"]
    /\ UNCHANGED <<registry, gateway, job, renames, restarts>>

(* Fault: no timeout for the reload, which may take long. *)
BugGiveUp(p) ==
    /\ pc[p] = "write" /\ wire[p] = "write"
    /\ Exit(p, 1)
    /\ UNCHANGED <<registry, gateway, job, wire, renames, restarts>>

(* httpx stops waiting after its default of five seconds; the request is   *)
(* where it was and the gateway may still carry it out.                    *)
GiveUp(p) ==
    /\ pc[p] \in {"write", "reload"}
    /\ wire[p] \in {"write", "reload", "reading", "mounted"}
    /\ Exit(p, 1)
    /\ UNCHANGED <<registry, gateway, job, wire, renames, restarts>>

Read(p) == wire' = [wire EXCEPT ![p] = "none"]

Written(p) ==
    /\ pc[p] = "write"
    /\ wire[p] = "ok"
    /\ IF job[p].reload
       THEN Request(p, "reload") /\ UNCHANGED exit
       ELSE Exit(p, 0) /\ Read(p)
    /\ UNCHANGED <<registry, gateway, job, renames, restarts>>

Reloaded(p) ==
    /\ pc[p] = "reload"
    /\ wire[p] = "ok"
    /\ Exit(p, 0)
    /\ Read(p)
    /\ UNCHANGED <<registry, gateway, job, renames, restarts>>

(* Fault: a reload that failed is reported and otherwise ignored. *)
BugRefused(p) ==
    /\ pc[p] \in {"write", "reload"}
    /\ wire[p] \in {"refused", "failed"}
    /\ Exit(p, IF pc[p] = "reload" THEN 0 ELSE 1)
    /\ Read(p)
    /\ UNCHANGED <<registry, gateway, job, renames, restarts>>

(* 404, 409, 500 or a broken connection. *)
Refused(p) ==
    /\ pc[p] \in {"write", "reload"}
    /\ wire[p] \in {"refused", "failed"}
    /\ Exit(p, 1)
    /\ Read(p)
    /\ UNCHANGED <<registry, gateway, job, renames, restarts>>

-----------------------------------------------------------------------------
(* The gateway's side.  A process that has exited reads no answer.         *)

Answer(p, answer) ==
    wire' = [wire EXCEPT ![p] = IF pc[p] = "done" THEN "none" ELSE answer]

Wants(p, op) == wire[p] = "write" /\ job[p].op = op

Accept(p) ==
    /\ version' = version + 1
    /\ job' = [job EXCEPT ![p].wrote = version + 1]
    /\ Answer(p, "ok")
    /\ UNCHANGED <<gateway, pc, exit, renames, restarts>>

Refuse(p) ==
    /\ Answer(p, "refused")
    /\ UNCHANGED <<registry, gateway, pc, job, exit, renames, restarts>>

AddServer(p) ==
    /\ Wants(p, "add")
    /\ \/ /\ Bearing(servers, job[p].arg) = {}
          /\ \E i \in ServerIds \ issued :
                /\ servers' = [servers EXCEPT ![i] = [name |-> job[p].arg, enabled |-> TRUE]]
                /\ issued' = issued \cup {i}
          /\ UNCHANGED groups
          /\ Accept(p)
       \/ Bearing(servers, job[p].arg) # {} /\ Refuse(p)

RemoveServer(p) ==
    /\ Wants(p, "remove")
    /\ \/ /\ servers[job[p].target] # Absent
          /\ servers' = [servers EXCEPT ![job[p].target] = Absent]
          /\ UNCHANGED <<groups, issued>>
          /\ Accept(p)
       \/ servers[job[p].target] = Absent /\ Refuse(p)

PatchEnabled(p) ==
    /\ Wants(p, "enable") \/ Wants(p, "disable")
    /\ \/ /\ servers[job[p].target] # Absent
          /\ servers' = [servers EXCEPT ![job[p].target].enabled = (job[p].op = "enable")]
          /\ UNCHANGED <<groups, issued>>
          /\ Accept(p)
       \/ servers[job[p].target] = Absent /\ Refuse(p)

CreateGroup(p) ==
    /\ Wants(p, "group_create")
    /\ \/ /\ Bearing(groups, job[p].arg) = {}
          /\ \E g \in GroupIds \ issued :
                /\ groups' = [groups EXCEPT ![g] = [name |-> job[p].arg, members |-> {}]]
                /\ issued' = issued \cup {g}
          /\ UNCHANGED servers
          /\ Accept(p)
       \/ Bearing(groups, job[p].arg) # {} /\ Refuse(p)

RemoveGroup(p) ==
    /\ Wants(p, "group_rm")
    /\ \/ /\ groups[job[p].target] # Absent
          /\ groups' = [groups EXCEPT ![job[p].target] = Absent]
          /\ UNCHANGED <<servers, issued>>
          /\ Accept(p)
       \/ groups[job[p].target] = Absent /\ Refuse(p)

(* The ids are stored as given, whether their servers are still there. *)
SetMembers(p) ==
    /\ Wants(p, "group_members")
    /\ \/ /\ groups[job[p].target] # Absent
          /\ groups' = [groups EXCEPT ![job[p].target].members = job[p].members]
          /\ UNCHANGED <<servers, issued>>
          /\ Accept(p)
       \/ groups[job[p].target] = Absent /\ Refuse(p)

(* The reload holds the lock from here, whether its client still waits.    *)
BeginReload(p) ==
    /\ wire[p] = "reload"
    /\ lock = Absent
    /\ lock' = p
    /\ snapshot' = Registry
    /\ wire' = [wire EXCEPT ![p] = "reading"]
    /\ UNCHANGED <<registry, mounted, pc, job, exit, renames, restarts>>

(* Fault: what an earlier reload mounted is not taken down. *)
BugMount(p) ==
    /\ wire[p] = "reading"
    /\ mounted' = [snapshot EXCEPT !.groups = groups,
                                   !.servers = [i \in ServerIds |->
                      IF @[i] = Absent THEN mounted.servers[i] ELSE @[i]]]
    /\ wire' = [wire EXCEPT ![p] = "mounted"]
    /\ UNCHANGED <<registry, lock, snapshot, pc, job, exit, renames, restarts>>

(* The groups are read last; nothing is awaited from there on. *)
Mount(p) ==
    /\ wire[p] = "reading"
    /\ mounted' = [snapshot EXCEPT !.groups = groups]
    /\ wire' = [wire EXCEPT ![p] = "mounted"]
    /\ UNCHANGED <<registry, lock, snapshot, pc, job, exit, renames, restarts>>

(* A 500 when a read of the registry raised, before anything was mounted,  *)
(* or when the catalog could not be written, after it.                     *)
EndReload(p) ==
    /\ wire[p] \in {"reading", "mounted"}
    /\ \/ wire[p] = "mounted" /\ Answer(p, "ok")
       \/ Answer(p, "failed")
    /\ lock' = Absent
    /\ snapshot' = Absent
    /\ UNCHANGED <<registry, mounted, pc, job, exit, renames, restarts>>

(* Another admin, by PATCH /servers/{id}. *)
Rename(i, name) ==
    /\ renames < MaxRenames
    /\ servers[i] # Absent
    /\ Bearing(servers, name) = {}
    /\ servers' = [servers EXCEPT ![i].name = name]
    /\ version' = version + 1
    /\ renames' = renames + 1
    /\ UNCHANGED <<groups, issued, gateway, pc, job, wire, exit, restarts>>

(* The gateway stops and starts: requests under way are lost, the lock is  *)
(* new, and the startup operation mounts the registry before it serves.    *)
Restart ==
    /\ restarts < MaxRestarts
    /\ restarts' = restarts + 1
    /\ mounted' = Registry
    /\ lock' = Absent
    /\ snapshot' = Absent
    /\ wire' = [p \in Processes |->
                  CASE pc[p] = "done" -> "none"
                    [] wire[p] \in {"none", "ok", "refused", "failed"} -> wire[p]
                    [] OTHER -> "failed"]
    /\ UNCHANGED <<registry, pc, job, exit, renames>>

-----------------------------------------------------------------------------
Invocation(p) ==
    \/ ResolveTarget(p) \/ ResolveMember(p) \/ ConnectFails(p) \/ GiveUp(p)
    \/ Written(p) \/ Reloaded(p) \/ Refused(p)

Handler(p) ==
    \/ AddServer(p) \/ RemoveServer(p) \/ PatchEnabled(p)
    \/ CreateGroup(p) \/ RemoveGroup(p) \/ SetMembers(p)
    \/ BeginReload(p) \/ Mount(p) \/ EndReload(p)

Next ==
    \/ \E p \in Processes, c \in Commands : Start(p, c)
    \/ \E p \in Processes : Invocation(p) \/ Handler(p)
    \/ \E i \in ServerIds, name \in Names : Rename(i, name)
    \/ Restart

Spec == Init /\ [][Next]_vars

(* A process that runs goes on: an answer, an error or a timeout comes to  *)
(* every request.  Nothing is assumed of the gateway.                      *)
FairSpec == Spec /\ \A p \in Processes : WF_vars(Invocation(p))

-----------------------------------------------------------------------------
(* Properties *)

(* Exit code 0 without --no-reload: the gateway serves the registry as the *)
(* command left it or a later one, whoever else wrote, reloaded, gave up   *)
(* or restarted it in between, and keeps doing so.                         *)
ExitZeroIsLive ==
    \A p \in Processes :
        exit[p] = 0 /\ job[p].reload => mounted.version >= job[p].wrote

(* A server whose removal was reported done is neither mounted again nor   *)
(* in the registry, though reloads that read it before may still run.      *)
RemovedIsGone ==
    \A p \in Processes :
        exit[p] = 0 /\ job[p].op = "remove" =>
            /\ servers[job[p].target] = Absent
            /\ job[p].reload => mounted.servers[job[p].target] = Absent

(* Every command ends, whatever the gateway does. *)
CommandsEnd == \A p \in Processes : pc[p] # "idle" ~> pc[p] = "done"
=============================================================================
