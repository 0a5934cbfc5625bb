--------------------------- MODULE AdminCliProofs ---------------------------
(***************************************************************************)
(* Theorems about AdminCli, for any number of processes, servers, groups   *)
(* and command lines: what exit code 0 says is so, and stays so.           *)
(***************************************************************************)
EXTENDS AdminCli, TLAPS

(* Where a process is and where its request is: a reload under way holds   *)
(* the lock, and a request may outlive its process.                        *)
At(p) ==
    /\ pc[p] \in {"idle", "resolve"} => wire[p] = "none"
    /\ pc[p] = "write" => wire[p] \in {"write", "ok", "refused", "failed"}
    /\ pc[p] = "reload" => wire[p] \in {"reload", "reading", "mounted", "ok", "failed"}
    /\ pc[p] = "done" => wire[p] \in {"none", "write", "reload", "reading", "mounted"}
    /\ wire[p] \in {"reading", "mounted"} <=> lock = p
    /\ exit[p] # -1 <=> pc[p] = "done"
    /\ exit[p] = 0 => wire[p] = "none"

Places ==
    /\ lock \in Processes \cup {Absent}
    /\ pc \in [Processes -> {"idle", "resolve", "write", "reload", "done"}]
    /\ wire \in [Processes -> {"none", "write", "reload", "reading", "mounted",
                               "ok", "refused", "failed"}]
    /\ exit \in [Processes -> {-1, 0, 1}]
    /\ \A p \in Processes : At(p)

LEMMA PlacesInit == Init => Places
  BY CliAssumption DEF Init, Places, At

LEMMA PlacesStep == Places /\ [Next]_vars => Places'
  <1> SUFFICES ASSUME Places, [Next]_vars PROVE Places'
    OBVIOUS
  <1> USE CliAssumption DEF Places, At
  <1>1. ASSUME NEW p \in Processes, NEW c \in Commands, Start(p, c) PROVE Places'
    <2>1. PICK first \in {"write", "resolve", "reload"} : Begin(p, c, first)
      BY <1>1 DEF Start, Add, Remove, SetEnabled, Reload, GroupCreate, GroupRm, GroupMembers
    <2> QED
      BY <2>1 DEF Begin, Request, Goto, gateway
  <1>2. ASSUME NEW p \in Processes, ResolveTarget(p) PROVE Places'
    BY <1>2 DEF ResolveTarget, Request, Goto, Exit, gateway
  <1>3. ASSUME NEW p \in Processes, ResolveMember(p) PROVE Places'
    BY <1>3 DEF ResolveMember, Request, Goto, Exit, gateway
  <1>4. ASSUME NEW p \in Processes, ConnectFails(p) PROVE Places'
    BY <1>4 DEF ConnectFails, Goto, Exit, gateway
  <1>5. ASSUME NEW p \in Processes, GiveUp(p) PROVE Places'
    BY <1>5 DEF GiveUp, Goto, Exit, gateway
  <1>6. ASSUME NEW p \in Processes, Written(p) PROVE Places'
    BY <1>6 DEF Written, Request, Goto, Exit, Read, gateway
  <1>7. ASSUME NEW p \in Processes, Reloaded(p) PROVE Places'
    BY <1>7 DEF Reloaded, Goto, Exit, Read, gateway
  <1>8. ASSUME NEW p \in Processes, Refused(p) PROVE Places'
    BY <1>8 DEF Refused, Goto, Exit, Read, gateway
  (* A write changes nothing here but its own answer. *)
  <1>9. ASSUME NEW p \in Processes,
               \/ AddServer(p) \/ RemoveServer(p) \/ PatchEnabled(p)
               \/ CreateGroup(p) \/ RemoveGroup(p) \/ SetMembers(p)
        PROVE  Places'
    <2>1. /\ wire[p] = "write"
          /\ Answer(p, "ok") \/ Answer(p, "refused")
          /\ UNCHANGED <<lock, pc, exit>>
      BY <1>9 DEF AddServer, RemoveServer, PatchEnabled, CreateGroup, RemoveGroup, SetMembers,
                  Wants, Accept, Refuse, gateway
    <2> QED
      BY <2>1 DEF Answer
  <1>10. ASSUME NEW p \in Processes, BeginReload(p) PROVE Places'
    BY <1>10 DEF BeginReload
  <1>11. ASSUME NEW p \in Processes, Mount(p) PROVE Places'
    BY <1>11 DEF Mount
  <1>12. ASSUME NEW p \in Processes, EndReload(p) PROVE Places'
    BY <1>12 DEF EndReload, Answer
  <1>13. ASSUME NEW i \in ServerIds, NEW name \in Names, Rename(i, name) PROVE Places'
    BY <1>13 DEF Rename, gateway
  <1>14. CASE Restart
    BY <1>14 DEF Restart
  <1>15. CASE UNCHANGED vars
    BY <1>15 DEF vars
  <1> QED
    BY <1>1, <1>2, <1>3, <1>4, <1>5, <1>6, <1>7, <1>8, <1>9, <1>10, <1>11, <1>12, <1>13,
       <1>14, <1>15 DEF Next, Invocation, Handler

-----------------------------------------------------------------------------
(* What a process that has started knows.  A command that looks an id up   *)
(* has one of the right kind before it writes.                             *)
Informed(p) ==
    pc[p] # "idle" =>
        /\ job[p] \in Job
        /\ FitsArg(job[p].op, job[p].arg)
        /\ job[p].op \in ServerOps => job[p].target \in ServerIds \cup {Absent}
        /\ job[p].op \in GroupOps => job[p].target \in GroupIds \cup {Absent}
        /\ job[p].op \in ServerOps \cup GroupOps
              /\ (pc[p] \in {"write", "reload"} \/ wire[p] # "none" \/ exit[p] = 0) =>
                    job[p].target # Absent

Rows ==
    /\ servers \in Servers /\ UniquelyNamed(servers)
    /\ groups \in Groups /\ UniquelyNamed(groups)
    /\ issued \in SUBSET (ServerIds \cup GroupIds)
    /\ version \in Nat
    /\ mounted \in Mounted
    /\ snapshot \in Mounted \cup {Absent}
    /\ lock # Absent => snapshot \in Mounted

Jobs ==
    /\ job \in [Processes -> Job \cup {Absent}]
    /\ \A p \in Processes : Informed(p)

Known == Places /\ Rows /\ Jobs /\ renames \in Nat /\ restarts \in Nat

LEMMA KnownIsTyped == Known => TypeOK
  BY DEF Known, Places, Rows, Jobs, TypeOK

LEMMA KnownInit == Init => Known
  <1> SUFFICES ASSUME Init PROVE Known
    OBVIOUS
  <1>1. Places
    BY PlacesInit
  <1>2. Rows
    BY CliAssumption DEF Init, Rows, Servers, Groups, UniquelyNamed, Mounted, Registry
  <1>3. Jobs
    BY DEF Init, Jobs, Informed
  <1> QED
    BY <1>1, <1>2, <1>3 DEF Known, Init

(* A new row, or a new name of one, that nothing else bears. *)
LEMMA StaysUnique ==
    ASSUME NEW ids, NEW rows, DOMAIN rows = ids, UniquelyNamed(rows),
           NEW i \in ids, NEW row, Bearing(rows, row.name) = {}
    PROVE  UniquelyNamed([rows EXCEPT ![i] = row])
  BY DEF UniquelyNamed, Bearing

(* Registry writes keep rows typed and uniquely named. *)
LEMMA RowsStep == Known /\ [Next]_vars => Rows'
  <1> SUFFICES ASSUME Known, [Next]_vars PROVE Rows'
    OBVIOUS
  <1> USE CliAssumption DEF Known, Rows
  <1>1. CASE UNCHANGED <<registry, gateway>>
    BY <1>1 DEF registry, gateway
  <1>2. ASSUME NEW p \in Processes, AddServer(p), ~Refuse(p) PROVE Rows'
    <2>1. PICK i \in ServerIds \ issued :
             servers' = [servers EXCEPT ![i] = [name |-> job[p].arg, enabled |-> TRUE]]
             /\ issued' = issued \cup {i}
      BY <1>2 DEF AddServer
    <2>2. job[p].arg \in Names
      BY <1>2 DEF AddServer, Wants, Jobs, Informed, FitsArg, Places, At
    <2>3. Bearing(servers, job[p].arg) = {} /\ UNCHANGED <<groups, gateway>>
      BY <1>2 DEF AddServer, Accept
    <2>4. version' = version + 1 /\ UNCHANGED gateway
      BY <1>2 DEF AddServer, Accept
    <2>5. servers' \in Servers
      BY <2>1, <2>2 DEF Servers, Server
    <2>6. UniquelyNamed(servers')
      BY <2>1, <2>3, StaysUnique DEF Servers
    <2> QED
      BY <2>1, <2>3, <2>4, <2>5, <2>6 DEF gateway
  <1>3. ASSUME NEW p \in Processes, RemoveServer(p), ~Refuse(p) PROVE Rows'
    <2>1. /\ servers' = [servers EXCEPT ![job[p].target] = Absent]
          /\ UNCHANGED <<groups, issued, gateway>> /\ version' = version + 1
      BY <1>3 DEF RemoveServer, Accept
    <2>2. servers' \in Servers
      BY <2>1 DEF Servers
    <2>3. UniquelyNamed(servers')
      BY <2>1 DEF UniquelyNamed, Servers
    <2> QED
      BY <2>1, <2>2, <2>3 DEF gateway
  <1>4. ASSUME NEW p \in Processes, PatchEnabled(p), ~Refuse(p) PROVE Rows'
    <2>1. /\ servers' = [servers EXCEPT ![job[p].target].enabled = (job[p].op = "enable")]
          /\ servers[job[p].target] # Absent
          /\ UNCHANGED <<groups, issued, gateway>> /\ version' = version + 1
      BY <1>4 DEF PatchEnabled, Accept
    <2>2. job[p].target \in ServerIds
      BY <1>4 DEF PatchEnabled, Wants, Jobs, Informed, ServerOps, Places, At
    <2>3. servers[job[p].target] \in Server
      BY <2>1, <2>2 DEF Servers
    <2>4. servers' \in Servers
      BY <2>1, <2>2, <2>3 DEF Servers, Server
    <2>5. UniquelyNamed(servers')
      BY <2>1, <2>2, <2>3 DEF UniquelyNamed, Servers, Server
    <2> QED
      BY <2>1, <2>4, <2>5 DEF gateway
  <1>5. ASSUME NEW p \in Processes, CreateGroup(p), ~Refuse(p) PROVE Rows'
    <2>1. PICK g \in GroupIds \ issued :
             groups' = [groups EXCEPT ![g] = [name |-> job[p].arg, members |-> {}]]
             /\ issued' = issued \cup {g}
      BY <1>5 DEF CreateGroup
    <2>2. job[p].arg \in GroupNames
      BY <1>5 DEF CreateGroup, Wants, Jobs, Informed, FitsArg, Places, At
    <2>3. Bearing(groups, job[p].arg) = {} /\ UNCHANGED <<servers, gateway>> /\ version' = version + 1
      BY <1>5 DEF CreateGroup, Accept
    <2>4. groups' \in Groups
      BY <2>1, <2>2 DEF Groups, Group
    <2>5. UniquelyNamed(groups')
      BY <2>1, <2>3, StaysUnique DEF Groups
    <2> QED
      BY <2>1, <2>3, <2>4, <2>5 DEF gateway
  <1>6. ASSUME NEW p \in Processes, RemoveGroup(p), ~Refuse(p) PROVE Rows'
    <2>1. /\ groups' = [groups EXCEPT ![job[p].target] = Absent]
          /\ UNCHANGED <<servers, issued, gateway>> /\ version' = version + 1
      BY <1>6 DEF RemoveGroup, Accept
    <2>2. groups' \in Groups
      BY <2>1 DEF Groups
    <2>3. UniquelyNamed(groups')
      BY <2>1 DEF UniquelyNamed, Groups
    <2> QED
      BY <2>1, <2>2, <2>3 DEF gateway
  <1>7. ASSUME NEW p \in Processes, SetMembers(p), ~Refuse(p) PROVE Rows'
    <2>1. /\ groups' = [groups EXCEPT ![job[p].target].members = job[p].members]
          /\ groups[job[p].target] # Absent
          /\ UNCHANGED <<servers, issued, gateway>> /\ version' = version + 1
      BY <1>7 DEF SetMembers, Accept
    <2>2. job[p].target \in GroupIds /\ job[p].members \in SUBSET ServerIds
      BY <1>7 DEF SetMembers, Wants, Jobs, Informed, GroupOps, Job, Places, At
    <2>3. groups[job[p].target] \in Group
      BY <2>1, <2>2 DEF Groups
    <2>4. groups' \in Groups
      BY <2>1, <2>2, <2>3 DEF Groups, Group
    <2>5. UniquelyNamed(groups')
      BY <2>1, <2>2, <2>3 DEF UniquelyNamed, Groups, Group
    <2> QED
      BY <2>1, <2>4, <2>5 DEF gateway
  <1>8. ASSUME NEW p \in Processes, BeginReload(p) PROVE Rows'
    BY <1>8 DEF BeginReload, registry, Mounted, Registry
  <1>9. ASSUME NEW p \in Processes, Mount(p) PROVE Rows'
    <2> DEFINE read == [snapshot EXCEPT !.groups = groups]
    <2>1. snapshot \in Mounted /\ groups \in Groups
      BY <1>9 DEF Mount, Places, At
    <2>2. read \in Mounted
      BY <2>1 DEF Mounted
    <2>3. mounted' = read /\ UNCHANGED <<registry, lock, snapshot>>
      BY <1>9 DEF Mount
    <2> HIDE DEF read
    <2> QED
      BY <2>2, <2>3 DEF registry
  <1>10. ASSUME NEW p \in Processes, EndReload(p) PROVE Rows'
    BY <1>10 DEF EndReload, registry
  <1>11. ASSUME NEW i \in ServerIds, NEW name \in Names, Rename(i, name) PROVE Rows'
    <2>1. /\ servers' = [servers EXCEPT ![i] = [servers[i] EXCEPT !.name = name]]
          /\ Bearing(servers, name) = {}
          /\ UNCHANGED <<groups, issued, gateway>> /\ version' = version + 1
      BY <1>11 DEF Rename
    <2>2. servers[i] \in Server
      BY <1>11 DEF Rename, Servers
    <2>3. servers' \in Servers
      BY <2>1, <2>2 DEF Servers, Server
    <2>4. [servers[i] EXCEPT !.name = name].name = name
      BY <2>2 DEF Server
    <2>5. UniquelyNamed(servers')
      BY <2>1, <2>4, StaysUnique DEF Servers
    <2> QED
      BY <2>1, <2>3, <2>5 DEF gateway
  <1>12. CASE Restart
    BY <1>12 DEF Restart, registry, Mounted, Registry
  <1>13. ASSUME NEW p \in Processes, NEW c \in Commands, Start(p, c)
         PROVE  UNCHANGED <<registry, gateway>>
    BY <1>13 DEF Start, Add, Remove, SetEnabled, Reload, GroupCreate, GroupRm, GroupMembers, Begin
  <1>14. ASSUME NEW p \in Processes, Invocation(p) PROVE UNCHANGED <<registry, gateway>>
    BY <1>14 DEF Invocation, ResolveTarget, ResolveMember, ConnectFails, GiveUp, Written,
                 Reloaded, Refused
  <1>15. ASSUME NEW p \in Processes, Refuse(p) PROVE UNCHANGED <<registry, gateway>>
    BY <1>15 DEF Refuse
  <1>16. CASE UNCHANGED vars
    BY <1>16 DEF vars
  <1> QED
    BY <1>1, <1>2, <1>3, <1>4, <1>5, <1>6, <1>7, <1>8, <1>9, <1>10, <1>11, <1>12, <1>13,
       <1>14, <1>15, <1>16 DEF Next, Handler

(* A step of one process leaves what another knows alone. *)
LEMMA OthersInformed ==
    ASSUME Jobs, NEW p \in Processes, job' \in [Processes -> Job \cup {Absent}], Informed(p)',
           \A q \in Processes \ {p} :
               job'[q] = job[q] /\ pc'[q] = pc[q] /\ wire'[q] = wire[q] /\ exit'[q] = exit[q]
    PROVE  Jobs'
  BY DEF Jobs, Informed

LEMMA JobsStep == Known /\ [Next]_vars => Jobs'
  <1> SUFFICES ASSUME Known, [Next]_vars PROVE Jobs'
    OBVIOUS
  <1> USE CliAssumption DEF Known, Jobs, Places
  <1>1. ASSUME NEW p \in Processes, NEW c \in Commands, Start(p, c) PROVE Jobs'
    <2>1. PICK first \in {"write", "resolve", "reload"} :
             /\ Begin(p, c, first)
             /\ c.op \in ServerOps \cup GroupOps => first = "resolve"
      BY <1>1 DEF Start, Add, Remove, SetEnabled, Reload, GroupCreate, GroupRm, GroupMembers,
                  ServerOps, GroupOps
    <2>2. /\ c \in [op : Ops, arg : Args, members : SUBSET Names, reload : BOOLEAN]
          /\ FitsArg(c.op, c.arg)
      BY DEF Command
    <2> DEFINE new == [op |-> c.op, arg |-> c.arg, todo |-> c.members, target |-> Absent,
                       members |-> {}, reload |-> c.reload \/ c.op = "reload", wrote |-> version]
    <2>3. new \in Job
      BY <2>2 DEF Job, Rows
    <2>4. job' = [job EXCEPT ![p] = new] /\ Request(p, first) /\ exit' = exit /\ pc[p] = "idle"
      BY <2>1 DEF Begin
    <2>5. wire[p] = "none" /\ exit[p] = -1
      BY <2>4 DEF At
    <2>6. Informed(p)'
      <3>1. new.op = c.op /\ new.arg = c.arg /\ new.target = Absent
        OBVIOUS
      <3>2. first = "resolve" => pc'[p] = "resolve" /\ wire'[p] = "none"
        BY <2>4, <2>5 DEF Request, Goto
      <3> HIDE DEF new
      <3>3. job'[p] = new
        BY <2>4
      <3> QED
        BY <2>1, <2>2, <2>3, <2>4, <2>5, <3>1, <3>2, <3>3 DEF Informed
    <2> HIDE DEF new
    <2> QED
      BY <2>3, <2>4, <2>6, OthersInformed DEF Request, Goto
  <1>2. ASSUME NEW p \in Processes, ResolveTarget(p) PROVE Jobs'
    <2>1. job[p] \in Job /\ Informed(p) /\ pc[p] = "resolve" /\ wire[p] = "none" /\ exit[p] = -1
      BY <1>2 DEF ResolveTarget, Informed, At
    <2>2. ASSUME NEW i \in Bearing(IF job[p].op \in GroupOps THEN groups ELSE servers, job[p].arg),
                 job' = [job EXCEPT ![p].target = i],
                 Request(p, IF job[p].todo = {} THEN "write" ELSE "resolve"), exit' = exit
          PROVE  Jobs'
      <3>1. IF job[p].op \in GroupOps THEN i \in GroupIds ELSE i \in ServerIds
        BY <2>2 DEF Bearing, Rows, Servers, Groups
      <3>2. job'[p] \in Job /\ job'[p].op = job[p].op /\ job'[p].arg = job[p].arg /\ job'[p].target = i
        BY <2>1, <2>2, <3>1 DEF Job
      <3>3. Informed(p)'
        BY <2>1, <2>2, <3>1, <3>2 DEF Informed, ServerOps, GroupOps
      <3> QED
        BY <2>2, <3>2, <3>3, OthersInformed DEF Request, Goto
    <2>3. ASSUME Exit(p, 1), UNCHANGED <<job, wire>> PROVE Jobs'
      BY <2>1, <2>3 DEF Exit, Goto, Informed
    <2> QED
      BY <1>2, <2>2, <2>3 DEF ResolveTarget
  <1>3. ASSUME NEW p \in Processes, ResolveMember(p) PROVE Jobs'
    <2>1. /\ job[p] \in Job /\ Informed(p) /\ pc[p] = "resolve" /\ wire[p] = "none" /\ exit[p] = -1
          /\ job[p].target # Absent
      BY <1>3 DEF ResolveMember, Informed, At
    <2>2. ASSUME NEW name \in job[p].todo, NEW i \in Bearing(servers, name),
                 job' = [job EXCEPT ![p].todo = @ \ {name}, ![p].members = @ \cup {i}],
                 Request(p, IF job[p].todo = {name} THEN "write" ELSE "resolve"), exit' = exit
          PROVE  Jobs'
      <3>1. i \in ServerIds
        BY <2>2 DEF Bearing, Rows, Servers
      <3>2. job' = [job EXCEPT ![p] = [job[p] EXCEPT !.todo = job[p].todo \ {name},
                                                    !.members = job[p].members \cup {i}]]
        BY <2>1, <2>2 DEF Job
      <3>3. /\ job'[p] \in Job
            /\ job'[p].op = job[p].op /\ job'[p].arg = job[p].arg /\ job'[p].target = job[p].target
        BY <2>1, <3>1, <3>2 DEF Job
      <3>4. Informed(p)'
        BY <2>1, <2>2, <3>3 DEF Informed
      <3> QED
        BY <2>2, <3>2, <3>3, <3>4, OthersInformed DEF Request, Goto
    <2>3. ASSUME Exit(p, 1), UNCHANGED <<job, wire>> PROVE Jobs'
      BY <2>1, <2>3 DEF Exit, Goto, Informed
    <2> QED
      BY <1>3, <2>2, <2>3 DEF ResolveMember
  <1>4. ASSUME NEW p \in Processes, ConnectFails(p) PROVE Jobs'
    BY <1>4 DEF ConnectFails, Exit, Goto, Informed, At
  <1>5. ASSUME NEW p \in Processes, GiveUp(p) PROVE Jobs'
    BY <1>5 DEF GiveUp, Exit, Goto, Informed, At
  <1>6. ASSUME NEW p \in Processes, Written(p) PROVE Jobs'
    BY <1>6 DEF Written, Request, Exit, Goto, Read, Informed, At
  <1>7. ASSUME NEW p \in Processes, Reloaded(p) PROVE Jobs'
    BY <1>7 DEF Reloaded, Exit, Goto, Read, Informed, At
  <1>8. ASSUME NEW p \in Processes, Refused(p) PROVE Jobs'
    BY <1>8 DEF Refused, Exit, Goto, Read, Informed, At
  <1>9. ASSUME NEW p \in Processes, Accept(p), wire[p] = "write" PROVE Jobs'
    <2>1. job[p] \in Job /\ Informed(p) /\ pc[p] # "idle"
      BY <1>9 DEF Informed, At
    <2>2. job' = [job EXCEPT ![p] = [job[p] EXCEPT !.wrote = version + 1]]
      BY <1>9 DEF Accept
    <2>3. /\ job'[p] \in Job
          /\ job'[p].op = job[p].op /\ job'[p].arg = job[p].arg /\ job'[p].target = job[p].target
      BY <2>1, <2>2 DEF Job, Rows
    <2>4. Answer(p, "ok") /\ UNCHANGED <<pc, exit>>
      BY <1>9 DEF Accept
    <2>5. Informed(p)'
      BY <1>9, <2>1, <2>3, <2>4 DEF Informed, Answer
    <2> QED
      BY <2>2, <2>3, <2>4, <2>5, OthersInformed DEF Answer
  <1>10. ASSUME NEW p \in Processes, wire[p] # "none", UNCHANGED <<job, pc, exit>>,
                NEW answer, wire' = [wire EXCEPT ![p] = answer]
         PROVE  Jobs'
    BY <1>10 DEF Informed
  <1>11. ASSUME NEW p \in Processes, Refuse(p), wire[p] = "write" PROVE Jobs'
    BY <1>10, <1>11 DEF Refuse, Answer
  <1>12. ASSUME NEW p \in Processes,
                BeginReload(p) \/ Mount(p) \/ EndReload(p)
         PROVE  Jobs'
    BY <1>10, <1>12 DEF BeginReload, Mount, EndReload, Answer
  <1>13. ASSUME NEW i \in ServerIds, NEW name \in Names, Rename(i, name) PROVE Jobs'
    BY <1>13 DEF Rename, Informed
  <1>14. CASE Restart
    <2>1. /\ UNCHANGED <<job, pc, exit>>
          /\ \A p \in Processes : wire'[p] # "none" => wire[p] # "none"
      BY <1>14 DEF Restart
    <2> QED
      BY <2>1 DEF Informed
  <1>15. CASE UNCHANGED vars
    BY <1>15 DEF vars, Informed
  <1>16. ASSUME NEW p \in Processes,
                \/ AddServer(p) \/ RemoveServer(p) \/ PatchEnabled(p)
                \/ CreateGroup(p) \/ RemoveGroup(p) \/ SetMembers(p)
         PROVE  (Accept(p) \/ Refuse(p)) /\ wire[p] = "write"
    BY <1>16 DEF AddServer, RemoveServer, PatchEnabled, CreateGroup, RemoveGroup, SetMembers, Wants
  <1> QED
    BY <1>1, <1>2, <1>3, <1>4, <1>5, <1>6, <1>7, <1>8, <1>9, <1>11, <1>12, <1>13,
       <1>14, <1>15, <1>16 DEF Next, Invocation, Handler

LEMMA KnownStep == Known /\ [Next]_vars => Known'
  <1> SUFFICES ASSUME Known, [Next]_vars PROVE Known'
    OBVIOUS
  <1>1. Places' /\ Rows' /\ Jobs'
    BY PlacesStep, RowsStep, JobsStep DEF Known
  <1>2. ASSUME NEW p \in Processes, NEW c \in Commands, Start(p, c)
        PROVE  UNCHANGED <<renames, restarts>>
    BY <1>2 DEF Start, Add, Remove, SetEnabled, Reload, GroupCreate, GroupRm, GroupMembers, Begin
  <1>3. ASSUME NEW p \in Processes, Invocation(p) PROVE UNCHANGED <<renames, restarts>>
    BY <1>3 DEF Invocation, ResolveTarget, ResolveMember, ConnectFails, GiveUp, Written,
                Reloaded, Refused
  <1>4. ASSUME NEW p \in Processes, Handler(p) PROVE UNCHANGED <<renames, restarts>>
    BY <1>4 DEF Handler, AddServer, RemoveServer, PatchEnabled, CreateGroup, RemoveGroup,
                SetMembers, Accept, Refuse, BeginReload, Mount, EndReload
  <1>5. (renames \in Nat)' /\ (restarts \in Nat)'
    BY <1>2, <1>3, <1>4 DEF Known, Next, Rename, Restart, vars
  <1> QED
    BY <1>1, <1>5 DEF Known

(* Every variable keeps its type; names of servers and of groups stay      *)
(* unique whatever commands run.                                           *)
THEOREM TypeCorrectness == Spec => []TypeOK
  <1>1. Spec => []Known
    BY KnownInit, KnownStep, PTL DEF Spec
  <1> QED
    BY <1>1, KnownIsTyped, PTL

-----------------------------------------------------------------------------
(* The versions of the registry behind a command: what it wrote is in what *)
(* its reload has read, then in what is mounted.                           *)
Dated(p) ==
    pc[p] # "idle" =>
        /\ job[p].wrote <= version
        /\ pc[p] = "reload" /\ wire[p] = "reading" => job[p].wrote <= snapshot.version
        /\ pc[p] = "reload" /\ wire[p] \in {"mounted", "ok"} => job[p].wrote <= mounted.version
        /\ exit[p] = 0 /\ job[p].reload => job[p].wrote <= mounted.version

(* Snapshots are taken under the lock, so none is older than what is       *)
(* mounted.                                                                *)
Ordered ==
    /\ mounted.version <= version
    /\ lock # Absent => mounted.version <= snapshot.version /\ snapshot.version <= version

Dates == Known /\ Ordered /\ \A p \in Processes : Dated(p)

LEMMA DatesInit == Init => Dates
  <1> SUFFICES ASSUME Init PROVE Dates
    OBVIOUS
  <1>1. Known
    BY KnownInit
  <1>2. Ordered /\ \A p \in Processes : Dated(p)
    BY DEF Init, Ordered, Dated, Registry
  <1> QED
    BY <1>1, <1>2 DEF Dates

(* Versions only grow while a snapshot is held, and jobs stay as they are: *)
(* then nothing that was dated loses its date.                             *)
LEMMA DatesKept ==
    ASSUME Dates, version' \in Nat, version' >= version, UNCHANGED gateway,
           NEW q \in Processes, pc[q] # "idle", job'[q] = job[q], exit'[q] = exit[q],
           pc'[q] = pc[q], wire'[q] = wire[q]
    PROVE  Dated(q)'
  <1>1. Dated(q) /\ job[q] \in Job /\ version \in Nat
    BY DEF Dates, Known, Rows, Jobs, Informed
  <1> QED
    BY <1>1 DEF gateway, Dated, Job

LEMMA DatesStep == Dates /\ [Next]_vars => Dates'
  <1> SUFFICES ASSUME Dates, [Next]_vars PROVE Dates'
    OBVIOUS
  <1>1. Known /\ Known'
    BY KnownStep DEF Dates
  <1>2. /\ version \in Nat /\ mounted.version \in Nat
        /\ lock # Absent => snapshot.version \in Nat
        /\ \A p \in Processes : pc[p] # "idle" => job[p] \in Job /\ job[p].wrote \in Nat
        /\ \A p \in Processes : At(p)
        /\ lock \in Processes \cup {Absent} /\ Absent \notin Processes
    BY <1>1, CliAssumption DEF Known, Rows, Jobs, Informed, Job, Mounted, Places
  <1>3. /\ pc \in [Processes -> {"idle", "resolve", "write", "reload", "done"}]
        /\ wire \in [Processes -> {"none", "write", "reload", "reading", "mounted",
                                   "ok", "refused", "failed"}]
        /\ exit \in [Processes -> {-1, 0, 1}]
        /\ job \in [Processes -> Job \cup {Absent}]
    BY <1>1 DEF Known, Places, Jobs
  <1> DEFINE Goal == Ordered' /\ \A p \in Processes : Dated(p)'
  <1> SUFFICES Goal
    BY <1>1 DEF Dates
  <1> USE DEF Dates, Ordered
  <1>4. ASSUME NEW p \in Processes, NEW c \in Commands, Start(p, c) PROVE Goal
    <2>1. PICK first \in {"write", "resolve", "reload"} : Begin(p, c, first)
      BY <1>4 DEF Start, Add, Remove, SetEnabled, Reload, GroupCreate, GroupRm, GroupMembers
    <2>2. /\ job'[p].wrote = version /\ exit' = exit /\ exit[p] = -1
          /\ pc'[p] = "reload" => wire'[p] = "reload"
          /\ UNCHANGED <<registry, gateway>>
      BY <1>2, <1>3, <2>1 DEF Begin, Request, Goto, At
    <2>3. Dated(p)'
      BY <1>2, <2>2 DEF Dated, registry
    <2>4. ASSUME NEW q \in Processes \ {p} PROVE Dated(q)'
      BY <1>2, <1>3, <2>1, <2>2, DatesKept DEF Begin, Request, Goto, registry, Dated
    <2> QED
      BY <2>2, <2>3, <2>4 DEF registry, gateway
  <1>5. ASSUME NEW p \in Processes, ResolveTarget(p) \/ ResolveMember(p) PROVE Goal
    <2>1. /\ pc[p] = "resolve" /\ exit[p] = -1 /\ job[p] \in Job
          /\ UNCHANGED <<registry, gateway>>
          /\ \A q \in Processes \ {p} : /\ job'[q] = job[q] /\ exit'[q] = exit[q]
                                        /\ pc'[q] = pc[q] /\ wire'[q] = wire[q]
      BY <1>2, <1>3, <1>5 DEF ResolveTarget, ResolveMember, Request, Goto, Exit, At
    <2> DEFINE Still == pc'[p] # "reload" /\ exit'[p] # 0 /\ job'[p].wrote = job[p].wrote
    <2>2. ASSUME ResolveTarget(p) PROVE Still
      <3>1. pc'[p] # "reload" /\ exit'[p] # 0
        BY <1>3, <2>1, <2>2 DEF ResolveTarget, Request, Goto, Exit
      <3>2. job' = job \/ \E i : job' = [job EXCEPT ![p].target = i]
        BY <2>2 DEF ResolveTarget
      <3> QED
        BY <1>3, <2>1, <3>1, <3>2 DEF Job
    <2>3. ASSUME ResolveMember(p) PROVE Still
      <3>1. pc'[p] # "reload" /\ exit'[p] # 0
        BY <1>3, <2>1, <2>3 DEF ResolveMember, Request, Goto, Exit
      <3>2. ASSUME NEW name \in job[p].todo, NEW i \in Bearing(servers, name),
                   job' = [job EXCEPT ![p].todo = @ \ {name}, ![p].members = @ \cup {i}]
            PROVE  job'[p].wrote = job[p].wrote
        <4>1. job' = [job EXCEPT ![p] = [job[p] EXCEPT !.todo = job[p].todo \ {name},
                                                      !.members = job[p].members \cup {i}]]
          BY <1>3, <2>1, <3>2 DEF Job
        <4> QED
          BY <1>3, <2>1, <4>1 DEF Job
      <3>3. job'[p].wrote = job[p].wrote
        BY <2>3, <3>2 DEF ResolveMember
      <3> QED
        BY <3>1, <3>3
    <2>4. Dated(p)'
      BY <1>2, <1>5, <2>1, <2>2, <2>3 DEF Dated, registry
    <2>5. ASSUME NEW q \in Processes \ {p} PROVE Dated(q)'
      BY <1>2, <2>1, DatesKept DEF registry, Dated
    <2> QED
      BY <2>1, <2>4, <2>5 DEF registry, gateway
  <1>6. ASSUME NEW p \in Processes,
               ConnectFails(p) \/ GiveUp(p) \/ Written(p) \/ Reloaded(p) \/ Refused(p)
        PROVE  Goal
    <2>1. UNCHANGED <<registry, gateway, job>>
      BY <1>6 DEF ConnectFails, GiveUp, Written, Reloaded, Refused
    <2>2. ASSUME NEW q \in Processes \ {p}
          PROVE  exit'[q] = exit[q] /\ pc'[q] = pc[q] /\ wire'[q] = wire[q]
      BY <1>3, <1>6 DEF ConnectFails, GiveUp, Written, Reloaded, Refused, Request, Goto, Exit, Read
    <2>3. pc[p] # "idle" /\ pc'[p] \in {"reload", "done"} /\ (pc'[p] = "reload" => wire'[p] = "reload")
      BY <1>3, <1>6 DEF ConnectFails, GiveUp, Written, Reloaded, Refused, Request, Goto, Exit, Read
    <2>4. exit'[p] = 0 /\ job[p].reload => pc[p] = "reload" /\ wire[p] = "ok"
      BY <1>2, <1>3, <1>6 DEF ConnectFails, GiveUp, Written, Reloaded, Refused, Request, Goto,
                              Exit, At
    <2>5. Dated(p)'
      BY <1>2, <2>1, <2>3, <2>4 DEF Dated, registry, gateway
    <2>6. ASSUME NEW q \in Processes \ {p} PROVE Dated(q)'
      BY <1>2, <2>1, <2>2, DatesKept DEF registry, Dated
    <2> QED
      BY <2>1, <2>5, <2>6 DEF registry, gateway
  <1>7. ASSUME NEW p \in Processes, Accept(p), wire[p] = "write" PROVE Goal
    <2>1. /\ version' = version + 1 /\ UNCHANGED <<gateway, pc, exit>>
          /\ pc[p] \in {"write", "done"} /\ exit[p] # 0
      BY <1>2, <1>3, <1>7 DEF Accept, At
    <2>2. job'[p].wrote = version + 1
      BY <1>2, <1>3, <1>7, <2>1 DEF Accept, Job
    <2>3. ASSUME NEW q \in Processes \ {p} PROVE job'[q] = job[q] /\ wire'[q] = wire[q]
      BY <1>3, <1>7 DEF Accept, Answer
    <2>4. Dated(p)'
      BY <1>2, <2>1, <2>2 DEF Dated
    <2>5. ASSUME NEW q \in Processes \ {p} PROVE Dated(q)'
      BY <1>2, <2>1, <2>3, DatesKept DEF Dated
    <2> QED
      BY <1>2, <2>1, <2>4, <2>5 DEF gateway
  <1>8. ASSUME NEW p \in Processes, Refuse(p), wire[p] = "write" PROVE Goal
    <2>1. UNCHANGED <<registry, gateway, pc, exit, job>> /\ wire' = [wire EXCEPT ![p] = wire'[p]]
          /\ pc[p] \in {"write", "done"}
      BY <1>2, <1>3, <1>8 DEF Refuse, Answer, At
    <2> QED
      BY <1>2, <1>3, <2>1 DEF Dated, registry, gateway
  <1>9. ASSUME NEW p \in Processes, BeginReload(p) PROVE Goal
    <2>1. /\ UNCHANGED <<registry, mounted, pc, exit, job>> /\ lock = Absent /\ lock' = p
          /\ snapshot'.version = version /\ wire' = [wire EXCEPT ![p] = "reading"]
      BY <1>9 DEF BeginReload, Registry
    <2> QED
      BY <1>2, <1>3, <2>1 DEF Dated, registry, At
  <1>10. ASSUME NEW p \in Processes, Mount(p) PROVE Goal
    <2>1. /\ UNCHANGED <<registry, lock, snapshot, pc, exit, job>>
          /\ mounted'.version = snapshot.version /\ lock = p /\ wire[p] = "reading"
          /\ wire' = [wire EXCEPT ![p] = "mounted"]
      <3>1. lock = p /\ lock # Absent
        BY <1>2, <1>10 DEF Mount, At
      <3>2. snapshot \in Mounted
        BY <3>1 DEF Known, Rows
      <3>3. mounted'.version = snapshot.version
        BY <1>10, <3>2 DEF Mount, Mounted
      <3> QED
        BY <1>10, <3>1, <3>3 DEF Mount
    <2> QED
      BY <1>2, <1>3, <2>1 DEF Dated, registry, At
  <1>11. ASSUME NEW p \in Processes, EndReload(p) PROVE Goal
    <2>1. /\ UNCHANGED <<registry, mounted, pc, exit, job>> /\ lock' = Absent
          /\ wire[p] \in {"reading", "mounted"} /\ lock = p
          /\ wire' = [wire EXCEPT ![p] = wire'[p]]
          /\ wire'[p] \in {"none", "ok", "failed"}
          /\ wire'[p] = "ok" => wire[p] = "mounted"
      BY <1>2, <1>3, <1>11 DEF EndReload, Answer, At
    <2> QED
      BY <1>2, <1>3, <2>1 DEF Dated, registry, At
  <1>12. ASSUME NEW i \in ServerIds, NEW name \in Names, Rename(i, name) PROVE Goal
    <2>1. version' = version + 1 /\ UNCHANGED <<gateway, pc, job, wire, exit>>
      BY <1>12 DEF Rename
    <2>2. ASSUME NEW q \in Processes PROVE Dated(q)'
      BY <1>2, <2>1, DatesKept DEF Dated
    <2> QED
      BY <1>2, <2>1, <2>2 DEF gateway
  <1>13. CASE Restart
    <2>1. /\ UNCHANGED <<registry, pc, job, exit>> /\ lock' = Absent /\ mounted'.version = version
          /\ \A p \in Processes : wire'[p] \notin {"reading", "mounted"}
      BY <1>13 DEF Restart, Registry
    <2> QED
      BY <1>2, <2>1 DEF Dated, registry
  <1>14. CASE UNCHANGED vars
    BY <1>14 DEF vars, Dated
  <1>15. ASSUME NEW p \in Processes,
                \/ AddServer(p) \/ RemoveServer(p) \/ PatchEnabled(p)
                \/ CreateGroup(p) \/ RemoveGroup(p) \/ SetMembers(p)
         PROVE  (Accept(p) \/ Refuse(p)) /\ wire[p] = "write"
    BY <1>15 DEF AddServer, RemoveServer, PatchEnabled, CreateGroup, RemoveGroup, SetMembers, Wants
  <1> HIDE DEF Goal
  <1> QED
    BY <1>4, <1>5, <1>6, <1>7, <1>8, <1>9, <1>10, <1>11, <1>12, <1>13, <1>14, <1>15
       DEF Next, Invocation, Handler

(* Exit code 0, without --no-reload: what the command wrote is served, by  *)
(* the mounts of its own reload, of a later one or of a later start.       *)
THEOREM ExitZeroMeansServed == Spec => []ExitZeroIsLive
  <1>1. Spec => []Dates
    BY DatesInit, DatesStep, PTL DEF Spec
  <1>2. Dates => ExitZeroIsLive
    <2> SUFFICES ASSUME Dates, NEW p \in Processes, exit[p] = 0, job[p].reload
                 PROVE  mounted.version >= job[p].wrote
      BY DEF ExitZeroIsLive
    <2>1. pc[p] # "idle"
      BY DEF Dates, Known, Places, At
    <2>2. job[p].wrote \in Nat /\ mounted.version \in Nat
      BY <2>1 DEF Dates, Known, Rows, Jobs, Informed, Job, Mounted
    <2> QED
      BY <2>1, <2>2 DEF Dates, Dated
  <1> QED
    BY <1>1, <1>2, PTL

-----------------------------------------------------------------------------
(* The gateway has accepted the removal, and the process has not failed.   *)
Removing(p) ==
    /\ pc[p] # "idle"
    /\ job[p].op = "remove"
    /\ (pc[p] = "write" /\ wire[p] = "ok") \/ pc[p] = "reload" \/ exit[p] = 0

(* Its server is not registered, nor in anything that was read since.      *)
Gone(p) ==
    Removing(p) =>
        /\ job[p].target \in ServerIds \cap issued
        /\ servers[job[p].target] = Absent
        /\ mounted.version >= job[p].wrote => mounted.servers[job[p].target] = Absent
        /\ lock # Absent /\ snapshot.version >= job[p].wrote =>
                snapshot.servers[job[p].target] = Absent

Removals ==
    /\ Dates
    /\ \A i \in ServerIds : servers[i] # Absent => i \in issued
    /\ \A p \in Processes : Gone(p)

LEMMA RemovalsInit == Init => Removals
  <1> SUFFICES ASSUME Init PROVE Removals
    OBVIOUS
  <1>1. Dates
    BY DatesInit
  <1>2. \A i \in ServerIds : servers[i] # Absent => i \in issued
    BY DEF Init
  <1>3. \A p \in Processes : Gone(p)
    BY DEF Init, Gone, Removing
  <1> QED
    BY <1>1, <1>2, <1>3 DEF Removals

(* No id is issued twice, and no row comes back. *)
LEMMA RegistryMoves ==
    ASSUME Known, [Next]_vars
    PROVE  /\ issued \subseteq issued'
           /\ \A i \in ServerIds : i \in issued /\ servers[i] = Absent => servers'[i] = Absent
           /\ \A i \in ServerIds : servers'[i] # Absent => servers[i] # Absent \/ i \in issued'
  <1> DEFINE Goal == /\ issued \subseteq issued'
                     /\ \A i \in ServerIds :
                            i \in issued /\ servers[i] = Absent => servers'[i] = Absent
                     /\ \A i \in ServerIds :
                            servers'[i] # Absent => servers[i] # Absent \/ i \in issued'
  <1>1. servers \in [ServerIds -> Server \cup {Absent}]
    BY DEF Known, Rows, Servers
  <1>2. CASE UNCHANGED <<servers, issued>>
    BY <1>2
  <1>3. ASSUME NEW p \in Processes, NEW c \in Commands, Start(p, c)
        PROVE  UNCHANGED <<servers, issued>>
    BY <1>3 DEF Start, Add, Remove, SetEnabled, Reload, GroupCreate, GroupRm, GroupMembers,
                Begin, registry
  <1>4. ASSUME NEW p \in Processes, Invocation(p) PROVE UNCHANGED <<servers, issued>>
    BY <1>4 DEF Invocation, ResolveTarget, ResolveMember, ConnectFails, GiveUp, Written,
                Reloaded, Refused, registry
  <1>5. ASSUME NEW p \in Processes, AddServer(p) PROVE Goal
    BY <1>1, <1>5 DEF AddServer, Refuse, registry
  <1>6. ASSUME NEW p \in Processes, RemoveServer(p) PROVE Goal
    BY <1>1, <1>6 DEF RemoveServer, Refuse, registry
  <1>7. ASSUME NEW p \in Processes, PatchEnabled(p) PROVE Goal
    <2>1. CASE Refuse(p)
      BY <2>1 DEF Refuse, registry
    <2>2. CASE ~Refuse(p)
      <3>1. /\ \E row : servers' = [servers EXCEPT ![job[p].target] = row]
            /\ servers[job[p].target] # Absent /\ issued' = issued
        BY <1>7, <2>2 DEF PatchEnabled
      <3> QED
        BY <1>1, <3>1
    <2> QED
      BY <2>1, <2>2
  <1>8. ASSUME NEW p \in Processes, CreateGroup(p) PROVE Goal
    BY <1>8 DEF CreateGroup, Refuse, registry
  <1>9. ASSUME NEW p \in Processes, RemoveGroup(p) \/ SetMembers(p)
        PROVE  UNCHANGED <<servers, issued>>
    BY <1>9 DEF RemoveGroup, SetMembers, Refuse, registry
  <1>10. ASSUME NEW p \in Processes, BeginReload(p) \/ Mount(p) \/ EndReload(p)
         PROVE  UNCHANGED <<servers, issued>>
    BY <1>10 DEF BeginReload, Mount, EndReload, registry
  <1>11. ASSUME NEW i \in ServerIds, NEW name \in Names, Rename(i, name) PROVE Goal
    <2>1. /\ \E row : servers' = [servers EXCEPT ![i] = row]
          /\ servers[i] # Absent /\ issued' = issued
      BY <1>11 DEF Rename
    <2> QED
      BY <1>1, <2>1
  <1>12. CASE Restart
    BY <1>2, <1>12 DEF Restart, registry
  <1>13. CASE UNCHANGED vars
    BY <1>2, <1>13 DEF vars
  <1> HIDE DEF Goal
  <1>14. Goal
    <2>1. CASE UNCHANGED <<servers, issued>>
      BY <1>2, <2>1 DEF Goal
    <2> QED
      BY <2>1, <1>3, <1>4, <1>5, <1>6, <1>7, <1>8, <1>9, <1>10, <1>11, <1>12, <1>13
         DEF Next, Handler, Restart, registry, vars
  <1> QED
    BY <1>14 DEF Goal

(* What is mounted or read is as before, or comes from the registry.       *)
LEMMA MountsMove ==
    ASSUME Known, [Next]_vars
    PROVE  /\ \/ mounted' = mounted
              \/ /\ lock # Absent
                 /\ mounted'.servers = snapshot.servers
                 /\ mounted'.version = snapshot.version
              \/ mounted'.servers = servers
           /\ lock' # Absent =>
                \/ lock # Absent /\ snapshot' = snapshot
                \/ snapshot'.servers = servers
  <1> USE CliAssumption
  <1>1. ASSUME UNCHANGED gateway PROVE UNCHANGED <<mounted, lock, snapshot>>
    BY <1>1 DEF gateway
  <1>2. ASSUME NEW p \in Processes, NEW c \in Commands, Start(p, c) PROVE UNCHANGED gateway
    BY <1>2 DEF Start, Add, Remove, SetEnabled, Reload, GroupCreate, GroupRm, GroupMembers, Begin
  <1>3. ASSUME NEW p \in Processes, Invocation(p) PROVE UNCHANGED gateway
    BY <1>3 DEF Invocation, ResolveTarget, ResolveMember, ConnectFails, GiveUp, Written,
                Reloaded, Refused
  <1>4. ASSUME NEW p \in Processes,
               \/ AddServer(p) \/ RemoveServer(p) \/ PatchEnabled(p)
               \/ CreateGroup(p) \/ RemoveGroup(p) \/ SetMembers(p)
        PROVE  UNCHANGED gateway
    BY <1>4 DEF AddServer, RemoveServer, PatchEnabled, CreateGroup, RemoveGroup, SetMembers,
                Accept, Refuse
  <1>5. ASSUME NEW i \in ServerIds, NEW name \in Names, Rename(i, name) PROVE UNCHANGED gateway
    BY <1>5 DEF Rename
  <1>6. ASSUME UNCHANGED vars PROVE UNCHANGED gateway
    BY <1>6 DEF vars, gateway
  <1>7. ASSUME NEW p \in Processes, BeginReload(p)
        PROVE  mounted' = mounted /\ snapshot'.servers = servers
    BY <1>7 DEF BeginReload, Registry
  <1>8. ASSUME NEW p \in Processes, Mount(p)
        PROVE  /\ lock = p /\ lock' = lock /\ snapshot' = snapshot
               /\ mounted'.servers = snapshot.servers /\ mounted'.version = snapshot.version
    <2>1. lock = p /\ lock # Absent
      BY <1>8 DEF Mount, Known, Places, At
    <2>2. snapshot \in Mounted
      BY <2>1 DEF Known, Rows
    <2> QED
      BY <1>8, <2>1, <2>2 DEF Mount, Mounted
  <1>9. ASSUME NEW p \in Processes, EndReload(p) PROVE mounted' = mounted /\ lock' = Absent
    BY <1>9 DEF EndReload
  <1>10. ASSUME Restart PROVE mounted'.servers = servers /\ lock' = Absent
    BY <1>10 DEF Restart, Registry
  <1> QED
    BY <1>1, <1>2, <1>3, <1>4, <1>5, <1>6, <1>7, <1>8, <1>9, <1>10 DEF Next, Handler

(* A process is removing because it was, or because the gateway has just   *)
(* accepted its removal.                                                   *)
LEMMA RemovalsMove ==
    ASSUME Known, [Next]_vars, NEW q \in Processes, Removing(q)'
    PROVE  \/ Removing(q) /\ job'[q] = job[q]
           \/ RemoveServer(q) /\ Accept(q) /\ servers[job[q].target] # Absent
  <1>1. /\ pc \in [Processes -> {"idle", "resolve", "write", "reload", "done"}]
        /\ wire \in [Processes -> {"none", "write", "reload", "reading", "mounted",
                                   "ok", "refused", "failed"}]
        /\ exit \in [Processes -> {-1, 0, 1}]
        /\ job \in [Processes -> Job \cup {Absent}]
        /\ \A p \in Processes : At(p)
        /\ \A p \in Processes : pc[p] # "idle" => job[p] \in Job
    BY DEF Known, Places, Jobs, Informed
  <1> DEFINE Was == Removing(q) /\ job'[q] = job[q]
  <1> USE <1>1 DEF Removing
  <1>2. ASSUME NEW p \in Processes, NEW c \in Commands, Start(p, c) PROVE Was
    <2>1. PICK first \in {"write", "resolve", "reload"} :
             Begin(p, c, first) /\ (c.op = "remove" => first = "resolve")
      BY <1>2 DEF Start, Add, Remove, SetEnabled, Reload, GroupCreate, GroupRm, GroupMembers
    <2>2. p = q => job'[q].op = c.op /\ exit'[q] = -1 /\ pc'[q] = first
      BY <2>1 DEF Begin, Request, Goto, At
    <2>3. p # q /\ job'[q] = job[q] /\ pc'[q] = pc[q] /\ exit'[q] = exit[q] /\ wire'[q] = wire[q]
      BY <2>1, <2>2 DEF Begin, Request, Goto
    <2> QED
      BY <2>3
  <1>3. ASSUME NEW p \in Processes, ResolveTarget(p) \/ ResolveMember(p) PROVE Was
    <2>1. /\ pc[p] = "resolve" /\ exit[p] = -1 /\ wire[p] = "none"
          /\ p # q => /\ job'[q] = job[q] /\ exit'[q] = exit[q]
                      /\ pc'[q] = pc[q] /\ wire'[q] = wire[q]
      BY <1>3 DEF ResolveTarget, ResolveMember, Request, Goto, Exit, At
    <2>2. ASSUME p = q PROVE exit'[p] # 0 /\ pc'[p] # "reload" /\ (pc'[p] = "write" => wire'[p] = "write")
      <3>1. ASSUME NEW place \in {"write", "resolve"}, Request(p, place), exit' = exit
            PROVE  exit'[p] # 0 /\ pc'[p] # "reload" /\ (pc'[p] = "write" => wire'[p] = "write")
        BY <2>1, <3>1 DEF Request, Goto
      <3>2. ASSUME Exit(p, 1) PROVE exit'[p] # 0 /\ pc'[p] = "done"
        BY <3>2 DEF Exit, Goto
      <3> QED
        BY <1>3, <3>1, <3>2 DEF ResolveTarget, ResolveMember
    <2> QED
      BY <2>1, <2>2
  <1>4. ASSUME NEW p \in Processes,
               ConnectFails(p) \/ GiveUp(p) \/ Written(p) \/ Reloaded(p) \/ Refused(p)
        PROVE  Was
    <2>1. job' = job
      BY <1>4 DEF ConnectFails, GiveUp, Written, Reloaded, Refused
    <2>2. p # q => exit'[q] = exit[q] /\ pc'[q] = pc[q] /\ wire'[q] = wire[q]
      BY <1>4 DEF ConnectFails, GiveUp, Written, Reloaded, Refused, Request, Goto, Exit, Read
    <2>3. p = q => Written(p) \/ Reloaded(p)
      BY <1>4 DEF ConnectFails, GiveUp, Refused, Goto, Exit
    <2>4. p = q => (pc[p] = "write" /\ wire[p] = "ok") \/ pc[p] = "reload"
      BY <2>3 DEF Written, Reloaded
    <2> QED
      BY <2>1, <2>2, <2>4
  <1>5. ASSUME NEW p \in Processes, Accept(p), wire[p] = "write", job[p].op # "remove" PROVE Was
    <2>1. p = q => job'[q].op # "remove"
      BY <1>5 DEF Accept, Job, At
    <2> QED
      BY <1>5, <2>1 DEF Accept, Answer
  <1>6. ASSUME NEW p \in Processes, Refuse(p), wire[p] = "write" PROVE Was
    BY <1>6 DEF Refuse, Answer, At
  <1>7. ASSUME NEW p \in Processes,
               \/ AddServer(p) \/ PatchEnabled(p) \/ CreateGroup(p)
               \/ RemoveGroup(p) \/ SetMembers(p)
        PROVE  Was
    <2>1. (Accept(p) \/ Refuse(p)) /\ wire[p] = "write" /\ job[p].op # "remove"
      BY <1>7 DEF AddServer, PatchEnabled, CreateGroup, RemoveGroup, SetMembers, Wants
    <2> QED
      BY <1>5, <1>6, <2>1
  <1>8. ASSUME NEW p \in Processes, RemoveServer(p)
        PROVE  Was \/ (RemoveServer(q) /\ Accept(q) /\ servers[job[q].target] # Absent)
    <2>1. CASE Refuse(p)
      BY <1>6, <1>8, <2>1 DEF RemoveServer, Wants
    <2>2. CASE Accept(p) /\ servers[job[p].target] # Absent
      BY <1>8, <2>2 DEF Accept, Answer
    <2> QED
      BY <1>8, <2>1, <2>2 DEF RemoveServer
  <1>9. ASSUME NEW p \in Processes, BeginReload(p) \/ Mount(p) \/ EndReload(p) PROVE Was
    <2>1. /\ UNCHANGED <<job, pc, exit>> /\ wire[p] \in {"reload", "reading", "mounted"}
          /\ p # q => wire'[q] = wire[q]
      BY <1>9 DEF BeginReload, Mount, EndReload, Answer
    <2> QED
      BY <2>1 DEF At
  <1>10. ASSUME NEW i \in ServerIds, NEW name \in Names, Rename(i, name) PROVE Was
    BY <1>10 DEF Rename
  <1>11. ASSUME Restart PROVE Was
    <2>1. UNCHANGED <<job, pc, exit>> /\ (wire'[q] = "ok" => wire[q] = "ok")
      BY <1>11 DEF Restart
    <2> QED
      BY <2>1
  <1>12. ASSUME UNCHANGED vars PROVE Was
    BY <1>12 DEF vars
  <1> HIDE <1>1 DEF Was, Removing
  <1>13. Was \/ (RemoveServer(q) /\ Accept(q) /\ servers[job[q].target] # Absent)
    BY <1>2, <1>3, <1>4, <1>7, <1>8, <1>9, <1>10, <1>11, <1>12
       DEF Next, Invocation, Handler
  <1> QED
    BY <1>13 DEF Was

LEMMA RemovalsStep == Removals /\ [Next]_vars => Removals'
  <1> SUFFICES ASSUME Removals, [Next]_vars PROVE Removals'
    OBVIOUS
  <1>1. Dates /\ Dates' /\ Known /\ Known'
    BY DatesStep DEF Removals, Dates
  <1>2. /\ issued \subseteq issued'
        /\ \A i \in ServerIds : i \in issued /\ servers[i] = Absent => servers'[i] = Absent
        /\ \A i \in ServerIds : servers[i] # Absent => i \in issued
    BY <1>1, RegistryMoves DEF Removals
  <1>3. \A i \in ServerIds : servers'[i] # Absent => i \in issued'
    BY <1>1, <1>2, RegistryMoves
  <1>4. ASSUME NEW q \in Processes, Removing(q)' PROVE Gone(q)'
    <2> DEFINE t == job[q].target
    <2>1. CASE Removing(q) /\ job'[q] = job[q]
      <3>1. /\ t \in ServerIds \cap issued
            /\ servers[t] = Absent
            /\ mounted.version >= job[q].wrote => mounted.servers[t] = Absent
            /\ lock # Absent /\ snapshot.version >= job[q].wrote => snapshot.servers[t] = Absent
        BY <2>1 DEF Removals, Gone
      <3>2. t \in ServerIds \cap issued' /\ servers'[t] = Absent
        BY <1>2, <3>1
      <3> HIDE DEF t
      <3>3. mounted'.version >= job[q].wrote => mounted'.servers[t] = Absent
        BY <1>1, <3>1, MountsMove
      <3>4. lock' # Absent /\ snapshot'.version >= job[q].wrote => snapshot'.servers[t] = Absent
        BY <1>1, <3>1, MountsMove
      <3> QED
        BY <2>1, <3>2, <3>3, <3>4 DEF t, Gone
    <2>2. CASE RemoveServer(q) /\ Accept(q) /\ servers[job[q].target] # Absent
      <3>1. job[q] \in Job /\ t \in ServerIds /\ wire[q] = "write" /\ job[q].op = "remove"
        BY <1>1, <2>2, CliAssumption
           DEF RemoveServer, Wants, Known, Places, At, Jobs, Informed, ServerOps
      <3>2. job'[q].target = t /\ job'[q].wrote = version + 1
        <4>1. job' = [job EXCEPT ![q] = [job[q] EXCEPT !.wrote = version + 1]]
          BY <2>2 DEF Accept
        <4> QED
          BY <1>1, <3>1, <4>1 DEF Known, Jobs, Job
      <3>3. UNCHANGED <<mounted, lock, snapshot>>
        BY <2>2 DEF Accept, gateway
      <3>4. servers' = [servers EXCEPT ![t] = Absent] /\ t \in issued
        BY <1>2, <2>2, <3>1 DEF RemoveServer, Refuse, registry
      <3>5. servers'[t] = Absent /\ t \in issued'
        BY <1>1, <1>2, <3>1, <3>4 DEF Known, Rows, Servers
      <3>6. /\ version \in Nat /\ mounted.version \in Nat /\ mounted.version <= version
            /\ lock # Absent => snapshot.version \in Nat /\ snapshot.version <= version
        BY <1>1 DEF Dates, Ordered, Known, Rows, Mounted
      <3> HIDE DEF t
      <3> QED
        BY <3>1, <3>2, <3>3, <3>5, <3>6 DEF Gone
    <2> QED
      BY <1>1, <1>4, <2>1, <2>2, RemovalsMove
  <1>5. \A q \in Processes : Gone(q)'
    BY <1>4 DEF Gone
  <1> QED
    BY <1>1, <1>3, <1>5 DEF Removals

(* A server whose removal was reported done stays out of the registry and, *)
(* without --no-reload, out of what is mounted: ids are not issued again,  *)
(* and no reload that read it before can still mount it.                   *)
THEOREM RemovedStaysGone == Spec => []RemovedIsGone
  <1>1. Spec => []Removals
    BY RemovalsInit, RemovalsStep, PTL DEF Spec
  <1>2. Removals => RemovedIsGone
    <2> SUFFICES ASSUME Removals, NEW p \in Processes, exit[p] = 0, job[p].op = "remove"
                 PROVE  /\ servers[job[p].target] = Absent
                        /\ job[p].reload => mounted.servers[job[p].target] = Absent
      BY DEF RemovedIsGone
    <2>1. pc[p] # "idle"
      BY DEF Removals, Dates, Known, Places, At
    <2>2. Gone(p) /\ Removing(p)
      BY <2>1 DEF Removals, Removing
    <2>3. job[p].wrote \in Nat /\ mounted.version \in Nat
      BY <2>1 DEF Removals, Dates, Known, Rows, Jobs, Informed, Job, Mounted
    <2>4. job[p].reload => job[p].wrote <= mounted.version
      BY <2>1 DEF Removals, Dates, Dated
    <2> QED
      BY <2>2, <2>3, <2>4 DEF Gone
  <1> QED
    BY <1>1, <1>2, PTL
=============================================================================
