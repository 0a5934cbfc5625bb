---------------------------- MODULE CatalogStore ----------------------------
(***************************************************************************)
(* What the writes of the store (fast_gateway/store/base.py) amount to:    *)
(* each takes effect at one instant, whole, and is on disk when its caller *)
(* is told so.  A write that is refused, and any catalog write that fails, *)
(* has no effect.  A registry write that raises for another reason has     *)
(* either none or its whole effect on what the store shows; that is not on *)
(* disk, and the next write that succeeds puts it there.                   *)
(***************************************************************************)
EXTENDS FiniteSets

CONSTANTS
    Clients,    \* coroutines calling the store
    ServerIds,
    GroupIds,
    Names,      \* of servers and groups
    ToolNames,  \* namespaced tool names
    Requests,   \* the writes the clients ask for
    NoRequest

Row == [server_id : ServerIds, name : ToolNames]

CatalogWrites ==
    [op : {"replace"}, rows : SUBSET Row]
        \cup [op : {"replace_server"}, id : ServerIds, rows : SUBSET Row]

(* A patch is valid when the merged record would load again. *)
RegistryWrites ==
    LET Ids == ServerIds \cup GroupIds
    IN  [op : {"create"}, id : Ids, name : Names]
            \cup [op : {"update"}, id : Ids, name : Names, valid : BOOLEAN]
            \cup [op : {"delete"}, id : Ids]

(* What the clients may ask for. *)
RequestsAssumption ==
    /\ Requests \subseteq CatalogWrites \cup RegistryWrites
    /\ NoRequest \notin Requests
    /\ ServerIds \cap GroupIds = {}

(* A registered server or group; `loads` says that its columns validate. *)
Record == [id : ServerIds \cup GroupIds, name : Names, loads : BOOLEAN]

VARIABLES
    registry,   \* the servers and groups on disk
    visible,    \* those the store's own reads see between two writes
    catalog,    \* the tool catalog
    request,    \* the write each client waits for
    answer      \* how its last write ended

vars == <<registry, visible, catalog, request, answer>>

OwnRows(r) == r.op = "replace_server" => \A row \in r.rows : row.server_id = r.id

UniqueTools(rows) == \A r, s \in rows : r.name = s.name => r = s

CatalogAfter(r) ==
    CASE r.op = "replace"        -> r.rows
      [] r.op = "replace_server" -> {row \in catalog : row.server_id # r.id} \cup r.rows
      [] OTHER                   -> catalog

(* UNIQUE and PRIMARY KEY: a name is taken within its own table. *)
Taken(r, records) ==
    \E s \in records :
        \/ r.op = "create" /\ s.id = r.id
        \/ s.id # r.id /\ s.name = r.name /\ (s.id \in ServerIds <=> r.id \in ServerIds)

(* Only what was found, and loads, can be patched; a server's patch is     *)
(* validated, a group's is not.                                            *)
Patchable(r, records) ==
    /\ \E s \in records : s.id = r.id /\ s.loads
    /\ r.id \in ServerIds => r.valid

RegistryAfter(r, records) ==
    LET others == {s \in records : s.id # r.id}
    IN  CASE r.op = "create" -> others \cup {[id |-> r.id, name |-> r.name, loads |-> TRUE]}
          [] r.op = "update" -> others \cup {[id |-> r.id, name |-> r.name, loads |-> r.valid]}
          [] r.op = "delete" -> others
          [] OTHER           -> records

Init ==
    /\ registry = {}
    /\ visible = {}
    /\ catalog = {}
    /\ request = [c \in Clients |-> NoRequest]
    /\ answer = [c \in Clients |-> "none"]

Submit(c, r) ==
    /\ request[c] = NoRequest
    /\ request' = [request EXCEPT ![c] = r]
    /\ answer' = [answer EXCEPT ![c] = "none"]
    /\ UNCHANGED <<registry, visible, catalog>>

Permitted(r) ==
    /\ r.op \in {"create", "update"} => ~Taken(r, visible)
    /\ r.op = "update" => Patchable(r, visible)
    /\ r.op = "delete" => \E s \in visible : s.id = r.id
    /\ OwnRows(r)
    /\ UniqueTools(CatalogAfter(r))

(* With it goes to disk what an earlier write has left visible. *)
Succeed(c) ==
    /\ request[c] # NoRequest
    /\ Permitted(request[c])
    /\ visible' = RegistryAfter(request[c], visible)
    /\ registry' = visible'
    /\ catalog' = CatalogAfter(request[c])
    /\ request' = [request EXCEPT ![c] = NoRequest]
    /\ answer' = [answer EXCEPT ![c] = "ok"]

(* The write changed nothing. *)
NoEffect == UNCHANGED <<registry, visible>>

(* What was left visible goes. *)
RolledBack == visible' = registry /\ UNCHANGED registry

(* A delete that found no row has committed all the same. *)
Flushed(r) ==
    /\ r.op = "delete" /\ ~Permitted(r)
    /\ registry' = visible /\ UNCHANGED visible

(* A registry write that could have succeeded leaves its change visible.   *)
LeftOpen(r) ==
    /\ r.op \in {"create", "update", "delete"} /\ Permitted(r)
    /\ visible' = RegistryAfter(r, visible) /\ UNCHANGED registry

Fail(c) ==
    /\ request[c] # NoRequest
    /\ NoEffect \/ RolledBack \/ Flushed(request[c]) \/ LeftOpen(request[c])
    /\ request' = [request EXCEPT ![c] = NoRequest]
    /\ answer' = [answer EXCEPT ![c] = "error"]
    /\ UNCHANGED catalog

(* The process dies with every request under way. *)
Crash ==
    /\ request' = [c \in Clients |-> NoRequest]
    /\ answer' = [c \in Clients |-> "none"]
    /\ visible' = registry
    /\ UNCHANGED <<registry, catalog>>

Next ==
    \/ \E c \in Clients : (\E r \in Requests : Submit(c, r)) \/ Succeed(c) \/ Fail(c)
    \/ Crash

Spec == Init /\ [][Next]_vars
=============================================================================
