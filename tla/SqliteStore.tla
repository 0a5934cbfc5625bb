---------------------------- MODULE SqliteStore -----------------------------
(***************************************************************************)
(* fast_gateway/store/sqlite.py statement by statement.  All coroutines    *)
(* share one connection, so one transaction: `conn` is what that           *)
(* connection sees, `disk` what is committed.  Writes run under            *)
(* _write_lock, reads do not.  Every statement is an await: another        *)
(* coroutine may run, the process may crash, and a cancelled writer leaves *)
(* after the statement aiosqlite was executing for it.  The file outlives  *)
(* the process and may be opened next by a build of SQLite with or without *)
(* FTS5.                                                                   *)
(***************************************************************************)
EXTENDS FiniteSets

CONSTANTS
    Clients, ServerIds, GroupIds, Names, ToolNames, Requests, NoRequest,
    NoClient,       \* nobody holds the write lock
    Builds,         \* the SQLite builds that may open the file
    Cancellable     \* where the cancellation of one task may find its write

VARIABLES
    disk,       \* the file as committed
    conn,       \* the same, seen through the connection
    build,      \* the SQLite of this life
    lock,       \* _write_lock
    pc,         \* the statement each client is at
    request,
    answer,
    touched,    \* what its SELECT or DELETE found: old_names, cursor.rowcount
    left        \* history: the registry the last write left behind for reads

vars == <<disk, conn, build, lock, pc, request, answer, touched, left>>

(* The contract the writes are to keep. *)
Contract == INSTANCE CatalogStore
              WITH registry <- disk.registry, visible <- left, catalog <- disk.catalog

Row == Contract!Row

NamesOf(rows) == {r.name : r \in rows}

(* The tables, and the index with the rows still there from before it.     *)
Database ==
    [registry : SUBSET Contract!Record, catalog : SUBSET Row,
     indexed : BOOLEAN, fts : SUBSET ToolNames, legacy : SUBSET Row]

Statements ==
    {"get", "select", "delete", "insert", "fts_delete", "fts_insert", "row", "commit",
     "rollback"}

Places == Statements \cup {"idle", "lock"}

ASSUME StoreAssumption ==
    /\ Contract!RequestsAssumption
    /\ NoClient \notin Clients
    /\ Builds \subseteq {"fts5", "plain"}
    /\ Cancellable \subseteq Places

TypeOK ==
    /\ disk \in Database
    /\ conn \in Database
    /\ Contract!UniqueTools(conn.catalog)
    /\ build \in Builds
    /\ lock \in Clients \cup {NoClient}
    /\ pc \in [Clients -> Places]
    /\ request \in [Clients -> Requests \cup {NoRequest}]
    /\ answer \in [Clients -> {"none", "ok", "error"}]
    /\ touched \in [Clients -> SUBSET (ToolNames \cup ServerIds \cup GroupIds)]
    /\ left \in SUBSET Contract!Record

(* initialize(): CREATE TABLE IF NOT EXISTS, each committed on its own.    *)
(* The probe for FTS5 succeeds in every build once the index exists.       *)
Opened(db, b) ==
    IF b = "fts5" /\ ~db.indexed
    THEN [db EXCEPT !.indexed = TRUE, !.legacy = db.catalog] ELSE db

FtsEnabled == conn.indexed

(* Whether the statement of an index step is executed at all.              *)
TouchesIndex(c) ==
    \/ pc[c] = "fts_delete" /\ (request[c].op = "replace" \/ touched[c] # {})
    \/ pc[c] = "fts_insert" /\ request[c].rows # {}

IndexUsable(c) == build = "fts5" \/ ~TouchesIndex(c)

Init ==
    /\ build \in Builds
    /\ disk = Opened([registry |-> {}, catalog |-> {}, indexed |-> FALSE, fts |-> {},
                      legacy |-> {}], build)
    /\ conn = disk
    /\ lock = NoClient
    /\ pc = [c \in Clients |-> "idle"]
    /\ request = [c \in Clients |-> NoRequest]
    /\ answer = [c \in Clients |-> "none"]
    /\ touched = [c \in Clients |-> {}]
    /\ left = conn.registry

-----------------------------------------------------------------------------
(* Where a write stands *)

Goto(c, place) == pc' = [pc EXCEPT ![c] = place]

(* The call returns or raises. *)
Return(c, outcome) ==
    /\ Goto(c, "idle")
    /\ request' = [request EXCEPT ![c] = NoRequest]
    /\ answer' = [answer EXCEPT ![c] = outcome]
    /\ touched' = [touched EXCEPT ![c] = {}]

(* It leaves "async with self._write_lock". *)
Leave(c, outcome) == lock' = NoClient /\ left' = conn'.registry /\ Return(c, outcome)

Running(c, statement) == pc[c] = statement

AfterCatalog == IF FtsEnabled THEN "fts_delete" ELSE "commit"

(* A method is called.  replace_server_catalog raises before it takes the  *)
(* lock when a row belongs to another server.                              *)
Submit(c, r) ==
    /\ pc[c] = "idle"
    /\ request[c] = NoRequest
    /\ request' = [request EXCEPT ![c] = r]
    /\ answer' = [answer EXCEPT ![c] = "none"]
    /\ Goto(c, "lock")
    /\ UNCHANGED <<disk, conn, build, lock, touched, left>>

RejectRows(c) ==
    /\ pc[c] = "lock"
    /\ ~Contract!OwnRows(request[c])
    /\ Return(c, "error")
    /\ UNCHANGED <<build, disk, conn, lock, left>>

FirstStatement(r) ==
    CASE r.op = "replace"        -> "delete"
      [] r.op = "replace_server" -> "select"
      [] r.op = "update"         -> "get"
      [] OTHER                   -> "row"

(* Fault: writes are not serialized. *)
BugAcquire(c) ==
    /\ pc[c] = "lock"
    /\ Contract!OwnRows(request[c])
    /\ lock' = c
    /\ Goto(c, FirstStatement(request[c]))
    /\ UNCHANGED <<build, disk, conn, request, answer, touched, left>>

Acquire(c) ==
    /\ pc[c] = "lock"
    /\ Contract!OwnRows(request[c])
    /\ lock = NoClient
    /\ lock' = c
    /\ Goto(c, FirstStatement(request[c]))
    /\ UNCHANGED <<build, disk, conn, request, answer, touched, left>>

-----------------------------------------------------------------------------
(* replace_catalog and replace_server_catalog *)

SelectOldNames(c) ==
    /\ Running(c, "select")
    /\ touched' = [touched EXCEPT ![c] =
                     NamesOf({r \in conn.catalog : r.server_id = request[c].id})]
    /\ Goto(c, "delete")
    /\ UNCHANGED <<build, disk, conn, lock, request, answer, left>>

DeleteRows(c) ==
    /\ Running(c, "delete")
    /\ LET kept(rows) == IF request[c].op = "replace"
                         THEN {} ELSE {r \in rows : r.server_id # request[c].id}
       IN  conn' = [conn EXCEPT !.catalog = kept(@), !.legacy = kept(@)]
    /\ Goto(c, "insert")
    /\ UNCHANGED <<build, disk, lock, request, answer, touched, left>>

(* executemany stops at the first row whose name is taken; the rows before *)
(* it stay in the transaction until the rollback.                          *)
InsertRows(c) ==
    /\ Running(c, "insert")
    /\ IF Contract!UniqueTools(conn.catalog \cup request[c].rows)
       THEN /\ conn' = [conn EXCEPT !.catalog = @ \cup request[c].rows]
            /\ Goto(c, AfterCatalog)
       ELSE /\ \E some \in SUBSET request[c].rows :
                 /\ Contract!UniqueTools(conn.catalog \cup some)
                 /\ conn' = [conn EXCEPT !.catalog = @ \cup some]
            /\ Goto(c, "rollback")
    /\ UNCHANGED <<build, disk, lock, request, answer, touched, left>>

(* Fault: replace_server_catalog forgets the index entries of old rows. *)
BugDeleteIndex(c) ==
    /\ Running(c, "fts_delete")
    /\ IndexUsable(c)
    /\ conn' = [conn EXCEPT !.fts = IF request[c].op = "replace" THEN {} ELSE @]
    /\ Goto(c, "fts_insert")
    /\ UNCHANGED <<build, disk, lock, request, answer, touched, left>>

DeleteIndex(c) ==
    /\ Running(c, "fts_delete")
    /\ IndexUsable(c)
    /\ conn' = [conn EXCEPT !.fts = IF request[c].op = "replace" THEN {} ELSE @ \ touched[c]]
    /\ Goto(c, "fts_insert")
    /\ UNCHANGED <<build, disk, lock, request, answer, touched, left>>

InsertIndex(c) ==
    /\ Running(c, "fts_insert")
    /\ IndexUsable(c)
    /\ conn' = [conn EXCEPT !.fts = @ \cup NamesOf(request[c].rows)]
    /\ Goto(c, "commit")
    /\ UNCHANGED <<build, disk, lock, request, answer, touched, left>>

(* The index exists, FTS5 does not: "no such module".                      *)
IndexFails(c) ==
    /\ pc[c] \in {"fts_delete", "fts_insert"}
    /\ ~IndexUsable(c)
    /\ Goto(c, "rollback")
    /\ UNCHANGED <<build, disk, conn, lock, request, answer, touched, left>>

(* Any statement of a catalog write may raise (the disk is full, another   *)
(* process has locked the file): "except Exception" rolls back.            *)
StatementFails(c) ==
    /\ pc[c] \in Statements \ {"rollback"}
    /\ request[c].op \in {"replace", "replace_server"}
    /\ Goto(c, "rollback")
    /\ UNCHANGED <<build, disk, conn, lock, request, answer, touched, left>>

(* Fault: the exception is raised without a rollback. *)
BugRollback(c) ==
    /\ Running(c, "rollback")
    /\ UNCHANGED <<disk, conn, build>>
    /\ Leave(c, "error")

(* Fault: the lock is released on the way that succeeds only. *)
BugRollbackKeepsLock(c) ==
    /\ Running(c, "rollback")
    /\ conn' = disk
    /\ Return(c, "error")
    /\ UNCHANGED <<build, disk, lock, left>>

Rollback(c) ==
    /\ Running(c, "rollback")
    /\ conn' = disk
    /\ Leave(c, "error")
    /\ UNCHANGED <<disk, build>>

-----------------------------------------------------------------------------
(* create_, update_ and delete_ of servers and groups                      *)

(* Fault: update_server keeps a patched record it has not validated.       *)
BugGetRecord(c) ==
    /\ Running(c, "get")
    /\ UNCHANGED <<disk, conn, build>>
    /\ IF \E s \in conn.registry : s.id = request[c].id /\ s.loads
       THEN Goto(c, "row") /\ UNCHANGED <<lock, request, answer, touched, left>>
       ELSE Leave(c, "error")

(* An update reads under the lock what it merges the patch into.           *)
GetRecord(c) ==
    /\ Running(c, "get")
    /\ UNCHANGED <<disk, conn, build>>
    /\ IF Contract!Patchable(request[c], conn.registry)
       THEN Goto(c, "row") /\ UNCHANGED <<lock, request, answer, touched, left>>
       ELSE Leave(c, "error")

(* The one statement.  A conflict raises without a rollback, having        *)
(* changed nothing.                                                        *)
WriteRow(c) ==
    /\ Running(c, "row")
    /\ LET r == request[c]
       IN  IF r.op # "delete" /\ Contract!Taken(r, conn.registry)
           THEN UNCHANGED conn /\ Leave(c, "error")
           ELSE /\ conn' = [conn EXCEPT !.registry = Contract!RegistryAfter(r, @)]
                /\ touched' = [touched EXCEPT ![c] = {s.id : s \in conn.registry} \cap {r.id}]
                /\ Goto(c, "commit")
                /\ UNCHANGED <<lock, request, answer, left>>
    /\ UNCHANGED <<disk, build>>

(* Any of the statements may raise here too, the commit included, and only *)
(* IntegrityError is caught: nobody rolls back, and what was executed      *)
(* stays in the open transaction, unless SQLite has rolled it back itself  *)
(* (a full disk, an I/O error).                                            *)
RegistryWriteFails(c) ==
    /\ pc[c] \in {"get", "row", "commit"}
    /\ request[c].op \in {"create", "update", "delete"}
    /\ conn' \in {conn, disk}
    /\ Leave(c, "error")
    /\ UNCHANGED <<disk, build>>

(* commit flushes whatever the connection's transaction holds, what an     *)
(* earlier write left in it as well.  A delete that matched no row raises  *)
(* KeyError after it.                                                      *)
Commit(c) ==
    /\ Running(c, "commit")
    /\ disk' = conn
    /\ UNCHANGED <<conn, build>>
    /\ Leave(c, IF request[c].op = "delete" /\ touched[c] = {} THEN "error" ELSE "ok")

-----------------------------------------------------------------------------
(* Reads, which take no lock: what they return in each state, the middle   *)
(* of another coroutine's write included                                   *)

ListCatalog == conn.catalog

Hits(rows, names) == {r \in rows : r.name \in names}

(* The tools that match a query, through the index joined with the table   *)
(* or by the scan of the table; ranks and the limit are in Search.         *)
SearchCatalog(names) ==
    {r \in Hits(conn.catalog, names) : FtsEnabled => r.name \in conn.fts}

(* Where the index exists and FTS5 does not, every search raises.          *)
Searchable == FtsEnabled => build = "fts5"

-----------------------------------------------------------------------------
(* CancelledError is no Exception: the lock is released, nothing is rolled *)
(* back, and the transaction stays open on the shared connection.  The     *)
(* worker thread completes a commit or rollback it was given.              *)
Cancel(c) ==
    /\ pc[c] \in Cancellable
    /\ \/ pc[c] = "lock" /\ Return(c, "error") /\ UNCHANGED <<disk, conn, lock, left>>
       \/ /\ pc[c] \in Statements
          /\ \/ UNCHANGED <<disk, conn>>
             \/ pc[c] = "commit" /\ disk' = conn /\ UNCHANGED conn
             \/ pc[c] = "rollback" /\ conn' = disk /\ UNCHANGED disk
          /\ Leave(c, "error")
    /\ UNCHANGED build

(* The process stops: a crash, or close() after the startup refresh was    *)
(* cancelled.  The open transaction is lost; the next process, with the    *)
(* same SQLite or another, opens what was committed.                       *)
Restart(b) ==
    /\ build' = b
    /\ disk' = Opened(disk, b)
    /\ conn' = disk'
    /\ lock' = NoClient
    /\ pc' = [c \in Clients |-> "idle"]
    /\ request' = [c \in Clients |-> NoRequest]
    /\ answer' = [c \in Clients |-> "none"]
    /\ touched' = [c \in Clients |-> {}]
    /\ left' = disk'.registry

Step(c) ==
    \/ RejectRows(c)
    \/ SelectOldNames(c) \/ DeleteRows(c) \/ InsertRows(c) \/ DeleteIndex(c) \/ InsertIndex(c)
    \/ IndexFails(c)
    \/ GetRecord(c) \/ WriteRow(c) \/ Commit(c) \/ Rollback(c)

Next ==
    \/ \E c \in Clients, r \in Requests : Submit(c, r)
    \/ \E c \in Clients : Acquire(c) \/ Step(c) \/ Cancel(c)
    \/ \E c \in Clients : StatementFails(c) \/ RegistryWriteFails(c)
    \/ \E b \in Builds : Restart(b)

Spec == Init /\ [][Next]_vars

(* The worker thread executes every statement it is given; asyncio.Lock    *)
(* wakes its waiters in turn.                                              *)
FairSpec == Spec /\ \A c \in Clients : WF_vars(Step(c)) /\ SF_vars(Acquire(c))

-----------------------------------------------------------------------------
(* Properties *)

(* The writes keep the contract: statements, rollbacks, crashes and other  *)
(* writers' commits between them amount to one atomic change per write     *)
(* that returned.  A catalog write that raised, and a registry write that  *)
(* was refused, have changed nothing; the change of a registry write that  *)
(* raised for another reason stays in the transaction, for the next commit *)
(* to persist or the next rollback or restart to drop, and it is the whole *)
(* change, never a part.                                                   *)
WritesAreAtomic == Contract!Spec

(* The committed search index holds committed tools only, and misses none  *)
(* but those of a catalog written before the index was created: "Wipe and  *)
(* repopulate the catalog (and its FTS index) atomically".                 *)
IndexMatchesCatalog ==
    LET unindexed == {r \in disk.catalog : r.name \notin disk.fts}
    IN  /\ disk.fts \subseteq NamesOf(disk.catalog)
        /\ disk.indexed => unindexed \subseteq disk.legacy

(* While no write is under way a read of the catalog returns what is       *)
(* committed, nothing that was rolled back or is still to be, and a search *)
(* every hit but rows older than the index; also when a registry write     *)
(* left the transaction open.                                              *)
QuietReadsAreWhole ==
    lock = NoClient =>
        /\ ListCatalog = disk.catalog
        /\ Searchable => \A names \in SUBSET ToolNames :
             /\ SearchCatalog(names) \subseteq Hits(disk.catalog, names)
             /\ Hits(disk.catalog \ disk.legacy, names) \subseteq SearchCatalog(names)

(* "A patch can never persist a record that would fail to load later": so  *)
(* it is for servers, whoever writes and whatever fails in between.        *)
ServersLoad == \A s \in disk.registry : s.id \in ServerIds => s.loads

(* Every write returns or raises, whatever the others do.                  *)
WritesEnd == \A c \in Clients : pc[c] = "lock" ~> pc[c] = "idle"
=============================================================================
