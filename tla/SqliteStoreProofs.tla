-------------------------- MODULE SqliteStoreProofs -------------------------
(***************************************************************************)
(* Theorems about SqliteStore, for any number of clients, records, tools,  *)
(* requests and restarts, under any builds of SQLite: as long as no task   *)
(* is cancelled once its write has changed something, the store keeps its  *)
(* contract.                                                               *)
(***************************************************************************)
EXTENDS SqliteStore, TLAPS

(* Before the first statement that changes something. *)
Clean == {"get", "select", "delete", "row"}

CancelledEarly == Cancellable \subseteq {"lock"} \cup Clean

CatalogOps  == {"replace", "replace_server"}
RegistryOps == {"create", "update", "delete"}

Kept(c, rows) ==
    IF request[c].op = "replace" THEN {} ELSE {r \in rows : r.server_id # request[c].id}

(* The index once the old entries are gone. *)
Thinned(c) == IF request[c].op = "replace" THEN {} ELSE disk.fts \ touched[c]

-----------------------------------------------------------------------------
(* The inductive invariant *)

(* What is committed: the index and the rows it lacks, records that load.  *)
Sound ==
    /\ Contract!UniqueTools(disk.catalog)
    /\ disk.legacy \subseteq disk.catalog
    /\ disk.fts \subseteq NamesOf(disk.catalog)
    /\ ~disk.indexed => disk.fts = {}
    /\ disk.indexed => \A r \in disk.catalog : r.name \in disk.fts \/ r \in disk.legacy
    /\ \A s \in disk.registry \cup left : s.id \in ServerIds => s.loads

(* Between two writes the transaction holds what raising writes have left  *)
(* of the registry, and nothing else.                                      *)
Between == [disk EXCEPT !.registry = left]

Quiet == lock = NoClient => conn = Between

Asking(c) == IF pc[c] = "idle" THEN request[c] = NoRequest ELSE request[c] \in Requests

(* What the place of a writer says of its request. *)
Fits(c) ==
    /\ lock = c
    /\ Contract!OwnRows(request[c])
    /\ pc[c] = "get" => request[c].op = "update"
    /\ pc[c] = "select" => request[c].op = "replace_server"
    /\ pc[c] = "row" => request[c].op \in RegistryOps
    /\ pc[c] \in {"delete", "insert", "fts_delete", "fts_insert", "rollback"} =>
            request[c].op \in CatalogOps
    /\ pc[c] \in {"row", "commit"} /\ request[c].op = "update" =>
            Contract!Patchable(request[c], left)
    /\ pc[c] = "commit" /\ request[c].op \in RegistryOps =>
            /\ request[c].op # "delete" => ~Contract!Taken(request[c], left)
            /\ touched[c] = {} <=> ~\E s \in left : s.id = request[c].id
    /\ pc[c] \in {"delete", "insert", "fts_delete", "fts_insert", "commit"}
            /\ request[c].op = "replace_server" =>
            touched[c] = NamesOf({r \in disk.catalog : r.server_id = request[c].id})

(* What it says of the transaction: how far the change has come. *)
Changed(c) ==
    /\ pc[c] \in Clean => conn = Between
    /\ conn.indexed = disk.indexed
    /\ pc[c] # "commit" => conn.registry = left
    /\ pc[c] = "insert" => conn.catalog = Kept(c, disk.catalog)
    /\ pc[c] \in {"fts_delete", "fts_insert"} =>
            conn.catalog = Kept(c, disk.catalog) \cup request[c].rows /\ conn.indexed
    /\ pc[c] \in {"insert", "fts_delete", "fts_insert"} => conn.legacy = Kept(c, disk.legacy)
    /\ pc[c] \in {"insert", "fts_delete"} => conn.fts = disk.fts
    /\ pc[c] = "fts_insert" => conn.fts = Thinned(c)

(* A change about to be committed is whole. *)
Whole(c) ==
    IF request[c].op \in CatalogOps
    THEN /\ conn.registry = left
         /\ conn.catalog = Kept(c, disk.catalog) \cup request[c].rows
         /\ conn.legacy = Kept(c, disk.legacy)
         /\ conn.fts = IF conn.indexed THEN Thinned(c) \cup NamesOf(request[c].rows) ELSE disk.fts
    ELSE /\ conn.registry = Contract!RegistryAfter(request[c], left)
         /\ conn.catalog = disk.catalog
         /\ conn.legacy = disk.legacy
         /\ conn.fts = disk.fts

Writing(c) ==
    pc[c] \in Statements =>
        /\ Fits(c)
        /\ Changed(c)
        /\ pc[c] = "commit" => Whole(c)

IInv ==
    /\ TypeOK
    /\ Sound
    /\ Quiet
    /\ \A c \in Clients : Asking(c) /\ Writing(c)

-----------------------------------------------------------------------------
(* Requests and where they lead *)

LEMMA RequestTypes ==
    ASSUME NEW r \in Requests
    PROVE  /\ r.op \in CatalogOps \cup RegistryOps
           /\ r.op \in CatalogOps => r.rows \in SUBSET Row
           /\ r.op = "replace_server" => r.id \in ServerIds
           /\ r.op \in RegistryOps => r.id \in ServerIds \cup GroupIds
           /\ r.op \in {"create", "update"} => r.name \in Names
           /\ r.op = "update" => r.valid \in BOOLEAN
  BY StoreAssumption
  DEF StoreAssumption, Contract!RequestsAssumption, Contract!CatalogWrites,
      Contract!RegistryWrites, CatalogOps, RegistryOps, Row, Contract!Row

LEMMA RecordTypes ==
    ASSUME NEW r \in Requests, NEW records \in SUBSET Contract!Record
    PROVE  Contract!RegistryAfter(r, records) \in SUBSET Contract!Record
  <1> DEFINE others == {s \in records : s.id # r.id}
  <1>1. CASE r.op = "create"
    <2>1. [id |-> r.id, name |-> r.name, loads |-> TRUE] \in Contract!Record
      BY <1>1, RequestTypes DEF RegistryOps, Contract!Record
    <2> QED
      BY <1>1, <2>1 DEF Contract!RegistryAfter
  <1>2. CASE r.op = "update"
    <2>1. [id |-> r.id, name |-> r.name, loads |-> r.valid] \in Contract!Record
      BY <1>2, RequestTypes DEF RegistryOps, Contract!Record
    <2> QED
      BY <1>2, <2>1 DEF Contract!RegistryAfter
  <1>3. CASE r.op \notin {"create", "update"}
    BY <1>3 DEF Contract!RegistryAfter
  <1> QED
    BY <1>1, <1>2, <1>3

LEMMA NamesType ==
    ASSUME NEW rows \in SUBSET Row
    PROVE  NamesOf(rows) \in SUBSET ToolNames
  BY DEF NamesOf, Row, Contract!Row

LEMMA KeptType ==
    ASSUME NEW c \in Clients, NEW rows \in SUBSET Row
    PROVE  Kept(c, rows) \in SUBSET Row /\ Kept(c, rows) \subseteq rows
  BY DEF Kept

(* One writer at a time: the lock says who. *)
LEMMA OneWriter ==
    ASSUME IInv, NEW c \in Clients, NEW d \in Clients, pc[c] \in Statements, pc[d] \in Statements
    PROVE  c = d
  BY DEF IInv, Writing, Fits

(* Opening the file with another build keeps what is committed sound.      *)
LEMMA OpenedSound ==
    ASSUME Sound, disk \in Database, NEW b, disk' = Opened(disk, b), left' = disk'.registry
    PROVE  /\ disk' \in Database /\ Sound'
           /\ disk'.registry = disk.registry /\ disk'.catalog = disk.catalog
  BY DEF Sound, Opened, Database, Contract!UniqueTools

(* A transaction that differs in the registry only. *)
LEMMA TransactionOf ==
    ASSUME disk \in Database, conn \in Database,
           conn.registry = left, conn.catalog = disk.catalog, conn.indexed = disk.indexed,
           conn.fts = disk.fts, conn.legacy = disk.legacy
    PROVE  conn = Between
  BY DEF Database, Between

LEMMA InitHolds == Init => IInv
  <1> SUFFICES ASSUME Init PROVE IInv
    OBVIOUS
  <1> DEFINE empty == [registry |-> {}, catalog |-> {}, indexed |-> FALSE, fts |-> {},
                       legacy |-> {}]
  <1>1. empty \in Database /\ disk = Opened(empty, build)
    BY DEF Init, Database
  <1>2. /\ disk \in Database
        /\ disk.registry = {} /\ disk.catalog = {} /\ disk.fts = {} /\ disk.legacy = {}
    BY <1>1 DEF Opened, Database
  <1>3. Sound
    BY <1>2 DEF Init, Sound, Contract!UniqueTools
  <1>4. TypeOK
    BY <1>2 DEF Init, TypeOK, Contract!UniqueTools, Places, Database
  <1>5. \A c \in Clients : Asking(c) /\ Writing(c)
    BY DEF Init, Asking, Writing, Statements
  <1>6. Quiet
    BY <1>2, TransactionOf DEF Init, Quiet
  <1> QED
    BY <1>3, <1>4, <1>5, <1>6 DEF IInv

-----------------------------------------------------------------------------
(* How a step keeps the invariant *)

(* Nothing a client relies on has changed. *)
LEMMA Untouched ==
    ASSUME NEW c \in Clients, UNCHANGED <<disk, conn, lock, left>>, pc'[c] = pc[c],
           request'[c] = request[c], touched'[c] = touched[c],
           Asking(c), Writing(c)
    PROVE  (Asking(c) /\ Writing(c))'
  <1>1. /\ Contract!OwnRows(request[c])' <=> Contract!OwnRows(request[c])
        /\ Contract!Patchable(request[c], left)' <=>
              Contract!Patchable(request[c], left)
        /\ Contract!Taken(request[c], left)' <=>
              Contract!Taken(request[c], left)
    BY DEF Contract!OwnRows, Contract!Patchable, Contract!Taken
  <1>2. Fits(c) => Fits(c)'
    BY <1>1 DEF Fits, NamesOf
  <1>3. Changed(c) => Changed(c)'
    BY DEF Changed, Kept, Thinned, Between
  <1>4. /\ Kept(c, disk.catalog)' = Kept(c, disk.catalog)
        /\ Kept(c, disk.legacy)' = Kept(c, disk.legacy)
        /\ Thinned(c)' = Thinned(c) /\ NamesOf(request[c].rows)' = NamesOf(request[c].rows)
    BY DEF Kept, Thinned, NamesOf
  <1>5. Whole(c) => Whole(c)'
    <2>1. Contract!RegistryAfter(request[c], left)' =
            Contract!RegistryAfter(request[c], left)
      OBVIOUS
    <2> QED
      BY <1>4, <2>1 DEF Whole
  <1> QED
    BY <1>2, <1>3, <1>5 DEF Asking, Writing

(* A client that is at no statement only has its locals changed. *)
LEMMA Outside ==
    ASSUME IInv, NEW c \in Clients, NEW place \in {"idle", "lock"},
           NEW r \in Requests \cup {NoRequest}, NEW outcome \in {"none", "ok", "error"},
           NEW found \in SUBSET (ToolNames \cup ServerIds \cup GroupIds),
           pc[c] \notin Statements,
           Goto(c, place), place = "idle" <=> r = NoRequest,
           request' = [request EXCEPT ![c] = r],
           answer' = [answer EXCEPT ![c] = outcome],
           touched' = [touched EXCEPT ![c] = found],
           UNCHANGED <<disk, conn, build, lock, left>>
    PROVE  IInv'
  <1>1. TypeOK'
    BY DEF IInv, TypeOK, Goto, Places
  <1>2. Sound' /\ Quiet'
    BY DEF IInv, Sound, Quiet, Between
  <1>3. ASSUME NEW d \in Clients PROVE (Asking(d) /\ Writing(d))'
    <2>1. CASE d = c
      <3>1. pc'[c] = place /\ request'[c] = r
        BY DEF IInv, TypeOK, Goto
      <3>2. NoRequest \notin Requests
        BY StoreAssumption DEF StoreAssumption, Contract!RequestsAssumption
      <3> QED
        BY <2>1, <3>1, <3>2 DEF Asking, Writing, Statements
    <2>2. CASE d # c
      <3>1. /\ pc'[d] = pc[d] /\ request'[d] = request[d] /\ touched'[d] = touched[d]
            /\ disk' = disk /\ conn' = conn /\ lock' = lock /\ left' = left
        BY <2>2 DEF IInv, TypeOK, Goto
      <3>2. Asking(d) /\ Writing(d)
        BY DEF IInv
      <3> QED
        BY <3>1, <3>2, Untouched
    <2> QED
      BY <2>1, <2>2
  <1> QED
    BY <1>1, <1>2, <1>3 DEF IInv

(* The others stay where they are, which is at no statement.               *)
LEMMA OthersWait ==
    ASSUME IInv, NEW c \in Clients, NEW d \in Clients, d # c, NEW place,
           pc[c] \in Statements \/ lock = NoClient,
           Goto(c, place), request'[d] = request[d]
    PROVE  (Asking(d) /\ Writing(d))'
  <1>1. pc'[d] = pc[d]
    BY DEF IInv, TypeOK, Goto
  <1>2. pc[d] \notin Statements
    BY OneWriter, StoreAssumption DEF IInv, Writing, Fits, StoreAssumption
  <1> QED
    BY <1>1, <1>2 DEF IInv, Asking, Writing

(* A writer goes on to its next statement. *)
LEMMA Moved ==
    ASSUME IInv, NEW c \in Clients, pc[c] \in Statements, NEW place \in Statements,
           Goto(c, place), UNCHANGED <<disk, build, lock, request, answer, left>>,
           touched' \in [Clients -> SUBSET (ToolNames \cup ServerIds \cup GroupIds)],
           conn' \in Database, Contract!UniqueTools(conn'.catalog),
           Fits(c)', Changed(c)', place = "commit" => Whole(c)'
    PROVE  IInv'
  <1>1. pc'[c] = place
    BY DEF IInv, TypeOK, Goto
  <1>2. TypeOK'
    BY DEF IInv, TypeOK, Goto, Places, Contract!UniqueTools
  <1>3. Sound'
    BY DEF IInv, Sound
  <1>4. Quiet'
    BY StoreAssumption DEF IInv, Writing, Fits, Quiet, StoreAssumption
  <1>5. (Asking(c) /\ Writing(c))'
    BY <1>1 DEF IInv, Asking, Writing, Statements
  <1>6. \A d \in Clients : d # c => (Asking(d) /\ Writing(d))'
    BY OthersWait
  <1> QED
    BY <1>2, <1>3, <1>4, <1>5, <1>6 DEF IInv

(* A writer returns or raises, and leaves of the registry what it leaves.  *)
LEMMA Returned ==
    ASSUME IInv, NEW c \in Clients, pc[c] \in Statements, NEW outcome \in {"ok", "error"},
           Leave(c, outcome), build' = build, conn' = Between',
           disk' \in Database, conn' \in Database, Sound'
    PROVE  IInv'
  <1>1. Goto(c, "idle") /\ lock' = NoClient
        /\ request' = [request EXCEPT ![c] = NoRequest]
        /\ answer' = [answer EXCEPT ![c] = outcome]
        /\ touched' = [touched EXCEPT ![c] = {}]
    BY DEF Leave, Return
  <1>2. TypeOK'
    <2>1. conn'.catalog = disk'.catalog /\ left' = conn'.registry
      BY DEF Between, Database, Leave
    <2> QED
      BY <1>1, <2>1 DEF IInv, TypeOK, Goto, Places, Sound, Contract!UniqueTools, Database
  <1>3. (Asking(c) /\ Writing(c))'
    BY <1>1 DEF IInv, TypeOK, Goto, Asking, Writing, Statements
  <1>4. ASSUME NEW d \in Clients, d # c PROVE (Asking(d) /\ Writing(d))'
    <2>1. request'[d] = request[d]
      BY <1>1, <1>4 DEF IInv, TypeOK
    <2> QED
      BY <1>1, <1>4, <2>1, OthersWait
  <1> QED
    BY <1>1, <1>2, <1>3, <1>4 DEF IInv, Quiet

-----------------------------------------------------------------------------
(* Calls, and the lock *)

LEMMA SubmitHolds ==
    ASSUME IInv, NEW c \in Clients, NEW r \in Requests, Submit(c, r)
    PROVE  IInv'
  <1>1. pc[c] \notin Statements /\ touched' = [touched EXCEPT ![c] = touched[c]]
    BY DEF Submit, IInv, TypeOK, Statements
  <1>2. r # NoRequest
    BY StoreAssumption DEF StoreAssumption, Contract!RequestsAssumption
  <1>3. touched[c] \in SUBSET (ToolNames \cup ServerIds \cup GroupIds)
    BY DEF IInv, TypeOK
  <1> QED
    BY <1>1, <1>2, <1>3, Outside DEF Submit

(* A call that ends before it had the lock. *)
LEMMA EndedOutside ==
    ASSUME IInv, NEW c \in Clients, pc[c] = "lock", Return(c, "error"),
           UNCHANGED <<disk, conn, build, lock, left>>
    PROVE  IInv'
  <1>1. pc[c] \notin Statements
    BY DEF Statements
  <1> QED
    BY <1>1, Outside DEF Return

LEMMA AcquireHolds ==
    ASSUME IInv, NEW c \in Clients, Acquire(c)
    PROVE  IInv'
  <1> DEFINE place == FirstStatement(request[c])
  <1>1. /\ pc[c] = "lock" /\ Contract!OwnRows(request[c]) /\ lock = NoClient
        /\ lock' = c /\ Goto(c, place)
        /\ UNCHANGED <<build, disk, conn, request, answer, touched, left>>
    BY DEF Acquire
  <1>2. request[c] \in Requests /\ conn = Between
    BY <1>1 DEF IInv, Asking, Quiet
  <1>3. /\ place \in Clean
        /\ place = "delete" <=> request[c].op = "replace"
        /\ place = "select" <=> request[c].op = "replace_server"
        /\ place = "get" <=> request[c].op = "update"
        /\ place = "row" => request[c].op \in RegistryOps \ {"update"}
    BY <1>2, RequestTypes DEF FirstStatement, Clean, CatalogOps, RegistryOps
  <1> HIDE DEF place
  <1>4. pc'[c] = place
    BY <1>1 DEF IInv, TypeOK, Goto
  <1>5. TypeOK'
    BY <1>1, <1>3 DEF IInv, TypeOK, Goto, Places, Statements, Clean, Contract!UniqueTools
  <1>6. Sound' /\ Quiet'
    BY <1>1, StoreAssumption DEF IInv, Sound, Quiet, StoreAssumption, Contract!UniqueTools
  <1>7. Fits(c)'
    BY <1>1, <1>3, <1>4 DEF Fits, Clean, CatalogOps, RegistryOps, Contract!OwnRows
  <1>8. Changed(c)'
    <2>1. conn' = Between' /\ conn'.registry = left' /\ conn'.indexed = disk'.indexed
      BY <1>1, <1>2 DEF Between, IInv, TypeOK, Database
    <2> QED
      BY <1>3, <1>4, <2>1 DEF Changed, Clean
  <1>9. (Asking(c) /\ Writing(c))'
    BY <1>1, <1>2, <1>3, <1>4, <1>7, <1>8 DEF Asking, Writing, Clean
  <1>10. \A d \in Clients : d # c => (Asking(d) /\ Writing(d))'
    BY <1>1, OthersWait
  <1> QED
    BY <1>5, <1>6, <1>9, <1>10 DEF IInv

-----------------------------------------------------------------------------
(* Statements of a replacement *)

LEMMA SelectHolds ==
    ASSUME IInv, NEW c \in Clients, SelectOldNames(c)
    PROVE  IInv'
  <1>1. pc[c] = "select" /\ pc[c] \in Statements /\ "delete" \in Statements
    BY DEF SelectOldNames, Running, Statements
  <1>2. Writing(c) /\ request[c] \in Requests
    BY <1>1 DEF IInv, Asking
  <1>3. /\ request[c].op = "replace_server" /\ conn = Between /\ lock = c
        /\ Contract!OwnRows(request[c]) /\ conn.catalog = disk.catalog
        /\ conn.registry = left /\ conn.indexed = disk.indexed
    BY <1>1, <1>2 DEF Writing, Fits, Changed, Clean, Between, IInv, TypeOK, Database
  <1>4. /\ pc'[c] = "delete"
        /\ touched'[c] = NamesOf({r \in disk.catalog : r.server_id = request[c].id})
    BY <1>3 DEF SelectOldNames, IInv, TypeOK, Goto
  <1>5. touched' \in [Clients -> SUBSET (ToolNames \cup ServerIds \cup GroupIds)]
    <2>1. touched'[c] \in SUBSET ToolNames
      BY <1>4, NamesType DEF IInv, TypeOK, Database
    <2> QED
      BY <2>1, <1>4, <1>3 DEF SelectOldNames, IInv, TypeOK
  <1>6. Fits(c)'
    BY <1>3, <1>4 DEF SelectOldNames, Fits, CatalogOps, Contract!OwnRows
  <1>7. Changed(c)'
    BY <1>3, <1>4 DEF SelectOldNames, Changed, Clean, Between
  <1>8. conn' \in Database /\ Contract!UniqueTools(conn'.catalog)
    BY DEF SelectOldNames, IInv, TypeOK
  <1> QED
    BY <1>1, <1>5, <1>6, <1>7, <1>8, Moved DEF SelectOldNames

(* A replacement goes on, or turns to its rollback: its request says what  *)
(* it said, and what is left to show is how far the change has come.       *)
LEMMA Replacing ==
    ASSUME IInv, NEW c \in Clients, pc[c] \in Statements, request[c].op \in CatalogOps,
           NEW place \in {"insert", "fts_delete", "fts_insert", "commit", "rollback"},
           place # "rollback" => pc[c] \in {"delete", "insert", "fts_delete", "fts_insert"},
           Goto(c, place), UNCHANGED <<disk, build, lock, request, answer, touched, left>>,
           conn' \in Database, Contract!UniqueTools(conn'.catalog),
           Changed(c)', place = "commit" => Whole(c)'
    PROVE  IInv'
  <1>1. place \in Statements /\ pc'[c] = place
    BY DEF IInv, TypeOK, Goto, Statements
  <1>2. Fits(c)
    BY DEF IInv, Writing
  <1>3. Fits(c)'
    <2>1. lock' = c /\ Contract!OwnRows(request'[c])
      BY <1>2 DEF Fits
    <2>2. place # "rollback" /\ request[c].op = "replace_server" =>
            touched'[c] = NamesOf({r \in disk'.catalog : r.server_id = request'[c].id})
      BY <1>2 DEF Fits
    <2>3. request[c].op \notin RegistryOps
      BY DEF CatalogOps, RegistryOps
    <2> QED
      BY <1>1, <2>1, <2>2, <2>3 DEF Fits, RegistryOps
  <1>4. touched' \in [Clients -> SUBSET (ToolNames \cup ServerIds \cup GroupIds)]
    BY DEF IInv, TypeOK
  <1> QED
    BY <1>1, <1>3, <1>4, Moved

(* What is known of a replacement at a place: request, names, progress.    *)
LEMMA AtStatement ==
    ASSUME IInv, NEW c \in Clients, pc[c] \in Statements
    PROVE  /\ Fits(c) /\ Changed(c)
           /\ pc[c] = "commit" => Whole(c)
           /\ request[c] \in Requests
           /\ disk \in Database /\ conn \in Database
           /\ Contract!UniqueTools(disk.catalog) /\ Contract!UniqueTools(conn.catalog)
  BY DEF IInv, Writing, Asking, TypeOK, Sound, Statements

LEMMA DeleteHolds ==
    ASSUME IInv, NEW c \in Clients, DeleteRows(c)
    PROVE  IInv'
  <1>1. pc[c] = "delete" /\ pc[c] \in Statements /\ Goto(c, "insert")
        /\ UNCHANGED <<disk, build, lock, request, answer, touched, left>>
    BY DEF DeleteRows, Running, Statements
  <1>2. /\ conn = Between /\ disk \in Database /\ conn \in Database
        /\ request[c].op \in CatalogOps /\ Contract!UniqueTools(disk.catalog)
    BY <1>1, AtStatement DEF Fits, Changed, Clean
  <1>3. conn' = [conn EXCEPT !.catalog = Kept(c, @), !.legacy = Kept(c, @)]
    BY DEF DeleteRows, Kept
  <1>4. /\ Kept(c, disk.catalog) \in SUBSET Row /\ Kept(c, disk.legacy) \in SUBSET Row
        /\ Kept(c, disk.catalog) \subseteq disk.catalog
    BY <1>2, KeptType DEF Database
  <1>5. /\ conn' \in Database
        /\ conn'.registry = left /\ conn'.catalog = Kept(c, disk.catalog)
        /\ conn'.legacy = Kept(c, disk.legacy) /\ conn'.fts = disk.fts
        /\ conn'.indexed = disk.indexed
    BY <1>2, <1>3, <1>4 DEF Database, Between
  <1>6. Contract!UniqueTools(conn'.catalog)
    BY <1>2, <1>4, <1>5 DEF Contract!UniqueTools
  <1>7. pc'[c] = "insert"
    BY <1>1 DEF IInv, TypeOK, Goto
  <1>8. Kept(c, disk.catalog)' = Kept(c, disk.catalog) /\ Kept(c, disk.legacy)' = Kept(c, disk.legacy)
    BY <1>1 DEF Kept
  <1>9. Changed(c)'
    BY <1>1, <1>5, <1>7, <1>8 DEF Changed, Clean
  <1> QED
    BY <1>1, <1>2, <1>5, <1>6, <1>9, Replacing

(* A change to an index that does not exist is no change. *)
LEMMA InsertHolds ==
    ASSUME IInv, NEW c \in Clients, InsertRows(c)
    PROVE  IInv'
  <1> DEFINE after == Kept(c, disk.catalog) \cup request[c].rows
  <1>1. pc[c] = "insert" /\ pc[c] \in Statements
        /\ UNCHANGED <<disk, build, lock, request, answer, touched, left>>
    BY DEF InsertRows, Running, Statements
  <1>2. /\ conn \in Database /\ disk \in Database
        /\ request[c].op \in CatalogOps /\ request[c].rows \in SUBSET Row
        /\ conn.registry = left /\ conn.catalog = Kept(c, disk.catalog)
        /\ conn.legacy = Kept(c, disk.legacy) /\ conn.fts = disk.fts
        /\ conn.indexed = disk.indexed
    BY <1>1, AtStatement, RequestTypes DEF Fits, Changed
  <1>3. Kept(c, disk.catalog)' = Kept(c, disk.catalog) /\ Kept(c, disk.legacy)' = Kept(c, disk.legacy)
    BY <1>1 DEF Kept
  <1>4. CASE Contract!UniqueTools(after)
    <2>1. conn' = [conn EXCEPT !.catalog = after] /\ Goto(c, AfterCatalog)
      BY <1>2, <1>4 DEF InsertRows
    <2>2. /\ conn' \in Database
          /\ conn'.registry = left /\ conn'.catalog = after
          /\ conn'.legacy = Kept(c, disk.legacy) /\ conn'.fts = disk.fts
          /\ conn'.indexed = disk.indexed
      BY <1>2, <2>1 DEF Database
    <2>3. CASE conn.indexed
      <3>1. AfterCatalog = "fts_delete" /\ pc'[c] = "fts_delete"
        BY <2>1, <2>3 DEF AfterCatalog, FtsEnabled, IInv, TypeOK, Goto
      <3>2. Changed(c)'
        BY <1>1, <1>2, <1>3, <2>2, <2>3, <3>1 DEF Changed, Clean
      <3> QED
        BY <1>1, <1>2, <1>4, <2>1, <2>2, <3>1, <3>2, Replacing
    <2>4. CASE ~conn.indexed
      <3>1. AfterCatalog = "commit" /\ pc'[c] = "commit"
        BY <2>1, <2>4 DEF AfterCatalog, FtsEnabled, IInv, TypeOK, Goto
      <3>2. Changed(c)'
        BY <1>1, <1>2, <1>3, <2>2, <3>1 DEF Changed, Clean
      <3>3. Whole(c)'
        BY <1>1, <1>2, <1>3, <2>2, <2>4 DEF Whole
      <3> QED
        BY <1>1, <1>2, <1>4, <2>1, <2>2, <3>1, <3>2, <3>3, Replacing
    <2> QED
      BY <2>3, <2>4
  <1>5. CASE ~Contract!UniqueTools(after)
    <2>1. PICK some \in SUBSET request[c].rows :
            /\ Contract!UniqueTools(conn.catalog \cup some)
            /\ conn' = [conn EXCEPT !.catalog = @ \cup some]
      BY <1>2, <1>5 DEF InsertRows
    <2>2. Goto(c, "rollback") /\ pc'[c] = "rollback"
      BY <1>2, <1>5 DEF InsertRows, IInv, TypeOK, Goto
    <2>3. conn' \in Database /\ Contract!UniqueTools(conn'.catalog)
          /\ conn'.registry = left /\ conn'.indexed = disk.indexed
      BY <1>2, <2>1 DEF Database
    <2>4. Changed(c)'
      BY <1>1, <2>2, <2>3 DEF Changed, Clean
    <2> QED
      BY <1>1, <1>2, <2>2, <2>3, <2>4, Replacing
  <1> QED
    BY <1>4, <1>5

LEMMA DeleteIndexHolds ==
    ASSUME IInv, NEW c \in Clients, DeleteIndex(c)
    PROVE  IInv'
  <1>1. pc[c] = "fts_delete" /\ pc[c] \in Statements /\ Goto(c, "fts_insert")
        /\ UNCHANGED <<disk, build, lock, request, answer, touched, left>>
    BY DEF DeleteIndex, Running, Statements
  <1>2. Fits(c) /\ Changed(c) /\ conn \in Database /\ Contract!UniqueTools(conn.catalog)
    BY <1>1, AtStatement
  <1>3. request[c].op \in CatalogOps /\ conn.fts = disk.fts
    BY <1>1, <1>2 DEF Fits, Changed
  <1>4. conn' = [conn EXCEPT !.fts = Thinned(c)]
    BY <1>3 DEF DeleteIndex, Thinned
  <1>5. /\ conn' \in Database
        /\ conn'.registry = conn.registry /\ conn'.catalog = conn.catalog
        /\ conn'.legacy = conn.legacy /\ conn'.fts = Thinned(c)
        /\ conn'.indexed = conn.indexed
    BY <1>2, <1>3, <1>4 DEF Database, Thinned
  <1>6. pc'[c] = "fts_insert"
    BY <1>1 DEF IInv, TypeOK, Goto
  <1>7. /\ Kept(c, disk.catalog)' = Kept(c, disk.catalog)
        /\ Kept(c, disk.legacy)' = Kept(c, disk.legacy) /\ Thinned(c)' = Thinned(c)
    BY <1>1 DEF Kept, Thinned
  <1>8. Changed(c)'
    BY <1>1, <1>2, <1>5, <1>6, <1>7 DEF Changed, Clean
  <1> QED
    BY <1>1, <1>2, <1>3, <1>5, <1>8, Replacing

LEMMA InsertIndexHolds ==
    ASSUME IInv, NEW c \in Clients, InsertIndex(c)
    PROVE  IInv'
  <1>1. pc[c] = "fts_insert" /\ pc[c] \in Statements /\ Goto(c, "commit")
        /\ UNCHANGED <<disk, build, lock, request, answer, touched, left>>
    BY DEF InsertIndex, Running, Statements
  <1>2. /\ Fits(c) /\ Changed(c) /\ conn \in Database /\ Contract!UniqueTools(conn.catalog)
        /\ request[c] \in Requests
    BY <1>1, AtStatement
  <1>3. /\ request[c].op \in CatalogOps /\ request[c].rows \in SUBSET Row
        /\ conn.fts = Thinned(c) /\ conn.indexed
    BY <1>1, <1>2, RequestTypes DEF Fits, Changed
  <1>4. conn' = [conn EXCEPT !.fts = Thinned(c) \cup NamesOf(request[c].rows)]
    BY <1>3 DEF InsertIndex
  <1>5. /\ conn' \in Database
        /\ conn'.registry = conn.registry /\ conn'.catalog = conn.catalog
        /\ conn'.legacy = conn.legacy /\ conn'.fts = Thinned(c) \cup NamesOf(request[c].rows)
        /\ conn'.indexed = conn.indexed
    BY <1>2, <1>3, <1>4, NamesType DEF Database
  <1>6. pc'[c] = "commit"
    BY <1>1 DEF IInv, TypeOK, Goto
  <1>7. /\ Kept(c, disk.catalog)' = Kept(c, disk.catalog)
        /\ Kept(c, disk.legacy)' = Kept(c, disk.legacy) /\ Thinned(c)' = Thinned(c)
        /\ NamesOf(request[c].rows)' = NamesOf(request[c].rows)
    BY <1>1 DEF Kept, Thinned, NamesOf
  <1>8. Changed(c)'
    BY <1>1, <1>2, <1>5, <1>6, <1>7 DEF Changed, Clean
  <1>9. Whole(c)'
    BY <1>1, <1>2, <1>3, <1>5, <1>7 DEF Changed, Whole
  <1> QED
    BY <1>1, <1>2, <1>3, <1>5, <1>8, <1>9, Replacing

(* A statement raises: whatever was changed, a rollback comes next.        *)
LEMMA FailureHolds ==
    ASSUME IInv, NEW c \in Clients, IndexFails(c) \/ StatementFails(c)
    PROVE  IInv'
  <1>1. pc[c] \in Statements /\ Goto(c, "rollback")
        /\ UNCHANGED <<disk, conn, build, lock, request, answer, touched, left>>
    BY DEF IndexFails, StatementFails, Statements
  <1>2. /\ Fits(c) /\ Changed(c) /\ conn \in Database /\ Contract!UniqueTools(conn.catalog)
        /\ pc[c] = "commit" => Whole(c)
    BY <1>1, AtStatement
  <1>3. request[c].op \in CatalogOps
    BY <1>2 DEF IndexFails, StatementFails, Fits, CatalogOps
  <1>4. pc'[c] = "rollback"
    BY <1>1 DEF IInv, TypeOK, Goto
  <1>5. conn.indexed = disk.indexed /\ conn.registry = left
    BY <1>2, <1>3 DEF Changed, Whole
  <1>6. Changed(c)'
    BY <1>1, <1>4, <1>5 DEF Changed, Clean
  <1> QED
    BY <1>1, <1>2, <1>3, <1>6, Replacing

(* A rollback, the writer's or SQLite's own: what earlier writes have left *)
(* goes as well.                                                           *)
LEMMA RolledBackHolds ==
    ASSUME IInv, NEW c \in Clients, pc[c] \in Statements, Leave(c, "error"),
           conn' = disk, UNCHANGED <<disk, build>>
    PROVE  IInv'
  <1>1. disk' \in Database /\ conn' \in Database /\ left' = disk.registry
    BY DEF IInv, TypeOK, Leave
  <1>2. conn' = Between'
    BY <1>1 DEF Between, Database
  <1>3. Sound'
    BY <1>1 DEF IInv, Sound, Contract!UniqueTools
  <1> QED
    BY <1>1, <1>2, <1>3, Returned

LEMMA RollbackHolds ==
    ASSUME IInv, NEW c \in Clients, Rollback(c)
    PROVE  IInv'
  <1>1. pc[c] \in Statements /\ Leave(c, "error") /\ conn' = disk
        /\ disk' = disk /\ build' = build
    BY DEF Rollback, Running, Statements
  <1> QED
    BY <1>1, RolledBackHolds

-----------------------------------------------------------------------------
(* Registry writes *)

(* An error before anything was changed. *)
LEMMA RefusedHolds ==
    ASSUME IInv, NEW c \in Clients, pc[c] \in Clean, Leave(c, "error"),
           UNCHANGED <<disk, conn, build>>
    PROVE  IInv'
  <1>1. pc[c] \in Statements
    BY DEF Clean, Statements
  <1>2. conn = Between /\ conn.registry = left /\ disk \in Database /\ conn \in Database
    BY <1>1, AtStatement DEF Changed, Clean
  <1>3. left' = left
    BY <1>2 DEF Leave
  <1>4. conn' = Between' /\ Sound'
    BY <1>2, <1>3 DEF IInv, Sound, Between, Contract!UniqueTools
  <1> QED
    BY <1>1, <1>2, <1>4, Returned

LEMMA GetHolds ==
    ASSUME IInv, NEW c \in Clients, GetRecord(c)
    PROVE  IInv'
  <1>1. /\ pc[c] = "get" /\ pc[c] \in Statements /\ pc[c] \in Clean /\ "row" \in Statements
        /\ UNCHANGED <<disk, conn, build>>
    BY DEF GetRecord, Running, Statements, Clean
  <1>2. /\ Fits(c) /\ Changed(c) /\ conn \in Database /\ Contract!UniqueTools(conn.catalog)
    BY <1>1, AtStatement
  <1>3. conn.registry = left /\ conn = Between /\ request[c].op = "update"
    BY <1>1, <1>2 DEF Fits, Changed
  <1>4. CASE Contract!Patchable(request[c], left)
    <2>1. Goto(c, "row") /\ UNCHANGED <<lock, request, answer, touched, left>>
      BY <1>3, <1>4 DEF GetRecord
    <2>2. pc'[c] = "row"
      BY <2>1 DEF IInv, TypeOK, Goto
    <2>3. Contract!OwnRows(request[c])' /\ Contract!Patchable(request[c], left)'
      BY <1>1, <1>2, <1>4, <2>1 DEF Fits, Contract!OwnRows, Contract!Patchable
    <2>4. Fits(c)'
      BY <1>1, <1>2, <1>3, <2>1, <2>2, <2>3 DEF Fits, RegistryOps
    <2>5. Changed(c)'
      BY <1>1, <1>2, <1>3, <2>1, <2>2 DEF Changed, Clean, Between
    <2>6. touched' \in [Clients -> SUBSET (ToolNames \cup ServerIds \cup GroupIds)]
      BY <2>1 DEF IInv, TypeOK
    <2> QED
      BY <1>1, <1>2, <2>1, <2>4, <2>5, <2>6, Moved
  <1>5. CASE ~Contract!Patchable(request[c], left)
    <2>1. Leave(c, "error")
      BY <1>3, <1>5 DEF GetRecord
    <2> QED
      BY <1>1, <2>1, RefusedHolds
  <1> QED
    BY <1>4, <1>5

LEMMA RowHolds ==
    ASSUME IInv, NEW c \in Clients, WriteRow(c)
    PROVE  IInv'
  <1> DEFINE r == request[c]
             conflict == r.op # "delete" /\ Contract!Taken(r, left)
  <1>1. /\ pc[c] = "row" /\ pc[c] \in Statements /\ pc[c] \in Clean /\ "commit" \in Statements
        /\ UNCHANGED <<disk, build>>
    BY DEF WriteRow, Running, Statements, Clean
  <1>2. /\ Fits(c) /\ Changed(c) /\ conn \in Database /\ Contract!UniqueTools(conn.catalog)
        /\ r \in Requests
    BY <1>1, AtStatement
  <1>3. conn = Between /\ conn.registry = left /\ r.op \in RegistryOps /\ r.op \notin CatalogOps
    BY <1>1, <1>2 DEF Fits, Changed, Clean, CatalogOps, RegistryOps
  <1>4. CASE conflict
    <2>1. Leave(c, "error") /\ UNCHANGED conn
      BY <1>3, <1>4 DEF WriteRow
    <2> QED
      BY <1>1, <2>1, RefusedHolds
  <1>5. CASE ~conflict
    <2>1. /\ conn' = [conn EXCEPT !.registry = Contract!RegistryAfter(r, @)]
          /\ touched' = [touched EXCEPT ![c] = {s.id : s \in conn.registry} \cap {r.id}]
          /\ Goto(c, "commit")
          /\ UNCHANGED <<lock, request, answer, left>>
      BY <1>3, <1>5 DEF WriteRow
    <2>2. /\ conn' \in Database
          /\ conn'.registry = Contract!RegistryAfter(r, left)
          /\ conn'.catalog = disk.catalog /\ conn'.legacy = disk.legacy
          /\ conn'.fts = disk.fts /\ conn'.indexed = disk.indexed
      <3>1. Contract!RegistryAfter(r, left) \in SUBSET Contract!Record
        BY <1>2, <1>3, RecordTypes DEF Database
      <3> QED
        BY <1>2, <1>3, <2>1, <3>1, AtStatement, <1>1 DEF Database, Between
    <2>3. pc'[c] = "commit" /\ touched'[c] = {s.id : s \in left} \cap {r.id}
      BY <1>3, <2>1 DEF IInv, TypeOK, Goto
    <2>4. touched' \in [Clients -> SUBSET (ToolNames \cup ServerIds \cup GroupIds)]
      <3>1. r.id \in ServerIds \cup GroupIds
        BY <1>2, <1>3, RequestTypes
      <3> QED
        BY <2>1, <3>1 DEF IInv, TypeOK
    <2>5. /\ Contract!OwnRows(r)' 
          /\ r.op = "update" => Contract!Patchable(r, left)'
          /\ r.op # "delete" => ~Contract!Taken(r, left)'
      BY <1>1, <1>2, <1>5, <2>1
      DEF Fits, Contract!OwnRows, Contract!Patchable, Contract!Taken
    <2>6. touched'[c] = {} <=> ~\E s \in left : s.id = r.id
      BY <2>3
    <2>7. Fits(c)'
      BY <1>1, <1>2, <1>3, <2>1, <2>3, <2>5, <2>6 DEF Fits, CatalogOps, Clean
    <2>8. Changed(c)'
      BY <1>1, <2>2, <2>3 DEF Changed, Clean
    <2>9. Whole(c)'
      BY <1>1, <1>3, <2>1, <2>2 DEF Whole
    <2> QED
      BY <1>1, <2>1, <2>2, <2>4, <2>7, <2>8, <2>9, Moved, <1>2 DEF Contract!UniqueTools
  <1> QED
    BY <1>4, <1>5

-----------------------------------------------------------------------------
(* Commits, cancellations, restarts *)

(* The index follows a replaced catalog: the entries of old rows are gone, *)
(* and since names are unique, of no other.                                *)
LEMMA ReplacedSound ==
    ASSUME IInv, NEW c \in Clients, pc[c] = "commit", request[c].op \in CatalogOps,
           disk' = conn, left' = conn.registry
    PROVE  Sound'
  <1> DEFINE rows == request[c].rows
             kept == Kept(c, disk.catalog)
             names == NamesOf({r \in disk.catalog : r.server_id = request[c].id})
  <1>1. pc[c] \in Statements
    BY DEF Statements
  <1>2. Fits(c) /\ Changed(c) /\ Whole(c) /\ Sound /\ Contract!UniqueTools(conn.catalog)
    BY <1>1, AtStatement DEF IInv
  <1>3. /\ conn.registry = left /\ conn.catalog = kept \cup rows
        /\ conn.legacy = Kept(c, disk.legacy) /\ conn.indexed = disk.indexed
        /\ conn.fts = IF conn.indexed THEN Thinned(c) \cup NamesOf(rows) ELSE disk.fts
    BY <1>2 DEF Whole, Changed
  <1>4. request[c].op = "replace_server" => touched[c] = names
    BY <1>2 DEF Fits
  <1>5. conn.legacy \subseteq conn.catalog
    BY <1>2, <1>3 DEF Sound, Kept
  <1>6. conn.fts \subseteq NamesOf(conn.catalog)
    <2>1. CASE request[c].op = "replace"
      BY <1>2, <1>3, <2>1 DEF Sound, NamesOf, Thinned
    <2>2. CASE request[c].op # "replace" /\ conn.indexed
      <3>1. \A name \in Thinned(c) : \E r \in kept : r.name = name
        BY <1>2, <1>4, <2>2 DEF Sound, NamesOf, Thinned, Kept, CatalogOps
      <3> QED
        BY <1>3, <2>2, <3>1 DEF NamesOf
    <2>3. CASE ~conn.indexed
      BY <1>2, <1>3, <2>3 DEF Sound
    <2> QED
      BY <2>1, <2>2, <2>3
  <1>7. ASSUME conn.indexed, NEW r \in conn.catalog
        PROVE  r.name \in conn.fts \/ r \in conn.legacy
    <2>1. CASE r \in rows
      BY <1>3, <1>7, <2>1 DEF NamesOf
    <2>2. CASE r \in kept
      <3>1. /\ request[c].op = "replace_server"
            /\ r \in disk.catalog /\ r.server_id # request[c].id
        BY <2>2 DEF Kept, CatalogOps
      <3>2. r.name \notin touched[c]
        BY <1>2, <1>4, <3>1 DEF Sound, Contract!UniqueTools, NamesOf
      <3>3. r.name \in disk.fts \/ r \in disk.legacy
        BY <1>2, <1>3, <1>7, <3>1 DEF Sound
      <3> QED
        BY <1>3, <1>7, <3>1, <3>2, <3>3 DEF Thinned, Kept
    <2> QED
      BY <1>3, <1>7, <2>1, <2>2
  <1>8. ~conn.indexed => conn.fts = {}
    BY <1>2, <1>3 DEF Sound
  <1>9. \A s \in conn.registry : s.id \in ServerIds => s.loads
    BY <1>2, <1>3 DEF Sound
  <1> QED
    BY <1>2, <1>5, <1>6, <1>7, <1>8, <1>9 DEF Sound, Contract!UniqueTools, NamesOf

(* A server is only patched with what validates. *)
LEMMA PatchedLoads ==
    ASSUME IInv, NEW c \in Clients, pc[c] = "commit", request[c].op \in RegistryOps
    PROVE  /\ \A s \in conn.registry : s.id \in ServerIds => s.loads
           /\ conn = [disk EXCEPT !.registry = conn.registry]
  <1> DEFINE r == request[c]
  <1>1. pc[c] \in Statements
    BY DEF Statements
  <1>2. Fits(c) /\ Changed(c) /\ Whole(c) /\ Sound /\ disk \in Database /\ conn \in Database
    BY <1>1, AtStatement DEF IInv
  <1>3. /\ conn.registry = Contract!RegistryAfter(r, left)
        /\ conn.catalog = disk.catalog /\ conn.legacy = disk.legacy
        /\ conn.fts = disk.fts /\ conn.indexed = disk.indexed
    BY <1>2 DEF Whole, Changed, CatalogOps, RegistryOps
  <1>4. r.op = "update" => Contract!Patchable(r, left)
    BY <1>2 DEF Fits
  <1>5. \A s \in conn.registry : s.id \in ServerIds => s.loads
    <2> TAKE s \in conn.registry
    <2> HAVE s.id \in ServerIds
    <2>1. CASE s \in left
      BY <1>2, <2>1 DEF Sound
    <2>2. CASE s \notin left /\ r.op = "create"
      BY <1>3, <2>2 DEF Contract!RegistryAfter
    <2>3. CASE s \notin left /\ r.op = "update"
      <3>1. s = [id |-> r.id, name |-> r.name, loads |-> r.valid]
        BY <1>3, <2>3 DEF Contract!RegistryAfter
      <3> QED
        BY <1>4, <2>3, <3>1 DEF Contract!Patchable
    <2> QED
      BY <1>3, <2>1, <2>2, <2>3 DEF Contract!RegistryAfter, RegistryOps
  <1>6. conn = [disk EXCEPT !.registry = conn.registry]
    BY <1>2, <1>3 DEF Database
  <1> QED
    BY <1>5, <1>6

LEMMA RegisteredSound ==
    ASSUME IInv, NEW c \in Clients, pc[c] = "commit", request[c].op \in RegistryOps,
           disk' = conn, left' = conn.registry
    PROVE  Sound'
  <1>1. Sound /\ disk \in Database
    BY DEF IInv, TypeOK
  <1>2. /\ conn.catalog = disk.catalog /\ conn.legacy = disk.legacy
        /\ conn.fts = disk.fts /\ conn.indexed = disk.indexed
    BY <1>1, PatchedLoads DEF Database
  <1> QED
    BY <1>1, <1>2, PatchedLoads DEF Sound, Contract!UniqueTools, NamesOf

LEMMA CommitHolds ==
    ASSUME IInv, NEW c \in Clients, Commit(c)
    PROVE  IInv'
  <1>1. pc[c] = "commit" /\ pc[c] \in Statements /\ disk' = conn /\ conn' = conn /\ build' = build
    BY DEF Commit, Running, Statements
  <1>2. request[c] \in Requests /\ conn \in Database
    BY <1>1, AtStatement
  <1>3. \E outcome \in {"ok", "error"} : Leave(c, outcome)
    BY DEF Commit
  <1>4. left' = conn.registry
    BY <1>1, <1>3 DEF Leave
  <1>5. Sound'
    BY <1>1, <1>2, <1>4, RequestTypes, ReplacedSound, RegisteredSound
  <1>6. conn' = Between'
    BY <1>1, <1>2, <1>4 DEF Between, Database
  <1> QED
    BY <1>1, <1>2, <1>3, <1>5, <1>6, Returned

(* A registry write raises, and leaves its change for the next commit.     *)
LEMMA LeftOpenHolds ==
    ASSUME IInv, NEW c \in Clients, RegistryWriteFails(c)
    PROVE  IInv'
  <1>1. /\ pc[c] \in Statements /\ pc[c] \in Clean \cup {"commit"}
        /\ request[c].op \in RegistryOps
        /\ Leave(c, "error") /\ UNCHANGED <<disk, build>>
    BY DEF RegistryWriteFails, Statements, Clean, RegistryOps
  <1>2. CASE conn' = disk
    BY <1>1, <1>2, RolledBackHolds
  <1>3. CASE conn' = conn /\ pc[c] \in Clean
    BY <1>1, <1>3, RefusedHolds
  <1>4. CASE conn' = conn /\ pc[c] = "commit"
    <2>1. left' = conn.registry /\ disk' \in Database /\ conn' \in Database
      BY <1>1, <1>4, AtStatement DEF Leave
    <2>2. conn' = Between'
      BY <1>1, <1>4, <2>1, PatchedLoads DEF Between
    <2>3. Sound'
      BY <1>1, <1>4, <2>1, PatchedLoads DEF IInv, Sound, Contract!UniqueTools
    <2> QED
      BY <1>1, <2>1, <2>2, <2>3, Returned
  <1> QED
    BY <1>1, <1>2, <1>3, <1>4 DEF RegistryWriteFails

LEMMA CancelHolds ==
    ASSUME CancelledEarly, IInv, NEW c \in Clients, Cancel(c)
    PROVE  IInv'
  <1>1. pc[c] = "lock" \/ pc[c] \in Clean
    BY DEF CancelledEarly, Cancel
  <1>2. CASE pc[c] = "lock"
    BY <1>2, EndedOutside DEF Cancel, Statements
  <1>3. CASE pc[c] \in Clean
    BY <1>3, RefusedHolds DEF Cancel, Clean
  <1> QED
    BY <1>1, <1>2, <1>3

LEMMA RestartHolds ==
    ASSUME IInv, NEW b \in Builds, Restart(b)
    PROVE  IInv'
  <1>1. disk' \in Database /\ Sound'
    BY OpenedSound DEF IInv, TypeOK, Restart
  <1>2. /\ left' = disk'.registry /\ conn' = disk' /\ lock' = NoClient /\ build' = b
        /\ pc' = [c \in Clients |-> "idle"]
        /\ request' = [c \in Clients |-> NoRequest]
        /\ answer' = [c \in Clients |-> "none"]
        /\ touched' = [c \in Clients |-> {}]
    BY DEF Restart
  <1>3. TypeOK' /\ Quiet'
    BY <1>1, <1>2 DEF TypeOK, Places, Sound, Contract!UniqueTools, Quiet, Between, Database
  <1>4. \A c \in Clients : (Asking(c) /\ Writing(c))'
    BY <1>2 DEF Asking, Writing, Statements
  <1> QED
    BY <1>1, <1>3, <1>4 DEF IInv

LEMMA StutterHolds == IInv /\ UNCHANGED vars => IInv'
  <1> SUFFICES ASSUME IInv, UNCHANGED vars PROVE IInv'
    OBVIOUS
  <1>1. UNCHANGED <<disk, conn, build, lock, pc, request, answer, touched, left>>
    BY DEF vars
  <1>2. TypeOK' /\ Sound' /\ Quiet'
    BY <1>1 DEF IInv, TypeOK, Sound, Quiet, Between, Contract!UniqueTools, NamesOf
  <1>3. ASSUME NEW c \in Clients PROVE (Asking(c) /\ Writing(c))'
    BY <1>1, <1>3, Untouched DEF IInv
  <1> QED
    BY <1>2, <1>3 DEF IInv

LEMMA NextHolds ==
    ASSUME CancelledEarly, IInv, [Next]_vars
    PROVE  IInv'
  <1>1. CASE UNCHANGED vars
    BY <1>1, StutterHolds
  <1>2. ASSUME NEW c \in Clients, NEW r \in Requests, Submit(c, r) PROVE IInv'
    BY <1>2, SubmitHolds
  <1>3. ASSUME NEW c \in Clients, RejectRows(c) PROVE IInv'
    BY <1>3, EndedOutside DEF RejectRows
  <1>4. ASSUME NEW c \in Clients, Step(c), ~RejectRows(c) PROVE IInv'
    BY <1>4, SelectHolds, DeleteHolds, InsertHolds, DeleteIndexHolds, InsertIndexHolds,
       FailureHolds, GetHolds, RowHolds, CommitHolds, RollbackHolds DEF Step
  <1>5. ASSUME NEW c \in Clients, Acquire(c) \/ StatementFails(c) \/ Cancel(c) PROVE IInv'
    BY <1>5, AcquireHolds, FailureHolds, CancelHolds
  <1>6. ASSUME NEW c \in Clients, RegistryWriteFails(c) PROVE IInv'
    BY <1>6, LeftOpenHolds
  <1>7. ASSUME NEW b \in Builds, Restart(b) PROVE IInv'
    BY <1>7, RestartHolds
  <1> QED
    BY <1>1, <1>2, <1>3, <1>4, <1>5, <1>6, <1>7 DEF Next

LEMMA Inductive ==
    ASSUME CancelledEarly
    PROVE  Spec => []IInv
  <1>1. IInv /\ [Next]_vars => IInv'
    BY NextHolds
  <1> QED
    BY <1>1, InitHolds, PTL DEF Spec

-----------------------------------------------------------------------------
(* The theorems *)

(* Every variable keeps its type, and tool names stay unique, in the       *)
(* middle of a write as well.                                              *)
THEOREM TypeCorrect ==
    ASSUME CancelledEarly
    PROVE  Spec => []TypeOK
  <1>1. IInv => TypeOK
    BY DEF IInv
  <1> QED
    BY <1>1, Inductive, PTL

(* The search index holds committed tools only and misses none but those   *)
(* older than itself, whatever fails, and whichever build opens the file.  *)
THEOREM IndexFollows ==
    ASSUME CancelledEarly
    PROVE  Spec => []IndexMatchesCatalog
  <1>1. IInv => IndexMatchesCatalog
    BY DEF IInv, Sound, IndexMatchesCatalog, NamesOf
  <1> QED
    BY <1>1, Inductive, PTL

(* A read while no write is under way returns what is committed. *)
THEOREM QuietReads ==
    ASSUME CancelledEarly
    PROVE  Spec => []QuietReadsAreWhole
  <1>1. IInv => QuietReadsAreWhole
    BY DEF IInv, TypeOK, Database, Sound, Quiet, Between, QuietReadsAreWhole, ListCatalog,
           SearchCatalog, Hits, FtsEnabled
  <1> QED
    BY <1>1, Inductive, PTL

(* No write leaves a server behind that would fail to load. *)
THEOREM ServersAlwaysLoad ==
    ASSUME CancelledEarly
    PROVE  Spec => []ServersLoad
  <1>1. IInv => ServersLoad
    BY DEF IInv, Sound, ServersLoad
  <1> QED
    BY <1>1, Inductive, PTL

-----------------------------------------------------------------------------
(* The refinement *)

(* Of a step of the store the contract sees the call, its end and the      *)
(* crash: a write changes what is committed when it returns, as the        *)
(* contract says, and when it raises only what is visible, or nothing.     *)
LEMMA Asked ==
    ASSUME IInv, NEW c \in Clients, pc[c] # "idle"
    PROVE  request[c] # NoRequest
  BY StoreAssumption DEF IInv, Asking, StoreAssumption, Contract!RequestsAssumption

LEMMA FailRefines ==
    ASSUME IInv, NEW c \in Clients, pc[c] # "idle", Return(c, "error"),
           disk'.registry = disk.registry, disk'.catalog = disk.catalog,
           left' \in {left, disk.registry}
    PROVE  Contract!Fail(c)
  <1>1. Contract!NoEffect \/ Contract!RolledBack
    BY DEF Contract!NoEffect, Contract!RolledBack
  <1> QED
    BY <1>1, Asked DEF Return, Contract!Fail

(* What a statement that changes nothing leaves visible. *)
LEMMA LeavesAsItWas ==
    ASSUME IInv, NEW c \in Clients, pc[c] \in Clean, Leave(c, "error"), conn' \in {conn, disk}
    PROVE  left' \in {left, disk.registry} /\ pc[c] # "idle" /\ Return(c, "error")
  <1>1. conn.registry = left
    BY AtStatement DEF Clean, Statements, Changed
  <1> QED
    BY <1>1 DEF Leave, Clean

(* A delete that found no row changes nothing. *)
FoundNothing(c) == request[c].op = "delete" /\ touched[c] = {}

(* At its commit a write is what the contract permits, and the transaction *)
(* what the contract says will be, unless a delete has found no row.       *)
LEMMA CommitPermits ==
    ASSUME IInv, NEW c \in Clients, pc[c] = "commit"
    PROVE  /\ FoundNothing(c) =>
                /\ ~Contract!Permitted(request[c])
                /\ conn.registry = left /\ conn.catalog = disk.catalog
           /\ ~FoundNothing(c) =>
                /\ Contract!Permitted(request[c])
                /\ conn.registry = Contract!RegistryAfter(request[c], left)
                /\ conn.catalog = Contract!CatalogAfter(request[c])
  <1> DEFINE r == request[c]
  <1>1. pc[c] \in Statements
    BY DEF Statements
  <1>2. /\ Fits(c) /\ Changed(c) /\ Whole(c) /\ r \in Requests
        /\ Contract!UniqueTools(disk.catalog) /\ Contract!UniqueTools(conn.catalog)
    BY <1>1, AtStatement
  <1>3. r.op \in CatalogOps \cup RegistryOps
    BY <1>2, RequestTypes
  <1>4. ASSUME FoundNothing(c)
        PROVE  /\ ~Contract!Permitted(r)
               /\ conn.registry = left /\ conn.catalog = disk.catalog
    <2>1. r.op = "delete" /\ ~\E s \in left : s.id = r.id
      BY <1>2, <1>4 DEF Fits, RegistryOps, FoundNothing
    <2> QED
      BY <1>2, <2>1 DEF Whole, CatalogOps, Contract!RegistryAfter, Contract!Permitted
  <1>5. ASSUME ~FoundNothing(c)
        PROVE  /\ Contract!Permitted(r)
               /\ conn.registry = Contract!RegistryAfter(r, left)
               /\ conn.catalog = Contract!CatalogAfter(r)
    <2>1. conn.registry = Contract!RegistryAfter(r, left)
          /\ conn.catalog = Contract!CatalogAfter(r)
      BY <1>2, <1>3
      DEF Whole, Kept, CatalogOps, RegistryOps, Contract!RegistryAfter, Contract!CatalogAfter
    <2>2. Contract!UniqueTools(Contract!CatalogAfter(r))
      BY <1>2, <2>1
    <2>3. r.op \in {"create", "update"} => ~Contract!Taken(r, left)
      BY <1>2 DEF Fits, RegistryOps
    <2>4. r.op = "update" => Contract!Patchable(r, left)
      BY <1>2 DEF Fits
    <2>5. r.op = "delete" => \E s \in left : s.id = r.id
      BY <1>2, <1>5 DEF Fits, RegistryOps, FoundNothing
    <2>6. Contract!OwnRows(r)
      BY <1>2 DEF Fits
    <2>7. Contract!Permitted(r)
      BY <2>2, <2>3, <2>4, <2>5, <2>6 DEF Contract!Permitted
    <2> QED
      BY <2>1, <2>7
  <1> QED
    BY <1>4, <1>5

LEMMA CommitRefines ==
    ASSUME IInv, NEW c \in Clients, Commit(c)
    PROVE  Contract!Succeed(c) \/ Contract!Fail(c)
  <1> DEFINE r == request[c]
  <1>1. /\ pc[c] = "commit" /\ r # NoRequest
        /\ disk' = conn /\ left' = conn.registry
        /\ Return(c, IF FoundNothing(c) THEN "error" ELSE "ok")
    BY Asked DEF Commit, Running, Leave, FoundNothing
  <1>2. CASE FoundNothing(c)
    <2>1. Contract!Flushed(r) /\ disk'.catalog = disk.catalog
      BY <1>1, <1>2, CommitPermits DEF FoundNothing, Contract!Flushed
    <2> QED
      BY <1>1, <1>2, <2>1 DEF Return, Contract!Fail
  <1>3. CASE ~FoundNothing(c)
    BY <1>1, <1>3, CommitPermits DEF Return, Contract!Succeed
  <1> QED
    BY <1>2, <1>3

LEMMA LeftOpenRefines ==
    ASSUME IInv, NEW c \in Clients, RegistryWriteFails(c)
    PROVE  Contract!Fail(c)
  <1>1. /\ pc[c] \in Clean \cup {"commit"} /\ request[c].op \in RegistryOps
        /\ conn' \in {conn, disk} /\ disk' = disk
        /\ left' = conn'.registry /\ Leave(c, "error") /\ Return(c, "error")
    BY DEF RegistryWriteFails, Clean, RegistryOps, Leave
  <1>2. CASE pc[c] \in Clean
    BY <1>1, <1>2, LeavesAsItWas, FailRefines
  <1>3. CASE pc[c] = "commit" /\ (conn' = disk \/ FoundNothing(c))
    BY <1>1, <1>3, CommitPermits, FailRefines
  <1>4. CASE pc[c] = "commit" /\ conn' = conn /\ ~FoundNothing(c)
    <2>1. Contract!LeftOpen(request[c])
      BY <1>1, <1>4, CommitPermits DEF Contract!LeftOpen, RegistryOps
    <2> QED
      BY <1>1, <1>4, <2>1, Asked DEF Return, Contract!Fail
  <1> QED
    BY <1>1, <1>2, <1>3, <1>4

LEMMA StepRefines ==
    ASSUME CancelledEarly, IInv, [Next]_vars
    PROVE  [Contract!Next]_Contract!vars
  <1>1. CASE UNCHANGED vars
    BY <1>1 DEF vars, Contract!vars
  <1>2. ASSUME NEW c \in Clients, NEW r \in Requests, Submit(c, r) PROVE Contract!Next
    BY <1>2 DEF Submit, Contract!Next, Contract!Submit
  <1>3. ASSUME NEW c \in Clients, RejectRows(c) PROVE Contract!Next
    BY <1>3, FailRefines DEF RejectRows, Contract!Next
  <1>4. ASSUME NEW c \in Clients, Commit(c) PROVE Contract!Next
    BY <1>4, CommitRefines DEF Contract!Next
  <1>5. ASSUME NEW c \in Clients, Rollback(c) PROVE Contract!Next
    BY <1>5, FailRefines DEF Rollback, Running, Leave, Contract!Next
  <1>6. ASSUME NEW c \in Clients, GetRecord(c) \/ WriteRow(c)
        PROVE [Contract!Next]_Contract!vars
    <2>1. pc[c] \in Clean /\ disk' = disk
      BY <1>6 DEF GetRecord, WriteRow, Running, Clean
    <2>2. \/ Leave(c, "error") /\ conn' = conn
          \/ UNCHANGED <<request, answer, left>>
      BY <1>6 DEF GetRecord, WriteRow
    <2> QED
      BY <2>1, <2>2, LeavesAsItWas, FailRefines DEF Contract!Next, Contract!vars
  <1>7. ASSUME NEW c \in Clients, Cancel(c) PROVE Contract!Next
    <2>1. pc[c] \in {"lock"} \cup Clean
      BY <1>7 DEF Cancel, CancelledEarly
    <2>2. CASE pc[c] = "lock"
      BY <1>7, <2>2, FailRefines DEF Cancel, Statements, Contract!Next
    <2>3. CASE pc[c] \in Clean
      <3>1. Leave(c, "error") /\ conn' = conn /\ disk' = disk
        BY <1>7, <2>3 DEF Cancel, Clean
      <3> QED
        BY <2>3, <3>1, LeavesAsItWas, FailRefines DEF Contract!Next
    <2> QED
      BY <2>1, <2>2, <2>3
  <1>8. ASSUME NEW c \in Clients,
               \/ Acquire(c) \/ SelectOldNames(c) \/ DeleteRows(c) \/ InsertRows(c)
               \/ DeleteIndex(c) \/ InsertIndex(c) \/ IndexFails(c) \/ StatementFails(c)
        PROVE UNCHANGED Contract!vars
    BY <1>8 DEF Acquire, SelectOldNames, DeleteRows, InsertRows, DeleteIndex, InsertIndex,
                IndexFails, StatementFails, Contract!vars
  <1>9. ASSUME NEW c \in Clients, RegistryWriteFails(c) PROVE Contract!Next
    BY <1>9, LeftOpenRefines DEF Contract!Next
  <1>10. ASSUME NEW b \in Builds, Restart(b) PROVE Contract!Next
    <2>1. /\ disk'.registry = disk.registry /\ disk'.catalog = disk.catalog
          /\ left' = disk.registry
      BY <1>10, OpenedSound DEF IInv, TypeOK, Restart
    <2> QED
      BY <1>10, <2>1 DEF Restart, Contract!Next, Contract!Crash
  <1> QED
    BY <1>1, <1>2, <1>3, <1>4, <1>5, <1>6, <1>7, <1>8, <1>9, <1>10 DEF Next, Step

LEMMA InitRefines == Init => Contract!Init
  BY DEF Init, Opened, Contract!Init

(* The statements of SqliteStore implement CatalogStore, failures of any   *)
(* statement or commit included: initial states are initial, and every     *)
(* step is one atomic change, a write that raises (and leaves on disk      *)
(* nothing of its own, in the transaction at most a registry write's whole *)
(* change), a crash, or invisible.                                         *)
THEOREM ImplementsContract ==
    ASSUME CancelledEarly
    PROVE  Spec => WritesAreAtomic
  <1>1. IInv /\ [Next]_vars => [Contract!Next]_Contract!vars
    BY StepRefines
  <1> QED
    BY <1>1, InitRefines, Inductive, PTL DEF Spec, WritesAreAtomic, Contract!Spec
=============================================================================
