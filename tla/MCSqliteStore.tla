--------------------------- MODULE MCSqliteStore ----------------------------
(* Instances of SqliteStore for TLC. *)
EXTENDS SqliteStore, TLC

CONSTANTS A, B, G, n, m, x, y, C1, C2

Tool(id, name) == [server_id |-> id, name |-> name]

Replace(rows) == [op |-> "replace", rows |-> rows]
ReplaceServer(id, rows) == [op |-> "replace_server", id |-> id, rows |-> rows]

Create(id, name) == [op |-> "create", id |-> id, name |-> name]
Update(id, name, valid) == [op |-> "update", id |-> id, name |-> name, valid |-> valid]

Delete(id) == [op |-> "delete", id |-> id]

(* A whole replacement; per-server ones that fill or conflict with the     *)
(* other server's row, empty, and are rejected.                            *)
MCCatalogRequests ==
    {Replace({Tool(A, x), Tool(B, y)}),
     ReplaceServer(B, {Tool(B, x)}), ReplaceServer(A, {}), ReplaceServer(A, {Tool(B, x)})}

(* Registry writes that take a name, give it up, miss their row and fail   *)
(* validation.                                                             *)
MCRegistryRequests ==
    {Create(A, n), Create(B, n), Update(A, m, TRUE), Update(A, n, FALSE), Delete(A)}

MCRequests == MCCatalogRequests \cup MCRegistryRequests

Anywhere == Places \ {"idle"}

(* Before the first statement that changes something. *)
NothingChanged == {"lock", "get", "select", "delete", "row"}
=============================================================================
