--------------------------- MODULE MCRequestScope ---------------------------
(***************************************************************************)
(* Every registry of a small instance, compiled and queried: the policy    *)
(* and a search under it are compared with a reading of the registry.  In  *)
(* the busy ones requests are followed on their way.                       *)
(***************************************************************************)
EXTENDS RequestScope, TLC

CONSTANTS s1, s2, alpha, beta, add, del, readers, token, key, v1, v2, auth, T1, S1, S2

MCPatterns == {{add}, {add, del}}

MCServers ==
    {r \in ServerRecord : r.enabled /\ Cardinality(r.allow) <= 1 /\ Cardinality(r.deny) <= 1}

MCGroups == {r \in GroupRecord : Cardinality(r.allow) <= 1 /\ Cardinality(r.deny) <= 1}

MCTool(n, x) == [namespace |-> n, bare |-> x]

(* alpha is sent the caller's token and a key, beta nothing. *)
MCStaticHeaders ==
    [n \in Names |-> IF n = alpha THEN [h \in {auth} |-> {token, key}] ELSE << >>]

MCCatalog == {MCTool(alpha, add), MCTool(beta, del)}

MCRegistries ==
    LET Records == {f \in [ServerIds -> MCServers \cup {NoServer}] : UniqueNames(f)}
        Views   == {f \in [GroupNames -> MCGroups \cup {NoServer}] : f[EmptyName] = NoServer}
    IN  [servers : Records, groups : Views, catalog : {MCCatalog}]

Server(n, deny) == [name |-> n, enabled |-> TRUE, allow |-> {}, deny |-> deny]

(* Readers may add by alpha, or there is no such group. *)
MCBusy ==
    {[servers |-> (s1 :> Server(alpha, {}) @@ s2 :> Server(beta, {})),
      groups  |-> (readers :> [members |-> {s1}, allow |-> {}, deny |-> {}]
                   @@ EmptyName :> NoServer),
      catalog |-> MCCatalog],
     [servers |-> (s1 :> Server(alpha, {{add}}) @@ s2 :> NoServer),
      groups  |-> [g \in GroupNames |-> NoServer],
      catalog |-> MCCatalog]}

Bound(v) == [w \in Vars |-> v]

MCAsk(entry, op, group, v, n, x) ==
    [entry |-> entry, op |-> op, group |-> group, vars |-> Bound(v), tool |-> MCTool(n, x)]

MCRequests ==
    {MCAsk("mcp", "open", NoGroup, v1, alpha, add),
     MCAsk("group", "open", readers, v2, alpha, add),
     MCAsk("group", "open", NoGroup, Unset, alpha, add),
     MCAsk("mcp", "call", NoGroup, v1, alpha, add), MCAsk("mcp", "list", NoGroup, Unset, alpha, add),
     MCAsk("mcp", "invoke", NoGroup, Unset, alpha, add),
     MCAsk("group", "invoke", readers, v1, alpha, add),
     MCAsk("group", "call", readers, Unset, beta, del),
     MCAsk("group", "search", NoGroup, v2, alpha, add),
     MCAsk("rest", "list", readers, Unset, alpha, add),
     MCAsk("rest", "describe", NoGroup, Unset, beta, del),
     MCAsk("rest", "call", readers, Unset, alpha, add),
     MCAsk("local", "call", NoGroup, v2, alpha, add),
     MCAsk("local", "list", readers, Unset, alpha, add),
     MCAsk("invoke", "call", NoGroup, Unset, alpha, add)}

(* Orders in which the store may rank some of the tools. *)
MCRankings ==
    {<<>>, <<MCTool(alpha, add), MCTool(beta, add), MCTool(beta, del)>>,
     <<MCTool(beta, del), MCTool(alpha, del), MCTool(alpha, add)>>,
     <<MCTool(beta, del), MCTool(beta, add), MCTool(alpha, add), MCTool(alpha, del)>>}

MCNext ==
    IF \E l \in MCBusy : servers = l.servers /\ groups = l.groups
    THEN \/ \E t \in Tasks : Step(t)
         \/ \E s \in Sessions : EndSession(s)
         \/ \E l \in MCBusy : Reload(l)
         \/ \E secret \in Secrets, value \in {v1, Unset} : Rotate(secret, value)
    ELSE FALSE

MCSpec == Init /\ [][MCNext]_vars
=============================================================================
