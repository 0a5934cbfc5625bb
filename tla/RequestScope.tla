---------------------------- MODULE RequestScope ----------------------------
(***************************************************************************)
(* What a request carries with it: the group it is scoped to, whether the  *)
(* whole catalog is listed, and its runtime variables.  All three are      *)
(* context variables that every entry point binds and restores (routing,   *)
(* plugins/tools_api, Gateway.list_tools and call_tool), that the access   *)
(* policy and the meta-tools read, and that connect.py resolves ${var:..}  *)
(* references with.                                                        *)
(*                                                                         *)
(* A task serves one request after another.  Requests nest: invoke_tool    *)
(* calls another tool through an in-process client, and a hook or a tool   *)
(* of the host may use Gateway.call_tool.  A nested client runs in a copy  *)
(* of the context, which reads as the context itself because every scope   *)
(* restores what it bound.  A text is the set of references it embeds.     *)
(*                                                                         *)
(* The MCP endpoint (Gateway.mcp_app) keeps sessions: the request that     *)
(* opens one starts the session's server in a copy of its own context, and *)
(* there every later request of the session is handled, whatever scope was *)
(* bound around the HTTP request that carried it.                          *)
(***************************************************************************)
EXTENDS Search

CONSTANTS
    Tasks,          \* asyncio tasks, each serving one request after another
    EmptyName,      \* the group "", a name _GROUP_NAME_PATTERN never admits
    Vars,           \* runtime variables
    LiftedVars,     \* header_vars: variables lifted from headers of the request
    Secrets,        \* ${env:..} and ${file:..} references
    Values, Unset,  \* what a reference may stand for, or nothing
    Headers,        \* names of headers
    Verbatim,       \* what a pre_mcp_connect hook puts into a header
    StaticHeaders,  \* static_headers of the server of each name
    Requests,       \* what callers ask for
    Sessions, NoSession,    \* sessions of the MCP endpoint; none
    Registries,     \* registries and catalogs the gateway may have loaded
    Rankings,       \* orders in which the store may rank what matches a query
    Limits,         \* how many hits a search may ask for
    MaxDepth,       \* bound: requests within requests
    ConnectHooks    \* how many pre_mcp_connect hooks there are

Entries == {"mcp", "group", "rest", "local", "invoke"}
Http    == {"mcp", "group"}
Ops     == {"list", "describe", "call", "search", "invoke", "open"}

Bindings == [Vars -> Values \cup {Unset}]
NoVars   == [v \in Vars |-> Unset]

(* For entry "group", NoGroup is a path that ends with the group segment.  *)
(* To "open" is to initialize a session.                                   *)
Request ==
    [entry : Entries, op : Ops, group : GroupNames \cup {NoGroup}, vars : Bindings, tool : Tool]

Context == [group : GroupNames \cup {NoGroup}, full : BOOLEAN, vars : Bindings]

Loaded == [servers : Registry, groups : Groups, catalog : SUBSET Tool]

References == Vars \cup Secrets

(* What each entry point has no way to say. *)
FitsEntry(r) ==
    /\ r.entry = "mcp" => r.group = NoGroup
    /\ r.entry = "rest" => r.vars = NoVars /\ r.op \in {"list", "describe", "call"}
    /\ r.entry = "local" => r.op \in {"list", "call", "search", "invoke"}
    /\ r.entry = "invoke" => r.group = NoGroup /\ r.vars = NoVars /\ r.op = "call"
    /\ r.op = "describe" => r.entry = "rest"
    /\ r.op = "open" => r.entry \in Http

ASSUME ScopeAssumption ==
    /\ EmptyName \in GroupNames
    /\ LiftedVars \subseteq Vars
    /\ Vars \cap Secrets = {}
    /\ Unset \notin Values
    /\ MaxDepth \in Nat \ {0} /\ ConnectHooks \in Nat
    /\ \A n \in Names : /\ DOMAIN StaticHeaders[n] \subseteq Headers
                        /\ \A h \in DOMAIN StaticHeaders[n] :
                                StaticHeaders[n][h] \subseteq References
    /\ \A r \in Requests : r \in Request /\ FitsEntry(r)
    /\ Rankings \subseteq Seq(Tool) /\ Limits \subseteq Int
    /\ \A l \in Registries :
            l \in Loaded /\ UniqueNames(l.servers) /\ l.groups[EmptyName] = NoServer

VARIABLES
    servers, groups, catalog,   \* the registry last reloaded, and the catalog
    policy,     \* compiled from them
    listMode,   \* create_gateway's list_mode, fixed
    environ,    \* what the secret references stand for now
    sessions,   \* those that are open: who opened them, in what context
    context,    \* the context variables of each task
    depth,      \* how many requests a task is in
    frames      \* those requests, the innermost last

loaded == <<servers, groups, catalog, policy, listMode>>
vars == <<servers, groups, catalog, policy, listMode, environ, sessions, context, depth, frames>>

Default == [group |-> NoGroup, full |-> FALSE, vars |-> NoVars]

Stages   == {"entered", "fetched", "judged", "connecting", "done"}
Outcomes == {"none", "listed", "missing", "refused", "sent", "failed"}

Resolved == UNION {[T -> Values] : T \in SUBSET References}
Sent     == UNION {[H -> Resolved \cup {Verbatim}] : H \in SUBSET Headers}

Session == [opener : Request, context : Context]

(* scope is the request whose scope it runs in: itself, or the one that    *)
(* opened its session.  saved is the token of that scope: what the         *)
(* variables held before it.                                               *)
Frame ==
    [request : Request, scope : Request, saved : Context, stage : Stages, outcome : Outcomes,
     rows : SUBSET Tool, turn : Nat, headers : Sent]

Opened(r, scope, c) ==
    [request |-> r, scope |-> scope, saved |-> c, stage |-> "entered", outcome |-> "none",
     rows |-> {}, turn |-> 0, headers |-> << >>]

NoFrame == "no frame"

TypeOK ==
    /\ servers \in Registry /\ UniqueNames(servers)
    /\ groups \in Groups /\ groups[EmptyName] = NoServer
    /\ catalog \in SUBSET Tool
    /\ policy = Compile(servers, groups)
    /\ listMode \in {"all", "meta"}
    /\ environ \in [Secrets -> Values \cup {Unset}]
    /\ sessions \in [Sessions -> Session \cup {NoSession}]
    /\ context \in [Tasks -> Context]
    /\ depth \in [Tasks -> 0..MaxDepth]
    /\ frames \in [Tasks -> [1..MaxDepth -> Frame \cup {NoFrame}]]
    /\ \A t \in Tasks : \A k \in 1..depth[t] : frames[t][k] \in Frame

Init ==
    /\ \E l \in Registries :
        /\ servers = l.servers /\ groups = l.groups /\ catalog = l.catalog
        /\ policy = Compile(l.servers, l.groups)
    /\ listMode \in {"all", "meta"}
    /\ environ \in [Secrets -> Values \cup {Unset}]
    /\ sessions = [s \in Sessions |-> NoSession]
    /\ context = [t \in Tasks |-> Default]
    /\ depth = [t \in Tasks |-> 0]
    /\ frames = [t \in Tasks |-> [k \in 1..MaxDepth |-> NoFrame]]

-----------------------------------------------------------------------------
(* Binding *)

(* runtime_vars: the values given merge over those bound already. *)
Bind(outer, values) == [v \in Vars |-> IF values[v] # Unset THEN values[v] ELSE outer[v]]

(* RuntimeVarMiddleware binds what the mapped headers of the request hold. *)
Lifted(values) == [v \in Vars |-> IF v \in LiftedVars THEN values[v] ELSE Unset]

(* split_group_path: nothing after the group segment is the group "".      *)
GroupOfPath(rest) == IF rest = NoGroup THEN EmptyName ELSE rest

(* GroupDispatch, in front of the request app. *)
GroupScope(c, r) ==
    [c EXCEPT !.group = GroupOfPath(r.group), !.vars = Bind(@, Lifted(r.vars))]

(* The tools API: its listings ask for the full catalog. *)
RestScope(c, r) == [c EXCEPT !.group = r.group, !.full = @ \/ r.op # "call"]

(* Gateway.list_tools and Gateway.call_tool. *)
LocalScope(c, r) == [c EXCEPT !.group = r.group, !.vars = Bind(@, r.vars)]

(* The context inside the scope of a request. *)
Scoped(c, r) ==
    CASE r.entry = "mcp"   -> [c EXCEPT !.vars = Bind(@, Lifted(r.vars))]
      [] r.entry = "group" -> GroupScope(c, r)
      [] r.entry = "rest"  -> RestScope(c, r)
      [] r.entry = "local" -> LocalScope(c, r)
      [] OTHER             -> c

-----------------------------------------------------------------------------
(* The steps of the innermost request of a task. *)

Top(t) == frames[t][depth[t]]

In(t, stage) == depth[t] > 0 /\ Top(t).stage = stage

Group(t) == context[t].group

Update(t, f) ==
    /\ frames' = [frames EXCEPT ![t][depth[t]] = f]
    /\ UNCHANGED <<loaded, environ, sessions, context, depth>>

Finish(t, outcome) == Update(t, [Top(t) EXCEPT !.stage = "done", !.outcome = outcome])

(* Over HTTP only the outermost request comes; within one that was judged, *)
(* a hook may come back in-process, and invoke_tool makes its call.        *)
Entered(t, r) ==
    IF depth[t] = 0
    THEN r.entry # "invoke"
    ELSE /\ In(t, "judged")
         /\ \/ r.entry = "local"
            \/ /\ r.entry = "invoke"
               /\ Top(t).request.op = "invoke"
               /\ r.tool = Top(t).request.tool

(* r runs in the scope of a request, which leaves it the context c. *)
Push(t, r, scope, c) ==
    /\ depth[t] < MaxDepth
    /\ Entered(t, r)
    /\ depth' = [depth EXCEPT ![t] = @ + 1]
    /\ frames' = [frames EXCEPT ![t][depth[t] + 1] = Opened(r, scope, context[t])]
    /\ context' = [context EXCEPT ![t] = c]
    /\ UNCHANGED <<loaded, environ, sessions>>

Enter(t, r) ==
    /\ r.entry \notin Http
    /\ Push(t, r, r, Scoped(context[t], r))

(* A session is opened within the scope of the request that asks for it.   *)
OpenSession(t, s, r) ==
    /\ depth[t] = 0
    /\ r.op = "open"
    /\ sessions[s] = NoSession
    /\ sessions' = [sessions EXCEPT ![s] = [opener |-> r, context |-> Scoped(context[t], r)]]
    /\ UNCHANGED <<loaded, environ, context, depth, frames>>

(* A request of an open session is handled where that was opened.  What    *)
(* its own headers and path bind, GroupDispatch and RuntimeVarMiddleware   *)
(* bind in the task that carries it, which no one reads.                   *)
Continue(t, s, r) ==
    /\ r.entry \in Http /\ r.op # "open"
    /\ sessions[s] # NoSession
    /\ Push(t, r, sessions[s].opener, sessions[s].context)

(* The client ends it, or its server. *)
EndSession(s) ==
    /\ sessions[s] # NoSession
    /\ sessions' = [sessions EXCEPT ![s] = NoSession]
    /\ UNCHANGED <<loaded, environ, context, depth, frames>>

(* Fault: the policy is asked before the group is looked at. *)
BugJudge(t) ==
    /\ In(t, "entered")
    /\ Top(t).request.op \in {"call", "search", "invoke"}
    /\ IF Top(t).request.op # "call" \/ Allows(policy, Top(t).request.tool, NoGroup)
       THEN Update(t, [Top(t) EXCEPT !.stage = "judged"])
       ELSE Finish(t, "refused")

(* on_call_tool; a meta-tool has no namespace and is always allowed. *)
Judge(t) ==
    /\ In(t, "entered")
    /\ Top(t).request.op \in {"call", "search", "invoke"}
    /\ IF Top(t).request.op # "call" \/ Allows(policy, Top(t).request.tool, Group(t))
       THEN Update(t, [Top(t) EXCEPT !.stage = "judged"])
       ELSE Finish(t, "refused")

(* Fault: list_mode is looked at, not who asks. *)
BugListing(t) == IF listMode = "meta" THEN {} ELSE catalog

(* The upstream tools tools/list starts from: _catalog_tools. *)
Listing(t) == IF listMode = "meta" /\ ~context[t].full THEN {} ELSE catalog

(* The store is read, by a listing or by a meta-tool that searches it.     *)
Fetch(t) ==
    \/ /\ In(t, "entered")
       /\ Top(t).request.op \in {"list", "describe"}
       /\ Update(t, [Top(t) EXCEPT !.stage = "fetched", !.rows = Listing(t)])
    \/ /\ In(t, "judged")
       /\ Top(t).request.op = "search"
       /\ Update(t, [Top(t) EXCEPT !.stage = "fetched", !.rows = catalog])

(* Then filtered, under the policy of that moment; REST's describe looks   *)
(* the tool up in what is left.                                            *)
Filter(t) ==
    /\ In(t, "fetched")
    /\ LET shown == FilterTools(policy, Top(t).rows, Group(t))
           found == Top(t).request.op = "describe" => Top(t).request.tool \in shown
       IN  Update(t, [Top(t) EXCEPT !.stage = "done", !.rows = shown,
                                    !.outcome = IF found THEN "listed" ELSE "missing"])

LookUp(t, ref) == IF ref \in Vars THEN context[t].vars[ref] ELSE environ[ref]

Resolve(t, headers) == [h \in DOMAIN headers |-> [ref \in headers[h] |-> LookUp(t, ref)]]

(* Fault: only the environment and the files are checked. *)
BugResolvable(t, headers) ==
    \A h \in DOMAIN headers : \A ref \in headers[h] \cap Secrets : LookUp(t, ref) # Unset

Resolvable(t, headers) ==
    \A h \in DOMAIN headers : \A ref \in headers[h] : LookUp(t, ref) # Unset

(* The client factory: static headers are resolved or the call fails.      *)
Connect(t) ==
    /\ In(t, "judged")
    /\ Top(t).request.op = "call"
    /\ LET static == StaticHeaders[Top(t).request.tool.namespace]
       IN  IF Resolvable(t, static)
           THEN Update(t, [Top(t) EXCEPT !.stage = "connecting", !.headers = Resolve(t, static)])
           ELSE Finish(t, "failed")

Layered(headers, given) ==
    [h \in DOMAIN headers \cup given |-> IF h \in given THEN Verbatim ELSE headers[h]]

(* A pre_mcp_connect hook layers its headers on top, verbatim. *)
RunConnectHook(t, given) ==
    /\ In(t, "connecting")
    /\ Top(t).turn < ConnectHooks
    /\ Update(t, [Top(t) EXCEPT !.turn = @ + 1, !.headers = Layered(@, given)])

Send(t) ==
    /\ In(t, "connecting")
    /\ Top(t).turn = ConnectHooks
    /\ Finish(t, "sent")

(* A hook, the store or the upstream raises, or the caller goes away.      *)
Abort(t) ==
    /\ \E stage \in Stages \ {"done"} : In(t, stage)
    /\ Finish(t, "failed")

(* Fault: a group is only unset by those who set one. *)
BugLeave(t) ==
    /\ In(t, "done")
    /\ depth' = [depth EXCEPT ![t] = @ - 1]
    /\ context' = [context EXCEPT ![t] =
                     IF Top(t).request.group = NoGroup THEN @ ELSE Top(t).saved]
    /\ frames' = [frames EXCEPT ![t][depth[t]] = NoFrame]
    /\ UNCHANGED <<loaded, environ, sessions>>

(* "finally" resets every variable the scope set, whatever the outcome.    *)
(* invoke_tool returns what its call returned.                             *)
Leave(t) ==
    /\ In(t, "done")
    /\ depth' = [depth EXCEPT ![t] = @ - 1]
    /\ context' = [context EXCEPT ![t] = Top(t).saved]
    /\ frames' = [frames EXCEPT ![t] = [k \in 1..MaxDepth |->
            CASE k = depth[t] -> NoFrame
              [] k = depth[t] - 1 /\ Top(t).request.entry = "invoke" ->
                    [frames[t][k] EXCEPT !.stage = "done", !.outcome = Top(t).outcome]
              [] OTHER -> frames[t][k]]]
    /\ UNCHANGED <<loaded, environ, sessions>>

-----------------------------------------------------------------------------
(* Around the requests *)

(* The admin writes the registry and reloads: GatewayBuilder looks inside. *)
Reload(l) ==
    /\ servers' = l.servers
    /\ groups' = l.groups
    /\ catalog' = l.catalog
    /\ policy' = Compile(l.servers, l.groups)
    /\ UNCHANGED <<listMode, environ, sessions, context, depth, frames>>

(* A secret is rotated, or its file or variable goes. *)
Rotate(secret, value) ==
    /\ environ' = [environ EXCEPT ![secret] = value]
    /\ UNCHANGED <<loaded, sessions, context, depth, frames>>

Step(t) ==
    \/ \E r \in Requests : Enter(t, r)
    \/ \E s \in Sessions, r \in Requests : OpenSession(t, s, r) \/ Continue(t, s, r)
    \/ Judge(t) \/ Fetch(t) \/ Filter(t)
    \/ Connect(t) \/ (\E given \in SUBSET Headers : RunConnectHook(t, given)) \/ Send(t)
    \/ Abort(t) \/ Leave(t)

Next ==
    \/ \E t \in Tasks : Step(t)
    \/ \E s \in Sessions : EndSession(s)
    \/ \E l \in Registries : Reload(l)
    \/ \E secret \in Secrets, value \in Values \cup {Unset} : Rotate(secret, value)

Spec == Init /\ [][Next]_vars

-----------------------------------------------------------------------------
(* Properties *)

(* What the registry says of a tool, asked without a compiled policy.      *)
Passes(bare, record) ==
    /\ \A p \in record.deny : bare \notin p
    /\ record.allow # {} => \E p \in record.allow : bare \in p

Permitted(records, groupRecords, tool, group) ==
    \A i \in ServerIds :
        records[i] # NoServer /\ records[i].name = tool.namespace =>
            /\ Passes(tool.bare, records[i])
            /\ group # NoGroup => /\ groupRecords[group] # NoServer
                                  /\ i \in groupRecords[group].members
                                  /\ Passes(tool.bare, groupRecords[group])

(* The compiled policy allows exactly the tools the registry permits: deny *)
(* wins over allow, group rules only stack on the server's, and members    *)
(* that name no server give nothing (AccessPolicy.rebuild and allows).     *)
AgreesWithRegistry ==
    \A tool \in Tool, g \in GroupNames \cup {NoGroup} :
        Allows(policy, tool, g) <=> Permitted(servers, groups, tool, g)

Latest(S) == CHOOSE j \in S : \A i \in S : i <= j

(* The requests, of the first k of a task's frames, that name a group:     *)
(* invoke_tool calls on behalf of its caller.                              *)
Naming(stack, k) == {j \in 1..k : stack[j].scope.entry # "invoke"}

(* The group the caller of the k-th request named, the full mount none: of *)
(* a session's request, the path its session was opened by.                *)
AskedGroup(stack, k) ==
    IF Naming(stack, k) = {} THEN NoGroup
    ELSE LET r == stack[Latest(Naming(stack, k))].scope
         IN  IF r.entry = "group" THEN GroupOfPath(r.group) ELSE r.group

Binding(stack, k, v) ==
    {j \in 1..k : LET r == stack[j].scope
                  IN  r.vars[v] # Unset /\ (r.entry \in Http => v \in LiftedVars)}

(* The value its caller, or who called on its behalf, bound to a variable, *)
(* of a session's requests with the headers that opened it.                *)
OwnValue(stack, k, v) ==
    IF Binding(stack, k, v) = {} THEN Unset
    ELSE stack[Latest(Binding(stack, k, v))].scope.vars[v]

WantsAll(stack, k) ==
    \E j \in 1..k : stack[j].scope.entry = "rest" /\ stack[j].scope.op # "call"

Reaches(t, stage) ==
    /\ depth[t] > 0 /\ depth'[t] = depth[t]
    /\ ~In(t, stage)
    /\ Top(t)'.stage = stage

(* Whatever requests a task has served, nested, failed or abandoned, its   *)
(* context variables are those of the requests it is in, and within a      *)
(* session those of the request that opened it: nothing reaches a request  *)
(* from another session, from REST or an in-process caller, or from what   *)
(* its task served before.  (Within a session "per request" is "per        *)
(* session": README section 5.)                                            *)
ScopesNest ==
    \A t \in Tasks :
        /\ context[t].group = AskedGroup(frames[t], depth[t])
        /\ context[t].full = WantsAll(frames[t], depth[t])
        /\ \A v \in Vars : context[t].vars[v] = OwnValue(frames[t], depth[t], v)

(* A call gets past the gateway only if the registry, as last loaded,      *)
(* permits it to the group its caller named, however it came in: by REST,  *)
(* in-process, through invoke_tool, or in a session, then to the group of  *)
(* the mount the session was opened by.                                    *)
CallsAreGoverned ==
    [][\A t \in Tasks :
        Reaches(t, "judged") /\ Top(t).request.op = "call" =>
            Permitted(servers, groups, Top(t).request.tool, AskedGroup(frames[t], depth[t]))]_vars

(* A listing, a search and REST's describe show the tools the registry     *)
(* permits to the group their caller named, or opened its session by, of   *)
(* the rows their surface starts from: REST and search the whole catalog,  *)
(* an MCP listing none of it under list_mode "meta".                       *)
ViewIsTheCallers ==
    [][\A t \in Tasks :
        /\ Reaches(t, "fetched") =>
            Top(t)'.rows = IF listMode = "all" \/ Top(t).request.op = "search"
                              \/ WantsAll(frames[t], depth[t])
                           THEN catalog ELSE {}
        /\ Reaches(t, "done") /\ Top(t)'.outcome = "listed" =>
            Top(t)'.rows = {tool \in Top(t).rows :
                              Permitted(servers, groups, tool, AskedGroup(frames[t], depth[t]))}]_vars

(* search_tools returns the permitted matches of the first _CANDIDATE_CAP, *)
(* the best ranked first and as many as asked for: a tool the caller may   *)
(* not see takes no place in the answer.  describe_tool knows each hit.    *)
SearchFindsPermitted ==
    \A ranked \in Rankings, g \in GroupNames \cup {NoGroup}, limit \in Limits :
        LET hits  == SearchTools(policy, ranked, limit, g)
            may   == {i \in DOMAIN ranked : i <= CandidateCap
                                             /\ Permitted(servers, groups, ranked[i], g)}
            first == {i \in may : Cardinality({k \in may : k < i}) < Capped(limit)}
        IN  /\ Len(hits) = Cardinality(first)
            /\ \A i \in first : hits[Cardinality({k \in first : k <= i})] = ranked[i]
            /\ \A i \in DOMAIN hits :
                    /\ Permitted(servers, groups, hits[i], g)
                    /\ Describes(policy, {ranked[k] : k \in DOMAIN ranked}, hits[i], g)

(* An upstream is sent for every ${var:..} its headers embed the value its *)
(* caller bound, in a session when it opened it, never another session's   *)
(* or another caller's, and some value for every secret: a reference that  *)
(* cannot be resolved fails the call and is never sent as a placeholder.   *)
OwnVariables ==
    \A t \in Tasks : \A k \in 1..depth[t] :
        frames[t][k].outcome = "sent" /\ frames[t][k].request.op = "call" =>
            LET static == StaticHeaders[frames[t][k].request.tool.namespace]
                sent   == frames[t][k].headers
            IN  \A h \in DOMAIN static :
                    \/ sent[h] = Verbatim
                    \/ \A ref \in static[h] :
                        /\ ref \in DOMAIN sent[h]
                        /\ sent[h][ref] \in Values
                        /\ ref \in Vars => sent[h][ref] = OwnValue(frames[t], k, ref)
=============================================================================
