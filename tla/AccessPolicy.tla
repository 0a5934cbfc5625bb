---------------------------- MODULE AccessPolicy ----------------------------
(***************************************************************************)
(* The compiled allow/deny policy of fast_gateway/access.py as operators   *)
(* on values: `rebuild` compiles a snapshot of the registry into a policy, *)
(* `allows` and `filter_tools` read one.                                   *)
(*                                                                         *)
(* A server name may not hold an underscore (_SERVER_NAME_PATTERN) and the *)
(* namespaced name of a tool is "<server name>_<bare name>", so the part   *)
(* before the first underscore is the only namespace a name can split to:  *)
(* a namespaced name IS the pair [namespace, bare].  A glob stands for the *)
(* set of bare names it matches.                                           *)
(***************************************************************************)
EXTENDS FiniteSets

CONSTANTS
    ServerIds,      \* ids the store may issue (uuid4 hex, never issued twice)
    Names,          \* server names, hence namespaces
    Bares,          \* tool names as the upstreams know them
    GroupNames,     \* names of groups
    Patterns,       \* globs, each the set of bare names it matches
    NoServer,       \* "no row": an id without a server, a group name without a group
    NoGroup         \* the unscoped endpoint: current_group is None

ASSUME PatternsAssumption == Patterns \subseteq SUBSET Bares

ServerRecord ==
    [name : Names, enabled : BOOLEAN, allow : SUBSET Patterns, deny : SUBSET Patterns]

GroupRecord ==
    [members : SUBSET ServerIds, allow : SUBSET Patterns, deny : SUBSET Patterns]

ASSUME NoServerAssumption == NoServer \notin ServerRecord /\ NoServer \notin GroupRecord

ASSUME NoGroupAssumption == NoGroup \notin GroupNames

Registry == [ServerIds -> ServerRecord \cup {NoServer}]
Groups   == [GroupNames -> GroupRecord \cup {NoServer}]
Tool     == [namespace : Names, bare : Bares]

Registered(servers) == {i \in ServerIds : servers[i] # NoServer}

Enabled(servers) == {i \in Registered(servers) : servers[i].enabled}

(* The UNIQUE constraint on servers.name. *)
UniqueNames(servers) ==
    \A i, j \in Registered(servers) : servers[i].name = servers[j].name => i = j

-----------------------------------------------------------------------------
(* Rules *)

MatchesAny(bare, patterns) == \E p \in patterns : bare \in p

(* Fault: the allow list is consulted first. *)
BugRuleAllows(bare, allow, deny) ==
    \/ MatchesAny(bare, allow)
    \/ allow = {} /\ ~MatchesAny(bare, deny)

(* Deny wins; an empty allow list allows everything. *)
RuleAllows(bare, allow, deny) ==
    /\ ~MatchesAny(bare, deny)
    /\ allow = {} \/ MatchesAny(bare, allow)

-----------------------------------------------------------------------------
(* rebuild: a snapshot of the registry compiled to rules by namespace.     *)

Rule == [allow : SUBSET Patterns, deny : SUBSET Patterns]
GroupRule == [members : SUBSET Names, allow : SUBSET Patterns, deny : SUBSET Patterns]

NamesOf(servers) == {servers[i].name : i \in Registered(servers)}

OwnerOf(servers, n) == CHOOSE i \in Registered(servers) : servers[i].name = n

ServerRules(servers) ==
    [n \in NamesOf(servers) |->
        [allow |-> servers[OwnerOf(servers, n)].allow,
         deny  |-> servers[OwnerOf(servers, n)].deny]]

(* Member ids that name no server are left out of the compiled group. *)
MemberNamespaces(servers, group) ==
    {servers[i].name : i \in group.members \cap Registered(servers)}

GroupRules(servers, groups) ==
    [g \in {h \in GroupNames : groups[h] # NoServer} |->
        [members |-> MemberNamespaces(servers, groups[g]),
         allow   |-> groups[g].allow,
         deny    |-> groups[g].deny]]

Compile(servers, groups) ==
    [servers |-> ServerRules(servers), groups |-> GroupRules(servers, groups)]

(* An AccessPolicy before its first rebuild. *)
EmptyPolicy == [servers |-> << >>, groups |-> << >>]

-----------------------------------------------------------------------------
(* split_namespace finds a namespace only for a registered server.         *)
IsNamespaced(policy, tool) == tool.namespace \in DOMAIN policy.servers

(* A name without a known namespace is always allowed.  A group's rules    *)
(* stack on the server's; an unknown group allows nothing.                 *)
Allows(policy, tool, group) ==
    IsNamespaced(policy, tool) =>
        /\ RuleAllows(tool.bare, policy.servers[tool.namespace].allow,
                                 policy.servers[tool.namespace].deny)
        /\ group # NoGroup =>
            /\ group \in DOMAIN policy.groups
            /\ tool.namespace \in policy.groups[group].members
            /\ RuleAllows(tool.bare, policy.groups[group].allow, policy.groups[group].deny)

FilterTools(policy, tools, group) == {t \in tools : Allows(policy, t, group)}
=============================================================================
