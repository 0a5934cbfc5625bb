------------------------- MODULE RequestScopeProofs -------------------------
(***************************************************************************)
(* Theorems about RequestScope, for any registry, globs, tools, tasks and  *)
(* requests: the compiled policy says what the registry says, and it is    *)
(* asked about the group the caller named, however requests nest.          *)
(***************************************************************************)
EXTENDS RequestScope, TLAPS, WellFoundedInduction, FiniteSetTheorems, SequenceTheorems

(* The rules compiled for a namespace are those of the server that holds   *)
(* the name: names are unique, so there is no other.                       *)
LEMMA RulesOfOwner ==
    ASSUME NEW records \in Registry, UniqueNames(records),
           NEW i \in Registered(records)
    PROVE  /\ records[i].name \in DOMAIN ServerRules(records)
           /\ ServerRules(records)[records[i].name] =
                [allow |-> records[i].allow, deny |-> records[i].deny]
  <1> DEFINE n == records[i].name
             owner == OwnerOf(records, n)
  <1>1. n \in NamesOf(records)
    BY DEF NamesOf
  <1>2. owner \in Registered(records) /\ records[owner].name = n
    BY DEF OwnerOf
  <1>3. owner = i
    BY <1>2 DEF UniqueNames
  <1> QED
    BY <1>1, <1>3 DEF ServerRules

(* _rule_allows reads a record's allow and deny lists as they are meant.   *)
LEMMA RulePasses ==
    ASSUME NEW record, NEW bare
    PROVE  RuleAllows(bare, record.allow, record.deny) <=> Passes(bare, record)
  BY DEF RuleAllows, MatchesAny, Passes

(* A server's namespace is among a compiled group's members exactly when   *)
(* the group lists its id.                                                 *)
LEMMA MembersById ==
    ASSUME NEW records \in Registry, UniqueNames(records),
           NEW i \in Registered(records), NEW group \in GroupRecord
    PROVE  records[i].name \in MemberNamespaces(records, group) <=> i \in group.members
  BY DEF MemberNamespaces, UniqueNames, Registered

(* AccessPolicy.allows on a compiled policy agrees with the registry, for  *)
(* every tool whose namespace a server holds and for every other.          *)
LEMMA CompiledAgrees ==
    ASSUME NEW records \in Registry, UniqueNames(records), NEW groupRecords \in Groups,
           NEW tool \in Tool, NEW g \in GroupNames \cup {NoGroup}
    PROVE  Allows(Compile(records, groupRecords), tool, g)
                <=> Permitted(records, groupRecords, tool, g)
  <1> DEFINE compiled == Compile(records, groupRecords)
  <1>1. compiled.servers = ServerRules(records)
        /\ compiled.groups = GroupRules(records, groupRecords)
    BY DEF Compile
  <1>2. DOMAIN ServerRules(records) = NamesOf(records)
    BY DEF ServerRules
  <1>3. CASE tool.namespace \notin NamesOf(records)
    <2>1. ~IsNamespaced(compiled, tool)
      BY <1>1, <1>2, <1>3 DEF IsNamespaced
    <2>2. \A i \in ServerIds : records[i] = NoServer \/ records[i].name # tool.namespace
      BY <1>3 DEF NamesOf, Registered
    <2> QED
      BY <2>1, <2>2 DEF Allows, Permitted
  <1>4. CASE tool.namespace \in NamesOf(records)
    <2>1. PICK i \in Registered(records) : records[i].name = tool.namespace
      BY <1>4 DEF NamesOf
    <2>2. \A j \in Registered(records) : records[j].name = tool.namespace => j = i
      BY <2>1 DEF UniqueNames
    <2>3. IsNamespaced(compiled, tool)
      BY <1>1, <1>2, <1>4 DEF IsNamespaced
    <2>4. RuleAllows(tool.bare, compiled.servers[tool.namespace].allow,
                               compiled.servers[tool.namespace].deny)
            <=> Passes(tool.bare, records[i])
      <3>1. compiled.servers[tool.namespace] =
              [allow |-> records[i].allow, deny |-> records[i].deny]
        BY <1>1, <2>1, RulesOfOwner
      <3> QED
        BY <3>1, RulePasses
    <2>5. ASSUME g # NoGroup
          PROVE  (/\ g \in DOMAIN compiled.groups
                  /\ tool.namespace \in compiled.groups[g].members
                  /\ RuleAllows(tool.bare, compiled.groups[g].allow, compiled.groups[g].deny))
                 <=>
                 (/\ groupRecords[g] # NoServer
                  /\ i \in groupRecords[g].members
                  /\ Passes(tool.bare, groupRecords[g]))
      <3>1. g \in GroupNames /\ (g \in DOMAIN compiled.groups <=> groupRecords[g] # NoServer)
        BY <1>1, <2>5 DEF GroupRules
      <3>2. ASSUME groupRecords[g] # NoServer
            PROVE  /\ tool.namespace \in compiled.groups[g].members
                        <=> i \in groupRecords[g].members
                   /\ RuleAllows(tool.bare, compiled.groups[g].allow, compiled.groups[g].deny)
                        <=> Passes(tool.bare, groupRecords[g])
        <4>1. compiled.groups[g] = [members |-> MemberNamespaces(records, groupRecords[g]),
                                    allow |-> groupRecords[g].allow,
                                    deny |-> groupRecords[g].deny]
          BY <1>1, <3>1, <3>2 DEF GroupRules
        <4>2. groupRecords[g] \in GroupRecord
          BY <3>1, <3>2 DEF Groups
        <4> QED
          BY <2>1, <4>1, <4>2, MembersById, RulePasses
      <3> QED
        BY <3>1, <3>2
    <2>6. Permitted(records, groupRecords, tool, g)
            <=> /\ Passes(tool.bare, records[i])
                /\ g # NoGroup => /\ groupRecords[g] # NoServer
                                  /\ i \in groupRecords[g].members
                                  /\ Passes(tool.bare, groupRecords[g])
      BY <2>1, <2>2 DEF Permitted, Registered
    <2> QED
      BY <2>3, <2>4, <2>5, <2>6 DEF Allows
  <1> QED
    BY <1>3, <1>4

(* Whatever a policy holds, a group endpoint allows no tool that the       *)
(* unscoped endpoint does not.                                             *)
THEOREM GroupsNarrow ==
    ASSUME NEW rules, NEW tool, NEW g, Allows(rules, tool, g)
    PROVE  Allows(rules, tool, NoGroup)
  BY DEF Allows

-----------------------------------------------------------------------------
(* Types *)

(* Every scope leaves the context variables of their types. *)
LEMMA ScopedType ==
    ASSUME NEW c \in Context, NEW r \in Request
    PROVE  Scoped(c, r) \in Context
  <1> DEFINE G == GroupNames \cup {NoGroup}
             fuller == c.full \/ r.op # "call"
             lifted == Bind(c.vars, Lifted(r.vars))
             merged == Bind(c.vars, r.vars)
  <1>1. /\ c.group \in G /\ c.full \in BOOLEAN /\ c.vars \in Bindings
        /\ c = [group |-> c.group, full |-> c.full, vars |-> c.vars]
        /\ r.group \in G /\ r.vars \in Bindings
    BY DEF Context, Request
  <1>2. \A f, h \in Bindings : Bind(f, h) \in Bindings
    BY DEF Bind, Bindings
  <1>3. \A f \in Bindings : Lifted(f) \in Bindings
    BY DEF Lifted, Bindings
  <1>4. GroupOfPath(r.group) \in G
    BY <1>1, ScopeAssumption DEF GroupOfPath
  <1>5. lifted \in Bindings /\ merged \in Bindings
    BY <1>1, <1>2, <1>3
  <1>6. fuller \in BOOLEAN
    OBVIOUS
  <1> HIDE DEF lifted, merged, fuller
  <1>7. \/ Scoped(c, r) = [group |-> c.group, full |-> c.full, vars |-> lifted]
        \/ Scoped(c, r) = [group |-> GroupOfPath(r.group), full |-> c.full, vars |-> lifted]
        \/ Scoped(c, r) = [group |-> r.group, full |-> fuller, vars |-> c.vars]
        \/ Scoped(c, r) = [group |-> r.group, full |-> c.full, vars |-> merged]
        \/ Scoped(c, r) = c
    BY <1>1 DEF Scoped, GroupScope, RestScope, LocalScope, lifted, merged, fuller
  <1>8. \A g \in G, b \in BOOLEAN, f \in Bindings :
            [group |-> g, full |-> b, vars |-> f] \in Context
    BY DEF Context
  <1> QED
    BY <1>1, <1>4, <1>5, <1>6, <1>7, <1>8

(* The innermost request of a task is one. *)
LEMMA TopType ==
    ASSUME TypeOK, NEW t \in Tasks, depth[t] > 0
    PROVE  /\ depth[t] \in 1..MaxDepth
           /\ Top(t) \in Frame
           /\ Top(t).request.tool \in Tool
  <1>1. depth[t] \in 0..MaxDepth /\ depth[t] \in 1..depth[t]
    BY ScopeAssumption DEF TypeOK
  <1>2. Top(t) \in Frame
    BY <1>1 DEF TypeOK, Top
  <1> QED
    BY <1>1, <1>2, ScopeAssumption DEF Frame, Request

(* What a reference stands for. *)
LEMMA LookUpType ==
    ASSUME TypeOK, NEW t \in Tasks, NEW ref \in References
    PROVE  LookUp(t, ref) \in Values \cup {Unset}
  <1>1. context[t].vars \in Bindings
    BY DEF TypeOK, Context
  <1>2. environ \in [Secrets -> Values \cup {Unset}]
    BY DEF TypeOK
  <1> QED
    BY <1>1, <1>2 DEF Bindings, LookUp, References

(* Resolved headers hold a value for every reference. *)
LEMMA ResolveType ==
    ASSUME TypeOK, NEW t \in Tasks, NEW n \in Names, Resolvable(t, StaticHeaders[n])
    PROVE  Resolve(t, StaticHeaders[n]) \in Sent
  <1> DEFINE static == StaticHeaders[n]
             H == DOMAIN static
  <1>1. H \in SUBSET Headers /\ \A h \in H : static[h] \subseteq References
    BY ScopeAssumption
  <1>2. ASSUME NEW h \in H
        PROVE  [ref \in static[h] |-> LookUp(t, ref)] \in Resolved
    <2>1. \A ref \in static[h] : LookUp(t, ref) \in Values
      BY <1>1, LookUpType DEF Resolvable
    <2>2. [ref \in static[h] |-> LookUp(t, ref)] \in [static[h] -> Values]
      BY <2>1
    <2> QED
      BY <1>1, <2>2 DEF Resolved
  <1>3. Resolve(t, static) \in [H -> Resolved \cup {Verbatim}]
    BY <1>2 DEF Resolve
  <1> QED
    BY <1>1, <1>3 DEF Sent

LEMMA LayeredType ==
    ASSUME NEW headers \in Sent, NEW given \in SUBSET Headers
    PROVE  Layered(headers, given) \in Sent
  <1>1. PICK H \in SUBSET Headers : headers \in [H -> Resolved \cup {Verbatim}]
    BY DEF Sent
  <1> DEFINE new == [h \in H \cup given |-> IF h \in given THEN Verbatim ELSE headers[h]]
  <1>2. new \in [H \cup given -> Resolved \cup {Verbatim}]
    BY <1>1
  <1>3. H \cup given \in SUBSET Headers
    OBVIOUS
  <1>4. DOMAIN headers = H
    BY <1>1
  <1> QED
    BY <1>2, <1>3, <1>4 DEF Sent, Layered

-----------------------------------------------------------------------------
(* Every step of a request that neither opens nor leaves a scope changes   *)
(* its frame and nothing else, and neither what was asked, in whose scope, *)
(* nor what was saved.                                                     *)
Alike(f, g) == f.request = g.request /\ f.scope = g.scope

KeptBy(f) == {g \in Frame : Alike(g, f) /\ g.saved = f.saved}

Advance(t) == \E g \in KeptBy(Top(t)) : Update(t, g)

LEMMA Shape ==
    ASSUME TypeOK, NEW t \in Tasks, Step(t)
    PROVE  \/ \E r \in Requests : Enter(t, r)
           \/ \E s \in Sessions, r \in Requests : OpenSession(t, s, r) \/ Continue(t, s, r)
           \/ Leave(t)
           \/ depth[t] > 0 /\ Advance(t)
  <1> DEFINE f == Top(t)
  <1>1. ASSUME depth[t] > 0
        PROVE  /\ f \in Frame
               /\ f.stage \in Stages /\ f.outcome \in Outcomes /\ f.rows \in SUBSET Tool
               /\ f.turn \in Nat /\ f.headers \in Sent
    BY <1>1, TopType DEF Frame
  <1>2. ASSUME depth[t] > 0, NEW outcome \in Outcomes, Finish(t, outcome)
        PROVE  Advance(t)
    <2>1. "done" \in Stages
      BY DEF Stages
    <2>2. Update(t, [f EXCEPT !.stage = "done", !.outcome = outcome])
      BY <1>2 DEF Finish
    <2>3. [f EXCEPT !.stage = "done", !.outcome = outcome] \in KeptBy(f)
      BY <1>1, <1>2, <2>1 DEF Frame, KeptBy, Alike
    <2> QED
      BY <2>2, <2>3 DEF Advance
  <1>3. CASE Judge(t)
    <2>1. depth[t] > 0 /\ "judged" \in Stages /\ "refused" \in Outcomes
      BY <1>3 DEF Judge, In, Stages, Outcomes
    <2>2. \/ Update(t, [f EXCEPT !.stage = "judged"])
          \/ Finish(t, "refused")
      BY <1>3 DEF Judge
    <2>3. ASSUME Update(t, [f EXCEPT !.stage = "judged"])
          PROVE  Advance(t)
      <3>1. [f EXCEPT !.stage = "judged"] \in KeptBy(f)
        BY <1>1, <2>1 DEF Frame, KeptBy, Alike
      <3> QED
        BY <2>3, <3>1 DEF Advance
    <2> QED
      BY <1>2, <2>1, <2>2, <2>3
  <1>4. CASE Fetch(t)
    <2>1. depth[t] > 0 /\ "fetched" \in Stages
      BY <1>4 DEF Fetch, In, Stages
    <2>2. PICK rows \in SUBSET Tool :
              Update(t, [f EXCEPT !.stage = "fetched", !.rows = rows])
      BY <1>4 DEF Fetch, Listing, TypeOK
    <2> DEFINE g == [f EXCEPT !.stage = "fetched", !.rows = rows]
    <2>3. g \in KeptBy(f)
      BY <1>1, <2>1 DEF Frame, KeptBy, Alike
    <2>4. Update(t, g)
      BY <2>2
    <2> HIDE DEF g
    <2> QED
      BY <2>1, <2>3, <2>4 DEF Advance
  <1>5. CASE Filter(t)
    <2>1. depth[t] > 0 /\ "done" \in Stages /\ {"listed", "missing"} \subseteq Outcomes
      BY <1>5 DEF Filter, In, Stages, Outcomes
    <2>2. PICK rows \in SUBSET f.rows, outcome \in {"listed", "missing"} :
              Update(t, [f EXCEPT !.stage = "done", !.rows = rows, !.outcome = outcome])
      BY <1>5 DEF Filter, FilterTools
    <2>3. rows \in SUBSET Tool /\ outcome \in Outcomes
      BY <1>1, <2>1
    <2> DEFINE g == [f EXCEPT !.stage = "done", !.rows = rows, !.outcome = outcome]
    <2>4. g \in KeptBy(f)
      BY <1>1, <2>1, <2>3 DEF Frame, KeptBy, Alike
    <2>5. Update(t, g)
      BY <2>2
    <2> HIDE DEF g
    <2> QED
      BY <2>1, <2>4, <2>5 DEF Advance
  <1>6. CASE Connect(t)
    <2> DEFINE static == StaticHeaders[f.request.tool.namespace]
    <2>1. depth[t] > 0 /\ "connecting" \in Stages /\ "failed" \in Outcomes
      BY <1>6 DEF Connect, In, Stages, Outcomes
    <2>2. f.request.tool.namespace \in Names
      BY <2>1, TopType DEF Tool
    <2>3. CASE Resolvable(t, static)
      <3>1. Resolve(t, static) \in Sent
        BY <2>2, <2>3, ResolveType
      <3>2. Update(t, [f EXCEPT !.stage = "connecting", !.headers = Resolve(t, static)])
        BY <1>6, <2>3 DEF Connect
      <3> DEFINE resolved == Resolve(t, static)
                 g == [f EXCEPT !.stage = "connecting", !.headers = resolved]
      <3>3. Update(t, g)
        BY <3>2
      <3>4. resolved \in Sent
        BY <3>1
      <3> HIDE DEF resolved
      <3>5. g \in KeptBy(f)
        BY <1>1, <2>1, <3>4 DEF Frame, KeptBy, Alike
      <3> HIDE DEF g
      <3> QED
        BY <2>1, <3>3, <3>5 DEF Advance
    <2>4. CASE ~Resolvable(t, static)
      BY <1>2, <1>6, <2>1, <2>4 DEF Connect
    <2> QED
      BY <2>3, <2>4
  <1>7. ASSUME NEW given \in SUBSET Headers, RunConnectHook(t, given)
        PROVE  Advance(t)
    <2> DEFINE layered == Layered(f.headers, given)
    <2>1. depth[t] > 0
      BY <1>7 DEF RunConnectHook, In
    <2>2. layered \in Sent /\ f.turn + 1 \in Nat
      BY <1>1, <2>1, LayeredType
    <2>3. Update(t, [f EXCEPT !.turn = f.turn + 1, !.headers = layered])
      BY <1>7 DEF RunConnectHook
    <2> HIDE DEF layered
    <2> DEFINE g == [f EXCEPT !.turn = f.turn + 1, !.headers = layered]
    <2>4. g \in KeptBy(f)
      BY <1>1, <2>1, <2>2 DEF Frame, KeptBy, Alike
    <2>5. Update(t, g)
      BY <2>3
    <2> HIDE DEF g
    <2> QED
      BY <2>1, <2>4, <2>5 DEF Advance
  <1>8. CASE Send(t) \/ Abort(t)
    <2>1. depth[t] > 0 /\ {"sent", "failed"} \subseteq Outcomes
      BY <1>8 DEF Send, Abort, In, Outcomes
    <2>2. Finish(t, "sent") \/ Finish(t, "failed")
      BY <1>8 DEF Send, Abort
    <2> QED
      BY <1>2, <2>1, <2>2
  <1>9. \/ Judge(t) \/ Fetch(t) \/ Filter(t) \/ Connect(t) \/ Send(t) \/ Abort(t)
        \/ (\E given \in SUBSET Headers : RunConnectHook(t, given))
        => depth[t] > 0
    BY DEF Judge, Fetch, Filter, Connect, Send, Abort, RunConnectHook, In
  <1> QED
    BY <1>3, <1>4, <1>5, <1>6, <1>7, <1>8, <1>9 DEF Step

-----------------------------------------------------------------------------
(* What the frames of a task say of its context *)

Below == {p \in Nat \X Nat : p[1] < p[2]}

LEMMA BelowWellFounded == IsWellFoundedOn(Below, Nat)
  BY NatLessThanWellFounded DEF OpToRel, Below

(* There is a latest of some requests. *)
LEMMA LatestIsOne ==
    ASSUME NEW k \in Nat, NEW S \in SUBSET (1..k), S # {}
    PROVE  Latest(S) \in S /\ \A i \in S : i <= Latest(S)
  <1> DEFINE T == {k - j : j \in S}
  <1>1. T \subseteq Nat
    OBVIOUS
  <1>2. T # {}
    OBVIOUS
  <1>3. PICK m \in T : \A y \in T : ~(<<y, m>> \in Below)
    <2> HIDE DEF T
    <2> QED
      BY <1>1, <1>2, BelowWellFounded, WFMin
  <1>4. \A y \in T : ~(y < m)
    BY <1>1, <1>3 DEF Below
  <1>5. PICK j \in S : m = k - j
    OBVIOUS
  <1>6. \A i \in S : i <= j
    BY <1>4, <1>5
  <1> QED
    BY <1>6 DEF Latest

(* The request that is entered is the latest. *)
LEMMA LatestIsNew ==
    ASSUME NEW k \in Nat, NEW S \in SUBSET (1..k)
    PROVE  Latest(S \cup {k + 1}) = k + 1
  <1> DEFINE T == S \cup {k + 1}
             latest == Latest(T)
  <1>1. T \in SUBSET (1..(k + 1)) /\ T # {} /\ k + 1 \in Nat /\ k + 1 \in T
    OBVIOUS
  <1>2. latest \in T /\ \A i \in T : i <= latest
    <2> HIDE DEF T
    <2> QED
      BY <1>1, LatestIsOne
  <1> HIDE DEF latest
  <1>3. latest = k + 1
    BY <1>2
  <1> QED
    BY <1>3 DEF latest

(* Two stacks of the same requests say the same. *)
LEMMA SameRequests ==
    ASSUME NEW s1, NEW s2, NEW k \in Nat, \A j \in 1..k : Alike(s2[j], s1[j])
    PROVE  /\ Naming(s2, k) = Naming(s1, k)
           /\ AskedGroup(s2, k) = AskedGroup(s1, k)
           /\ WantsAll(s2, k) <=> WantsAll(s1, k)
           /\ \A v \in Vars : Binding(s2, k, v) = Binding(s1, k, v)
           /\ \A v \in Vars : OwnValue(s2, k, v) = OwnValue(s1, k, v)
  <1>0. \A j \in 1..k : s2[j].scope = s1[j].scope
    BY DEF Alike
  <1>1. Naming(s2, k) = Naming(s1, k) /\ Naming(s1, k) \in SUBSET (1..k)
    BY <1>0 DEF Naming
  <1>2. Naming(s1, k) # {} => Latest(Naming(s1, k)) \in 1..k
    BY <1>1, LatestIsOne
  <1>7. AskedGroup(s2, k) = AskedGroup(s1, k)
    BY <1>0, <1>1, <1>2 DEF AskedGroup
  <1>3. ASSUME NEW v \in Vars
        PROVE  /\ Binding(s2, k, v) = Binding(s1, k, v)
               /\ Binding(s1, k, v) \in SUBSET (1..k)
    BY <1>0 DEF Binding
  <1>4. ASSUME NEW v \in Vars
        PROVE  OwnValue(s2, k, v) = OwnValue(s1, k, v)
    <2>1. Binding(s1, k, v) # {} => Latest(Binding(s1, k, v)) \in 1..k
      BY <1>3, LatestIsOne
    <2> QED
      BY <1>0, <1>3, <2>1 DEF OwnValue
  <1>6. WantsAll(s2, k) <=> WantsAll(s1, k)
    BY <1>0 DEF WantsAll
  <1> QED
    BY <1>1, <1>3, <1>4, <1>6, <1>7

(* A context is that of the first k requests of a stack. *)
Agrees(stack, k, c) ==
    /\ c.group = AskedGroup(stack, k)
    /\ c.full = WantsAll(stack, k)
    /\ \A v \in Vars : c.vars[v] = OwnValue(stack, k, v)

(* A scope turns the context of k requests into that of k + 1. *)
LEMMA ScopedAgrees ==
    ASSUME NEW k \in Nat, NEW stack, NEW r \in Requests, stack[k + 1].scope = r,
           NEW c \in Context, Agrees(stack, k, c),
           k > 0 => r.entry \in {"local", "invoke"}
    PROVE  Agrees(stack, k + 1, Scoped(c, r))
  <1> DEFINE n == Scoped(c, r)
             Own(v) == r.vars[v] # Unset /\ (r.entry \in Http => v \in LiftedVars)
             lifted == Bind(c.vars, Lifted(r.vars))
             merged == Bind(c.vars, r.vars)
             fuller == c.full \/ r.op # "call"
  <1>1. r \in Request /\ FitsEntry(r)
    BY ScopeAssumption
  <1>2. /\ Naming(stack, k) \in SUBSET (1..k)
        /\ Naming(stack, k + 1) = IF r.entry = "invoke" THEN Naming(stack, k)
                                  ELSE Naming(stack, k) \cup {k + 1}
    BY DEF Naming
  <1>3. ASSUME NEW v \in Vars
        PROVE  /\ Binding(stack, k, v) \in SUBSET (1..k)
               /\ Binding(stack, k + 1, v) = IF Own(v) THEN Binding(stack, k, v) \cup {k + 1}
                                             ELSE Binding(stack, k, v)
    BY DEF Binding, Http
  <1>4. AskedGroup(stack, k + 1) = CASE r.entry = "invoke" -> AskedGroup(stack, k)
                                     [] r.entry = "group"  -> GroupOfPath(r.group)
                                     [] OTHER              -> r.group
    BY <1>2, LatestIsNew DEF AskedGroup
  <1>5. ASSUME NEW v \in Vars
        PROVE  OwnValue(stack, k + 1, v) = IF Own(v) THEN r.vars[v] ELSE OwnValue(stack, k, v)
    BY <1>3, LatestIsNew DEF OwnValue
  <1>6. WantsAll(stack, k + 1) <=> \/ WantsAll(stack, k)
                                   \/ r.entry = "rest" /\ r.op # "call"
    BY DEF WantsAll
  <1>7. k = 0 => AskedGroup(stack, k) = NoGroup
    BY DEF AskedGroup, Naming
  <1>8. n.group = AskedGroup(stack, k + 1)
    <2>1. n.group = CASE r.entry = "group" -> GroupOfPath(r.group)
                      [] r.entry \in {"rest", "local"} -> r.group
                      [] OTHER -> c.group
      BY <1>1 DEF Scoped, GroupScope, RestScope, LocalScope, Context, Request, Entries
    <2> QED
      BY <1>1, <1>4, <1>7, <2>1 DEF Agrees, FitsEntry, Request, Entries
  <1>9. n.full = WantsAll(stack, k + 1)
    <2>1. n.full = IF r.entry = "rest" THEN fuller ELSE c.full
      BY <1>1 DEF Scoped, GroupScope, RestScope, LocalScope, Context, Request, Entries
    <2>2. c.full <=> WantsAll(stack, k)
      BY DEF Agrees
    <2>3. n.full <=> WantsAll(stack, k + 1)
      BY <1>6, <2>1, <2>2
    <2>4. n.full \in BOOLEAN /\ WantsAll(stack, k + 1) \in BOOLEAN
      BY <1>1, ScopedType DEF Context, WantsAll
    <2> QED
      BY <2>3, <2>4
  <1>10. ASSUME NEW v \in Vars
         PROVE  n.vars[v] = OwnValue(stack, k + 1, v)
    <2>1. n.vars = CASE r.entry \in Http -> lifted
                     [] r.entry = "local" -> merged
                     [] OTHER -> c.vars
      BY <1>1 DEF Scoped, GroupScope, RestScope, LocalScope, Context, Request, Entries, Http
    <2>2. lifted[v] = IF v \in LiftedVars /\ r.vars[v] # Unset THEN r.vars[v] ELSE c.vars[v]
      BY DEF Bind, Lifted
    <2>3. merged[v] = IF r.vars[v] # Unset THEN r.vars[v] ELSE c.vars[v]
      BY DEF Bind
    <2>4. r.entry \in {"rest", "invoke"} => r.vars[v] = Unset
      BY <1>1 DEF FitsEntry, NoVars
    <2>5. c.vars[v] = OwnValue(stack, k, v)
      BY DEF Agrees
    <2>6. r.entry \in Entries
      BY <1>1 DEF Request
    <2> HIDE DEF lifted, merged, n
    <2> QED
      BY <1>5, <2>1, <2>2, <2>3, <2>4, <2>5, <2>6 DEF Entries, Http
  <1> QED
    BY <1>8, <1>9, <1>10 DEF Agrees

LEMMA SameAgrees ==
    ASSUME NEW s1, NEW s2, NEW k \in Nat, \A j \in 1..k : Alike(s2[j], s1[j]),
           NEW c, Agrees(s1, k, c)
    PROVE  Agrees(s2, k, c)
  <1>1. WantsAll(s2, k) <=> WantsAll(s1, k)
    BY SameRequests
  <1>2. WantsAll(s2, k) \in BOOLEAN /\ WantsAll(s1, k) \in BOOLEAN
    BY DEF WantsAll
  <1>3. WantsAll(s2, k) = WantsAll(s1, k)
    BY <1>1, <1>2
  <1> QED
    BY <1>3, SameRequests DEF Agrees

-----------------------------------------------------------------------------
(* The inductive invariant: the context of a task is that of the requests  *)
(* it is in, and what each scope saved is that of the requests around it.  *)
Nested ==
    \A t \in Tasks :
        /\ Agrees(frames[t], depth[t], context[t])
        /\ \A k \in 1..depth[t] : Agrees(frames[t], k - 1, frames[t][k].saved)

(* What an open session holds is the context of the request that opened it *)
(* and of nothing around it.                                               *)
Held ==
    \A s \in Sessions : sessions[s] # NoSession =>
        \A stack : stack[1].scope = sessions[s].opener => Agrees(stack, 1, sessions[s].context)

Stack == [1..MaxDepth -> Frame \cup {NoFrame}]

(* A frame is put in its place and no other. *)
LEMMA Put ==
    ASSUME NEW old \in [Tasks -> Stack], NEW new, NEW t \in Tasks, NEW k \in 1..MaxDepth,
           NEW g, new = [old EXCEPT ![t] = [old[t] EXCEPT ![k] = g]]
    PROVE  /\ new[t][k] = g
           /\ \A j \in 1..MaxDepth : j # k => new[t][j] = old[t][j]
           /\ \A u \in Tasks : u # t => new[u] = old[u]
  <1>1. new[t] = [old[t] EXCEPT ![k] = g]
    OBVIOUS
  <1>2. old[t] \in Stack
    OBVIOUS
  <1>3. new[t][k] = g /\ \A j \in 1..MaxDepth : j # k => new[t][j] = old[t][j]
    BY <1>1, <1>2 DEF Stack
  <1> QED
    BY <1>3

LEMMA InitHolds == Init => TypeOK /\ Nested /\ Held
  <1> SUFFICES ASSUME Init
               PROVE  TypeOK /\ Nested /\ Held
    OBVIOUS
  <1>1. PICK l \in Registries : /\ servers = l.servers /\ groups = l.groups
                               /\ catalog = l.catalog
                               /\ policy = Compile(l.servers, l.groups)
    BY DEF Init
  <1>2. l \in Loaded /\ UniqueNames(l.servers) /\ l.groups[EmptyName] = NoServer
    BY ScopeAssumption
  <1>3. /\ servers \in Registry /\ UniqueNames(servers)
        /\ groups \in Groups /\ groups[EmptyName] = NoServer
        /\ catalog \in SUBSET Tool
        /\ policy = Compile(servers, groups)
    BY <1>1, <1>2 DEF Loaded
  <1>4. Default \in Context
    BY DEF Default, Context, NoVars, Bindings
  <1>5. \A t \in Tasks : depth[t] = 0
    BY DEF Init
  <1>6. /\ context \in [Tasks -> Context]
        /\ depth \in [Tasks -> 0..MaxDepth]
        /\ frames \in [Tasks -> [1..MaxDepth -> Frame \cup {NoFrame}]]
    BY <1>4, ScopeAssumption DEF Init
  <1>7. TypeOK
    <2>1. listMode \in {"all", "meta"} /\ environ \in [Secrets -> Values \cup {Unset}]
      BY DEF Init
    <2>2. \A t \in Tasks : \A k \in 1..depth[t] : FALSE
      BY <1>5
    <2>3. sessions \in [Sessions -> Session \cup {NoSession}]
      BY DEF Init
    <2> QED
      BY <1>3, <1>6, <2>1, <2>2, <2>3 DEF TypeOK
  <1>8. \A stack : Agrees(stack, 0, Default)
    <2> TAKE stack
    <2>1. \A v \in Vars : OwnValue(stack, 0, v) = Unset
      BY DEF OwnValue, Binding
    <2>2. AskedGroup(stack, 0) = NoGroup
      BY DEF AskedGroup, Naming
    <2>3. WantsAll(stack, 0) = FALSE
      BY DEF WantsAll
    <2> QED
      BY <2>1, <2>2, <2>3 DEF Agrees, Default, NoVars
  <1>9. Nested
    <2>1. \A t \in Tasks : context[t] = Default
      BY DEF Init
    <2> QED
      BY <1>5, <1>8, <2>1 DEF Nested
  <1>10. Held
    BY DEF Init, Held
  <1> QED
    BY <1>7, <1>9, <1>10

(* A step of the innermost request. *)
LEMMA AdvanceHolds ==
    ASSUME TypeOK, Nested, NEW t \in Tasks, depth[t] > 0, Advance(t)
    PROVE  TypeOK' /\ Nested'
  <1>1. PICK g \in KeptBy(Top(t)) : Update(t, g)
    BY DEF Advance
  <1>2. g \in Frame /\ Alike(g, Top(t)) /\ g.saved = Top(t).saved
    BY DEF KeptBy
  <1>3. UNCHANGED <<loaded, environ, sessions, context, depth>>
    BY <1>1 DEF Update
  <1>4. depth[t] \in 1..MaxDepth
    BY TopType
  <1>5. frames \in [Tasks -> Stack] /\ depth \in [Tasks -> 0..MaxDepth]
    BY DEF TypeOK, Stack
  <1>6. frames' = [frames EXCEPT ![t] = [frames[t] EXCEPT ![depth[t]] = g]]
    BY <1>1 DEF Update
  <1>7. frames' \in [Tasks -> Stack]
    BY <1>2, <1>4, <1>5, <1>6 DEF Stack
  <1>8. ASSUME NEW u \in Tasks, NEW k \in 1..depth[u]
        PROVE  /\ frames'[u][k] \in Frame
               /\ Alike(frames'[u][k], frames[u][k])
               /\ frames'[u][k].saved = frames[u][k].saved
    <2>1. frames[u][k] \in Frame
      BY DEF TypeOK
    <2>2. frames'[u][k] = IF u = t /\ k = depth[t] THEN g ELSE frames[u][k]
      <3>1. depth[u] \in 0..MaxDepth /\ k \in 1..MaxDepth
        BY <1>5, ScopeAssumption
      <3> QED
        BY <1>4, <1>5, <1>6, <3>1, Put
    <2> QED
      BY <1>2, <2>1, <2>2 DEF Top, Alike
  <1>9. TypeOK'
    BY <1>3, <1>7, <1>8 DEF TypeOK, loaded, Stack
  <1>10. Nested'
    <2> SUFFICES ASSUME NEW u \in Tasks
                 PROVE  /\ Agrees(frames'[u], depth[u], context[u])
                        /\ \A k \in 1..depth[u] :
                                Agrees(frames'[u], k - 1, frames'[u][k].saved)
      BY <1>3 DEF Nested
    <2>1. depth[u] \in Nat
      BY <1>5, ScopeAssumption
    <2>2. Agrees(frames'[u], depth[u], context[u])
      BY <1>8, <2>1, SameAgrees DEF Nested
    <2>3. ASSUME NEW k \in 1..depth[u]
          PROVE  Agrees(frames'[u], k - 1, frames'[u][k].saved)
      <3>1. k - 1 \in Nat /\ \A j \in 1..(k - 1) : j \in 1..depth[u]
        BY <2>1
      <3>2. Agrees(frames[u], k - 1, frames[u][k].saved)
        BY DEF Nested
      <3>3. \A j \in 1..(k - 1) : Alike(frames'[u][j], frames[u][j])
        BY <1>8, <3>1
      <3>4. Agrees(frames'[u], k - 1, frames[u][k].saved)
        BY <3>1, <3>2, <3>3, SameAgrees
      <3> QED
        BY <1>8, <3>4
    <2> QED
      BY <2>2, <2>3
  <1> QED
    BY <1>9, <1>10

(* A request is taken in, in a scope that leaves it a context that agrees. *)
LEMMA PushHolds ==
    ASSUME TypeOK, Nested, NEW t \in Tasks, NEW r \in Requests, NEW scope \in Request,
           NEW c \in Context, Push(t, r, scope, c),
           \A stack : stack[depth[t] + 1].scope = scope /\ Agrees(stack, depth[t], context[t])
                        => Agrees(stack, depth[t] + 1, c)
    PROVE  TypeOK' /\ Nested'
  <1> DEFINE new == Opened(r, scope, context[t])
             n == depth[t] + 1
  <1>1. /\ frames \in [Tasks -> Stack] /\ depth \in [Tasks -> 0..MaxDepth]
        /\ context \in [Tasks -> Context]
    BY DEF TypeOK, Stack
  <1>2. n \in 1..MaxDepth /\ depth[t] \in Nat
    BY <1>1, ScopeAssumption DEF Push
  <1>3. r \in Request
    BY ScopeAssumption
  <1>4. new \in Frame /\ new.scope = scope /\ new.saved = context[t]
    <2>1. "entered" \in Stages /\ "none" \in Outcomes /\ 0 \in Nat /\ {} \in SUBSET Tool
      BY DEF Stages, Outcomes
    <2>2. << >> \in Sent
      <3>1. << >> \in [{} -> Resolved \cup {Verbatim}] /\ {} \in SUBSET Headers
        OBVIOUS
      <3> QED
        BY <3>1 DEF Sent
    <2>3. context[t] \in Context
      BY <1>1
    <2> QED
      BY <1>3, <2>1, <2>2, <2>3 DEF Frame, Opened
  <1> HIDE DEF new
  <1>5. /\ frames' = [frames EXCEPT ![t] = [frames[t] EXCEPT ![n] = new]]
        /\ depth' = [depth EXCEPT ![t] = n]
        /\ context' = [context EXCEPT ![t] = c]
        /\ UNCHANGED <<loaded, environ, sessions>>
    BY DEF Push, new
  <1>7. /\ frames' \in [Tasks -> Stack] /\ depth' \in [Tasks -> 0..MaxDepth]
        /\ context' \in [Tasks -> Context]
    <2>1. frames' \in [Tasks -> Stack]
      BY <1>1, <1>2, <1>4, <1>5 DEF Stack
    <2>2. depth' \in [Tasks -> 0..MaxDepth]
      BY <1>1, <1>2, <1>5
    <2>3. context' \in [Tasks -> Context]
      BY <1>1, <1>5
    <2> QED
      BY <2>1, <2>2, <2>3
  <1>8. /\ frames'[t][n] = new
        /\ \A k \in 1..depth[t] : frames'[t][k] = frames[t][k]
        /\ \A u \in Tasks \ {t} : frames'[u] = frames[u]
    <2>1. \A k \in 1..depth[t] : k \in 1..MaxDepth /\ k # n
      BY <1>1, <1>2, ScopeAssumption
    <2>2. n \in 1..MaxDepth
      BY <1>2
    <2>3. frames' = [frames EXCEPT ![t] = [frames[t] EXCEPT ![n] = new]]
      BY <1>5
    <2> HIDE DEF n
    <2>4. frames'[t] = [frames[t] EXCEPT ![n] = new]
      BY <1>1, <2>3
    <2>5. frames[t] \in Stack
      BY <1>1
    <2>6. frames'[t][n] = new /\ \A j \in 1..MaxDepth : j # n => frames'[t][j] = frames[t][j]
      BY <2>2, <2>4, <2>5 DEF Stack
    <2>7. \A u \in Tasks \ {t} : frames'[u] = frames[u]
      BY <1>1, <2>3
    <2> QED
      BY <2>1, <2>6, <2>7
  <1>9. /\ depth'[t] = n /\ context'[t] = c
        /\ \A u \in Tasks \ {t} : depth'[u] = depth[u] /\ context'[u] = context[u]
    BY <1>1, <1>5
  <1>10. \A k \in 1..n : k \in 1..depth[t] \/ k = n
    BY <1>2
  <1>11. TypeOK'
    <2>1. ASSUME NEW u \in Tasks, NEW k \in 1..depth'[u]
          PROVE  frames'[u][k] \in Frame
      <3>1. CASE u = t
        BY <1>4, <1>8, <1>9, <1>10, <3>1 DEF TypeOK
      <3>2. CASE u # t
        BY <1>8, <1>9, <3>2 DEF TypeOK
      <3> QED
        BY <3>1, <3>2
    <2> QED
      BY <1>5, <1>7, <2>1 DEF TypeOK, loaded, Stack
  <1>12. Nested'
    <2>1. ASSUME NEW k \in 1..depth[t]
          PROVE  Agrees(frames'[t], k - 1, frames'[t][k].saved)
      <3>1. k - 1 \in Nat /\ \A j \in 1..(k - 1) : j \in 1..depth[t]
        BY <1>2
      <3>2. Agrees(frames[t], k - 1, frames[t][k].saved)
        BY DEF Nested
      <3>3. Agrees(frames'[t], k - 1, frames[t][k].saved)
        BY <1>8, <3>1, <3>2, SameAgrees DEF Alike
      <3> QED
        BY <1>8, <3>3
    <2>2. Agrees(frames'[t], depth[t], context[t])
      BY <1>2, <1>8, SameAgrees DEF Nested, Alike
    <2>3. Agrees(frames'[t], n - 1, frames'[t][n].saved)
      BY <1>2, <1>4, <1>8, <2>2
    <2>4. Agrees(frames'[t], n, context'[t])
      BY <1>4, <1>8, <1>9, <2>2
    <2>5. ASSUME NEW u \in Tasks
          PROVE  /\ Agrees(frames'[u], depth'[u], context'[u])
                 /\ \A k \in 1..depth'[u] : Agrees(frames'[u], k - 1, frames'[u][k].saved)
      <3>1. CASE u = t
        BY <1>9, <1>10, <2>1, <2>3, <2>4, <3>1
      <3>2. CASE u # t
        BY <1>8, <1>9, <3>2 DEF Nested
      <3> QED
        BY <3>1, <3>2
    <2> QED
      BY <2>5 DEF Nested
  <1> QED
    BY <1>11, <1>12

(* A request is entered. *)
LEMMA EnterHolds ==
    ASSUME TypeOK, Nested, NEW t \in Tasks, NEW r \in Requests, Enter(t, r)
    PROVE  TypeOK' /\ Nested'
  <1>1. depth[t] \in Nat /\ context[t] \in Context /\ r \in Request
    BY ScopeAssumption DEF TypeOK
  <1>2. depth[t] > 0 => r.entry \in {"local", "invoke"}
    BY <1>1 DEF Enter, Push, Entered
  <1>3. ASSUME NEW stack, stack[depth[t] + 1].scope = r, Agrees(stack, depth[t], context[t])
        PROVE  Agrees(stack, depth[t] + 1, Scoped(context[t], r))
    BY <1>1, <1>2, <1>3, ScopedAgrees
  <1>4. Scoped(context[t], r) \in Context
    BY <1>1, ScopedType
  <1> QED
    BY <1>1, <1>3, <1>4, PushHolds DEF Enter

(* A session is opened in no one's scope but the opener's.                 *)
LEMMA OpenHolds ==
    ASSUME TypeOK, Nested, Held, NEW t \in Tasks, NEW s \in Sessions, NEW r \in Requests,
           OpenSession(t, s, r)
    PROVE  TypeOK' /\ Nested' /\ Held'
  <1> DEFINE c == Scoped(context[t], r)
             new == [opener |-> r, context |-> c]
  <1>1. depth[t] = 0 /\ context[t] \in Context /\ r \in Request
    BY ScopeAssumption DEF TypeOK, OpenSession
  <1>2. c \in Context
    BY <1>1, ScopedType
  <1>3. ASSUME NEW stack, stack[1].scope = r
        PROVE  Agrees(stack, 1, c)
    <2>1. Agrees(frames[t], 0, context[t])
      BY <1>1 DEF Nested
    <2>2. Agrees(stack, 0, context[t])
      <3>1. \A j \in 1..0 : Alike(stack[j], frames[t][j])
        OBVIOUS
      <3> QED
        BY <2>1, <3>1, SameAgrees
    <2>3. stack[0 + 1].scope = r
      BY <1>3
    <2>4. Agrees(stack, 0 + 1, c)
      BY <1>1, <2>2, <2>3, ScopedAgrees
    <2> QED
      BY <2>4
  <1>4. new \in Session /\ new.opener = r /\ new.context = c
    BY <1>1, <1>2 DEF Session
  <1>5. sessions' = [sessions EXCEPT ![s] = new]
        /\ UNCHANGED <<loaded, environ, context, depth, frames>>
    BY DEF OpenSession
  <1> HIDE DEF new, c
  <1>6. sessions \in [Sessions -> Session \cup {NoSession}]
    BY DEF TypeOK
  <1>7. TypeOK' /\ Nested'
    BY <1>4, <1>5, <1>6 DEF TypeOK, Nested, loaded
  <1>8. sessions'[s] = new /\ \A z \in Sessions : z # s => sessions'[z] = sessions[z]
    BY <1>5, <1>6
  <1>9. ASSUME NEW z \in Sessions, sessions'[z] # NoSession, NEW stack,
               stack[1].scope = sessions'[z].opener
        PROVE  Agrees(stack, 1, sessions'[z].context)
    <2>1. CASE z = s
      BY <1>3, <1>4, <1>8, <1>9, <2>1
    <2>2. CASE z # s
      BY <1>8, <1>9, <2>2 DEF Held
    <2> QED
      BY <2>1, <2>2
  <1> QED
    BY <1>7, <1>9 DEF Held

(* A session's request runs in the context that the session keeps.         *)
LEMMA ContinueHolds ==
    ASSUME TypeOK, Nested, Held, NEW t \in Tasks, NEW s \in Sessions, NEW r \in Requests,
           Continue(t, s, r)
    PROVE  TypeOK' /\ Nested'
  <1>1. sessions[s] \in Session /\ sessions[s] # NoSession
    BY DEF TypeOK, Continue
  <1>2. sessions[s].opener \in Request /\ sessions[s].context \in Context
    BY <1>1 DEF Session
  <1>3. depth[t] = 0
    BY DEF Continue, Push, Entered, Http
  <1>4. ASSUME NEW stack, stack[depth[t] + 1].scope = sessions[s].opener
        PROVE  Agrees(stack, depth[t] + 1, sessions[s].context)
    BY <1>1, <1>3, <1>4 DEF Held
  <1> QED
    BY <1>2, <1>4, PushHolds DEF Continue

LEMMA EndHolds ==
    ASSUME TypeOK, Nested, Held, NEW s \in Sessions, EndSession(s)
    PROVE  TypeOK' /\ Nested' /\ Held'
  <1>1. /\ sessions' = [sessions EXCEPT ![s] = NoSession]
        /\ UNCHANGED <<loaded, environ, context, depth, frames>>
    BY DEF EndSession
  <1>2. sessions \in [Sessions -> Session \cup {NoSession}]
    BY DEF TypeOK
  <1>3. \A z \in Sessions : sessions'[z] # NoSession => sessions'[z] = sessions[z]
    BY <1>1, <1>2
  <1>4. TypeOK' /\ Nested'
    BY <1>1, <1>2 DEF TypeOK, Nested, loaded
  <1> QED
    BY <1>3, <1>4 DEF Held

(* What leaving a scope does to the frames of a task: the innermost goes,  *)
(* and only the outcome of the one around it may change.                   *)
LEMMA LeaveFrames ==
    ASSUME TypeOK, NEW t \in Tasks, Leave(t)
    PROVE  /\ depth[t] \in 1..MaxDepth
           /\ frames' \in [Tasks -> Stack]
           /\ \A u \in Tasks : u # t => frames'[u] = frames[u]
           /\ \A k \in 1..(depth[t] - 1) :
                /\ frames'[t][k] \in Frame
                /\ Alike(frames'[t][k], frames[t][k])
                /\ frames'[t][k].saved = frames[t][k].saved
                /\ frames'[t][k].headers = frames[t][k].headers
                /\ \/ frames'[t][k] = frames[t][k]
                   \/ /\ Top(t).request.entry = "invoke"
                      /\ k = depth[t] - 1
                      /\ frames'[t][k].stage = "done"
  <1> DEFINE n == depth[t]
             m == depth[t] - 1
             told(k) == [frames[t][k] EXCEPT !.stage = "done", !.outcome = Top(t).outcome]
             left == [k \in 1..MaxDepth |->
                        CASE k = n -> NoFrame
                          [] k = m /\ Top(t).request.entry = "invoke" -> told(k)
                          [] OTHER -> frames[t][k]]
  <1>1. depth[t] > 0
    BY DEF Leave, In
  <1>2. n \in 1..MaxDepth /\ Top(t) \in Frame
    BY <1>1, TopType
  <1>3. frames \in [Tasks -> Stack]
    BY DEF TypeOK, Stack
  <1>4. ASSUME NEW k \in 1..m
        PROVE  k \in 1..MaxDepth /\ k # n /\ frames[t][k] \in Frame
    BY <1>2, ScopeAssumption DEF TypeOK
  <1>5. ASSUME NEW k \in 1..m
        PROVE  /\ told(k) \in Frame /\ told(k).stage = "done"
               /\ Alike(told(k), frames[t][k]) /\ told(k).saved = frames[t][k].saved
               /\ told(k).headers = frames[t][k].headers
    <2>1. "done" \in Stages /\ Top(t).outcome \in Outcomes
      BY <1>2 DEF Stages, Frame
    <2> QED
      BY <1>4, <2>1 DEF Frame, Alike
  <1>6. frames' = [frames EXCEPT ![t] = left]
    BY DEF Leave
  <1> HIDE DEF told
  <1>7. \A k \in 1..m : left[k] = IF k = m /\ Top(t).request.entry = "invoke" THEN told(k)
                                  ELSE frames[t][k]
    BY <1>4
  <1>8. left \in Stack
    <2>1. ASSUME NEW k \in 1..MaxDepth
          PROVE  left[k] \in Frame \cup {NoFrame}
      <3>1. k = m => k \in 1..m
        OBVIOUS
      <3>2. frames[t][k] \in Frame \cup {NoFrame}
        BY <1>3 DEF Stack
      <3> QED
        BY <1>5, <3>1, <3>2
    <2> QED
      BY <2>1 DEF Stack
  <1> HIDE DEF left
  <1>9. frames' \in [Tasks -> Stack] /\ frames'[t] = left
        /\ \A u \in Tasks : u # t => frames'[u] = frames[u]
    BY <1>3, <1>6, <1>8
  <1> QED
    BY <1>2, <1>4, <1>5, <1>7, <1>9 DEF Alike

LEMMA LeaveHolds ==
    ASSUME TypeOK, Nested, NEW t \in Tasks, Leave(t)
    PROVE  TypeOK' /\ Nested'
  <1> DEFINE m == depth[t] - 1
  <1>1. /\ depth[t] \in 1..MaxDepth
        /\ frames' \in [Tasks -> Stack]
        /\ \A u \in Tasks : u # t => frames'[u] = frames[u]
        /\ \A k \in 1..m :
                /\ frames'[t][k] \in Frame
                /\ Alike(frames'[t][k], frames[t][k])
                /\ frames'[t][k].saved = frames[t][k].saved
    BY LeaveFrames DEF Alike
  <1>2. /\ depth' = [depth EXCEPT ![t] = m]
        /\ context' = [context EXCEPT ![t] = Top(t).saved]
        /\ UNCHANGED <<loaded, environ, sessions>>
    BY DEF Leave
  <1>3. /\ context \in [Tasks -> Context] /\ depth \in [Tasks -> 0..MaxDepth]
        /\ Top(t).saved \in Context
    <2>1. Top(t) \in Frame
      BY <1>1, TopType
    <2>2. Top(t).saved \in Context
      BY <2>1 DEF Frame
    <2> QED
      BY <2>2 DEF TypeOK
  <1>4. m \in 0..MaxDepth /\ m \in Nat /\ depth[t] = m + 1
    BY <1>1, ScopeAssumption
  <1> HIDE DEF m
  <1>5. /\ context' \in [Tasks -> Context] /\ depth' \in [Tasks -> 0..MaxDepth]
        /\ depth'[t] = m /\ context'[t] = Top(t).saved
        /\ \A u \in Tasks : u # t => depth'[u] = depth[u] /\ context'[u] = context[u]
    BY <1>2, <1>3, <1>4
  <1>6. TypeOK'
    <2>1. ASSUME NEW u \in Tasks, NEW k \in 1..depth'[u]
          PROVE  frames'[u][k] \in Frame
      <3>1. CASE u = t
        BY <1>1, <1>5, <3>1
      <3>2. CASE u # t
        BY <1>1, <1>5, <3>2 DEF TypeOK
      <3> QED
        BY <3>1, <3>2
    <2> QED
      BY <1>1, <1>2, <1>5, <2>1 DEF TypeOK, loaded, Stack
  <1>7. Nested'
    <2>1. ASSUME NEW k \in 1..(m + 1)
          PROVE  Agrees(frames'[t], k - 1, frames[t][k].saved)
      <3>1. k - 1 \in Nat /\ \A j \in 1..(k - 1) : j \in 1..m
        BY <1>4
      <3>2. Agrees(frames[t], k - 1, frames[t][k].saved)
        BY <1>4 DEF Nested
      <3>3. \A j \in 1..(k - 1) : Alike(frames'[t][j], frames[t][j])
        BY <1>1, <3>1
      <3> QED
        BY <3>1, <3>2, <3>3, SameAgrees
    <2>2. Agrees(frames'[t], m, context'[t])
      <3>1. m + 1 \in 1..(m + 1) /\ (m + 1) - 1 = m
        BY <1>4
      <3> QED
        BY <1>4, <1>5, <2>1, <3>1 DEF Top
    <2>3. ASSUME NEW k \in 1..m
          PROVE  Agrees(frames'[t], k - 1, frames'[t][k].saved)
      <3>1. k \in 1..(m + 1)
        BY <1>4
      <3> QED
        BY <1>1, <2>1, <3>1
    <2>4. ASSUME NEW u \in Tasks
          PROVE  /\ Agrees(frames'[u], depth'[u], context'[u])
                 /\ \A k \in 1..depth'[u] : Agrees(frames'[u], k - 1, frames'[u][k].saved)
      <3>1. CASE u = t
        BY <1>5, <2>2, <2>3, <3>1
      <3>2. CASE u # t
        BY <1>1, <1>5, <3>2 DEF Nested
      <3> QED
        BY <3>1, <3>2
    <2> QED
      BY <2>4 DEF Nested
  <1> QED
    BY <1>6, <1>7

LEMMA ReloadHolds ==
    ASSUME TypeOK, Nested, NEW l \in Registries, Reload(l)
    PROVE  TypeOK' /\ Nested'
  <1>1. l \in Loaded /\ UniqueNames(l.servers) /\ l.groups[EmptyName] = NoServer
    BY ScopeAssumption
  <1>2. /\ servers' = l.servers /\ groups' = l.groups /\ catalog' = l.catalog
        /\ policy' = Compile(servers', groups')
        /\ UNCHANGED <<listMode, environ, sessions, context, depth, frames>>
    BY DEF Reload
  <1> QED
    BY <1>1, <1>2 DEF Loaded, TypeOK, Nested

LEMMA RotateHolds ==
    ASSUME TypeOK, Nested, NEW secret \in Secrets, NEW value \in Values \cup {Unset},
           Rotate(secret, value)
    PROVE  TypeOK' /\ Nested'
  <1>1. environ' \in [Secrets -> Values \cup {Unset}]
    BY DEF Rotate, TypeOK
  <1>2. UNCHANGED <<loaded, sessions, context, depth, frames>>
    BY DEF Rotate
  <1> QED
    BY <1>1, <1>2 DEF TypeOK, Nested, loaded

LEMMA NextHolds == TypeOK /\ Nested /\ Held /\ [Next]_vars => TypeOK' /\ Nested' /\ Held'
  <1> SUFFICES ASSUME TypeOK, Nested, Held, [Next]_vars
               PROVE  TypeOK' /\ Nested' /\ Held'
    OBVIOUS
  <1>1. ASSUME NEW t \in Tasks, Step(t)
        PROVE  TypeOK' /\ Nested' /\ Held'
    <2>1. ASSUME NEW s \in Sessions, NEW r \in Requests, OpenSession(t, s, r)
          PROVE  TypeOK' /\ Nested' /\ Held'
      BY <2>1, OpenHolds
    <2>2. CASE ~\E s \in Sessions, r \in Requests : OpenSession(t, s, r)
      <3>1. UNCHANGED sessions
        BY <1>1, <2>2, Shape DEF Enter, Continue, Push, Leave, Advance, Update
      <3>2. TypeOK' /\ Nested'
        BY <1>1, <2>2, Shape, EnterHolds, ContinueHolds, LeaveHolds, AdvanceHolds
      <3> QED
        BY <3>1, <3>2 DEF Held
    <2> QED
      BY <2>1, <2>2
  <1>2. ASSUME UNCHANGED vars
        PROVE  TypeOK' /\ Nested' /\ Held'
    BY <1>2 DEF vars, TypeOK, Nested, Held
  <1>3. ASSUME NEW l \in Registries, Reload(l)
        PROVE  TypeOK' /\ Nested' /\ Held'
    BY <1>3, ReloadHolds DEF Reload, Held
  <1>4. ASSUME NEW secret \in Secrets, NEW value \in Values \cup {Unset}, Rotate(secret, value)
        PROVE  TypeOK' /\ Nested' /\ Held'
    BY <1>4, RotateHolds DEF Rotate, Held
  <1> QED
    BY <1>1, <1>2, <1>3, <1>4, EndHolds DEF Next

LEMMA Inductive == Spec => [](TypeOK /\ Nested /\ Held)
  <1> QED
    BY InitHolds, NextHolds, PTL DEF Spec

(* Tasks, frames, contexts and the compiled policy keep their types.       *)
THEOREM TypeCorrect == Spec => []TypeOK
  BY Inductive, PTL

(* Whatever is reloaded, the compiled policy says what the registry says.  *)
THEOREM PolicyAgrees == Spec => []AgreesWithRegistry
  <1>1. TypeOK => AgreesWithRegistry
    BY CompiledAgrees DEF TypeOK, AgreesWithRegistry
  <1> QED
    BY <1>1, TypeCorrect, PTL

(* However requests nest, fail or are abandoned, and whatever sessions     *)
(* there are, a task's group, listing and variables are those of the       *)
(* requests it is in, or that opened their sessions.                       *)
THEOREM ContextNests == Spec => []ScopesNest
  <1>1. Nested => ScopesNest
    BY DEF Nested, Agrees, ScopesNest
  <1> QED
    BY <1>1, Inductive, PTL

-----------------------------------------------------------------------------
(* What a call and a listing are let do *)

LEMMA UpdateTop ==
    ASSUME TypeOK, NEW t \in Tasks, depth[t] > 0, NEW f, Update(t, f)
    PROVE  Top(t)' = f /\ depth'[t] = depth[t]
  <1>1. depth[t] \in 1..MaxDepth /\ depth' = depth
    BY TopType DEF Update
  <1>2. frames[t] \in Stack /\ frames \in [Tasks -> Stack]
    BY DEF TypeOK, Stack
  <1>3. frames'[t] = [frames[t] EXCEPT ![depth[t]] = f]
    BY <1>2 DEF Update
  <1>4. frames'[t][depth[t]] = f
    BY <1>1, <1>2, <1>3 DEF Stack
  <1> QED
    BY <1>1, <1>4 DEF Top

(* A task's request reaches a stage by a step of its own. *)
LEMMA ReachesBy ==
    ASSUME TypeOK, [Next]_vars, NEW t \in Tasks, NEW stage, Reaches(t, stage)
    PROVE  \/ Judge(t) \/ Fetch(t) \/ Filter(t) \/ Connect(t) \/ Send(t) \/ Abort(t)
           \/ \E given \in SUBSET Headers : RunConnectHook(t, given)
  <1>1. depth'[t] = depth[t] /\ depth[t] > 0 /\ frames'[t] # frames[t]
    BY DEF Reaches, In, Top
  <1>2. depth \in [Tasks -> 0..MaxDepth] /\ frames \in [Tasks -> Stack]
    BY DEF TypeOK, Stack
  <1>3. ASSUME NEW u \in Tasks, Step(u)
        PROVE  u = t
    <2>1. ASSUME NEW g, Update(u, g)
          PROVE  u = t
      BY <1>1, <1>2, <2>1 DEF Update
    <2>2. ASSUME NEW r, NEW scope, NEW c, Push(u, r, scope, c)
          PROVE  u = t
      BY <1>1, <1>2, <2>2 DEF Push
    <2>3. CASE Leave(u)
      BY <1>1, <2>3, LeaveFrames
    <2> QED
      BY <1>1, <1>3, <2>1, <2>2, <2>3, Shape DEF Advance, Enter, Continue, OpenSession
  <1>4. ~Leave(t) /\ \A r, scope, c : ~Push(t, r, scope, c)
    <2>1. depth[t] \in Nat
      BY <1>2, ScopeAssumption
    <2>2. Leave(t) => depth'[t] = depth[t] - 1
      BY <1>2 DEF Leave
    <2>3. ASSUME NEW r, NEW scope, NEW c, Push(t, r, scope, c)
          PROVE  depth'[t] = depth[t] + 1
      BY <1>2, <2>3 DEF Push
    <2> QED
      BY <1>1, <2>1, <2>2, <2>3
  <1>5. \E u \in Tasks : Step(u)
    BY <1>1 DEF Next, EndSession, Reload, Rotate, vars
  <1> QED
    BY <1>1, <1>3, <1>4, <1>5 DEF Step, Enter, Continue, OpenSession

(* What the policy allows a task is what the registry permits its caller. *)
LEMMA AllowsItsCaller ==
    ASSUME TypeOK, Nested, NEW t \in Tasks, NEW tool \in Tool
    PROVE  Allows(policy, tool, Group(t))
                <=> Permitted(servers, groups, tool, AskedGroup(frames[t], depth[t]))
  <1>1. Group(t) = AskedGroup(frames[t], depth[t])
    BY DEF Nested, Agrees, Group
  <1>2. Group(t) \in GroupNames \cup {NoGroup}
    BY DEF TypeOK, Context, Group
  <1> QED
    BY <1>1, <1>2, CompiledAgrees DEF TypeOK

(* What the steps of a request but its judging and its reading bring about. *)
LEMMA Brings ==
    ASSUME TypeOK, NEW t \in Tasks, depth[t] > 0
    PROVE  /\ Connect(t) => \/ Top(t)'.stage = "connecting"
                            \/ Top(t)'.stage = "done" /\ Top(t)'.outcome = "failed"
           /\ Send(t) => Top(t)'.stage = "done" /\ Top(t)'.outcome = "sent"
           /\ Abort(t) => Top(t)'.stage = "done" /\ Top(t)'.outcome = "failed"
           /\ \A given \in SUBSET Headers : RunConnectHook(t, given) =>
                    Top(t)'.stage = Top(t).stage
  <1> DEFINE f == Top(t)
  <1>1. f \in Frame
    BY TopType
  <1>2. ASSUME NEW outcome, Finish(t, outcome)
        PROVE  Top(t)'.stage = "done" /\ Top(t)'.outcome = outcome
    <2>1. Top(t)' = [f EXCEPT !.stage = "done", !.outcome = outcome]
      BY <1>2, UpdateTop DEF Finish
    <2> QED
      BY <1>1, <2>1 DEF Frame
  <1>3. ASSUME NEW headers, Update(t, [f EXCEPT !.stage = "connecting", !.headers = headers])
        PROVE  Top(t)'.stage = "connecting"
    <2>1. Top(t)' = [f EXCEPT !.stage = "connecting", !.headers = headers]
      BY <1>3, UpdateTop
    <2> QED
      BY <1>1, <2>1 DEF Frame
  <1>4. ASSUME NEW turn, NEW headers, Update(t, [f EXCEPT !.turn = turn, !.headers = headers])
        PROVE  Top(t)'.stage = f.stage
    <2>1. Top(t)' = [f EXCEPT !.turn = turn, !.headers = headers]
      BY <1>4, UpdateTop
    <2> QED
      BY <1>1, <2>1 DEF Frame
  <1>5. Connect(t) => \/ Top(t)'.stage = "connecting"
                      \/ Top(t)'.stage = "done" /\ Top(t)'.outcome = "failed"
    BY <1>2, <1>3 DEF Connect
  <1>6. ASSUME NEW given \in SUBSET Headers, RunConnectHook(t, given)
        PROVE  Top(t)'.stage = f.stage
    BY <1>4, <1>6 DEF RunConnectHook
  <1> QED
    BY <1>2, <1>5, <1>6 DEF Send, Abort

(* No call gets past the gateway unless the registry permits it to the     *)
(* group its caller named, wherever the call came from.                    *)
THEOREM CallsGoverned == Spec => CallsAreGoverned
  <1> DEFINE Governed ==
        \A t \in Tasks :
            Reaches(t, "judged") /\ Top(t).request.op = "call" =>
                Permitted(servers, groups, Top(t).request.tool,
                          AskedGroup(frames[t], depth[t]))
  <1>1. TypeOK /\ Nested /\ [Next]_vars => [Governed]_vars
    <2> SUFFICES ASSUME TypeOK, Nested, [Next]_vars, NEW t \in Tasks,
                        Reaches(t, "judged"), Top(t).request.op = "call"
                 PROVE  Permitted(servers, groups, Top(t).request.tool,
                                  AskedGroup(frames[t], depth[t]))
      OBVIOUS
    <2>1. depth[t] > 0 /\ Top(t)'.stage = "judged" /\ Top(t).stage # "judged"
      BY DEF Reaches, In
    <2>2. Top(t) \in Frame /\ Top(t).request.tool \in Tool
      BY <2>1, TopType
    <2>3. ~Send(t) /\ ~Abort(t) /\ ~Connect(t)
          /\ \A given \in SUBSET Headers : ~RunConnectHook(t, given)
      BY <2>1, Brings
    <2>4. ~Fetch(t)
      <3>1. ASSUME NEW rows, Update(t, [Top(t) EXCEPT !.stage = "fetched", !.rows = rows])
            PROVE  FALSE
        <4>1. Top(t)' = [Top(t) EXCEPT !.stage = "fetched", !.rows = rows]
          BY <2>1, <3>1, UpdateTop
        <4> QED
          BY <2>1, <2>2, <4>1 DEF Frame
      <3> QED
        BY <3>1 DEF Fetch
    <2>5. ~Filter(t)
      <3>1. ASSUME NEW rows, NEW outcome,
                   Update(t, [Top(t) EXCEPT !.stage = "done", !.rows = rows,
                                            !.outcome = outcome])
            PROVE  FALSE
        <4>1. Top(t)' = [Top(t) EXCEPT !.stage = "done", !.rows = rows, !.outcome = outcome]
          BY <2>1, <3>1, UpdateTop
        <4> QED
          BY <2>1, <2>2, <4>1 DEF Frame
      <3> QED
        BY <3>1 DEF Filter
    <2>6. Judge(t)
      BY <2>3, <2>4, <2>5, ReachesBy
    <2>7. ASSUME Finish(t, "refused")
          PROVE  FALSE
      <3>1. Top(t)' = [Top(t) EXCEPT !.stage = "done", !.outcome = "refused"]
        BY <2>1, <2>7, UpdateTop DEF Finish
      <3> QED
        BY <2>1, <2>2, <3>1 DEF Frame
    <2>8. Allows(policy, Top(t).request.tool, Group(t))
      BY <2>6, <2>7 DEF Judge
    <2> QED
      BY <2>2, <2>8, AllowsItsCaller
  <1> HIDE DEF Governed
  <1>2. [][Governed]_vars => CallsAreGoverned
    <2> USE DEF Governed
    <2> QED
      BY PTL DEF CallsAreGoverned
  <1> QED
    BY <1>1, <1>2, Inductive, PTL DEF Spec

(* A listing, a search and a description show exactly what the registry    *)
(* permits to the group their caller named.                                *)
THEOREM ViewsGoverned == Spec => ViewIsTheCallers
  <1> DEFINE Views ==
        \A t \in Tasks :
            /\ Reaches(t, "fetched") =>
                Top(t)'.rows = IF listMode = "all" \/ Top(t).request.op = "search"
                                  \/ WantsAll(frames[t], depth[t])
                               THEN catalog ELSE {}
            /\ Reaches(t, "done") /\ Top(t)'.outcome = "listed" =>
                Top(t)'.rows = {tool \in Top(t).rows :
                                  Permitted(servers, groups, tool,
                                            AskedGroup(frames[t], depth[t]))}
  <1>1. TypeOK /\ Nested /\ [Next]_vars => [Views]_vars
    <2> SUFFICES ASSUME TypeOK, Nested, [Next]_vars, NEW t \in Tasks, depth[t] > 0,
                        NEW stage \in {"fetched", "done"}, Reaches(t, stage)
                 PROVE  /\ stage = "fetched" =>
                            Top(t)'.rows = IF listMode = "all" \/ Top(t).request.op = "search"
                                              \/ WantsAll(frames[t], depth[t])
                                           THEN catalog ELSE {}
                        /\ stage = "done" /\ Top(t)'.outcome = "listed" =>
                            Top(t)'.rows = {tool \in Top(t).rows :
                                              Permitted(servers, groups, tool,
                                                        AskedGroup(frames[t], depth[t]))}
      BY DEF Reaches
    <2> DEFINE f == Top(t)
    <2>1. Top(t)'.stage = stage /\ f.stage # stage
      BY DEF Reaches, In
    <2>2. f \in Frame
      BY TopType
    <2>3. CASE Judge(t)
      <3>1. ASSUME Update(t, [f EXCEPT !.stage = "judged"])
            PROVE  FALSE
        <4>1. Top(t)' = [f EXCEPT !.stage = "judged"]
          BY <3>1, UpdateTop
        <4> QED
          BY <2>1, <2>2, <4>1 DEF Frame
      <3>2. ASSUME Finish(t, "refused")
            PROVE  Top(t)'.stage = "done" /\ Top(t)'.outcome = "refused"
        <4>1. Top(t)' = [f EXCEPT !.stage = "done", !.outcome = "refused"]
          BY <3>2, UpdateTop DEF Finish
        <4> QED
          BY <2>2, <4>1 DEF Frame
      <3> QED
        BY <2>1, <2>3, <3>1, <3>2 DEF Judge
    <2>4. CASE Fetch(t)
      <3>1. ASSUME NEW rows, Update(t, [f EXCEPT !.stage = "fetched", !.rows = rows])
            PROVE  Top(t)'.rows = rows /\ stage = "fetched"
        <4>1. Top(t)' = [f EXCEPT !.stage = "fetched", !.rows = rows]
          BY <3>1, UpdateTop
        <4> QED
          BY <2>1, <2>2, <4>1 DEF Frame
      <3>2. context[t].full = WantsAll(frames[t], depth[t])
        BY DEF Nested, Agrees
      <3>3. listMode \in {"all", "meta"}
        BY DEF TypeOK
      <3>4. CASE f.request.op = "search"
        BY <2>4, <3>1, <3>4 DEF Fetch
      <3>5. CASE f.request.op # "search"
        <4>1. Top(t)'.rows = Listing(t) /\ stage = "fetched"
          BY <2>4, <3>1, <3>5 DEF Fetch
        <4> QED
          BY <3>2, <3>3, <3>5, <4>1 DEF Listing
      <3> QED
        BY <3>4, <3>5
    <2>5. CASE Filter(t)
      <3> DEFINE shown == FilterTools(policy, f.rows, Group(t))
      <3>1. PICK outcome \in {"listed", "missing"} :
                Update(t, [f EXCEPT !.stage = "done", !.rows = shown, !.outcome = outcome])
        BY <2>5 DEF Filter
      <3>2. Top(t)' = [f EXCEPT !.stage = "done", !.rows = shown, !.outcome = outcome]
        BY <3>1, UpdateTop
      <3>3. \A tool \in f.rows : Allows(policy, tool, Group(t))
                <=> Permitted(servers, groups, tool, AskedGroup(frames[t], depth[t]))
        BY <2>2, AllowsItsCaller DEF Frame
      <3>4. shown = {tool \in f.rows : Permitted(servers, groups, tool,
                                                 AskedGroup(frames[t], depth[t]))}
        BY <3>3 DEF FilterTools
      <3> HIDE DEF shown
      <3>5. Top(t)'.rows = shown /\ Top(t)'.stage = "done"
        BY <2>2, <3>2 DEF Frame
      <3> QED
        BY <2>1, <3>4, <3>5
    <2>6. CASE Connect(t) \/ Send(t) \/ Abort(t)
                \/ \E given \in SUBSET Headers : RunConnectHook(t, given)
      BY <2>1, <2>6, Brings
    <2> QED
      BY <2>3, <2>4, <2>5, <2>6, ReachesBy
  <1> HIDE DEF Views
  <1>2. [][Views]_vars => ViewIsTheCallers
    <2> USE DEF Views
    <2> QED
      BY PTL DEF ViewIsTheCallers
  <1> QED
    BY <1>1, <1>2, Inductive, PTL DEF Spec
-----------------------------------------------------------------------------
(* What an upstream is sent *)

(* Headers of the k-th request: of every static header of its server, the  *)
(* values its caller means, or what a hook put in its place.               *)
Fit(headers, stack, k) ==
    LET static == StaticHeaders[stack[k].request.tool.namespace]
    IN  \A h \in DOMAIN static :
            /\ h \in DOMAIN headers
            /\ \/ headers[h] = Verbatim
               \/ \A ref \in static[h] :
                    /\ ref \in DOMAIN headers[h]
                    /\ headers[h][ref] \in Values
                    /\ ref \in Vars => headers[h][ref] = OwnValue(stack, k, ref)

(* They fit from the moment the call connects, whatever hooks layer on.    *)
Sealed(stack, k) ==
    stack[k].request.op = "call" /\ (stack[k].stage = "connecting" \/ stack[k].outcome = "sent")
        => Fit(stack[k].headers, stack, k)

(* invoke_tool's own call sits on the request that made it: what its       *)
(* return hands on is never taken for an answer to a call.                 *)
OnBehalf(stack, k) ==
    stack[k].request.entry = "invoke" => k > 1 /\ stack[k - 1].request.op = "invoke"

Carried == \A t \in Tasks : \A k \in 1..depth[t] : Sealed(frames[t], k) /\ OnBehalf(frames[t], k)

LEMMA SameFit ==
    ASSUME NEW s1, NEW s2, NEW k \in Nat \ {0},
           \A j \in 1..k : Alike(s2[j], s1[j]),
           NEW headers, Fit(headers, s1, k)
    PROVE  Fit(headers, s2, k)
  <1>1. s2[k].request = s1[k].request
    BY DEF Alike
  <1>2. \A v \in Vars : OwnValue(s2, k, v) = OwnValue(s1, k, v)
    BY SameRequests
  <1> QED
    BY <1>1, <1>2 DEF Fit

(* A frame that is as it was, under requests that are as they were.        *)
LEMMA SameCarried ==
    ASSUME NEW s1, NEW s2, NEW k \in Nat \ {0},
           \A j \in 1..k : Alike(s2[j], s1[j]),
           s2[k] = s1[k], Sealed(s1, k) /\ OnBehalf(s1, k)
    PROVE  Sealed(s2, k) /\ OnBehalf(s2, k)
  <1>1. Sealed(s2, k)
    BY SameFit DEF Sealed
  <1>2. k > 1 => s2[k - 1].request = s1[k - 1].request
    BY DEF Alike
  <1> QED
    BY <1>1, <1>2 DEF OnBehalf

(* connect.py resolves the references under the caller's variables; hooks  *)
(* then replace headers as a whole.                                        *)
LEMMA ConnectFits ==
    ASSUME TypeOK, Nested, NEW t \in Tasks, depth[t] > 0,
           Resolvable(t, StaticHeaders[Top(t).request.tool.namespace])
    PROVE  Fit(Resolve(t, StaticHeaders[Top(t).request.tool.namespace]), frames[t], depth[t])
  <1> DEFINE static == StaticHeaders[Top(t).request.tool.namespace]
  <1>1. Top(t).request.tool.namespace \in Names
    BY TopType DEF Tool
  <1>2. \A h \in DOMAIN static : static[h] \subseteq References
    BY <1>1, ScopeAssumption
  <1>3. DOMAIN Resolve(t, static) = DOMAIN static
    BY DEF Resolve
  <1>4. ASSUME NEW h \in DOMAIN static, NEW ref \in static[h]
        PROVE  /\ Resolve(t, static)[h] = [r \in static[h] |-> LookUp(t, r)]
               /\ ref \in DOMAIN Resolve(t, static)[h]
               /\ Resolve(t, static)[h][ref] = LookUp(t, ref)
    BY DEF Resolve
  <1>5. ASSUME NEW h \in DOMAIN static, NEW ref \in static[h]
        PROVE  /\ LookUp(t, ref) \in Values
               /\ ref \in Vars => LookUp(t, ref) = OwnValue(frames[t], depth[t], ref)
    BY <1>2, LookUpType DEF Resolvable, LookUp, Nested, Agrees
  <1> QED
    BY <1>3, <1>4, <1>5 DEF Fit, Top

LEMMA LayeredFits ==
    ASSUME NEW headers, NEW given, NEW stack, NEW k, Fit(headers, stack, k)
    PROVE  Fit(Layered(headers, given), stack, k)
  BY DEF Fit, Layered

(* What each step of a request makes of the headers of its frame.          *)
LEMMA Seals ==
    ASSUME TypeOK, Nested, Carried, NEW t \in Tasks, depth[t] > 0,
           \/ Judge(t) \/ Fetch(t) \/ Filter(t) \/ Connect(t) \/ Send(t) \/ Abort(t)
           \/ \E given \in SUBSET Headers : RunConnectHook(t, given),
           Top(t)'.stage = "connecting" \/ Top(t)'.outcome = "sent", Top(t).request.op = "call"
    PROVE  Fit(Top(t)'.headers, frames[t], depth[t])
  <1> DEFINE f == Top(t)
             g == Top(t)'
             Goal == Fit(g.headers, frames[t], depth[t])
  <1>1. f \in Frame /\ depth[t] \in 1..depth[t]
    BY TopType
  <1>2. f.stage = "connecting" \/ f.outcome = "sent" => Fit(f.headers, frames[t], depth[t])
    BY <1>1 DEF Carried, Sealed, Top
  <1>3. ASSUME NEW outcome, Finish(t, outcome)
        PROVE  g.stage = "done" /\ g.outcome = outcome /\ g.headers = f.headers
    <2>1. g = [f EXCEPT !.stage = "done", !.outcome = outcome]
      BY <1>3, UpdateTop DEF Finish
    <2> QED
      BY <1>1, <2>1 DEF Frame
  <1>4. CASE Judge(t)
    <2>1. CASE Update(t, [f EXCEPT !.stage = "judged"])
      <3>1. g = [f EXCEPT !.stage = "judged"]
        BY <2>1, UpdateTop
      <3>2. g.stage = "judged" /\ g.outcome = f.outcome /\ g.headers = f.headers
        BY <1>1, <3>1 DEF Frame
      <3> QED
        BY <1>2, <3>2
    <2>2. CASE Finish(t, "refused")
      BY <1>3, <2>2
    <2> QED
      BY <1>4, <2>1, <2>2 DEF Judge
  <1>5. CASE Fetch(t)
    <2>1. PICK rows : Update(t, [f EXCEPT !.stage = "fetched", !.rows = rows])
      BY <1>5 DEF Fetch
    <2>2. g = [f EXCEPT !.stage = "fetched", !.rows = rows]
      BY <2>1, UpdateTop
    <2>3. g.stage = "fetched" /\ g.outcome = f.outcome /\ g.headers = f.headers
      BY <1>1, <2>2 DEF Frame
    <2> QED
      BY <1>2, <2>3
  <1>6. CASE Filter(t)
    <2>1. PICK rows \in SUBSET f.rows, outcome \in {"listed", "missing"} :
              Update(t, [f EXCEPT !.stage = "done", !.rows = rows, !.outcome = outcome])
      BY <1>6 DEF Filter, FilterTools
    <2>2. g = [f EXCEPT !.stage = "done", !.rows = rows, !.outcome = outcome]
      BY <2>1, UpdateTop
    <2>3. g.stage = "done" /\ g.outcome = outcome
      BY <1>1, <2>2 DEF Frame
    <2> QED
      BY <2>1, <2>3
  <1>7. CASE Connect(t)
    <2> DEFINE static == StaticHeaders[f.request.tool.namespace]
               resolved == Resolve(t, static)
    <2>1. CASE Resolvable(t, static)
      <3>1. Update(t, [f EXCEPT !.stage = "connecting", !.headers = resolved])
        BY <1>7, <2>1 DEF Connect
      <3>2. Fit(resolved, frames[t], depth[t])
        BY <2>1, ConnectFits
      <3> HIDE DEF resolved
      <3>3. g = [f EXCEPT !.stage = "connecting", !.headers = resolved]
        BY <3>1, UpdateTop
      <3>4. g.headers = resolved
        BY <1>1, <3>3 DEF Frame
      <3> QED
        BY <3>2, <3>4
    <2>2. CASE ~Resolvable(t, static)
      BY <1>3, <1>7, <2>2 DEF Connect
    <2> QED
      BY <2>1, <2>2
  <1>8. ASSUME NEW given \in SUBSET Headers, RunConnectHook(t, given)
        PROVE  Goal
    <2> DEFINE layered == Layered(f.headers, given)
    <2>1. /\ f.stage = "connecting"
          /\ Update(t, [f EXCEPT !.turn = f.turn + 1, !.headers = layered])
      BY <1>8 DEF RunConnectHook, In
    <2>2. Fit(layered, frames[t], depth[t])
      BY <1>2, <2>1, LayeredFits
    <2> HIDE DEF layered
    <2>3. g = [f EXCEPT !.turn = f.turn + 1, !.headers = layered]
      BY <2>1, UpdateTop
    <2>4. g.headers = layered
      BY <1>1, <2>3 DEF Frame
    <2> QED
      BY <2>2, <2>4
  <1>9. CASE Send(t)
    BY <1>2, <1>3, <1>9 DEF Send, In
  <1>10. CASE Abort(t)
    BY <1>3, <1>10 DEF Abort
  <1> QED
    BY <1>4, <1>5, <1>6, <1>7, <1>8, <1>9, <1>10

LEMMA AdvanceCarries ==
    ASSUME TypeOK, Nested, Carried, NEW t \in Tasks, depth[t] > 0, Advance(t),
           \/ Judge(t) \/ Fetch(t) \/ Filter(t) \/ Connect(t) \/ Send(t) \/ Abort(t)
           \/ \E given \in SUBSET Headers : RunConnectHook(t, given)
    PROVE  Carried'
  <1>1. PICK g \in KeptBy(Top(t)) : Update(t, g)
    BY DEF Advance
  <1>2. /\ depth[t] \in 1..MaxDepth /\ frames \in [Tasks -> Stack]
        /\ depth \in [Tasks -> 0..MaxDepth]
    BY TopType DEF TypeOK, Stack
  <1>3. depth' = depth /\ Top(t)' = g /\ g.request = Top(t).request /\ g.scope = Top(t).scope
        /\ frames' = [frames EXCEPT ![t] = [frames[t] EXCEPT ![depth[t]] = g]]
    BY <1>1, UpdateTop DEF Update, KeptBy, Alike
  <1>4. /\ frames'[t][depth[t]] = g
        /\ \A j \in 1..MaxDepth : j # depth[t] => frames'[t][j] = frames[t][j]
        /\ \A u \in Tasks : u # t => frames'[u] = frames[u]
    <2>1. frames[t] \in Stack /\ frames'[t] = [frames[t] EXCEPT ![depth[t]] = g]
      BY <1>2, <1>3
    <2>2. \A u \in Tasks : u # t => frames'[u] = frames[u]
      BY <1>2, <1>3
    <2> QED
      BY <1>2, <2>1, <2>2 DEF Stack
  <1>5. ASSUME NEW u \in Tasks, NEW k \in 1..depth[u]
        PROVE  /\ k \in Nat \ {0}
               /\ \A j \in 1..k : Alike(frames'[u][j], frames[u][j])
    <2>1. \A j \in 1..k : j \in 1..MaxDepth
      BY <1>2, ScopeAssumption
    <2> QED
      BY <1>3, <1>4, <2>1 DEF Top, Alike
  <1>6. ASSUME NEW u \in Tasks, NEW k \in 1..depth[u], u # t \/ k # depth[t]
        PROVE  (Sealed(frames[u], k) /\ OnBehalf(frames[u], k))'
    <2>1. k \in 1..MaxDepth
      BY <1>2, ScopeAssumption
    <2>2. frames'[u][k] = frames[u][k]
      BY <1>4, <1>6, <2>1
    <2> QED
      BY <1>5, <2>2, SameCarried DEF Carried
  <1>7. (Sealed(frames[t], depth[t]) /\ OnBehalf(frames[t], depth[t]))'
    <2>1. depth[t] \in 1..depth[t]
      BY <1>2
    <2>2. Top(t).request.op = "call" /\ (g.stage = "connecting" \/ g.outcome = "sent")
            => Fit(g.headers, frames[t], depth[t])
      BY <1>3, Seals
    <2>4. Sealed(frames'[t], depth[t])
      BY <1>3, <1>4, <1>5, <2>1, <2>2, SameFit DEF Sealed, Top
    <2>5. depth[t] > 1 => Alike(frames'[t][depth[t] - 1], frames[t][depth[t] - 1])
      BY <1>2, <1>5, <2>1, ScopeAssumption
    <2>6. OnBehalf(frames[t], depth[t])
      BY <2>1 DEF Carried
    <2>7. OnBehalf(frames'[t], depth[t])
      BY <1>5, <2>1, <2>5, <2>6 DEF OnBehalf, Alike
    <2> QED
      BY <1>3, <2>4, <2>7
  <1> QED
    BY <1>3, <1>6, <1>7 DEF Carried

LEMMA PushCarries ==
    ASSUME TypeOK, Carried, NEW t \in Tasks, NEW r, NEW scope, NEW c, Push(t, r, scope, c)
    PROVE  Carried'
  <1> DEFINE new == Opened(r, scope, context[t])
             n == depth[t] + 1
  <1>1. /\ frames \in [Tasks -> Stack] /\ depth \in [Tasks -> 0..MaxDepth]
        /\ n \in 1..MaxDepth /\ depth[t] \in Nat
    BY ScopeAssumption DEF TypeOK, Stack, Push
  <1>2. /\ frames' = [frames EXCEPT ![t] = [frames[t] EXCEPT ![n] = new]]
        /\ depth' = [depth EXCEPT ![t] = n]
    BY DEF Push
  <1>3. new.request = r /\ new.stage = "entered" /\ new.outcome = "none"
    BY DEF Opened
  <1>4. r.entry = "invoke" => n > 1 /\ frames[t][n - 1].request.op = "invoke"
    BY <1>1 DEF Push, Entered, Top
  <1> HIDE DEF new
  <1>5. /\ frames'[t][n] = new
        /\ \A j \in 1..MaxDepth : j # n => frames'[t][j] = frames[t][j]
        /\ \A u \in Tasks : u # t => frames'[u] = frames[u]
    <2> HIDE DEF n
    <2>1. frames[t] \in Stack /\ frames'[t] = [frames[t] EXCEPT ![n] = new]
      BY <1>1, <1>2
    <2>2. \A u \in Tasks : u # t => frames'[u] = frames[u]
      BY <1>1, <1>2
    <2> QED
      BY <1>1, <2>1, <2>2 DEF Stack
  <1>6. depth'[t] = n /\ \A u \in Tasks : u # t => depth'[u] = depth[u]
    BY <1>1, <1>2
  <1>7. ASSUME NEW k \in 1..depth[t]
        PROVE  Sealed(frames'[t], k) /\ OnBehalf(frames'[t], k)
    <2>1. \A j \in 1..k : frames'[t][j] = frames[t][j]
      BY <1>1, <1>5, ScopeAssumption
    <2>2. k \in Nat \ {0} /\ frames'[t][k] = frames[t][k]
      BY <2>1
    <2> QED
      BY <2>1, <2>2, SameCarried DEF Carried, Alike
  <1>8. Sealed(frames'[t], n) /\ OnBehalf(frames'[t], n)
    <2>1. n > 1 => frames'[t][n - 1] = frames[t][n - 1]
      BY <1>1, <1>5, ScopeAssumption
    <2> QED
      BY <1>3, <1>4, <1>5, <2>1 DEF Sealed, OnBehalf
  <1>9. ASSUME NEW u \in Tasks, NEW k \in 1..depth'[u]
        PROVE  Sealed(frames'[u], k) /\ OnBehalf(frames'[u], k)
    <2>1. CASE u # t
      BY <1>5, <1>6, <2>1 DEF Carried
    <2>2. CASE u = t
      <3>1. k = n \/ k \in 1..depth[t]
        BY <1>1, <1>6, <2>2
      <3> QED
        BY <1>7, <1>8, <2>2, <3>1
    <2> QED
      BY <2>1, <2>2
  <1> QED
    BY <1>9 DEF Carried

LEMMA LeaveCarries ==
    ASSUME TypeOK, Carried, NEW t \in Tasks, Leave(t)
    PROVE  Carried'
  <1> DEFINE m == depth[t] - 1
  <1>1. /\ depth[t] \in 1..MaxDepth
        /\ \A u \in Tasks : u # t => frames'[u] = frames[u]
        /\ \A k \in 1..m :
                /\ Alike(frames'[t][k], frames[t][k])
                /\ \/ frames'[t][k] = frames[t][k]
                   \/ Top(t).request.entry = "invoke" /\ k = m
    BY LeaveFrames
  <1>2. depth \in [Tasks -> 0..MaxDepth] /\ depth' = [depth EXCEPT ![t] = m]
    BY DEF Leave, TypeOK
  <1>3. m \in 0..MaxDepth /\ depth[t] = m + 1 /\ depth[t] \in 1..depth[t]
    BY <1>1, ScopeAssumption
  <1>4. depth'[t] = m /\ \A u \in Tasks : u # t => depth'[u] = depth[u]
    BY <1>2
  <1>5. Top(t).request.entry = "invoke" => frames[t][m].request.op = "invoke"
    BY <1>3 DEF Carried, OnBehalf, Top
  <1> HIDE DEF m
  <1>6. ASSUME NEW k \in 1..m
        PROVE  Sealed(frames'[t], k) /\ OnBehalf(frames'[t], k)
    <2>1. /\ k \in 1..depth[t] /\ k \in Nat \ {0}
          /\ \A j \in 1..k : Alike(frames'[t][j], frames[t][j])
      BY <1>1, <1>3, ScopeAssumption
    <2>2. Sealed(frames[t], k) /\ OnBehalf(frames[t], k)
      BY <2>1 DEF Carried
    <2>3. CASE frames'[t][k] = frames[t][k]
      BY <2>1, <2>2, <2>3, SameCarried
    <2>4. CASE Top(t).request.entry = "invoke" /\ k = m
      <3>1. frames'[t][k].request.op = "invoke"
        BY <1>5, <2>1, <2>4 DEF Alike
      <3>2. k > 1 => frames'[t][k - 1].request = frames[t][k - 1].request
        BY <2>1 DEF Alike
      <3>3. frames'[t][k].request = frames[t][k].request
        BY <2>1 DEF Alike
      <3> QED
        BY <2>2, <3>1, <3>2, <3>3 DEF Sealed, OnBehalf
    <2> QED
      BY <1>1, <2>3, <2>4
  <1>7. ASSUME NEW u \in Tasks, NEW k \in 1..depth'[u]
        PROVE  Sealed(frames'[u], k) /\ OnBehalf(frames'[u], k)
    <2>1. CASE u # t
      BY <1>1, <1>4, <2>1 DEF Carried
    <2>2. CASE u = t
      BY <1>4, <1>6, <2>2
    <2> QED
      BY <2>1, <2>2
  <1> QED
    BY <1>7 DEF Carried

(* An upstream is sent the variables its caller bound, in a session when   *)
(* it opened it, and secrets that were there, whatever requests nest in    *)
(* the call and whatever sessions there are, or it is sent nothing.        *)
THEOREM VariablesAreTheCallers == Spec => []OwnVariables
  <1>1. Init => Carried
    <2>1. Init => \A t \in Tasks : depth[t] = 0
      BY DEF Init
    <2> QED
      BY <2>1 DEF Carried
  <1>2. TypeOK /\ Nested /\ Carried /\ [Next]_vars => Carried'
    <2> SUFFICES ASSUME TypeOK, Nested, Carried, [Next]_vars
                 PROVE  Carried'
      OBVIOUS
    <2>1. CASE UNCHANGED <<depth, frames>>
      BY <2>1 DEF Carried
    <2>2. ASSUME NEW t \in Tasks, Step(t), ~UNCHANGED <<depth, frames>>
          PROVE  Carried'
      <3>1. ASSUME NEW r, NEW scope, NEW c, Push(t, r, scope, c)
            PROVE  Carried'
        BY <3>1, PushCarries
      <3>2. CASE Leave(t)
        BY <3>2, LeaveCarries
      <3>3. ASSUME ~Leave(t), \A r, scope, c : ~Push(t, r, scope, c)
            PROVE  Carried'
        <4>1. /\ \A r \in Requests : ~Enter(t, r)
              /\ \A s \in Sessions, r \in Requests : ~Continue(t, s, r) /\ ~OpenSession(t, s, r)
          BY <2>2, <3>3 DEF Enter, Continue, OpenSession
        <4>2. depth[t] > 0 /\ Advance(t)
          BY <2>2, <3>3, <4>1, Shape
        <4> QED
          BY <2>2, <3>3, <4>1, <4>2, AdvanceCarries DEF Step
      <3> QED
        BY <3>1, <3>2, <3>3
    <2> QED
      BY <2>1, <2>2 DEF Next, EndSession, Reload, Rotate, vars
  <1>3. Carried => OwnVariables
    BY DEF Carried, Sealed, Fit, OwnVariables
  <1> QED
    BY <1>1, <1>2, <1>3, Inductive, PTL DEF Spec
-----------------------------------------------------------------------------
(* What a search finds *)

(* The place of i among the positions in S. *)
Rank(S, i) == Cardinality({k \in S : k <= i})

(* A sequence is what the source holds at the positions in S, in order.    *)
Lists(seq, S, source) ==
    /\ Len(seq) = Cardinality(S)
    /\ \A i \in S : seq[Rank(S, i)] = source[i]
    /\ \A j \in 1..Len(seq) : \E i \in S : Rank(S, i) = j

(* What is left to prove of a set of numbers fails for a least one first.  *)
LEMMA LeastOf ==
    ASSUME NEW T \in SUBSET Nat, T # {}
    PROVE  \E m \in T : \A y \in T : ~(y < m)
  <1>1. PICK m \in T : \A y \in T : ~(<<y, m>> \in Below)
    BY BelowWellFounded, WFMin
  <1> QED
    BY <1>1 DEF Below

LEMMA Finite ==
    ASSUME NEW n \in Nat, NEW S \in SUBSET (1..n)
    PROVE  IsFiniteSet(S) /\ Cardinality(S) \in Nat /\ \A k \in S : k \in Nat
  <1>1. 1 \in Int /\ n \in Int
    OBVIOUS
  <1>2. IsFiniteSet(1..n)
    BY <1>1, FS_Interval
  <1>3. IsFiniteSet(S)
    BY <1>2, FS_Subset
  <1> QED
    BY <1>3, FS_CardinalityType

LEMMA RankBounds ==
    ASSUME NEW n \in Nat, NEW S \in SUBSET (1..n), NEW i \in S
    PROVE  /\ Rank(S, i) \in 1..Cardinality(S)
           /\ Rank(S, i) = Cardinality({k \in S : k < i}) + 1
  <1> DEFINE upto == {k \in S : k <= i}
             below == {k \in S : k < i}
  <1>1. IsFiniteSet(S) /\ IsFiniteSet(below) /\ Cardinality(below) \in Nat /\ Cardinality(S) \in Nat
    BY Finite
  <1>2. upto = below \cup {i} /\ i \notin below /\ upto \in SUBSET S
    <2>1. \A k \in S : k <= i <=> k < i \/ k = i
      BY Finite
    <2>2. ~(i < i)
      BY Finite
    <2> QED
      BY <2>1, <2>2
  <1> HIDE DEF upto, below
  <1>3. Cardinality(upto) = Cardinality(below) + 1
    BY <1>1, <1>2, FS_AddElement
  <1>4. Cardinality(upto) <= Cardinality(S)
    BY <1>1, <1>2, FS_Subset
  <1> QED
    BY <1>1, <1>3, <1>4 DEF Rank, upto, below

(* Later positions have later places. *)
LEMMA RankGrows ==
    ASSUME NEW n \in Nat, NEW S \in SUBSET (1..n), NEW i \in S, NEW j \in S, i < j
    PROVE  Rank(S, i) < Rank(S, j)
  <1> DEFINE upto == {k \in S : k <= i}
             below == {k \in S : k < j}
  <1>1. IsFiniteSet(below) /\ Cardinality(below) \in Nat
    BY Finite
  <1>2. upto \in SUBSET below
    <2>1. \A k \in S : k <= i => k < j
      BY Finite
    <2> QED
      BY <2>1
  <1>3. Cardinality(upto) <= Cardinality(below) /\ Cardinality(upto) \in Nat
    BY <1>1, <1>2, FS_Subset, FS_CardinalityType
  <1>4. Rank(S, j) = Cardinality(below) + 1
    BY RankBounds
  <1> QED
    BY <1>1, <1>3, <1>4 DEF Rank

(* The function by which filter_tools is defined exists: were there a      *)
(* least length up to which there is none, one step would make one.        *)
Seen(seen, source, S, n) ==
    seen = [i \in 0..n |-> IF i = 0 THEN << >>
                           ELSE IF i \in S THEN Append(seen[i - 1], source[i]) ELSE seen[i - 1]]

LEMMA SeenExists ==
    ASSUME NEW source, NEW S, NEW n \in Nat
    PROVE  \E seen : Seen(seen, source, S, n)
  <1> DEFINE T == {m \in Nat : ~\E seen : Seen(seen, source, S, m)}
  <1> SUFFICES ASSUME T # {} PROVE FALSE
    OBVIOUS
  <1>1. PICK m \in T : \A y \in T : ~(y < m)
    <2> HIDE DEF T
    <2>1. T \in SUBSET Nat
      BY DEF T
    <2> QED
      BY <2>1, LeastOf
  <1>2. CASE m = 0
    <2> DEFINE start == [i \in 0..0 |-> << >>]
    <2>1. Seen(start, source, S, 0)
      BY DEF Seen
    <2> QED
      BY <1>2, <2>1
  <1>3. CASE m # 0
    <2>1. m - 1 \in Nat /\ m - 1 < m /\ m - 1 \notin T
      BY <1>1, <1>3
    <2>2. PICK old : Seen(old, source, S, m - 1)
      BY <2>1
    <2> DEFINE last == IF m \in S THEN Append(old[m - 1], source[m]) ELSE old[m - 1]
               new == [i \in 0..m |-> IF i = m THEN last ELSE old[i]]
    <2>3. ASSUME NEW i \in 0..(m - 1)
          PROVE  /\ old[i] = IF i = 0 THEN << >>
                             ELSE IF i \in S THEN Append(old[i - 1], source[i]) ELSE old[i - 1]
                 /\ new[i] = old[i]
      <3>1. old[i] = IF i = 0 THEN << >>
                     ELSE IF i \in S THEN Append(old[i - 1], source[i]) ELSE old[i - 1]
        BY <2>2 DEF Seen
      <3>2. i \in 0..m /\ i # m
        BY <2>1
      <3> HIDE DEF last
      <3> QED
        BY <3>1, <3>2
    <2>4. new[m] = last /\ new[m - 1] = old[m - 1]
      BY <2>1
    <2>5. ASSUME NEW i \in 0..m
          PROVE  new[i] = IF i = 0 THEN << >>
                          ELSE IF i \in S THEN Append(new[i - 1], source[i]) ELSE new[i - 1]
      <3>1. CASE i = m
        BY <1>3, <2>4, <3>1
      <3>2. CASE i # m
        <4>1. i \in 0..(m - 1) /\ (i # 0 => i - 1 \in 0..(m - 1))
          BY <3>2
        <4>2. old[i] = IF i = 0 THEN << >>
                       ELSE IF i \in S THEN Append(old[i - 1], source[i]) ELSE old[i - 1]
          BY <2>3, <4>1
        <4>3. new[i] = old[i] /\ (i # 0 => new[i - 1] = old[i - 1])
          BY <2>3, <4>1
        <4> HIDE DEF new
        <4> QED
          BY <4>2, <4>3
      <3> QED
        BY <3>1, <3>2
    <2>6. Seen(new, source, S, m)
      <3>1. new = [i \in 0..m |-> new[i]]
        OBVIOUS
      <3> HIDE DEF new
      <3> QED
        BY <2>5, <3>1 DEF Seen
    <2> QED
      BY <2>6
  <1> QED
    BY <1>2, <1>3

(* After n candidates it holds those of them that are in S, in order.      *)
LEMMA SeenLists ==
    ASSUME NEW E, NEW N \in Nat, NEW source, \A i \in 1..N : source[i] \in E,
           NEW S \in SUBSET (1..N), NEW seen, Seen(seen, source, S, N), NEW n \in 0..N
    PROVE  seen[n] \in Seq(E) /\ \A U : U = {i \in S : i <= n} => Lists(seen[n], U, source)
  <1> DEFINE Upto(m) == {i \in S : i <= m}
             Good(m) == seen[m] \in Seq(E) /\ Lists(seen[m], Upto(m), source)
             T == {m \in 0..N : ~Good(m)}
  <1> SUFFICES ASSUME T # {} PROVE FALSE
    OBVIOUS
  <1>1. PICK m \in T : \A y \in T : ~(y < m)
    <2> HIDE DEF T
    <2>1. T \in SUBSET Nat
      BY DEF T
    <2> QED
      BY <2>1, LeastOf
  <1>0. ASSUME NEW k \in S PROVE k \in Nat /\ (k <= m - 1 <=> k <= m /\ k # m)
    BY Finite
  <1>2. m \in 0..N /\ ~Good(m) /\ \A k \in S : k \in 1..N
    OBVIOUS
  <1>3. seen[m] = IF m = 0 THEN << >>
                  ELSE IF m \in S THEN Append(seen[m - 1], source[m]) ELSE seen[m - 1]
    BY <1>2 DEF Seen
  <1>4. CASE m = 0
    <2>1. Upto(m) = {} /\ seen[m] = << >>
      <3>1. \A k \in S : ~(k <= m)
        BY <1>2, <1>4
      <3> QED
        BY <1>3, <1>4, <3>1
    <2>2. << >> \in Seq(E) /\ Lists(<< >>, {}, source)
      BY FS_EmptySet DEF Lists
    <2> QED
      BY <1>2, <2>1, <2>2
  <1>5. CASE m # 0
    <2> DEFINE old == seen[m - 1]
    <2>1. m - 1 \in 0..N /\ m - 1 < m /\ m \in 1..N
      BY <1>2, <1>5
    <2>2. old \in Seq(E) /\ Lists(old, Upto(m - 1), source)
      BY <1>1, <2>1
    <2>3. CASE m \notin S
      <3>1. Upto(m) = Upto(m - 1)
        BY <1>0, <2>3
      <3>2. seen[m] = old
        BY <1>3, <1>5, <2>3
      <3> QED
        BY <1>2, <2>2, <3>1, <3>2
    <2>4. CASE m \in S
      <3> DEFINE new == Append(old, source[m])
                 few == Upto(m - 1)
                 all == Upto(m)
      <3>1. seen[m] = new /\ source[m] \in E
        BY <1>3, <1>5, <2>1, <2>4
      <3>2. all = few \cup {m} /\ m \notin few /\ few \in SUBSET (1..N) /\ all \in SUBSET (1..N)
        <4>1. m <= m /\ m - 1 < m
          BY <2>1
        <4> QED
          BY <1>0, <2>4, <4>1
      <3>3. ASSUME NEW i \in few
            PROVE  i < m /\ {k \in all : k <= i} = {k \in few : k <= i}
        <4>1. i < m
          BY <1>0, <2>1
        <4>2. \A k \in S : k <= i => k <= m - 1
          BY <1>0, <2>1
        <4> QED
          BY <1>0, <4>1, <4>2
      <3>4. {k \in all : k <= m} = all
        BY <1>2
      <3>5. Len(old) = Cardinality(few) /\ (\A i \in few : old[Rank(few, i)] = source[i])
            /\ \A j \in 1..Len(old) : \E i \in few : Rank(few, i) = j
        BY <2>2 DEF Lists
      <3> HIDE DEF few, all, old
      <3>6. IsFiniteSet(few) /\ Cardinality(few) \in Nat
        BY <3>2, Finite
      <3>7. Cardinality(all) = Cardinality(few) + 1
        BY <3>2, <3>6, FS_AddElement
      <3>8. new \in Seq(E) /\ Len(new) = Len(old) + 1 /\ new[Len(old) + 1] = source[m]
            /\ \A j \in 1..Len(old) : new[j] = old[j]
        BY <2>2, <3>1 DEF old
      <3> HIDE DEF new
      <3>9. Rank(all, m) = Len(old) + 1
        BY <3>4, <3>5, <3>7 DEF Rank
      <3>10. ASSUME NEW i \in few
             PROVE  Rank(all, i) = Rank(few, i) /\ Rank(few, i) \in 1..Len(old)
        BY <3>2, <3>3, <3>5, RankBounds DEF Rank
      <3>11. \A i \in all : new[Rank(all, i)] = source[i]
        BY <3>2, <3>5, <3>8, <3>9, <3>10
      <3>12. ASSUME NEW j \in 1..Len(new)
             PROVE  \E i \in all : Rank(all, i) = j
        <4>1. j = Len(old) + 1 \/ j \in 1..Len(old)
          BY <3>5, <3>6, <3>8
        <4> QED
          BY <3>2, <3>5, <3>9, <3>10, <4>1
      <3>13. Lists(new, all, source)
        BY <3>5, <3>7, <3>8, <3>11, <3>12 DEF Lists
      <3> QED
        BY <1>2, <3>1, <3>8, <3>13 DEF all
    <2> QED
      BY <2>3, <2>4
  <1> QED
    BY <1>4, <1>5

(* Cutting the list after c hits keeps the first c positions.              *)
LEMMA FirstLists ==
    ASSUME NEW E, NEW seq \in Seq(E), NEW N \in Nat, NEW S \in SUBSET (1..N), NEW source,
           Lists(seq, S, source), NEW c \in Nat, NEW T, T = {i \in S : Rank(S, i) <= c}
    PROVE  Lists(First(c, seq), T, source)
  <1> DEFINE m == IF c < Len(seq) THEN c ELSE Len(seq)
  <1>1. /\ Len(seq) \in Nat /\ Len(seq) = Cardinality(S)
        /\ \A i \in S : seq[Rank(S, i)] = source[i]
        /\ \A j \in 1..Len(seq) : \E i \in S : Rank(S, i) = j
    BY LenProperties DEF Lists
  <1>2. m \in Nat /\ m <= Len(seq) /\ m <= c
    BY <1>1
  <1>3. ASSUME NEW i \in T
        PROVE  i \in S /\ Rank(S, i) \in 1..m /\ Rank(S, i) <= c /\ i \in Nat
    <2>1. i \in S /\ Rank(S, i) <= c /\ i \in Nat
      BY Finite
    <2>2. Rank(S, i) \in 1..Len(seq)
      BY <1>1, <2>1, RankBounds
    <2> QED
      BY <1>1, <2>1, <2>2
  <1>4. ASSUME NEW j \in 1..m
        PROVE  \E i \in T : Rank(S, i) = j
    <2>1. j \in 1..Len(seq) /\ j <= c
      BY <1>1, <1>2
    <2> QED
      BY <1>1, <2>1
  <1>5. First(c, seq) = SubSeq(seq, 1, m)
    BY DEF First
  <1>6. \A i \in 1..m : seq[i] \in E
    BY <1>1, <1>2, ElementOfSeq
  <1> HIDE DEF m
  <1>7. /\ Len(First(c, seq)) = m
        /\ \A j \in 1..m : First(c, seq)[j] = seq[j]
    <2>1. /\ Len(SubSeq(seq, 1, m)) = IF 1 <= m THEN m - 1 + 1 ELSE 0
          /\ \A j \in 1..(m - 1 + 1) : SubSeq(seq, 1, m)[j] = seq[1 + j - 1]
      BY <1>2, <1>6, SubSeqProperties
    <2> QED
      BY <1>2, <1>5, <2>1
  <1>8. Cardinality(T) = m
    <2> DEFINE rank == [i \in T |-> Rank(S, i)]
    <2>1. rank \in [T -> 1..m]
      BY <1>3
    <2>2. \A i, j \in T : rank[i] = rank[j] => i = j
      <3> SUFFICES ASSUME NEW i \in T, NEW j \in T, i < j PROVE rank[i] # rank[j]
        BY <1>3
      <3>1. Rank(S, i) < Rank(S, j)
        BY <1>3, RankGrows
      <3> QED
        BY <1>3, <3>1
    <2>3. \A j \in 1..m : \E i \in T : rank[i] = j
      BY <1>4
    <2> HIDE DEF rank
    <2>4. ExistsBijection(T, 1..m)
      BY <2>1, <2>2, <2>3 DEF ExistsBijection, Bijection, Injection, Surjection, IsInjective
    <2>5. IsFiniteSet(T)
      BY <1>3, Finite
    <2>6. Cardinality(1..m) = m
      BY <1>2, FS_Interval
    <2> QED
      BY <2>4, <2>5, <2>6, FS_Bijection
  <1>9. ASSUME NEW i \in T
        PROVE  Rank(T, i) = Rank(S, i)
    <2>1. ASSUME NEW k \in S, k <= i
          PROVE  k \in T
      <3>1. k = i \/ k < i
        BY <1>3, <2>1, Finite
      <3>2. CASE k < i
        <4>1. Rank(S, k) < Rank(S, i)
          BY <1>3, <3>2, RankGrows
        <4>2. Rank(S, k) \in 1..Cardinality(S) /\ Rank(S, i) \in 1..Cardinality(S)
          BY <1>3, RankBounds
        <4>3. Rank(S, k) <= c
          BY <1>1, <1>3, <4>1, <4>2
        <4> QED
          BY <4>3
      <3> QED
        BY <3>1, <3>2
    <2>2. {k \in T : k <= i} = {k \in S : k <= i}
      BY <2>1
    <2> QED
      BY <2>2 DEF Rank
  <1> QED
    BY <1>1, <1>2, <1>3, <1>4, <1>7, <1>8, <1>9 DEF Lists

(* filter_tools keeps what the policy allows, in the order it came in.     *)
LEMMA VisibleLists ==
    ASSUME NEW E, NEW candidates \in Seq(E), NEW compiled, NEW g
    PROVE  /\ Visible(compiled, candidates, g) \in Seq(E)
           /\ Lists(Visible(compiled, candidates, g),
                    {i \in 1..Len(candidates) : Allows(compiled, candidates[i], g)}, candidates)
  <1> DEFINE N == Len(candidates)
             S == {i \in 1..N : Allows(compiled, candidates[i], g)}
  <1>1. N \in Nat /\ \A i \in 1..N : candidates[i] \in E
    BY LenProperties, ElementOfSeq
  <1>2. ASSUME NEW seen
        PROVE  Seen(seen, candidates, S, N) <=>
                 seen = [n \in 0..N |-> IF n = 0 THEN << >>
                            ELSE IF Allows(compiled, candidates[n], g)
                                 THEN Append(seen[n - 1], candidates[n])
                            ELSE seen[n - 1]]
    <2>1. \A n \in 0..N : n # 0 => (n \in S <=> Allows(compiled, candidates[n], g))
      BY <1>1
    <2> HIDE DEF S
    <2> QED
      BY <2>1 DEF Seen
  <1>3. \E seen : Seen(seen, candidates, S, N)
    <2> HIDE DEF S, N
    <2> QED
      BY <1>1, SeenExists
  <1>4. PICK seen : Seen(seen, candidates, S, N) /\ Visible(compiled, candidates, g) = seen[N]
    <2> HIDE DEF S
    <2> QED
      BY <1>2, <1>3 DEF Visible
  <1>5. S = {i \in S : i <= N}
    BY <1>1
  <1>6. seen[N] \in Seq(E) /\ Lists(seen[N], S, candidates)
    <2>1. S \in SUBSET (1..N) /\ N \in 0..N
      BY <1>1
    <2>2. Seen(seen, candidates, S, N)
      BY <1>4
    <2> HIDE DEF S, N
    <2> QED
      BY <1>1, <1>5, <2>1, <2>2, SeenLists
  <1> HIDE DEF S, N
  <1>7. Visible(compiled, candidates, g) \in Seq(E)
        /\ Lists(Visible(compiled, candidates, g), S, candidates)
    BY <1>4, <1>6
  <1> QED
    BY <1>7 DEF S, N

(* A search returns the permitted tools among the matches within the cap,  *)
(* the best ranked first and no fewer than there are or were asked for,    *)
(* whatever the store ranks how, and describe_tool knows each.             *)
THEOREM SearchesFindWhatIsPermitted == Spec => []SearchFindsPermitted
  <1>1. ASSUME TypeOK, NEW ranked \in Rankings, NEW g \in GroupNames \cup {NoGroup},
               NEW limit \in Limits,
               NEW hits, hits = SearchTools(policy, ranked, limit, g),
               NEW may, may = {i \in DOMAIN ranked : i <= CandidateCap
                                          /\ Permitted(servers, groups, ranked[i], g)},
               NEW first, first = {i \in may : Cardinality({k \in may : k < i}) < Capped(limit)}
        PROVE  /\ Len(hits) = Cardinality(first)
               /\ \A i \in first : hits[Cardinality({k \in first : k <= i})] = ranked[i]
               /\ \A i \in DOMAIN hits :
                    /\ Permitted(servers, groups, hits[i], g)
                    /\ Describes(policy, {ranked[k] : k \in DOMAIN ranked}, hits[i], g)
    <2> DEFINE candidates == SearchCatalog(ranked, CandidateCap)
               visible == Visible(policy, candidates, g)
               c == Capped(limit)
               N == Len(ranked)
               n == IF CandidateCap < N THEN CandidateCap ELSE N
    <2>1. /\ ranked \in Seq(Tool) /\ N \in Nat /\ DOMAIN ranked = 1..N
          /\ \A i \in 1..N : ranked[i] \in Tool
          /\ CandidateCap \in Nat /\ c \in Nat
      BY ScopeAssumption, SearchAssumption, LenProperties, ElementOfSeq DEF Capped
    <2>2. n \in Nat /\ n <= N /\ n <= CandidateCap
      BY <2>1
    <2>3. candidates = SubSeq(ranked, 1, n)
      BY DEF SearchCatalog, First
    <2>4. candidates \in Seq(Tool) /\ Len(candidates) = n
          /\ \A i \in 1..n : candidates[i] = ranked[i]
      <3> HIDE DEF n, N, candidates
      <3>1. \A i \in 1..n : ranked[i] \in Tool
        BY <2>1, <2>2
      <3>2. /\ SubSeq(ranked, 1, n) \in Seq(Tool)
            /\ Len(SubSeq(ranked, 1, n)) = IF 1 <= n THEN n - 1 + 1 ELSE 0
            /\ \A i \in 1..(n - 1 + 1) : SubSeq(ranked, 1, n)[i] = ranked[1 + i - 1]
        BY <2>2, <3>1, SubSeqProperties
      <3> QED
        BY <2>2, <2>3, <3>2
    <2>5. \A tool \in Tool : Allows(policy, tool, g) <=> Permitted(servers, groups, tool, g)
      BY <1>1, CompiledAgrees DEF TypeOK
    <2>6. may = {i \in 1..Len(candidates) : Allows(policy, candidates[i], g)}
      <3>1. \A i : i \in 1..N /\ i <= CandidateCap <=> i \in 1..n
        BY <2>1
      <3> HIDE DEF n, N, candidates
      <3> QED
        BY <1>1, <2>1, <2>2, <2>4, <2>5, <3>1
    <2> HIDE DEF c, N, n, candidates
    <2>7. visible \in Seq(Tool) /\ Lists(visible, may, candidates)
      BY <2>4, <2>6, VisibleLists
    <2>8. may \in SUBSET (1..n)
      BY <2>4, <2>6
    <2>9. first = {i \in may : Rank(may, i) <= c}
      <3>1. ASSUME NEW i \in may
            PROVE  Rank(may, i) <= c <=> Cardinality({k \in may : k < i}) < c
        <4>1. Rank(may, i) = Cardinality({k \in may : k < i}) + 1
              /\ Cardinality({k \in may : k < i}) \in Nat
          BY <2>2, <2>8, RankBounds, Finite
        <4> QED
          BY <2>1, <4>1
      <3> QED
        BY <1>1, <3>1 DEF c
    <2>10. hits = First(c, visible)
      BY <1>1 DEF SearchTools, c, candidates
    <2> HIDE DEF visible
    <2>11. Lists(hits, first, candidates)
      BY <2>1, <2>2, <2>7, <2>8, <2>9, <2>10, FirstLists
    <2>12. \A i \in first : i \in 1..n /\ candidates[i] = ranked[i]
      BY <2>4, <2>8, <2>9
    <2>13. \A i \in first : hits[Rank(first, i)] = ranked[i]
      BY <2>11, <2>12 DEF Lists
    <2>14. DOMAIN hits = 1..Len(hits)
      <3>1. First(c, visible) \in Seq(Tool)
        BY <2>1, <2>7 DEF First
      <3> QED
        BY <2>10, <3>1, LenProperties
    <2>15. ASSUME NEW j \in DOMAIN hits
           PROVE  /\ Permitted(servers, groups, hits[j], g)
                  /\ Describes(policy, {ranked[k] : k \in DOMAIN ranked}, hits[j], g)
      <3>1. PICK i \in first : Rank(first, i) = j
        BY <2>11, <2>14 DEF Lists
      <3>2. hits[j] = ranked[i] /\ i \in DOMAIN ranked /\ ranked[i] \in Tool
        BY <1>1, <2>1, <2>13, <3>1
      <3>3. Permitted(servers, groups, ranked[i], g)
        BY <1>1
      <3> QED
        BY <2>5, <3>2, <3>3 DEF Describes, FilterTools
    <2> QED
      BY <2>11, <2>13, <2>15 DEF Lists, Rank
  <1>2. TypeOK => SearchFindsPermitted
    BY <1>1 DEF SearchFindsPermitted
  <1> QED
    BY <1>2, TypeCorrect, PTL
=============================================================================
