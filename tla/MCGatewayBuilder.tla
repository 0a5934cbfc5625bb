-------------------------- MODULE MCGatewayBuilder --------------------------
(* Instances of GatewayBuilder for TLC. *)
EXTENDS GatewayBuilder, TLC

CONSTANTS s1, s2, alpha, beta, add, readers, T1, T2

MCPatterns == {{add}}

Plain(name, enabled) == [name |-> name, enabled |-> enabled, allow |-> {}, deny |-> {}]

(* Two names, each enabled or not. *)
MCServers == {Plain(n, e) : n \in Names, e \in BOOLEAN}

(* Enabled servers with and without a rule that denies their tool. *)
MCGoverned ==
    {[name |-> n, enabled |-> TRUE, allow |-> {}, deny |-> d] : n \in Names, d \in {{}, MCPatterns}}

MCGroups == {[members |-> {s1}, allow |-> {}, deny |-> {}]}

NoOneIsSpecial == Permutations(Names)
=============================================================================
