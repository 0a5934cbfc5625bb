----------------------------- MODULE MCLifespan -----------------------------
(* An instance of Lifespan for TLC: one server, two tasks, two plugins.    *)
EXTENDS Lifespan

CONSTANTS s1, add, alpha, readers, T1, T2

MCPatterns == {{add}}

(* An enabled server with and without a rule that denies its tool. *)
MCGoverned ==
    {[name |-> n, enabled |-> TRUE, allow |-> {}, deny |-> d] : n \in Names, d \in {{}, MCPatterns}}

MCGroups == {[members |-> {s1}, allow |-> {}, deny |-> {}]}
=============================================================================
