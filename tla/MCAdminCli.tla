----------------------------- MODULE MCAdminCli -----------------------------
(* Instances of AdminCli for TLC. *)
EXTENDS AdminCli

CONSTANTS s1, s2, s3, alpha, beta, g1, readers, P1, P2

Reloading(op, arg, members) == {[op |-> op, arg |-> arg, members |-> members, reload |-> TRUE]}

(* With and without --no-reload. *)
Typed(op, arg, members) ==
    Reloading(op, arg, members)
        \cup {[op |-> op, arg |-> arg, members |-> members, reload |-> FALSE]}

(* Every command: on a name, on an id, and with two members to look up. *)
MCCommands ==
    UNION {Typed("add", alpha, {}), Typed("remove", alpha, {}), Reloading("remove", s1, {}),
           Reloading("enable", alpha, {}), Typed("disable", alpha, {}),
           Reloading("group_create", readers, {}), Reloading("group_rm", readers, {}),
           Reloading("group_members", readers, {alpha, beta}), Reloading("reload", Absent, {})}

Row(name) == [name |-> name, enabled |-> TRUE]

(* No server, or two. *)
MCFirstServers ==
    {[i \in ServerIds |-> Absent],
     [i \in ServerIds |-> CASE i = s1 -> Row(alpha) [] i = s2 -> Row(beta) [] OTHER -> Absent]}
=============================================================================
