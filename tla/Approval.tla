------------------------------ MODULE Approval ------------------------------
(***************************************************************************)
(* What an approval gate promises of each tool call that needs a human's   *)
(* approval: it is decided at most once, it may be refused at any time, it *)
(* goes ahead only when the decision is to approve, and its verdict is     *)
(* final.                                                                  *)
(***************************************************************************)
CONSTANT Calls

VARIABLES
    decision,   \* "none", "approved" or "denied"
    verdict     \* "none", then "approved", "denied" or "cancelled"

vars == <<decision, verdict>>

Init ==
    /\ decision = [c \in Calls |-> "none"]
    /\ verdict = [c \in Calls |-> "none"]

(* A call whose caller went away may still be decided; nothing follows.    *)
Undecided(c) == decision[c] = "none" /\ verdict[c] \in {"none", "cancelled"}

Decide(c, d) ==
    /\ Undecided(c)
    /\ decision' = [decision EXCEPT ![c] = d]
    /\ UNCHANGED verdict

(* Teardown decides for every call still open, at once. *)
DenyAll ==
    /\ \E open \in SUBSET Calls :
        /\ \A c \in open : Undecided(c)
        /\ decision' = [c \in Calls |-> IF c \in open THEN "denied" ELSE decision[c]]
    /\ UNCHANGED verdict

Conclude(c, v) ==
    /\ verdict[c] = "none"
    /\ v = "approved" => decision[c] = "approved"
    /\ verdict' = [verdict EXCEPT ![c] = v]
    /\ UNCHANGED decision

Next ==
    \/ \E c \in Calls, d \in {"approved", "denied"} : Decide(c, d)
    \/ \E c \in Calls, v \in {"approved", "denied", "cancelled"} : Conclude(c, v)
    \/ DenyAll

Spec == Init /\ [][Next]_vars
=============================================================================
