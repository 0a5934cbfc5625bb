-------------------------- MODULE PendingApprovals --------------------------
(***************************************************************************)
(* The human-in-the-loop plugin: fast_gateway/plugins/hil/pending.py and   *)
(* plugin.py.  A tool call that needs confirmation registers a pending     *)
(* approval, runs the notifier, and waits for a decision or a timeout,     *)
(* while operators list, approve and deny it over the JSON and HTML pages. *)
(*                                                                         *)
(* One action is one callback of the event loop.  A future's result and    *)
(* the timer both only schedule the waiting task, which runs later: that   *)
(* is where they race.                                                     *)
(***************************************************************************)
EXTENDS FiniteSets

CONSTANT
    Calls       \* tool calls that need confirmation, each with its own uuid4

Decisions == {"approved", "denied"}

VARIABLES
    pc,         \* where PendingRegistry.wait's caller is
    approvals,  \* keys of PendingRegistry._approvals
    future,     \* _futures: "absent", "open", or its result
    decision,   \* the result the future was ever given
    verdict,    \* what the confirmation hook made of the call
    answered    \* decisions operators were told had been taken, by page

vars == <<pc, approvals, future, decision, verdict, answered>>

Places == {"idle", "notifying", "waiting", "expired", "done"}

Answer == [page : {"json", "html"}, decision : Decisions]

TypeOK ==
    /\ pc \in [Calls -> Places]
    /\ approvals = {c \in Calls : future[c] # "absent"}
    /\ future \in [Calls -> {"absent", "open"} \cup Decisions]
    /\ decision \in [Calls -> {"none"} \cup Decisions]
    /\ verdict \in [Calls -> {"none", "cancelled"} \cup Decisions]
    /\ answered \in [Calls -> SUBSET Answer]

Init ==
    /\ pc = [c \in Calls |-> "idle"]
    /\ approvals = {}
    /\ future = [c \in Calls |-> "absent"]
    /\ decision = [c \in Calls |-> "none"]
    /\ verdict = [c \in Calls |-> "none"]
    /\ answered = [c \in Calls |-> {}]

-----------------------------------------------------------------------------
(* The confirmation hook of one call *)

Goto(c, place) == pc' = [pc EXCEPT ![c] = place]

(* HumanApprovalPlugin._approve up to "await self._notifier". *)
Create(c) ==
    /\ pc[c] = "idle"
    /\ Goto(c, "notifying")
    /\ approvals' = approvals \cup {c}
    /\ future' = [future EXCEPT ![c] = "open"]
    /\ UNCHANGED <<decision, verdict, answered>>

(* wait() is left: its finally drops the call from both dictionaries.      *)
Conclude(c, v) ==
    /\ verdict' = [verdict EXCEPT ![c] = v]
    /\ Goto(c, "done")
    /\ approvals' = approvals \ {c}
    /\ future' = [future EXCEPT ![c] = "absent"]
    /\ UNCHANGED <<decision, answered>>

(* Fault: an exception of the notifier counts as a decision. *)
BugNotified(c) ==
    /\ pc[c] = "notifying"
    /\ \/ Goto(c, "waiting") /\ UNCHANGED <<approvals, future, decision, verdict, answered>>
       \/ Conclude(c, "approved")

(* The notifier returns, or raises (logged only): wait() begins.  A future *)
(* that already has its result is returned without waiting.                *)
Notified(c) ==
    /\ pc[c] = "notifying"
    /\ IF future[c] \in Decisions
       THEN Conclude(c, future[c])
       ELSE /\ Goto(c, "waiting")
            /\ UNCHANGED <<approvals, future, decision, verdict, answered>>

(* wait_for's timer runs; the task is only scheduled to see the timeout.   *)
Expire(c) ==
    /\ pc[c] = "waiting"
    /\ Goto(c, "expired")
    /\ UNCHANGED <<approvals, future, decision, verdict, answered>>

WakeDecided(c) ==
    /\ pc[c] = "waiting"
    /\ future[c] \in Decisions
    /\ Conclude(c, future[c])

(* Fault: a timeout lets the call through. *)
BugWakeExpired(c) ==
    /\ pc[c] = "expired"
    /\ Conclude(c, "approved")

(* Fault: a timeout starts another wait. *)
BugRetryExpired(c) ==
    /\ pc[c] = "expired"
    /\ Goto(c, "waiting")
    /\ UNCHANGED <<approvals, future, decision, verdict, answered>>

(* The timeout denies.  When the result came first by less than a turn of  *)
(* the loop, wait_for of Python 3.11 still returns it; later ones do not.  *)
WakeExpired(c) ==
    /\ pc[c] = "expired"
    /\ \/ Conclude(c, "denied")
       \/ future[c] \in Decisions /\ Conclude(c, future[c])

(* The task of the call is cancelled: in wait() its finally cleans up,     *)
(* during "await self._notifier" nothing does.                             *)
CancelWaiting(c) ==
    /\ pc[c] \in {"waiting", "expired"}
    /\ Conclude(c, "cancelled")

CancelNotifying(c) ==
    /\ pc[c] = "notifying"
    /\ verdict' = [verdict EXCEPT ![c] = "cancelled"]
    /\ Goto(c, "done")
    /\ UNCHANGED <<approvals, future, decision, answered>>

-----------------------------------------------------------------------------
(* Operators *)

(* Fault: resolve() overwrites a decision. *)
BugResolve(c, d) ==
    /\ future[c] # "absent"
    /\ future' = [future EXCEPT ![c] = d]
    /\ decision' = [decision EXCEPT ![c] = d]

(* PendingRegistry.resolve when it returns True. *)
Resolve(c, d) ==
    /\ future[c] = "open"
    /\ future' = [future EXCEPT ![c] = d]
    /\ decision' = [decision EXCEPT ![c] = d]

Told(c, page, d) ==
    answered' = [answered EXCEPT ![c] = @ \cup {[page |-> page, decision |-> d]}]

(* POST /pending/{id}/approve and /deny: 404 unless resolve() took it.     *)
DecideJson(c, d) ==
    /\ c \in approvals
    /\ Resolve(c, d)
    /\ Told(c, "json", d)
    /\ UNCHANGED <<pc, approvals, verdict>>

(* POST /{id}/approve and /deny: the page reports the decision, whatever   *)
(* resolve() returned.                                                     *)
DecideHtml(c, d) ==
    /\ pc[c] # "idle"
    /\ Resolve(c, d) \/ (future[c] # "open" /\ UNCHANGED <<future, decision>>)
    /\ Told(c, "html", d)
    /\ UNCHANGED <<pc, approvals, verdict>>

(* Plugin teardown: cancel_all denies every outstanding approval. *)
Teardown ==
    /\ \E c \in Calls : future[c] = "open"
    /\ future' = [c \in Calls |-> IF future[c] = "open" THEN "denied" ELSE future[c]]
    /\ decision' = [c \in Calls |-> IF future[c] = "open" THEN "denied" ELSE decision[c]]
    /\ UNCHANGED <<pc, approvals, verdict, answered>>

-----------------------------------------------------------------------------
Next ==
    \/ \E c \in Calls :
        \/ Create(c) \/ Notified(c) \/ Expire(c) \/ WakeDecided(c) \/ WakeExpired(c)
        \/ CancelWaiting(c) \/ CancelNotifying(c)
        \/ \E d \in Decisions : DecideJson(c, d) \/ DecideHtml(c, d)
    \/ Teardown

Spec == Init /\ [][Next]_vars

(* The timer fires and scheduled tasks run.  Nothing bounds the notifier.  *)
FairSpec ==
    Spec /\ \A c \in Calls : WF_vars(Expire(c)) /\ WF_vars(WakeDecided(c) \/ WakeExpired(c))

-----------------------------------------------------------------------------
(* Properties *)

Gate == INSTANCE Approval

(* The plugin is an approval gate. *)
IsApprovalGate == Gate!Spec

(* A call goes ahead only if its future was given the result "approved",   *)
(* and then no operator was told over the JSON API that it was denied:     *)
(* timeouts, teardown and failing notifiers never let a call through.      *)
OnlyApprovedProceed ==
    \A c \in Calls :
        verdict[c] = "approved" =>
            /\ decision[c] = "approved"
            /\ [page |-> "json", decision |-> "denied"] \notin answered[c]

(* Of two operators who decide the same call over the JSON API only the    *)
(* first is told 200, so two of them never hold opposite answers.          *)
OneJsonAnswer ==
    \A c \in Calls : \A a, b \in answered[c] :
        a.page = "json" /\ b.page = "json" => a.decision = b.decision

(* A call that waits is concluded, decided or not. *)
WaitsEnd == \A c \in Calls : pc[c] = "waiting" ~> pc[c] = "done"

(* ("Tool call ... was approved", views.py:67.)  The HTML page reports an  *)
(* approval only of a call that was approved.                              *)
HtmlPageIsTrue ==
    \A c \in Calls :
        [page |-> "html", decision |-> "approved"] \in answered[c] => decision[c] = "approved"
=============================================================================
