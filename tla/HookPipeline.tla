---------------------------- MODULE HookPipeline ----------------------------
(***************************************************************************)
(* fast_gateway/hooks.py: a tool call on its way through HookMiddleware.   *)
(* The policy is asked first, then the pre_tool_call hooks run in order    *)
(* and may rewrite the arguments, deny, or ask for a confirmation; then    *)
(* the upstream is called and the post_tool_call hooks see its response.   *)
(* A call that was denied or failed goes to the tool_error hooks instead.  *)
(*                                                                         *)
(* Hooks are the user's code: each may return any of its results or raise. *)
(* A confirmation hook is an approval gate (Approval.tla), the promise     *)
(* PendingApprovals.tla shows the human-in-the-loop plugin to keep.  Every *)
(* await is a step, so reloads, operators, and other calls come between.   *)
(***************************************************************************)
EXTENDS Naturals

CONSTANTS
    Calls,          \* tool calls, each by its tool and group
    Args,           \* the arguments a call or a hook may give
    NoArgs,         \* none yet
    MaxHooks        \* bound: hooks registered for one seam

ASSUME PipelineAssumption ==
    /\ NoArgs \notin Args
    /\ MaxHooks \in Nat

(* One run of one confirmation hook: the call, the pre_tool_call hook that *)
(* asked, and the confirmation hook that decides.                          *)
Requests == Calls \X (1..MaxHooks) \X (1..MaxHooks)

(* How many hooks the gateway and its plugins registered for each seam.    *)
MergedHooks == [pre : 0..MaxHooks, confirm : 0..MaxHooks, post : 0..MaxHooks, error : 0..MaxHooks]

VARIABLES
    hooks,      \* the merged Hooks of the gateway, fixed when it is created
    permitted,  \* the calls the access policy allows now
    pc,         \* where each call is
    hook,       \* the hook of the seam it is at
    confirmer,  \* the confirmation hook it waits for
    args,       \* message.arguments
    outcome,    \* how the call ended for the client
    decision,   \* of each confirmation: the gate's decision
    verdict,    \* and what the hook made of it
    \* History.
    admitted,   \* calls the policy allowed when they arrived
    asked,      \* pre_tool_call hooks that asked for a confirmation
    shown,      \* arguments each confirmation hook was shown
    rewriter,   \* the last hook that set the arguments, 0 for the client
    sent,       \* arguments the upstream was called with
    observed    \* post_tool_call and tool_error hooks that saw the call

gate == <<decision, verdict>>
vars == <<hooks, permitted, pc, hook, confirmer, args, outcome, decision, verdict,
          admitted, asked, shown, rewriter, sent, observed>>

Gate == INSTANCE Approval WITH Calls <- Requests

Places == {"idle", "pre", "confirm", "upstream", "post", "error", "done"}
Outcomes == {"none", "returned", "raised", "cancelled"}
Verdicts == {"none", "approved", "denied", "cancelled"}
Observer == [seam : {"post", "error"}, hook : Nat]

TypeOK ==
    /\ hooks \in MergedHooks
    /\ permitted \in SUBSET Calls
    /\ pc \in [Calls -> Places]
    /\ hook \in [Calls -> Nat]
    /\ confirmer \in [Calls -> Nat]
    /\ args \in [Calls -> Args \cup {NoArgs}]
    /\ outcome \in [Calls -> Outcomes]
    /\ decision \in [Requests -> {"none", "approved", "denied"}]
    /\ verdict \in [Requests -> Verdicts]
    /\ admitted \in SUBSET Calls
    /\ asked \in [Calls -> SUBSET (1..MaxHooks)]
    /\ shown \in [Requests -> Args \cup {NoArgs}]
    /\ rewriter \in [Calls -> 0..MaxHooks]
    /\ sent \in [Calls -> Args \cup {NoArgs}]
    /\ observed \in [Calls -> SUBSET Observer]
    /\ \A c \in Calls : pc[c] # "idle" => args[c] \in Args

Init ==
    /\ hooks \in MergedHooks
    /\ permitted \in SUBSET Calls
    /\ pc = [c \in Calls |-> "idle"]
    /\ hook = [c \in Calls |-> 1]
    /\ confirmer = [c \in Calls |-> 1]
    /\ args = [c \in Calls |-> NoArgs]
    /\ outcome = [c \in Calls |-> "none"]
    /\ Gate!Init
    /\ admitted = {}
    /\ asked = [c \in Calls |-> {}]
    /\ shown = [r \in Requests |-> NoArgs]
    /\ rewriter = [c \in Calls |-> 0]
    /\ sent = [c \in Calls |-> NoArgs]
    /\ observed = [c \in Calls |-> {}]

-----------------------------------------------------------------------------
(* Moving a call *)

(* To the first hook of a seam, or to the upstream. *)
Enter(c, place) ==
    /\ pc' = [pc EXCEPT ![c] = place]
    /\ hook' = [hook EXCEPT ![c] = 1]
    /\ UNCHANGED <<confirmer, outcome>>

NextHook(c) ==
    /\ hook' = [hook EXCEPT ![c] = @ + 1]
    /\ UNCHANGED <<pc, confirmer, outcome>>

End(c, result) ==
    /\ pc' = [pc EXCEPT ![c] = "done"]
    /\ outcome' = [outcome EXCEPT ![c] = result]
    /\ UNCHANGED <<hook, confirmer>>

(* An exception leaves _run_call_tool: on_call_tool catches it. *)
Fail(c) == Enter(c, "error")

-----------------------------------------------------------------------------
(* The steps of a call *)

(* A call the policy refuses meets no pre_tool_call hook. *)
Arrive(c, a) ==
    /\ pc[c] = "idle"
    /\ args' = [args EXCEPT ![c] = a]
    /\ IF c \in permitted
       THEN Enter(c, "pre") /\ admitted' = admitted \cup {c}
       ELSE Fail(c) /\ UNCHANGED admitted
    /\ UNCHANGED <<hooks, permitted, gate, asked, shown, rewriter, sent, observed>>

(* result.arguments, when the hook gave any, replace the message's before  *)
(* its decision is looked at.                                              *)
Rewrite(c, new) ==
    IF new = NoArgs
    THEN UNCHANGED <<args, rewriter>>
    ELSE /\ args' = [args EXCEPT ![c] = new]
         /\ rewriter' = [rewriter EXCEPT ![c] = hook[c]]

AtPreHook(c) == pc[c] = "pre" /\ hook[c] <= hooks.pre

(* The hook returns None or CONTINUE. *)
PreHookContinues(c, new) ==
    /\ AtPreHook(c)
    /\ Rewrite(c, new)
    /\ NextHook(c)
    /\ UNCHANGED <<hooks, permitted, gate, admitted, asked, shown, sent, observed>>

(* The hook returns DENY, or raises. *)
PreHookDenies(c, new) ==
    /\ AtPreHook(c)
    /\ Rewrite(c, new)
    /\ Fail(c)
    /\ UNCHANGED <<hooks, permitted, gate, admitted, asked, shown, sent, observed>>

(* Fault: the confirmation is shown the arguments as they came in. *)
BugPreHookAsks(c, new) ==
    /\ AtPreHook(c)
    /\ Rewrite(c, new)
    /\ asked' = [asked EXCEPT ![c] = @ \cup {hook[c]}]
    /\ IF hooks.confirm = 0
       THEN Fail(c) /\ UNCHANGED shown
       ELSE /\ pc' = [pc EXCEPT ![c] = "confirm"]
            /\ confirmer' = [confirmer EXCEPT ![c] = 1]
            /\ shown' = [shown EXCEPT ![<<c, hook[c], 1>>] = args[c]]
            /\ UNCHANGED <<hook, outcome>>
    /\ UNCHANGED <<hooks, permitted, gate, admitted, sent, observed>>

(* REQUIRE_CONFIRMATION: denied when no confirmation hook is registered;   *)
(* otherwise they are run in turn, all with one ConfirmationContext.        *)
PreHookAsks(c, new) ==
    /\ AtPreHook(c)
    /\ Rewrite(c, new)
    /\ asked' = [asked EXCEPT ![c] = @ \cup {hook[c]}]
    /\ IF hooks.confirm = 0
       THEN Fail(c) /\ UNCHANGED shown
       ELSE /\ pc' = [pc EXCEPT ![c] = "confirm"]
            /\ confirmer' = [confirmer EXCEPT ![c] = 1]
            /\ shown' = [shown EXCEPT ![<<c, hook[c], 1>>] = args'[c]]
            /\ UNCHANGED <<hook, outcome>>
    /\ UNCHANGED <<hooks, permitted, gate, admitted, sent, observed>>

Request(c) == <<c, hook[c], confirmer[c]>>

(* Fault: one confirmation hook is enough. *)
BugConfirmed(c) ==
    /\ pc[c] = "confirm"
    /\ Gate!Conclude(Request(c), "approved")
    /\ pc' = [pc EXCEPT ![c] = "pre"]
    /\ hook' = [hook EXCEPT ![c] = @ + 1]
    /\ UNCHANGED <<hooks, confirmer, outcome, permitted, args, admitted, asked, shown, rewriter,
                   sent, observed>>

(* A confirmation hook returns True: on to the next one, and after the     *)
(* last to the next pre_tool_call hook.                                    *)
Confirmed(c) ==
    /\ pc[c] = "confirm"
    /\ Gate!Conclude(Request(c), "approved")
    /\ IF confirmer[c] < hooks.confirm
       THEN /\ confirmer' = [confirmer EXCEPT ![c] = @ + 1]
            /\ shown' = [shown EXCEPT ![<<c, hook[c], confirmer[c] + 1>>] = args[c]]
            /\ UNCHANGED <<pc, hook>>
       ELSE /\ pc' = [pc EXCEPT ![c] = "pre"]
            /\ hook' = [hook EXCEPT ![c] = @ + 1]
            /\ UNCHANGED <<confirmer, shown>>
    /\ UNCHANGED <<hooks, outcome, permitted, args, admitted, asked, rewriter, sent, observed>>

(* It returns False, or raises: the others are not asked. *)
Rejected(c) ==
    /\ pc[c] = "confirm"
    /\ Gate!Conclude(Request(c), "denied")
    /\ Fail(c)
    /\ UNCHANGED <<hooks, permitted, args, admitted, asked, shown, rewriter, sent, observed>>

CallUpstream(c) ==
    /\ pc[c] = "pre"
    /\ hook[c] > hooks.pre
    /\ Enter(c, "upstream")
    /\ sent' = [sent EXCEPT ![c] = args[c]]
    /\ UNCHANGED <<hooks, permitted, args, gate, admitted, asked, shown, rewriter, observed>>

UpstreamAnswers(c) ==
    /\ pc[c] = "upstream"
    /\ Enter(c, "post") \/ Fail(c)
    /\ UNCHANGED <<hooks, permitted, args, gate, admitted, asked, shown, rewriter, sent, observed>>

Observe(c, seam) ==
    observed' = [observed EXCEPT ![c] = @ \cup {[seam |-> seam, hook |-> hook[c]]}]

(* A post_tool_call hook returns the response for the next, or raises. *)
RunPostHook(c) ==
    /\ pc[c] = "post"
    /\ hook[c] <= hooks.post
    /\ Observe(c, "post")
    /\ NextHook(c) \/ Fail(c)
    /\ UNCHANGED <<hooks, permitted, args, gate, admitted, asked, shown, rewriter, sent>>

Return(c) ==
    /\ pc[c] = "post"
    /\ hook[c] > hooks.post
    /\ End(c, "returned")
    /\ UNCHANGED <<hooks, permitted, args, gate, admitted, asked, shown, rewriter, sent, observed>>

(* Fault: a tool_error hook that raises ends the dispatch. *)
BugRunErrorHook(c) ==
    /\ pc[c] = "error"
    /\ hook[c] <= hooks.error
    /\ Observe(c, "error")
    /\ NextHook(c) \/ End(c, "raised")
    /\ UNCHANGED <<hooks, permitted, args, gate, admitted, asked, shown, rewriter, sent>>

(* dispatch_tool_error: whether the hook returns or raises, the next runs. *)
RunErrorHook(c) ==
    /\ pc[c] = "error"
    /\ hook[c] <= hooks.error
    /\ Observe(c, "error")
    /\ NextHook(c)
    /\ UNCHANGED <<hooks, permitted, args, gate, admitted, asked, shown, rewriter, sent>>

Raise(c) ==
    /\ pc[c] = "error"
    /\ hook[c] > hooks.error
    /\ End(c, "raised")
    /\ UNCHANGED <<hooks, permitted, args, gate, admitted, asked, shown, rewriter, sent, observed>>

(* The client goes away.  CancelledError is no Exception: no tool_error    *)
(* hook hears of it.                                                       *)
Cancel(c) ==
    /\ pc[c] \notin {"idle", "done"}
    /\ End(c, "cancelled")
    /\ IF pc[c] = "confirm"
       THEN Gate!Conclude(Request(c), "cancelled")
       ELSE UNCHANGED gate
    /\ UNCHANGED <<hooks, permitted, args, admitted, asked, shown, rewriter, sent, observed>>

-----------------------------------------------------------------------------
(* Around the calls *)

(* The gate decides what it was shown, also when the caller is gone. *)
Decide(r, d) ==
    /\ shown[r] # NoArgs
    /\ Gate!Decide(r, d)
    /\ UNCHANGED <<hooks, permitted, pc, hook, confirmer, args, outcome, admitted, asked, shown,
                   rewriter, sent, observed>>

(* A reload compiles another policy. *)
PolicyChanges(c) ==
    /\ permitted' = IF c \in permitted THEN permitted \ {c} ELSE permitted \cup {c}
    /\ UNCHANGED <<hooks, pc, hook, confirmer, args, outcome, gate, admitted, asked, shown,
                   rewriter, sent, observed>>

-----------------------------------------------------------------------------
Step(c) ==
    \/ \E a \in Args : Arrive(c, a)
    \/ \E new \in Args \cup {NoArgs} :
            PreHookContinues(c, new) \/ PreHookDenies(c, new) \/ PreHookAsks(c, new)
    \/ Confirmed(c) \/ Rejected(c)
    \/ CallUpstream(c) \/ UpstreamAnswers(c)
    \/ RunPostHook(c) \/ Return(c)
    \/ RunErrorHook(c) \/ Raise(c)

Next ==
    \/ \E c \in Calls : Step(c) \/ Cancel(c) \/ PolicyChanges(c)
    \/ \E r \in Requests, d \in {"approved", "denied"} : Decide(r, d)

Spec == Init /\ [][Next]_vars

-----------------------------------------------------------------------------
(* Properties *)

(* ("Confirmation is fail-safe: if any confirmation hook rejects, or none  *)
(* is registered, the call is denied", README.md:409.)  A call reaches its *)
(* upstream only if the policy allowed it when it arrived and every        *)
(* confirmation any of its hooks asked for was approved by every           *)
(* confirmation hook, of which there is at least one.                      *)
ClearedBeforeUpstream ==
    \A c \in Calls :
        sent[c] # NoArgs =>
            /\ c \in admitted
            /\ \A h \in asked[c] :
                /\ hooks.confirm > 0
                /\ \A k \in 1..hooks.confirm : decision[<<c, h, k>>] = "approved"

(* What the upstream is sent is what the confirmation hooks were shown,    *)
(* unless a later pre_tool_call hook rewrote the arguments.                *)
SentAsShown ==
    \A c \in Calls :
        sent[c] # NoArgs =>
            \A h \in asked[c], k \in 1..hooks.confirm :
                rewriter[c] <= h => shown[<<c, h, k>>] = sent[c]

Seen(c, seam) == {o.hook : o \in {p \in observed[c] : p.seam = seam}}

(* The audit trail is complete: a call that returned was seen by every     *)
(* post_tool_call hook and no tool_error hook; one that raised was seen by *)
(* every tool_error hook, whichever of them raise themselves, and by a     *)
(* post_tool_call hook only if its upstream had been called.               *)
AuditIsComplete ==
    \A c \in Calls :
        /\ outcome[c] = "returned" =>
                Seen(c, "post") = 1..hooks.post /\ Seen(c, "error") = {}
        /\ outcome[c] = "raised" =>
                /\ Seen(c, "error") = 1..hooks.error
                /\ Seen(c, "post") # {} => sent[c] # NoArgs
=============================================================================
