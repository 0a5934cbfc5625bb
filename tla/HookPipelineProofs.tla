------------------------- MODULE HookPipelineProofs -------------------------
(***************************************************************************)
(* Theorems about HookPipeline, for any calls, arguments and numbers of    *)
(* registered hooks: what reaches an upstream was cleared, and is what the *)
(* confirmation hooks were shown; the audit hooks hear of every call that  *)
(* ends; and each confirmation is an approval gate of its own.             *)
(***************************************************************************)
EXTENDS HookPipeline, TLAPS

(* Where a call is decides what has happened to it so far. *)
Placed(c) ==
    /\ pc[c] = "idle" => asked[c] = {} /\ rewriter[c] = 0
    /\ pc[c] \in {"idle", "pre", "confirm"} => sent[c] = NoArgs
    /\ pc[c] \in {"upstream", "post"} => sent[c] # NoArgs
    /\ pc[c] \in {"pre", "confirm", "upstream", "post"} => c \in admitted
    /\ sent[c] # NoArgs => c \in admitted /\ sent[c] = args[c]
    /\ pc[c] = "pre" => rewriter[c] < hook[c] /\ \A h \in asked[c] : h < hook[c]
    /\ pc[c] = "confirm" =>
        /\ hook[c] \in 1..hooks.pre
        /\ confirmer[c] \in 1..hooks.confirm
        /\ rewriter[c] <= hook[c]
        /\ \A h \in asked[c] : h <= hook[c]

(* The call is still on its way to the upstream, or has reached it. *)
Alive(c) == pc[c] \in {"pre", "confirm"} \/ sent[c] # NoArgs

(* Confirmation hook k has been run for the pre_tool_call hook h. *)
Begun(c, h, k) == pc[c] = "confirm" => h < hook[c] \/ k <= confirmer[c]
Over(c, h, k)  == pc[c] = "confirm" => h < hook[c] \/ k < confirmer[c]

(* A call that is alive has met only confirmations that approved it, and   *)
(* each was shown its arguments unless a later hook rewrote them.          *)
Confirmations(c) ==
    Alive(c) =>
        \A h \in asked[c] :
            /\ hooks.confirm > 0
            /\ \A k \in 1..hooks.confirm :
                /\ Over(c, h, k) => decision[<<c, h, k>>] = "approved"
                /\ Begun(c, h, k) /\ rewriter[c] <= h => shown[<<c, h, k>>] = args[c]

IInv == TypeOK /\ \A c \in Calls : Placed(c) /\ Confirmations(c)

-----------------------------------------------------------------------------
(* A hook rewrites the arguments, and becomes the last that did, or leaves *)
(* both alone.                                                             *)
LEMMA RewriteEffect ==
    ASSUME TypeOK, NEW c \in Calls, NEW new \in Args \cup {NoArgs}, AtPreHook(c),
           Rewrite(c, new)
    PROVE  /\ args' \in [Calls -> Args \cup {NoArgs}]
           /\ rewriter' \in [Calls -> 0..MaxHooks]
           /\ args'[c] \in Args
           /\ rewriter'[c] = hook[c] \/ (rewriter'[c] = rewriter[c] /\ args'[c] = args[c])
           /\ \A d \in Calls \ {c} : args'[d] = args[d] /\ rewriter'[d] = rewriter[d]
  <1>1. hook[c] \in 0..MaxHooks
    BY PipelineAssumption DEF TypeOK, AtPreHook, MergedHooks
  <1>2. args[c] \in Args
    BY DEF TypeOK, AtPreHook
  <1>3. CASE new = NoArgs
    BY <1>2, <1>3 DEF Rewrite, TypeOK
  <1>4. CASE new # NoArgs
    <2>1. args' = [args EXCEPT ![c] = new] /\ rewriter' = [rewriter EXCEPT ![c] = hook[c]]
      BY <1>4 DEF Rewrite
    <2>2. args \in [Calls -> Args \cup {NoArgs}] /\ rewriter \in [Calls -> 0..MaxHooks]
      BY DEF TypeOK
    <2> QED
      BY <1>1, <1>4, <2>1, <2>2
  <1> QED
    BY <1>3, <1>4

(* What identifies the run of a confirmation hook. *)
LEMMA RequestType ==
    ASSUME NEW c \in Calls, NEW h \in 1..MaxHooks, NEW k \in 1..MaxHooks
    PROVE  <<c, h, k>> \in Requests
  BY DEF Requests

(* The initial states satisfy the invariant. *)
LEMMA InitInvariant == Init => IInv
  BY PipelineAssumption
     DEF Init, IInv, TypeOK, Placed, Confirmations, Alive, MergedHooks, Gate!Init, Places,
         Outcomes, Verdicts, Observer, Requests
(* Nothing a step did concerns call d, but that it may have been decided.  *)
Kept(d) ==
    /\ hooks' = hooks
    /\ d \in admitted => d \in admitted'
    /\ pc'[d] = pc[d] /\ hook'[d] = hook[d] /\ confirmer'[d] = confirmer[d]
    /\ args'[d] = args[d] /\ rewriter'[d] = rewriter[d]
    /\ asked'[d] = asked[d] /\ sent'[d] = sent[d]
    /\ \A h, k \in 1..MaxHooks :
        /\ decision[<<d, h, k>>] = "approved" => decision'[<<d, h, k>>] = "approved"
        /\ shown[<<d, h, k>>] # NoArgs => shown'[<<d, h, k>>] = shown[<<d, h, k>>]

(* Such a step keeps what is known of d. *)
LEMMA OthersKept ==
    ASSUME IInv, NEW d \in Calls, Kept(d)
    PROVE  Placed(d)' /\ Confirmations(d)'
  <1>1. asked[d] \subseteq 1..MaxHooks /\ 1..hooks.confirm \subseteq 1..MaxHooks
    BY PipelineAssumption DEF IInv, TypeOK, MergedHooks
  <1>2. Placed(d)'
    BY DEF IInv, Placed, Kept
  <1>3. Alive(d) => args[d] \in Args /\ args[d] # NoArgs
    BY PipelineAssumption DEF IInv, TypeOK, Placed, Alive
  <1>4. Confirmations(d)'
    <2> SUFFICES ASSUME Alive(d)', NEW h \in asked[d]
                 PROVE  /\ hooks.confirm > 0
                        /\ \A k \in 1..hooks.confirm :
                            /\ Over(d, h, k)' => decision'[<<d, h, k>>] = "approved"
                            /\ Begun(d, h, k)' /\ rewriter'[d] <= h =>
                                    shown'[<<d, h, k>>] = args'[d]
      BY DEF Confirmations, Kept
    <2>1. Alive(d)
      BY DEF Alive, Kept
    <2>2. Confirmations(d)
      BY DEF IInv
    <2> QED
      BY <1>1, <1>3, <2>1, <2>2 DEF Confirmations, Kept, Over, Begun
  <1> QED
    BY <1>2, <1>4

(* What the gate concluded an approval of has been decided so.             *)
LEMMA GateConcludes ==
    ASSUME TypeOK, NEW r \in Requests, NEW v \in {"approved", "denied", "cancelled"},
           Gate!Conclude(r, v)
    PROVE  /\ decision' = decision
           /\ verdict' \in [Requests -> Verdicts]
           /\ v = "approved" => decision[r] = "approved"
  BY DEF TypeOK, Gate!Conclude, Verdicts

(* A call that leaves for the tool_error hooks, or ends, before it reached *)
(* its upstream has nothing left to keep; afterwards all of it is kept.    *)
LEMMA LeavingKept ==
    ASSUME IInv, NEW c \in Calls, pc'[c] \in {"error", "done"},
           sent'[c] = sent[c], hooks' = hooks, admitted' = admitted, decision' = decision,
           pc[c] \in {"pre", "confirm"} \/ (args'[c] = args[c] /\ shown' = shown
                /\ rewriter'[c] = rewriter[c] /\ asked'[c] = asked[c])
    PROVE  Placed(c)' /\ Confirmations(c)'
  <1>1. Placed(c) /\ Confirmations(c)
    BY DEF IInv
  <1>2. CASE pc[c] \in {"pre", "confirm"}
    BY <1>1, <1>2 DEF Placed, Confirmations, Alive
  <1>3. CASE pc[c] \notin {"pre", "confirm"}
    <2>1. Placed(c)'
      BY <1>1, <1>3 DEF Placed
    <2>2. Confirmations(c)'
      BY <1>1, <1>3 DEF Confirmations, Alive, Over, Begun
    <2> QED
      BY <2>1, <2>2
  <1> QED
    BY <1>2, <1>3
-----------------------------------------------------------------------------
(* The steps of a call *)

(* A call arrives, allowed or refused. *)
LEMMA ArriveInvariant ==
    ASSUME IInv, NEW c \in Calls, NEW a \in Args, Arrive(c, a)
    PROVE  IInv'
  <1> USE DEF Arrive, Enter, Fail, gate
  <1>1. TypeOK'
    <2>1. pc' \in [Calls -> Places] /\ hook' \in [Calls -> Nat] /\ admitted' \in SUBSET Calls
      BY DEF IInv, TypeOK, Places
    <2>2. args' \in [Calls -> Args \cup {NoArgs}]
      BY DEF IInv, TypeOK
    <2>3. ASSUME NEW d \in Calls, pc'[d] # "idle" PROVE args'[d] \in Args
      BY <2>3 DEF IInv, TypeOK
    <2>4. UNCHANGED <<hooks, permitted, confirmer, outcome, decision, verdict, asked, shown,
                      rewriter, sent, observed>>
      OBVIOUS
    <2> HIDE DEF Arrive
    <2> QED
      BY <2>1, <2>2, <2>3, <2>4 DEF IInv, TypeOK
  <1>2. ASSUME NEW d \in Calls, d # c PROVE Kept(d)
    BY <1>2 DEF IInv, TypeOK, Kept
  <1>3. Placed(c)' /\ Confirmations(c)'
    BY DEF IInv, TypeOK, Placed, Confirmations, Alive
  <1> QED
    BY <1>1, <1>2, <1>3, OthersKept DEF IInv

(* A pre_tool_call hook runs: it lets the call go on, denies it, or asks   *)
(* for a confirmation.                                                     *)
LEMMA PreHookInvariant ==
    ASSUME IInv, NEW c \in Calls, NEW new \in Args \cup {NoArgs},
           PreHookContinues(c, new) \/ PreHookDenies(c, new) \/ PreHookAsks(c, new)
    PROVE  IInv'
  <1>1. AtPreHook(c) /\ Rewrite(c, new)
    BY DEF PreHookContinues, PreHookDenies, PreHookAsks
  <1>2. /\ args' \in [Calls -> Args \cup {NoArgs}]
        /\ rewriter' \in [Calls -> 0..MaxHooks]
        /\ args'[c] \in Args
        /\ rewriter'[c] = hook[c] \/ (rewriter'[c] = rewriter[c] /\ args'[c] = args[c])
        /\ \A d \in Calls \ {c} : args'[d] = args[d] /\ rewriter'[d] = rewriter[d]
    BY <1>1, RewriteEffect DEF IInv
  <1>3. Placed(c) /\ Confirmations(c) /\ TypeOK
    BY DEF IInv
  <1>4. /\ pc[c] = "pre" /\ hook[c] \in 1..hooks.pre /\ hook[c] \in 1..MaxHooks
        /\ hooks.confirm \in 0..MaxHooks /\ MaxHooks \in Nat
    BY <1>1, <1>3, PipelineAssumption DEF AtPreHook, Placed, TypeOK, MergedHooks
  <1>5. CASE PreHookContinues(c, new)
    <2> USE <1>5 DEF PreHookContinues, NextHook, gate
    <2>1. TypeOK'
      BY <1>2, <1>3 DEF TypeOK
    <2>2. ASSUME NEW d \in Calls, d # c PROVE Kept(d)
      BY <1>2, <1>3, <2>2 DEF TypeOK, Kept
    <2>3. Placed(c)'
      BY <1>2, <1>3, <1>4 DEF TypeOK, Placed
    <2>4. Confirmations(c)'
      BY <1>2, <1>3, <1>4 DEF TypeOK, Placed, Confirmations, Alive, Over, Begun
    <2> QED
      BY <2>1, <2>2, <2>3, <2>4, OthersKept DEF IInv
  <1>6. CASE PreHookDenies(c, new)
    <2> USE <1>6 DEF PreHookDenies, Fail, Enter, gate
    <2>1. TypeOK'
      BY <1>2, <1>3 DEF TypeOK, Places
    <2>2. ASSUME NEW d \in Calls, d # c PROVE Kept(d)
      BY <1>2, <1>3, <2>2 DEF TypeOK, Kept
    <2>3. Placed(c)' /\ Confirmations(c)'
      BY <1>3, <1>4, LeavingKept DEF TypeOK
    <2> QED
      BY <2>1, <2>2, <2>3, OthersKept DEF IInv
  <1>7. CASE PreHookAsks(c, new)
    <2> USE <1>7 DEF PreHookAsks, gate
    <2>1. CASE hooks.confirm = 0
      <3> USE <2>1 DEF Fail, Enter
      <3>1. TypeOK'
        BY <1>2, <1>3, <1>4 DEF TypeOK, Places
      <3>2. ASSUME NEW d \in Calls, d # c PROVE Kept(d)
        BY <1>2, <1>3, <3>2 DEF TypeOK, Kept
      <3>3. Placed(c)' /\ Confirmations(c)'
        BY <1>3, <1>4, LeavingKept DEF TypeOK
      <3> QED
        BY <3>1, <3>2, <3>3, OthersKept DEF IInv
    <2>2. CASE hooks.confirm # 0
      <3> DEFINE r == <<c, hook[c], 1>>
      <3>1. r \in Requests
        <4>1. 1 \in 1..MaxHooks
          BY <1>4, <2>2
        <4> QED
          BY <1>4, <4>1, RequestType
      <3>2. shown' = [shown EXCEPT ![r] = args'[c]]
        BY <2>2
      <3>3. TypeOK'
        <4> HIDE DEF r
        <4>1. shown' \in [Requests -> Args \cup {NoArgs}]
          BY <1>2, <1>3, <3>2, <3>1 DEF TypeOK
        <4>2. /\ pc' \in [Calls -> Places] /\ confirmer' \in [Calls -> Nat]
              /\ asked' \in [Calls -> SUBSET (1..MaxHooks)]
              /\ UNCHANGED <<hooks, permitted, hook, outcome, decision, verdict, admitted,
                             sent, observed>>
          BY <1>3, <1>4, <2>2 DEF TypeOK, Places
        <4>3. ASSUME NEW d \in Calls, pc'[d] # "idle" PROVE args'[d] \in Args
          <5>1. CASE d = c
            BY <1>2, <5>1
          <5>2. CASE d # c
            <6>1. pc'[d] = pc[d]
              BY <1>3, <2>2, <5>2 DEF TypeOK
            <6> QED
              BY <1>2, <1>3, <4>3, <5>2, <6>1 DEF TypeOK
          <5> QED
            BY <5>1, <5>2
        <4> HIDE <1>7 DEF PreHookAsks
        <4> QED
          BY <1>2, <1>3, <4>1, <4>2, <4>3 DEF TypeOK
      <3>4. ASSUME NEW d \in Calls, d # c PROVE Kept(d)
        <4>1. ASSUME NEW h \in 1..MaxHooks, NEW k \in 1..MaxHooks
              PROVE  shown'[<<d, h, k>>] = shown[<<d, h, k>>]
          <5>1. <<d, h, k>> # r /\ <<d, h, k>> \in Requests
            BY <3>4, RequestType
          <5> HIDE DEF r
          <5> QED
            BY <1>3, <3>2, <5>1 DEF TypeOK
        <4> QED
          BY <1>2, <1>3, <2>2, <3>4, <4>1 DEF TypeOK, Kept
      <3>5. Placed(c)'
        BY <1>2, <1>3, <1>4, <2>2 DEF TypeOK, Placed
      <3>6. Confirmations(c)'
        <4> SUFFICES ASSUME NEW h \in asked'[c], NEW k \in 1..hooks.confirm
                     PROVE  /\ Over(c, h, k)' => decision[<<c, h, k>>] = "approved"
                            /\ Begun(c, h, k)' /\ rewriter'[c] <= h =>
                                    shown'[<<c, h, k>>] = args'[c]
          BY <1>4, <2>2 DEF Confirmations
        <4>1. asked'[c] = asked[c] \cup {hook[c]}
          BY <1>3 DEF TypeOK
        <4>2. pc'[c] = "confirm" /\ confirmer'[c] = 1 /\ hook' = hook
          BY <1>3, <2>2 DEF TypeOK
        <4>3. CASE h = hook[c]
          <5>1. ~Over(c, h, k)'
            BY <1>4, <4>2, <4>3 DEF Over
          <5>2. ASSUME Begun(c, h, k)' PROVE shown'[<<c, h, k>>] = args'[c]
            <6>1. k = 1
              BY <1>4, <4>2, <4>3, <5>2 DEF Begun
            <6>2. <<c, h, k>> = r
              BY <4>3, <6>1
            <6> HIDE DEF r
            <6> QED
              BY <1>3, <3>2, <3>1, <6>2 DEF TypeOK
          <5> QED
            BY <5>1, <5>2
        <4>4. CASE h # hook[c]
          <5>1. h \in asked[c] /\ h \in 1..MaxHooks /\ h < hook[c]
            BY <1>3, <1>4, <4>1, <4>4 DEF TypeOK, Placed
          <5>2. shown'[<<c, h, k>>] = shown[<<c, h, k>>]
            <6>1. <<c, h, k>> \in Requests
              <7>1. k \in 1..MaxHooks
                BY <1>4
              <7> QED
                BY <5>1, <7>1, RequestType
            <6>2. <<c, h, k>> # r
              BY <4>4
            <6> HIDE DEF r
            <6> QED
              BY <1>3, <3>2, <6>1, <6>2 DEF TypeOK
          <5>3. /\ decision[<<c, h, k>>] = "approved"
                /\ rewriter[c] <= h => shown[<<c, h, k>>] = args[c]
            BY <1>3, <1>4, <5>1 DEF Confirmations, Alive, Over, Begun
          <5> QED
            BY <1>2, <1>4, <5>1, <5>2, <5>3
        <4> QED
          BY <4>3, <4>4
      <3> QED
        BY <3>3, <3>4, <3>5, <3>6, OthersKept DEF IInv
    <2> QED
      BY <2>1, <2>2
  <1> QED
    BY <1>5, <1>6, <1>7
(* A confirmation hook approves the call, or does not. *)
LEMMA ConfirmationInvariant ==
    ASSUME IInv, NEW c \in Calls, Confirmed(c) \/ Rejected(c)
    PROVE  IInv'
  <1> DEFINE r == Request(c)
  <1>1. Placed(c) /\ Confirmations(c) /\ TypeOK
    BY DEF IInv
  <1>2. /\ pc[c] = "confirm" /\ hook[c] \in 1..hooks.pre /\ hook[c] \in 1..MaxHooks
        /\ confirmer[c] \in 1..hooks.confirm /\ hooks.confirm \in 1..MaxHooks
        /\ confirmer[c] \in 1..MaxHooks /\ MaxHooks \in Nat /\ r = <<c, hook[c], confirmer[c]>> /\ r \in Requests
    BY <1>1, PipelineAssumption
       DEF Confirmed, Rejected, Placed, TypeOK, MergedHooks, Requests, Request
  <1> HIDE DEF r
  <1>3. CASE Confirmed(c)
    <2>1. decision' = decision /\ verdict' \in [Requests -> Verdicts] /\ decision[r] = "approved"
      BY <1>1, <1>2, <1>3, GateConcludes DEF Confirmed, Request, r
    <2>2. CASE confirmer[c] < hooks.confirm
      <3> DEFINE q == <<c, hook[c], confirmer[c] + 1>>
      <3>1. q \in Requests
        <4>1. confirmer[c] + 1 \in 1..MaxHooks
          BY <1>2, <2>2
        <4> QED
          BY <1>2, <4>1, RequestType
      <3>2. shown' = [shown EXCEPT ![q] = args[c]]
        BY <1>3, <2>2 DEF Confirmed
      <3>3. args[c] \in Args
        BY <1>1, <1>2 DEF TypeOK
      <3>4. TypeOK'
        <4> HIDE DEF q
        <4>1. shown' \in [Requests -> Args \cup {NoArgs}]
          BY <1>1, <3>1, <3>2, <3>3 DEF TypeOK
        <4> QED
          BY <1>1, <1>2, <1>3, <2>1, <2>2, <4>1 DEF TypeOK, Confirmed
      <3>5. ASSUME NEW d \in Calls, d # c PROVE Kept(d)
        <4>1. ASSUME NEW h \in 1..MaxHooks, NEW k \in 1..MaxHooks
              PROVE  shown'[<<d, h, k>>] = shown[<<d, h, k>>]
          <5>1. <<d, h, k>> # q /\ <<d, h, k>> \in Requests
            BY <3>5, RequestType
          <5> HIDE DEF q
          <5> QED
            BY <1>1, <3>2, <5>1 DEF TypeOK
        <4> QED
          BY <1>1, <1>3, <2>1, <2>2, <3>5, <4>1 DEF TypeOK, Confirmed, Kept
      <3>6. Placed(c)'
        BY <1>1, <1>2, <1>3, <2>2 DEF TypeOK, Placed, Confirmed
      <3>7. Confirmations(c)'
        <4> SUFFICES ASSUME NEW h \in asked[c], NEW k \in 1..hooks.confirm
                     PROVE  /\ Over(c, h, k)' => decision[<<c, h, k>>] = "approved"
                            /\ Begun(c, h, k)' /\ rewriter[c] <= h =>
                                    shown'[<<c, h, k>>] = args[c]
          BY <1>2, <1>3, <2>1, <2>2 DEF Confirmed, Confirmations
        <4>1. /\ pc'[c] = "confirm" /\ hook'[c] = hook[c] /\ confirmer'[c] = confirmer[c] + 1
          BY <1>1, <1>2, <1>3, <2>2 DEF Confirmed, TypeOK
        <4>2. h \in 1..MaxHooks /\ h <= hook[c] /\ <<c, h, k>> \in Requests
          <5>1. h \in 1..MaxHooks /\ k \in 1..MaxHooks
            BY <1>1, <1>2 DEF TypeOK
          <5> QED
            BY <1>1, <1>2, <5>1, RequestType DEF Placed
        <4>3. /\ Over(c, h, k) => decision[<<c, h, k>>] = "approved"
              /\ Begun(c, h, k) /\ rewriter[c] <= h => shown[<<c, h, k>>] = args[c]
          BY <1>1, <1>2 DEF Confirmations, Alive
        <4>4. CASE h = hook[c] /\ k = confirmer[c]
          <5>1. <<c, h, k>> = r /\ <<c, h, k>> # q
            BY <1>2, <4>4
          <5>2. shown'[<<c, h, k>>] = shown[<<c, h, k>>]
            BY <1>1, <3>2, <4>2, <5>1 DEF TypeOK
          <5> QED
            BY <1>2, <2>1, <4>3, <4>4, <5>1, <5>2 DEF Begun
        <4>5. CASE h = hook[c] /\ k = confirmer[c] + 1
          BY <1>1, <1>2, <3>1, <3>2, <4>1, <4>5 DEF TypeOK, Over
        <4>6. CASE ~(h = hook[c] /\ k \in {confirmer[c], confirmer[c] + 1})
          <5>1. <<c, h, k>> # q
            BY <4>6
          <5>2. shown'[<<c, h, k>>] = shown[<<c, h, k>>]
            BY <1>1, <3>2, <4>2, <5>1 DEF TypeOK
          <5> QED
            BY <1>2, <4>1, <4>2, <4>3, <4>6, <5>2 DEF Over, Begun
        <4> QED
          BY <4>4, <4>5, <4>6
      <3> QED
        BY <3>4, <3>5, <3>6, <3>7, OthersKept DEF IInv
    <2>3. CASE ~(confirmer[c] < hooks.confirm)
      <3>1. confirmer[c] = hooks.confirm
        BY <1>2, <2>3
      <3>2. TypeOK'
        BY <1>1, <1>2, <1>3, <2>1, <2>3 DEF TypeOK, Confirmed, Places
      <3>3. ASSUME NEW d \in Calls, d # c PROVE Kept(d)
        BY <1>1, <1>3, <2>1, <2>3, <3>3 DEF TypeOK, Confirmed, Kept
      <3>4. Placed(c)'
        BY <1>1, <1>2, <1>3, <2>3 DEF TypeOK, Placed, Confirmed
      <3>5. ASSUME NEW h \in asked[c], NEW k \in 1..hooks.confirm
            PROVE  /\ decision[<<c, h, k>>] = "approved"
                   /\ rewriter[c] <= h => shown[<<c, h, k>>] = args[c]
        <4>1. h \in 1..MaxHooks /\ h <= hook[c]
          BY <1>1, <1>2 DEF TypeOK, Placed
        <4>2. /\ Over(c, h, k) => decision[<<c, h, k>>] = "approved"
              /\ Begun(c, h, k) /\ rewriter[c] <= h => shown[<<c, h, k>>] = args[c]
          BY <1>1, <1>2 DEF Confirmations, Alive
        <4>3. CASE h = hook[c] /\ k = confirmer[c]
          BY <1>2, <2>1, <4>2, <4>3 DEF Begun
        <4>4. CASE h < hook[c] \/ k < confirmer[c]
          BY <1>2, <4>1, <4>2, <4>4 DEF Over, Begun
        <4> QED
          BY <1>2, <3>1, <4>1, <4>3, <4>4
      <3>6. Confirmations(c)'
        BY <1>1, <1>2, <1>3, <2>1, <2>3, <3>5 DEF Confirmations, Confirmed, TypeOK
      <3> QED
        BY <3>2, <3>3, <3>4, <3>6, OthersKept DEF IInv
    <2> QED
      BY <2>2, <2>3
  <1>4. CASE Rejected(c)
    <2> USE <1>4 DEF Rejected, Fail, Enter
    <2>1. decision' = decision /\ verdict' \in [Requests -> Verdicts]
      BY <1>1, <1>2, GateConcludes DEF Request, r
    <2>2. TypeOK'
      BY <1>1, <2>1 DEF TypeOK, Places
    <2>3. ASSUME NEW d \in Calls, d # c PROVE Kept(d)
      BY <1>1, <2>1, <2>3 DEF TypeOK, Kept
    <2>4. Placed(c)' /\ Confirmations(c)'
      BY <1>1, <1>2, <2>1, LeavingKept DEF TypeOK
    <2> QED
      BY <2>2, <2>3, <2>4, OthersKept DEF IInv
  <1> QED
    BY <1>3, <1>4

(* The call reaches its upstream, and what follows. *)
LEMMA UpstreamInvariant ==
    ASSUME IInv, NEW c \in Calls,
           CallUpstream(c) \/ UpstreamAnswers(c) \/ RunPostHook(c) \/ Return(c)
               \/ RunErrorHook(c) \/ Raise(c)
    PROVE  IInv'
  <1>1. Placed(c) /\ Confirmations(c) /\ TypeOK
    BY DEF IInv
  <1>2. decision' = decision /\ verdict' = verdict /\ shown' = shown
    BY DEF CallUpstream, UpstreamAnswers, RunPostHook, Return, RunErrorHook, Raise, gate
  <1>3. TypeOK'
    <2>1. /\ pc[c] # "idle"
          /\ pc' \in [Calls -> Places] /\ hook' \in [Calls -> Nat]
          /\ outcome' \in [Calls -> Outcomes]
          /\ \A d \in Calls \ {c} : pc'[d] = pc[d]
      BY <1>1
         DEF TypeOK, CallUpstream, UpstreamAnswers, RunPostHook, Return, RunErrorHook, Raise,
             Enter, Fail, NextHook, End, Places, Outcomes
    <2>2. sent' \in [Calls -> Args \cup {NoArgs}]
      BY <1>1
         DEF TypeOK, CallUpstream, UpstreamAnswers, RunPostHook, Return, RunErrorHook, Raise
    <2>3. observed' \in [Calls -> SUBSET Observer]
      BY <1>1
         DEF TypeOK, CallUpstream, UpstreamAnswers, RunPostHook, Return, RunErrorHook, Raise,
             Observe, Observer
    <2>4. UNCHANGED <<hooks, permitted, confirmer, args, admitted, asked, rewriter>>
      BY DEF CallUpstream, UpstreamAnswers, RunPostHook, Return, RunErrorHook, Raise, Enter,
             Fail, NextHook, End
    <2> QED
      BY <1>1, <1>2, <2>1, <2>2, <2>3, <2>4 DEF TypeOK
  <1>4. ASSUME NEW d \in Calls, d # c PROVE Kept(d)
    BY <1>1, <1>2, <1>4
       DEF TypeOK, Kept, CallUpstream, UpstreamAnswers, RunPostHook, Return, RunErrorHook, Raise,
           Enter, Fail, NextHook, End
  <1>5. ASSUME CallUpstream(c) PROVE Placed(c)' /\ Confirmations(c)'
    <2> USE <1>5 DEF CallUpstream, Enter
    <2>1. args[c] \in Args /\ pc[c] = "pre"
      BY <1>1 DEF TypeOK
    <2>2. Placed(c)'
      BY <1>1, <2>1, PipelineAssumption DEF TypeOK, Placed
    <2>3. Confirmations(c)'
      BY <1>1, <1>2, <2>1 DEF TypeOK, Confirmations, Alive, Over, Begun
    <2> QED
      BY <2>2, <2>3
  <1>6. ASSUME UpstreamAnswers(c) \/ RunPostHook(c) \/ Return(c) \/ RunErrorHook(c) \/ Raise(c)
        PROVE  Placed(c)' /\ Confirmations(c)'
    <2> USE <1>6
    <2>1. /\ pc[c] \in {"upstream", "post", "error"} /\ pc'[c] \in {"post", "error", "done"}
          /\ pc'[c] = "post" => pc[c] \in {"upstream", "post"}
      BY <1>1
         DEF TypeOK, UpstreamAnswers, RunPostHook, Return, RunErrorHook, Raise, Enter, Fail,
             NextHook, End
    <2>2. UNCHANGED <<hooks, admitted, args, asked, rewriter, sent>>
      BY DEF UpstreamAnswers, RunPostHook, Return, RunErrorHook, Raise
    <2>3. Placed(c)'
      BY <1>1, <2>1, <2>2 DEF Placed
    <2>4. Confirmations(c)'
      BY <1>1, <1>2, <2>1, <2>2 DEF Confirmations, Alive, Over, Begun
    <2> QED
      BY <2>3, <2>4
  <1>7. Placed(c)' /\ Confirmations(c)'
    BY <1>5, <1>6
  <1> QED
    BY <1>3, <1>4, <1>7, OthersKept DEF IInv
-----------------------------------------------------------------------------
(* What happens around the calls *)

(* The client of a call goes away. *)
LEMMA CancelInvariant ==
    ASSUME IInv, NEW c \in Calls, Cancel(c)
    PROVE  IInv'
  <1> USE DEF Cancel, End
  <1>1. Placed(c) /\ TypeOK
    BY DEF IInv
  <1>2. decision' = decision /\ verdict' \in [Requests -> Verdicts]
    <2>1. CASE pc[c] = "confirm"
      <3>1. hook[c] \in 1..MaxHooks /\ confirmer[c] \in 1..MaxHooks
        BY <1>1, <2>1, PipelineAssumption DEF Placed, TypeOK, MergedHooks
      <3>2. Request(c) \in Requests
        BY <3>1, RequestType DEF Request
      <3> QED
        BY <1>1, <2>1, <3>2, GateConcludes
    <2>2. CASE pc[c] # "confirm"
      BY <1>1, <2>2 DEF TypeOK, gate
    <2> QED
      BY <2>1, <2>2
  <1>3. TypeOK'
    BY <1>1, <1>2 DEF TypeOK, Places, Outcomes
  <1>4. ASSUME NEW d \in Calls, d # c PROVE Kept(d)
    BY <1>1, <1>2, <1>4 DEF TypeOK, Kept
  <1>5. Placed(c)' /\ Confirmations(c)'
    BY <1>1, <1>2, LeavingKept DEF TypeOK
  <1> QED
    BY <1>3, <1>4, <1>5, OthersKept DEF IInv

(* A gate decides, which it does once. *)
LEMMA DecideInvariant ==
    ASSUME IInv, NEW r \in Requests, NEW v \in {"approved", "denied"}, Decide(r, v)
    PROVE  IInv'
  <1> USE DEF Decide
  <1>1. decision' = [decision EXCEPT ![r] = v] /\ verdict' = verdict /\ decision[r] = "none"
    BY DEF Gate!Decide, Gate!Undecided
  <1>2. TypeOK'
    BY <1>1 DEF IInv, TypeOK
  <1>3. ASSUME NEW d \in Calls PROVE Kept(d)
    <2>1. ASSUME NEW h \in 1..MaxHooks, NEW k \in 1..MaxHooks, decision[<<d, h, k>>] = "approved"
          PROVE  decision'[<<d, h, k>>] = "approved"
      <3>1. <<d, h, k>> # r
        BY <1>1, <2>1
      <3>2. <<d, h, k>> \in Requests
        BY RequestType
      <3> QED
        BY <1>1, <2>1, <3>1, <3>2 DEF IInv, TypeOK
    <2> QED
      BY <2>1 DEF Kept
  <1> QED
    BY <1>2, <1>3, OthersKept DEF IInv

(* A reload, or a step that changes nothing. *)
LEMMA AroundInvariant ==
    ASSUME IInv, (\E c \in Calls : PolicyChanges(c)) \/ UNCHANGED vars
    PROVE  IInv'
  <1>1. UNCHANGED <<hooks, pc, hook, confirmer, args, outcome, decision, verdict, admitted,
                    asked, shown, rewriter, sent, observed>>
    BY DEF PolicyChanges, vars, gate
  <1>2. permitted' \in SUBSET Calls
    BY DEF IInv, TypeOK, PolicyChanges, vars
  <1>3. TypeOK'
    BY <1>1, <1>2 DEF IInv, TypeOK
  <1>4. ASSUME NEW d \in Calls PROVE Kept(d)
    BY <1>1 DEF Kept
  <1> QED
    BY <1>3, <1>4, OthersKept DEF IInv

-----------------------------------------------------------------------------
(* Theorems *)

(* The invariant holds of every run. *)
THEOREM Invariance == Spec => []IInv
  <1>1. ASSUME IInv, [Next]_vars PROVE IInv'
    <2>1. ASSUME NEW c \in Calls, Step(c) PROVE IInv'
      BY <1>1, <2>1, ArriveInvariant, PreHookInvariant, ConfirmationInvariant, UpstreamInvariant
         DEF Step
    <2> QED
      BY <1>1, <2>1, CancelInvariant, DecideInvariant, AroundInvariant DEF Next
  <1> QED
    BY <1>1, InitInvariant, PTL DEF Spec

(* Every variable keeps its type, and a call that arrived has arguments. *)
THEOREM TypeCorrectness == Spec => []TypeOK
  <1>1. IInv => TypeOK
    BY DEF IInv
  <1> QED
    BY <1>1, Invariance, PTL

(* Confirmation is fail-safe: a call reaches its upstream only if the      *)
(* policy allowed it when it arrived and every confirmation hook approved  *)
(* it, whoever asked.                                                      *)
THEOREM OnlyCleared == Spec => []ClearedBeforeUpstream
  <1>1. IInv => ClearedBeforeUpstream
    <2> SUFFICES ASSUME IInv, NEW c \in Calls, sent[c] # NoArgs
                 PROVE  /\ c \in admitted
                        /\ \A h \in asked[c] :
                            /\ hooks.confirm > 0
                            /\ \A k \in 1..hooks.confirm : decision[<<c, h, k>>] = "approved"
      BY DEF ClearedBeforeUpstream
    <2>1. Placed(c) /\ Confirmations(c)
      BY DEF IInv
    <2> QED
      BY <2>1 DEF Placed, Confirmations, Alive, Over
  <1> QED
    BY <1>1, Invariance, PTL

(* What is sent is what the confirmation hooks were shown, unless a later  *)
(* pre_tool_call hook rewrote it.                                          *)
THEOREM ShownIsSent == Spec => []SentAsShown
  <1>1. IInv => SentAsShown
    <2> SUFFICES ASSUME IInv, NEW c \in Calls, sent[c] # NoArgs,
                        NEW h \in asked[c], NEW k \in 1..hooks.confirm, rewriter[c] <= h
                 PROVE  shown[<<c, h, k>>] = sent[c]
      BY DEF SentAsShown
    <2>1. Placed(c) /\ Confirmations(c)
      BY DEF IInv
    <2> QED
      BY <2>1 DEF Placed, Confirmations, Alive, Begun
  <1> QED
    BY <1>1, Invariance, PTL
-----------------------------------------------------------------------------
(* The audit trail *)

(* Which observers a call has met so far. *)
Audited(c) ==
    /\ outcome[c] # "none" => pc[c] = "done"
    /\ pc[c] \in {"idle", "pre", "confirm", "upstream"} =>
            Seen(c, "post") = {} /\ Seen(c, "error") = {}
    /\ pc[c] = "post" =>
            /\ hook[c] \in 1..(hooks.post + 1)
            /\ Seen(c, "post") = 1..(hook[c] - 1)
            /\ Seen(c, "error") = {}
    /\ pc[c] = "error" =>
            /\ hook[c] \in 1..(hooks.error + 1)
            /\ Seen(c, "error") = 1..(hook[c] - 1)
            /\ Seen(c, "post") # {} => sent[c] # NoArgs
    /\ outcome[c] = "returned" =>
            Seen(c, "post") = 1..hooks.post /\ Seen(c, "error") = {}
    /\ outcome[c] = "raised" =>
            /\ Seen(c, "error") = 1..hooks.error
            /\ Seen(c, "post") # {} => sent[c] # NoArgs

AInv == \A c \in Calls : Audited(c)

(* One more observer of a seam, and none of the other.                     *)
LEMMA ObserveEffect ==
    ASSUME TypeOK, NEW c \in Calls, NEW seam \in {"post", "error"}, Observe(c, seam)
    PROVE  /\ Seen(c, seam)' = Seen(c, seam) \cup {hook[c]}
           /\ \A other \in {"post", "error"} \ {seam} : Seen(c, other)' = Seen(c, other)
           /\ \A d \in Calls \ {c} : observed'[d] = observed[d]
  <1> DEFINE o == [seam |-> seam, hook |-> hook[c]]
  <1>1. observed'[c] = observed[c] \cup {o} /\ \A d \in Calls \ {c} : observed'[d] = observed[d]
    BY DEF Observe, TypeOK
  <1>2. o.seam = seam /\ o.hook = hook[c]
    OBVIOUS
  <1> HIDE DEF o
  <1>3. Seen(c, seam)' = Seen(c, seam) \cup {hook[c]}
    BY <1>1, <1>2 DEF Seen
  <1>4. ASSUME NEW other \in {"post", "error"} \ {seam} PROVE Seen(c, other)' = Seen(c, other)
    BY <1>1, <1>2, <1>4 DEF Seen
  <1> QED
    BY <1>1, <1>3, <1>4

(* A step of another call keeps the trail of this one. *)
LEMMA AuditKept ==
    ASSUME AInv, NEW d \in Calls, hooks' = hooks, pc'[d] = pc[d], hook'[d] = hook[d],
           outcome'[d] = outcome[d], sent'[d] = sent[d], observed'[d] = observed[d]
    PROVE  Audited(d)'
  BY DEF AInv, Audited, Seen

(* A call on its way to the upstream, or leaving it, meets no observer.    *)
LEMMA AuditBefore ==
    ASSUME IInv, AInv, NEW c \in Calls, hooks' = hooks, observed' = observed,
           outcome'[c] = outcome[c], sent[c] # NoArgs => sent'[c] = sent[c],
           pc[c] \in {"idle", "pre", "confirm", "upstream"},
           \/ pc'[c] \in {"pre", "confirm", "upstream"}
           \/ pc'[c] \in {"post", "error"} /\ hook'[c] = 1
    PROVE  Audited(c)'
  <1>1. Seen(c, "post")' = {} /\ Seen(c, "error")' = {}
    BY DEF AInv, Audited, Seen
  <1>2. outcome'[c] = "none"
    BY DEF IInv, TypeOK, AInv, Audited, Outcomes
  <1>3. hooks.post \in Nat /\ hooks.error \in Nat
    BY PipelineAssumption DEF IInv, TypeOK, MergedHooks
  <1>4. 1 \in 1..(hooks.post + 1) /\ 1 \in 1..(hooks.error + 1) /\ 1..(1 - 1) = {}
    BY <1>3
  <1> QED
    BY <1>1, <1>2, <1>4 DEF Audited

(* Every step keeps the audit trail.                                       *)
LEMMA AuditStep ==
    ASSUME IInv, AInv, [Next]_vars
    PROVE  AInv'
  <1>1. TypeOK /\ hooks.post \in Nat /\ hooks.error \in Nat
    BY PipelineAssumption DEF IInv, TypeOK, MergedHooks
  <1>2. ASSUME NEW c \in Calls, NEW a \in Args, Arrive(c, a) PROVE AInv'
    <2> USE <1>2 DEF Arrive, Enter, Fail
    <2>1. Audited(c)'
      BY <1>1, AuditBefore DEF TypeOK
    <2>2. ASSUME NEW d \in Calls, d # c PROVE Audited(d)'
      BY <1>1, <2>2, AuditKept DEF TypeOK
    <2> QED
      BY <2>1, <2>2 DEF AInv
  <1>3. ASSUME NEW c \in Calls, NEW new \in Args \cup {NoArgs},
               PreHookContinues(c, new) \/ PreHookDenies(c, new) \/ PreHookAsks(c, new)
        PROVE  AInv'
    <2> USE <1>3 DEF PreHookContinues, PreHookDenies, PreHookAsks, AtPreHook, Enter, Fail, NextHook
    <2>1. Audited(c)'
      BY <1>1, AuditBefore DEF TypeOK
    <2>2. ASSUME NEW d \in Calls, d # c PROVE Audited(d)'
      BY <1>1, <2>2, AuditKept DEF TypeOK
    <2> QED
      BY <2>1, <2>2 DEF AInv
  <1>4. ASSUME NEW c \in Calls,
               Confirmed(c) \/ Rejected(c) \/ CallUpstream(c) \/ UpstreamAnswers(c)
        PROVE  AInv'
    <2> USE <1>4 DEF Confirmed, Rejected, CallUpstream, UpstreamAnswers, Enter, Fail
    <2>1. sent[c] # NoArgs => sent'[c] = sent[c]
      BY DEF IInv, Placed
    <2>2. Audited(c)'
      BY <1>1, <2>1, AuditBefore DEF TypeOK
    <2>3. ASSUME NEW d \in Calls, d # c PROVE Audited(d)'
      BY <1>1, <2>3, AuditKept DEF TypeOK
    <2> QED
      BY <2>2, <2>3 DEF AInv
  <1>5. ASSUME NEW c \in Calls, RunPostHook(c) PROVE AInv'
    <2> USE <1>5 DEF RunPostHook
    <2>1. /\ Seen(c, "post")' = Seen(c, "post") \cup {hook[c]}
          /\ Seen(c, "error")' = Seen(c, "error")
          /\ \A d \in Calls \ {c} : observed'[d] = observed[d]
      BY <1>1, ObserveEffect
    <2>2. Audited(c) /\ Placed(c)
      BY DEF AInv, IInv
    <2>3. hook[c] \in 1..hooks.post /\ outcome[c] = "none"
      BY <1>1, <2>2 DEF Audited, TypeOK, Outcomes
    <2>4. Seen(c, "post")' = 1..hook[c] /\ Seen(c, "error")' = {}
      <3>1. 1..hook[c] = 1..(hook[c] - 1) \cup {hook[c]}
        BY <1>1, <2>3
      <3> QED
        BY <2>1, <2>2, <3>1 DEF Audited
    <2>5. sent' = sent /\ sent[c] # NoArgs /\ hooks' = hooks
      BY <2>2 DEF Placed
    <2>6. Audited(c)'
      <3>1. CASE NextHook(c)
        <4>1. pc'[c] = "post" /\ hook'[c] = hook[c] + 1 /\ outcome'[c] = "none"
          BY <1>1, <2>3, <3>1 DEF TypeOK, NextHook
        <4>2. hook'[c] \in 1..(hooks.post + 1) /\ hook'[c] - 1 = hook[c]
          BY <1>1, <2>3, <4>1
        <4> QED
          BY <2>4, <2>5, <4>1, <4>2 DEF Audited
      <3>2. CASE Fail(c)
        <4>1. pc'[c] = "error" /\ hook'[c] = 1 /\ outcome'[c] = "none"
          BY <1>1, <2>3, <3>2 DEF TypeOK, Fail, Enter
        <4>2. 1 \in 1..(hooks.error + 1) /\ 1..(1 - 1) = {}
          BY <1>1
        <4> QED
          BY <2>4, <2>5, <4>1, <4>2 DEF Audited
      <3> QED
        BY <3>1, <3>2
    <2>7. ASSUME NEW d \in Calls, d # c PROVE Audited(d)'
      BY <1>1, <2>1, <2>7, AuditKept DEF TypeOK, NextHook, Fail, Enter
    <2> QED
      BY <2>6, <2>7 DEF AInv
  <1>6. ASSUME NEW c \in Calls, RunErrorHook(c) PROVE AInv'
    <2> USE <1>6 DEF RunErrorHook, NextHook
    <2>1. /\ Seen(c, "error")' = Seen(c, "error") \cup {hook[c]}
          /\ Seen(c, "post")' = Seen(c, "post")
          /\ \A d \in Calls \ {c} : observed'[d] = observed[d]
      BY <1>1, ObserveEffect
    <2>2. Audited(c)
      BY DEF AInv
    <2>3. hook[c] \in 1..hooks.error /\ outcome[c] = "none"
      BY <1>1, <2>2 DEF Audited, TypeOK, Outcomes
    <2>4. Seen(c, "error")' = 1..hook[c]
      <3>1. 1..hook[c] = 1..(hook[c] - 1) \cup {hook[c]}
        BY <1>1, <2>3
      <3> QED
        BY <2>1, <2>2, <3>1 DEF Audited
    <2>5. /\ pc'[c] = "error" /\ hook'[c] = hook[c] + 1 /\ outcome'[c] = "none"
          /\ sent' = sent /\ hooks' = hooks
      BY <1>1, <2>3 DEF TypeOK
    <2>6. hook'[c] \in 1..(hooks.error + 1) /\ hook'[c] - 1 = hook[c]
      BY <1>1, <2>3, <2>5
    <2>7. Audited(c)'
      BY <2>1, <2>2, <2>4, <2>5, <2>6 DEF Audited
    <2>8. ASSUME NEW d \in Calls, d # c PROVE Audited(d)'
      BY <1>1, <2>1, <2>8, AuditKept DEF TypeOK
    <2> QED
      BY <2>7, <2>8 DEF AInv
  <1>7. ASSUME NEW c \in Calls, NEW result \in {"returned", "raised", "cancelled"},
               End(c, result), UNCHANGED <<hooks, sent, observed>>,
               pc[c] # "done",
               result = "returned" => pc[c] = "post" /\ hook[c] > hooks.post,
               result = "raised" => pc[c] = "error" /\ hook[c] > hooks.error
        PROVE  AInv'
    <2> USE <1>7 DEF End
    <2>1. pc'[c] = "done" /\ outcome'[c] = result
      BY <1>1 DEF TypeOK
    <2>2. Audited(c)
      BY DEF AInv
    <2>3. Seen(c, "post")' = Seen(c, "post") /\ Seen(c, "error")' = Seen(c, "error")
      BY DEF Seen
    <2>4. result = "returned" => hook[c] - 1 = hooks.post
      BY <1>1, <2>2 DEF Audited
    <2>5. result = "raised" => hook[c] - 1 = hooks.error
      BY <1>1, <2>2 DEF Audited
    <2>6. Audited(c)'
      BY <2>1, <2>2, <2>3, <2>4, <2>5 DEF Audited
    <2>7. ASSUME NEW d \in Calls, d # c PROVE Audited(d)'
      BY <1>1, <2>7, AuditKept DEF TypeOK
    <2> QED
      BY <2>6, <2>7 DEF AInv
  <1>8. ASSUME NEW c \in Calls, Return(c) \/ Raise(c) \/ Cancel(c) PROVE AInv'
    BY <1>7, <1>8 DEF Return, Raise, Cancel
  <1>9. ASSUME UNCHANGED <<hooks, pc, hook, outcome, sent, observed>> PROVE AInv'
    BY <1>9, AuditKept DEF AInv
  <1>10. ASSUME NEW c \in Calls, Step(c) PROVE AInv'
    BY <1>2, <1>3, <1>4, <1>5, <1>6, <1>8, <1>10 DEF Step
  <1> QED
    BY <1>8, <1>9, <1>10 DEF Next, PolicyChanges, Decide, vars

(* Every call that returns or raises is seen by every hook of the seam     *)
(* that audits it, and by none of the other unless its upstream answered.  *)
THEOREM AuditTrail == Spec => []AuditIsComplete
  <1>1. Init => AInv
    <2> SUFFICES ASSUME Init, NEW c \in Calls PROVE Audited(c)
      BY DEF AInv
    <2>1. Seen(c, "post") = {} /\ Seen(c, "error") = {}
      BY DEF Init, Seen
    <2> QED
      BY <2>1 DEF Init, Audited
  <1>2. AInv => AuditIsComplete
    BY DEF AInv, Audited, AuditIsComplete
  <1> QED
    BY <1>1, <1>2, AuditStep, Invariance, PTL DEF Spec
-----------------------------------------------------------------------------
(* The gates of the confirmations *)

(* The confirmations a call has yet to reach, the one it waits for among   *)
(* them.                                                                   *)
Ahead(c) ==
    {r \in Requests :
        /\ r[1] = c
        /\ \/ pc[c] = "idle"
           \/ pc[c] = "pre" /\ r[2] >= hook[c]
           \/ pc[c] = "confirm" /\ r[2] > hook[c]
           \/ pc[c] = "confirm" /\ r[2] = hook[c] /\ r[3] >= confirmer[c]}

(* No two confirmations share a gate: those ahead have no verdict, and the *)
(* one a call waits for was asked for by the hook it is at.                *)
Fresh(c) ==
    /\ \A r \in Ahead(c) : verdict[r] = "none"
    /\ pc[c] = "confirm" => hook[c] \in asked[c]

FInv == \A c \in Calls : Fresh(c)

(* A call that waits for a confirmation is at a gate that has reached no   *)
(* verdict and was shown the arguments the call has now: it can still be   *)
(* approved, refused, or given up.                                         *)
WaitsAtItsGate ==
    \A c \in Calls :
        pc[c] = "confirm" =>
            /\ Request(c) \in Requests
            /\ verdict[Request(c)] = "none"
            /\ shown[Request(c)] = args[c] /\ args[c] # NoArgs

(* A step that brings no confirmation of d ahead, and gives none of those  *)
(* still ahead a verdict, keeps them fresh.                                *)
LEMMA FreshKept ==
    ASSUME FInv, NEW d \in Calls, Ahead(d)' \subseteq Ahead(d),
           \A r \in Ahead(d)' : verdict'[r] = verdict[r],
           pc'[d] = "confirm" => hook'[d] \in asked'[d]
    PROVE  Fresh(d)'
  BY DEF FInv, Fresh

(* A step of one call leaves the gates of the others alone. *)
LEMMA FreshOthers ==
    ASSUME IInv, FInv, NEW c \in Calls, NEW d \in Calls, d # c,
           pc'[d] = pc[d], hook'[d] = hook[d], confirmer'[d] = confirmer[d],
           asked'[d] = asked[d],
           \A r \in Requests : r[1] # c => verdict'[r] = verdict[r]
    PROVE  Fresh(d)'
  <1>1. Ahead(d)' = Ahead(d)
    BY DEF Ahead
  <1>2. ASSUME NEW r \in Ahead(d) PROVE verdict'[r] = verdict[r]
    BY DEF Ahead
  <1>3. pc'[d] = "confirm" => hook'[d] \in asked'[d]
    BY DEF FInv, Fresh
  <1> QED
    BY <1>1, <1>2, <1>3, FreshKept

(* Where the confirmation of a waiting call is. *)
LEMMA AtTheGate ==
    ASSUME IInv, NEW c \in Calls, pc[c] = "confirm"
    PROVE  /\ Request(c) \in Requests
           /\ Request(c)[1] = c /\ Request(c)[2] = hook[c] /\ Request(c)[3] = confirmer[c]
           /\ hook[c] \in Nat /\ confirmer[c] \in Nat
  <1>1. hook[c] \in 1..MaxHooks /\ confirmer[c] \in 1..MaxHooks /\ MaxHooks \in Nat
    BY PipelineAssumption DEF IInv, Placed, TypeOK, MergedHooks
  <1> QED
    BY <1>1, RequestType DEF Request

(* The numbers a request is made of. *)
LEMMA RequestParts ==
    ASSUME NEW r \in Requests
    PROVE  r[2] \in Nat \ {0} /\ r[3] \in Nat \ {0}
  BY PipelineAssumption DEF Requests

(* Every step keeps the confirmations that are ahead fresh. *)
LEMMA FreshStep ==
    ASSUME IInv, FInv, [Next]_vars
    PROVE  FInv'
  <1>1. TypeOK
    BY DEF IInv
  <1>2. ASSUME NEW c \in Calls, verdict' = verdict,
               pc'[c] \notin {"idle", "confirm"}, hook'[c] \in Nat,
               pc'[c] = "pre" => pc[c] = "idle" \/ (pc[c] = "pre" /\ hook'[c] >= hook[c]),
               \A d \in Calls \ {c} :
                    /\ pc'[d] = pc[d] /\ hook'[d] = hook[d] /\ confirmer'[d] = confirmer[d]
                    /\ asked'[d] = asked[d]
        PROVE  FInv'
    <2>1. Ahead(c)' \subseteq Ahead(c)
      <3> SUFFICES ASSUME NEW r \in Ahead(c)' PROVE r \in Ahead(c)
        OBVIOUS
      <3>1. r \in Requests /\ r[1] = c /\ pc'[c] = "pre" /\ r[2] >= hook'[c]
        BY <1>2 DEF Ahead
      <3>2. r[2] \in Nat /\ hook[c] \in Nat
        BY <1>1, <3>1, RequestParts DEF TypeOK
      <3> QED
        BY <1>2, <3>1, <3>2 DEF Ahead
    <2>2. Fresh(c)'
      BY <1>2, <2>1, FreshKept
    <2> QED
      BY <1>2, <2>2, FreshOthers DEF FInv
  <1>3. ASSUME NEW c \in Calls, NEW a \in Args, Arrive(c, a) PROVE FInv'
    <2>1. /\ verdict' = verdict /\ asked' = asked /\ confirmer' = confirmer
          /\ pc[c] = "idle" /\ pc'[c] \in {"pre", "error"} /\ hook'[c] \in Nat
          /\ \A d \in Calls \ {c} : pc'[d] = pc[d] /\ hook'[d] = hook[d]
      BY <1>1, <1>3 DEF TypeOK, Arrive, Enter, Fail, gate
    <2> QED
      BY <1>2, <2>1
  <1>4. ASSUME NEW c \in Calls, NEW new \in Args \cup {NoArgs},
               PreHookContinues(c, new) \/ PreHookDenies(c, new) PROVE FInv'
    <2>1. hook[c] + 1 >= hook[c] /\ hook[c] + 1 \in Nat
      BY <1>1 DEF TypeOK
    <2> QED
      BY <1>1, <1>2, <1>4, <2>1
         DEF TypeOK, PreHookContinues, PreHookDenies, AtPreHook, Fail, Enter, NextHook, gate
  <1>5. ASSUME NEW c \in Calls, NEW new \in Args \cup {NoArgs}, PreHookAsks(c, new)
        PROVE  FInv'
    <2> USE <1>5 DEF PreHookAsks, AtPreHook, gate
    <2>1. CASE hooks.confirm = 0
      <3>1. /\ verdict' = verdict /\ confirmer' = confirmer /\ pc'[c] = "error"
            /\ hook'[c] \in Nat
            /\ \A d \in Calls \ {c} :
                    pc'[d] = pc[d] /\ hook'[d] = hook[d] /\ asked'[d] = asked[d]
        BY <1>1, <2>1 DEF TypeOK, Fail, Enter
      <3> HIDE DEF PreHookAsks
      <3> QED
        BY <1>2, <3>1
    <2>2. CASE hooks.confirm # 0
      <3>1. /\ pc'[c] = "confirm" /\ hook' = hook /\ hook[c] \in asked'[c]
            /\ verdict' = verdict
        BY <1>1, <2>2 DEF TypeOK
      <3>2. Ahead(c)' \subseteq Ahead(c)
        <4> SUFFICES ASSUME NEW r \in Ahead(c)' PROVE r \in Ahead(c)
          OBVIOUS
        <4>1. r \in Requests /\ r[1] = c /\ (r[2] > hook[c] \/ r[2] = hook[c])
          BY <3>1 DEF Ahead
        <4>2. r[2] \in Nat /\ hook[c] \in Nat
          BY <1>1, <4>1, RequestParts DEF TypeOK
        <4> QED
          BY <4>1, <4>2 DEF Ahead
      <3>3. Fresh(c)'
        BY <3>1, <3>2, FreshKept
      <3>4. ASSUME NEW d \in Calls, d # c PROVE Fresh(d)'
        BY <1>1, <2>2, <3>4, FreshOthers DEF TypeOK
      <3> QED
        BY <3>3, <3>4 DEF FInv
    <2> QED
      BY <2>1, <2>2
  <1>6. ASSUME NEW c \in Calls, NEW v \in {"approved", "denied", "cancelled"},
               pc[c] = "confirm", Gate!Conclude(Request(c), v)
        PROVE  \A r \in Requests : r # Request(c) => verdict'[r] = verdict[r]
    BY <1>1, <1>6, AtTheGate DEF Gate!Conclude, TypeOK
  <1>7. ASSUME NEW c \in Calls, Confirmed(c) PROVE FInv'
    <2> USE <1>7 DEF Confirmed
    <2>1. \A r \in Requests : r # Request(c) => verdict'[r] = verdict[r]
      BY <1>6
    <2>2. /\ Request(c)[1] = c /\ Request(c)[2] = hook[c] /\ Request(c)[3] = confirmer[c]
          /\ hook[c] \in Nat /\ confirmer[c] \in Nat
      BY AtTheGate
    <2>3. /\ asked' = asked
          /\ \/ pc' = pc /\ hook' = hook /\ confirmer'[c] = confirmer[c] + 1
             \/ pc'[c] = "pre" /\ hook'[c] = hook[c] + 1
      BY <1>1 DEF TypeOK
    <2>4. ASSUME NEW r \in Ahead(c)' PROVE r \in Ahead(c) /\ r # Request(c)
      <3>1. r \in Requests /\ r[1] = c
        BY DEF Ahead
      <3>2. r[2] \in Nat /\ r[3] \in Nat
        BY <3>1, RequestParts
      <3>3. CASE pc' = pc /\ hook' = hook /\ confirmer'[c] = confirmer[c] + 1
        <4>1. r[2] > hook[c] \/ (r[2] = hook[c] /\ r[3] >= confirmer[c] + 1)
          BY <3>3 DEF Ahead
        <4>2. r # Request(c)
          BY <2>2, <3>2, <4>1
        <4>3. pc[c] = "confirm" /\ (r[2] > hook[c] \/ (r[2] = hook[c] /\ r[3] >= confirmer[c]))
          BY <2>2, <3>2, <4>1
        <4> HIDE DEF Confirmed
        <4> QED
          BY <3>1, <4>2, <4>3 DEF Ahead
      <3>4. CASE pc'[c] = "pre" /\ hook'[c] = hook[c] + 1
        <4>1. r[2] >= hook[c] + 1
          BY <3>4 DEF Ahead
        <4>2. r # Request(c)
          BY <2>2, <3>2, <4>1
        <4>3. pc[c] = "confirm" /\ (r[2] > hook[c] \/ (r[2] = hook[c] /\ r[3] >= confirmer[c]))
          BY <2>2, <3>2, <4>1
        <4> HIDE DEF Confirmed
        <4> QED
          BY <3>1, <4>2, <4>3 DEF Ahead
      <3> QED
        BY <2>3, <3>3, <3>4
    <2>5. pc'[c] = "confirm" => hook'[c] \in asked'[c]
      BY <2>3 DEF FInv, Fresh
    <2>6. \A r \in Ahead(c)' : r \in Requests
      BY DEF Ahead
    <2>7. Fresh(c)'
      BY <2>1, <2>4, <2>5, <2>6, FreshKept
    <2>8. ASSUME NEW d \in Calls, d # c PROVE Fresh(d)'
      <3>1. \A r \in Requests : r[1] # c => verdict'[r] = verdict[r]
        BY <2>1, <2>2
      <3>2. pc'[d] = pc[d] /\ hook'[d] = hook[d] /\ confirmer'[d] = confirmer[d]
        BY <1>1, <2>8 DEF TypeOK
      <3> QED
        BY <2>3, <2>8, <3>1, <3>2, FreshOthers
    <2> QED
      BY <2>7, <2>8 DEF FInv
  <1>8. ASSUME NEW c \in Calls, pc'[c] \in {"error", "done"}, asked' = asked,
               \A d \in Calls \ {c} :
                    pc'[d] = pc[d] /\ hook'[d] = hook[d] /\ confirmer'[d] = confirmer[d],
               \A r \in Requests : r[1] # c => verdict'[r] = verdict[r]
        PROVE  FInv'
    <2>1. Ahead(c)' = {}
      BY <1>8 DEF Ahead
    <2>2. Fresh(c)'
      BY <1>8, <2>1, FreshKept
    <2> QED
      BY <1>8, <2>2, FreshOthers DEF FInv
  <1>9. ASSUME NEW c \in Calls, Rejected(c) PROVE FInv'
    <2> USE <1>9 DEF Rejected, Fail, Enter
    <2>1. \A r \in Requests : r[1] # c => verdict'[r] = verdict[r]
      BY <1>6, AtTheGate
    <2> QED
      BY <1>1, <1>8, <2>1 DEF TypeOK
  <1>10. ASSUME NEW c \in Calls, Cancel(c) PROVE FInv'
    <2> USE <1>10 DEF Cancel, End
    <2>1. \A r \in Requests : r[1] # c => verdict'[r] = verdict[r]
      BY <1>6, AtTheGate DEF gate
    <2> QED
      BY <1>1, <1>8, <2>1 DEF TypeOK
  <1>11. ASSUME NEW c \in Calls,
                \/ CallUpstream(c) \/ UpstreamAnswers(c) \/ RunPostHook(c) \/ Return(c)
                \/ RunErrorHook(c) \/ Raise(c)
         PROVE  FInv'
    <2>1. /\ verdict' = verdict /\ asked' = asked
          /\ pc'[c] \in {"upstream", "post", "error", "done"}
          /\ pc[c] = "pre" => pc'[c] = "upstream"
          /\ \A d \in Calls \ {c} :
                pc'[d] = pc[d] /\ hook'[d] = hook[d] /\ confirmer'[d] = confirmer[d]
      BY <1>1, <1>11
         DEF TypeOK, gate, CallUpstream, UpstreamAnswers, RunPostHook, Return, RunErrorHook,
             Raise, Enter, Fail, NextHook, End
    <2>2. Ahead(c)' = {}
      BY <2>1 DEF Ahead
    <2>3. Fresh(c)'
      BY <2>1, <2>2, FreshKept
    <2> QED
      BY <2>1, <2>3, FreshOthers DEF FInv
  <1>12. ASSUME UNCHANGED <<pc, hook, confirmer, asked, verdict>> PROVE FInv'
    BY <1>12 DEF FInv, Fresh, Ahead
  <1>13. ASSUME NEW r \in Requests, NEW v \in {"approved", "denied"}, Decide(r, v) PROVE FInv'
    BY <1>12, <1>13 DEF Decide, Gate!Decide
  <1>14. ASSUME NEW c \in Calls, Step(c) PROVE FInv'
    BY <1>3, <1>4, <1>5, <1>7, <1>9, <1>11, <1>14 DEF Step
  <1> QED
    BY <1>10, <1>12, <1>13, <1>14 DEF Next, PolicyChanges, vars, gate

(* Whatever hooks, clients and operators do, a call that waits for a       *)
(* confirmation waits at a gate nobody has closed, shown the arguments the *)
(* call has: no confirmation is answered by the verdict of another.        *)
THEOREM EachWaitsAtItsOwnGate == Spec => []WaitsAtItsGate
  <1>1. Init => FInv
    <2> SUFFICES ASSUME Init, NEW c \in Calls PROVE Fresh(c)
      BY DEF FInv
    <2> QED
      BY DEF Init, Gate!Init, Fresh, Ahead
  <1>2. IInv /\ FInv => WaitsAtItsGate
    <2> SUFFICES ASSUME IInv, FInv, NEW c \in Calls, pc[c] = "confirm"
                 PROVE  /\ Request(c) \in Requests
                        /\ verdict[Request(c)] = "none"
                        /\ shown[Request(c)] = args[c] /\ args[c] # NoArgs
      BY DEF WaitsAtItsGate
    <2>1. Placed(c) /\ Confirmations(c) /\ Fresh(c) /\ args[c] \in Args
      BY DEF IInv, FInv, TypeOK
    <2>2. Request(c) \in Ahead(c)
      BY AtTheGate DEF Ahead
    <2>3. confirmer[c] \in 1..hooks.confirm /\ hook[c] \in asked[c] /\ rewriter[c] <= hook[c]
      BY <2>1 DEF Placed, Fresh
    <2>4. Begun(c, hook[c], confirmer[c])
      BY AtTheGate DEF Begun
    <2>5. shown[Request(c)] = args[c]
      BY <2>1, <2>3, <2>4 DEF Confirmations, Alive, Request
    <2> QED
      BY <2>1, <2>2, <2>5, PipelineAssumption, AtTheGate DEF Fresh
  <1> QED
    BY <1>1, <1>2, FreshStep, Invariance, PTL DEF Spec

(* A step of the pipeline is a step of one gate, or none of theirs.        *)
LEMMA GateStep ==
    ASSUME IInv, [Next]_vars
    PROVE  [Gate!Next]_Gate!vars
  <1>1. ASSUME NEW c \in Calls, NEW v \in {"approved", "denied", "cancelled"},
               pc[c] = "confirm", Gate!Conclude(Request(c), v)
        PROVE  Gate!Next
    BY <1>1, AtTheGate DEF Gate!Next
  <1>2. ASSUME NEW c \in Calls, Confirmed(c) \/ Rejected(c) \/ Cancel(c)
        PROVE  [Gate!Next]_Gate!vars
    BY <1>1, <1>2 DEF Confirmed, Rejected, Cancel, Gate!vars, gate
  <1>3. ASSUME NEW r \in Requests, NEW v \in {"approved", "denied"}, Decide(r, v)
        PROVE  Gate!Next
    BY <1>3 DEF Decide, Gate!Next
  <1>4. ASSUME UNCHANGED gate PROVE [Gate!Next]_Gate!vars
    BY <1>4 DEF gate, Gate!vars
  <1>5. ASSUME NEW c \in Calls, Step(c) PROVE [Gate!Next]_Gate!vars
    BY <1>2, <1>4, <1>5
       DEF Step, Arrive, PreHookContinues, PreHookDenies, PreHookAsks, CallUpstream,
           UpstreamAnswers, RunPostHook, Return, RunErrorHook, Raise
  <1> QED
    BY <1>2, <1>3, <1>4, <1>5 DEF Next, PolicyChanges, vars, gate

(* Every confirmation of the pipeline is an approval gate: decided at most *)
(* once, concluded at most once, and approved only by a decision.  The     *)
(* plugin that keeps a gate's promise (PendingApprovals) can stand behind  *)
(* each of them.                                                           *)
THEOREM ConfirmationsAreGates == Spec => Gate!Spec
  <1>1. Init => Gate!Init
    BY DEF Init
  <1> QED
    BY <1>1, GateStep, Invariance, PTL DEF Spec, Gate!Spec

=============================================================================
