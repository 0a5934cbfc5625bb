------------------------ MODULE PendingApprovalsProofs ------------------------
(***************************************************************************)
(* Theorems about PendingApprovals, for any set of calls: the gate lets    *)
(* through only what was approved, tells operators the truth over the JSON *)
(* API, and implements Approval; and about Approval itself.                *)
(***************************************************************************)
EXTENDS PendingApprovals, TLAPS

(* What holds of one call at any time.  A future that is still registered  *)
(* agrees with the decision; a call leaves a registered future behind only *)
(* when it was cancelled; an operator told 200 was told the decision.      *)
Consistent(c) ==
    /\ pc[c] = "idle" => future[c] = "absent" /\ decision[c] = "none"
    /\ future[c] = "open" => decision[c] = "none"
    /\ future[c] \in Decisions => decision[c] = future[c]
    /\ verdict[c] = "none" <=> pc[c] # "done"
    /\ pc[c] = "done" /\ future[c] # "absent" => verdict[c] = "cancelled"
    /\ verdict[c] = "approved" => decision[c] = "approved"
    /\ \A a \in answered[c] : a.page = "json" => decision[c] = a.decision

IInv == TypeOK /\ \A c \in Calls : Consistent(c)

-----------------------------------------------------------------------------
(* The invariant *)

(* The initial states are consistent. *)
LEMMA InitConsistent == Init => IInv
  BY DEF Init, IInv, TypeOK, Consistent, Places, Decisions

(* Leaving wait() with a verdict keeps the invariant, when an approval is  *)
(* the decision.                                                           *)
LEMMA ConcludeConsistent ==
    ASSUME IInv, NEW c \in Calls, NEW v \in {"approved", "denied", "cancelled"},
           v = "approved" => decision[c] = "approved", pc[c] # "idle", Conclude(c, v)
    PROVE  IInv'
  <1>1. TypeOK'
    BY DEF IInv, TypeOK, Conclude, Goto, Places, Decisions
  <1>2. ASSUME NEW d \in Calls PROVE Consistent(d)'
    <2>1. CASE d = c
      BY <2>1 DEF IInv, TypeOK, Consistent, Conclude, Goto, Places, Decisions
    <2>2. CASE d # c
      BY <2>2 DEF IInv, TypeOK, Consistent, Conclude, Goto
    <2> QED
      BY <2>1, <2>2
  <1> QED
    BY <1>1, <1>2 DEF IInv

(* So does every other step of the call's own coroutine. *)
LEMMA WaiterConsistent ==
    ASSUME IInv, NEW c \in Calls,
           Create(c) \/ Notified(c) \/ Expire(c) \/ WakeDecided(c) \/ WakeExpired(c)
               \/ CancelWaiting(c) \/ CancelNotifying(c)
    PROVE  IInv'
  <1> USE DEF Decisions
  <1>0. future[c] \in Decisions => decision[c] = future[c]
    BY DEF IInv, Consistent
  <1>1. CASE Create(c)
    <2>1. TypeOK'
      BY <1>1 DEF IInv, TypeOK, Create, Goto, Places
    <2>2. ASSUME NEW d \in Calls PROVE Consistent(d)'
      BY <1>1 DEF IInv, TypeOK, Consistent, Create, Goto, Places
    <2> QED
      BY <2>1, <2>2 DEF IInv
  <1>2. ASSUME NEW place \in {"waiting", "expired"}, Goto(c, place), pc[c] \notin {"idle", "done"},
               UNCHANGED <<approvals, future, decision, verdict, answered>>
        PROVE  IInv'
    <2>1. TypeOK'
      BY <1>2 DEF IInv, TypeOK, Goto, Places
    <2>2. ASSUME NEW d \in Calls PROVE Consistent(d)'
      BY <1>2 DEF IInv, TypeOK, Consistent, Goto, Places
    <2> QED
      BY <2>1, <2>2 DEF IInv
  <1>3. CASE Notified(c)
    BY <1>0, <1>2, <1>3, ConcludeConsistent DEF Notified
  <1>4. CASE Expire(c)
    BY <1>2, <1>4 DEF Expire
  <1>5. CASE WakeDecided(c)
    BY <1>0, <1>5, ConcludeConsistent DEF WakeDecided
  <1>6. CASE WakeExpired(c)
    BY <1>0, <1>6, ConcludeConsistent DEF WakeExpired
  <1>7. CASE CancelWaiting(c)
    BY <1>7, ConcludeConsistent DEF CancelWaiting
  <1>8. CASE CancelNotifying(c)
    <2>1. TypeOK'
      BY <1>8 DEF IInv, TypeOK, CancelNotifying, Goto, Places
    <2>2. ASSUME NEW d \in Calls PROVE Consistent(d)'
      BY <1>8 DEF IInv, TypeOK, Consistent, CancelNotifying, Goto, Places
    <2> QED
      BY <2>1, <2>2 DEF IInv
  <1> QED
    BY <1>1, <1>3, <1>4, <1>5, <1>6, <1>7, <1>8

(* While a future is open no operator was told 200. *)
LEMMA OpenIsUntold ==
    ASSUME IInv, NEW c \in Calls, future[c] = "open"
    PROVE  \A a \in answered[c] : a.page # "json"
  <1>1. decision[c] = "none" /\ answered[c] \subseteq Answer
    BY DEF IInv, TypeOK, Consistent
  <1>2. \A a \in answered[c] : a.page = "json" => decision[c] = a.decision
    BY DEF IInv, Consistent
  <1> QED
    BY <1>1, <1>2 DEF Answer, Decisions

(* And so do the operators' decisions and the plugin's teardown. *)
LEMMA OperatorConsistent ==
    ASSUME IInv,
           Teardown \/ \E c \in Calls, d \in Decisions : DecideJson(c, d) \/ DecideHtml(c, d)
    PROVE  IInv'
  <1> USE DEF Decisions
  <1>1. ASSUME NEW c \in Calls, NEW d \in Decisions, DecideJson(c, d) PROVE IInv'
    <2>1. TypeOK'
      BY <1>1 DEF IInv, TypeOK, DecideJson, Resolve, Told, Answer
    <2>2. ASSUME NEW e \in Calls PROVE Consistent(e)'
      <3>1. CASE e = c
        BY <1>1, <3>1 DEF IInv, TypeOK, Consistent, DecideJson, Resolve, Told, Answer
      <3>2. CASE e # c
        BY <1>1, <3>2 DEF IInv, TypeOK, Consistent, DecideJson, Resolve, Told
      <3> QED
        BY <3>1, <3>2
    <2> QED
      BY <2>1, <2>2 DEF IInv
  <1>2. ASSUME NEW c \in Calls, NEW d \in Decisions, DecideHtml(c, d) PROVE IInv'
    <2>1. TypeOK'
      BY <1>2 DEF IInv, TypeOK, DecideHtml, Resolve, Told, Answer
    <2>2. ASSUME NEW e \in Calls PROVE Consistent(e)'
      <3>1. CASE e = c
        <4>1. \A a \in answered'[c] : a.page = "json" => a \in answered[c]
          BY <1>2 DEF IInv, TypeOK, DecideHtml, Told
        <4>2. Consistent(c)
          BY DEF IInv
        <4>3. CASE Resolve(c, d)
          <5>1. \A a \in answered[c] : a.page # "json"
            BY <4>3, OpenIsUntold DEF Resolve
          <5> QED
            BY <1>2, <3>1, <4>1, <4>2, <4>3, <5>1
               DEF IInv, TypeOK, Consistent, DecideHtml, Resolve
        <4>4. CASE UNCHANGED <<future, decision>>
          BY <1>2, <3>1, <4>1, <4>2, <4>4 DEF Consistent, DecideHtml
        <4> QED
          BY <1>2, <3>1, <4>3, <4>4 DEF DecideHtml
      <3>2. CASE e # c
        BY <1>2, <3>2 DEF IInv, TypeOK, Consistent, DecideHtml, Resolve, Told
      <3> QED
        BY <3>1, <3>2
    <2> QED
      BY <2>1, <2>2 DEF IInv
  <1>3. CASE Teardown
    <2>1. TypeOK'
      BY <1>3 DEF IInv, TypeOK, Teardown
    <2>2. ASSUME NEW e \in Calls PROVE Consistent(e)'
      <3>1. CASE future[e] = "open"
        <4>1. \A a \in answered'[e] : a.page # "json"
          BY <1>3, <3>1, OpenIsUntold DEF Teardown
        <4>2. future'[e] = "denied" /\ decision'[e] = "denied"
          BY <1>3, <3>1 DEF Teardown
        <4> QED
          BY <1>3, <3>1, <4>1, <4>2 DEF IInv, Consistent, Teardown
      <3>2. CASE future[e] # "open"
        <4>1. future'[e] = future[e] /\ decision'[e] = decision[e]
          BY <1>3, <3>2 DEF Teardown
        <4> QED
          BY <1>3, <4>1 DEF IInv, Consistent, Teardown
      <3> QED
        BY <3>1, <3>2
    <2> QED
      BY <2>1, <2>2 DEF IInv
  <1> QED
    BY <1>1, <1>2, <1>3

(* Every call stays consistent, whoever decides, expires or cancels it.    *)
THEOREM Invariance == Spec => []IInv
  <1>1. IInv /\ [Next]_vars => IInv'
    <2> SUFFICES ASSUME IInv, [Next]_vars PROVE IInv'
      OBVIOUS
    <2>1. CASE Next
      BY <2>1, WaiterConsistent, OperatorConsistent DEF Next
    <2>2. CASE UNCHANGED vars
      BY <2>2 DEF vars, IInv, TypeOK, Consistent
    <2> QED
      BY <2>1, <2>2
  <1> QED
    BY <1>1, InitConsistent, PTL DEF Spec

(* Every variable keeps its type, and the two dictionaries their keys.     *)
THEOREM TypeCorrectness == Spec => []TypeOK
  <1>1. IInv => TypeOK
    BY DEF IInv
  <1> QED
    BY <1>1, Invariance, PTL

(* No timeout, teardown, failing notifier or second operator lets a call   *)
(* through that was not approved.                                          *)
THEOREM ApprovedOnly == Spec => []OnlyApprovedProceed
  <1>1. IInv => OnlyApprovedProceed
    BY DEF IInv, Consistent, OnlyApprovedProceed
  <1> QED
    BY <1>1, Invariance, PTL

(* Operators who were told 200 over the JSON API were told the same.       *)
THEOREM JsonAnswersAgree == Spec => []OneJsonAnswer
  <1>1. IInv => OneJsonAnswer
    BY DEF IInv, Consistent, OneJsonAnswer
  <1> QED
    BY <1>1, Invariance, PTL

-----------------------------------------------------------------------------
(* The refinement *)

(* A verdict given by wait() is a verdict of the gate.                     *)
LEMMA ConcludeRefines ==
    ASSUME IInv, NEW c \in Calls, NEW v \in {"approved", "denied", "cancelled"},
           v = "approved" => decision[c] = "approved", pc[c] # "done", Conclude(c, v)
    PROVE  Gate!Next
  <1>1. Gate!Conclude(c, v)
    BY DEF IInv, Consistent, Conclude, Gate!Conclude
  <1> QED
    BY <1>1 DEF Gate!Next

(* A future given its result is a decision of the gate.                    *)
LEMMA ResolveRefines ==
    ASSUME IInv, NEW c \in Calls, NEW d \in Decisions, Resolve(c, d), UNCHANGED verdict
    PROVE  Gate!Next
  <1>1. Gate!Decide(c, d)
    BY DEF IInv, TypeOK, Consistent, Resolve, Gate!Decide, Gate!Undecided, Decisions
  <1> QED
    BY <1>1 DEF Gate!Next, Decisions

(* Every step of the plugin is a step of the abstract gate or leaves       *)
(* decisions and verdicts alone: HumanApprovalPlugin is an approval gate.  *)
THEOREM ImplementsApproval == Spec => IsApprovalGate
  <1>1. Init => Gate!Init
    BY DEF Init, Gate!Init
  <1>2. IInv /\ [Next]_vars => [Gate!Next]_Gate!vars
    <2> SUFFICES ASSUME IInv, [Next]_vars PROVE [Gate!Next]_Gate!vars
      OBVIOUS
    <2> USE DEF Decisions, Gate!vars
    <2>0. \A c \in Calls : future[c] \in Decisions => decision[c] = future[c]
      BY DEF IInv, Consistent
    <2>1. ASSUME NEW c \in Calls, Create(c) \/ Expire(c) PROVE UNCHANGED Gate!vars
      BY <2>1 DEF Create, Expire
    <2>2. ASSUME NEW c \in Calls, Notified(c) PROVE [Gate!Next]_Gate!vars
      BY <2>0, <2>2, ConcludeRefines DEF Notified
    <2>3. ASSUME NEW c \in Calls, WakeDecided(c) PROVE Gate!Next
      BY <2>0, <2>3, ConcludeRefines DEF WakeDecided
    <2>4. ASSUME NEW c \in Calls, WakeExpired(c) PROVE Gate!Next
      BY <2>0, <2>4, ConcludeRefines DEF WakeExpired
    <2>5. ASSUME NEW c \in Calls, CancelWaiting(c) PROVE Gate!Next
      BY <2>5, ConcludeRefines DEF CancelWaiting
    <2>6. ASSUME NEW c \in Calls, CancelNotifying(c) PROVE Gate!Next
      <3>1. Gate!Conclude(c, "cancelled")
        BY <2>6 DEF IInv, Consistent, CancelNotifying, Gate!Conclude
      <3> QED
        BY <3>1 DEF Gate!Next
    <2>7. ASSUME NEW c \in Calls, NEW d \in Decisions, DecideJson(c, d) PROVE Gate!Next
      BY <2>7, ResolveRefines DEF DecideJson
    <2>8. ASSUME NEW c \in Calls, NEW d \in Decisions, DecideHtml(c, d)
          PROVE  [Gate!Next]_Gate!vars
      BY <2>8, ResolveRefines DEF DecideHtml
    <2>9. CASE Teardown
      <3> DEFINE open == {c \in Calls : future[c] = "open"}
      <3>1. \A c \in open : Gate!Undecided(c)
        BY DEF IInv, TypeOK, Consistent, Gate!Undecided
      <3>2. decision' = [c \in Calls |-> IF c \in open THEN "denied" ELSE decision[c]]
            /\ UNCHANGED verdict
        BY <2>9 DEF Teardown
      <3>3. Gate!DenyAll
        BY <3>1, <3>2 DEF Gate!DenyAll
      <3> QED
        BY <3>3 DEF Gate!Next
    <2>10. CASE UNCHANGED vars
      BY <2>10 DEF vars
    <2> QED
      BY <2>1, <2>2, <2>3, <2>4, <2>5, <2>6, <2>7, <2>8, <2>9, <2>10 DEF Next
  <1> QED
    BY <1>1, <1>2, Invariance, PTL DEF Spec, IsApprovalGate, Gate!Spec
-----------------------------------------------------------------------------
(* What the abstract gate promises *)

GateType ==
    /\ decision \in [Calls -> {"none"} \cup Decisions]
    /\ verdict \in [Calls -> {"none", "cancelled"} \cup Decisions]

GateIsTrue == \A c \in Calls : verdict[c] = "approved" => decision[c] = "approved"

Stands ==
    \A c \in Calls :
        /\ decision[c] # "none" => decision'[c] = decision[c]
        /\ verdict[c] # "none" => verdict'[c] = verdict[c]

(* A step of any gate takes back neither decision nor verdict, and lets    *)
(* through only what was approved.                                         *)
LEMMA GateStep ==
    ASSUME GateType, GateIsTrue, [Gate!Next]_Gate!vars
    PROVE  GateType' /\ GateIsTrue' /\ Stands
  <1> USE DEF GateType, GateIsTrue, Stands, Decisions
  <1>1. ASSUME NEW c \in Calls, NEW d \in {"approved", "denied"}, Gate!Decide(c, d)
        PROVE  GateType' /\ GateIsTrue' /\ Stands
    BY <1>1 DEF Gate!Decide, Gate!Undecided
  <1>2. ASSUME NEW c \in Calls, NEW v \in {"approved", "denied", "cancelled"},
               Gate!Conclude(c, v)
        PROVE  GateType' /\ GateIsTrue' /\ Stands
    BY <1>2 DEF Gate!Conclude
  <1>3. CASE Gate!DenyAll
    BY <1>3 DEF Gate!DenyAll, Gate!Undecided
  <1>4. CASE UNCHANGED Gate!vars
    BY <1>4 DEF Gate!vars
  <1> QED
    BY <1>1, <1>2, <1>3, <1>4 DEF Gate!Next

(* Whoever implements Approval keeps its word: a decision and a verdict,   *)
(* once given, stand, and only an approved call goes ahead.                *)
THEOREM GatesAreFinal == Gate!Spec => []GateIsTrue /\ [][Stands]_Gate!vars
  <1>1. Gate!Init => GateType /\ GateIsTrue
    BY DEF Gate!Init, GateType, GateIsTrue
  <1>2. UNCHANGED Gate!vars => Stands
    BY DEF Gate!vars, Stands
  <1> QED
    BY <1>1, <1>2, GateStep, PTL DEF Gate!Spec

-----------------------------------------------------------------------------
(* Where the two pages differ, and what is left behind *)

(* What HtmlPageIsTrue asks of the HTML page holds of the JSON API: an     *)
(* operator who was told 200 was told what was decided.                    *)
JsonIsTrue ==
    \A c \in Calls : \A d \in Decisions :
        [page |-> "json", decision |-> d] \in answered[c] => decision[c] = d

THEOREM JsonAnswersAreTrue == Spec => []JsonIsTrue
  <1>1. IInv => JsonIsTrue
    BY DEF IInv, Consistent, JsonIsTrue
  <1> QED
    BY <1>1, Invariance, PTL

(* A call that ended is still listed as pending only if it was cancelled,  *)
(* and then for ever: wait(), whose "finally" drops it, was never entered. *)
LeftBehind(c) == pc[c] = "done" /\ c \in approvals

THEOREM OnlyCancelledStayListed ==
    Spec => /\ [](\A c \in Calls : LeftBehind(c) => verdict[c] = "cancelled")
            /\ [][\A c \in Calls : LeftBehind(c) => LeftBehind(c)']_vars
  <1>1. IInv => \A c \in Calls : LeftBehind(c) => verdict[c] = "cancelled"
    BY DEF IInv, TypeOK, Consistent, LeftBehind
  <1>2. IInv /\ [Next]_vars => \A c \in Calls : LeftBehind(c) => LeftBehind(c)'
    <2> SUFFICES ASSUME IInv, [Next]_vars, NEW c \in Calls, LeftBehind(c)
                 PROVE  pc'[c] = "done" /\ c \in approvals'
      BY DEF LeftBehind
    <2> USE DEF IInv, TypeOK, LeftBehind, Goto, Conclude
    <2>1. ASSUME NEW b \in Calls,
                 \/ Create(b) \/ Notified(b) \/ Expire(b) \/ WakeDecided(b)
                 \/ WakeExpired(b) \/ CancelWaiting(b) \/ CancelNotifying(b)
          PROVE  pc'[c] = "done" /\ c \in approvals'
      <3>1. pc[b] # "done"
        BY <2>1 DEF Create, Notified, Expire, WakeDecided, WakeExpired, CancelWaiting,
                    CancelNotifying
      <3>2. b # c
        BY <3>1
      <3> QED
        BY <2>1, <3>2 DEF Create, Notified, Expire, WakeDecided, WakeExpired, CancelWaiting,
                          CancelNotifying
    <2>2. ASSUME NEW b \in Calls, NEW d \in Decisions, DecideJson(b, d) \/ DecideHtml(b, d)
          PROVE  pc'[c] = "done" /\ c \in approvals'
      BY <2>2 DEF DecideJson, DecideHtml
    <2>3. CASE Teardown \/ UNCHANGED vars
      BY <2>3 DEF Teardown, vars
    <2> QED
      BY <2>1, <2>2, <2>3 DEF Next
  <1> QED
    BY <1>1, <1>2, Invariance, PTL DEF Spec

=============================================================================
