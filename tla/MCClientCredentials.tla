------------------------ MODULE MCClientCredentials ------------------------
(* Instances of ClientCredentials for TLC. *)
EXTENDS ClientCredentials

CONSTANTS R1, R2, before, after

(* Requests and configurations are interchangeable: the first provider may *)
(* as well be the one that R1 has built before the change.                 *)
First(r, c) == providers = << >> => r = R1 /\ c = before

MCNext ==
    \/ \E r \in Requests, c \in Configs : Reuse(r, c) \/ (First(r, c) /\ Build(r, c))
    \/ \E c \in Configs : BuildFails(c)
    \/ \E r \in Requests : Enter(r) \/ Step(r) \/ CancelWaiting(r)
                        \/ NextRequest(r) \/ Disconnect(r)
    \/ Tick

MCSpec ==
    /\ Init
    /\ [][MCNext]_vars
    /\ \A r \in Requests : WF_vars(Step(r)) /\ SF_vars(Enter(r))
=============================================================================
