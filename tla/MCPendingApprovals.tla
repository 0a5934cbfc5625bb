------------------------- MODULE MCPendingApprovals -------------------------
(* Instances of PendingApprovals for TLC. *)
EXTENDS PendingApprovals, TLC

Interchangeable == Permutations(Calls)
=============================================================================
