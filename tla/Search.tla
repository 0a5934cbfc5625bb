------------------------------- MODULE Search -------------------------------
(***************************************************************************)
(* fast_gateway/search.py: what the meta-tools show of the catalog.  The   *)
(* store ranks the rows that match a query (a text score, here any order); *)
(* the gateway takes the first CandidateCap of them, drops what the caller *)
(* may not see, and returns at most `limit` of the rest.                   *)
(***************************************************************************)
EXTENDS AccessPolicy, Integers, Sequences

CONSTANTS
    MaxLimit,       \* _MAX_LIMIT
    CandidateCap    \* _CANDIDATE_CAP

ASSUME SearchAssumption ==
    /\ MaxLimit \in Nat \ {0}
    /\ CandidateCap \in Nat
    /\ MaxLimit <= CandidateCap

(* The first n elements, or all. *)
First(n, seq) == SubSeq(seq, 1, IF n < Len(seq) THEN n ELSE Len(seq))

(* max(1, min(limit, _MAX_LIMIT)) *)
Capped(limit) ==
    CASE limit < 1        -> 1
      [] limit > MaxLimit -> MaxLimit
      [] OTHER            -> limit

(* search_catalog(query, limit): ranked are the rows that match. *)
SearchCatalog(ranked, limit) == First(limit, ranked)

(* filter_tools goes through the candidates in order. *)
Visible(policy, candidates, group) ==
    LET seen[n \in 0..Len(candidates)] ==
            IF n = 0 THEN << >>
            ELSE IF Allows(policy, candidates[n], group) THEN Append(seen[n - 1], candidates[n])
            ELSE seen[n - 1]
    IN  seen[Len(candidates)]

(* Fault: only as many candidates as results are taken from the store. *)
BugSearchTools(policy, ranked, limit, group) ==
    Visible(policy, SearchCatalog(ranked, Capped(limit)), group)

SearchTools(policy, ranked, limit, group) ==
    First(Capped(limit), Visible(policy, SearchCatalog(ranked, CandidateCap), group))

(* Denied tools read as not found. *)
Describes(policy, catalog, tool, group) ==
    tool \in catalog /\ FilterTools(policy, {tool}, group) # {}
=============================================================================
