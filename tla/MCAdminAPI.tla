----------------------------- MODULE MCAdminAPI -----------------------------
(* The instance of AdminAPI for TLC. *)
EXTENDS AdminAPI, TLC

CONSTANTS r1, r2

TwoRequests == {r1, r2}

Symmetric == Permutations(TwoRequests)
=============================================================================
