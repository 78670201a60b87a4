----------------------------- MODULE MCAccounts -----------------------------
(* Instances of Accounts for TLC. *)
EXTENDS Accounts, TLC

Symmetries == Permutations(Caller) \cup Permutations(Hwids)
=============================================================================
