----------------------------- MODULE MCAccounts -----------------------------
(* Small instance of Accounts for TLC: uuids, requests and passwords other   *)
(* than ADMIN_PASSWORD and the weak ones are alike.                          *)
EXTENDS Accounts, TLC

Symmetry == Permutations(Ids) \cup Permutations(Requests)
=============================================================================
