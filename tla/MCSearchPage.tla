----------------------------- MODULE MCSearchPage -----------------------------
(* Small instance of SearchPage for TLC: a row and a programme each.         *)
EXTENDS SearchPage

OwnPid == [id \in Items |-> id]
=============================================================================
