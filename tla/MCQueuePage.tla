----------------------------- MODULE MCQueuePage -----------------------------
(* Small instance of QueuePage for TLC, and Ascending against the community *)
(* modules' definition of the same.                                         *)
EXTENDS QueuePage

ASSUME AscendingAssumption ==
    \A S \in SUBSET (0 .. 5) : Ascending(S) = SetToSortSeq(S, <)
=============================================================================
