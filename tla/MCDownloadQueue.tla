--------------------------- MODULE MCDownloadQueue ---------------------------
(* Small instances of DownloadQueue for TLC.                               *)
EXTENDS DownloadQueue, TLC

CONSTANTS i1, i2, p1, p2

\* Two items of one programme, and two items of two programmes.
SamePid  == i1 :> p1 @@ i2 :> p1
TwoPids  == i1 :> p1 @@ i2 :> p2
OnePid   == i1 :> p1

\* Items that are scheduled are due at time 1; the clock starts at 0.
DueAtOne == [id \in Ids |-> 1]

UiRetries  == {"failed", "cancelled"}

\* Handlers and slots are interchangeable; items are not, because of PidOf.
Symmetry == Permutations(Requests) \cup Permutations(Slots)
=============================================================================
