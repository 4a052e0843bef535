--------------------------- MODULE MCUsageTracker ---------------------------
(***************************************************************************)
(* Instances of UsageTracker for TLC.                                      *)
(***************************************************************************)
EXTENDS UsageTracker

Processes == {"p", "q"}
Goroutines == {"t", "u", "v"}

\* Two goroutines in one process, one in the other.
TwoAndOne == [t \in Goroutines |-> IF t = "v" THEN "q" ELSE "p"]

NoFile == -1
None == {}
OldFile == {2}
NoOldFile == {NoFile}

=============================================================================
