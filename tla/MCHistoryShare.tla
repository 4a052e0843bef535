--------------------------- MODULE MCHistoryShare ---------------------------
(***************************************************************************)
(* Instances of HistoryShare for TLC.                                      *)
(***************************************************************************)
EXTENDS HistoryShare, TLC

CONSTANTS p, q, u,   \* processes
          east, west \* replicas

Rev(id, at, build) == [id |-> id, at |-> at, build |-> build]

Machines == {"g", "h"}
RankOf == [h \in {"g", "h"} |-> IF h = "g" THEN 1 ELSE 2]

NoRev == Rev("none", 0, 0)

Processes == {p, q, u}

\* Two commands of one machine, and one of another.
TwoOnG == [x \in Processes |-> IF x = u THEN "h" ELSE "g"]

Copies == {east, west}
OneCopy == {east}

\* Both machines take one snapshot, with the same bytes; one takes another too.
Common == [h \in Machines |-> IF h = "g" THEN {Rev("a", 1, 1)}
                                         ELSE {Rev("a", 2, 1), Rev("b", 3, 2)}]

\* One snapshot, taken by two local builds.
TwoBuilds == [h \in Machines |-> IF h = "g" THEN {Rev("a", 1, 1)}
                                            ELSE {Rev("a", 2, 2)}]

\* Two snapshots, taken by one machine.
OneTakes == [h \in Machines |-> IF h = "g" THEN {Rev("a", 1, 1), Rev("b", 3, 1)}
                                           ELSE {}]

None == {}

\* A machine whose file system has no locks.
NoLocksOnH == {u}

KeepRecent == {[last |-> 1, since |-> 0], [last |-> 0, since |-> 3]}

\* The processes on g are alike, and so are the copies.
Alike == {f @@ g : f \in Permutations({p, q}), g \in Permutations(Copies)}

=============================================================================
