--------------------------- MODULE MCHistoryStore ---------------------------
(***************************************************************************)
(* Instances of HistoryStore for TLC.                                      *)
(***************************************************************************)
EXTENDS HistoryStore, TLC

CONSTANTS p1, p2

One == {p1}
Two == {p1, p2}
None == {}
Unlimited == -1

Obs(id, commit, dirty, epoch, at, multi) ==
    [id |-> id, commit |-> commit, dirty |-> dirty, epoch |-> epoch,
     at |-> at, multi |-> multi]

Symmetry == Permutations(Two)

MCNoObs == Obs("noid", "none", FALSE, 0, 0, FALSE)

\* A committed graph, then two states of a dirty tree on the same commit, the
\* second extracted by another version of enola.
Session == {Obs("a", "c1", FALSE, 1, 1, FALSE),
            Obs("b", "c1", TRUE, 1, 2, FALSE),
            Obs("c", "c1", TRUE, 2, 3, FALSE)}

\* A commit, a dirty tree on it, and a copy of a cluster's revision.
Mixed == {Obs("a", "c1", FALSE, 1, 1, FALSE),
          Obs("b", "c1", TRUE, 1, 2, FALSE),
          Obs("c", "c2", FALSE, 1, 3, TRUE)}

\* Two commits.
Commits == {Obs("a", "c1", FALSE, 1, 1, FALSE),
            Obs("b", "c2", FALSE, 1, 2, FALSE)}

Garbage == [working |-> FALSE, clusters |-> FALSE, before |-> 0]
EveryPass == {Garbage,
              [Garbage EXCEPT !.working = TRUE],
              [Garbage EXCEPT !.clusters = TRUE],
              [Garbage EXCEPT !.before = 2]}
WorkingPass == {[Garbage EXCEPT !.working = TRUE]}

=============================================================================
