------------------------------ MODULE History -------------------------------
(***************************************************************************)
(* What an architecture history promises, whatever processes write to it:  *)
(* a timeline to which observations are added one at a time, which repeats *)
(* no observation in succession, and which a revision leaves only because  *)
(* newer ones have used up its retention, or because somebody asked for    *)
(* its kind to be pruned.                                                  *)
(***************************************************************************)
EXTENDS Integers, FiniteSets

CONSTANTS
    Observation,   \* what may be recorded: a graph at a commit, clean or dirty
    NoGit,         \* the commit of an observation made outside a git tree
    WorkingKeep,   \* cap on the unanchored revisions of a commit, negative for none
    RevisionKeep,  \* cap on all revisions, negative for none
    Passes         \* the kinds of pruning that may be asked for

VARIABLES
    revisions,     \* the timeline, each revision with its place in it
    count          \* places given out so far

vars == <<revisions, count>>

Working(r) == r.obs.commit = NoGit \/ r.obs.dirty

Rivals(S, r) == {d \in S : Working(d) /\ d.obs.commit = r.obs.commit}

\* The caps hold.
WithinCaps(S) ==
    /\ RevisionKeep > 0 => Cardinality(S) <= RevisionKeep
    /\ WorkingKeep > 0 =>
         \A r \in S : Working(r) => Cardinality(Rivals(S, r)) <= WorkingKeep

\* A cap's worth of newer revisions in S stands in for r.
Superseded(r, S) ==
    \/ RevisionKeep > 0 /\ Cardinality({d \in S : d.line > r.line}) >= RevisionKeep
    \/ /\ WorkingKeep > 0 /\ Working(r)
       /\ Cardinality({d \in Rivals(S, r) : d.line > r.line}) >= WorkingKeep

\* The same graph, at the same commit, in the same state of cleanliness.
Same(a, b) == a.id = b.id /\ a.commit = b.commit /\ a.dirty = b.dirty

IsNewest(r) == r \in revisions /\ \A d \in revisions : d.line <= r.line

Init == revisions = {} /\ count = 0

Record(o) ==
    /\ \A r \in revisions : IsNewest(r) => ~Same(r.obs, o)
    /\ count' = count + 1
    /\ \E kept \in SUBSET revisions :
          /\ revisions' = kept \cup {[line |-> count + 1, obs |-> o]}
          /\ \A r \in revisions \ kept : Superseded(r, revisions')
    /\ WithinCaps(revisions')

Prune(pass) ==
    /\ revisions' = {r \in revisions : /\ ~(pass.working /\ Working(r))
                                       /\ ~(pass.clusters /\ r.obs.multi)}
    /\ UNCHANGED count

Next == \/ \E o \in Observation : Record(o)
        \/ \E pass \in Passes : Prune(pass)

Spec == Init /\ [][Next]_vars

=============================================================================
