----------------------- MODULE HistoryStore_refinement -----------------------
(***************************************************************************)
(* The log of HistoryStore is a History, for any observations, retention   *)
(* and collections: for one process, and for any number of them where each *)
(* gets the lock it asks for and none collects.                            *)
(***************************************************************************)
EXTENDS HistoryStore_proofs

-----------------------------------------------------------------------------
(* What retention leaves above an entry it drops. *)

Above(S, e) == {d \in S : d.line > e.line}

(* The entries retention keeps are newer than each one it drops, and as many  *)
(* as it was asked to keep (evictWorking, capRevisions).                      *)
LEMMA NewestAbove ==
    ASSUME NEW S, S \subseteq Entry, IsFiniteSet(S), NEW b \in Nat,
           \A e \in S : e.line <= b,
           NEW k \in Int, NEW x \in S, x \notin Newest(S, k)
    PROVE  Cardinality(Above(Newest(S, k), x)) >= k
<1> DEFINE T == Newest(S, k)
           L == {e.line : e \in S \ T}
<1>1. L \subseteq Nat /\ L # {} /\ Bound(L, b)
    BY DEF Entry, Bound
<1>2. PICK h \in Nat : h \in L /\ Bound(L, h)
    <2>1. PICK h : h = Highest(L)
        OBVIOUS
    <2>2. h \in Nat /\ h \in L \cup {0} /\ Bound(L, h)
        BY <1>1, <2>1, HighestBounds
    <2> HIDE DEF L
    <2>3. PICK n \in L : n \in Nat /\ n <= h
        BY ONLY <1>1, <2>2 DEF Bound
    <2>4. h = 0 => n = h
        BY ONLY <2>2, <2>3
    <2>5. h \in L
        BY ONLY <2>2, <2>3, <2>4
    <2> QED
        BY <2>2, <2>5
<1>3. PICK y \in S \ T : y.line = h
    BY <1>2
<1>4. Above(S, y) \subseteq Above(T, x)
    <2> SUFFICES ASSUME NEW d \in Above(S, y) PROVE d \in Above(T, x)
        OBVIOUS
    <2>1. d \in S /\ d.line > y.line /\ d.line \in Nat /\ x.line \in Nat /\ y.line \in Nat
        BY DEF Above, Entry
    <2>2. d \in T
        BY <1>2, <1>3, <2>1 DEF Bound
    <2>3. x.line <= y.line
        BY <1>2, <1>3 DEF Bound
    <2> QED
        BY <2>1, <2>2, <2>3 DEF Above
<1>5. IsFiniteSet(Above(S, y)) /\ IsFiniteSet(Above(T, x))
    BY FS_Subset DEF Above, Newest
<1>6. Cardinality(Above(S, y)) <= Cardinality(Above(T, x))
    BY <1>4, <1>5, FS_Subset
<1>7. Cardinality(Above(S, y)) \in Nat /\ Cardinality(Above(T, x)) \in Nat
    BY <1>5, FS_CardinalityType
<1>8. ~(Cardinality(Above(S, y)) < k)
    BY <1>3 DEF Newest, Above
<1> HIDE DEF T
<1>9. Cardinality(Above(T, x)) >= k
    BY <1>6, <1>7, <1>8
<1> QED
    BY <1>9 DEF T

(* History counts as the store does.                                          *)
LEMMA CountsAlike == \A S : H!Cardinality(S) = Cardinality(S)
BY Zenon DEF H!Cardinality, Cardinality

(* What History asks of an entry that leaves.                                 *)
LEMMA SupersededBy ==
    ASSUME NEW r, NEW S,
           \/ RevisionKeep > 0 /\ Cardinality(Above(S, r)) >= RevisionKeep
           \/ /\ WorkingKeep > 0 /\ Working(r)
              /\ Cardinality(Above(Rivals(S, r), r)) >= WorkingKeep
    PROVE  H!Superseded(r, S)
<1>1. Rivals(S, r) = H!Rivals(S, r) /\ (Working(r) <=> H!Working(r))
    BY DEF Rivals, H!Rivals, Working, H!Working
<1> QED
    BY <1>1, CountsAlike DEF H!Superseded, Above

(* One more entry, on a line of its own, above those already there.           *)
LEMMA AboveGrows ==
    ASSUME NEW A, NEW B, IsFiniteSet(B), NEW h \in B, h \notin A, A \subseteq B,
           NEW k \in Int, Cardinality(A) >= k - 1
    PROVE  Cardinality(B) >= k
<1>1. IsFiniteSet(A) /\ IsFiniteSet(B \ {h})
    BY FS_Subset
<1>2. Cardinality(B \ {h}) = Cardinality(B) - 1
    BY FS_RemoveElement
<1>3. A \subseteq B \ {h}
    OBVIOUS
<1>4. Cardinality(A) <= Cardinality(B \ {h})
    BY <1>1, <1>3, FS_Subset
<1>5. Cardinality(A) \in Nat /\ Cardinality(B) \in Nat
    BY <1>1, FS_CardinalityType
<1> QED
    BY <1>2, <1>4, <1>5

(* An entry Append's retention drops is superseded once the header is in: by  *)
(* RevisionKeep newer revisions, or by WorkingKeep newer ones of its commit,   *)
(* also where both caps bite at once and a working revision evicts others     *)
(* that the revision cap then drops as well.                                  *)
LEMMA DroppedIsSuperseded ==
    ASSUME TypeOK, CapsInv, Placed, NEW c \in Draft,
           NEW h, h.obs = c.obs, h.line = lines + 1,
           NEW e \in log, e \notin Retained(log, c)
    PROVE  H!Superseded(e, Retained(log, c) \cup {h})
<1> DEFINE E == EvictWorking(log, c)
           K == Retained(log, c)
           N == K \cup {h}
           Riv == Rivals(log, c)
<1>0. K \subseteq log /\ E \subseteq log /\ K \subseteq E
    BY DEF Retained, CapRevisions, EvictWorking, Newest, Rivals
<1>1. /\ IsFiniteSet(log) /\ IsFiniteSet(E) /\ IsFiniteSet(K) /\ IsFiniteSet(N)
      /\ log \subseteq Entry /\ lines \in Nat
      /\ \A d \in log : d.line <= lines
    <2>1. IsFiniteSet(log) /\ IsFiniteSet(E) /\ IsFiniteSet(K)
        BY <1>0, FS_Subset DEF CapsInv
    <2> QED
        BY <2>1, OneMore DEF TypeOK, Placed
<1>2. \A d \in log : d.line \in Nat /\ h.line > d.line /\ h # d
    BY <1>1 DEF Entry
<1>3. ASSUME NEW d \in E, d \notin K
      PROVE  RevisionKeep > 0 /\ Cardinality(Above(N, d)) >= RevisionKeep
    <2>1. RevisionKeep \in Int /\ RevisionKeep > 0 /\ K = Newest(E, RevisionKeep - 1)
        BY <1>3, ConstantsOK DEF Retained, CapRevisions
    <2>2. Cardinality(Above(K, d)) >= RevisionKeep - 1
        BY <1>0, <1>1, <1>3, <2>1, NewestAbove
    <2>3. /\ Above(K, d) \subseteq Above(N, d) /\ h \in Above(N, d) /\ h \notin Above(K, d)
          /\ IsFiniteSet(Above(N, d))
        BY <1>0, <1>1, <1>2, FS_Subset DEF Above
    <2> QED
        BY <2>1, <2>2, <2>3, AboveGrows
<1>4. CASE e \in E
    BY <1>3, <1>4, SupersededBy
<1>5. CASE e \notin E
    <2>1. /\ WorkingKeep \in Int /\ WorkingKeep > 0 /\ Working(c)
          /\ E = (log \ Riv) \cup Newest(Riv, WorkingKeep - 1)
        BY <1>5, ConstantsOK DEF EvictWorking
    <2>2. e \in Riv /\ e \notin Newest(Riv, WorkingKeep - 1) /\ Riv \subseteq log
        BY <1>5, <2>1 DEF Rivals
    <2> DEFINE M == Newest(Riv, WorkingKeep - 1)
    <2>3. Cardinality(Above(M, e)) >= WorkingKeep - 1
        <3>1. IsFiniteSet(Riv)
            BY <1>1, <2>2, FS_Subset
        <3> QED
            BY <1>1, <2>1, <2>2, <3>1, NewestAbove
    <2>4. CASE Above(M, e) \subseteq K
        <3> DEFINE R == Above(Rivals(N, e), e)
        <3>1. Working(e) /\ e.obs.commit = c.obs.commit /\ Working(h)
            BY <2>1, <2>2 DEF Rivals, Working
        <3>2. M \subseteq Riv
            BY DEF Newest
        <3>3. h \in R /\ Above(M, e) \subseteq R
            BY <1>2, <2>4, <3>1, <3>2 DEF Above, Rivals, Working
        <3>4. h \notin Above(M, e)
            BY <1>2, <2>2, <3>2 DEF Above
        <3>5. IsFiniteSet(R)
            BY <1>1, FS_Subset DEF Above, Rivals
        <3>6. Cardinality(R) >= WorkingKeep
            BY <2>1, <2>3, <3>3, <3>4, <3>5, AboveGrows
        <3> QED
            BY <2>1, <3>1, <3>6, SupersededBy
    <2>5. CASE ~(Above(M, e) \subseteq K)
        <3>1. PICK d \in Above(M, e) : d \notin K
            BY <2>5
        <3>2. d \in E /\ d \in log /\ d.line > e.line
            BY <1>0, <2>1, <3>1 DEF Above
        <3>3. RevisionKeep > 0 /\ Cardinality(Above(N, d)) >= RevisionKeep
            BY <1>3, <3>1, <3>2
        <3>4. Above(N, d) \subseteq Above(N, e)
            BY <1>0, <1>2, <3>2 DEF Above
        <3>5. IsFiniteSet(Above(N, e)) /\ IsFiniteSet(Above(N, d))
            BY <1>1, FS_Subset DEF Above
        <3>6. Cardinality(Above(N, d)) <= Cardinality(Above(N, e))
            BY <3>4, <3>5, FS_Subset
        <3>7. Cardinality(Above(N, d)) \in Nat /\ Cardinality(Above(N, e)) \in Nat
            BY <3>5, FS_CardinalityType
        <3>8. Cardinality(Above(N, e)) >= RevisionKeep
            <4> HIDE DEF N
            <4> QED
                BY <3>3, <3>6, <3>7, ConstantsOK
        <3> QED
            BY <3>3, <3>8, SupersededBy
    <2> QED
        BY <2>4, <2>5
<1> QED
    BY <1>4, <1>5

-----------------------------------------------------------------------------
(* The timeline a log holds. *)

Revision(e) == [line |-> e.line, obs |-> e.obs]
Timeline(S) == {[line |-> e.line, obs |-> e.obs] : e \in S}

(* A log with one entry a line has as many revisions as entries, also of one  *)
(* commit and also above a line.                                              *)
LEMMA TimelineCounts ==
    ASSUME NEW S, IsFiniteSet(S), Distinct(S)
    PROVE  /\ IsFiniteSet(Timeline(S))
           /\ Cardinality(Timeline(S)) = Cardinality(S)
<1>1. Distinct(Timeline(S))
    BY DEF Timeline, Distinct
<1>2. \A e \in Timeline(S) : \E d \in S : d.line = e.line
    BY DEF Timeline
<1>3. IsFiniteSet(Timeline(S)) /\ Cardinality(Timeline(S)) <= Cardinality(S)
    BY <1>1, <1>2, SameLines
<1>4. ASSUME NEW e \in S PROVE \E d \in Timeline(S) : d.line = e.line
    <2>1. Revision(e) \in Timeline(S) /\ Revision(e).line = e.line
        BY DEF Timeline, Revision
    <2> QED
        BY <2>1
<1>5. Cardinality(S) <= Cardinality(Timeline(S))
    BY <1>3, <1>4, SameLines
<1>6. Cardinality(S) \in Nat /\ Cardinality(Timeline(S)) \in Nat
    BY <1>3, FS_CardinalityType
<1> QED
    BY <1>3, <1>5, <1>6

(* The revisions of a commit are those of its entries.                        *)
LEMMA TimelineParts ==
    ASSUME NEW S, NEW e, NEW r, r = Revision(e)
    PROVE  /\ H!Rivals(Timeline(S), r) = Timeline(Rivals(S, e))
           /\ Above(Timeline(S), r) = Timeline(Above(S, e))
           /\ Above(Rivals(Timeline(S), r), r) = Timeline(Above(Rivals(S, e), e))
           /\ H!Working(r) <=> Working(e)
           /\ Working(r) <=> Working(e)
<1>1. r.obs = e.obs /\ r.line = e.line
    BY DEF Revision
<1>2. \A d \in S : /\ [line |-> d.line, obs |-> d.obs].line = d.line
                   /\ [line |-> d.line, obs |-> d.obs].obs = d.obs
    OBVIOUS
<1>3. (H!Working(r) <=> Working(e)) /\ (Working(r) <=> Working(e))
    BY <1>1 DEF H!Working, Working
<1>4. H!Rivals(Timeline(S), r) = Timeline(Rivals(S, e))
    BY <1>1 DEF H!Rivals, Rivals, H!Working, Working, Timeline
<1>5. Above(Timeline(S), r) = Timeline(Above(S, e))
    BY <1>1 DEF Above, Timeline
<1>6. Above(Rivals(Timeline(S), r), r) = Timeline(Above(Rivals(S, e), e))
    BY <1>1 DEF Rivals, Working, Timeline, Above
<1> QED
    BY <1>3, <1>4, <1>5, <1>6

(* Caps on the log are caps on the timeline.                                  *)
LEMMA TimelineCaps ==
    ASSUME NEW S, IsFiniteSet(S), Distinct(S), Caps(S)
    PROVE  H!WithinCaps(Timeline(S))
<1>1. RevisionKeep > 0 => H!Cardinality(Timeline(S)) <= RevisionKeep
    BY TimelineCounts, CountsAlike DEF Caps
<1>2. ASSUME WorkingKeep > 0, NEW r \in Timeline(S), H!Working(r)
      PROVE  H!Cardinality(H!Rivals(Timeline(S), r)) <= WorkingKeep
    <2>1. PICK e \in S : r = Revision(e)
        BY DEF Timeline, Revision
    <2>2. Working(e) /\ H!Rivals(Timeline(S), r) = Timeline(Rivals(S, e))
        BY <1>2, <2>1, TimelineParts
    <2>3. IsFiniteSet(Rivals(S, e)) /\ Distinct(Rivals(S, e))
        BY FS_Subset DEF Rivals, Distinct
    <2>4. Cardinality(Rivals(S, e)) <= WorkingKeep
        BY <1>2, <2>2 DEF Caps
    <2> QED
        BY <2>2, <2>3, <2>4, TimelineCounts, CountsAlike
<1> QED
    BY <1>1, <1>2 DEF H!WithinCaps

(* An entry superseded in the log is a revision superseded in the timeline.   *)
LEMMA TimelineSupersedes ==
    ASSUME NEW S, IsFiniteSet(S), Distinct(S), NEW e, NEW r, r = Revision(e),
           H!Superseded(e, S)
    PROVE  H!Superseded(r, Timeline(S))
<1>1. /\ IsFiniteSet(Above(S, e)) /\ Distinct(Above(S, e))
      /\ IsFiniteSet(Above(Rivals(S, e), e)) /\ Distinct(Above(Rivals(S, e), e))
    BY FS_Subset DEF Above, Rivals, Distinct
<1>2. /\ Cardinality(Above(Timeline(S), r)) = Cardinality(Above(S, e))
      /\ Cardinality(Above(Rivals(Timeline(S), r), r)) = Cardinality(Above(Rivals(S, e), e))
    BY <1>1, TimelineCounts, TimelineParts
<1>3. \/ RevisionKeep > 0 /\ Cardinality(Above(S, e)) >= RevisionKeep
      \/ /\ WorkingKeep > 0 /\ Working(e)
         /\ Cardinality(Above(Rivals(S, e), e)) >= WorkingKeep
    <2>1. H!Rivals(S, e) = Rivals(S, e) /\ (H!Working(e) <=> Working(e))
        BY DEF H!Rivals, Rivals, H!Working, Working
    <2> QED
        BY <2>1, CountsAlike DEF H!Superseded, Above
<1> QED
    BY <1>2, <1>3, TimelineParts, SupersededBy

-----------------------------------------------------------------------------
(* Steps. *)

\* The observation a process is appending is not the log's last one.
Unseen ==
    \A p \in Proc : pc[p] \in Appending =>
        ~\E e \in log : IsLast(e, log) /\ SameRevision(e, cur[p])

(* An empty log holds nothing to repeat.                                      *)
LEMMA UnseenInit == Init => Unseen
BY DEF Init, Unseen, Appending

(* Append compares with the last line under the lock, so the comparison still *)
(* holds when it publishes.                                                   *)
LEMMA UnseenStep ==
    ASSUME TypeInv, SerialInv, Unseen, [Next]_vars
    PROVE  Unseen'
<1> USE DEF TypeInv
<1>0. "idle" \notin Appending
    BY DEF Appending
<1>1. ASSUME log' = log, NEW p \in Proc,
             \A q \in Proc \ {p} : pc'[q] = pc[q] /\ cur'[q] = cur[q],
             pc'[p] \in Appending => pc[p] \in Appending /\ cur'[p].obs = cur[p].obs
      PROVE  Unseen'
    BY <1>1 DEF Unseen, IsLast, SameRevision
<1>2. ASSUME NEW p \in Proc, Return(p), log' = log \/ pc[p] \in Critical \cup Collecting
      PROVE  Unseen'
    <2>1. /\ pc'[p] = "idle"
          /\ \A q \in Proc \ {p} : pc'[q] = pc[q] /\ cur'[q] = cur[q]
        BY <1>2 DEF Return, Goto, TypeOK
    <2>2. CASE log' = log
        BY <1>0, <1>1, <2>1, <2>2
    <2>3. CASE pc[p] \in Critical \cup Collecting
        <3>1. \A q \in Proc \ {p} : pc[q] \notin Appending
            BY <2>3 DEF SerialInv, Held, NoCollection, Alone, Critical
        <3> QED
            BY <1>0, <2>1, <3>1 DEF Unseen
    <2> QED
        BY <1>2, <2>2, <2>3
<1>3. CASE UNCHANGED vars \/ Finished
    BY <1>3 DEF Unseen, IsLast, SameRevision, Finished, vars, file, local
<1>4. ASSUME NEW p \in Proc, Begin(p) PROVE Unseen'
    <2>1. /\ log' = log
          /\ \A q \in Proc \ {p} : pc'[q] = pc[q] /\ cur'[q] = cur[q]
          /\ pc'[p] \in {"idle", "acquire", "mend", "gcList"}
        BY <1>4 DEF Begin, Record, RecordAgain, Import, Mend, Collect, Start, Goto, TypeOK,
                    file, local
    <2> QED
        BY <1>1, <2>1 DEF Appending
<1>5. ASSUME NEW p \in Proc, Acquire(p) PROVE Unseen'
    <2>1. /\ log' = log /\ cur' = cur
          /\ \A q \in Proc \ {p} : pc'[q] = pc[q]
          /\ pc'[p] \in {"read", "reread"}
        BY <1>5 DEF Acquire, Goto, TypeOK, file, local
    <2> QED
        BY <1>1, <2>1 DEF Appending
<1>6. ASSUME NEW p \in Proc, Refuse(p) \/ SkipSame(p) \/ Stop(p) \/ Tear(p) PROVE Unseen'
    BY <1>2, <1>6 DEF Refuse, SkipSame, Stop, Tear, file
<1>7. ASSUME NEW p \in Proc, TakeUp(p) PROVE Unseen'
    <2>1. /\ log' = log
          /\ \A q \in Proc \ {p} : pc'[q] = pc[q] /\ cur'[q] = cur[q]
          /\ cur'[p].obs = cur[p].obs
          /\ ~\E e \in log : IsLast(e, log) /\ SameRevision(e, cur[p])
        BY <1>7 DEF TakeUp, Goto, TypeOK, Draft
    <2> QED
        BY <2>1 DEF Unseen, IsLast, SameRevision
<1>8. ASSUME NEW p \in Proc, Place(p) \/ Store(p) \/ Prune(p) \/ EndPrune(p) PROVE Unseen'
    <2>1. pc[p] \in Appending /\ log' = log
        BY <1>8 DEF Place, Store, Prune, EndPrune, Appending, file
    <2>2. \A q \in Proc \ {p} : pc'[q] = pc[q] /\ cur'[q] = cur[q]
        BY <1>8 DEF Place, Store, Prune, EndPrune, GiveUpContents, PlaceAt, Goto, TypeOK
    <2>3. cur'[p].obs = cur[p].obs
        <3>1. \/ GiveUpContents(p)
              \/ \E a, id : PlaceAt(p, a, id)
              \/ UNCHANGED cur
            BY <1>8 DEF Place, Store, Prune, EndPrune
        <3>2. CASE \E a, id : PlaceAt(p, a, id)
            <4>1. PICK a, id : cur' = [cur EXCEPT ![p].blob = a, ![p].parent = id]
                BY <3>2 DEF PlaceAt
            <4> QED
                BY <4>1 DEF TypeOK, Draft
        <3> QED
            BY <3>1, <3>2 DEF GiveUpContents, TypeOK, Draft
    <2> QED
        BY <1>1, <2>1, <2>2, <2>3
<1>9. ASSUME NEW p \in Proc, SweepFile(p) PROVE Unseen'
    BY <1>9 DEF SweepFile, Unseen, IsLast, SameRevision, file, local
<1>10. ASSUME NEW p \in Proc, Publish(p) \/ RewriteSummary(p) PROVE Unseen'
    BY <1>2, <1>10 DEF Publish, RewriteSummary, Critical, Appending
<1>11. ASSUME NEW p \in Proc, Reread(p) PROVE Unseen'
    <2>1. CASE Return(p)
        BY <1>2, <1>11, <2>1 DEF Reread, file
    <2>2. CASE ~Return(p)
        <3>1. /\ log' = log /\ cur' = cur
              /\ \A q \in Proc \ {p} : pc'[q] = pc[q]
              /\ pc'[p] = "rewrite"
            BY <1>11, <2>2 DEF Reread, Goto, TypeOK, file
        <3> QED
            BY <1>1, <3>1 DEF Appending
    <2> QED
        BY <2>1, <2>2
<1>12. ASSUME NEW p \in Proc, GCList(p) \/ GCSwept(p) \/ GCRewrite(p) PROVE Unseen'
    <2>1. CASE Return(p)
        BY <1>2, <1>12, <2>1 DEF GCList, GCSwept, GCRewrite, Collecting, file
    <2>2. CASE ~Return(p)
        <3>1. /\ log' = log /\ cur' = cur
              /\ \A q \in Proc \ {p} : pc'[q] = pc[q]
              /\ pc'[p] \in {"gcSweep", "gcRewrite"}
            BY <1>12, <2>2 DEF GCList, GCSwept, GCRewrite, Goto, TypeOK, file, local
        <3> QED
            BY <1>1, <3>1 DEF Appending
    <2> QED
        BY <2>1, <2>2
<1> QED
    BY <1>3, <1>4, <1>5, <1>6, <1>7, <1>8, <1>9, <1>10, <1>11, <1>12 DEF Next, Step

\* What the steps of a History rest on.
RefInv == TypeInv /\ SerialInv /\ CapsInv /\ Unseen /\ Requested

(* Every call starts from an empty log.                                       *)
LEMMA RefInit == Init => RefInv
BY TypeInit, SerialInit, CapsInit, UnseenInit, RequestedInit DEF RefInv

(* The exclusion, the caps and the comparison with the last line hold         *)
(* together at every step.                                                    *)
LEMMA RefStep ==
    ASSUME Undisturbed, RefInv, [Next]_vars
    PROVE  RefInv'
BY TypeStep, SerialStep, CapsStep, UnseenStep, RequestedStep DEF RefInv, TypeInv

(* What a step does to the log: it leaves its lines and observations alone,   *)
(* or it is Append publishing a header over the entries retention keeps, or a *)
(* collection keeping what it was not asked to prune.                         *)
LEMMA LogSteps ==
    ASSUME RefInv, [Next]_vars
    PROVE  \/ lines' = lines /\ Timeline(log') = Timeline(log)
           \/ \E p \in Proc :
                 /\ pc[p] = "gcRewrite" /\ opts[p] \in Passes
                 /\ lines' = lines
                 /\ log' = GCKept(log, opts[p])
           \/ \E p \in Proc :
                 /\ Publish(p) /\ pc[p] \in Appending
                 /\ lines' = lines + 1
                 /\ log' = Retained(log, cur[p]) \cup {Header(p)}
<1> USE DEF RefInv, TypeInv
<1>1. CASE UNCHANGED <<log, lines>>
    BY <1>1
<1>2. ASSUME NEW p \in Proc, Publish(p), ~UNCHANGED <<log, lines>>
      PROVE  /\ pc[p] \in Appending
             /\ lines' = lines + 1
             /\ log' = Retained(log, cur[p]) \cup {Header(p)}
    <2>1. view[p] = log /\ pc[p] \in Appending
        BY <1>2 DEF Publish, SerialInv, Current, Relying, Appending
    <2> QED
        BY <1>2, <2>1 DEF Publish, Rewrite
<1>3. ASSUME NEW p \in Proc, RewriteSummary(p)
      PROVE  lines' = lines /\ Timeline(log') = Timeline(log)
    <2> DEFINE old == Target(p, log)
               new == {[e EXCEPT !.base = cur[p].base] : e \in old}
    <2>1. log' = (log \ old) \cup new /\ old \subseteq log /\ lines' = lines
        BY <1>3 DEF RewriteSummary, Rewrite, SerialInv, Current, Relying, Target
    <2>2. \A e \in old : Revision([e EXCEPT !.base = cur[p].base]) = Revision(e)
        BY <2>1 DEF TypeOK, Entry, Revision
    <2>3. \A x : x \in Timeline(log) <=> \E e \in log : x = Revision(e)
        BY DEF Timeline, Revision
    <2>4. \A x : x \in Timeline(log') <=> \E e \in log' : x = Revision(e)
        BY DEF Timeline, Revision
    <2>5. \A e \in log : \E d \in log' : Revision(d) = Revision(e)
        <3> SUFFICES ASSUME NEW e \in log PROVE \E d \in log' : Revision(d) = Revision(e)
            OBVIOUS
        <3>1. CASE e \in old
            <4>1. [e EXCEPT !.base = cur[p].base] \in log'
                BY <2>1, <3>1
            <4> QED
                BY <2>2, <3>1, <4>1
        <3>2. CASE e \notin old
            BY <2>1, <3>2
        <3> QED
            BY <3>1, <3>2
    <2>6. \A d \in log' : \E e \in log : Revision(d) = Revision(e)
        BY <2>1, <2>2
    <2>7. Timeline(log') = Timeline(log)
        <3>1. \A x \in Timeline(log') : x \in Timeline(log)
            BY ONLY <2>3, <2>4, <2>6
        <3>2. \A x \in Timeline(log) : x \in Timeline(log')
            BY ONLY <2>3, <2>4, <2>5
        <3> QED
            BY ONLY <3>1, <3>2
    <2> QED
        BY <2>1, <2>7
<1>4. ASSUME NEW p \in Proc, Begin(p) PROVE UNCHANGED <<log, lines>>
    BY <1>4 DEF Begin, Record, RecordAgain, Import, Mend, Collect, file
<1>5. ASSUME NEW p \in Proc, Tear(p) \/ Stop(p) PROVE UNCHANGED <<log, lines>>
    BY <1>5 DEF Tear, Stop, file
<1>6. ASSUME NEW p \in Proc, Step(p), ~Publish(p), ~RewriteSummary(p), ~GCRewrite(p)
      PROVE  UNCHANGED <<log, lines>>
    BY <1>6 DEF Step, Acquire, Refuse, SkipSame, TakeUp, Place, Store, Prune, SweepFile,
                EndPrune, Reread, GCList, GCSwept, file
<1>8. ASSUME NEW p \in Proc, GCRewrite(p)
      PROVE  /\ pc[p] = "gcRewrite" /\ opts[p] \in Passes
             /\ lines' = lines
             /\ log' = GCKept(log, opts[p])
    BY <1>8 DEF GCRewrite, Rewrite, Requested, SerialInv, Current, Relying, Collecting
<1>7. CASE UNCHANGED vars \/ Finished
    BY <1>1, <1>7 DEF vars, file, Finished
<1> QED
    BY <1>1, <1>2, <1>3, <1>4, <1>5, <1>6, <1>7, <1>8 DEF Next

(* Publishing a header is recording an observation in the History.            *)
LEMMA PublishRecords ==
    ASSUME RefInv, RefInv', NEW p \in Proc, pc[p] \in Appending,
           lines' = lines + 1,
           log' = Retained(log, cur[p]) \cup {Header(p)}
    PROVE  H!Next
<1> USE DEF RefInv, TypeInv
<1> DEFINE K == Retained(log, cur[p])
<1>0. cur[p] \in Draft /\ cur[p].obs \in Observation
    BY DEF TypeOK, Prepared, Appending
<1>1. PICK o \in Observation : cur[p].obs = o
    BY <1>0
<1>2. Header(p).line = lines + 1 /\ Header(p).obs = o /\ K \subseteq log
    BY <1>0, <1>1, RetainedTypes DEF Header
<1>3. \A r \in Timeline(log) : H!IsNewest(r) => ~H!Same(r.obs, o)
    <2> SUFFICES ASSUME NEW r \in Timeline(log), H!IsNewest(r), H!Same(r.obs, o) PROVE FALSE
        OBVIOUS
    <2>1. PICK e \in log : r = Revision(e)
        BY DEF Timeline, Revision
    <2>2. \A d \in log : Revision(d) \in Timeline(log)
        BY DEF Timeline, Revision
    <2>3. \A d \in log : Revision(d).line = d.line
        BY DEF Revision
    <2>4. \A x \in Timeline(log) : x.line <= r.line
        BY DEF H!IsNewest, Timeline
    <2>5. IsLast(e, log)
        BY <2>1, <2>2, <2>3, <2>4 DEF IsLast
    <2>6. SameRevision(e, cur[p])
        BY <1>1, <2>1 DEF H!Same, SameRevision, Revision
    <2> QED
        BY <2>5, <2>6 DEF Unseen
<1>4. Timeline(log') = Timeline(K) \cup {[line |-> lines + 1, obs |-> o]}
    BY <1>2 DEF Timeline
<1>5. Timeline(K) \in SUBSET Timeline(log)
    BY <1>2 DEF Timeline
<1>6. IsFiniteSet(log') /\ Distinct(log') /\ Caps(log')
    BY DEF CapsInv, WithinCaps, Caps, Rivals, Working
<1>7. ASSUME NEW r \in Timeline(log) \ Timeline(K)
      PROVE  H!Superseded(r, Timeline(log'))
    <2>1. PICK e \in log : r = Revision(e)
        BY DEF Timeline, Revision
    <2>2. e \notin K
        BY <1>7, <2>1 DEF Timeline, Revision
    <2>3. H!Superseded(e, log')
        BY <1>0, <1>1, <1>2, <2>2, DroppedIsSuperseded DEF SerialInv
    <2> QED
        BY <1>6, <2>1, <2>3, TimelineSupersedes
<1>8. H!WithinCaps(Timeline(log'))
    BY <1>6, TimelineCaps
<1>9. H!Record(o)
    <2> HIDE DEF K
    <2> QED
        BY <1>3, <1>4, <1>5, <1>7, <1>8 DEF H!Record, Timeline
<1> QED
    BY <1>9, Zenon DEF H!Next

(* A collection that rewrites the log is a Prune of the History.              *)
LEMMA CollectionPrunes ==
    ASSUME NEW o \in Passes, lines' = lines, log' = GCKept(log, o)
    PROVE  H!Next
<1> DEFINE kept == {r \in Timeline(log) : /\ ~(o.working /\ H!Working(r))
                                         /\ ~(o.clusters /\ r.obs.multi)}
<1>1. \A e : Revision(e).obs = e.obs
    BY DEF Revision
<1>2. \A e : H!Working(Revision(e)) <=> Working(e)
    BY <1>1 DEF H!Working, Working
<1>3. \A x : x \in Timeline(log) <=> \E e \in log : x = Revision(e)
    BY DEF Timeline, Revision
<1>4. \A x : x \in Timeline(log') <=> \E e \in log' : x = Revision(e)
    BY DEF Timeline, Revision
<1>5. \A e : e \in log' <=> /\ e \in log
                            /\ ~(o.working /\ Working(e)) /\ ~(o.clusters /\ e.obs.multi)
    BY DEF GCKept
<1>6. \A x : x \in kept <=> \E e \in log' : x = Revision(e)
    BY <1>1, <1>2, <1>3, <1>5
<1>7. Timeline(log') = kept
    BY ONLY <1>4, <1>6
<1>8. H!Prune(o)
    BY <1>7 DEF H!Prune, Timeline
<1> QED
    BY <1>8, Zenon DEF H!Next

(* The log is a History, whatever dies: every observation enters it whole,    *)
(* after the revision it was compared with, what it drops has a cap's worth   *)
(* of newer revisions in its stead, and a collection drops what it was asked  *)
(* to. For one process, and for any number of them that get the lock and do   *)
(* not collect: the lock gives Append and RewriteSummary the log they read.   *)
THEOREM Refinement ==
    ASSUME Undisturbed
    PROVE  Spec => RefinesHistory
<1>1. Init => H!Init
    BY DEF Init, H!Init
<1>2. RefInv /\ RefInv' /\ [Next]_vars => [H!Next]_H!vars
    <2> SUFFICES ASSUME RefInv, RefInv', [Next]_vars PROVE [H!Next]_H!vars
        OBVIOUS
    <2>1. CASE lines' = lines /\ Timeline(log') = Timeline(log)
        BY <2>1 DEF H!vars, Timeline
    <2>2. ASSUME NEW p \in Proc, opts[p] \in Passes, lines' = lines,
                 log' = GCKept(log, opts[p])
          PROVE  H!Next
        BY <2>2, CollectionPrunes
    <2> QED
        BY <2>1, <2>2, LogSteps, PublishRecords
<1>3. RefInv /\ [Next]_vars => RefInv'
    BY RefStep
<1> QED
    BY RefInit, <1>1, <1>2, <1>3, PTL DEF Spec, RefinesHistory, H!Spec

(* A revision leaves the log only when newer ones have used up its retention, *)
(* or when a collection was asked to prune its kind: a rewritten summary keeps *)
(* its line. For one process, and for any number of them that get the lock    *)
(* and do not collect.                                                        *)
THEOREM PolicyOnly ==
    ASSUME Undisturbed
    PROVE  Spec => LeavesByPolicyOnly
<1>1. RefInv /\ RefInv' /\ [Next]_vars =>
         [\A e \in log : \/ \E d \in log' : d.line = e.line
                         \/ H!Superseded(e, log')
                         \/ \E p \in Proc : PrunedBy(p, e)]_vars
    <2> SUFFICES ASSUME RefInv, RefInv', [Next]_vars, NEW e \in log,
                        ~\E d \in log' : d.line = e.line
                 PROVE  H!Superseded(e, log') \/ \E p \in Proc : PrunedBy(p, e)
        OBVIOUS
    <2>1. CASE Timeline(log') = Timeline(log)
        <3>1. Revision(e) \in Timeline(log) /\ Revision(e).line = e.line
            BY DEF Timeline, Revision
        <3>2. PICK d \in log' : Revision(e) = Revision(d)
            BY <2>1, <3>1 DEF Timeline, Revision
        <3> QED
            BY <3>1, <3>2 DEF Revision
    <2>2. ASSUME NEW p \in Proc, pc[p] \in Appending,
                 log' = Retained(log, cur[p]) \cup {Header(p)}
          PROVE  H!Superseded(e, log')
        <3>1. cur[p] \in Draft /\ Header(p).line = lines + 1 /\ Header(p).obs = cur[p].obs
            BY DEF Header, RefInv, TypeInv, TypeOK
        <3>2. e \notin Retained(log, cur[p])
            BY <2>2
        <3> QED
            BY <2>2, <3>1, <3>2, DroppedIsSuperseded DEF RefInv, TypeInv, SerialInv
    <2>3. ASSUME NEW p \in Proc, pc[p] = "gcRewrite", log' = GCKept(log, opts[p])
          PROVE  PrunedBy(p, e)
        BY <2>3 DEF PrunedBy, GCKept
    <2> QED
        BY <2>1, <2>2, <2>3, LogSteps
<1>2. RefInv /\ [Next]_vars => RefInv'
    BY RefStep
<1> QED
    BY RefInit, <1>1, <1>2, PTL DEF Spec, LeavesByPolicyOnly

=============================================================================
