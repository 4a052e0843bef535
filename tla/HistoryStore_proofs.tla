------------------------ MODULE HistoryStore_proofs -------------------------
(***************************************************************************)
(* Theorems about HistoryStore, for any number of processes, any           *)
(* observations and any retention.                                         *)
(***************************************************************************)
EXTENDS HistoryStore, FiniteSetTheorems, WellFoundedInduction, TLAPS

-----------------------------------------------------------------------------
(* The numbers Append gives out. *)

Bound(S, b) == \A n \in S : n <= b

(* A bounded set of natural numbers has a highest member, and Highest is that *)
(* member, or 0: nextSeq and nextSegment look at every number given out.      *)
LEMMA HighestBounds ==
    ASSUME NEW S, S \subseteq Nat, NEW b \in Nat, Bound(S, b)
    PROVE  /\ Highest(S) \in Nat
           /\ Highest(S) \in S \cup {0}
           /\ Bound(S, Highest(S))
           /\ Highest(S) <= b
<1> DEFINE T == S \cup {0}
           U == {n \in Nat : Bound(T, n)}
<1>1. b \in U
    BY DEF Bound
<1>2. PICK u \in U : \A n \in U : ~(n < u)
    <2>1. PICK u \in U : \A n \in U : ~(<<n, u>> \in OpToRel(<, Nat))
        BY <1>1, WFMin, NatLessThanWellFounded
    <2> QED
        BY <2>1 DEF OpToRel
<1>3. u \in T
    <2> SUFFICES ASSUME u \notin T PROVE FALSE
        OBVIOUS
    <2>1. u - 1 \in Nat /\ u - 1 < u
        OBVIOUS
    <2>2. Bound(T, u - 1)
        BY DEF Bound
    <2> QED
        BY <1>2, <2>1, <2>2
<1>4. \A m \in S : m <= u
    BY DEF Bound
<1>5. PICK h : h = Highest(S)
    OBVIOUS
<1>6. /\ h \in S \cup {0}
      /\ \A m \in S : m <= h
    BY <1>3, <1>4, <1>5 DEF Highest
<1>7. h \in Nat /\ h <= b
    BY <1>6 DEF Bound
<1> QED
    BY <1>5, <1>6, <1>7 DEF Bound

-----------------------------------------------------------------------------
(* Types. *)

\* The call prepares an observation, or a summary of one.
Prepared ==
    \A p \in Proc : pc[p] \notin {"idle", "gcList", "gcSweep", "gcRewrite"}
                       => cur[p].obs \in Observation

EntriesBelow(S, b) == \A e \in S : e.seq <= b /\ e.blob[1] <= b

\* No sequence or segment number in use is above b.
NumbersBelow(b) ==
    /\ EntriesBelow(log, b)
    /\ \A f \in disk : f.seg <= b
    /\ \A p \in Proc : EntriesBelow(view[p], b)
    /\ \A p \in Proc : cur[p].seq <= b /\ cur[p].blob[1] <= b

Bounded == \E b \in Nat : NumbersBelow(b)

\* Typing is inductive together with what makes the entry a process publishes
\* an entry, and the highest number a highest number.
TypeInv == TypeOK /\ Prepared /\ Bounded

(* The entry of an idle process is a draft with no numbers taken.             *)
LEMMA BlankIsDraft == Blank \in Draft /\ Blank.obs = NoObs /\ Blank.seq = 0 /\ Blank.blob = <<0, 0>>
BY DEF Blank, Draft, NoBlob, Address, Initial

(* An empty directory and idle processes: the state enola starts in.          *)
LEMMA TypeInit == Init => TypeInv
<1> SUFFICES ASSUME Init PROVE TypeInv
    OBVIOUS
<1>1. TypeOK
    <2>1. pc \in [Proc -> Control] /\ cur \in [Proc -> Draft]
        BY BlankIsDraft DEF Init, Control
    <2>2. opts \in [Proc -> GCOptions]
        BY DEF Init, NoOpts, GCOptions
    <2>3. calls \in 0..MaxCalls /\ stops \in 0..MaxStops
        BY ConstantsOK DEF Init
    <2> QED
        BY <2>1, <2>2, <2>3 DEF Init, TypeOK
<1>2. Prepared
    BY DEF Init, Prepared
<1>3. NumbersBelow(0)
    BY BlankIsDraft DEF Init, NumbersBelow, EntriesBelow
<1> QED
    BY <1>1, <1>2, <1>3 DEF TypeInv, Bounded

(* What Return leaves behind has its type and keeps every number in bounds. *)
LEMMA ReturnTypes ==
    ASSUME NEW p \in Proc, NEW b \in Nat, TypeOK, Prepared, NumbersBelow(b), Return(p)
    PROVE  /\ lock' \in Proc \cup {Free}
           /\ pc' \in [Proc -> Control]
           /\ cur' \in [Proc -> Draft]
           /\ view' \in [Proc -> SUBSET Entry]
           /\ doomed' \in [Proc -> SUBSET Nat]
           /\ opts' \in [Proc -> GCOptions]
           /\ Prepared'
           /\ \A q \in Proc : EntriesBelow(view'[q], b)
           /\ \A q \in Proc : cur'[q].seq <= b /\ cur'[q].blob[1] <= b
<1> USE DEF TypeOK
<1>1. lock' \in Proc \cup {Free} /\ pc' \in [Proc -> Control]
    BY DEF Return, Goto, Control
<1>2. cur' \in [Proc -> Draft]
    BY BlankIsDraft DEF Return
<1>3. /\ view' \in [Proc -> SUBSET Entry]
      /\ doomed' \in [Proc -> SUBSET Nat]
      /\ opts' \in [Proc -> GCOptions]
    BY DEF Return, NoOpts, GCOptions
<1>4. Prepared'
    BY DEF Return, Goto, Prepared
<1>5. \A q \in Proc : EntriesBelow(view'[q], b)
    BY DEF Return, NumbersBelow, EntriesBelow
<1>6. \A q \in Proc : cur'[q].seq <= b /\ cur'[q].blob[1] <= b
    BY BlankIsDraft DEF Return, NumbersBelow
<1> QED
    BY <1>1, <1>2, <1>3, <1>4, <1>5, <1>6

(* The base of a summary (Recorder.Record) is a line number or a mark.        *)
LEMMA BasesAreInt ==
    ASSUME TypeOK
    PROVE  BasesOf(log) \subseteq Int
BY DEF BasesOf, TypeOK, Entry, Initial, NoBase

(* Numbers stay bounded when every number in use after a step has a bound.    *)
LEMMA BoundedNext ==
    ASSUME NEW b \in Nat, NumbersBelow(b)'
    PROVE  Bounded'
BY DEF Bounded

(* Calls that start: Record, Import, Mend, Collect. *)
LEMMA BeginTypes ==
    ASSUME TypeInv, NEW p \in Proc, Begin(p)
    PROVE  TypeInv'
<1> USE DEF TypeInv
<1>0. calls < MaxCalls /\ calls' = calls + 1 => calls' \in 0..MaxCalls
    BY ConstantsOK DEF TypeOK
<1>b. PICK b \in Nat : NumbersBelow(b)
    BY DEF Bounded
<1>1. ASSUME NEW d \in Draft, d.obs \in Observation, d.seq <= b, d.blob[1] <= b,
             NEW at \in Control,
             cur' = [cur EXCEPT ![p] = d],
             Goto(p, at), Start(p),
             UNCHANGED <<file, disk, lock, view, doomed, opts, memo>>
      PROVE  TypeInv'
    <2>1. TypeOK'
        BY <1>0, <1>1 DEF TypeOK, Start, Goto, file
    <2>2. Prepared'
        BY <1>1 DEF Prepared, TypeOK, Goto
    <2>3. /\ \A q \in Proc : cur'[q].seq <= b /\ cur'[q].blob[1] <= b
          /\ log' = log /\ disk' = disk /\ view' = view
        BY <1>1, <1>b DEF NumbersBelow, TypeOK, file
    <2>4. NumbersBelow(b)'
        BY <1>b, <2>3 DEF NumbersBelow
    <2> QED
        BY <2>1, <2>2, <2>4, BoundedNext
<1>2. ASSUME NEW o \in Observation, Record(p, o) PROVE TypeInv'
    <2>1. PICK base \in {Initial} \cup (IF Readable THEN BasesOf(log) ELSE {}) :
             cur' = [cur EXCEPT ![p] = [Blank EXCEPT !.obs = o, !.base = base,
                                                     !.remember = TRUE]]
        BY <1>2 DEF Record
    <2> DEFINE d == [Blank EXCEPT !.obs = o, !.base = base, !.remember = TRUE]
    <2>2. base \in Int
        BY BasesAreInt DEF Initial
    <2>3. /\ d \in Draft
          /\ d.obs = o /\ d.seq = 0 /\ d.blob = NoBlob
        <3>1. d \in Draft
            BY <2>2, BlankIsDraft DEF Draft
        <3>2. d.obs = o /\ d.seq = 0 /\ d.blob = NoBlob
            BY DEF Blank
        <3> QED
            BY <3>1, <3>2
    <2> HIDE DEF d
    <2>4. cur' = [cur EXCEPT ![p] = d]
        BY <2>1 DEF d
    <2>5. /\ Goto(p, "acquire") /\ Start(p)
          /\ UNCHANGED <<file, disk, lock, view, doomed, opts, memo>>
        BY <1>2 DEF Record
    <2>6. "acquire" \in Control
        BY DEF Control
    <2>7. d.obs \in Observation /\ d.seq <= b /\ d.blob[1] <= b
        BY <2>2, <2>3 DEF NoBlob
    <2> QED
        BY <1>1, <2>3, <2>4, <2>5, <2>6, <2>7
<1>3. ASSUME NEW o \in Observation, RecordAgain(p, o) PROVE TypeInv'
    <2>1. TypeOK'
        BY <1>0, <1>3 DEF TypeOK, RecordAgain, Start, file, local
    <2>2. Prepared'
        BY <1>3 DEF Prepared, RecordAgain, local
    <2>3. NumbersBelow(b)'
        BY <1>3, <1>b DEF NumbersBelow, RecordAgain, file, local
    <2> QED
        BY <2>1, <2>2, <2>3, BoundedNext
<1>4. ASSUME NEW o \in Observation, Import(p, o) PROVE TypeInv'
    <2>1. PICK base \in {Initial} \cup {e.line : e \in log} :
             cur' = [cur EXCEPT ![p] = [Blank EXCEPT !.obs = o, !.base = base]]
        BY <1>4 DEF Import
    <2>2. base \in Int
        BY DEF Initial, TypeOK, Entry
    <2> DEFINE d == [Blank EXCEPT !.obs = o, !.base = base]
    <2>3. /\ d \in Draft
          /\ d.obs = o /\ d.seq = 0 /\ d.blob = NoBlob
        <3>1. d \in Draft
            BY <2>2, BlankIsDraft DEF Draft
        <3>2. d.obs = o /\ d.seq = 0 /\ d.blob = NoBlob
            BY DEF Blank
        <3> QED
            BY <3>1, <3>2
    <2> HIDE DEF d
    <2>4. cur' = [cur EXCEPT ![p] = d]
        BY <2>1 DEF d
    <2>5. /\ Goto(p, "acquire") /\ Start(p)
          /\ UNCHANGED <<file, disk, lock, view, doomed, opts, memo>>
        BY <1>4 DEF Import
    <2>6. "acquire" \in Control
        BY DEF Control
    <2>7. d.obs \in Observation /\ d.seq <= b /\ d.blob[1] <= b
        BY <2>2, <2>3 DEF NoBlob
    <2> QED
        BY <1>1, <2>3, <2>4, <2>5, <2>6, <2>7
<1>5. ASSUME Mend(p) PROVE TypeInv'
    <2>1. PICK e \in log, base \in {Initial} \cup {d.line : d \in {c \in log : Loads(c)}} :
             cur' = [cur EXCEPT ![p] = [Blank EXCEPT !.obs = e.obs, !.seq = e.seq,
                                                     !.base = base]]
        BY <1>5 DEF Mend
    <2>2. base \in Int /\ e.obs \in Observation /\ e.seq \in Nat /\ e.seq <= b
        BY <1>b DEF Initial, TypeOK, Entry, NumbersBelow, EntriesBelow
    <2> DEFINE d == [Blank EXCEPT !.obs = e.obs, !.seq = e.seq, !.base = base]
    <2>3. /\ d \in Draft
          /\ d.obs = e.obs /\ d.seq = e.seq /\ d.blob = NoBlob
        <3>1. d \in Draft
            BY <2>2, BlankIsDraft DEF Draft
        <3>2. d.obs = e.obs /\ d.seq = e.seq /\ d.blob = NoBlob
            BY DEF Blank
        <3> QED
            BY <3>1, <3>2
    <2> HIDE DEF d
    <2>4. cur' = [cur EXCEPT ![p] = d]
        BY <2>1 DEF d
    <2>5. /\ Goto(p, "mend") /\ Start(p)
          /\ UNCHANGED <<file, disk, lock, view, doomed, opts, memo>>
        BY <1>5 DEF Mend
    <2>6. "mend" \in Control
        BY DEF Control
    <2>7. d.obs \in Observation /\ d.seq <= b /\ d.blob[1] <= b
        BY <2>2, <2>3 DEF NoBlob
    <2> QED
        BY <1>1, <2>3, <2>4, <2>5, <2>6, <2>7
<1>6. ASSUME NEW o \in Passes, Collect(p, o) PROVE TypeInv'
    <2>1. opts' \in [Proc -> GCOptions] /\ view' \in [Proc -> SUBSET Entry]
        BY <1>6, ConstantsOK DEF Collect, TypeOK, GCOptions
    <2>2. TypeOK'
        BY <1>0, <1>6, <2>1 DEF TypeOK, Collect, Start, Goto, Control, file
    <2>3. Prepared'
        BY <1>6 DEF Prepared, Collect, Goto, TypeOK
    <2>4. NumbersBelow(b)'
        BY <1>6, <1>b DEF NumbersBelow, Collect, TypeOK, file
    <2> QED
        BY <2>2, <2>3, <2>4, BoundedNext
<1> QED
    BY <1>2, <1>3, <1>4, <1>5, <1>6 DEF Begin

(* stampFormat leaves a marker that checkFormat can judge.                    *)
LEMMA StampedType == marker \in {"none", "ours", "foreign"} => Stamped \in {"none", "ours", "foreign"}
BY DEF Stamped

(* The steps of Append before it publishes. *)
LEMMA PrepareTypes ==
    ASSUME TypeInv, NEW p \in Proc,
           \/ Acquire(p) \/ Refuse(p) \/ SkipSame(p) \/ TakeUp(p)
           \/ Place(p) \/ Store(p) \/ Prune(p) \/ SweepFile(p) \/ EndPrune(p)
    PROVE  TypeInv'
<1> USE DEF TypeInv
<1>b. PICK b \in Nat : NumbersBelow(b)
    BY DEF Bounded
<1>g. ASSUME GiveUpContents(p), pc[p] \in {"place", "store", "sweep"}
      PROVE  /\ cur' \in [Proc -> Draft]
             /\ pc' \in [Proc -> Control]
             /\ doomed' \in [Proc -> SUBSET Nat]
             /\ Prepared'
             /\ \A q \in Proc : cur'[q].seq <= b /\ cur'[q].blob[1] <= b
    <2>0. NoBlob \in Address
        BY DEF NoBlob, Address
    <2>a. cur \in [Proc -> Draft] /\ cur' = [cur EXCEPT ![p].blob = NoBlob, ![p].parent = NoId]
        BY <1>g DEF GiveUpContents, TypeOK
    <2>1. cur' \in [Proc -> Draft]
        BY ONLY <2>0, <2>a DEF Draft
    <2>2. pc' \in [Proc -> Control] /\ doomed' \in [Proc -> SUBSET Nat]
        BY <1>g DEF GiveUpContents, TypeOK, Goto, Control
    <2>3. \A q \in Proc : /\ cur'[q].obs = cur[q].obs
                          /\ cur'[q].seq = cur[q].seq
                          /\ cur'[q].blob \in {cur[q].blob, NoBlob}
        BY <1>g DEF GiveUpContents, TypeOK, Draft
    <2>4. Prepared'
        BY <1>g, <2>3 DEF Prepared, GiveUpContents, Goto, TypeOK
    <2>5. \A q \in Proc : cur'[q].seq <= b /\ cur'[q].blob[1] <= b
        BY <1>b, <2>3 DEF NumbersBelow, NoBlob
    <2> QED
        BY <2>1, <2>2, <2>4, <2>5
<1>1. CASE Acquire(p)
    <2>1. TypeOK'
        BY <1>1 DEF TypeOK, Acquire, Goto, Control, file, local, counters
    <2>2. Prepared'
        BY <1>1 DEF Prepared, Acquire, Goto, TypeOK, local
    <2>3. NumbersBelow(b)'
        BY <1>1, <1>b DEF NumbersBelow, Acquire, file, local
    <2> QED
        BY <2>1, <2>2, <2>3, BoundedNext
<1>2. CASE Refuse(p)
    <2>1. Return(p) /\ UNCHANGED <<file, disk, memo, counters>>
        BY <1>2 DEF Refuse
    <2>2. TypeOK'
        BY <1>b, <2>1, ReturnTypes DEF TypeOK, file, counters
    <2>3. NumbersBelow(b)'
        BY <1>b, <2>1, ReturnTypes DEF NumbersBelow, file
    <2> QED
        BY <1>b, <2>1, <2>2, <2>3, ReturnTypes, BoundedNext
<1>3. CASE SkipSame(p)
    <2>1. /\ Return(p)
          /\ marker' = Stamped
          /\ UNCHANGED <<log, lines, torn, corrupt, disk, counters>>
        BY <1>3 DEF SkipSame
    <2>2. memo' \in [Proc -> Observation \cup {NoObs}]
        BY <1>3 DEF SkipSame, Remember, TypeOK, Draft
    <2>3. TypeOK'
        BY <1>b, <2>1, <2>2, StampedType, ReturnTypes DEF TypeOK, counters
    <2>4. NumbersBelow(b)'
        BY <1>b, <2>1, ReturnTypes DEF NumbersBelow
    <2> QED
        BY <1>b, <2>1, <2>3, <2>4, ReturnTypes, BoundedNext
<1>4. CASE TakeUp(p)
    <2> DEFINE S == {e.seq : e \in log}
    <2>1. S \subseteq Nat /\ Bound(S, b)
        BY <1>b DEF TypeOK, Entry, NumbersBelow, EntriesBelow, Bound
    <2>2. NextSeq(log) \in Nat /\ NextSeq(log) <= b + 1
        BY <2>1, HighestBounds DEF NextSeq
    <2>3. /\ cur' = [cur EXCEPT ![p].seq = NextSeq(log)]
          /\ view' = [view EXCEPT ![p] = log]
          /\ marker' = Stamped
          /\ pc[p] = "read"
          /\ \E at \in {"place", "publish"} : Goto(p, at)
          /\ UNCHANGED <<log, lines, torn, corrupt, disk, lock, doomed, opts, memo, counters>>
        BY <1>4 DEF TakeUp
    <2>a. cur \in [Proc -> Draft]
        BY DEF TypeOK
    <2>4. cur' \in [Proc -> Draft]
        BY ONLY <2>2, <2>3, <2>a DEF Draft
    <2>5. pc' \in [Proc -> Control] /\ view' \in [Proc -> SUBSET Entry]
        BY <2>3 DEF TypeOK, Goto, Control
    <2>6. TypeOK'
        BY <2>3, <2>4, <2>5, StampedType DEF TypeOK, counters
    <2>7. \A q \in Proc : /\ cur'[q].obs = cur[q].obs
                          /\ cur'[q].seq \in {cur[q].seq, NextSeq(log)}
                          /\ cur'[q].blob = cur[q].blob
        BY <2>3 DEF TypeOK, Draft
    <2>8. Prepared'
        BY <2>3, <2>7 DEF Prepared, TypeOK, Goto
    <2>9. \A S1 \in SUBSET Entry : EntriesBelow(S1, b) => EntriesBelow(S1, b + 1)
        BY DEF EntriesBelow, Entry, Address
    <2>10. \A q \in Proc : cur'[q].seq <= b + 1 /\ cur'[q].blob[1] <= b + 1
        BY <1>b, <2>2, <2>7 DEF NumbersBelow, TypeOK, Draft, Address
    <2>11. \A q \in Proc : EntriesBelow(view'[q], b + 1)
        BY <1>b, <2>3, <2>9 DEF NumbersBelow, TypeOK
    <2>12. EntriesBelow(log', b + 1) /\ \A f \in disk' : f.seg <= b + 1
        BY <1>b, <2>3, <2>9 DEF NumbersBelow, TypeOK, File
    <2>13. NumbersBelow(b + 1)'
        BY <2>10, <2>11, <2>12 DEF NumbersBelow
    <2>14. Bounded'
        BY <2>13, BoundedNext
    <2> QED
        BY <2>6, <2>8, <2>14
<1>6. CASE Store(p)
    <2>1. CASE GiveUpContents(p) /\ UNCHANGED disk
        <3>1. UNCHANGED <<file, disk, lock, view, opts, memo, counters>> /\ pc[p] = "store"
            BY <1>6, <2>1 DEF Store
        <3>2. TypeOK'
            BY <1>g, <2>1, <3>1 DEF TypeOK, file, counters
        <3>3. NumbersBelow(b)'
            BY <1>b, <1>g, <2>1, <3>1 DEF NumbersBelow, file
        <3> QED
            BY <1>g, <2>1, <3>1, <3>2, <3>3, BoundedNext
    <2>2. CASE ~(GiveUpContents(p) /\ UNCHANGED disk)
        <3> DEFINE new == [seg |-> cur[p].blob[1], mem |-> cur[p].blob[2],
                           id |-> cur[p].obs.id, parent |-> cur[p].parent]
        <3>1. /\ pc[p] = "store" /\ Goto(p, "prune")
              /\ disk' = {f \in disk : <<f.seg, f.mem>> # cur[p].blob} \cup {new}
              /\ UNCHANGED <<file, cur, doomed, lock, view, opts, memo, counters>>
            BY <1>6, <2>2 DEF Store
        <3>2. cur[p] \in Draft /\ cur[p].obs \in Observation
            BY <3>1 DEF TypeOK, Prepared
        <3>3. new \in File /\ new.seg <= b
            BY <1>b, <3>2 DEF File, Draft, Address, Ids, NumbersBelow
        <3> HIDE DEF new
        <3>4. disk' \subseteq disk \cup {new}
            BY <3>1
        <3>5. TypeOK'
            BY <3>1, <3>3, <3>4 DEF TypeOK, Goto, Control, file, counters
        <3>6. Prepared'
            BY <3>1, <3>2 DEF Prepared, TypeOK, Goto
        <3>7. NumbersBelow(b)'
            BY <1>b, <3>1, <3>3, <3>4 DEF NumbersBelow, file
        <3> QED
            BY <3>5, <3>6, <3>7, BoundedNext
    <2> QED
        BY <2>1, <2>2
<1>7. CASE Prune(p)
    <2>1. OutOfWindow(log) \subseteq Nat
        BY DEF OutOfWindow, Segments, TypeOK, File
    <2>2. doomed' \in [Proc -> SUBSET Nat]
        BY <1>7, <2>1 DEF Prune, TypeOK
    <2>3. TypeOK'
        BY <1>7, <2>2 DEF Prune, TypeOK, Goto, Control, file, counters
    <2>4. Prepared'
        BY <1>7 DEF Prune, Prepared, TypeOK, Goto
    <2>5. NumbersBelow(b)'
        BY <1>7, <1>b DEF Prune, NumbersBelow, file
    <2> QED
        BY <2>3, <2>4, <2>5, BoundedNext
<1>8. CASE SweepFile(p)
    <2>1. disk' \subseteq disk /\ UNCHANGED <<file, lock, pc, local, memo, counters>>
        BY <1>8 DEF SweepFile
    <2>2. TypeOK'
        BY <2>1 DEF TypeOK, file, local, counters
    <2>3. Prepared'
        BY <2>1 DEF Prepared, local
    <2>4. NumbersBelow(b)'
        BY <1>b, <2>1 DEF NumbersBelow, file, local
    <2> QED
        BY <2>2, <2>3, <2>4, BoundedNext
<1>9. CASE EndPrune(p)
    <2>1. UNCHANGED <<file, disk, lock, view, opts, memo, counters>> /\ pc[p] = "sweep"
        BY <1>9 DEF EndPrune
    <2>2. CASE GiveUpContents(p)
        <3>1. TypeOK'
            BY <1>g, <2>1, <2>2 DEF TypeOK, file, counters
        <3>2. NumbersBelow(b)'
            BY <1>b, <1>g, <2>1, <2>2 DEF NumbersBelow, file
        <3> QED
            BY <1>g, <2>1, <2>2, <3>1, <3>2, BoundedNext
    <2>3. CASE ~GiveUpContents(p)
        <3>1. /\ doomed' = [doomed EXCEPT ![p] = {}] /\ Goto(p, "publish")
              /\ UNCHANGED cur
            BY <1>9, <2>3 DEF EndPrune
        <3>2. TypeOK'
            BY <2>1, <3>1 DEF TypeOK, Goto, Control, file, counters
        <3>3. Prepared'
            BY <2>1, <3>1 DEF Prepared, TypeOK, Goto
        <3>4. NumbersBelow(b)'
            BY <1>b, <2>1, <3>1 DEF NumbersBelow, file
        <3> QED
            BY <3>2, <3>3, <3>4, BoundedNext
    <2> QED
        BY <2>2, <2>3
<1>5. CASE Place(p)
    <2>1. UNCHANGED <<file, disk, lock, view, opts, memo, counters>> /\ pc[p] = "place"
        BY <1>5 DEF Place
    <2>2. CASE GiveUpContents(p)
        <3>1. TypeOK'
            BY <1>g, <2>1, <2>2 DEF TypeOK, file, counters
        <3>2. NumbersBelow(b)'
            BY <1>b, <1>g, <2>1, <2>2 DEF NumbersBelow, file
        <3> QED
            BY <1>g, <2>1, <2>2, <3>1, <3>2, BoundedNext
    <2>3. ASSUME NEW a \in Address, a[1] <= b + 1, NEW id \in Ids \cup {NoId}, PlaceAt(p, a, id)
          PROVE  TypeInv'
        <3>1. /\ cur' = [cur EXCEPT ![p].blob = a, ![p].parent = id]
              /\ Goto(p, "store") /\ UNCHANGED doomed
            BY <2>3 DEF PlaceAt
        <3>a. cur \in [Proc -> Draft]
            BY DEF TypeOK
        <3>b. PICK d : d = [cur[p] EXCEPT !.blob = a, !.parent = id]
            OBVIOUS
        <3>c. d \in Draft
            BY ONLY p \in Proc, a \in Address, id \in Ids \cup {NoId}, <3>a, <3>b DEF Draft
        <3>d. cur' = [cur EXCEPT ![p] = d]
            BY <3>1, <3>b
        <3>2. cur' \in [Proc -> Draft]
            BY ONLY <3>a, <3>c, <3>d
        <3>3. TypeOK'
            BY <2>1, <3>1, <3>2 DEF TypeOK, Goto, Control, file, counters
        <3>4. \A q \in Proc : /\ cur'[q].obs = cur[q].obs
                              /\ cur'[q].seq = cur[q].seq
                              /\ cur'[q].blob \in {cur[q].blob, a}
            BY <3>1 DEF TypeOK, Draft
        <3>5. Prepared'
            BY <2>1, <3>1, <3>4 DEF Prepared, TypeOK, Goto
        <3>6. \A S1 \in SUBSET Entry : EntriesBelow(S1, b) => EntriesBelow(S1, b + 1)
            BY DEF EntriesBelow, Entry, Address
        <3>7. ASSUME NEW q \in Proc PROVE cur'[q].seq <= b + 1 /\ cur'[q].blob[1] <= b + 1
            <4>1. cur[q].seq \in Nat /\ cur[q].blob[1] \in Nat
                BY <3>a DEF Draft, Address
            <4>2. cur[q].seq <= b /\ cur[q].blob[1] <= b
                BY <1>b DEF NumbersBelow
            <4>3. cur'[q].seq = cur[q].seq
                BY <3>4
            <4>4. cur'[q].blob[1] = cur[q].blob[1] \/ cur'[q].blob[1] = a[1]
                BY <3>4
            <4> QED
                BY ONLY <2>3, <4>1, <4>2, <4>3, <4>4, b \in Nat
        <3>8. \A q \in Proc : EntriesBelow(view'[q], b + 1)
            BY <1>b, <2>1, <3>6 DEF NumbersBelow, TypeOK
        <3>9. EntriesBelow(log', b + 1) /\ \A f \in disk' : f.seg <= b + 1
            BY <1>b, <2>1, <3>6 DEF NumbersBelow, TypeOK, File, file
        <3>10. NumbersBelow(b + 1)'
            BY <3>7, <3>8, <3>9 DEF NumbersBelow
        <3>11. Bounded'
            BY <3>10, BoundedNext
        <3> QED
            BY <3>3, <3>5, <3>11
    <2>4. /\ NextSegment(view[p]) \in Nat
          /\ NextSegment(view[p]) <= b + 1
        <3> DEFINE S == Segments \cup {e.blob[1] : e \in view[p]}
        <3>1. S \subseteq Nat /\ Bound(S, b)
            BY <1>b DEF TypeOK, Entry, Address, File, Segments, NumbersBelow, EntriesBelow, Bound
        <3> QED
            BY <3>1, HighestBounds DEF NextSegment
    <2>5. \A e \in Stored(view[p]) : e.blob \in Address /\ e.blob[1] <= b
        BY <1>b DEF Stored, TypeOK, Entry, NumbersBelow, EntriesBelow
    <2>6. \A f \in disk : f \in File /\ f.seg <= b
        BY <1>b DEF TypeOK, NumbersBelow
    <2>7. CASE PlaceAt(p, <<NextSegment(view[p]), 1>>, NoId)
        BY <2>3, <2>4, <2>7 DEF Address
    <2>8. ASSUME NEW e \in Stored(view[p]), PlaceAt(p, <<e.blob[1] + 1, 1>>, NoId)
          PROVE  TypeInv'
        <3>1. /\ <<e.blob[1] + 1, 1>> \in Address
              /\ e.blob[1] + 1 <= b + 1
            BY <2>5 DEF Address
        <3> QED
            BY <2>3, <2>8, <3>1
    <2>9. ASSUME NEW f \in disk, PlaceAt(p, <<f.seg, f.mem + 1>>, f.id)
          PROVE  TypeInv'
        <3>1. /\ <<f.seg, f.mem + 1>> \in Address
              /\ f.seg <= b + 1
              /\ f.id \in Ids \cup {NoId}
            BY <2>6 DEF Address, File
        <3> QED
            BY <2>3, <2>9, <3>1
    <2> QED
        BY <1>5, <2>2, <2>7, <2>8, <2>9 DEF Place
<1> QED
    BY <1>1, <1>2, <1>3, <1>4, <1>5, <1>6, <1>7, <1>8, <1>9

(* Eviction (evictWorking, capRevisions) keeps entries of the log it was given.*)
LEMMA RetainedTypes ==
    ASSUME NEW v, NEW e
    PROVE  Retained(v, e) \subseteq v
BY DEF Retained, CapRevisions, EvictWorking, Newest, Rivals

(* The steps that publish a header, and the ways a call is cut short. *)
LEMMA PublishTypes ==
    ASSUME TypeInv, NEW p \in Proc, Publish(p) \/ Tear(p) \/ Stop(p)
    PROVE  TypeInv'
<1> USE DEF TypeInv
<1>b. PICK b \in Nat : NumbersBelow(b)
    BY DEF Bounded
<1>1. CASE Publish(p)
    <2>1. cur[p] \in Draft /\ cur[p].obs \in Observation /\ pc[p] = "publish"
        BY <1>1 DEF Publish, TypeOK, Prepared
    <2>2. Header(p) \in Entry /\ EntriesBelow({Header(p)}, b)
        BY <1>b, <2>1 DEF Header, Entry, Draft, TypeOK, EntriesBelow, NumbersBelow
    <2>3. Retained(view[p], cur[p]) \subseteq view[p]
        BY RetainedTypes
    <2>4. /\ log' \subseteq log \cup view[p] \cup {Header(p)}
          /\ lines' \in {lines, lines + 1}
          /\ torn' \in BOOLEAN
          /\ corrupt' \in {0, corrupt, lines + 1}
        BY <1>1, <2>3 DEF Publish, Rewrite, TypeOK
    <2>5. /\ Return(p)
          /\ UNCHANGED <<marker, disk, counters>>
          /\ memo' \in [Proc -> Observation \cup {NoObs}]
        BY <1>1, <2>1 DEF Publish, Remember, TypeOK
    <2>6. log' \subseteq Entry /\ EntriesBelow(log', b)
        BY <1>b, <2>2, <2>4 DEF TypeOK, NumbersBelow, EntriesBelow
    <2>7. lines' \in Nat /\ corrupt' \in Nat
        BY <2>4 DEF TypeOK
    <2>8. TypeOK'
        BY <1>b, <2>4, <2>5, <2>6, <2>7, ReturnTypes DEF TypeOK, counters
    <2>9. NumbersBelow(b)'
        BY <1>b, <2>5, <2>6, ReturnTypes DEF NumbersBelow
    <2> QED
        BY <1>b, <2>5, <2>8, <2>9, ReturnTypes, BoundedNext
<1>2. CASE Tear(p) \/ Stop(p)
    <2>1. /\ Return(p)
          /\ UNCHANGED <<log, lines, corrupt, marker, disk, calls>>
          /\ torn' \in BOOLEAN
          /\ stops < MaxStops /\ stops' = stops + 1
          /\ \E m \in {memo[p], NoObs} : memo' = [memo EXCEPT ![p] = m]
        BY <1>2 DEF Tear, Stop, file, TypeOK
    <2>2. stops' \in 0..MaxStops /\ memo' \in [Proc -> Observation \cup {NoObs}]
        BY <2>1, ConstantsOK DEF TypeOK
    <2>3. TypeOK'
        BY <1>b, <2>1, <2>2, ReturnTypes DEF TypeOK
    <2>4. NumbersBelow(b)'
        BY <1>b, <2>1, ReturnTypes DEF NumbersBelow
    <2> QED
        BY <1>b, <2>1, <2>3, <2>4, ReturnTypes, BoundedNext
<1> QED
    BY <1>1, <1>2

(* The steps of RewriteSummary and GC. *)
LEMMA MaintenanceTypes ==
    ASSUME TypeInv, NEW p \in Proc,
           Reread(p) \/ RewriteSummary(p) \/ GCList(p) \/ GCSwept(p) \/ GCRewrite(p)
    PROVE  TypeInv'
<1> USE DEF TypeInv
<1>b. PICK b \in Nat : NumbersBelow(b)
    BY DEF Bounded
<1>r. ASSUME Return(p), UNCHANGED <<lines, marker, disk, memo, counters>>,
             torn' \in BOOLEAN, corrupt' \in {0, corrupt},
             log' \subseteq Entry, EntriesBelow(log', b)
      PROVE  TypeInv'
    <2>1. TypeOK'
        BY <1>b, <1>r, ReturnTypes DEF TypeOK, counters
    <2>2. NumbersBelow(b)'
        BY <1>b, <1>r, ReturnTypes DEF NumbersBelow
    <2> QED
        BY <1>b, <1>r, <2>1, <2>2, ReturnTypes, BoundedNext
<1>f. /\ log \subseteq Entry /\ EntriesBelow(log, b)
      /\ view[p] \subseteq Entry /\ EntriesBelow(view[p], b)
    BY <1>b DEF TypeOK, NumbersBelow
<1>1. CASE Reread(p)
    <2>1. CASE Return(p)
        BY <1>1, <1>r, <1>f, <2>1 DEF Reread, file, TypeOK
    <2>2. CASE ~Return(p)
        <3>1. /\ view' = [view EXCEPT ![p] = log] /\ Goto(p, "rewrite") /\ pc[p] = "reread"
              /\ UNCHANGED <<lock, cur, doomed, opts, file, disk, memo, counters>>
            BY <1>1, <2>2 DEF Reread
        <3>2. TypeOK'
            BY <3>1 DEF TypeOK, Goto, Control, file, counters
        <3>3. Prepared'
            BY <3>1 DEF Prepared, TypeOK, Goto
        <3>4. NumbersBelow(b)'
            BY <1>b, <3>1 DEF NumbersBelow, TypeOK, file
        <3> QED
            BY <3>2, <3>3, <3>4, BoundedNext
    <2> QED
        BY <2>1, <2>2
<1>2. CASE RewriteSummary(p)
    <2> DEFINE old == Target(p, view[p])
               new == {[e EXCEPT !.base = cur[p].base] : e \in old}
    <2>1. old \subseteq view[p] /\ cur[p].base \in Int
        BY DEF Target, TypeOK, Draft
    <2>2. new \subseteq Entry /\ EntriesBelow(new, b)
        BY <1>f, <2>1 DEF Entry, EntriesBelow
    <2>3. log' = (view[p] \ old) \cup new /\ torn' = FALSE /\ corrupt' = 0
        BY <1>2 DEF RewriteSummary, Rewrite
    <2>4. log' \subseteq Entry /\ EntriesBelow(log', b)
        BY <1>f, <2>2, <2>3 DEF EntriesBelow
    <2> QED
        BY <1>2, <1>r, <2>3, <2>4 DEF RewriteSummary
<1>3. CASE GCList(p)
    <2>1. CASE Return(p)
        BY <1>3, <1>r, <1>f, <2>1 DEF GCList, file, TypeOK
    <2>2. CASE ~Return(p)
        <3>1. /\ doomed' = [doomed EXCEPT ![p] = GCOrphans(view[p], opts[p])
                                                  \cup GCThinned(view[p], opts[p])]
              /\ Goto(p, "gcSweep") /\ pc[p] = "gcList"
              /\ UNCHANGED <<lock, cur, view, opts, file, disk, memo, counters>>
            BY <1>3, <2>2 DEF GCList
        <3>2. doomed' \in [Proc -> SUBSET Nat]
            BY <3>1 DEF GCOrphans, GCThinned, Segments, TypeOK, File
        <3>3. TypeOK'
            BY <3>1, <3>2 DEF TypeOK, Goto, Control, file, counters
        <3>4. Prepared'
            BY <3>1 DEF Prepared, TypeOK, Goto
        <3>5. NumbersBelow(b)'
            BY <1>b, <3>1 DEF NumbersBelow, file
        <3> QED
            BY <3>3, <3>4, <3>5, BoundedNext
    <2> QED
        BY <2>1, <2>2
<1>4. CASE GCSwept(p)
    <2>1. CASE Return(p)
        BY <1>4, <1>r, <1>f, <2>1 DEF GCSwept, file, TypeOK
    <2>2. CASE ~Return(p)
        <3>1. /\ Goto(p, "gcRewrite") /\ pc[p] = "gcSweep"
              /\ UNCHANGED <<lock, local, file, disk, memo, counters>>
            BY <1>4, <2>2 DEF GCSwept
        <3>2. TypeOK'
            BY <3>1 DEF TypeOK, Goto, Control, file, local, counters
        <3>3. Prepared'
            BY <3>1 DEF Prepared, TypeOK, Goto, local
        <3>4. NumbersBelow(b)'
            BY <1>b, <3>1 DEF NumbersBelow, file, local
        <3> QED
            BY <3>2, <3>3, <3>4, BoundedNext
    <2> QED
        BY <2>1, <2>2
<1>5. CASE GCRewrite(p)
    <2>1. log' = GCKept(view[p], opts[p]) /\ torn' = FALSE /\ corrupt' = 0
        BY <1>5 DEF GCRewrite, Rewrite
    <2>2. log' \subseteq Entry /\ EntriesBelow(log', b)
        BY <1>f, <2>1 DEF GCKept, EntriesBelow
    <2> QED
        BY <1>5, <1>r, <2>1, <2>2 DEF GCRewrite
<1> QED
    BY <1>1, <1>2, <1>3, <1>4, <1>5

(* Every step of every call keeps the types and the bounds.                   *)
LEMMA TypeStep == TypeInv /\ [Next]_vars => TypeInv'
<1> SUFFICES ASSUME TypeInv, [Next]_vars PROVE TypeInv'
    OBVIOUS
<1>1. CASE UNCHANGED vars
    BY <1>1 DEF TypeInv, TypeOK, Prepared, Bounded, NumbersBelow, vars, file, local, counters
<1>2. CASE Finished
    BY <1>1, <1>2 DEF Finished
<1>3. ASSUME NEW p \in Proc, Begin(p) \/ Step(p) \/ Tear(p) \/ Stop(p) PROVE TypeInv'
    BY <1>3, BeginTypes, PrepareTypes, PublishTypes, MaintenanceTypes DEF Step
<1> QED
    BY <1>1, <1>2, <1>3 DEF Next

(* Every variable has its type: the number Append gives a revision and the    *)
(* segment writeBlob opens are numbers whatever the log and the directory     *)
(* hold, and every header published is a whole entry.                         *)
THEOREM Typing == Spec => []TypeOK
<1>1. TypeInv => TypeOK
    BY DEF TypeInv
<1> QED
    BY TypeInit, TypeStep, <1>1, PTL DEF Spec

-----------------------------------------------------------------------------
(* Sequence numbers, where nobody gets in the way of a call that changes the *)
(* log.                                                                      *)

\* One process, whether or not it gets the lock and whatever it collects.
Alone == \A p, q \in Proc : p = q

\* Or any number of them, where each gets the lock it asks for and none collects:
\* GC writes the log without the lock.
Undisturbed == Alone \/ (Unlocked = {} /\ Collectors = {})

Collecting == {"gcList", "gcSweep", "gcRewrite"}
Appending == {"place", "store", "prune", "sweep", "publish"}
Critical == Appending \cup {"read", "reread", "rewrite"}

\* Where a call uses the log as it read it.
Relying == Appending \cup Collecting \cup {"rewrite"}

NoCollection == Alone \/ \A p \in Proc : pc[p] \notin Collecting

\* A process between Acquire and Release holds the lock.
Held == Alone \/ \A p \in Proc : pc[p] \in Critical => lock = p

\* What it read is still what the log holds.
Current == \A p \in Proc : pc[p] \in Relying => view[p] = log

\* The number it took is above every number in the log.
Numbered == \A p \in Proc : pc[p] \in Appending => \A e \in log : e.seq < cur[p].seq

Placed == \A e \in log : e.line <= lines

\* SeqOrder is inductive together with the exclusion it rests on.
SerialInv == NoCollection /\ Held /\ Current /\ Numbered /\ Placed /\ SeqOrder

(* An empty log: nothing is numbered and nobody holds the lock.               *)
LEMMA SerialInit == Init => SerialInv
BY DEF Init, SerialInv, NoCollection, Held, Current, Numbered, Placed, SeqOrder,
       Relying, Collecting, Appending, Critical

(* A step of p that leaves the log alone, goes on at "at" and, once inside    *)
(* the lock, has the lock, the log and a number above those in it.            *)
LEMMA SerialFrame ==
    ASSUME TypeOK, SerialInv, NEW p \in Proc, NEW at \in Control,
           UNCHANGED <<log, lines>>, Goto(p, at),
           at \in Collecting => Alone,
           at \in Critical => Alone \/ lock' = p,
           \A q \in Proc \ {p} : lock = q => lock' = q,
           at \in Relying => view'[p] = log,
           at \in Appending => \A e \in log : e.seq < cur'[p].seq,
           \A q \in Proc \ {p} : view'[q] = view[q] /\ cur'[q].seq = cur[q].seq
    PROVE  SerialInv'
<1> USE DEF SerialInv
<1>1. pc'[p] = at /\ \A q \in Proc \ {p} : pc'[q] = pc[q]
    BY DEF Goto, TypeOK
<1>2. NoCollection'
    BY <1>1 DEF NoCollection
<1>3. Held'
    BY <1>1 DEF Held
<1>4. Current'
    BY <1>1 DEF Current
<1>5. Numbered'
    BY <1>1 DEF Numbered
<1>6. Placed' /\ SeqOrder'
    BY DEF Placed, SeqOrder
<1> QED
    BY <1>2, <1>3, <1>4, <1>5, <1>6

(* A call returns, having changed the log, if at all, under the lock.         *)
LEMMA SerialReturn ==
    ASSUME TypeOK, SerialInv, NEW p \in Proc, Return(p),
           log' = log \/ pc[p] \in Critical \cup Collecting,
           Placed', SeqOrder'
    PROVE  SerialInv'
<1> USE DEF SerialInv
<1>1. /\ pc'[p] = "idle"
      /\ \A q \in Proc \ {p} : pc'[q] = pc[q] /\ view'[q] = view[q] /\ cur'[q] = cur[q]
      /\ lock' = IF lock = p THEN Free ELSE lock
    BY DEF Return, Goto, TypeOK
<1>2. "idle" \notin Collecting \cup Critical \cup Appending \cup Relying
    BY DEF Collecting, Critical, Appending, Relying
<1>3. Relying \subseteq Critical \cup Collecting /\ Appending \subseteq Critical
    BY DEF Critical, Relying
<1>4. \A q \in Proc \ {p} : pc[q] \in Critical \cup Collecting => log' = log
    BY DEF Held, NoCollection, Alone
<1>5. NoCollection'
    BY <1>1, <1>2 DEF NoCollection
<1>6. Held'
    BY <1>1, <1>2, <1>4 DEF Held
<1>7. Current'
    BY <1>1, <1>2, <1>3, <1>4 DEF Current
<1>8. Numbered'
    BY <1>1, <1>2, <1>3, <1>4 DEF Numbered
<1> QED
    BY <1>5, <1>6, <1>7, <1>8

(* Every step keeps the exclusion Append and RewriteSummary get from the lock,*)
(* and with it the order of the sequence numbers.                             *)
LEMMA SerialStep ==
    ASSUME Undisturbed, TypeInv, SerialInv, [Next]_vars
    PROVE  SerialInv'
<1> USE DEF TypeInv
<1>k. \A p \in Proc : Placed' /\ SeqOrder' /\ Return(p) /\ log' = log => SerialInv'
    BY SerialReturn
<1>u. UNCHANGED <<log, lines>> => Placed' /\ SeqOrder'
    BY DEF SerialInv, Placed, SeqOrder
<1>a. ASSUME NEW p \in Proc, pc[p] \in Critical
      PROVE  Alone \/ lock = p
    BY <1>a DEF SerialInv, Held
<1>1. CASE UNCHANGED vars \/ Finished
    BY <1>1 DEF SerialInv, NoCollection, Held, Current, Numbered, Placed, SeqOrder,
                Finished, vars, file, local
<1>2. ASSUME NEW p \in Proc, Begin(p) PROVE SerialInv'
    <2>1. ASSUME NEW o \in Passes, Collect(p, o) PROVE SerialInv'
        <3>1. /\ Alone /\ Goto(p, "gcList") /\ view'[p] = log
              /\ UNCHANGED <<log, lines, lock, cur>>
              /\ \A q \in Proc \ {p} : view'[q] = view[q]
            BY <2>1 DEF Collect, Undisturbed, TypeOK, file
        <3>2. "gcList" \in Control /\ "gcList" \notin Critical \cup Appending
            BY DEF Control, Critical, Appending
        <3> QED
            BY <3>1, <3>2, SerialFrame
    <2>2. ASSUME NEW at \in {"acquire", "mend"}, Goto(p, at),
                 UNCHANGED <<file, lock, view>>,
                 \A q \in Proc \ {p} : cur'[q] = cur[q]
          PROVE  SerialInv'
        <3>1. at \in Control /\ at \notin Critical \cup Appending \cup Collecting \cup Relying
            BY DEF Control, Collecting, Critical, Appending, Relying
        <3> QED
            BY <2>2, <3>1, SerialFrame DEF file
    <2>3. ASSUME NEW o \in Observation, Record(p, o) \/ Import(p, o) PROVE SerialInv'
        BY <2>2, <2>3 DEF Record, Import, TypeOK
    <2>4. CASE Mend(p)
        BY <2>2, <2>4 DEF Mend, TypeOK
    <2>5. ASSUME NEW o \in Observation, RecordAgain(p, o) PROVE SerialInv'
        BY <2>5 DEF RecordAgain, SerialInv, NoCollection, Held, Current, Numbered, Placed,
                    SeqOrder, file, local
    <2> QED
        BY <1>2, <2>1, <2>3, <2>4, <2>5 DEF Begin
<1>3. ASSUME NEW p \in Proc, Acquire(p) PROVE SerialInv'
    <2>1. PICK at \in {"read", "reread"} : Goto(p, at)
        BY <1>3 DEF Acquire
    <2>2. /\ \/ Alone /\ lock' \in {lock, p}
             \/ lock = Free /\ lock' = p
          /\ UNCHANGED <<log, lines, cur, view>>
        BY <1>3 DEF Acquire, Undisturbed, file, local
    <2>3. /\ at \in Control
          /\ at \notin Appending \cup Collecting \cup Relying
        BY DEF Control, Collecting, Appending, Relying
    <2>4. Alone \/ lock' = p
        BY <2>2
    <2>5. \A q \in Proc \ {p} : lock = q => lock' = q
        BY <2>2, FreeIsNoProcess DEF Alone
    <2> QED
        BY <2>1, <2>2, <2>3, <2>4, <2>5, SerialFrame
<1>4. ASSUME NEW p \in Proc, Refuse(p) \/ SkipSame(p) \/ Stop(p) \/ Tear(p) PROVE SerialInv'
    BY <1>4, <1>k, <1>u DEF Refuse, SkipSame, Stop, Tear, file
<1>5. ASSUME NEW p \in Proc, TakeUp(p) PROVE SerialInv'
    <2> DEFINE S == {e.seq : e \in log}
    <2>1. PICK b \in Nat : NumbersBelow(b)
        BY DEF Bounded
    <2>2. S \subseteq Nat /\ Bound(S, b)
        BY <2>1 DEF TypeOK, Entry, NumbersBelow, EntriesBelow, Bound
    <2>3. Highest(S) \in Nat /\ \A e \in log : e.seq <= Highest(S)
        BY <2>2, HighestBounds DEF Bound
    <2>4. \A e \in log : e.seq < NextSeq(log)
        <3>1. NextSeq(log) = 1 + Highest(S)
            BY DEF NextSeq
        <3>2. \A e \in log : e.seq \in Nat
            BY DEF TypeOK, Entry
        <3> QED
            BY <2>3, <3>1, <3>2
    <2>5. PICK at \in {"place", "publish"} : Goto(p, at)
        BY <1>5 DEF TakeUp
    <2>6. /\ pc[p] = "read"
          /\ UNCHANGED <<log, lines, lock>>
          /\ view'[p] = log
          /\ cur'[p].seq = NextSeq(log)
          /\ \A q \in Proc \ {p} : view'[q] = view[q] /\ cur'[q] = cur[q]
        BY <1>5 DEF TakeUp, TypeOK, Draft
    <2>7. at \in Control \ Collecting
        BY DEF Control, Collecting
    <2>8. Alone \/ lock = p
        BY <1>a, <2>6 DEF Critical
    <2> QED
        BY <2>4, <2>5, <2>6, <2>7, <2>8, SerialFrame
<1>6. ASSUME NEW p \in Proc, Place(p) \/ Store(p) \/ Prune(p) \/ EndPrune(p) PROVE SerialInv'
    <2>1. pc[p] \in Appending
        BY <1>6 DEF Place, Store, Prune, EndPrune, Appending
    <2>2. /\ UNCHANGED <<log, lines, lock, view>>
          /\ \A q \in Proc : cur'[q].seq = cur[q].seq
          /\ \E at \in Appending : Goto(p, at)
        <3>1. UNCHANGED <<log, lines, lock, view>>
            BY <1>6 DEF Place, Store, Prune, EndPrune, file
        <3>2. \/ GiveUpContents(p)
              \/ \E x, id : PlaceAt(p, x, id)
              \/ UNCHANGED cur /\ \E at \in {"prune", "sweep", "publish"} : Goto(p, at)
            BY <1>6 DEF Place, Store, Prune, EndPrune
        <3>3. CASE GiveUpContents(p)
            BY <3>1, <3>3 DEF GiveUpContents, TypeOK, Draft, Appending
        <3>4. CASE \E x, id : PlaceAt(p, x, id)
            <4>1. PICK x, id : PlaceAt(p, x, id)
                BY <3>4
            <4>2. \A q \in Proc : cur'[q].seq = cur[q].seq
                BY <4>1 DEF PlaceAt, TypeOK, Draft
            <4> QED
                BY <3>1, <4>1, <4>2 DEF PlaceAt, Appending
        <3>5. CASE UNCHANGED cur /\ \E at \in {"prune", "sweep", "publish"} : Goto(p, at)
            BY <3>1, <3>5 DEF Appending
        <3> QED
            BY <3>2, <3>3, <3>4, <3>5
    <2>3. PICK at \in Appending : Goto(p, at)
        BY <2>2
    <2>4. at \in Control \ Collecting
        BY DEF Appending, Control, Collecting
    <2>5. (Alone \/ lock = p) /\ view[p] = log /\ \A e \in log : e.seq < cur[p].seq
        BY <1>a, <2>1 DEF SerialInv, Critical, Relying, Current, Numbered
    <2> QED
        BY <2>2, <2>3, <2>4, <2>5, SerialFrame
<1>7. ASSUME NEW p \in Proc, SweepFile(p) PROVE SerialInv'
    BY <1>7 DEF SweepFile, SerialInv, NoCollection, Held, Current, Numbered, Placed, SeqOrder,
                file, local
<1>8. ASSUME NEW p \in Proc, Publish(p) PROVE SerialInv'
    <2>1. pc[p] \in Appending /\ pc[p] \in Critical
        BY <1>8 DEF Publish, Appending, Critical
    <2>2. view[p] = log /\ \A e \in log : e.seq < cur[p].seq
        BY <2>1 DEF SerialInv, Current, Numbered, Relying
    <2>3. Retained(view[p], cur[p]) \subseteq log
        BY <2>2, RetainedTypes
    <2>4. CASE log' = log /\ lines' = lines
        BY <1>8, <1>k, <1>u, <2>4 DEF Publish
    <2>5. CASE log' \subseteq log \cup {Header(p)} /\ lines' = lines + 1
        <3>1. Header(p).line = lines + 1 /\ Header(p).seq = cur[p].seq
            BY DEF Header
        <3>2. \A e \in log : e.line <= lines /\ e.line \in Nat /\ lines \in Nat
            BY DEF SerialInv, Placed, TypeOK, Entry
        <3>3. Placed'
            BY <2>5, <3>1, <3>2 DEF Placed, TypeOK
        <3>4. SeqOrder'
            BY <2>2, <2>5, <3>1, <3>2 DEF SeqOrder, SerialInv, TypeOK
        <3> QED
            BY <1>8, <2>1, <3>3, <3>4, SerialReturn DEF Publish
    <2> QED
        BY <1>8, <2>3, <2>4, <2>5 DEF Publish, Rewrite
<1>9. ASSUME NEW p \in Proc, Reread(p) PROVE SerialInv'
    <2>1. CASE Return(p)
        BY <1>9, <1>k, <1>u, <2>1 DEF Reread, file
    <2>2. CASE ~Return(p)
        <3>1. /\ pc[p] = "reread" /\ Goto(p, "rewrite")
              /\ view' = [view EXCEPT ![p] = log]
              /\ UNCHANGED <<log, lines, lock, cur>>
            BY <1>9, <2>2 DEF Reread, file
        <3>2. Alone \/ lock = p
            BY <1>a, <3>1 DEF Critical
        <3>3. "rewrite" \in Control \ Collecting /\ "rewrite" \notin Appending
            BY DEF Control, Collecting, Appending
        <3>4. view'[p] = log /\ \A q \in Proc \ {p} : view'[q] = view[q]
            BY <3>1 DEF TypeOK
        <3> QED
            BY <3>1, <3>2, <3>3, <3>4, SerialFrame
    <2> QED
        BY <2>1, <2>2
<1>10. ASSUME NEW p \in Proc, RewriteSummary(p) PROVE SerialInv'
    <2>1. pc[p] = "rewrite" /\ view[p] = log /\ pc[p] \in Critical
        BY <1>10 DEF RewriteSummary, SerialInv, Current, Critical, Relying
    <2> DEFINE old == Target(p, log)
               new == {[e EXCEPT !.base = cur[p].base] : e \in old}
    <2>2. log' = (log \ old) \cup new /\ lines' = lines
        BY <1>10, <2>1 DEF RewriteSummary, Rewrite
    <2>3. \A e \in new : \E d \in log : e.line = d.line /\ e.seq = d.seq
        BY DEF Target, TypeOK, Entry
    <2>4. \A e \in log' : \E d \in log : e.line = d.line /\ e.seq = d.seq
        BY <2>2, <2>3
    <2>5. Placed' /\ SeqOrder'
        BY <2>2, <2>4 DEF SerialInv, Placed, SeqOrder
    <2> QED
        BY <1>10, <2>1, <2>5, SerialReturn DEF RewriteSummary
<1>11. ASSUME NEW p \in Proc, GCList(p) \/ GCSwept(p) \/ GCRewrite(p) PROVE SerialInv'
    <2>1. pc[p] \in Collecting /\ view[p] = log /\ Alone
        <3>1. pc[p] \in Collecting
            BY <1>11 DEF GCList, GCSwept, GCRewrite, Collecting
        <3> QED
            BY <3>1 DEF SerialInv, NoCollection, Current, Relying
    <2>2. CASE Return(p) /\ log' = log /\ lines' = lines
        BY <1>k, <1>u, <2>2
    <2>3. CASE /\ \E at \in {"gcSweep", "gcRewrite"} : Goto(p, at)
               /\ UNCHANGED <<log, lines, lock, cur, view>>
        <3>1. PICK at \in {"gcSweep", "gcRewrite"} : Goto(p, at)
            BY <2>3
        <3>2. at \in Control /\ at \notin Critical \cup Appending
            BY DEF Control, Critical, Appending
        <3> QED
            BY <2>1, <2>3, <3>1, <3>2, SerialFrame
    <2>4. CASE GCRewrite(p)
        <3>1. log' \subseteq log /\ lines' = lines /\ Return(p)
            BY <2>1, <2>4 DEF GCRewrite, Rewrite, GCKept
        <3>2. Placed' /\ SeqOrder'
            BY <3>1 DEF SerialInv, Placed, SeqOrder
        <3> QED
            BY <2>1, <3>1, <3>2, SerialReturn
    <2> QED
        BY <1>11, <2>2, <2>3, <2>4 DEF GCList, GCSwept, file, local
<1> QED
    BY <1>1, <1>2, <1>3, <1>4, <1>5, <1>6, <1>7, <1>8, <1>9, <1>10, <1>11 DEF Next, Step

(* Sequence numbers are distinct and grow down the log, with any retention    *)
(* and wherever Append, RewriteSummary or GC dies: for one process, and for   *)
(* any number of them that get the lock and do not collect.                   *)
THEOREM SequenceNumbers ==
    ASSUME Undisturbed
    PROVE  Spec => []SeqOrder
<1>1. TypeInv /\ SerialInv /\ [Next]_vars => (TypeInv /\ SerialInv)'
    BY TypeStep, SerialStep
<1>2. SerialInv => SeqOrder
    BY DEF SerialInv
<1> QED
    BY TypeInit, SerialInit, <1>1, <1>2, PTL DEF Spec

-----------------------------------------------------------------------------
(* Which collections there are. *)

\* A collection under way was asked for, of a process that may run one.
Requested == \A p \in Proc : pc[p] \in Collecting => p \in Collectors /\ opts[p] \in Passes

(* Nobody collects yet.                                                       *)
LEMMA RequestedInit == Init => Requested
BY DEF Init, Requested, Collecting

(* A collection keeps the options it was given.                               *)
LEMMA RequestedStep == TypeOK /\ Requested /\ [Next]_vars => Requested'
<1> SUFFICES ASSUME TypeOK, Requested, [Next]_vars PROVE Requested'
    OBVIOUS
<1>1. ASSUME NEW p \in Proc, Return(p) PROVE Requested'
    BY <1>1 DEF Return, Goto, TypeOK, Requested, Collecting
<1>2. ASSUME NEW p \in Proc, NEW at, Goto(p, at), opts' = opts,
             at \in Collecting => pc[p] \in Collecting
      PROVE  Requested'
    BY <1>2 DEF Goto, TypeOK, Requested
<1>3. CASE pc' = pc /\ opts' = opts
    BY <1>3 DEF Requested
<1>4. ASSUME NEW p \in Proc, Begin(p) PROVE Requested'
    <2>1. ASSUME NEW o \in Passes, Collect(p, o) PROVE Requested'
        <3>1. /\ opts'[p] = o /\ p \in Collectors
              /\ \A q \in Proc \ {p} : pc'[q] = pc[q] /\ opts'[q] = opts[q]
            BY <2>1 DEF Collect, Goto, TypeOK
        <3> QED
            BY <3>1 DEF Requested
    <2>2. CASE (Goto(p, "acquire") \/ Goto(p, "mend")) /\ opts' = opts
        BY <1>2, <2>2 DEF Collecting
    <2> QED
        BY <1>3, <1>4, <2>1, <2>2 DEF Begin, Record, RecordAgain, Import, Mend, local
<1>5. ASSUME NEW p \in Proc, Step(p) PROVE Requested'
    <2>1. \/ Return(p)
          \/ pc' = pc /\ opts' = opts
          \/ /\ opts' = opts
             /\ \E at \in Control \ Collecting : Goto(p, at)
          \/ /\ opts' = opts /\ pc[p] \in Collecting
             /\ \E at \in Control : Goto(p, at)
        <3>1. CASE Acquire(p) \/ Refuse(p) \/ SkipSame(p) \/ TakeUp(p) \/ Prune(p)
                   \/ SweepFile(p) \/ Publish(p) \/ Reread(p) \/ RewriteSummary(p)
            BY <3>1 DEF Acquire, Refuse, SkipSame, TakeUp, Prune, SweepFile, Publish, Reread,
                        RewriteSummary, Control, Collecting, local
        <3>2. CASE Place(p) \/ Store(p) \/ EndPrune(p)
            BY <3>2 DEF Place, Store, EndPrune, GiveUpContents, PlaceAt, Control, Collecting
        <3>3. CASE GCList(p) \/ GCSwept(p) \/ GCRewrite(p)
            BY <3>3 DEF GCList, GCSwept, GCRewrite, Control, Collecting, local
        <3> QED
            BY <1>5, <3>1, <3>2, <3>3 DEF Step
    <2> QED
        BY <1>1, <1>2, <1>3, <2>1
<1>6. ASSUME NEW p \in Proc, Tear(p) \/ Stop(p) PROVE Requested'
    BY <1>1, <1>6 DEF Tear, Stop
<1>7. CASE UNCHANGED vars \/ Finished
    BY <1>3, <1>7 DEF vars, local, Finished
<1> QED
    BY <1>4, <1>5, <1>6, <1>7 DEF Next

-----------------------------------------------------------------------------
(* What a summary was counted against, where one process has the directory   *)
(* to itself.                                                                *)

\* The base a new revision's summary may have.
Fresh(b) == b \in {Initial, NoBase} \/ \E d \in log : IsLast(d, log) /\ b = d.line

\* A Recorder's base, if it has one, is still the newest revision when it
\* publishes.
Measured ==
    \A p \in Proc :
        cur[p].remember /\ pc[p] \in {"acquire", "read"} \cup Appending
            => Fresh(cur[p].base)

(* Nothing is under way.                                                      *)
LEMMA MeasuredInit == Init => Measured
BY DEF Init, Measured, Appending

(* Between Record and Publish nobody else changes the log.                    *)
LEMMA MeasuredStep ==
    ASSUME Alone, TypeOK, Measured, [Next]_vars
    PROVE  Measured'
<1>1. ASSUME NEW p \in Proc, pc'[p] \notin Appending \cup {"acquire", "read"} PROVE Measured'
    BY <1>1 DEF Measured, Alone
<1>2. ASSUME NEW p \in Proc, UNCHANGED file,
             cur'[p].base = cur[p].base, cur'[p].remember = cur[p].remember,
             \/ pc'[p] = pc[p]
             \/ pc[p] \in {"acquire", "read"} /\ pc'[p] = "read"
             \/ pc[p] \in Appending /\ pc'[p] \in Appending
      PROVE  Measured'
    <2>1. \A q \in Proc : q = p
        BY DEF Alone
    <2>2. \A b : Fresh(b)' <=> Fresh(b)
        BY <1>2 DEF Fresh, IsLast, file
    <2>3. "acquire" \notin Appending /\ "read" \notin Appending
        BY DEF Appending
    <2> QED
        BY <1>2, <2>1, <2>2, <2>3 DEF Measured
<1>3. ASSUME NEW p \in Proc, NEW o \in Observation, Record(p, o) PROVE Measured'
    <2>1. PICK base \in {Initial} \cup (IF Readable THEN BasesOf(log) ELSE {}) :
              cur' = [cur EXCEPT ![p] = [Blank EXCEPT !.obs = o, !.base = base,
                                                      !.remember = TRUE]]
        BY <1>3 DEF Record
    <2>2. cur'[p].base = base
        BY <2>1 DEF TypeOK, Blank
    <2>3. log' = log
        BY <1>3 DEF Record, file
    <2>4. Fresh(base)
        BY <2>1 DEF BasesOf, Fresh
    <2>5. Fresh(cur[p].base)'
        BY <2>2, <2>3, <2>4 DEF Fresh, IsLast
    <2>6. \A q \in Proc : q = p
        BY DEF Alone
    <2> QED
        BY <2>5, <2>6 DEF Measured
<1>r. ASSUME NEW p \in Proc, Return(p) PROVE Measured'
    <2>1. pc'[p] = "idle"
        BY <1>r DEF Return, Goto, TypeOK
    <2> QED
        BY <1>1, <2>1 DEF Appending
<1>4. ASSUME NEW p \in Proc, Begin(p) PROVE Measured'
    <2>1. ASSUME NEW o \in Observation, RecordAgain(p, o) PROVE Measured'
        BY <1>2, <2>1 DEF RecordAgain, local
    <2>2. ASSUME NEW o \in Observation, Import(p, o) PROVE Measured'
        <3>1. PICK base : cur' = [cur EXCEPT ![p] = [Blank EXCEPT !.obs = o, !.base = base]]
            BY <2>2 DEF Import
        <3>2. ~cur'[p].remember
            BY <3>1 DEF TypeOK, Blank
        <3> QED
            BY <3>2 DEF Measured, Alone
    <2>3. ASSUME Mend(p) \/ \E o \in Passes : Collect(p, o) PROVE Measured'
        <3>1. pc'[p] \in {"mend", "gcList"}
            BY <2>3 DEF Mend, Collect, Goto, TypeOK
        <3> QED
            BY <1>1, <3>1 DEF Appending
    <2> QED
        BY <1>3, <1>4, <2>1, <2>2, <2>3 DEF Begin
<1>5. ASSUME NEW p \in Proc, Acquire(p) PROVE Measured'
    <2>1. CASE pc[p] = "acquire"
        <3>1. pc'[p] = "read" /\ cur' = cur
            BY <1>5, <2>1 DEF Acquire, Goto, TypeOK, local
        <3> QED
            BY <1>2, <1>5, <2>1, <3>1 DEF Acquire
    <2>2. CASE pc[p] # "acquire"
        <3>1. pc'[p] = "reread"
            BY <1>5, <2>2 DEF Acquire, Goto, TypeOK
        <3> QED
            BY <1>1, <3>1 DEF Appending
    <2> QED
        BY <2>1, <2>2
<1>6. ASSUME NEW p \in Proc, TakeUp(p) PROVE Measured'
    <2>1. /\ pc[p] = "read" /\ log' = log
          /\ cur'[p].base = cur[p].base /\ cur'[p].remember = cur[p].remember
          /\ pc'[p] \in {"place", "publish"}
        BY <1>6 DEF TakeUp, Goto, TypeOK, Draft
    <2>2. cur'[p].remember => Fresh(cur[p].base)'
        BY <2>1 DEF Measured, Fresh, IsLast
    <2>3. \A q \in Proc : q = p
        BY DEF Alone
    <2> QED
        BY <2>1, <2>2, <2>3 DEF Measured
<1>7. ASSUME NEW p \in Proc, Place(p) \/ Store(p) \/ Prune(p) \/ EndPrune(p) PROVE Measured'
    <2>1. pc[p] \in Appending /\ UNCHANGED file
        BY <1>7 DEF Place, Store, Prune, EndPrune, Appending
    <2>2. \/ GiveUpContents(p)
          \/ \E a, id : PlaceAt(p, a, id)
          \/ UNCHANGED cur /\ \E at \in {"prune", "sweep", "publish"} : Goto(p, at)
        BY <1>7 DEF Place, Store, Prune, EndPrune
    <2>3. CASE GiveUpContents(p)
        <3>1. /\ cur'[p].base = cur[p].base /\ cur'[p].remember = cur[p].remember
              /\ pc'[p] = "publish"
            BY <2>3 DEF GiveUpContents, Goto, TypeOK, Draft
        <3> QED
            BY <1>2, <2>1, <3>1 DEF Appending
    <2>4. ASSUME NEW a, NEW id, PlaceAt(p, a, id) PROVE Measured'
        <3>1. /\ cur'[p].base = cur[p].base /\ cur'[p].remember = cur[p].remember
              /\ pc'[p] = "store"
            BY <2>4 DEF PlaceAt, Goto, TypeOK, Draft
        <3> QED
            BY <1>2, <2>1, <3>1 DEF Appending
    <2>5. CASE UNCHANGED cur /\ \E at \in {"prune", "sweep", "publish"} : Goto(p, at)
        <3>1. /\ cur'[p].base = cur[p].base /\ cur'[p].remember = cur[p].remember
              /\ pc'[p] \in {"prune", "sweep", "publish"}
            BY <2>5 DEF Goto, TypeOK
        <3> QED
            BY <1>2, <2>1, <3>1 DEF Appending
    <2> QED
        BY <2>2, <2>3, <2>4, <2>5
<1>8. ASSUME NEW p \in Proc, SweepFile(p) PROVE Measured'
    BY <1>2, <1>8 DEF SweepFile, local
<1>9. ASSUME NEW p \in Proc,
             \/ Refuse(p) \/ SkipSame(p) \/ Publish(p) \/ RewriteSummary(p) \/ GCRewrite(p)
             \/ Tear(p) \/ Stop(p)
      PROVE  Measured'
    BY <1>r, <1>9 DEF Refuse, SkipSame, Publish, RewriteSummary, GCRewrite, Tear, Stop
<1>10. ASSUME NEW p \in Proc, Reread(p) \/ GCList(p) \/ GCSwept(p) PROVE Measured'
    <2>1. CASE ~Return(p)
        <3>1. pc'[p] \in {"rewrite", "gcSweep", "gcRewrite"}
            BY <1>10, <2>1 DEF Reread, GCList, GCSwept, Goto, TypeOK
        <3> QED
            BY <1>1, <3>1 DEF Appending
    <2> QED
        BY <1>r, <2>1
<1>11. CASE UNCHANGED vars \/ Finished
    BY <1>11 DEF Measured, Fresh, IsLast, Finished, vars, file, local
<1> QED
    BY <1>4, <1>5, <1>6, <1>7, <1>8, <1>9, <1>10, <1>11 DEF Next, Step

(* Where one process has the directory to itself, a delta that a Recorder     *)
(* counted is measured against the revision it is appended after: none is     *)
(* recorded, imported, evicted, mended or collected between Record and the    *)
(* append, and a call that dies there leaves no base behind. Two processes    *)
(* may interleave, since Record holds no lock.                                *)
THEOREM SummaryBase ==
    ASSUME Alone
    PROVE  Spec => SummaryAgainstPrevious
<1> DEFINE Inv == TypeInv /\ SerialInv /\ Measured
<1>1. Init => Inv
    BY TypeInit, SerialInit, MeasuredInit
<1>2. Inv /\ [Next]_vars => Inv'
    BY TypeStep, SerialStep, MeasuredStep DEF TypeInv, Undisturbed
<1>3. Inv /\ [Next]_vars =>
         [\A p \in Proc, e \in log' :
              pc[p] = "publish" /\ cur[p].remember /\ e.line > lines =>
              \/ e.base \in {Initial, NoBase}
              \/ \E d \in log : IsLast(d, log) /\ e.base = d.line]_vars
    <2> SUFFICES ASSUME Inv, [Next]_vars, NEW q \in Proc, NEW e \in log',
                        cur[q].remember, e.line > lines
                 PROVE  Fresh(e.base)
        BY DEF Fresh
    <2>1. \A d \in log : ~(d.line > lines)
        BY DEF SerialInv, Placed, TypeInv, TypeOK, Entry
    <2>2. ASSUME NEW p \in Proc, Publish(p) PROVE Fresh(e.base)
        <3>1. pc[p] \in Appending /\ view[p] = log
            BY <2>2 DEF Publish, SerialInv, Current, Relying, Appending
        <3>2. log' \subseteq log \cup {Header(p)}
            BY <2>2, <3>1, RetainedTypes DEF Publish, Rewrite
        <3>3. e.base = cur[p].base
            BY <2>1, <3>2 DEF Header
        <3>4. p = q
            BY DEF Alone
        <3> QED
            BY <3>1, <3>3, <3>4 DEF Measured
    <2>3. ASSUME NEW p \in Proc, RewriteSummary(p) PROVE FALSE
        <3>1. view[p] = log
            BY <2>3 DEF RewriteSummary, SerialInv, Current, Relying
        <3>2. log \subseteq Entry
            BY DEF TypeInv, TypeOK
        <3>3. log' = (log \ Target(p, log))
                        \cup {[d EXCEPT !.base = cur[p].base] : d \in Target(p, log)}
            BY <2>3, <3>1 DEF RewriteSummary, Rewrite
        <3>4. \E d \in log : d.line = e.line
            BY <3>2, <3>3 DEF Target, Entry
        <3> QED
            BY <2>1, <3>4
    <2>4. ASSUME NEW p \in Proc, GCRewrite(p) PROVE FALSE
        BY <2>1, <2>4 DEF GCRewrite, Rewrite, GCKept, SerialInv, Current, Relying, Collecting
    <2>5. ASSUME NEW p \in Proc, Begin(p) \/ Tear(p) \/ Stop(p) PROVE log' = log
        BY <2>5 DEF Begin, Record, RecordAgain, Import, Mend, Collect, Tear, Stop, file
    <2>6. ASSUME NEW p \in Proc, Step(p), ~Publish(p), ~RewriteSummary(p), ~GCRewrite(p)
          PROVE  log' = log
        BY <2>6 DEF Step, Acquire, Refuse, SkipSame, TakeUp, Place, Store, Prune, SweepFile,
                    EndPrune, Reread, GCList, GCSwept, file
    <2>7. CASE UNCHANGED vars \/ Finished
        BY <2>1, <2>7 DEF vars, file, Finished
    <2> QED
        BY <2>1, <2>2, <2>3, <2>4, <2>5, <2>6, <2>7 DEF Next
<1> QED
    BY <1>1, <1>2, <1>3, PTL DEF Spec, SummaryAgainstPrevious

-----------------------------------------------------------------------------
(* Retention.                                                                *)

Distinct(S) == \A d, e \in S : d.line = e.line => d = e

(* The newest k entries are at most k: what evictWorking and capRevisions     *)
(* keep is within the number they are asked to keep.                          *)
LEMMA NewestBounds ==
    ASSUME NEW S, S \subseteq Entry, IsFiniteSet(S), Distinct(S), NEW k \in Int
    PROVE  /\ Newest(S, k) \subseteq S
           /\ IsFiniteSet(Newest(S, k))
           /\ Cardinality(Newest(S, k)) \in Nat
           /\ k >= 0 => Cardinality(Newest(S, k)) <= k
<1> DEFINE T == Newest(S, k)
<1>1. T \subseteq S
    BY DEF Newest
<1>2. IsFiniteSet(T)
    BY <1>1, FS_Subset
<1>3. CASE T = {}
    BY <1>1, <1>2, <1>3, FS_EmptySet
<1>4. CASE T # {}
    <2> DEFINE L == {e.line : e \in T}
    <2>1. L \subseteq Nat /\ L # {}
        BY <1>1, <1>4 DEF Entry
    <2>2. PICK l \in L : \A n \in L : ~(<<n, l>> \in OpToRel(<, Nat))
        BY <2>1, WFMin, NatLessThanWellFounded
    <2>3. \A n \in L : ~(n < l)
        BY <2>1, <2>2 DEF OpToRel
    <2>4. PICK m \in T : m.line = l
        BY <2>2
    <2> DEFINE R == {d \in S : d.line > m.line}
    <2>5. Cardinality(R) < k
        BY <2>4 DEF Newest
    <2>6. \A e \in T : e # m => e.line > m.line
        <3> SUFFICES ASSUME NEW e \in T, e # m PROVE e.line > m.line
            OBVIOUS
        <3>1. e.line \in Nat /\ m.line \in Nat
            BY <1>1 DEF Entry
        <3>2. e.line # m.line
            BY <1>1 DEF Distinct
        <3>3. ~(e.line < m.line)
            BY <2>3, <2>4
        <3> QED
            BY <3>1, <3>2, <3>3
    <2>7. T \ {m} \in SUBSET R
        BY <1>1, <2>6
    <2>8. IsFiniteSet(R)
        BY FS_Subset
    <2>9. Cardinality(T \ {m}) <= Cardinality(R)
        BY <2>7, <2>8, FS_Subset
    <2>10. Cardinality(T \ {m}) = Cardinality(T) - 1
        BY <1>2, <2>4, FS_RemoveElement
    <2>11. Cardinality(T) \in Nat /\ Cardinality(R) \in Nat
        BY <1>2, <2>8, FS_CardinalityType
    <2>12. Cardinality(T) <= k /\ k > 0
        BY <2>5, <2>9, <2>10, <2>11
    <2> QED
        BY <1>1, <1>2, <2>11, <2>12
<1> QED
    BY <1>3, <1>4

(* Adding a header to a log makes it longer by one line at most.              *)
LEMMA OneMore ==
    ASSUME NEW S, IsFiniteSet(S), NEW x
    PROVE  /\ IsFiniteSet(S \cup {x})
           /\ Cardinality(S) \in Nat /\ Cardinality(S \cup {x}) \in Nat
           /\ Cardinality(S \cup {x}) <= Cardinality(S) + 1
<1>1. IsFiniteSet(S \cup {x}) /\ Cardinality(S) \in Nat /\ Cardinality(S \cup {x}) \in Nat
    BY FS_AddElement, FS_CardinalityType
<1>2. CASE x \in S
    BY <1>1, <1>2, FS_AddElement
<1>3. CASE x \notin S
    BY <1>1, <1>3, FS_AddElement
<1> QED
    BY <1>1, <1>2, <1>3

(* A set whose members take distinct lines of S has no more members than S.   *)
LEMMA SameLines ==
    ASSUME NEW S, NEW T, IsFiniteSet(S), Distinct(T),
           \A e \in T : \E d \in S : d.line = e.line
    PROVE  IsFiniteSet(T) /\ Cardinality(T) <= Cardinality(S)
<1> DEFINE f == [e \in T |-> CHOOSE d \in S : d.line = e.line]
<1>1. \A e \in T : f[e] \in S /\ f[e].line = e.line
    OBVIOUS
<1>2. f \in [T -> S]
    BY <1>1
<1> HIDE DEF f
<1>3. f \in Injection(T, S)
    BY <1>1, <1>2 DEF Injection, IsInjective, Distinct
<1> QED
    BY <1>3, FS_Injection

\* The caps hold of S.
Caps(S) ==
    /\ RevisionKeep > 0 => Cardinality(S) <= RevisionKeep
    /\ WorkingKeep > 0 =>
         \A e \in S : Working(e) => Cardinality(Rivals(S, e)) <= WorkingKeep

\* WithinCaps is inductive together with what makes lines countable.
CapsInv == IsFiniteSet(log) /\ Distinct(log) /\ WithinCaps

(* An empty log is within the caps.                                           *)
LEMMA CapsInit == Init => CapsInv
<1> SUFFICES ASSUME Init PROVE CapsInv
    OBVIOUS
<1>1. log = {}
    BY DEF Init
<1> QED
    BY <1>1, FS_EmptySet, ConstantsOK DEF CapsInv, Distinct, WithinCaps, Caps

(* Append, with the log as it read it: both caps hold once the header is in. *)
LEMMA RetainedWithinCaps ==
    ASSUME TypeOK, CapsInv, NEW c \in Draft, NEW h, h.obs = c.obs
    PROVE  /\ IsFiniteSet(Retained(log, c) \cup {h})
           /\ Caps(Retained(log, c) \cup {h})
<1> DEFINE E == EvictWorking(log, c)
           K == Retained(log, c)
           N == K \cup {h}
           Riv == Rivals(log, c)
<1> USE DEF CapsInv
<1>0. K \subseteq log /\ E \subseteq log /\ K \subseteq E
    BY DEF Retained, CapRevisions, EvictWorking, Newest, Rivals
<1>1. /\ IsFiniteSet(K) /\ IsFiniteSet(E) /\ IsFiniteSet(N)
      /\ Cardinality(N) <= Cardinality(K) + 1
      /\ Cardinality(N) \in Nat /\ Cardinality(K) \in Nat
    <2>1. IsFiniteSet(K) /\ IsFiniteSet(E)
        BY <1>0, FS_Subset
    <2> QED
        BY <2>1, OneMore
<1>2. ASSUME RevisionKeep > 0
      PROVE  Cardinality(N) <= RevisionKeep
    <2>1. E \subseteq Entry /\ Distinct(E)
        BY <1>0 DEF TypeOK, Distinct
    <2>2. K = Newest(E, RevisionKeep - 1)
        BY <1>2, ConstantsOK DEF Retained, CapRevisions
    <2>3. RevisionKeep \in Int /\ RevisionKeep - 1 >= 0 /\ RevisionKeep - 1 \in Int
        BY <1>2, ConstantsOK
    <2>4. Cardinality(Newest(E, RevisionKeep - 1)) <= RevisionKeep - 1
        BY <1>1, <2>1, <2>3, NewestBounds
    <2>5. Cardinality(K) <= RevisionKeep - 1
        BY <2>2, <2>4
    <2> HIDE DEF K, N
    <2> QED
        BY <1>1, <2>3, <2>5
<1>3. ASSUME WorkingKeep > 0, NEW e \in N, Working(e)
      PROVE  Cardinality(Rivals(N, e)) <= WorkingKeep
    <2>1. CASE Working(h) /\ e.obs.commit = h.obs.commit
        <3> DEFINE New == Newest(Riv, WorkingKeep - 1)
        <3>1. Riv \subseteq log /\ Riv \subseteq Entry /\ Distinct(Riv)
            BY DEF Rivals, TypeOK, Distinct
        <3>0. WorkingKeep \in Int /\ WorkingKeep - 1 >= 0 /\ WorkingKeep - 1 \in Int
            BY <1>3, ConstantsOK
        <3>2. IsFiniteSet(Riv)
            BY <3>1, FS_Subset
        <3>3. IsFiniteSet(New) /\ Cardinality(New) <= WorkingKeep - 1
            BY <3>0, <3>1, <3>2, NewestBounds
        <3>4. E = (log \ Riv) \cup New
            BY <1>3, <2>1, ConstantsOK DEF EvictWorking, Working
        <3>5. Rivals(N, e) \subseteq New \cup {h}
            BY <1>0, <2>1, <3>4 DEF Rivals
        <3>7. /\ IsFiniteSet(New \cup {h})
              /\ Cardinality(New) \in Nat /\ Cardinality(New \cup {h}) \in Nat
              /\ Cardinality(New \cup {h}) <= Cardinality(New) + 1
            BY <3>3, OneMore
        <3>8. /\ IsFiniteSet(Rivals(N, e))
              /\ Cardinality(Rivals(N, e)) <= Cardinality(New \cup {h})
            BY <3>5, <3>7, FS_Subset
        <3>9. Cardinality(Rivals(N, e)) \in Nat
            BY <3>8, FS_CardinalityType
        <3> HIDE DEF New, N
        <3> QED
            BY <3>0, <3>3, <3>7, <3>8, <3>9
    <2>2. CASE ~(Working(h) /\ e.obs.commit = h.obs.commit)
        <3>1. e \in log
            BY <1>0, <1>3, <2>2
        <3>2. Rivals(N, e) \in SUBSET Rivals(log, e)
            BY <1>0, <2>2 DEF Rivals
        <3>3. IsFiniteSet(Rivals(log, e))
            BY FS_Subset DEF Rivals
        <3>4. Cardinality(Rivals(N, e)) <= Cardinality(Rivals(log, e))
            BY <3>2, <3>3, FS_Subset
        <3>5. Cardinality(Rivals(log, e)) <= WorkingKeep
            BY <1>3, <3>1 DEF WithinCaps, Caps
        <3>6. /\ Cardinality(Rivals(N, e)) \in Nat
              /\ Cardinality(Rivals(log, e)) \in Nat
            BY <3>2, <3>3, FS_Subset, FS_CardinalityType
        <3> QED
            BY <3>4, <3>5, <3>6, ConstantsOK
    <2> QED
        BY <2>1, <2>2
<1>4. Caps(N)
    BY <1>2, <1>3 DEF Caps
<1> QED
    BY <1>1, <1>4

(* Every step keeps the log finite, one entry a line and within the caps.     *)
LEMMA CapsStep ==
    ASSUME TypeInv, SerialInv, CapsInv, [Next]_vars
    PROVE  CapsInv'
<1> USE DEF TypeInv
<1>1. CASE log' = log
    BY <1>1 DEF CapsInv, WithinCaps
<1>2. ASSUME NEW p \in Proc, Publish(p), log' # log PROVE CapsInv'
    <2>1. view[p] = log /\ cur[p] \in Draft
        BY <1>2 DEF Publish, SerialInv, Current, Relying, Appending, TypeOK
    <2>2. log' = Retained(log, cur[p]) \cup {Header(p)}
        BY <1>2, <2>1 DEF Publish, Rewrite
    <2>3. Header(p).obs = cur[p].obs /\ Header(p).line = lines + 1
        BY DEF Header
    <2>4. IsFiniteSet(log') /\ Caps(log')
        BY <2>1, <2>2, <2>3, RetainedWithinCaps
    <2>5. \A e \in log : e.line # lines + 1
        BY DEF SerialInv, Placed, TypeOK, Entry
    <2>6. Distinct(log')
        BY <2>2, <2>3, <2>5, RetainedTypes DEF CapsInv, Distinct
    <2> QED
        BY <2>4, <2>6 DEF CapsInv, WithinCaps, Caps, Rivals, Working
<1>3. ASSUME NEW p \in Proc, RewriteSummary(p) PROVE CapsInv'
    <2> DEFINE old == Target(p, log)
               new == {[e EXCEPT !.base = cur[p].base] : e \in old}
    <2>1. log' = (log \ old) \cup new /\ old \subseteq log
        BY <1>3 DEF RewriteSummary, Rewrite, SerialInv, Current, Relying, Target
    <2>2. \A e \in new : \E d \in old : /\ e.line = d.line /\ e.obs = d.obs
                                        /\ e = [d EXCEPT !.base = cur[p].base]
        BY <2>1 DEF TypeOK, Entry
    <2>3. \A e \in log' : \E d \in log : e.line = d.line /\ e.obs = d.obs
        BY <2>1, <2>2
    <2>4. Distinct(log')
        BY <2>1, <2>2 DEF CapsInv, Distinct
    <2>5. IsFiniteSet(log') /\ Cardinality(log') <= Cardinality(log)
        BY <2>3, <2>4, SameLines DEF CapsInv
    <2>6. Cardinality(log') \in Nat /\ Cardinality(log) \in Nat
        BY <2>5, FS_CardinalityType DEF CapsInv
    <2>7. RevisionKeep > 0 => Cardinality(log') <= RevisionKeep
        BY <2>5, <2>6, ConstantsOK DEF CapsInv, WithinCaps, Caps
    <2>8. ASSUME WorkingKeep > 0, NEW e \in log', Working(e)
          PROVE  Cardinality(Rivals(log', e)) <= WorkingKeep
        <3>1. PICK d \in log : e.obs = d.obs
            BY <2>3
        <3>2. Working(d) /\ Rivals(log, d) \subseteq log
            BY <2>8, <3>1 DEF Working, Rivals
        <3>3. Cardinality(Rivals(log, d)) <= WorkingKeep /\ IsFiniteSet(Rivals(log, d))
            BY <2>8, <3>2, FS_Subset DEF CapsInv, WithinCaps, Caps
        <3>4. \A x \in Rivals(log', e) : \E y \in Rivals(log, d) : y.line = x.line
            BY <2>3, <3>1 DEF Rivals, Working
        <3>5. Distinct(Rivals(log', e))
            BY <2>4 DEF Distinct, Rivals
        <3>6. /\ IsFiniteSet(Rivals(log', e))
              /\ Cardinality(Rivals(log', e)) <= Cardinality(Rivals(log, d))
            BY <3>3, <3>4, <3>5, SameLines
        <3>7. Cardinality(Rivals(log', e)) \in Nat /\ Cardinality(Rivals(log, d)) \in Nat
            BY <3>3, <3>6, FS_CardinalityType
        <3> QED
            BY <3>3, <3>6, <3>7, ConstantsOK
    <2>9. WithinCaps'
        BY <2>7, <2>8 DEF WithinCaps, Rivals, Working
    <2> QED
        BY <2>4, <2>5, <2>9 DEF CapsInv
<1>4. ASSUME NEW p \in Proc, Begin(p) PROVE log' = log
    BY <1>4 DEF Begin, Record, RecordAgain, Import, Mend, Collect, file
<1>5. ASSUME NEW p \in Proc, Tear(p) \/ Stop(p) PROVE log' = log
    BY <1>5 DEF Tear, Stop, file
<1>6. ASSUME NEW p \in Proc, Step(p), ~Publish(p), ~RewriteSummary(p), ~GCRewrite(p)
      PROVE  log' = log
    BY <1>6 DEF Step, Acquire, Refuse, SkipSame, TakeUp, Place, Store, Prune, SweepFile,
                EndPrune, Reread, GCList, GCSwept, file
<1>8. ASSUME NEW p \in Proc, GCRewrite(p) PROVE CapsInv'
    <2>1. log' \subseteq log
        BY <1>8 DEF GCRewrite, Rewrite, GCKept, SerialInv, Current, Relying, Collecting
    <2>2. IsFiniteSet(log') /\ Distinct(log')
        BY <2>1, FS_Subset DEF CapsInv, Distinct
    <2>3. /\ Cardinality(log') <= Cardinality(log)
          /\ Cardinality(log') \in Nat /\ Cardinality(log) \in Nat
        BY <2>1, <2>2, FS_Subset, FS_CardinalityType DEF CapsInv
    <2>4. RevisionKeep > 0 => Cardinality(log') <= RevisionKeep
        BY <2>3, ConstantsOK DEF CapsInv, WithinCaps
    <2>5. ASSUME WorkingKeep > 0, NEW e \in log', Working(e)
          PROVE  Cardinality(Rivals(log', e)) <= WorkingKeep
        <3>1. Rivals(log', e) \subseteq Rivals(log, e) /\ IsFiniteSet(Rivals(log, e))
            BY <2>1, FS_Subset DEF CapsInv, Rivals
        <3>2. /\ Cardinality(Rivals(log', e)) <= Cardinality(Rivals(log, e))
              /\ Cardinality(Rivals(log', e)) \in Nat /\ Cardinality(Rivals(log, e)) \in Nat
            BY <3>1, FS_Subset, FS_CardinalityType
        <3>3. Cardinality(Rivals(log, e)) <= WorkingKeep
            BY <2>1, <2>5 DEF CapsInv, WithinCaps
        <3> QED
            BY <3>2, <3>3, ConstantsOK
    <2>6. WithinCaps'
        BY <2>4, <2>5 DEF WithinCaps, Rivals, Working
    <2> QED
        BY <2>2, <2>6 DEF CapsInv
<1>7. CASE UNCHANGED vars \/ Finished
    BY <1>1, <1>7 DEF vars, file, Finished
<1> QED
    BY <1>1, <1>2, <1>3, <1>4, <1>5, <1>6, <1>7, <1>8 DEF Next

(* Both caps hold at all times: the incoming revision's slot is counted, a    *)
(* rewritten summary adds no line, and a collection brings none back. For one *)
(* process, and for any number of them that get the lock and do not collect.  *)
THEOREM RetentionHolds ==
    ASSUME Undisturbed
    PROVE  Spec => []WithinCaps
<1> DEFINE Inv == TypeInv /\ SerialInv /\ CapsInv
<1>1. Init => Inv
    BY TypeInit, SerialInit, CapsInit
<1>2. Inv /\ [Next]_vars => Inv'
    BY TypeStep, SerialStep, CapsStep
<1>3. Inv => WithinCaps
    BY DEF CapsInv
<1> QED
    BY <1>1, <1>2, <1>3, PTL DEF Spec

-----------------------------------------------------------------------------
(* What a summary is a delta from, when it is repaired while others append. *)

Prior(d, e) == d.line < e.line \/ d.obs.at < e.obs.at

Mending == {"mend", "reread", "rewrite"}

\* A repair decided on an old log still means the line it was decided for: the
\* number it looks for is not one that will be given out, and the base comes
\* before the line that has it.
Decided(p) ==
    /\ \E e \in log : cur[p].seq <= e.seq
    /\ \A d, e \in log :
          e.seq = cur[p].seq /\ d.line = cur[p].base => Prior(d, e)

DeltaInv ==
    /\ \A e \in log : e.line > 0 /\ e.base <= lines
    /\ \A p \in Proc : cur[p].base <= lines
    /\ \A d, e \in log : e.base = d.line => Prior(d, e)
    /\ \A p \in Proc : pc[p] \in Mending => Decided(p)

(* An empty log, and no repair under way.                                     *)
LEMMA DeltaInit == Init => DeltaInv
BY DEF Init, DeltaInv, Mending, Blank, Initial

(* A step of p that leaves the log alone and gives p no new base.             *)
LEMMA DeltaQuiet ==
    ASSUME TypeOK, DeltaInv, NEW p \in Proc, UNCHANGED <<log, lines>>,
           \A q \in Proc \ {p} : cur'[q] = cur[q] /\ pc'[q] = pc[q],
           cur'[p].base <= lines,
           pc'[p] \in Mending => pc[p] \in Mending /\ cur'[p] = cur[p]
    PROVE  DeltaInv'
<1>1. \A q \in Proc : cur'[q].base <= lines'
    BY DEF DeltaInv
<1>2. \A q \in Proc : pc'[q] \in Mending => pc[q] \in Mending /\ cur'[q] = cur[q]
    OBVIOUS
<1>3. \A q \in Proc : pc'[q] \in Mending => Decided(q)'
    BY <1>2 DEF DeltaInv, Decided, Prior
<1> QED
    BY <1>1, <1>3 DEF DeltaInv, Prior

(* What a returned call leaves behind is blank.                               *)
LEMMA DeltaReturned ==
    ASSUME TypeOK, NEW p \in Proc, Return(p)
    PROVE  /\ cur'[p].base = 0 /\ pc'[p] = "idle" /\ pc'[p] \notin Mending
           /\ \A q \in Proc \ {p} : cur'[q] = cur[q] /\ pc'[q] = pc[q]
BY DEF Return, Goto, TypeOK, Blank, Initial, Mending

(* The lines of a log keep their order, numbers and observations: so does     *)
(* what was decided about them.                                               *)
LEMMA DeltaKept ==
    ASSUME TypeOK, TypeOK', NEW q \in Proc, Decided(q), cur'[q] = cur[q],
           \A e \in log' : \E d \in log : d.line = e.line /\ d.seq = e.seq /\ d.obs = e.obs,
           \A e \in log : \E d \in log' : d.seq = e.seq
    PROVE  Decided(q)'
<1>1. \E e \in log' : cur[q].seq <= e.seq
    BY DEF Decided
<1>2. ASSUME NEW d \in log', NEW e \in log', e.seq = cur[q].seq, d.line = cur[q].base
      PROVE  Prior(d, e)
    <2>1. PICK d0 \in log : d0.line = d.line /\ d0.obs = d.obs
        OBVIOUS
    <2>2. PICK e0 \in log : e0.line = e.line /\ e0.seq = e.seq /\ e0.obs = e.obs
        OBVIOUS
    <2>3. Prior(d0, e0)
        BY <1>2, <2>1, <2>2 DEF Decided
    <2> QED
        BY <2>1, <2>2, <2>3 DEF Prior
<1> QED
    BY <1>1, <1>2 DEF Decided, Prior

(* A new header is above every number a repair may look for, and below every  *)
(* line a base may name.                                                      *)
LEMMA DeltaPublished ==
    ASSUME Undisturbed, TypeInv, SerialInv, DeltaInv, NEW p \in Proc, Publish(p), TypeOK'
    PROVE  DeltaInv'
<1> USE DEF TypeInv
<1>1. /\ pc[p] = "publish" /\ view[p] = log /\ \A e \in log : e.seq < cur[p].seq
      /\ Alone \/ lock = p
    BY DEF Publish, SerialInv, Current, Numbered, Held, Relying, Appending, Critical
<1>2. CASE UNCHANGED <<log, lines>>
    <2>1. cur'[p].base <= lines
        BY DeltaReturned DEF Publish, TypeOK
    <2> QED
        BY <1>2, <2>1, DeltaReturned, DeltaQuiet DEF Publish
<1>3. CASE ~UNCHANGED <<log, lines>>
    <2>1. /\ log' \subseteq log \cup {Header(p)} /\ Header(p) \in log'
          /\ lines' = lines + 1
        BY <1>1, <1>3, RetainedTypes DEF Publish, Rewrite
    <2>2. /\ Header(p).line = lines + 1 /\ Header(p).seq = cur[p].seq
          /\ Header(p).base = cur[p].base /\ Header(p).base <= lines
        BY DEF Header, DeltaInv
    <2>3. /\ lines \in Nat
          /\ \A e \in log : e.line <= lines /\ e.line \in Nat /\ e.base \in Int /\ e.seq \in Nat
          /\ \A q \in Proc : cur[q].base \in Int /\ cur[q].seq \in Nat
        BY DEF TypeOK, Entry, Draft, SerialInv, Placed
    <2>4. \A e \in log' : e.line > 0 /\ e.base <= lines'
        BY <2>1, <2>2, <2>3 DEF DeltaInv
    <2>5. \A q \in Proc : cur'[q].base <= lines'
        BY <2>1, <2>3, DeltaReturned DEF DeltaInv, Publish
    <2>6. ASSUME NEW d \in log', NEW e \in log', e.base = d.line PROVE Prior(d, e)
        <3>1. CASE e \in log
            <4>1. d \in log
                BY <2>1, <2>2, <2>3, <2>6, <3>1 DEF DeltaInv
            <4> QED
                BY <2>6, <3>1, <4>1 DEF DeltaInv
        <3>2. CASE e = Header(p)
            BY <2>2, <2>3, <2>6, <3>2 DEF Prior
        <3> QED
            BY <2>1, <3>1, <3>2
    <2>7. ASSUME NEW q \in Proc, pc'[q] \in Mending PROVE Decided(q)'
        <3>1. q # p /\ pc[q] \in Mending /\ cur'[q] = cur[q] /\ Decided(q)
            BY <2>7, DeltaReturned DEF Publish, DeltaInv
        <3>2. PICK e \in log : cur[q].seq <= e.seq
            BY <3>1 DEF Decided
        <3>3. cur[q].seq < Header(p).seq
            BY <1>1, <2>2, <2>3, <3>2
        <3>4. \A d, t \in log' : t.seq = cur[q].seq /\ d.line = cur[q].base
                                    => d \in log /\ t \in log
            BY <2>1, <2>2, <2>3, <3>3 DEF DeltaInv
        <3>5. \E t \in log' : cur[q].seq <= t.seq
            BY <2>1, <2>2, <2>3, <3>3
        <3> QED
            BY <3>1, <3>4, <3>5 DEF Decided, Prior
    <2> QED
        BY <2>4, <2>5, <2>6, <2>7 DEF DeltaInv, Prior
<1> QED
    BY <1>2, <1>3

(* RewriteSummary changes the base of the line the repair was decided for.    *)
LEMMA DeltaMended ==
    ASSUME TypeInv, SerialInv, DeltaInv, NEW p \in Proc, RewriteSummary(p), TypeOK'
    PROVE  DeltaInv'
<1> USE DEF TypeInv
<1> DEFINE old == Target(p, log)
           new == {[e EXCEPT !.base = cur[p].base] : e \in old}
<1>1. /\ log' = (log \ old) \cup new /\ lines' = lines /\ Return(p)
      /\ pc[p] = "rewrite"
    BY DEF RewriteSummary, Rewrite, SerialInv, Current, Relying
<1>2. Decided(p)
    BY <1>1 DEF DeltaInv, Mending
<1>3. /\ \A e \in old : e \in log /\ e.seq = cur[p].seq
      /\ \A e \in log : e \in Entry
    BY DEF Target, TypeOK
<1>4. ASSUME NEW e \in log'
      PROVE  \E d \in log : /\ d.line = e.line /\ d.seq = e.seq /\ d.obs = e.obs
                            /\ \/ d = e
                               \/ d.seq = cur[p].seq /\ e.base = cur[p].base
    <2>1. CASE e \in log
        BY <2>1
    <2>2. CASE e \in new
        <3>1. PICK d \in old : e = [d EXCEPT !.base = cur[p].base]
            BY <2>2
        <3>2. /\ d.line = e.line /\ d.seq = e.seq /\ d.obs = e.obs
              /\ e.base = cur[p].base
            BY <1>3, <3>1 DEF Entry
        <3> QED
            BY <1>3, <3>2
    <2> QED
        BY <1>1, <2>1, <2>2
<1>5. ASSUME NEW e \in log PROVE \E d \in log' : d.seq = e.seq
    <2>1. CASE e \in old
        <3>1. [e EXCEPT !.base = cur[p].base] \in log'
            BY <1>1, <2>1
        <3>2. [e EXCEPT !.base = cur[p].base].seq = e.seq
            BY <1>3 DEF Entry
        <3> QED
            BY <3>1, <3>2
    <2>2. CASE e \notin old
        BY <1>1, <2>2
    <2> QED
        BY <2>1, <2>2
<1>6. \A e \in log' : e.line > 0 /\ e.base <= lines'
    BY <1>1, <1>4 DEF DeltaInv
<1>7. \A q \in Proc : cur'[q].base <= lines'
    BY <1>1, DeltaReturned DEF DeltaInv, TypeOK
<1>8. ASSUME NEW d \in log', NEW e \in log', e.base = d.line PROVE Prior(d, e)
    <2>1. PICK d0 \in log : d0.line = d.line /\ d0.obs = d.obs
        BY <1>4
    <2>2. PICK e0 \in log : /\ e0.line = e.line /\ e0.obs = e.obs
                            /\ \/ e0 = e
                               \/ e0.seq = cur[p].seq /\ e.base = cur[p].base
        BY <1>4
    <2>3. Prior(d0, e0)
        BY <1>2, <1>8, <2>1, <2>2 DEF Decided, DeltaInv
    <2> QED
        BY <2>1, <2>2, <2>3 DEF Prior
<1>9. ASSUME NEW q \in Proc, pc'[q] \in Mending PROVE Decided(q)'
    <2>1. pc[q] \in Mending /\ cur'[q] = cur[q] /\ Decided(q)
        BY <1>1, <1>9, DeltaReturned DEF DeltaInv
    <2> QED
        BY <1>4, <1>5, <2>1, DeltaKept
<1> QED
    BY <1>6, <1>7, <1>8, <1>9 DEF DeltaInv, Prior

(* reconcileInitial picks a line and the revision just before it in time.     *)
LEMMA DeltaDecided ==
    ASSUME TypeInv, SerialInv, CapsInv, DeltaInv, NEW p \in Proc, Mend(p)
    PROVE  DeltaInv'
<1> USE DEF TypeInv
<1>1. PICK e \in log, base \in {Initial} \cup {d.line : d \in {c \in log : Loads(c)}} :
          /\ IF Earlier(e) = {}
             THEN e.base # Initial /\ base = Initial
             ELSE /\ e.base = Initial
                  /\ \E d \in log : Precedes(d, e) /\ base = d.line
          /\ cur' = [cur EXCEPT ![p] = [Blank EXCEPT !.obs = e.obs, !.seq = e.seq,
                                                     !.base = base]]
    BY DEF Mend
<1>2. /\ UNCHANGED <<log, lines>> /\ pc'[p] = "mend"
      /\ \A q \in Proc \ {p} : cur'[q] = cur[q] /\ pc'[q] = pc[q]
    BY <1>1 DEF Mend, Goto, TypeOK, file
<1>3. cur'[p].seq = e.seq /\ cur'[p].base = base
    BY <1>1 DEF TypeOK, Blank
<1>4. /\ lines \in Nat
      /\ \A d \in log : d.line <= lines /\ d.line \in Nat /\ d.seq \in Nat
    BY DEF TypeOK, Entry, SerialInv, Placed
<1>5. base <= lines
    BY <1>1, <1>4 DEF Initial
<1>6. \A q \in Proc : cur'[q].base <= lines'
    BY <1>2, <1>3, <1>5 DEF DeltaInv
<1>7. Decided(p)'
    <2>1. \E t \in log' : cur'[p].seq <= t.seq
        BY <1>2, <1>3, <1>4
    <2>2. ASSUME NEW d \in log', NEW t \in log', t.seq = cur'[p].seq, d.line = cur'[p].base
          PROVE  Prior(d, t)
        <3>1. t = e
            BY <1>2, <1>3, <1>4, <2>2 DEF SerialInv, SeqOrder, CapsInv, Distinct
        <3>2. CASE Earlier(e) = {}
            <4>1. d.line = 0
                BY <1>1, <1>3, <2>2, <3>2 DEF Initial
            <4>2. d.line > 0
                BY <1>2, <2>2 DEF DeltaInv
            <4> QED
                BY <4>1, <4>2
        <3>3. CASE Earlier(e) # {}
            <4>1. PICK d0 \in log : Precedes(d0, e) /\ base = d0.line
                BY <1>1, <3>3
            <4>2. d = d0
                BY <1>2, <1>3, <2>2, <4>1 DEF CapsInv, Distinct
            <4> QED
                BY <3>1, <4>1, <4>2 DEF Precedes, Earlier, Prior
        <3> QED
            BY <3>2, <3>3
    <2> QED
        BY <2>1, <2>2 DEF Decided, Prior
<1>8. \A q \in Proc : pc'[q] \in Mending => Decided(q)'
    BY <1>2, <1>7 DEF DeltaInv, Decided, Prior
<1> QED
    BY <1>2, <1>6, <1>8 DEF DeltaInv, Prior

(* What Append, RewriteSummary and GC do to summaries, whoever interleaves    *)
(* under the lock.                                                            *)
LEMMA DeltaStep ==
    ASSUME Undisturbed, TypeInv, SerialInv, CapsInv, DeltaInv, [Next]_vars, TypeOK'
    PROVE  DeltaInv'
<1> USE DEF TypeInv
<1>r. ASSUME NEW p \in Proc, Return(p), UNCHANGED <<log, lines>> PROVE DeltaInv'
    <2>1. cur'[p].base <= lines
        BY <1>r, DeltaReturned DEF TypeOK
    <2> QED
        BY <1>r, <2>1, DeltaReturned, DeltaQuiet
<1>q. ASSUME NEW p \in Proc, NEW at \in Control, Goto(p, at), UNCHANGED <<log, lines>>,
             \A x \in Proc \ {p} : cur'[x] = cur[x],
             cur'[p].base <= lines,
             at \in Mending => pc[p] \in Mending /\ cur'[p] = cur[p]
      PROVE  DeltaInv'
    <2>1. pc'[p] = at /\ \A x \in Proc \ {p} : pc'[x] = pc[x]
        BY <1>q DEF Goto, TypeOK
    <2> QED
        BY <1>q, <2>1, DeltaQuiet
<1>1. CASE UNCHANGED vars \/ Finished
    BY <1>1 DEF Finished, vars, file, local, DeltaInv, Decided, Prior
<1>2. ASSUME NEW p \in Proc, Begin(p) PROVE DeltaInv'
    <2>1. lines \in Nat /\ \A e \in log : e.line <= lines /\ e.line \in Nat
        BY DEF TypeOK, Entry, SerialInv, Placed
    <2>2. ASSUME NEW o \in Observation, NEW base \in {Initial, NoBase} \cup {e.line : e \in log},
                 NEW r \in BOOLEAN,
                 cur' = [cur EXCEPT ![p] = [Blank EXCEPT !.obs = o, !.base = base,
                                                         !.remember = r]],
                 Goto(p, "acquire"), UNCHANGED file
          PROVE  DeltaInv'
        <3>1. cur'[p].base = base /\ \A x \in Proc \ {p} : cur'[x] = cur[x]
            BY <2>2 DEF TypeOK, Blank
        <3>2. base <= lines
            BY <2>1, <2>2 DEF Initial, NoBase
        <3>3. "acquire" \in Control \ Mending /\ UNCHANGED <<log, lines>>
            BY <2>2 DEF Control, Mending, file
        <3> QED
            BY <1>q, <2>2, <3>1, <3>2, <3>3
    <2>3. ASSUME NEW o \in Observation, Record(p, o) PROVE DeltaInv'
        <3>1. PICK base \in {Initial} \cup (IF Readable THEN BasesOf(log) ELSE {}) :
                  cur' = [cur EXCEPT ![p] = [Blank EXCEPT !.obs = o, !.base = base,
                                                          !.remember = TRUE]]
            BY <2>3 DEF Record
        <3>2. base \in {Initial, NoBase} \cup {e.line : e \in log}
            BY <3>1 DEF BasesOf
        <3>3. Goto(p, "acquire") /\ UNCHANGED file
            BY <2>3 DEF Record
        <3> QED
            BY <2>2, <3>1, <3>2, <3>3
    <2>4. ASSUME NEW o \in Observation, Import(p, o) PROVE DeltaInv'
        <3>1. PICK base \in {Initial} \cup {e.line : e \in log} :
                  cur' = [cur EXCEPT ![p] = [Blank EXCEPT !.obs = o, !.base = base]]
            BY <2>4 DEF Import
        <3>2. cur'[p].base = base /\ \A x \in Proc \ {p} : cur'[x] = cur[x]
            BY <3>1 DEF TypeOK, Blank
        <3>3. base <= lines
            BY <2>1, <3>1 DEF Initial
        <3>4. /\ "acquire" \in Control \ Mending /\ UNCHANGED <<log, lines>>
              /\ Goto(p, "acquire")
            BY <2>4 DEF Import, Control, Mending, file
        <3> QED
            BY <1>q, <3>2, <3>3, <3>4
    <2>5. ASSUME NEW o \in Observation, RecordAgain(p, o) PROVE DeltaInv'
        BY <2>5 DEF RecordAgain, file, local, DeltaInv, Decided, Prior
    <2>6. ASSUME NEW o \in Passes, Collect(p, o) PROVE DeltaInv'
        <3>1. /\ Goto(p, "gcList") /\ "gcList" \in Control \ Mending
              /\ UNCHANGED <<log, lines, cur>> /\ cur[p].base <= lines
            BY <2>6 DEF Collect, Control, Mending, file, DeltaInv
        <3> QED
            BY <1>q, <3>1
    <2> QED
        BY <1>2, <2>3, <2>4, <2>5, <2>6, DeltaDecided DEF Begin
<1>3. ASSUME NEW p \in Proc, Acquire(p) PROVE DeltaInv'
    <2>1. /\ UNCHANGED <<log, lines, cur>> /\ cur[p].base <= lines
          /\ \/ Goto(p, "read")
             \/ Goto(p, "reread") /\ pc[p] \in Mending
        BY <1>3 DEF Acquire, Mending, file, local, DeltaInv
    <2>2. "read" \in Control \ Mending /\ "reread" \in Control
        BY DEF Control, Mending
    <2> QED
        BY <1>q, <2>1, <2>2
<1>4. ASSUME NEW p \in Proc, Refuse(p) \/ SkipSame(p) \/ Stop(p) \/ Tear(p) PROVE DeltaInv'
    BY <1>r, <1>4 DEF Refuse, SkipSame, Stop, Tear, file
<1>5. ASSUME NEW p \in Proc, TakeUp(p) PROVE DeltaInv'
    <2>1. /\ UNCHANGED <<log, lines>> /\ cur'[p].base = cur[p].base
          /\ \A x \in Proc \ {p} : cur'[x] = cur[x]
          /\ \E at \in {"place", "publish"} : Goto(p, at)
        BY <1>5 DEF TakeUp, TypeOK, Draft
    <2>2. "place" \in Control \ Mending /\ "publish" \in Control \ Mending
        BY DEF Control, Mending
    <2>3. cur'[p].base <= lines
        BY <2>1 DEF DeltaInv
    <2> QED
        BY <1>q, <2>1, <2>2, <2>3
<1>6. ASSUME NEW p \in Proc, Place(p) \/ Store(p) \/ Prune(p) \/ EndPrune(p) PROVE DeltaInv'
    <2>1. UNCHANGED <<log, lines>>
        BY <1>6 DEF Place, Store, Prune, EndPrune, file
    <2>2. \/ GiveUpContents(p)
          \/ \E a, id : PlaceAt(p, a, id)
          \/ UNCHANGED cur /\ \E at \in {"prune", "sweep", "publish"} : Goto(p, at)
        BY <1>6 DEF Place, Store, Prune, EndPrune
    <2>3. {"store", "prune", "sweep", "publish"} \subseteq Control \ Mending
        BY DEF Control, Mending
    <2>4. cur[p].base <= lines
        BY DEF DeltaInv
    <2>5. CASE GiveUpContents(p)
        <3>1. cur'[p].base = cur[p].base /\ \A x \in Proc \ {p} : cur'[x] = cur[x]
            BY <2>5 DEF GiveUpContents, TypeOK, Draft
        <3> QED
            BY <1>q, <2>1, <2>3, <2>4, <2>5, <3>1 DEF GiveUpContents
    <2>6. ASSUME NEW a, NEW id, PlaceAt(p, a, id) PROVE DeltaInv'
        <3>1. cur'[p].base = cur[p].base /\ \A x \in Proc \ {p} : cur'[x] = cur[x]
            BY <2>6 DEF PlaceAt, TypeOK, Draft
        <3> QED
            BY <1>q, <2>1, <2>3, <2>4, <2>6, <3>1 DEF PlaceAt
    <2>7. CASE UNCHANGED cur /\ \E at \in {"prune", "sweep", "publish"} : Goto(p, at)
        BY <1>q, <2>1, <2>3, <2>4, <2>7
    <2> QED
        BY <2>2, <2>5, <2>6, <2>7
<1>7. ASSUME NEW p \in Proc, SweepFile(p) PROVE DeltaInv'
    BY <1>7 DEF SweepFile, file, local, DeltaInv, Decided, Prior
<1>8. ASSUME NEW p \in Proc, Publish(p) \/ RewriteSummary(p) PROVE DeltaInv'
    BY <1>8, DeltaPublished, DeltaMended
<1>9. ASSUME NEW p \in Proc, Reread(p) PROVE DeltaInv'
    <2>1. CASE Return(p)
        BY <1>9, <1>r, <2>1 DEF Reread, file
    <2>2. CASE ~Return(p)
        <3>1. /\ Goto(p, "rewrite") /\ UNCHANGED <<log, lines, cur>> /\ pc[p] \in Mending
              /\ cur[p].base <= lines /\ "rewrite" \in Control
            BY <1>9, <2>2 DEF Reread, file, Mending, DeltaInv, Control
        <3> QED
            BY <1>q, <3>1
    <2> QED
        BY <2>1, <2>2
<1>10. ASSUME NEW p \in Proc, GCList(p) \/ GCSwept(p) PROVE DeltaInv'
    <2>1. CASE Return(p)
        BY <1>10, <1>r, <2>1 DEF GCList, GCSwept, file
    <2>2. CASE ~Return(p)
        <3>1. /\ \E at \in {"gcSweep", "gcRewrite"} : Goto(p, at)
              /\ UNCHANGED <<log, lines, cur>> /\ cur[p].base <= lines
            BY <1>10, <2>2 DEF GCList, GCSwept, file, local, DeltaInv
        <3>2. {"gcSweep", "gcRewrite"} \subseteq Control \ Mending
            BY DEF Control, Mending
        <3> QED
            BY <1>q, <3>1, <3>2
    <2> QED
        BY <2>1, <2>2
<1>11. ASSUME NEW p \in Proc, GCRewrite(p) PROVE DeltaInv'
    <2>1. /\ log' \subseteq log /\ lines' = lines /\ Return(p) /\ Alone
        BY <1>11 DEF GCRewrite, Rewrite, GCKept, SerialInv, Current, NoCollection, Relying,
                     Collecting
    <2>2. \A q \in Proc : q = p
        BY <2>1 DEF Alone
    <2>3. \A q \in Proc : cur'[q].base <= lines' /\ pc'[q] \notin Mending
        BY <2>1, <2>2, DeltaReturned DEF TypeOK
    <2> QED
        BY <2>1, <2>3 DEF DeltaInv, Prior
<1> QED
    BY <1>1, <1>2, <1>3, <1>4, <1>5, <1>6, <1>7, <1>8, <1>9, <1>10, <1>11 DEF Next, Step

(* No summary is a delta from its own or from a later revision, for one       *)
(* process and for any number of them that get the lock and do not collect:   *)
(* what reconcileInitial decided on a log read without the lock is written to *)
(* the line it was decided for, or to none.                                   *)
THEOREM Deltas ==
    ASSUME Undisturbed
    PROVE  Spec => []DeltaFromEarlier
<1> DEFINE Inv == TypeInv /\ SerialInv /\ CapsInv /\ DeltaInv
<1>1. Init => Inv
    BY TypeInit, SerialInit, CapsInit, DeltaInit
<1>2. Inv /\ [Next]_vars => Inv'
    BY TypeStep, SerialStep, CapsStep, DeltaStep DEF TypeInv
<1>3. Inv => DeltaFromEarlier
    BY DEF DeltaInv, DeltaFromEarlier, Prior, Earlier
<1> QED
    BY <1>1, <1>2, <1>3, PTL DEF Spec

=============================================================================
