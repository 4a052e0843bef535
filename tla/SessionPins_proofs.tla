------------------------- MODULE SessionPins_proofs -------------------------
(***************************************************************************)
(* Theorems about SessionPins, for any sessions, session-start children    *)
(* and tools, any requests, edits and deaths.                              *)
(***************************************************************************)
EXTENDS SessionPins, TLAPS

-----------------------------------------------------------------------------
(* Types. *)

Dirs == {"previous", "baseline"}

PCs == {"idle", "try", "other", "decide", "generate", "rotate", "facts", "truncate", "meta",
        "stat", "stage facts", "stage meta", "list", "unlink", "rename", "mark", "stamp"}

(* An idle call, an absent directory and an absent file have their types.     *)
LEMMA Blanks == Blank \in Job /\ Nothing \in Directory /\ Missing \in Content /\ Torn \in Content
BY ConstantsOK DEF Blank, Job, Dirs, Nothing, Directory, Content, Missing, Torn, Files

(* os.RemoveAll of one file leaves a directory, whose other files and whose   *)
(* publisher are the same.                                                    *)
LEMMA WithoutFile ==
    ASSUME NEW d \in Directory, NEW f \in Files, NEW e, e = [d EXCEPT ![f] = Nothing[f]]
    PROVE  /\ e \in Directory
           /\ e.by = d.by /\ e.exposed = d.exposed /\ e.mixed = d.mixed
           /\ e.facts \in {d.facts, Missing}
           /\ e.mark \in {d.mark, NoSession}
           /\ e.auto => d.auto
<1> USE DEF Directory, Files, Nothing, Content, Missing
<1>1. CASE f = "facts"
    BY <1>1
<1>2. CASE f = "meta"
    BY <1>2
<1>3. CASE f = "mark"
    BY <1>3
<1>4. CASE f = "auto"
    BY <1>4
<1> QED
    BY <1>1, <1>2, <1>3, <1>4

(* A mark put into a directory changes nothing else but who wrote into it.    *)
LEMMA WithMark ==
    ASSUME NEW d \in Directory, NEW s \in Session \cup {NoSession}, NEW p
    PROVE  LET e == With(d, p, "mark", s)
           IN  /\ e \in Directory
               /\ e.by = d.by /\ e.exposed = d.exposed /\ e.facts = d.facts
               /\ e.auto = d.auto
               /\ e.mark = s
               /\ e.mixed = (d.mixed \/ d.by # p)
<1>1. (d.mixed \/ d.by # p) \in BOOLEAN
    OBVIOUS
<1> QED
    BY <1>1 DEF Directory, With

(* The same of the marker of an automatic pin.                                *)
LEMMA WithMarker ==
    ASSUME NEW d \in Directory, NEW p
    PROVE  LET e == With(d, p, "auto", TRUE)
           IN  /\ e \in Directory
               /\ e.by = d.by /\ e.exposed = d.exposed /\ e.facts = d.facts
               /\ e.mark = d.mark
               /\ e.auto = TRUE
               /\ e.mixed = (d.mixed \/ d.by # p)
<1>1. (d.mixed \/ d.by # p) \in BOOLEAN
    OBVIOUS
<1> QED
    BY <1>1 DEF Directory, With

(* No files yet, no session started: the state a repository starts in.        *)
LEMMA TypeInit == Init => TypeOK
<1> SUFFICES ASSUME Init PROVE TypeOK
    OBVIOUS
<1>1. /\ job \in [Proc -> Job]
      /\ dir \in [Dirs -> Directory]
      /\ root \in [facts: Content, meta: Content]
    BY Blanks DEF Init, Dirs
<1>2. tree \in 1..(MaxEdits + 1) /\ serial \in [Dirs -> Nat]
    BY ConstantsOK DEF Init, Dirs
<1> QED
    BY <1>1, <1>2 DEF Init, TypeOK, Dirs

(* A call that returns leaves the types of what it changes.                   *)
LEMMA ReturnedTypes ==
    ASSUME TypeOK, NEW p \in Proc, Returned(p)
    PROVE  /\ pc' \in [Proc -> PCs]
           /\ job' \in [Proc -> Job]
           /\ lock' \in Hook \cup {Free}
BY Blanks DEF Returned, TypeOK, PCs, Job, Dirs

(* So does one that goes on.                                                  *)
LEMMA StepTypes ==
    ASSUME TypeOK, NEW p \in Proc, NEW from, NEW to \in PCs, Step(p, from, to)
    PROVE  pc' \in [Proc -> PCs]
BY DEF Step, TypeOK, PCs

(* And copyArtifacts, whether or not the copy succeeded.                      *)
LEMMA AfterCopyTypes ==
    ASSUME TypeOK, NEW p \in Proc, NEW ok \in BOOLEAN, AfterCopy(p, ok)
    PROVE  /\ pc' \in [Proc -> PCs]
           /\ job' \in [Proc -> Job]
           /\ lock' \in Hook \cup {Free}
<1>1. CASE Returned(p)
    BY <1>1, ReturnedTypes
<1>2. CASE ~Returned(p)
    <2>1. /\ Step(p, pc[p], IF job[p].to = "previous" THEN "facts" ELSE "mark")
          /\ job' = [job EXCEPT ![p] = [Blank EXCEPT !.snap = job[p].snap]]
          /\ UNCHANGED lock
        BY <1>2 DEF AfterCopy
    <2>2. [Blank EXCEPT !.snap = job[p].snap] \in Job
        BY Blanks DEF TypeOK, Job
    <2>3. job' \in [Proc -> Job]
        BY <2>1, <2>2 DEF TypeOK
    <2>4. pc' \in [Proc -> PCs]
        BY <2>1 DEF Step, TypeOK, PCs
    <2> QED
        BY <2>1, <2>3, <2>4 DEF TypeOK
<1> QED
    BY <1>1, <1>2

(* The variables of a call keep their types when one of them is set.          *)
LEMMA JobTypes ==
    ASSUME TypeOK, NEW p \in Proc
    PROVE  /\ \A c \in Content : /\ [job EXCEPT ![p].snap = c, ![p].to = "previous"] \in [Proc -> Job]
                                 /\ [job EXCEPT ![p].facts = c] \in [Proc -> Job]
                                 /\ [job EXCEPT ![p].meta = c] \in [Proc -> Job]
           /\ [job EXCEPT ![p].to = "baseline"] \in [Proc -> Job]
           /\ \A L \in SUBSET Files :
                  /\ \A n \in Nat : [job EXCEPT ![p].victim = n, ![p].listed = L] \in [Proc -> Job]
                  /\ [job EXCEPT ![p].listed = L] \in [Proc -> Job]
<1> DEFINE j == job[p]
<1>1. j \in Job /\ job \in [Proc -> Job]
    BY DEF TypeOK
<1>2. ASSUME NEW c \in Content
      PROVE  /\ [job EXCEPT ![p].snap = c, ![p].to = "previous"] \in [Proc -> Job]
             /\ [job EXCEPT ![p].facts = c] \in [Proc -> Job]
             /\ [job EXCEPT ![p].meta = c] \in [Proc -> Job]
    <2>1. /\ [[j EXCEPT !.snap = c] EXCEPT !.to = "previous"] \in Job
          /\ [j EXCEPT !.facts = c] \in Job
          /\ [j EXCEPT !.meta = c] \in Job
        BY <1>1 DEF Job
    <2> QED
        BY <1>1, <2>1
<1>3. [job EXCEPT ![p].to = "baseline"] \in [Proc -> Job]
    <2>1. [j EXCEPT !.to = "baseline"] \in Job
        BY <1>1 DEF Job
    <2> QED
        BY <1>1, <2>1
<1>4. ASSUME NEW L \in SUBSET Files, NEW n \in Nat
      PROVE  /\ [job EXCEPT ![p].victim = n, ![p].listed = L] \in [Proc -> Job]
             /\ [job EXCEPT ![p].listed = L] \in [Proc -> Job]
    <2>1. /\ [[j EXCEPT !.victim = n] EXCEPT !.listed = L] \in Job
          /\ [j EXCEPT !.listed = L] \in Job
        BY <1>1 DEF Job
    <2> QED
        BY <1>1, <2>1
<1> QED
    BY <1>2, <1>3, <1>4

(* Every step keeps every type.                                               *)
LEMMA TypeStep == TypeOK /\ [Next]_vars => TypeOK'
<1> SUFFICES ASSUME TypeOK, [Next]_vars PROVE TypeOK'
    OBVIOUS
<1> USE DEF disk, sessions, process, counters, Dirs, PCs
<1>1. CASE UNCHANGED vars
    BY <1>1 DEF vars, TypeOK
<1>2. ASSUME NEW h \in Hook, StartSession(h) PROVE TypeOK'
    BY <1>2, ConstantsOK DEF StartSession, Step, TypeOK, Proc
<1>3. ASSUME NEW h \in Hook, TryLock(h) PROVE TypeOK'
    BY <1>3 DEF TryLock, Step, TypeOK, Proc
<1>4. ASSUME NEW h \in Hook, CheckOther(h) PROVE TypeOK'
    <2>1. CASE Returned(h)
        BY <1>4, <2>1, ReturnedTypes DEF CheckOther, TypeOK, Proc
    <2> QED
        BY <1>4, <2>1 DEF CheckOther, Step, TypeOK, Proc
<1>5. ASSUME NEW h \in Hook, Decide(h) PROVE TypeOK'
    <2>1. CASE Returned(h)
        BY <1>5, <2>1, ReturnedTypes DEF Decide, TypeOK, Proc
    <2> QED
        BY <1>5, <2>1 DEF Decide, Step, TypeOK, Proc
<1>6. ASSUME NEW t \in Tool, StartGenerate(t) \/ StartPin(t) PROVE TypeOK'
    BY <1>6 DEF StartGenerate, StartPin, Step, TypeOK, Proc
<1>7. ASSUME NEW p \in Proc, Generate(p) PROVE TypeOK'
    <2>1. tree \in Content
        BY DEF TypeOK, Content
    <2>2. job' \in [Proc -> Job]
        BY <1>7, <2>1, JobTypes DEF Generate
    <2> QED
        BY <1>7, <2>2 DEF Generate, Step, TypeOK
<1>22. ASSUME NEW p \in Proc, Rotate(p) PROVE TypeOK'
    BY <1>22 DEF Rotate, Step, TypeOK
<1>8. ASSUME NEW p \in Proc, WriteFacts(p) PROVE TypeOK'
    <2>1. job[p].snap \in Content
        BY DEF TypeOK, Job
    <2> QED
        BY <1>8, <2>1 DEF WriteFacts, Step, TypeOK
<1>9. ASSUME NEW p \in Proc, TruncateMeta(p) PROVE TypeOK'
    BY <1>9, Blanks DEF TruncateMeta, Step, TypeOK
<1>10. ASSUME NEW p \in Proc, WriteMeta(p) PROVE TypeOK'
    <2>1. root' \in [facts: Content, meta: Content]
        BY <1>10 DEF WriteMeta, TypeOK, Job
    <2>2. CASE Returned(p)
        BY <1>10, <2>1, <2>2, ReturnedTypes DEF WriteMeta, TypeOK
    <2> QED
        BY <1>10, <2>1, <2>2 DEF WriteMeta, Step, TypeOK
<1>11. ASSUME NEW p \in Proc, Stat(p) PROVE TypeOK'
    <2>1. CASE Returned(p)
        BY <1>11, <2>1, ReturnedTypes DEF Stat, TypeOK
    <2>2. CASE ~Returned(p)
        <3>1. job' \in [Proc -> Job]
            BY <1>11, <2>2, JobTypes DEF Stat
        <3> QED
            BY <1>11, <2>2, <3>1 DEF Stat, Step, TypeOK
    <2> QED
        BY <2>1, <2>2
<1>12. ASSUME NEW p \in Proc, StageFacts(p) \/ StageMeta(p) PROVE TypeOK'
    <2>1. root.facts \in Content /\ root.meta \in Content
        BY DEF TypeOK
    <2>2. job' \in [Proc -> Job]
        <3>1. \A c \in Content : /\ [job EXCEPT ![p].facts = c] \in [Proc -> Job]
                                  /\ [job EXCEPT ![p].meta = c] \in [Proc -> Job]
            BY JobTypes
        <3>2. \/ job' = [job EXCEPT ![p].facts = root.facts]
              \/ job' = [job EXCEPT ![p].meta = root.meta]
            BY <1>12 DEF StageFacts, StageMeta
        <3> QED
            BY <2>1, <3>1, <3>2
    <2> QED
        BY <1>12, <2>2 DEF StageFacts, StageMeta, Step, TypeOK
<1>13. ASSUME NEW p \in Proc, List(p) PROVE TypeOK'
    <2>1. There(p).n \in Nat /\ FilesOf(There(p)) \in SUBSET Files
        BY DEF There, FilesOf, TypeOK, Directory, Job
    <2>2. job' \in [Proc -> Job]
        <3>1. \A L \in SUBSET Files : \A n \in Nat :
                  [job EXCEPT ![p].victim = n, ![p].listed = L] \in [Proc -> Job]
            BY JobTypes
        <3>2. job' = [job EXCEPT ![p].victim = There(p).n, ![p].listed = FilesOf(There(p))]
            BY <1>13 DEF List
        <3> QED
            BY <2>1, <3>1, <3>2
    <2> QED
        BY <1>13, <2>2 DEF List, Step, TypeOK
<1>14. ASSUME NEW p \in Proc, Unlink(p) PROVE TypeOK'
    <2>1. PICK f \in job[p].listed :
              /\ dir' = IF There(p).n = job[p].victim
                        THEN [dir EXCEPT ![job[p].to][f] = Nothing[f]] ELSE dir
              /\ job' = [job EXCEPT ![p].listed = @ \ {f}]
        BY <1>14 DEF Unlink
    <2>2. f \in Files /\ job[p].to \in Dirs /\ dir[job[p].to] \in Directory
        BY DEF TypeOK, Job
    <2>3. [dir[job[p].to] EXCEPT ![f] = Nothing[f]] \in Directory
        BY <2>2, WithoutFile
    <2>4. dir' \in [Dirs -> Directory]
        BY <2>1, <2>2, <2>3 DEF TypeOK
    <2>5. job[p].listed \ {f} \in SUBSET Files
        BY DEF TypeOK, Job
    <2>6. job' \in [Proc -> Job]
        BY <2>1, <2>5, JobTypes
    <2> QED
        BY <1>14, <2>4, <2>6 DEF Unlink, TypeOK
<1>15. ASSUME NEW p \in Proc, RemoveDir(p) PROVE TypeOK'
    <2>1. dir' \in [Dirs -> Directory]
        BY <1>15, Blanks DEF RemoveDir, TypeOK
    <2>2. CASE AfterCopy(p, FALSE)
        BY <1>15, <2>1, <2>2, AfterCopyTypes DEF RemoveDir, TypeOK
    <2> QED
        BY <1>15, <2>1, <2>2 DEF RemoveDir, Step, TypeOK
<1>16. ASSUME NEW p \in Proc, Publish(p) PROVE TypeOK'
    <2>1. PICK ok \in BOOLEAN : AfterCopy(p, ok)
        BY <1>16 DEF Publish
    <2>2. serial' \in [Dirs -> Nat] /\ dir' \in [Dirs -> Directory]
        <3> DEFINE x == \E h \in Hook \ {p} : Deciding(h)
                   d == [Nothing EXCEPT !.n = serial'[job[p].to], !.facts = job[p].facts,
                                        !.meta = job[p].meta, !.by = p, !.exposed = x]
        <3>1. CASE There(p).n = 0
            <4>1. /\ serial' = [serial EXCEPT ![job[p].to] = @ + 1]
                  /\ dir' = [dir EXCEPT ![job[p].to] = d]
                BY <1>16, <3>1 DEF Publish
            <4>2. job[p].to \in Dirs /\ job[p].facts \in Content /\ job[p].meta \in Content
                BY DEF TypeOK, Job
            <4>3. serial \in [Dirs -> Nat]
                BY DEF TypeOK
            <4>4. serial' \in [Dirs -> Nat] /\ serial'[job[p].to] \in Nat
                <5> HIDE DEF Dirs
                <5> QED
                    BY <4>1, <4>2, <4>3
            <4>5. x \in BOOLEAN
                OBVIOUS
            <4>6. d \in Directory
                <5> HIDE DEF x
                <5> QED
                    BY <4>2, <4>4, <4>5, Blanks DEF Directory, Nothing
            <4> HIDE DEF d
            <4> QED
                BY <4>1, <4>2, <4>4, <4>6 DEF TypeOK
        <3>2. CASE There(p).n # 0
            BY <1>16, <3>2 DEF Publish, TypeOK
        <3> QED
            BY <3>1, <3>2
    <2> QED
        BY <1>16, <2>1, <2>2, AfterCopyTypes DEF Publish, TypeOK
<1>17. ASSUME NEW p \in Proc, WriteMark(p) PROVE TypeOK'
    <2>1. dir' \in [Dirs -> Directory] /\ late' \in BOOLEAN
        <3>1. Owner[p] \in Session \cup {NoSession} /\ Baseline \in Directory
            BY ConstantsOK DEF TypeOK, Baseline
        <3>2. PICK d \in Directory : d = With(Baseline, p, "mark", Owner[p])
            BY <3>1, WithMark
        <3>3. dir' = dir \/ dir' = [dir EXCEPT !["baseline"] = d]
            BY <1>17, <3>2 DEF WriteMark, PutInBaseline
        <3>4. late' \in BOOLEAN
            BY <1>17 DEF WriteMark, PutInBaseline
        <3>5. dir \in [Dirs -> Directory]
            BY DEF TypeOK
        <3> QED
            BY ONLY <3>3, <3>4, <3>5
    <2>2. CASE Returned(p)
        BY <1>17, <2>1, <2>2, ReturnedTypes DEF WriteMark, TypeOK
    <2> QED
        BY <1>17, <2>1, <2>2 DEF WriteMark, Step, TypeOK
<1>18. ASSUME NEW h \in Hook, Stamp(h) PROVE TypeOK'
    <2>1. dir' \in [Dirs -> Directory] /\ late' \in BOOLEAN
        <3>1. Baseline \in Directory
            BY DEF TypeOK, Baseline
        <3>2. PICK d \in Directory : d = With(Baseline, h, "auto", TRUE)
            BY <3>1, WithMarker
        <3>3. dir' = dir \/ dir' = [dir EXCEPT !["baseline"] = d]
            BY <1>18, <3>2 DEF Stamp, PutInBaseline
        <3>4. late' \in BOOLEAN
            BY <1>18 DEF Stamp, PutInBaseline
        <3>5. dir \in [Dirs -> Directory]
            BY DEF TypeOK
        <3> QED
            BY ONLY <3>3, <3>4, <3>5
    <2> QED
        BY <1>18, <2>1, ReturnedTypes DEF Stamp, TypeOK, Proc
<1>19. CASE Edit
    <2>1. tree' \in 1..(MaxEdits + 1)
        <3>1. tree \in 1..(MaxEdits + 1) /\ tree <= MaxEdits /\ tree' = tree + 1
            BY <1>19 DEF Edit, TypeOK
        <3>2. MaxEdits \in Nat
            BY ConstantsOK
        <3> QED
            BY <3>1, <3>2
    <2> QED
        BY <1>19, <2>1 DEF Edit, TypeOK
<1>20. ASSUME NEW s \in Session, EndSession(s) PROVE TypeOK'
    BY <1>20 DEF EndSession, TypeOK
<1>21. ASSUME NEW p \in Proc, Die(p) PROVE TypeOK'
    BY <1>21, ReturnedTypes DEF Die, TypeOK
<1> QED
    BY <1>1, <1>2, <1>3, <1>4, <1>5, <1>6, <1>7, <1>8, <1>9, <1>10, <1>11, <1>12, <1>13,
       <1>14, <1>15, <1>16, <1>17, <1>18, <1>19, <1>20, <1>21, <1>22
    DEF Next, SessionStart, WriteArtifacts, SetBaseline

(* Every variable keeps its type whatever the sessions, the tools and the     *)
(* deaths of their calls.                                                     *)
THEOREM PinTyping == Spec => []TypeOK
BY TypeInit, TypeStep, PTL DEF Spec

-----------------------------------------------------------------------------
(* Whose baseline a session-start child takes. *)

\* The child has decided to replace the baseline and has not stamped it yet.
Decided(h) == pc[h] \notin {"idle", "try", "other", "decide"}

\* session-pin.lock: one child at a time looks, decides and pins.
OneChild ==
    \A h \in Hook : pc[h] \notin {"idle", "try"} => lock = h

\* A child runs for a session that has started.
ChildOfStarted == \A h \in Hook : pc[h] # "idle" => Owner[h] \in started

\* A baseline that reads as one was published by somebody.
Published == Readable(Baseline) => Baseline.by \in Proc

\* A tool pinned it while no child was deciding.
Deliberate == Readable(Baseline) /\ Baseline.by \in Tool /\ ~Baseline.exposed

\* A child pinned it, and nobody else wrote into it.
Automatic == Readable(Baseline) /\ Baseline.by \in Hook /\ ~Baseline.exposed /\ ~Baseline.mixed

\* Such a baseline is not taken for an automatic one, and no child goes for it.
DeliberateIsLeft ==
    /\ Deliberate => ~Baseline.auto
    /\ \A h \in Hook : Decided(h) => ~Deliberate

\* The mark of an automatic baseline is of the session whose child pinned it.
OwnMark ==
    Automatic => /\ Baseline.mark \in {NoSession, Owner[Baseline.by]}
                 /\ Owner[Baseline.by] \in started

\* Once a child has looked, no automatic baseline is of another session alive.
OthersAreLeft ==
    \A h \in Hook : Deciding(h) => ~(Automatic /\ OthersPin(h))

PinInv ==
    TypeOK /\ OneChild /\ ChildOfStarted /\ Published /\ DeliberateIsLeft /\ OwnMark
    /\ OthersAreLeft

(* Nothing is pinned and nobody decides in the state a repository starts in.  *)
LEMMA PinInit == Init => PinInv
<1> SUFFICES ASSUME Init PROVE PinInv
    OBVIOUS
<1>1. ~Readable(Baseline)
    BY DEF Init, Readable, Baseline, Nothing, Missing
<1>2. \A h \in Hook : pc[h] = "idle"
    BY DEF Init, Proc
<1> QED
    BY <1>1, <1>2, TypeInit
    DEF PinInv, OneChild, ChildOfStarted, Published, Deliberate, Automatic, DeliberateIsLeft,
        OwnMark, OthersAreLeft, Decided, Deciding

\* A step by which no child comes to hold the lock, to look or to decide.
Quiet ==
    /\ \A h \in Hook : pc'[h] \in {pc[h], "idle"} \/ (Decided(h) /\ Decided(h)')
    /\ \A h \in Hook : lock = h /\ pc'[h] # "idle" => lock' = h
    /\ UNCHANGED started
    /\ alive' \subseteq alive

\* The baseline is left alone, or loses files.
Losing ==
    Readable(Baseline') =>
        /\ Readable(Baseline)
        /\ Baseline'.by = Baseline.by
        /\ Baseline'.exposed = Baseline.exposed
        /\ Baseline'.mixed = Baseline.mixed
        /\ Baseline'.auto => Baseline.auto
        /\ Baseline'.mark \in {Baseline.mark, NoSession}

(* A quiet step keeps the lock with its holder, and nobody starts to decide.  *)
LEMMA QuietKeeps ==
    ASSUME PinInv, Quiet
    PROVE  /\ OneChild'
           /\ ChildOfStarted'
           /\ \A h \in Hook : /\ Decided(h)' => Decided(h)
                              /\ Deciding(h)' => Deciding(h)
<1>1. OneChild'
    BY DEF PinInv, OneChild, Quiet, Decided
<1>2. ChildOfStarted'
    BY DEF PinInv, ChildOfStarted, Quiet, Decided
<1>3. \A h \in Hook : /\ Decided(h)' => Decided(h)
                      /\ Deciding(h)' => Deciding(h)
    BY DEF Quiet, Decided, Deciding
<1> QED
    BY <1>1, <1>2, <1>3

(* A quiet step that leaves the baseline alone, or takes files away, changes  *)
(* nothing about whose it is.                                                 *)
LEMMA QuietLosing ==
    ASSUME PinInv, TypeOK', Quiet, Losing
    PROVE  PinInv'
<1>1. /\ Deliberate' => Deliberate /\ (Baseline'.auto => Baseline.auto)
      /\ Automatic' => Automatic /\ Baseline'.by = Baseline.by
                       /\ Baseline'.mark \in {Baseline.mark, NoSession}
      /\ Published'
    BY DEF Deliberate, Automatic, Published, PinInv, Losing
<1>2. \A h \in Hook : Automatic' /\ OthersPin(h)' => OthersPin(h)
    <2>1. NoSession \notin alive
        BY ConstantsOK DEF PinInv, TypeOK
    <2> QED
        BY <1>1, <2>1 DEF OthersPin, Quiet
<1>3. DeliberateIsLeft'
    BY <1>1, QuietKeeps DEF DeliberateIsLeft, PinInv
<1>4. OwnMark'
    BY <1>1 DEF OwnMark, PinInv, Quiet
<1>5. OthersAreLeft'
    BY <1>1, <1>2, QuietKeeps DEF OthersAreLeft, PinInv
<1> QED
    BY <1>1, <1>3, <1>4, <1>5, QuietKeeps DEF PinInv

(* A call that returns is quiet.                                              *)
LEMMA ReturnedQuiet ==
    ASSUME TypeOK, NEW p \in Proc, Returned(p), UNCHANGED sessions
    PROVE  Quiet
<1>1. Hook \subseteq Proc
    BY DEF Proc
<1> QED
    BY <1>1 DEF TypeOK, Returned, Quiet, sessions

(* So is one that goes on, but for the steps of a child before its decision.  *)
LEMMA StepQuiet ==
    ASSUME TypeOK, NEW p \in Proc, NEW from, NEW to, Step(p, from, to),
           UNCHANGED <<sessions, lock>>,
           p \in Hook => /\ from \notin {"idle", "try", "other", "decide"}
                         /\ to \notin {"idle", "try", "other", "decide"}
    PROVE  Quiet
<1>1. Hook \subseteq Proc
    BY DEF Proc
<1> QED
    BY <1>1 DEF TypeOK, Step, Quiet, Decided, sessions

(* And the end of a copy.                                                     *)
LEMMA AfterCopyQuiet ==
    ASSUME TypeOK, NEW p \in Proc, NEW ok \in BOOLEAN, AfterCopy(p, ok), UNCHANGED sessions,
           pc[p] \in {"unlink", "rename"}
    PROVE  Quiet
<1>1. CASE Returned(p)
    BY <1>1, ReturnedQuiet
<1>2. CASE ~Returned(p)
    BY <1>2, StepQuiet DEF AfterCopy
<1> QED
    BY <1>1, <1>2

(* A step that leaves the directories alone loses nothing.                    *)
LEMMA UntouchedLosing == UNCHANGED dir => Losing
BY DEF Losing, Baseline

(* The steps of a generation and of a pin before its publication.             *)
LEMMA QuietActions ==
    ASSUME PinInv, TypeOK', NEW p \in Proc,
           \/ WriteArtifacts(p)
           \/ Stat(p) \/ StageFacts(p) \/ StageMeta(p) \/ List(p) \/ Unlink(p) \/ RemoveDir(p)
           \/ Die(p)
    PROVE  PinInv'
<1> USE DEF disk, sessions, process, counters
<1>0. TypeOK
    BY DEF PinInv
<1>1. CASE Generate(p)
    BY <1>0, <1>1, StepQuiet, UntouchedLosing, QuietLosing DEF Generate
<1>12. CASE Rotate(p)
    <2>1. PICK to \in {"facts", "stage facts"} : Step(p, "rotate", to)
        BY <1>12 DEF Rotate
    <2> QED
        BY <1>0, <1>12, <2>1, StepQuiet, UntouchedLosing, QuietLosing DEF Rotate
<1>2. CASE WriteFacts(p)
    BY <1>0, <1>2, StepQuiet, UntouchedLosing, QuietLosing DEF WriteFacts
<1>3. CASE TruncateMeta(p)
    BY <1>0, <1>3, StepQuiet, UntouchedLosing, QuietLosing DEF TruncateMeta
<1>4. CASE WriteMeta(p)
    <2>1. Quiet
        BY <1>0, <1>4, StepQuiet, ReturnedQuiet DEF WriteMeta
    <2> QED
        BY <1>4, <2>1, UntouchedLosing, QuietLosing DEF WriteMeta
<1>5. CASE Stat(p)
    <2>1. Quiet
        BY <1>0, <1>5, StepQuiet, ReturnedQuiet DEF Stat
    <2> QED
        BY <1>5, <2>1, UntouchedLosing, QuietLosing DEF Stat
<1>6. CASE StageFacts(p)
    BY <1>0, <1>6, StepQuiet, UntouchedLosing, QuietLosing DEF StageFacts
<1>7. CASE StageMeta(p)
    BY <1>0, <1>7, StepQuiet, UntouchedLosing, QuietLosing DEF StageMeta
<1>8. CASE List(p)
    <2>1. PICK to \in {"rename", "unlink"} : Step(p, "list", to)
        BY <1>8 DEF List
    <2> QED
        BY <1>0, <1>8, <2>1, StepQuiet, UntouchedLosing, QuietLosing DEF List
<1>9. CASE Unlink(p)
    <2>1. Quiet
        BY <1>9 DEF Unlink, Quiet
    <2>2. PICK f \in job[p].listed :
              dir' = IF There(p).n = job[p].victim
                     THEN [dir EXCEPT ![job[p].to][f] = Nothing[f]] ELSE dir
        BY <1>9 DEF Unlink
    <2>3. f \in Files /\ dir \in [Dirs -> Directory] /\ job[p].to \in Dirs
        BY <1>0 DEF TypeOK, Job, Dirs
    <2>4. Baseline' = Baseline \/ Baseline' = [Baseline EXCEPT ![f] = Nothing[f]]
        BY <2>2, <2>3 DEF Baseline, Dirs
    <2>5. Baseline \in Directory
        BY <2>3 DEF Baseline, Dirs
    <2>6. Losing
        <3>1. CASE Baseline' = Baseline
            BY <3>1 DEF Losing
        <3>2. CASE Baseline' = [Baseline EXCEPT ![f] = Nothing[f]]
            BY <2>3, <2>5, <3>2, WithoutFile DEF Losing, Readable
        <3> QED
            BY <2>4, <3>1, <3>2
    <2> QED
        BY <2>1, <2>6, QuietLosing
<1>10. CASE RemoveDir(p)
    <2>1. Quiet
        BY <1>0, <1>10, StepQuiet, AfterCopyQuiet DEF RemoveDir
    <2>2. Baseline' = Baseline \/ Baseline' = Nothing
        BY <1>0, <1>10 DEF RemoveDir, Baseline, TypeOK, Job
    <2>3. Losing
        BY <2>2 DEF Losing, Readable, Nothing
    <2> QED
        BY <2>1, <2>3, QuietLosing
<1>11. CASE Die(p)
    BY <1>0, <1>11, ReturnedQuiet, UntouchedLosing, QuietLosing DEF Die
<1> QED
    BY <1>1, <1>2, <1>3, <1>4, <1>5, <1>6, <1>7, <1>8, <1>9, <1>10, <1>11, <1>12
    DEF WriteArtifacts

(* The steps of a child up to its decision: it gets the lock alone, it looks  *)
(* at whose the baseline is, and it decides.                                  *)
LEMMA ChildActions ==
    ASSUME PinInv, TypeOK', NEW h \in Hook,
           StartSession(h) \/ TryLock(h) \/ CheckOther(h) \/ Decide(h)
    PROVE  PinInv'
<1> USE DEF disk, sessions, process, counters
<1>0. TypeOK /\ Hook \subseteq Proc /\ Baseline' = Baseline
    BY DEF PinInv, Proc, StartSession, TryLock, CheckOther, Decide, Baseline
<1>1. CASE (CheckOther(h) \/ Decide(h)) /\ Returned(h)
    BY <1>0, <1>1, ReturnedQuiet, UntouchedLosing, QuietLosing DEF CheckOther, Decide
<1>2. CASE StartSession(h)
    <2>1. \A g \in Hook : /\ pc'[g] \in {pc[g], "try"}
                          /\ pc'[g] # pc[g] => g = h
        BY <1>0, <1>2 DEF StartSession, Step, TypeOK
    <2>2. OneChild' /\ ChildOfStarted'
        BY <1>0, <1>2, <2>1 DEF PinInv, OneChild, ChildOfStarted, StartSession, Step
    <2>3. \A g \in Hook : Decided(g)' = Decided(g) /\ Deciding(g)' = Deciding(g)
        BY <1>0, <1>2, <2>1 DEF Decided, Deciding, StartSession, Step
    <2>4. /\ Deliberate' = Deliberate
          /\ Automatic' = Automatic
          /\ Published'
        BY <1>0 DEF Deliberate, Automatic, Published, PinInv
    <2>5. DeliberateIsLeft'
        BY <1>0, <2>3, <2>4 DEF DeliberateIsLeft, PinInv
    <2>6. OwnMark'
        BY <1>0, <1>2, <2>4 DEF OwnMark, PinInv, StartSession
    <2>7. \A g \in Hook : Automatic /\ OthersPin(g)' => OthersPin(g)
        <3>1. Owner[h] \in Session /\ Owner[h] \notin started /\ alive' = alive \cup {Owner[h]}
            BY <1>2, ConstantsOK DEF StartSession
        <3>2. Automatic => Baseline.mark # Owner[h]
            BY <3>1, ConstantsOK DEF OwnMark, PinInv
        <3> QED
            BY <1>0, <3>1, <3>2 DEF OthersPin
    <2>8. OthersAreLeft'
        BY <2>3, <2>4, <2>7 DEF OthersAreLeft, PinInv
    <2> QED
        BY <2>2, <2>4, <2>5, <2>6, <2>8 DEF PinInv
<1>3. CASE TryLock(h)
    <2>1. CASE lock # Free
        BY <1>0, <1>3, <2>1, UntouchedLosing, QuietLosing DEF TryLock, Step, Quiet, TypeOK
    <2>2. CASE lock = Free
        <3>1. \A g \in Hook : pc[g] \in {"idle", "try"}
            BY <1>0, <2>2, FreeIsNoProcess DEF PinInv, OneChild
        <3>2. \A g \in Hook : /\ pc'[g] \in {pc[g], "other"}
                              /\ pc'[g] # pc[g] => g = h
            BY <1>0, <1>3, <2>2 DEF TryLock, Step, TypeOK
        <3>3. lock' = h /\ UNCHANGED started /\ pc[h] = "try"
            BY <1>3, <2>2 DEF TryLock, Step
        <3>4. OneChild' /\ ChildOfStarted'
            BY <3>1, <3>2, <3>3 DEF OneChild, ChildOfStarted, PinInv
        <3>5. \A g \in Hook : ~Decided(g)' /\ ~Deciding(g)'
            BY <3>1, <3>2 DEF Decided, Deciding
        <3>6. Deliberate' = Deliberate /\ Automatic' = Automatic /\ Published'
            BY <1>0 DEF Deliberate, Automatic, Published, PinInv
        <3> QED
            BY <1>0, <3>3, <3>4, <3>5, <3>6 DEF PinInv, DeliberateIsLeft, OwnMark, OthersAreLeft
    <2> QED
        BY <2>1, <2>2
<1>4. CASE CheckOther(h) /\ ~Returned(h)
    <2>1. ~OthersPin(h) /\ Step(h, "other", "decide") /\ UNCHANGED <<lock, sessions>>
        BY <1>4 DEF CheckOther
    <2>2. \A g \in Hook \ {h} : pc'[g] = pc[g]
        BY <1>0, <2>1 DEF Step, TypeOK
    <2>3. pc[h] = "other" /\ pc'[h] = "decide"
        BY <1>0, <2>1 DEF Step, TypeOK
    <2>4. OneChild' /\ ChildOfStarted'
        BY <2>1, <2>2, <2>3 DEF OneChild, ChildOfStarted, PinInv
    <2>5. /\ \A g \in Hook : Decided(g)' = Decided(g)
          /\ \A g \in Hook \ {h} : Deciding(g)' = Deciding(g)
        BY <2>2, <2>3 DEF Decided, Deciding
    <2>6. Deliberate' = Deliberate /\ Automatic' = Automatic /\ Published'
        BY <1>0 DEF Deliberate, Automatic, Published, PinInv
    <2>7. \A g \in Hook : OthersPin(g)' = OthersPin(g)
        BY <1>0, <2>1 DEF OthersPin
    <2>8. DeliberateIsLeft' /\ OwnMark' /\ OthersAreLeft'
        BY <1>0, <2>1, <2>5, <2>6, <2>7 DEF PinInv, DeliberateIsLeft, OwnMark, OthersAreLeft
    <2> QED
        BY <2>4, <2>6, <2>8 DEF PinInv
<1>5. CASE Decide(h) /\ ~Returned(h)
    <2>1. /\ ~Readable(Baseline) \/ Baseline.auto
          /\ Step(h, "decide", "generate")
          /\ UNCHANGED <<lock, sessions>>
        BY <1>5 DEF Decide
    <2>2. \A g \in Hook \ {h} : pc'[g] = pc[g]
        BY <1>0, <2>1 DEF Step, TypeOK
    <2>3. pc[h] = "decide" /\ pc'[h] = "generate"
        BY <1>0, <2>1 DEF Step, TypeOK
    <2>4. OneChild' /\ ChildOfStarted'
        BY <2>1, <2>2, <2>3 DEF OneChild, ChildOfStarted, PinInv
    <2>5. /\ \A g \in Hook : Deciding(g)' = Deciding(g)
          /\ \A g \in Hook \ {h} : Decided(g)' = Decided(g)
        BY <2>2, <2>3 DEF Decided, Deciding
    <2>6. Deliberate' = Deliberate /\ Automatic' = Automatic /\ Published'
        BY <1>0 DEF Deliberate, Automatic, Published, PinInv
    <2>7. \A g \in Hook : OthersPin(g)' = OthersPin(g)
        BY <1>0, <2>1 DEF OthersPin
    <2>8. ~Deliberate
        BY <2>1 DEF PinInv, DeliberateIsLeft, Deliberate
    <2>9. DeliberateIsLeft' /\ OwnMark' /\ OthersAreLeft'
        BY <1>0, <2>1, <2>5, <2>6, <2>7, <2>8 DEF PinInv, DeliberateIsLeft, OwnMark, OthersAreLeft
    <2> QED
        BY <2>4, <2>6, <2>9 DEF PinInv
<1> QED
    BY <1>1, <1>2, <1>3, <1>4, <1>5

(* A pin is published: by a tool in front of a child that decides, and then   *)
(* it is exposed, or with nobody deciding; or by a child, unmarked.           *)
LEMMA PublishAction ==
    ASSUME PinInv, TypeOK', NEW p \in Proc, Publish(p)
    PROVE  PinInv'
<1> DEFINE x == \E h \in Hook \ {p} : Deciding(h)
           d == [Nothing EXCEPT !.n = serial'[job[p].to], !.facts = job[p].facts,
                                !.meta = job[p].meta, !.by = p, !.exposed = x]
<1>1. TypeOK /\ pc[p] = "rename" /\ UNCHANGED sessions
    BY DEF PinInv, Publish
<1>2. Quiet
    BY <1>1, AfterCopyQuiet DEF Publish
<1>3. dir' = dir \/ dir' = [dir EXCEPT ![job[p].to] = d]
    BY DEF Publish
<1>4. CASE Baseline' = Baseline
    BY <1>2, <1>4, QuietLosing DEF Losing
<1>5. CASE Baseline' # Baseline
    <2>1. Baseline' = d
        <3> HIDE DEF d
        <3> QED
            BY <1>1, <1>3, <1>5 DEF Baseline, TypeOK, Job
    <2>2. /\ Baseline'.by = p /\ Baseline'.exposed = x /\ Baseline'.mark = NoSession
          /\ Baseline'.auto = FALSE /\ Baseline'.mixed = FALSE
        BY <2>1 DEF Nothing
    <2>3. Published'
        BY <2>2 DEF Published
    <2>4. DeliberateIsLeft'
        <3>1. Deliberate' => p \in Tool /\ ~x
            BY <2>2 DEF Deliberate
        <3>2. Deliberate' => \A h \in Hook : ~Deciding(h)
            BY <3>1, ConstantsOK
        <3>3. \A h \in Hook : Decided(h)' => Deciding(h)
            BY <1>2, QuietKeeps DEF Decided, Deciding
        <3> QED
            BY <2>2, <3>2, <3>3 DEF DeliberateIsLeft
    <2>5. OwnMark'
        <3>1. Automatic' => p \in Hook
            BY <2>2 DEF Automatic
        <3>2. p \in Hook => Owner[p] \in started
            BY <1>1 DEF PinInv, ChildOfStarted
        <3> QED
            BY <1>1, <2>2, <3>1, <3>2 DEF OwnMark, sessions
    <2>6. OthersAreLeft'
        <3>1. NoSession \notin alive'
            BY ConstantsOK DEF TypeOK
        <3> QED
            BY <2>2, <3>1 DEF OthersAreLeft, OthersPin
    <2> QED
        BY <1>2, <2>3, <2>4, <2>5, <2>6, QuietKeeps DEF PinInv
<1> QED
    BY <1>4, <1>5

(* A mark is put into the baseline: by its publisher, or it is mixed.         *)
LEMMA MarkAction ==
    ASSUME PinInv, TypeOK', NEW p \in Proc, WriteMark(p)
    PROVE  PinInv'
<1>1. TypeOK /\ pc[p] = "mark" /\ UNCHANGED sessions
    BY DEF PinInv, WriteMark
<1>2. Quiet
    <2>1. CASE Returned(p)
        BY <1>1, <2>1, ReturnedQuiet
    <2>2. CASE ~Returned(p)
        BY <1>1, <2>2, StepQuiet DEF WriteMark
    <2> QED
        BY <2>1, <2>2
<1>3. dir' = dir \/ dir' = [dir EXCEPT !["baseline"] = With(Baseline, p, "mark", Owner[p])]
    BY DEF WriteMark, PutInBaseline
<1>4. CASE dir' = dir
    BY <1>2, <1>4, UntouchedLosing, QuietLosing
<1>5. CASE dir' = [dir EXCEPT !["baseline"] = With(Baseline, p, "mark", Owner[p])]
    <2>1. Baseline' = With(Baseline, p, "mark", Owner[p]) /\ Baseline \in Directory
        BY <1>1, <1>5 DEF Baseline, TypeOK
    <2>2. Owner[p] \in Session \cup {NoSession}
        BY ConstantsOK
    <2>3. /\ Baseline'.by = Baseline.by /\ Baseline'.exposed = Baseline.exposed
          /\ Baseline'.facts = Baseline.facts /\ Baseline'.auto = Baseline.auto
          /\ Baseline'.mark = Owner[p]
          /\ Baseline'.mixed = (Baseline.mixed \/ Baseline.by # p)
        BY <2>1, <2>2, WithMark
    <2>4. /\ Published'
          /\ Deliberate' = Deliberate
          /\ Automatic' => Automatic /\ Baseline'.by = p /\ p \in Hook
        BY <2>3 DEF PinInv, Published, Deliberate, Automatic, Readable
    <2>5. DeliberateIsLeft'
        BY <1>2, <2>3, <2>4, QuietKeeps DEF PinInv, DeliberateIsLeft
    <2>6. OwnMark'
        BY <1>1, <2>3, <2>4 DEF PinInv, OwnMark, sessions
    <2>7. OthersAreLeft'
        <3> SUFFICES ASSUME NEW h \in Hook, Deciding(h)', Automatic' PROVE ~OthersPin(h)'
            BY DEF OthersAreLeft
        <3>1. Deciding(h)
            BY <1>2, QuietKeeps
        <3>2. lock = h /\ lock = p
            BY <1>1, <2>4, <3>1 DEF PinInv, OneChild, Deciding
        <3> QED
            BY <2>3, <3>2 DEF OthersPin
    <2> QED
        BY <1>2, <2>4, <2>5, <2>6, <2>7, QuietKeeps DEF PinInv
<1> QED
    BY <1>3, <1>4, <1>5

(* A child stamps the baseline, which is then no deliberate pin: it decided.  *)
LEMMA StampAction ==
    ASSUME PinInv, TypeOK', NEW h \in Hook, Stamp(h)
    PROVE  PinInv'
<1>1. TypeOK /\ Decided(h) /\ UNCHANGED sessions /\ h \in Proc
    BY DEF PinInv, Stamp, Decided, Proc
<1>2. Quiet
    BY <1>1, ReturnedQuiet DEF Stamp
<1>3. dir' = dir \/ dir' = [dir EXCEPT !["baseline"] = With(Baseline, h, "auto", TRUE)]
    BY DEF Stamp, PutInBaseline
<1>4. CASE dir' = dir
    BY <1>2, <1>4, UntouchedLosing, QuietLosing
<1>5. CASE dir' = [dir EXCEPT !["baseline"] = With(Baseline, h, "auto", TRUE)]
    <2>1. Baseline' = With(Baseline, h, "auto", TRUE) /\ Baseline \in Directory
        BY <1>1, <1>5 DEF Baseline, TypeOK
    <2>2. /\ Baseline'.by = Baseline.by /\ Baseline'.exposed = Baseline.exposed
          /\ Baseline'.facts = Baseline.facts /\ Baseline'.mark = Baseline.mark
          /\ Baseline'.mixed = (Baseline.mixed \/ Baseline.by # h)
        BY <2>1, WithMarker
    <2>3. /\ Published'
          /\ Deliberate' = Deliberate
          /\ Automatic' => Automatic
        BY <2>2 DEF PinInv, Published, Deliberate, Automatic, Readable
    <2>4. ~Deliberate
        BY <1>1 DEF PinInv, DeliberateIsLeft
    <2>5. \A g \in Hook : OthersPin(g)' = OthersPin(g)
        BY <1>1, <2>2 DEF OthersPin, sessions
    <2>6. DeliberateIsLeft' /\ OwnMark' /\ OthersAreLeft'
        BY <1>1, <1>2, <2>2, <2>3, <2>4, <2>5, QuietKeeps
        DEF PinInv, DeliberateIsLeft, OwnMark, OthersAreLeft, sessions
    <2> QED
        BY <1>2, <2>3, <2>6, QuietKeeps DEF PinInv
<1> QED
    BY <1>3, <1>4, <1>5

(* Every step keeps the invariant.                                            *)
LEMMA PinStep == PinInv /\ [Next]_vars => PinInv'
<1> SUFFICES ASSUME PinInv, [Next]_vars PROVE PinInv'
    OBVIOUS
<1>1. TypeOK /\ TypeOK'
    BY TypeStep DEF PinInv
<1>2. CASE UNCHANGED vars
    <2>1. Quiet /\ UNCHANGED dir
        BY <1>2 DEF vars, disk, sessions, process, Quiet
    <2> QED
        BY <1>1, <2>1, UntouchedLosing, QuietLosing
<1>3. ASSUME NEW t \in Tool, StartGenerate(t) \/ StartPin(t) PROVE PinInv'
    <2>1. Quiet
        BY <1>1, <1>3, StepQuiet, ConstantsOK DEF StartGenerate, StartPin, Proc, sessions
    <2> QED
        BY <1>1, <1>3, <2>1, UntouchedLosing, QuietLosing DEF StartGenerate, StartPin, disk
<1>4. CASE Edit
    BY <1>1, <1>4, UntouchedLosing, QuietLosing DEF Edit, disk, sessions, process, Quiet
<1>5. ASSUME NEW s \in Session, EndSession(s) PROVE PinInv'
    BY <1>1, <1>5, UntouchedLosing, QuietLosing DEF EndSession, disk, process, Quiet
<1> QED
    BY <1>1, <1>2, <1>3, <1>4, <1>5, QuietActions, ChildActions, PublishAction, MarkAction,
       StampAction
    DEF Next, SessionStart, SetBaseline

(* hook.go, "a deliberate pin may not be replaced by us", for any sessions,   *)
(* children and tools: a session-start child takes away a pin somebody made   *)
(* on purpose only if that was published while a child was deciding.          *)
THEOREM DeliberatePinsStay == Spec => DeliberatePinSurvives
<1>1. PinInv => \A h \in Hook : Takes(h) /\ Baseline.by \in Tool => Baseline.exposed
    BY DEF PinInv, DeliberateIsLeft, Deliberate, Takes, Decided
<1>2. PinInv /\ [Next]_vars =>
          [\A h \in Hook : Takes(h) /\ Baseline.by \in Tool => Baseline.exposed]_vars
    BY <1>1
<1> QED
    BY <1>2, PinInit, PinStep, PTL DEF Spec, DeliberatePinSurvives

(* otherSessionPin, for any sessions, children and tools: a session-start     *)
(* child takes away the pin of another running session only if that was       *)
(* published while a child was deciding, or has somebody else's mark.         *)
THEOREM OthersPinsStay == Spec => OtherSessionsPinSurvives
<1>1. PinInv => \A h \in Hook : Takes(h) /\ OthersPin(h) => Baseline.exposed \/ Baseline.mixed
    <2> SUFFICES ASSUME PinInv, NEW h \in Hook, Takes(h), OthersPin(h)
                 PROVE  Baseline.exposed \/ Baseline.mixed
        OBVIOUS
    <2>1. Decided(h) /\ Deciding(h) /\ Readable(Baseline)
        BY DEF Takes, Decided, Deciding
    <2>2. Baseline.by \in Hook \cup Tool
        BY <2>1 DEF PinInv, Published, Proc
    <2>3. ~Deliberate /\ ~Automatic
        BY <2>1 DEF PinInv, DeliberateIsLeft, OthersAreLeft
    <2> QED
        BY <2>1, <2>2, <2>3 DEF Deliberate, Automatic
<1>2. PinInv /\ [Next]_vars =>
          [\A h \in Hook : Takes(h) /\ OthersPin(h) => Baseline.exposed \/ Baseline.mixed]_vars
    BY <1>1
<1> QED
    BY <1>2, PinInit, PinStep, PTL DEF Spec, OtherSessionsPinSurvives

-----------------------------------------------------------------------------
(* A pin leaves a baseline. *)

\* The call is copying artifacts, into baseline/ or into previous/.
Copying(p) == pc[p] \in {"stage facts", "stage meta", "list", "unlink", "rename"}
Pinning(p) == Copying(p) /\ job[p].to = "baseline"

\* The call is removing the directory that is the baseline now.
Removes(p) == pc[p] = "unlink" /\ job[p].to = "baseline" /\ job[p].victim = Baseline.n

\* A generation writes what it read of the tree, and a call that pins has seen
\* the facts of a snapshot and staged them.
Staged ==
    \A p \in Proc :
        /\ pc[p] \in {"rotate", "facts"} \/ (Copying(p) /\ job[p].to = "previous")
              => job[p].snap # Missing
        /\ Pinning(p) /\ pc[p] = "stage facts" => root.facts # Missing
        /\ Pinning(p) /\ pc[p] # "stage facts" => job[p].facts # Missing

\* No directory is published twice under one number.
Numbered ==
    /\ Baseline.n <= serial["baseline"]
    /\ \A p \in Proc : pc[p] = "unlink" /\ job[p].to = "baseline" =>
           job[p].victim # 0 /\ job[p].victim <= serial["baseline"]

\* os.RemoveAll has listed whatever the directory holds, if no mark came late.
Listed == \A p \in Proc : Removes(p) /\ ~late => FilesOf(Baseline) \subseteq job[p].listed

\* A baseline that cannot be read is being removed, and one that is absent is
\* about to be published.
Attended ==
    stops = 0 /\ ~late =>
        /\ Baseline.n # 0 /\ ~Readable(Baseline) => \E p \in Proc : Removes(p)
        /\ Baseline.n = 0 /\ serial["baseline"] > 0 =>
              \E p \in Proc : pc[p] = "rename" /\ job[p].to = "baseline"

KeptInv == TypeOK /\ stops \in Nat /\ Staged /\ Numbered /\ Listed /\ Attended

\* A step of one process.
Acts(p) ==
    \/ p \in Hook /\ (StartSession(p) \/ TryLock(p) \/ CheckOther(p) \/ Decide(p))
    \/ p \in Tool /\ (StartGenerate(p) \/ StartPin(p))
    \/ WriteArtifacts(p)
    \/ SetBaseline(p)
    \/ p \in Hook /\ Stamp(p)
    \/ Die(p)

\* The other processes are where they were.
Alone(p) == \A q \in Proc \ {p} : pc'[q] = pc[q] /\ job'[q] = job[q]

(* A step of one process leaves the other ones alone.                         *)
LEMMA ActsAlone ==
    ASSUME TypeOK, NEW p \in Proc, Acts(p)
    PROVE  Alone(p)
<1> USE DEF Step, Returned, disk, sessions, process, counters
<1>0. pc \in [Proc -> PCs] /\ job \in [Proc -> Job]
    BY DEF TypeOK, PCs
<1>1. CASE StartSession(p) \/ TryLock(p) \/ CheckOther(p) \/ Decide(p)
    BY <1>0, <1>1 DEF Alone, StartSession, TryLock, CheckOther, Decide
<1>2. CASE StartGenerate(p) \/ StartPin(p) \/ Die(p)
    BY <1>0, <1>2 DEF Alone, StartGenerate, StartPin, Die
<1>3. CASE WriteArtifacts(p)
    BY <1>0, <1>3 DEF Alone, WriteArtifacts, Generate, Rotate, WriteFacts, TruncateMeta, WriteMeta
<1>4. CASE Stat(p) \/ StageFacts(p) \/ StageMeta(p) \/ List(p) \/ Unlink(p)
    BY <1>0, <1>4 DEF Alone, Stat, StageFacts, StageMeta, List, Unlink
<1>5. CASE RemoveDir(p) \/ Publish(p)
    BY <1>0, <1>5 DEF Alone, RemoveDir, Publish, AfterCopy
<1>6. CASE WriteMark(p) \/ Stamp(p)
    BY <1>0, <1>6 DEF Alone, WriteMark, Stamp
<1> QED
    BY <1>1, <1>2, <1>3, <1>4, <1>5, <1>6 DEF Acts, SetBaseline

(* How a copy ends: the call returns, or goes on with what it read.           *)
LEMMA AfterCopyDoes ==
    ASSUME TypeOK, NEW p \in Proc, NEW ok, AfterCopy(p, ok)
    PROVE  \/ pc'[p] \in {"idle", "mark"}
           \/ pc'[p] = "facts" /\ job[p].to = "previous" /\ job'[p].snap = job[p].snap
<1>0. pc \in [Proc -> PCs] /\ job \in [Proc -> Job]
    BY DEF TypeOK, PCs
<1>1. CASE Returned(p)
    BY <1>0, <1>1 DEF Returned
<1>2. CASE ~Returned(p)
    <2>1. /\ pc'[p] = IF job[p].to = "previous" THEN "facts" ELSE "mark"
          /\ job' = [job EXCEPT ![p] = [Blank EXCEPT !.snap = job[p].snap]]
        BY <1>0, <1>2 DEF AfterCopy, Step
    <2>2. job'[p].snap = job[p].snap
        BY <1>0, <2>1 DEF Blank
    <2> QED
        BY <2>1, <2>2
<1> QED
    BY <1>1, <1>2

(* The root never loses its facts, and what is staged of them is there.       *)
LEMMA StagedActs ==
    ASSUME TypeOK, Staged, NEW p \in Proc, Acts(p)
    PROVE  Staged'
<1> USE DEF Step, disk, sessions, process, counters
<1> DEFINE A(q) == pc[q] \in {"rotate", "facts"} \/ (Copying(q) /\ job[q].to = "previous")
                      => job[q].snap # Missing
           B(q) == Pinning(q) /\ pc[q] = "stage facts" => root.facts # Missing
           C(q) == Pinning(q) /\ pc[q] # "stage facts" => job[q].facts # Missing
<1>0. pc \in [Proc -> PCs] /\ job \in [Proc -> Job] /\ \A q \in Proc : A(q) /\ B(q) /\ C(q)
    BY DEF TypeOK, PCs, Staged
<1>1. root.facts # Missing => root'.facts # Missing
    <2>1. CASE WriteFacts(p)
        BY <1>0, <2>1 DEF WriteFacts, TypeOK
    <2>2. CASE TruncateMeta(p) \/ WriteMeta(p)
        BY <2>2 DEF TruncateMeta, WriteMeta, TypeOK
    <2> QED
        BY <2>1, <2>2 DEF Acts, StartSession, TryLock, CheckOther, Decide, StartGenerate, StartPin,
           WriteArtifacts, Generate, Rotate, SetBaseline, Stat, StageFacts, StageMeta, List, Unlink,
           RemoveDir, Publish, WriteMark, Stamp, Die
<1>2. ASSUME NEW q \in Proc, q # p PROVE (A(q) /\ B(q) /\ C(q))'
    <2>1. pc'[q] = pc[q] /\ job'[q] = job[q] /\ A(q) /\ B(q) /\ C(q)
        BY <1>0, <1>2, ActsAlone DEF Alone
    <2> QED
        BY <1>1, <2>1 DEF Copying, Pinning
<1>3. (A(p) /\ B(p) /\ C(p))'
    <2>0. A(p) /\ B(p) /\ C(p)
        BY <1>0
    <2>1. CASE pc'[p] \notin {"rotate", "facts", "stage facts", "stage meta", "list", "unlink", "rename"}
        BY <2>1 DEF Copying, Pinning
    <2>2. CASE Generate(p)
        <3>1. pc'[p] = "rotate" /\ job'[p].snap = tree
            BY <1>0, <2>2 DEF Generate, Job
        <3>2. tree # Missing
            <4>1. tree \in 1..(MaxEdits + 1) /\ MaxEdits \in Nat
                BY ConstantsOK DEF TypeOK
            <4> QED
                BY <4>1 DEF Missing
        <3> QED
            BY <3>1, <3>2 DEF Copying, Pinning
    <2>3. CASE Rotate(p)
        BY <1>0, <2>0, <2>3 DEF Rotate, Copying, Pinning
    <2>4. CASE Stat(p) /\ ~Returned(p)
        <3>1. pc'[p] = "stage facts" /\ job'[p].to = "baseline" /\ root.facts # Missing /\ root' = root
            BY <1>0, <2>4 DEF Stat, Job
        <3> QED
            BY <3>1 DEF Copying, Pinning
    <2>5. CASE StageFacts(p)
        <3>1. /\ pc[p] = "stage facts" /\ pc'[p] = "stage meta" /\ job'[p].facts = root.facts
              /\ job'[p].snap = job[p].snap /\ job'[p].to = job[p].to
            BY <1>0, <2>5 DEF StageFacts, Job
        <3> QED
            BY <2>0, <3>1 DEF Copying, Pinning
    <2>6. CASE StageMeta(p)
        <3>1. /\ pc[p] = "stage meta" /\ pc'[p] = "list" /\ job'[p].facts = job[p].facts
              /\ job'[p].snap = job[p].snap /\ job'[p].to = job[p].to
            BY <1>0, <2>6 DEF StageMeta, Job
        <3> QED
            BY <2>0, <3>1 DEF Copying, Pinning
    <2>7. CASE List(p)
        <3>1. /\ pc[p] = "list" /\ pc'[p] \in {"rename", "unlink"} /\ job'[p].facts = job[p].facts
              /\ job'[p].snap = job[p].snap /\ job'[p].to = job[p].to
            BY <1>0, <2>7 DEF List, Job
        <3> QED
            BY <2>0, <3>1 DEF Copying, Pinning
    <2>8. CASE Unlink(p)
        <3>1. PICK f : job' = [job EXCEPT ![p].listed = @ \ {f}]
            BY <2>8 DEF Unlink
        <3>2. pc[p] = "unlink" /\ pc'[p] = "unlink"
            BY <2>8 DEF Unlink
        <3>3. /\ job'[p].facts = job[p].facts
              /\ job'[p].snap = job[p].snap /\ job'[p].to = job[p].to
            BY ONLY <1>0, <3>1, p \in Proc DEF Job
        <3> QED
            BY <2>0, <3>2, <3>3 DEF Copying, Pinning
    <2>9. CASE RemoveDir(p) /\ pc'[p] = "rename" /\ job' = job
        BY <1>0, <2>0, <2>9 DEF RemoveDir, Copying, Pinning
    <2>10. CASE \E ok \in BOOLEAN : AfterCopy(p, ok) /\ pc[p] \in {"unlink", "rename"}
        <3>1. CASE pc'[p] \in {"idle", "mark"}
            BY <3>1 DEF Copying, Pinning
        <3>2. CASE pc'[p] = "facts" /\ job[p].to = "previous" /\ job'[p].snap = job[p].snap
            BY <2>0, <2>10, <3>2 DEF Copying, Pinning
        <3> QED
            BY <2>10, <3>1, <3>2, AfterCopyDoes
    <2>11. CASE RemoveDir(p)
        BY <1>0, <2>9, <2>10, <2>11 DEF RemoveDir
    <2>12. CASE Publish(p)
        BY <2>10, <2>12 DEF Publish
    <2>13. CASE Returned(p)
        BY <1>0, <2>13 DEF Returned, Copying, Pinning
    <2>14. CASE \/ StartSession(p) \/ TryLock(p) \/ CheckOther(p) \/ Decide(p)
                \/ StartGenerate(p) \/ StartPin(p) \/ WriteFacts(p) \/ TruncateMeta(p)
                \/ WriteMeta(p) \/ WriteMark(p) \/ Stamp(p) \/ Die(p)
        <3>1. CASE ~Returned(p)
            <4>1. pc'[p] \in {"try", "other", "decide", "idle", "generate", "stat", "truncate", "meta",
                              "stamp"}
                BY <1>0, <2>14, <3>1 DEF StartSession, TryLock, CheckOther, Decide, StartGenerate,
                   StartPin, WriteFacts, TruncateMeta, WriteMeta, WriteMark, Stamp, Die
            <4> QED
                BY <2>1, <4>1
        <3> QED
            BY <2>13, <3>1
    <2> QED
        BY <2>2, <2>3, <2>4, <2>5, <2>6, <2>7, <2>8, <2>11, <2>12, <2>13, <2>14
        DEF Acts, WriteArtifacts, SetBaseline
<1> QED
    BY <1>2, <1>3 DEF Staged

(* The number of a directory does not change while files go or come.          *)
LEMMA SameNumber ==
    ASSUME NEW d \in Directory
    PROVE  /\ \A f \in Files : LET e == [d EXCEPT ![f] = Nothing[f]]
                             IN  e.n = d.n /\ FilesOf(e) = FilesOf(d) \ {f}
           /\ \A p, s : With(d, p, "mark", s).n = d.n
           /\ \A p : With(d, p, "auto", TRUE).n = d.n
<1>1. ASSUME NEW f \in Files
      PROVE  LET e == [d EXCEPT ![f] = Nothing[f]]
             IN  e.n = d.n /\ FilesOf(e) = FilesOf(d) \ {f}
    <2> DEFINE e == [d EXCEPT ![f] = Nothing[f]]
    <2>1. f \in {"facts", "meta", "mark", "auto"}
        BY DEF Files
    <2>2. e.n = d.n
        BY <2>1 DEF Directory
    <2>3. ASSUME NEW g \in Files PROVE e[g] = IF g = f THEN Nothing[f] ELSE d[g]
        BY <2>1, <2>3 DEF Directory, Files
    <2>4. FilesOf(e) = FilesOf(d) \ {f}
        <3> HIDE DEF e
        <3> QED
            BY <2>3 DEF FilesOf
    <2> QED
        BY <2>2, <2>4
<1>2. \A p, s : With(d, p, "mark", s).n = d.n
    BY DEF With, Directory
<1>3. \A p : With(d, p, "auto", TRUE).n = d.n
    BY DEF With, Directory
<1> QED
    BY <1>1, <1>2, <1>3

(* What the invariant says of the baseline.                                   *)
Kept == Numbered /\ Listed /\ Attended

(* A step of a call that is not removing or renaming, before or after it, and *)
(* that changes no directory.                                                 *)
LEMMA StillKept ==
    ASSUME KeptInv, NEW p \in Proc, Alone(p), UNCHANGED <<dir, serial, late, stops>>,
           pc[p] \notin {"unlink", "rename"}, pc'[p] \notin {"unlink", "rename"}
    PROVE  Kept'
<1>1. Baseline' = Baseline
    BY DEF Baseline
<1>2. \A q \in Proc : pc'[q] \in {"unlink", "rename"} \/ pc[q] \in {"unlink", "rename"} =>
          pc'[q] = pc[q] /\ job'[q] = job[q]
    BY DEF Alone
<1>3. \A q \in Proc : Removes(q)' <=> Removes(q)
    BY <1>1, <1>2 DEF Removes
<1>4. Numbered'
    BY <1>1, <1>2 DEF KeptInv, Numbered
<1>5. Listed'
    BY <1>1, <1>2, <1>3 DEF KeptInv, Listed, Removes
<1>6. Attended'
    BY <1>1, <1>2, <1>3 DEF KeptInv, Attended
<1> QED
    BY <1>4, <1>5, <1>6 DEF Kept

(* A call that dies: stops counts it.                                         *)
LEMMA DieKept ==
    ASSUME KeptInv, NEW p \in Proc, Die(p), Alone(p)
    PROVE  Kept'
<1>1. Baseline' = Baseline /\ serial' = serial /\ late' = late
    BY DEF Die, disk, Baseline
<1>2. pc'[p] = "idle"
    BY DEF Die, Returned, KeptInv, TypeOK
<1>3. \A q \in Proc : pc'[q] = "unlink" => pc[q] = "unlink" /\ job'[q] = job[q]
    BY <1>2 DEF Alone
<1>4. Numbered'
    BY <1>1, <1>3 DEF KeptInv, Numbered
<1>5. Listed'
    BY <1>1, <1>3 DEF KeptInv, Listed, Removes
<1>6. stops' # 0
    BY DEF Die, KeptInv
<1> QED
    BY <1>4, <1>5, <1>6 DEF Kept, Attended

(* List finds the number and the files of the directory that is there.        *)
LEMMA ListKept ==
    ASSUME KeptInv, NEW p \in Proc, List(p), Alone(p)
    PROVE  Kept'
<1>0. pc \in [Proc -> PCs] /\ job \in [Proc -> Job]
    BY DEF KeptInv, TypeOK, PCs
<1>1. Baseline' = Baseline /\ serial' = serial /\ late' = late /\ stops' = stops
    BY DEF List, disk, counters, Baseline
<1>2. /\ pc[p] = "list" /\ pc'[p] = (IF There(p).n = 0 THEN "rename" ELSE "unlink")
      /\ job'[p].to = job[p].to /\ job'[p].victim = There(p).n
      /\ job'[p].listed = FilesOf(There(p))
    BY <1>0 DEF List, Step, Job
<1>3. job[p].to = "baseline" => There(p) = Baseline
    BY DEF There, Baseline
<1>4. \A q \in Proc \ {p} : pc'[q] = pc[q] /\ job'[q] = job[q] /\ (Removes(q)' <=> Removes(q))
    BY <1>1 DEF Alone, Removes
<1>5. Numbered'
    BY <1>1, <1>2, <1>3, <1>4 DEF KeptInv, Numbered
<1>6. Listed'
    <2>1. Removes(p)' => FilesOf(Baseline) = job'[p].listed
        BY <1>1, <1>2, <1>3 DEF Removes
    <2> QED
        BY <1>1, <1>4, <2>1 DEF KeptInv, Listed
<1>7. Attended'
    <2>1. \A q \in Proc : Removes(q) \/ pc[q] = "rename" => q # p
        BY <1>2 DEF Removes
    <2> QED
        BY <1>1, <1>4, <2>1 DEF KeptInv, Attended
<1> QED
    BY <1>5, <1>6, <1>7 DEF Kept

(* A file goes: it is off the list too, and the one that removes it is there  *)
(* to publish the next baseline.                                              *)
LEMMA UnlinkKept ==
    ASSUME KeptInv, NEW p \in Proc, Unlink(p), Alone(p)
    PROVE  Kept'
<1>0. pc \in [Proc -> PCs] /\ job \in [Proc -> Job] /\ dir \in [Dirs -> Directory]
    BY DEF KeptInv, TypeOK, PCs, Dirs
<1>1. PICK f \in job[p].listed :
          /\ dir' = IF There(p).n = job[p].victim
                    THEN [dir EXCEPT ![job[p].to][f] = Nothing[f]] ELSE dir
          /\ job' = [job EXCEPT ![p].listed = @ \ {f}]
    BY DEF Unlink
<1>2. /\ pc' = pc /\ pc[p] = "unlink" /\ serial' = serial /\ late' = late /\ stops' = stops
      /\ job'[p].to = job[p].to /\ job'[p].victim = job[p].victim
      /\ job'[p].listed = job[p].listed \ {f}
      /\ f \in Files /\ job[p].to \in Dirs
    BY <1>0, <1>1 DEF Unlink, counters, Job, Dirs
<1>3. Baseline'.n = Baseline.n /\ (Removes(p) \/ Baseline' = Baseline)
      /\ (Removes(p) => FilesOf(Baseline') = FilesOf(Baseline) \ {f})
    <2>1. CASE Removes(p)
        <3>1. Baseline' = [Baseline EXCEPT ![f] = Nothing[f]]
            BY <1>0, <1>1, <2>1 DEF Removes, Baseline, There, Dirs
        <3>2. Baseline \in Directory
            BY <1>0 DEF Baseline, Dirs
        <3> QED
            BY <1>2, <2>1, <3>1, <3>2, SameNumber
    <2>2. CASE ~Removes(p)
        <3>1. CASE job[p].to = "baseline"
            BY <1>1, <1>2, <2>2, <3>1 DEF Removes, Baseline, There
        <3>2. CASE job[p].to = "previous"
            <4> DEFINE e == [dir["previous"] EXCEPT ![f] = Nothing[f]]
            <4>1. dir' = dir \/ dir' = [dir EXCEPT !["previous"] = e]
                BY <1>1, <3>2
            <4> HIDE DEF e
            <4>2. dir'["baseline"] = dir["baseline"]
                BY <1>0, <4>1 DEF Dirs
            <4> QED
                BY <2>2, <4>2 DEF Baseline
        <3> QED
            BY <1>2, <2>2, <3>1, <3>2 DEF Dirs
    <2> QED
        BY <2>1, <2>2
<1>4. \A q \in Proc : /\ job'[q].to = job[q].to /\ job'[q].victim = job[q].victim
                      /\ Removes(q)' <=> Removes(q)
    <2>1. \A q \in Proc : job'[q].to = job[q].to /\ job'[q].victim = job[q].victim
        BY <1>2 DEF Alone
    <2> QED
        BY <1>2, <1>3, <2>1 DEF Removes
<1>5. Numbered'
    BY <1>2, <1>3, <1>4 DEF KeptInv, Numbered
<1>6. Listed'
    <2> SUFFICES ASSUME NEW q \in Proc, Removes(q)', ~late'
                 PROVE  FilesOf(Baseline') \subseteq job'[q].listed
        BY DEF Listed
    <2>1. FilesOf(Baseline) \subseteq job[q].listed
        BY <1>2, <1>4 DEF KeptInv, Listed
    <2>2. CASE q = p
        BY <1>2, <1>3, <1>4, <2>1, <2>2
    <2>3. CASE q # p
        <3>1. job'[q].listed = job[q].listed
            BY <2>3 DEF Alone
        <3>2. FilesOf(Baseline') \subseteq FilesOf(Baseline)
            BY <1>3
        <3> QED
            BY <2>1, <3>1, <3>2
    <2> QED
        BY <2>2, <2>3
<1>7. Attended'
    <2>1. CASE Removes(p)
        <3>1. Baseline'.n # 0
            BY <1>2, <1>3, <2>1 DEF KeptInv, Numbered, Removes
        <3> QED
            BY <1>4, <2>1, <3>1 DEF Attended
    <2>2. CASE ~Removes(p)
        BY <1>2, <1>3, <1>4, <2>2 DEF KeptInv, Attended
    <2> QED
        BY <2>1, <2>2
<1> QED
    BY <1>5, <1>6, <1>7 DEF Kept

(* The directory goes once it is empty, and then the next one is renamed into *)
(* its place; it is not empty only if a mark came late.                       *)
LEMMA RemoveDirKept ==
    ASSUME KeptInv, NEW p \in Proc, RemoveDir(p), Alone(p)
    PROVE  Kept'
<1>0. pc \in [Proc -> PCs] /\ job \in [Proc -> Job] /\ dir \in [Dirs -> Directory]
    BY DEF KeptInv, TypeOK, PCs, Dirs
<1>1. /\ pc[p] = "unlink" /\ job[p].listed = {} /\ serial' = serial /\ late' = late /\ stops' = stops
      /\ job[p].to \in Dirs
    BY <1>0 DEF RemoveDir, counters, Job, Dirs
<1>2. CASE FilesOf(There(p)) = {}
    <2>1. dir' = [dir EXCEPT ![job[p].to] = Nothing] /\ pc'[p] = "rename" /\ job' = job
        BY <1>0, <1>2 DEF RemoveDir, Step
    <2>2. \A q \in Proc : pc'[q] = "unlink" => pc[q] = "unlink" /\ q # p
        BY <2>1 DEF Alone
    <2>3. CASE job[p].to = "baseline"
        <3>1. Baseline' = Nothing /\ Baseline'.n = 0
            BY <1>0, <2>1, <2>3 DEF Baseline, Dirs, Nothing
        <3>2. serial["baseline"] \in Nat
            BY DEF KeptInv, TypeOK
        <3>3. Numbered'
            BY <1>1, <2>1, <2>2, <3>1, <3>2 DEF KeptInv, Numbered
        <3>4. \A q \in Proc : ~Removes(q)'
            BY <2>1, <2>2, <3>1 DEF KeptInv, Numbered, Removes
        <3>5. Attended'
            BY <2>1, <2>3, <3>1 DEF Attended
        <3> QED
            BY <3>3, <3>4, <3>5 DEF Kept, Listed
    <2>4. CASE job[p].to = "previous"
        <3>1. Baseline' = Baseline
            BY <1>0, <2>1, <2>4 DEF Baseline, Dirs
        <3>2. \A q \in Proc : Removes(q)' <=> Removes(q)
            BY <2>1, <2>4, <3>1 DEF Removes, Alone
        <3>3. Numbered'
            BY <1>1, <2>1, <2>2, <3>1 DEF KeptInv, Numbered
        <3>4. Listed'
            BY <1>1, <2>1, <3>1, <3>2 DEF KeptInv, Listed
        <3>5. Attended'
            <4>1. \A q \in Proc : pc[q] = "rename" => pc'[q] = "rename"
                BY <2>1 DEF Alone
            <4> QED
                BY <1>1, <2>1, <3>1, <3>2, <4>1 DEF KeptInv, Attended
        <3> QED
            BY <3>3, <3>4, <3>5 DEF Kept
    <2> QED
        BY <1>1, <2>3, <2>4 DEF Dirs
<1>3. CASE FilesOf(There(p)) # {}
    <2>1. AfterCopy(p, FALSE) /\ dir' = dir
        BY <1>3 DEF RemoveDir
    <2>2. Baseline' = Baseline
        BY <2>1 DEF Baseline
    <2>3. pc'[p] \in {"idle", "mark", "facts"}
        BY <2>1, AfterCopyDoes DEF KeptInv
    <2>4. Removes(p) => late
        <3> SUFFICES ASSUME Removes(p), ~late PROVE FALSE
            OBVIOUS
        <3>1. FilesOf(Baseline) \subseteq {}
            BY <1>1 DEF KeptInv, Listed
        <3> QED
            BY <1>3, <3>1 DEF Removes, There, Baseline
    <2>5. \A q \in Proc : Removes(q)' => Removes(q) /\ q # p /\ job'[q] = job[q]
        BY <2>2, <2>3 DEF Removes, Alone
    <2>6. \A q \in Proc : q # p /\ Removes(q) => Removes(q)'
        BY <2>2 DEF Removes, Alone
    <2>7. \A q \in Proc : pc'[q] = "unlink" => pc[q] = "unlink" /\ job'[q] = job[q]
        BY <2>3 DEF Alone
    <2>8. \A q \in Proc : pc[q] = "rename" => pc'[q] = "rename" /\ job'[q] = job[q]
        BY <1>1 DEF Alone
    <2>9. Numbered'
        BY <1>1, <2>2, <2>7 DEF KeptInv, Numbered
    <2>10. Listed'
        BY <1>1, <2>2, <2>5 DEF KeptInv, Listed
    <2>11. Attended'
        BY <1>1, <2>2, <2>4, <2>6, <2>8 DEF KeptInv, Attended
    <2> QED
        BY <2>9, <2>10, <2>11 DEF Kept
<1> QED
    BY <1>2, <1>3

(* A directory renamed into place has a number nobody is removing, and facts. *)
LEMMA PublishKept ==
    ASSUME KeptInv, NEW p \in Proc, Publish(p), Alone(p)
    PROVE  Kept'
<1>0. /\ pc \in [Proc -> PCs] /\ job \in [Proc -> Job] /\ dir \in [Dirs -> Directory]
      /\ serial \in [Dirs -> Nat]
    BY DEF KeptInv, TypeOK, PCs, Dirs
<1>1. /\ pc[p] = "rename" /\ late' = late /\ stops' = stops /\ job[p].to \in Dirs
    BY <1>0 DEF Publish, counters, Job, Dirs
<1>2. pc'[p] \in {"idle", "mark", "facts"}
    BY AfterCopyDoes DEF Publish, KeptInv
<1>3. \A q \in Proc : pc'[q] = "unlink" => pc[q] = "unlink" /\ job'[q] = job[q]
    BY <1>2 DEF Alone
<1>4. \A q \in Proc : pc[q] = "unlink" => pc'[q] = "unlink" /\ job'[q] = job[q]
    BY <1>1 DEF Alone
<1>5. CASE job[p].to = "baseline" /\ There(p).n = 0
    <2> DEFINE x == \E h \in Hook \ {p} : Deciding(h)
               N == serial["baseline"] + 1
               d == [Nothing EXCEPT !.n = serial'["baseline"], !.facts = job[p].facts,
                                    !.meta = job[p].meta, !.by = p, !.exposed = x]
    <2>1. /\ serial' = [serial EXCEPT !["baseline"] = @ + 1]
          /\ dir' = [dir EXCEPT !["baseline"] = d]
        BY <1>5 DEF Publish
    <2>2. serial'["baseline"] = N /\ N \in Nat /\ N # 0
        BY <1>0, <2>1 DEF Dirs
    <2>3. d.n = serial'["baseline"] /\ d.facts = job[p].facts
        <3> HIDE DEF x
        <3> QED
            BY DEF Nothing
    <2>4. Baseline'.n = N /\ Baseline'.facts = job[p].facts
        <3> HIDE DEF d
        <3>1. Baseline' = d
            BY <1>0, <2>1 DEF Baseline, Dirs
        <3> QED
            BY <2>2, <2>3, <3>1
    <2> HIDE DEF N, d
    <2>5. job[p].facts # Missing
        BY <1>1, <1>5 DEF KeptInv, Staged, Pinning, Copying
    <2>6. \A q \in Proc : pc'[q] = "unlink" /\ job'[q].to = "baseline" =>
              job'[q].victim # 0 /\ job'[q].victim < N
        <3> SUFFICES ASSUME NEW q \in Proc, pc'[q] = "unlink", job'[q].to = "baseline"
                     PROVE  job'[q].victim # 0 /\ job'[q].victim < N
            OBVIOUS
        <3>1. job[q].victim # 0 /\ job[q].victim <= serial["baseline"] /\ job'[q] = job[q]
            BY <1>3 DEF KeptInv, Numbered
        <3>2. job[q].victim \in Nat /\ serial["baseline"] \in Nat
            BY <1>0 DEF Job, Dirs
        <3> QED
            BY <3>1, <3>2 DEF N
    <2>7. Numbered'
        <3>1. \A q \in Proc : job'[q].victim < N => job'[q].victim <= N
            <4> TAKE q \in Proc
            <4>1. job'[q] \in Job
                BY TypeStep, <1>5 DEF KeptInv, TypeOK, Next, SetBaseline
            <4> QED
                BY <2>2, <4>1 DEF Job
        <3> QED
            BY <2>2, <2>4, <2>6, <3>1 DEF Numbered
    <2>8. \A q \in Proc : ~Removes(q)'
        <3> SUFFICES ASSUME NEW q \in Proc, Removes(q)' PROVE FALSE
            OBVIOUS
        <3>1. job'[q].victim < N /\ job'[q].victim = N
            BY <2>4, <2>6 DEF Removes
        <3> QED
            BY <2>2, <3>1
    <2>9. Attended'
        BY <2>2, <2>4, <2>5 DEF Attended, Readable
    <2> QED
        BY <2>7, <2>8, <2>9 DEF Kept, Listed
<1>6. CASE ~(job[p].to = "baseline" /\ There(p).n = 0)
    <2>1. Baseline' = Baseline /\ serial'["baseline"] = serial["baseline"]
        <3>1. CASE job[p].to = "baseline"
            BY <1>6, <3>1 DEF Publish, Baseline
        <3>2. CASE job[p].to = "previous"
            BY <1>0, <3>2 DEF Publish, Baseline, Dirs
        <3> QED
            BY <1>1, <3>1, <3>2 DEF Dirs
    <2>2. \A q \in Proc : Removes(q)' <=> Removes(q)
        BY <1>3, <1>4, <2>1 DEF Removes
    <2>3. Numbered'
        BY <1>3, <2>1 DEF KeptInv, Numbered
    <2>4. Listed'
        BY <1>1, <1>3, <2>1, <2>2 DEF KeptInv, Listed, Removes
    <2>5. Attended'
        <3>1. \A q \in Proc : Baseline.n = 0 /\ pc[q] = "rename" /\ job[q].to = "baseline" =>
                  pc'[q] = "rename" /\ job'[q].to = "baseline"
            <4> SUFFICES ASSUME NEW q \in Proc, Baseline.n = 0, pc[q] = "rename",
                                job[q].to = "baseline"
                         PROVE  pc'[q] = "rename" /\ job'[q].to = "baseline"
                OBVIOUS
            <4>1. q # p
                BY <1>6 DEF There, Baseline
            <4> QED
                BY <4>1 DEF Alone
        <3> QED
            BY <1>1, <2>1, <2>2, <3>1 DEF KeptInv, Attended
    <2> QED
        BY <2>3, <2>4, <2>5 DEF Kept
<1> QED
    BY <1>5, <1>6

(* A mark or a marker goes into a directory that nobody is removing, or comes *)
(* late.                                                                      *)
LEMMA PutKept ==
    ASSUME KeptInv, NEW p \in Proc, WriteMark(p) \/ (p \in Hook /\ Stamp(p)), Alone(p)
    PROVE  Kept'
<1>0. pc \in [Proc -> PCs] /\ job \in [Proc -> Job] /\ dir \in [Dirs -> Directory]
    BY DEF KeptInv, TypeOK, PCs, Dirs
<1>1. /\ pc[p] \in {"mark", "stamp"} /\ pc'[p] \in {"idle", "stamp"}
      /\ serial' = serial /\ stops' = stops
    BY <1>0 DEF WriteMark, Stamp, Step, Returned, counters
<1>2. \A q \in Proc : pc'[q] \in {"unlink", "rename"} \/ pc[q] \in {"unlink", "rename"} =>
          pc'[q] = pc[q] /\ job'[q] = job[q]
    BY <1>1 DEF Alone
<1>3. Baseline'.n = Baseline.n /\ Baseline'.facts = Baseline.facts
      /\ (Baseline.n = 0 => Baseline' = Baseline)
    <2>1. Baseline \in Directory /\ Owner[p] \in Session \cup {NoSession}
        BY <1>0, ConstantsOK DEF Baseline, Dirs
    <2>2. CASE dir' = dir
        BY <2>2 DEF Baseline
    <2>3. CASE Baseline.n # 0 /\ Baseline' = With(Baseline, p, "mark", Owner[p])
        <3>1. /\ With(Baseline, p, "mark", Owner[p]).n = Baseline.n
              /\ With(Baseline, p, "mark", Owner[p]).facts = Baseline.facts
            <4>1. With(Baseline, p, "mark", Owner[p]).n = Baseline.n
                <5>1. \A q, s : With(Baseline, q, "mark", s).n = Baseline.n
                    BY <2>1, SameNumber
                <5> QED
                    BY <5>1
            <4>2. With(Baseline, p, "mark", Owner[p]).facts = Baseline.facts
                BY <2>1, WithMark
            <4> QED
                BY <4>1, <4>2
        <3> QED
            BY <2>3, <3>1
    <2>4. CASE Baseline.n # 0 /\ Baseline' = With(Baseline, p, "auto", TRUE)
        <3>1. /\ With(Baseline, p, "auto", TRUE).n = Baseline.n
              /\ With(Baseline, p, "auto", TRUE).facts = Baseline.facts
            <4>1. With(Baseline, p, "auto", TRUE).n = Baseline.n
                <5>1. \A q : With(Baseline, q, "auto", TRUE).n = Baseline.n
                    BY <2>1, SameNumber
                <5> QED
                    BY ONLY <5>1
            <4>2. With(Baseline, p, "auto", TRUE).facts = Baseline.facts
                BY <2>1, WithMarker
            <4> QED
                BY ONLY <4>1, <4>2
        <3> QED
            BY <2>4, <3>1
    <2>5. \/ dir' = dir
          \/ Baseline.n # 0 /\ dir' = [dir EXCEPT !["baseline"] = With(Baseline, p, "mark", Owner[p])]
          \/ Baseline.n # 0 /\ dir' = [dir EXCEPT !["baseline"] = With(Baseline, p, "auto", TRUE)]
        BY DEF WriteMark, Stamp, PutInBaseline
    <2> QED
        BY <1>0, <2>2, <2>3, <2>4, <2>5 DEF Baseline, Dirs
<1>4. \A q \in Proc : Removes(q)' <=> Removes(q)
    BY <1>2, <1>3 DEF Removes
<1>5. late' \/ ~late
    BY DEF WriteMark, Stamp, PutInBaseline
<1>6. ASSUME ~late', Baseline.n # 0, NEW q \in Proc PROVE ~Removes(q)
    <2>1. CASE q = p
        BY <1>1, <2>1 DEF Removes
    <2>2. CASE q # p
        BY <1>6, <2>2 DEF WriteMark, Stamp, PutInBaseline, Removes
    <2> QED
        BY <2>1, <2>2
<1>7. Numbered'
    BY <1>1, <1>2, <1>3 DEF KeptInv, Numbered
<1>8. Listed'
    <2> SUFFICES ASSUME NEW q \in Proc, Removes(q)', ~late'
                 PROVE  FilesOf(Baseline') \subseteq job'[q].listed
        BY DEF Listed
    <2>1. Removes(q) /\ Baseline.n = 0
        BY <1>4, <1>6
    <2> QED
        BY <2>1 DEF KeptInv, Numbered, Removes
<1>9. Attended'
    BY <1>1, <1>2, <1>3, <1>4, <1>5 DEF KeptInv, Attended, Readable
<1> QED
    BY <1>7, <1>8, <1>9 DEF Kept

(* Every other step of a process leaves the directories, and neither starts   *)
(* nor ends a removal.                                                        *)
LEMMA ActsKept ==
    ASSUME KeptInv, NEW p \in Proc, Acts(p)
    PROVE  Kept' /\ stops' \in Nat
<1>0. pc \in [Proc -> PCs] /\ job \in [Proc -> Job]
    BY DEF KeptInv, TypeOK, PCs
<1>1. Alone(p)
    BY ActsAlone DEF KeptInv
<1>2. stops' \in Nat
    <2>1. CASE Die(p)
        BY <2>1 DEF Die, KeptInv
    <2>2. CASE stops' = stops
        BY <2>2 DEF KeptInv
    <2> QED
        BY <2>1, <2>2 DEF Acts, StartSession, TryLock, CheckOther, Decide, StartGenerate, StartPin,
           WriteArtifacts, Generate, Rotate, WriteFacts, TruncateMeta, WriteMeta, SetBaseline, Stat,
           StageFacts, StageMeta, List, Unlink, RemoveDir, Publish, WriteMark, Stamp, counters
<1>3. CASE List(p) \/ Unlink(p) \/ RemoveDir(p) \/ Publish(p) \/ Die(p)
    BY <1>1, <1>2, <1>3, ListKept, UnlinkKept, RemoveDirKept, PublishKept, DieKept
<1>4. CASE WriteMark(p) \/ (p \in Hook /\ Stamp(p))
    BY <1>1, <1>2, <1>4, PutKept
<1>5. CASE \/ StartSession(p) \/ TryLock(p) \/ CheckOther(p) \/ Decide(p)
           \/ StartGenerate(p) \/ StartPin(p)
    <2>1. UNCHANGED <<dir, serial, late, stops>>
        BY <1>5 DEF StartSession, TryLock, CheckOther, Decide, StartGenerate, StartPin, disk, counters
    <2>2. pc[p] \notin {"unlink", "rename"} /\ pc'[p] \notin {"unlink", "rename"}
        BY <1>0, <1>5 DEF StartSession, TryLock, CheckOther, Decide, StartGenerate, StartPin, Step,
           Returned
    <2> QED
        BY <1>1, <1>2, <2>1, <2>2, StillKept
<1>6. CASE WriteArtifacts(p) \/ Stat(p) \/ StageFacts(p) \/ StageMeta(p)
    <2>1. UNCHANGED <<dir, serial, late, stops>>
        BY <1>6 DEF WriteArtifacts, Generate, Rotate, WriteFacts, TruncateMeta, WriteMeta, Stat,
           StageFacts, StageMeta, disk, counters
    <2>2. pc[p] \notin {"unlink", "rename"} /\ pc'[p] \notin {"unlink", "rename"}
        BY <1>0, <1>6 DEF WriteArtifacts, Generate, Rotate, WriteFacts, TruncateMeta, WriteMeta, Stat,
           StageFacts, StageMeta, Step, Returned
    <2> QED
        BY <1>1, <1>2, <2>1, <2>2, StillKept
<1> QED
    BY <1>3, <1>4, <1>5, <1>6 DEF Acts, SetBaseline

(* A repository without a baseline, and nobody in a call.                     *)
LEMMA KeptInit == Init => KeptInv
<1> SUFFICES ASSUME Init PROVE KeptInv
    OBVIOUS
<1>1. \A p \in Proc : pc[p] = "idle"
    BY DEF Init
<1>2. Baseline.n = 0 /\ serial["baseline"] = 0 /\ stops = 0
    BY DEF Init, Baseline, Nothing
<1>3. Staged
    BY <1>1 DEF Staged, Copying, Pinning
<1>4. Numbered /\ Listed /\ Attended
    BY <1>1, <1>2 DEF Numbered, Listed, Attended, Removes
<1> QED
    BY <1>2, <1>3, <1>4, TypeInit DEF KeptInv

(* The invariant is inductive.                                                *)
LEMMA KeptStep == KeptInv /\ [Next]_vars => KeptInv'
<1> SUFFICES ASSUME KeptInv, [Next]_vars PROVE KeptInv'
    OBVIOUS
<1>1. TypeOK'
    BY TypeStep DEF KeptInv
<1>2. CASE \E p \in Proc : Acts(p)
    BY <1>1, <1>2, StagedActs, ActsKept DEF KeptInv, Kept
<1>3. CASE UNCHANGED <<root, dir, serial, late, stops, pc, job>>
    <2>1. Baseline' = Baseline
        BY <1>3 DEF Baseline
    <2>2. Staged'
        BY <1>3 DEF KeptInv, Staged, Copying, Pinning
    <2>3. Numbered' /\ Listed'
        BY <1>3, <2>1 DEF KeptInv, Numbered, Listed, Removes
    <2>4. Attended'
        BY <1>3, <2>1 DEF KeptInv, Attended, Removes
    <2> QED
        BY <1>1, <1>3, <2>2, <2>3, <2>4 DEF KeptInv
<1>4. (\E p \in Proc : Acts(p)) \/ UNCHANGED <<root, dir, serial, late, stops, pc, job>>
    <2>1. CASE \E h \in Hook : SessionStart(h)
        BY <2>1 DEF SessionStart, Acts, Proc
    <2>2. CASE \E t \in Tool : StartGenerate(t) \/ StartPin(t)
        BY <2>2 DEF Acts, Proc
    <2>3. CASE \E p \in Proc : WriteArtifacts(p) \/ SetBaseline(p) \/ Die(p)
        BY <2>3 DEF Acts
    <2>4. CASE (\E s \in Session : EndSession(s)) \/ Edit \/ UNCHANGED vars
        BY <2>4 DEF EndSession, Edit, vars, disk, process, counters
    <2> QED
        BY <2>1, <2>2, <2>3, <2>4 DEF Next
<1> QED
    BY <1>2, <1>3, <1>4

(* copyArtifacts, "staging means a failure leaves the existing baseline       *)
(* untouched", for any sessions, children and tools: once all calls have      *)
(* returned and none died there is a baseline if ever one was pinned, unless  *)
(* a mark was written into a directory that was being removed.                *)
THEOREM PinsLeaveABaseline == Spec => []PinLeavesABaseline
<1>1. KeptInv => PinLeavesABaseline
    <2> SUFFICES ASSUME KeptInv, \A p \in Proc : pc[p] = "idle", stops = 0, ~late,
                        serial["baseline"] > 0
                 PROVE  Readable(Baseline)
        BY DEF PinLeavesABaseline
    <2> QED
        BY DEF KeptInv, Attended, Removes
<1> QED
    BY <1>1, KeptInit, KeptStep, PTL DEF Spec

=============================================================================
