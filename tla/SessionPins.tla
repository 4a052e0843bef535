----------------------------- MODULE SessionPins ----------------------------
(***************************************************************************)
(* The snapshot directory of one repository (.enola): the artifacts of the *)
(* last run, previous/ and baseline/, and who may replace the baseline.    *)
(*                                                                         *)
(*   internal/engine/engine.go     WriteArtifacts                          *)
(*   internal/engine/baseline.go   SetBaseline, rotatePrevious,            *)
(*                                 copyArtifacts, session marks            *)
(*   pkg/command/hook.go           pinBaselineSingleFlight                 *)
(*                                                                         *)
(* A snapshot is named by the version of the tree it describes. insights,  *)
(* snapshot.meta and receipt, which are written alike, are one file here.  *)
(***************************************************************************)
EXTENDS Integers

CONSTANTS
    Session,    \* agent sessions on the repository
    NoSession,  \* the owner of a command typed in a terminal
    Hook,       \* the detached session-start children
    Tool,       \* servers and command lines that snapshot and pin on request
    Owner,      \* the session of each of them
    MaxCalls,   \* bound on the requests to the tools
    MaxEdits,   \* bound on the edits of the tree
    MaxStops    \* bound on the calls that die half-way

Proc == Hook \cup Tool

ASSUME ConstantsOK ==
    /\ NoSession \notin Session
    /\ Hook \cap Tool = {}
    /\ Owner \in [Proc -> Session \cup {NoSession}]
    /\ \A h \in Hook : Owner[h] \in Session
    /\ MaxCalls \in Nat
    /\ MaxEdits \in Nat
    /\ MaxStops \in Nat

Free == "free"

ASSUME FreeIsNoProcess == Free \notin Proc

VARIABLES
    tree,     \* the version of the working tree
    root,     \* the artifacts of the last run
    dir,      \* previous/ and baseline/
    alive,    \* the agent sessions running
    started,  \* the agent sessions that have ever started
    lock,     \* the holder of session-pin.lock, or Free
    pc, job,  \* what each process does next, and its variables
    serial,   \* how often each directory was published
    late,     \* a mark was written into a directory being removed
    calls, stops

disk == <<root, dir, serial, late>>
sessions == <<alive, started>>
process == <<lock, pc, job>>
counters == <<calls, stops>>
vars == <<tree, disk, sessions, process, counters>>

-----------------------------------------------------------------------------

Missing == 0
Torn == -1
Content == {Missing, Torn} \cup (1..(MaxEdits + 1))

\* A directory: its files, the session in its pin mark, whether it has the
\* .auto-pinned marker; who published it, whether a session-start child was then
\* between its decision and its stamp, and whether it has a mark or a marker of
\* somebody else. "n" is 0 when there is none.
Directory == [n: Nat, facts: Content, meta: Content, mark: Session \cup {NoSession},
              auto: BOOLEAN, by: Proc \cup {Free}, exposed: BOOLEAN, mixed: BOOLEAN]

Files == {"facts", "meta", "mark", "auto"}

Nothing == [n |-> 0, facts |-> Missing, meta |-> Missing, mark |-> NoSession,
            auto |-> FALSE, by |-> Free, exposed |-> FALSE, mixed |-> FALSE]

\* The variables of a call: the version it read, the directory it publishes,
\* what it staged, the directory it removes and the files it still removes of it.
Job == [snap: Content, to: {"previous", "baseline"}, facts: Content, meta: Content,
        victim: Nat, listed: SUBSET Files]

Blank == [snap |-> Missing, to |-> "previous", facts |-> Missing, meta |-> Missing,
          victim |-> 0, listed |-> {}]

Init ==
    /\ tree = 1
    /\ root = [facts |-> Missing, meta |-> Missing]
    /\ dir = [d \in {"previous", "baseline"} |-> Nothing]
    /\ alive = {}
    /\ started = {}
    /\ lock = Free
    /\ pc = [p \in Proc |-> "idle"]
    /\ job = [p \in Proc |-> Blank]
    /\ serial = [d \in {"previous", "baseline"} |-> 0]
    /\ late = FALSE
    /\ calls = 0
    /\ stops = 0

Step(p, from, to) == pc[p] = from /\ pc' = [pc EXCEPT ![p] = to]

\* A call returns, and releases what it deferred.
Returned(p) ==
    /\ pc' = [pc EXCEPT ![p] = "idle"]
    /\ job' = [job EXCEPT ![p] = Blank]
    /\ lock' = IF lock = p THEN Free ELSE lock

Baseline == dir["baseline"]

\* LoadSnapshotDir succeeds.
Readable(d) == d.facts # Missing

-----------------------------------------------------------------------------
(* pinBaselineSingleFlight. *)

\* Mutant: the session is not among those that started.
StartSessionUnnoted(h) ==
    /\ Owner[h] \notin started
    /\ Step(h, "idle", "try")
    /\ alive' = alive \cup {Owner[h]}
    /\ UNCHANGED <<tree, disk, started, lock, job, counters>>

\* A session starts and its hook spawns the child.
StartSession(h) ==
    /\ Owner[h] \notin started
    /\ Step(h, "idle", "try")
    /\ started' = started \cup {Owner[h]}
    /\ alive' = alive \cup {Owner[h]}
    /\ UNCHANGED <<tree, disk, lock, job, counters>>

\* TryAcquire: a child that finds the lock held does nothing.
TryLock(h) ==
    /\ IF lock = Free
       THEN Step(h, "try", "other") /\ lock' = h
       ELSE Step(h, "try", "idle") /\ UNCHANGED lock
    /\ UNCHANGED <<tree, disk, sessions, job, counters>>

\* isOtherRunningSession
OthersPin(h) == Baseline.mark \in alive \ {Owner[h]}

\* Mutant: goes on whoever pinned.
CheckNobody(h) ==
    /\ Step(h, "other", "decide")
    /\ UNCHANGED <<tree, disk, sessions, lock, job, counters>>

\* otherSessionPin
CheckOther(h) ==
    /\ pc[h] = "other"
    /\ IF OthersPin(h) THEN Returned(h)
       ELSE Step(h, "other", "decide") /\ UNCHANGED <<lock, job>>
    /\ UNCHANGED <<tree, disk, sessions, counters>>

\* Mutant: refreshes any baseline that is not current.
DecideByAge(h) ==
    /\ \/ /\ ~Readable(Baseline) \/ Baseline.meta # tree
          /\ Step(h, "decide", "generate")
          /\ UNCHANGED <<lock, job>>
       \/ /\ pc[h] = "decide"
          /\ Readable(Baseline) /\ Baseline.meta = tree
          /\ Returned(h)
    /\ UNCHANGED <<tree, disk, sessions, counters>>

\* shouldAutoPin: no baseline, or an automatic one that is not current. One of
\* a dirty tree, or of another build, is refreshed though the tree is the same.
Decide(h) ==
    /\ \/ ~Readable(Baseline) /\ Step(h, "decide", "generate") /\ UNCHANGED <<lock, job>>
       \/ Readable(Baseline) /\ Baseline.auto
          /\ Step(h, "decide", "generate") /\ UNCHANGED <<lock, job>>
       \/ /\ pc[h] = "decide"
          /\ Readable(Baseline)
          /\ ~Baseline.auto \/ Baseline.meta = tree
          /\ Returned(h)
    /\ UNCHANGED <<tree, disk, sessions, counters>>

-----------------------------------------------------------------------------
(* GenerateSnapshot and WriteArtifacts. *)

\* A tool is asked by its session, or in a terminal.
Asked(t) == Owner[t] \in alive \cup {NoSession}

\* generate_snapshot, or the first half of "baseline pin".
StartGenerate(t) ==
    /\ Asked(t)
    /\ calls < MaxCalls
    /\ calls' = calls + 1
    /\ Step(t, "idle", "generate")
    /\ UNCHANGED <<tree, disk, sessions, lock, job, stops>>

\* The tree is read.
Generate(p) ==
    /\ Step(p, "generate", "rotate")
    /\ job' = [job EXCEPT ![p].snap = tree, ![p].to = "previous"]
    /\ UNCHANGED <<tree, disk, sessions, lock, counters>>

\* rotatePrevious: with no snapshot on disk there is nothing to rotate.
Rotate(p) ==
    /\ Step(p, "rotate", IF root.facts = Missing THEN "facts" ELSE "stage facts")
    /\ UNCHANGED <<tree, disk, sessions, lock, job, counters>>

\* facts.jsonl is renamed into place.
WriteFacts(p) ==
    /\ Step(p, "facts", "truncate")
    /\ root' = [root EXCEPT !.facts = job[p].snap]
    /\ UNCHANGED <<tree, dir, serial, late, sessions, lock, job, counters>>

\* The other artifacts are written in place by os.WriteFile.
TruncateMeta(p) ==
    /\ Step(p, "truncate", "meta")
    /\ root' = [root EXCEPT !.meta = Torn]
    /\ UNCHANGED <<tree, dir, serial, late, sessions, lock, job, counters>>

WriteMeta(p) ==
    /\ pc[p] = "meta"
    /\ root' = [root EXCEPT !.meta = job[p].snap]
    /\ IF p \in Hook THEN Step(p, "meta", "stat") /\ UNCHANGED <<job, lock>>
       ELSE Returned(p)
    /\ UNCHANGED <<tree, dir, serial, late, sessions, counters>>

-----------------------------------------------------------------------------
(* SetBaseline and copyArtifacts. *)

\* set_baseline, or the second half of "baseline pin".
StartPin(t) ==
    /\ Asked(t)
    /\ calls < MaxCalls
    /\ calls' = calls + 1
    /\ Step(t, "idle", "stat")
    /\ UNCHANGED <<tree, disk, sessions, lock, job, stops>>

\* Mutant: pins without asking whether there is a snapshot.
StatNothing(p) ==
    /\ Step(p, "stat", "stage facts")
    /\ job' = [job EXCEPT ![p].to = "baseline"]
    /\ UNCHANGED <<tree, disk, sessions, lock, counters>>

Stat(p) ==
    /\ pc[p] = "stat"
    /\ IF root.facts = Missing THEN Returned(p)
       ELSE /\ Step(p, "stat", "stage facts")
            /\ job' = [job EXCEPT ![p].to = "baseline"]
            /\ UNCHANGED lock
    /\ UNCHANGED <<tree, disk, sessions, counters>>

\* The artifacts are linked or copied into a temporary directory, in turn.
StageFacts(p) ==
    /\ Step(p, "stage facts", "stage meta")
    /\ job' = [job EXCEPT ![p].facts = root.facts]
    /\ UNCHANGED <<tree, disk, sessions, lock, counters>>

StageMeta(p) ==
    /\ Step(p, "stage meta", "list")
    /\ job' = [job EXCEPT ![p].meta = root.meta]
    /\ UNCHANGED <<tree, disk, sessions, lock, counters>>

There(p) == dir[job[p].to]

FilesOf(d) == {f \in Files : d[f] # Nothing[f]}

\* os.RemoveAll: the directory is listed, its files go one by one in the order
\* listed, then the directory. A file that came meanwhile makes it fail.
List(p) ==
    /\ Step(p, "list", IF There(p).n = 0 THEN "rename" ELSE "unlink")
    /\ job' = [job EXCEPT ![p].victim = There(p).n, ![p].listed = FilesOf(There(p))]
    /\ UNCHANGED <<tree, disk, sessions, lock, counters>>

Unlink(p) ==
    /\ pc[p] = "unlink"
    /\ \E f \in job[p].listed :
           /\ dir' = IF There(p).n = job[p].victim
                     THEN [dir EXCEPT ![job[p].to][f] = Nothing[f]] ELSE dir
           /\ job' = [job EXCEPT ![p].listed = @ \ {f}]
    /\ UNCHANGED <<tree, root, serial, late, sessions, lock, pc, counters>>

\* What follows a copy, or its failure: WriteArtifacts goes on without it.
AfterCopy(p, ok) ==
    LET next == IF job[p].to = "previous" THEN "facts" ELSE "mark"
    IN  IF job[p].to = "baseline" /\ ~ok THEN Returned(p)
        ELSE /\ Step(p, pc[p], next)
             /\ job' = [job EXCEPT ![p] = [Blank EXCEPT !.snap = job[p].snap]]
             /\ UNCHANGED lock

RemoveDir(p) ==
    /\ pc[p] = "unlink"
    /\ job[p].listed = {}
    /\ IF FilesOf(There(p)) = {}
       THEN /\ dir' = [dir EXCEPT ![job[p].to] = Nothing]
            /\ Step(p, "unlink", "rename")
            /\ UNCHANGED <<lock, job>>
       ELSE AfterCopy(p, FALSE) /\ UNCHANGED dir
    /\ UNCHANGED <<tree, root, serial, late, sessions, counters>>

\* A session-start child is between its decision and its stamp.
Deciding(h) == pc[h] \notin {"idle", "try", "other"}

Publish(p) ==
    /\ pc[p] = "rename"
    /\ IF There(p).n = 0
       THEN /\ serial' = [serial EXCEPT ![job[p].to] = @ + 1]
            /\ dir' = [dir EXCEPT ![job[p].to] =
                          [Nothing EXCEPT !.n = serial'[job[p].to], !.facts = job[p].facts,
                                          !.meta = job[p].meta, !.by = p,
                                          !.exposed = \E h \in Hook \ {p} : Deciding(h)]]
            /\ AfterCopy(p, TRUE)
       ELSE AfterCopy(p, FALSE) /\ UNCHANGED <<serial, dir>>
    /\ UNCHANGED <<tree, root, late, sessions, counters>>

\* A process puts a file into a directory.
With(d, p, field, value) == [d EXCEPT ![field] = value, !.mixed = @ \/ d.by # p]

\* A file is put into baseline/, whichever directory that is by now.
PutInBaseline(p, field, value) ==
    /\ dir' = IF Baseline.n = 0 THEN dir
              ELSE [dir EXCEPT !["baseline"] = With(Baseline, p, field, value)]
    /\ late' = (late \/ \E q \in Proc \ {p} :
                           /\ pc[q] = "unlink"
                           /\ job[q].to = "baseline"
                           /\ job[q].victim = Baseline.n
                           /\ Baseline.n # 0)

\* writeSessionMark of pin.json; where there is no baseline it fails, and the
\* call with it.
WriteMark(p) ==
    /\ pc[p] = "mark"
    /\ PutInBaseline(p, "mark", Owner[p])
    /\ IF p \in Hook /\ Baseline.n # 0
       THEN Step(p, "mark", "stamp") /\ UNCHANGED <<lock, job>>
       ELSE Returned(p)
    /\ UNCHANGED <<tree, root, serial, sessions, counters>>

\* The child stamps the baseline as automatic.
Stamp(h) ==
    /\ pc[h] = "stamp"
    /\ PutInBaseline(h, "auto", TRUE)
    /\ Returned(h)
    /\ UNCHANGED <<tree, root, serial, sessions, counters>>

-----------------------------------------------------------------------------
(* The world outside. *)

Edit ==
    /\ tree <= MaxEdits
    /\ tree' = tree + 1
    /\ UNCHANGED <<disk, sessions, process, counters>>

EndSession(s) ==
    /\ s \in alive
    /\ alive' = alive \ {s}
    /\ UNCHANGED <<tree, disk, started, process, counters>>

\* A call fails, or its process dies.
Die(p) ==
    /\ pc[p] # "idle"
    /\ stops < MaxStops
    /\ stops' = stops + 1
    /\ Returned(p)
    /\ UNCHANGED <<tree, disk, sessions, calls>>

-----------------------------------------------------------------------------

SessionStart(h) == StartSession(h) \/ TryLock(h) \/ CheckOther(h) \/ Decide(h) \/ Stamp(h)

WriteArtifacts(p) ==
    Generate(p) \/ Rotate(p) \/ WriteFacts(p) \/ TruncateMeta(p) \/ WriteMeta(p)

SetBaseline(p) ==
    \/ Stat(p) \/ StageFacts(p) \/ StageMeta(p) \/ List(p) \/ Unlink(p) \/ RemoveDir(p)
    \/ Publish(p) \/ WriteMark(p)

Next ==
    \/ \E h \in Hook : SessionStart(h)
    \/ \E t \in Tool : StartGenerate(t) \/ StartPin(t)
    \/ \E p \in Proc : WriteArtifacts(p) \/ SetBaseline(p) \/ Die(p)
    \/ \E s \in Session : EndSession(s)
    \/ Edit

Spec == Init /\ [][Next]_vars

-----------------------------------------------------------------------------
(* Properties. *)

\* Every variable keeps its type.
TypeOK ==
    /\ tree \in 1..(MaxEdits + 1)
    /\ root \in [facts: Content, meta: Content]
    /\ dir \in [{"previous", "baseline"} -> Directory]
    /\ alive \subseteq started
    /\ started \subseteq Session
    /\ lock \in Hook \cup {Free}
    /\ pc \in [Proc -> {"idle", "try", "other", "decide", "generate", "rotate",
                        "facts", "truncate", "meta", "stat", "stage facts", "stage meta",
                        "list", "unlink", "rename", "mark", "stamp"}]
    /\ job \in [Proc -> Job]
    /\ serial \in [{"previous", "baseline"} -> Nat]
    /\ late \in BOOLEAN

\* A session-start child takes a readable baseline away.
Takes(h) ==
    /\ pc[h] = "unlink"
    /\ Readable(Baseline)
    /\ Baseline.n = job[h].victim
    /\ ~Readable(Baseline')
    /\ pc'[h] = "unlink"

\* hook.go, "a deliberate pin may not be replaced by us": a session-start child
\* never replaces a baseline that somebody else pinned on purpose, unless that
\* pin was published while a child was between its decision and its stamp.
DeliberatePinSurvives ==
    [][\A h \in Hook :
           Takes(h) /\ Baseline.by \in Tool => Baseline.exposed]_vars

\* hook.go, otherSessionPin: a session-start child never replaces the baseline
\* of another session that is still running, with the same exception, and unless
\* the directory has the mark of a call whose own pin had been replaced by then.
OtherSessionsPinSurvives ==
    [][\A h \in Hook :
           Takes(h) /\ OthersPin(h) => Baseline.exposed \/ Baseline.mixed]_vars

\* copyArtifacts, "staging means a failure leaves the existing baseline
\* untouched": however publishers overlap, once all calls have returned and none
\* died there is a baseline if ever one was pinned, unless a mark was written
\* into a directory that was being removed.
PinLeavesABaseline ==
    /\ \A p \in Proc : pc[p] = "idle"
    /\ stops = 0
    /\ ~late
    /\ serial["baseline"] > 0
    => Readable(Baseline)

=============================================================================
