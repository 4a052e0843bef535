---------------------------- MODULE HistoryStore ----------------------------
(***************************************************************************)
(* The local architecture history of enola: an append-only log of revision *)
(* headers (log.jsonl) and numbered segments of stored contents (seg/),    *)
(* written by any number of enola processes.                               *)
(*                                                                         *)
(*   internal/history/recorder.go   Recorder.Record                        *)
(*   internal/history/write.go      Append, RewriteSummary, retention      *)
(*   internal/history/blobs.go      writeBlob, pruneSegments               *)
(*   internal/history/gc.go         GC                                     *)
(*   pkg/history/{read,blobs}.go    Read, Load                             *)
(*                                                                         *)
(* One step is one access to the shared directory, so every interleaving   *)
(* of processes and every crash between two accesses is a behaviour.       *)
(***************************************************************************)
EXTENDS Integers, FiniteSets

CONSTANTS
    Proc,          \* enola processes sharing one history directory
    Observation,   \* snapshots a process may be asked to record
    NoObs,         \* "no observation", not in Observation
    NoId,          \* "no snapshot id": the parent of a segment's first revision
    NoGit,         \* the commit of a revision taken outside a git tree
    SegmentLen,    \* segmentLen: revisions chained from one base
    WorkingKeep,   \* effective Options.WorkingKeep, negative to disable
    RevisionKeep,  \* effective Options.RevisionKeep, negative to disable
    BlobKeep,      \* effective Options.BlobKeep, negative to disable
    Unlocked,      \* processes whose filelock.Acquire fails
    Collectors,    \* processes that may run GC
    Importers,     \* processes that call Append without a Recorder
    Menders,       \* processes that may run RewriteSummary
    Passes,        \* the GCOptions in use
    TornWrites,    \* whether an appended line may be cut short
    MaxCalls,      \* bound on the calls started
    MaxStops       \* bound on the calls that die half-way

\* The effective keeps are never 0, because 0 selects the default.
ASSUME ConstantsOK ==
    /\ \A o \in Observation :
           /\ o.dirty \in BOOLEAN
           /\ o.multi \in BOOLEAN
           /\ o.at \in Nat
           /\ o.id # NoId
    /\ NoObs \notin Observation
    /\ SegmentLen \in Nat \ {0}
    /\ WorkingKeep \in Int \ {0}
    /\ RevisionKeep \in Int \ {0}
    /\ BlobKeep \in Int \ {0}
    /\ Unlocked \subseteq Proc
    /\ Collectors \subseteq Proc
    /\ Importers \subseteq Proc
    /\ Menders \subseteq Proc
    /\ Passes \subseteq [working: BOOLEAN, clusters: BOOLEAN, before: Nat]
    /\ TornWrites \in BOOLEAN
    /\ MaxCalls \in Nat
    /\ MaxStops \in Nat

Free == "free"

ASSUME FreeIsNoProcess == Free \notin Proc

VARIABLES
    log,      \* the complete, parsable lines of log.jsonl
    lines,    \* how many lines were ever written; numbers them in file order
    torn,     \* log.jsonl ends in a partial line
    corrupt,  \* the number of a complete line that does not parse, or 0
    marker,   \* the format marker: "none", "ours" or "foreign"
    disk,     \* the revision files under seg/
    lock,     \* the holder of log.jsonl.lock, or Free
    pc,       \* what each process does next
    cur,      \* the entry a process is preparing
    view,     \* the log as a process read it
    doomed,   \* the segments a process is removing
    opts,     \* the GCOptions of a running collection
    memo,     \* Recorder.recorded for this history root
    calls,    \* calls started so far
    stops     \* calls that died half-way so far

file == <<log, lines, torn, corrupt, marker>>
local == <<cur, view, doomed, opts>>
counters == <<calls, stops>>
vars == <<file, disk, lock, pc, local, memo, counters>>

-----------------------------------------------------------------------------
(* Data. *)

Ids == {o.id : o \in Observation}

NoBlob == <<0, 0>>
Address == Nat \X Nat

\* A log line. "line" is its place in the file: a rewrite keeps the order of
\* the lines it keeps, so it keeps their numbers. "base" is the line the
\* summary was measured against, or says that it counts the whole graph
\* (Summary.Initial) or nothing (Summary.NoBase).
Entry == [line: Nat, obs: Observation, seq: Nat, base: Int, blob: Address]

Initial == 0
NoBase == -1

\* An entry being prepared: "parent" is the snapshot its patch is computed
\* against, "remember" whether a Recorder made the call.
Draft == [obs: Observation \cup {NoObs}, seq: Nat, base: Int, blob: Address,
          parent: Ids \cup {NoId}, remember: BOOLEAN]

Blank == [obs |-> NoObs, seq |-> 0, base |-> Initial, blob |-> NoBlob,
          parent |-> NoId, remember |-> FALSE]

\* A file seg/NNNNNN/MMMM.rev.gz: the snapshot it holds and the one its patch
\* was computed against.
File == [seg: Nat, mem: Nat, id: Ids, parent: Ids \cup {NoId}]

\* PruneWorking, PruneClusterCopies, and the cutoff of ThinOlderThan (0: none).
GCOptions == [working: BOOLEAN, clusters: BOOLEAN, before: Nat]

NoOpts == [working |-> FALSE, clusters |-> FALSE, before |-> 0]

Working(e) == e.obs.commit = NoGit \/ e.obs.dirty

Stored(v) == {e \in v : e.blob # NoBlob}

Segments == {f.seg : f \in disk}

\* pkg/history.Read succeeds (an absent log reads as no entries): a line that
\* does not parse is dropped only from the end of a log cut short.
Readable ==
    /\ marker # "foreign"
    /\ corrupt # 0 => torn /\ \A e \in log : e.line < corrupt

\* The entry appended last.
IsLast(e, S) == e \in S /\ \A d \in S : d.line <= e.line

\* The newest k entries of S.
Newest(S, k) == {e \in S : Cardinality({d \in S : d.line > e.line}) < k}

Highest(S) == CHOOSE n \in S \cup {0} : \A m \in S : m <= n

-----------------------------------------------------------------------------
(* Replaying stored contents: pkg/history.Load. *)

Present(s, i) == \E f \in disk : f.seg = s /\ f.mem = i

\* Member i applies to what the members before it rebuilt.
Linked(s, i) ==
    \E f \in disk :
        /\ f.seg = s /\ f.mem = i
        /\ IF i = 1
           THEN f.parent = NoId
           ELSE \E g \in disk : g.seg = s /\ g.mem = i - 1 /\ f.parent = g.id

Whole(a) == a[2] >= 1 /\ \A i \in 1..a[2] : Linked(a[1], i)

\* The first member that does not apply is a missing one.
Thinned(a) ==
    \E i \in 1..a[2] : ~Present(a[1], i) /\ \A j \in 1..(i - 1) : Linked(a[1], j)

\* Load hands back a snapshot: the chain applies, and the revision at its end
\* is the one the entry refers to.
Loads(e) ==
    /\ Whole(e.blob)
    /\ \E f \in disk : <<f.seg, f.mem>> = e.blob /\ f.id = e.obs.id

-----------------------------------------------------------------------------
(* Retention and numbering. *)

\* Mutant: numbers the new line after the last one, whatever was dropped.
NextSeqByCount(v) == Cardinality(v) + 1

NextSeq(v) == 1 + Highest({e.seq : e \in v})

\* Mutant: looks at the directory alone.
NextSegmentOnDisk(v) == 1 + Highest(Segments)

NextSegment(v) == 1 + Highest(Segments \cup {e.blob[1] : e \in v})

SameRevision(d, e) ==
    d.obs.id = e.obs.id /\ d.obs.commit = e.obs.commit /\ d.obs.dirty = e.obs.dirty

Rivals(v, e) == {d \in v : Working(d) /\ d.obs.commit = e.obs.commit}

\* Mutant: forgets that the incoming revision takes a slot.
EvictWorkingLate(v, e) ==
    IF WorkingKeep < 0 \/ ~Working(e)
    THEN v
    ELSE (v \ Rivals(v, e)) \cup Newest(Rivals(v, e), WorkingKeep)

EvictWorking(v, e) ==
    IF WorkingKeep < 0 \/ ~Working(e)
    THEN v
    ELSE (v \ Rivals(v, e)) \cup Newest(Rivals(v, e), WorkingKeep - 1)

\* Mutant: drops one revision more than the cap asks for.
CapRevisionsEarly(v) ==
    IF RevisionKeep < 0 THEN v ELSE Newest(v, RevisionKeep - 2)

CapRevisions(v) ==
    IF RevisionKeep < 0 THEN v ELSE Newest(v, RevisionKeep - 1)

Retained(v, e) == CapRevisions(EvictWorking(v, e))

InSegments(v, T) == Cardinality({e \in Stored(v) : e.blob[1] \in T})

\* Mutant: counts the segment itself, so the window closes one segment early.
OutOfWindowEarly(v) ==
    {s \in Segments : BlobKeep >= 0
        /\ InSegments(v, {t \in Segments : t >= s}) >= BlobKeep}

\* Mutant: keeps as many segments as full ones would need.
OutOfWindowBySegments(v) ==
    {s \in Segments : BlobKeep >= 0
        /\ Cardinality({t \in Segments : t > s}) * SegmentLen >= BlobKeep + SegmentLen}

\* The segments pruneSegments removes: those older than the newest ones that
\* hold BlobKeep revisions between them.
OutOfWindow(v) ==
    {s \in Segments : BlobKeep >= 0
        /\ InSegments(v, {t \in Segments : t > s}) >= BlobKeep}

-----------------------------------------------------------------------------
(* What a collection removes: GC. *)

\* Mutant: either wish removes both kinds.
GCKeptEither(v, o) ==
    {e \in v : ~((o.working \/ o.clusters) /\ (Working(e) \/ e.obs.multi))}

\* The entries a collection keeps in the log.
GCKept(v, o) ==
    {e \in v : ~(o.working /\ Working(e)) /\ ~(o.clusters /\ e.obs.multi)}

Referring(v, o, seg) == {e \in Stored(GCKept(v, o)) : e.blob[1] = seg}

\* Mutant: one old member is enough.
GCThinnedEarly(v, o) ==
    {s \in Segments : \E e \in Referring(v, o, s) : e.obs.at < o.before}

\* Segments whose every remaining member is older than the cutoff.
GCThinned(v, o) ==
    {s \in Segments : /\ Referring(v, o, s) # {}
                      /\ \A e \in Referring(v, o, s) : e.obs.at < o.before}

\* Segments no remaining entry refers to.
GCOrphans(v, o) == {s \in Segments : Referring(v, o, s) = {}}

-----------------------------------------------------------------------------
(* Calls. *)

Init ==
    /\ log = {} /\ lines = 0 /\ torn = FALSE /\ corrupt = 0
    /\ marker \in {"none", "ours", "foreign"}
    /\ disk = {}
    /\ lock = Free
    /\ pc = [p \in Proc |-> "idle"]
    /\ cur = [p \in Proc |-> Blank]
    /\ view = [p \in Proc |-> {}]
    /\ doomed = [p \in Proc |-> {}]
    /\ opts = [p \in Proc |-> NoOpts]
    /\ memo = [p \in Proc |-> NoObs]
    /\ calls = 0 /\ stops = 0

Goto(p, at) == pc' = [pc EXCEPT ![p] = at]

Start(p) ==
    /\ pc[p] = "idle"
    /\ calls < MaxCalls
    /\ calls' = calls + 1
    /\ UNCHANGED stops

\* The call returns: the deferred Release runs and its local state is gone.
Return(p) ==
    /\ Goto(p, "idle")
    /\ lock' = IF lock = p THEN Free ELSE lock
    /\ cur' = [cur EXCEPT ![p] = Blank]
    /\ view' = [view EXCEPT ![p] = {}]
    /\ doomed' = [doomed EXCEPT ![p] = {}]
    /\ opts' = [opts EXCEPT ![p] = NoOpts]

\* Append returned no error, so a Recorder remembers the snapshot.
Remember(p) ==
    memo' = [memo EXCEPT ![p] = IF cur[p].remember THEN cur[p].obs ELSE @]

\* Recorder.Record for the snapshot this Recorder recorded last: nothing is
\* appended. (memo keeps the whole observation; the code compares its id.)
RecordAgain(p, o) ==
    /\ Start(p)
    /\ memo[p] # NoObs /\ memo[p].id = o.id
    /\ memo' = [memo EXCEPT ![p] = o]
    /\ UNCHANGED <<file, disk, lock, pc, local>>

\* Mutant: takes what the output directory holds without comparing its id with
\* the newest revision's.
BasesOfAny(S) ==
    IF S = {} THEN {Initial} ELSE {Initial, NoBase} \cup {e.line : e \in S}

\* What a summary may be measured against: the newest revision, when an output
\* directory still holds it or its contents can be rebuilt, and otherwise
\* nothing. It counts the whole graph when the comparison itself fails.
BasesOf(S) ==
    IF S = {} THEN {Initial} ELSE {Initial, NoBase} \cup {e.line : e \in {d \in S : IsLast(d, S)}}

\* Recorder.Record up to its call of Append. No lock is held. A read that fails
\* is taken for an empty history, and it may fail once and then succeed.
Record(p, o) ==
    /\ Start(p)
    /\ memo[p] = NoObs \/ memo[p].id # o.id
    /\ \E base \in {Initial} \cup (IF Readable THEN BasesOf(log) ELSE {}) :
           cur' = [cur EXCEPT ![p] = [Blank EXCEPT !.obs = o, !.base = base,
                                                   !.remember = TRUE]]
    /\ Goto(p, "acquire")
    /\ UNCHANGED <<file, disk, lock, view, doomed, opts, memo>>

\* A backfill calls Append without a Recorder, with a summary it measured
\* against a revision it recorded or loaded before.
Import(p, o) ==
    /\ p \in Importers
    /\ Start(p)
    /\ \E base \in {Initial} \cup {e.line : e \in log} :
           cur' = [cur EXCEPT ![p] = [Blank EXCEPT !.obs = o, !.base = base]]
    /\ Goto(p, "acquire")
    /\ UNCHANGED <<file, disk, lock, view, doomed, opts, memo>>

\* Mutant: goes on without waiting for the holder.
AcquireAtOnce(p) ==
    /\ pc[p] \in {"acquire", "mend"}
    /\ lock' = IF p \in Unlocked \/ lock # Free THEN lock ELSE p
    /\ Goto(p, IF pc[p] = "acquire" THEN "read" ELSE "reread")
    /\ UNCHANGED <<file, disk, local, memo, counters>>

\* filelock.Acquire blocks until the lock is free; when it fails, the call
\* goes on without it.
Acquire(p) ==
    /\ pc[p] \in {"acquire", "mend"}
    /\ IF p \in Unlocked THEN UNCHANGED lock ELSE lock = Free /\ lock' = p
    /\ Goto(p, IF pc[p] = "acquire" THEN "read" ELSE "reread")
    /\ UNCHANGED <<file, disk, local, memo, counters>>

\* Read refuses the store: Append and RewriteSummary return its error.
Refuse(p) ==
    /\ pc[p] \in {"read", "reread"}
    /\ ~Readable
    /\ Return(p)
    /\ UNCHANGED <<file, disk, memo, counters>>

\* The marker after stampFormat.
Stamped == IF marker = "none" THEN "ours" ELSE marker

\* The snapshot tells nothing the last revision did not.
SkipSame(p) ==
    /\ pc[p] = "read"
    /\ Readable
    /\ \E e \in log : IsLast(e, log) /\ SameRevision(e, cur[p])
    /\ marker' = Stamped
    /\ Return(p)
    /\ Remember(p)
    /\ UNCHANGED <<log, lines, torn, corrupt, disk, counters>>

\* Append takes the revision up; Options.Contents may be nil.
TakeUp(p) ==
    /\ pc[p] = "read"
    /\ Readable
    /\ ~\E e \in log : IsLast(e, log) /\ SameRevision(e, cur[p])
    /\ marker' = Stamped
    /\ view' = [view EXCEPT ![p] = log]
    /\ cur' = [cur EXCEPT ![p].seq = NextSeq(log)]
    /\ \E contents \in BOOLEAN : Goto(p, IF contents THEN "place" ELSE "publish")
    /\ UNCHANGED <<log, lines, torn, corrupt, disk, lock, doomed, opts, memo, counters>>

-----------------------------------------------------------------------------
(* Storing contents: writeBlob. *)

\* Mutant: the header keeps the reference.
GiveUpLate(p) ==
    /\ doomed' = [doomed EXCEPT ![p] = {}]
    /\ Goto(p, "publish")
    /\ UNCHANGED cur

\* A header only: storing the contents failed.
GiveUpContents(p) ==
    /\ cur' = [cur EXCEPT ![p].blob = NoBlob, ![p].parent = NoId]
    /\ doomed' = [doomed EXCEPT ![p] = {}]
    /\ Goto(p, "publish")

\* Mutant: takes the parent's own place in the chain.
PlaceOver(p, a, id) ==
    /\ cur' = [cur EXCEPT ![p].blob = IF a[2] > 1 THEN <<a[1], a[2] - 1>> ELSE a,
                          ![p].parent = id]
    /\ Goto(p, "store")
    /\ UNCHANGED doomed

PlaceAt(p, a, id) ==
    /\ cur' = [cur EXCEPT ![p].blob = a, ![p].parent = id]
    /\ Goto(p, "store")
    /\ UNCHANGED doomed

\* readBlobState and the choice of segment and member. The cut of a patch that
\* is too large for its base is left to chance.
Place(p) ==
    /\ pc[p] = "place"
    /\ \/ /\ \A e \in Stored(view[p]) : IsLast(e, Stored(view[p])) => Thinned(e.blob)
          /\ PlaceAt(p, <<NextSegment(view[p]), 1>>, NoId)
       \/ \E e \in Stored(view[p]) :
             /\ IsLast(e, Stored(view[p]))
             /\ \/ /\ Whole(e.blob)
                   /\ e.blob[2] < SegmentLen
                   /\ e.obs.epoch = cur[p].obs.epoch
                   /\ \E f \in disk :
                         /\ <<f.seg, f.mem>> = e.blob
                         /\ PlaceAt(p, <<f.seg, f.mem + 1>>, f.id)
                \/ /\ Whole(e.blob)
                   /\ PlaceAt(p, <<e.blob[1] + 1, 1>>, NoId)
                \/ /\ ~Whole(e.blob) /\ ~Thinned(e.blob)
                   /\ GiveUpContents(p)
    /\ UNCHANGED <<file, disk, lock, view, opts, memo, counters>>

\* writeRevisionFile: staged and renamed over whatever the address held.
Store(p) ==
    /\ pc[p] = "store"
    /\ \/ /\ disk' = {f \in disk : <<f.seg, f.mem>> # cur[p].blob}
                     \cup {[seg |-> cur[p].blob[1], mem |-> cur[p].blob[2],
                            id |-> cur[p].obs.id, parent |-> cur[p].parent]}
          /\ Goto(p, "prune")
          /\ UNCHANGED <<cur, doomed>>
       \/ GiveUpContents(p) /\ UNCHANGED disk
    /\ UNCHANGED <<file, lock, view, opts, memo, counters>>

\* pruneSegments reads the log and the directory, and picks what to drop.
Prune(p) ==
    /\ pc[p] = "prune"
    /\ doomed' = [doomed EXCEPT ![p] = IF Readable THEN OutOfWindow(log) ELSE {}]
    /\ Goto(p, "sweep")
    /\ UNCHANGED <<file, disk, lock, cur, view, opts, memo, counters>>

\* A segment this process removes before segment t: the oldest first, and a
\* collection the orphans before the segments it thins.
Sooner(p, t, s) ==
    LET thinned(x) == pc[p] = "gcSweep" /\ Referring(view[p], opts[p], x) # {}
    IN IF thinned(s) = thinned(t) THEN t < s ELSE thinned(s)

\* os.RemoveAll takes one file of the segment whose turn it is.
SweepFile(p) ==
    /\ pc[p] \in {"sweep", "gcSweep"}
    /\ \E f \in disk :
          /\ f.seg \in doomed[p]
          /\ \A g \in disk : g.seg \in doomed[p] => ~Sooner(p, g.seg, f.seg)
          /\ disk' = disk \ {f}
    /\ UNCHANGED <<file, lock, pc, local, memo, counters>>

Swept(p) == \A f \in disk : f.seg \notin doomed[p]

\* Pruning ends, or fails half-way: then the header carries no reference.
EndPrune(p) ==
    /\ pc[p] = "sweep"
    /\ \/ /\ Swept(p)
          /\ doomed' = [doomed EXCEPT ![p] = {}]
          /\ Goto(p, "publish")
          /\ UNCHANGED cur
       \/ GiveUpContents(p)
    /\ UNCHANGED <<file, disk, lock, view, opts, memo, counters>>

-----------------------------------------------------------------------------
(* Publishing the header. *)

\* Mutant: the observation this Recorder made before.
HeaderOfMemo(p) == [line |-> lines + 1, obs |-> memo[p], seq |-> cur[p].seq,
                    base |-> cur[p].base, blob |-> cur[p].blob]

Header(p) == [line |-> lines + 1, obs |-> cur[p].obs, seq |-> cur[p].seq,
              base |-> cur[p].base, blob |-> cur[p].blob]

\* rewrite: the log is exactly S, and ends in a newline.
Rewrite(S) == log' = S /\ torn' = FALSE /\ corrupt' = 0

\* Append's last access: a rewrite when retention drops a line, otherwise one
\* appended line. A line appended to a partial one makes one line with it.
Publish(p) ==
    /\ pc[p] = "publish"
    /\ LET kept == Retained(view[p], cur[p]) IN
       \/ /\ kept # view[p]
          /\ Rewrite(kept \cup {Header(p)})
          /\ lines' = lines + 1
       \/ /\ kept = view[p] /\ ~torn
          /\ log' = log \cup {Header(p)}
          /\ lines' = lines + 1
          /\ UNCHANGED <<torn, corrupt>>
       \/ /\ kept = view[p] /\ torn
          /\ torn' = FALSE
          /\ corrupt' = IF corrupt = 0 THEN lines + 1 ELSE corrupt
          /\ UNCHANGED <<log, lines>>
    /\ Return(p)
    /\ Remember(p)
    /\ UNCHANGED <<marker, disk, counters>>

\* The process dies, or the disk fills up, while the line is written.
Tear(p) ==
    /\ TornWrites
    /\ pc[p] = "publish"
    /\ Retained(view[p], cur[p]) = view[p]
    /\ stops < MaxStops
    /\ stops' = stops + 1
    /\ torn' = TRUE
    /\ \E m \in {memo[p], NoObs} : memo' = [memo EXCEPT ![p] = m]
    /\ Return(p)
    /\ UNCHANGED <<log, lines, corrupt, marker, disk, calls>>

\* The process dies between two accesses, or the next one returns an error.
\* The kernel releases a dead process's lock.
Stop(p) ==
    /\ pc[p] # "idle"
    /\ stops < MaxStops
    /\ stops' = stops + 1
    /\ \E m \in {memo[p], NoObs} : memo' = [memo EXCEPT ![p] = m]
    /\ Return(p)
    /\ UNCHANGED <<file, disk, calls>>

-----------------------------------------------------------------------------
(* RewriteSummary, at the end of a backfill: reconcileInitial has read the   *)
(* log without the lock and picked a line and its new base.                  *)

\* The revisions that come before e in time.
Earlier(e) == {d \in log : d.obs.at < e.obs.at \/ (d.obs.at = e.obs.at /\ d.line < e.line)}

Precedes(d, e) == d \in Earlier(e) /\ Earlier(e) \subseteq Earlier(d) \cup {d}

Mend(p) ==
    /\ p \in Menders
    /\ Start(p)
    /\ Readable
    /\ Cardinality(log) >= 2
    /\ \E e \in log : \E base \in {Initial} \cup {d.line : d \in {c \in log : Loads(c)}} :
          /\ Loads(e)
          /\ IF Earlier(e) = {}
             THEN e.base # Initial /\ base = Initial
             ELSE /\ e.base = Initial
                  /\ \E d \in log : Precedes(d, e) /\ base = d.line
          /\ cur' = [cur EXCEPT ![p] = [Blank EXCEPT !.obs = e.obs, !.seq = e.seq,
                                                     !.base = base]]
    /\ Goto(p, "mend")
    /\ UNCHANGED <<file, disk, lock, view, doomed, opts, memo>>

\* Mutant: the first line with the id, whatever its sequence number.
TargetById(p, S) ==
    {e \in S : /\ e.obs.id = cur[p].obs.id
               /\ \A d \in S : d.obs.id = cur[p].obs.id => e.line <= d.line}

\* The first line with the id and the sequence number asked for.
Target(p, S) ==
    {e \in S : /\ e.obs.id = cur[p].obs.id /\ e.seq = cur[p].seq
               /\ \A d \in S : d.obs.id = cur[p].obs.id /\ d.seq = cur[p].seq
                                  => e.line <= d.line}

Reread(p) ==
    /\ pc[p] = "reread"
    /\ Readable
    /\ IF Target(p, log) = {}
       THEN Return(p)
       ELSE /\ view' = [view EXCEPT ![p] = log]
            /\ Goto(p, "rewrite")
            /\ UNCHANGED <<lock, cur, doomed, opts>>
    /\ UNCHANGED <<file, disk, memo, counters>>

RewriteSummary(p) ==
    /\ pc[p] = "rewrite"
    /\ LET old == Target(p, view[p]) IN
       Rewrite((view[p] \ old) \cup {[e EXCEPT !.base = cur[p].base] : e \in old})
    /\ Return(p)
    /\ UNCHANGED <<lines, marker, disk, memo, counters>>

-----------------------------------------------------------------------------
(* GC. It takes no lock. *)

\* GC reads the log, and returns when the store cannot be read.
Collect(p, o) ==
    /\ p \in Collectors
    /\ Start(p)
    /\ Readable
    /\ view' = [view EXCEPT ![p] = log]
    /\ opts' = [opts EXCEPT ![p] = o]
    /\ Goto(p, "gcList")
    /\ UNCHANGED <<file, disk, lock, cur, doomed, memo>>

\* GC lists the segments and picks what to remove; a dry run ends here.
GCList(p) ==
    /\ pc[p] = "gcList"
    /\ \/ /\ doomed' = [doomed EXCEPT ![p] = GCOrphans(view[p], opts[p])
                                              \cup GCThinned(view[p], opts[p])]
          /\ Goto(p, "gcSweep")
          /\ UNCHANGED <<lock, cur, view, opts>>
       \/ Return(p)
    /\ UNCHANGED <<file, disk, memo, counters>>

GCSwept(p) ==
    /\ pc[p] = "gcSweep"
    /\ Swept(p)
    /\ IF GCKept(view[p], opts[p]) = view[p]
       THEN Return(p)
       ELSE Goto(p, "gcRewrite") /\ UNCHANGED <<lock, local>>
    /\ UNCHANGED <<file, disk, memo, counters>>

GCRewrite(p) ==
    /\ pc[p] = "gcRewrite"
    /\ Rewrite(GCKept(view[p], opts[p]))
    /\ Return(p)
    /\ UNCHANGED <<lines, marker, disk, memo, counters>>

-----------------------------------------------------------------------------
(* The specification. *)

\* The accesses of a call under way.
Step(p) ==
    \/ Acquire(p) \/ Refuse(p) \/ SkipSame(p) \/ TakeUp(p)
    \/ Place(p) \/ Store(p) \/ Prune(p) \/ SweepFile(p) \/ EndPrune(p)
    \/ Publish(p)
    \/ Reread(p) \/ RewriteSummary(p)
    \/ GCList(p) \/ GCSwept(p) \/ GCRewrite(p)

Begin(p) ==
    \/ \E o \in Observation : Record(p, o) \/ RecordAgain(p, o) \/ Import(p, o)
    \/ Mend(p)
    \/ \E o \in Passes : Collect(p, o)

\* Every call has ended and no more will start.
Finished ==
    /\ calls = MaxCalls
    /\ \A p \in Proc : pc[p] = "idle"
    /\ UNCHANGED vars

Next == \/ \E p \in Proc : Begin(p) \/ Step(p) \/ Tear(p) \/ Stop(p)
        \/ Finished

Spec == Init /\ [][Next]_vars

-----------------------------------------------------------------------------
(* Properties. *)

\* The timeline the log holds.
H == INSTANCE History
     WITH revisions <- {[line |-> e.line, obs |-> e.obs] : e \in log}, count <- lines

(* The log is a History: every observation enters it whole and at once, after  *)
(* the revisions it was compared with and instead of those whose retention it *)
(* uses up, however the accesses of Append, RewriteSummary and GC interleave  *)
(* and wherever a process dies.                                               *)
RefinesHistory == H!Spec

\* What a process may do next.
Control == {"idle", "acquire", "read", "place", "store", "prune", "sweep", "publish",
            "mend", "reread", "rewrite", "gcList", "gcSweep", "gcRewrite"}

(* Every variable has its type. *)
TypeOK ==
    /\ log \subseteq Entry
    /\ lines \in Nat
    /\ torn \in BOOLEAN
    /\ corrupt \in Nat
    /\ marker \in {"none", "ours", "foreign"}
    /\ disk \subseteq File
    /\ lock \in Proc \cup {Free}
    /\ pc \in [Proc -> Control]
    /\ cur \in [Proc -> Draft]
    /\ view \in [Proc -> SUBSET Entry]
    /\ doomed \in [Proc -> SUBSET Nat]
    /\ opts \in [Proc -> GCOptions]
    /\ memo \in [Proc -> Observation \cup {NoObs}]
    /\ calls \in 0..MaxCalls
    /\ stops \in 0..MaxStops

(* Sequence numbers name revisions on the command line (@12): they are        *)
(* distinct and grow down the log, across eviction, crashes and collections   *)
(* (nextSeq).                                                                 *)
SeqOrder == \A d, e \in log : d.line < e.line => d.seq < e.seq

(* No two revisions claim the same stored contents, although addresses of     *)
(* files left by crashes are written again (writeBlob, nextSegment).          *)
OneAddress ==
    \A d, e \in log : d.blob = e.blob /\ d.blob # NoBlob => d.line = e.line

(* A revision's contents are rebuilt exactly or reported as thinned: retention *)
(* and crashes never leave a chain that does not apply (Load, pruneSegments). *)
NeverDamaged == \A e \in Stored(log) : Loads(e) \/ Thinned(e.blob)

(* The caps hold at all times, the incoming revision included.                *)
WithinCaps ==
    /\ RevisionKeep > 0 => Cardinality(log) <= RevisionKeep
    /\ WorkingKeep > 0 =>
         \A e \in log : Working(e) => Cardinality(Rivals(log, e)) <= WorkingKeep

(* A torn line costs that line: the log stays readable.                       *)
StaysReadable == corrupt = 0

PrunedBy(p, e) == pc[p] = "gcRewrite" /\ e \notin GCKept({e}, opts[p])

(* A revision leaves the log only when retention has newer ones in its stead, *)
(* or when a collection was asked to prune its kind.                          *)
LeavesByPolicyOnly ==
    [][\A e \in log : \/ \E d \in log' : d.line = e.line
                      \/ H!Superseded(e, log')
                      \/ \E p \in Proc : PrunedBy(p, e)]_vars

(* A header that refers to contents is published only once they can be        *)
(* replayed (the order of writeBlob and the append).                          *)
ContentsBeforeHeader ==
    [][\A e \in log' : e.line > lines /\ e.blob # NoBlob => Loads(e)']_vars

Replayable == {e \in log : Loads(e)}

(* Pruning keeps the contents of BlobKeep revisions: no step that removes     *)
(* files makes fewer of them replayable.                                      *)
PruningKeepsWindow ==
    [][log' = log /\ Cardinality(Replayable') < Cardinality(Replayable)
         => Cardinality(Replayable') >= BlobKeep]_vars

(* No step takes away the contents of the newest stored revision, the one a   *)
(* next patch is computed against: not pruning, which runs while it still is  *)
(* the newest, and not the file written over what a crash left behind         *)
(* (writeRevisionFile, pruneSegments).                                        *)
NewestStays ==
    [][\A e \in Stored(log) : IsLast(e, Stored(log)) /\ Loads(e) => Loads(e)']_vars

(* A collection makes unreadable only what it was asked to: working or        *)
(* multi-repository revisions it prunes, and revisions older than its cutoff. *)
CollectsAsAsked ==
    [][\A e \in log, p \in Proc :
          pc[p] = "gcSweep" /\ Loads(e) /\ ~Loads(e)'
            => e \notin GCKept({e}, opts[p]) \/ e.obs.at < opts[p].before]_vars

(* A delta a Recorder appends was measured against the revision it follows in *)
(* the log, not against an older one or one of another scope (predecessor).   *)
SummaryAgainstPrevious ==
    [][\A p \in Proc, e \in log' :
          pc[p] = "publish" /\ cur[p].remember /\ e.line > lines =>
          \/ e.base \in {Initial, NoBase}
          \/ \E d \in log : IsLast(d, log) /\ e.base = d.line]_vars

(* No revision's counts are a delta from itself or from a later revision,     *)
(* although reconcileInitial picks the line to mend and its new base from a   *)
(* log it read before RewriteSummary takes the lock.                          *)
DeltaFromEarlier ==
    \A d, e \in log : e.base = d.line => d.line < e.line \/ d \in Earlier(e)

=============================================================================
