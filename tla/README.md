# Verification of enola

TLA+ models of [enola](../src/README.md), the TLC runs that check them, and
theorems about them checked by TLAPS. Paths below are relative to the
repository (`src/` here).

Reading order: [the system](#the-system), [the plan](#plan),
then one section per part that is modelled: [the history store](#the-history-store),
[the shared history](#the-shared-history), [the usage counters](#the-usage-counters),
[the snapshot directory and its baselines](#the-snapshot-directory-and-its-baselines);
last [what is not modelled](#not-modelled).

## The system

enola computes a typed graph of a code base, a *snapshot*, and keeps it for
agents and people to query. A snapshot comes out of one pipeline: file walker,
extractors, fact store, linking, graph, explainers, renderers (`ARCHITECTURE.md`).
Most of the 2500 files are that pipeline, and most of it is pure: a function
of the source tree, run once. What makes enola hard to get right is around it.
Several enola processes on one repository are the normal case, one MCP server
per agent terminal, plus command-line runs and hooks that agents call. They
share directories and nothing else: no daemon, no database, a file lock at best.

| Part | Its state | Operations | Hard because | Correct when |
|---|---|---|---|---|
| history store (`internal/history/{write,blobs,gc,recorder}.go`, `pkg/history/{read,blobs}.go`, `pkg/command/backfill.go`) | `log.jsonl`, one revision a line; segments of stored contents `seg/NNNNNN/MMMM.rev.gz`, each file a patch against the one before; a format marker; a lock file | `Record`, `Append`, `RewriteSummary`, `GC`, `Read`, `Load` | many processes, a lock that may fail, a collection without a lock, crashes between two files, retention that rewrites | no revision lost but by policy; what the log refers to replays or is thinned; numbers are unique |
| shared history (`internal/history/share.go`, `pkg/history/share.go`) | content-addressed entries, one hash chain per machine, a local anchor | `Push`, `Pull`, `SharedGC`, `VerifyShare` | a file syncer in between, two pushes of one machine, crash between chain, anchor and entries | an honest store verifies; a missing entry is pruned or a gap, never both |
| snapshot directory (`internal/engine/baseline.go`, `WriteArtifacts`) | artifacts in `.enola/`, `previous/`, `baseline/` | write, rotate, pin, load | writers and readers in several processes, no lock | a reader sees no mixture |
| engine (`internal/engine/{engine,pipeline}.go`) | an atomic pointer to the published bundle, a generation mutex | generate, append, link later, read | readers next to a generation | a reader sees one bundle |
| drift check (`internal/engine/drift.go`) | hashes remembered under a file stamp | hash, remember, forget | time stamps have a resolution | never "unchanged" for a changed file |
| usage tracker and instance registry (`pkg/status`) | counters shared by all processes of a machine, one record per process | record, flush, migrate, heartbeat, close | merge of deltas, failed writes, a lock-free migration | no increment lost or counted twice |
| session hooks (`pkg/command/hook*.go`, `internal/hookstate`) | pinned baseline and its markers, gate state per session | session start, stop, pre- and post-tool | detached children, single flight, deliberate pins | a deliberate pin stays; a session is graded against its own start |
| parallel map (`internal/parallel`) | a channel and a slice | `MapFiles` | completion order, cancellation | results in the order of the items |
| pure algorithms (patches, diff, cycles, globs, selectors) | none | | boundary cases | agree with a reference definition |

How they interact: a generation publishes a bundle, writes the artifacts of the
snapshot directory, and hands the snapshot to the history's Recorder. `Pull`
and the backfill reach the history store only through `Append`. The hooks drive
the engine, pin baselines and take the file lock without waiting. The tracker is
called after every tool call.

`PROJECT.json` lists every component with its files, and under `hazards` the
places where this code can go wrong in ways a test would hardly reach.

## Plan

The order was the order of importance: what is kept for good first, then what
several processes or machines write.

| | Module | State |
|---|---|---|
| 1 | `History`, `HistoryStore`: the timeline and the store that implements it | modelled, checked, thirteen theorems |
| 2 | `HistoryShare`: entries, chains, anchors, prune records, and a syncer that delivers files in any order | modelled, checked, five theorems |
| 3 | `SessionPins`: artifacts written, rotated and pinned as single file accesses, and the session-start child that decides whose pin may be replaced | modelled, checked, four theorems |
| 4 | `UsageTracker`: counters merged by several processes, a migration, close | modelled, checked, with liveness, three theorems |
| 5 | `DriftMemo`: hashes remembered under a file's stamp | open |
| 6 | an engine's bundle with deferred linking; the search gate; the instance registry | open, low yield: see [Not modelled](#not-modelled) |

Every safety and action property of a passing run is also a theorem, but
`TruncationIsCaught` of the shared history, which stays with TLC, and so does the one
liveness property (`CallsReturn` of the usage counters).

## The history store

**Modules.** `History` is what a history promises: a timeline of observations.
`HistoryStore` is the code. `MCHistoryStore` gives TLC its constants.
`HistoryStore_proofs`, `HistoryStore_refinement` and `HistoryStore_contents` hold
the theorems.

### Abstract specification: `History`

The state is the timeline (`revisions`, each with its place) and the number of
places handed out. `Record` adds one observation at the end, unless the newest
revision is the same one (graph, commit, cleanliness); it may drop revisions
only if a cap's worth of newer ones stands in their stead, and the caps hold
after it. `Prune` removes exactly the kinds that were asked for. Nothing else
happens: there are no processes, no lock, no files.

### State of `HistoryStore`

| Variable | Code |
|---|---|
| `log` | the complete lines of `log.jsonl` that parse. A line keeps its number `line`: rewrites keep the order of the lines they keep |
| `lines` | how many numbers were given out |
| `torn` | the file ends in a partial line |
| `corrupt` | the first complete line that does not parse (0: none) |
| `marker` | the format marker: absent, this format, another one |
| `disk` | the revision files. A file is its address, the snapshot it rebuilds (`id`) and the one its patch was computed against (`parent`) |
| `lock` | who holds `log.jsonl.lock` |
| `pc` | where each process is in its call |
| `cur`, `view`, `doomed`, `opts` | locals of a call: the entry in preparation, the log as read, the segments to remove, the options of a collection |
| `memo` | `Recorder.recorded` for this root |
| `calls`, `stops` | bounds, see below |

An observation is a record: graph id, commit, dirty or not, epoch, time, and
whether several repositories make it up. An entry has its observation, sequence
number, contents address, and the line its summary was counted against.

### Actions

One action is one access to the shared directory.

| Action | Code |
|---|---|
| `Record`, `RecordAgain` | `Recorder.Record` up to its call of `Append`: the memo, the newest entry, the base of the summary. No lock is held. Its read of the log, or its comparison, may fail, and the summary then says that the history begins here (`BasesOf`) |
| `Import` | a backfill's call of `Append` |
| `Acquire` | `filelock.Acquire`; a process in `Unlocked` goes on without |
| `Refuse`, `SkipSame`, `TakeUp` | `Append` lines 114-126: unreadable store, nothing new, or a new revision with its number |
| `Place` | `readBlobState` and the choice of segment and member |
| `Store` | `writeRevisionFile` |
| `Prune`, `SweepFile`, `EndPrune` | `pruneSegments`; `os.RemoveAll` takes one file at a time |
| `Publish` | eviction, then a rewrite by rename or one appended line; the lock is released and the memo set |
| `Tear` | the appended line is cut short |
| `Stop` | the process dies or an access fails, at any point; the kernel releases its lock |
| `Mend`, `Reread`, `RewriteSummary` | `reconcileInitial`'s choice, then `RewriteSummary` under the lock |
| `Collect`, `GCList`, `SweepFile`, `GCSwept`, `GCRewrite` | `GC`, without the lock |

A process that died starts again with its memo forgotten (or kept, where an
access failed and the process lives).

### Properties

*Log.* `RefinesHistory`: the log is a `History`. Its timeline is the set of
lines with their observations. Every step of Append's dozen is a stutter except
the one that publishes, and there the caps, the comparison with the newest
revision and the reason for each dropped line must hold *at that moment*, though
they were decided from a log read earlier. `SeqOrder`, `WithinCaps`.

*Contents.* `OneAddress`: no two revisions claim the same file, although files
of dead appends are written over. `NeverDamaged`: contents are rebuilt or
thinned, never a chain that does not apply. `NewestStays`: no step takes away the
contents the next patch is based on. `ContentsBeforeHeader`: a reference is
published only once it can be followed. `PruningKeepsWindow`: as many revisions
as promised stay replayable. `CollectsAsAsked`: a collection by itself takes
only what it was asked to take.

`NewestStays` is an action property because the state property is false. With a
cap of one on working revisions and on contents and segments of one, the newest
revision is stored, an older one is pruned; a further working revision whose
contents could not be stored evicts the newest, and the newest stored revision of
the log is then the pruned one. No step took contents away: the log came to refer
to older ones. `readBlobState` finds that chain thinned and starts another segment.

*Summaries.* `SummaryAgainstPrevious`: where a Recorder counted a delta, it is
against the revision its line follows. `DeltaFromEarlier`: no delta is counted from
its own or from a later revision, whatever a repair decided on a log it had read
before it took the lock. Both speak of deltas only. A summary that counts the whole
graph, and so says that the history begins with it (`Initial`), can be recorded in
the middle of a history: `summarize` falls back to it when the previous side cannot
be counted (`recorder.go:373`), and `lastEntry` takes a log it failed to read once for
an empty one (`recorder.go:217-222`). `Record` offers it in every state, so nothing
here depends on its absence, and `pkg/history/history.go:181` ("the first snapshot of
a repository") does not hold of it.

*Deadlock.* Every history run checks that a step is possible until all calls have
ended: an early return that kept the lock would leave another process at `Acquire` for
ever, which TLC reports.

### Runs

| Run | Instance | Shows |
|---|---|---|
| `history_append` | 2 processes, both may mend; 3 observations (a commit, two dirty trees on it, two epochs); segments of 2, caps 2 (working), 3 (all), 2 (contents); torn lines; 4 calls, 1 death; symmetry in the processes; 2.8 million states | nine properties of Append and RewriteSummary under the lock |
| `history_serial` | 1 process, whose lock fails, that appends, imports, mends and collects with each kind of pruning; 4 calls, 1 death; 3.7 million states | `RefinesHistory` and `OneAddress` with collections, `CollectsAsAsked`, `SummaryAgainstPrevious` |
| `history_torn_line` | expects a violation of `StaysReadable` | a torn line glued to the next append makes the log unreadable |
| `history_gc_race` | expects a violation of `LeavesByPolicyOnly` | a collection rewrites the log without a revision recorded meanwhile |
| `history_summary_race` | expects a violation of `SummaryAgainstPrevious` | two recorders count against one base |

The bounds. With segments of 2 and 4 calls a chain fills, a second segment
starts, the contents window closes and both caps evict. Two processes are
enough for the races here: the lock-free parts (the recorder's read, the choice of a
repair, a collection) each race with one writer. Imports and appends without the lock
run in one process only (`history_serial`). One death per run covers every
single-crash recovery; a second call by the same process plays the recovery, and
a third one checks it. `MaxCalls` and `MaxStops` only bound the runs: nothing in
the model reads them otherwise, and the theorems hold for any value of them.

The violations are statements of the repository's own comments and documents;
`findings` in `PROJECT.json` quotes them. Each has a short counterexample: three
calls at most. Two more disagreements are known and have no run, because they take one
process: the false beginning above, and the Recorder's memo, which compares snapshot
ids only (`recorder.go:103`), so a running server does not record a commit that
changes nothing, although `write.go:88` says it is recorded.

### Proofs

For all constants that satisfy `ConstantsOK`: any number of processes, any
observations, caps and passes, with torn lines and deaths. `Typing` holds as it stands.
The others assume that nobody gets in the way of a call that
changes the log (`Undisturbed`): either there is one process (`Alone`), which may go
without the lock and collect as it likes, or there are any number of them, each
gets the lock it asks for (`Unlocked = {}`) and none collects (`Collectors = {}`).
The second case needs both parts: without the lock two processes take one number
and one address, and a collection rewrites a stale log: `history_gc_race` shows the
latter, and the mutant of `Acquire` that does not wait the former.

The log, `HistoryStore_proofs`:

- `Typing`: `Spec => []TypeOK`. Not inductive alone: what a process publishes is
  an entry only because a call that has begun has an observation (`Prepared`), and
  the next number exists only because the numbers in use have an upper bound
  (`Bounded`; `Highest` chooses a maximum, which an infinite set would not have).
- `SequenceNumbers`: `Spec => []SeqOrder`. The invariant `SerialInv` says why: a
  process that is not alone holds the lock from `Acquire` on (`Held`), so what it
  read is still the log, also in the middle of a collection (`Current`), so the
  number it took is above all in the log (`Numbered`); and lines are numbered in file
  order (`Placed`). The step proof has a case for each action.
- `RetentionHolds`: `Spec => []WithinCaps`. On top of
  `SerialInv`, the log is finite with one entry per line (`CapsInv`). The lemma
  `NewestBounds` says that the newest k entries are at most k, `RetainedWithinCaps`
  that what eviction keeps leaves a slot in both caps, and `SameLines` that a
  rewritten summary adds no line.
- `SummaryBase`: `Spec => SummaryAgainstPrevious`, for one process (`Alone`), whatever
  it imports, mends and collects between its Recorder's calls. `Record` counts before
  `Append` takes the lock, so the lock does not help a second recorder:
  `history_summary_race` has that behaviour. `Measured` follows the base from the
  recorder's read to the publication; it says nothing where the log was unreadable,
  because `Append` then refuses, nor of a summary that is no delta.
- `Deltas`: `Spec => []DeltaFromEarlier`. A repair picks the line to mend and its new
  base long before it holds the lock (`Decided`): the number it looks for is not one
  that will be given out again, and the base comes before whatever line has it, so the
  rewrite finds the line it was meant for or none.

The log as a timeline, `HistoryStore_refinement`:

- `Refinement`: `Spec => RefinesHistory`. Each step maps to a step of `History` or
  leaves the timeline (`Timeline`) as it is. `RefInv` adds two things to the
  invariants above: what a process is appending is not the newest revision of the
  log as it is *now*, though it compared it with the log it read (`Unseen`), and a
  collection under way has options that were given to it (`Requested`). The
  work is in `Publish`: `NewestAbove` counts the entries retention keeps above one
  it drops, and `DroppedIsSuperseded` makes of them the cap's worth of newer
  revisions that `History` asks for. `CollectionPrunes` maps the rewrite that ends a
  collection to `History`'s `Prune`: the log it was worked out from is still the
  log.
- `PolicyOnly`: `Spec => LeavesByPolicyOnly`, the property that `history_gc_race`
  shows violated with a collection beside another process.

Stored contents, `HistoryStore_contents`:

- `Addresses` (`OneAddress`), `ChainsApply` (`NeverDamaged`), `ContentsFirst`
  (`ContentsBeforeHeader`), `NewestKept` (`NewestStays`), `WindowKept`
  (`PruningKeepsWindow`) share one invariant, `ContentsInv`. Addresses grow with the
  lines (`AddressOrder`), and the one a process writes to is after all of them
  (`Beyond`), so an address left behind by a crash may be written again: nobody
  refers to it. The patch about to be stored applies to a member that replays
  (`Based`), and what was stored replays until it is published (`Replays`). Pruning
  takes only what `BlobKeep` stored revisions have superseded (`Window`), and where
  nobody collects it goes from the oldest segment on, so whatever lies above a file
  that is left is whole (`Intact`). `RemovedThins` is the lemma behind `NeverDamaged`: taking one
  file out of a chain that replays, or is thinned, leaves one that does or is.
  `CollectKeeps` and `GCRewriteKeeps` are the steps of a collection. `NewestKept` and
  `WindowKept` moreover assume `Collectors = {}`: a collection takes segments by
  their age, from the middle too (so `Intact` fails), and may well be asked to take
  the newest contents.
- `CollectionsAsAsked`: `Spec => CollectsAsAsked`. A segment was picked because all
  revisions the collection keeps in it are older than its cutoff (`Aged`), and
  the log it was picked from is still the log.

No liveness is stated of this store: after `Acquire` nothing in a call waits.

### Abstractions and limits

- A patch is the pair of snapshots it leads between; that patches compute and
  apply correctly is assumed. Whether a patch is too
  large for its base is left to chance, so every chain shape occurs.
- What a summary counts is reduced to what it was counted against.
- Temporary files and empty segment directories are not state: they are never
  read as contents, and a number taken by an empty directory only makes the next
  number larger.
- A line cut exactly before its newline is a whole line to the reader and not
  modelled; `torn` is a line that does not parse. A torn line is the only data
  corruption: bits do not rot, and a write that returned is not lost.
- The caps are the same for all processes. `Pull` uses the default ones.
- `reconcileInitial` reads the log once and repairs several lines; here each
  repair reads again, so only the staleness within one repair is modelled.
- `memo` keeps the observation where the code keeps its id; only the id is
  compared.
- A read that fails at `Record` counts as an empty history, as in `lastEntry`; whether
  `Append`'s own read fails too is decided by the file (`Readable`).
- `stampFormat` is one step with the accesses around it: a format marker that is cut
  short or cannot be written is not modelled.
- `GC` racing with appends is in `history_gc_race` only. It loses revisions, so
  properties of the log are checked with collections run alone.

## The shared history

**Modules.** `HistoryShare`, with `MCHistoryShare` for TLC; `HistoryShare_lemmas`,
`HistoryShare_proofs` and `HistoryShare_chains` for TLAPS.

A shared history is a directory that several machines write into through a file
syncer, or through one mount. It has one immutable file per revision, named by
its snapshot id, and one append-only file of hash-chained records per machine.
Each machine remembers, locally, the hash of the last record it pushed.

### State and actions

| Variable | Code |
|---|---|
| `where` | the replica of the directory a machine works on. Two machines on one replica share it as over a mount |
| `entry` | `entries/` of each replica: the payload of a file, or `Absent`, and a counter of its changes, which the syncer compares as it would modification times |
| `chain` | `chains/` of each replica: the lines of each machine's file |
| `local` | the revisions of a machine's local history that can be pushed |
| `anchor` | the `share-state/*.head` file |
| `lock` | the lock of each chain file |
| `pc`, `job` | locals of a call |

A line has a body (a revision, or the ids a collection removed) and the hash of
the line before it. A hash is the sequence of bodies it commits to: two hashes
are equal exactly when all that is hashed is equal. A line cut short is
`Partial`, one that a later append completed is `Malformed`. A payload is reduced
to `build`, what it says of the build that wrote it: everything else in it is
determined by the snapshot id.

| Action | Code |
|---|---|
| `StartPush`, `OpenPush`, `TakeLock`, `PutEntry`, `Publish`, `WriteAnchor` | `Push`: read the local log, open the store and check the anchor, lock, write entry files one by one, append all records in one write, remember the head |
| `Tear` | the machine dies within that write: some whole lines and a part of the next are in the file |
| `StartGC`, `TakeLock`, `Publish`, `RemoveEntry`, `EndGC` | `SharedGC`: policy over all chains, the prune record on the own chain, then the files |
| `StartPull`, `PullNext`, `EndPull` | `Pull`: `LoadPayload` of each record in turn, then `Append` to the local history |
| `Observe` | the local history grows by itself |
| `Die` | an error or a death anywhere else; a head file being written is left empty |
| `SyncChain`, `SyncEntry` | external: the syncer brings one file, in any order and at any time. A chain comes from the machine that writes it; of two entry files the one changed later wins, and two changed side by side go either way |
| `Truncate` | external: somebody cuts a chain |

### Properties

- `OnlyARaceForks`: on every replica a record is chained to the one before it; or, where
  several commands of its machine can overlap (`Crowded`), to an earlier one of the same
  chain; or it stands behind a line that completed one cut short.
- `NothingGoesSilently`: a recorded revision has its file, or a published record
  says it was pruned. The order "prune record, then remove" and the order "entry,
  then record" are both needed, across pushes that put back what a collection is
  taking away.
- `ConvergedIsClean`: once every file has arrived everywhere, `VerifyShare` finds no
  gap, no break but the fork of a race, and no payload that differs from a record of it,
  for every snapshot whose takers write the same bytes; even in the middle of a push or
  a collection, or after one died.
- `RefusedOnlyForALoss`: a push is refused only if the chain really lost the
  remembered record, however the pushes of the machine overlap.
- `TruncationIsCaught`: a push does not go on over a truncation. The anchor is compared
  when the store is opened, the append comes later and keeps the anchor of before, so a
  chain cut in between still leaves a head that no longer chains. That is claimed where
  a machine runs one command at a time: another push of the same machine may
  remember a new head in that window.
- `BreakMeansTampering`, `SameSnapshotSameBytes` (violated): see below.

`share` runs two processes on one machine and one on another whose file system has no
locks, on every placement over two replicas, with three calls, one death, one
truncation, torn writes, two snapshots with different payloads, one of them taken by
both machines, and policies by count and by age; symmetry in the two processes and in
the replicas; 1.4 million states. Three calls are enough for two pushes that overlap
after a pull, for push, collect and push again, or for a push of each machine and a
collection. A truncation switches off the properties that are not claimed after one, and
lets a refusal happen.

`share_two_pushes` expects a violation. `Push` reads the head of its own chain before it
takes the chain's lock (`share.go:159` and `161`; `SharedGC` has its from opening the
store, `share.go:574`), so two commands of one machine chain their records to one
predecessor, and nobody can open the store any more. The reader calls that a record that was
"edited, removed or reordered" (`pkg/history/share.go:267`). `docs/HISTORY.md` has push run
"from CI, a cron entry, or by hand", and the lock is there for that case.

`share_divergent` expects a violation. Snapshot ids do not cover the extractor
version, the epoch and the providers that ran, which are in the payload. Two
local builds (both of version `dev`) that agree on the facts write different
bytes under one name, and one of the two chain records then reads as tampering.

A push cut short in its first line leads to the same message, with no race: the first
record of the next push completes the torn line into a malformed one, which `verify`
passes over, and its second record then has no predecessor that can be read. The
model has it (`Tear`, `Malformed`), and `OnlyARaceForks` and `ConvergedIsClean` except
what stands behind such a line; it has no run of its own.

### Theorems

`HistoryShare_proofs`, for any machines, processes, replicas, snapshots, policies,
deaths, cut writes and truncations. `HistoryShare_lemmas` has what they rest on:
what `Written` does to a chain file, above all that its records stay where they
are (`AppendedRecords`), that a malformed line stays (`MalformedStays`), and that a
prune record appended alone is read or leaves such a line (`PruneAppended`).

- `ShareTyping`: `Spec => []TypeOK`. `TypeOK` is not inductive: the record `Pull`
  takes next exists only because no two records of its list are of one line
  (`Rests`, `FirstIn`).
- `RetentionIsHonest`: `Spec => []NothingGoesSilently`. The claim does not
  depend on locks, nor on one command at a time. The invariant `Told` holds while
  nobody truncates a chain. A file that is there was written (`Counted`) and
  one that was removed is explained by a published prune record or a broken
  chain (`Gone`). A recorded revision was written on its machine's replica
  (`Held`), and so was every one a push is about to record; a collection has a
  prune record of exactly its list in hand until it is published, and what is left
  of the list is explained once it removes files (`Ready`). Chains only grow
  (`Grown`) and files only get newer (`Risen`), so explanations stay and each action
  has to answer for its own process.

`HistoryShare_chains`, under the same conditions: any number of processes on a machine,
and any locks may fail.

- `OnlyRacesFork`: `Spec => []OnlyARaceForks`, and `AnchorsHold`:
  `Spec => []RefusedOnlyForALoss`. Neither is inductive: a push chains its records to
  a head it read in an earlier step. The invariant `Chained` holds while nobody
  truncates a chain: every record of every file on every replica links up, forks in a
  race, or stands behind a malformed line (`Placed`, `Fine`); what a call has in hand
  is chained, one line to the next (`Follows`, in `Poised`), to a head that the file
  had when the call opened the store, and that it still has as its last where the
  machine runs one command at a time (`Taking`); the head a push is about to
  remember, and the one its machine remembers, are found in the file or the file is
  broken (`Known`). Two lemmas carry it. `FineAppended`: an append of lines that follow
  a head so taken keeps a file fine, whether the file ended with a whole line or a torn
  one, and wherever the write itself is cut. `PoisedStays`: an append by one command
  leaves what another command of the same machine has in hand as it was described.
  A file the syncer brings is a copy of one that is fine.
- `ConvergedStoresAreClean`: `Spec => []ConvergedIsClean`. It joins three
  invariants: `Chained`, for the chains; `NothingGoesSilently`, for what
  is missing; and `Genuine`, which says that every revision in a log, in a call's
  hands or in a chain, and every payload on any replica, pairs a snapshot with a
  build some machine took it with, so that two of one snapshot agree if all its takers do
  (`Agreed`). `Genuine` survives truncations too.

Only model-checked: `TruncationIsCaught`.

A store is taken to exist and to hold one repository. `Pull` adds to `local` and
does not evict: the composition with `HistoryStore` (default caps) is not modelled.

## The usage counters

**Modules.** `UsageTracker`, with `MCUsageTracker` for TLC and `UsageTracker_proofs` for
TLAPS.

Every enola server counts the calls of each tool and keeps one file per
repository in the user's home, shared with all other servers. Counters are merged
as deltas: what a process counted since its last successful flush is added to what
the file says now.

| Variable | Code |
|---|---|
| `home`, `legacy` | the count in the home file and in the in-repository file of older versions |
| `flock`, `mu` | the lock of the home file; `Tracker.mu` of each process |
| `up`, `tracker` | the processes running; `repoState`: loaded or not, baseline, session, flushed |
| `pc`, `job` | goroutines and the locals of `flush` |
| `adopted`, `calls`, `gone`, `blind` | what there is to account for (not in the code); `blind` says that some process went on without the counts a file held |

| Action | Code |
|---|---|
| `Start`, `Die` | a server starts; it is killed, with what it has not flushed |
| `Enter` | `Record` or `PersistStartup` takes `Tracker.mu` |
| `ReadHome`, `ReadLegacy`, `Migrate`, `RemoveLegacy` | `loadLocked` and `migrateLocked`: the first touch, without the file lock. `ReadStatus` returns an error for a missing file and for one it fails to read or parse (`Unread`), and both are taken for a missing file |
| `Count` | the increment; `Tracker.mu` is released |
| `LockFile`, `Delta`, `ReadDisk`, `WriteDisk`, `Mark` | `flush`: file lock, then `Tracker.mu` twice for a moment; a read that fails leaves the totals of the first touch; the file is renamed into place or the write fails |
| `StartClose`, `Exit` | `Close`, and the end of the process while other goroutines may be half-way |

Properties. `NeverCountedTwice` and `DeferredNotLost` compare what is on disk, what
is still in memory and what died with a process with what was ever recorded: never
more, and exactly as much (`CountsDeferred`) as long as no process was `blind`.

There are two ways to be, and each loses counts, against what the code says of itself.
`usage_read_error` expects a violation of `CountsDeferred` without that premise: `flush`
keeps the totals of the first touch when it fails to read the home file for whatever
reason (`status.go:558`), and writes them, with its own delta, over what siblings have
counted since; "counts are deferred rather than lost" (`status.go:509`) is not so there.
`usage_migration_race` expects a violation of `MigrationIsSafe`: `migrateLocked` says
that "skipping the cross-process lock is safe here", because a sibling "would write the
very same totals" (`status.go:448`); a sibling that migrated *and flushed a call*
between this one's read and its write has written more, and the later migration takes
that call away.

`CallsReturn`: the two locks are taken in one order only, so no goroutine waits for
ever, and as the run bounds the calls, all come to rest.

`usage`: two processes, three goroutines, a legacy file with a count of 2, two
calls, two process starts, one read or write that fails; 0.34 million states. Two calls
and two processes are enough for a delta to be added by the wrong one, twice, or over
an older total; the failed write makes the second flush carry two calls.

*Fairness.* `SF_vars(Run(t))`: a goroutine goes on, and gets a lock that is free
again and again. `sync.Mutex` hands the lock to a waiter that starves, and
`flock` queues its waiters. Nothing is assumed of starting, closing or dying.

*Left out.* A failing `Acquire` is modelled (`Unlocked`) and not used in the run:
then merges are not synchronised, which `flush` says, and increments are lost.
Every tool's count and credit take the same path, so one number stands for all. The
instance registry is not modelled: a file per process, written by its owner.

### Theorems

`UsageTracker_proofs`, for any processes and goroutines, any number of calls, deaths,
failed reads and writes, and process starts.

- `UsageTyping`: `Spec => []TypeOK`, with the file lock or without; in particular a
  delta is never negative (`Ordered`).
- `CountedOnce`: `Spec => []NeverCountedTwice`, and
- `NothingLost`: `Spec => []DeferredNotLost`, where every process can lock
  (`Unlocked = {}`).

What waits in memory is the *set* of calls that are counted and not flushed, each a
process and a number (`Waiting`), and the balance takes its cardinality: a sum over an
arbitrary set of processes is an induction, adding or removing a call from a finite
set is a lemma. `UsageInv` says which lock protects what (`Locked`); that a merge
adds exactly what its process has not flushed, although `Tracker.mu` is released
between computing the delta and marking it flushed (`Differs`); where the adopted
total of the legacy file is while several processes migrate it (`FilesAdopt`,
`MemoryAdopts`); that the total a merge adds to is still the one on disk
(`SeenAdopts`), all three as long as nobody was `blind`; and the balance itself
(`Balanced`). Its clauses on `Fits` hold in any case: no total that is on disk, that a
process keeps as its baseline or that a merge has read counts a call that waits in
memory or is gone, so writing an old total back may lose calls and never doubles one.
Liveness (`CallsReturn`) is only model-checked.

## The snapshot directory and its baselines

**Modules.** `SessionPins`, `MCSessionPins`, `SessionPins_proofs`.

A repository's `.enola` holds the artifacts of the last run, those of the run before
(`previous/`) and a pinned `baseline/`, which a change is graded against. Agents and
people pin on purpose. A child detached at session start pins automatically, marks
the pin `.auto-pinned`, and may replace only pins so marked, and none of another
session that still runs. Only the children lock, against each other.

| Variable | Code |
|---|---|
| `tree` | the version of the working tree; a snapshot is named by the version it read |
| `root` | `facts.jsonl` (renamed into place) and the other artifacts (written in place, so `Torn` for a moment) |
| `dir` | `previous/` and `baseline/`: the two files, the session in `pin.json`, the marker, and, not in the code, who published it and under which circumstances |
| `alive`, `started`, `lock` | agent sessions; `session-pin.lock` |
| `pc`, `job` | where a call is, what it staged and what it still has to remove |

| Action | Code |
|---|---|
| `StartSession`, `TryLock`, `CheckOther`, `Decide`, …, `Stamp` | `pinBaselineSingleFlight`, with a generation and a pin between decision and stamp |
| `StartGenerate`, `Generate`, `Rotate`, `WriteFacts`, `TruncateMeta`, `WriteMeta` | `generate_snapshot`, `WriteArtifacts`, `rotatePrevious` |
| `StartPin`, `Stat`, `StageFacts`, `StageMeta`, `List`, `Unlink`, `RemoveDir`, `Publish`, `WriteMark` | `set_baseline` or `baseline pin`: `SetBaseline`, `copyArtifacts`; `os.RemoveAll` takes one file at a time |
| `Edit`, `EndSession`, `Die` | the world outside |

Properties.

- `DeliberatePinSurvives`: a child takes a readable baseline that a tool published
  only if it was published while some child was between its decision and its stamp
  (`exposed`). The exception is needed: the decision is minutes away from the
  removal, and the stamp goes to whatever `baseline/` is by then.
- `OtherSessionsPinSurvives`: a child does not take the baseline of another running
  session, with the same exception, and unless the directory was given the mark or
  marker of a call whose own pin had been replaced in between (`mixed`).
- `PinLeavesABaseline`: publishers that overlap may fail, but the last one leaves a
  baseline, provided nobody died and no mark arrived in a directory being removed
  (then `os.RemoveAll` fails and the directory keeps a mark and no facts).

`pins`: two sessions with their children and an agent that makes one request, one
edit and one death; 0.75 million states. With two requests (11.8 million states,
some minutes) the properties hold as well.

The exceptions are windows the code has, and hazards of the list. The check that a
baseline is automatic (`hook.go:413`) comes before the generation, so a person who pins
in between loses that pin to a session start, although `hook.go:292-294` says that only
an automatic one may be overwritten. A child killed between publication and stamp leaves
a pin that reads as deliberate and is never refreshed. Two writers that overlap leave
facts of one run beside the meta of another in `.enola`, and a pin made then keeps both.
And `os.RemoveAll` takes the files of an old baseline one by one, so a reader may find
its facts and not its meta, the partial baseline that staging is there to prevent
(`baseline.go:138-140`). They are in the model; none has a run of its own.

*Left out.* `run.json` and the history's recording at the end of `WriteArtifacts`
(`HistoryStore` has the latter); clusters of several repositories; a `TryAcquire`
that fails, which does nothing, like a lock that is held.

### Theorems

`SessionPins_proofs`, for any sessions, children, tools, edits and deaths.

- `PinTyping`: `Spec => []TypeOK`.
- `DeliberatePinsStay`: `Spec => DeliberatePinSurvives`, and
- `OthersPinsStay`: `Spec => OtherSessionsPinSurvives`.
- `PinsLeaveABaseline`: `Spec => []PinLeavesABaseline`.

The two about survival do not follow from types, because the guard that protects a pin was evaluated many
steps before the removal. `PinInv` carries it over: at most one child is past
`TryLock`, the one that holds the lock (`OneChild`), and its session has started
(`ChildOfStarted`); a directory's number says when it was published
(`Published`); while a child is past its decision, a readable baseline of a tool
that is not `exposed` cannot be the one it removes (`DeliberateIsLeft`); a mark is
that of the publisher unless the directory is `mixed` (`OwnMark`); and the same for
a baseline of another session (`OthersAreLeft`). Most actions lose at most one file of
the baseline and move no child past a decision (`Losing`, `Quiet`), which leaves
`Decide`, `Publish`, the marks and the session steps as cases of their own.

`PinsLeaveABaseline` speaks of the moment all calls have returned; its invariant
`KeptInv` says what holds before. Whoever pins has staged facts (`Staged`); no number
is given to two directories, so a removal never mistakes a later baseline for the
one it listed (`Numbered`); a removal has listed whatever the directory still holds,
unless a mark came late, so it does not fail (`Listed`); and as long as nobody
died, a baseline without facts has somebody removing it, and an absent one
somebody about to rename the next into place (`Attended`). When nobody is left,
neither case remains.

## Not modelled

- **Drift check** (`internal/engine/drift.go`). A hash is trusted under a file's
  stamp unless the file was changed within a window before; the window is measured
  when the hash is remembered. A model needs the clock of the file system.
- **Engine bundle** (`internal/engine/pipeline.go`). Readers load one atomic pointer,
  writers hold a mutex and compare before they republish; what could go wrong is
  within one Go process and below the grain of these models.
- **Instance registry, search gate, update check, parallel map.** One file per process
  or per session with one writer, or one function without shared state. What they
  keep is advisory.
- **Extractors, explainers, linkers, renderers, patches, selectors.** Functions
  from text to facts to text: there is no state to explore, and their correctness is a
  matter of languages.
- Configuration, installers, the dashboard and process plumbing are input and output.

The C files of the repository are grammars and a parser runtime that are generated
or vendored; enola itself is the Go code, and all modules are about that.
