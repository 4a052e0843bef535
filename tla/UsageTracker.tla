---------------------------- MODULE UsageTracker ----------------------------
(***************************************************************************)
(* The usage counters enola servers share per repository.                  *)
(*                                                                         *)
(*   pkg/status/status.go     Tracker: Record, flush, migration, Close     *)
(*   pkg/status/atomic.go     writeFileAtomic                              *)
(*                                                                         *)
(* One repository and one counter of it: every tool's count and credit     *)
(* takes the same path. A thread is a goroutine that serves a tool call.   *)
(***************************************************************************)
EXTENDS Integers, FiniteSets

CONSTANTS
    Proc,         \* server processes
    Thread,       \* their goroutines
    ProcOf,       \* the process a goroutine belongs to
    Absent,       \* "no such file", not a number
    Legacy,       \* what an in-repo file of an older version may hold
    Unlocked,     \* goroutines whose filelock.Acquire fails
    MaxCalls,     \* bound on the tool calls recorded
    MaxStarts,    \* bound on the processes started
    MaxFailures   \* bound on the reads and writes that fail

ASSUME ConstantsOK ==
    /\ ProcOf \in [Thread -> Proc]
    /\ Absent \notin Nat
    /\ Legacy \subseteq Nat \cup {Absent}
    /\ Unlocked \subseteq Thread
    /\ MaxCalls \in Nat
    /\ MaxStarts \in Nat
    /\ MaxFailures \in Nat

Free == "free"

ASSUME FreeIsNoThread == Free \notin Thread

VARIABLES
    home,      \* the count in ~/.enola/usage/<repo>, or Absent
    legacy,    \* the count in the repository's own file, or Absent
    flock,     \* the holder of the home file's lock, or Free
    up,        \* the processes running
    mu,        \* the holder of each process's Tracker.mu, or Free
    tracker,   \* each process's repoState
    pc,        \* what each goroutine does next
    job,       \* the variables of its running call
    adopted,   \* what the legacy file held at the start, or 0
    calls,     \* tool calls recorded so far
    gone,      \* of those, the ones a process took with it unwritten
    blind,     \* a process went on without the counts that a file held
    starts, failures

files == <<home, legacy, flock>>
memory == <<up, mu, tracker, pc, job>>
ledger == <<adopted, calls, gone, blind>>
bounds == <<starts, failures>>
vars == <<files, memory, ledger, bounds>>

-----------------------------------------------------------------------------

\* "known" says that Tracker.repos holds the repository.
Fresh == [known |-> FALSE, baseline |-> 0, session |-> 0, flushed |-> 0]

Blank == [counts |-> 0, closing |-> FALSE, seen |-> 0, pending |-> 0, delta |-> 0,
          wrote |-> FALSE]

Init ==
    /\ home = Absent
    /\ legacy \in Legacy
    /\ flock = Free
    /\ up = {}
    /\ mu = [p \in Proc |-> Free]
    /\ tracker = [p \in Proc |-> Fresh]
    /\ pc = [t \in Thread |-> "idle"]
    /\ job = [t \in Thread |-> Blank]
    /\ adopted = IF legacy = Absent THEN 0 ELSE legacy
    /\ calls = 0
    /\ gone = 0
    /\ blind = FALSE
    /\ starts = 0
    /\ failures = 0

Mine(t) == tracker[ProcOf[t]]

Step(t, from, to) ==
    /\ ProcOf[t] \in up
    /\ pc[t] = from
    /\ pc' = [pc EXCEPT ![t] = to]

\* Tracker.mu can be taken.
MuFree(t) == mu[ProcOf[t]] = Free

FailsOnce == failures < MaxFailures /\ failures' = failures + 1

\* ReadStatus returns an error: there is no such file, or reading it fails.
Unread(file) == IF file = Absent THEN UNCHANGED failures ELSE FailsOnce

\* The calls a process has counted, by their number, that no file holds yet: a
\* write is durable before flush marks it.
Unwritten(p) ==
    {n \in 1..tracker[p].session :
        /\ n > tracker[p].flushed
        /\ \A t \in Thread : ProcOf[t] = p /\ job[t].wrote => n > job[t].pending}

-----------------------------------------------------------------------------
(* Startup and the life of a process. *)

\* NewTracker.
Start(p) ==
    /\ p \notin up
    /\ starts < MaxStarts
    /\ starts' = starts + 1
    /\ up' = up \cup {p}
    /\ UNCHANGED <<files, mu, tracker, pc, job, ledger, failures>>

\* The process is gone: its locks are free, its memory is lost.
Ended(p) ==
    /\ up' = up \ {p}
    /\ flock' = IF \E t \in Thread : t = flock /\ ProcOf[t] = p THEN Free ELSE flock
    /\ mu' = [mu EXCEPT ![p] = Free]
    /\ tracker' = [tracker EXCEPT ![p] = Fresh]
    /\ pc' = [t \in Thread |-> IF ProcOf[t] = p THEN "idle" ELSE pc[t]]
    /\ job' = [t \in Thread |-> IF ProcOf[t] = p THEN Blank ELSE job[t]]
    /\ gone' = gone + Cardinality(Unwritten(p))

\* A process is killed.
Die(p) ==
    /\ p \in up
    /\ Ended(p)
    /\ UNCHANGED <<home, legacy, adopted, calls, blind, bounds>>

-----------------------------------------------------------------------------
(* The first touch of a repository: stateLocked, loadLocked, migrateLocked. *)
(* Tracker.mu is held until the call is counted.                           *)

\* A tool call (counts 1) or PersistStartup (counts 0) takes Tracker.mu.
Enter(t, counts) ==
    /\ Step(t, "idle", IF Mine(t).known THEN "count" ELSE "read home")
    /\ MuFree(t)
    /\ IF counts = 1 THEN calls < MaxCalls ELSE ~Mine(t).known
    /\ mu' = [mu EXCEPT ![ProcOf[t]] = t]
    /\ job' = [job EXCEPT ![t].counts = counts]
    /\ UNCHANGED <<files, up, tracker, ledger, bounds>>

\* An error of any kind is taken for a missing file.
ReadHome(t) ==
    /\ \/ /\ home # Absent
          /\ Step(t, "read home", "count")
          /\ tracker' = [tracker EXCEPT ![ProcOf[t]].baseline = home]
          /\ UNCHANGED failures
       \/ /\ Unread(home)
          /\ Step(t, "read home", "read legacy")
          /\ UNCHANGED tracker
    /\ UNCHANGED <<files, up, mu, job, ledger, starts>>

ReadLegacy(t) ==
    /\ \/ /\ legacy # Absent
          /\ Step(t, "read legacy", "migrate")
          /\ tracker' = [tracker EXCEPT ![ProcOf[t]].baseline = legacy]
          /\ UNCHANGED <<blind, failures>>
       \/ /\ Unread(legacy)
          /\ Step(t, "read legacy", "count")
          /\ blind' = (blind \/ legacy # Absent)
          /\ UNCHANGED tracker
    /\ UNCHANGED <<files, up, mu, job, adopted, calls, gone, starts>>

\* The adopted total is written home without the file lock.
Migrate(t) ==
    /\ \/ /\ Step(t, "migrate", "remove legacy")
          /\ home' = Mine(t).baseline
          /\ blind' = (blind \/ home # Absent)
          /\ UNCHANGED failures
       \/ /\ Step(t, "migrate", "count")
          /\ FailsOnce
          /\ UNCHANGED <<home, blind>>
    /\ UNCHANGED <<legacy, flock, up, mu, tracker, job, adopted,
                   calls, gone, starts>>

RemoveLegacy(t) ==
    /\ Step(t, "remove legacy", "count")
    /\ legacy' = Absent
    /\ UNCHANGED <<home, flock, up, mu, tracker, job, ledger, bounds>>

\* Mutant: flushes with Tracker.mu held.
CountHolding(t) ==
    /\ Step(t, "count", "lock")
    /\ tracker' = [tracker EXCEPT ![ProcOf[t]].known = TRUE,
                                  ![ProcOf[t]].session = @ + job[t].counts]
    /\ calls' = calls + job[t].counts
    /\ UNCHANGED <<files, up, mu, job, adopted, gone, blind, bounds>>

\* The counter goes up and Tracker.mu is released.
Count(t) ==
    /\ Step(t, "count", "lock")
    /\ tracker' = [tracker EXCEPT ![ProcOf[t]].known = TRUE,
                                  ![ProcOf[t]].session = @ + job[t].counts]
    /\ calls' = calls + job[t].counts
    /\ mu' = [mu EXCEPT ![ProcOf[t]] = Free]
    /\ UNCHANGED <<files, up, job, adopted, gone, blind, bounds>>

-----------------------------------------------------------------------------
(* flush: the read-modify-write of the home file under its lock. *)

\* A failed Acquire degrades to a merge without the lock.
LockFile(t) ==
    /\ Step(t, "lock", "delta")
    /\ IF t \in Unlocked THEN UNCHANGED flock
       ELSE flock = Free /\ flock' = t
    /\ UNCHANGED <<home, legacy, up, mu, tracker, job, ledger, bounds>>

\* Mutant: the difference the wrong way round.
DeltaReversed(t) ==
    /\ Step(t, "delta", "read")
    /\ MuFree(t)
    /\ job' = [job EXCEPT ![t].pending = Mine(t).session,
                          ![t].delta = Mine(t).flushed - Mine(t).session]
    /\ UNCHANGED <<files, up, mu, tracker, ledger, bounds>>

\* Under Tracker.mu: what this process counted and has not flushed.
Delta(t) ==
    /\ Step(t, "delta", "read")
    /\ MuFree(t)
    /\ job' = [job EXCEPT ![t].pending = Mine(t).session,
                          ![t].delta = Mine(t).session - Mine(t).flushed]
    /\ UNCHANGED <<files, up, mu, tracker, ledger, bounds>>

\* Mutant: merges into the totals of the first touch.
ReadDiskBaseline(t) ==
    /\ Step(t, "read", "write")
    /\ job' = [job EXCEPT ![t].seen = Mine(t).baseline]
    /\ UNCHANGED <<files, up, mu, tracker, ledger, bounds>>

\* The totals siblings have written, or the baseline of the first touch when
\* the file cannot be read.
ReadDisk(t) ==
    /\ Step(t, "read", "write")
    /\ \/ /\ home # Absent
          /\ job' = [job EXCEPT ![t].seen = home]
          /\ UNCHANGED <<blind, failures>>
       \/ /\ Unread(home)
          /\ job' = [job EXCEPT ![t].seen = Mine(t).baseline]
          /\ blind' = (blind \/ home # Absent)
    /\ UNCHANGED <<files, up, mu, tracker, adopted, calls, gone, starts>>

\* The deferred Release, and the end of the call.
Flushed(t) ==
    /\ Step(t, pc[t], IF job[t].closing THEN "exit" ELSE "idle")
    /\ job' = [job EXCEPT ![t] = Blank]
    /\ flock' = IF flock = t THEN Free ELSE flock

\* The file is replaced in one step, or the write fails and the delta stays.
WriteDisk(t) ==
    /\ \/ /\ Step(t, "write", "mark")
          /\ home' = job[t].seen + job[t].delta
          /\ job' = [job EXCEPT ![t].wrote = TRUE]
          /\ UNCHANGED <<flock, failures>>
       \/ /\ pc[t] = "write"
          /\ FailsOnce
          /\ Flushed(t)
          /\ UNCHANGED home
    /\ UNCHANGED <<legacy, up, mu, tracker, ledger, starts>>

\* Mutant: forgets that the delta is durable.
MarkNothing(t) ==
    /\ pc[t] = "mark"
    /\ MuFree(t)
    /\ Flushed(t)
    /\ UNCHANGED <<home, legacy, up, mu, tracker, ledger, bounds>>

\* Under Tracker.mu again: the delta is durable.
Mark(t) ==
    /\ pc[t] = "mark"
    /\ MuFree(t)
    /\ Flushed(t)
    /\ tracker' = [tracker EXCEPT ![ProcOf[t]].flushed = job[t].pending]
    /\ UNCHANGED <<home, legacy, up, mu, ledger, bounds>>

-----------------------------------------------------------------------------
(* Close. *)

\* Every repository is flushed once more, then the process ends, whatever its
\* other goroutines are doing.
StartClose(t) ==
    /\ Step(t, "idle", "lock")
    /\ MuFree(t)
    /\ Mine(t).known
    /\ \A u \in Thread : ProcOf[u] = ProcOf[t] => ~job[u].closing
    /\ job' = [job EXCEPT ![t].closing = TRUE]
    /\ UNCHANGED <<files, up, mu, tracker, ledger, bounds>>

Exit(t) ==
    /\ pc[t] = "exit"
    /\ Ended(ProcOf[t])
    /\ UNCHANGED <<home, legacy, adopted, calls, blind, bounds>>

-----------------------------------------------------------------------------

Load(t) == ReadHome(t) \/ ReadLegacy(t) \/ Migrate(t) \/ RemoveLegacy(t) \/ Count(t)

Flush(t) == LockFile(t) \/ Delta(t) \/ ReadDisk(t) \/ WriteDisk(t) \/ Mark(t)

\* A goroutine goes on with its call.
Run(t) == Load(t) \/ Flush(t) \/ Exit(t)

Next ==
    \/ \E t \in Thread : Enter(t, 0) \/ Enter(t, 1) \/ StartClose(t) \/ Run(t)
    \/ \E p \in Proc : Start(p) \/ Die(p)

\* Every goroutine goes on, and gets a lock that is often free: Tracker.mu is a
\* sync.Mutex, which hands over to a starving waiter, and the file lock is a
\* blocking flock.
Fairness == \A t \in Thread : SF_vars(Run(t))

Spec == Init /\ [][Next]_vars

FairSpec == Spec /\ Fairness

-----------------------------------------------------------------------------
(* Properties. *)

\* Every variable keeps its type.
TypeOK ==
    /\ home \in Nat \cup {Absent}
    /\ legacy \in Nat \cup {Absent}
    /\ flock \in Thread \cup {Free}
    /\ up \subseteq Proc
    /\ mu \in [Proc -> Thread \cup {Free}]
    /\ tracker \in [Proc -> [known: BOOLEAN, baseline: Nat, session: Nat, flushed: Nat]]
    /\ pc \in [Thread -> {"idle", "read home", "read legacy", "migrate",
                          "remove legacy", "count", "lock", "delta", "read", "write",
                          "mark", "exit"}]
    /\ job \in [Thread -> [counts: 0..1, closing: BOOLEAN, seen: Nat, pending: Nat,
                           delta: Nat, wrote: BOOLEAN]]
    /\ gone \in Nat
    /\ calls \in Nat
    /\ blind \in BOOLEAN

\* What the files hold: the home file counts once there is one.
OnDisk == IF home # Absent THEN home ELSE IF legacy # Absent THEN legacy ELSE 0

Waiting == UNION {{p} \X Unwritten(p) : p \in Proc}

Accounted == OnDisk + Cardinality(Waiting) + gone

\* flush: no call is ever counted twice, whatever the crashes, the failed
\* reads and writes, and the migrations by several processes.
NeverCountedTwice == Accounted <= adopted + calls

\* flush: "counts are deferred rather than lost". The counters hold every call
\* ever recorded but the ones a process took with it.
CountsDeferred == Accounted = adopted + calls

\* The same where no process went on without what a file held: where no
\* failed read is taken for a missing file, and no migration writes its totals
\* over a file a sibling has counted in.
DeferredNotLost == ~blind => CountsDeferred

\* migrateLocked: "skipping the cross-process lock is safe here". A migration
\* writes a home file that is not there, or the totals that are in it.
MigrationIsSafe ==
    [][\A t \in Thread : pc[t] = "migrate" /\ pc'[t] = "remove legacy"
          => home \in {Absent, home'}]_vars

\* flush's lock order: every call that started returns, or its process ends. As
\* the tool calls are bounded, all goroutines then come to rest.
CallsReturn == <>[](\A t \in Thread : pc[t] = "idle")

=============================================================================
