------------------------ MODULE UsageTracker_proofs -------------------------
(***************************************************************************)
(* Theorems about UsageTracker, for any number of processes, goroutines,   *)
(* calls, crashes and failed reads and writes.                             *)
(***************************************************************************)
EXTENDS UsageTracker, FiniteSetTheorems, TLAPS

Loading == {"read home", "read legacy", "migrate", "remove legacy", "count"}
Merging == {"delta", "read", "write", "mark"}
Control == Loading \cup Merging \cup {"idle", "lock", "exit"}

Trackers == [known: BOOLEAN, baseline: Nat, session: Nat, flushed: Nat]
Jobs == [counts: 0..1, closing: BOOLEAN, seen: Nat, pending: Nat, delta: Nat, wrote: BOOLEAN]

-----------------------------------------------------------------------------
(* The inductive invariant. *)

\* What flush took for its own is between what is flushed and what is counted.
Ordered ==
    /\ \A p \in Proc : tracker[p].flushed <= tracker[p].session
    /\ \A t \in Thread : pc[t] \in {"read", "write", "mark"} =>
          job[t].pending <= tracker[ProcOf[t]].session

Typed == TypeOK /\ adopted \in Nat /\ Ordered

\* A goroutine loads under Tracker.mu and merges under the file lock.
Locked ==
    /\ \A t \in Thread : pc[t] \in Loading => mu[ProcOf[t]] = t
    /\ \A t \in Thread : pc[t] \in Merging => flock = t
    /\ \A t \in Thread : job[t].wrote <=> pc[t] = "mark"
    /\ \A t \in Thread : pc[t] \in Merging \cup {"lock"} => tracker[ProcOf[t]].known

\* What a merge adds is what its process counted since it flushed.
Differs ==
    \A t \in Thread : pc[t] \in {"read", "write", "mark"} =>
        /\ tracker[ProcOf[t]].flushed <= job[t].pending
        /\ job[t].delta = job[t].pending - tracker[ProcOf[t]].flushed

\* The adopted total is where the legacy file or the home file has it.
FilesAdopt ==
    /\ legacy # Absent => legacy = adopted
    /\ home = Absent /\ legacy = Absent => adopted = 0

\* While there is no home file, a process that knows the repository has the
\* adopted total as its baseline, and one that is loading it will, unless a
\* failed read was taken for a missing file.
MemoryAdopts ==
    /\ \A p \in Proc : ~blind /\ home = Absent /\ tracker[p].known =>
                        tracker[p].baseline = adopted
    /\ \A p \in Proc : mu[p] = Free /\ ~tracker[p].known => tracker[p].baseline = 0
    /\ \A t \in Thread :
          /\ pc[t] \in {"read home", "read legacy"} =>
                tracker[ProcOf[t]].baseline = 0 /\ ~tracker[ProcOf[t]].known
          /\ pc[t] = "migrate" => tracker[ProcOf[t]].baseline = adopted
          /\ pc[t] = "remove legacy" => home # Absent
          /\ ~blind /\ pc[t] = "count" /\ home = Absent =>
                tracker[ProcOf[t]].baseline = adopted

\* A merge adds to the total the files hold.
SeenAdopts ==
    \A t \in Thread : ~blind /\ pc[t] = "write" => job[t].seen = OnDisk

\* The total n counts no call that waits in memory or is gone.
Fits(n) == n + Cardinality(Waiting) + gone <= adopted + calls

\* Every call recorded is in the file, waits in memory or is gone, and no total
\* a process holds, however old, counts one that waits.
Balanced ==
    /\ IsFiniteSet(Waiting)
    /\ DeferredNotLost
    /\ Fits(adopted) /\ Fits(OnDisk)
    /\ \A p \in Proc : Fits(tracker[p].baseline)
    /\ \A t \in Thread : pc[t] = "write" => Fits(job[t].seen)

UsageInv ==
    /\ Typed /\ Locked /\ Differs
    /\ FilesAdopt /\ MemoryAdopts /\ SeenAdopts
    /\ Balanced

-----------------------------------------------------------------------------
(* What the operators return. *)

\* What makes a read fail is part of the action that reads.
USE DEF Unread

\* The calls a process has not written are finitely many: their numbers are
\* between 1 and session.
LEMMA UnwrittenFinite ==
    ASSUME Typed, NEW p \in Proc
    PROVE  IsFiniteSet(Unwritten(p)) /\ Cardinality(Unwritten(p)) \in Nat
<1>1. tracker[p].session \in Nat
    BY DEF Typed, TypeOK
<1>2. IsFiniteSet(1..tracker[p].session)
    BY <1>1, FS_Interval
<1>3. Unwritten(p) \subseteq 1..tracker[p].session
    BY DEF Unwritten
<1>4. IsFiniteSet(Unwritten(p))
    BY <1>2, <1>3, FS_Subset
<1>. QED  BY <1>4, FS_CardinalityType

-----------------------------------------------------------------------------
(* Types: every action, with the file lock or without. *)

\* A fresh repoState and a fresh call have their types.
LEMMA Starts == Fresh \in Trackers /\ Blank \in Jobs
BY DEF Fresh, Trackers, Blank, Jobs

\* Init: every variable starts with its type.
LEMMA TypedInit == Init => Typed
<1>. SUFFICES ASSUME Init PROVE Typed
    OBVIOUS
<1>1. tracker \in [Proc -> Trackers] /\ job \in [Thread -> Jobs]
    BY Starts DEF Init
<1>2. adopted \in Nat /\ legacy \in Nat \cup {Absent}
    BY ConstantsOK DEF Init
<1>3. TypeOK
    BY <1>1, <1>2 DEF Init, TypeOK, Trackers, Jobs
<1>4. Ordered
    BY ConstantsOK DEF Init, Ordered, Fresh
<1>. QED  BY <1>2, <1>3, <1>4 DEF Typed

\* The fields of a repoState and of a call.
LEMMA Fields ==
    ASSUME Typed
    PROVE  /\ \A p \in Proc : /\ tracker[p] \in Trackers
                             /\ tracker[p].known \in BOOLEAN
                             /\ tracker[p].baseline \in Nat
                             /\ tracker[p].session \in Nat
                             /\ tracker[p].flushed \in Nat
                             /\ tracker[p].flushed <= tracker[p].session
           /\ \A t \in Thread : /\ ProcOf[t] \in Proc
                               /\ job[t] \in Jobs
                               /\ job[t].counts \in Nat
                               /\ job[t].closing \in BOOLEAN
                               /\ job[t].seen \in Nat
                               /\ job[t].pending \in Nat
                               /\ job[t].delta \in Nat
                               /\ job[t].wrote \in BOOLEAN
<1>1. ASSUME NEW p \in Proc PROVE tracker[p] \in Trackers
    BY DEF Typed, TypeOK, Trackers
<1>2. ASSUME NEW t \in Thread PROVE ProcOf[t] \in Proc /\ job[t] \in Jobs
    BY ConstantsOK DEF Typed, TypeOK, Jobs
<1>3. \A p \in Proc : tracker[p].flushed <= tracker[p].session
    BY DEF Typed, Ordered
<1>4. \A r \in Jobs : r.counts \in Nat
    BY DEF Jobs
<1>. QED  BY <1>1, <1>2, <1>3, <1>4 DEF Trackers, Jobs

\* Count changes its own process's repoState: it is known and its session is one
\* call longer, if there is a call.
LEMMA CountDoes ==
    ASSUME Typed, NEW t \in Thread, Count(t)
    PROVE  /\ tracker' \in [Proc -> Trackers]
           /\ tracker'[ProcOf[t]].known
           /\ tracker'[ProcOf[t]].baseline = tracker[ProcOf[t]].baseline
           /\ tracker'[ProcOf[t]].session = tracker[ProcOf[t]].session + job[t].counts
           /\ tracker'[ProcOf[t]].flushed = tracker[ProcOf[t]].flushed
           /\ \A q \in Proc \ {ProcOf[t]} : tracker'[q] = tracker[q]
<1>0. ProcOf[t] \in Proc /\ tracker[ProcOf[t]] \in Trackers /\ job[t].counts \in Nat
    BY Fields
<1>1. tracker \in [Proc -> Trackers]
    BY DEF Typed, TypeOK, Trackers
<1>2. PICK r \in Trackers : r = tracker[ProcOf[t]]
    BY <1>0
<1>3. PICK w \in Nat : w = r.session + job[t].counts
    BY <1>0 DEF Trackers
<1>4. PICK x : x = [r EXCEPT !.known = TRUE, !.session = w]
    OBVIOUS
<1>5. x \in Trackers
    BY <1>4 DEF Trackers
<1>6. x.baseline = r.baseline /\ x.session = w /\ x.flushed = r.flushed
    BY <1>4 DEF Trackers
<1>7. x.known
    BY <1>4 DEF Trackers
<1>8. [r EXCEPT !.known = TRUE, !.session = @ + job[t].counts] = x
    BY <1>3, <1>4 DEF Trackers
<1>9. tracker' = [tracker EXCEPT ![ProcOf[t]] = x]
    BY <1>0, <1>1, <1>2, <1>8 DEF Count
<1>10. tracker'[ProcOf[t]] = x /\ \A q \in Proc \ {ProcOf[t]} : tracker'[q] = tracker[q]
    BY <1>0, <1>1, <1>9
<1>11. tracker' \in [Proc -> Trackers]
    BY <1>0, <1>1, <1>5, <1>9
<1>. QED  BY <1>2, <1>3, <1>6, <1>7, <1>10, <1>11

\* Mark changes what its own process has flushed.
LEMMA MarkDoes ==
    ASSUME Typed, NEW t \in Thread, Mark(t)
    PROVE  /\ tracker' \in [Proc -> Trackers]
           /\ tracker'[ProcOf[t]].known = tracker[ProcOf[t]].known
           /\ tracker'[ProcOf[t]].baseline = tracker[ProcOf[t]].baseline
           /\ tracker'[ProcOf[t]].session = tracker[ProcOf[t]].session
           /\ tracker'[ProcOf[t]].flushed = job[t].pending
           /\ \A q \in Proc \ {ProcOf[t]} : tracker'[q] = tracker[q]
<1>. DEFINE r == tracker[ProcOf[t]]
            n == [known |-> r.known, baseline |-> r.baseline, session |-> r.session,
                  flushed |-> job[t].pending]
<1>0. ProcOf[t] \in Proc /\ r \in Trackers /\ job[t].pending \in Nat
    BY Fields
<1>1. tracker \in [Proc -> Trackers]
    BY DEF Typed, TypeOK, Trackers
<1>2. [r EXCEPT !.flushed = job[t].pending] = n
    BY <1>0 DEF Trackers
<1>3. tracker' = [tracker EXCEPT ![ProcOf[t]] = n]
    BY <1>0, <1>1, <1>2 DEF Mark
<1>4. n \in Trackers
    BY <1>0 DEF Trackers
<1>. QED  BY <1>0, <1>1, <1>3, <1>4

\* A new baseline changes nothing else of the repoState.
LEMMA BaselineDoes ==
    ASSUME Typed, NEW t \in Thread, NEW b \in Nat,
           tracker' = [tracker EXCEPT ![ProcOf[t]].baseline = b]
    PROVE  /\ tracker' \in [Proc -> Trackers]
           /\ tracker'[ProcOf[t]].known = tracker[ProcOf[t]].known
           /\ tracker'[ProcOf[t]].baseline = b
           /\ tracker'[ProcOf[t]].session = tracker[ProcOf[t]].session
           /\ tracker'[ProcOf[t]].flushed = tracker[ProcOf[t]].flushed
           /\ \A q \in Proc \ {ProcOf[t]} : tracker'[q] = tracker[q]
<1>. DEFINE r == tracker[ProcOf[t]]
            n == [known |-> r.known, baseline |-> b, session |-> r.session,
                  flushed |-> r.flushed]
<1>0. ProcOf[t] \in Proc /\ r \in Trackers
    BY Fields
<1>1. tracker \in [Proc -> Trackers]
    BY DEF Typed, TypeOK, Trackers
<1>2. [r EXCEPT !.baseline = b] = n
    BY <1>0 DEF Trackers
<1>3. tracker' = [tracker EXCEPT ![ProcOf[t]] = n]
    BY <1>0, <1>1, <1>2
<1>4. n \in Trackers
    BY <1>0 DEF Trackers
<1>. QED  BY <1>0, <1>1, <1>3, <1>4

\* A read of a file changes the baseline of its own process at most, to what the
\* file holds.
LEMMA ReadDoes ==
    ASSUME Typed, NEW t \in Thread, ReadHome(t) \/ ReadLegacy(t)
    PROVE  /\ tracker' \in [Proc -> Trackers]
           /\ tracker'[ProcOf[t]].known = tracker[ProcOf[t]].known
           /\ tracker'[ProcOf[t]].session = tracker[ProcOf[t]].session
           /\ tracker'[ProcOf[t]].flushed = tracker[ProcOf[t]].flushed
           /\ \A q \in Proc \ {ProcOf[t]} : tracker'[q] = tracker[q]
           /\ \/ tracker' = tracker
              \/ ReadHome(t) /\ home \in Nat /\ tracker'[ProcOf[t]].baseline = home
              \/ ReadLegacy(t) /\ legacy \in Nat /\ tracker'[ProcOf[t]].baseline = legacy
<1>1. tracker \in [Proc -> Trackers]
    BY DEF Typed, TypeOK, Trackers
<1>2. (home # Absent => home \in Nat) /\ (legacy # Absent => legacy \in Nat)
    BY DEF Typed, TypeOK
<1>3. CASE tracker' = tracker
    BY <1>1, <1>3
<1>4. CASE /\ ReadHome(t) /\ home # Absent
           /\ tracker' = [tracker EXCEPT ![ProcOf[t]].baseline = home]
    BY <1>2, <1>4, BaselineDoes
<1>5. CASE /\ ReadLegacy(t) /\ legacy # Absent
           /\ tracker' = [tracker EXCEPT ![ProcOf[t]].baseline = legacy]
    BY <1>2, <1>5, BaselineDoes
<1>. QED  BY <1>3, <1>4, <1>5 DEF ReadHome, ReadLegacy

\* Enter notes whether the call counts.
LEMMA EnterDoes ==
    ASSUME Typed, NEW t \in Thread, NEW c \in 0..1, Enter(t, c)
    PROVE  /\ job' \in [Thread -> Jobs]
           /\ \A u \in Thread \ {t} : job'[u] = job[u]
           /\ job'[t].counts = c
           /\ job'[t].closing = job[t].closing
           /\ job'[t].seen = job[t].seen
           /\ job'[t].pending = job[t].pending
           /\ job'[t].delta = job[t].delta
           /\ job'[t].wrote = job[t].wrote
<1>1. job \in [Thread -> Jobs]
    BY DEF Typed, TypeOK, Jobs
<1>2. PICK r \in Jobs : r = job[t]
    BY <1>1
<1>3. PICK x : x = [r EXCEPT !.counts = c]
    OBVIOUS
<1>4. x \in Jobs
    BY <1>2, <1>3, Fields DEF Jobs
<1>5. /\ x.counts = c
      /\ x.closing = r.closing
      /\ x.seen = r.seen
      /\ x.pending = r.pending
      /\ x.delta = r.delta
      /\ x.wrote = r.wrote
    BY <1>3 DEF Jobs
<1>6. job' = [job EXCEPT ![t] = x]
    BY <1>1, <1>2, <1>3 DEF Enter
<1>. QED  BY <1>1, <1>2, <1>4, <1>5, <1>6

\* StartClose marks the call as the one that ends the process.
LEMMA CloseDoes ==
    ASSUME Typed, NEW t \in Thread, StartClose(t)
    PROVE  /\ job' \in [Thread -> Jobs]
           /\ \A u \in Thread \ {t} : job'[u] = job[u]
           /\ job'[t].closing = TRUE
           /\ job'[t].seen = job[t].seen
           /\ job'[t].pending = job[t].pending
           /\ job'[t].delta = job[t].delta
           /\ job'[t].wrote = job[t].wrote
<1>1. job \in [Thread -> Jobs]
    BY DEF Typed, TypeOK, Jobs
<1>2. PICK r \in Jobs : r = job[t]
    BY <1>1
<1>3. PICK x : x = [r EXCEPT !.closing = TRUE]
    OBVIOUS
<1>4. x \in Jobs
    BY <1>2, <1>3, Fields DEF Jobs
<1>5. /\ x.closing = TRUE
      /\ x.seen = r.seen
      /\ x.pending = r.pending
      /\ x.delta = r.delta
      /\ x.wrote = r.wrote
    BY <1>3 DEF Jobs
<1>6. job' = [job EXCEPT ![t] = x]
    BY <1>1, <1>2, <1>3 DEF StartClose
<1>. QED  BY <1>1, <1>2, <1>4, <1>5, <1>6

\* Delta notes what the process counted and what of it is not flushed.
LEMMA DeltaDoes ==
    ASSUME Typed, NEW t \in Thread, Delta(t)
    PROVE  /\ job' \in [Thread -> Jobs]
           /\ \A u \in Thread \ {t} : job'[u] = job[u]
           /\ job'[t].pending = tracker[ProcOf[t]].session
           /\ job'[t].delta = tracker[ProcOf[t]].session - tracker[ProcOf[t]].flushed
           /\ job'[t].wrote = job[t].wrote
<1>1. job \in [Thread -> Jobs]
    BY DEF Typed, TypeOK, Jobs
<1>2. PICK r \in Jobs : r = job[t]
    BY <1>1
<1>3. PICK n \in Nat, d \in Nat : /\ n = tracker[ProcOf[t]].session
                               /\ d = tracker[ProcOf[t]].session - tracker[ProcOf[t]].flushed
    BY Fields
<1>4. PICK x : x = [r EXCEPT !.pending = n, !.delta = d]
    OBVIOUS
<1>5. x \in Jobs
    BY <1>4 DEF Jobs
<1>6. x.pending = n /\ x.delta = d /\ x.wrote = r.wrote
    BY <1>4 DEF Jobs
<1>7. job' = [job EXCEPT ![t] = x]
    BY <1>1, <1>2, <1>3, <1>4 DEF Delta, Mine
<1>. QED  BY <1>1, <1>2, <1>3, <1>5, <1>6, <1>7

\* ReadDisk notes the total that is in the file, or the baseline where there is
\* no file or it cannot be read.
LEMMA ReadDiskDoes ==
    ASSUME Typed, NEW t \in Thread, ReadDisk(t)
    PROVE  /\ job' \in [Thread -> Jobs]
           /\ \A u \in Thread \ {t} : job'[u] = job[u]
           /\ \/ home # Absent /\ job'[t].seen = home /\ blind' = blind
              \/ job'[t].seen = tracker[ProcOf[t]].baseline /\ (home # Absent => blind')
           /\ job'[t].pending = job[t].pending
           /\ job'[t].delta = job[t].delta
           /\ job'[t].wrote = job[t].wrote
<1>1. job \in [Thread -> Jobs]
    BY DEF Typed, TypeOK, Jobs
<1>2. PICK r \in Jobs : r = job[t]
    BY <1>1
<1>3. PICK n \in Nat :
          /\ job' = [job EXCEPT ![t].seen = n]
          /\ \/ home # Absent /\ n = home /\ blind' = blind
             \/ n = tracker[ProcOf[t]].baseline /\ (home # Absent => blind')
  <2>0. (home # Absent => home \in Nat) /\ tracker[ProcOf[t]].baseline \in Nat
    BY Fields DEF Typed, TypeOK
  <2>1. CASE home # Absent /\ job' = [job EXCEPT ![t].seen = home] /\ blind' = blind
    BY <2>0, <2>1
  <2>2. CASE /\ job' = [job EXCEPT ![t].seen = tracker[ProcOf[t]].baseline]
             /\ blind' = (blind \/ home # Absent)
    <3>1. home # Absent => blind'
        BY <2>2, Zenon
    <3>. QED  BY <2>0, <2>2, <3>1
  <2>. QED  BY <2>1, <2>2, Zenon DEF ReadDisk, Mine
<1>4. PICK x : x = [r EXCEPT !.seen = n]
    OBVIOUS
<1>5. x \in Jobs
    BY <1>4 DEF Jobs
<1>6. x.seen = n /\ x.pending = r.pending /\ x.delta = r.delta /\ x.wrote = r.wrote
    BY <1>4 DEF Jobs
<1>7. job' = [job EXCEPT ![t] = x]
    BY <1>1, <1>2, <1>3, <1>4
<1>. QED  BY <1>1, <1>2, <1>3, <1>5, <1>6, <1>7

\* A write that succeeds is noted, and nothing else.
LEMMA WrittenDoes ==
    ASSUME Typed, NEW t \in Thread, job' = [job EXCEPT ![t].wrote = TRUE]
    PROVE  /\ job' \in [Thread -> Jobs]
           /\ \A u \in Thread \ {t} : job'[u] = job[u]
           /\ job'[t].pending = job[t].pending
           /\ job'[t].delta = job[t].delta
           /\ job'[t].wrote
<1>1. job \in [Thread -> Jobs]
    BY DEF Typed, TypeOK, Jobs
<1>2. PICK r \in Jobs : r = job[t]
    BY <1>1
<1>3. PICK x : x = [r EXCEPT !.wrote = TRUE]
    OBVIOUS
<1>4. x \in Jobs
    BY <1>3 DEF Jobs
<1>5. x.pending = r.pending /\ x.delta = r.delta
    BY <1>3 DEF Jobs
<1>6. x.wrote
    BY <1>3 DEF Jobs
<1>7. job' = [job EXCEPT ![t] = x]
    BY <1>1, <1>2, <1>3
<1>. QED  BY <1>1, <1>2, <1>4, <1>5, <1>6, <1>7

\* At its end flush leaves nothing of the call.
LEMMA FlushedDoes ==
    ASSUME Typed, NEW t \in Thread, Flushed(t)
    PROVE  /\ job' \in [Thread -> Jobs]
           /\ \A u \in Thread \ {t} : job'[u] = job[u]
           /\ job'[t] = Blank
<1>1. job \in [Thread -> Jobs]
    BY DEF Typed, TypeOK, Jobs
<1>. QED  BY <1>1, Starts DEF Flushed

\* A start of a process and a stuttering step keep the types.
LEMMA TypedStart ==
    ASSUME Typed, NEW p \in Proc, Start(p) \/ UNCHANGED vars
    PROVE  Typed'
BY DEF Typed, TypeOK, Ordered, Start, vars, files, memory, ledger, bounds

\* The end of a process keeps the types: what it takes with it is a number.
LEMMA TypedEnded ==
    ASSUME Typed, NEW p \in Proc, Ended(p), UNCHANGED <<home, legacy, adopted, calls, blind>>
    PROVE  Typed'
<1>1. gone' \in Nat
  <2>1. Cardinality(Unwritten(p)) \in Nat /\ gone \in Nat
    BY UnwrittenFinite DEF Typed, TypeOK
  <2>. QED  BY <2>1 DEF Ended
<1>2. tracker' \in [Proc -> Trackers]
    BY Starts DEF Typed, TypeOK, Ended, Trackers
<1>3. job' \in [Thread -> Jobs]
  <2>1. job \in [Thread -> Jobs]
    BY DEF Typed, TypeOK, Jobs
  <2>. QED  BY <2>1, Starts DEF Ended
<1>4. TypeOK'
    BY <1>1, <1>2, <1>3 DEF Typed, TypeOK, Ended, Trackers, Jobs
<1>5. ASSUME NEW q \in Proc PROVE (tracker[q].flushed <= tracker[q].session)'
  <2>1. tracker'[q] = IF q = p THEN Fresh ELSE tracker[q]
    BY DEF Ended, Typed, TypeOK
  <2>. QED  BY <2>1, Fields DEF Fresh
<1>6. ASSUME NEW t \in Thread, (pc[t] \in {"read", "write", "mark"})'
      PROVE  (job[t].pending <= tracker[ProcOf[t]].session)'
    BY <1>6, ConstantsOK DEF Typed, TypeOK, Ordered, Ended
<1>7. Ordered'
    BY <1>5, <1>6 DEF Ordered
<1>. QED  BY <1>4, <1>7 DEF Typed, Ended

\* Entering a call, a read and a migration keep the types.
LEMMA TypedLoad ==
    ASSUME Typed, NEW t \in Thread, NEW c \in 0..1,
           Enter(t, c) \/ StartClose(t) \/ ReadHome(t) \/ ReadLegacy(t) \/ Migrate(t)
              \/ RemoveLegacy(t)
    PROVE  Typed'
<1>. USE ConstantsOK DEF Step, Mine, files, memory, ledger, bounds
<1>1. CASE Enter(t, c)
  <2>a. /\ pc' \in [Thread -> {"idle", "read home", "read legacy", "migrate",
                              "remove legacy", "count", "lock", "delta", "read", "write",
                              "mark", "exit"}]
        /\ mu' \in [Proc -> Thread \cup {Free}]
    BY <1>1 DEF Enter, Typed, TypeOK
  <2>b. job' \in [Thread -> [counts: 0..1, closing: BOOLEAN, seen: Nat, pending: Nat,
                             delta: Nat, wrote: BOOLEAN]]
    <3>1. job \in [Thread -> Jobs] /\ job' = [job EXCEPT ![t].counts = c]
      BY <1>1 DEF Enter, Typed, TypeOK, Jobs
    <3>2. job' \in [Thread -> Jobs]
      BY ONLY <3>1, c \in 0..1 DEF Jobs
    <3>. QED  BY <3>2 DEF Jobs
  <2>c. UNCHANGED <<files, up, tracker, ledger, bounds>>
    BY <1>1 DEF Enter
  <2>1. TypeOK' /\ adopted' \in Nat
    BY <2>a, <2>b, <2>c DEF Typed, TypeOK
  <2>2. ASSUME NEW u \in Thread, pc'[u] \in {"read", "write", "mark"}
        PROVE  pc[u] \in {"read", "write", "mark"} /\ job'[u] = job[u]
    BY <1>1, <2>2 DEF Enter, Typed, TypeOK
  <2>3. tracker' = tracker
    BY <1>1 DEF Enter
  <2>. QED  BY ONLY Typed, <2>1, <2>2, <2>3 DEF Typed, Ordered
<1>2. CASE StartClose(t)
  <2>a. /\ pc' \in [Thread -> {"idle", "read home", "read legacy", "migrate",
                              "remove legacy", "count", "lock", "delta", "read", "write",
                              "mark", "exit"}]
        /\ job' \in [Thread -> [counts: 0..1, closing: BOOLEAN, seen: Nat, pending: Nat,
                                delta: Nat, wrote: BOOLEAN]]
    <3>1. pc' \in [Thread -> {"idle", "read home", "read legacy", "migrate",
                              "remove legacy", "count", "lock", "delta", "read", "write",
                              "mark", "exit"}]
      BY <1>2 DEF StartClose, Typed, TypeOK
    <3>2. job \in [Thread -> Jobs] /\ job' = [job EXCEPT ![t].closing = TRUE]
      BY <1>2 DEF StartClose, Typed, TypeOK, Jobs
    <3>3. job' \in [Thread -> Jobs]
      BY ONLY <3>2 DEF Jobs
    <3>. QED  BY <3>1, <3>3 DEF Jobs
  <2>b. UNCHANGED <<files, up, mu, tracker, ledger, bounds>>
    BY <1>2 DEF StartClose
  <2>1. TypeOK' /\ adopted' \in Nat
    BY <2>a, <2>b DEF Typed, TypeOK
  <2>2. ASSUME NEW u \in Thread, pc'[u] \in {"read", "write", "mark"}
        PROVE  pc[u] \in {"read", "write", "mark"} /\ job'[u] = job[u]
    BY <1>2, <2>2 DEF StartClose, Typed, TypeOK
  <2>3. tracker' = tracker
    BY <1>2 DEF StartClose
  <2>. QED  BY ONLY Typed, <2>1, <2>2, <2>3 DEF Typed, Ordered
<1>3. CASE ReadHome(t)
  <2>1. /\ tracker' \in [Proc -> Trackers]
        /\ tracker'[ProcOf[t]].session = tracker[ProcOf[t]].session
        /\ tracker'[ProcOf[t]].flushed = tracker[ProcOf[t]].flushed
        /\ \A q \in Proc \ {ProcOf[t]} : tracker'[q] = tracker[q]
    BY <1>3, ReadDoes
  <2>2. TypeOK'
    BY <1>3, <2>1 DEF ReadHome, Typed, TypeOK, Trackers
  <2>3. ASSUME NEW q \in Proc
        PROVE  tracker'[q].session = tracker[q].session /\ tracker'[q].flushed = tracker[q].flushed
    BY <2>1
  <2>4. Ordered'
    BY <1>3, <2>3 DEF ReadHome, Typed, TypeOK, Ordered
  <2>. QED  BY <1>3, <2>2, <2>4 DEF ReadHome, Typed
<1>4. CASE ReadLegacy(t)
  <2>1. /\ tracker' \in [Proc -> Trackers]
        /\ tracker'[ProcOf[t]].session = tracker[ProcOf[t]].session
        /\ tracker'[ProcOf[t]].flushed = tracker[ProcOf[t]].flushed
        /\ \A q \in Proc \ {ProcOf[t]} : tracker'[q] = tracker[q]
    BY <1>4, ReadDoes
  <2>2. TypeOK'
    BY <1>4, <2>1 DEF ReadLegacy, Typed, TypeOK, Trackers
  <2>3. ASSUME NEW q \in Proc
        PROVE  tracker'[q].session = tracker[q].session /\ tracker'[q].flushed = tracker[q].flushed
    BY <2>1
  <2>4. Ordered'
    BY <1>4, <2>3 DEF ReadLegacy, Typed, TypeOK, Ordered
  <2>. QED  BY <1>4, <2>2, <2>4 DEF ReadLegacy, Typed
<1>5. CASE Migrate(t)
  <2>1. tracker[ProcOf[t]].baseline \in Nat
    BY Fields
  <2>2. home' \in Nat \cup {Absent} /\ blind' \in BOOLEAN
    BY <1>5, <2>1 DEF Migrate, Typed, TypeOK
  <2>3. TypeOK'
    BY <1>5, <2>2 DEF Migrate, Typed, TypeOK
  <2>4. Ordered'
    BY <1>5 DEF Migrate, Typed, TypeOK, Ordered
  <2>. QED  BY <1>5, <2>3, <2>4 DEF Migrate, Typed
<1>6. CASE RemoveLegacy(t)
    BY <1>6 DEF RemoveLegacy, Typed, TypeOK, Ordered
<1>. QED  BY <1>1, <1>2, <1>3, <1>4, <1>5, <1>6

\* Counting a call and the steps of flush keep the types.
LEMMA TypedFlush ==
    ASSUME Typed, NEW t \in Thread, Count(t) \/ Flush(t)
    PROVE  Typed'
<1>. USE ConstantsOK DEF Step, Mine, files, memory, ledger, bounds
<1>1. CASE Count(t)
  <2>1. tracker' \in [Proc -> Trackers]
    BY <1>1, CountDoes
  <2>2. calls' \in Nat
    <3>1. job[t].counts \in Nat
        BY Fields
    <3>2. calls \in Nat
        BY DEF Typed, TypeOK
    <3>3. calls' = calls + job[t].counts
        BY <1>1 DEF Count
    <3>. QED  BY <3>1, <3>2, <3>3
  <2>3. TypeOK'
    BY <1>1, <2>1, <2>2 DEF Count, Typed, TypeOK, Trackers
  <2>4. ASSUME NEW q \in Proc
        PROVE  tracker'[q].flushed = tracker[q].flushed /\ tracker[q].session <= tracker'[q].session
    BY <1>1, CountDoes, Fields
  <2>5. \A q \in Proc : tracker'[q].session \in Nat
    BY <2>1 DEF Trackers
  <2>6. \A q \in Proc : tracker'[q].flushed <= tracker'[q].session
    BY <2>4, <2>5, Fields
  <2>7. ASSUME NEW u \in Thread, pc'[u] \in {"read", "write", "mark"}
        PROVE  job'[u].pending <= tracker'[ProcOf[u]].session
    <3>1. pc[u] \in {"read", "write", "mark"} /\ job' = job
        BY <1>1, <2>7 DEF Count, Typed, TypeOK
    <3>2. job[u].pending <= tracker[ProcOf[u]].session
        BY <3>1 DEF Typed, Ordered
    <3>. QED  BY <3>1, <3>2, <2>4, <2>5, Fields
  <2>8. Ordered'
    BY <2>6, <2>7 DEF Ordered
  <2>. QED  BY <1>1, <2>3, <2>8 DEF Count, Typed
<1>2. CASE LockFile(t)
    BY <1>2 DEF LockFile, Typed, TypeOK, Ordered
<1>3. CASE Delta(t)
  <2>1. job' \in [Thread -> Jobs]
    BY <1>3, DeltaDoes
  <2>2. TypeOK'
    BY <1>3, <2>1 DEF Delta, Typed, TypeOK, Jobs
  <2>3. ASSUME NEW u \in Thread, pc'[u] \in {"read", "write", "mark"}
        PROVE  job'[u].pending <= tracker'[ProcOf[u]].session
    <3>1. CASE u = t
      <4>1. tracker' = tracker /\ job'[t].pending = tracker[ProcOf[t]].session
        BY <1>3, DeltaDoes DEF Delta
      <4>2. tracker[ProcOf[t]].session \in Nat
        BY Fields
      <4>. QED  BY <3>1, <4>1, <4>2
    <3>2. CASE u # t
      <4>1. pc[u] \in {"read", "write", "mark"} /\ job'[u] = job[u]
        BY <1>3, <2>3, <3>2, DeltaDoes DEF Delta, Typed, TypeOK
      <4>. QED  BY <1>3, <4>1 DEF Delta, Typed, Ordered
    <3>. QED  BY <3>1, <3>2
  <2>4. Ordered'
    BY <1>3, <2>3 DEF Delta, Typed, Ordered
  <2>. QED  BY <1>3, <2>2, <2>4 DEF Delta, Typed
<1>4. CASE ReadDisk(t)
  <2>1. job' \in [Thread -> Jobs]
    BY <1>4, ReadDiskDoes
  <2>2. TypeOK'
    BY <1>4, <2>1 DEF ReadDisk, Typed, TypeOK, Jobs
  <2>3. Ordered'
    BY <1>4, ReadDiskDoes DEF ReadDisk, Typed, TypeOK, Ordered
  <2>. QED  BY <1>4, <2>2, <2>3 DEF ReadDisk, Typed
<1>5. CASE WriteDisk(t)
  <2>1. CASE Step(t, "write", "mark") /\ job' = [job EXCEPT ![t].wrote = TRUE]
               /\ home' = job[t].seen + job[t].delta /\ flock' = flock
    <3>1. job' \in [Thread -> Jobs]
        BY <2>1, WrittenDoes
    <3>2. home' \in Nat
        BY <2>1, Fields
    <3>3. TypeOK'
        BY <1>5, <2>1, <3>1, <3>2 DEF WriteDisk, Typed, TypeOK, Jobs
    <3>4. Ordered'
      <4>1. tracker' = tracker
        BY <1>5 DEF WriteDisk
      <4>2. /\ \A u \in Thread : pc'[u] \in {"read", "write", "mark"} =>
                                pc[u] \in {"read", "write", "mark"}
        BY <2>1 DEF Step, Typed, TypeOK
      <4>3. \A u \in Thread : job'[u].pending = job[u].pending
        BY <2>1, WrittenDoes
      <4>. QED  BY ONLY Typed, <4>1, <4>2, <4>3 DEF Typed, Ordered
    <3>. QED  BY <1>5, <3>3, <3>4 DEF WriteDisk, Typed
  <2>2. CASE Flushed(t) /\ home' = home
    <3>1. job' \in [Thread -> Jobs]
        BY <2>2, FlushedDoes
    <3>2. TypeOK'
        BY <1>5, <2>2, <3>1 DEF WriteDisk, Flushed, Typed, TypeOK, Jobs
    <3>3. Ordered'
        BY <1>5, <2>2, FlushedDoes DEF WriteDisk, Flushed, Typed, TypeOK, Ordered
    <3>. QED  BY <1>5, <3>2, <3>3 DEF WriteDisk, Typed
  <2>. QED  BY <1>5, <2>1, <2>2 DEF WriteDisk
<1>6. CASE Mark(t)
  <2>1. tracker' \in [Proc -> Trackers] /\ job' \in [Thread -> Jobs]
    BY <1>6, MarkDoes, FlushedDoes DEF Mark
  <2>2. TypeOK'
    BY <1>6, <2>1 DEF Mark, Flushed, Typed, TypeOK, Trackers, Jobs
  <2>3. job[t].pending <= tracker[ProcOf[t]].session
    BY <1>6 DEF Mark, Typed, Ordered
  <2>4. ASSUME NEW q \in Proc
        PROVE  tracker'[q].session = tracker[q].session /\ tracker'[q].flushed <= tracker[q].session
    <3>1. CASE q = ProcOf[t]
      <4>1. tracker'[q].session = tracker[q].session /\ tracker'[q].flushed = job[t].pending
        BY <1>6, <3>1, MarkDoes
      <4>. QED  BY <2>3, <3>1, <4>1
    <3>2. CASE q # ProcOf[t]
      <4>1. tracker'[q] = tracker[q]
        BY <1>6, <3>2, MarkDoes
      <4>. QED  BY <4>1, Fields
    <3>. QED  BY <3>1, <3>2
  <2>5. ASSUME NEW u \in Thread, pc'[u] \in {"read", "write", "mark"}
        PROVE  job'[u].pending <= tracker'[ProcOf[u]].session
    <3>1. pc[u] \in {"read", "write", "mark"} /\ u # t
        BY <1>6, <2>5 DEF Mark, Flushed, Typed, TypeOK
    <3>2. job'[u] = job[u]
        BY <1>6, <3>1, FlushedDoes DEF Mark
    <3>. QED  BY <3>1, <3>2, <2>4, Fields DEF Typed, Ordered
  <2>6. Ordered'
    BY <2>4, <2>5 DEF Ordered
  <2>. QED  BY <1>6, <2>2, <2>6 DEF Mark, Typed
<1>. QED  BY <1>1, <1>2, <1>3, <1>4, <1>5, <1>6 DEF Flush

\* Every step keeps the types.
LEMMA TypedStep == Typed /\ [Next]_vars => Typed'
<1>. SUFFICES ASSUME Typed, [Next]_vars PROVE Typed'
    OBVIOUS
<1>1. CASE UNCHANGED vars
    BY <1>1 DEF Typed, TypeOK, Ordered, vars, files, memory, ledger, bounds
<1>2. ASSUME NEW p \in Proc, Start(p) PROVE Typed'
    BY <1>2, TypedStart
<1>3. ASSUME NEW p \in Proc, Die(p) PROVE Typed'
    BY <1>3, TypedEnded DEF Die
<1>4. ASSUME NEW t \in Thread, Exit(t) PROVE Typed'
    BY <1>4, TypedEnded, ConstantsOK DEF Exit
<1>5. ASSUME NEW t \in Thread, Enter(t, 0) PROVE Typed'
    BY <1>5, TypedLoad
<1>6. ASSUME NEW t \in Thread, Enter(t, 1) PROVE Typed'
    BY <1>6, TypedLoad
<1>7. ASSUME NEW t \in Thread, StartClose(t) PROVE Typed'
    BY <1>7, TypedLoad
<1>8. ASSUME NEW t \in Thread, Load(t) \/ Flush(t) PROVE Typed'
    BY <1>8, TypedLoad, TypedFlush DEF Load
<1>. QED  BY <1>1, <1>2, <1>3, <1>4, <1>5, <1>6, <1>7, <1>8 DEF Next, Run

\* UsageTracker's variables keep their types, with the file lock or without: in
\* particular flush never computes a negative delta.
THEOREM UsageTyping == Spec => []TypeOK
<1>1. Typed => TypeOK
    BY DEF Typed
<1>. QED  BY <1>1, TypedInit, TypedStep, PTL DEF Spec

-----------------------------------------------------------------------------
(* What a step leaves alone. *)

\* A step of one goroutine.
Moves(t) ==
    \/ Enter(t, 0) \/ Enter(t, 1) \/ StartClose(t)
    \/ Load(t) \/ Flush(t)

\* The goroutines but t are where they were, and so is the memory of the
\* processes but its own.
Alone(t) ==
    /\ \A u \in Thread \ {t} : pc'[u] = pc[u] /\ job'[u] = job[u]
    /\ \A q \in Proc \ {ProcOf[t]} : tracker'[q] = tracker[q] /\ mu'[q] = mu[q]

\* A step of a goroutine leaves the other ones and the other processes alone.
LEMMA MovesAlone ==
    ASSUME Typed, NEW t \in Thread, Moves(t)
    PROVE  Alone(t)
<1>. USE ConstantsOK DEF Step, files, memory, ledger, bounds
<1>0. /\ pc \in [Thread -> Control] /\ mu \in [Proc -> Thread \cup {Free}]
      /\ tracker \in [Proc -> Trackers] /\ job \in [Thread -> Jobs]
    BY DEF Typed, TypeOK, Control, Loading, Merging, Trackers, Jobs
<1>1. ASSUME NEW c \in 0..1, Enter(t, c) PROVE Alone(t)
    BY <1>0, <1>1 DEF Enter, Alone
<1>2. CASE StartClose(t)
    BY <1>0, <1>2 DEF StartClose, Alone
<1>3. CASE ReadHome(t)
    BY <1>0, <1>3 DEF ReadHome, Alone
<1>4. CASE ReadLegacy(t)
    BY <1>0, <1>4 DEF ReadLegacy, Alone
<1>5. CASE Migrate(t)
    BY <1>0, <1>5 DEF Migrate, Alone
<1>6. CASE RemoveLegacy(t)
    BY <1>0, <1>6 DEF RemoveLegacy, Alone
<1>7. CASE Count(t)
    BY <1>0, <1>7, CountDoes DEF Count, Alone
<1>8. CASE LockFile(t)
    BY <1>0, <1>8 DEF LockFile, Alone
<1>9. CASE Delta(t)
    BY <1>0, <1>9, DeltaDoes DEF Delta, Alone
<1>10. CASE ReadDisk(t)
    BY <1>0, <1>10, ReadDiskDoes DEF ReadDisk, Alone
<1>11. CASE WriteDisk(t)
    BY <1>0, <1>11, WrittenDoes, FlushedDoes DEF WriteDisk, Flushed, Alone
<1>12. CASE Mark(t)
    BY <1>0, <1>12, MarkDoes, FlushedDoes DEF Mark, Flushed, Alone
<1>. QED
    BY <1>1, <1>2, <1>3, <1>4, <1>5, <1>6, <1>7, <1>8, <1>9, <1>10, <1>11, <1>12
    DEF Moves, Load, Flush

\* The end of a process leaves the other ones alone.
LEMMA EndedAlone ==
    ASSUME Typed, NEW p \in Proc, Ended(p)
    PROVE  /\ \A u \in Thread : IF ProcOf[u] = p THEN pc'[u] = "idle" /\ job'[u] = Blank
                              ELSE pc'[u] = pc[u] /\ job'[u] = job[u]
           /\ \A q \in Proc : IF q = p THEN tracker'[q] = Fresh /\ mu'[q] = Free
                            ELSE tracker'[q] = tracker[q] /\ mu'[q] = mu[q]
           /\ \A u \in Thread : ProcOf[u] # p /\ flock = u => flock' = u
BY DEF Ended, Typed, TypeOK

-----------------------------------------------------------------------------
(* The locks. *)

\* A goroutine takes a lock that is free, gives back its own, and has the one
\* its next step needs.
Keyed(t) ==
    /\ flock' = flock \/ (flock = Free /\ flock' = t) \/ (flock = t /\ flock' = Free)
    /\ LET P == ProcOf[t]
       IN  /\ mu'[P] = mu[P] \/ (mu[P] = Free /\ mu'[P] = t) \/ (mu[P] = t /\ mu'[P] = Free)
           /\ tracker[P].known => tracker'[P].known
           /\ pc'[t] \in Loading => mu'[P] = t
           /\ pc'[t] \in Merging \cup {"lock"} => tracker'[P].known
    /\ pc'[t] \in Merging => flock' = t
    /\ job'[t].wrote <=> pc'[t] = "mark"

\* Such a step keeps the discipline of every goroutine.
LEMMA KeyedLocked ==
    ASSUME Typed, Locked, NEW t \in Thread, Alone(t), Keyed(t)
    PROVE  Locked'
<1>0. Free \notin Thread /\ ProcOf \in [Thread -> Proc]
    BY FreeIsNoThread, ConstantsOK
<1>1. ASSUME NEW u \in Thread, pc'[u] \in Loading PROVE mu'[ProcOf[u]] = u
    BY <1>0, <1>1 DEF Locked, Alone, Keyed
<1>2. ASSUME NEW u \in Thread, pc'[u] \in Merging PROVE flock' = u
    BY <1>0, <1>2 DEF Locked, Alone, Keyed
<1>3. ASSUME NEW u \in Thread PROVE job'[u].wrote <=> pc'[u] = "mark"
    BY <1>3 DEF Locked, Alone, Keyed
<1>4. ASSUME NEW u \in Thread, pc'[u] \in Merging \cup {"lock"} PROVE tracker'[ProcOf[u]].known
    BY <1>0, <1>4 DEF Locked, Alone, Keyed
<1>. QED  BY <1>1, <1>2, <1>3, <1>4 DEF Locked

\* Every step of a goroutine is such a step where every process can lock.
LEMMA MovesKeyed ==
    ASSUME Unlocked = {}, Typed, Locked, NEW t \in Thread, Moves(t)
    PROVE  Keyed(t)
<1>. USE DEF Step, MuFree, Mine, files, memory, ledger, bounds, Loading, Merging
<1>a. /\ pc \in [Thread -> Control] /\ mu \in [Proc -> Thread \cup {Free}]
      /\ ProcOf[t] \in Proc
    BY Fields DEF Typed, TypeOK, Control
<1>b. job[t].wrote <=> pc[t] = "mark"
    BY DEF Locked
<1>c. pc[t] \in Loading => mu[ProcOf[t]] = t
    BY DEF Locked
<1>d. /\ pc[t] \in Merging => flock = t
      /\ pc[t] \in Merging \cup {"lock"} => tracker[ProcOf[t]].known
    BY DEF Locked
<1>1. ASSUME NEW c \in 0..1, Enter(t, c) PROVE Keyed(t)
    BY <1>a, <1>b, <1>1, EnterDoes DEF Enter, Keyed
<1>2. CASE StartClose(t)
    BY <1>a, <1>b, <1>2, CloseDoes DEF StartClose, Keyed
<1>3. CASE ReadHome(t)
  <2>1. tracker'[ProcOf[t]].known = tracker[ProcOf[t]].known
    BY <1>3, ReadDoes
  <2>. QED  BY <1>a, <1>b, <1>c, <1>3, <2>1 DEF ReadHome, Keyed
<1>4. CASE ReadLegacy(t)
  <2>1. tracker'[ProcOf[t]].known = tracker[ProcOf[t]].known
    BY <1>4, ReadDoes
  <2>. QED  BY <1>a, <1>b, <1>c, <1>4, <2>1 DEF ReadLegacy, Keyed
<1>5. CASE Migrate(t)
    BY <1>a, <1>b, <1>c, <1>5 DEF Migrate, Keyed
<1>6. CASE RemoveLegacy(t)
    BY <1>a, <1>b, <1>c, <1>6 DEF RemoveLegacy, Keyed
<1>7. CASE Count(t)
  <2>1. tracker'[ProcOf[t]].known
    BY <1>7, CountDoes
  <2>. QED  BY <1>a, <1>b, <1>c, <1>7, <2>1 DEF Count, Keyed
<1>8. CASE LockFile(t)
    BY <1>a, <1>b, <1>d, <1>8 DEF LockFile, Keyed
<1>9. CASE Delta(t)
    BY <1>a, <1>b, <1>d, <1>9, DeltaDoes DEF Delta, Keyed
<1>10. CASE ReadDisk(t)
    BY <1>a, <1>b, <1>d, <1>10, ReadDiskDoes DEF ReadDisk, Keyed
<1>11. CASE WriteDisk(t)
  <2>1. CASE Step(t, "write", "mark") /\ job' = [job EXCEPT ![t].wrote = TRUE] /\ flock' = flock
    BY <1>a, <1>d, <1>11, <2>1, WrittenDoes DEF WriteDisk, Keyed
  <2>2. CASE pc[t] = "write" /\ Flushed(t)
    <3>1. ~job'[t].wrote
        BY <2>2, FlushedDoes DEF Blank
    <3>. QED  BY <1>a, <1>d, <1>11, <2>2, <3>1 DEF WriteDisk, Flushed, Keyed
  <2>. QED  BY <1>11, <2>1, <2>2 DEF WriteDisk
<1>12. CASE Mark(t)
  <2>1. ~job'[t].wrote
    BY <1>12, FlushedDoes DEF Mark, Blank
  <2>2. tracker'[ProcOf[t]].known = tracker[ProcOf[t]].known
    BY <1>12, MarkDoes
  <2>. QED  BY <1>a, <1>d, <1>12, <2>1, <2>2 DEF Mark, Flushed, Keyed
<1>. QED
    BY <1>1, <1>2, <1>3, <1>4, <1>5, <1>6, <1>7, <1>8, <1>9, <1>10, <1>11, <1>12
    DEF Moves, Load, Flush

\* The end of a process frees its locks and no other.
LEMMA EndedLocked ==
    ASSUME Typed, Locked, NEW p \in Proc, Ended(p)
    PROVE  Locked'
<1>0. ProcOf \in [Thread -> Proc] /\ ~Blank.wrote
    BY ConstantsOK DEF Blank
<1>1. ASSUME NEW u \in Thread, pc'[u] \in Loading PROVE mu'[ProcOf[u]] = u
    BY <1>0, <1>1, EndedAlone DEF Locked, Loading
<1>2. ASSUME NEW u \in Thread, pc'[u] \in Merging PROVE flock' = u
    BY <1>0, <1>2, EndedAlone DEF Locked, Merging
<1>3. ASSUME NEW u \in Thread PROVE job'[u].wrote <=> pc'[u] = "mark"
    BY <1>0, EndedAlone DEF Locked
<1>4. ASSUME NEW u \in Thread, pc'[u] \in Merging \cup {"lock"} PROVE tracker'[ProcOf[u]].known
    BY <1>0, <1>4, EndedAlone DEF Locked, Merging
<1>. QED  BY <1>1, <1>2, <1>3, <1>4 DEF Locked

-----------------------------------------------------------------------------
(* What a merge adds. *)

\* What flush computed stays what its process has not flushed: the file lock
\* keeps every other merge out until it is marked.
LEMMA MovesDiffers ==
    ASSUME Typed, Locked, Differs, NEW t \in Thread, Moves(t)
    PROVE  Differs'
<1>. DEFINE Taken(u) == pc[u] \in {"read", "write", "mark"}
            Apart(u) == /\ tracker[ProcOf[u]].flushed <= job[u].pending
                        /\ job[u].delta = job[u].pending - tracker[ProcOf[u]].flushed
<1>. USE DEF Step, files, memory, ledger, bounds
<1>a. pc \in [Thread -> Control] /\ ProcOf \in [Thread -> Proc]
    BY ConstantsOK DEF Typed, TypeOK, Control, Loading, Merging
<1>b. \A u \in Thread : Taken(u) => Apart(u) /\ flock = u
    BY DEF Differs, Locked, Merging
<1>c. ~Mark(t) => tracker'[ProcOf[t]].flushed = tracker[ProcOf[t]].flushed
  <2>1. CASE ReadHome(t) \/ ReadLegacy(t)
    BY <2>1, ReadDoes
  <2>2. CASE Count(t)
    BY <2>2, CountDoes
  <2>. QED
    BY <2>1, <2>2 DEF Moves, Load, Flush, Enter, StartClose, Migrate, RemoveLegacy, LockFile,
                      Delta, ReadDisk, WriteDisk
<1>1. ASSUME NEW u \in Thread, u # t, Taken(u)' PROVE Apart(u)'
  <2>1. Taken(u) /\ job'[u] = job[u]
    BY <1>1, MovesAlone DEF Alone
  <2>2. ~Mark(t)
    BY <1>1, <1>b, <2>1 DEF Mark, Locked, Merging
  <2>3. tracker'[ProcOf[u]].flushed = tracker[ProcOf[u]].flushed
    BY <1>a, <1>c, <2>2, MovesAlone DEF Alone
  <2>. QED  BY <1>b, <2>1, <2>3
<1>2. ASSUME Taken(t)' PROVE Apart(t)'
  <2>1. CASE Delta(t)
    <3>1. /\ job'[t].pending = tracker[ProcOf[t]].session
          /\ job'[t].delta = tracker[ProcOf[t]].session - tracker[ProcOf[t]].flushed
          /\ tracker' = tracker
        BY <2>1, DeltaDoes DEF Delta
    <3>2. tracker[ProcOf[t]].flushed <= tracker[ProcOf[t]].session
        BY Fields
    <3>. QED  BY <3>1, <3>2
  <2>2. CASE ReadDisk(t)
    <3>1. job'[t].pending = job[t].pending /\ job'[t].delta = job[t].delta /\ tracker' = tracker
        BY <2>2, ReadDiskDoes DEF ReadDisk
    <3>2. Apart(t)
        BY <2>2, <1>b DEF ReadDisk, Differs
    <3>. QED  BY <3>1, <3>2
  <2>3. CASE WriteDisk(t)
    <3>1. pc[t] = "write" /\ tracker' = tracker
        BY <2>3 DEF WriteDisk
    <3>2. Apart(t)
        BY <3>1, <1>b
    <3>3. ~Flushed(t)
        BY <1>2, <1>a DEF Flushed
    <3>4. job'[t].pending = job[t].pending /\ job'[t].delta = job[t].delta
        BY <2>3, <3>3, WrittenDoes DEF WriteDisk
    <3>. QED  BY <3>1, <3>2, <3>4
  <2>4. ~Delta(t) /\ ~ReadDisk(t) /\ ~WriteDisk(t) => ~Taken(t)'
    BY <1>a DEF Moves, Load, Flush, Enter, StartClose, ReadHome, ReadLegacy, Migrate,
                RemoveLegacy, Count, LockFile, Mark, Flushed
  <2>. QED  BY <1>2, <2>1, <2>2, <2>3, <2>4
<1>. QED  BY <1>1, <1>2 DEF Differs

\* The end of a process leaves the merges of the other ones alone.
LEMMA EndedDiffers ==
    ASSUME Typed, Differs, NEW p \in Proc, Ended(p)
    PROVE  Differs'
<1>1. ASSUME NEW u \in Thread, pc'[u] \in {"read", "write", "mark"}
      PROVE  /\ pc[u] \in {"read", "write", "mark"} /\ job'[u] = job[u]
             /\ tracker'[ProcOf[u]] = tracker[ProcOf[u]]
    BY <1>1, EndedAlone, ConstantsOK
<1>. QED  BY <1>1 DEF Differs

-----------------------------------------------------------------------------
(* The adopted total. *)

\* While there is no home file the files hold the adopted total.
LEMMA OnDiskIs ==
    ASSUME Typed, FilesAdopt
    PROVE  /\ OnDisk \in Nat
           /\ home = Absent => OnDisk = adopted
           /\ home # Absent => OnDisk = home
<1>1. adopted \in Nat /\ home \in Nat \cup {Absent} /\ legacy \in Nat \cup {Absent}
    BY DEF Typed, TypeOK
<1>2. CASE home # Absent
    BY <1>1, <1>2 DEF OnDisk, FilesAdopt
<1>3. CASE home = Absent
  <2>1. OnDisk = adopted
    BY <1>3 DEF OnDisk, FilesAdopt
  <2>. QED  BY <1>1, <1>3, <2>1
<1>. QED  BY <1>2, <1>3

\* The first touch alone changes a baseline, and the end of it what is known.
LEMMA BaselineStays ==
    ASSUME Typed, NEW t \in Thread, Moves(t),
           ~ReadHome(t), ~ReadLegacy(t), ~Count(t)
    PROVE  /\ tracker'[ProcOf[t]].known = tracker[ProcOf[t]].known
           /\ tracker'[ProcOf[t]].baseline = tracker[ProcOf[t]].baseline
<1>1. CASE Mark(t)
    BY <1>1, MarkDoes
<1>. QED
    BY <1>1 DEF Moves, Load, Flush, Enter, StartClose, Migrate, RemoveLegacy, LockFile,
                Delta, ReadDisk, WriteDisk, memory

\* The home file is never removed, and adopted is what it was.
LEMMA HomeStays ==
    ASSUME Typed, NEW t \in Thread, Moves(t)
    PROVE  /\ home # Absent => home' # Absent
           /\ adopted' = adopted
           /\ blind => blind'
<1>0. Absent \notin Nat
    BY ConstantsOK
<1>1. home # Absent => home' # Absent
  <2>1. CASE Migrate(t)
    <3>1. tracker[ProcOf[t]].baseline \in Nat
        BY Fields
    <3>2. home' = home \/ home' = tracker[ProcOf[t]].baseline
        BY <2>1 DEF Migrate, Mine
    <3>. QED  BY <1>0, <3>1, <3>2
  <2>2. CASE WriteDisk(t)
    <3>1. job[t].seen + job[t].delta \in Nat
        BY Fields
    <3>. QED  BY <1>0, <2>2, <3>1 DEF WriteDisk
  <2>. QED
    BY <2>1, <2>2 DEF Moves, Load, Flush, Enter, StartClose, ReadHome, ReadLegacy, RemoveLegacy,
                      Count, LockFile, Delta, ReadDisk, Mark, files
<1>2. adopted' = adopted
    BY DEF Moves, Load, Flush, Enter, StartClose, ReadHome, ReadLegacy, Migrate, RemoveLegacy,
           Count, LockFile, Delta, ReadDisk, WriteDisk, Mark, ledger
<1>3. \/ blind' = blind
      \/ blind' = (blind \/ home # Absent)
      \/ blind' = (blind \/ legacy # Absent)
    BY Zenon DEF Moves, Load, Flush, Enter, StartClose, ReadHome, ReadLegacy, Migrate, RemoveLegacy,
           Count, LockFile, Delta, ReadDisk, WriteDisk, Mark, ledger
<1>4. blind => blind'
    BY <1>3, Zenon
<1>. QED  BY <1>1, <1>2, <1>4, Zenon

\* The legacy file is removed once there is a home file.
LEMMA MovesFilesAdopt ==
    ASSUME Typed, FilesAdopt, MemoryAdopts, NEW t \in Thread, Moves(t)
    PROVE  FilesAdopt'
<1>1. adopted' = adopted /\ (home' = Absent => home = Absent)
    BY HomeStays
<1>2. CASE RemoveLegacy(t)
    BY <1>1, <1>2 DEF RemoveLegacy, Step, FilesAdopt, MemoryAdopts
<1>3. ~RemoveLegacy(t) => legacy' = legacy
    BY DEF Moves, Load, Flush, Enter, StartClose, ReadHome, ReadLegacy, Migrate, Count, LockFile,
           Delta, ReadDisk, WriteDisk, Mark, files
<1>. QED  BY <1>1, <1>2, <1>3 DEF FilesAdopt

\* The first touch, under Tracker.mu, gives a process the adopted total or what
\* the home file holds.
LEMMA MovesMemoryAdopts ==
    ASSUME Typed, Locked, FilesAdopt, MemoryAdopts, NEW t \in Thread, Moves(t)
    PROVE  MemoryAdopts'
<1>. DEFINE P == ProcOf[t]
<1>. USE DEF Step
<1>a. /\ pc \in [Thread -> Control] /\ mu \in [Proc -> Thread \cup {Free}]
      /\ ProcOf \in [Thread -> Proc] /\ P \in Proc /\ Free \notin Thread
    BY FreeIsNoThread, ConstantsOK DEF Typed, TypeOK, Control, Loading, Merging
<1>b. adopted' = adopted /\ (home' = Absent => home = Absent) /\ (~blind' => ~blind)
    BY HomeStays
<1>c. Alone(t)
    BY MovesAlone
<1>d. ReadHome(t) \/ ReadLegacy(t) => tracker'[P].known = tracker[P].known /\ ~tracker[P].known
  <2>1. ReadHome(t) \/ ReadLegacy(t) => tracker'[P].known = tracker[P].known
    BY ReadDoes
  <2>2. ReadHome(t) \/ ReadLegacy(t) => ~tracker[P].known
    BY DEF ReadHome, ReadLegacy, MemoryAdopts
  <2>. QED  BY <2>1, <2>2
<1>e. Count(t) => tracker'[P].known /\ tracker'[P].baseline = tracker[P].baseline
    BY CountDoes
<1>f. ReadHome(t) \/ ReadLegacy(t) \/ Count(t) => mu[P] = t
    BY DEF ReadHome, ReadLegacy, Count, Locked, Loading
<1>g. ReadHome(t) \/ ReadLegacy(t) => mu' = mu
    BY DEF ReadHome, ReadLegacy
<1>h. ~ReadHome(t) /\ ~ReadLegacy(t) /\ ~Count(t) =>
        tracker'[P].known = tracker[P].known /\ tracker'[P].baseline = tracker[P].baseline
    BY BaselineStays
<1>1. ASSUME NEW q \in Proc, ~blind', home' = Absent, tracker'[q].known
      PROVE  tracker'[q].baseline = adopted
  <2>0. home = Absent /\ ~blind
    BY <1>1, <1>b
  <2>1. CASE q # P
    <3>1. tracker'[q] = tracker[q]
      BY <1>c, <2>1 DEF Alone
    <3>. QED  BY <1>1, <1>b, <2>0, <3>1 DEF MemoryAdopts
  <2>2. CASE q = P /\ Count(t)
    BY <1>1, <1>b, <1>e, <2>0, <2>2 DEF Count, MemoryAdopts
  <2>3. CASE q = P /\ ~Count(t)
    BY <1>1, <1>a, <1>b, <1>d, <1>h, <2>0, <2>3 DEF MemoryAdopts
  <2>. QED  BY <2>1, <2>2, <2>3
<1>2. ASSUME NEW q \in Proc, mu'[q] = Free, ~tracker'[q].known
      PROVE  tracker'[q].baseline = 0
  <2>1. CASE q # P
    BY <1>2, <1>c, <2>1 DEF Alone, MemoryAdopts
  <2>2. CASE q = P
    <3>1. ~Count(t) /\ ~ReadHome(t) /\ ~ReadLegacy(t)
        BY <1>2, <1>a, <1>e, <1>f, <1>g, <2>2
    <3>2. mu' = mu \/ Enter(t, 0) \/ Enter(t, 1)
        BY <3>1 DEF Moves, Load, Flush, StartClose, Migrate, RemoveLegacy, LockFile, Delta,
                    ReadDisk, WriteDisk, Mark
    <3>3. mu' = mu
        BY <1>2, <1>a, <2>2, <3>2 DEF Enter
    <3>. QED  BY <1>2, <1>h, <2>2, <3>1, <3>3 DEF MemoryAdopts
  <2>. QED  BY <2>1, <2>2
<1>3. ASSUME NEW u \in Thread, u # t, pc[u] \in Loading
      PROVE  /\ tracker'[ProcOf[u]].known = tracker[ProcOf[u]].known
             /\ tracker'[ProcOf[u]].baseline = tracker[ProcOf[u]].baseline
  <2>1. CASE ProcOf[u] # P
    BY <1>a, <1>c, <2>1 DEF Alone
  <2>2. CASE ProcOf[u] = P
    <3>1. mu[P] = u
        BY <1>3, <2>2 DEF Locked
    <3>. QED  BY <1>3, <1>f, <1>h, <2>2, <3>1
  <2>. QED  BY <2>1, <2>2
<1>. DEFINE Touched(u) ==
               /\ pc[u] \in {"read home", "read legacy"} =>
                     tracker[ProcOf[u]].baseline = 0 /\ ~tracker[ProcOf[u]].known
               /\ pc[u] = "migrate" => tracker[ProcOf[u]].baseline = adopted
               /\ pc[u] = "remove legacy" => home # Absent
               /\ ~blind /\ pc[u] = "count" /\ home = Absent =>
                     tracker[ProcOf[u]].baseline = adopted
<1>4. ASSUME NEW u \in Thread, u # t PROVE Touched(u)'
  <2>1. pc'[u] = pc[u]
    BY <1>4, <1>c DEF Alone
  <2>2. Touched(u)
    BY DEF MemoryAdopts
  <2>. QED  BY <1>3, <1>4, <1>b, <2>1, <2>2 DEF Loading
<1>5. Touched(t)'
  <2>0. Touched(t)
    BY DEF MemoryAdopts
  <2>1. CASE Enter(t, 0) \/ Enter(t, 1)
    <3>1. /\ mu[P] = Free /\ tracker' = tracker /\ home' = home
          /\ pc'[t] = IF tracker[P].known THEN "count" ELSE "read home"
        BY <1>a, <2>1 DEF Enter, Mine, MuFree, files
    <3>2. ~tracker[P].known => tracker[P].baseline = 0
        BY <1>a, <3>1 DEF MemoryAdopts
    <3>3. ~blind /\ tracker[P].known /\ home = Absent => tracker[P].baseline = adopted
        BY <1>a DEF MemoryAdopts
    <3>. QED  BY <1>b, <3>1, <3>2, <3>3
  <2>2. CASE ReadHome(t)
    <3>1. /\ pc[t] = "read home"
          /\ \/ pc'[t] = "read legacy" /\ tracker' = tracker
             \/ pc'[t] = "count" /\ home # Absent
        BY <1>a, <2>2 DEF ReadHome
    <3>. QED  BY <1>b, <2>0, <3>1
  <2>3. CASE ReadLegacy(t)
    <3>1. pc[t] = "read legacy" /\ home' = home
        BY <2>3 DEF ReadLegacy, files
    <3>2. CASE pc'[t] = "count" /\ tracker' = tracker /\ blind' = (blind \/ legacy # Absent)
      <4>1. ~blind' => legacy = Absent
        BY <3>2, Zenon
      <4>. QED  BY <1>b, <2>0, <3>1, <3>2, <4>1 DEF FilesAdopt
    <3>3. CASE pc'[t] = "migrate" /\ legacy # Absent
      <4>1. /\ legacy \in Nat /\ P \in Proc
            /\ tracker' = [tracker EXCEPT ![P].baseline = legacy]
        BY <1>a, <2>3, <3>3 DEF ReadLegacy, Typed, TypeOK
      <4>2. tracker'[P].baseline = legacy
        BY <4>1, BaselineDoes
      <4>. QED  BY <1>b, <3>3, <4>2 DEF FilesAdopt
    <3>4. \/ pc'[t] = "count" /\ tracker' = tracker /\ blind' = (blind \/ legacy # Absent)
          \/ pc'[t] = "migrate" /\ legacy # Absent
        BY <1>a, <2>3 DEF ReadLegacy
    <3>. QED  BY <3>2, <3>3, <3>4
  <2>4. CASE Migrate(t)
    <3>1. pc[t] = "migrate" /\ tracker' = tracker
        BY <2>4 DEF Migrate
    <3>2. \/ pc'[t] = "remove legacy" /\ home' = tracker[P].baseline
          \/ pc'[t] = "count"
        BY <1>a, <2>4 DEF Migrate, Mine
    <3>3. tracker[P].baseline # Absent
        BY <1>a, Fields, ConstantsOK
    <3>. QED  BY <1>b, <2>0, <3>1, <3>2, <3>3
  <2>5. CASE RemoveLegacy(t)
    <3>1. pc[t] = "remove legacy" /\ pc'[t] = "count" /\ home' = home
        BY <1>a, <2>5 DEF RemoveLegacy
    <3>. QED  BY <2>0, <3>1
  <2>6. CASE StartClose(t) \/ Count(t) \/ Flush(t)
    <3>1. pc'[t] \in {"idle", "lock", "delta", "read", "write", "mark", "exit"}
        BY <1>a, <2>6 DEF StartClose, Count, Flush, LockFile, Delta, ReadDisk, WriteDisk, Mark,
                          Flushed
    <3>. QED  BY <3>1
  <2>. QED  BY <2>1, <2>2, <2>3, <2>4, <2>5, <2>6 DEF Moves, Load
<1>. QED  BY <1>b, <1>1, <1>2, <1>4, <1>5 DEF MemoryAdopts

\* But for a merge, the total the files hold changes where a migration replaces
\* a home file, and then it falls to the adopted one.
LEMMA OnDiskStays ==
    ASSUME Typed, FilesAdopt, MemoryAdopts, NEW t \in Thread, Moves(t), ~WriteDisk(t)
    PROVE  OnDisk' = OnDisk \/ (blind' /\ OnDisk' = adopted)
<1>. USE DEF Step
<1>1. CASE Migrate(t)
  <2>1. tracker[ProcOf[t]].baseline = adopted /\ adopted # Absent /\ legacy' = legacy
    BY <1>1, ConstantsOK DEF Migrate, MemoryAdopts, Typed
  <2>2. CASE home' = home
    BY <2>1, <2>2 DEF OnDisk
  <2>3. CASE home' = adopted /\ blind' = (blind \/ home # Absent)
    <3>1. OnDisk' = adopted
        BY <2>1, <2>3 DEF OnDisk
    <3>2. home = Absent => OnDisk = adopted
        BY OnDiskIs
    <3>3. home # Absent => blind'
        BY <2>3, Zenon
    <3>. QED  BY <3>1, <3>2, <3>3, Zenon
  <2>4. home' = home \/ (home' = adopted /\ blind' = (blind \/ home # Absent))
    BY <1>1, <2>1, Zenon DEF Migrate, Mine
  <2>. QED  BY <2>2, <2>3, <2>4
<1>2. CASE RemoveLegacy(t)
    BY <1>2 DEF RemoveLegacy, MemoryAdopts, OnDisk
<1>3. ~Migrate(t) /\ ~RemoveLegacy(t) => home' = home /\ legacy' = legacy
    BY DEF Moves, Load, Flush, Enter, StartClose, ReadHome, ReadLegacy, Count, LockFile, Delta,
           ReadDisk, Mark, files
<1>. QED  BY <1>1, <1>2, <1>3 DEF OnDisk

\* What a merge has read stays what the files hold: the file lock keeps every
\* other merge out, and a migration shows as a race.
LEMMA MovesSeenAdopts ==
    ASSUME Typed, Locked, FilesAdopt, MemoryAdopts, SeenAdopts, NEW t \in Thread, Moves(t)
    PROVE  SeenAdopts'
<1>. USE DEF Step
<1>a. pc \in [Thread -> Control] /\ adopted' = adopted /\ (blind => blind')
    BY HomeStays DEF Typed, TypeOK, Control, Loading, Merging
<1>1. ASSUME NEW u \in Thread, u # t, pc'[u] = "write"
      PROVE  ~blind' => job'[u].seen = OnDisk'
  <2>1. pc[u] = "write" /\ job'[u] = job[u]
    BY <1>1, MovesAlone DEF Alone
  <2>2. ~blind => job[u].seen = OnDisk
    BY <2>1 DEF SeenAdopts
  <2>3. ~WriteDisk(t)
    BY <1>1, <2>1 DEF WriteDisk, Locked, Merging
  <2>4. OnDisk' = OnDisk \/ blind'
    BY <2>3, OnDiskStays
  <2>5. ~blind' => job[u].seen = OnDisk'
    BY <1>a, <2>2, <2>4, Zenon
  <2>. QED  BY <2>1, <2>2, <2>5
<1>2. ASSUME pc'[t] = "write", ~blind' PROVE job'[t].seen = OnDisk'
  <2>1. ReadDisk(t)
    BY <1>2, <1>a DEF Moves, Load, Flush, Enter, StartClose, ReadHome, ReadLegacy, Migrate,
           RemoveLegacy, Count, LockFile, Delta, WriteDisk, Mark, Flushed
  <2>2. job'[t].seen = IF home = Absent THEN tracker[ProcOf[t]].baseline ELSE home
    BY <1>2, <2>1, ReadDiskDoes
  <2>3. tracker[ProcOf[t]].known
    BY <2>1 DEF ReadDisk, Locked, Merging
  <2>4. home = Absent => tracker[ProcOf[t]].baseline = adopted
    BY <1>2, <1>a, <2>3, Fields DEF MemoryAdopts
  <2>5. job'[t].seen = OnDisk
    BY <2>2, <2>4, OnDiskIs
  <2>6. OnDisk' = OnDisk
    BY <2>1 DEF ReadDisk, files, OnDisk
  <2>. QED  BY <2>5, <2>6
<1>. QED  BY <1>1, <1>2 DEF SeenAdopts

\* The end of a process touches neither the files nor the other processes.
LEMMA EndedAdopts ==
    ASSUME Typed, FilesAdopt, MemoryAdopts, SeenAdopts, NEW p \in Proc, Ended(p),
           home' = home, legacy' = legacy, adopted' = adopted, blind' = blind
    PROVE  FilesAdopt' /\ MemoryAdopts' /\ SeenAdopts'
<1>0. ProcOf \in [Thread -> Proc] /\ Fresh.baseline = 0 /\ ~Fresh.known
    BY ConstantsOK DEF Fresh
<1>1. FilesAdopt'
    BY DEF FilesAdopt
<1>2. OnDisk' = OnDisk
    BY DEF OnDisk
<1>3. SeenAdopts'
  <2>1. ASSUME NEW u \in Thread, pc'[u] = "write" PROVE pc[u] = "write" /\ job'[u] = job[u]
    BY <2>1, EndedAlone
  <2>. QED  BY <1>2, <2>1 DEF SeenAdopts
<1>4. MemoryAdopts'
  <2>1. ASSUME NEW q \in Proc, ~blind', home' = Absent, tracker'[q].known
        PROVE  tracker'[q].baseline = adopted
    <3>1. tracker'[q] = Fresh \/ tracker'[q] = tracker[q]
      BY EndedAlone
    <3>2. tracker'[q] = tracker[q] /\ home = Absent
      BY <1>0, <2>1, <3>1
    <3>. QED  BY <2>1, <3>2 DEF MemoryAdopts
  <2>2. ASSUME NEW q \in Proc, mu'[q] = Free, ~tracker'[q].known
        PROVE  tracker'[q].baseline = 0
    BY <1>0, <2>2, EndedAlone DEF MemoryAdopts
  <2>3. ASSUME NEW u \in Thread, pc'[u] \in Loading
        PROVE  pc[u] = pc'[u] /\ tracker'[ProcOf[u]] = tracker[ProcOf[u]]
    BY <1>0, <2>3, EndedAlone DEF Loading
  <2>. QED  BY <2>1, <2>2, <2>3 DEF MemoryAdopts, Loading
<1>. QED  BY <1>1, <1>3, <1>4

-----------------------------------------------------------------------------
(* The calls that wait. *)

\* There are as many pairs of p and a member of I as I has members.
LEMMA Pairs ==
    ASSUME NEW p, NEW I, IsFiniteSet(I)
    PROVE  /\ IsFiniteSet({p} \X I) /\ Cardinality({p} \X I) = Cardinality(I)
           /\ Cardinality(I) \in Nat
<1>1. IsFiniteSet({p}) /\ Cardinality({p}) = 1
    BY FS_Singleton
<1>2. Cardinality(I) \in Nat
    BY FS_CardinalityType
<1>3. IsFiniteSet({p} \X I) /\ Cardinality({p} \X I) = Cardinality({p}) * Cardinality(I)
    BY <1>1, FS_Product, Zenon
<1>. QED  BY <1>1, <1>2, <1>3

\* A finite set that loses D is smaller by the size of D.
LEMMA Leaving ==
    ASSUME NEW S, IsFiniteSet(S), NEW D, D \subseteq S, NEW T, T = S \ D
    PROVE  /\ IsFiniteSet(T) /\ Cardinality(T) \in Nat
           /\ Cardinality(S) = Cardinality(T) + Cardinality(D)
<1>1. IsFiniteSet(D)
    BY FS_Subset
<1>2. Cardinality(D) \in Nat /\ Cardinality(S) \in Nat
    BY <1>1, FS_CardinalityType
<1>3. S \cap D = D
    OBVIOUS
<1>4. IsFiniteSet(T) /\ Cardinality(T) = Cardinality(S) - Cardinality(D)
    BY <1>3, FS_Difference
<1>5. Cardinality(T) \in Nat
    BY <1>4, FS_CardinalityType
<1>. QED  BY <1>2, <1>4, <1>5

\* The numbers a process has not written, one by one.
Counted(p, n) ==
    /\ n \in 1..tracker[p].session
    /\ n > tracker[p].flushed
    /\ \A t \in Thread : ProcOf[t] = p /\ job[t].wrote => n > job[t].pending

\* The members of Waiting.
LEMMA WaitingIs ==
    /\ \A w : w \in Waiting <=> \E p \in Proc, n \in Nat : Counted(p, n) /\ w = <<p, n>>
    /\ \A w : (w \in Waiting)' <=> \E p \in Proc, n \in Nat : Counted(p, n)' /\ w = <<p, n>>
<1>1. ASSUME NEW w PROVE w \in Waiting <=> \E p \in Proc : w \in {p} \X Unwritten(p)
    BY Zenon DEF Waiting
<1>2. ASSUME NEW w PROVE (w \in Waiting)' <=> \E p \in Proc : (w \in {p} \X Unwritten(p))'
    BY Zenon DEF Waiting
<1>3. ASSUME NEW w, NEW p PROVE w \in {p} \X Unwritten(p) <=> \E n \in Unwritten(p) : w = <<p, n>>
    OBVIOUS
<1>4. ASSUME NEW w, NEW p
      PROVE  (w \in {p} \X Unwritten(p))' <=> \E n \in Unwritten(p)' : w = <<p, n>>
    OBVIOUS
<1>5. ASSUME NEW p, NEW n PROVE n \in Unwritten(p) <=> n \in Nat /\ Counted(p, n)
    BY DEF Unwritten, Counted
<1>6. ASSUME NEW p, NEW n PROVE n \in Unwritten(p)' <=> n \in Nat /\ Counted(p, n)'
    BY DEF Unwritten, Counted
<1>7. ASSUME NEW w
      PROVE  w \in Waiting <=> \E p \in Proc, n \in Nat : Counted(p, n) /\ w = <<p, n>>
  <2>1. ASSUME w \in Waiting PROVE \E p \in Proc, n \in Nat : Counted(p, n) /\ w = <<p, n>>
    <3>1. PICK p \in Proc : \E n \in Unwritten(p) : w = <<p, n>>
        BY <1>1, <1>3, <2>1
    <3>2. PICK n \in Unwritten(p) : w = <<p, n>>
        BY <3>1
    <3>. QED  BY <1>5, <3>2
  <2>2. ASSUME NEW p \in Proc, NEW n \in Nat, Counted(p, n), w = <<p, n>> PROVE w \in Waiting
    <3>1. n \in Unwritten(p)
        BY <1>5, <2>2
    <3>. QED  BY <1>1, <1>3, <2>2, <3>1
  <2>. QED  BY <2>1, <2>2
<1>8. ASSUME NEW w
      PROVE  (w \in Waiting)' <=> \E p \in Proc, n \in Nat : Counted(p, n)' /\ w = <<p, n>>
  <2>1. ASSUME (w \in Waiting)' PROVE \E p \in Proc, n \in Nat : Counted(p, n)' /\ w = <<p, n>>
    <3>1. PICK p \in Proc : \E n \in Unwritten(p)' : w = <<p, n>>
        BY <1>2, <1>4, <2>1
    <3>2. PICK n \in Unwritten(p)' : w = <<p, n>>
        BY <3>1
    <3>. QED  BY <1>6, <3>2
  <2>2. ASSUME NEW p \in Proc, NEW n \in Nat, Counted(p, n)', w = <<p, n>> PROVE (w \in Waiting)'
    <3>1. n \in Unwritten(p)'
        BY <1>6, <2>2
    <3>. QED  BY <1>2, <1>4, <2>2, <3>1
  <2>. QED  BY <2>1, <2>2
<1>. QED  BY <1>7, <1>8

\* Where the calls each process has not written are the same, the same wait.
LEMMA WaitingStays ==
    ASSUME \A p \in Proc, n \in Nat : Counted(p, n)' <=> Counted(p, n)
    PROVE  Waiting' = Waiting
<1>1. ASSUME NEW w PROVE (w \in Waiting)' <=> w \in Waiting
    BY WaitingIs, Zenon
<1>. QED  BY <1>1

\* A step of t leaves the calls of the other processes alone.
LEMMA CountedElsewhere ==
    ASSUME NEW t \in Thread, Alone(t), NEW q \in Proc, q # ProcOf[t], NEW n \in Nat
    PROVE  Counted(q, n)' <=> Counted(q, n)
<1>1. tracker'[q] = tracker[q]
    BY DEF Alone
<1>2. ASSUME NEW u \in Thread, ProcOf[u] = q PROVE job'[u] = job[u]
    BY <1>2 DEF Alone
<1>. QED  BY <1>1, <1>2 DEF Counted

\* A merge that has written is alone in its process.
LEMMA WroteAlone ==
    ASSUME Typed, Locked, NEW t \in Thread, pc[t] \in Merging
    PROVE  \A u \in Thread \ {t} : ~job[u].wrote
BY DEF Locked, Merging

\* Mark moves the bound from the call to the repoState: the same calls wait.
LEMMA MarkWaiting ==
    ASSUME Typed, Locked, Differs, NEW t \in Thread, Mark(t)
    PROVE  Waiting' = Waiting
<1>. DEFINE P == ProcOf[t]
<1>0. Moves(t) /\ Alone(t) /\ pc[t] = "mark"
    BY MovesAlone DEF Moves, Flush, Mark
<1>1. \A u \in Thread \ {t} : ~job[u].wrote /\ job'[u] = job[u]
    BY <1>0, WroteAlone DEF Merging, Alone
<1>2. job[t].wrote /\ ~job'[t].wrote
    BY <1>0, FlushedDoes DEF Mark, Blank, Locked
<1>3. tracker'[P].session = tracker[P].session /\ tracker'[P].flushed = job[t].pending
    BY MarkDoes
<1>4. tracker[P].flushed <= job[t].pending
    BY <1>0 DEF Differs
<1>5. ASSUME NEW n \in Nat PROVE Counted(P, n)' <=> Counted(P, n)
  <2>0. tracker[P].flushed \in Nat /\ job[t].pending \in Nat
    BY Fields
  <2>1. Counted(P, n) <=>
            n \in 1..tracker[P].session /\ n > tracker[P].flushed /\ n > job[t].pending
    BY <1>1, <1>2 DEF Counted
  <2>2. Counted(P, n)' <=> n \in 1..tracker[P].session /\ n > job[t].pending
    BY <1>1, <1>2, <1>3 DEF Counted
  <2>. QED  BY <1>4, <2>0, <2>1, <2>2
<1>. QED  BY <1>0, <1>5, CountedElsewhere, WaitingStays

\* A step of t that neither counts, nor writes, nor marks leaves the calls that
\* wait alone.
LEMMA MovesWaiting ==
    ASSUME Typed, Locked, NEW t \in Thread, Moves(t), Keyed(t),
           ~Count(t), ~Mark(t), pc'[t] # "mark"
    PROVE  Waiting' = Waiting
<1>. DEFINE P == ProcOf[t]
<1>0. Alone(t)
    BY MovesAlone
<1>1. \A u \in Thread \ {t} : job'[u] = job[u]
    BY <1>0 DEF Alone
<1>2. ~job[t].wrote /\ ~job'[t].wrote
  <2>1. pc[t] # "mark"
    BY DEF Moves, Load, Flush, Enter, StartClose, ReadHome, ReadLegacy, Migrate, RemoveLegacy,
           LockFile, Delta, ReadDisk, WriteDisk, Step
  <2>. QED  BY <2>1 DEF Locked, Keyed
<1>3. tracker'[P].session = tracker[P].session /\ tracker'[P].flushed = tracker[P].flushed
  <2>1. CASE ReadHome(t) \/ ReadLegacy(t)
    BY <2>1, ReadDoes
  <2>. QED
    BY <2>1 DEF Moves, Load, Flush, Enter, StartClose, Migrate, RemoveLegacy, LockFile, Delta,
           ReadDisk, WriteDisk, memory
<1>4. ASSUME NEW n \in Nat PROVE Counted(P, n)' <=> Counted(P, n)
    BY <1>1, <1>2, <1>3 DEF Counted
<1>. QED  BY <1>0, <1>4, CountedElsewhere, WaitingStays

\* Count adds the call it counts, and only it.
LEMMA CountWaiting ==
    ASSUME Typed, Locked, NEW t \in Thread, Count(t)
    PROVE  \/ job[t].counts = 0 /\ Waiting' = Waiting
           \/ /\ job[t].counts = 1
              /\ \E w : w \notin Waiting /\ Waiting' = Waiting \cup {w}
<1>. DEFINE P == ProcOf[t]
            m == tracker[P].session
<1>0. Alone(t) /\ job' = job
    BY MovesAlone DEF Moves, Load, Count
<1>1. tracker'[P].session = m + job[t].counts /\ tracker'[P].flushed = tracker[P].flushed
    BY CountDoes
<1>2. m \in Nat /\ tracker[P].flushed \in Nat /\ tracker[P].flushed <= m /\ P \in Proc
    BY Fields
<1>3. job[t].counts \in 0..1
    BY DEF Typed, TypeOK
<1>4. CASE job[t].counts = 0
  <2>1. tracker'[P].session = m
    BY <1>1, <1>2, <1>4
  <2>2. ASSUME NEW n \in Nat PROVE Counted(P, n)' <=> Counted(P, n)
    BY <1>0, <1>1, <2>1 DEF Counted
  <2>. QED  BY <1>0, <1>4, <2>2, CountedElsewhere, WaitingStays
<1>5. CASE job[t].counts = 1
  <2>1. tracker'[P].session = m + 1
    BY <1>1, <1>5
  <2>2. ASSUME NEW u \in Thread, ProcOf[u] = P, job[u].wrote PROVE job[u].pending <= m
    BY <2>2 DEF Locked, Typed, Ordered
  <2>3. ASSUME NEW n \in Nat PROVE Counted(P, n)' <=> Counted(P, n) \/ n = m + 1
    <3>1. CASE n = m + 1
      <4>1. \A u \in Thread : ProcOf[u] = P /\ job[u].wrote => n > job[u].pending
        BY <1>2, <2>2, <3>1, Fields
      <4>. QED  BY <1>0, <1>1, <1>2, <2>1, <3>1, <4>1 DEF Counted
    <3>2. CASE n # m + 1
      <4>1. n \in 1..(m + 1) <=> n \in 1..m
        BY <1>2, <3>2
      <4>. QED  BY <1>0, <1>1, <2>1, <3>2, <4>1 DEF Counted
    <3>. QED  BY <3>1, <3>2
  <2>. PICK k \in Nat : k = m + 1
    BY <1>2
  <2>4. ~Counted(P, k) /\ Counted(P, k)'
    BY <1>2, <2>3 DEF Counted
  <2>5. <<P, k>> \notin Waiting
    BY <2>4, WaitingIs
  <2>6. ASSUME NEW w PROVE (w \in Waiting)' <=> w \in Waiting \/ w = <<P, k>>
    <3>1. (w \in Waiting)' => w \in Waiting \/ w = <<P, k>>
        BY <1>0, <2>3, CountedElsewhere, WaitingIs
    <3>2. w \in Waiting => (w \in Waiting)'
        BY <1>0, <2>3, CountedElsewhere, WaitingIs
    <3>3. (<<P, k>> \in Waiting)'
        BY <1>2, <2>4, WaitingIs
    <3>. QED  BY <3>1, <3>2, <3>3
  <2>7. Waiting' = Waiting \cup {<<P, k>>}
    BY <2>6
  <2>. QED  BY <1>5, <2>5, <2>7
<1>. QED  BY <1>3, <1>4, <1>5

\* A write that succeeds takes from the calls that wait as many as it adds to
\* the file: the ones between what was flushed and what was counted.
LEMMA WriteWaiting ==
    ASSUME Typed, Locked, Differs, IsFiniteSet(Waiting), NEW t \in Thread,
           pc[t] = "write", Moves(t), job' = [job EXCEPT ![t].wrote = TRUE], tracker' = tracker
    PROVE  /\ IsFiniteSet(Waiting') /\ Cardinality(Waiting') \in Nat
           /\ Cardinality(Waiting) = Cardinality(Waiting') + job[t].delta
<1>. DEFINE P == ProcOf[t]
<1>0. Alone(t) /\ P \in Proc
    BY MovesAlone, Fields
<1>1. PICK a \in Nat, b \in Nat, m \in Nat :
          a = tracker[P].flushed /\ b = job[t].pending /\ m = tracker[P].session
    BY Fields
<1>2. a <= b /\ b <= m /\ job[t].delta = b - a
    BY <1>1 DEF Differs, Typed, Ordered
<1>3. \A u \in Thread \ {t} : ~job[u].wrote /\ job'[u] = job[u]
    BY <1>0, WroteAlone DEF Merging, Alone
<1>4. ~job[t].wrote /\ job'[t].wrote /\ job'[t].pending = b
    BY <1>1, WrittenDoes DEF Locked
<1>5. ASSUME NEW n \in Nat
      PROVE  /\ Counted(P, n) <=> n \in 1..m /\ n > a
             /\ Counted(P, n)' <=> n \in 1..m /\ n > a /\ n > b
    BY <1>1, <1>3, <1>4 DEF Counted
<1>. DEFINE I == (a + 1)..b
<1>6. IsFiniteSet(I) /\ Cardinality(I) = b - a
  <2>1. PICK c \in Int : c = a + 1
    OBVIOUS
  <2>2. IsFiniteSet(c..b) /\ Cardinality(c..b) = IF c > b THEN 0 ELSE b - c + 1
    BY FS_Interval
  <2>. QED  BY <1>2, <2>1, <2>2
<1>7. ASSUME NEW n \in Nat
      PROVE  /\ n \in I => Counted(P, n)
             /\ Counted(P, n)' <=> Counted(P, n) /\ n \notin I
    BY <1>2, <1>5
<1>8. I \subseteq Nat
    OBVIOUS
<1>. HIDE DEF I
<1>9. {P} \X I \subseteq Waiting
    BY <1>0, <1>7, <1>8, WaitingIs
<1>10. ASSUME NEW w PROVE (w \in Waiting)' <=> w \in Waiting /\ w \notin {P} \X I
  <2>1. ASSUME (w \in Waiting)' PROVE w \in Waiting /\ w \notin {P} \X I
    <3>1. PICK q \in Proc, n \in Nat : Counted(q, n)' /\ w = <<q, n>>
        BY <2>1, WaitingIs
    <3>2. Counted(q, n)
        BY <1>0, <1>7, <3>1, CountedElsewhere
    <3>3. q = P => n \notin I
        BY <1>7, <3>1
    <3>. QED  BY <3>1, <3>2, <3>3, WaitingIs
  <2>2. ASSUME w \in Waiting, w \notin {P} \X I PROVE (w \in Waiting)'
    <3>1. PICK q \in Proc, n \in Nat : Counted(q, n) /\ w = <<q, n>>
        BY <2>2, WaitingIs
    <3>2. q = P => n \notin I
        BY <2>2, <3>1
    <3>3. Counted(q, n)'
        BY <1>0, <1>7, <3>1, <3>2, CountedElsewhere
    <3>. QED  BY <3>1, <3>3, WaitingIs
  <2>. QED  BY <2>1, <2>2
<1>11. Waiting' = Waiting \ ({P} \X I)
    BY <1>10
<1>12. /\ IsFiniteSet(Waiting') /\ Cardinality(Waiting') \in Nat
       /\ Cardinality(Waiting) = Cardinality(Waiting') + Cardinality(I)
  <2>1. PICK D : D = {P} \X I
    OBVIOUS
  <2>2. D \subseteq Waiting /\ Waiting' = Waiting \ D
    BY <1>9, <1>11, <2>1
  <2>3. Cardinality(D) = Cardinality(I)
    BY <1>6, <2>1, Pairs
  <2>4. /\ IsFiniteSet(Waiting') /\ Cardinality(Waiting') \in Nat
        /\ Cardinality(Waiting) = Cardinality(Waiting') + Cardinality(D)
    BY <2>2, Leaving
  <2>. QED  BY <2>3, <2>4
<1>. QED  BY <1>2, <1>6, <1>12

\* The end of a process takes its calls from the ones that wait to the ones that
\* are gone.
LEMMA EndedWaiting ==
    ASSUME Typed, IsFiniteSet(Waiting), NEW p \in Proc, Ended(p)
    PROVE  /\ IsFiniteSet(Waiting') /\ Cardinality(Waiting') \in Nat
           /\ Cardinality(Waiting') + gone' = Cardinality(Waiting) + gone
<1>1. PICK I : I = Unwritten(p)
    OBVIOUS
<1>2. IsFiniteSet(I) /\ Cardinality(I) \in Nat /\ gone' = gone + Cardinality(I)
    BY <1>1, UnwrittenFinite DEF Ended
<1>3. ASSUME NEW n PROVE n \in I <=> n \in Nat /\ Counted(p, n)
    BY <1>1 DEF Unwritten, Counted
<1>4. ASSUME NEW n \in Nat PROVE ~Counted(p, n)'
  <2>1. tracker'[p].session = 0
    BY EndedAlone DEF Fresh
  <2>. QED  BY <2>1 DEF Counted
<1>5. ASSUME NEW q \in Proc, q # p, NEW n \in Nat PROVE Counted(q, n)' <=> Counted(q, n)
  <2>1. tracker'[q] = tracker[q]
    BY <1>5, EndedAlone
  <2>2. \A u \in Thread : ProcOf[u] = q => job'[u] = job[u]
    BY <1>5, EndedAlone
  <2>. QED  BY <2>1, <2>2 DEF Counted
<1>6. {p} \X I \subseteq Waiting
    BY <1>3, WaitingIs
<1>7. ASSUME NEW w PROVE (w \in Waiting)' <=> w \in Waiting /\ w \notin {p} \X I
  <2>1. ASSUME (w \in Waiting)' PROVE w \in Waiting /\ w \notin {p} \X I
    <3>1. PICK q \in Proc, n \in Nat : Counted(q, n)' /\ w = <<q, n>>
        BY <2>1, WaitingIs
    <3>2. q # p /\ Counted(q, n)
        BY <1>4, <1>5, <3>1
    <3>. QED  BY <3>1, <3>2, WaitingIs
  <2>2. ASSUME w \in Waiting, w \notin {p} \X I PROVE (w \in Waiting)'
    <3>1. PICK q \in Proc, n \in Nat : Counted(q, n) /\ w = <<q, n>>
        BY <2>2, WaitingIs
    <3>2. q # p
        BY <1>3, <2>2, <3>1
    <3>. QED  BY <1>5, <3>1, <3>2, WaitingIs
  <2>. QED  BY <2>1, <2>2
<1>8. Waiting' = Waiting \ ({p} \X I)
    BY <1>7
<1>9. /\ IsFiniteSet(Waiting') /\ Cardinality(Waiting') \in Nat
      /\ Cardinality(Waiting) = Cardinality(Waiting') + Cardinality(I)
  <2>1. PICK D : D = {p} \X I
    OBVIOUS
  <2>2. D \subseteq Waiting /\ Waiting' = Waiting \ D
    BY <1>6, <1>8, <2>1
  <2>3. Cardinality(D) = Cardinality(I)
    BY <1>2, <2>1, Pairs
  <2>4. /\ IsFiniteSet(Waiting') /\ Cardinality(Waiting') \in Nat
        /\ Cardinality(Waiting) = Cardinality(Waiting') + Cardinality(D)
    BY <2>2, Leaving
  <2>. QED  BY <2>3, <2>4
<1>10. gone \in Nat
    BY DEF Typed, TypeOK
<1>. QED  BY <1>2, <1>9, <1>10

-----------------------------------------------------------------------------
(* The ledger. *)

\* Of the ledger, a step that does not write changes what waits and what was
\* recorded by the same amount.
LEMMA LedgerMoves ==
    ASSUME Typed, Locked, Differs, IsFiniteSet(Waiting), NEW t \in Thread, Moves(t), Keyed(t),
           pc'[t] # "mark"
    PROVE  /\ IsFiniteSet(Waiting') /\ gone' = gone
           /\ \E c \in Nat : /\ Cardinality(Waiting') = Cardinality(Waiting) + c
                            /\ calls' = calls + c
<1>0. Cardinality(Waiting) \in Nat /\ calls \in Nat
    BY FS_CardinalityType DEF Typed, TypeOK
<1>1. gone' = gone
    BY DEF Moves, Load, Flush, Enter, StartClose, ReadHome, ReadLegacy, Migrate, RemoveLegacy,
           Count, LockFile, Delta, ReadDisk, WriteDisk, Mark, ledger
<1>2. CASE Count(t)
  <2>1. calls' = calls + job[t].counts
    BY <1>2 DEF Count
  <2>2. CASE job[t].counts = 0 /\ Waiting' = Waiting
    BY <1>0, <1>1, <2>1, <2>2
  <2>3. CASE job[t].counts = 1 /\ \E w : w \notin Waiting /\ Waiting' = Waiting \cup {w}
    <3>1. PICK w : w \notin Waiting /\ Waiting' = Waiting \cup {w}
        BY <2>3
    <3>2. IsFiniteSet(Waiting') /\ Cardinality(Waiting') = Cardinality(Waiting) + 1
        BY <3>1, FS_AddElement
    <3>. QED  BY <1>0, <1>1, <2>1, <2>3, <3>2
  <2>. QED  BY <1>2, <2>2, <2>3, CountWaiting
<1>3. CASE ~Count(t)
  <2>1. Waiting' = Waiting
    BY <1>3, MarkWaiting, MovesWaiting
  <2>2. calls' = calls
    BY <1>3 DEF Moves, Load, Flush, Enter, StartClose, ReadHome, ReadLegacy, Migrate,
           RemoveLegacy, LockFile, Delta, ReadDisk, WriteDisk, Mark, ledger
  <2>. QED  BY <1>0, <1>1, <2>1, <2>2
<1>. QED  BY <1>2, <1>3

\* A baseline stays, or becomes what the files hold or the adopted total.
LEMMA MovesBaseline ==
    ASSUME Typed, FilesAdopt, NEW t \in Thread, Moves(t), NEW p \in Proc
    PROVE  \/ tracker'[p].baseline = tracker[p].baseline
           \/ tracker'[p].baseline = OnDisk
           \/ tracker'[p].baseline = adopted
<1>1. CASE p # ProcOf[t]
    BY <1>1, MovesAlone DEF Alone
<1>2. CASE p = ProcOf[t] /\ (ReadHome(t) \/ ReadLegacy(t))
  <2>1. \/ tracker' = tracker
        \/ home \in Nat /\ tracker'[p].baseline = home
        \/ legacy \in Nat /\ tracker'[p].baseline = legacy
    BY <1>2, ReadDoes
  <2>2. (home \in Nat => OnDisk = home) /\ (legacy \in Nat => legacy = adopted)
    BY ConstantsOK, OnDiskIs DEF FilesAdopt
  <2>. QED  BY <2>1, <2>2
<1>3. CASE p = ProcOf[t] /\ Count(t)
    BY <1>3, CountDoes
<1>. QED  BY <1>1, <1>2, <1>3, BaselineStays

\* A step of a goroutine keeps the books.
LEMMA MovesBalanced ==
    ASSUME UsageInv, NEW t \in Thread, Moves(t), Keyed(t)
    PROVE  Balanced'
<1>. USE DEF Step
<1>a. /\ Typed /\ Locked /\ Differs /\ FilesAdopt /\ MemoryAdopts /\ SeenAdopts /\ Balanced
      /\ IsFiniteSet(Waiting)
    BY DEF UsageInv, Balanced
<1>b. /\ Cardinality(Waiting) \in Nat /\ calls \in Nat /\ gone \in Nat /\ adopted \in Nat
      /\ pc \in [Thread -> Control]
    BY <1>a, FS_CardinalityType DEF Typed, TypeOK, Control, Loading, Merging
<1>c. adopted' = adopted /\ (blind => blind')
    BY <1>a, HomeStays
<1>d. OnDisk \in Nat
    BY <1>a, OnDiskIs
<1>e. Fits(OnDisk) /\ Fits(adopted)
    BY <1>a DEF Balanced
<1>f. ~blind => OnDisk + Cardinality(Waiting) + gone = adopted + calls
    BY <1>a DEF Balanced, DeferredNotLost, CountsDeferred, Accounted
<1>1. CASE pc'[t] = "mark"
  <2>0. WriteDisk(t)
    BY <1>1, <1>b DEF Moves, Load, Flush, Enter, StartClose, ReadHome, ReadLegacy, Migrate,
           RemoveLegacy, Count, LockFile, Delta, ReadDisk, Mark, Flushed
  <2>1. /\ pc[t] = "write" /\ job' = [job EXCEPT ![t].wrote = TRUE]
        /\ home' = job[t].seen + job[t].delta
        /\ tracker' = tracker /\ gone' = gone /\ calls' = calls
    BY <1>1, <1>b, <2>0 DEF WriteDisk, Flushed, ledger
  <2>2. /\ IsFiniteSet(Waiting') /\ Cardinality(Waiting') \in Nat
        /\ Cardinality(Waiting) = Cardinality(Waiting') + job[t].delta
    BY <1>a, <2>1, WriteWaiting
  <2>3. job[t].seen \in Nat /\ job[t].delta \in Nat
    BY <1>a, Fields
  <2>4. OnDisk' = job[t].seen + job[t].delta
    BY <2>1, <2>3, ConstantsOK DEF OnDisk
  <2>5. Fits(job[t].seen)
    BY <1>a, <2>1 DEF Balanced
  <2>6. OnDisk' + Cardinality(Waiting') + gone' = job[t].seen + Cardinality(Waiting) + gone
    BY <1>b, <2>1, <2>2, <2>3, <2>4
  <2>7. OnDisk' + Cardinality(Waiting') + gone' <= adopted' + calls'
    BY <1>c, <2>1, <2>5, <2>6 DEF Fits
  <2>8. ~blind' => job[t].seen = OnDisk
    BY <1>a, <1>c, <2>1, Zenon DEF SeenAdopts
  <2>9. ~blind' => OnDisk + Cardinality(Waiting) + gone = adopted + calls
    BY <1>c, <1>f, Zenon
  <2>10. DeferredNotLost'
    BY <1>c, <2>1, <2>6, <2>8, <2>9 DEF DeferredNotLost, CountsDeferred, Accounted
  <2>11. ASSUME NEW n \in Nat, Fits(n)
         PROVE  n + Cardinality(Waiting') + gone' <= adopted' + calls'
    BY <1>b, <1>c, <2>1, <2>2, <2>3, <2>11 DEF Fits
  <2>12. Fits(adopted)'
    BY <1>b, <1>c, <1>e, <2>11 DEF Fits
  <2>13. ASSUME NEW p \in Proc PROVE Fits(tracker[p].baseline)'
    BY <1>a, <2>1, <2>11, Fields DEF Balanced, Fits
  <2>14. ASSUME NEW u \in Thread PROVE pc'[u] # "write"
    <3>1. u # t => pc'[u] = pc[u]
        BY <1>a, MovesAlone DEF Alone
    <3>2. u # t => pc[u] # "write"
        BY <1>a, <2>1 DEF Locked, Merging
    <3>. QED  BY <1>1, <3>1, <3>2
  <2>. QED  BY <2>2, <2>7, <2>10, <2>12, <2>13, <2>14 DEF Balanced, Fits
<1>2. CASE pc'[t] # "mark"
  <2>1. IsFiniteSet(Waiting') /\ gone' = gone
    BY <1>2, <1>a, LedgerMoves
  <2>2. PICK c \in Nat : Cardinality(Waiting') = Cardinality(Waiting) + c /\ calls' = calls + c
    BY <1>2, <1>a, LedgerMoves
  <2>3. OnDisk' = OnDisk \/ (blind' /\ OnDisk' = adopted)
    <3>1. CASE ~WriteDisk(t)
        BY <1>a, <3>1, OnDiskStays
    <3>2. CASE WriteDisk(t)
        BY <1>2, <1>b, <3>2 DEF WriteDisk, OnDisk
    <3>. QED  BY <3>1, <3>2
  <2>4. ASSUME NEW n \in Nat, Fits(n)
        PROVE  n + Cardinality(Waiting') + gone' <= adopted' + calls'
    BY <1>b, <1>c, <2>1, <2>2, <2>4 DEF Fits
  <2>5. Fits(OnDisk)' /\ Fits(adopted)'
    BY <1>b, <1>c, <1>d, <1>e, <2>3, <2>4 DEF Fits
  <2>6. ASSUME NEW p \in Proc PROVE Fits(tracker[p].baseline)'
    <3>1. tracker[p].baseline \in Nat /\ Fits(tracker[p].baseline)
        BY <1>a, Fields DEF Balanced
    <3>2. PICK n \in Nat : n = tracker'[p].baseline /\ Fits(n)
        BY <1>a, <1>b, <1>d, <1>e, <3>1, MovesBaseline
    <3>. QED  BY <2>4, <3>2 DEF Fits
  <2>7. ~blind' => OnDisk' = OnDisk
    BY <2>3, Zenon
  <2>8. ~blind' => OnDisk + Cardinality(Waiting) + gone = adopted + calls
    BY <1>c, <1>f, Zenon
  <2>9. DeferredNotLost'
    BY <1>b, <1>c, <1>d, <2>1, <2>2, <2>7, <2>8 DEF DeferredNotLost, CountsDeferred, Accounted
  <2>10. ASSUME NEW u \in Thread, pc'[u] = "write" PROVE Fits(job[u].seen)'
    <3>1. CASE u # t
      <4>1. pc[u] = "write" /\ job'[u] = job[u]
        BY <1>a, <2>10, <3>1, MovesAlone DEF Alone
      <4>2. Fits(job[u].seen) /\ job[u].seen \in Nat
        BY <1>a, <4>1, Fields DEF Balanced
      <4>. QED  BY <2>4, <4>1, <4>2 DEF Fits
    <3>2. CASE u = t
      <4>1. ReadDisk(t)
        BY <1>b, <2>10, <3>2 DEF Moves, Load, Flush, Enter, StartClose, ReadHome, ReadLegacy,
               Migrate, RemoveLegacy, Count, LockFile, Delta, WriteDisk, Mark, Flushed
      <4>2. \/ home # Absent /\ job'[t].seen = home
            \/ job'[t].seen = tracker[ProcOf[t]].baseline
        BY <1>a, <4>1, ReadDiskDoes
      <4>3. /\ tracker[ProcOf[t]].baseline \in Nat
            /\ Fits(tracker[ProcOf[t]].baseline)
        BY <1>a, Fields DEF Balanced
      <4>4. PICK n \in Nat : n = job'[t].seen /\ Fits(n)
        BY <1>a, <1>d, <1>e, <4>2, <4>3, OnDiskIs
      <4>. QED  BY <2>4, <3>2, <4>4 DEF Fits
    <3>. QED  BY <3>1, <3>2
  <2>. QED  BY <2>1, <2>5, <2>6, <2>9, <2>10 DEF Balanced
<1>. QED  BY <1>1, <1>2

\* The end of a process keeps the books: its unwritten calls are gone.
LEMMA EndedBalanced ==
    ASSUME UsageInv, NEW p \in Proc, Ended(p),
           home' = home, legacy' = legacy, adopted' = adopted, calls' = calls, blind' = blind
    PROVE  Balanced'
<1>a. Typed /\ FilesAdopt /\ Balanced /\ IsFiniteSet(Waiting)
    BY DEF UsageInv, Balanced
<1>b. /\ Cardinality(Waiting) \in Nat /\ gone \in Nat /\ gone' \in Nat
      /\ adopted \in Nat /\ calls \in Nat
  <2>1. Cardinality(Waiting) \in Nat /\ gone \in Nat
    BY <1>a, FS_CardinalityType DEF Typed, TypeOK
  <2>2. Cardinality(Unwritten(p)) \in Nat
    BY <1>a, UnwrittenFinite
  <2>3. adopted \in Nat /\ calls \in Nat
    BY <1>a DEF Typed, TypeOK
  <2>. QED  BY <2>1, <2>2, <2>3 DEF Ended
<1>1. /\ IsFiniteSet(Waiting') /\ Cardinality(Waiting') \in Nat
      /\ Cardinality(Waiting') + gone' = Cardinality(Waiting) + gone
    BY <1>a, EndedWaiting
<1>2. OnDisk' = OnDisk /\ OnDisk \in Nat
    BY <1>a, OnDiskIs DEF OnDisk
<1>3. ASSUME NEW n \in Nat
      PROVE  n + Cardinality(Waiting') + gone' = n + Cardinality(Waiting) + gone
    BY <1>b, <1>1
<1>4. DeferredNotLost'
    BY <1>a, <1>2, <1>3 DEF Balanced, DeferredNotLost, CountsDeferred, Accounted
<1>5. Fits(OnDisk)' /\ Fits(adopted)'
    BY <1>a, <1>b, <1>2, <1>3 DEF Balanced, Fits
<1>6. ASSUME NEW q \in Proc PROVE Fits(tracker[q].baseline)'
  <2>1. CASE q = p
    <3>1. tracker'[q].baseline = 0
      BY <1>a, <2>1, EndedAlone DEF Fresh
    <3>. QED  BY <1>a, <1>b, <1>3, <3>1 DEF Balanced, Fits
  <2>2. CASE q # p
    <3>1. tracker'[q] = tracker[q] /\ tracker[q].baseline \in Nat
      BY <1>a, <2>2, EndedAlone, Fields
    <3>. QED  BY <1>a, <1>3, <3>1 DEF Balanced, Fits
  <2>. QED  BY <2>1, <2>2
<1>7. ASSUME NEW u \in Thread, pc'[u] = "write" PROVE Fits(job[u].seen)'
  <2>1. pc[u] = "write" /\ job'[u] = job[u]
    BY <1>7, <1>a, EndedAlone
  <2>2. Fits(job[u].seen) /\ job[u].seen \in Nat
    BY <1>a, <2>1, Fields DEF Balanced
  <2>. QED  BY <1>3, <2>1, <2>2 DEF Fits
<1>. QED  BY <1>1, <1>4, <1>5, <1>6, <1>7 DEF Balanced

\* Nothing is recorded yet and the files hold the adopted total.
LEMMA UsageInit == Init => UsageInv
<1>. SUFFICES ASSUME Init PROVE UsageInv
    OBVIOUS
<1>1. Typed
    BY TypedInit
<1>2. ProcOf \in [Thread -> Proc] /\ ~Blank.wrote /\ Fresh.baseline = 0 /\ ~Fresh.known /\ Fresh.session = 0
    BY ConstantsOK DEF Blank, Fresh
<1>3. Locked /\ Differs
    BY <1>2 DEF Init, Locked, Differs, Loading, Merging
<1>4. FilesAdopt
    BY DEF Init, FilesAdopt
<1>5. MemoryAdopts /\ SeenAdopts
    BY <1>2 DEF Init, MemoryAdopts, SeenAdopts
<1>6. Waiting = {}
  <2>1. ASSUME NEW p \in Proc, NEW n \in Nat PROVE ~Counted(p, n)
    BY <1>2 DEF Init, Counted
  <2>. QED  BY <2>1, WaitingIs
<1>7. IsFiniteSet(Waiting) /\ Cardinality(Waiting) = 0
    BY <1>6, FS_EmptySet
<1>8. OnDisk = adopted /\ adopted \in Nat
    BY <1>1 DEF Init, OnDisk, Typed
<1>9. Accounted = adopted + calls /\ calls = 0
    BY <1>7, <1>8 DEF Init, Accounted
<1>10. DeferredNotLost
    BY <1>9 DEF DeferredNotLost, CountsDeferred
<1>11. Fits(0) /\ Fits(adopted) /\ Fits(OnDisk) /\ gone = 0
    BY <1>7, <1>8, <1>9 DEF Init, Fits
<1>12. Balanced
    BY <1>2, <1>7, <1>10, <1>11 DEF Init, Balanced
<1>. QED  BY <1>1, <1>3, <1>4, <1>5, <1>12 DEF UsageInv

\* A step that changes no more than the set of running processes keeps everything.
LEMMA QuietUsage ==
    ASSUME UsageInv, UNCHANGED <<home, legacy, flock, mu, tracker, pc, job, adopted, calls, gone, blind>>,
           Typed'
    PROVE  UsageInv'
<1>1. Waiting' = Waiting /\ OnDisk' = OnDisk
    BY DEF Waiting, Unwritten, OnDisk
<1>2. Locked' /\ Differs'
    BY DEF UsageInv, Locked, Differs
<1>3. FilesAdopt' /\ MemoryAdopts'
    BY DEF UsageInv, FilesAdopt, MemoryAdopts
<1>4. SeenAdopts'
    BY <1>1 DEF UsageInv, SeenAdopts
<1>5. Balanced'
    BY <1>1 DEF UsageInv, Balanced, Fits, DeferredNotLost, CountsDeferred, Accounted
<1>. QED  BY <1>2, <1>3, <1>4, <1>5 DEF UsageInv

\* Every step keeps the invariant where every process can lock.
LEMMA UsageStep ==
    ASSUME Unlocked = {}
    PROVE  UsageInv /\ [Next]_vars => UsageInv'
<1>. SUFFICES ASSUME UsageInv, [Next]_vars PROVE UsageInv'
    OBVIOUS
<1>a. Typed /\ Locked /\ Differs /\ FilesAdopt /\ MemoryAdopts /\ SeenAdopts
    BY DEF UsageInv
<1>b. Typed'
    BY <1>a, TypedStep
<1>1. ASSUME NEW t \in Thread, Moves(t) PROVE UsageInv'
  <2>1. Keyed(t) /\ Alone(t)
    BY <1>1, <1>a, MovesKeyed, MovesAlone
  <2>2. Locked'
    BY <1>a, <2>1, KeyedLocked
  <2>3. Differs'
    BY <1>1, <1>a, MovesDiffers
  <2>4. FilesAdopt' /\ MemoryAdopts' /\ SeenAdopts'
    BY <1>1, <1>a, MovesFilesAdopt, MovesMemoryAdopts, MovesSeenAdopts
  <2>5. Balanced'
    BY <1>1, <2>1, MovesBalanced
  <2>. QED  BY <1>b, <2>2, <2>3, <2>4, <2>5 DEF UsageInv
<1>2. ASSUME NEW p \in Proc, Ended(p), UNCHANGED <<home, legacy, adopted, calls, blind>>
      PROVE  UsageInv'
    BY <1>2, <1>a, <1>b, EndedLocked, EndedDiffers, EndedAdopts, EndedBalanced DEF UsageInv
<1>3. CASE UNCHANGED vars
    BY <1>3, <1>b, QuietUsage DEF vars, files, memory, ledger
<1>4. ASSUME NEW p \in Proc, Start(p) PROVE UsageInv'
    BY <1>4, <1>b, QuietUsage DEF Start, files, ledger
<1>5. ASSUME NEW p \in Proc, Die(p) PROVE UsageInv'
    BY <1>2, <1>5 DEF Die
<1>6. ASSUME NEW t \in Thread, Exit(t) PROVE UsageInv'
    BY <1>2, <1>6, ConstantsOK DEF Exit
<1>7. ASSUME NEW t \in Thread, Enter(t, 0) \/ Enter(t, 1) \/ StartClose(t) \/ Run(t)
      PROVE  UsageInv'
    BY <1>1, <1>6, <1>7 DEF Moves, Run
<1>. QED  BY <1>3, <1>4, <1>5, <1>7 DEF Next

\* flush: where every process can lock the home file, no call is ever counted
\* twice, for any processes, goroutines, crashes, migrations, and reads and writes
\* that fail.
THEOREM CountedOnce ==
    ASSUME Unlocked = {}
    PROVE  Spec => []NeverCountedTwice
<1>1. UsageInv => NeverCountedTwice
    BY DEF UsageInv, Balanced, Fits, NeverCountedTwice, Accounted
<1>2. UsageInv /\ [Next]_vars => UsageInv'
    BY UsageStep
<1>. QED  BY <1>1, <1>2, UsageInit, PTL DEF Spec

\* flush: under the same assumption every call recorded is in the file, waits in
\* its process or went with it, unless a failed read was taken for a missing file
\* or a migration replaced a home file: usage_read_error and usage_migration_race
\* show that each of the two loses counts.
THEOREM NothingLost ==
    ASSUME Unlocked = {}
    PROVE  Spec => []DeferredNotLost
<1>1. UsageInv => DeferredNotLost
    BY DEF UsageInv, Balanced
<1>2. UsageInv /\ [Next]_vars => UsageInv'
    BY UsageStep
<1>. QED  BY <1>1, <1>2, UsageInit, PTL DEF Spec

=============================================================================
