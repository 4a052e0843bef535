------------------------ MODULE HistoryShare_proofs -------------------------
(***************************************************************************)
(* Theorems about HistoryShare, for any machines, processes, replicas and  *)
(* snapshots, any policies and any number of deaths.                       *)
(***************************************************************************)
EXTENDS HistoryShare_lemmas

-----------------------------------------------------------------------------
(* What a step does to the variables of the call it belongs to. *)

(* Only the variables of p change, and these of them are then so.             *)
Became(p, b, d, r) ==
    /\ \A q \in Proc \ {p} : job'[q] = job[q]
    /\ job'[p].batch = b
    /\ job'[p].doomed = d
    /\ job'[p].rest = r

(* StartPush sets what to push.                                               *)
LEMMA TodoSet ==
    ASSUME job \in [Proc -> Job], NEW p \in Proc, NEW a \in Todos,
           job' = [job EXCEPT ![p].todo = a]
    PROVE  job' \in [Proc -> Job] /\ Became(p, job[p].batch, job[p].doomed, job[p].rest)
BY DEF Job, Jobs, Became

(* Publish empties the batch.                                                 *)
LEMMA BatchSet ==
    ASSUME job \in [Proc -> Job], NEW p \in Proc, NEW b \in Batches,
           job' = [job EXCEPT ![p].batch = b]
    PROVE  job' \in [Proc -> Job] /\ Became(p, b, job[p].doomed, job[p].rest)
BY DEF Job, Jobs, Became

(* RemoveEntry takes an entry off its list.                                   *)
LEMMA DoomedSet ==
    ASSUME job \in [Proc -> Job], NEW p \in Proc, NEW d \in Dooms,
           job' = [job EXCEPT ![p].doomed = d]
    PROVE  job' \in [Proc -> Job] /\ Became(p, job[p].batch, d, job[p].rest)
BY DEF Job, Jobs, Became

(* PullNext takes a record off its list.                                      *)
LEMMA RestSet ==
    ASSUME job \in [Proc -> Job], NEW p \in Proc, NEW e \in Reads,
           job' = [job EXCEPT ![p].rest = e]
    PROVE  job' \in [Proc -> Job] /\ Became(p, job[p].batch, job[p].doomed, e)
BY DEF Job, Jobs, Became

(* OpenPush sets what to push and the head.                                   *)
LEMMA TodoHeadSet ==
    ASSUME job \in [Proc -> Job], NEW p \in Proc, NEW a \in Todos, NEW c \in Heads,
           job' = [job EXCEPT ![p].todo = a, ![p].head = c]
    PROVE  job' \in [Proc -> Job] /\ Became(p, job[p].batch, job[p].doomed, job[p].rest)
BY DEF Job, Jobs, Became

(* PutEntry moves a revision into the batch and takes the head along.         *)
LEMMA TodoBatchHeadSet ==
    ASSUME job \in [Proc -> Job], NEW p \in Proc, NEW a \in Todos, NEW b \in Batches, NEW c \in Heads,
           job' = [job EXCEPT ![p].todo = a, ![p].batch = b, ![p].head = c]
    PROVE  job' \in [Proc -> Job] /\ Became(p, b, job[p].doomed, job[p].rest)
BY DEF Job, Jobs, Became

(* StartGC sets its list and its record.                                      *)
LEMMA DoomedBatchSet ==
    ASSUME job \in [Proc -> Job], NEW p \in Proc, NEW d \in Dooms, NEW b \in Batches,
           job' = [job EXCEPT ![p].doomed = d, ![p].batch = b]
    PROVE  job' \in [Proc -> Job] /\ Became(p, b, d, job[p].rest)
BY DEF Job, Jobs, Became

(* StartPull sets what it read and what it wants.                             *)
LEMMA OpenedRestSet ==
    ASSUME job \in [Proc -> Job], NEW p \in Proc, NEW e \in Reads, NEW g \in Reads,
           job' = [job EXCEPT ![p].opened = e, ![p].rest = g]
    PROVE  job' \in [Proc -> Job] /\ Became(p, job[p].batch, job[p].doomed, g)
BY DEF Job, Jobs, Became

(* A call that returned has nothing left.                                     *)
LEMMA ReturnedBecame ==
    ASSUME Typed, NEW p \in Proc, Returned(p)
    PROVE  /\ Became(p, <<>>, {}, {})
           /\ pc' = [pc EXCEPT ![p] = "idle"]
<1>1. job \in [Proc -> Job]
    BY DEF Typed
<1>2. /\ job'[p] = Idle
      /\ \A q \in Proc \ {p} : job'[q] = job[q]
      /\ pc' = [pc EXCEPT ![p] = "idle"]
    BY <1>1 DEF Returned
<1>3. Idle.batch = <<>> /\ Idle.doomed = {} /\ Idle.rest = {}
    BY DEF Idle
<1> QED
    BY <1>2, <1>3 DEF Became

(* Every variable keeps its type when those a step may change do.             *)
LEMMA ReturnTyped ==
    ASSUME Typed, NEW p \in Proc, Returned(p),
           where' = where, entry' = entry, chain' \in Files, cuts' = cuts,
           local' \in Locals, anchor' \in Anchors, calls' = calls, stops' \in Nat
    PROVE  Typed'
<1>1. pc' \in [Proc -> PCs] /\ job' \in [Proc -> Job] /\ lock' \in Locks
    BY ReturnedTypes
<1> QED
    BY <1>1 DEF Typed

(* The same for a call that goes on.                                          *)
LEMMA StepTyped ==
    ASSUME Typed, NEW p \in Proc, NEW to \in PCs, pc' = [pc EXCEPT ![p] = to],
           job' \in [Proc -> Job], lock' \in Locks,
           where' = where, entry' \in Shelves, chain' \in Files,
           local' \in Locals, anchor' = anchor,
           calls' \in Nat, stops' = stops, cuts' = cuts
    PROVE  Typed'
<1>1. pc' \in [Proc -> PCs]
    BY DEF Typed
<1> QED
    BY <1>1 DEF Typed

-----------------------------------------------------------------------------
(* Every operation of history push keeps the types. *)

(* StartPush chooses what to push.                                            *)
LEMMA StartPushEffect ==
    ASSUME Typed, NEW p \in Proc, StartPush(p)
    PROVE  /\ Typed'
           /\ Became(p, job[p].batch, job[p].doomed, job[p].rest)
           /\ pc' = [pc EXCEPT ![p] = "open"]
           /\ where' = where /\ entry' = entry /\ chain' = chain /\ cuts' = cuts
<1>1. PICK offered \in SUBSET local[HostOf[p]] : job' = [job EXCEPT ![p].todo = offered]
    BY DEF StartPush, Set
<1>2. /\ pc' = [pc EXCEPT ![p] = "open"] /\ calls' = calls + 1
      /\ where' = where /\ entry' = entry /\ chain' = chain /\ local' = local
      /\ anchor' = anchor /\ lock' = lock /\ stops' = stops /\ cuts' = cuts
    BY DEF StartPush, Begin, Step, store
<1>3. /\ job \in [Proc -> Job] /\ lock \in Locks /\ entry \in Shelves /\ chain \in Files
      /\ local \in Locals /\ calls \in Nat /\ "open" \in PCs
    BY DEF Typed, PCs
<1>4. HostOf[p] \in Host /\ job[p] \in Job /\ job[p].batch \in Seq(Line)
    BY Places
<1>5. offered \in Todos
    BY <1>3, <1>4 DEF Locals, Todos
<1>6. /\ job' \in [Proc -> Job]
      /\ Became(p, job[p].batch, job[p].doomed, job[p].rest)
    BY ONLY <1>1, <1>3, <1>5, p \in Proc, TodoSet
<1>7. calls' \in Nat
    BY <1>2, <1>3
<1>8. Typed'
    BY ONLY Typed, p \in Proc, <1>2, <1>3, <1>6, <1>7, StepTyped
<1> QED
    BY <1>2, <1>6, <1>8

(* OpenPush keeps what is not pushed yet, or refuses.                         *)
LEMMA OpenPushEffect ==
    ASSUME Typed, NEW p \in Proc, OpenPush(p)
    PROVE  /\ Typed'
           /\ where' = where /\ entry' = entry /\ chain' = chain /\ cuts' = cuts
           /\ \/ Returned(p)
              \/ /\ Became(p, job[p].batch, job[p].doomed, job[p].rest)
                 /\ pc' = [pc EXCEPT ![p] = "lock push"]
<1>1. /\ where' = where /\ entry' = entry /\ chain' = chain /\ local' = local
      /\ anchor' = anchor /\ calls' = calls /\ stops' = stops /\ cuts' = cuts
    BY DEF OpenPush, store, counters
<1>2. /\ job \in [Proc -> Job] /\ lock \in Locks /\ entry \in Shelves /\ chain \in Files
      /\ local \in Locals /\ anchor \in Anchors /\ calls \in Nat /\ stops \in Nat
      /\ "lock push" \in PCs
    BY DEF Typed, PCs
<1>3. CASE Returned(p)
    <2>1. Typed'
        BY ONLY Typed, p \in Proc, <1>1, <1>2, <1>3, ReturnTyped
    <2> QED
        BY <1>1, <1>3, <2>1
<1>4. CASE ~Returned(p)
    <2> DEFINE own == {a.rev.id : a \in RevisionsOf(Chains(Here(p)), HostOf[p])}
               S == {r \in job[p].todo : r.id \notin own}
    <2>1. /\ pc' = [pc EXCEPT ![p] = "lock push"]
          /\ job' = [job EXCEPT ![p].todo = S, ![p].head = ChainHead(Chain(p))]
          /\ lock' = lock
        BY <1>4 DEF OpenPush
    <2>2. S \in Todos /\ ChainHead(Chain(p)) \in Heads
        BY Places, ChainHeadType DEF Todos, Heads
    <2> HIDE DEF S
    <2>3. /\ job' \in [Proc -> Job]
          /\ Became(p, job[p].batch, job[p].doomed, job[p].rest)
        BY ONLY <1>2, <2>1, <2>2, p \in Proc, TodoHeadSet
    <2>4. Typed'
        BY ONLY Typed, p \in Proc, <1>1, <1>2, <2>1, <2>3, StepTyped
    <2> QED
        BY <1>1, <2>1, <2>3, <2>4
<1> QED
    BY <1>3, <1>4

(* TakeLock touches nothing but the lock.                                     *)
LEMMA TakeLockEffect ==
    ASSUME Typed, NEW p \in Proc, NEW from, NEW to \in PCs, TakeLock(p, from, to)
    PROVE  /\ Typed'
           /\ job' = job
           /\ pc[p] = from /\ pc' = [pc EXCEPT ![p] = to]
           /\ where' = where /\ entry' = entry /\ chain' = chain /\ cuts' = cuts
<1>1. /\ pc[p] = from /\ pc' = [pc EXCEPT ![p] = to] /\ job' = job
      /\ where' = where /\ entry' = entry /\ chain' = chain /\ local' = local
      /\ anchor' = anchor /\ calls' = calls /\ stops' = stops /\ cuts' = cuts
    BY DEF TakeLock, Step, store, counters
<1>2. /\ job \in [Proc -> Job] /\ lock \in Locks /\ entry \in Shelves /\ chain \in Files
      /\ local \in Locals /\ calls \in Nat
    BY DEF Typed
<1>3. lock' \in Locks
    <2>1. lock' = lock \/ lock' = [lock EXCEPT ![HostOf[p]] = p]
        BY DEF TakeLock
    <2> QED
        BY <1>2, <2>1 DEF Locks
<1>4. Typed'
    BY ONLY Typed, p \in Proc, to \in PCs, <1>1, <1>2, <1>3, StepTyped
<1> QED
    BY <1>1, <1>4

(* A file of entries/ written or removed, and no other.                       *)
LEMMA SetEntryEffect ==
    ASSUME Typed, NEW p \in Proc, NEW id \in Snapshot, NEW x \in Build \cup {Absent},
           SetEntry(p, id, x)
    PROVE  /\ entry' \in Shelves
           /\ entry'[Here(p)][id].payload = x
           /\ entry'[Here(p)][id].change > 0
           /\ entry[Here(p)][id].change <= entry'[Here(p)][id].change
           /\ \A r \in Replica, i \in Snapshot :
                  \/ entry'[r][i] = entry[r][i]
                  \/ r = Here(p) /\ i = id
<1>1. entry \in [Replica -> [Snapshot -> Entries]] /\ Here(p) \in Replica
    BY Places DEF Typed, Shelves
<1>2. entry[Here(p)][id] \in Entries
    BY <1>1
<1>3. PICK n \in Nat : entry[Here(p)][id].change = n
    BY <1>2 DEF Entries
<1>4. PICK e : e = [payload |-> x, change |-> n + 1]
    OBVIOUS
<1>5. e \in Entries /\ e.payload = x /\ e.change > 0 /\ n <= e.change
    BY <1>4 DEF Entries
<1>6. entry' = [entry EXCEPT ![Here(p)][id] = e]
    BY <1>3, <1>4 DEF SetEntry
<1> QED
    BY ONLY <1>1, <1>3, <1>5, <1>6, id \in Snapshot DEF Shelves

(* PutEntry writes the file if it is not there, and adds a record.            *)
LEMMA PutEntryEffect ==
    ASSUME Typed, NEW p \in Proc, PutEntry(p)
    PROVE  /\ Typed'
           /\ \E r \in Revision, l \in Line :
                  /\ l.body = Observed(r)
                  /\ Became(p, Append(job[p].batch, l), job[p].doomed, job[p].rest)
                  /\ \/ entry[Here(p)][r.id].payload # Absent /\ entry' = entry
                     \/ SetEntry(p, r.id, r.build)
           /\ pc[p] = "push" /\ pc' = pc
           /\ where' = where /\ chain' = chain /\ cuts' = cuts
<1> DEFINE r == Oldest(job[p].todo)
           l == [prev |-> job[p].head, body |-> Observed(r)]
           S == {q \in job[p].todo : q.id # r.id}
<1>1. /\ pc[p] = "push" /\ pc' = pc /\ lock' = lock
      /\ where' = where /\ chain' = chain /\ local' = local
      /\ anchor' = anchor /\ calls' = calls /\ stops' = stops /\ cuts' = cuts
    BY DEF PutEntry, counters
<1>2. /\ job \in [Proc -> Job] /\ lock \in Locks /\ entry \in Shelves /\ chain \in Files
      /\ local \in Locals /\ calls \in Nat /\ pc \in [Proc -> PCs] /\ "push" \in PCs
    BY DEF Typed, PCs
<1>3. r \in Revision
    BY Places, OldestIn DEF PutEntry
<1>4. l \in Line /\ l.body = Observed(r)
    BY <1>3, Bodies, Places DEF Line
<1>5. S \in Todos
    BY Places DEF Todos
<1>6. Append(job[p].batch, l) \in Batches /\ ShareRecordHash(l) \in Heads
    BY <1>4, Places, HashType, AppendProperties DEF Batches, Heads
<1>7. job' = [job EXCEPT ![p].todo = S, ![p].batch = Append(job[p].batch, l),
                         ![p].head = ShareRecordHash(l)]
    BY DEF PutEntry
<1>8. \/ entry[Here(p)][r.id].payload # Absent /\ entry' = entry
      \/ SetEntry(p, r.id, r.build)
    BY DEF PutEntry, Entry
<1> HIDE DEF S, l, r
<1>9. /\ job' \in [Proc -> Job]
      /\ Became(p, Append(job[p].batch, l), job[p].doomed, job[p].rest)
    BY ONLY <1>2, <1>5, <1>6, <1>7, p \in Proc, TodoBatchHeadSet
<1>10. entry' \in Shelves
    <2>1. r.id \in Snapshot /\ r.build \in Build \cup {Absent}
        BY <1>3 DEF Revision
    <2> QED
        BY <1>2, <1>8, <2>1, SetEntryEffect
<1>11. pc' = [pc EXCEPT ![p] = "push"]
    BY <1>1, <1>2
<1>12. Typed'
    BY ONLY Typed, p \in Proc, <1>1, <1>2, <1>9, <1>10, <1>11, StepTyped
<1> QED
    BY <1>1, <1>3, <1>4, <1>8, <1>9, <1>12

(* The chain file of the process's machine, and no other, is written.         *)
LEMMA SetChainEffect ==
    ASSUME Typed, NEW p \in Proc, NEW c \in Seq(Line), SetChain(p, c), where' = where
    PROVE  /\ chain' \in Files
           /\ Owned(HostOf[p])' = c
           /\ Owned(HostOf[p]) = Chain(p)
           /\ \A h \in Host \ {HostOf[p]} : Owned(h)' = Owned(h)
<1>1. chain \in [Replica -> [Host -> Seq(Line)]] /\ where \in [Host -> Replica]
    BY DEF Typed, Files, Wheres
<1>2. HostOf[p] \in Host /\ Here(p) \in Replica /\ Here(p) = where[HostOf[p]]
    BY Places DEF Here
<1>3. chain' = [chain EXCEPT ![Here(p)][HostOf[p]] = c]
    BY DEF SetChain
<1>4. chain' \in Files
    BY ONLY <1>1, <1>2, <1>3, c \in Seq(Line) DEF Files
<1>5. chain'[Here(p)][HostOf[p]] = c
    BY ONLY <1>1, <1>2, <1>3
<1>6. ASSUME NEW h \in Host \ {HostOf[p]} PROVE chain'[where[h]][h] = chain[where[h]][h]
    <2>1. where[h] \in Replica /\ h \in Host /\ h # HostOf[p]
        BY <1>1
    <2> QED
        BY ONLY <1>1, <1>2, <1>3, <2>1
<1> QED
    BY <1>2, <1>4, <1>5, <1>6 DEF Owned, Chain

(* Publish appends the records of the call.                                   *)
LEMMA PublishEffect ==
    ASSUME Typed, NEW p \in Proc, NEW from, NEW to \in PCs, Publish(p, from, to)
    PROVE  /\ Typed'
           /\ Became(p, <<>>, job[p].doomed, job[p].rest)
           /\ pc[p] = from /\ pc' = [pc EXCEPT ![p] = to]
           /\ SetChain(p, Written(Chain(p), job[p].batch))
           /\ where' = where /\ entry' = entry /\ cuts' = cuts
<1>1. /\ pc[p] = from /\ pc' = [pc EXCEPT ![p] = to] /\ lock' = lock
      /\ where' = where /\ entry' = entry /\ local' = local
      /\ anchor' = anchor /\ calls' = calls /\ stops' = stops /\ cuts' = cuts
      /\ job' = [job EXCEPT ![p].batch = <<>>]
      /\ SetChain(p, Written(Chain(p), job[p].batch))
    BY DEF Publish, Step, Set, counters
<1>2. /\ job \in [Proc -> Job] /\ lock \in Locks /\ entry \in Shelves
      /\ local \in Locals /\ calls \in Nat
    BY DEF Typed
<1>3. <<>> \in Batches
    BY DEF Batches
<1>4. job' \in [Proc -> Job] /\ Became(p, <<>>, job[p].doomed, job[p].rest)
    BY ONLY <1>1, <1>2, <1>3, p \in Proc, BatchSet
<1>5. Chain(p) \in Seq(Line) /\ job[p].batch \in Seq(Line)
    BY Places
<1>6. Written(Chain(p), job[p].batch) \in Seq(Line)
    BY ONLY <1>5, AppendedLines
<1>7. chain' \in Files
    BY ONLY Typed, p \in Proc, <1>1, <1>6, SetChainEffect
<1>8. Typed'
    BY ONLY Typed, p \in Proc, to \in PCs, <1>1, <1>2, <1>4, <1>7, StepTyped
<1> QED
    BY ONLY <1>1, <1>4, <1>8

(* WriteAnchor ends a push.                                                   *)
LEMMA WriteAnchorEffect ==
    ASSUME Typed, NEW p \in Proc, WriteAnchor(p)
    PROVE  /\ Typed' /\ Returned(p)
           /\ where' = where /\ entry' = entry /\ chain' = chain /\ cuts' = cuts
<1>1. /\ Returned(p) /\ anchor' = [anchor EXCEPT ![HostOf[p]] = job[p].head]
      /\ where' = where /\ entry' = entry /\ chain' = chain /\ local' = local
      /\ calls' = calls /\ stops' = stops /\ cuts' = cuts
    BY DEF WriteAnchor, store, counters
<1>2. anchor \in Anchors /\ chain \in Files /\ local \in Locals /\ stops \in Nat
    BY DEF Typed
<1>3. anchor' \in Anchors
    BY <1>1, <1>2, Places DEF Anchors
<1>4. Typed'
    BY ONLY Typed, p \in Proc, <1>1, <1>2, <1>3, ReturnTyped
<1> QED
    BY ONLY <1>1, <1>4

-----------------------------------------------------------------------------
(* So does every operation of a shared collection, *)

(* StartGC chooses the entries to remove and the record that says so.         *)
LEMMA StartGCEffect ==
    ASSUME Typed, NEW p \in Proc, StartGC(p)
    PROVE  /\ Typed'
           /\ \E doomed \in Dooms, l \in Line :
                  /\ l.body = Pruning(doomed)
                  /\ Became(p, <<l>>, doomed, job[p].rest)
           /\ pc' = [pc EXCEPT ![p] = "lock gc"]
           /\ where' = where /\ entry' = entry /\ chain' = chain /\ cuts' = cuts
<1>1. /\ pc' = [pc EXCEPT ![p] = "lock gc"] /\ calls' = calls + 1 /\ lock' = lock
      /\ where' = where /\ entry' = entry /\ chain' = chain /\ local' = local
      /\ anchor' = anchor /\ stops' = stops /\ cuts' = cuts
    BY DEF StartGC, Begin, Step, store
<1>2. /\ job \in [Proc -> Job] /\ lock \in Locks /\ entry \in Shelves /\ chain \in Files
      /\ local \in Locals /\ calls \in Nat /\ "lock gc" \in PCs
    BY DEF Typed, PCs
<1> DEFINE R == RevisionsIn(Chains(Here(p)))
           Doomed(policy) == {id \in {a.rev.id : a \in R} \ Kept(R, policy) :
                                  Entry(p, id).payload # Absent}
           Said(policy) == [prev |-> ChainHead(Chain(p)), body |-> Pruning(Doomed(policy))]
<1>3. PICK policy \in Policies :
          job' = [job EXCEPT ![p].doomed = Doomed(policy), ![p].batch = <<Said(policy)>>]
    BY DEF StartGC
<1>4. R \subseteq Record
    BY Places, ChainsType, RevisionTypes
<1> HIDE DEF R
<1>5. Doomed(policy) \in Dooms
    <2>1. ASSUME NEW a \in R PROVE a.rev.id \in Snapshot
        BY <1>4 DEF Record, Revision
    <2>2. {a.rev.id : a \in R} \subseteq Snapshot
        BY <2>1
    <2>3. Doomed(policy) \subseteq {a.rev.id : a \in R}
        OBVIOUS
    <2> HIDE DEF Doomed
    <2> QED
        BY <2>2, <2>3 DEF Dooms
<1>6. Said(policy) \in Line /\ Said(policy).body = Pruning(Doomed(policy))
    <2>1. ChainHead(Chain(p)) \in Seq(Body)
        BY Places, ChainHeadType
    <2>2. Pruning(Doomed(policy)) \in Body
        BY <1>5, Bodies DEF Dooms
    <2> HIDE DEF Doomed
    <2> QED
        BY <2>1, <2>2 DEF Line
<1> HIDE DEF Doomed, Said
<1>7. <<Said(policy)>> \in Batches
    BY <1>6 DEF Batches
<1>8. job' \in [Proc -> Job] /\ Became(p, <<Said(policy)>>, Doomed(policy), job[p].rest)
    BY ONLY <1>2, <1>3, <1>5, <1>7, p \in Proc, DoomedBatchSet
<1>9. calls' \in Nat
    <2>1. calls \in Nat /\ calls' = calls + 1
        BY ONLY <1>1, <1>2
    <2> QED
        BY ONLY <2>1
<1>10. Typed'
    BY ONLY Typed, p \in Proc, <1>1, <1>2, <1>8, <1>9, StepTyped
<1> QED
    BY ONLY <1>1, <1>5, <1>6, <1>8, <1>10

(* RemoveEntry removes one of them.                                           *)
LEMMA RemoveEntryEffect ==
    ASSUME Typed, NEW p \in Proc, RemoveEntry(p)
    PROVE  /\ Typed'
           /\ \E id \in job[p].doomed :
                  /\ entry' = entry \/ SetEntry(p, id, Absent)
                  /\ Became(p, job[p].batch, job[p].doomed \ {id}, job[p].rest)
           /\ pc[p] = "remove" /\ pc' = pc
           /\ where' = where /\ chain' = chain /\ cuts' = cuts
<1>1. /\ pc[p] = "remove" /\ pc' = pc /\ lock' = lock
      /\ where' = where /\ chain' = chain /\ local' = local
      /\ anchor' = anchor /\ calls' = calls /\ stops' = stops /\ cuts' = cuts
    BY DEF RemoveEntry, counters
<1>2. /\ job \in [Proc -> Job] /\ lock \in Locks /\ entry \in Shelves /\ chain \in Files
      /\ local \in Locals /\ calls \in Nat /\ pc \in [Proc -> PCs] /\ "remove" \in PCs
    BY DEF Typed, PCs
<1>3. PICK id \in job[p].doomed :
          /\ entry' = entry \/ SetEntry(p, id, Absent)
          /\ job' = [job EXCEPT ![p].doomed = job[p].doomed \ {id}]
    BY DEF RemoveEntry, Set
<1>4. id \in Snapshot /\ job[p].doomed \ {id} \in Dooms
    BY Places DEF Dooms
<1>5. job' \in [Proc -> Job] /\ Became(p, job[p].batch, job[p].doomed \ {id}, job[p].rest)
    <2>1. PICK d : d = job[p].doomed \ {id}
        OBVIOUS
    <2> QED
        BY ONLY <1>2, <1>3, <1>4, <2>1, p \in Proc, DoomedSet
<1>6. entry' \in Shelves
    <2>1. Absent \in Build \cup {Absent}
        OBVIOUS
    <2> QED
        BY <1>2, <1>3, <1>4, <2>1, SetEntryEffect
<1>7. pc' = [pc EXCEPT ![p] = "remove"]
    BY <1>1, <1>2
<1>8. Typed'
    BY ONLY Typed, p \in Proc, <1>1, <1>2, <1>5, <1>6, <1>7, StepTyped
<1> QED
    BY <1>1, <1>3, <1>5, <1>8

(* EndGC ends a collection.                                                   *)
LEMMA EndGCEffect ==
    ASSUME Typed, NEW p \in Proc, EndGC(p)
    PROVE  /\ Typed' /\ Returned(p)
           /\ where' = where /\ entry' = entry /\ chain' = chain /\ cuts' = cuts
<1>1. /\ Returned(p) /\ anchor' = anchor
      /\ where' = where /\ entry' = entry /\ chain' = chain /\ local' = local
      /\ calls' = calls /\ stops' = stops /\ cuts' = cuts
    BY DEF EndGC, store, counters
<1>2. anchor \in Anchors /\ chain \in Files /\ local \in Locals /\ stops \in Nat
    BY DEF Typed
<1>3. Typed'
    BY ONLY Typed, p \in Proc, <1>1, <1>2, ReturnTyped
<1> QED
    BY ONLY <1>1, <1>3

-----------------------------------------------------------------------------
(* of history pull, *)

(* StartPull chooses the records to pull.                                     *)
LEMMA StartPullEffect ==
    ASSUME Typed, NEW p \in Proc, StartPull(p)
    PROVE  /\ Typed'
           /\ \E rest : OneRecordALine(rest) /\ Became(p, job[p].batch, job[p].doomed, rest)
           /\ pc' = [pc EXCEPT ![p] = "pull"]
           /\ where' = where /\ entry' = entry /\ chain' = chain /\ cuts' = cuts
<1>1. /\ pc' = [pc EXCEPT ![p] = "pull"] /\ calls' = calls + 1 /\ lock' = lock
      /\ where' = where /\ entry' = entry /\ chain' = chain /\ local' = local
      /\ anchor' = anchor /\ stops' = stops /\ cuts' = cuts
    BY DEF StartPull, Begin, Step, store
<1>2. /\ job \in [Proc -> Job] /\ lock \in Locks /\ entry \in Shelves /\ chain \in Files
      /\ local \in Locals /\ calls \in Nat /\ "pull" \in PCs
    BY DEF Typed, PCs
<1> DEFINE R == RevisionsIn(Chains(Here(p)))
           have == {r.id : r \in local[HostOf[p]]}
           rest == {a \in R : a.rev.id \notin have}
<1>3. job' = [job EXCEPT ![p].opened = R, ![p].rest = rest]
    BY DEF StartPull
<1>4. R \subseteq Record /\ OneRecordALine(R)
    BY Places, ChainsType, RevisionTypes
<1> HIDE DEF R, have
<1>5. R \in Reads /\ rest \in Reads /\ OneRecordALine(rest)
    BY <1>4 DEF Reads, OneRecordALine
<1> HIDE DEF rest
<1>6. job' \in [Proc -> Job] /\ Became(p, job[p].batch, job[p].doomed, rest)
    BY ONLY <1>2, <1>3, <1>5, p \in Proc, OpenedRestSet
<1>7. calls' \in Nat
    BY <1>1, <1>2
<1>8. Typed'
    BY ONLY Typed, p \in Proc, <1>1, <1>2, <1>6, <1>7, StepTyped
<1> QED
    BY ONLY <1>1, <1>5, <1>6, <1>8

(* PullNext takes the first of them.                                          *)
LEMMA PullNextEffect ==
    ASSUME Typed, NEW p \in Proc, OneRecordALine(job[p].rest), PullNext(p)
    PROVE  /\ Typed'
           /\ \/ Returned(p)
              \/ /\ pc' = pc
                 /\ \E rest : OneRecordALine(rest)
                              /\ Became(p, job[p].batch, job[p].doomed, rest)
           /\ where' = where /\ entry' = entry /\ chain' = chain /\ cuts' = cuts
<1>1. /\ where' = where /\ entry' = entry /\ chain' = chain /\ anchor' = anchor
      /\ calls' = calls /\ stops' = stops /\ cuts' = cuts /\ pc[p] = "pull"
    BY DEF PullNext, store, counters
<1>2. /\ job \in [Proc -> Job] /\ lock \in Locks /\ entry \in Shelves /\ chain \in Files
      /\ local \in Locals /\ anchor \in Anchors /\ calls \in Nat /\ stops \in Nat
      /\ pc \in [Proc -> PCs] /\ "pull" \in PCs
    BY DEF Typed, PCs
<1> DEFINE a == First(job[p].rest)
           payload == Entry(p, a.rev.id).payload
           rest == IF payload = Absent THEN job[p].rest \ {a}
                   ELSE {b \in job[p].rest : b.rev.id # a.rev.id}
<1>3. job[p].rest \subseteq Record /\ HostOf[p] \in Host /\ Here(p) \in Replica
    BY Places
<1>4. a \in Record
    BY <1>3, FirstIn DEF PullNext
<1>5. \/ local' = local
      \/ /\ payload # Absent
         /\ local' = [local EXCEPT ![HostOf[p]] = @ \cup {[a.rev EXCEPT !.build = payload]}]
    BY DEF PullNext
<1>6. \/ Returned(p)
      \/ job' = [job EXCEPT ![p].rest = rest] /\ pc' = pc /\ lock' = lock
    BY DEF PullNext, Set
<1>7. rest \in Reads /\ OneRecordALine(rest)
    <2>1. rest \subseteq job[p].rest
        OBVIOUS
    <2> HIDE DEF rest
    <2> QED
        BY <1>3, <2>1 DEF Reads, OneRecordALine
<1> HIDE DEF rest
<1>8. local' \in Locals
    <2>1. a.rev \in Revision
        BY <1>4 DEF Record
    <2> HIDE DEF a
    <2>2. entry[Here(p)][a.rev.id] \in Entries
        BY <1>2, <1>3, <2>1 DEF Shelves, Revision
    <2>3. payload # Absent => payload \in Build
        BY <2>2 DEF Entry, Entries
    <2> HIDE DEF payload
    <2>4. payload # Absent => [a.rev EXCEPT !.build = payload] \in Revision
        BY <2>1, <2>3 DEF Revision
    <2> QED
        BY <1>2, <1>3, <1>5, <2>4 DEF Locals
<1>9. CASE Returned(p)
    <2>1. Typed'
        BY ONLY Typed, p \in Proc, <1>1, <1>2, <1>8, <1>9, ReturnTyped
    <2> QED
        BY ONLY <1>1, <1>9, <2>1
<1>10. CASE ~Returned(p)
    <2>1. job' = [job EXCEPT ![p].rest = rest] /\ pc' = pc /\ lock' = lock
        BY <1>6, <1>10
    <2>2. job' \in [Proc -> Job] /\ Became(p, job[p].batch, job[p].doomed, rest)
        BY ONLY <1>2, <1>7, <2>1, p \in Proc, RestSet
    <2>3. pc' = [pc EXCEPT ![p] = "pull"]
        BY <1>1, <1>2, <2>1
    <2>4. Typed'
        BY ONLY Typed, p \in Proc, <1>1, <1>2, <1>8, <2>1, <2>2, <2>3, StepTyped
    <2> QED
        BY ONLY <1>1, <1>7, <2>1, <2>2, <2>4
<1> QED
    BY <1>9, <1>10

(* EndPull ends a pull.                                                       *)
LEMMA EndPullEffect ==
    ASSUME Typed, NEW p \in Proc, EndPull(p)
    PROVE  /\ Typed' /\ Returned(p)
           /\ where' = where /\ entry' = entry /\ chain' = chain /\ cuts' = cuts
<1>1. /\ Returned(p) /\ anchor' = anchor
      /\ where' = where /\ entry' = entry /\ chain' = chain /\ local' = local
      /\ calls' = calls /\ stops' = stops /\ cuts' = cuts
    BY DEF EndPull, store, counters
<1>2. anchor \in Anchors /\ chain \in Files /\ local \in Locals /\ stops \in Nat
    BY DEF Typed
<1>3. Typed'
    BY ONLY Typed, p \in Proc, <1>1, <1>2, ReturnTyped
<1> QED
    BY ONLY <1>1, <1>3

-----------------------------------------------------------------------------
(* and everything that happens to them. *)

(* Tear appends the first records of a call and a line cut short.             *)
LEMMA TearEffect ==
    ASSUME Typed, NEW p \in Proc, Tear(p)
    PROVE  /\ Typed' /\ Returned(p)
           /\ \E new \in Seq(Line) :
                  /\ SetChain(p, Written(Chain(p), new))
                  /\ \A i \in DOMAIN new :
                         new[i] = Partial \/ \E k \in DOMAIN job[p].batch : new[i] = job[p].batch[k]
           /\ where' = where /\ entry' = entry /\ cuts' = cuts
<1>1. /\ Returned(p) /\ anchor' = anchor /\ stops' = stops + 1
      /\ where' = where /\ entry' = entry /\ local' = local
      /\ calls' = calls /\ cuts' = cuts
    BY DEF Tear
<1>2. anchor \in Anchors /\ local \in Locals /\ stops \in Nat
    BY DEF Typed
<1>3. PICK b \in Seq(Line) : b = job[p].batch
    BY Places
<1>4. PICK k \in 0..(Len(b) - 1) :
          SetChain(p, Written(Chain(p), Append(SubSeq(b, 1, k), Partial)))
    BY <1>3 DEF Tear
<1>5. PICK s : s = SubSeq(b, 1, k)
    OBVIOUS
<1>6. /\ s \in Seq(Line)
      /\ Len(s) = k
      /\ \A i \in 1..k : s[i] = b[i]
      /\ Len(b) \in Nat
    <2>1. Len(b) \in Nat
        OBVIOUS
    <2>2. k \in 0..Len(b)
        BY <2>1
    <2> QED
        BY ONLY <1>5, <2>1, <2>2, b \in Seq(Line), Prefix
<1>7. PICK new : new = Append(s, Partial)
    OBVIOUS
<1>8. /\ new \in Seq(Line)
      /\ Len(new) = k + 1
      /\ new[k + 1] = Partial
      /\ \A i \in 1..k : new[i] = s[i]
    <2>1. Partial \in Line
        BY Bodies
    <2> QED
        BY ONLY <1>6, <1>7, <2>1, AppendProperties
<1>9. ASSUME NEW i \in DOMAIN new
      PROVE  new[i] = Partial \/ \E j \in DOMAIN b : new[i] = b[j]
    <2>1. i \in 1..(k + 1) /\ DOMAIN b = 1..Len(b) /\ k \in Nat
        BY <1>8, LenProperties
    <2>2. CASE i = k + 1
        BY <1>8, <2>2
    <2>3. CASE i # k + 1
        <3>1. i \in 1..k /\ i \in 1..Len(b)
            BY ONLY <1>6, <2>1, <2>3, k \in 0..(Len(b) - 1)
        <3> QED
            BY ONLY <1>6, <1>8, <2>1, <3>1
    <2> QED
        BY <2>2, <2>3
<1>10. SetChain(p, Written(Chain(p), new))
    BY ONLY <1>4, <1>5, <1>7
<1>11. Chain(p) \in Seq(Line)
    BY Places
<1>12. Written(Chain(p), new) \in Seq(Line)
    BY ONLY <1>8, <1>11, AppendedLines
<1>13. chain' \in Files
    BY ONLY Typed, p \in Proc, <1>1, <1>10, <1>12, SetChainEffect
<1>14. stops' \in Nat
    BY ONLY <1>1, <1>2
<1>15. Typed'
    BY ONLY Typed, p \in Proc, <1>1, <1>2, <1>13, <1>14, ReturnTyped
<1> QED
    BY ONLY <1>1, <1>3, <1>8, <1>9, <1>10, <1>15

(* Die leaves the store as it is.                                             *)
LEMMA DieEffect ==
    ASSUME Typed, NEW p \in Proc, Die(p)
    PROVE  /\ Typed' /\ Returned(p)
           /\ where' = where /\ entry' = entry /\ chain' = chain /\ cuts' = cuts
<1>1. /\ Returned(p) /\ stops' = stops + 1
      /\ where' = where /\ entry' = entry /\ chain' = chain /\ local' = local
      /\ calls' = calls /\ cuts' = cuts
    BY DEF Die, store
<1>2. anchor \in Anchors /\ chain \in Files /\ local \in Locals /\ stops \in Nat
    BY DEF Typed
<1>3. anchor' \in Anchors
    <2>1. anchor' = anchor \/ anchor' = [anchor EXCEPT ![HostOf[p]] = <<>>]
        BY DEF Die
    <2>2. <<>> \in Seq(Body)
        OBVIOUS
    <2> QED
        BY ONLY <1>2, <2>1, <2>2 DEF Anchors
<1>4. stops' \in Nat
    BY ONLY <1>1, <1>2
<1>5. Typed'
    BY ONLY Typed, p \in Proc, <1>1, <1>2, <1>3, <1>4, ReturnTyped
<1> QED
    BY ONLY <1>1, <1>5

(* Observe is a matter of the local history.                                  *)
LEMMA ObserveEffect ==
    ASSUME Typed, NEW h \in Host, Observe(h)
    PROVE  /\ Typed'
           /\ job' = job /\ pc' = pc
           /\ where' = where /\ entry' = entry /\ chain' = chain /\ cuts' = cuts
<1>1. /\ job' = job /\ pc' = pc /\ lock' = lock /\ anchor' = anchor
      /\ where' = where /\ entry' = entry /\ chain' = chain
      /\ calls' = calls /\ stops' = stops /\ cuts' = cuts
    BY DEF Observe, store, process, counters
<1>2. local' \in Locals
    <2>1. PICK r \in Taken[h] : local' = [local EXCEPT ![h] = @ \cup {r}]
        BY DEF Observe
    <2>2. local \in Locals /\ r \in Revision
        BY ConstantsOK DEF Typed
    <2> QED
        BY <2>1, <2>2 DEF Locals
<1>3. Typed'
    BY ONLY Typed, <1>1, <1>2 DEF Typed
<1> QED
    BY ONLY <1>1, <1>3

(* SyncChain never changes a chain where its own machine works.               *)
LEMMA SyncChainEffect ==
    ASSUME Typed, NEW r \in Replica, NEW h \in Host, SyncChain(r, h)
    PROVE  /\ Typed'
           /\ \A g \in Host : Owned(g)' = Owned(g)
           /\ job' = job /\ pc' = pc
           /\ where' = where /\ entry' = entry /\ cuts' = cuts
<1>1. /\ job' = job /\ pc' = pc /\ lock' = lock /\ anchor' = anchor
      /\ where' = where /\ entry' = entry /\ local' = local
      /\ calls' = calls /\ stops' = stops /\ cuts' = cuts
    BY DEF SyncChain, process, counters
<1>2. chain \in [Replica -> [Host -> Seq(Line)]] /\ where \in [Host -> Replica]
    BY DEF Typed, Files, Wheres
<1>3. PICK c : c = chain[where[h]][h]
    OBVIOUS
<1>4. c \in Seq(Line)
    BY <1>2, <1>3
<1>5. chain' = [chain EXCEPT ![r][h] = c] /\ chain[r][h] # c
    BY <1>3 DEF SyncChain
<1>6. chain' \in Files
    BY ONLY <1>2, <1>4, <1>5, r \in Replica, h \in Host DEF Files
<1>7. ASSUME NEW g \in Host PROVE Owned(g)' = Owned(g)
    <2>1. where[g] \in Replica /\ (g = h => where[g] # r)
        BY <1>2, <1>3, <1>5
    <2>2. chain'[where[g]][g] = chain[where[g]][g]
        BY ONLY <1>2, <1>5, <2>1, r \in Replica, h \in Host, g \in Host
    <2> QED
        BY <1>1, <2>2 DEF Owned
<1>8. Typed'
    BY ONLY Typed, <1>1, <1>6 DEF Typed
<1> QED
    BY ONLY <1>1, <1>7, <1>8

(* SyncEntry copies one file that is not older.                               *)
LEMMA SyncEntryEffect ==
    ASSUME Typed, NEW r \in Replica, NEW q \in Replica, NEW id \in Snapshot,
           SyncEntry(r, q, id)
    PROVE  /\ Typed'
           /\ entry'[r][id] = entry[q][id]
           /\ entry[r][id].change <= entry[q][id].change
           /\ \A t \in Replica, i \in Snapshot :
                  \/ entry'[t][i] = entry[t][i]
                  \/ t = r /\ i = id
           /\ job' = job /\ pc' = pc
           /\ where' = where /\ chain' = chain /\ cuts' = cuts
<1>1. /\ job' = job /\ pc' = pc /\ lock' = lock /\ anchor' = anchor
      /\ where' = where /\ chain' = chain /\ local' = local
      /\ calls' = calls /\ stops' = stops /\ cuts' = cuts
      /\ entry[r][id].change <= entry[q][id].change
    BY DEF SyncEntry, process, counters
<1>2. entry \in [Replica -> [Snapshot -> Entries]]
    BY DEF Typed, Shelves
<1>3. PICK e : e = entry[q][id]
    OBVIOUS
<1>4. e \in Entries
    BY <1>2, <1>3
<1>5. entry' = [entry EXCEPT ![r][id] = e]
    BY <1>3 DEF SyncEntry
<1>6. /\ entry' \in Shelves
      /\ entry'[r][id] = e
      /\ \A t \in Replica, i \in Snapshot :
             \/ entry'[t][i] = entry[t][i]
             \/ t = r /\ i = id
    BY ONLY <1>2, <1>4, <1>5, r \in Replica, id \in Snapshot DEF Shelves
<1>7. Typed'
    BY ONLY Typed, <1>1, <1>6 DEF Typed
<1> QED
    BY ONLY <1>1, <1>3, <1>6, <1>7

(* Truncate is counted.                                                       *)
LEMMA TruncateEffect ==
    ASSUME Typed, NEW h \in Host, Truncate(h)
    PROVE  Typed' /\ job' = job /\ cuts' # 0
<1>1. /\ job' = job /\ pc' = pc /\ lock' = lock /\ anchor' = anchor
      /\ where' = where /\ entry' = entry /\ local' = local
      /\ calls' = calls /\ stops' = stops /\ cuts' = cuts + 1
    BY DEF Truncate, process
<1>2. chain \in [Replica -> [Host -> Seq(Line)]] /\ where \in [Host -> Replica] /\ cuts \in Nat
    BY DEF Typed, Files, Wheres
<1>3. PICK c \in Seq(Line) : c = chain[where[h]][h]
    BY <1>2
<1>4. PICK n \in 0..(Len(c) - 1) : chain' = [chain EXCEPT ![where[h]][h] = SubSeq(c, 1, n)]
    BY <1>3 DEF Truncate
<1>5. SubSeq(c, 1, n) \in Seq(Line)
    <2>1. Len(c) \in Nat
        OBVIOUS
    <2>2. n \in 0..Len(c)
        BY <2>1
    <2> QED
        BY ONLY <2>2, c \in Seq(Line), Prefix
<1>6. PICK s \in Seq(Line) : s = SubSeq(c, 1, n)
    BY <1>5
<1>7. chain' = [chain EXCEPT ![where[h]][h] = s]
    BY ONLY <1>4, <1>6
<1>8. chain' \in Files
    <2>1. where[h] \in Replica
        BY <1>2
    <2> QED
        BY ONLY <1>2, <1>7, <2>1, h \in Host, s \in Seq(Line) DEF Files
<1>9. cuts' \in Nat /\ cuts' # 0
    BY ONLY <1>1, <1>2
<1>10. Typed'
    BY ONLY Typed, <1>1, <1>8, <1>9 DEF Typed
<1> QED
    BY ONLY <1>1, <1>9, <1>10

-----------------------------------------------------------------------------
(* Typing. *)

(* What a pull has left is one record a line, so there is a first of it.      *)
Rests == \A p \in Proc : OneRecordALine(job[p].rest)

(* Every step leaves it so.                                                   *)
LEMMA RestsKept ==
    ASSUME Rests, NEW p \in Proc, NEW b, NEW d, NEW rest,
           OneRecordALine(rest), Became(p, b, d, rest)
    PROVE  Rests'
<1>1. ASSUME NEW q \in Proc PROVE OneRecordALine(job'[q].rest)
    BY DEF Rests, Became
<1> QED
    BY <1>1 DEF Rests, OneRecordALine

(* A call that returned has nothing left to pull.                             *)
LEMMA RestsReturned ==
    ASSUME Typed, Rests, NEW p \in Proc, Returned(p)
    PROVE  Rests'
<1>1. Became(p, <<>>, {}, {})
    BY ReturnedBecame
<1>2. OneRecordALine({})
    BY DEF OneRecordALine
<1> QED
    BY ONLY Rests, p \in Proc, <1>1, <1>2, RestsKept

(* Every step keeps the types.                                                *)
LEMMA NextTyped ==
    ASSUME Typed, Rests, Next
    PROVE  Typed' /\ Rests'
<1>0. ASSUME job' = job PROVE Rests'
    BY <1>0 DEF Rests, OneRecordALine
<1>1. ASSUME NEW p \in Proc, Push(p) PROVE Typed' /\ Rests'
    <2>0. OneRecordALine(job[p].rest)
        BY DEF Rests
    <2>1. CASE StartPush(p)
        <3>1. Typed' /\ Became(p, job[p].batch, job[p].doomed, job[p].rest)
            BY ONLY Typed, p \in Proc, <2>1, StartPushEffect
        <3> QED
            BY ONLY Rests, p \in Proc, <2>0, <3>1, RestsKept
    <2>2. CASE OpenPush(p)
        <3>1. /\ Typed'
              /\ Returned(p) \/ Became(p, job[p].batch, job[p].doomed, job[p].rest)
            BY ONLY Typed, p \in Proc, <2>2, OpenPushEffect
        <3> QED
            BY ONLY Typed, Rests, p \in Proc, <2>0, <3>1, RestsKept, RestsReturned
    <2>3. CASE TakeLock(p, "lock push", "push")
        <3>1. "push" \in PCs
            BY DEF PCs
        <3>2. Typed' /\ job' = job
            BY ONLY Typed, p \in Proc, <2>3, <3>1, TakeLockEffect
        <3> QED
            BY ONLY <1>0, <3>2
    <2>4. CASE PutEntry(p)
        <3>1. Typed' /\ \E b : Became(p, b, job[p].doomed, job[p].rest)
            BY ONLY Typed, p \in Proc, <2>4, PutEntryEffect
        <3> QED
            BY ONLY Rests, p \in Proc, <2>0, <3>1, RestsKept
    <2>5. CASE Publish(p, "push", "anchor")
        <3>1. "anchor" \in PCs
            BY DEF PCs
        <3>2. Typed' /\ Became(p, <<>>, job[p].doomed, job[p].rest)
            BY ONLY Typed, p \in Proc, <2>5, <3>1, PublishEffect
        <3> QED
            BY ONLY Rests, p \in Proc, <2>0, <3>2, RestsKept
    <2>6. CASE WriteAnchor(p)
        BY ONLY Typed, Rests, p \in Proc, <2>6, WriteAnchorEffect, RestsReturned
    <2> QED
        BY ONLY <1>1, <2>1, <2>2, <2>3, <2>4, <2>5, <2>6 DEF Push
<1>2. ASSUME NEW p \in Proc, SharedGC(p) PROVE Typed' /\ Rests'
    <2>0. OneRecordALine(job[p].rest)
        BY DEF Rests
    <2>1. CASE StartGC(p)
        <3>1. Typed' /\ \E b, d : Became(p, b, d, job[p].rest)
            BY ONLY Typed, p \in Proc, <2>1, StartGCEffect
        <3> QED
            BY ONLY Rests, p \in Proc, <2>0, <3>1, RestsKept
    <2>2. CASE TakeLock(p, "lock gc", "publish")
        <3>1. "publish" \in PCs
            BY DEF PCs
        <3>2. Typed' /\ job' = job
            BY ONLY Typed, p \in Proc, <2>2, <3>1, TakeLockEffect
        <3> QED
            BY ONLY <1>0, <3>2
    <2>3. CASE Publish(p, "publish", "remove")
        <3>1. "remove" \in PCs
            BY DEF PCs
        <3>2. Typed' /\ Became(p, <<>>, job[p].doomed, job[p].rest)
            BY ONLY Typed, p \in Proc, <2>3, <3>1, PublishEffect
        <3> QED
            BY ONLY Rests, p \in Proc, <2>0, <3>2, RestsKept
    <2>4. CASE RemoveEntry(p)
        <3>1. Typed' /\ \E d : Became(p, job[p].batch, d, job[p].rest)
            BY ONLY Typed, p \in Proc, <2>4, RemoveEntryEffect
        <3> QED
            BY ONLY Rests, p \in Proc, <2>0, <3>1, RestsKept
    <2>5. CASE EndGC(p)
        BY ONLY Typed, Rests, p \in Proc, <2>5, EndGCEffect, RestsReturned
    <2> QED
        BY ONLY <1>2, <2>1, <2>2, <2>3, <2>4, <2>5 DEF SharedGC
<1>3. ASSUME NEW p \in Proc, Pull(p) PROVE Typed' /\ Rests'
    <2>0. OneRecordALine(job[p].rest)
        BY DEF Rests
    <2>1. CASE StartPull(p)
        <3>1. /\ Typed'
              /\ \E rest : OneRecordALine(rest) /\ Became(p, job[p].batch, job[p].doomed, rest)
            BY ONLY Typed, p \in Proc, <2>1, StartPullEffect
        <3> QED
            BY ONLY Rests, p \in Proc, <3>1, RestsKept
    <2>2. CASE PullNext(p)
        <3>1. /\ Typed'
              /\ \/ Returned(p)
                 \/ \E rest : OneRecordALine(rest)
                               /\ Became(p, job[p].batch, job[p].doomed, rest)
            BY ONLY Typed, p \in Proc, <2>0, <2>2, PullNextEffect
        <3> QED
            BY ONLY Typed, Rests, p \in Proc, <3>1, RestsKept, RestsReturned
    <2>3. CASE EndPull(p)
        BY ONLY Typed, Rests, p \in Proc, <2>3, EndPullEffect, RestsReturned
    <2> QED
        BY ONLY <1>3, <2>1, <2>2, <2>3 DEF Pull
<1>4. ASSUME NEW p \in Proc, Tear(p) \/ Die(p) PROVE Typed' /\ Rests'
    <2>1. Typed' /\ Returned(p)
        BY ONLY Typed, p \in Proc, <1>4, TearEffect, DieEffect
    <2> QED
        BY ONLY Typed, Rests, p \in Proc, <2>1, RestsReturned
<1>5. ASSUME NEW h \in Host, Observe(h) \/ Truncate(h) PROVE Typed' /\ Rests'
    BY ONLY Typed, h \in Host, <1>0, <1>5, ObserveEffect, TruncateEffect
<1>6. ASSUME Syncer PROVE Typed' /\ Rests'
    BY ONLY Typed, <1>0, <1>6, SyncChainEffect, SyncEntryEffect DEF Syncer
<1> QED
    BY ONLY Next, <1>1, <1>2, <1>3, <1>4, <1>5, <1>6 DEF Next

(* They hold at the start.                                                    *)
LEMMA InitTyped == Init => Typed /\ Rests
<1> SUFFICES ASSUME Init PROVE Typed /\ Rests
    OBVIOUS
<1>1. Idle \in Job /\ Idle.rest = {} /\ "idle" \in PCs
    BY IdleType DEF Idle, PCs
<1>2. job \in [Proc -> Job] /\ Rests
    BY <1>1 DEF Init, Rests, OneRecordALine
<1>3. entry \in Shelves
    BY DEF Init, Shelves, Entries
<1>4. chain \in Files
    BY DEF Init, Files
<1>5. where \in Wheres /\ local \in Locals /\ anchor \in Anchors /\ lock \in Locks
    BY DEF Init, Wheres, Locals, Anchors, Locks
<1>6. pc \in [Proc -> PCs] /\ calls \in Nat /\ stops \in Nat /\ cuts \in Nat
    BY <1>1 DEF Init
<1> QED
    BY <1>2, <1>3, <1>4, <1>5, <1>6 DEF Typed

(* So they hold always.                                                       *)
LEMMA Typing == Spec => [](Typed /\ Rests)
<1>1. Typed /\ Rests /\ [Next]_vars => (Typed /\ Rests)'
    <2> SUFFICES ASSUME Typed, Rests, [Next]_vars PROVE (Typed /\ Rests)'
        OBVIOUS
    <2>1. CASE Next
        BY ONLY Typed, Rests, <2>1, NextTyped
    <2>2. CASE UNCHANGED vars
        <3>1. /\ job' = job /\ pc' = pc /\ lock' = lock /\ anchor' = anchor
              /\ where' = where /\ entry' = entry /\ chain' = chain /\ local' = local
              /\ calls' = calls /\ stops' = stops /\ cuts' = cuts
            BY <2>2 DEF vars, store, process, counters
        <3> QED
            BY <3>1 DEF Typed, Rests, OneRecordALine
    <2> QED
        BY <2>1, <2>2
<1> QED
    BY <1>1, InitTyped, PTL DEF Spec

(* Every variable keeps its type, whatever is pushed, collected, pulled,      *)
(* synced, cut short or truncated.                                            *)
THEOREM ShareTyping == Spec => []TypeOK
BY Typing, TypedIsTypeOK, PTL

-----------------------------------------------------------------------------
(* What the shared store shows of a revision that is gone. In what follows f  *)
(* is every machine's own chain file, e the entries, w the replicas in use.   *)

Mine == [h \in Host |-> Owned(h)]

(* A prune record names the id, or a chain is broken where one was lost.      *)
ExplainedBy(f, id) ==
    \E h \in Host :
        \/ \E i \in DOMAIN f[h] : f[h][i] = Malformed
        \/ \E i \in DOMAIN Records(f[h]) : id \in Records(f[h])[i].body.pruned

(* The entry a line records was once written in replica r.                    *)
Backed(e, r, l) == l.body.kind = "revision" => e[r][l.body.rev.id].change > 0

(* The inductive invariant. An entry that was removed is explained;           *)
Gone(f, e) ==
    \A r \in Replica, id \in Snapshot :
        e[r][id].change > 0 /\ e[r][id].payload = Absent => ExplainedBy(f, id)

(* one that is recorded was written;                                          *)
Held(f, e, w) ==
    \A h \in Host : \A i \in DOMAIN Records(f[h]) : Backed(e, w[h], Records(f[h])[i])

(* and so is one about to be recorded. A collection has its prune record      *)
(* ready, and when it removes entries the record is out.                      *)
Ready(f, e, r, state, j) ==
    /\ \A k \in DOMAIN j.batch : Backed(e, r, j.batch[k])
    /\ state \in {"lock gc", "publish"} =>
           \E l \in Line : j.batch = <<l>> /\ l.body = Pruning(j.doomed)
    /\ state = "remove" => \A id \in j.doomed : ExplainedBy(f, id)

(* A file that is there was written.                                          *)
Counted(e) ==
    \A r \in Replica, id \in Snapshot : e[r][id].payload # Absent => e[r][id].change > 0

Told ==
    /\ Counted(entry)
    /\ Gone(Mine, entry)
    /\ Held(Mine, entry, where)
    /\ \A p \in Proc : Ready(Mine, entry, Here(p), pc[p], job[p])

Accounted == cuts = 0 => Told

(* From one state to the next: chain files grow by lines whose entries were   *)
(* written, and no entry is written less often than before.                   *)
OwnFiles == [Host -> Seq(Line)]

Grown(f, g, e, w) ==
    \A h \in Host : \E new \in Seq(Line) :
        /\ g[h] = Written(f[h], new)
        /\ \A k \in DOMAIN new : Backed(e, w[h], new[k])

Risen(e, d) == \A r \in Replica, id \in Snapshot : e[r][id].change <= d[r][id].change

(* Every machine's own chain file is a sequence of lines.                     *)
LEMMA MineType ==
    ASSUME Typed
    PROVE  Mine \in OwnFiles /\ \A h \in Host : Mine[h] = Owned(h)
<1>1. chain \in [Replica -> [Host -> Seq(Line)]] /\ where \in [Host -> Replica]
    BY DEF Typed, Files, Wheres
<1>2. ASSUME NEW h \in Host PROVE Owned(h) \in Seq(Line)
    BY ONLY <1>1, h \in Host DEF Owned
<1> QED
    BY ONLY <1>2 DEF Mine, OwnFiles

(* An explanation stays.                                                      *)
LEMMA ExplainedStays ==
    ASSUME NEW f \in OwnFiles, NEW g, NEW e, NEW w, Grown(f, g, e, w),
           NEW id, ExplainedBy(f, id)
    PROVE  ExplainedBy(g, id)
<1>1. PICK h \in Host :
          \/ \E i \in DOMAIN f[h] : f[h][i] = Malformed
          \/ \E i \in DOMAIN Records(f[h]) : id \in Records(f[h])[i].body.pruned
    BY DEF ExplainedBy
<1>2. PICK new \in Seq(Line) : g[h] = Written(f[h], new)
    BY DEF Grown
<1>3. f[h] \in Seq(Line)
    BY DEF OwnFiles
<1>4. CASE \E i \in DOMAIN f[h] : f[h][i] = Malformed
    <2>1. PICK i \in DOMAIN f[h] : f[h][i] = Malformed
        BY <1>4
    <2>2. i \in DOMAIN g[h] /\ g[h][i] = Malformed
        BY ONLY <1>2, <1>3, <2>1, MalformedStays
    <2> QED
        BY <2>2 DEF ExplainedBy
<1>5. CASE \E i \in DOMAIN Records(f[h]) : id \in Records(f[h])[i].body.pruned
    <2>1. PICK i \in DOMAIN Records(f[h]) : id \in Records(f[h])[i].body.pruned
        BY <1>5
    <2>2. i \in DOMAIN Records(g[h]) /\ Records(g[h])[i] = Records(f[h])[i]
        BY ONLY <1>2, <1>3, <2>1, AppendedRecords
    <2>3. id \in Records(g[h])[i].body.pruned
        BY ONLY <2>1, <2>2
    <2> QED
        BY <2>2, <2>3 DEF ExplainedBy
<1> QED
    BY <1>1, <1>4, <1>5

(* So does what backs a record.                                               *)
LEMMA BackedStays ==
    ASSUME NEW e \in Shelves, NEW d \in Shelves, Risen(e, d), NEW r \in Replica,
           NEW l \in Line, Backed(e, r, l)
    PROVE  Backed(d, r, l)
<1> SUFFICES ASSUME l.body.kind = "revision" PROVE d[r][l.body.rev.id].change > 0
    BY DEF Backed
<1>1. l.body \in Body
    BY DEF Line
<1>2. l.body.rev \in Revision
    BY <1>1 DEF Body
<1>3. PICK id \in Snapshot : id = l.body.rev.id
    BY <1>2 DEF Revision
<1>4. e[r][id] \in Entries /\ d[r][id] \in Entries
    BY DEF Shelves
<1>5. e[r][id].change \in Nat /\ d[r][id].change \in Nat
    BY ONLY <1>4 DEF Entries
<1>6. e[r][id].change <= d[r][id].change
    BY DEF Risen
<1>7. e[r][id].change > 0
    BY <1>3 DEF Backed
<1>8. d[r][id].change > 0
    BY ONLY <1>5, <1>6, <1>7
<1> QED
    BY <1>3, <1>8

(* The records of a file that has grown are backed.                           *)
LEMMA HeldStays ==
    ASSUME NEW f \in OwnFiles, NEW g, NEW e \in Shelves, NEW d \in Shelves,
           NEW w \in Wheres, Grown(f, g, d, w), Risen(e, d), Held(f, e, w)
    PROVE  Held(g, d, w)
<1> SUFFICES ASSUME NEW h \in Host, NEW i \in DOMAIN Records(g[h])
             PROVE  Backed(d, w[h], Records(g[h])[i])
    BY DEF Held
<1>1. PICK new \in Seq(Line) :
          g[h] = Written(f[h], new) /\ \A k \in DOMAIN new : Backed(d, w[h], new[k])
    BY DEF Grown
<1>2. f[h] \in Seq(Line) /\ w[h] \in Replica
    BY DEF OwnFiles, Wheres
<1>3. /\ i \in DOMAIN Records(f[h]) => Records(g[h])[i] = Records(f[h])[i]
      /\ i \notin DOMAIN Records(f[h]) =>
             \/ Records(g[h])[i] \in {Partial, Malformed}
             \/ \E k \in DOMAIN new : Records(g[h])[i] = new[k]
    BY ONLY <1>1, <1>2, i \in DOMAIN Records(g[h]), AppendedRecords
<1>4. CASE i \in DOMAIN Records(f[h])
    <2>1. Records(f[h]) \in Seq(Line)
        BY ONLY <1>2, RecordsType
    <2>2. Records(f[h])[i] \in Line
        BY ONLY <1>4, <2>1
    <2>3. Backed(e, w[h], Records(f[h])[i])
        BY <1>4 DEF Held
    <2>4. Backed(d, w[h], Records(f[h])[i])
        BY ONLY e \in Shelves, d \in Shelves, Risen(e, d), <1>2, <2>2, <2>3, BackedStays
    <2> QED
        BY ONLY <1>3, <1>4, <2>4
<1>5. CASE Records(g[h])[i] \in {Partial, Malformed}
    <2>1. Partial.body.kind # "revision" /\ Malformed.body.kind # "revision"
        BY DEF Partial, Malformed, Fragment
    <2> QED
        BY ONLY <1>5, <2>1 DEF Backed
<1>6. CASE \E k \in DOMAIN new : Records(g[h])[i] = new[k]
    BY ONLY <1>1, <1>6
<1> QED
    BY ONLY <1>3, <1>4, <1>5, <1>6

(* A process that did nothing is as ready as before.                          *)
LEMMA ReadyStays ==
    ASSUME NEW f \in OwnFiles, NEW g, NEW e \in Shelves, NEW d \in Shelves,
           NEW w, Grown(f, g, d, w), Risen(e, d), NEW r \in Replica,
           NEW state, NEW j, j.batch \in Seq(Line), Ready(f, e, r, state, j)
    PROVE  Ready(g, d, r, state, j)
<1>1. ASSUME NEW k \in DOMAIN j.batch PROVE Backed(d, r, j.batch[k])
    <2>1. j.batch[k] \in Line
        OBVIOUS
    <2>2. Backed(e, r, j.batch[k])
        BY DEF Ready
    <2> QED
        BY ONLY e \in Shelves, d \in Shelves, Risen(e, d), r \in Replica, <2>1, <2>2, BackedStays
<1>2. ASSUME state = "remove", NEW id \in j.doomed PROVE ExplainedBy(g, id)
    <2>1. ExplainedBy(f, id)
        BY <1>2 DEF Ready
    <2> QED
        BY ONLY f \in OwnFiles, Grown(f, g, d, w), <2>1, ExplainedStays
<1> QED
    BY <1>1, <1>2 DEF Ready

(* Only the records to be written and the entries to be removed matter.       *)
LEMMA ReadyAlike ==
    ASSUME NEW f, NEW e, NEW r, NEW from, NEW to, NEW j, NEW k, Ready(f, e, r, from, j),
           k.batch = j.batch, k.doomed = j.doomed,
           \/ to = from
           \/ to \notin {"lock gc", "publish", "remove"}
           \/ from = "lock gc" /\ to = "publish"
    PROVE  Ready(f, e, r, to, k)
BY DEF Ready

(* A call with nothing to write.                                              *)
LEMMA ReadyEmpty ==
    ASSUME NEW f, NEW e, NEW r, NEW state, NEW j, j.batch = <<>>,
           state \notin {"lock gc", "publish"},
           state = "remove" => \A id \in j.doomed : ExplainedBy(f, id)
    PROVE  Ready(f, e, r, state, j)
<1>1. DOMAIN j.batch = {}
    BY ONLY j.batch = <<>>
<1> QED
    BY <1>1 DEF Ready

(* A file nobody wrote has grown by nothing.                                  *)
LEMMA SameGrown ==
    ASSUME NEW c \in Seq(Line)
    PROVE  <<>> \in Seq(Line) /\ c = Written(c, <<>>) /\ DOMAIN <<>> = {}
<1>1. c \o <<>> = c
    BY ConcatEmptySeq
<1> QED
    BY <1>1 DEF Written

(* So chains nobody wrote have grown,                                         *)
LEMMA MineGrown ==
    ASSUME Typed, NEW e, NEW w
    PROVE  Grown(Mine, Mine, e, w)
<1>1. ASSUME NEW h \in Host PROVE Mine[h] \in Seq(Line)
    BY MineType DEF OwnFiles
<1> QED
    BY <1>1, SameGrown DEF Grown

(* and entries nobody wrote are written as often as before.                   *)
LEMMA RisenSame ==
    ASSUME Typed
    PROVE  Risen(entry, entry)
<1>1. ASSUME NEW r \in Replica, NEW id \in Snapshot
      PROVE  entry[r][id].change <= entry[r][id].change
    <2>1. entry[r][id] \in Entries
        BY DEF Typed, Shelves
    <2> QED
        BY ONLY <2>1 DEF Entries
<1> QED
    BY <1>1 DEF Risen

(* The process p alone did something.                                         *)
Others(p) == \A q \in Proc \ {p} : pc'[q] = pc[q] /\ job'[q] = job[q]

(* What a step has to show.                                                   *)
LEMMA ToldKept ==
    ASSUME Typed, Typed', Told, where' = where,
           Grown(Mine, Mine', entry', where), Risen(entry, entry'), Counted(entry'),
           \A r \in Replica, id \in Snapshot :
               entry'[r][id].change > 0 /\ entry'[r][id].payload = Absent =>
                   \/ \E q \in Replica : entry'[r][id] = entry[q][id]
                   \/ ExplainedBy(Mine', id),
           \A p \in Proc :
               \/ pc'[p] = pc[p] /\ job'[p] = job[p]
               \/ Ready(Mine', entry', Here(p), pc'[p], job'[p])
    PROVE  Told'
<1>1. Mine \in OwnFiles /\ entry \in Shelves /\ entry' \in Shelves /\ where \in Wheres
    BY MineType DEF Typed
<1>2. Held(Mine', entry', where)
    BY ONLY <1>1, Told, Grown(Mine, Mine', entry', where), Risen(entry, entry'), HeldStays DEF Told
<1>3. Gone(Mine', entry')
    <2> SUFFICES ASSUME NEW r \in Replica, NEW id \in Snapshot,
                        entry'[r][id].change > 0, entry'[r][id].payload = Absent
                 PROVE  ExplainedBy(Mine', id)
        BY DEF Gone
    <2>1. CASE ExplainedBy(Mine', id)
        BY <2>1
    <2>2. CASE \E q \in Replica : entry'[r][id] = entry[q][id]
        <3>1. PICK q \in Replica : entry'[r][id] = entry[q][id]
            BY <2>2
        <3>2. entry[q][id].change > 0 /\ entry[q][id].payload = Absent
            BY <3>1
        <3>3. ExplainedBy(Mine, id)
            BY <3>2 DEF Told, Gone
        <3> QED
            BY ONLY <1>1, <3>3, Grown(Mine, Mine', entry', where), ExplainedStays
    <2> QED
        BY <2>1, <2>2
<1>4. ASSUME NEW p \in Proc PROVE Ready(Mine', entry', Here(p), pc'[p], job'[p])
    <2>1. CASE pc'[p] = pc[p] /\ job'[p] = job[p]
        <3>1. Ready(Mine, entry, Here(p), pc[p], job[p])
            BY DEF Told
        <3>2. job[p].batch \in Seq(Line) /\ Here(p) \in Replica
            BY Places
        <3>3. Ready(Mine', entry', Here(p), pc[p], job[p])
            BY ONLY <1>1, <3>1, <3>2, Grown(Mine, Mine', entry', where), Risen(entry, entry'),
                    ReadyStays
        <3> QED
            BY <2>1, <3>3
    <2> QED
        BY <2>1
<1>5. ASSUME NEW p \in Proc PROVE Here(p)' = Here(p)
    BY DEF Here
<1>6. ASSUME NEW p \in Proc PROVE Ready(Mine', entry', Here(p)', pc'[p], job'[p])
    BY <1>4, <1>5
<1> QED
    BY <1>2, <1>3, <1>6 DEF Told

(* The same when neither a chain in use nor an entry changed.                 *)
LEMMA ToldUntouched ==
    ASSUME Typed, Typed', Told, where' = where, entry' = entry,
           \A h \in Host : Owned(h)' = Owned(h),
           \A p \in Proc :
               \/ pc'[p] = pc[p] /\ job'[p] = job[p]
               \/ Ready(Mine, entry, Here(p), pc'[p], job'[p])
    PROVE  Told'
<1>1. Mine' = Mine
    BY DEF Mine
<1>3. Grown(Mine, Mine', entry', where)
    BY <1>1, MineGrown
<1>4. Risen(entry, entry')
    BY RisenSame
<1>5. Counted(entry')
    BY DEF Told
<1>6. \A p \in Proc :
          \/ pc'[p] = pc[p] /\ job'[p] = job[p]
          \/ Ready(Mine', entry', Here(p), pc'[p], job'[p])
    BY <1>1
<1> QED
    BY <1>3, <1>4, <1>5, <1>6, ToldKept

-----------------------------------------------------------------------------
(* Every step keeps it. *)

(* What a step leaves of the other calls, and makes of its own.               *)
LEMMA OtherCalls ==
    ASSUME Typed, NEW p \in Proc, NEW to, pc' = [pc EXCEPT ![p] = to],
           NEW b, NEW d, NEW rest, Became(p, b, d, rest)
    PROVE  /\ pc'[p] = to /\ job'[p].batch = b /\ job'[p].doomed = d
           /\ Others(p)
<1>1. pc \in [Proc -> PCs]
    BY DEF Typed
<1> QED
    BY <1>1 DEF Became, Others

(* A call that leaves the store alone and goes on, or returns.                *)
LEMMA CallTold ==
    ASSUME Typed, Typed', Told, where' = where, entry' = entry, chain' = chain,
           NEW p \in Proc, Others(p),
           Ready(Mine, entry, Here(p), pc'[p], job'[p])
    PROVE  Told'
<1>1. \A h \in Host : Owned(h)' = Owned(h)
    BY DEF Owned
<1>2. \A q \in Proc :
          \/ pc'[q] = pc[q] /\ job'[q] = job[q]
          \/ Ready(Mine, entry, Here(q), pc'[q], job'[q])
    BY DEF Others
<1> QED
    BY ONLY Typed, Typed', Told, where' = where, entry' = entry, <1>1, <1>2, ToldUntouched

(* A call that returns.                                                       *)
LEMMA ReturnTold ==
    ASSUME Typed, Typed', Told, where' = where, entry' = entry, chain' = chain,
           NEW p \in Proc, Returned(p)
    PROVE  Told'
<1>1. Became(p, <<>>, {}, {}) /\ pc' = [pc EXCEPT ![p] = "idle"]
    BY ReturnedBecame
<1>2. pc'[p] = "idle" /\ job'[p].batch = <<>> /\ Others(p)
    BY ONLY Typed, p \in Proc, <1>1, OtherCalls
<1>3. Ready(Mine, entry, Here(p), pc'[p], job'[p])
    <2>1. PICK j : j = job'[p]
        OBVIOUS
    <2>2. PICK state : state = pc'[p]
        OBVIOUS
    <2>3. j.batch = <<>> /\ state = "idle"
        BY <1>2, <2>1, <2>2
    <2>4. state \notin {"lock gc", "publish"} /\ state # "remove"
        BY <2>3
    <2>5. Ready(Mine, entry, Here(p), state, j)
        BY ONLY <2>3, <2>4, ReadyEmpty
    <2> QED
        BY ONLY <2>1, <2>2, <2>5
<1> QED
    BY ONLY Typed, Typed', Told, where' = where, entry' = entry, chain' = chain,
            p \in Proc, <1>2, <1>3, CallTold

(* A call that goes on with the same records and entries.                     *)
LEMMA GoOnTold ==
    ASSUME Typed, Typed', Told, where' = where, entry' = entry, chain' = chain,
           NEW p \in Proc, NEW to, pc' = [pc EXCEPT ![p] = to],
           NEW rest, Became(p, job[p].batch, job[p].doomed, rest),
           \/ to = pc[p]
           \/ to \notin {"lock gc", "publish", "remove"}
           \/ pc[p] = "lock gc" /\ to = "publish"
    PROVE  Told'
<1>1. /\ pc'[p] = to /\ Others(p)
      /\ job'[p].batch = job[p].batch /\ job'[p].doomed = job[p].doomed
    <2>1. pc \in [Proc -> PCs]
        BY DEF Typed
    <2> QED
        BY ONLY <2>1, p \in Proc, pc' = [pc EXCEPT ![p] = to],
                Became(p, job[p].batch, job[p].doomed, rest)
           DEF Became, Others
<1>2. Ready(Mine, entry, Here(p), pc[p], job[p])
    BY DEF Told
<1>3. Ready(Mine, entry, Here(p), to, job'[p])
    BY ONLY <1>1, <1>2, ReadyAlike,
            \/ to = pc[p]
            \/ to \notin {"lock gc", "publish", "remove"}
            \/ pc[p] = "lock gc" /\ to = "publish"
<1>4. Ready(Mine, entry, Here(p), pc'[p], job'[p])
    BY ONLY <1>1, <1>3
<1> QED
    BY ONLY Typed, Typed', Told, where' = where, entry' = entry, chain' = chain,
            p \in Proc, <1>1, <1>4, CallTold

(* TakeLock changes no variable of its call.                                  *)
LEMMA TakeLockTold ==
    ASSUME Typed, Typed', Told, NEW p \in Proc, NEW from, NEW to \in PCs,
           TakeLock(p, from, to),
           to = "push" \/ (from = "lock gc" /\ to = "publish")
    PROVE  Told'
<1>1. /\ job' = job /\ pc[p] = from /\ pc' = [pc EXCEPT ![p] = to]
      /\ where' = where /\ entry' = entry /\ chain' = chain
    BY ONLY Typed, p \in Proc, to \in PCs, TakeLock(p, from, to), TakeLockEffect
<1>2. Became(p, job[p].batch, job[p].doomed, job[p].rest)
    BY <1>1 DEF Became
<1>3. \/ to \notin {"lock gc", "publish", "remove"}
      \/ pc[p] = "lock gc" /\ to = "publish"
    BY <1>1
<1> QED
    BY ONLY Typed, Typed', Told, p \in Proc, <1>1, <1>2, <1>3, GoOnTold

(* appendChain, whole or cut short, of records whose entries were written.    *)
LEMMA AppendTold ==
    ASSUME Typed, Typed', Told, where' = where, entry' = entry, NEW p \in Proc,
           NEW new \in Seq(Line), SetChain(p, Written(Chain(p), new)),
           \A k \in DOMAIN new : Backed(entry, Here(p), new[k]),
           Others(p), Ready(Mine', entry, Here(p), pc'[p], job'[p])
    PROVE  Told'
<1>1. Mine \in OwnFiles /\ \A h \in Host : Mine[h] = Owned(h)
    BY MineType
<1>2. \A h \in Host : Mine'[h] = Owned(h)'
    BY DEF Mine
<1>3. HostOf[p] \in Host /\ Chain(p) \in Seq(Line) /\ Here(p) = where[HostOf[p]]
    BY Places DEF Here
<1>4. Written(Chain(p), new) \in Seq(Line)
    BY ONLY <1>3, new \in Seq(Line), AppendedLines
<1>5. /\ Owned(HostOf[p])' = Written(Chain(p), new)
      /\ Owned(HostOf[p]) = Chain(p)
      /\ \A h \in Host \ {HostOf[p]} : Owned(h)' = Owned(h)
    BY ONLY Typed, p \in Proc, where' = where, SetChain(p, Written(Chain(p), new)), <1>4,
            SetChainEffect
<1>6. ASSUME NEW h \in Host
      PROVE  \E n \in Seq(Line) :
                 /\ Mine'[h] = Written(Mine[h], n)
                 /\ \A k \in DOMAIN n : Backed(entry', where[h], n[k])
    <2>1. CASE h = HostOf[p]
        <3>1. Mine'[h] = Written(Mine[h], new)
            BY ONLY <1>1, <1>2, <1>3, <1>5, <2>1
        <3>2. \A k \in DOMAIN new : Backed(entry', where[h], new[k])
            BY <1>3, <2>1
        <3> QED
            BY <3>1, <3>2
    <2>2. CASE h # HostOf[p]
        <3>1. Mine'[h] = Mine[h] /\ Mine[h] \in Seq(Line)
            BY <1>1, <1>2, <1>5, <2>2 DEF OwnFiles
        <3>2. <<>> \in Seq(Line) /\ Mine[h] = Written(Mine[h], <<>>) /\ DOMAIN <<>> = {}
            BY ONLY <3>1, SameGrown
        <3> QED
            BY <3>1, <3>2
    <2> QED
        BY <2>1, <2>2
<1>7. Grown(Mine, Mine', entry', where)
    BY ONLY <1>6 DEF Grown
<1>8. Risen(entry, entry')
    BY RisenSame
<1>9. Counted(entry')
    BY DEF Told
<1>10. \A q \in Proc :
           \/ pc'[q] = pc[q] /\ job'[q] = job[q]
           \/ Ready(Mine', entry', Here(q), pc'[q], job'[q])
    BY DEF Others
<1>11. \A r \in Replica, id \in Snapshot :
           entry'[r][id].change > 0 /\ entry'[r][id].payload = Absent =>
               \/ \E q \in Replica : entry'[r][id] = entry[q][id]
               \/ ExplainedBy(Mine', id)
    OBVIOUS
<1> QED
    BY ONLY Typed, Typed', Told, where' = where, <1>7, <1>8, <1>9, <1>10, <1>11, ToldKept

(* A death within the append.                                                 *)
LEMMA TearTold ==
    ASSUME Typed, Typed', Told, NEW p \in Proc, Tear(p)
    PROVE  Told'
<1>1. Returned(p) /\ where' = where /\ entry' = entry
    BY ONLY Typed, p \in Proc, Tear(p), TearEffect
<1>2. PICK new \in Seq(Line) :
          /\ SetChain(p, Written(Chain(p), new))
          /\ \A i \in DOMAIN new :
                 new[i] = Partial \/ \E k \in DOMAIN job[p].batch : new[i] = job[p].batch[k]
    BY ONLY Typed, p \in Proc, Tear(p), TearEffect
<1>3. \A k \in DOMAIN job[p].batch : Backed(entry, Here(p), job[p].batch[k])
    BY DEF Told, Ready
<1>4. Backed(entry, Here(p), Partial)
    BY DEF Backed, Partial, Fragment
<1>5. \A i \in DOMAIN new : Backed(entry, Here(p), new[i])
    BY ONLY <1>2, <1>3, <1>4
<1>6. Became(p, <<>>, {}, {}) /\ pc' = [pc EXCEPT ![p] = "idle"]
    BY ONLY Typed, p \in Proc, <1>1, ReturnedBecame
<1>7. pc'[p] = "idle" /\ job'[p].batch = <<>> /\ Others(p)
    BY ONLY Typed, p \in Proc, <1>6, OtherCalls
<1>8. Ready(Mine', entry, Here(p), pc'[p], job'[p])
    <2>1. pc'[p] \notin {"lock gc", "publish"} /\ pc'[p] # "remove"
        BY <1>7
    <2> QED
        BY ONLY <1>7, <2>1, ReadyEmpty
<1> QED
    BY ONLY Typed, Typed', Told, p \in Proc, <1>1, <1>2, <1>5, <1>7, <1>8, AppendTold

(* A push appends what it wrote; a collection says what it will remove.       *)
LEMMA PublishTold ==
    ASSUME Typed, Typed', Told, NEW p \in Proc, NEW from, NEW to \in PCs,
           Publish(p, from, to),
           to = "anchor" \/ (from = "publish" /\ to = "remove")
    PROVE  Told'
<1>1. /\ Became(p, <<>>, job[p].doomed, job[p].rest)
      /\ pc[p] = from /\ pc' = [pc EXCEPT ![p] = to]
      /\ SetChain(p, Written(Chain(p), job[p].batch))
      /\ where' = where /\ entry' = entry
    BY ONLY Typed, p \in Proc, to \in PCs, Publish(p, from, to), PublishEffect
<1>2. /\ pc'[p] = to /\ Others(p)
      /\ job'[p].batch = <<>> /\ job'[p].doomed = job[p].doomed
    <2>1. Became(p, <<>>, job[p].doomed, job[p].rest) /\ pc' = [pc EXCEPT ![p] = to]
        BY ONLY <1>1
    <2>2. pc \in [Proc -> PCs]
        BY DEF Typed
    <2> QED
        BY ONLY p \in Proc, <2>1, <2>2 DEF Became, Others
<1>3. /\ \A k \in DOMAIN job[p].batch : Backed(entry, Here(p), job[p].batch[k])
      /\ pc[p] = "publish" =>
             \E l \in Line : job[p].batch = <<l>> /\ l.body = Pruning(job[p].doomed)
    BY DEF Told, Ready
<1>4. Chain(p) \in Seq(Line) /\ job[p].batch \in Seq(Line) /\ HostOf[p] \in Host
    BY Places
<1>5. ASSUME to = "remove", NEW id \in job[p].doomed PROVE ExplainedBy(Mine', id)
    <2>1. PICK l \in Line : job[p].batch = <<l>> /\ l.body = Pruning(job[p].doomed)
        BY <1>1, <1>3, <1>5
    <2>2. l.body.kind = "prune" /\ l.body.pruned = job[p].doomed
        BY <2>1 DEF Pruning
    <2>3. PICK c : c = Written(Chain(p), <<l>>)
        OBVIOUS
    <2>4. \/ \E i \in DOMAIN Records(c) : Records(c)[i] = l
          \/ \E i \in DOMAIN c : c[i] = Malformed
        BY ONLY <1>4, <2>2, <2>3, PruneAppended
    <2>5. Mine'[HostOf[p]] = c
        <3>1. c \in Seq(Line)
            BY ONLY <1>4, <2>1, <2>3, AppendedLines
        <3>2. SetChain(p, c)
            BY <1>1, <2>1, <2>3
        <3>3. Owned(HostOf[p])' = c
            BY ONLY Typed, p \in Proc, <1>1, <3>1, <3>2, SetChainEffect
        <3> QED
            BY <1>4, <3>3 DEF Mine
    <2>6. PICK f : f = Mine'
        OBVIOUS
    <2>7. \/ \E i \in DOMAIN f[HostOf[p]] : f[HostOf[p]][i] = Malformed
          \/ \E i \in DOMAIN Records(f[HostOf[p]]) : id \in Records(f[HostOf[p]])[i].body.pruned
        BY ONLY <2>2, <2>4, <2>5, <2>6, id \in job[p].doomed
    <2>8. ExplainedBy(f, id)
        BY ONLY <1>4, <2>7 DEF ExplainedBy
    <2> QED
        BY ONLY <2>6, <2>8
<1>6. Ready(Mine', entry, Here(p), pc'[p], job'[p])
    <2>1. pc'[p] \notin {"lock gc", "publish"}
        BY <1>2
    <2>2. pc'[p] = "remove" => \A id \in job'[p].doomed : ExplainedBy(Mine', id)
        BY ONLY <1>2, <1>5
    <2> QED
        BY ONLY <1>2, <2>1, <2>2, ReadyEmpty
<1> QED
    BY ONLY Typed, Typed', Told, p \in Proc, <1>1, <1>2, <1>3, <1>4, <1>6, AppendTold

(* An entry is written, or removed once its removal is explained.             *)
LEMMA EntryTold ==
    ASSUME Typed, Typed', Told, where' = where, chain' = chain, NEW p \in Proc,
           NEW id \in Snapshot, NEW x \in Build \cup {Absent}, SetEntry(p, id, x),
           x = Absent => ExplainedBy(Mine, id),
           Others(p), Ready(Mine, entry', Here(p), pc'[p], job'[p])
    PROVE  Told'
<1>1. Mine' = Mine
    BY DEF Mine, Owned
<1>2. Grown(Mine, Mine', entry', where)
    BY ONLY Typed, <1>1, MineGrown
<1>3. /\ entry'[Here(p)][id].payload = x
      /\ entry'[Here(p)][id].change > 0
      /\ entry[Here(p)][id].change <= entry'[Here(p)][id].change
      /\ \A r \in Replica, i \in Snapshot :
             \/ entry'[r][i] = entry[r][i]
             \/ r = Here(p) /\ i = id
    BY ONLY Typed, p \in Proc, id \in Snapshot, x \in Build \cup {Absent}, SetEntry(p, id, x),
            SetEntryEffect
<1>4. Risen(entry, entry')
    <2> SUFFICES ASSUME NEW r \in Replica, NEW i \in Snapshot
                 PROVE  entry[r][i].change <= entry'[r][i].change
        BY DEF Risen
    <2>1. entry[r][i].change <= entry[r][i].change
        BY RisenSame DEF Risen
    <2> QED
        BY ONLY <1>3, <2>1, r \in Replica, i \in Snapshot
<1>5. Counted(entry')
    <2> SUFFICES ASSUME NEW r \in Replica, NEW i \in Snapshot, entry'[r][i].payload # Absent
                 PROVE  entry'[r][i].change > 0
        BY DEF Counted
    <2>1. entry[r][i].payload # Absent => entry[r][i].change > 0
        BY DEF Told, Counted
    <2> QED
        BY ONLY <1>3, <2>1, r \in Replica, i \in Snapshot, entry'[r][i].payload # Absent
<1>6. \A r \in Replica, i \in Snapshot :
          entry'[r][i].change > 0 /\ entry'[r][i].payload = Absent =>
              \/ \E q \in Replica : entry'[r][i] = entry[q][i]
              \/ ExplainedBy(Mine', i)
    BY ONLY <1>1, <1>3, x = Absent => ExplainedBy(Mine, id)
<1>7. \A q \in Proc :
          \/ pc'[q] = pc[q] /\ job'[q] = job[q]
          \/ Ready(Mine', entry', Here(q), pc'[q], job'[q])
    BY <1>1 DEF Others
<1> QED
    BY ONLY Typed, Typed', Told, where' = where, <1>2, <1>4, <1>5, <1>6, <1>7, ToldKept

(* The entry of a new record was written, now or before.                      *)
LEMMA PutEntryTold ==
    ASSUME Typed, Typed', Told, NEW p \in Proc, PutEntry(p)
    PROVE  Told'
<1>1. pc[p] = "push" /\ pc' = pc /\ where' = where /\ chain' = chain
    BY ONLY Typed, p \in Proc, PutEntry(p), PutEntryEffect
<1>2. PICK r \in Revision, l \in Line :
          /\ l.body = Observed(r)
          /\ Became(p, Append(job[p].batch, l), job[p].doomed, job[p].rest)
          /\ \/ entry[Here(p)][r.id].payload # Absent /\ entry' = entry
             \/ SetEntry(p, r.id, r.build)
    BY ONLY Typed, p \in Proc, PutEntry(p), PutEntryEffect
<1>3. pc'[p] = "push" /\ Others(p) /\ job'[p].batch = Append(job[p].batch, l)
    BY <1>1, <1>2 DEF Became, Others
<1>4. /\ r.id \in Snapshot /\ r.build \in Build /\ r.build \in Build \cup {Absent}
      /\ r.build # Absent
    BY ConstantsOK DEF Revision
<1>5. Here(p) \in Replica /\ job[p].batch \in Seq(Line)
    BY Places
<1>6. PICK id \in Snapshot : id = r.id
    BY <1>4
<1>7. entry'[Here(p)][id].change > 0
    <2>1. CASE entry[Here(p)][id].payload # Absent /\ entry' = entry
        BY <1>5, <2>1 DEF Told, Counted
    <2>2. CASE SetEntry(p, id, r.build)
        BY ONLY Typed, p \in Proc, id \in Snapshot, <1>4, <2>2, SetEntryEffect
    <2> QED
        BY <1>2, <1>6, <2>1, <2>2
<1>8. l.body.rev = r
    BY <1>2 DEF Observed
<1>9. Backed(entry', Here(p), l)
    BY ONLY <1>6, <1>7, <1>8 DEF Backed
<1>10. ASSUME Risen(entry, entry') PROVE Ready(Mine, entry', Here(p), pc'[p], job'[p])
    <2>1. ASSUME NEW k \in DOMAIN job'[p].batch PROVE Backed(entry', Here(p), job'[p].batch[k])
        <3>1. PICK b \in Seq(Line) : b = job[p].batch
            BY <1>5
        <3>2. PICK c : c = Append(b, l)
            OBVIOUS
        <3>3. \/ k \in DOMAIN b /\ c[k] = b[k]
              \/ c[k] = l
            <4>1. Len(b) \in Nat /\ DOMAIN b = 1..Len(b)
                BY LenProperties
            <4>2. /\ c \in Seq(Line) /\ Len(c) = Len(b) + 1 /\ c[Len(b) + 1] = l
                  /\ \A i \in 1..Len(b) : c[i] = b[i]
                BY ONLY <3>2, l \in Line, b \in Seq(Line), AppendProperties
            <4>3. k \in 1..(Len(b) + 1)
                BY <1>3, <3>1, <3>2, <4>2, LenProperties
            <4> QED
                BY ONLY <4>1, <4>2, <4>3
        <3>4. ASSUME k \in DOMAIN b PROVE Backed(entry', Here(p), b[k])
            <4>1. b[k] \in Line
                BY <3>4
            <4>2. Backed(entry, Here(p), b[k])
                BY <3>1, <3>4 DEF Told, Ready
            <4>3. entry \in Shelves /\ entry' \in Shelves
                BY DEF Typed
            <4> QED
                BY ONLY <1>5, <1>10, <4>1, <4>2, <4>3, BackedStays
        <3>5. job'[p].batch[k] = c[k]
            BY ONLY <1>3, <3>1, <3>2
        <3> QED
            BY ONLY <1>9, <3>3, <3>4, <3>5
    <2> QED
        BY ONLY <1>3, <2>1 DEF Ready
<1>11. CASE entry' = entry
    <2>1. Ready(Mine, entry', Here(p), pc'[p], job'[p])
        BY ONLY Typed, <1>10, <1>11, RisenSame
    <2> QED
        BY ONLY Typed, Typed', Told, p \in Proc, <1>1, <1>3, <1>11, <2>1, CallTold
<1>12. CASE SetEntry(p, id, r.build)
    <2>1. Risen(entry, entry')
        <3>1. /\ entry[Here(p)][id].change <= entry'[Here(p)][id].change
              /\ \A t \in Replica, i \in Snapshot :
                     \/ entry'[t][i] = entry[t][i]
                     \/ t = Here(p) /\ i = id
            BY ONLY Typed, p \in Proc, id \in Snapshot, <1>4, <1>12, SetEntryEffect
        <3>2. Risen(entry, entry)
            BY RisenSame
        <3> QED
            BY ONLY <3>1, <3>2 DEF Risen
    <2>2. Ready(Mine, entry', Here(p), pc'[p], job'[p])
        BY ONLY <1>10, <2>1
    <2> QED
        BY ONLY Typed, Typed', Told, p \in Proc, id \in Snapshot,
                <1>1, <1>3, <1>4, <1>12, <2>2, EntryTold
<1> QED
    BY ONLY <1>2, <1>6, <1>11, <1>12

(* A collection that starts has its prune record ready.                       *)
LEMMA StartGCTold ==
    ASSUME Typed, Typed', Told, NEW p \in Proc, StartGC(p)
    PROVE  Told'
<1>1. /\ pc' = [pc EXCEPT ![p] = "lock gc"]
      /\ where' = where /\ entry' = entry /\ chain' = chain
    BY ONLY Typed, p \in Proc, StartGC(p), StartGCEffect
<1>2. PICK doomed \in Dooms, l \in Line :
          l.body = Pruning(doomed) /\ Became(p, <<l>>, doomed, job[p].rest)
    BY ONLY Typed, p \in Proc, StartGC(p), StartGCEffect
<1>3. pc'[p] = "lock gc" /\ Others(p) /\ job'[p].batch = <<l>> /\ job'[p].doomed = doomed
    <2>1. pc \in [Proc -> PCs]
        BY DEF Typed
    <2> QED
        BY ONLY p \in Proc, <1>1, <1>2, <2>1 DEF Became, Others
<1>4. Backed(entry, Here(p), l)
    <2>1. l.body.kind = "prune"
        BY <1>2 DEF Pruning
    <2> QED
        BY ONLY <2>1 DEF Backed
<1>5. \A k \in DOMAIN <<l>> : <<l>>[k] = l
    OBVIOUS
<1>6. \A k \in DOMAIN job'[p].batch : Backed(entry, Here(p), job'[p].batch[k])
    BY ONLY <1>3, <1>4, <1>5
<1>7. \E m \in Line : job'[p].batch = <<m>> /\ m.body = Pruning(job'[p].doomed)
    BY ONLY <1>2, <1>3
<1>8. Ready(Mine, entry, Here(p), pc'[p], job'[p])
    BY ONLY <1>3, <1>6, <1>7 DEF Ready
<1> QED
    BY ONLY Typed, Typed', Told, p \in Proc, <1>1, <1>3, <1>8, CallTold

(* Every entry a collection removes is explained.                             *)
LEMMA RemoveEntryTold ==
    ASSUME Typed, Typed', Told, NEW p \in Proc, RemoveEntry(p)
    PROVE  Told'
<1>1. pc[p] = "remove" /\ pc' = pc /\ where' = where /\ chain' = chain
    BY ONLY Typed, p \in Proc, RemoveEntry(p), RemoveEntryEffect
<1>2. PICK id \in job[p].doomed :
          /\ entry' = entry \/ SetEntry(p, id, Absent)
          /\ Became(p, job[p].batch, job[p].doomed \ {id}, job[p].rest)
    BY ONLY Typed, p \in Proc, RemoveEntry(p), RemoveEntryEffect
<1>3. /\ pc'[p] = "remove" /\ Others(p)
      /\ job'[p].batch = job[p].batch /\ job'[p].doomed = job[p].doomed \ {id}
    BY <1>1, <1>2 DEF Became, Others
<1>4. /\ \A k \in DOMAIN job[p].batch : Backed(entry, Here(p), job[p].batch[k])
      /\ \A i \in job[p].doomed : ExplainedBy(Mine, i)
    BY <1>1 DEF Told, Ready
<1>5. id \in Snapshot /\ Absent \in Build \cup {Absent} /\ ExplainedBy(Mine, id)
    BY <1>4, Places
<1>6. Here(p) \in Replica /\ job[p].batch \in Seq(Line)
    BY Places
<1>7. ASSUME Risen(entry, entry') PROVE Ready(Mine, entry', Here(p), pc'[p], job'[p])
    <2>1. entry \in Shelves /\ entry' \in Shelves
        BY DEF Typed
    <2>2. ASSUME NEW k \in DOMAIN job[p].batch PROVE Backed(entry', Here(p), job[p].batch[k])
        <3>1. job[p].batch[k] \in Line
            BY <1>6
        <3>2. Backed(entry, Here(p), job[p].batch[k])
            BY <1>4
        <3> QED
            BY ONLY <1>6, <1>7, <2>1, <3>1, <3>2, BackedStays
    <2>3. \A k \in DOMAIN job'[p].batch : Backed(entry', Here(p), job'[p].batch[k])
        BY ONLY <1>3, <2>2
    <2>4. \A i \in job'[p].doomed : ExplainedBy(Mine, i)
        BY ONLY <1>3, <1>4
    <2> QED
        BY ONLY <1>3, <2>3, <2>4 DEF Ready
<1>8. CASE entry' = entry
    <2>1. Ready(Mine, entry', Here(p), pc'[p], job'[p])
        BY ONLY Typed, <1>7, <1>8, RisenSame
    <2> QED
        BY ONLY Typed, Typed', Told, p \in Proc, <1>1, <1>3, <1>8, <2>1, CallTold
<1>9. CASE SetEntry(p, id, Absent)
    <2>1. Risen(entry, entry')
        <3>1. /\ entry[Here(p)][id].change <= entry'[Here(p)][id].change
              /\ \A t \in Replica, i \in Snapshot :
                     \/ entry'[t][i] = entry[t][i]
                     \/ t = Here(p) /\ i = id
            BY ONLY Typed, p \in Proc, <1>5, <1>9, SetEntryEffect
        <3>2. Risen(entry, entry)
            BY RisenSame
        <3> QED
            BY ONLY <3>1, <3>2 DEF Risen
    <2>2. Ready(Mine, entry', Here(p), pc'[p], job'[p])
        BY ONLY <1>7, <2>1
    <2> QED
        BY ONLY Typed, Typed', Told, p \in Proc, <1>1, <1>3, <1>5, <1>9, <2>2, EntryTold
<1> QED
    BY ONLY <1>2, <1>8, <1>9

(* The syncer brings only what another replica has, and never an older file.  *)
LEMMA SyncEntryTold ==
    ASSUME Typed, Typed', Told, NEW r \in Replica, NEW q \in Replica, NEW id \in Snapshot,
           SyncEntry(r, q, id)
    PROVE  Told'
<1>1. /\ entry'[r][id] = entry[q][id]
      /\ entry[r][id].change <= entry[q][id].change
      /\ \A t \in Replica, i \in Snapshot :
             \/ entry'[t][i] = entry[t][i]
             \/ t = r /\ i = id
      /\ job' = job /\ pc' = pc /\ where' = where /\ chain' = chain
    BY ONLY Typed, r \in Replica, q \in Replica, id \in Snapshot, SyncEntry(r, q, id),
            SyncEntryEffect
<1>2. Mine' = Mine
    BY <1>1 DEF Mine, Owned
<1>3. Grown(Mine, Mine', entry', where)
    BY ONLY Typed, <1>2, MineGrown
<1>4. Risen(entry, entry')
    <2>1. Risen(entry, entry)
        BY RisenSame
    <2> QED
        BY ONLY <1>1, <2>1 DEF Risen
<1>5. Counted(entry')
    <2>1. Counted(entry)
        BY DEF Told
    <2> QED
        BY ONLY <1>1, <2>1, q \in Replica DEF Counted
<1>6. \A t \in Replica, i \in Snapshot :
          entry'[t][i].change > 0 /\ entry'[t][i].payload = Absent =>
              \/ \E s \in Replica : entry'[t][i] = entry[s][i]
              \/ ExplainedBy(Mine', i)
    BY ONLY <1>1, q \in Replica
<1>7. \A p \in Proc :
          \/ pc'[p] = pc[p] /\ job'[p] = job[p]
          \/ Ready(Mine', entry', Here(p), pc'[p], job'[p])
    BY ONLY <1>1
<1> QED
    BY ONLY Typed, Typed', Told, <1>1, <1>3, <1>4, <1>5, <1>6, <1>7, ToldKept

(* Every step but a truncation.                                               *)
LEMMA NextTold ==
    ASSUME Typed, Rests, Typed', Told, Next, cuts' = 0
    PROVE  Told'
<1>0. {"push", "anchor", "publish", "remove"} \subseteq PCs
    BY DEF PCs
<1>1. ASSUME NEW p \in Proc, Push(p) PROVE Told'
    <2>1. CASE StartPush(p)
        <3>1. /\ Became(p, job[p].batch, job[p].doomed, job[p].rest)
              /\ pc' = [pc EXCEPT ![p] = "open"]
              /\ where' = where /\ entry' = entry /\ chain' = chain
            BY ONLY Typed, p \in Proc, <2>1, StartPushEffect
        <3>2. PICK to : to = "open"
            OBVIOUS
        <3>3. pc' = [pc EXCEPT ![p] = to] /\ to \notin {"lock gc", "publish", "remove"}
            BY ONLY <3>1, <3>2
        <3> QED
            BY ONLY Typed, Typed', Told, p \in Proc, <3>1, <3>3, GoOnTold
    <2>2. CASE OpenPush(p)
        <3>1. /\ where' = where /\ entry' = entry /\ chain' = chain
              /\ \/ Returned(p)
                 \/ /\ Became(p, job[p].batch, job[p].doomed, job[p].rest)
                    /\ pc' = [pc EXCEPT ![p] = "lock push"]
            BY ONLY Typed, p \in Proc, <2>2, OpenPushEffect
        <3>2. CASE Returned(p)
            BY ONLY Typed, Typed', Told, p \in Proc, <3>1, <3>2, ReturnTold
        <3>3. CASE /\ Became(p, job[p].batch, job[p].doomed, job[p].rest)
                   /\ pc' = [pc EXCEPT ![p] = "lock push"]
            BY ONLY Typed, Typed', Told, p \in Proc, <3>1, <3>3, GoOnTold
        <3> QED
            BY ONLY <3>1, <3>2, <3>3
    <2>3. CASE TakeLock(p, "lock push", "push")
        BY ONLY Typed, Typed', Told, p \in Proc, <1>0, <2>3, TakeLockTold
    <2>4. CASE PutEntry(p)
        BY ONLY Typed, Typed', Told, p \in Proc, <2>4, PutEntryTold
    <2>5. CASE Publish(p, "push", "anchor")
        BY ONLY Typed, Typed', Told, p \in Proc, <1>0, <2>5, PublishTold
    <2>6. CASE WriteAnchor(p)
        BY ONLY Typed, Typed', Told, p \in Proc, <2>6, WriteAnchorEffect, ReturnTold
    <2> QED
        BY ONLY <1>1, <2>1, <2>2, <2>3, <2>4, <2>5, <2>6 DEF Push
<1>2. ASSUME NEW p \in Proc, SharedGC(p) PROVE Told'
    <2>1. CASE StartGC(p)
        BY ONLY Typed, Typed', Told, p \in Proc, <2>1, StartGCTold
    <2>2. CASE TakeLock(p, "lock gc", "publish")
        BY ONLY Typed, Typed', Told, p \in Proc, <1>0, <2>2, TakeLockTold
    <2>3. CASE Publish(p, "publish", "remove")
        BY ONLY Typed, Typed', Told, p \in Proc, <1>0, <2>3, PublishTold
    <2>4. CASE RemoveEntry(p)
        BY ONLY Typed, Typed', Told, p \in Proc, <2>4, RemoveEntryTold
    <2>5. CASE EndGC(p)
        BY ONLY Typed, Typed', Told, p \in Proc, <2>5, EndGCEffect, ReturnTold
    <2> QED
        BY ONLY <1>2, <2>1, <2>2, <2>3, <2>4, <2>5 DEF SharedGC
<1>3. ASSUME NEW p \in Proc, Pull(p) PROVE Told'
    <2>1. CASE StartPull(p)
        <3>1. /\ pc' = [pc EXCEPT ![p] = "pull"]
              /\ where' = where /\ entry' = entry /\ chain' = chain
              /\ \E rest : Became(p, job[p].batch, job[p].doomed, rest)
            BY ONLY Typed, p \in Proc, <2>1, StartPullEffect
        <3>2. PICK rest : Became(p, job[p].batch, job[p].doomed, rest)
            BY ONLY <3>1
        <3>3. PICK to : to = "pull"
            OBVIOUS
        <3>4. pc' = [pc EXCEPT ![p] = to] /\ to \notin {"lock gc", "publish", "remove"}
            BY ONLY <3>1, <3>3
        <3> QED
            BY ONLY Typed, Typed', Told, p \in Proc, <3>1, <3>2, <3>4, GoOnTold
    <2>2. CASE PullNext(p)
        <3>0. OneRecordALine(job[p].rest)
            BY DEF Rests
        <3>1. /\ where' = where /\ entry' = entry /\ chain' = chain
              /\ \/ Returned(p)
                 \/ pc' = pc /\ \E rest : Became(p, job[p].batch, job[p].doomed, rest)
            BY ONLY Typed, p \in Proc, <2>2, <3>0, PullNextEffect
        <3>2. CASE Returned(p)
            BY ONLY Typed, Typed', Told, p \in Proc, <3>1, <3>2, ReturnTold
        <3>3. CASE pc' = pc /\ \E rest : Became(p, job[p].batch, job[p].doomed, rest)
            <4>1. PICK to : to = pc[p]
                OBVIOUS
            <4>2. pc' = [pc EXCEPT ![p] = to]
                BY <3>3, <4>1 DEF Typed
            <4> QED
                BY ONLY Typed, Typed', Told, p \in Proc, <3>1, <3>3, <4>1, <4>2, GoOnTold
        <3> QED
            BY ONLY <3>1, <3>2, <3>3
    <2>3. CASE EndPull(p)
        BY ONLY Typed, Typed', Told, p \in Proc, <2>3, EndPullEffect, ReturnTold
    <2> QED
        BY ONLY <1>3, <2>1, <2>2, <2>3 DEF Pull
<1>4. ASSUME NEW p \in Proc, Tear(p) PROVE Told'
    BY ONLY Typed, Typed', Told, p \in Proc, <1>4, TearTold
<1>5. ASSUME NEW p \in Proc, Die(p) PROVE Told'
    BY ONLY Typed, Typed', Told, p \in Proc, <1>5, DieEffect, ReturnTold
<1>6. ASSUME NEW h \in Host, Observe(h) PROVE Told'
    <2>1. job' = job /\ pc' = pc /\ where' = where /\ entry' = entry /\ chain' = chain
        BY ONLY Typed, h \in Host, <1>6, ObserveEffect
    <2>2. \A g \in Host : Owned(g)' = Owned(g)
        BY <2>1 DEF Owned
    <2> QED
        BY ONLY Typed, Typed', Told, <2>1, <2>2, ToldUntouched
<1>7. ASSUME NEW h \in Host, Truncate(h) PROVE FALSE
    BY ONLY Typed, h \in Host, cuts' = 0, <1>7, TruncateEffect
<1>8. ASSUME NEW r \in Replica, NEW h \in Host, SyncChain(r, h) PROVE Told'
    <2>1. /\ job' = job /\ pc' = pc /\ where' = where /\ entry' = entry
          /\ \A g \in Host : Owned(g)' = Owned(g)
        BY ONLY Typed, r \in Replica, h \in Host, <1>8, SyncChainEffect
    <2> QED
        BY ONLY Typed, Typed', Told, <2>1, ToldUntouched
<1>9. ASSUME Syncer PROVE Told'
    BY ONLY Typed, Typed', Told, <1>8, <1>9, SyncEntryTold DEF Syncer
<1> QED
    BY ONLY Next, <1>1, <1>2, <1>3, <1>4, <1>5, <1>6, <1>7, <1>9 DEF Next

(* Nothing is recorded at the start.                                          *)
LEMMA InitTold == Init => Told
<1> SUFFICES ASSUME Init PROVE Told
    OBVIOUS
<1>1. Typed
    BY InitTyped
<1>2. /\ \A r \in Replica, id \in Snapshot :
             entry[r][id].payload = Absent /\ entry[r][id].change = 0
      /\ \A p \in Proc : pc[p] = "idle" /\ job[p].batch = <<>>
    BY DEF Init, Idle
<1>3. Counted(entry) /\ Gone(Mine, entry)
    BY ONLY <1>2 DEF Counted, Gone
<1>4. ASSUME NEW h \in Host PROVE DOMAIN Records(Mine[h]) = {}
    <2>1. Owned(h) = <<>>
        BY DEF Init, Owned
    <2>2. Mine[h] = <<>>
        BY <2>1 DEF Mine
    <2>3. Records(<<>>) = <<>>
        BY DEF Records, EndsTorn
    <2>4. DOMAIN <<>> = {}
        OBVIOUS
    <2> QED
        BY ONLY <2>2, <2>3, <2>4
<1>5. Held(Mine, entry, where)
    BY ONLY <1>4 DEF Held
<1>6. ASSUME NEW p \in Proc PROVE Ready(Mine, entry, Here(p), pc[p], job[p])
    <2>1. pc[p] \notin {"lock gc", "publish"} /\ pc[p] # "remove" /\ job[p].batch = <<>>
        BY <1>2
    <2> QED
        BY ONLY <2>1, ReadyEmpty
<1> QED
    BY <1>3, <1>5, <1>6 DEF Told

(* Truncations are not forgotten.                                             *)
LEMMA CutsRise ==
    ASSUME Typed, Rests, [Next]_vars, cuts' = 0
    PROVE  cuts = 0
<1>1. cuts \in Nat
    BY DEF Typed
<1>2. CASE Next
    <2>1. cuts' = cuts \/ cuts' = cuts + 1
        <3>1. ASSUME NEW p \in Proc, Push(p) PROVE cuts' = cuts
            BY <3>1 DEF Push, StartPush, OpenPush, TakeLock, PutEntry, Publish, WriteAnchor, counters
        <3>2. ASSUME NEW p \in Proc, SharedGC(p) PROVE cuts' = cuts
            BY <3>2 DEF SharedGC, StartGC, TakeLock, Publish, RemoveEntry, EndGC, counters
        <3>3. ASSUME NEW p \in Proc, Pull(p) \/ Tear(p) \/ Die(p) PROVE cuts' = cuts
            BY <3>3 DEF Pull, StartPull, PullNext, EndPull, Tear, Die, counters
        <3>4. ASSUME NEW h \in Host, Observe(h) \/ Truncate(h)
              PROVE  cuts' = cuts \/ cuts' = cuts + 1
            BY <3>4 DEF Observe, Truncate, counters
        <3>5. Syncer => cuts' = cuts
            BY DEF Syncer, SyncChain, SyncEntry, counters
        <3> QED
            BY ONLY <1>2, <3>1, <3>2, <3>3, <3>4, <3>5 DEF Next
    <2> QED
        BY ONLY <1>1, <2>1, cuts' = 0
<1>3. CASE UNCHANGED vars
    BY <1>3 DEF vars, counters
<1> QED
    BY <1>2, <1>3

(* The inductive invariant holds always.                                      *)
LEMMA Accounting == Spec => [](Typed /\ Rests /\ Accounted)
<1>1. Typed /\ Rests /\ Accounted /\ (Typed /\ Rests)' /\ [Next]_vars => Accounted'
    <2> SUFFICES ASSUME Typed, Rests, Accounted, Typed', [Next]_vars, cuts' = 0 PROVE Told'
        BY DEF Accounted
    <2>1. Told
        BY CutsRise DEF Accounted
    <2>2. CASE Next
        BY ONLY Typed, Rests, Typed', cuts' = 0, <2>1, <2>2, NextTold
    <2>3. CASE UNCHANGED vars
        <3>1. job' = job /\ pc' = pc /\ where' = where /\ entry' = entry /\ chain' = chain
            BY <2>3 DEF vars, store, process
        <3>2. \A g \in Host : Owned(g)' = Owned(g)
            BY <3>1 DEF Owned
        <3> QED
            BY ONLY Typed, Typed', <2>1, <3>1, <3>2, ToldUntouched
    <2> QED
        BY <2>2, <2>3
<1>2. Init => Accounted
    BY InitTold DEF Accounted
<1> QED
    BY <1>1, <1>2, Typing, PTL DEF Spec

(* docs/HISTORY.md, "Retention that stays honest": a revision that a chain    *)
(* records is held by its machine's replica, or a prune record names it, or a *)
(* chain is visibly broken, as long as nobody truncates one.                  *)
THEOREM RetentionIsHonest == Spec => []NothingGoesSilently
<1>1. Typed /\ Accounted => NothingGoesSilently
    <2> SUFFICES ASSUME Typed, Told, NEW h \in Host, NEW a \in RevisionsOf(Published, h),
                        entry[where[h]][a.rev.id].payload = Absent
                 PROVE  \/ a.rev.id \in PrunedIn(Published)
                        \/ \E g \in Host : Malformed \in {Owned(g)[i] : i \in DOMAIN Owned(g)}
        BY DEF NothingGoesSilently, Accounted
    <2>1. \A g \in Host : Published[g] = Records(Owned(g)) /\ Mine[g] = Owned(g)
        BY DEF Published, Mine
    <2>2. PICK i \in DOMAIN Records(Owned(h)) :
              /\ Records(Owned(h))[i].body.kind = "revision"
              /\ a.rev = Records(Owned(h))[i].body.rev
        BY <2>1 DEF RevisionsOf
    <2>3. Owned(h) \in Seq(Line) /\ where[h] \in Replica
        BY MineType, <2>1 DEF OwnFiles, Typed, Wheres
    <2>4. PICK l \in Line : l = Records(Owned(h))[i]
        BY <2>3, RecordsType
    <2>5. a.rev.id \in Snapshot
        <3>1. l.body \in Body /\ l.body.kind = "revision"
            BY <2>2, <2>4 DEF Line
        <3>2. l.body.rev \in Revision
            BY ONLY <3>1 DEF Body
        <3> QED
            BY <2>2, <2>4, <3>2 DEF Revision
    <2>6. entry[where[h]][a.rev.id].change > 0
        <3>1. Backed(entry, where[h], l)
            BY <2>1, <2>4 DEF Told, Held
        <3> QED
            BY ONLY <2>2, <2>4, <3>1 DEF Backed
    <2>7. ExplainedBy(Mine, a.rev.id)
        BY <2>3, <2>5, <2>6 DEF Told, Gone
    <2>8. PICK g \in Host :
              \/ \E k \in DOMAIN Mine[g] : Mine[g][k] = Malformed
              \/ \E k \in DOMAIN Records(Mine[g]) : a.rev.id \in Records(Mine[g])[k].body.pruned
        BY ONLY <2>7 DEF ExplainedBy
    <2>9. CASE \E k \in DOMAIN Mine[g] : Mine[g][k] = Malformed
        BY ONLY <2>1, <2>9, g \in Host
    <2>10. CASE \E k \in DOMAIN Records(Mine[g]) : a.rev.id \in Records(Mine[g])[k].body.pruned
        BY ONLY <2>1, <2>10, g \in Host DEF PrunedIn
    <2> QED
        BY ONLY <2>8, <2>9, <2>10
<1> QED
    BY <1>1, Accounting, PTL

=============================================================================
