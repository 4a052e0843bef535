---------------------------- MODULE HistoryShare ----------------------------
(***************************************************************************)
(* The shared architecture history: a directory of content-addressed entry *)
(* files and one hash-chained record file per pushing machine, kept in     *)
(* step between machines by a file syncer.                                 *)
(*                                                                         *)
(*   internal/history/share.go   Push, Pull, SharedGC and their helpers    *)
(*   pkg/history/share.go        OpenShare, LoadPayload, VerifyShare       *)
(*                                                                         *)
(* A host is a machine: a source name, a local history, an anchor file and *)
(* a chain file of its own. A replica is one copy of the shared directory; *)
(* hosts on one replica share it as over NFS. The syncer is external.      *)
(***************************************************************************)
EXTENDS Integers, Sequences, FiniteSets

CONSTANTS
    Host,        \* machines, each with a source name of its own
    Proc,        \* enola processes
    HostOf,      \* the machine a process runs on
    Rank,        \* the order of the source names
    Replica,     \* copies of the shared directory
    Snapshot,    \* snapshot ids
    Build,       \* what a payload says of the build that wrote it
    Taken,       \* the revisions each machine may record by itself
    NoRevision,  \* the revision of a line that records none
    Absent,      \* "no file", not in Build
    Unlocked,    \* processes whose filelock.Acquire fails
    Policies,    \* the SharedGCOptions in use
    TornWrites,  \* whether an append to a chain may be cut short
    MaxCalls,    \* bound on the calls started
    MaxStops,    \* bound on the calls that die half-way
    MaxCuts      \* bound on the chains truncated by somebody else

Revision == [id: Snapshot, at: Nat, build: Build]

ASSUME ConstantsOK ==
    /\ HostOf \in [Proc -> Host]
    /\ Rank \in [Host -> Nat]
    /\ \A g, h \in Host : Rank[g] = Rank[h] => g = h
    /\ Taken \in [Host -> SUBSET Revision]
    /\ Absent \notin Build
    /\ Unlocked \subseteq Proc
    /\ Policies \subseteq [last: Nat, since: Nat]
    /\ TornWrites \in BOOLEAN
    /\ MaxCalls \in Nat
    /\ MaxStops \in Nat
    /\ MaxCuts \in Nat

Free == "free"

ASSUME FreeIsNoProcess == Free \notin Proc

VARIABLES
    where,    \* the replica each machine works on
    entry,    \* entries/ of each replica: the payload of each file
    chain,    \* chains/ of each replica: the lines of each file
    local,    \* each machine's local history: the revisions it can push
    anchor,   \* each machine's share-state head file
    lock,     \* the holder of each chain file's lock, or Free
    pc,       \* what each process does next
    job,      \* the variables of a running call
    calls, stops, cuts

store == <<entry, chain>>
process == <<lock, pc, job>>
counters == <<calls, stops, cuts>>
vars == <<where, store, local, anchor, process, counters>>

-----------------------------------------------------------------------------
(* Chain files. *)

\* What a chain line says: a revision, or the ids a collection removed. A line
\* cut short is "partial"; one completed by a later append is "malformed".
Body == [kind: {"revision"}, rev: Revision, pruned: {{}}]
        \cup [kind: {"prune", "partial", "malformed"}, rev: {NoRevision},
              pruned: SUBSET Snapshot]

Observed(r) == [kind |-> "revision", rev |-> r, pruned |-> {}]

\* Mutant: writes a kind of record that no reader knows.
PruningUnknown(ids) == [kind |-> "pruned", rev |-> NoRevision, pruned |-> ids]

Pruning(ids) == [kind |-> "prune", rev |-> NoRevision, pruned |-> ids]

Fragment(kind) == [kind |-> kind, rev |-> NoRevision, pruned |-> {}]

\* A line carries the hash of its predecessor. A hash stands for all it commits
\* to: the bodies of the chain up to and including its line.
Line == [prev: Seq(Body), body: Body]

ShareRecordHash(l) == Append(l.prev, l.body)

Partial == [prev |-> <<>>, body |-> Fragment("partial")]
Malformed == [prev |-> <<>>, body |-> Fragment("malformed")]

EndsTorn(c) == c # <<>> /\ c[Len(c)].body.kind = "partial"

\* The lines a reader takes as records: it drops a last line cut short.
Records(c) == IF EndsTorn(c) THEN SubSeq(c, 1, Len(c) - 1) ELSE c

HeadAt(c, i) == IF i = 0 THEN <<>> ELSE ShareRecordHash(c[i])

ChainHead(c) == HeadAt(Records(c), Len(Records(c)))

Links(c, i) ==
    /\ c[i].body.kind # "malformed"
    /\ c[i].prev = HeadAt(c, i - 1)

\* readChain returns no error.
Verifies(c) == \A i \in 1..Len(Records(c)) : Links(Records(c), i)

\* The file after an append: the first new line completes one cut short.
Written(c, new) ==
    IF new = <<>> \/ ~EndsTorn(c) THEN c \o new
    ELSE SubSeq(c, 1, Len(c) - 1)
         \o <<IF new[1] = Partial THEN Partial ELSE Malformed>>
         \o SubSeq(new, 2, Len(new))

\* The revision records in a set of chain files, with the order of
\* RevisionsFor and of RecordFor.
Record == [src: Host, line: Nat, rev: Revision]

RevisionsOf(chains, h) ==
    {[src |-> h, line |-> i, rev |-> chains[h][i].body.rev] :
        i \in {j \in DOMAIN chains[h] : chains[h][j].body.kind = "revision"}}

RevisionsIn(chains) == UNION {RevisionsOf(chains, h) : h \in Host}

PrunedIn(chains) ==
    UNION {UNION {chains[h][i].body.pruned : i \in DOMAIN chains[h]} : h \in Host}

\* recordBefore
Before(a, b) ==
    \/ a.rev.at < b.rev.at
    \/ a.rev.at = b.rev.at /\ Rank[a.src] < Rank[b.src]
    \/ a.rev.at = b.rev.at /\ a.src = b.src /\ a.line < b.line

First(R) == CHOOSE a \in R : \A b \in R \ {a} : Before(a, b)

\* RecordFor: the first record of an id, files in the order of their names.
RecordFor(R, id) ==
    CHOOSE a \in {b \in R : b.rev.id = id} :
        \A b \in R : b.rev.id = id =>
            \/ Rank[a.src] < Rank[b.src]
            \/ a.src = b.src /\ a.line <= b.line

\* The revisions a collection keeps, each counted where it was first recorded.
Kept(R, policy) ==
    LET Ids == {a.rev.id : a \in R}
        FirstOf(id) == First({a \in R : a.rev.id = id})
    IN  {id \in Ids :
            \/ Cardinality({j \in Ids : Before(FirstOf(id), FirstOf(j))})
                   < policy.last
            \/ policy.since # 0 /\ FirstOf(id).rev.at >= policy.since}

Chains(r) == [h \in Host |-> Records(chain[r][h])]

\* OpenShare succeeds.
Opens(r) == \A h \in Host : Verifies(chain[r][h])

-----------------------------------------------------------------------------
(* State. *)

Idle == [todo |-> {}, batch |-> <<>>, head |-> <<>>, doomed |-> {},
         opened |-> {}, rest |-> {}]

Init ==
    /\ where \in [Host -> Replica]
    /\ entry = [r \in Replica |->
                   [id \in Snapshot |-> [payload |-> Absent, change |-> 0]]]
    /\ chain = [r \in Replica |-> [h \in Host |-> <<>>]]
    /\ local = [h \in Host |-> {}]
    /\ anchor = [h \in Host |-> <<>>]
    /\ lock = [h \in Host |-> Free]
    /\ pc = [p \in Proc |-> "idle"]
    /\ job = [p \in Proc |-> Idle]
    /\ calls = 0
    /\ stops = 0
    /\ cuts = 0

Here(p) == where[HostOf[p]]
Chain(p) == chain[Here(p)][HostOf[p]]
Entry(p, id) == entry[Here(p)][id]

Step(p, from, to) == pc[p] = from /\ pc' = [pc EXCEPT ![p] = to]

Begin(p, to) ==
    /\ calls < MaxCalls
    /\ calls' = calls + 1
    /\ Step(p, "idle", to)

\* A call returns: its deferred Release runs and its variables are gone.
Returned(p) ==
    /\ pc' = [pc EXCEPT ![p] = "idle"]
    /\ job' = [job EXCEPT ![p] = Idle]
    /\ lock' = [h \in Host |-> IF lock[h] = p THEN Free ELSE lock[h]]

Set(p, field, value) == job' = [job EXCEPT ![p][field] = value]

\* One entry file is written or removed in the process's replica.
SetEntry(p, id, payload) ==
    entry' = [entry EXCEPT ![Here(p)][id] =
                 [payload |-> payload, change |-> @.change + 1]]

SetChain(p, c) == chain' = [chain EXCEPT ![Here(p)][HostOf[p]] = c]

-----------------------------------------------------------------------------
(* The local history, whose own behaviour is HistoryStore. *)

\* enola records a snapshot of this machine's tree.
Observe(h) ==
    /\ \E r \in Taken[h] \ local[h] :
           local' = [local EXCEPT ![h] = @ \cup {r}]
    /\ UNCHANGED <<where, store, anchor, process, counters>>

-----------------------------------------------------------------------------
(* history push. *)

\* Read the local log. A revision whose contents were thinned, or that is of a
\* dirty tree, is passed over.
StartPush(p) ==
    /\ Begin(p, "open")
    /\ \E offered \in SUBSET local[HostOf[p]] : Set(p, "todo", offered)
    /\ UNCHANGED <<where, store, local, anchor, lock, stops, cuts>>

AnchorHolds(p) ==
    \/ anchor[HostOf[p]] = <<>>
    \/ \E i \in 1..Len(Records(Chain(p))) :
           ShareRecordHash(Chain(p)[i]) = anchor[HostOf[p]]

\* Mutant: opens the store without looking for the record it remembers.
OpenPushUnanchored(p) ==
    LET own == {a.rev.id : a \in RevisionsOf(Chains(Here(p)), HostOf[p])}
    IN  /\ pc[p] = "open"
        /\ IF Opens(Here(p))
           THEN /\ pc' = [pc EXCEPT ![p] = "lock push"]
                /\ job' = [job EXCEPT
                              ![p].todo = {r \in @ : r.id \notin own},
                              ![p].head = ChainHead(Chain(p))]
                /\ UNCHANGED lock
           ELSE Returned(p)
        /\ UNCHANGED <<where, store, local, anchor, counters>>

\* OpenShare, checkPushAnchor, and the ids and the head of the own chain.
OpenPush(p) ==
    LET own == {a.rev.id : a \in RevisionsOf(Chains(Here(p)), HostOf[p])}
    IN  /\ pc[p] = "open"
        /\ IF Opens(Here(p)) /\ AnchorHolds(p)
           THEN /\ pc' = [pc EXCEPT ![p] = "lock push"]
                /\ job' = [job EXCEPT
                              ![p].todo = {r \in @ : r.id \notin own},
                              ![p].head = ChainHead(Chain(p))]
                /\ UNCHANGED lock
           ELSE Returned(p)
        /\ UNCHANGED <<where, store, local, anchor, counters>>

\* A failed Acquire leaves the call going on without the lock.
TakeLock(p, from, to) ==
    /\ Step(p, from, to)
    /\ IF p \in Unlocked
       THEN UNCHANGED lock
       ELSE /\ lock[HostOf[p]] = Free
            /\ lock' = [lock EXCEPT ![HostOf[p]] = p]
    /\ UNCHANGED <<where, store, local, anchor, job, counters>>

Oldest(R) == CHOOSE r \in R : \A q \in R : r.at <= q.at

\* Mutant: every record of the push is chained to the head the push began with.
PutEntryStaleHead(p) ==
    LET r == Oldest(job[p].todo)
        line == [prev |-> job[p].head, body |-> Observed(r)]
    IN  /\ pc[p] = "push"
        /\ job[p].todo # {}
        /\ IF Entry(p, r.id).payload = Absent
           THEN SetEntry(p, r.id, r.build)
           ELSE UNCHANGED entry
        /\ job' = [job EXCEPT ![p].todo = {q \in @ : q.id # r.id},
                              ![p].batch = Append(@, line)]
        /\ UNCHANGED <<where, chain, local, anchor, lock, pc, counters>>

\* Mutant: records the revision without writing its file.
PutEntryUnwritten(p) ==
    LET r == Oldest(job[p].todo)
        line == [prev |-> job[p].head, body |-> Observed(r)]
    IN  /\ pc[p] = "push"
        /\ job[p].todo # {}
        /\ job' = [job EXCEPT ![p].todo = {q \in @ : q.id # r.id},
                              ![p].batch = Append(@, line),
                              ![p].head = ShareRecordHash(line)]
        /\ UNCHANGED <<where, store, local, anchor, lock, pc, counters>>

\* writeShareEntry: a file that is there is left alone, another is renamed into
\* place. The record is kept for the append.
PutEntry(p) ==
    LET r == Oldest(job[p].todo)
        line == [prev |-> job[p].head, body |-> Observed(r)]
    IN  /\ pc[p] = "push"
        /\ job[p].todo # {}
        /\ IF Entry(p, r.id).payload = Absent
           THEN SetEntry(p, r.id, r.build)
           ELSE UNCHANGED entry
        /\ job' = [job EXCEPT ![p].todo = {q \in @ : q.id # r.id},
                              ![p].batch = Append(@, line),
                              ![p].head = ShareRecordHash(line)]
        /\ UNCHANGED <<where, chain, local, anchor, lock, pc, counters>>

\* appendChain writes every new line at once, or nothing when there is none.
Publish(p, from, to) ==
    /\ Step(p, from, to)
    /\ job[p].todo = {}
    /\ SetChain(p, Written(Chain(p), job[p].batch))
    /\ Set(p, "batch", <<>>)
    /\ UNCHANGED <<where, entry, local, anchor, lock, counters>>

\* The machine dies within that write.
Tear(p) ==
    /\ TornWrites
    /\ stops < MaxStops
    /\ stops' = stops + 1
    /\ \/ pc[p] = "push" /\ job[p].todo = {}
       \/ pc[p] = "publish"
    /\ \E k \in 0..(Len(job[p].batch) - 1) :
           SetChain(p, Written(Chain(p),
                               Append(SubSeq(job[p].batch, 1, k), Partial)))
    /\ Returned(p)
    /\ UNCHANGED <<where, entry, local, anchor, calls, cuts>>

\* Mutant: the head is remembered before the records are appended.
WriteAnchorEarly(p) ==
    \/ /\ pc[p] = "push"
       /\ job[p].todo = {}
       /\ anchor' = [anchor EXCEPT ![HostOf[p]] = job[p].head]
       /\ UNCHANGED <<where, store, local, process, counters>>
    \/ /\ pc[p] = "anchor"
       /\ Returned(p)
       /\ UNCHANGED <<where, store, local, anchor, counters>>

\* writePushAnchor, whether or not the push had anything to say.
WriteAnchor(p) ==
    /\ pc[p] = "anchor"
    /\ anchor' = [anchor EXCEPT ![HostOf[p]] = job[p].head]
    /\ Returned(p)
    /\ UNCHANGED <<where, store, local, counters>>

-----------------------------------------------------------------------------
(* history gc of a shared store. *)

\* OpenShare, the policy, and a Stat of every entry it gives up. The prune
\* record is chained to the head of this opening.
StartGC(p) ==
    /\ Begin(p, "lock gc")
    /\ Opens(Here(p))
    /\ \E policy \in Policies :
           LET R == RevisionsIn(Chains(Here(p)))
               doomed == {id \in {a.rev.id : a \in R} \ Kept(R, policy) :
                             Entry(p, id).payload # Absent}
               line == [prev |-> ChainHead(Chain(p)), body |-> Pruning(doomed)]
           IN  /\ doomed # {}
               /\ job' = [job EXCEPT ![p].doomed = doomed,
                                     ![p].batch = <<line>>]
    /\ UNCHANGED <<where, store, local, anchor, lock, stops, cuts>>

\* Mutant: entries go before the prune record is published.
RemoveEntryEarly(p) ==
    /\ pc[p] \in {"publish", "remove"}
    /\ \E id \in job[p].doomed :
           /\ IF Entry(p, id).payload = Absent
              THEN UNCHANGED entry
              ELSE SetEntry(p, id, Absent)
           /\ Set(p, "doomed", job[p].doomed \ {id})
    /\ UNCHANGED <<where, chain, local, anchor, lock, pc, counters>>

\* os.Remove, one entry after another; the anchor is not written.
RemoveEntry(p) ==
    /\ pc[p] = "remove"
    /\ \E id \in job[p].doomed :
           /\ IF Entry(p, id).payload = Absent
              THEN UNCHANGED entry
              ELSE SetEntry(p, id, Absent)
           /\ Set(p, "doomed", job[p].doomed \ {id})
    /\ UNCHANGED <<where, chain, local, anchor, lock, pc, counters>>

EndGC(p) ==
    /\ pc[p] = "remove"
    /\ job[p].doomed = {}
    /\ Returned(p)
    /\ UNCHANGED <<where, store, local, anchor, counters>>

-----------------------------------------------------------------------------
(* history pull. *)

\* OpenShare, then the local log: the records of what it does not have.
StartPull(p) ==
    LET R == RevisionsIn(Chains(Here(p)))
        have == {r.id : r \in local[HostOf[p]]}
    IN  /\ Begin(p, "pull")
        /\ Opens(Here(p))
        /\ job' = [job EXCEPT ![p].opened = R,
                              ![p].rest = {a \in R : a.rev.id \notin have}]
        /\ UNCHANGED <<where, store, local, anchor, lock, stops, cuts>>

Tampered(payload, R, id) == payload # RecordFor(R, id).rev.build

\* LoadPayload and Append for the next record. A missing payload is reported
\* and passed over; one that is not what its record says ends the pull.
PullNext(p) ==
    LET a == First(job[p].rest)
        payload == Entry(p, a.rev.id).payload
        rest == IF payload = Absent THEN job[p].rest \ {a}
                ELSE {b \in job[p].rest : b.rev.id # a.rev.id}
    IN  /\ pc[p] = "pull"
        /\ job[p].rest # {}
        /\ local' = IF payload = Absent \/ Tampered(payload, job[p].opened, a.rev.id)
                    THEN local
                    ELSE [local EXCEPT ![HostOf[p]] =
                             @ \cup {[a.rev EXCEPT !.build = payload]}]
        /\ IF payload # Absent /\ Tampered(payload, job[p].opened, a.rev.id)
           THEN Returned(p)
           ELSE Set(p, "rest", rest) /\ UNCHANGED <<pc, lock>>
        /\ UNCHANGED <<where, store, anchor, counters>>

EndPull(p) ==
    /\ pc[p] = "pull"
    /\ job[p].rest = {}
    /\ Returned(p)
    /\ UNCHANGED <<where, store, local, anchor, counters>>

-----------------------------------------------------------------------------
(* The world outside. *)

\* A call fails on an error or its process dies. A head file being written is
\* left empty.
Die(p) ==
    /\ pc[p] # "idle"
    /\ stops < MaxStops
    /\ stops' = stops + 1
    /\ \/ UNCHANGED anchor
       \/ pc[p] = "anchor" /\ anchor' = [anchor EXCEPT ![HostOf[p]] = <<>>]
    /\ Returned(p)
    /\ UNCHANGED <<where, store, local, calls, cuts>>

\* The syncer copies one chain file from the machine that writes it, or one
\* entry file that was changed later; two changes side by side go either way.
SyncChain(r, h) ==
    /\ chain[r][h] # chain[where[h]][h]
    /\ chain' = [chain EXCEPT ![r][h] = chain[where[h]][h]]
    /\ UNCHANGED <<where, entry, local, anchor, process, counters>>

SyncEntry(r, q, id) ==
    /\ entry[r][id] # entry[q][id]
    /\ entry[r][id].change <= entry[q][id].change
    /\ entry' = [entry EXCEPT ![r][id] = entry[q][id]]
    /\ UNCHANGED <<where, chain, local, anchor, process, counters>>

\* Somebody takes records off the end of a chain.
Truncate(h) ==
    /\ cuts < MaxCuts
    /\ cuts' = cuts + 1
    /\ \E n \in 0..(Len(chain[where[h]][h]) - 1) :
           chain' = [chain EXCEPT ![where[h]][h] = SubSeq(@, 1, n)]
    /\ UNCHANGED <<where, entry, local, anchor, process, calls, stops>>

-----------------------------------------------------------------------------

Push(p) ==
    \/ StartPush(p)
    \/ OpenPush(p)
    \/ TakeLock(p, "lock push", "push")
    \/ PutEntry(p)
    \/ Publish(p, "push", "anchor")
    \/ WriteAnchor(p)

SharedGC(p) ==
    \/ StartGC(p)
    \/ TakeLock(p, "lock gc", "publish")
    \/ Publish(p, "publish", "remove")
    \/ RemoveEntry(p)
    \/ EndGC(p)

Pull(p) ==
    \/ StartPull(p)
    \/ PullNext(p)
    \/ EndPull(p)

Syncer ==
    \/ \E r \in Replica, h \in Host : SyncChain(r, h)
    \/ \E r, q \in Replica, id \in Snapshot : SyncEntry(r, q, id)

Next ==
    \/ \E p \in Proc : Push(p) \/ SharedGC(p) \/ Pull(p) \/ Tear(p) \/ Die(p)
    \/ \E h \in Host : Observe(h) \/ Truncate(h)
    \/ Syncer

Spec == Init /\ [][Next]_vars

-----------------------------------------------------------------------------
(* Properties. *)

Owned(h) == chain[where[h]][h]

\* The records of every chain as its own machine holds it.
Published == [h \in Host |-> Records(Owned(h))]

\* Every variable keeps its type (one process of a lock at most holds it).
TypeOK ==
    /\ where \in [Host -> Replica]
    /\ entry \in [Replica -> [Snapshot ->
                     [payload: Build \cup {Absent}, change: Nat]]]
    /\ chain \in [Replica -> [Host -> Seq(Line)]]
    /\ local \in [Host -> SUBSET Revision]
    /\ anchor \in [Host -> Seq(Body)]
    /\ lock \in [Host -> Proc \cup {Free}]
    /\ pc \in [Proc -> {"idle", "open", "lock push", "push", "anchor", "lock gc",
                        "publish", "remove", "pull"}]
    /\ job \in [Proc -> [todo: SUBSET Revision, batch: Seq(Line), head: Seq(Body),
                         doomed: SUBSET Snapshot, opened: SUBSET Record,
                         rest: SUBSET Record]]
    /\ calls \in Nat
    /\ stops \in Nat
    /\ cuts \in Nat

\* Two commands of the machine may overlap: a cron entry and a push by hand.
Crowded(h) == \E p, q \in Proc : p # q /\ HostOf[p] = h /\ HostOf[q] = h

\* A record that commits to an earlier record than the one before it.
Forks(c, i) ==
    /\ c[i].body.kind # "malformed"
    /\ \E j \in 0..(i - 1) : c[i].prev = HeadAt(c, j)

\* share.go:159-161, the head read before the chain is locked: no interleaving
\* of pushes, collections, crashes and the syncer breaks a chain, on any replica,
\* where a machine runs one command at a time; where several overlap a chain may
\* fork, but no record is left without the one it commits to. A line that
\* completes one cut short by a crash breaks the rest of its chain.
OnlyARaceForks ==
    cuts = 0 =>
        \A r \in Replica, h \in Host :
            LET c == Records(chain[r][h])
            IN  \A i \in 1..Len(c) :
                    \/ Links(c, i)
                    \/ Crowded(h) /\ Forks(c, i)
                    \/ \E j \in 1..i : c[j] = Malformed

\* readChain, pkg/history/share.go:267: a record whose predecessor is not the
\* record before it says that "a record was edited, removed or reordered".
\* (verify passes over a malformed line.)
BreakMeansTampering ==
    cuts = 0 =>
        \A r \in Replica, h \in Host :
            LET c == Records(chain[r][h])
                Read(i) == c[i].body.kind # "malformed"
            IN  \A i \in {k \in DOMAIN c : Read(k)} :
                    \E j \in 0..(i - 1) :
                        /\ c[i].prev = HeadAt(c, j)
                        /\ \A k \in (j + 1)..(i - 1) : ~Read(k)

\* docs/HISTORY.md, "Retention that stays honest": an entry a chain records is
\* held by its machine's replica, or a prune record that names it is published,
\* whatever crashed and whatever the syncer has brought so far.
NothingGoesSilently ==
    cuts = 0 =>
        \A h \in Host : \A a \in RevisionsOf(Published, h) :
            \/ entry[where[h]][a.rev.id].payload # Absent
            \/ a.rev.id \in PrunedIn(Published)
            \/ \E g \in Host : Malformed \in {Owned(g)[i] : i \in DOMAIN Owned(g)}

\* All who may take the snapshot by themselves write the same payload.
Agreed(id) ==
    \A g, h \in Host : \A r \in Taken[g], s \in Taken[h] :
        r.id = id /\ s.id = id => r.build = s.build

\* VerifyShare of a replica finds nothing but a fork two commands of a machine
\* made and what builds that disagree wrote: no other break, no payload missing
\* unexplained, and none that is not what all its records say.
Clean(r) ==
    LET R == RevisionsIn(Chains(r))
    IN  /\ \A h \in Host : Crowded(h) \/ Verifies(chain[r][h])
        /\ \A a \in R :
               LET payload == entry[r][a.rev.id].payload
               IN  IF payload = Absent
                   THEN a.rev.id \in PrunedIn(Chains(r))
                   ELSE Agreed(a.rev.id) =>
                            /\ payload = a.rev.build
                            /\ \A b \in R : b.rev.id = a.rev.id =>
                                   b.rev.build = payload

\* VerifyShare: once the syncer has brought every file everywhere, the store is
\* clean, in the middle of pushes and collections too and after some died.
ConvergedIsClean ==
    /\ cuts = 0
    /\ \A r, q \in Replica : entry[r] = entry[q] /\ chain[r] = chain[q]
    /\ \A r \in Replica, h \in Host : \A i \in DOMAIN chain[r][h] :
           chain[r][h][i] # Malformed
    => \A r \in Replica : Clean(r)

\* checkPushAnchor: the record a machine remembers is in its chain, so a push is
\* refused only when the chain lost records, not because of a crash, a
\* collection, or a push by another machine.
RefusedOnlyForALoss ==
    cuts = 0 =>
        \A h \in Host :
            \/ anchor[h] = <<>>
            \/ \E i \in DOMAIN Owned(h) : Owned(h)[i] = Malformed
            \/ \E i \in DOMAIN Published[h] :
                   ShareRecordHash(Published[h][i]) = anchor[h]

\* checkPushAnchor, docs/HISTORY.md:219-221: where a machine runs one command at
\* a time, a chain truncated from the end, before a push or in the middle of it,
\* gets no further records unnoticed: the remembered record is still in it, or
\* it no longer verifies.
TruncationIsCaught ==
    [][\A p \in Proc :
           /\ ~Crowded(HostOf[p])
           /\ pc[p] = "push"
           /\ Len(Records(Chain(p)))' > Len(Records(Chain(p)))
           => AnchorHolds(p)' \/ ~Verifies(Chain(p))']_vars

\* docs/HISTORY.md, "The store contract": the same snapshot pushed by two
\* machines has the same bytes, so no record is left with another's payload.
SameSnapshotSameBytes ==
    \A a, b \in RevisionsIn(Published) :
        a.rev.id = b.rev.id => a.rev.build = b.rev.build

=============================================================================
