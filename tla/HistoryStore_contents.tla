------------------------ MODULE HistoryStore_contents ------------------------
(***************************************************************************)
(* Stored contents, for one process and for any number of them that get    *)
(* the lock and do not collect: no two revisions claim one address, a      *)
(* chain applies or is thinned, a header is published after its contents,  *)
(* and a collection makes unreadable only what it was asked to.            *)
(***************************************************************************)
EXTENDS HistoryStore_proofs

\* One file an address.
OneFile == \A f, g \in disk : f.seg = g.seg /\ f.mem = g.mem => f = g

(* An empty directory.                                                        *)
LEMMA OneFileInit == Init => OneFile
BY DEF Init, OneFile

(* writeRevisionFile renames over what the address held; removing a file      *)
(* leaves the others.                                                         *)
LEMMA OneFileStep == TypeOK /\ OneFile /\ [Next]_vars => OneFile'
<1> SUFFICES ASSUME TypeOK, OneFile, [Next]_vars PROVE OneFile'
    OBVIOUS
<1>1. CASE disk' \subseteq disk
    BY <1>1 DEF OneFile
<1>2. ASSUME NEW p \in Proc, Store(p), ~(disk' \subseteq disk) PROVE OneFile'
    <2>1. disk' = {f \in disk : <<f.seg, f.mem>> # cur[p].blob}
                     \cup {[seg |-> cur[p].blob[1], mem |-> cur[p].blob[2],
                            id |-> cur[p].obs.id, parent |-> cur[p].parent]}
        BY <1>2 DEF Store
    <2>2. cur[p].blob = <<cur[p].blob[1], cur[p].blob[2]>>
        BY DEF TypeOK, Draft, Address
    <2> QED
        BY <2>1, <2>2 DEF OneFile
<1>3. ASSUME NEW p \in Proc, Begin(p) \/ Tear(p) \/ Stop(p) PROVE disk' = disk
    BY <1>3 DEF Begin, Record, RecordAgain, Import, Mend, Collect, Tear, Stop
<1>4. ASSUME NEW p \in Proc, Step(p), ~Store(p) PROVE disk' \subseteq disk
    BY <1>4 DEF Step, Acquire, Refuse, SkipSame, TakeUp, Place, Prune, SweepFile, EndPrune,
                Publish, Reread, RewriteSummary, GCList, GCSwept, GCRewrite
<1>5. CASE UNCHANGED vars \/ Finished
    BY <1>1, <1>5 DEF vars, Finished
<1> QED
    BY <1>1, <1>2, <1>3, <1>4, <1>5 DEF Next

-----------------------------------------------------------------------------
(* Replaying a chain, before and after a step that touches the directory. *)

Before(a, b) == a[1] < b[1] \/ (a[1] = b[1] /\ a[2] < b[2])

\* The members of a's chain up to a are the same files before and after.
Unmoved(a) ==
    \A f \in disk \cup disk' : f.seg = a[1] /\ f.mem <= a[2] => f \in disk /\ f \in disk'

(* Members up to an address nothing touches.                                  *)
LEMMA UnmovedMembers ==
    ASSUME disk \subseteq File, disk' \subseteq File, NEW a \in Address, Unmoved(a)
    PROVE  /\ \A i \in Nat : i <= a[2] => (Linked(a[1], i)' <=> Linked(a[1], i))
           /\ \A i \in Nat : i <= a[2] => (Present(a[1], i)' <=> Present(a[1], i))
<1>0. a[1] \in Nat /\ a[2] \in Nat
    BY DEF Address
<1>1. ASSUME NEW i \in Nat, i <= a[2] PROVE Present(a[1], i)' <=> Present(a[1], i)
    BY <1>1 DEF Present, Unmoved
<1>2. ASSUME NEW i \in Nat, i <= a[2] PROVE Linked(a[1], i)' <=> Linked(a[1], i)
    <2>0. \A f : (f \in disk \/ f \in disk') /\ f.seg = a[1] /\ f.mem <= a[2]
                    => (f \in disk <=> f \in disk')
        BY DEF Unmoved
    <2>1. \A f : f.seg = a[1] /\ f.mem = i => (f \in disk <=> f \in disk')
        BY <1>2, <2>0
    <2>2. \A f : f.seg = a[1] /\ f.mem = i - 1 => (f \in disk <=> f \in disk')
        BY <1>0, <1>2, <2>0
    <2> QED
        BY <2>1, <2>2 DEF Linked
<1> QED
    BY <1>1, <1>2

(* A revision whose chain nothing touches reads as before.                    *)
LEMMA UnmovedLoads ==
    ASSUME disk \subseteq File, disk' \subseteq File,
           NEW e, e.blob \in Address, Unmoved(e.blob)
    PROVE  /\ Loads(e)' <=> Loads(e)
           /\ Thinned(e.blob)' <=> Thinned(e.blob)
           /\ Whole(e.blob)' <=> Whole(e.blob)
<1> DEFINE s == e.blob[1]
           m == e.blob[2]
<1>0. s \in Nat /\ m \in Nat
    BY DEF Address
<1>1. /\ \A i \in Nat : i <= m => (Linked(s, i)' <=> Linked(s, i))
      /\ \A i \in Nat : i <= m => (Present(s, i)' <=> Present(s, i))
    BY UnmovedMembers
<1>2. Whole(e.blob)' <=> Whole(e.blob)
    <2>1. \A i \in 1..m : Linked(s, i)' <=> Linked(s, i)
        BY <1>0, <1>1
    <2> QED
        BY <2>1 DEF Whole
<1>3. Thinned(e.blob)' <=> Thinned(e.blob)
    <2>1. ASSUME NEW i \in 1..m
          PROVE  /\ Present(s, i)' <=> Present(s, i)
                 /\ \A j \in 1..(i - 1) : Linked(s, j)' <=> Linked(s, j)
        BY <1>0, <1>1
    <2> QED
        BY <2>1 DEF Thinned
<1>4. \A f : <<f.seg, f.mem>> = e.blob => (f \in disk <=> f \in disk')
    BY <1>0 DEF Unmoved
<1> QED
    BY <1>2, <1>3, <1>4 DEF Loads

(* Removing one file of a chain that applied, or was thinned, leaves a chain  *)
(* that applies or is thinned (os.RemoveAll, cut short anywhere).             *)
LEMMA RemovedThins ==
    ASSUME disk \subseteq File, OneFile, NEW f \in disk, disk' = disk \ {f},
           NEW e, e.blob \in Address, Loads(e) \/ Thinned(e.blob)
    PROVE  Loads(e)' \/ Thinned(e.blob)'
<1> DEFINE s == e.blob[1]
           m == e.blob[2]
<1>0. s \in Nat /\ m \in Nat /\ f.seg \in Nat /\ f.mem \in Nat /\ disk' \subseteq File
    BY DEF Address, File
<1>1. CASE f.seg # s \/ f.mem > m \/ f.mem = 0
    <2>1. CASE f.seg # s \/ f.mem > m
        <3>1. Unmoved(e.blob)
            BY <1>0, <2>1 DEF Unmoved
        <3> QED
            BY <1>0, <3>1, UnmovedLoads
    <2>2. CASE f.seg = s /\ f.mem = 0
        <3>1. \A j \in 1..m : Linked(s, j) => Linked(s, j)'
            BY <1>0, <2>2 DEF Linked
        <3>2. \A j \in 1..m : ~Present(s, j) => ~Present(s, j)'
            BY DEF Present
        <3>3. CASE Loads(e)
            <4>1. Whole(e.blob)' /\ m >= 1
                BY <3>1, <3>3 DEF Loads, Whole
            <4>2. PICK g \in disk : <<g.seg, g.mem>> = e.blob /\ g.id = e.obs.id
                BY <3>3 DEF Loads
            <4>3. g \in disk'
                BY <2>2, <4>1, <4>2
            <4> QED
                BY <4>1, <4>2, <4>3 DEF Loads
        <3>4. CASE Thinned(e.blob)
            <4>1. PICK k \in 1..m : ~Present(s, k) /\ \A j \in 1..(k - 1) : Linked(s, j)
                BY <3>4 DEF Thinned
            <4>2. ~Present(s, k)' /\ \A j \in 1..(k - 1) : Linked(s, j)'
                BY <1>0, <3>1, <3>2, <4>1
            <4> QED
                BY <4>2 DEF Thinned
        <3> QED
            BY <3>3, <3>4
    <2> QED
        BY <1>1, <2>1, <2>2
<1>2. CASE f.seg = s /\ f.mem \in 1..m
    <2> DEFINE i == f.mem
    <2>1. ~Present(s, i)'
        BY <1>2 DEF Present, OneFile
    <2>2. ASSUME NEW j \in Nat, j < i, Linked(s, j) PROVE Linked(s, j)'
        BY <1>0, <2>2 DEF Linked
    <2>3. CASE \A j \in 1..(i - 1) : Linked(s, j)
        <3>1. \A j \in 1..(i - 1) : Linked(s, j)'
            BY <1>0, <2>2, <2>3
        <3> QED
            BY <1>2, <2>1, <3>1 DEF Thinned
    <2>4. CASE ~\A j \in 1..(i - 1) : Linked(s, j)
        <3>1. ~Loads(e)
            BY <1>0, <1>2, <2>4 DEF Loads, Whole
        <3>2. PICK k \in 1..m : ~Present(s, k) /\ \A j \in 1..(k - 1) : Linked(s, j)
            BY <3>1 DEF Thinned
        <3>3. k < i
            BY <1>0, <1>2, <2>4, <3>2
        <3>4. \A j \in 1..(k - 1) : Linked(s, j)'
            BY <1>0, <2>2, <3>2, <3>3
        <3>5. ~Present(s, k)'
            BY <3>2 DEF Present
        <3> QED
            BY <3>2, <3>4, <3>5 DEF Thinned
    <2> QED
        BY <2>3, <2>4
<1> QED
    BY <1>0, <1>1, <1>2

-----------------------------------------------------------------------------
(* The inductive invariant. *)

\* Later revisions are stored at later addresses.
AddressOrder ==
    \A d, e \in log : d.blob # NoBlob /\ e.blob # NoBlob /\ d.line < e.line
                         => Before(d.blob, e.blob)

\* Where nobody collects, segments go from the oldest on: a revision above one
\* that has files left is whole.
Intact == \A e \in Stored(log) : (\E f \in disk : f.seg < e.blob[1]) => Loads(e)

\* The address a process writes to is after every address in the log.
Beyond(p) == \A e \in Stored(log) : Before(e.blob, cur[p].blob)

\* The patch a process is about to store applies to what precedes it.
Based(p) ==
    \/ cur[p].blob[2] = 1 /\ cur[p].parent = NoId
    \/ \E f \in disk : /\ f.seg = cur[p].blob[1] /\ f.mem + 1 = cur[p].blob[2]
                       /\ f.id = cur[p].parent
                       /\ Whole(<<f.seg, f.mem>>)

\* What it stored replays.
Replays(p) ==
    /\ Whole(cur[p].blob)
    /\ \E f \in disk : <<f.seg, f.mem>> = cur[p].blob /\ f.id = cur[p].obs.id

\* What it removes is older than BlobKeep revisions, and with it everything older.
Window(p) ==
    \A s \in doomed[p] :
        /\ BlobKeep > 0
        /\ Cardinality({e \in Stored(log) : e.blob[1] > s}) >= BlobKeep
        /\ \A f \in disk : f.seg < s => f.seg \in doomed[p]

Writing == {"store", "prune", "sweep", "publish"}

Mine(p) ==
    /\ pc[p] \in {"acquire", "read", "place"} => cur[p].blob = NoBlob
    /\ pc[p] \in Writing /\ cur[p].blob # NoBlob => Beyond(p)
    /\ pc[p] = "store" => Based(p)
    /\ pc[p] \in {"prune", "sweep", "publish"} /\ cur[p].blob # NoBlob => Replays(p)
    /\ pc[p] = "sweep" => Window(p)

ContentsInv ==
    /\ OneFile
    /\ AddressOrder
    /\ NeverDamaged
    /\ \A p \in Proc : Mine(p)

(* Nothing stored, nobody writing.                                            *)
LEMMA ContentsInit == Init => ContentsInv
BY DEF Init, ContentsInv, OneFile, AddressOrder, NeverDamaged, Mine, Stored, Writing

(* A process that is not writing has no claim on the log or the directory.    *)
LEMMA OutsideMine ==
    ASSUME NEW p \in Proc, Mine(p), pc'[p] = pc[p], cur'[p] = cur[p],
           pc[p] \notin Appending
    PROVE  Mine(p)'
BY DEF Mine, Appending, Writing

(* While one process holds the lock no other is writing.                      *)
LEMMA OthersMine ==
    ASSUME ContentsInv, SerialInv, NEW p \in Proc, pc[p] \in Critical \cup Collecting,
           \A q \in Proc \ {p} : pc'[q] = pc[q] /\ cur'[q] = cur[q]
    PROVE  \A q \in Proc \ {p} : Mine(q)'
<1>1. \A q \in Proc \ {p} : pc[q] \notin Appending
    BY DEF SerialInv, Held, NoCollection, Alone, Critical
<1> QED
    BY <1>1, OutsideMine DEF ContentsInv

(* A step that leaves the log and the directory alone.                        *)
LEMMA QuietStep ==
    ASSUME ContentsInv, NEW p \in Proc, log' = log, disk' = disk,
           \A q \in Proc \ {p} : /\ pc'[q] = pc[q] /\ cur'[q] = cur[q]
                                 /\ doomed'[q] = doomed[q],
           Mine(p)'
    PROVE  ContentsInv'
<1>1. /\ OneFile' /\ AddressOrder' /\ NeverDamaged'
    BY DEF ContentsInv, OneFile, AddressOrder, NeverDamaged, Stored, Loads, Whole,
           Linked, Thinned, Present
<1>2. ASSUME NEW q \in Proc \ {p} PROVE Mine(q)'
    <2>1. Mine(q)
        BY DEF ContentsInv
    <2>2. /\ Beyond(q) => Beyond(q)'
          /\ Based(q) => Based(q)'
          /\ Replays(q) => Replays(q)'
        BY DEF Beyond, Based, Replays, Stored, Whole, Linked
    <2>3. Window(q) => Window(q)'
        BY DEF Window, Stored
    <2> QED
        BY <2>1, <2>2, <2>3 DEF Mine
<1> QED
    BY <1>1, <1>2 DEF ContentsInv

(* A call that returns has no claim left.                                     *)
LEMMA ReturnedMine ==
    ASSUME TypeOK, NEW p \in Proc, Return(p)
    PROVE  /\ Mine(p)'
           /\ \A q \in Proc \ {p} : /\ pc'[q] = pc[q] /\ cur'[q] = cur[q]
                                     /\ doomed'[q] = doomed[q]
<1>1. pc'[p] = "idle"
    BY DEF Return, Goto, TypeOK
<1>2. Mine(p)'
    BY <1>1 DEF Mine, Writing
<1>3. \A q \in Proc \ {p} : /\ pc'[q] = pc[q] /\ cur'[q] = cur[q] /\ doomed'[q] = doomed[q]
    BY DEF Return, Goto, TypeOK
<1> QED
    BY <1>2, <1>3

(* The lines of a log that were in the log before, whatever their summary.    *)
LEMMA FewerLines ==
    ASSUME ContentsInv, disk' = disk,
           \A e \in log' : \E d \in log : d.line = e.line /\ d.blob = e.blob /\ d.obs = e.obs
    PROVE  OneFile' /\ AddressOrder' /\ NeverDamaged'
<1>1. OneFile'
    BY DEF ContentsInv, OneFile
<1>2. AddressOrder'
    BY DEF ContentsInv, AddressOrder
<1>3. ASSUME NEW e \in Stored(log)' PROVE \E d \in Stored(log) : d.blob = e.blob /\ d.obs = e.obs
    BY <1>3 DEF Stored
<1>4. \A d, e : d.blob = e.blob /\ d.obs = e.obs => (Loads(d) <=> Loads(e)') 
    BY DEF Loads, Whole, Linked
<1>5. \A a : Thinned(a)' <=> Thinned(a)
    BY DEF Thinned, Present, Linked
<1>7. NeverDamaged'
    <2> SUFFICES ASSUME NEW e \in Stored(log)'
                 PROVE  Loads(e)' \/ Thinned(e.blob)'
        BY DEF NeverDamaged
    <2>1. PICK d \in Stored(log) : d.blob = e.blob /\ d.obs = e.obs
        BY <1>3
    <2>2. Loads(d) \/ Thinned(d.blob)
        BY <2>1 DEF ContentsInv, NeverDamaged
    <2> QED
        BY <1>4, <1>5, <2>1, <2>2
<1> QED
    BY <1>1, <1>2, <1>7

-----------------------------------------------------------------------------
(* One lemma for each step of writeBlob. *)

(* writeBlob gives up: the header will carry no reference.                    *)
LEMMA GivenUp ==
    ASSUME TypeOK, ContentsInv, NEW p \in Proc, GiveUpContents(p), log' = log, disk' = disk
    PROVE  ContentsInv'
<1>1. /\ pc'[p] = "publish" /\ cur'[p].blob = NoBlob
      /\ \A q \in Proc \ {p} : /\ pc'[q] = pc[q] /\ cur'[q] = cur[q]
                                /\ doomed'[q] = doomed[q]
    BY DEF GiveUpContents, Goto, TypeOK, Draft
<1>2. Mine(p)'
    BY <1>1 DEF Mine
<1> QED
    BY <1>1, <1>2, QuietStep

(* readBlobState and the choice of an address: it is after every address of   *)
(* the log, and the patch is computed against the chain's last member.        *)
LEMMA PlaceKeeps ==
    ASSUME TypeInv, SerialInv, CapsInv, ContentsInv, NEW p \in Proc, Place(p)
    PROVE  ContentsInv'
<1> USE DEF TypeInv
<1>0. /\ pc[p] = "place" /\ log' = log /\ disk' = disk /\ view[p] = log
      /\ log \subseteq Entry /\ disk \subseteq File
    BY DEF Place, SerialInv, Current, Relying, Appending, file, TypeOK
<1>1. CASE GiveUpContents(p)
    BY <1>0, <1>1, GivenUp
<1>2. ASSUME NEW a \in Address, NEW id, PlaceAt(p, a, id),
             \A e \in Stored(log) : Before(e.blob, a),
             \/ a[2] = 1 /\ id = NoId
             \/ \E f \in disk : /\ f.seg = a[1] /\ f.mem + 1 = a[2]
                                /\ f.id = id /\ Whole(<<f.seg, f.mem>>)
      PROVE  ContentsInv'
    <2>1. /\ pc'[p] = "store" /\ cur'[p].blob = a /\ cur'[p].parent = id
          /\ \A q \in Proc \ {p} : /\ pc'[q] = pc[q] /\ cur'[q] = cur[q]
                                    /\ doomed'[q] = doomed[q]
        BY <1>2 DEF PlaceAt, Goto, TypeOK, Draft
    <2>2. Beyond(p)'
        BY <1>0, <1>2, <2>1 DEF Beyond, Stored
    <2>3. Based(p)'
        BY <1>0, <1>2, <2>1 DEF Based, Whole, Linked
    <2>4. Mine(p)'
        BY <2>1, <2>2, <2>3 DEF Mine
    <2> QED
        BY <1>0, <2>1, <2>4, QuietStep
<1>3. ASSUME NEW e \in Stored(log), IsLast(e, Stored(log)), NEW d \in Stored(log)
      PROVE  /\ d.blob = e.blob \/ Before(d.blob, e.blob)
             /\ d.blob \in Address /\ e.blob \in Address
    <2>1. d \in log /\ e \in log /\ d.blob # NoBlob /\ e.blob # NoBlob /\ d.line <= e.line
        BY <1>3 DEF Stored, IsLast
    <2>2. d.line \in Nat /\ e.line \in Nat
        BY <1>0, <2>1 DEF Entry
    <2>4. d.blob \in Address /\ e.blob \in Address
        BY <1>0, <2>1 DEF Entry
    <2>5. CASE d.line < e.line
        BY <2>1, <2>4, <2>5 DEF ContentsInv, AddressOrder
    <2>6. CASE d.line = e.line
        BY <2>1, <2>4, <2>6 DEF CapsInv, Distinct
    <2> QED
        BY <2>1, <2>2, <2>5, <2>6
<1>4. CASE PlaceAt(p, <<NextSegment(view[p]), 1>>, NoId)
    <2> DEFINE S == Segments \cup {e.blob[1] : e \in log}
    <2>1. PICK b \in Nat : NumbersBelow(b)
        BY DEF Bounded
    <2>2. S \subseteq Nat /\ Bound(S, b)
        BY <1>0, <2>1 DEF Entry, Address, File, Segments, NumbersBelow, EntriesBelow, Bound
    <2>3. Highest(S) \in Nat /\ Bound(S, Highest(S))
        BY <2>2, HighestBounds
    <2>4. NextSegment(view[p]) = 1 + Highest(S)
        BY <1>0 DEF NextSegment
    <2>5. \A e \in log : e.blob[1] \in Nat /\ e.blob[1] <= Highest(S)
        BY <1>0, <2>3 DEF Bound, Entry, Address
    <2>6. \A e \in Stored(log) : Before(e.blob, <<1 + Highest(S), 1>>)
        BY <2>3, <2>5 DEF Before, Stored
    <2>7. <<1 + Highest(S), 1>> \in Address
        BY <2>3 DEF Address
    <2> QED
        BY <1>2, <1>4, <2>4, <2>6, <2>7
<1>5. ASSUME NEW e \in Stored(log), IsLast(e, Stored(log)), Whole(e.blob),
             NEW f \in disk, <<f.seg, f.mem>> = e.blob,
             PlaceAt(p, <<f.seg, f.mem + 1>>, f.id)
      PROVE  ContentsInv'
    <2>1. f.seg \in Nat /\ f.mem \in Nat
        BY <1>0 DEF File
    <2>2. \A d \in Stored(log) : Before(d.blob, <<f.seg, f.mem + 1>>)
        BY <1>3, <1>5, <2>1 DEF Before, Address
    <2>3. <<f.seg, f.mem + 1>> \in Address
        BY <2>1 DEF Address
    <2> QED
        BY <1>2, <1>5, <2>2, <2>3
<1>6. ASSUME NEW e \in Stored(log), IsLast(e, Stored(log)),
             PlaceAt(p, <<e.blob[1] + 1, 1>>, NoId)
      PROVE  ContentsInv'
    <2>1. e.blob[1] \in Nat /\ <<e.blob[1] + 1, 1>> \in Address
        BY <1>3, <1>6 DEF Address
    <2>2. \A d \in Stored(log) : Before(d.blob, <<e.blob[1] + 1, 1>>)
        BY <1>3, <1>6, <2>1 DEF Before, Address
    <2> QED
        BY <1>2, <1>6, <2>1, <2>2
<1> QED
    BY <1>0, <1>1, <1>4, <1>5, <1>6 DEF Place

(* writeRevisionFile writes after every address of the log, so it changes     *)
(* nothing a revision refers to, and what it writes replays.                  *)
LEMMA StoreKeeps ==
    ASSUME TypeOK, TypeOK', SerialInv, ContentsInv, NEW p \in Proc, Store(p)
    PROVE  /\ ContentsInv'
           /\ \A e \in Stored(log) : Loads(e)' <=> Loads(e)
           /\ \A f \in disk' \ disk, e \in Stored(log) : ~(f.seg < e.blob[1])
<1>0. pc[p] = "store" /\ log' = log /\ log \subseteq Entry /\ disk \subseteq File /\ disk' \subseteq File
    BY DEF Store, file, TypeOK
<1>1. CASE GiveUpContents(p) /\ UNCHANGED disk
    <2>1. \A e : Loads(e)' <=> Loads(e)
        BY <1>1 DEF Loads, Whole, Linked
    <2> QED
        BY <1>0, <1>1, <2>1, GivenUp
<1>2. CASE ~(GiveUpContents(p) /\ UNCHANGED disk)
    <2>0. PICK a : a = cur[p].blob
        OBVIOUS
    <2> DEFINE new == [seg |-> a[1], mem |-> a[2], id |-> cur[p].obs.id, parent |-> cur[p].parent]
    <2>1. /\ disk' = {f \in disk : <<f.seg, f.mem>> # a} \cup {new}
          /\ Goto(p, "prune") /\ cur' = cur /\ doomed' = doomed
        BY <1>0, <1>2, <2>0 DEF Store
    <2>2. /\ pc'[p] = "prune"
          /\ \A q \in Proc \ {p} : pc'[q] = pc[q]
        BY <2>1 DEF Goto, TypeOK
    <2>3. a \in Address /\ a = <<a[1], a[2]>> /\ a[1] \in Nat /\ a[2] \in Nat
        BY <2>0 DEF TypeOK, Draft, Address
    <2>4. Mine(p) /\ Based(p) /\ a[2] >= 1
        <3>1. Mine(p) /\ Based(p)
            BY <1>0 DEF ContentsInv, Mine
        <3>2. \A f \in disk : f.mem \in Nat
            BY <1>0 DEF File
        <3>3. a[2] >= 1
            <4>1. a[2] = 1 \/ \E f \in disk : f.mem + 1 = a[2]
                BY <2>0, <3>1 DEF Based
            <4> QED
                BY <2>3, <3>2, <4>1
        <3> QED
            BY <3>1, <3>3
    <2>5. \A e \in Stored(log) : Before(e.blob, a)
        BY <1>0, <2>0, <2>3, <2>4 DEF Mine, Writing, NoBlob, Beyond
    <2> HIDE DEF new
    <2>6. new.seg = a[1] /\ new.mem = a[2] /\ new.id = cur[p].obs.id /\ new.parent = cur[p].parent
        BY DEF new
    <2>7. ASSUME NEW c \in Address, Before(c, a) PROVE Unmoved(c)
        <3> SUFFICES ASSUME NEW f \in disk \cup disk', f.seg = c[1], f.mem <= c[2]
                     PROVE  f \in disk /\ f \in disk'
            BY DEF Unmoved
        <3>1. /\ c[1] \in Nat /\ c[2] \in Nat /\ f.mem \in Nat
              /\ c[1] < a[1] \/ (c[1] = a[1] /\ c[2] < a[2])
            BY <1>0, <2>7 DEF Before, Address, File
        <3>2. <<f.seg, f.mem>> # <<a[1], a[2]>> /\ f # new
            BY <2>3, <2>6, <3>1
        <3> QED
            BY <2>1, <2>3, <3>2
    <2>8. ASSUME NEW e \in Stored(log)
          PROVE  /\ Loads(e)' <=> Loads(e)
                 /\ Thinned(e.blob)' <=> Thinned(e.blob)
                 /\ e.blob \in Address
        <3>1. e.blob \in Address
            BY <1>0 DEF Stored, Entry
        <3>2. Unmoved(e.blob)
            BY <2>5, <2>7, <3>1
        <3> QED
            BY <1>0, <3>1, <3>2, UnmovedLoads
    <2>9. OneFile'
        BY <2>1, <2>3, <2>6 DEF ContentsInv, OneFile
    <2>10. AddressOrder'
        BY <1>0 DEF ContentsInv, AddressOrder
    <2>11. Stored(log)' = Stored(log)
        BY <1>0 DEF Stored
    <2>12. NeverDamaged'
        BY <2>8, <2>11 DEF ContentsInv, NeverDamaged
    <2>14. Replays(p)'
        <3>1. new \in disk'
            BY <2>1
        <3>2. \A i \in 1..a[2] : Linked(a[1], i)'
            <4>1. CASE a[2] = 1 /\ cur[p].parent = NoId
                <5>1. Linked(a[1], 1)'
                    BY <2>6, <3>1, <4>1 DEF Linked
                <5> QED
                    BY <4>1, <5>1
            <4>2. ASSUME NEW f \in disk, f.seg = a[1], f.mem + 1 = a[2], f.id = cur[p].parent,
                         Whole(<<f.seg, f.mem>>)
                  PROVE  \A i \in 1..a[2] : Linked(a[1], i)'
                <5>1. f.mem \in Nat /\ f.seg \in Nat /\ f.mem >= 1
                    BY <1>0, <4>2 DEF File, Whole
                <5>2. <<f.seg, f.mem>> \in Address /\ Before(<<f.seg, f.mem>>, a)
                    BY <2>3, <4>2, <5>1 DEF Address, Before
                <5>3. Unmoved(<<f.seg, f.mem>>)
                    BY <2>7, <5>2
                <5>4. \A i \in Nat : i <= f.mem => (Linked(a[1], i)' <=> Linked(a[1], i))
                    BY <1>0, <4>2, <5>2, <5>3, UnmovedMembers
                <5>5. \A i \in 1..f.mem : Linked(a[1], i)
                    BY <4>2 DEF Whole
                <5>6. \A i \in 1..f.mem : Linked(a[1], i)'
                    BY <5>1, <5>4, <5>5
                <5>7. f \in disk'
                    BY <2>1, <2>3, <4>2, <5>1
                <5>8. Linked(a[1], a[2])'
                    BY <2>3, <2>6, <3>1, <4>2, <5>1, <5>7 DEF Linked
                <5> QED
                    BY <2>3, <4>2, <5>1, <5>6, <5>8
            <4> QED
                BY <2>0, <2>4, <4>1, <4>2 DEF Based
        <3>3. Whole(a)'
            BY <2>3, <2>4, <3>2 DEF Whole
        <3>4. <<new.seg, new.mem>> = cur'[p].blob /\ new.id = cur'[p].obs.id /\ cur'[p].blob = a
            BY <2>0, <2>1, <2>3, <2>6
        <3> QED
            BY <3>1, <3>3, <3>4 DEF Replays, Whole
    <2>15. Beyond(p)'
        BY <2>0, <2>1, <2>5, <2>11 DEF Beyond
    <2>16. Mine(p)'
        BY <2>2, <2>14, <2>15 DEF Mine
    <2>17. \A q \in Proc \ {p} : Mine(q)'
        BY <1>0, <2>1, <2>2, OthersMine DEF Critical, Appending
    <2>18. ASSUME NEW f \in disk' \ disk, NEW e \in Stored(log) PROVE ~(f.seg < e.blob[1])
        <3>1. f.seg = a[1]
            BY <2>1, <2>6
        <3> QED
            BY <2>3, <2>5, <2>8, <3>1 DEF Before, Address
    <2> QED
        BY <2>8, <2>9, <2>10, <2>12, <2>16, <2>17, <2>18 DEF ContentsInv
<1> QED
    BY <1>1, <1>2

(* pruneSegments picks segments older than BlobKeep revisions of the log, and *)
(* every segment older than those.                                            *)
LEMMA PruneKeeps ==
    ASSUME TypeOK, SerialInv, CapsInv, ContentsInv, NEW p \in Proc, Prune(p)
    PROVE  ContentsInv'
<1>0. /\ pc[p] = "prune" /\ log' = log /\ disk' = disk /\ cur' = cur
      /\ log \subseteq Entry /\ disk \subseteq File
    BY DEF Prune, file, TypeOK
<1>1. /\ pc'[p] = "sweep" /\ doomed'[p] \subseteq OutOfWindow(log)
      /\ doomed'[p] \in {OutOfWindow(log), {}}
      /\ \A q \in Proc \ {p} : /\ pc'[q] = pc[q] /\ doomed'[q] = doomed[q]
    BY DEF Prune, Goto, TypeOK
<1> DEFINE Over(s) == {e \in Stored(log) : e.blob[1] > s}
           Listed(s) == {e \in Stored(log) : e.blob[1] \in {t \in Segments : t > s}}
<1>2. ASSUME NEW s, NEW t, t \in Nat, s \in Nat, t <= s
      PROVE  /\ Cardinality(Listed(s)) \in Nat
             /\ Cardinality(Over(t)) \in Nat /\ Cardinality(Listed(t)) \in Nat
             /\ Cardinality(Listed(s)) <= Cardinality(Over(t))
             /\ Cardinality(Listed(s)) <= Cardinality(Listed(t))
    <2>1. \A e \in log : e.blob[1] \in Nat
        BY <1>0 DEF Entry, Address
    <2>2. Listed(s) \subseteq Over(t) /\ Listed(s) \subseteq Listed(t)
        BY <1>2, <2>1 DEF Stored
    <2>3. IsFiniteSet(Over(t)) /\ IsFiniteSet(Listed(t)) /\ IsFiniteSet(Listed(s))
        BY FS_Subset DEF CapsInv, Stored
    <2> QED
        BY <2>2, <2>3, FS_Subset, FS_CardinalityType
<1>3. ASSUME NEW s \in OutOfWindow(log)
      PROVE  s \in Nat /\ s \in Segments /\ BlobKeep > 0 /\ Cardinality(Listed(s)) >= BlobKeep
    BY <1>0, ConstantsOK DEF OutOfWindow, InSegments, Segments, File
<1>4. BlobKeep \in Int
    BY ConstantsOK
<1>5. ASSUME NEW s \in doomed'[p]
      PROVE  /\ BlobKeep > 0
             /\ Cardinality(Over(s)) >= BlobKeep
             /\ \A f \in disk : f.seg < s => f.seg \in doomed'[p]
    <2>1. s \in OutOfWindow(log) /\ doomed'[p] = OutOfWindow(log)
        BY <1>1
    <2>2. s \in Nat /\ BlobKeep > 0 /\ Cardinality(Listed(s)) >= BlobKeep
        BY <1>3, <2>1
    <2>3. Cardinality(Over(s)) >= BlobKeep
        <3> HIDE DEF Listed, Over
        <3>1. s <= s
            BY <2>2
        <3>2. /\ Cardinality(Listed(s)) <= Cardinality(Over(s))
              /\ Cardinality(Listed(s)) \in Nat /\ Cardinality(Over(s)) \in Nat
            BY <1>2, <2>2, <3>1
        <3> QED
            BY <1>4, <2>2, <3>2
    <2>4. ASSUME NEW f \in disk, f.seg < s PROVE f.seg \in OutOfWindow(log)
        <3>1. f.seg \in Nat /\ f.seg \in Segments
            BY <1>0 DEF File, Segments
        <3>2. f.seg <= s
            BY <2>2, <2>4, <3>1
        <3>3. /\ Cardinality(Listed(s)) <= Cardinality(Listed(f.seg))
              /\ Cardinality(Listed(s)) \in Nat /\ Cardinality(Listed(f.seg)) \in Nat
            <4> HIDE DEF Listed, Over
            <4> QED
                BY <1>2, <2>2, <3>1, <3>2
        <3>4. Cardinality(Listed(f.seg)) >= BlobKeep
            <4> HIDE DEF Listed
            <4> QED
                BY <1>4, <2>2, <3>3
        <3>5. InSegments(log, {t \in Segments : t > f.seg}) = Cardinality(Listed(f.seg))
            BY DEF InSegments
        <3> HIDE DEF Listed
        <3> QED
            BY <1>4, <2>2, <3>1, <3>4, <3>5 DEF OutOfWindow
    <2> QED
        BY <2>1, <2>2, <2>3, <2>4
<1>6. Window(p)'
    BY <1>0, <1>5 DEF Window, Stored
<1>7. Mine(p)
    BY DEF ContentsInv
<1>8. (Beyond(p) => Beyond(p)') /\ (Replays(p) => Replays(p)')
    BY <1>0 DEF Beyond, Replays, Stored, Whole, Linked
<1>9. Mine(p)'
    BY <1>0, <1>1, <1>6, <1>7, <1>8 DEF Mine, Writing
<1> QED
    BY <1>0, <1>1, <1>9, QuietStep

(* os.RemoveAll takes a file of the oldest doomed segment: older than the     *)
(* newest stored revision and than the one being stored, so both keep theirs. *)
LEMMA SweepKeeps ==
    ASSUME TypeOK, SerialInv, CapsInv, ContentsInv, NEW p \in Proc, SweepFile(p), pc[p] = "sweep"
    PROVE  /\ ContentsInv'
           /\ \A e \in Stored(log) : IsLast(e, Stored(log)) /\ Loads(e) => Loads(e)'
           /\ \E f \in disk : /\ f.seg \in doomed[p] /\ Window(p)
                              /\ \A g \in disk : ~(g.seg < f.seg)
                              /\ \A e \in Stored(log) : e.blob[1] > f.seg
                                                          => (Loads(e)' <=> Loads(e))
<1>0. /\ log' = log /\ pc' = pc /\ cur' = cur /\ doomed' = doomed
      /\ log \subseteq Entry /\ disk \subseteq File
    BY DEF SweepFile, file, local, TypeOK
<1>1. PICK f \in disk : /\ f.seg \in doomed[p]
                        /\ \A g \in disk : g.seg \in doomed[p] => ~Sooner(p, g.seg, f.seg)
                        /\ disk' = disk \ {f}
    BY DEF SweepFile
<1>2. \A g \in disk : g.seg \in doomed[p] => ~(g.seg < f.seg)
    BY <1>0, <1>1 DEF Sooner
<1>3. Mine(p) /\ Window(p)
    BY <1>0 DEF ContentsInv, Mine
<1>4. \A g \in disk : ~(g.seg < f.seg)
    BY <1>1, <1>2, <1>3 DEF Window
<1>5. disk' \subseteq File /\ f.seg \in Nat /\ \A e \in log : e.blob \in Address /\ e.line \in Nat
    BY <1>0, <1>1 DEF File, Entry
<1>6. ASSUME NEW a \in Address, a[1] # f.seg PROVE Unmoved(a)
    BY <1>1, <1>6 DEF Unmoved
<1>7. ASSUME NEW e \in Stored(log), e.blob[1] > f.seg
      PROVE  Loads(e)' <=> Loads(e)
    <2>1. e.blob \in Address /\ e.blob[1] \in Nat
        BY <1>5 DEF Stored, Address
    <2>2. Unmoved(e.blob)
        BY <1>5, <1>6, <1>7, <2>1
    <2> QED
        BY <1>0, <1>5, <2>1, <2>2, UnmovedLoads
<1>8. PICK n \in Stored(log) : n.blob[1] > f.seg
    <2> DEFINE S == {e \in Stored(log) : e.blob[1] > f.seg}
    <2>1. BlobKeep > 0 /\ Cardinality(S) >= BlobKeep /\ BlobKeep \in Int
        BY <1>1, <1>3, ConstantsOK DEF Window
    <2>2. S # {}
        <3> HIDE DEF S
        <3> QED
            BY <2>1, FS_EmptySet
    <2> QED
        BY <2>2
<1>9. OneFile' /\ AddressOrder' /\ Stored(log)' = Stored(log)
    BY <1>0, <1>1 DEF ContentsInv, OneFile, AddressOrder, Stored
<1>10. NeverDamaged'
    <2> SUFFICES ASSUME NEW e \in Stored(log) PROVE Loads(e)' \/ Thinned(e.blob)'
        BY <1>9 DEF NeverDamaged
    <2>1. e.blob \in Address /\ (Loads(e) \/ Thinned(e.blob)) /\ OneFile
        BY <1>5 DEF Stored, ContentsInv, NeverDamaged
    <2> QED
        BY <1>0, <1>1, <2>1, RemovedThins
<1>12. ASSUME NEW e \in Stored(log), IsLast(e, Stored(log)), Loads(e)
       PROVE  Loads(e)'
    <2>1. /\ n.line <= e.line /\ n \in log /\ e \in log
          /\ n.blob # NoBlob /\ e.blob # NoBlob
        BY <1>12 DEF IsLast, Stored
    <2>2. n.blob = e.blob \/ Before(n.blob, e.blob)
        BY <1>5, <2>1 DEF ContentsInv, AddressOrder, CapsInv, Distinct
    <2>3. e.blob[1] > f.seg
        BY <1>5, <1>8, <2>1, <2>2 DEF Before, Address
    <2> QED
        BY <1>7, <1>12, <2>3
<1>13. ASSUME cur[p].blob # NoBlob PROVE Beyond(p)' /\ Replays(p)'
    <2>1. Beyond(p) /\ Replays(p)
        BY <1>0, <1>3, <1>13 DEF Mine, Writing
    <2>2. PICK a : a = cur[p].blob
        OBVIOUS
    <2>3. a \in Address /\ a[1] \in Nat
        BY <2>2 DEF TypeOK, Draft, Address
    <2>4. Before(n.blob, a) /\ n.blob[1] \in Nat
        BY <1>5, <1>8, <2>1, <2>2 DEF Beyond, Stored, Address
    <2>5. a[1] > f.seg
        BY <1>5, <1>8, <2>3, <2>4 DEF Before
    <2>6. PICK g \in disk : <<g.seg, g.mem>> = a /\ g.id = cur[p].obs.id
        BY <2>1, <2>2 DEF Replays
    <2>7. g \in disk'
        BY <1>1, <1>5, <2>5, <2>6
    <2>8. \A i \in Nat : i <= a[2] => (Linked(a[1], i)' <=> Linked(a[1], i))
        BY <1>0, <1>5, <1>6, <2>3, <2>5, UnmovedMembers
    <2>9. Whole(a)'
        <3>1. a[2] \in Nat /\ a[2] >= 1 /\ \A i \in 1..a[2] : Linked(a[1], i)
            BY <2>1, <2>2, <2>3 DEF Replays, Whole, Address
        <3>2. \A i \in 1..a[2] : Linked(a[1], i)'
            BY <2>8, <3>1
        <3> QED
            BY <3>1, <3>2 DEF Whole
    <2>10. Beyond(p)'
        BY <1>0, <1>9, <2>1 DEF Beyond
    <2>11. Replays(p)'
        BY <1>0, <2>2, <2>6, <2>7, <2>9 DEF Replays, Whole
    <2> QED
        BY <2>10, <2>11
<1>14. Window(p)'
    BY <1>0, <1>1, <1>3, <1>9 DEF Window
<1>15. Mine(p)'
    BY <1>0, <1>13, <1>14 DEF Mine, Writing
<1>16. \A q \in Proc \ {p} : Mine(q)'
    BY <1>0, OthersMine DEF Critical, Appending
<1>17. ContentsInv'
    BY <1>9, <1>10, <1>15, <1>16 DEF ContentsInv
<1> QED
    BY <1>1, <1>3, <1>4, <1>7, <1>12, <1>17

(* A collection takes one file: what applied, or was thinned, does or is      *)
(* thinned now.                                                               *)
LEMMA CollectKeeps ==
    ASSUME TypeOK, SerialInv, ContentsInv, NEW p \in Proc, SweepFile(p), pc[p] = "gcSweep"
    PROVE  ContentsInv'
<1>0. /\ log' = log /\ pc' = pc /\ cur' = cur /\ doomed' = doomed
      /\ log \subseteq Entry /\ disk \subseteq File
    BY DEF SweepFile, file, local, TypeOK
<1>1. PICK f \in disk : disk' = disk \ {f}
    BY DEF SweepFile
<1>2. OneFile' /\ AddressOrder' /\ Stored(log)' = Stored(log)
    BY <1>0, <1>1 DEF ContentsInv, OneFile, AddressOrder, Stored
<1>3. NeverDamaged'
    <2> SUFFICES ASSUME NEW e \in Stored(log) PROVE Loads(e)' \/ Thinned(e.blob)'
        BY <1>2 DEF NeverDamaged
    <2>1. e.blob \in Address /\ (Loads(e) \/ Thinned(e.blob)) /\ OneFile
        BY <1>0 DEF Stored, ContentsInv, NeverDamaged, Entry
    <2> QED
        BY <1>0, <1>1, <2>1, RemovedThins
<1>4. Mine(p)'
    BY <1>0 DEF Mine, Writing
<1>5. \A q \in Proc \ {p} : Mine(q)'
    BY <1>0, OthersMine DEF Collecting
<1> QED
    BY <1>2, <1>3, <1>4, <1>5 DEF ContentsInv

-----------------------------------------------------------------------------
(* The other steps. *)

(* The header is published at its place after the others, once its contents   *)
(* replay.                                                                    *)
LEMMA PublishKeeps ==
    ASSUME TypeOK, SerialInv, ContentsInv, NEW p \in Proc, Publish(p)
    PROVE  /\ ContentsInv'
           /\ \A e \in log' : e.line > lines /\ e.blob # NoBlob => Loads(e)'
           /\ \A e \in log' : e.line > lines \/ e \in log
<1>0. /\ pc[p] = "publish" /\ disk' = disk /\ view[p] = log /\ Return(p)
      /\ log \subseteq Entry /\ lines \in Nat
      /\ \A e \in log : e.line \in Nat /\ e.line <= lines
    BY DEF Publish, SerialInv, Current, Relying, Appending, Placed, TypeOK, Entry
<1>1. PICK h : h = Header(p)
    OBVIOUS
<1>2. h.line = lines + 1 /\ h.blob = cur[p].blob /\ h.obs = cur[p].obs
    BY <1>1 DEF Header
<1>3. log' \subseteq log \cup {h}
    BY <1>0, <1>1, RetainedTypes DEF Publish, Rewrite
<1>4. Mine(p)' /\ \A q \in Proc \ {p} : Mine(q)'
    BY <1>0, ReturnedMine, OthersMine DEF Critical, Appending
<1>5. h.blob # NoBlob => (Loads(h)' /\ \A e \in Stored(log) : Before(e.blob, h.blob))
    <2> SUFFICES ASSUME h.blob # NoBlob
                 PROVE  Loads(h)' /\ \A e \in Stored(log) : Before(e.blob, h.blob)
        OBVIOUS
    <2>1. Beyond(p) /\ Replays(p)
        BY <1>0, <1>2 DEF ContentsInv, Mine, Writing
    <2>2. Loads(h)
        BY <1>2, <2>1 DEF Replays, Loads
    <2>3. Loads(h)'
        BY <1>0, <2>2 DEF Loads, Whole, Linked
    <2> QED
        BY <1>2, <2>1, <2>3 DEF Beyond
<1>6. /\ \A e : Loads(e)' <=> Loads(e)
      /\ \A a : Thinned(a)' <=> Thinned(a)
    BY <1>0 DEF Loads, Whole, Linked, Thinned, Present
<1>7. OneFile'
    BY <1>0 DEF ContentsInv, OneFile
<1>8. AddressOrder'
    <2> SUFFICES ASSUME NEW d \in log', NEW e \in log', d.blob # NoBlob, e.blob # NoBlob,
                        d.line < e.line
                 PROVE  Before(d.blob, e.blob)
        BY DEF AddressOrder
    <2>1. CASE d \in log /\ e \in log
        BY <2>1 DEF ContentsInv, AddressOrder
    <2>2. CASE d \in log /\ e = h
        BY <1>5, <2>2 DEF Stored
    <2>3. d # h
        BY <1>0, <1>2, <1>3
    <2> QED
        BY <1>3, <2>1, <2>2, <2>3
<1>9. \A e \in Stored(log)' : e \in Stored(log) \/ (e = h /\ h.blob # NoBlob)
    BY <1>3 DEF Stored
<1>11. NeverDamaged'
    BY <1>5, <1>6, <1>9 DEF ContentsInv, NeverDamaged
<1>12. \A e \in log' : e.line > lines /\ e.blob # NoBlob => Loads(e)'
    BY <1>0, <1>3, <1>5
<1> QED
    BY <1>3, <1>4, <1>7, <1>8, <1>11, <1>12, <1>0, <1>2 DEF ContentsInv

(* RewriteSummary changes no address and no identity.                         *)
LEMMA RewriteKeeps ==
    ASSUME TypeOK, SerialInv, ContentsInv, NEW p \in Proc, RewriteSummary(p)
    PROVE  /\ ContentsInv'
           /\ \A e \in log' : ~(e.line > lines)
           /\ \A e \in log' : \E d \in log : d.blob = e.blob /\ d.obs = e.obs
<1>0. /\ pc[p] = "rewrite" /\ disk' = disk /\ view[p] = log /\ Return(p)
      /\ log \subseteq Entry
    BY DEF RewriteSummary, SerialInv, Current, Relying, TypeOK
<1> DEFINE old == Target(p, log)
           new == {[e EXCEPT !.base = cur[p].base] : e \in old}
<1>1. log' = (log \ old) \cup new /\ old \subseteq log
    BY <1>0 DEF RewriteSummary, Rewrite, Target
<1>2. \A e \in new : \E d \in old : d.line = e.line /\ d.blob = e.blob /\ d.obs = e.obs
    BY <1>0, <1>1 DEF Entry
<1>3. \A e \in log' : \E d \in log : d.line = e.line /\ d.blob = e.blob /\ d.obs = e.obs
    BY <1>1, <1>2
<1>4. OneFile' /\ AddressOrder' /\ NeverDamaged'
    BY <1>0, <1>3, FewerLines
<1>5. Mine(p)' /\ \A q \in Proc \ {p} : Mine(q)'
    BY <1>0, ReturnedMine, OthersMine DEF Critical
<1>6. \A e \in log' : ~(e.line > lines)
    <2>1. \A d \in log : d.line \in Nat /\ lines \in Nat /\ d.line <= lines
        BY <1>0 DEF SerialInv, Placed, Entry, TypeOK
    <2> QED
        BY <1>3, <2>1
<1> QED
    BY <1>3, <1>4, <1>5, <1>6 DEF ContentsInv

(* Nor does a collection, which only drops lines.                             *)
LEMMA GCRewriteKeeps ==
    ASSUME TypeOK, SerialInv, ContentsInv, NEW p \in Proc, GCRewrite(p)
    PROVE  ContentsInv' /\ log' \subseteq log
<1>0. /\ pc[p] \in Collecting /\ disk' = disk /\ Return(p)
      /\ log' \subseteq log
    BY DEF GCRewrite, Rewrite, GCKept, SerialInv, Current, Relying, Collecting
<1>1. OneFile' /\ AddressOrder' /\ NeverDamaged'
    BY <1>0, FewerLines
<1>2. Mine(p)' /\ \A q \in Proc \ {p} : Mine(q)'
    BY <1>0, ReturnedMine, OthersMine
<1> QED
    BY <1>0, <1>1, <1>2 DEF ContentsInv

(* Calls that start, wait for the lock, read, end or die write nothing.       *)
LEMMA OtherKeeps ==
    ASSUME TypeOK, SerialInv, ContentsInv, NEW p \in Proc,
           \/ Begin(p) \/ Acquire(p) \/ Refuse(p) \/ SkipSame(p) \/ TakeUp(p) \/ EndPrune(p)
           \/ Reread(p) \/ GCList(p) \/ GCSwept(p) \/ Tear(p) \/ Stop(p)
    PROVE  ContentsInv' /\ log' = log /\ disk' = disk
<1>r. ASSUME Return(p), log' = log, disk' = disk PROVE ContentsInv'
    BY <1>r, ReturnedMine, QuietStep
<1>1. CASE Begin(p)
    <2>1. ASSUME NEW o \in Passes, Collect(p, o)
          PROVE  ContentsInv' /\ log' = log /\ disk' = disk
        <3>1. /\ log' = log /\ disk' = disk /\ cur' = cur /\ doomed' = doomed
              /\ pc'[p] = "gcList" /\ \A q \in Proc \ {p} : pc'[q] = pc[q]
            BY <2>1 DEF Collect, Goto, TypeOK, file
        <3>2. Mine(p)'
            BY <3>1 DEF Mine, Writing
        <3> QED
            BY <3>1, <3>2, QuietStep
    <2>2. ASSUME NEW o \in Observation, RecordAgain(p, o)
          PROVE  ContentsInv' /\ log' = log /\ disk' = disk
        <3>1. /\ log' = log /\ disk' = disk /\ pc' = pc /\ cur' = cur /\ doomed' = doomed
              /\ pc[p] = "idle"
            BY <2>2 DEF RecordAgain, Start, file, local
        <3>2. Mine(p)'
            BY <3>1 DEF Mine, Writing
        <3> QED
            BY <3>1, <3>2, QuietStep
    <2>3. ASSUME NEW d, d.blob = NoBlob, NEW at \in {"acquire", "mend"},
                 cur' = [cur EXCEPT ![p] = d], Goto(p, at), doomed' = doomed,
                 log' = log, disk' = disk
          PROVE  ContentsInv'
        <3>1. /\ pc'[p] = at /\ cur'[p] = d
              /\ \A q \in Proc \ {p} : pc'[q] = pc[q] /\ cur'[q] = cur[q] /\ doomed'[q] = doomed[q]
            BY <2>3 DEF Goto, TypeOK
        <3>2. Mine(p)'
            BY <2>3, <3>1 DEF Mine, Writing
        <3> QED
            BY <2>3, <3>1, <3>2, QuietStep
    <2>4. ASSUME NEW o \in Observation, Record(p, o) \/ Import(p, o)
          PROVE  ContentsInv' /\ log' = log /\ disk' = disk
        <3>1. PICK d : d.blob = NoBlob /\ cur' = [cur EXCEPT ![p] = d]
            <4>1. CASE Record(p, o)
                <5>1. PICK b : cur' = [cur EXCEPT ![p] = [Blank EXCEPT !.obs = o, !.base = b,
                                                                       !.remember = TRUE]]
                    BY <4>1 DEF Record
                <5>2. [Blank EXCEPT !.obs = o, !.base = b, !.remember = TRUE].blob = NoBlob
                    BY DEF Blank
                <5> QED
                    BY <5>1, <5>2
            <4>2. CASE Import(p, o)
                <5>1. PICK b : cur' = [cur EXCEPT ![p] = [Blank EXCEPT !.obs = o, !.base = b]]
                    BY <4>2 DEF Import
                <5>2. [Blank EXCEPT !.obs = o, !.base = b].blob = NoBlob
                    BY DEF Blank
                <5> QED
                    BY <5>1, <5>2
            <4> QED
                BY <2>4, <4>1, <4>2
        <3>2. Goto(p, "acquire") /\ doomed' = doomed /\ log' = log /\ disk' = disk
            BY <2>4 DEF Record, Import, file
        <3> QED
            BY <2>3, <3>1, <3>2
    <2>5. CASE Mend(p)
        <3>1. PICK d : d.blob = NoBlob /\ cur' = [cur EXCEPT ![p] = d]
            <4>1. PICK e, b : cur' = [cur EXCEPT ![p] = [Blank EXCEPT !.obs = e.obs, !.seq = e.seq,
                                                                     !.base = b]]
                BY <2>5 DEF Mend
            <4>2. [Blank EXCEPT !.obs = e.obs, !.seq = e.seq, !.base = b].blob = NoBlob
                BY DEF Blank
            <4> QED
                BY <4>1, <4>2
        <3>2. Goto(p, "mend") /\ doomed' = doomed /\ log' = log /\ disk' = disk
            BY <2>5 DEF Mend, file
        <3> QED
            BY <2>3, <3>1, <3>2
    <2> QED
        BY <1>1, <2>1, <2>2, <2>4, <2>5 DEF Begin
<1>2. ASSUME NEW at, Goto(p, at), log' = log, disk' = disk,
             \A q \in Proc \ {p} : cur'[q] = cur[q] /\ doomed'[q] = doomed[q],
             cur'[p].blob = cur[p].blob,
             \/ at = "read" /\ pc[p] = "acquire"
             \/ at \in {"place", "publish"} /\ pc[p] = "read"
             \/ at \in {"reread", "rewrite"}
      PROVE  ContentsInv'
    <2>1. pc'[p] = at /\ \A q \in Proc \ {p} : pc'[q] = pc[q]
        BY <1>2 DEF Goto, TypeOK
    <2>2. Mine(p)
        BY DEF ContentsInv
    <2>3. Mine(p)'
        BY <1>2, <2>1, <2>2 DEF Mine, Writing
    <2> QED
        BY <1>2, <2>1, <2>3, QuietStep
<1>3. CASE Acquire(p)
    <2>1. log' = log /\ disk' = disk /\ cur' = cur /\ doomed' = doomed
        BY <1>3 DEF Acquire, file, local
    <2>2. \/ Goto(p, "read") /\ pc[p] = "acquire"
          \/ Goto(p, "reread")
        BY <1>3 DEF Acquire
    <2> QED
        BY <1>2, <2>1, <2>2
<1>4. CASE Refuse(p) \/ SkipSame(p) \/ Tear(p) \/ Stop(p)
    BY <1>r, <1>4 DEF Refuse, SkipSame, Tear, Stop, file
<1>5. CASE TakeUp(p)
    <2>1. /\ log' = log /\ disk' = disk /\ doomed' = doomed /\ pc[p] = "read"
          /\ cur'[p].blob = cur[p].blob
          /\ \A q \in Proc \ {p} : cur'[q] = cur[q]
          /\ \E at \in {"place", "publish"} : Goto(p, at)
        BY <1>5 DEF TakeUp, TypeOK, Draft
    <2> QED
        BY <1>2, <2>1
<1>6. CASE EndPrune(p)
    <2>0. pc[p] = "sweep" /\ log' = log /\ disk' = disk
        BY <1>6 DEF EndPrune, file
    <2>1. CASE GiveUpContents(p)
        BY <2>0, <2>1, GivenUp
    <2>2. CASE ~GiveUpContents(p)
        <3>1. /\ pc'[p] = "publish" /\ cur' = cur
              /\ \A q \in Proc \ {p} : pc'[q] = pc[q] /\ doomed'[q] = doomed[q]
            BY <1>6, <2>2 DEF EndPrune, Goto, TypeOK
        <3>2. Mine(p)
            BY DEF ContentsInv
        <3>3. (Beyond(p) => Beyond(p)') /\ (Replays(p) => Replays(p)')
            BY <2>0, <3>1 DEF Beyond, Replays, Stored, Whole, Linked
        <3>4. Mine(p)'
            BY <2>0, <3>1, <3>2, <3>3 DEF Mine, Writing
        <3> QED
            BY <2>0, <3>1, <3>4, QuietStep
    <2> QED
        BY <2>0, <2>1, <2>2
<1>7. CASE Reread(p)
    <2>0. log' = log /\ disk' = disk
        BY <1>7 DEF Reread, file
    <2>1. CASE Return(p)
        BY <1>r, <2>0, <2>1
    <2>2. CASE ~Return(p)
        BY <1>2, <1>7, <2>0, <2>2 DEF Reread
    <2> QED
        BY <2>0, <2>1, <2>2
<1>8. CASE GCList(p) \/ GCSwept(p)
    <2>0. log' = log /\ disk' = disk
        BY <1>8 DEF GCList, GCSwept, file
    <2>1. CASE Return(p)
        BY <1>r, <2>0, <2>1
    <2>2. CASE ~Return(p)
        <3>1. /\ cur' = cur /\ \A q \in Proc \ {p} : pc'[q] = pc[q] /\ doomed'[q] = doomed[q]
              /\ pc'[p] \in {"gcSweep", "gcRewrite"}
            BY <1>8, <2>2 DEF GCList, GCSwept, Goto, TypeOK, local
        <3>2. Mine(p)'
            BY <3>1 DEF Mine, Writing
        <3> QED
            BY <2>0, <3>1, <3>2, QuietStep
    <2> QED
        BY <2>0, <2>1, <2>2
<1> QED
    BY <1>1, <1>3, <1>4, <1>5, <1>6, <1>7, <1>8

-----------------------------------------------------------------------------
(* What holds of every state and every step. *)

StoreInv == TypeInv /\ SerialInv /\ CapsInv /\ Requested /\ ContentsInv

(* The empty store.                                                           *)
LEMMA StoreInit == Init => StoreInv
BY TypeInit, SerialInit, CapsInit, RequestedInit, ContentsInit DEF StoreInv

(* Reading a chain depends on the directory alone.                            *)
LEMMA SameDisk ==
    ASSUME disk' = disk
    PROVE  \A e : Loads(e)' <=> Loads(e)
BY DEF Loads, Whole, Linked

(* The steps of a store whose calls are undisturbed: what each may do to the  *)
(* log and to the contents it refers to.                                      *)
LEMMA StoreSteps ==
    ASSUME StoreInv, TypeInv', [Next]_vars
    PROVE  /\ ContentsInv'
           /\ \A e \in log' : e.line > lines /\ e.blob # NoBlob => Loads(e)'
           /\ \A e \in log' : e.line > lines \/ \E d \in log : d.blob = e.blob /\ d.obs = e.obs
           /\ \/ disk' = disk
              \/ log' = log /\ \E p \in Proc : Store(p) \/ SweepFile(p)
<1> USE DEF StoreInv, TypeInv
<1>0. \A e \in log : ~(e.line > lines)
    BY DEF SerialInv, Placed, TypeOK, Entry
<1>1. ASSUME NEW p \in Proc, Place(p) \/ Prune(p) \/ SweepFile(p) \/ Store(p)
      PROVE  ContentsInv' /\ log' = log /\ (disk' = disk \/ SweepFile(p) \/ Store(p))
    <2>1. log' = log /\ (disk' = disk \/ SweepFile(p) \/ Store(p))
        BY <1>1 DEF Place, Prune, SweepFile, Store, file
    <2>2. SweepFile(p) => pc[p] \in {"sweep", "gcSweep"}
        BY DEF SweepFile
    <2> QED
        BY <1>1, <2>1, <2>2, PlaceKeeps, PruneKeeps, SweepKeeps, CollectKeeps, StoreKeeps
<1>2. ASSUME NEW p \in Proc, Publish(p) \/ RewriteSummary(p) \/ GCRewrite(p)
      PROVE  /\ ContentsInv' /\ disk' = disk
             /\ \A e \in log' : e.line > lines /\ e.blob # NoBlob => Loads(e)'
             /\ \A e \in log' : e.line > lines \/ \E d \in log : d.blob = e.blob /\ d.obs = e.obs
    <2>1. disk' = disk
        BY <1>2 DEF Publish, RewriteSummary, GCRewrite
    <2> QED
        BY <1>0, <1>2, <2>1, PublishKeeps, RewriteKeeps, GCRewriteKeeps
<1>3. ASSUME NEW p \in Proc,
             \/ Begin(p) \/ Acquire(p) \/ Refuse(p) \/ SkipSame(p) \/ TakeUp(p) \/ EndPrune(p)
             \/ Reread(p) \/ GCList(p) \/ GCSwept(p) \/ Tear(p) \/ Stop(p)
      PROVE  ContentsInv' /\ log' = log /\ disk' = disk
    BY <1>3, OtherKeeps
<1>4. CASE UNCHANGED vars \/ Finished
    <2>1. log' = log /\ disk' = disk /\ pc' = pc /\ cur' = cur /\ doomed' = doomed
        BY <1>4 DEF Finished, vars, file, local
    <2>2. ASSUME NEW p \in Proc PROVE Mine(p)'
        <3>1. Mine(p)
            BY DEF ContentsInv
        <3>2. /\ Beyond(p) => Beyond(p)'
              /\ Based(p) => Based(p)'
              /\ Replays(p) => Replays(p)'
            BY <2>1 DEF Beyond, Based, Replays, Stored, Whole, Linked
        <3>3. Window(p) => Window(p)'
            BY <2>1 DEF Window, Stored
        <3> QED
            BY <2>1, <3>1, <3>2, <3>3 DEF Mine
    <2>3. OneFile' /\ AddressOrder' /\ NeverDamaged'
        BY <2>1, FewerLines
    <2> QED
        BY <1>0, <2>1, <2>2, <2>3 DEF ContentsInv
<1>5. ASSUME NEW p \in Proc, Begin(p) \/ Step(p) \/ Tear(p) \/ Stop(p)
      PROVE  \/ Place(p) \/ Prune(p) \/ SweepFile(p) \/ Store(p)
             \/ Publish(p) \/ RewriteSummary(p) \/ GCRewrite(p)
             \/ Begin(p) \/ Acquire(p) \/ Refuse(p) \/ SkipSame(p) \/ TakeUp(p) \/ EndPrune(p)
             \/ Reread(p) \/ GCList(p) \/ GCSwept(p) \/ Tear(p) \/ Stop(p)
    BY <1>5 DEF Step
<1> QED
    BY <1>0, <1>1, <1>2, <1>3, <1>4, <1>5 DEF Next

(* Every step keeps the store.                                                *)
LEMMA StoreStep ==
    ASSUME Undisturbed, StoreInv, [Next]_vars
    PROVE  StoreInv'
<1>1. TypeInv' /\ SerialInv' /\ CapsInv' /\ Requested'
    BY TypeStep, SerialStep, CapsStep, RequestedStep DEF StoreInv, TypeInv
<1> QED
    BY <1>1, StoreSteps DEF StoreInv

(* No two revisions claim the same stored contents, although addresses that   *)
(* crashes, evictions and collections left behind are written again. For one  *)
(* process, and for any number of them that get the lock and do not collect.  *)
THEOREM Addresses ==
    ASSUME Undisturbed
    PROVE  Spec => []OneAddress
<1>1. StoreInv => OneAddress
    <2> SUFFICES ASSUME StoreInv, NEW d \in log, NEW e \in log, d.blob = e.blob,
                        d.blob # NoBlob, d.line # e.line
                 PROVE  FALSE
        BY DEF OneAddress
    <2>1. d.line \in Nat /\ e.line \in Nat /\ d.blob \in Address
        BY DEF StoreInv, TypeInv, TypeOK, Entry
    <2>2. Before(d.blob, e.blob) \/ Before(e.blob, d.blob)
        BY <2>1 DEF StoreInv, ContentsInv, AddressOrder
    <2> QED
        BY <2>1, <2>2 DEF Before, Address
<1>2. StoreInv /\ [Next]_vars => StoreInv'
    BY StoreStep
<1> QED
    BY StoreInit, <1>1, <1>2, PTL DEF Spec

(* A revision's contents are rebuilt exactly or reported as thinned, wherever *)
(* writeBlob, pruneSegments and GC die, and whatever retention and            *)
(* collections drop in between. For one process, and for any number of them   *)
(* that get the lock and do not collect.                                      *)
THEOREM ChainsApply ==
    ASSUME Undisturbed
    PROVE  Spec => []NeverDamaged
<1>1. StoreInv => NeverDamaged
    BY DEF StoreInv, ContentsInv
<1>2. StoreInv /\ [Next]_vars => StoreInv'
    BY StoreStep
<1> QED
    BY StoreInit, <1>1, <1>2, PTL DEF Spec

(* A header that refers to contents is published once they replay: for one    *)
(* process, and for any number of them that get the lock and do not collect.  *)
THEOREM ContentsFirst ==
    ASSUME Undisturbed
    PROVE  Spec => ContentsBeforeHeader
<1>1. StoreInv /\ StoreInv' /\ [Next]_vars =>
         [\A e \in log' : e.line > lines /\ e.blob # NoBlob => Loads(e)']_vars
    BY StoreSteps DEF StoreInv
<1>2. StoreInv /\ [Next]_vars => StoreInv'
    BY StoreStep
<1> QED
    BY StoreInit, <1>1, <1>2, PTL DEF Spec, ContentsBeforeHeader

-----------------------------------------------------------------------------
(* Where nobody collects, what pruning leaves.                               *)

(* Every step keeps the order in which segments go.                           *)
LEMMA IntactStep ==
    ASSUME Collectors = {}, StoreInv, TypeInv', Intact, [Next]_vars
    PROVE  Intact'
<1> SUFFICES ASSUME NEW e \in Stored(log)', NEW g \in disk', g.seg < e.blob[1]
             PROVE  Loads(e)'
    BY DEF Intact
<1> USE DEF StoreInv, TypeInv
<1>0. \A p \in Proc : pc[p] # "gcSweep"
    BY DEF Requested, Collecting
<1>1. CASE disk' = disk
    <2>1. \A x : Loads(x)' <=> Loads(x)
        BY <1>1, SameDisk
    <2>2. CASE e.line > lines
        BY <2>2, StoreSteps DEF Stored
    <2>3. ASSUME NEW d \in log, d.blob = e.blob, d.obs = e.obs PROVE Loads(e)'
        <3>1. d \in Stored(log)
            BY <2>3 DEF Stored
        <3>2. Loads(d)
            BY <1>1, <2>3, <3>1 DEF Intact
        <3>3. Loads(e)
            BY <2>3, <3>2 DEF Loads
        <3> QED
            BY <2>1, <3>3
    <2> QED
        BY <2>2, <2>3, StoreSteps DEF Stored
<1>2. ASSUME NEW p \in Proc, Store(p), log' = log PROVE Loads(e)'
    <2>1. e \in Stored(log)
        BY <1>2 DEF Stored
    <2>2. g \in disk /\ (Loads(e)' <=> Loads(e))
        BY <1>2, <2>1, StoreKeeps
    <2> QED
        BY <2>1, <2>2 DEF Intact
<1>3. ASSUME NEW p \in Proc, SweepFile(p), log' = log PROVE Loads(e)'
    <2>1. e \in Stored(log) /\ disk' \subseteq disk
        BY <1>3 DEF Stored, SweepFile
    <2>2. pc[p] = "sweep"
        BY <1>0, <1>3 DEF SweepFile
    <2>3. PICK f \in disk : /\ \A x \in disk : ~(x.seg < f.seg)
                            /\ \A x \in Stored(log) : x.blob[1] > f.seg
                                                        => (Loads(x)' <=> Loads(x))
        BY <1>3, <2>2, SweepKeeps
    <2>4. g \in disk /\ ~(g.seg < f.seg) /\ g.seg \in Nat /\ f.seg \in Nat /\ e.blob[1] \in Nat
        BY <2>1, <2>3 DEF TypeOK, File, Stored, Entry, Address
    <2>5. Loads(e) /\ e.blob[1] > f.seg
        BY <2>1, <2>4 DEF Intact
    <2> QED
        BY <2>1, <2>3, <2>5
<1> QED
    BY <1>1, <1>2, <1>3, StoreSteps

(* A directory nobody collects in is the empty one to begin with.             *)
LEMMA IntactInit == Init => Intact
BY DEF Init, Intact, Stored

(* Where nobody collects, no step takes the contents a next patch would be    *)
(* computed against. For one process, and for any number of them that get the *)
(* lock.                                                                      *)
THEOREM NewestKept ==
    ASSUME Undisturbed, Collectors = {}
    PROVE  Spec => NewestStays
<1>1. StoreInv /\ StoreInv' /\ [Next]_vars =>
         [\A e \in Stored(log) : IsLast(e, Stored(log)) /\ Loads(e) => Loads(e)']_vars
    <2> SUFFICES ASSUME StoreInv, StoreInv', [Next]_vars, NEW e \in Stored(log),
                        IsLast(e, Stored(log)), Loads(e)
                 PROVE  Loads(e)'
        OBVIOUS
    <2>1. CASE disk' = disk
        BY <2>1, SameDisk
    <2>2. ASSUME NEW p \in Proc, Store(p) PROVE Loads(e)'
        BY <2>2, StoreKeeps DEF StoreInv, TypeInv
    <2>3. ASSUME NEW p \in Proc, SweepFile(p) PROVE Loads(e)'
        <3>1. pc[p] = "sweep"
            BY <2>3 DEF SweepFile, StoreInv, Requested, Collecting
        <3> QED
            BY <2>3, <3>1, SweepKeeps DEF StoreInv, TypeInv
    <2> QED
        BY <2>1, <2>2, <2>3, StoreSteps DEF StoreInv
<1>2. StoreInv /\ [Next]_vars => StoreInv'
    BY StoreStep
<1> QED
    BY StoreInit, <1>1, <1>2, PTL DEF Spec, NewestStays

(* Where nobody collects, pruning leaves the contents of BlobKeep revisions,  *)
(* also when it resumes what an earlier call left half removed. For one       *)
(* process, and for any number of them that get the lock.                     *)
THEOREM WindowKept ==
    ASSUME Undisturbed, Collectors = {}
    PROVE  Spec => PruningKeepsWindow
<1> DEFINE Inv == StoreInv /\ Intact
<1>0. Init => Inv
    BY StoreInit, IntactInit
<1>1. Inv /\ Inv' /\ [Next]_vars =>
         [log' = log /\ Cardinality(Replayable') < Cardinality(Replayable)
            => Cardinality(Replayable') >= BlobKeep]_vars
    <2> SUFFICES ASSUME Inv, Inv', [Next]_vars, log' = log,
                        Cardinality(Replayable') < Cardinality(Replayable)
                 PROVE  Cardinality(Replayable') >= BlobKeep
        OBVIOUS
    <2>1. IsFiniteSet(Replayable) /\ IsFiniteSet(Replayable')
        BY FS_Subset DEF StoreInv, CapsInv, Replayable
    <2>2. \A e \in log : Loads(e) \/ Loads(e)' => e \in Stored(log)
        BY DEF Loads, Whole, Stored, NoBlob
    <2>3. CASE \A e \in Stored(log) : Loads(e)' <=> Loads(e)
        <3>1. Replayable' = Replayable
            BY <2>2, <2>3 DEF Replayable
        <3>2. Cardinality(Replayable) \in Nat
            BY <2>1, FS_CardinalityType
        <3> QED
            BY <3>1, <3>2
    <2>4. ASSUME NEW p \in Proc, SweepFile(p) PROVE Cardinality(Replayable') >= BlobKeep
        <3>0. pc[p] = "sweep"
            BY <2>4 DEF SweepFile, StoreInv, Requested, Collecting
        <3>1. PICK f \in disk : /\ f.seg \in doomed[p] /\ Window(p)
                                /\ \A e \in Stored(log) : e.blob[1] > f.seg
                                                            => (Loads(e)' <=> Loads(e))
            BY <2>4, <3>0, SweepKeeps DEF StoreInv, TypeInv
        <3> DEFINE S == {e \in Stored(log) : e.blob[1] > f.seg}
        <3>2. Cardinality(S) >= BlobKeep
            BY <3>1 DEF Window
        <3>3. S \subseteq Replayable'
            <4> SUFFICES ASSUME NEW e \in S PROVE e \in log' /\ Loads(e)'
                BY DEF Replayable
            <4>1. e \in log /\ e \in Stored(log) /\ e.blob[1] > f.seg
                BY DEF Stored
            <4>2. f.seg \in Nat /\ e.blob[1] \in Nat
                BY <4>1 DEF StoreInv, TypeInv, TypeOK, File, Entry, Address
            <4>3. Loads(e)
                BY <4>1, <4>2 DEF Intact
            <4> QED
                BY <3>1, <4>1, <4>3
        <3>4. IsFiniteSet(S) /\ Cardinality(S) <= Cardinality(Replayable')
            BY <2>1, <3>3, FS_Subset
        <3>5. Cardinality(S) \in Nat /\ Cardinality(Replayable') \in Nat
            BY <2>1, <3>4, FS_CardinalityType
        <3> HIDE DEF S
        <3> QED
            BY <3>2, <3>4, <3>5, ConstantsOK
    <2>5. CASE disk' = disk
        BY <2>3, <2>5, SameDisk
    <2>6. ASSUME NEW p \in Proc, Store(p) PROVE Cardinality(Replayable') >= BlobKeep
        BY <2>3, <2>6, StoreKeeps DEF StoreInv, TypeInv
    <2> QED
        BY <2>4, <2>5, <2>6, StoreSteps DEF StoreInv
<1>2. Inv /\ [Next]_vars => Inv'
    BY StoreStep, IntactStep DEF StoreInv
<1> QED
    BY <1>0, <1>1, <1>2, PTL DEF Spec, PruningKeepsWindow

-----------------------------------------------------------------------------
(* Collections.                                                              *)

\* What a collection removes was old enough: an orphan has no member left, and
\* every member of a thinned segment is older than the cutoff.
Aged ==
    \A p \in Proc : pc[p] = "gcSweep" =>
        \A s \in doomed[p] : \A e \in Referring(view[p], opts[p], s) : e.obs.at < opts[p].before

(* Nobody collects yet.                                                       *)
LEMMA AgedInit == Init => Aged
BY DEF Init, Aged

(* GC removes what it picked when it listed the segments.                     *)
LEMMA AgedStep == TypeOK /\ Aged /\ [Next]_vars => Aged'
<1> SUFFICES ASSUME TypeOK, Aged, [Next]_vars PROVE Aged'
    OBVIOUS
<1>1. ASSUME NEW p \in Proc, pc'[p] # "gcSweep",
             \A q \in Proc \ {p} : /\ pc'[q] = pc[q] /\ view'[q] = view[q]
                                   /\ doomed'[q] = doomed[q] /\ opts'[q] = opts[q]
      PROVE  Aged'
    BY <1>1 DEF Aged, Referring, GCKept, Stored
<1>2. ASSUME NEW p \in Proc, Return(p) PROVE Aged'
    BY <1>1, <1>2 DEF Return, Goto, TypeOK
<1>3. CASE UNCHANGED <<pc, view, doomed, opts>>
    BY <1>3 DEF Aged, Referring, GCKept, Stored
<1>4. ASSUME NEW p \in Proc, Begin(p) PROVE Aged'
    <2>1. \/ UNCHANGED <<pc, view, doomed, opts>>
          \/ /\ pc'[p] \in {"acquire", "mend", "gcList"}
             /\ \A q \in Proc \ {p} : /\ pc'[q] = pc[q] /\ view'[q] = view[q]
                                      /\ doomed'[q] = doomed[q] /\ opts'[q] = opts[q]
        BY <1>4 DEF Begin, Record, RecordAgain, Import, Mend, Collect, Goto, TypeOK, local
    <2> QED
        BY <1>1, <1>3, <2>1
<1>5. ASSUME NEW p \in Proc,
             \/ Acquire(p) \/ TakeUp(p) \/ Prune(p) \/ Reread(p) \/ GCSwept(p)
             \/ Place(p) \/ Store(p) \/ EndPrune(p)
      PROVE  Aged'
    <2>1. \/ Return(p)
          \/ /\ pc'[p] # "gcSweep"
             /\ \A q \in Proc \ {p} : /\ pc'[q] = pc[q] /\ view'[q] = view[q]
                                      /\ doomed'[q] = doomed[q] /\ opts'[q] = opts[q]
        <3>1. CASE Acquire(p) \/ TakeUp(p) \/ Prune(p) \/ Reread(p) \/ GCSwept(p)
            BY <3>1 DEF Acquire, TakeUp, Prune, Reread, GCSwept, Goto, TypeOK, local
        <3>2. CASE Place(p) \/ Store(p) \/ EndPrune(p)
            BY <3>2 DEF Place, Store, EndPrune, GiveUpContents, PlaceAt, Goto, TypeOK
        <3> QED
            BY <1>5, <3>1, <3>2
    <2> QED
        BY <1>1, <1>2, <2>1
<1>6. ASSUME NEW p \in Proc,
             \/ Refuse(p) \/ SkipSame(p) \/ Publish(p) \/ RewriteSummary(p) \/ GCRewrite(p)
             \/ Tear(p) \/ Stop(p)
      PROVE  Aged'
    BY <1>2, <1>6 DEF Refuse, SkipSame, Publish, RewriteSummary, GCRewrite, Tear, Stop
<1>7. ASSUME NEW p \in Proc, SweepFile(p) PROVE Aged'
    BY <1>3, <1>7 DEF SweepFile, local
<1>8. ASSUME NEW p \in Proc, GCList(p), ~Return(p) PROVE Aged'
    <2>1. /\ doomed'[p] = GCOrphans(view[p], opts[p]) \cup GCThinned(view[p], opts[p])
          /\ view' = view /\ opts' = opts
          /\ \A q \in Proc \ {p} : pc'[q] = pc[q] /\ doomed'[q] = doomed[q]
        BY <1>8 DEF GCList, Goto, TypeOK
    <2>2. \A s \in doomed'[p] : \A e \in Referring(view[p], opts[p], s) :
              e.obs.at < opts[p].before
        BY <2>1 DEF GCOrphans, GCThinned
    <2>3. \A q \in Proc : \A s : Referring(view[q], opts[q], s)' = Referring(view[q], opts[q], s)
        BY <2>1 DEF Referring, GCKept, Stored
    <2> QED
        BY <2>1, <2>2, <2>3 DEF Aged
<1>9. CASE UNCHANGED vars \/ Finished
    BY <1>3, <1>9 DEF vars, local, Finished
<1> QED
    BY <1>2, <1>4, <1>5, <1>6, <1>7, <1>8, <1>9 DEF Next, Step

(* A collection makes unreadable only what it was asked to: revisions of the  *)
(* kinds it prunes, and revisions older than its cutoff. The segments it      *)
(* picked go on being those, since nobody appends while it removes them.      *)
THEOREM CollectionsAsAsked ==
    ASSUME Undisturbed
    PROVE  Spec => CollectsAsAsked
<1> DEFINE Inv == TypeInv /\ SerialInv /\ Aged
<1>1. Init => Inv
    BY TypeInit, SerialInit, AgedInit
<1>2. Inv /\ [Next]_vars => Inv'
    BY TypeStep, SerialStep, AgedStep DEF TypeInv
<1>3. Inv /\ Inv' /\ [Next]_vars =>
         [\A e \in log, p \in Proc :
              pc[p] = "gcSweep" /\ Loads(e) /\ ~Loads(e)'
                => e \notin GCKept({e}, opts[p]) \/ e.obs.at < opts[p].before]_vars
    <2> SUFFICES ASSUME Inv, Inv', [Next]_vars, NEW e \in log, NEW p \in Proc,
                        pc[p] = "gcSweep", Loads(e), ~Loads(e)', e \in GCKept({e}, opts[p])
                 PROVE  e.obs.at < opts[p].before
        OBVIOUS
    <2> USE DEF TypeInv
    <2>1. view[p] = log /\ Alone
        BY DEF SerialInv, NoCollection, Current, Relying, Collecting
    <2>2. disk' # disk
        BY SameDisk
    <2>3. SweepFile(p)
        <3>1. \A q \in Proc : q = p
            BY <2>1 DEF Alone
        <3>2. ASSUME NEW q \in Proc, Begin(q) \/ Tear(q) \/ Stop(q) PROVE disk' = disk
            BY <3>2 DEF Begin, Record, RecordAgain, Import, Mend, Collect, Tear, Stop
        <3>3. ASSUME NEW q \in Proc, Step(q), ~Store(q), ~SweepFile(q) PROVE disk' = disk
            BY <3>3 DEF Step, Acquire, Refuse, SkipSame, TakeUp, Place, Prune, EndPrune,
                        Publish, Reread, RewriteSummary, GCList, GCSwept, GCRewrite
        <3>4. ~Store(p)
            BY DEF Store
        <3>5. ~(UNCHANGED vars \/ Finished)
            BY <2>2 DEF vars, Finished
        <3> QED
            BY <2>2, <3>1, <3>2, <3>3, <3>4, <3>5 DEF Next
    <2>4. PICK f \in disk : f.seg \in doomed[p] /\ disk' = disk \ {f}
        BY <2>3 DEF SweepFile
    <2>5. e.blob \in Address /\ disk \subseteq File /\ disk' \subseteq File
        BY DEF TypeOK, Entry
    <2>6. e.blob[1] = f.seg
        <3>1. ASSUME e.blob[1] # f.seg PROVE Unmoved(e.blob)
            BY <2>4, <3>1 DEF Unmoved
        <3> QED
            BY <2>5, <3>1, UnmovedLoads
    <2>7. e \in Stored(log)
        BY DEF Loads, Whole, Stored, NoBlob
    <2>8. e \in Referring(view[p], opts[p], f.seg)
        BY <2>1, <2>6, <2>7 DEF Referring, GCKept, Stored
    <2> QED
        BY <2>4, <2>8 DEF Aged
<1> QED
    BY <1>1, <1>2, <1>3, PTL DEF Spec, CollectsAsAsked

=============================================================================
