------------------------ MODULE HistoryShare_chains -------------------------
(***************************************************************************)
(* Chains break only by a race or a torn line, anchors are found again,    *)
(* and a store is clean once the syncer has brought every file everywhere. *)
(***************************************************************************)
EXTENDS HistoryShare_proofs

-----------------------------------------------------------------------------
(* Chain files. *)

\* A record of h's file links to the one before, forks from an earlier one in a
\* race of two commands, or is behind a malformed one.
Placed(c, h, i) ==
    \/ Links(c, i)
    \/ Crowded(h) /\ Forks(c, i)
    \/ \E j \in 1..i : c[j] = Malformed

Fine(c, h) == \A i \in 1..Cut(c) : Placed(c, h, i)

\* A head that a command of h took from the file: that of its last record, or of
\* an earlier one when other commands appended since.
Taking(c, h, head) ==
    \E n \in 0..Cut(c) : head = HeadAt(c, n) /\ (Crowded(h) \/ n = Cut(c))

\* The lines a call has in hand are chained to a head and to one another.
Follows(head, new) ==
    \A k \in 1..Len(new) :
        /\ new[k].body.kind \in {"revision", "prune"}
        /\ new[k].prev = IF k = 1 THEN head ELSE ShareRecordHash(new[k - 1])

\* They are, but for a last one that was cut short.
FollowsTorn(head, new) ==
    \A k \in 1..Len(new) :
        \/ new[k] = Partial /\ k = Len(new)
        \/ /\ new[k].body.kind \in {"revision", "prune"}
           /\ new[k].prev = IF k = 1 THEN head ELSE ShareRecordHash(new[k - 1])

\* A push that remembers a finds it in c, or c is broken.
Known(c, a) ==
    \/ a = <<>>
    \/ \E i \in DOMAIN c : c[i] = Malformed
    \/ \E i \in DOMAIN Records(c) : ShareRecordHash(Records(c)[i]) = a

(* A line of the two kinds that are written is no fragment.                   *)
LEMMA NoFragment ==
    ASSUME NEW l, l.body.kind \in {"revision", "prune"}
    PROVE  l # Partial /\ l # Malformed /\ l.body.kind # "partial" /\ l.body.kind # "malformed"
BY DEF Partial, Malformed, Fragment

(* The head of a file is that of its last record.                             *)
LEMMA HeadOfFile ==
    ASSUME NEW c \in Seq(Line)
    PROVE  ChainHead(c) = HeadAt(c, Cut(c))
<1>1. /\ Cut(c) \in Nat /\ DOMAIN Records(c) = 1..Cut(c)
      /\ \A i \in 1..Cut(c) : Records(c)[i] = c[i]
    BY CutRecords
<1>2. Len(Records(c)) = Cut(c)
    BY RecordsType DEF Cut
<1>3. CASE Cut(c) = 0
    BY <1>2, <1>3 DEF ChainHead, HeadAt
<1>4. CASE Cut(c) # 0
    <2>1. Cut(c) \in 1..Cut(c)
        BY <1>1, <1>4
    <2>2. ChainHead(c) = ShareRecordHash(Records(c)[Cut(c)])
        BY <1>2, <1>4 DEF ChainHead, HeadAt
    <2> QED
        BY <1>1, <1>4, <2>1, <2>2 DEF HeadAt
<1> QED
    BY <1>3, <1>4

(* A command that opens the store takes the head of the last record.          *)
LEMMA OpeningTakes ==
    ASSUME NEW c \in Seq(Line), NEW h
    PROVE  Taking(c, h, ChainHead(c))
<1>1. Cut(c) \in 0..Cut(c)
    BY CutRecords
<1> QED
    BY <1>1, HeadOfFile DEF Taking

(* What it takes is in the file.                                              *)
LEMMA TakenKnown ==
    ASSUME NEW c \in Seq(Line), NEW h, NEW head, Taking(c, h, head)
    PROVE  Known(c, head)
<1>1. PICK n \in 0..Cut(c) : head = HeadAt(c, n)
    BY DEF Taking
<1>2. /\ Cut(c) \in Nat /\ DOMAIN Records(c) = 1..Cut(c)
      /\ \A i \in 1..Cut(c) : Records(c)[i] = c[i]
    BY CutRecords
<1>3. CASE n = 0
    BY <1>1, <1>3 DEF HeadAt, Known
<1>4. CASE n # 0
    <2>1. n \in 1..Cut(c)
        BY <1>2, <1>4
    <2> QED
        BY <1>1, <1>2, <1>4, <2>1 DEF HeadAt, Known
<1> QED
    BY <1>3, <1>4

(* It stays so when other commands append.                                    *)
LEMMA TakenStays ==
    ASSUME NEW c \in Seq(Line), NEW new \in Seq(Line), NEW h, Crowded(h), NEW head,
           Taking(c, h, head)
    PROVE  Taking(Written(c, new), h, head)
<1>1. PICK n \in 0..Cut(c) : head = HeadAt(c, n)
    BY DEF Taking
<1>2. PICK w : w = Written(c, new)
    OBVIOUS
<1>3. w \in Seq(Line) /\ \A i \in 1..Cut(c) : w[i] = c[i]
    BY ONLY AppendedLines, c \in Seq(Line), new \in Seq(Line), <1>2
<1>4. Cut(c) \in Nat /\ Cut(w) \in Nat
    BY <1>3, CutRecords
<1>5. Cut(c) <= Cut(w)
    <2>1. CASE Cut(c) = 0
        BY <1>4, <2>1
    <2>2. CASE Cut(c) # 0
        <3>1. Cut(c) \in DOMAIN Records(c)
            BY <1>4, <2>2, CutRecords
        <3>2. Cut(c) \in DOMAIN Records(w)
            BY <1>2, <3>1, AppendedRecords
        <3>3. DOMAIN Records(w) = 1..Cut(w)
            BY <1>3, CutRecords
        <3> QED
            BY <1>4, <3>2, <3>3
    <2> QED
        BY <2>1, <2>2
<1>6. n \in 0..Cut(w) /\ (n = 0 \/ n \in 1..Cut(c))
    BY <1>4, <1>5
<1>7. HeadAt(w, n) = HeadAt(c, n)
    BY <1>3, <1>6 DEF HeadAt
<1> QED
    BY <1>1, <1>2, <1>6, <1>7 DEF Taking

(* Records that stay link as before.                                          *)
LEMMA SameLinks ==
    ASSUME NEW c \in Seq(Line), NEW w \in Seq(Line), NEW n \in Nat, \A i \in 1..n : w[i] = c[i],
           NEW h
    PROVE  \A i \in 1..n : Placed(c, h, i) => Placed(w, h, i)
<1> SUFFICES ASSUME NEW i \in 1..n
             PROVE  /\ Links(c, i) => Links(w, i)
                    /\ Forks(c, i) => Forks(w, i)
                    /\ (\E j \in 1..i : c[j] = Malformed) => \E j \in 1..i : w[j] = Malformed
    BY DEF Placed
<1>1. \A j \in 1..i : w[j] = c[j]
    OBVIOUS
<1>2. \A j \in 0..(i - 1) : HeadAt(w, j) = HeadAt(c, j)
    <2>1. \A j \in 0..(i - 1) : j = 0 \/ j \in 1..i
        OBVIOUS
    <2> QED
        BY <1>1, <2>1 DEF HeadAt
<1>3. w[i] = c[i] /\ i - 1 \in 0..(i - 1)
    OBVIOUS
<1>4. Links(c, i) => Links(w, i)
    BY <1>2, <1>3 DEF Links
<1>5. Forks(c, i) => Forks(w, i)
    BY <1>2, <1>3 DEF Forks
<1> QED
    BY <1>1, <1>4, <1>5

(* appendChain of lines chained to a head the file had keeps it fine, whether *)
(* it ended with a whole line or not, and wherever the append is cut short.   *)
LEMMA FineAppended ==
    ASSUME NEW c \in Seq(Line), NEW h, Fine(c, h), NEW head, Taking(c, h, head),
           NEW new \in Seq(Line), FollowsTorn(head, new)
    PROVE  Fine(Written(c, new), h)
<1>0. Len(c) \in Nat /\ Len(new) \in Nat
    OBVIOUS
<1>1. CASE new = <<>>
    <2>1. Written(c, new) = c
        BY <1>1 DEF Written
    <2> QED
        BY <2>1
<1>2. CASE new # <<>> /\ ~EndsTorn(c)
    <2>1. PICK w : w = Joined(c, new)
        OBVIOUS
    <2>2. Written(c, new) = w
        BY <1>2, <2>1 DEF Written, Joined
    <2>3. /\ w \in Seq(Line)
          /\ Len(w) = Len(c) + Len(new)
          /\ \A i \in 1..Len(c) : w[i] = c[i]
          /\ \A k \in 1..Len(new) : w[Len(c) + k] = new[k]
        BY ONLY <2>1, WrittenWhole, c \in Seq(Line), new \in Seq(Line)
    <2>4. Cut(c) = Len(c)
        BY <1>2 DEF Cut
    <2>5. Cut(w) \in Nat /\ Cut(w) <= Len(w) /\ Len(w) \in Nat
        BY <2>3, CutRecords
    <2>6. PICK n \in 0..Len(c) : head = HeadAt(c, n) /\ (Crowded(h) \/ n = Len(c))
        BY <2>4 DEF Taking
    <2>7. ASSUME NEW i \in 1..Cut(w), i > Len(c) PROVE Placed(w, h, i)
        <3>1. PICK k \in 1..Len(new) : i = Len(c) + k
            <4>1. i - Len(c) \in 1..Len(new) /\ i = Len(c) + (i - Len(c))
                BY <1>0, <2>3, <2>5, <2>7
            <4> QED
                BY <4>1
        <3>2. w[i] = new[k]
            BY <2>3, <3>1
        <3>3. new[k] # Partial \/ k # Len(new)
            <4> SUFFICES ASSUME new[k] = Partial, k = Len(new) PROVE FALSE
                OBVIOUS
            <4>1. i = Len(w)
                BY <2>3, <3>1
            <4>2. w # <<>> /\ w[Len(w)] = Partial
                BY <1>0, <2>3, <3>2, <4>1
            <4>3. EndsTorn(w)
                BY <4>2 DEF EndsTorn, Partial, Fragment
            <4>4. Cut(w) = Len(w) - 1
                BY <4>3 DEF Cut
            <4> QED
                BY <2>5, <4>1, <4>4
        <3>4. /\ new[k].body.kind \in {"revision", "prune"}
              /\ new[k].prev = IF k = 1 THEN head ELSE ShareRecordHash(new[k - 1])
            BY <3>3 DEF FollowsTorn
        <3>5. new[k].body.kind # "malformed"
            BY <3>4
        <3>6. CASE k = 1
            <4>1. i - 1 = Len(c)
                BY <1>0, <3>1, <3>6
            <4>2. HeadAt(w, n) = HeadAt(c, n)
                BY <1>0, <2>3 DEF HeadAt
            <4>3. new[k].prev = HeadAt(w, n)
                BY <2>6, <3>4, <3>6, <4>2
            <4>4. CASE n = Len(c)
                BY <3>2, <3>5, <4>1, <4>3, <4>4 DEF Links, Placed
            <4>5. CASE Crowded(h)
                <5>1. n \in 0..(i - 1)
                    BY <4>1
                <5>2. Forks(w, i)
                    BY <3>2, <3>5, <4>3, <5>1 DEF Forks
                <5> QED
                    BY <4>5, <5>2 DEF Placed
            <4> QED
                BY <2>6, <4>4, <4>5
        <3>7. CASE k # 1
            <4>1. k - 1 \in 1..Len(new) /\ i - 1 = Len(c) + (k - 1) /\ i - 1 # 0
                BY <1>0, <3>1, <3>7
            <4>2. w[i - 1] = new[k - 1]
                BY <2>3, <4>1
            <4>3. new[k].prev = HeadAt(w, i - 1)
                BY <3>4, <3>7, <4>1, <4>2 DEF HeadAt
            <4> QED
                BY <3>2, <3>5, <4>3 DEF Links, Placed
        <3> QED
            BY <3>6, <3>7
    <2>8. ASSUME NEW i \in 1..Cut(w), i <= Len(c)
          PROVE  Placed(w, h, i)
        <3>1. i \in 1..Len(c)
            BY <1>0, <2>5, <2>8
        <3>2. Placed(c, h, i)
            BY <2>4, <3>1 DEF Fine
        <3>3. \A k \in 1..Len(c) : Placed(c, h, k) => Placed(w, h, k)
            <4>1. \A k \in 1..Len(c) : w[k] = c[k]
                BY ONLY <2>3
            <4> QED
                BY ONLY <1>0, <2>3, <4>1, SameLinks, c \in Seq(Line)
        <3> QED
            BY <3>1, <3>2, <3>3
    <2>9. \A i \in 1..Cut(w) : i > Len(c) \/ i <= Len(c)
        BY <1>0, <2>5
    <2> QED
        BY <2>2, <2>7, <2>8, <2>9 DEF Fine
<1>3. CASE new # <<>> /\ EndsTorn(c)
    <2>0. PICK x : x = IF new[1] = Partial THEN Partial ELSE Malformed
        OBVIOUS
    <2>1. PICK w : w = Glued(c, x, new)
        OBVIOUS
    <2>2. Written(c, new) = w
        BY <1>3, <2>0, <2>1 DEF Written, Glued
    <2>3. x \in Line /\ c # <<>> /\ new # <<>>
        BY <1>3, <2>0, Bodies DEF EndsTorn
    <2>4. /\ w \in Seq(Line)
          /\ Len(w) = Len(c) - 1 + Len(new)
          /\ \A i \in 1..(Len(c) - 1) : w[i] = c[i]
          /\ w[Len(c)] = x
        <3>1. /\ Glued(c, x, new) \in Seq(Line)
              /\ Len(Glued(c, x, new)) = Len(c) - 1 + Len(new)
              /\ \A i \in 1..(Len(c) - 1) : Glued(c, x, new)[i] = c[i]
              /\ Glued(c, x, new)[Len(c)] = x
            BY ONLY <2>3, WrittenTorn, c \in Seq(Line), new \in Seq(Line)
        <3> QED
            BY ONLY <2>1, <3>1
    <2>5. Cut(c) = Len(c) - 1 /\ Len(c) >= 1 /\ Len(new) >= 1
        BY <1>0, <1>3, <2>3, EmptySeq DEF Cut
    <2>6. Cut(w) \in Nat /\ Cut(w) <= Len(w) /\ Len(w) \in Nat
        BY <2>4, CutRecords
    <2>7. ASSUME NEW i \in 1..Cut(w), i >= Len(c) PROVE Placed(w, h, i)
        <3>1. CASE new[1] = Partial
            <4>1. Len(new) = 1
                <5>1. 1 \in 1..Len(new)
                    BY <1>0, <2>5
                <5>2. new[1].body.kind \notin {"revision", "prune"}
                    BY <3>1 DEF Partial, Fragment
                <5> QED
                    BY <5>1, <5>2 DEF FollowsTorn
            <4>2. Len(w) = Len(c) /\ w[Len(w)] = Partial /\ w # <<>>
                BY <1>0, <2>0, <2>4, <2>5, <3>1, <4>1
            <4>3. EndsTorn(w)
                BY <4>2 DEF EndsTorn, Partial, Fragment
            <4>4. Cut(w) = Len(c) - 1
                BY <4>2, <4>3 DEF Cut
            <4> QED
                BY <1>0, <2>7, <4>4
        <3>2. CASE new[1] # Partial
            <4>1. w[Len(c)] = Malformed
                BY <2>0, <2>4, <3>2
            <4>2. Len(c) \in 1..i
                BY <1>0, <2>5, <2>7
            <4> QED
                BY <4>1, <4>2 DEF Placed
        <3> QED
            BY <3>1, <3>2
    <2>8. ASSUME NEW i \in 1..Cut(w), i < Len(c)
          PROVE  Placed(w, h, i)
        <3>1. i \in 1..(Len(c) - 1) /\ Len(c) - 1 \in Nat
            BY <1>0, <2>5, <2>6, <2>8
        <3>2. Placed(c, h, i)
            BY <2>5, <3>1 DEF Fine
        <3>3. \A k \in 1..(Len(c) - 1) : Placed(c, h, k) => Placed(w, h, k)
            <4>1. \A k \in 1..(Len(c) - 1) : w[k] = c[k]
                BY ONLY <2>4
            <4>2. Len(c) - 1 \in Nat
                BY ONLY <3>1
            <4> QED
                BY ONLY <2>4, <4>1, <4>2, SameLinks, c \in Seq(Line)
        <3> QED
            BY <3>1, <3>2, <3>3
    <2>9. \A i \in 1..Cut(w) : i >= Len(c) \/ i < Len(c)
        BY <1>0, <2>6
    <2> QED
        BY <2>2, <2>7, <2>8, <2>9 DEF Fine
<1> QED
    BY <1>1, <1>2, <1>3

(* Lines chained to a head are so when the last one is cut short.             *)
LEMMA TornFollows ==
    ASSUME NEW head, NEW b \in Seq(Line), Follows(head, b), NEW k \in 0..(Len(b) - 1)
    PROVE  /\ Append(SubSeq(b, 1, k), Partial) \in Seq(Line)
           /\ FollowsTorn(head, Append(SubSeq(b, 1, k), Partial))
<1>0. Len(b) \in Nat /\ k \in Nat /\ k < Len(b)
    OBVIOUS
<1>1. PICK s : s = SubSeq(b, 1, k)
    OBVIOUS
<1>2. s \in Seq(Line) /\ Len(s) = k /\ \A i \in 1..k : s[i] = b[i]
    <2>1. k \in 0..Len(b)
        BY <1>0
    <2> QED
        BY ONLY <1>1, <2>1, b \in Seq(Line), Prefix
<1>3. PICK new : new = Append(s, Partial)
    OBVIOUS
<1>4. /\ new \in Seq(Line) /\ Len(new) = k + 1 /\ new[k + 1] = Partial
      /\ \A i \in 1..k : new[i] = s[i]
    <2>1. Partial \in Line
        BY Bodies
    <2> QED
        BY ONLY <1>2, <1>3, <2>1, AppendProperties
<1>5. ASSUME NEW i \in 1..Len(new)
      PROVE  \/ new[i] = Partial /\ i = Len(new)
             \/ /\ new[i].body.kind \in {"revision", "prune"}
                /\ new[i].prev = IF i = 1 THEN head ELSE ShareRecordHash(new[i - 1])
    <2>1. CASE i = k + 1
        BY <1>4, <2>1
    <2>2. CASE i # k + 1
        <3>1. i \in 1..k /\ i \in 1..Len(b)
            BY <1>0, <1>4, <2>2
        <3>2. new[i] = b[i]
            BY <1>2, <1>4, <3>1
        <3>3. i = 1 \/ new[i - 1] = b[i - 1]
            <4> SUFFICES ASSUME i # 1 PROVE new[i - 1] = b[i - 1]
                OBVIOUS
            <4>1. i - 1 \in 1..k
                BY <1>0, <3>1
            <4> QED
                BY <1>2, <1>4, <4>1
        <3> QED
            BY <3>1, <3>2, <3>3 DEF Follows
    <2> QED
        BY <2>1, <2>2
<1> QED
    BY <1>1, <1>3, <1>4, <1>5 DEF FollowsTorn

(* What is known of a file stays known when lines are appended.               *)
LEMMA KnownStays ==
    ASSUME NEW c \in Seq(Line), NEW new \in Seq(Line), NEW a, Known(c, a)
    PROVE  Known(Written(c, new), a)
<1>1. CASE a = <<>>
    BY <1>1 DEF Known
<1>2. CASE \E i \in DOMAIN c : c[i] = Malformed
    <2>1. PICK i \in DOMAIN c : c[i] = Malformed
        BY <1>2
    <2>2. i \in DOMAIN Written(c, new) /\ Written(c, new)[i] = Malformed
        BY <2>1, MalformedStays
    <2> QED
        BY <2>2 DEF Known
<1>3. CASE \E i \in DOMAIN Records(c) : ShareRecordHash(Records(c)[i]) = a
    <2>1. PICK i \in DOMAIN Records(c) : ShareRecordHash(Records(c)[i]) = a
        BY <1>3
    <2>2. i \in DOMAIN Records(Written(c, new)) /\ Records(Written(c, new))[i] = Records(c)[i]
        BY <2>1, AppendedRecords
    <2> QED
        BY <2>1, <2>2 DEF Known
<1> QED
    BY <1>1, <1>2, <1>3 DEF Known

(* The last record appended is found, or it completed a line cut short.       *)
LEMMA LastKnown ==
    ASSUME NEW c \in Seq(Line), NEW new \in Seq(Line), new # <<>>, NEW head, Follows(head, new)
    PROVE  Known(Written(c, new), ShareRecordHash(new[Len(new)]))
<1>0. Len(c) \in Nat /\ Len(new) \in Nat /\ Len(new) >= 1 /\ Len(new) \in 1..Len(new)
    BY EmptySeq
<1>1. CASE ~EndsTorn(c)
    <2>1. PICK w : w = Joined(c, new)
        OBVIOUS
    <2>2. Written(c, new) = w
        BY <1>1, <2>1 DEF Written, Joined
    <2>3. /\ w \in Seq(Line)
          /\ Len(w) = Len(c) + Len(new)
          /\ \A k \in 1..Len(new) : w[Len(c) + k] = new[k]
        BY ONLY <2>1, WrittenWhole, c \in Seq(Line), new \in Seq(Line)
    <2>4. w[Len(w)] = new[Len(new)]
        BY <1>0, <2>3
    <2>5. ~EndsTorn(w)
        <3>1. new[Len(new)].body.kind \in {"revision", "prune"}
            BY <1>0 DEF Follows
        <3> QED
            BY <2>4, <3>1 DEF EndsTorn
    <2>6. Records(w) = w /\ DOMAIN w = 1..Len(w)
        BY <2>3, <2>5, LenProperties DEF Records
    <2>7. Len(w) \in 1..Len(w)
        BY ONLY <1>0, <2>3
    <2> QED
        BY <2>2, <2>4, <2>6, <2>7 DEF Known
<1>2. CASE EndsTorn(c)
    <2>1. PICK w : w = Glued(c, Malformed, new)
        OBVIOUS
    <2>2. new[1] # Partial /\ c # <<>> /\ Malformed \in Line
        <3>1. 1 \in 1..Len(new)
            BY <1>0
        <3>2. new[1].body.kind \in {"revision", "prune"}
            BY <3>1 DEF Follows
        <3> QED
            BY <1>2, <3>2, Bodies, NoFragment DEF EndsTorn
    <2>3. Written(c, new) = w
        BY <1>2, <2>1, <2>2 DEF Written, Glued
    <2>4. w \in Seq(Line) /\ Len(w) = Len(c) - 1 + Len(new) /\ w[Len(c)] = Malformed
        <3>1. PICK x \in Line : x = Malformed
            BY <2>2
        <3>2. /\ Glued(c, x, new) \in Seq(Line)
              /\ Len(Glued(c, x, new)) = Len(c) - 1 + Len(new)
              /\ Glued(c, x, new)[Len(c)] = x
            BY ONLY <2>2, WrittenTorn, c \in Seq(Line), new \in Seq(Line), new # <<>>, x \in Line
        <3> QED
            BY ONLY <2>1, <3>1, <3>2
    <2>5. Len(c) >= 1
        BY <2>2, EmptySeq
    <2>6. Len(c) \in 1..Len(w) /\ DOMAIN w = 1..Len(w)
        BY <1>0, <2>4, <2>5, LenProperties
    <2> QED
        BY <2>3, <2>4, <2>6 DEF Known
<1> QED
    BY <1>1, <1>2

(* PutEntry chains its line to the head and makes its hash the head.          *)
LEMMA FollowsAppended ==
    ASSUME NEW start \in Seq(Body), NEW b \in Seq(Line), Follows(start, b), NEW l \in Line,
           l.body.kind \in {"revision", "prune"},
           l.prev = IF b = <<>> THEN start ELSE ShareRecordHash(b[Len(b)])
    PROVE  /\ Follows(start, Append(b, l))
           /\ Append(b, l) # <<>>
           /\ Append(b, l)[Len(Append(b, l))] = l
<1>1. PICK new : new = Append(b, l)
    OBVIOUS
<1>2. /\ new \in Seq(Line) /\ Len(new) = Len(b) + 1 /\ new[Len(b) + 1] = l
      /\ \A i \in 1..Len(b) : new[i] = b[i]
      /\ Len(b) \in Nat
    BY ONLY <1>1, b \in Seq(Line), l \in Line, AppendProperties
<1>3. ASSUME NEW i \in 1..Len(new)
      PROVE  /\ new[i].body.kind \in {"revision", "prune"}
             /\ new[i].prev = IF i = 1 THEN start ELSE ShareRecordHash(new[i - 1])
    <2>1. CASE i = Len(b) + 1
        <3>1. CASE b = <<>>
            <4>1. i = 1
                BY <2>1, <3>1
            <4> QED
                BY <1>2, <2>1, <3>1, <4>1
        <3>2. CASE b # <<>>
            <4>1. i # 1 /\ i - 1 = Len(b) /\ Len(b) \in 1..Len(b)
                BY <1>2, <2>1, <3>2, EmptySeq
            <4>2. new[i - 1] = b[Len(b)]
                BY <1>2, <4>1
            <4> QED
                BY <1>2, <2>1, <3>2, <4>1, <4>2
        <3> QED
            BY <3>1, <3>2
    <2>2. CASE i # Len(b) + 1
        <3>1. i \in 1..Len(b)
            BY <1>2, <2>2
        <3>2. new[i] = b[i]
            BY <1>2, <3>1
        <3>3. i = 1 \/ new[i - 1] = b[i - 1]
            <4> SUFFICES ASSUME i # 1 PROVE new[i - 1] = b[i - 1]
                OBVIOUS
            <4>1. i - 1 \in 1..Len(b)
                BY <1>2, <3>1
            <4> QED
                BY <1>2, <4>1
        <3> QED
            BY <3>1, <3>2, <3>3 DEF Follows
    <2> QED
        BY <2>1, <2>2
<1>4. new # <<>> /\ new[Len(new)] = l
    BY <1>2
<1> QED
    BY <1>1, <1>3, <1>4 DEF Follows

-----------------------------------------------------------------------------
(* The inductive invariant. *)

\* What a call has in hand is chained to a head it found in the file it appends
\* to, and the head it will remember is that of its last line.
Poised(c, h, state, j) ==
    /\ state \in {"idle", "open"} => j.batch = <<>>
    /\ state \in {"lock push", "push", "lock gc", "publish"} =>
          \E head \in Seq(Body) :
              /\ Taking(c, h, head)
              /\ Follows(head, j.batch)
              /\ state \in {"lock push", "push"} =>
                    j.head = IF j.batch = <<>> THEN head
                             ELSE ShareRecordHash(j.batch[Len(j.batch)])
    /\ state = "anchor" => Known(c, j.head)

Chained ==
    /\ \A r \in Replica, h \in Host : Fine(chain[r][h], h)
    /\ \A h \in Host : Known(Owned(h), anchor[h])
    /\ \A p \in Proc : Poised(Owned(HostOf[p]), HostOf[p], pc[p], job[p])

\* Nothing is claimed once somebody has truncated a chain.
Unbroken == cuts = 0 => Chained

(* What a call has in hand stays so when another command of its machine       *)
(* appends.                                                                   *)
LEMMA PoisedStays ==
    ASSUME NEW c \in Seq(Line), NEW new \in Seq(Line), NEW h, Crowded(h), NEW state, NEW j,
           Poised(c, h, state, j)
    PROVE  Poised(Written(c, new), h, state, j)
<1>1. PICK w : w = Written(c, new)
    OBVIOUS
<1>2. \A head : Taking(c, h, head) => Taking(w, h, head)
    BY <1>1, TakenStays
<1>3. \A a : Known(c, a) => Known(w, a)
    BY <1>1, KnownStays
<1> QED
    BY <1>1, <1>2, <1>3 DEF Poised

(* What a step of one process has to show.                                    *)
LEMMA ChainedKept ==
    ASSUME Typed, Chained, where' = where, NEW p \in Proc, Others(p),
           \A h \in Host \ {HostOf[p]} : Owned(h)' = Owned(h) /\ anchor'[h] = anchor[h],
           NEW new \in Seq(Line), Owned(HostOf[p])' = Written(Owned(HostOf[p]), new),
           \A r \in Replica, h \in Host : chain'[r][h] = chain[r][h] \/ Fine(chain'[r][h], h),
           Known(Owned(HostOf[p])', anchor'[HostOf[p]]),
           Poised(Owned(HostOf[p])', HostOf[p], pc'[p], job'[p])
    PROVE  Chained'
<1>1. ASSUME NEW r \in Replica, NEW h \in Host PROVE Fine(chain'[r][h], h)
    BY DEF Chained
<1>2. ASSUME NEW h \in Host PROVE Known(Owned(h)', anchor'[h])
    BY DEF Chained
<1>3. ASSUME NEW q \in Proc PROVE Poised(Owned(HostOf[q])', HostOf[q], pc'[q], job'[q])
    <2>1. CASE q = p
        BY <2>1
    <2>2. CASE q # p
        <3>1. HostOf[p] \in Host /\ HostOf[q] \in Host
            BY ConstantsOK
        <3>2. pc'[q] = pc[q] /\ job'[q] = job[q]
            BY <2>2 DEF Others
        <3>3. Poised(Owned(HostOf[q]), HostOf[q], pc[q], job[q])
            BY DEF Chained
        <3>4. CASE HostOf[q] # HostOf[p]
            <4>1. Owned(HostOf[q])' = Owned(HostOf[q])
                BY <3>1, <3>4
            <4> QED
                BY <3>2, <3>3, <4>1
        <3>5. CASE HostOf[q] = HostOf[p]
            <4>1. Crowded(HostOf[q])
                BY <2>2, <3>5 DEF Crowded
            <4>2. PICK c \in Seq(Line) : c = Owned(HostOf[q])
                <5>1. Owned(HostOf[q]) \in Seq(Line)
                    BY <3>1 DEF Typed, Files, Wheres, Owned
                <5> QED
                    BY <5>1
            <4>3. PICK w : w = Written(c, new)
                OBVIOUS
            <4>4. Poised(w, HostOf[q], pc[q], job[q])
                BY <3>3, <4>1, <4>2, <4>3, PoisedStays
            <4> QED
                BY <3>2, <3>5, <4>2, <4>3, <4>4
        <3> QED
            BY <3>4, <3>5
    <2> QED
        BY <2>1, <2>2
<1> QED
    BY <1>1, <1>2, <1>3 DEF Chained

(* A step of a call that writes no chain.                                     *)
LEMMA CallChained ==
    ASSUME Typed, Chained, where' = where, chain' = chain, NEW p \in Proc, Others(p),
           \A h \in Host \ {HostOf[p]} : anchor'[h] = anchor[h],
           Known(Owned(HostOf[p]), anchor'[HostOf[p]]),
           Poised(Owned(HostOf[p]), HostOf[p], pc'[p], job'[p])
    PROVE  Chained'
<1>1. \A h : Owned(h)' = Owned(h)
    BY DEF Owned
<1>2. /\ Known(Owned(HostOf[p])', anchor'[HostOf[p]])
      /\ Poised(Owned(HostOf[p])', HostOf[p], pc'[p], job'[p])
    BY <1>1
<1>3. \A h \in Host \ {HostOf[p]} : Owned(h)' = Owned(h) /\ anchor'[h] = anchor[h]
    BY <1>1
<1>4. \A r \in Replica, h \in Host : chain'[r][h] = chain[r][h] \/ Fine(chain'[r][h], h)
    OBVIOUS
<1>5. Owned(HostOf[p])' = Written(Owned(HostOf[p]), <<>>)
    BY <1>1 DEF Written
<1>6. <<>> \in Seq(Line)
    OBVIOUS
<1> QED
    BY ONLY Typed, Chained, where' = where, p \in Proc, Others(p), <1>2, <1>3, <1>4, <1>5, <1>6,
            ChainedKept

(* A step of a call that remembers nothing either.                            *)
LEMMA QuietChained ==
    ASSUME Typed, Chained, where' = where, chain' = chain, anchor' = anchor,
           NEW p \in Proc, Others(p), Poised(Owned(HostOf[p]), HostOf[p], pc'[p], job'[p])
    PROVE  Chained'
<1>1. HostOf[p] \in Host
    BY ConstantsOK
<1>2. Known(Owned(HostOf[p]), anchor'[HostOf[p]])
    BY <1>1 DEF Chained
<1> QED
    BY <1>2, CallChained

(* A process that does nothing has nothing in hand.                           *)
LEMMA IdlePoised ==
    ASSUME Typed, NEW p \in Proc, Returned(p), NEW c, NEW h
    PROVE  Poised(c, h, pc'[p], job'[p]) /\ Others(p)
<1>1. Became(p, <<>>, {}, {}) /\ pc' = [pc EXCEPT ![p] = "idle"]
    BY ReturnedBecame
<1>2. pc'[p] = "idle" /\ job'[p].batch = <<>> /\ Others(p)
    BY ONLY Typed, p \in Proc, <1>1, OtherCalls
<1> QED
    BY <1>2 DEF Poised

(* A call that returns without having written anything.                       *)
LEMMA ReturnChained ==
    ASSUME Typed, Chained, where' = where, chain' = chain, anchor' = anchor,
           NEW p \in Proc, Returned(p)
    PROVE  Chained'
BY IdlePoised, QuietChained

-----------------------------------------------------------------------------
(* Every step keeps it. *)

(* StartPush has written nothing yet.                                         *)
LEMMA StartPushChained ==
    ASSUME Typed, Chained, NEW p \in Proc, StartPush(p)
    PROVE  Chained'
<1>1. /\ Became(p, job[p].batch, job[p].doomed, job[p].rest)
      /\ pc' = [pc EXCEPT ![p] = "open"] /\ where' = where /\ chain' = chain
    BY StartPushEffect
<1>2. pc'[p] = "open" /\ job'[p].batch = job[p].batch /\ Others(p)
    BY <1>1 DEF Typed, Became, Others
<1>3. anchor' = anchor /\ pc[p] = "idle"
    BY DEF StartPush, Begin, Step
<1>4. job[p].batch = <<>>
    BY <1>3 DEF Chained, Poised
<1>5. Poised(Owned(HostOf[p]), HostOf[p], pc'[p], job'[p])
    BY <1>2, <1>4 DEF Poised
<1> QED
    BY <1>1, <1>2, <1>3, <1>5, QuietChained

(* OpenPush takes the head of the file it will append to.                     *)
LEMMA OpenPushChained ==
    ASSUME Typed, Chained, NEW p \in Proc, OpenPush(p)
    PROVE  Chained'
<1>1. /\ where' = where /\ chain' = chain
      /\ \/ Returned(p)
         \/ /\ Became(p, job[p].batch, job[p].doomed, job[p].rest)
            /\ pc' = [pc EXCEPT ![p] = "lock push"]
    BY OpenPushEffect
<1>2. anchor' = anchor /\ pc[p] = "open"
    BY DEF OpenPush
<1>3. CASE Returned(p)
    BY <1>1, <1>2, <1>3, ReturnChained
<1>4. CASE ~Returned(p)
    <2>1. /\ Became(p, job[p].batch, job[p].doomed, job[p].rest)
          /\ pc' = [pc EXCEPT ![p] = "lock push"]
        BY <1>1, <1>4
    <2>2. pc'[p] = "lock push" /\ job'[p].batch = job[p].batch /\ Others(p)
        BY <2>1 DEF Typed, Became, Others
    <2>3. job[p].batch = <<>>
        BY <1>2 DEF Chained, Poised
    <2>4. job'[p].head = ChainHead(Owned(HostOf[p]))
        <3>1. PICK S : job' = [job EXCEPT ![p].todo = S, ![p].head = ChainHead(Chain(p))]
            BY <1>4 DEF OpenPush
        <3>2. job \in [Proc -> Job]
            BY DEF Typed
        <3>3. PICK x : x = ChainHead(Chain(p))
            OBVIOUS
        <3>4. job'[p].head = x
            BY ONLY <3>1, <3>2, <3>3, p \in Proc DEF Job, Jobs
        <3>5. Chain(p) = Owned(HostOf[p])
            BY DEF Chain, Owned, Here
        <3> QED
            BY <3>3, <3>4, <3>5
    <2>5. PICK c \in Seq(Line) : c = Owned(HostOf[p])
        BY Places DEF Chain, Owned, Here
    <2>6. PICK head \in Seq(Body) : head = ChainHead(c)
        BY ChainHeadType
    <2>7. Taking(c, HostOf[p], head) /\ Follows(head, <<>>)
        BY <2>6, OpeningTakes DEF Follows
    <2>8. Poised(c, HostOf[p], "lock push", job'[p])
        BY <2>2, <2>3, <2>4, <2>5, <2>6, <2>7 DEF Poised
    <2>9. Poised(Owned(HostOf[p]), HostOf[p], pc'[p], job'[p])
        BY <2>2, <2>5, <2>8
    <2> QED
        BY <1>1, <1>2, <2>2, <2>9, QuietChained
<1> QED
    BY <1>3, <1>4

(* TakeLock changes nothing in hand.                                          *)
LEMMA TakeLockChained ==
    ASSUME Typed, Chained, NEW p \in Proc,
           TakeLock(p, "lock push", "push") \/ TakeLock(p, "lock gc", "publish")
    PROVE  Chained'
<1>1. /\ job' = job /\ where' = where /\ chain' = chain
      /\ \/ pc[p] = "lock push" /\ pc' = [pc EXCEPT ![p] = "push"]
         \/ pc[p] = "lock gc" /\ pc' = [pc EXCEPT ![p] = "publish"]
    <2>1. "push" \in PCs /\ "publish" \in PCs
        BY DEF PCs
    <2> QED
        BY <2>1, TakeLockEffect
<1>2. anchor' = anchor
    BY DEF TakeLock
<1>3. /\ \/ pc[p] = "lock push" /\ pc'[p] = "push"
         \/ pc[p] = "lock gc" /\ pc'[p] = "publish"
      /\ Others(p)
    BY <1>1 DEF Typed, Others
<1>4. Poised(Owned(HostOf[p]), HostOf[p], pc[p], job[p])
    BY DEF Chained
<1>5. Poised(Owned(HostOf[p]), HostOf[p], pc'[p], job'[p])
    BY <1>1, <1>3, <1>4 DEF Poised
<1> QED
    BY <1>1, <1>2, <1>3, <1>5, QuietChained

(* PutEntry adds a line behind the last one.                                  *)
LEMMA PutEntryChained ==
    ASSUME Typed, Chained, NEW p \in Proc, PutEntry(p)
    PROVE  Chained'
<1>1. pc[p] = "push" /\ pc' = pc /\ where' = where /\ chain' = chain /\ anchor' = anchor
    BY DEF PutEntry
<1>2. PICK r : r = Oldest(job[p].todo)
    OBVIOUS
<1>3. r \in Revision
    BY <1>2, Places, OldestIn DEF PutEntry
<1>4. PICK l : l = [prev |-> job[p].head, body |-> Observed(r)]
    OBVIOUS
<1>5. l \in Line /\ l.prev = job[p].head /\ l.body = Observed(r) /\ l.body.kind = "revision"
    <2>1. job[p].head \in Seq(Body) /\ Observed(r) \in Body
        BY <1>3, Bodies, Places
    <2> QED
        BY <1>4, <2>1 DEF Line, Observed
<1>6. PICK S : job' = [job EXCEPT ![p].todo = S, ![p].batch = Append(job[p].batch, l),
                                  ![p].head = ShareRecordHash(l)]
    BY <1>2, <1>4 DEF PutEntry
<1>7. /\ job'[p].batch = Append(job[p].batch, l) /\ job'[p].head = ShareRecordHash(l)
      /\ \A q \in Proc \ {p} : job'[q] = job[q]
    <2>1. job \in [Proc -> Job]
        BY DEF Typed
    <2>2. PICK x, y : x = Append(job[p].batch, l) /\ y = ShareRecordHash(l)
        OBVIOUS
    <2>3. job' = [job EXCEPT ![p].todo = S, ![p].batch = x, ![p].head = y]
        BY <1>6, <2>2
    <2>4. /\ job'[p].batch = x /\ job'[p].head = y
          /\ \A q \in Proc \ {p} : job'[q] = job[q]
        BY ONLY <2>1, <2>3, p \in Proc DEF Job, Jobs
    <2> QED
        BY <2>2, <2>4
<1>8. PICK c \in Seq(Line) : c = Owned(HostOf[p])
    BY Places DEF Chain, Owned, Here
<1>9. PICK head \in Seq(Body) :
          /\ Taking(c, HostOf[p], head)
          /\ Follows(head, job[p].batch)
          /\ job[p].head = IF job[p].batch = <<>> THEN head
                           ELSE ShareRecordHash(job[p].batch[Len(job[p].batch)])
    BY <1>1, <1>8 DEF Chained, Poised
<1>10. /\ Follows(head, Append(job[p].batch, l))
       /\ Append(job[p].batch, l) # <<>>
       /\ Append(job[p].batch, l)[Len(Append(job[p].batch, l))] = l
    <2>1. PICK b \in Seq(Line) : b = job[p].batch
        BY Places
    <2>2. /\ Follows(head, b)
          /\ l.prev = IF b = <<>> THEN head ELSE ShareRecordHash(b[Len(b)])
        BY <1>5, <1>9, <2>1
    <2>3. l.body.kind \in {"revision", "prune"}
        BY <1>5
    <2>4. /\ Follows(head, Append(b, l)) /\ Append(b, l) # <<>>
          /\ Append(b, l)[Len(Append(b, l))] = l
        BY ONLY <1>5, <2>2, <2>3, b \in Seq(Line), head \in Seq(Body), FollowsAppended
    <2> QED
        BY <2>1, <2>4
<1>11. Poised(c, HostOf[p], "push", job'[p])
    <2>1. PICK b : b = job'[p].batch
        OBVIOUS
    <2>2. Follows(head, b) /\ b # <<>> /\ job'[p].head = ShareRecordHash(b[Len(b)])
        BY <1>7, <1>10, <2>1
    <2> QED
        BY <1>9, <2>1, <2>2 DEF Poised
<1>12. Poised(Owned(HostOf[p]), HostOf[p], pc'[p], job'[p])
    BY <1>1, <1>8, <1>11
<1>13. Others(p)
    BY <1>1, <1>7 DEF Others
<1> QED
    BY <1>1, <1>12, <1>13, QuietChained

(* What a step that appends to the machine's own file has to show.            *)
LEMMA AppendChained ==
    ASSUME Typed, Chained, where' = where, anchor' = anchor, NEW p \in Proc, Others(p),
           NEW c \in Seq(Line), c = Owned(HostOf[p]), NEW head, Taking(c, HostOf[p], head),
           NEW new \in Seq(Line), FollowsTorn(head, new), NEW w, w = Written(c, new),
           SetChain(p, w), Poised(w, HostOf[p], pc'[p], job'[p])
    PROVE  Chained'
<1>1. HostOf[p] \in Host /\ Here(p) \in Replica /\ Chain(p) = c
    BY Places DEF Chain, Here, Owned
<1>2. Fine(c, HostOf[p]) /\ Known(c, anchor[HostOf[p]])
    BY <1>1 DEF Chained, Owned, Here
<1>3. w \in Seq(Line)
    BY ONLY c \in Seq(Line), new \in Seq(Line), w = Written(c, new), AppendedLines
<1>4. Fine(w, HostOf[p])
    BY ONLY c \in Seq(Line), new \in Seq(Line), w = Written(c, new), <1>2, FineAppended,
            Taking(c, HostOf[p], head), FollowsTorn(head, new)
<1>5. Known(w, anchor[HostOf[p]])
    <2>1. PICK a : a = anchor[HostOf[p]]
        OBVIOUS
    <2>2. Known(c, a)
        BY <1>2, <2>1
    <2>3. Known(w, a)
        BY ONLY c \in Seq(Line), new \in Seq(Line), w = Written(c, new), <2>2, KnownStays
    <2> QED
        BY <2>1, <2>3
<1>6. /\ Owned(HostOf[p])' = w
      /\ \A h \in Host \ {HostOf[p]} : Owned(h)' = Owned(h)
    BY <1>3, SetChainEffect
<1>7. \A r \in Replica, h \in Host :
          chain'[r][h] = chain[r][h] \/ (h = HostOf[p] /\ chain'[r][h] = w)
    <2>1. chain \in Files
        BY DEF Typed
    <2> QED
        BY ONLY <1>1, <2>1, SetChain(p, w) DEF SetChain, Files
<1>8. \A r \in Replica, h \in Host : chain'[r][h] = chain[r][h] \/ Fine(chain'[r][h], h)
    BY <1>4, <1>7
<1>9. /\ Known(Owned(HostOf[p])', anchor'[HostOf[p]])
      /\ Poised(Owned(HostOf[p])', HostOf[p], pc'[p], job'[p])
    BY <1>5, <1>6
<1>10. \A h \in Host \ {HostOf[p]} : Owned(h)' = Owned(h) /\ anchor'[h] = anchor[h]
    BY <1>6
<1>11. Owned(HostOf[p])' = Written(Owned(HostOf[p]), new)
    BY <1>6
<1> QED
    BY ONLY Typed, Chained, where' = where, p \in Proc, Others(p), new \in Seq(Line), <1>8, <1>9,
            <1>10, <1>11, ChainedKept

(* Publish appends the lines that were chained to the file's head.            *)
LEMMA PublishChained ==
    ASSUME Typed, Chained, NEW p \in Proc,
           Publish(p, "push", "anchor") \/ Publish(p, "publish", "remove")
    PROVE  Chained'
<1>0. {"anchor", "remove"} \subseteq PCs
    BY DEF PCs
<1>1. /\ Became(p, <<>>, job[p].doomed, job[p].rest)
      /\ SetChain(p, Written(Chain(p), job[p].batch))
      /\ where' = where
      /\ \/ pc[p] = "push" /\ pc' = [pc EXCEPT ![p] = "anchor"]
         \/ pc[p] = "publish" /\ pc' = [pc EXCEPT ![p] = "remove"]
    BY <1>0, PublishEffect
<1>2. anchor' = anchor /\ job'[p].head = job[p].head
    <2>1. job \in [Proc -> Job]
        BY DEF Typed
    <2>2. anchor' = anchor /\ Set(p, "batch", <<>>)
        BY DEF Publish
    <2>3. job'[p].head = job[p].head
        BY ONLY <2>1, <2>2, p \in Proc DEF Set, Job, Jobs
    <2> QED
        BY <2>2, <2>3
<1>3. /\ \/ pc[p] = "push" /\ pc'[p] = "anchor"
         \/ pc[p] = "publish" /\ pc'[p] = "remove"
      /\ Others(p)
    BY <1>1 DEF Typed, Became, Others
<1>4. PICK c \in Seq(Line) : c = Owned(HostOf[p]) /\ c = Chain(p)
    BY Places DEF Chain, Owned, Here
<1>5. PICK b \in Seq(Line) : b = job[p].batch
    BY Places
<1>6. PICK w : w = Written(c, b)
    OBVIOUS
<1>7. PICK head \in Seq(Body) :
          /\ Taking(c, HostOf[p], head)
          /\ Follows(head, b)
          /\ pc[p] = "push" =>
                job[p].head = IF b = <<>> THEN head ELSE ShareRecordHash(b[Len(b)])
    BY <1>3, <1>4, <1>5 DEF Chained, Poised
<1>8. FollowsTorn(head, b)
    BY <1>7 DEF Follows, FollowsTorn
<1>9. SetChain(p, w)
    BY <1>1, <1>4, <1>5, <1>6
<1>10. pc[p] = "push" => Known(w, job[p].head)
    <2> SUFFICES ASSUME pc[p] = "push" PROVE Known(w, job[p].head)
        OBVIOUS
    <2>1. job[p].head = IF b = <<>> THEN head ELSE ShareRecordHash(b[Len(b)])
        BY <1>7
    <2>2. CASE b = <<>>
        <3>1. w = c
            BY <1>6, <2>2 DEF Written
        <3> QED
            BY <1>7, <2>1, <2>2, <3>1, TakenKnown
    <2>3. CASE b # <<>>
        <3>1. Known(w, ShareRecordHash(b[Len(b)]))
            BY ONLY <1>6, <1>7, <2>3, c \in Seq(Line), b \in Seq(Line), LastKnown
        <3> QED
            BY <2>1, <2>3, <3>1
    <2> QED
        BY <2>2, <2>3
<1>11. Poised(w, HostOf[p], pc'[p], job'[p])
    BY <1>2, <1>3, <1>10 DEF Poised
<1> QED
    BY ONLY Typed, Chained, <1>1, <1>2, p \in Proc, <1>3, <1>4, <1>5, <1>6, <1>7, <1>8, <1>9,
            <1>11, AppendChained

(* Tear appends some of them, and half of another.                            *)
LEMMA TearChained ==
    ASSUME Typed, Chained, NEW p \in Proc, Tear(p)
    PROVE  Chained'
<1>1. Returned(p) /\ where' = where /\ anchor' = anchor /\ pc[p] \in {"push", "publish"}
    BY DEF Tear
<1>2. PICK k \in 0..(Len(job[p].batch) - 1) :
          SetChain(p, Written(Chain(p), Append(SubSeq(job[p].batch, 1, k), Partial)))
    BY DEF Tear
<1>3. PICK c \in Seq(Line) : c = Owned(HostOf[p]) /\ c = Chain(p)
    BY Places DEF Chain, Owned, Here
<1>4. PICK b \in Seq(Line) : b = job[p].batch
    BY Places
<1>5. PICK new : new = Append(SubSeq(b, 1, k), Partial)
    OBVIOUS
<1>6. PICK w : w = Written(c, new)
    OBVIOUS
<1>7. PICK head \in Seq(Body) : Taking(c, HostOf[p], head) /\ Follows(head, b)
    BY <1>1, <1>3, <1>4 DEF Chained, Poised
<1>8. new \in Seq(Line) /\ FollowsTorn(head, new)
    <2>1. k \in 0..(Len(b) - 1)
        BY <1>2, <1>4
    <2> QED
        BY ONLY <1>5, <1>7, <2>1, b \in Seq(Line), TornFollows
<1>9. SetChain(p, w)
    BY <1>2, <1>3, <1>4, <1>5, <1>6
<1>10. Poised(w, HostOf[p], pc'[p], job'[p]) /\ Others(p)
    BY <1>1, IdlePoised
<1> QED
    BY ONLY Typed, Chained, <1>1, p \in Proc, <1>3, <1>6, <1>7, <1>8, <1>9, <1>10,
            AppendChained

(* WriteAnchor remembers a head that is in the file.                          *)
LEMMA WriteAnchorChained ==
    ASSUME Typed, Chained, NEW p \in Proc, WriteAnchor(p)
    PROVE  Chained'
<1>1. /\ Returned(p) /\ where' = where /\ chain' = chain /\ pc[p] = "anchor"
      /\ anchor' = [anchor EXCEPT ![HostOf[p]] = job[p].head]
    BY DEF WriteAnchor, store
<1>2. Poised(Owned(HostOf[p]), HostOf[p], pc'[p], job'[p]) /\ Others(p)
    BY <1>1, IdlePoised
<1>3. HostOf[p] \in Host /\ anchor \in Anchors
    BY Places DEF Typed
<1>4. /\ anchor'[HostOf[p]] = job[p].head
      /\ \A h \in Host \ {HostOf[p]} : anchor'[h] = anchor[h]
    BY ONLY <1>1, <1>3 DEF Anchors
<1>5. Known(Owned(HostOf[p]), job[p].head)
    BY <1>1 DEF Chained, Poised
<1> QED
    BY <1>1, <1>2, <1>4, <1>5, CallChained

(* Die may lose what was remembered.                                          *)
LEMMA DieChained ==
    ASSUME Typed, Chained, NEW p \in Proc, Die(p)
    PROVE  Chained'
<1>1. /\ Returned(p) /\ where' = where /\ chain' = chain
      /\ anchor' = anchor \/ anchor' = [anchor EXCEPT ![HostOf[p]] = <<>>]
    BY DEF Die, store
<1>2. CASE anchor' = anchor
    BY <1>1, <1>2, ReturnChained
<1>3. CASE anchor' = [anchor EXCEPT ![HostOf[p]] = <<>>]
    <2>1. Poised(Owned(HostOf[p]), HostOf[p], pc'[p], job'[p]) /\ Others(p)
        BY <1>1, IdlePoised
    <2>2. HostOf[p] \in Host /\ anchor \in Anchors
        BY Places DEF Typed
    <2>3. /\ anchor'[HostOf[p]] = <<>>
          /\ \A h \in Host \ {HostOf[p]} : anchor'[h] = anchor[h]
        BY ONLY <1>3, <2>2 DEF Anchors
    <2>4. Known(Owned(HostOf[p]), anchor'[HostOf[p]])
        BY <2>3 DEF Known
    <2> QED
        BY <1>1, <2>1, <2>3, <2>4, CallChained
<1> QED
    BY <1>1, <1>2, <1>3

(* StartGC chains its prune record to the head of the file.                   *)
LEMMA StartGCChained ==
    ASSUME Typed, Chained, NEW p \in Proc, StartGC(p)
    PROVE  Chained'
<1>1. /\ where' = where /\ chain' = chain /\ anchor' = anchor
      /\ pc' = [pc EXCEPT ![p] = "lock gc"]
    BY DEF StartGC, Begin, Step, store
<1>2. PICK c \in Seq(Line) : c = Owned(HostOf[p]) /\ c = Chain(p)
    BY Places DEF Chain, Owned, Here
<1>3. PICK D : job' = [job EXCEPT ![p].doomed = D,
                                  ![p].batch = <<[prev |-> ChainHead(Chain(p)), body |-> Pruning(D)]>>]
    BY DEF StartGC
<1>4. PICK l : l = [prev |-> ChainHead(c), body |-> Pruning(D)]
    OBVIOUS
<1>5. job'[p].batch = <<l>> /\ \A q \in Proc \ {p} : job'[q] = job[q]
    <2>1. job \in [Proc -> Job]
        BY DEF Typed
    <2>2. PICK b : b = <<l>>
        OBVIOUS
    <2>3. job' = [job EXCEPT ![p].doomed = D, ![p].batch = b]
        BY <1>2, <1>3, <1>4, <2>2
    <2>4. job'[p].batch = b /\ \A q \in Proc \ {p} : job'[q] = job[q]
        BY ONLY <2>1, <2>3, p \in Proc DEF Job, Jobs
    <2> QED
        BY <2>2, <2>4
<1>6. Follows(ChainHead(c), <<l>>) /\ Taking(c, HostOf[p], ChainHead(c))
    <2>1. l.prev = ChainHead(c) /\ l.body.kind = "prune"
        BY <1>4 DEF Pruning
    <2>2. Len(<<l>>) = 1 /\ <<l>>[1] = l
        OBVIOUS
    <2> QED
        BY <2>1, <2>2, OpeningTakes DEF Follows
<1>7. pc'[p] = "lock gc" /\ Others(p)
    BY <1>1, <1>5 DEF Typed, Others
<1>8. Poised(Owned(HostOf[p]), HostOf[p], pc'[p], job'[p])
    <2>1. PICK head \in Seq(Body) : head = ChainHead(c)
        BY ChainHeadType
    <2>2. Taking(c, HostOf[p], head) /\ Follows(head, job'[p].batch)
        BY <1>5, <1>6, <2>1
    <2>3. Poised(c, HostOf[p], "lock gc", job'[p])
        BY <2>2 DEF Poised
    <2> QED
        BY <1>2, <1>7, <2>3
<1> QED
    BY <1>1, <1>7, <1>8, QuietChained

(* A collection that removes writes no chain.                                 *)
LEMMA RemoveEntryChained ==
    ASSUME Typed, Chained, NEW p \in Proc, RemoveEntry(p)
    PROVE  Chained'
<1>1. /\ pc[p] = "remove" /\ pc' = pc /\ where' = where /\ chain' = chain
      /\ \A q \in Proc \ {p} : job'[q] = job[q]
    BY RemoveEntryEffect DEF Became
<1>2. anchor' = anchor
    BY DEF RemoveEntry
<1>3. Poised(Owned(HostOf[p]), HostOf[p], pc'[p], job'[p]) /\ Others(p)
    BY <1>1 DEF Poised, Others
<1> QED
    BY <1>1, <1>2, <1>3, QuietChained

(* A pull writes no chain.                                                    *)
LEMMA PullChained ==
    ASSUME Typed, Rests, Chained, NEW p \in Proc, Pull(p)
    PROVE  Chained'
<1>1. where' = where /\ chain' = chain /\ anchor' = anchor
    BY DEF Pull, StartPull, PullNext, EndPull, store
<1>2. CASE Returned(p)
    BY <1>1, <1>2, ReturnChained
<1>3. CASE ~Returned(p)
    <2>1. /\ pc'[p] = "pull" /\ \A q \in Proc \ {p} : pc'[q] = pc[q] /\ job'[q] = job[q]
        <3>1. CASE StartPull(p)
            <4>1. /\ pc' = [pc EXCEPT ![p] = "pull"]
                  /\ \A q \in Proc \ {p} : job'[q] = job[q]
                BY <3>1, StartPullEffect DEF Became
            <4> QED
                BY <4>1 DEF Typed
        <3>2. CASE PullNext(p)
            <4>1. OneRecordALine(job[p].rest)
                BY DEF Rests
            <4>2. pc' = pc /\ \A q \in Proc \ {p} : job'[q] = job[q]
                BY <1>3, <3>2, <4>1, PullNextEffect DEF Became
            <4>3. pc[p] = "pull"
                BY <3>2 DEF PullNext
            <4> QED
                BY <4>2, <4>3
        <3>3. CASE EndPull(p)
            BY <1>3, <3>3 DEF EndPull
        <3> QED
            BY <3>1, <3>2, <3>3 DEF Pull
    <2>2. Poised(Owned(HostOf[p]), HostOf[p], pc'[p], job'[p]) /\ Others(p)
        BY <2>1 DEF Poised, Others
    <2> QED
        BY <1>1, <2>2, QuietChained
<1> QED
    BY <1>2, <1>3

(* A step of nobody's call, which copies a chain or leaves it.                *)
LEMMA OutsideChained ==
    ASSUME Typed, Chained, job' = job, pc' = pc, anchor' = anchor,
           \A g \in Host : Owned(g)' = Owned(g),
           \A r \in Replica, h \in Host : chain'[r][h] = chain[r][h] \/ chain'[r][h] = Owned(h)
    PROVE  Chained'
<1>1. \A h \in Host : where[h] \in Replica
    BY DEF Typed, Wheres
<1>2. ASSUME NEW r \in Replica, NEW h \in Host PROVE Fine(chain'[r][h], h)
    <2>1. Fine(chain[r][h], h) /\ Fine(Owned(h), h)
        BY <1>1 DEF Chained, Owned
    <2>2. CASE chain'[r][h] = chain[r][h]
        BY <2>1, <2>2
    <2>3. CASE chain'[r][h] = Owned(h)
        BY <2>1, <2>3
    <2> QED
        BY <2>2, <2>3
<1>3. ASSUME NEW h \in Host PROVE Known(Owned(h)', anchor'[h])
    BY DEF Chained
<1>4. ASSUME NEW p \in Proc PROVE Poised(Owned(HostOf[p])', HostOf[p], pc'[p], job'[p])
    <2>1. HostOf[p] \in Host
        BY ConstantsOK
    <2> QED
        BY <2>1 DEF Chained
<1> QED
    BY <1>2, <1>3, <1>4 DEF Chained

(* SyncChain copies the file of the machine that writes it.                   *)
LEMMA SyncChainChained ==
    ASSUME Typed, Chained, NEW r \in Replica, NEW h \in Host, SyncChain(r, h)
    PROVE  Chained'
<1>1. /\ job' = job /\ pc' = pc
      /\ \A g \in Host : Owned(g)' = Owned(g)
    BY SyncChainEffect
<1>2. anchor' = anchor /\ chain' = [chain EXCEPT ![r][h] = Owned(h)]
    BY DEF SyncChain, Owned
<1>3. \A s \in Replica, g \in Host : chain'[s][g] = chain[s][g] \/ chain'[s][g] = Owned(g)
    <2>1. chain \in Files
        BY DEF Typed
    <2> QED
        BY ONLY <1>2, <2>1, r \in Replica, h \in Host DEF Files
<1> QED
    BY <1>1, <1>2, <1>3, OutsideChained

(* Every step keeps the chains, as long as nobody truncates one.              *)
LEMMA NextChained ==
    ASSUME Typed, Rests, Chained, Next, cuts' = 0
    PROVE  Chained'
<1>1. ASSUME NEW p \in Proc, Push(p) PROVE Chained'
    <2>1. CASE StartPush(p)
        BY ONLY Typed, Chained, p \in Proc, <2>1, StartPushChained
    <2>2. CASE OpenPush(p)
        BY ONLY Typed, Chained, p \in Proc, <2>2, OpenPushChained
    <2>3. CASE TakeLock(p, "lock push", "push")
        BY ONLY Typed, Chained, p \in Proc, <2>3, TakeLockChained
    <2>4. CASE PutEntry(p)
        BY ONLY Typed, Chained, p \in Proc, <2>4, PutEntryChained
    <2>5. CASE Publish(p, "push", "anchor")
        BY ONLY Typed, Chained, p \in Proc, <2>5, PublishChained
    <2>6. CASE WriteAnchor(p)
        BY ONLY Typed, Chained, p \in Proc, <2>6, WriteAnchorChained
    <2> QED
        BY ONLY <1>1, <2>1, <2>2, <2>3, <2>4, <2>5, <2>6 DEF Push
<1>2. ASSUME NEW p \in Proc, SharedGC(p) PROVE Chained'
    <2>1. CASE StartGC(p)
        BY ONLY Typed, Chained, p \in Proc, <2>1, StartGCChained
    <2>2. CASE TakeLock(p, "lock gc", "publish")
        BY ONLY Typed, Chained, p \in Proc, <2>2, TakeLockChained
    <2>3. CASE Publish(p, "publish", "remove")
        BY ONLY Typed, Chained, p \in Proc, <2>3, PublishChained
    <2>4. CASE RemoveEntry(p)
        BY ONLY Typed, Chained, p \in Proc, <2>4, RemoveEntryChained
    <2>5. CASE EndGC(p)
        <3>1. anchor' = anchor
            BY <2>5 DEF EndGC
        <3> QED
            BY ONLY Typed, Chained, p \in Proc, <2>5, <3>1, EndGCEffect, ReturnChained
    <2> QED
        BY ONLY <1>2, <2>1, <2>2, <2>3, <2>4, <2>5 DEF SharedGC
<1>3. ASSUME NEW h \in Host, Observe(h) PROVE Chained'
    <2>1. job' = job /\ pc' = pc /\ where' = where /\ chain' = chain /\ anchor' = anchor
        BY <1>3, ObserveEffect DEF Observe
    <2>2. \A g \in Host : Owned(g)' = Owned(g)
        BY <2>1 DEF Owned
    <2> QED
        BY <2>1, <2>2, OutsideChained
<1>4. ASSUME NEW h \in Host, Truncate(h) PROVE FALSE
    BY ONLY Typed, h \in Host, cuts' = 0, <1>4, TruncateEffect
<1>5. ASSUME Syncer PROVE Chained'
    <2>1. ASSUME NEW r \in Replica, NEW q \in Replica, NEW id \in Snapshot, SyncEntry(r, q, id)
          PROVE  Chained'
        <3>1. job' = job /\ pc' = pc /\ where' = where /\ chain' = chain /\ anchor' = anchor
            BY <2>1 DEF SyncEntry, process
        <3>2. \A g \in Host : Owned(g)' = Owned(g)
            BY <3>1 DEF Owned
        <3> QED
            BY <3>1, <3>2, OutsideChained
    <2> QED
        BY ONLY Typed, Chained, <1>5, <2>1, SyncChainChained DEF Syncer
<1>6. ASSUME NEW p \in Proc, Pull(p) \/ Tear(p) \/ Die(p) PROVE Chained'
    BY ONLY Typed, Rests, Chained, p \in Proc, <1>6, PullChained, TearChained,
            DieChained
<1> QED
    BY ONLY Next, <1>1, <1>2, <1>3, <1>4, <1>5, <1>6 DEF Next

(* Nothing is chained at the start.                                           *)
LEMMA InitChained == Init => Chained
<1> SUFFICES ASSUME Init PROVE Chained
    OBVIOUS
<1>1. /\ \A r \in Replica, h \in Host : chain[r][h] = <<>>
      /\ \A h \in Host : anchor[h] = <<>>
      /\ \A p \in Proc : pc[p] = "idle" /\ job[p].batch = <<>>
    BY DEF Init, Idle
<1>2. \A h : Fine(<<>>, h)
    BY DEF Fine, Cut, EndsTorn
<1> QED
    BY <1>1, <1>2 DEF Chained, Known, Poised

(* The chains are in order always.                                            *)
LEMMA Chaining == Spec => [](Typed /\ Unbroken)
<1>1. Typed /\ Rests /\ Unbroken /\ [Next]_vars => Unbroken'
    <2> SUFFICES ASSUME Typed, Rests, Unbroken, [Next]_vars, cuts' = 0 PROVE Chained'
        BY DEF Unbroken
    <2>1. Chained
        BY CutsRise DEF Unbroken
    <2>2. CASE Next
        BY ONLY Typed, Rests, cuts' = 0, <2>1, <2>2, NextChained
    <2>3. CASE UNCHANGED vars
        <3>1. job' = job /\ pc' = pc /\ where' = where /\ chain' = chain /\ anchor' = anchor
            BY <2>3 DEF vars, store, process
        <3>2. \A g \in Host : Owned(g)' = Owned(g)
            BY <3>1 DEF Owned
        <3> QED
            BY <2>1, <3>1, <3>2, OutsideChained
    <2> QED
        BY <2>2, <2>3
<1>2. Init => Unbroken
    BY InitChained DEF Unbroken
<1> QED
    BY <1>1, <1>2, Typing, PTL DEF Spec

-----------------------------------------------------------------------------
(* Theorems. *)

(* What a reader takes as records links as the lines of the file do.          *)
LEMMA FineRecords ==
    ASSUME NEW c \in Seq(Line), NEW h, Fine(c, h), NEW i \in 1..Len(Records(c))
    PROVE  Placed(Records(c), h, i)
<1>1. /\ Cut(c) \in Nat /\ Len(Records(c)) = Cut(c)
      /\ \A k \in 1..Cut(c) : Records(c)[k] = c[k]
    BY CutRecords, RecordsType DEF Cut
<1>2. PICK w \in Seq(Line) : w = Records(c)
    BY RecordsType
<1>3. PICK n \in Nat : n = Cut(c)
    BY <1>1
<1>4. i \in 1..n /\ \A k \in 1..n : w[k] = c[k]
    BY <1>1, <1>2, <1>3
<1>5. \A k \in 1..n : Placed(c, h, k) => Placed(w, h, k)
    BY ONLY <1>4, SameLinks, c \in Seq(Line), w \in Seq(Line), n \in Nat
<1>6. Placed(c, h, i)
    BY <1>3, <1>4 DEF Fine
<1> QED
    BY <1>2, <1>4, <1>5, <1>6

(* share.go:159-161: a record is chained to the one before it, up to the      *)
(* first line that completed one cut short, but where two commands of its     *)
(* machine overlapped; there it is chained to an earlier one of the same      *)
(* chain. So it is on every replica, as long as nobody truncates a chain.     *)
THEOREM OnlyRacesFork == Spec => []OnlyARaceForks
<1>1. Typed /\ Unbroken => OnlyARaceForks
    <2> SUFFICES ASSUME Typed, Chained, NEW r \in Replica, NEW h \in Host,
                        NEW i \in 1..Len(Records(chain[r][h]))
                 PROVE  Placed(Records(chain[r][h]), h, i)
        BY DEF OnlyARaceForks, Unbroken, Placed
    <2>1. chain \in Files
        BY DEF Typed
    <2>2. PICK c \in Seq(Line) : c = chain[r][h]
        BY <2>1 DEF Files
    <2>3. Fine(c, h) /\ i \in 1..Len(Records(c))
        BY <2>2 DEF Chained
    <2>4. Placed(Records(c), h, i)
        BY ONLY <2>3, c \in Seq(Line), FineRecords
    <2> QED
        BY <2>2, <2>4
<1> QED
    BY <1>1, Chaining, PTL

(* checkPushAnchor: what a machine remembers is in its chain, however its own *)
(* commands overlap. No crash, collection or other push makes it refuse to    *)
(* push, unless a chain was truncated or a torn line broke it.                *)
THEOREM AnchorsHold == Spec => []RefusedOnlyForALoss
<1>1. Typed /\ Unbroken => RefusedOnlyForALoss
    BY DEF RefusedOnlyForALoss, Unbroken, Chained, Known, Published
<1> QED
    BY <1>1, Chaining, PTL

-----------------------------------------------------------------------------
(* Payloads are what somebody recorded. *)

\* Some machine may record this snapshot with this build.
Source(id, build) == \E h \in Host : \E t \in Taken[h] : t.id = id /\ t.build = build

GoodLine(l) == l.body.kind = "revision" => Source(l.body.rev.id, l.body.rev.build)

GoodFile(c) == \A i \in 1..Cut(c) : GoodLine(c[i])

GoodJob(j) ==
    /\ \A r \in j.todo : Source(r.id, r.build)
    /\ \A k \in 1..Len(j.batch) : GoodLine(j.batch[k])

GenuineFiles == \A r \in Replica, h \in Host : GoodFile(chain[r][h])
GenuineLogs == \A h \in Host : \A r \in local[h] : Source(r.id, r.build)
GenuineEntries ==
    \A r \in Replica, id \in Snapshot :
        entry[r][id].payload # Absent => Source(id, entry[r][id].payload)
GenuineCalls == \A p \in Proc : GoodJob(job[p])

Genuine == GenuineFiles /\ GenuineLogs /\ GenuineEntries /\ GenuineCalls

(* What is appended is as good as what was there.                             *)
LEMMA GoodAppended ==
    ASSUME NEW c \in Seq(Line), GoodFile(c), NEW new \in Seq(Line),
           \A k \in 1..Len(new) : GoodLine(new[k])
    PROVE  GoodFile(Written(c, new))
<1>1. PICK w : w = Written(c, new)
    OBVIOUS
<1>2. /\ w \in Seq(Line)
      /\ \A i \in 1..Cut(c) : w[i] = c[i]
      /\ \A i \in (Cut(c) + 1)..Cut(w) :
             w[i] \in {Partial, Malformed} \/ \E k \in 1..Len(new) : w[i] = new[k]
    <2>1. /\ Written(c, new) \in Seq(Line)
          /\ \A i \in 1..Cut(c) : Written(c, new)[i] = c[i]
          /\ \A i \in (Cut(c) + 1)..Cut(Written(c, new)) :
                 \/ Written(c, new)[i] \in {Partial, Malformed}
                 \/ \E k \in 1..Len(new) : Written(c, new)[i] = new[k]
        BY ONLY AppendedLines, c \in Seq(Line), new \in Seq(Line)
    <2> QED
        BY ONLY <1>1, <2>1
<1>3. Cut(c) \in Nat /\ Cut(w) \in Nat
    BY <1>2, CutRecords
<1>4. GoodLine(Partial) /\ GoodLine(Malformed)
    BY DEF GoodLine, Partial, Malformed, Fragment
<1>5. ASSUME NEW i \in 1..Cut(w) PROVE GoodLine(w[i])
    <2>1. CASE i \in 1..Cut(c)
        BY <1>2, <2>1 DEF GoodFile
    <2>2. CASE i \notin 1..Cut(c)
        <3>1. i \in (Cut(c) + 1)..Cut(w)
            BY <1>3, <2>2
        <3>2. w[i] = Partial \/ w[i] = Malformed \/ \E k \in 1..Len(new) : w[i] = new[k]
            BY <1>2, <3>1
        <3> QED
            BY <1>4, <3>2
    <2> QED
        BY <2>1, <2>2
<1> QED
    BY <1>1, <1>5 DEF GoodFile

(* So is what is left of a file.                                              *)
LEMMA GoodPrefix ==
    ASSUME NEW c \in Seq(Line), GoodFile(c), NEW n \in 0..(Len(c) - 1)
    PROVE  GoodFile(SubSeq(c, 1, n))
<1>1. PICK s : s = SubSeq(c, 1, n)
    OBVIOUS
<1>2. Len(c) \in Nat /\ n \in 0..Len(c) /\ n \in Nat /\ n <= Len(c) - 1
    OBVIOUS
<1>3. s \in Seq(Line) /\ Len(s) = n /\ \A i \in 1..n : s[i] = c[i]
    BY ONLY <1>1, <1>2, c \in Seq(Line), Prefix
<1>4. Cut(s) \in Nat /\ Cut(s) <= n /\ Cut(c) \in Nat /\ Len(c) <= Cut(c) + 1
    BY <1>3, CutRecords
<1>5. ASSUME NEW i \in 1..Cut(s) PROVE GoodLine(s[i])
    <2>1. i \in 1..n /\ i \in 1..Cut(c)
        BY <1>2, <1>4
    <2> QED
        BY <1>3, <2>1 DEF GoodFile
<1> QED
    BY <1>1, <1>5 DEF GoodFile

(* A step of one call.                                                        *)
LEMMA CallGenuine ==
    ASSUME GenuineCalls, NEW p \in Proc, \A q \in Proc \ {p} : job'[q] = job[q], GoodJob(job'[p])
    PROVE  GenuineCalls'
BY DEF GenuineCalls

(* A call that returns has nothing left.                                      *)
LEMMA ReturnGenuine ==
    ASSUME Typed, GenuineCalls, NEW p \in Proc, Returned(p)
    PROVE  GenuineCalls'
<1>1. job' = [job EXCEPT ![p] = Idle] /\ job \in [Proc -> Job]
    BY DEF Returned, Typed
<1>2. GoodJob(Idle)
    BY DEF GoodJob, Idle
<1> QED
    BY <1>1, <1>2, CallGenuine

(* One file is appended to.                                                   *)
LEMMA AppendGenuine ==
    ASSUME Typed, GenuineFiles, NEW p \in Proc, NEW new \in Seq(Line),
           \A k \in 1..Len(new) : GoodLine(new[k]), SetChain(p, Written(Chain(p), new))
    PROVE  GenuineFiles'
<1>1. PICK c \in Seq(Line) : c = Chain(p)
    BY Places
<1>2. HostOf[p] \in Host /\ Here(p) \in Replica /\ chain \in Files
    BY Places DEF Typed
<1>3. GoodFile(c)
    BY <1>1, <1>2 DEF GenuineFiles, Chain
<1>4. PICK w : w = Written(c, new)
    OBVIOUS
<1>5. GoodFile(w)
    BY <1>3, <1>4, GoodAppended
<1>6. \A r \in Replica, h \in Host : chain'[r][h] = chain[r][h] \/ chain'[r][h] = w
    <2>1. SetChain(p, w)
        BY <1>1, <1>4
    <2> QED
        BY ONLY <1>2, <2>1 DEF SetChain, Files
<1> QED
    BY <1>5, <1>6 DEF GenuineFiles

(* What a step leaves alone stays genuine.                                    *)
LEMMA SameGenuine ==
    ASSUME Genuine
    PROVE  /\ chain' = chain => GenuineFiles'
           /\ local' = local => GenuineLogs'
           /\ entry' = entry => GenuineEntries'
           /\ job' = job => GenuineCalls'
BY DEF Genuine, GenuineFiles, GenuineLogs, GenuineEntries, GenuineCalls

(* StartPush and OpenPush take revisions of the local log.                    *)
LEMMA PushGenuine ==
    ASSUME Typed, Genuine, NEW p \in Proc, StartPush(p) \/ OpenPush(p)
    PROVE  Genuine'
<1>1. chain' = chain /\ local' = local /\ entry' = entry
    BY DEF StartPush, OpenPush, store
<1>2. GoodJob(job[p]) /\ job \in [Proc -> Job]
    BY DEF Genuine, GenuineCalls, Typed
<1>3. CASE StartPush(p)
    <2>1. PICK S \in SUBSET local[HostOf[p]] : job' = [job EXCEPT ![p].todo = S]
        BY <1>3 DEF StartPush, Set
    <2>2. \A r \in S : Source(r.id, r.build)
        BY <2>1, Places DEF Genuine, GenuineLogs
    <2>3. /\ \A q \in Proc \ {p} : job'[q] = job[q]
          /\ job'[p].todo = S /\ job'[p].batch = job[p].batch
        BY ONLY <1>2, <2>1, p \in Proc DEF Job, Jobs
    <2>4. GoodJob(job'[p])
        BY <1>2, <2>2, <2>3 DEF GoodJob
    <2> QED
        BY <1>1, <2>3, <2>4, CallGenuine, SameGenuine DEF Genuine
<1>4. CASE OpenPush(p) /\ ~Returned(p)
    <2>1. PICK S, c : S \subseteq job[p].todo /\ job' = [job EXCEPT ![p].todo = S, ![p].head = c]
        BY <1>4 DEF OpenPush
    <2>2. /\ \A q \in Proc \ {p} : job'[q] = job[q]
          /\ job'[p].todo = S /\ job'[p].batch = job[p].batch
        BY ONLY <1>2, <2>1, p \in Proc DEF Job, Jobs
    <2>3. GoodJob(job'[p])
        BY <1>2, <2>1, <2>2 DEF GoodJob
    <2> QED
        BY <1>1, <2>2, <2>3, CallGenuine, SameGenuine DEF Genuine
<1>5. CASE Returned(p)
    BY <1>1, <1>5, ReturnGenuine, SameGenuine DEF Genuine
<1> QED
    BY <1>3, <1>4, <1>5

(* One file of entries/ is written with what somebody recorded, or removed.   *)
LEMMA EntryGenuine ==
    ASSUME Typed, GenuineEntries, NEW p \in Proc, NEW id \in Snapshot, NEW x \in Build \cup {Absent},
           x = Absent \/ Source(id, x), SetEntry(p, id, x)
    PROVE  GenuineEntries'
<1>1. /\ entry'[Here(p)][id].payload = x
      /\ \A r \in Replica, i \in Snapshot :
             entry'[r][i] = entry[r][i] \/ (r = Here(p) /\ i = id)
    BY SetEntryEffect
<1>2. ASSUME NEW r \in Replica, NEW i \in Snapshot, entry'[r][i].payload # Absent
      PROVE  Source(i, entry'[r][i].payload)
    <2>1. CASE entry'[r][i] = entry[r][i]
        BY <1>2, <2>1 DEF GenuineEntries
    <2>2. CASE r = Here(p) /\ i = id
        BY <1>1, <1>2, <2>2
    <2> QED
        BY <1>1, <2>1, <2>2
<1> QED
    BY <1>2 DEF GenuineEntries

(* PutEntry writes what the local log holds.                                  *)
LEMMA PutEntryGenuine ==
    ASSUME Typed, Genuine, NEW p \in Proc, PutEntry(p)
    PROVE  Genuine'
<1>1. chain' = chain /\ local' = local
    BY DEF PutEntry
<1>2. GoodJob(job[p]) /\ job \in [Proc -> Job]
    BY DEF Genuine, GenuineCalls, Typed
<1>3. PICK r \in job[p].todo : r = Oldest(job[p].todo)
    BY Places, OldestIn DEF PutEntry
<1>4. r \in Revision /\ Source(r.id, r.build)
    BY <1>2, Places DEF GoodJob
<1>5. entry' = entry \/ SetEntry(p, r.id, r.build)
    BY <1>3 DEF PutEntry
<1>6. PICK l : l = [prev |-> job[p].head, body |-> Observed(r)]
    OBVIOUS
<1>7. l \in Line /\ GoodLine(l)
    <2>1. job[p].head \in Seq(Body) /\ Observed(r) \in Body
        BY <1>4, Bodies, Places
    <2>2. l \in Line
        BY <1>6, <2>1 DEF Line
    <2>3. l.body.rev = r
        BY <1>6 DEF Observed
    <2> QED
        BY <1>4, <2>2, <2>3 DEF GoodLine
<1>8. PICK S, c : S \subseteq job[p].todo
                  /\ job' = [job EXCEPT ![p].todo = S, ![p].batch = Append(job[p].batch, l),
                                        ![p].head = c]
    BY <1>3, <1>6 DEF PutEntry
<1>9. PICK b \in Seq(Line) : b = job[p].batch
    BY Places
<1>10. PICK new : new = Append(b, l)
    OBVIOUS
<1>11. /\ Len(b) \in Nat /\ Len(new) = Len(b) + 1 /\ new[Len(b) + 1] = l
       /\ \A k \in 1..Len(b) : new[k] = b[k]
    BY ONLY <1>7, <1>10, b \in Seq(Line), AppendProperties
<1>12. ASSUME NEW k \in 1..Len(new) PROVE GoodLine(new[k])
    <2>1. CASE k = Len(b) + 1
        BY <1>7, <1>11, <2>1
    <2>2. CASE k # Len(b) + 1
        <3>1. k \in 1..Len(b)
            BY <1>11, <2>2
        <3> QED
            BY <1>2, <1>9, <1>11, <3>1 DEF GoodJob
    <2> QED
        BY <2>1, <2>2
<1>13. /\ \A q \in Proc \ {p} : job'[q] = job[q]
       /\ job'[p].todo = S /\ job'[p].batch = new
    <2>1. job' = [job EXCEPT ![p].todo = S, ![p].batch = new, ![p].head = c]
        BY <1>8, <1>9, <1>10
    <2> QED
        BY ONLY <1>2, <2>1, p \in Proc DEF Job, Jobs
<1>14. GoodJob(job'[p])
    BY <1>2, <1>8, <1>12, <1>13 DEF GoodJob
<1>15. GenuineEntries'
    <2>1. r.id \in Snapshot /\ r.build \in Build \cup {Absent}
        BY <1>4 DEF Revision
    <2>2. CASE SetEntry(p, r.id, r.build)
        BY <1>4, <2>1, <2>2, EntryGenuine DEF Genuine
    <2> QED
        BY <1>5, <2>2, SameGenuine
<1> QED
    BY <1>1, <1>13, <1>14, <1>15, CallGenuine, SameGenuine DEF Genuine

(* Publish appends what was in hand.                                          *)
LEMMA PublishGenuine ==
    ASSUME Typed, Genuine, NEW p \in Proc, NEW from, NEW to, Publish(p, from, to)
    PROVE  Genuine'
<1>1. /\ local' = local /\ entry' = entry /\ SetChain(p, Written(Chain(p), job[p].batch))
      /\ job' = [job EXCEPT ![p].batch = <<>>]
    BY DEF Publish, Set
<1>2. GoodJob(job[p]) /\ job \in [Proc -> Job]
    BY DEF Genuine, GenuineCalls, Typed
<1>3. PICK b \in Seq(Line) : b = job[p].batch
    BY Places
<1>4. GenuineFiles'
    <2>1. \A k \in 1..Len(b) : GoodLine(b[k])
        BY <1>2, <1>3 DEF GoodJob
    <2>2. SetChain(p, Written(Chain(p), b))
        BY <1>1, <1>3
    <2> QED
        BY ONLY Typed, Genuine, p \in Proc, b \in Seq(Line), <2>1, <2>2, AppendGenuine DEF Genuine
<1>5. /\ \A q \in Proc \ {p} : job'[q] = job[q]
      /\ job'[p].todo = job[p].todo /\ job'[p].batch = <<>>
    BY ONLY <1>1, <1>2, p \in Proc DEF Job, Jobs
<1>6. GoodJob(job'[p])
    BY <1>2, <1>5 DEF GoodJob
<1> QED
    BY <1>1, <1>4, <1>5, <1>6, CallGenuine, SameGenuine DEF Genuine

(* Tear appends some of what was in hand.                                     *)
LEMMA TearGenuine ==
    ASSUME Typed, Genuine, NEW p \in Proc, Tear(p)
    PROVE  Genuine'
<1>1. local' = local /\ entry' = entry /\ Returned(p)
    BY DEF Tear
<1>2. PICK new \in Seq(Line) :
          /\ SetChain(p, Written(Chain(p), new))
          /\ \A i \in DOMAIN new :
                 new[i] = Partial \/ \E k \in DOMAIN job[p].batch : new[i] = job[p].batch[k]
    BY TearEffect
<1>3. ASSUME NEW i \in 1..Len(new) PROVE GoodLine(new[i])
    <2>1. i \in DOMAIN new /\ DOMAIN job[p].batch = 1..Len(job[p].batch)
        BY Places, LenProperties
    <2>2. GoodJob(job[p])
        BY DEF Genuine, GenuineCalls
    <2>3. CASE new[i] = Partial
        BY <2>3 DEF GoodLine, Partial, Fragment
    <2>4. CASE \E k \in 1..Len(job[p].batch) : new[i] = job[p].batch[k]
        BY <2>2, <2>4 DEF GoodJob
    <2> QED
        BY <1>2, <2>1, <2>3, <2>4
<1>4. GenuineFiles'
    BY ONLY Typed, Genuine, p \in Proc, new \in Seq(Line), <1>2, <1>3, AppendGenuine DEF Genuine
<1> QED
    BY <1>1, <1>4, ReturnGenuine, SameGenuine DEF Genuine

(* StartGC has a prune record in hand, and RemoveEntry removes.               *)
LEMMA GCGenuine ==
    ASSUME Typed, Genuine, NEW p \in Proc, StartGC(p) \/ RemoveEntry(p)
    PROVE  Genuine'
<1>1. chain' = chain /\ local' = local
    BY DEF StartGC, RemoveEntry, store
<1>2. GoodJob(job[p]) /\ job \in [Proc -> Job]
    BY DEF Genuine, GenuineCalls, Typed
<1>3. CASE StartGC(p)
    <2>1. entry' = entry
        BY <1>3 DEF StartGC, store
    <2>2. PICK D, l : l.body = Pruning(D) /\ job' = [job EXCEPT ![p].doomed = D, ![p].batch = <<l>>]
        BY <1>3 DEF StartGC
    <2>3. PICK b : b = <<l>>
        OBVIOUS
    <2>4. \A k \in 1..Len(b) : GoodLine(b[k])
        <3>1. Len(b) = 1 /\ b[1] = l
            BY <2>3
        <3>2. GoodLine(l)
            BY <2>2 DEF GoodLine, Pruning
        <3> QED
            BY <3>1, <3>2
    <2>5. /\ \A q \in Proc \ {p} : job'[q] = job[q]
          /\ job'[p].todo = job[p].todo /\ job'[p].batch = b
        <3>1. job' = [job EXCEPT ![p].doomed = D, ![p].batch = b]
            BY <2>2, <2>3
        <3> QED
            BY ONLY <1>2, <3>1, p \in Proc DEF Job, Jobs
    <2>6. GoodJob(job'[p])
        BY <1>2, <2>4, <2>5 DEF GoodJob
    <2> QED
        BY <1>1, <2>1, <2>5, <2>6, CallGenuine, SameGenuine DEF Genuine
<1>4. CASE RemoveEntry(p)
    <2>1. PICK id \in job[p].doomed :
              /\ entry' = entry \/ SetEntry(p, id, Absent)
              /\ job' = [job EXCEPT ![p].doomed = job[p].doomed \ {id}]
        BY <1>4 DEF RemoveEntry, Set
    <2>2. id \in Snapshot /\ Absent \in Build \cup {Absent}
        BY Places
    <2>3. GenuineEntries'
        <3>1. CASE SetEntry(p, id, Absent)
            BY <2>2, <3>1, EntryGenuine DEF Genuine
        <3> QED
            BY <2>1, <3>1, SameGenuine
    <2>4. /\ \A q \in Proc \ {p} : job'[q] = job[q]
          /\ job'[p].todo = job[p].todo /\ job'[p].batch = job[p].batch
        BY ONLY <1>2, <2>1, p \in Proc DEF Job, Jobs
    <2>5. GoodJob(job'[p])
        BY <1>2, <2>4 DEF GoodJob
    <2> QED
        BY <1>1, <2>3, <2>4, <2>5, CallGenuine, SameGenuine DEF Genuine
<1> QED
    BY <1>3, <1>4

(* Pull takes a revision with the payload of its file.                        *)
LEMMA PullGenuine ==
    ASSUME Typed, Rests, Genuine, NEW p \in Proc, Pull(p)
    PROVE  Genuine'
<1>1. chain' = chain /\ entry' = entry
    BY DEF Pull, StartPull, PullNext, EndPull, store
<1>2. GoodJob(job[p]) /\ job \in [Proc -> Job]
    BY DEF Genuine, GenuineCalls, Typed
<1>3. GenuineCalls'
    <2>1. CASE Returned(p)
        BY <2>1, ReturnGenuine DEF Genuine
    <2>2. CASE ~Returned(p)
        <3>1. PICK e, g : \/ job' = [job EXCEPT ![p].opened = e, ![p].rest = g]
                          \/ job' = [job EXCEPT ![p].rest = g]
            BY <2>2 DEF Pull, StartPull, PullNext, EndPull, Set
        <3>2. /\ \A q \in Proc \ {p} : job'[q] = job[q]
              /\ job'[p].todo = job[p].todo /\ job'[p].batch = job[p].batch
            BY ONLY <1>2, <3>1, p \in Proc DEF Job, Jobs
        <3>3. GoodJob(job'[p])
            BY <1>2, <3>2 DEF GoodJob
        <3> QED
            BY <3>2, <3>3, CallGenuine DEF Genuine
    <2> QED
        BY <2>1, <2>2
<1>4. GenuineLogs'
    <2>1. CASE local' = local
        BY <2>1, SameGenuine
    <2>2. CASE local' # local
        <3>1. PullNext(p)
            BY <2>2 DEF Pull, StartPull, EndPull
        <3>2. PICK a \in Record : a = First(job[p].rest)
            <4>1. job[p].rest \subseteq Record /\ job[p].rest # {} /\ OneRecordALine(job[p].rest)
                BY <3>1, Places DEF PullNext, Rests
            <4> QED
                BY <4>1, FirstIn
        <3>3. PICK x : x = entry[Here(p)][a.rev.id].payload
            OBVIOUS
        <3>4. /\ x # Absent
              /\ local' = [local EXCEPT ![HostOf[p]] = @ \cup {[a.rev EXCEPT !.build = x]}]
            BY <2>2, <3>1, <3>2, <3>3 DEF PullNext, Entry
        <3>5. PICK v : v = [a.rev EXCEPT !.build = x]
            OBVIOUS
        <3>6. Source(v.id, v.build)
            <4>1. a.rev \in Revision
                BY DEF Record
            <4>2. v.id = a.rev.id /\ v.build = x /\ a.rev.id \in Snapshot
                BY <3>5, <4>1 DEF Revision
            <4>3. Source(a.rev.id, x)
                BY <3>3, <3>4, <4>2, Places DEF Genuine, GenuineEntries
            <4> QED
                BY <4>2, <4>3
        <3>7. \A h \in Host : local'[h] \subseteq local[h] \cup {v}
            <4>1. local' = [local EXCEPT ![HostOf[p]] = local[HostOf[p]] \cup {v}]
                BY <3>4, <3>5
            <4>2. local \in Locals
                BY DEF Typed
            <4> QED
                BY ONLY <4>1, <4>2 DEF Locals
        <3> QED
            BY <3>6, <3>7 DEF Genuine, GenuineLogs
    <2> QED
        BY <2>1, <2>2
<1> QED
    BY <1>1, <1>3, <1>4, SameGenuine DEF Genuine

(* What the world does: an observation, a copy, a truncation.                 *)
LEMMA WorldGenuine ==
    ASSUME Typed, Genuine, Syncer \/ \E h \in Host : Observe(h) \/ Truncate(h)
    PROVE  Genuine'
<1>1. ASSUME NEW h \in Host, Observe(h) PROVE Genuine'
    <2>1. chain' = chain /\ entry' = entry /\ job' = job
        BY <1>1 DEF Observe, store, process
    <2>2. PICK r \in Taken[h] : local' = [local EXCEPT ![h] = @ \cup {r}]
        BY <1>1 DEF Observe
    <2>3. Source(r.id, r.build)
        BY DEF Source
    <2>4. local \in Locals
        BY DEF Typed
    <2>5. \A g \in Host : local'[g] \subseteq local[g] \cup {r}
        BY ONLY <2>2, <2>4, h \in Host DEF Locals
    <2>6. GenuineLogs'
        BY <2>3, <2>5 DEF Genuine, GenuineLogs
    <2> QED
        BY <2>1, <2>6, SameGenuine DEF Genuine
<1>2. ASSUME NEW r \in Replica, NEW h \in Host, NEW c, GoodFile(c),
             chain' = [chain EXCEPT ![r][h] = c],
             local' = local, entry' = entry, job' = job
      PROVE  Genuine'
    <2>1. chain \in Files
        BY DEF Typed
    <2>2. \A s \in Replica, g \in Host : chain'[s][g] = chain[s][g] \/ chain'[s][g] = c
        BY ONLY <1>2, <2>1 DEF Files
    <2>3. GenuineFiles'
        BY <1>2, <2>2 DEF Genuine, GenuineFiles
    <2> QED
        BY <1>2, <2>3, SameGenuine DEF Genuine
<1>3. ASSUME NEW r \in Replica, NEW h \in Host, SyncChain(r, h) PROVE Genuine'
    <2>1. /\ chain' = [chain EXCEPT ![r][h] = chain[where[h]][h]]
          /\ local' = local /\ entry' = entry /\ job' = job
        BY <1>3 DEF SyncChain, process
    <2>2. GoodFile(chain[where[h]][h])
        BY DEF Typed, Wheres, Genuine, GenuineFiles
    <2> QED
        BY <1>2, <2>1, <2>2
<1>4. ASSUME NEW r \in Replica, NEW q \in Replica, NEW id \in Snapshot, SyncEntry(r, q, id)
      PROVE  Genuine'
    <2>1. chain' = chain /\ local' = local /\ job' = job
        BY <1>4 DEF SyncEntry, process
    <2>2. \A t \in Replica, i \in Snapshot :
              \/ entry'[t][i] = entry[t][i]
              \/ i = id /\ entry'[t][i] = entry[q][id]
        BY <1>4, SyncEntryEffect
    <2>3. GenuineEntries'
        BY <2>2 DEF Genuine, GenuineEntries
    <2> QED
        BY <2>1, <2>3, SameGenuine DEF Genuine
<1>5. ASSUME NEW h \in Host, Truncate(h) PROVE Genuine'
    <2>1. where[h] \in Replica /\ chain \in Files
        BY DEF Typed, Wheres
    <2>2. PICK c \in Seq(Line) : c = chain[where[h]][h]
        BY <2>1 DEF Files
    <2>3. PICK n \in 0..(Len(c) - 1) : chain' = [chain EXCEPT ![where[h]][h] = SubSeq(c, 1, n)]
        BY <1>5, <2>2 DEF Truncate
    <2>4. local' = local /\ entry' = entry /\ job' = job
        BY <1>5 DEF Truncate, process
    <2>5. GoodFile(c)
        BY <2>1, <2>2 DEF Genuine, GenuineFiles
    <2>6. GoodFile(SubSeq(c, 1, n))
        BY <2>5, GoodPrefix
    <2> QED
        BY <1>2, <2>1, <2>3, <2>4, <2>6
<1> QED
    BY <1>1, <1>3, <1>4, <1>5 DEF Syncer

(* Every step keeps payloads genuine, a truncation too.                       *)
LEMMA NextGenuine ==
    ASSUME Typed, Rests, Genuine, Next
    PROVE  Genuine'
<1>0. ASSUME NEW p \in Proc, Returned(p), chain' = chain, local' = local, entry' = entry
      PROVE  Genuine'
    BY <1>0, ReturnGenuine, SameGenuine DEF Genuine
<1>1. ASSUME NEW p \in Proc, Push(p) PROVE Genuine'
    <2>1. CASE StartPush(p) \/ OpenPush(p)
        BY ONLY Typed, Genuine, p \in Proc, <2>1, PushGenuine
    <2>2. CASE TakeLock(p, "lock push", "push")
        BY <2>2, SameGenuine DEF TakeLock, store, Genuine
    <2>3. CASE PutEntry(p)
        BY ONLY Typed, Genuine, p \in Proc, <2>3, PutEntryGenuine
    <2>4. CASE Publish(p, "push", "anchor")
        BY ONLY Typed, Genuine, p \in Proc, <2>4, PublishGenuine
    <2>5. CASE WriteAnchor(p)
        BY <1>0, <2>5 DEF WriteAnchor, store
    <2> QED
        BY ONLY <1>1, <2>1, <2>2, <2>3, <2>4, <2>5 DEF Push
<1>2. ASSUME NEW p \in Proc, SharedGC(p) PROVE Genuine'
    <2>1. CASE StartGC(p) \/ RemoveEntry(p)
        BY ONLY Typed, Genuine, p \in Proc, <2>1, GCGenuine
    <2>2. CASE TakeLock(p, "lock gc", "publish")
        BY <2>2, SameGenuine DEF TakeLock, store, Genuine
    <2>3. CASE Publish(p, "publish", "remove")
        BY ONLY Typed, Genuine, p \in Proc, <2>3, PublishGenuine
    <2>4. CASE EndGC(p)
        BY <1>0, <2>4 DEF EndGC, store
    <2> QED
        BY ONLY <1>2, <2>1, <2>2, <2>3, <2>4 DEF SharedGC
<1>3. ASSUME NEW p \in Proc, Die(p) PROVE Genuine'
    BY <1>0, <1>3 DEF Die, store
<1> QED
    BY ONLY Typed, Rests, Genuine, Next, <1>1, <1>2, <1>3, PullGenuine, TearGenuine, WorldGenuine
       DEF Next

(* Nothing is recorded at the start.                                          *)
LEMMA InitGenuine == Init => Genuine
<1> SUFFICES ASSUME Init PROVE Genuine
    OBVIOUS
<1>1. /\ \A r \in Replica, h \in Host : chain[r][h] = <<>>
      /\ \A r \in Replica, id \in Snapshot : entry[r][id].payload = Absent
      /\ \A h \in Host : local[h] = {}
      /\ \A p \in Proc : job[p] = Idle
    BY DEF Init
<1>2. GoodFile(<<>>)
    BY DEF GoodFile, Cut, EndsTorn
<1>3. GoodJob(Idle)
    BY DEF GoodJob, Idle
<1> QED
    BY <1>1, <1>2, <1>3 DEF Genuine, GenuineFiles, GenuineLogs, GenuineEntries, GenuineCalls

(* Payloads are genuine always.                                               *)
LEMMA Authenticity == Spec => [](Typed /\ Genuine)
<1>1. Typed /\ Rests /\ Genuine /\ [Next]_vars => Genuine'
    <2> SUFFICES ASSUME Typed, Rests, Genuine, [Next]_vars PROVE Genuine'
        OBVIOUS
    <2>1. CASE UNCHANGED vars
        BY <2>1, SameGenuine DEF vars, store, process, Genuine
    <2> QED
        BY <2>1, NextGenuine
<1> QED
    BY <1>1, InitGenuine, Typing, PTL DEF Spec

(* A record of a replica is of something that was recorded.                   *)
LEMMA RecordGenuine ==
    ASSUME Typed, Genuine, NEW r \in Replica, NEW a \in RevisionsIn(Chains(r))
    PROVE  a.rev.id \in Snapshot /\ Source(a.rev.id, a.rev.build)
<1>1. PICK h \in Host : a \in RevisionsOf(Chains(r), h)
    BY DEF RevisionsIn
<1>2. PICK i \in DOMAIN Chains(r)[h] :
          /\ Chains(r)[h][i].body.kind = "revision"
          /\ a = [src |-> h, line |-> i, rev |-> Chains(r)[h][i].body.rev]
    BY <1>1 DEF RevisionsOf
<1>3. chain \in Files
    BY DEF Typed
<1>4. PICK c \in Seq(Line) : c = chain[r][h] /\ Chains(r)[h] = Records(c)
    BY <1>3 DEF Files, Chains
<1>5. i \in 1..Cut(c) /\ Records(c)[i] = c[i]
    BY <1>2, <1>4, CutRecords
<1>6. a.rev = c[i].body.rev /\ c[i].body.kind = "revision"
    BY <1>2, <1>4, <1>5
<1>7. GoodLine(c[i])
    BY <1>4, <1>5 DEF Genuine, GenuineFiles, GoodFile
<1>8. a \in Record
    BY RevisionTypes, ChainsType
<1> QED
    BY <1>6, <1>7, <1>8 DEF GoodLine, Record, Revision

(* A snapshot whose takers agree has one build.                               *)
LEMMA OneSource ==
    ASSUME NEW id, Agreed(id), NEW x, NEW y, Source(id, x), Source(id, y)
    PROVE  x = y
BY DEF Agreed, Source

(* VerifyShare: a store that the syncer has brought everywhere is clean, but  *)
(* for the forks of overlapping commands and the snapshots whose takers wrote *)
(* different bytes, whatever is half done and whatever died, as long as       *)
(* nobody truncated a chain and no torn line broke one.                       *)
THEOREM ConvergedStoresAreClean == Spec => []ConvergedIsClean
<1>1. Typed /\ Unbroken /\ Genuine /\ NothingGoesSilently => ConvergedIsClean
    <2> SUFFICES ASSUME Typed, Chained, Genuine, NothingGoesSilently, cuts = 0,
                        \A r, q \in Replica : entry[r] = entry[q] /\ chain[r] = chain[q],
                        \A r \in Replica, h \in Host : \A i \in DOMAIN chain[r][h] :
                            chain[r][h][i] # Malformed,
                        NEW r \in Replica
                 PROVE  Clean(r)
        BY DEF ConvergedIsClean, Unbroken
    <2>1. ASSUME NEW h \in Host, ~Crowded(h) PROVE Verifies(chain[r][h])
        <3> SUFFICES ASSUME NEW i \in 1..Len(Records(chain[r][h]))
                     PROVE  Links(Records(chain[r][h]), i)
            BY DEF Verifies
        <3>1. chain \in Files
            BY DEF Typed
        <3>2. PICK c \in Seq(Line) : c = chain[r][h]
            BY <3>1 DEF Files
        <3>3. Links(Records(c), i) \/ \E j \in 1..i : Records(c)[j] = Malformed
            BY <2>1, <3>2, FineRecords DEF Chained, Placed
        <3>4. ASSUME NEW j \in 1..i PROVE Records(c)[j] # Malformed
            <4>1. /\ Cut(c) \in Nat /\ Cut(c) <= Len(c) /\ Len(Records(c)) = Cut(c)
                  /\ \A k \in 1..Cut(c) : Records(c)[k] = c[k]
                BY CutRecords, RecordsType DEF Cut
            <4>2. i \in 1..Cut(c)
                BY <3>2, <4>1
            <4>3. j \in 1..Cut(c) /\ j \in DOMAIN c
                BY <4>1, <4>2, LenProperties
            <4> QED
                BY <3>2, <4>1, <4>3
        <3> QED
            BY <3>2, <3>3, <3>4
    <2>2. ASSUME NEW a \in RevisionsIn(Chains(r)), entry[r][a.rev.id].payload # Absent,
                 Agreed(a.rev.id)
          PROVE  /\ entry[r][a.rev.id].payload = a.rev.build
                 /\ \A b \in RevisionsIn(Chains(r)) : b.rev.id = a.rev.id =>
                        b.rev.build = entry[r][a.rev.id].payload
        <3>1. PICK x : x = entry[r][a.rev.id].payload
            OBVIOUS
        <3>2. a.rev.id \in Snapshot
            BY RecordGenuine
        <3>3. Source(a.rev.id, x)
            BY <2>2, <3>1, <3>2 DEF Genuine, GenuineEntries
        <3>4. ASSUME NEW b \in RevisionsIn(Chains(r)), b.rev.id = a.rev.id
              PROVE  b.rev.build = x
            <4>1. Source(a.rev.id, b.rev.build)
                BY <3>4, RecordGenuine
            <4> QED
                BY <2>2, <3>3, <4>1, OneSource
        <3> QED
            BY <3>1, <3>4
    <2>3. ASSUME NEW a \in RevisionsIn(Chains(r)), entry[r][a.rev.id].payload = Absent
          PROVE  a.rev.id \in PrunedIn(Chains(r))
        <3>1. \A h \in Host : where[h] \in Replica
            BY DEF Typed, Wheres
        <3>2. \A h \in Host : Owned(h) = chain[r][h] /\ entry[where[h]] = entry[r]
            BY <3>1 DEF Owned
        <3>3. Published = Chains(r)
            BY <3>2 DEF Published, Chains
        <3>4. PICK h \in Host : a \in RevisionsOf(Published, h)
            BY <3>3 DEF RevisionsIn
        <3>5. entry[where[h]][a.rev.id].payload = Absent
            BY <2>3, <3>2
        <3>6. \A g \in Host : Malformed \notin {Owned(g)[i] : i \in DOMAIN Owned(g)}
            BY <3>2
        <3>7. a.rev.id \in PrunedIn(Published)
            BY <3>4, <3>5, <3>6 DEF NothingGoesSilently
        <3> QED
            BY <3>3, <3>7
    <2> QED
        BY <2>1, <2>2, <2>3 DEF Clean
<1> QED
    BY <1>1, Chaining, Authenticity, RetentionIsHonest, PTL

=============================================================================
