------------------------ MODULE HistoryShare_lemmas -------------------------
(***************************************************************************)
(* Lemmas about the operators of HistoryShare: what an append does to a    *)
(* chain file, what the choices of push and pull return, and types.        *)
(***************************************************************************)
EXTENDS HistoryShare, SequenceTheorems, WellFoundedInduction, TLAPS

-----------------------------------------------------------------------------
(* Sequences. *)

(* The first n members.                                                       *)
LEMMA Prefix ==
    ASSUME NEW S, NEW s \in Seq(S), NEW n \in 0..Len(s)
    PROVE  /\ SubSeq(s, 1, n) \in Seq(S)
           /\ Len(SubSeq(s, 1, n)) = n
           /\ \A i \in 1..n : SubSeq(s, 1, n)[i] = s[i]
<1>1. Len(s) \in Nat /\ n \in Int /\ 1 \in Int /\ \A i \in 1..n : s[i] \in S
    BY LenProperties
<1>2. /\ SubSeq(s, 1, n) \in Seq(S)
      /\ Len(SubSeq(s, 1, n)) = IF 1 <= n THEN n - 1 + 1 ELSE 0
      /\ \A i \in 1..(n - 1 + 1) : SubSeq(s, 1, n)[i] = s[1 + i - 1]
    BY ONLY <1>1, SubSeqProperties
<1>3. n - 1 + 1 = n /\ \A i \in 1..n : 1 + i - 1 = i
    BY <1>1
<1>4. ASSUME NEW i \in 1..n PROVE SubSeq(s, 1, n)[i] = s[i]
    BY <1>2, <1>3
<1> QED
    BY <1>1, <1>2, <1>3, <1>4

(* All members but the first.                                                 *)
LEMMA Remainder ==
    ASSUME NEW S, NEW s \in Seq(S), s # <<>>
    PROVE  /\ SubSeq(s, 2, Len(s)) \in Seq(S)
           /\ Len(SubSeq(s, 2, Len(s))) = Len(s) - 1
           /\ \A i \in 1..(Len(s) - 1) : SubSeq(s, 2, Len(s))[i] = s[i + 1]
BY HeadTailProperties, TailIsSubSeq

(* A concatenation is the first sequence and then the second.                 *)
LEMMA Concat ==
    ASSUME NEW S, NEW s \in Seq(S), NEW t \in Seq(S)
    PROVE  /\ s \o t \in Seq(S)
           /\ Len(s \o t) = Len(s) + Len(t)
           /\ \A i \in 1..Len(s) : (s \o t)[i] = s[i]
           /\ \A k \in 1..Len(t) : (s \o t)[Len(s) + k] = t[k]
OBVIOUS

(* The same with one member between the two.                                  *)
LEMMA Spliced ==
    ASSUME NEW S, NEW s \in Seq(S), NEW x \in S, NEW t \in Seq(S), NEW w,
           w = s \o <<x>> \o t
    PROVE  /\ w \in Seq(S)
           /\ Len(w) = Len(s) + 1 + Len(t)
           /\ \A i \in 1..Len(s) : w[i] = s[i]
           /\ w[Len(s) + 1] = x
           /\ \A k \in 1..Len(t) : w[Len(s) + 1 + k] = t[k]
<1> DEFINE e == s \o <<x>>
<1>1. /\ e \in Seq(S)
      /\ Len(e) = Len(s) + 1
      /\ \A i \in 1..Len(s) : e[i] = s[i]
      /\ e[Len(s) + 1] = x
    OBVIOUS
<1>2. w = e \o t
    OBVIOUS
<1>3. Len(s) \in Nat /\ Len(t) \in Nat
    OBVIOUS
<1> HIDE DEF e
<1>4. /\ w \in Seq(S)
      /\ Len(w) = Len(e) + Len(t)
      /\ \A i \in 1..Len(e) : w[i] = e[i]
      /\ \A k \in 1..Len(t) : w[Len(e) + k] = t[k]
    BY <1>1, <1>2, Concat
<1> QED
    BY <1>1, <1>3, <1>4

-----------------------------------------------------------------------------
(* Lines and chain files. *)

(* The records Push and SharedGC write are lines' bodies.                     *)
LEMMA Bodies ==
    /\ \A r \in Revision : Observed(r) \in Body
    /\ \A S \in SUBSET Snapshot : Pruning(S) \in Body
    /\ Partial \in Line /\ Malformed \in Line
    /\ Partial # Malformed
<1>1. \A r \in Revision : Observed(r) \in Body
    BY DEF Observed, Body
<1>2. \A S \in SUBSET Snapshot : Pruning(S) \in Body
    BY DEF Pruning, Body
<1>3. /\ Fragment("partial") \in Body
      /\ Fragment("malformed") \in Body
      /\ Fragment("partial") # Fragment("malformed")
    BY DEF Fragment, Body
<1>4. <<>> \in Seq(Body)
    OBVIOUS
<1>5. Partial \in Line /\ Malformed \in Line /\ Partial # Malformed
    BY <1>3, <1>4 DEF Partial, Malformed, Line
<1> QED
    BY <1>1, <1>2, <1>5

(* What a line says of its predecessor and of itself is a hash.               *)
LEMMA HashType ==
    ASSUME NEW l \in Line
    PROVE  ShareRecordHash(l) \in Seq(Body) /\ ShareRecordHash(l) # <<>>
<1>1. l.prev \in Seq(Body) /\ l.body \in Body
    BY DEF Line
<1> QED
    BY <1>1 DEF ShareRecordHash

(* A reader takes all lines but a last one cut short.                         *)
LEMMA RecordsType ==
    ASSUME NEW c \in Seq(Line)
    PROVE  /\ Records(c) \in Seq(Line)
           /\ Len(Records(c)) \in Nat
           /\ Len(Records(c)) = IF EndsTorn(c) THEN Len(c) - 1 ELSE Len(c)
           /\ \A i \in 1..Len(Records(c)) : i \in 1..Len(c) /\ Records(c)[i] = c[i]
<1>1. CASE ~EndsTorn(c)
    BY <1>1 DEF Records
<1>2. CASE EndsTorn(c)
    <2>1. Len(c) \in Nat /\ Len(c) >= 1
        BY <1>2, EmptySeq DEF EndsTorn
    <2>2. Len(c) - 1 \in 0..Len(c)
        BY <2>1
    <2>3. /\ SubSeq(c, 1, Len(c) - 1) \in Seq(Line)
          /\ Len(SubSeq(c, 1, Len(c) - 1)) = Len(c) - 1
          /\ \A i \in 1..(Len(c) - 1) : SubSeq(c, 1, Len(c) - 1)[i] = c[i]
        BY <2>2, Prefix
    <2> QED
        BY <1>2, <2>1, <2>3 DEF Records
<1> QED
    BY <1>1, <1>2

(* The head of a chain is a hash, of its last record if it has one.           *)
LEMMA HeadType ==
    ASSUME NEW c \in Seq(Line), NEW i \in 0..Len(c)
    PROVE  HeadAt(c, i) \in Seq(Body)
<1>1. CASE i = 0
    BY <1>1 DEF HeadAt
<1>2. CASE i # 0
    <2>1. c[i] \in Line
        BY <1>2, ElementOfSeq
    <2> QED
        BY <1>2, <2>1, HashType DEF HeadAt
<1> QED
    BY <1>1, <1>2

(* appendChain to a file that ends with a whole line adds the new lines;      *)
(* otherwise the first of them is glued to the line that was cut short.       *)
Joined(c, new) == c \o new
Glued(c, x, new) == SubSeq(c, 1, Len(c) - 1) \o <<x>> \o SubSeq(new, 2, Len(new))

(* A file that ends with a whole line.                                        *)
LEMMA WrittenWhole ==
    ASSUME NEW c \in Seq(Line), NEW new \in Seq(Line)
    PROVE  /\ Joined(c, new) \in Seq(Line)
           /\ Len(Joined(c, new)) = Len(c) + Len(new)
           /\ \A i \in 1..Len(c) : Joined(c, new)[i] = c[i]
           /\ \A k \in 1..Len(new) : Joined(c, new)[Len(c) + k] = new[k]
BY Concat DEF Joined

(* A file whose last line was cut short; x is what became of that line.       *)
LEMMA WrittenTorn ==
    ASSUME NEW c \in Seq(Line), c # <<>>, NEW new \in Seq(Line), new # <<>>,
           NEW x \in Line
    PROVE  /\ Glued(c, x, new) \in Seq(Line)
           /\ Len(Glued(c, x, new)) = Len(c) - 1 + Len(new)
           /\ \A i \in 1..(Len(c) - 1) : Glued(c, x, new)[i] = c[i]
           /\ Glued(c, x, new)[Len(c)] = x
           /\ \A k \in 2..Len(new) : Glued(c, x, new)[Len(c) - 1 + k] = new[k]
<1>0. PICK w : w = Glued(c, x, new)
    OBVIOUS
<1>1. PICK a : a = SubSeq(c, 1, Len(c) - 1)
    OBVIOUS
<1>2. PICK d : d = SubSeq(new, 2, Len(new))
    OBVIOUS
<1>3. Len(c) \in Nat /\ Len(c) >= 1 /\ Len(new) \in Nat /\ Len(new) >= 1
    BY EmptySeq
<1>4. /\ a \in Seq(Line)
      /\ Len(a) = Len(c) - 1
      /\ \A i \in 1..(Len(c) - 1) : a[i] = c[i]
    <2>1. Len(c) - 1 \in 0..Len(c)
        BY <1>3
    <2> QED
        BY <1>1, <2>1, Prefix
<1>5. /\ d \in Seq(Line)
      /\ Len(d) = Len(new) - 1
      /\ \A i \in 1..(Len(new) - 1) : d[i] = new[i + 1]
    BY <1>2, Remainder
<1>6. w = a \o <<x>> \o d
    BY <1>0, <1>1, <1>2 DEF Glued
<1>7. /\ w \in Seq(Line)
      /\ Len(w) = Len(a) + 1 + Len(d)
      /\ \A i \in 1..Len(a) : w[i] = a[i]
      /\ w[Len(a) + 1] = x
      /\ \A k \in 1..Len(d) : w[Len(a) + 1 + k] = d[k]
    <2>1. a \in Seq(Line) /\ d \in Seq(Line) /\ x \in Line
        BY <1>4, <1>5
    <2> QED
        BY ONLY <1>6, <2>1, Spliced
<1>8. ASSUME NEW k \in 2..Len(new) PROVE w[Len(c) - 1 + k] = new[k]
    <2>1. k - 1 \in 1..Len(d) /\ Len(a) + 1 + (k - 1) = Len(c) - 1 + k /\ (k - 1) + 1 = k
        BY <1>3, <1>4, <1>5
    <2>2. w[Len(a) + 1 + (k - 1)] = d[k - 1] /\ d[k - 1] = new[(k - 1) + 1]
        BY <1>5, <1>7, <2>1
    <2> QED
        BY <2>1, <2>2
<1>9. Len(a) + 1 + Len(d) = Len(c) - 1 + Len(new) /\ Len(a) + 1 = Len(c)
    BY <1>3, <1>4, <1>5
<1>10. ASSUME NEW i \in 1..(Len(c) - 1) PROVE w[i] = c[i]
    BY <1>4, <1>7
<1> QED
    BY <1>0, <1>7, <1>8, <1>9, <1>10

(* So every line past the first n is one of the new ones, or what became of   *)
(* the one cut short.                                                         *)
LEMMA AddedWhole ==
    ASSUME NEW c \in Seq(Line), NEW new \in Seq(Line), new # <<>>
    PROVE  /\ Joined(c, new) \in Seq(Line)
           /\ Len(c) < Len(Joined(c, new))
           /\ \A i \in 1..Len(c) : Joined(c, new)[i] = c[i]
           /\ \A i \in (Len(c) + 1)..Len(Joined(c, new)) :
                  \E k \in 1..Len(new) : Joined(c, new)[i] = new[k]
<1>1. /\ Joined(c, new) \in Seq(Line)
      /\ Len(Joined(c, new)) = Len(c) + Len(new)
      /\ \A i \in 1..Len(c) : Joined(c, new)[i] = c[i]
      /\ \A k \in 1..Len(new) : Joined(c, new)[Len(c) + k] = new[k]
    BY WrittenWhole
<1>2. Len(c) \in Nat /\ Len(new) \in Nat /\ Len(new) >= 1
    BY EmptySeq
<1>3. ASSUME NEW i \in (Len(c) + 1)..Len(Joined(c, new))
      PROVE  \E k \in 1..Len(new) : Joined(c, new)[i] = new[k]
    <2>1. i - Len(c) \in 1..Len(new) /\ Len(c) + (i - Len(c)) = i
        BY <1>1, <1>2
    <2>2. Joined(c, new)[Len(c) + (i - Len(c))] = new[i - Len(c)]
        BY <1>1, <2>1
    <2> QED
        BY <2>1, <2>2
<1>4. Len(c) < Len(Joined(c, new))
    BY <1>1, <1>2
<1> QED
    BY <1>1, <1>3, <1>4

(* The same when the last line was cut short.                                 *)
LEMMA AddedTorn ==
    ASSUME NEW c \in Seq(Line), c # <<>>, NEW new \in Seq(Line), new # <<>>,
           NEW x \in Line
    PROVE  /\ Glued(c, x, new) \in Seq(Line)
           /\ Len(c) <= Len(Glued(c, x, new))
           /\ \A i \in 1..(Len(c) - 1) : Glued(c, x, new)[i] = c[i]
           /\ Glued(c, x, new)[Len(c)] = x
           /\ \A i \in Len(c)..Len(Glued(c, x, new)) :
                  Glued(c, x, new)[i] = x \/ \E k \in 1..Len(new) : Glued(c, x, new)[i] = new[k]
<1>1. /\ Glued(c, x, new) \in Seq(Line)
      /\ Len(Glued(c, x, new)) = Len(c) - 1 + Len(new)
      /\ \A i \in 1..(Len(c) - 1) : Glued(c, x, new)[i] = c[i]
      /\ Glued(c, x, new)[Len(c)] = x
      /\ \A k \in 2..Len(new) : Glued(c, x, new)[Len(c) - 1 + k] = new[k]
    BY WrittenTorn
<1>2. Len(c) \in Nat /\ Len(new) \in Nat /\ Len(new) >= 1 /\ Len(c) >= 1
    BY EmptySeq
<1>3. ASSUME NEW i \in Len(c)..Len(Glued(c, x, new))
      PROVE  Glued(c, x, new)[i] = x \/ \E k \in 1..Len(new) : Glued(c, x, new)[i] = new[k]
    <2>1. CASE i = Len(c)
        BY <1>1, <2>1
    <2>2. CASE i # Len(c)
        <3>1. /\ i - Len(c) + 1 \in 2..Len(new)
              /\ i - Len(c) + 1 \in 1..Len(new)
              /\ Len(c) - 1 + (i - Len(c) + 1) = i
            BY <1>1, <1>2, <2>2
        <3>2. Glued(c, x, new)[Len(c) - 1 + (i - Len(c) + 1)] = new[i - Len(c) + 1]
            BY <1>1, <3>1
        <3> QED
            BY <3>1, <3>2
    <2> QED
        BY <2>1, <2>2
<1>4. Len(c) <= Len(Glued(c, x, new))
    BY <1>1, <1>2
<1> QED
    BY <1>1, <1>3, <1>4

(* How many lines of a file are records.                                      *)
Cut(c) == IF EndsTorn(c) THEN Len(c) - 1 ELSE Len(c)

(* They are the first lines of it.                                            *)
LEMMA CutRecords ==
    ASSUME NEW c \in Seq(Line)
    PROVE  /\ Cut(c) \in Nat
           /\ Cut(c) <= Len(c) /\ Len(c) <= Cut(c) + 1
           /\ DOMAIN Records(c) = 1..Cut(c)
           /\ \A i \in 1..Cut(c) : Records(c)[i] = c[i]
<1>1. /\ Records(c) \in Seq(Line)
      /\ Len(Records(c)) \in Nat
      /\ Len(Records(c)) = Cut(c)
      /\ \A i \in 1..Len(Records(c)) : i \in 1..Len(c) /\ Records(c)[i] = c[i]
    BY RecordsType DEF Cut
<1>2. DOMAIN Records(c) = 1..Len(Records(c))
    BY <1>1, LenProperties
<1>3. Len(c) \in Nat
    OBVIOUS
<1>4. Cut(c) <= Len(c) /\ Len(c) <= Cut(c) + 1
    BY <1>3 DEF Cut
<1> QED
    BY <1>1, <1>2, <1>4

(* What appendChain does to a file.                                           *)
LEMMA AppendedLines ==
    ASSUME NEW c \in Seq(Line), NEW new \in Seq(Line)
    PROVE  /\ Written(c, new) \in Seq(Line)
           /\ Cut(c) <= Cut(Written(c, new))
           /\ \A i \in 1..Cut(c) : Written(c, new)[i] = c[i]
           /\ \A i \in (Cut(c) + 1)..Cut(Written(c, new)) :
                  \/ Written(c, new)[i] \in {Partial, Malformed}
                  \/ \E k \in 1..Len(new) : Written(c, new)[i] = new[k]
<1>0. Len(c) \in Nat
    OBVIOUS
<1>1. CASE new = <<>>
    <2>1. Written(c, new) = c
        BY <1>1 DEF Written
    <2>2. Cut(c) \in Nat
        BY CutRecords
    <2>3. (Cut(c) + 1)..Cut(c) = {}
        BY <2>2
    <2> QED
        BY <2>1, <2>2, <2>3
<1>2. CASE new # <<>> /\ ~EndsTorn(c)
    <2>1. PICK w : w = Joined(c, new)
        OBVIOUS
    <2>2. Written(c, new) = w
        BY <1>2, <2>1 DEF Written, Joined
    <2>3. /\ w \in Seq(Line)
          /\ Len(c) < Len(w)
          /\ \A i \in 1..Len(c) : w[i] = c[i]
          /\ \A i \in (Len(c) + 1)..Len(w) : \E k \in 1..Len(new) : w[i] = new[k]
        <3>1. /\ Joined(c, new) \in Seq(Line)
              /\ Len(c) < Len(Joined(c, new))
              /\ \A i \in 1..Len(c) : Joined(c, new)[i] = c[i]
              /\ \A i \in (Len(c) + 1)..Len(Joined(c, new)) :
                     \E k \in 1..Len(new) : Joined(c, new)[i] = new[k]
            BY ONLY <1>2, AddedWhole, c \in Seq(Line), new \in Seq(Line)
        <3> QED
            BY ONLY <2>1, <3>1
    <2>4. Cut(c) = Len(c)
        BY <1>2 DEF Cut
    <2>5. Cut(w) \in Nat /\ Cut(w) <= Len(w) /\ Len(w) <= Cut(w) + 1 /\ Len(w) \in Nat
        BY <2>3, CutRecords
    <2>6. Len(c) <= Cut(w) /\ \A i \in (Len(c) + 1)..Cut(w) : i \in (Len(c) + 1)..Len(w)
        BY ONLY <1>0, <2>3, <2>5
    <2>7. /\ w \in Seq(Line)
          /\ Len(c) <= Cut(w)
          /\ \A i \in 1..Len(c) : w[i] = c[i]
          /\ \A i \in (Len(c) + 1)..Cut(w) :
                 w[i] \in {Partial, Malformed} \/ \E k \in 1..Len(new) : w[i] = new[k]
        BY ONLY <2>3, <2>6
    <2> QED
        BY ONLY <2>2, <2>4, <2>7
<1>3. CASE new # <<>> /\ EndsTorn(c)
    <2>0. PICK x : x = IF new[1] = Partial THEN Partial ELSE Malformed
        OBVIOUS
    <2>1. PICK w : w = Glued(c, x, new)
        OBVIOUS
    <2>2. Written(c, new) = w
        BY <1>3, <2>0, <2>1 DEF Written, Glued
    <2>3. x \in Line /\ x \in {Partial, Malformed} /\ c # <<>> /\ new # <<>>
        BY <1>3, <2>0, Bodies DEF EndsTorn
    <2>4. /\ w \in Seq(Line)
          /\ Len(c) <= Len(w)
          /\ \A i \in 1..(Len(c) - 1) : w[i] = c[i]
          /\ w[Len(c)] = x
          /\ \A i \in Len(c)..Len(w) : w[i] = x \/ \E k \in 1..Len(new) : w[i] = new[k]
        <3>1. /\ Glued(c, x, new) \in Seq(Line)
              /\ Len(c) <= Len(Glued(c, x, new))
              /\ \A i \in 1..(Len(c) - 1) : Glued(c, x, new)[i] = c[i]
              /\ Glued(c, x, new)[Len(c)] = x
              /\ \A i \in Len(c)..Len(Glued(c, x, new)) :
                     \/ Glued(c, x, new)[i] = x
                     \/ \E k \in 1..Len(new) : Glued(c, x, new)[i] = new[k]
            BY ONLY <2>3, AddedTorn, c \in Seq(Line), new \in Seq(Line)
        <3> QED
            BY ONLY <2>1, <3>1
    <2>5. Cut(c) = Len(c) - 1 /\ Cut(c) + 1 = Len(c)
        BY <1>0, <1>3 DEF Cut
    <2>6. Cut(w) \in Nat /\ Cut(w) <= Len(w) /\ Len(w) <= Cut(w) + 1 /\ Len(w) \in Nat
        BY <2>4, CutRecords
    <2>7. Len(c) - 1 <= Cut(w) /\ \A i \in Len(c)..Cut(w) : i \in Len(c)..Len(w)
        BY ONLY <1>0, <2>4, <2>6
    <2>8. /\ w \in Seq(Line)
          /\ Len(c) - 1 <= Cut(w)
          /\ \A i \in 1..(Len(c) - 1) : w[i] = c[i]
          /\ \A i \in Len(c)..Cut(w) :
                 w[i] \in {Partial, Malformed} \/ \E k \in 1..Len(new) : w[i] = new[k]
        BY ONLY <2>3, <2>4, <2>7
    <2> QED
        BY ONLY <2>2, <2>5, <2>8
<1> QED
    BY ONLY <1>1, <1>2, <1>3

(* A malformed line is a record, so it stays too.                             *)
LEMMA MalformedStays ==
    ASSUME NEW c \in Seq(Line), NEW new \in Seq(Line),
           NEW i \in DOMAIN c, c[i] = Malformed
    PROVE  i \in DOMAIN Written(c, new) /\ Written(c, new)[i] = Malformed
<1>1. Len(c) \in Nat /\ DOMAIN c = 1..Len(c) /\ i \in 1..Len(c)
    BY LenProperties
<1>2. EndsTorn(c) => i # Len(c)
    BY DEF EndsTorn, Malformed, Fragment
<1>3. i \in 1..Cut(c)
    BY ONLY <1>1, <1>2 DEF Cut
<1>4. Written(c, new) \in Seq(Line) /\ Cut(c) <= Cut(Written(c, new)) /\ Written(c, new)[i] = c[i]
    BY ONLY <1>3, AppendedLines, c \in Seq(Line), new \in Seq(Line)
<1>5. Cut(c) \in Nat
    BY ONLY CutRecords, c \in Seq(Line)
<1>6. /\ Cut(Written(c, new)) \in Nat
      /\ Cut(Written(c, new)) <= Len(Written(c, new))
    BY ONLY <1>4, CutRecords
<1>7. DOMAIN Written(c, new) = 1..Len(Written(c, new)) /\ Len(Written(c, new)) \in Nat
    BY ONLY <1>4, LenProperties
<1>8. i \in 1..Len(Written(c, new))
    BY ONLY <1>3, <1>4, <1>5, <1>6, <1>7
<1> QED
    BY ONLY <1>4, <1>7, <1>8, c[i] = Malformed

(* What appendChain does to the records of a file.                            *)
LEMMA AppendedRecords ==
    ASSUME NEW c \in Seq(Line), NEW new \in Seq(Line)
    PROVE  /\ \A i \in DOMAIN Records(c) :
                  /\ i \in DOMAIN Records(Written(c, new))
                  /\ Records(Written(c, new))[i] = Records(c)[i]
           /\ \A i \in DOMAIN Records(Written(c, new)) \ DOMAIN Records(c) :
                  \/ Records(Written(c, new))[i] \in {Partial, Malformed}
                  \/ \E k \in DOMAIN new : Records(Written(c, new))[i] = new[k]
<1>1. PICK w : w = Written(c, new)
    OBVIOUS
<1>2. /\ w \in Seq(Line)
      /\ Cut(c) <= Cut(w)
      /\ \A i \in 1..Cut(c) : w[i] = c[i]
      /\ \A i \in (Cut(c) + 1)..Cut(w) :
             w[i] \in {Partial, Malformed} \/ \E k \in 1..Len(new) : w[i] = new[k]
    <2>1. /\ Written(c, new) \in Seq(Line)
          /\ Cut(c) <= Cut(Written(c, new))
          /\ \A i \in 1..Cut(c) : Written(c, new)[i] = c[i]
          /\ \A i \in (Cut(c) + 1)..Cut(Written(c, new)) :
                 \/ Written(c, new)[i] \in {Partial, Malformed}
                 \/ \E k \in 1..Len(new) : Written(c, new)[i] = new[k]
        BY ONLY AppendedLines, c \in Seq(Line), new \in Seq(Line)
    <2> QED
        BY ONLY <1>1, <2>1
<1>3. /\ Cut(c) \in Nat
      /\ DOMAIN Records(c) = 1..Cut(c)
      /\ \A i \in 1..Cut(c) : Records(c)[i] = c[i]
    BY ONLY CutRecords, c \in Seq(Line)
<1>4. /\ Cut(w) \in Nat
      /\ DOMAIN Records(w) = 1..Cut(w)
      /\ \A i \in 1..Cut(w) : Records(w)[i] = w[i]
    BY ONLY <1>2, CutRecords
<1>5. DOMAIN new = 1..Len(new)
    BY LenProperties
<1>6. ASSUME NEW i \in DOMAIN Records(c)
      PROVE  i \in DOMAIN Records(w) /\ Records(w)[i] = Records(c)[i]
    <2>1. i \in 1..Cut(c) /\ i \in 1..Cut(w)
        BY ONLY <1>2, <1>3, <1>4, i \in DOMAIN Records(c)
    <2> QED
        BY ONLY <1>2, <1>3, <1>4, <2>1
<1>7. ASSUME NEW i \in DOMAIN Records(w) \ DOMAIN Records(c)
      PROVE  Records(w)[i] \in {Partial, Malformed} \/ \E k \in DOMAIN new : Records(w)[i] = new[k]
    <2>1. i \in 1..Cut(w) /\ i \in (Cut(c) + 1)..Cut(w)
        BY ONLY <1>2, <1>3, <1>4, i \in DOMAIN Records(w) \ DOMAIN Records(c)
    <2> QED
        BY ONLY <1>2, <1>4, <1>5, <2>1
<1> QED
    BY ONLY <1>1, <1>6, <1>7

(* A prune record that was appended is read, unless it made a malformed line. *)
LEMMA PruneAppended ==
    ASSUME NEW c \in Seq(Line), NEW l \in Line, l.body.kind = "prune"
    PROVE  \/ \E i \in DOMAIN Records(Written(c, <<l>>)) : Records(Written(c, <<l>>))[i] = l
           \/ \E i \in DOMAIN Written(c, <<l>>) : Written(c, <<l>>)[i] = Malformed
<1>1. PICK new : new = <<l>>
    OBVIOUS
<1>2. new \in Seq(Line) /\ Len(new) = 1 /\ new[1] = l /\ new # <<>>
    BY ONLY <1>1, l \in Line
<1>3. Len(c) \in Nat
    OBVIOUS
<1>4. CASE ~EndsTorn(c)
    <2>1. PICK w : w = Joined(c, new)
        OBVIOUS
    <2>2. Written(c, new) = w
        BY <1>2, <1>4, <2>1 DEF Written, Joined
    <2>3. w \in Seq(Line) /\ Len(w) = Len(c) + 1 /\ w[Len(c) + 1] = l
        <3>1. /\ Joined(c, new) \in Seq(Line)
              /\ Len(Joined(c, new)) = Len(c) + Len(new)
              /\ \A k \in 1..Len(new) : Joined(c, new)[Len(c) + k] = new[k]
            BY ONLY <1>2, WrittenWhole, c \in Seq(Line)
        <3>2. 1 \in 1..Len(new)
            BY <1>2
        <3>3. Joined(c, new)[Len(c) + 1] = new[1]
            BY <3>1, <3>2
        <3> QED
            BY ONLY <1>2, <2>1, <3>1, <3>3
    <2>4. w[Len(w)] = l
        BY ONLY <2>3
    <2>5. ~EndsTorn(w)
        BY ONLY <2>4, l.body.kind = "prune" DEF EndsTorn
    <2>6. Records(w) = w /\ DOMAIN w = 1..Len(w)
        BY <2>3, <2>5, LenProperties DEF Records
    <2>7. Len(w) \in 1..Len(w)
        BY ONLY <1>3, <2>3
    <2> QED
        BY ONLY <1>1, <2>2, <2>4, <2>6, <2>7
<1>5. CASE EndsTorn(c)
    <2>1. PICK w : w = Glued(c, Malformed, new)
        OBVIOUS
    <2>2. new[1] # Partial /\ c # <<>> /\ Malformed \in Line
        BY <1>2, <1>5, Bodies DEF EndsTorn, Partial, Fragment
    <2>3. Written(c, new) = w
        BY <1>2, <1>5, <2>1, <2>2 DEF Written, Glued
    <2>4. w \in Seq(Line) /\ Len(w) = Len(c) - 1 + Len(new) /\ w[Len(c)] = Malformed
        <3>1. /\ Glued(c, Malformed, new) \in Seq(Line)
              /\ Len(Glued(c, Malformed, new)) = Len(c) - 1 + Len(new)
              /\ Glued(c, Malformed, new)[Len(c)] = Malformed
            <4>1. c # <<>> /\ Malformed \in Line /\ new \in Seq(Line) /\ new # <<>>
                BY <1>2, <2>2
            <4> QED
                BY ONLY <4>1, WrittenTorn, c \in Seq(Line)
        <3> QED
            BY ONLY <2>1, <3>1
    <2>5. Len(c) >= 1
        BY <2>2, EmptySeq
    <2>6. Len(c) \in 1..Len(w) /\ DOMAIN w = 1..Len(w)
        BY <1>2, <1>3, <2>4, <2>5, LenProperties
    <2> QED
        BY ONLY <1>1, <2>3, <2>4, <2>6
<1> QED
    BY <1>4, <1>5

-----------------------------------------------------------------------------
(* Choices. *)

(* A set of natural numbers has a smallest one.                               *)
LEMMA Smallest ==
    ASSUME NEW S, S \subseteq Nat, S # {}
    PROVE  \E n \in S : \A m \in S : n <= m
<1>1. PICK n \in S : \A m \in S : ~(<<m, n>> \in OpToRel(<, Nat))
    BY WFMin, NatLessThanWellFounded
<1>2. ASSUME NEW m \in S PROVE n <= m
    <2>1. m \in Nat /\ n \in Nat
        OBVIOUS
    <2>2. ~(<<m, n>> \in OpToRel(<, Nat))
        BY <1>1
    <2>3. ~(m < n)
        BY ONLY <2>1, <2>2 DEF OpToRel
    <2> QED
        BY <2>1, <2>3
<1> QED
    BY <1>2

(* Push takes the oldest revision it has left.                                *)
LEMMA OldestIn ==
    ASSUME NEW R, R \subseteq Revision, R # {}
    PROVE  Oldest(R) \in R
<1>1. {r.at : r \in R} \subseteq Nat /\ {r.at : r \in R} # {}
    BY DEF Revision
<1>2. PICK n \in {r.at : r \in R} : \A m \in {r.at : r \in R} : n <= m
    BY <1>1, Smallest
<1>3. \E r \in R : \A q \in R : r.at <= q.at
    BY <1>2
<1> QED
    BY <1>3 DEF Oldest

(* A line of a file is one record.                                            *)
OneRecordALine(R) == \A a, b \in R : a.src = b.src /\ a.line = b.line => a = b

(* Pull takes the first record it has left.                                   *)
LEMMA FirstIn ==
    ASSUME NEW R, R \subseteq Record, R # {}, OneRecordALine(R)
    PROVE  First(R) \in R
<1>1. \A a \in R : a.rev.at \in Nat /\ a.src \in Host /\ a.line \in Nat /\ Rank[a.src] \in Nat
    BY ConstantsOK DEF Record, Revision
<1>2. PICK t \in {a.rev.at : a \in R} : \A m \in {a.rev.at : a \in R} : t <= m
    BY <1>1, Smallest
<1> DEFINE A == {a \in R : a.rev.at = t}
<1>3. PICK k \in {Rank[a.src] : a \in A} : \A m \in {Rank[a.src] : a \in A} : k <= m
    <2>1. {Rank[a.src] : a \in A} \subseteq Nat /\ {Rank[a.src] : a \in A} # {}
        BY <1>1, <1>2
    <2> QED
        BY <2>1, Smallest
<1> DEFINE B == {a \in A : Rank[a.src] = k}
<1>4. PICK n \in {a.line : a \in B} : \A m \in {a.line : a \in B} : n <= m
    <2>1. {a.line : a \in B} \subseteq Nat /\ {a.line : a \in B} # {}
        BY <1>1, <1>3
    <2> QED
        BY <2>1, Smallest
<1>5. PICK f \in R : f.rev.at = t /\ Rank[f.src] = k /\ f.line = n
    BY <1>4
<1>6. ASSUME NEW b \in R \ {f} PROVE Before(f, b)
    <2>1. t <= b.rev.at /\ t \in Nat /\ b.rev.at \in Nat
        BY <1>1, <1>2
    <2>2. CASE b.rev.at # t
        BY <1>5, <2>1, <2>2 DEF Before
    <2>3. CASE b.rev.at = t /\ Rank[b.src] # k
        <3>1. k <= Rank[b.src] /\ k \in Nat /\ Rank[b.src] \in Nat
            BY <1>1, <1>3, <2>3
        <3> QED
            BY <1>5, <2>3, <3>1 DEF Before
    <2>4. CASE b.rev.at = t /\ Rank[b.src] = k
        <3>1. b.src = f.src
            BY <1>1, <1>5, <2>4, ConstantsOK
        <3>2. n <= b.line /\ n \in Nat /\ b.line \in Nat
            BY <1>1, <1>4, <2>4
        <3>3. b.line # f.line
            BY <3>1 DEF OneRecordALine
        <3> QED
            BY <1>5, <2>4, <3>1, <3>2, <3>3 DEF Before
    <2> QED
        BY <2>2, <2>3, <2>4
<1> QED
    BY <1>5, <1>6 DEF First

-----------------------------------------------------------------------------
(* Types. *)

PCs == {"idle", "open", "lock push", "push", "anchor", "lock gc", "publish", "remove", "pull"}

Jobs(A, B, C, D, E) == [todo: A, batch: B, head: C, doomed: D, opened: E, rest: E]

Todos == SUBSET Revision
Batches == Seq(Line)
Heads == Seq(Body)
Dooms == SUBSET Snapshot
Reads == SUBSET Record

Job == Jobs(Todos, Batches, Heads, Dooms, Reads)

Entries == [payload: Build \cup {Absent}, change: Nat]

(* A process that does nothing has its types.                                 *)
LEMMA IdleType == Idle \in Job
<1>1. <<>> \in Seq(Line) /\ <<>> \in Seq(Body)
    OBVIOUS
<1> QED
    BY <1>1 DEF Idle, Job, Jobs, Todos, Batches, Heads, Dooms, Reads

(* The types of the variables, by name.                                       *)
Wheres == [Host -> Replica]
Shelves == [Replica -> [Snapshot -> Entries]]
Files == [Replica -> [Host -> Seq(Line)]]
Locals == [Host -> SUBSET Revision]
Anchors == [Host -> Seq(Body)]
Locks == [Host -> Proc \cup {Free}]

Typed == /\ where \in Wheres /\ entry \in Shelves /\ chain \in Files
         /\ local \in Locals /\ anchor \in Anchors /\ lock \in Locks
         /\ pc \in [Proc -> PCs] /\ job \in [Proc -> Job]
         /\ calls \in Nat /\ stops \in Nat /\ cuts \in Nat

(* They are the ones TypeOK gives.                                            *)
LEMMA TypedIsTypeOK == TypeOK <=> Typed
BY DEF TypeOK, Typed, Wheres, Shelves, Files, Locals, Anchors, Locks, PCs, Job, Jobs, Entries,
       Todos, Batches, Heads, Dooms, Reads

(* What a running process works on.                                           *)
LEMMA Places ==
    ASSUME Typed, NEW p \in Proc
    PROVE  /\ HostOf[p] \in Host
           /\ Here(p) \in Replica
           /\ Chain(p) \in Seq(Line)
           /\ job[p] \in Job
           /\ job[p].todo \subseteq Revision
           /\ job[p].batch \in Seq(Line)
           /\ job[p].head \in Seq(Body)
           /\ job[p].doomed \subseteq Snapshot
           /\ job[p].rest \subseteq Record
<1>1. HostOf[p] \in Host
    BY ConstantsOK
<1>2. Here(p) \in Replica
    BY <1>1 DEF Typed, Wheres, Here
<1>3. Chain(p) \in Seq(Line)
    <2>1. chain \in Files
        BY DEF Typed
    <2> QED
        BY ONLY <1>1, <1>2, <2>1 DEF Files, Chain
<1>4. job[p] \in Job
    BY DEF Typed
<1> QED
    BY <1>1, <1>2, <1>3, <1>4 DEF Job, Jobs, Todos, Batches, Heads, Dooms, Reads

(* A call that returned does nothing and holds no lock.                       *)
LEMMA ReturnedTypes ==
    ASSUME Typed, NEW p \in Proc, Returned(p)
    PROVE  pc' \in [Proc -> PCs] /\ job' \in [Proc -> Job] /\ lock' \in Locks
<1>1. pc \in [Proc -> PCs] /\ job \in [Proc -> Job] /\ lock \in Locks
    BY DEF Typed
<1>2. pc' \in [Proc -> PCs]
    <2>1. "idle" \in PCs
        BY DEF PCs
    <2> QED
        BY <1>1, <2>1 DEF Returned
<1>3. job' \in [Proc -> Job]
    BY <1>1, IdleType DEF Returned
<1>4. lock' \in Locks
    BY <1>1 DEF Returned, Locks
<1> QED
    BY <1>2, <1>3, <1>4

(* The records a replica's chains hold are records, one for each line.        *)
LEMMA RevisionTypes ==
    ASSUME NEW chains \in [Host -> Seq(Line)]
    PROVE  /\ RevisionsIn(chains) \subseteq Record
           /\ OneRecordALine(RevisionsIn(chains))
<1>1. ASSUME NEW a \in RevisionsIn(chains)
      PROVE  /\ a \in Record
             /\ a.rev = chains[a.src][a.line].body.rev
    <2>1. PICK h \in Host : a \in RevisionsOf(chains, h)
        BY DEF RevisionsIn
    <2>2. PICK i \in DOMAIN chains[h] :
              /\ chains[h][i].body.kind = "revision"
              /\ a = [src |-> h, line |-> i, rev |-> chains[h][i].body.rev]
        BY <2>1 DEF RevisionsOf
    <2>3. chains[h] \in Seq(Line)
        OBVIOUS
    <2>4. i \in Nat /\ chains[h][i] \in Line
        BY <2>3, LenProperties, ElementOfSeq
    <2>5. chains[h][i].body \in Body
        BY <2>4 DEF Line
    <2>6. chains[h][i].body.rev \in Revision
        BY <2>2, <2>5 DEF Body
    <2> QED
        BY <2>2, <2>4, <2>6 DEF Record
<1>2. OneRecordALine(RevisionsIn(chains))
    <2> SUFFICES ASSUME NEW a \in RevisionsIn(chains), NEW b \in RevisionsIn(chains),
                        a.src = b.src, a.line = b.line
                 PROVE  a = b
        BY DEF OneRecordALine
    <2>1. a \in Record /\ b \in Record /\ a.rev = b.rev
        BY <1>1
    <2> QED
        BY <2>1 DEF Record
<1> QED
    BY <1>1, <1>2

(* What a replica's chains hold are lines.                                    *)
LEMMA ChainsType ==
    ASSUME Typed, NEW r \in Replica
    PROVE  Chains(r) \in [Host -> Seq(Line)]
<1>1. ASSUME NEW h \in Host PROVE Records(chain[r][h]) \in Seq(Line)
    <2>1. chain \in Files
        BY DEF Typed
    <2>2. chain[r][h] \in Seq(Line)
        BY ONLY <2>1, r \in Replica, h \in Host DEF Files
    <2> QED
        BY <2>2, RecordsType
<1> QED
    BY <1>1 DEF Chains

(* Push and SharedGC chain their records to a hash.                           *)
LEMMA ChainHeadType ==
    ASSUME NEW c \in Seq(Line)
    PROVE  ChainHead(c) \in Seq(Body)
<1>1. Records(c) \in Seq(Line) /\ Len(Records(c)) \in 0..Len(Records(c))
    BY RecordsType
<1> QED
    BY ONLY <1>1, HeadType DEF ChainHead

=============================================================================
