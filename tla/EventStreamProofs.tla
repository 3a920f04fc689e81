---------------------------- MODULE EventStreamProofs ----------------------------
(***************************************************************************)
(* Theorems about EventStream, for any number of events, of failures and   *)
(* of recorded timestamps.                                                 *)
(***************************************************************************)
EXTENDS EventStream, SequenceTheorems, FiniteSetTheorems, TLAPS

-----------------------------------------------------------------------------
(***************************************************************************)
(* The inductive invariant.  It is about the pieces in the file and in the *)
(* buffer together: a failed write moves the border between the two, and   *)
(* only what it loses changes the whole.                                   *)
(***************************************************************************)
Stream == file \o buffer

Emitting == pc \in {"write", "echo", "tick"}

\* What the clock says to the event that is being emitted.
Now == IF replay THEN idx + 1 ELSE calls

Current ==
  /\ Emitting => /\ calls > 0 /\ event.n = calls /\ event.ns = Now
                 /\ calls \notin returned
                 /\ replay => idx < Recorded
  /\ pc = "main" => calls = 0 /\ idx = 0 /\ buffer = <<>> /\ returned = {} /\ echoed = {}
  /\ \A n \in returned \cup echoed : n <= calls

\* The pieces come in the order of their events and of their places in the line;
\* the stamps never go back.
Sorted(s) ==
  \A i, j \in 1..Len(s) :
    i < j => /\ s[i][1].ns <= s[j][1].ns
             /\ \/ s[i][1].n < s[j][1].n
                \/ s[i][1] = s[j][1] /\ s[i][2] < s[j][2]

\* They are of this run and not later than now; before the write of an event
\* none of its pieces is there.
Bounded(s) ==
  \A i \in 1..Len(s) :
    /\ s[i][1].n \in 1..calls /\ s[i][1].ns <= Now
    /\ pc = "write" => s[i][1].n < calls
    /\ pc \in {"echo", "tick"} /\ s[i][1].n = calls => s[i][1] = event

\* A piece comes right after the one before it in its line, a line after a line.
Linked(s) ==
  \A i \in 1..Len(s) :
    IF s[i][2] = 1 THEN i > 1 => s[i - 1][2] = 3
                   ELSE i > 1 /\ s[i - 1] = <<s[i][1], s[i][2] - 1>>

Whole(s) == Len(s) > 0 => s[Len(s)][2] = 3

\* The line of event n is in s.
Has(s, n) ==
  \E i \in 1..Len(s) - 2 : /\ s[i][1].n = n /\ s[i][2] = 1
                           /\ s[i + 1] = <<s[i][1], 2>>
                           /\ s[i + 2] = <<s[i][1], 3>>

Kept ==
  /\ \A n \in returned \cup echoed : Has(file, n)
  /\ pc \in {"echo", "tick"} => Has(file, calls)

UpTo(S, n) == {k \in S : k <= n}

\* The events that were returned have the recorded stamps, one each.
Stamped ==
  replay =>
    /\ idx = Cardinality(returned)
    /\ \A i \in 1..Len(Stream) : Stream[i][1].n \in returned =>
         Stream[i][1].ns = Cardinality(UpTo(returned, Stream[i][1].n))

SInv ==
  /\ TypeOK /\ Current /\ Kept
  /\ pc # "main" => Sorted(Stream) /\ Bounded(Stream) /\ Stamped
  /\ pc # "main" /\ ~lost => Linked(Stream)
  /\ pc \notin {"main", "ended"} /\ ~lost => Whole(Stream)

-----------------------------------------------------------------------------
(***************************************************************************)
(* Sequences of pieces.                                                    *)
(***************************************************************************)
\* s begins with t.
Starts(t, s) == Len(t) <= Len(s) /\ \A i \in 1..Len(t) : t[i] = s[i]

\* A concatenation begins with its first part.
LEMMA ConcatStarts ==
  ASSUME NEW S, NEW f \in Seq(S), NEW b \in Seq(S)
  PROVE  /\ f \o b \in Seq(S) /\ Len(f \o b) = Len(f) + Len(b)
         /\ \A i \in 1..Len(b) : (f \o b)[Len(f) + i] = b[i]
         /\ Starts(f, f \o b)
<1>1. Len(f) \in Nat /\ Len(b) \in Nat
  OBVIOUS
<1>2. /\ f \o b \in Seq(S) /\ Len(f \o b) = Len(f) + Len(b)
      /\ \A i \in 1..Len(f) + Len(b) :
           (f \o b)[i] = IF i <= Len(f) THEN f[i] ELSE b[i - Len(f)]
  BY ConcatProperties
<1>3. ASSUME NEW i \in 1..Len(b) PROVE (f \o b)[Len(f) + i] = b[i]
  <2>1. PICK j \in Int : j = Len(f) + i
    BY <1>1
  <2>2. j \in 1..Len(f) + Len(b) /\ ~(j <= Len(f)) /\ j - Len(f) = i
    BY <1>1, <2>1
  <2>3. (f \o b)[j] = b[i]
    BY <1>2, <2>2
  <2> QED BY <2>1, <2>3
<1> QED BY <1>1, <1>2, <1>3 DEF Starts

\* A prefix is where a sequence starts.
LEMMA PrefixStarts ==
  ASSUME NEW S, NEW b \in Seq(S), NEW k \in 0..Len(b)
  PROVE  /\ Prefix(b, k) \in Seq(S) /\ Len(Prefix(b, k)) = k
         /\ Starts(Prefix(b, k), b)
<1>1. Len(b) \in Nat /\ k \in Nat /\ k <= Len(b)
  OBVIOUS
<1>2. \A i \in 1..k : b[i] \in S
  BY <1>1
<1>3. /\ SubSeq(b, 1, k) \in Seq(S)
      /\ Len(SubSeq(b, 1, k)) = k
      /\ \A i \in 1..k : SubSeq(b, 1, k)[i] = b[i]
  BY <1>1, <1>2
<1> QED BY <1>1, <1>3 DEF Prefix, Starts

\* Parts of the second sequence after the first.
LEMMA ConcatPrefix ==
  ASSUME NEW S, NEW f \in Seq(S), NEW b \in Seq(S), NEW t \in Seq(S), Starts(t, b)
  PROVE  Starts(f \o t, f \o b)
<1>1. Len(f) \in Nat /\ Len(b) \in Nat /\ Len(t) \in Nat /\ Len(t) <= Len(b)
  BY DEF Starts
<1>2. Len(f \o t) = Len(f) + Len(t) /\ Len(f \o b) = Len(f) + Len(b)
  BY ConcatProperties
<1>3. ASSUME NEW i \in 1..Len(f) + Len(t) PROVE (f \o t)[i] = (f \o b)[i]
  <2>0. i \in 1..Len(f) + Len(b)
    BY <1>1
  <2>1. /\ (f \o t)[i] = IF i <= Len(f) THEN f[i] ELSE t[i - Len(f)]
        /\ (f \o b)[i] = IF i <= Len(f) THEN f[i] ELSE b[i - Len(f)]
    BY <2>0, ConcatProperties
  <2>2. CASE i <= Len(f)
    BY <2>1, <2>2
  <2>3. CASE ~(i <= Len(f))
    <3>1. i - Len(f) \in 1..Len(t)
      BY <1>1, <2>3
    <3>2. t[i - Len(f)] = b[i - Len(f)]
      BY <3>1 DEF Starts
    <3> QED BY <2>1, <2>3, <3>2
  <2> QED BY <2>2, <2>3
<1> QED BY <1>1, <1>2, <1>3 DEF Starts

\* What a write that fails has done and what it has left make up the whole.
LEMMA SplitConcat ==
  ASSUME NEW S, NEW f \in Seq(S), NEW b \in Seq(S), NEW k \in 0..Len(b)
  PROVE  /\ Rest(b, k) \in Seq(S)
         /\ (f \o Prefix(b, k)) \o Rest(b, k) = f \o b
<1>1. Len(b) \in Nat /\ k \in Nat /\ k <= Len(b)
  OBVIOUS
<1>2. Prefix(b, k) \in Seq(S) /\ Len(Prefix(b, k)) = k /\ Starts(Prefix(b, k), b)
  BY PrefixStarts
<1>3. /\ Rest(b, k) \in Seq(S)
      /\ Len(Rest(b, k)) = Len(b) - k
      /\ \A i \in 1..Len(b) - k : Rest(b, k)[i] = b[k + i]
  <2>1. PICK m \in Nat : m = k + 1
    BY <1>1
  <2>2. \A i \in m..Len(b) : b[i] \in S
    BY <1>1, <2>1
  <2>3. /\ SubSeq(b, m, Len(b)) \in Seq(S)
        /\ Len(SubSeq(b, m, Len(b))) = IF m <= Len(b) THEN Len(b) - m + 1 ELSE 0
        /\ \A i \in 1..Len(b) - m + 1 : SubSeq(b, m, Len(b))[i] = b[m + i - 1]
    BY <1>1, <2>2, SubSeqProperties
  <2>4. (IF m <= Len(b) THEN Len(b) - m + 1 ELSE 0) = Len(b) - k
    BY <1>1, <2>1
  <2>5. ASSUME NEW i \in 1..Len(b) - k PROVE SubSeq(b, m, Len(b))[i] = b[k + i]
    <3>1. i \in 1..Len(b) - m + 1 /\ m + i - 1 = k + i
      BY <1>1, <2>1
    <3> QED BY <2>3, <3>1
  <2> QED BY <2>1, <2>3, <2>4, <2>5 DEF Rest
<1>4. Prefix(b, k) \o Rest(b, k) = b
  <2>1. /\ Prefix(b, k) \o Rest(b, k) \in Seq(S)
        /\ Len(Prefix(b, k) \o Rest(b, k)) = Len(b)
    BY <1>1, <1>2, <1>3, ConcatProperties
  <2>2. ASSUME NEW i \in 1..Len(b) PROVE (Prefix(b, k) \o Rest(b, k))[i] = b[i]
    <3>1. (Prefix(b, k) \o Rest(b, k))[i] =
            IF i <= k THEN Prefix(b, k)[i] ELSE Rest(b, k)[i - k]
      BY <1>1, <1>2, <1>3, ConcatProperties
    <3>2. CASE i <= k
      BY <1>1, <1>2, <3>1, <3>2 DEF Starts
    <3>3. CASE ~(i <= k)
      <4>1. i - k \in 1..Len(b) - k /\ k + (i - k) = i
        BY <1>1, <3>3
      <4> QED BY <1>3, <3>1, <3>3, <4>1
    <3> QED BY <3>2, <3>3
  <2> QED BY <2>1, <2>2, SeqEqual
<1>5. (f \o Prefix(b, k)) \o Rest(b, k) = f \o (Prefix(b, k) \o Rest(b, k))
  BY <1>2, <1>3, ConcatAssociative
<1> QED BY <1>3, <1>4, <1>5

\* A line has three pieces.
LEMMA LinePieces ==
  ASSUME NEW e \in Events
  PROVE  /\ Line(e) \in Seq(Pieces) /\ Len(Line(e)) = 3
         /\ Line(e)[1] = <<e, 1>> /\ Line(e)[2] = <<e, 2>> /\ Line(e)[3] = <<e, 3>>
<1>1. <<e, 1>> \in Pieces /\ <<e, 2>> \in Pieces /\ <<e, 3>> \in Pieces
  BY DEF Pieces
<1> QED BY <1>1 DEF Line

\* A line after a sequence of pieces.
LEMMA LineAdded ==
  ASSUME NEW s \in Seq(Pieces), NEW e \in Events
  PROVE  /\ s \o Line(e) \in Seq(Pieces) /\ Len(s \o Line(e)) = Len(s) + 3
         /\ \A i \in 1..Len(s) : (s \o Line(e))[i] = s[i]
         /\ (s \o Line(e))[Len(s) + 1] = <<e, 1>>
         /\ (s \o Line(e))[Len(s) + 2] = <<e, 2>>
         /\ (s \o Line(e))[Len(s) + 3] = <<e, 3>>
<1> DEFINE l == Line(e)
<1>1. l \in Seq(Pieces) /\ Len(l) = 3 /\ l[1] = <<e, 1>> /\ l[2] = <<e, 2>> /\ l[3] = <<e, 3>>
  BY LinePieces
<1> HIDE DEF l
<1>2. /\ s \o l \in Seq(Pieces) /\ Len(s \o l) = Len(s) + Len(l)
      /\ \A i \in 1..Len(l) : (s \o l)[Len(s) + i] = l[i]
      /\ Starts(s, s \o l)
  BY <1>1, ConcatStarts
<1>3. \A i \in 1..Len(s) : (s \o l)[i] = s[i]
  BY <1>2 DEF Starts
<1>4. 1 \in 1..Len(l) /\ 2 \in 1..Len(l) /\ 3 \in 1..Len(l)
  BY <1>1
<1>5. /\ (s \o l)[Len(s) + 1] = <<e, 1>>
      /\ (s \o l)[Len(s) + 2] = <<e, 2>>
      /\ (s \o l)[Len(s) + 3] = <<e, 3>>
  BY <1>1, <1>2, <1>4
<1> QED BY <1>1, <1>2, <1>3, <1>5 DEF l

\* Each piece after that is an old one or one of the line.
LEMMA LineIndex ==
  ASSUME NEW s \in Seq(Pieces), NEW e \in Events, NEW j \in 1..Len(s) + 3
  PROVE  \/ j \in 1..Len(s) /\ (s \o Line(e))[j] = s[j]
         \/ \E k \in 1..3 : j = Len(s) + k /\ (s \o Line(e))[j] = <<e, k>>
<1>1. j \in 1..Len(s) \/ j = Len(s) + 1 \/ j = Len(s) + 2 \/ j = Len(s) + 3
  OBVIOUS
<1>2. 1 \in 1..3 /\ 2 \in 1..3 /\ 3 \in 1..3
  OBVIOUS
<1>3. CASE j \in 1..Len(s)
  BY <1>3, LineAdded
<1>4. CASE j = Len(s) + 1
  BY <1>2, <1>4, LineAdded
<1>5. CASE j = Len(s) + 2
  BY <1>2, <1>5, LineAdded
<1>6. CASE j = Len(s) + 3
  BY <1>2, <1>6, LineAdded
<1> QED BY <1>1, <1>3, <1>4, <1>5, <1>6

\* A piece has an event, with a number and a stamp, and a place.
LEMMA PieceTyped ==
  ASSUME NEW s \in Seq(Pieces), NEW i \in 1..Len(s)
  PROVE  s[i] \in Pieces /\ s[i][1].n \in Int /\ s[i][1].ns \in Int /\ s[i][2] \in 1..3
<1>1. s[i] \in Pieces
  OBVIOUS
<1> QED BY <1>1, StreamAssumption DEF Pieces, Events

-----------------------------------------------------------------------------
\* The parts of the invariant for the beginning of a sequence.
LEMMA StartsKeeps ==
  ASSUME NEW s, NEW t, Starts(t, s), Len(s) \in Nat, Len(t) \in Nat
  PROVE  /\ Sorted(s) => Sorted(t)
         /\ Linked(s) => Linked(t)
         /\ Bounded(s) => Bounded(t)
         /\ \A n : Has(t, n) => Has(s, n)
<1>1. \A i \in 1..Len(t) : i \in 1..Len(s) /\ t[i] = s[i]
  BY DEF Starts
<1>2. Sorted(s) => Sorted(t)
  BY <1>1 DEF Sorted
<1>3. Linked(s) => Linked(t)
  <2> SUFFICES ASSUME Linked(s), NEW i \in 1..Len(t)
               PROVE  IF t[i][2] = 1 THEN i > 1 => t[i - 1][2] = 3
                      ELSE i > 1 /\ t[i - 1] = <<t[i][1], t[i][2] - 1>>
    BY DEF Linked
  <2>1. t[i] = s[i] /\ i \in 1..Len(s)
    BY <1>1
  <2>2. i > 1 => t[i - 1] = s[i - 1]
    <3>1. i > 1 => i - 1 \in 1..Len(t)
      OBVIOUS
    <3> QED BY <1>1, <3>1
  <2> QED BY <2>1, <2>2 DEF Linked
<1>4. Bounded(s) => Bounded(t)
  BY <1>1 DEF Bounded
<1>5. ASSUME NEW n, Has(t, n) PROVE Has(s, n)
  <2>1. PICK i \in 1..Len(t) - 2 : /\ t[i][1].n = n /\ t[i][2] = 1
                                   /\ t[i + 1] = <<t[i][1], 2>>
                                   /\ t[i + 2] = <<t[i][1], 3>>
    BY <1>5 DEF Has
  <2>2. i \in 1..Len(t) /\ i + 1 \in 1..Len(t) /\ i + 2 \in 1..Len(t)
    OBVIOUS
  <2>3. i \in 1..Len(s) - 2
    BY DEF Starts
  <2>4. t[i] = s[i] /\ t[i + 1] = s[i + 1] /\ t[i + 2] = s[i + 2]
    BY <1>1, <2>2
  <2> QED BY <2>1, <2>3, <2>4 DEF Has
<1> QED BY <1>2, <1>3, <1>4, <1>5

\* A line of a later event keeps the order.
LEMMA SortedLine ==
  ASSUME NEW s \in Seq(Pieces), NEW e \in Events, Sorted(s),
         \A i \in 1..Len(s) : s[i][1].n < e.n /\ s[i][1].ns <= e.ns
  PROVE  Sorted(s \o Line(e))
<1> DEFINE t == s \o Line(e)
<1>0. Len(t) = Len(s) + 3 /\ e.ns \in Nat
  BY LineAdded DEF Events
<1>1. \A j \in 1..Len(s) + 3 :
        \/ j \in 1..Len(s) /\ t[j] = s[j]
        \/ \E k \in 1..3 : j = Len(s) + k /\ t[j] = <<e, k>>
  BY LineIndex
<1> HIDE DEF t
<1> SUFFICES ASSUME NEW i \in 1..Len(s) + 3, NEW j \in 1..Len(s) + 3, i < j
             PROVE  /\ t[i][1].ns <= t[j][1].ns
                    /\ \/ t[i][1].n < t[j][1].n
                       \/ t[i][1] = t[j][1] /\ t[i][2] < t[j][2]
  BY <1>0 DEF Sorted, t
<1>2. CASE j \in 1..Len(s) /\ t[j] = s[j]
  <2>1. i \in 1..Len(s) /\ t[i] = s[i]
    BY <1>1, <1>2
  <2> QED BY <1>2, <2>1 DEF Sorted
<1>3. ASSUME NEW k \in 1..3, j = Len(s) + k, t[j] = <<e, k>>
      PROVE  /\ t[i][1].ns <= t[j][1].ns
             /\ \/ t[i][1].n < t[j][1].n
                \/ t[i][1] = t[j][1] /\ t[i][2] < t[j][2]
  <2>1. CASE i \in 1..Len(s) /\ t[i] = s[i]
    BY <1>3, <2>1
  <2>2. ASSUME NEW m \in 1..3, i = Len(s) + m, t[i] = <<e, m>>
        PROVE  /\ t[i][1].ns <= t[j][1].ns
               /\ t[i][1] = t[j][1] /\ t[i][2] < t[j][2]
    <3>1. m < k
      BY <1>3, <2>2
    <3>2. t[i][1] = e /\ t[j][1] = e /\ t[i][2] = m /\ t[j][2] = k
      BY <1>3, <2>2
    <3> QED BY <1>0, <3>1, <3>2
  <2> QED BY <1>1, <2>1, <2>2
<1> QED BY <1>1, <1>2, <1>3

\* A line after whole lines.
LEMMA LinkedLine ==
  ASSUME NEW s \in Seq(Pieces), NEW e \in Events, Linked(s), Whole(s)
  PROVE  Linked(s \o Line(e)) /\ Whole(s \o Line(e))
<1> DEFINE t == s \o Line(e)
<1>0. /\ Len(t) = Len(s) + 3 /\ Len(s) \in Nat
      /\ \A i \in 1..Len(s) : t[i] = s[i]
      /\ t[Len(s) + 1] = <<e, 1>> /\ t[Len(s) + 2] = <<e, 2>> /\ t[Len(s) + 3] = <<e, 3>>
  BY LineAdded
<1> HIDE DEF t
<1>1. ASSUME NEW i \in 1..Len(s) + 3
      PROVE  IF t[i][2] = 1 THEN i > 1 => t[i - 1][2] = 3
             ELSE i > 1 /\ t[i - 1] = <<t[i][1], t[i][2] - 1>>
  <2>1. CASE i \in 1..Len(s)
    <3>1. t[i] = s[i]
      BY <1>0, <2>1
    <3>2. i > 1 => t[i - 1] = s[i - 1]
      <4>1. i > 1 => i - 1 \in 1..Len(s)
        BY <2>1
      <4> QED BY <1>0, <4>1
    <3> QED BY <2>1, <3>1, <3>2 DEF Linked
  <2>2. CASE i = Len(s) + 1
    <3>1. t[i] = <<e, 1>>
      BY <1>0, <2>2
    <3>2. i > 1 => t[i - 1][2] = 3
      <4>1. i > 1 => /\ i - 1 \in 1..Len(s) /\ Len(s) > 0
                     /\ i - 1 = Len(s)
        BY <1>0, <2>2
      <4> QED BY <1>0, <4>1 DEF Whole
    <3> QED BY <3>1, <3>2
  <2>3. CASE i = Len(s) + 2
    <3>1. i > 1 /\ i - 1 = Len(s) + 1
      BY <1>0, <2>3
    <3>2. t[i] = <<e, 2>> /\ t[i - 1] = <<e, 1>>
      BY <1>0, <2>3, <3>1
    <3> QED BY <3>1, <3>2
  <2>4. CASE i = Len(s) + 3
    <3>1. i > 1 /\ i - 1 = Len(s) + 2
      BY <1>0, <2>4
    <3>2. t[i] = <<e, 3>> /\ t[i - 1] = <<e, 2>>
      BY <1>0, <2>4, <3>1
    <3> QED BY <3>1, <3>2
  <2>5. i \in 1..Len(s) \/ i = Len(s) + 1 \/ i = Len(s) + 2 \/ i = Len(s) + 3
    BY <1>0
  <2> QED BY <2>1, <2>2, <2>3, <2>4, <2>5, Zenon
<1>2. Linked(t)
  BY <1>0, <1>1 DEF Linked
<1>3. Whole(t)
  BY <1>0 DEF Whole
<1> QED BY <1>2, <1>3 DEF t

\* The line is there.
LEMMA HasLine ==
  ASSUME NEW s \in Seq(Pieces), NEW e \in Events
  PROVE  Has(s \o Line(e), e.n)
<1> DEFINE t == s \o Line(e)
<1>1. /\ Len(t) = Len(s) + 3 /\ Len(s) \in Nat
      /\ t[Len(s) + 1] = <<e, 1>> /\ t[Len(s) + 2] = <<e, 2>> /\ t[Len(s) + 3] = <<e, 3>>
  BY LineAdded
<1> HIDE DEF t
<1>2. PICK i \in Nat : i = Len(s) + 1
  BY <1>1
<1>3. i \in 1..Len(t) - 2 /\ i + 1 = Len(s) + 2 /\ i + 2 = Len(s) + 3
  BY <1>1, <1>2
<1>4. t[i] = <<e, 1>> /\ t[i + 1] = <<e, 2>> /\ t[i + 2] = <<e, 3>>
  BY <1>1, <1>2, <1>3
<1>5. t[i][1] = e /\ t[i][2] = 1
  BY <1>4
<1> QED BY <1>3, <1>4, <1>5 DEF Has, t

-----------------------------------------------------------------------------
(***************************************************************************)
(* What a step does to the pieces.                                         *)
(***************************************************************************)
LEMMA StartsTransitive ==
  ASSUME NEW s, NEW t, NEW u, Len(s) \in Nat, Len(t) \in Nat, Len(u) \in Nat,
         Starts(s, t), Starts(t, u)
  PROVE  Starts(s, u)
  BY DEF Starts

\* The pieces before and after the write of a line.
LEMMA Lined ==
  ASSUME SInv
  PROVE  /\ file \in Seq(Pieces) /\ buffer \in Seq(Pieces) /\ event \in Events
         /\ Line(event) \in Seq(Pieces) /\ Len(Line(event)) = 3
         /\ Stream \in Seq(Pieces) /\ Starts(file, Stream)
         /\ Stream \o Line(event) \in Seq(Pieces)
         /\ Starts(Stream, Stream \o Line(event))
         /\ Stream \o Line(event) = file \o (buffer \o Line(event))
         /\ buffer \o Line(event) \in Seq(Pieces)
         /\ Len(buffer \o Line(event)) = Len(buffer) + 3
<1>1. file \in Seq(Pieces) /\ buffer \in Seq(Pieces) /\ event \in Events
  BY DEF SInv, TypeOK
<1>2. Line(event) \in Seq(Pieces) /\ Len(Line(event)) = 3
  BY <1>1, LinePieces
<1>3. Stream \in Seq(Pieces) /\ Starts(file, Stream)
  BY <1>1, ConcatStarts DEF Stream
<1>4. /\ Stream \o Line(event) \in Seq(Pieces)
      /\ Starts(Stream, Stream \o Line(event))
  BY <1>2, <1>3, ConcatStarts
<1>5. /\ buffer \o Line(event) \in Seq(Pieces)
      /\ Len(buffer \o Line(event)) = Len(buffer) + 3
  BY <1>1, LineAdded
<1>6. Stream \o Line(event) = file \o (buffer \o Line(event))
  BY <1>1, <1>2, ConcatAssociative DEF Stream
<1> QED BY <1>1, <1>2, <1>3, <1>4, <1>5, <1>6

\* The file only grows, and the whole is left alone, gets the line of the event
\* or the beginning of it, or is cut off when the process ends.
Moves ==
  /\ file' \in Seq(Pieces) /\ buffer' \in Seq(Pieces)
  /\ Starts(file, file')
  /\ \/ Stream' = Stream
     \/ pc = "write" /\ Stream' = Stream \o Line(event)
     \/ /\ pc = "write" /\ (lost' \/ pc' = "ended")
        /\ Starts(Stream', Stream \o Line(event))
     \/ pc' = "ended" /\ Starts(Stream', Stream)

LEMMA StreamMoves ==
  ASSUME SInv, Next, pc # "main"
  PROVE  Moves
<1> DEFINE l == Line(event)
           b == buffer \o l
<1>0. /\ file \in Seq(Pieces) /\ buffer \in Seq(Pieces)
      /\ l \in Seq(Pieces) /\ Len(l) = 3
      /\ Stream \in Seq(Pieces) /\ Starts(file, Stream)
      /\ Stream \o l \in Seq(Pieces) /\ Starts(Stream, Stream \o l)
      /\ Stream \o l = file \o b
      /\ b \in Seq(Pieces) /\ Len(b) = Len(buffer) + 3
  BY Lined
<1>1. Len(file) \in Nat /\ Len(buffer) \in Nat /\ Len(Stream) \in Nat /\ Len(Stream \o l) \in Nat
  BY <1>0
<1>2. <<>> \in Seq(Pieces)
  OBVIOUS
<1> HIDE DEF l, b
<1>3. ASSUME NEW k \in Nat, NEW s \in Seq(Pieces), k <= Len(s),
             file' = file \o Prefix(s, k), buffer' = <<>>
      PROVE  /\ file' \in Seq(Pieces) /\ buffer' \in Seq(Pieces) /\ Starts(file, file')
             /\ Stream' = file' /\ Starts(Stream', file \o s)
  <2>1. k \in 0..Len(s)
    BY <1>3
  <2>2. Prefix(s, k) \in Seq(Pieces) /\ Starts(Prefix(s, k), s)
    BY <2>1, PrefixStarts
  <2>3. file' \in Seq(Pieces) /\ Starts(file, file')
    BY <1>0, <1>3, <2>2, ConcatStarts
  <2>4. Stream' = file'
    BY <1>3, <2>3, ConcatEmptySeq DEF Stream
  <2>5. Starts(file', file \o s)
    BY <1>0, <1>3, <2>2, ConcatPrefix
  <2> QED BY <1>2, <1>3, <2>3, <2>4, <2>5
<1>4. ASSUME NEW k \in Nat, NEW s \in Seq(Pieces), k <= Len(s),
             file' = file \o Prefix(s, k), buffer' = Rest(s, k)
      PROVE  /\ file' \in Seq(Pieces) /\ buffer' \in Seq(Pieces) /\ Starts(file, file')
             /\ Stream' = file \o s
  <2>1. k \in 0..Len(s)
    BY <1>4
  <2>2. Prefix(s, k) \in Seq(Pieces)
    BY <2>1, PrefixStarts
  <2>3. file' \in Seq(Pieces) /\ Starts(file, file')
    BY <1>0, <1>4, <2>2, ConcatStarts
  <2>4. Rest(s, k) \in Seq(Pieces) /\ (file \o Prefix(s, k)) \o Rest(s, k) = file \o s
    BY <1>0, <2>1, SplitConcat
  <2> QED BY <1>4, <2>3, <2>4 DEF Stream
<1>5. CASE \/ BeginEmit \/ ClockExhausted \/ InvalidEvent \/ Echo \/ EchoFails \/ TickAndReturn
  <2>1. file' = file /\ buffer' = buffer
    BY <1>5, Zenon DEF BeginEmit, ClockExhausted, InvalidEvent, Echo, EchoFails, TickAndReturn
  <2>2. Starts(file, file)
    BY <1>1 DEF Starts
  <2> QED BY <1>0, <2>1, <2>2 DEF Moves, Stream
<1>6. CASE WriteLine
  <2>1. pc = "write" /\ file' = Stream \o l /\ buffer' = <<>>
    BY <1>6 DEF WriteLine, Stream, l
  <2>2. Stream' = Stream \o l
    BY <1>0, <2>1, ConcatEmptySeq DEF Stream
  <2>3. Starts(file, file')
    BY <1>0, <1>1, <2>1, StartsTransitive
  <2> QED BY <1>0, <1>2, <2>1, <2>2, <2>3 DEF Moves, l
<1>7. CASE ShortLineFails
  <2>1. PICK k \in 0..Len(buffer) + 2 :
          file' = file \o Prefix(b, k) /\ buffer' = Rest(b, k) /\ pc = "write"
    BY <1>7 DEF ShortLineFails, b, l
  <2>2. k \in Nat /\ k <= Len(b)
    BY <1>0, <1>1
  <2> QED BY <1>0, <1>4, <2>1, <2>2 DEF Moves, l
<1>8. CASE LongLineFails
  <2>1. pc = "write" /\ lost' = TRUE
    BY <1>8 DEF LongLineFails
  <2>2. ASSUME NEW k \in 0..Len(buffer) - 1, file' = file \o Prefix(buffer, k),
               buffer' = Rest(buffer, k)
        PROVE  Moves
    <3>1. k \in Nat /\ k <= Len(buffer)
      BY <1>1
    <3> QED BY <1>0, <1>4, <2>2, <3>1 DEF Moves, Stream
  <2>3. ASSUME NEW k \in 0..1, file' = Stream \o Prefix(l, k), buffer' = <<>>
        PROVE  Moves
    <3>1. k \in 0..Len(l)
      BY <1>0
    <3>2. Prefix(l, k) \in Seq(Pieces) /\ Starts(Prefix(l, k), l)
      BY <1>0, <3>1, PrefixStarts
    <3>3. file' \in Seq(Pieces) /\ Starts(Stream, file') /\ Starts(file', Stream \o l)
      BY <1>0, <2>3, <3>2, ConcatStarts, ConcatPrefix
    <3>4. Stream' = file'
      BY <2>3, <3>3, ConcatEmptySeq DEF Stream
    <3>5. Starts(file, file')
      <4>1. Len(file') \in Nat
        BY <3>3
      <4> QED BY <1>0, <1>1, <3>3, <4>1, StartsTransitive
    <3> QED BY <1>2, <2>1, <2>3, <3>3, <3>4, <3>5 DEF Moves, l
  <2> QED BY <1>8, <2>2, <2>3 DEF LongLineFails, Stream, l
<1>9. CASE Close
  <2>1. PICK k \in 0..Len(buffer) : file' = file \o Prefix(buffer, k) /\ buffer' = <<>>
    BY <1>9 DEF Close
  <2>2. pc' = "ended" /\ k \in Nat /\ k <= Len(buffer)
    BY <1>1, <1>9 DEF Close
  <2> QED BY <1>0, <1>3, <2>1, <2>2 DEF Moves, Stream
<1>10. CASE Kill
  <2>1. PICK k \in 0..(IF pc = "write" THEN Len(buffer) + 2 ELSE 0) :
          file' = file \o Prefix(b, k) /\ buffer' = <<>> /\ pc' = "ended"
    BY <1>10 DEF Kill, b, l
  <2>2. k \in Nat /\ k <= Len(b)
    BY <1>0, <1>1
  <2>3. CASE pc = "write"
    BY <1>0, <1>3, <2>1, <2>2, <2>3 DEF Moves, l
  <2>4. CASE pc # "write"
    <3>1. k = 0
      BY <2>1, <2>4
    <3>2. Prefix(b, k) = Prefix(buffer, k)
      BY <3>1, SubSeqEmpty DEF Prefix
    <3>3. k <= Len(buffer)
      BY <1>1, <3>1
    <3>4. Starts(Stream', Stream) /\ Starts(file, file') /\ file' \in Seq(Pieces)
          /\ buffer' \in Seq(Pieces)
      BY <1>0, <1>3, <2>1, <2>2, <3>2, <3>3 DEF Stream
    <3> QED BY <2>1, <3>4 DEF Moves
  <2> QED BY <2>3, <2>4
<1>11. CASE OpenWriter
  BY <1>11 DEF OpenWriter
<1> QED BY <1>5, <1>6, <1>7, <1>8, <1>9, <1>10, <1>11, Zenon DEF Next

-----------------------------------------------------------------------------
(***************************************************************************)
(* The clock and the counters.                                             *)
(***************************************************************************)
\* The values of the counters.
LEMMA Counters ==
  ASSUME SInv
  PROVE  /\ calls \in Nat /\ idx \in Nat /\ Now \in Nat /\ raises \in Nat
         /\ returned \subseteq 1..MaxEvents /\ echoed \subseteq 1..MaxEvents
         /\ event.n \in Nat /\ event.ns \in Nat
<1>1. /\ calls \in Nat /\ idx \in Nat /\ raises \in Nat
      /\ returned \subseteq 1..MaxEvents /\ echoed \subseteq 1..MaxEvents /\ event \in Events
  BY StreamAssumption DEF SInv, TypeOK
<1> QED BY <1>1, StreamAssumption DEF Now, Events

\* What a step does to the control, the clock and the counters.
Ticks ==
  \/ /\ pc = "ready" /\ pc' = "write" /\ calls < MaxEvents /\ calls' = calls + 1
     /\ (replay => idx < Recorded) /\ event' = [n |-> calls + 1, ns |-> Stamp]
     /\ UNCHANGED <<replay, idx, returned, echoed, lost>>
  \/ /\ pc = "ready" /\ pc' = "ready" /\ calls < MaxEvents /\ calls' = calls + 1
     /\ UNCHANGED <<replay, idx, event, returned, echoed, lost>>
  \/ /\ pc = "write" /\ pc' = "echo" /\ file' = Stream \o Line(event)
     /\ UNCHANGED <<replay, idx, event, calls, returned, echoed, lost>>
  \/ /\ pc = "echo" /\ pc' = "tick" /\ echoed' \in {echoed, echoed \cup {event.n}}
     /\ UNCHANGED <<replay, idx, event, calls, returned, lost>>
  \/ /\ pc = "tick" /\ pc' = "ready" /\ returned' = returned \cup {event.n} /\ Advance
     /\ UNCHANGED <<replay, event, calls, echoed, lost>>
  \/ /\ pc' = "ended" \/ (pc' = "ready" /\ pc \in {"write", "echo"})
     /\ UNCHANGED <<replay, idx, event, calls, returned, echoed>>
     /\ lost' = lost \/ lost' = TRUE

LEMMA StepTicks ==
  ASSUME Next, pc # "main"
  PROVE  Ticks
<1>1. CASE BeginEmit
  BY <1>1 DEF BeginEmit, CanStamp, Ticks
<1>2. CASE ClockExhausted
  BY <1>2 DEF ClockExhausted, Ticks
<1>3. CASE WriteLine
  BY <1>3 DEF WriteLine, Ticks, Stream
<1>4. CASE Echo
  BY <1>4 DEF Echo, Ticks
<1>5. CASE TickAndReturn
  BY <1>5, Zenon DEF TickAndReturn, Ticks
<1>6. CASE InvalidEvent \/ ShortLineFails \/ LongLineFails \/ EchoFails \/ Close \/ Kill
  BY <1>6, Zenon
  DEF InvalidEvent, ShortLineFails, LongLineFails, EchoFails, Close, Kill, Ticks
<1>7. CASE OpenWriter
  BY <1>7 DEF OpenWriter
<1> QED BY <1>1, <1>2, <1>3, <1>4, <1>5, <1>6, <1>7, Zenon DEF Next

\* The calls and the clock only go on, and the calls do when an emit begins.
LEMMA ClockGoesOn ==
  ASSUME SInv, Ticks
  PROVE  /\ calls' \in Nat /\ calls <= calls' /\ Now' \in Nat /\ Now <= Now'
         /\ pc' = "write" => calls' = calls + 1
         /\ pc' \in {"echo", "tick"} => /\ calls' = calls /\ event' = event
                                        /\ pc \in {"write", "echo"}
         /\ pc = "write" => event.n = calls' /\ event.ns <= Now'
<1>1. calls \in Nat /\ idx \in Nat /\ event.ns \in Nat
  BY Counters
<1>2. pc = "write" => event.n = calls /\ event.ns = Now
  BY DEF SInv, Current, Emitting
<1> QED BY <1>1, <1>2 DEF Ticks, Now, Advance

\* The types of all but the pieces and the failures.
LEMMA TicksTyped ==
  ASSUME SInv, Ticks
  PROVE  /\ pc' \in {"ready", "write", "echo", "tick", "ended"}
         /\ idx' \in 0..Recorded /\ event' \in Events /\ calls' \in 0..MaxEvents
         /\ echoed' \subseteq 1..MaxEvents /\ returned' \subseteq 1..MaxEvents
<1>1. pc' \in {"ready", "write", "echo", "tick", "ended"}
  BY DEF Ticks
<1>2. calls' \in 0..MaxEvents
  BY StreamAssumption DEF SInv, TypeOK, Ticks
<1>3. idx' \in 0..Recorded
  <2>1. idx \in 0..Recorded /\ (pc = "tick" => (replay => idx < Recorded))
    BY DEF SInv, TypeOK, Current, Emitting
  <2> QED BY <2>1, StreamAssumption DEF Ticks, Advance
<1>4. event' \in Events
  <2>1. CASE event' = event
    BY <2>1 DEF SInv, TypeOK
  <2>2. CASE calls < MaxEvents /\ event' = [n |-> calls + 1, ns |-> Stamp]
    <3>1. calls + 1 \in 0..MaxEvents /\ Stamp \in Nat
      BY <2>2, Counters, StreamAssumption DEF Stamp
    <3> QED BY <2>2, <3>1 DEF Events
  <2> QED BY <2>1, <2>2 DEF Ticks
<1>5. echoed' \subseteq 1..MaxEvents /\ returned' \subseteq 1..MaxEvents
  <2>1. echoed \subseteq 1..MaxEvents /\ returned \subseteq 1..MaxEvents
    BY DEF SInv, TypeOK
  <2>2. pc \in {"echo", "tick"} => event.n \in 1..MaxEvents
    <3> SUFFICES ASSUME pc \in {"echo", "tick"} PROVE event.n \in 1..MaxEvents
      OBVIOUS
    <3>1. event.n = calls /\ calls > 0
      BY DEF SInv, Current, Emitting
    <3> QED BY <3>1, StreamAssumption DEF SInv, TypeOK
  <2>3. echoed' \in {echoed, echoed \cup {event.n}} /\ (echoed' # echoed => pc = "echo")
    BY DEF Ticks
  <2>4. /\ returned' = returned \/ returned' = returned \cup {event.n}
        /\ returned' # returned => pc = "tick"
    BY DEF Ticks
  <2>5. echoed' \subseteq 1..MaxEvents
    BY <2>1, <2>2, <2>3
  <2>6. returned' \subseteq 1..MaxEvents
    BY <2>1, <2>2, <2>4
  <2> QED BY <2>5, <2>6
<1> QED BY <1>1, <1>2, <1>3, <1>4, <1>5

LEMMA NextStreamTyped ==
  ASSUME SInv, Next, pc # "main"
  PROVE  TypeOK'
<1>1. Moves /\ Ticks
  BY StreamMoves, StepTicks
<1>2. file' \in Seq(Pieces) /\ buffer' \in Seq(Pieces)
  BY <1>1 DEF Moves
<1>3. replay' \in BOOLEAN /\ lost' \in BOOLEAN
  <2>1. replay \in BOOLEAN /\ lost \in BOOLEAN
    BY Zenon DEF SInv, TypeOK
  <2>2. replay' = replay /\ (lost' = lost \/ lost' = TRUE)
    BY <1>1, Zenon DEF Ticks
  <2> QED BY <2>1, <2>2, Zenon
<1>4. raises' \in 0..MaxRaises
  <2>1. raises' = raises \/ (raises < MaxRaises /\ raises' = raises + 1)
    BY Zenon DEF Next, OpenWriter, BeginEmit, ClockExhausted, InvalidEvent, WriteLine,
       ShortLineFails, LongLineFails, Echo, EchoFails, TickAndReturn, Close, Kill, Raise
  <2> QED BY <2>1, StreamAssumption DEF SInv, TypeOK
<1> QED BY <1>1, <1>2, <1>3, <1>4, TicksTyped DEF TypeOK

\* The event that is being emitted is the last one, stamped with the time of now.
LEMMA NextCurrent ==
  ASSUME SInv, Ticks
  PROVE  Current'
<1>0. /\ calls \in Nat /\ idx \in Nat /\ returned \subseteq 1..MaxEvents
      /\ echoed \subseteq 1..MaxEvents
  BY Counters
<1>1. pc' # "main"
  BY DEF Ticks
<1>2. \A n \in returned \cup echoed : n <= calls
  BY DEF SInv, Current
<1>3. Emitting => /\ calls > 0 /\ event.n = calls /\ event.ns = Now /\ calls \notin returned
                  /\ (replay => idx < Recorded)
  BY DEF SInv, Current
<1>4. \A n \in returned' \cup echoed' : n <= calls'
  <2> SUFFICES ASSUME NEW n \in returned' \cup echoed' PROVE n <= calls'
    OBVIOUS
  <2>1. n \in returned \cup echoed \/ (Emitting /\ n = event.n)
    BY DEF Ticks, Emitting
  <2>2. calls <= calls' /\ calls' \in Nat
    BY ClockGoesOn
  <2>3. CASE n \in returned \cup echoed
    <3>1. n \in Int /\ n <= calls
      BY <1>0, <1>2, <2>3
    <3> QED BY <1>0, <2>2, <3>1
  <2>4. CASE Emitting /\ n = event.n
    BY <1>0, <1>3, <2>2, <2>4
  <2> QED BY <2>1, <2>3, <2>4
<1>5. ASSUME Emitting'
      PROVE  /\ calls' > 0 /\ event'.n = calls' /\ event'.ns = Now'
             /\ calls' \notin returned'
             /\ (replay' => idx' < Recorded)
  <2>1. CASE pc = "ready" /\ pc' = "write"
    <3>1. /\ calls' = calls + 1 /\ (replay => idx < Recorded)
          /\ event' = [n |-> calls + 1, ns |-> Stamp]
          /\ replay' = replay /\ idx' = idx /\ returned' = returned
      BY <2>1 DEF Ticks
    <3>2. Now' = Stamp
      BY <3>1 DEF Now, Stamp
    <3>3. calls + 1 \notin returned
      BY <1>0, <1>2
    <3>4. calls' > 0
      BY <1>0, <3>1
    <3> QED BY <3>1, <3>2, <3>3, <3>4
  <2>2. CASE pc \in {"write", "echo"}
    <3>1. UNCHANGED <<replay, idx, event, calls, returned>>
      BY <1>5, <2>2 DEF Ticks, Emitting
    <3>2. Now' = Now
      BY <3>1 DEF Now
    <3>3. Emitting
      BY <2>2 DEF Emitting
    <3> QED BY <1>3, <3>1, <3>2, <3>3
  <2> QED BY <1>5, <2>1, <2>2 DEF Ticks, Emitting
<1> QED BY <1>1, <1>4, <1>5 DEF Current

-----------------------------------------------------------------------------
(***************************************************************************)
(* The pieces.                                                             *)
(***************************************************************************)
\* Where a piece comes from: it was there before, or it is one of the event that
\* is being written.
LEMMA Origin ==
  ASSUME SInv, Moves, NEW i \in 1..Len(Stream')
  PROVE  \/ i \in 1..Len(Stream) /\ Stream'[i] = Stream[i]
         \/ pc = "write" /\ Stream'[i][1] = event
<1>0. Stream \in Seq(Pieces) /\ event \in Events /\ Len(Stream) \in Nat
  BY Lined
<1>1. Len(Stream') \in Nat
  BY ConcatStarts DEF Moves, Stream
<1>2. CASE Stream' = Stream \/ Starts(Stream', Stream)
  BY <1>0, <1>1, <1>2 DEF Starts
<1>3. CASE pc = "write" /\ (Stream' = Stream \o Line(event) \/ Starts(Stream', Stream \o Line(event)))
  <2>1. Len(Stream \o Line(event)) = Len(Stream) + 3
    BY <1>0, LineAdded
  <2>2. i \in 1..Len(Stream) + 3 /\ Stream'[i] = (Stream \o Line(event))[i]
    BY <1>0, <1>1, <1>3, <2>1 DEF Starts
  <2>3. CASE i \in 1..Len(Stream) /\ (Stream \o Line(event))[i] = Stream[i]
    BY <2>2, <2>3
  <2>4. ASSUME NEW k \in 1..3, (Stream \o Line(event))[i] = <<event, k>>
        PROVE  Stream'[i][1] = event
    BY <2>2, <2>4
  <2> QED BY <1>0, <1>3, <2>2, <2>3, <2>4, LineIndex
<1> QED BY <1>2, <1>3 DEF Moves

LEMMA NextBounded ==
  ASSUME SInv, Moves, Ticks, pc # "main"
  PROVE  Bounded(Stream)'
<1>0. Bounded(Stream) /\ Stream \in Seq(Pieces)
  BY Lined DEF SInv
<1>1. calls \in Nat /\ Now \in Nat
  BY Counters
<1> SUFFICES ASSUME NEW i \in 1..Len(Stream')
             PROVE  /\ Stream'[i][1].n \in 1..calls' /\ Stream'[i][1].ns <= Now'
                    /\ pc' = "write" => Stream'[i][1].n < calls'
                    /\ pc' \in {"echo", "tick"} /\ Stream'[i][1].n = calls' =>
                         Stream'[i][1] = event'
  BY DEF Bounded
<1>2. CASE i \in 1..Len(Stream) /\ Stream'[i] = Stream[i]
  <2>1. /\ Stream[i][1].n \in 1..calls /\ Stream[i][1].ns <= Now
        /\ pc = "write" => Stream[i][1].n < calls
        /\ pc \in {"echo", "tick"} /\ Stream[i][1].n = calls => Stream[i][1] = event
    BY <1>0, <1>2 DEF Bounded
  <2>2. PICK e : e = Stream[i][1]
    OBVIOUS
  <2>3. e.n \in Int /\ e.ns \in Int
    BY <1>0, <1>2, <2>2, PieceTyped
  <2>4. /\ calls' \in Nat /\ calls <= calls' /\ Now' \in Nat /\ Now <= Now'
        /\ pc' = "write" => calls' = calls + 1
        /\ pc' \in {"echo", "tick"} => /\ calls' = calls /\ event' = event
                                       /\ pc \in {"write", "echo"}
    BY ClockGoesOn
  <2>5. /\ e.n \in 1..calls' /\ e.ns <= Now' /\ (pc' = "write" => e.n < calls')
    BY <1>1, <2>1, <2>2, <2>3, <2>4
  <2>6. pc' \in {"echo", "tick"} /\ e.n = calls' => e = event'
    BY <1>1, <2>1, <2>2, <2>3, <2>4
  <2> QED BY <1>2, <2>2, <2>5, <2>6
<1>3. CASE pc = "write" /\ Stream'[i][1] = event
  <2>1. /\ event.n = calls' /\ event.ns <= Now' /\ calls' \in Nat
        /\ pc' # "write" /\ (pc' \in {"echo", "tick"} => event' = event)
    BY <1>3, ClockGoesOn DEF Ticks
  <2>2. calls' >= 1
    <3>1. calls > 0 /\ event.n = calls
      BY <1>3 DEF SInv, Current, Emitting
    <3> QED BY <1>1, <2>1, <3>1
  <2> QED BY <1>3, <2>1, <2>2
<1> QED BY <1>2, <1>3, Origin

LEMMA NextSorted ==
  ASSUME SInv, Moves, pc # "main"
  PROVE  Sorted(Stream)'
<1>0. Sorted(Stream) /\ Stream \in Seq(Pieces) /\ event \in Events /\ Bounded(Stream)
  BY Lined DEF SInv
<1>1. Len(Stream) \in Nat /\ Len(Stream') \in Nat
  BY <1>0, ConcatStarts DEF Moves, Stream
<1>2. pc = "write" => Sorted(Stream \o Line(event)) /\ Len(Stream \o Line(event)) \in Nat
  <2> SUFFICES ASSUME pc = "write"
               PROVE  Sorted(Stream \o Line(event)) /\ Len(Stream \o Line(event)) \in Nat
    OBVIOUS
  <2>1. event.n = calls /\ event.ns = Now
    BY DEF SInv, Current, Emitting
  <2>2. \A i \in 1..Len(Stream) : Stream[i][1].n < event.n /\ Stream[i][1].ns <= event.ns
    BY <1>0, <2>1 DEF Bounded
  <2>3. Len(Stream \o Line(event)) = Len(Stream) + 3
    BY <1>0, LineAdded
  <2> QED BY <1>0, <1>1, <2>2, <2>3, SortedLine
<1>3. CASE Stream' = Stream
  BY <1>0, <1>3
<1>4. CASE pc = "write" /\ Stream' = Stream \o Line(event)
  BY <1>2, <1>4
<1>5. CASE pc = "write" /\ Starts(Stream', Stream \o Line(event))
  BY <1>1, <1>2, <1>5, StartsKeeps
<1>6. CASE Starts(Stream', Stream)
  BY <1>0, <1>1, <1>6, StartsKeeps
<1> QED BY <1>3, <1>4, <1>5, <1>6 DEF Moves

\* Lines that fit the buffer are only ever torn at the end.
LEMMA NextLinked ==
  ASSUME SInv, Moves, Ticks, pc \notin {"main", "ended"}, ~lost'
  PROVE  Linked(Stream)' /\ (pc' # "ended" => Whole(Stream)')
<1>0. Stream \in Seq(Pieces) /\ event \in Events
  BY Lined
<1>1. Len(Stream) \in Nat /\ Len(Stream') \in Nat
  BY <1>0, ConcatStarts DEF Moves, Stream
<1>2. ~lost
  BY Zenon DEF Ticks
<1>3. Linked(Stream) /\ Whole(Stream)
  BY <1>2 DEF SInv
<1>4. /\ Linked(Stream \o Line(event)) /\ Whole(Stream \o Line(event))
      /\ Len(Stream \o Line(event)) \in Nat
  <2>1. Len(Stream \o Line(event)) = Len(Stream) + 3
    BY <1>0, LineAdded
  <2> QED BY <1>0, <1>1, <1>3, <2>1, LinkedLine
<1>5. CASE Stream' = Stream
  BY <1>3, <1>5
<1>6. CASE Stream' = Stream \o Line(event)
  BY <1>4, <1>6
<1>7. CASE pc' = "ended" /\ Starts(Stream', Stream \o Line(event))
  BY <1>1, <1>4, <1>7, StartsKeeps
<1>8. CASE pc' = "ended" /\ Starts(Stream', Stream)
  BY <1>1, <1>3, <1>8, StartsKeeps
<1> QED BY <1>5, <1>6, <1>7, <1>8 DEF Moves

\* A line that is in the file stays there, and the line of an event is there
\* before it is shown or returned.
LEMMA NextKept ==
  ASSUME SInv, Moves, Ticks, pc # "main"
  PROVE  Kept'
<1>0. Stream \in Seq(Pieces) /\ event \in Events /\ Len(file) \in Nat /\ Len(file') \in Nat
  BY Lined DEF Moves
<1>1. \A n : Has(file, n) => Has(file', n)
  BY <1>0, StartsKeeps DEF Moves
<1>2. /\ \A n \in returned \cup echoed : Has(file, n)
      /\ pc \in {"echo", "tick"} => Has(file, event.n) /\ event.n = calls
  BY DEF SInv, Kept, Current, Emitting
<1>3. \A n \in returned' \cup echoed' : Has(file', n)
  <2> SUFFICES ASSUME NEW n \in returned' \cup echoed' PROVE Has(file', n)
    OBVIOUS
  <2>1. n \in returned \cup echoed \/ (pc \in {"echo", "tick"} /\ n = event.n)
    BY DEF Ticks
  <2> QED BY <1>1, <1>2, <2>1
<1>4. ASSUME pc' \in {"echo", "tick"} PROVE Has(file', calls')
  <2>0. calls' = calls /\ pc \in {"write", "echo"}
    BY <1>4, ClockGoesOn
  <2>1. CASE pc = "write"
    <3>1. file' = Stream \o Line(event) /\ event.n = calls
      BY <1>4, <2>1 DEF Ticks, SInv, Current, Emitting
    <3> QED BY <1>0, <2>0, <3>1, HasLine
  <2>2. CASE pc = "echo"
    BY <1>1, <1>2, <2>0, <2>2
  <2> QED BY <2>0, <2>1, <2>2
<1> QED BY <1>3, <1>4 DEF Kept

\* One more event has been returned, and with the next stamp.
LEMMA NextStamped ==
  ASSUME SInv, Moves, Ticks, pc # "main"
  PROVE  Stamped'
<1> SUFFICES ASSUME replay'
             PROVE  /\ idx' = Cardinality(returned')
                    /\ \A i \in 1..Len(Stream') : Stream'[i][1].n \in returned' =>
                         Stream'[i][1].ns = Cardinality(UpTo(returned', Stream'[i][1].n))
  BY DEF Stamped
<1>0. replay /\ Stream \in Seq(Pieces)
  BY Lined, Zenon DEF Ticks
<1>1. /\ idx = Cardinality(returned)
      /\ \A i \in 1..Len(Stream) : Stream[i][1].n \in returned =>
           Stream[i][1].ns = Cardinality(UpTo(returned, Stream[i][1].n))
  BY <1>0 DEF SInv, Stamped
<1>2. calls \in Nat /\ idx \in Nat /\ returned \subseteq 1..MaxEvents
  BY Counters
<1>3. \A n \in returned : n <= calls
  BY DEF SInv, Current
<1>4. CASE pc = "tick" /\ pc' = "ready"
  <2>1. /\ returned' = returned \cup {event.n} /\ idx' = idx + 1 /\ calls' = calls
        /\ event' = event
    BY <1>0, <1>4 DEF Ticks, Advance
  <2>2. event.n = calls /\ event.ns = idx + 1 /\ calls \notin returned
    BY <1>0, <1>4 DEF SInv, Current, Emitting, Now
  <2>3. IsFiniteSet(returned)
    <3>1. IsFiniteSet(1..MaxEvents)
      BY FS_Interval, StreamAssumption
    <3> QED BY <1>2, <3>1, FS_Subset
  <2>4. idx' = Cardinality(returned')
    BY <1>1, <2>1, <2>2, <2>3, FS_AddElement
  <2>5. ASSUME NEW i \in 1..Len(Stream'), Stream'[i][1].n \in returned'
        PROVE  Stream'[i][1].ns = Cardinality(UpTo(returned', Stream'[i][1].n))
    <3>1. i \in 1..Len(Stream) /\ Stream'[i] = Stream[i]
      BY <1>4, Origin
    <3>2. PICK e : e = Stream[i][1]
      OBVIOUS
    <3>3. CASE e.n = calls
      <4>1. e = event
        BY <1>4, <3>1, <3>2, <3>3 DEF SInv, Bounded
      <4>2. {k \in returned' : k <= e.n} = returned'
        <5>1. \A k \in returned' : k <= calls
          BY <1>2, <1>3, <2>1, <2>2
        <5> QED BY <3>3, <5>1
      <4>3. UpTo(returned', e.n) = returned'
        BY <4>2, Zenon DEF UpTo
      <4> QED BY <2>1, <2>2, <2>4, <3>1, <3>2, <4>1, <4>3
    <3>4. CASE e.n # calls
      <4>1. e.n \in returned
        BY <2>1, <2>2, <2>5, <3>1, <3>2, <3>4
      <4>2. e.n \in Int /\ e.n < calls
        <5>1. PICK n : n = e.n
          OBVIOUS
        <5>2. n \in 1..MaxEvents /\ n <= calls /\ n # calls
          BY <1>2, <1>3, <3>4, <4>1, <5>1
        <5>3. n \in Int /\ n < calls
          BY <1>2, <5>2, StreamAssumption
        <5> QED BY <5>1, <5>3
      <4>3. {k \in returned' : k <= e.n} = {k \in returned : k <= e.n}
        BY <1>2, <2>1, <2>2, <4>2
      <4>4. UpTo(returned', e.n) = UpTo(returned, e.n)
        BY <4>3, Zenon DEF UpTo
      <4> QED BY <1>1, <3>1, <3>2, <4>1, <4>4
    <3> QED BY <3>3, <3>4
  <2> QED BY <2>4, <2>5
<1>5. CASE ~(pc = "tick" /\ pc' = "ready")
  <2>1. returned' = returned /\ idx' = idx
    BY <1>5 DEF Ticks
  <2>2. ASSUME NEW i \in 1..Len(Stream'), Stream'[i][1].n \in returned'
        PROVE  Stream'[i][1].ns = Cardinality(UpTo(returned', Stream'[i][1].n))
    <3>1. CASE i \in 1..Len(Stream) /\ Stream'[i] = Stream[i]
      <4>1. PICK e : e = Stream[i][1]
        OBVIOUS
      <4>2. UpTo(returned', e.n) = UpTo(returned, e.n)
        BY <2>1
      <4> QED BY <1>1, <2>1, <2>2, <3>1, <4>1, <4>2
    <3>2. CASE pc = "write" /\ Stream'[i][1] = event
      <4>1. event.n \notin returned
        BY <3>2 DEF SInv, Current, Emitting
      <4> QED BY <2>1, <2>2, <3>2, <4>1
    <3> QED BY <3>1, <3>2, Origin
  <2> QED BY <1>1, <2>1, <2>2
<1> QED BY <1>4, <1>5

-----------------------------------------------------------------------------
\* The invariant is inductive.
LEMMA InitSInv == Init => SInv
<1> SUFFICES ASSUME Init PROVE SInv
  OBVIOUS
<1>1. TypeOK
  <2>1. Debris \in Events
    BY StreamAssumption DEF Debris, Events
  <2>2. file \in Seq(Pieces) /\ buffer \in Seq(Pieces)
    <3>1. Line(Debris) \in Seq(Pieces) /\ <<>> \in Seq(Pieces)
      BY <2>1, LinePieces
    <3>2. (file = <<>> \/ file = Line(Debris)) /\ buffer = <<>>
      BY DEF Init
    <3> QED BY <3>1, <3>2, Zenon
  <2>3. replay \in BOOLEAN /\ lost \in BOOLEAN
    BY Zenon DEF Init
  <2>4. event \in Events
    BY <2>1 DEF Init
  <2> QED BY <2>2, <2>3, <2>4, StreamAssumption DEF Init, TypeOK
<1>2. pc = "main" /\ Current /\ Kept
  BY DEF Init, Current, Emitting, Kept
<1> QED BY <1>1, <1>2 DEF SInv

LEMMA NextSInv == SInv /\ [Next]_vars => SInv'
<1> SUFFICES ASSUME SInv, [Next]_vars PROVE SInv'
  OBVIOUS
<1>1. CASE Next /\ pc # "main"
  <2>1. Moves /\ Ticks
    BY <1>1, StreamMoves, StepTicks
  <2>2. TypeOK'
    BY <1>1, NextStreamTyped
  <2>3. Current' /\ Kept' /\ Sorted(Stream)' /\ Bounded(Stream)' /\ Stamped'
    BY <1>1, <2>1, NextCurrent, NextKept, NextSorted, NextBounded, NextStamped
  <2>4. pc # "ended"
    BY <1>1 DEF Next, OpenWriter, BeginEmit, ClockExhausted, InvalidEvent, WriteLine,
       ShortLineFails, LongLineFails, Echo, EchoFails, TickAndReturn, Close, Kill
  <2>5. ~lost' => Linked(Stream)' /\ (pc' # "ended" => Whole(Stream)')
    BY <1>1, <2>1, <2>4, NextLinked
  <2> QED BY <2>2, <2>3, <2>5 DEF SInv
<1>2. CASE Next /\ pc = "main"
  <2>1. OpenWriter
    BY <1>2 DEF Next, OpenWriter, BeginEmit, ClockExhausted, InvalidEvent, WriteLine,
       ShortLineFails, LongLineFails, Echo, EchoFails, TickAndReturn, Close, Kill
  <2>2. /\ calls = 0 /\ idx = 0 /\ buffer = <<>> /\ returned = {} /\ echoed = {}
    BY <1>2 DEF SInv, Current
  <2>3. /\ file' = <<>> /\ buffer' = <<>> /\ pc' = "ready"
        /\ UNCHANGED <<replay, idx, event, calls, raises, echoed, returned, lost>>
    BY <2>1, <2>2 DEF OpenWriter
  <2>4. TypeOK'
    <3>1. file' \in Seq(Pieces) /\ buffer' \in Seq(Pieces)
      BY <2>3
    <3>2. replay' \in BOOLEAN /\ lost' \in BOOLEAN
      BY <2>3, Zenon DEF SInv, TypeOK
    <3> QED BY <2>3, <3>1, <3>2 DEF SInv, TypeOK
  <2>5. Len(Stream') = 0
    <3>1. <<>> \o <<>> = <<>>
      OBVIOUS
    <3> QED BY <2>3, <3>1 DEF Stream
  <2>6. Current' /\ Kept'
    BY <2>2, <2>3 DEF Current, Kept, Emitting
  <2>7. Sorted(Stream)' /\ Bounded(Stream)' /\ Linked(Stream)' /\ Whole(Stream)'
    BY <2>5 DEF Sorted, Bounded, Linked, Whole
  <2>8. Stamped'
    <3>1. Cardinality({}) = 0
      BY FS_EmptySet
    <3> QED BY <2>2, <2>3, <2>5, <3>1 DEF Stamped
  <2> QED BY <2>3, <2>4, <2>6, <2>7, <2>8 DEF SInv
<1>3. CASE UNCHANGED vars
  <2>1. UNCHANGED <<pc, file, buffer, replay, idx, event, calls, raises, echoed, returned, lost>>
    BY <1>3 DEF vars
  <2>2. Stream' = Stream /\ Now' = Now
    BY <2>1 DEF Stream, Now
  <2>3. TypeOK'
    BY <2>1 DEF SInv, TypeOK
  <2>4. Current' /\ Kept' /\ (Stamped => Stamped')
    BY <2>1, <2>2 DEF SInv, Current, Kept, Emitting, Stamped
  <2>5. Bounded(Stream) => Bounded(Stream)'
    BY <2>1, <2>2 DEF Bounded
  <2> QED BY <2>1, <2>2, <2>3, <2>4, <2>5 DEF SInv
<1> QED BY <1>1, <1>2, <1>3

LEMMA StreamInvariance == Spec => []SInv
  BY InitSInv, NextSInv, PTL DEF Spec

-----------------------------------------------------------------------------
(***************************************************************************)
(* Theorems.                                                               *)
(***************************************************************************)
\* Three pieces that are a line.
LEMMA LineAt ==
  ASSUME NEW s \in Seq(Pieces), NEW i \in 1..Len(s) - 2
  PROVE  SubSeq(s, i, i + 2) = Line(s[i][1]) <=>
           /\ s[i][2] = 1
           /\ s[i + 1] = <<s[i][1], 2>>
           /\ s[i + 2] = <<s[i][1], 3>>
<1>0. Len(s) \in Nat /\ i \in 1..Len(s) /\ i + 1 \in 1..Len(s) /\ i + 2 \in 1..Len(s)
  OBVIOUS
<1>1. s[i] \in Pieces
  BY <1>0
<1>2. PICK e \in Events, k \in 1..3 : s[i] = <<e, k>>
  BY <1>1 DEF Pieces
<1>3. /\ Line(e) \in Seq(Pieces) /\ Len(Line(e)) = 3
      /\ Line(e)[1] = <<e, 1>> /\ Line(e)[2] = <<e, 2>> /\ Line(e)[3] = <<e, 3>>
  BY LinePieces
<1> DEFINE u == SubSeq(s, i, i + 2)
<1>4. u \in Seq(Pieces) /\ Len(u) = 3 /\ u[1] = s[i] /\ u[2] = s[i + 1] /\ u[3] = s[i + 2]
  <2>1. PICK j \in Nat : j = i + 2
    BY <1>0
  <2>2. \A m \in i..j : s[m] \in Pieces
    BY <1>0, <2>1
  <2>3. /\ SubSeq(s, i, j) \in Seq(Pieces)
        /\ Len(SubSeq(s, i, j)) = IF i <= j THEN j - i + 1 ELSE 0
        /\ \A m \in 1..j - i + 1 : SubSeq(s, i, j)[m] = s[i + m - 1]
    BY <1>0, <2>1, <2>2, SubSeqProperties
  <2>4. /\ i <= j /\ j - i + 1 = 3 /\ 1 \in 1..j - i + 1 /\ 2 \in 1..j - i + 1
        /\ 3 \in 1..j - i + 1 /\ i + 1 - 1 = i /\ i + 2 - 1 = i + 1 /\ i + 3 - 1 = i + 2
    BY <1>0, <2>1
  <2>5. /\ SubSeq(s, i, j)[1] = s[i] /\ SubSeq(s, i, j)[2] = s[i + 1]
        /\ SubSeq(s, i, j)[3] = s[i + 2] /\ Len(SubSeq(s, i, j)) = 3
    BY <2>3, <2>4
  <2> QED BY <2>1, <2>3, <2>5
<1> HIDE DEF u
<1>5. s[i][1] = e /\ s[i][2] = k
  BY <1>2
<1>6. ASSUME u = Line(e) PROVE s[i] = <<e, 1>> /\ s[i + 1] = <<e, 2>> /\ s[i + 2] = <<e, 3>>
  BY <1>3, <1>4, <1>6
<1>7. ASSUME k = 1, s[i + 1] = <<e, 2>>, s[i + 2] = <<e, 3>> PROVE u = Line(e)
  <2>1. u[1] = Line(e)[1] /\ u[2] = Line(e)[2] /\ u[3] = Line(e)[3]
    BY <1>2, <1>3, <1>4, <1>7
  <2>2. \A m \in 1..Len(u) : u[m] = Line(e)[m]
    BY <1>4, <2>1
  <2> QED BY <1>3, <1>4, <2>2, SeqEqual
<1>8. s[i] = <<e, 1>> => k = 1
  BY <1>2
<1> QED BY <1>5, <1>6, <1>7, <1>8 DEF u

\* The parts of the invariant for the file.
LEMMA InFile ==
  ASSUME SInv, pc # "main"
  PROVE  /\ file \in Seq(Pieces) /\ Sorted(file) /\ Bounded(file)
         /\ ~lost => Linked(file)
         /\ \A i \in 1..Len(file) : i \in 1..Len(Stream) /\ file[i] = Stream[i]
<1>1. file \in Seq(Pieces) /\ Stream \in Seq(Pieces) /\ Starts(file, Stream)
  BY Lined
<1>2. Len(file) \in Nat /\ Len(Stream) \in Nat
  BY <1>1
<1>3. Sorted(file) /\ Bounded(file) /\ (~lost => Linked(file))
  BY <1>1, <1>2, StartsKeeps DEF SInv
<1> QED BY <1>1, <1>2, <1>3 DEF Starts

\* Type correctness: among others, a replayed clock never runs past the last pair.
THEOREM StreamTypeCorrect == Spec => []TypeOK
<1>1. SInv => TypeOK
  BY DEF SInv
<1> QED BY <1>1, StreamInvariance, PTL

\* No event is lost whose emit has returned or that stdout has shown: its line is
\* in the file exactly once, in the order of the calls, whatever failed before
\* and wherever the process was killed.
THEOREM NothingEmittedLost == Spec => []EmittedIsDurable
<1>1. ASSUME SInv PROVE EmittedIsDurable
  <2>1. CASE pc = "main"
    <3>1. returned = {} /\ echoed = {}
      BY <1>1, <2>1 DEF SInv, Current
    <3> QED BY <3>1 DEF EmittedIsDurable
  <2>2. CASE pc # "main"
    <3>0. file \in Seq(Pieces) /\ Sorted(file) /\ Len(file) \in Nat
      BY <1>1, <2>2, InFile
    <3>1. ASSUME NEW n, NEW i \in At(n)
          PROVE  i \in 1..Len(file) /\ i \in Int /\ file[i][1].n = n /\ file[i][2] = 1
      <4>1. /\ i \in 1..Len(file) - 2 /\ file[i][1].n = n
            /\ SubSeq(file, i, i + 2) = Line(file[i][1])
        BY <3>1 DEF At
      <4> QED BY <3>0, <4>1, LineAt
    <3>2. ASSUME NEW n \in returned \cup echoed PROVE Cardinality(At(n)) = 1
      <4>1. PICK i \in 1..Len(file) - 2 : /\ file[i][1].n = n /\ file[i][2] = 1
                                          /\ file[i + 1] = <<file[i][1], 2>>
                                          /\ file[i + 2] = <<file[i][1], 3>>
        BY <1>1 DEF SInv, Kept, Has
      <4>2. SubSeq(file, i, i + 2) = Line(file[i][1])
        BY <3>0, <4>1, LineAt
      <4>3. i \in At(n)
        BY <4>1, <4>2 DEF At
      <4>4. ASSUME NEW j \in At(n) PROVE j = i
        <5>1. /\ i \in 1..Len(file) /\ j \in 1..Len(file) /\ i \in Int /\ j \in Int
              /\ file[j][1].n = n /\ file[j][2] = 1
          BY <3>1, <4>3, <4>4
        <5>2. PICK m : m = file[i][1].n
          OBVIOUS
        <5>3. m \in Int /\ file[j][1].n = m /\ file[i][1].n = m
          BY <3>0, <4>1, <5>1, <5>2, PieceTyped
        <5>4. ~(i < j)
          BY <3>0, <4>1, <5>1, <5>3 DEF Sorted
        <5>5. ~(j < i)
          BY <3>0, <4>1, <5>1, <5>3 DEF Sorted
        <5> QED BY <5>1, <5>4, <5>5
      <4>5. At(n) = {i}
        BY <4>3, <4>4
      <4> QED BY <4>5, FS_Singleton
    <3>3. ASSUME NEW n \in returned, NEW k \in returned, n < k,
                 NEW i \in At(n), NEW j \in At(k)
          PROVE  i < j
      <4>1. /\ i \in 1..Len(file) /\ i \in Int /\ file[i][1].n = n
            /\ j \in 1..Len(file) /\ j \in Int /\ file[j][1].n = k
        BY <3>1
      <4>2. n \in Int /\ k \in Int
        BY <1>1, StreamAssumption, Counters
      <4>3. i # j
        BY <3>3, <4>1, <4>2
      <4>4. ~(j < i)
        <5>1. j < i => file[j][1].n < file[i][1].n \/ file[j][1] = file[i][1]
          BY <3>0, <4>1 DEF Sorted
        <5>2. j < i => k < n \/ k = n
          BY <4>1, <5>1
        <5> QED BY <3>3, <4>2, <5>2
      <4> QED BY <4>1, <4>3, <4>4
    <3> QED BY <3>2, <3>3 DEF EmittedIsDurable
  <2> QED BY <2>1, <2>2
<1> QED BY <1>1, StreamInvariance, PTL

\* A replayed stream carries the recorded stamps, one for each call that returned
\* and in their order, and the stamps in the file never go back.
THEOREM StampsReplayed == Spec => []ReplayStamps
<1>1. ASSUME SInv PROVE ReplayStamps
  <2>1. CASE pc = "main"
    <3>1. returned = {}
      BY <1>1, <2>1 DEF SInv, Current
    <3> QED BY <2>1, <3>1 DEF ReplayStamps
  <2>2. CASE pc # "main"
    <3>0. /\ file \in Seq(Pieces) /\ Sorted(file)
          /\ \A i \in 1..Len(file) : i \in 1..Len(Stream) /\ file[i] = Stream[i]
      BY <1>1, <2>2, InFile
    <3>1. ASSUME replay, NEW n \in returned, NEW i \in At(n)
          PROVE  file[i][1].ns = Cardinality({k \in returned : k <= n})
      <4>1. i \in 1..Len(file) - 2 /\ file[i][1].n = n
        BY <3>1 DEF At
      <4>2. i \in 1..Len(file)
        BY <3>0, <4>1
      <4>3. i \in 1..Len(Stream) /\ file[i] = Stream[i]
        BY <3>0, <4>2
      <4>4. Stream[i][1].ns = Cardinality(UpTo(returned, n))
        BY <1>1, <2>2, <3>1, <4>1, <4>3 DEF SInv, Stamped
      <4> QED BY <4>3, <4>4 DEF UpTo
    <3>2. \A i, j \in 1..Len(file) : i < j => file[i][1].ns <= file[j][1].ns
      BY <3>0 DEF Sorted
    <3> QED BY <3>1, <3>2 DEF ReplayStamps
  <2> QED BY <2>1, <2>2
<1> QED BY <1>1, StreamInvariance, PTL

\* As long as lines fit the buffer, a line that ends with its newline is whole: a
\* write that failed is completed by the next one and never runs into it.
THEOREM TornOnlyAtEnd == Spec => []OnlyLastLineTorn
<1>1. ASSUME SInv, pc # "main", ~lost, NEW line \in LinesOf(file), line[Len(line)][2] = 3
      PROVE  Parses(line)
  <2>0. file \in Seq(Pieces) /\ Linked(file) /\ Len(file) \in Nat
    BY <1>1, InFile
  <2>1. PICK ends \in LineEnds(file) \X LineEnds(file) :
          /\ ends[1] < ends[2]
          /\ \A i \in LineEnds(file) : i <= ends[1] \/ i >= ends[2]
          /\ line = SubSeq(file, ends[1] + 1, ends[2])
    BY <1>1 DEF LinesOf
  <2>2. PICK a \in LineEnds(file), b \in LineEnds(file) :
          /\ a < b /\ (\A i \in LineEnds(file) : i <= a \/ i >= b)
          /\ line = SubSeq(file, a + 1, b)
    BY <2>1
  <2>3. a \in 0..Len(file) /\ b \in 1..Len(file) /\ a \in Int /\ b \in Int
    BY <2>0, <2>2 DEF LineEnds
  <2>4. line[Len(line)] = file[b]
    <3>1. PICK m \in Nat : m = a + 1
      BY <2>3
    <3>2. \A i \in m..b : file[i] \in Pieces
      BY <2>0, <2>3, <3>1
    <3>3. /\ Len(SubSeq(file, m, b)) = IF m <= b THEN b - m + 1 ELSE 0
          /\ \A i \in 1..b - m + 1 : SubSeq(file, m, b)[i] = file[m + i - 1]
      BY <2>3, <3>2, SubSeqProperties
    <3>4. PICK l \in Int : l = b - m + 1
      BY <2>3, <3>1
    <3>5. m <= b /\ l \in 1..b - m + 1 /\ m + l - 1 = b
      BY <2>2, <2>3, <3>1, <3>4
    <3>6. Len(line) = l /\ line[l] = file[b]
      BY <2>2, <3>1, <3>3, <3>4, <3>5
    <3> QED BY <3>6
  <2>5. PICK e, k : file[b] = <<e, k>>
    <3>1. file[b] \in Pieces
      BY <2>0, <2>3
    <3> QED BY <3>1 DEF Pieces
  <2>6. file[b] = <<e, 3>>
    BY <1>1, <2>4, <2>5
  <2>7. b > 1 /\ file[b - 1] = <<e, 2>>
    BY <2>0, <2>3, <2>6 DEF Linked
  <2>8. PICK c \in 1..Len(file) : c = b - 1
    BY <2>3, <2>7
  <2>9. c > 1 /\ file[c - 1] = <<e, 1>>
    BY <2>0, <2>7, <2>8 DEF Linked
  <2>10. PICK d \in 1..Len(file) : d = c - 1
    BY <2>3, <2>9
  <2>11. file[c] = <<e, 2>> /\ file[d] = <<e, 1>>
    BY <2>7, <2>8, <2>9, <2>10
  <2>12. d > 1 => file[d - 1][2] = 3
    BY <2>0, <2>11 DEF Linked
  <2>13. d - 1 \in LineEnds(file)
    <3>1. CASE d = 1
      BY <3>1 DEF LineEnds
    <3>2. CASE d > 1
      <4>1. PICK i \in 1..Len(file) : i = d - 1
        BY <2>10, <3>2
      <4> QED BY <2>12, <3>2, <4>1 DEF LineEnds
    <3> QED BY <2>10, <3>1, <3>2
  <2>14. a # c /\ a # d
    <3>1. c # 0 /\ c # Len(file) /\ d # 0 /\ d # Len(file)
      BY <2>3, <2>8, <2>10
    <3>2. file[c][2] = 2 /\ file[d][2] = 1
      BY <2>11
    <3>3. c \notin LineEnds(file) /\ d \notin LineEnds(file)
      BY <3>1, <3>2 DEF LineEnds
    <3> QED BY <2>2, <3>3
  <2>15. a + 1 = d /\ b = d + 2 /\ d \in 1..Len(file) - 2
    <3>1. d - 1 <= a
      BY <2>2, <2>3, <2>8, <2>10, <2>13
    <3> QED BY <2>2, <2>3, <2>8, <2>10, <2>14, <3>1
  <2>16. line = Line(e)
    <3>1. line = SubSeq(file, d, d + 2)
      BY <2>2, <2>15
    <3>2. file[d][1] = e /\ file[d][2] = 1 /\ d + 1 = c
      BY <2>8, <2>10, <2>11
    <3>3. file[d + 1] = <<e, 2>> /\ file[d + 2] = <<e, 3>>
      BY <2>6, <2>11, <2>15, <3>2
    <3>4. SubSeq(file, d, d + 2) = Line(file[d][1])
      BY <2>0, <2>15, <3>2, <3>3, LineAt
    <3> QED BY <3>1, <3>2, <3>4
  <2>17. e \in Events
    <3>1. file[d] \in Pieces
      BY <2>0, <2>10
    <3> QED BY <2>11, <3>1 DEF Pieces
  <2>18. Len(line) = 3 /\ line[1][1] = e /\ line \in Seq(Pieces)
    BY <2>16, <2>17, LinePieces
  <2>19. Prefix(Line(e), 3) = Line(e)
    BY <2>16, <2>18, SubSeqFull DEF Prefix
  <2> QED BY <2>16, <2>18, <2>19 DEF Parses
<1>2. SInv => OnlyLastLineTorn
  BY <1>1 DEF OnlyLastLineTorn
<1> QED BY <1>2, StreamInvariance, PTL

\* What read_events answers is right: the events of this run and of no earlier
\* one, in the order of the calls, none twice and none missing whose emit
\* returned.
THEOREM AnswersHonest == Spec => []ReaderHonest
<1>1. ASSUME SInv, pc # "main"
      PROVE  LET evs == read_events(file)
             IN  /\ \A i, j \in DOMAIN evs : i < j => evs[i].n < evs[j].n
                 /\ \A i \in DOMAIN evs : evs[i].n # 0
                 /\ returned \subseteq {evs[i].n : i \in DOMAIN evs}
  <2> DEFINE evs == read_events(file)
  <2>0. file \in Seq(Pieces) /\ Sorted(file) /\ Bounded(file) /\ Len(file) \in Nat
    BY <1>1, InFile
  <2>1. /\ DOMAIN evs = {k \in 1..Len(file) : file[k][2] = 1}
        /\ \A i \in DOMAIN evs : evs[i] = file[i][1]
    BY DEF read_events
  <2> HIDE DEF evs
  <2>2. ASSUME NEW i \in DOMAIN evs, NEW j \in DOMAIN evs, i < j
        PROVE  evs[i].n < evs[j].n
    <3>1. /\ i \in 1..Len(file) /\ j \in 1..Len(file) /\ file[i][2] = 1 /\ file[j][2] = 1
      BY <2>1
    <3>2. file[i][1].n < file[j][1].n
      BY <2>0, <2>2, <3>1 DEF Sorted
    <3> QED BY <2>1, <3>2
  <2>3. ASSUME NEW i \in DOMAIN evs PROVE evs[i].n # 0
    <3>1. i \in 1..Len(file) /\ evs[i] = file[i][1]
      BY <2>1
    <3>2. file[i][1].n \in 1..calls
      BY <2>0, <3>1 DEF Bounded
    <3> QED BY <1>1, <3>1, <3>2, Counters
  <2>4. ASSUME NEW n \in returned PROVE n \in {evs[i].n : i \in DOMAIN evs}
    <3>1. PICK i \in 1..Len(file) - 2 : file[i][1].n = n /\ file[i][2] = 1
      BY <1>1 DEF SInv, Kept, Has
    <3>2. i \in 1..Len(file)
      BY <2>0
    <3>3. i \in DOMAIN evs /\ evs[i].n = n
      BY <2>1, <3>1, <3>2
    <3> QED BY <3>3
  <2> QED BY <2>2, <2>3, <2>4 DEF evs
<1>2. SInv => ReaderHonest
  BY <1>1 DEF ReaderHonest
<1> QED BY <1>2, StreamInvariance, PTL

=============================================================================
