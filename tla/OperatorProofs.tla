--------------------------- MODULE OperatorProofs ---------------------------
(***************************************************************************)
(* Lemmas about the operators that the models are built from: induction    *)
(* over numbers; what a drain can rely on about the run it collects,       *)
(* whichever adapters are behind the ports; what the operators on lists    *)
(* return that rows and aggregate are changed with; how many events the    *)
(* use cases hand to Append.                                               *)
(***************************************************************************)
EXTENDS DrainRun, Domain, SequenceTheorems, WellFoundedInduction, TLAPS

-----------------------------------------------------------------------------
(***************************************************************************)
(* Induction.                                                              *)
(***************************************************************************)
Less == {ss \in Nat \X Nat : ss[1] < ss[2]}

\* Every non-empty set of numbers has a least one.
LEMMA LeastNumber ==
  ASSUME NEW T, T \subseteq Nat, T # {}
  PROVE  \E m \in T : \A n \in T : m <= n
<1>1. IsWellFoundedOn(Less, Nat)
  BY NatLessThanWellFounded DEF OpToRel, Less
<1>2. PICK x \in T : \A y \in T : ~ (<<y, x>> \in Less)
  BY <1>1, WFMin, Zenon
<1>3. ASSUME NEW y \in Nat, NEW z \in Nat, y < z
      PROVE  <<y, z>> \in Less
  <2>1. <<y, z>> \in Nat \X Nat
    OBVIOUS
  <2>2. <<y, z>>[1] < <<y, z>>[2]
    BY <1>3
  <2> QED
    BY <2>1, <2>2, Zenon DEF Less
<1>4. \A y \in T : x <= y
  <2> SUFFICES ASSUME NEW y \in T, ~ (x <= y)
               PROVE  FALSE
    OBVIOUS
  <2>1. y \in Nat /\ x \in Nat /\ y < x
    OBVIOUS
  <2>2. <<y, x>> \in Less
    BY <2>1, <1>3, Zenon
  <2> QED
    BY <2>2, <1>2, Zenon
<1> QED
  BY <1>4

\* Induction, for a property given as the set of the numbers that have it.
LEMMA Induction ==
  ASSUME NEW S, 0 \in S, \A n \in Nat : n \in S => n + 1 \in S
  PROVE  Nat \subseteq S
<1> SUFFICES ASSUME NEW k \in Nat, k \notin S
             PROVE  FALSE
  OBVIOUS
<1> DEFINE T == Nat \ S
<1>1. PICK m \in T : \A n \in T : m <= n
  <2>1. T \subseteq Nat /\ T # {}
    OBVIOUS
  <2> HIDE DEF T
  <2> QED
    BY <2>1, LeastNumber
<1>2. m # 0 /\ m \in Nat
  OBVIOUS
<1>3. m - 1 \in Nat /\ m - 1 + 1 = m /\ ~ (m <= m - 1)
  BY <1>2
<1>4. m - 1 \in S
  BY <1>1, <1>3
<1> QED
  BY <1>3, <1>4

-----------------------------------------------------------------------------
(***************************************************************************)
(* Runs.                                                                   *)
(***************************************************************************)

\* The entries of a run, counted.
LEMMA IntervalIsSeq ==
  ASSUME NEW from \in Nat \ {0}, NEW to \in Nat, from <= to + 1
  PROVE  /\ Interval(from, to) \in Seq(Nat)
         /\ Len(Interval(from, to)) = to + 1 - from
<1>1. to + 1 - from \in Nat
  OBVIOUS
<1>2. \A i \in 1..(to + 1 - from) : from + i - 1 \in Nat
  OBVIOUS
<1>3. Interval(from, to) \in [1..(to + 1 - from) -> Nat]
  BY <1>2 DEF Interval
<1> QED
  BY <1>1, <1>3

\* Two runs that meet make one run.
LEMMA IntervalConcat ==
  ASSUME NEW c \in Nat, NEW last \in Nat, c <= last
  PROVE  Interval(1, c) \o Interval(c + 1, last) = Interval(1, last)
<1>1. PICK d \in Nat \ {0} : d = c + 1
  OBVIOUS
<1>2. /\ Interval(1, c) \in Seq(Nat)
      /\ Interval(d, last) \in Seq(Nat)
      /\ Interval(1, last) \in Seq(Nat)
      /\ Len(Interval(1, c)) = c
      /\ Len(Interval(d, last)) = last - c
      /\ Len(Interval(1, last)) = last
  <2>1. Interval(1, c) \in Seq(Nat) /\ Len(Interval(1, c)) = c
    BY IntervalIsSeq
  <2>2. Interval(1, last) \in Seq(Nat) /\ Len(Interval(1, last)) = last
    BY IntervalIsSeq
  <2>3. d <= last + 1
    BY <1>1
  <2>4. Interval(d, last) \in Seq(Nat)
    BY <2>3, IntervalIsSeq
  <2>5. Len(Interval(d, last)) = last + 1 - d
    BY <2>3, IntervalIsSeq
  <2>6. last + 1 - d = last - c
    BY <1>1
  <2> QED
    BY <2>1, <2>2, <2>4, <2>5, <2>6
<1>3. PICK a \in Seq(Nat), b \in Seq(Nat), whole \in Seq(Nat) :
        a = Interval(1, c) /\ b = Interval(d, last) /\ whole = Interval(1, last)
  BY <1>2
<1>4. Len(a) = c /\ Len(b) = last - c /\ Len(whole) = last
  BY <1>2, <1>3
<1>5. /\ \A i \in 1..c : a[i] = i
      /\ \A i \in 1..(last - c) : b[i] = c + i
      /\ \A i \in 1..last : whole[i] = i
  BY <1>1, <1>3 DEF Interval
<1>6. /\ a \o b \in Seq(Nat)
      /\ Len(a \o b) = last
      /\ \A i \in 1..c : (a \o b)[i] = a[i]
      /\ \A i \in 1..(last - c) : (a \o b)[c + i] = b[i]
  <2>1. /\ a \o b \in Seq(Nat)
        /\ Len(a \o b) = Len(a) + Len(b)
        /\ \A i \in 1..Len(a) : (a \o b)[i] = a[i]
        /\ \A i \in 1..Len(b) : (a \o b)[Len(a) + i] = b[i]
    OBVIOUS
  <2>2. c + (last - c) = last
    OBVIOUS
  <2> QED
    BY <1>4, <2>1, <2>2
<1>7. ASSUME NEW i \in 1..last
      PROVE  (a \o b)[i] = whole[i]
  <2>1. CASE i \in 1..c
    BY <2>1, <1>5, <1>6
  <2>2. CASE i \notin 1..c
    <3>1. PICK k \in 1..(last - c) : i = c + k
      <4>1. i - c \in 1..(last - c) /\ i = c + (i - c)
        BY <2>2
      <4> QED
        BY <4>1
    <3> QED
      BY <3>1, <1>5, <1>6
  <2> QED
    BY <2>1, <2>2
<1>8. a \o b = whole
  BY <1>4, <1>6, <1>7, SeqEqual
<1> QED
  BY <1>1, <1>3, <1>8

\* A run grows by one entry at its end.
LEMMA IntervalGrows ==
  ASSUME NEW from \in Nat \ {0}, NEW to \in Nat, from <= to + 1
  PROVE  Interval(from, to + 1) = Append(Interval(from, to), to + 1)
<1> DEFINE k     == to + 1 - from
           short == Interval(from, to)
           long  == Interval(from, to + 1)
<1>1. /\ short \in Seq(Nat) /\ Len(short) = k
      /\ long \in Seq(Nat) /\ Len(long) = k + 1
      /\ k \in Nat
  <2>1. PICK s \in Nat : s = to + 1 /\ from <= s + 1 /\ s + 1 - from = k + 1
    OBVIOUS
  <2>2. Interval(from, s) \in Seq(Nat) /\ Len(Interval(from, s)) = s + 1 - from
    BY <2>1, IntervalIsSeq
  <2>3. Interval(from, to) \in Seq(Nat) /\ Len(Interval(from, to)) = to + 1 - from
    BY IntervalIsSeq
  <2>4. long \in Seq(Nat) /\ Len(long) = k + 1
    <3> HIDE DEF k
    <3> QED
      BY <2>1, <2>2
  <2>5. k \in Nat
    OBVIOUS
  <2> QED
    BY <2>3, <2>4, <2>5
<1>2. \A i \in 1..k : short[i] = from + i - 1
  BY DEF Interval
<1>3. \A i \in 1..(k + 1) : long[i] = from + i - 1
  <2>1. to + 1 + 1 - from = k + 1
    OBVIOUS
  <2> QED
    BY <2>1 DEF Interval
<1>4. from + (k + 1) - 1 = to + 1 /\ \A i \in 1..(k + 1) : i \in 1..k \/ i = k + 1
  BY <1>1
<1> HIDE DEF short, long, k
<1>5. /\ Append(short, to + 1) \in Seq(Nat)
      /\ Len(Append(short, to + 1)) = k + 1
      /\ \A i \in 1..k : Append(short, to + 1)[i] = short[i]
      /\ Append(short, to + 1)[k + 1] = to + 1
  BY <1>1
<1>6. \A i \in 1..(k + 1) : long[i] = Append(short, to + 1)[i]
  BY <1>2, <1>3, <1>4, <1>5
<1> QED
  BY <1>1, <1>5, <1>6 DEF short, long

\* Appending to the second of two lists.
LEMMA ConcatAppend ==
  ASSUME NEW S, NEW s \in Seq(S), NEW t \in Seq(S), NEW x \in S
  PROVE  s \o Append(t, x) = Append(s \o t, x)
<1>1. Append(t, x) = t \o <<x>> /\ <<x>> \in Seq(S)
  BY AppendIsConcat
<1>2. s \o t \in Seq(S) /\ Append(s \o t, x) = (s \o t) \o <<x>>
  BY AppendIsConcat
<1> QED
  BY <1>1, <1>2, ConcatAssociative

\* The loop of Drain: a run it collects starts right after the checkpoint,
\* has no hole and consists of pending entries.
LEMMA RunIsContiguous ==
  ASSUME NEW pending \in SUBSET Nat, NEW c \in Nat,
         NEW last \in {c} \cup pending, IsRun(pending, c + 1, last), last # c
  PROVE  /\ last \in Nat
         /\ c + 1 <= last
         /\ (c + 1)..last \subseteq pending
BY DEF IsRun

\* The loop of Drain: an entry below the expected one leaves the run empty.
LEMMA RunIsEmpty ==
  ASSUME NEW pending, NEW c \in Nat, NEW last,
         NEW s \in pending, s \in Nat, s <= c, IsRun(pending, c + 1, last)
  PROVE  last = c
<1>1. \E e \in pending : e < c + 1
  OBVIOUS
<1> QED
  BY <1>1 DEF IsRun

\* The loop of Drain takes all it can: if everything pending is right after
\* the checkpoint, the run is all of it.
LEMMA RunIsMaximal ==
  ASSUME NEW pending \in SUBSET Nat, NEW c \in Nat, NEW n \in Nat, c <= n,
         (c + 1)..n \subseteq pending, pending \subseteq 1..n,
         NEW last \in {c} \cup pending, IsRun(pending, c + 1, last), last # c
  PROVE  last = n
<1>1. last \in Nat /\ c + 1 <= last /\ (c + 1)..last \subseteq pending
  BY RunIsContiguous
<1>2. last <= n
  BY <1>1
<1>3. last + 1 \notin pending
  BY <1>1 DEF IsRun
<1> QED
  BY <1>1, <1>2, <1>3
-----------------------------------------------------------------------------
(***************************************************************************)
(* Lists.                                                                  *)
(***************************************************************************)

\* A list, of whatever elements.
IsList(s) == s \in Seq(Range(s))

LEMMA SeqIsList ==
  ASSUME NEW S, NEW s \in Seq(S)
  PROVE  IsList(s)
BY DEF IsList, Range

\* array_append and append add one element at the end.
LEMMA AppendFacts ==
  ASSUME NEW s, IsList(s), NEW x
  PROVE  /\ IsList(Append(s, x))
         /\ Range(Append(s, x)) = Range(s) \cup {x}
<1> DEFINE S   == Range(s) \cup {x}
           new == Append(s, x)
<1>1. s \in Seq(S) /\ x \in S
  BY DEF IsList
<1>2. /\ new \in Seq(S)
      /\ Len(new) = Len(s) + 1
      /\ new[Len(s) + 1] = x
      /\ \A i \in 1..Len(s) : new[i] = s[i]
      /\ DOMAIN new = 1..(Len(s) + 1)
      /\ DOMAIN s = 1..Len(s)
      /\ Len(s) \in Nat
  BY <1>1
<1>3. DOMAIN new = DOMAIN s \cup {Len(s) + 1}
  BY <1>2
<1>4. Range(new) = S
  BY <1>2, <1>3 DEF Range
<1> QED
  BY <1>2, <1>4 DEF IsList

\* The auxiliary function of Pick, for the first n elements.
IsTaken(taken, seq, positions, n) ==
  taken = [i \in 0..n |->
             IF i = 0 THEN <<>>
             ELSE IF i \in positions THEN Append(taken[i - 1], seq[i])
             ELSE taken[i - 1]]

LEMMA TakenExists ==
  ASSUME NEW seq, NEW positions, NEW n \in Nat
  PROVE  \E taken : IsTaken(taken, seq, positions, n)
<1> DEFINE P == {m \in Nat : \E taken : IsTaken(taken, seq, positions, m)}
<1>1. 0 \in P
  <2> DEFINE taken == [i \in 0..0 |-> <<>>]
  <2>1. taken = [i \in 0..0 |->
             IF i = 0 THEN <<>>
             ELSE IF i \in positions THEN Append(taken[i - 1], seq[i])
             ELSE taken[i - 1]]
    OBVIOUS
  <2> QED
    BY <2>1 DEF IsTaken
<1>2. ASSUME NEW m \in Nat, m \in P
      PROVE  m + 1 \in P
  <2>1. PICK g : IsTaken(g, seq, positions, m)
    BY <1>2
  <2> DEFINE last == IF m + 1 \in positions THEN Append(g[m], seq[m + 1]) ELSE g[m]
             h == [i \in 0..(m + 1) |-> IF i = m + 1 THEN last ELSE g[i]]
  <2>2. ASSUME NEW i \in 0..(m + 1)
        PROVE  h[i] = IF i = 0 THEN <<>>
                      ELSE IF i \in positions THEN Append(h[i - 1], seq[i])
                      ELSE h[i - 1]
    <3>1. CASE i = m + 1
      <4>1. i # 0 /\ i - 1 = m /\ i - 1 \in 0..(m + 1) /\ i - 1 # m + 1
        BY <3>1
      <4>2. h[i - 1] = g[m] /\ h[i] = last
        BY <4>1, <3>1
      <4> HIDE DEF h
      <4> QED
        BY <3>1, <4>1, <4>2
    <3>2. CASE i # m + 1
      <4>1. i \in 0..m /\ h[i] = g[i]
        BY <3>2
      <4>2. CASE i = 0
        BY <4>1, <4>2, <2>1 DEF IsTaken
      <4>3. CASE i # 0
        <5>1. i - 1 \in 0..(m + 1) /\ i - 1 # m + 1
          BY <4>1, <4>3
        <5>2. h[i - 1] = g[i - 1]
          BY <5>1
        <5>3. g[i] = IF i \in positions THEN Append(g[i - 1], seq[i]) ELSE g[i - 1]
          BY <2>1, <4>1, <4>3 DEF IsTaken
        <5> HIDE DEF h
        <5> QED
          BY <4>1, <4>3, <5>2, <5>3
      <4> QED
        BY <4>2, <4>3
    <3> QED
      BY <3>1, <3>2
  <2>3. h = [i \in 0..(m + 1) |->
               IF i = 0 THEN <<>>
               ELSE IF i \in positions THEN Append(h[i - 1], seq[i])
               ELSE h[i - 1]]
    BY <2>2
  <2>4. IsTaken(h, seq, positions, m + 1)
    BY <2>3 DEF IsTaken
  <2> QED
    BY <2>4
<1> HIDE DEF P
<1>3. Nat \subseteq P
  BY <1>1, <1>2, Induction
<1> QED
  BY <1>3 DEF P

\* It grows by the elements at the positions.
Grows(t, seq, positions, n) ==
  /\ t[0] = <<>>
  /\ \A k \in 0..(n - 1) :
       t[k + 1] = IF k + 1 \in positions THEN Append(t[k], seq[k + 1]) ELSE t[k]

LEMMA TakenGrows ==
  ASSUME NEW seq, NEW positions, NEW n \in Nat, NEW t, IsTaken(t, seq, positions, n)
  PROVE  Grows(t, seq, positions, n)
<1>1. t[0] = <<>>
  BY DEF IsTaken
<1>2. ASSUME NEW k \in 0..(n - 1)
      PROVE  t[k + 1] = IF k + 1 \in positions THEN Append(t[k], seq[k + 1]) ELSE t[k]
  <2>1. PICK j \in 0..n : j = k + 1 /\ j # 0 /\ j - 1 = k
    OBVIOUS
  <2>2. t[j] = IF j \in positions THEN Append(t[j - 1], seq[j]) ELSE t[j - 1]
    BY <2>1, Zenon DEF IsTaken
  <2> QED
    BY <2>1, <2>2, Zenon
<1> QED
  BY <1>1, <1>2, Zenon DEF Grows

LEMMA PickIsTaken ==
  ASSUME NEW seq, NEW positions, Len(seq) \in Nat
  PROVE  \E taken : /\ IsTaken(taken, seq, positions, Len(seq))
                    /\ Pick(seq, positions) = taken[Len(seq)]
<1> DEFINE t == CHOOSE taken : IsTaken(taken, seq, positions, Len(seq))
<1>1. IsTaken(t, seq, positions, Len(seq))
  BY TakenExists
<1>2. Pick(seq, positions) = t[Len(seq)]
  BY DEF Pick, IsTaken
<1> QED
  BY <1>1, <1>2

\* What Pick returns is a list of the elements at the positions.
LEMMA PickFacts ==
  ASSUME NEW s, IsList(s), NEW positions
  PROVE  /\ IsList(Pick(s, positions))
         /\ Range(Pick(s, positions)) = {s[i] : i \in DOMAIN s \cap positions}
<1> DEFINE n == Len(s)
           at(k) == {s[i] : i \in (1..k) \cap positions}
<1>1. n \in Nat /\ DOMAIN s = 1..n
  BY DEF IsList
<1> HIDE DEF n
<1>2. PICK t : IsTaken(t, s, positions, n) /\ Pick(s, positions) = t[n]
  BY <1>1, PickIsTaken DEF n
<1>3. /\ t[0] = <<>>
      /\ \A k \in 0..(n - 1) :
           t[k + 1] = IF k + 1 \in positions THEN Append(t[k], s[k + 1]) ELSE t[k]
  <2>1. Grows(t, s, positions, n)
    BY <1>1, <1>2, TakenGrows
  <2> QED
    BY <2>1, Zenon DEF Grows
<1> DEFINE P == {k \in Nat : k <= n => IsList(t[k]) /\ Range(t[k]) = at(k)}
<1>4. 0 \in P
  <2>1. <<>> \in Seq({}) /\ Range(<<>>) = {} /\ (1..0) \cap positions = {}
    BY DEF Range
  <2>2. IsList(<<>>)
    BY <2>1, SeqIsList
  <2> QED
    BY <1>3, <2>1, <2>2
<1>5. ASSUME NEW k \in Nat, k \in P
      PROVE  k + 1 \in P
  <2> SUFFICES ASSUME k + 1 <= n
               PROVE  IsList(t[k + 1]) /\ Range(t[k + 1]) = at(k + 1)
    OBVIOUS
  <2>1. k \in 0..(n - 1) /\ k <= n
    BY <1>1
  <2>2. IsList(t[k]) /\ Range(t[k]) = at(k)
    BY <2>1, <1>5
  <2>3. 1..(k + 1) = (1..k) \cup {k + 1}
    OBVIOUS
  <2>4. CASE k + 1 \in positions
    <3>1. t[k + 1] = Append(t[k], s[k + 1])
      BY <1>3, <2>1, <2>4, Zenon
    <3>2. IsList(t[k + 1]) /\ Range(t[k + 1]) = at(k) \cup {s[k + 1]}
      BY <2>2, <3>1, AppendFacts
    <3>3. at(k + 1) = at(k) \cup {s[k + 1]}
      BY <2>3, <2>4
    <3> QED
      BY <3>2, <3>3
  <2>5. CASE k + 1 \notin positions
    <3>1. t[k + 1] = t[k]
      BY <1>3, <2>1, <2>5, Zenon
    <3>2. at(k + 1) = at(k)
      BY <2>3, <2>5
    <3> QED
      BY <2>2, <3>1, <3>2
  <2> QED
    BY <2>4, <2>5
<1>6. n \in P
  <2> HIDE DEF P
  <2> QED
    BY <1>1, <1>4, <1>5, Induction
<1> QED
  BY <1>1, <1>2, <1>6

\* One row more is picked, or not.
LEMMA PickAppend ==
  ASSUME NEW S, NEW seq \in Seq(S), NEW x \in S, NEW positions
  PROVE  Pick(Append(seq, x), positions) =
           IF Len(seq) + 1 \in positions THEN Append(Pick(seq, positions), x)
           ELSE Pick(seq, positions)
<1> DEFINE n   == Len(seq)
           new == Append(seq, x)
<1>1. /\ n \in Nat
      /\ Len(new) = n + 1
      /\ new[n + 1] = x
      /\ \A i \in 1..n : new[i] = seq[i]
  OBVIOUS
<1> HIDE DEF n, new
<1>2. PICK f : IsTaken(f, seq, positions, n) /\ Pick(seq, positions) = f[n]
  BY <1>1, PickIsTaken DEF n
<1>3. PICK g : IsTaken(g, new, positions, n + 1) /\ Pick(new, positions) = g[n + 1]
  BY <1>1, PickIsTaken
<1>4. /\ f[0] = <<>>
      /\ \A k \in 0..(n - 1) :
           f[k + 1] = IF k + 1 \in positions THEN Append(f[k], seq[k + 1]) ELSE f[k]
  <2>1. Grows(f, seq, positions, n)
    BY <1>1, <1>2, TakenGrows
  <2> QED
    BY <2>1, Zenon DEF Grows
<1>5. /\ g[0] = <<>>
      /\ \A k \in 0..n :
           g[k + 1] = IF k + 1 \in positions THEN Append(g[k], new[k + 1]) ELSE g[k]
  <2>1. PICK m \in Nat : m = n + 1 /\ 0..(m - 1) = 0..n
    BY <1>1
  <2>2. Grows(g, new, positions, m)
    BY <2>1, <1>3, TakenGrows
  <2>3. \A k \in 0..(m - 1) :
           g[k + 1] = IF k + 1 \in positions THEN Append(g[k], new[k + 1]) ELSE g[k]
    BY <2>2, Zenon DEF Grows
  <2>4. g[0] = <<>>
    BY <2>2, Zenon DEF Grows
  <2> QED
    BY <2>1, <2>3, <2>4, Zenon
<1> DEFINE P == {k \in Nat : k <= n => f[k] = g[k]}
<1>6. 0 \in P
  BY <1>4, <1>5
<1>7. ASSUME NEW k \in Nat, k \in P
      PROVE  k + 1 \in P
  <2> SUFFICES ASSUME k + 1 <= n
               PROVE  f[k + 1] = g[k + 1]
    OBVIOUS
  <2>1. k \in 0..(n - 1) /\ k \in 0..n /\ k + 1 \in 1..n /\ k <= n
    BY <1>1
  <2>2. f[k] = g[k] /\ new[k + 1] = seq[k + 1]
    BY <2>1, <1>1, <1>7
  <2> QED
    BY <2>1, <2>2, <1>4, <1>5, Zenon
<1>8. n \in P
  <2> HIDE DEF P
  <2> QED
    BY <1>1, <1>6, <1>7, Induction
<1>9. g[n + 1] = IF n + 1 \in positions THEN Append(g[n], x) ELSE g[n]
  <2>1. n \in 0..n
    BY <1>1
  <2> QED
    BY <2>1, <1>1, <1>5, Zenon
<1> QED
  BY <1>1, <1>2, <1>3, <1>8, <1>9 DEF n, new

LEMMA PickNothing ==
  ASSUME NEW positions
  PROVE  Pick(<<>>, positions) = <<>>
<1>1. PICK t : IsTaken(t, <<>>, positions, 0) /\ Pick(<<>>, positions) = t[0]
  BY PickIsTaken, Len(<<>>) = 0
<1> QED
  BY <1>1 DEF IsTaken

\* Where RemoveFirst takes an element out.
LEMMA RemoveFirstShape ==
  ASSUME NEW s, IsList(s), NEW p, p \in Range(s)
  PROVE  \E i \in 1..Len(s) :
           /\ s[i] = p
           /\ RemoveFirst(s, p) \in Seq(Range(s))
           /\ Len(RemoveFirst(s, p)) = Len(s) - 1
           /\ \A k \in 1..(Len(s) - 1) :
                RemoveFirst(s, p)[k] = IF k < i THEN s[k] ELSE s[k + 1]
<1> DEFINE S == Range(s)
           I == {i \in 1..Len(s) : s[i] = p}
           x == Min(I)
           r == SubSeq(s, 1, x - 1) \o SubSeq(s, x + 1, Len(s))
<1>1. s \in Seq(S) /\ Len(s) \in Nat /\ DOMAIN s = 1..Len(s)
  BY DEF IsList
<1>2. I \subseteq Nat /\ I # {} /\ \E i \in 1..Len(s) : s[i] = p
  BY <1>1 DEF Range
<1>3. x \in I
  <2>1. \E m \in I : \A n \in I : m <= n
    <3> HIDE DEF I
    <3> QED
      BY <1>2, LeastNumber
  <2> QED
    BY <2>1, Zenon DEF Min
<1>4. RemoveFirst(s, p) = r
  <2>1. SelectInSeq(s, LAMBDA v : v = p) = x
    BY <1>2 DEF SelectInSeq
  <2>2. RemoveFirst(s, p) = RemoveAt(s, SelectInSeq(s, LAMBDA v : v = p))
    BY <1>2 DEF RemoveFirst
  <2> HIDE DEF x
  <2> QED
    BY <2>1, <2>2 DEF RemoveAt
<1>5. x \in 1..Len(s) /\ s[x] = p
  BY <1>3
<1> HIDE DEF x, S, I
<1>6. /\ r \in Seq(S)
      /\ Len(r) = Len(s) - 1
      /\ \A k \in 1..(Len(s) - 1) : r[k] = IF k < x THEN s[k] ELSE s[k + 1]
  <2> DEFINE a == SubSeq(s, 1, x - 1)
             b == SubSeq(s, x + 1, Len(s))
  <2>1. /\ a \in Seq(S) /\ Len(a) = x - 1
        /\ \A k \in 1..(x - 1) : a[k] = s[k]
    BY <1>1, <1>5
  <2>2. /\ b \in Seq(S) /\ Len(b) = Len(s) - x
        /\ \A k \in 1..(Len(s) - x) : b[k] = s[x + k]
    <3>1. /\ x + 1 \in 1..(Len(s) + 1)
          /\ Len(s) \in (x + 1 - 1)..Len(s)
          /\ Len(s) - (x + 1) + 1 = Len(s) - x
          /\ \A k \in 1..(Len(s) - x) : x + 1 + k - 1 = x + k
      BY <1>1, <1>5
    <3>2. /\ b \in Seq(S)
          /\ Len(b) = Len(s) - (x + 1) + 1
          /\ \A k \in 1..(Len(s) - (x + 1) + 1) : b[k] = s[x + 1 + k - 1]
      BY <3>1, <1>1, SubSeqProperties
    <3> QED
      BY <3>1, <3>2
  <2> HIDE DEF a, b
  <2>3. /\ a \o b \in Seq(S) /\ Len(a \o b) = Len(a) + Len(b)
        /\ \A k \in 1..Len(a) : (a \o b)[k] = a[k]
        /\ \A k \in 1..Len(b) : (a \o b)[Len(a) + k] = b[k]
    BY <2>1, <2>2
  <2>4. Len(a \o b) = Len(s) - 1
    BY <2>1, <2>2, <2>3, <1>1, <1>5
  <2>5. ASSUME NEW k \in 1..(Len(s) - 1)
        PROVE  (a \o b)[k] = IF k < x THEN s[k] ELSE s[k + 1]
    <3>1. CASE k < x
      <4>1. k \in 1..(x - 1) /\ k \in 1..Len(a)
        BY <3>1, <2>1, <1>1, <1>5
      <4> QED
        BY <3>1, <4>1, <2>1, <2>3
    <3>2. CASE ~ (k < x)
      <4>1. PICK j \in 1..Len(b) : k = Len(a) + j /\ x + j = k + 1
        <5>1. k - (x - 1) \in 1..(Len(s) - x) /\ k = (x - 1) + (k - (x - 1)) /\ x + (k - (x - 1)) = k + 1
          BY <3>2, <1>1, <1>5
        <5> QED
          BY <5>1, <2>1, <2>2
      <4>2. (a \o b)[k] = b[j] /\ b[j] = s[x + j]
        BY <4>1, <2>2, <2>3
      <4> QED
        BY <3>2, <4>1, <4>2
    <3> QED
      BY <3>1, <3>2
  <2> QED
    BY <2>3, <2>4, <2>5 DEF a, b
<1> HIDE DEF r
<1> QED
  BY <1>4, <1>5, <1>6 DEF S

\* Conversation.apply of a removal leaves a list, with nobody new on it; if
\* nobody is on it twice, the participant is gone and nobody else.
LEMMA RemoveFirstFacts ==
  ASSUME NEW s, IsList(s), NEW p
  PROVE  /\ IsList(RemoveFirst(s, p))
         /\ Range(RemoveFirst(s, p)) \subseteq Range(s)
         /\ IsInjective(s) => /\ IsInjective(RemoveFirst(s, p))
                              /\ Range(RemoveFirst(s, p)) = Range(s) \ {p}
<1> DEFINE r == RemoveFirst(s, p)
           n == Len(s)
<1>1. n \in Nat /\ DOMAIN s = 1..n
  BY DEF IsList
<1>2. CASE p \notin Range(s)
  <2>1. r = s
    BY <1>1, <1>2 DEF RemoveFirst, Range
  <2> HIDE DEF r
  <2> QED
    BY <1>2, <2>1 DEF r
<1>3. CASE p \in Range(s)
  <2>1. PICK i \in 1..n :
           /\ s[i] = p
           /\ r \in Seq(Range(s))
           /\ Len(r) = n - 1
           /\ \A k \in 1..(n - 1) : r[k] = IF k < i THEN s[k] ELSE s[k + 1]
    BY <1>3, RemoveFirstShape
  <2> HIDE DEF r, n
  <2>2. DOMAIN r = 1..(n - 1)
    BY <2>1
  <2>3. IsList(r)
    BY <2>1, SeqIsList
  <2>4. Range(r) \subseteq Range(s)
    BY <2>1, <2>2 DEF Range
  <2>5. ASSUME IsInjective(s)
        PROVE  IsInjective(r) /\ Range(r) = Range(s) \ {p}
    <3>1. \A a, b \in 1..n : s[a] = s[b] => a = b
      BY <1>1, <2>5 DEF IsInjective
    <3>2. IsInjective(r)
      <4> SUFFICES ASSUME NEW a \in 1..(n - 1), NEW b \in 1..(n - 1), r[a] = r[b]
                   PROVE  a = b
        BY <2>2 DEF IsInjective
      <4>1. /\ r[a] = IF a < i THEN s[a] ELSE s[a + 1]
            /\ r[b] = IF b < i THEN s[b] ELSE s[b + 1]
        BY <2>1
      <4>2. a \in 1..n /\ b \in 1..n /\ a + 1 \in 1..n /\ b + 1 \in 1..n
        BY <1>1
      <4>3. CASE a < i
        <5>1. s[a] = s[b] \/ (s[a] = s[b + 1] /\ ~ (b < i))
          BY <4>1, <4>3
        <5> QED
          BY <1>1, <3>1, <4>2, <4>3, <5>1
      <4>4. CASE ~ (a < i)
        <5>1. s[a + 1] = s[b + 1] \/ (s[a + 1] = s[b] /\ b < i)
          BY <4>1, <4>4
        <5>2. a + 1 = b + 1 \/ (a + 1 = b /\ b < i)
          BY <3>1, <4>2, <5>1
        <5> QED
          BY <1>1, <4>4, <5>2
      <4> QED
        BY <4>3, <4>4
    <3>3. p \notin Range(r)
      <4> SUFFICES ASSUME NEW a \in 1..(n - 1), r[a] = p
                   PROVE  FALSE
        BY <2>2 DEF Range
      <4>1. r[a] = IF a < i THEN s[a] ELSE s[a + 1]
        BY <2>1
      <4>2. a \in 1..n /\ a + 1 \in 1..n
        BY <1>1
      <4> QED
        BY <2>1, <3>1, <4>1, <4>2
    <3>4. ASSUME NEW q \in Range(s), q # p
          PROVE  q \in Range(r)
      <4>1. PICK a \in 1..n : s[a] = q
        BY <1>1 DEF Range
      <4>2. a # i
        BY <2>1, <3>4, <4>1
      <4>3. CASE a < i
        <5>1. a \in 1..(n - 1) /\ r[a] = q
          BY <1>1, <2>1, <4>1, <4>3
        <5> QED
          BY <2>2, <5>1 DEF Range
      <4>4. CASE a > i
        <5>1. a - 1 \in 1..(n - 1) /\ ~ (a - 1 < i) /\ a - 1 + 1 = a
          BY <1>1, <4>4
        <5>2. r[a - 1] = s[a - 1 + 1]
          BY <2>1, <5>1
        <5>3. r[a - 1] = q
          BY <4>1, <5>1, <5>2
        <5> QED
          BY <2>2, <5>1, <5>3 DEF Range
      <4> QED
        BY <4>2, <4>3, <4>4, <1>1
    <3> QED
      BY <2>4, <3>2, <3>3, <3>4
  <2> QED
    BY <2>3, <2>4, <2>5 DEF r
<1> QED
  BY <1>2, <1>3

\* A participant who is not there yet leaves a list without repetitions.
LEMMA AppendKeepsInjective ==
  ASSUME NEW s, IsList(s), IsInjective(s), NEW x, x \notin Range(s)
  PROVE  IsInjective(Append(s, x))
<1> DEFINE long == Append(s, x)
<1>1. s \in Seq(Range(s) \cup {x}) /\ x \in Range(s) \cup {x}
  BY DEF IsList
<1>2. \A i \in DOMAIN s : s[i] # x
    BY DEF Range
<1>3. /\ Len(s) \in Nat
      /\ DOMAIN s = 1..Len(s)
      /\ DOMAIN long = 1..(Len(s) + 1)
      /\ long[Len(s) + 1] = x
      /\ \A i \in 1..Len(s) : long[i] = s[i] /\ s[i] # x
    BY <1>1, <1>2
<1>4. \A i \in 1..(Len(s) + 1) : i \in 1..Len(s) \/ i = Len(s) + 1
  BY <1>3
<1> HIDE DEF long
<1>5. ASSUME NEW i \in DOMAIN long, NEW j \in DOMAIN long, long[i] = long[j]
      PROVE  i = j
  BY <1>3, <1>4, <1>5 DEF IsInjective
<1>6. IsInjective(long)
  BY <1>5 DEF IsInjective
<1> QED
  BY <1>6 DEF long

-----------------------------------------------------------------------------
(***************************************************************************)
(* Decisions.                                                              *)
(***************************************************************************)

\* A list of one to three events.
IsBatch(batch) == /\ Len(batch) \in 1..3
                  /\ DOMAIN batch = 1..Len(batch)

\* An outcome appends a batch, or nothing.
Fits(outcome) == outcome.status = "append" => IsBatch(outcome.batch)

\* Refusals and no-ops append nothing.
LEMMA AnswerFits ==
  ASSUME NEW code, code # "append"
  PROVE  Fits(Answer(code))
BY DEF Fits, Answer

\* One event is a batch.
LEMMA OneFits ==
  ASSUME NEW e
  PROVE  Fits(ToAppend(<<e>>))
BY DEF Fits, ToAppend, IsBatch

\* domain.StartConversation raises three events or none.
LEMMA StartFits ==
  ASSUME NEW cmd, NEW id
  PROVE  Fits(StartConversation(cmd, id))
<1>1. StartConversation(cmd, id)
        \in {Answer("400"), ToAppend(<<ConversationCreated(id)>> \o NewThread(cmd, id, id))}
  BY DEF StartConversation
<1>2. IsBatch(<<ConversationCreated(id)>> \o NewThread(cmd, id, id))
  BY DEF NewThread, IsBatch
<1>3. Fits(ToAppend(<<ConversationCreated(id)>> \o NewThread(cmd, id, id)))
  BY <1>2 DEF ToAppend, Fits
<1> QED
  BY <1>1, <1>3, AnswerFits

\* domain.AddThread raises two events or none.
LEMMA AddThreadFits ==
  ASSUME NEW cmd, NEW id, NEW exists \in BOOLEAN
  PROVE  Fits(AddThread(cmd, id, exists))
<1>1. AddThread(cmd, id, exists)
        \in {Answer("400"), Answer("404"), ToAppend(NewThread(cmd, cmd.conversation, id))}
  BY DEF AddThread
<1>2. IsBatch(NewThread(cmd, cmd.conversation, id))
  BY DEF NewThread, IsBatch
<1>3. Fits(ToAppend(NewThread(cmd, cmd.conversation, id)))
  BY <1>2 DEF ToAppend, Fits
<1> QED
  BY <1>1, <1>3, AnswerFits

\* A reply is one event.
LEMMA ReplyFits ==
  ASSUME NEW cmd, NEW threads
  PROVE  Fits(ReplyToThread(cmd, threads))
<1>1. AuthorizeReply(threads, cmd) \in {"404", "403", "ok"}
  BY DEF AuthorizeReply
<1>2. ReplyToThread(cmd, threads)
        \in {Answer("400"), Answer("403"), Answer("404"),
             ToAppend(<<MessagePosted(cmd.conversation, cmd.thread, cmd.author)>>)}
  BY <1>1 DEF ReplyToThread
<1> QED
  BY <1>2, AnswerFits, OneFits

\* A membership change is one event.
LEMMA ParticipantFits ==
  ASSUME NEW cmd, NEW records
  PROVE  Fits(ManageThreadParticipant(cmd, records))
<1> DEFINE conv == RehydrateConversation(records)
<1> HIDE DEF conv
<1>1. AddParticipant(conv, cmd)
        \in {Answer("404"), Answer("204"),
             ToAppend(<<ParticipantAdded(conv.id, cmd.thread, cmd.participant)>>)}
  BY DEF AddParticipant
<1>2. RemoveParticipant(conv, cmd)
        \in {Answer("404"), Answer("204"),
             ToAppend(<<ParticipantRemoved(conv.id, cmd.thread, cmd.participant)>>)}
  BY DEF RemoveParticipant
<1>3. ManageThreadParticipant(cmd, records)
        \in {Answer("400"), Answer("404"), AddParticipant(conv, cmd), RemoveParticipant(conv, cmd)}
  BY DEF ManageThreadParticipant, conv
<1> QED
  BY <1>1, <1>2, <1>3, AnswerFits, OneFits
=============================================================================
