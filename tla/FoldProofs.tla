----------------------------- MODULE FoldProofs -----------------------------
(***************************************************************************)
(* What FoldLeft of the community module SequencesExt computes, for any    *)
(* operator Op.  The modules that prove something about a fold instantiate *)
(* this one with their own step.                                           *)
(***************************************************************************)
EXTENDS OperatorProofs

CONSTANT Op(_, _)

Fold(base, seq) == FoldLeft(Op, base, seq)

-----------------------------------------------------------------------------
\* Max is what its name says on a set of positions.
LEMMA MaxOfPositions ==
  ASSUME NEW n \in Nat, NEW s, s \subseteq 1..n, s # {}
  PROVE  Max(s) \in s /\ \A i \in s : i <= Max(s)
<1> DEFINE T == {n - i : i \in s}
<1>1. T \subseteq Nat /\ T # {}
  <2>1. \A i \in s : n - i \in Nat
    OBVIOUS
  <2> QED
    BY <2>1
<1>2. PICK m \in T : \A t \in T : m <= t
  <2> HIDE DEF T
  <2> QED
    BY <1>1, LeastNumber
<1>3. PICK x \in s : m = n - x
  OBVIOUS
<1>4. \A i \in s : x >= i
  <2> SUFFICES ASSUME NEW i \in s
               PROVE  x >= i
    OBVIOUS
  <2>1. n - i \in T
    OBVIOUS
  <2>2. n - x <= n - i
    BY <2>1, <1>2, <1>3
  <2>3. i \in Int /\ x \in Int
    OBVIOUS
  <2> QED
    BY <2>2, <2>3
<1>5. \E y \in s : \A i \in s : y >= i
  BY <1>4
<1>6. Max(s) \in s /\ \A i \in s : Max(s) >= i
  BY <1>5 DEF Max
<1> QED
  BY <1>6

\* iter is the auxiliary function of the fold over the first m elements.
IsIter(iter, base, seq, m) ==
  iter = [s \in SUBSET (1..m) |->
            IF s = {} THEN base ELSE Op(iter[s \ {Max(s)}], seq[Max(s)])]

\* There is one.
LEMMA IterExists ==
  ASSUME NEW base, NEW seq, NEW n \in Nat
  PROVE  \E iter : IsIter(iter, base, seq, n)
<1> DEFINE P == {m \in Nat : \E iter : IsIter(iter, base, seq, m)}
<1>1. 0 \in P
  <2> DEFINE iter == [s \in SUBSET (1..0) |-> base]
  <2>1. \A s \in SUBSET (1..0) : s = {}
    OBVIOUS
  <2>2. iter = [s \in SUBSET (1..0) |->
            IF s = {} THEN base ELSE Op(iter[s \ {Max(s)}], seq[Max(s)])]
    BY <2>1
  <2> QED
    BY <2>2 DEF IsIter
<1>2. ASSUME NEW m \in Nat, m \in P
      PROVE  m + 1 \in P
  <2>1. PICK g : IsIter(g, base, seq, m)
    BY <1>2
  <2> DEFINE h == [s \in SUBSET (1..(m + 1)) |->
                     IF m + 1 \in s THEN Op(g[s \ {m + 1}], seq[m + 1]) ELSE g[s]]
  <2>2. ASSUME NEW s \in SUBSET (1..(m + 1))
        PROVE  h[s] = IF s = {} THEN base ELSE Op(h[s \ {Max(s)}], seq[Max(s)])
    <3>1. CASE m + 1 \in s
      <4>1. Max(s) \in s /\ \A i \in s : i <= Max(s)
        BY <3>1, MaxOfPositions, m + 1 \in Nat
      <4>2. Max(s) = m + 1
        <5>1. Max(s) \in 1..(m + 1) /\ m + 1 <= Max(s)
          BY <3>1, <4>1
        <5> QED
          BY <5>1
      <4>3. s \ {m + 1} \in SUBSET (1..(m + 1)) /\ m + 1 \notin s \ {m + 1}
        OBVIOUS
      <4>4. h[s \ {m + 1}] = g[s \ {m + 1}]
        BY <4>3
      <4>5. h[s] = Op(g[s \ {m + 1}], seq[m + 1])
        BY <3>1
      <4> QED
        BY <3>1, <4>2, <4>4, <4>5
    <3>2. CASE m + 1 \notin s
      <4>1. s \in SUBSET (1..m)
        BY <3>2
      <4>2. h[s] = g[s]
        BY <3>2
      <4>3. g[s] = IF s = {} THEN base ELSE Op(g[s \ {Max(s)}], seq[Max(s)])
        BY <2>1, <4>1 DEF IsIter
      <4>4. s \ {Max(s)} \in SUBSET (1..(m + 1)) /\ m + 1 \notin s \ {Max(s)}
        BY <3>2
      <4>5. h[s \ {Max(s)}] = g[s \ {Max(s)}]
        BY <4>4
      <4> QED
        BY <4>2, <4>3, <4>5
    <3> QED
      BY <3>1, <3>2
  <2>3. h = [s \in SUBSET (1..(m + 1)) |->
               IF s = {} THEN base ELSE Op(h[s \ {Max(s)}], seq[Max(s)])]
    BY <2>2
  <2>4. IsIter(h, base, seq, m + 1)
    BY <2>3 DEF IsIter
  <2> QED
    BY <2>4
<1> HIDE DEF P
<1>3. Nat \subseteq P
  BY <1>1, <1>2, Induction
<1> QED
  BY <1>3 DEF P

\* The fold is its auxiliary function at all the positions.
LEMMA FoldIsIter ==
  ASSUME NEW base, NEW seq, DOMAIN seq = 1..Len(seq), Len(seq) \in Nat
  PROVE  \E iter : IsIter(iter, base, seq, Len(seq)) /\ Fold(base, seq) = iter[1..Len(seq)]
<1> DEFINE it == CHOOSE iter : IsIter(iter, base, seq, Len(seq))
<1>1. IsIter(it, base, seq, Len(seq))
  BY IterExists
<1>2. Fold(base, seq) = it[1..Len(seq)]
  BY DEF Fold, FoldLeft, MapThenFoldSet, IsIter
<1> QED
  BY <1>1, <1>2

\* Taking the last position away from the first k + 1 leaves the first k.
StepsThrough(iter, base, seq, n) ==
  /\ iter[1..0] = base
  /\ \A k \in 0..(n - 1) : iter[1..(k + 1)] = Op(iter[1..k], seq[k + 1])

LEMMA PrefixIter ==
  ASSUME NEW base, NEW seq, NEW n \in Nat, NEW iter, IsIter(iter, base, seq, n)
  PROVE  StepsThrough(iter, base, seq, n)
<1>1. iter[1..0] = base
  <2>1. 1..0 = {} /\ {} \in SUBSET (1..n)
    OBVIOUS
  <2>2. iter[{}] = base
    BY <2>1 DEF IsIter
  <2> QED
    BY <2>1, <2>2
<1>2. ASSUME NEW k \in 0..(n - 1)
      PROVE  iter[1..(k + 1)] = Op(iter[1..k], seq[k + 1])
  <2> DEFINE s == 1..(k + 1)
  <2>1. s \in SUBSET (1..n) /\ s # {} /\ k + 1 \in s /\ k + 1 \in Nat
    OBVIOUS
  <2>2. Max(s) \in s /\ \A i \in s : i <= Max(s)
    BY <2>1, MaxOfPositions
  <2>3. Max(s) = k + 1
    BY <2>1, <2>2
  <2>4. s \ {k + 1} = 1..k
    OBVIOUS
  <2>5. iter[s] = Op(iter[s \ {Max(s)}], seq[Max(s)])
    BY <2>1 DEF IsIter
  <2> HIDE DEF s
  <2> QED
    BY <2>3, <2>4, <2>5 DEF s
<1> QED
  BY <1>1, <1>2, Zenon DEF StepsThrough

-----------------------------------------------------------------------------
\* A fold over no element gives the base.
THEOREM FoldEmpty ==
  ASSUME NEW base
  PROVE  Fold(base, <<>>) = base
<1>1. DOMAIN <<>> = 1..Len(<<>>) /\ Len(<<>>) = 0
  OBVIOUS
<1>2. PICK iter : IsIter(iter, base, <<>>, 0) /\ Fold(base, <<>>) = iter[1..0]
  BY <1>1, FoldIsIter
<1> QED
  BY <1>2, PrefixIter DEF StepsThrough

\* A fold over one element more is one step more.
THEOREM FoldAppend ==
  ASSUME NEW base, NEW S, NEW seq \in Seq(S), NEW x \in S
  PROVE  Fold(base, Append(seq, x)) = Op(Fold(base, seq), x)
<1> DEFINE n == Len(seq)
           new == Append(seq, x)
<1>1. /\ n \in Nat
      /\ DOMAIN seq = 1..n
      /\ Len(new) = n + 1
      /\ DOMAIN new = 1..(n + 1)
      /\ new[n + 1] = x
      /\ \A i \in 1..n : new[i] = seq[i]
  OBVIOUS
<1> HIDE DEF n, new
<1>2. PICK f : IsIter(f, base, seq, n) /\ Fold(base, seq) = f[1..n]
  BY <1>1, FoldIsIter DEF n
<1>3. PICK g : IsIter(g, base, new, n + 1) /\ Fold(base, new) = g[1..(n + 1)]
  BY <1>1, FoldIsIter
<1>4. /\ f[1..0] = base
      /\ \A k \in 0..(n - 1) : f[1..(k + 1)] = Op(f[1..k], seq[k + 1])
  <2>1. StepsThrough(f, base, seq, n)
    BY <1>1, <1>2, PrefixIter
  <2> QED
    BY <2>1, Zenon DEF StepsThrough
<1>5. /\ g[1..0] = base
      /\ \A k \in 0..n : g[1..(k + 1)] = Op(g[1..k], new[k + 1])
  <2>1. PICK m \in Nat : m = n + 1 /\ 0..(m - 1) = 0..n
    BY <1>1
  <2>2. StepsThrough(g, base, new, m)
    BY <2>1, <1>3, PrefixIter
  <2>3. \A k \in 0..(m - 1) : g[1..(k + 1)] = Op(g[1..k], new[k + 1])
    BY <2>2, Zenon DEF StepsThrough
  <2>4. g[1..0] = base
    BY <2>2, Zenon DEF StepsThrough
  <2> QED
    BY <2>1, <2>3, <2>4, Zenon
<1> DEFINE P == {k \in Nat : k <= n => f[1..k] = g[1..k]}
<1>6. 0 \in P
  BY <1>4, <1>5
<1>7. ASSUME NEW k \in Nat, k \in P
      PROVE  k + 1 \in P
  <2> SUFFICES ASSUME k + 1 <= n
               PROVE  f[1..(k + 1)] = g[1..(k + 1)]
    OBVIOUS
  <2>1. k \in 0..(n - 1) /\ k \in 0..n /\ k + 1 \in 1..n /\ k <= n
    BY <1>1
  <2> QED
    BY <2>1, <1>1, <1>4, <1>5, <1>7
<1>8. n \in P
  <2> HIDE DEF P
  <2> QED
    BY <1>1, <1>6, <1>7, Induction
<1>9. g[1..(n + 1)] = Op(g[1..n], new[n + 1])
  BY <1>1, <1>5
<1> QED
  BY <1>1, <1>2, <1>3, <1>8, <1>9 DEF n, new
\* The results of a fold after each element.
THEOREM FoldTrace ==
  ASSUME NEW base, NEW seq, DOMAIN seq = 1..Len(seq), Len(seq) \in Nat
  PROVE  \E trace : /\ trace[0] = base
                    /\ \A k \in 0..(Len(seq) - 1) : trace[k + 1] = Op(trace[k], seq[k + 1])
                    /\ Fold(base, seq) = trace[Len(seq)]
<1> DEFINE n == Len(seq)
<1>1. PICK iter : IsIter(iter, base, seq, n) /\ Fold(base, seq) = iter[1..n]
  BY FoldIsIter
<1>2. StepsThrough(iter, base, seq, n)
  BY <1>1, PrefixIter
<1> DEFINE trace == [k \in 0..n |-> iter[1..k]]
<1>3. trace[0] = base
  BY <1>2 DEF StepsThrough
<1>4. ASSUME NEW k \in 0..(n - 1)
      PROVE  trace[k + 1] = Op(trace[k], seq[k + 1])
  <2>1. k \in 0..n /\ k + 1 \in 0..n
    OBVIOUS
  <2>2. trace[k] = iter[1..k] /\ trace[k + 1] = iter[1..(k + 1)]
    BY <2>1
  <2> QED
    BY <1>2, <2>2, Zenon DEF StepsThrough
<1>5. Fold(base, seq) = trace[n]
  BY <1>1
<1> QED
  BY <1>3, <1>4, <1>5, Zenon

=============================================================================
