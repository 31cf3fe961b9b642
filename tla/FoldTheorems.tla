---------------------------- MODULE FoldTheorems ----------------------------
(***************************************************************************)
(* What a fold of SequencesExt computes, for the folds that the modules of *)
(* this project are built from.  The library defines FoldLeft through a    *)
(* recursive function on the sets of indices; here it is shown to have     *)
(* steps, one for each element, and from there on an invariant of the steps *)
(* is one of the result.  Op is the operator that is folded: a module of   *)
(* proofs takes an instance of this one for each operator.                 *)
(***************************************************************************)
EXTENDS Integers, Sequences, SequencesExt, WellFoundedInduction, TLAPS

CONSTANT Op(_, _)

\* Induction over the natural numbers, for a set of them: the induction theorems of the
\* library take a predicate, this one needs none.
LEMMA SetInduction ==
  ASSUME NEW T, 0 \in T, \A n \in Nat : n \in T => n + 1 \in T
  PROVE  Nat \subseteq T
<1> SUFFICES ASSUME NEW m \in Nat \ T PROVE FALSE
  OBVIOUS
<1>1. IsWellFoundedOn(OpToRel(<, Nat), Nat)
  BY NatLessThanWellFounded
<1>2. PICK x \in Nat \ T : \A y \in Nat \ T : ~(<<y, x>> \in OpToRel(<, Nat))
  BY <1>1, WFMin
<1>3. \A y \in Nat \ T : ~(y < x)
  BY <1>2 DEF OpToRel
<1>4. x # 0 /\ x - 1 \in Nat /\ x - 1 < x
  OBVIOUS
<1>5. x - 1 \in T
  BY <1>3, <1>4
<1> QED BY <1>4, <1>5

\* The greatest of the indices up to k + 1, when k + 1 is one of them.
LEMMA MaxOf ==
  ASSUME NEW k \in Nat, NEW s \in SUBSET (1 .. k + 1), k + 1 \in s
  PROVE  Max(s) = k + 1
<1>1. \A x \in s : x \in Int /\ k + 1 >= x
  OBVIOUS
<1>2. \A x \in s : x >= k + 1 => x = k + 1
  BY <1>1
<1> QED BY <1>1, <1>2 DEF Max

\* The function on sets of indices through which FoldLeft is defined.
IsIter(g, base, seq, k) ==
  g = [s \in SUBSET (1 .. k) |->
         IF s = {} THEN base ELSE LET x == Max(s) IN Op(g[s \ {x}], seq[x])]

\* There is such a function, so that the CHOOSE in the definition picks one.
LEMMA IterExists ==
  ASSUME NEW base, NEW seq, NEW n \in Nat
  PROVE  \E g : IsIter(g, base, seq, n)
<1> DEFINE T == {k \in Nat : \E g : IsIter(g, base, seq, k)}
<1>1. 0 \in T
  <2> DEFINE g == [s \in SUBSET (1 .. 0) |-> base]
  <2>1. 1 .. 0 = {} /\ \A s \in SUBSET (1 .. 0) : s = {}
    OBVIOUS
  <2>2. IsIter(g, base, seq, 0)
    BY <2>1 DEF IsIter
  <2> QED BY <2>2
<1>2. ASSUME NEW k \in Nat, k \in T PROVE k + 1 \in T
  <2>1. PICK g : IsIter(g, base, seq, k)
    BY <1>2
  <2> DEFINE h == [s \in SUBSET (1 .. k + 1) |->
                     IF k + 1 \in s THEN Op(g[s \ {k + 1}], seq[k + 1]) ELSE g[s]]
  <2>2. ASSUME NEW s \in SUBSET (1 .. k + 1)
        PROVE  h[s] = IF s = {} THEN base ELSE Op(h[s \ {Max(s)}], seq[Max(s)])
    <3>1. CASE k + 1 \in s
      <4>1. Max(s) = k + 1
        BY <3>1, MaxOf
      <4>2. s \ {k + 1} \in SUBSET (1 .. k) /\ s \ {k + 1} \in SUBSET (1 .. k + 1) /\ s # {}
        BY <3>1
      <4>3. h[s \ {k + 1}] = g[s \ {k + 1}]
        BY <4>2
      <4> QED BY <3>1, <4>1, <4>2, <4>3
    <3>2. CASE k + 1 \notin s
      <4>1. s \in SUBSET (1 .. k)
        BY <3>2
      <4>2. g[s] = IF s = {} THEN base ELSE Op(g[s \ {Max(s)}], seq[Max(s)])
        BY <2>1, <4>1 DEF IsIter
      <4>3. h[s] = g[s] /\ h[s \ {Max(s)}] = g[s \ {Max(s)}]
        BY <3>2
      <4> QED BY <4>2, <4>3
    <3> QED BY <3>1, <3>2
  <2>3. IsIter(h, base, seq, k + 1)
    BY <2>2 DEF IsIter
  <2> QED BY <2>3
<1> HIDE DEF T
<1>3. Nat \subseteq T
  BY <1>1, <1>2, SetInduction
<1> QED BY <1>3 DEF T

Folded(base, seq) == FoldLeft(Op, base, seq)

\* The fold is its value for all of the indices.
LEMMA FoldIsIter ==
  ASSUME NEW base, NEW S, NEW seq \in Seq(S)
  PROVE  \E g : IsIter(g, base, seq, Len(seq)) /\ Folded(base, seq) = g[1 .. Len(seq)]
<1>1. DOMAIN seq = 1 .. Len(seq)
  OBVIOUS
<1> DEFINE iter == CHOOSE g : IsIter(g, base, seq, Len(seq))
<1>2. IsIter(iter, base, seq, Len(seq))
  BY IterExists
<1>3. Folded(base, seq) = iter[1 .. Len(seq)]
  BY <1>1 DEF Folded, FoldLeft, MapThenFoldSet, IsIter
<1> QED BY <1>2, <1>3

\* A fold (FoldLeft) goes from the base through one step for each element, in order.
THEOREM FoldSteps ==
  ASSUME NEW base, NEW S, NEW seq \in Seq(S)
  PROVE  \E acc : /\ acc = [k \in 0 .. Len(seq) |-> acc[k]] /\ acc[0] = base
                  /\ \A k \in 1 .. Len(seq) : acc[k] = Op(acc[k - 1], seq[k])
                  /\ Folded(base, seq) = acc[Len(seq)]
<1>1. PICK g : IsIter(g, base, seq, Len(seq)) /\ Folded(base, seq) = g[1 .. Len(seq)]
  BY FoldIsIter
<1> DEFINE acc == [k \in 0 .. Len(seq) |-> g[1 .. k]]
<1>2. acc[0] = base
  <2>1. 1 .. 0 = {}
    OBVIOUS
  <2> QED BY <1>1, <2>1 DEF IsIter
<1>3. ASSUME NEW k \in 1 .. Len(seq) PROVE acc[k] = Op(acc[k - 1], seq[k])
  <2>1. k - 1 \in Nat /\ k = (k - 1) + 1 /\ 1 .. k \in SUBSET (1 .. Len(seq)) /\ k \in 1 .. k
    OBVIOUS
  <2>2. Max(1 .. k) = k
    <3> DEFINE j == k - 1
    <3>1. j \in Nat /\ j + 1 = k
      BY <2>1
    <3>2. 1 .. j + 1 \in SUBSET (1 .. j + 1) /\ j + 1 \in 1 .. j + 1
      BY <3>1
    <3> HIDE DEF j
    <3>3. Max(1 .. j + 1) = j + 1
      BY <3>1, <3>2, MaxOf
    <3> QED BY <3>1, <3>3
  <2>3. (1 .. k) \ {k} = 1 .. k - 1 /\ 1 .. k # {}
    <3>1. k \in Int /\ k >= 1
      OBVIOUS
    <3> HIDE DEF acc
    <3>2. \A x : x \in (1 .. k) \ {k} <=> x \in 1 .. k - 1
      BY ONLY <3>1, SMT
    <3> QED BY <2>1, <3>2
  <2>4. g[1 .. k] = Op(g[(1 .. k) \ {k}], seq[k])
    <3>1. \A s \in SUBSET (1 .. Len(seq)) :
            g[s] = IF s = {} THEN base ELSE Op(g[s \ {Max(s)}], seq[Max(s)])
      BY <1>1 DEF IsIter
    <3> QED BY <3>1, <2>1, <2>2, <2>3
  <2>5. k \in 0 .. Len(seq) /\ k - 1 \in 0 .. Len(seq)
    BY <2>1
  <2>6. acc[k] = g[1 .. k] /\ acc[k - 1] = g[1 .. k - 1]
    BY <2>5
  <2> QED BY <2>3, <2>4, <2>6
<1> QED BY <1>1, <1>2, <1>3

\* What holds of the base, and is kept by every step, holds of the fold: Good[k] are the
\* values that are good after k elements.
THEOREM FoldStaysGood ==
  ASSUME NEW base, NEW S, NEW seq \in Seq(S), NEW Good, base \in Good[0],
         \A k \in 1 .. Len(seq) : \A a \in Good[k - 1] : Op(a, seq[k]) \in Good[k]
  PROVE  Folded(base, seq) \in Good[Len(seq)]
<1>1. PICK acc : /\ acc[0] = base
                 /\ \A k \in 1 .. Len(seq) : acc[k] = Op(acc[k - 1], seq[k])
                 /\ Folded(base, seq) = acc[Len(seq)]
  BY FoldSteps
<1> DEFINE T == {k \in Nat : k \in 0 .. Len(seq) => acc[k] \in Good[k]}
<1>2. 0 \in T
  BY <1>1
<1>3. ASSUME NEW n \in Nat, n \in T PROVE n + 1 \in T
  <2> SUFFICES ASSUME n + 1 \in 0 .. Len(seq) PROVE acc[n + 1] \in Good[n + 1]
    OBVIOUS
  <2>1. n + 1 \in 1 .. Len(seq) /\ (n + 1) - 1 = n /\ n \in 0 .. Len(seq)
    OBVIOUS
  <2>2. acc[n] \in Good[n]
    BY <1>3, <2>1
  <2>3. acc[n + 1] = Op(acc[n], seq[n + 1])
    BY <1>1, <2>1
  <2>4. Op(acc[n], seq[n + 1]) \in Good[n + 1]
    BY <2>1, <2>2
  <2> QED BY <2>3, <2>4
<1> HIDE DEF T
<1>4. Len(seq) \in T
  BY <1>2, <1>3, SetInduction
<1> QED BY <1>1, <1>4 DEF T
=============================================================================
