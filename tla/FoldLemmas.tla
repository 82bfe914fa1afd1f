----------------------------- MODULE FoldLemmas -----------------------------
(***************************************************************************)
(* Induction over numbers and over the elements of a sequence, in the form *)
(* the proofs about parsers and escaping use it: a fold over a sequence of *)
(* N elements goes through N + 1 values, each of which comes from the one  *)
(* before by one application of the function that is folded.               *)
(***************************************************************************)
EXTENDS Integers, SequencesExt, FiniteSetTheorems, WellFoundedInduction, TLAPS

(* Induction, for the set of the numbers that have a property. *)
LEMMA UpTo ==
    ASSUME NEW N \in Nat, NEW P \in SUBSET (0 .. N), 0 \in P,
           \A n \in 1 .. N : n - 1 \in P => n \in P
    PROVE  \A n \in 0 .. N : n \in P
<1>. DEFINE R == OpToRel(<, Nat)
<1>. DEFINE T == (0 .. N) \ P
<1>1. ASSUME T # {}
      PROVE  FALSE
  <2>1. IsWellFoundedOn(R, Nat)
    BY NatLessThanWellFounded
  <2>2. T \subseteq Nat
    OBVIOUS
  <2>3. \E x \in T : \A y \in T : ~(<<y, x>> \in R)
    <3>. HIDE DEF R, T
    <3> QED
      BY <1>1, <2>1, <2>2, WFMin
  <2>4. PICK x \in T : \A y \in T : ~(y < x)
    <3>1. \A x, y \in T : y < x => <<y, x>> \in R
      BY DEF OpToRel
    <3>. HIDE DEF R, T
    <3> QED
      BY <2>3, <3>1
  <2>5. x \in 1 .. N /\ x - 1 \in 0 .. N /\ x - 1 < x
    OBVIOUS
  <2>6. x - 1 \in P
    BY <2>4, <2>5
  <2> QED
    BY <2>5, <2>6
<1> QED
  BY <1>1

LEMMA MaxTo ==
    ASSUME NEW n \in Nat, n > 0
    PROVE  Max(1 .. n) = n /\ (1 .. n) \ {n} = 1 .. (n - 1)
BY DEF Max

LEMMA MaxIn ==
    ASSUME NEW N \in Nat, NEW t \in SUBSET (1 .. N), t # {}
    PROVE  /\ Max(t) \in t /\ \A i \in t : i <= Max(t)
           /\ t \ {Max(t)} \in SUBSET (1 .. N)
<1>. DEFINE R == OpToRel(<, Nat)
<1>. DEFINE T == {N - i : i \in t}
<1>1. IsWellFoundedOn(R, Nat)
  BY NatLessThanWellFounded
<1>2. T \subseteq Nat /\ T # {}
  OBVIOUS
<1>3. \E x \in T : \A y \in T : ~(<<y, x>> \in R)
  <2>. HIDE DEF R, T
  <2> QED
    BY <1>1, <1>2, WFMin
<1>4. PICK x \in T : \A y \in T : ~(y < x)
  BY <1>2, <1>3 DEF OpToRel
<1>5. PICK m \in t : x = N - m
  OBVIOUS
<1>6. ASSUME NEW i \in t
      PROVE  i <= m
  <2>1. N - i \in T /\ i \in Int /\ m \in Int
    OBVIOUS
  <2>2. ~(N - i < N - m)
    BY <1>4, <1>5, <2>1
  <2> QED
    BY <2>1, <2>2
<1>7. Max(t) \in t /\ \A i \in t : Max(t) >= i
  BY <1>6 DEF Max
<1> QED
  BY <1>7

LEMMA MinIn ==
    ASSUME NEW t \in SUBSET Nat, t # {}
    PROVE  Min(t) \in t /\ \A i \in t : Min(t) <= i
<1>. DEFINE R == OpToRel(<, Nat)
<1>1. IsWellFoundedOn(R, Nat)
  BY NatLessThanWellFounded
<1>2. \E x \in t : \A y \in t : ~(<<y, x>> \in R)
  <2>. HIDE DEF R
  <2> QED
    BY <1>1, WFMin
<1>3. PICK x \in t : \A y \in t : ~(y < x)
  BY <1>2 DEF OpToRel
<1>4. \A y \in t : x <= y
  BY <1>3
<1> QED
  BY <1>4 DEF Min

(* g folds h over the numbers of each subset of 1 .. N, in their order;    *)
(* iter does wherever its values are in S; F for the numbers up to n, to   *)
(* last for all of them.                                                   *)
FoldsSets(g, S, N, base, h) ==
    /\ g \in [SUBSET (1 .. N) -> S]
    /\ g = [t \in SUBSET (1 .. N) |->
              IF t = {} THEN base ELSE h[<<g[t \ {Max(t)}], Max(t)>>]]
FoldsWithin(iter, S, N, base, h) ==
    /\ iter[{}] = base
    /\ \A t \in SUBSET (1 .. N) :
          t # {} /\ iter[t \ {Max(t)}] \in S => iter[t] = h[<<iter[t \ {Max(t)}], Max(t)>>]
FoldsUpTo(F, last, S, N, base, h) ==
    /\ F \in [0 .. N -> S]
    /\ F[0] = base /\ F[N] = last
    /\ \A n \in 1 .. N : F[n] = h[<<F[n - 1], n>>]

(* There is a function that folds h over the numbers of each set. *)
LEMMA FoldExists ==
    ASSUME NEW S, NEW N \in Nat, NEW base \in S, NEW h \in [S \X (1 .. N) -> S]
    PROVE  \E g : FoldsSets(g, S, N, base, h)
<1>. DEFINE Folds(n, g) ==
              /\ g \in [SUBSET (1 .. n) -> S]
              /\ g[{}] = base
              /\ \A t \in SUBSET (1 .. n) :
                    t # {} => g[t] = h[<<g[t \ {Max(t)}], Max(t)>>]
<1>. DEFINE P == {n \in 0 .. N : \E g : Folds(n, g)}
<1>1. 0 \in P
  <2>. DEFINE g == [t \in SUBSET (1 .. 0) |-> base]
  <2>1. 1 .. 0 = {}
    OBVIOUS
  <2>2. Folds(0, g)
    BY <2>1
  <2>. HIDE DEF Folds, g
  <2> QED
    BY <2>2
<1>2. ASSUME NEW n \in 1 .. N, n - 1 \in P
      PROVE  n \in P
  <2>1. PICK f : Folds(n - 1, f)
    BY <1>2
  <2>. DEFINE g == [t \in SUBSET (1 .. n) |->
                      IF n \in t THEN h[<<f[t \ {n}], n>>] ELSE f[t]]
  <2>2. \A t \in SUBSET (1 .. n) : t \ {n} \in SUBSET (1 .. n - 1)
    OBVIOUS
  <2>3. \A t \in SUBSET (1 .. n) : n \notin t => t \in SUBSET (1 .. n - 1) /\ t \ {n} = t
    OBVIOUS
  <2>4. g \in [SUBSET (1 .. n) -> S]
    <3>1. ASSUME NEW t \in SUBSET (1 .. n)
          PROVE  (IF n \in t THEN h[<<f[t \ {n}], n>>] ELSE f[t]) \in S
      <4>1. f[t \ {n}] \in S
        BY <2>1, <2>2
      <4>2. n \notin t => f[t] \in S
        BY <2>1, <2>3
      <4> QED
        BY <4>1, <4>2
    <3> QED
      BY <3>1
  <2>5. g[{}] = base
    BY <2>1
  <2>6. ASSUME NEW t \in SUBSET (1 .. n), t # {}
        PROVE  g[t] = h[<<g[t \ {Max(t)}], Max(t)>>]
    <3>1. CASE n \in t
      <4>1. Max(t) = n
        <5>1. n \in Nat
          OBVIOUS
        <5>2. Max(t) \in t /\ \A i \in t : i <= Max(t)
          BY <2>6, <5>1, MaxIn
        <5>3. Max(t) \in 1 .. n /\ n <= Max(t)
          BY <3>1, <5>2
        <5> QED
          BY <5>3
      <4>2. g[t] = h[<<f[t \ {n}], n>>]
        BY <3>1
      <4>3. g[t \ {n}] = f[t \ {n}]
        OBVIOUS
      <4> QED
        BY <4>1, <4>2, <4>3
    <3>2. CASE n \notin t
      <4>1. t \in SUBSET (1 .. n - 1) /\ n - 1 \in Nat
        BY <2>3, <3>2
      <4>2. t \ {Max(t)} \in SUBSET (1 .. n) /\ n \notin t \ {Max(t)}
        BY <3>2
      <4>3. g[t] = f[t] /\ g[t \ {Max(t)}] = f[t \ {Max(t)}]
        BY <3>2, <4>2
      <4> QED
        BY <2>1, <2>6, <4>1, <4>3
    <3> QED
      BY <3>1, <3>2
  <2>. HIDE DEF g
  <2>7. Folds(n, g)
    BY <2>4, <2>5, <2>6
  <2>. HIDE DEF Folds
  <2> QED
    BY <2>7
<1>. HIDE DEF Folds
<1>3. \A n \in 0 .. N : n \in P
  <2>1. P \in SUBSET (0 .. N)
    OBVIOUS
  <2>. HIDE DEF P
  <2> QED
    BY <1>1, <1>2, <2>1, UpTo
<1>4. PICK g : Folds(N, g)
  BY <1>3
<1>5. g \in [SUBSET (1 .. N) -> S]
  BY <1>4 DEF Folds
<1>6. g = [t \in SUBSET (1 .. N) |->
             IF t = {} THEN base ELSE h[<<g[t \ {Max(t)}], Max(t)>>]]
  BY <1>4 DEF Folds
<1> QED
  BY <1>5, <1>6 DEF FoldsSets

(* What such a function gives for the numbers up to n comes from what it   *)
(* gives for those up to n - 1.                                            *)
LEMMA FoldSteps ==
    ASSUME NEW S, NEW N \in Nat, NEW base \in S, NEW h \in [S \X (1 .. N) -> S],
           NEW iter, FoldsWithin(iter, S, N, base, h)
    PROVE  \E F : FoldsUpTo(F, iter[1 .. N], S, N, base, h)
<1>. DEFINE F == [n \in 0 .. N |-> iter[1 .. n]]
<1>. DEFINE P == {n \in 0 .. N : F[n] \in S}
<1>1. F[0] = base
  <2>1. 1 .. 0 = {}
    OBVIOUS
  <2> QED
    BY <2>1 DEF FoldsWithin
<1>2. ASSUME NEW n \in 1 .. N, F[n - 1] \in S
      PROVE  F[n] = h[<<F[n - 1], n>>] /\ F[n] \in S
  <2>1. Max(1 .. n) = n /\ (1 .. n) \ {n} = 1 .. (n - 1)
    BY MaxTo
  <2>2. F[n] = iter[1 .. n] /\ F[n - 1] = iter[1 .. (n - 1)]
    OBVIOUS
  <2>3. 1 .. n \in SUBSET (1 .. N) /\ 1 .. n # {}
    OBVIOUS
  <2>. HIDE DEF F
  <2> QED
    BY <1>2, <2>1, <2>2, <2>3 DEF FoldsWithin
<1>3. \A n \in 0 .. N : n \in P
  <2>1. P \in SUBSET (0 .. N) /\ 0 \in P
    BY <1>1
  <2>2. ASSUME NEW n \in 1 .. N, n - 1 \in P
        PROVE  n \in P
    <3>1. F[n - 1] \in S
      BY <2>2
    <3>2. F[n] \in S
      BY <1>2, <3>1
    <3>. HIDE DEF F
    <3> QED
      BY <3>2
  <2>. HIDE DEF P
  <2> QED
    BY <2>1, <2>2, UpTo
<1>4. F \in [0 .. N -> S]
  BY <1>3
<1>5. ASSUME NEW n \in 1 .. N
      PROVE  F[n] = h[<<F[n - 1], n>>]
  <2>1. n - 1 \in 0 .. N
    OBVIOUS
  <2>. HIDE DEF F
  <2> QED
    BY <1>2, <1>4, <2>1
<1>6. iter[1 .. N] = F[N]
  OBVIOUS
<1>. HIDE DEF F
<1> QED
  BY <1>1, <1>4, <1>5, <1>6 DEF FoldsUpTo
=============================================================================
