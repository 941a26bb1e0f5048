------------------------------ MODULE SequenceFolds -----------------------------
(***************************************************************************)
(* Induction over natural numbers and finite sets, and from it what a fold *)
(* over a sequence and a sum over a finite set compute.  The library       *)
(* states induction for predicates; here it is stated for sets, which is   *)
(* all the provers need to use it.                                         *)
(***************************************************************************)
EXTENDS Integers, Sequences, SequencesExt, FiniteSetTheorems, SequenceTheorems, TLAPS

-----------------------------------------------------------------------------
(* Induction.                                                              *)

\* Every set of natural numbers has a least element: strict inclusion between the
\* intervals 0..n is well-founded.
LEMMA LeastNatural ==
  ASSUME NEW T \in SUBSET Nat, T # {}
  PROVE  \E m \in T : \A n \in T : m <= n
<1> DEFINE Below == {0..n : n \in T}
<1>1. Below \subseteq FiniteSubsetsOf(Nat)
  <2> SUFFICES ASSUME NEW n \in T PROVE 0..n \in FiniteSubsetsOf(Nat)
    OBVIOUS
  <2>1. IsFiniteSet(0..n) /\ 0..n \in SUBSET Nat
    BY FS_Interval
  <2> QED
    BY <2>1 DEF FiniteSubsetsOf
<1>2. PICK s \in Below : \A t \in Below : ~ (<<t, s>> \in StrictSubsetOrdering(Nat))
  <2>1. Below # {} /\ IsWellFoundedOn(StrictSubsetOrdering(Nat), FiniteSubsetsOf(Nat))
    BY FS_StrictSubsetOrderingWellFounded
  <2> HIDE DEF Below
  <2> QED
    BY <1>1, <2>1, WFMin
<1>3. PICK m \in T : s = 0..m
  OBVIOUS
<1>4. ASSUME NEW n \in T, n < m PROVE FALSE
  <2>1. 0..n \subseteq 0..m /\ 0..n # 0..m /\ 0..m \in SUBSET Nat /\ 0..n \in SUBSET Nat
    BY <1>4
  <2>2. <<0..n, 0..m>> \in StrictSubsetOrdering(Nat)
    BY <2>1 DEF StrictSubsetOrdering
  <2> QED
    BY <1>2, <1>3, <2>2
<1> QED
  BY <1>4

\* Induction: a set that has 0 and is closed under the successor has every number.
LEMMA InductionOverSet ==
  ASSUME NEW T, 0 \in T, \A n \in Nat : n \in T => n + 1 \in T
  PROVE  Nat \subseteq T
<1> SUFFICES ASSUME NEW k \in Nat, k \notin T PROVE FALSE
  OBVIOUS
<1> DEFINE U == {n \in Nat : n \notin T}
<1>1. PICK m \in U : \A n \in U : m <= n
  <2>1. U \in SUBSET Nat /\ U # {}
    OBVIOUS
  <2> HIDE DEF U
  <2> QED
    BY <2>1, LeastNatural
<1>2. m # 0 /\ m - 1 \in Nat
  OBVIOUS
<1>3. m - 1 \in T
  BY <1>1, <1>2
<1> QED
  BY <1>2, <1>3

LEMMA GreatestOfInterval ==
  ASSUME NEW n \in Nat, NEW S \in SUBSET (1..n), S # {}
  PROVE  /\ Max(S) \in S
         /\ \A k \in S : k <= Max(S)
<1> DEFINE T == {n - k : k \in S}
<1>1. T \in SUBSET Nat /\ T # {}
  <2>1. \A k \in S : n - k \in Nat
    OBVIOUS
  <2> QED
    BY <2>1
<1>2. PICK m \in T : \A k \in T : m <= k
  <2> HIDE DEF T
  <2> QED
    BY <1>1, LeastNatural
<1>3. PICK greatest \in S : m = n - greatest
  OBVIOUS
<1>4. \A k \in S : greatest >= k
  <2> SUFFICES ASSUME NEW k \in S PROVE greatest >= k
    OBVIOUS
  <2>1. n - k \in T
    OBVIOUS
  <2>2. n - greatest <= n - k
    BY <1>2, <1>3, <2>1
  <2> QED
    BY <2>2
<1>5. Max(S) \in S /\ \A k \in S : Max(S) >= k
  BY <1>4 DEF Max
<1> QED
  BY <1>5

LEMMA GreatestIsLast ==
  ASSUME NEW n \in Nat, NEW S \in SUBSET (1..n), n \in S
  PROVE  Max(S) = n
<1>1. S # {}
  OBVIOUS
<1>2. Max(S) \in S /\ n <= Max(S)
  BY <1>1, GreatestOfInterval
<1>3. Max(S) \in 1..n
  BY <1>2
<1> QED
  BY <1>2, <1>3

-----------------------------------------------------------------------------
(* Folds.  A step is a function here: on pairs of what was found so far    *)
(* and the next item.                                                      *)

\* f says for each set of the first n positions what the fold over them comes to.
FoldsUpto(n, f, X, step, base, s) ==
  /\ f \in [SUBSET (1..n) -> X]
  /\ \A S \in SUBSET (1..n) :
       f[S] = IF S = {} THEN base ELSE step[<<f[S \ {Max(S)}], s[Max(S)]>>]

Folds(f, X, step, base, s) == FoldsUpto(Len(s), f, X, step, base, s)

LEMMA FoldExists ==
  ASSUME NEW X, NEW Y, NEW base \in X, NEW step \in [X \X Y -> X], NEW s \in Seq(Y)
  PROVE  \E f : Folds(f, X, step, base, s)
<1> DEFINE Upto(f, m) == FoldsUpto(m, f, X, step, base, s)
           T == {m \in Nat : m <= Len(s) => \E f : Upto(f, m)}
<1>0. Len(s) \in Nat /\ \A k \in 1..Len(s) : s[k] \in Y
  OBVIOUS
<1>1. 0 \in T
  <2>1. SUBSET (1..0) = {{}}
    OBVIOUS
  <2>2. Upto([S \in SUBSET (1..0) |-> base], 0)
    BY <2>1 DEF FoldsUpto
  <2> QED
    BY <2>2
<1>2. ASSUME NEW m \in Nat, m \in T PROVE m + 1 \in T
  <2> SUFFICES ASSUME m + 1 <= Len(s) PROVE \E f : Upto(f, m + 1)
    OBVIOUS
  <2>1. PICK f : Upto(f, m)
    BY <1>0, <1>2
  <2> DEFINE g == [S \in SUBSET (1..(m + 1)) |->
                     IF m + 1 \in S THEN step[<<f[S \ {m + 1}], s[m + 1]>>] ELSE f[S]]
  <2>2. \A S \in SUBSET (1..(m + 1)) : S \ {m + 1} \in SUBSET (1..m)
    OBVIOUS
  <2>3. \A S \in SUBSET (1..(m + 1)) : m + 1 \notin S => S \in SUBSET (1..m)
    OBVIOUS
  <2>4. s[m + 1] \in Y
    BY <1>0
  <2>5. g \in [SUBSET (1..(m + 1)) -> X]
    BY <2>1, <2>2, <2>3, <2>4 DEF FoldsUpto
  <2>6. ASSUME NEW S \in SUBSET (1..(m + 1))
        PROVE  g[S] = IF S = {} THEN base ELSE step[<<g[S \ {Max(S)}], s[Max(S)]>>]
    <3>1. CASE m + 1 \in S
      <4>1. Max(S) = m + 1
        <5>1. m + 1 \in Nat
          OBVIOUS
        <5> HIDE DEF g
        <5> QED
          BY <3>1, <5>1, GreatestIsLast
      <4>2. g[S \ {m + 1}] = f[S \ {m + 1}]
        BY <2>2
      <4> QED
        BY <3>1, <4>1, <4>2
    <3>2. CASE m + 1 \notin S
      <4>1. S \in SUBSET (1..m) /\ g[S] = f[S]
        BY <2>3, <3>2
      <4>2. CASE S = {}
        BY <2>1, <4>1, <4>2 DEF FoldsUpto
      <4>3. CASE S # {}
        <5>1. S \ {Max(S)} \in SUBSET (1..m)
          BY <4>1
        <5>2. g[S \ {Max(S)}] = f[S \ {Max(S)}]
          BY <5>1
        <5>3. f[S] = step[<<f[S \ {Max(S)}], s[Max(S)]>>]
          BY <2>1, <4>1, <4>3 DEF FoldsUpto
        <5> QED
          BY <4>1, <4>3, <5>2, <5>3
      <4> QED
        BY <4>2, <4>3
    <3> QED
      BY <3>1, <3>2
  <2>7. Upto(g, m + 1)
    <3> HIDE DEF g
    <3> QED
      BY <2>5, <2>6 DEF FoldsUpto
  <2> QED
    BY <2>7
<1>3. Len(s) \in T
  <2> HIDE DEF T
  <2> QED
    BY <1>0, <1>1, <1>2, InductionOverSet
<1> QED
  BY <1>0, <1>3 DEF Folds

\* Folds over two sequences agree on the positions up to which these do.
LEMMA FoldIsUnique ==
  ASSUME NEW X, NEW step, NEW base, NEW Y, NEW s \in Seq(Y), NEW t \in Seq(Y),
         NEW f, NEW g, Folds(f, X, step, base, s), Folds(g, X, step, base, t),
         NEW n \in Nat, n <= Len(s), n <= Len(t), \A k \in 1..n : s[k] = t[k]
  PROVE  f[1..n] = g[1..n]
<1> DEFINE T == {m \in Nat : m <= n => \A S \in SUBSET (1..m) : f[S] = g[S]}
<1>0. Len(s) \in Nat /\ Len(t) \in Nat
  OBVIOUS
<1>1. 0 \in T
  <2>1. SUBSET (1..0) = {{}}
    OBVIOUS
  <2>2. f[{}] = base /\ g[{}] = base
    BY DEF Folds, FoldsUpto
  <2> QED
    BY <2>1, <2>2
<1>2. ASSUME NEW m \in Nat, m \in T PROVE m + 1 \in T
  <2> SUFFICES ASSUME m + 1 <= n, NEW S \in SUBSET (1..(m + 1)) PROVE f[S] = g[S]
    OBVIOUS
  <2>0. \A R \in SUBSET (1..m) : f[R] = g[R]
    BY <1>2
  <2>1. CASE m + 1 \notin S
    <3>1. S \in SUBSET (1..m)
      BY <2>1
    <3> QED
      BY <2>0, <3>1
  <2>2. CASE m + 1 \in S
    <3>1. Max(S) = m + 1
      <4>1. m + 1 \in Nat
        OBVIOUS
      <4> QED
        BY <2>2, <4>1, GreatestIsLast
    <3>2. S \ {m + 1} \in SUBSET (1..m)
      OBVIOUS
    <3>3. f[S \ {m + 1}] = g[S \ {m + 1}] /\ s[m + 1] = t[m + 1]
      BY <2>0, <3>2
    <3>4. S \in SUBSET (1..Len(s)) /\ S \in SUBSET (1..Len(t)) /\ S # {}
      BY <1>0, <2>2
    <3>5. f[S] = step[<<f[S \ {m + 1}], s[m + 1]>>]
      BY <3>1, <3>4 DEF Folds, FoldsUpto
    <3>6. g[S] = step[<<g[S \ {m + 1}], t[m + 1]>>]
      BY <3>1, <3>4 DEF Folds, FoldsUpto
    <3> QED
      BY <3>3, <3>5, <3>6
  <2> QED
    BY <2>1, <2>2
<1>3. n \in T
  <2> HIDE DEF T
  <2> QED
    BY <1>1, <1>2, InductionOverSet
<1> QED
  BY <1>3

\* What holds of the base and is kept by each step holds of every fold.
LEMMA FoldType ==
  ASSUME NEW X, NEW f, NEW n \in Nat,
         f[{}] \in X,
         \A S \in SUBSET (1..n) : S # {} /\ f[S \ {Max(S)}] \in X => f[S] \in X
  PROVE  \A S \in SUBSET (1..n) : f[S] \in X
<1> DEFINE T == {m \in Nat : m <= n => \A S \in SUBSET (1..m) : f[S] \in X}
<1>1. 0 \in T
  <2>1. SUBSET (1..0) = {{}}
    OBVIOUS
  <2> QED
    BY <2>1
<1>2. ASSUME NEW m \in Nat, m \in T PROVE m + 1 \in T
  <2> SUFFICES ASSUME m + 1 <= n, NEW S \in SUBSET (1..(m + 1)) PROVE f[S] \in X
    OBVIOUS
  <2>0. \A R \in SUBSET (1..m) : f[R] \in X
    BY <1>2
  <2>1. CASE m + 1 \notin S
    <3>1. S \in SUBSET (1..m)
      BY <2>1
    <3> QED
      BY <2>0, <3>1
  <2>2. CASE m + 1 \in S
    <3>1. Max(S) = m + 1
      <4>1. m + 1 \in Nat
        OBVIOUS
      <4> QED
        BY <2>2, <4>1, GreatestIsLast
    <3>2. S \ {m + 1} \in SUBSET (1..m) /\ S \in SUBSET (1..n) /\ S # {}
      BY <2>2
    <3> QED
      BY <2>0, <3>1, <3>2
  <2> QED
    BY <2>1, <2>2
<1>3. n \in T
  <2> HIDE DEF T
  <2> QED
    BY <1>1, <1>2, InductionOverSet
<1> QED
  BY <1>3

MadeOf(f, X, Y, step, base, s) ==
  /\ f = [S \in SUBSET (DOMAIN s) |-> f[S]]
  /\ f[{}] = base
  /\ \A S \in SUBSET (DOMAIN s) : S # {} =>
       /\ f[S \ {Max(S)}] \in X /\ s[Max(S)] \in Y
       /\ f[S] = step[<<f[S \ {Max(S)}], s[Max(S)]>>]

\* What a fold is made of, and that this makes a fold.
LEMMA FoldSteps ==
  ASSUME NEW X, NEW Y, NEW base, NEW step, NEW s \in Seq(Y), NEW f,
         Folds(f, X, step, base, s)
  PROVE  MadeOf(f, X, Y, step, base, s)
<1>1. DOMAIN s = 1..Len(s) /\ Len(s) \in Nat /\ \A k \in 1..Len(s) : s[k] \in Y
  OBVIOUS
<1>2. ASSUME NEW S \in SUBSET (1..Len(s)), S # {}
      PROVE  /\ f[S \ {Max(S)}] \in X /\ s[Max(S)] \in Y
             /\ f[S] = step[<<f[S \ {Max(S)}], s[Max(S)]>>]
  <2>1. Max(S) \in 1..Len(s)
    BY <1>1, <1>2, GreatestOfInterval
  <2>2. S \ {Max(S)} \in SUBSET (1..Len(s))
    OBVIOUS
  <2> QED
    BY <1>1, <1>2, <2>1, <2>2 DEF Folds, FoldsUpto
<1>3. f = [S \in SUBSET (1..Len(s)) |-> f[S]] /\ f[{}] = base
  BY DEF Folds, FoldsUpto
<1> QED
  BY <1>1, <1>2, <1>3 DEF MadeOf

LEMMA FoldFromSteps ==
  ASSUME NEW X, NEW Y, NEW base \in X, NEW step \in [X \X Y -> X], NEW s \in Seq(Y), NEW f,
         f = [S \in SUBSET (DOMAIN s) |-> f[S]],
         f[{}] = base,
         \A S \in SUBSET (DOMAIN s) : S # {} /\ f[S \ {Max(S)}] \in X /\ s[Max(S)] \in Y =>
           f[S] = step[<<f[S \ {Max(S)}], s[Max(S)]>>]
  PROVE  Folds(f, X, step, base, s)
<1>1. DOMAIN s = 1..Len(s) /\ Len(s) \in Nat /\ \A k \in 1..Len(s) : s[k] \in Y
  OBVIOUS
<1>2. \A S \in SUBSET (1..Len(s)) : S # {} => s[Max(S)] \in Y
  BY <1>1, GreatestOfInterval
<1>3. \A S \in SUBSET (1..Len(s)) : f[S] \in X
  <2>1. \A S \in SUBSET (1..Len(s)) : S # {} /\ f[S \ {Max(S)}] \in X => f[S] \in X
    <3> SUFFICES ASSUME NEW S \in SUBSET (1..Len(s)), S # {}, f[S \ {Max(S)}] \in X
                 PROVE  f[S] \in X
      OBVIOUS
    <3>1. s[Max(S)] \in Y
      BY <1>2
    <3>2. f[S] = step[<<f[S \ {Max(S)}], s[Max(S)]>>]
      BY <1>1, <3>1
    <3> QED
      BY <3>1, <3>2
  <2> QED
    BY <1>1, <2>1, FoldType
<1>4. f \in [SUBSET (1..Len(s)) -> X]
  BY <1>1, <1>3
<1>5. \A S \in SUBSET (1..Len(s)) : S # {} => f[S] = step[<<f[S \ {Max(S)}], s[Max(S)]>>]
  <2> SUFFICES ASSUME NEW S \in SUBSET (1..Len(s)), S # {}
               PROVE  f[S] = step[<<f[S \ {Max(S)}], s[Max(S)]>>]
    OBVIOUS
  <2>1. S \ {Max(S)} \in SUBSET (1..Len(s))
    OBVIOUS
  <2> QED
    BY <1>1, <1>2, <1>3, <2>1
<1> QED
  BY <1>4, <1>5 DEF Folds, FoldsUpto

OneMore(s, u) == Len(u) = Len(s) + 1 /\ \A k \in 1..Len(s) : s[k] = u[k]

OneStep(f, g, step, s, u) == g[1..Len(u)] = step[<<f[1..Len(s)], u[Len(u)]>>]

\* What one more item makes of a fold.
LEMMA FoldOfAppend ==
  ASSUME NEW X, NEW Y, NEW base, NEW step, NEW s, NEW u, NEW f, NEW g,
         s \in Seq(Y), u \in Seq(Y),
         OneMore(s, u),
         Folds(f, X, step, base, s), Folds(g, X, step, base, u)
  PROVE  OneStep(f, g, step, s, u)
<1>1. /\ Len(s) \in Nat /\ Len(u) \in Nat
      /\ Len(u) = Len(s) + 1 /\ \A k \in 1..Len(s) : s[k] = u[k]
  BY DEF OneMore
<1>2. f[1..Len(s)] = g[1..Len(s)]
  <2>1. Len(s) <= Len(s) /\ Len(s) <= Len(u)
    BY <1>1
  <2> QED
    BY <1>1, <2>1, FoldIsUnique
<1>3. Max(1..Len(u)) = Len(u)
  <2>1. Len(u) \in 1..Len(u) /\ 1..Len(u) \in SUBSET (1..Len(u))
    BY <1>1
  <2> QED
    BY <1>1, <2>1, GreatestIsLast
<1>4. (1..Len(u)) \ {Len(u)} = 1..Len(s)
  BY <1>1
<1>5. 1..Len(u) \in SUBSET (1..Len(u)) /\ 1..Len(u) # {}
  <2>1. Len(u) \in 1..Len(u)
    BY <1>1
  <2> QED
    BY <2>1
<1>6. g[1..Len(u)] = step[<<g[1..Len(s)], u[Len(u)]>>]
  <2>1. \A S \in SUBSET (1..Len(u)) :
          g[S] = IF S = {} THEN base ELSE step[<<g[S \ {Max(S)}], u[Max(S)]>>]
    BY DEF Folds, FoldsUpto
  <2>2. g[1..Len(u)] = step[<<g[(1..Len(u)) \ {Max(1..Len(u))}], u[Max(1..Len(u))]>>]
    BY <1>5, <2>1
  <2> QED
    BY <1>3, <1>4, <2>2, Zenon
<1> QED
  BY <1>2, <1>6 DEF OneStep

\* A fold over the first positions, one position at a time.
LEMMA FoldPrefix ==
  ASSUME NEW X, NEW base, NEW step, NEW s, NEW f, Len(s) \in Nat,
         Folds(f, X, step, base, s)
  PROVE  /\ f[1..0] = base
         /\ \A n \in Nat : n + 1 <= Len(s) => f[1..(n + 1)] = step[<<f[1..n], s[n + 1]>>]
<1>1. \A S \in SUBSET (1..Len(s)) :
        f[S] = IF S = {} THEN base ELSE step[<<f[S \ {Max(S)}], s[Max(S)]>>]
  BY DEF Folds, FoldsUpto
<1>2. f[1..0] = base
  <2>1. 1..0 = {} /\ {} \in SUBSET (1..Len(s))
    OBVIOUS
  <2> QED
    BY <1>1, <2>1
<1>3. ASSUME NEW n \in Nat, n + 1 <= Len(s)
      PROVE  f[1..(n + 1)] = step[<<f[1..n], s[n + 1]>>]
  <2>1. n + 1 \in 1..(n + 1) /\ n + 1 \in Nat /\ 1..(n + 1) \in SUBSET (1..(n + 1))
    OBVIOUS
  <2>2. Max(1..(n + 1)) = n + 1
    BY <2>1, GreatestIsLast
  <2>3. (1..(n + 1)) \ {n + 1} = 1..n
    OBVIOUS
  <2>4. 1..(n + 1) \in SUBSET (1..Len(s)) /\ 1..(n + 1) # {}
    <3>1. \A k \in 1..(n + 1) : k \in 1..Len(s)
      BY <1>3
    <3> QED
      BY <2>1, <3>1
  <2>5. f[1..(n + 1)] = step[<<f[(1..(n + 1)) \ {Max(1..(n + 1))}], s[Max(1..(n + 1))]>>]
    BY <1>1, <2>4
  <2> QED
    BY <2>2, <2>3, <2>5, Zenon
<1> QED
  BY <1>2, <1>3

-----------------------------------------------------------------------------
(* Sums over finite sets.                                                  *)

Inductive(S, T) ==
  \A R \in SUBSET S : (\A x \in R : R \ {x} \in T) => R \in T

\* Induction over the subsets of a finite set.
LEMMA InductionOverSubsets ==
  ASSUME NEW S, IsFiniteSet(S), NEW T, Inductive(S, T)
  PROVE  SUBSET S \subseteq T
<1> DEFINE N == {n \in Nat : \A R \in SUBSET S : Cardinality(R) = n => R \in T}
<1>1. \A R \in SUBSET S : IsFiniteSet(R) /\ Cardinality(R) \in Nat
  BY FS_Subset, FS_CardinalityType
<1>2. 0 \in N
  <2> SUFFICES ASSUME NEW R \in SUBSET S, Cardinality(R) = 0 PROVE R \in T
    OBVIOUS
  <2>1. R = {}
    BY <1>1, FS_EmptySet
  <2> QED
    BY <2>1 DEF Inductive
<1>3. ASSUME NEW n \in Nat, n \in N PROVE n + 1 \in N
  <2> SUFFICES ASSUME NEW R \in SUBSET S, Cardinality(R) = n + 1 PROVE R \in T
    OBVIOUS
  <2>1. ASSUME NEW x \in R PROVE R \ {x} \in T
    <3>1. Cardinality(R \ {x}) = Cardinality(R) - 1
      BY <1>1, FS_RemoveElement
    <3> QED
      BY <1>3, <3>1
  <2> QED
    BY <2>1 DEF Inductive
<1>4. Nat \subseteq N
  <2> HIDE DEF N
  <2> QED
    BY <1>2, <1>3, InductionOverSet
<1> QED
  BY <1>1, <1>4

Some(R) == CHOOSE x \in R : TRUE

Weights(w, S) == \A x \in S : w[x] \in Nat

\* f is the sum of the weights, for each subset of S.
Sums(f, w, S) ==
  /\ f \in [SUBSET S -> Nat]
  /\ \A R \in SUBSET S :
       f[R] = IF R = {} THEN 0 ELSE w[Some(R)] + f[R \ {Some(R)}]

SumOf(w, S) == (CHOOSE f : Sums(f, w, S))[S]

LEMMA SomeIsMember == \A R : R # {} => Some(R) \in R
BY DEF Some

LEMMA SumExists ==
  ASSUME NEW S, IsFiniteSet(S), NEW w, Weights(w, S)
  PROVE  \E f : Sums(f, w, S)
<1> DEFINE Upto(f, n) ==
             /\ f \in [SUBSET S -> Nat]
             /\ \A R \in SUBSET S : Cardinality(R) <= n =>
                  f[R] = IF R = {} THEN 0 ELSE w[Some(R)] + f[R \ {Some(R)}]
           N == {n \in Nat : \E f : Upto(f, n)}
<1>1. \A R \in SUBSET S : /\ IsFiniteSet(R) /\ Cardinality(R) \in Nat
                          /\ Cardinality(R) <= Cardinality(S)
  BY FS_Subset, FS_CardinalityType
<1>2. ASSUME NEW R \in SUBSET S, R # {}
      PROVE  /\ Some(R) \in R /\ w[Some(R)] \in Nat /\ R \ {Some(R)} \in SUBSET S
             /\ Cardinality(R \ {Some(R)}) = Cardinality(R) - 1
  <2>1. Some(R) \in R
    BY <1>2, SomeIsMember
  <2>2. Cardinality(R \ {Some(R)}) = Cardinality(R) - 1
    BY <1>1, <2>1, FS_RemoveElement
  <2> QED
    BY <2>1, <2>2 DEF Weights
<1>3. 0 \in N
  <2>1. \A R \in SUBSET S : Cardinality(R) <= 0 => R = {}
    BY <1>1, FS_EmptySet
  <2>2. Upto([R \in SUBSET S |-> 0], 0)
    BY <2>1
  <2> QED
    BY <2>2
<1>4. ASSUME NEW n \in Nat, n \in N PROVE n + 1 \in N
  <2>1. PICK f : Upto(f, n)
    BY <1>4
  <2> DEFINE g == [R \in SUBSET S |->
                     IF Cardinality(R) = n + 1 THEN w[Some(R)] + f[R \ {Some(R)}] ELSE f[R]]
  <2>2. \A R \in SUBSET S : Cardinality(R) = n + 1 => R # {}
    BY FS_EmptySet
  <2>3. ASSUME NEW R \in SUBSET S PROVE g[R] \in Nat
    <3>1. CASE Cardinality(R) = n + 1
      <4>1. g[R] = w[Some(R)] + f[R \ {Some(R)}]
        BY <3>1
      <4>2. w[Some(R)] \in Nat /\ f[R \ {Some(R)}] \in Nat
        BY <1>2, <2>1, <2>2, <3>1
      <4> QED
        BY <4>1, <4>2
    <3>2. CASE Cardinality(R) # n + 1
      BY <2>1, <3>2
    <3> QED
      BY <3>1, <3>2
  <2>4. g \in [SUBSET S -> Nat]
    <3>1. g = [R \in SUBSET S |-> g[R]]
      OBVIOUS
    <3> HIDE DEF g
    <3> QED
      BY <2>3, <3>1
  <2>5. ASSUME NEW R \in SUBSET S, Cardinality(R) <= n + 1
        PROVE  g[R] = IF R = {} THEN 0 ELSE w[Some(R)] + g[R \ {Some(R)}]
    <3>1. CASE R = {}
      <4>1. Cardinality(R) = 0 /\ 0 <= n /\ 0 # n + 1
        BY <3>1, FS_EmptySet
      <4>2. g[R] = f[R]
        BY <4>1
      <4>3. f[R] = 0
        BY <2>1, <3>1, <4>1
      <4> QED
        BY <3>1, <4>2, <4>3
    <3>2. CASE R # {}
      <4>1. Cardinality(R \ {Some(R)}) # n + 1 /\ R \ {Some(R)} \in SUBSET S
        BY <1>1, <1>2, <2>5, <3>2
      <4>2. g[R \ {Some(R)}] = f[R \ {Some(R)}]
        BY <4>1
      <4>3. CASE Cardinality(R) = n + 1
        BY <3>2, <4>2, <4>3
      <4>4. CASE Cardinality(R) # n + 1
        <5>1. Cardinality(R) <= n
          BY <1>1, <2>5, <4>4
        <5>2. g[R] = f[R]
          BY <4>4
        <5> QED
          BY <2>1, <3>2, <4>2, <5>1, <5>2
      <4> QED
        BY <4>3, <4>4
    <3> QED
      BY <3>1, <3>2
  <2>6. Upto(g, n + 1)
    <3> HIDE DEF g
    <3> QED
      BY <2>4, <2>5
  <2>7. \E h : Upto(h, n + 1)
    <3> HIDE DEF g, Upto
    <3> QED
      BY <2>6
  <2> QED
    BY <2>7
<1>5. Cardinality(S) \in N
  <2>1. Nat \subseteq N
    <3> HIDE DEF N
    <3> QED
      BY <1>3, <1>4, InductionOverSet
  <2> QED
    BY <1>1, <2>1, FS_CardinalityType
<1>6. PICK f : Upto(f, Cardinality(S))
  BY <1>5
<1> QED
  BY <1>1, <1>6 DEF Sums

\* Sums of weights that agree are equal.
LEMMA SumIsUnique ==
  ASSUME NEW S, IsFiniteSet(S), NEW w, NEW f, Sums(f, w, S),
         NEW U, NEW v, NEW g, Sums(g, v, U),
         S \subseteq U, \A x \in S : w[x] = v[x]
  PROVE  f[S] = g[S]
<1> DEFINE T == {R \in SUBSET S : f[R] = g[R]}
<1>1. ASSUME NEW R \in SUBSET S, \A x \in R : R \ {x} \in T PROVE R \in T
  <2>1. R \in SUBSET U
    OBVIOUS
  <2>2. CASE R = {}
    BY <2>1, <2>2 DEF Sums
  <2>3. CASE R # {}
    <3>1. Some(R) \in R
      BY <2>3, SomeIsMember
    <3>2. f[R \ {Some(R)}] = g[R \ {Some(R)}] /\ w[Some(R)] = v[Some(R)]
      BY <1>1, <3>1
    <3>3. f[R] = w[Some(R)] + f[R \ {Some(R)}] /\ g[R] = v[Some(R)] + g[R \ {Some(R)}]
      BY <2>1, <2>3 DEF Sums
    <3> QED
      BY <3>2, <3>3
  <2> QED
    BY <2>2, <2>3
<1>2. SUBSET S \subseteq T
  <2>1. Inductive(S, T)
    <3> HIDE DEF T
    <3> QED
      BY <1>1 DEF Inductive
  <2> HIDE DEF T
  <2> QED
    BY <2>1, InductionOverSubsets
<1> QED
  BY <1>2

LEMMA SumIsOneOfSums ==
  ASSUME NEW S, IsFiniteSet(S), NEW w, Weights(w, S)
  PROVE  \E f : Sums(f, w, S) /\ SumOf(w, S) = f[S]
<1>1. Sums(CHOOSE f : Sums(f, w, S), w, S)
  <2>1. PICK f : Sums(f, w, S)
    BY SumExists
  <2> QED
    BY <2>1
<1> QED
  BY <1>1 DEF SumOf

LEMMA SumOfAny ==
  ASSUME NEW S, IsFiniteSet(S), NEW w, Weights(w, S), NEW f, Sums(f, w, S)
  PROVE  SumOf(w, S) = f[S]
<1>1. PICK g : Sums(g, w, S) /\ SumOf(w, S) = g[S]
  BY SumIsOneOfSums
<1> QED
  BY <1>1, SumIsUnique

LEMMA SumType ==
  ASSUME NEW S, IsFiniteSet(S), NEW w, Weights(w, S)
  PROVE  SumOf(w, S) \in Nat
<1>1. PICK f : Sums(f, w, S) /\ SumOf(w, S) = f[S]
  BY SumIsOneOfSums
<1> QED
  BY <1>1 DEF Sums

LEMMA SumOfNone == \A w : SumOf(w, {}) = 0
<1> SUFFICES ASSUME NEW w PROVE SumOf(w, {}) = 0
  OBVIOUS
<1>1. IsFiniteSet({}) /\ Weights(w, {})
  BY FS_EmptySet DEF Weights
<1>2. PICK f : Sums(f, w, {}) /\ SumOf(w, {}) = f[{}]
  BY <1>1, SumIsOneOfSums
<1> QED
  BY <1>2 DEF Sums

\* Which member is taken first makes no difference.
LEMMA SumsWithout ==
  ASSUME NEW S, IsFiniteSet(S), NEW w, Weights(w, S), NEW f, Sums(f, w, S)
  PROVE  \A R \in SUBSET S : \A x \in R : f[R] = w[x] + f[R \ {x}]
<1> DEFINE T == {R \in SUBSET S : \A x \in R : f[R] = w[x] + f[R \ {x}]}
<1>1. ASSUME NEW R \in SUBSET S, \A x \in R : R \ {x} \in T PROVE R \in T
  <2> SUFFICES ASSUME NEW x \in R PROVE f[R] = w[x] + f[R \ {x}]
    OBVIOUS
  <2> DEFINE c == Some(R)
             rest == R \ {x, c}
  <2>1. c \in R /\ f[R] = w[c] + f[R \ {c}]
    BY SomeIsMember DEF Sums
  <2>2. CASE x = c
    BY <2>1, <2>2
  <2>3. CASE x # c
    <3>1. (R \ {c}) \ {x} = rest /\ (R \ {x}) \ {c} = rest
      OBVIOUS
    <3>2. x \in R \ {c} /\ c \in R \ {x}
      BY <2>1, <2>3
    <3>3. f[R \ {c}] = w[x] + f[rest]
      <4>1. R \ {c} \in T
        BY <1>1, <2>1
      <4> QED
        BY <3>1, <3>2, <4>1
    <3>4. f[R \ {x}] = w[c] + f[rest]
      <4>1. R \ {x} \in T
        BY <1>1
      <4> QED
        BY <3>1, <3>2, <4>1
    <3>5. w[x] \in Nat /\ w[c] \in Nat /\ f[rest] \in Nat
      BY <2>1 DEF Weights, Sums
    <3> HIDE DEF c, rest
    <3> QED
      BY <2>1, <3>3, <3>4, <3>5
  <2> QED
    BY <2>2, <2>3
<1>2. SUBSET S \subseteq T
  <2>1. Inductive(S, T)
    <3> HIDE DEF T
    <3> QED
      BY <1>1 DEF Inductive
  <2> HIDE DEF T
  <2> QED
    BY <2>1, InductionOverSubsets
<1> QED
  BY <1>2

LEMMA SumWithout ==
  ASSUME NEW S, IsFiniteSet(S), NEW w, Weights(w, S), NEW x \in S
  PROVE  SumOf(w, S) = w[x] + SumOf(w, S \ {x})
<1>1. PICK f : Sums(f, w, S) /\ SumOf(w, S) = f[S]
  BY SumIsOneOfSums
<1>2. f[S] = w[x] + f[S \ {x}]
  <2>1. S \in SUBSET S
    OBVIOUS
  <2> QED
    BY <1>1, <2>1, SumsWithout
<1>3. IsFiniteSet(S \ {x}) /\ Weights(w, S \ {x})
  BY FS_RemoveElement DEF Weights
<1>4. PICK g : Sums(g, w, S \ {x}) /\ SumOf(w, S \ {x}) = g[S \ {x}]
  BY <1>3, SumIsOneOfSums
<1>5. g[S \ {x}] = f[S \ {x}]
  BY <1>1, <1>3, <1>4, SumIsUnique
<1> QED
  BY <1>1, <1>2, <1>4, <1>5

LEMMA SumWith ==
  ASSUME NEW S, IsFiniteSet(S), NEW w, NEW x, x \notin S, Weights(w, S \cup {x})
  PROVE  SumOf(w, S \cup {x}) = w[x] + SumOf(w, S)
<1>1. IsFiniteSet(S \cup {x}) /\ x \in S \cup {x} /\ (S \cup {x}) \ {x} = S
  BY FS_AddElement
<1> QED
  BY <1>1, SumWithout

LEMMA SumOfEqualWeights ==
  ASSUME NEW S, IsFiniteSet(S), NEW w, Weights(w, S), NEW v, \A x \in S : w[x] = v[x]
  PROVE  SumOf(w, S) = SumOf(v, S)
<1>1. Weights(v, S)
  BY DEF Weights
<1>2. PICK f : Sums(f, w, S) /\ SumOf(w, S) = f[S]
  BY SumIsOneOfSums
<1>3. PICK g : Sums(g, v, S) /\ SumOf(v, S) = g[S]
  BY <1>1, SumIsOneOfSums
<1>4. f[S] = g[S]
  BY <1>2, <1>3, SumIsUnique
<1> QED
  BY <1>2, <1>3, <1>4

\* A part sums up to no more than the whole.
LEMMA SumOfPart ==
  ASSUME NEW S, IsFiniteSet(S), NEW w, Weights(w, S), NEW R \in SUBSET S
  PROVE  SumOf(w, R) <= SumOf(w, S)
<1>1. PICK f : Sums(f, w, S) /\ SumOf(w, S) = f[S]
  BY SumIsOneOfSums
<1>2. IsFiniteSet(R) /\ Weights(w, R)
  BY FS_Subset DEF Weights
<1>3. SumOf(w, R) = f[R]
  <2>1. PICK g : Sums(g, w, R) /\ SumOf(w, R) = g[R]
    BY <1>2, SumIsOneOfSums
  <2>2. g[R] = f[R]
    BY <1>1, <1>2, <2>1, SumIsUnique
  <2> QED
    BY <2>1, <2>2
<1> DEFINE T == {Q \in SUBSET S : R \subseteq Q => f[R] <= f[Q]}
<1>4. ASSUME NEW Q \in SUBSET S, \A x \in Q : Q \ {x} \in T PROVE Q \in T
  <2> SUFFICES ASSUME R \subseteq Q PROVE f[R] <= f[Q]
    OBVIOUS
  <2>0. f[R] \in Nat /\ f[Q] \in Nat
    BY <1>1 DEF Sums
  <2>1. CASE R = Q
    BY <2>0, <2>1
  <2>2. CASE R # Q
    <3>1. PICK x \in Q : x \notin R
      BY <2>2
    <3>2. f[R] <= f[Q \ {x}]
      BY <1>4, <3>1
    <3>3. f[Q] = w[x] + f[Q \ {x}]
      BY <1>1, SumsWithout
    <3>4. w[x] \in Nat /\ f[Q \ {x}] \in Nat
      BY <1>1 DEF Weights, Sums
    <3> QED
      BY <2>0, <3>2, <3>3, <3>4
  <2> QED
    BY <2>1, <2>2
<1>5. SUBSET S \subseteq T
  <2>1. Inductive(S, T)
    <3> HIDE DEF T
    <3> QED
      BY <1>4 DEF Inductive
  <2> HIDE DEF T
  <2> QED
    BY <2>1, InductionOverSubsets
<1>6. f[R] <= f[S]
  <2>1. S \in T
    BY <1>5
  <2> QED
    BY <2>1
<1> QED
  BY <1>1, <1>3, <1>6

\* Nothing weighs nothing.
LEMMA SumOfZeros ==
  ASSUME NEW S, IsFiniteSet(S), NEW w, \A x \in S : w[x] = 0
  PROVE  SumOf(w, S) = 0
<1>1. Weights(w, S)
  BY DEF Weights
<1>2. PICK f : Sums(f, w, S) /\ SumOf(w, S) = f[S]
  BY <1>1, SumIsOneOfSums
<1> DEFINE T == {R \in SUBSET S : f[R] = 0}
<1>3. ASSUME NEW R \in SUBSET S, \A x \in R : R \ {x} \in T PROVE R \in T
  <2>1. CASE R = {}
    BY <1>2, <2>1 DEF Sums
  <2>2. CASE R # {}
    <3>1. PICK x \in R : TRUE
      BY <2>2
    <3>2. f[R] = w[x] + f[R \ {x}]
      BY <1>1, <1>2, <3>1, SumsWithout
    <3>3. w[x] = 0 /\ f[R \ {x}] = 0
      BY <1>3, <3>1
    <3> QED
      BY <3>2, <3>3
  <2> QED
    BY <2>1, <2>2
<1>4. SUBSET S \subseteq T
  <2>1. Inductive(S, T)
    <3> HIDE DEF T
    <3> QED
      BY <1>3 DEF Inductive
  <2> HIDE DEF T
  <2> QED
    BY <2>1, InductionOverSubsets
<1> QED
  BY <1>2, <1>4

-----------------------------------------------------------------------------
(* Joining a sequence of sequences.                                        *)

\* How one more sequence is joined to what was joined so far.
JoinStep(P) == [x \in Seq(P) \X Seq(P) |-> x[1] \o x[2]]

LEMMA JoinStepType ==
  ASSUME NEW P
  PROVE  /\ JoinStep(P) \in [Seq(P) \X Seq(P) -> Seq(P)] /\ <<>> \in Seq(P)
         /\ \A joined \in Seq(P), next \in Seq(P) : JoinStep(P)[<<joined, next>>] = joined \o next
<1>1. \A joined \in Seq(P), next \in Seq(P) : joined \o next \in Seq(P)
  BY ConcatProperties
<1> QED
  BY <1>1, EmptySeq DEF JoinStep

LEMMA FlattenFold ==
  ASSUME NEW P, NEW t \in Seq(Seq(P))
  PROVE  \E f : Folds(f, Seq(P), JoinStep(P), <<>>, t) /\ FlattenSeq(t) = f[1..Len(t)]
<1> DEFINE X == Seq(P)
           step == JoinStep(P)
           flat == CHOOSE g : g = [i \in 1..Len(t) |-> IF i = 1 THEN t[i] ELSE g[i - 1] \o t[i]]
<1>1. FlattenSeq(t) = IF Len(t) = 0 THEN t ELSE flat[Len(t)]
  BY DEF FlattenSeq
<1>2. /\ step \in [X \X X -> X] /\ <<>> \in X
      /\ \A joined \in X, next \in X : step[<<joined, next>>] = joined \o next
      /\ Len(t) \in Nat /\ \A i \in 1..Len(t) : t[i] \in X
  <2>1. Len(t) \in Nat /\ \A i \in 1..Len(t) : t[i] \in X
    OBVIOUS
  <2> QED
    BY <2>1, JoinStepType
<1>3. PICK f : Folds(f, X, step, <<>>, t)
  <2>1. t \in Seq(X)
    OBVIOUS
  <2> HIDE DEF step, X
  <2> QED
    BY <1>2, <2>1, FoldExists
<1> HIDE DEF step, X, flat
<1>4. /\ f[1..0] = <<>>
      /\ \A n \in Nat : n + 1 <= Len(t) => f[1..(n + 1)] = step[<<f[1..n], t[n + 1]>>]
  <2>1. Len(t) \in Nat
    BY <1>2
  <2> QED
    BY ONLY <1>3, <2>1, FoldPrefix
<1>5. \A n \in 0..Len(t) : f[1..n] \in X
  <2> SUFFICES ASSUME NEW n \in 0..Len(t) PROVE f[1..n] \in X
    OBVIOUS
  <2>1. 1..n \in SUBSET (1..Len(t))
    BY <1>2
  <2> QED
    BY <1>3, <2>1 DEF Folds, FoldsUpto
<1>6. \A i \in 1..Len(t) : f[1..i] = f[1..(i - 1)] \o t[i]
  <2> SUFFICES ASSUME NEW i \in 1..Len(t) PROVE f[1..i] = f[1..(i - 1)] \o t[i]
    OBVIOUS
  <2>1. i - 1 \in Nat /\ (i - 1) + 1 = i /\ i <= Len(t) /\ i - 1 \in 0..Len(t)
    BY <1>2
  <2>2. f[1..((i - 1) + 1)] = step[<<f[1..(i - 1)], t[(i - 1) + 1]>>]
    BY <1>4, <2>1
  <2>3. f[1..i] = step[<<f[1..(i - 1)], t[i]>>]
    BY <2>1, <2>2
  <2> QED
    BY <1>2, <1>5, <2>1, <2>3
<1>7. flat = [i \in 1..Len(t) |-> IF i = 1 THEN t[i] ELSE flat[i - 1] \o t[i]]
  <2> DEFINE g == [i \in 1..Len(t) |-> f[1..i]]
  <2>1. ASSUME NEW i \in 1..Len(t)
        PROVE  g[i] = IF i = 1 THEN t[i] ELSE g[i - 1] \o t[i]
    <3>1. CASE i = 1
      <4>1. f[1..i] = <<>> \o t[i] /\ t[i] \in Seq(P)
        <5>1. i - 1 = 0
          BY <3>1
        <5>2. f[1..i] = f[1..0] \o t[i]
          BY <1>6, <5>1
        <5> QED
          BY <1>2, <1>4, <5>2 DEF X
      <4>2. <<>> \o t[i] = t[i]
        BY <4>1, ConcatEmptySeq
      <4> QED
        BY <3>1, <4>1, <4>2
    <3>2. CASE i # 1
      <4>1. i - 1 \in 1..Len(t)
        BY <1>2, <3>2
      <4> QED
        BY <1>6, <3>2, <4>1
    <3> QED
      BY <3>1, <3>2
  <2>2. g = [i \in 1..Len(t) |-> IF i = 1 THEN t[i] ELSE g[i - 1] \o t[i]]
    <3>1. g = [i \in 1..Len(t) |-> g[i]]
      OBVIOUS
    <3> HIDE DEF g
    <3> QED
      BY <2>1, <3>1
  <2> HIDE DEF g
  <2> QED
    BY <2>2, Zenon DEF flat
<1>8. \A n \in Nat : n \in 1..Len(t) => flat[n] = f[1..n]
  <2> DEFINE T == {n \in Nat : n \in 1..Len(t) => flat[n] = f[1..n]}
  <2>1. 0 \in T
    OBVIOUS
  <2>2. ASSUME NEW n \in Nat, n \in T PROVE n + 1 \in T
    <3> SUFFICES ASSUME n + 1 \in 1..Len(t) PROVE flat[n + 1] = f[1..(n + 1)]
      OBVIOUS
    <3>1. f[1..(n + 1)] = f[1..n] \o t[n + 1]
      <4>1. (n + 1) - 1 = n
        OBVIOUS
      <4> QED
        BY <1>6, <4>1
    <3>2. CASE n = 0
      <4>1. flat[n + 1] = t[n + 1] /\ t[n + 1] \in Seq(P)
        BY <1>2, <1>7, <3>2 DEF X
      <4>2. f[1..n] = <<>>
        BY <1>4, <3>2
      <4> QED
        BY <3>1, <4>1, <4>2, ConcatEmptySeq
    <3>3. CASE n # 0
      <4>1. n \in 1..Len(t) /\ (n + 1) - 1 = n /\ n + 1 # 1
        BY <1>2, <3>3
      <4>2. flat[n + 1] = flat[n] \o t[n + 1]
        BY <1>7, <4>1
      <4> QED
        BY <2>2, <3>1, <4>1, <4>2
    <3> QED
      BY <3>2, <3>3
  <2> HIDE DEF T
  <2>3. Nat \subseteq T
    BY <2>1, <2>2, InductionOverSet
  <2> QED
    BY <2>3 DEF T
<1>9. FlattenSeq(t) = f[1..Len(t)]
  <2>1. CASE Len(t) = 0
    <3>1. t = <<>>
      BY <2>1
    <3> QED
      BY <1>1, <1>4, <2>1, <3>1
  <2>2. CASE Len(t) # 0
    BY <1>1, <1>2, <1>8, <2>2
  <2> QED
    BY <2>1, <2>2
<1> QED
  BY <1>3, <1>9 DEF step, X

\* What joining a sequence of sequences gives.
LEMMA FlattenNone == FlattenSeq(<<>>) = <<>>
BY DEF FlattenSeq

LEMMA FlattenType ==
  ASSUME NEW P, NEW t \in Seq(Seq(P))
  PROVE  FlattenSeq(t) \in Seq(P)
<1>1. PICK f : Folds(f, Seq(P), JoinStep(P), <<>>, t) /\ FlattenSeq(t) = f[1..Len(t)]
  BY FlattenFold
<1> QED
  BY <1>1 DEF Folds, FoldsUpto

LEMMA FlattenAppend ==
  ASSUME NEW P, NEW t \in Seq(Seq(P)), NEW x \in Seq(P)
  PROVE  FlattenSeq(Append(t, x)) = FlattenSeq(t) \o x
<1> DEFINE X == Seq(P)
           step == JoinStep(P)
           u == Append(t, x)
<1>1. step \in [X \X X -> X] /\ <<>> \in X /\ t \in Seq(X) /\ x \in X /\ u \in Seq(X)
  <2>1. t \in Seq(X) /\ x \in X /\ u \in Seq(X)
    OBVIOUS
  <2> QED
    BY <2>1, JoinStepType
<1>2. PICK f : Folds(f, X, step, <<>>, t) /\ FlattenSeq(t) = f[1..Len(t)]
  BY FlattenFold
<1>3. PICK g : Folds(g, X, step, <<>>, u) /\ FlattenSeq(u) = g[1..Len(u)]
  <2> HIDE DEF u
  <2> QED
    BY <1>1, FlattenFold
<1>4. u[Len(u)] = x /\ OneMore(t, u)
  BY DEF OneMore
<1>5. OneStep(f, g, step, t, u)
  <2> HIDE DEF X, step, u
  <2> QED
    BY <1>1, <1>2, <1>3, <1>4, FoldOfAppend
<1>6. FlattenSeq(u) = step[<<FlattenSeq(t), x>>]
  BY <1>2, <1>3, <1>4, <1>5 DEF OneStep
<1>7. FlattenSeq(t) \in X
  BY FlattenType
<1> QED
  BY <1>6, <1>7, JoinStepType
================================================================================
