------------------------------ MODULE FoldProofs ------------------------------
(***************************************************************************)
(* A fold over a sequence is a loop: FoldLeft(Turn, base, more) is what a  *)
(* loop leaves that starts with base and takes one turn for each element   *)
(* of more.  To be instantiated with the body of the loop.                 *)
(*                                                                         *)
(* The induction theorems of the library take a predicate as a parameter;  *)
(* here induction is carried out with sets instead, from the theorem that  *)
(* the natural numbers are well-founded.                                   *)
(***************************************************************************)
EXTENDS SequencesExt, WellFoundedInduction, TLAPS

CONSTANTS
  Turn(_, _),    \* the body of the loop: the value so far, and an element
  Values,        \* what it makes
  Elements       \* what it is given

-----------------------------------------------------------------------------
(* Induction *)

\* Each non-empty set of natural numbers has a least element.
LEMMA LeastNatural ==
  ASSUME NEW T \in SUBSET Nat, T # {}
  PROVE  \E n \in T : \A m \in T : n <= m
<1>. DEFINE R == {ss \in Nat \X Nat : ss[1] < ss[2]}
<1>1. IsWellFoundedOn(R, Nat)
  BY NatLessThanWellFounded DEF OpToRel
<1>2. PICK n \in T : \A m \in T : <<m, n>> \notin R
  <2>. HIDE DEF R
  <2>. QED BY <1>1, WFMin
<1>3. ASSUME NEW m \in T PROVE n <= m
  <2>1. m \in Nat /\ n \in Nat /\ ~(m < n)
    BY <1>2
  <2>. QED BY <2>1
<1>. QED BY <1>3

\* What holds of 0, and of n + 1 if it holds of n, holds of all natural numbers.
LEMMA Induction ==
  ASSUME NEW S \in SUBSET Nat, 0 \in S, \A n \in S : n + 1 \in S
  PROVE  S = Nat
<1>. DEFINE T == Nat \ S
<1>1. SUFFICES ASSUME T # {} PROVE FALSE
  OBVIOUS
<1>2. PICK n \in T : \A m \in T : n <= m
  <2>. T \in SUBSET Nat
    OBVIOUS
  <2>. HIDE DEF T
  <2>. QED BY <1>1, LeastNatural
<1>3. n \in Nat /\ n # 0
  OBVIOUS
<1>4. n - 1 \in Nat /\ ~(n <= n - 1)
  BY <1>3
<1>5. n - 1 \in S
  BY <1>2, <1>4
<1>6. (n - 1) + 1 \in S /\ (n - 1) + 1 = n
  BY <1>3, <1>5
<1>. QED BY <1>6

\* A loop invariant: what the first turn finds and each turn keeps, the last one leaves.
LEMMA Turns ==
  ASSUME NEW N \in Nat, NEW S \in SUBSET Nat, 0 \in S,
         \A n \in 1..N : n - 1 \in S => n \in S
  PROVE  N \in S
<1>. DEFINE T == {n \in Nat : n <= N => n \in S}
<1>1. 0 \in T
  OBVIOUS
<1>2. ASSUME NEW n \in T PROVE n + 1 \in T
  <2>1. CASE n + 1 <= N
    <3>1. n + 1 \in 1..N /\ (n + 1) - 1 = n /\ n \in S
      BY <2>1
    <3>. QED BY <3>1
  <2>. QED BY <2>1
<1>3. T = Nat
  <2>. HIDE DEF T
  <2>. T \in SUBSET Nat
    BY DEF T
  <2>. QED BY <1>1, <1>2, Induction
<1>. QED BY <1>3

\* Max is the greatest element of a bounded set of natural numbers.
LEMMA Greatest ==
  ASSUME NEW N \in Nat, NEW s \in SUBSET (1..N), s # {}
  PROVE  Max(s) \in s /\ \A k \in s : k <= Max(s)
<1>. DEFINE T == {n \in Nat : \A k \in s : k <= n}
<1>1. N \in T
  OBVIOUS
<1>2. PICK n \in T : \A m \in T : n <= m
  <2>. T \in SUBSET Nat
    OBVIOUS
  <2>. HIDE DEF T
  <2>. QED BY <1>1, LeastNatural
<1>3. n \in s
  <2>1. SUFFICES ASSUME n \notin s PROVE FALSE
    OBVIOUS
  <2>2. PICK k \in s : TRUE
    OBVIOUS
  <2>3. n \in Nat /\ k \in 1..N /\ k <= n
    BY <2>2
  <2>4. n - 1 \in Nat
    BY <2>3
  <2>5. \A j \in s : j <= n - 1
    BY <2>1, <2>3
  <2>6. n - 1 \in T
    BY <2>4, <2>5
  <2>. QED BY <1>2, <2>6, <2>3
<1>4. \E x \in s : \A y \in s : x >= y
  BY <1>3
<1>5. Max(s) \in s /\ \A y \in s : Max(s) >= y
  BY <1>4 DEF Max
<1>. QED BY <1>5

-----------------------------------------------------------------------------
(* Folds *)

Solution(g, base, N, G) ==
  \A s \in SUBSET (1..N) :
    g[s] = IF s = {} THEN base ELSE G[<<g[s \ {Max(s)}], Max(s)>>]

\* The recursion by which folds are defined has a solution: G says what a turn of the
\* loop makes of the value so far, and s which turns have been taken.
LEMMA Recursion ==
  ASSUME NEW S, NEW base \in S, NEW N \in Nat, NEW G \in [S \X (1..N) -> S]
  PROVE  \E g \in [SUBSET (1..N) -> S] : Solution(g, base, N, G)
<1>. DEFINE Solves(g, n) ==
       \A s \in SUBSET (1..n) :
         g[s] = IF s = {} THEN base ELSE G[<<g[s \ {Max(s)}], Max(s)>>]
<1>. DEFINE T == {n \in Nat : n <= N => \E g \in [SUBSET (1..N) -> S] : Solves(g, n)}
<1>1. 0 \in T
  <2>. DEFINE g0 == [s \in SUBSET (1..N) |-> base]
  <2>1. g0 \in [SUBSET (1..N) -> S] /\ Solves(g0, 0)
    OBVIOUS
  <2>. QED BY <2>1
<1>2. ASSUME NEW n \in 1..N, n - 1 \in T PROVE n \in T
  <2>1. PICK g \in [SUBSET (1..N) -> S] : Solves(g, n - 1)
    <3>1. n - 1 <= N
      OBVIOUS
    <3>. HIDE DEF Solves
    <3>. QED BY <1>2, <3>1
  <2>. DEFINE h == [s \in SUBSET (1..N) |->
                      IF s = {} THEN base ELSE G[<<g[s \ {Max(s)}], Max(s)>>]]
  <2>2. h \in [SUBSET (1..N) -> S]
    <3>1. ASSUME NEW s \in SUBSET (1..N), s # {} PROVE Max(s) \in 1..N
      BY <3>1, Greatest
    <3>. QED BY <3>1
  <2>3. ASSUME NEW s \in SUBSET (1..n), s # {} PROVE h[s \ {Max(s)}] = g[s \ {Max(s)}]
    <3>1. s \in SUBSET (1..N) /\ n \in Nat
      OBVIOUS
    <3>2. Max(s) \in s /\ \A k \in s : k <= Max(s)
      BY <2>3, <3>1, Greatest
    <3>3. s \ {Max(s)} \in SUBSET (1..(n - 1))
      <4>1. ASSUME NEW k \in s, k # Max(s) PROVE k \in 1..(n - 1)
        <5>. DEFINE m == Max(s)
        <5>1. k \in 1..n /\ m \in 1..n /\ k <= m /\ k # m
          BY <3>2, <4>1
        <5>. HIDE DEF m
        <5>. QED BY <5>1
      <4>. QED BY <4>1
    <3>4. s \ {Max(s)} \in SUBSET (1..N)
      BY <3>1
    <3>. HIDE DEF Solves
    <3>5. g[s \ {Max(s)}] = IF s \ {Max(s)} = {} THEN base
            ELSE G[<<g[(s \ {Max(s)}) \ {Max(s \ {Max(s)})}], Max(s \ {Max(s)})>>]
      BY <2>1, <3>3 DEF Solves
    <3>. QED BY <3>4, <3>5
  <2>4. Solves(h, n)
    <3>1. ASSUME NEW s \in SUBSET (1..n)
          PROVE h[s] = IF s = {} THEN base ELSE G[<<h[s \ {Max(s)}], Max(s)>>]
      <4>1. s \in SUBSET (1..N)
        OBVIOUS
      <4>2. h[s] = IF s = {} THEN base ELSE G[<<g[s \ {Max(s)}], Max(s)>>]
        BY <4>1
      <4>. HIDE DEF h
      <4>. QED BY <4>2, <2>3
    <3>. QED BY <3>1
  <2>5. n \in Nat
    OBVIOUS
  <2>. HIDE DEF h, Solves
  <2>. QED BY <2>2, <2>4, <2>5
<1>3. N \in T
  <2>. T \in SUBSET Nat
    OBVIOUS
  <2>. HIDE DEF T
  <2>. QED BY <1>1, <1>2, Turns
<1>4. \E g \in [SUBSET (1..N) -> S] : Solves(g, N)
  <2>1. N <= N
    OBVIOUS
  <2>. HIDE DEF Solves
  <2>. QED BY <1>3, <2>1
<1>. QED BY <1>4 DEF Solution

LEMMA Top ==
  ASSUME NEW n \in Nat \ {0}
  PROVE  1..n # {} /\ Max(1..n) = n /\ (1..n) \ {Max(1..n)} = 1..(n - 1)
<1>1. 1..n \in SUBSET (1..n) /\ n \in 1..n
  OBVIOUS
<1>2. Max(1..n) \in 1..n /\ n <= Max(1..n)
  BY <1>1, Greatest
<1>3. Max(1..n) = n
  BY <1>2
<1>. QED BY <1>1, <1>3

\* The value of a fold is the last value of its loop: the loop starts with base, and
\* each turn makes its value of the one before.
THEOREM FoldIsLoop ==
  ASSUME \A x \in Values, e \in Elements : Turn(x, e) \in Values,
         NEW base \in Values, NEW more \in Seq(Elements)
  PROVE  \E f \in [0..Len(more) -> Values] :
           /\ f[0] = base
           /\ \A n \in 1..Len(more) : f[n] = Turn(f[n - 1], more[n])
           /\ f[Len(more)] = FoldLeft(Turn, base, more)
<1>. DEFINE N == Len(more)
            G == [x \in Values \X (1..N) |-> Turn(x[1], more[x[2]])]
            Solves(iter) ==
              iter = [s \in SUBSET (1..N) |->
                        IF s = {} THEN base ELSE Turn(iter[s \ {Max(s)}], more[Max(s)])]
            chosen == CHOOSE iter : Solves(iter)
<1>1. N \in Nat /\ DOMAIN more = 1..N /\ \A n \in 1..N : more[n] \in Elements
  OBVIOUS
<1>2. \A x \in Values, n \in 1..N : Turn(x, more[n]) \in Values
  BY <1>1
<1>3. Solves(chosen)
  <2>1. G \in [Values \X (1..N) -> Values]
    BY <1>2
  <2>2. PICK g \in [SUBSET (1..N) -> Values] :
          \A s \in SUBSET (1..N) :
            g[s] = IF s = {} THEN base ELSE G[<<g[s \ {Max(s)}], Max(s)>>]
    <3>1. N \in Nat /\ G \in [Values \X (1..N) -> Values]
      BY <1>1, <2>1
    <3>. HIDE DEF G, N
    <3>2. \E g \in [SUBSET (1..N) -> Values] :
            Solution(g, base, N, G)
      BY <3>1, Recursion
    <3>. QED BY <3>2 DEF Solution
  <2>3. ASSUME NEW s \in SUBSET (1..N), s # {}
        PROVE  G[<<g[s \ {Max(s)}], Max(s)>>] = Turn(g[s \ {Max(s)}], more[Max(s)])
    <3>1. Max(s) \in 1..N
      BY <1>1, <2>3, Greatest
    <3>2. g[s \ {Max(s)}] \in Values
      OBVIOUS
    <3>. QED BY <3>1, <3>2
  <2>4. Solves(g)
    <3>. HIDE DEF G, N
    <3>. QED BY <2>2, <2>3
  <2>. HIDE DEF Solves
  <2>. QED BY <2>4
<1>4. FoldLeft(Turn, base, more) = chosen[1..N]
  BY <1>1 DEF FoldLeft, MapThenFoldSet
<1>. HIDE DEF chosen, N
<1>. DEFINE f == [n \in 0..N |-> chosen[1..n]]
<1>5. f[0] = base
  BY <1>1, <1>3
<1>6. ASSUME NEW n \in 1..N PROVE f[n] = Turn(f[n - 1], more[n])
  <2>1. n \in 1..N /\ n \in Nat \ {0} /\ n - 1 \in 0..N /\ 1..n \in SUBSET (1..N)
    BY <1>1
  <2>2. chosen[1..n] = Turn(chosen[1..(n - 1)], more[n])
    BY <1>3, <2>1, Top
  <2>. QED BY <2>1, <2>2
<1>7. \A n \in 0..N : f[n] \in Values
  <2>. DEFINE T == {n \in Nat : n \in 0..N => f[n] \in Values}
  <2>. HIDE DEF f
  <2>1. 0 \in T
    BY <1>5
  <2>2. ASSUME NEW n \in T PROVE n + 1 \in T
    <3>1. SUFFICES ASSUME n + 1 \in 0..N PROVE f[n + 1] \in Values
      OBVIOUS
    <3>2. n + 1 \in 1..N /\ (n + 1) - 1 = n /\ n \in 0..N
      BY <1>1, <3>1
    <3>. QED BY <1>2, <1>6, <3>2
  <2>3. T = Nat
    <3>. T \in SUBSET Nat
      OBVIOUS
    <3>. HIDE DEF T
    <3>. QED BY <2>1, <2>2, Induction
  <2>. QED BY <1>1, <2>3
<1>8. f \in [0..N -> Values] /\ f[N] = chosen[1..N]
  BY <1>1, <1>7
<1>. QED BY <1>4, <1>5, <1>6, <1>8 DEF N
=============================================================================
