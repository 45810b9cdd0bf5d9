------------------------------ MODULE Recursion ------------------------------
(***************************************************************************)
(* Functions that are defined from one index to the next, and what holds   *)
(* of every index: the rules of the engine apply triggers and effects one  *)
(* after the other.  A property is the set of what has it.                 *)
(***************************************************************************)
EXTENDS Integers, FiniteSetTheorems, WellFoundedInduction, TLAPS

\* By the least number outside of S: the sets 0..x are finite, so one of those with
\* x outside of S holds no other.
LEMMA SetInduction ==
    ASSUME NEW S, 0 \in S, \A n \in Nat : n \in S => n + 1 \in S
    PROVE  Nat \subseteq S
<1>. DEFINE T == {0..x : x \in Nat \ S}
            R == StrictSubsetOrdering(Nat)
<1>. SUFFICES ASSUME T # {}
              PROVE  FALSE
  OBVIOUS
<1>1. T \subseteq FiniteSubsetsOf(Nat)
  <2>1. ASSUME NEW x \in Nat
        PROVE  0..x \in FiniteSubsetsOf(Nat)
    <3>1. IsFiniteSet(0..x)
      BY FS_Interval
    <3>2. 0..x \subseteq Nat
      OBVIOUS
    <3>. QED
      BY <3>1, <3>2 DEF FiniteSubsetsOf
  <2>. QED
    BY <2>1
<1>2. PICK t \in T : \A u \in T : ~(<<u, t>> \in R)
  <2>1. IsWellFoundedOn(R, FiniteSubsetsOf(Nat))
    BY FS_StrictSubsetOrderingWellFounded
  <2>. HIDE DEF R, T
  <2>. QED
    BY <1>1, <2>1, WFMin
<1>3. PICK x \in Nat \ S : t = 0..x
  BY <1>2
<1>4. x # 0
  BY <1>3
<1>5. x - 1 \in Nat \ S
  <2>1. x - 1 \in Nat /\ (x - 1) + 1 = x
    BY <1>3, <1>4
  <2>. QED
    BY <1>3, <2>1
<1>6. 0..(x - 1) \in T
  BY <1>5
<1>7. <<0..(x - 1), 0..x>> \in R
  <2>1. 0..(x - 1) \subseteq 0..x /\ x \in 0..x /\ x \notin 0..(x - 1)
    BY <1>3
  <2>. QED
    BY <1>3, <2>1 DEF StrictSubsetOrdering
<1>. QED
  BY <1>2, <1>3, <1>6, <1>7

\* What the first value has and every value takes over from the one before.
LEMMA Inherited ==
    ASSUME NEW n \in Nat, NEW V, NEW f, f[0] \in V,
           \A i \in 1..n : f[i - 1] \in V => f[i] \in V
    PROVE  \A i \in 0..n : f[i] \in V
<1>. DEFINE S == {k \in Nat : k <= n => f[k] \in V}
<1>1. 0 \in S
  OBVIOUS
<1>2. ASSUME NEW k \in Nat, k \in S
      PROVE  k + 1 \in S
  <2>. SUFFICES ASSUME k + 1 <= n
                PROVE  f[k + 1] \in V
    OBVIOUS
  <2>1. k + 1 \in 1..n /\ (k + 1) - 1 = k /\ f[k] \in V
    BY <1>2
  <2>. QED
    BY <2>1
<1>. HIDE DEF S
<1>3. Nat \subseteq S
  BY <1>1, <1>2, SetInduction
<1>. QED
  BY <1>3 DEF S

\* step[<<i, v>>] is the value at i when v is the one before.
Iterates(f, n, first, step) ==
    \A i \in 0..n : f[i] = IF i = 0 THEN first ELSE step[<<i, f[i - 1]>>]

LEMMA Iteration ==
    ASSUME NEW n \in Nat, NEW V, NEW first \in V, NEW step \in [(1..n) \X V -> V]
    PROVE  \E f \in [0..n -> V] : Iterates(f, n, first, step)
<1>. DEFINE Fits(k, f) == \A i \in 0..k : f[i] = IF i = 0 THEN first ELSE step[<<i, f[i - 1]>>]
            S == {k \in Nat : k <= n => \E f \in [0..k -> V] : Fits(k, f)}
<1>1. 0 \in S
  <2>. DEFINE f == [i \in 0..0 |-> first]
  <2>1. f \in [0..0 -> V]
    OBVIOUS
  <2>2. Fits(0, f)
    OBVIOUS
  <2>. QED
    BY <2>1, <2>2
<1>2. ASSUME NEW k \in Nat, k \in S
      PROVE  k + 1 \in S
  <2>. SUFFICES ASSUME k + 1 <= n
                PROVE  \E f \in [0..k + 1 -> V] : Fits(k + 1, f)
    OBVIOUS
  <2>1. PICK f \in [0..k -> V] : Fits(k, f)
    BY <1>2
  <2>. DEFINE g == [i \in 0..k + 1 |-> IF i = k + 1 THEN step[<<k + 1, f[k]>>] ELSE f[i]]
  <2>2. k + 1 \in 1..n /\ f[k] \in V
    OBVIOUS
  <2>3. step[<<k + 1, f[k]>>] \in V
    BY <2>2
  <2>4. g \in [0..k + 1 -> V]
    BY <2>3
  <2>5. ASSUME NEW i \in 0..k + 1
        PROVE  g[i] = IF i = 0 THEN first ELSE step[<<i, g[i - 1]>>]
    <3>1. CASE i = k + 1
      <4>1. g[k + 1] = step[<<k + 1, f[k]>>]
        OBVIOUS
      <4>2. g[k] = f[k] /\ (k + 1) - 1 = k /\ k + 1 # 0
        OBVIOUS
      <4>. HIDE DEF g
      <4>. QED
        BY <3>1, <4>1, <4>2
    <3>2. CASE i # k + 1
      <4>1. i \in 0..k /\ g[i] = f[i]
        BY <3>2
      <4>2. f[i] = IF i = 0 THEN first ELSE step[<<i, f[i - 1]>>]
        BY <2>1, <4>1
      <4>3. i # 0 => g[i - 1] = f[i - 1]
        BY <4>1
      <4>. QED
        BY <4>1, <4>2, <4>3
    <3>. QED
      BY <3>1, <3>2
  <2>6. Fits(k + 1, g)
    BY <2>5
  <2>. QED
    BY <2>4, <2>6
<1>. HIDE DEF S
<1>3. n \in S
  BY <1>1, <1>2, SetInduction
<1>. QED
  BY <1>3 DEF S, Iterates

-----------------------------------------------------------------------------
(* Sums over finite sets. *)

\* A finite set is reached from its parts: one without the property would have a
\* smallest part without it.
LEMMA PartsInduction ==
    ASSUME NEW S, IsFiniteSet(S), NEW P,
           \A T \in SUBSET S : (\A U \in (SUBSET T) \ {T} : U \in P) => T \in P
    PROVE  SUBSET S \subseteq P
<1>. DEFINE Q == {T \in SUBSET S : T \notin P}
            R == StrictSubsetOrdering(S)
<1>. SUFFICES ASSUME Q # {}
              PROVE  FALSE
  OBVIOUS
<1>1. Q \subseteq FiniteSubsetsOf(S)
  BY FS_Subset DEF FiniteSubsetsOf
<1>2. PICK T \in Q : \A U \in Q : ~(<<U, T>> \in R)
  <2>1. IsWellFoundedOn(R, FiniteSubsetsOf(S))
    BY FS_StrictSubsetOrderingWellFounded
  <2>. HIDE DEF R, Q
  <2>. QED
    BY <1>1, <2>1, WFMin
<1>3. \A U \in (SUBSET T) \ {T} : U \in P
  <2>1. \A U \in (SUBSET T) \ {T} : <<U, T>> \in R /\ U \in SUBSET S
    BY <1>2 DEF StrictSubsetOrdering
  <2>. QED
    BY <1>2, <2>1
<1>4. T \in P
  BY <1>2, <1>3
<1>. QED
  BY <1>2, <1>4

LEMMA FiniteInduction ==
    ASSUME NEW S, IsFiniteSet(S), NEW P, {} \in P,
           \A T \in SUBSET S : \A a \in S \ T : T \in P => T \cup {a} \in P
    PROVE  S \in P
<1>1. ASSUME NEW T \in SUBSET S, \A U \in (SUBSET T) \ {T} : U \in P
      PROVE  T \in P
  <2>1. CASE T = {}
    BY <2>1
  <2>2. ASSUME NEW a \in T
        PROVE  T \in P
    <3>1. (T \ {a}) \cup {a} = T /\ T \ {a} \in (SUBSET T) \ {T} /\ T \ {a} \in SUBSET S
          /\ a \in S \ (T \ {a})
      OBVIOUS
    <3>2. T \ {a} \in P
      BY <1>1, <3>1
    <3>. QED
      BY <3>1, <3>2
  <2>. QED
    BY <2>1, <2>2
<1>. QED
  BY <1>1, PartsInduction

\* h adds f up: the sum over a set is what one of its elements adds to the others.
Adds(h, f, S) ==
    /\ h \in [SUBSET S -> Int] /\ h[{}] = 0
    /\ \A T \in SUBSET S : \A x \in T : h[T] = f[x] + h[T \ {x}]

LEMMA AddsUp ==
    ASSUME NEW S, IsFiniteSet(S), NEW f, \A x \in S : f[x] \in Int
    PROVE  \E h : Adds(h, f, S)
<1>. DEFINE P == {T \in SUBSET S : \E h : Adds(h, f, T)}
<1>1. {} \in P
  <2>. DEFINE h == [T \in SUBSET {} |-> 0]
  <2>1. Adds(h, f, {})
    BY DEF Adds
  <2>. QED
    BY <2>1
<1>2. ASSUME NEW T \in SUBSET S, NEW a \in S \ T, T \in P
      PROVE  T \cup {a} \in P
  <2>1. PICK h : Adds(h, f, T)
    BY <1>2
  <2>. DEFINE V == T \cup {a}
              g == [U \in SUBSET V |-> IF a \in U THEN f[a] + h[U \ {a}] ELSE h[U]]
  <2>2. \A U \in SUBSET T : h[U] \in Int
    BY <2>1 DEF Adds
  <2>3. f[a] \in Int /\ \A x \in T : f[x] \in Int
    OBVIOUS
  <2>4. g \in [SUBSET V -> Int]
    <3>1. ASSUME NEW U \in SUBSET V
          PROVE  (IF a \in U THEN f[a] + h[U \ {a}] ELSE h[U]) \in Int
      <4>1. U \ {a} \in SUBSET T /\ (a \notin U => U \in SUBSET T)
        OBVIOUS
      <4>. QED
        BY <2>2, <2>3, <4>1
    <3>. QED
      BY <3>1
  <2>5. g[{}] = 0
    BY <2>1 DEF Adds
  <2>6. ASSUME NEW U \in SUBSET V, NEW x \in U
        PROVE  g[U] = f[x] + g[U \ {x}]
    <3>1. CASE a \notin U
      <4>1. U \in SUBSET T /\ g[U] = h[U] /\ g[U \ {x}] = h[U \ {x}]
        BY <3>1
      <4>. QED
        BY <2>1, <4>1 DEF Adds
    <3>2. CASE a \in U /\ x = a
      <4>1. g[U] = f[a] + h[U \ {a}] /\ g[U \ {a}] = h[U \ {a}]
        BY <3>2
      <4>. QED
        BY <3>2, <4>1
    <3>3. CASE a \in U /\ x # a
      <4>. DEFINE W == U \ {a}
      <4>1. g[U] = f[a] + h[W] /\ g[U \ {x}] = f[a] + h[(U \ {x}) \ {a}]
        BY <3>3
      <4>2. (U \ {x}) \ {a} = W \ {x} /\ W \in SUBSET T /\ x \in W /\ W \ {x} \in SUBSET T
        BY <3>3
      <4>3. h[W] = f[x] + h[W \ {x}]
        BY <2>1, <4>2 DEF Adds
      <4>4. h[W \ {x}] \in Int /\ f[x] \in Int
        BY <2>2, <2>3, <4>2
      <4>. HIDE DEF g, W
      <4>5. g[U \ {x}] = f[a] + h[W \ {x}]
        BY <4>1, <4>2
      <4>. QED
        BY <2>3, <4>1, <4>3, <4>4, <4>5
    <3>. QED
      BY <3>1, <3>2, <3>3
  <2>. HIDE DEF g
  <2>7. Adds(g, f, V)
    BY <2>4, <2>5, <2>6 DEF Adds
  <2>. QED
    BY <2>7
<1>. HIDE DEF P
<1>3. S \in P
  BY <1>1, <1>2, FiniteInduction
<1>. QED
  BY <1>3 DEF P

LEMMA SumIs ==
    ASSUME NEW S, IsFiniteSet(S), NEW f, NEW h, Adds(h, f, S)
    PROVE  SumFunctionOnSet(f, S) = h[S]
<1>. DEFINE Unfolds(g) == g = [T \in SUBSET S |->
                IF T = {} THEN 0
                ELSE f[CHOOSE x \in T : TRUE] + g[T \ {CHOOSE x \in T : TRUE}]]
            sum == CHOOSE g : Unfolds(g)
<1>1. SumFunctionOnSet(f, S) = sum[S]
  BY Zenon DEF SumFunctionOnSet, FoldFunctionOnSet, MapThenFoldSet
<1>2. Unfolds(h)
  <2>1. h = [T \in SUBSET S |-> h[T]]
    BY DEF Adds
  <2>2. ASSUME NEW T \in SUBSET S
        PROVE  h[T] = IF T = {} THEN 0
                ELSE f[CHOOSE x \in T : TRUE] + h[T \ {CHOOSE x \in T : TRUE}]
    BY DEF Adds
  <2>. QED
    BY <2>1, <2>2
<1>3. Unfolds(sum)
  <2>. HIDE DEF Unfolds
  <2>. QED
    BY <1>2
<1>. HIDE DEF sum
<1>. DEFINE P == {T \in SUBSET S : sum[T] = h[T]}
<1>4. ASSUME NEW T \in SUBSET S, \A U \in (SUBSET T) \ {T} : U \in P
      PROVE  T \in P
  <2>1. sum[T] = IF T = {} THEN 0
                 ELSE f[CHOOSE x \in T : TRUE] + sum[T \ {CHOOSE x \in T : TRUE}]
    <3>. HIDE DEF sum
    <3>. QED
      BY <1>3
  <2>2. CASE T = {}
    BY <2>1, <2>2 DEF Adds
  <2>3. CASE T # {}
    <3>. DEFINE x == CHOOSE y \in T : TRUE
    <3>1. x \in T
      BY <2>3
    <3>. HIDE DEF sum
    <3>2. sum[T] = f[x] + sum[T \ {x}]
      BY <2>1, <2>3
    <3>. HIDE DEF x
    <3>3. T \ {x} \in (SUBSET T) \ {T}
      BY <3>1
    <3>4. sum[T \ {x}] = h[T \ {x}]
      BY <1>4, <3>3
    <3>5. h[T] = f[x] + h[T \ {x}]
      BY <3>1 DEF Adds
    <3>. QED
      BY <3>2, <3>4, <3>5
  <2>. QED
    BY <2>2, <2>3
<1>. HIDE DEF P
<1>5. S \in P
  BY <1>4, PartsInduction
<1>. QED
  BY <1>1, <1>5 DEF P

\* What a sum of a finite set is: nothing for no element, a number, and what an
\* element adds to the sum of the others.
LEMMA SumOfNone == ASSUME NEW f PROVE SumFunctionOnSet(f, {}) = 0
<1>. DEFINE h == [T \in SUBSET {} |-> 0]
<1>1. IsFiniteSet({})
  BY FS_EmptySet
<1>2. Adds(h, f, {})
  BY DEF Adds
<1>3. h[{}] = 0
  OBVIOUS
<1>. HIDE DEF h
<1>. QED
  BY <1>1, <1>2, <1>3, SumIs

LEMMA SumOfMore ==
    ASSUME NEW S, IsFiniteSet(S), NEW f, \A x \in S : f[x] \in Int
    PROVE  /\ SumFunctionOnSet(f, S) \in Int
           /\ \A x \in S : SumFunctionOnSet(f, S) = f[x] + SumFunctionOnSet(f, S \ {x})
<1>1. PICK h : Adds(h, f, S)
  BY AddsUp
<1>2. SumFunctionOnSet(f, S) = h[S] /\ h[S] \in Int
  <2>1. SumFunctionOnSet(f, S) = h[S]
    BY <1>1, SumIs
  <2>. QED
    BY <1>1, <2>1 DEF Adds
<1>3. ASSUME NEW x \in S
      PROVE  SumFunctionOnSet(f, S) = f[x] + SumFunctionOnSet(f, S \ {x})
  <2>. DEFINE T == S \ {x}
              g == [U \in SUBSET T |-> h[U]]
  <2>1. IsFiniteSet(T)
    BY FS_Subset
  <2>2. Adds(g, f, T)
    <3>1. g \in [SUBSET T -> Int] /\ g[{}] = 0
      BY <1>1 DEF Adds
    <3>2. ASSUME NEW U \in SUBSET T, NEW y \in U
          PROVE  g[U] = f[y] + g[U \ {y}]
      BY <1>1 DEF Adds
    <3>. QED
      BY <3>1, <3>2 DEF Adds
  <2>3. g[T] = h[T]
    OBVIOUS
  <2>. HIDE DEF g
  <2>4. SumFunctionOnSet(f, T) = h[T]
    BY <2>1, <2>2, <2>3, SumIs
  <2>5. h[S] = f[x] + h[T]
    BY <1>1 DEF Adds
  <2>. QED
    BY <1>2, <2>4, <2>5
<1>. QED
  BY <1>2, <1>3

\* Only what f is on the set counts.
LEMMA SumOfSame ==
    ASSUME NEW S, IsFiniteSet(S), NEW f, NEW g,
           \A x \in S : f[x] \in Int /\ g[x] = f[x]
    PROVE  SumFunctionOnSet(g, S) = SumFunctionOnSet(f, S)
<1>1. PICK h : Adds(h, f, S)
  BY AddsUp
<1>2. Adds(h, g, S)
  <2>1. \A T \in SUBSET S : \A x \in T : h[T] = g[x] + h[T \ {x}]
    BY <1>1 DEF Adds
  <2>. QED
    BY <1>1, <2>1 DEF Adds
<1>. QED
  BY <1>1, <1>2, SumIs
=============================================================================
