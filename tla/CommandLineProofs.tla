-------------------------- MODULE CommandLineProofs --------------------------
(***************************************************************************)
(* Proofs about CommandLine, for every width of a number and every line:   *)
(* parse_u64 accepts exactly the numerals that fit and returns what they   *)
(* denote, and reads back what write_u64 and write_hex print.              *)
(***************************************************************************)
EXTENDS CommandLine, FiniteSetTheorems, SequenceTheorems, WellFoundedInduction, TLAPS

-----------------------------------------------------------------------------
(***************************************************************************)
(* Induction and recursion.  The theorems of the library about them are    *)
(* about operators; these are about sets and functions.                    *)
(***************************************************************************)

\* A set of numbers that is not empty has a smallest one.
LEMMA SmallestNumber ==
    ASSUME NEW T \in SUBSET Nat, T # {}
    PROVE  \E n \in T : \A m \in T : n <= m
  <1>1. PICK n \in T : \A m \in T : <<m, n>> \notin OpToRel(<, Nat)
    BY NatLessThanWellFounded, WFMin
  <1>2. ASSUME NEW m \in T
        PROVE  n <= m
    <2>1. <<m, n>> \in Nat \X Nat /\ <<m, n>>[1] = m /\ <<m, n>>[2] = n
      OBVIOUS
    <2>2. ~ (m < n)
      BY <1>1, <2>1 DEF OpToRel
    <2> QED
      BY <2>2
  <1> QED
    BY <1>2

\* What holds of 0, and of n + 1 if it holds of n, holds of every number.
LEMMA Induction ==
    ASSUME NEW T \in SUBSET Nat, 0 \in T, \A n \in T : n + 1 \in T
    PROVE  T = Nat
  <1> SUFFICES ASSUME T # Nat
               PROVE  FALSE
    OBVIOUS
  <1> DEFINE Missing == Nat \ T
  <1>1. PICK n \in Missing : \A m \in Missing : n <= m
    <2>1. Missing \in SUBSET Nat /\ Missing # {}
      OBVIOUS
    <2> HIDE DEF Missing
    <2> QED
      BY <2>1, SmallestNumber
  <1>2. n \in Nat /\ n # 0 /\ n \notin T
    BY <1>1
  <1>3. n - 1 \in Nat /\ ~ n <= n - 1
    BY <1>2
  <1>4. n - 1 \in T
    BY <1>1, <1>3
  <1>5. (n - 1) + 1 = n
    BY <1>2
  <1> QED
    BY <1>2, <1>4, <1>5

\* What holds of every number if it holds of all smaller ones holds of all.
LEMMA StrongInduction ==
    ASSUME NEW D \in SUBSET Nat, NEW T,
           \A n \in D : (\A m \in D : m < n => m \in T) => n \in T
    PROVE  D \subseteq T
  <1> SUFFICES ASSUME ~ D \subseteq T
               PROVE  FALSE
    OBVIOUS
  <1> DEFINE Missing == D \ T
  <1>1. PICK n \in Missing : \A m \in Missing : n <= m
    <2>1. Missing \in SUBSET Nat /\ Missing # {}
      OBVIOUS
    <2> HIDE DEF Missing
    <2> QED
      BY <2>1, SmallestNumber
  <1>2. \A m \in D : m < n => m \in T
    <2> TAKE m \in D
    <2> HAVE m < n
    <2>1. ~ n <= m
      BY <1>1
    <2> QED
      BY <1>1, <2>1
  <1> QED
    BY <1>1, <1>2

\* A recursive definition of a function from D to S: its value at 0, and the
\* step from its value at a smaller number.
Recursive(D, S, first, before, next) ==
    /\ D \in SUBSET Nat /\ 0 \in D
    /\ first \in S
    /\ before \in [D -> D] /\ \A n \in D : n # 0 => before[n] < n
    /\ next \in [D \X S -> S]

\* Such a function exists.
LEMMA Recursion ==
    ASSUME NEW D, NEW S, NEW first, NEW before, NEW next,
           Recursive(D, S, first, before, next)
    PROVE  \E f \in [D -> S] :
              \A n \in D : f[n] = IF n = 0 THEN first ELSE next[<<n, f[before[n]]>>]
  <1>0. /\ D \in SUBSET Nat /\ 0 \in D
        /\ first \in S
        /\ before \in [D -> D] /\ \A n \in D : n # 0 => before[n] < n
        /\ next \in [D \X S -> S]
    BY DEF Recursive
  <1> USE <1>0
  <1> DEFINE value_at(f, n) == IF n = 0 THEN first ELSE next[<<n, f[before[n]]>>]
             UpTo(n) == {f \in [D -> S] : \A k \in D : k <= n => f[k] = value_at(f, k)}
  <1>1. ASSUME NEW f \in [D -> S], NEW n \in D
        PROVE  value_at(f, n) \in S
    OBVIOUS
  <1>2. \A n \in Nat : UpTo(n) # {}
    <2> DEFINE T == {n \in Nat : UpTo(n) # {}}
    <2>1. 0 \in T
      <3>1. [k \in D |-> first] \in UpTo(0)
        OBVIOUS
      <3> QED
        BY <3>1
    <2>2. ASSUME NEW n \in T
          PROVE  n + 1 \in T
      <3>1. PICK f \in [D -> S] : \A k \in D : k <= n => f[k] = value_at(f, k)
        OBVIOUS
      <3> DEFINE g == [k \in D |-> IF k = n + 1 THEN value_at(f, k) ELSE f[k]]
      <3>2. g \in [D -> S]
        BY <1>1
      <3>3. ASSUME NEW k \in D, k <= n + 1
            PROVE  g[k] = value_at(g, k)
        <4>1. k # 0 => before[k] \in D /\ before[k] < k /\ before[k] # n + 1
          BY <3>3
        <4>2. value_at(g, k) = value_at(f, k)
          BY <4>1
        <4>3. CASE k = n + 1
          BY <4>2, <4>3
        <4>4. CASE k # n + 1
          <5>1. k <= n
            BY <3>3, <4>4
          <5> QED
            BY <3>1, <4>2, <4>4, <5>1
        <4> QED
          BY <4>3, <4>4
      <3>4. g \in UpTo(n + 1)
        <4> HIDE DEF g
        <4> QED
          BY <3>2, <3>3
      <3> HIDE DEF UpTo
      <3> QED
        BY <3>4
    <2>3. T = Nat
      <3> HIDE DEF UpTo
      <3>1. T \in SUBSET Nat /\ \A n \in T : n + 1 \in T
        BY <2>2
      <3> HIDE DEF T
      <3> QED
        BY <2>1, <3>1, Induction
    <2> QED
      BY <2>3
  <1>3. ASSUME NEW m \in Nat, NEW n \in Nat, NEW f \in UpTo(m), NEW g \in UpTo(n)
        PROVE  \A k \in D : k <= m /\ k <= n => f[k] = g[k]
    <2> DEFINE T == {k \in D : k <= m /\ k <= n => f[k] = g[k]}
    <2>1. ASSUME NEW k \in D, \A j \in D : j < k => j \in T, k <= m, k <= n
          PROVE  f[k] = g[k]
      <3>1. k # 0 => f[before[k]] = g[before[k]]
        <4> SUFFICES ASSUME k # 0
                     PROVE  f[before[k]] = g[before[k]]
          OBVIOUS
        <4>1. before[k] \in D /\ before[k] < k /\ before[k] \in T
          BY <2>1
        <4>2. before[k] <= m /\ before[k] <= n
          <5>1. before[k] \in Nat /\ k \in Nat /\ k <= m /\ k <= n
            BY <2>1, <4>1
          <5> QED
            BY <4>1, <5>1
        <4> QED
          BY <4>1, <4>2
      <3>2. f[k] = value_at(f, k) /\ g[k] = value_at(g, k)
        BY <2>1
      <3> QED
        BY <3>1, <3>2
    <2>2. D \subseteq T
      <3>1. \A k \in D : (\A j \in D : j < k => j \in T) => k \in T
        BY <2>1
      <3> HIDE DEF T
      <3> QED
        BY <3>1, StrongInduction
    <2> QED
      BY <2>2
  <1> DEFINE upto == [n \in D |-> CHOOSE f \in UpTo(n) : TRUE]
             F == [n \in D |-> upto[n][n]]
  <1>4. \A n \in D : upto[n] \in UpTo(n)
    BY <1>2
  <1> HIDE DEF upto
  <1>5. F \in [D -> S]
    BY <1>4
  <1>6. ASSUME NEW n \in D
        PROVE  F[n] = value_at(F, n)
    <2>1. upto[n][n] = value_at(upto[n], n)
      <3>1. n \in Nat /\ n <= n
        OBVIOUS
      <3> HIDE DEF value_at
      <3> QED
        BY <1>4, <3>1
    <2>2. n # 0 => upto[n][before[n]] = upto[before[n]][before[n]]
      <3> SUFFICES ASSUME n # 0
                   PROVE  upto[n][before[n]] = upto[before[n]][before[n]]
        OBVIOUS
      <3>1. before[n] \in D /\ before[n] < n /\ before[n] \in Nat /\ n \in Nat
        OBVIOUS
      <3>2. upto[n] \in UpTo(n) /\ upto[before[n]] \in UpTo(before[n])
        BY <1>4, <3>1
      <3> HIDE DEF UpTo
      <3>3. before[n] <= n /\ before[n] <= before[n]
        BY <3>1
      <3> QED
        BY <1>3, <3>1, <3>2, <3>3
    <2> QED
      BY <2>1, <2>2
  <1> HIDE DEF F
  <1> QED
    BY <1>5, <1>6

-----------------------------------------------------------------------------
(***************************************************************************)
(* Powers and place values.                                                *)
(***************************************************************************)

\* Power is what its recursive definition says.
LEMMA Powers ==
    ASSUME NEW b \in Nat
    PROVE  /\ Power(b, 0) = 1
           /\ \A n \in Nat : Power(b, n) \in Nat /\ Power(b, n + 1) = b * Power(b, n)
  <1> DEFINE before == [n \in Nat |-> IF n = 0 THEN 0 ELSE n - 1]
             next == [x \in Nat \X Nat |-> b * x[2]]
             power == CHOOSE f : f = [n \in Nat |-> IF n = 0 THEN 1 ELSE b * f[n - 1]]
  <1>1. before \in [Nat -> Nat] /\ \A n \in Nat : n # 0 => before[n] < n
    OBVIOUS
  <1>2. next \in [Nat \X Nat -> Nat]
    OBVIOUS
  <1>3. PICK f \in [Nat -> Nat] :
           \A n \in Nat : f[n] = IF n = 0 THEN 1 ELSE next[<<n, f[before[n]]>>]
    <2>1. Nat \in SUBSET Nat /\ 0 \in Nat /\ 1 \in Nat
      OBVIOUS
    <2> HIDE DEF before, next
    <2>2. Recursive(Nat, Nat, 1, before, next)
      BY <1>1, <1>2, <2>1 DEF Recursive
    <2> QED
      BY <2>2, Recursion
  <1>4. \A n \in Nat : f[n] = IF n = 0 THEN 1 ELSE b * f[n - 1]
    <2> TAKE n \in Nat
    <2>1. CASE n = 0
      BY <1>3, <2>1
    <2>2. CASE n # 0
      <3>1. before[n] = n - 1 /\ f[n - 1] \in Nat
        BY <2>2
      <3>2. next[<<n, f[n - 1]>>] = b * f[n - 1]
        BY <3>1
      <3> QED
        BY <1>3, <2>2, <3>1, <3>2
    <2> QED
      BY <2>1, <2>2
  <1>5. f = [n \in Nat |-> IF n = 0 THEN 1 ELSE b * f[n - 1]]
    BY <1>4
  <1>6. power = [n \in Nat |-> IF n = 0 THEN 1 ELSE b * power[n - 1]]
    BY <1>5
  <1>7. \A n \in Nat : Power(b, n) = power[n]
    BY DEF Power
  <1> HIDE DEF power
  <1>8. Power(b, 0) = 1 /\ \A n \in Nat : Power(b, n + 1) = b * Power(b, n)
    BY <1>6, <1>7
  <1> DEFINE T == {n \in Nat : Power(b, n) \in Nat}
  <1>9. T = Nat
    <2>1. 0 \in T /\ \A n \in T : n + 1 \in T
      BY <1>8
    <2>2. T \in SUBSET Nat
      OBVIOUS
    <2> HIDE DEF T
    <2> QED
      BY <2>1, <2>2, Induction
  <1>10. \A n \in Nat : n \in T
    BY <1>9
  <1> QED
    BY <1>8, <1>10

\* The powers of a base that is not 0 are not 0.
LEMMA PowersPositive ==
    ASSUME NEW b \in Nat \ {0}
    PROVE  \A n \in Nat : Power(b, n) \in Nat \ {0}
  <1> DEFINE T == {n \in Nat : Power(b, n) \in Nat \ {0}}
  <1>1. 0 \in T
    BY Powers
  <1>2. ASSUME NEW n \in T
        PROVE  n + 1 \in T
    <2>1. Power(b, n + 1) = b * Power(b, n)
      BY Powers
    <2> QED
      BY <2>1
  <1>3. T = Nat
    <2>1. T \in SUBSET Nat /\ \A n \in T : n + 1 \in T
      BY <1>2
    <2> HIDE DEF T
    <2> QED
      BY <1>1, <2>1, Induction
  <1> QED
    BY <1>3

\* The partial sums of a place value.
LEMMA PartialSums ==
    ASSUME NEW s \in Seq(Nat), NEW b \in Nat
    PROVE  \E f \in [0 .. Len(s) -> Nat] :
              /\ f[0] = 0 /\ PlaceValue(s, b) = f[Len(s)]
              /\ \A n \in 1 .. Len(s) : f[n] = f[n - 1] + s[n] * Power(b, Len(s) - n)
  <1> DEFINE L == Len(s)
             term(n) == s[n] * Power(b, L - n)
             before == [n \in 0 .. L |-> IF n = 0 THEN 0 ELSE n - 1]
             next == [x \in (0 .. L) \X Nat |-> IF x[1] = 0 THEN 0 ELSE x[2] + term(x[1])]
             sum == CHOOSE f : f = [n \in 0 .. L |-> IF n = 0 THEN 0
                                                     ELSE f[n - 1] + term(n)]
  <1>1. L \in Nat
    OBVIOUS
  <1>2. \A n \in 1 .. L : term(n) \in Nat
    <2> TAKE n \in 1 .. L
    <2>1. s[n] \in Nat /\ L - n \in Nat
      OBVIOUS
    <2>2. Power(b, L - n) \in Nat
      BY <2>1, Powers
    <2> QED
      BY <2>1, <2>2
  <1>3. before \in [0 .. L -> 0 .. L] /\ \A n \in 0 .. L : n # 0 => before[n] < n
    BY <1>1
  <1> HIDE DEF term
  <1>4. next \in [(0 .. L) \X Nat -> Nat]
    <2>1. ASSUME NEW x \in (0 .. L) \X Nat
          PROVE  (IF x[1] = 0 THEN 0 ELSE x[2] + term(x[1])) \in Nat
      <3>1. x[1] \in 0 .. L /\ x[2] \in Nat /\ (x[1] # 0 => x[1] \in 1 .. L)
        BY <1>1
      <3> QED
        BY <1>2, <3>1
    <2> QED
      BY <2>1
  <1>5. PICK f \in [0 .. L -> Nat] :
           \A n \in 0 .. L : f[n] = IF n = 0 THEN 0 ELSE next[<<n, f[before[n]]>>]
    <2>1. 0 .. L \in SUBSET Nat /\ 0 \in 0 .. L /\ 0 \in Nat
      BY <1>1
    <2> HIDE DEF before, next, L
    <2> DEFINE D == 0 .. L
    <2>2. Recursive(D, Nat, 0, before, next)
      BY <1>3, <1>4, <2>1 DEF Recursive
    <2>3. \E f \in [D -> Nat] :
             \A n \in D : f[n] = IF n = 0 THEN 0 ELSE next[<<n, f[before[n]]>>]
      <3> HIDE DEF D
      <3> QED
        BY <2>2, Recursion
    <2> QED
      BY <2>3
  <1>6. \A n \in 0 .. L : f[n] = IF n = 0 THEN 0 ELSE f[n - 1] + term(n)
    <2> TAKE n \in 0 .. L
    <2>1. CASE n = 0
      BY <1>5, <2>1
    <2>2. CASE n # 0
      <3>1. before[n] = n - 1 /\ n - 1 \in 0 .. L /\ f[n - 1] \in Nat
        BY <1>1, <2>2
      <3>2. next[<<n, f[n - 1]>>] = f[n - 1] + term(n)
        BY <2>2, <3>1
      <3> QED
        BY <1>5, <2>2, <3>1, <3>2
    <2> QED
      BY <2>1, <2>2
  <1>7. f = [n \in 0 .. L |-> IF n = 0 THEN 0 ELSE f[n - 1] + term(n)]
    BY <1>6
  <1>8. sum = [n \in 0 .. L |-> IF n = 0 THEN 0 ELSE sum[n - 1] + term(n)]
    BY <1>7
  <1>9. PlaceValue(s, b) = sum[L]
    BY DEF PlaceValue, term
  <1> HIDE DEF sum
  <1>10. \A n \in 0 .. L : sum[n] \in Nat
    <2> DEFINE T == {n \in 0 .. L : sum[n] \in Nat}
    <2>1. ASSUME NEW n \in 0 .. L, \A m \in 0 .. L : m < n => m \in T
          PROVE  n \in T
      <3>1. CASE n = 0
        BY <1>8, <3>1
      <3>2. CASE n # 0
        <4>1. n - 1 \in 0 .. L /\ n - 1 < n /\ n \in 1 .. L
          BY <1>1, <3>2
        <4>2. sum[n - 1] \in Nat
          BY <2>1, <4>1
        <4>3. term(n) \in Nat
          BY <1>2, <4>1
        <4>4. sum[n] = sum[n - 1] + term(n)
          BY <1>8, <3>2
        <4> QED
          BY <4>2, <4>3, <4>4
      <3> QED
        BY <3>1, <3>2
    <2>2. 0 .. L \in SUBSET Nat
      BY <1>1
    <2> HIDE DEF T, L
    <2>3. 0 .. L \subseteq T
      BY <2>1, <2>2, StrongInduction
    <2> QED
      BY <2>3 DEF T
  <1>11. sum \in [0 .. L -> Nat] /\ sum[0] = 0
    BY <1>1, <1>8, <1>10
  <1>12. \A n \in 1 .. L : sum[n] = sum[n - 1] + term(n)
    BY <1>1, <1>8
  <1> QED
    BY <1>9, <1>11, <1>12 DEF term

\* Horner's scheme, which parse_u64 reads a number by: the place value is had
\* from one digit after the other.
LEMMA Horner ==
    ASSUME NEW s \in Seq(Nat), NEW b \in Nat,
           NEW h \in [0 .. Len(s) -> Nat], h[0] = 0,
           \A n \in 1 .. Len(s) : h[n] = h[n - 1] * b + s[n]
    PROVE  PlaceValue(s, b) = h[Len(s)]
  <1> DEFINE L == Len(s)
             p(n) == Power(b, L - n)
  <1>1. L \in Nat
    OBVIOUS
  <1>2. PICK f \in [0 .. L -> Nat] :
           /\ f[0] = 0 /\ PlaceValue(s, b) = f[L]
           /\ \A n \in 1 .. L : f[n] = f[n - 1] + s[n] * p(n)
    BY PartialSums
  <1> DEFINE T == {n \in 0 .. L : f[n] = h[n] * p(n)}
  <1>3. ASSUME NEW n \in 0 .. L
        PROVE  p(n) \in Nat
    <2>1. L - n \in Nat
      BY <1>1
    <2> QED
      BY <2>1, Powers
  <1>4. ASSUME NEW n \in 0 .. L, \A m \in 0 .. L : m < n => m \in T
        PROVE  n \in T
    <2>1. CASE n = 0
      BY <1>2, <1>3, <2>1
    <2>2. CASE n # 0
      <3>1. n - 1 \in T /\ n \in 1 .. L
        BY <1>1, <1>4, <2>2
      <3>2. L - n \in Nat /\ L - (n - 1) = (L - n) + 1
        BY <1>1
      <3>3. p(n - 1) = b * p(n)
        BY <3>2, Powers
      <3>4. /\ f[n - 1] = h[n - 1] * p(n - 1) /\ f[n] = f[n - 1] + s[n] * p(n)
            /\ h[n] = h[n - 1] * b + s[n]
        BY <1>2, <3>1
      <3>5. h[n - 1] \in Nat /\ s[n] \in Nat /\ p(n) \in Nat
        <4>1. n - 1 \in 0 .. L /\ n \in 1 .. L
          BY <1>1, <3>1
        <4>2. s[n] \in Nat
          BY <4>1
        <4>3. p(n) \in Nat
          BY <1>3
        <4> QED
          BY <4>1, <4>2, <4>3
      <3> HIDE DEF p
      <3>6. \A x, y, z, w \in Nat : x * (y * z) + w * z = (x * y + w) * z
        OBVIOUS
      <3> QED
        BY <3>3, <3>4, <3>5, <3>6 DEF T
    <2> QED
      BY <2>1, <2>2
  <1>5. 0 .. L \subseteq T
    <2>1. 0 .. L \in SUBSET Nat
      BY <1>1
    <2> HIDE DEF T, L
    <2> QED
      BY <1>4, <2>1, StrongInduction
  <1>6. f[L] = h[L] * p(L)
    <2>1. L \in T
      <3>1. L \in 0 .. L
        BY <1>1
      <3> HIDE DEF T
      <3> QED
        BY <1>5, <3>1
    <2> HIDE DEF p
    <2> QED
      BY <2>1
  <1>7. p(L) = 1
    <2>1. L - L = 0
      BY <1>1
    <2> QED
      BY <2>1, Powers
  <1> QED
    BY <1>1, <1>2, <1>6, <1>7

\* The place values of all prefixes of a sequence of digits at once: each comes
\* from the one before by Horner's scheme.
LEMMA PlaceValues ==
    ASSUME NEW s \in Seq(Nat), NEW b \in Nat
    PROVE  \E h \in [0 .. Len(s) -> Nat] :
              /\ h[0] = 0
              /\ \A n \in 1 .. Len(s) : h[n] = h[n - 1] * b + s[n]
              /\ \A n \in 0 .. Len(s) : PlaceValue(SubSeq(s, 1, n), b) = h[n]
  <1> DEFINE L == Len(s)
             D == 0 .. L
             before == [n \in D |-> IF n = 0 THEN 0 ELSE n - 1]
             next == [x \in D \X Nat |-> IF x[1] = 0 THEN 0 ELSE x[2] * b + s[x[1]]]
  <1>1. L \in Nat /\ \A n \in 1 .. L : s[n] \in Nat
    OBVIOUS
  <1>2. D \in SUBSET Nat /\ 0 \in D /\ before \in [D -> D]
        /\ \A n \in D : n # 0 => before[n] < n
    BY <1>1
  <1>3. next \in [D \X Nat -> Nat]
    <2>1. ASSUME NEW x \in D \X Nat
          PROVE  (IF x[1] = 0 THEN 0 ELSE x[2] * b + s[x[1]]) \in Nat
      <3>1. x[1] \in D /\ x[2] \in Nat
        OBVIOUS
      <3>2. x[1] # 0 => s[x[1]] \in Nat
        BY <1>1, <3>1
      <3>3. x[2] * b \in Nat
        BY <3>1
      <3> QED
        BY <3>2, <3>3
    <2> QED
      BY <2>1
  <1>4. PICK h \in [D -> Nat] :
           \A n \in D : h[n] = IF n = 0 THEN 0 ELSE next[<<n, h[before[n]]>>]
    <2> HIDE DEF before, next, D
    <2>1. Recursive(D, Nat, 0, before, next)
      BY <1>2, <1>3 DEF Recursive
    <2> QED
      BY <2>1, Recursion
  <1>5. h[0] = 0
    BY <1>2, <1>4
  <1>6. ASSUME NEW n \in 1 .. L
        PROVE  h[n] = h[n - 1] * b + s[n]
    <2>1. n \in D /\ n # 0 /\ n - 1 \in D /\ before[n] = n - 1 /\ h[n - 1] \in Nat
      <3>1. n \in D /\ n # 0 /\ n - 1 \in D
        BY <1>1
      <3> HIDE DEF D
      <3> QED
        BY <3>1
    <2>2. next[<<n, h[n - 1]>>] = h[n - 1] * b + s[n]
      BY <2>1
    <2> HIDE DEF next, before, D
    <2> QED
      BY <1>4, <2>1, <2>2
  <1>7. ASSUME NEW n \in 0 .. L
        PROVE  PlaceValue(SubSeq(s, 1, n), b) = h[n]
    <2> DEFINE u == SubSeq(s, 1, n)
               g == [k \in 0 .. n |-> h[k]]
    <2>1. u \in Seq(Nat) /\ Len(u) = n /\ \A k \in 1 .. n : u[k] = s[k]
      BY <1>1
    <2>2. g \in [0 .. n -> Nat] /\ g[0] = 0 /\ g[n] = h[n]
      BY <1>1, <1>5
    <2>3. \A k \in 1 .. n : g[k] = g[k - 1] * b + u[k]
      <3> TAKE k \in 1 .. n
      <3>1. /\ k \in 1 .. L /\ k \in 0 .. n /\ k - 1 \in 0 .. n
            /\ g[k] = h[k] /\ g[k - 1] = h[k - 1] /\ u[k] = s[k]
        BY <1>1, <2>1
      <3> HIDE DEF g, u
      <3> QED
        BY <1>6, <3>1
    <2> HIDE DEF g, u
    <2>4. PlaceValue(u, b) = g[n]
      BY <2>1, <2>2, <2>3, Horner
    <2> QED
      BY <2>2, <2>4 DEF u
  <1> HIDE DEF before, next
  <1> QED
    BY <1>5, <1>6, <1>7

LEMMA PlaceValueType ==
    ASSUME NEW s \in Seq(Nat), NEW b \in Nat
    PROVE  PlaceValue(s, b) \in Nat
  <1>1. Len(s) \in Nat /\ SubSeq(s, 1, Len(s)) = s /\ Len(s) \in 0 .. Len(s)
    OBVIOUS
  <1>2. PICK h \in [0 .. Len(s) -> Nat] :
           \A n \in 0 .. Len(s) : PlaceValue(SubSeq(s, 1, n), b) = h[n]
    BY PlaceValues
  <1> QED
    BY <1>1, <1>2

LEMMA PlaceValueEmpty ==
    ASSUME NEW b \in Nat
    PROVE  PlaceValue(<<>>, b) = 0
  <1> DEFINE e == SubSeq(<<>>, 1, 0)
  <1>1. <<>> \in Seq(Nat) /\ Len(<<>>) = 0 /\ SubSeq(<<>>, 1, 0) = <<>>
    OBVIOUS
  <1>2. PICK h \in [0 .. Len(<<>>) -> Nat] :
           h[0] = 0 /\ \A n \in 0 .. Len(<<>>) : PlaceValue(SubSeq(<<>>, 1, n), b) = h[n]
    BY <1>1, PlaceValues
  <1> QED
    BY <1>1, <1>2

\* One more digit.
LEMMA PlaceValueAppend ==
    ASSUME NEW s \in Seq(Nat), NEW b \in Nat, NEW d \in Nat
    PROVE  PlaceValue(Append(s, d), b) = PlaceValue(s, b) * b + d
  <1> DEFINE t == Append(s, d)
             L == Len(s)
  <1>1. /\ L \in Nat /\ t \in Seq(Nat) /\ Len(t) = L + 1 /\ t[L + 1] = d
        /\ SubSeq(t, 1, L) = s /\ SubSeq(t, 1, L + 1) = t
    <2>1. /\ L \in Nat /\ t \in Seq(Nat) /\ Len(t) = L + 1 /\ t[L + 1] = d
          /\ \A k \in 1 .. L : t[k] = s[k]
      OBVIOUS
    <2> HIDE DEF t
    <2> QED
      BY <2>1
  <1> HIDE DEF t
  <1>2. PICK h \in [0 .. Len(t) -> Nat] :
           /\ \A n \in 1 .. Len(t) : h[n] = h[n - 1] * b + t[n]
           /\ \A n \in 0 .. Len(t) : PlaceValue(SubSeq(t, 1, n), b) = h[n]
    BY <1>1, PlaceValues
  <1>3. L \in 0 .. Len(t) /\ L + 1 \in 0 .. Len(t) /\ L + 1 \in 1 .. Len(t) /\ (L + 1) - 1 = L
    BY <1>1
  <1>4. PlaceValue(s, b) = h[L] /\ PlaceValue(t, b) = h[L + 1]
    BY <1>1, <1>2, <1>3
  <1>5. h[L + 1] = h[L] * b + d
    BY <1>1, <1>2, <1>3
  <1> QED
    BY <1>4, <1>5 DEF t

\* More digits do not make a number smaller.
LEMMA PlaceValuePrefix ==
    ASSUME NEW s \in Seq(Nat), NEW b \in Nat \ {0}, NEW k \in 0 .. Len(s)
    PROVE  PlaceValue(SubSeq(s, 1, k), b) <= PlaceValue(s, b)
  <1> DEFINE L == Len(s)
             D == 0 .. L - k
  <1>1. L \in Nat /\ SubSeq(s, 1, L) = s /\ k \in Nat /\ k <= L
    OBVIOUS
  <1>2. PICK h \in [0 .. L -> Nat] :
           /\ \A n \in 1 .. L : h[n] = h[n - 1] * b + s[n]
           /\ \A n \in 0 .. L : PlaceValue(SubSeq(s, 1, n), b) = h[n]
    BY PlaceValues
  <1>3. ASSUME NEW n \in 1 .. L
        PROVE  h[n - 1] <= h[n]
    <2>1. n - 1 \in 0 .. L /\ n \in 1 .. L
      BY <1>1
    <2>2. h[n - 1] \in Nat /\ s[n] \in Nat
      <3>1. s[n] \in Nat
        OBVIOUS
      <3>2. h[n - 1] \in Nat
        <4> HIDE DEF L
        <4> QED
          BY <2>1
      <3> QED
        BY <3>1, <3>2
    <2>3. h[n] = h[n - 1] * b + s[n]
      BY <1>2
    <2>4. \A x, y \in Nat : x <= x * b + y
      OBVIOUS
    <2> QED
      BY <2>2, <2>3, <2>4
  <1> DEFINE T == {n \in D : h[k] <= h[k + n]}
  <1>4. ASSUME NEW n \in D, \A m \in D : m < n => m \in T
        PROVE  n \in T
    <2>1. CASE n = 0
      <3>1. h[k] \in Nat /\ k + n = k
        BY <1>1, <2>1
      <3> QED
        BY <3>1
    <2>2. CASE n # 0
      <3>1. n - 1 \in D /\ n - 1 < n /\ k + n \in 1 .. L /\ k + (n - 1) = (k + n) - 1
        BY <1>1, <2>2
      <3>2. n - 1 \in T
        BY <1>4, <3>1
      <3>3. h[k] <= h[(k + n) - 1] /\ h[(k + n) - 1] <= h[k + n]
        BY <1>3, <3>1, <3>2
      <3>4. h[k] \in Nat /\ h[(k + n) - 1] \in Nat /\ h[k + n] \in Nat
        <4>1. k \in 0 .. L /\ (k + n) - 1 \in 0 .. L /\ k + n \in 0 .. L
          BY <1>1, <3>1
        <4> QED
          BY <4>1
      <3> QED
        BY <3>3, <3>4
    <2> QED
      BY <2>1, <2>2
  <1>5. L - k \in T
    <2>1. D \in SUBSET Nat /\ L - k \in D
      BY <1>1
    <2> HIDE DEF T, D
    <2> QED
      BY <1>4, <2>1, StrongInduction
  <1>6. h[k] <= h[L]
    <2>1. k + (L - k) = L
      BY <1>1
    <2> QED
      BY <1>5, <2>1
  <1>7. L \in 0 .. L
    BY <1>1
  <1> QED
    BY <1>1, <1>2, <1>6, <1>7

-----------------------------------------------------------------------------
(***************************************************************************)
(* The digits write_u64 and write_hex print.                               *)
(***************************************************************************)

LEMMA DigitsMadeOf ==
    /\ decimal_digits \in [Nat -> Seq(0 .. 9)]
    /\ decimal_digits[0] = <<>>
    /\ \A n \in Nat \ {0} : decimal_digits[n] = Append(decimal_digits[n \div 10], n % 10)
  <1> DEFINE S == Seq(0 .. 9)
             before == [n \in Nat |-> n \div 10]
             next == [x \in Nat \X S |-> Append(x[2], x[1] % 10)]
             body(f, n) == IF n = 0 THEN <<>> ELSE Append(f[n \div 10], n % 10)
  <1>1. before \in [Nat -> Nat] /\ \A n \in Nat : n # 0 => before[n] < n
    OBVIOUS
  <1>2. next \in [Nat \X S -> S]
    <2>1. ASSUME NEW x \in Nat \X S
          PROVE  Append(x[2], x[1] % 10) \in S
      <3>1. x[1] \in Nat /\ x[2] \in S /\ x[1] % 10 \in 0 .. 9
        OBVIOUS
      <3> QED
        BY <3>1
    <2> HIDE DEF S
    <2> QED
      BY <2>1
  <1>3. PICK f \in [Nat -> S] :
           \A n \in Nat : f[n] = IF n = 0 THEN <<>> ELSE next[<<n, f[before[n]]>>]
    <2>1. <<>> \in S /\ Nat \in SUBSET Nat /\ 0 \in Nat
      OBVIOUS
    <2> HIDE DEF before, next, S
    <2>2. Recursive(Nat, S, <<>>, before, next)
      BY <1>1, <1>2, <2>1 DEF Recursive
    <2> QED
      BY <2>2, Recursion
  <1>4. \A n \in Nat : f[n] = body(f, n)
    <2> TAKE n \in Nat
    <2>1. n \div 10 \in Nat /\ before[n] = n \div 10
      OBVIOUS
    <2> HIDE DEF S
    <2>2. f[n \div 10] \in S
      BY <2>1
    <2>3. next[<<n, f[n \div 10]>>] = Append(f[n \div 10], n % 10)
      BY <2>2
    <2> HIDE DEF next, before
    <2> QED
      BY <1>3, <2>1, <2>3
  <1>5. f = [n \in Nat |-> body(f, n)]
    <2> HIDE DEF body, S
    <2> QED
      BY <1>4
  <1>6. decimal_digits = [n \in Nat |-> body(decimal_digits, n)]
    BY <1>5 DEF decimal_digits
  <1>7. /\ decimal_digits[0] = <<>>
        /\ \A n \in Nat \ {0} : decimal_digits[n] = Append(decimal_digits[n \div 10], n % 10)
    BY <1>6
  <1> DEFINE T == {n \in Nat : decimal_digits[n] \in S}
  <1>8. ASSUME NEW n \in Nat, \A m \in Nat : m < n => m \in T
        PROVE  n \in T
    <2>1. CASE n = 0
      <3>1. <<>> \in S
        OBVIOUS
      <3> HIDE DEF S
      <3> QED
        BY <1>7, <2>1, <3>1
    <2>2. CASE n # 0
      <3>1. n \div 10 \in Nat /\ n \div 10 < n /\ n % 10 \in 0 .. 9
        BY <2>2
      <3>2. decimal_digits[n \div 10] \in S
        BY <1>8, <3>1
      <3>3. Append(decimal_digits[n \div 10], n % 10) \in S
        BY <3>1, <3>2
      <3> HIDE DEF S
      <3> QED
        BY <1>7, <2>2, <3>3
    <2> QED
      BY <2>1, <2>2
  <1>9. \A n \in Nat : decimal_digits[n] \in S
    <2>1. Nat \in SUBSET Nat
      OBVIOUS
    <2> HIDE DEF T
    <2>2. Nat \subseteq T
      BY <1>8, <2>1, StrongInduction
    <2> QED
      BY <2>2 DEF T
  <1>10. decimal_digits \in [Nat -> S]
    <2> HIDE DEF body, S
    <2> QED
      BY <1>6, <1>9
  <1> QED
    BY <1>7, <1>10

\* The digits write_u64 prints have the value of the number, and there is one
\* at least unless it is 0.
LEMMA DecimalDigits ==
    ASSUME NEW n \in Nat
    PROVE  /\ decimal_digits[n] \in Seq(0 .. 9)
           /\ PlaceValue(decimal_digits[n], 10) = n
           /\ n # 0 => Len(decimal_digits[n]) > 0
  <1> DEFINE T == {m \in Nat : PlaceValue(decimal_digits[m], 10) = m}
  <1>1. \A m \in Nat : decimal_digits[m] \in Seq(0 .. 9)
    BY DigitsMadeOf
  <1>2. ASSUME NEW m \in Nat, \A k \in Nat : k < m => k \in T
        PROVE  m \in T
    <2>1. CASE m = 0
      <3>1. decimal_digits[m] = <<>>
        BY <2>1, DigitsMadeOf
      <3> QED
        BY <2>1, <3>1, PlaceValueEmpty
    <2>2. CASE m # 0
      <3> DEFINE q == m \div 10
                 s == decimal_digits[q]
      <3>1. q \in Nat /\ q < m /\ m % 10 \in Nat /\ q * 10 + (m % 10) = m
        BY <2>2
      <3>2. s \in Seq(Nat) /\ decimal_digits[m] = Append(s, m % 10)
        <4>1. s \in Seq(0 .. 9)
          BY <1>1, <3>1
        <4>2. decimal_digits[m] = Append(s, m % 10)
          BY <2>2, DigitsMadeOf
        <4> HIDE DEF s
        <4> QED
          BY <4>1, <4>2
      <3>3. PlaceValue(s, 10) = q
        BY <1>2, <3>1
      <3> HIDE DEF q, s
      <3>4. PlaceValue(Append(s, m % 10), 10) = PlaceValue(s, 10) * 10 + (m % 10)
        BY <3>1, <3>2, PlaceValueAppend
      <3> QED
        BY <3>1, <3>2, <3>3, <3>4
    <2> QED
      BY <2>1, <2>2
  <1>3. n \in T
    <2>1. Nat \in SUBSET Nat
      OBVIOUS
    <2> HIDE DEF T
    <2>2. Nat \subseteq T
      BY <1>2, <2>1, StrongInduction
    <2> QED
      BY <2>2
  <1>4. n # 0 => Len(decimal_digits[n]) > 0
    <2> SUFFICES ASSUME n # 0
                 PROVE  Len(decimal_digits[n]) > 0
      OBVIOUS
    <2>1. n \div 10 \in Nat
      OBVIOUS
    <2>2. decimal_digits[n \div 10] \in Seq(0 .. 9) /\ n % 10 \in 0 .. 9
      BY <1>1, <2>1
    <2>3. decimal_digits[n] = Append(decimal_digits[n \div 10], n % 10)
      BY DigitsMadeOf
    <2> QED
      BY <2>2, <2>3
  <1> QED
    BY <1>1, <1>3, <1>4

\* A number below a power of 10 has at most as many digits as the exponent.
LEMMA DecimalLength ==
    ASSUME NEW k \in Nat, NEW n \in Nat, n < Power(10, k)
    PROVE  Len(decimal_digits[n]) <= k
  <1> DEFINE Short(e) == \A m \in Nat : m < Power(10, e) => Len(decimal_digits[m]) <= e
             T == {e \in Nat : Short(e)}
  <1>1. \A m \in Nat : decimal_digits[m] \in Seq(0 .. 9)
    BY DigitsMadeOf
  <1>2. Short(0)
    <2> SUFFICES ASSUME NEW m \in Nat, m < Power(10, 0)
                 PROVE  Len(decimal_digits[m]) <= 0
      OBVIOUS
    <2>1. m = 0
      BY Powers
    <2> QED
      BY <2>1, DigitsMadeOf
  <1>3. ASSUME NEW e \in Nat, Short(e)
        PROVE  Short(e + 1)
    <2> SUFFICES ASSUME NEW m \in Nat, m < Power(10, e + 1)
                 PROVE  Len(decimal_digits[m]) <= e + 1
      OBVIOUS
    <2>1. CASE m = 0
      BY <2>1, DigitsMadeOf
    <2>2. CASE m # 0
      <3>1. Power(10, e) \in Nat /\ Power(10, e + 1) = 10 * Power(10, e)
        BY Powers
      <3>2. m \div 10 \in Nat /\ m \div 10 < Power(10, e)
        BY <3>1
      <3>3. Len(decimal_digits[m \div 10]) <= e
        BY <1>3, <3>2
      <3>4. decimal_digits[m \div 10] \in Seq(0 .. 9) /\ m % 10 \in 0 .. 9
        BY <1>1, <3>2
      <3>5. decimal_digits[m] = Append(decimal_digits[m \div 10], m % 10)
        BY <2>2, DigitsMadeOf
      <3>6. Len(decimal_digits[m]) = Len(decimal_digits[m \div 10]) + 1
        BY <3>4, <3>5
      <3>7. Len(decimal_digits[m \div 10]) \in Nat
        BY <3>4
      <3> QED
        BY <3>3, <3>6, <3>7
    <2> QED
      BY <2>1, <2>2
  <1>4. k \in T
    <2> HIDE DEF Short
    <2>1. T \in SUBSET Nat /\ 0 \in T /\ \A e \in T : e + 1 \in T
      BY <1>2, <1>3
    <2> HIDE DEF T
    <2> QED
      BY <2>1, Induction
  <1> QED
    BY <1>4

LEMMA U64Large ==
    U64 \in Nat /\ U64 >= 16 /\ U64 <= Power(10, 2 * NIBBLES)
  <1>1. NIBBLES \in Nat /\ NIBBLES - 1 \in Nat /\ (NIBBLES - 1) + 1 = NIBBLES
    BY NumbersAssumption
  <1>2. Power(16, NIBBLES - 1) \in Nat \ {0} /\ U64 = 16 * Power(16, NIBBLES - 1)
    <2>1. Power(16, (NIBBLES - 1) + 1) = 16 * Power(16, NIBBLES - 1)
      BY <1>1, Powers
    <2> QED
      BY <1>1, <2>1, PowersPositive DEF U64
  <1> DEFINE T == {n \in Nat : Power(16, n) <= Power(10, 2 * n)}
  <1>3. 0 \in T
    <2>1. Power(16, 0) = 1 /\ Power(10, 0) = 1 /\ 2 * 0 = 0
      BY Powers
    <2> QED
      BY <2>1
  <1>4. ASSUME NEW n \in T
        PROVE  n + 1 \in T
    <2>1. /\ 2 * n \in Nat /\ 2 * n + 1 \in Nat /\ 2 * (n + 1) = (2 * n + 1) + 1
      OBVIOUS
    <2>2. /\ Power(16, n) \in Nat /\ Power(16, n + 1) = 16 * Power(16, n)
          /\ Power(10, 2 * n) \in Nat /\ Power(10, 2 * n + 1) = 10 * Power(10, 2 * n)
          /\ Power(10, (2 * n + 1) + 1) = 10 * Power(10, 2 * n + 1)
      BY <2>1, Powers
    <2>3. Power(16, n) <= Power(10, 2 * n)
      OBVIOUS
    <2>4. Power(16, n + 1) <= Power(10, (2 * n + 1) + 1)
      BY <2>2, <2>3
    <2> QED
      BY <2>1, <2>4
  <1>5. NIBBLES \in T
    <2>1. T \in SUBSET Nat
      OBVIOUS
    <2> HIDE DEF T
    <2>2. T = Nat
      BY <1>3, <1>4, <2>1, Induction
    <2> QED
      BY <1>1, <2>2
  <1> QED
    BY <1>2, <1>5 DEF U64

\* What write_u64 prints is a numeral, and one that fits the argument's buffer.
LEMMA WriteU64 ==
    ASSUME NEW n \in Number
    PROVE  /\ write_u64(n) \in Seq(0 .. 9)
           /\ Len(write_u64(n)) \in 1 .. 2 * NIBBLES
           /\ PlaceValue(write_u64(n), 10) = n
  <1>1. n \in Nat /\ n < Power(10, 2 * NIBBLES) /\ 2 * NIBBLES \in Nat /\ 1 <= 2 * NIBBLES
    <2>1. Power(10, 2 * NIBBLES) \in Nat
      BY NumbersAssumption, Powers
    <2> QED
      BY <2>1, U64Large, NumbersAssumption DEF Number
  <1>2. CASE n = 0
    <2>1. write_u64(n) = <<0>> /\ <<0>> \in Seq(0 .. 9) /\ Len(<<0>>) = 1
      BY <1>2 DEF write_u64
    <2>2. <<>> \in Seq(Nat) /\ Append(<<>>, 0) = <<0>>
      OBVIOUS
    <2>3. PlaceValue(<<>>, 10) = 0
      BY PlaceValueEmpty
    <2>4. PlaceValue(Append(<<>>, 0), 10) = PlaceValue(<<>>, 10) * 10 + 0
      BY <2>2, PlaceValueAppend
    <2>5. PlaceValue(<<0>>, 10) = 0
      BY <2>2, <2>3, <2>4
    <2>6. Len(write_u64(n)) \in 1 .. 2 * NIBBLES
      BY <1>1, <2>1
    <2>7. PlaceValue(write_u64(n), 10) = n
      BY <1>2, <2>1, <2>5
    <2> QED
      BY <2>1, <2>6, <2>7
  <1>3. CASE n # 0
    <2>1. write_u64(n) = decimal_digits[n]
      BY <1>3 DEF write_u64
    <2>2. Len(decimal_digits[n]) <= 2 * NIBBLES
      BY <1>1, DecimalLength
    <2>3. /\ decimal_digits[n] \in Seq(0 .. 9) /\ PlaceValue(decimal_digits[n], 10) = n
          /\ Len(decimal_digits[n]) > 0
      BY <1>1, <1>3, DecimalDigits
    <2>4. Len(decimal_digits[n]) \in Nat
      BY <2>3
    <2> QED
      BY <1>1, <2>1, <2>2, <2>3, <2>4
  <1> QED
    BY <1>2, <1>3

LEMMA Quotient ==
    ASSUME NEW a \in Nat, NEW d \in Nat \ {0}, NEW r \in Nat, r < d
    PROVE  (a * d + r) \div d = a
  <1> DEFINE q == (a * d + r) \div d
             m == (a * d + r) % d
  <1>1. q \in Nat /\ m \in Nat /\ m < d /\ a * d + r = q * d + m
    OBVIOUS
  <1> HIDE DEF q, m
  <1>2. CASE q < a
    <2>1. a - q \in Nat /\ a - q >= 1 /\ (a - q) * d = a * d - q * d
      BY <1>1, <1>2
    <2>2. (a - q) * d >= d
      BY <2>1
    <2> QED
      BY <1>1, <2>1, <2>2
  <1>3. CASE q > a
    <2>1. q - a \in Nat /\ q - a >= 1 /\ (q - a) * d = q * d - a * d
      BY <1>1, <1>3
    <2>2. (q - a) * d >= d
      BY <2>1
    <2> QED
      BY <1>1, <2>1, <2>2
  <1>4. q = a
    BY <1>1, <1>2, <1>3
  <1> QED
    BY <1>4 DEF q

\* Shifting by one more nibble.
LEMMA Shifted ==
    ASSUME NEW n \in Nat, NEW d \in Nat \ {0}
    PROVE  n \div d = (n \div (16 * d)) * 16 + ((n \div d) % 16)
  <1> DEFINE q == n \div d
             r == n % d
             a == q \div 16
             c == q % 16
  <1>1. q \in Nat /\ r \in Nat /\ r < d /\ n = q * d + r
    OBVIOUS
  <1> HIDE DEF q, r
  <1>2. a \in Nat /\ c \in 0 .. 15 /\ q = a * 16 + c
    BY <1>1
  <1> HIDE DEF a, c
  <1>3. 16 * d \in Nat \ {0}
    OBVIOUS
  <1>4. n = a * (16 * d) + (c * d + r)
    <2>1. (a * 16 + c) * d = a * (16 * d) + c * d
      BY <1>2
    <2> QED
      BY <1>1, <1>2, <2>1
  <1>5. c * d + r \in Nat /\ c * d + r < 16 * d
    <2>1. c * d <= 15 * d
      BY <1>2
    <2>2. c * d \in Nat
      BY <1>2
    <2> QED
      BY <1>1, <2>1, <2>2
  <1>6. n \div (16 * d) = a
    <2> DEFINE e == c * d + r
               f == 16 * d
    <2>1. e \in Nat /\ f \in Nat \ {0} /\ e < f /\ n = a * f + e
      BY <1>3, <1>4, <1>5
    <2> HIDE DEF e, f
    <2>2. n \div f = a
      BY <1>2, <2>1, Quotient
    <2> QED
      BY <2>2 DEF f
  <1>7. q = a * 16 + (q % 16)
    BY <1>2 DEF c
  <1> QED
    BY <1>6, <1>7 DEF q

\* What write_hex prints after its 0x are the hexadecimal digits of the number.
LEMMA WriteHex ==
    ASSUME NEW n \in Number
    PROVE  \E p \in Seq(0 .. 15) :
              /\ write_hex(n) = <<0, X>> \o p
              /\ Len(p) \in 1 .. NIBBLES
              /\ PlaceValue(p, 16) = n
  <1> DEFINE D == 0 .. NIBBLES
             S == Seq(0 .. 15)
             nib(m) == nibble(n, NIBBLES - m)
             step(q, m) == IF shown(n, NIBBLES - m, q) THEN Append(q, nib(m)) ELSE q
             before == [m \in D |-> IF m = 0 THEN 0 ELSE m - 1]
             next == [x \in D \X S |-> IF x[1] = 0 THEN <<>> ELSE step(x[2], x[1])]
             printed == CHOOSE f : f = [m \in D |-> IF m = 0 THEN <<>>
                                                    ELSE step(f[m - 1], m)]
             rest(m) == n \div Power(16, NIBBLES - m)
  <1>1. NIBBLES \in Nat /\ NIBBLES >= 1 /\ n \in Nat /\ n < U64
    BY NumbersAssumption, U64Large DEF Number
  <1>2. \A m \in D : NIBBLES - m \in Nat /\ Power(16, NIBBLES - m) \in Nat \ {0}
    BY <1>1, PowersPositive
  <1>3. \A m \in D : rest(m) \in Nat /\ nib(m) = rest(m) % 16 /\ nib(m) \in 0 .. 15
    BY <1>1, <1>2 DEF nibble
  <1> HIDE DEF nib
  <1>4. \A q \in S, m \in D : step(q, m) \in S
    <2> TAKE q \in S, m \in D
    <2>1. Append(q, nib(m)) \in S
      BY <1>3
    <2> HIDE DEF S
    <2> QED
      BY <2>1
  <1> HIDE DEF step
  <1>5. before \in [D -> D] /\ \A m \in D : m # 0 => before[m] < m
    BY <1>1
  <1>6. <<>> \in S /\ D \in SUBSET Nat /\ 0 \in D
    BY <1>1
  <1>7. next \in [D \X S -> S]
    <2> HIDE DEF S, D
    <2>1. ASSUME NEW x \in D \X S
          PROVE  (IF x[1] = 0 THEN <<>> ELSE step(x[2], x[1])) \in S
      <3>1. x[1] \in D /\ x[2] \in S
        OBVIOUS
      <3> QED
        BY <1>4, <1>6, <3>1
    <2> QED
      BY <2>1
  <1>8. PICK f \in [D -> S] :
           \A m \in D : f[m] = IF m = 0 THEN <<>> ELSE next[<<m, f[before[m]]>>]
    <2> HIDE DEF before, next, D, S
    <2>1. Recursive(D, S, <<>>, before, next)
      BY <1>5, <1>6, <1>7 DEF Recursive
    <2> QED
      BY <2>1, Recursion
  <1>9. \A m \in D : m # 0 => m - 1 \in D /\ before[m] = m - 1
    <2> TAKE m \in D
    <2> HAVE m # 0
    <2>1. m - 1 \in D
      BY <1>1
    <2> HIDE DEF D
    <2> QED
      BY <2>1
  <1>10. \A m \in D : f[m] = IF m = 0 THEN <<>> ELSE step(f[m - 1], m)
    <2> TAKE m \in D
    <2>1. CASE m = 0
      BY <1>8, <2>1
    <2>2. CASE m # 0
      <3> HIDE DEF D, S
      <3>1. m - 1 \in D /\ before[m] = m - 1 /\ f[m - 1] \in S
        BY <1>9, <2>2
      <3>2. next[<<m, f[m - 1]>>] = step(f[m - 1], m)
        BY <2>2, <3>1
      <3> HIDE DEF next, before
      <3> QED
        BY <1>8, <2>2, <3>1, <3>2
    <2> QED
      BY <2>1, <2>2
  <1>11. f = [m \in D |-> IF m = 0 THEN <<>> ELSE step(f[m - 1], m)]
    <2> HIDE DEF D, S
    <2> QED
      BY <1>10
  <1>12. printed = [m \in D |-> IF m = 0 THEN <<>> ELSE step(printed[m - 1], m)]
    BY <1>11
  <1>13. write_hex(n) = <<0, X>> \o printed[NIBBLES]
    BY DEF write_hex, step, nib
  <1> HIDE DEF printed
  <1> DEFINE Good(m) == /\ printed[m] \in S
                        /\ Len(printed[m]) <= m
                        /\ PlaceValue(printed[m], 16) = rest(m)
             T == {m \in D : Good(m)}
  <1>14. Good(0)
    <2>1. printed[0] = <<>>
      BY <1>1, <1>12
    <2>2. rest(0) = 0
      <3>1. Power(16, NIBBLES - 0) = U64 /\ U64 \in Nat \ {0}
        BY <1>1, U64Large DEF U64
      <3>2. n \div U64 = 0
        <4>1. (0 * U64 + n) \div U64 = 0
          BY <1>1, <3>1, Quotient
        <4>2. 0 * U64 + n = n
          BY <1>1, <3>1
        <4> QED
          BY <4>1, <4>2
      <3> QED
        BY <3>1, <3>2
    <2>3. PlaceValue(<<>>, 16) = 0
      BY PlaceValueEmpty
    <2>4. Len(<<>>) <= 0
      OBVIOUS
    <2> HIDE DEF rest, S
    <2> QED
      BY <1>6, <2>1, <2>2, <2>3, <2>4
  <1>15. ASSUME NEW m \in D, m # 0, Good(m - 1)
         PROVE  /\ Good(m)
                /\ m = NIBBLES => Len(printed[m]) > 0
    <2> DEFINE q == printed[m - 1]
    <2>1. printed[m] = step(q, m)
      BY <1>12, <1>15
    <2>2. rest(m) = rest(m - 1) * 16 + nib(m)
      <3> DEFINE d == Power(16, NIBBLES - m)
      <3>1. NIBBLES - m \in Nat /\ NIBBLES - (m - 1) = (NIBBLES - m) + 1
        BY <1>1
      <3>2. Power(16, NIBBLES - (m - 1)) = 16 * d
        BY <3>1, Powers
      <3>3. d \in Nat \ {0}
        BY <1>2
      <3> HIDE DEF d
      <3>4. n \div d = (n \div (16 * d)) * 16 + ((n \div d) % 16)
        BY <1>1, <3>3, Shifted
      <3>5. rest(m) = n \div d /\ rest(m - 1) = n \div (16 * d) /\ nib(m) = (n \div d) % 16
        BY <1>3, <3>2 DEF d
      <3> QED
        BY <3>4, <3>5
    <2>3. /\ q \in S /\ Len(q) <= m - 1 /\ PlaceValue(q, 16) = rest(m - 1)
          /\ Len(q) \in Nat /\ q \in Seq(Nat) /\ m \in Nat
          /\ (q = <<>> \/ Len(q) > 0)
      <3>1. q \in Seq(0 .. 15) => q \in Seq(Nat) /\ Len(q) \in Nat /\ (q = <<>> \/ Len(q) > 0)
        <4> HIDE DEF q
        <4> QED
          OBVIOUS
      <3>2. m \in Nat
        BY <1>1
      <3>3. q \in S /\ Len(q) <= m - 1 /\ PlaceValue(q, 16) = rest(m - 1)
        BY <1>15
      <3> QED
        BY <3>1, <3>2, <3>3
    <2>4. nib(m) \in 0 .. 15 /\ rest(m - 1) \in Nat
      BY <1>3, <1>9, <1>15
    <2>5. shown(n, NIBBLES - m, q) <=> (nib(m) # 0 \/ q # <<>> \/ NIBBLES - m = 0)
      BY DEF shown, nib
    <2> HIDE DEF q, rest
    <2>6. CASE shown(n, NIBBLES - m, q)
      <3>1. printed[m] = Append(q, nib(m))
        BY <2>1, <2>6 DEF step
      <3>2. PlaceValue(Append(q, nib(m)), 16) = PlaceValue(q, 16) * 16 + nib(m)
        <4>1. nib(m) \in Nat
          BY <2>4
        <4>2. q \in Seq(Nat)
          BY <2>3
        <4> QED
          BY <4>1, <4>2, PlaceValueAppend
      <3>3. /\ Append(q, nib(m)) \in S /\ Len(Append(q, nib(m))) = Len(q) + 1
        BY <2>3, <2>4
      <3>4. Len(q) + 1 <= m /\ Len(q) + 1 > 0
        BY <2>3
      <3> HIDE DEF S
      <3> QED
        BY <2>2, <2>3, <3>1, <3>2, <3>3, <3>4
    <2>7. CASE ~ shown(n, NIBBLES - m, q)
      <3>1. printed[m] = q /\ q = <<>> /\ nib(m) = 0 /\ NIBBLES - m # 0
        BY <2>1, <2>5, <2>7 DEF step
      <3>2. PlaceValue(q, 16) = 0
        BY <3>1, PlaceValueEmpty
      <3>3. rest(m) = 0
        BY <2>2, <2>3, <3>1, <3>2
      <3>4. Len(q) <= m /\ m # NIBBLES
        BY <1>1, <2>3, <3>1
      <3> HIDE DEF S
      <3> QED
        BY <2>3, <3>1, <3>2, <3>3, <3>4
    <2> QED
      BY <2>6, <2>7
  <1> HIDE DEF Good
  <1>16. ASSUME NEW m \in D, \A k \in D : k < m => k \in T
         PROVE  m \in T
    <2>1. CASE m = 0
      BY <1>14, <2>1
    <2>2. CASE m # 0
      <3>1. m - 1 \in D /\ m - 1 < m
        BY <1>1, <2>2
      <3>2. Good(m - 1)
        BY <1>16, <3>1
      <3> QED
        BY <1>15, <2>2, <3>2
    <2> QED
      BY <2>1, <2>2
  <1>17. \A m \in D : Good(m)
    <2> HIDE DEF T, D
    <2>1. D \subseteq T
      BY <1>6, <1>16, StrongInduction
    <2> QED
      BY <2>1 DEF T
  <1>18. Good(NIBBLES) /\ Len(printed[NIBBLES]) > 0
    <2>1. NIBBLES \in D /\ NIBBLES # 0 /\ NIBBLES - 1 \in D
      BY <1>1
    <2> HIDE DEF D
    <2> QED
      BY <1>15, <1>17, <2>1
  <1>19. rest(NIBBLES) = n
    <2>1. NIBBLES - NIBBLES = 0 /\ Power(16, 0) = 1
      BY <1>1, Powers
    <2> QED
      BY <1>1, <2>1
  <1>20. Len(printed[NIBBLES]) \in 1 .. NIBBLES
    <2>1. printed[NIBBLES] \in S /\ Len(printed[NIBBLES]) <= NIBBLES
      BY <1>18 DEF Good
    <2>2. Len(printed[NIBBLES]) \in Nat
      BY <2>1
    <2> QED
      BY <1>1, <1>18, <2>1, <2>2
  <1> HIDE DEF rest
  <1> QED
    BY <1>13, <1>18, <1>19, <1>20 DEF Good

-----------------------------------------------------------------------------
(***************************************************************************)
(* The inductive invariant: where parse_u64 is in the argument, and what   *)
(* it has made of the characters before.                                   *)
(***************************************************************************)
argument == line.rest
end == Len(argument) + 1   \* where the null character is

BlankFrom(a, z) == \A k \in a .. z : argument[k] = BLANK

\* The word of the argument begins at a, if it has one.
WordFrom(a) ==
    /\ a \in 1 .. end
    /\ BlankFrom(1, a - 1)
    /\ a # end => argument[a] # BLANK

\* Where its digits begin, base being what ReadPrefix has made of it.
digits_from(a) == IF base = 16 THEN a + 2 ELSE a

BaseOf(a) == base = 16 <=> (is(a, 0) /\ is(a + 1, X))

\* The digits before z have been read, and value is theirs.
ReadUpTo(a, z) ==
    /\ z \in digits_from(a) .. end
    /\ \A k \in digits_from(a) .. z - 1 : argument[k] < base
    /\ value = PlaceValue(SubSeq(argument, digits_from(a), z - 1), base)
    /\ found_digit <=> z # digits_from(a)

DigitsInv ==
    \E a \in 1 .. end : WordFrom(a) /\ BaseOf(a) /\ ReadUpTo(a, i)

EndInv ==
    \E a, z \in 1 .. end :
       /\ WordFrom(a) /\ BaseOf(a) /\ ReadUpTo(a, z)
       /\ z # end => argument[z] = BLANK
       /\ z <= i /\ BlankFrom(z, i - 1)

CopiedInv ==
    copied # None =>
        /\ line.word \in ArgumentCommands
        /\ argument \in {<<BLANK>> \o write_u64(copied), <<BLANK>> \o write_hex(copied)}

CommandInv ==
    /\ CommandTypeOK
    /\ i <= end
    /\ CopiedInv
    /\ at \in {"prefix", "digits", "end"} => line.word \in ArgumentCommands
    /\ at \in {"dispatch", "prefix"} =>
          base = 10 /\ value = 0 /\ found_digit = FALSE /\ BlankFrom(1, i - 1)
    /\ at = "digits" => DigitsInv
    /\ at = "end" => EndInv
    /\ ArgumentIsTheNumber

-----------------------------------------------------------------------------
(***************************************************************************)
(* Words and blanks.                                                       *)
(***************************************************************************)

\* Between the first and the last character that is no blank is the word.
LEMMA TrimmedWord ==
    ASSUME NEW t \in Seq(Character), NEW a \in 1 .. Len(t), NEW z \in a .. Len(t),
           t[a] # BLANK, t[z] # BLANK,
           \A k \in 1 .. a - 1 : t[k] = BLANK,
           \A k \in z + 1 .. Len(t) : t[k] = BLANK
    PROVE  Trimmed(t) = SubSeq(t, a, z)
  <1> DEFINE Ink == {k \in DOMAIN t : t[k] # BLANK}
  <1>1. a \in Ink /\ z \in Ink /\ \A k \in Ink : a <= k /\ k <= z /\ k \in Nat
    OBVIOUS
  <1>2. Min(Ink) = a /\ Max(Ink) = z
    <2> HIDE DEF Ink
    <2>1. \A x \in Ink : (\A y \in Ink : x <= y) => x = a
      BY <1>1
    <2>2. \A x \in Ink : (\A y \in Ink : x >= y) => x = z
      BY <1>1
    <2> QED
      BY <1>1, <2>1, <2>2 DEF Min, Max
  <1>3. Ink # {}
    BY <1>1
  <1> QED
    BY <1>2, <1>3 DEF Trimmed

LEMMA TrimmedBlank ==
    ASSUME NEW t \in Seq(Character), \A k \in 1 .. Len(t) : t[k] = BLANK
    PROVE  Trimmed(t) = <<>>
  <1>1. {k \in DOMAIN t : t[k] # BLANK} = {}
    OBVIOUS
  <1> QED
    BY <1>1 DEF Trimmed

\* After a character that is no blank there is a last one.
LEMMA LastInk ==
    ASSUME NEW t \in Seq(Character), NEW a \in 1 .. Len(t), t[a] # BLANK
    PROVE  \E z \in a .. Len(t) :
              t[z] # BLANK /\ \A k \in z + 1 .. Len(t) : t[k] = BLANK
  <1> DEFINE L == Len(t)
             T == {n \in Nat : n <= L - a /\ t[L - n] # BLANK}
  <1>1. L \in Nat /\ L - a \in Nat /\ L - (L - a) = a
    OBVIOUS
  <1>2. PICK n \in T : \A m \in T : n <= m
    <2>1. L - a \in T /\ T \in SUBSET Nat
      BY <1>1
    <2> HIDE DEF T
    <2> QED
      BY <2>1, SmallestNumber
  <1>3. L - n \in a .. L /\ t[L - n] # BLANK
    BY <1>1, <1>2
  <1>4. ASSUME NEW k \in (L - n) + 1 .. L
        PROVE  t[k] = BLANK
    <2>1. L - k \in Nat /\ L - k <= L - a /\ L - (L - k) = k /\ ~ n <= L - k
      BY <1>1, <1>2
    <2>2. L - k \notin T
      BY <1>2, <2>1
    <2> QED
      BY <2>1, <2>2
  <1> QED
    BY <1>3, <1>4

LEMMA Typed ==
    ASSUME CommandTypeOK
    PROVE  /\ argument \in Seq(Character) /\ Character \subseteq Nat
           /\ end \in Nat \ {0} /\ DOMAIN argument = 1 .. end - 1 /\ Len(argument) = end - 1
           /\ \A k \in 1 .. end - 1 : argument[k] \in Nat
           /\ i \in Nat \ {0} /\ value \in Nat /\ value < U64 /\ base \in {10, 16}
  <1>1. line.rest \in Seq(Character)
    BY DEF CommandTypeOK, Line
  <1>2. Character \subseteq Nat
    BY DEF Character, SYMBOL
  <1>3. /\ argument \in Seq(Character) /\ end \in Nat \ {0}
        /\ DOMAIN argument = 1 .. end - 1 /\ Len(argument) = end - 1
        /\ \A k \in 1 .. end - 1 : argument[k] \in Character
    BY <1>1 DEF argument, end
  <1>4. i \in Nat \ {0}
    <2>1. i \in 1 .. end
      BY DEF CommandTypeOK, end, argument
    <2> QED
      BY <1>3, <2>1
  <1>5. value \in Nat /\ value < U64
    BY U64Large DEF CommandTypeOK, Number
  <1> QED
    BY <1>2, <1>3, <1>4, <1>5 DEF CommandTypeOK

\* The number in an argument, once its base is known.
LEMMA WordRead ==
    ASSUME CommandTypeOK, NEW a \in 1 .. end - 1, NEW z \in a .. end - 1,
           WordFrom(a), BaseOf(a), argument[z] # BLANK, BlankFrom(z + 1, end - 1)
    PROVE  /\ Digits(Trimmed(argument)) = SubSeq(argument, digits_from(a), z)
           /\ Base(Trimmed(argument)) = base
           /\ digits_from(a) <= z + 1
  <1> DEFINE word == SubSeq(argument, a, z)
  <1>1. Trimmed(argument) = word
    <2>1. argument[a] # BLANK /\ \A k \in 1 .. a - 1 : argument[k] = BLANK
      BY Typed DEF WordFrom, BlankFrom
    <2>2. \A k \in z + 1 .. Len(argument) : argument[k] = BLANK
      BY Typed DEF BlankFrom
    <2>3. argument \in Seq(Character) /\ a \in 1 .. Len(argument) /\ z \in a .. Len(argument)
      BY Typed
    <2> QED
      BY <2>1, <2>2, <2>3, TrimmedWord
  <1>2. /\ word \in Seq(Character) /\ Len(word) = z - a + 1
        /\ \A k \in 1 .. z - a + 1 : word[k] = argument[a + k - 1]
    BY Typed
  <1> HIDE DEF word
  <1>3. a \in Nat /\ z \in Nat /\ a <= z /\ z <= end - 1
    BY Typed
  <1>4. base = 16 => z >= a + 1
    <2> SUFFICES ASSUME base = 16
                 PROVE  z >= a + 1
      OBVIOUS
    <2>1. a + 1 \in 1 .. end - 1 /\ argument[a + 1] = X
      BY Typed DEF BaseOf, is, argument
    <2>2. X # BLANK
      BY DEF X, BLANK
    <2>3. ~ (a + 1 \in z + 1 .. end - 1)
      BY <2>1, <2>2 DEF BlankFrom
    <2> QED
      BY <1>3, <2>1, <2>3, Typed
  <1>5. IsHex(word) <=> base = 16
    <2>1. z >= a + 1 => word[1] = argument[a] /\ word[2] = argument[a + 1]
      <3> SUFFICES ASSUME z >= a + 1
                   PROVE  word[1] = argument[a] /\ word[2] = argument[a + 1]
        OBVIOUS
      <3>1. 1 \in 1 .. z - a + 1 /\ 2 \in 1 .. z - a + 1 /\ a + 1 - 1 = a /\ a + 2 - 1 = a + 1
        BY <1>3
      <3> QED
        BY <1>2, <3>1
    <2>2. Len(word) >= 2 <=> z >= a + 1
      BY <1>2, <1>3
    <2>3. z >= a + 1 => (is(a, 0) <=> argument[a] = 0) /\ (is(a + 1, X) <=> argument[a + 1] = X)
      <3>1. z >= a + 1 => a \in DOMAIN argument /\ a + 1 \in DOMAIN argument
        BY <1>3, Typed
      <3> QED
        BY <3>1 DEF is, argument
    <2> QED
      BY <1>4, <2>1, <2>2, <2>3 DEF IsHex, BaseOf
  <1>6. Base(word) = base
    BY <1>5, Typed DEF Base
  <1>7. Digits(word) = SubSeq(argument, digits_from(a), z)
    <2>1. CASE base = 16
      <3>1. Digits(word) = SubSeq(word, 3, Len(word))
        BY <1>5, <2>1 DEF Digits
      <3>2. SubSeq(word, 3, Len(word)) = SubSeq(argument, a + 2, z)
        <4> DEFINE u == SubSeq(word, 3, Len(word))
                   v == SubSeq(argument, a + 2, z)
        <4>1. /\ u \in Seq(Character) /\ Len(u) = z - a - 1
              /\ \A k \in 1 .. z - a - 1 : u[k] = word[k + 2]
          BY <1>2, <1>3, <1>4, <2>1
        <4>2. /\ v \in Seq(Character) /\ Len(v) = z - a - 1
              /\ \A k \in 1 .. z - a - 1 : v[k] = argument[a + k + 1]
          BY <1>3, <1>4, <2>1, Typed
        <4>3. \A k \in 1 .. z - a - 1 : word[k + 2] = argument[a + k + 1]
          <5> TAKE k \in 1 .. z - a - 1
          <5>1. k + 2 \in 1 .. z - a + 1 /\ a + (k + 2) - 1 = a + k + 1
            BY <1>3
          <5> QED
            BY <1>2, <5>1
        <4> HIDE DEF u, v
        <4>4. u = v
          BY <4>1, <4>2, <4>3
        <4> QED
          BY <4>4 DEF u, v
      <3> QED
        BY <2>1, <3>1, <3>2 DEF digits_from
    <2>2. CASE base # 16
      BY <1>5, <2>2 DEF Digits, digits_from, word
    <2> QED
      BY <2>1, <2>2
  <1>8. digits_from(a) <= z + 1
    BY <1>3, <1>4 DEF digits_from
  <1> QED
    BY <1>1, <1>6, <1>7, <1>8

-----------------------------------------------------------------------------
(***************************************************************************)
(* What is decided on each way out of parse_u64 is right.                  *)
(***************************************************************************)

\* The characters from the first digit to the end of the word.
LEMMA DigitsOf ==
    ASSUME CommandTypeOK, NEW a \in 1 .. end - 1, NEW z \in a .. end - 1,
           digits_from(a) <= z + 1
    PROVE  LET d == SubSeq(argument, digits_from(a), z)
           IN  /\ d \in Seq(Nat) /\ Len(d) = (z + 1) - digits_from(a)
               /\ \A k \in digits_from(a) .. z :
                     /\ k - digits_from(a) + 1 \in DOMAIN d
                     /\ d[k - digits_from(a) + 1] = argument[k]
  <1> DEFINE f == digits_from(a)
             d == SubSeq(argument, f, z)
  <1>1. f \in Nat \ {0} /\ f <= z + 1 /\ z \in Nat /\ z <= end - 1
    BY Typed DEF digits_from
  <1> HIDE DEF f
  <1>2. argument \in Seq(Nat)
    BY Typed
  <1>3. /\ d \in Seq(Nat) /\ Len(d) = (z + 1) - f
        /\ \A k \in 1 .. (z + 1) - f : d[k] = argument[f + k - 1]
    BY <1>1, <1>2, Typed
  <1>4. \A k \in f .. z : k - f + 1 \in 1 .. (z + 1) - f /\ f + (k - f + 1) - 1 = k
    BY <1>1
  <1> HIDE DEF d
  <1>5. DOMAIN d = 1 .. (z + 1) - f
    BY <1>3
  <1>6. \A k \in f .. z : k - f + 1 \in DOMAIN d /\ d[k - f + 1] = argument[k]
    BY <1>3, <1>4, <1>5
  <1> QED
    BY <1>3, <1>6 DEF d, f

\* A character that is no digit cannot be left over.
LEMMA StrayCharacter ==
    ASSUME CommandTypeOK, NEW a \in 1 .. end, WordFrom(a), BaseOf(a),
           NEW j \in digits_from(a) .. end - 1, argument[j] >= base,
           NEW m \in j .. end - 1, argument[m] # BLANK
    PROVE  ~ IsNumeral(argument)
  <1>1. a \in 1 .. end - 1 /\ j \in Nat /\ a <= j /\ j <= m
    BY Typed DEF digits_from
  <1>2. argument[a] # BLANK
    BY <1>1, Typed DEF WordFrom
  <1>3. PICK z \in m .. end - 1 : argument[z] # BLANK /\ BlankFrom(z + 1, end - 1)
    <2>1. m \in 1 .. Len(argument) /\ argument \in Seq(Character) /\ Len(argument) = end - 1
      BY <1>1, Typed
    <2> QED
      BY <2>1, LastInk DEF BlankFrom
  <1>4. z \in a .. end - 1 /\ j <= z
    BY <1>1, <1>3
  <1>5. /\ Digits(Trimmed(argument)) = SubSeq(argument, digits_from(a), z)
        /\ Base(Trimmed(argument)) = base /\ digits_from(a) <= z + 1
    BY <1>1, <1>3, <1>4, WordRead
  <1> DEFINE d == SubSeq(argument, digits_from(a), z)
             n == j - digits_from(a) + 1
  <1>6. j \in digits_from(a) .. z
    BY <1>1, <1>4, Typed DEF digits_from
  <1>7. n \in DOMAIN d /\ d[n] = argument[j]
    BY <1>1, <1>4, <1>5, <1>6, DigitsOf
  <1> HIDE DEF d, n
  <1>8. ~ d[n] < base
    <2>1. argument[j] \in Nat
      BY <1>1, <1>4, Typed
    <2> QED
      BY <1>7, <2>1, Typed
  <1> QED
    BY <1>5, <1>7, <1>8 DEF IsNumeral, d

\* A number that does not fit does not get smaller by the digits to come.
LEMMA TooLarge ==
    ASSUME CommandTypeOK, NEW a \in 1 .. end, WordFrom(a), BaseOf(a), ReadUpTo(a, i),
           i # end, argument[i] # BLANK, argument[i] < base, ~ fits
    PROVE  ~ IsNumeral(argument)
  <1> DEFINE f == digits_from(a)
             d == SubSeq(argument, f, i - 1)
             c == argument[i]
  <1>1. f \in Nat \ {0} /\ i \in Nat /\ f <= i /\ i <= end - 1 /\ a <= f
    BY Typed DEF ReadUpTo, digits_from
  <1>2. a \in 1 .. end - 1 /\ i \in a .. end - 1
    BY <1>1, Typed
  <1>3. argument[a] # BLANK
    BY <1>2, Typed DEF WordFrom
  <1>4. PICK z \in i .. end - 1 : argument[z] # BLANK /\ BlankFrom(z + 1, end - 1)
    <2>1. i \in 1 .. Len(argument) /\ argument \in Seq(Character) /\ Len(argument) = end - 1
      BY <1>2, Typed
    <2> QED
      BY <2>1, LastInk DEF BlankFrom
  <1>5. z \in a .. end - 1 /\ z \in Nat /\ i <= z
    BY <1>2, <1>4
  <1> DEFINE w == SubSeq(argument, f, z)
             v == SubSeq(w, 1, i - f + 1)
  <1>6. /\ Digits(Trimmed(argument)) = w /\ Base(Trimmed(argument)) = base /\ f <= z + 1
    BY <1>2, <1>4, <1>5, WordRead
  <1>7. /\ w \in Seq(Nat) /\ Len(w) = (z + 1) - f
        /\ \A k \in f .. z : w[k - f + 1] = argument[k]
    <2> HIDE DEF f
    <2> QED
      BY <1>2, <1>5, <1>6, DigitsOf DEF f
  <1>8. d \in Seq(Nat) /\ c \in Nat /\ v = Append(d, c)
    <2>1. argument \in Seq(Nat) /\ Len(argument) = end - 1 /\ end \in Nat
      BY Typed
    <2> HIDE DEF f
    <2>2. /\ d \in Seq(Nat) /\ Len(d) = i - f
          /\ \A k \in 1 .. i - f : d[k] = argument[f + k - 1]
      BY <1>1, <2>1
    <2>3. c \in Nat
      BY <1>2, Typed
    <2>4. i - f + 1 \in 0 .. Len(w)
      BY <1>1, <1>5, <1>7
    <2> HIDE DEF w
    <2>5. /\ v \in Seq(Nat) /\ Len(v) = i - f + 1
          /\ \A k \in 1 .. i - f + 1 : v[k] = w[k]
      BY <1>1, <1>7, <2>4
    <2>6. \A k \in 1 .. i - f + 1 : v[k] = argument[f + k - 1]
      <3> TAKE k \in 1 .. i - f + 1
      <3>1. f + k - 1 \in f .. z /\ (f + k - 1) - f + 1 = k
        BY <1>1, <1>5
      <3>2. w[k] = argument[f + k - 1]
        BY <1>7, <3>1
      <3> QED
        BY <2>5, <3>2
    <2> HIDE DEF c, d, v
    <2> DEFINE u == Append(d, c)
    <2>7. /\ u \in Seq(Nat) /\ Len(u) = i - f + 1 /\ u[i - f + 1] = c
          /\ \A k \in 1 .. i - f : u[k] = d[k]
      BY <1>1, <2>2, <2>3
    <2> HIDE DEF u
    <2>8. \A k \in 1 .. i - f + 1 : u[k] = v[k]
      <3> TAKE k \in 1 .. i - f + 1
      <3>1. CASE k = i - f + 1
        <4>1. f + k - 1 = i
          BY <1>1, <3>1
        <4> QED
          BY <2>6, <2>7, <3>1, <4>1 DEF c
      <3>2. CASE k # i - f + 1
        <4>1. k \in 1 .. i - f
          BY <1>1, <3>2
        <4> QED
          BY <2>2, <2>6, <2>7, <4>1
      <3> QED
        BY <3>1, <3>2
    <2>9. u = v
      BY <2>5, <2>7, <2>8
    <2> QED
      BY <2>2, <2>3, <2>9 DEF u
  <1>9. PlaceValue(v, base) = value * base + c
    <2>1. PlaceValue(d, base) = value
      BY DEF ReadUpTo
    <2>2. base \in Nat
      BY Typed
    <2> HIDE DEF d, c, v
    <2> QED
      BY <1>8, <2>1, <2>2, PlaceValueAppend
  <1>10. PlaceValue(v, base) <= PlaceValue(w, base)
    <2> HIDE DEF w, f
    <2>1. base \in Nat \ {0}
      BY Typed
    <2>2. i - f + 1 \in 0 .. (z + 1) - f
      BY <1>1, <1>5
    <2>3. i - f + 1 \in 0 .. Len(w)
      BY <1>7, <2>2
    <2> QED
      BY <1>7, <2>1, <2>3, PlaceValuePrefix DEF v
  <1>11. value * base + c >= U64
    <2>1. /\ c \in Nat /\ c < base /\ base \in {10, 16} /\ value \in Nat /\ U64 \in Nat
          /\ U64 >= 16 /\ ~ value <= (U64 - 1 - c) \div base
      BY <1>8, Typed, U64Large DEF fits, digit, argument
    <2> HIDE DEF c
    <2>2. CASE base = 10
      BY <2>1, <2>2
    <2>3. CASE base = 16
      BY <2>1, <2>3
    <2> QED
      BY <2>1, <2>2, <2>3
  <1>12. ~ PlaceValue(w, base) < U64
    <2>1. PlaceValue(w, base) \in Nat /\ U64 \in Nat /\ value * base + c \in Nat
      <3>1. base \in Nat /\ value \in Nat
        BY Typed
      <3>2. PlaceValue(w, base) \in Nat
        <4> HIDE DEF w
        <4> QED
          BY <1>7, <3>1, PlaceValueType
      <3>3. value * base \in Nat
        BY <3>1
      <3> HIDE DEF c, w
      <3> QED
        BY <1>8, <3>2, <3>3, U64Large
    <2> HIDE DEF w, c, v
    <2> QED
      BY <1>9, <1>10, <1>11, <2>1
  <1> QED
    BY <1>6, <1>12 DEF IsNumeral

\* What EndOfArgument does is right.
LEMMA Decided ==
    ASSUME CommandTypeOK, NEW a \in 1 .. end, NEW z \in 1 .. end,
           WordFrom(a), BaseOf(a), ReadUpTo(a, z), z # end => argument[z] = BLANK,
           z <= i, i <= end, BlankFrom(z, i - 1), ~ is(i, BLANK)
    PROVE  /\ accepted <=> IsNumeral(argument)
           /\ accepted => value = Denoted(argument)
  <1> DEFINE f == digits_from(a)
             d == SubSeq(argument, f, z - 1)
  <1>1. f \in Nat \ {0} /\ z \in Nat /\ f <= z /\ z <= end /\ a <= f /\ a \in Nat \ {0}
    BY Typed DEF ReadUpTo, digits_from
  <1>2. ended <=> i = end
    BY Typed DEF ended, argument
  <1>3. CASE i # end
    <2>1. i \in 1 .. end - 1 /\ argument[i] # BLANK
      BY <1>3, Typed DEF is, argument
    <2>2. z # end /\ argument[z] = BLANK /\ z # i
      BY <1>1, <2>1, Typed
    <2>3. z \in f .. end - 1 /\ i \in z .. end - 1
      BY <1>1, <2>1, <2>2, Typed
    <2>4. argument[z] >= base
      BY <2>2, Typed DEF BLANK
    <2>5. ~ IsNumeral(argument)
      BY <2>1, <2>3, <2>4, StrayCharacter
    <2>6. ~ accepted
      BY <1>2, <1>3 DEF accepted
    <2> QED
      BY <2>5, <2>6
  <1>4. CASE i = end /\ z = f
    <2>1. ~ accepted
      BY <1>4 DEF accepted, ReadUpTo
    <2>2. CASE a = end
      <3>1. \A k \in 1 .. Len(argument) : argument[k] = BLANK
        BY <2>2, Typed DEF WordFrom, BlankFrom
      <3>2. Trimmed(argument) = <<>>
        BY <3>1, Typed, TrimmedBlank
      <3>3. Digits(<<>>) = <<>>
        BY DEF Digits, IsHex
      <3> QED
        BY <2>1, <3>2, <3>3 DEF IsNumeral
    <2>3. CASE a # end
      <3>1. a \in 1 .. end - 1 /\ argument[a] # BLANK
        BY <1>1, <2>3, Typed DEF WordFrom
      <3>2. base = 16
        <4>1. base # 16 => f = a
          BY DEF digits_from
        <4> QED
          BY <1>4, <2>3, <3>1, <4>1
      <3>3. f = a + 2 /\ a + 1 \in 1 .. end - 1 /\ argument[a + 1] = X
        BY <1>1, <3>1, <3>2, Typed DEF digits_from, BaseOf, is, argument
      <3>4. argument[a + 1] # BLANK /\ BlankFrom(a + 2, end - 1)
        BY <1>4, <3>3 DEF X, BLANK
      <3>5. a + 1 \in a .. end - 1 /\ (a + 1) + 1 = a + 2
        BY <1>1, <3>3
      <3>6. Digits(Trimmed(argument)) = SubSeq(argument, f, a + 1)
        BY <3>1, <3>4, <3>5, WordRead
      <3>7. SubSeq(argument, f, a + 1) = <<>>
        BY <1>1, <3>3, Typed
      <3> QED
        BY <2>1, <3>6, <3>7 DEF IsNumeral
    <2> QED
      BY <2>2, <2>3
  <1>5. CASE i = end /\ z # f
    <2>1. accepted
      BY <1>2, <1>5 DEF accepted, ReadUpTo
    <2>2. z - 1 \in f .. z - 1 /\ z - 1 \in a .. end - 1 /\ a \in 1 .. end - 1
          /\ (z - 1) + 1 = z
      BY <1>1, <1>5, Typed
    <2>3. argument[z - 1] # BLANK
      <3>1. argument[z - 1] < base /\ argument[z - 1] \in Nat
        BY <1>1, <2>2, Typed DEF ReadUpTo
      <3> QED
        BY <3>1, Typed DEF BLANK
    <2>4. BlankFrom((z - 1) + 1, end - 1)
      BY <1>5, <2>2
    <2>5. /\ Digits(Trimmed(argument)) = d /\ Base(Trimmed(argument)) = base
      BY <2>2, <2>3, <2>4, WordRead
    <2>6. /\ d \in Seq(Nat) /\ Len(d) = z - f
          /\ \A k \in 1 .. z - f : d[k] = argument[f + k - 1]
      <3>1. argument \in Seq(Nat) /\ Len(argument) = end - 1
        BY Typed
      <3> HIDE DEF f
      <3> QED
        BY <1>1, <3>1, Typed
    <2>7. \A k \in 1 .. z - f : argument[f + k - 1] < base
      <3> TAKE k \in 1 .. z - f
      <3>1. f + k - 1 \in f .. z - 1
        BY <1>1
      <3> QED
        BY <3>1 DEF ReadUpTo
    <2>8. PlaceValue(d, base) = value
      BY DEF ReadUpTo
    <2> HIDE DEF d, f
    <2>9. d # <<>> /\ \A k \in DOMAIN d : d[k] < base
      <3>1. DOMAIN d = 1 .. z - f /\ z - f # 0
        BY <1>1, <1>5, <2>6
      <3>2. d # <<>>
        BY <2>6, <3>1
      <3>3. \A k \in 1 .. z - f : d[k] < base
        BY <2>6, <2>7
      <3> QED
        BY <3>1, <3>2, <3>3
    <2>10. IsNumeral(argument) /\ Denoted(argument) = value
      BY <2>5, <2>8, <2>9, Typed DEF IsNumeral, Denoted
    <2> QED
      BY <2>1, <2>10
  <1> QED
    BY <1>3, <1>4, <1>5

-----------------------------------------------------------------------------
(***************************************************************************)
(* The invariant holds at first and is kept by every step.                 *)
(***************************************************************************)

\* A number as it was shown, after a blank, is an argument that fits its buffer.
LEMMA ShownFits ==
    ASSUME NEW n \in Number, NEW text \in {write_u64(n), write_hex(n)}
    PROVE  <<BLANK>> \o text \in Seq(Character) /\ Len(<<BLANK>> \o text) < ARGUMENT_SIZE
  <1>1. /\ <<BLANK>> \in Seq(Character) /\ Len(<<BLANK>>) = 1 /\ <<0, X>> \in Seq(Character)
        /\ Len(<<0, X>>) = 2
    BY DEF Character, BLANK, SYMBOL, X
  <1>2. text \in Seq(Character) /\ Len(text) <= 2 * NIBBLES + 1
    <2>1. CASE text = write_u64(n)
      <3>1. write_u64(n) \in Seq(0 .. 9) /\ Len(write_u64(n)) \in 1 .. 2 * NIBBLES
        BY WriteU64
      <3>2. \A q \in Seq(0 .. 9) : q \in Seq(Character)
        BY DEF Character, SYMBOL
      <3> QED
        BY <2>1, <3>1, <3>2, NumbersAssumption
    <2>2. CASE text = write_hex(n)
      <3>1. PICK p \in Seq(0 .. 15) : write_hex(n) = <<0, X>> \o p /\ Len(p) \in 1 .. NIBBLES
        BY WriteHex
      <3>2. p \in Seq(Character)
        BY DEF Character, SYMBOL
      <3>3. /\ <<0, X>> \o p \in Seq(Character) /\ Len(<<0, X>> \o p) = 2 + Len(p)
        BY <1>1, <3>2
      <3>4. 2 + Len(p) <= 2 * NIBBLES + 1
        BY <3>1, NumbersAssumption
      <3> QED
        BY <2>2, <3>1, <3>3, <3>4
    <2> QED
      BY <2>1, <2>2
  <1>3. /\ <<BLANK>> \o text \in Seq(Character)
        /\ Len(<<BLANK>> \o text) = 1 + Len(text) /\ Len(text) \in Nat
    BY <1>1, <1>2
  <1> QED
    BY <1>2, <1>3, CommandLineAssumption, NumbersAssumption

LEMMA AtFirst ==
    ASSUME CommandInit
    PROVE  CommandInv
  <1>1. /\ line \in Line /\ CopiedInv
        /\ copied \in Number \cup {None}
    <2>1. CASE line \in Lines /\ copied = None
      BY <2>1, CommandLineAssumption DEF CopiedInv
    <2>2. ASSUME copied \in Number,
                 NEW command \in ArgumentCommands,
                 NEW text \in {write_u64(copied), write_hex(copied)},
                 line = [word |-> command, rest |-> <<BLANK>> \o text]
          PROVE  /\ line \in Line /\ CopiedInv
                 /\ copied \in Number \cup {None}
      <3>1. line.rest = <<BLANK>> \o text /\ line.word = command
        BY <2>2
      <3>2. line.rest \in Seq(Character)
        BY <2>2, <3>1, ShownFits
      <3>3. line \in Line
        BY <2>2, <3>1, <3>2 DEF Line, Commands
      <3>4. CopiedInv
        BY <2>2, <3>1 DEF CopiedInv, argument
      <3> QED
        BY <2>2, <3>2, <3>3, <3>4
    <2> QED
      BY <2>1, <2>2 DEF CommandInit, Entered
  <1>2. Len(line.rest) \in Nat
    BY <1>1 DEF Line
  <1>3. at = "dispatch" /\ i = 1 /\ base = 10 /\ value = 0 /\ found_digit = FALSE
        /\ outcome = Nothing
    BY DEF CommandInit
  <1>4. CommandTypeOK
    <2>1. 0 \in Number
      BY U64Large DEF Number
    <2>2. 1 \in 1 .. (Len(line.rest) + 1)
      BY <1>2
    <2> QED
      BY <1>1, <1>3, <2>1, <2>2 DEF CommandTypeOK
  <1>5. i <= end
    BY <1>2, <1>3 DEF end, argument
  <1>6. BlankFrom(1, i - 1) /\ ArgumentIsTheNumber
    BY <1>3 DEF BlankFrom, ArgumentIsTheNumber
  <1> QED
    BY <1>1, <1>3, <1>4, <1>5, <1>6 DEF CommandInv

\* The line is what it was, and with it everything that is said of it.
LEMMA SameLine ==
    ASSUME UNCHANGED line
    PROVE  /\ argument' = argument /\ end' = end
           /\ \A c \in Nat, k \in Nat : is(k, c)' = is(k, c)
           /\ \A a, z \in Int : BlankFrom(a, z)' = BlankFrom(a, z)
           /\ \A a \in Nat : WordFrom(a)' = WordFrom(a)
  <1>1. argument' = argument /\ end' = end
    BY DEF argument, end
  <1> QED
    BY <1>1 DEF is, BlankFrom, WordFrom

\* A command that is dispatched or refused by its name has no argument.
LEMMA Dispatched ==
    ASSUME CommandInv, ExecuteCommand \/ CommandNotFound
    PROVE  CommandInv'
  <1>1. /\ at = "dispatch" /\ at' = "done" /\ UNCHANGED <<given, parsing>>
        /\ outcome' # Nothing
    <2>1. \A c : Execute(c) # Nothing
      BY DEF Execute, Nothing
    <2>2. NotFound # Nothing
      BY DEF NotFound, Nothing
    <2> QED
      BY <2>1, <2>2 DEF ExecuteCommand, CommandNotFound, Finish
  <1>2. line.word \notin ArgumentCommands
    BY DEF ExecuteCommand, CommandNotFound, whole_line, echo, with_argument,
           WholeLineCommands, ArgumentCommands
  <1>3. CommandTypeOK'
    BY <1>1 DEF CommandInv, CommandTypeOK, given, parsing
  <1>4. (i <= end /\ CopiedInv)'
    BY <1>1 DEF CommandInv, CopiedInv, given, parsing, argument, end
  <1>5. ArgumentIsTheNumber'
    BY <1>1, <1>2 DEF given, ArgumentIsTheNumber
  <1> QED
    BY <1>1, <1>3, <1>4, <1>5 DEF CommandInv

LEMMA ArgumentTaken ==
    ASSUME CommandInv, ParseArgument
    PROVE  CommandInv'
  <1>1. /\ at = "dispatch" /\ at' = "prefix" /\ UNCHANGED <<given, parsing, outcome>>
        /\ line.word \in ArgumentCommands
    BY DEF ParseArgument, with_argument
  <1>2. CommandTypeOK'
    BY <1>1 DEF CommandInv, CommandTypeOK, given, parsing
  <1>3. (i <= end /\ CopiedInv)'
    BY <1>1 DEF CommandInv, CopiedInv, given, parsing, argument, end
  <1>4. (base = 10 /\ value = 0 /\ found_digit = FALSE /\ BlankFrom(1, i - 1))'
    BY <1>1 DEF CommandInv, given, parsing, argument, BlankFrom
  <1>5. ArgumentIsTheNumber' /\ (line.word \in ArgumentCommands)'
    BY <1>1 DEF given, ArgumentIsTheNumber
  <1> QED
    BY <1>1, <1>2, <1>3, <1>4, <1>5 DEF CommandInv

\* What becomes of a rest that does not fit is not said of any number.
LEMMA ArgumentOverrun ==
    ASSUME CommandInv, OverrunArgument
    PROVE  CommandInv'
  <1>1. /\ at' = "done" /\ UNCHANGED <<given, parsing>> /\ outcome' # Nothing /\ ~ rest_fits
    <2>1. \A c, n : ExecuteWith(c, n) # Nothing
      BY DEF ExecuteWith, Nothing
    <2>2. Invalid # Nothing /\ Astray # Nothing
      BY DEF Invalid, Astray, Nothing
    <2> QED
      BY <2>1, <2>2 DEF OverrunArgument, Finish
  <1>2. CommandTypeOK'
    BY <1>1 DEF CommandInv, CommandTypeOK, given, parsing
  <1>3. (i <= end /\ CopiedInv)'
    BY <1>1 DEF CommandInv, CopiedInv, given, parsing, argument, end
  <1>4. ArgumentIsTheNumber'
    BY <1>1 DEF given, ArgumentIsTheNumber, rest_fits
  <1> QED
    BY <1>1, <1>2, <1>3, <1>4 DEF CommandInv

\* Blanks before the word and behind it are passed by the same step.
LEMMA BlankSkipped ==
    ASSUME CommandInv, SkipBlank
    PROVE  CommandInv'
  <1>1. /\ at \in {"prefix", "end"} /\ is(i, BLANK) /\ i' = i + 1
        /\ UNCHANGED <<given, at, base, value, found_digit, outcome>>
    BY DEF SkipBlank
  <1>2. i \in 1 .. end - 1 /\ argument[i] = BLANK /\ i + 1 \in 1 .. end
    BY <1>1, Typed DEF CommandInv, is, argument
  <1>3. UNCHANGED line /\ argument' = argument /\ end' = end
    BY <1>1, SameLine DEF given
  <1>4. end \in Nat
    BY Typed DEF CommandInv
  <1>5. CommandTypeOK'
    <2>1. i' \in 1 .. (Len(line'.rest) + 1)
      BY <1>1, <1>2, <1>3 DEF end, argument
    <2> QED
      BY <1>1, <2>1 DEF CommandInv, CommandTypeOK, given
  <1>6. (i <= end /\ CopiedInv)'
    BY <1>1, <1>2, <1>3, <1>4 DEF CommandInv, CopiedInv, given
  <1>7. ArgumentIsTheNumber'
    BY <1>1 DEF ArgumentIsTheNumber
  <1>8. ASSUME NEW z \in 1 .. end, BlankFrom(z, i - 1)
        PROVE  BlankFrom(z, i - 1)'
    <2>1. ASSUME NEW k \in z .. i
          PROVE  argument[k] = BLANK
      <3>1. k \in z .. i - 1 \/ k = i
        BY <1>2
      <3> QED
        BY <1>2, <1>8, <3>1 DEF BlankFrom
    <2>2. i' - 1 = i
      BY <1>1, <1>2
    <2>3. \A k \in z .. i' - 1 : argument'[k] = BLANK
      BY <1>3, <2>1, <2>2
    <2> QED
      BY <2>3 DEF BlankFrom
  <1>9. at = "prefix" => (base = 10 /\ value = 0 /\ found_digit = FALSE /\ BlankFrom(1, i - 1))'
    <2>1. 1 \in 1 .. end
      BY <1>2, <1>4
    <2>2. at = "prefix" => BlankFrom(1, i - 1)'
      BY <1>8, <2>1 DEF CommandInv
    <2> QED
      BY <1>1, <2>2 DEF CommandInv
  <1>10. at = "end" => EndInv'
    <2> SUFFICES ASSUME at = "end"
                 PROVE  EndInv'
      OBVIOUS
    <2>1. PICK a \in 1 .. end, z \in 1 .. end :
             /\ WordFrom(a) /\ BaseOf(a) /\ ReadUpTo(a, z)
             /\ z # end => argument[z] = BLANK
             /\ z <= i /\ BlankFrom(z, i - 1)
      BY DEF CommandInv, EndInv
    <2>2. WordFrom(a)' /\ BaseOf(a)' /\ ReadUpTo(a, z)'
      BY <1>1, <1>3, <2>1 DEF WordFrom, BlankFrom, BaseOf, is, ReadUpTo, digits_from
    <2>3. z <= i'
      BY <1>1, <1>2, <2>1
    <2>4. BlankFrom(z, i - 1)'
      BY <1>8, <2>1
    <2> QED
      BY <1>3, <2>1, <2>2, <2>3, <2>4 DEF EndInv
  <1>11. line' = line /\ at' = at
    BY <1>1 DEF given
  <1> QED
    BY <1>1, <1>5, <1>6, <1>7, <1>9, <1>10, <1>11 DEF CommandInv

\* The word begins where the blanks end; only a whole 0x makes it hexadecimal.
LEMMA PrefixRead ==
    ASSUME CommandInv, ReadPrefix
    PROVE  CommandInv'
  <1>1. /\ at = "prefix" /\ at' = "digits" /\ ~ is(i, BLANK)
        /\ UNCHANGED <<given, value, found_digit, outcome>>
        /\ line.word \in ArgumentCommands
        /\ base = 10 /\ value = 0 /\ found_digit = FALSE /\ BlankFrom(1, i - 1)
    BY DEF ReadPrefix, CommandInv
  <1>2. \/ is(i, 0) /\ is(i + 1, X) /\ base' = 16 /\ i' = i + 2
        \/ ~ (is(i, 0) /\ is(i + 1, X)) /\ base' = base /\ i' = i
    BY DEF ReadPrefix
  <1>3. UNCHANGED line /\ argument' = argument /\ end' = end
    BY <1>1, SameLine DEF given
  <1>4. i \in 1 .. end /\ end \in Nat
    BY Typed DEF CommandInv
  <1>5. i' \in 1 .. end /\ i' \in Nat /\ base' \in {10, 16}
    <2>1. is(i + 1, X) => i + 1 \in 1 .. end - 1
      BY Typed DEF CommandInv, is, argument
    <2> QED
      BY <1>1, <1>2, <1>4, <2>1
  <1>6. CommandTypeOK'
    <2>1. i' \in 1 .. (Len(line'.rest) + 1)
      BY <1>3, <1>5 DEF end, argument
    <2> QED
      BY <1>1, <1>5, <2>1 DEF CommandInv, CommandTypeOK, given
  <1>7. (i <= end /\ CopiedInv)'
    BY <1>1, <1>3, <1>4, <1>5 DEF CommandInv, CopiedInv, given
  <1>8. DigitsInv'
    <2>1. WordFrom(i)
      <3>1. i # end => argument[i] # BLANK
        BY <1>1, <1>4, Typed DEF CommandInv, is, argument
      <3> QED
        BY <1>1, <1>4, <3>1 DEF WordFrom
    <2>3. PICK b \in 1 .. end : b = i
      BY <1>4
    <2>4. WordFrom(b)'
      BY <1>3, <2>1, <2>3 DEF WordFrom, BlankFrom
    <2>5. (is(b, 0) /\ is(b + 1, X))' <=> (is(i, 0) /\ is(i + 1, X))
      BY <1>3, <2>3 DEF is
    <2>6. BaseOf(b)' /\ digits_from(b)' = i'
      BY <1>1, <1>2, <2>3, <2>5 DEF BaseOf, digits_from
    <2>7. ReadUpTo(b, i)'
      <3>1. i' \in i' .. end' /\ \A k \in i' .. i' - 1 : argument'[k] < base'
        <4>1. i' \in i' .. end'
          BY <1>3, <1>4, <1>5
        <4>2. \A k \in Nat : k .. k - 1 = {}
          OBVIOUS
        <4> QED
          BY <1>5, <4>1, <4>2
      <3>2. SubSeq(argument, i', i' - 1) = <<>>
        <4>1. argument \in Seq(Nat)
          BY Typed DEF CommandInv
        <4>2. \A k \in Nat : SubSeq(argument, k, k - 1) = <<>>
          BY <4>1
        <4> QED
          BY <1>5, <4>2
      <3>3. PlaceValue(<<>>, base') = 0
        BY <1>5, PlaceValueEmpty
      <3>4. value' = PlaceValue(SubSeq(argument', i', i' - 1), base')
        BY <1>1, <1>3, <3>2, <3>3
      <3>5. found_digit' = FALSE
        BY <1>1
      <3> QED
        BY <2>6, <3>1, <3>4, <3>5 DEF ReadUpTo
    <2> QED
      BY <1>3, <2>4, <2>6, <2>7 DEF DigitsInv
  <1>9. ArgumentIsTheNumber' /\ (line.word \in ArgumentCommands)'
    BY <1>1, <1>3 DEF ArgumentIsTheNumber
  <1> QED
    BY <1>1, <1>6, <1>7, <1>8, <1>9 DEF CommandInv

\* A part of a sequence with the element behind it.
LEMMA OneMore ==
    ASSUME NEW t \in Seq(Nat), NEW j \in 1 .. Len(t), NEW f \in Nat \ {0}, f <= j
    PROVE  /\ SubSeq(t, f, j - 1) \in Seq(Nat)
           /\ SubSeq(t, f, j) = Append(SubSeq(t, f, j - 1), t[j])
  <1> DEFINE s == SubSeq(t, f, j - 1)
             u == Append(s, t[j])
             v == SubSeq(t, f, j)
  <1>1. j \in Nat /\ t[j] \in Nat
    OBVIOUS
  <1>2. /\ s \in Seq(Nat) /\ Len(s) = j - f
        /\ \A k \in 1 .. j - f : s[k] = t[f + k - 1]
    BY <1>1
  <1>3. /\ v \in Seq(Nat) /\ Len(v) = j - f + 1
        /\ \A k \in 1 .. j - f + 1 : v[k] = t[f + k - 1]
    BY <1>1
  <1> HIDE DEF s
  <1>4. /\ u \in Seq(Nat) /\ Len(u) = j - f + 1 /\ u[j - f + 1] = t[j]
        /\ \A k \in 1 .. j - f : u[k] = s[k]
    <2>1. \A c \in Nat : /\ Append(s, c) \in Seq(Nat) /\ Len(Append(s, c)) = Len(s) + 1
                         /\ Append(s, c)[Len(s) + 1] = c
                         /\ \A k \in 1 .. Len(s) : Append(s, c)[k] = s[k]
      BY <1>2
    <2> QED
      BY <1>1, <1>2, <2>1
  <1> HIDE DEF u, v
  <1>5. \A k \in 1 .. j - f + 1 : u[k] = v[k]
    <2> TAKE k \in 1 .. j - f + 1
    <2>1. CASE k = j - f + 1
      <3>1. f + k - 1 = j
        BY <1>1, <2>1
      <3> QED
        BY <1>3, <1>4, <2>1, <3>1
    <2>2. CASE k # j - f + 1
      <3>1. k \in 1 .. j - f
        BY <1>1, <2>2
      <3> QED
        BY <1>2, <1>3, <1>4, <3>1
    <2> QED
      BY <2>1, <2>2
  <1>6. u = v
    <2> DEFINE m == j - f + 1
    <2>1. u \in Seq(Nat) /\ v \in Seq(Nat) /\ Len(u) = m /\ Len(v) = m
          /\ \A k \in 1 .. m : u[k] = v[k]
      BY <1>3, <1>4, <1>5
    <2> HIDE DEF m
    <2> QED
      BY <2>1
  <1> QED
    BY <1>2, <1>6 DEF s, u, v

\* One more digit, which still fits: the product does not wrap.
LEMMA DigitRead ==
    ASSUME CommandInv, ReadDigit
    PROVE  CommandInv'
  <1>1. /\ at = "digits" /\ ~ ended /\ digit < base /\ fits
        /\ value' = (value * base + digit) % U64 /\ found_digit' = TRUE /\ i' = i + 1
        /\ UNCHANGED <<given, at, base, outcome>> /\ line.word \in ArgumentCommands
    BY DEF ReadDigit, CommandInv
  <1>2. UNCHANGED line /\ argument' = argument /\ end' = end
    BY <1>1, SameLine DEF given
  <1>3. /\ i \in 1 .. end - 1 /\ end \in Nat
        /\ i' \in 1 .. end /\ digit = argument[i] /\ digit \in Nat
        /\ base \in {10, 16} /\ value \in Nat
    <2>1. /\ end \in Nat /\ i <= end
          /\ i \in Nat \ {0} /\ base \in {10, 16} /\ value \in Nat
      BY Typed DEF CommandInv
    <2>2. i \in 1 .. end - 1
      BY <1>1, Typed DEF CommandInv, ended, argument
    <2>3. digit = argument[i]
      BY DEF digit, argument
    <2>4. digit \in Nat
      BY <2>2, <2>3, Typed DEF CommandInv
    <2>5. i' \in 1 .. end
      BY <1>1, <2>1, <2>2
    <2> QED
      BY <2>1, <2>2, <2>3, <2>4, <2>5
  <1>4. value' = value * base + digit /\ value' \in Number
    <2>1. U64 \in Nat /\ U64 >= 16 /\ value <= (U64 - 1 - digit) \div base
      BY <1>1, U64Large DEF fits
    <2>2. value * base + digit \in Nat /\ value * base + digit < U64
      <3> HIDE DEF digit
      <3>1. CASE base = 10
        BY <1>1, <1>3, <2>1, <3>1
      <3>2. CASE base = 16
        BY <1>1, <1>3, <2>1, <3>2
      <3> QED
        BY <1>3, <3>1, <3>2
    <2>3. (value * base + digit) % U64 = value * base + digit
      <3> DEFINE v == value * base + digit
      <3>1. v \in Nat /\ v < U64 /\ U64 \in Nat
        BY <2>1, <2>2
      <3> HIDE DEF v
      <3>2. v % U64 = v
        BY <3>1
      <3> QED
        BY <3>2 DEF v
    <2> QED
      BY <1>1, <2>1, <2>2, <2>3 DEF Number
  <1>5. CommandTypeOK'
    <2>1. i' \in 1 .. (Len(line'.rest) + 1)
      BY <1>2, <1>3 DEF end, argument
    <2> QED
      BY <1>1, <1>4, <2>1 DEF CommandInv, CommandTypeOK, given
  <1>6. (i <= end /\ CopiedInv)'
    BY <1>1, <1>2, <1>3 DEF CommandInv, CopiedInv, given
  <1>7. DigitsInv'
    <2>1. PICK a \in 1 .. end : WordFrom(a) /\ BaseOf(a) /\ ReadUpTo(a, i)
      BY <1>1 DEF CommandInv, DigitsInv
    <2>2. WordFrom(a)' /\ BaseOf(a)' /\ digits_from(a)' = digits_from(a)
      BY <1>1, <1>2, <2>1 DEF WordFrom, BlankFrom, BaseOf, is, digits_from
    <2> DEFINE f == digits_from(a)
               s == SubSeq(argument, f, i - 1)
    <2>3. f \in Nat \ {0} /\ i \in Nat /\ f <= i /\ i <= end - 1
      BY <1>3, <2>1 DEF ReadUpTo, digits_from
    <2>4. s \in Seq(Nat) /\ SubSeq(argument, f, i) = Append(s, argument[i])
      <3>1. argument \in Seq(Nat) /\ i \in 1 .. Len(argument)
        BY <1>3, Typed DEF CommandInv
      <3> HIDE DEF f
      <3> QED
        BY <2>3, <3>1, OneMore
    <2>5. PlaceValue(SubSeq(argument, f, i), base) = value * base + digit
      <3>1. PlaceValue(s, base) = value
        BY <2>1 DEF ReadUpTo
      <3>2. base \in Nat /\ argument[i] \in Nat /\ digit = argument[i]
        BY <1>3
      <3> HIDE DEF s
      <3>3. PlaceValue(Append(s, argument[i]), base) = PlaceValue(s, base) * base + argument[i]
        BY <2>4, <3>2, PlaceValueAppend
      <3> QED
        BY <2>4, <3>1, <3>2, <3>3
    <2>6. ReadUpTo(a, i)'
      <3>1. i' \in f .. end /\ i' # f /\ i' - 1 = i
        BY <1>1, <1>3, <2>3
      <3>2. ASSUME NEW k \in f .. i
            PROVE  argument[k] < base
        <4>1. k \in f .. i - 1 \/ k = i
          BY <2>3
        <4> QED
          BY <1>1, <1>3, <2>1, <4>1 DEF ReadUpTo
      <3> HIDE DEF f
      <3>3. value' = PlaceValue(SubSeq(argument', f, i' - 1), base')
        BY <1>1, <1>2, <1>4, <2>5, <3>1
      <3>4. digits_from(a)' = f
        BY <2>2 DEF f
      <3> QED
        BY <1>1, <1>2, <3>1, <3>2, <3>3, <3>4 DEF ReadUpTo
    <2> QED
      BY <1>2, <2>2, <2>6 DEF DigitsInv
  <1>8. ArgumentIsTheNumber' /\ at' = "digits" /\ (line.word \in ArgumentCommands)'
    BY <1>1, <1>2 DEF ArgumentIsTheNumber
  <1> QED
    BY <1>5, <1>6, <1>7, <1>8 DEF CommandInv

\* What is refused at once is no numeral, whatever follows it.
LEMMA CharacterRefused ==
    ASSUME CommandInv, RefuseCharacter
    PROVE  CommandInv'
  <1>1. /\ at = "digits" /\ ~ ended /\ digit # BLANK /\ (digit >= base \/ ~ fits)
        /\ at' = "done" /\ outcome' = Invalid /\ UNCHANGED <<given, parsing>>
        /\ line.word \in ArgumentCommands
    BY DEF RefuseCharacter, Finish, CommandInv
  <1>2. CommandTypeOK
    BY DEF CommandInv
  <1>3. /\ i \in 1 .. end - 1 /\ digit = argument[i] /\ digit \in Nat /\ base \in Nat
        /\ i # end /\ i \in Nat /\ end \in Nat
    <2>1. end \in Nat /\ i \in Nat \ {0} /\ base \in Nat /\ DOMAIN argument = 1 .. end - 1
      BY <1>2, Typed
    <2>2. i \in 1 .. end - 1
      BY <1>1, <2>1 DEF ended, argument
    <2>3. digit = argument[i]
      BY DEF digit, argument
    <2>4. digit \in Nat
      BY <1>2, <2>2, <2>3, Typed
    <2> QED
      BY <2>1, <2>2, <2>3, <2>4
  <1>4. PICK a \in 1 .. end : WordFrom(a) /\ BaseOf(a) /\ ReadUpTo(a, i)
    BY <1>1 DEF CommandInv, DigitsInv
  <1>5. ~ IsNumeral(argument)
    <2>1. CASE digit >= base
      <3>1. i \in digits_from(a) .. end - 1
        BY <1>3, <1>4 DEF ReadUpTo, digits_from
      <3>2. i \in i .. end - 1
        BY <1>3
      <3> QED
        BY <1>1, <1>2, <1>3, <1>4, <2>1, <3>1, <3>2, StrayCharacter
    <2>2. CASE ~ digit >= base
      <3>1. argument[i] < base /\ argument[i] # BLANK /\ ~ fits
        BY <1>1, <1>3, <2>2
      <3> QED
        BY <1>2, <1>3, <1>4, <3>1, TooLarge
    <2> QED
      BY <2>1, <2>2
  <1>6. ArgumentIsTheNumber'
    BY <1>1, <1>5 DEF ArgumentIsTheNumber, argument, given
  <1>7. CommandTypeOK'
    BY <1>1, <1>2 DEF CommandTypeOK, given, parsing, Invalid, Nothing
  <1>8. (i <= end /\ CopiedInv)'
    BY <1>1 DEF CommandInv, CopiedInv, given, parsing, argument, end
  <1> QED
    BY <1>1, <1>6, <1>7, <1>8 DEF CommandInv

\* At the end of the word all its digits have been read.
LEMMA DigitsEnded ==
    ASSUME CommandInv, EndOfDigits
    PROVE  CommandInv'
  <1>1. /\ at = "digits" /\ (ended \/ is(i, BLANK)) /\ at' = "end"
        /\ UNCHANGED <<given, parsing, outcome>> /\ line.word \in ArgumentCommands
    BY DEF EndOfDigits, CommandInv
  <1>2. UNCHANGED <<line, copied, i, base, value, found_digit>>
    BY <1>1 DEF given, parsing
  <1>3. argument' = argument /\ end' = end
    BY <1>2, SameLine
  <1>4. PICK a \in 1 .. end : WordFrom(a) /\ BaseOf(a) /\ ReadUpTo(a, i)
    BY <1>1 DEF CommandInv, DigitsInv
  <1>5. i \in 1 .. end /\ i \in Nat
    BY Typed DEF CommandInv
  <1>6. i # end => argument[i] = BLANK
    BY <1>1, Typed DEF CommandInv, ended, is, argument
  <1>7. EndInv
    <2>1. i <= i /\ BlankFrom(i, i - 1)
      BY <1>5 DEF BlankFrom
    <2> QED
      BY <1>4, <1>5, <1>6, <2>1 DEF EndInv
  <1>8. EndInv'
    BY <1>2, <1>3, <1>7
       DEF EndInv, WordFrom, BlankFrom, BaseOf, is, ReadUpTo, digits_from
  <1>9. CommandTypeOK' /\ (i <= end /\ CopiedInv)'
    BY <1>1, <1>2, <1>3 DEF CommandInv, CommandTypeOK, CopiedInv
  <1>10. ArgumentIsTheNumber' /\ (line.word \in ArgumentCommands)'
    BY <1>1, <1>2 DEF ArgumentIsTheNumber
  <1> QED
    BY <1>1, <1>8, <1>9, <1>10 DEF CommandInv

\* At the end of the argument what is done is right, by Decided.
LEMMA ArgumentEnded ==
    ASSUME CommandInv, EndOfArgument
    PROVE  CommandInv'
  <1>1. /\ at = "end" /\ ~ is(i, BLANK) /\ at' = "done"
        /\ outcome' = (IF accepted THEN ExecuteWith(line.word, value) ELSE Invalid)
        /\ UNCHANGED <<given, parsing>> /\ line.word \in ArgumentCommands
    BY DEF EndOfArgument, Finish, CommandInv
  <1>2. PICK a \in 1 .. end, z \in 1 .. end :
           /\ WordFrom(a) /\ BaseOf(a) /\ ReadUpTo(a, z)
           /\ z # end => argument[z] = BLANK
           /\ z <= i /\ BlankFrom(z, i - 1)
    BY <1>1 DEF CommandInv, EndInv
  <1>3. CommandTypeOK /\ i <= end
    BY DEF CommandInv
  <1>4. (accepted <=> IsNumeral(argument)) /\ (accepted => value = Denoted(argument))
    BY <1>1, <1>2, <1>3, Decided
  <1>5. outcome' = (IF IsNumeral(argument)
                    THEN ExecuteWith(line.word, Denoted(argument)) ELSE Invalid)
    BY <1>1, <1>4
  <1>6. ArgumentIsTheNumber'
    BY <1>1, <1>5 DEF ArgumentIsTheNumber, argument, given
  <1>7. CommandTypeOK'
    <2>1. outcome' # Nothing
      BY <1>1 DEF ExecuteWith, Invalid, Nothing
    <2> QED
      BY <1>1, <1>3, <2>1 DEF CommandTypeOK, given, parsing
  <1>8. (i <= end /\ CopiedInv)'
    BY <1>1 DEF CommandInv, CopiedInv, given, parsing, argument, end
  <1> QED
    BY <1>1, <1>6, <1>7, <1>8 DEF CommandInv

LEMMA NothingDone ==
    ASSUME CommandInv, UNCHANGED commandVars
    PROVE  CommandInv'
  <1>1. UNCHANGED <<line, copied, at, i, base, value, found_digit, outcome>>
    BY DEF commandVars, given, parsing
  <1>2. CommandTypeOK' /\ ArgumentIsTheNumber'
    BY <1>1 DEF CommandInv, CommandTypeOK, ArgumentIsTheNumber, rest_fits
  <1>3. argument' = argument /\ end' = end
    BY <1>1 DEF argument, end
  <1>4. ASSUME NEW a, NEW z
        PROVE  /\ WordFrom(a)' = WordFrom(a) /\ BaseOf(a)' = BaseOf(a)
               /\ ReadUpTo(a, z)' = ReadUpTo(a, z)
               /\ BlankFrom(z, i - 1)' = BlankFrom(z, i - 1)
    <2>1. WordFrom(a)' = WordFrom(a) /\ BlankFrom(z, i - 1)' = BlankFrom(z, i - 1)
      BY <1>1, <1>3 DEF WordFrom, BlankFrom
    <2>2. BaseOf(a)' = BaseOf(a)
      BY <1>1, <1>3 DEF BaseOf, is
    <2>3. ReadUpTo(a, z)' = ReadUpTo(a, z)
      BY <1>1, <1>3 DEF ReadUpTo, digits_from
    <2> QED
      BY <2>1, <2>2, <2>3
  <1>5. DigitsInv => DigitsInv'
    <2> SUFFICES ASSUME DigitsInv
                 PROVE  DigitsInv'
      OBVIOUS
    <2>1. PICK a \in 1 .. end : WordFrom(a) /\ BaseOf(a) /\ ReadUpTo(a, i)
      BY DEF DigitsInv
    <2>2. WordFrom(a)' /\ BaseOf(a)'
      BY <2>1, <1>4
    <2>3. ReadUpTo(a, i)'
      BY <1>1, <1>3, <2>1 DEF ReadUpTo, digits_from
    <2> QED
      BY <1>3, <2>1, <2>2, <2>3 DEF DigitsInv
  <1>6. EndInv => EndInv'
    <2> SUFFICES ASSUME EndInv
                 PROVE  EndInv'
      OBVIOUS
    <2>1. PICK a \in 1 .. end, z \in 1 .. end :
             /\ WordFrom(a) /\ BaseOf(a) /\ ReadUpTo(a, z)
             /\ z # end => argument[z] = BLANK
             /\ z <= i /\ BlankFrom(z, i - 1)
      BY DEF EndInv
    <2>2. WordFrom(a)' /\ BaseOf(a)' /\ ReadUpTo(a, z)' /\ BlankFrom(z, i - 1)'
      BY <2>1, <1>4
    <2> QED
      BY <1>1, <1>3, <2>1, <2>2 DEF EndInv
  <1>7. (at = "digits" => DigitsInv)' /\ (at = "end" => EndInv)'
    BY <1>1, <1>5, <1>6 DEF CommandInv
  <1>8. /\ (i <= end /\ CopiedInv)'
        /\ (at \in {"prefix", "digits", "end"} => line.word \in ArgumentCommands)'
        /\ (at \in {"dispatch", "prefix"} =>
               base = 10 /\ value = 0 /\ found_digit = FALSE /\ BlankFrom(1, i - 1))'
    BY <1>1 DEF CommandInv, CopiedInv, BlankFrom, argument, end
  <1> QED
    BY <1>2, <1>7, <1>8 DEF CommandInv

-----------------------------------------------------------------------------
(***************************************************************************)
(* The theorems.                                                           *)
(***************************************************************************)

\* parse_u64 always knows what it has read: after the blanks, the prefix if
\* there is one and the digits so far, value is the number those digits
\* denote; what it has refused is no numeral, and what it has accepted is.
THEOREM CommandInvariant == CommandSpec => []CommandInv
  <1>1. CommandInit => CommandInv
    BY AtFirst
  <1>2. CommandInv /\ [CommandNext]_commandVars => CommandInv'
    <2> SUFFICES ASSUME CommandInv, [CommandNext]_commandVars
                 PROVE  CommandInv'
      OBVIOUS
    <2>1. CASE ExecuteCommand \/ CommandNotFound
      BY <2>1, Dispatched
    <2>2. CASE ParseArgument
      BY <2>2, ArgumentTaken
    <2>3. CASE OverrunArgument
      BY <2>3, ArgumentOverrun
    <2>4. CASE SkipBlank
      BY <2>4, BlankSkipped
    <2>5. CASE ReadPrefix
      BY <2>5, PrefixRead
    <2>6. CASE ReadDigit
      BY <2>6, DigitRead
    <2>7. CASE RefuseCharacter
      BY <2>7, CharacterRefused
    <2>8. CASE EndOfDigits
      BY <2>8, DigitsEnded
    <2>9. CASE EndOfArgument
      BY <2>9, ArgumentEnded
    <2>10. CASE UNCHANGED commandVars
      BY <2>10, NothingDone
    <2> QED
      BY <2>1, <2>2, <2>3, <2>4, <2>5, <2>6, <2>7, <2>8, <2>9, <2>10 DEF CommandNext
  <1> QED
    BY <1>1, <1>2, PTL DEF CommandSpec

\* Whatever line is typed and however long, parse_u64's value stays below
\* 2^64 and its index never goes past the null character that ends the
\* argument.
THEOREM CommandTypeCorrect == CommandSpec => []CommandTypeOK
  <1>1. CommandInv => CommandTypeOK
    BY DEF CommandInv
  <1> QED
    BY <1>1, CommandInvariant, PTL

\* Whatever line is typed, PAGE-INFO or ALLOC-CONTIG, given an argument that
\* fits its buffer, is executed exactly when that is a number that fits in 64
\* bits, and with that number.
THEOREM ArgumentsAreTheirNumbers == CommandSpec => []ArgumentIsTheNumber
  <1>1. CommandInv => ArgumentIsTheNumber
    BY DEF CommandInv
  <1> QED
    BY <1>1, CommandInvariant, PTL

\* What write_u64 or write_hex prints, typed after a blank, is that number.
LEMMA ShownIsNumeral ==
    ASSUME NEW n \in Number, NEW text \in {write_u64(n), write_hex(n)}
    PROVE  IsNumeral(<<BLANK>> \o text) /\ Denoted(<<BLANK>> \o text) = n
  <1> DEFINE t == <<BLANK>> \o text
  <1>1. text \in Seq(Character) /\ Len(text) >= 1 /\ \A k \in 1 .. Len(text) : text[k] # BLANK
    <2>1. CASE text = write_u64(n)
      <3>1. write_u64(n) \in Seq(0 .. 9) /\ Len(write_u64(n)) \in 1 .. 2 * NIBBLES
        BY WriteU64
      <3>2. \A q \in Seq(0 .. 9) : q \in Seq(Character) /\ \A k \in 1 .. Len(q) : q[k] # BLANK
        BY DEF Character, SYMBOL, BLANK
      <3> QED
        BY <2>1, <3>1, <3>2, NumbersAssumption
    <2>2. CASE text = write_hex(n)
      <3>1. PICK p \in Seq(0 .. 15) : write_hex(n) = <<0, X>> \o p /\ Len(p) \in 1 .. NIBBLES
        BY WriteHex
      <3>2. <<0, X>> \in Seq(0 .. 16) /\ p \in Seq(0 .. 16) /\ Len(<<0, X>>) = 2
        BY DEF X
      <3>3. text \in Seq(0 .. 16) /\ Len(text) = 2 + Len(p)
        BY <2>2, <3>1, <3>2
      <3>4. text \in Seq(Character) /\ \A k \in 1 .. Len(text) : text[k] # BLANK
        <4>1. Seq(0 .. 16) \subseteq Seq(Character)
          BY DEF Character, SYMBOL
        <4>2. \A k \in 1 .. Len(text) : text[k] \in 0 .. 16
          BY <3>3
        <4>3. BLANK \notin 0 .. 16
          BY DEF BLANK
        <4>4. \A k \in 1 .. Len(text) : text[k] # BLANK
          BY <4>2, <4>3
        <4>5. text \in Seq(Character)
          BY <3>3, <4>1
        <4> QED
          BY <4>4, <4>5
      <3> QED
        BY <3>1, <3>3, <3>4, NumbersAssumption
    <2> QED
      BY <2>1, <2>2
  <1>2. Trimmed(t) = text
    <2>1. /\ t \in Seq(Character) /\ Len(t) = Len(text) + 1 /\ t[1] = BLANK
          /\ \A k \in 1 .. Len(text) : t[k + 1] = text[k]
      <3>1. <<BLANK>> \in Seq(Character) /\ Len(<<BLANK>>) = 1 /\ <<BLANK>>[1] = BLANK
        BY DEF Character, BLANK, SYMBOL
      <3> QED
        BY <1>1, <3>1
    <2> HIDE DEF t
    <2>2. Len(text) \in Nat /\ Len(text) \in 1 .. Len(text)
      BY <1>1
    <2>3. 2 \in 1 .. Len(t) /\ Len(t) \in 2 .. Len(t)
      BY <1>1, <2>1, <2>2
    <2>4. t[2] # BLANK /\ t[Len(t)] # BLANK
      <3>1. 1 \in 1 .. Len(text) /\ t[1 + 1] = text[1] /\ t[Len(text) + 1] = text[Len(text)]
        BY <1>1, <2>1, <2>2
      <3> QED
        BY <1>1, <2>1, <2>2, <3>1
    <2>5. Trimmed(t) = SubSeq(t, 2, Len(t))
      <3>1. \A k \in 1 .. 2 - 1 : t[k] = BLANK
        BY <2>1
      <3>2. \A k \in Len(t) + 1 .. Len(t) : t[k] = BLANK
        BY <2>1, <2>2
      <3> QED
        BY <2>1, <2>3, <2>4, <3>1, <3>2, TrimmedWord
    <2> DEFINE u == SubSeq(t, 2, Len(t))
    <2>6. /\ u \in Seq(Character) /\ Len(u) = Len(text)
          /\ \A k \in 1 .. Len(text) : u[k] = t[k + 1]
      BY <2>1, <2>2, <2>3
    <2> HIDE DEF u
    <2>7. u = text
      BY <1>1, <2>1, <2>6
    <2> QED
      BY <2>5, <2>7 DEF u
  <1>3. /\ Digits(text) # <<>>
        /\ \A k \in DOMAIN Digits(text) : Digits(text)[k] < Base(text)
        /\ PlaceValue(Digits(text), Base(text)) = n
    <2>1. CASE text = write_u64(n)
      <3>1. /\ text \in Seq(0 .. 9) /\ Len(text) \in 1 .. 2 * NIBBLES
            /\ PlaceValue(text, 10) = n
        BY <2>1, WriteU64
      <3>2. ~ IsHex(text)
        BY <3>1 DEF IsHex, X
      <3>3. Digits(text) = text /\ Base(text) = 10
        BY <3>2 DEF Digits, Base
      <3>4. text # <<>> /\ \A k \in DOMAIN text : text[k] < 10
        BY <1>1, <3>1
      <3> QED
        BY <3>1, <3>3, <3>4
    <2>2. CASE text = write_hex(n)
      <3>1. PICK p \in Seq(0 .. 15) :
               /\ text = <<0, X>> \o p /\ Len(p) \in 1 .. NIBBLES /\ PlaceValue(p, 16) = n
        BY <2>2, WriteHex
      <3> DEFINE q == <<0, X>>
      <3>2. q \in Seq(0 .. 16) /\ p \in Seq(0 .. 16) /\ Len(q) = 2 /\ q[1] = 0 /\ q[2] = X
            /\ Len(p) \in Nat \ {0}
        BY <3>1, NumbersAssumption DEF X
      <3> HIDE DEF q
      <3>3. /\ text \in Seq(0 .. 16) /\ Len(text) = 2 + Len(p) /\ text[1] = 0 /\ text[2] = X
            /\ \A k \in 1 .. Len(p) : text[k + 2] = p[k]
        <4>1. text = q \o p
          BY <3>1 DEF q
        <4>2. /\ q \o p \in Seq(0 .. 16) /\ Len(q \o p) = Len(q) + Len(p)
              /\ \A k \in 1 .. Len(q) + Len(p) :
                    (q \o p)[k] = IF k <= Len(q) THEN q[k] ELSE p[k - Len(q)]
          BY <3>2, ConcatProperties
        <4>3. Len(q) + Len(p) = 2 + Len(p) /\ Len(p) \in Nat
          BY <3>2
        <4>4. (q \o p)[1] = q[1] /\ (q \o p)[2] = q[2]
          BY <3>2, <4>2, <4>3
        <4>5. ASSUME NEW k \in 1 .. Len(p)
              PROVE  (q \o p)[k + 2] = p[k]
          <5>1. k + 2 \in 1 .. Len(q) + Len(p) /\ ~ k + 2 <= 2 /\ (k + 2) - 2 = k
            BY <4>3
          <5> QED
            BY <3>2, <4>2, <5>1
        <4> QED
          BY <3>2, <4>1, <4>2, <4>3, <4>4, <4>5
      <3>4. IsHex(text)
        BY <3>2, <3>3 DEF IsHex
      <3> DEFINE d == SubSeq(text, 3, Len(text))
      <3>5. /\ d \in Seq(0 .. 16) /\ Len(d) = Len(p)
            /\ \A k \in 1 .. Len(p) : d[k] = text[k + 2]
        BY <3>2, <3>3
      <3> HIDE DEF d
      <3>6. d = p
        BY <3>2, <3>3, <3>5
      <3>7. Digits(text) = p /\ Base(text) = 16
        BY <3>4, <3>6 DEF Digits, Base, d
      <3>8. p # <<>> /\ \A k \in DOMAIN p : p[k] < 16
        <4>1. Len(p) # 0 /\ \A k \in DOMAIN p : p[k] \in 0 .. 15
          BY <3>2
        <4> QED
          BY <4>1
      <3> QED
        BY <3>1, <3>7, <3>8
    <2> QED
      BY <2>1, <2>2
  <1>4. n < U64
    BY U64Large DEF Number
  <1> HIDE DEF t
  <1>5. IsNumeral(t) /\ Denoted(t) = n
    BY <1>2, <1>3, <1>4 DEF IsNumeral, Denoted
  <1> QED
    BY <1>5 DEF t

\* An address the shell has printed, in decimal or in hexadecimal, can be
\* typed back as the argument of a command: the command gets that address.
THEOREM PrintedNumbersAreReadBack == CommandSpec => []PrintedNumbersReadBack
  <1>1. CommandInv => PrintedNumbersReadBack
    <2> SUFFICES ASSUME CommandInv, at = "done", copied # None
                 PROVE  outcome = ExecuteWith(line.word, copied)
      BY DEF PrintedNumbersReadBack
    <2>1. copied \in Number
      BY DEF CommandInv, CommandTypeOK
    <2>2. /\ line.word \in ArgumentCommands
          /\ argument \in {<<BLANK>> \o write_u64(copied), <<BLANK>> \o write_hex(copied)}
      BY DEF CommandInv, CopiedInv
    <2>3. IsNumeral(argument) /\ Denoted(argument) = copied
      BY <2>1, <2>2, ShownIsNumeral
    <2>4. rest_fits
      BY <2>1, <2>2, ShownFits DEF rest_fits, argument
    <2> QED
      BY <2>2, <2>3, <2>4 DEF CommandInv, ArgumentIsTheNumber, argument
  <1> QED
    BY <1>1, CommandInvariant, PTL

=============================================================================
