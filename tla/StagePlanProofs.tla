-------------------------- MODULE StagePlanProofs ---------------------------
(***************************************************************************)
(* Whatever the two rates are, the stages that _soxr_init plans change the *)
(* one into the other, and the plan is made in two turns of its loop.      *)
(*                                                                         *)
(* A recursive function is, for the provers, any function that satisfies   *)
(* its equation, if there is one: for each of them a function that does is *)
(* named first.  Induction goes by the least member of a set of numbers.   *)
(***************************************************************************)
EXTENDS StagePlan, WellFoundedInduction, TLAPS

Positive == Nat \ {0}

(***************************************************************************)
(* Whole numbers.                                                          *)
(***************************************************************************)
LEMMA Division ==
    ASSUME NEW x \in Int, NEW b \in Nat \ {0}
    PROVE  /\ x \div b \in Int /\ x % b \in 0 .. b - 1
           /\ x = b * (x \div b) + (x % b)
    BY SMT

LEMMA Cancel ==
    ASSUME NEW x \in Int, NEW y \in Int, NEW b \in Nat \ {0}, x * b < y * b
    PROVE  x < y
    BY SMT

LEMMA Further ==
    ASSUME NEW x \in Nat, NEW y \in Nat, NEW n \in Nat, x <= y
    PROVE  x + n <= y + n
    OBVIOUS

LEMMA Scale ==
    ASSUME NEW x \in Int, NEW y \in Int, NEW b \in Nat, x <= y
    PROVE  x * b <= y * b
    BY SMT

LEMMA Product ==
    ASSUME NEW x \in Nat, NEW y \in Nat
    PROVE  x * y \in Nat
    BY SMT

LEMMA PositiveProduct ==
    ASSUME NEW x \in Positive, NEW y \in Positive
    PROVE  x * y \in Positive
    BY SMT DEF Positive

LEMMA SameFactor ==
    ASSUME NEW k \in Positive, NEW x \in Nat, NEW y \in Nat, k * x = k * y
    PROVE  x = y
    BY SMT DEF Positive

LEMMA Exactly ==
    ASSUME NEW k \in Positive, NEW x \in Nat
    PROVE  (k * x) \div k = x
    BY SMT DEF Positive

LEMMA ScaledRest ==
    ASSUME NEW a \in Nat, NEW b \in Nat \ {0}, NEW k \in Nat \ {0}
    PROVE  (k * a) % (k * b) = k * (a % b)
    BY SMT

\* A quotient lies between what it was rounded from and one less.
LEMMA Quotient ==
    ASSUME NEW x \in Int, NEW b \in Nat \ {0}
    PROVE  /\ x \div b \in Int
           /\ (x \div b) * b <= x /\ x < (x \div b) * b + b
           /\ x \in Nat => x \div b \in Nat
  <1> DEFINE q == x \div b
  <1>1. q \in Int /\ x % b \in 0 .. b - 1 /\ x = b * q + (x % b)
    BY Division
  <1>2. q * b \in Int /\ q * b = b * q
    BY <1>1, SMT
  <1> HIDE DEF q
  <1>3. q * b <= x /\ x < q * b + b
    BY <1>1, <1>2
  <1>4. x \in Nat => q \in Nat
    <2> SUFFICES ASSUME x \in Nat
                 PROVE  q \in Nat
      OBVIOUS
    <2>1. 0 * b < (q + 1) * b
      BY <1>1, <1>2, <1>3
    <2>2. 0 < q + 1
      BY <2>1, <1>1, Cancel
    <2> QED
      BY <2>2, <1>1
  <1> QED
    BY <1>1, <1>3, <1>4 DEF q

SmallerPairs == {ss \in Nat \X Nat : ss[1] < ss[2]}

LEMMA NothingDescendsForEver == IsWellFoundedOn(SmallerPairs, Nat)
    BY NatLessThanWellFounded DEF OpToRel, SmallerPairs

\* Every set of numbers has a least one: what holds of a number whenever it holds
\* of the smaller ones holds of all, for there is no least one where it does not.
LEMMA LeastOf ==
    ASSUME NEW S, S \subseteq Nat, S # {}
    PROVE  \E x \in S : \A y \in Nat : y < x => y \notin S
  <1>1. PICK x \in S : \A y \in S : ~ (<<y, x>> \in SmallerPairs)
    BY NothingDescendsForEver, WFMin
  <1>2. \A y \in S : y < x => <<y, x>> \in SmallerPairs
    BY DEF SmallerPairs
  <1> QED
    BY <1>1, <1>2
-----------------------------------------------------------------------------
(***************************************************************************)
(* The greatest common divisor.                                            *)
(***************************************************************************)
Divides(d, x) == \E k \in Nat : x = d * k
Common(a, b) == {d \in Nat : Divides(d, a) /\ Divides(d, b)}
Greatest(S) == CHOOSE x \in S : \A y \in S : Divides(y, x)

LEMMA SelfDivides ==
    ASSUME NEW a \in Nat
    PROVE  Divides(a, a) /\ Divides(a, 0)
  <1>1. a = a * 1 /\ 0 = a * 0 /\ 1 \in Nat /\ 0 \in Nat
    BY SMT
  <1> QED
    BY <1>1 DEF Divides

LEMMA EachOther ==
    ASSUME NEW a \in Nat, NEW b \in Nat, Divides(a, b), Divides(b, a)
    PROVE  a = b
  <1>1. PICK k \in Nat : b = a * k
    BY DEF Divides
  <1>2. PICK l \in Nat : a = b * l
    BY DEF Divides
  <1>3. CASE a = 0
    BY <1>1, <1>3, SMT
  <1>4. CASE a # 0
    <2>1. a * 1 = a * (k * l)
      BY <1>1, <1>2, SMT
    <2>2. 1 = k * l
      BY <1>4, <2>1, SMT
    <2>3. k = 1
      BY <2>2, SMT
    <2> QED
      BY <1>1, <2>3, SMT
  <1> QED
    BY <1>3, <1>4

\* What divides both divides the rest, and the other way round.
LEMMA CommonWithRest ==
    ASSUME NEW a \in Nat, NEW b \in Nat \ {0}
    PROVE  Common(a, b) = Common(b, a % b)
  <1> DEFINE q == a \div b
             r == a % b
  <1>1. q \in Nat /\ r \in Nat /\ a = b * q + r
    BY Division, Quotient
  <1> HIDE DEF q, r
  <1>2. ASSUME NEW d \in Nat, Divides(d, b), Divides(d, r)
        PROVE  Divides(d, a)
    <2>1. PICK k \in Nat : b = d * k
      BY <1>2 DEF Divides
    <2>2. PICK l \in Nat : r = d * l
      BY <1>2 DEF Divides
    <2>3. k * q + l \in Nat
      BY <1>1, SMT
    <2>4. a = d * (k * q + l)
      BY <1>1, <2>1, <2>2, SMT
    <2> QED
      BY <2>3, <2>4 DEF Divides
  <1>3. ASSUME NEW d \in Nat, Divides(d, a), Divides(d, b)
        PROVE  Divides(d, r)
    <2>1. PICK k \in Nat : b = d * k
      BY <1>3 DEF Divides
    <2>2. PICK l \in Nat : a = d * l
      BY <1>3 DEF Divides
    <2>3. r = d * (l - k * q)
      BY <1>1, <2>1, <2>2, SMT
    <2>4. CASE l - k * q \in Nat
      BY <2>3, <2>4 DEF Divides
    <2>5. CASE l - k * q \notin Nat
      <3>1. l - k * q \in Int /\ l - k * q < 0
        BY <1>1, <2>5, SMT
      <3>2. d = 0 \/ d * (l - k * q) < 0
        BY <3>1, SMT
      <3>3. r = 0
        BY <1>1, <2>3, <3>1, <3>2, SMT
      <3> QED
        BY <3>3, SelfDivides
    <2> QED
      BY <2>4, <2>5
  <1>4. \A d \in Nat : d \in Common(a, b) <=> d \in Common(b, r)
    BY <1>2, <1>3 DEF Common
  <1> QED
    BY <1>4 DEF Common, r

\* The equation of gcd, which the greatest common divisor satisfies.
LEMMA gcdEquation ==
    gcd = [p \in Nat \X Nat |->
              IF p[2] = 0 THEN p[1] ELSE gcd[<<p[2], p[1] % p[2]>>]]
  <1> DEFINE G == [p \in Nat \X Nat |-> Greatest(Common(p[1], p[2]))]
  <1>1. ASSUME NEW a \in Nat
        PROVE  Greatest(Common(a, 0)) = a
    <2>1. a \in Common(a, 0) /\ \A y \in Common(a, 0) : Divides(y, a)
      BY SelfDivides DEF Common
    <2>2. \A x \in Common(a, 0) : (\A y \in Common(a, 0) : Divides(y, x)) => x = a
      BY <2>1, EachOther DEF Common
    <2> QED
      BY <2>1, <2>2 DEF Greatest
  <1>2. ASSUME NEW p \in Nat \X Nat
        PROVE  G[p] = IF p[2] = 0 THEN p[1] ELSE G[<<p[2], p[1] % p[2]>>]
    <2>1. CASE p[2] = 0
      BY <1>1, <2>1
    <2>2. CASE p[2] # 0
      <3>1. p[1] \in Nat /\ p[2] \in Nat \ {0} /\ p[1] % p[2] \in Nat
        <4>1. p[1] \in Nat /\ p[2] \in Nat \ {0}
          BY <2>2
        <4> DEFINE a == p[1]
                   b == p[2]
        <4> HIDE DEF a, b
        <4>2. a % b \in 0 .. b - 1
          <5>1. a \in Int /\ b \in Nat \ {0}
            BY <4>1 DEF a, b
          <5> QED
            BY <5>1, Division
        <4>3. b \in Nat
          BY <4>1 DEF b
        <4>4. a % b \in Nat
          BY <4>2, <4>3
        <4> QED
          BY <4>1, <4>4 DEF a, b
      <3>2. Common(p[1], p[2]) = Common(p[2], p[1] % p[2])
        BY <3>1, CommonWithRest
      <3>3. <<p[2], p[1] % p[2]>> \in Nat \X Nat
        BY <3>1
      <3> QED
        BY <2>2, <3>2, <3>3
    <2> QED
      BY <2>1, <2>2
  <1>3. G = [p \in Nat \X Nat |->
                IF p[2] = 0 THEN p[1] ELSE G[<<p[2], p[1] % p[2]>>]]
    <2>1. G = [p \in Nat \X Nat |-> G[p]]
      OBVIOUS
    <2> HIDE DEF G
    <2> QED
      BY <1>2, <2>1
  <1> HIDE DEF G
  <1> QED
    BY <1>3, Zenon DEF gcd

LEMMA gcdOf ==
    ASSUME NEW a \in Nat, NEW b \in Nat
    PROVE  /\ b = 0 => gcd[<<a, b>>] = a
           /\ b # 0 => gcd[<<a, b>>] = gcd[<<b, a % b>>]
  <1> DEFINE f == gcd
  <1>1. f = [p \in Nat \X Nat |->
                IF p[2] = 0 THEN p[1] ELSE f[<<p[2], p[1] % p[2]>>]]
    BY gcdEquation
  <1>2. <<a, b>> \in Nat \X Nat
    OBVIOUS
  <1> HIDE DEF f
  <1>3. /\ b = 0 => f[<<a, b>>] = a
        /\ b # 0 => f[<<a, b>>] = f[<<b, a % b>>]
    BY <1>1, <1>2
  <1> QED
    BY <1>3 DEF f

LEMMA gcdOfZero ==
    ASSUME NEW a \in Nat, NEW b \in Nat, b = 0
    PROVE  gcd[<<a, b>>] = a
    BY gcdOf

\* It divides both, and grows with them.
Sane(a, b) ==
    LET g == gcd[<<a, b>>]
    IN  /\ g \in Positive /\ Divides(g, a) /\ Divides(g, b)
        /\ \A k \in Positive : gcd[<<k * a, k * b>>] = k * g

LEMMA gcdIsSane ==
    ASSUME NEW x \in Nat, NEW y \in Nat, x # 0 \/ y # 0
    PROVE  Sane(x, y)
  <1> DEFINE Bad == {b \in Nat : \E a \in Nat : (a # 0 \/ b # 0) /\ ~ Sane(a, b)}
  <1>1. ASSUME NEW b \in Nat, \A c \in Nat : c < b => c \notin Bad,
               NEW a \in Nat, a # 0 \/ b # 0
        PROVE  Sane(a, b)
    <2>1. CASE b = 0
      <3>1. gcd[<<a, b>>] = a /\ a \in Positive
        BY <1>1, <2>1, gcdOf DEF Positive
      <3>2. ASSUME NEW k \in Positive
            PROVE  gcd[<<k * a, k * b>>] = k * a
        <4>1. k * a \in Nat /\ k * b = 0
          BY <2>1, SMT DEF Positive
        <4> QED
          BY <4>1, gcdOfZero
      <3> QED
        BY <2>1, <3>1, <3>2, SelfDivides DEF Sane
    <2>2. CASE b # 0
      <3> DEFINE r == a % b
      <3>1. r \in Nat /\ r < b /\ b \in Nat \ {0}
        BY <2>2, Division
      <3>2. Sane(b, r)
        BY <1>1, <3>1
      <3>3. gcd[<<a, b>>] = gcd[<<b, r>>]
        BY <2>2, gcdOf
      <3> DEFINE g == gcd[<<b, r>>]
      <3>4. g \in Positive /\ Divides(g, b) /\ Divides(g, r)
        BY <3>2 DEF Sane
      <3>5. Divides(g, a)
        <4> HIDE DEF g
        <4>1. g \in Nat /\ g \in Common(b, a % b)
          BY <3>4 DEF Common, Positive
        <4>2. g \in Common(a, b)
          BY <3>1, <4>1, CommonWithRest
        <4> QED
          BY <4>2 DEF Common
      <3>6. ASSUME NEW k \in Positive
            PROVE  gcd[<<k * a, k * b>>] = k * g
        <4>1. k * a \in Nat /\ k * b \in Nat /\ k * b # 0
          BY <3>1, SMT DEF Positive
        <4>2. (k * a) % (k * b) = k * r
          BY <3>1, ScaledRest DEF Positive
        <4>3. gcd[<<k * a, k * b>>] = gcd[<<k * b, k * r>>]
          BY <4>1, <4>2, gcdOf
        <4> QED
          BY <3>2, <4>3 DEF Sane
      <3> QED
        BY <3>3, <3>4, <3>5, <3>6 DEF Sane
    <2> QED
      BY <2>1, <2>2
  <1>2. Bad = {}
    <2> SUFFICES ASSUME Bad # {}
                 PROVE  FALSE
      OBVIOUS
    <2>1. Bad \subseteq Nat
      OBVIOUS
    <2>2. \A b \in Bad : \E a \in Nat : (a # 0 \/ b # 0) /\ ~ Sane(a, b)
      OBVIOUS
    <2> HIDE DEF Bad
    <2>3. PICK b \in Bad : \A c \in Nat : c < b => c \notin Bad
      BY <2>1, LeastOf
    <2> QED
      BY <1>1, <2>1, <2>2, <2>3
  <1> QED
    BY <1>2
-----------------------------------------------------------------------------
(***************************************************************************)
(* Functions by recursion.                                                 *)
(***************************************************************************)
\* The first n steps of a recursion that starts with a and goes on by h.
Begun(f, n, T, a, h) ==
    /\ f \in [0 .. n -> T] /\ f[0] = a
    /\ \A i \in 1 .. n : f[i] = h[<<i, f[i - 1]>>]

LEMMA BegunExists ==
    ASSUME NEW T, NEW a \in T, NEW h \in [Nat \X T -> T], NEW k \in Nat
    PROVE  \E f : Begun(f, k, T, a, h)
  <1> DEFINE Without == {n \in Nat : ~ \E f : Begun(f, n, T, a, h)}
  <1>1. Without = {}
    <2> SUFFICES ASSUME Without # {}
                 PROVE  FALSE
      OBVIOUS
    <2>1. Without \subseteq Nat
      OBVIOUS
    <2>2. PICK n \in Without : \A m \in Nat : m < n => m \notin Without
      <3> HIDE DEF Without
      <3> QED
        BY <2>1, LeastOf
    <2>3. n # 0
      <3> DEFINE f == [i \in 0 .. 0 |-> a]
      <3>1. Begun(f, 0, T, a, h)
        BY DEF Begun
      <3> QED
        BY <3>1
    <2>4. n \in Nat /\ n - 1 \in Nat /\ n - 1 < n
      BY <2>3
    <2>5. PICK f : Begun(f, n - 1, T, a, h)
      BY <2>2, <2>4
    <2> DEFINE g == [i \in 0 .. n |-> IF i = n THEN h[<<n, f[n - 1]>>] ELSE f[i]]
    <2>6. f[n - 1] \in T /\ h[<<n, f[n - 1]>>] \in T
      BY <2>4, <2>5 DEF Begun
    <2>7. g \in [0 .. n -> T]
      BY <2>4, <2>5, <2>6 DEF Begun
    <2>8. g[0] = a
      BY <2>3, <2>4, <2>5 DEF Begun
    <2>9. ASSUME NEW i \in 1 .. n
          PROVE  g[i] = h[<<i, g[i - 1]>>]
      <3>1. i - 1 \in 0 .. n - 1 /\ i - 1 # n /\ i - 1 \in 0 .. n
        BY <2>4
      <3>2. g[i - 1] = f[i - 1]
        BY <2>4, <3>1
      <3>3. CASE i = n
        BY <2>4, <3>2, <3>3
      <3>4. CASE i # n
        <4>1. i \in 1 .. n - 1
          BY <2>4, <3>4
        <4> QED
          BY <2>4, <2>5, <3>2, <3>4, <4>1 DEF Begun
      <3> QED
        BY <3>3, <3>4
    <2> HIDE DEF g
    <2>10. Begun(g, n, T, a, h)
      BY <2>7, <2>8, <2>9 DEF Begun
    <2> QED
      BY <2>2, <2>10
  <1> QED
    BY <1>1

\* Two of them do not differ as far as both go.
LEMMA BegunAgrees ==
    ASSUME NEW T, NEW a \in T, NEW h \in [Nat \X T -> T],
           NEW m \in Nat, NEW n \in Nat, NEW f, NEW g,
           Begun(f, m, T, a, h), Begun(g, n, T, a, h),
           NEW k \in Nat, k <= m, k <= n
    PROVE  f[k] = g[k]
  <1> DEFINE Differ == {i \in Nat : i <= m /\ i <= n /\ f[i] # g[i]}
  <1>1. Differ = {}
    <2> SUFFICES ASSUME Differ # {}
                 PROVE  FALSE
      OBVIOUS
    <2>1. Differ \subseteq Nat
      OBVIOUS
    <2>2. PICK i \in Differ : \A j \in Nat : j < i => j \notin Differ
      <3> HIDE DEF Differ
      <3> QED
        BY <2>1, LeastOf
    <2>3. i \in Nat /\ i <= m /\ i <= n /\ f[i] # g[i]
      OBVIOUS
    <2>4. i # 0
      BY <2>3 DEF Begun
    <2>5. i - 1 \in Nat /\ i - 1 < i /\ i - 1 <= m /\ i - 1 <= n
      BY <2>3, <2>4
    <2>6. f[i - 1] = g[i - 1]
      BY <2>2, <2>5
    <2>7. i \in 1 .. m /\ i \in 1 .. n
      BY <2>3, <2>4
    <2>8. f[i] = h[<<i, f[i - 1]>>]
      BY <2>7 DEF Begun
    <2>9. g[i] = h[<<i, g[i - 1]>>]
      BY <2>7 DEF Begun
    <2> QED
      BY <2>3, <2>6, <2>8, <2>9
  <1> QED
    BY <1>1

\* A step from each value to the next defines a function.
Follows(f, T, a, h) ==
    /\ f \in [Nat -> T] /\ f[0] = a
    /\ \A n \in Nat \ {0} : f[n] = h[<<n, f[n - 1]>>]

LEMMA Recursion ==
    ASSUME NEW T, NEW a \in T, NEW h \in [Nat \X T -> T]
    PROVE  \E f : Follows(f, T, a, h)
  <1> DEFINE F(n) == CHOOSE f : Begun(f, n, T, a, h)
             r == [n \in Nat |-> F(n)[n]]
  <1>1. ASSUME NEW n \in Nat
        PROVE  Begun(F(n), n, T, a, h)
    <2>1. \E f : Begun(f, n, T, a, h)
      BY BegunExists
    <2> QED
      BY <2>1
  <1> HIDE DEF F
  <1>2. \A n \in Nat : r[n] = F(n)[n]
    OBVIOUS
  <1>3. r \in [Nat -> T]
    <2>1. \A n \in Nat : F(n)[n] \in T
      BY <1>1 DEF Begun
    <2> QED
      BY <2>1
  <1> HIDE DEF r
  <1>4. r[0] = a
    BY <1>1, <1>2 DEF Begun
  <1>5. ASSUME NEW n \in Nat \ {0}
        PROVE  r[n] = h[<<n, r[n - 1]>>]
    <2>1. n - 1 \in Nat /\ n - 1 <= n /\ n \in 1 .. n /\ n - 1 <= n - 1 /\ n \in Nat
      OBVIOUS
    <2>2. Begun(F(n), n, T, a, h) /\ Begun(F(n - 1), n - 1, T, a, h)
      BY <1>1, <2>1
    <2>3. F(n)[n - 1] = F(n - 1)[n - 1]
      BY <2>1, <2>2, BegunAgrees
    <2>4. F(n)[n] = h[<<n, F(n)[n - 1]>>]
      BY <2>1, <2>2 DEF Begun
    <2> QED
      BY <1>2, <2>1, <2>3, <2>4
  <1> QED
    BY <1>3, <1>4, <1>5 DEF Follows
-----------------------------------------------------------------------------
(***************************************************************************)
(* Powers of two and logarithms.                                           *)
(***************************************************************************)
LEMMA TwoToEquation ==
    /\ TwoTo = [n \in Nat |-> IF n = 0 THEN 1 ELSE 2 * TwoTo[n - 1]]
    /\ TwoTo \in [Nat -> Positive]
  <1> DEFINE h == [x \in Nat \X Positive |-> 2 * x[2]]
             Powered(f) == f = [n \in Nat |-> IF n = 0 THEN 1 ELSE 2 * f[n - 1]]
  <1>1. 1 \in Positive /\ h \in [Nat \X Positive -> Positive]
    BY PositiveProduct DEF Positive
  <1>2. PICK f \in [Nat -> Positive] :
           f[0] = 1 /\ \A n \in Nat \ {0} : f[n] = h[<<n, f[n - 1]>>]
    <2> HIDE DEF h
    <2>1. \E f : Follows(f, Positive, 1, h)
      BY <1>1, Recursion
    <2> QED
      BY <2>1 DEF Follows
  <1>3. Powered(f)
    <2>1. \A n \in Nat \ {0} : f[n - 1] \in Positive
      BY <1>2
    <2>2. \A n \in Nat \ {0} : f[n] = 2 * f[n - 1]
      BY <1>2, <2>1
    <2>3. f = [n \in Nat |-> f[n]]
      BY <1>2
    <2>4. \A n \in Nat : f[n] = IF n = 0 THEN 1 ELSE 2 * f[n - 1]
      BY <1>2, <2>2
    <2> QED
      BY <2>3, <2>4
  <1>4. TwoTo = [n \in Nat |-> IF n = 0 THEN 1 ELSE 2 * TwoTo[n - 1]]
    BY <1>3, Zenon DEF TwoTo
  <1>5. TwoTo = f
    <2> DEFINE g == TwoTo
    <2> HIDE DEF g
    <2>1. Powered(g)
      BY <1>4 DEF g
    <2> DEFINE Differ == {n \in Nat : g[n] # f[n]}
    <2>2. Differ = {}
      <3> SUFFICES ASSUME Differ # {}
                   PROVE  FALSE
        OBVIOUS
      <3>1. Differ \subseteq Nat
        OBVIOUS
      <3>2. PICK n \in Differ : \A m \in Nat : m < n => m \notin Differ
        <4> HIDE DEF Differ
        <4> QED
          BY <3>1, LeastOf
      <3>3. n \in Nat /\ g[n] # f[n]
        OBVIOUS
      <3>4. n # 0
        BY <1>3, <2>1, <3>3
      <3>5. n - 1 \in Nat /\ n - 1 < n
        BY <3>3, <3>4
      <3>6. g[n - 1] = f[n - 1]
        BY <3>2, <3>5
      <3>7. g[n] = 2 * g[n - 1] /\ f[n] = 2 * f[n - 1]
        BY <1>3, <2>1, <3>3, <3>4
      <3> QED
        BY <3>3, <3>6, <3>7
    <2>3. g = [n \in Nat |-> g[n]]
      BY <2>1
    <2>4. \A n \in Nat : g[n] = f[n]
      BY <2>2
    <2>5. g = f
      BY <1>2, <2>3, <2>4
    <2> QED
      BY <2>5 DEF g
  <1> QED
    BY <1>2, <1>4, <1>5

LEMMA TwoToOf ==
    /\ TwoTo[0] = 1
    /\ \A n \in Nat : TwoTo[n] \in Positive /\ TwoTo[n + 1] = 2 * TwoTo[n]
  <1> DEFINE f == TwoTo
  <1>1. f = [n \in Nat |-> IF n = 0 THEN 1 ELSE 2 * f[n - 1]] /\ f \in [Nat -> Positive]
    BY TwoToEquation
  <1> HIDE DEF f
  <1>2. f[0] = 1 /\ \A n \in Nat : f[n] \in Positive
    BY <1>1
  <1>3. \A n \in Nat : f[n + 1] = 2 * f[n]
    <2> SUFFICES ASSUME NEW n \in Nat
                 PROVE  f[n + 1] = 2 * f[n]
      OBVIOUS
    <2>1. n + 1 \in Nat /\ n + 1 # 0 /\ (n + 1) - 1 = n
      OBVIOUS
    <2> QED
      BY <1>1, <2>1
  <1> QED
    BY <1>2, <1>3 DEF f

\* A power of two is greater than its exponent and than the powers below it.
LEMMA TwoToGrows ==
    /\ \A n \in Nat : n < TwoTo[n]
    /\ \A m, n \in Nat : m < n => 2 * TwoTo[m] <= TwoTo[n]
  <1> DEFINE Flat == {n \in Nat : ~ (n < TwoTo[n])}
  <1>1. Flat = {}
    <2> SUFFICES ASSUME Flat # {}
                 PROVE  FALSE
      OBVIOUS
    <2>1. Flat \subseteq Nat
      OBVIOUS
    <2>2. PICK n \in Flat : \A m \in Nat : m < n => m \notin Flat
      <3> HIDE DEF Flat
      <3> QED
        BY <2>1, LeastOf
    <2>3. n \in Nat /\ ~ (n < TwoTo[n])
      OBVIOUS
    <2>4. n # 0
      BY <2>3, TwoToOf
    <2>5. n - 1 \in Nat /\ n - 1 < n /\ (n - 1) + 1 = n
      BY <2>3, <2>4
    <2>6. n - 1 < TwoTo[n - 1]
      BY <2>2, <2>5
    <2>7. TwoTo[n] = 2 * TwoTo[n - 1] /\ TwoTo[n - 1] \in Nat
      BY <2>5, TwoToOf DEF Positive
    <2> QED
      BY <2>3, <2>5, <2>6, <2>7
  <1>2. ASSUME NEW m \in Nat
        PROVE  \A n \in Nat : m < n => 2 * TwoTo[m] <= TwoTo[n]
    <2> DEFINE Lower == {n \in Nat : m < n /\ ~ (2 * TwoTo[m] <= TwoTo[n])}
    <2>1. Lower = {}
      <3> SUFFICES ASSUME Lower # {}
                   PROVE  FALSE
        OBVIOUS
      <3>1. Lower \subseteq Nat
        OBVIOUS
      <3>2. PICK n \in Lower : \A l \in Nat : l < n => l \notin Lower
        <4> HIDE DEF Lower
        <4> QED
          BY <3>1, LeastOf
      <3>3. n \in Nat /\ m < n /\ ~ (2 * TwoTo[m] <= TwoTo[n])
        OBVIOUS
      <3>4. n - 1 \in Nat /\ n - 1 < n /\ (n - 1) + 1 = n /\ (n - 1 = m \/ m < n - 1)
        BY <3>3
      <3>5. TwoTo[n] = 2 * TwoTo[n - 1] /\ TwoTo[n - 1] \in Nat /\ TwoTo[m] \in Nat
        BY <3>4, TwoToOf DEF Positive
      <3>6. CASE n - 1 = m
        <4>1. TwoTo[n - 1] = TwoTo[m]
          BY <3>6
        <4> QED
          BY <3>3, <3>5, <4>1
      <3>7. CASE m < n - 1
        <4>1. 2 * TwoTo[m] <= TwoTo[n - 1]
          BY <3>2, <3>4, <3>7
        <4> QED
          BY <3>3, <3>5, <4>1
      <3> QED
        BY <3>4, <3>6, <3>7
    <2> QED
      BY <2>1
  <1> QED
    BY <1>1, <1>2

\* k is the logarithm of i, rounded down.
Log(k, i) == k \in Nat /\ TwoTo[k] <= i /\ i < 2 * TwoTo[k]

LEMMA LogExists ==
    ASSUME NEW i \in Positive
    PROVE  \E k : Log(k, i)
  <1> DEFINE Enough == {k \in Nat : i < 2 * TwoTo[k]}
  <1>1. i \in Enough
    BY TwoToGrows, TwoToOf DEF Positive
  <1>2. Enough \subseteq Nat /\ Enough # {}
    BY <1>1
  <1>3. PICK k \in Enough : \A m \in Nat : m < k => m \notin Enough
    <2> HIDE DEF Enough
    <2> QED
      BY <1>2, LeastOf
  <1>4. k \in Nat /\ i < 2 * TwoTo[k]
    OBVIOUS
  <1>5. CASE k = 0
    BY <1>4, <1>5, TwoToOf DEF Log, Positive
  <1>6. CASE k # 0
    <2>1. k - 1 \in Nat /\ k - 1 < k /\ (k - 1) + 1 = k
      BY <1>4, <1>6
    <2>2. ~ (i < 2 * TwoTo[k - 1])
      BY <1>3, <2>1
    <2>3. TwoTo[k] = 2 * TwoTo[k - 1] /\ TwoTo[k - 1] \in Nat
      BY <2>1, TwoToOf DEF Positive
    <2> QED
      BY <1>4, <2>2, <2>3 DEF Log, Positive
  <1> QED
    BY <1>5, <1>6

LEMMA LogUnique ==
    ASSUME NEW i \in Nat, NEW k, NEW l, Log(k, i), Log(l, i)
    PROVE  k = l
  <1>1. k \in Nat /\ l \in Nat /\ TwoTo[k] \in Nat /\ TwoTo[l] \in Nat
    BY TwoToOf DEF Log, Positive
  <1>2. CASE k < l
    <2>1. 2 * TwoTo[k] <= TwoTo[l]
      BY <1>1, <1>2, TwoToGrows
    <2> QED
      BY <1>1, <2>1 DEF Log
  <1>3. CASE l < k
    <2>1. 2 * TwoTo[l] <= TwoTo[k]
      BY <1>1, <1>3, TwoToGrows
    <2> QED
      BY <1>1, <2>1 DEF Log
  <1> QED
    BY <1>1, <1>2, <1>3

LEMMA ShiftsEquation ==
    Shifts = [i \in Nat |-> IF i < 2 THEN 0 ELSE 1 + Shifts[i \div 2]]
  <1> DEFINE Lb(i) == CHOOSE k : Log(k, i)
             f == [i \in Nat |-> IF i < 2 THEN 0 ELSE Lb(i)]
  <1>1. ASSUME NEW i \in Nat, ~ (i < 2)
        PROVE  Lb(i) = 1 + f[i \div 2]
    <2> DEFINE j == i \div 2
    <2>1. j \in Nat /\ 2 * j <= i /\ i < 2 * j + 2 /\ j # 0
      BY <1>1
    <2> HIDE DEF j
    <2>2. Log(Lb(i), i)
      BY <1>1, LogExists DEF Positive
    <2>3. Log(f[j], j)
      <3>1. CASE j < 2
        <4>1. f[j] = 0 /\ j = 1
          BY <2>1, <3>1
        <4> QED
          BY <4>1, TwoToOf DEF Log
      <3>2. CASE ~ (j < 2)
        <4>1. f[j] = Lb(j)
          BY <2>1, <3>2
        <4> QED
          BY <2>1, <4>1, LogExists DEF Positive
      <3> QED
        BY <3>1, <3>2
    <2> DEFINE k == f[j]
    <2>4. Log(k, j)
      BY <2>3
    <2> HIDE DEF f, k, Lb
    <2>5. Log(k + 1, i)
      <3>1. k \in Nat /\ TwoTo[k] \in Nat /\ TwoTo[k + 1] = 2 * TwoTo[k]
        BY <2>4, TwoToOf DEF Log, Positive
      <3>2. TwoTo[k] <= j /\ j < 2 * TwoTo[k]
        BY <2>4 DEF Log
      <3> QED
        BY <2>1, <3>1, <3>2 DEF Log
    <2>6. Lb(i) = k + 1
      BY <2>2, <2>5, LogUnique
    <2>7. k \in Nat
      BY <2>4 DEF Log
    <2> QED
      BY <2>6, <2>7 DEF j, k
  <1>2. f = [i \in Nat |-> IF i < 2 THEN 0 ELSE 1 + f[i \div 2]]
    <2>0. \A i \in Nat : f[i] = IF i < 2 THEN 0 ELSE Lb(i)
      OBVIOUS
    <2>1. \A i \in Nat : f[i] = IF i < 2 THEN 0 ELSE 1 + f[i \div 2]
      <3> HIDE DEF f, Lb
      <3> QED
        BY <1>1, <2>0
    <2>2. f = [i \in Nat |-> f[i]]
      OBVIOUS
    <2> HIDE DEF f
    <2> QED
      BY <2>1, <2>2
  <1> HIDE DEF f
  <1> QED
    BY <1>2, Zenon DEF Shifts

\* Shifting a number until nothing is left of it does not overshoot.
LEMMA ShiftsOf ==
    ASSUME NEW n \in Nat
    PROVE  /\ Shifts[n] \in Nat
           /\ n < 2 => Shifts[n] = 0
           /\ n # 0 => TwoTo[Shifts[n]] <= n
  <1> DEFINE f == Shifts
  <1>1. f = [i \in Nat |-> IF i < 2 THEN 0 ELSE 1 + f[i \div 2]]
    BY ShiftsEquation
  <1> HIDE DEF f
  <1> DEFINE Good(i) == f[i] \in Nat /\ (i # 0 => TwoTo[f[i]] <= i)
             Bad == {i \in Nat : ~ Good(i)}
  <1>2. Bad = {}
    <2> SUFFICES ASSUME Bad # {}
                 PROVE  FALSE
      OBVIOUS
    <2>1. Bad \subseteq Nat
      OBVIOUS
    <2>2. PICK i \in Bad : \A j \in Nat : j < i => j \notin Bad
      <3> HIDE DEF Bad
      <3> QED
        BY <2>1, LeastOf
    <2>3. i \in Nat /\ ~ Good(i)
      OBVIOUS
    <2>4. ~ (i < 2)
      BY <1>1, <2>3, TwoToOf
    <2> DEFINE j == i \div 2
    <2>5. j \in Nat /\ 2 * j <= i /\ j # 0 /\ j < i
      BY <2>3, <2>4
    <2>6. f[i] = 1 + f[j]
      BY <1>1, <2>3, <2>4
    <2> HIDE DEF j
    <2>7. f[j] \in Nat /\ TwoTo[f[j]] <= j
      BY <2>2, <2>5
    <2> DEFINE k == f[j]
    <2>8. k \in Nat /\ TwoTo[k] \in Nat /\ TwoTo[k + 1] = 2 * TwoTo[k]
      BY <2>7, TwoToOf DEF Positive
    <2>9. f[i] = k + 1
      BY <2>6, <2>8
    <2> QED
      BY <2>3, <2>5, <2>7, <2>8, <2>9
  <1>3. n < 2 => f[n] = 0
    BY <1>1
  <1> QED
    BY <1>2, <1>3 DEF f
-----------------------------------------------------------------------------
(***************************************************************************)
(* Fractions.                                                              *)
(***************************************************************************)
Ratios == [num : Positive, den : Positive]

\* x is a / b, in whatever terms.
Is(x, a, b) == x \in Ratios /\ x.num * b = a * x.den

LEMMA FractionIs ==
    ASSUME NEW a \in Positive, NEW b \in Positive
    PROVE  /\ Is(Fraction(a, b), a, b)
           /\ gcd[<<a, b>>] \in Positive
           /\ a = gcd[<<a, b>>] * Fraction(a, b).num
           /\ b = gcd[<<a, b>>] * Fraction(a, b).den
  <1> DEFINE g == gcd[<<a, b>>]
  <1>1. a \in Nat /\ b \in Nat /\ a # 0
    BY DEF Positive
  <1>2. Sane(a, b)
    BY <1>1, gcdIsSane
  <1>3. g \in Positive /\ Divides(g, a) /\ Divides(g, b)
    BY <1>2 DEF Sane
  <1>4. Fraction(a, b) = [num |-> a \div g, den |-> b \div g]
    BY DEF Fraction
  <1> HIDE DEF g
  <1>5. PICK k \in Nat : a = g * k
    BY <1>3 DEF Divides
  <1>6. PICK l \in Nat : b = g * l
    BY <1>3 DEF Divides
  <1>7. k \in Positive /\ l \in Positive
    BY <1>3, <1>5, <1>6, SMT DEF Positive
  <1>8. a \div g = k /\ b \div g = l
    BY <1>3, <1>5, <1>6, Exactly
  <1>9. k * b = a * l
    BY <1>3, <1>5, <1>6, SMT DEF Positive
  <1>10. Fraction(a, b) = [num |-> k, den |-> l]
    BY <1>4, <1>8
  <1>11. Is(Fraction(a, b), a, b)
    BY <1>7, <1>9, <1>10 DEF Is, Ratios
  <1> QED
    BY <1>3, <1>5, <1>6, <1>10, <1>11 DEF g

\* Equal ratios are the same fraction.
LEMMA SameFraction ==
    ASSUME NEW a \in Positive, NEW b \in Positive,
           NEW c \in Positive, NEW d \in Positive, a * d = b * c
    PROVE  Fraction(a, b) = Fraction(c, d)
  <1> DEFINE g == gcd[<<a, b>>]
             h == gcd[<<c, d>>]
             x == Fraction(a, b)
             y == Fraction(c, d)
  <1>1. x \in Ratios /\ g \in Positive /\ a = g * x.num /\ b = g * x.den
    BY FractionIs DEF Is
  <1>2. y \in Ratios /\ h \in Positive /\ c = h * y.num /\ d = h * y.den
    BY FractionIs DEF Is
  <1>3. gcd[<<d * a, d * b>>] = d * g
    BY gcdIsSane DEF Sane, Positive
  <1>4. gcd[<<b * c, b * d>>] = b * h
    BY gcdIsSane DEF Sane, Positive
  <1>5. d * a = b * c /\ d * b = b * d
    BY SMT DEF Positive
  <1>6. d * g = b * h
    BY <1>3, <1>4, <1>5
  <1>7. /\ x.num \in Positive /\ x.den \in Positive
        /\ y.num \in Positive /\ y.den \in Positive
    BY <1>1, <1>2 DEF Ratios
  <1> HIDE DEF g, h
  <1> DEFINE xn == x.num
             xd == x.den
             yn == y.num
             yd == y.den
  <1>8. /\ a = g * xn /\ b = g * xd /\ c = h * yn /\ d = h * yd
        /\ xn \in Positive /\ xd \in Positive /\ yn \in Positive /\ yd \in Positive
    BY <1>1, <1>2, <1>7
  <1>9. x = [num |-> xn, den |-> xd] /\ y = [num |-> yn, den |-> yd]
    BY <1>1, <1>2 DEF Ratios
  <1> HIDE DEF x, y, xn, xd, yn, yd
  <1> DEFINE e == h * g
  <1>10. e \in Positive
    BY <1>1, <1>2, PositiveProduct
  <1>11. e * yd = d * g /\ e * xd = b * h
    BY <1>1, <1>2, <1>8, SMT DEF Positive
  <1>12. e * xn = h * a /\ e * yn = g * c
    BY <1>1, <1>2, <1>8, SMT DEF Positive
  <1> DEFINE f == d
  <1>13. d * (h * a) = d * (g * c)
    <2>1. d * (h * a) = h * (b * c)
      BY <1>1, <1>2, SMT DEF Positive
    <2>2. d * (g * c) = (d * g) * c
      BY <1>1, <1>2, SMT DEF Positive
    <2>3. (d * g) * c = (b * h) * c
      BY <1>6
    <2>4. (b * h) * c = h * (b * c)
      BY <1>1, <1>2, SMT DEF Positive
    <2> QED
      BY <2>1, <2>2, <2>3, <2>4
  <1>14. h * a \in Nat /\ g * c \in Nat
    BY <1>1, <1>2, PositiveProduct DEF Positive
  <1>15. h * a = g * c
    BY <1>13, <1>14, SameFactor
  <1> HIDE DEF e
  <1>16. xd = yd
    BY <1>6, <1>8, <1>10, <1>11, SameFactor DEF Positive
  <1>17. xn = yn
    BY <1>8, <1>10, <1>12, <1>15, SameFactor DEF Positive
  <1> QED
    BY <1>9, <1>16, <1>17 DEF x, y

LEMMA IsPositive ==
    ASSUME NEW x, NEW a \in Positive, NEW b \in Positive, Is(x, a, b)
    PROVE  /\ x.num \in Positive /\ x.den \in Positive
           /\ x.num * b = a * x.den
    BY DEF Is, Ratios

LEMMA TimesIs ==
    ASSUME NEW x, NEW a \in Positive, NEW b \in Positive, Is(x, a, b),
           NEW c \in Positive, NEW d \in Positive
    PROVE  Is(Times(x, c, d), a * c, b * d)
  <1> DEFINE m == x.num
             n == x.den
             y == Times(x, c, d)
  <1>1. m \in Positive /\ n \in Positive /\ m * b = a * n
    BY IsPositive
  <1> HIDE DEF m, n
  <1>2. m * c \in Positive /\ n * d \in Positive
    BY <1>1, PositiveProduct
  <1>3. Is(y, m * c, n * d)
    BY <1>2, FractionIs DEF Times, m, n
  <1> DEFINE u == y.num
             v == y.den
  <1>4. u \in Positive /\ v \in Positive /\ u * (n * d) = (m * c) * v
    BY <1>2, <1>3, IsPositive
  <1> HIDE DEF y, u, v
  <1>5. u * (b * d) \in Nat /\ (a * c) * v \in Nat
    BY <1>4, PositiveProduct DEF Positive
  <1>6. m * (u * (b * d)) = m * ((a * c) * v)
    <2>1. m * (u * (b * d)) = (m * b) * (u * d)
      BY <1>1, <1>4, SMT DEF Positive
    <2>2. (a * n) * (u * d) = a * (u * (n * d))
      BY <1>1, <1>4, SMT DEF Positive
    <2>3. a * ((m * c) * v) = m * ((a * c) * v)
      BY <1>1, <1>4, SMT DEF Positive
    <2> QED
      BY <1>1, <1>4, <2>1, <2>2, <2>3
  <1>7. u * (b * d) = (a * c) * v
    BY <1>1, <1>5, <1>6, SameFactor
  <1>8. y \in Ratios
    BY <1>3 DEF Is
  <1> QED
    BY <1>7, <1>8 DEF Is, u, v, y

\* The same ratio in other terms.
LEMMA IsAlso ==
    ASSUME NEW x, NEW a \in Positive, NEW b \in Positive, Is(x, a, b),
           NEW c \in Positive, NEW d \in Positive, a * d = b * c
    PROVE  Is(x, c, d)
  <1> DEFINE m == x.num
             n == x.den
  <1>1. m \in Positive /\ n \in Positive /\ m * b = a * n
    BY IsPositive
  <1> HIDE DEF m, n
  <1>2. b * (m * d) = b * (c * n)
    <2>1. b * (m * d) = (m * b) * d
      BY <1>1, SMT DEF Positive
    <2>2. (a * n) * d = (a * d) * n
      BY <1>1, SMT DEF Positive
    <2>3. (b * c) * n = b * (c * n)
      BY <1>1, SMT DEF Positive
    <2> QED
      BY <1>1, <2>1, <2>2, <2>3
  <1>3. m * d \in Nat /\ c * n \in Nat
    BY <1>1, PositiveProduct DEF Positive
  <1>4. m * d = c * n
    BY <1>2, <1>3, SameFactor
  <1> QED
    BY <1>4 DEF Is, m, n

\* What is a / b and was reduced is the fraction a / b.
LEMMA IsFraction ==
    ASSUME NEW x, NEW a \in Positive, NEW b \in Positive, Is(x, a, b),
           NEW c \in Positive, NEW d \in Positive, x = Fraction(c, d)
    PROVE  x = Fraction(a, b)
  <1> DEFINE m == x.num
             n == x.den
  <1>1. m \in Positive /\ n \in Positive /\ m * b = a * n
    BY IsPositive
  <1>2. m * d = c * n
    BY FractionIs, IsPositive
  <1> HIDE DEF m, n
  <1>3. n * (a * d) = n * (b * c)
    <2>1. n * (a * d) = (m * b) * d
      BY <1>1, SMT DEF Positive
    <2>2. (m * b) * d = (m * d) * b
      BY <1>1, SMT DEF Positive
    <2>3. (c * n) * b = n * (b * c)
      BY <1>1, SMT DEF Positive
    <2> QED
      BY <1>2, <2>1, <2>2, <2>3
  <1>4. a * d \in Nat /\ b * c \in Nat
    BY PositiveProduct DEF Positive
  <1>5. a * d = b * c
    BY <1>1, <1>3, <1>4, SameFactor
  <1> QED
    BY <1>5, SameFraction

LEMMA WholeFraction ==
    ASSUME NEW a \in Positive
    PROVE  Fraction(a, 1) = [num |-> a, den |-> 1]
  <1> DEFINE x == Fraction(a, 1)
             g == gcd[<<a, 1>>]
  <1>1. 1 \in Positive
    BY DEF Positive
  <1>2. x \in Ratios /\ x.num * 1 = a * x.den /\ g \in Positive /\ 1 = g * x.den
    BY <1>1, FractionIs DEF Is
  <1>3. x.num \in Positive /\ x.den \in Positive /\ x = [num |-> x.num, den |-> x.den]
    BY <1>2 DEF Ratios
  <1> DEFINE n == x.den
             m == x.num
  <1>4. n \in Positive /\ m \in Positive /\ m * 1 = a * n /\ 1 = g * n
    BY <1>2, <1>3
  <1> HIDE DEF n, m, g, x
  <1>5. n = 1
    BY <1>2, <1>4, SMT DEF Positive
  <1>6. m = a
    BY <1>4, <1>5, SMT DEF Positive
  <1> QED
    BY <1>3, <1>5, <1>6 DEF n, m, x

\* Where a ratio lies does not depend on the terms.
LEMMA AboveIs ==
    ASSUME NEW x, NEW a \in Positive, NEW b \in Positive, Is(x, a, b),
           NEW c \in Positive, NEW d \in Positive
    PROVE  /\ Above(x, c, d) <=> a * d > c * b
           /\ Below(x, c, d) <=> a * d < c * b
  <1> DEFINE m == x.num
             n == x.den
  <1>1. m \in Positive /\ n \in Positive /\ m * b = a * n
    BY IsPositive
  <1> HIDE DEF m, n
  <1>2. /\ m * d \in Int /\ c * n \in Int /\ a * d \in Int /\ c * b \in Int
        /\ b \in Nat \ {0} /\ n \in Nat \ {0}
    BY <1>1, PositiveProduct DEF Positive
  <1>3. (m * d) * b = (a * d) * n
    <2>1. (m * d) * b = (m * b) * d
      BY <1>1, SMT DEF Positive
    <2>2. (a * n) * d = (a * d) * n
      BY <1>1, SMT DEF Positive
    <2> QED
      BY <1>1, <2>1, <2>2
  <1>4. (c * n) * b = (c * b) * n
    BY <1>1, SMT DEF Positive
  <1> DEFINE md == m * d
             cn == c * n
             ad == a * d
             cb == c * b
  <1>5. md \in Int /\ cn \in Int /\ ad \in Int /\ cb \in Int
        /\ md * b = ad * n /\ cn * b = cb * n
    BY <1>2, <1>3, <1>4
  <1>6. Above(x, c, d) = (md > cn) /\ Below(x, c, d) = (md < cn)
    BY DEF Above, Below, m, n
  <1> HIDE DEF md, cn, ad, cb
  <1>7. md > cn <=> ad > cb
    BY <1>2, <1>5, SMT
  <1>8. md < cn <=> ad < cb
    BY <1>2, <1>5, SMT
  <1> QED
    BY <1>6, <1>7, <1>8 DEF ad, cb
-----------------------------------------------------------------------------
(***************************************************************************)
(* One turn of the loop.                                                   *)
(***************************************************************************)
Plans == [arbM : Ratios, arbL : Positive, preL : Positive, preM : Nat,
          postL : Positive, postM : Positive, shr : Nat, rational : BOOLEAN,
          upsample : BOOLEAN, mode : {0, 1}, again : BOOLEAN]

LEMMA PlanFields ==
    ASSUME NEW p \in Plans
    PROVE  /\ p.arbM \in Ratios /\ p.arbL \in Positive /\ p.preL \in Positive
           /\ p.preM \in Nat /\ p.postL \in Positive /\ p.postM \in Positive
           /\ p.shr \in Nat /\ p.rational \in BOOLEAN /\ p.upsample \in BOOLEAN
           /\ p.mode \in {0, 1} /\ p.again \in BOOLEAN
    BY DEF Plans

LEMMA SmallNumbers == \A n \in Nat : n # 0 => n \in Positive
    BY DEF Positive

\* The rate is not halved further than to a ratio of two.
LEMMA HalvedIs ==
    ASSUME NEW p \in Plans, NEW A \in Positive, NEW B \in Positive, Is(p.arbM, A, B)
    PROVE  LET q == Halved(p)
               S == TwoTo[q.shr]
           IN  /\ q \in Plans /\ ~ q.again
               /\ q.mode = p.mode /\ q.postL = p.postL
               /\ S \in Positive /\ (S = 1 \/ 2 * S * B <= A)
               /\ q.upsample = (A < B)
               /\ Is(q.arbM, A, B * S)
  <1> DEFINE m == p.arbM.num
             n == p.arbM.den
             i == m \div (2 * n)
             k == Shifts[i]
             S == TwoTo[k]
             q == Halved(p)
  <1>1. m \in Positive /\ n \in Positive /\ m * B = A * n
    BY IsPositive
  <1>2. q = [p EXCEPT !.again = FALSE, !.upsample = Below(p.arbM, 1, 1), !.shr = k,
                      !.arbM = Times(p.arbM, 1, S)]
    BY DEF Halved, Plans
  <1>3. Below(p.arbM, 1, 1) = (A < B)
    <2>1. 1 \in Positive
      BY DEF Positive
    <2>2. Below(p.arbM, 1, 1) <=> A * 1 < 1 * B
      BY <2>1, AboveIs
    <2>3. Below(p.arbM, 1, 1) \in BOOLEAN
      BY <1>1 DEF Below
    <2>4. A * 1 < 1 * B <=> A < B
      BY DEF Positive
    <2> QED
      BY <2>2, <2>3, <2>4 DEF Below
  <1> HIDE DEF m, n
  <1>4. i \in Nat /\ (i # 0 => i * (2 * n) <= m)
    <2>1. m \in Nat /\ m \in Int /\ 2 * n \in Nat \ {0}
      BY <1>1, SMT DEF Positive
    <2> QED
      BY <2>1, Quotient
  <1> HIDE DEF i
  <1>5. k \in Nat /\ (i < 2 => k = 0) /\ (i # 0 => TwoTo[k] <= i)
    BY <1>4, ShiftsOf
  <1> HIDE DEF k
  <1>6. S \in Positive
    BY <1>5, TwoToOf
  <1>7. S = 1 \/ 2 * S * B <= A
    <2>1. CASE i < 2
      BY <1>5, <2>1, TwoToOf
    <2>2. CASE ~ (i < 2)
      <3>1. S <= i /\ i * (2 * n) <= m
        BY <1>4, <1>5, <2>2
      <3> HIDE DEF S
      <3>2. S \in Int /\ i \in Int /\ 2 * n \in Nat /\ n \in Nat \ {0} /\ B \in Nat
        BY <1>1, <1>4, <1>6, SMT DEF Positive
      <3>3. S * (2 * n) <= i * (2 * n)
        BY <3>1, <3>2, Scale
      <3>4. S * (2 * n) \in Int /\ i * (2 * n) \in Int /\ m \in Int
        BY <1>1, <3>2, SMT DEF Positive
      <3>5. S * (2 * n) <= m
        BY <3>1, <3>3, <3>4
      <3>6. (S * (2 * n)) * B <= m * B
        BY <3>2, <3>4, <3>5, Scale
      <3>7. (S * (2 * n)) * B = (2 * S * B) * n
        BY <3>2, SMT
      <3>8. (2 * S * B) * n <= A * n
        BY <1>1, <3>6, <3>7
      <3>9. 2 * S * B \in Int /\ A \in Int
        BY <3>2, SMT DEF Positive
      <3>10. 2 * S * B <= A
        <4> DEFINE t == 2 * S * B
        <4>1. t * n <= A * n /\ t \in Int
          BY <3>8, <3>9
        <4> HIDE DEF t
        <4>2. t <= A
          BY <3>2, <3>9, <4>1, SMT
        <4> QED
          BY <4>2 DEF t
      <3> QED
        BY <3>10
    <2> QED
      BY <2>1, <2>2
  <1> HIDE DEF S
  <1>8. Is(Times(p.arbM, 1, S), A, B * S)
    <2>1. 1 \in Positive /\ A * 1 = A
      BY SMT DEF Positive
    <2> QED
      BY <1>6, <2>1, TimesIs
  <1>9. Times(p.arbM, 1, S) \in Ratios
    BY <1>8 DEF Is
  <1> DEFINE x == Times(p.arbM, 1, S)
             below == Below(p.arbM, 1, 1)
  <1>10. below \in BOOLEAN
    BY DEF Below
  <1>11. q = [p EXCEPT !.again = FALSE, !.upsample = below, !.shr = k, !.arbM = x]
    BY <1>2
  <1> HIDE DEF x, below, q
  <1>12. /\ q \in Plans /\ ~ q.again /\ q.mode = p.mode /\ q.postL = p.postL
         /\ q.shr = k /\ q.upsample = below /\ q.arbM = x
    BY <1>5, <1>9, <1>10, <1>11 DEF Plans, x
  <1> QED
    BY <1>3, <1>6, <1>7, <1>8, <1>12 DEF q, x, below, S

LEMMA AfterPostIs ==
    ASSUME NEW p \in Plans, NEW A \in Positive, NEW B \in Positive, Is(p.arbM, A, B)
    PROVE  LET q == AfterPost(p)
           IN  /\ q \in Plans /\ q.again = p.again
               /\ q.mode = p.mode /\ q.postL = p.postL /\ q.shr = p.shr
               /\ q.upsample = p.upsample
               /\ q.preM \in {0, 1} /\ (p.upsample => q.preM = 1)
               /\ q.postM \in {1, 2} /\ (A < B => q.postM = 1)
               /\ Is(q.arbM, A, B * q.postM)
  <1> DEFINE preM == p.upsample \/ (Above(p.arbM, 3, 2) /\ Below(p.arbM, 2, 1))
             one == Above(p.arbM, 1, 1)
             pm == 1 + One_if(one /\ preM)
             x == Times(p.arbM, 1, pm)
             q == AfterPost(p)
  <1>1. q = [p EXCEPT !.preM = One_if(preM), !.postM = pm, !.arbM = x]
    BY DEF AfterPost, Plans
  <1>2. 1 \in Positive /\ A * 1 = A /\ 1 * B = B
    BY SMT DEF Positive
  <1>3. A < B => ~ one
    BY <1>2, AboveIs DEF Positive
  <1>4. One_if(preM) \in {0, 1} /\ (p.upsample => One_if(preM) = 1)
    BY DEF One_if
  <1>5. pm \in {1, 2} /\ (A < B => pm = 1)
    BY <1>3 DEF One_if
  <1> HIDE DEF pm, preM
  <1>6. pm \in Positive
    BY <1>5 DEF Positive
  <1>7. Is(x, A, B * pm)
    BY <1>2, <1>6, TimesIs
  <1>8. x \in Ratios
    BY <1>7 DEF Is
  <1> DEFINE u == One_if(preM)
  <1>9. u \in Nat
    BY <1>4
  <1>10. q = [p EXCEPT !.preM = u, !.postM = pm, !.arbM = x]
    BY <1>1
  <1> HIDE DEF x, u, q, one
  <1>11. /\ q \in Plans /\ q.again = p.again /\ q.mode = p.mode
         /\ q.postL = p.postL /\ q.shr = p.shr /\ q.upsample = p.upsample
         /\ q.preM = u /\ q.postM = pm /\ q.arbM = x
    BY <1>6, <1>8, <1>9, <1>10 DEF Plans
  <1> QED
    BY <1>4, <1>5, <1>7, <1>11 DEF q, u

LEMMA BeforePreIs ==
    ASSUME NEW p \in Plans, NEW A \in Positive, NEW B \in Positive, Is(p.arbM, A, B)
    PROVE  LET q == BeforePre(p)
           IN  /\ q \in Plans /\ q.again = p.again
               /\ q.mode = p.mode /\ q.postL = p.postL /\ q.shr = p.shr
               /\ q.preM = p.preM /\ q.postM = p.postM
               /\ p.preM = 1 /\ p.mode = 0 => q.preL = 1
               /\ Is(q.arbM, A * q.preL, B)
  <1> DEFINE l == 1 + One_if(p.preM = 0 /\ Below(p.arbM, 2, 1))
                    + One_if(p.upsample /\ p.mode > 0)
             x == Times(p.arbM, l, 1)
             q == BeforePre(p)
  <1>1. q = [p EXCEPT !.preL = l, !.arbM = x]
    BY DEF BeforePre, Plans
  <1>2. l \in {1, 2, 3} /\ (p.preM = 1 /\ p.mode = 0 => l = 1)
    BY DEF One_if
  <1> HIDE DEF l
  <1>3. l \in Positive /\ 1 \in Positive /\ B * 1 = B
    BY <1>2, SMT DEF Positive
  <1>4. Is(x, A * l, B)
    BY <1>3, TimesIs
  <1>5. x \in Ratios
    BY <1>4 DEF Is
  <1> HIDE DEF x, q
  <1>6. /\ q \in Plans /\ q.again = p.again /\ q.mode = p.mode
        /\ q.postL = p.postL /\ q.shr = p.shr /\ q.preM = p.preM
        /\ q.postM = p.postM /\ q.preL = l /\ q.arbM = x
    BY <1>1, <1>3, <1>5 DEF Plans
  <1> QED
    BY <1>2, <1>4, <1>6 DEF q

LEMMA RationalIs ==
    ASSUME NEW p \in Plans, NEW A \in Positive, NEW B \in Positive, Is(p.arbM, A, B)
    PROVE  LET q == Rational(p)
           IN  /\ q \in Plans /\ q.again = p.again
               /\ q.mode = p.mode /\ q.postL = p.postL /\ q.shr = p.shr
               /\ q.preM = p.preM /\ q.postM = p.postM /\ q.preL = p.preL
               /\ q.rational \/ q.arbL = 1
               /\ q.rational => q.arbM.den = 1
               /\ Is(q.arbM, A * q.arbL, B)
  <1> DEFINE x == p.arbM
             q == Rational(p)
  <1>1. x \in Ratios /\ x.num \in Positive /\ x.den \in Positive
        /\ x.num * B = A * x.den
    BY IsPositive DEF Is
  <1>2. CASE x.den <= maxL(p.mode)
    <2> DEFINE y == Fraction(x.num, 1)
               n == x.den
    <2>1. q = [p EXCEPT !.rational = TRUE, !.arbL = n, !.arbM = y]
      BY <1>2 DEF Rational, Plans
    <2>2. y = [num |-> x.num, den |-> 1] /\ 1 \in Positive
      BY <1>1, WholeFraction DEF Positive
    <2>3. y \in Ratios /\ y.num = x.num /\ y.den = 1
      BY <1>1, <2>2 DEF Ratios
    <2>4. (A * n) * 1 = A * n /\ n \in Positive
      BY <1>1, SMT DEF Positive
    <2>5. Is(y, A * n, B)
      BY <1>1, <2>3, <2>4 DEF Is
    <2> HIDE DEF y, n, q
    <2>6. /\ q \in Plans /\ q.again = p.again /\ q.mode = p.mode
          /\ q.postL = p.postL /\ q.shr = p.shr /\ q.preM = p.preM
          /\ q.postM = p.postM /\ q.preL = p.preL /\ q.rational
          /\ q.arbL = n /\ q.arbM = y
      BY <2>1, <2>3, <2>4 DEF Plans
    <2> QED
      BY <2>3, <2>5, <2>6 DEF q
  <1>3. CASE ~ (x.den <= maxL(p.mode))
    <2>1. q = [p EXCEPT !.rational = FALSE, !.arbL = 1]
      BY <1>3 DEF Rational
    <2>2. 1 \in Positive /\ A * 1 = A
      BY SMT DEF Positive
    <2> HIDE DEF q
    <2>3. /\ q \in Plans /\ q.again = p.again /\ q.mode = p.mode
          /\ q.postL = p.postL /\ q.shr = p.shr /\ q.preM = p.preM
          /\ q.postM = p.postM /\ q.preL = p.preL /\ ~ q.rational
          /\ q.arbL = 1 /\ q.arbM = x
      BY <2>1, <2>2 DEF Plans
    <2> QED
      BY <2>2, <2>3 DEF q
  <1> QED
    BY <1>2, <1>3
-----------------------------------------------------------------------------
\* What is left of a ratio A / B when the stages before and after have their share.
SharedOut(q, A, B) ==
    /\ q \in Plans /\ ~ q.again /\ q.preM \in {0, 1} /\ q.postM \in {1, 2}
    /\ TwoTo[q.shr] \in Positive
    /\ TwoTo[q.shr] = 1 \/ 2 * TwoTo[q.shr] * B <= A
    /\ A < B => q.postM = 1
    /\ A < B /\ q.mode = 0 => q.preL = 1
    /\ q.rational \/ q.arbL = 1
    /\ q.rational => q.arbM.den = 1
    /\ Is(q.arbM, A * q.preL * q.arbL, B * TwoTo[q.shr] * q.postM)

LEMMA DividedUp ==
    ASSUME NEW p \in Plans, NEW A \in Positive, NEW B \in Positive, Is(p.arbM, A, B)
    PROVE  LET q == Rational(BeforePre(AfterPost(Halved(p))))
           IN  SharedOut(q, A, B) /\ q.mode = p.mode /\ q.postL = p.postL
  <1> DEFINE a == Halved(p)
             b == AfterPost(a)
             c == BeforePre(b)
             q == Rational(c)
             S == TwoTo[a.shr]
  <1>1. /\ a \in Plans /\ ~ a.again /\ a.mode = p.mode /\ a.postL = p.postL
        /\ S \in Positive /\ (S = 1 \/ 2 * S * B <= A)
        /\ a.upsample = (A < B) /\ Is(a.arbM, A, B * S)
    BY HalvedIs
  <1>2. B * S \in Positive
    BY <1>1, PositiveProduct
  <1> HIDE DEF a
  <1>3. /\ b \in Plans /\ b.again = a.again /\ b.mode = a.mode
        /\ b.postL = a.postL /\ b.shr = a.shr
        /\ b.preM \in {0, 1} /\ (a.upsample => b.preM = 1)
        /\ b.postM \in {1, 2} /\ (A < B * S => b.postM = 1)
        /\ Is(b.arbM, A, B * S * b.postM)
    BY <1>1, <1>2, AfterPostIs
  <1>4. B * S * b.postM \in Positive
    BY <1>2, <1>3, PositiveProduct, PlanFields
  <1> HIDE DEF b
  <1>5. /\ c \in Plans /\ c.again = b.again /\ c.mode = b.mode
        /\ c.postL = b.postL /\ c.shr = b.shr /\ c.preM = b.preM /\ c.postM = b.postM
        /\ (b.preM = 1 /\ b.mode = 0 => c.preL = 1)
        /\ Is(c.arbM, A * c.preL, B * S * b.postM)
    BY <1>3, <1>4, BeforePreIs
  <1>6. A * c.preL \in Positive
    BY <1>5, PositiveProduct, PlanFields
  <1> HIDE DEF c
  <1>7. /\ q \in Plans /\ q.again = c.again /\ q.mode = c.mode
        /\ q.postL = c.postL /\ q.shr = c.shr /\ q.preM = c.preM
        /\ q.postM = c.postM /\ q.preL = c.preL
        /\ (q.rational \/ q.arbL = 1) /\ (q.rational => q.arbM.den = 1)
        /\ Is(q.arbM, A * c.preL * q.arbL, B * S * b.postM)
    BY <1>4, <1>5, <1>6, RationalIs
  <1> HIDE DEF q, S
  <1>8. TwoTo[q.shr] = S
    BY <1>3, <1>5, <1>7 DEF S
  <1>9. A < B => A < B * S
    BY <1>1, SMT DEF Positive
  <1>10. A < B => q.postM = 1
    BY <1>3, <1>5, <1>7, <1>9
  <1>11. A < B /\ q.mode = 0 => q.preL = 1
    BY <1>1, <1>3, <1>5, <1>7
  <1>12. Is(q.arbM, A * q.preL * q.arbL, B * TwoTo[q.shr] * q.postM)
    BY <1>5, <1>7, <1>8
  <1>13. SharedOut(q, A, B)
    BY <1>1, <1>3, <1>5, <1>7, <1>8, <1>10, <1>11, <1>12 DEF SharedOut
  <1>14. q.mode = p.mode /\ q.postL = p.postL
    BY <1>1, <1>3, <1>5, <1>7
  <1> QED
    BY <1>13, <1>14 DEF q, c, b, a

\* A stage is there for a denominator of one, too.
Stepping(preM) == IF preM > 1 THEN preM ELSE 1

LEMMA RatioOfIs ==
    ASSUME NEW q \in Plans, NEW A \in Positive, NEW B \in Positive,
           Is(q.arbM, A, B), TwoTo[q.shr] \in Positive
    PROVE  Is(RatioOf(q), A * TwoTo[q.shr] * (Stepping(q.preM) * q.postM),
              B * q.arbL * (q.preL * q.postL))
  <1> DEFINE S == TwoTo[q.shr]
             x == Times(q.arbM, S, q.arbL)
             c == Stepping(q.preM) * q.postM
             d == q.preL * q.postL
  <1>1. /\ q.arbL \in Positive /\ q.preL \in Positive /\ q.postL \in Positive
        /\ q.postM \in Positive /\ q.preM \in Nat
    BY PlanFields
  <1>2. Stepping(q.preM) \in Positive
    BY <1>1 DEF Stepping, Positive
  <1>3. c \in Positive /\ d \in Positive /\ A * S \in Positive /\ B * q.arbL \in Positive
    BY <1>1, <1>2, PositiveProduct
  <1>4. Is(x, A * S, B * q.arbL)
    BY <1>1, TimesIs
  <1>5. RatioOf(q) = Times(x, c, d)
    BY DEF RatioOf, Stepping
  <1> HIDE DEF x, c, d, S
  <1>6. Is(Times(x, c, d), (A * S) * c, (B * q.arbL) * d)
    BY <1>3, <1>4, TimesIs
  <1> QED
    BY <1>5, <1>6 DEF c, d, S

\* The ratio before the last stage and the whole one, as Reduced gets them.
LEMMA SharedRatios ==
    ASSUME NEW A \in Positive, NEW B \in Positive, NEW q, SharedOut(q, A, B)
    PROVE  LET S == TwoTo[q.shr]
               d == Fraction(q.preL * q.arbL * q.arbM.den, q.arbM.num)
               whole == Times(q.arbM, q.postM, q.preL * q.arbL)
           IN  /\ Is(d, B * S * q.postM, A) /\ d = Fraction(B * S * q.postM, A)
               /\ Is(whole, A, B * S)
  <1> DEFINE S == TwoTo[q.shr]
             L == q.preL * q.arbL
             M == q.postM
             num == q.arbM.num
             den == q.arbM.den
             d == Fraction(q.preL * q.arbL * q.arbM.den, q.arbM.num)
             whole == Times(q.arbM, q.postM, q.preL * q.arbL)
  <1>1. /\ q.arbL \in Positive /\ q.preL \in Positive /\ M \in Positive
        /\ S \in Positive
    BY PlanFields DEF SharedOut
  <1>2. L \in Positive
    BY <1>1, PositiveProduct
  <1>3. A * q.preL * q.arbL = A * L
    <2> DEFINE l == q.preL
               m == q.arbL
    <2>1. l \in Positive /\ m \in Positive
      BY <1>1
    <2> HIDE DEF l, m
    <2>2. A * l * m = A * (l * m)
      BY <2>1, SMT DEF Positive
    <2> QED
      BY <2>2 DEF l, m
  <1>4. Is(q.arbM, A * L, B * S * M)
    BY <1>3 DEF SharedOut
  <1>5. A * L \in Positive /\ B * S * M \in Positive /\ B * S \in Positive
    BY <1>1, <1>2, PositiveProduct
  <1>6. num \in Positive /\ den \in Positive /\ num * (B * S * M) = (A * L) * den
    BY <1>4, <1>5, IsPositive
  <1>7. d = Fraction(L * den, num) /\ whole = Times(q.arbM, M, L)
    OBVIOUS
  <1> HIDE DEF d, whole, L, M, S, num, den
  <1>8. L * den \in Positive
    BY <1>2, <1>6, PositiveProduct
  <1>9. (L * den) * A = num * (B * S * M)
    <2>1. (L * den) * A = (A * L) * den
      BY <1>2, <1>6, SMT DEF Positive
    <2> QED
      BY <1>6, <2>1
  <1>10. d = Fraction(B * S * M, A)
    BY <1>5, <1>6, <1>7, <1>8, <1>9, SameFraction
  <1>11. Is(d, B * S * M, A)
    BY <1>5, <1>10, FractionIs
  <1>12. Is(whole, (A * L) * M, (B * S * M) * L)
    BY <1>1, <1>2, <1>4, <1>5, <1>7, TimesIs
  <1>13. (A * L) * M \in Positive /\ (B * S * M) * L \in Positive
    BY <1>1, <1>2, <1>5, PositiveProduct
  <1>14. ((A * L) * M) * (B * S) = ((B * S * M) * L) * A
    BY <1>1, <1>2, SMT DEF Positive
  <1>15. Is(whole, A, B * S)
    BY <1>5, <1>12, <1>13, <1>14, IsAlso
  <1> QED
    BY <1>10, <1>11, <1>15 DEF d, whole, S, M

\* A ratio that goes up by so much, and with such large integers, that a part of it
\* is left to the last stage.
Large(A, B) ==
    LET d == Fraction(B, A) IN Above(d, 4, 1) /\ d # Fraction(5, 1)

\* A plan that is made: its stages together make A / B.
Made_up(r, A, B) ==
    /\ r \in Plans /\ ~ r.again
    /\ r.rational => r.arbM.den = 1
    /\ Is(RatioOf(r), A, B)

LEMMA OptimisedKeeps ==
    ASSUME NEW A \in Positive, NEW B \in Positive, NEW q, SharedOut(q, A, B),
           NEW d, d = Fraction(q.preL * q.arbL * q.arbM.den, q.arbM.num),
           Above(d, 4, 1), d # Fraction(5, 1)
    PROVE  LET r == Optimised(q, d)
           IN  /\ r \in Plans /\ r.again /\ r.mode = q.mode
               /\ r.postL # 1 /\ r.rational = q.rational
               /\ Is(r.arbM, A * r.postL, B)
               /\ A < B /\ Large(A, B)
  <1> DEFINE S == TwoTo[q.shr]
             M == q.postM
             k == Shifts[d.num \div (16 * d.den)]
             l == 4 * TwoTo[IF k > 6 THEN 6 ELSE k]
             x == Times(q.arbM, l, q.arbL * q.preL)
             r == Optimised(q, d)
  <1>1. /\ q \in Plans /\ q.arbL \in Positive /\ q.preL \in Positive /\ M \in {1, 2}
        /\ M \in Positive /\ S \in Positive /\ (S = 1 \/ 2 * S * B <= A)
        /\ (A < B => M = 1)
    BY PlanFields DEF SharedOut
  <1>2. B * S * M \in Positive /\ 4 \in Positive /\ 1 \in Positive
    BY <1>1, PositiveProduct DEF Positive
  <1>3. Is(d, B * S * M, A) /\ d = Fraction(B * S * M, A)
    BY SharedRatios
  <1>4. B * S * M > 4 * A
    <2> DEFINE c == B * S * M
    <2>1. c \in Positive /\ Is(d, c, A)
      BY <1>2, <1>3
    <2> HIDE DEF c
    <2>2. c * 1 > 4 * A
      BY <1>2, <2>1, AboveIs
    <2>3. c > 4 * A
      BY <2>1, <2>2 DEF Positive
    <2> QED
      BY <2>3 DEF c
  <1> HIDE DEF S, M
  <1>5. S = 1
    <2> SUFFICES ASSUME S # 1, 2 * S * B <= A
                 PROVE  FALSE
      BY <1>1
    <2>1. B * S * M <= 2 * S * B
      BY <1>1, SMT DEF Positive
    <2>2. B * S * M \in Nat /\ 2 * S * B \in Nat /\ A \in Nat
      BY <1>1, <1>2, SMT DEF Positive
    <2> QED
      BY <1>4, <2>1, <2>2
  <1>6. A < B /\ M = 1
    <2>1. B * S * M = B * M
      BY <1>1, <1>5, SMT DEF Positive
    <2>2. B * M <= 2 * B
      BY <1>1, SMT DEF Positive
    <2>3. A < B
      BY <1>1, <1>4, <2>1, <2>2, SMT DEF Positive
    <2> QED
      BY <1>1, <2>3
  <1>7. B * S * M = B
    BY <1>5, <1>6, SMT DEF Positive
  <1>8. Large(A, B)
    BY <1>3, <1>7 DEF Large
  <1>9. l \in Positive /\ l # 1
    <2>1. d.num \in Positive /\ d.den \in Positive
      BY <1>2, <1>3, IsPositive
    <2>2. d.num \div (16 * d.den) \in Nat
      <3> DEFINE n == d.num
                 m == 16 * d.den
      <3>1. n \in Int /\ n \in Nat /\ m \in Nat \ {0}
        BY <2>1, SMT DEF Positive
      <3> HIDE DEF n, m
      <3>2. n \div m \in Nat
        BY <3>1, Quotient
      <3> QED
        BY <3>2 DEF n, m
    <2>3. k \in Nat
      BY <2>2, ShiftsOf
    <2> HIDE DEF k
    <2> DEFINE j == IF k > 6 THEN 6 ELSE k
    <2>4. j \in Nat
      BY <2>3
    <2>5. TwoTo[j] \in Positive
      BY <2>4, TwoToOf
    <2> DEFINE t == TwoTo[j]
    <2>6. t \in Positive /\ l = 4 * t
      BY <2>5
    <2> HIDE DEF j, t
    <2> QED
      BY <2>6, SMT DEF Positive
  <1>10. r = [q EXCEPT !.postL = l, !.arbL = 1, !.again = TRUE, !.arbM = x]
    BY DEF Optimised
  <1> HIDE DEF l
  <1> DEFINE L == q.arbL * q.preL
  <1>11. L \in Positive /\ A * L \in Positive /\ A * l \in Positive
    BY <1>1, <1>9, PositiveProduct
  <1>12. Is(q.arbM, A * L, B)
    <2>1. A * q.preL * q.arbL = A * L
      <3> DEFINE n == q.preL
                 m == q.arbL
      <3>1. n \in Positive /\ m \in Positive
        BY <1>1
      <3> HIDE DEF n, m
      <3>2. A * n * m = A * (m * n)
        BY <3>1, SMT DEF Positive
      <3> QED
        BY <3>2 DEF n, m
    <2>2. Is(q.arbM, A * q.preL * q.arbL, B * S * M)
      BY DEF SharedOut, S, M
    <2> QED
      BY <1>7, <2>1, <2>2
  <1> HIDE DEF L
  <1>13. x = Times(q.arbM, l, L)
    BY DEF L
  <1> HIDE DEF x, r
  <1>14. Is(x, (A * L) * l, B * L)
    BY <1>9, <1>11, <1>12, <1>13, TimesIs
  <1>15. Is(x, A * l, B)
    <2>1. (A * L) * l \in Positive /\ B * L \in Positive
      BY <1>9, <1>11, PositiveProduct
    <2>2. ((A * L) * l) * B = (B * L) * (A * l)
      BY <1>9, <1>11, SMT DEF Positive
    <2> QED
      BY <1>11, <1>14, <2>1, <2>2, IsAlso
  <1>16. x \in Ratios
    BY <1>15 DEF Is
  <1>17. /\ r \in Plans /\ r.again /\ r.mode = q.mode /\ r.postL = l
         /\ r.rational = q.rational /\ r.arbM = x
    BY <1>1, <1>2, <1>9, <1>10, <1>16 DEF Plans
  <1> QED
    BY <1>6, <1>8, <1>9, <1>15, <1>17 DEF r

LEMMA CombinedKeeps ==
    ASSUME NEW A \in Positive, NEW B \in Positive, NEW q, SharedOut(q, A, B),
           NEW whole, whole = Times(q.arbM, q.postM, q.preL * q.arbL)
    PROVE  LET r == Combined(q, whole)
           IN  /\ Made_up(r, A, B * q.postL)
               /\ r.mode = q.mode /\ r.postL = q.postL /\ r.rational = q.rational
  <1> DEFINE S == TwoTo[q.shr]
             y == Fraction(1, 1)
             m == whole.num
             n == whole.den
             r == Combined(q, whole)
  <1>1. q \in Plans /\ ~ q.again /\ S \in Positive /\ q.postL \in Positive
    BY PlanFields DEF SharedOut
  <1>2. 1 \in Positive /\ B * S \in Positive /\ B * q.postL \in Positive
    BY <1>1, PositiveProduct DEF Positive
  <1>3. m \in Positive /\ n \in Positive /\ m * (B * S) = A * n
    <2>1. Is(whole, A, B * S)
      BY SharedRatios
    <2> QED
      BY <1>2, <2>1, IsPositive
  <1>4. y = [num |-> 1, den |-> 1]
    BY <1>2, WholeFraction
  <1>5. y \in Ratios /\ y.den = 1 /\ Is(y, 1, 1)
    <2>1. Is(y, 1, 1)
      BY <1>2, FractionIs
    <2> QED
      BY <1>4, <2>1 DEF Is
  <1>6. r = [q EXCEPT !.preL = n, !.preM = m, !.postM = 1, !.arbL = 1, !.arbM = y]
    BY DEF Combined
  <1> HIDE DEF y, m, n, r
  <1>7. m \in Nat
    BY <1>3 DEF Positive
  <1>8. /\ r \in Plans /\ ~ r.again /\ r.mode = q.mode /\ r.postL = q.postL
        /\ r.rational = q.rational /\ r.shr = q.shr /\ r.arbM = y /\ r.arbL = 1
        /\ r.preL = n /\ r.preM = m /\ r.postM = 1
    BY <1>1, <1>2, <1>3, <1>5, <1>6, <1>7 DEF Plans
  <1>9. Is(RatioOf(r), A, B * q.postL)
    <2> DEFINE P == q.postL
    <2>1. Is(RatioOf(r), 1 * TwoTo[r.shr] * (Stepping(r.preM) * r.postM),
                1 * r.arbL * (r.preL * r.postL))
      BY <1>1, <1>2, <1>5, <1>8, RatioOfIs
    <2>2. Stepping(r.preM) = m
      BY <1>3, <1>8 DEF Stepping, Positive
    <2>3. TwoTo[r.shr] = S /\ r.postL = P /\ P \in Positive
      BY <1>1, <1>8
    <2>4. Is(RatioOf(r), 1 * S * (m * 1), 1 * 1 * (n * P))
      BY <1>8, <2>1, <2>2, <2>3
    <2> HIDE DEF S, P
    <2>5. 1 * S * (m * 1) = S * m /\ 1 * 1 * (n * P) = n * P
      BY <1>1, <1>3, <2>3, SMT DEF Positive
    <2>6. S * m \in Positive /\ n * P \in Positive /\ B * P \in Positive
      BY <1>1, <1>3, <2>3, PositiveProduct
    <2>7. (S * m) * (B * P) = (n * P) * A
      <3>1. (S * m) * (B * P) = (m * (B * S)) * P
        BY <1>1, <1>3, <2>3, SMT DEF Positive
      <3>2. (A * n) * P = (n * P) * A
        BY <1>3, <2>3, SMT DEF Positive
      <3> QED
        BY <1>3, <3>1, <3>2
    <2>8. Is(RatioOf(r), S * m, n * P)
      BY <2>4, <2>5
    <2>9. Is(RatioOf(r), A, B * P)
      BY <2>6, <2>7, <2>8, IsAlso
    <2> QED
      BY <2>9 DEF P
  <1> QED
    BY <1>5, <1>8, <1>9 DEF Made_up, r

LEMMA LeftKeeps ==
    ASSUME NEW A \in Positive, NEW B \in Positive, NEW q, SharedOut(q, A, B)
    PROVE  Made_up(q, A, B * q.postL)
  <1> DEFINE S == TwoTo[q.shr]
             M == q.postM
             l == q.preL
             m == q.arbL
             P == q.postL
  <1>1. /\ q \in Plans /\ ~ q.again /\ (q.rational => q.arbM.den = 1)
        /\ S \in Positive /\ M \in Positive /\ l \in Positive /\ m \in Positive
        /\ P \in Positive /\ q.preM \in {0, 1}
    BY PlanFields DEF SharedOut
  <1>2. Is(q.arbM, A * l * m, B * S * M)
    BY DEF SharedOut
  <1>3. Stepping(q.preM) = 1
    BY <1>1 DEF Stepping
  <1>4. A * l * m \in Positive /\ B * S * M \in Positive /\ B * P \in Positive
    BY <1>1, PositiveProduct
  <1>5. Is(RatioOf(q), A * l * m * S * (Stepping(q.preM) * M), B * S * M * m * (l * P))
    BY <1>1, <1>2, <1>4, RatioOfIs
  <1> HIDE DEF S, M, l, m, P
  <1>6. Is(RatioOf(q), A * l * m * S * (1 * M), B * S * M * m * (l * P))
    BY <1>3, <1>5
  <1>7. A * l * m * S * (1 * M) \in Positive /\ B * S * M * m * (l * P) \in Positive
    BY <1>1, PositiveProduct, SmallNumbers
  <1>8. (A * l * m * S * (1 * M)) * (B * P) = (B * S * M * m * (l * P)) * A
    BY <1>1, SMT DEF Positive
  <1>9. Is(RatioOf(q), A, B * P)
    BY <1>4, <1>6, <1>7, <1>8, IsAlso
  <1> QED
    BY <1>1, <1>9 DEF Made_up, P
-----------------------------------------------------------------------------
\* What a turn makes of a plan for A / B, besides what is left to the last stage:
\* a plan that is made, the simple mode given up, or a part left to the last stage.
Ended(p, r, A, B) == Made_up(r, A, B * p.postL)

GivenUp(p, r, A, B) ==
    /\ r \in Plans /\ r.again /\ r.mode = 1 /\ r.postL = p.postL
    /\ Is(r.arbM, A, B)
    /\ p.postL = 1 => ~ Large(A, B)

PartLeft(p, r, A, B) ==
    /\ r \in Plans /\ r.again /\ r.mode = 1 /\ p.postL = 1 /\ r.postL # 1
    /\ Is(r.arbM, A * r.postL, B)
    /\ Large(A, B)

LEMMA PassKeeps ==
    ASSUME NEW p \in Plans, NEW A \in Positive, NEW B \in Positive, Is(p.arbM, A, B),
           p.mode = 0 => A < B
    PROVE  \/ Ended(p, Pass(p), A, B)
           \/ p.mode = 0 /\ GivenUp(p, Pass(p), A, B)
           \/ PartLeft(p, Pass(p), A, B)
  <1> DEFINE q == Rational(BeforePre(AfterPost(Halved(p))))
             d == Fraction(q.preL * q.arbL * q.arbM.den, q.arbM.num)
             whole == Times(q.arbM, q.postM, q.preL * q.arbL)
             r == Reduced(q, d, whole)
  <1>1. SharedOut(q, A, B) /\ q.mode = p.mode /\ q.postL = p.postL
    BY DividedUp
  <1>2. Pass(p) = Decided(r)
    BY DEF Pass, Shared
  <1> HIDE DEF q
  <1>3. q \in Plans /\ ~ q.again
    BY <1>1 DEF SharedOut
  <1>4. CASE q.postL = 1 /\ Above(d, 4, 1) /\ d # Fraction(5, 1)
    <2>1. r = Optimised(q, d)
      BY <1>4 DEF Reduced
    <2>2. /\ r \in Plans /\ r.again /\ r.mode = q.mode
          /\ r.postL # 1 /\ r.rational = q.rational
          /\ Is(r.arbM, A * r.postL, B) /\ A < B /\ Large(A, B)
      BY <1>1, <1>4, <2>1, OptimisedKeeps
    <2> HIDE DEF r, d
    <2>3. CASE r.mode = 0
      <3> DEFINE t == Decided(r)
      <3>1. t = [r EXCEPT !.mode = 1, !.again = TRUE]
        BY <2>2, <2>3 DEF Decided
      <3> HIDE DEF t
      <3>2. /\ t \in Plans /\ t.again /\ t.mode = 1 /\ t.postL = r.postL
            /\ t.arbM = r.arbM
        BY <2>2, <3>1 DEF Plans
      <3>3. PartLeft(p, t, A, B)
        BY <1>1, <1>4, <2>2, <3>2 DEF PartLeft
      <3> QED
        BY <1>2, <3>3 DEF t
    <2>4. CASE r.mode # 0
      <3>1. Decided(r) = r
        BY <2>4 DEF Decided
      <3>2. r.mode = 1
        BY <2>2, <2>4, PlanFields
      <3>3. PartLeft(p, r, A, B)
        BY <1>1, <1>4, <2>2, <3>2 DEF PartLeft
      <3> QED
        BY <1>2, <3>1, <3>3
    <2> QED
      BY <2>3, <2>4
  <1>5. CASE ~ (q.postL = 1 /\ Above(d, 4, 1) /\ d # Fraction(5, 1))
    <2>1. CASE q.rational
      <3>1. Made_up(r, A, B * q.postL) /\ r.rational = q.rational
        <4>1. CASE Small(whole)
          <5>1. r = Combined(q, whole)
            BY <1>5, <2>1, <4>1 DEF Reduced
          <5> QED
            BY <1>1, <5>1, CombinedKeeps
        <4>2. CASE ~ Small(whole)
          <5>1. r = q
            BY <1>5, <4>2 DEF Reduced
          <5> QED
            BY <1>1, <5>1, LeftKeeps
        <4> QED
          BY <4>1, <4>2
      <3> HIDE DEF r
      <3>2. Decided(r) = r
        BY <2>1, <3>1 DEF Decided, Made_up
      <3> QED
        BY <1>1, <1>2, <3>1, <3>2 DEF Ended
    <2>2. CASE ~ q.rational
      <3>1. r = q
        BY <1>5, <2>2 DEF Reduced
      <3> HIDE DEF r
      <3>2. CASE q.mode = 0
        <4> DEFINE t == Decided(q)
        <4>1. t = [q EXCEPT !.mode = 1, !.again = TRUE]
          BY <2>2, <3>2 DEF Decided
        <4> HIDE DEF t
        <4>2. /\ t \in Plans /\ t.again /\ t.mode = 1 /\ t.postL = q.postL
              /\ t.arbM = q.arbM
          BY <1>3, <4>1 DEF Plans
        <4>3. A < B
          BY <1>1, <3>2
        <4> DEFINE S == TwoTo[q.shr]
        <4>4. S = 1 /\ q.postM = 1 /\ q.preL = 1 /\ q.arbL = 1
          <5>1. /\ S \in Positive /\ (S = 1 \/ 2 * S * B <= A)
                /\ q.postM = 1 /\ q.preL = 1 /\ q.arbL = 1
            BY <1>1, <2>2, <3>2, <4>3 DEF SharedOut
          <5> HIDE DEF S
          <5>2. 2 * S * B >= B
            BY <5>1, SMT DEF Positive
          <5>3. 2 * S * B \in Nat
            BY <5>1, SMT DEF Positive
          <5>4. S = 1
            BY <4>3, <5>1, <5>2, <5>3 DEF Positive
          <5> QED
            BY <5>1, <5>4
        <4>5. B * S * q.postM = B /\ A * q.preL * q.arbL = A
          BY <4>4, SMT DEF Positive
        <4>6. Is(q.arbM, A, B)
          BY <1>1, <4>5 DEF SharedOut
        <4>7. d = Fraction(B, A)
          <5>1. d = Fraction(B * S * q.postM, A)
            BY <1>1, SharedRatios
          <5> HIDE DEF S, d
          <5> QED
            BY <4>5, <5>1
        <4>8. q.postL = 1 => ~ Large(A, B)
          <5> HIDE DEF d
          <5> QED
            BY <1>5, <4>7 DEF Large
        <4>9. GivenUp(p, t, A, B)
          BY <1>1, <4>2, <4>6, <4>8 DEF GivenUp
        <4>10. Pass(p) = t
          BY <1>2, <3>1 DEF t
        <4> QED
          BY <1>1, <3>2, <4>9, <4>10
      <3>3. CASE q.mode # 0
        <4>1. Decided(q) = q
          BY <3>3 DEF Decided
        <4>2. Made_up(q, A, B * q.postL)
          BY <1>1, LeftKeeps
        <4> QED
          BY <1>1, <1>2, <3>1, <4>1, <4>2 DEF Ended
      <3> QED
        BY <3>2, <3>3
    <2> QED
      BY <2>1, <2>2
  <1> QED
    BY <1>4, <1>5

\* The second turn ends it.
LEMMA SecondTurn ==
    ASSUME NEW p \in Plans, NEW A \in Positive, NEW B \in Positive, Is(p.arbM, A, B),
           p.mode = 1, p.postL = 1 => ~ Large(A, B)
    PROVE  Made_up(Pass(p), A, B * p.postL)
  <1>1. p.mode # 0
    OBVIOUS
  <1>2. Ended(p, Pass(p), A, B) \/ PartLeft(p, Pass(p), A, B)
    BY <1>1, PassKeeps
  <1> QED
    BY <1>2 DEF Ended, PartLeft

LEMMA TwoTurns ==
    ASSUME NEW p \in Plans, NEW A \in Positive, NEW B \in Positive, Is(p.arbM, A, B),
           p.mode = 0 => A < B, p.postL = 1, p.again
    PROVE  Made_up(Turn(Turn(p)), A, B)
  <1> DEFINE r == Pass(p)
  <1>1. Turn(p) = r
    BY DEF Turn
  <1>2. Ended(p, r, A, B) \/ GivenUp(p, r, A, B) \/ PartLeft(p, r, A, B)
    BY PassKeeps
  <1>3. B * 1 = B
    BY SMT DEF Positive
  <1> HIDE DEF r
  <1>4. CASE Ended(p, r, A, B)
    <2>1. Made_up(r, A, B)
      BY <1>3, <1>4 DEF Ended
    <2>2. Turn(r) = r
      BY <2>1 DEF Turn, Made_up
    <2> QED
      BY <1>1, <2>1, <2>2
  <1>5. CASE GivenUp(p, r, A, B)
    <2>1. /\ r \in Plans /\ r.again /\ r.mode = 1 /\ r.postL = 1
          /\ Is(r.arbM, A, B) /\ ~ Large(A, B)
      BY <1>5 DEF GivenUp
    <2>2. Made_up(Pass(r), A, B * r.postL)
      BY <2>1, SecondTurn
    <2>3. Turn(r) = Pass(r)
      BY <2>1 DEF Turn
    <2> QED
      BY <1>1, <1>3, <2>1, <2>2, <2>3
  <1>6. CASE PartLeft(p, r, A, B)
    <2> DEFINE l == r.postL
    <2>1. /\ r \in Plans /\ r.again /\ r.mode = 1 /\ l # 1 /\ l \in Positive
          /\ Is(r.arbM, A * l, B)
      BY <1>6, PlanFields DEF PartLeft
    <2>2. A * l \in Positive /\ B * l \in Positive
      BY <2>1, PositiveProduct
    <2>3. Made_up(Pass(r), A * l, B * l)
      BY <2>1, <2>2, SecondTurn
    <2>4. Turn(r) = Pass(r)
      BY <2>1 DEF Turn
    <2> HIDE DEF l
    <2>5. (A * l) * B = (B * l) * A
      BY <2>1, SMT DEF Positive
    <2>6. Is(RatioOf(Pass(r)), A, B)
      BY <2>2, <2>3, <2>5, IsAlso DEF Made_up
    <2>7. Made_up(Pass(r), A, B)
      BY <2>3, <2>6 DEF Made_up
    <2> QED
      BY <1>1, <2>4, <2>7
  <1> QED
    BY <1>2, <1>4, <1>5, <1>6

LEMMA PlanIsMade ==
    ASSUME NEW i \in Positive, NEW o \in Positive, i # o, NEW quality
    PROVE  Made_up(Planned(Fraction(i, o), quality), i, o)
  <1> DEFINE x == Fraction(i, o)
             m == Mode(x, quality)
             again == quality # "QQ"
             p == [arbM |-> x, arbL |-> 1, preL |-> 1, preM |-> 1, postL |-> 1,
                   postM |-> 1, shr |-> 0, rational |-> FALSE, upsample |-> FALSE,
                   mode |-> m, again |-> again]
  <1>1. Is(x, i, o) /\ x \in Ratios
    BY FractionIs DEF Is
  <1>2. m \in {0, 1} /\ (m = 0 => i < o)
    <2>1. 1 \in Positive
      BY DEF Positive
    <2>2. Above(x, 1, 1) <=> i * 1 > 1 * o
      BY <1>1, <2>1, AboveIs
    <2> QED
      BY <2>2 DEF Mode, Positive
  <1>3. again \in BOOLEAN /\ 1 \in Positive
    BY DEF Positive
  <1>4. Planned(x, quality) = Turn(Turn(p))
    BY DEF Planned
  <1> HIDE DEF x, m, again
  <1>5. /\ p \in Plans /\ p.mode = m /\ p.postL = 1 /\ p.again = again /\ p.arbM = x
        /\ p.arbL = 1 /\ p.preL = 1 /\ p.preM = 1 /\ p.postM = 1 /\ p.shr = 0
        /\ ~ p.rational
    BY <1>1, <1>2, <1>3 DEF Plans
  <1> HIDE DEF p
  <1>6. CASE p.again
    <2>1. Made_up(Turn(Turn(p)), i, o)
      BY <1>1, <1>2, <1>5, <1>6, TwoTurns
    <2> QED
      BY <1>4, <2>1 DEF x
  <1>7. CASE ~ p.again
    <2>1. Turn(p) = p
      BY <1>7 DEF Turn
    <2>2. TwoTo[p.shr] = 1 /\ Stepping(p.preM) = 1
      BY <1>5, TwoToOf DEF Stepping
    <2>3. Is(RatioOf(p), i * TwoTo[p.shr] * (Stepping(p.preM) * p.postM),
                o * p.arbL * (p.preL * p.postL))
      BY <1>1, <1>3, <1>5, <2>2, RatioOfIs
    <2>4. Is(RatioOf(p), i * 1 * (1 * 1), o * 1 * (1 * 1))
      BY <1>5, <2>2, <2>3
    <2>5. i * 1 * (1 * 1) = i /\ o * 1 * (1 * 1) = o
      BY SMT DEF Positive
    <2>6. Made_up(p, i, o)
      BY <1>5, <1>7, <2>4, <2>5 DEF Made_up
    <2> QED
      BY <1>4, <2>1, <2>6 DEF x
  <1> QED
    BY <1>6, <1>7

LEMMA RatioOfIsFraction ==
    ASSUME NEW r \in Plans, NEW A \in Positive, NEW B \in Positive,
           Is(RatioOf(r), A, B), TwoTo[r.shr] \in Positive
    PROVE  RatioOf(r) = Fraction(A, B)
  <1> DEFINE x == Times(r.arbM, TwoTo[r.shr], r.arbL)
             c == Stepping(r.preM) * r.postM
             d == r.preL * r.postL
  <1>1. /\ r.arbL \in Positive /\ r.preL \in Positive /\ r.postL \in Positive
        /\ r.postM \in Positive /\ r.preM \in Nat /\ r.arbM \in Ratios
    BY PlanFields
  <1>2. Stepping(r.preM) \in Positive
    BY <1>1 DEF Stepping, Positive
  <1>3. c \in Positive /\ d \in Positive
    BY <1>1, <1>2, PositiveProduct
  <1> DEFINE m == r.arbM.num * TwoTo[r.shr]
             n == r.arbM.den * r.arbL
  <1>4. m \in Positive /\ n \in Positive
    BY <1>1, PositiveProduct DEF Ratios
  <1>5. x = Fraction(m, n)
    BY DEF Times
  <1>6. RatioOf(r) = Times(x, c, d)
    BY DEF RatioOf, Stepping
  <1> HIDE DEF x, c, d, m, n
  <1>7. x.num \in Positive /\ x.den \in Positive
    BY <1>4, <1>5, FractionIs DEF Is, Ratios
  <1>8. x.num * c \in Positive /\ x.den * d \in Positive
    BY <1>3, <1>7, PositiveProduct
  <1>9. RatioOf(r) = Fraction(x.num * c, x.den * d)
    BY <1>6 DEF Times
  <1> QED
    BY <1>8, <1>9, IsFraction

\* For any two rates that differ, and whatever the quality, two turns of the loop of
\* _soxr_init are enough, and the stages that are planned change the rate by the
\* ratio of the two: PlansKeepRatio for all rates at once.
THEOREM PlansKeepTheRatio ==
    ASSUME NEW i \in Nat \ {0}, NEW o \in Nat \ {0}, i # o, NEW quality
    PROVE  LET p == Planned(Fraction(i, o), quality)
           IN  ~ p.again /\ RatioOf(p) = Fraction(i, o)
  <1> DEFINE p == Planned(Fraction(i, o), quality)
  <1>1. i \in Positive /\ o \in Positive
    BY DEF Positive
  <1>2. Made_up(p, i, o)
    BY <1>1, PlanIsMade
  <1> HIDE DEF p
  <1>3. TwoTo[p.shr] \in Positive
    BY <1>2, TwoToOf, PlanFields DEF Made_up
  <1>4. RatioOf(p) = Fraction(i, o)
    BY <1>1, <1>2, <1>3, RatioOfIsFraction DEF Made_up
  <1> QED
    BY <1>2, <1>4 DEF Made_up, p
=============================================================================
