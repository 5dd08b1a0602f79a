------------------------------ MODULE Numbers ------------------------------
(***************************************************************************)
(* Sets of natural numbers: the least element of any that is not empty,    *)
(* and the greatest of one that has been made from finitely many numbers.  *)
(* Iteration of a function: the recursive definition of it has a solution. *)
(* Quotients, and powers of two.                                           *)
(***************************************************************************)
EXTENDS Integers, Powers, WellFoundedInduction, TLAPS

\* A set of numbers that is not empty has a least one.
LEMMA LeastNumber ==
    ASSUME NEW T, T \subseteq Nat, T # {}
    PROVE  \E i \in T : \A j \in T : i <= j
<1> DEFINE R == OpToRel(<, Nat)
<1>1. IsWellFoundedOn(R, Nat)
    BY NatLessThanWellFounded
<1>2. \E i \in T : \A j \in T : <<j, i>> \notin R
    <2> HIDE DEF R
    <2> QED BY <1>1, WFMin, Zenon
<1>3. \A i, j \in T : <<j, i>> \notin R => i <= j
    BY DEF OpToRel
<1> QED BY <1>2, <1>3

\* Finitely many numbers have a bound: otherwise there would be a least n that f has none for.
LEMMA BoundOfMany ==
    ASSUME NEW n \in Nat, NEW f \in [0 .. n - 1 -> Nat]
    PROVE  \E b \in Nat : \A i \in 0 .. n - 1 : f[i] <= b
<1> DEFINE Bounded(m) == \E b \in Nat : \A i \in 0 .. m - 1 : f[i] <= b
<1> SUFFICES ASSUME ~Bounded(n) PROVE FALSE
    OBVIOUS
<1> HIDE DEF Bounded
<1>1. PICK m \in 0 .. n : ~Bounded(m) /\ \A k \in 0 .. n : ~Bounded(k) => m <= k
    <2> DEFINE T == {m \in 0 .. n : ~Bounded(m)}
    <2>1. T \subseteq Nat /\ n \in T
        OBVIOUS
    <2>2. \E m \in T : \A k \in T : m <= k
        <3> HIDE DEF T
        <3> QED BY <2>1, LeastNumber
    <2> QED BY <2>2
<1>2. m # 0
    <2>1. \A i \in 0 .. 0 - 1 : f[i] <= 0
        OBVIOUS
    <2> QED BY <1>1, <2>1 DEF Bounded
<1>3. PICK b \in Nat : \A i \in 0 .. m - 2 : f[i] <= b
    <2>1. m - 1 \in 0 .. n /\ ~(m <= m - 1) /\ m - 1 - 1 = m - 2
        BY <1>2
    <2>2. Bounded(m - 1)
        BY <1>1, <2>1
    <2> QED BY <2>1, <2>2 DEF Bounded
<1>4. \A i \in 0 .. m - 1 : f[i] \in Nat
    OBVIOUS
<1>5. PICK d \in Nat : d >= b /\ d >= f[m - 1]
    <2>1. f[m - 1] \in Nat
        BY <1>2, <1>4
    <2> QED BY <2>1
<1>6. ASSUME NEW i \in 0 .. m - 1 PROVE f[i] <= d
    <2>1. f[i] \in Nat
        BY <1>4
    <2>2. i = m - 1 \/ i \in 0 .. m - 2
        OBVIOUS
    <2> QED BY <1>3, <1>5, <2>1, <2>2
<1> QED BY <1>1, <1>6 DEF Bounded

\* A set of numbers with a bound has a greatest one.
LEMMA GreatestNumber ==
    ASSUME NEW S, S \subseteq Nat, S # {}, NEW b \in Nat, \A x \in S : x <= b
    PROVE  \E x \in S : \A y \in S : x >= y
<1> DEFINE Above(c) == \A x \in S : x <= c
           T == {c \in Nat : Above(c)}
<1>1. PICK c \in T : \A d \in T : c <= d
    <2>1. T \subseteq Nat /\ b \in T
        OBVIOUS
    <2> HIDE DEF T
    <2> QED BY <2>1, LeastNumber
<1>2. c \in Nat /\ Above(c)
    OBVIOUS
<1>3. CASE c \in S
    <2>1. \A y \in S : c >= y
        BY <1>2
    <2> QED BY <1>3, <2>1
<1>4. CASE c \notin S
    <2>1. PICK x \in S : TRUE
        OBVIOUS
    <2>2. \A y \in S : y \in Nat /\ y <= c - 1
        BY <1>2, <1>4
    <2>3. c - 1 \in Nat /\ Above(c - 1)
        BY <1>2, <2>1, <2>2
    <2>4. c <= c - 1
        <3>1. c - 1 \in T
            BY <2>3
        <3> HIDE DEF T
        <3> QED BY <1>1, <3>1
    <2> QED BY <1>2, <2>4
<1> QED BY <1>3, <1>4

\* g is the first n steps of an iteration of f that starts at h.
Iterates(D, f, h, n, g) ==
    g \in [0 .. n -> D] /\ g[0] = h /\ \A i \in 1 .. n : g[i] = f[g[i - 1]]

\* n steps can be taken: otherwise there would be a least n with which they cannot.
LEMMA IterationPrefix ==
    ASSUME NEW D, NEW f \in [D -> D], NEW h \in D, NEW n \in Nat
    PROVE  \E g : Iterates(D, f, h, n, g)
<1> DEFINE Good(m) == \E g : Iterates(D, f, h, m, g)
           T == {m \in Nat : ~Good(m)}
<1> SUFFICES ASSUME T # {} PROVE FALSE
    OBVIOUS
<1>1. PICK m \in T : \A k \in T : m <= k
    <2>1. T \subseteq Nat
        OBVIOUS
    <2> HIDE DEF T
    <2> QED BY <2>1, LeastNumber
<1>2. m # 0
    <2>1. Good(0)
        <3> DEFINE g == [i \in 0 .. 0 |-> h]
        <3>1. Iterates(D, f, h, 0, g)
            BY DEF Iterates
        <3> QED BY <3>1
    <2> QED BY <2>1
<1>3. PICK g : Iterates(D, f, h, m - 1, g)
    <2> HIDE DEF Good
    <2>1. m \in Nat \ {0} /\ \A k \in Nat : ~Good(k) => m <= k
        BY <1>1, <1>2
    <2>2. m - 1 \in Nat /\ Good(m - 1)
        BY <2>1
    <2> QED BY <2>2 DEF Good
<1>4. Good(m)
    <2> DEFINE e == [i \in 0 .. m |-> IF i = m THEN f[g[m - 1]] ELSE g[i]]
    <2>1. m \in Nat \ {0}
        BY <1>2
    <2>2. e \in [0 .. m -> D] /\ e[0] = h
        BY <1>3, <2>1 DEF Iterates
    <2>3. ASSUME NEW i \in 1 .. m PROVE e[i] = f[e[i - 1]]
        <3>1. i - 1 \in 0 .. m - 1 /\ e[i - 1] = g[i - 1]
            BY <2>1
        <3> QED BY <1>3, <2>1, <3>1 DEF Iterates
    <2>4. Iterates(D, f, h, m, e)
        <3> HIDE DEF e
        <3> QED BY <2>2, <2>3 DEF Iterates
    <2> QED BY <2>4
<1> QED BY <1>4

\* Two prefixes of an iteration agree.
LEMMA IterationUnique ==
    ASSUME NEW D, NEW f \in [D -> D], NEW h \in D, NEW m \in Nat, NEW n \in Nat,
           NEW g, Iterates(D, f, h, m, g), NEW e, Iterates(D, f, h, n, e)
    PROVE  \A i \in 0 .. m : i <= n => g[i] = e[i]
<1> DEFINE T == {i \in 0 .. m : i <= n /\ g[i] # e[i]}
<1> SUFFICES ASSUME T # {} PROVE FALSE
    OBVIOUS
<1>1. PICK i \in T : \A k \in T : i <= k
    <2>1. T \subseteq Nat
        OBVIOUS
    <2> HIDE DEF T
    <2> QED BY <2>1, LeastNumber
<1>2. i # 0 /\ i - 1 \in 0 .. m /\ i - 1 \notin T
    BY <1>1 DEF Iterates
<1>3. g[i - 1] = e[i - 1] /\ i \in 1 .. m /\ i \in 1 .. n
    BY <1>2
<1> QED BY <1>3 DEF Iterates

\* g is the whole iteration.
Iteration(D, f, h, g) ==
    g \in [Nat -> D] /\ g[0] = h /\ \A n \in Nat \ {0} : g[n] = f[g[n - 1]]

\* There is one, and so a recursive definition of one has a solution.
LEMMA IterationExists ==
    ASSUME NEW D, NEW f \in [D -> D], NEW h \in D
    PROVE  \E g : Iteration(D, f, h, g)
<1> DEFINE P(n) == CHOOSE g : Iterates(D, f, h, n, g)
           q == [n \in Nat |-> P(n)[n]]
<1>1. ASSUME NEW n \in Nat PROVE Iterates(D, f, h, n, P(n))
    BY IterationPrefix
<1> HIDE DEF P
<1>2. ASSUME NEW n \in Nat PROVE q[n] \in D
    BY <1>1 DEF Iterates
<1>3. q[0] = h
    BY <1>1 DEF Iterates
<1>4. ASSUME NEW n \in Nat \ {0} PROVE q[n] = f[q[n - 1]]
    <2>1. n - 1 \in Nat /\ Iterates(D, f, h, n, P(n)) /\ Iterates(D, f, h, n - 1, P(n - 1))
        BY <1>1
    <2>2. P(n - 1)[n - 1] = P(n)[n - 1]
        <3>1. n - 1 \in 0 .. n - 1 /\ n - 1 <= n
            OBVIOUS
        <3>2. \A i \in 0 .. n - 1 : i <= n => P(n - 1)[i] = P(n)[i]
            BY <2>1, IterationUnique
        <3> QED BY <3>1, <3>2
    <2>3. P(n)[n] = f[P(n)[n - 1]]
        BY <2>1 DEF Iterates
    <2>4. q[n] = P(n)[n] /\ q[n - 1] = P(n - 1)[n - 1]
        BY <2>1
    <2> QED BY <2>2, <2>3, <2>4
<1>5. q \in [Nat -> D]
    BY <1>2
<1>6. Iteration(D, f, h, q)
    <2> HIDE DEF q
    <2> QED BY <1>3, <1>4, <1>5 DEF Iteration
<1> QED BY <1>6

\* n is q times d, and r is left.
Splits(n, d, q, r) ==
    /\ n \in Int /\ d \in Int /\ q \in Int /\ r \in Int
    /\ 0 <= r /\ r < d /\ n = d * q + r

\* The quotient and the remainder are the only ones that do so.
LEMMA QuotientIs ==
    ASSUME NEW n, NEW d, NEW q, NEW r, Splits(n, d, q, r)
    PROVE  n \div d = q /\ n % d = r
<1>1. n \in Int /\ d \in Nat \ {0} /\ q \in Int /\ r \in 0 .. d - 1 /\ n = d * q + r
    BY DEF Splits
<1>2. n \div d \in Int /\ n % d \in 0 .. d - 1 /\ n = d * (n \div d) + (n % d)
    BY <1>1
<1>3. PICK p \in Int, s \in 0 .. d - 1 : p = n \div d /\ s = n % d /\ n = d * p + s
    BY <1>2
<1>4. d * (p - q) = r - s
    BY <1>1, <1>3
<1>5. CASE p - q >= 1
    <2>1. d * (p - q) >= d
        BY <1>1, <1>5
    <2> QED BY <1>1, <1>4, <2>1
<1>6. CASE p - q <= -1
    <2>1. d * (p - q) <= -d
        BY <1>1, <1>6
    <2> QED BY <1>1, <1>4, <2>1
<1>7. CASE p - q = 0
    BY <1>1, <1>3, <1>4, <1>7
<1> QED BY <1>1, <1>3, <1>5, <1>6, <1>7

\* They do.
LEMMA QuotientSplits ==
    ASSUME NEW n \in Int, NEW d \in Nat \ {0}
    PROVE  Splits(n, d, n \div d, n % d)
BY DEF Splits

LEMMA NaturalQuotient ==
    ASSUME NEW n \in Nat, NEW d \in Nat \ {0}
    PROVE  n \div d \in Nat /\ n % d \in 0 .. d - 1 /\ n = d * (n \div d) + (n % d)
OBVIOUS

\* The recursive definition of TwoTo has the solution it means to have.
LEMMA TwoToDef ==
    /\ TwoTo \in [Nat -> Nat \ {0}] /\ TwoTo[0] = 1
    /\ \A k \in Nat : TwoTo[k + 1] = 2 * TwoTo[k]
<1> DEFINE D == Nat \ {0}
           f == [x \in D |-> 2 * x]
<1>1. f \in [D -> D] /\ 1 \in D
    OBVIOUS
<1>2. PICK g : Iteration(D, f, 1, g)
    <2> HIDE DEF f, D
    <2> QED BY <1>1, IterationExists
<1>3. \A n \in Nat : g[n] = IF n = 0 THEN 1 ELSE 2 * g[n - 1]
    <2> SUFFICES ASSUME NEW n \in Nat PROVE g[n] = IF n = 0 THEN 1 ELSE 2 * g[n - 1]
        OBVIOUS
    <2>1. CASE n = 0
        BY <1>2, <2>1 DEF Iteration
    <2>2. CASE n # 0
        <3>1. g[n] = f[g[n - 1]] /\ g[n - 1] \in D
            BY <1>2, <2>2 DEF Iteration
        <3> QED BY <2>2, <3>1
    <2> QED BY <2>1, <2>2
<1>4. g = [n \in Nat |-> IF n = 0 THEN 1 ELSE 2 * g[n - 1]]
    <2> HIDE DEF f, D
    <2> QED BY <1>2, <1>3 DEF Iteration
<1>5. TwoTo = [n \in Nat |-> IF n = 0 THEN 1 ELSE 2 * TwoTo[n - 1]]
    BY <1>4 DEF TwoTo
<1> DEFINE T == {n \in Nat : TwoTo[n] \notin D}
<1>6. T = {}
    <2> SUFFICES ASSUME T # {} PROVE FALSE
        OBVIOUS
    <2>1. PICK n \in T : \A k \in T : n <= k
        <3>1. T \subseteq Nat
            OBVIOUS
        <3> HIDE DEF T
        <3> QED BY <3>1, LeastNumber
    <2>2. TwoTo[n] = IF n = 0 THEN 1 ELSE 2 * TwoTo[n - 1]
        BY <1>5
    <2>3. n # 0 => TwoTo[n - 1] \in D
        BY <2>1
    <2> QED BY <2>1, <2>2, <2>3
<1>7. \A k \in Nat : TwoTo[k + 1] = 2 * TwoTo[k]
    BY <1>5
<1>8. TwoTo[0] = 1
    BY <1>5
<1>9. \A k \in Nat : TwoTo[k] \in Nat \ {0}
    BY <1>6
<1>10. TwoTo \in [Nat -> Nat \ {0}]
    <2> HIDE DEF T, D, f
    <2> QED BY <1>5, <1>9
<1> QED BY <1>7, <1>8, <1>10

\* Powers of two grow, and the smaller divide the larger.
LEMMA TwoToDivides ==
    ASSUME NEW i \in Nat, NEW j \in Nat, i <= j
    PROVE  \E q \in Nat \ {0} : TwoTo[j] = q * TwoTo[i]
<1> DEFINE Good(k) == \E q \in Nat \ {0} : TwoTo[k] = q * TwoTo[i]
           T == {k \in Nat : i <= k /\ ~Good(k)}
<1> SUFFICES ASSUME T # {} PROVE FALSE
    OBVIOUS
<1>1. PICK k \in T : \A l \in T : k <= l
    <2>1. T \subseteq Nat
        OBVIOUS
    <2> HIDE DEF T
    <2> QED BY <2>1, LeastNumber
<1>2. TwoTo[i] \in Nat
    BY TwoToDef
<1>3. k # i
    <2>1. TwoTo[i] = 1 * TwoTo[i] /\ 1 \in Nat \ {0}
        BY <1>2
    <2> QED BY <1>1, <2>1
<1>4. k - 1 \in Nat /\ Good(k - 1)
    <2> HIDE DEF Good
    <2>1. k \in Nat /\ i <= k /\ \A l \in Nat : i <= l /\ ~Good(l) => k <= l
        BY <1>1
    <2> QED BY <1>3, <2>1
<1>5. PICK q \in Nat \ {0} : TwoTo[k - 1] = q * TwoTo[i]
    BY <1>4
<1>6. TwoTo[k] = 2 * TwoTo[k - 1]
    BY <1>4, TwoToDef
<1>7. TwoTo[k] = (2 * q) * TwoTo[i] /\ 2 * q \in Nat \ {0}
    BY <1>2, <1>5, <1>6
<1>8. Good(k)
    BY <1>7
<1> QED BY <1>1, <1>8

LEMMA TwoToMonotone ==
    ASSUME NEW i \in Nat, NEW j \in Nat, i <= j
    PROVE  TwoTo[i] <= TwoTo[j]
<1>1. PICK q \in Nat \ {0} : TwoTo[j] = q * TwoTo[i]
    BY TwoToDivides
<1>2. TwoTo[i] \in Nat
    BY TwoToDef
<1> QED BY <1>1, <1>2

LEMMA TwoToLarge == \A n \in Nat : n < TwoTo[n]
<1> DEFINE T == {n \in Nat : ~(n < TwoTo[n])}
<1> SUFFICES ASSUME T # {} PROVE FALSE
    OBVIOUS
<1>1. PICK n \in T : \A k \in T : n <= k
    <2>1. T \subseteq Nat
        OBVIOUS
    <2> HIDE DEF T
    <2> QED BY <2>1, LeastNumber
<1>2. n # 0
    BY <1>1, TwoToDef
<1>3. n - 1 \in Nat /\ n - 1 < TwoTo[n - 1]
    BY <1>1, <1>2
<1>4. TwoTo[n] = 2 * TwoTo[n - 1] /\ TwoTo[n - 1] \in Nat
    BY <1>3, TwoToDef
<1> QED BY <1>1, <1>3, <1>4

\* A number without remainder is a multiple.
LEMMA Multiple ==
    ASSUME NEW n \in Nat, NEW b \in Nat \ {0}, n % b = 0
    PROVE  \E q \in Nat : n = q * b
<1>1. n \div b \in Nat /\ n = (n \div b) * b
    OBVIOUS
<1> QED BY <1>1

\* Powers of two multiply.
LEMMA TwoToSum ==
    ASSUME NEW i \in Nat, NEW j \in Nat
    PROVE  TwoTo[i + j] = TwoTo[i] * TwoTo[j]
<1> DEFINE Good(k) == TwoTo[i + k] = TwoTo[i] * TwoTo[k]
           T == {k \in Nat : ~Good(k)}
<1> SUFFICES ASSUME T # {} PROVE FALSE
    OBVIOUS
<1>1. PICK k \in T : \A l \in T : k <= l
    <2>1. T \subseteq Nat
        OBVIOUS
    <2> HIDE DEF T
    <2> QED BY <2>1, LeastNumber
<1>2. TwoTo[i] \in Nat
    BY TwoToDef
<1>3. k # 0
    <2>1. Good(0)
        BY <1>2, TwoToDef
    <2> QED BY <1>1, <2>1
<1>4. k - 1 \in Nat /\ Good(k - 1)
    <2> HIDE DEF Good
    <2> QED BY <1>1, <1>3
<1>5. TwoTo[k] = 2 * TwoTo[k - 1] /\ TwoTo[i + k] = 2 * TwoTo[i + k - 1] /\ TwoTo[k - 1] \in Nat
    BY <1>4, TwoToDef
<1>6. TwoTo[i + k - 1] = TwoTo[i] * TwoTo[k - 1]
    BY <1>4
<1>7. Good(k)
    BY <1>2, <1>5, <1>6
<1> QED BY <1>1, <1>7
=============================================================================
