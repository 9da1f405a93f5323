---------------------------- MODULE Words_proofs ----------------------------
(***************************************************************************)
(* Words are numbers: the set of the bit positions of a number in base two *)
(* stands for that number, and the operators of Words, which are formulas  *)
(* about bits, are the arithmetic of numbers modulo a power of two.        *)
(***************************************************************************)
EXTENDS Words, TLAPS, WellFoundedInduction

-----------------------------------------------------------------------------
\* Every set of naturals that is not empty has a least element.
LEMMA Least ==
    ASSUME NEW T \in SUBSET Nat, T # {}
    PROVE  \E k \in T : \A m \in T : k <= m
  <1>1. PICK k \in T : \A m \in T : ~(<<m, k>> \in OpToRel(<, Nat))
    <2>1. IsWellFoundedOn(OpToRel(<, Nat), Nat)
      BY NatLessThanWellFounded, Zenon
    <2> HIDE DEF OpToRel
    <2> QED  BY <2>1, WFMin, Zenon
  <1>2. \A m \in T : m < k => <<m, k>> \in OpToRel(<, Nat)
    BY DEF OpToRel
  <1>3. \A m \in T : ~(m < k)
    BY <1>1, <1>2, Zenon
  <1> QED  BY <1>3

\* Induction, for a set instead of a predicate.
LEMMA Induction ==
    ASSUME NEW S, 0 \in S, \A k \in Nat : k \in S => k + 1 \in S
    PROVE  Nat \subseteq S
  <1> SUFFICES ASSUME Nat \ S # {} PROVE FALSE
    OBVIOUS
  <1>1. PICK k \in Nat \ S : \A m \in Nat \ S : k <= m
    BY Least
  <1>2. k # 0 /\ k - 1 \in Nat /\ (k - 1) + 1 = k
    OBVIOUS
  <1>3. k - 1 \in S
    BY <1>1, <1>2
  <1> QED  BY <1>2, <1>3

-----------------------------------------------------------------------------
\* Quotient and remainder of an integer, as the standard modules define them.
LEMMA DivMod ==
    ASSUME NEW x \in Int, NEW m \in Nat \ {0}
    PROVE  /\ x = m * (x \div m) + (x % m)
           /\ x % m \in 0 .. m - 1
           /\ x \div m \in Int
  BY SMT

\* The same for naturals.
LEMMA DivModNat ==
    ASSUME NEW x \in Nat, NEW m \in Nat \ {0}
    PROVE  /\ x = m * (x \div m) + (x % m)
           /\ x % m \in 0 .. m - 1
           /\ x \div m \in Nat
  BY SMT

\* A quotient and a remainder in range determine each other.
LEMMA DivUnique ==
    ASSUME NEW m \in Nat \ {0}, NEW q \in Int, NEW r \in 0 .. m - 1
    PROVE  /\ (q * m + r) \div m = q
           /\ (q * m + r) % m = r
  <1> DEFINE n == q * m + r
             k == n \div m
  <1>1. n \in Int
    BY SMT
  <1>2. n = m * k + (n % m) /\ n % m \in 0 .. m - 1 /\ k \in Int
    BY <1>1, DivMod
  <1>3. ~(k < q)
    <2> SUFFICES ASSUME k < q PROVE FALSE
      OBVIOUS
    <2>1. k + 1 <= q
      BY <1>2
    <2>2. m * (k + 1) <= m * q
      BY <2>1, <1>2, SMT
    <2> QED BY <1>2, <2>2, SMT
  <1>4. ~(k > q)
    <2> SUFFICES ASSUME k > q PROVE FALSE
      OBVIOUS
    <2>1. q + 1 <= k
      BY <1>2
    <2>2. m * (q + 1) <= m * k
      BY <2>1, <1>2, SMT
    <2> QED BY <1>2, <2>2, SMT
  <1>5. k = q
    BY <1>2, <1>3, <1>4
  <1>6. n % m = r
    BY <1>2, <1>5, SMT
  <1> QED BY <1>5, <1>6

\* A multiple of the divisor moves the quotient and not the remainder.
LEMMA Shift ==
    ASSUME NEW x \in Int, NEW k \in Int, NEW m \in Nat \ {0}
    PROVE  /\ (x + k * m) \div m = x \div m + k
           /\ (x + k * m) % m = x % m
  <1> DEFINE q == x \div m
             r == x % m
  <1>1. x = m * q + r /\ r \in 0 .. m - 1 /\ q \in Int
    BY DivMod
  <1> HIDE DEF q, r
  <1>2. x + k * m = (q + k) * m + r
    BY <1>1, SMT
  <1>3. q + k \in Int
    BY <1>1
  <1>4. ((q + k) * m + r) \div m = q + k /\ ((q + k) * m + r) % m = r
    BY <1>1, <1>3, DivUnique
  <1> QED BY <1>2, <1>4 DEF q, r

\* Subtracting from a remainder is subtracting from the number.
LEMMA ModMinus ==
    ASSUME NEW x \in Int, NEW c \in Int, NEW m \in Nat \ {0}
    PROVE  ((x % m) - c) % m = (x - c) % m
  <1> DEFINE q == x \div m
             r == x % m
  <1>1. x = m * q + r /\ r \in Int /\ q \in Int
    BY DivMod
  <1> HIDE DEF q, r
  <1>2. x - c = (r - c) + q * m /\ r - c \in Int
    BY <1>1, SMT
  <1>3. ((r - c) + q * m) % m = (r - c) % m
    BY <1>1, <1>2, Shift
  <1> QED BY <1>2, <1>3 DEF r

\* Products of naturals are naturals, and of integers integers.
LEMMA Products == (\A x, y \in Nat : x * y \in Nat) /\ (\A x, y \in Int : x * y \in Int)
  BY SMT

-----------------------------------------------------------------------------
\* What makes such a recursive definition one: a sequence can be defined by
\* its first element and by what is done to an element to get the next.
LEMMA Recursion ==
    \A s, m \in Nat : \A d \in [Nat -> Nat] :
        \E f \in [Nat -> Nat] : f[0] = s /\ \A n \in Nat : f[n + 1] = m * f[n] + d[n]
  <1> SUFFICES ASSUME NEW s \in Nat, NEW m \in Nat, NEW d \in [Nat -> Nat]
               PROVE  \E f \in [Nat -> Nat] :
                         f[0] = s /\ \A n \in Nat : f[n + 1] = m * f[n] + d[n]
    OBVIOUS
  <1> DEFINE Prefix(g, n) ==
                 /\ g \in [0 .. n -> Nat] /\ g[0] = s
                 /\ \A i \in 0 .. n - 1 : g[i + 1] = m * g[i] + d[i]
             S == {n \in Nat : \E g : Prefix(g, n)}
  <1>1. \A n \in Nat : \E g : Prefix(g, n)
    <2>1. 0 \in S
      <3>1. Prefix([i \in 0 .. 0 |-> s], 0)
        OBVIOUS
      <3> QED  BY <3>1
    <2>2. ASSUME NEW n \in Nat, n \in S PROVE n + 1 \in S
      <3>1. PICK g : Prefix(g, n)
        BY <2>2
      <3> DEFINE next == m * g[n] + d[n]
                 h == [i \in 0 .. n + 1 |-> IF i = n + 1 THEN next ELSE g[i]]
      <3>2. next \in Nat
        <4>1. g[n] \in Nat /\ d[n] \in Nat
          BY <3>1
        <4>2. m * g[n] \in Nat
          BY <4>1
        <4> QED  BY <4>1, <4>2
      <3>3. /\ g \in [0 .. n -> Nat] /\ g[0] = s
            /\ \A i \in 0 .. n - 1 : g[i + 1] = m * g[i] + d[i]
        BY <3>1
      <3> HIDE DEF next
      <3>4. h \in [0 .. n + 1 -> Nat] /\ h[0] = s
        <4>1. \A i \in 0 .. n + 1 : i # n + 1 => i \in 0 .. n /\ g[i] \in Nat
          BY <3>3
        <4>2. \A i \in 0 .. n + 1 : h[i] \in Nat
          BY <4>1, <3>2
        <4>3. h = [i \in 0 .. n + 1 |-> h[i]]
          OBVIOUS
        <4>4. h[0] = s
          BY <3>3
        <4> HIDE DEF h
        <4> QED  BY <4>2, <4>3, <4>4
      <3>5. ASSUME NEW i \in 0 .. (n + 1) - 1 PROVE h[i + 1] = m * h[i] + d[i]
        <4>1. CASE i = n
          <5>1. h[i + 1] = next /\ h[i] = g[n]
            BY <4>1
          <5> QED  BY <5>1, <4>1 DEF next
        <4>2. CASE i < n
          <5>1. h[i + 1] = g[i + 1] /\ h[i] = g[i] /\ i \in 0 .. n - 1
            BY <4>2
          <5> QED  BY <5>1, <3>3
        <4> QED  BY <4>1, <4>2
      <3> HIDE DEF h
      <3>6. Prefix(h, n + 1)
        BY <3>4, <3>5
      <3>7. n + 1 \in Nat
        OBVIOUS
      <3> HIDE DEF Prefix
      <3> QED  BY <3>6, <3>7
    <2> HIDE DEF S
    <2>3. Nat \subseteq S
      BY <2>1, <2>2, Induction
    <2> QED  BY <2>3 DEF S
  <1>2. ASSUME NEW n \in Nat, NEW g, Prefix(g, n), NEW h, Prefix(h, n + 1)
        PROVE  \A i \in 0 .. n : g[i] = h[i]
    <2> DEFINE E == {i \in Nat : i <= n => g[i] = h[i]}
    <2>1. 0 \in E
      BY <1>2
    <2>2. ASSUME NEW i \in Nat, i \in E PROVE i + 1 \in E
      BY <1>2, <2>2
    <2> HIDE DEF E
    <2>3. Nat \subseteq E
      BY <2>1, <2>2, Induction
    <2> QED  BY <2>3 DEF E
  <1> DEFINE g(n) == CHOOSE h : Prefix(h, n)
             f == [n \in Nat |-> g(n)[n]]
  <1>3. \A n \in Nat : Prefix(g(n), n)
    <2> HIDE DEF Prefix
    <2> QED  BY <1>1
  <1>4. f \in [Nat -> Nat] /\ f[0] = s
    <2>1. \A n \in Nat : g(n)[n] \in Nat
      <3> HIDE DEF g
      <3> QED  BY <1>3
    <2>2. g(0)[0] = s
      <3> HIDE DEF g
      <3> QED  BY <1>3
    <2> HIDE DEF g
    <2> QED  BY <2>1, <2>2
  <1>5. ASSUME NEW n \in Nat PROVE f[n + 1] = m * f[n] + d[n]
    <2>0. n + 1 \in Nat
      OBVIOUS
    <2> HIDE DEF g
    <2>1. Prefix(g(n), n) /\ Prefix(g(n + 1), n + 1)
      <3> HIDE DEF Prefix
      <3> QED  BY <1>3, <2>0
    <2>2. g(n)[n] = g(n + 1)[n]
      <3>1. \A i \in 0 .. n : g(n)[i] = g(n + 1)[i]
        <4> HIDE DEF Prefix
        <4> QED  BY <1>2, <2>1
      <3> QED  BY <3>1
    <2>3. g(n + 1)[n + 1] = m * g(n + 1)[n] + d[n]
      BY <2>1
    <2> QED  BY <2>0, <2>2, <2>3
  <1> HIDE DEF f
  <1> QED  BY <1>4, <1>5

\* What Power and LowValue are, as functions on the naturals.
LEMMA PowerFacts ==
    /\ Power \in [Nat -> Nat \ {0}]
    /\ Power[0] = 1
    /\ \A n \in Nat : Power[n + 1] = 2 * Power[n]
  <1> DEFINE Defines(f) == f = [n \in Nat |-> IF n = 0 THEN 1 ELSE 2 * f[n - 1]]
  <1>0. PICK d \in [Nat -> Nat] : \A n \in Nat : d[n] = 0
    <2>1. [n \in Nat |-> 0] \in [Nat -> Nat]
      OBVIOUS
    <2> QED  BY <2>1
  <1>1. PICK f \in [Nat -> Nat] : f[0] = 1 /\ \A n \in Nat : f[n + 1] = 2 * f[n] + d[n]
    <2>1. 1 \in Nat /\ 2 \in Nat
      OBVIOUS
    <2> QED  BY <2>1, Recursion
  <1>2. Defines(f)
    <2>1. \A n \in Nat : f[n] = IF n = 0 THEN 1 ELSE 2 * f[n - 1]
      <3> SUFFICES ASSUME NEW n \in Nat, n # 0 PROVE f[n] = 2 * f[n - 1]
        BY <1>1
      <3>1. n - 1 \in Nat /\ (n - 1) + 1 = n
        OBVIOUS
      <3> QED  BY <1>0, <1>1, <3>1
    <2> QED  BY <2>1
  <1>3. Defines(Power)
    <2>1. Power = CHOOSE f_1 : Defines(f_1)
      BY DEF Power
    <2> HIDE DEF Defines
    <2> QED  BY <1>2, <2>1
  <1>4. \A n \in Nat : Power[n + 1] = 2 * Power[n]
    BY <1>3
  <1>5. Power[0] = 1
    BY <1>3
  <1> DEFINE S == {n \in Nat : Power[n] \in Nat \ {0}}
  <1>6. Nat \subseteq S
    <2>1. 0 \in S
      BY <1>5
    <2>2. ASSUME NEW n \in Nat, n \in S PROVE n + 1 \in S
      BY <2>2, <1>4
    <2> HIDE DEF S
    <2> QED  BY <2>1, <2>2, Induction
  <1>7. DOMAIN Power = Nat /\ Power = [n \in Nat |-> Power[n]]
    BY <1>3
  <1> QED  BY <1>4, <1>5, <1>6, <1>7

\* The number of the low bits grows bit by bit and stays below their power.
LEMMA LowValueFacts ==
    ASSUME NEW w
    PROVE  /\ LowValue(w) \in [Nat -> Nat]
           /\ LowValue(w)[0] = 0
           /\ \A k \in Nat : LowValue(w)[k + 1]
                                = LowValue(w)[k] + (IF k \in w THEN Power[k] ELSE 0)
           /\ \A k \in Nat : LowValue(w)[k] < Power[k]
  <1> DEFINE d == [k \in Nat |-> IF k \in w THEN Power[k] ELSE 0]
             Defines(f) == f = [k \in Nat |->
                    IF k = 0 THEN 0
                    ELSE f[k - 1] + (IF k - 1 \in w THEN Power[k - 1] ELSE 0)]
  <1>0. d \in [Nat -> Nat] /\ \A k \in Nat : d[k] = IF k \in w THEN Power[k] ELSE 0
    BY PowerFacts
  <1>1. PICK f \in [Nat -> Nat] : f[0] = 0 /\ \A n \in Nat : f[n + 1] = 1 * f[n] + d[n]
    <2>1. 0 \in Nat /\ 1 \in Nat
      OBVIOUS
    <2> HIDE DEF d
    <2> QED  BY <1>0, <2>1, Recursion, Zenon
  <1> HIDE DEF d
  <1>2. Defines(f)
    <2>1. \A k \in Nat : f[k] = IF k = 0 THEN 0
                                ELSE f[k - 1] + (IF k - 1 \in w THEN Power[k - 1] ELSE 0)
      <3> SUFFICES ASSUME NEW k \in Nat, k # 0
                   PROVE  f[k] = f[k - 1] + (IF k - 1 \in w THEN Power[k - 1] ELSE 0)
        BY <1>1
      <3>1. k - 1 \in Nat /\ (k - 1) + 1 = k
        OBVIOUS
      <3>2. f[k] = 1 * f[k - 1] + d[k - 1] /\ f[k - 1] \in Nat
        BY <1>1, <3>1
      <3> QED  BY <1>0, <3>1, <3>2
    <2> QED  BY <2>1
  <1>3. Defines(LowValue(w))
    <2>1. LowValue(w) = CHOOSE f_1 : Defines(f_1)
      BY DEF LowValue
    <2> HIDE DEF Defines
    <2> QED  BY <1>2, <2>1
  <1> DEFINE v == LowValue(w)
  <1> HIDE DEF v
  <1>4. v[0] = 0 /\ \A k \in Nat : v[k + 1] = v[k] + (IF k \in w THEN Power[k] ELSE 0)
    BY <1>3 DEF v
  <1> DEFINE S == {k \in Nat : v[k] \in Nat /\ v[k] < Power[k]}
  <1>5. Nat \subseteq S
    <2>1. 0 \in S
      BY <1>4, PowerFacts
    <2>2. ASSUME NEW k \in Nat, k \in S PROVE k + 1 \in S
      <3>1. Power[k] \in Nat /\ Power[k + 1] = 2 * Power[k]
        BY PowerFacts
      <3> QED  BY <1>4, <2>2, <3>1
    <2> HIDE DEF S
    <2> QED  BY <2>1, <2>2, Induction
  <1>6. v = [k \in Nat |-> v[k]]
    BY <1>3 DEF v
  <1> QED  BY <1>4, <1>5, <1>6 DEF v

\* One bit more.
LEMMA LowValueNext ==
    ASSUME NEW w, NEW k \in Nat
    PROVE  /\ LowValue(w)[k] \in Nat /\ LowValue(w)[k] < Power[k]
           /\ k \in w => LowValue(w)[k + 1] = LowValue(w)[k] + Power[k]
           /\ k \notin w => LowValue(w)[k + 1] = LowValue(w)[k]
           /\ Power[k] \in Nat /\ Power[k + 1] = 2 * Power[k]
  <1>1. LowValue(w)[k + 1] = LowValue(w)[k] + (IF k \in w THEN Power[k] ELSE 0)
    BY LowValueFacts
  <1>2. LowValue(w)[k] \in Nat /\ LowValue(w)[k] < Power[k]
    BY LowValueFacts
  <1>3. Power[k] \in Nat /\ Power[k + 1] = 2 * Power[k]
    BY PowerFacts
  <1>4. CASE k \in w
    BY <1>1, <1>2, <1>3, <1>4
  <1>5. CASE k \notin w
    <2>1. LowValue(w)[k + 1] = LowValue(w)[k] + 0
      BY <1>1, <1>5
    <2> QED  BY <2>1, <1>2, <1>3, <1>5
  <1> QED  BY <1>4, <1>5

\* Powers multiply, and they grow.
LEMMA PowerSum == \A m, n \in Nat : Power[m + n] = Power[m] * Power[n]
  <1> SUFFICES ASSUME NEW m \in Nat PROVE \A n \in Nat : Power[m + n] = Power[m] * Power[n]
    OBVIOUS
  <1> DEFINE S == {n \in Nat : Power[m + n] = Power[m] * Power[n]}
  <1>1. 0 \in S
    <2>1. Power[m] \in Nat /\ Power[0] = 1 /\ m + 0 = m
      BY PowerFacts
    <2> QED  BY <2>1
  <1>2. ASSUME NEW n \in Nat, n \in S PROVE n + 1 \in S
    <2>1. /\ Power[m + (n + 1)] = 2 * Power[m + n] /\ Power[n + 1] = 2 * Power[n]
          /\ Power[m] \in Nat /\ Power[n] \in Nat
      <3>1. m + (n + 1) = (m + n) + 1 /\ m + n \in Nat
        OBVIOUS
      <3> QED  BY <3>1, PowerFacts
    <2>2. Power[m + n] = Power[m] * Power[n]
      BY <1>2
    <2>3. \A x, y \in Nat : 2 * (x * y) = x * (2 * y)
      BY SMT
    <2> QED  BY <2>1, <2>2, <2>3
  <1> HIDE DEF S
  <1>3. Nat \subseteq S
    BY <1>1, <1>2, Induction
  <1> QED  BY <1>3 DEF S

\* Powers grow, and faster than their exponents.
LEMMA PowerGrows ==
    /\ \A m, n \in Nat : m < n => Power[m] < Power[n]
    /\ \A n \in Nat : n < Power[n]
  <1>1. ASSUME NEW m \in Nat, NEW n \in Nat, m < n PROVE Power[m] < Power[n]
    <2> DEFINE S == {d \in Nat : Power[m] < Power[m + 1 + d]}
    <2>1. 0 \in S
      <3>1. m + 1 + 0 = m + 1 /\ Power[m] \in Nat \ {0} /\ Power[m + 1] = 2 * Power[m]
        BY PowerFacts
      <3> QED  BY <3>1
    <2>2. ASSUME NEW d \in Nat, d \in S PROVE d + 1 \in S
      <3>1. m + 1 + (d + 1) = (m + 1 + d) + 1 /\ m + 1 + d \in Nat
        OBVIOUS
      <3>2. Power[m + 1 + (d + 1)] = 2 * Power[m + 1 + d] /\ Power[m + 1 + d] \in Nat
        BY <3>1, PowerFacts
      <3> QED  BY <2>2, <3>2, PowerFacts
    <2> HIDE DEF S
    <2>3. n - m - 1 \in S
      BY <1>1, <2>1, <2>2, Induction
    <2>4. \A d \in S : Power[m] < Power[m + 1 + d]
      BY DEF S
    <2>5. m + 1 + (n - m - 1) = n
      OBVIOUS
    <2> QED  BY <2>3, <2>4, <2>5
  <1> DEFINE S == {n \in Nat : n < Power[n]}
  <1>2. Nat \subseteq S
    <2>1. 0 \in S
      BY PowerFacts
    <2>2. ASSUME NEW n \in Nat, n \in S PROVE n + 1 \in S
      BY <2>2, PowerFacts
    <2> HIDE DEF S
    <2> QED  BY <2>1, <2>2, Induction
  <1> QED  BY <1>1, <1>2

-----------------------------------------------------------------------------
\* The value of the low bits depends on those bits only.
LEMMA SameLow ==
    ASSUME NEW u, NEW w, NEW k \in Nat, \A i \in 0 .. k - 1 : i \in u <=> i \in w
    PROVE  LowValue(u)[k] = LowValue(w)[k]
  <1> DEFINE S == {j \in Nat : j <= k => LowValue(u)[j] = LowValue(w)[j]}
  <1>1. 0 \in S
    BY LowValueFacts
  <1>2. ASSUME NEW j \in Nat, j \in S PROVE j + 1 \in S
    <2> SUFFICES ASSUME j + 1 <= k PROVE LowValue(u)[j + 1] = LowValue(w)[j + 1]
      OBVIOUS
    <2>1. (j \in u <=> j \in w) /\ LowValue(u)[j] = LowValue(w)[j]
      BY <1>2
    <2>2. CASE j \in u
      BY <2>1, <2>2, LowValueNext
    <2>3. CASE j \notin u
      BY <2>1, <2>3, LowValueNext
    <2> QED  BY <2>2, <2>3
  <1> HIDE DEF S
  <1>3. Nat \subseteq S
    BY <1>1, <1>2, Induction
  <1> QED  BY <1>3 DEF S

\* A number falls into its s low bits and the rest, shifted down.
LEMMA SplitAt ==
    ASSUME NEW w, NEW v, NEW s \in Nat, NEW n \in Nat,
           \A i \in 0 .. n - 1 : i \in v <=> i + s \in w
    PROVE  LowValue(w)[s + n] = LowValue(w)[s] + Power[s] * LowValue(v)[n]
  <1> DEFINE S == {k \in Nat : k <= n =>
                      LowValue(w)[s + k] = LowValue(w)[s] + Power[s] * LowValue(v)[k]}
  <1>1. 0 \in S
    <2>1. LowValue(v)[0] = 0 /\ Power[s] \in Nat /\ LowValue(w)[s] \in Nat /\ s + 0 = s
      BY LowValueFacts, PowerFacts
    <2> QED  BY <2>1
  <1>2. ASSUME NEW k \in Nat, k \in S PROVE k + 1 \in S
    <2> SUFFICES ASSUME k + 1 <= n
                 PROVE  LowValue(w)[s + (k + 1)]
                           = LowValue(w)[s] + Power[s] * LowValue(v)[k + 1]
      OBVIOUS
    <2>1. (k \in v <=> s + k \in w) /\ s + (k + 1) = (s + k) + 1 /\ s + k \in Nat
      <3>1. k \in 0 .. n - 1 /\ k + s = s + k
        OBVIOUS
      <3> QED  BY <3>1
    <2>2. LowValue(w)[s + k] = LowValue(w)[s] + Power[s] * LowValue(v)[k]
      BY <1>2
    <2>3. Power[s + k] = Power[s] * Power[k]
      BY PowerSum
    <2> DEFINE x == LowValue(w)[s]
               y == LowValue(v)[k]
               p == Power[s]
               q == Power[k]
    <2>4. x \in Nat /\ y \in Nat /\ p \in Nat /\ q \in Nat
      BY LowValueFacts, PowerFacts
    <2>5. CASE k \in v
      <3>1. LowValue(w)[s + (k + 1)] = (x + p * y) + p * q /\ LowValue(v)[k + 1] = y + q
        BY <2>1, <2>2, <2>3, <2>5, LowValueNext
      <3> HIDE DEF x, y, p, q
      <3>2. (x + p * y) + p * q = x + p * (y + q)
        BY <2>4, SMT
      <3> QED  BY <3>1, <3>2 DEF x, p
    <2>6. CASE k \notin v
      BY <2>1, <2>2, <2>6, LowValueNext
    <2> QED  BY <2>5, <2>6
  <1> HIDE DEF S
  <1>3. Nat \subseteq S
    BY <1>1, <1>2, Induction
  <1> QED  BY <1>3 DEF S

\* The empty word is zero.
LEMMA EmptyIsZero == \A k \in Nat : LowValue({})[k] = 0
  <1> DEFINE S == {k \in Nat : LowValue({})[k] = 0}
  <1>1. 0 \in S
    BY LowValueFacts
  <1>2. ASSUME NEW k \in Nat, k \in S PROVE k + 1 \in S
    BY <1>2, LowValueNext
  <1> HIDE DEF S
  <1>3. Nat \subseteq S
    BY <1>1, <1>2, Induction
  <1> QED  BY <1>3 DEF S

\* Positions above a word's highest bit add nothing, a run of ones all it can.
LEMMA ZerosAbove ==
    ASSUME NEW w, NEW m \in Nat, NEW n \in Nat, m <= n, \A i \in m .. n - 1 : i \notin w
    PROVE  LowValue(w)[n] = LowValue(w)[m]
  <1>1. n - m \in Nat /\ m + (n - m) = n
    OBVIOUS
  <1>2. \A i \in 0 .. (n - m) - 1 : i \in {} <=> i + m \in w
    OBVIOUS
  <1>3. LowValue(w)[m + (n - m)] = LowValue(w)[m] + Power[m] * LowValue({})[n - m]
    BY <1>1, <1>2, SplitAt
  <1>4. LowValue({})[n - m] = 0
    BY <1>1, EmptyIsZero
  <1>5. LowValue(w)[m] \in Nat /\ Power[m] \in Nat
    BY LowValueFacts, PowerFacts
  <1> QED  BY <1>1, <1>3, <1>4, <1>5

\* High bits that are all one fill the number up to the power of the width.
LEMMA OnesAbove ==
    ASSUME NEW w, NEW m \in Nat, NEW n \in Nat, m <= n, m .. n - 1 \subseteq w
    PROVE  LowValue(w)[n] = LowValue(w)[m] + Power[n] - Power[m]
  <1> DEFINE S == {d \in Nat : m + d <= n =>
                      LowValue(w)[m + d] = LowValue(w)[m] + Power[m + d] - Power[m]}
  <1>1. 0 \in S
    <2>1. m + 0 = m /\ LowValue(w)[m] \in Nat /\ Power[m] \in Nat
      BY LowValueFacts, PowerFacts
    <2> QED  BY <2>1
  <1>2. ASSUME NEW d \in Nat, d \in S PROVE d + 1 \in S
    <2> SUFFICES ASSUME m + (d + 1) <= n
                 PROVE  LowValue(w)[m + (d + 1)] = LowValue(w)[m] + Power[m + (d + 1)] - Power[m]
      OBVIOUS
    <2>1. m + d \in w /\ m + d \in Nat /\ m + (d + 1) = (m + d) + 1
      OBVIOUS
    <2>2. /\ LowValue(w)[(m + d) + 1] = LowValue(w)[m + d] + Power[m + d]
          /\ Power[(m + d) + 1] = 2 * Power[m + d] /\ Power[m + d] \in Nat
          /\ LowValue(w)[m] \in Nat /\ Power[m] \in Nat
      BY <2>1, LowValueNext
    <2>3. LowValue(w)[m + d] = LowValue(w)[m] + Power[m + d] - Power[m]
      BY <1>2
    <2> QED  BY <2>1, <2>2, <2>3
  <1> HIDE DEF S
  <1>3. n - m \in S
    BY <1>1, <1>2, Induction
  <1>4. m + (n - m) = n
    OBVIOUS
  <1> QED  BY <1>3, <1>4 DEF S

\* Positions moved up multiply.
LEMMA MovedUp ==
    ASSUME NEW w, NEW v, NEW s \in Nat, NEW n \in Nat,
           \A i \in 0 .. s - 1 : i \notin v, \A i \in 0 .. n - 1 : i + s \in v <=> i \in w
    PROVE  LowValue(v)[s + n] = Power[s] * LowValue(w)[n]
  <1>1. \A i \in 0 .. n - 1 : i \in w <=> i + s \in v
    OBVIOUS
  <1>2. LowValue(v)[s + n] = LowValue(v)[s] + Power[s] * LowValue(w)[n]
    BY <1>1, SplitAt
  <1>3. LowValue(v)[s] = LowValue(v)[0] /\ LowValue(v)[0] = 0
    BY ZerosAbove, LowValueFacts
  <1>4. Power[s] * LowValue(w)[n] \in Nat
    <2>1. Power[s] \in Nat /\ LowValue(w)[n] \in Nat
      BY LowValueFacts, PowerFacts
    <2> QED  BY <2>1, Products
  <1> QED  BY <1>2, <1>3, <1>4

-----------------------------------------------------------------------------
\* The bits of a number are what division by the powers of two leaves.
LEMMA LowestBit ==
    ASSUME NEW w, NEW k \in Nat \ {0}
    PROVE  LowValue(w)[k] % 2 = (IF 0 \in w THEN 1 ELSE 0)
  <1> DEFINE v == {i \in Nat : i + 1 \in w}
             q == LowValue(v)[k - 1]
             r == LowValue(w)[1]
  <1>1. k - 1 \in Nat /\ 1 + (k - 1) = k /\ \A i \in 0 .. (k - 1) - 1 : i \in v <=> i + 1 \in w
    OBVIOUS
  <1> HIDE DEF v
  <1>2. LowValue(w)[1 + (k - 1)] = r + Power[1] * q
    BY <1>1, SplitAt
  <1>3. LowValue(w)[0] = 0 /\ Power[0] = 1 /\ 0 + 1 = 1
    BY LowValueFacts, PowerFacts
  <1>4. Power[1] = 2 /\ r = (IF 0 \in w THEN 1 ELSE 0)
    <2>1. Power[0 + 1] = 2 * Power[0]
      BY PowerFacts
    <2>2. CASE 0 \in w
      <3>1. LowValue(w)[0 + 1] = LowValue(w)[0] + Power[0]
        BY <2>2, LowValueNext
      <3> QED  BY <1>3, <2>1, <2>2, <3>1
    <2>3. CASE 0 \notin w
      <3>1. LowValue(w)[0 + 1] = LowValue(w)[0]
        BY <2>3, LowValueNext
      <3> QED  BY <1>3, <2>1, <2>3, <3>1
    <2> QED  BY <2>2, <2>3
  <1>5. q \in Int /\ r \in 0 .. 2 - 1
    BY <1>1, <1>4, LowValueFacts
  <1> HIDE DEF q, r
  <1>6. (q * 2 + r) % 2 = r
    BY <1>5, DivUnique
  <1>7. LowValue(w)[k] = q * 2 + r
    BY <1>1, <1>2, <1>4, <1>5
  <1> QED  BY <1>4, <1>6, <1>7

\* The bits of a number are the word's: dividing by a power moves a bit to the bottom.
LEMMA BitOfValue ==
    ASSUME NEW w, NEW k \in Nat, NEW i \in 0 .. k - 1
    PROVE  (LowValue(w)[k] \div Power[i]) % 2 = 1 <=> i \in w
  <1> DEFINE v == {j \in Nat : j + i \in w}
             q == LowValue(v)[k - i]
             r == LowValue(w)[i]
             p == Power[i]
  <1>1. /\ i \in Nat /\ k - i \in Nat \ {0} /\ i + (k - i) = k
        /\ \A j \in 0 .. (k - i) - 1 : j \in v <=> j + i \in w
        /\ 0 \in v <=> i \in w
    OBVIOUS
  <1> HIDE DEF v
  <1>2. LowValue(w)[i + (k - i)] = r + p * q
    BY <1>1, SplitAt
  <1>3. q \in Nat /\ r \in Nat /\ p \in Nat \ {0} /\ r < p
    BY <1>1, LowValueFacts, PowerFacts
  <1>4. q % 2 = (IF 0 \in v THEN 1 ELSE 0)
    BY <1>1, LowestBit
  <1> HIDE DEF q, r, p
  <1>5. (q * p + r) \div p = q
    BY <1>3, DivUnique
  <1>6. q * p + r = r + p * q
    BY <1>3, SMT
  <1> QED  BY <1>1, <1>2, <1>4, <1>5, <1>6 DEF p

\* A number is the value of its bits.
LEMMA NumberOfBits ==
    ASSUME NEW x \in Nat, NEW w, NEW n \in Nat,
           \A i \in 0 .. n - 1 : i \in w <=> (x \div Power[i]) % 2 = 1
    PROVE  LowValue(w)[n] = x % Power[n]
  <1> DEFINE S == {k \in Nat : k <= n => LowValue(w)[k] = x % Power[k]}
  <1>1. 0 \in S
    <2>1. LowValue(w)[0] = 0 /\ Power[0] = 1 /\ x % 1 = 0
      BY LowValueFacts, PowerFacts
    <2> QED  BY <2>1
  <1>2. ASSUME NEW k \in Nat, k \in S PROVE k + 1 \in S
    <2> SUFFICES ASSUME k + 1 <= n PROVE LowValue(w)[k + 1] = x % Power[k + 1]
      OBVIOUS
    <2> DEFINE p == Power[k]
               q == x \div p
               b == q % 2
               h == q \div 2
    <2>1. p \in Nat \ {0} /\ Power[k + 1] = 2 * p /\ LowValue(w)[k] = x % p
      BY <1>2, PowerFacts
    <2>2. k \in w <=> b = 1
      OBVIOUS
    <2> HIDE DEF p
    <2>3. x = p * q + (x % p) /\ x % p \in 0 .. p - 1 /\ q \in Nat
      BY <2>1, DivModNat
    <2> HIDE DEF q
    <2>4. q = 2 * h + b /\ b \in 0 .. 2 - 1 /\ h \in Nat
      BY <2>3, DivModNat
    <2> HIDE DEF b, h
    <2> DEFINE r == b * p + (x % p)
    <2>5. r \in 0 .. 2 * p - 1 /\ h \in Int /\ 2 * p \in Nat \ {0} /\ r = (IF b = 1 THEN p ELSE 0) + (x % p)
      <3>1. b = 0 \/ b = 1
        BY <2>4
      <3> QED  BY <3>1, <2>1, <2>3, <2>4
    <2>6. x = h * (2 * p) + r
      <3>1. p * (2 * h + b) + (x % p) = h * (2 * p) + (b * p + (x % p))
        BY <2>1, <2>3, <2>4, SMT
      <3> QED  BY <2>3, <2>4, <3>1
    <2> HIDE DEF r
    <2>7. x % (2 * p) = r
      <3>1. (h * (2 * p) + r) % (2 * p) = r
        BY <2>5, DivUnique
      <3> QED  BY <2>6, <3>1
    <2>8. CASE k \in w
      BY <2>1, <2>2, <2>5, <2>7, <2>8, LowValueNext DEF p
    <2>9. CASE k \notin w
      BY <2>1, <2>2, <2>3, <2>5, <2>7, <2>9, LowValueNext
    <2> QED  BY <2>8, <2>9
  <1> HIDE DEF S
  <1>3. n \in S
    BY <1>1, <1>2, Induction
  <1> QED  BY <1>3 DEF S

-----------------------------------------------------------------------------
\* A carry into a position comes from the position below.
LEMMA CarryNext ==
    ASSUME NEW a \in SUBSET Nat, NEW b \in SUBSET Nat, NEW k \in Nat
    PROVE  /\ ~Carry(a, b, 0)
           /\ Carry(a, b, k + 1) <=> \/ k \in a /\ k \in b
                                     \/ (k \in a \/ k \in b) /\ Carry(a, b, k)
  <1>1. ~Carry(a, b, 0)
    BY DEF Carry
  <1>2. ASSUME k \in a, k \in b PROVE Carry(a, b, k + 1)
    <2>1. k \in a \cap b /\ k < k + 1 /\ (k + 1) .. ((k + 1) - 1) = {}
      BY <1>2
    <2> QED  BY <2>1 DEF Carry
  <1>3. ASSUME k \in a \/ k \in b, Carry(a, b, k) PROVE Carry(a, b, k + 1)
    <2>1. PICK j \in a \cap b : j < k /\ (j + 1) .. (k - 1) \subseteq a \cup b
      BY <1>3 DEF Carry
    <2>2. j < k + 1 /\ (j + 1) .. ((k + 1) - 1) \subseteq a \cup b
      BY <2>1, <1>3
    <2> QED  BY <2>2 DEF Carry
  <1>4. ASSUME Carry(a, b, k + 1), ~(k \in a /\ k \in b)
        PROVE  (k \in a \/ k \in b) /\ Carry(a, b, k)
    <2>1. PICK j \in a \cap b : j < k + 1 /\ (j + 1) .. ((k + 1) - 1) \subseteq a \cup b
      BY <1>4 DEF Carry
    <2>2. j < k
      BY <2>1, <1>4
    <2>3. k \in (j + 1) .. ((k + 1) - 1) /\ (j + 1) .. (k - 1) \subseteq (j + 1) .. ((k + 1) - 1)
      BY <2>2
    <2> QED  BY <2>1, <2>2, <2>3 DEF Carry
  <1> QED  BY <1>1, <1>2, <1>3, <1>4

\* And so does a borrow.
LEMMA BorrowNext ==
    ASSUME NEW a \in SUBSET Nat, NEW b \in SUBSET Nat, NEW k \in Nat
    PROVE  /\ ~Borrow(a, b, 0)
           /\ Borrow(a, b, k + 1) <=> \/ k \in b /\ k \notin a
                                      \/ ~(k \in a /\ k \notin b) /\ Borrow(a, b, k)
  <1>1. ~Borrow(a, b, 0)
    BY DEF Borrow
  <1>2. ASSUME k \in b, k \notin a PROVE Borrow(a, b, k + 1)
    <2>1. k \in b \ a /\ k < k + 1 /\ (k + 1) .. ((k + 1) - 1) = {}
      BY <1>2
    <2> QED  BY <2>1 DEF Borrow
  <1>3. ASSUME ~(k \in a /\ k \notin b), Borrow(a, b, k) PROVE Borrow(a, b, k + 1)
    <2>1. PICK j \in b \ a : j < k /\ (j + 1) .. (k - 1) \cap (a \ b) = {}
      BY <1>3 DEF Borrow
    <2>2. j < k + 1 /\ (j + 1) .. ((k + 1) - 1) \cap (a \ b) = {}
      BY <2>1, <1>3
    <2> QED  BY <2>2 DEF Borrow
  <1>4. ASSUME Borrow(a, b, k + 1), ~(k \in b /\ k \notin a)
        PROVE  ~(k \in a /\ k \notin b) /\ Borrow(a, b, k)
    <2>1. PICK j \in b \ a : j < k + 1 /\ (j + 1) .. ((k + 1) - 1) \cap (a \ b) = {}
      BY <1>4 DEF Borrow
    <2>2. j < k
      BY <2>1, <1>4
    <2>3. k \in (j + 1) .. ((k + 1) - 1) /\ (j + 1) .. (k - 1) \subseteq (j + 1) .. ((k + 1) - 1)
      BY <2>2
    <2> QED  BY <2>1, <2>2, <2>3 DEF Borrow
  <1> QED  BY <1>1, <1>2, <1>3, <1>4

\* The k low bits of a sum, with the carry out of them, are the sum of the
\* k low bits: what Plus says of the carries is addition.
LEMMA BitOfSum ==
    ASSUME NEW a, NEW b, NEW k \in Bits
    PROVE  k \in Plus(a, b) <=> ((k \in a <=> k \in b) <=> Carry(a, b, k))
  <1>1. Carry(a, b, k) \in BOOLEAN
    BY Zenon DEF Carry
  <1> QED  BY <1>1 DEF Plus

\* A sum is the sum of the numbers, less a power of two where a carry leaves.
LEMMA SumOfLowBits ==
    ASSUME NEW a \in Word, NEW b \in Word
    PROVE  \A k \in 0 .. XLEN :
              LET s == LowValue(Plus(a, b))[k]
                  t == LowValue(a)[k] + LowValue(b)[k]
              IN  /\ Carry(a, b, k) => s + Power[k] = t
                  /\ ~Carry(a, b, k) => s = t
  <1> DEFINE s == LowValue(Plus(a, b))
             x == LowValue(a)
             y == LowValue(b)
             C == {k \in Nat : Carry(a, b, k)}
             Holds(k) == /\ k \in C => s[k] + Power[k] = x[k] + y[k]
                         /\ k \notin C => s[k] = x[k] + y[k]
             S == {k \in Nat : k <= XLEN => Holds(k)}
  <1>0. a \in SUBSET Nat /\ b \in SUBSET Nat /\ XLEN \in Nat
    BY WidthAssumption DEF Word, Bits
  <1>1. 0 \in S
    <2>1. ~Carry(a, b, 0) /\ s[0] = 0 /\ x[0] = 0 /\ y[0] = 0
      BY <1>0, CarryNext, LowValueFacts
    <2> QED  BY <2>1
  <1>2. ASSUME NEW k \in Nat, k \in S PROVE k + 1 \in S
    <2> SUFFICES ASSUME k + 1 <= XLEN PROVE Holds(k + 1)
      OBVIOUS
    <2>1. k \in Bits /\ Holds(k)
      BY <1>0, <1>2 DEF Bits
    <2>2. k \in Plus(a, b) <=> ((k \in a <=> k \in b) <=> k \in C)
      BY <2>1, BitOfSum
    <2>3. /\ k \in Plus(a, b) => s[k + 1] = s[k] + Power[k]
          /\ k \notin Plus(a, b) => s[k + 1] = s[k]
          /\ k \in a => x[k + 1] = x[k] + Power[k]
          /\ k \notin a => x[k + 1] = x[k]
          /\ k \in b => y[k + 1] = y[k] + Power[k]
          /\ k \notin b => y[k + 1] = y[k]
          /\ s[k] \in Nat /\ x[k] \in Nat /\ y[k] \in Nat
      BY LowValueNext
    <2>4. Power[k] \in Nat /\ Power[k + 1] = 2 * Power[k]
      BY PowerFacts
    <2>5. k + 1 \in C <=> (k \in a /\ k \in b) \/ ((k \in a \/ k \in b) /\ k \in C)
      BY <1>0, CarryNext
    <2> HIDE DEF s, x, y, S, C
    <2>6. CASE k \in a /\ k \in b
      <3>1. (k \in Plus(a, b) <=> k \in C) /\ (k + 1 \in C)
        BY <2>2, <2>5, <2>6
      <3> QED  BY <2>1, <2>3, <2>4, <2>6, <3>1
    <2>7. CASE k \in a /\ k \notin b
      <3>1. (k \in Plus(a, b) <=> k \notin C) /\ (k + 1 \in C <=> k \in C)
        BY <2>2, <2>5, <2>7
      <3> QED  BY <2>1, <2>3, <2>4, <2>7, <3>1
    <2>8. CASE k \notin a /\ k \in b
      <3>1. (k \in Plus(a, b) <=> k \notin C) /\ (k + 1 \in C <=> k \in C)
        BY <2>2, <2>5, <2>8
      <3> QED  BY <2>1, <2>3, <2>4, <2>8, <3>1
    <2>9. CASE k \notin a /\ k \notin b
      <3>1. (k \in Plus(a, b) <=> k \in C) /\ (k + 1 \notin C)
        BY <2>2, <2>5, <2>9
      <3> QED  BY <2>1, <2>3, <2>4, <2>9, <3>1
    <2> QED  BY <2>6, <2>7, <2>8, <2>9
  <1> HIDE DEF S
  <1>3. Nat \subseteq S
    BY <1>1, <1>2, Induction
  <1> QED  BY <1>0, <1>3 DEF S

\* Subtraction likewise.
LEMMA BitOfDifference ==
    ASSUME NEW a, NEW b, NEW k \in Bits
    PROVE  k \in Minus(a, b) <=> ((k \in a <=> k \in b) <=> Borrow(a, b, k))
  <1>1. Borrow(a, b, k) \in BOOLEAN
    BY Zenon DEF Borrow
  <1> QED  BY <1>1 DEF Minus

\* A difference, likewise, more a power of two where a borrow is taken.
LEMMA DifferenceOfLowBits ==
    ASSUME NEW a \in Word, NEW b \in Word
    PROVE  \A k \in 0 .. XLEN :
              LET s == LowValue(Minus(a, b))[k]
                  t == LowValue(a)[k] - LowValue(b)[k]
              IN  /\ Borrow(a, b, k) => s - Power[k] = t
                  /\ ~Borrow(a, b, k) => s = t
  <1> DEFINE s == LowValue(Minus(a, b))
             x == LowValue(a)
             y == LowValue(b)
             C == {k \in Nat : Borrow(a, b, k)}
             Holds(k) == /\ k \in C => s[k] - Power[k] = x[k] - y[k]
                         /\ k \notin C => s[k] = x[k] - y[k]
             S == {k \in Nat : k <= XLEN => Holds(k)}
  <1>0. a \in SUBSET Nat /\ b \in SUBSET Nat /\ XLEN \in Nat
    BY WidthAssumption DEF Word, Bits
  <1>1. 0 \in S
    <2>1. ~Borrow(a, b, 0) /\ s[0] = 0 /\ x[0] = 0 /\ y[0] = 0
      BY <1>0, BorrowNext, LowValueFacts
    <2> QED  BY <2>1
  <1>2. ASSUME NEW k \in Nat, k \in S PROVE k + 1 \in S
    <2> SUFFICES ASSUME k + 1 <= XLEN PROVE Holds(k + 1)
      OBVIOUS
    <2>1. k \in Bits /\ Holds(k)
      BY <1>0, <1>2 DEF Bits
    <2>2. k \in Minus(a, b) <=> ((k \in a <=> k \in b) <=> k \in C)
      BY <2>1, BitOfDifference
    <2>3. /\ k \in Minus(a, b) => s[k + 1] = s[k] + Power[k]
          /\ k \notin Minus(a, b) => s[k + 1] = s[k]
          /\ k \in a => x[k + 1] = x[k] + Power[k]
          /\ k \notin a => x[k + 1] = x[k]
          /\ k \in b => y[k + 1] = y[k] + Power[k]
          /\ k \notin b => y[k + 1] = y[k]
          /\ s[k] \in Nat /\ x[k] \in Nat /\ y[k] \in Nat
      BY LowValueNext
    <2>4. Power[k] \in Nat /\ Power[k + 1] = 2 * Power[k]
      BY PowerFacts
    <2>5. k + 1 \in C <=> (k \in b /\ k \notin a) \/ (~(k \in a /\ k \notin b) /\ k \in C)
      BY <1>0, BorrowNext
    <2> HIDE DEF s, x, y, S, C
    <2>6. CASE k \in a /\ k \in b
      <3>1. (k \in Minus(a, b) <=> k \in C) /\ (k + 1 \in C <=> k \in C)
        BY <2>2, <2>5, <2>6
      <3> QED  BY <2>1, <2>3, <2>4, <2>6, <3>1
    <2>7. CASE k \in a /\ k \notin b
      <3>1. (k \in Minus(a, b) <=> k \notin C) /\ (k + 1 \notin C)
        BY <2>2, <2>5, <2>7
      <3>2. s[k + 1] = x[k + 1] - y[k + 1]
        <4>1. CASE k \in C
          BY <2>1, <2>3, <2>4, <2>7, <3>1, <4>1
        <4>2. CASE k \notin C
          BY <2>1, <2>3, <2>4, <2>7, <3>1, <4>2
        <4> QED  BY <4>1, <4>2
      <3> QED  BY <3>1, <3>2
    <2>8. CASE k \notin a /\ k \in b
      <3>1. (k \in Minus(a, b) <=> k \notin C) /\ (k + 1 \in C)
        BY <2>2, <2>5, <2>8
      <3> QED  BY <2>1, <2>3, <2>4, <2>8, <3>1
    <2>9. CASE k \notin a /\ k \notin b
      <3>1. (k \in Minus(a, b) <=> k \in C) /\ (k + 1 \in C <=> k \in C)
        BY <2>2, <2>5, <2>9
      <3> QED  BY <2>1, <2>3, <2>4, <2>9, <3>1
    <2> QED  BY <2>6, <2>7, <2>8, <2>9
  <1> HIDE DEF S
  <1>3. Nat \subseteq S
    BY <1>1, <1>2, Induction
  <1> QED  BY <1>0, <1>3 DEF S

\* Equal numbers have equal bits.
LEMMA BitsDetermined ==
    ASSUME NEW a, NEW b
    PROVE  \A k \in Nat : LowValue(a)[k] = LowValue(b)[k]
                             => \A i \in 0 .. k - 1 : i \in a <=> i \in b
  <1> DEFINE x == LowValue(a)
             y == LowValue(b)
             S == {k \in Nat : x[k] = y[k] => \A i \in 0 .. k - 1 : i \in a <=> i \in b}
  <1>1. 0 \in S
    OBVIOUS
  <1>2. ASSUME NEW k \in Nat, k \in S PROVE k + 1 \in S
    <2> SUFFICES ASSUME x[k + 1] = y[k + 1], NEW i \in 0 .. k
                 PROVE  i \in a <=> i \in b
      OBVIOUS
    <2>1. /\ k \in a => x[k + 1] = x[k] + Power[k]
          /\ k \notin a => x[k + 1] = x[k]
          /\ k \in b => y[k + 1] = y[k] + Power[k]
          /\ k \notin b => y[k + 1] = y[k]
          /\ x[k] \in Nat /\ y[k] \in Nat /\ x[k] < Power[k] /\ y[k] < Power[k]
          /\ Power[k] \in Nat
      BY LowValueNext
    <2> HIDE DEF x, y, S
    <2>2. (k \in a <=> k \in b) /\ x[k] = y[k]
      <3>1. CASE k \in a
        BY <2>1, <3>1
      <3>2. CASE k \notin a
        BY <2>1, <3>2
      <3> QED  BY <3>1, <3>2
    <2>3. \A j \in 0 .. k - 1 : j \in a <=> j \in b
      BY <1>2, <2>2 DEF S
    <2> QED  BY <2>2, <2>3
  <1> HIDE DEF S
  <1>3. Nat \subseteq S
    BY <1>1, <1>2, Induction
  <1> QED  BY <1>3 DEF S

-----------------------------------------------------------------------------
\* The number a register holds, and how many there are.
Value(w) == LowValue(w)[XLEN]
Size == Power[XLEN]

\* A register's value is below Size, and determines the register.
LEMMA ValueFacts ==
    /\ Size \in Nat \ {0}
    /\ \A w : Value(w) \in Nat /\ Value(w) < Size
    /\ \A a, b \in Word : Value(a) = Value(b) => a = b
  <1>0. XLEN \in Nat
    BY WidthAssumption
  <1>1. Size \in Nat \ {0} /\ \A w : Value(w) \in Nat /\ Value(w) < Size
    BY <1>0, LowValueFacts, PowerFacts DEF Value, Size
  <1>2. ASSUME NEW a \in Word, NEW b \in Word, Value(a) = Value(b) PROVE a = b
    <2>1. \A i \in 0 .. XLEN - 1 : i \in a <=> i \in b
      BY <1>0, <1>2, BitsDetermined DEF Value
    <2> QED  BY <2>1 DEF Word, Bits
  <1> QED  BY <1>1, <1>2

\* The program's addition, subtraction and unsigned order of registers.
THEOREM WordArithmetic ==
    ASSUME NEW a \in Word, NEW b \in Word
    PROVE  /\ Value(Plus(a, b)) = IF Value(a) + Value(b) < Size THEN Value(a) + Value(b)
                                  ELSE Value(a) + Value(b) - Size
           /\ Value(Minus(a, b)) = IF Value(a) < Value(b) THEN Value(a) - Value(b) + Size
                                   ELSE Value(a) - Value(b)
           /\ Ltu(a, b) <=> Value(a) < Value(b)
  <1>0. XLEN \in Nat /\ XLEN \in 0 .. XLEN
    BY WidthAssumption
  <1>1. /\ Carry(a, b, XLEN) => Value(Plus(a, b)) + Size = Value(a) + Value(b)
        /\ ~Carry(a, b, XLEN) => Value(Plus(a, b)) = Value(a) + Value(b)
    BY <1>0, SumOfLowBits DEF Value, Size
  <1>2. /\ Borrow(a, b, XLEN) => Value(Minus(a, b)) - Size = Value(a) - Value(b)
        /\ ~Borrow(a, b, XLEN) => Value(Minus(a, b)) = Value(a) - Value(b)
    BY <1>0, DifferenceOfLowBits DEF Value, Size
  <1>3. Ltu(a, b) <=> Borrow(a, b, XLEN)
    <2>1. ASSUME NEW i \in b \ a
          PROVE  (\A j \in a \ b : j < i)
                    <=> i < XLEN /\ (i + 1) .. (XLEN - 1) \cap (a \ b) = {}
      <3>1. i \in 0 .. XLEN - 1 /\ i \notin a \ b /\ a \ b \subseteq 0 .. XLEN - 1
        BY DEF Word, Bits
      <3> QED  BY <3>1, <1>0
    <2> QED  BY <2>1 DEF Ltu, Borrow
  <1> QED  BY <1>1, <1>2, <1>3, ValueFacts

\* The words 0 and 1.
LEMMA SmallWords ==
    /\ {} \in Word /\ {0} \in Word
    /\ Value({}) = 0 /\ Value({0}) = 1
  <1>0. XLEN \in Nat \ {0}
    BY WidthAssumption
  <1> DEFINE T == {k \in Nat : LowValue({0})[k + 1] = 1}
  <1>2. Nat \subseteq T
    <2>1. 0 \in T
      <3>1. LowValue({0})[0] = 0 /\ Power[0] = 1
        BY LowValueFacts, PowerFacts
      <3>2. LowValue({0})[0 + 1] = LowValue({0})[0] + Power[0]
        BY LowValueNext
      <3> QED  BY <3>1, <3>2
    <2>2. ASSUME NEW k \in Nat, k \in T PROVE k + 1 \in T
      <3>1. k + 1 \notin {0} /\ k + 1 \in Nat
        OBVIOUS
      <3>2. LowValue({0})[(k + 1) + 1] = LowValue({0})[k + 1]
        BY <3>1, LowValueNext
      <3> QED  BY <2>2, <3>2
    <2> HIDE DEF T
    <2> QED  BY <2>1, <2>2, Induction
  <1>3. Value({}) = 0
    BY <1>0, EmptyIsZero DEF Value
  <1>4. Value({0}) = 1
    <2>1. XLEN - 1 \in T /\ (XLEN - 1) + 1 = XLEN
      BY <1>0, <1>2
    <2> HIDE DEF T
    <2>2. \A k \in T : LowValue({0})[k + 1] = 1
      BY DEF T
    <2> QED  BY <2>1, <2>2 DEF Value
  <1> QED  BY <1>0, <1>3, <1>4 DEF Word, Bits

-----------------------------------------------------------------------------
\* Two's complement: the sign bit of the n low bits is worth -2^(n - 1).
SignedLow(w, n) == LowValue(w)[n] - (IF n - 1 \in w THEN Power[n] ELSE 0)

\* The sign bit tells which half of the range a number is in.
LEMMA SignedRange ==
    ASSUME NEW w, NEW n \in Nat \ {0}
    PROVE  /\ n - 1 \in w <=> LowValue(w)[n] >= Power[n - 1]
           /\ n - 1 \in w => SignedLow(w, n) = LowValue(w)[n] - Power[n]
           /\ n - 1 \notin w => SignedLow(w, n) = LowValue(w)[n]
           /\ LowValue(w)[n] \in 0 .. Power[n] - 1
           /\ Power[n] = 2 * Power[n - 1] /\ Power[n - 1] \in Nat \ {0}
           /\ SignedLow(w, n) \in Int
  <1>1. n - 1 \in Nat /\ (n - 1) + 1 = n
    OBVIOUS
  <1>2. /\ LowValue(w)[n - 1] \in Nat /\ LowValue(w)[n - 1] < Power[n - 1]
        /\ n - 1 \in w => LowValue(w)[n] = LowValue(w)[n - 1] + Power[n - 1]
        /\ n - 1 \notin w => LowValue(w)[n] = LowValue(w)[n - 1]
        /\ Power[n] = 2 * Power[n - 1] /\ Power[n - 1] \in Nat \ {0}
    BY <1>1, LowValueNext, PowerFacts
  <1>3. CASE n - 1 \in w
    <2>1. SignedLow(w, n) = LowValue(w)[n] - Power[n]
      BY <1>3 DEF SignedLow
    <2> QED  BY <1>2, <1>3, <2>1
  <1>4. CASE n - 1 \notin w
    <2>1. SignedLow(w, n) = LowValue(w)[n] - 0
      BY <1>4 DEF SignedLow
    <2> QED  BY <1>2, <1>4, <2>1
  <1> QED  BY <1>3, <1>4

\* Signed order of registers.
LEMMA SignedOrder ==
    ASSUME NEW a \in Word, NEW b \in Word
    PROVE  Lt(a, b) <=> SignedLow(a, XLEN) < SignedLow(b, XLEN)
  <1>1. XLEN \in Nat \ {0}
    BY WidthAssumption
  <1>2. Ltu(a, b) <=> LowValue(a)[XLEN] < LowValue(b)[XLEN]
    BY WordArithmetic DEF Value
  <1> DEFINE x == LowValue(a)[XLEN]
             y == LowValue(b)[XLEN]
             s == SignedLow(a, XLEN)
             t == SignedLow(b, XLEN)
             p == Power[XLEN]
             h == Power[XLEN - 1]
  <1>3. /\ XLEN - 1 \in a => s = x - p
        /\ XLEN - 1 \notin a => s = x
        /\ XLEN - 1 \in b => t = y - p
        /\ XLEN - 1 \notin b => t = y
        /\ x \in 0 .. p - 1 /\ y \in 0 .. p - 1 /\ p = 2 * h /\ h \in Nat \ {0}
        /\ XLEN - 1 \in a <=> x >= h
        /\ XLEN - 1 \in b <=> y >= h
    BY <1>1, SignedRange
  <1> HIDE DEF x, y, s, t, p, h
  <1>4. CASE XLEN - 1 \in a /\ XLEN - 1 \in b
    <2>1. Lt(a, b) <=> Ltu(a, b)
      BY <1>4 DEF Lt, SignBit
    <2>2. s < t <=> x < y
      BY <1>3, <1>4
    <2> QED  BY <1>2, <2>1, <2>2 DEF x, y, s, t
  <1>5. CASE XLEN - 1 \notin a /\ XLEN - 1 \notin b
    <2>1. Lt(a, b) <=> Ltu(a, b)
      BY <1>5 DEF Lt, SignBit
    <2>2. s < t <=> x < y
      BY <1>3, <1>5
    <2> QED  BY <1>2, <2>1, <2>2 DEF x, y, s, t
  <1>6. CASE XLEN - 1 \in a /\ XLEN - 1 \notin b
    <2>1. Lt(a, b)
      BY <1>6 DEF Lt, SignBit
    <2>2. s < t
      BY <1>3, <1>6
    <2> QED  BY <2>1, <2>2 DEF s, t
  <1>7. CASE XLEN - 1 \notin a /\ XLEN - 1 \in b
    <2>1. ~Lt(a, b)
      BY <1>7 DEF Lt, SignBit
    <2>2. ~(s < t)
      BY <1>3, <1>7
    <2> QED  BY <2>1, <2>2 DEF s, t
  <1> QED  BY <1>4, <1>5, <1>6, <1>7

-----------------------------------------------------------------------------
\* The n low bits of a sum, a difference and a shifted word are those of the
\* sum, difference, product and quotient of the numbers.
LEMMA LowSum ==
    ASSUME NEW a \in Word, NEW b \in Word, NEW n \in 0 .. XLEN
    PROVE  LowValue(Plus(a, b))[n] = (LowValue(a)[n] + LowValue(b)[n]) % Power[n]
  <1> DEFINE s == LowValue(Plus(a, b))[n]
             t == LowValue(a)[n] + LowValue(b)[n]
             p == Power[n]
  <1>0. n \in Nat
    BY WidthAssumption
  <1>1. s \in 0 .. p - 1 /\ p \in Nat \ {0} /\ t \in Nat
    <2>1. p \in Nat \ {0}
      BY <1>0, PowerFacts
    <2> HIDE DEF p
    <2>2. \A w : LowValue(w)[n] \in 0 .. p - 1
      BY <1>0, <2>1, LowValueFacts DEF p
    <2>3. s \in 0 .. p - 1
      BY <2>2
    <2>4. t \in Nat
      BY <2>1, <2>2
    <2> QED  BY <2>1, <2>3, <2>4
  <1>2. s = t \/ s + p = t
    <2>1. (Carry(a, b, n) => s + p = t) /\ (~Carry(a, b, n) => s = t)
      BY SumOfLowBits
    <2> QED  BY <2>1, Zenon
  <1> HIDE DEF s, t, p
  <1>3. (0 * p + s) % p = s /\ (1 * p + s) % p = s
    BY <1>1, DivUnique
  <1>4. t = 0 * p + s \/ t = 1 * p + s
    BY <1>1, <1>2
  <1> QED  BY <1>3, <1>4 DEF s, t, p

\* The low bits of a difference.
LEMMA LowDifference ==
    ASSUME NEW a \in Word, NEW b \in Word, NEW n \in 0 .. XLEN
    PROVE  LowValue(Minus(a, b))[n] = (LowValue(a)[n] - LowValue(b)[n]) % Power[n]
  <1> DEFINE s == LowValue(Minus(a, b))[n]
             t == LowValue(a)[n] - LowValue(b)[n]
             p == Power[n]
  <1>0. n \in Nat
    BY WidthAssumption
  <1>1. s \in 0 .. p - 1 /\ p \in Nat \ {0} /\ t \in Int
    <2>1. p \in Nat \ {0}
      BY <1>0, PowerFacts
    <2> HIDE DEF p
    <2>2. \A w : LowValue(w)[n] \in 0 .. p - 1
      BY <1>0, <2>1, LowValueFacts DEF p
    <2>3. s \in 0 .. p - 1
      BY <2>2
    <2>4. t \in Int
      BY <2>1, <2>2
    <2> QED  BY <2>1, <2>3, <2>4
  <1>2. s = t \/ s - p = t
    <2>1. (Borrow(a, b, n) => s - p = t) /\ (~Borrow(a, b, n) => s = t)
      BY DifferenceOfLowBits
    <2> QED  BY <2>1, Zenon
  <1> HIDE DEF s, t, p
  <1>3. (0 * p + s) % p = s /\ ((-1) * p + s) % p = s
    BY <1>1, DivUnique
  <1>4. t = 0 * p + s \/ t = (-1) * p + s
    BY <1>1, <1>2
  <1> QED  BY <1>3, <1>4 DEF s, t, p

\* The low bits of a left shift: multiplication.
LEMMA LowLeft ==
    ASSUME NEW a \in Word, NEW n \in 0 .. XLEN, NEW k \in 0 .. n
    PROVE  LowValue(Sll(a, k))[n] = (LowValue(a)[n] * Power[k]) % Power[n]
  <1> DEFINE m == n - k
             rest == {i \in Nat : i + m \in a}
             x == LowValue(a)[m]
             q == LowValue(rest)[k]
             s == Power[k]
             p == Power[m]
  <1>0. n \in Nat /\ k \in Nat /\ m \in Nat /\ k + m = n /\ m + k = n /\ a \in SUBSET Nat
    BY WidthAssumption DEF Word, Bits
  <1>1. LowValue(Sll(a, k))[k + m] = s * x
    <2>1. \A i \in 0 .. k - 1 : i \notin Sll(a, k)
      BY <1>0 DEF Sll
    <2>2. \A i \in 0 .. m - 1 : i + k \in Sll(a, k) <=> i \in a
      <3>1. n <= XLEN /\ XLEN \in Nat
        BY WidthAssumption
      <3> HIDE DEF m
      <3>2. \A i \in 0 .. m - 1 : i + k \in Bits /\ (i + k) - k = i
        BY <1>0, <3>1 DEF Bits
      <3> QED  BY <3>2 DEF Sll
    <2> HIDE DEF m
    <2> QED  BY <1>0, <2>1, <2>2, MovedUp
  <1>2. LowValue(a)[m + k] = x + p * q
    <2>1. \A i \in 0 .. k - 1 : i \in rest <=> i + m \in a
      BY <1>0
    <2> HIDE DEF rest, m
    <2> QED  BY <1>0, <2>1, SplitAt
  <1>3. Power[n] = s * p
    <2> HIDE DEF m
    <2> QED  BY <1>0, PowerSum
  <1>4. x \in Nat /\ q \in Nat /\ s \in Nat \ {0} /\ p \in Nat \ {0} /\ x < p
    <2> HIDE DEF m
    <2> QED  BY <1>0, LowValueFacts, PowerFacts
  <1> HIDE DEF x, q, s, p, m
  <1>5. (x + p * q) * s = q * (s * p) + s * x
    BY <1>4, SMT
  <1>6. s * x \in 0 .. s * p - 1 /\ s * p \in Nat \ {0} /\ q \in Int
    <2>1. s * x <= s * (p - 1) /\ s * (p - 1) = s * p - s
      BY <1>4, SMT
    <2>2. s * x \in Nat /\ s * p \in Nat
      BY <1>4, Products
    <2> QED  BY <2>1, <2>2, <1>4
  <1>7. (q * (s * p) + s * x) % (s * p) = s * x
    <2> DEFINE M == s * p
               r == s * x
    <2> HIDE DEF M, r
    <2>1. (q * M + r) % M = r
      BY <1>6, DivUnique DEF M, r
    <2> QED  BY <2>1 DEF M, r
  <1> QED  BY <1>0, <1>1, <1>2, <1>3, <1>5, <1>7 DEF s

\* A logical right shift of the low bits: division.
LEMMA LowRight ==
    ASSUME NEW a \in Word, NEW n \in 0 .. XLEN, a \subseteq Low(n), NEW k \in Nat
    PROVE  LowValue(Srl(a, k))[n] = LowValue(a)[n] \div Power[k]
  <1> DEFINE x == LowValue(a)[k]
             q == LowValue(Srl(a, k))[n]
             s == Power[k]
  <1>0. n \in Nat /\ a \in SUBSET Nat
    BY WidthAssumption DEF Word, Bits
  <1>1. LowValue(a)[k + n] = x + s * q
    <2>1. \A i \in 0 .. n - 1 : i \in Srl(a, k) <=> i + k \in a
      BY <1>0, WidthAssumption DEF Srl, Bits
    <2> QED  BY <1>0, <2>1, SplitAt
  <1>2. LowValue(a)[k + n] = LowValue(a)[n]
    <2>1. k + n \in Nat /\ n <= k + n /\ \A i \in n .. (k + n) - 1 : i \notin a
      BY <1>0 DEF Low
    <2> QED  BY <1>0, <2>1, ZerosAbove
  <1>3. x \in Nat /\ q \in Nat /\ s \in Nat \ {0} /\ x < s
    BY <1>0, LowValueFacts, PowerFacts
  <1> HIDE DEF x, q, s
  <1>4. (q * s + x) \div s = q
    BY <1>3, DivUnique
  <1>5. q * s + x = x + s * q
    BY <1>3, SMT
  <1> QED  BY <1>1, <1>2, <1>4, <1>5 DEF q, s

\* An arithmetic shift of the n low bits divides the signed number they are.
LEMMA LowArithmeticRight ==
    ASSUME NEW a \in Word, NEW n \in 1 .. XLEN, a \subseteq Low(n), NEW k \in 0 .. n - 1
    PROVE  LowValue(SraIn(a, n, k))[n] = (SignedLow(a, n) \div Power[k]) % Power[n]
  <1> DEFINE m == n - k
             r == SraIn(a, n, k)
             x == LowValue(a)[k]
             q == LowValue(r)[m]
             s == Power[k]
             p == Power[m]
             N == Power[n]
  <1>0. /\ n \in Nat \ {0} /\ k \in Nat /\ m \in Nat /\ m <= n
        /\ k + m = n /\ a \in SUBSET Nat
    BY WidthAssumption DEF Word, Bits
  <1>1. LowValue(a)[n] = x + s * q
    <2>1. \A i \in 0 .. m - 1 : i \in r <=> i + k \in a
      <3>1. \A i \in 0 .. m - 1 : i \in Low(n) /\ ~(i + k >= n)
        BY <1>0 DEF Low
      <3> HIDE DEF m
      <3> QED  BY <3>1 DEF SraIn
    <2> HIDE DEF m, r
    <2>2. LowValue(a)[k + m] = LowValue(a)[k] + Power[k] * LowValue(r)[m]
      BY <1>0, <2>1, SplitAt
    <2> QED  BY <1>0, <2>2
  <1>2. N = s * p
    <2> HIDE DEF m
    <2>1. Power[k + m] = Power[k] * Power[m]
      BY <1>0, PowerSum
    <2> QED  BY <1>0, <2>1
  <1>3. /\ x \in 0 .. s - 1 /\ q \in 0 .. p - 1
        /\ s \in Nat \ {0} /\ p \in Nat \ {0} /\ N \in Nat \ {0}
    <2> HIDE DEF m, r
    <2>1. \A w : \A i \in Nat : LowValue(w)[i] \in Nat /\ LowValue(w)[i] < Power[i]
      BY LowValueFacts
    <2>2. s \in Nat \ {0} /\ p \in Nat \ {0} /\ N \in Nat \ {0}
      BY <1>0, PowerFacts
    <2>3. x \in Nat /\ x < s /\ q \in Nat /\ q < p
      BY <1>0, <2>1
    <2> HIDE DEF x, q, s, p, N
    <2> QED  BY <2>2, <2>3
  <1>4. p <= N
    <2> HIDE DEF m
    <2>1. m < n => Power[m] < Power[n]
      BY <1>0, PowerGrows
    <2>2. m = n \/ m < n
      BY <1>0
    <2>3. Power[m] \in Nat /\ Power[n] \in Nat
      BY <1>0, PowerFacts
    <2> QED  BY <2>1, <2>2, <2>3
  <1>5. CASE n - 1 \in a
    <2>1. m .. n - 1 \subseteq r
      <3>1. \A i \in m .. n - 1 : i \in Low(n) /\ i + k >= n
        BY <1>0 DEF Low
      <3> HIDE DEF m
      <3> QED  BY <1>5, <3>1 DEF SraIn
    <2>2. LowValue(r)[n] = q + N - p
      <3> HIDE DEF m, r
      <3> QED  BY <1>0, <2>1, OnesAbove
    <2>3. SignedLow(a, n) = LowValue(a)[n] - N
      BY <1>0, <1>5, SignedRange
    <2> HIDE DEF x, q, s, p, N, m, r
    <2>4. SignedLow(a, n) = (q - p) * s + x /\ q - p \in Int
      <3>1. x + s * q - s * p = (q - p) * s + x
        BY <1>3, SMT
      <3> QED  BY <1>1, <1>2, <1>3, <2>3, <3>1
    <2>5. SignedLow(a, n) \div s = q - p
      <3> DEFINE d == q - p
      <3>1. d \in Int
        BY <1>3
      <3> HIDE DEF d
      <3>2. (d * s + x) \div s = d
        BY <1>3, <3>1, DivUnique
      <3> QED  BY <2>4, <3>2 DEF d
    <2>6. ((-1) * N + (q - p + N)) % N = q - p + N
      <3> DEFINE y == q - p + N
      <3>1. y \in 0 .. N - 1
        BY <1>3, <1>4
      <3> HIDE DEF y
      <3>2. ((-1) * N + y) % N = y
        BY <1>3, <3>1, DivUnique
      <3> QED  BY <3>2 DEF y
    <2>7. (-1) * N + (q - p + N) = q - p /\ q + N - p = q - p + N
      BY <1>3
    <2> QED  BY <2>2, <2>5, <2>6, <2>7 DEF r, s, N
  <1>6. CASE n - 1 \notin a
    <2>1. \A i \in m .. n - 1 : i \notin r
      <3>1. \A i \in m .. n - 1 : i + k \notin Low(n)
        BY <1>0 DEF Low
      <3> HIDE DEF m
      <3> QED  BY <1>6, <3>1 DEF SraIn
    <2>2. LowValue(r)[n] = q
      <3> HIDE DEF m, r
      <3> QED  BY <1>0, <2>1, ZerosAbove
    <2>3. SignedLow(a, n) = LowValue(a)[n]
      BY <1>0, <1>6, SignedRange
    <2> HIDE DEF x, q, s, p, N, m, r
    <2>4. SignedLow(a, n) = q * s + x
      BY <1>1, <1>3, <2>3, SMT
    <2>5. SignedLow(a, n) \div s = q
      BY <1>3, <2>4, DivUnique
    <2>6. (0 * N + q) % N = q
      <3>1. q \in 0 .. N - 1
        BY <1>3, <1>4
      <3> QED  BY <1>3, <3>1, DivUnique
    <2>7. 0 * N + q = q
      BY <1>3
    <2> QED  BY <2>2, <2>5, <2>6, <2>7 DEF r, s, N
  <1> QED  BY <1>5, <1>6

\* Sign extension keeps the signed number: Sext of the n low bits is, modulo
\* the size of a register, what the n bits are in two's complement.
LEMMA SextValue ==
    ASSUME NEW a, NEW n \in 1 .. XLEN
    PROVE  Value(Sext(a, n)) = SignedLow(a, n) % Size
  <1> DEFINE e == Sext(a, n)
             x == LowValue(a)[n]
             p == Power[n]
  <1>0. n \in Nat \ {0} /\ XLEN \in Nat /\ n <= XLEN
    BY WidthAssumption
  <1>1. LowValue(e)[n] = x
    <2>1. \A i \in 0 .. n - 1 : i \in e <=> i \in a
      BY <1>0 DEF Sext, Low
    <2> HIDE DEF e
    <2> QED  BY <1>0, <2>1, SameLow
  <1>2. x \in 0 .. p - 1 /\ p \in Nat \ {0} /\ Size \in Nat \ {0} /\ p <= Size
    <2>1. x \in Nat /\ x < Power[n] /\ Power[n] \in Nat \ {0} /\ Power[XLEN] \in Nat \ {0}
      BY <1>0, LowValueFacts, PowerFacts
    <2>2. n < XLEN => Power[n] < Power[XLEN]
      BY <1>0, PowerGrows
    <2>3. n = XLEN \/ n < XLEN
      BY <1>0
    <2> QED  BY <2>1, <2>2, <2>3 DEF Size
  <1>3. CASE n - 1 \in a
    <2>1. n .. XLEN - 1 \subseteq e
      BY <1>3 DEF Sext
    <2>2. Value(e) = x + Size - p
      <3> HIDE DEF e
      <3>1. LowValue(e)[XLEN] = LowValue(e)[n] + Power[XLEN] - Power[n]
        BY <1>0, <2>1, OnesAbove
      <3> QED  BY <1>1, <3>1 DEF Value, Size
    <2>3. SignedLow(a, n) = x - p
      BY <1>0, <1>3, SignedRange
    <2> HIDE DEF x, p, e
    <2> DEFINE y == x + Size - p
    <2>4. y \in 0 .. Size - 1 /\ (-1) * Size + y = x - p
      BY <1>2
    <2> HIDE DEF y
    <2>5. ((-1) * Size + y) % Size = y
      BY <1>2, <2>4, DivUnique
    <2> QED  BY <2>2, <2>3, <2>4, <2>5 DEF y, e
  <1>4. CASE n - 1 \notin a
    <2>1. \A i \in n .. XLEN - 1 : i \notin e
      BY <1>0, <1>4 DEF Sext, Low
    <2>2. Value(e) = x
      <3> HIDE DEF e
      <3>1. LowValue(e)[XLEN] = LowValue(e)[n]
        BY <1>0, <2>1, ZerosAbove
      <3> QED  BY <1>1, <3>1 DEF Value
    <2>3. SignedLow(a, n) = x
      BY <1>0, <1>4, SignedRange
    <2> HIDE DEF x, p, e
    <2>4. x \in 0 .. Size - 1 /\ 0 * Size + x = x
      BY <1>2
    <2>5. (0 * Size + x) % Size = x
      BY <1>2, <2>4, DivUnique
    <2> QED  BY <2>2, <2>3, <2>4, <2>5 DEF e
  <1> QED  BY <1>3, <1>4

\* The low bits of a number are its remainder.
LEMMA LowBitsRemain ==
    ASSUME NEW w, NEW n \in Nat, NEW k \in 0 .. n
    PROVE  LowValue(w)[n] % Power[k] = LowValue(w)[k]
  <1> DEFINE rest == {i \in Nat : i + k \in w}
             x == LowValue(w)[k]
             m == n - k
             q == LowValue(rest)[m]
             s == Power[k]
  <1>0. k \in Nat /\ m \in Nat /\ k + m = n
    OBVIOUS
  <1> HIDE DEF m
  <1>1. LowValue(w)[n] = x + s * q
    <2>1. \A i \in 0 .. m - 1 : i \in rest <=> i + k \in w
      BY <1>0
    <2> HIDE DEF rest
    <2>2. LowValue(w)[k + m] = LowValue(w)[k] + Power[k] * LowValue(rest)[m]
      BY <1>0, <2>1, SplitAt
    <2> QED  BY <1>0, <2>2
  <1>2. x \in 0 .. s - 1 /\ s \in Nat \ {0} /\ q \in Int
    <2> HIDE DEF rest
    <2>1. x \in Nat /\ x < Power[k] /\ Power[k] \in Nat \ {0} /\ q \in Nat
      BY <1>0, LowValueFacts, PowerFacts
    <2> QED  BY <2>1
  <1> HIDE DEF x, q, s
  <1>3. x + s * q = q * s + x
    BY <1>2, SMT
  <1>4. (q * s + x) % s = x
    BY <1>2, DivUnique
  <1> QED  BY <1>1, <1>3, <1>4 DEF x, s

-----------------------------------------------------------------------------
\* A word operation's value is no wider than a register.
LEMMA WidthFacts ==
    /\ XLEN \in Nat /\ WLEN \in Nat /\ 0 < WLEN /\ WLEN < XLEN
    /\ Low(WLEN) \subseteq Bits
  BY WidthAssumption DEF Low, Bits

\* Addition and subtraction wrap to the register's width.
LEMMA PlusType == \A a, b : Plus(a, b) \in Word
  BY DEF Plus, Word

\* So does subtraction.
LEMMA MinusType == \A a, b : Minus(a, b) \in Word
  BY DEF Minus, Word

\* Shifts drop what leaves the register.
LEMMA ShiftType == \A a, n : Sll(a, n) \in Word /\ Srl(a, n) \in Word
  BY DEF Sll, Srl, Word

\* An arithmetic shift of an n-bit word is an n-bit word.
LEMMA SraInType == \A a, n, k : SraIn(a, n, k) \in SUBSET Low(n)
  BY DEF SraIn

\* Sign extension of a narrower value yields a register value.
LEMMA SextType ==
    ASSUME NEW a, NEW n \in Nat, n <= XLEN
    PROVE  Sext(a, n) \in Word
  <1>1. Low(n) \subseteq Bits /\ n .. XLEN - 1 \subseteq Bits
    BY WidthFacts DEF Low, Bits
  <1> QED  BY <1>1 DEF Sext, Word
=============================================================================
