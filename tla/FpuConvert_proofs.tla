------------------------- MODULE FpuConvert_proofs -------------------------
(***************************************************************************)
(* The rest of what FpuCheck states.  First the fused operations: a sum in *)
(* a window twice as wide is cut and jammed a second time (WideAligned,    *)
(* SidesOfUpperBits, FusedRounded), and the special operands are compared  *)
(* case by case (FmaIs).  Then the comparisons.                            *)
(*                                                                         *)
(* A reserved rounding mode throws where round_and_pack has a significand  *)
(* that is not zero.  Which it is, the modes that exist tell: the          *)
(* significand is the same in every mode, and where it is zero the result  *)
(* is an exact zero, which the reference takes for no value but zero       *)
(* (NeverZero, RootNeverZero).  The other way round, terms that cancel     *)
(* leave aligned parts that cancel (Cancels).                              *)
(*                                                                         *)
(* Conversions and packing are about the format that is converted:         *)
(* FpuCheck_proofs proves them for any format, Conv instantiates it with   *)
(* that one, and the last lemmas say that Conv's unit is Cvt and its       *)
(* reference the one of FpuCheck.                                          *)
(***************************************************************************)
EXTENDS FpuCheck_proofs

-----------------------------------------------------------------------------
\* An even number and a jammed one: their sum and their differences are on the
\* sides of every even number where the exact ones are.
LEMMA SidesOfSum ==
    ASSUME NEW a \in Nat, NEW B \in Nat, NEW q \in Nat \ {0}, NEW k \in Int
    PROVE  LET A == 2 * a
               J == Jam(B, q)
           IN  /\ SameSide((A + J) - 2 * k, (A * q + B) - (2 * k) * q)
               /\ SameSide(A - J - 2 * k, A * q - B - (2 * k) * q)
               /\ SameSide(J - A - 2 * k, B - A * q - (2 * k) * q)
  <1> DEFINE A == 2 * a
             J == Jam(B, q)
             X == A * q
             g == (2 * k) * q
  <1>1. J \in Nat /\ \A z \in Int : SameSide(J - 2 * z, B - (2 * z) * q)
    BY JamSides
  <1>2. X \in Int /\ g \in Int
    BY SMT
  <1>3. /\ (2 * (k - a)) * q = g - X
        /\ (2 * (a - k)) * q = X - g
        /\ (2 * (k + a)) * q = g + X
    <2>1. (2 * (k - a)) * q = (2 * k) * q - (2 * a) * q
      BY SMT
    <2>2. (2 * (a - k)) * q = (2 * a) * q - (2 * k) * q
      BY SMT
    <2>3. (2 * (k + a)) * q = (2 * k) * q + (2 * a) * q
      BY SMT
    <2> QED  BY <2>1, <2>2, <2>3
  <1>4. /\ SameSide(J - 2 * (k - a), B - (2 * (k - a)) * q)
        /\ SameSide(J - 2 * (a - k), B - (2 * (a - k)) * q)
        /\ SameSide(J - 2 * (k + a), B - (2 * (k + a)) * q)
    <2> DEFINE l == k - a
               m == a - k
               n == k + a
    <2>1. l \in Int /\ m \in Int /\ n \in Int
      OBVIOUS
    <2> HIDE DEF l, m, n, J
    <2>2. SameSide(J - 2 * l, B - (2 * l) * q)
      BY <1>1, <2>1, Zenon
    <2>3. SameSide(J - 2 * m, B - (2 * m) * q)
      BY <1>1, <2>1, Zenon
    <2>4. SameSide(J - 2 * n, B - (2 * n) * q)
      BY <1>1, <2>1, Zenon
    <2> QED  BY <2>2, <2>3, <2>4 DEF l, m, n
  <1> HIDE DEF J, X, g
  <1>5. SameSide((A + J) - 2 * k, (X + B) - g)
    <2>1. J - 2 * (k - a) = (A + J) - 2 * k /\ B - (g - X) = (X + B) - g
      BY <1>1, <1>2
    <2> QED  BY <1>3, <1>4, <2>1
  <1>6. SameSide(J - A - 2 * k, B - X - g)
    <2>1. J - 2 * (k + a) = J - A - 2 * k /\ B - (g + X) = B - X - g
      BY <1>1, <1>2
    <2> QED  BY <1>3, <1>4, <2>1
  <1>7. SameSide(A - J - 2 * k, X - B - g)
    <2> DEFINE p == A - J - 2 * k
               r == X - B - g
    <2>1. J - 2 * (a - k) = -p /\ B - (X - g) = -r /\ p \in Int /\ r \in Int
      BY <1>1, <1>2
    <2> HIDE DEF p, r
    <2>2. SameSide(-p, -r)
      BY <1>3, <1>4, <2>1
    <2>3. (p > 0 <=> r > 0) /\ (p = 0 <=> r = 0)
      BY <2>1, <2>2 DEF SameSide
    <2> QED  BY <2>1, <2>3 DEF SameSide, p, r
  <1> QED  BY <1>5, <1>6, <1>7 DEF X, g, J

\* A sum that is exact, or jammed and to be doubled at most once, jams again
\* where its upper bits are taken.
LEMMA SidesOfUpperBits ==
    ASSUME NEW S \in Nat, NEW V \in Nat, NEW q \in Nat \ {0}, NEW l \in Nat, NEW n \in Nat,
           \/ V = S * q
           \/ l <= n /\ \A k \in Int : SameSide(S - 2 * k, V - (2 * k) * q),
           NEW c \in Int
    PROVE  SameSide(Jam(S * Power[l], Power[n]) - 2 * c,
                    V * Power[l] - (2 * c) * (Power[n] * q))
  <1> DEFINE p == Power[l]
             Q == Power[n]
             J == Jam(S * p, Q)
  <1>1. p \in Nat \ {0} /\ Q \in Nat \ {0}
    BY PowerFacts
  <1>2. SameSide(J - 2 * c, S * p - (2 * c) * Q)
    <2>1. S * p \in Nat
      BY <1>1, Products
    <2> HIDE DEF p, Q
    <2>2. \A z \in Int : SameSide(Jam(S * p, Q) - 2 * z, S * p - (2 * z) * Q)
      BY <1>1, <2>1, JamSides
    <2> QED  BY <2>2, Zenon
  <1>3. CASE V = S * q
    <2> DEFINE r == S * p - (2 * c) * Q
    <2> HIDE DEF J
    <2>1. r \in Int /\ V * p - (2 * c) * (Q * q) = r * q
      <3> HIDE DEF p, Q
      <3>1. S * p \in Int /\ (2 * c) * Q \in Int
        BY <1>1, SMT
      <3>2. (S * p - (2 * c) * Q) * q = (S * p) * q - ((2 * c) * Q) * q
        BY <1>1, <3>1, SMT
      <3>3. (S * p) * q = (S * q) * p /\ ((2 * c) * Q) * q = (2 * c) * (Q * q)
        BY <1>1, SMT
      <3> QED  BY <1>3, <3>1, <3>2, <3>3
    <2> HIDE DEF r
    <2>2. SameSide(r, r * q)
      BY <2>1, SideScaled
    <2>3. SameSide(J - 2 * c, r)
      BY <1>2 DEF r
    <2> QED  BY <2>1, <2>2, <2>3 DEF SameSide, J, p, Q
  <1>4. CASE l <= n /\ \A k \in Int : SameSide(S - 2 * k, V - (2 * k) * q)
    <2> DEFINE w == Power[n - l]
               k == c * w
               r == S - 2 * k
               t == V - (2 * k) * q
    <2>1. w \in Nat \ {0} /\ Q = w * p
      <3>1. n - l \in Nat /\ (n - l) + l = n
        BY <1>4
      <3>2. Power[(n - l) + l] = Power[n - l] * Power[l]
        BY <3>1, PowerSum
      <3>3. Power[n - l] \in Nat \ {0}
        BY <3>1, PowerFacts
      <3> QED  BY <3>1, <3>2, <3>3
    <2> HIDE DEF w
    <2>2. k \in Int
      BY <2>1, SMT
    <2>3. SameSide(r, t)
      <3> HIDE DEF k
      <3> QED  BY <1>4, <2>2, Zenon
    <2>4. r \in Int /\ t \in Int /\ (2 * k) * q \in Int
      <3> HIDE DEF k
      <3>1. (2 * k) * q \in Int
        BY <2>2, SMT
      <3> QED  BY <2>2, <3>1
    <2>5. S * p - (2 * c) * Q = r * p
      <3> HIDE DEF p, Q
      <3>1. (S - 2 * (c * w)) * p = S * p - (2 * c) * (w * p)
        <4> DEFINE z == c * w
        <4>1. z \in Int
          BY <2>2
        <4> HIDE DEF z
        <4>2. (S - 2 * z) * p = S * p - 2 * (z * p)
          BY <1>1, <4>1, SMT
        <4>3. 2 * ((c * w) * p) = (2 * c) * (w * p)
          BY <1>1, <2>1, SMT
        <4> QED  BY <4>2, <4>3 DEF z
      <3> QED  BY <2>1, <3>1
    <2>6. V * p - (2 * c) * (Q * q) = t * p
      <3> HIDE DEF p, Q
      <3>1. (V - (2 * (c * w)) * q) * p = V * p - (2 * c) * ((w * p) * q)
        <4> DEFINE z == (2 * (c * w)) * q
        <4>1. z \in Int
          BY <2>4
        <4> HIDE DEF z
        <4>2. (V - z) * p = V * p - z * p
          BY <1>1, <4>1, SMT
        <4>3. ((2 * (c * w)) * q) * p = (2 * c) * ((w * p) * q)
          BY <1>1, <2>1, SMT
        <4> QED  BY <4>2, <4>3 DEF z
      <3> QED  BY <2>1, <3>1
    <2> HIDE DEF r, t, p, Q, J
    <2>7. SameSide(r, r * p) /\ SameSide(t, t * p)
      BY <1>1, <2>4, SideScaled
    <2> QED  BY <1>2, <2>3, <2>5, <2>6, <2>7 DEF SameSide, J, p, Q
  <1> QED  BY <1>3, <1>4

-----------------------------------------------------------------------------
\* How far compute_fma moves a sum up.
Lift(S) == IF WIDE - Msb(S) > 0 THEN WIDE - Msb(S) ELSE 0

\* An aligned sum S at exponent e and the number full it stands for, counted in
\* fractions of a smallest subnormal.  It is exact, or nothing has cancelled
\* but one bit, and it is jammed.
IsSumAt(S, e, full) ==
    /\ S \in Nat \ {0} /\ S < Power[WordBits] /\ e \in Int /\ full \in Nat
    /\ \E d, a, V \in Nat :
           /\ a + d = e + 2 * (FRACBITS - MinExponent)
           /\ full * Power[WIDE] = V * Power[a]
           /\ \/ V = S * Power[d]
              \/ /\ S >= Power[WIDE - 1]
                 /\ \A k \in Int : SameSide(S - 2 * k, V - (2 * k) * Power[d])

\* Moved up, its highest bit is in one of two places.
LEMMA LiftIs ==
    ASSUME NEW S \in Nat \ {0}, S < Power[WordBits]
    PROVE  LET l == Lift(S)
           IN  /\ l \in 0 .. WIDE
               /\ Power[WIDE] <= S * Power[l] /\ S * Power[l] < Power[WordBits]
               /\ S >= Power[WIDE - 1] => l <= 1
  <1> DEFINE W == WIDE
             m == Msb(S)
             l == Lift(S)
             p == Power[l]
  <1>1. W \in Nat /\ W >= 6 /\ WordBits = W + 2
    BY FormatFacts DEF WordBits
  <1>2. m \in 0 .. W + 2 /\ Power[m] <= S /\ S < Power[m + 1]
    <2>1. WordBits \in Nat /\ WordBits < WordBits + 1 /\ WordBits + 1 \in Nat
      BY <1>1
    <2>2. Power[WordBits] < Power[WordBits + 1]
      BY <2>1, PowerGrows
    <2>3. Power[WordBits] \in Nat /\ Power[WordBits + 1] \in Nat
      BY <2>1, PowerFacts
    <2>4. S < Power[WordBits + 1]
      BY <2>2, <2>3
    <2> QED  BY <1>1, <2>4, MsbIs
  <1>3. l = IF W - m > 0 THEN W - m ELSE 0
    BY DEF Lift
  <1> HIDE DEF W, m, l
  <1>4. l \in 0 .. W /\ p \in Nat \ {0}
    <2>1. l \in 0 .. W
      BY <1>1, <1>2, <1>3
    <2>2. Power[l] \in Nat \ {0}
      BY <2>1, PowerFacts
    <2> QED  BY <2>1, <2>2
  <1>5. Power[W] <= S * p /\ S * p < Power[W + 2]
    <2>1. CASE m < W
      <3>1. l = W - m /\ m \in Nat /\ l \in Nat /\ m + l = W /\ (m + 1) + l = W + 1 /\ m + 1 \in Nat
        BY <1>1, <1>2, <1>3, <2>1
      <3>2. Power[m + l] = Power[m] * Power[l] /\ Power[(m + 1) + l] = Power[m + 1] * Power[l]
        BY <3>1, PowerSum
      <3>3. Power[m] \in Nat /\ Power[m + 1] \in Nat
        BY <3>1, PowerFacts
      <3> DEFINE f == Power[m]
                 g == Power[m + 1]
      <3>4. f \in Nat /\ g \in Nat /\ f <= S /\ S < g
        BY <1>2, <3>3
      <3> HIDE DEF f, g, p
      <3>5. f * p <= S * p /\ S * p < g * p /\ S * p \in Nat /\ f * p \in Nat /\ g * p \in Nat
        BY <1>4, <3>4, SMT
      <3>6. Power[W] = f * p /\ Power[W + 1] = g * p
        BY <3>1, <3>2 DEF f, g, p
      <3>7. Power[(W + 1) + 1] = 2 * Power[W + 1] /\ (W + 1) + 1 = W + 2
        BY <1>1, PowerFacts
      <3> QED  BY <3>5, <3>6, <3>7
    <2>2. CASE ~(m < W)
      <3>1. l = 0 /\ m \in Nat /\ (m = W \/ W < m)
        BY <1>1, <1>2, <1>3, <2>2
      <3>2. m = W \/ Power[W] < Power[m]
        BY <1>1, <3>1, PowerGrows
      <3>3. Power[m] \in Nat /\ Power[W] \in Nat /\ p = 1
        BY <1>1, <3>1, PowerFacts
      <3>4. S * 1 = S
        OBVIOUS
      <3>5. Power[W] <= S
        BY <1>2, <3>2, <3>3
      <3> HIDE DEF p
      <3> QED  BY <1>1, <3>3, <3>4, <3>5 DEF W
    <2> QED  BY <2>1, <2>2
  <1>6. ASSUME S >= Power[W - 1] PROVE l <= 1
    <2> SUFFICES ASSUME m + 1 <= W - 1 PROVE FALSE
      BY <1>1, <1>2, <1>3
    <2>1. m + 1 \in Nat /\ W - 1 \in Nat /\ (m + 1 = W - 1 \/ m + 1 < W - 1)
      BY <1>1, <1>2
    <2>2. m + 1 = W - 1 \/ Power[m + 1] < Power[W - 1]
      BY <2>1, PowerGrows
    <2>3. Power[m + 1] \in Nat /\ Power[W - 1] \in Nat
      BY <2>1, PowerFacts
    <2> QED  BY <1>2, <1>6, <2>2, <2>3
  <1> QED  BY <1>1, <1>4, <1>5, <1>6 DEF W, l

\* compute_fma's upper bits of it stand for that number.
LEMMA SumNormalised ==
    ASSUME NEW S, NEW e, NEW full, IsSumAt(S, e, full)
    PROVE  StandsFor(shift_right_jam(S * 2^Lift(S), WIDE - FRACBITS - 3), e - Lift(S),
                     full, full, Unit)
  <1> DEFINE H == HiddenBit
             F == FRACBITS
             M == MinExponent
             W == WIDE
             l == Lift(S)
             n == W - F - 3
             p == Power[l]
             Q == Power[n]
             T == Jam(S * p, Q)
  <1>1. /\ H \in Nat /\ H >= 8 /\ F \in Nat /\ F >= 3 /\ M \in Int /\ M <= 0
        /\ W \in Nat /\ W >= 2 * F + 6 /\ WordBits = W + 2
        /\ \A k \in 0 .. W + 3 : 2^k = Power[k]
        /\ Power[EXPBITS] \in Nat
    BY FormatFacts DEF WordBits
  <1>2. S \in Nat \ {0} /\ S < Power[WordBits] /\ e \in Int /\ full \in Nat
    BY DEF IsSumAt
  <1>3. PICK d \in Nat, a \in Nat, V \in Nat :
           /\ a + d = e + 2 * (F - M)
           /\ full * Power[W] = V * Power[a]
           /\ \/ V = S * Power[d]
              \/ /\ S >= Power[W - 1]
                 /\ \A k \in Int : SameSide(S - 2 * k, V - (2 * k) * Power[d])
    BY DEF IsSumAt
  <1> DEFINE q == Power[d]
  <1>4. /\ l \in 0 .. W
        /\ Power[W] <= S * p /\ S * p < Power[WordBits]
        /\ S >= Power[W - 1] => l <= 1
    BY <1>2, LiftIs
  <1> HIDE DEF H, F, M, W, l
  <1>5. n \in Nat /\ n >= 1 /\ l \in Nat
    BY <1>1, <1>4
  <1>6. p \in Nat \ {0} /\ Q \in Nat \ {0} /\ q \in Nat \ {0}
    BY <1>3, <1>5, PowerFacts
  <1>7. shift_right_jam(S * 2^l, n) = T
    <2>1. 2^l = p /\ n < WordBits
      BY <1>1, <1>4, <1>5
    <2>2. S * p \in Nat
      <3> HIDE DEF p
      <3> QED  BY <1>2, <1>6, Products
    <2> HIDE DEF p, n
    <2>3. shift_right_jam(S * p, n) = Jam(S * p, Power[n])
      BY <1>5, <2>1, <2>2, ShiftRightJam
    <2> QED  BY <2>1, <2>3 DEF p
  <1>8. T \in Nat /\ T >= 8 * H /\ T < 32 * H
    <2> DEFINE v == S * p
               b == 4 * H
               c == 16 * H
    <2>1. v \in Nat /\ b \in Nat /\ c \in Nat
      <3>1. b \in Nat /\ c \in Nat
        BY <1>1
      <3>2. v \in Nat
        <4> HIDE DEF p
        <4> QED  BY <1>2, <1>6, Products
      <3> QED  BY <3>1, <3>2
    <2>2. Power[W] = (2 * b) * Q /\ Power[WordBits] = (2 * c) * Q
      <3>1. Power[F + 3] = 8 * H /\ Power[F + 4] = 16 * H
        BY PlacePowers DEF F, H
      <3>2. F + 3 \in Nat /\ F + 4 \in Nat /\ F + 5 \in Nat /\ (F + 4) + 1 = F + 5
            /\ (F + 3) + n = W /\ (F + 5) + n = WordBits
        BY <1>1
      <3>3. Power[(F + 4) + 1] = 2 * Power[F + 4]
        BY <3>2, PowerFacts
      <3>4. Power[(F + 3) + n] = Power[F + 3] * Power[n]
        BY <1>5, <3>2, PowerSum
      <3>5. Power[(F + 5) + n] = Power[F + 5] * Power[n]
        BY <1>5, <3>2, PowerSum
      <3>6. 2 * b = 8 * H /\ 2 * c = 32 * H /\ Power[F + 5] = 32 * H
        BY <1>1, <3>1, <3>2, <3>3
      <3> HIDE DEF b, c, n
      <3> QED  BY <3>1, <3>2, <3>4, <3>5, <3>6
    <2>3. v >= (2 * b) * Q /\ ~(v >= (2 * c) * Q)
      <3>1. Power[W] <= v /\ v < Power[WordBits]
        BY <1>4
      <3>2. Power[W] \in Nat /\ Power[WordBits] \in Nat
        <4>1. WordBits \in Nat
          BY <1>1
        <4> QED  BY <1>1, <4>1, PowerFacts
      <3> HIDE DEF v, b, c, Q
      <3> QED  BY <2>1, <2>2, <3>1, <3>2
    <2> HIDE DEF v, b, c, Q
    <2>4. v >= (2 * b) * Q <=> Jam(v, Q) >= 2 * b
      BY <1>6, <2>1, JamBounds
    <2>5. v >= (2 * c) * Q <=> Jam(v, Q) >= 2 * c
      BY <1>6, <2>1, JamBounds
    <2>6. Jam(v, Q) \in Nat
      BY <1>6, <2>1, JamSides
    <2>7. 2 * b = 8 * H /\ 2 * c = 32 * H
      BY <1>1 DEF b, c
    <2> QED  BY <1>1, <2>3, <2>4, <2>5, <2>6, <2>7 DEF v
  <1>9. \A c \in Int : SameSide(T - 2 * c, V * p - (2 * c) * (Q * q))
    <2>1. V = S * q \/ (l <= n /\ \A k \in Int : SameSide(S - 2 * k, V - (2 * k) * q))
      <3>1. V = S * q \/ (S >= Power[W - 1] /\ \A k \in Int : SameSide(S - 2 * k, V - (2 * k) * q))
        BY <1>3
      <3>2. S >= Power[W - 1] => l <= n
        BY <1>4, <1>5
      <3> QED  BY <3>1, <3>2, Zenon
    <2>2. S \in Nat
      BY <1>2
    <2> HIDE DEF n, q
    <2> QED  BY <1>3, <1>5, <1>6, <2>1, <2>2, SidesOfUpperBits
  <1>10. Unit \in Nat \ {0} /\ F - M \in Nat /\ Unit = Power[F - M]
    BY UnitIs DEF F, M
  <1> DEFINE u == Power[W + l]
             t == Power[a + 1]
             z == Q * q
             X == V * p
             i == (F - M) + (W + l)
             j == (n + d) + (a + 1)
  <1>11. u \in Nat \ {0} /\ t \in Nat \ {0} /\ u = Power[W] * p /\ t = 2 * Power[a]
         /\ Power[a] \in Nat /\ Power[W] \in Nat
    <2>1. W + l \in Nat /\ a + 1 \in Nat
      BY <1>1, <1>3, <1>5
    <2>2. Power[W + l] = Power[W] * Power[l]
      BY <1>1, <1>5, PowerSum
    <2>3. Power[W + l] \in Nat \ {0} /\ Power[a + 1] \in Nat \ {0}
          /\ Power[a + 1] = 2 * Power[a] /\ Power[a] \in Nat /\ Power[W] \in Nat
      BY <1>1, <1>3, <2>1, PowerFacts
    <2> QED  BY <2>2, <2>3
  <1>12. z \in Nat \ {0} /\ X \in Nat
    <2> HIDE DEF Q, q, p
    <2>1. Q * q \in Nat \ {0}
      BY <1>6, SMT
    <2>2. V * p \in Nat
      BY <1>3, <1>6, Products
    <2> QED  BY <2>1, <2>2
  <1>13. (2 * full) * u = X * t
    <2> DEFINE f == Power[W]
               g == Power[a]
    <2>1. f \in Nat /\ g \in Nat /\ full * f = V * g /\ u = f * p /\ t = 2 * g
      BY <1>3, <1>11
    <2> HIDE DEF f, g, p, u, t
    <2>2. (2 * full) * (f * p) = (2 * p) * (full * f)
      BY <1>2, <1>6, <2>1, SMT
    <2>3. (2 * p) * (V * g) = (V * p) * (2 * g)
      BY <1>3, <1>6, <2>1, SMT
    <2> QED  BY <2>1, <2>2, <2>3
  <1>14. /\ i \in Nat /\ j \in Nat /\ j - i = (e - l) - M - 2
         /\ Unit * u = Power[i] /\ z * t = Power[j]
    <2>1. i \in Nat /\ j \in Nat /\ j - i = (e - l) - M - 2
          /\ W + l \in Nat /\ n + d \in Nat /\ a + 1 \in Nat
      BY <1>1, <1>2, <1>3, <1>5, <1>10
    <2>2. Power[(F - M) + (W + l)] = Power[F - M] * Power[W + l]
      <3> DEFINE r == F - M
                 s == W + l
      <3>1. r \in Nat /\ s \in Nat
        BY <1>10, <2>1
      <3> HIDE DEF r, s
      <3> QED  BY <3>1, PowerSum DEF r, s
    <2>3. Power[(n + d) + (a + 1)] = Power[n + d] * Power[a + 1]
      <3> DEFINE r == n + d
                 s == a + 1
      <3>1. r \in Nat /\ s \in Nat
        BY <2>1
      <3> HIDE DEF r, s
      <3> QED  BY <3>1, PowerSum DEF r, s
    <2>4. Power[n + d] = Power[n] * Power[d]
      <3> HIDE DEF n
      <3> QED  BY <1>3, <1>5, PowerSum
    <2> QED  BY <1>10, <2>1, <2>2, <2>3, <2>4
  <1> HIDE DEF u, t, z, X, i, j, p, Q, q, n, T
  <1>15. e - l \in Int
    BY <1>2, <1>5
  <1>16. Scales(e - l, full, Unit, X, z, u, t)
    <2>1. Unit * u = Power[i] * 1 /\ z * t = Power[j] * 1 /\ 1 \in Nat \ {0}
      <3>1. Power[i] \in Nat /\ Power[j] \in Nat
        BY <1>14, PowerFacts
      <3> QED  BY <1>14, <3>1
    <2>2. j - i = (e - l) - MinExponent - 2
      BY <1>14 DEF M
    <2>3. \E i_1, j_1 \in Nat, v \in Nat \ {0} :
           /\ j_1 - i_1 = (e - l) - MinExponent - 2
           /\ Unit * u = Power[i_1] * v /\ z * t = Power[j_1] * v
      BY <1>14, <2>1, <2>2
    <2> QED  BY <1>2, <1>10, <1>11, <1>12, <1>13, <1>15, <2>3, Zenon DEF Scales
  <1>17. \A c \in Int : SameSide(T - 2 * c, X - (2 * c) * z)
    BY <1>9 DEF X, z
  <1>18. Jams(T, e - l, [h \in Nat |-> 2 * full - h * Unit])
    BY <1>8, <1>16, <1>17, JamsIs
  <1>19. IsSignificand(T) /\ T >= 4 * HiddenBit
    <2>1. 16 * H <= Power[WordBits] /\ Power[WordBits] \in Nat
          /\ Power[WordBits + 1] = 2 * Power[WordBits]
      <3>1. WordBits \in Nat
        BY <1>1
      <3> QED  BY <3>1, PlacePowers, PowerFacts DEF H
    <2> QED  BY <1>1, <1>8, <2>1 DEF IsSignificand, H
  <1>20. StandsFor(T, e - l, full, full, Unit)
    BY <1>2, <1>10, <1>15, <1>18, <1>19 DEF StandsFor
  <1> QED  BY <1>7, <1>20 DEF n, l, W, F

-----------------------------------------------------------------------------
\* A number in the upper bits of a machine word, the lowest five of them clear,
\* at exponent e; g counts it in fractions of a smallest subnormal.
IsWide(A, e, g) ==
    /\ g \in Nat \ {0} /\ e \in Int /\ e + 2 * (FRACBITS - MinExponent) \in Nat
    /\ \E z \in Nat : A = 32 * z
    /\ Power[WIDE] <= A /\ A < 2 * Power[WIDE]
    /\ g * Power[WIDE] = A * Power[e + 2 * (FRACBITS - MinExponent)]

\* Small shifts drop nothing of one; others leave less than a half of another.
LEMMA ClearBits ==
    ASSUME NEW z \in Nat, NEW d \in Nat, 32 * z < 2 * Power[WIDE]
    PROVE  LET q == Power[d]
               J == Jam(32 * z, q)
           IN  /\ q \in Nat \ {0} /\ J \in Nat /\ J < 2 * Power[WIDE]
               /\ d <= 5 => J * q = 32 * z
               /\ d > 5 => J < Power[WIDE - 1]
  <1> DEFINE q == Power[d]
             B == 32 * z
             J == Jam(B, q)
             P == Power[WIDE]
             h == Power[WIDE - 1]
             m == Power[WIDE - 2]
  <1>1. P = 2 * h /\ h = 2 * m /\ m \in Nat /\ P \in Nat /\ h \in Nat
    <2>1. WIDE - 2 \in Nat /\ WIDE - 1 \in Nat
          /\ (WIDE - 2) + 1 = WIDE - 1 /\ (WIDE - 1) + 1 = WIDE
      BY FormatFacts
    <2>2. Power[(WIDE - 2) + 1] = 2 * Power[WIDE - 2] /\ Power[(WIDE - 1) + 1] = 2 * Power[WIDE - 1]
          /\ Power[WIDE - 2] \in Nat
      BY <2>1, PowerFacts
    <2> QED  BY <2>1, <2>2
  <1>2. q \in Nat \ {0} /\ B \in Nat
    BY PowerFacts
  <1>3. J \in Nat
    <2> HIDE DEF q, B
    <2> QED  BY <1>2, JamSides
  <1>4. B < 2 * P
    OBVIOUS
  <1>5. ASSUME d <= 5 PROVE J * q = B
    <2>1. /\ Power[0] = 1 /\ Power[0 + 1] = 2 * Power[0]
          /\ Power[1 + 1] = 2 * Power[1] /\ Power[2 + 1] = 2 * Power[2]
          /\ Power[3 + 1] = 2 * Power[3] /\ Power[4 + 1] = 2 * Power[4]
      BY PowerFacts
    <2>2. Power[0] = 1 /\ Power[1] = 2 /\ Power[2] = 4 /\ Power[3] = 8
          /\ Power[4] = 16 /\ Power[5] = 32
      BY <2>1
    <2>3. PICK w \in {1, 2, 4, 8, 16, 32} : w * q = 32
      <3>1. d = 0 \/ d = 1 \/ d = 2 \/ d = 3 \/ d = 4 \/ d = 5
        BY <1>5
      <3>2. q = 1 \/ q = 2 \/ q = 4 \/ q = 8 \/ q = 16 \/ q = 32
        BY <2>2, <3>1
      <3> QED  BY <3>2
    <2> HIDE DEF q
    <2>4. (z * w) * q = 32 * z /\ z * w \in Nat
      <3>1. (z * w) * q = z * (w * q)
        BY <1>2, <2>3, SMT
      <3>2. z * w \in Nat
        BY <2>3, SMT
      <3> QED  BY <2>3, <3>1, <3>2
    <2> DEFINE y_1 == z * w
    <2> HIDE DEF y_1
    <2>5. y_1 \in Nat /\ y_1 * q = B
      BY <2>4 DEF y_1
    <2>6. Jam(y_1 * q, q) = y_1
      BY <1>2, <2>5, JamOfMultiple
    <2> QED  BY <2>5, <2>6
  <1> HIDE DEF B, P, h, m
  <1>6. ASSUME d > 5 PROVE J < h
    <2>1. q >= 4
      <3>1. Power[0] = 1 /\ Power[0 + 1] = 2 * Power[0] /\ Power[1 + 1] = 2 * Power[1]
        BY PowerFacts
      <3>2. Power[2] = 4 /\ 2 < d /\ 2 \in Nat
        BY <1>6, <3>1
      <3>3. Power[2] < Power[d]
        BY <3>2, PowerGrows
      <3> QED  BY <1>2, <3>2, <3>3
    <2> HIDE DEF q
    <2>2. (2 * m) * q >= (2 * m) * 4 /\ (2 * m) * q \in Nat
      BY <1>1, <2>1, <1>2, SMT
    <2>3. ~(B >= (2 * m) * q)
      BY <1>1, <1>2, <1>4, <2>2
    <2>4. B >= (2 * m) * q <=> Jam(B, q) >= 2 * m
      BY <1>1, <1>2, JamBounds
    <2> QED  BY <1>1, <1>3, <2>3, <2>4
  <1>7. J < 2 * P
    <2> HIDE DEF q
    <2>1. (2 * P) * q >= 2 * P /\ (2 * P) * q \in Nat
      BY <1>1, <1>2, SMT
    <2>2. ~(B >= (2 * P) * q)
      BY <1>1, <1>2, <1>4, <2>1
    <2>3. B >= (2 * P) * q <=> Jam(B, q) >= 2 * P
      BY <1>1, <1>2, JamBounds
    <2> QED  BY <1>1, <1>3, <2>2, <2>3
  <1> QED  BY <1>2, <1>3, <1>5, <1>6, <1>7 DEF B, P, h

\* Two such numbers, one of them shifted to the exponent of the other: their sum
\* and their difference are sums at that exponent.
LEMMA WideAligned ==
    ASSUME NEW A, NEW B, NEW e, NEW f, NEW ghi, NEW glo,
           IsWide(A, e, ghi), IsWide(B, f, glo), e >= f
    PROVE  LET J == shift_right_jam(B, e - f)
           IN  /\ A \in Nat /\ J \in Nat
               /\ SameSide(A - J, ghi - glo)
               /\ IsSumAt(A + J, e, ghi + glo)
               /\ A > J => IsSumAt(A - J, e, ghi - glo)
               /\ J > A => IsSumAt(J - A, e, glo - ghi)
  <1> DEFINE K == 2 * (FRACBITS - MinExponent)
             P == Power[WIDE]
             h == Power[WIDE - 1]
             d == e - f
             a == f + K
             q == Power[d]
             t == Power[a]
             X == A * q
             J == Jam(B, q)
  <1>1. /\ ghi \in Nat \ {0} /\ e \in Int /\ e + K \in Nat
        /\ P <= A /\ A < 2 * P /\ ghi * P = A * Power[e + K]
    BY DEF IsWide
  <1>2. PICK z \in Nat : A = 32 * z
    BY DEF IsWide
  <1>3. /\ glo \in Nat \ {0} /\ f \in Int /\ a \in Nat
        /\ B < 2 * P /\ glo * P = B * t
    BY DEF IsWide
  <1>4. PICK w \in Nat : B = 32 * w
    BY DEF IsWide
  <1>5. P = 2 * h /\ P \in Nat \ {0} /\ h \in Nat /\ Power[WordBits] = 4 * P
        /\ WIDE \in Nat /\ WordBits = WIDE + 2
    <2>1. WIDE \in Nat /\ WIDE - 1 \in Nat /\ (WIDE - 1) + 1 = WIDE /\ WIDE + 1 \in Nat
          /\ (WIDE + 1) + 1 = WordBits /\ WordBits = WIDE + 2
      BY FormatFacts DEF WordBits
    <2>2. Power[WIDE] \in Nat \ {0} /\ Power[WIDE - 1] \in Nat
          /\ Power[(WIDE - 1) + 1] = 2 * Power[WIDE - 1]
          /\ Power[WIDE + 1] = 2 * Power[WIDE] /\ Power[(WIDE + 1) + 1] = 2 * Power[WIDE + 1]
      BY <2>1, PowerFacts
    <2> QED  BY <2>1, <2>2
  <1>6. d \in Nat /\ a + d = e + K /\ A \in Nat /\ B \in Nat
    <2>1. K \in Int
      BY FormatFacts
    <2> HIDE DEF K
    <2>2. d \in Nat /\ a + d = e + K
      BY <1>1, <1>3, <2>1
    <2> QED  BY <1>2, <1>4, <2>2
  <1>7. /\ q \in Nat \ {0} /\ J \in Nat /\ J < 2 * P
        /\ d <= 5 => J * q = B
        /\ d > 5 => J < h
    <2> HIDE DEF d
    <2> QED  BY <1>3, <1>4, <1>6, ClearBits
  <1>8. shift_right_jam(B, e - f) = J
    <2>1. B < Power[WordBits]
      <3> HIDE DEF P
      <3> QED  BY <1>3, <1>5, <1>6
    <2> HIDE DEF d
    <2>2. shift_right_jam(B, d) = Jam(B, Power[d])
      BY <1>6, <2>1, ShiftRightJam
    <2> QED  BY <2>2 DEF d
  <1>9. t \in Nat \ {0} /\ Power[e + K] = t * q
    <2>1. Power[a + d] = Power[a] * Power[d]
      <3> HIDE DEF a, d
      <3> QED  BY <1>3, <1>6, PowerSum
    <2>2. Power[a] \in Nat \ {0}
      <3> HIDE DEF a
      <3> QED  BY <1>3, PowerFacts
    <2> QED  BY <1>6, <2>1, <2>2
  <1> HIDE DEF K, P, h, d, a, q, t, J
  <1>10. X \in Nat /\ ghi * P = X * t
    <2>1. A * (t * q) = (A * q) * t /\ A * q \in Nat
      BY <1>6, <1>7, <1>9, SMT
    <2> QED  BY <1>1, <1>9, <2>1
  <1>11. /\ (ghi + glo) * P = (X + B) * t
         /\ (ghi - glo) * P = (X - B) * t
         /\ (glo - ghi) * P = (B - X) * t
    <2> HIDE DEF X
    <2>1. (ghi + glo) * P = ghi * P + glo * P /\ (X + B) * t = X * t + B * t
      BY <1>1, <1>3, <1>5, <1>6, <1>9, <1>10, SMT
    <2>2. (ghi - glo) * P = ghi * P - glo * P /\ (X - B) * t = X * t - B * t
      BY <1>1, <1>3, <1>5, <1>6, <1>9, <1>10, SMT
    <2>3. (glo - ghi) * P = glo * P - ghi * P /\ (B - X) * t = B * t - X * t
      BY <1>1, <1>3, <1>5, <1>6, <1>9, <1>10, SMT
    <2> QED  BY <1>3, <1>10, <2>1, <2>2, <2>3
  <1>12. ASSUME NEW k \in Int
         PROVE  /\ SameSide((A + J) - 2 * k, (X + B) - (2 * k) * q)
                /\ SameSide(A - J - 2 * k, X - B - (2 * k) * q)
                /\ SameSide(J - A - 2 * k, B - X - (2 * k) * q)
    <2> DEFINE b == 16 * z
    <2>1. b \in Nat /\ A = 2 * b
      BY <1>2
    <2> HIDE DEF b
    <2>2. /\ SameSide((2 * b + J) - 2 * k, ((2 * b) * q + B) - (2 * k) * q)
          /\ SameSide(2 * b - J - 2 * k, (2 * b) * q - B - (2 * k) * q)
          /\ SameSide(J - 2 * b - 2 * k, B - (2 * b) * q - (2 * k) * q)
      BY <1>6, <1>7, <2>1, SidesOfSum DEF J
    <2> QED  BY <2>1, <2>2
  <1> HIDE DEF X
  <1>13. SameSide(A - J, X - B) /\ SameSide(J - A, B - X)
    <2>1. 0 \in Int /\ 2 * 0 = 0 /\ 0 * q = 0
      BY <1>7
    <2>2. SameSide(A - J - 2 * 0, X - B - (2 * 0) * q) /\ SameSide(J - A - 2 * 0, B - X - (2 * 0) * q)
      BY <1>12, <2>1, Zenon
    <2>3. A - J - 0 = A - J /\ J - A - 0 = J - A /\ X - B - 0 = X - B /\ B - X - 0 = B - X
      BY <1>6, <1>7, <1>10
    <2> QED  BY <2>1, <2>2, <2>3
  <1>14. SameSide(A - J, ghi - glo)
    <2> DEFINE k == ghi - glo
               l == X - B
    <2>1. k \in Int /\ l \in Int /\ k * P = l * t
      BY <1>1, <1>3, <1>6, <1>10, <1>11
    <2> HIDE DEF k, l
    <2>2. SameSide(k, k * P) /\ SameSide(l, l * t)
      BY <1>5, <1>9, <2>1, SideScaled
    <2> QED  BY <1>13, <2>1, <2>2 DEF SameSide, k, l
  <1>15. ASSUME NEW S \in Nat \ {0}, S < 4 * P, NEW full \in Nat, NEW V \in Nat,
                full * P = V * t,
                V = S * q \/ (S >= h /\ \A k \in Int : SameSide(S - 2 * k, V - (2 * k) * q))
         PROVE  IsSumAt(S, e, full)
    <2>1. a + d = e + 2 * (FRACBITS - MinExponent)
      BY <1>6 DEF K
    <2>2. full * Power[WIDE] = V * Power[a] /\ S < Power[WordBits]
      BY <1>5, <1>15 DEF P, t
    <2>3. \/ V = S * Power[d]
          \/ /\ S >= Power[WIDE - 1]
             /\ \A k \in Int : SameSide(S - 2 * k, V - (2 * k) * Power[d])
      BY <1>15 DEF h, q
    <2> QED  BY <1>1, <1>3, <1>6, <1>15, <2>1, <2>2, <2>3, Zenon DEF IsSumAt
  <1>16. IsSumAt(A + J, e, ghi + glo)
    <2> DEFINE S == A + J
               V == X + B
               full == ghi + glo
    <2>1. S \in Nat \ {0} /\ S < 4 * P /\ S >= h /\ full \in Nat /\ V \in Nat
      BY <1>1, <1>3, <1>5, <1>6, <1>7, <1>10
    <2>2. full * P = V * t
      BY <1>11
    <2>3. \A k \in Int : SameSide(S - 2 * k, V - (2 * k) * q)
      BY <1>12
    <2> HIDE DEF S, V, full
    <2>4. IsSumAt(S, e, full)
      BY <1>15, <2>1, <2>2, <2>3
    <2> QED  BY <2>4 DEF S, full
  <1>17. d <= 5 => (A - J) * q = X - B /\ (J - A) * q = B - X
    <2>1. (A - J) * q = A * q - J * q /\ (J - A) * q = J * q - A * q
      BY <1>6, <1>7, SMT
    <2> QED  BY <1>7, <2>1 DEF X
  <1>18. /\ A - J < 0 <=> ghi - glo < 0
         /\ A - J = 0 <=> ghi - glo = 0
         /\ A - J < 0 <=> X - B < 0
         /\ A - J = 0 <=> X - B = 0
    BY <1>13, <1>14 DEF SameSide
  <1>19. ASSUME A > J PROVE IsSumAt(A - J, e, ghi - glo)
    <2> DEFINE S == A - J
               V == X - B
               full == ghi - glo
    <2>1. S \in Nat \ {0} /\ S < 4 * P /\ full \in Nat /\ V \in Nat
      BY <1>1, <1>3, <1>5, <1>6, <1>7, <1>10, <1>18, <1>19
    <2>2. full * P = V * t
      BY <1>11
    <2>3. \A k \in Int : SameSide(S - 2 * k, V - (2 * k) * q)
      BY <1>12
    <2>4. V = S * q \/ S >= h
      <3>1. CASE d <= 5
        BY <1>17, <3>1
      <3>2. CASE d > 5
        BY <1>1, <1>5, <1>6, <1>7, <3>2
      <3> QED  BY <1>6, <3>1, <3>2
    <2> HIDE DEF S, V, full
    <2>5. IsSumAt(S, e, full)
      BY <1>15, <2>1, <2>2, <2>3, <2>4
    <2> QED  BY <2>5 DEF S, full
  <1>20. ASSUME J > A PROVE IsSumAt(J - A, e, glo - ghi)
    <2> DEFINE S == J - A
               V == B - X
               full == glo - ghi
    <2>1. S \in Nat \ {0} /\ S < 4 * P /\ full \in Nat /\ V \in Nat
      BY <1>1, <1>3, <1>5, <1>6, <1>7, <1>10, <1>18, <1>20
    <2>2. full * P = V * t
      BY <1>11
    <2>3. d <= 5
      BY <1>1, <1>5, <1>6, <1>7, <1>20
    <2>4. V = S * q
      BY <1>17, <2>3
    <2> HIDE DEF S, V, full
    <2>5. IsSumAt(S, e, full)
      BY <1>15, <2>1, <2>2, <2>4
    <2> QED  BY <2>5 DEF S, full
  <1> QED  BY <1>6, <1>7, <1>8, <1>14, <1>16, <1>19, <1>20

-----------------------------------------------------------------------------
\* A sum of compute_fma as fma packs it.
PackedSum(sum, e, rm) ==
    LET S == sum.significand
    IN  IF S = 0 THEN Exact(rm = "Rdn", 0)
        ELSE round_and_pack(sum.sign, e - Lift(S),
                            shift_right_jam(S * 2^Lift(S), WIDE - FRACBITS - 3), rm)

\* The product p that the reference adds to an addend g where the exact one is
\* full: the same, or one beside which the addend does not count.
IsCut(p, full, g) ==
    /\ p \in Nat /\ full \in Nat /\ g \in Nat
    /\ \/ p = full
       \/ /\ full >= p /\ p >= (2 * Grid[Infinity]) * Unit
          /\ g < Grid[Infinity] * Unit

\* Adding aligned numbers by their signs, or cancelling them.
LEMMA FusedSum ==
    ASSUME NEW P \in Nat, NEW Q \in Nat, NEW e, NEW gl \in Nat \ {0}, NEW gr \in Nat,
           SameSide(P - Q, gl - gr),
           IsSumAt(P + Q, e, gl + gr),
           P > Q => IsSumAt(P - Q, e, gl - gr),
           Q > P => IsSumAt(Q - P, e, gr - gl),
           NEW p, IsCut(p, gl, gr),
           NEW nl \in BOOLEAN, NEW nr \in BOOLEAN, NEW rm \in RoundingModes
    PROVE  LET jl == IF nl THEN -p ELSE p
               jr == IF nr THEN -gr ELSE gr
           IN  PackedSum(SignedSum(nl, P, nr, Q), e, rm)
                  = Raised(RoundedSum(jl, jr, Unit, nl, nr)[rm])
  <1> DEFINE sum == SignedSum(nl, P, nr, Q)
             jl == IF nl THEN -p ELSE p
             jr == IF nr THEN -gr ELSE gr
             code == PackedSum(sum, e, rm)
             total == jl + jr
             G == Grid[Infinity] * Unit
  <1> SUFFICES code = Raised(RoundedSum(jl, jr, Unit, nl, nr)[rm])
    OBVIOUS
  <1>0. /\ p \in Nat /\ G \in Nat /\ G > 0
        /\ p = gl \/ (gl >= p /\ p >= 2 * G /\ gr < G)
    <2> DEFINE g == Grid[Infinity]
               u == Unit
    <2>1. g \in Nat /\ g > 0 /\ u \in Nat \ {0}
      BY GridTop, UnitIs
    <2>2. p \in Nat /\ (p = gl \/ (gl >= p /\ p >= (2 * g) * u /\ gr < g * u))
      BY DEF IsCut
    <2> HIDE DEF g, u
    <2>3. (2 * g) * u = 2 * (g * u) /\ g * u \in Nat /\ g * u > 0
      BY <2>1, SMT
    <2> QED  BY <2>2, <2>3 DEF g, u
  <1> HIDE DEF G
  <1>1. jl \in Int /\ jr \in Int
    BY <1>0
  <1>2. /\ total = 0 => RoundedSum(jl, jr, Unit, nl, nr)[rm]
                          = Result(Signed(IF nl = nr THEN nl ELSE rm = "Rdn", 0), {})
        /\ total # 0 => RoundedSum(jl, jr, Unit, nl, nr)[rm]
                          = RoundedQuotient(Abs(total), Unit, total < 0)[rm]
    <2> HIDE DEF jl, jr
    <2> QED  BY <1>1, RoundedSumIs
  <1>3. ASSUME NEW S, NEW full, NEW num \in Nat \ {0}, IsSumAt(S, e, full),
               num = full \/ (full >= num /\ num > G),
               NEW negative \in BOOLEAN,
               total = IF negative THEN -num ELSE num,
               sum = [sign |-> negative, significand |-> S]
        PROVE  code = Raised(RoundedSum(jl, jr, Unit, nl, nr)[rm])
    <2>1. total # 0 /\ Abs(total) = num /\ (total < 0) = negative
      <3> HIDE DEF total
      <3> QED  BY <1>3 DEF Abs
    <2>2. S # 0
      BY <1>3 DEF IsSumAt
    <2> DEFINE l == Lift(S)
               T == shift_right_jam(S * 2^l, WIDE - FRACBITS - 3)
    <2>3. StandsFor(T, e - l, full, full, Unit)
      BY <1>3, SumNormalised
    <2>4. code = round_and_pack(negative, e - l, T, rm)
      BY <1>3, <2>2 DEF PackedSum
    <2> HIDE DEF l, T, code, total, sum
    <2>5. StandsFor(T, e - l, full, num, Unit)
      BY <1>3, <2>3 DEF StandsFor, G
    <2>6. round_and_pack(negative, e - l, T, rm)
             = Raised(RoundedQuotient(num, Unit, negative)[rm])
      BY <1>3, <2>5, FractionRounded
    <2> QED  BY <1>2, <2>1, <2>4, <2>6
  <1>4. (P - Q < 0 <=> gl - gr < 0) /\ (P - Q = 0 <=> gl - gr = 0)
    BY DEF SameSide
  <1>5. CASE nl = nr
    <2>1. sum = [sign |-> nl, significand |-> P + Q]
      BY <1>5 DEF SignedSum
    <2>2. total = IF nl THEN -(p + gr) ELSE p + gr
      BY <1>0, <1>5
    <2>3. p + gr \in Nat \ {0} /\ (p + gr = gl + gr \/ (gl + gr >= p + gr /\ p + gr > G))
      BY <1>0
    <2> HIDE DEF code, total, sum, jl, jr
    <2> QED  BY <1>3, <2>1, <2>2, <2>3
  <1>6. CASE nl # nr /\ P > Q
    <2>1. sum = [sign |-> nl, significand |-> P - Q]
      BY <1>6 DEF SignedSum
    <2>2. total = IF nl THEN -(p - gr) ELSE p - gr
      BY <1>0, <1>6
    <2>3. p - gr \in Nat \ {0} /\ (p - gr = gl - gr \/ (gl - gr >= p - gr /\ p - gr > G))
      BY <1>0, <1>4, <1>6
    <2> HIDE DEF code, total, sum, jl, jr
    <2> QED  BY <1>3, <1>6, <2>1, <2>2, <2>3
  <1>7. CASE nl # nr /\ Q > P
    <2>1. sum = [sign |-> nr, significand |-> Q - P]
      BY <1>7 DEF SignedSum
    <2>2. gr > gl /\ p = gl
      BY <1>0, <1>4, <1>7
    <2>3. total = IF nr THEN -(gr - p) ELSE gr - p
      BY <1>0, <1>7
    <2>4. gr - p \in Nat \ {0} /\ gr - p = gr - gl
      BY <2>2
    <2> HIDE DEF code, total, sum, jl, jr
    <2> QED  BY <1>3, <1>7, <2>1, <2>3, <2>4
  <1>8. CASE nl # nr /\ P = Q
    <2>1. sum.significand = 0
      BY <1>8 DEF SignedSum
    <2>2. gr = gl /\ p = gl
      BY <1>0, <1>4, <1>8
    <2>3. total = 0
      BY <1>8, <2>2
    <2>4. code = Exact(rm = "Rdn", 0)
      BY <2>1 DEF PackedSum
    <2> HIDE DEF total, jl, jr, code
    <2>5. RoundedSum(jl, jr, Unit, nl, nr)[rm] = Exact(rm = "Rdn", 0)
      BY <1>2, <1>8, <2>3 DEF Exact
    <2>6. Raised(Exact(rm = "Rdn", 0)) = Exact(rm = "Rdn", 0)
      BY RaisedExact
    <2> QED  BY <2>4, <2>5, <2>6
  <1> QED  BY <1>5, <1>6, <1>7, <1>8

\* compute_fma's product is a number in the upper bits.
LEMMA ProductIsWide ==
    ASSUME NEW lhs, NEW rhs, NEW gl, NEW gr, IsScaled(lhs, gl), IsScaled(rhs, gr)
    PROVE  LET p == Product(lhs, rhs)
           IN  IsWide(p.significand * 2^(WIDE - 2 * FRACBITS - (IF p.at_least_two THEN 1 ELSE 0)),
                      p.exponent, gl * gr)
  <1> DEFINE H == HiddenBit
             F == FRACBITS
             M == MinExponent
             W == WIDE
             sl == lhs.significand
             sr == rhs.significand
             el == lhs.exponent
             er == rhs.exponent
             al == el - M + F
             ar == er - M + F
             p == sl * sr
             two == p >= 2^(2 * F + 1)
             a == IF two THEN 1 ELSE 0
             k == W - 2 * F - a
             e == el + er + a
             A == p * Power[k]
             g == gl * gr
             hh == H * H
  <1>1. /\ H \in Nat /\ H >= 8 /\ F \in Nat /\ F >= 3 /\ H = Power[F] /\ M \in Int
        /\ W \in Nat /\ W >= 2 * F + 6 /\ Power[EXPBITS] \in Nat /\ M <= 0
        /\ \A n \in 0 .. W + 3 : 2^n = Power[n]
    BY FormatFacts
  <1>2. /\ gl \in Nat \ {0} /\ gr \in Nat \ {0}
        /\ sl \in Nat /\ sr \in Nat /\ H <= sl /\ sl < 2 * H /\ H <= sr /\ sr < 2 * H
        /\ el \in Int /\ er \in Int /\ al \in Nat /\ ar \in Nat
        /\ gl * H = sl * Power[al] /\ gr * H = sr * Power[ar]
    BY <1>1 DEF IsScaled
  <1>3. 2^(2 * F + 1) = 2 * hh
    <2>1. 2 * F + 1 \in 0 .. W + 3 /\ 2 * F + 1 = (F + F) + 1 /\ F + F \in Nat
      BY <1>1
    <2>2. 2^(2 * F + 1) = Power[(F + F) + 1]
      BY <1>1, <2>1
    <2>3. Power[(F + F) + 1] = 2 * Power[F + F]
      BY <2>1, PowerFacts
    <2>4. Power[F + F] = Power[F] * Power[F]
      BY <1>1, PowerSum
    <2> QED  BY <1>1, <2>2, <2>3, <2>4
  <1>4. p \in Nat /\ hh \in Nat /\ hh <= p /\ p < 4 * hh /\ hh >= 1
    <2> HIDE DEF H, sl, sr
    <2>1. sl * sr >= H * sr /\ H * sr >= H * H /\ sl * sr < (2 * H) * sr
          /\ (2 * H) * sr < (2 * H) * (2 * H) /\ H * sr \in Nat
      BY <1>1, <1>2, SMT
    <2>2. (2 * H) * (2 * H) = 4 * (H * H) /\ H * H \in Nat /\ H * H >= 1
          /\ (2 * H) * sr \in Nat /\ sl * sr \in Nat
      BY <1>1, <1>2, SMT
    <2> QED  BY <2>1, <2>2
  <1> DEFINE left == p * 2^(W - 2 * F - a)
  <1>5. Product(lhs, rhs) = [significand |-> p, at_least_two |-> two, exponent |-> e]
    BY DEF Product
  <1>6. LET P == Product(lhs, rhs)
        IN  /\ P.significand * 2^(WIDE - 2 * FRACBITS - (IF P.at_least_two THEN 1 ELSE 0)) = left
            /\ P.exponent = e
    <2> HIDE DEF p, two, e
    <2> QED  BY <1>5
  <1> HIDE DEF H, F, M, W, sl, sr, el, er, p
  <1>7. a \in {0, 1} /\ (a = 0 => hh <= p /\ p < 2 * hh) /\ (a = 1 => 2 * hh <= p /\ p < 4 * hh)
    BY <1>3, <1>4
  <1> HIDE DEF two, a
  <1>8. k \in Nat /\ k >= 5 /\ k <= W /\ Power[k] \in Nat \ {0} /\ left = A
    <2>1. k \in Nat /\ k >= 5 /\ k <= W /\ k \in 0 .. W + 3
      BY <1>1, <1>7
    <2>2. Power[k] \in Nat \ {0} /\ 2^k = Power[k]
      <3> HIDE DEF k
      <3> QED  BY <1>1, <2>1, PowerFacts
    <2> QED  BY <2>1, <2>2
  <1> DEFINE b == Power[a]
             c == Power[k]
             P == Power[W]
             K == 2 * (F - M)
             t == Power[e + K]
  <1>9. b \in {1, 2} /\ (a = 0 <=> b = 1) /\ b * hh <= p /\ p < (2 * b) * hh
    <2>1. Power[0] = 1 /\ Power[0 + 1] = 2 * Power[0]
      BY PowerFacts
    <2>2. Power[0] = 1 /\ Power[1] = 2
      BY <2>1
    <2> HIDE DEF hh
    <2> QED  BY <1>4, <1>7, <2>2
  <1>10. P = (b * hh) * c
    <2>1. F + F \in Nat /\ a \in Nat /\ a + (F + F) \in Nat /\ (a + (F + F)) + k = W
      BY <1>1, <1>7
    <2> HIDE DEF k
    <2>2. Power[F + F] = Power[F] * Power[F]
      BY <1>1, PowerSum
    <2>3. Power[a + (F + F)] = Power[a] * Power[F + F]
      BY <2>1, PowerSum
    <2>4. Power[(a + (F + F)) + k] = Power[a + (F + F)] * Power[k]
      BY <1>8, <2>1, PowerSum
    <2> QED  BY <1>1, <2>1, <2>2, <2>3, <2>4
  <1>11. P <= A /\ A < 2 * P
    <2> DEFINE f == b * hh
    <2>1. f \in Nat /\ f <= p /\ p < 2 * f /\ c \in Nat \ {0}
      <3>1. (2 * b) * hh = 2 * (b * hh) /\ b * hh \in Nat
        <4> HIDE DEF b, hh
        <4> QED  BY <1>4, <1>9, SMT
      <3> QED  BY <1>8, <1>9, <3>1
    <2> HIDE DEF f, c
    <2>2. f * c <= p * c /\ p * c < (2 * f) * c /\ (2 * f) * c = 2 * (f * c)
      BY <1>4, <2>1, SMT
    <2> QED  BY <1>10, <2>2 DEF f, c
  <1>12. \E z \in Nat : A = 32 * z
    <2>1. k - 5 \in Nat /\ 5 + (k - 5) = k
      BY <1>8
    <2>2. /\ Power[0] = 1 /\ Power[0 + 1] = 2 * Power[0]
          /\ Power[1 + 1] = 2 * Power[1] /\ Power[2 + 1] = 2 * Power[2]
          /\ Power[3 + 1] = 2 * Power[3] /\ Power[4 + 1] = 2 * Power[4]
      BY PowerFacts
    <2>3. Power[5] = 32
      BY <2>2
    <2> DEFINE m == k - 5
               q == Power[m]
    <2>4. m \in Nat /\ 5 + m = k /\ 5 \in Nat
      BY <2>1
    <2> HIDE DEF m, k
    <2>5. Power[5 + m] = Power[5] * Power[m] /\ q \in Nat
      BY <2>4, PowerSum, PowerFacts
    <2>6. c = 32 * q
      BY <2>3, <2>4, <2>5
    <2> HIDE DEF q
    <2>7. p * (32 * q) = 32 * (p * q) /\ p * q \in Nat
      BY <1>4, <2>5, SMT
    <2> QED  BY <2>6, <2>7
  <1>13. e \in Int /\ e + K \in Nat /\ g \in Nat \ {0}
    <2>1. e \in Int /\ e + K \in Nat
      BY <1>1, <1>2, <1>7
    <2>2. g \in Nat \ {0}
      BY <1>2, SMT
    <2> QED  BY <2>1, <2>2
  <1>14. g * P = A * t
    <2> DEFINE r == Power[al]
               s == Power[ar]
    <2>1. r \in Nat /\ s \in Nat /\ gl * H = sl * r /\ gr * H = sr * s
      BY <1>2, PowerFacts
    <2>2. t = b * (r * s)
      <3>1. e + K = a + (al + ar) /\ al + ar \in Nat /\ a \in Nat
        BY <1>1, <1>2, <1>7
      <3> HIDE DEF al, ar, e, K
      <3>2. Power[al + ar] = Power[al] * Power[ar]
        BY <1>2, PowerSum
      <3>3. Power[a + (al + ar)] = Power[a] * Power[al + ar]
        BY <3>1, PowerSum
      <3> QED  BY <3>1, <3>2, <3>3
    <2>3. b \in Nat /\ c \in Nat
      BY <1>8, <1>9
    <2> HIDE DEF r, s, t, b, c
    <2>4. (gl * gr) * ((b * (H * H)) * c) = (b * c) * ((gl * H) * (gr * H))
      BY <1>1, <1>2, <2>3, SMT
    <2>5. (b * c) * ((sl * r) * (sr * s)) = ((sl * sr) * c) * (b * (r * s))
      BY <1>2, <2>1, <2>3, SMT
    <2> QED  BY <1>10, <2>1, <2>2, <2>4, <2>5 DEF p, c
  <1> HIDE DEF A, left, e, g
  <1>15. IsWide(A, e, g)
    BY <1>11, <1>12, <1>13, <1>14 DEF IsWide, W, F, M
  <1> QED  BY <1>6, <1>8, <1>15 DEF g

\* So is the addend.
LEMMA AddendIsWide ==
    ASSUME NEW u, NEW g, IsScaled(u, g)
    PROVE  IsWide(u.significand * 2^(WIDE - FRACBITS), u.exponent, g * Unit)
  <1> DEFINE H == HiddenBit
             F == FRACBITS
             M == MinExponent
             W == WIDE
             s == u.significand
             E == u.exponent
             a == E - M + F
             k == W - F
             K == 2 * (F - M)
             c == Power[k]
             A == s * c
             t == Power[E + K]
             P == Power[W]
  <1>1. /\ H \in Nat /\ H >= 8 /\ F \in Nat /\ F >= 3 /\ H = Power[F] /\ M \in Int
        /\ W \in Nat /\ W >= 2 * F + 6 /\ Power[EXPBITS] \in Nat /\ M <= 0
        /\ \A n \in 0 .. W + 3 : 2^n = Power[n]
    BY FormatFacts
  <1>2. /\ g \in Nat \ {0} /\ s \in Nat /\ H <= s /\ s < 2 * H
        /\ E \in Int /\ a \in Nat /\ g * H = s * Power[a]
    BY <1>1 DEF IsScaled
  <1>3. Unit \in Nat \ {0} /\ F - M \in Nat /\ Unit = Power[F - M]
    BY UnitIs DEF F, M
  <1> HIDE DEF H, F, M, W, s, E
  <1>4. k \in Nat /\ k >= 5 /\ F + k = W /\ c \in Nat \ {0} /\ 2^k = c
    <2>1. k \in Nat /\ k >= 5 /\ F + k = W /\ k \in 0 .. W + 3
      BY <1>1
    <2> HIDE DEF k
    <2> QED  BY <1>1, <2>1, PowerFacts
  <1>5. P = H * c
    <2> HIDE DEF k
    <2>1. Power[F + k] = Power[F] * Power[k]
      BY <1>1, <1>4, PowerSum
    <2> QED  BY <1>1, <1>4, <2>1
  <1>6. P <= A /\ A < 2 * P
    <2> HIDE DEF c
    <2>1. H * c <= s * c /\ s * c < (2 * H) * c /\ (2 * H) * c = 2 * (H * c)
      BY <1>1, <1>2, <1>4, SMT
    <2> QED  BY <1>5, <2>1
  <1>7. \E z \in Nat : A = 32 * z
    <2>1. /\ Power[0] = 1 /\ Power[0 + 1] = 2 * Power[0]
          /\ Power[1 + 1] = 2 * Power[1] /\ Power[2 + 1] = 2 * Power[2]
          /\ Power[3 + 1] = 2 * Power[3] /\ Power[4 + 1] = 2 * Power[4]
      BY PowerFacts
    <2>2. Power[5] = 32
      BY <2>1
    <2> DEFINE m == k - 5
               q == Power[m]
    <2>3. m \in Nat /\ 5 + m = k /\ 5 \in Nat
      BY <1>4
    <2> HIDE DEF m, k
    <2>4. Power[5 + m] = Power[5] * Power[m] /\ q \in Nat
      BY <2>3, PowerSum, PowerFacts
    <2>5. c = 32 * q
      BY <2>2, <2>3, <2>4
    <2> HIDE DEF q
    <2>6. s * (32 * q) = 32 * (s * q) /\ s * q \in Nat
      BY <1>2, <2>4, SMT
    <2> QED  BY <2>5, <2>6
  <1>8. E + K \in Nat /\ g * Unit \in Nat \ {0}
    <2>1. E + K \in Nat
      BY <1>1, <1>2, <1>3
    <2>2. g * Unit \in Nat \ {0}
      BY <1>2, <1>3, SMT
    <2> QED  BY <2>1, <2>2
  <1>9. (g * Unit) * P = A * t
    <2> DEFINE r == Power[a]
               v == Power[F - M]
    <2>1. r \in Nat /\ v \in Nat /\ g * H = s * r /\ Unit = v
      BY <1>2, <1>3, PowerFacts
    <2>2. t = r * v
      <3>1. E + K = a + (F - M)
        BY <1>1, <1>2
      <3> DEFINE w == F - M
      <3>2. w \in Nat
        BY <1>3
      <3> HIDE DEF a, w, K
      <3>3. Power[a + w] = Power[a] * Power[w]
        BY <1>2, <3>2, PowerSum
      <3> QED  BY <3>1, <3>3 DEF w
    <2> HIDE DEF r, v, t, c
    <2>3. (g * v) * (H * c) = (v * c) * (g * H)
      BY <1>1, <1>2, <1>4, <2>1, SMT
    <2>4. (v * c) * (s * r) = (s * c) * (r * v)
      BY <1>2, <1>4, <2>1, SMT
    <2> QED  BY <1>5, <2>1, <2>2, <2>3, <2>4
  <1> HIDE DEF A
  <1>10. IsWide(A, E, g * Unit)
    BY <1>2, <1>6, <1>7, <1>8, <1>9 DEF IsWide, W, F, M
  <1> QED  BY <1>4, <1>10 DEF A, s, E, W, F

-----------------------------------------------------------------------------
\* A wide number by itself is a sum at its exponent.
LEMMA WideAlone ==
    ASSUME NEW A, NEW e, NEW g, IsWide(A, e, g)
    PROVE  A \in Nat /\ A > 0 /\ IsSumAt(A, e, g)
  <1> DEFINE K == 2 * (FRACBITS - MinExponent)
             P == Power[WIDE]
  <1>1. /\ g \in Nat \ {0} /\ e \in Int /\ e + K \in Nat
        /\ P <= A /\ A < 2 * P /\ g * P = A * Power[e + K]
    BY DEF IsWide
  <1>2. A \in Nat
    BY DEF IsWide
  <1>3. P \in Nat \ {0} /\ Power[WordBits] = 4 * P
    <2>1. WIDE \in Nat /\ WIDE + 1 \in Nat /\ (WIDE + 1) + 1 = WordBits
      BY FormatFacts DEF WordBits
    <2>2. Power[WIDE] \in Nat \ {0}
          /\ Power[WIDE + 1] = 2 * Power[WIDE] /\ Power[(WIDE + 1) + 1] = 2 * Power[WIDE + 1]
      BY <2>1, PowerFacts
    <2> QED  BY <2>1, <2>2
  <1> DEFINE a == e + K
  <1>4. a + 0 = e + K /\ a \in Nat /\ 0 \in Nat /\ A = A * Power[0]
    <2>1. Power[0] = 1
      BY PowerFacts
    <2> QED  BY <1>1, <1>2, <2>1
  <1>5. A > 0 /\ A \in Nat \ {0} /\ A < Power[WordBits]
    <2> HIDE DEF P
    <2> QED  BY <1>1, <1>2, <1>3
  <1> HIDE DEF a, P
  <1>6. \E d, b, V \in Nat :
           /\ b + d = e + 2 * (FRACBITS - MinExponent)
           /\ g * Power[WIDE] = V * Power[b]
           /\ \/ V = A * Power[d]
              \/ /\ A >= Power[WIDE - 1]
                 /\ \A k \in Int : SameSide(A - 2 * k, V - (2 * k) * Power[d])
    <2>1. g * Power[WIDE] = A * Power[a]
      BY <1>1 DEF P, a
    <2> QED  BY <1>2, <1>4, <2>1
  <1> QED  BY <1>1, <1>2, <1>5, <1>6, Zenon DEF IsSumAt

\* Packing nothing gives a zero of the sign.
LEMMA PackZero ==
    ASSUME NEW negative, NEW e, NEW rm
    PROVE  round_and_pack(negative, e, 0, rm) = Exact(negative, 0)
  BY DEF round_and_pack, Exact

\* What compute_fma and round_and_pack make of three numbers, of which the
\* addend may be zero.
IsAddend(addend, g) ==
    \/ IsZero(addend) /\ addend.significand = 0 /\ g = 0
    \/ ~IsZero(addend) /\ IsScaled(addend, g)

CutsProduct(p, gl, gr, gc) == IsCut(p, gl * gr, gc * Unit)
AreSigns(nl, nr) == nl \in BOOLEAN /\ nr \in BOOLEAN
IsTerm(term, negative, magnitude) == term = IF negative THEN -magnitude ELSE magnitude

FusedPack(lhs, rhs, addend, nl, nr, rm) ==
    LET sum == compute_fma(lhs, rhs, addend, nl, nr)
    IN  round_and_pack(IF sum.significand = 0 THEN rm = "Rdn" ELSE sum.sign,
                       sum.exponent, sum.significand, rm)

\* What compute_fma aligns of product and addend, and what it knows of them.
FusedParts(lhs, rhs, addend) ==
    LET p == Product(lhs, rhs)
    IN  Align(p.exponent,
              p.significand * 2^(WIDE - 2 * FRACBITS - (IF p.at_least_two THEN 1 ELSE 0)),
              IF IsZero(addend) THEN p.exponent ELSE addend.exponent,
              addend.significand * 2^(WIDE - FRACBITS))
AreFusedParts(parts, full, g) ==
    \E P, Q \in Nat, x_1 \in Int :
        /\ parts = [exponent |-> x_1, lhs |-> P, rhs |-> Q]
        /\ SameSide(P - Q, full - g)
        /\ IsSumAt(P + Q, x_1, full + g)
        /\ P > Q => IsSumAt(P - Q, x_1, full - g)
        /\ Q > P => IsSumAt(Q - P, x_1, g - full)

\* Aligning the two, whichever has the larger exponent.
LEMMA FusedPartsAre ==
    ASSUME NEW lhs, NEW rhs, NEW addend, NEW gl, NEW gr, NEW gc,
           IsScaled(lhs, gl), IsScaled(rhs, gr), IsAddend(addend, gc)
    PROVE  /\ gl * gr \in Nat \ {0} /\ gc * Unit \in Nat
           /\ AreFusedParts(FusedParts(lhs, rhs, addend), gl * gr, gc * Unit)
  <1> DEFINE prod == Product(lhs, rhs)
             A == prod.significand * 2^(WIDE - 2 * FRACBITS - (IF prod.at_least_two THEN 1 ELSE 0))
             e == prod.exponent
             B == addend.significand * 2^(WIDE - FRACBITS)
             f == IF IsZero(addend) THEN e ELSE addend.exponent
             aligned == Align(e, A, f, B)
             full == gl * gr
             g == gc * Unit
             want == AreFusedParts(aligned, full, g)
  <1>1. FusedParts(lhs, rhs, addend) = aligned
    BY DEF FusedParts
  <1>2. IsWide(A, e, full)
    BY ProductIsWide
  <1>3. full \in Nat \ {0} /\ g \in Nat
    <2>1. gc \in Nat /\ Unit \in Nat
      BY UnitIs DEF IsAddend, IsScaled
    <2>2. gc * Unit \in Nat
      BY <2>1, SMT
    <2> QED  BY <1>2, <2>2 DEF IsWide
  <1>4. ASSUME NEW P \in Nat, NEW Q \in Nat, NEW x_1 \in Int,
               aligned = [exponent |-> x_1, lhs |-> P, rhs |-> Q],
               SameSide(P - Q, full - g),
               IsSumAt(P + Q, x_1, full + g),
               P > Q => IsSumAt(P - Q, x_1, full - g),
               Q > P => IsSumAt(Q - P, x_1, g - full)
        PROVE  want
    BY <1>4, Zenon DEF AreFusedParts
  <1> SUFFICES want
    BY <1>1, <1>3
  <1>5. CASE IsZero(addend) /\ addend.significand = 0 /\ gc = 0
    <2>1. g = 0
      <3>1. Unit \in Nat
        BY UnitIs
      <3> QED  BY <1>5, <3>1
    <2>2. B = 0
      <3>1. 2^(WIDE - FRACBITS) \in Int
        BY <1>5, FormatFacts, PowerFacts
      <3> QED  BY <1>5, <3>1
    <2>3. f = e
      BY <1>5
    <2>4. A \in Nat /\ A > 0 /\ IsSumAt(A, e, full)
      BY <1>2, WideAlone
    <2>5. shift_right_jam(0, 0) = 0
      <3>1. 0 < WordBits /\ 0 \in Nat
        BY FormatFacts DEF WordBits
      <3>2. shift_right_jam(0, 0) = Jam(0, Power[0])
        BY <3>1, ShiftRightJam
      <3>3. Power[0] = 1
        BY PowerFacts
      <3>4. Jam(0, 1) = 0
        BY <3>1, JamByOne
      <3> QED  BY <3>2, <3>3, <3>4
    <2>6. aligned = [exponent |-> e, lhs |-> A, rhs |-> 0]
      <3>1. e \in Int
        BY <1>2 DEF IsWide
      <3> HIDE DEF e, A, B, f
      <3>2. e - e = 0
        BY <3>1
      <3> QED  BY <2>2, <2>3, <2>5, <3>2 DEF Align
    <2>7. A + 0 = A /\ A - 0 = A /\ full + 0 = full /\ full - 0 = full /\ 0 \in Nat /\ ~(0 > A)
      <3> HIDE DEF A, full
      <3> QED  BY <1>3, <2>4
    <2>8. SameSide(A - 0, full - 0)
      <3> HIDE DEF A, full
      <3> QED  BY <1>3, <2>4, <2>7 DEF SameSide
    <2>9. e \in Int
      BY <1>2 DEF IsWide
    <2> HIDE DEF A, e, B, f, full, g, aligned, want
    <2> QED  BY <1>4, <2>1, <2>4, <2>6, <2>7, <2>8, <2>9
  <1>6. CASE ~IsZero(addend) /\ IsScaled(addend, gc)
    <2>1. IsWide(B, f, g)
      <3>1. f = addend.exponent
        BY <1>6
      <3> QED  BY <1>6, <3>1, AddendIsWide
    <2>2. e \in Int /\ f \in Int
      BY <1>2, <2>1 DEF IsWide
    <2>3. CASE e >= f
      <3> DEFINE J == shift_right_jam(B, e - f)
      <3>1. aligned = [exponent |-> e, lhs |-> A, rhs |-> J]
        <4>1. e - f >= 0
          BY <2>2, <2>3
        <4> HIDE DEF A, e, B, f
        <4> QED  BY <4>1 DEF Align
      <3> HIDE DEF A, e, B, f, full, g, aligned, want
      <3>2. /\ A \in Nat /\ J \in Nat
            /\ SameSide(A - J, full - g)
            /\ IsSumAt(A + J, e, full + g)
            /\ A > J => IsSumAt(A - J, e, full - g)
            /\ J > A => IsSumAt(J - A, e, g - full)
        BY <1>2, <2>1, <2>3, WideAligned
      <3> HIDE DEF J
      <3> QED  BY <1>4, <2>2, <3>1, <3>2
    <2>4. CASE ~(e >= f)
      <3> DEFINE J == shift_right_jam(A, f - e)
      <3>1. aligned = [exponent |-> f, lhs |-> J, rhs |-> B]
        <4>1. ~(e - f >= 0) /\ -(e - f) = f - e
          BY <2>2, <2>4
        <4> HIDE DEF A, e, B, f
        <4> QED  BY <4>1 DEF Align
      <3>2. f >= e
        BY <2>2, <2>4
      <3> HIDE DEF A, e, B, f, full, g, aligned, want
      <3>3. /\ B \in Nat /\ J \in Nat
            /\ SameSide(B - J, g - full)
            /\ IsSumAt(B + J, f, g + full)
            /\ B > J => IsSumAt(B - J, f, g - full)
            /\ J > B => IsSumAt(J - B, f, full - g)
        BY <1>2, <2>1, <3>2, WideAligned
      <3> HIDE DEF J
      <3>4. J + B = B + J /\ full + g = g + full /\ SameSide(J - B, full - g)
        <4>1. (B - J < 0 <=> g - full < 0) /\ (B - J = 0 <=> g - full = 0)
          BY <3>3 DEF SameSide
        <4> QED  BY <1>3, <3>3, <4>1 DEF SameSide
      <3> QED  BY <1>4, <2>2, <3>1, <3>3, <3>4
    <2> QED  BY <2>3, <2>4
  <1> QED  BY <1>5, <1>6 DEF IsAddend

\* It is the sum of product and addend, rounded once.
LEMMA FusedRounded ==
    ASSUME NEW lhs, NEW rhs, NEW addend, NEW gl, NEW gr, NEW gc,
           IsScaled(lhs, gl), IsScaled(rhs, gr), IsAddend(addend, gc),
           NEW p, CutsProduct(p, gl, gr, gc),
           NEW nl, NEW nr, AreSigns(nl, nr), NEW rm \in RoundingModes,
           NEW left, IsTerm(left, nl, p), NEW right, IsTerm(right, nr, gc * Unit)
    PROVE  FusedPack(lhs, rhs, addend, nl, nr, rm)
              = Raised(RoundedSum(left, right, Unit, nl, nr)[rm])
  <1> DEFINE aligned == FusedParts(lhs, rhs, addend)
             sum == SignedSum(nl, aligned.lhs, nr, aligned.rhs)
             S == sum.significand
             T == shift_right_jam(S * 2^Lift(S), WIDE - FRACBITS - 3)
             fused == compute_fma(lhs, rhs, addend, nl, nr)
             code == round_and_pack(IF fused.significand = 0 THEN rm = "Rdn" ELSE fused.sign,
                                    fused.exponent, fused.significand, rm)
             full == gl * gr
             g == gc * Unit
             jl == IF nl THEN -p ELSE p
             jr == IF nr THEN -g ELSE g
             want == Raised(RoundedSum(jl, jr, Unit, nl, nr)[rm])
  <1> SUFFICES code = want
    BY DEF FusedPack, IsTerm
  <1>cut. IsCut(p, full, g) /\ nl \in BOOLEAN /\ nr \in BOOLEAN
    BY DEF CutsProduct, AreSigns
  <1>1. fused = IF S = 0 THEN [sign |-> FALSE, exponent |-> aligned.exponent, significand |-> 0]
                ELSE [sign |-> sum.sign, exponent |-> aligned.exponent - Lift(S), significand |-> T]
    <2>1. fused = LET low == WIDE - Msb(S)
                      lift == IF low > 0 THEN low ELSE 0
                  IN  IF S = 0
                      THEN [sign |-> FALSE, exponent |-> aligned.exponent, significand |-> 0]
                      ELSE [sign |-> sum.sign, exponent |-> aligned.exponent - lift,
                            significand |-> shift_right_jam(S * 2^lift, WIDE - FRACBITS - 3)]
      BY DEF compute_fma, FusedParts
    <2> HIDE DEF sum, S, aligned, fused
    <2> QED  BY <2>1 DEF Lift
  <1>2. full \in Nat \ {0} /\ g \in Nat /\ AreFusedParts(aligned, full, g)
    BY FusedPartsAre
  <1>3. p \in Nat
    BY <1>cut DEF IsCut
  <1>4. PICK P \in Nat, Q \in Nat, x_1 \in Int :
            /\ aligned = [exponent |-> x_1, lhs |-> P, rhs |-> Q]
            /\ SameSide(P - Q, full - g)
            /\ IsSumAt(P + Q, x_1, full + g)
            /\ P > Q => IsSumAt(P - Q, x_1, full - g)
            /\ Q > P => IsSumAt(Q - P, x_1, g - full)
    BY <1>2, Zenon DEF AreFusedParts
  <1>5. code = want
    <2>1. aligned.exponent = x_1 /\ sum = SignedSum(nl, P, nr, Q)
      BY <1>4
    <2> HIDE DEF sum, aligned, fused, full, g, T
    <2>2. PackedSum(sum, x_1, rm) = want
      BY <1>2, <1>3, <1>4, <1>cut, <2>1, FusedSum DEF full, g
    <2>3. S # 0 => T # 0
      <3>1. ASSUME NEW h, IsSumAt(S, x_1, h) PROVE T # 0
        <4>1. StandsFor(T, x_1 - Lift(S), h, h, Unit)
          BY <3>1, SumNormalised DEF T
        <4> HIDE DEF S
        <4> QED  BY <4>1 DEF StandsFor, IsSignificand
      <3>2. S = P + Q \/ (P > Q /\ S = P - Q) \/ (Q > P /\ S = Q - P) \/ S = 0
        <4>1. S = IF nl = nr THEN P + Q ELSE IF P >= Q THEN P - Q ELSE Q - P
          BY <2>1 DEF SignedSum
        <4> HIDE DEF S
        <4>2. CASE nl = nr
          BY <4>1, <4>2
        <4>3. CASE nl # nr
          BY <4>1, <4>3
        <4> QED  BY <4>2, <4>3
      <3>3. CASE S = P + Q
        BY <1>4, <3>1, <3>3
      <3>4. CASE P > Q /\ S = P - Q
        BY <1>4, <3>1, <3>4
      <3>5. CASE Q > P /\ S = Q - P
        BY <1>4, <3>1, <3>5
      <3> QED  BY <3>2, <3>3, <3>4, <3>5
    <2>4. code = PackedSum(sum, x_1, rm)
      <3>1. CASE S = 0
        <4>1. fused.significand = 0
          BY <1>1, <3>1
        <4>2. code = round_and_pack(rm = "Rdn", fused.exponent, 0, rm)
          BY <4>1
        <4>3. code = Exact(rm = "Rdn", 0)
          BY <4>2, PackZero
        <4> QED  BY <3>1, <4>3 DEF PackedSum
      <3>2. CASE S # 0
        <4>1. fused.significand = T /\ fused.sign = sum.sign /\ fused.exponent = x_1 - Lift(S)
          BY <1>1, <2>1, <3>2
        <4>2. code = round_and_pack(sum.sign, x_1 - Lift(S), T, rm)
          BY <2>3, <3>2, <4>1
        <4>3. PackedSum(sum, x_1, rm) = round_and_pack(sum.sign, x_1 - Lift(S), T, rm)
          BY <3>2 DEF PackedSum, T
        <4> QED  BY <4>2, <4>3
      <3> QED  BY <3>1, <3>2
    <2> QED  BY <2>2, <2>4
  <1> QED  BY <1>5

-----------------------------------------------------------------------------
\* Nothing is rounded when the product is zero.
LEMMA AddendAlone ==
    ASSUME NEW c \in Floats, ZeroOf(c) \/ FiniteNonzero(c), NEW np \in BOOLEAN,
           NEW rm \in RoundingModes
    PROVE  LET nc == IsNegative(c)
               sum == RoundedSum(0, Number(c) * Unit, Unit, np, nc)[rm]
           IN  /\ ZeroOf(c) => sum = Exact(ZeroSign(np, nc, rm), 0)
               /\ ~ZeroOf(c) => sum = Exact(nc, MagnitudeOf(c))
  <1> DEFINE m == MagnitudeOf(c)
             g == Grid[m]
             nc == IsNegative(c)
             t == Number(c) * Unit
             sum == RoundedSum(0, t, Unit, np, nc)[rm]
  <1>1. ~NanOf(c) /\ nc \in BOOLEAN /\ m \in Nat /\ (~ZeroOf(c) => m < Infinity)
    <2>1. ~NanOf(c)
      BY UnpackFacts
    <2>2. nc \in BOOLEAN /\ m \in Nat
      BY RawParts
    <2> QED  BY <2>1, <2>2 DEF FiniteNonzero
  <1>2. g \in Nat /\ (g = 0 <=> ZeroOf(c)) /\ Number(c) = (IF nc THEN -g ELSE g)
    BY <1>1, NumberIs
  <1>3. Unit \in Nat \ {0}
    BY UnitIs
  <1>4. (nc => t = -(g * Unit)) /\ (~nc => t = g * Unit) /\ g * Unit \in Nat
        /\ (g # 0 => g * Unit > 0) /\ (g = 0 => g * Unit = 0)
    <2> HIDE DEF g, nc
    <2>1. (-g) * Unit = -(g * Unit) /\ g * Unit \in Nat
      BY <1>2, <1>3, SMT
    <2>2. (g # 0 => g * Unit > 0) /\ (g = 0 => g * Unit = 0)
      BY <1>2, <1>3, SMT
    <2>3. (nc => Number(c) = -g) /\ (~nc => Number(c) = g)
      BY <1>2
    <2> QED  BY <2>1, <2>2, <2>3
  <1> HIDE DEF g, m, t
  <1>5. t \in Int /\ (g = 0 => t = 0) /\ (g # 0 => t # 0 /\ Abs(t) = g * Unit /\ ((t < 0) = nc))
    <2> DEFINE w == g * Unit
    <2>1. w \in Nat /\ (g # 0 => w > 0) /\ (g = 0 => w = 0) /\ (nc => t = -w) /\ (~nc => t = w)
      BY <1>4
    <2> SUFFICES t \in Int /\ (g = 0 => t = 0) /\ (g # 0 => t # 0 /\ Abs(t) = w /\ ((t < 0) = nc))
      OBVIOUS
    <2> HIDE DEF nc, w
    <2>2. CASE nc
      <3>1. t = -w
        BY <2>1, <2>2
      <3>2. t \in Int /\ (g = 0 => t = 0) /\ (g # 0 => t # 0 /\ Abs(t) = w /\ t < 0)
        BY <2>1, <3>1 DEF Abs
      <3> QED  BY <1>1, <2>2, <3>2
    <2>3. CASE ~nc
      <3>1. t = w
        BY <2>1, <2>3
      <3>2. t \in Int /\ (g = 0 => t = 0) /\ (g # 0 => t # 0 /\ Abs(t) = w /\ ~(t < 0))
        BY <2>1, <3>1 DEF Abs
      <3> QED  BY <1>1, <2>3, <3>2
    <2> QED  BY <2>2, <2>3
  <1>6. /\ 0 + t = 0 => sum = Result(Signed(IF np = nc THEN np ELSE rm = "Rdn", 0), {})
        /\ 0 + t # 0 => sum = RoundedQuotient(Abs(0 + t), Unit, 0 + t < 0)[rm]
    <2>1. 0 \in Int /\ t \in Int
      BY <1>5
    <2> HIDE DEF nc
    <2> QED  BY <2>1, RoundedSumIs
  <1>7. 0 + t = t
    BY <1>5
  <1> HIDE DEF sum
  <1>8. ZeroOf(c) => sum = Exact(ZeroSign(np, nc, rm), 0)
    BY <1>2, <1>5, <1>6, <1>7 DEF Exact, ZeroSign
  <1>9. ~ZeroOf(c) => sum = Exact(nc, m)
    <2> SUFFICES ASSUME ~ZeroOf(c) PROVE sum = Exact(nc, m)
      OBVIOUS
    <2>1. m < Infinity
      BY <1>1
    <2>2. RoundedQuotient(Grid[m] * Unit, Unit, nc)[rm] = Exact(nc, m)
      BY <1>1, <1>3, <2>1, ExactFraction
    <2>3. sum = RoundedQuotient(Abs(t), Unit, t < 0)[rm]
      BY <1>2, <1>5, <1>6, <1>7
    <2>4. Abs(t) = Grid[m] * Unit /\ (t < 0) = nc
      BY <1>2, <1>5 DEF g
    <2> QED  BY <2>2, <2>3, <2>4
  <1> QED  BY <1>8, <1>9 DEF sum, m, t

IsProductSign(negative, l, r) ==
    negative \in BOOLEAN /\ negative = (IsNegative(l) # IsNegative(r))

\* What the fused operations take of a product and an addend that are finite
\* numbers; lp and cp are the operands with the signs the operation gives them.
AreOperands(l, r, c, p, left, right, np, nc) ==
    LET gl == Grid[MagnitudeOf(l)]
        gr == Grid[MagnitudeOf(r)]
        gc == Grid[MagnitudeOf(c)]
    IN  /\ IsScaled(Unpack(l), gl) /\ IsScaled(Unpack(r), gr) /\ IsAddend(Unpack(c), gc)
        /\ CutsProduct(p, gl, gr, gc) /\ AreSigns(np, nc)
        /\ IsTerm(left, np, p) /\ IsTerm(right, nc, gc * Unit)

\* They are such.
LEMMA FusedOperands ==
    ASSUME NEW l \in Floats, NEW r \in Floats, NEW c \in Floats,
           FiniteNonzero(l), FiniteNonzero(r), ZeroOf(c) \/ FiniteNonzero(c),
           NEW lp \in Floats, NEW cp \in Floats,
           MagnitudeOf(lp) = MagnitudeOf(l), MagnitudeOf(cp) = MagnitudeOf(c),
           NEW np, IsProductSign(np, lp, r)
    PROVE  AreOperands(l, r, c, Times(Grid[MagnitudeOf(l)], Grid[MagnitudeOf(r)]),
                       TimesSigned(lp, r), Number(cp) * Unit, np, IsNegative(cp))
  <1> DEFINE lhs == Unpack(l)
             rhs == Unpack(r)
             addend == Unpack(c)
             gl == Grid[MagnitudeOf(l)]
             gr == Grid[MagnitudeOf(r)]
             gc == Grid[MagnitudeOf(c)]
             nc == IsNegative(cp)
             p == Times(gl, gr)
             full == gl * gr
             g == gc * Unit
             top == Grid[Infinity]
  <1>1. IsScaled(lhs, gl)
    BY ScaledIs
  <1>2. IsScaled(rhs, gr)
    BY ScaledIs
  <1>3. ~NanOf(lp) /\ ~NanOf(r) /\ ~NanOf(cp)
    <2>1. ~NanOf(l)
      BY UnpackFacts
    <2>2. ~NanOf(r)
      BY UnpackFacts
    <2>3. ~NanOf(c)
      BY UnpackFacts
    <2> QED  BY <2>1, <2>2, <2>3 DEF NanOf
  <1>4. nc \in BOOLEAN
    BY RawParts
  <1>5. gl \in Nat /\ gr \in Nat
    BY <1>1, <1>2 DEF IsScaled
  <1>6. gc \in Nat /\ (gc = 0 <=> ZeroOf(c)) /\ Number(cp) = (IF nc THEN -gc ELSE gc)
    <2>1. LET h == Grid[MagnitudeOf(cp)]
          IN  h \in Nat /\ (h = 0 <=> ZeroOf(cp)) /\ Number(cp) = IF nc THEN -h ELSE h
      BY <1>3, NumberIs
    <2> QED  BY <2>1 DEF ZeroOf
  <1>7. IsAddend(addend, gc)
    <2>1. IsZero(addend) <=> ZeroOf(c)
      BY UnpackFacts
    <2>2. CASE ZeroOf(c)
      <3>1. addend.significand = 0
        BY <2>2, UnpackSpecial DEF ZeroOf
      <3> QED  BY <1>6, <2>1, <2>2, <3>1 DEF IsAddend
    <2>3. CASE ~ZeroOf(c)
      <3>1. IsScaled(addend, gc)
        BY <2>3, ScaledIs
      <3> QED  BY <2>1, <2>3, <3>1 DEF IsAddend
    <2> QED  BY <2>2, <2>3
  <1>8. gc < top /\ top \in Nat /\ Unit \in Nat \ {0}
    <2>1. top \in Nat /\ Infinity \in Nat /\ Unit \in Nat \ {0} /\ Infinity > 0
      BY GridTop, UnitIs
    <2>2. MagnitudeOf(c) \in Nat /\ MagnitudeOf(c) < Infinity
      <3>1. MagnitudeOf(c) \in Nat
        BY RawParts
      <3> QED  BY <2>1, <3>1 DEF ZeroOf, FiniteNonzero
    <2>3. MagnitudeOf(c) \in 0 .. Infinity /\ Infinity \in 0 .. Infinity
      BY <2>1, <2>2
    <2> QED  BY <2>1, <2>2, <2>3, GridGrows
  <1>9. g \in Nat /\ g < top * Unit
    <2> HIDE DEF gc, top
    <2> QED  BY <1>6, <1>8, SMT
  <1>10. IsCut(p, full, g)
    <2> HIDE DEF gl, gr
    <2>1. full \in Nat
      BY <1>5, SMT
    <2>2. p \in Nat /\ (p = full \/ (full >= p /\ p >= (2 * Grid[Infinity]) * Unit))
      BY <1>5, TimesIs
    <2> HIDE DEF p, full, g
    <2> QED  BY <1>9, <2>1, <2>2 DEF IsCut, top
  <1>11. IsTerm(TimesSigned(lp, r), np, p)
    <2>1. TimesSigned(lp, r) = IF IsNegative(lp) # IsNegative(r) THEN -p ELSE p
      BY <1>3, TimesSignedIs
    <2>2. np = (IsNegative(lp) # IsNegative(r))
      BY DEF IsProductSign
    <2> HIDE DEF p
    <2> QED  BY <2>1, <2>2 DEF IsTerm
  <1>12. IsTerm(Number(cp) * Unit, nc, g)
    <2> HIDE DEF gc, nc
    <2>1. (-gc) * Unit = -(gc * Unit)
      BY <1>6, <1>8, SMT
    <2> QED  BY <1>4, <1>6, <2>1 DEF IsTerm
  <1>13. CutsProduct(p, gl, gr, gc)
    BY <1>10 DEF CutsProduct
  <1> DEFINE left == TimesSigned(lp, r)
             right == Number(cp) * Unit
  <1>14. IsTerm(left, np, p) /\ IsTerm(right, nc, gc * Unit)
    BY <1>11, <1>12
  <1>15. AreSigns(np, nc)
    BY <1>4 DEF AreSigns, IsProductSign
  <1> HIDE DEF lhs, rhs, addend, gl, gr, gc, nc, top, p, left, right
  <1> QED  BY <1>1, <1>2, <1>7, <1>13, <1>14, <1>15
           DEF AreOperands, lhs, rhs, addend, gl, gr, gc, nc, p, left, right

\* So they round once.
LEMMA FusedFinite ==
    ASSUME NEW l, NEW r, NEW c, NEW p, NEW left, NEW right, NEW np, NEW nc,
           AreOperands(l, r, c, p, left, right, np, nc), NEW rm \in RoundingModes
    PROVE  FusedPack(Unpack(l), Unpack(r), Unpack(c), np, nc, rm)
              = Raised(RoundedSum(left, right, Unit, np, nc)[rm])
  BY FusedRounded DEF AreOperands

\* The operand n that an operation takes for b, with its sign changed or not.
Turned(n, b, negate) ==
    /\ n \in Floats /\ MagnitudeOf(n) = MagnitudeOf(b)
    /\ ~NanOf(b) => IsNegative(n) = (IsNegative(b) # negate)
IsFactor(op, n, b) == Turned(n, b, op \in {"NmSub", "NmAdd"})
IsAdded(op, n, b) == Turned(n, b, op \in {"MSub", "NmAdd"})

\* The fused operations of any three floats.
LEMMA FmaIs ==
    ASSUME NEW op, NEW l \in Floats, NEW r \in Floats, NEW c \in Floats,
           NEW lp, NEW cp, IsFactor(op, lp, l), IsAdded(op, cp, c), NEW rm \in RoundingModes
    PROVE  fma(op, l, r, c, rm) = Raised(FusedOf(lp, r, cp)[rm])
  <1> DEFINE lhs == Unpack(l)
             rhs == Unpack(r)
             addend == Unpack(c)
             sp == (lhs.sign # rhs.sign) # (op \in {"NmSub", "NmAdd"})
             sc == addend.sign # (op \in {"MSub", "NmAdd"})
             np == IsNegative(lp) # IsNegative(r)
             nc == IsNegative(cp)
             sum == RoundedSum(TimesSigned(lp, r), Number(cp) * Unit, Unit, np, nc)[rm]
             code == fma(op, l, r, c, rm)
             want == FusedOf(lp, r, cp)[rm]
  <1>lp. /\ lp \in Floats /\ MagnitudeOf(lp) = MagnitudeOf(l)
         /\ ~NanOf(l) => IsNegative(lp) = (IsNegative(l) # (op \in {"NmSub", "NmAdd"}))
    BY DEF IsFactor, Turned
  <1>cp. /\ cp \in Floats /\ MagnitudeOf(cp) = MagnitudeOf(c)
         /\ ~NanOf(c) => IsNegative(cp) = (IsNegative(c) # (op \in {"MSub", "NmAdd"}))
    BY DEF IsAdded, Turned
  <1> USE <1>lp, <1>cp
  <1>1. /\ lhs.sign = IsNegative(l) /\ IsNegative(l) \in BOOLEAN
        /\ (is_nan(lhs) <=> NanOf(l)) /\ (IsZero(lhs) <=> ZeroOf(l))
        /\ (IsInfinity(lhs) <=> InfiniteOf(l))
        /\ (ZeroOf(l) \/ FiniteNonzero(l) \/ InfiniteOf(l) \/ NanOf(l))
    BY UnpackFacts
  <1>2. /\ rhs.sign = IsNegative(r) /\ IsNegative(r) \in BOOLEAN
        /\ (is_nan(rhs) <=> NanOf(r)) /\ (IsZero(rhs) <=> ZeroOf(r))
        /\ (IsInfinity(rhs) <=> InfiniteOf(r))
        /\ (ZeroOf(r) \/ FiniteNonzero(r) \/ InfiniteOf(r) \/ NanOf(r))
    BY UnpackFacts
  <1>3. /\ addend.sign = IsNegative(c) /\ IsNegative(c) \in BOOLEAN
        /\ (is_nan(addend) <=> NanOf(c)) /\ (IsZero(addend) <=> ZeroOf(c))
        /\ (IsInfinity(addend) <=> InfiniteOf(c))
        /\ (ZeroOf(c) \/ FiniteNonzero(c) \/ InfiniteOf(c) \/ NanOf(c))
    BY UnpackFacts
  <1>4. /\ NanOf(lp) <=> NanOf(l)
        /\ ZeroOf(lp) <=> ZeroOf(l)
        /\ InfiniteOf(lp) <=> InfiniteOf(l)
        /\ NanOf(cp) <=> NanOf(c)
        /\ ZeroOf(cp) <=> ZeroOf(c)
        /\ InfiniteOf(cp) <=> InfiniteOf(c)
        /\ FiniteNonzero(cp) <=> FiniteNonzero(c)
    BY DEF NanOf, ZeroOf, InfiniteOf, FiniteNonzero
  <1>5. IsNegative(lp) \in BOOLEAN
    BY RawParts
  <1>6. nc \in BOOLEAN /\ cp = Signed(nc, MagnitudeOf(cp))
    BY RawParts
  <1>7. ~NanOf(l) => np = sp
    BY <1>1, <1>2, <1>5
  <1>8. ~NanOf(c) => nc = sc
    BY <1>3
  <1>9. np \in BOOLEAN
    BY <1>2, <1>5
  <1>10. /\ propagate_nan({lhs, rhs, addend}) = QuietOf({lp, r, cp}, FALSE)[rm]
         /\ \A operands : QuietOf(operands, TRUE)[rm] = Invalid
    <2>1. propagate_nan({lhs, rhs, addend}) = QuietOf({lp, r, cp}, FALSE)[rm]
      <3>1. is_signaling_nan(lhs) <=> SignalingOf(lp)
        <4>1. is_signaling_nan(lhs) <=> SignalingOf(l)
          BY UnpackFacts
        <4> QED  BY <4>1 DEF SignalingOf, NanOf
      <3>2. is_signaling_nan(rhs) <=> SignalingOf(r)
        BY UnpackFacts
      <3>3. is_signaling_nan(addend) <=> SignalingOf(cp)
        <4>1. is_signaling_nan(addend) <=> SignalingOf(c)
          BY UnpackFacts
        <4> QED  BY <4>1 DEF SignalingOf, NanOf
      <3> HIDE DEF lhs, rhs, addend
      <3>4. (\E u \in {lhs, rhs, addend} : is_signaling_nan(u))
                <=> (\E b \in {lp, r, cp} : SignalingOf(b))
        BY <3>1, <3>2, <3>3, Zenon
      <3> QED  BY <3>4 DEF propagate_nan, QuietOf, Always
    <2>2. \A operands : QuietOf(operands, TRUE)[rm] = Invalid
      BY DEF Invalid, QuietOf, Always
    <2> QED  BY <2>1, <2>2
  <1>11. /\ ZeroTimesInfinity(lp, r)
                <=> (ZeroOf(l) /\ InfiniteOf(r)) \/ (InfiniteOf(l) /\ ZeroOf(r))
         /\ ~(NanOf(l) /\ (ZeroOf(l) \/ InfiniteOf(l)))
    <2>1. ZeroTimesInfinity(lp, r)
              <=> (ZeroOf(lp) /\ InfiniteOf(r)) \/ (InfiniteOf(lp) /\ ZeroOf(r))
      BY ZeroTimesInfinityIs
    <2>2. (ZeroOf(l) => ~NanOf(l)) /\ (InfiniteOf(l) => ~NanOf(l))
      BY UnpackFacts
    <2> QED  BY <1>4, <2>1, <2>2
  <1>12. (\E b \in {lp, r, cp} : NanOf(b)) <=> (\E u \in {lhs, rhs, addend} : is_nan(u))
    <2>1. (NanOf(lp) \/ NanOf(r) \/ NanOf(cp)) <=> (is_nan(lhs) \/ is_nan(rhs) \/ is_nan(addend))
      BY <1>1, <1>2, <1>3, <1>4
    <2> HIDE DEF lhs, rhs, addend
    <2> QED  BY <2>1, Zenon
  <1>13. (\E u \in {lhs, rhs, addend} : is_nan(u)) <=> NanOf(l) \/ NanOf(r) \/ NanOf(c)
    <2>1. (NanOf(l) \/ NanOf(r) \/ NanOf(c)) <=> (is_nan(lhs) \/ is_nan(rhs) \/ is_nan(addend))
      BY <1>1, <1>2, <1>3
    <2> HIDE DEF lhs, rhs, addend
    <2> QED  BY <2>1, Zenon
  <1>14. want = IF ZeroTimesInfinity(lp, r) \/ \E b \in {lp, r, cp} : NanOf(b)
                THEN QuietOf({lp, r, cp}, ZeroTimesInfinity(lp, r))[rm]
                ELSE IF InfiniteOf(lp) \/ InfiniteOf(r)
                THEN IF InfiniteOf(cp) /\ np # nc THEN QuietOf({}, TRUE)[rm]
                     ELSE Exact(np, Infinity)
                ELSE IF InfiniteOf(cp) THEN Result(cp, {})
                ELSE sum
    BY DEF FusedOf, InfinityOf, Always, Exact
  <1>15. code = IF (IsZero(lhs) /\ IsInfinity(rhs)) \/ (IsInfinity(lhs) /\ IsZero(rhs))
                THEN Invalid
                ELSE IF \E u \in {lhs, rhs, addend} : is_nan(u)
                THEN propagate_nan({lhs, rhs, addend})
                ELSE IF IsInfinity(lhs) \/ IsInfinity(rhs)
                THEN IF IsInfinity(addend) /\ sp # sc THEN Invalid ELSE Exact(sp, Infinity)
                ELSE IF IsInfinity(addend) THEN Exact(sc, Infinity)
                ELSE IF IsZero(lhs) \/ IsZero(rhs)
                THEN IF IsZero(addend) THEN Exact(ZeroSign(sp, sc, rm), 0)
                     ELSE Exact(sc, MagnitudeOf(c))
                ELSE FusedPack(lhs, rhs, addend, sp, sc, rm)
    BY DEF fma, FusedPack
  <1>19. /\ \A negative, m : Raised(Exact(negative, m)) = Exact(negative, m)
         /\ \A ops, invalid : Raised(QuietOf(ops, invalid)[rm]) = QuietOf(ops, invalid)[rm]
    BY RaisedExact
  <1>20. Raised(Invalid) = Invalid
    BY <1>10, <1>19
  <1> SUFFICES code = Raised(want)
    OBVIOUS
  <1>16. CASE ZeroTimesInfinity(lp, r)
    <2>1. QuietOf({lp, r, cp}, ZeroTimesInfinity(lp, r)) = QuietOf({lp, r, cp}, TRUE)
      BY <1>16 DEF QuietOf
    <2> HIDE DEF code, want, lhs, rhs, addend, sp, sc, np, nc
    <2>2. want = QuietOf({lp, r, cp}, TRUE)[rm]
      BY <1>14, <1>16, <2>1
    <2>3. code = Invalid
      BY <1>1, <1>2, <1>11, <1>15, <1>16
    <2> QED  BY <1>10, <1>19, <2>2, <2>3
  <1>17. CASE ~ZeroTimesInfinity(lp, r) /\ (NanOf(l) \/ NanOf(r) \/ NanOf(c))
    <2>1. QuietOf({lp, r, cp}, ZeroTimesInfinity(lp, r)) = QuietOf({lp, r, cp}, FALSE)
      BY <1>17 DEF QuietOf
    <2> HIDE DEF code, want, lhs, rhs, addend, sp, sc, np, nc
    <2>2. want = QuietOf({lp, r, cp}, FALSE)[rm]
      BY <1>12, <1>13, <1>14, <1>17, <2>1
    <2>3. code = propagate_nan({lhs, rhs, addend})
      BY <1>1, <1>2, <1>11, <1>13, <1>15, <1>17
    <2> QED  BY <1>10, <1>19, <2>2, <2>3
  <1>18. CASE ~ZeroTimesInfinity(lp, r) /\ ~(NanOf(l) \/ NanOf(r) \/ NanOf(c))
    <2>1. np = sp /\ nc = sc
      BY <1>7, <1>8, <1>18
    <2>2. /\ ~((IsZero(lhs) /\ IsInfinity(rhs)) \/ (IsInfinity(lhs) /\ IsZero(rhs)))
          /\ ~(\E u \in {lhs, rhs, addend} : is_nan(u))
          /\ ~(\E b \in {lp, r, cp} : NanOf(b))
      BY <1>1, <1>2, <1>11, <1>12, <1>13, <1>18
    <2>3. InfiniteOf(cp) => Exact(nc, Infinity) = Result(cp, {})
      BY <1>6 DEF InfiniteOf, Exact
    <2>4. ~InfiniteOf(cp) => ZeroOf(cp) \/ FiniteNonzero(cp)
      BY <1>3, <1>4, <1>18
    <2>5. ASSUME ZeroOf(l) \/ ZeroOf(r), ~InfiniteOf(cp)
          PROVE  /\ ZeroOf(cp) => sum = Exact(ZeroSign(np, nc, rm), 0)
                 /\ ~ZeroOf(cp) => sum = Exact(nc, MagnitudeOf(c))
      <3>1. TimesSigned(lp, r) = 0
        <4>1. ~NanOf(lp) /\ ~NanOf(r) /\ (ZeroOf(lp) \/ ZeroOf(r))
          BY <1>4, <1>18, <2>5
        <4> QED  BY <4>1, TimesSignedIs
      <3> DEFINE q == np
      <3>2. q \in BOOLEAN /\ (ZeroOf(cp) \/ FiniteNonzero(cp))
        BY <1>9, <2>4, <2>5
      <3> HIDE DEF q
      <3>3. LET alone == RoundedSum(0, Number(cp) * Unit, Unit, q, nc)[rm]
            IN  /\ ZeroOf(cp) => alone = Exact(ZeroSign(q, nc, rm), 0)
                /\ ~ZeroOf(cp) => alone = Exact(nc, MagnitudeOf(cp))
        BY <3>2, AddendAlone
      <3> QED  BY <3>1, <3>3 DEF q
    <2>6. ASSUME FiniteNonzero(l), FiniteNonzero(r), ~InfiniteOf(cp)
          PROVE  Raised(sum) = FusedPack(lhs, rhs, addend, np, nc, rm)
      <3> DEFINE q == np
      <3>1. IsProductSign(q, lp, r) /\ (ZeroOf(c) \/ FiniteNonzero(c))
        BY <1>4, <1>9, <2>4, <2>6 DEF IsProductSign
      <3> HIDE DEF q
      <3>2. AreOperands(l, r, c, Times(Grid[MagnitudeOf(l)], Grid[MagnitudeOf(r)]),
                        TimesSigned(lp, r), Number(cp) * Unit, q, IsNegative(cp))
        BY <2>6, <3>1, FusedOperands
      <3>3. FusedPack(Unpack(l), Unpack(r), Unpack(c), q, IsNegative(cp), rm)
               = Raised(RoundedSum(TimesSigned(lp, r), Number(cp) * Unit, Unit, q,
                                   IsNegative(cp))[rm])
        BY <3>2, FusedFinite
      <3> QED  BY <3>3 DEF q
    <2> HIDE DEF code, want, lhs, rhs, addend, sp, sc, np, nc, sum
    <2>7. want = IF InfiniteOf(l) \/ InfiniteOf(r)
                 THEN IF InfiniteOf(cp) /\ np # nc THEN Invalid ELSE Exact(np, Infinity)
                 ELSE IF InfiniteOf(cp) THEN Exact(nc, Infinity)
                 ELSE sum
      BY <1>4, <1>10, <1>14, <1>18, <2>2, <2>3
    <2>8. code = IF InfiniteOf(l) \/ InfiniteOf(r)
                 THEN IF InfiniteOf(cp) /\ np # nc THEN Invalid ELSE Exact(np, Infinity)
                 ELSE IF InfiniteOf(cp) THEN Exact(nc, Infinity)
                 ELSE IF ZeroOf(l) \/ ZeroOf(r)
                 THEN IF ZeroOf(cp) THEN Exact(ZeroSign(np, nc, rm), 0)
                      ELSE Exact(nc, MagnitudeOf(c))
                 ELSE FusedPack(lhs, rhs, addend, np, nc, rm)
      BY <1>1, <1>2, <1>3, <1>4, <1>15, <2>1, <2>2
    <2>9. CASE InfiniteOf(l) \/ InfiniteOf(r) \/ InfiniteOf(cp)
      BY <1>19, <1>20, <2>7, <2>8, <2>9
    <2>10. CASE ~(InfiniteOf(l) \/ InfiniteOf(r) \/ InfiniteOf(cp)) /\ (ZeroOf(l) \/ ZeroOf(r))
      BY <1>19, <2>5, <2>7, <2>8, <2>10
    <2>11. CASE ~(InfiniteOf(l) \/ InfiniteOf(r) \/ InfiniteOf(cp)) /\ ~(ZeroOf(l) \/ ZeroOf(r))
      <3>1. FiniteNonzero(l) /\ FiniteNonzero(r)
        BY <1>1, <1>2, <1>18, <2>11
      <3> QED  BY <2>6, <2>7, <2>8, <2>11, <3>1
    <2> QED  BY <2>9, <2>10, <2>11
  <1> QED  BY <1>16, <1>17, <1>18

\* FMADD, FMSUB, FNMSUB and FNMADD round once in every format, every rounding
\* mode, and for every addend; of the flags of the standards they miss underflow
\* to the smallest normal only.
THEOREM FusedIsExact == Spec => []FmaAgrees
  <1>1. Operands => FmaAgrees
    <2> SUFFICES ASSUME Operands, NEW c \in Floats,
                        NEW op \in {"MAdd", "MSub", "NmSub", "NmAdd"}, NEW rm \in RoundingModes
                 PROVE  fma(op, x, y, c, rm) = Raised(
                            FusedOf(IF op \in {"NmSub", "NmAdd"} THEN Negated(x) ELSE x, y,
                                    IF op \in {"MSub", "NmAdd"} THEN Negated(c) ELSE c)[rm])
      BY DEF FmaAgrees
    <2> DEFINE lp == IF op \in {"NmSub", "NmAdd"} THEN Negated(x) ELSE x
               cp == IF op \in {"MSub", "NmAdd"} THEN Negated(c) ELSE c
    <2>1. x \in Floats /\ y \in Floats
      BY DEF Operands
    <2>2. ASSUME NEW b \in Floats, NEW negate \in BOOLEAN
          PROVE  /\ negate => Turned(Negated(b), b, negate)
                 /\ ~negate => Turned(b, b, negate)
      <3>1. /\ Negated(b) \in Floats /\ MagnitudeOf(Negated(b)) = MagnitudeOf(b)
            /\ ~NanOf(b) => IsNegative(Negated(b)) = ~IsNegative(b)
        BY NegatedIs
      <3>2. IsNegative(b) \in BOOLEAN
        BY RawParts
      <3>3. CASE negate = TRUE
        BY <3>1, <3>2, <3>3 DEF Turned
      <3>4. CASE negate = FALSE
        BY <3>1, <3>2, <3>4 DEF Turned
      <3> QED  BY <3>3, <3>4
    <2>3. IsFactor(op, lp, x)
      <3> DEFINE negate == op \in {"NmSub", "NmAdd"}
      <3>1. negate \in BOOLEAN /\ (negate => lp = Negated(x)) /\ (~negate => lp = x)
        OBVIOUS
      <3>2. IsFactor(op, lp, x) = Turned(lp, x, negate)
        BY DEF IsFactor
      <3> HIDE DEF negate, lp
      <3>3. (negate => Turned(Negated(x), x, negate)) /\ (~negate => Turned(x, x, negate))
        BY <2>1, <2>2, <3>1
      <3>4. Turned(lp, x, negate)
        BY <3>1, <3>3
      <3> QED  BY <3>2, <3>4
    <2>4. IsAdded(op, cp, c)
      <3> DEFINE negate == op \in {"MSub", "NmAdd"}
      <3>1. negate \in BOOLEAN /\ (negate => cp = Negated(c)) /\ (~negate => cp = c)
        OBVIOUS
      <3>2. IsAdded(op, cp, c) = Turned(cp, c, negate)
        BY DEF IsAdded
      <3> HIDE DEF negate, cp
      <3>3. (negate => Turned(Negated(c), c, negate)) /\ (~negate => Turned(c, c, negate))
        BY <2>2, <3>1
      <3>4. Turned(cp, c, negate)
        BY <3>1, <3>3
      <3> QED  BY <3>2, <3>4
    <2> HIDE DEF lp, cp
    <2>5. fma(op, x, y, c, rm) = Raised(FusedOf(lp, y, cp)[rm])
      BY <2>1, <2>3, <2>4, FmaIs
    <2> QED  BY <2>5 DEF lp, cp
  <1> QED  BY <1>1, OperandsAreFloats, PTL

-----------------------------------------------------------------------------
\* Comparing sign and magnitude is comparing numbers, except among zeros.
LEMMA LessThanIs ==
    ASSUME NEW l \in Floats, NEW r \in Floats, ~NanOf(l), ~NanOf(r)
    PROVE  /\ Number(l) = Number(r) <=> (ZeroOf(l) /\ ZeroOf(r)) \/ l = r
           /\ ~(ZeroOf(l) /\ ZeroOf(r)) => (less_than(l, r) <=> Number(l) < Number(r))
           /\ ZeroOf(l) /\ ZeroOf(r) =>
                 /\ ~(Number(l) < Number(r))
                 /\ l = Signed(IsNegative(l), 0) /\ r = Signed(IsNegative(r), 0)
           /\ less_than(l, r) \in BOOLEAN
  <1> DEFINE a == MagnitudeOf(l)
             b == MagnitudeOf(r)
             gl == Grid[a]
             gr == Grid[b]
             nl == IsNegative(l)
             nr == IsNegative(r)
  <1>1. a \in Nat /\ nl \in BOOLEAN /\ l = Signed(nl, a) /\ a < Sign
    BY RawParts
  <1>2. b \in Nat /\ nr \in BOOLEAN /\ r = Signed(nr, b) /\ b < Sign
    BY RawParts
  <1>3. /\ gl \in Nat /\ (gl = 0 <=> ZeroOf(l))
        /\ Number(l) = IF nl THEN -gl ELSE gl
    BY NumberIs
  <1>4. /\ gr \in Nat /\ (gr = 0 <=> ZeroOf(r))
        /\ Number(r) = IF nr THEN -gr ELSE gr
    BY NumberIs
  <1>5. a \in 0 .. Infinity /\ b \in 0 .. Infinity
    <2>1. Infinity \in Nat /\ ~(a > Infinity) /\ ~(b > Infinity)
      BY FormatFacts DEF NanOf
    <2> HIDE DEF a, b
    <2> QED  BY <1>1, <1>2, <2>1
  <1>6. (a < b <=> gl < gr) /\ (b < a <=> gr < gl) /\ (gl = gr <=> a = b)
    <2> HIDE DEF a, b
    <2> QED  BY <1>5, GridGrows
  <1>7. less_than(l, r) = IF nl # nr THEN nl ELSE IF nl THEN a > b ELSE a < b
    BY DEF less_than
  <1>8. ZeroOf(l) <=> a = 0
    BY DEF ZeroOf
  <1>9. ZeroOf(r) <=> b = 0
    BY DEF ZeroOf
  <1>10. Sign \in Nat
    BY FormatFacts
  <1> DEFINE zl == ZeroOf(l)
             zr == ZeroOf(r)
             jl == Number(l)
             jr == Number(r)
             less == less_than(l, r)
  <1> HIDE DEF a, b, gl, gr, nl, nr, zl, zr, jl, jr, less
  <1>11. CASE nl = TRUE /\ nr = TRUE
    <2>1. jl = -gl /\ jr = -gr /\ less = (a > b) /\ l = Sign + a /\ r = Sign + b
      BY <1>1, <1>2, <1>3, <1>4, <1>7, <1>11 DEF Signed, jl, jr, less
    <2>2. jl = jr <=> (zl /\ zr) \/ l = r
      BY <1>1, <1>2, <1>3, <1>4, <1>6, <1>8, <1>9, <1>10, <2>1 DEF zl, zr
    <2>3. less \in BOOLEAN /\ (less <=> jl < jr)
      <3>1. a > b <=> jl < jr
        BY <1>1, <1>2, <1>3, <1>4, <1>6, <2>1
      <3>2. less = (a > b) /\ (a > b) \in BOOLEAN
        BY <2>1
      <3> QED  BY <3>1, <3>2, Zenon
    <2>4. zl /\ zr => ~(jl < jr)
      BY <1>3, <1>4, <2>1 DEF zl, zr
    <2> QED  BY <1>1, <1>2, <1>8, <1>9, <2>2, <2>3, <2>4 DEF zl, zr, jl, jr, less, nl, nr
  <1>12. CASE nl = FALSE /\ nr = FALSE
    <2>1. jl = gl /\ jr = gr /\ less = (a < b) /\ l = a /\ r = b
      BY <1>1, <1>2, <1>3, <1>4, <1>7, <1>12 DEF Signed, jl, jr, less
    <2>2. jl = jr <=> (zl /\ zr) \/ l = r
      BY <1>1, <1>2, <1>3, <1>4, <1>6, <1>8, <1>9, <1>10, <2>1 DEF zl, zr
    <2>3. less \in BOOLEAN /\ (less <=> jl < jr)
      <3>1. a < b <=> jl < jr
        BY <1>1, <1>2, <1>3, <1>4, <1>6, <2>1
      <3>2. less = (a < b) /\ (a < b) \in BOOLEAN
        BY <2>1
      <3> QED  BY <3>1, <3>2, Zenon
    <2>4. zl /\ zr => ~(jl < jr)
      BY <1>3, <1>4, <2>1 DEF zl, zr
    <2> QED  BY <1>1, <1>2, <1>8, <1>9, <2>2, <2>3, <2>4 DEF zl, zr, jl, jr, less, nl, nr
  <1>13. CASE nl = TRUE /\ nr = FALSE
    <2>1. jl = -gl /\ jr = gr /\ less = TRUE /\ l = Sign + a /\ r = b
      BY <1>1, <1>2, <1>3, <1>4, <1>7, <1>13 DEF Signed, jl, jr, less
    <2>2. jl = jr <=> (zl /\ zr) \/ l = r
      BY <1>1, <1>2, <1>3, <1>4, <1>8, <1>9, <1>10, <2>1 DEF zl, zr
    <2>3. less \in BOOLEAN /\ (~(zl /\ zr) => (less <=> jl < jr))
      BY <1>1, <1>2, <1>3, <1>4, <2>1 DEF zl, zr
    <2>4. zl /\ zr => ~(jl < jr)
      BY <1>3, <1>4, <2>1 DEF zl, zr
    <2> QED  BY <1>1, <1>2, <1>8, <1>9, <2>2, <2>3, <2>4 DEF zl, zr, jl, jr, less, nl, nr
  <1>14. CASE nl = FALSE /\ nr = TRUE
    <2>1. jl = gl /\ jr = -gr /\ less = FALSE /\ l = a /\ r = Sign + b
      BY <1>1, <1>2, <1>3, <1>4, <1>7, <1>14 DEF Signed, jl, jr, less
    <2>2. jl = jr <=> (zl /\ zr) \/ l = r
      BY <1>1, <1>2, <1>3, <1>4, <1>8, <1>9, <1>10, <2>1 DEF zl, zr
    <2>3. less \in BOOLEAN /\ (~(zl /\ zr) => (less <=> jl < jr))
      <3>1. ~(jl < jr)
        BY <1>3, <1>4, <2>1
      <3> QED  BY <2>1, <3>1, Zenon
    <2>4. zl /\ zr => ~(jl < jr)
      BY <1>3, <1>4, <2>1 DEF zl, zr
    <2> QED  BY <1>1, <1>2, <1>8, <1>9, <2>2, <2>3, <2>4 DEF zl, zr, jl, jr, less, nl, nr
  <1> QED  BY <1>1, <1>2, <1>11, <1>12, <1>13, <1>14

\* FEQ, FLT and FLE of any two floats.
LEMMA CompareIs ==
    ASSUME NEW l \in Floats, NEW r \in Floats
    PROVE  /\ NanOf(l) \/ NanOf(r) =>
                 \A op \in {"Eq", "Lt", "Le"} :
                     compare(op, l, r) =
                        Result(0, IF op # "Eq" \/ SignalingOf(l) \/ SignalingOf(r) THEN {NV} ELSE {})
           /\ ~(NanOf(l) \/ NanOf(r)) =>
                 /\ compare("Eq", l, r) = Result(Truth(Number(l) = Number(r)), {})
                 /\ compare("Lt", l, r) = Result(Truth(Number(l) < Number(r)), {})
                 /\ compare("Le", l, r) = Result(Truth(Number(l) <= Number(r)), {})
  <1> DEFINE lhs == Unpack(l)
             rhs == Unpack(r)
  <1>1. /\ (is_nan(lhs) <=> NanOf(l)) /\ (IsZero(lhs) <=> ZeroOf(l))
        /\ (is_signaling_nan(lhs) <=> SignalingOf(l))
    BY UnpackFacts
  <1>2. /\ (is_nan(rhs) <=> NanOf(r)) /\ (IsZero(rhs) <=> ZeroOf(r))
        /\ (is_signaling_nan(rhs) <=> SignalingOf(r))
    BY UnpackFacts
  <1>3. ASSUME NanOf(l) \/ NanOf(r), NEW op \in {"Eq", "Lt", "Le"}
        PROVE  compare(op, l, r) =
                  Result(0, IF op # "Eq" \/ SignalingOf(l) \/ SignalingOf(r) THEN {NV} ELSE {})
    <2>1. is_nan(lhs) \/ is_nan(rhs)
      BY <1>1, <1>2, <1>3
    <2>2. compare(op, l, r)
             = Result(0, IF op # "Eq" \/ is_signaling_nan(lhs) \/ is_signaling_nan(rhs)
                         THEN {NV} ELSE {})
      BY <2>1 DEF compare
    <2> QED  BY <1>1, <1>2, <2>2
  <1>4. ASSUME ~(NanOf(l) \/ NanOf(r))
        PROVE  /\ compare("Eq", l, r) = Result(Truth(Number(l) = Number(r)), {})
               /\ compare("Lt", l, r) = Result(Truth(Number(l) < Number(r)), {})
               /\ compare("Le", l, r) = Result(Truth(Number(l) <= Number(r)), {})
    <2> DEFINE jl == Number(l)
               jr == Number(r)
               zeros == ZeroOf(l) /\ ZeroOf(r)
               less == less_than(l, r)
    <2>1. /\ jl = jr <=> zeros \/ l = r
          /\ ~zeros => (less <=> jl < jr)
          /\ zeros => ~(jl < jr)
          /\ less \in BOOLEAN
      BY <1>4, LessThanIs
    <2>2. jl \in Int /\ jr \in Int
      <3>1. jl \in Int
        BY <1>4, NumberIs
      <3>2. jr \in Int
        BY <1>4, NumberIs
      <3> QED  BY <3>1, <3>2
    <2>3. ~(is_nan(lhs) \/ is_nan(rhs)) /\ (IsZero(lhs) /\ IsZero(rhs) <=> zeros)
      BY <1>1, <1>2, <1>4
    <2>4. /\ compare("Eq", l, r) = Result(Truth((IsZero(lhs) /\ IsZero(rhs)) \/ l = r), {})
          /\ compare("Lt", l, r) = Result(Truth(~(IsZero(lhs) /\ IsZero(rhs)) /\ less), {})
          /\ compare("Le", l, r)
                = Result(Truth(((IsZero(lhs) /\ IsZero(rhs)) \/ l = r) \/ less), {})
      BY <2>3 DEF compare
    <2> HIDE DEF jl, jr, zeros, less, lhs, rhs
    <2>5. ((IsZero(lhs) /\ IsZero(rhs)) \/ l = r) <=> jl = jr
      BY <2>1, <2>3
    <2>6. (~(IsZero(lhs) /\ IsZero(rhs)) /\ less) <=> jl < jr
      BY <2>1, <2>3, Zenon
    <2>7. (((IsZero(lhs) /\ IsZero(rhs)) \/ l = r) \/ less) <=> jl <= jr
      <3>1. jl <= jr <=> jl < jr \/ jl = jr
        BY <2>2
      <3> QED  BY <2>1, <2>3, <3>1, Zenon
    <2> QED  BY <2>4, <2>5, <2>6, <2>7, Zenon DEF Truth, jl, jr
  <1> QED  BY <1>3, <1>4

\* FMIN and FMAX of any two floats.
LEMMA MinOrMaxIs ==
    ASSUME NEW l \in Floats, NEW r \in Floats
    PROVE  LET first == Number(l) < Number(r) \/ (ZeroOf(l) /\ ZeroOf(r) /\ IsNegative(l))
               flags == IF SignalingOf(l) \/ SignalingOf(r) THEN {NV} ELSE {}
           IN  /\ NanOf(l) /\ NanOf(r) =>
                     \A maximum \in BOOLEAN :
                         min_or_max(l, r, maximum) = Result(CanonicalNan, flags)
               /\ NanOf(l) /\ ~NanOf(r) =>
                     \A maximum \in BOOLEAN : min_or_max(l, r, maximum) = Result(r, flags)
               /\ ~NanOf(l) /\ NanOf(r) =>
                     \A maximum \in BOOLEAN : min_or_max(l, r, maximum) = Result(l, flags)
               /\ ~NanOf(l) /\ ~NanOf(r) =>
                     /\ min_or_max(l, r, FALSE) = Result(IF first THEN l ELSE r, flags)
                     /\ min_or_max(l, r, TRUE) = Result(IF ~first THEN l ELSE r, flags)
  <1> DEFINE lhs == Unpack(l)
             rhs == Unpack(r)
             nl == IsNegative(l)
             nr == IsNegative(r)
             first == Number(l) < Number(r) \/ (ZeroOf(l) /\ ZeroOf(r) /\ IsNegative(l))
             flags == IF SignalingOf(l) \/ SignalingOf(r) THEN {NV} ELSE {}
  <1>1. /\ (is_nan(lhs) <=> NanOf(l)) /\ (IsZero(lhs) <=> ZeroOf(l))
        /\ (is_signaling_nan(lhs) <=> SignalingOf(l)) /\ lhs.sign = nl /\ nl \in BOOLEAN
    BY UnpackFacts
  <1>2. /\ (is_nan(rhs) <=> NanOf(r)) /\ (IsZero(rhs) <=> ZeroOf(r))
        /\ (is_signaling_nan(rhs) <=> SignalingOf(r)) /\ rhs.sign = nr /\ nr \in BOOLEAN
    BY UnpackFacts
  <1>3. flags = IF is_signaling_nan(lhs) \/ is_signaling_nan(rhs) THEN {NV} ELSE {}
    BY <1>1, <1>2
  <1> HIDE DEF flags
  <1>4. ASSUME NanOf(l), NanOf(r), NEW maximum \in BOOLEAN
        PROVE  min_or_max(l, r, maximum) = Result(CanonicalNan, flags)
    <2>1. /\ is_nan(lhs) /\ is_nan(rhs)
          /\ ~(is_nan(lhs) /\ ~is_nan(rhs))
          /\ ~(~is_nan(lhs) /\ is_nan(rhs))
          /\ ~(IsZero(lhs) /\ IsZero(rhs))
      BY <1>1, <1>2, <1>4 DEF is_nan, IsZero
    <2>2. min_or_max(l, r, maximum)
             = Result(CanonicalNan, IF is_signaling_nan(lhs) \/ is_signaling_nan(rhs) THEN {NV} ELSE {})
      BY <2>1 DEF min_or_max
    <2> QED  BY <1>3, <2>2
  <1>5. ASSUME NanOf(l), ~NanOf(r), NEW maximum \in BOOLEAN
        PROVE  min_or_max(l, r, maximum) = Result(r, flags)
    <2>1. /\ is_nan(lhs) /\ ~is_nan(rhs)
          /\ ~(is_nan(lhs) /\ is_nan(rhs))
          /\ ~(~is_nan(lhs) /\ is_nan(rhs))
          /\ ~(IsZero(lhs) /\ IsZero(rhs))
      BY <1>1, <1>2, <1>5 DEF is_nan, IsZero
    <2>2. min_or_max(l, r, maximum)
             = Result(r, IF is_signaling_nan(lhs) \/ is_signaling_nan(rhs) THEN {NV} ELSE {})
      BY <2>1 DEF min_or_max
    <2> QED  BY <1>3, <2>2
  <1>6. ASSUME ~NanOf(l), NanOf(r), NEW maximum \in BOOLEAN
        PROVE  min_or_max(l, r, maximum) = Result(l, flags)
    <2>1. /\ ~is_nan(lhs) /\ is_nan(rhs)
          /\ ~(is_nan(lhs) /\ is_nan(rhs))
          /\ ~(is_nan(lhs) /\ ~is_nan(rhs))
          /\ ~(IsZero(lhs) /\ IsZero(rhs))
      BY <1>1, <1>2, <1>6 DEF is_nan, IsZero
    <2>2. min_or_max(l, r, maximum)
             = Result(l, IF is_signaling_nan(lhs) \/ is_signaling_nan(rhs) THEN {NV} ELSE {})
      BY <2>1 DEF min_or_max
    <2> QED  BY <1>3, <2>2
  <1>7. ASSUME ~NanOf(l), ~NanOf(r)
        PROVE  /\ min_or_max(l, r, FALSE) = Result(IF first THEN l ELSE r, flags)
               /\ min_or_max(l, r, TRUE) = Result(IF ~first THEN l ELSE r, flags)
    <2> DEFINE zeros == ZeroOf(l) /\ ZeroOf(r)
               less == less_than(l, r)
               below == Number(l) < Number(r)
    <2>1. /\ ~zeros => (less <=> below)
          /\ zeros => ~below /\ l = Signed(nl, 0) /\ r = Signed(nr, 0)
          /\ less \in BOOLEAN
      BY <1>7, LessThanIs
    <2>2. ~is_nan(lhs) /\ ~is_nan(rhs)
      BY <1>1, <1>2, <1>7
    <2>3. CASE zeros
      <3>1. IsZero(lhs) /\ IsZero(rhs)
        BY <1>1, <1>2, <2>3
      <3>2. \A maximum \in BOOLEAN :
               min_or_max(l, r, maximum)
                  = Result(Signed(IF maximum THEN nl /\ nr ELSE nl \/ nr, 0), flags)
        BY <1>1, <1>2, <1>3, <2>2, <3>1 DEF min_or_max
      <3>3. first <=> nl
        BY <2>1, <2>3, Zenon
      <3> HIDE DEF nl, nr, first
      <3>4. CASE nl = TRUE
        <4>1. (nl \/ nr) = nl /\ (nl /\ nr) = nr
          BY <1>1, <1>2, <3>4
        <4>2. first /\ l = Signed(nl, 0) /\ r = Signed(nr, 0)
          BY <2>1, <2>3, <3>3, <3>4
        <4> QED  BY <3>2, <4>1, <4>2
      <3>5. CASE nl = FALSE
        <4>1. (nl \/ nr) = nr /\ (nl /\ nr) = nl
          BY <1>1, <1>2, <3>5
        <4>2. ~first /\ l = Signed(nl, 0) /\ r = Signed(nr, 0)
          BY <2>1, <2>3, <3>3, <3>5
        <4> QED  BY <3>2, <4>1, <4>2
      <3> QED  BY <1>1, <3>4, <3>5
    <2>4. CASE ~zeros
      <3>1. ~(IsZero(lhs) /\ IsZero(rhs))
        BY <1>1, <1>2, <2>4
      <3>2. \A maximum \in BOOLEAN :
               min_or_max(l, r, maximum) = Result(IF less = maximum THEN r ELSE l, flags)
        BY <1>3, <2>2, <3>1 DEF min_or_max
      <3>3. first <=> less
        BY <2>1, <2>4, Zenon
      <3> HIDE DEF less, first
      <3>4. CASE less = TRUE
        BY <3>2, <3>3, <3>4
      <3>5. CASE less = FALSE
        BY <3>2, <3>3, <3>5
      <3> QED  BY <2>1, <3>4, <3>5
    <2> QED  BY <2>3, <2>4
  <1> QED  BY <1>4, <1>5, <1>6, <1>7, Zenon DEF flags

\* The comparisons, FMIN and FMAX order floats as numbers in every format.
THEOREM ComparisonsOrderNumbers == Spec => []ComparisonsAgree
  <1>1. ASSUME Operands PROVE ComparisonsAgree
    <2> DEFINE nx == NanOf(x)
               ny == NanOf(y)
               sx == SignalingOf(x)
               sy == SignalingOf(y)
               first == Number(x) < Number(y) \/ (ZeroOf(x) /\ ZeroOf(y) /\ IsNegative(x))
               flags == IF sx \/ sy THEN {NV} ELSE {}
    <2>0. x \in Floats /\ y \in Floats
      BY <1>1 DEF Operands
    <2>1. \A op \in {"Eq", "Lt", "Le"} : binary(op, x, y, "Rne") = compare(op, x, y)
      BY DEF binary
    <2>2. /\ binary("Min", x, y, "Rne") = min_or_max(x, y, FALSE)
          /\ binary("Max", x, y, "Rne") = min_or_max(x, y, TRUE)
      BY DEF binary
    <2>3. /\ nx \/ ny =>
                \A op \in {"Eq", "Lt", "Le"} :
                    compare(op, x, y) = Result(0, IF op # "Eq" \/ sx \/ sy THEN {NV} ELSE {})
          /\ ~(nx \/ ny) =>
                 /\ compare("Eq", x, y) = Result(Truth(Number(x) = Number(y)), {})
                 /\ compare("Lt", x, y) = Result(Truth(Number(x) < Number(y)), {})
                 /\ compare("Le", x, y) = Result(Truth(Number(x) <= Number(y)), {})
      BY <2>0, CompareIs
    <2>4. /\ nx /\ ny => \A maximum \in BOOLEAN :
                             min_or_max(x, y, maximum) = Result(CanonicalNan, flags)
          /\ nx /\ ~ny => \A maximum \in BOOLEAN : min_or_max(x, y, maximum) = Result(y, flags)
          /\ ~nx /\ ny => \A maximum \in BOOLEAN : min_or_max(x, y, maximum) = Result(x, flags)
          /\ ~nx /\ ~ny =>
                 /\ min_or_max(x, y, FALSE) = Result(IF first THEN x ELSE y, flags)
                 /\ min_or_max(x, y, TRUE) = Result(IF ~first THEN x ELSE y, flags)
      BY <2>0, MinOrMaxIs
    <2> DEFINE Compared(op, holds) ==
                   binary(op, x, y, "Rne") =
                       (IF nx \/ ny THEN Result(0, IF op # "Eq" \/ (sx \/ sy) THEN {NV} ELSE {})
                        ELSE Result(Truth(holds), {}))
               Picked(op, left) ==
                   binary(op, x, y, "Rne") =
                       Result(CASE nx /\ ny   -> CanonicalNan
                                [] nx /\ ~ny  -> y
                                [] ~nx /\ ny  -> x
                                [] ~(nx \/ ny) -> IF left THEN x ELSE y,
                              flags)
    <2>5. /\ Compared("Eq", Number(x) = Number(y))
          /\ Compared("Lt", Number(x) < Number(y))
          /\ Compared("Le", Number(x) <= Number(y))
      <3> HIDE DEF nx, ny, sx, sy
      <3>1. CASE nx \/ ny
        <4>1. ASSUME NEW op \in {"Eq", "Lt", "Le"}
              PROVE  binary(op, x, y, "Rne")
                        = Result(0, IF op # "Eq" \/ (sx \/ sy) THEN {NV} ELSE {})
          BY <2>1, <2>3, <3>1
        <4> QED  BY <3>1, <4>1
      <3>2. CASE ~(nx \/ ny)
        BY <2>1, <2>3, <3>2
      <3> QED  BY <3>1, <3>2
    <2>6. Picked("Min", first) /\ Picked("Max", ~first)
      <3> HIDE DEF nx, ny, flags, first
      <3>1. CASE nx /\ ny
        <4>1. ~(nx /\ ~ny) /\ ~(~nx /\ ny) /\ ~(~(nx \/ ny))
          BY <3>1
        <4> QED  BY <2>2, <2>4, <3>1, <4>1
      <3>2. CASE nx /\ ~ny
        <4>1. ~(nx /\ ny) /\ ~(~nx /\ ny) /\ ~(~(nx \/ ny))
          BY <3>2
        <4> QED  BY <2>2, <2>4, <3>2, <4>1
      <3>3. CASE ~nx /\ ny
        <4>1. ~(nx /\ ny) /\ ~(nx /\ ~ny) /\ ~(~(nx \/ ny))
          BY <3>3
        <4> QED  BY <2>2, <2>4, <3>3, <4>1
      <3>4. CASE ~nx /\ ~ny
        <4>1. ~(nx /\ ny) /\ ~(nx /\ ~ny) /\ ~(~nx /\ ny) /\ ~(nx \/ ny)
          BY <3>4
        <4> QED  BY <2>2, <2>4, <3>4, <4>1
      <3> QED  BY <3>1, <3>2, <3>3, <3>4
    <2> QED  BY <2>5, <2>6, Zenon DEF ComparisonsAgree
  <1>2. Operands => ComparisonsAgree
    BY <1>1
  <1> QED  BY <1>2, OperandsAreFloats, PTL

-----------------------------------------------------------------------------
\* The reference takes an exact zero for no other value.
LEMMA ExactlyZero ==
    ASSUME NEW once, NEW twice, AreOrders(once, twice), once[0] > 0, NEW negative \in BOOLEAN,
           NEW n
    PROVE  LET all == Delivered(once, twice, negative)["Rtz"]
           IN  all # Exact(n, 0) /\ Raised(all) # Exact(n, 0)
  <1> DEFINE r == Rounded(Grid, 0, Infinity, once, negative)["Rtz"]
             all == Delivered(once, twice, negative)["Rtz"]
  <1>1. once[0] \in Int /\ once[0] >= 0 /\ IsOrder(once)
    BY DEF AreOrders, IsOrder
  <1>2. PICK b \in 0 .. Infinity :
           \A c \in 0 .. Infinity : once[2 * Grid[c]] >= 0 <=> c <= b
    BY <1>1, LastReached
  <1> DEFINE low == once[2 * Grid[b]]
             middle == once[Grid[b] + Grid[b + 1]]
  <1>3. r = Chosen(b, low, middle, negative, "Rtz")
    BY <1>1, <1>2, RoundedIs DEF RoundingModes
  <1>4. b = 0 => low # 0
    <2>1. Grid[0] = 0 /\ 2 * 0 = 0
      BY GridGrows
    <2> QED  BY <1>1, <2>1
  <1>5. /\ Packs(negative, r) = Raised(all)
        /\ r.flags = {} => all = Result(Signed(negative, r.magnitude), {})
    BY DeliveredIs DEF RoundingModes
  <1>6. Infinity \in Nat /\ Sign \in Nat /\ Infinity < Sign /\ Infinity > 0
    BY FormatFacts, GridTop, InfinityPlace
  <1> HIDE DEF low, middle, r, all
  <1>7. r.flags # {} \/ (r.magnitude = b /\ b # 0)
    <2>1. CASE b = Infinity
      <3>1. r.flags = {OF, NX}
        BY <1>3, <2>1 DEF Chosen, Choice
      <3> QED  BY <3>1
    <2>2. CASE b # Infinity /\ low = 0
      <3>1. r.magnitude = b
        BY <1>3, <2>2 DEF Chosen, Choice
      <3> QED  BY <1>4, <2>2, <3>1
    <2>3. CASE b # Infinity /\ low # 0
      <3> DEFINE taken == r.magnitude
      <3>1. r.flags = CASE low = 0 -> {}
                        [] ~(low = 0) /\ taken = Infinity -> {OF, NX}
                        [] OTHER                          -> {NX}
        BY <1>3, <2>3, Zenon DEF Chosen, Choice
      <3>2. r.flags = {OF, NX} \/ r.flags = {NX}
        BY <2>3, <3>1
      <3> QED  BY <3>2
    <2> QED  BY <2>1, <2>2, <2>3
  <1>8. Raised(all) # Exact(n, 0)
    <2>1. CASE r.flags # {}
      <3>1. Packs(negative, r).flags # {}
        BY <2>1 DEF Packs, Result
      <3>2. Exact(n, 0).flags = {}
        BY DEF Exact, Result
      <3> QED  BY <1>5, <3>1, <3>2
    <2>2. CASE r.magnitude = b /\ b # 0
      <3>1. b \in Nat /\ b # 0 /\ b < Sign
        BY <1>6, <2>2
      <3>2. Signed(negative, b) # Signed(n, 0)
        BY <1>6, <3>1 DEF Signed
      <3>3. Packs(negative, r).value = Signed(negative, b) /\ Exact(n, 0).value = Signed(n, 0)
        BY <2>2 DEF Packs, Result, Exact
      <3> QED  BY <1>5, <3>2, <3>3
    <2> QED  BY <1>7, <2>1, <2>2
  <1>9. all # Exact(n, 0)
    <2> SUFFICES ASSUME all = Exact(n, 0) PROVE FALSE
      OBVIOUS
    <2>1. Raised(Exact(n, 0)) = Exact(n, 0)
      BY RaisedExact
    <2> QED  BY <1>8, <2>1
  <1> QED  BY <1>8, <1>9 DEF all

\* So a quotient is not rounded to an exact zero, nor do the unit's flags make it one.
LEMMA NeverZero ==
    ASSUME NEW num \in Nat \ {0}, NEW den \in Nat \ {0}, NEW negative \in BOOLEAN, NEW n
    PROVE  LET r == RoundedQuotient(num, den, negative)["Rtz"]
           IN  r # Exact(n, 0) /\ Raised(r) # Exact(n, 0)
  <1> DEFINE once == [h \in Nat |-> 2 * num - h * den]
             twice == [h \in Nat |-> 4 * num - h * den]
  <1>1. num \in Nat
    OBVIOUS
  <1>2. AreOrders(once, twice)
    BY <1>1, FractionOrders
  <1>3. once[0] > 0
    <2>1. 0 * den = 0
      OBVIOUS
    <2> QED  BY <2>1
  <1>4. RoundedQuotient(num, den, negative) = Delivered(once, twice, negative)
    BY DEF RoundedQuotient
  <1> HIDE DEF once, twice
  <1> QED  BY <1>2, <1>3, <1>4, ExactlyZero

\* Nor is a root.
LEMMA RootNeverZero ==
    ASSUME NEW num \in Nat \ {0}, NEW n
    PROVE  Raised(RoundedRoot(num)["Rtz"]) # Exact(n, 0)
  <1> DEFINE once == [h \in Nat |-> 4 * num - h * h]
             twice == [h \in Nat |-> 16 * num - h * h]
  <1>1. num \in Nat
    OBVIOUS
  <1>2. AreOrders(once, twice)
    BY <1>1, RootOrders
  <1>3. once[0] > 0
    <2>1. 0 * 0 = 0
      OBVIOUS
    <2> QED  BY <2>1
  <1>4. RoundedRoot(num) = Delivered(once, twice, FALSE)
    BY DEF RoundedRoot
  <1> HIDE DEF once, twice
  <1> QED  BY <1>2, <1>3, <1>4, ExactlyZero

\* Aligned parts that cancel.
LEMMA Cancels ==
    ASSUME NEW P \in Nat, NEW Q \in Nat, NEW g \in Nat, NEW h, h = g, SameSide(P - Q, g - h),
           NEW nl, NEW nr, nl # nr
    PROVE  SignedSum(nl, P, nr, Q).significand = 0
  <1>1. P = Q
    BY DEF SameSide
  <1> QED  BY <1>1 DEF SignedSum

\* Terms of given signs and magnitudes cancel if they are of opposite sign and
\* the same magnitude.
LEMMA TermsCancel ==
    ASSUME NEW g \in Nat \ {0}, NEW h \in Nat, NEW nl \in BOOLEAN, NEW nr \in BOOLEAN,
           NEW left, IsTerm(left, nl, g), NEW right, IsTerm(right, nr, h)
    PROVE  /\ left \in Int /\ right \in Int
           /\ left + right = 0 => g = h /\ nl # nr
  BY DEF IsTerm

\* A sum of two numbers throws in a reserved mode unless it cancels.
LEMMA SumReserved ==
    ASSUME NEW lhs, NEW rhs, NEW gl, NEW gr, IsScaled(lhs, gl), IsScaled(rhs, gr),
           lhs.sign \in BOOLEAN, NEW nr \in BOOLEAN,
           NEW left, IsTerm(left, lhs.sign, gl), NEW right, IsTerm(right, nr, gr)
    PROVE  AddFinite(lhs, rhs, nr, "Reserved") = Thrown <=> left + right # 0
  <1> DEFINE nl == lhs.sign
             aligned == AddParts(lhs, rhs)
             sum == SignedSum(nl, aligned.lhs, nr, aligned.rhs)
             S == sum.significand
  <1>1. \A rm : AddFinite(lhs, rhs, nr, rm) =
                   IF S = 0 THEN Exact(rm = "Rdn", 0)
                   ELSE round_and_pack(sum.sign, aligned.exponent, S, rm)
    BY DEF AddFinite, AddParts
  <1>2. gl \in Nat \ {0} /\ gr \in Nat \ {0} /\ AreParts(aligned, gl, gr)
    BY AddPartsAre
  <1>3. left \in Int /\ right \in Int /\ (left + right = 0 => gl = gr /\ nl # nr)
    BY <1>2, TermsCancel
  <1>4. CASE left + right = 0
    <2>1. PICK P \in Nat, Q \in Nat, e \in Int :
              /\ aligned = [exponent |-> e, lhs |-> P, rhs |-> Q]
              /\ SameSide(P - Q, gl - gr)
      BY <1>2, Zenon DEF AreParts
    <2>2. sum = SignedSum(nl, P, nr, Q)
      BY <2>1
    <2>3. S = 0
      <3> HIDE DEF aligned, nl
      <3> QED  BY <1>2, <1>3, <1>4, <2>1, <2>2, Cancels
    <2>4. AddFinite(lhs, rhs, nr, "Reserved") = Exact("Reserved" = "Rdn", 0)
      <3> HIDE DEF S, sum
      <3> QED  BY <1>1, <2>3
    <2>5. \A n : Exact(n, 0) # Thrown
      BY ReturnsIs
    <2> QED  BY <1>4, <2>4, <2>5
  <1>5. CASE left + right # 0
    <2> DEFINE t == left + right
    <2>1. AddFinite(lhs, rhs, nr, "Rtz") = RoundedSum(left, right, 1, nl, nr)["Rtz"]
      <3>1. "Rtz" \in RoundingModes
        BY DEF RoundingModes
      <3> QED  BY <3>1, SumRounded DEF IsTerm
    <2>2. RoundedSum(left, right, 1, nl, nr)["Rtz"] = RoundedQuotient(Abs(t), 1, t < 0)["Rtz"]
      <3>1. "Rtz" \in RoundingModes
        BY DEF RoundingModes
      <3> QED  BY <1>3, <1>5, <3>1, RoundedSumIs
    <2>3. Abs(t) \in Nat \ {0} /\ 1 \in Nat \ {0} /\ (t < 0) \in BOOLEAN
      BY <1>3, <1>5 DEF Abs
    <2> HIDE DEF t, S, sum
    <2>4. AddFinite(lhs, rhs, nr, "Rtz") # Exact("Rtz" = "Rdn", 0)
      BY <2>1, <2>2, <2>3, NeverZero
    <2>5. S # 0
      BY <1>1, <2>4
    <2>6. AddFinite(lhs, rhs, nr, "Reserved")
             = round_and_pack(sum.sign, aligned.exponent, S, "Reserved")
      BY <1>1, <2>5
    <2> QED  BY <1>5, <2>5, <2>6, PackReserved
  <1> QED  BY <1>4, <1>5

\* FADD and FSUB throw where two numbers do not cancel.
LEMMA AddOrSubReserved ==
    ASSUME NEW l \in Floats, NEW r \in Floats, NEW subtract \in BOOLEAN,
           NEW right, IsTerm(right, IsNegative(r) # subtract, Grid[MagnitudeOf(r)])
    PROVE  add_or_sub(l, r, subtract, "Reserved") = Thrown <=>
              FiniteNonzero(l) /\ FiniteNonzero(r) /\ Number(l) + right # 0
  <1> DEFINE lhs == Unpack(l)
             rhs == Unpack(r)
             sr == rhs.sign # subtract
             finite == AddFinite(lhs, rhs, sr, "Reserved")
             code == add_or_sub(l, r, subtract, "Reserved")
  <1>1. /\ (is_nan(lhs) <=> NanOf(l)) /\ (IsZero(lhs) <=> ZeroOf(l))
        /\ (IsInfinity(lhs) <=> InfiniteOf(l)) /\ lhs.sign = IsNegative(l)
        /\ (ZeroOf(l) \/ FiniteNonzero(l) \/ InfiniteOf(l) \/ NanOf(l))
        /\ (FiniteNonzero(l) => ~InfiniteOf(l) /\ ~NanOf(l) /\ ~ZeroOf(l))
        /\ IsNegative(l) \in BOOLEAN
    BY UnpackFacts
  <1>2. /\ (is_nan(rhs) <=> NanOf(r)) /\ (IsZero(rhs) <=> ZeroOf(r))
        /\ (IsInfinity(rhs) <=> InfiniteOf(r)) /\ rhs.sign = IsNegative(r)
        /\ (ZeroOf(r) \/ FiniteNonzero(r) \/ InfiniteOf(r) \/ NanOf(r))
        /\ (FiniteNonzero(r) => ~InfiniteOf(r) /\ ~NanOf(r) /\ ~ZeroOf(r))
    BY UnpackFacts
  <1>3. code = IF is_nan(lhs) \/ is_nan(rhs) THEN propagate_nan({lhs, rhs})
               ELSE IF IsInfinity(lhs) /\ IsInfinity(rhs) /\ lhs.sign # sr THEN Invalid
               ELSE IF IsInfinity(lhs) THEN Exact(lhs.sign, Infinity)
               ELSE IF IsInfinity(rhs) THEN Exact(sr, Infinity)
               ELSE IF IsZero(lhs) /\ IsZero(rhs)
               THEN Exact(ZeroSign(lhs.sign, sr, "Reserved"), 0)
               ELSE IF IsZero(lhs) THEN Exact(sr, MagnitudeOf(r))
               ELSE IF IsZero(rhs) THEN Result(l, {})
               ELSE finite
    BY Zenon DEF add_or_sub
  <1>4. /\ propagate_nan({lhs, rhs}) # Thrown /\ Invalid # Thrown /\ Result(l, {}) # Thrown
        /\ \A n : Exact(n, Infinity) # Thrown /\ Exact(n, 0) # Thrown
        /\ \A n : Exact(n, MagnitudeOf(r)) # Thrown
    <2>1. Infinity \in Nat /\ MagnitudeOf(r) \in Nat /\ l \in Nat /\ 0 \in Nat
      <3>1. MagnitudeOf(r) \in Nat
        BY RawParts
      <3>2. l \in Nat
        BY DEF Floats
      <3> QED  BY <3>1, <3>2, FormatFacts
    <2> QED  BY <2>1, ReturnsIs
  <1>5. ASSUME FiniteNonzero(l), FiniteNonzero(r)
        PROVE  finite = Thrown <=> Number(l) + right # 0
    <2>1. IsScaled(lhs, Grid[MagnitudeOf(l)])
      BY <1>5, ScaledIs
    <2>2. IsScaled(rhs, Grid[MagnitudeOf(r)])
      BY <1>5, ScaledIs
    <2>3. IsTerm(Number(l), lhs.sign, Grid[MagnitudeOf(l)])
      BY <1>1 DEF IsTerm, Number
    <2>4. IsTerm(right, sr, Grid[MagnitudeOf(r)]) /\ sr \in BOOLEAN /\ lhs.sign \in BOOLEAN
      BY <1>1, <1>2
    <2> HIDE DEF lhs, rhs, sr
    <2> QED  BY <2>1, <2>2, <2>3, <2>4, SumReserved
  <1> HIDE DEF lhs, rhs, sr, finite, code
  <1>6. code = Thrown <=> FiniteNonzero(l) /\ FiniteNonzero(r) /\ Number(l) + right # 0
    BY <1>1, <1>2, <1>3, <1>4, <1>5
  <1> QED  BY <1>6 DEF code

\* FMUL throws where it has two numbers.
LEMMA MultiplyReserved ==
    ASSUME NEW l \in Floats, NEW r \in Floats
    PROVE  multiply(l, r, "Reserved") = Thrown <=> FiniteNonzero(l) /\ FiniteNonzero(r)
  <1> DEFINE lhs == Unpack(l)
             rhs == Unpack(r)
             sign == lhs.sign # rhs.sign
             finite == MultiplyFinite(lhs, rhs, sign, "Reserved")
             code == multiply(l, r, "Reserved")
  <1>1. /\ (is_nan(lhs) <=> NanOf(l)) /\ (IsZero(lhs) <=> ZeroOf(l))
        /\ (IsInfinity(lhs) <=> InfiniteOf(l)) /\ lhs.sign \in BOOLEAN
        /\ (ZeroOf(l) \/ FiniteNonzero(l) \/ InfiniteOf(l) \/ NanOf(l))
        /\ (FiniteNonzero(l) => ~InfiniteOf(l) /\ ~NanOf(l) /\ ~ZeroOf(l))
    BY UnpackFacts
  <1>2. /\ (is_nan(rhs) <=> NanOf(r)) /\ (IsZero(rhs) <=> ZeroOf(r))
        /\ (IsInfinity(rhs) <=> InfiniteOf(r)) /\ rhs.sign \in BOOLEAN
        /\ (ZeroOf(r) \/ FiniteNonzero(r) \/ InfiniteOf(r) \/ NanOf(r))
        /\ (FiniteNonzero(r) => ~InfiniteOf(r) /\ ~NanOf(r) /\ ~ZeroOf(r))
    BY UnpackFacts
  <1>3. code = IF is_nan(lhs) \/ is_nan(rhs) THEN propagate_nan({lhs, rhs})
               ELSE IF (IsZero(lhs) /\ IsInfinity(rhs)) \/ (IsInfinity(lhs) /\ IsZero(rhs))
               THEN Invalid
               ELSE IF IsInfinity(lhs) \/ IsInfinity(rhs) THEN Exact(sign, Infinity)
               ELSE IF IsZero(lhs) \/ IsZero(rhs) THEN Exact(sign, 0)
               ELSE finite
    BY Zenon DEF multiply
  <1>4. /\ propagate_nan({lhs, rhs}) # Thrown /\ Invalid # Thrown
        /\ Exact(sign, Infinity) # Thrown /\ Exact(sign, 0) # Thrown
    BY FormatFacts, ReturnsIs
  <1>5. ASSUME FiniteNonzero(l), FiniteNonzero(r) PROVE finite = Thrown
    <2> DEFINE gl == Grid[MagnitudeOf(l)]
               gr == Grid[MagnitudeOf(r)]
               p == Product(lhs, rhs)
               S == shift_right_jam(p.significand, FRACBITS - (IF p.at_least_two THEN 2 ELSE 3))
    <2>1. IsScaled(lhs, gl)
      BY <1>5, ScaledIs
    <2>2. IsScaled(rhs, gr)
      BY <1>5, ScaledIs
    <2>3. \A rm : MultiplyFinite(lhs, rhs, sign, rm) = round_and_pack(sign, p.exponent, S, rm)
      BY Zenon DEF MultiplyFinite
    <2>4. sign \in BOOLEAN /\ "Rtz" \in RoundingModes
      BY <1>1, <1>2 DEF RoundingModes
    <2> HIDE DEF lhs, rhs, sign, gl, gr, S
    <2>5. MultiplyFinite(lhs, rhs, sign, "Rtz")
             = Raised(RoundedQuotient(Times(gl, gr), Unit, sign)["Rtz"])
      BY <2>1, <2>2, <2>4, ProductRounded
    <2>6. Times(gl, gr) \in Nat \ {0} /\ Unit \in Nat \ {0}
      <3>1. gl \in Nat /\ gl # 0 /\ gr \in Nat /\ gr # 0
        BY <2>1, <2>2 DEF IsScaled
      <3> QED  BY <3>1, TimesIs, UnitIs
    <2>7. MultiplyFinite(lhs, rhs, sign, "Rtz") # Exact(sign, 0)
      BY <2>4, <2>5, <2>6, NeverZero
    <2>8. S # 0
      BY <2>3, <2>7, PackZero
    <2> QED  BY <2>3, <2>8, PackReserved
  <1> HIDE DEF lhs, rhs, sign, finite, code
  <1>6. code = Thrown <=> FiniteNonzero(l) /\ FiniteNonzero(r)
    BY <1>1, <1>2, <1>3, <1>4, <1>5
  <1> QED  BY <1>6 DEF code

\* FDIV does so, too.
LEMMA DivideReserved ==
    ASSUME NEW l \in Floats, NEW r \in Floats
    PROVE  divide(l, r, "Reserved") = Thrown <=> FiniteNonzero(l) /\ FiniteNonzero(r)
  <1> DEFINE lhs == Unpack(l)
             rhs == Unpack(r)
             sign == lhs.sign # rhs.sign
             finite == DivideFinite(lhs, rhs, sign, "Reserved")
             code == divide(l, r, "Reserved")
  <1>1. /\ (is_nan(lhs) <=> NanOf(l)) /\ (IsZero(lhs) <=> ZeroOf(l))
        /\ (IsInfinity(lhs) <=> InfiniteOf(l)) /\ lhs.sign \in BOOLEAN
        /\ (ZeroOf(l) \/ FiniteNonzero(l) \/ InfiniteOf(l) \/ NanOf(l))
        /\ (FiniteNonzero(l) => ~InfiniteOf(l) /\ ~NanOf(l) /\ ~ZeroOf(l))
    BY UnpackFacts
  <1>2. /\ (is_nan(rhs) <=> NanOf(r)) /\ (IsZero(rhs) <=> ZeroOf(r))
        /\ (IsInfinity(rhs) <=> InfiniteOf(r)) /\ rhs.sign \in BOOLEAN
        /\ (ZeroOf(r) \/ FiniteNonzero(r) \/ InfiniteOf(r) \/ NanOf(r))
        /\ (FiniteNonzero(r) => ~InfiniteOf(r) /\ ~NanOf(r) /\ ~ZeroOf(r))
    BY UnpackFacts
  <1>3. code = IF is_nan(lhs) \/ is_nan(rhs) THEN propagate_nan({lhs, rhs})
               ELSE IF (IsZero(lhs) /\ IsZero(rhs)) \/ (IsInfinity(lhs) /\ IsInfinity(rhs))
               THEN Invalid
               ELSE IF IsZero(rhs) THEN Result(Signed(sign, Infinity), {DZ})
               ELSE IF IsInfinity(lhs) THEN Exact(sign, Infinity)
               ELSE IF IsZero(lhs) \/ IsInfinity(rhs) THEN Exact(sign, 0)
               ELSE finite
    BY Zenon DEF divide
  <1>4. /\ propagate_nan({lhs, rhs}) # Thrown /\ Invalid # Thrown
        /\ Exact(sign, Infinity) # Thrown /\ Exact(sign, 0) # Thrown
        /\ Result(Signed(sign, Infinity), {DZ}) # Thrown
    BY FormatFacts, ReturnsIs
  <1>5. ASSUME FiniteNonzero(l), FiniteNonzero(r) PROVE finite = Thrown
    <2> DEFINE gl == Grid[MagnitudeOf(l)]
               gr == Grid[MagnitudeOf(r)]
               smaller == lhs.significand < rhs.significand
               numerator == lhs.significand * (IF smaller THEN 2 ELSE 1)
               e == lhs.exponent - rhs.exponent - (IF smaller THEN 1 ELSE 0)
               division == divide_unsigned(numerator * 2^(FRACBITS + 3), rhs.significand)
               S == WithSticky(division.quotient, division.remainder # 0)
    <2>1. IsScaled(lhs, gl)
      BY <1>5, ScaledIs
    <2>2. IsScaled(rhs, gr)
      BY <1>5, ScaledIs
    <2>3. \A rm : DivideFinite(lhs, rhs, sign, rm) = round_and_pack(sign, e, S, rm)
      BY Zenon DEF DivideFinite
    <2>4. sign \in BOOLEAN /\ "Rtz" \in RoundingModes
      BY <1>1, <1>2 DEF RoundingModes
    <2> HIDE DEF lhs, rhs, sign, gl, gr, S, e
    <2>5. DivideFinite(lhs, rhs, sign, "Rtz") = Raised(RoundedQuotient(gl * Unit, gr, sign)["Rtz"])
      BY <2>1, <2>2, <2>4, QuotientRounded
    <2>6. gl * Unit \in Nat \ {0} /\ gr \in Nat \ {0}
      <3>1. gl \in Nat \ {0} /\ gr \in Nat \ {0} /\ Unit \in Nat \ {0}
        BY <2>1, <2>2, UnitIs DEF IsScaled
      <3> QED  BY <3>1, SMT
    <2>7. DivideFinite(lhs, rhs, sign, "Rtz") # Exact(sign, 0)
      BY <2>4, <2>5, <2>6, NeverZero
    <2>8. S # 0
      BY <2>3, <2>7, PackZero
    <2> QED  BY <2>3, <2>8, PackReserved
  <1> HIDE DEF lhs, rhs, sign, finite, code
  <1>6. code = Thrown <=> FiniteNonzero(l) /\ FiniteNonzero(r)
    BY <1>1, <1>2, <1>3, <1>4, <1>5
  <1> QED  BY <1>6 DEF code

\* FSQRT throws for every positive number.
LEMMA RootReserved ==
    ASSUME NEW b \in Floats
    PROVE  square_root(b, "Reserved") = Thrown <=> FiniteNonzero(b) /\ ~IsNegative(b)
  <1> DEFINE u == Unpack(b)
             finite == SquareRootFinite(u, "Reserved")
             code == square_root(b, "Reserved")
  <1>1. /\ (is_nan(u) <=> NanOf(b)) /\ (IsZero(u) <=> ZeroOf(b))
        /\ (IsInfinity(u) <=> InfiniteOf(b)) /\ u.sign = IsNegative(b)
        /\ (ZeroOf(b) \/ FiniteNonzero(b) \/ InfiniteOf(b) \/ NanOf(b))
        /\ (FiniteNonzero(b) => ~InfiniteOf(b) /\ ~NanOf(b) /\ ~ZeroOf(b))
    BY UnpackFacts
  <1>2. code = IF is_nan(u) THEN propagate_nan({u})
               ELSE IF IsZero(u) THEN Result(b, {})
               ELSE IF u.sign THEN Invalid
               ELSE IF IsInfinity(u) THEN Exact(FALSE, Infinity)
               ELSE finite
    BY Zenon DEF square_root
  <1>3. /\ propagate_nan({u}) # Thrown /\ Invalid # Thrown
        /\ Exact(FALSE, Infinity) # Thrown /\ Result(b, {}) # Thrown
    <2>1. b \in Nat
      BY DEF Floats
    <2> QED  BY <2>1, FormatFacts, ReturnsIs
  <1>4. ASSUME FiniteNonzero(b) PROVE finite = Thrown
    <2> DEFINE g == Grid[MagnitudeOf(b)]
               odd == u.exponent % 2
               e == (u.exponent - odd) \div 2
               result == square_root_unsigned(u.significand * 2^(odd + FRACBITS + 6))
               S == WithSticky(result.root, result.remainder # 0)
    <2>1. IsScaled(u, g)
      BY <1>4, ScaledIs
    <2>2. \A rm : SquareRootFinite(u, rm) = round_and_pack(FALSE, e, S, rm)
      BY Zenon DEF SquareRootFinite
    <2>3. "Rtz" \in RoundingModes
      BY DEF RoundingModes
    <2> HIDE DEF u, g, S, e
    <2>4. SquareRootFinite(u, "Rtz") = Raised(RoundedRoot(g * Unit)["Rtz"])
      BY <2>1, <2>3, RootRounded
    <2>5. g * Unit \in Nat \ {0}
      <3>1. g \in Nat \ {0} /\ Unit \in Nat \ {0}
        BY <2>1, UnitIs DEF IsScaled
      <3> QED  BY <3>1, SMT
    <2>6. SquareRootFinite(u, "Rtz") # Exact(FALSE, 0)
      BY <2>4, <2>5, RootNeverZero
    <2>7. S # 0
      BY <2>2, <2>6, PackZero
    <2> QED  BY <2>2, <2>7, PackReserved
  <1> HIDE DEF u, finite, code
  <1>5. code = Thrown <=> FiniteNonzero(b) /\ ~IsNegative(b)
    BY <1>1, <1>2, <1>3, <1>4
  <1> QED  BY <1>5 DEF code

\* A product and an addend that the reference's cut product cancels against
\* cancel exactly.
LEMMA CutCancels ==
    ASSUME NEW p, NEW full \in Nat \ {0}, NEW g \in Nat, IsCut(p, full, g),
           NEW np \in BOOLEAN, NEW nc \in BOOLEAN,
           NEW left, IsTerm(left, np, p), NEW right, IsTerm(right, nc, g)
    PROVE  /\ left \in Int /\ right \in Int
           /\ left + right = 0 => full = g /\ np # nc
  <1> DEFINE t == Grid[Infinity] * Unit
  <1>1. t \in Nat /\ t > 0 /\ (2 * Grid[Infinity]) * Unit = 2 * t
    <2>1. Grid[Infinity] \in Nat /\ Grid[Infinity] > 0 /\ Unit \in Nat \ {0}
      BY GridTop, UnitIs
    <2> QED  BY <2>1, SMT
  <1>2. p \in Nat /\ (p = full \/ (p >= 2 * t /\ g < t))
    BY <1>1 DEF IsCut
  <1> HIDE DEF t
  <1>3. p \in Nat \ {0}
    BY <1>1, <1>2
  <1>4. left \in Int /\ right \in Int /\ (left + right = 0 => p = g /\ np # nc)
    BY <1>3, TermsCancel
  <1> QED  BY <1>1, <1>2, <1>4

\* A fused sum throws in a reserved mode unless it cancels.
LEMMA FusedReserved ==
    ASSUME NEW l, NEW r, NEW c, NEW p, NEW left, NEW right, NEW np, NEW nc,
           AreOperands(l, r, c, p, left, right, np, nc)
    PROVE  FusedPack(Unpack(l), Unpack(r), Unpack(c), np, nc, "Reserved") = Thrown
              <=> left + right # 0
  <1> DEFINE lhs == Unpack(l)
             rhs == Unpack(r)
             addend == Unpack(c)
             gl == Grid[MagnitudeOf(l)]
             gr == Grid[MagnitudeOf(r)]
             gc == Grid[MagnitudeOf(c)]
             full == gl * gr
             g == gc * Unit
             aligned == FusedParts(lhs, rhs, addend)
             fused == compute_fma(lhs, rhs, addend, np, nc)
             S == fused.significand
             Code(rm) == FusedPack(lhs, rhs, addend, np, nc, rm)
  <1>1. \A rm : Code(rm) = round_and_pack(IF S = 0 THEN rm = "Rdn" ELSE fused.sign,
                                          fused.exponent, S, rm)
    BY DEF FusedPack
  <1>2. /\ IsScaled(lhs, gl) /\ IsScaled(rhs, gr) /\ IsAddend(addend, gc)
        /\ IsCut(p, full, g) /\ np \in BOOLEAN /\ nc \in BOOLEAN
        /\ IsTerm(left, np, p) /\ IsTerm(right, nc, g)
    BY DEF AreOperands, CutsProduct, AreSigns
  <1>3. full \in Nat \ {0} /\ g \in Nat /\ AreFusedParts(aligned, full, g)
    <2> HIDE DEF lhs, rhs, addend, gl, gr, gc
    <2> QED  BY <1>2, FusedPartsAre
  <1>4. left \in Int /\ right \in Int /\ (left + right = 0 => full = g /\ np # nc)
    <2> HIDE DEF full, g
    <2> QED  BY <1>2, <1>3, CutCancels
  <1>5. Code("Rtz") = Raised(RoundedSum(left, right, Unit, np, nc)["Rtz"])
    BY FusedFinite DEF RoundingModes
  <1>6. SignedSum(np, aligned.lhs, nc, aligned.rhs).significand = 0 => S = 0
    <2> DEFINE sum == SignedSum(np, aligned.lhs, nc, aligned.rhs)
    <2>1. fused = LET low == WIDE - Msb(sum.significand)
                      lift == IF low > 0 THEN low ELSE 0
                  IN  IF sum.significand = 0
                      THEN [sign |-> FALSE, exponent |-> aligned.exponent, significand |-> 0]
                      ELSE [sign |-> sum.sign, exponent |-> aligned.exponent - lift,
                            significand |-> shift_right_jam(sum.significand * 2^lift,
                                                            WIDE - FRACBITS - 3)]
      BY DEF compute_fma, FusedParts
    <2> HIDE DEF sum, aligned, fused
    <2> QED  BY <2>1 DEF sum
  <1> HIDE DEF aligned, fused, full, g, Code, S
  <1>7. CASE left + right = 0
    <2>1. PICK P \in Nat, Q \in Nat, e \in Int :
              /\ aligned = [exponent |-> e, lhs |-> P, rhs |-> Q]
              /\ SameSide(P - Q, full - g)
      BY <1>3, Zenon DEF AreFusedParts
    <2>2. SignedSum(np, P, nc, Q).significand = 0
      <3>1. full \in Nat
        BY <1>3
      <3> QED  BY <1>4, <1>7, <2>1, <3>1, Cancels
    <2>3. aligned.lhs = P /\ aligned.rhs = Q
      BY <2>1
    <2>4. S = 0
      BY <1>6, <2>2, <2>3
    <2>5. Code("Reserved") = Exact("Reserved" = "Rdn", 0)
      BY <1>1, <2>4, PackZero
    <2>6. \A n : Exact(n, 0) # Thrown
      BY ReturnsIs
    <2>7. Code("Reserved") # Thrown
      BY <2>5, <2>6
    <2> QED  BY <1>7, <2>7 DEF Code
  <1>8. CASE left + right # 0
    <2> DEFINE t == left + right
    <2>1. RoundedSum(left, right, Unit, np, nc)["Rtz"] = RoundedQuotient(Abs(t), Unit, t < 0)["Rtz"]
      <3>1. "Rtz" \in RoundingModes
        BY DEF RoundingModes
      <3> QED  BY <1>4, <1>8, <3>1, RoundedSumIs
    <2>2. Abs(t) \in Nat \ {0} /\ Unit \in Nat \ {0} /\ (t < 0) \in BOOLEAN
      BY <1>4, <1>8, UnitIs DEF Abs
    <2> HIDE DEF t
    <2>3. \A n : Code("Rtz") # Exact(n, 0)
      BY <1>5, <2>1, <2>2, NeverZero
    <2>4. S # 0
      <3> SUFFICES ASSUME S = 0 PROVE FALSE
        OBVIOUS
      <3>1. Code("Rtz") = Exact("Rtz" = "Rdn", 0)
        BY <1>1, PackZero
      <3> QED  BY <2>3, <3>1
    <2>5. Code("Reserved") = round_and_pack(fused.sign, fused.exponent, S, "Reserved")
      BY <1>1, <2>4
    <2>6. Code("Reserved") = Thrown
      BY <2>4, <2>5, PackReserved
    <2> QED  BY <1>8, <2>6 DEF Code
  <1> QED  BY <1>7, <1>8

\* FMADD throws where the product is of two numbers and the addend does not
\* cancel it.
LEMMA FmaReserved ==
    ASSUME NEW l \in Floats, NEW r \in Floats, NEW c \in Floats
    PROVE  fma("MAdd", l, r, c, "Reserved") = Thrown <=>
              /\ FiniteNonzero(l) /\ FiniteNonzero(r)
              /\ ZeroOf(c) \/ FiniteNonzero(c)
              /\ TimesSigned(l, r) + Number(c) * Unit # 0
  <1> DEFINE lhs == Unpack(l)
             rhs == Unpack(r)
             addend == Unpack(c)
             np == (lhs.sign # rhs.sign) # FALSE
             nc == addend.sign # FALSE
             sp == IsNegative(l) # IsNegative(r)
             sc == IsNegative(c)
             t == TimesSigned(l, r) + Number(c) * Unit
             finite == FusedPack(lhs, rhs, addend, sp, sc, "Reserved")
             code == fma("MAdd", l, r, c, "Reserved")
  <1>1. /\ (is_nan(lhs) <=> NanOf(l)) /\ (IsZero(lhs) <=> ZeroOf(l))
        /\ (IsInfinity(lhs) <=> InfiniteOf(l)) /\ lhs.sign = IsNegative(l)
        /\ (ZeroOf(l) \/ FiniteNonzero(l) \/ InfiniteOf(l) \/ NanOf(l))
        /\ (FiniteNonzero(l) => ~InfiniteOf(l) /\ ~NanOf(l) /\ ~ZeroOf(l))
        /\ IsNegative(l) \in BOOLEAN
    BY UnpackFacts
  <1>2. /\ (is_nan(rhs) <=> NanOf(r)) /\ (IsZero(rhs) <=> ZeroOf(r))
        /\ (IsInfinity(rhs) <=> InfiniteOf(r)) /\ rhs.sign = IsNegative(r)
        /\ (ZeroOf(r) \/ FiniteNonzero(r) \/ InfiniteOf(r) \/ NanOf(r))
        /\ (FiniteNonzero(r) => ~InfiniteOf(r) /\ ~NanOf(r) /\ ~ZeroOf(r))
        /\ IsNegative(r) \in BOOLEAN
    BY UnpackFacts
  <1>3. /\ (is_nan(addend) <=> NanOf(c)) /\ (IsZero(addend) <=> ZeroOf(c))
        /\ (IsInfinity(addend) <=> InfiniteOf(c)) /\ addend.sign = IsNegative(c)
        /\ (ZeroOf(c) \/ FiniteNonzero(c) \/ InfiniteOf(c) \/ NanOf(c))
        /\ (FiniteNonzero(c) => ~InfiniteOf(c) /\ ~NanOf(c) /\ ~ZeroOf(c))
        /\ (ZeroOf(c) => ~InfiniteOf(c) /\ ~NanOf(c))
        /\ IsNegative(c) \in BOOLEAN
    BY UnpackFacts
  <1>4. code = IF (IsZero(lhs) /\ IsInfinity(rhs)) \/ (IsInfinity(lhs) /\ IsZero(rhs))
               THEN Invalid
               ELSE IF \E u \in {lhs, rhs, addend} : is_nan(u) THEN propagate_nan({lhs, rhs, addend})
               ELSE IF IsInfinity(lhs) \/ IsInfinity(rhs)
               THEN IF IsInfinity(addend) /\ np # nc THEN Invalid ELSE Exact(np, Infinity)
               ELSE IF IsInfinity(addend) THEN Exact(nc, Infinity)
               ELSE IF IsZero(lhs) \/ IsZero(rhs)
               THEN IF IsZero(addend) THEN Exact(ZeroSign(np, nc, "Reserved"), 0)
                    ELSE Exact(nc, MagnitudeOf(c))
               ELSE FusedPack(lhs, rhs, addend, np, nc, "Reserved")
    <2>1. ("MAdd" \in {"NmSub", "NmAdd"}) = FALSE /\ ("MAdd" \in {"MSub", "NmAdd"}) = FALSE
      OBVIOUS
    <2> QED  BY <2>1 DEF fma, FusedPack
  <1>5. np = sp /\ nc = sc /\ sp \in BOOLEAN /\ sc \in BOOLEAN
    BY <1>1, <1>2, <1>3
  <1>6. /\ propagate_nan({lhs, rhs, addend}) # Thrown /\ Invalid # Thrown
        /\ \A n : Exact(n, Infinity) # Thrown /\ Exact(n, 0) # Thrown
        /\ \A n : Exact(n, MagnitudeOf(c)) # Thrown
    <2>1. Infinity \in Nat /\ MagnitudeOf(c) \in Nat
      BY RawParts, FormatFacts
    <2> QED  BY <2>1, ReturnsIs
  <1>7. ASSUME FiniteNonzero(l), FiniteNonzero(r), ZeroOf(c) \/ FiniteNonzero(c)
        PROVE  finite = Thrown <=> t # 0
    <2> DEFINE n == sp
    <2>1. IsProductSign(n, l, r)
      BY <1>5 DEF IsProductSign
    <2> HIDE DEF n
    <2>2. AreOperands(l, r, c, Times(Grid[MagnitudeOf(l)], Grid[MagnitudeOf(r)]),
                      TimesSigned(l, r), Number(c) * Unit, n, IsNegative(c))
      BY <1>7, <2>1, FusedOperands
    <2>3. FusedPack(Unpack(l), Unpack(r), Unpack(c), n, IsNegative(c), "Reserved") = Thrown <=> t # 0
      BY <2>2, FusedReserved
    <2> QED  BY <2>3 DEF n
  <1> HIDE DEF np, nc, sp, sc, t, finite, lhs, rhs, addend, code
  <1>8. (\E u \in {lhs, rhs, addend} : is_nan(u)) <=> NanOf(l) \/ NanOf(r) \/ NanOf(c)
    BY <1>1, <1>2, <1>3
  <1>9. code = Thrown <=>
           FiniteNonzero(l) /\ FiniteNonzero(r) /\ (ZeroOf(c) \/ FiniteNonzero(c)) /\ t # 0
    <2>1. CASE FiniteNonzero(l) /\ FiniteNonzero(r) /\ (ZeroOf(c) \/ FiniteNonzero(c))
      <3>1. code = FusedPack(lhs, rhs, addend, sp, sc, "Reserved")
        BY <1>1, <1>2, <1>3, <1>4, <1>5, <1>8, <2>1
      <3> QED  BY <1>7, <2>1, <3>1 DEF finite
    <2>2. CASE ~(FiniteNonzero(l) /\ FiniteNonzero(r) /\ (ZeroOf(c) \/ FiniteNonzero(c)))
      <3>1. \/ code = Invalid \/ code = propagate_nan({lhs, rhs, addend})
            \/ code = Exact(np, Infinity) \/ code = Exact(nc, Infinity)
            \/ code = Exact(ZeroSign(np, nc, "Reserved"), 0) \/ code = Exact(nc, MagnitudeOf(c))
        BY <1>1, <1>2, <1>3, <1>4, <1>8, <2>2
      <3> QED  BY <1>6, <2>2, <3>1
    <2> QED  BY <2>1, <2>2
  <1> QED  BY <1>9 DEF code, t

\* The comparisons, the minimum, the maximum and the sign injections round
\* nothing.
LEMMA OrderedReturns ==
    ASSUME NEW l \in Floats, NEW r \in Floats
    PROVE  /\ \A op \in {"Eq", "Lt", "Le"} : compare(op, l, r) # Thrown
           /\ \A maximum \in BOOLEAN : min_or_max(l, r, maximum) # Thrown
           /\ \A op : InjectSign(op, l, r) # Thrown
  <1>1. l \in Nat /\ r \in Nat /\ CanonicalNan \in Nat /\ MagnitudeOf(l) \in Nat
    <2>1. l \in Nat /\ r \in Nat
      BY DEF Floats
    <2>2. MagnitudeOf(l) \in Nat
      BY RawParts
    <2>3. Infinity \in Nat /\ HiddenBit \in Nat
      BY FormatFacts
    <2> QED  BY <2>1, <2>2, <2>3 DEF CanonicalNan
  <1>2. ASSUME NEW op \in {"Eq", "Lt", "Le"} PROVE compare(op, l, r) # Thrown
    <2>1. \A p : Truth(p) \in Nat
      BY DEF Truth
    <2>2. \E f : \E v \in Nat : compare(op, l, r) = Result(v, f)
      BY <2>1, Zenon DEF compare
    <2> QED  BY <2>2, ReturnsIs
  <1>3. ASSUME NEW maximum \in BOOLEAN PROVE min_or_max(l, r, maximum) # Thrown
    <2>1. \A negative : Signed(negative, 0) \in Nat
      BY FormatFacts DEF Signed
    <2>2. \E f : \E v \in Nat : min_or_max(l, r, maximum) = Result(v, f)
      BY <1>1, <2>1 DEF min_or_max
    <2> QED  BY <2>2, ReturnsIs
  <1>4. ASSUME NEW op PROVE InjectSign(op, l, r) # Thrown
    <2>1. \E n : InjectSign(op, l, r) = Exact(n, MagnitudeOf(l))
      BY Zenon DEF InjectSign
    <2> QED  BY <1>1, <2>1, ReturnsIs
  <1> QED  BY <1>2, <1>3, <1>4

-----------------------------------------------------------------------------
\* The unit at the converted format.
Conv == INSTANCE FpuCheck_proofs WITH EXPBITS <- CVT_EXPBITS

\* What is assumed of a format is assumed of the converted one.
LEMMA CvtAssumptions ==
    Conv!WidthAssumption /\ Conv!FormatAssumption /\ Conv!PowersAssumption /\ Conv!CvtAssumption
  <1>1. Conv!WidthAssumption
    BY WidthAssumption DEF Conv!WidthAssumption
  <1>2. Conv!FormatAssumption
    BY FormatAssumption, CvtAssumption DEF Conv!FormatAssumption
  <1>3. Conv!PowersAssumption
    BY PowersAssumption, CvtAssumption DEF Conv!PowersAssumption
  <1>4. Conv!CvtAssumption
    BY CvtAssumption DEF Conv!CvtAssumption
  <1> QED  BY <1>1, <1>2, <1>3, <1>4

\* The numbers of the format are the same.
LEMMA SameNumbers ==
    /\ Conv!Power = Power
    /\ Conv!HiddenBit = HiddenBit /\ Cvt!HiddenBit = HiddenBit
    /\ Conv!Bias = Cvt!Bias /\ Conv!MinExponent = Cvt!MinExponent
    /\ Conv!MaxExponent = Cvt!MaxExponent
    /\ Conv!Infinity = Cvt!Infinity /\ Conv!Sign = Cvt!Sign /\ Conv!Floats = Cvt!Floats
    /\ Conv!RoundingModes = RoundingModes /\ Cvt!RoundingModes = RoundingModes
  <1>1. Conv!Power = Power
    BY DEF Conv!Power, Power
  <1>2. Conv!HiddenBit = HiddenBit /\ Cvt!HiddenBit = HiddenBit
    BY DEF Conv!HiddenBit, Cvt!HiddenBit, HiddenBit
  <1>3. Conv!Bias = Cvt!Bias /\ Conv!Sign = Cvt!Sign
    BY DEF Conv!Bias, Cvt!Bias, Conv!Sign, Cvt!Sign
  <1>4. Conv!RoundingModes = RoundingModes /\ Cvt!RoundingModes = RoundingModes
    BY DEF Conv!RoundingModes, Cvt!RoundingModes, RoundingModes
  <1> QED  BY <1>1, <1>2, <1>3, <1>4 DEF Conv!MinExponent, Cvt!MinExponent, Conv!MaxExponent,
      Cvt!MaxExponent, Conv!Infinity, Cvt!Infinity, Conv!Floats, Cvt!Floats

\* So are unpacking and packing.
LEMMA SameUnpack ==
    /\ \A b : /\ Conv!MagnitudeOf(b) = Cvt!MagnitudeOf(b)
              /\ Conv!IsNegative(b) <=> Cvt!IsNegative(b)
    /\ \A b : Conv!Unpack(b) = Cvt!Unpack(b)
    /\ \A u : Conv!ToBits(u) = Cvt!ToBits(u)
  <1>1. /\ \A b : Conv!MagnitudeOf(b) = Cvt!MagnitudeOf(b)
        /\ \A b : Conv!IsNegative(b) = Cvt!IsNegative(b)
    BY Zenon DEF Conv!MagnitudeOf, Cvt!MagnitudeOf, Conv!IsNegative, Cvt!IsNegative, Conv!Sign,
        Cvt!Sign
  <1>2. \A b : Conv!Unpack(b) = Cvt!Unpack(b)
    BY Zenon DEF Conv!Unpack, Cvt!Unpack, Conv!MagnitudeOf, Cvt!MagnitudeOf, Conv!IsNegative,
        Cvt!IsNegative, Conv!Sign, Cvt!Sign,
        Conv!Bias, Cvt!Bias, Conv!HiddenBit, Cvt!HiddenBit, Conv!MinExponent, Cvt!MinExponent,
            Conv!Msb, Cvt!Msb, Conv!WordBits, Cvt!WordBits
  <1>3. \A b : Conv!ToBits(b) = Cvt!ToBits(b)
    BY Zenon DEF Conv!ToBits, Cvt!ToBits, Conv!Signed, Cvt!Signed, Conv!Sign, Cvt!Sign,
        Conv!Bias, Cvt!Bias, Conv!HiddenBit, Cvt!HiddenBit, Conv!MinExponent, Cvt!MinExponent,
            Conv!Infinity, Cvt!Infinity
  <1> QED  BY <1>1, <1>2, <1>3

\* So is the rounding.
LEMMA SamePack ==
    \A n, e, s, rm : Conv!round_and_pack(n, e, s, rm) = Cvt!round_and_pack(n, e, s, rm)
  <1>1. \A n : Conv!Msb(n) = Cvt!Msb(n)
    BY Zenon DEF Conv!Msb, Cvt!Msb, Conv!WordBits, Cvt!WordBits
  <1>2. \A v, d : Conv!shift_right_jam(v, d) = Cvt!shift_right_jam(v, d)
    BY Zenon DEF Conv!WordBits, Cvt!WordBits, Conv!shift_right_jam, Cvt!shift_right_jam,
        Conv!WithSticky, Cvt!WithSticky
  <1>3. \A rm, n, s, r : Conv!should_round_up(rm, n, s, r) = Cvt!should_round_up(rm, n, s, r)
    BY Zenon DEF Conv!should_round_up, Cvt!should_round_up
  <1>4. \A n, m : Conv!Signed(n, m) = Cvt!Signed(n, m)
    BY Zenon DEF Conv!Signed, Cvt!Signed, Conv!Sign, Cvt!Sign
  <1>5. \A n, m : Conv!Result(n, m) = Cvt!Result(n, m)
    BY Zenon DEF Conv!Result, Cvt!Result
  <1>6. /\ Conv!Thrown = Cvt!Thrown /\ Conv!NX = Cvt!NX /\ Conv!UF = Cvt!UF /\ Conv!OF = Cvt!OF
        /\ Conv!MaxFinite = Cvt!MaxFinite
    BY SameNumbers DEF Conv!Thrown, Cvt!Thrown, Conv!NX, Conv!UF, Conv!OF, Cvt!NX, Cvt!UF,
        Cvt!OF, Conv!MaxFinite, Cvt!MaxFinite, Conv!Result, Cvt!Result
  <1>7. \A n, rm : Conv!Overflow(n, rm) = Cvt!Overflow(n, rm)
    BY <1>4, <1>5, <1>6, SameNumbers, Zenon DEF Conv!Overflow, Cvt!Overflow
  <1>0. /\ \A k : Conv!Msb(k) = Cvt!Msb(k)
        /\ \A v, d : Conv!shift_right_jam(v, d) = Cvt!shift_right_jam(v, d)
        /\ \A k, m : Conv!Signed(k, m) = Cvt!Signed(k, m)
        /\ \A k, m : Conv!Result(k, m) = Cvt!Result(k, m)
        /\ \A k, m : Conv!Overflow(k, m) = Cvt!Overflow(k, m)
        /\ \A m, k, v, r : Conv!should_round_up(m, k, v, r) = Cvt!should_round_up(m, k, v, r)
        /\ Conv!Thrown = Cvt!Thrown /\ Conv!NX = Cvt!NX /\ Conv!UF = Cvt!UF
        /\ Conv!HiddenBit = Cvt!HiddenBit /\ Conv!Bias = Cvt!Bias
        /\ Conv!MinExponent = Cvt!MinExponent /\ Conv!MaxExponent = Cvt!MaxExponent
        /\ Conv!RoundingModes = Cvt!RoundingModes
    BY <1>1, <1>2, <1>3, <1>4, <1>5, <1>6, <1>7, SameNumbers, Zenon
  <1>8. ASSUME NEW n, NEW e, NEW s, NEW rm
        PROVE  Conv!round_and_pack(n, e, s, rm) = Cvt!round_and_pack(n, e, s, rm)
    <2> DEFINE p_lead == Conv!Msb(s) - (FRACBITS + 3)
               p_placed == IF p_lead > 0 THEN Conv!shift_right_jam(s, p_lead) ELSE s * 2^(-p_lead)
               p_tiny == Conv!MinExponent - (e + p_lead)
               p_shifted == IF p_tiny > 0 THEN Conv!shift_right_jam(p_placed, p_tiny)
                            ELSE p_placed
               p_bits == p_shifted % 8
               p_kept == p_shifted \div 8
               p_up == IF Conv!should_round_up(rm, n, p_kept, p_bits) THEN 1 ELSE 0
               p_carried == p_kept + p_up >= 2 * Conv!HiddenBit
               p_rounded == IF p_carried THEN (p_kept + p_up) \div 2 ELSE p_kept + p_up
               p_power == (IF p_tiny > 0 THEN Conv!MinExponent ELSE e + p_lead)
                          + (IF p_carried THEN 1 ELSE 0)
               p_subnormal == p_power = Conv!MinExponent /\ p_rounded < Conv!HiddenBit
               p_raw == IF p_subnormal THEN 0 ELSE p_power + Conv!Bias
               p_flags == IF p_bits = 0 THEN {} ELSE IF p_subnormal THEN {Conv!NX, Conv!UF}
                          ELSE {Conv!NX}
               p_value == p_raw * Conv!HiddenBit + (p_rounded % Conv!HiddenBit)
               p_packed == IF s = 0 THEN Conv!Result(Conv!Signed(n, 0), {})
                           ELSE IF rm \notin Conv!RoundingModes THEN Conv!Thrown
                           ELSE IF p_power > Conv!MaxExponent THEN Conv!Overflow(n, rm)
                           ELSE Conv!Result(Conv!Signed(n, p_value), p_flags)
               c_lead == Cvt!Msb(s) - (FRACBITS + 3)
               c_placed == IF c_lead > 0 THEN Cvt!shift_right_jam(s, c_lead) ELSE s * 2^(-c_lead)
               c_tiny == Cvt!MinExponent - (e + c_lead)
               c_shifted == IF c_tiny > 0 THEN Cvt!shift_right_jam(c_placed, c_tiny) ELSE c_placed
               c_bits == c_shifted % 8
               c_kept == c_shifted \div 8
               c_up == IF Cvt!should_round_up(rm, n, c_kept, c_bits) THEN 1 ELSE 0
               c_carried == c_kept + c_up >= 2 * Cvt!HiddenBit
               c_rounded == IF c_carried THEN (c_kept + c_up) \div 2 ELSE c_kept + c_up
               c_power == (IF c_tiny > 0 THEN Cvt!MinExponent ELSE e + c_lead)
                          + (IF c_carried THEN 1 ELSE 0)
               c_subnormal == c_power = Cvt!MinExponent /\ c_rounded < Cvt!HiddenBit
               c_raw == IF c_subnormal THEN 0 ELSE c_power + Cvt!Bias
               c_flags == IF c_bits = 0 THEN {} ELSE IF c_subnormal THEN {Cvt!NX, Cvt!UF}
                          ELSE {Cvt!NX}
               c_value == c_raw * Cvt!HiddenBit + (c_rounded % Cvt!HiddenBit)
               c_packed == IF s = 0 THEN Cvt!Result(Cvt!Signed(n, 0), {})
                           ELSE IF rm \notin Cvt!RoundingModes THEN Cvt!Thrown
                           ELSE IF c_power > Cvt!MaxExponent THEN Cvt!Overflow(n, rm)
                           ELSE Cvt!Result(Cvt!Signed(n, c_value), c_flags)
    <2>1. Conv!round_and_pack(n, e, s, rm) = p_packed
      BY Zenon DEF Conv!round_and_pack
    <2>2. Cvt!round_and_pack(n, e, s, rm) = c_packed
      BY Zenon DEF Cvt!round_and_pack
    <2> HIDE DEF p_lead, p_placed, p_tiny, p_shifted, p_bits, p_kept, p_up, p_carried,
        p_rounded, p_power, p_subnormal, p_raw, p_flags, p_value, p_packed,
        c_lead, c_placed, c_tiny, c_shifted, c_bits, c_kept, c_up, c_carried,
        c_rounded, c_power, c_subnormal, c_raw, c_flags, c_value, c_packed
    <2>3. p_lead = c_lead
      BY <1>0 DEF p_lead, c_lead
    <2>4. p_placed = c_placed
      BY <1>0, <2>3 DEF p_placed, c_placed
    <2>5. p_tiny = c_tiny
      BY <1>0, <2>3 DEF p_tiny, c_tiny
    <2>6. p_shifted = c_shifted
      BY <1>0, <2>5, <2>4 DEF p_shifted, c_shifted
    <2>7. p_bits = c_bits
      BY <1>0, <2>6 DEF p_bits, c_bits
    <2>8. p_kept = c_kept
      BY <1>0, <2>6 DEF p_kept, c_kept
    <2>9. p_up = c_up
      BY <1>0, <2>8, <2>7 DEF p_up, c_up
    <2>10. p_carried <=> c_carried
      BY <1>0, <2>8, <2>9 DEF p_carried, c_carried
    <2>11. p_rounded = c_rounded
      BY <1>0, <2>10, <2>8, <2>9 DEF p_rounded, c_rounded
    <2>12. p_power = c_power
      BY <1>0, <2>5, <2>3, <2>10 DEF p_power, c_power
    <2>13. p_subnormal <=> c_subnormal
      BY <1>0, <2>12, <2>11 DEF p_subnormal, c_subnormal
    <2>14. p_raw = c_raw
      BY <1>0, <2>13, <2>12 DEF p_raw, c_raw
    <2>15. p_flags = c_flags
      BY <1>0, <2>7, <2>13 DEF p_flags, c_flags
    <2>16. p_value = c_value
      BY <1>0, <2>14, <2>11 DEF p_value, c_value
    <2>17. p_packed = c_packed
      BY <1>0, <2>12, <2>16, <2>15 DEF p_packed, c_packed
    <2> QED  BY <2>1, <2>2, <2>17
  <1> QED  BY <1>8

\* Unpacking a float loses nothing that packing it needs.
THEOREM PackingLosesNothing == Spec => []PackingInverts
  <1>1. PackingInverts
    <2> SUFFICES ASSUME Joined \in Cvt!Floats
                 PROVE  Cvt!ToBits(Cvt!Unpack(Joined)) = Joined
      BY DEF PackingInverts
    <2> DEFINE b == Joined
    <2>1. b \in Conv!Floats
      BY SameNumbers
    <2> HIDE DEF b
    <2>2. Conv!ToBits(Conv!Unpack(b)) = b
      BY CvtAssumptions, <2>1, Conv!ToBitsUnpack
    <2>3. Cvt!ToBits(Cvt!Unpack(b)) = b
      BY <2>2, SameUnpack
    <2> QED  BY <2>3 DEF b
  <1> QED  BY <1>1, PTL DEF Spec

\* The reference's conversion is the same.
LEMMA SameFloat ==
    /\ Conv!OnesGrid = CvtGrid
    /\ \A g, f, i, e, n : Conv!Rounded(g, f, i, e, n) = Rounded(g, f, i, e, n)
    /\ \A op, w : Conv!Integer(op, w) = Integer(op, w)
    /\ \A v, f : Conv!Result(v, f) = Result(v, f)
    /\ \A n, m : Conv!Signed(n, m) = Cvt!Signed(n, m)
    /\ \A n : Conv!Abs(n) = Abs(n)
  <1>1. Conv!OnesGrid = CvtGrid
    BY SameNumbers DEF Conv!OnesGrid, CvtGrid
  <1>2. ASSUME NEW g, NEW f, NEW i, NEW e, NEW n
        PROVE  Conv!Rounded(g, f, i, e, n) = Rounded(g, f, i, e, n)
    <2> DEFINE p_Reached(b) == b <= i /\ e[2 * g[b]] >= 0
               p_binade == CHOOSE k \in f \div Conv!HiddenBit .. i \div Conv!HiddenBit :
                             p_Reached(k * Conv!HiddenBit) /\ ~p_Reached((k + 1) * Conv!HiddenBit)
               p_below == CHOOSE b \in p_binade * Conv!HiddenBit .. (p_binade + 1) * Conv!HiddenBit - 1 :
                            p_Reached(b) /\ ~p_Reached(b + 1)
               p_exact == e[2 * g[p_below]] = 0
               p_middle == e[g[p_below] + g[p_below + 1]]
               p_Up(rm) ==
                   \/ Conv!Outward(n, rm)
                   \/ Conv!ToNearest(rm) /\ p_middle > 0
                   \/ p_middle = 0 /\ (rm = "Rmm" \/ (rm = "Rne" /\ p_below % 2 = 1))
               p_Taken(rm) == IF ~p_exact /\ p_Up(rm) THEN p_below + 1 ELSE p_below
               p_result == [rm \in Conv!RoundingModes |->
                    IF p_below = i
                    THEN [magnitude |-> IF Conv!Outward(n, rm) \/ Conv!ToNearest(rm) THEN i
                            ELSE i - 1,
                          flags |-> {Conv!OF, Conv!NX}]
                    ELSE [magnitude |-> p_Taken(rm),
                          flags |-> CASE p_exact -> {}
                                      [] ~p_exact /\ p_Taken(rm) = i  -> {Conv!OF, Conv!NX}
                                      [] OTHER                           -> {Conv!NX}]]
               c_Reached(b) == b <= i /\ e[2 * g[b]] >= 0
               c_binade == CHOOSE k \in f \div HiddenBit .. i \div HiddenBit :
                             c_Reached(k * HiddenBit) /\ ~c_Reached((k + 1) * HiddenBit)
               c_below == CHOOSE b \in c_binade * HiddenBit .. (c_binade + 1) * HiddenBit - 1 :
                            c_Reached(b) /\ ~c_Reached(b + 1)
               c_exact == e[2 * g[c_below]] = 0
               c_middle == e[g[c_below] + g[c_below + 1]]
               c_Up(rm) ==
                   \/ Outward(n, rm)
                   \/ ToNearest(rm) /\ c_middle > 0
                   \/ c_middle = 0 /\ (rm = "Rmm" \/ (rm = "Rne" /\ c_below % 2 = 1))
               c_Taken(rm) == IF ~c_exact /\ c_Up(rm) THEN c_below + 1 ELSE c_below
               c_result == [rm \in RoundingModes |->
                    IF c_below = i
                    THEN [magnitude |-> IF Outward(n, rm) \/ ToNearest(rm) THEN i ELSE i - 1,
                          flags |-> {OF, NX}]
                    ELSE [magnitude |-> c_Taken(rm),
                          flags |-> CASE c_exact -> {}
                                      [] ~c_exact /\ c_Taken(rm) = i  -> {OF, NX}
                                      [] OTHER                           -> {NX}]]
    <2>1. Conv!Rounded(g, f, i, e, n) = p_result
      BY Zenon DEF Conv!Rounded
    <2>2. Rounded(g, f, i, e, n) = c_result
      BY Zenon DEF Rounded
    <2>3. p_binade = c_binade
      BY Zenon DEF Conv!HiddenBit, HiddenBit
    <2> HIDE DEF p_binade, c_binade
    <2>4. p_below = c_below
      <3>1. p_below = CHOOSE b \in c_binade * Conv!HiddenBit .. (c_binade + 1) * Conv!HiddenBit - 1 :
                            p_Reached(b) /\ ~p_Reached(b + 1)
        BY <2>3
      <3> QED  BY <3>1, Zenon DEF Conv!HiddenBit, HiddenBit
    <2> HIDE DEF p_below, c_below
    <2>5. /\ Conv!RoundingModes = RoundingModes /\ Conv!HiddenBit = HiddenBit
          /\ Conv!OF = OF /\ Conv!NX = NX
      BY SameNumbers DEF Conv!OF, OF, Conv!NX, NX
    <2>6. \A rm : Conv!Outward(n, rm) <=> Outward(n, rm)
      BY Zenon DEF Conv!Outward, Outward
    <2>7. \A rm : Conv!ToNearest(rm) <=> ToNearest(rm)
      BY Zenon DEF Conv!ToNearest, ToNearest
    <2>8. ASSUME NEW rm \in RoundingModes PROVE p_result[rm] = c_result[rm]
      <3>1. p_exact <=> c_exact
        BY <2>4
      <3>2. p_middle = c_middle
        BY <2>4
      <3> HIDE DEF p_exact, c_exact, p_middle, c_middle
      <3>3. p_Up(rm) <=> c_Up(rm)
        BY <2>4, <2>6, <2>7, <3>2
      <3> HIDE DEF p_Up, c_Up
      <3>4. p_Taken(rm) = c_Taken(rm)
        BY <2>4, <3>1, <3>3
      <3> HIDE DEF p_Taken, c_Taken
      <3> QED  BY <2>4, <2>5, <2>6, <2>7, <3>1, <3>4
    <2> HIDE DEF p_Taken, c_Taken
    <2>9. p_result = c_result
      <3>1. /\ DOMAIN p_result = RoundingModes /\ DOMAIN c_result = RoundingModes
            /\ p_result = [rm \in RoundingModes |-> p_result[rm]]
            /\ c_result = [rm \in RoundingModes |-> c_result[rm]]
        BY <2>5
      <3> HIDE DEF p_result, c_result
      <3> QED  BY <2>8, <3>1
    <2> HIDE DEF p_result, c_result
    <2> QED  BY <2>1, <2>2, <2>9
  <1>3. \A op, w : Conv!Integer(op, w) = Integer(op, w)
    BY Zenon DEF Conv!Integer, Integer
  <1>4. \A v, f : Conv!Result(v, f) = Result(v, f)
    BY Zenon DEF Conv!Result, Result
  <1>5. \A n, m : Conv!Signed(n, m) = Cvt!Signed(n, m)
    BY Zenon DEF Conv!Signed, Cvt!Signed, Conv!Sign, Cvt!Sign
  <1>6. \A n : Conv!Abs(n) = Abs(n)
    BY Zenon DEF Conv!Abs, Abs
  <1> QED  BY <1>1, <1>2, <1>3, <1>4, <1>5, <1>6

\* So is the unit's.
LEMMA SameConversion ==
    \A op, w, rm : Conv!integer_to_float(op, w, rm) = Cvt!integer_to_float(op, w, rm)
  <1>1. \A n : Conv!Msb(n) = Cvt!Msb(n)
    BY Zenon DEF Conv!Msb, Cvt!Msb, Conv!WordBits, Cvt!WordBits
  <1>2. \A v, d : Conv!shift_right_jam(v, d) = Cvt!shift_right_jam(v, d)
    BY Zenon DEF Conv!WordBits, Cvt!WordBits, Conv!shift_right_jam, Cvt!shift_right_jam,
        Conv!WithSticky, Cvt!WithSticky
  <1>3. \A op, w : Conv!IntegerOperand(op, w) = Cvt!IntegerOperand(op, w)
    BY Zenon DEF Conv!IntegerOperand, Cvt!IntegerOperand
  <1>4. \A n, m : Conv!Exact(n, m) = Cvt!Exact(n, m)
    BY Zenon DEF Conv!Exact, Cvt!Exact, Conv!Result, Cvt!Result, Conv!Signed, Cvt!Signed,
        Conv!Sign, Cvt!Sign
  <1>5. ASSUME NEW op, NEW w, NEW rm
        PROVE  Conv!integer_to_float(op, w, rm) = Cvt!integer_to_float(op, w, rm)
    <2> DEFINE p_x == Conv!IntegerOperand(op, w)
               p_exponent == Conv!Msb(p_x.magnitude)
               p_surplus == p_exponent - (FRACBITS + 3)
               p_placed == IF p_surplus > 0 THEN Conv!shift_right_jam(p_x.magnitude, p_surplus)
                           ELSE p_x.magnitude * 2^(-p_surplus)
               c_x == Cvt!IntegerOperand(op, w)
               c_exponent == Cvt!Msb(c_x.magnitude)
               c_surplus == c_exponent - (FRACBITS + 3)
               c_placed == IF c_surplus > 0 THEN Cvt!shift_right_jam(c_x.magnitude, c_surplus)
                           ELSE c_x.magnitude * 2^(-c_surplus)
    <2>1. Conv!integer_to_float(op, w, rm) =
             IF p_x.magnitude = 0 THEN Conv!Exact(FALSE, 0)
             ELSE Conv!round_and_pack(p_x.sign, p_exponent, p_placed, rm)
      BY Zenon DEF Conv!integer_to_float
    <2>2. Cvt!integer_to_float(op, w, rm) =
             IF c_x.magnitude = 0 THEN Cvt!Exact(FALSE, 0)
             ELSE Cvt!round_and_pack(c_x.sign, c_exponent, c_placed, rm)
      BY Zenon DEF Cvt!integer_to_float
    <2> HIDE DEF p_x, p_exponent, p_surplus, p_placed, c_x, c_exponent, c_surplus, c_placed
    <2>3. p_x = c_x
      BY <1>3 DEF p_x, c_x
    <2>4. p_exponent = c_exponent
      BY <1>1, <2>3 DEF p_exponent, c_exponent
    <2>5. p_surplus = c_surplus
      BY <2>4 DEF p_surplus, c_surplus
    <2>6. p_placed = c_placed
      BY <1>2, <2>3, <2>5 DEF p_placed, c_placed
    <2>7. Conv!round_and_pack(c_x.sign, c_exponent, c_placed, rm) = Cvt!round_and_pack(c_x.sign, c_exponent, c_placed, rm)
      BY SamePack
    <2> QED  BY <1>4, <2>1, <2>2, <2>3, <2>4, <2>6, <2>7
  <1> QED  BY <1>5

\* Every conversion of an integer is correctly rounded.
THEOREM IntegerToFloatIsExact == Spec => []IntegerToFloatAgrees
  <1>1. IntegerToFloatAgrees
    <2> DEFINE w == Joined
    <2> SUFFICES ASSUME w \in 0 .. 2^XLEN - 1,
                        NEW op \in {"CvtSToW", "CvtSToWu", "CvtSToL", "CvtSToLu"},
                        NEW rm \in RoundingModes
                 PROVE  Cvt!convert(op, w, rm) = FloatOf(Integer(op, w))[rm]
      BY DEF IntegerToFloatAgrees
    <2>1. w \in Nat
      <3> HIDE DEF w
      <3>1. 2^XLEN \in Nat
        BY WidthPowers DEF IsWidth
      <3> QED  BY <3>1
    <2> HIDE DEF w
    <2>2. Cvt!convert(op, w, rm) = Cvt!integer_to_float(op, w, rm)
      BY DEF Cvt!convert
    <2>3. Conv!integer_to_float(op, w, rm) = Conv!FloatFor(Conv!Integer(op, w), rm)
      <3>1. op \in Conv!FromInteger /\ rm \in Conv!RoundingModes
        BY SameNumbers DEF Conv!FromInteger
      <3> QED  BY CvtAssumptions, <2>1, <3>1, Conv!IntegerToFloatIs
    <2> DEFINE n == Integer(op, w)
    <2> HIDE DEF n
    <2>4. Conv!FloatFor(n, rm) = FloatOf(n)[rm]
      <3> DEFINE excess == [h \in Nat |-> 2 * Abs(n) * HiddenBit - h]
                 r == Rounded(CvtGrid, Cvt!Bias * HiddenBit, Cvt!Infinity, excess, n < 0)
                 p_excess == [h \in Nat |-> 2 * Conv!Abs(n) * Conv!HiddenBit - h]
                 p_r == Conv!Rounded(Conv!OnesGrid, Conv!Bias * Conv!HiddenBit, Conv!Infinity, p_excess, n < 0)
      <3>1. p_excess = excess
        BY SameNumbers, SameFloat
      <3> HIDE DEF excess, p_excess
      <3>2. p_r = r
        BY <3>1, SameNumbers, SameFloat
      <3>3. Conv!FloatFor(n, rm) = IF n = 0 THEN Conv!Result(0, {})
                                ELSE Conv!Result(Conv!Signed(n < 0, p_r[rm].magnitude), p_r[rm].flags)
        BY Zenon DEF Conv!FloatFor, p_excess
      <3>4. FloatOf(n)[rm] = IF n = 0 THEN Result(0, {})
                             ELSE Result(Cvt!Signed(n < 0, r[rm].magnitude), r[rm].flags)
        <4>1. FloatOf(n) = IF n = 0 THEN Always(Result(0, {}))
                           ELSE [m \in RoundingModes |->
                                   Result(Cvt!Signed(n < 0, r[m].magnitude), r[m].flags)]
          BY Zenon DEF FloatOf, excess
        <4>2. Always(Result(0, {}))[rm] = Result(0, {})
          BY DEF Always
        <4> HIDE DEF r
        <4> QED  BY <4>1, <4>2
      <3> HIDE DEF r, p_r
      <3> QED  BY <3>2, <3>3, <3>4, SameFloat
    <2>5. Conv!Integer(op, w) = n
      BY SameFloat DEF n
    <2> QED  BY <2>2, <2>3, <2>4, <2>5, SameConversion DEF n
  <1> QED  BY <1>1, PTL DEF Spec

\* The conversion to an integer is the same in the two copies of the unit.
LEMMA SameToInteger ==
    \A op, b, rm : Conv!float_to_integer(op, b, rm) = Cvt!float_to_integer(op, b, rm)
  <1>1. \A u : Conv!Cut(u) = Cvt!Cut(u)
    BY Zenon DEF Conv!Cut, Cvt!Cut
  <1>2. \A cut, n, rm : Conv!RoundsUp(cut, n, rm) <=> Cvt!RoundsUp(cut, n, rm)
    BY Zenon DEF Conv!RoundsUp, Cvt!RoundsUp
  <1>3. \A op : Conv!ToWidth(op) = Cvt!ToWidth(op) /\ (Conv!ToSigned(op) <=> Cvt!ToSigned(op))
    BY Zenon DEF Conv!ToWidth, Cvt!ToWidth, Conv!ToSigned, Cvt!ToSigned
  <1>4. \A n, m, w : Conv!encode_integer_result(n, m, w) = Cvt!encode_integer_result(n, m, w)
    BY Zenon DEF Conv!encode_integer_result, Cvt!encode_integer_result
  <1>5. \A op, n, m : Conv!Exceeds(op, n, m) <=> Cvt!Exceeds(op, n, m)
    BY Zenon DEF Conv!Exceeds, Cvt!Exceeds, Conv!ToWidth, Cvt!ToWidth, Conv!ToSigned, Cvt!ToSigned
  <1>6. \A v, f : Conv!Result(v, f) = Cvt!Result(v, f)
    BY Zenon DEF Conv!Result, Cvt!Result
  <1>7. \A p : Conv!Truth(p) = Cvt!Truth(p)
    BY Zenon DEF Conv!Truth, Cvt!Truth
  <1>8. Conv!Thrown = Cvt!Thrown /\ Conv!NX = Cvt!NX /\ Conv!NV = Cvt!NV
    BY <1>6 DEF Conv!Thrown, Cvt!Thrown, Conv!NX, Cvt!NX, Conv!NV, Cvt!NV
  <1>9. \A u : /\ Conv!is_nan(u) <=> Cvt!is_nan(u)
               /\ Conv!IsInfinity(u) <=> Cvt!IsInfinity(u)
               /\ Conv!IsZero(u) <=> Cvt!IsZero(u)
    BY Zenon DEF Conv!is_nan, Cvt!is_nan, Conv!IsInfinity, Cvt!IsInfinity, Conv!IsZero, Cvt!IsZero
  <1>10. \A op, u : Conv!OutOfRange(op, u) = Cvt!OutOfRange(op, u)
    BY Zenon DEF Conv!OutOfRange, Cvt!OutOfRange, Conv!ToWidth, Cvt!ToWidth, Conv!ToSigned,
        Cvt!ToSigned,
        Conv!is_nan, Cvt!is_nan, Conv!Result, Cvt!Result, Conv!NV, Cvt!NV,
        Conv!encode_integer_result, Cvt!encode_integer_result
  <1>11. ASSUME NEW op, NEW b, NEW rm
         PROVE  Conv!float_to_integer(op, b, rm) = Cvt!float_to_integer(op, b, rm)
    <2> DEFINE u == Cvt!Unpack(b)
               whole == u.exponent >= FRACBITS
               lift == u.exponent - FRACBITS
               too_large == lift >= XLEN \/ u.significand > (2^XLEN - 1) \div 2^lift
               p_up == Conv!RoundsUp(Conv!Cut(u), u.sign, rm)
               p_magnitude == IF whole THEN u.significand * 2^lift
                              ELSE Conv!Cut(u).magnitude + Conv!Truth(p_up)
               p_inexact == ~whole /\ Conv!Cut(u).remainder # 0
               p_result ==
                   IF Conv!is_nan(u) \/ Conv!IsInfinity(u) THEN Conv!OutOfRange(op, u)
                   ELSE IF Conv!IsZero(u) THEN Conv!Result(0, {})
                   ELSE IF ~whole /\ rm = "Dynamic" THEN Conv!Thrown
                   ELSE IF whole /\ too_large THEN Conv!OutOfRange(op, u)
                   ELSE IF Conv!Exceeds(op, u.sign, p_magnitude) THEN Conv!OutOfRange(op, u)
                   ELSE Conv!Result(Conv!encode_integer_result(u.sign, p_magnitude, Conv!ToWidth(op)),
                                 IF p_inexact THEN {Conv!NX} ELSE {})
               c_up == Cvt!RoundsUp(Cvt!Cut(u), u.sign, rm)
               c_magnitude == IF whole THEN u.significand * 2^lift
                              ELSE Cvt!Cut(u).magnitude + Cvt!Truth(c_up)
               c_inexact == ~whole /\ Cvt!Cut(u).remainder # 0
               c_result ==
                   IF Cvt!is_nan(u) \/ Cvt!IsInfinity(u) THEN Cvt!OutOfRange(op, u)
                   ELSE IF Cvt!IsZero(u) THEN Cvt!Result(0, {})
                   ELSE IF ~whole /\ rm = "Dynamic" THEN Cvt!Thrown
                   ELSE IF whole /\ too_large THEN Cvt!OutOfRange(op, u)
                   ELSE IF Cvt!Exceeds(op, u.sign, c_magnitude) THEN Cvt!OutOfRange(op, u)
                   ELSE Cvt!Result(Cvt!encode_integer_result(u.sign, c_magnitude, Cvt!ToWidth(op)),
                                 IF c_inexact THEN {Cvt!NX} ELSE {})
    <2>1. Conv!float_to_integer(op, b, rm) = p_result
      <3>1. Conv!Unpack(b) = u
        BY SameUnpack
      <3> HIDE DEF u
      <3> QED  BY <3>1, Zenon DEF Conv!float_to_integer
    <2>2. Cvt!float_to_integer(op, b, rm) = c_result
      BY Zenon DEF Cvt!float_to_integer
    <2> HIDE DEF u, whole, lift, too_large
    <2>3. p_up <=> c_up
      BY <1>1, <1>2
    <2> HIDE DEF p_up, c_up
    <2>4. p_magnitude = c_magnitude
      <3>1. Conv!Truth(p_up) = Cvt!Truth(c_up)
        BY <2>3 DEF Conv!Truth, Cvt!Truth
      <3> QED  BY <1>1, <3>1
    <2>5. p_inexact <=> c_inexact
      BY <1>1
    <2> HIDE DEF p_magnitude, c_magnitude, p_inexact, c_inexact
    <2>6. p_result = c_result
      BY <1>3, <1>4, <1>5, <1>6, <1>8, <1>9, <1>10, <2>4, <2>5
    <2> QED  BY <2>1, <2>2, <2>6
  <1> QED  BY <1>11

\* So is the reference's.
LEMMA SameInteger ==
    \A op, b, rm : Conv!IntegerFor(op, b, rm) = IntegerOf(op, b, rm)
  <1>1. \A b : Conv!Numerator(b) = CvtNumerator(b)
    <2> SUFFICES ASSUME NEW b PROVE Conv!Numerator(b) = CvtNumerator(b)
      OBVIOUS
    <2> DEFINE e == Cvt!MagnitudeOf(b) \div HiddenBit - Cvt!Bias
               p_e == Conv!MagnitudeOf(b) \div Conv!HiddenBit - Conv!Bias
    <2>1. p_e = e
      BY SameNumbers, SameUnpack
    <2>2. Conv!Numerator(b) =
             (IF Conv!IsNegative(b) THEN -1 ELSE 1)
                 * ((IF p_e = -Conv!Bias THEN 0 ELSE Conv!HiddenBit) + (b % Conv!HiddenBit))
                 * (IF p_e > FRACBITS THEN Conv!Power[p_e - FRACBITS] ELSE 1)
      BY DEF Conv!Numerator
    <2>3. CvtNumerator(b) =
             (IF Cvt!IsNegative(b) THEN -1 ELSE 1)
                 * ((IF e = -Cvt!Bias THEN 0 ELSE HiddenBit) + (b % HiddenBit))
                 * (IF e > FRACBITS THEN Power[e - FRACBITS] ELSE 1)
      BY DEF CvtNumerator
    <2> HIDE DEF e, p_e
    <2> DEFINE p_sign == IF Conv!IsNegative(b) THEN -1 ELSE 1
               sign == IF Cvt!IsNegative(b) THEN -1 ELSE 1
               p_significand == (IF p_e = -Conv!Bias THEN 0 ELSE Conv!HiddenBit)
                                + (b % Conv!HiddenBit)
               significand == (IF e = -Cvt!Bias THEN 0 ELSE HiddenBit) + (b % HiddenBit)
               p_scale == IF p_e > FRACBITS THEN Conv!Power[p_e - FRACBITS] ELSE 1
               scale == IF e > FRACBITS THEN Power[e - FRACBITS] ELSE 1
    <2>4. p_sign = sign
      BY SameUnpack
    <2>5. p_significand = significand
      BY <2>1, SameNumbers
    <2>6. p_scale = scale
      BY <2>1, SameNumbers
    <2> HIDE DEF p_sign, sign, p_significand, significand, p_scale, scale
    <2>7. p_sign * p_significand * p_scale = sign * significand * scale
      BY <2>4, <2>5, <2>6
    <2> QED  BY <2>2, <2>3, <2>7 DEF p_sign, sign, p_significand, significand, p_scale, scale
  <1>2. \A b : Conv!Denominator(b) = CvtDenominator(b)
    <2> SUFFICES ASSUME NEW b PROVE Conv!Denominator(b) = CvtDenominator(b)
      OBVIOUS
    <2> DEFINE e == Cvt!MagnitudeOf(b) \div HiddenBit - Cvt!Bias
               p_e == Conv!MagnitudeOf(b) \div Conv!HiddenBit - Conv!Bias
    <2>1. p_e = e
      BY SameNumbers, SameUnpack
    <2>2. Conv!Denominator(b) =
             IF p_e > FRACBITS THEN 1
             ELSE Conv!Power[FRACBITS - (IF p_e < Conv!MinExponent THEN Conv!MinExponent
                     ELSE p_e)]
      BY DEF Conv!Denominator
    <2>3. CvtDenominator(b) =
             IF e > FRACBITS THEN 1
             ELSE Power[FRACBITS - (IF e < Cvt!MinExponent THEN Cvt!MinExponent ELSE e)]
      BY DEF CvtDenominator
    <2> HIDE DEF e, p_e
    <2> QED  BY <2>1, <2>2, <2>3, SameNumbers
  <1>3. \A a, d, rm : Conv!Integral(a, d, rm) = Integral(a, d, rm)
    BY Zenon DEF Conv!Integral, Integral
  <1>4. \A op, n : Conv!InRegister(op, n) = InRegister(op, n)
    BY Zenon DEF Conv!InRegister, InRegister, Conv!ToWidth, ToWidth
  <1>5. \A op : Conv!LowerBound(op) = LowerBound(op) /\ Conv!UpperBound(op) = UpperBound(op)
    BY Zenon DEF Conv!LowerBound, LowerBound, Conv!UpperBound, UpperBound, Conv!ToWidth, ToWidth,
        Conv!ToSigned, ToSigned
  <1>6. Conv!NV = NV /\ Conv!NX = NX
    BY DEF Conv!NV, NV, Conv!NX, NX
  <1>7. ASSUME NEW op, NEW b, NEW rm
        PROVE  Conv!IntegerFor(op, b, rm) = IntegerOf(op, b, rm)
    <2> DEFINE p_n == Conv!Integral(Conv!Numerator(b), Conv!Denominator(b), rm)
               n == Integral(CvtNumerator(b), CvtDenominator(b), rm)
    <2>1. Conv!IntegerFor(op, b, rm) =
             IF Conv!MagnitudeOf(b) > Conv!Infinity \/ b = Conv!Infinity
             THEN Conv!Result(Conv!InRegister(op, Conv!UpperBound(op)), {Conv!NV})
             ELSE IF Conv!MagnitudeOf(b) = Conv!Infinity \/ p_n < Conv!LowerBound(op)
             THEN Conv!Result(Conv!InRegister(op, Conv!LowerBound(op)), {Conv!NV})
             ELSE IF p_n > Conv!UpperBound(op)
             THEN Conv!Result(Conv!InRegister(op, Conv!UpperBound(op)), {Conv!NV})
             ELSE Conv!Result(Conv!InRegister(op, p_n),
                           IF Conv!Numerator(b) % Conv!Denominator(b) = 0 THEN {} ELSE {Conv!NX})
      BY Zenon DEF Conv!IntegerFor
    <2>2. IntegerOf(op, b, rm) =
             IF Cvt!MagnitudeOf(b) > Cvt!Infinity \/ b = Cvt!Infinity
             THEN Result(InRegister(op, UpperBound(op)), {NV})
             ELSE IF Cvt!MagnitudeOf(b) = Cvt!Infinity \/ n < LowerBound(op)
             THEN Result(InRegister(op, LowerBound(op)), {NV})
             ELSE IF n > UpperBound(op) THEN Result(InRegister(op, UpperBound(op)), {NV})
             ELSE Result(InRegister(op, n),
                         IF CvtNumerator(b) % CvtDenominator(b) = 0 THEN {} ELSE {NX})
      BY Zenon DEF IntegerOf
    <2>3. p_n = n
      BY <1>1, <1>2, <1>3
    <2> HIDE DEF p_n, n
    <2> QED  BY <1>1, <1>2, <1>4, <1>5, <1>6, <2>1, <2>2, <2>3, SameNumbers, SameUnpack, SameFloat
  <1> QED  BY <1>7

\* Every conversion to an integer rounds the exact value and then looks at the
\* range, in every mode and for every float of the converted format.
THEOREM FloatToIntegerIsExact == Spec => []FloatToIntegerAgrees
  <1>1. FloatToIntegerAgrees
    <2> DEFINE b == Joined
    <2> SUFFICES ASSUME b \in Cvt!Floats,
                        NEW op \in {"CvtWFromS", "CvtWuFromS", "CvtLFromS", "CvtLuFromS"},
                        NEW rm \in RoundingModes
                 PROVE  Cvt!convert(op, b, rm) = IntegerOf(op, b, rm)
      BY DEF FloatToIntegerAgrees
    <2> HIDE DEF b
    <2>1. Cvt!convert(op, b, rm) = Cvt!float_to_integer(op, b, rm)
      BY DEF Cvt!convert
    <2>2. b \in Conv!Floats /\ op \in Conv!ToInteger /\ rm \in Conv!RoundingModes
      BY SameNumbers DEF Conv!ToInteger
    <2>3. Conv!float_to_integer(op, b, rm) = Conv!IntegerFor(op, b, rm)
      BY CvtAssumptions, <2>2, Conv!FloatToIntegerIs
    <2> QED  BY <2>1, <2>3, SameToInteger, SameInteger
  <1> QED  BY <1>1, PTL DEF Spec

-----------------------------------------------------------------------------
\* A reserved rounding mode ends the program exactly where a nonzero result
\* goes through the rounding, in every format and for all operands.
THEOREM ReservedModeIsFatal == Spec => []ReservedModeThrows
  <1>1. ASSUME Operands PROVE ReservedModeThrows
    <2>1. x \in Floats /\ y \in Floats
      BY <1>1 DEF Operands
    <2>2. ASSUME NEW op \in {"Add", "Sub", "Mul", "Div"}
          PROVE  binary(op, x, y, "Reserved") = Thrown <=>
                    /\ FiniteNonzero(x) /\ FiniteNonzero(y)
                    /\ ~(op = "Add" /\ Number(x) = -Number(y))
                    /\ ~(op = "Sub" /\ Number(x) = Number(y))
      <3>1. IsNegative(y) \in BOOLEAN
        BY <2>1, RawParts
      <3>2. ASSUME FiniteNonzero(x), FiniteNonzero(y)
            PROVE  Number(x) \in Int /\ Number(y) \in Int
        <4>1. ~NanOf(x) /\ ~NanOf(y)
          BY <2>1, <3>2, UnpackFacts
        <4> QED  BY <2>1, <4>1, NumberIs
      <3>3. CASE op = "Add"
        <4>1. binary(op, x, y, "Reserved") = add_or_sub(x, y, FALSE, "Reserved")
          BY <3>3 DEF binary
        <4>2. IsTerm(Number(y), IsNegative(y) # FALSE, Grid[MagnitudeOf(y)])
          BY <3>1 DEF IsTerm, Number
        <4>3. add_or_sub(x, y, FALSE, "Reserved") = Thrown <=>
                 FiniteNonzero(x) /\ FiniteNonzero(y) /\ Number(x) + Number(y) # 0
          BY <2>1, <4>2, AddOrSubReserved
        <4>4. FiniteNonzero(x) /\ FiniteNonzero(y) =>
                 (Number(x) + Number(y) # 0 <=> ~(Number(x) = -Number(y)))
          BY <3>2
        <4>5. op # "Sub"
          BY <3>3
        <4> QED  BY <3>3, <4>1, <4>3, <4>4, <4>5, Zenon
      <3>4. CASE op = "Sub"
        <4>1. binary(op, x, y, "Reserved") = add_or_sub(x, y, TRUE, "Reserved")
          BY <3>4 DEF binary
        <4> DEFINE n == IF IsNegative(y) THEN Grid[MagnitudeOf(y)] ELSE -Grid[MagnitudeOf(y)]
        <4>2. IsTerm(n, IsNegative(y) # TRUE, Grid[MagnitudeOf(y)])
          BY <3>1 DEF IsTerm
        <4>3. FiniteNonzero(y) => n = -Number(y)
          <5> SUFFICES ASSUME FiniteNonzero(y) PROVE n = -Number(y)
            OBVIOUS
          <5>1. ~NanOf(y)
            BY <2>1, UnpackFacts
          <5>2. Grid[MagnitudeOf(y)] \in Nat
            BY <2>1, <5>1, NumberIs
          <5> QED  BY <3>1, <5>2 DEF Number
        <4> HIDE DEF n
        <4>4. add_or_sub(x, y, TRUE, "Reserved") = Thrown <=>
                 FiniteNonzero(x) /\ FiniteNonzero(y) /\ Number(x) + n # 0
          BY <2>1, <4>2, AddOrSubReserved
        <4>5. FiniteNonzero(x) /\ FiniteNonzero(y) =>
                 (Number(x) + n # 0 <=> ~(Number(x) = Number(y)))
          BY <3>2, <4>3
        <4>6. op # "Add"
          BY <3>4
        <4> QED  BY <3>4, <4>1, <4>4, <4>5, <4>6, Zenon
      <3>5. CASE op = "Mul"
        <4>1. binary(op, x, y, "Reserved") = multiply(x, y, "Reserved")
          BY <3>5 DEF binary
        <4> QED  BY <2>1, <3>5, <4>1, MultiplyReserved
      <3>6. CASE op = "Div"
        <4>1. binary(op, x, y, "Reserved") = divide(x, y, "Reserved")
          BY <3>6 DEF binary
        <4> QED  BY <2>1, <3>6, <4>1, DivideReserved
      <3> QED  BY <3>3, <3>4, <3>5, <3>6
    <2>3. ASSUME NEW op \in {"Min", "Max", "Eq", "Lt", "Le", "Sgnj", "Sgnjn", "Sgnjx"}
          PROVE  binary(op, x, y, "Reserved") # Thrown
      <3>1. op \in {"Eq", "Lt", "Le"} => binary(op, x, y, "Reserved") = compare(op, x, y)
        BY DEF binary
      <3>2. op \in {"Sgnj", "Sgnjn", "Sgnjx"} =>
               binary(op, x, y, "Reserved") = InjectSign(op, x, y)
        BY DEF binary
      <3>3. op \in {"Min", "Max"} =>
               \E maximum \in BOOLEAN : binary(op, x, y, "Reserved") = min_or_max(x, y, maximum)
        BY DEF binary
      <3> QED  BY <2>1, <3>1, <3>2, <3>3, OrderedReturns
    <2>4. unary("Sqrt", x, "Reserved") = Thrown <=> FiniteNonzero(x) /\ ~IsNegative(x)
      BY <2>1, RootReserved DEF unary
    <2>5. ASSUME NEW c \in Floats
          PROVE  fma("MAdd", x, y, c, "Reserved") = Thrown <=>
                    /\ FiniteNonzero(x) /\ FiniteNonzero(y)
                    /\ ZeroOf(c) \/ FiniteNonzero(c)
                    /\ TimesSigned(x, y) + Number(c) * Unit # 0
      BY <2>1, FmaReserved
    <2>6. Thrown = Cvt!Thrown /\ Conv!Thrown = Thrown
      BY DEF Thrown, Cvt!Thrown, Conv!Thrown, Result, Cvt!Result, Conv!Result
    <2>7. ASSUME NEW b \in Cvt!Floats,
                 NEW op \in {"CvtWFromS", "CvtWuFromS", "CvtLFromS", "CvtLuFromS"}
          PROVE  Cvt!convert(op, b, "Reserved") # Thrown
      <3>1. Cvt!convert(op, b, "Reserved") = Cvt!float_to_integer(op, b, "Reserved")
        BY DEF Cvt!convert
      <3>2. b \in Conv!Floats /\ op \in Conv!ToInteger
        BY SameNumbers DEF Conv!ToInteger
      <3>3. Conv!float_to_integer(op, b, "Reserved") # Conv!Thrown
        BY CvtAssumptions, <3>2, Conv!FloatToIntegerReserved
      <3> QED  BY <2>6, <3>1, <3>3, SameToInteger
    <2>8. ASSUME NEW w \in 0 .. 2^XLEN - 1,
                 NEW op \in {"CvtSToW", "CvtSToWu", "CvtSToL", "CvtSToLu"}
          PROVE  Cvt!convert(op, w, "Reserved") = Thrown <=> Integer(op, w) # 0
      <3>1. Cvt!convert(op, w, "Reserved") = Cvt!integer_to_float(op, w, "Reserved")
        BY DEF Cvt!convert
      <3>2. w \in Nat /\ op \in Conv!FromInteger
        BY DEF Conv!FromInteger
      <3>3. Conv!integer_to_float(op, w, "Reserved") = Conv!Thrown <=> Conv!Integer(op, w) # 0
        BY CvtAssumptions, <3>2, Conv!IntegerToFloatReserved
      <3>4. Conv!Integer(op, w) = Integer(op, w)
        BY SameFloat
      <3> QED  BY <2>6, <3>1, <3>3, <3>4, SameConversion
    <2> QED  BY <2>2, <2>3, <2>4, <2>5, <2>7, <2>8 DEF ReservedModeThrows
  <1> QED  BY <1>1, OperandsAreFloats, PTL
=============================================================================
