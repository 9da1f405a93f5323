--------------------------- MODULE FpuCheck_proofs ---------------------------
(***************************************************************************)
(* Fpu rounds correctly in every format that FormatAssumption allows, in   *)
(* every rounding mode and for all operands: what the runs of FpuCheck     *)
(* check on a narrow format.                                               *)
(*                                                                         *)
(* The unit cuts a result off three bits below the significand and jams    *)
(* what it cuts off into the last of them.  The argument says why that is  *)
(* harmless.  A value is known by an order: for every h, on which side of  *)
(* h/2 smallest subnormals it lies.  The reference asks the order at the   *)
(* floats and halfway between them (RoundedIs).  A significand S at        *)
(* exponent e jams an order (Jams) if it lies where the value does with    *)
(* respect to every even number.  Shifting right with jamming keeps that   *)
(* so (JamSides, Tracking), and with three bits below the significand the  *)
(* floats and the middles between them are even numbers.  So the bits      *)
(* should_round_up looks at agree with the reference (UpAgrees); and       *)
(* counting the carry and the overflow of round_and_pack, so does the      *)
(* float (PackedIsChosen).                                                 *)
(*                                                                         *)
(* The flags are a second question.  round_and_pack raises UF for an       *)
(* inexact result below the smallest normal (Packs, CorrectlyRounded), the *)
(* reference for a value that stays tiny when its exponent is not bounded  *)
(* (Delivered): it rounds twice the value, which gives it the digit that   *)
(* subnormals lack.  An inexact result below the smallest normal comes     *)
(* from a tiny value, and one above it does not (TinyIs).  So the two can  *)
(* differ only where the result is the smallest normal, which the code     *)
(* never takes for an underflow; that is what Raised says (DeliveredIs).   *)
(*                                                                         *)
(* What is left for an operation is that its significand is exact, or jams *)
(* the exact result and is long enough: ProductRounded; SumRounded, after  *)
(* alignment and cancellation (AlignedSum); QuotientRounded and            *)
(* RootRounded, by induction on the bits that the two restoring loops have *)
(* yet to produce (DivideUnsignedIs, SquareRootUnsignedIs).  The special   *)
(* operands are compared case by case (MultiplyIs, AddOrSubIs, DivideIs,   *)
(* RootIs).  The last lemmas are FpuConvert_proofs': conversions           *)
(* (IntegerToFloatIs, FloatToIntegerIs), packing, the reserved mode.       *)
(***************************************************************************)
EXTENDS FpuCheck, Words_proofs

-----------------------------------------------------------------------------
\* The exponents of two that occur are the powers Words counts with.
LEMMA PowerIs ==
    /\ \A n \in 0 .. WIDE + 3 : 2^n = Power[n]
    /\ \A n \in 0 .. EXPBITS + FRACBITS : 2^n = Power[n]
  <1> DEFINE R == {n \in Nat : n <= WIDE + 3 \/ n <= EXPBITS + FRACBITS => 2^n = Power[n]}
  <1>0. EXPBITS \in Nat /\ FRACBITS \in Nat /\ WIDE \in Nat
    BY FormatAssumption
  <1>1. 0 \in R
    BY PowersAssumption, PowerFacts
  <1>2. ASSUME NEW n \in Nat, n \in R PROVE n + 1 \in R
    <2> SUFFICES ASSUME n + 1 <= WIDE + 3 \/ n + 1 <= EXPBITS + FRACBITS
                 PROVE  2^(n + 1) = Power[n + 1]
      OBVIOUS
    <2>1. n \in 0 .. EXPBITS + FRACBITS \cup 0 .. WIDE + 2
      BY <1>0
    <2>2. 2^(n + 1) = 2 * 2^n
      BY <2>1, PowersAssumption
    <2>3. 2^n = Power[n] /\ Power[n + 1] = 2 * Power[n]
      BY <1>0, <1>2, <2>1, PowerFacts
    <2> QED  BY <2>2, <2>3
  <1> HIDE DEF R
  <1>3. Nat \subseteq R
    BY <1>1, <1>2, Induction
  <1> QED  BY <1>0, <1>3 DEF R

\* The numbers of a format, in powers of two.
LEMMA FormatFacts ==
    /\ EXPBITS \in Nat /\ FRACBITS \in Nat /\ WIDE \in Nat
    /\ EXPBITS >= 2 /\ FRACBITS >= 3 /\ WIDE >= 2 * FRACBITS + 6
    /\ 2^EXPBITS = Power[EXPBITS] /\ Power[EXPBITS] = 2 * Power[EXPBITS - 1]
    /\ Power[EXPBITS - 1] \in Nat /\ Power[EXPBITS - 1] >= 2
    /\ HiddenBit = Power[FRACBITS] /\ HiddenBit = 2 * Power[FRACBITS - 1]
    /\ HiddenBit \in Nat /\ HiddenBit >= 8 /\ Power[FRACBITS - 1] \in Nat
    /\ Sign = Power[EXPBITS] * HiddenBit /\ Sign \in Nat
    /\ Infinity = (Power[EXPBITS] - 1) * HiddenBit /\ Infinity \in Nat
    /\ Bias = Power[EXPBITS - 1] - 1
    /\ MinExponent = 2 - Power[EXPBITS - 1]
    /\ MaxExponent = Power[EXPBITS - 1] - 1
    /\ \A n \in 0 .. WIDE + 3 : 2^n = Power[n]
  <1>1. /\ EXPBITS \in Nat /\ FRACBITS \in Nat /\ WIDE \in Nat
        /\ EXPBITS >= 2 /\ FRACBITS >= 3 /\ WIDE >= 2 * FRACBITS + 6
    BY FormatAssumption
  <1>2. /\ \A n \in 0 .. EXPBITS + FRACBITS : 2^n = Power[n]
        /\ 2^EXPBITS = Power[EXPBITS]
        /\ \A n \in 0 .. WIDE + 3 : 2^n = Power[n]
    BY <1>1, PowerIs
  <1> DEFINE e == EXPBITS - 1
             f == FRACBITS - 1
  <1>3. e \in Nat /\ e >= 1 /\ e + 1 = EXPBITS /\ f \in Nat /\ f >= 2 /\ f + 1 = FRACBITS
    BY <1>1
  <1> HIDE DEF e, f
  <1>4. /\ Power[EXPBITS] = 2 * Power[e] /\ Power[FRACBITS] = 2 * Power[f]
        /\ \A n \in Nat : Power[n] \in Nat \ {0} /\ n < Power[n]
        /\ \A n \in Nat : Power[n + 1] = 2 * Power[n]
    BY <1>3, PowerFacts, PowerGrows
  <1>5. Power[e] >= 2 /\ Power[f] >= 4
    <2>1. e < Power[e] /\ f < Power[f] /\ Power[e] \in Nat /\ Power[f] \in Nat
      BY <1>3, <1>4
    <2>2. f = 2 \/ 3 <= f
      BY <1>3
    <2>3. Power[1 + 1] = 2 * Power[1] /\ Power[0 + 1] = 2 * Power[0] /\ Power[0] = 1
      BY PowerFacts
    <2>4. Power[2] = 4
      BY <2>3
    <2> QED  BY <1>3, <2>1, <2>2, <2>4
  <1>6. FRACBITS <= WIDE /\ e <= EXPBITS /\ EXPBITS < Power[EXPBITS] /\ Power[EXPBITS] \in Nat
    BY <1>1, <1>3, <1>4
  <1>7. HiddenBit = Power[FRACBITS]
    BY <1>1, <1>2, <1>6 DEF HiddenBit
  <1>8. 2^(EXPBITS + FRACBITS) = Power[EXPBITS + FRACBITS]
    BY <1>1, <1>2, <1>6
  <1>9. Sign = Power[EXPBITS] * HiddenBit
    BY <1>1, <1>7, <1>8, PowerSum DEF Sign
  <1>10. 2^e = Power[e]
    BY <1>1, <1>2, <1>3, <1>6
  <1>11. HiddenBit \in Nat /\ HiddenBit >= 8
    BY <1>1, <1>3, <1>4, <1>5, <1>7
  <1>12. Sign \in Nat
    BY <1>6, <1>9, <1>11, Products
  <1>13. Infinity = (Power[EXPBITS] - 1) * HiddenBit
    BY <1>2 DEF Infinity
  <1>14. Power[EXPBITS] - 1 \in Nat
    BY <1>1, <1>6
  <1>15. Infinity \in Nat
    BY <1>11, <1>13, <1>14, Products
  <1>16. /\ Bias = Power[EXPBITS - 1] - 1 /\ MinExponent = 2 - Power[EXPBITS - 1]
         /\ MaxExponent = Power[EXPBITS - 1] - 1
    BY <1>3, <1>4, <1>10 DEF Bias, MinExponent, MaxExponent, e
  <1>17. Power[EXPBITS] = 2 * Power[EXPBITS - 1] /\ Power[EXPBITS - 1] \in Nat
         /\ Power[EXPBITS - 1] >= 2
    BY <1>3, <1>4, <1>5 DEF e
  <1>18. HiddenBit = 2 * Power[FRACBITS - 1] /\ Power[FRACBITS - 1] \in Nat
    BY <1>3, <1>4, <1>7 DEF f
  <1> QED  BY <1>1, <1>2, <1>7, <1>9, <1>11, <1>12, <1>13, <1>15, <1>16, <1>17, <1>18

-----------------------------------------------------------------------------
\* The magnitude b = d * HiddenBit + k with a significand k, normal unless d
\* is zero, stands for k * 2^d smallest subnormals.
IsPlace(d, k) == d \in Nat /\ k \in Nat /\ k < 2 * HiddenBit /\ (d # 0 => k >= HiddenBit)

\* A magnitude with a place stands for k * 2^d.
LEMMA GridAt ==
    ASSUME NEW d, NEW k, IsPlace(d, k), d * HiddenBit + k <= Infinity
    PROVE  /\ d * HiddenBit + k \in 0 .. Infinity
           /\ Grid[d * HiddenBit + k] = k * Power[d]
           /\ d < Power[EXPBITS]
  <1> DEFINE H == HiddenBit
             N == Power[EXPBITS]
             b == d * H + k
             p == Power[d]
  <1>1. /\ H \in Nat /\ H >= 8 /\ N \in Nat /\ N >= 4 /\ Infinity = (N - 1) * H
    BY FormatFacts
  <1>2. d \in Nat /\ k \in Nat /\ k < 2 * H /\ (d # 0 => k >= H)
    BY DEF IsPlace
  <1>3. p \in Nat
    BY <1>2, PowerFacts
  <1>4. d * H <= (N - 1) * H
    BY <1>1, <1>2
  <1> HIDE DEF H, N
  <1>5. d * H \in Nat /\ b \in Nat
    BY <1>1, <1>2, Products
  <1>6. d <= N - 1
    <2> SUFFICES ASSUME d >= N PROVE FALSE
      BY <1>1, <1>2
    <2>1. d * H >= N * H
      BY <1>1, <1>2, SMT
    <2>2. (N - 1) * H = N * H - H /\ N * H \in Nat
      BY <1>1, SMT
    <2> QED  BY <1>1, <1>4, <1>5, <2>1, <2>2
  <1>8. b \in 0 .. Infinity
    BY <1>1, <1>5 DEF H
  <1>9. CASE k < H
    <2>1. d = 0
      BY <1>1, <1>2, <1>9
    <2>2. b = k /\ p = 1
      BY <1>1, <1>2, <2>1, PowerFacts
    <2>3. Grid[b] = b
      BY <1>8, <1>9, <2>2 DEF Grid, H
    <2> QED  BY <1>1, <1>2, <1>6, <1>8, <2>1, <2>2, <2>3 DEF H, N
  <1>10. CASE k >= H
    <2> DEFINE q == d + 1
               r == k - H
    <2>1. q \in Int /\ r \in 0 .. H - 1 /\ H \in Nat \ {0}
      BY <1>1, <1>2, <1>10
    <2>2. q * H = d * H + H
      BY <1>1, <1>2, SMT
    <2>3. b = q * H + r /\ ~(b < H)
      BY <1>1, <1>2, <1>5, <1>10, <2>2
    <2> HIDE DEF q, r
    <2>4. b \div H = q /\ b % H = r
      BY <2>1, <2>3, DivUnique
    <2>5. Grid[b] = (H + r) * Power[q - 1]
      BY <1>8, <2>3, <2>4 DEF Grid, H
    <2>6. q - 1 = d /\ H + r = k
      BY <1>1, <1>2 DEF q, r
    <2> QED  BY <1>1, <1>2, <1>6, <1>8, <2>5, <2>6 DEF H, N
  <1> QED  BY <1>1, <1>2, <1>9, <1>10

\* From one magnitude to the next it is 2^d.
LEMMA GridNext ==
    ASSUME NEW d, NEW k, IsPlace(d, k), d * HiddenBit + k < Infinity
    PROVE  /\ Grid[d * HiddenBit + k] = k * Power[d]
           /\ Grid[d * HiddenBit + k + 1] = (k + 1) * Power[d]
  <1> DEFINE H == HiddenBit
             p == Power[d]
  <1>1. H \in Nat /\ H >= 8 /\ Infinity \in Nat
    BY FormatFacts
  <1>2. d \in Nat /\ k \in Nat /\ k < 2 * H /\ (d # 0 => k >= H)
    BY DEF IsPlace
  <1>3. p \in Nat /\ Power[d + 1] = 2 * p
    BY <1>2, PowerFacts
  <1>4. d * H \in Nat
    BY <1>1, <1>2, Products
  <1>5. Grid[d * HiddenBit + k] = k * Power[d]
    BY <1>1, <1>2, <1>4, GridAt
  <1>6. CASE k + 1 < 2 * H
    <2>1. IsPlace(d, k + 1)
      BY <1>1, <1>2, <1>6 DEF IsPlace
    <2>2. d * HiddenBit + (k + 1) <= Infinity /\ d * HiddenBit + (k + 1) = d * HiddenBit + k + 1
      BY <1>1, <1>2, <1>4
    <2> QED  BY <1>5, <2>1, <2>2, GridAt
  <1>7. CASE k + 1 = 2 * H
    <2>1. IsPlace(d + 1, H)
      BY <1>1, <1>2 DEF IsPlace
    <2>2. (d + 1) * HiddenBit = d * HiddenBit + HiddenBit
      BY <1>1, <1>2, SMT
    <2>3. (d + 1) * HiddenBit + H = d * HiddenBit + k + 1
      BY <1>1, <1>2, <1>4, <1>7, <2>2
    <2>4. (d + 1) * HiddenBit + H <= Infinity
      BY <1>1, <1>2, <1>4, <2>3
    <2>5. Grid[d * HiddenBit + k + 1] = H * Power[d + 1]
      BY <2>1, <2>3, <2>4, GridAt
    <2>6. H * (2 * p) = (2 * H) * p
      BY <1>1, <1>3, SMT
    <2> QED  BY <1>3, <1>5, <1>7, <2>5, <2>6
  <1> QED  BY <1>1, <1>2, <1>6, <1>7

\* Every magnitude has such a place.
LEMMA PlaceOf ==
    ASSUME NEW b \in Nat
    PROVE  \E d, k \in Nat : IsPlace(d, k) /\ b = d * HiddenBit + k
  <1> DEFINE H == HiddenBit
             q == b \div H
             r == b % H
  <1>1. H \in Nat \ {0}
    BY FormatFacts
  <1>2. b = H * q + r /\ r \in 0 .. H - 1 /\ q \in Nat
    BY <1>1, DivModNat
  <1> HIDE DEF q, r
  <1>3. CASE q = 0
    <2>1. b = 0 * H + r /\ r \in Nat /\ IsPlace(0, r)
      BY <1>1, <1>2, <1>3 DEF IsPlace
    <2> QED  BY <2>1
  <1>4. CASE q # 0
    <2>1. (q - 1) * H = H * q - H /\ H * q \in Nat
      BY <1>1, <1>2, SMT
    <2>2. q - 1 \in Nat /\ H + r \in Nat /\ b = (q - 1) * H + (H + r)
      BY <1>1, <1>2, <1>4, <2>1
    <2>3. IsPlace(q - 1, H + r)
      BY <1>1, <1>2, <2>2 DEF IsPlace
    <2> QED  BY <2>2, <2>3
  <1> QED  BY <1>3, <1>4

\* The grid grows.
LEMMA GridGrows ==
    /\ \A b \in 0 .. Infinity : Grid[b] \in Nat
    /\ \A b \in 0 .. Infinity : \A c \in 0 .. Infinity : b < c <=> Grid[b] < Grid[c]
    /\ \A b \in 0 .. Infinity : \A c \in 0 .. Infinity : Grid[b] = Grid[c] => b = c
    /\ Grid[0] = 0
  <1>1. Infinity \in Nat /\ HiddenBit \in Nat /\ HiddenBit >= 8
    BY FormatFacts
  <1>2. ASSUME NEW b \in 0 .. Infinity PROVE Grid[b] \in Nat
    <2>1. PICK d, k \in Nat : IsPlace(d, k) /\ b = d * HiddenBit + k
      BY <1>1, PlaceOf
    <2>2. Grid[b] = k * Power[d]
      BY <1>1, <2>1, GridAt
    <2> QED  BY <2>2, PowerFacts, Products
  <1>3. ASSUME NEW b \in Nat, b < Infinity PROVE Grid[b] < Grid[b + 1]
    <2>1. PICK d, k \in Nat : IsPlace(d, k) /\ b = d * HiddenBit + k
      BY <1>1, PlaceOf
    <2>2. Grid[b] = k * Power[d] /\ Grid[b + 1] = (k + 1) * Power[d]
      BY <1>1, <1>3, <2>1, GridNext
    <2>3. Power[d] \in Nat \ {0}
      BY PowerFacts
    <2>4. (k + 1) * Power[d] = k * Power[d] + Power[d] /\ k * Power[d] \in Nat
      BY <2>3, SMT
    <2> QED  BY <2>2, <2>3, <2>4
  <1>4. ASSUME NEW b \in Nat
        PROVE  \A c \in Nat : b < c /\ c <= Infinity => Grid[b] < Grid[c]
    <2> DEFINE S == {c \in Nat : b < c /\ c <= Infinity => Grid[b] < Grid[c]}
    <2>1. 0 \in S
      OBVIOUS
    <2>2. ASSUME NEW c \in Nat, c \in S PROVE c + 1 \in S
      <3> SUFFICES ASSUME b < c + 1, c + 1 <= Infinity PROVE Grid[b] < Grid[c + 1]
        OBVIOUS
      <3>1. Grid[c] < Grid[c + 1] /\ c \in 0 .. Infinity /\ c + 1 \in 0 .. Infinity
            /\ b \in 0 .. Infinity
        BY <1>1, <1>3
      <3>2. Grid[b] \in Nat /\ Grid[c] \in Nat /\ Grid[c + 1] \in Nat
        BY <1>2, <3>1
      <3>3. b = c \/ Grid[b] < Grid[c]
        BY <1>1, <2>2
      <3> QED  BY <3>1, <3>2, <3>3
    <2> HIDE DEF S
    <2>3. Nat \subseteq S
      BY <2>1, <2>2, Induction
    <2> QED  BY <2>3 DEF S
  <1>5. ASSUME NEW b \in 0 .. Infinity, NEW c \in 0 .. Infinity
        PROVE  (b < c => Grid[b] < Grid[c]) /\ (c < b => Grid[c] < Grid[b])
    BY <1>1, <1>4
  <1>6. ASSUME NEW b \in 0 .. Infinity, NEW c \in 0 .. Infinity
        PROVE  (b < c <=> Grid[b] < Grid[c]) /\ (Grid[b] = Grid[c] => b = c)
    <2>1. Grid[b] \in Nat /\ Grid[c] \in Nat /\ b \in Nat /\ c \in Nat
      BY <1>2
    <2>2. b < c \/ b = c \/ c < b
      BY <2>1
    <2> QED  BY <1>5, <2>1, <2>2
  <1>7. Grid[0] = 0
    BY <1>1 DEF Grid
  <1> QED  BY <1>2, <1>6, <1>7

\* The infinity is a normal magnitude and stands for something.
LEMMA GridTop ==
    /\ Infinity \in Nat /\ Infinity > 0 /\ HiddenBit <= Infinity
    /\ Grid[Infinity] \in Nat /\ Grid[Infinity] > 0
  <1> DEFINE n == Power[EXPBITS] - 1
  <1>1. n \in Nat /\ n >= 1 /\ HiddenBit \in Nat /\ HiddenBit >= 8
        /\ Infinity = n * HiddenBit /\ Infinity \in Nat
    BY FormatFacts
  <1> HIDE DEF n
  <1>2. n * HiddenBit >= 1 * HiddenBit
    BY <1>1, SMT
  <1>3. Infinity \in 0 .. Infinity /\ 0 \in 0 .. Infinity /\ 0 < Infinity /\ HiddenBit <= Infinity
    BY <1>1, <1>2
  <1> QED  BY <1>1, <1>3, GridGrows

-----------------------------------------------------------------------------
\* What the reference takes for a value from the b-th float on and before the
\* next, given the sides on which the value lies of b and of the middle.
Choice(infinity, b, low, middle, negative, rm) ==
    LET up == \/ Outward(negative, rm)
              \/ ToNearest(rm) /\ middle > 0
              \/ middle = 0 /\ (rm = "Rmm" \/ (rm = "Rne" /\ b % 2 = 1))
        taken == IF ~(low = 0) /\ up THEN b + 1 ELSE b
    IN  IF b = infinity
        THEN [magnitude |-> IF Outward(negative, rm) \/ ToNearest(rm) THEN infinity
                            ELSE infinity - 1,
              flags |-> {OF, NX}]
        ELSE [magnitude |-> taken,
              flags |-> CASE low = 0 -> {}
                          [] ~(low = 0) /\ taken = infinity -> {OF, NX}
                          [] OTHER                          -> {NX}]
Chosen(b, low, middle, negative, rm) == Choice(Infinity, b, low, middle, negative, rm)

\* The search of the reference finds the float next below the value, in any
\* grid that begins and ends with a binade.
BeginsBinade(b) == \E i \in Nat : b = i * HiddenBit
LEMMA RoundedFrom ==
    ASSUME NEW grid, NEW first, NEW infinity, BeginsBinade(first), BeginsBinade(infinity),
           NEW excess, NEW negative, NEW rm \in RoundingModes, NEW b \in first .. infinity,
           \A c \in first .. infinity : excess[2 * grid[c]] >= 0 <=> c <= b
    PROVE  Rounded(grid, first, infinity, excess, negative)[rm]
              = Choice(infinity, b, excess[2 * grid[b]], excess[grid[b] + grid[b + 1]],
                       negative, rm)
  <1> DEFINE H == HiddenBit
             Reached(c) == c <= infinity /\ excess[2 * grid[c]] >= 0
             binade == CHOOSE e \in first \div HiddenBit .. infinity \div HiddenBit :
                          Reached(e * HiddenBit) /\ ~Reached((e + 1) * HiddenBit)
             below == CHOOSE c \in binade * HiddenBit .. (binade + 1) * HiddenBit - 1 :
                          Reached(c) /\ ~Reached(c + 1)
  <1>0. PICK i, j \in Nat : first = i * HiddenBit /\ infinity = j * HiddenBit
    BY DEF BeginsBinade
  <1>1. H \in Nat \ {0} /\ H \in Nat /\ first \in Nat /\ infinity \in Nat
    BY <1>0, FormatFacts, Products
  <1>2. \A c \in Nat : c >= first => (Reached(c) <=> c <= b)
    BY <1>1
  <1> HIDE DEF Reached
  <1>3. first \div HiddenBit = i /\ infinity \div HiddenBit = j
    <2>1. 0 \in 0 .. H - 1 /\ i \in Int /\ j \in Int
      BY <1>1
    <2> HIDE DEF H
    <2>2. (i * H + 0) \div H = i /\ (j * H + 0) \div H = j
      BY <1>1, <2>1, DivUnique
    <2>3. i * H + 0 = first /\ j * H + 0 = infinity
      BY <1>0, <1>1 DEF H
    <2> QED  BY <2>2, <2>3 DEF H
  <1>9. first = i * H /\ infinity = j * H
    BY <1>0
  <1> HIDE DEF H
  <1> DEFINE q == b \div H
             r == b % H
  <1>4. b = H * q + r /\ r \in 0 .. H - 1 /\ q \in Nat /\ b \in Nat
    <2>1. b \in Nat
      BY <1>1
    <2> QED  BY <1>1, <2>1, DivModNat
  <1> HIDE DEF q, r
  <1>5. q * H = H * q /\ q * H \in Nat /\ (q + 1) * H = q * H + H
    BY <1>1, <1>4, SMT
  <1>6. q \in i .. j
    <2>1. q <= j
      <3> SUFFICES ASSUME q >= j + 1 PROVE FALSE
        BY <1>1, <1>4
      <3>1. q * H >= (j + 1) * H /\ (j + 1) * H = j * H + H
        BY <1>1, <1>4, SMT
      <3> QED  BY <1>1, <1>9, <1>4, <1>5, <3>1
    <2>2. q >= i
      <3> SUFFICES ASSUME q + 1 <= i PROVE FALSE
        BY <1>1, <1>4
      <3>1. (q + 1) * H <= i * H
        BY <1>1, <1>4, SMT
      <3> QED  BY <1>1, <1>9, <1>4, <1>5, <3>1
    <2> QED  BY <1>4, <2>1, <2>2
  <1>7. Reached(q * H) /\ ~Reached((q + 1) * H) /\ q * H >= first
    <2>1. (q + 1) * H \in Nat /\ q * H <= b /\ ~((q + 1) * H <= b)
      BY <1>1, <1>4, <1>5
    <2>2. q * H >= i * H
      BY <1>1, <1>4, <1>6, SMT
    <2> QED  BY <1>1, <1>2, <1>9, <1>5, <2>1, <2>2
  <1>8. ASSUME NEW e \in i .. j, Reached(e * H), ~Reached((e + 1) * H) PROVE e = q
    <2>1. e * H \in Nat /\ (e + 1) * H \in Nat /\ (e + 1) * H = e * H + H /\ e * H >= i * H
      BY <1>1, SMT
    <2>2. e * H <= b /\ b < (e + 1) * H
      <3>1. e * H >= first /\ (e + 1) * H >= first
        BY <1>1, <1>9, <2>1
      <3> QED  BY <1>1, <1>2, <1>4, <1>8, <2>1, <3>1
    <2>3. ~(e < q)
      <3> SUFFICES ASSUME e < q PROVE FALSE
        OBVIOUS
      <3>1. (e + 1) * H <= q * H
        BY <1>1, <1>4, SMT
      <3> QED  BY <1>1, <1>4, <1>5, <2>1, <2>2, <3>1
    <2>4. ~(q < e)
      <3> SUFFICES ASSUME q < e PROVE FALSE
        OBVIOUS
      <3>1. (q + 1) * H <= e * H
        BY <1>1, <1>4, SMT
      <3> QED  BY <1>1, <1>4, <1>5, <2>1, <2>2, <3>1
    <2> QED  BY <1>4, <2>3, <2>4
  <1>10. binade = CHOOSE e \in i .. j : Reached(e * H) /\ ~Reached((e + 1) * H)
    BY <1>3 DEF H
  <1>11. binade = q
    <2> HIDE DEF binade
    <2> QED  BY <1>6, <1>7, <1>8, <1>10
  <1>12. below = CHOOSE c \in q * H .. (q + 1) * H - 1 : Reached(c) /\ ~Reached(c + 1)
    <2> HIDE DEF binade
    <2> QED  BY <1>11 DEF H
  <1>13. b \in q * H .. (q + 1) * H - 1 /\ Reached(b) /\ ~Reached(b + 1)
    BY <1>1, <1>2, <1>4, <1>5
  <1>14. ASSUME NEW c \in q * H .. (q + 1) * H - 1, Reached(c), ~Reached(c + 1) PROVE c = b
    <2>1. c \in Nat /\ c + 1 \in Nat /\ c >= first
      BY <1>1, <1>5, <1>7
    <2> QED  BY <1>1, <1>2, <1>4, <1>14, <2>1
  <1>15. below = b
    <2> HIDE DEF below
    <2> QED  BY <1>12, <1>13, <1>14
  <1> DEFINE Up(m) == \/ Outward(negative, m)
                      \/ ToNearest(m) /\ excess[grid[below] + grid[below + 1]] > 0
                      \/ excess[grid[below] + grid[below + 1]] = 0
                            /\ (m = "Rmm" \/ (m = "Rne" /\ below % 2 = 1))
             exact == excess[2 * grid[below]] = 0
             Taken(m) == IF ~exact /\ Up(m) THEN below + 1 ELSE below
             result == [m \in RoundingModes |->
                IF below = infinity
                THEN [magnitude |-> IF Outward(negative, m) \/ ToNearest(m) THEN infinity
                                    ELSE infinity - 1,
                      flags |-> {OF, NX}]
                ELSE [magnitude |-> Taken(m),
                      flags |-> CASE exact -> {}
                                  [] ~exact /\ Taken(m) = infinity -> {OF, NX}
                                  [] OTHER                         -> {NX}]]
  <1>16. Rounded(grid, first, infinity, excess, negative) = result
    BY Zenon DEF Rounded, Reached
  <1> HIDE DEF below
  <1>17. result[rm] = Choice(infinity, below, excess[2 * grid[below]],
                             excess[grid[below] + grid[below + 1]], negative, rm)
    BY Zenon DEF Choice
  <1> QED  BY <1>15, <1>16, <1>17

\* The whole grid begins with zero.
LEMMA RoundedIs ==
    ASSUME NEW excess, NEW negative, NEW rm \in RoundingModes, NEW b \in 0 .. Infinity,
           \A c \in 0 .. Infinity : excess[2 * Grid[c]] >= 0 <=> c <= b
    PROVE  Rounded(Grid, 0, Infinity, excess, negative)[rm]
              = Chosen(b, excess[2 * Grid[b]], excess[Grid[b] + Grid[b + 1]], negative, rm)
  <1> DEFINE n == Power[EXPBITS]
             j == n - 1
  <1>1. n = 2 * Power[EXPBITS - 1] /\ Power[EXPBITS - 1] \in Nat /\ Power[EXPBITS - 1] >= 2
        /\ Infinity = (n - 1) * HiddenBit /\ HiddenBit \in Nat
    BY FormatFacts
  <1>2. Infinity = j * HiddenBit /\ j \in Nat
    <2> HIDE DEF n
    <2>1. j \in Nat
      BY <1>1
    <2> QED  BY <1>1, <2>1
  <1> HIDE DEF j, n
  <1>3. BeginsBinade(0) /\ BeginsBinade(Infinity)
    BY <1>1, <1>2 DEF BeginsBinade
  <1> QED  BY <1>3, RoundedFrom DEF Chosen

-----------------------------------------------------------------------------
\* An order is all that is known of an exact value: exact[h] is on the side of
\* zero on which twice the value is of h smallest subnormals.
SameSide(p, q) == (p < 0 <=> q < 0) /\ (p = 0 <=> q = 0)
IsOrder(exact) ==
    /\ \A h \in Nat : exact[h] \in Int
    /\ \A g, h \in Nat : g <= h /\ exact[h] >= 0 => exact[g] >= 0

\* T is eight times the value in units of 2^d, but for a last bit that tells
\* that there is more.
Tracks(T, d, exact) == \A j \in Nat : SameSide(exact[j * Power[d]], T - 4 * j)

\* What round_and_pack makes of it.
Packed(negative, d, T, rm) ==
    LET up == IF should_round_up(rm, negative, T \div 8, T % 8) THEN 1 ELSE 0
        b == d * HiddenBit + T \div 8 + up
    IN  IF b >= Infinity THEN Overflow(negative, rm)
        ELSE Result(Signed(negative, b),
                    IF T % 8 = 0 THEN {} ELSE IF b < HiddenBit THEN {NX, UF} ELSE {NX})

\* The infinity has a place like the others.
LEMMA InfinityPlace ==
    /\ IsPlace(Power[EXPBITS] - 2, HiddenBit)
    /\ (Power[EXPBITS] - 2) * HiddenBit + HiddenBit = Infinity
    /\ Grid[Infinity] = HiddenBit * Power[Power[EXPBITS] - 2]
  <1> DEFINE H == HiddenBit
             N == Power[EXPBITS]
  <1>1. H \in Nat /\ H >= 8 /\ N \in Nat /\ N >= 4 /\ Infinity \in Nat /\ Infinity = (N - 1) * H
    BY FormatFacts
  <1> HIDE DEF H, N
  <1>2. N - 2 \in Nat /\ (N - 2) * H + H = (N - 1) * H
    BY <1>1, SMT
  <1>3. IsPlace(N - 2, H)
    BY <1>1, <1>2 DEF IsPlace, H
  <1>4. (N - 2) * HiddenBit + H = Infinity
    BY <1>1, <1>2 DEF H
  <1>5. Grid[(N - 2) * HiddenBit + H] = H * Power[N - 2]
    BY <1>1, <1>3, <1>4, GridAt
  <1> QED  BY <1>3, <1>4, <1>5 DEF H, N

\* The side of three points: the float below, the middle, the float above.
LEMMA SidesOf ==
    ASSUME NEW exact, IsOrder(exact), NEW T \in Nat, NEW d, Tracks(T, d, exact),
           IsPlace(d, T \div 8), d * HiddenBit + T \div 8 < Infinity
    PROVE  LET b == d * HiddenBit + T \div 8
           IN  /\ b \in 0 .. Infinity - 1
               /\ SameSide(exact[2 * Grid[b]], T % 8)
               /\ SameSide(exact[Grid[b] + Grid[b + 1]], (T % 8) - 4)
               /\ \A c \in 0 .. Infinity : exact[2 * Grid[c]] >= 0 <=> c <= b
  <1> DEFINE k == T \div 8
             t == T % 8
             b == d * HiddenBit + k
             p == Power[d]
  <1>1. T = 8 * k + t /\ t \in 0 .. 7 /\ k \in Nat
    OBVIOUS
  <1>2. d \in Nat /\ p \in Nat \ {0} /\ HiddenBit \in Nat /\ Infinity \in Nat
    BY PowerFacts, FormatFacts DEF IsPlace
  <1> HIDE DEF k, t
  <1>3. IsPlace(d, k) /\ b < Infinity
    BY DEF k
  <1>4. Grid[b] = k * p /\ Grid[b + 1] = (k + 1) * p
    BY <1>3, GridNext
  <1>5. b \in 0 .. Infinity - 1
    BY <1>1, <1>2, <1>3, Products
  <1> HIDE DEF p
  <1>6. /\ 2 * Grid[b] = (2 * k) * p /\ 2 * Grid[b + 1] = (2 * k + 2) * p
        /\ Grid[b] + Grid[b + 1] = (2 * k + 1) * p
    BY <1>1, <1>2, <1>4, SMT
  <1>7. \A j \in Nat : SameSide(exact[j * p], T - 4 * j)
    BY DEF Tracks, p
  <1>8. /\ SameSide(exact[(2 * k) * p], T - 4 * (2 * k))
        /\ SameSide(exact[(2 * k + 1) * p], T - 4 * (2 * k + 1))
        /\ SameSide(exact[(2 * k + 2) * p], T - 4 * (2 * k + 2))
    BY <1>1, <1>7
  <1>9. T - 4 * (2 * k) = t /\ T - 4 * (2 * k + 1) = t - 4 /\ T - 4 * (2 * k + 2) = t - 8
    BY <1>1
  <1>10. /\ SameSide(exact[2 * Grid[b]], t) /\ SameSide(exact[Grid[b] + Grid[b + 1]], t - 4)
         /\ SameSide(exact[2 * Grid[b + 1]], t - 8)
    BY <1>6, <1>8, <1>9
  <1> HIDE DEF b
  <1>11. ASSUME NEW c \in 0 .. Infinity PROVE exact[2 * Grid[c]] >= 0 <=> c <= b
    <2>1. /\ Grid[b] \in Nat /\ Grid[b + 1] \in Nat /\ Grid[c] \in Nat
          /\ b < c => Grid[b] < Grid[c]
          /\ c < b => Grid[c] < Grid[b]
          /\ b + 1 < c => Grid[b + 1] < Grid[c]
          /\ c \in Nat /\ b \in Nat
      BY <1>2, <1>5, GridGrows
    <2>2. /\ exact[2 * Grid[b]] \in Int /\ exact[2 * Grid[b + 1]] \in Int
          /\ exact[2 * Grid[c]] \in Int
      BY <2>1 DEF IsOrder
    <2>3. exact[2 * Grid[b]] >= 0 /\ exact[2 * Grid[b + 1]] < 0
      BY <1>1, <1>10, <2>2 DEF SameSide
    <2>4. CASE c <= b
      <3>1. Grid[c] <= Grid[b]
        BY <2>1, <2>4
      <3> QED  BY <2>1, <2>3, <2>4, <3>1 DEF IsOrder
    <2>5. CASE c > b
      <3>1. Grid[b + 1] <= Grid[c]
        BY <2>1, <2>5
      <3>2. ~(exact[2 * Grid[c]] >= 0)
        BY <2>1, <2>2, <2>3, <3>1 DEF IsOrder
      <3> QED  BY <2>1, <2>5, <3>2
    <2> QED  BY <2>1, <2>4, <2>5
  <1> QED  BY <1>5, <1>10, <1>11 DEF b, k, t

\* The bits of the significand decide as the sides do.
LEMMA UpAgrees ==
    ASSUME NEW rm \in RoundingModes, NEW negative \in BOOLEAN, NEW T \in Nat, NEW d \in Nat,
           NEW low \in Int, NEW middle \in Int,
           SameSide(low, T % 8), SameSide(middle, (T % 8) - 4)
    PROVE  LET b == d * HiddenBit + T \div 8
               up == \/ Outward(negative, rm)
                     \/ ToNearest(rm) /\ middle > 0
                     \/ middle = 0 /\ (rm = "Rmm" \/ (rm = "Rne" /\ b % 2 = 1))
           IN  /\ should_round_up(rm, negative, T \div 8, T % 8) <=> ~(low = 0) /\ up
               /\ low = 0 <=> T % 8 = 0
               /\ ~(low = 0) /\ up => Outward(negative, rm) \/ ToNearest(rm)
  <1> DEFINE k == T \div 8
             t == T % 8
             f == Power[FRACBITS - 1]
             b == d * HiddenBit + k
  <1>1. T = 8 * k + t /\ t \in 0 .. 7 /\ k \in Nat
    OBVIOUS
  <1>2. HiddenBit = 2 * f /\ f \in Nat /\ HiddenBit \in Nat
    BY FormatFacts
  <1> HIDE DEF k, t, f
  <1>3. b % 2 = k % 2
    <2> DEFINE e == d * f
    <2>1. b = k + e * 2 /\ e \in Int
      BY <1>1, <1>2, SMT
    <2> HIDE DEF e
    <2>2. k \in Int /\ 2 \in Nat \ {0}
      BY <1>1
    <2>3. (k + e * 2) % 2 = k % 2
      BY <2>1, <2>2, Shift
    <2> QED  BY <2>1, <2>3
  <1> HIDE DEF b
  <1>4. /\ low = 0 <=> t = 0
        /\ middle = 0 <=> t = 4
        /\ middle > 0 <=> t > 4
    BY <1>1 DEF SameSide, t
  <1> DEFINE up == \/ Outward(negative, rm)
                   \/ ToNearest(rm) /\ middle > 0
                   \/ middle = 0 /\ (rm = "Rmm" \/ (rm = "Rne" /\ b % 2 = 1))
  <1>5. should_round_up(rm, negative, k, t) <=> ~(low = 0) /\ up
    <2>1. CASE rm = "Rne"
      BY <1>1, <1>3, <1>4, <2>1 DEF should_round_up, Outward, ToNearest
    <2>2. CASE rm = "Rtz"
      BY <1>1, <1>3, <1>4, <2>2 DEF should_round_up, Outward, ToNearest
    <2>3. CASE rm = "Rdn"
      BY <1>1, <1>3, <1>4, <2>3 DEF should_round_up, Outward, ToNearest
    <2>4. CASE rm = "Rup"
      BY <1>1, <1>3, <1>4, <2>4 DEF should_round_up, Outward, ToNearest
    <2>5. CASE rm = "Rmm"
      BY <1>1, <1>3, <1>4, <2>5 DEF should_round_up, Outward, ToNearest
    <2> QED  BY <2>1, <2>2, <2>3, <2>4, <2>5 DEF RoundingModes
  <1>6. ~(low = 0) /\ up => Outward(negative, rm) \/ ToNearest(rm)
    BY DEF ToNearest
  <1> QED  BY <1>4, <1>5, <1>6 DEF b, k, t

\* Halfway sums and doubles stay below twice the infinity.
LEMMA DoublesOfGrid ==
    ASSUME NEW b \in 0 .. Infinity
    PROVE  /\ 2 * Grid[b] \in 0 .. 2 * Grid[Infinity]
           /\ b < Infinity => Grid[b] + Grid[b + 1] \in 0 .. 2 * Grid[Infinity]
  <1>1. Infinity \in Nat /\ Infinity \in 0 .. Infinity
    BY FormatFacts
  <1>2. Grid[b] \in Nat /\ Grid[Infinity] \in Nat /\ (b < Infinity => Grid[b] < Grid[Infinity])
        /\ (b < Infinity => Grid[b + 1] \in Nat)
        /\ (b + 1 < Infinity => Grid[b + 1] < Grid[Infinity])
    BY <1>1, GridGrows
  <1>3. b = Infinity \/ b < Infinity
    BY <1>1
  <1>4. b + 1 = Infinity \/ b + 1 < Infinity \/ b = Infinity
    BY <1>1
  <1> QED  BY <1>2, <1>3, <1>4

\* Chosen below the infinity, when it rounds away from zero and when not.
LEMMA ChosenBelow ==
    ASSUME NEW b \in Nat, b < Infinity, NEW low, NEW middle, NEW negative, NEW rm
    PROVE  LET up == \/ Outward(negative, rm)
                     \/ ToNearest(rm) /\ middle > 0
                     \/ middle = 0 /\ (rm = "Rmm" \/ (rm = "Rne" /\ b % 2 = 1))
               c == Chosen(b, low, middle, negative, rm)
           IN  /\ ~(low = 0) /\ up =>
                     /\ c.magnitude = b + 1
                     /\ b + 1 = Infinity => c.flags = {OF, NX}
                     /\ b + 1 # Infinity => c.flags = {NX}
               /\ ~(~(low = 0) /\ up) =>
                     /\ c.magnitude = b
                     /\ low = 0 => c.flags = {}
                     /\ ~(low = 0) => c.flags = {NX}
  <1> DEFINE up == \/ Outward(negative, rm)
                   \/ ToNearest(rm) /\ middle > 0
                   \/ middle = 0 /\ (rm = "Rmm" \/ (rm = "Rne" /\ b % 2 = 1))
             taken == IF ~(low = 0) /\ up THEN b + 1 ELSE b
             flags == CASE low = 0 -> {}
                        [] ~(low = 0) /\ taken = Infinity -> {OF, NX}
                        [] OTHER                          -> {NX}
             c == Chosen(b, low, middle, negative, rm)
  <1>1. b # Infinity
    BY FormatFacts
  <1>3. c = [magnitude |-> taken, flags |-> flags]
    BY <1>1, Zenon DEF Chosen, Choice
  <1> HIDE DEF taken, flags, c, up
  <1>4. c.magnitude = taken /\ c.flags = flags
    BY <1>3
  <1>5. ~(low = 0) /\ up => taken = b + 1
    BY Zenon DEF taken
  <1>6. ~(~(low = 0) /\ up) => taken = b
    BY Zenon DEF taken
  <1> USE DEF flags
  <1>7. /\ low = 0 => flags = {}
        /\ ~(low = 0) /\ taken = Infinity => flags = {OF, NX}
        /\ ~(low = 0) /\ ~(taken = Infinity) => flags = {NX}
    BY Zenon
  <1> HIDE DEF flags
  <1>8. ~(low = 0) /\ up =>
            /\ c.magnitude = b + 1
            /\ b + 1 = Infinity => c.flags = {OF, NX}
            /\ b + 1 # Infinity => c.flags = {NX}
    BY <1>4, <1>5, <1>7, Zenon
  <1>9. ~(~(low = 0) /\ up) =>
            /\ c.magnitude = b
            /\ low = 0 => c.flags = {}
            /\ ~(low = 0) => c.flags = {NX}
    BY <1>1, <1>4, <1>6, <1>7, Zenon
  <1> QED  BY <1>8, <1>9, Zenon DEF up, c

\* The flags that the unit raises for a float the reference has chosen.
Packs(negative, r) ==
    Result(Signed(negative, r.magnitude),
           IF r.flags = {NX} /\ r.magnitude < HiddenBit THEN {UF, NX} ELSE r.flags)

\* The packed float is the one the reference chooses.
LEMMA PackedIsChosen ==
    ASSUME NEW rm \in RoundingModes, NEW negative \in BOOLEAN, NEW exact, NEW excess,
           NEW T \in Nat, NEW d, IsOrder(exact), Tracks(T, d, exact), IsPlace(d, T \div 8),
           \A h \in 0 .. 2 * Grid[Infinity] : excess[h] \in Int /\ SameSide(excess[h], exact[h])
    PROVE  LET r == Rounded(Grid, 0, Infinity, excess, negative)[rm]
           IN  Packed(negative, d, T, rm) = Packs(negative, r)
  <1> DEFINE r == Rounded(Grid, 0, Infinity, excess, negative)[rm]
             k == T \div 8
             t == T % 8
             b == d * HiddenBit + k
  <1>1. /\ k \in Nat /\ t \in 0 .. 7 /\ T = 8 * k + t /\ d \in Nat /\ HiddenBit \in Nat
        /\ HiddenBit >= 8 /\ Infinity \in Nat /\ Infinity \in 0 .. Infinity
    BY FormatFacts DEF IsPlace
  <1>2. b \in Nat
    BY <1>1, Products
  <1>0. {OF, NX} # {NX} /\ {} # {NX} /\ {NX, UF} = {UF, NX}
    BY DEF OF, NX, UF
  <1>3. CASE b < Infinity
    <2> DEFINE low == excess[2 * Grid[b]]
               middle == excess[Grid[b] + Grid[b + 1]]
               up == \/ Outward(negative, rm)
                     \/ ToNearest(rm) /\ middle > 0
                     \/ middle = 0 /\ (rm = "Rmm" \/ (rm = "Rne" /\ b % 2 = 1))
    <2>1. /\ b \in 0 .. Infinity /\ b \in 0 .. Infinity - 1
          /\ SameSide(exact[2 * Grid[b]], t)
          /\ SameSide(exact[Grid[b] + Grid[b + 1]], t - 4)
          /\ \A c \in 0 .. Infinity : exact[2 * Grid[c]] >= 0 <=> c <= b
      BY <1>1, <1>3, SidesOf
    <2>2. /\ 2 * Grid[b] \in 0 .. 2 * Grid[Infinity]
          /\ Grid[b] + Grid[b + 1] \in 0 .. 2 * Grid[Infinity]
          /\ \A c \in 0 .. Infinity : 2 * Grid[c] \in 0 .. 2 * Grid[Infinity]
      BY <1>3, <2>1, DoublesOfGrid
    <2>3. low \in Int /\ middle \in Int /\ SameSide(low, t) /\ SameSide(middle, t - 4)
      BY <2>1, <2>2 DEF SameSide
    <2>4. ASSUME NEW c \in 0 .. Infinity PROVE excess[2 * Grid[c]] >= 0 <=> c <= b
      <3>1. exact[2 * Grid[c]] \in Int /\ excess[2 * Grid[c]] \in Int
        BY <2>2, GridGrows DEF IsOrder
      <3> QED  BY <2>1, <2>2, <3>1 DEF SameSide
    <2>5. r = Chosen(b, low, middle, negative, rm)
      BY <2>1, <2>4, RoundedIs
    <2>6. /\ should_round_up(rm, negative, k, t) <=> ~(low = 0) /\ up
          /\ low = 0 <=> t = 0
          /\ ~(low = 0) /\ up => Outward(negative, rm) \/ ToNearest(rm)
      BY <1>1, <2>3, UpAgrees
    <2> HIDE DEF low, middle
    <2>7. CASE should_round_up(rm, negative, k, t)
      <3>1. ~(low = 0) /\ up /\ t # 0 /\ (Outward(negative, rm) \/ ToNearest(rm))
        BY <2>6, <2>7
      <3>2. /\ r.magnitude = b + 1
            /\ b + 1 = Infinity => r.flags = {OF, NX}
            /\ b + 1 # Infinity => r.flags = {NX}
        BY <1>2, <1>3, <2>5, <3>1, ChosenBelow
      <3>3. CASE b + 1 = Infinity
        <4>1. Packed(negative, d, T, rm) = Overflow(negative, rm)
          BY <1>1, <1>2, <2>7, <3>3 DEF Packed
        <4>2. Overflow(negative, rm) = Result(Signed(negative, Infinity), {OF, NX})
          BY <3>1 DEF Overflow, Outward, ToNearest
        <4> QED  BY <1>0, <3>2, <3>3, <4>1, <4>2 DEF Packs
      <3>4. CASE b + 1 # Infinity
        <4>1. ~(b + 1 >= Infinity)
          BY <1>1, <1>2, <1>3, <3>4
        <4>2. Packed(negative, d, T, rm)
                 = Result(Signed(negative, b + 1), IF b + 1 < HiddenBit THEN {NX, UF} ELSE {NX})
          BY <1>1, <1>2, <2>7, <3>1, <4>1 DEF Packed
        <4> QED  BY <1>0, <3>2, <3>4, <4>2 DEF Packs
      <3> QED  BY <3>3, <3>4
    <2>8. CASE ~should_round_up(rm, negative, k, t)
      <3>1. ~(~(low = 0) /\ up)
        BY <2>6, <2>8
      <3>2. /\ r.magnitude = b
            /\ t = 0 => r.flags = {}
            /\ t # 0 => r.flags = {NX}
        BY <1>2, <1>3, <2>5, <2>6, <3>1, ChosenBelow
      <3>3. Packed(negative, d, T, rm)
               = Result(Signed(negative, b),
                        IF t = 0 THEN {} ELSE IF b < HiddenBit THEN {NX, UF} ELSE {NX})
        BY <1>1, <1>2, <1>3, <2>8 DEF Packed
      <3> QED  BY <1>0, <3>2, <3>3 DEF Packs
    <2> QED  BY <2>7, <2>8
  <1>4. CASE b >= Infinity
    <2> DEFINE N == Power[EXPBITS]
               M == N - 2
               top == exact[(2 * k) * Power[d]]
    <2>1. N \in Nat /\ N >= 4 /\ Infinity = (N - 1) * HiddenBit
          /\ M \in Nat /\ M > 0 /\ Grid[Infinity] = HiddenBit * Power[M]
      BY FormatFacts, InfinityPlace
    <2>2. k < 2 * HiddenBit /\ (d # 0 => k >= HiddenBit)
      BY <1>1 DEF IsPlace
    <2> HIDE DEF N
    <2>3. d >= M
      <3> SUFFICES ASSUME d <= N - 3 PROVE FALSE
        BY <1>1, <2>1
      <3>1. d * HiddenBit <= (N - 3) * HiddenBit
        BY <1>1, <2>1, SMT
      <3>2. (N - 1) * HiddenBit = (N - 3) * HiddenBit + 2 * HiddenBit
            /\ (N - 3) * HiddenBit \in Int /\ d * HiddenBit \in Int
        BY <1>1, <2>1, SMT
      <3> QED  BY <1>1, <1>4, <2>1, <2>2, <3>1, <3>2
    <2>4. k >= HiddenBit
      BY <1>1, <2>1, <2>2, <2>3
    <2> HIDE DEF M
    <2>5. Power[M] \in Nat /\ Power[d] \in Nat /\ Power[M] <= Power[d]
      <3>1. M < d \/ M = d
        BY <1>1, <2>1, <2>3
      <3>2. Power[M] \in Nat /\ Power[d] \in Nat
        BY <1>1, <2>1, PowerFacts
      <3>3. M < d => Power[M] < Power[d]
        BY <1>1, <2>1, PowerGrows
      <3> QED  BY <3>1, <3>2, <3>3
    <2>6. 2 * Grid[Infinity] <= (2 * k) * Power[d] /\ (2 * k) * Power[d] \in Nat
          /\ 2 * Grid[Infinity] \in Nat
      <3>1. HiddenBit * Power[M] <= k * Power[M] /\ k * Power[M] <= k * Power[d]
            /\ HiddenBit * Power[M] \in Nat /\ k * Power[M] \in Nat /\ k * Power[d] \in Nat
            /\ (2 * k) * Power[d] = 2 * (k * Power[d])
        BY <1>1, <2>4, <2>5, SMT
      <3> QED  BY <2>1, <3>1
    <2>7. SameSide(top, T - 4 * (2 * k)) /\ T - 4 * (2 * k) = t
      BY <1>1 DEF Tracks
    <2>8. top >= 0
      BY <1>1, <2>6, <2>7 DEF SameSide, IsOrder
    <2>9. exact[2 * Grid[Infinity]] >= 0
      BY <2>6, <2>8 DEF IsOrder
    <2>10. ASSUME NEW c \in 0 .. Infinity PROVE excess[2 * Grid[c]] >= 0 <=> c <= Infinity
      <3>1. 2 * Grid[c] \in 0 .. 2 * Grid[Infinity] /\ 2 * Grid[c] \in Nat
            /\ 2 * Grid[c] <= 2 * Grid[Infinity]
        BY DoublesOfGrid
      <3>2. exact[2 * Grid[c]] >= 0 /\ exact[2 * Grid[c]] \in Int
        BY <2>6, <2>9, <3>1 DEF IsOrder
      <3>3. excess[2 * Grid[c]] \in Int /\ SameSide(excess[2 * Grid[c]], exact[2 * Grid[c]])
        BY <3>1
      <3> QED  BY <3>2, <3>3 DEF SameSide
    <2>11. r = Chosen(Infinity, excess[2 * Grid[Infinity]],
                      excess[Grid[Infinity] + Grid[Infinity + 1]], negative, rm)
      BY <1>1, <2>10, RoundedIs
    <2>12. /\ r.magnitude = IF Outward(negative, rm) \/ ToNearest(rm) THEN Infinity
                            ELSE Infinity - 1
           /\ r.flags = {OF, NX}
      BY <2>11 DEF Chosen, Choice
    <2>13. Packed(negative, d, T, rm) = Overflow(negative, rm)
      BY <1>1, <1>2, <1>4 DEF Packed
    <2>14. Overflow(negative, rm) = Result(Signed(negative, r.magnitude), {OF, NX})
      BY <2>12 DEF Overflow, Outward, ToNearest, MaxFinite
    <2> QED  BY <1>0, <2>12, <2>13, <2>14 DEF Packs
  <1> QED  BY <1>1, <1>2, <1>3, <1>4

-----------------------------------------------------------------------------
\* A quotient whose last bit tells of a remainder.
Jam(v, q) == WithSticky(v \div q, v % q # 0)

\* Such a quotient lies on the same side of every even number as the exact one.
LEMMA JamSides ==
    ASSUME NEW v \in Nat, NEW q \in Nat \ {0}
    PROVE  /\ Jam(v, q) \in Nat
           /\ \A c \in Int : SameSide(Jam(v, q) - 2 * c, v - (2 * c) * q)
  <1> DEFINE k == v \div q
             r == v % q
             i == k \div 2
             s == k % 2
             J == Jam(v, q)
  <1>1. v = q * k + r /\ r \in 0 .. q - 1 /\ k \in Nat
    BY DivModNat
  <1>2. J = IF r # 0 /\ s = 0 THEN k + 1 ELSE k
    BY DEF Jam, WithSticky
  <1> HIDE DEF k, r
  <1>3. k = 2 * i + s /\ s \in {0, 1} /\ i \in Int
    BY <1>1
  <1> HIDE DEF J, i, s
  <1>4. J \in Nat
    BY <1>1, <1>2
  <1>5. ASSUME NEW c \in Int PROVE SameSide(J - 2 * c, v - (2 * c) * q)
    <2> DEFINE g == k - 2 * c
    <2>1. v - (2 * c) * q = g * q + r /\ g * q \in Int /\ g \in Int
      BY <1>1, SMT
    <2>2. /\ g >= 0 => g * q >= 0
          /\ g > 0 => g * q > 0
          /\ g <= -1 => g * q <= -q
          /\ g = 0 => g * q = 0
      BY <1>1, <2>1, SMT
    <2>3. g = 2 * (i - c) + s
      BY <1>3
    <2>4. J - 2 * c = IF r # 0 /\ s = 0 THEN g + 1 ELSE g
      BY <1>1, <1>2
    <2> DEFINE m == g * q
    <2> HIDE DEF g, m
    <2>5. CASE r # 0 /\ s = 0
      <3>1. J - 2 * c = g + 1
        BY <2>4, <2>5
      <3>2. g >= 0 => m + r > 0
        BY <1>1, <2>1, <2>2, <2>5 DEF m
      <3>3. g < 0 => m + r < 0 /\ g + 1 < 0
        BY <1>1, <1>3, <2>1, <2>2, <2>3, <2>5 DEF m
      <3> QED  BY <1>1, <2>1, <3>1, <3>2, <3>3 DEF SameSide, m
    <2>6. CASE r = 0
      <3>1. J - 2 * c = g
        BY <2>4, <2>6
      <3>2. /\ g > 0 => m + r > 0
            /\ g = 0 => m + r = 0
            /\ g < 0 => m + r < 0
        BY <1>1, <2>1, <2>2, <2>6 DEF m
      <3> QED  BY <1>1, <2>1, <3>1, <3>2 DEF SameSide, m
    <2>7. CASE r # 0 /\ s = 1
      <3>1. J - 2 * c = g
        BY <2>4, <2>7
      <3>2. g # 0
        BY <1>3, <2>3, <2>7
      <3>3. /\ g > 0 => m + r > 0
            /\ g < 0 => m + r < 0
        BY <1>1, <2>1, <2>2 DEF m
      <3> QED  BY <1>1, <2>1, <3>1, <3>2, <3>3 DEF SameSide, m
    <2> QED  BY <1>3, <2>5, <2>6, <2>7
  <1> QED  BY <1>4, <1>5 DEF J

\* Bounds of a jammed quotient, and when it is zero.
LEMMA JamBounds ==
    ASSUME NEW v \in Nat, NEW q \in Nat \ {0}, NEW c \in Nat
    PROVE  /\ v >= (2 * c) * q <=> Jam(v, q) >= 2 * c
           /\ Jam(v, q) = 0 <=> v = 0
  <1> DEFINE m == (2 * c) * q
  <1>0. \A e \in Int : SameSide(Jam(v, q) - 2 * e, v - (2 * e) * q)
    BY JamSides
  <1>1. SameSide(Jam(v, q) - 2 * c, v - m) /\ SameSide(Jam(v, q) - 2 * 0, v - (2 * 0) * q)
    <2>1. c \in Int /\ 0 \in Int
      OBVIOUS
    <2> QED  BY <1>0, <2>1, Zenon
  <1>2. m \in Int /\ (2 * 0) * q = 0
    BY SMT
  <1>3. Jam(v, q) \in Nat
    BY JamSides
  <1> HIDE DEF m
  <1> QED  BY <1>1, <1>2, <1>3 DEF SameSide, m

\* Dividing by one loses nothing.
LEMMA JamByOne ==
    ASSUME NEW v \in Nat PROVE Jam(v, 1) = v
  <1>1. v \div 1 = v /\ v % 1 = 0
    OBVIOUS
  <1> QED  BY <1>1 DEF Jam, WithSticky

\* The shift, also by more than a word.
LEMMA ShiftRightJam ==
    ASSUME NEW v \in Nat, NEW n \in Nat, n < WordBits \/ v < Power[WordBits]
    PROVE  shift_right_jam(v, n) = Jam(v, Power[n])
  <1>1. WIDE \in Nat /\ Power[EXPBITS] \in Nat /\ Power[EXPBITS] >= 4
        /\ \A m \in 0 .. WIDE + 3 : 2^m = Power[m]
    BY FormatFacts
  <1>2. CASE n < WordBits
    <2>1. 2^n = Power[n]
      BY <1>1, <1>2 DEF WordBits
    <2> QED  BY <1>2, <2>1 DEF shift_right_jam, Jam
  <1>3. CASE n >= WordBits
    <2>1. WordBits \in Nat
      BY <1>1 DEF WordBits
    <2>2. v < Power[WordBits] /\ Power[n] \in Nat \ {0} /\ Power[WordBits] \in Nat
      BY <1>3, <2>1, PowerFacts
    <2>3. n = WordBits \/ Power[WordBits] < Power[n]
      BY <1>3, <2>1, PowerGrows
    <2>4. v < Power[n]
      BY <2>2, <2>3
    <2> DEFINE p == Power[n]
    <2>5. p \in Nat \ {0} /\ v \in 0 .. p - 1 /\ 0 \in Int
      BY <2>2, <2>4
    <2> HIDE DEF p
    <2>6. (0 * p + v) \div p = 0 /\ (0 * p + v) % p = v
      BY <2>5, DivUnique
    <2>7. 0 * p + v = v
      BY <2>5
    <2>8. v \div Power[n] = 0 /\ v % Power[n] = v
      BY <2>6, <2>7 DEF p
    <2>9. Jam(v, Power[n]) = IF v # 0 THEN 1 ELSE 0
      BY <2>8 DEF Jam, WithSticky
    <2>10. ~(n < WordBits)
      BY <1>3, <2>1
    <2> QED  BY <2>9, <2>10 DEF shift_right_jam
  <1> QED  BY <1>1, <1>2, <1>3 DEF WordBits

\* The position of the highest bit.
LEMMA MsbIs ==
    ASSUME NEW v \in Nat \ {0}, v < Power[WordBits + 1]
    PROVE  Msb(v) \in 0 .. WordBits /\ Power[Msb(v)] <= v /\ v < Power[Msb(v) + 1]
  <1>1. WIDE \in Nat /\ Power[EXPBITS] \in Nat /\ Power[EXPBITS] >= 4 /\ WordBits \in Nat
        /\ \A m \in 0 .. WIDE + 3 : 2^m = Power[m]
    BY FormatFacts DEF WordBits
  <1>2. \A k \in 0 .. WordBits : 2^k = Power[k] /\ 2^(k + 1) = Power[k + 1]
    BY <1>1 DEF WordBits
  <1> DEFINE A == {k \in Nat : v < Power[k + 1]}
  <1>3. WordBits \in A
    BY <1>1
  <1>4. PICK k \in A : \A m \in A : k <= m
    BY <1>3, Least
  <1>5. k \in 0 .. WordBits /\ v < Power[k + 1]
    BY <1>1, <1>3, <1>4
  <1>6. Power[k] <= v
    <2>1. CASE k = 0
      BY <2>1, PowerFacts
    <2>2. CASE k # 0
      <3>1. k - 1 \in Nat /\ (k - 1) + 1 = k /\ ~(k <= k - 1)
        BY <1>5, <2>2
      <3>2. ~(v < Power[k])
        BY <1>4, <3>1
      <3>3. Power[k] \in Nat
        BY <1>5, PowerFacts
      <3> QED  BY <3>2, <3>3
    <2> QED  BY <2>1, <2>2
  <1>7. \E m \in 0 .. WordBits : 2^m <= v /\ v < 2^(m + 1)
    BY <1>2, <1>5, <1>6
  <1>8. Msb(v) \in 0 .. WordBits /\ 2^Msb(v) <= v /\ v < 2^(Msb(v) + 1)
    <2> DEFINE good(m) == 2^m <= v /\ v < 2^(m + 1)
    <2>1. Msb(v) = CHOOSE m \in 0 .. WordBits : good(m)
      BY DEF Msb
    <2>2. \E m \in 0 .. WordBits : good(m)
      BY <1>7
    <2> HIDE DEF good
    <2>3. Msb(v) \in 0 .. WordBits /\ good(Msb(v))
      BY <2>1, <2>2, Zenon
    <2> QED  BY <2>3 DEF good
  <1> QED  BY <1>2, <1>8

\* It is the only position between whose powers the number lies.
LEMMA MsbUnique ==
    ASSUME NEW v \in Nat \ {0}, v < Power[WordBits + 1], NEW k \in Nat,
           Power[k] <= v, v < Power[k + 1]
    PROVE  Msb(v) = k
  <1> DEFINE m == Msb(v)
  <1>1. m \in Nat /\ Power[m] <= v /\ v < Power[m + 1]
    BY MsbIs
  <1> HIDE DEF m
  <1>2. ASSUME NEW i \in Nat, NEW j \in Nat, i < j, v < Power[i + 1], Power[j] <= v PROVE FALSE
    <2>1. i + 1 = j \/ i + 1 < j
      BY <1>2
    <2>2. i + 1 = j \/ Power[i + 1] < Power[j]
      BY <2>1, PowerGrows
    <2>3. Power[i + 1] \in Nat /\ Power[j] \in Nat
      BY PowerFacts
    <2> QED  BY <1>2, <2>2, <2>3
  <1>3. ~(m < k) /\ ~(k < m)
    BY <1>1, <1>2
  <1> QED  BY <1>1, <1>3 DEF m

-----------------------------------------------------------------------------
\* The steps of round_and_pack: the significand in its place, how far below the
\* smallest exponent that is or how far above, and the significand shifted.
Lead(S) == Msb(S) - (FRACBITS + 3)
Placed(S) == IF Lead(S) > 0 THEN Jam(S, Power[Lead(S)]) ELSE S * Power[-Lead(S)]
Tiny(e, S) == MinExponent - (e + Lead(S))
Shifted(e, S) == IF Tiny(e, S) > 0 THEN Jam(Placed(S), Power[Tiny(e, S)]) ELSE Placed(S)
Depth(e, S) == IF Tiny(e, S) > 0 THEN 0 ELSE -Tiny(e, S)
IsSignificand(S) == S \in Nat \ {0} /\ S < Power[WordBits + 1]

\* The powers just above a significand.
LEMMA PlacePowers ==
    /\ Power[FRACBITS + 3] = 8 * HiddenBit /\ Power[FRACBITS + 4] = 16 * HiddenBit
    /\ \A n \in Nat : Power[n] \in Nat \ {0}
    /\ 16 * HiddenBit <= Power[WordBits] /\ WordBits \in Nat /\ FRACBITS + 4 <= WordBits
  <1>1. FRACBITS \in Nat /\ WIDE \in Nat /\ HiddenBit = Power[FRACBITS] /\ HiddenBit \in Nat
        /\ WIDE >= 2 * FRACBITS + 6
    BY FormatFacts
  <1>2. \A n \in Nat : Power[n] \in Nat \ {0} /\ Power[n + 1] = 2 * Power[n]
    BY PowerFacts
  <1>3. /\ Power[(FRACBITS + 1)] = 2 * HiddenBit
        /\ Power[(FRACBITS + 1) + 1] = 2 * Power[FRACBITS + 1]
        /\ Power[(FRACBITS + 2) + 1] = 2 * Power[FRACBITS + 2]
        /\ Power[(FRACBITS + 3) + 1] = 2 * Power[FRACBITS + 3]
    BY <1>1, <1>2
  <1>4. (FRACBITS + 1) + 1 = FRACBITS + 2 /\ (FRACBITS + 2) + 1 = FRACBITS + 3
        /\ (FRACBITS + 3) + 1 = FRACBITS + 4
    BY <1>1
  <1>5. Power[FRACBITS + 3] = 8 * HiddenBit /\ Power[FRACBITS + 4] = 16 * HiddenBit
    BY <1>1, <1>3, <1>4
  <1>6. WordBits \in Nat /\ FRACBITS + 4 <= WordBits /\ FRACBITS + 4 \in Nat
    BY <1>1 DEF WordBits
  <1>7. FRACBITS + 4 = WordBits \/ Power[FRACBITS + 4] < Power[WordBits]
    BY <1>6, PowerGrows
  <1>8. 16 * HiddenBit <= Power[WordBits]
    BY <1>1, <1>2, <1>5, <1>6, <1>7
  <1> QED  BY <1>2, <1>5, <1>6, <1>8

\* The first shift of round_and_pack puts the highest bit three above HiddenBit's.
LEMMA PlacedRange ==
    ASSUME NEW S, IsSignificand(S)
    PROVE  /\ Lead(S) \in Int /\ Lead(S) < WordBits /\ Lead(S) >= -(FRACBITS + 3)
           /\ Placed(S) \in Nat /\ 8 * HiddenBit <= Placed(S) /\ Placed(S) < 16 * HiddenBit
  <1> DEFINE m == Msb(S)
             H == HiddenBit
             lead == Lead(S)
  <1>1. FRACBITS \in Nat /\ FRACBITS >= 3 /\ H \in Nat /\ H >= 8
    BY FormatFacts
  <1>2. m \in 0 .. WordBits /\ Power[m] <= S /\ S < Power[m + 1] /\ S \in Nat \ {0}
    BY MsbIs DEF IsSignificand
  <1>3. /\ Power[FRACBITS + 3] = 8 * H /\ Power[FRACBITS + 4] = 16 * H
        /\ \A n \in Nat : Power[n] \in Nat \ {0}
        /\ WordBits \in Nat
    BY PlacePowers
  <1>4. lead = m - (FRACBITS + 3)
    BY DEF Lead
  <1> HIDE DEF m, H, lead
  <1>5. lead \in Int /\ lead < WordBits /\ lead >= -(FRACBITS + 3)
    BY <1>1, <1>2, <1>3, <1>4
  <1>6. CASE lead > 0
    <2> DEFINE p == Power[lead]
    <2>1. lead \in Nat /\ FRACBITS + 3 \in Nat /\ FRACBITS + 4 \in Nat
          /\ lead + (FRACBITS + 3) = m /\ lead + (FRACBITS + 4) = m + 1 /\ p \in Nat \ {0}
      BY <1>1, <1>2, <1>3, <1>4, <1>5, <1>6
    <2>2. Power[m] = p * (8 * H) /\ Power[m + 1] = p * (16 * H)
      <3>1. Power[lead + (FRACBITS + 3)] = p * Power[FRACBITS + 3]
            /\ Power[lead + (FRACBITS + 4)] = p * Power[FRACBITS + 4]
        BY <2>1, PowerSum
      <3> QED  BY <1>3, <2>1, <3>1
    <2>3. Placed(S) = Jam(S, p)
      BY <1>6 DEF Placed, lead
    <2> HIDE DEF p
    <2>4. S >= (2 * (4 * H)) * p /\ ~(S >= (2 * (8 * H)) * p)
      <3>1. (2 * (4 * H)) * p = p * (8 * H) /\ (2 * (8 * H)) * p = p * (16 * H)
            /\ p * (8 * H) \in Nat /\ p * (16 * H) \in Nat
        BY <1>1, <2>1, SMT
      <3> QED  BY <1>2, <2>2, <3>1
    <2>5. 4 * H \in Nat /\ 8 * H \in Nat
      BY <1>1
    <2>6. Jam(S, p) >= 2 * (4 * H) /\ ~(Jam(S, p) >= 2 * (8 * H))
      BY <1>2, <2>1, <2>4, <2>5, JamBounds
    <2>7. Jam(S, p) \in Nat
      BY <1>2, <2>1, JamSides
    <2> QED  BY <1>1, <1>5, <2>3, <2>6, <2>7 DEF lead, H
  <1>7. CASE lead <= 0
    <2> DEFINE l == -lead
               p == Power[l]
    <2>1. l \in Nat /\ m \in Nat /\ m + 1 \in Nat /\ m + l = FRACBITS + 3
          /\ (m + 1) + l = FRACBITS + 4 /\ p \in Nat \ {0}
      BY <1>1, <1>2, <1>3, <1>4, <1>5, <1>7
    <2>2. Power[m] * p = 8 * H /\ Power[m + 1] * p = 16 * H
          /\ Power[m] \in Nat /\ Power[m + 1] \in Nat
      <3>1. l \in Nat /\ Power[m + l] = Power[m] * p /\ Power[(m + 1) + l] = Power[m + 1] * p
        <4> HIDE DEF l
        <4> QED  BY <2>1, PowerSum
      <3> QED  BY <1>3, <2>1, <3>1
    <2>3. Placed(S) = S * p
      BY <1>5, <1>7 DEF Placed, lead
    <2> HIDE DEF p, l
    <2>4. S * p \in Nat /\ S * p >= Power[m] * p /\ S * p < Power[m + 1] * p
      BY <1>2, <2>1, <2>2, SMT
    <2> QED  BY <1>5, <2>2, <2>3, <2>4 DEF lead, H
  <1> QED  BY <1>5, <1>6, <1>7

\* After the second shift the significand, less its three round bits, has a place.
LEMMA ShiftedPlace ==
    ASSUME NEW S, IsSignificand(S), NEW e \in Int
    PROVE  /\ Tiny(e, S) \in Int /\ Depth(e, S) \in Nat
           /\ Shifted(e, S) \in Nat /\ Shifted(e, S) # 0
           /\ Tiny(e, S) > 0 => Shifted(e, S) \div 8 < HiddenBit /\ Depth(e, S) = 0
           /\ Tiny(e, S) <= 0 => /\ HiddenBit <= Shifted(e, S) \div 8
                                 /\ Shifted(e, S) \div 8 < 2 * HiddenBit
                                 /\ Depth(e, S) = e + Lead(S) - MinExponent
           /\ IsPlace(Depth(e, S), Shifted(e, S) \div 8)
  <1> DEFINE H == HiddenBit
             v == Placed(S)
             n == Tiny(e, S)
             T == Shifted(e, S)
             d == Depth(e, S)
  <1>1. H \in Nat /\ H >= 8 /\ Power[EXPBITS - 1] \in Nat
        /\ MinExponent = 2 - Power[EXPBITS - 1]
    BY FormatFacts
  <1>2. Lead(S) \in Int /\ v \in Nat /\ 8 * H <= v /\ v < 16 * H
    BY PlacedRange
  <1>3. n \in Int /\ n = MinExponent - (e + Lead(S))
    BY <1>1, <1>2 DEF Tiny
  <1> HIDE DEF v, n, H
  <1>4. d = (IF n > 0 THEN 0 ELSE -n) /\ T = (IF n > 0 THEN Jam(v, Power[n]) ELSE v)
    BY DEF Depth, Shifted, n, v
  <1>5. d \in Nat
    BY <1>3, <1>4
  <1>6. CASE n > 0
    <2>1. n \in Nat /\ Power[n] \in Nat \ {0} /\ n < Power[n]
      BY <1>3, <1>6, PowerFacts, PowerGrows
    <2> DEFINE p == Power[n]
    <2>2. p \in Nat \ {0} /\ p >= 2
      BY <1>3, <1>6, <2>1
    <2> HIDE DEF p
    <2>3. (2 * (4 * H)) * p >= 16 * H
      <3>1. (8 * H) * p >= (8 * H) * 2
        BY <1>1, <2>2, SMT
      <3>2. (2 * (4 * H)) * p = (8 * H) * p /\ (8 * H) * p \in Nat
        BY <1>1, <2>2, SMT
      <3> QED  BY <1>1, <3>1, <3>2
    <2>4. (2 * (4 * H)) * p \in Nat
      BY <1>1, <2>2, SMT
    <2>5. ~(v >= (2 * (4 * H)) * p)
      BY <1>1, <1>2, <2>3, <2>4
    <2>6. 4 * H \in Nat /\ 0 \in Nat
      BY <1>1
    <2>7. ~(Jam(v, p) >= 2 * (4 * H))
      BY <1>2, <2>2, <2>5, <2>6, JamBounds
    <2>8. Jam(v, p) \in Nat
      BY <1>2, <2>2, JamSides
    <2>9. v # 0
      BY <1>1, <1>2
    <2>10. Jam(v, p) # 0
      BY <1>2, <2>2, <2>6, <2>9, JamBounds
    <2>11. T = Jam(v, p)
      BY <1>4, <1>6 DEF p
    <2> HIDE DEF T, d
    <2>12. T \in Nat /\ T < 8 * H /\ T # 0 /\ d = 0
      BY <1>1, <1>4, <1>6, <2>7, <2>8, <2>10, <2>11
    <2>13. T \div 8 < H /\ T \div 8 \in Nat
      BY <1>1, <2>12
    <2>14. IsPlace(d, T \div 8)
      BY <1>1, <2>12, <2>13 DEF IsPlace, H
    <2> QED  BY <1>3, <1>6, <2>12, <2>13, <2>14 DEF n, T, d, H
  <1>7. CASE n <= 0
    <2>1. T = v /\ d = -n
      BY <1>3, <1>4, <1>7
    <2> HIDE DEF T, d
    <2>2. T \in Nat /\ T # 0 /\ H <= T \div 8 /\ T \div 8 < 2 * H /\ T \div 8 \in Nat
      BY <1>1, <1>2, <2>1
    <2>3. IsPlace(d, T \div 8)
      BY <1>1, <1>3, <1>7, <2>1, <2>2 DEF IsPlace, H
    <2>4. d = e + Lead(S) - MinExponent /\ ~(n > 0)
      BY <1>1, <1>2, <1>3, <1>7, <2>1
    <2> QED  BY <1>3, <1>5, <1>7, <2>2, <2>3, <2>4 DEF n, T, d, H
  <1> QED  BY <1>3, <1>6, <1>7 DEF n

\* A normal significand packs below the infinity or overflows.
LEMMA PackNormal ==
    ASSUME NEW g \in Nat, NEW s \in HiddenBit .. 2 * HiddenBit - 1
    PROVE  /\ MinExponent + g > MaxExponent <=> g * HiddenBit + s >= Infinity
           /\ (MinExponent + g + Bias) * HiddenBit + (s % HiddenBit) = g * HiddenBit + s
           /\ g * HiddenBit + s \in Nat
  <1> DEFINE H == HiddenBit
             N == Power[EXPBITS]
             M == Power[EXPBITS - 1]
  <1>1. /\ H \in Nat /\ H >= 8 /\ N = 2 * M /\ M \in Nat /\ M >= 2
        /\ Infinity = (N - 1) * H /\ Infinity \in Nat
        /\ Bias = M - 1 /\ MinExponent = 2 - M /\ MaxExponent = M - 1
    BY FormatFacts
  <1> HIDE DEF N, M
  <1>2. s \in Nat /\ H <= s /\ s < 2 * H
    BY <1>1
  <1> HIDE DEF H
  <1>3. g * H \in Nat /\ N - 1 \in Nat
    BY <1>1, Products
  <1>4. s % H = s - H
    <2> DEFINE r == s - H
    <2>1. r \in 0 .. H - 1 /\ s = 1 * H + r /\ H \in Nat \ {0} /\ 1 \in Int
      BY <1>1, <1>2
    <2> HIDE DEF r
    <2>2. (1 * H + r) % H = r
      BY <2>1, DivUnique
    <2> QED  BY <2>1, <2>2 DEF r
  <1>5. MinExponent + g + Bias = g + 1 /\ (g + 1) * H = g * H + H
    BY <1>1, SMT
  <1>6. (MinExponent + g + Bias) * H + (s % H) = g * H + s
    BY <1>1, <1>2, <1>3, <1>4, <1>5
  <1>7. MinExponent + g > MaxExponent <=> g >= N - 2
    BY <1>1
  <1>8. ASSUME g >= N - 2 PROVE g * H + s >= Infinity
    <2>1. g * H >= (N - 2) * H /\ (N - 1) * H = (N - 2) * H + H /\ (N - 2) * H \in Int
      BY <1>1, <1>8, SMT
    <2> QED  BY <1>1, <1>2, <1>3, <2>1
  <1>9. ASSUME g < N - 2 PROVE g * H + s < Infinity
    <2>1. g * H <= (N - 3) * H /\ (N - 1) * H = (N - 3) * H + 2 * H /\ (N - 3) * H \in Int
      BY <1>1, <1>9, SMT
    <2> QED  BY <1>1, <1>2, <1>3, <2>1
  <1>10. N - 2 \in Int
    BY <1>1
  <1> QED  BY <1>1, <1>2, <1>3, <1>6, <1>7, <1>8, <1>9, <1>10 DEF H

\* The carry of the rounding, the overflow and the exponent field come out as in
\* the float that is the place plus the carry.
LEMMA RoundedBits ==
    ASSUME NEW T \in Nat, NEW d \in Nat, NEW up \in {0, 1}, NEW tiny \in BOOLEAN,
           tiny => d = 0 /\ T \div 8 < HiddenBit,
           ~tiny => HiddenBit <= T \div 8 /\ T \div 8 < 2 * HiddenBit
    PROVE  LET kept == T \div 8
               carried == kept + up >= 2 * HiddenBit
               rounded == IF carried THEN (kept + up) \div 2 ELSE kept + up
               power == MinExponent + d + (IF carried THEN 1 ELSE 0)
               subnormal == power = MinExponent /\ rounded < HiddenBit
               raw_exponent == IF subnormal THEN 0 ELSE power + Bias
               b == d * HiddenBit + kept + up
           IN  /\ power > MaxExponent <=> b >= Infinity
               /\ raw_exponent * HiddenBit + (rounded % HiddenBit) = b
               /\ subnormal <=> b < HiddenBit
  <1> DEFINE H == HiddenBit
             kept == T \div 8
             carried == kept + up >= 2 * H
             rounded == IF carried THEN (kept + up) \div 2 ELSE kept + up
             power == MinExponent + d + (IF carried THEN 1 ELSE 0)
             subnormal == power = MinExponent /\ rounded < H
             raw_exponent == IF subnormal THEN 0 ELSE power + Bias
             b == d * H + kept + up
  <1>1. /\ H \in Nat /\ H >= 8 /\ MinExponent \in Int /\ MaxExponent \in Int /\ Bias \in Int
        /\ MaxExponent >= MinExponent /\ Infinity \in Nat /\ Infinity > H
    <2>1. /\ H \in Nat /\ H >= 8 /\ Power[EXPBITS] = 2 * Power[EXPBITS - 1]
          /\ Power[EXPBITS - 1] \in Nat
          /\ Power[EXPBITS - 1] >= 2 /\ Infinity = (Power[EXPBITS] - 1) * H
          /\ Infinity \in Nat
          /\ Bias = Power[EXPBITS - 1] - 1
          /\ MinExponent = 2 - Power[EXPBITS - 1]
          /\ MaxExponent = Power[EXPBITS - 1] - 1
      BY FormatFacts
    <2> DEFINE n == Power[EXPBITS] - 1
    <2>2. n >= 3 /\ n \in Nat
      BY <2>1
    <2> HIDE DEF n, H
    <2>3. n * H >= 3 * H
      BY <2>1, <2>2, SMT
    <2> QED  BY <2>1, <2>3 DEF n
  <1>2. kept \in Nat
    OBVIOUS
  <1> HIDE DEF kept, H
  <1>3. d * H \in Nat
    BY <1>1, Products
  <1>4. CASE tiny
    <2>1. d = 0 /\ kept < H
      BY <1>4 DEF kept, H
    <2>2. ~carried /\ rounded = kept + up /\ power = MinExponent /\ b = kept + up
          /\ kept + up <= H
      BY <1>1, <1>2, <1>3, <2>1
    <2>3. CASE kept + up < H
      <3>1. subnormal /\ raw_exponent = 0
        BY <2>2, <2>3
      <3> DEFINE k == kept + up
      <3>2. k \in 0 .. H - 1 /\ H \in Nat \ {0} /\ 0 \in Int
        BY <1>1, <1>2, <2>3
      <3> HIDE DEF k
      <3>3. (0 * H + k) % H = k /\ 0 * H = 0 /\ 0 * H + k = k
        BY <3>2, DivUnique
      <3>4. raw_exponent * H + (rounded % H) = b
        BY <2>2, <3>1, <3>3, <3>2 DEF k
      <3> QED  BY <1>1, <1>2, <2>2, <2>3, <3>1, <3>4 DEF H, kept
    <2>4. CASE kept + up = H
      <3>1. ~subnormal /\ raw_exponent = MinExponent + 0 + Bias
        BY <1>1, <2>2, <2>4
      <3>2. H \in HiddenBit .. 2 * HiddenBit - 1 /\ 0 \in Nat
        BY <1>1 DEF H
      <3>3. (MinExponent + 0 + Bias) * HiddenBit + (H % HiddenBit) = 0 * HiddenBit + H
        BY <3>2, PackNormal
      <3>4. raw_exponent * H + (rounded % H) = b
        BY <1>1, <2>2, <2>4, <3>1, <3>3 DEF H
      <3> QED  BY <1>1, <1>2, <2>2, <2>4, <3>1, <3>4 DEF H, kept
    <2> QED  BY <1>1, <1>2, <2>2, <2>3, <2>4
  <1>5. CASE ~tiny
    <2> DEFINE g == d + (IF carried THEN 1 ELSE 0)
    <2>1. H <= kept /\ kept < 2 * H
      BY <1>5 DEF H, kept
    <2>2. g \in Nat /\ power = MinExponent + g
      BY <1>1
    <2>3. g * H + rounded = b /\ rounded \in H .. 2 * H - 1
      <3>1. CASE carried
        <4>1. kept + up = 2 * H
          BY <1>1, <1>2, <2>1, <3>1
        <4>2. rounded = H
          BY <1>1, <3>1, <4>1
        <4>3. g = d + 1 /\ (d + 1) * H = d * H + H
          BY <1>1, <3>1, SMT
        <4> QED  BY <1>1, <1>2, <1>3, <4>1, <4>2, <4>3
      <3>2. CASE ~carried
        <4>1. rounded = kept + up /\ g = d
          BY <3>2
        <4> QED  BY <1>1, <1>2, <1>3, <2>1, <3>2, <4>1
      <3> QED  BY <3>1, <3>2
    <2> HIDE DEF rounded, g
    <2>4. ~subnormal
      BY <1>1, <2>3
    <2>5. /\ MinExponent + g > MaxExponent <=> g * HiddenBit + rounded >= Infinity
          /\ (MinExponent + g + Bias) * HiddenBit + (rounded % HiddenBit) = g * HiddenBit + rounded
      BY <2>2, <2>3, PackNormal DEF H
    <2>6. b >= H
      BY <1>1, <1>2, <1>3, <2>1
    <2>7. raw_exponent = MinExponent + g + Bias
      BY <1>1, <2>2, <2>4
    <2>8. raw_exponent * H + (rounded % H) = b
      BY <2>3, <2>5, <2>7 DEF H
    <2>9. power > MaxExponent <=> b >= Infinity
      BY <2>2, <2>3, <2>5 DEF H
    <2>10. subnormal <=> b < H
      BY <1>1, <1>2, <1>3, <2>4, <2>6
    <2> QED  BY <2>8, <2>9, <2>10 DEF rounded, H, kept
  <1> QED  BY <1>4, <1>5

\* round_and_pack packs the shifted significand.
LEMMA RoundAndPackIs ==
    ASSUME NEW S, IsSignificand(S), NEW e \in Int, NEW rm \in RoundingModes, NEW negative
    PROVE  round_and_pack(negative, e, S, rm)
              = Packed(negative, Depth(e, S), Shifted(e, S), rm)
  <1> DEFINE lead == Msb(S) - (FRACBITS + 3)
             placed == IF lead > 0 THEN shift_right_jam(S, lead) ELSE S * 2^(-lead)
             tiny == MinExponent - (e + lead)
             shifted == IF tiny > 0 THEN shift_right_jam(placed, tiny) ELSE placed
             round_bits == shifted % 8
             kept == shifted \div 8
             up == IF should_round_up(rm, negative, kept, round_bits) THEN 1 ELSE 0
             carried == kept + up >= 2 * HiddenBit
             rounded == IF carried THEN (kept + up) \div 2 ELSE kept + up
             power == (IF tiny > 0 THEN MinExponent ELSE e + lead) + (IF carried THEN 1 ELSE 0)
             subnormal == power = MinExponent /\ rounded < HiddenBit
             raw_exponent == IF subnormal THEN 0 ELSE power + Bias
             flags == IF round_bits = 0 THEN {} ELSE IF subnormal THEN {NX, UF} ELSE {NX}
             T == Shifted(e, S)
             d == Depth(e, S)
             b == d * HiddenBit + kept + up
  <1>1. S \in Nat /\ S # 0 /\ S \in Nat \ {0}
    BY DEF IsSignificand
  <1>2. round_and_pack(negative, e, S, rm)
           = IF power > MaxExponent THEN Overflow(negative, rm)
             ELSE Result(Signed(negative, raw_exponent * HiddenBit + (rounded % HiddenBit)), flags)
    BY <1>1, Zenon DEF round_and_pack
  <1>3. lead = Lead(S) /\ lead \in Int /\ lead < WordBits /\ lead >= -(FRACBITS + 3)
    BY PlacedRange DEF Lead
  <1>4. FRACBITS \in Nat /\ WIDE \in Nat /\ Power[EXPBITS] \in Nat /\ WIDE >= 2 * FRACBITS + 6
        /\ \A n \in 0 .. WIDE + 3 : 2^n = Power[n]
        /\ MinExponent \in Int
    BY FormatFacts
  <1> HIDE DEF lead
  <1>5. placed = Placed(S)
    <2>1. CASE lead > 0
      <3>1. lead \in Nat
        BY <1>3, <2>1
      <3>2. shift_right_jam(S, lead) = Jam(S, Power[lead])
        BY <1>1, <1>3, <3>1, ShiftRightJam
      <3> QED  BY <1>3, <2>1, <3>2 DEF Placed
    <2>2. CASE ~(lead > 0)
      <3>1. -lead \in 0 .. WIDE + 3
        BY <1>3, <1>4, <2>2
      <3>2. 2^(-lead) = Power[-lead]
        BY <1>4, <3>1
      <3> QED  BY <1>3, <2>2, <3>2 DEF Placed
    <2> QED  BY <2>1, <2>2
  <1> HIDE DEF placed
  <1>6. tiny = Tiny(e, S)
    BY <1>3 DEF Tiny
  <1>7. placed \in Nat /\ placed < Power[WordBits]
    <2>1. placed \in Nat /\ placed < 16 * HiddenBit
      BY <1>5, PlacedRange
    <2>2. 16 * HiddenBit <= Power[WordBits] /\ Power[WordBits] \in Nat /\ HiddenBit \in Nat
      BY PlacePowers, FormatFacts
    <2> QED  BY <2>1, <2>2
  <1>8. tiny \in Int /\ (tiny <= 0 => e + lead = MinExponent + d)
    <2>1. tiny \in Int
      BY <1>6, ShiftedPlace
    <2>2. tiny <= 0 => d = -tiny
      BY <1>6, <2>1 DEF Depth
    <2> HIDE DEF d
    <2> QED  BY <1>3, <1>4, <2>1, <2>2
  <1> HIDE DEF tiny
  <1>9. shifted = T
    <2>1. CASE tiny > 0
      <3>1. tiny \in Nat
        BY <1>8, <2>1
      <3>2. shift_right_jam(placed, tiny) = Jam(placed, Power[tiny])
        BY <1>7, <3>1, ShiftRightJam
      <3> QED  BY <1>5, <1>6, <2>1, <3>2 DEF Shifted
    <2>2. CASE ~(tiny > 0)
      BY <1>5, <1>6, <2>2 DEF Shifted
    <2> QED  BY <2>1, <2>2
  <1>10. /\ T \in Nat /\ d \in Nat /\ tiny \in Int
         /\ tiny > 0 => T \div 8 < HiddenBit /\ d = 0
         /\ ~(tiny > 0) => HiddenBit <= T \div 8 /\ T \div 8 < 2 * HiddenBit
    <2>1. tiny \in Int
      BY <1>6, ShiftedPlace
    <2> QED  BY <1>6, <2>1, ShiftedPlace
  <1> HIDE DEF shifted, T, d
  <1>11. power = MinExponent + d + (IF carried THEN 1 ELSE 0)
    BY <1>4, <1>8, <1>10
  <1>12. up \in {0, 1}
    OBVIOUS
  <1> DEFINE p2 == MinExponent + d + (IF carried THEN 1 ELSE 0)
             small == p2 = MinExponent /\ rounded < HiddenBit
             raw2 == IF small THEN 0 ELSE p2 + Bias
  <1>13. kept = T \div 8 /\ round_bits = T % 8
    BY <1>9
  <1> HIDE DEF up
  <1>14. /\ p2 > MaxExponent <=> b >= Infinity
         /\ raw2 * HiddenBit + (rounded % HiddenBit) = b
         /\ small <=> b < HiddenBit
    <2> DEFINE low == tiny > 0
    <2>1. low \in BOOLEAN /\ (low => d = 0 /\ T \div 8 < HiddenBit)
          /\ (~low => HiddenBit <= T \div 8 /\ T \div 8 < 2 * HiddenBit)
      BY <1>10
    <2> HIDE DEF low
    <2> QED  BY <1>9, <1>10, <1>12, <2>1, RoundedBits
  <1>15. subnormal <=> small
    BY <1>11
  <1>16. raw_exponent = raw2
    BY <1>11
  <1>17. flags = IF T % 8 = 0 THEN {} ELSE IF b < HiddenBit THEN {NX, UF} ELSE {NX}
    BY <1>13, <1>14, <1>15
  <1>18. Packed(negative, d, T, rm)
            = IF b >= Infinity THEN Overflow(negative, rm)
              ELSE Result(Signed(negative, b),
                    IF T % 8 = 0 THEN {} ELSE IF b < HiddenBit THEN {NX, UF} ELSE {NX})
    BY <1>13 DEF Packed, up
  <1> HIDE DEF flags, subnormal, raw_exponent, b, power, rounded, carried
  <1>19. round_and_pack(negative, e, S, rm) = Packed(negative, d, T, rm)
    <2>1. raw_exponent * HiddenBit + (rounded % HiddenBit) = b
      BY <1>14, <1>16
    <2>2. power > MaxExponent <=> b >= Infinity
      BY <1>11, <1>14
    <2>3. CASE b >= Infinity
      BY <1>2, <1>18, <2>2, <2>3
    <2>4. CASE ~(b >= Infinity)
      BY <1>2, <1>17, <1>18, <2>1, <2>2, <2>4
    <2> QED  BY <2>3, <2>4
  <1> QED  BY <1>19 DEF d, T

-----------------------------------------------------------------------------
\* What is given to round_and_pack: S * 2^(e - MinExponent - 2) is twice the value
\* in smallest subnormals, exactly, or but for a last bit that tells of more.
IsExactly(S, e, exact) ==
    \A h, m, n \in Nat : n - m = e - MinExponent - 2 =>
        SameSide(exact[h], S * Power[n] - h * Power[m])
Jams(S, e, exact) ==
    \A h, c, m, n \in Nat : n - m = e - MinExponent - 2 /\ h * Power[m] = (2 * c) * Power[n] =>
        SameSide(exact[h], S - 2 * c)

\* Positive factors keep the side.
LEMMA SideScaled ==
    ASSUME NEW p \in Int, NEW q \in Nat \ {0}
    PROVE  SameSide(p, p * q)
  <1>1. /\ p > 0 => p * q > 0
        /\ p < 0 => p * q < 0
        /\ p = 0 => p * q = 0
        /\ p * q \in Int
    BY SMT
  <1> QED  BY <1>1 DEF SameSide

\* Sides compose.
LEMMA SideTransitive ==
    ASSUME NEW p, NEW q, NEW r, SameSide(p, q), SameSide(q, r)
    PROVE  SameSide(p, r)
  BY DEF SameSide

\* An exact significand jams.
LEMMA ExactJams ==
    ASSUME NEW S \in Nat, NEW e, NEW exact, IsExactly(S, e, exact)
    PROVE  Jams(S, e, exact)
  <1> SUFFICES ASSUME NEW h \in Nat, NEW c \in Nat, NEW m \in Nat, NEW n \in Nat,
                      n - m = e - MinExponent - 2, h * Power[m] = (2 * c) * Power[n]
               PROVE  SameSide(exact[h], S - 2 * c)
    BY DEF Jams
  <1>1. SameSide(exact[h], S * Power[n] - h * Power[m])
    BY DEF IsExactly
  <1> DEFINE p == Power[n]
  <1>2. p \in Nat \ {0}
    BY PowerFacts
  <1>3. S * Power[n] - h * Power[m] = S * p - (2 * c) * p
    OBVIOUS
  <1> HIDE DEF p
  <1>4. S * p - (2 * c) * p = (S - 2 * c) * p /\ S - 2 * c \in Int
    BY <1>2, SMT
  <1>5. SameSide(S - 2 * c, (S - 2 * c) * p)
    BY <1>2, <1>4, SideScaled
  <1> QED  BY <1>1, <1>3, <1>4, <1>5 DEF SameSide

\* Shifting as round_and_pack does keeps track of the value.
LEMMA Tracking ==
    ASSUME NEW S, IsSignificand(S), NEW e \in Int, NEW exact,
           (Jams(S, e, exact) /\ S >= 4 * HiddenBit) \/ IsExactly(S, e, exact)
    PROVE  Tracks(Shifted(e, S), Depth(e, S), exact)
  <1> SUFFICES ASSUME NEW j \in Nat
               PROVE  SameSide(exact[j * Power[Depth(e, S)]], Shifted(e, S) - 4 * j)
    BY DEF Tracks
  <1> DEFINE T == Shifted(e, S)
             d == Depth(e, S)
             v == Placed(S)
             lead == Lead(S)
             t == IF Tiny(e, S) > 0 THEN Tiny(e, S) ELSE 0
             w == e - MinExponent - 2
             n == IF w > 0 THEN w ELSE 0
             m == IF w > 0 THEN 0 ELSE -w
             h == j * Power[d]
  <1>1. MinExponent \in Int /\ HiddenBit \in Nat /\ HiddenBit >= 8 /\ FRACBITS \in Nat
    BY FormatFacts
  <1>2. lead \in Int /\ v \in Nat /\ S \in Nat \ {0}
    BY PlacedRange DEF IsSignificand
  <1>3. Tiny(e, S) = MinExponent - (e + lead) /\ Tiny(e, S) \in Int
    BY <1>1, <1>2 DEF Tiny
  <1>4. d \in Nat /\ t \in Nat /\ d - t = e + lead - MinExponent
    BY <1>1, <1>2, <1>3 DEF Depth
  <1>5. T = Jam(v, Power[t])
    <2>1. Power[0] = 1
      BY PowerFacts
    <2>2. Jam(v, 1) = v
      BY <1>2, JamByOne
    <2> QED  BY <2>1, <2>2 DEF Shifted
  <1> HIDE DEF T, d, v, lead, t
  <1>6. w \in Int /\ n \in Nat /\ m \in Nat /\ n - m = w
    BY <1>1
  <1>7. d + m = t + lead + n + 2
    BY <1>1, <1>2, <1>4, <1>6
  <1>8. n - m = e - MinExponent - 2
    BY <1>6
  <1> HIDE DEF n, m, w
  <1>9. \A k \in Nat : Power[k] \in Nat \ {0}
    BY PowerFacts
  <1> DEFINE p == Power[t]
             q == Power[n]
  <1>10. p \in Nat \ {0} /\ q \in Nat \ {0} /\ Power[d] \in Nat /\ h \in Nat
    BY <1>4, <1>6, <1>9, Products
  <1>11. Power[1] = 2 /\ Power[2] = 4
    <2>1. Power[0 + 1] = 2 * Power[0] /\ Power[0] = 1 /\ Power[1 + 1] = 2 * Power[1]
      BY PowerFacts
    <2> QED  BY <2>1
  <1>12. h * Power[m] = j * Power[d + m] /\ Power[d + m] \in Nat
    <2>0. Power[d + m] = Power[d] * Power[m]
      BY <1>4, <1>6, PowerSum
    <2>1. Power[d + m] = Power[d] * Power[m] /\ Power[m] \in Nat /\ Power[d + m] \in Nat
      BY <1>4, <1>6, <1>9, <2>0
    <2>2. (j * Power[d]) * Power[m] = j * (Power[d] * Power[m])
      BY <1>10, <2>1, SMT
    <2> QED  BY <2>1, <2>2
  <1>13. SameSide(T - 4 * j, v - (4 * j) * p)
    <2>1. \A c \in Int : SameSide(T - 2 * c, v - (2 * c) * p)
      BY <1>2, <1>5, <1>10, JamSides
    <2>2. 2 * j \in Int /\ 2 * (2 * j) = 4 * j
      OBVIOUS
    <2>3. SameSide(T - 2 * (2 * j), v - (2 * (2 * j)) * p)
      BY <2>1, <2>2, Zenon
    <2> QED  BY <2>2, <2>3
  <1>14. Jams(S, e, exact)
    BY <1>2, ExactJams
  <1>15. \A c \in Nat : h * Power[m] = (2 * c) * Power[n] => SameSide(exact[h], S - 2 * c)
    BY <1>6, <1>8, <1>10, <1>14 DEF Jams
  <1> HIDE DEF h, p, q
  <1>16. CASE lead >= 0
    <2> DEFINE r == Power[lead]
               g == (2 * j) * p
               c == g * r
    <2>1. lead \in Nat /\ r \in Nat \ {0}
      BY <1>2, <1>9, <1>16
    <2>2. v = Jam(S, r)
      <3>1. lead = 0 => r = 1
        BY PowerFacts
      <3>2. lead = 0 => v = S * Power[-0]
        BY <1>2, <1>16 DEF Placed, v, lead
      <3>3. Power[-0] = 1
        BY PowerFacts
      <3>4. Jam(S, 1) = S /\ S * 1 = S
        BY <1>2, JamByOne
      <3>5. lead > 0 => v = Jam(S, r)
        BY DEF Placed, v, lead
      <3> QED  BY <2>1, <3>1, <3>2, <3>3, <3>4, <3>5
    <2> HIDE DEF r
    <2>3. g \in Nat
      BY <1>10, SMT
    <2>4. (4 * j) * p = 2 * g
      BY <1>10, SMT
    <2> HIDE DEF g
    <2>5. SameSide(v - 2 * g, S - (2 * g) * r)
      <3>1. g \in Int
        BY <2>3
      <3> QED  BY <1>2, <2>1, <2>2, <3>1, JamSides
    <2>6. c \in Nat /\ (2 * g) * r = 2 * c
      BY <2>1, <2>3, SMT
    <2>7. h * Power[m] = (2 * c) * q
      <3>1. Power[d + m] = ((p * r) * q) * 4
        <4>1. Power[((t + lead) + n) + 2] = Power[(t + lead) + n] * Power[2]
              /\ Power[(t + lead) + n] = Power[t + lead] * q
              /\ Power[t + lead] = p * r
          <5>1. t + lead \in Nat /\ (t + lead) + n \in Nat /\ 2 \in Nat
            BY <1>4, <1>6, <2>1
          <5>2. Power[t + lead] = Power[t] * Power[lead]
            BY <1>4, <2>1, PowerSum
          <5>3. Power[(t + lead) + n] = Power[t + lead] * Power[n]
            BY <1>6, <5>1, PowerSum
          <5>4. Power[((t + lead) + n) + 2] = Power[(t + lead) + n] * Power[2]
            BY <5>1, PowerSum
          <5> QED  BY <5>2, <5>3, <5>4 DEF p, q, r
        <4> QED  BY <1>4, <1>6, <1>7, <1>11, <2>1, <4>1
      <3>2. j * (((p * r) * q) * 4) = (2 * (((2 * j) * p) * r)) * q
        BY <1>10, <2>1, SMT
      <3> QED  BY <1>12, <3>1, <3>2 DEF g
    <2> HIDE DEF c
    <2>8. SameSide(exact[h], S - 2 * c)
      BY <1>15, <2>6, <2>7 DEF q
    <2> QED  BY <1>13, <2>4, <2>5, <2>6, <2>8 DEF SameSide, h, d, T
  <1>17. CASE lead < 0
    <2> DEFINE l == -lead
               r == Power[l]
    <2>1. l \in Nat /\ r \in Nat \ {0} /\ d + m + l = t + n + 2
      BY <1>2, <1>4, <1>6, <1>7, <1>9, <1>17
    <2>2. v = S * r
      BY <1>2, <1>17 DEF Placed, v, lead
    <2> HIDE DEF l, r
    <2>3. CASE IsExactly(S, e, exact)
      <3>1. SameSide(exact[h], S * q - h * Power[m])
        BY <1>6, <1>8, <1>10, <2>3 DEF IsExactly, q
      <3> DEFINE k == h * Power[m]
                 f == Power[d + m]
      <3>2. f * r = ((p * q) * 4)
        <4>1. Power[(d + m) + l] = f * r
          <5>1. d + m \in Nat
            BY <1>4, <1>6
          <5> QED  BY <2>1, <5>1, PowerSum DEF r
        <4>2. Power[(t + n) + 2] = Power[t + n] * Power[2] /\ Power[t + n] = p * q
          <5>1. t + n \in Nat /\ 2 \in Nat
            BY <1>4, <1>6
          <5>2. Power[(t + n) + 2] = Power[t + n] * Power[2]
            BY <5>1, PowerSum
          <5>3. Power[t + n] = Power[t] * Power[n]
            BY <1>4, <1>6, PowerSum
          <5> QED  BY <5>2, <5>3 DEF p, q
        <4> QED  BY <1>4, <1>6, <1>11, <2>1, <4>1, <4>2
      <3>3. k = j * f /\ f \in Nat
        BY <1>12
      <3> HIDE DEF k, f
      <3>4. (S * q - k) * r = (v - (4 * j) * p) * q
        <4>1. (S * q - j * f) * r = (S * r) * q - j * (f * r)
          BY <1>2, <1>10, <2>1, <3>3, SMT
        <4>2. j * ((p * q) * 4) = ((4 * j) * p) * q
          BY <1>10, SMT
        <4>3. ((S * r) - (4 * j) * p) * q = (S * r) * q - ((4 * j) * p) * q
          BY <1>2, <1>10, <2>1, SMT
        <4> QED  BY <2>2, <3>2, <3>3, <4>1, <4>2, <4>3
      <3>5. S * q - k \in Int /\ v - (4 * j) * p \in Int
        BY <1>2, <1>10, <3>3, SMT
      <3>6. SameSide(S * q - k, (S * q - k) * r)
            /\ SameSide(v - (4 * j) * p, (v - (4 * j) * p) * q)
        BY <1>10, <2>1, <3>5, SideScaled
      <3> QED  BY <1>13, <3>1, <3>4, <3>6 DEF SameSide, h, d, T, k
    <2>4. CASE S >= 4 * HiddenBit
      <3>1. l = 1
        <4> SUFFICES ASSUME lead <= -2 PROVE FALSE
          BY <1>2, <1>17 DEF l
        <4>1. Msb(S) + 1 = lead + (FRACBITS + 4) /\ S < Power[Msb(S) + 1]
              /\ Msb(S) \in Nat
          BY <1>1, <1>2, MsbIs DEF IsSignificand, lead, Lead
        <4>2. Msb(S) + 1 <= FRACBITS + 2 /\ FRACBITS + 2 \in Nat
          BY <1>1, <1>2, <4>1
        <4>3. Msb(S) + 1 = FRACBITS + 2 \/ Power[Msb(S) + 1] < Power[FRACBITS + 2]
          BY <1>1, <4>1, <4>2, PowerGrows
        <4>4. Power[FRACBITS + 3] = 2 * Power[FRACBITS + 2]
          <5>1. Power[(FRACBITS + 2) + 1] = 2 * Power[FRACBITS + 2]
            BY <4>2, PowerFacts
          <5>2. (FRACBITS + 2) + 1 = FRACBITS + 3
            BY <1>1
          <5> QED  BY <5>1, <5>2
        <4>5. Power[FRACBITS + 3] = 8 * HiddenBit
          BY PlacePowers
        <4>6. Power[FRACBITS + 2] \in Nat /\ Power[Msb(S) + 1] \in Nat
          BY <1>9, <4>1, <4>2
        <4> QED  BY <1>1, <1>2, <2>4, <4>1, <4>3, <4>4, <4>5, <4>6
      <3>2. r = 2
        BY <1>11, <3>1 DEF r
      <3> DEFINE c == j * p
      <3>3. c \in Nat /\ (4 * j) * p = 4 * c
        BY <1>10, SMT
      <3>4. h * Power[m] = (2 * c) * q
        <4>1. d + m = (t + n) + 1
          BY <1>4, <1>6, <1>7, <2>1, <3>1
        <4>2. Power[(t + n) + 1] = Power[t + n] * Power[1] /\ Power[t + n] = p * q
          <5>1. t + n \in Nat /\ 1 \in Nat
            BY <1>4, <1>6
          <5>2. Power[(t + n) + 1] = Power[t + n] * Power[1]
            BY <5>1, PowerSum
          <5>3. Power[t + n] = Power[t] * Power[n]
            BY <1>4, <1>6, PowerSum
          <5> QED  BY <5>2, <5>3 DEF p, q
        <4>3. j * ((p * q) * 2) = (2 * (j * p)) * q
          BY <1>10, SMT
        <4> QED  BY <1>11, <1>12, <4>1, <4>2, <4>3
      <3> HIDE DEF c
      <3>5. SameSide(exact[h], S - 2 * c)
        BY <1>15, <3>3, <3>4 DEF q
      <3>6. v - (4 * j) * p = 2 * (S - 2 * c)
        BY <1>2, <2>2, <3>2, <3>3
      <3>7. SameSide(S - 2 * c, 2 * (S - 2 * c))
        BY <1>2, <3>3 DEF SameSide
      <3> QED  BY <1>13, <3>5, <3>6, <3>7 DEF SameSide, h, d, T
    <2> QED  BY <2>3, <2>4
  <1> QED  BY <1>2, <1>16, <1>17

\* round_and_pack returns the correctly rounded value whenever its significand
\* is exact, or jammed and long enough.
LEMMA CorrectlyRounded ==
    ASSUME NEW S, IsSignificand(S), NEW e \in Int, NEW rm \in RoundingModes,
           NEW negative \in BOOLEAN, NEW exact, NEW excess, IsOrder(exact),
           (Jams(S, e, exact) /\ S >= 4 * HiddenBit) \/ IsExactly(S, e, exact),
           \A h \in 0 .. 2 * Grid[Infinity] : excess[h] \in Int /\ SameSide(excess[h], exact[h])
    PROVE  LET r == Rounded(Grid, 0, Infinity, excess, negative)[rm]
           IN  round_and_pack(negative, e, S, rm) = Packs(negative, r)
  <1> DEFINE T == Shifted(e, S)
             d == Depth(e, S)
  <1>1. Tracks(T, d, exact)
    BY Tracking
  <1>2. T \in Nat /\ IsPlace(d, T \div 8)
    BY ShiftedPlace
  <1>3. round_and_pack(negative, e, S, rm) = Packed(negative, d, T, rm)
    BY RoundAndPackIs
  <1> HIDE DEF T, d
  <1> QED  BY <1>1, <1>2, <1>3, PackedIsChosen

-----------------------------------------------------------------------------
\* The parts of a float.
LEMMA RawParts ==
    ASSUME NEW raw \in Floats
    PROVE  LET m == MagnitudeOf(raw)
           IN  /\ m \in Nat /\ m < Sign /\ IsNegative(raw) \in BOOLEAN
               /\ raw = (IF IsNegative(raw) THEN Sign + m ELSE m)
               /\ raw = Signed(IsNegative(raw), m)
               /\ raw % HiddenBit = m % HiddenBit
               /\ m = HiddenBit * (m \div HiddenBit) + (m % HiddenBit)
               /\ m % HiddenBit \in 0 .. HiddenBit - 1
               /\ m \div HiddenBit \in 0 .. Power[EXPBITS] - 1
  <1> DEFINE H == HiddenBit
             N == Power[EXPBITS]
             m == MagnitudeOf(raw)
             i == raw \div Sign
             k == m \div H
             r == m % H
  <1>1. H \in Nat /\ H >= 8 /\ H \in Nat \ {0} /\ N \in Nat /\ N >= 4 /\ Sign = N * H /\ Sign \in Nat
    BY FormatFacts
  <1>2. Sign \in Nat \ {0} /\ raw \in Nat /\ raw < 2 * Sign
    <2> HIDE DEF H, N
    <2>1. Sign # 0
      BY <1>1, SMT
    <2> QED  BY <1>1, <2>1 DEF Floats
  <1>3. raw = Sign * i + m /\ m \in 0 .. Sign - 1 /\ i \in Nat
    BY <1>2, DivModNat DEF MagnitudeOf
  <1> HIDE DEF m, i, H, N
  <1>4. i = 0 \/ i = 1
    <2>1. i >= 2 => Sign * i >= Sign * 2
      BY <1>2, <1>3, SMT
    <2>2. Sign * i \in Nat
      BY <1>2, <1>3, SMT
    <2> QED  BY <1>2, <1>3, <2>1, <2>2
  <1>5. raw = (IF IsNegative(raw) THEN Sign + m ELSE m) /\ IsNegative(raw) \in BOOLEAN
    BY <1>2, <1>3, <1>4 DEF IsNegative
  <1>6. m = H * k + r /\ r \in 0 .. H - 1 /\ k \in Nat
    <2>1. m \in Nat
      BY <1>2, <1>3
    <2> QED  BY <1>1, <2>1, DivModNat
  <1>7. k <= N - 1
    <2> HIDE DEF k, r
    <2> SUFFICES ASSUME k >= N PROVE FALSE
      BY <1>1, <1>6
    <2>1. H * k >= N * H /\ H * k \in Nat
      BY <1>1, <1>6, SMT
    <2> QED  BY <1>1, <1>3, <1>6, <2>1
  <1>8. raw % H = r
    <2>1. m % H = r
      OBVIOUS
    <2>2. CASE raw = m
      BY <2>1, <2>2
    <2>3. CASE raw = Sign + m
      <3>1. raw = m + N * H /\ m \in Int /\ N \in Int
        BY <1>1, <1>3, <2>3
      <3>2. (m + N * H) % H = m % H
        BY <1>1, <3>1, Shift
      <3> QED  BY <2>1, <3>1, <3>2
    <2> QED  BY <1>5, <2>2, <2>3
  <1>9. raw = Signed(IsNegative(raw), m)
    BY <1>5 DEF Signed
  <1>10. m \in Nat /\ m < Sign
    BY <1>2, <1>3
  <1>11. k \in 0 .. N - 1
    <2> HIDE DEF k
    <2> QED  BY <1>1, <1>6, <1>7
  <1> QED  BY <1>5, <1>6, <1>8, <1>9, <1>10, <1>11, Zenon DEF m, H, N

\* Which class each magnitude is of, and what the numbers among them are.
IsNumber(u, mag) ==
    /\ u.class \in {"Normal", "Subnormal"}
    /\ u.significand \in HiddenBit .. 2 * HiddenBit - 1
    /\ u.exponent \in Int /\ u.exponent >= MinExponent - FRACBITS
    /\ u.exponent <= MaxExponent
    /\ Grid[mag] * Power[FRACBITS]
          = u.significand * Power[u.exponent - MinExponent + FRACBITS]

\* A float unpacked to a normalized subnormal, and to a normal one.
IsLifted(u, mag) ==
    \E lift \in 0 .. FRACBITS :
        /\ u.class = "Subnormal" /\ u.exponent = MinExponent - lift
        /\ u.significand = mag * Power[lift] /\ mag < HiddenBit
IsPlain(u, mag) ==
    /\ u.class = "Normal" /\ u.exponent = mag \div HiddenBit - Bias
    /\ u.significand = HiddenBit + (mag % HiddenBit)

\* A subnormal is unpacked to a normalized significand of the same value.
LEMMA UnpackSubnormal ==
    ASSUME NEW raw \in Floats, MagnitudeOf(raw) # 0, MagnitudeOf(raw) < HiddenBit
    PROVE  /\ IsNumber(Unpack(raw), MagnitudeOf(raw)) /\ Unpack(raw).sign = IsNegative(raw)
           /\ IsLifted(Unpack(raw), MagnitudeOf(raw))
  <1> DEFINE H == HiddenBit
             m == MagnitudeOf(raw)
             k == Msb(m)
             lift == FRACBITS - k
             s == m * 2^lift
             e == MinExponent - lift
  <1>1. H \in Nat /\ H >= 8 /\ H \in Nat \ {0} /\ Power[EXPBITS] \in Nat /\ Power[EXPBITS] >= 4
        /\ FRACBITS \in Nat /\ WIDE \in Nat /\ WIDE >= 2 * FRACBITS + 6
        /\ H = Power[FRACBITS] /\ MinExponent \in Int /\ MaxExponent \in Int
        /\ MinExponent <= MaxExponent /\ Infinity \in Nat
        /\ 2^EXPBITS = Power[EXPBITS]
        /\ \A n \in 0 .. WIDE + 3 : 2^n = Power[n]
    BY FormatFacts
  <1>2. m \in Nat \ {0} /\ m < H /\ m \div H = 0 /\ raw % H = m
    <2>1. m \in Nat /\ raw % H = m % H
      BY RawParts
    <2>2. m \in 0 .. H - 1 /\ 0 \in Int
      BY <1>1, <2>1
    <2> HIDE DEF m, H
    <2>3. (0 * H + m) \div H = 0 /\ (0 * H + m) % H = m /\ 0 * H + m = m
      <3>1. (0 * H + m) \div H = 0 /\ (0 * H + m) % H = m
        BY <1>1, <2>2, DivUnique
      <3>2. 0 * H + m = m
        BY <1>1, <2>1
      <3> QED  BY <3>1, <3>2
    <2> QED  BY <2>1, <2>2, <2>3 DEF m, H
  <1> HIDE DEF m, H
  <1>3. \A n \in Nat : Power[n] \in Nat \ {0}
    BY PowerFacts
  <1>4. m < Power[WordBits + 1]
    <2>1. FRACBITS < WordBits + 1 /\ WordBits + 1 \in Nat
      BY <1>1 DEF WordBits
    <2>2. Power[FRACBITS] < Power[WordBits + 1]
      BY <1>1, <2>1, PowerGrows
    <2> QED  BY <1>1, <1>2, <1>3, <2>1, <2>2
  <1>5. k \in Nat /\ Power[k] <= m /\ m < Power[k + 1]
    BY <1>2, <1>4, MsbIs
  <1> HIDE DEF k
  <1>6. k < FRACBITS
    <2> SUFFICES ASSUME ~(k < FRACBITS) PROVE FALSE
      OBVIOUS
    <2>1. k = FRACBITS \/ Power[FRACBITS] < Power[k]
      BY <1>1, <1>5, PowerGrows
    <2>2. Power[k] \in Nat
      BY <1>3, <1>5
    <2> QED  BY <1>1, <1>2, <1>5, <2>1, <2>2
  <1>7. lift \in Nat /\ lift <= FRACBITS /\ lift >= 1 /\ 2^lift = Power[lift]
        /\ k + lift = FRACBITS /\ (k + 1) + lift = FRACBITS + 1
    BY <1>1, <1>5, <1>6
  <1> DEFINE p == Power[lift]
  <1>8. p \in Nat \ {0} /\ s = m * p
    BY <1>3, <1>7
  <1> HIDE DEF lift, s, p
  <1>9. Power[k] * p = H /\ Power[k + 1] * p = 2 * H /\ Power[k] \in Nat /\ Power[k + 1] \in Nat
    <2>1. Power[k + lift] = Power[k] * p
      BY <1>5, <1>7, PowerSum DEF p
    <2>2. k + 1 \in Nat
      BY <1>5
    <2>3. Power[(k + 1) + lift] = Power[k + 1] * p
      BY <1>7, <2>2, PowerSum DEF p
    <2>4. Power[FRACBITS + 1] = 2 * Power[FRACBITS]
      BY <1>1, PowerFacts
    <2> QED  BY <1>1, <1>3, <1>5, <1>7, <2>1, <2>2, <2>3, <2>4
  <1>10. s \in H .. 2 * H - 1
    <2>1. m * p >= Power[k] * p /\ m * p < Power[k + 1] * p /\ m * p \in Nat
      BY <1>2, <1>5, <1>8, <1>9, SMT
    <2> QED  BY <1>1, <1>8, <1>9, <2>1
  <1>11. Unpack(raw) = [sign |-> IsNegative(raw), exponent |-> e, significand |-> s,
                        class |-> "Subnormal"]
    <2>1. 2^EXPBITS - 1 # 0
      BY <1>1
    <2>2. MagnitudeOf(raw) \div HiddenBit = 0 /\ raw % HiddenBit = m /\ m # 0
      BY <1>2 DEF m, H
    <2> QED  BY <2>1, <2>2 DEF Unpack, s, k, lift
  <1>12. Grid[m] = m
    <2>1. H <= Infinity
      <3>1. Infinity = (Power[EXPBITS] - 1) * H
        BY FormatFacts DEF H
      <3> DEFINE i == Power[EXPBITS] - 1
      <3>2. i \in Nat /\ i >= 1
        BY <1>1
      <3> HIDE DEF i
      <3>3. i * H >= 1 * H
        BY <1>1, <3>2, SMT
      <3> QED  BY <1>1, <3>1, <3>3 DEF i
    <2>2. m \in 0 .. Infinity
      BY <1>1, <1>2, <2>1
    <2> QED  BY <1>2, <2>2 DEF Grid, H
  <1>13. Grid[m] * Power[FRACBITS] = s * Power[e - MinExponent + FRACBITS]
    <2>1. e - MinExponent + FRACBITS = k
      BY <1>1, <1>5, <1>7
    <2>2. m * (Power[k] * p) = (m * p) * Power[k]
      BY <1>2, <1>8, <1>9, SMT
    <2> QED  BY <1>1, <1>8, <1>9, <1>12, <2>1, <2>2
  <1>14. e \in Int /\ e >= MinExponent - FRACBITS /\ e <= MaxExponent
    BY <1>1, <1>7
  <1>15. IsLifted(Unpack(raw), m)
    <2>1. lift \in 0 .. FRACBITS
      BY <1>1, <1>7
    <2> QED  BY <1>2, <1>8, <1>11, <2>1 DEF IsLifted, p, H
  <1> HIDE DEF e
  <1> QED  BY <1>10, <1>11, <1>13, <1>14, <1>15 DEF IsNumber, m, H

\* A normal float is unpacked to its value.
LEMMA UnpackNormal ==
    ASSUME NEW raw \in Floats, HiddenBit <= MagnitudeOf(raw), MagnitudeOf(raw) < Infinity
    PROVE  /\ IsNumber(Unpack(raw), MagnitudeOf(raw)) /\ Unpack(raw).sign = IsNegative(raw)
           /\ IsPlain(Unpack(raw), MagnitudeOf(raw))
  <1> DEFINE H == HiddenBit
             N == Power[EXPBITS]
             m == MagnitudeOf(raw)
             q == m \div H
             r == m % H
             e == q - Bias
             s == H + r
  <1>1. H \in Nat /\ H >= 8 /\ N \in Nat /\ N >= 4
        /\ FRACBITS \in Nat /\ H = Power[FRACBITS] /\ Infinity = (N - 1) * H /\ Infinity \in Nat
        /\ 2^EXPBITS = N /\ Bias \in Int /\ MinExponent = 1 - Bias
        /\ MaxExponent = Bias /\ N = 2 * Bias + 2
    BY FormatFacts
  <1>2. m \in Nat /\ m = H * q + r /\ r \in 0 .. H - 1 /\ q \in 0 .. N - 1 /\ raw % H = r
    BY RawParts
  <1>3. H <= m /\ m < Infinity
    OBVIOUS
  <1> HIDE DEF m, H, N, q, r
  <1>4. q # 0
    <2>1. q = 0 => H * q = 0
      BY <1>1, SMT
    <2> QED  BY <1>1, <1>2, <1>3, <2>1
  <1>5. q # N - 1
    <2>1. q = N - 1 => H * q = (N - 1) * H
      BY <1>1, <1>2, SMT
    <2> QED  BY <1>1, <1>2, <1>3, <2>1
  <1>6. q - 1 \in Nat /\ (q - 1) * H = H * q - H /\ H * q \in Nat
    BY <1>1, <1>2, <1>4, SMT
  <1>7. IsPlace(q - 1, s) /\ m = (q - 1) * HiddenBit + s
    BY <1>1, <1>2, <1>6 DEF IsPlace, H
  <1>8. Grid[m] = s * Power[q - 1]
    BY <1>1, <1>3, <1>7, GridAt
  <1>9. e - MinExponent + FRACBITS = (q - 1) + FRACBITS /\ e \in Int
        /\ e >= MinExponent - FRACBITS /\ e <= MaxExponent
    BY <1>1, <1>2, <1>5, <1>6
  <1>10. Grid[m] * Power[FRACBITS] = s * Power[e - MinExponent + FRACBITS]
    <2>1. Power[(q - 1) + FRACBITS] = Power[q - 1] * Power[FRACBITS]
      BY <1>1, <1>6, PowerSum
    <2>2. Power[q - 1] \in Nat /\ s \in Nat
      BY <1>1, <1>2, <1>6, PowerFacts
    <2>3. (s * Power[q - 1]) * Power[FRACBITS] = s * (Power[q - 1] * Power[FRACBITS])
      BY <1>1, <2>2, SMT
    <2> QED  BY <1>8, <1>9, <2>1, <2>3
  <1>11. Unpack(raw) = [sign |-> IsNegative(raw), exponent |-> e, significand |-> s,
                        class |-> "Normal"]
    <2>1. 2^EXPBITS - 1 # q
      BY <1>1, <1>5
    <2>2. MagnitudeOf(raw) \div HiddenBit = q /\ raw % HiddenBit = r
      BY <1>2 DEF m, H, q
    <2> QED  BY <1>4, <2>1, <2>2 DEF Unpack, H
  <1>12. s \in H .. 2 * H - 1
    BY <1>1, <1>2
  <1>13. IsPlain(Unpack(raw), m)
    BY <1>11 DEF IsPlain, q, r, H
  <1> HIDE DEF e, s
  <1> QED  BY <1>9, <1>10, <1>11, <1>12, <1>13 DEF IsNumber, m, H

\* The other magnitudes: zeros, infinities and NaNs.
LEMMA UnpackSpecial ==
    ASSUME NEW raw \in Floats
    PROVE  LET m == MagnitudeOf(raw)
               u == Unpack(raw)
           IN  /\ m = 0 => u = [sign |-> IsNegative(raw), exponent |-> MinExponent,
                                significand |-> 0, class |-> "Zero"]
               /\ m = Infinity => u.class = "Infinity" /\ u.sign = IsNegative(raw)
               /\ m > Infinity => /\ u.sign = IsNegative(raw)
                                  /\ u.significand = m - Infinity
                                  /\ u.class = IF m < CanonicalNan THEN "SignalingNaN"
                                               ELSE "QuietNaN"
  <1> DEFINE H == HiddenBit
             N == Power[EXPBITS]
             m == MagnitudeOf(raw)
             q == m \div H
             r == m % H
             h == H \div 2
  <1>1. H \in Nat /\ H >= 8 /\ N \in Nat /\ N >= 4 /\ Infinity = (N - 1) * H /\ Infinity \in Nat
        /\ 2^EXPBITS = N
    BY FormatFacts
  <1>2. m \in Nat /\ m = H * q + r /\ r \in 0 .. H - 1 /\ q \in 0 .. N - 1 /\ raw % H = r
    BY RawParts
  <1>3. MagnitudeOf(raw) \div HiddenBit = q /\ raw % HiddenBit = r
    BY <1>2
  <1>4. CanonicalNan = Infinity + h
    BY DEF CanonicalNan
  <1>5. h \in Nat
    BY <1>1
  <1> HIDE DEF m, H, N, q, r, h
  <1>6. H * q \in Nat /\ (q = N - 1 => H * q = Infinity) /\ (q = 0 => H * q = 0)
        /\ (q # 0 => H * q >= H) /\ (q # N - 1 => H * q <= Infinity - H)
    <2>1. q <= N - 2 => H * q <= H * (N - 2)
      BY <1>1, <1>2, SMT
    <2>2. H * (N - 2) = (N - 1) * H - H
      BY <1>1, SMT
    <2>3. q >= 1 => H * q >= H * 1
      BY <1>1, <1>2, SMT
    <2>4. H * q \in Nat /\ (q = N - 1 => H * q = (N - 1) * H) /\ (q = 0 => H * q = 0)
      BY <1>1, <1>2, SMT
    <2> QED  BY <1>1, <1>2, <2>1, <2>2, <2>3, <2>4
  <1>7. ASSUME m = 0
        PROVE  Unpack(raw) = [sign |-> IsNegative(raw), exponent |-> MinExponent,
                              significand |-> 0, class |-> "Zero"]
    <2>1. q = 0 /\ r = 0 /\ 2^EXPBITS - 1 # 0
      BY <1>1, <1>2, <1>6, <1>7
    <2> QED  BY <1>3, <2>1 DEF Unpack
  <1>8. ASSUME m = Infinity
        PROVE  Unpack(raw).class = "Infinity" /\ Unpack(raw).sign = IsNegative(raw)
    <2>1. q = 2^EXPBITS - 1 /\ q # 0 /\ r = 0
      BY <1>1, <1>2, <1>6, <1>8
    <2> QED  BY <1>3, <2>1 DEF Unpack
  <1>9. ASSUME m > Infinity
        PROVE  /\ Unpack(raw).sign = IsNegative(raw)
               /\ Unpack(raw).significand = m - Infinity
               /\ Unpack(raw).class = IF m < CanonicalNan THEN "SignalingNaN" ELSE "QuietNaN"
    <2>1. q = 2^EXPBITS - 1 /\ q # 0 /\ r # 0
      BY <1>1, <1>2, <1>6, <1>9
    <2>2. r >= h <=> ~(m < CanonicalNan)
      BY <1>1, <1>2, <1>4, <1>5, <1>6, <2>1
    <2>3. Unpack(raw) = [sign |-> IsNegative(raw), exponent |-> 0, significand |-> r,
                         class |-> IF r >= h THEN "QuietNaN" ELSE "SignalingNaN"]
      BY <1>3, <2>1 DEF Unpack, h, H
    <2>4. r = m - Infinity
      BY <1>1, <1>2, <1>6, <2>1
    <2> QED  BY <2>2, <2>3, <2>4
  <1> QED  BY <1>7, <1>8, <1>9 DEF m

\* Unpacking in the terms of the reference.
LEMMA UnpackFacts ==
    ASSUME NEW raw \in Floats
    PROVE  LET u == Unpack(raw)
           IN  /\ u.sign = IsNegative(raw) /\ IsNegative(raw) \in BOOLEAN
               /\ is_nan(u) <=> NanOf(raw)
               /\ is_signaling_nan(u) <=> SignalingOf(raw)
               /\ IsZero(u) <=> ZeroOf(raw)
               /\ IsInfinity(u) <=> InfiniteOf(raw)
               /\ FiniteNonzero(raw) => IsNumber(u, MagnitudeOf(raw))
               /\ ZeroOf(raw) \/ FiniteNonzero(raw) \/ InfiniteOf(raw) \/ NanOf(raw)
               /\ FiniteNonzero(raw) => ~InfiniteOf(raw) /\ ~NanOf(raw) /\ ~ZeroOf(raw)
               /\ ZeroOf(raw) => ~InfiniteOf(raw) /\ ~NanOf(raw)
               /\ InfiniteOf(raw) => ~NanOf(raw)
  <1> DEFINE m == MagnitudeOf(raw)
             u == Unpack(raw)
  <1>1. m \in Nat /\ IsNegative(raw) \in BOOLEAN
    BY RawParts
  <1>2. /\ Infinity \in Nat /\ HiddenBit \in Nat /\ HiddenBit >= 8 /\ Infinity > 0
        /\ Infinity <= CanonicalNan /\ CanonicalNan \in Nat
    <2>1. Infinity \in Nat /\ HiddenBit \in Nat /\ HiddenBit >= 8
      BY FormatFacts
    <2>2. HiddenBit \div 2 \in Nat
      BY <2>1
    <2>3. Infinity > 0
      <3>1. (Power[EXPBITS] - 2) * HiddenBit + HiddenBit = Infinity
            /\ Power[EXPBITS] - 2 \in Nat
        BY InfinityPlace DEF IsPlace
      <3>2. (Power[EXPBITS] - 2) * HiddenBit \in Nat
        BY <2>1, <3>1, Products
      <3> QED  BY <2>1, <3>1, <3>2
    <2> QED  BY <2>1, <2>2, <2>3 DEF CanonicalNan
  <1> DEFINE z == ZeroOf(raw)
             i == InfiniteOf(raw)
             f == FiniteNonzero(raw)
             n == NanOf(raw)
  <1>3. (z <=> m = 0) /\ (i <=> m = Infinity) /\ (n <=> m > Infinity)
        /\ (f <=> m # 0 /\ m < Infinity) /\ (SignalingOf(raw) <=> n /\ m < CanonicalNan)
    BY DEF ZeroOf, InfiniteOf, FiniteNonzero, NanOf, SignalingOf
  <1>4. /\ m = 0 => u = [sign |-> IsNegative(raw), exponent |-> MinExponent,
                         significand |-> 0, class |-> "Zero"]
        /\ m = Infinity => u.class = "Infinity" /\ u.sign = IsNegative(raw)
        /\ m > Infinity => /\ u.sign = IsNegative(raw)
                           /\ u.class = IF m < CanonicalNan THEN "SignalingNaN" ELSE "QuietNaN"
    BY UnpackSpecial
  <1>5. m # 0 /\ m < Infinity => IsNumber(u, m) /\ u.sign = IsNegative(raw)
    <2>1. m < HiddenBit \/ HiddenBit <= m
      BY <1>1, <1>2
    <2> QED  BY <2>1, UnpackSubnormal, UnpackNormal
  <1> HIDE DEF m, u, z, i, f, n
  <1>6. CASE m = 0
    <2>1. u.class = "Zero" /\ u.sign = IsNegative(raw)
      BY <1>4, <1>6
    <2>2. z /\ ~i /\ ~n /\ ~f /\ ~SignalingOf(raw)
      BY <1>2, <1>3, <1>6
    <2> QED  BY <1>1, <2>1, <2>2 DEF is_nan, is_signaling_nan, IsZero, IsInfinity, m, u, z, i, f, n
  <1>7. CASE m = Infinity
    <2>1. u.class = "Infinity" /\ u.sign = IsNegative(raw)
      BY <1>4, <1>7
    <2>2. ~z /\ i /\ ~n /\ ~f /\ ~SignalingOf(raw)
      BY <1>2, <1>3, <1>7
    <2> QED  BY <1>1, <2>1, <2>2 DEF is_nan, is_signaling_nan, IsZero, IsInfinity, m, u, z, i, f, n
  <1>8. CASE m > Infinity /\ m < CanonicalNan
    <2>1. u.class = "SignalingNaN" /\ u.sign = IsNegative(raw)
      BY <1>4, <1>8
    <2>2. ~z /\ ~i /\ n /\ ~f /\ SignalingOf(raw)
      BY <1>1, <1>2, <1>3, <1>8
    <2> QED  BY <1>1, <2>1, <2>2 DEF is_nan, is_signaling_nan, IsZero, IsInfinity, m, u, z, i, f, n
  <1>9. CASE m > Infinity /\ ~(m < CanonicalNan)
    <2>1. u.class = "QuietNaN" /\ u.sign = IsNegative(raw)
      BY <1>4, <1>9
    <2>2. ~z /\ ~i /\ n /\ ~f /\ ~SignalingOf(raw)
      BY <1>1, <1>2, <1>3, <1>9
    <2> QED  BY <1>1, <2>1, <2>2 DEF is_nan, is_signaling_nan, IsZero, IsInfinity, m, u, z, i, f, n
  <1>10. CASE m # 0 /\ m < Infinity
    <2>1. u.class \in {"Normal", "Subnormal"} /\ u.sign = IsNegative(raw) /\ IsNumber(u, m)
      BY <1>5, <1>10 DEF IsNumber
    <2>2. ~z /\ ~i /\ ~n /\ f /\ ~SignalingOf(raw)
      BY <1>1, <1>2, <1>3, <1>10
    <2> QED  BY <1>1, <2>1, <2>2 DEF is_nan, is_signaling_nan, IsZero, IsInfinity, m, u, z, i, f, n
  <1> QED  BY <1>1, <1>2, <1>6, <1>7, <1>8, <1>9, <1>10

\* Packing finds the bits again that unpacking took apart.
LEMMA ToBitsUnpack ==
    ASSUME NEW raw \in Floats
    PROVE  ToBits(Unpack(raw)) = raw
  <1> DEFINE H == HiddenBit
             N == Power[EXPBITS]
             m == MagnitudeOf(raw)
             u == Unpack(raw)
             q == m \div H
             r == m % H
             h == H \div 2
  <1>1. /\ H \in Nat /\ H >= 8 /\ H \in Nat \ {0} /\ N \in Nat /\ N >= 4 /\ FRACBITS \in Nat
        /\ WIDE >= 2 * FRACBITS + 6 /\ WIDE \in Nat
        /\ Sign = N * H /\ Sign \in Nat /\ Infinity = (N - 1) * H /\ Infinity \in Nat
        /\ Bias \in Int /\ MinExponent \in Int
        /\ \A n \in 0 .. WIDE + 3 : 2^n = Power[n]
    BY FormatFacts
  <1>2. /\ m \in Nat /\ m < Sign /\ raw = Signed(IsNegative(raw), m)
        /\ m = H * q + r /\ r \in 0 .. H - 1 /\ q \in 0 .. N - 1
    BY RawParts
  <1>3. h \in Nat /\ h > 0 /\ H = 2 * h /\ CanonicalNan = Infinity + h
    BY FormatFacts DEF CanonicalNan
  <1> HIDE DEF H, N, q, r, h
  <1>4. CASE m = 0
    <2>1. u.class = "Zero" /\ u.sign = IsNegative(raw)
      BY <1>4, UnpackSpecial
    <2> HIDE DEF m, u
    <2>2. ToBits(u) = Signed(u.sign, 0)
      BY <2>1 DEF ToBits
    <2> QED  BY <1>2, <1>4, <2>1, <2>2 DEF u
  <1>5. CASE m = Infinity
    <2>1. u.class = "Infinity" /\ u.sign = IsNegative(raw)
      BY <1>5, UnpackSpecial
    <2> HIDE DEF m, u
    <2>2. ToBits(u) = Signed(u.sign, Infinity)
      BY <2>1 DEF ToBits
    <2> QED  BY <1>2, <1>5, <2>1, <2>2 DEF u
  <1>6. CASE m > Infinity
    <2>1. /\ u.sign = IsNegative(raw) /\ u.significand = m - Infinity
          /\ u.class = IF m < CanonicalNan THEN "SignalingNaN" ELSE "QuietNaN"
      BY <1>6, UnpackSpecial
    <2>2. m - Infinity \in 1 .. H - 1
      <3>1. N * H = (N - 1) * H + H
        BY <1>1, SMT
      <3> QED  BY <1>1, <1>2, <1>6, <3>1
    <2> HIDE DEF m, u
    <2> DEFINE s == u.significand
    <2>3. CASE m < CanonicalNan
      <3>1. s \in 1 .. h - 1 /\ s % h = s
        BY <1>1, <1>2, <1>3, <2>1, <2>2, <2>3
      <3>2. ToBits(u) = Signed(u.sign, Infinity + (IF s % h = 0 THEN 1 ELSE s % h))
        BY <2>1, <2>3 DEF ToBits, h, H
      <3>3. ToBits(u) = Signed(u.sign, m)
        <4>1. Infinity + s = m /\ s % h # 0
          BY <1>1, <1>2, <2>1, <3>1
        <4> QED  BY <3>1, <3>2, <4>1
      <3> QED  BY <1>2, <2>1, <3>3 DEF u
    <2>4. CASE ~(m < CanonicalNan)
      <3>1. s - h \in 0 .. h - 1 /\ s = 1 * h + (s - h)
        BY <1>1, <1>2, <1>3, <2>1, <2>2, <2>4
      <3>2. h \in Nat \ {0} /\ 1 \in Int
        BY <1>3
      <3>3. s % h = s - h
        <4> DEFINE t == s - h
        <4>1. (1 * h + t) % h = t
          <5> HIDE DEF t
          <5> QED  BY <3>1, <3>2, DivUnique DEF t
        <4> QED  BY <3>1, <4>1
      <3>4. ToBits(u) = Signed(u.sign, Infinity + h + (s % h))
        BY <2>1, <2>4 DEF ToBits, h, H
      <3>5. Infinity + h + (s - h) = m
        BY <1>1, <1>2, <1>3, <2>1
      <3> QED  BY <1>2, <2>1, <3>3, <3>4, <3>5 DEF u
    <2> QED  BY <2>3, <2>4
  <1>7. CASE m # 0 /\ m < HiddenBit
    <2>1. u.sign = IsNegative(raw) /\ IsLifted(u, m)
      BY <1>7, UnpackSubnormal
    <2>2. PICK lift \in 0 .. FRACBITS : /\ u.class = "Subnormal" /\ u.exponent = MinExponent - lift
                                       /\ u.significand = m * Power[lift]
      BY <2>1 DEF IsLifted
    <2> HIDE DEF m, u
    <2>3. MinExponent - u.exponent = lift /\ 2^lift = Power[lift] /\ Power[lift] \in Nat \ {0}
      BY <1>1, <2>2, PowerFacts
    <2>4. (m * Power[lift]) \div Power[lift] = m
      <3> DEFINE p == Power[lift]
      <3>1. 0 \in 0 .. p - 1 /\ m \in Int /\ m * p \in Int
        BY <1>2, <2>3
      <3> HIDE DEF p
      <3>2. (m * p + 0) \div p = m
        BY <2>3, <3>1, DivUnique DEF p
      <3> QED  BY <3>1, <3>2 DEF p
    <2>5. m % HiddenBit = m
      BY <1>1, <1>2, <1>7 DEF H
    <2>6. ToBits(u) = Signed(u.sign, (u.significand \div 2^(MinExponent - u.exponent)) % HiddenBit)
      BY <2>2 DEF ToBits
    <2>7. ToBits(u) = Signed(u.sign, m)
      BY <2>2, <2>3, <2>4, <2>5, <2>6
    <2> QED  BY <1>2, <2>1, <2>7 DEF u
  <1>8. CASE HiddenBit <= m /\ m < Infinity
    <2>1. u.sign = IsNegative(raw) /\ IsPlain(u, m)
      BY <1>8, UnpackNormal
    <2>2. u.class = "Normal" /\ u.exponent = q - Bias /\ u.significand = H + r
      BY <2>1 DEF IsPlain, q, r, H
    <2> HIDE DEF m, u
    <2>3. u.exponent + Bias = q
      BY <1>1, <1>2, <2>2
    <2>4. (H + r) % H = r
      <3>1. (1 * H + r) % H = r
        BY <1>1, <1>2, DivUnique
      <3> QED  BY <1>1, <1>2, <3>1
    <2>5. ToBits(u) = Signed(u.sign, (u.exponent + Bias) * HiddenBit + (u.significand % HiddenBit))
      BY <2>2 DEF ToBits
    <2>6. ToBits(u) = Signed(u.sign, q * H + r)
      BY <2>2, <2>3, <2>4, <2>5 DEF H
    <2>7. q * H + r = m
      BY <1>1, <1>2
    <2> QED  BY <1>2, <2>1, <2>6, <2>7 DEF u
  <1> QED
    <2> HIDE DEF m
    <2> QED  BY <1>1, <1>2, <1>4, <1>5, <1>6, <1>7, <1>8 DEF H

-----------------------------------------------------------------------------
\* There is a last float that a value reaches.
LEMMA LastReached ==
    ASSUME NEW f, IsOrder(f), f[0] >= 0
    PROVE  \E b \in 0 .. Infinity : \A c \in 0 .. Infinity : f[2 * Grid[c]] >= 0 <=> c <= b
  <1> DEFINE T == {c \in 0 .. Infinity : ~(f[2 * Grid[c]] >= 0)}
  <1>1. /\ \A c \in 0 .. Infinity : Grid[c] \in Nat /\ c \in Nat
        /\ \A b \in 0 .. Infinity : \A c \in 0 .. Infinity : b < c <=> Grid[b] < Grid[c]
        /\ Grid[0] = 0 /\ Infinity \in Nat
    BY GridGrows, GridTop
  <1>2. ASSUME NEW b \in 0 .. Infinity, NEW c \in 0 .. Infinity, b \in T, b <= c
        PROVE  c \in T
    <2>1. b = c \/ Grid[b] < Grid[c]
      BY <1>1, <1>2
    <2>2. 2 * Grid[b] <= 2 * Grid[c] /\ 2 * Grid[b] \in Nat /\ 2 * Grid[c] \in Nat
      BY <1>1, <2>1
    <2> QED  BY <1>2, <2>2 DEF IsOrder
  <1>3. 0 \notin T
    <2>1. 2 * 0 = 0
      OBVIOUS
    <2> QED  BY <1>1, <2>1
  <1>4. \A c \in 0 .. Infinity : f[2 * Grid[c]] >= 0 <=> c \notin T
    OBVIOUS
  <1>5. T \in SUBSET Nat /\ T \subseteq 0 .. Infinity
    BY <1>1
  <1> HIDE DEF T
  <1>6. CASE T = {}
    <2>1. Infinity \in 0 .. Infinity /\ \A c \in 0 .. Infinity : c <= Infinity
      BY <1>1
    <2> QED  BY <1>4, <1>6, <2>1
  <1>7. CASE T # {}
    <2>1. PICK k \in T : \A m \in T : k <= m
      BY <1>5, <1>7, Least
    <2>2. k \in 0 .. Infinity /\ k # 0 /\ k - 1 \in 0 .. Infinity
      BY <1>1, <1>3, <1>5, <2>1
    <2>3. ASSUME NEW c \in 0 .. Infinity PROVE c \notin T <=> c <= k - 1
      <3>1. c \in T => k <= c
        BY <2>1
      <3>2. k <= c => c \in T
        BY <1>2, <2>1, <2>2
      <3> QED  BY <1>1, <2>2, <3>1, <3>2
    <2> QED  BY <1>4, <2>2, <2>3
  <1> QED  BY <1>6, <1>7

\* What a choice may come to: one of two neighbours, and no underflow.
LEMMA ChosenFacts ==
    ASSUME NEW b \in 0 .. Infinity, NEW low, NEW middle, NEW negative, NEW rm
    PROVE  LET c == Chosen(b, low, middle, negative, rm)
           IN  /\ c.magnitude \in 0 .. Infinity
               /\ c.flags \in {{}, {NX}, {OF, NX}}
               /\ b < Infinity => c.magnitude = b \/ c.magnitude = b + 1
               /\ b = Infinity => c.magnitude = Infinity \/ c.magnitude = Infinity - 1
               /\ c.flags = {NX} => b < Infinity /\ low # 0
  <1> DEFINE c == Chosen(b, low, middle, negative, rm)
  <1>0. {OF, NX} # {NX} /\ {} # {NX} /\ Infinity \in Nat /\ Infinity > 0
    BY GridTop DEF OF, NX
  <1>1. CASE b = Infinity
    <2>1. /\ c.flags = {OF, NX}
          /\ c.magnitude = IF Outward(negative, rm) \/ ToNearest(rm) THEN Infinity
                           ELSE Infinity - 1
      BY <1>1 DEF Chosen, Choice
    <2> HIDE DEF c
    <2> QED  BY <1>0, <1>1, <2>1 DEF c
  <1>2. CASE b < Infinity
    <2> DEFINE up == \/ Outward(negative, rm)
                     \/ ToNearest(rm) /\ middle > 0
                     \/ middle = 0 /\ (rm = "Rmm" \/ (rm = "Rne" /\ b % 2 = 1))
    <2>1. b \in Nat
      OBVIOUS
    <2>2. /\ ~(low = 0) /\ up => /\ c.magnitude = b + 1
                                 /\ b + 1 = Infinity => c.flags = {OF, NX}
                                 /\ b + 1 # Infinity => c.flags = {NX}
          /\ ~(~(low = 0) /\ up) => /\ c.magnitude = b
                                    /\ low = 0 => c.flags = {}
                                    /\ ~(low = 0) => c.flags = {NX}
      BY <1>2, <2>1, ChosenBelow
    <2> HIDE DEF up, c
    <2>3. c.magnitude = b \/ c.magnitude = b + 1
      BY <2>2
    <2>4. c.flags \in {{}, {NX}, {OF, NX}} /\ (c.flags = {NX} => low # 0)
      BY <1>0, <2>2
    <2> QED  BY <1>0, <1>2, <2>1, <2>3, <2>4 DEF c
  <1> QED  BY <1>0, <1>1, <1>2

\* Up to twice the smallest normal the floats are the integers.
LEMMA SmallGrid ==
    /\ 2 * HiddenBit < Infinity
    /\ \A n \in 0 .. 2 * HiddenBit : Grid[n] = n
  <1>1. /\ HiddenBit \in Nat /\ HiddenBit >= 8 /\ Infinity \in Nat
        /\ Power[EXPBITS] - 1 \in Nat /\ Power[EXPBITS] - 1 >= 3
        /\ Infinity = (Power[EXPBITS] - 1) * HiddenBit
    BY FormatFacts
  <1> DEFINE N == Power[EXPBITS] - 1
  <1> HIDE DEF N
  <1>2. N * HiddenBit >= 3 * HiddenBit
    BY <1>1, SMT DEF N
  <1>3. 2 * HiddenBit < Infinity
    BY <1>1, <1>2 DEF N
  <1>4. Power[0] = 1 /\ Power[1] = 2
    <2>1. Power[0 + 1] = 2 * Power[0] /\ Power[0] = 1
      BY PowerFacts
    <2> QED  BY <2>1
  <1>5. ASSUME NEW n \in 0 .. 2 * HiddenBit PROVE Grid[n] = n
    <2>1. CASE n < 2 * HiddenBit
      <3>1. IsPlace(0, n) /\ 0 * HiddenBit + n = n /\ n <= Infinity
        BY <1>1, <1>3, <2>1 DEF IsPlace
      <3>2. Grid[n] = n * Power[0]
        BY <3>1, GridAt
      <3> QED  BY <1>4, <3>2
    <2>2. CASE n = 2 * HiddenBit
      <3>1. IsPlace(1, HiddenBit) /\ 1 * HiddenBit + HiddenBit = n
            /\ 1 * HiddenBit + HiddenBit <= Infinity
        BY <1>1, <1>3, <2>2 DEF IsPlace
      <3>2. Grid[n] = HiddenBit * Power[1]
        BY <3>1, GridAt
      <3> QED  BY <1>1, <1>4, <2>2, <3>2
    <2> QED  BY <1>1, <2>1, <2>2
  <1> QED  BY <1>3, <1>5

\* The orders of a value and of its double.
AreOrders(once, twice) ==
    /\ IsOrder(once) /\ once[0] >= 0 /\ IsOrder(twice)
    /\ \A h \in Nat : SameSide(once[h], twice[2 * h])

\* An inexact result that stays below the smallest normal is tiny, one that
\* lies above it is not, and no value from the smallest normal on is.
LEMMA TinyIs ==
    ASSUME NEW once, NEW twice, AreOrders(once, twice),
           NEW rm \in RoundingModes, NEW negative \in BOOLEAN
    PROVE  LET r == Rounded(Grid, 0, Infinity, once, negative)[rm]
               double == Rounded(Grid, 0, Infinity, twice, negative)[rm]
               tiny == double.magnitude < 2 * HiddenBit
           IN  /\ r.magnitude \in 0 .. Infinity
               /\ r.flags \in {{}, {NX}, {OF, NX}}
               /\ r.flags = {NX} /\ r.magnitude < HiddenBit => tiny
               /\ r.magnitude > HiddenBit => ~tiny
               /\ once[2 * HiddenBit] >= 0 => ~tiny
  <1> DEFINE H == HiddenBit
             r == Rounded(Grid, 0, Infinity, once, negative)[rm]
             d == Rounded(Grid, 0, Infinity, twice, negative)[rm]
  <1>0. /\ IsOrder(once) /\ once[0] >= 0 /\ IsOrder(twice)
        /\ \A h \in Nat : once[h] \in Int /\ twice[h] \in Int
        /\ \A h \in Nat : once[h] >= 0 <=> twice[2 * h] >= 0
    <2>1. /\ IsOrder(once) /\ once[0] >= 0 /\ IsOrder(twice)
          /\ \A h \in Nat : SameSide(once[h], twice[2 * h])
      BY DEF AreOrders
    <2>2. \A h \in Nat : once[h] \in Int /\ twice[h] \in Int
      BY <2>1 DEF IsOrder
    <2>3. ASSUME NEW h \in Nat PROVE once[h] >= 0 <=> twice[2 * h] >= 0
      <3>1. once[h] \in Int /\ twice[2 * h] \in Int /\ SameSide(once[h], twice[2 * h])
        BY <2>1, <2>2
      <3> QED  BY <3>1 DEF SameSide
    <2> QED  BY <2>1, <2>2, <2>3
  <1>1. twice[0] >= 0
    <2>1. once[0] >= 0 <=> twice[2 * 0] >= 0
      BY <1>0
    <2> QED  BY <1>0, <2>1
  <1>2. PICK b \in 0 .. Infinity :
           \A g \in 0 .. Infinity : once[2 * Grid[g]] >= 0 <=> g <= b
    BY <1>0, LastReached
  <1>3. PICK c \in 0 .. Infinity :
           \A g \in 0 .. Infinity : twice[2 * Grid[g]] >= 0 <=> g <= c
    BY <1>0, <1>1, LastReached
  <1> DEFINE low == once[2 * Grid[b]]
             middle == once[Grid[b] + Grid[b + 1]]
             next == twice[2 * Grid[c]]
             between == twice[Grid[c] + Grid[c + 1]]
  <1>4. r = Chosen(b, low, middle, negative, rm)
    BY <1>2, RoundedIs
  <1>5. d = Chosen(c, next, between, negative, rm)
    BY <1>3, RoundedIs
  <1>6. /\ H \in Nat /\ H >= 8 /\ Infinity \in Nat /\ 2 * H < Infinity
        /\ \A n \in 0 .. 2 * H : Grid[n] = n
    BY FormatFacts, SmallGrid
  <1>7. (H - 1) % 2 = 1
    <2>1. H = 2 * Power[FRACBITS - 1] /\ Power[FRACBITS - 1] \in Nat
      BY FormatFacts
    <2> QED  BY <2>1
  <1>8. once[2 * H] >= 0 <=> H <= b
    <2>1. H \in 0 .. Infinity /\ Grid[H] = H
      BY <1>6
    <2> QED  BY <1>2, <2>1
  <1>9. once[2 * H] >= 0 <=> 2 * H <= c
    <2>1. 2 * H \in 0 .. Infinity /\ Grid[2 * H] = 2 * H
      BY <1>6
    <2>2. twice[2 * (2 * H)] >= 0 <=> 2 * H <= c
      BY <1>3, <2>1
    <2>3. 2 * H \in Nat
      BY <1>6
    <2> QED  BY <1>0, <2>2, <2>3
  <1>10. /\ r.magnitude \in 0 .. Infinity
         /\ r.flags \in {{}, {NX}, {OF, NX}}
         /\ b < Infinity => r.magnitude = b \/ r.magnitude = b + 1
         /\ b = Infinity => r.magnitude = Infinity \/ r.magnitude = Infinity - 1
         /\ r.flags = {NX} => b < Infinity /\ low # 0
    BY <1>4, ChosenFacts
  <1>11. /\ d.magnitude \in 0 .. Infinity
         /\ c < Infinity => d.magnitude = c \/ d.magnitude = c + 1
         /\ c = Infinity => d.magnitude = Infinity \/ d.magnitude = Infinity - 1
    BY <1>5, ChosenFacts
  <1> HIDE DEF r, d, low, middle, next, between, H
  <1>12. once[2 * H] >= 0 => ~(d.magnitude < 2 * H)
    BY <1>6, <1>9, <1>11
  <1>13. r.magnitude > H => ~(d.magnitude < 2 * H)
    <2>1. r.magnitude > H => H <= b
      BY <1>6, <1>10
    <2> QED  BY <1>8, <1>12, <2>1
  <1>14. ASSUME r.flags = {NX}, r.magnitude < H PROVE d.magnitude < 2 * H
    <2>1. b < H /\ b < Infinity /\ low # 0 /\ r.magnitude \in {b, b + 1}
      BY <1>6, <1>10, <1>14
    <2>2. c < 2 * H
      BY <1>6, <1>8, <1>9, <2>1
    <2>3. CASE c < 2 * H - 1
      BY <1>6, <1>11, <2>3
    <2>4. CASE c = 2 * H - 1
      <3>1. Grid[c] = 2 * H - 1
        BY <1>6, <2>4
      <3>2. twice[2 * (2 * H - 1)] >= 0
        BY <1>3, <3>1
      <3>3. once[2 * H - 1] >= 0
        <4>1. 2 * H - 1 \in Nat
          BY <1>6
        <4> QED  BY <1>0, <3>2, <4>1
      <3>4. once[2 * (H - 1)] >= 0
        <4>1. 2 * H - 1 \in Nat /\ 2 * (H - 1) \in Nat /\ 2 * (H - 1) <= 2 * H - 1
          BY <1>6
        <4> QED  BY <1>0, <3>3, <4>1 DEF IsOrder
      <3>5. b = H - 1
        <4>1. H - 1 \in 0 .. Infinity /\ Grid[H - 1] = H - 1
          BY <1>6
        <4>2. H - 1 <= b
          BY <1>2, <3>4, <4>1
        <4> QED  BY <1>6, <2>1, <4>2
      <3>6. middle = once[2 * H - 1]
        <4>1. Grid[b] = H - 1 /\ Grid[b + 1] = H /\ (H - 1) + H = 2 * H - 1
          BY <1>6, <3>5
        <4> QED  BY <4>1 DEF middle
      <3>7. middle >= 0 /\ middle \in Int
        <4>1. 2 * H - 1 \in Nat
          BY <1>6
        <4> QED  BY <1>0, <3>3, <3>6, <4>1
      <3> DEFINE up == \/ Outward(negative, rm)
                       \/ ToNearest(rm) /\ middle > 0
                       \/ middle = 0 /\ (rm = "Rmm" \/ (rm = "Rne" /\ b % 2 = 1))
      <3>8. ~up
        <4>1. ~(low = 0) /\ up => r.magnitude = b + 1
          BY <1>4, <2>1, ChosenBelow
        <4> HIDE DEF up
        <4>2. r.magnitude # b + 1
          BY <1>14, <1>6, <3>5
        <4> QED  BY <2>1, <4>1, <4>2
      <3>9. ~Outward(negative, rm) /\ ~ToNearest(rm) /\ rm # "Rmm" /\ rm # "Rne"
        <4>1. middle > 0 \/ middle = 0
          BY <3>7
        <4>2. b % 2 = 1
          BY <1>7, <3>5
        <4> QED  BY <3>8, <4>1, <4>2 DEF ToNearest
      <3>10. d.magnitude = c
        <4> DEFINE lift == \/ Outward(negative, rm)
                           \/ ToNearest(rm) /\ between > 0
                           \/ between = 0 /\ (rm = "Rmm" \/ (rm = "Rne" /\ c % 2 = 1))
        <4>1. ~lift
          BY <3>9
        <4>2. c \in Nat /\ c < Infinity
          BY <1>6, <2>2
        <4>3. ~(~(next = 0) /\ lift) => d.magnitude = c
          BY <1>5, <4>2, ChosenBelow
        <4> QED  BY <4>1, <4>3
      <3> QED  BY <2>2, <3>10
    <2> QED  BY <1>6, <2>2, <2>3, <2>4
  <1> QED  BY <1>10, <1>12, <1>13, <1>14 DEF r, d, H

\* A result without underflow stays as it is.
LEMMA RaisedOther ==
    ASSUME NEW value, NEW flags, UF \notin flags
    PROVE  Raised(Result(value, flags)) = Result(value, flags)
  <1>1. flags \ {UF} = flags
    OBVIOUS
  <1> QED  BY <1>1 DEF Raised, Result

\* The float of a value and the flags that the unit raises for it.
LEMMA DeliveredIs ==
    ASSUME NEW once, NEW twice, AreOrders(once, twice),
           NEW rm \in RoundingModes, NEW negative \in BOOLEAN
    PROVE  LET r == Rounded(Grid, 0, Infinity, once, negative)[rm]
               all == Delivered(once, twice, negative)[rm]
           IN  /\ Packs(negative, r) = Raised(all)
               /\ once[2 * HiddenBit] >= 0 =>
                      /\ all = Result(Signed(negative, r.magnitude), r.flags)
                      /\ Raised(all) = all
               /\ r.flags = {} => all = Result(Signed(negative, r.magnitude), {})
  <1> DEFINE r == Rounded(Grid, 0, Infinity, once, negative)[rm]
             d == Rounded(Grid, 0, Infinity, twice, negative)[rm]
             tiny == d.magnitude < 2 * HiddenBit
             all == Delivered(once, twice, negative)[rm]
  <1>1. all = Result(Signed(negative, r.magnitude),
                     IF r.flags = {NX} /\ tiny THEN {UF, NX} ELSE r.flags)
    BY DEF Delivered
  <1>2. /\ r.magnitude \in 0 .. Infinity
        /\ r.flags \in {{}, {NX}, {OF, NX}}
        /\ r.flags = {NX} /\ r.magnitude < HiddenBit => tiny
        /\ r.magnitude > HiddenBit => ~tiny
        /\ once[2 * HiddenBit] >= 0 => ~tiny
    BY TinyIs
  <1> HIDE DEF r, d, tiny, all
  <1>3. /\ {} # {NX} /\ {OF, NX} # {NX} /\ UF \notin {} /\ UF \notin {NX} /\ UF \notin {OF, NX}
        /\ {UF, NX} \ {UF} = {NX}
    BY DEF OF, NX, UF
  <1>4. MagnitudeOf(Signed(negative, r.magnitude)) = r.magnitude
    <2>1. /\ Infinity \in Nat /\ HiddenBit \in Nat /\ Sign \in Nat
          /\ Infinity < Sign
      BY FormatFacts, InfinityPlace
    <2>2. r.magnitude \in 0 .. Sign - 1
      BY <1>2, <2>1
    <2>3. (Sign + r.magnitude) % Sign = r.magnitude /\ r.magnitude % Sign = r.magnitude
      BY <2>1, <2>2
    <2> QED  BY <2>3 DEF MagnitudeOf, Signed
  <1>5. HiddenBit \in Nat /\ r.magnitude \in Nat
    BY <1>2, FormatFacts
  <1>6. UF \notin r.flags
    BY <1>2, <1>3
  <1>7. ASSUME ~(r.flags = {NX} /\ tiny)
        PROVE  all = Result(Signed(negative, r.magnitude), r.flags) /\ Raised(all) = all
               /\ Packs(negative, r) = all
    <2>1. all = Result(Signed(negative, r.magnitude), r.flags)
      BY <1>1, <1>7
    <2>2. Raised(all) = all
      BY <1>6, <2>1, RaisedOther
    <2>3. ~(r.flags = {NX} /\ r.magnitude < HiddenBit)
      BY <1>2, <1>7
    <2> QED  BY <2>1, <2>2, <2>3 DEF Packs
  <1>8. ASSUME r.flags = {NX}, tiny PROVE Packs(negative, r) = Raised(all)
    <2>1. all = Result(Signed(negative, r.magnitude), {UF, NX})
      BY <1>1, <1>8
    <2>2. all.value = Signed(negative, r.magnitude) /\ all.flags = {UF, NX}
      BY <2>1 DEF Result
    <2>3. CASE r.magnitude = HiddenBit
      <3>1. [all EXCEPT !.flags = @ \ {UF}] = Result(Signed(negative, r.magnitude), {NX})
        BY <1>3, <2>1 DEF Result
      <3>2. Raised(all) = Result(Signed(negative, r.magnitude), {NX})
        BY <1>4, <2>2, <2>3, <3>1 DEF Raised
      <3> QED  BY <1>5, <1>8, <2>3, <3>2 DEF Packs
    <2>4. CASE r.magnitude < HiddenBit
      <3>1. Raised(all) = all
        BY <1>4, <1>5, <2>2, <2>4 DEF Raised
      <3> QED  BY <1>8, <2>1, <2>4, <3>1 DEF Packs
    <2> QED  BY <1>2, <1>5, <1>8, <2>3, <2>4
  <1>9. Packs(negative, r) = Raised(all)
    BY <1>7, <1>8
  <1> QED  BY <1>2, <1>3, <1>7, <1>9 DEF r, all

-----------------------------------------------------------------------------
\* Two numbers in the ratio of two powers are in that of any powers as far apart.
InRatio(h, g, m, n) == h * Power[m] = g * Power[n]

\* Such a ratio depends on the distance of the powers alone.
LEMMA PowerRatio ==
    ASSUME NEW h \in Nat, NEW g \in Nat, NEW m \in Nat, NEW n \in Nat, NEW i \in Nat, NEW j \in Nat,
           InRatio(h, g, m, n), j - i = n - m
    PROVE  InRatio(h, g, i, j)
  <1> DEFINE p == Power[m]
             q == Power[n]
             r == Power[i]
             s == Power[j]
  <1>1. p \in Nat \ {0} /\ q \in Nat /\ r \in Nat /\ s \in Nat
    BY PowerFacts
  <1>2. p * s = q * r
    <2>1. m + j = n + i
      OBVIOUS
    <2>2. Power[m + j] = Power[m] * Power[j] /\ Power[n + i] = Power[n] * Power[i]
      BY PowerSum
    <2> QED  BY <2>1, <2>2
  <1>3. h * p = g * q
    BY DEF InRatio
  <1> HIDE DEF p, q, r, s
  <1>4. (h * r) * p = (g * s) * p
    <2>1. (h * r) * p = (h * p) * r /\ (g * s) * p = g * (p * s) /\ g * (q * r) = (g * q) * r
      BY <1>1, SMT
    <2> QED  BY <1>2, <1>3, <2>1
  <1>5. h * r \in Nat /\ g * s \in Nat
    BY <1>1, Products
  <1> DEFINE u == h * r
             v == g * s
  <1> HIDE DEF u, v
  <1>6. u * p = v * p => u = v
    BY <1>1, <1>5, SMT DEF u, v
  <1> QED  BY <1>4, <1>6 DEF u, v, r, s, InRatio

\* A fraction is an order.
LEMMA FractionIsOrder ==
    ASSUME NEW num \in Int, NEW den \in Nat \ {0}
    PROVE  IsOrder([h \in Nat |-> 2 * num - h * den])
  <1> DEFINE f == [h \in Nat |-> 2 * num - h * den]
  <1>1. \A h \in Nat : f[h] \in Int
    <2>1. \A h \in Nat : h * den \in Nat
      BY Products
    <2> QED  BY <2>1
  <1>2. ASSUME NEW g \in Nat, NEW h \in Nat, g <= h, f[h] >= 0 PROVE f[g] >= 0
    <2>1. g * den <= h * den /\ g * den \in Nat /\ h * den \in Nat
      BY <1>2, SMT
    <2> QED  BY <1>2, <2>1
  <1> HIDE DEF f
  <1> QED  BY <1>1, <1>2 DEF IsOrder, f

\* A fraction and its double.
LEMMA FractionOrders ==
    ASSUME NEW num \in Nat, NEW den \in Nat \ {0}
    PROVE  AreOrders([h \in Nat |-> 2 * num - h * den], [h \in Nat |-> 4 * num - h * den])
  <1> DEFINE once == [h \in Nat |-> 2 * num - h * den]
             twice == [h \in Nat |-> 4 * num - h * den]
             n == 2 * num
  <1>1. n \in Int /\ num \in Int
    OBVIOUS
  <1>2. IsOrder(once) /\ IsOrder([h \in Nat |-> 2 * n - h * den])
    <2> HIDE DEF n
    <2> QED  BY <1>1, FractionIsOrder
  <1>3. [h \in Nat |-> 2 * n - h * den] = twice
    OBVIOUS
  <1>4. once[0] >= 0
    <2>1. 0 * den = 0
      OBVIOUS
    <2> QED  BY <2>1
  <1>5. ASSUME NEW h \in Nat PROVE SameSide(once[h], twice[2 * h])
    <2>1. once[h] = 2 * num - h * den /\ twice[2 * h] = 4 * num - (2 * h) * den
      OBVIOUS
    <2>2. (2 * h) * den = 2 * (h * den) /\ h * den \in Nat
      BY SMT
    <2> QED  BY <2>1, <2>2 DEF SameSide
  <1>6. IsOrder(twice)
    BY <1>2, <1>3, Zenon
  <1> HIDE DEF once, twice
  <1>7. AreOrders(once, twice)
    BY <1>2, <1>4, <1>5, <1>6 DEF AreOrders
  <1> QED  BY <1>7 DEF once, twice

\* A significand for full / den, of which the reference may know no more than
\* that it is beyond the largest float.
StandsFor(S, e, full, num, den) ==
    /\ IsSignificand(S) /\ e \in Int
    /\ full \in Nat /\ num \in Nat /\ den \in Nat \ {0}
    /\ num = full \/ (full >= num /\ num > Grid[Infinity] * den)
    /\ \/ Jams(S, e, [h \in Nat |-> 2 * full - h * den]) /\ S >= 4 * HiddenBit
       \/ IsExactly(S, e, [h \in Nat |-> 2 * full - h * den])

\* Such a one is rounded to the reference's float, with the flags of the unit.
LEMMA FractionRounded ==
    ASSUME NEW S, NEW e, NEW full, NEW num, NEW den, StandsFor(S, e, full, num, den),
           NEW rm \in RoundingModes, NEW negative \in BOOLEAN
    PROVE  round_and_pack(negative, e, S, rm) = Raised(RoundedQuotient(num, den, negative)[rm])
  <1> DEFINE exact == [h \in Nat |-> 2 * full - h * den]
             excess == [h \in Nat |-> 2 * num - h * den]
             r == Rounded(Grid, 0, Infinity, excess, negative)
             G == Grid[Infinity]
  <1>0. /\ IsSignificand(S) /\ e \in Int
        /\ full \in Nat /\ num \in Nat /\ den \in Nat \ {0}
        /\ num = full \/ (full >= num /\ num > Grid[Infinity] * den)
        /\ \/ Jams(S, e, [h \in Nat |-> 2 * full - h * den]) /\ S >= 4 * HiddenBit
           \/ IsExactly(S, e, [h \in Nat |-> 2 * full - h * den])
    BY DEF StandsFor
  <1>1. IsOrder(exact)
    <2>1. full \in Int
      BY <1>0
    <2> QED  BY <1>0, <2>1, FractionIsOrder
  <1>2. G \in Nat /\ G > 0
    BY GridTop
  <1> HIDE DEF G
  <1>3. ASSUME NEW h \in 0 .. 2 * G
        PROVE  excess[h] \in Int /\ SameSide(excess[h], exact[h])
    <2>1. h \in Nat /\ h * den \in Nat /\ G * den \in Nat
      BY <1>0, <1>2, SMT
    <2>2. excess[h] = 2 * num - h * den /\ exact[h] = 2 * full - h * den
      BY <2>1
    <2>3. CASE num = full
      BY <1>0, <2>1, <2>2, <2>3 DEF SameSide
    <2>4. CASE full >= num /\ num > G * den
      <3>1. h * den <= 2 * (G * den)
        <4>1. h * den <= (2 * G) * den /\ (2 * G) * den = 2 * (G * den)
          BY <1>0, <1>2, <2>1, SMT
        <4> QED  BY <4>1
      <3>2. excess[h] > 0 /\ exact[h] > 0 /\ excess[h] \in Int /\ exact[h] \in Int
        BY <1>0, <2>1, <2>2, <2>4, <3>1
      <3> QED  BY <3>2 DEF SameSide
    <2> QED  BY <1>0, <2>3, <2>4 DEF G
  <1> DEFINE twice == [h \in Nat |-> 4 * num - h * den]
  <1>4. RoundedQuotient(num, den, negative) = Delivered(excess, twice, negative)
        /\ AreOrders(excess, twice)
    BY <1>0, FractionOrders DEF RoundedQuotient
  <1> HIDE DEF exact, excess, twice
  <1>5. (Jams(S, e, exact) /\ S >= 4 * HiddenBit) \/ IsExactly(S, e, exact)
    BY <1>0 DEF exact
  <1>6. \A h \in 0 .. 2 * Grid[Infinity] : excess[h] \in Int /\ SameSide(excess[h], exact[h])
    BY <1>3 DEF G
  <1>7. round_and_pack(negative, e, S, rm) = Packs(negative, r[rm])
    BY <1>0, <1>1, <1>5, <1>6, CorrectlyRounded
  <1>8. Packs(negative, r[rm]) = Raised(Delivered(excess, twice, negative)[rm])
    BY <1>4, DeliveredIs
  <1> QED  BY <1>4, <1>7, <1>8

\* A fraction that is a float already is rounded to itself.
LEMMA ExactFraction ==
    ASSUME NEW b \in Nat, b < Infinity, NEW den \in Nat \ {0},
           NEW negative, NEW rm \in RoundingModes
    PROVE  RoundedQuotient(Grid[b] * den, den, negative)[rm] = Exact(negative, b)
  <1> DEFINE g == Grid[b]
             excess == [h \in Nat |-> 2 * (g * den) - h * den]
             r == Rounded(Grid, 0, Infinity, excess, negative)[rm]
  <1>1. Infinity \in Nat /\ b \in 0 .. Infinity
    BY FormatFacts
  <1>2. g \in Nat
    BY <1>1, GridGrows
  <1>3. ASSUME NEW k \in Nat
        PROVE  /\ excess[2 * k] >= 0 <=> k <= g
               /\ k = g => excess[2 * k] = 0
    <2>1. excess[2 * k] = 2 * (g * den) - (2 * k) * den
      OBVIOUS
    <2> HIDE DEF g, excess
    <2>2. (2 * k) * den = 2 * (k * den) /\ k * den \in Nat /\ g * den \in Nat
      BY <1>2, SMT
    <2>3. k <= g => k * den <= g * den
      BY <1>2, SMT
    <2>4. k > g => k * den > g * den
      BY <1>2, SMT
    <2> QED  BY <1>2, <2>1, <2>2, <2>3, <2>4
  <1> DEFINE twice == [h \in Nat |-> 4 * (g * den) - h * den]
             d == Rounded(Grid, 0, Infinity, twice, negative)[rm]
  <1>4. RoundedQuotient(g * den, den, negative)[rm]
           = Result(Signed(negative, r.magnitude),
                    IF r.flags = {NX} /\ d.magnitude < 2 * HiddenBit THEN {UF, NX} ELSE r.flags)
    BY DEF RoundedQuotient, Delivered
  <1> HIDE DEF d
  <1> HIDE DEF g, excess
  <1>5. ASSUME NEW c \in 0 .. Infinity PROVE excess[2 * Grid[c]] >= 0 <=> c <= b
    <2>1. Grid[c] \in Nat /\ (b < c <=> g < Grid[c])
      BY <1>1, GridGrows DEF g
    <2>2. excess[2 * Grid[c]] >= 0 <=> Grid[c] <= g
      BY <1>3, <2>1
    <2> QED  BY <1>1, <1>2, <2>1, <2>2
  <1>6. r = Chosen(b, excess[2 * Grid[b]], excess[Grid[b] + Grid[b + 1]], negative, rm)
    BY <1>1, <1>5, RoundedIs
  <1>7. excess[2 * Grid[b]] = 0
    BY <1>2, <1>3 DEF g
  <1>8. r.magnitude = b /\ r.flags = {}
    <2>1. b # Infinity
      BY <1>1
    <2> HIDE DEF r
    <2> QED  BY <1>6, <1>7, <2>1 DEF Chosen, Choice
  <1> QED  BY <1>4, <1>8 DEF g, Exact

\* So is a number.
LEMMA ExactFloat ==
    ASSUME NEW b \in Nat, b < Infinity, NEW negative, NEW rm \in RoundingModes
    PROVE  RoundedQuotient(Grid[b], 1, negative)[rm] = Exact(negative, b)
  <1>1. Grid[b] \in Nat
    <2>1. b \in 0 .. Infinity
      BY FormatFacts
    <2> QED  BY <2>1, GridGrows
  <1>2. 1 \in Nat \ {0}
    OBVIOUS
  <1>3. RoundedQuotient(Grid[b] * 1, 1, negative)[rm] = Exact(negative, b)
    BY <1>2, ExactFraction
  <1>4. Grid[b] * 1 = Grid[b]
    BY <1>1
  <1> QED  BY <1>3, <1>4

\* A whole number of smallest subnormals is rounded to the reference's float
\* and flags: below the smallest normal it is a float.
LEMMA WholeRounded ==
    ASSUME NEW num \in Nat, NEW negative \in BOOLEAN, NEW rm \in RoundingModes
    PROVE  LET whole == RoundedQuotient(num, 1, negative)[rm]
               r == Rounded(Grid, 0, Infinity, [h \in Nat |-> 2 * num - h * 1], negative)[rm]
           IN  /\ Raised(whole) = whole
               /\ num >= HiddenBit => whole = Result(Signed(negative, r.magnitude), r.flags)
  <1>1. 1 \in Nat \ {0} /\ HiddenBit \in Nat /\ HiddenBit >= 8 /\ 2 * HiddenBit < Infinity
        /\ Infinity \in Nat /\ \A n \in 0 .. 2 * HiddenBit : Grid[n] = n
    BY FormatFacts, SmallGrid
  <1>2. num < HiddenBit => RoundedQuotient(num, 1, negative)[rm] = Exact(negative, num)
    <2> SUFFICES ASSUME num < HiddenBit
                 PROVE  RoundedQuotient(num, 1, negative)[rm] = Exact(negative, num)
      OBVIOUS
    <2>1. num \in 0 .. 2 * HiddenBit /\ num < Infinity
      BY <1>1
    <2> QED  BY <1>1, <2>1, ExactFloat
  <1>3. Raised(Exact(negative, num)) = Exact(negative, num)
    BY RaisedOther DEF Exact
  <1> DEFINE once == [h \in Nat |-> 2 * num - h * 1]
             twice == [h \in Nat |-> 4 * num - h * 1]
             r == Rounded(Grid, 0, Infinity, once, negative)[rm]
  <1>4. AreOrders(once, twice)
    BY <1>1, FractionOrders
  <1>5. once[2 * HiddenBit] = 2 * num - 2 * HiddenBit
    BY <1>1
  <1>6. RoundedQuotient(num, 1, negative) = Delivered(once, twice, negative)
    BY DEF RoundedQuotient
  <1> HIDE DEF once, twice
  <1>7. num >= HiddenBit =>
           /\ RoundedQuotient(num, 1, negative)[rm] = Result(Signed(negative, r.magnitude), r.flags)
           /\ Raised(RoundedQuotient(num, 1, negative)[rm]) = RoundedQuotient(num, 1, negative)[rm]
    <2>1. once[2 * HiddenBit] >= 0 =>
             /\ Delivered(once, twice, negative)[rm] = Result(Signed(negative, r.magnitude), r.flags)
             /\ Raised(Delivered(once, twice, negative)[rm]) = Delivered(once, twice, negative)[rm]
      BY <1>4, DeliveredIs
    <2> QED  BY <1>1, <1>5, <1>6, <2>1
  <1> QED  BY <1>1, <1>2, <1>3, <1>7 DEF once

\* The smallest subnormals in one.
LEMMA UnitIs ==
    /\ FRACBITS - MinExponent \in Nat
    /\ Unit = Power[FRACBITS - MinExponent] /\ Unit \in Nat \ {0}
  <1>1. /\ FRACBITS \in Nat /\ FRACBITS >= 3 /\ Power[EXPBITS - 1] \in Nat
        /\ Power[EXPBITS - 1] >= 2 /\ MinExponent = 2 - Power[EXPBITS - 1]
    BY FormatFacts
  <1>2. FRACBITS - MinExponent \in Nat
    BY <1>1
  <1>3. Power[FRACBITS - MinExponent] \in Nat \ {0}
    BY <1>2, PowerFacts
  <1> QED  BY <1>2, <1>3 DEF Unit

\* The reference's product is exact, or beyond the largest float.
LEMMA TimesIs ==
    ASSUME NEW m \in Nat, NEW n \in Nat
    PROVE  /\ Times(m, n) \in Nat
           /\ \/ Times(m, n) = m * n
              \/ m * n >= Times(m, n) /\ Times(m, n) >= (2 * Grid[Infinity]) * Unit
           /\ Times(m, n) = 0 <=> m = 0 \/ n = 0
  <1> DEFINE enough == 2 * Grid[Infinity] * Unit
             q == enough \div m
  <1>1. Grid[Infinity] \in Nat /\ Grid[Infinity] > 0
    BY GridTop
  <1>2. enough \in Nat /\ enough = (2 * Grid[Infinity]) * Unit /\ enough > 0
    BY <1>1, UnitIs, SMT
  <1> HIDE DEF enough
  <1>3. m * n \in Nat /\ (m * n = 0 <=> m = 0 \/ n = 0)
    BY SMT
  <1>4. Times(m, n) = IF m # 0 /\ n > q THEN enough ELSE m * n
    BY DEF Times, enough
  <1>5. CASE m # 0 /\ n > q
    <2>1. enough = m * q + (enough % m) /\ enough % m \in 0 .. m - 1 /\ q \in Nat
      BY <1>2, <1>5, DivModNat
    <2> DEFINE r == enough % m
    <2> HIDE DEF q, r
    <2>2. m * n >= m * (q + 1) /\ m * (q + 1) = m * q + m /\ m * q \in Nat
      BY <1>5, <2>1, SMT
    <2>3. m * n >= enough
      BY <1>2, <1>3, <2>1, <2>2 DEF r
    <2>4. n # 0
      BY <1>5, <2>1
    <2> QED  BY <1>2, <1>3, <1>4, <1>5, <2>3, <2>4
  <1>6. CASE ~(m # 0 /\ n > q)
    BY <1>3, <1>4, <1>6
  <1> QED  BY <1>5, <1>6

-----------------------------------------------------------------------------
\* The numbers in a float: magnitude g, significand s and place a.
IsScaled(u, g) ==
    /\ g \in Nat \ {0}
    /\ u.significand \in HiddenBit .. 2 * HiddenBit - 1
    /\ u.exponent \in Int /\ u.exponent >= MinExponent - FRACBITS
    /\ u.exponent <= MaxExponent
    /\ g * HiddenBit = u.significand * Power[u.exponent - MinExponent + FRACBITS]

\* A finite float that is not zero is unpacked to its number of the grid.
LEMMA ScaledIs ==
    ASSUME NEW raw \in Floats, FiniteNonzero(raw)
    PROVE  IsScaled(Unpack(raw), Grid[MagnitudeOf(raw)])
  <1> DEFINE m == MagnitudeOf(raw)
  <1>1. IsNumber(Unpack(raw), m)
    BY UnpackFacts
  <1>2. m \in Nat /\ m # 0 /\ m < Infinity /\ Infinity \in Nat
    BY RawParts, FormatFacts DEF FiniteNonzero, ZeroOf
  <1> HIDE DEF m
  <1>3. m \in 0 .. Infinity /\ 0 \in 0 .. Infinity /\ 0 < m
    BY <1>2
  <1>4. Grid[m] \in Nat /\ Grid[0] = 0 /\ Grid[0] < Grid[m]
    BY <1>3, GridGrows
  <1>5. Grid[m] \in Nat \ {0}
    BY <1>4
  <1> QED  BY <1>1, <1>5, FormatFacts DEF IsScaled, IsNumber, m

\* One is no tiny number.
LEMMA UnitNotTiny == Unit \in Nat /\ Unit >= HiddenBit
  <1>1. /\ FRACBITS \in Nat /\ HiddenBit = Power[FRACBITS] /\ HiddenBit \in Nat
        /\ MinExponent = 2 - Power[EXPBITS - 1] /\ Power[EXPBITS - 1] \in Nat
        /\ Power[EXPBITS - 1] >= 2
    BY FormatFacts
  <1>2. Unit = Power[FRACBITS - MinExponent] /\ Unit \in Nat
    BY UnitIs
  <1> DEFINE n == FRACBITS - MinExponent
  <1>3. n \in Nat /\ FRACBITS <= n
    BY <1>1
  <1> HIDE DEF n
  <1>4. FRACBITS < n => Power[FRACBITS] < Power[n]
    BY <1>1, <1>3, PowerGrows
  <1> QED  BY <1>1, <1>2, <1>3, <1>4 DEF n

\* The significand of a product is jammed where the product says so.
LEMMA ProductRounded ==
    ASSUME NEW lhs, NEW rhs, NEW gl, NEW gr, IsScaled(lhs, gl), IsScaled(rhs, gr),
           NEW rm \in RoundingModes, NEW negative \in BOOLEAN
    PROVE  MultiplyFinite(lhs, rhs, negative, rm)
              = Raised(RoundedQuotient(Times(gl, gr), Unit, negative)[rm])
  <1> DEFINE H == HiddenBit
             F == FRACBITS
             M == MinExponent
             sl == lhs.significand
             sr == rhs.significand
             el == lhs.exponent
             er == rhs.exponent
             al == el - M + F
             ar == er - M + F
             p == sl * sr
             two == p >= 2^(2 * F + 1)
             a == IF two THEN 1 ELSE 0
             k == F - 3 + a
             S == Jam(p, Power[k])
             e == el + er + a
             full == gl * gr
             exact == [h \in Nat |-> 2 * full - h * Unit]
  <1>1. /\ H \in Nat /\ H >= 8 /\ F \in Nat /\ F >= 3 /\ H = Power[F] /\ M \in Int
        /\ WIDE \in Nat /\ WIDE >= 2 * F + 6 /\ Power[EXPBITS] \in Nat
        /\ \A n \in 0 .. WIDE + 3 : 2^n = Power[n]
    BY FormatFacts
  <1>2. /\ gl \in Nat \ {0} /\ gr \in Nat \ {0}
        /\ sl \in Nat /\ sr \in Nat /\ H <= sl /\ sl < 2 * H /\ H <= sr /\ sr < 2 * H
        /\ el \in Int /\ er \in Int /\ al \in Nat /\ ar \in Nat
        /\ gl * H = sl * Power[al] /\ gr * H = sr * Power[ar]
    BY <1>1 DEF IsScaled
  <1>3. 2^(2 * F + 1) = 2 * (H * H)
    <2>1. 2 * F + 1 \in 0 .. WIDE + 3 /\ 2 * F + 1 = (F + F) + 1 /\ F + F \in Nat
      BY <1>1
    <2>2. 2^(2 * F + 1) = Power[(F + F) + 1]
      BY <1>1, <2>1
    <2>3. Power[(F + F) + 1] = 2 * Power[F + F]
      BY <2>1, PowerFacts
    <2>4. Power[F + F] = Power[F] * Power[F]
      BY <1>1, PowerSum
    <2> QED  BY <1>1, <2>2, <2>3, <2>4
  <1> HIDE DEF H, F, M, sl, sr, el, er
  <1> DEFINE hh == H * H
  <1>4. p \in Nat /\ hh \in Nat /\ hh <= p /\ p < 4 * hh /\ hh >= 1
    <2>1. sl * sr >= H * sr /\ H * sr >= H * H /\ sl * sr < (2 * H) * sr
          /\ (2 * H) * sr < (2 * H) * (2 * H) /\ H * sr \in Nat
      BY <1>1, <1>2, SMT
    <2>2. (2 * H) * (2 * H) = 4 * (H * H) /\ H * H \in Nat /\ H * H >= 1
          /\ (2 * H) * sr \in Nat /\ sl * sr \in Nat
      BY <1>1, <1>2, SMT
    <2> QED  BY <2>1, <2>2
  <1> HIDE DEF p
  <1>5. a \in {0, 1} /\ (a = 0 => hh <= p /\ p < 2 * hh) /\ (a = 1 => 2 * hh <= p /\ p < 4 * hh)
    BY <1>3, <1>4
  <1> HIDE DEF two, a, k
  <1>6. k \in Nat /\ k = F - 3 + a /\ Power[k] \in Nat \ {0}
    BY <1>1, <1>5, PowerFacts DEF k
  <1>7. (8 * H) * Power[k] = (IF a = 1 THEN 2 * hh ELSE hh)
    <2>0. F + 3 \in Nat /\ Power[F + 3] = 8 * H
      BY <1>1, PlacePowers DEF F, H
    <2>1. Power[(F + 3) + k] = Power[F + 3] * Power[k] /\ Power[F + 3] = 8 * H
      BY <1>6, <2>0, PowerSum
    <2>2. CASE a = 0
      <3>1. (F + 3) + k = F + F
        BY <1>1, <1>6, <2>2
      <3>2. Power[F + F] = hh
        BY <1>1, PowerSum
      <3> QED  BY <2>1, <2>2, <3>1, <3>2
    <2>3. CASE a = 1
      <3>1. (F + 3) + k = (F + F) + 1 /\ F + F \in Nat
        BY <1>1, <1>6, <2>3
      <3>2. Power[F + F] = hh
        BY <1>1, PowerSum
      <3>3. Power[(F + F) + 1] = 2 * Power[F + F]
        BY <3>1, PowerFacts
      <3> QED  BY <2>1, <2>3, <3>1, <3>2, <3>3
    <2> QED  BY <1>5, <2>2, <2>3
  <1> HIDE DEF hh
  <1>8. S \in Nat /\ S >= 8 * H /\ S < 16 * H
    <2> DEFINE q == Power[k]
    <2>1. q \in Nat \ {0}
      BY <1>6
    <2> HIDE DEF q
    <2>2. (2 * (4 * H)) * q = (8 * H) * q /\ (2 * (8 * H)) * q = 2 * ((8 * H) * q)
      BY <1>1, <2>1, SMT
    <2>3. 4 * H \in Nat /\ 8 * H \in Nat
      BY <1>1
    <2>4. p >= (2 * (4 * H)) * q /\ ~(p >= (2 * (8 * H)) * q)
      BY <1>4, <1>5, <1>7, <2>2 DEF q
    <2>5. Jam(p, q) >= 2 * (4 * H) /\ ~(Jam(p, q) >= 2 * (8 * H))
      BY <1>4, <2>1, <2>3, <2>4, JamBounds
    <2>6. Jam(p, q) \in Nat
      BY <1>4, <2>1, JamSides
    <2> QED  BY <1>1, <2>5, <2>6 DEF q
  <1> HIDE DEF S
  <1>9. IsSignificand(S) /\ S >= 4 * HiddenBit
    <2>1. 16 * H <= Power[WordBits] /\ WordBits \in Nat /\ Power[WordBits] \in Nat
          /\ Power[WordBits + 1] = 2 * Power[WordBits]
      BY PlacePowers, PowerFacts DEF H
    <2> QED  BY <1>1, <1>8, <2>1 DEF IsSignificand, H
  <1>10. MultiplyFinite(lhs, rhs, negative, rm) = round_and_pack(negative, e, S, rm)
    <2>1. F - (IF two THEN 2 ELSE 3) = k
      BY <1>1, <1>6 DEF a
    <2>2. k < WordBits
      BY <1>1, <1>5, <1>6 DEF WordBits
    <2>3. shift_right_jam(p, k) = S
      BY <1>4, <1>6, <2>2, ShiftRightJam DEF S
    <2>4. Product(lhs, rhs) = [significand |-> p, at_least_two |-> two, exponent |-> e]
      BY DEF Product, p, two, e, a, sl, sr, el, er, F
    <2>5. MultiplyFinite(lhs, rhs, negative, rm)
             = round_and_pack(negative, e, shift_right_jam(p, F - (IF two THEN 2 ELSE 3)), rm)
      <3> HIDE DEF e
      <3> QED  BY <2>4 DEF MultiplyFinite, F
    <2> QED  BY <2>1, <2>3, <2>5
  <1>11. full \in Nat
    BY <1>2, Products
  <1> HIDE DEF full
  <1>12. Jams(S, e, exact)
    <2> SUFFICES ASSUME NEW h \in Nat, NEW c \in Nat, NEW m \in Nat, NEW n \in Nat,
                        n - m = e - M - 2, h * Power[m] = (2 * c) * Power[n]
                 PROVE  SameSide(exact[h], S - 2 * c)
      BY DEF Jams, M
    <2> DEFINE q == Power[k]
               t == Power[al + ar]
               i == (F - M) + (F + F)
               j == ((al + ar) + k) + 1
    <2>1. SameSide(S - 2 * c, p - (2 * c) * q)
      <3>1. \A z \in Int : SameSide(S - 2 * z, p - (2 * z) * Power[k])
        BY <1>4, <1>6, JamSides DEF S
      <3>2. c \in Int
        OBVIOUS
      <3> QED  BY <3>1, <3>2, Zenon
    <2>2. F - M \in Nat /\ Unit = Power[F - M] /\ Unit \in Nat \ {0}
      BY UnitIs DEF F, M
    <2>3. i \in Nat /\ j \in Nat /\ j - i = n - m /\ 2 * c \in Nat
      BY <1>1, <1>2, <1>5, <1>6, <2>2
    <2>4. h * Power[i] = (2 * c) * Power[j]
      <3> HIDE DEF i, j
      <3> DEFINE g == 2 * c
      <3>1. g \in Nat /\ h * Power[m] = g * Power[n]
        BY <2>3
      <3> HIDE DEF g
      <3>0. i \in Nat /\ j \in Nat /\ j - i = n - m
        BY <2>3
      <3>2. InRatio(h, g, m, n)
        BY <3>1 DEF InRatio
      <3>3. InRatio(h, g, i, j)
        BY <3>0, <3>1, <3>2, PowerRatio
      <3> QED  BY <3>3 DEF InRatio, g
    <2>5. t \in Nat \ {0} /\ q \in Nat \ {0} /\ t = Power[al] * Power[ar]
          /\ Power[al] \in Nat /\ Power[ar] \in Nat
      <3>1. al + ar \in Nat
        BY <1>2
      <3>2. t = Power[al] * Power[ar]
        BY <1>2, PowerSum
      <3> QED  BY <1>2, <1>6, <3>1, <3>2, PowerFacts
    <2>6. Power[i] = Unit * hh
      <3>1. F + F \in Nat
        BY <1>1
      <3>2. Power[F + F] = hh
        BY <1>1, PowerSum DEF hh
      <3> QED  BY <2>2, <3>1, <3>2, PowerSum
    <2>7. Power[j] = 2 * (t * q)
      <3>1. al + ar \in Nat /\ (al + ar) + k \in Nat
        BY <1>2, <1>6
      <3>2. Power[(al + ar) + k] = t * q
        BY <1>6, <3>1, PowerSum
      <3>3. Power[((al + ar) + k) + 1] = 2 * Power[(al + ar) + k]
        BY <3>1, PowerFacts
      <3> QED  BY <3>2, <3>3
    <2>8. full * hh = p * t
      <3>1. (gl * H) * (gr * H) = (gl * gr) * (H * H)
        BY <1>1, <1>2, SMT
      <3>2. (sl * Power[al]) * (sr * Power[ar]) = (sl * sr) * (Power[al] * Power[ar])
        BY <1>2, <2>5, SMT
      <3> QED  BY <1>2, <2>5, <3>1, <3>2 DEF full, hh, p
    <2> HIDE DEF q, t, i, j
    <2>9. (2 * full - h * Unit) * hh = (p - (2 * c) * q) * (2 * t)
      <3>1. (2 * full - h * Unit) * hh = 2 * (full * hh) - h * (Unit * hh)
        BY <1>4, <1>11, <2>2, SMT
      <3>2. (p - (2 * c) * q) * (2 * t) = 2 * (p * t) - (2 * c) * (2 * (t * q))
        <4>1. p \in Int /\ (2 * c) * q \in Int /\ 2 * t \in Int
          BY <1>4, <2>5, SMT
        <4>2. (p - (2 * c) * q) * (2 * t) = p * (2 * t) - ((2 * c) * q) * (2 * t)
          BY <4>1, SMT
        <4>3. p * (2 * t) = 2 * (p * t) /\ ((2 * c) * q) * (2 * t) = (2 * c) * (2 * (t * q))
          BY <1>4, <2>5, SMT
        <4> QED  BY <4>2, <4>3
      <3> QED  BY <2>4, <2>6, <2>7, <2>8, <3>1, <3>2
    <2>10. 2 * full - h * Unit \in Int /\ p - (2 * c) * q \in Int
      <3>1. h * Unit \in Nat /\ (2 * c) * q \in Nat
        BY <2>2, <2>5, SMT
      <3> QED  BY <1>4, <1>11, <3>1
    <2>11. SameSide(2 * full - h * Unit, (2 * full - h * Unit) * hh)
           /\ SameSide(p - (2 * c) * q, (p - (2 * c) * q) * (2 * t))
      <3>1. hh \in Nat \ {0} /\ 2 * t \in Nat \ {0}
        BY <1>4, <2>5
      <3> QED  BY <2>10, <3>1, SideScaled
    <2>12. exact[h] = 2 * full - h * Unit
      OBVIOUS
    <2> QED  BY <2>1, <2>9, <2>11, <2>12 DEF SameSide
  <1>13. /\ Times(gl, gr) \in Nat
         /\ \/ Times(gl, gr) = full
            \/ full >= Times(gl, gr) /\ Times(gl, gr) >= (2 * Grid[Infinity]) * Unit
    BY <1>2, TimesIs DEF full
  <1>14. e \in Int
    BY <1>2, <1>5
  <1>15. Unit \in Nat \ {0}
    BY UnitIs
  <1> HIDE DEF e
  <1>16. round_and_pack(negative, e, S, rm)
            = Raised(RoundedQuotient(Times(gl, gr), Unit, negative)[rm])
    <2> DEFINE num == Times(gl, gr)
               den == Unit
    <2>1. num \in Nat /\ (num = full \/ (full >= num /\ num > Grid[Infinity] * den))
          /\ den \in Nat \ {0}
      <3> DEFINE G == Grid[Infinity]
      <3>1. G \in Nat /\ G > 0
        BY GridTop
      <3> HIDE DEF G
      <3>2. (2 * G) * den > G * den /\ (2 * G) * den \in Nat /\ G * den \in Nat
        BY <1>15, <3>1, SMT
      <3> QED  BY <1>13, <1>15, <3>2 DEF G
    <2> HIDE DEF num
    <2>2. Jams(S, e, [h \in Nat |-> 2 * full - h * den]) /\ S >= 4 * HiddenBit
      BY <1>9, <1>12
    <2> HIDE DEF den, exact
    <2>3. StandsFor(S, e, full, num, den)
      BY <1>9, <1>11, <1>14, <2>1, <2>2 DEF StandsFor
    <2>4. round_and_pack(negative, e, S, rm) = Raised(RoundedQuotient(num, den, negative)[rm])
      BY <2>3, FractionRounded
    <2> QED  BY <2>4 DEF num, den
  <1> QED  BY <1>10, <1>16

-----------------------------------------------------------------------------
\* The reference's reading of a float that is a number.
LEMMA NumberIs ==
    ASSUME NEW raw \in Floats, ~NanOf(raw)
    PROVE  LET g == Grid[MagnitudeOf(raw)]
           IN  /\ g \in Nat /\ (g = 0 <=> ZeroOf(raw))
               /\ Number(raw) = IF IsNegative(raw) THEN -g ELSE g
               /\ Number(raw) \in Int /\ Abs(Number(raw)) = g
  <1> DEFINE m == MagnitudeOf(raw)
             g == Grid[m]
  <1>1. m \in 0 .. Infinity /\ 0 \in 0 .. Infinity /\ IsNegative(raw) \in BOOLEAN
    <2>1. m \in Nat /\ Infinity \in Nat /\ ~(m > Infinity)
      BY RawParts, FormatFacts DEF NanOf
    <2> HIDE DEF m
    <2> QED  BY <2>1, RawParts
  <1>2. g \in Nat /\ Grid[0] = 0 /\ (g = Grid[0] => m = 0)
    <2> HIDE DEF m
    <2> QED  BY <1>1, GridGrows
  <1>3. g = 0 <=> ZeroOf(raw)
    BY <1>2 DEF ZeroOf
  <1>4. Number(raw) = IF IsNegative(raw) THEN -g ELSE g
    BY DEF Number
  <1> HIDE DEF g
  <1>5. Number(raw) \in Int /\ Abs(Number(raw)) = g
    BY <1>1, <1>2, <1>4 DEF Abs
  <1> QED  BY <1>2, <1>3, <1>4, <1>5 DEF g, m

\* A sum of two terms, by whether they cancel.
LEMMA RoundedSumIs ==
    ASSUME NEW left \in Int, NEW right \in Int, NEW den, NEW first, NEW second,
           NEW rm \in RoundingModes
    PROVE  /\ left + right = 0 =>
                 RoundedSum(left, right, den, first, second)[rm]
                    = Result(Signed(IF first = second THEN first ELSE rm = "Rdn", 0), {})
           /\ left + right # 0 =>
                 RoundedSum(left, right, den, first, second)[rm]
                    = RoundedQuotient(Abs(left + right), den, left + right < 0)[rm]
  BY DEF RoundedSum

\* The sign and the size of the reference's product.
LEMMA TimesSignedIs ==
    ASSUME NEW l \in Floats, NEW r \in Floats, ~NanOf(l), ~NanOf(r)
    PROVE  LET p == Times(Grid[MagnitudeOf(l)], Grid[MagnitudeOf(r)])
           IN  /\ p \in Nat /\ (p = 0 <=> ZeroOf(l) \/ ZeroOf(r))
               /\ TimesSigned(l, r) = IF IsNegative(l) # IsNegative(r) THEN -p ELSE p
  <1> DEFINE gl == Grid[MagnitudeOf(l)]
             gr == Grid[MagnitudeOf(r)]
             p == Times(gl, gr)
  <1>1. gl \in Nat /\ (gl = 0 <=> ZeroOf(l)) /\ Abs(Number(l)) = gl
    BY NumberIs
  <1>2. gr \in Nat /\ (gr = 0 <=> ZeroOf(r)) /\ Abs(Number(r)) = gr
    BY NumberIs
  <1>3. TimesSigned(l, r) = IF IsNegative(l) # IsNegative(r) THEN -p ELSE p
    BY <1>1, <1>2 DEF TimesSigned
  <1> HIDE DEF gl, gr
  <1>4. p \in Nat /\ (p = 0 <=> gl = 0 \/ gr = 0)
    BY <1>1, <1>2, TimesIs
  <1> QED  BY <1>1, <1>2, <1>3, <1>4 DEF gl, gr

\* A NaN among the operands, or none.
LEMMA QuietIs ==
    ASSUME NEW l \in Floats, NEW r \in Floats, NEW rm \in RoundingModes
    PROVE  /\ propagate_nan({Unpack(l), Unpack(r)}) = QuietOf({l, r}, FALSE)[rm]
           /\ Invalid = QuietOf({l, r}, TRUE)[rm]
  <1>1. is_signaling_nan(Unpack(l)) <=> SignalingOf(l)
    BY UnpackFacts
  <1>2. is_signaling_nan(Unpack(r)) <=> SignalingOf(r)
    BY UnpackFacts
  <1>3. (\E u \in {Unpack(l), Unpack(r)} : is_signaling_nan(u))
            <=> (\E b \in {l, r} : SignalingOf(b))
    BY <1>1, <1>2, Zenon
  <1>4. propagate_nan({Unpack(l), Unpack(r)}) = QuietOf({l, r}, FALSE)[rm]
    BY <1>3 DEF propagate_nan, QuietOf, Always
  <1>5. Invalid = QuietOf({l, r}, TRUE)[rm]
    BY DEF Invalid, QuietOf, Always
  <1> QED  BY <1>4, <1>5

\* Results that no underflow is raised for.
LEMMA RaisedExact ==
    /\ \A negative, m : Raised(Exact(negative, m)) = Exact(negative, m)
    /\ \A ops, invalid : \A rm \in RoundingModes :
           Raised(QuietOf(ops, invalid)[rm]) = QuietOf(ops, invalid)[rm]
  <1>1. UF \notin {} /\ UF \notin {NV}
    BY DEF UF, NV
  <1>2. ASSUME NEW ops, NEW invalid, NEW rm \in RoundingModes
        PROVE  Raised(QuietOf(ops, invalid)[rm]) = QuietOf(ops, invalid)[rm]
    <2> DEFINE flags == IF invalid \/ \E b \in ops : SignalingOf(b) THEN {NV} ELSE {}
    <2>1. QuietOf(ops, invalid)[rm] = Result(CanonicalNan, flags)
      BY DEF QuietOf, Always
    <2>2. UF \notin flags
      BY <1>1
    <2> HIDE DEF flags
    <2> QED  BY <2>1, <2>2, RaisedOther
  <1> QED  BY <1>1, <1>2, RaisedOther DEF Exact

\* Both operands of a product that is none: zero times infinity.
LEMMA ZeroTimesInfinityIs ==
    ASSUME NEW l \in Floats, NEW r \in Floats
    PROVE  ZeroTimesInfinity(l, r)
              <=> (ZeroOf(l) /\ InfiniteOf(r)) \/ (InfiniteOf(l) /\ ZeroOf(r))
  <1>1. Infinity # 0
    BY GridTop
  <1>2. {MagnitudeOf(l), MagnitudeOf(r)} = {0, Infinity}
           <=> \/ MagnitudeOf(l) = 0 /\ MagnitudeOf(r) = Infinity
               \/ MagnitudeOf(l) = Infinity /\ MagnitudeOf(r) = 0
    <2> DEFINE i == MagnitudeOf(l)
               j == MagnitudeOf(r)
    <2> HIDE DEF i, j
    <2>1. {i, j} = {0, Infinity} <=> (i = 0 /\ j = Infinity) \/ (i = Infinity /\ j = 0)
      <3>1. ASSUME {i, j} = {0, Infinity}
            PROVE  (i = 0 /\ j = Infinity) \/ (i = Infinity /\ j = 0)
        <4>1. i \in {0, Infinity} /\ j \in {0, Infinity} /\ 0 \in {i, j} /\ Infinity \in {i, j}
          BY <3>1, Zenon
        <4> QED  BY <1>1, <4>1
      <3>2. ASSUME (i = 0 /\ j = Infinity) \/ (i = Infinity /\ j = 0)
            PROVE  {i, j} = {0, Infinity}
        BY <3>2, Zenon
      <3> QED  BY <3>1, <3>2
    <2> QED  BY <2>1 DEF i, j
  <1> QED  BY <1>2 DEF ZeroTimesInfinity, ZeroOf, InfiniteOf

\* FMUL of any two floats is the reference's product of them, as the unit
\* raises it.
LEMMA MultiplyIs ==
    ASSUME NEW l \in Floats, NEW r \in Floats, NEW rm \in RoundingModes
    PROVE  multiply(l, r, rm) = Raised(ProductOf(l, r)[rm])
  <1> DEFINE lhs == Unpack(l)
             rhs == Unpack(r)
             negative == IsNegative(l) # IsNegative(r)
             gl == Grid[MagnitudeOf(l)]
             gr == Grid[MagnitudeOf(r)]
             p == Times(gl, gr)
  <1>1. /\ lhs.sign = IsNegative(l)
        /\ (is_nan(lhs) <=> NanOf(l)) /\ (IsZero(lhs) <=> ZeroOf(l))
        /\ (IsInfinity(lhs) <=> InfiniteOf(l))
    BY UnpackFacts
  <1>2. /\ rhs.sign = IsNegative(r)
        /\ (is_nan(rhs) <=> NanOf(r)) /\ (IsZero(rhs) <=> ZeroOf(r))
        /\ (IsInfinity(rhs) <=> InfiniteOf(r))
    BY UnpackFacts
  <1>3. (lhs.sign # rhs.sign) = negative /\ negative \in BOOLEAN
    BY <1>1, <1>2
  <1>4. /\ propagate_nan({lhs, rhs}) = QuietOf({l, r}, FALSE)[rm]
        /\ Invalid = QuietOf({l, r}, TRUE)[rm]
    BY QuietIs
  <1>5. ZeroTimesInfinity(l, r)
              <=> (ZeroOf(l) /\ InfiniteOf(r)) \/ (InfiniteOf(l) /\ ZeroOf(r))
    BY ZeroTimesInfinityIs
  <1>6. /\ ZeroOf(l) => ~InfiniteOf(l) /\ ~NanOf(l)
        /\ ZeroOf(r) => ~InfiniteOf(r) /\ ~NanOf(r)
        /\ InfiniteOf(l) => ~NanOf(l)
        /\ InfiniteOf(r) => ~NanOf(r)
    <2>1. (ZeroOf(l) => ~InfiniteOf(l) /\ ~NanOf(l)) /\ (InfiniteOf(l) => ~NanOf(l))
      BY UnpackFacts
    <2>2. (ZeroOf(r) => ~InfiniteOf(r) /\ ~NanOf(r)) /\ (InfiniteOf(r) => ~NanOf(r))
      BY UnpackFacts
    <2> QED  BY <2>1, <2>2
  <1>7. /\ FiniteNonzero(l) \/ ZeroOf(l) \/ InfiniteOf(l) \/ NanOf(l)
        /\ FiniteNonzero(r) \/ ZeroOf(r) \/ InfiniteOf(r) \/ NanOf(r)
    <2>1. FiniteNonzero(l) \/ ZeroOf(l) \/ InfiniteOf(l) \/ NanOf(l)
      BY UnpackFacts
    <2>2. FiniteNonzero(r) \/ ZeroOf(r) \/ InfiniteOf(r) \/ NanOf(r)
      BY UnpackFacts
    <2> QED  BY <2>1, <2>2
  <1>8. ASSUME ~NanOf(l), ~NanOf(r), ZeroOf(l) \/ ZeroOf(r)
        PROVE  RoundedSum(TimesSigned(l, r), 0, Unit, negative, negative)[rm] = Exact(negative, 0)
    <2>1. TimesSigned(l, r) = 0
      BY <1>8, TimesSignedIs
    <2> HIDE DEF negative
    <2>2. RoundedSum(0, 0, Unit, negative, negative)[rm]
             = Result(Signed(IF negative = negative THEN negative ELSE rm = "Rdn", 0), {})
      BY RoundedSumIs
    <2> QED  BY <2>1, <2>2 DEF Exact
  <1>9. ASSUME FiniteNonzero(l), FiniteNonzero(r), ~NanOf(l), ~NanOf(r), ~ZeroOf(l), ~ZeroOf(r)
        PROVE  Raised(RoundedSum(TimesSigned(l, r), 0, Unit, negative, negative)[rm])
                  = MultiplyFinite(lhs, rhs, negative, rm)
    <2>1. /\ p \in Nat /\ p # 0
          /\ TimesSigned(l, r) = IF negative THEN -p ELSE p
      BY <1>9, TimesSignedIs
    <2> DEFINE t == TimesSigned(l, r)
    <2> HIDE DEF p, negative, t
    <2>2. t \in Int /\ t + 0 # 0 /\ Abs(t + 0) = p /\ ((t + 0 < 0) = negative)
      BY <1>3, <2>1 DEF t, Abs
    <2>3. RoundedSum(t, 0, Unit, negative, negative)[rm]
             = RoundedQuotient(Abs(t + 0), Unit, t + 0 < 0)[rm]
      BY <2>2, RoundedSumIs
    <2>4. RoundedQuotient(Abs(t + 0), Unit, t + 0 < 0)[rm] = RoundedQuotient(p, Unit, negative)[rm]
      BY <2>2, Zenon
    <2>5. IsScaled(lhs, gl) /\ IsScaled(rhs, gr)
      BY <1>9, ScaledIs
    <2> HIDE DEF lhs, rhs, gl, gr
    <2>6. MultiplyFinite(lhs, rhs, negative, rm)
              = Raised(RoundedQuotient(Times(gl, gr), Unit, negative)[rm])
      BY <1>3, <2>5, ProductRounded
    <2> QED  BY <2>3, <2>4, <2>6 DEF t, p
  <1>10. ProductOf(l, r)[rm] =
            IF NanOf(l) \/ NanOf(r) \/ ZeroTimesInfinity(l, r)
            THEN QuietOf({l, r}, ZeroTimesInfinity(l, r))[rm]
            ELSE IF InfiniteOf(l) \/ InfiniteOf(r) THEN Exact(negative, Infinity)
            ELSE RoundedSum(TimesSigned(l, r), 0, Unit, negative, negative)[rm]
    BY DEF ProductOf, InfinityOf, Always, Exact
  <1>15. /\ Raised(Exact(negative, Infinity)) = Exact(negative, Infinity)
         /\ Raised(Exact(negative, 0)) = Exact(negative, 0)
         /\ Raised(QuietOf({l, r}, FALSE)[rm]) = QuietOf({l, r}, FALSE)[rm]
         /\ Raised(QuietOf({l, r}, TRUE)[rm]) = QuietOf({l, r}, TRUE)[rm]
    BY RaisedExact
  <1>11. multiply(l, r, rm) =
            IF is_nan(lhs) \/ is_nan(rhs) THEN propagate_nan({lhs, rhs})
            ELSE IF (IsZero(lhs) /\ IsInfinity(rhs)) \/ (IsInfinity(lhs) /\ IsZero(rhs))
            THEN Invalid
            ELSE IF IsInfinity(lhs) \/ IsInfinity(rhs) THEN Exact(negative, Infinity)
            ELSE IF IsZero(lhs) \/ IsZero(rhs) THEN Exact(negative, 0)
            ELSE MultiplyFinite(lhs, rhs, negative, rm)
    BY <1>3 DEF multiply
  <1> HIDE DEF lhs, rhs, negative
  <1>12. CASE NanOf(l) \/ NanOf(r)
    <2>1. ~ZeroTimesInfinity(l, r)
      BY <1>5, <1>6, <1>12
    <2>2. QuietOf({l, r}, ZeroTimesInfinity(l, r)) = QuietOf({l, r}, FALSE)
      BY <2>1 DEF QuietOf
    <2>3. ProductOf(l, r)[rm] = QuietOf({l, r}, FALSE)[rm]
      BY <1>10, <1>12, <2>2
    <2>4. multiply(l, r, rm) = propagate_nan({lhs, rhs})
      BY <1>1, <1>2, <1>11, <1>12
    <2> QED  BY <1>4, <1>15, <2>3, <2>4
  <1>13. CASE ZeroTimesInfinity(l, r)
    <2>1. QuietOf({l, r}, ZeroTimesInfinity(l, r)) = QuietOf({l, r}, TRUE)
      BY <1>13 DEF QuietOf
    <2>2. ProductOf(l, r)[rm] = QuietOf({l, r}, TRUE)[rm]
      BY <1>10, <1>13, <2>1
    <2>3. multiply(l, r, rm) = Invalid
      BY <1>1, <1>2, <1>5, <1>6, <1>11, <1>13
    <2> QED  BY <1>4, <1>15, <2>2, <2>3
  <1>14. CASE ~(NanOf(l) \/ NanOf(r) \/ ZeroTimesInfinity(l, r))
    <2>1. CASE InfiniteOf(l) \/ InfiniteOf(r)
      BY <1>1, <1>2, <1>5, <1>10, <1>11, <1>14, <1>15, <2>1
    <2>2. CASE ~(InfiniteOf(l) \/ InfiniteOf(r)) /\ (ZeroOf(l) \/ ZeroOf(r))
      BY <1>1, <1>2, <1>5, <1>8, <1>10, <1>11, <1>14, <1>15, <2>2
    <2>3. CASE ~(InfiniteOf(l) \/ InfiniteOf(r)) /\ ~(ZeroOf(l) \/ ZeroOf(r))
      BY <1>1, <1>2, <1>5, <1>7, <1>9, <1>10, <1>11, <1>14, <1>15, <2>3
    <2> QED  BY <2>1, <2>2, <2>3
  <1> QED  BY <1>12, <1>13, <1>14

-----------------------------------------------------------------------------
\* The runs of the module: two floats, in every combination.
Operands == x \in Floats /\ y \in Floats

\* Every state of the runs is a pair of floats.
LEMMA OperandsAreFloats == Spec => []Operands
  <1>1. Sign \in Nat /\ Sign > 0 /\ 2 * Sign \in Nat \ {0}
    <2>1. HiddenBit \in Nat \ {0} /\ Power[EXPBITS] \in Nat \ {0} /\ Sign = Power[EXPBITS] * HiddenBit
      BY FormatFacts, PowerFacts
    <2> QED  BY <2>1, SMT
  <1>2. Init => Operands
    BY <1>1 DEF Init, Operands, Floats
  <1>3. Operands /\ [Next]_<<x, y>> => Operands'
    <2> SUFFICES ASSUME Operands, [Next]_<<x, y>> PROVE Operands'
      OBVIOUS
    <2>1. CASE Next
      <3> DEFINE n == y + 1
                 s == 2 * Sign
      <3>1. n \in Nat /\ x' = x /\ y' = n % s
        BY <1>1, <2>1 DEF Next, Operands, Floats
      <3>2. s \in Nat \ {0}
        BY <1>1
      <3> HIDE DEF n, s
      <3>3. n % s \in 0 .. s - 1
        BY <3>1, <3>2, DivModNat
      <3> QED  BY <3>1, <3>3 DEF Operands, Floats, s
    <2>2. CASE UNCHANGED <<x, y>>
      BY <2>2 DEF Operands
    <2> QED  BY <2>1, <2>2
  <1> QED  BY <1>2, <1>3, PTL DEF Spec

\* FMUL rounds correctly in every format and every rounding mode, and of the
\* flags of the standards it misses underflow to the smallest normal only.
THEOREM MultiplicationIsExact == Spec => []MulAgrees
  <1>1. Operands => MulAgrees
    <2> SUFFICES ASSUME Operands, NEW rm \in RoundingModes
                 PROVE  binary("Mul", x, y, rm) = Raised(ProductOf(x, y)[rm])
      BY DEF MulAgrees
    <2>1. binary("Mul", x, y, rm) = multiply(x, y, rm)
      BY DEF binary
    <2> QED  BY <2>1, MultiplyIs DEF Operands
  <1> QED  BY <1>1, OperandsAreFloats, PTL

-----------------------------------------------------------------------------
\* The fraction full / den against a significand at e, both scaled to integers:
\* u times twice the one is t times X, which the significand is the q-th part of.
Scales(e, full, den, X, q, u, t) ==
    /\ e \in Int /\ full \in Nat /\ den \in Nat \ {0} /\ X \in Nat
    /\ q \in Nat \ {0} /\ u \in Nat \ {0} /\ t \in Nat \ {0}
    /\ (2 * full) * u = X * t
    /\ \E i, j \in Nat, v \in Nat \ {0} :
           /\ j - i = e - MinExponent - 2
           /\ den * u = Power[i] * v /\ q * t = Power[j] * v

\* If the significand is on every even number's side where X is, it jams.
LEMMA JamsIs ==
    ASSUME NEW e, NEW full, NEW den, NEW X, NEW q, NEW u, NEW t,
           Scales(e, full, den, X, q, u, t), NEW S \in Nat,
           \A c \in Int : SameSide(S - 2 * c, X - (2 * c) * q)
    PROVE  Jams(S, e, [h \in Nat |-> 2 * full - h * den])
  <1> DEFINE exact == [h \in Nat |-> 2 * full - h * den]
  <1>1. /\ e \in Int /\ full \in Nat /\ den \in Nat \ {0} /\ X \in Nat
        /\ q \in Nat \ {0} /\ u \in Nat \ {0} /\ t \in Nat \ {0}
        /\ (2 * full) * u = X * t
    BY DEF Scales
  <1>2. PICK i \in Nat, j \in Nat, v \in Nat \ {0} :
           /\ j - i = e - MinExponent - 2
           /\ den * u = Power[i] * v /\ q * t = Power[j] * v
    BY DEF Scales
  <1> SUFFICES ASSUME NEW h \in Nat, NEW c \in Nat, NEW m \in Nat, NEW n \in Nat,
                      n - m = e - MinExponent - 2, h * Power[m] = (2 * c) * Power[n]
               PROVE  SameSide(exact[h], S - 2 * c)
    BY DEF Jams
  <1> DEFINE g == 2 * c
             P == Power[i]
             Q == Power[j]
  <1>3. g \in Nat /\ h * Power[m] = g * Power[n] /\ c \in Int
    OBVIOUS
  <1>4. P \in Nat /\ Q \in Nat
    BY PowerFacts
  <1>5. SameSide(S - g, X - g * q)
    BY <1>3
  <1>6. exact[h] = 2 * full - h * den
    OBVIOUS
  <1>7. j - i = n - m
    BY <1>2
  <1> HIDE DEF g, exact
  <1>8. InRatio(h, g, m, n)
    BY <1>3 DEF InRatio
  <1>9. InRatio(h, g, i, j)
    BY <1>3, <1>7, <1>8, PowerRatio
  <1>10. h * P = g * Q /\ den * u = P * v /\ q * t = Q * v
    BY <1>2, <1>9 DEF InRatio
  <1> HIDE DEF P, Q
  <1>11. (h * den) * u = (g * q) * t
    <2>1. (h * den) * u = h * (den * u) /\ (g * q) * t = g * (q * t)
      BY <1>1, <1>3, SMT
    <2>2. h * (P * v) = (h * P) * v /\ g * (Q * v) = (g * Q) * v
      BY <1>2, <1>3, <1>4, SMT
    <2> QED  BY <1>10, <2>1, <2>2
  <1>12. 2 * full \in Int /\ h * den \in Int /\ g * q \in Int
    BY <1>1, <1>3, SMT
  <1> DEFINE a == 2 * full
             b == h * den
             d == g * q
  <1> HIDE DEF a, b, d
  <1>13. (a - b) * u = (X - d) * t
    <2>1. (a - b) * u = a * u - b * u
      BY <1>1, <1>12, SMT DEF a, b
    <2>2. (X - d) * t = X * t - d * t
      BY <1>1, <1>12, SMT DEF d
    <2> QED  BY <1>1, <1>11, <2>1, <2>2 DEF a, b, d
  <1>14. SameSide(a - b, (a - b) * u) /\ SameSide(X - d, (X - d) * t)
    <2>1. a - b \in Int /\ X - d \in Int
      BY <1>1, <1>12 DEF a, b, d
    <2> QED  BY <1>1, <2>1, SideScaled
  <1> QED  BY <1>5, <1>6, <1>13, <1>14 DEF SameSide, a, b, d, g

\* If it is the q-th part, it is exact.
LEMMA ExactIs ==
    ASSUME NEW e, NEW full, NEW den, NEW X, NEW q, NEW u, NEW t,
           Scales(e, full, den, X, q, u, t), NEW S \in Nat, X = S * q
    PROVE  IsExactly(S, e, [h \in Nat |-> 2 * full - h * den])
  <1> DEFINE exact == [h \in Nat |-> 2 * full - h * den]
  <1>1. /\ e \in Int /\ full \in Nat /\ den \in Nat \ {0} /\ X \in Nat
        /\ q \in Nat \ {0} /\ u \in Nat \ {0} /\ t \in Nat \ {0}
        /\ (2 * full) * u = X * t
    BY DEF Scales
  <1>2. PICK i \in Nat, j \in Nat, v \in Nat \ {0} :
           /\ j - i = e - MinExponent - 2
           /\ den * u = Power[i] * v /\ q * t = Power[j] * v
    BY DEF Scales
  <1> SUFFICES ASSUME NEW h \in Nat, NEW m \in Nat, NEW n \in Nat,
                      n - m = e - MinExponent - 2
               PROVE  SameSide(exact[h], S * Power[n] - h * Power[m])
    BY DEF IsExactly
  <1> DEFINE P == Power[i]
             Q == Power[j]
             M == Power[m]
             N == Power[n]
  <1>3. P \in Nat \ {0} /\ Q \in Nat /\ M \in Nat \ {0} /\ N \in Nat \ {0}
    BY PowerFacts
  <1>4. N * P = Q * M
    <2>1. n + i = j + m
      BY <1>2
    <2>2. Power[n + i] = N * P
      BY PowerSum
    <2>3. Power[j + m] = Q * M
      BY PowerSum
    <2> QED  BY <2>1, <2>2, <2>3
  <1>5. exact[h] = 2 * full - h * den
    OBVIOUS
  <1>6. den * u = P * v /\ q * t = Q * v
    BY <1>2
  <1> HIDE DEF exact, P, Q, M, N
  <1> DEFINE a == 2 * full
             b == h * den
             z == S * N - h * M
  <1>7. a \in Int /\ b \in Int /\ S * N \in Int /\ h * M \in Int /\ z \in Int
    BY <1>1, <1>3, SMT
  <1>8. (a - b) * (u * N) = z * (Q * v)
    <2>1. (a - b) * (u * N) = (a * u) * N - (b * u) * N
      <3> HIDE DEF a, b
      <3>1. (a - b) * (u * N) = a * (u * N) - b * (u * N) /\ u * N \in Int
        BY <1>1, <1>3, <1>7, SMT
      <3>2. a * (u * N) = (a * u) * N /\ b * (u * N) = (b * u) * N
        BY <1>1, <1>3, <1>7, SMT
      <3> QED  BY <3>1, <3>2
    <2>2. a * u = S * (Q * v)
      <3>1. (S * q) * t = S * (q * t)
        BY <1>1, SMT
      <3> QED  BY <1>1, <1>6, <3>1
    <2>3. b * u = h * (P * v)
      <3>1. (h * den) * u = h * (den * u)
        BY <1>1, SMT
      <3> QED  BY <1>6, <3>1
    <2>4. (h * (P * v)) * N = (h * v) * (N * P)
      BY <1>2, <1>3, SMT
    <2>5. (h * v) * (Q * M) = (h * M) * (Q * v)
      BY <1>2, <1>3, SMT
    <2>6. (S * (Q * v)) * N = (S * N) * (Q * v)
      BY <1>2, <1>3, SMT
    <2>7. z * (Q * v) = (S * N) * (Q * v) - (h * M) * (Q * v)
      <3> DEFINE o == S * N
                 p == h * M
                 w == Q * v
      <3>1. o \in Int /\ p \in Int /\ w \in Int
        BY <1>2, <1>3, <1>7, SMT
      <3> HIDE DEF o, p, w
      <3>2. (o - p) * w = o * w - p * w
        BY <3>1, SMT
      <3> QED  BY <3>2 DEF o, p, w
    <2> HIDE DEF a, b, z
    <2> QED  BY <1>4, <2>1, <2>2, <2>3, <2>4, <2>5, <2>6, <2>7
  <1>9. u * N \in Nat \ {0} /\ Q * v \in Nat \ {0}
    <2>1. Q # 0
      BY PowerFacts DEF Q
    <2> QED  BY <1>1, <1>2, <1>3, <2>1, SMT
  <1>10. SameSide(a - b, (a - b) * (u * N)) /\ SameSide(z, z * (Q * v))
    <2> DEFINE k == u * N
               l == Q * v
               f == a - b
    <2>1. f \in Int /\ z \in Int /\ k \in Nat \ {0} /\ l \in Nat \ {0}
      BY <1>7, <1>9
    <2> HIDE DEF k, l, f, z
    <2>2. SameSide(f, f * k) /\ SameSide(z, z * l)
      BY <2>1, SideScaled
    <2> QED  BY <2>2 DEF k, l, f
  <1> QED  BY <1>5, <1>8, <1>10 DEF SameSide, N, M

\* A jammed multiple is exact.
LEMMA JamOfMultiple ==
    ASSUME NEW w \in Nat, NEW q \in Nat \ {0} PROVE Jam(w * q, q) = w
  <1>1. w \in Int /\ 0 \in 0 .. q - 1
    OBVIOUS
  <1>2. (w * q + 0) \div q = w /\ (w * q + 0) % q = 0
    BY <1>1, DivUnique
  <1>3. w * q \in Int
    BY SMT
  <1>4. w * q + 0 = w * q
    BY <1>3
  <1> QED  BY <1>2, <1>4 DEF Jam, WithSticky

\* Small shifts drop nothing from a number with three spare bits; others leave
\* less than an eighth of the number shifted against.
LEMMA SpareBits ==
    ASSUME NEW s \in HiddenBit .. 2 * HiddenBit - 1, NEW d \in Nat
    PROVE  LET q == Power[d]
               J == Jam(8 * s, q)
           IN  /\ q \in Nat \ {0} /\ J \in Nat /\ J < 16 * HiddenBit
               /\ d <= 3 => J * q = 8 * s
               /\ d > 3 => J < HiddenBit /\ 16 * HiddenBit <= HiddenBit * q
  <1> DEFINE q == Power[d]
             H == HiddenBit
             J == Jam(8 * s, q)
  <1>1. H \in Nat /\ H >= 8 /\ s \in Nat /\ H <= s /\ s < 2 * H
        /\ H = 2 * Power[FRACBITS - 1] /\ Power[FRACBITS - 1] \in Nat
    BY FormatFacts
  <1>2. q \in Nat \ {0}
    BY PowerFacts
  <1>3. J \in Nat
    <2>1. 8 * s \in Nat
      BY <1>1
    <2> HIDE DEF q
    <2> QED  BY <1>2, <2>1, JamSides
  <1>4. ASSUME d <= 3 PROVE J * q = 8 * s
    <2>1. /\ Power[0] = 1 /\ Power[0 + 1] = 2 * Power[0]
          /\ Power[1 + 1] = 2 * Power[1] /\ Power[2 + 1] = 2 * Power[2]
      BY PowerFacts
    <2>2. Power[0] = 1 /\ Power[1] = 2 /\ Power[2] = 4 /\ Power[3] = 8
      BY <2>1
    <2>3. PICK w \in {1, 2, 4, 8} : w * q = 8
      <3>1. d = 0 \/ d = 1 \/ d = 2 \/ d = 3
        BY <1>4
      <3>2. q = 1 \/ q = 2 \/ q = 4 \/ q = 8
        BY <2>2, <3>1
      <3> QED  BY <3>2
    <2> HIDE DEF q
    <2>4. (s * w) * q = 8 * s /\ s * w \in Nat
      <3>1. (s * w) * q = s * (w * q)
        BY <1>1, <1>2, <2>3, SMT
      <3>2. s * w \in Nat
        BY <1>1, <2>3, SMT
      <3> QED  BY <2>3, <3>1, <3>2
    <2> DEFINE z == s * w
    <2> HIDE DEF z
    <2>5. z \in Nat /\ z * q = 8 * s
      BY <2>4 DEF z
    <2>6. Jam(z * q, q) = z
      BY <1>2, <2>5, JamOfMultiple
    <2> QED  BY <2>5, <2>6
  <1>5. ASSUME d > 3 PROVE 16 * H <= H * q /\ J < H
    <2>1. q >= 16
      <3>1. /\ Power[0] = 1 /\ Power[0 + 1] = 2 * Power[0]
            /\ Power[1 + 1] = 2 * Power[1] /\ Power[2 + 1] = 2 * Power[2]
            /\ Power[3 + 1] = 2 * Power[3]
        BY PowerFacts
      <3>2. Power[4] = 16 /\ (d = 4 \/ 4 < d)
        BY <1>5, <3>1
      <3>3. d = 4 \/ Power[4] < Power[d]
        BY <3>2, PowerGrows
      <3> QED  BY <1>2, <3>2, <3>3
    <2>2. 16 * H <= H * q /\ H * q \in Nat
      BY <1>1, <1>2, <2>1, SMT
    <2> DEFINE c == Power[FRACBITS - 1]
               v == 8 * s
    <2>3. c \in Nat /\ 2 * c = H /\ v \in Nat /\ ~(v >= (2 * c) * q)
      BY <1>1, <2>2
    <2> HIDE DEF c, v, q
    <2>4. v >= (2 * c) * q <=> Jam(v, q) >= 2 * c
      BY <1>2, <2>3, JamBounds
    <2> QED  BY <1>1, <1>3, <2>2, <2>3, <2>4 DEF v
  <1>6. J < 16 * H
    <2> DEFINE c == 8 * H
               v == 8 * s
    <2>0. c \in Nat /\ v \in Nat /\ v < 2 * c
      BY <1>1
    <2> HIDE DEF c, v, q
    <2>1. (2 * c) * q >= 2 * c /\ (2 * c) * q \in Nat
      BY <1>2, <2>0, SMT
    <2>2. ~(v >= (2 * c) * q)
      BY <2>0, <2>1
    <2>3. 2 * c = 16 * H
      BY <1>1 DEF c
    <2>4. v >= (2 * c) * q <=> Jam(v, q) >= 2 * c
      BY <1>2, <2>0, JamBounds
    <2> QED  BY <1>1, <1>3, <2>0, <2>2, <2>3, <2>4 DEF v
  <1> QED  BY <1>2, <1>3, <1>4, <1>5, <1>6

\* Two numbers, one of them shifted to the exponent of the other: their sum and
\* their difference stand for those of the numbers.
LEMMA AlignedSum ==
    ASSUME NEW hi, NEW lo, NEW ghi, NEW glo, IsScaled(hi, ghi), IsScaled(lo, glo),
           hi.exponent >= lo.exponent
    PROVE  LET A == hi.significand * 8
               J == shift_right_jam(lo.significand * 8, hi.exponent - lo.exponent)
               e == hi.exponent
           IN  /\ A \in Nat /\ J \in Nat /\ ghi \in Nat \ {0} /\ glo \in Nat \ {0}
               /\ SameSide(A - J, ghi - glo)
               /\ StandsFor(A + J, e, ghi + glo, ghi + glo, 1)
               /\ A > J => StandsFor(A - J, e, ghi - glo, ghi - glo, 1)
               /\ J > A => StandsFor(J - A, e, glo - ghi, glo - ghi, 1)
  <1> DEFINE H == HiddenBit
             F == FRACBITS
             M == MinExponent
             s == hi.significand
             w == lo.significand
             e == hi.exponent
             d == hi.exponent - lo.exponent
             b == lo.exponent - M + F
             q == Power[d]
             t == Power[b]
             A == 8 * s
             B == 8 * w
             J == Jam(B, q)
             u == 4 * H
  <1>1. H \in Nat /\ H >= 8 /\ F \in Nat /\ F >= 3 /\ H = Power[F] /\ M \in Int
        /\ WIDE \in Nat
    BY FormatFacts
  <1>2. /\ ghi \in Nat \ {0} /\ glo \in Nat \ {0}
        /\ s \in Nat /\ w \in Nat /\ H <= s /\ s < 2 * H /\ H <= w /\ w < 2 * H
        /\ e \in Int /\ lo.exponent \in Int /\ b \in Nat /\ d \in Nat /\ e - M + F = b + d
        /\ ghi * H = s * Power[e - M + F] /\ glo * H = w * t
    BY <1>1 DEF IsScaled
  <1>3. A \in Nat /\ B \in Nat /\ s \in HiddenBit .. 2 * HiddenBit - 1
        /\ w \in HiddenBit .. 2 * HiddenBit - 1 /\ hi.significand * 8 = A
        /\ lo.significand * 8 = B /\ A < 16 * H /\ A >= 8 * H /\ B < 16 * H
        /\ e - M - 2 = (b + d) - (F + 2)
    BY <1>1, <1>2
  <1>4. /\ q \in Nat \ {0} /\ J \in Nat /\ J < 16 * H
        /\ d <= 3 => J * q = B
        /\ d > 3 => J < H /\ 16 * H <= H * q
    BY <1>2, <1>3, SpareBits
  <1>5. shift_right_jam(lo.significand * 8, hi.exponent - lo.exponent) = J
    <2>1. 16 * H <= Power[WordBits] /\ Power[WordBits] \in Nat
      BY PlacePowers
    <2>2. B < Power[WordBits]
      BY <1>1, <1>3, <2>1
    <2> HIDE DEF q, A, B, d
    <2>3. shift_right_jam(B, d) = Jam(B, Power[d])
      BY <1>2, <1>3, <2>2, ShiftRightJam
    <2> QED  BY <1>3, <2>3 DEF d, q
  <1>6. t \in Nat \ {0} /\ Power[b + d] = q * t /\ q * t \in Nat \ {0}
    <2>1. t \in Nat \ {0}
      BY <1>2, PowerFacts
    <2>2. Power[b + d] = Power[b] * Power[d]
      <3> HIDE DEF b, d
      <3> QED  BY <1>2, PowerSum
    <2> HIDE DEF t, q, b, d
    <2>3. t * q = q * t /\ q * t \in Nat \ {0}
      BY <1>4, <2>1, SMT
    <2> QED  BY <2>1, <2>2, <2>3 DEF t, q
  <1>7. ghi * H = s * (q * t) /\ glo * H = w * t
    BY <1>2, <1>6
  <1>8. Power[F + 2] = u /\ F + 2 \in Nat /\ u \in Nat \ {0}
    <2>1. Power[F + 1] = 2 * H /\ Power[(F + 1) + 1] = 2 * Power[F + 1] /\ (F + 1) + 1 = F + 2
      BY <1>1, PowerFacts
    <2> QED  BY <1>1, <2>1
  <1>9. \E i, j \in Nat, v \in Nat \ {0} :
           /\ j - i = e - MinExponent - 2
           /\ 1 * u = Power[i] * v /\ q * t = Power[j] * v
    <2>1. (b + d) - (F + 2) = e - MinExponent - 2 /\ b + d \in Nat
      BY <1>2, <1>3
    <2>2. 1 * u = Power[F + 2] * 1 /\ q * t = Power[b + d] * 1
      BY <1>6, <1>8
    <2> HIDE DEF u, q, t, b, d, e
    <2> QED  BY <1>8, <2>1, <2>2
  <1> DEFINE X == A * q
  <1>10. X \in Nat /\ (2 * ghi) * u = X * t /\ (2 * glo) * u = B * t
    <2>1. (2 * ghi) * u = 8 * (ghi * H) /\ (2 * glo) * u = 8 * (glo * H)
      BY <1>1, <1>2, SMT
    <2> HIDE DEF q, t, u, s, w
    <2>2. 8 * (s * (q * t)) = ((8 * s) * q) * t /\ 8 * (w * t) = (8 * w) * t
          /\ (8 * s) * q \in Nat
      BY <1>2, <1>4, <1>6, SMT
    <2> QED  BY <1>7, <2>1, <2>2
  <1>11. \A c \in Int : SameSide(J - 2 * c, B - (2 * c) * q)
    <2> HIDE DEF B, q
    <2> QED  BY <1>3, <1>4, JamSides
  <1>12. 16 * H <= Power[WordBits] /\ WordBits \in Nat /\ Power[WordBits] \in Nat
         /\ Power[WordBits + 1] = 2 * Power[WordBits]
    BY PlacePowers, PowerFacts
  <1> HIDE DEF s, w, H, F, M, e, d, b, q, t, u, J
  <1>13. X = (8 * s) * q /\ \A k \in Int : (2 * (4 * s - k)) * q = X - (2 * k) * q
    <2>1. X = (8 * s) * q
      OBVIOUS
    <2>2. ASSUME NEW k \in Int PROVE (2 * (4 * s - k)) * q = X - (2 * k) * q
      <3> DEFINE g == 2 * k
                 a == 8 * s
      <3>1. 2 * (4 * s - k) = a - g /\ a \in Int /\ g \in Int
        BY <1>2
      <3> HIDE DEF a, g
      <3>2. (a - g) * q = a * q - g * q
        BY <1>4, <3>1, SMT
      <3> QED  BY <2>1, <3>1, <3>2 DEF a, g
    <2> QED  BY <2>1, <2>2
  <1>14. SameSide(J - A, B - X)
    <2>1. 4 * s \in Int /\ 2 * (4 * s) = A
      BY <1>2
    <2>2. SameSide(J - 2 * (4 * s), B - (2 * (4 * s)) * q)
      <3> DEFINE z == 4 * s
      <3>1. z \in Int
        BY <2>1
      <3> HIDE DEF z
      <3>2. SameSide(J - 2 * z, B - (2 * z) * q)
        BY <1>11, <3>1, Zenon
      <3> QED  BY <3>2 DEF z
    <2> QED  BY <2>1, <2>2
  <1> HIDE DEF X, A, B
  <1>15. SameSide(A - J, ghi - glo)
    <2> DEFINE k == ghi - glo
               l == X - B
    <2>1. k \in Int /\ l \in Int /\ k * (2 * u) = l * t /\ 2 * u \in Nat \ {0}
      <3>1. k \in Int /\ l \in Int /\ 2 * u \in Nat \ {0}
        BY <1>2, <1>3, <1>8, <1>10
      <3>2. (ghi - glo) * (2 * u) = (2 * ghi) * u - (2 * glo) * u
        BY <1>2, <1>8, SMT
      <3>3. (X - B) * t = X * t - B * t
        BY <1>3, <1>6, <1>10, SMT
      <3> QED  BY <1>10, <3>1, <3>2, <3>3
    <2> DEFINE uu == 2 * u
    <2>2. k \in Int /\ l \in Int /\ uu \in Nat \ {0} /\ k * uu = l * t
      BY <2>1
    <2>3. l < 0 <=> B - X > 0
      BY <1>3, <1>10
    <2>4. l = 0 <=> B - X = 0
      BY <1>3, <1>10
    <2> HIDE DEF k, l, uu
    <2>5. SameSide(k, k * uu) /\ SameSide(l, l * t)
      BY <1>6, <2>2, SideScaled
    <2>6. SameSide(k, l)
      BY <2>2, <2>5 DEF SameSide
    <2>7. (A - J < 0 <=> l < 0) /\ (A - J = 0 <=> l = 0)
      <3>1. (J - A < 0 <=> B - X < 0) /\ (J - A = 0 <=> B - X = 0)
        BY <1>14 DEF SameSide
      <3> QED  BY <1>3, <1>4, <1>10, <3>1 DEF l
    <2> QED  BY <2>6, <2>7 DEF SameSide, k
  <1>16. StandsFor(A + J, e, ghi + glo, ghi + glo, 1)
    <2> DEFINE full == ghi + glo
               V == X + B
               S == A + J
    <2>1. Scales(e, full, 1, V, q, u, t)
      <3>1. (2 * full) * u = V * t
        <4>1. (2 * (ghi + glo)) * u = (2 * ghi) * u + (2 * glo) * u
          BY <1>2, <1>8, SMT
        <4>2. (X + B) * t = X * t + B * t
          BY <1>3, <1>6, <1>10, SMT
        <4> QED  BY <1>10, <4>1, <4>2
      <3>2. full \in Nat /\ V \in Nat /\ e \in Int
        BY <1>2, <1>3, <1>10
      <3> HIDE DEF full, V
      <3>3. 1 \in Nat \ {0}
        OBVIOUS
      <3> QED  BY <1>4, <1>6, <1>8, <1>9, <3>1, <3>2, <3>3, Zenon DEF Scales
    <2>2. ASSUME NEW k \in Int PROVE SameSide(S - 2 * k, V - (2 * k) * q)
      <3> DEFINE z == k - 4 * s
      <3>1. z \in Int /\ 2 * (4 * s - k) = -(2 * z)
        BY <1>2
      <3>2. J - 2 * z = S - 2 * k
        BY <1>2, <1>4 DEF A
      <3>3. (2 * z) * q = (2 * k) * q - X
        <4> DEFINE g == 2 * z
        <4>1. g \in Int /\ (-g) * q = X - (2 * k) * q
          BY <1>13, <3>1
        <4>2. (2 * k) * q \in Int
          BY <1>4, SMT
        <4> HIDE DEF g
        <4>3. (-g) * q = -(g * q) /\ g * q \in Int
          BY <1>4, <4>1, SMT
        <4> QED  BY <1>10, <4>1, <4>2, <4>3 DEF g
      <3> HIDE DEF z
      <3>4. SameSide(J - 2 * z, B - (2 * z) * q)
        BY <1>11, <3>1, Zenon
      <3>5. (2 * k) * q \in Int
        BY <1>4, SMT
      <3>6. B - (2 * z) * q = V - (2 * k) * q
        BY <1>3, <1>10, <3>3, <3>5
      <3> QED  BY <3>2, <3>4, <3>6
    <2>3. S \in Nat \ {0} /\ S < Power[WordBits + 1] /\ S >= 4 * HiddenBit
      BY <1>1, <1>3, <1>4, <1>12 DEF H
    <2>4. full \in Nat
      BY <1>2
    <2> HIDE DEF full, V, S
    <2>5. Jams(S, e, [h \in Nat |-> 2 * full - h * 1])
      BY <2>1, <2>2, <2>3, JamsIs
    <2> QED  BY <1>2, <2>3, <2>4, <2>5 DEF StandsFor, IsSignificand, full, S
  <1>17. ASSUME NEW full, NEW V, NEW S,
                full \in Nat, V \in Nat, (2 * full) * u = V * t,
                S \in Nat \ {0}, S < 16 * H,
                V = S * q \/ (S >= 4 * H /\ \A k \in Int : SameSide(S - 2 * k, V - (2 * k) * q))
         PROVE  StandsFor(S, e, full, full, 1)
    <2>0. 1 \in Nat \ {0}
      OBVIOUS
    <2>1. Scales(e, full, 1, V, q, u, t)
      BY <1>2, <1>4, <1>6, <1>8, <1>9, <1>17, <2>0, Zenon DEF Scales
    <2>2. S < Power[WordBits + 1]
      BY <1>1, <1>12, <1>17
    <2>3. CASE V = S * q
      <3>1. IsExactly(S, e, [h \in Nat |-> 2 * full - h * 1])
        BY <1>17, <2>1, <2>3, ExactIs
      <3> QED  BY <1>2, <1>17, <2>2, <3>1 DEF StandsFor, IsSignificand
    <2>4. CASE S >= 4 * H /\ \A k \in Int : SameSide(S - 2 * k, V - (2 * k) * q)
      <3>1. Jams(S, e, [h \in Nat |-> 2 * full - h * 1])
        BY <1>17, <2>1, <2>4, JamsIs
      <3> QED  BY <1>2, <1>17, <2>2, <2>4, <3>1 DEF StandsFor, IsSignificand, H
    <2> QED  BY <1>17, <2>3, <2>4
  <1>18. (2 * (ghi - glo)) * u = (X - B) * t /\ (2 * (glo - ghi)) * u = (B - X) * t
    <2>1. (2 * (ghi - glo)) * u = (2 * ghi) * u - (2 * glo) * u
      BY <1>2, <1>8, SMT
    <2>2. (2 * (glo - ghi)) * u = (2 * glo) * u - (2 * ghi) * u
      BY <1>2, <1>8, SMT
    <2>3. (X - B) * t = X * t - B * t
      BY <1>3, <1>6, <1>10, SMT
    <2>4. (B - X) * t = B * t - X * t
      BY <1>3, <1>6, <1>10, SMT
    <2> QED  BY <1>10, <2>1, <2>2, <2>3, <2>4
  <1>19. d <= 3 => (A - J) * q = X - B /\ (J - A) * q = B - X
    <2>1. (A - J) * q = A * q - J * q /\ (J - A) * q = J * q - A * q
      BY <1>3, <1>4, SMT
    <2> QED  BY <1>3, <1>4, <1>10, <2>1 DEF X
  <1>20. /\ A - J < 0 <=> ghi - glo < 0
         /\ A - J = 0 <=> ghi - glo = 0
         /\ J - A < 0 <=> B - X < 0
         /\ J - A = 0 <=> B - X = 0
    BY <1>14, <1>15 DEF SameSide
  <1>21. ASSUME A > J PROVE StandsFor(A - J, e, ghi - glo, ghi - glo, 1)
    <2> DEFINE full == ghi - glo
               V == X - B
               S == A - J
    <2>1. full \in Nat /\ V \in Nat /\ S \in Nat \ {0} /\ S < 16 * H
      BY <1>1, <1>2, <1>3, <1>4, <1>10, <1>20, <1>21
    <2>2. (2 * full) * u = V * t
      BY <1>18
    <2>3. V = S * q \/ (S >= 4 * H /\ \A k \in Int : SameSide(S - 2 * k, V - (2 * k) * q))
      <3>1. CASE d <= 3
        BY <1>19, <3>1
      <3>2. CASE d > 3
        <4>1. S >= 4 * H
          BY <1>1, <1>3, <1>4, <3>2
        <4>2. ASSUME NEW k \in Int PROVE SameSide(S - 2 * k, V - (2 * k) * q)
          <5> DEFINE z == 4 * s - k
                     g == (2 * z) * q
                     o == (2 * k) * q
          <5>1. z \in Int /\ J - 2 * z = -(S - 2 * k) /\ S - 2 * k \in Int
            BY <1>2, <1>4, <2>1 DEF A
          <5>2. g = X - o /\ g \in Int /\ o \in Int
            <6>1. (2 * (4 * s - k)) * q = X - (2 * k) * q
              BY <1>13
            <6>2. (2 * k) * q \in Int
              BY <1>4, SMT
            <6> QED  BY <1>10, <6>1, <6>2
          <5>3. SameSide(J - 2 * z, B - (2 * z) * q)
            <6> HIDE DEF z
            <6> QED  BY <1>11, <5>1, Zenon
          <5> DEFINE f == S - 2 * k
          <5> HIDE DEF g, o, f, z, S
          <5>4. B - g = -(V - o) /\ V - o \in Int
            BY <1>3, <1>10, <5>2
          <5>5. (-f < 0 <=> -(V - o) < 0) /\ (-f = 0 <=> -(V - o) = 0)
            BY <5>1, <5>3, <5>4 DEF SameSide, f, g
          <5>6. SameSide(f, V - o)
            BY <1>14, <1>20, <5>1, <5>4, <5>5 DEF SameSide, f
          <5> QED  BY <5>6 DEF f, o
        <4> QED  BY <4>1, <4>2
      <3> QED  BY <1>2, <3>1, <3>2
    <2> HIDE DEF full, V, S
    <2>4. StandsFor(S, e, full, full, 1)
      BY <1>17, <2>1, <2>2, <2>3
    <2> QED  BY <2>4 DEF full, S
  <1>22. ASSUME J > A PROVE StandsFor(J - A, e, glo - ghi, glo - ghi, 1)
    <2> DEFINE full == glo - ghi
               V == B - X
               S == J - A
    <2>1. d <= 3
      BY <1>1, <1>2, <1>3, <1>4, <1>22
    <2>2. full \in Nat /\ V \in Nat /\ S \in Nat \ {0} /\ S < 16 * H
      BY <1>1, <1>2, <1>3, <1>4, <1>10, <1>20, <1>22
    <2>3. (2 * full) * u = V * t /\ V = S * q
      BY <1>18, <1>19, <2>1
    <2> HIDE DEF full, V, S
    <2>4. StandsFor(S, e, full, full, 1)
      BY <1>17, <2>2, <2>3
    <2> QED  BY <2>4 DEF full, S
  <1>23. hi.significand * 8 = A /\ hi.exponent = e
    BY <1>3 DEF e
  <1> QED  BY <1>2, <1>3, <1>4, <1>5, <1>15, <1>16, <1>21, <1>22, <1>23

\* Adding aligned significands by their signs, or cancelling them.
LEMMA SumOfAligned ==
    ASSUME NEW P \in Nat, NEW Q \in Nat, NEW e, NEW gl \in Nat \ {0}, NEW gr \in Nat \ {0},
           SameSide(P - Q, gl - gr),
           StandsFor(P + Q, e, gl + gr, gl + gr, 1),
           P > Q => StandsFor(P - Q, e, gl - gr, gl - gr, 1),
           Q > P => StandsFor(Q - P, e, gr - gl, gr - gl, 1),
           NEW nl \in BOOLEAN, NEW nr \in BOOLEAN, NEW rm \in RoundingModes
    PROVE  LET sum == SignedSum(nl, P, nr, Q)
               jl == IF nl THEN -gl ELSE gl
               jr == IF nr THEN -gr ELSE gr
           IN  (IF sum.significand = 0 THEN Exact(rm = "Rdn", 0)
                ELSE round_and_pack(sum.sign, e, sum.significand, rm))
                  = RoundedSum(jl, jr, 1, nl, nr)[rm]
  <1> DEFINE sum == SignedSum(nl, P, nr, Q)
             jl == IF nl THEN -gl ELSE gl
             jr == IF nr THEN -gr ELSE gr
             code == IF sum.significand = 0 THEN Exact(rm = "Rdn", 0)
                     ELSE round_and_pack(sum.sign, e, sum.significand, rm)
             full == jl + jr
  <1> SUFFICES code = RoundedSum(jl, jr, 1, nl, nr)[rm]
    OBVIOUS
  <1>1. jl \in Int /\ jr \in Int
    OBVIOUS
  <1>2. /\ full = 0 => RoundedSum(jl, jr, 1, nl, nr)[rm]
                          = Result(Signed(IF nl = nr THEN nl ELSE rm = "Rdn", 0), {})
        /\ full # 0 => RoundedSum(jl, jr, 1, nl, nr)[rm]
                          = RoundedQuotient(Abs(full), 1, full < 0)[rm]
    <2> HIDE DEF jl, jr
    <2> QED  BY <1>1, RoundedSumIs
  <1>3. ASSUME NEW S, NEW g \in Nat \ {0}, StandsFor(S, e, g, g, 1), NEW negative \in BOOLEAN,
               full = IF negative THEN -g ELSE g,
               sum = [sign |-> negative, significand |-> S]
        PROVE  code = RoundedSum(jl, jr, 1, nl, nr)[rm]
    <2>1. full # 0 /\ Abs(full) = g /\ (full < 0) = negative
      <3> HIDE DEF full
      <3> QED  BY <1>3 DEF Abs
    <2>2. S # 0
      BY <1>3 DEF StandsFor, IsSignificand
    <2>3. round_and_pack(negative, e, S, rm) = RoundedQuotient(g, 1, negative)[rm]
      <3>1. round_and_pack(negative, e, S, rm) = Raised(RoundedQuotient(g, 1, negative)[rm])
        BY <1>3, FractionRounded
      <3>2. Raised(RoundedQuotient(g, 1, negative)[rm]) = RoundedQuotient(g, 1, negative)[rm]
        BY <1>3, WholeRounded
      <3> QED  BY <3>1, <3>2
    <2>4. code = round_and_pack(negative, e, S, rm)
      BY <1>3, <2>2
    <2> HIDE DEF code, full, sum
    <2> QED  BY <1>2, <2>1, <2>3, <2>4
  <1>4. (P - Q < 0 <=> gl - gr < 0) /\ (P - Q = 0 <=> gl - gr = 0)
    BY DEF SameSide
  <1>5. CASE nl = nr
    <2>1. sum = [sign |-> nl, significand |-> P + Q]
      BY <1>5 DEF SignedSum
    <2>2. full = IF nl THEN -(gl + gr) ELSE gl + gr
      BY <1>5
    <2>3. gl + gr \in Nat \ {0}
      OBVIOUS
    <2> HIDE DEF code, full, sum, jl, jr
    <2> QED  BY <1>3, <2>1, <2>2, <2>3
  <1>6. CASE nl # nr /\ P > Q
    <2>1. sum = [sign |-> nl, significand |-> P - Q]
      BY <1>6 DEF SignedSum
    <2>2. full = IF nl THEN -(gl - gr) ELSE gl - gr
      BY <1>6
    <2>3. gl - gr \in Nat \ {0}
      BY <1>4, <1>6
    <2> HIDE DEF code, full, sum, jl, jr
    <2> QED  BY <1>3, <1>6, <2>1, <2>2, <2>3
  <1>7. CASE nl # nr /\ Q > P
    <2>1. sum = [sign |-> nr, significand |-> Q - P]
      BY <1>7 DEF SignedSum
    <2>2. full = IF nr THEN -(gr - gl) ELSE gr - gl
      BY <1>7
    <2>3. gr - gl \in Nat \ {0}
      BY <1>4, <1>7
    <2> HIDE DEF code, full, sum, jl, jr
    <2> QED  BY <1>3, <1>7, <2>1, <2>2, <2>3
  <1>8. CASE nl # nr /\ P = Q
    <2>1. sum.significand = 0
      BY <1>8 DEF SignedSum
    <2>2. full = 0
      BY <1>4, <1>8
    <2>3. code = Exact(rm = "Rdn", 0)
      BY <2>1
    <2> HIDE DEF full, jl, jr, code
    <2> QED  BY <1>2, <1>8, <2>2, <2>3 DEF Exact
  <1> QED  BY <1>5, <1>6, <1>7, <1>8

\* What add_or_sub aligns of two numbers, and what it knows of the parts.
AddParts(lhs, rhs) ==
    Align(lhs.exponent, lhs.significand * 8, rhs.exponent, rhs.significand * 8)
AreParts(parts, gl, gr) ==
    \E P, Q \in Nat, e \in Int :
        /\ parts = [exponent |-> e, lhs |-> P, rhs |-> Q]
        /\ SameSide(P - Q, gl - gr)
        /\ StandsFor(P + Q, e, gl + gr, gl + gr, 1)
        /\ P > Q => StandsFor(P - Q, e, gl - gr, gl - gr, 1)
        /\ Q > P => StandsFor(Q - P, e, gr - gl, gr - gl, 1)

\* Aligning two numbers, whichever has the larger exponent.
LEMMA AddPartsAre ==
    ASSUME NEW lhs, NEW rhs, NEW gl, NEW gr, IsScaled(lhs, gl), IsScaled(rhs, gr)
    PROVE  gl \in Nat \ {0} /\ gr \in Nat \ {0} /\ AreParts(AddParts(lhs, rhs), gl, gr)
  <1> DEFINE el == lhs.exponent
             er == rhs.exponent
             A == lhs.significand * 8
             B == rhs.significand * 8
             aligned == Align(el, A, er, B)
  <1>1. el \in Int /\ er \in Int /\ gl \in Nat \ {0} /\ gr \in Nat \ {0}
    BY DEF IsScaled
  <1>2. AddParts(lhs, rhs) = aligned
    BY DEF AddParts
  <1>4. CASE el >= er
    <2> DEFINE J == shift_right_jam(B, el - er)
    <2>1. aligned = [exponent |-> el, lhs |-> A, rhs |-> J]
      <3>1. el - er >= 0
        BY <1>1, <1>4
      <3> QED  BY <3>1 DEF Align
    <2>2. /\ A \in Nat /\ J \in Nat
          /\ SameSide(A - J, gl - gr)
          /\ StandsFor(A + J, el, gl + gr, gl + gr, 1)
          /\ A > J => StandsFor(A - J, el, gl - gr, gl - gr, 1)
          /\ J > A => StandsFor(J - A, el, gr - gl, gr - gl, 1)
      BY <1>4, AlignedSum
    <2> HIDE DEF A, J, el, aligned
    <2>3. AreParts(aligned, gl, gr)
      BY <1>1, <2>1, <2>2, Zenon DEF AreParts
    <2> QED  BY <1>1, <1>2, <2>3
  <1>5. CASE ~(el >= er)
    <2> DEFINE J == shift_right_jam(A, er - el)
    <2>1. aligned = [exponent |-> er, lhs |-> J, rhs |-> B]
      <3>1. ~(el - er >= 0) /\ -(el - er) = er - el
        BY <1>1, <1>5
      <3> QED  BY <3>1 DEF Align
    <2>2. er >= el
      BY <1>1, <1>5
    <2>3. /\ B \in Nat /\ J \in Nat
          /\ SameSide(B - J, gr - gl)
          /\ StandsFor(B + J, er, gr + gl, gr + gl, 1)
          /\ B > J => StandsFor(B - J, er, gr - gl, gr - gl, 1)
          /\ J > B => StandsFor(J - B, er, gl - gr, gl - gr, 1)
      BY <2>2, AlignedSum
    <2> HIDE DEF B, J, er, aligned
    <2>4. J + B = B + J /\ gl + gr = gr + gl /\ SameSide(J - B, gl - gr)
      <3>1. (B - J < 0 <=> gr - gl < 0) /\ (B - J = 0 <=> gr - gl = 0)
        BY <2>3 DEF SameSide
      <3> QED  BY <1>1, <2>3, <3>1 DEF SameSide
    <2>5. StandsFor(J + B, er, gl + gr, gl + gr, 1)
      BY <2>3, <2>4
    <2>6. AreParts(aligned, gl, gr)
      BY <1>1, <2>1, <2>3, <2>4, <2>5, Zenon DEF AreParts
    <2> QED  BY <1>1, <1>2, <2>6
  <1> QED  BY <1>4, <1>5

\* Adding two numbers.
LEMMA SumRounded ==
    ASSUME NEW lhs, NEW rhs, NEW gl, NEW gr, IsScaled(lhs, gl), IsScaled(rhs, gr),
           lhs.sign \in BOOLEAN, NEW nr \in BOOLEAN, NEW rm \in RoundingModes
    PROVE  LET jl == IF lhs.sign THEN -gl ELSE gl
               jr == IF nr THEN -gr ELSE gr
           IN  AddFinite(lhs, rhs, nr, rm) = RoundedSum(jl, jr, 1, lhs.sign, nr)[rm]
  <1> DEFINE nl == lhs.sign
             jl == IF nl THEN -gl ELSE gl
             jr == IF nr THEN -gr ELSE gr
             aligned == AddParts(lhs, rhs)
  <1>1. gl \in Nat \ {0} /\ gr \in Nat \ {0} /\ AreParts(aligned, gl, gr)
    BY AddPartsAre
  <1>2. PICK P \in Nat, Q \in Nat, e \in Int :
            /\ aligned = [exponent |-> e, lhs |-> P, rhs |-> Q]
            /\ SameSide(P - Q, gl - gr)
            /\ StandsFor(P + Q, e, gl + gr, gl + gr, 1)
            /\ P > Q => StandsFor(P - Q, e, gl - gr, gl - gr, 1)
            /\ Q > P => StandsFor(Q - P, e, gr - gl, gr - gl, 1)
    BY <1>1, Zenon DEF AreParts
  <1>3. AddFinite(lhs, rhs, nr, rm) =
           LET sum == SignedSum(nl, aligned.lhs, nr, aligned.rhs)
           IN  IF sum.significand = 0 THEN Exact(rm = "Rdn", 0)
               ELSE round_and_pack(sum.sign, aligned.exponent, sum.significand, rm)
    BY DEF AddFinite, AddParts
  <1>4. aligned.lhs = P /\ aligned.rhs = Q /\ aligned.exponent = e /\ nl \in BOOLEAN
    BY <1>2
  <1> HIDE DEF aligned, nl
  <1>5. LET sum == SignedSum(nl, P, nr, Q)
        IN  (IF sum.significand = 0 THEN Exact(rm = "Rdn", 0)
              ELSE round_and_pack(sum.sign, e, sum.significand, rm))
                = RoundedSum(jl, jr, 1, nl, nr)[rm]
    BY <1>1, <1>2, <1>4, SumOfAligned
  <1> QED  BY <1>3, <1>4, <1>5 DEF nl

\* The parts of a float made of a sign and a magnitude.
LEMMA SignedParts ==
    ASSUME NEW m \in Nat, m < Sign, NEW s \in BOOLEAN
    PROVE  /\ Signed(s, m) \in Floats /\ MagnitudeOf(Signed(s, m)) = m
           /\ IsNegative(Signed(s, m)) = s
  <1>1. Sign \in Nat
    BY FormatFacts
  <1>2. CASE s = TRUE
    <2>1. Signed(s, m) = Sign + m
      BY <1>2 DEF Signed
    <2>2. 1 * Sign + m = Sign + m /\ 1 \in Int /\ Sign \in Nat \ {0} /\ m \in 0 .. Sign - 1
      BY <1>1
    <2>3. (1 * Sign + m) % Sign = m
      BY <2>2, DivUnique
    <2>4. Signed(s, m) \in Floats /\ Signed(s, m) >= Sign
      BY <1>1, <2>1 DEF Floats
    <2>5. MagnitudeOf(Signed(s, m)) = m
      BY <2>1, <2>2, <2>3 DEF MagnitudeOf
    <2>6. IsNegative(Signed(s, m)) = TRUE
      BY <2>4 DEF IsNegative
    <2> QED  BY <1>2, <2>4, <2>5, <2>6
  <1>3. CASE s = FALSE
    <2>1. Signed(s, m) = m
      BY <1>3 DEF Signed
    <2>2. 0 * Sign + m = m /\ 0 \in Int /\ Sign \in Nat \ {0} /\ m \in 0 .. Sign - 1
      BY <1>1
    <2>3. (0 * Sign + m) % Sign = m
      BY <2>2, DivUnique
    <2> QED  BY <1>1, <1>3, <2>1, <2>2, <2>3 DEF Floats, MagnitudeOf, IsNegative
  <1> QED  BY <1>2, <1>3

\* The operand a subtraction adds.
LEMMA NegatedIs ==
    ASSUME NEW r \in Floats
    PROVE  LET n == Negated(r)
           IN  /\ n \in Floats /\ MagnitudeOf(n) = MagnitudeOf(r)
               /\ NanOf(r) => n = r
               /\ ~NanOf(r) => IsNegative(n) = ~IsNegative(r)
  <1> DEFINE m == MagnitudeOf(r)
             s == ~IsNegative(r)
  <1>1. m \in Nat /\ m < Sign /\ s \in BOOLEAN
    BY RawParts
  <1>2. Negated(r) = IF NanOf(r) THEN r ELSE Signed(s, m)
    BY DEF Negated
  <1> HIDE DEF m, s
  <1>3. Signed(s, m) \in Floats /\ MagnitudeOf(Signed(s, m)) = m /\ IsNegative(Signed(s, m)) = s
    BY <1>1, SignedParts
  <1>4. CASE NanOf(r)
    BY <1>2, <1>4
  <1>5. CASE ~NanOf(r)
    BY <1>2, <1>3, <1>5 DEF m, s
  <1> QED  BY <1>4, <1>5

\* FADD, and FSUB of the negated operand n.
LEMMA AddOrSubIs ==
    ASSUME NEW l \in Floats, NEW r \in Floats, NEW n \in Floats, NEW subtract \in BOOLEAN,
           MagnitudeOf(n) = MagnitudeOf(r), NanOf(r) => n = r,
           ~NanOf(r) => IsNegative(n) = (IsNegative(r) # subtract),
           NEW rm \in RoundingModes
    PROVE  add_or_sub(l, r, subtract, rm) = SumOf(l, n)[rm]
  <1> DEFINE lhs == Unpack(l)
             rhs == Unpack(r)
             sl == IsNegative(l)
             sn == IsNegative(n)
             sr == rhs.sign # subtract
             gl == Grid[MagnitudeOf(l)]
             gn == Grid[MagnitudeOf(n)]
             sum == RoundedSum(Number(l), Number(n), 1, sl, sn)[rm]
  <1>1. /\ lhs.sign = sl /\ sl \in BOOLEAN
        /\ (is_nan(lhs) <=> NanOf(l)) /\ (IsZero(lhs) <=> ZeroOf(l))
        /\ (IsInfinity(lhs) <=> InfiniteOf(l))
        /\ (ZeroOf(l) \/ FiniteNonzero(l) \/ InfiniteOf(l) \/ NanOf(l))
    BY UnpackFacts
  <1>2. /\ rhs.sign = IsNegative(r)
        /\ (is_nan(rhs) <=> NanOf(r)) /\ (IsZero(rhs) <=> ZeroOf(r))
        /\ (IsInfinity(rhs) <=> InfiniteOf(r))
        /\ (ZeroOf(r) \/ FiniteNonzero(r) \/ InfiniteOf(r) \/ NanOf(r))
    BY UnpackFacts
  <1>3. /\ NanOf(n) <=> NanOf(r)
        /\ ZeroOf(n) <=> ZeroOf(r)
        /\ InfiniteOf(n) <=> InfiniteOf(r)
        /\ FiniteNonzero(n) <=> FiniteNonzero(r)
    BY DEF NanOf, ZeroOf, InfiniteOf, FiniteNonzero
  <1>4. sn \in BOOLEAN /\ l = Signed(sl, MagnitudeOf(l)) /\ n = Signed(sn, MagnitudeOf(n))
    <2>1. sn \in BOOLEAN /\ n = Signed(sn, MagnitudeOf(n))
      BY RawParts
    <2>2. l = Signed(sl, MagnitudeOf(l))
      BY RawParts
    <2> QED  BY <2>1, <2>2
  <1>5. ~NanOf(r) => sn = sr
    BY <1>2
  <1>6. /\ propagate_nan({lhs, rhs}) = QuietOf({l, r}, FALSE)[rm]
        /\ Invalid = QuietOf({l, n}, TRUE)[rm]
    <2>1. propagate_nan({lhs, rhs}) = QuietOf({l, r}, FALSE)[rm]
      BY QuietIs
    <2>2. Invalid = QuietOf({l, n}, TRUE)[rm]
      BY QuietIs
    <2> QED  BY <2>1, <2>2
  <1>7. SumOf(l, n)[rm] =
            IF NanOf(l) \/ NanOf(n) THEN QuietOf({l, n}, FALSE)[rm]
            ELSE IF InfiniteOf(l) /\ InfiniteOf(n) /\ l # n THEN QuietOf({l, n}, TRUE)[rm]
            ELSE IF InfiniteOf(l) THEN Result(l, {})
            ELSE IF InfiniteOf(n) THEN Result(n, {})
            ELSE sum
    BY DEF SumOf, Always
  <1>8. add_or_sub(l, r, subtract, rm) =
            IF is_nan(lhs) \/ is_nan(rhs) THEN propagate_nan({lhs, rhs})
            ELSE IF IsInfinity(lhs) /\ IsInfinity(rhs) /\ sl # sr THEN Invalid
            ELSE IF IsInfinity(lhs) THEN Exact(sl, Infinity)
            ELSE IF IsInfinity(rhs) THEN Exact(sr, Infinity)
            ELSE IF IsZero(lhs) /\ IsZero(rhs) THEN Exact(ZeroSign(sl, sr, rm), 0)
            ELSE IF IsZero(lhs) THEN Exact(sr, MagnitudeOf(r))
            ELSE IF IsZero(rhs) THEN Result(l, {})
            ELSE AddFinite(lhs, rhs, sr, rm)
    BY <1>1 DEF add_or_sub
  <1>9. ASSUME ~NanOf(l), ~NanOf(n)
        PROVE  /\ gl \in Nat /\ gn \in Nat /\ (gl = 0 <=> ZeroOf(l)) /\ (gn = 0 <=> ZeroOf(n))
               /\ Number(l) = (IF sl THEN -gl ELSE gl) /\ Number(l) \in Int
               /\ Number(n) = (IF sn THEN -gn ELSE gn) /\ Number(n) \in Int
    <2>1. /\ gl \in Nat /\ (gl = 0 <=> ZeroOf(l))
          /\ Number(l) = (IF sl THEN -gl ELSE gl) /\ Number(l) \in Int
      BY <1>9, NumberIs
    <2>2. /\ gn \in Nat /\ (gn = 0 <=> ZeroOf(n))
          /\ Number(n) = (IF sn THEN -gn ELSE gn) /\ Number(n) \in Int
      BY <1>9, NumberIs
    <2> QED  BY <2>1, <2>2
  <1>10. ASSUME ~NanOf(l), ~NanOf(n)
         PROVE  /\ Number(l) + Number(n) = 0 =>
                     sum = Result(Signed(IF sl = sn THEN sl ELSE rm = "Rdn", 0), {})
                /\ Number(l) + Number(n) # 0 =>
                     sum = RoundedQuotient(Abs(Number(l) + Number(n)), 1,
                                           Number(l) + Number(n) < 0)[rm]
    <2>1. Number(l) \in Int /\ Number(n) \in Int
      BY <1>9, <1>10
    <2> HIDE DEF sl, sn
    <2> QED  BY <2>1, RoundedSumIs
  <1>11. ASSUME ~NanOf(l), ~NanOf(n), ZeroOf(l), ZeroOf(n)
         PROVE  sum = Exact(ZeroSign(sl, sn, rm), 0)
    <2>1. Number(l) + Number(n) = 0
      BY <1>9, <1>11
    <2> HIDE DEF sum
    <2> QED  BY <1>10, <1>11, <2>1 DEF Exact, ZeroSign
  <1>12. ASSUME NEW b \in Floats, FiniteNonzero(b), NEW j \in Int, j = Number(b), ~NanOf(b)
         PROVE  j # 0 /\ RoundedQuotient(Abs(j), 1, j < 0)[rm] = Result(b, {})
    <2> DEFINE m == MagnitudeOf(b)
               s == IsNegative(b)
               g == Grid[m]
    <2>1. m \in Nat /\ m < Infinity /\ s \in BOOLEAN /\ b = Signed(s, m) /\ ~ZeroOf(b)
      BY <1>12, RawParts DEF FiniteNonzero
    <2>2. g \in Nat /\ (g = 0 <=> ZeroOf(b)) /\ j = (IF s THEN -g ELSE g) /\ Abs(j) = g
      BY <1>12, NumberIs
    <2> HIDE DEF m, s, g
    <2>3. j # 0 /\ (j < 0) = s
      BY <2>1, <2>2
    <2>4. RoundedQuotient(Grid[m], 1, s)[rm] = Exact(s, m)
      BY <2>1, ExactFloat
    <2> QED  BY <2>1, <2>2, <2>3, <2>4 DEF Exact, g
  <1>13. ASSUME ~NanOf(l), ~NanOf(n), ZeroOf(l), FiniteNonzero(n)
         PROVE  sum = Result(n, {})
    <2>1. Number(n) \in Int /\ Number(l) + Number(n) = Number(n)
      BY <1>9, <1>13
    <2>2. Number(n) # 0 /\ RoundedQuotient(Abs(Number(n)), 1, Number(n) < 0)[rm] = Result(n, {})
      BY <1>12, <1>13, <2>1
    <2> HIDE DEF sum
    <2> QED  BY <1>10, <1>13, <2>1, <2>2
  <1>14. ASSUME ~NanOf(l), ~NanOf(n), FiniteNonzero(l), ZeroOf(n)
         PROVE  sum = Result(l, {})
    <2>1. Number(l) \in Int /\ Number(l) + Number(n) = Number(l)
      BY <1>9, <1>14
    <2>2. Number(l) # 0 /\ RoundedQuotient(Abs(Number(l)), 1, Number(l) < 0)[rm] = Result(l, {})
      BY <1>12, <1>14, <2>1
    <2> HIDE DEF sum
    <2> QED  BY <1>10, <1>14, <2>1, <2>2
  <1>15. ASSUME ~NanOf(l), ~NanOf(n), FiniteNonzero(l), FiniteNonzero(r)
         PROVE  sum = AddFinite(lhs, rhs, sn, rm)
    <2>1. IsScaled(lhs, gl)
      BY <1>15, ScaledIs
    <2>2. IsScaled(rhs, gn)
      BY <1>15, ScaledIs
    <2>3. lhs.sign \in BOOLEAN /\ sn \in BOOLEAN
      BY <1>1, <1>4
    <2>4. /\ Number(l) = (IF lhs.sign THEN -gl ELSE gl)
          /\ Number(n) = (IF sn THEN -gn ELSE gn)
      BY <1>1, <1>9, <1>15
    <2> HIDE DEF lhs, rhs, gl, gn, sn
    <2>5. AddFinite(lhs, rhs, sn, rm)
             = RoundedSum(IF lhs.sign THEN -gl ELSE gl, IF sn THEN -gn ELSE gn, 1,
                          lhs.sign, sn)[rm]
      BY <2>1, <2>2, <2>3, SumRounded
    <2> QED  BY <1>1, <2>4, <2>5 DEF sn
  <1>16. /\ ZeroOf(l) => ~InfiniteOf(l) /\ ~NanOf(l)
         /\ ZeroOf(n) => ~InfiniteOf(n) /\ ~NanOf(n)
         /\ InfiniteOf(l) => ~NanOf(l)
         /\ InfiniteOf(n) => ~NanOf(n)
    <2>1. (ZeroOf(l) => ~InfiniteOf(l) /\ ~NanOf(l)) /\ (InfiniteOf(l) => ~NanOf(l))
      BY UnpackFacts
    <2>2. (ZeroOf(n) => ~InfiniteOf(n) /\ ~NanOf(n)) /\ (InfiniteOf(n) => ~NanOf(n))
      BY UnpackFacts
    <2> QED  BY <2>1, <2>2
  <1>17. InfiniteOf(l) => Exact(sl, Infinity) = Result(l, {})
    BY <1>4 DEF InfiniteOf, Exact
  <1>18. InfiniteOf(n) => Exact(sn, Infinity) = Result(n, {})
    BY <1>4 DEF InfiniteOf, Exact
  <1>19. Exact(sn, MagnitudeOf(r)) = Result(n, {})
    BY <1>4 DEF Exact
  <1>20. InfiniteOf(l) /\ InfiniteOf(n) => (l # n <=> sl # sn)
    BY <1>4 DEF InfiniteOf
  <1> HIDE DEF lhs, rhs, sl, sn, sr, sum
  <1>21. CASE NanOf(l) \/ NanOf(n)
    <2>1. SumOf(l, n)[rm] = QuietOf({l, n}, FALSE)[rm]
      BY <1>7, <1>21
    <2>2. add_or_sub(l, r, subtract, rm) = propagate_nan({lhs, rhs})
      BY <1>1, <1>2, <1>3, <1>8, <1>21
    <2>3. (\E b \in {l, n} : SignalingOf(b)) <=> (\E b \in {l, r} : SignalingOf(b))
      <3>1. SignalingOf(n) <=> SignalingOf(r)
        BY <1>3 DEF SignalingOf
      <3> QED  BY <3>1, Zenon
    <2>4. QuietOf({l, n}, FALSE) = QuietOf({l, r}, FALSE)
      BY <2>3 DEF QuietOf
    <2> QED  BY <1>6, <2>1, <2>2, <2>4
  <1>22. CASE ~(NanOf(l) \/ NanOf(n)) /\ (InfiniteOf(l) \/ InfiniteOf(n))
    <2>1. sn = sr
      BY <1>3, <1>5, <1>22
    <2>2. CASE InfiniteOf(l) /\ InfiniteOf(n) /\ l # n
      <3>1. SumOf(l, n)[rm] = QuietOf({l, n}, TRUE)[rm]
        BY <1>7, <1>22, <2>2
      <3>2. add_or_sub(l, r, subtract, rm) = Invalid
        BY <1>1, <1>2, <1>3, <1>8, <1>20, <1>22, <2>1, <2>2
      <3> QED  BY <1>6, <3>1, <3>2
    <2>3. CASE ~(InfiniteOf(l) /\ InfiniteOf(n) /\ l # n) /\ InfiniteOf(l)
      <3>1. SumOf(l, n)[rm] = Result(l, {})
        BY <1>7, <1>22, <2>3
      <3>2. add_or_sub(l, r, subtract, rm) = Exact(sl, Infinity)
        BY <1>1, <1>2, <1>3, <1>8, <1>20, <1>22, <2>1, <2>3
      <3> QED  BY <1>17, <2>3, <3>1, <3>2
    <2>4. CASE ~InfiniteOf(l)
      <3>1. SumOf(l, n)[rm] = Result(n, {})
        BY <1>7, <1>22, <2>4
      <3>2. add_or_sub(l, r, subtract, rm) = Exact(sn, Infinity)
        BY <1>1, <1>2, <1>3, <1>8, <1>22, <2>1, <2>4
      <3> QED  BY <1>18, <1>22, <2>4, <3>1, <3>2
    <2> QED  BY <2>2, <2>3, <2>4
  <1>23. CASE ~(NanOf(l) \/ NanOf(n)) /\ ~(InfiniteOf(l) \/ InfiniteOf(n))
    <2>1. sn = sr
      BY <1>3, <1>5, <1>23
    <2>2. SumOf(l, n)[rm] = sum
      BY <1>7, <1>23
    <2>3. add_or_sub(l, r, subtract, rm) =
            IF ZeroOf(l) /\ ZeroOf(n) THEN Exact(ZeroSign(sl, sn, rm), 0)
            ELSE IF ZeroOf(l) THEN Exact(sn, MagnitudeOf(r))
            ELSE IF ZeroOf(n) THEN Result(l, {})
            ELSE AddFinite(lhs, rhs, sn, rm)
      BY <1>1, <1>2, <1>3, <1>8, <1>23, <2>1
    <2>4. /\ ZeroOf(l) \/ FiniteNonzero(l)
          /\ ZeroOf(n) \/ FiniteNonzero(n)
          /\ ~ZeroOf(n) => FiniteNonzero(r)
      BY <1>1, <1>2, <1>3, <1>23
    <2>5. CASE ZeroOf(l) /\ ZeroOf(n)
      BY <1>11, <1>23, <2>2, <2>3, <2>5
    <2>6. CASE ZeroOf(l) /\ ~ZeroOf(n)
      BY <1>13, <1>19, <1>23, <2>2, <2>3, <2>4, <2>6
    <2>7. CASE ~ZeroOf(l) /\ ZeroOf(n)
      BY <1>14, <1>23, <2>2, <2>3, <2>4, <2>7
    <2>8. CASE ~ZeroOf(l) /\ ~ZeroOf(n)
      BY <1>15, <1>23, <2>2, <2>3, <2>4, <2>8
    <2> QED  BY <2>5, <2>6, <2>7, <2>8
  <1> QED  BY <1>21, <1>22, <1>23

\* FADD and FSUB round correctly in every format and every rounding mode.
THEOREM AdditionIsExact == Spec => []AddSubAgrees
  <1>1. ASSUME Operands, NEW rm \in RoundingModes
        PROVE  /\ binary("Add", x, y, rm) = SumOf(x, y)[rm]
               /\ binary("Sub", x, y, rm) = SumOf(x, Negated(y))[rm]
    <2>1. x \in Floats /\ y \in Floats /\ FALSE \in BOOLEAN /\ TRUE \in BOOLEAN
      BY <1>1 DEF Operands
    <2>2. /\ binary("Add", x, y, rm) = add_or_sub(x, y, FALSE, rm)
          /\ binary("Sub", x, y, rm) = add_or_sub(x, y, TRUE, rm)
      BY DEF binary
    <2>3. IsNegative(y) \in BOOLEAN
      BY <2>1, RawParts
    <2>4. IsNegative(y) = (IsNegative(y) # FALSE) /\ ~IsNegative(y) = (IsNegative(y) # TRUE)
      BY <2>3
    <2>5. /\ Negated(y) \in Floats /\ MagnitudeOf(Negated(y)) = MagnitudeOf(y)
          /\ NanOf(y) => Negated(y) = y
          /\ ~NanOf(y) => IsNegative(Negated(y)) = (IsNegative(y) # TRUE)
      BY <2>1, <2>4, NegatedIs
    <2>6. add_or_sub(x, y, FALSE, rm) = SumOf(x, y)[rm]
      BY <2>1, <2>4, AddOrSubIs
    <2>7. add_or_sub(x, y, TRUE, rm) = SumOf(x, Negated(y))[rm]
      BY <2>1, <2>5, AddOrSubIs
    <2> QED  BY <2>2, <2>6, <2>7
  <1>2. ASSUME Operands PROVE AddSubAgrees
    <2> SUFFICES ASSUME NEW op \in {"Add", "Sub"}, NEW rm \in RoundingModes
                 PROVE  binary(op, x, y, rm)
                           = SumOf(x, IF op = "Sub" THEN Negated(y) ELSE y)[rm]
      BY DEF AddSubAgrees
    <2>1. CASE op = "Add"
      BY <1>1, <1>2, <2>1
    <2>2. CASE op = "Sub"
      BY <1>1, <1>2, <2>2
    <2> QED  BY <2>1, <2>2
  <1>3. Operands => AddSubAgrees
    BY <1>2
  <1> QED  BY <1>3, OperandsAreFloats, PTL

-----------------------------------------------------------------------------
\* One bit more of the dividend: what a turn of the division makes of quotient
\* and remainder of the bits above.
LEMMA DivisionStep ==
    ASSUME NEW n \in Nat, NEW d \in Nat \ {0}, NEW k \in Nat
    PROVE  LET P == Power[k]
               N == n \div P
               above == n \div Power[k + 1]
               next == 2 * (above % d) + (N % 2)
           IN  /\ next >= d => /\ (N \div d) * P = (above \div d) * Power[k + 1] + P
                               /\ N % d = next - d
               /\ ~(next >= d) => /\ (N \div d) * P = (above \div d) * Power[k + 1]
                                  /\ N % d = next
  <1> DEFINE P == Power[k]
             Q == Power[k + 1]
             N == n \div P
             A == n \div Q
             r == n % Q
             b == r \div P
             s == r % P
             c == A \div d
             m == A % d
             next == 2 * m + (N % 2)
  <1>1. P \in Nat \ {0} /\ Q \in Nat \ {0} /\ Q = 2 * P
    BY PowerFacts
  <1> HIDE DEF P, Q
  <1>2. n = Q * A + r /\ r \in 0 .. Q - 1 /\ A \in Nat
    BY <1>1, DivModNat
  <1> HIDE DEF A, r
  <1>3. r = P * b + s /\ s \in 0 .. P - 1 /\ b \in Nat
    <2>1. r \in Nat
      BY <1>1, <1>2
    <2> QED  BY <1>1, <2>1, DivModNat
  <1>4. A = d * c + m /\ m \in 0 .. d - 1 /\ c \in Nat
    BY <1>2, DivModNat
  <1> HIDE DEF b, s, c, m
  <1>5. b \in {0, 1}
    <2>1. b >= 2 => P * b >= P * 2
      BY <1>1, <1>3, SMT
    <2>2. P * b \in Nat
      BY <1>1, <1>3, SMT
    <2> QED  BY <1>1, <1>2, <1>3, <2>1, <2>2
  <1>6. N = 2 * A + b
    <2> DEFINE h == 2 * A + b
    <2>1. h * P = Q * A + P * b /\ h \in Int
      <3>1. (2 * A + b) * P = (2 * P) * A + P * b
        BY <1>1, <1>2, <1>3, SMT
      <3> QED  BY <1>1, <1>2, <1>3, <3>1
    <2>2. Q * A \in Int /\ P * b \in Int
      BY <1>1, <1>2, <1>3, SMT
    <2> HIDE DEF h
    <2>3. h * P + s = n
      BY <1>2, <1>3, <2>1, <2>2
    <2>4. (h * P + s) \div P = h
      BY <1>1, <1>3, <2>1, DivUnique
    <2> QED  BY <2>3, <2>4 DEF h
  <1>7. N % 2 = b /\ N \in Nat
    BY <1>2, <1>5, <1>6
  <1>8. next = 2 * m + b /\ next \in Nat /\ next < 2 * d
    BY <1>4, <1>5, <1>7
  <1> HIDE DEF next, N
  <1>9. N = d * (2 * c) + next
    <2>1. 2 * (d * c) = d * (2 * c) /\ d * c \in Nat
      BY <1>4, SMT
    <2> QED  BY <1>4, <1>5, <1>6, <1>8, <2>1
  <1>10. ASSUME next >= d
         PROVE  (N \div d) * P = c * Q + P /\ N % d = next - d
    <2> DEFINE h == 2 * c + 1
               w == next - d
    <2>1. h \in Int /\ w \in 0 .. d - 1
      BY <1>4, <1>8, <1>10
    <2>2. h * d + w = N
      <3>1. (2 * c + 1) * d = d * (2 * c) + d /\ d * (2 * c) \in Int
        BY <1>4, SMT
      <3> QED  BY <1>8, <1>9, <3>1
    <2> HIDE DEF h, w
    <2>3. (h * d + w) \div d = h /\ (h * d + w) % d = w
      BY <2>1, DivUnique
    <2>4. (2 * c + 1) * P = c * (2 * P) + P
      BY <1>1, <1>4, SMT
    <2> QED  BY <1>1, <2>2, <2>3, <2>4 DEF h, w
  <1>11. ASSUME ~(next >= d)
         PROVE  (N \div d) * P = c * Q /\ N % d = next
    <2> DEFINE h == 2 * c
    <2>1. h \in Int /\ next \in 0 .. d - 1
      BY <1>4, <1>8, <1>11
    <2>2. h * d + next = N
      <3>1. (2 * c) * d = d * (2 * c)
        BY <1>4, SMT
      <3> QED  BY <1>9, <3>1
    <2> HIDE DEF h
    <2>3. (h * d + next) \div d = h /\ (h * d + next) % d = next
      BY <2>1, DivUnique
    <2>4. (2 * c) * P = c * (2 * P)
      BY <1>1, <1>4, SMT
    <2> QED  BY <1>1, <2>2, <2>3, <2>4 DEF h
  <1> QED  BY <1>10, <1>11 DEF P, Q, N, A, c, m, next

\* The restoring division returns quotient and remainder.
LEMMA DivideUnsignedIs ==
    ASSUME NEW n \in Nat, n < Power[WordBits], NEW d \in Nat \ {0}
    PROVE  divide_unsigned(n, d) = [quotient |-> n \div d, remainder |-> n % d]
  <1> DEFINE W == WordBits
             Turn(before, bit) ==
                LET next == 2 * before.remainder + ((n \div 2^bit) % 2)
                IN  IF next >= d
                    THEN [quotient |-> before.quotient + 2^bit, remainder |-> next - d]
                    ELSE [quotient |-> before.quotient, remainder |-> next]
             Defines(f) == f = [bit \in 0 .. W |->
                IF bit = W THEN [quotient |-> 0, remainder |-> 0]
                ELSE Turn(f[bit + 1], bit)]
             g == [bit \in 0 .. W |->
                     [quotient |-> ((n \div Power[bit]) \div d) * Power[bit],
                      remainder |-> (n \div Power[bit]) % d]]
  <1>1. W \in Nat /\ \A k \in 0 .. W : 2^k = Power[k]
    <2>1. WIDE \in Nat /\ Power[EXPBITS] \in Nat /\ Power[EXPBITS] >= 4
          /\ \A m \in 0 .. WIDE + 3 : 2^m = Power[m]
      BY FormatFacts
    <2> QED  BY <2>1 DEF WordBits
  <1>2. g[W] = [quotient |-> 0, remainder |-> 0]
    <2> DEFINE P == Power[W]
    <2>1. P \in Nat \ {0} /\ n \in 0 .. P - 1 /\ 0 \in Int /\ W \in 0 .. W
      BY <1>1, PowerFacts
    <2>2. g[W] = [quotient |-> ((n \div P) \div d) * P, remainder |-> (n \div P) % d]
      BY <2>1
    <2> HIDE DEF P, g
    <2>3. (0 * P + n) \div P = 0
      BY <2>1, DivUnique
    <2>4. n \div P = 0
      BY <2>1, <2>3
    <2>5. (0 * d + 0) \div d = 0 /\ (0 * d + 0) % d = 0
      <3>1. 0 \in 0 .. d - 1
        OBVIOUS
      <3> QED  BY <3>1, DivUnique
    <2>6. 0 \div d = 0 /\ 0 % d = 0
      BY <2>5
    <2>7. 0 * P = 0
      BY <2>1
    <2> QED  BY <2>2, <2>4, <2>6, <2>7
  <1>3. ASSUME NEW k \in 0 .. W, k # W PROVE g[k] = Turn(g[k + 1], k)
    <2> DEFINE P == Power[k]
               N == n \div P
               A == n \div Power[k + 1]
               next == 2 * (A % d) + (N % 2)
    <2>1. k \in Nat /\ k + 1 \in 0 .. W /\ 2^k = P
      BY <1>1, <1>3
    <2>2. g[k] = [quotient |-> (N \div d) * P, remainder |-> N % d]
      OBVIOUS
    <2>3. g[k + 1] = [quotient |-> (A \div d) * Power[k + 1], remainder |-> A % d]
      BY <2>1
    <2>4. /\ next >= d => /\ (N \div d) * P = (A \div d) * Power[k + 1] + P
                          /\ N % d = next - d
          /\ ~(next >= d) => /\ (N \div d) * P = (A \div d) * Power[k + 1]
                             /\ N % d = next
      BY <2>1, DivisionStep
    <2>5. Turn(g[k + 1], k) =
             IF next >= d
             THEN [quotient |-> (A \div d) * Power[k + 1] + P, remainder |-> next - d]
             ELSE [quotient |-> (A \div d) * Power[k + 1], remainder |-> next]
      <3> HIDE DEF g
      <3> QED  BY <2>1, <2>3
    <2> HIDE DEF g, Turn, P, N, A, next
    <2> QED  BY <2>2, <2>4, <2>5
  <1>4. Defines(g)
    <2>1. \A k \in 0 .. W : g[k] = IF k = W THEN [quotient |-> 0, remainder |-> 0]
                                   ELSE Turn(g[k + 1], k)
      <3> HIDE DEF g, Turn
      <3> QED  BY <1>2, <1>3
    <2>2. g = [k \in 0 .. W |-> g[k]]
      OBVIOUS
    <2> HIDE DEF g, Turn
    <2>3. [k \in 0 .. W |-> g[k]]
            = [k \in 0 .. W |-> IF k = W THEN [quotient |-> 0, remainder |-> 0]
                                ELSE Turn(g[k + 1], k)]
      BY <2>1
    <2> QED  BY <2>2, <2>3
  <1>5. divide_unsigned(n, d) = (CHOOSE f_1 : Defines(f_1))[0]
    BY DEF divide_unsigned
  <1> DEFINE f == CHOOSE f_1 : Defines(f_1)
  <1>6. Defines(f)
    <2> HIDE DEF Defines
    <2> QED  BY <1>4
  <1>7. /\ f[W] = [quotient |-> 0, remainder |-> 0]
        /\ \A k \in 0 .. W : k # W => f[k] = Turn(f[k + 1], k)
    <2>1. f = [bit \in 0 .. W |-> IF bit = W THEN [quotient |-> 0, remainder |-> 0]
                                  ELSE Turn(f[bit + 1], bit)]
      BY <1>6
    <2> HIDE DEF f, Turn
    <2>2. W \in 0 .. W
      BY <1>1
    <2>3. \A k \in 0 .. W : f[k] = IF k = W THEN [quotient |-> 0, remainder |-> 0]
                                   ELSE Turn(f[k + 1], k)
      BY <2>1
    <2> QED  BY <2>2, <2>3
  <1> HIDE DEF f, Turn, g
  <1> DEFINE T == {k \in Nat : k <= W => f[W - k] = g[W - k]}
  <1>8. Nat \subseteq T
    <2>1. 0 \in T
      BY <1>1, <1>2, <1>7
    <2>2. ASSUME NEW k \in Nat, k \in T PROVE k + 1 \in T
      <3> SUFFICES ASSUME k + 1 <= W PROVE f[W - (k + 1)] = g[W - (k + 1)]
        OBVIOUS
      <3>1. W - (k + 1) \in 0 .. W /\ W - (k + 1) # W /\ (W - (k + 1)) + 1 = W - k /\ k <= W
        BY <1>1
      <3>2. f[W - k] = g[W - k]
        BY <2>2, <3>1
      <3> QED  BY <1>3, <1>7, <3>1, <3>2
    <2> HIDE DEF T
    <2> QED  BY <2>1, <2>2, Induction
  <1>9. f[0] = g[0]
    <2>1. W \in T
      BY <1>1, <1>8
    <2>2. W - W = 0 /\ W <= W
      BY <1>1
    <2> QED  BY <2>1, <2>2
  <1>10. g[0] = [quotient |-> n \div d, remainder |-> n % d]
    <2>1. 0 \in 0 .. W /\ Power[0] = 1 /\ n \div 1 = n
      BY <1>1, PowerFacts
    <2>2. g[0] = [quotient |-> (n \div d) * 1, remainder |-> n % d]
      BY <2>1 DEF g
    <2>3. (n \div d) * 1 = n \div d
      BY DivModNat
    <2> QED  BY <2>2, <2>3
  <1> QED  BY <1>5, <1>9, <1>10 DEF f

\* The significand of a quotient is the quotient of the significands, jammed.
LEMMA QuotientRounded ==
    ASSUME NEW lhs, NEW rhs, NEW gl, NEW gr, IsScaled(lhs, gl), IsScaled(rhs, gr),
           NEW rm \in RoundingModes, NEW negative \in BOOLEAN
    PROVE  DivideFinite(lhs, rhs, negative, rm)
              = Raised(RoundedQuotient(gl * Unit, gr, negative)[rm])
  <1> DEFINE H == HiddenBit
             F == FRACBITS
             M == MinExponent
             sl == lhs.significand
             sr == rhs.significand
             el == lhs.exponent
             er == rhs.exponent
             al == el - M + F
             ar == er - M + F
             smaller == sl < sr
             a == IF smaller THEN 1 ELSE 0
             c == IF smaller THEN 2 ELSE 1
             N == sl * c
             X == N * (8 * H)
             e == el - er - a
             S == Jam(X, sr)
             full == gl * Unit
             i == ar + 3
             j == (al - M + 1) - a
             u == H * 8
             t == Power[j]
  <1>1. /\ H \in Nat /\ H >= 8 /\ F \in Nat /\ F >= 3 /\ H = Power[F] /\ M \in Int /\ M <= 0
        /\ WIDE \in Nat /\ WIDE >= 2 * F + 6 /\ Power[EXPBITS] \in Nat
        /\ \A k \in 0 .. WIDE + 3 : 2^k = Power[k]
    BY FormatFacts
  <1>2. /\ gl \in Nat \ {0} /\ gr \in Nat \ {0}
        /\ sl \in Nat /\ sr \in Nat \ {0} /\ H <= sl /\ sl < 2 * H /\ H <= sr /\ sr < 2 * H
        /\ el \in Int /\ er \in Int /\ al \in Nat /\ ar \in Nat
        /\ gl * H = sl * Power[al] /\ gr * H = sr * Power[ar]
    BY <1>1 DEF IsScaled
  <1>3. /\ a \in {0, 1} /\ c \in {1, 2} /\ c = Power[a] /\ a \in Nat
        /\ e \in Int /\ i \in Nat /\ j \in Nat /\ j - i = e - M - 2
    <2>1. Power[0] = 1 /\ Power[0 + 1] = 2 * Power[0]
      BY PowerFacts
    <2>2. Power[0] = 1 /\ Power[1] = 2
      BY <2>1
    <2>3. a \in {0, 1} /\ c \in {1, 2} /\ c = Power[a] /\ a \in Nat
      BY <2>2
    <2> HIDE DEF a, c
    <2> QED  BY <1>1, <1>2, <2>3
  <1>4. N \in Nat /\ sr <= N /\ N < 2 * sr /\ N < 4 * H
    BY <1>1, <1>2
  <1> HIDE DEF H, F, M, sl, sr, el, er, al, ar, a, c
  <1>5. 2^(F + 3) = 8 * H /\ Power[F + 3] = 8 * H
    <2>1. F + 3 \in 0 .. WIDE + 3
      BY <1>1
    <2> QED  BY <1>1, <2>1, PlacePowers DEF F, H
  <1>6. DivideFinite(lhs, rhs, negative, rm) = round_and_pack(negative, e, S, rm)
    <2>1. X \in Nat /\ X < Power[WordBits]
      <3>1. X \in Nat /\ X < (4 * H) * (8 * H)
        <4> HIDE DEF N
        <4> QED  BY <1>1, <1>4, SMT
      <3>2. Power[F + 2] = 4 * H /\ F + 2 \in Nat /\ F + 3 \in Nat
        <4>1. Power[F + 1] = 2 * H /\ Power[(F + 1) + 1] = 2 * Power[F + 1] /\ (F + 1) + 1 = F + 2
          BY <1>1, PowerFacts
        <4> QED  BY <1>1, <4>1
      <3>3. Power[(F + 2) + (F + 3)] = (4 * H) * (8 * H)
        BY <1>5, <3>2, PowerSum
      <3>4. (F + 2) + (F + 3) \in Nat /\ WordBits \in Nat /\ (F + 2) + (F + 3) < WordBits
        BY <1>1 DEF WordBits
      <3>5. Power[(F + 2) + (F + 3)] < Power[WordBits]
        BY <3>4, PowerGrows
      <3>6. Power[WordBits] \in Nat /\ (4 * H) * (8 * H) \in Nat
        BY <1>1, <3>4, PowerFacts, SMT
      <3> QED  BY <3>1, <3>3, <3>5, <3>6
    <2> HIDE DEF X
    <2>2. divide_unsigned(X, sr) = [quotient |-> X \div sr, remainder |-> X % sr]
      BY <1>2, <2>1, DivideUnsignedIs
    <2>3. DivideFinite(lhs, rhs, negative, rm) =
             round_and_pack(negative, e,
                WithSticky(divide_unsigned(X, sr).quotient, divide_unsigned(X, sr).remainder # 0), rm)
      <3>1. sl * (IF smaller THEN 2 ELSE 1) * 2^(F + 3) = X
        BY <1>5 DEF X, c
      <3>2. el - er - (IF smaller THEN 1 ELSE 0) = e
        BY DEF a
      <3> HIDE DEF X, e, smaller
      <3>3. DivideFinite(lhs, rhs, negative, rm) =
               LET division == divide_unsigned(sl * (IF smaller THEN 2 ELSE 1) * 2^(F + 3), sr)
               IN  round_and_pack(negative, el - er - (IF smaller THEN 1 ELSE 0),
                                  WithSticky(division.quotient, division.remainder # 0), rm)
        BY DEF DivideFinite, sl, sr, el, er, smaller, F
      <3> QED  BY <3>1, <3>2, <3>3
    <2> QED  BY <2>2, <2>3 DEF Jam
  <1>7. X \in Nat /\ full \in Nat /\ u \in Nat \ {0} /\ t \in Nat \ {0} /\ Unit \in Nat \ {0}
    <2>1. Unit \in Nat \ {0}
      BY UnitIs
    <2>2. full \in Nat
      BY <1>2, <2>1, Products
    <2>3. X \in Nat
      <3> HIDE DEF N
      <3> QED  BY <1>1, <1>4, SMT
    <2>4. u \in Nat \ {0}
      BY <1>1
    <2>5. t \in Nat \ {0}
      <3> HIDE DEF j
      <3> QED  BY <1>3, PowerFacts
    <2> QED  BY <2>1, <2>2, <2>3, <2>4, <2>5
  <1>8. S \in Nat /\ S >= 8 * H /\ S < 16 * H
    <2> DEFINE k == 4 * H
               l == 8 * H
    <2>1. k \in Nat /\ l \in Nat /\ 2 * k = 8 * H /\ 2 * l = 16 * H
      BY <1>1
    <2>2. X >= (2 * k) * sr /\ ~(X >= (2 * l) * sr)
      <3> HIDE DEF N
      <3>1. N * (8 * H) >= sr * (8 * H) /\ N * (8 * H) < (2 * sr) * (8 * H)
        BY <1>1, <1>2, <1>4, SMT
      <3>2. (2 * (4 * H)) * sr = sr * (8 * H) /\ (2 * (8 * H)) * sr = (2 * sr) * (8 * H)
        BY <1>1, <1>2, SMT
      <3>3. (2 * sr) * (8 * H) \in Int
        BY <1>1, <1>2, SMT
      <3> QED  BY <1>7, <3>1, <3>2, <3>3
    <2> HIDE DEF k, l, X
    <2>3. Jam(X, sr) >= 2 * k
      BY <1>2, <1>7, <2>1, <2>2, JamBounds
    <2>4. ~(Jam(X, sr) >= 2 * l)
      BY <1>2, <1>7, <2>1, <2>2, JamBounds
    <2>5. Jam(X, sr) \in Nat
      BY <1>2, <1>7, JamSides
    <2> QED  BY <1>1, <2>1, <2>3, <2>4, <2>5
  <1>9. gr * u = Power[i] * sr
    <2>1. Power[i] = Power[ar] * 8
      <3>1. /\ Power[ar + 1] = 2 * Power[ar]
            /\ Power[(ar + 1) + 1] = 2 * Power[ar + 1]
            /\ Power[(ar + 2) + 1] = 2 * Power[ar + 2]
            /\ (ar + 1) + 1 = ar + 2 /\ (ar + 2) + 1 = i /\ Power[ar] \in Nat
        BY <1>2, PowerFacts
      <3> HIDE DEF i
      <3> QED  BY <1>2, <3>1
    <2> DEFINE p == Power[ar]
    <2>2. p \in Nat /\ gr * H = sr * p
      BY <1>2, PowerFacts
    <2> HIDE DEF p, i
    <2>3. gr * (H * 8) = (gr * H) * 8 /\ (p * 8) * sr = (sr * p) * 8
      BY <1>1, <1>2, <2>2, SMT
    <2> QED  BY <2>1, <2>2, <2>3 DEF p
  <1>10. (2 * full) * u = X * t
    <2> DEFINE p == Power[al]
               k == F - M
               q == Power[k]
    <2>1. p \in Nat /\ q \in Nat /\ gl * H = sl * p /\ Unit = q /\ k \in Nat
      BY <1>2, <1>7, UnitIs, PowerFacts DEF F, M
    <2>2. 2 * (p * q) = c * (H * t)
      <3>1. (al + k) + 1 = a + (F + j) /\ al + k \in Nat /\ F + j \in Nat
        BY <1>1, <1>2, <1>3, <2>1
      <3> HIDE DEF k, j
      <3>2. Power[(al + k) + 1] = 2 * Power[al + k]
        BY <3>1, PowerFacts
      <3>3. Power[al + k] = p * q
        BY <1>2, <2>1, PowerSum
      <3>4. Power[F + j] = H * t
        BY <1>1, <1>3, PowerSum
      <3>5. Power[a + (F + j)] = Power[a] * Power[F + j]
        BY <1>3, <3>1, PowerSum
      <3> QED  BY <1>3, <3>1, <3>2, <3>3, <3>4, <3>5
    <2> HIDE DEF p, q, t
    <2>3. (2 * (gl * q)) * (H * 8) = (16 * (gl * H)) * q
      BY <1>1, <1>2, <2>1, SMT
    <2>4. (16 * (sl * p)) * q = (8 * sl) * (2 * (p * q))
      BY <1>2, <2>1, SMT
    <2>5. (8 * sl) * (c * (H * t)) = ((sl * c) * (8 * H)) * t
      <3>1. c \in Nat /\ t \in Nat
        BY <1>3, <1>7
      <3> QED  BY <1>1, <1>2, <3>1, SMT
    <2> QED  BY <2>1, <2>2, <2>3, <2>4, <2>5
  <1> HIDE DEF X, N, S, full, u, t, i, j, e
  <1>11. Scales(e, full, gr, X, sr, u, t)
    <2>1. sr * t = Power[j] * sr
      BY <1>2, <1>7 DEF t
    <2>2. j - i = e - MinExponent - 2
      BY <1>3 DEF M
    <2>3. \E i_1, j_1 \in Nat, v \in Nat \ {0} :
           /\ j_1 - i_1 = e - MinExponent - 2
           /\ gr * u = Power[i_1] * v /\ sr * t = Power[j_1] * v
      BY <1>2, <1>3, <1>9, <2>1, <2>2
    <2> QED  BY <1>2, <1>3, <1>7, <1>10, <2>3, Zenon DEF Scales
  <1>12. \A k \in Int : SameSide(S - 2 * k, X - (2 * k) * sr)
    BY <1>2, <1>7, JamSides DEF S
  <1>13. Jams(S, e, [h \in Nat |-> 2 * full - h * gr])
    BY <1>8, <1>11, <1>12, JamsIs
  <1>14. StandsFor(S, e, full, full, gr)
    <2>1. 16 * H <= Power[WordBits] /\ WordBits \in Nat /\ Power[WordBits] \in Nat
          /\ Power[WordBits + 1] = 2 * Power[WordBits]
      BY PlacePowers, PowerFacts DEF H
    <2>2. S \in Nat \ {0} /\ S < Power[WordBits + 1] /\ S >= 4 * HiddenBit
      BY <1>1, <1>8, <2>1 DEF H
    <2> QED  BY <1>2, <1>3, <1>7, <1>13, <2>2 DEF StandsFor, IsSignificand
  <1>15. round_and_pack(negative, e, S, rm) = Raised(RoundedQuotient(full, gr, negative)[rm])
    BY <1>14, FractionRounded
  <1> QED  BY <1>6, <1>15 DEF full

\* FDIV of any two floats is the reference's quotient of them, as the unit
\* raises it: infinity divided by zero as any division by zero.
LEMMA DivideIs ==
    ASSUME NEW l \in Floats, NEW r \in Floats, NEW rm \in RoundingModes
    PROVE  divide(l, r, rm) =
              IF InfiniteOf(l) /\ ZeroOf(r) THEN Result(QuotientOf(l, r)[rm].value, {DZ})
              ELSE Raised(QuotientOf(l, r)[rm])
  <1> DEFINE lhs == Unpack(l)
             rhs == Unpack(r)
             negative == IsNegative(l) # IsNegative(r)
             gl == Grid[MagnitudeOf(l)]
             gr == Grid[MagnitudeOf(r)]
             equals == {MagnitudeOf(l), MagnitudeOf(r)} \in {{0}, {Infinity}}
  <1>1. /\ lhs.sign = IsNegative(l)
        /\ (is_nan(lhs) <=> NanOf(l)) /\ (IsZero(lhs) <=> ZeroOf(l))
        /\ (IsInfinity(lhs) <=> InfiniteOf(l))
        /\ (ZeroOf(l) \/ FiniteNonzero(l) \/ InfiniteOf(l) \/ NanOf(l))
    BY UnpackFacts
  <1>2. /\ rhs.sign = IsNegative(r)
        /\ (is_nan(rhs) <=> NanOf(r)) /\ (IsZero(rhs) <=> ZeroOf(r))
        /\ (IsInfinity(rhs) <=> InfiniteOf(r))
        /\ (ZeroOf(r) \/ FiniteNonzero(r) \/ InfiniteOf(r) \/ NanOf(r))
    BY UnpackFacts
  <1>3. (lhs.sign # rhs.sign) = negative /\ negative \in BOOLEAN
    BY <1>1, <1>2
  <1>4. /\ propagate_nan({lhs, rhs}) = QuietOf({l, r}, FALSE)[rm]
        /\ Invalid = QuietOf({l, r}, TRUE)[rm]
    BY QuietIs
  <1>5. equals <=> (ZeroOf(l) /\ ZeroOf(r)) \/ (InfiniteOf(l) /\ InfiniteOf(r))
    <2> DEFINE i == MagnitudeOf(l)
               j == MagnitudeOf(r)
    <2> HIDE DEF i, j
    <2>1. {i, j} \in {{0}, {Infinity}} <=> (i = 0 /\ j = 0) \/ (i = Infinity /\ j = Infinity)
      <3>1. ASSUME NEW z PROVE {i, j} = {z} <=> i = z /\ j = z
        BY Zenon
      <3>2. {i, j} \in {{0}, {Infinity}} <=> {i, j} = {0} \/ {i, j} = {Infinity}
        BY Zenon
      <3>3. ({i, j} = {0} <=> i = 0 /\ j = 0) /\ ({i, j} = {Infinity} <=> i = Infinity /\ j = Infinity)
        BY <3>1
      <3> QED  BY <3>2, <3>3
    <2> QED  BY <2>1 DEF i, j, ZeroOf, InfiniteOf
  <1>6. QuotientOf(l, r)[rm] =
            IF NanOf(l) \/ NanOf(r) THEN QuietOf({l, r}, FALSE)[rm]
            ELSE IF equals THEN QuietOf({l, r}, TRUE)[rm]
            ELSE IF InfiniteOf(l) THEN Exact(negative, Infinity)
            ELSE IF ZeroOf(r) THEN Result(Signed(negative, Infinity), {DZ})
            ELSE IF InfiniteOf(r) \/ ZeroOf(l) THEN Exact(negative, 0)
            ELSE RoundedQuotient(Abs(Number(l)) * Unit, Abs(Number(r)), negative)[rm]
    BY DEF QuotientOf, InfinityOf, Always, Exact
  <1>7. divide(l, r, rm) =
            IF is_nan(lhs) \/ is_nan(rhs) THEN propagate_nan({lhs, rhs})
            ELSE IF (IsZero(lhs) /\ IsZero(rhs)) \/ (IsInfinity(lhs) /\ IsInfinity(rhs))
            THEN Invalid
            ELSE IF IsZero(rhs) THEN Result(Signed(negative, Infinity), {DZ})
            ELSE IF IsInfinity(lhs) THEN Exact(negative, Infinity)
            ELSE IF IsZero(lhs) \/ IsInfinity(rhs) THEN Exact(negative, 0)
            ELSE DivideFinite(lhs, rhs, negative, rm)
    BY <1>3 DEF divide
  <1>8. ASSUME FiniteNonzero(l), FiniteNonzero(r), ~NanOf(l), ~NanOf(r)
        PROVE  Raised(RoundedQuotient(Abs(Number(l)) * Unit, Abs(Number(r)), negative)[rm])
                  = DivideFinite(lhs, rhs, negative, rm)
    <2>1. Abs(Number(l)) = gl
      BY <1>8, NumberIs
    <2>2. Abs(Number(r)) = gr
      BY <1>8, NumberIs
    <2>3. IsScaled(lhs, gl)
      BY <1>8, ScaledIs
    <2>4. IsScaled(rhs, gr)
      BY <1>8, ScaledIs
    <2> HIDE DEF lhs, rhs, gl, gr, negative
    <2>5. DivideFinite(lhs, rhs, negative, rm)
             = Raised(RoundedQuotient(gl * Unit, gr, negative)[rm])
      BY <1>3, <2>3, <2>4, QuotientRounded
    <2> QED  BY <2>1, <2>2, <2>5
  <1>12. /\ Raised(Exact(negative, Infinity)) = Exact(negative, Infinity)
         /\ Raised(Exact(negative, 0)) = Exact(negative, 0)
         /\ Raised(QuietOf({l, r}, FALSE)[rm]) = QuietOf({l, r}, FALSE)[rm]
         /\ Raised(QuietOf({l, r}, TRUE)[rm]) = QuietOf({l, r}, TRUE)[rm]
    BY RaisedExact
  <1>13. Raised(Result(Signed(negative, Infinity), {DZ})) = Result(Signed(negative, Infinity), {DZ})
    <2>1. UF \notin {DZ}
      BY DEF UF, DZ
    <2> QED  BY <2>1, RaisedOther
  <1>14. /\ ZeroOf(l) => ~InfiniteOf(l) /\ ~NanOf(l)
         /\ ZeroOf(r) => ~InfiniteOf(r) /\ ~NanOf(r)
         /\ InfiniteOf(l) => ~NanOf(l)
    <2>1. (ZeroOf(l) => ~InfiniteOf(l) /\ ~NanOf(l)) /\ (InfiniteOf(l) => ~NanOf(l))
      BY UnpackFacts
    <2>2. ZeroOf(r) => ~InfiniteOf(r) /\ ~NanOf(r)
      BY UnpackFacts
    <2> QED  BY <2>1, <2>2
  <1>15. Exact(negative, Infinity).value = Signed(negative, Infinity)
    BY DEF Exact, Result
  <1> HIDE DEF lhs, rhs, negative, equals
  <1>9. CASE NanOf(l) \/ NanOf(r)
    BY <1>1, <1>2, <1>4, <1>6, <1>7, <1>9, <1>12, <1>14
  <1>10. CASE ~(NanOf(l) \/ NanOf(r)) /\ equals
    <2>1. QuotientOf(l, r)[rm] = QuietOf({l, r}, TRUE)[rm]
      BY <1>6, <1>10
    <2>2. divide(l, r, rm) = Invalid
      BY <1>1, <1>2, <1>5, <1>7, <1>10
    <2> QED  BY <1>4, <1>5, <1>10, <1>12, <1>14, <2>1, <2>2
  <1>11. CASE ~(NanOf(l) \/ NanOf(r)) /\ ~equals
    <2>1. CASE ZeroOf(r)
      BY <1>1, <1>2, <1>5, <1>6, <1>7, <1>11, <1>13, <1>14, <1>15, <2>1
    <2>2. CASE ~ZeroOf(r) /\ InfiniteOf(l)
      BY <1>1, <1>2, <1>5, <1>6, <1>7, <1>11, <1>12, <2>2
    <2>3. CASE ~ZeroOf(r) /\ ~InfiniteOf(l) /\ (InfiniteOf(r) \/ ZeroOf(l))
      BY <1>1, <1>2, <1>5, <1>6, <1>7, <1>11, <1>12, <2>3
    <2>4. CASE ~ZeroOf(r) /\ ~InfiniteOf(l) /\ ~(InfiniteOf(r) \/ ZeroOf(l))
      <3>1. FiniteNonzero(l) /\ FiniteNonzero(r)
        BY <1>1, <1>2, <1>11, <2>4
      <3>2. divide(l, r, rm) = DivideFinite(lhs, rhs, negative, rm)
        BY <1>1, <1>2, <1>5, <1>7, <1>11, <2>4
      <3>3. QuotientOf(l, r)[rm]
               = RoundedQuotient(Abs(Number(l)) * Unit, Abs(Number(r)), negative)[rm]
        BY <1>6, <1>11, <2>4
      <3> QED  BY <1>8, <1>11, <2>4, <3>1, <3>2, <3>3
    <2> QED  BY <2>1, <2>2, <2>3, <2>4
  <1> QED  BY <1>9, <1>10, <1>11

\* FDIV rounds correctly in every format and every rounding mode; of the flags
\* of the standards it misses underflow to the smallest normal, and it raises
\* DZ for infinity divided by zero.
THEOREM DivisionIsExact == Spec => []DivAgrees
  <1>1. Operands => DivAgrees
    <2> SUFFICES ASSUME Operands, NEW rm \in RoundingModes
                 PROVE  binary("Div", x, y, rm) =
                            IF InfiniteOf(x) /\ ZeroOf(y)
                            THEN Result(QuotientOf(x, y)[rm].value, {DZ})
                            ELSE Raised(QuotientOf(x, y)[rm])
      BY DEF DivAgrees
    <2>1. binary("Div", x, y, rm) = divide(x, y, rm)
      BY DEF binary
    <2> QED  BY <2>1, DivideIs DEF Operands
  <1> QED  BY <1>1, OperandsAreFloats, PTL

-----------------------------------------------------------------------------
\* r is the root of v, in multiples of 2^k.
IsRoot(v, k, r) ==
    /\ (r * r) * (Power[k] * Power[k]) <= v
    /\ v < ((r + 1) * (r + 1)) * (Power[k] * Power[k])

\* Every number has a root.
LEMMA RootExists ==
    ASSUME NEW v \in Nat, NEW k \in Nat
    PROVE  \E r \in Nat : IsRoot(v, k, r)
  <1> DEFINE Q == Power[k] * Power[k]
             A == {r \in Nat : v < ((r + 1) * (r + 1)) * Q}
  <1>1. Q \in Nat \ {0}
    <2>1. Power[k] \in Nat \ {0}
      BY PowerFacts
    <2> QED  BY <2>1, SMT
  <1> HIDE DEF Q
  <1>2. v \in A
    <2>1. (v + 1) * (v + 1) >= v + 1 /\ (v + 1) * (v + 1) \in Nat
      BY SMT
    <2> DEFINE w == (v + 1) * (v + 1)
    <2> HIDE DEF w
    <2>2. w * Q >= w /\ w \in Nat /\ w >= v + 1
      BY <1>1, <2>1, SMT DEF w
    <2>3. v < w * Q
      BY <1>1, <2>2, SMT
    <2> QED  BY <2>3 DEF w
  <1>3. A \subseteq Nat
    OBVIOUS
  <1> HIDE DEF A
  <1>4. PICK r \in A : \A p \in A : r <= p
    BY <1>2, <1>3, Least
  <1>5. r \in Nat /\ v < ((r + 1) * (r + 1)) * Q
    BY <1>4 DEF A
  <1>6. (r * r) * Q <= v
    <2>1. CASE r = 0
      <3>1. (0 * 0) * Q = 0
        BY <1>1
      <3> QED  BY <2>1, <3>1
    <2>2. CASE r # 0
      <3>1. r - 1 \in Nat /\ (r - 1) + 1 = r /\ ~(r <= r - 1)
        BY <1>5, <2>2
      <3>2. ~(r - 1 \in A)
        BY <1>4, <3>1
      <3>3. ~(v < (r * r) * Q)
        BY <3>1, <3>2 DEF A
      <3>4. (r * r) * Q \in Nat
        BY <1>1, <1>5, SMT
      <3> QED  BY <3>3, <3>4
    <2> QED  BY <2>1, <2>2
  <1> QED  BY <1>5, <1>6 DEF IsRoot, Q

\* It has only one.
LEMMA RootUnique ==
    ASSUME NEW v \in Nat, NEW k \in Nat, NEW r \in Nat, NEW p \in Nat,
           IsRoot(v, k, r), IsRoot(v, k, p)
    PROVE  r = p
  <1> DEFINE Q == Power[k] * Power[k]
  <1>1. Q \in Nat \ {0}
    <2>1. Power[k] \in Nat \ {0}
      BY PowerFacts
    <2> QED  BY <2>1, SMT
  <1>2. /\ (r * r) * Q <= v /\ v < ((r + 1) * (r + 1)) * Q
        /\ (p * p) * Q <= v /\ v < ((p + 1) * (p + 1)) * Q
    BY DEF IsRoot
  <1> HIDE DEF Q
  <1>3. ASSUME NEW a \in Nat, NEW b \in Nat, (b * b) * Q <= v, v < ((a + 1) * (a + 1)) * Q
        PROVE  ~(a < b)
    <2> SUFFICES ASSUME a < b PROVE FALSE
      OBVIOUS
    <2>1. (a + 1) * (a + 1) <= b * b /\ (a + 1) * (a + 1) \in Nat /\ b * b \in Nat
      BY SMT
    <2> DEFINE f == (a + 1) * (a + 1)
               g == b * b
    <2> HIDE DEF f, g
    <2>2. f * Q <= g * Q /\ f * Q \in Nat /\ g * Q \in Nat
      BY <1>1, <2>1, SMT DEF f, g
    <2> QED  BY <1>3, <2>2 DEF f, g
  <1>4. ~(r < p) /\ ~(p < r)
    BY <1>2, <1>3
  <1> QED  BY <1>4

\* One digit more of the root.
LEMMA RootStep ==
    ASSUME NEW v \in Nat, NEW k \in Nat, NEW r \in Nat, IsRoot(v, k + 1, r)
    PROVE  LET P == Power[k]
               Q == Power[k + 1]
               root == (r * Q) * Q
               rest == v - (r * Q) * (r * Q)
               tried == root + P * P
               s == 2 * r
           IN  /\ root \in Nat /\ rest \in Nat /\ root \div 2 = (s * P) * P
               /\ rest >= tried => /\ IsRoot(v, k, s + 1)
                                   /\ (s * P) * P + P * P = ((s + 1) * P) * P
                                   /\ rest - tried = v - ((s + 1) * P) * ((s + 1) * P)
               /\ ~(rest >= tried) => IsRoot(v, k, s) /\ rest = v - (s * P) * (s * P)
  <1> DEFINE P == Power[k]
             Q == Power[k + 1]
             s == 2 * r
             root == (r * Q) * Q
             rest == v - (r * Q) * (r * Q)
             tried == root + P * P
             T == P * P
  <1>1. P \in Nat \ {0} /\ Q = 2 * P /\ k + 1 \in Nat
    BY PowerFacts
  <1>2. (r * r) * (Q * Q) <= v /\ v < ((r + 1) * (r + 1)) * (Q * Q)
    BY DEF IsRoot
  <1> HIDE DEF P, Q
  <1>3. T \in Nat \ {0}
    BY <1>1, SMT
  <1>4. /\ (r * r) * ((2 * P) * (2 * P)) = (s * s) * T
        /\ ((r + 1) * (r + 1)) * ((2 * P) * (2 * P)) = ((s + 2) * (s + 2)) * T
        /\ (r * (2 * P)) * (r * (2 * P)) = (s * s) * T
        /\ (r * (2 * P)) * (2 * P) = 2 * (s * T)
        /\ (s * P) * P = s * T /\ (s * P) * (s * P) = (s * s) * T
    <2>1. (r * r) * ((2 * P) * (2 * P)) = ((2 * r) * (2 * r)) * (P * P)
      BY <1>1, SMT
    <2>2. ((r + 1) * (r + 1)) * ((2 * P) * (2 * P)) = ((2 * r + 2) * (2 * r + 2)) * (P * P)
      BY <1>1, SMT
    <2>3. (r * (2 * P)) * (r * (2 * P)) = ((2 * r) * (2 * r)) * (P * P)
      BY <1>1, SMT
    <2>4. (r * (2 * P)) * (2 * P) = 2 * ((2 * r) * (P * P))
      BY <1>1, SMT
    <2>5. ((2 * r) * P) * P = (2 * r) * (P * P)
      BY <1>1, SMT
    <2>6. ((2 * r) * P) * ((2 * r) * P) = ((2 * r) * (2 * r)) * (P * P)
      BY <1>1, SMT
    <2> QED  BY <2>1, <2>2, <2>3, <2>4, <2>5, <2>6
  <1>5. /\ ((s + 1) * P) * P = s * T + T
        /\ ((s + 1) * P) * ((s + 1) * P) = ((s + 1) * (s + 1)) * T
        /\ ((s + 1) * (s + 1)) * T = (s * s) * T + 2 * (s * T) + T
    <2> DEFINE z == 2 * r
    <2>1. z \in Nat
      OBVIOUS
    <2> HIDE DEF z
    <2>2. ((z + 1) * P) * P = z * (P * P) + P * P
      BY <1>1, <2>1, SMT
    <2>3. ((z + 1) * P) * ((z + 1) * P) = ((z + 1) * (z + 1)) * (P * P)
      BY <1>1, <2>1, SMT
    <2>4. ((z + 1) * (z + 1)) * (P * P) = (z * z) * (P * P) + 2 * (z * (P * P)) + P * P
      <3> DEFINE t == P * P
      <3>1. t \in Nat
        BY <1>3
      <3> HIDE DEF t
      <3>2. (z + 1) * (z + 1) = z * z + 2 * z + 1
        BY <2>1, SMT
      <3>3. (z * z + 2 * z + 1) * t = (z * z) * t + 2 * (z * t) + t
        BY <2>1, <3>1, SMT
      <3> QED  BY <3>2, <3>3 DEF t
    <2> QED  BY <2>2, <2>3, <2>4 DEF z
  <1>6. s \in Nat /\ s * T \in Nat /\ (s * s) * T \in Nat
    <2>1. s \in Nat
      OBVIOUS
    <2> HIDE DEF s, T
    <2> QED  BY <1>3, <2>1, SMT
  <1> DEFINE a == s * T
             b == (s * s) * T
             c == ((s + 1) * (s + 1)) * T
  <1>7. /\ a \in Nat /\ b \in Nat /\ c = b + 2 * a + T
        /\ root = 2 * a /\ rest = v - b /\ tried = 2 * a + T /\ b <= v
        /\ v < ((s + 2) * (s + 2)) * T
        /\ (s * P) * P = a /\ (s * P) * (s * P) = b
        /\ ((s + 1) * P) * P = a + T /\ ((s + 1) * P) * ((s + 1) * P) = c
    BY <1>1, <1>2, <1>4, <1>5, <1>6
  <1>8. IsRoot(v, k, s + 1) <=> c <= v /\ v < ((s + 2) * (s + 2)) * T
    <2>1. (s + 1) + 1 = s + 2
      BY <1>6
    <2> QED  BY <2>1 DEF IsRoot, P
  <1>9. IsRoot(v, k, s) <=> b <= v /\ v < c
    BY DEF IsRoot, P
  <1> HIDE DEF a, b, c, root, rest, tried, s, T
  <1>10. root \in Nat /\ rest \in Nat /\ root \div 2 = a
    BY <1>7
  <1>11. rest >= tried => IsRoot(v, k, s + 1) /\ rest - tried = v - c
    BY <1>3, <1>7, <1>8
  <1>12. ~(rest >= tried) => IsRoot(v, k, s)
    BY <1>3, <1>7, <1>9
  <1> QED  BY <1>7, <1>10, <1>11, <1>12 DEF root, rest, tried, s, T, P, Q

-----------------------------------------------------------------------------
\* The restoring square root returns the root and what is left over.
LEMMA SquareRootUnsignedIs ==
    ASSUME NEW v \in Nat, v < Power[WordBits]
    PROVE  \E r \in Nat : /\ r * r <= v /\ v < (r + 1) * (r + 1)
                          /\ square_root_unsigned(v) = [root |-> r, remainder |-> v - r * r]
  <1> DEFINE W == WIDE \div 2 + 1
             Turn(before, digit) ==
                LET tried == before.root + 2^(2 * digit)
                IN  IF before.remainder >= tried
                    THEN [root |-> before.root \div 2 + 2^(2 * digit),
                          remainder |-> before.remainder - tried]
                    ELSE [root |-> before.root \div 2, remainder |-> before.remainder]
             Defines(f) == f = [digit \in 0 .. W |->
                IF digit = W THEN [root |-> 0, remainder |-> v]
                ELSE Turn(f[digit + 1], digit)]
             s == [k \in Nat |-> CHOOSE r \in Nat : IsRoot(v, k, r)]
             g == [k \in 0 .. W |->
                     [root |-> (s[k] * Power[k]) * Power[k],
                      remainder |-> v - (s[k] * Power[k]) * (s[k] * Power[k])]]
  <1>1. /\ W \in Nat /\ 2 * W = WordBits
        /\ \A k \in 0 .. W : 2^(2 * k) = Power[k] * Power[k]
    <2>1. /\ WIDE \in Nat /\ WIDE % 2 = 0
          /\ Power[EXPBITS] \in Nat /\ Power[EXPBITS] >= 4
          /\ \A m \in 0 .. WIDE + 3 : 2^m = Power[m]
      BY FormatFacts, FormatAssumption
    <2>2. W \in Nat /\ 2 * W = WordBits
      BY <2>1 DEF WordBits
    <2>3. ASSUME NEW k \in 0 .. W PROVE 2^(2 * k) = Power[k] * Power[k]
      <3>1. k \in Nat /\ 2 * k = k + k /\ 2 * k \in 0 .. WIDE + 3
        BY <2>1, <2>2 DEF WordBits
      <3>2. Power[k + k] = Power[k] * Power[k]
        BY <3>1, PowerSum
      <3>3. 2^(2 * k) = Power[2 * k]
        BY <2>1, <3>1
      <3> QED  BY <3>1, <3>2, <3>3
    <2> QED  BY <2>2, <2>3
  <1> HIDE DEF W
  <1>2. \A k \in Nat : s[k] \in Nat /\ IsRoot(v, k, s[k])
    <2> SUFFICES ASSUME NEW k \in Nat PROVE s[k] \in Nat /\ IsRoot(v, k, s[k])
      OBVIOUS
    <2>1. \E r \in Nat : IsRoot(v, k, r)
      BY RootExists
    <2>2. s[k] = CHOOSE r \in Nat : IsRoot(v, k, r)
      OBVIOUS
    <2> HIDE DEF s
    <2> QED  BY <2>1, <2>2, Zenon
  <1> HIDE DEF s
  <1>3. g[W] = [root |-> 0, remainder |-> v]
    <2> DEFINE P == Power[W]
    <2>1. P \in Nat \ {0} /\ W \in 0 .. W
      <3>1. Power[W] \in Nat \ {0}
        BY <1>1, PowerFacts
      <3> QED  BY <1>1, <3>1
    <2>2. P * P = Power[WordBits]
      <3>1. W + W = WordBits
        BY <1>1
      <3>2. Power[W + W] = Power[W] * Power[W]
        BY <1>1, PowerSum
      <3> QED  BY <3>1, <3>2
    <2>3. IsRoot(v, W, 0)
      <3>1. (0 * 0) * (P * P) = 0 /\ ((0 + 1) * (0 + 1)) * (P * P) = P * P
        BY <2>1, SMT
      <3> QED  BY <2>2, <3>1 DEF IsRoot
    <2>4. s[W] = 0
      BY <1>1, <1>2, <2>3, RootUnique
    <2>5. (0 * P) * P = 0 /\ v - (0 * P) * (0 * P) = v
      <3>1. 0 * P = 0
        BY <2>1
      <3> HIDE DEF P
      <3> QED  BY <2>1, <3>1
    <2>6. g[W] = [root |-> (s[W] * P) * P, remainder |-> v - (s[W] * P) * (s[W] * P)]
      BY <2>1
    <2> HIDE DEF g, P
    <2> QED  BY <2>4, <2>5, <2>6
  <1>4. ASSUME NEW k \in 0 .. W, k # W PROVE g[k] = Turn(g[k + 1], k)
    <2> DEFINE P == Power[k]
               Q == Power[k + 1]
               r == s[k + 1]
               root == (r * Q) * Q
               rest == v - (r * Q) * (r * Q)
               tried == root + P * P
               z == 2 * r
    <2>1. k \in Nat /\ k + 1 \in 0 .. W /\ k + 1 \in Nat /\ 2^(2 * k) = P * P
      BY <1>1, <1>4
    <2>2. g[k] = [root |-> (s[k] * P) * P, remainder |-> v - (s[k] * P) * (s[k] * P)]
      OBVIOUS
    <2>3. g[k + 1] = [root |-> root, remainder |-> rest]
      BY <2>1
    <2>4. r \in Nat /\ IsRoot(v, k + 1, r) /\ s[k] \in Nat /\ IsRoot(v, k, s[k])
      BY <1>2, <2>1
    <2>5. /\ root \div 2 = (z * P) * P
          /\ rest >= tried => /\ IsRoot(v, k, z + 1)
                              /\ (z * P) * P + P * P = ((z + 1) * P) * P
                              /\ rest - tried = v - ((z + 1) * P) * ((z + 1) * P)
          /\ ~(rest >= tried) => IsRoot(v, k, z) /\ rest = v - (z * P) * (z * P)
      BY <2>1, <2>4, RootStep
    <2>6. z \in Nat /\ z + 1 \in Nat
      BY <2>4
    <2>7. Turn(g[k + 1], k) =
             IF rest >= tried
             THEN [root |-> root \div 2 + P * P, remainder |-> rest - tried]
             ELSE [root |-> root \div 2, remainder |-> rest]
      <3> HIDE DEF g, root, rest
      <3> QED  BY <2>1, <2>3
    <2> HIDE DEF g, Turn, P, Q, r, root, rest, tried, z
    <2>8. CASE rest >= tried
      <3>1. s[k] = z + 1
        BY <2>1, <2>4, <2>5, <2>6, <2>8, RootUnique
      <3> QED  BY <2>2, <2>5, <2>7, <2>8, <3>1
    <2>9. CASE ~(rest >= tried)
      <3>1. s[k] = z
        BY <2>1, <2>4, <2>5, <2>6, <2>9, RootUnique
      <3> QED  BY <2>2, <2>5, <2>7, <2>9, <3>1
    <2> QED  BY <2>8, <2>9
  <1>5. Defines(g)
    <2>1. \A k \in 0 .. W : g[k] = IF k = W THEN [root |-> 0, remainder |-> v]
                                   ELSE Turn(g[k + 1], k)
      <3> HIDE DEF g, Turn
      <3> QED  BY <1>3, <1>4
    <2>2. g = [k \in 0 .. W |-> g[k]]
      OBVIOUS
    <2> HIDE DEF g, Turn
    <2>3. [k \in 0 .. W |-> g[k]]
            = [k \in 0 .. W |-> IF k = W THEN [root |-> 0, remainder |-> v]
                                ELSE Turn(g[k + 1], k)]
      BY <2>1
    <2> QED  BY <2>2, <2>3
  <1>6. square_root_unsigned(v) = (CHOOSE f_1 : Defines(f_1))[0]
    BY DEF square_root_unsigned, W
  <1> DEFINE f == CHOOSE f_1 : Defines(f_1)
  <1>7. Defines(f)
    <2> HIDE DEF Defines
    <2> QED  BY <1>5
  <1>8. /\ f[W] = [root |-> 0, remainder |-> v]
        /\ \A k \in 0 .. W : k # W => f[k] = Turn(f[k + 1], k)
    <2>1. f = [digit \in 0 .. W |-> IF digit = W THEN [root |-> 0, remainder |-> v]
                                    ELSE Turn(f[digit + 1], digit)]
      BY <1>7
    <2> HIDE DEF f, Turn
    <2>2. W \in 0 .. W
      BY <1>1
    <2>3. \A k \in 0 .. W : f[k] = IF k = W THEN [root |-> 0, remainder |-> v]
                                   ELSE Turn(f[k + 1], k)
      BY <2>1
    <2> QED  BY <2>2, <2>3
  <1> HIDE DEF f, Turn, g
  <1> DEFINE T == {k \in Nat : k <= W => f[W - k] = g[W - k]}
  <1>9. Nat \subseteq T
    <2>1. 0 \in T
      BY <1>1, <1>3, <1>8
    <2>2. ASSUME NEW k \in Nat, k \in T PROVE k + 1 \in T
      <3> SUFFICES ASSUME k + 1 <= W PROVE f[W - (k + 1)] = g[W - (k + 1)]
        OBVIOUS
      <3>1. W - (k + 1) \in 0 .. W /\ W - (k + 1) # W /\ (W - (k + 1)) + 1 = W - k /\ k <= W
        BY <1>1
      <3>2. f[W - k] = g[W - k]
        BY <2>2, <3>1
      <3> QED  BY <1>4, <1>8, <3>1, <3>2
    <2> HIDE DEF T
    <2> QED  BY <2>1, <2>2, Induction
  <1>10. f[0] = g[0]
    <2>1. W \in T
      BY <1>1, <1>9
    <2>2. W - W = 0 /\ W <= W
      BY <1>1
    <2> QED  BY <2>1, <2>2
  <1> DEFINE r == s[0]
  <1>11. r \in Nat /\ r * r <= v /\ v < (r + 1) * (r + 1)
    <2>1. r \in Nat /\ IsRoot(v, 0, r) /\ Power[0] = 1
      BY <1>2, PowerFacts
    <2> HIDE DEF r
    <2>2. r * r \in Nat /\ (r + 1) * (r + 1) \in Nat
      BY <2>1, SMT
    <2>3. (r * r) * (1 * 1) <= v /\ v < ((r + 1) * (r + 1)) * (1 * 1)
      BY <2>1 DEF IsRoot
    <2> QED  BY <2>1, <2>2, <2>3
  <1>12. g[0] = [root |-> r, remainder |-> v - r * r]
    <2>1. 0 \in 0 .. W /\ Power[0] = 1
      BY <1>1, PowerFacts
    <2>2. g[0] = [root |-> (r * 1) * 1, remainder |-> v - (r * 1) * (r * 1)]
      BY <2>1 DEF g
    <2>3. (r * 1) * 1 = r /\ r * 1 = r
      BY <1>11
    <2> QED  BY <2>2, <2>3
  <1> HIDE DEF r
  <1> QED  BY <1>6, <1>10, <1>11, <1>12 DEF f

-----------------------------------------------------------------------------
\* A root whose last bit tells of a remainder is on the same side of every even
\* number as the exact one.
LEMMA RootSides ==
    ASSUME NEW v \in Nat, NEW r \in Nat, r * r <= v, v < (r + 1) * (r + 1),
           NEW c \in Nat
    PROVE  SameSide(WithSticky(r, v - r * r # 0) - 2 * c, v - (2 * c) * (2 * c))
  <1> DEFINE g == 2 * c
             S == WithSticky(r, v - r * r # 0)
             p == r * r
             q == (r + 1) * (r + 1)
             z == g * g
  <1>1. g \in Nat /\ p \in Nat /\ q \in Nat /\ z \in Nat
    <2>1. g \in Nat
      OBVIOUS
    <2> HIDE DEF g
    <2> QED  BY <2>1, SMT
  <1>2. S = IF v # p /\ r % 2 = 0 THEN r + 1 ELSE r
    <2>1. v - p # 0 <=> v # p
      BY <1>1
    <2> QED  BY <2>1 DEF WithSticky
  <1>3. /\ r >= g => p >= z
        /\ r > g => p > z
        /\ r < g => p < z /\ q <= z
    <2>1. g \in Nat
      OBVIOUS
    <2> HIDE DEF g
    <2>2. r >= g => r * r >= g * g
      BY <2>1, SMT
    <2>3. r > g => r * r > g * g
      BY <2>1, SMT
    <2>4. r < g => r * r < g * g
      BY <2>1, SMT
    <2>5. r < g => (r + 1) * (r + 1) <= g * g
      BY <2>1, SMT
    <2> QED  BY <2>2, <2>3, <2>4, <2>5
  <1>4. p <= v /\ v < q
    OBVIOUS
  <1>5. (r + 1) % 2 = 0 \/ r % 2 = 0
    OBVIOUS
  <1>6. r % 2 = 0 => r + 1 # g
    OBVIOUS
  <1>7. r % 2 # 0 => r # g
    OBVIOUS
  <1> HIDE DEF S, p, q, z, g
  <1>8. CASE v = p
    <2>1. S = r
      BY <1>2, <1>8
    <2>2. r = g => p = z
      BY DEF p, z
    <2> QED  BY <1>1, <1>3, <1>8, <2>1, <2>2 DEF SameSide, S, g, z
  <1>9. CASE v # p /\ r % 2 = 0
    <2>1. S = r + 1
      BY <1>2, <1>9
    <2>2. S - g # 0 /\ (S - g < 0 <=> r < g)
      BY <1>1, <1>6, <1>9, <2>1
    <2>3. v - z # 0 /\ (v - z < 0 <=> r < g)
      BY <1>1, <1>3, <1>4, <1>9
    <2> QED  BY <2>2, <2>3 DEF SameSide, S, g, z
  <1>10. CASE v # p /\ r % 2 # 0
    <2>1. S = r
      BY <1>2, <1>10
    <2>2. S - g # 0 /\ (S - g < 0 <=> r < g)
      BY <1>1, <1>7, <1>10, <2>1
    <2>3. v - z # 0 /\ (v - z < 0 <=> r < g)
      BY <1>1, <1>3, <1>4, <1>10
    <2> QED  BY <2>2, <2>3 DEF SameSide, S, g, z
  <1> QED  BY <1>8, <1>9, <1>10

\* A root is an order, too.
LEMMA RootIsOrder ==
    ASSUME NEW num \in Nat
    PROVE  IsOrder([h \in Nat |-> 4 * num - h * h])
  <1> DEFINE f == [h \in Nat |-> 4 * num - h * h]
  <1>1. \A h \in Nat : h * h \in Nat
    BY Products
  <1>2. \A h \in Nat : f[h] \in Int
    BY <1>1
  <1>3. ASSUME NEW g \in Nat, NEW h \in Nat, g <= h, f[h] >= 0 PROVE f[g] >= 0
    <2>1. g * g <= h * h /\ g * g \in Nat /\ h * h \in Nat
      BY <1>3, SMT
    <2> QED  BY <1>3, <2>1
  <1> HIDE DEF f
  <1> QED  BY <1>2, <1>3 DEF IsOrder, f

\* The double of a root is the root of the fourfold.
LEMMA RootOrders ==
    ASSUME NEW num \in Nat
    PROVE  AreOrders([h \in Nat |-> 4 * num - h * h], [h \in Nat |-> 16 * num - h * h])
  <1> DEFINE once == [h \in Nat |-> 4 * num - h * h]
             twice == [h \in Nat |-> 16 * num - h * h]
             n == 4 * num
  <1>1. n \in Nat
    OBVIOUS
  <1>2. IsOrder(once) /\ IsOrder([h \in Nat |-> 4 * n - h * h])
    <2> HIDE DEF n
    <2> QED  BY <1>1, RootIsOrder
  <1>3. [h \in Nat |-> 4 * n - h * h] = twice
    OBVIOUS
  <1>4. once[0] >= 0
    <2>1. 0 * 0 = 0
      OBVIOUS
    <2> QED  BY <2>1
  <1>5. ASSUME NEW h \in Nat PROVE SameSide(once[h], twice[2 * h])
    <2>1. once[h] = 4 * num - h * h /\ twice[2 * h] = 16 * num - (2 * h) * (2 * h)
      OBVIOUS
    <2>2. (2 * h) * (2 * h) = 4 * (h * h) /\ h * h \in Nat
      BY SMT
    <2> QED  BY <2>1, <2>2 DEF SameSide
  <1>6. IsOrder(twice)
    BY <1>2, <1>3, Zenon
  <1> HIDE DEF once, twice
  <1>7. AreOrders(once, twice)
    BY <1>2, <1>4, <1>5, <1>6 DEF AreOrders
  <1> QED  BY <1>7 DEF once, twice

\* The formats with fractions short enough for no root to be tiny.
IsShort == FRACBITS + MinExponent <= 0

\* In these the smallest root is a normal number.
LEMMA RootNotTiny ==
    ASSUME NEW g \in Nat \ {0}, IsShort
    PROVE  4 * (g * Unit) >= (2 * HiddenBit) * (2 * HiddenBit)
  <1>1. /\ FRACBITS \in Nat /\ HiddenBit = Power[FRACBITS] /\ HiddenBit \in Nat
        /\ MinExponent = 2 - Power[EXPBITS - 1] /\ Power[EXPBITS - 1] \in Nat
    BY FormatFacts
  <1>2. Unit = Power[FRACBITS - MinExponent] /\ Unit \in Nat
    BY UnitIs
  <1> DEFINE n == FRACBITS - MinExponent
             m == FRACBITS + FRACBITS
  <1>3. n \in Nat /\ m \in Nat /\ m <= n
    BY <1>1 DEF IsShort
  <1>4. Power[m] = HiddenBit * HiddenBit
    BY <1>1, PowerSum
  <1> HIDE DEF n, m
  <1>5. Power[m] <= Power[n] /\ Power[m] \in Nat
    <2>1. m < n => Power[m] < Power[n]
      BY <1>3, PowerGrows
    <2>2. Power[m] \in Nat /\ Power[n] \in Nat
      BY <1>3, PowerFacts
    <2> QED  BY <1>3, <2>1, <2>2
  <1>6. Unit >= HiddenBit * HiddenBit
    BY <1>2, <1>4, <1>5 DEF n
  <1>7. g * Unit >= 1 * Unit /\ g * Unit \in Nat
    BY <1>2, SMT
  <1>8. (2 * HiddenBit) * (2 * HiddenBit) = 4 * (HiddenBit * HiddenBit)
        /\ HiddenBit * HiddenBit \in Nat
    BY <1>1, SMT
  <1> QED  BY <1>2, <1>6, <1>7, <1>8

-----------------------------------------------------------------------------
\* The significand of a root is jammed where the root of the value says so.
LEMMA RootRounded ==
    ASSUME NEW u, NEW g, IsScaled(u, g), NEW rm \in RoundingModes
    PROVE  LET root == RoundedRoot(g * Unit)[rm]
           IN  SquareRootFinite(u, rm) = Raised(root) /\ (IsShort => Raised(root) = root)
  <1> DEFINE H == HiddenBit
             F == FRACBITS
             M == MinExponent
             s == u.significand
             E == u.exponent
             A == E - M + F
             odd == E % 2
             e == (E - odd) \div 2
             k == odd + F + 6
             V == s * Power[k]
             num == g * Unit
             exact == [h \in Nat |-> 4 * num - h * h]
             i == F + 3
             j == e - M + F + 1
  <1>1. /\ H \in Nat /\ H >= 8 /\ F \in Nat /\ F >= 3 /\ H = Power[F] /\ M \in Int /\ M <= 0
        /\ WIDE \in Nat /\ WIDE >= 2 * F + 6 /\ Power[EXPBITS] \in Nat
        /\ Power[EXPBITS] >= 4
        /\ \A n \in 0 .. WIDE + 3 : 2^n = Power[n]
    BY FormatFacts
  <1>2. /\ g \in Nat \ {0} /\ s \in Nat /\ H <= s /\ s < 2 * H
        /\ E \in Int /\ A \in Nat /\ g * H = s * Power[A]
    BY <1>1 DEF IsScaled
  <1> HIDE DEF H, F, M, s, E
  <1>3. odd \in {0, 1} /\ e \in Int /\ E = 2 * e + odd
    BY <1>2
  <1> HIDE DEF odd, e
  <1>4. i \in Nat /\ j \in Nat /\ j - i = e - M - 2 /\ k \in Nat /\ F + 6 \in Nat
    BY <1>1, <1>2, <1>3
  <1>5. Power[i] = 8 * H /\ Power[F + 6] = 64 * H
    <2>1. /\ Power[i] = 8 * H
          /\ Power[i + 1] = 2 * Power[i] /\ Power[(i + 1) + 1] = 2 * Power[i + 1]
          /\ Power[(i + 2) + 1] = 2 * Power[i + 2]
          /\ (i + 1) + 1 = i + 2 /\ (i + 2) + 1 = F + 6
      <3>1. Power[i] = 8 * H
        BY PlacePowers DEF H, F
      <3>2. (i + 1) + 1 = i + 2 /\ (i + 2) + 1 = F + 6 /\ i + 1 \in Nat /\ i + 2 \in Nat
        BY <1>1
      <3> HIDE DEF i
      <3> QED  BY <1>4, <3>1, <3>2, PowerFacts
    <2> HIDE DEF i
    <2> QED  BY <1>1, <2>1
  <1>6. Power[k] = (IF odd = 1 THEN 128 * H ELSE 64 * H) /\ Power[k] \in Nat \ {0}
    <2>1. CASE odd = 0
      <3>1. k = F + 6
        BY <1>1, <2>1
      <3> QED  BY <1>1, <1>5, <2>1, <3>1
    <2>2. CASE odd = 1
      <3>1. k = (F + 6) + 1
        BY <1>1, <2>2
      <3>2. Power[(F + 6) + 1] = 2 * Power[F + 6]
        BY <1>4, PowerFacts
      <3> QED  BY <1>1, <1>5, <2>2, <3>1, <3>2
    <2> QED  BY <1>3, <2>1, <2>2
  <1> DEFINE hh == H * H
  <1>7. V \in Nat /\ 64 * hh <= V /\ V < 256 * hh /\ hh \in Nat
    <2> DEFINE p == Power[k]
    <2>1. p \in Nat /\ 64 * H <= p /\ p <= 128 * H
      BY <1>1, <1>3, <1>6
    <2> HIDE DEF p
    <2>2. s * p \in Nat /\ H * (64 * H) <= s * p /\ s * p <= s * (128 * H)
          /\ s * (128 * H) < (2 * H) * (128 * H) /\ s * (128 * H) \in Nat
      <3>1. H * (64 * H) <= s * (64 * H) /\ s * (64 * H) <= s * p /\ s * p \in Nat
        BY <1>1, <1>2, <2>1, SMT
      <3>2. s * p <= s * (128 * H) /\ s * (128 * H) \in Nat
        BY <1>1, <1>2, <2>1, SMT
      <3>3. s * (128 * H) < (2 * H) * (128 * H)
        BY <1>1, <1>2, SMT
      <3>4. H * (64 * H) \in Nat /\ s * (64 * H) \in Nat
        BY <1>1, <1>2, SMT
      <3> QED  BY <3>1, <3>2, <3>3, <3>4
    <2>3. H * (64 * H) = 64 * (H * H) /\ (2 * H) * (128 * H) = 256 * (H * H) /\ H * H \in Nat
      BY <1>1, SMT
    <2> QED  BY <2>2, <2>3 DEF p
  <1>8. V < Power[WordBits]
    <2>1. 256 * hh = Power[(F + 4) + (F + 4)]
      <3>1. F + 4 \in Nat /\ Power[F + 4] = 16 * H
        BY <1>1, PlacePowers DEF F, H
      <3>2. Power[(F + 4) + (F + 4)] = (16 * H) * (16 * H)
        BY <3>1, PowerSum
      <3>3. (16 * H) * (16 * H) = 256 * (H * H)
        BY <1>1, SMT
      <3> QED  BY <3>2, <3>3
    <2>2. WordBits \in Nat /\ (F + 4) + (F + 4) \in Nat /\ (F + 4) + (F + 4) <= WordBits
      BY <1>1 DEF WordBits
    <2>3. Power[(F + 4) + (F + 4)] <= Power[WordBits]
      <3>1. CASE (F + 4) + (F + 4) = WordBits
        <4>1. Power[WordBits] \in Nat
          BY <2>2, PowerFacts
        <4> QED  BY <3>1, <4>1
      <3>2. CASE (F + 4) + (F + 4) < WordBits
        <4>1. Power[(F + 4) + (F + 4)] < Power[WordBits]
          BY <2>2, <3>2, PowerGrows
        <4>2. Power[WordBits] \in Nat /\ Power[(F + 4) + (F + 4)] \in Nat
          BY <2>2, PowerFacts
        <4> QED  BY <4>1, <4>2
      <3> QED  BY <2>2, <3>1, <3>2
    <2>4. Power[WordBits] \in Nat
      BY <2>2, PowerFacts
    <2> HIDE DEF V, hh
    <2> QED  BY <1>7, <2>1, <2>3, <2>4
  <1> HIDE DEF V
  <1>9. PICK r \in Nat : /\ r * r <= V /\ V < (r + 1) * (r + 1)
                         /\ square_root_unsigned(V) = [root |-> r, remainder |-> V - r * r]
    BY <1>7, <1>8, SquareRootUnsignedIs
  <1> DEFINE S == WithSticky(r, V - r * r # 0)
  <1>10. SquareRootFinite(u, rm) = round_and_pack(FALSE, e, S, rm)
    <2>1. s * 2^(odd + F + 6) = V
      <3>1. k \in 0 .. WIDE + 3
        BY <1>1, <1>3
      <3>2. 2^k = Power[k]
        BY <1>1, <3>1
      <3> QED  BY <3>2 DEF V
    <2>2. SquareRootFinite(u, rm) =
             round_and_pack(FALSE, (E - odd) \div 2,
                WithSticky(square_root_unsigned(V).root, square_root_unsigned(V).remainder # 0), rm)
      <3>1. SquareRootFinite(u, rm) =
               LET result == square_root_unsigned(s * 2^(odd + F + 6))
               IN  round_and_pack(FALSE, (E - odd) \div 2,
                                  WithSticky(result.root, result.remainder # 0), rm)
        BY DEF SquareRootFinite, s, odd, F, E
      <3> QED  BY <2>1, <3>1
    <2>3. square_root_unsigned(V).root = r /\ square_root_unsigned(V).remainder = V - r * r
      BY <1>9
    <2> QED  BY <2>2, <2>3 DEF e
  <1>11. S \in Nat /\ S >= 8 * H /\ S < 16 * H
    <2>1. r >= 8 * H
      <3> SUFFICES ASSUME r < 8 * H PROVE FALSE
        BY <1>1
      <3>1. (r + 1) * (r + 1) <= (8 * H) * (8 * H)
        BY <1>1, SMT
      <3>2. (8 * H) * (8 * H) = 64 * (H * H) /\ (r + 1) * (r + 1) \in Nat
        BY <1>1, SMT
      <3> QED  BY <1>7, <1>9, <3>1, <3>2
    <2>2. r < 16 * H
      <3> SUFFICES ASSUME r >= 16 * H PROVE FALSE
        BY <1>1
      <3>1. r * r >= (16 * H) * (16 * H)
        BY <1>1, SMT
      <3>2. (16 * H) * (16 * H) = 256 * (H * H) /\ r * r \in Nat
        BY <1>1, SMT
      <3> QED  BY <1>7, <1>9, <3>1, <3>2
    <2>3. S = r \/ (r % 2 = 0 /\ S = r + 1)
      BY DEF WithSticky
    <2> HIDE DEF S
    <2> QED  BY <1>1, <2>1, <2>2, <2>3
  <1>12. Unit \in Nat \ {0} /\ F - M \in Nat /\ Unit = Power[F - M]
    BY UnitIs DEF F, M
  <1>13. num \in Nat
    BY <1>2, <1>12, Products
  <1>14. (4 * num) * (Power[i] * Power[i]) = V * (Power[j] * Power[j])
    <2> DEFINE p == Power[A]
               q == Power[F - M]
               t == Power[k]
               w == Power[j]
    <2>1. p \in Nat /\ q \in Nat /\ t \in Nat /\ w \in Nat
      BY <1>2, <1>4, <1>12, PowerFacts
    <2>2. 256 * (H * (p * q)) = t * (w * w)
      <3>1. F + 8 \in Nat /\ A + (F - M) \in Nat /\ j + j \in Nat
            /\ (F + 8) + (A + (F - M)) = k + (j + j)
        BY <1>1, <1>2, <1>3, <1>4, <1>12
      <3>2. Power[F + 8] = 256 * H
        <4>1. F + 7 \in Nat /\ (F + 6) + 1 = F + 7 /\ (F + 7) + 1 = F + 8
          BY <1>1
        <4>2. Power[(F + 6) + 1] = 2 * Power[F + 6] /\ Power[(F + 7) + 1] = 2 * Power[F + 7]
          BY <1>4, <4>1, PowerFacts
        <4> QED  BY <1>1, <1>5, <4>1, <4>2
      <3> HIDE DEF A, j, k
      <3>3. Power[A + (F - M)] = p * q
        BY <1>2, <1>12, PowerSum DEF A
      <3>4. Power[j + j] = w * w
        BY <1>4, PowerSum
      <3>5. Power[(F + 8) + (A + (F - M))] = Power[F + 8] * Power[A + (F - M)]
        BY <3>1, PowerSum
      <3>6. Power[k + (j + j)] = Power[k] * Power[j + j]
        BY <1>4, <3>1, PowerSum
      <3>7. (256 * H) * (p * q) = 256 * (H * (p * q))
        BY <1>1, <2>1, SMT
      <3> QED  BY <3>1, <3>2, <3>3, <3>4, <3>5, <3>6, <3>7
    <2>3. g * H = s * p /\ Unit = q
      BY <1>2, <1>12
    <2> HIDE DEF p, q, t, w
    <2>4. (4 * (g * q)) * ((8 * H) * (8 * H)) = (256 * (H * q)) * (g * H)
      BY <1>1, <1>2, <2>1, SMT
    <2>5. (256 * (H * q)) * (s * p) = s * (256 * (H * (p * q)))
      BY <1>1, <1>2, <2>1, SMT
    <2>6. s * (t * (w * w)) = (s * t) * (w * w)
      BY <1>2, <2>1, SMT
    <2> QED  BY <1>5, <2>2, <2>3, <2>4, <2>5, <2>6 DEF V, w, t
  <1> HIDE DEF S, k, num, i, j, hh, A
  <1>15. Jams(S, e, exact)
    <2> SUFFICES ASSUME NEW h \in Nat, NEW c \in Nat, NEW m \in Nat, NEW n \in Nat,
                        n - m = e - M - 2, h * Power[m] = (2 * c) * Power[n]
                 PROVE  SameSide(exact[h], S - 2 * c)
      BY DEF Jams, M
    <2> DEFINE z == 2 * c
               P == Power[i]
               Q == Power[j]
    <2>1. SameSide(S - z, V - z * z)
      BY <1>7, <1>9, RootSides DEF S
    <2>2. z \in Nat /\ h * Power[m] = z * Power[n] /\ j - i = n - m
      BY <1>4
    <2>3. P \in Nat \ {0} /\ Q \in Nat \ {0}
      BY <1>4, PowerFacts
    <2>4. exact[h] = 4 * num - h * h
      OBVIOUS
    <2> HIDE DEF z, exact
    <2>5. InRatio(h, z, m, n)
      BY <2>2 DEF InRatio
    <2>6. InRatio(h, z, i, j)
      BY <1>4, <2>2, <2>5, PowerRatio
    <2>7. h * P = z * Q
      BY <2>6 DEF InRatio
    <2>8. (4 * num) * (P * P) = V * (Q * Q)
      BY <1>14
    <2> HIDE DEF P, Q
    <2>9. (h * h) * (P * P) = (z * z) * (Q * Q)
      <3>1. (h * h) * (P * P) = (h * P) * (h * P) /\ (z * z) * (Q * Q) = (z * Q) * (z * Q)
        BY <2>2, <2>3, SMT
      <3> QED  BY <2>7, <3>1
    <2> DEFINE a == 4 * num
               b == h * h
               d == z * z
               p == P * P
               q == Q * Q
    <2>10. a \in Int /\ b \in Int /\ d \in Int /\ p \in Nat \ {0} /\ q \in Nat \ {0} /\ V \in Int
      BY <1>7, <1>13, <2>2, <2>3, SMT
    <2>11. a * p = V * q /\ b * p = d * q
      BY <2>8, <2>9
    <2> HIDE DEF a, b, d, p, q
    <2>12. (a - b) * p = (V - d) * q
      <3>1. (a - b) * p = a * p - b * p
        BY <2>10, SMT
      <3>2. (V - d) * q = V * q - d * q
        BY <2>10, SMT
      <3> QED  BY <2>11, <3>1, <3>2
    <2>13. SameSide(a - b, (a - b) * p) /\ SameSide(V - d, (V - d) * q)
      <3>1. a - b \in Int /\ V - d \in Int
        BY <2>10
      <3> QED  BY <2>10, <3>1, SideScaled
    <2> QED  BY <2>1, <2>4, <2>12, <2>13 DEF SameSide, a, b, d, z
  <1>16. IsOrder(exact)
    BY <1>13, RootIsOrder
  <1>17. \A h \in 0 .. 2 * Grid[Infinity] : exact[h] \in Int /\ SameSide(exact[h], exact[h])
    <2>1. Grid[Infinity] \in Nat
      BY GridTop
    <2>2. \A h \in 0 .. 2 * Grid[Infinity] : h \in Nat
      BY <2>1
    <2> HIDE DEF exact
    <2> QED  BY <1>16, <2>2 DEF IsOrder, SameSide
  <1>18. IsSignificand(S) /\ S >= 4 * HiddenBit
    <2>1. 16 * H <= Power[WordBits] /\ WordBits \in Nat /\ Power[WordBits] \in Nat
          /\ Power[WordBits + 1] = 2 * Power[WordBits]
      BY PlacePowers, PowerFacts DEF H
    <2> QED  BY <1>1, <1>11, <2>1 DEF IsSignificand, H
  <1> DEFINE no == FALSE
  <1>19. SquareRootFinite(u, rm) = round_and_pack(no, e, S, rm) /\ no \in BOOLEAN
    BY <1>10
  <1> HIDE DEF no
  <1> DEFINE R == Rounded(Grid, 0, Infinity, exact, no)
  <1> DEFINE twice == [h \in Nat |-> 16 * num - h * h]
  <1>20. RoundedRoot(num) = Delivered(exact, twice, no)
    BY DEF RoundedRoot, no
  <1>22. AreOrders(exact, twice)
    BY <1>13, RootOrders
  <1>23. IsShort => exact[2 * HiddenBit] >= 0
    <2>1. g \in Nat \ {0}
      BY DEF IsScaled
    <2>2. HiddenBit \in Nat /\ 2 * HiddenBit \in Nat
      BY FormatFacts
    <2>3. exact[2 * HiddenBit] = 4 * num - (2 * HiddenBit) * (2 * HiddenBit)
      BY <2>2
    <2>4. (2 * HiddenBit) * (2 * HiddenBit) \in Nat
      BY <2>2, SMT
    <2> HIDE DEF exact
    <2>5. IsShort => 4 * num >= (2 * HiddenBit) * (2 * HiddenBit)
      BY <2>1, RootNotTiny DEF num
    <2> HIDE DEF num
    <2> QED  BY <1>13, <2>3, <2>4, <2>5
  <1> HIDE DEF exact, twice
  <1>21. round_and_pack(no, e, S, rm) = Packs(no, R[rm])
    <2>1. (Jams(S, e, exact) /\ S >= 4 * HiddenBit) \/ IsExactly(S, e, exact)
      BY <1>15, <1>18
    <2>2. IsSignificand(S)
      BY <1>18
    <2> QED  BY <1>3, <1>16, <1>17, <1>19, <2>1, <2>2, CorrectlyRounded
  <1>24. /\ Packs(no, R[rm]) = Raised(Delivered(exact, twice, no)[rm])
         /\ exact[2 * HiddenBit] >= 0 =>
                Raised(Delivered(exact, twice, no)[rm]) = Delivered(exact, twice, no)[rm]
    BY <1>19, <1>22, DeliveredIs
  <1> HIDE DEF R
  <1> QED  BY <1>19, <1>20, <1>21, <1>23, <1>24 DEF num

\* FSQRT of any float is the reference's root of it.
LEMMA RootIs ==
    ASSUME NEW b \in Floats, NEW rm \in RoundingModes, IsShort
    PROVE  square_root(b, rm) = RootOf(b)[rm]
  <1> DEFINE u == Unpack(b)
             g == Grid[MagnitudeOf(b)]
  <1>1. /\ u.sign = IsNegative(b) /\ IsNegative(b) \in BOOLEAN
        /\ (is_nan(u) <=> NanOf(b)) /\ (IsZero(u) <=> ZeroOf(b))
        /\ (IsInfinity(u) <=> InfiniteOf(b))
        /\ (ZeroOf(b) \/ FiniteNonzero(b) \/ InfiniteOf(b) \/ NanOf(b))
    BY UnpackFacts
  <1>2. propagate_nan({u}) = QuietOf({b}, FALSE)[rm] /\ Invalid = QuietOf({b}, TRUE)[rm]
    <2>1. propagate_nan({u, u}) = QuietOf({b, b}, FALSE)[rm] /\ Invalid = QuietOf({b, b}, TRUE)[rm]
      BY QuietIs
    <2>2. {u, u} = {u} /\ {b, b} = {b}
      OBVIOUS
    <2> QED  BY <2>1, <2>2
  <1>3. square_root(b, rm) =
            IF is_nan(u) THEN propagate_nan({u})
            ELSE IF IsZero(u) THEN Result(b, {})
            ELSE IF u.sign THEN Invalid
            ELSE IF IsInfinity(u) THEN Exact(FALSE, Infinity)
            ELSE SquareRootFinite(u, rm)
    BY DEF square_root
  <1>4. RootOf(b)[rm] =
            IF NanOf(b) THEN QuietOf({b}, FALSE)[rm]
            ELSE IF ZeroOf(b) THEN Result(b, {})
            ELSE IF IsNegative(b) THEN QuietOf({b}, TRUE)[rm]
            ELSE IF InfiniteOf(b) THEN Result(b, {})
            ELSE RoundedRoot(Number(b) * Unit)[rm]
    BY DEF RootOf, Always
  <1>5. ASSUME InfiniteOf(b), ~IsNegative(b) PROVE Exact(FALSE, Infinity) = Result(b, {})
    <2>1. b = Signed(IsNegative(b), MagnitudeOf(b))
      BY RawParts
    <2> QED  BY <1>5, <2>1 DEF Exact, Signed, InfiniteOf
  <1>6. ASSUME FiniteNonzero(b), ~IsNegative(b), ~NanOf(b)
        PROVE  SquareRootFinite(u, rm) = RoundedRoot(Number(b) * Unit)[rm]
    <2>1. IsScaled(u, g)
      BY <1>6, ScaledIs
    <2>2. Number(b) = g
      BY <1>6, NumberIs
    <2> HIDE DEF u, g
    <2> QED  BY <2>1, <2>2, RootRounded
  <1> HIDE DEF u
  <1>7. CASE NanOf(b)
    BY <1>1, <1>2, <1>3, <1>4, <1>7
  <1>8. CASE ~NanOf(b) /\ ZeroOf(b)
    BY <1>1, <1>3, <1>4, <1>8
  <1>9. CASE ~NanOf(b) /\ ~ZeroOf(b) /\ IsNegative(b)
    BY <1>1, <1>2, <1>3, <1>4, <1>9
  <1>10. CASE ~NanOf(b) /\ ~ZeroOf(b) /\ ~IsNegative(b) /\ InfiniteOf(b)
    BY <1>1, <1>3, <1>4, <1>5, <1>10
  <1>11. CASE ~NanOf(b) /\ ~ZeroOf(b) /\ ~IsNegative(b) /\ ~InfiniteOf(b)
    BY <1>1, <1>3, <1>4, <1>6, <1>11
  <1> QED  BY <1>7, <1>8, <1>9, <1>10, <1>11

\* FSQRT rounds correctly, with the flags of the standards, in every rounding
\* mode and every format in which no root is tiny, as in binary32 none is.
THEOREM RootIsExact ==
    ASSUME FRACBITS + MinExponent <= 0 PROVE Spec => []SqrtAgrees
  <1>0. IsShort
    BY DEF IsShort
  <1>1. Operands => SqrtAgrees
    <2> SUFFICES ASSUME Operands, NEW rm \in RoundingModes
                 PROVE  unary("Sqrt", x, rm) = RootOf(x)[rm]
      BY DEF SqrtAgrees
    <2>1. unary("Sqrt", x, rm) = square_root(x, rm)
      BY DEF unary
    <2> QED  BY <1>0, <2>1, RootIs DEF Operands
  <1> QED  BY <1>1, OperandsAreFloats, PTL

-----------------------------------------------------------------------------
\* What integer_to_float gives round_and_pack.
IntegerPlaced(M) ==
    LET surplus == Msb(M) - (FRACBITS + 3)
    IN  IF surplus > 0 THEN shift_right_jam(M, surplus) ELSE M * 2^(-surplus)

\* It stands for the integer, however wide.
LEMMA IntegerStands ==
    ASSUME NEW M \in Nat \ {0}, M < Power[WordBits]
    PROVE  StandsFor(IntegerPlaced(M), Msb(M), M * Unit, M * Unit, 1)
  <1> DEFINE H == HiddenBit
             F == FRACBITS
             K == MinExponent
             E == Msb(M)
             d == E - (F + 3)
             full == M * Unit
             S == IntegerPlaced(M)
             t == 2 * Unit
  <1>1. /\ H \in Nat /\ H >= 8 /\ F \in Nat /\ F >= 3 /\ H = Power[F] /\ K \in Int /\ K <= 0
        /\ WIDE \in Nat /\ WIDE >= 2 * F + 6 /\ WordBits = WIDE + 2
        /\ \A k \in 0 .. WIDE + 3 : 2^k = Power[k]
    BY FormatFacts DEF WordBits
  <1>2. /\ \A n \in Nat : Power[n] \in Nat \ {0} /\ Power[n + 1] = 2 * Power[n]
        /\ Power[0] = 1
    BY PowerFacts
  <1>3. M < Power[WordBits + 1]
    <2>1. WordBits \in Nat
      BY <1>1
    <2>2. Power[WordBits] \in Nat /\ Power[WordBits + 1] = 2 * Power[WordBits]
      BY <1>2, <2>1
    <2> QED  BY <2>2
  <1>4. E \in 0 .. WordBits /\ Power[E] <= M /\ M < Power[E + 1] /\ E \in Nat
    <2>1. E \in 0 .. WordBits /\ Power[E] <= M /\ M < Power[E + 1]
      BY <1>3, MsbIs
    <2> QED  BY <1>1, <2>1
  <1>5. Unit = Power[F - K] /\ Unit \in Nat \ {0} /\ F - K \in Nat /\ full \in Nat
        /\ t = Power[(F - K) + 1] /\ t \in Nat \ {0}
    <2>1. Unit = Power[F - K] /\ Unit \in Nat \ {0} /\ F - K \in Nat
      BY UnitIs
    <2>2. full \in Nat
      BY <2>1, Products
    <2> QED  BY <1>2, <2>1, <2>2
  <1>6. S = IF d > 0 THEN shift_right_jam(M, d) ELSE M * 2^(-d)
    BY DEF IntegerPlaced
  <1>7. Power[F + 3] = 8 * H /\ Power[F + 4] = 16 * H /\ 16 * H <= Power[WordBits]
        /\ Power[WordBits] \in Nat /\ Power[WordBits + 1] = 2 * Power[WordBits]
    <2>1. WordBits \in Nat
      BY <1>1
    <2> QED  BY <1>2, <2>1, PlacePowers
  <1> HIDE DEF H, F, K, E, S
  <1>8. CASE d > 0
    <2> DEFINE q == Power[d]
               j == E - K - 2
    <2>1. d \in Nat /\ q \in Nat \ {0} /\ j \in Nat /\ d < WordBits
      <3>1. d \in Nat /\ j \in Nat /\ d < WordBits
        BY <1>1, <1>4, <1>8
      <3> QED  BY <1>2, <3>1
    <2>2. S = Jam(M, q)
      <3>1. shift_right_jam(M, d) = Jam(M, Power[d])
        BY <2>1, ShiftRightJam
      <3> QED  BY <1>6, <1>8, <3>1
    <2>3. Power[E] = (8 * H) * q /\ Power[E + 1] = (16 * H) * q
      <3>1. E = (F + 3) + d /\ E + 1 = (F + 4) + d /\ F + 3 \in Nat /\ F + 4 \in Nat
        BY <1>1, <1>4
      <3> HIDE DEF d
      <3>2. Power[(F + 3) + d] = Power[F + 3] * q /\ Power[(F + 4) + d] = Power[F + 4] * q
        BY <2>1, <3>1, PowerSum
      <3> QED  BY <1>7, <3>1, <3>2
    <2> HIDE DEF q, d, j
    <2>4. S \in Nat /\ S >= 8 * H /\ S < 16 * H
      <3> DEFINE k == 4 * H
                 l == 8 * H
      <3>1. k \in Nat /\ l \in Nat /\ 2 * k = 8 * H /\ 2 * l = 16 * H
        BY <1>1
      <3> HIDE DEF k, l
      <3>2. M >= (2 * k) * q /\ ~(M >= (2 * l) * q)
        <4>1. (8 * H) * q \in Nat /\ (16 * H) * q \in Nat
          BY <1>1, <2>1, SMT
        <4> QED  BY <1>4, <2>3, <3>1, <4>1
      <3>3. Jam(M, q) >= 2 * k
        BY <2>1, <3>1, <3>2, JamBounds
      <3>4. ~(Jam(M, q) >= 2 * l)
        BY <2>1, <3>1, <3>2, JamBounds
      <3>5. Jam(M, q) \in Nat
        BY <2>1, JamSides
      <3> QED  BY <1>1, <2>2, <3>1, <3>3, <3>4, <3>5
    <2>5. Scales(E, full, 1, M, q, 1, t)
      <3>1. (2 * full) * 1 = M * t
        <4> DEFINE U == Unit
        <4>1. U \in Nat
          BY <1>5
        <4> HIDE DEF U
        <4>2. (2 * (M * U)) * 1 = M * (2 * U)
          BY <4>1, SMT
        <4> QED  BY <4>2 DEF U
      <3>2. q * t = Power[j] * 1
        <4>1. d + ((F - K) + 1) = j /\ (F - K) + 1 \in Nat
          BY <1>1, <1>4, <1>5 DEF d, j
        <4>2. Power[d + ((F - K) + 1)] = q * Power[(F - K) + 1]
          BY <2>1, <4>1, PowerSum DEF q
        <4>3. Power[j] \in Nat
          BY <1>2, <2>1
        <4> QED  BY <1>5, <4>1, <4>2, <4>3
      <3>3. 1 * 1 = Power[0] * 1 /\ j - 0 = E - MinExponent - 2 /\ 0 \in Nat
        BY <1>2, <2>1 DEF j, K
      <3>4. \E i, k \in Nat, v \in Nat \ {0} :
               /\ k - i = E - MinExponent - 2
               /\ 1 * 1 = Power[i] * v /\ q * t = Power[k] * v
        <4>1. 1 \in Nat \ {0}
          OBVIOUS
        <4> HIDE DEF t
        <4> QED  BY <2>1, <3>2, <3>3, <4>1
      <3>5. E \in Int /\ full \in Nat /\ 1 \in Nat \ {0} /\ M \in Nat
        BY <1>4, <1>5
      <3> HIDE DEF full, t
      <3> QED  BY <1>5, <2>1, <3>1, <3>4, <3>5, Zenon DEF Scales
    <2> HIDE DEF full, t
    <2>6. \A k \in Int : SameSide(S - 2 * k, M - (2 * k) * q)
      BY <2>1, <2>2, JamSides
    <2>7. Jams(S, E, [h \in Nat |-> 2 * full - h * 1])
      BY <2>4, <2>5, <2>6, JamsIs
    <2>8. S \in Nat \ {0} /\ S < Power[WordBits + 1] /\ S >= 4 * HiddenBit
      BY <1>1, <1>7, <2>4 DEF H
    <2>9. E \in Int /\ 1 \in Nat \ {0}
      BY <1>4
    <2> QED  BY <1>5, <2>7, <2>8, <2>9 DEF StandsFor, IsSignificand, full, S, E
  <1>9. CASE ~(d > 0)
    <2> DEFINE r == -d
               p == Power[r]
               j == (F - K) + 1
    <2>1. r \in Nat /\ r <= F + 3 /\ p \in Nat \ {0} /\ j \in Nat /\ 2^r = p
      <3>1. r \in Nat /\ r <= F + 3 /\ j \in Nat /\ r \in 0 .. WIDE + 3
        BY <1>1, <1>4, <1>5, <1>9
      <3> HIDE DEF r
      <3> QED  BY <1>1, <1>2, <3>1
    <2>2. S = M * p
      BY <1>6, <1>9, <2>1
    <2>3. S \in Nat \ {0} /\ S < 16 * H
      <3>1. (E + 1) + r = F + 4 /\ E + 1 \in Nat
        BY <1>1, <1>4
      <3> HIDE DEF r
      <3>2. Power[(E + 1) + r] = Power[E + 1] * p /\ Power[E + 1] \in Nat
        BY <1>2, <2>1, <3>1, PowerSum
      <3> DEFINE g == Power[E + 1]
      <3>3. g \in Nat /\ M < g /\ g * p = 16 * H
        BY <1>4, <1>7, <3>1, <3>2
      <3> HIDE DEF g, p
      <3>4. M * p < g * p /\ M * p \in Nat \ {0}
        BY <2>1, <3>3, SMT
      <3> QED  BY <1>1, <2>2, <3>3, <3>4
    <2>4. Scales(E, full, 1, S, 1, p, t)
      <3>1. (2 * full) * p = S * t
        <4> DEFINE U == Unit
        <4>1. U \in Nat
          BY <1>5
        <4> HIDE DEF U, p
        <4>2. (2 * (M * U)) * p = (M * p) * (2 * U)
          BY <2>1, <4>1, SMT
        <4> QED  BY <2>2, <4>2 DEF U
      <3>2. 1 * t = Power[j] * 1 /\ 1 * p = Power[r] * 1
        <4>1. t \in Nat /\ t = Power[j] /\ p \in Nat
          BY <1>5, <2>1
        <4> HIDE DEF t, p, j, r
        <4> QED  BY <4>1 DEF p
      <3>3. j - r = E - MinExponent - 2
        BY <1>1, <1>4 DEF K
      <3>4. 1 \in Nat \ {0}
        OBVIOUS
      <3>6. E \in Int /\ full \in Nat /\ S \in Nat
        BY <1>4, <1>5, <2>3
      <3> HIDE DEF full, t, j, p, r
      <3>5. \E i, k \in Nat, v \in Nat \ {0} :
               /\ k - i = E - MinExponent - 2
               /\ 1 * p = Power[i] * v /\ 1 * t = Power[k] * v
        BY <2>1, <3>2, <3>3, <3>4
      <3> QED  BY <1>5, <2>1, <3>1, <3>4, <3>5, <3>6, Zenon DEF Scales
    <2> HIDE DEF full, t, p, r, j
    <2>5. S = S * 1
      BY <2>3
    <2>6. IsExactly(S, E, [h \in Nat |-> 2 * full - h * 1])
      BY <2>3, <2>4, <2>5, ExactIs
    <2>7. S \in Nat \ {0} /\ S < Power[WordBits + 1]
      BY <1>1, <1>7, <2>3
    <2>8. E \in Int /\ 1 \in Nat \ {0}
      BY <1>4
    <2> QED  BY <1>5, <2>6, <2>7, <2>8 DEF StandsFor, IsSignificand, full, S, E
  <1> QED  BY <1>8, <1>9

\* The floats from one upwards, in units of the last place of one.
OnesGrid == [b \in Bias * HiddenBit .. Infinity |->
                (HiddenBit + (b % HiddenBit)) * Power[b \div HiddenBit - Bias]]

\* That is as many smallest subnormals as there are in half of the places.
LEMMA OnesGridIs ==
    /\ Bias - 1 \in Nat /\ Unit = HiddenBit * Power[Bias - 1]
    /\ BeginsBinade(Bias * HiddenBit) /\ BeginsBinade(0) /\ BeginsBinade(Infinity)
    /\ Bias * HiddenBit \in 0 .. Infinity /\ Grid[Bias * HiddenBit] = Unit
    /\ \A b \in Bias * HiddenBit .. Infinity :
          OnesGrid[b] \in Nat /\ Grid[b] = OnesGrid[b] * Power[Bias - 1]
  <1> DEFINE H == HiddenBit
             N == Power[EXPBITS]
             B == Bias
             p == Power[B - 1]
  <1>1. /\ H \in Nat /\ H >= 8 /\ H \in Nat \ {0} /\ H = Power[FRACBITS] /\ FRACBITS \in Nat
        /\ N \in Nat /\ N = 2 * B + 2 /\ B \in Nat /\ B >= 1 /\ Infinity = (N - 1) * H
        /\ MinExponent = 1 - B /\ Infinity \in Nat
    BY FormatFacts
  <1>2. B - 1 \in Nat /\ N - 1 \in Nat /\ B <= N - 1 /\ p \in Nat \ {0}
    <2>1. B - 1 \in Nat /\ N - 1 \in Nat /\ B <= N - 1
      BY <1>1
    <2> HIDE DEF B
    <2> QED  BY <2>1, PowerFacts
  <1> HIDE DEF H, N, B, p
  <1>3. Unit = H * p
    <2>1. FRACBITS - MinExponent = FRACBITS + (B - 1)
      BY <1>1
    <2>2. Power[FRACBITS + (B - 1)] = H * p
      BY <1>1, <1>2, PowerSum DEF p
    <2> QED  BY <2>1, <2>2, UnitIs
  <1>4. B * H \in Nat /\ B * H <= Infinity /\ 0 * H = 0
    <2>1. B * H <= (N - 1) * H /\ B * H \in Nat /\ 0 * H = 0
      BY <1>1, <1>2, SMT
    <2> QED  BY <1>1, <2>1
  <1>5. BeginsBinade(B * H) /\ BeginsBinade(0) /\ BeginsBinade(Infinity)
    <2>1. 0 \in Nat
      OBVIOUS
    <2> QED  BY <1>1, <1>2, <1>4, <2>1 DEF BeginsBinade, H
  <1>6. ASSUME NEW b \in B * H .. Infinity
        PROVE  OnesGrid[b] \in Nat /\ Grid[b] = OnesGrid[b] * p /\ (b = B * H => OnesGrid[b] = H)
    <2> DEFINE q == b \div H
               r == b % H
    <2>1. b \in Nat /\ b \in 0 .. Infinity
      BY <1>4
    <2>2. b = H * q + r /\ r \in 0 .. H - 1 /\ q \in Nat
      BY <1>1, <2>1, DivModNat
    <2>3. OnesGrid[b] = (H + r) * Power[q - B]
      BY DEF OnesGrid, H, B
    <2>4. Grid[b] = IF b < H THEN b ELSE (H + r) * Power[q - 1]
      BY <2>1 DEF Grid, H
    <2>8. b = B * H => q = B /\ r = 0
      <3>1. 0 \in 0 .. H - 1 /\ B \in Int
        BY <1>1
      <3>2. (B * H + 0) \div H = B /\ (B * H + 0) % H = 0
        BY <1>1, <3>1, DivUnique
      <3>3. B * H + 0 = B * H
        BY <1>4
      <3> QED  BY <3>2, <3>3
    <2> HIDE DEF q, r
    <2>5. q >= B
      <3> SUFFICES ASSUME q + 1 <= B PROVE FALSE
        BY <1>1, <2>2
      <3>1. (q + 1) * H <= B * H /\ (q + 1) * H = H * q + H /\ H * q \in Nat
        BY <1>1, <2>2, SMT
      <3> QED  BY <1>1, <1>4, <2>2, <3>1
    <2>6. ~(b < H)
      <3>1. B * H >= 1 * H
        BY <1>1, SMT
      <3> QED  BY <1>1, <1>4, <3>1
    <2>7. Power[q - 1] = Power[q - B] * p /\ Power[q - B] \in Nat
      <3>1. q - B \in Nat /\ q - 1 = (q - B) + (B - 1)
        BY <1>1, <2>2, <2>5
      <3>2. Power[(q - B) + (B - 1)] = Power[q - B] * Power[B - 1]
        BY <1>2, <3>1, PowerSum
      <3> QED  BY <3>1, <3>2, PowerFacts DEF p
    <2> DEFINE g == Power[q - B]
    <2> HIDE DEF g
    <2>9. (H + r) * (g * p) = ((H + r) * g) * p /\ (H + r) * g \in Nat /\ g \in Nat
      <3>1. H + r \in Nat /\ g \in Nat
        BY <1>1, <2>2, <2>7 DEF g
      <3> QED  BY <1>2, <3>1, SMT
    <2>10. b = B * H => OnesGrid[b] = H
      <3>1. b = B * H => q - B = 0 /\ H + r = H
        BY <1>1, <2>8
      <3>2. Power[0] = 1 /\ H * 1 = H
        BY <1>1, PowerFacts
      <3> QED  BY <2>3, <3>1, <3>2
    <2> QED  BY <2>3, <2>4, <2>6, <2>7, <2>9, <2>10 DEF g
  <1>7. Grid[B * H] = Unit
    <2>1. B * H \in B * H .. Infinity
      BY <1>4
    <2> QED  BY <1>3, <1>6, <2>1
  <1>8. B * H \in 0 .. Infinity
    BY <1>1, <1>4
  <1> QED  BY <1>2, <1>3, <1>5, <1>6, <1>7, <1>8 DEF B, H, p

\* There is a last float that does not exceed a number.
LEMMA LastBelow ==
    ASSUME NEW n \in Nat
    PROVE  \E b \in 0 .. Infinity : \A c \in 0 .. Infinity : Grid[c] <= n <=> c <= b
  <1> DEFINE T == {c \in 0 .. Infinity : ~(Grid[c] <= n)}
  <1>1. /\ \A c \in 0 .. Infinity : Grid[c] \in Nat /\ c \in Nat
        /\ \A b \in 0 .. Infinity : \A c \in 0 .. Infinity : b < c <=> Grid[b] < Grid[c]
        /\ Grid[0] = 0 /\ Infinity \in Nat
    BY GridGrows, GridTop
  <1>2. CASE T = {}
    <2>1. Infinity \in 0 .. Infinity
      BY <1>1
    <2>2. \A c \in 0 .. Infinity : Grid[c] <= n <=> c <= Infinity
      BY <1>1, <1>2
    <2> QED  BY <2>1, <2>2
  <1>3. CASE T # {}
    <2>1. T \in SUBSET Nat
      BY <1>1
    <2>2. PICK k \in T : \A m \in T : k <= m
      <3> HIDE DEF T
      <3> QED  BY <1>3, <2>1, Least
    <2>3. k \in 0 .. Infinity /\ ~(Grid[k] <= n) /\ k # 0
      BY <1>1
    <2>4. k - 1 \in 0 .. Infinity
      BY <1>1, <2>3
    <2>5. ASSUME NEW c \in 0 .. Infinity PROVE Grid[c] <= n <=> c <= k - 1
      <3>1. CASE c <= k - 1
        <4>1. c \notin T
          <5> HIDE DEF T
          <5> QED  BY <1>1, <2>2, <2>3, <3>1
        <4> QED  BY <3>1, <4>1
      <3>2. CASE ~(c <= k - 1)
        <4>1. c = k \/ k < c
          BY <1>1, <2>3, <3>2
        <4>2. c = k \/ Grid[k] < Grid[c]
          BY <1>1, <2>3, <4>1
        <4>3. Grid[k] \in Nat /\ Grid[c] \in Nat
          BY <1>1, <2>3
        <4> QED  BY <2>3, <3>2, <4>2, <4>3
      <3> QED  BY <3>1, <3>2
    <2> QED  BY <2>4, <2>5
  <1> QED  BY <1>2, <1>3

\* What is chosen depends on the sides alone.
SidesAgree(low, other, middle, between) ==
    /\ low = 0 <=> other = 0
    /\ middle > 0 <=> between > 0
    /\ middle = 0 <=> between = 0
LEMMA ChoiceOfSides ==
    ASSUME NEW b, NEW low, NEW other, NEW middle, NEW between,
           SidesAgree(low, other, middle, between), NEW negative, NEW rm
    PROVE  Choice(Infinity, b, low, middle, negative, rm)
              = Choice(Infinity, b, other, between, negative, rm)
  <1>1. (low = 0 <=> other = 0) /\ (middle > 0 <=> between > 0) /\ (middle = 0 <=> between = 0)
    BY DEF SidesAgree
  <1> QED  BY <1>1, Zenon DEF Choice

\* Searching the floats from one upwards finds what searching all would.
LEMMA OnesRounded ==
    ASSUME NEW M \in Nat \ {0}, NEW negative, NEW rm \in RoundingModes
    PROVE  Rounded(OnesGrid, Bias * HiddenBit, Infinity,
                   [h \in Nat |-> 2 * M * HiddenBit - h], negative)[rm]
              = Rounded(Grid, 0, Infinity, [h \in Nat |-> 2 * (M * Unit) - h * 1], negative)[rm]
  <1> DEFINE H == HiddenBit
             p == Power[Bias - 1]
             first == Bias * HiddenBit
             n == M * Unit
             all == [h \in Nat |-> 2 * (M * Unit) - h * 1]
             some == [h \in Nat |-> 2 * M * HiddenBit - h]
  <1>1. /\ p \in Nat \ {0} /\ Unit = H * p /\ H \in Nat /\ Unit \in Nat \ {0} /\ n \in Nat
        /\ BeginsBinade(first) /\ BeginsBinade(0) /\ BeginsBinade(Infinity)
        /\ first \in 0 .. Infinity /\ Grid[first] = Unit /\ Infinity \in Nat
    <2>1. Unit \in Nat \ {0} /\ H \in Nat /\ Infinity \in Nat
      BY UnitIs, FormatFacts
    <2>2. n \in Nat
      BY <2>1, Products
    <2>3. p \in Nat \ {0}
      BY OnesGridIs, PowerFacts
    <2> QED  BY <2>1, <2>2, <2>3, OnesGridIs
  <1>2. \A b \in first .. Infinity : OnesGrid[b] \in Nat /\ Grid[b] = OnesGrid[b] * p
    BY OnesGridIs
  <1>3. \A c \in 0 .. Infinity : Grid[c] \in Nat /\ c \in Nat
    BY <1>1, GridGrows
  <1> HIDE DEF p, first
  <1>4. \A h \in Nat : /\ all[h] = 2 * n - h /\ all[h] \in Int
                       /\ some[h] = (2 * M) * H - h /\ some[h] \in Int
    <2>1. (2 * M) * H \in Int /\ 2 * M * HiddenBit = (2 * M) * H
      BY <1>1, Products
    <2> HIDE DEF n
    <2>2. \A h \in Nat : all[h] = 2 * n - h
      BY <1>1 DEF n
    <2>3. \A h \in Nat : some[h] = (2 * M) * H - h
      BY <2>1
    <2> QED  BY <1>1, <2>1, <2>2, <2>3
  <1> HIDE DEF all, some, n
  <1>5. ASSUME NEW h \in Nat PROVE h * p \in Nat /\ SameSide(some[h], all[h * p])
    <2>1. h * p \in Nat
      BY <1>1, Products
    <2>2. 2 * n - h * p = ((2 * M) * H - h) * p
      <3>1. 2 * (M * (H * p)) = ((2 * M) * H) * p
        BY <1>1, SMT
      <3> DEFINE a == (2 * M) * H
      <3>2. a \in Nat
        BY <1>1, SMT
      <3> HIDE DEF a
      <3>3. (a - h) * p = a * p - h * p
        BY <1>1, <3>2, SMT
      <3> QED  BY <1>1, <3>1, <3>3 DEF a, n
    <2>3. (2 * M) * H - h \in Int
      BY <1>4
    <2>4. SameSide((2 * M) * H - h, ((2 * M) * H - h) * p)
      BY <1>1, <2>3, SideScaled
    <2> QED  BY <1>4, <2>1, <2>2, <2>4
  <1>6. PICK b \in 0 .. Infinity : \A c \in 0 .. Infinity : Grid[c] <= n <=> c <= b
    BY <1>1, LastBelow
  <1>7. b \in first .. Infinity
    <2>1. Unit <= n
      <3> DEFINE U == Unit
      <3>1. U \in Nat /\ M \in Nat /\ M >= 1
        BY <1>1
      <3> HIDE DEF U
      <3>2. 1 * U <= M * U /\ 1 * U = U
        BY <3>1, SMT
      <3> QED  BY <3>2 DEF n, U
    <2> QED  BY <1>1, <1>3, <1>6, <2>1
  <1>8. \A c \in 0 .. Infinity : all[2 * Grid[c]] >= 0 <=> c <= b
    <2> SUFFICES ASSUME NEW c \in 0 .. Infinity
                 PROVE  all[2 * Grid[c]] >= 0 <=> c <= b
      OBVIOUS
    <2>1. Grid[c] \in Nat /\ 2 * Grid[c] \in Nat
      BY <1>3
    <2>2. all[2 * Grid[c]] = 2 * n - 2 * Grid[c]
      BY <1>4, <2>1
    <2> QED  BY <1>1, <1>6, <2>1, <2>2
  <1>9. \A c \in first .. Infinity : /\ 2 * OnesGrid[c] \in Nat /\ 2 * Grid[c] = (2 * OnesGrid[c]) * p
                                     /\ SameSide(some[2 * OnesGrid[c]], all[2 * Grid[c]])
    <2> SUFFICES ASSUME NEW c \in first .. Infinity
                 PROVE  /\ 2 * OnesGrid[c] \in Nat /\ 2 * Grid[c] = (2 * OnesGrid[c]) * p
                        /\ SameSide(some[2 * OnesGrid[c]], all[2 * Grid[c]])
      OBVIOUS
    <2> DEFINE g == OnesGrid[c]
    <2>1. g \in Nat /\ Grid[c] = g * p /\ 2 * g \in Nat
      BY <1>2
    <2> HIDE DEF g
    <2>2. 2 * (g * p) = (2 * g) * p
      BY <1>1, <2>1, SMT
    <2>3. SameSide(some[2 * g], all[(2 * g) * p])
      BY <1>5, <2>1
    <2> QED  BY <2>1, <2>2, <2>3 DEF g
  <1>10. \A c \in first .. Infinity : some[2 * OnesGrid[c]] >= 0 <=> c <= b
    <2> SUFFICES ASSUME NEW c \in first .. Infinity
                 PROVE  some[2 * OnesGrid[c]] >= 0 <=> c <= b
      OBVIOUS
    <2>1. c \in 0 .. Infinity
      BY <1>1
    <2>2. some[2 * OnesGrid[c]] \in Int /\ all[2 * Grid[c]] \in Int
      BY <1>3, <1>4, <1>9, <2>1
    <2> QED  BY <1>8, <1>9, <2>1, <2>2 DEF SameSide
  <1>11. Rounded(Grid, 0, Infinity, all, negative)[rm]
            = Choice(Infinity, b, all[2 * Grid[b]], all[Grid[b] + Grid[b + 1]], negative, rm)
    BY <1>1, <1>8, RoundedFrom
  <1>12. Rounded(OnesGrid, first, Infinity, some, negative)[rm]
            = Choice(Infinity, b, some[2 * OnesGrid[b]], some[OnesGrid[b] + OnesGrid[b + 1]],
                     negative, rm)
    BY <1>1, <1>7, <1>10, RoundedFrom
  <1>13. Choice(Infinity, b, some[2 * OnesGrid[b]], some[OnesGrid[b] + OnesGrid[b + 1]],
                negative, rm)
           = Choice(Infinity, b, all[2 * Grid[b]], all[Grid[b] + Grid[b + 1]], negative, rm)
    <2> DEFINE low == some[2 * OnesGrid[b]]
               other == all[2 * Grid[b]]
               middle == some[OnesGrid[b] + OnesGrid[b + 1]]
               between == all[Grid[b] + Grid[b + 1]]
    <2>1. low \in Int /\ other \in Int /\ SameSide(low, other)
      BY <1>3, <1>4, <1>7, <1>9
    <2>2. CASE b = Infinity
      <3> HIDE DEF low, other, middle, between
      <3> QED  BY <2>2, Zenon DEF Choice
    <2>3. CASE b # Infinity
      <3>1. b + 1 \in first .. Infinity
        BY <1>1, <1>7, <2>3
      <3> DEFINE g == OnesGrid[b]
                 k == OnesGrid[b + 1]
      <3>2. g \in Nat /\ k \in Nat /\ Grid[b] = g * p /\ Grid[b + 1] = k * p /\ g + k \in Nat
        BY <1>2, <1>7, <3>1
      <3> HIDE DEF g, k
      <3>3. g * p + k * p = (g + k) * p /\ (g + k) * p \in Nat
        BY <1>1, <3>2, SMT
      <3>4. SameSide(some[g + k], all[(g + k) * p])
        BY <1>5, <3>2
      <3>5. middle \in Int /\ between \in Int /\ SameSide(middle, between)
        BY <1>4, <3>2, <3>3, <3>4 DEF g, k
      <3> HIDE DEF low, other, middle, between
      <3>6. SidesAgree(low, other, middle, between)
        BY <2>1, <3>5 DEF SameSide, SidesAgree
      <3>7. Choice(Infinity, b, low, middle, negative, rm)
              = Choice(Infinity, b, other, between, negative, rm)
        BY <3>6, ChoiceOfSides
      <3> QED  BY <3>7 DEF low, other, middle, between
    <2> QED  BY <2>2, <2>3
  <1> QED  BY <1>11, <1>12, <1>13 DEF first, some, all

\* An integer that is not zero is packed to the reference's float.
LEMMA IntegerPacked ==
    ASSUME NEW M \in Nat \ {0}, M < Power[WordBits],
           NEW negative \in BOOLEAN, NEW rm \in RoundingModes
    PROVE  LET r == Rounded(OnesGrid, Bias * HiddenBit, Infinity,
                            [h \in Nat |-> 2 * M * HiddenBit - h], negative)[rm]
           IN  round_and_pack(negative, Msb(M), IntegerPlaced(M), rm)
                  = Result(Signed(negative, r.magnitude), r.flags)
  <1> DEFINE n == M * Unit
             some == Rounded(OnesGrid, Bias * HiddenBit, Infinity,
                             [h \in Nat |-> 2 * M * HiddenBit - h], negative)
             all == Rounded(Grid, 0, Infinity, [h \in Nat |-> 2 * n - h * 1], negative)
  <1>1. round_and_pack(negative, Msb(M), IntegerPlaced(M), rm)
           = Raised(RoundedQuotient(n, 1, negative)[rm])
    <2>1. StandsFor(IntegerPlaced(M), Msb(M), n, n, 1)
      BY IntegerStands
    <2> HIDE DEF n
    <2> QED  BY <2>1, FractionRounded
  <1>2. some[rm] = all[rm]
    BY OnesRounded
  <1>3. /\ Raised(RoundedQuotient(n, 1, negative)[rm]) = RoundedQuotient(n, 1, negative)[rm]
        /\ RoundedQuotient(n, 1, negative)[rm]
              = Result(Signed(negative, all[rm].magnitude), all[rm].flags)
    <2>1. n \in Nat /\ n >= HiddenBit
      <3>1. Unit \in Nat /\ Unit >= HiddenBit
        BY UnitNotTiny
      <3>2. M * Unit >= 1 * Unit /\ M * Unit \in Nat
        BY <3>1, SMT
      <3> QED  BY <3>1, <3>2, FormatFacts
    <2> HIDE DEF n
    <2> QED  BY <2>1, WholeRounded
  <1> HIDE DEF n, some, all
  <1>4. round_and_pack(negative, Msb(M), IntegerPlaced(M), rm)
           = Result(Signed(negative, some[rm].magnitude), some[rm].flags)
    BY <1>1, <1>2, <1>3
  <1> QED  BY <1>4 DEF some

\* The widths of the integers have their powers.
IsWidth(n) == n \in {WLEN, XLEN}
LEMMA WidthPowers ==
    ASSUME NEW n, IsWidth(n)
    PROVE  /\ n \in Nat /\ n >= 1 /\ n - 1 \in Nat
           /\ 2^n = Power[n] /\ 2^(n - 1) = Power[n - 1] /\ Power[n] = 2 * Power[n - 1]
           /\ Power[n - 1] \in Nat \ {0} /\ Power[n] \in Nat \ {0}
           /\ Power[n] <= Power[WordBits]
  <1>1. /\ XLEN \in Nat /\ WLEN \in Nat /\ 0 < WLEN /\ WLEN < XLEN /\ XLEN <= WIDE + 2
        /\ WIDE \in Nat /\ WordBits = WIDE + 2
    BY WidthAssumption, FormatAssumption DEF WordBits
  <1>2. n \in Nat /\ n >= 1 /\ n - 1 \in Nat /\ n <= WordBits /\ n \in 0 .. WIDE + 3
        /\ n - 1 \in 0 .. WIDE + 3 /\ WordBits \in Nat /\ (n - 1) + 1 = n
    BY <1>1 DEF IsWidth
  <1>3. 2^n = Power[n] /\ 2^(n - 1) = Power[n - 1]
    BY <1>2, PowerIs
  <1>4. Power[n] \in Nat \ {0} /\ Power[n - 1] \in Nat \ {0} /\ Power[n] = 2 * Power[n - 1]
        /\ Power[WordBits] \in Nat
    <2>1. Power[n] \in Nat \ {0} /\ Power[n - 1] \in Nat \ {0} /\ Power[WordBits] \in Nat
      BY <1>2, PowerFacts
    <2>2. Power[(n - 1) + 1] = 2 * Power[n - 1]
      BY <1>2, PowerFacts
    <2> QED  BY <1>2, <2>1, <2>2
  <1>5. Power[n] <= Power[WordBits]
    <2>1. n = WordBits \/ n < WordBits
      BY <1>2
    <2>2. n = WordBits \/ Power[n] < Power[WordBits]
      BY <1>2, <2>1, PowerGrows
    <2> QED  BY <1>4, <2>2
  <1> QED  BY <1>2, <1>3, <1>4, <1>5

\* The sign and the magnitude that integer_to_float finds are the integer's.
FromInteger == {"CvtSToW", "CvtSToWu", "CvtSToL", "CvtSToLu"}
LEMMA IntegerOperandIs ==
    ASSUME NEW op \in FromInteger, NEW w \in Nat
    PROVE  LET n == Integer(op, w)
               v == IntegerOperand(op, w)
           IN  /\ n \in Int /\ Abs(n) \in Nat /\ (n = 0 <=> Abs(n) = 0)
               /\ v.magnitude = Abs(n) /\ v.sign = (n < 0) /\ v.sign \in BOOLEAN
               /\ Abs(n) < Power[WordBits]
  <1> DEFINE width == IF op \in {"CvtSToW", "CvtSToWu"} THEN WLEN ELSE XLEN
             q == Power[width]
             h == Power[width - 1]
             k == w % q
             signed == op \in {"CvtSToW", "CvtSToL"}
  <1>1. IsWidth(width)
    BY DEF IsWidth
  <1> HIDE DEF width
  <1>2. /\ 2^width = q /\ 2^(width - 1) = h /\ q = 2 * h /\ h \in Nat \ {0} /\ q \in Nat \ {0}
        /\ q <= Power[WordBits] /\ Power[WordBits] \in Nat
    <2>1. WordBits \in Nat
      BY FormatFacts DEF WordBits
    <2> QED  BY <1>1, <2>1, WidthPowers, PowerFacts
  <1>3. Integer(op, w) = IF signed /\ k >= h THEN k - q ELSE k
    BY <1>2 DEF Integer, width
  <1>4. IntegerOperand(op, w) = [sign |-> signed /\ k >= h,
                                 magnitude |-> IF signed /\ k >= h THEN q - k ELSE k]
    BY <1>2, Zenon DEF IntegerOperand, width
  <1> DEFINE negative == signed /\ k >= h
             v == IntegerOperand(op, w)
  <1>9. v = [sign |-> negative, magnitude |-> IF negative THEN q - k ELSE k]
    BY <1>4
  <1> HIDE DEF signed, q, h, negative, v
  <1>10. v.sign = negative /\ v.magnitude = IF negative THEN q - k ELSE k
    BY <1>9
  <1>5. k \in Nat /\ k < q
    <2>1. k \in 0 .. q - 1
      BY <1>2, DivModNat
    <2> QED  BY <1>2, <2>1
  <1> HIDE DEF k
  <1>6. negative \in BOOLEAN /\ (negative <=> signed /\ k >= h)
    BY DEF negative, signed
  <1>7. CASE negative
    <2>1. Integer(op, w) = k - q /\ k - q < 0 /\ Abs(k - q) = q - k /\ q - k \in Nat
          /\ q - k # 0 /\ q - k < Power[WordBits]
      BY <1>2, <1>3, <1>5, <1>6, <1>7 DEF Abs
    <2>2. v.magnitude = q - k
      BY <1>7, <1>10
    <2>3. v.sign = (Integer(op, w) < 0)
      BY <1>7, <1>6, <1>10, <2>1
    <2> QED  BY <1>2, <1>5, <1>6, <1>10, <2>1, <2>2, <2>3 DEF v
  <1>8. CASE ~negative
    <2>1. Integer(op, w) = k /\ ~(k < 0) /\ Abs(k) = k /\ k < Power[WordBits]
      BY <1>2, <1>3, <1>5, <1>6, <1>8 DEF Abs
    <2>2. v.magnitude = k
      BY <1>8, <1>10
    <2>3. v.sign = (Integer(op, w) < 0)
      BY <1>8, <1>6, <1>10, <2>1
    <2> QED  BY <1>5, <1>6, <1>10, <2>1, <2>2, <2>3 DEF v
  <1> QED  BY <1>6, <1>7, <1>8

\* The reference for a conversion to a float, in any format.
FloatFor(n, rm) ==
    LET excess == [h \in Nat |-> 2 * Abs(n) * HiddenBit - h]
        r == Rounded(OnesGrid, Bias * HiddenBit, Infinity, excess, n < 0)
    IN  IF n = 0 THEN Result(0, {})
        ELSE Result(Signed(n < 0, r[rm].magnitude), r[rm].flags)

\* Conversions of integers are correctly rounded.
LEMMA IntegerToFloatIs ==
    ASSUME NEW op \in FromInteger, NEW w \in Nat, NEW rm \in RoundingModes
    PROVE  integer_to_float(op, w, rm) = FloatFor(Integer(op, w), rm)
  <1> DEFINE n == Integer(op, w)
             v == IntegerOperand(op, w)
             M == v.magnitude
             r == Rounded(OnesGrid, Bias * HiddenBit, Infinity,
                          [h \in Nat |-> 2 * M * HiddenBit - h], v.sign)
  <1>1. /\ n \in Int /\ M \in Nat /\ (n = 0 <=> M = 0) /\ M = Abs(n)
        /\ v.sign = (n < 0) /\ v.sign \in BOOLEAN /\ M < Power[WordBits]
    BY IntegerOperandIs
  <1>2. integer_to_float(op, w, rm) = IF M = 0 THEN Exact(FALSE, 0)
                                      ELSE round_and_pack(v.sign, Msb(M), IntegerPlaced(M), rm)
    BY Zenon DEF integer_to_float, IntegerPlaced
  <1>3. FloatFor(n, rm) = IF n = 0 THEN Result(0, {})
                          ELSE Result(Signed(n < 0, r[rm].magnitude), r[rm].flags)
    BY <1>1 DEF FloatFor
  <1> HIDE DEF n, v
  <1>4. CASE M = 0
    <2>1. Exact(FALSE, 0) = Result(0, {})
      BY DEF Exact, Signed
    <2> QED  BY <1>1, <1>2, <1>3, <1>4, <2>1 DEF n
  <1>5. CASE M # 0
    <2>1. M \in Nat \ {0}
      BY <1>1, <1>5
    <2> DEFINE s == v.sign
    <2>2. s \in BOOLEAN
      BY <1>1
    <2> HIDE DEF s, M
    <2>3. round_and_pack(s, Msb(M), IntegerPlaced(M), rm)
             = Result(Signed(s, Rounded(OnesGrid, Bias * HiddenBit, Infinity,
                          [h \in Nat |-> 2 * M * HiddenBit - h], s)[rm].magnitude),
                      Rounded(OnesGrid, Bias * HiddenBit, Infinity,
                          [h \in Nat |-> 2 * M * HiddenBit - h], s)[rm].flags)
      BY <1>1, <2>1, <2>2, IntegerPacked
    <2>4. round_and_pack(s, Msb(M), IntegerPlaced(M), rm) = Result(Signed(s, r[rm].magnitude), r[rm].flags)
      BY <2>3 DEF s
    <2>5. s = (n < 0)
      BY <1>1 DEF s
    <2> HIDE DEF r
    <2> QED  BY <1>1, <1>2, <1>3, <1>5, <2>4, <2>5 DEF s, n
  <1> QED  BY <1>4, <1>5

-----------------------------------------------------------------------------
\* The float as a fraction, in any format.
Numerator(b) ==
    LET e == MagnitudeOf(b) \div HiddenBit - Bias
        significand == (IF e = -Bias THEN 0 ELSE HiddenBit) + (b % HiddenBit)
    IN  (IF IsNegative(b) THEN -1 ELSE 1)
            * significand * (IF e > FRACBITS THEN Power[e - FRACBITS] ELSE 1)
Denominator(b) ==
    LET e == MagnitudeOf(b) \div HiddenBit - Bias
    IN  IF e > FRACBITS THEN 1
        ELSE Power[FRACBITS - (IF e < MinExponent THEN MinExponent ELSE e)]

\* A fraction A / D of the value that is unpacked.
IsFraction(u, A, D) ==
    /\ A \in Nat \ {0} /\ D \in Nat \ {0}
    /\ u.exponent >= FRACBITS => D = 1 /\ A = u.significand * Power[u.exponent - FRACBITS]
    /\ u.exponent < FRACBITS =>
          \E c \in Nat \ {0} : u.significand = A * c /\ Power[FRACBITS - u.exponent] = D * c
WithSign(negative, n) == IF negative THEN -n ELSE n

\* The reference's fraction is one.
LEMMA FractionOfFloat ==
    ASSUME NEW raw \in Floats, FiniteNonzero(raw)
    PROVE  \E A, D \in Nat : /\ IsFraction(Unpack(raw), A, D)
                             /\ Numerator(raw) = WithSign(IsNegative(raw), A)
                             /\ Denominator(raw) = D
  <1> DEFINE H == HiddenBit
             F == FRACBITS
             B == Bias
             N == Power[EXPBITS]
             m == MagnitudeOf(raw)
             u == Unpack(raw)
             q == m \div H
             r == m % H
             g == q - B
  <1>1. /\ H \in Nat /\ H >= 8 /\ F \in Nat /\ F >= 3 /\ B \in Nat /\ B >= 1
        /\ MinExponent = 1 - B /\ N \in Nat
    BY FormatFacts
  <1>2. /\ m \in Nat /\ m = H * q + r /\ r \in 0 .. H - 1 /\ q \in 0 .. N - 1 /\ raw % H = r
        /\ IsNegative(raw) \in BOOLEAN
    BY RawParts
  <1>3. m # 0 /\ m < Infinity
    BY DEF FiniteNonzero, ZeroOf
  <1>4. \A n \in Nat : Power[n] \in Nat \ {0}
    BY PowerFacts
  <1> DEFINE sig == (IF g = -B THEN 0 ELSE H) + r
             w == IF g > F THEN Power[g - F] ELSE 1
             sign == IF IsNegative(raw) THEN -1 ELSE 1
  <1>5. Numerator(raw) = sign * sig * w
    BY <1>2 DEF Numerator
  <1>6. Denominator(raw) = IF g > F THEN 1
                           ELSE Power[F - (IF g < MinExponent THEN MinExponent ELSE g)]
    BY DEF Denominator
  <1>7. g \in Int /\ sig \in Nat /\ w \in Nat
    <2> HIDE DEF q, r
    <2>1. g > F => g - F \in Nat
      BY <1>1, <1>2
    <2> QED  BY <1>1, <1>2, <1>4, <2>1
  <1> DEFINE A == sig * w
             D == Denominator(raw)
  <1>8. Numerator(raw) = WithSign(IsNegative(raw), A) /\ A \in Nat
    <2> HIDE DEF sig, w, sign
    <2>1. sign \in {1, -1}
      BY DEF sign
    <2>2. 1 * sig * w = sig * w /\ (-1) * sig * w = -(sig * w) /\ sig * w \in Nat
      BY <1>7, SMT
    <2> HIDE DEF A
    <2> QED  BY <1>2, <1>5, <2>2 DEF WithSign, sign, A
  <1> HIDE DEF H, F, B, N, m, u, q, r, w, sig, sign
  <1>9. CASE m < HiddenBit
    <2>1. IsLifted(u, m)
      BY <1>3, <1>9, UnpackSubnormal DEF m, u
    <2>2. PICK lift \in 0 .. FRACBITS : u.exponent = MinExponent - lift /\ u.significand = m * Power[lift]
      BY <2>1 DEF IsLifted
    <2>3. q = 0 /\ r = m
      <3>1. q >= 1 => H * q >= H
        BY <1>1, <1>2, SMT
      <3>2. H * q \in Nat /\ (q = 0 => H * q = 0)
        BY <1>1, <1>2, SMT
      <3> QED  BY <1>1, <1>2, <1>9, <3>1, <3>2 DEF H
    <2>4. g = -B /\ g < MinExponent /\ ~(g > F) /\ sig = m /\ w = 1 /\ A = m
      <3>1. g = -B /\ g < MinExponent /\ ~(g > F)
        BY <1>1, <2>3
      <3>2. sig = m /\ w = 1
        BY <1>2, <2>3, <3>1 DEF sig, w
      <3> QED  BY <1>2, <3>1, <3>2
    <2>5. D = Power[F - MinExponent] /\ F - MinExponent \in Nat
      BY <1>1, <1>6, <2>4
    <2> DEFINE c == Power[lift]
    <2>6. c \in Nat \ {0} /\ lift \in Nat
      BY <1>1, <1>4
    <2>7. Power[F - u.exponent] = D * c
      <3>1. F - u.exponent = (F - MinExponent) + lift
        BY <1>1, <2>2
      <3>2. Power[(F - MinExponent) + lift] = Power[F - MinExponent] * Power[lift]
        BY <2>5, <2>6, PowerSum
      <3> QED  BY <2>5, <3>1, <3>2
    <2>8. u.exponent < F /\ A \in Nat \ {0} /\ D \in Nat \ {0}
      BY <1>1, <1>2, <1>3, <1>4, <2>2, <2>4, <2>5
    <2> HIDE DEF c, A, D
    <2>9. u.significand = A * c /\ Power[FRACBITS - u.exponent] = D * c
      BY <2>2, <2>4, <2>7 DEF c, F
    <2>10. IsFraction(u, A, D)
      BY <1>1, <2>2, <2>6, <2>8, <2>9 DEF IsFraction, F
    <2> QED  BY <1>8, <2>8, <2>10 DEF u, D
  <1>10. CASE HiddenBit <= m
    <2>1. IsPlain(u, m)
      BY <1>3, <1>10, UnpackNormal DEF m, u
    <2>2. u.exponent = g /\ u.significand = H + r
      BY <2>1 DEF IsPlain, q, r, H, B
    <2>3. q # 0
      <3>1. q = 0 => H * q = 0
        BY <1>1, SMT
      <3> QED  BY <1>1, <1>2, <1>10, <3>1 DEF H
    <2>4. ~(g = -B) /\ ~(g < MinExponent) /\ sig = H + r /\ H + r \in Nat \ {0}
      <3>1. ~(g = -B) /\ ~(g < MinExponent)
        BY <1>1, <1>2, <2>3
      <3> QED  BY <1>1, <1>2, <3>1 DEF sig
    <2>5. CASE g > F
      <3>1. w = Power[g - F] /\ D = 1 /\ g - F \in Nat /\ ~(g < F)
        BY <1>1, <1>6, <1>7, <2>5 DEF w
      <3>2. A = u.significand * Power[u.exponent - FRACBITS] /\ A # 0
        <4>1. w \in Nat \ {0}
          BY <1>4, <3>1
        <4>2. (H + r) * w # 0
          BY <2>4, <4>1, SMT
        <4> QED  BY <2>2, <2>4, <3>1, <4>2 DEF F
      <3> HIDE DEF A, D
      <3>3. IsFraction(u, A, D)
        BY <1>1, <1>7, <1>8, <2>2, <2>5, <3>1, <3>2 DEF IsFraction, F
      <3>4. D \in Nat
        BY <3>1
      <3> QED  BY <1>8, <3>3, <3>4 DEF u, D
    <2>6. CASE g = F
      <3>1. w = 1 /\ D = Power[0] /\ Power[0] = 1 /\ g - F = 0
        <4>1. w = 1 /\ g - F = 0 /\ F - g = 0
          BY <1>1, <2>6 DEF w
        <4> QED  BY <1>6, <2>4, <2>6, <4>1, PowerFacts
      <3>2. A = u.significand * Power[u.exponent - FRACBITS] /\ A # 0
        BY <1>1, <2>2, <2>4, <3>1 DEF F
      <3> HIDE DEF A, D
      <3>3. IsFraction(u, A, D)
        BY <1>1, <1>7, <1>8, <2>2, <2>6, <3>1, <3>2 DEF IsFraction, F
      <3>4. D \in Nat
        BY <3>1
      <3> QED  BY <1>8, <3>3, <3>4 DEF u, D
    <2>7. CASE g < F
      <3>1. w = 1 /\ D = Power[F - g] /\ F - g \in Nat
        BY <1>1, <1>6, <1>7, <2>4, <2>7 DEF w
      <3>2. A = H + r /\ D \in Nat \ {0}
        BY <1>4, <2>4, <3>1
      <3> HIDE DEF A, D
      <3>3. u.significand = A * 1 /\ Power[FRACBITS - u.exponent] = D * 1 /\ 1 \in Nat \ {0}
        BY <1>8, <2>2, <3>1, <3>2 DEF F
      <3>4. IsFraction(u, A, D)
        BY <1>1, <1>7, <2>2, <2>4, <2>7, <3>2, <3>3 DEF IsFraction, F
      <3> QED  BY <1>8, <3>2, <3>4 DEF u, D
    <2> QED  BY <1>1, <1>7, <2>5, <2>6, <2>7
  <1> QED  BY <1>1, <1>2, <1>9, <1>10 DEF H

\* Whether the integer part k of k + r/D is raised, of a number with that sign.
Away(rm, negative, k, r, D) ==
    CASE rm = "Rne" -> 2 * r > D \/ (2 * r = D /\ k % 2 = 1)
      [] rm = "Rtz" -> FALSE
      [] rm = "Rdn" -> negative /\ r # 0
      [] rm = "Rup" -> ~negative /\ r # 0
      [] rm = "Rmm" -> 2 * r >= D

\* The reference rounds the floor, which is the same thing.
LEMMA IntegralIs ==
    ASSUME NEW A \in Nat \ {0}, NEW D \in Nat \ {0}, NEW negative \in BOOLEAN,
           NEW rm \in RoundingModes
    PROVE  LET num == WithSign(negative, A)
               k == A \div D
               r == A % D
           IN  /\ Integral(num, D, rm)
                     = WithSign(negative, IF Away(rm, negative, k, r, D) THEN k + 1 ELSE k)
               /\ num % D = 0 <=> r = 0
  <1> DEFINE k == A \div D
             r == A % D
             num == WithSign(negative, A)
             floor == num \div D
             rest == num % D
             excess == 2 * rest - D
             up == CASE rm = "Rdn" -> FALSE
                     [] rm = "Rup" -> TRUE
                     [] rm = "Rtz" -> num < 0
                     [] rm = "Rne" -> excess > 0 \/ (excess = 0 /\ floor % 2 = 1)
                     [] rm = "Rmm" -> excess > 0 \/ (excess = 0 /\ num > 0)
  <1>1. A = D * k + r /\ r \in 0 .. D - 1 /\ k \in Nat
    BY DivModNat
  <1>2. Integral(num, D, rm) = IF rest # 0 /\ up THEN floor + 1 ELSE floor
    BY DEF Integral
  <1>3. rm \in {"Rne", "Rtz", "Rdn", "Rup", "Rmm"}
    BY DEF RoundingModes
  <1> DEFINE raised == Away(rm, negative, k, r, D)
  <1> HIDE DEF k, r, rest, floor, excess, num
  <1>4. /\ rm = "Rdn" => ~up
        /\ rm = "Rup" => up
        /\ rm = "Rtz" => (up <=> num < 0)
        /\ rm = "Rne" => (up <=> excess > 0 \/ (excess = 0 /\ floor % 2 = 1))
        /\ rm = "Rmm" => (up <=> excess > 0 \/ (excess = 0 /\ num > 0))
    OBVIOUS
  <1>8. /\ rm = "Rdn" => (raised <=> negative /\ r # 0)
        /\ rm = "Rup" => (raised <=> ~negative /\ r # 0)
        /\ rm = "Rtz" => ~raised
        /\ rm = "Rne" => (raised <=> 2 * r > D \/ (2 * r = D /\ k % 2 = 1))
        /\ rm = "Rmm" => (raised <=> 2 * r >= D)
    BY DEF Away
  <1> HIDE DEF up, raised
  <1>5. CASE ~negative
    <2>1. num = A /\ floor = k /\ rest = r
      BY <1>5 DEF WithSign, floor, rest, k, r, num
    <2>2. (rest # 0 /\ up) <=> raised
      <3>1. num > 0 /\ ~(num < 0)
        BY <2>1
      <3>2. excess = 2 * r - D
        BY <2>1 DEF excess
      <3> QED  BY <1>1, <1>3, <1>4, <1>5, <1>8, <2>1, <3>1, <3>2
    <2>3. WithSign(negative, IF raised THEN k + 1 ELSE k) = IF raised THEN k + 1 ELSE k
      BY <1>5 DEF WithSign
    <2> QED  BY <1>2, <2>1, <2>2, <2>3 DEF k, r, num, rest, raised
  <1>6. CASE negative /\ r = 0
    <2>1. num = -A
      BY <1>6 DEF WithSign, num
    <2>2. floor = -k /\ rest = 0
      <3>1. (-k) * D + 0 = -A
        <4>1. (-k) * D = -(D * k)
          BY <1>1, SMT
        <4> QED  BY <1>1, <1>6, <4>1
      <3>2. -k \in Int /\ 0 \in 0 .. D - 1
        BY <1>1
      <3> DEFINE j == -k
      <3> HIDE DEF j
      <3>3. (j * D + 0) \div D = j /\ (j * D + 0) % D = 0
        BY <3>2, DivUnique DEF j
      <3> QED  BY <2>1, <3>1, <3>3 DEF j, floor, rest
    <2>3. ~raised
      BY <1>1, <1>3, <1>6, <1>8
    <2>4. WithSign(negative, IF raised THEN k + 1 ELSE k) = -k
      BY <1>6, <2>3 DEF WithSign
    <2> QED  BY <1>2, <1>6, <2>2, <2>4 DEF k, r, num, rest, raised
  <1>7. CASE negative /\ r # 0
    <2>1. num = -A
      BY <1>7 DEF WithSign, num
    <2>2. floor = -k - 1 /\ rest = D - r
      <3> DEFINE j == -k - 1
                 t == D - r
      <3>1. j \in Int /\ t \in 0 .. D - 1
        BY <1>1, <1>7
      <3>2. j * D + t = -A
        <4>1. (-k - 1) * D = -(D * k) - D
          BY <1>1, SMT
        <4>2. D * k \in Nat
          BY <1>1, SMT
        <4> QED  BY <1>1, <4>1, <4>2
      <3> HIDE DEF j, t
      <3>3. (j * D + t) \div D = j /\ (j * D + t) % D = t
        BY <3>1, DivUnique
      <3> QED  BY <2>1, <3>2, <3>3 DEF j, t, floor, rest
    <2>3. (rest # 0 /\ up) <=> ~raised
      <3>1. num < 0 /\ ~(num > 0) /\ rest # 0
        BY <1>1, <2>1, <2>2
      <3>2. floor % 2 = 1 <=> ~(k % 2 = 1)
        BY <1>1, <2>2
      <3>3. excess = D - 2 * r
        BY <1>1, <2>2 DEF excess
      <3> QED  BY <1>1, <1>3, <1>4, <1>7, <1>8, <3>1, <3>2, <3>3
    <2>4. rest # 0
      BY <1>1, <2>2
    <2>5. (IF ~raised THEN floor + 1 ELSE floor)
             = WithSign(negative, IF raised THEN k + 1 ELSE k)
      <3>1. WithSign(negative, IF raised THEN k + 1 ELSE k) = -(IF raised THEN k + 1 ELSE k)
        BY <1>7 DEF WithSign
      <3> QED  BY <1>1, <2>2, <3>1
    <2> QED  BY <1>2, <1>7, <2>3, <2>4, <2>5 DEF k, r, num, rest, raised
  <1> QED  BY <1>5, <1>6, <1>7

\* What Cut and RoundsUp make of the fraction.
LEMMA CutIs ==
    ASSUME NEW u, NEW A, NEW D, IsFraction(u, A, D), u.exponent \in Int, u.exponent < FRACBITS,
           u.significand \in HiddenBit .. 2 * HiddenBit - 1,
           NEW negative \in BOOLEAN, NEW rm \in RoundingModes
    PROVE  LET cut == Cut(u)
           IN  /\ cut.magnitude = A \div D
               /\ cut.remainder # 0 <=> A % D # 0
               /\ RoundsUp(cut, negative, rm) <=> Away(rm, negative, A \div D, A % D, D)
  <1> DEFINE F == FRACBITS
             H == HiddenBit
             s == u.significand
             d == F - u.exponent
             q == Power[d]
             k == A \div D
             r == A % D
             cut == Cut(u)
  <1>1. /\ H \in Nat /\ H >= 8 /\ F \in Nat /\ F >= 3 /\ H = Power[F]
        /\ XLEN \in Nat /\ XLEN >= F + 2 /\ XLEN <= WIDE + 2 /\ WIDE \in Nat
        /\ \A n \in 0 .. WIDE + 3 : 2^n = Power[n]
    BY FormatFacts, FormatAssumption, WidthAssumption
  <1>2. d \in Nat /\ d >= 1 /\ q \in Nat \ {0}
    <2>1. d \in Nat /\ d >= 1
      BY <1>1
    <2> HIDE DEF d
    <2> QED  BY <2>1, PowerFacts
  <1>3. PICK c \in Nat \ {0} : s = A * c /\ q = D * c
    BY DEF IsFraction
  <1>4. A \in Nat \ {0} /\ D \in Nat \ {0} /\ s \in Nat /\ s < 2 * H
    BY <1>1 DEF IsFraction
  <1>5. A = D * k + r /\ r \in 0 .. D - 1 /\ k \in Nat
    BY <1>4, DivModNat
  <1> DEFINE t == r * c
  <1>6. s = k * q + t /\ t \in 0 .. q - 1 /\ (t = 0 <=> r = 0)
    <2> HIDE DEF k, r, s, q
    <2>1. (D * k + r) * c = k * (D * c) + r * c
      BY <1>3, <1>4, <1>5, SMT
    <2>2. r * c \in Nat /\ r * c < D * c /\ (r * c = 0 <=> r = 0)
      BY <1>3, <1>4, <1>5, SMT
    <2> QED  BY <1>2, <1>3, <1>5, <2>1, <2>2
  <1>7. /\ 2 * t > q <=> 2 * r > D
        /\ 2 * t = q <=> 2 * r = D
        /\ 2 * t >= q <=> 2 * r >= D
    <2> HIDE DEF k, r, s, q
    <2>1. 2 * (r * c) = (2 * r) * c /\ r \in Int
      BY <1>3, <1>5, SMT
    <2> DEFINE a == 2 * r
    <2>2. a \in Int
      BY <2>1
    <2> HIDE DEF a
    <2>3. (a > D => a * c > D * c) /\ (a < D => a * c < D * c) /\ (a = D => a * c = D * c)
          /\ a * c \in Int /\ D * c \in Int
      BY <1>3, <1>4, <2>2, SMT
    <2> QED  BY <1>3, <1>4, <2>1, <2>2, <2>3 DEF a
  <1>8. s \div q = k /\ s % q = t
    <2>1. k \in Int
      BY <1>5
    <2> HIDE DEF k, t, q, s
    <2>2. (k * q + t) \div q = k /\ (k * q + t) % q = t
      BY <1>2, <1>6, <2>1, DivUnique
    <2> QED  BY <1>6, <2>2
  <1> DEFINE h == Power[d - 1]
  <1>9. q = 2 * h /\ h \in Nat \ {0}
    <2>1. d - 1 \in Nat /\ (d - 1) + 1 = d
      BY <1>2
    <2> HIDE DEF d
    <2>2. Power[(d - 1) + 1] = 2 * Power[d - 1] /\ Power[d - 1] \in Nat \ {0}
      BY <2>1, PowerFacts
    <2> QED  BY <2>1, <2>2
  <1>10. rm \in {"Rne", "Rtz", "Rdn", "Rup", "Rmm"}
    BY DEF RoundingModes
  <1> HIDE DEF k, r, q, h, t, s, d, cut, H, F
  <1>11. CASE d >= XLEN
    <2>1. cut = [magnitude |-> 0, remainder |-> s, halfway |-> 0, short |-> FALSE]
      BY <1>11 DEF Cut, cut, s, d, F
    <2>2. 2 * s < q
      <3>1. F + 2 \in Nat /\ F + 1 \in Nat /\ (F + 1) + 1 = F + 2 /\ (d = F + 2 \/ F + 2 < d)
        BY <1>1, <1>2, <1>11
      <3>2. Power[F + 1] = 2 * H /\ Power[(F + 1) + 1] = 2 * Power[F + 1]
        BY <1>1, <3>1, PowerFacts
      <3>3. d = F + 2 \/ Power[F + 2] < q
        BY <1>2, <3>1, PowerGrows DEF q
      <3> QED  BY <1>1, <1>2, <1>4, <3>1, <3>2, <3>3 DEF q
    <2>3. k = 0 /\ t = s
      <3>1. k >= 1 => k * q >= q
        BY <1>2, <1>5, SMT
      <3>2. k * q \in Nat /\ (k = 0 => k * q = 0)
        BY <1>2, <1>5, SMT
      <3> QED  BY <1>2, <1>4, <1>5, <1>6, <2>2, <3>1, <3>2
    <2>4. cut.magnitude = k /\ (cut.remainder # 0 <=> r # 0)
      BY <1>6, <2>1, <2>3
    <2>5. ~(2 * r > D) /\ ~(2 * r = D) /\ ~(2 * r >= D)
      BY <1>2, <1>4, <1>7, <2>2, <2>3
    <2>6. RoundsUp(cut, negative, rm) <=> Away(rm, negative, k, r, D)
      BY <1>10, <2>1, <2>4, <2>5 DEF RoundsUp, Away
    <2> QED  BY <2>4, <2>6 DEF cut, k, r
  <1>12. CASE ~(d >= XLEN)
    <2>1. d \in 0 .. WIDE + 3 /\ d - 1 \in 0 .. WIDE + 3
      BY <1>1, <1>2, <1>12
    <2>2. 2^d = q /\ 2^(d - 1) = h
      BY <1>1, <2>1 DEF q, h
    <2>3. cut = [magnitude |-> k, remainder |-> t, halfway |-> h, short |-> TRUE]
      <3>1. cut = [magnitude |-> s \div 2^d, remainder |-> s % 2^d, halfway |-> 2^(d - 1),
                   short |-> TRUE]
        BY <1>12 DEF Cut, cut, s, d, F
      <3> QED  BY <1>8, <2>2, <3>1
    <2>4. cut.magnitude = k /\ (cut.remainder # 0 <=> r # 0)
      BY <1>6, <2>3
    <2>5. /\ t > h <=> 2 * r > D
          /\ t = h <=> 2 * r = D
          /\ t >= h <=> 2 * r >= D
      BY <1>6, <1>7, <1>9
    <2>6. RoundsUp(cut, negative, rm) <=> Away(rm, negative, k, r, D)
      BY <1>10, <2>3, <2>4, <2>5 DEF RoundsUp, Away
    <2> QED  BY <2>4, <2>6 DEF cut, k, r
  <1> QED  BY <1>11, <1>12

\* The conversions to integers have a width.
ToInteger == {"CvtWFromS", "CvtWuFromS", "CvtLFromS", "CvtLuFromS"}
LEMMA ToWidthIs ==
    ASSUME NEW op
    PROVE  /\ IsWidth(ToWidth(op)) /\ IsWidth(WLEN) /\ IsWidth(XLEN)
           /\ 2^XLEN = 2^WLEN * Power[XLEN - WLEN] /\ Power[XLEN - WLEN] \in Nat
           /\ 2^WLEN <= 2^XLEN
  <1>1. IsWidth(ToWidth(op)) /\ IsWidth(WLEN) /\ IsWidth(XLEN)
    BY DEF ToWidth, IsWidth
  <1>2. 2^XLEN = Power[XLEN] /\ 2^WLEN = Power[WLEN] /\ Power[XLEN] \in Nat /\ Power[WLEN] \in Nat
    BY <1>1, WidthPowers
  <1>3. WLEN \in Nat /\ XLEN - WLEN \in Nat /\ WLEN + (XLEN - WLEN) = XLEN /\ WLEN < XLEN
        /\ XLEN \in Nat
    BY WidthAssumption
  <1>4. Power[WLEN + (XLEN - WLEN)] = Power[WLEN] * Power[XLEN - WLEN]
    BY <1>3, PowerSum
  <1>5. Power[WLEN] < Power[XLEN]
    BY <1>3, PowerGrows
  <1> QED  BY <1>1, <1>2, <1>3, <1>4, <1>5, PowerFacts

\* A remainder of a remainder.
LEMMA ModOfMod ==
    ASSUME NEW n \in Int, NEW m \in Nat \ {0}, NEW j \in Nat \ {0}
    PROVE  (n % (m * j)) % m = n % m
  <1> DEFINE M == m * j
             q == n \div M
             r == n % M
  <1>1. M \in Nat \ {0}
    BY SMT
  <1> HIDE DEF M
  <1>2. n = M * q + r /\ r \in Int /\ q \in Int
    BY <1>1, DivMod
  <1> HIDE DEF q, r
  <1>3. M * q = (j * q) * m /\ j * q \in Int
    BY <1>2, SMT DEF M
  <1>4. (r + (j * q) * m) % m = r % m
    BY <1>2, <1>3, Shift
  <1>5. n = r + (j * q) * m
    BY <1>2, <1>3
  <1> QED  BY <1>4, <1>5 DEF r, M

\* A result is encoded as the register that holds it.
LEMMA EncodeIs ==
    ASSUME NEW op, NEW negative \in BOOLEAN, NEW magnitude \in Nat
    PROVE  encode_integer_result(negative, magnitude, ToWidth(op))
              = InRegister(op, WithSign(negative, magnitude))
  <1> DEFINE n == WithSign(negative, magnitude)
             X == 2^XLEN
             W == 2^WLEN
             h == 2^(WLEN - 1)
             value == n % X
             word == value % W
             width == ToWidth(op)
  <1>1. /\ X \in Nat \ {0} /\ W \in Nat \ {0} /\ W <= X /\ X = W * Power[XLEN - WLEN]
        /\ Power[XLEN - WLEN] \in Nat /\ width \in {WLEN, XLEN}
    BY ToWidthIs, WidthPowers DEF IsWidth
  <1>2. n \in Int
    BY DEF WithSign
  <1>3. encode_integer_result(negative, magnitude, width)
           = IF width = XLEN THEN value ELSE IF word >= h THEN X - W + word ELSE word
    BY DEF encode_integer_result, WithSign
  <1> HIDE DEF n, X, W, h
  <1>4. value \in 0 .. X - 1 /\ word \in 0 .. W - 1 /\ value \in Int
    <2>1. value \in 0 .. X - 1
      BY <1>1, <1>2, DivMod
    <2> HIDE DEF value
    <2>2. value \in Nat
      BY <1>1, <2>1
    <2>3. word \in 0 .. W - 1
      BY <1>1, <2>2, DivModNat
    <2> QED  BY <2>1, <2>2, <2>3
  <1>5. CASE width = XLEN
    <2> DEFINE half == 2^(XLEN - 1)
    <2>1. InRegister(op, n) = (IF value >= half THEN value - X ELSE value) % X
      BY <1>5 DEF InRegister, X
    <2>2. (value + (-1) * X) % X = value % X /\ value % X = value
      <3> HIDE DEF value
      <3>1. X \in Nat \ {0} /\ -1 \in Int
        BY <1>1
      <3>2. (value + (-1) * X) % X = value % X
        BY <1>4, <3>1, Shift
      <3>3. value % X = value
        BY <1>1, <1>4
      <3> QED  BY <3>2, <3>3
    <2>3. value + (-1) * X = value - X
      BY <1>1, <1>4
    <2> HIDE DEF value, half, word
    <2> QED  BY <1>3, <1>5, <2>1, <2>2, <2>3 DEF n
  <1>6. CASE width # XLEN
    <2>1. width = WLEN
      BY <1>1, <1>6
    <2>2. n % W = word
      <3> DEFINE j == Power[XLEN - WLEN]
      <3>1. j \in Nat \ {0}
        <4>1. XLEN - WLEN \in Nat
          BY WidthAssumption
        <4> QED  BY <4>1, PowerFacts
      <3> HIDE DEF j
      <3>2. (n % (W * j)) % W = n % W
        BY <1>1, <1>2, <3>1, ModOfMod
      <3> QED  BY <1>1, <3>2 DEF j
    <2>3. InRegister(op, n) = (IF word >= h THEN word - W ELSE word) % X
      <3>1. InRegister(op, n) = (IF n % W >= h THEN (n % W) - W ELSE n % W) % X
        BY <2>1 DEF InRegister, X, W, h
      <3> QED  BY <2>2, <3>1
    <2> HIDE DEF value, word
    <2>4. word % X = word
      BY <1>1, <1>4
    <2>5. (word - W) % X = X - W + word
      <3> DEFINE t == X - W + word
      <3>1. t \in 0 .. X - 1 /\ -1 \in Int /\ X \in Nat \ {0}
        BY <1>1, <1>4
      <3> HIDE DEF t
      <3>2. ((-1) * X + t) % X = t
        BY <3>1, DivUnique
      <3>3. (-1) * X + t = word - W
        BY <1>1, <1>4 DEF t
      <3> QED  BY <3>2, <3>3 DEF t
    <2> QED  BY <1>3, <1>6, <2>3, <2>4, <2>5 DEF n
  <1> QED  BY <1>5, <1>6

\* The bounds of the types.
LEMMA BoundsAre ==
    ASSUME NEW op
    PROVE  /\ LowerBound(op) \in Int /\ UpperBound(op) \in Nat /\ LowerBound(op) <= 0
           /\ UpperBound(op) <= 2^XLEN - 1 /\ -LowerBound(op) <= 2^XLEN - 1 /\ 2^XLEN \in Nat
           /\ \A negative \in BOOLEAN, magnitude \in Nat :
                 LET n == WithSign(negative, magnitude)
                 IN  Exceeds(op, negative, magnitude)
                        <=> IF negative THEN n < LowerBound(op) ELSE n > UpperBound(op)
           /\ InRegister(op, 0) = 0
  <1> DEFINE width == ToWidth(op)
             q == 2^width
             h == 2^(width - 1)
             X == 2^XLEN
  <1>1. IsWidth(width) /\ IsWidth(XLEN) /\ width \in {WLEN, XLEN} /\ 2^WLEN <= X
    BY ToWidthIs DEF IsWidth
  <1>2. q = 2 * h /\ h \in Nat \ {0} /\ X \in Nat \ {0} /\ q <= X
    <2> HIDE DEF width
    <2>1. q = 2 * h /\ h \in Nat \ {0} /\ X \in Nat \ {0}
      BY <1>1, WidthPowers
    <2>2. width = XLEN => q = X
      OBVIOUS
    <2>3. width = WLEN => q <= X
      BY <1>1
    <2> QED  BY <1>1, <2>1, <2>2, <2>3
  <1>3. /\ LowerBound(op) = IF ToSigned(op) THEN -h ELSE 0
        /\ UpperBound(op) = IF ToSigned(op) THEN h - 1 ELSE q - 1
    BY DEF LowerBound, UpperBound
  <1>4. \A negative, magnitude : Exceeds(op, negative, magnitude)
           <=> IF ToSigned(op) THEN magnitude > (IF negative THEN h ELSE h - 1)
               ELSE (negative /\ magnitude # 0) \/ magnitude > q - 1
    BY DEF Exceeds
  <1>5. InRegister(op, 0) = 0
    <2>1. 0 % q = 0 /\ ~(0 >= h) /\ 0 % X = 0
      <3> HIDE DEF q, h, X
      <3> QED  BY <1>2
    <2> QED  BY <2>1 DEF InRegister
  <1>6. ToSigned(op) \in BOOLEAN
    BY DEF ToSigned
  <1> HIDE DEF q, h, X, width
  <1>7. LowerBound(op) \in Int /\ UpperBound(op) \in Nat /\ LowerBound(op) <= 0
        /\ UpperBound(op) <= X - 1 /\ -LowerBound(op) <= X - 1
    BY <1>2, <1>3, <1>6
  <1>8. ASSUME NEW negative \in BOOLEAN, NEW magnitude \in Nat
        PROVE  LET n == WithSign(negative, magnitude)
               IN  Exceeds(op, negative, magnitude)
                      <=> IF negative THEN n < LowerBound(op) ELSE n > UpperBound(op)
    <2> DEFINE n == WithSign(negative, magnitude)
    <2>1. n = IF negative THEN -magnitude ELSE magnitude
      BY DEF WithSign
    <2>2. Exceeds(op, negative, magnitude)
             <=> IF ToSigned(op) THEN magnitude > (IF negative THEN h ELSE h - 1)
                 ELSE (negative /\ magnitude # 0) \/ magnitude > q - 1
      BY <1>4
    <2> HIDE DEF n
    <2>3. (IF ToSigned(op) THEN magnitude > (IF negative THEN h ELSE h - 1)
           ELSE (negative /\ magnitude # 0) \/ magnitude > q - 1)
             <=> IF negative THEN n < LowerBound(op) ELSE n > UpperBound(op)
      <3>1. CASE negative /\ ToSigned(op)
        BY <1>2, <1>3, <2>1, <3>1
      <3>2. CASE negative /\ ~ToSigned(op)
        BY <1>2, <1>3, <2>1, <3>2
      <3>3. CASE ~negative
        BY <1>2, <1>3, <1>6, <2>1, <3>3
      <3> QED  BY <1>6, <3>1, <3>2, <3>3
    <2>4. Exceeds(op, negative, magnitude)
             <=> IF negative THEN n < LowerBound(op) ELSE n > UpperBound(op)
      BY <2>2, <2>3, Zenon
    <2> QED  BY <2>4 DEF n
  <1> QED  BY <1>2, <1>5, <1>7, <1>8 DEF X

\* The reference for a conversion to an integer, in any format.
IntegerFor(op, b, rm) ==
    LET n == Integral(Numerator(b), Denominator(b), rm)
        magnitude == MagnitudeOf(b)
    IN  IF magnitude > Infinity \/ b = Infinity
        THEN Result(InRegister(op, UpperBound(op)), {NV})
        ELSE IF magnitude = Infinity \/ n < LowerBound(op)
        THEN Result(InRegister(op, LowerBound(op)), {NV})
        ELSE IF n > UpperBound(op) THEN Result(InRegister(op, UpperBound(op)), {NV})
        ELSE Result(InRegister(op, n),
                    IF Numerator(b) % Denominator(b) = 0 THEN {} ELSE {NX})

\* What is out of range becomes a bound.
LEMMA OutOfRangeIs ==
    ASSUME NEW op, NEW u
    PROVE  /\ is_nan(u) \/ ~u.sign => OutOfRange(op, u) = Result(InRegister(op, UpperBound(op)), {NV})
           /\ ~is_nan(u) /\ u.sign => OutOfRange(op, u) = Result(InRegister(op, LowerBound(op)), {NV})
  <1> DEFINE width == ToWidth(op)
             h == 2^(width - 1)
             upper == IF ToSigned(op) THEN h - 1 ELSE 2^width - 1
  <1>1. UpperBound(op) = upper /\ LowerBound(op) = IF ToSigned(op) THEN -h ELSE 0
    BY DEF UpperBound, LowerBound
  <1>2. upper \in Nat /\ h \in Nat /\ InRegister(op, 0) = 0
    <2>1. IsWidth(width)
      BY ToWidthIs
    <2>2. h \in Nat
      <3> HIDE DEF width
      <3> QED  BY <2>1, WidthPowers
    <2> QED  BY <1>1, <2>2, BoundsAre
  <1>3. /\ is_nan(u) \/ ~u.sign => OutOfRange(op, u) = Result(encode_integer_result(FALSE, upper, width), {NV})
        /\ ~is_nan(u) /\ u.sign =>
              OutOfRange(op, u) = Result(IF ToSigned(op) THEN encode_integer_result(TRUE, h, width)
                                         ELSE 0, {NV})
    BY Zenon DEF OutOfRange
  <1> HIDE DEF h, upper
  <1>4. encode_integer_result(FALSE, upper, width) = InRegister(op, upper)
    <2>1. encode_integer_result(FALSE, upper, width) = InRegister(op, WithSign(FALSE, upper))
      BY <1>2, EncodeIs
    <2> QED  BY <2>1 DEF WithSign
  <1>5. encode_integer_result(TRUE, h, width) = InRegister(op, -h)
    <2>1. encode_integer_result(TRUE, h, width) = InRegister(op, WithSign(TRUE, h))
      BY <1>2, EncodeIs
    <2> QED  BY <2>1 DEF WithSign
  <1> HIDE DEF width
  <1>6. ASSUME is_nan(u) \/ ~u.sign
        PROVE  OutOfRange(op, u) = Result(InRegister(op, UpperBound(op)), {NV})
    BY <1>1, <1>3, <1>4, <1>6
  <1>7. ASSUME ~is_nan(u) /\ u.sign
        PROVE  OutOfRange(op, u) = Result(InRegister(op, LowerBound(op)), {NV})
    <2>1. OutOfRange(op, u) = Result(IF ToSigned(op) THEN encode_integer_result(TRUE, h, width)
                                     ELSE 0, {NV})
      BY <1>3, <1>7
    <2>2. (IF ToSigned(op) THEN encode_integer_result(TRUE, h, width) ELSE 0)
             = InRegister(op, LowerBound(op))
      BY <1>1, <1>2, <1>5
    <2> QED  BY <2>1, <2>2
  <1> QED  BY <1>6, <1>7

\* The tail of float_to_integer, for a magnitude that was rounded.
InRange(op, u, magnitude, inexact) ==
    IF Exceeds(op, u.sign, magnitude) THEN OutOfRange(op, u)
    ELSE Result(encode_integer_result(u.sign, magnitude, ToWidth(op)),
                IF inexact THEN {NX} ELSE {})
LEMMA InRangeIs ==
    ASSUME NEW op, NEW u, ~is_nan(u), u.sign \in BOOLEAN, NEW magnitude \in Nat, NEW inexact
    PROVE  LET n == WithSign(u.sign, magnitude)
           IN  InRange(op, u, magnitude, inexact)
                  = IF n < LowerBound(op) THEN Result(InRegister(op, LowerBound(op)), {NV})
                    ELSE IF n > UpperBound(op) THEN Result(InRegister(op, UpperBound(op)), {NV})
                    ELSE Result(InRegister(op, n), IF inexact THEN {NX} ELSE {})
  <1> DEFINE s == u.sign
             n == WithSign(s, magnitude)
             lower == LowerBound(op)
             upper == UpperBound(op)
  <1>1. /\ lower \in Int /\ upper \in Nat /\ lower <= 0
        /\ Exceeds(op, s, magnitude) <=> IF s THEN n < lower ELSE n > upper
    BY BoundsAre
  <1>2. n = IF s THEN -magnitude ELSE magnitude
    BY DEF WithSign
  <1>3. encode_integer_result(s, magnitude, ToWidth(op)) = InRegister(op, n)
    BY EncodeIs
  <1>4. /\ ~s => OutOfRange(op, u) = Result(InRegister(op, upper), {NV})
        /\ s => OutOfRange(op, u) = Result(InRegister(op, lower), {NV})
    BY OutOfRangeIs
  <1>5. InRange(op, u, magnitude, inexact)
           = IF Exceeds(op, s, magnitude) THEN OutOfRange(op, u)
             ELSE Result(InRegister(op, n), IF inexact THEN {NX} ELSE {})
    BY <1>3 DEF InRange
  <1>6. s \in BOOLEAN
    OBVIOUS
  <1> HIDE DEF s, n, lower, upper
  <1>7. CASE s
    <2>1. n <= 0 /\ ~(n > upper)
      BY <1>1, <1>2, <1>7
    <2>2. Exceeds(op, s, magnitude) <=> n < lower
      BY <1>1, <1>7
    <2> QED  BY <1>4, <1>5, <1>7, <2>1, <2>2 DEF s, n, lower, upper
  <1>8. CASE ~s
    <2>1. ~(n < lower)
      BY <1>1, <1>2, <1>8
    <2>2. Exceeds(op, s, magnitude) <=> n > upper
      BY <1>1, <1>8
    <2> QED  BY <1>4, <1>5, <1>8, <2>1, <2>2 DEF s, n, lower, upper
  <1> QED  BY <1>6, <1>7, <1>8

\* Whether a float without a fraction fits a register is found without overflow.
LEMMA TooLargeIs ==
    ASSUME NEW s \in Nat \ {0}, NEW lift \in Nat
    PROVE  LET too_large == lift >= XLEN \/ s > (2^XLEN - 1) \div 2^lift
               A == s * Power[lift]
           IN  /\ too_large <=> A > 2^XLEN - 1
               /\ ~too_large => s * 2^lift = A
               /\ A \in Nat
  <1> DEFINE X == 2^XLEN
             p == Power[lift]
             A == s * p
             too_large == lift >= XLEN \/ s > (X - 1) \div 2^lift
  <1>1. /\ XLEN \in Nat /\ XLEN <= WIDE + 2 /\ WIDE \in Nat
        /\ X = Power[XLEN] /\ X \in Nat \ {0} /\ p \in Nat \ {0}
        /\ \A n \in 0 .. WIDE + 3 : 2^n = Power[n]
    <2>1. IsWidth(XLEN)
      BY DEF IsWidth
    <2>2. X = Power[XLEN] /\ X \in Nat \ {0}
      BY <2>1, WidthPowers
    <2> QED  BY <2>2, WidthAssumption, FormatAssumption, FormatFacts, PowerFacts
  <1> HIDE DEF X, p
  <1>2. A \in Nat /\ A >= p
    <2>1. s * p \in Nat /\ s * p >= 1 * p
      BY <1>1, SMT
    <2> QED  BY <1>1, <2>1
  <1>3. CASE lift >= XLEN
    <2>1. lift = XLEN \/ XLEN < lift
      BY <1>1, <1>3
    <2>2. p >= X
      <3>1. lift = XLEN \/ X < p
        BY <1>1, <2>1, PowerGrows DEF p
      <3> QED  BY <1>1, <3>1 DEF p
    <2>3. A > X - 1 /\ too_large
      BY <1>1, <1>2, <1>3, <2>2
    <2> QED  BY <1>2, <2>3 DEF X, p
  <1>4. CASE ~(lift >= XLEN)
    <2>1. 2^lift = p
      <3>1. lift \in 0 .. WIDE + 3
        BY <1>1, <1>4
      <3> QED  BY <1>1, <3>1 DEF p
    <2> DEFINE k == (X - 1) \div p
               r == (X - 1) % p
    <2>2. X - 1 = p * k + r /\ r \in 0 .. p - 1 /\ k \in Nat
      <3>1. X - 1 \in Nat
        BY <1>1
      <3> QED  BY <1>1, <3>1, DivModNat
    <2> HIDE DEF k, r
    <2>3. (s > k => s * p >= (k + 1) * p) /\ (s <= k => s * p <= k * p) /\ (k + 1) * p = p * k + p
          /\ k * p = p * k /\ p * k \in Nat
      BY <1>1, <2>2, SMT
    <2>4. s > k <=> A > X - 1
      BY <1>1, <1>2, <2>2, <2>3
    <2>5. too_large <=> s > k
      BY <1>4, <2>1 DEF k
    <2> HIDE DEF too_large
    <2>6. (too_large <=> A > X - 1) /\ s * 2^lift = A
      BY <2>1, <2>4, <2>5
    <2> QED  BY <1>2, <2>6 DEF X, p, too_large
  <1> QED  BY <1>3, <1>4

\* The conversion of a float rounds the fraction that it is.
LEMMA FloatToIntegerIs ==
    ASSUME NEW raw \in Floats, NEW op \in ToInteger, NEW rm \in RoundingModes
    PROVE  float_to_integer(op, raw, rm) = IntegerFor(op, raw, rm)
  <1> DEFINE u == Unpack(raw)
             negative == IsNegative(raw)
             n == Integral(Numerator(raw), Denominator(raw), rm)
             lower == Result(InRegister(op, LowerBound(op)), {NV})
             upper == Result(InRegister(op, UpperBound(op)), {NV})
             whole == u.exponent >= FRACBITS
             lift == u.exponent - FRACBITS
             too_large == lift >= XLEN \/ u.significand > (2^XLEN - 1) \div 2^lift
             cut == Cut(u)
             up == RoundsUp(cut, u.sign, rm)
             flags == IF Numerator(raw) % Denominator(raw) = 0 THEN {} ELSE {NX}
             in == IF n < LowerBound(op) THEN lower
                   ELSE IF n > UpperBound(op) THEN upper
                   ELSE Result(InRegister(op, n), flags)
  <1>1. /\ u.sign = negative /\ negative \in BOOLEAN
        /\ is_nan(u) <=> NanOf(raw)
        /\ IsZero(u) <=> ZeroOf(raw)
        /\ IsInfinity(u) <=> InfiniteOf(raw)
        /\ ZeroOf(raw) \/ FiniteNonzero(raw) \/ InfiniteOf(raw) \/ NanOf(raw)
        /\ FiniteNonzero(raw) => ~InfiniteOf(raw) /\ ~NanOf(raw) /\ ~ZeroOf(raw)
        /\ ZeroOf(raw) => ~InfiniteOf(raw) /\ ~NanOf(raw)
        /\ InfiniteOf(raw) => ~NanOf(raw)
    BY UnpackFacts
  <1>2. /\ is_nan(u) \/ ~u.sign => OutOfRange(op, u) = upper
        /\ ~is_nan(u) /\ u.sign => OutOfRange(op, u) = lower
    BY OutOfRangeIs
  <1>3. raw = Infinity <=> InfiniteOf(raw) /\ ~negative
    <2>1. /\ MagnitudeOf(raw) \in Nat /\ MagnitudeOf(raw) < Sign
          /\ raw = (IF negative THEN Sign + MagnitudeOf(raw) ELSE MagnitudeOf(raw))
      BY RawParts
    <2>2. Infinity \in Nat /\ Infinity < Sign /\ Sign \in Nat
      BY FormatFacts
    <2>3. negative <=> raw >= Sign
      BY DEF IsNegative
    <2> QED  BY <1>1, <2>1, <2>2, <2>3 DEF InfiniteOf
  <1>4. IntegerFor(op, raw, rm) = IF NanOf(raw) \/ raw = Infinity THEN upper
                                  ELSE IF InfiniteOf(raw) THEN lower ELSE in
    BY DEF IntegerFor, NanOf, InfiniteOf
  <1>5. CASE NanOf(raw) \/ InfiniteOf(raw)
    <2>1. float_to_integer(op, raw, rm) = OutOfRange(op, u)
      BY <1>1, <1>5 DEF float_to_integer
    <2> HIDE DEF u, lower, upper, in, negative
    <2> QED  BY <1>1, <1>2, <1>3, <1>4, <1>5, <2>1
  <1>6. CASE ZeroOf(raw)
    <2>1. float_to_integer(op, raw, rm) = Result(0, {})
      BY <1>1, <1>6 DEF float_to_integer
    <2>2. Numerator(raw) = 0 /\ Denominator(raw) \in Nat \ {0}
      <3>1. /\ MagnitudeOf(raw) = 0 /\ HiddenBit \in Nat \ {0} /\ Bias \in Nat /\ Bias >= 1
            /\ MinExponent = 1 - Bias /\ FRACBITS \in Nat /\ raw % HiddenBit = 0 % HiddenBit
        <4>1. raw % HiddenBit = MagnitudeOf(raw) % HiddenBit
          BY RawParts
        <4>2. MagnitudeOf(raw) = 0
          BY <1>6 DEF ZeroOf
        <4>3. HiddenBit \in Nat \ {0} /\ Bias \in Nat /\ Bias >= 1 /\ MinExponent = 1 - Bias
              /\ FRACBITS \in Nat
          BY FormatFacts
        <4> QED  BY <4>1, <4>2, <4>3
      <3>2. 0 \div HiddenBit = 0 /\ 0 % HiddenBit = 0
        BY <3>1
      <3> DEFINE e == MagnitudeOf(raw) \div HiddenBit - Bias
      <3>3. e = -Bias /\ ~(e > FRACBITS) /\ e < MinExponent
        BY <3>1, <3>2
      <3>4. Denominator(raw) = IF e > FRACBITS THEN 1
                               ELSE Power[FRACBITS - (IF e < MinExponent THEN MinExponent ELSE e)]
        BY DEF Denominator
      <3>5. Numerator(raw) = (IF IsNegative(raw) THEN -1 ELSE 1)
                * ((IF e = -Bias THEN 0 ELSE HiddenBit) + (raw % HiddenBit))
                * (IF e > FRACBITS THEN Power[e - FRACBITS] ELSE 1)
        BY DEF Numerator
      <3> HIDE DEF e
      <3>6. FRACBITS - MinExponent \in Nat
        BY <3>1
      <3>7. Denominator(raw) = Power[FRACBITS - MinExponent]
        BY <3>3, <3>4
      <3>8. Numerator(raw) = (IF IsNegative(raw) THEN -1 ELSE 1) * 0 * 1
        BY <3>1, <3>2, <3>3, <3>5
      <3> QED  BY <3>6, <3>7, <3>8, PowerFacts
    <2>3. n = 0 /\ flags = {}
      <3> DEFINE D == Denominator(raw)
      <3>1. 0 \div D = 0 /\ 0 % D = 0 /\ D \in Nat \ {0}
        <4>1. D \in Nat \ {0}
          BY <2>2
        <4> HIDE DEF D
        <4> QED  BY <4>1
      <3> HIDE DEF D
      <3>2. Integral(0, D, rm) = 0
        BY <3>1 DEF Integral
      <3> QED  BY <2>2, <3>1, <3>2 DEF D
    <2>4. in = Result(0, {})
      <3>1. /\ LowerBound(op) \in Int /\ UpperBound(op) \in Nat /\ LowerBound(op) <= 0
            /\ InRegister(op, 0) = 0
        BY BoundsAre
      <3> HIDE DEF n, flags
      <3> QED  BY <2>3, <3>1
    <2>5. ~(raw = Infinity)
      BY <1>1, <1>3, <1>6
    <2> HIDE DEF u, lower, upper, in, negative
    <2> QED  BY <1>1, <1>4, <1>6, <2>1, <2>4, <2>5
  <1>7. CASE FiniteNonzero(raw)
    <2>1. ~is_nan(u) /\ ~IsInfinity(u) /\ ~IsZero(u) /\ rm # "Dynamic"
      BY <1>1, <1>7 DEF RoundingModes
    <2>2. IntegerFor(op, raw, rm) = in
      <3> HIDE DEF lower, upper, in, negative, u
      <3> QED  BY <1>1, <1>3, <1>4, <1>7
    <2>3. PICK A, D \in Nat : /\ IsFraction(u, A, D)
                              /\ Numerator(raw) = WithSign(negative, A)
                              /\ Denominator(raw) = D
      BY <1>7, FractionOfFloat
    <2>4. A \in Nat \ {0} /\ D \in Nat \ {0}
      BY <2>3 DEF IsFraction
    <2>5. u.exponent \in Int /\ u.significand \in HiddenBit .. 2 * HiddenBit - 1
          /\ HiddenBit \in Nat /\ HiddenBit >= 8 /\ FRACBITS \in Nat
      <3>1. IsNumber(u, MagnitudeOf(raw))
        BY <1>7, UnpackFacts
      <3> QED  BY <3>1, FormatFacts DEF IsNumber
    <2> DEFINE k == A \div D
               r == A % D
               raised == Away(rm, negative, k, r, D)
               rounded == IF raised THEN k + 1 ELSE k
    <2>6. n = WithSign(negative, rounded) /\ (Numerator(raw) % Denominator(raw) = 0 <=> r = 0)
      BY <1>1, <2>3, <2>4, IntegralIs
    <2>7. k \in Nat /\ r \in Nat
      BY <2>4, DivModNat
    <2>8. r = 0 /\ D = 1 => ~raised
      <3>1. rm \in {"Rne", "Rtz", "Rdn", "Rup", "Rmm"}
        BY DEF RoundingModes
      <3> HIDE DEF k, r, negative
      <3>2. /\ rm = "Rdn" => (raised <=> negative /\ r # 0)
            /\ rm = "Rup" => (raised <=> ~negative /\ r # 0)
            /\ rm = "Rtz" => ~raised
            /\ rm = "Rne" => (raised <=> 2 * r > D \/ (2 * r = D /\ k % 2 = 1))
            /\ rm = "Rmm" => (raised <=> 2 * r >= D)
        BY DEF Away
      <3> HIDE DEF raised
      <3> QED  BY <2>7, <3>1, <3>2
    <2>9. CASE ~whole
      <3>1. u.exponent < FRACBITS
        BY <2>5, <2>9
      <3>2. /\ cut.magnitude = k
            /\ cut.remainder # 0 <=> r # 0
            /\ up <=> raised
        <4> HIDE DEF u
        <4>1. LET c == Cut(u)
              IN  /\ c.magnitude = A \div D
                  /\ c.remainder # 0 <=> A % D # 0
                  /\ RoundsUp(c, negative, rm) <=> Away(rm, negative, A \div D, A % D, D)
          BY <1>1, <2>3, <2>4, <2>5, <3>1, CutIs
        <4> QED  BY <1>1, <4>1
      <3>3. float_to_integer(op, raw, rm)
               = InRange(op, u, cut.magnitude + Truth(up), cut.remainder # 0)
        <4>1. ~(whole /\ too_large)
          BY <2>9
        <4> DEFINE magnitude == IF whole THEN u.significand * 2^lift ELSE cut.magnitude + Truth(up)
                   inexact == ~whole /\ cut.remainder # 0
        <4>2. float_to_integer(op, raw, rm)
                 = IF Exceeds(op, u.sign, magnitude) THEN OutOfRange(op, u)
                   ELSE Result(encode_integer_result(u.sign, magnitude, ToWidth(op)),
                               IF inexact THEN {NX} ELSE {})
          BY <2>1, <4>1, Zenon DEF float_to_integer
        <4>3. magnitude = cut.magnitude + Truth(up) /\ (inexact <=> cut.remainder # 0)
          BY <2>9, Zenon
        <4> HIDE DEF u, whole, cut, up, magnitude, inexact
        <4> QED  BY <4>2, <4>3, Zenon DEF InRange
      <3>4. cut.magnitude + Truth(up) = rounded
        <4>1. Truth(up) = IF raised THEN 1 ELSE 0
          BY <3>2 DEF Truth
        <4> HIDE DEF cut, up, k, r, raised
        <4> QED  BY <2>7, <2>8, <3>2, <4>1
      <3>5. rounded \in Nat
        <4> HIDE DEF k, raised
        <4> QED  BY <2>7, <2>8
      <3> DEFINE inexact == cut.remainder # 0
      <3>6. inexact <=> ~(Numerator(raw) % Denominator(raw) = 0)
        BY <2>6, <3>2
      <3> HIDE DEF rounded, inexact, cut, up
      <3>7. InRange(op, u, rounded, inexact)
               = IF WithSign(u.sign, rounded) < LowerBound(op) THEN lower
                 ELSE IF WithSign(u.sign, rounded) > UpperBound(op) THEN upper
                 ELSE Result(InRegister(op, WithSign(u.sign, rounded)),
                             IF inexact THEN {NX} ELSE {})
        BY <1>1, <2>1, <3>5, InRangeIs
      <3>8. flags = IF inexact THEN {NX} ELSE {}
        BY <3>6
      <3>9. WithSign(u.sign, rounded) = n
        BY <1>1, <2>6
      <3>10. float_to_integer(op, raw, rm) = InRange(op, u, rounded, inexact)
        BY <3>3, <3>4 DEF inexact
      <3> HIDE DEF u, n, flags, lower, upper
      <3> QED  BY <2>2, <3>7, <3>8, <3>9, <3>10
    <2>10. CASE whole
      <3> DEFINE s == u.significand
                 M == s * 2^lift
      <3>1. D = 1 /\ A = s * Power[lift]
        BY <2>3, <2>10 DEF IsFraction
      <3>2. s \in Nat \ {0} /\ lift \in Nat
        BY <2>5, <2>10
      <3>3. /\ too_large <=> A > 2^XLEN - 1
            /\ ~too_large => M = A
        BY <3>1, <3>2, TooLargeIs
      <3>4. k = A /\ r = 0
        BY <2>4, <3>1
      <3>5. ~raised
        BY <2>8, <3>1, <3>4
      <3>6. n = WithSign(negative, A) /\ flags = {}
        BY <2>6, <3>4, <3>5
      <3>7. CASE too_large
        <4>1. float_to_integer(op, raw, rm) = OutOfRange(op, u)
          BY <2>1, <2>10, <3>7, Zenon DEF float_to_integer
        <4>2. /\ LowerBound(op) \in Int /\ UpperBound(op) \in Nat /\ LowerBound(op) <= 0
              /\ UpperBound(op) <= 2^XLEN - 1 /\ -LowerBound(op) <= 2^XLEN - 1 /\ 2^XLEN \in Nat
          BY BoundsAre
        <4>3. A > 2^XLEN - 1
          BY <3>3, <3>7
        <4> HIDE DEF too_large, n, flags, u, lower, upper
        <4>4. n = IF negative THEN -A ELSE A
          BY <3>6 DEF WithSign
        <4> HIDE DEF negative
        <4>5. CASE negative
          <5>1. n < LowerBound(op)
            BY <2>4, <4>2, <4>3, <4>4, <4>5
          <5>2. OutOfRange(op, u) = lower
            BY <1>1, <1>2, <2>1, <4>5
          <5> QED  BY <2>2, <4>1, <5>1, <5>2
        <4>6. CASE ~negative
          <5>1. n > UpperBound(op) /\ ~(n < LowerBound(op))
            BY <2>4, <4>2, <4>3, <4>4, <4>6
          <5>2. OutOfRange(op, u) = upper
            BY <1>1, <1>2, <2>1, <4>6
          <5> QED  BY <2>2, <4>1, <5>1, <5>2
        <4> QED  BY <4>5, <4>6
      <3>8. CASE ~too_large
        <4>1. M = A
          BY <3>3, <3>8
        <4> DEFINE magnitude == IF whole THEN M ELSE cut.magnitude + Truth(up)
                   inexact == ~whole /\ cut.remainder # 0
        <4>2. float_to_integer(op, raw, rm)
                 = IF Exceeds(op, u.sign, magnitude) THEN OutOfRange(op, u)
                   ELSE Result(encode_integer_result(u.sign, magnitude, ToWidth(op)),
                               IF inexact THEN {NX} ELSE {})
          BY <2>1, <2>10, <3>8, Zenon DEF float_to_integer
        <4>3. magnitude = A /\ ~inexact
          BY <2>10, <4>1, Zenon
        <4> HIDE DEF magnitude, inexact, whole
        <4>4. float_to_integer(op, raw, rm) = InRange(op, u, A, FALSE)
          BY <4>2, <4>3, Zenon DEF InRange
        <4>5. InRange(op, u, A, FALSE)
               = IF WithSign(u.sign, A) < LowerBound(op) THEN lower
                 ELSE IF WithSign(u.sign, A) > UpperBound(op) THEN upper
                 ELSE Result(InRegister(op, WithSign(u.sign, A)), {})
          <5> DEFINE never == FALSE
          <5> HIDE DEF never
          <5>1. InRange(op, u, A, never)
                  = IF WithSign(u.sign, A) < LowerBound(op) THEN lower
                    ELSE IF WithSign(u.sign, A) > UpperBound(op) THEN upper
                    ELSE Result(InRegister(op, WithSign(u.sign, A)), IF never THEN {NX} ELSE {})
            <6>1. A \in Nat
              OBVIOUS
            <6> HIDE DEF whole, too_large, flags, n
            <6> QED  BY <1>1, <2>1, <6>1, InRangeIs, Zenon
          <5> QED  BY <5>1 DEF never
        <4> HIDE DEF u, n, flags, lower, upper
        <4> QED  BY <1>1, <2>2, <3>6, <4>4, <4>5
      <3> QED  BY <3>7, <3>8
    <2> QED  BY <2>9, <2>10
  <1> QED  BY <1>1, <1>5, <1>6, <1>7

-----------------------------------------------------------------------------
\* An operation that does not throw returns a value.
Returns(result) == result.value \in Nat

\* Whatever returns, does not throw; and what does return.
LEMMA ReturnsIs ==
    /\ \A r : Returns(r) => r # Thrown
    /\ \A f : \A v \in Nat : Returns(Result(v, f))
    /\ \A n, f : \A m \in Nat : Returns(Result(Signed(n, m), f)) /\ Returns(Exact(n, m))
    /\ Returns(Invalid) /\ \A operands : Returns(propagate_nan(operands))
  <1>1. Sign \in Nat /\ CanonicalNan \in Nat
    <2>1. Sign \in Nat /\ Infinity \in Nat /\ HiddenBit \in Nat
      BY FormatFacts
    <2> QED  BY <2>1 DEF CanonicalNan
  <1>2. \A r : Returns(r) => r # Thrown
    BY DEF Returns, Thrown, Result
  <1>3. \A f : \A v \in Nat : Returns(Result(v, f))
    BY DEF Returns, Result
  <1>4. \A n : \A m \in Nat : Signed(n, m) \in Nat
    BY <1>1 DEF Signed
  <1>5. Returns(Invalid) /\ \A operands : Returns(propagate_nan(operands))
    BY <1>1, <1>3 DEF Invalid, propagate_nan
  <1> QED  BY <1>2, <1>3, <1>4, <1>5 DEF Exact

\* A reserved rounding mode ends what has anything to pack.
LEMMA PackReserved ==
    ASSUME NEW negative, NEW e, NEW S, S # 0
    PROVE  round_and_pack(negative, e, S, "Reserved") = Thrown
  <1>1. "Reserved" \notin RoundingModes
    BY DEF RoundingModes
  <1> QED  BY <1>1 DEF round_and_pack

\* The conversion of an integer has nothing to pack only of a zero.
LEMMA IntegerToFloatReserved ==
    ASSUME NEW op \in FromInteger, NEW w \in Nat
    PROVE  integer_to_float(op, w, "Reserved") = Thrown <=> Integer(op, w) # 0
  <1> DEFINE n == Integer(op, w)
             v == IntegerOperand(op, w)
             M == v.magnitude
  <1>1. M \in Nat /\ (n = 0 <=> M = 0) /\ M < Power[WordBits]
    BY IntegerOperandIs
  <1>2. integer_to_float(op, w, "Reserved")
           = IF M = 0 THEN Exact(FALSE, 0)
             ELSE round_and_pack(v.sign, Msb(M), IntegerPlaced(M), "Reserved")
    BY Zenon DEF integer_to_float, IntegerPlaced
  <1> HIDE DEF n, M
  <1>3. CASE M = 0
    <2>1. Exact(FALSE, 0) # Thrown
      BY ReturnsIs
    <2> QED  BY <1>1, <1>2, <1>3, <2>1 DEF n
  <1>4. CASE M # 0
    <2>1. StandsFor(IntegerPlaced(M), Msb(M), M * Unit, M * Unit, 1)
      BY <1>1, <1>4, IntegerStands
    <2>2. IntegerPlaced(M) # 0
      BY <2>1 DEF StandsFor, IsSignificand
    <2> QED  BY <1>1, <1>2, <1>4, <2>2, PackReserved DEF n
  <1> QED  BY <1>3, <1>4

\* The conversion to an integer cuts the fraction off in such a mode.
LEMMA FloatToIntegerReserved ==
    ASSUME NEW raw \in Floats, NEW op \in ToInteger
    PROVE  /\ float_to_integer(op, raw, "Reserved") = float_to_integer(op, raw, "Rtz")
           /\ float_to_integer(op, raw, "Reserved") # Thrown
  <1> DEFINE n == Integral(Numerator(raw), Denominator(raw), "Rtz")
  <1>1. float_to_integer(op, raw, "Reserved") = float_to_integer(op, raw, "Rtz")
    <2>1. \A cut, negative :
            RoundsUp(cut, negative, "Reserved") = RoundsUp(cut, negative, "Rtz")
      BY DEF RoundsUp
    <2>2. "Reserved" # "Dynamic" /\ "Rtz" # "Dynamic"
      OBVIOUS
    <2> QED  BY <2>1, <2>2, Zenon DEF float_to_integer
  <1>2. float_to_integer(op, raw, "Rtz") = IntegerFor(op, raw, "Rtz")
    BY FloatToIntegerIs DEF RoundingModes
  <1>3. \A k \in Int : InRegister(op, k) \in Nat
    <2> SUFFICES ASSUME NEW k \in Int PROVE InRegister(op, k) \in Nat
      OBVIOUS
    <2> DEFINE q == 2^ToWidth(op)
               X == 2^XLEN
               word == k % q
               j == IF word >= 2^(ToWidth(op) - 1) THEN word - q ELSE word
    <2>1. q \in Nat \ {0} /\ X \in Nat \ {0}
      <3> DEFINE width == ToWidth(op)
      <3>1. IsWidth(width) /\ IsWidth(XLEN)
        BY ToWidthIs
      <3> HIDE DEF width
      <3> QED  BY <3>1, WidthPowers DEF width
    <2>2. InRegister(op, k) = j % X
      BY DEF InRegister
    <2> HIDE DEF q, X
    <2>3. word \in Int
      BY <2>1
    <2> HIDE DEF word
    <2>4. j \in Int
      BY <2>1, <2>3
    <2> HIDE DEF j
    <2>5. j % X \in Nat
      BY <2>1, <2>4
    <2> QED  BY <2>2, <2>5
  <1>4. ASSUME FiniteNonzero(raw) PROVE n \in Int
    <2>1. PICK A \in Nat, D \in Nat :
             /\ IsFraction(Unpack(raw), A, D)
             /\ Numerator(raw) = WithSign(IsNegative(raw), A) /\ Denominator(raw) = D
      BY <1>4, FractionOfFloat
    <2>2. A \in Nat \ {0} /\ D \in Nat \ {0}
      BY <2>1, Zenon DEF IsFraction
    <2>3. Numerator(raw) \div D \in Int
      BY <2>1, <2>2 DEF WithSign
    <2> QED  BY <2>1, <2>3 DEF Integral
  <1>5. CASE ZeroOf(raw)
    <2>1. float_to_integer(op, raw, "Rtz") = Result(0, {})
      <3>1. IsZero(Unpack(raw)) /\ ~is_nan(Unpack(raw)) /\ ~IsInfinity(Unpack(raw))
        BY <1>5, UnpackFacts
      <3> QED  BY <3>1, Zenon DEF float_to_integer
    <2> QED  BY <1>1, <2>1, ReturnsIs
  <1>6. CASE ~ZeroOf(raw)
    <2>1. ~FiniteNonzero(raw) => MagnitudeOf(raw) >= Infinity
      <3>1. MagnitudeOf(raw) \in Nat /\ Infinity \in Nat
        BY RawParts, FormatFacts
      <3> QED  BY <1>6, <3>1 DEF FiniteNonzero
    <2>2. LowerBound(op) \in Int /\ UpperBound(op) \in Int
      BY BoundsAre
    <2>3. Returns(IntegerFor(op, raw, "Rtz"))
      <3> DEFINE m == MagnitudeOf(raw)
      <3>1. m \in Nat /\ Infinity \in Nat
        BY RawParts, FormatFacts
      <3>2. IntegerFor(op, raw, "Rtz") =
              IF m > Infinity \/ raw = Infinity
              THEN Result(InRegister(op, UpperBound(op)), {NV})
              ELSE IF m = Infinity \/ n < LowerBound(op)
              THEN Result(InRegister(op, LowerBound(op)), {NV})
              ELSE IF n > UpperBound(op) THEN Result(InRegister(op, UpperBound(op)), {NV})
              ELSE Result(InRegister(op, n),
                          IF Numerator(raw) % Denominator(raw) = 0 THEN {} ELSE {NX})
        BY Zenon DEF IntegerFor
      <3> HIDE DEF n, m
      <3>3. m > Infinity \/ m = Infinity \/ n \in Int
        BY <1>4, <2>1, <3>1 DEF m
      <3> QED  BY <1>3, <2>2, <3>2, <3>3, ReturnsIs
    <2> QED  BY <1>1, <1>2, <2>3, ReturnsIs
  <1> QED  BY <1>5, <1>6, <1>1
=============================================================================
