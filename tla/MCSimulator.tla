---------------------------- MODULE MCSimulator ----------------------------
(***************************************************************************)
(* Programs for Simulator, in their RISC-V encodings.  Memory is 64 bytes: *)
(* code from offset 0, a data word at offset 48, tohost at offset 56.      *)
(***************************************************************************)
EXTENDS Simulator

Base == {31}
MCAddrs == {Base \cup o : o \in SUBSET (0 .. 5)}
MCTohost == Base \cup {3, 4, 5}
MCEntries == {Base, Base \cup {3}}

Zeroes == [n \in StoredCsrs |-> {}]
MCBoot == {Zeroes, [Zeroes EXCEPT !["mtvec"] = {31, 0}]}

\* A number below 2^16 as a word, and a 32-bit word from its halves.
Lo16(n) == {i \in 0 .. 15 : (n \div 2^i) % 2 = 1}
W(hi, lo) == {i + 16 : i \in Lo16(hi)} \cup Lo16(lo)

Auipc1 == W(\h0000, \h0097)         \* auipc x1, 0
Addi1m8 == W(\hff80, \h8093)        \* addi  x1, x1, -8
Lw2 == W(\h0300, \ha103)            \* lw    x2, 48(x1)
Lh2 == W(\h0010, \h9103)            \* lh    x2, 1(x1)
Sw2at8 == W(\h0020, \ha423)         \* sw    x2, 8(x1)
Sw2at12 == W(\h0020, \ha623)        \* sw    x2, 12(x1)
Sd1 == W(\h0210, \hbc23)            \* sd    x1, 56(x1)
Jm4 == W(\hffdf, \hf06f)            \* j     .-4
Csrwtv == W(\h3050, \h9073)         \* csrw  mtvec, x1
EcallW == W(\h0000, \h0073)         \* ecall
MretW == W(\h3020, \h0073)          \* mret

MCInsns ==
    {decode(w) : w \in {Auipc1, Addi1m8, Lw2, Lh2, Sw2at8, Sw2at12, Sd1, Jm4,
                        Csrwtv, EcallW, MretW}} \cup {InvalidWord}

\* Memory that holds the code, the data word, and zero everywhere else.
Image(code, data) ==
    [a \in RamAddrs |->
        LET n == CHOOSE k \in 0 .. 15 : Base \cup Lo16(4 * k) = a \ {0, 1}
            word == IF n + 1 \in DOMAIN code THEN code[n + 1]
                    ELSE IF n = 12 THEN data ELSE {}
            byte == (IF 0 \in a THEN 1 ELSE 0) + (IF 1 \in a THEN 2 ELSE 0)
        IN  {b \in Low(8) : b + 8 * byte \in word}]

MCImages ==
    {\* Overwrites the word after the store, then reaches it.
     Image(<<Auipc1, Lw2, Sw2at12, Jm4>>, Sd1),
     \* Overwrites the store itself, then jumps back to it.
     Image(<<Auipc1, Lw2, Sw2at8, Jm4>>, Sd1),
     \* A handler at the base that signals; the body traps into it.
     Image(<<Sd1, MretW, Auipc1, Addi1m8, Csrwtv, EcallW>>, {}),
     Image(<<Sd1, MretW, Auipc1, Addi1m8, Csrwtv, Lh2, Jm4>>, {}),
     \* The handler returns to the trapping instruction: the loop never ends.
     Image(<<MretW, Jm4, Auipc1, Addi1m8, Csrwtv, Lh2>>, {}),
     \* Runs off its end, into words that decode to nothing.
     Image(<<Auipc1, Lw2, Addi1m8>>, Sd1)}
=============================================================================
