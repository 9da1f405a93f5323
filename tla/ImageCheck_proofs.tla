-------------------------- MODULE ImageCheck_proofs --------------------------
(***************************************************************************)
(* Loading and decoding, for every file and every word.                    *)
(*                                                                         *)
(* The address main watches: the scan of ElfLoader::load ends at the first *)
(* symbol table that has the symbol, wherever it stands, and only a file   *)
(* that has none leaves the member as it was found.  The bytes of memory:  *)
(* those of the last segment that covers them.  Decoding: what decode      *)
(* takes for an instruction is encoded to the same word again, and every   *)
(* word of an instruction is taken for that instruction.  So the programs  *)
(* that are assembled are the programs that are executed.                  *)
(***************************************************************************)
EXTENDS ImageCheck, Words_proofs

\* The sections that can end the scan, and the one that does.
IsTable(i) ==
    /\ file.sections[i].type \in SymbolTables
    /\ file.sections[i].tohost # {}
Tables == {i \in DOMAIN file.sections : IsTable(i)}
First == CHOOSE i \in Tables : \A j \in Tables : i <= j

\* While the scan lasts, every section before n has been rejected; once it is
\* over, the address is from the first table if there is one.
Scanning ==
    /\ n \in Nat \ {0}
    /\ tohost \in Uninitialized
    /\ \A i \in Tables : n <= i
Chosen ==
    IF Tables # {} THEN tohost \in file.sections[First].tohost
    ELSE tohost \in Uninitialized
Lookup ==
    /\ file \in Files
    /\ phase \in {"open", "symbols"} => Scanning
    /\ phase \in {"test", "segments", "load", "clear", "run"} => Chosen
    /\ phase \in {"segments", "load", "clear", "run"} => tohost # {}

\* The sections of a file are numbered from one.
LEMMA SectionNumbers ==
    ASSUME NEW f \in Files
    PROVE  Len(f.sections) \in Nat /\ DOMAIN f.sections = 1 .. Len(f.sections)
  BY LoaderAssumption

\* Everything but the scan leaves the file, and what was found in it, alone.
LEMMA ScanKept ==
    ASSUME UNCHANGED <<file, tohost>>
    PROVE  Chosen' <=> Chosen
  BY DEF Chosen, First, Tables, IsTable

\* The steps of the scan keep what is known of it.
LEMMA ScanStep ==
    ASSUME Lookup, SkipSection \/ FindTohost \/ EndOfSections
    PROVE  Lookup'
  <1>0. /\ file \in Files /\ phase = "symbols" /\ Scanning /\ file' = file
        /\ Tables' = Tables
    BY DEF Lookup, SkipSection, FindTohost, EndOfSections, Tables, IsTable
  <1>1. Len(file.sections) \in Nat /\ DOMAIN file.sections = 1 .. Len(file.sections)
    BY <1>0, SectionNumbers
  <1>2. Tables \subseteq 1 .. Len(file.sections)
    BY <1>1 DEF Tables
  <1>3. CASE SkipSection
    <2>1. n \notin Tables
      BY <1>3 DEF SkipSection, DefinesTohost, Section, Tables, IsTable
    <2>2. \A i \in Tables : n + 1 <= i
      BY <1>0, <1>2, <2>1 DEF Scanning
    <2>3. Scanning'
      BY <1>0, <1>3, <2>2 DEF Scanning, SkipSection
    <2> QED  BY <1>0, <1>3, <2>3 DEF Lookup, SkipSection
  <1>4. CASE FindTohost
    <2>1. n \in Tables /\ \A j \in Tables : n <= j
      BY <1>0, <1>1, <1>4 DEF FindTohost, DefinesTohost, Section, Tables, IsTable, Scanning
    <2>2. First = n
      <3>1. \A i \in Tables : (\A j \in Tables : i <= j) => i = n
        <4>1. \A i \in Tables : i \in Int
          BY <1>1, <1>2
        <4> QED  BY <2>1, <4>1
      <3> QED  BY <2>1, <3>1 DEF First
    <2>3. tohost' \in file.sections[n].tohost
      BY <1>4 DEF FindTohost, Section
    <2>4. First' = First
      BY <1>0 DEF First
    <2>5. Chosen'
      BY <1>0, <2>1, <2>2, <2>3, <2>4 DEF Chosen
    <2> QED  BY <1>0, <1>4, <2>5 DEF Lookup, FindTohost
  <1>5. CASE EndOfSections
    <2>1. Tables = {}
      BY <1>0, <1>2, <1>5 DEF EndOfSections, Scanning
    <2>2. Chosen'
      BY <1>0, <1>5, <2>1 DEF Chosen, EndOfSections, Scanning
    <2> QED  BY <1>0, <1>5, <2>2 DEF Lookup, EndOfSections
  <1> QED  BY <1>3, <1>4, <1>5

\* Whatever symbol tables a file has, and in whatever order, the address is
\* that of the first one to define the symbol; it is not zero, but a file
\* without the symbol can pass for one that has it.
THEOREM TohostIsLookedUp == LoaderSpec => []TohostIsTheSymbol
  <1>1. LoaderInit => Lookup
    <2> SUFFICES ASSUME LoaderInit PROVE Lookup
      OBVIOUS
    <2>1. Tables \subseteq 1 .. Len(file.sections) /\ Len(file.sections) \in Nat
      BY SectionNumbers DEF LoaderInit, Tables
    <2> QED  BY <2>1 DEF LoaderInit, Lookup, Scanning
  <1>2. Lookup /\ [LoaderNext]_loaderVars => Lookup'
    <2> SUFFICES ASSUME Lookup, [LoaderNext]_loaderVars PROVE Lookup'
      OBVIOUS
    <2>1. CASE SkipSection \/ FindTohost \/ EndOfSections
      BY <2>1, ScanStep
    <2>2. CASE TestTohost \/ TakeSegment \/ EndOfSegments \/ LoadSegment \/ ClearTail \/ Start
      <3>1. Chosen /\ Chosen'
        BY <2>2, ScanKept DEF Lookup, TestTohost, TakeSegment, EndOfSegments, LoadSegment,
           ClearTail, Start
      <3>2. /\ UNCHANGED <<file, tohost>> /\ phase' \notin {"open", "symbols"}
            /\ phase' \in {"segments", "load", "clear", "run"} => tohost # {}
        BY <2>2 DEF Lookup, TestTohost, TakeSegment, EndOfSegments, LoadSegment,
           ClearTail, Start
      <3> QED  BY <3>1, <3>2 DEF Lookup
    <2>3. CASE Open
      <3>1. Scanning' /\ file' = file /\ phase' \in {"symbols", "aborted"}
        BY <2>3 DEF Open, Lookup, Scanning, Tables, IsTable
      <3> QED  BY <3>1 DEF Lookup
    <2>4. CASE UNCHANGED loaderVars
      BY <2>4, ScanKept DEF loaderVars, Lookup, Scanning, Tables, IsTable
    <2> QED  BY <2>1, <2>2, <2>3, <2>4 DEF LoaderNext, Ready
  <1>3. Lookup => TohostIsTheSymbol
    BY DEF Lookup, Chosen, TohostIsTheSymbol, First, Tables, IsTable
  <1> QED  BY <1>1, <1>2, <1>3, PTL DEF LoaderSpec

-----------------------------------------------------------------------------
\* Where a byte is, and what fits, as arithmetic.
LEMMA InsideValue ==
    ASSUME NEW a \in Word, NEW addr \in Word, NEW size \in Word
    PROVE  Inside(a, addr, size) <=> IF Value(a) < Value(addr)
                                     THEN Value(a) - Value(addr) + Size < Value(size)
                                     ELSE Value(a) - Value(addr) < Value(size)
  <1>1. Minus(a, addr) \in Word
    BY DEF Minus, Word
  <1>2. Inside(a, addr, size) <=> Value(Minus(a, addr)) < Value(size)
    BY <1>1, WordArithmetic DEF Inside
  <1> QED  BY <1>2, WordArithmetic

\* What may be copied or cleared lies inside as numbers.
LEMMA FitsValue ==
    ASSUME NEW addr \in Word, NEW size \in Word, Fits(addr, size)
    PROVE  Value(size) = 0 \/ (Value(addr) # 0 /\ Value(addr) + Value(size) <= Size)
  <1> SUFFICES ASSUME size # {}
               PROVE  Value(addr) # 0 /\ Value(addr) + Value(size) <= Size
    BY SmallWords
  <1> DEFINE length == Minus(size, {0})
             last == Plus(addr, length)
  <1>1. length \in Word /\ last \in Word
    BY DEF Minus, Plus, Word
  <1>2. addr \in RamAddrs /\ ~Ltu(last, addr)
    BY DEF Fits
  <1>3. Value(addr) # 0 /\ Value(size) # 0
    BY <1>2, SmallWords, ValueFacts, LoaderAssumption
  <1> HIDE DEF length, last
  <1>4. Value(length) = Value(size) - 1
    <2>1. Value(length) = IF Value(size) < 1 THEN Value(size) - 1 + Size ELSE Value(size) - 1
      BY SmallWords, WordArithmetic DEF length
    <2> QED  BY <2>1, <1>3, ValueFacts
  <1>5. /\ Value(last) = IF Value(addr) + Value(length) < Size THEN Value(addr) + Value(length)
                         ELSE Value(addr) + Value(length) - Size
        /\ ~(Value(last) < Value(addr))
    BY <1>1, <1>2, WordArithmetic DEF last
  <1> QED  BY <1>3, <1>4, <1>5, ValueFacts

\* A segment's bytes and its cleared tail are apart, and together they are the
\* segment; a segment with more bytes than its size has no tail that fits.
LEMMA TailOfSegment ==
    ASSUME NEW addr \in Word, NEW size \in Word, NEW filesz \in Word, Fits(addr, filesz),
           Fits(Plus(addr, filesz), Minus(size, filesz)),
           NEW a \in Word
    PROVE  /\ Inside(a, addr, filesz) => Inside(a, addr, size)
           /\ Inside(a, Plus(addr, filesz), Minus(size, filesz))
                 <=> Inside(a, addr, size) /\ ~Inside(a, addr, filesz)
  <1> DEFINE A == Value(addr)
             Z == Value(size)
             F == Value(filesz)
             V == Value(a)
             tail == Plus(addr, filesz)
             length == Minus(size, filesz)
             T == Value(tail)
             L == Value(length)
             N == Size
             Offset(x) == IF V < x THEN V - x + N ELSE V - x
  <1>1. tail \in Word /\ length \in Word
    BY DEF Plus, Minus, Word
  <1> HIDE DEF tail, length
  <1>2. /\ N \in Nat \ {0} /\ A \in 0 .. N - 1 /\ Z \in 0 .. N - 1 /\ F \in 0 .. N - 1
        /\ V \in 0 .. N - 1 /\ T \in 0 .. N - 1 /\ L \in 0 .. N - 1
    <2>1. \A w : Value(w) \in 0 .. N - 1
      BY ValueFacts
    <2> HIDE DEF N
    <2> QED  BY <2>1, ValueFacts DEF N
  <1>3. /\ T = IF A + F < N THEN A + F ELSE A + F - N
        /\ L = IF Z < F THEN Z - F + N ELSE Z - F
    BY WordArithmetic DEF tail, length
  <1>4. (F = 0 \/ (A # 0 /\ A + F <= N)) /\ (L = 0 \/ (T # 0 /\ T + L <= N))
    BY <1>1, FitsValue DEF tail, length
  <1>5. /\ Inside(a, addr, filesz) <=> Offset(A) < F
        /\ Inside(a, addr, size) <=> Offset(A) < Z
        /\ Inside(a, tail, length) <=> Offset(T) < L
    BY <1>1, InsideValue
  <1> HIDE DEF A, Z, F, V, T, L, N
  <1>6. F <= Z
    BY <1>2, <1>3, <1>4
  <1>7. Offset(A) < F => Offset(A) < Z
    BY <1>2, <1>6
  <1>8. Offset(T) < L <=> Offset(A) < Z /\ ~(Offset(A) < F)
    BY <1>2, <1>3, <1>4, <1>6
  <1> QED  BY <1>5, <1>7, <1>8 DEF tail, length

-----------------------------------------------------------------------------
\* What the first k elements of a sequence of segments make of a byte.
Covers(q, k, a) ==
    {i \in 1 .. k : q[i].type = "LOAD" /\ Inside(a, q[i].addr, q[i].size)}
Latest(c) == CHOOSE i \in c : \A j \in c : j <= i
Brought(s, a) == IF Inside(a, s.addr, s.filesz) THEN s.data[Minus(a, s.addr)] ELSE {}
Held(q, k, a) ==
    IF Covers(q, k, a) # {} THEN Brought(q[Latest(Covers(q, k, a))], a) ELSE {}

\* The last element decides, if it covers the byte.
LEMMA HeldNext ==
    ASSUME NEW q, NEW k \in Nat, NEW a
    PROVE  /\ Held(q, 0, a) = {}
           /\ Held(q, k + 1, a)
                 = IF q[k + 1].type = "LOAD" /\ Inside(a, q[k + 1].addr, q[k + 1].size)
                   THEN Brought(q[k + 1], a)
                   ELSE Held(q, k, a)
  <1> DEFINE here == Covers(q, k + 1, a)
             Covered == q[k + 1].type = "LOAD" /\ Inside(a, q[k + 1].addr, q[k + 1].size)
  <1>1. Covers(q, 0, a) = {}
    BY DEF Covers
  <1>2. CASE Covered
    <2>1. k + 1 \in here /\ \A j \in here : j <= k + 1
      BY <1>2 DEF Covers
    <2>2. \A i \in here : (\A j \in here : j <= i) => i = k + 1
      <3>1. here \subseteq Int
        BY DEF Covers
      <3> HIDE DEF here
      <3> QED  BY <2>1, <3>1
    <2> HIDE DEF here
    <2>3. Latest(here) = k + 1
      BY <2>1, <2>2 DEF Latest
    <2> QED  BY <1>1, <1>2, <2>1, <2>3 DEF Held, here
  <1>3. CASE ~Covered
    <2>1. here = Covers(q, k, a)
      BY <1>3 DEF Covers
    <2> HIDE DEF here
    <2> QED  BY <1>1, <1>3, <2>1 DEF Held, here
  <1> QED  BY <1>2, <1>3

\* Only those elements matter.
LEMMA HeldPrefix ==
    ASSUME NEW q, NEW r, NEW k \in Nat, \A i \in 1 .. k : q[i] = r[i], NEW a
    PROVE  Held(q, k, a) = Held(r, k, a)
  <1>1. Covers(q, k, a) = Covers(r, k, a)
    BY DEF Covers
  <1> DEFINE c == Covers(q, k, a)
             last == Latest(c)
  <1>2. CASE c = {}
    BY <1>1, <1>2 DEF Held
  <1>3. CASE c # {}
    <2>1. \E i \in c : \A j \in c : j <= i
      <3> DEFINE U == {m \in Nat : \E i \in c : m = k - i}
      <3>1. c \subseteq 1 .. k
        BY DEF Covers
      <3> HIDE DEF c
      <3>2. U # {} /\ U \in SUBSET Nat
        <4>1. PICK i \in c : TRUE
          BY <1>3
        <4>2. k - i \in U
          BY <3>1, <4>1
        <4> QED  BY <4>2
      <3>3. PICK m \in U : \A l \in U : m <= l
        <4> HIDE DEF U
        <4> QED  BY <3>2, Least
      <3>4. k - m \in c /\ \A j \in c : k - j \in U
        BY <3>1, <3>3
      <3>5. \A j \in c : j <= k - m
        BY <3>1, <3>3, <3>4
      <3> QED  BY <3>4, <3>5
    <2>2. last \in 1 .. k
      BY <2>1 DEF Covers, Latest
    <2> HIDE DEF last
    <2>3. q[last] = r[last]
      BY <2>2
    <2> QED  BY <1>1, <1>3, <2>3 DEF Held, last
  <1> QED  BY <1>2, <1>3

\* Segments that are not taken make nothing of any byte, and those that are
\* taken keep their order; the bytes of the segments before n are in place,
\* and in between also the bytes that segment n brings itself.
Placed(m, segs, k) == \A a \in RamAddrs : m[a] = Held(segs, k, a)
Taken(segs, f, k) ==
    /\ segs \in Seq(SegmentsOf(f))
    /\ \A i \in DOMAIN segs : segs[i].type = "LOAD"
    /\ \A a \in RamAddrs : Held(segs, Len(segs), a) = Held(f.segments, k, a)
Loading ==
    /\ file \in Files
    /\ phase \in {"open", "symbols", "test"} => segments = <<>>
    /\ phase = "segments" =>
          n \in Nat \ {0} /\ n - 1 <= Len(file.segments) /\ Taken(segments, file, n - 1)
    /\ phase \in {"load", "clear", "run"} => Taken(segments, file, Len(file.segments))
    /\ phase \in {"load", "run"} =>
          n \in Nat \ {0} /\ n - 1 <= Len(segments) /\ Placed(mem, segments, n - 1)
    /\ phase = "run" => n > Len(segments)
    /\ phase = "clear" =>
          /\ n \in 1 .. Len(segments)
          /\ Fits(segments[n].addr, segments[n].filesz)
          /\ \A a \in RamAddrs :
                mem[a] = IF Inside(a, segments[n].addr, segments[n].filesz)
                         THEN segments[n].data[Minus(a, segments[n].addr)]
                         ELSE Held(segments, n - 1, a)

\* Segments in the list are segments of the file, with fields of their types.
LEMMA SegmentTypes ==
    ASSUME file \in Files
    PROVE  /\ Len(file.segments) \in Nat /\ DOMAIN file.segments = 1 .. Len(file.segments)
           /\ \A i \in DOMAIN file.segments : file.segments[i] \in SegmentsOf(file)
           /\ \A s \in SegmentsOf(file) : s.addr \in Word /\ s.size \in Word /\ s.filesz \in Word
  <1>1. file.segments \in Seq(SegmentsOf(file))
    BY LoaderAssumption
  <1>2. \A s \in SegmentsOf(file) : {s.addr, s.size, s.filesz} \subseteq Word
    BY LoaderAssumption
  <1> QED  BY <1>1, <1>2 DEF SegmentsOf

\* A segment is taken, or is not of the kind.
LEMMA TakeStep ==
    ASSUME Loading, TakeSegment
    PROVE  Loading'
  <1> DEFINE s == file.segments[n]
  <1>0. /\ file \in Files /\ file' = file /\ phase = "segments" /\ phase' = phase
        /\ n \in 1 .. Len(file.segments) /\ n' = n + 1 /\ Taken(segments, file, n - 1)
        /\ segments' = IF s.type = "LOAD" THEN Append(segments, s) ELSE segments
    BY SegmentTypes DEF Loading, TakeSegment
  <1>1. s \in SegmentsOf(file) /\ n - 1 \in Nat /\ (n - 1) + 1 = n /\ Len(file.segments) \in Nat
    BY <1>0, SegmentTypes
  <1>2. /\ segments \in Seq(SegmentsOf(file)) /\ Len(segments) \in Nat
        /\ \A i \in DOMAIN segments : segments[i].type = "LOAD"
    BY <1>0 DEF Taken
  <1> HIDE DEF s
  <1>3. ASSUME NEW a
        PROVE  Held(file.segments, n, a) = IF s.type = "LOAD" /\ Inside(a, s.addr, s.size)
                                           THEN Brought(s, a) ELSE Held(file.segments, n - 1, a)
    <2> DEFINE q == file.segments
               k == n - 1
    <2>1. k \in Nat /\ k + 1 = n /\ q[k + 1] = s
      BY <1>1 DEF s
    <2> HIDE DEF q, k
    <2>2. Held(q, k + 1, a) = IF q[k + 1].type = "LOAD" /\ Inside(a, q[k + 1].addr, q[k + 1].size)
                              THEN Brought(q[k + 1], a) ELSE Held(q, k, a)
      BY <2>1, HeldNext
    <2>3. Held(q, n, a) = IF s.type = "LOAD" /\ Inside(a, s.addr, s.size)
                          THEN Brought(s, a) ELSE Held(q, k, a)
      BY <2>1, <2>2
    <2> QED  BY <2>3 DEF q, k
  <1>4. Taken(segments', file, n)
    <2>1. CASE s.type # "LOAD"
      <3>1. UNCHANGED <<file, segments>>
        BY <1>0, <2>1
      <3>2. \A a \in RamAddrs : Held(segments, Len(segments), a) = Held(file.segments, n, a)
        BY <1>0, <1>3, <2>1 DEF Taken
      <3> QED  BY <1>0, <1>2, <3>1, <3>2 DEF Taken
    <2>2. CASE s.type = "LOAD"
      <3> DEFINE t == Append(segments, s)
                 m == Len(segments)
      <3>1. /\ t \in Seq(SegmentsOf(file)) /\ Len(t) = m + 1 /\ t[m + 1] = s
            /\ \A i \in 1 .. m : t[i] = segments[i]
            /\ DOMAIN t = 1 .. m + 1 /\ DOMAIN segments = 1 .. m
        BY <1>1, <1>2
      <3> HIDE DEF t
      <3>2. \A i \in DOMAIN t : t[i].type = "LOAD"
        BY <1>2, <2>2, <3>1
      <3>3. ASSUME NEW a \in RamAddrs PROVE Held(t, Len(t), a) = Held(file.segments, n, a)
        <4>1. Held(t, m, a) = Held(segments, m, a)
          BY <1>2, <3>1, HeldPrefix
        <4>2. Held(segments, m, a) = Held(file.segments, n - 1, a)
          BY <1>0 DEF Taken
        <4>3. Held(t, m + 1, a)
                = IF t[m + 1].type = "LOAD" /\ Inside(a, t[m + 1].addr, t[m + 1].size)
                   THEN Brought(t[m + 1], a)
                   ELSE Held(t, m, a)
          BY <1>2, HeldNext
        <4> QED  BY <1>3, <3>1, <4>1, <4>2, <4>3
      <3>4. segments' = t
        BY <1>0, <2>2 DEF t
      <3> QED  BY <1>0, <3>1, <3>2, <3>3, <3>4 DEF Taken
    <2> QED  BY <2>1, <2>2
  <1>5. n' \in Nat \ {0} /\ n' - 1 = n /\ n' - 1 <= Len(file'.segments)
    BY <1>0, <1>1
  <1> QED  BY <1>0, <1>4, <1>5 DEF Loading

\* A segment's bytes are copied.
LEMMA LoadStep ==
    ASSUME Loading, LoadSegment
    PROVE  Loading'
  <1> DEFINE s == segments[n]
  <1>0. /\ file \in Files /\ phase = "load" /\ UNCHANGED <<file, n, segments>>
        /\ n \in Nat \ {0} /\ n <= Len(segments)
        /\ Taken(segments, file, Len(file.segments)) /\ Placed(mem, segments, n - 1)
    BY DEF Loading, LoadSegment
  <1>2. CASE Fits(s.addr, s.filesz)
    <2>1. phase' = "clear" /\ mem' = Load(mem, s.addr, s.data, s.filesz)
      BY <1>2 DEF LoadSegment
    <2>2. \A a \in RamAddrs : mem'[a] = IF Inside(a, s.addr, s.filesz) THEN s.data[Minus(a, s.addr)]
                                        ELSE Held(segments, n - 1, a)
      BY <2>1, <1>0 DEF Load, Placed
    <2>3. n \in 1 .. Len(segments)
      BY <1>0 DEF Taken
    <2> QED  BY <1>0, <1>2, <2>1, <2>2, <2>3 DEF Loading
  <1>3. CASE ~Fits(s.addr, s.filesz)
    <2>1. phase' = "undefined"
      BY <1>3 DEF LoadSegment
    <2> QED  BY <1>0, <2>1 DEF Loading
  <1> QED  BY <1>2, <1>3

\* The rest of the segment is cleared.
LEMMA ClearStep ==
    ASSUME Loading, ClearTail
    PROVE  Loading'
  <1> DEFINE s == segments[n]
             tail == Plus(s.addr, s.filesz)
             length == Minus(s.size, s.filesz)
  <1>0. /\ file \in Files /\ phase = "clear" /\ UNCHANGED <<file, segments>>
        /\ n \in 1 .. Len(segments) /\ Taken(segments, file, Len(file.segments))
        /\ Fits(s.addr, s.filesz)
        /\ \A a \in RamAddrs : mem[a] = IF Inside(a, s.addr, s.filesz)
                                        THEN s.data[Minus(a, s.addr)]
                                        ELSE Held(segments, n - 1, a)
    BY DEF Loading, ClearTail
  <1>2. /\ s \in SegmentsOf(file) /\ s.type = "LOAD"
        /\ n - 1 \in Nat /\ (n - 1) + 1 = n /\ Len(segments) \in Nat
    BY <1>0 DEF Taken
  <1>3. s.addr \in Word /\ s.size \in Word /\ s.filesz \in Word
    BY <1>0, <1>2, SegmentTypes
  <1> HIDE DEF s
  <1>4. CASE Fits(tail, length)
    <2>1. phase' = "load" /\ n' = n + 1 /\ mem' = Clear(mem, tail, length)
      BY <1>4 DEF ClearTail, s
    <2>2. ASSUME NEW a \in RamAddrs PROVE mem'[a] = Held(segments, n, a)
      <3>1. a \in Word
        BY RamAssumption
      <3>2. /\ Inside(a, s.addr, s.filesz) => Inside(a, s.addr, s.size)
            /\ Inside(a, tail, length) <=> Inside(a, s.addr, s.size) /\ ~Inside(a, s.addr, s.filesz)
        BY <1>0, <1>3, <1>4, <3>1, TailOfSegment
      <3>3. Held(segments, (n - 1) + 1, a)
               = IF Inside(a, s.addr, s.size)
                 THEN Brought(s, a) ELSE Held(segments, n - 1, a)
        BY <1>2, HeldNext DEF s
      <3>4. mem'[a] = IF Inside(a, tail, length) THEN {} ELSE mem[a]
        BY <2>1 DEF Clear
      <3> HIDE DEF tail, length
      <3> QED  BY <1>0, <1>2, <3>2, <3>3, <3>4 DEF Brought
    <2>3. n' \in Nat \ {0} /\ n' - 1 = n /\ n' - 1 <= Len(segments)
      BY <1>0, <1>2, <2>1
    <2>4. Placed(mem', segments, n)
      BY <1>0, <2>2 DEF Placed
    <2> QED  BY <1>0, <2>1, <2>3, <2>4 DEF Loading
  <1>5. CASE ~Fits(tail, length)
    <2>1. phase' = "undefined"
      BY <1>5 DEF ClearTail, s
    <2> QED  BY <1>0, <2>1 DEF Loading
  <1> QED  BY <1>4, <1>5

\* All of it holds in every state.
LEMMA LoadingInvariant == LoaderSpec => []Loading
  <1>1. LoaderInit => Loading
    BY DEF LoaderInit, Loading
  <1>2. Loading /\ [LoaderNext]_loaderVars => Loading'
    <2> SUFFICES ASSUME Loading, [LoaderNext]_loaderVars PROVE Loading'
      OBVIOUS
    <2>1. CASE Open \/ SkipSection \/ FindTohost \/ EndOfSections
      BY <2>1 DEF Loading, Open, SkipSection, FindTohost, EndOfSections
    <2>2. CASE TestTohost
      <3>1. /\ file \in Files /\ UNCHANGED <<file, segments>> /\ n' = 1 /\ segments = <<>>
            /\ phase' \in {"aborted", "segments"}
        BY <2>2 DEF Loading, TestTohost
      <3>2. \A a : Held(<<>>, 0, a) = {} /\ Held(file.segments, 0, a) = {}
        BY HeldNext
      <3>3. Taken(<<>>, file, 0)
        <4>1. Len(<<>>) = 0 /\ <<>> \in Seq(SegmentsOf(file)) /\ DOMAIN <<>> = {}
          OBVIOUS
        <4> QED  BY <4>1, <3>2 DEF Taken
      <3>4. Len(file.segments) \in Nat
        BY <3>1, SegmentTypes
      <3> QED  BY <3>1, <3>3, <3>4 DEF Loading
    <2>3. CASE TakeSegment
      BY <2>3, TakeStep
    <2>4. CASE EndOfSegments
      <3>1. /\ file \in Files /\ UNCHANGED <<file, segments>> /\ phase' = "load" /\ n' = 1
            /\ mem' = Blank /\ n \in Nat /\ n - 1 <= Len(file.segments)
            /\ n > Len(file.segments) /\ Taken(segments, file, n - 1)
        BY <2>4 DEF Loading, EndOfSegments
      <3>2. n - 1 = Len(file.segments)
        BY <3>1, SegmentTypes
      <3>3. Taken(segments, file, Len(file.segments))
        BY <3>1, <3>2
      <3>4. Placed(mem', segments, 0)
        BY <3>1, HeldNext DEF Placed, Blank
      <3>5. Len(segments) \in Nat
        BY <3>1 DEF Taken
      <3> QED  BY <3>1, <3>3, <3>4, <3>5 DEF Loading
    <2>5. CASE LoadSegment
      BY <2>5, LoadStep
    <2>6. CASE ClearTail
      BY <2>6, ClearStep
    <2>7. CASE Start
      BY <2>7 DEF Loading, Start, Taken, Placed
    <2>8. CASE UNCHANGED loaderVars
      BY <2>8 DEF loaderVars, Loading, Taken, Placed
    <2> QED  BY <2>1, <2>2, <2>3, <2>4, <2>5, <2>6, <2>7, <2>8 DEF LoaderNext, Ready
  <1> QED  BY <1>1, <1>2, PTL DEF LoaderSpec

\* Once the program starts, what has been taken is all of the file.
LEMMA LoadedByLoading == Loading => LoadedAsLinked
  <1> SUFFICES ASSUME Loading, phase = "run", NEW a \in RamAddrs
               PROVE  mem[a] = Held(file.segments, Len(file.segments), a)
    <2>1. file \in Files => DOMAIN file.segments = 1 .. Len(file.segments)
      BY SegmentTypes
    <2> QED  BY <2>1 DEF Loading, LoadedAsLinked, LinkedByte, Held, Covers, Latest, Brought
  <1>1. /\ n \in Nat /\ n - 1 <= Len(segments) /\ n > Len(segments)
        /\ Placed(mem, segments, n - 1) /\ Taken(segments, file, Len(file.segments))
    BY DEF Loading
  <1>2. Len(segments) \in Nat
    BY <1>1 DEF Taken
  <1>3. n - 1 = Len(segments)
    BY <1>1, <1>2
  <1> QED  BY <1>1, <1>3 DEF Placed, Taken

\* Whatever segments a file has, wherever they lie and however they overlap,
\* memory is as the program headers say when the program starts: ElfLoader::load
\* with the copying and clearing of main, whose address arithmetic wraps.
THEOREM MemoryIsLoaded == LoaderSpec => []LoadedAsLinked
  BY LoadingInvariant, LoadedByLoading, PTL

-----------------------------------------------------------------------------
(***************************************************************************)
(* Decoding.  A word is the union of the slices its fields are read from.  *)
(* Every field, and every immediate, goes back to its slice; a row of the  *)
(* opcode map whose type decode gave has the fields decode looked at.  So  *)
(* the word comes together again, but for the slices nothing looked at.    *)
(***************************************************************************)

\* Bits a to b of a word.
Slice(w, a, b) == w \cap (a .. b)

\* What is read as a number goes back to its place.
LEMMA FieldBack ==
    ASSUME NEW w, NEW from \in Nat, NEW k \in 1 .. 12
    PROVE  /\ At(FieldNumber(w, from, k), from) = Slice(w, from, from + k - 1)
           /\ FieldNumber(w, from, k) \in 0 .. Power[k] - 1
  <1> DEFINE f == Field(w, from, k)
             v == LowValue(f)[k]
  <1>1. v \in Nat /\ v < Power[k] /\ Power[k] \in Nat
    BY LowValueFacts, PowerFacts
  <1>2. LowValue(f)[12] = v
    <2>1. \A i \in k .. 12 - 1 : i \notin f
      BY DEF Field, Low
    <2>2. k \in Nat /\ 12 \in Nat /\ k <= 12
      OBVIOUS
    <2> HIDE DEF f
    <2> QED  BY <2>1, <2>2, ZerosAbove
  <1>3. \A j \in 0 .. 11 : (v \div Power[j]) % 2 = 1 <=> j \in f
    <2> HIDE DEF f
    <2> QED  BY <1>2, BitOfValue
  <1>4. \A j \in 0 .. 11 : Weight[j + 1] = Power[j]
    <2>1. \A j \in Nat : Power[j + 1] = 2 * Power[j]
      BY PowerFacts
    <2>2. Power[0] = 1
      BY PowerFacts
    <2> QED  BY <2>1, <2>2 DEF Weight
  <1>5. At(v, from) = {i + from : i \in f}
    <2>1. {j \in 0 .. 11 : (v \div Weight[j + 1]) % 2 = 1} = f
      <3>1. f \subseteq 0 .. 11
        BY DEF Field, Low
      <3> HIDE DEF v, f
      <3> QED  BY <1>3, <1>4, <3>1
    <2> HIDE DEF v, f
    <2> QED  BY <2>1 DEF At
  <1>6. {i + from : i \in f} = Slice(w, from, from + k - 1)
    <2>1. ASSUME NEW p \in Slice(w, from, from + k - 1) PROVE \E i \in f : p = i + from
      <3>1. p - from \in f /\ p = (p - from) + from
        BY DEF Field, Low, Slice
      <3> QED  BY <3>1
    <2>2. ASSUME NEW i \in f PROVE i + from \in Slice(w, from, from + k - 1)
      BY DEF Field, Low, Slice
    <2> HIDE DEF f
    <2>3. {i + from : i \in f} \subseteq Slice(w, from, from + k - 1)
      BY <2>2
    <2>4. Slice(w, from, from + k - 1) \subseteq {i + from : i \in f}
      BY <2>1
    <2> QED  BY <2>3, <2>4
  <1> QED  BY <1>1, <1>5, <1>6 DEF FieldNumber, Amount

\* The number fields of a word.
LEMMA FieldsAre ==
    ASSUME NEW w
    PROVE  /\ At(get_opcode(w), 0) = Slice(w, 0, 6) /\ get_opcode(w) \in 0 .. 127
           /\ At(get_rd(w), 7) = Slice(w, 7, 11)
           /\ At(get_funct3(w), 12) = Slice(w, 12, 14) /\ get_funct3(w) \in 0 .. 7
           /\ At(get_rs1(w), 15) = Slice(w, 15, 19)
           /\ At(get_rs2(w), 20) = Slice(w, 20, 24) /\ get_rs2(w) \in 0 .. 31
           /\ At(get_zicsr_csr(w), 20) = Slice(w, 20, 31)
           /\ At(get_fmt(w), 25) = Slice(w, 25, 26)
           /\ At(get_funct7(w), 25) = Slice(w, 25, 31) /\ get_funct7(w) \in 0 .. 127
           /\ At(get_rs3(w), 27) = Slice(w, 27, 31)
  <1>1. /\ 0 \in Nat /\ 7 \in Nat /\ 12 \in Nat /\ 15 \in Nat /\ 20 \in Nat
        /\ 25 \in Nat /\ 27 \in Nat
        /\ 7 \in 1 .. 12 /\ 5 \in 1 .. 12 /\ 3 \in 1 .. 12 /\ 12 \in 1 .. 12 /\ 2 \in 1 .. 12
        /\ 0 + 7 - 1 = 6 /\ 7 + 5 - 1 = 11 /\ 12 + 3 - 1 = 14 /\ 15 + 5 - 1 = 19
        /\ 20 + 5 - 1 = 24 /\ 20 + 12 - 1 = 31 /\ 25 + 2 - 1 = 26 /\ 25 + 7 - 1 = 31
        /\ 27 + 5 - 1 = 31
    OBVIOUS
  <1>2. Power[3] - 1 = 7 /\ Power[5] - 1 = 31 /\ Power[7] - 1 = 127
    <2>1. Power[0] = 1 /\ \A j \in Nat : Power[j + 1] = 2 * Power[j]
      BY PowerFacts
    <2>2. Power[1] = 2
      BY <2>1
    <2>3. Power[2] = 4
      BY <2>1, <2>2
    <2>4. Power[3] = 8
      BY <2>1, <2>3
    <2>5. Power[4] = 16
      BY <2>1, <2>4
    <2>6. Power[5] = 32
      BY <2>1, <2>5
    <2>7. Power[6] = 64
      BY <2>1, <2>6
    <2>8. Power[7] = 128
      BY <2>1, <2>7
    <2> QED  BY <2>4, <2>6, <2>8
  <1>3. At(get_opcode(w), 0) = Slice(w, 0, 6) /\ get_opcode(w) \in 0 .. 127
    BY <1>1, <1>2, FieldBack DEF get_opcode
  <1>4. At(get_rd(w), 7) = Slice(w, 7, 11)
    BY <1>1, FieldBack DEF get_rd
  <1>5. At(get_funct3(w), 12) = Slice(w, 12, 14) /\ get_funct3(w) \in 0 .. 7
    BY <1>1, <1>2, FieldBack DEF get_funct3
  <1>6. At(get_rs1(w), 15) = Slice(w, 15, 19)
    BY <1>1, FieldBack DEF get_rs1
  <1>7. At(get_rs2(w), 20) = Slice(w, 20, 24) /\ get_rs2(w) \in 0 .. 31
    BY <1>1, <1>2, FieldBack DEF get_rs2
  <1>8. At(get_zicsr_csr(w), 20) = Slice(w, 20, 31)
    BY <1>1, FieldBack DEF get_zicsr_csr
  <1>9. At(get_fmt(w), 25) = Slice(w, 25, 26)
    BY <1>1, FieldBack DEF get_fmt
  <1>10. At(get_funct7(w), 25) = Slice(w, 25, 31) /\ get_funct7(w) \in 0 .. 127
    BY <1>1, <1>2, FieldBack DEF get_funct7
  <1>11. At(get_rs3(w), 27) = Slice(w, 27, 31)
    BY <1>1, FieldBack DEF get_rs3
  <1> QED  BY <1>3, <1>4, <1>5, <1>6, <1>7, <1>8, <1>9, <1>10, <1>11

\* The row of an instruction is one of its opcode's.
LEMMA RowOfKey ==
    ASSUME NEW op, NEW type, <<op, type>> \in Keys
    PROVE  OpcodeMap[<<op, type>>] \in Rows[op] /\ OpcodeMap[<<op, type>>].type = type
  <1>1. PICK o \in DOMAIN Rows : \E row \in Rows[o] : <<op, type>> = <<o, row.type>>
    BY Zenon DEF Keys
  <1>2. \E row \in Rows[op] : row.type = type
    BY <1>1
  <1>3. OpcodeMap[<<op, type>>] = CHOOSE row \in Rows[op] : row.type = type
    BY DEF OpcodeMap
  <1> QED  BY <1>2, <1>3, Zenon

\* A row that has, of the fields it has, those of the word.
HasFields(w, row) ==
    /\ row.opcode = get_opcode(w)
    /\ row.funct3 \in {None, get_funct3(w)}
    /\ row.funct7 \in {None, get_funct7(w)}
    /\ row.rs2 \in {None, get_rs2(w)}

\* The bits that tell an instruction, of a word that has the fields of its row.
LEMMA FixedAre ==
    ASSUME NEW w, NEW key, HasFields(w, OpcodeMap[key])
    PROVE  LET row == OpcodeMap[key]
           IN  FixedBits(key) = Slice(w, 0, 6)
                    \cup OrNothing(row.funct3 # None, Slice(w, 12, 14))
                    \cup OrNothing(row.funct7 # None, Slice(w, 25, 31))
                    \cup OrNothing(row.rs2 # None, Slice(w, 20, 24))
  <1> DEFINE row == OpcodeMap[key]
  <1>1. /\ At(row.opcode, 0) = Slice(w, 0, 6)
        /\ row.funct3 # None => At(row.funct3, 12) = Slice(w, 12, 14)
        /\ row.funct7 # None => At(row.funct7, 25) = Slice(w, 25, 31)
        /\ row.rs2 # None => At(row.rs2, 20) = Slice(w, 20, 24)
    BY FieldsAre DEF HasFields
  <1> QED  BY <1>1 DEF FixedBits, OrNothing

\* The bits of an immediate in the word.
Laid(format, imm) == {p \in DOMAIN Figure[format] : Figure[format][p] \in imm}

\* The immediate that decode puts together has each of its bits where the
\* manual's figure has it.
LEMMA ImmediatesAre ==
    ASSUME NEW w \in SUBSET (0 .. 31)
    PROVE  /\ Laid("U", get_u_type_imm(w)) = Slice(w, 12, 31)
           /\ Laid("I", get_i_type_imm(w)) = Slice(w, 20, 31)
           /\ Laid("S", get_s_type_imm(w)) = Slice(w, 7, 11) \cup Slice(w, 25, 31)
           /\ Laid("B", get_b_type_imm(w)) = Slice(w, 7, 11) \cup Slice(w, 25, 31)
           /\ Laid("J", get_j_type_imm(w)) = Slice(w, 12, 31)
           /\ Laid("Shift64", get_shamt(w)) = Slice(w, 20, 25)
           /\ Laid("Shift32", get_shamt(w)) = Slice(w, 20, 24)
  <1>1. ASSUME NEW imm, NEW k \in Nat, NEW i \in 0 .. k - 1
        PROVE  i \in Sext(imm, k) <=> i \in imm
    BY DEF Sext, Low
  <1>2. ASSUME NEW from, NEW width, NEW to, NEW i
        PROVE  i \in Moved(w, from, width, to) <=>
                   \E j \in 0 .. width - 1 : j + from \in w /\ i = j + to
    BY DEF Moved, Field, Low
  <1>3. ASSUME NEW from \in Int, NEW width \in Int, NEW to \in Int, NEW i \in Int
        PROVE  i \in Moved(w, from, width, to)
                    <=> i - to \in 0 .. width - 1 /\ (i - to) + from \in w
    <2>1. ASSUME i \in Moved(w, from, width, to)
          PROVE  i - to \in 0 .. width - 1 /\ (i - to) + from \in w
      <3>1. PICK j \in 0 .. width - 1 : j + from \in w /\ i = j + to
        BY <1>2, <2>1
      <3>2. i - to = j
        BY <3>1
      <3> QED  BY <3>1, <3>2
    <2>2. ASSUME i - to \in 0 .. width - 1, (i - to) + from \in w
          PROVE  i \in Moved(w, from, width, to)
      <3>1. i = (i - to) + to
        OBVIOUS
      <3> QED  BY <1>2, <2>2, <3>1
    <2> QED  BY <2>1, <2>2
  <1>4. /\ 0 \in Int /\ 1 \in Int /\ 4 \in Int /\ 5 \in Int /\ 6 \in Int /\ 7 \in Int /\ 8 \in Int
         /\ 10 \in Int /\ 11 \in Int /\ 12 \in Int /\ 20 \in Int /\ 21 \in Int /\ 25 \in Int
         /\ 31 \in Int
    OBVIOUS
  <1>5. Laid("U", get_u_type_imm(w)) = Slice(w, 12, 31)
    BY <1>1 DEF Laid, Figure, get_u_type_imm, Slice
  <1>6. Laid("I", get_i_type_imm(w)) = Slice(w, 20, 31)
    <2>1. \A p \in 20 .. 31 : p - 20 \in get_i_type_imm(w) <=> p \in w
      BY <1>1 DEF get_i_type_imm, Field, Low
    <2> QED  BY <2>1 DEF Laid, Figure, Slice
  <1>7. Laid("S", get_s_type_imm(w)) = Slice(w, 7, 11) \cup Slice(w, 25, 31)
    <2>1. \A i \in Int : i \in Moved(w, 25, 7, 5) <=> i - 5 \in 0 .. 7 - 1 /\ (i - 5) + 25 \in w
      BY <1>3, <1>4, Zenon
    <2>2. \A i \in Int : i \in Moved(w, 7, 5, 0) <=> i - 0 \in 0 .. 5 - 1 /\ (i - 0) + 7 \in w
      BY <1>3, <1>4, Zenon
    <2>3. \A i \in 0 .. 12 - 1 : i \in get_s_type_imm(w) <=>
              \/ i \in Moved(w, 25, 7, 5)
              \/ i \in Moved(w, 7, 5, 0)
      BY <1>1 DEF get_s_type_imm
    <2>4. /\ \A p \in 25 .. 31 : p - 20 \in get_s_type_imm(w) <=> p \in w
          /\ \A p \in 7 .. 11 : p - 7 \in get_s_type_imm(w) <=> p \in w
      BY <2>1, <2>2, <2>3
    <2> QED  BY <2>4 DEF Laid, Figure, Slice
  <1>8. Laid("B", get_b_type_imm(w)) = Slice(w, 7, 11) \cup Slice(w, 25, 31)
    <2>1. \A i \in Int : i \in Moved(w, 31, 1, 12) <=> i - 12 \in 0 .. 1 - 1 /\ (i - 12) + 31 \in w
      BY <1>3, <1>4, Zenon
    <2>2. \A i \in Int : i \in Moved(w, 25, 6, 5) <=> i - 5 \in 0 .. 6 - 1 /\ (i - 5) + 25 \in w
      BY <1>3, <1>4, Zenon
    <2>3. \A i \in Int : i \in Moved(w, 8, 4, 1) <=> i - 1 \in 0 .. 4 - 1 /\ (i - 1) + 8 \in w
      BY <1>3, <1>4, Zenon
    <2>4. \A i \in Int : i \in Moved(w, 7, 1, 11) <=> i - 11 \in 0 .. 1 - 1 /\ (i - 11) + 7 \in w
      BY <1>3, <1>4, Zenon
    <2>5. \A i \in 0 .. 13 - 1 : i \in get_b_type_imm(w) <=>
              \/ i \in Moved(w, 31, 1, 12)
              \/ i \in Moved(w, 25, 6, 5)
              \/ i \in Moved(w, 8, 4, 1)
              \/ i \in Moved(w, 7, 1, 11)
      BY <1>1 DEF get_b_type_imm
    <2>6. /\ \A p \in 25 .. 30 : p - 20 \in get_b_type_imm(w) <=> p \in w
          /\ \A p \in 8 .. 11 : p - 7 \in get_b_type_imm(w) <=> p \in w
          /\ 11 \in get_b_type_imm(w) <=> 7 \in w
          /\ 12 \in get_b_type_imm(w) <=> 31 \in w
      BY <2>1, <2>2, <2>3, <2>4, <2>5
    <2> QED  BY <2>6 DEF Laid, Figure, Slice
  <1>9. Laid("J", get_j_type_imm(w)) = Slice(w, 12, 31)
    <2>1. \A i \in Int : i \in Moved(w, 31, 1, 20) <=> i - 20 \in 0 .. 1 - 1 /\ (i - 20) + 31 \in w
      BY <1>3, <1>4, Zenon
    <2>2. \A i \in Int : i \in Moved(w, 21, 10, 1) <=> i - 1 \in 0 .. 10 - 1 /\ (i - 1) + 21 \in w
      BY <1>3, <1>4, Zenon
    <2>3. \A i \in Int : i \in Moved(w, 20, 1, 11) <=> i - 11 \in 0 .. 1 - 1 /\ (i - 11) + 20 \in w
      BY <1>3, <1>4, Zenon
    <2>4. \A i \in Int : i \in Moved(w, 12, 8, 12) <=> i - 12 \in 0 .. 8 - 1 /\ (i - 12) + 12 \in w
      BY <1>3, <1>4, Zenon
    <2>5. \A i \in 0 .. 21 - 1 : i \in get_j_type_imm(w) <=>
              \/ i \in Moved(w, 31, 1, 20)
              \/ i \in Moved(w, 21, 10, 1)
              \/ i \in Moved(w, 20, 1, 11)
              \/ i \in Moved(w, 12, 8, 12)
      BY <1>1 DEF get_j_type_imm
    <2>6. /\ \A p \in 12 .. 19 : p \in get_j_type_imm(w) <=> p \in w
          /\ \A p \in 21 .. 30 : p - 20 \in get_j_type_imm(w) <=> p \in w
          /\ 11 \in get_j_type_imm(w) <=> 20 \in w
          /\ 20 \in get_j_type_imm(w) <=> 31 \in w
      BY <2>1, <2>2, <2>3, <2>4, <2>5
    <2> QED  BY <2>6 DEF Laid, Figure, Slice
  <1>10. \A p \in 20 .. 25 : p - 20 \in get_shamt(w) <=> p \in w
    BY DEF get_shamt, Field, Low
  <1>11. Laid("Shift64", get_shamt(w)) = Slice(w, 20, 25)
    BY <1>10 DEF Laid, Figure, Slice
  <1>12. Laid("Shift32", get_shamt(w)) = Slice(w, 20, 24)
    BY <1>10 DEF Laid, Figure, Slice
  <1> QED  BY <1>5, <1>6, <1>7, <1>8, <1>9, <1>11, <1>12

\* Nothing is lost of a word that was decoded to d.
Lossless(w, d) == Accepted(d) => Xor(w, Encode(d)) \subseteq Unchecked(d)

\* The slices of a word are the word.
LEMMA Slices ==
    ASSUME NEW w \in SUBSET (0 .. 31)
    PROVE  /\ w = Slice(w, 0, 6) \cup Slice(w, 7, 11) \cup Slice(w, 12, 14) \cup Slice(w, 15, 19)
                    \cup Slice(w, 20, 24) \cup Slice(w, 25, 31)
           /\ Slice(w, 12, 31) = Slice(w, 12, 14) \cup Slice(w, 15, 19) \cup Slice(w, 20, 24)
                    \cup Slice(w, 25, 31)
           /\ Slice(w, 20, 31) = Slice(w, 20, 24) \cup Slice(w, 25, 31)
  <1>1. 0 .. 31 = (0 .. 6) \cup (7 .. 11) \cup (12 .. 14)
                  \cup (15 .. 19) \cup (20 .. 24) \cup (25 .. 31)
    OBVIOUS
  <1>2. 12 .. 31 = (12 .. 14) \cup (15 .. 19) \cup (20 .. 24) \cup (25 .. 31)
    OBVIOUS
  <1>3. 20 .. 31 = (20 .. 24) \cup (25 .. 31)
    OBVIOUS
  <1> QED  BY <1>1, <1>2, <1>3, Zenon DEF Slice

\* The bits of a word that a row has.
Told(w, row) ==
    Slice(w, 0, 6) \cup OrNothing(row.funct3 # None, Slice(w, 12, 14))
        \cup OrNothing(row.funct7 # None, Slice(w, 25, 31))
        \cup OrNothing(row.rs2 # None, Slice(w, 20, 24))

\* Every row of an instruction has fields of the word, and these bits of it.
RowsTell(w, op, type, bits) ==
    \A row \in Rows[op] : row.type = type => HasFields(w, row) /\ Told(w, row) = bits

\* Of the instructions only those of SYSTEM trap.
LEMMA NotTrap == ASSUME NEW op, NEW type, op # "System" PROVE ~IsTrap(<<op, type>>)
  BY DEF IsTrap

\* A word whose fields are those of every row of its instruction has the bits
\* that tell the instruction.
LEMMA FixedOf ==
    ASSUME NEW w, NEW d, NEW op, NEW type, Accepted(d), Key(d) = <<op, type>>, NEW bits,
           RowsTell(w, op, type, bits)
    PROVE  FixedBits(Key(d)) = bits
  <1> DEFINE row == OpcodeMap[Key(d)]
  <1>1. row \in Rows[op] /\ row.type = type
    <2>1. <<op, type>> \in Keys
      BY DEF Accepted
    <2> QED  BY <2>1, RowOfKey
  <1>2. HasFields(w, row) /\ Told(w, row) = bits
    <2> HIDE DEF row
    <2> QED  BY <1>1 DEF RowsTell
  <1>3. FixedBits(Key(d)) = Told(w, row)
    BY <1>2, FixedAre, Zenon DEF Told
  <1> QED  BY <1>2, <1>3

\* What an ordinary instruction is encoded to.
LEMMA EncodeIs ==
    ASSUME NEW d, ~IsTrap(Key(d)), d.op \notin {"FmaFp", "System"}
    PROVE  Encode(d) = FixedBits(Key(d)) \cup OrNothing(Has(d, "imm"), Laid(FormatOf(d), d.imm))
                          \cup OrNothing(Has(d, "rd"), At(d.rd, 7))
                          \cup OrNothing(Has(d, "rs1"), At(d.rs1, 15))
                          \cup OrNothing(Has(d, "rs2"), At(d.rs2, 20))
                          \cup OrNothing(Has(d, "fs2"), At(d.fs2, 20))
                          \cup OrNothing(Has(d, "rm"), Shifted(d.rm, 12))
  <1>1. d.op # "FmaFp" /\ d.op # "System"
    OBVIOUS
  <1> QED  BY <1>1 DEF Encode, OrNothing, Laid

\* LUI, AUIPC and JAL.
LEMMA WithRdLossless ==
    ASSUME NEW w \in SUBSET (0 .. 31), NEW op, NEW imm, NEW format,
           Rows[op] = Alone(get_opcode(w), None), op \notin {"FmaFp", "System"},
           FormatOf(WithRd(op, w, imm)) = format, Laid(format, imm) = Slice(w, 12, 31)
    PROVE  Lossless(w, WithRd(op, w, imm))
  <1> DEFINE d == WithRd(op, w, imm)
  <1> SUFFICES ASSUME Accepted(d) PROVE Xor(w, Encode(d)) \subseteq Unchecked(d)
    BY DEF Lossless
  <1>1. Key(d) = <<op, "">> /\ FormatOf(d) = format
    BY DEF Key, WithRd
  <1>2. RowsTell(w, op, "", Slice(w, 0, 6))
    <2> SUFFICES ASSUME NEW row \in Rows[op]
             PROVE HasFields(w, row) /\ Told(w, row) = Slice(w, 0, 6)
      BY DEF RowsTell
    <2>1. row = One("", get_opcode(w), None, None, None)
      BY DEF Alone
    <2> QED  BY <2>1 DEF One, HasFields, None, Told, OrNothing
  <1>3. FixedBits(Key(d)) = Slice(w, 0, 6)
    <2> HIDE DEF d
    <2> QED  BY <1>1, <1>2, FixedOf
  <1>4. Encode(d) = FixedBits(Key(d)) \cup Laid(format, imm) \cup At(get_rd(w), 7)
    <2>1. DOMAIN d = {"op", "imm", "rd"} /\ d.op = op /\ d.imm = imm /\ d.rd = get_rd(w)
      BY DEF WithRd
    <2> HIDE DEF d
    <2>2. ~IsTrap(Key(d))
      BY <1>1, NotTrap
    <2>3. /\ Has(d, "imm") /\ Has(d, "rd") /\ ~Has(d, "rs1")
          /\ ~Has(d, "rs2") /\ ~Has(d, "fs2") /\ ~Has(d, "rm")
      BY <2>1 DEF Has
    <2> QED  BY <1>1, <2>1, <2>2, <2>3, EncodeIs DEF OrNothing
  <1>5. Encode(d) = w
    <2> HIDE DEF d
    <2>1. Encode(d) = Slice(w, 0, 6) \cup Slice(w, 12, 31) \cup Slice(w, 7, 11)
      BY <1>3, <1>4, FieldsAre, Zenon
    <2> QED  BY <2>1, Slices
  <1> QED  BY <1>5 DEF Xor

\* The funct3 of the instructions that decode tells by their opcodes alone.
LEMMA SmallFunct3 ==
    ASSUME NEW funct3, funct3 = 0 \/ funct3 = 2
    PROVE  funct3 # None /\ At(funct3, 12) \subseteq 12 .. 14
  <1>1. /\ Weight[4] = 8 /\ Weight[5] = 16 /\ Weight[6] = 32 /\ Weight[7] = 64 /\ Weight[8] = 128
        /\ Weight[9] = 256 /\ Weight[10] = 512 /\ Weight[11] = 1024 /\ Weight[12] = 2048
    BY DEF Weight
  <1>2. ASSUME NEW j \in 3 .. 11 PROVE funct3 \div Weight[j + 1] = 0
    <2>1. PICK m \in 8 .. 2048 : Weight[j + 1] = m
      <3>1. j + 1 \in {4, 5, 6, 7, 8, 9, 10, 11, 12}
        OBVIOUS
      <3> QED  BY <1>1, <3>1
    <2>2. 0 \div m = 0 /\ 2 \div m = 0
      OBVIOUS
    <2> QED  BY <2>1, <2>2
  <1>3. \A j \in 0 .. 11 : (funct3 \div Weight[j + 1]) % 2 = 1 => j \in 0 .. 2
    BY <1>2
  <1>4. funct3 # None
    BY DEF None
  <1> QED  BY <1>3, <1>4 DEF At

\* An instruction that decode tells by its opcode alone.
LEMMA FixedOfAlone ==
    ASSUME NEW w, NEW d, NEW op, Accepted(d), Key(d) = <<op, "">>,
           NEW funct3, funct3 = 0 \/ funct3 = 2, Rows[op] = Alone(get_opcode(w), funct3)
    PROVE  \E rest \in SUBSET (12 .. 14) : FixedBits(Key(d)) = Slice(w, 0, 6) \cup rest
  <1> DEFINE row == OpcodeMap[Key(d)]
  <1>1. row \in Rows[op]
    <2>1. <<op, "">> \in Keys
      BY DEF Accepted
    <2> QED  BY <2>1, RowOfKey
  <1>2. row = One("", get_opcode(w), funct3, None, None)
    <2> HIDE DEF row
    <2> QED  BY <1>1 DEF Alone
  <1>3. FixedBits(Key(d)) = Slice(w, 0, 6) \cup At(funct3, 12)
    <2> HIDE DEF row
    <2>1. row.opcode = get_opcode(w) /\ row.funct3 = funct3 /\ row.funct7 = None /\ row.rs2 = None
      BY <1>2 DEF One
    <2>2. At(row.opcode, 0) = Slice(w, 0, 6)
      BY <2>1, FieldsAre, Zenon
    <2>3. funct3 # None
      BY SmallFunct3
    <2> QED  BY <2>1, <2>2, <2>3 DEF FixedBits, OrNothing, row
  <1>4. At(funct3, 12) \subseteq 12 .. 14
    BY SmallFunct3
  <1> QED  BY <1>3, <1>4

\* What it is encoded to.
LEMMA WithRs1Encoded ==
    ASSUME NEW w \in SUBSET (0 .. 31), NEW op, op \notin {"FmaFp", "System"},
           FormatOf(WithRs1(op, w)) = "I"
    PROVE  Encode(WithRs1(op, w))
              = FixedBits(<<op, "">>) \cup Slice(w, 20, 31) \cup Slice(w, 7, 11)
                    \cup Slice(w, 15, 19)
  <1> DEFINE d == WithRs1(op, w)
  <1>1. Key(d) = <<op, "">> /\ FormatOf(d) = "I"
    BY DEF Key, WithRs1
  <1>2. /\ DOMAIN d = {"op", "imm", "rs1", "rd"} /\ d.op = op /\ d.imm = get_i_type_imm(w)
        /\ d.rd = get_rd(w) /\ d.rs1 = get_rs1(w)
    BY DEF WithRs1
  <1> HIDE DEF d
  <1>3. ~IsTrap(Key(d))
    BY <1>1, NotTrap
  <1>4. /\ Has(d, "imm") /\ Has(d, "rd") /\ Has(d, "rs1")
        /\ ~Has(d, "rs2") /\ ~Has(d, "fs2") /\ ~Has(d, "rm")
    BY <1>2 DEF Has
  <1>5. Encode(d) = FixedBits(Key(d)) \cup Laid("I", get_i_type_imm(w)) \cup At(get_rd(w), 7)
                        \cup At(get_rs1(w), 15)
    BY <1>1, <1>2, <1>3, <1>4, EncodeIs DEF OrNothing
  <1>6. Encode(d) = FixedBits(Key(d)) \cup Slice(w, 20, 31) \cup Slice(w, 7, 11)
                        \cup Slice(w, 15, 19)
    BY <1>5, ImmediatesAre, FieldsAre, Zenon
  <1> QED  BY <1>1, <1>6, Zenon DEF d

\* JALR and the floating-point load, whose funct3 decode does not look at.
LEMMA WithRs1Lossless ==
    ASSUME NEW w \in SUBSET (0 .. 31), NEW op, NEW funct3, funct3 = 0 \/ funct3 = 2,
           Rows[op] = Alone(get_opcode(w), funct3), op \notin {"FmaFp", "System"},
           FormatOf(WithRs1(op, w)) = "I", Unchecked(WithRs1(op, w)) = 12 .. 14
    PROVE  Lossless(w, WithRs1(op, w))
  <1> DEFINE d == WithRs1(op, w)
  <1> SUFFICES ASSUME Accepted(d) PROVE Xor(w, Encode(d)) \subseteq Unchecked(d)
    BY DEF Lossless
  <1>1. Key(d) = <<op, "">> /\ FormatOf(d) = "I" /\ Unchecked(d) = 12 .. 14
    BY DEF Key, WithRs1
  <1>2. PICK rest \in SUBSET (12 .. 14) : FixedBits(Key(d)) = Slice(w, 0, 6) \cup rest
    <2> HIDE DEF d
    <2> QED  BY <1>1, FixedOfAlone
  <1>3. Encode(d) = FixedBits(Key(d)) \cup Slice(w, 20, 31) \cup Slice(w, 7, 11)
                        \cup Slice(w, 15, 19)
    BY <1>1, WithRs1Encoded, Zenon
  <1> HIDE DEF d
  <1> DEFINE same == Slice(w, 0, 6) \cup Slice(w, 7, 11) \cup Slice(w, 15, 19) \cup Slice(w, 20, 31)
  <1>4. Encode(d) = (Slice(w, 0, 6) \cup rest) \cup Slice(w, 20, 31) \cup Slice(w, 7, 11)
                        \cup Slice(w, 15, 19)
    BY <1>2, <1>3, Zenon
  <1>5. Encode(d) = same \cup rest
    BY <1>4
  <1>6. w = same \cup Slice(w, 12, 14)
    BY Slices
  <1>7. Slice(w, 12, 14) \subseteq 12 .. 14
    BY DEF Slice
  <1> HIDE DEF same
  <1>8. Xor(w, same \cup rest) \subseteq 12 .. 14
    <2>1. rest \subseteq 12 .. 14
      OBVIOUS
    <2> QED  BY <1>6, <1>7, <2>1 DEF Xor
  <1> QED  BY <1>1, <1>5, <1>8

\* The floating-point store.
StoreFpOf(w) == [op |-> "StoreFp", imm |-> get_s_type_imm(w),
                 rs1 |-> get_rs1(w), rs2 |-> get_rs2(w)]

\* What it is encoded to.
LEMMA StoreFpEncoded ==
    ASSUME NEW w \in SUBSET (0 .. 31)
    PROVE  Encode(StoreFpOf(w))
              = FixedBits(<<"StoreFp", "">>) \cup (Slice(w, 7, 11) \cup Slice(w, 25, 31))
                    \cup Slice(w, 15, 19) \cup Slice(w, 20, 24)
  <1> DEFINE d == StoreFpOf(w)
  <1>1. Key(d) = <<"StoreFp", "">> /\ FormatOf(d) = "S"
    BY DEF Key, FormatOf, StoreFpOf
  <1>2. /\ DOMAIN d = {"op", "imm", "rs1", "rs2"} /\ d.op = "StoreFp" /\ d.imm = get_s_type_imm(w)
        /\ d.rs1 = get_rs1(w) /\ d.rs2 = get_rs2(w)
    BY DEF StoreFpOf
  <1> HIDE DEF d
  <1>3. ~IsTrap(Key(d))
    BY <1>1, NotTrap
  <1>4. /\ Has(d, "imm") /\ ~Has(d, "rd") /\ Has(d, "rs1")
        /\ Has(d, "rs2") /\ ~Has(d, "fs2") /\ ~Has(d, "rm")
    BY <1>2 DEF Has
  <1>5. Encode(d) = FixedBits(Key(d)) \cup Laid("S", get_s_type_imm(w)) \cup At(get_rs1(w), 15)
                        \cup At(get_rs2(w), 20)
    BY <1>1, <1>2, <1>3, <1>4, EncodeIs DEF OrNothing
  <1>6. Encode(d) = FixedBits(Key(d)) \cup (Slice(w, 7, 11) \cup Slice(w, 25, 31))
                        \cup Slice(w, 15, 19) \cup Slice(w, 20, 24)
    BY <1>5, ImmediatesAre, FieldsAre, Zenon
  <1> QED  BY <1>1, <1>6, Zenon DEF d

\* Only its funct3 can be lost.
LEMMA StoreFpLossless ==
    ASSUME NEW w \in SUBSET (0 .. 31), get_opcode(w) = 39
    PROVE  Lossless(w, StoreFpOf(w))
  <1> DEFINE d == StoreFpOf(w)
  <1> SUFFICES ASSUME Accepted(d) PROVE Xor(w, Encode(d)) \subseteq Unchecked(d)
    BY DEF Lossless
  <1>1. Key(d) = <<"StoreFp", "">> /\ FormatOf(d) = "S" /\ Unchecked(d) = 12 .. 14
    BY DEF Key, FormatOf, Unchecked, StoreFpOf
  <1>2. Rows["StoreFp"] = Alone(39, 2)
    BY DEF Rows
  <1>3. PICK rest \in SUBSET (12 .. 14) : FixedBits(Key(d)) = Slice(w, 0, 6) \cup rest
    <2> HIDE DEF d
    <2> QED  BY <1>1, <1>2, FixedOfAlone
  <1>4. Encode(d) = FixedBits(Key(d)) \cup (Slice(w, 7, 11) \cup Slice(w, 25, 31))
                        \cup Slice(w, 15, 19) \cup Slice(w, 20, 24)
    BY <1>1, StoreFpEncoded, Zenon
  <1> HIDE DEF d
  <1> DEFINE same == Slice(w, 0, 6) \cup Slice(w, 7, 11) \cup Slice(w, 15, 19) \cup Slice(w, 20, 24)
                        \cup Slice(w, 25, 31)
  <1>5. Encode(d) = (Slice(w, 0, 6) \cup rest) \cup (Slice(w, 7, 11) \cup Slice(w, 25, 31))
                        \cup Slice(w, 15, 19) \cup Slice(w, 20, 24)
    BY <1>3, <1>4, Zenon
  <1>6. Encode(d) = same \cup rest
    BY <1>5
  <1>7. w = same \cup Slice(w, 12, 14)
    BY Slices
  <1>8. Slice(w, 12, 14) \subseteq 12 .. 14
    BY DEF Slice
  <1> HIDE DEF same
  <1>9. Xor(w, same \cup rest) \subseteq 12 .. 14
    <2>1. rest \subseteq 12 .. 14
      OBVIOUS
    <2> QED  BY <1>7, <1>8, <2>1 DEF Xor
  <1> QED  BY <1>1, <1>6, <1>9

\* Branches.
LEMMA BranchLossless ==
    ASSUME NEW w \in SUBSET (0 .. 31), get_opcode(w) = 99
    PROVE  Lossless(w, Typed("Branch", w, BranchType(get_funct3(w)), get_b_type_imm(w)))
  <1> DEFINE type == BranchType(get_funct3(w))
             d == Typed("Branch", w, type, get_b_type_imm(w))
  <1> SUFFICES ASSUME Accepted(d) PROVE Xor(w, Encode(d)) \subseteq Unchecked(d)
    BY DEF Lossless
  <1>1. Key(d) = <<"Branch", type>> /\ FormatOf(d) = "B"
    BY DEF Key, FormatOf, Typed
  <1>2. RowsTell(w, "Branch", type, Slice(w, 0, 6) \cup Slice(w, 12, 14))
    BY FieldsAre DEF Rows, ByFunct3, BranchType, One, None, HasFields, Told, OrNothing, RowsTell
  <1>3. FixedBits(Key(d)) = Slice(w, 0, 6) \cup Slice(w, 12, 14)
    <2> HIDE DEF d, type
    <2> QED  BY <1>1, <1>2, FixedOf
  <1>4. Encode(d) = FixedBits(Key(d)) \cup Laid("B", get_b_type_imm(w))
                        \cup At(get_rs1(w), 15) \cup At(get_rs2(w), 20)
    BY <1>1 DEF Encode, Typed, Has, OrNothing, Laid, IsTrap
  <1>5. Encode(d) = w
    <2> HIDE DEF d
    <2>1. Encode(d) = Slice(w, 0, 6) \cup Slice(w, 12, 14)
                        \cup (Slice(w, 7, 11) \cup Slice(w, 25, 31)) \cup Slice(w, 15, 19)
                        \cup Slice(w, 20, 24)
      BY <1>3, <1>4, ImmediatesAre, FieldsAre, Zenon
    <2> QED  BY <2>1, Slices
  <1> QED  BY <1>5 DEF Xor

\* Loads.
LEMMA LoadLossless ==
    ASSUME NEW w \in SUBSET (0 .. 31), get_opcode(w) = 3
    PROVE  Lossless(w, [op |-> "Load", type |-> MemAccessType(get_funct3(w)),
                       imm |-> get_i_type_imm(w),
                       rs1 |-> get_rs1(w), rd |-> get_rd(w)])
  <1> DEFINE type == MemAccessType(get_funct3(w))
             d == [op |-> "Load", type |-> type, imm |-> get_i_type_imm(w),
                       rs1 |-> get_rs1(w), rd |-> get_rd(w)]
  <1> SUFFICES ASSUME Accepted(d) PROVE Xor(w, Encode(d)) \subseteq Unchecked(d)
    BY DEF Lossless
  <1>1. Key(d) = <<"Load", type>> /\ FormatOf(d) = "I"
    BY DEF Key, FormatOf, Typed
  <1>2. RowsTell(w, "Load", type, Slice(w, 0, 6) \cup Slice(w, 12, 14))
    BY FieldsAre DEF Rows, ByFunct3, MemAccessType, One, None, HasFields, Told, OrNothing, RowsTell
  <1>3. FixedBits(Key(d)) = Slice(w, 0, 6) \cup Slice(w, 12, 14)
    <2> HIDE DEF d, type
    <2> QED  BY <1>1, <1>2, FixedOf
  <1>4. Encode(d) = FixedBits(Key(d)) \cup Laid("I", get_i_type_imm(w))
                        \cup At(get_rs1(w), 15) \cup At(get_rd(w), 7)
    BY <1>1 DEF Encode, Typed, Has, OrNothing, Laid, IsTrap
  <1>5. Encode(d) = w
    <2> HIDE DEF d
    <2>1. Encode(d) = Slice(w, 0, 6) \cup Slice(w, 12, 14) \cup Slice(w, 20, 31)
                        \cup Slice(w, 15, 19) \cup Slice(w, 7, 11)
      BY <1>3, <1>4, ImmediatesAre, FieldsAre, Zenon
    <2> QED  BY <2>1, Slices
  <1> QED  BY <1>5 DEF Xor

\* Stores.
LEMMA StoreLossless ==
    ASSUME NEW w \in SUBSET (0 .. 31), get_opcode(w) = 35
    PROVE  Lossless(w, Typed("Store", w, MemAccessType(get_funct3(w)), get_s_type_imm(w)))
  <1> DEFINE type == MemAccessType(get_funct3(w))
             d == Typed("Store", w, type, get_s_type_imm(w))
  <1> SUFFICES ASSUME Accepted(d) PROVE Xor(w, Encode(d)) \subseteq Unchecked(d)
    BY DEF Lossless
  <1>1. Key(d) = <<"Store", type>> /\ FormatOf(d) = "S"
    BY DEF Key, FormatOf, Typed
  <1>2. RowsTell(w, "Store", type, Slice(w, 0, 6) \cup Slice(w, 12, 14))
    BY FieldsAre DEF Rows, ByFunct3, MemAccessType, One, None, HasFields, Told, OrNothing, RowsTell
  <1>3. FixedBits(Key(d)) = Slice(w, 0, 6) \cup Slice(w, 12, 14)
    <2> HIDE DEF d, type
    <2> QED  BY <1>1, <1>2, FixedOf
  <1>4. Encode(d) = FixedBits(Key(d)) \cup Laid("S", get_s_type_imm(w))
                        \cup At(get_rs1(w), 15) \cup At(get_rs2(w), 20)
    BY <1>1 DEF Encode, Typed, Has, OrNothing, Laid, IsTrap
  <1>5. Encode(d) = w
    <2> HIDE DEF d
    <2>1. Encode(d) = Slice(w, 0, 6) \cup Slice(w, 12, 14)
                        \cup (Slice(w, 7, 11) \cup Slice(w, 25, 31)) \cup Slice(w, 15, 19)
                        \cup Slice(w, 20, 24)
      BY <1>3, <1>4, ImmediatesAre, FieldsAre, Zenon
    <2> QED  BY <2>1, Slices
  <1> QED  BY <1>5 DEF Xor

\* Register operations.
LEMMA OpLossless ==
    ASSUME NEW w \in SUBSET (0 .. 31), get_opcode(w) = 51
    PROVE  Lossless(w, Registers3("Op", w))
  <1> DEFINE type == OpType(get_funct7(w), get_funct3(w))
             d == Registers3("Op", w)
  <1> SUFFICES ASSUME Accepted(d) PROVE Xor(w, Encode(d)) \subseteq Unchecked(d)
    BY DEF Lossless
  <1>1. Key(d) = <<"Op", type>>
    BY DEF Key, Registers3
  <1>2. RowsTell(w, "Op", type, Slice(w, 0, 6) \cup Slice(w, 12, 14) \cup Slice(w, 25, 31))
    BY FieldsAre DEF Rows, ByFunct3, OpType, One, None, HasFields, Told, OrNothing, RowsTell
  <1>3. FixedBits(Key(d)) = Slice(w, 0, 6) \cup Slice(w, 12, 14) \cup Slice(w, 25, 31)
    <2> HIDE DEF d, type
    <2> QED  BY <1>1, <1>2, FixedOf
  <1>4. Encode(d) = FixedBits(Key(d)) \cup At(get_rd(w), 7) \cup At(get_rs1(w), 15)
                        \cup At(get_rs2(w), 20)
    BY <1>1 DEF Encode, Registers3, Has, OrNothing, Laid, IsTrap
  <1>5. Encode(d) = w
    <2> HIDE DEF d
    <2>1. Encode(d) = Slice(w, 0, 6) \cup Slice(w, 12, 14) \cup Slice(w, 25, 31)
                        \cup Slice(w, 7, 11) \cup Slice(w, 15, 19) \cup Slice(w, 20, 24)
      BY <1>3, <1>4, ImmediatesAre, FieldsAre, Zenon
    <2> QED  BY <2>1, Slices
  <1> QED  BY <1>5 DEF Xor

\* Register operations on words.
LEMMA Op32Lossless ==
    ASSUME NEW w \in SUBSET (0 .. 31), get_opcode(w) = 59
    PROVE  Lossless(w, Registers3("Op32", w))
  <1> DEFINE type == OpType(get_funct7(w), get_funct3(w))
             d == Registers3("Op32", w)
  <1> SUFFICES ASSUME Accepted(d) PROVE Xor(w, Encode(d)) \subseteq Unchecked(d)
    BY DEF Lossless
  <1>1. Key(d) = <<"Op32", type>>
    BY DEF Key, Registers3
  <1>2. RowsTell(w, "Op32", type, Slice(w, 0, 6) \cup Slice(w, 12, 14) \cup Slice(w, 25, 31))
    BY FieldsAre DEF Rows, ByFunct3, OpType, One, None, HasFields, Told, OrNothing, RowsTell
  <1>3. FixedBits(Key(d)) = Slice(w, 0, 6) \cup Slice(w, 12, 14) \cup Slice(w, 25, 31)
    <2> HIDE DEF d, type
    <2> QED  BY <1>1, <1>2, FixedOf
  <1>4. Encode(d) = FixedBits(Key(d)) \cup At(get_rd(w), 7) \cup At(get_rs1(w), 15)
                        \cup At(get_rs2(w), 20)
    BY <1>1 DEF Encode, Registers3, Has, OrNothing, Laid, IsTrap
  <1>5. Encode(d) = w
    <2> HIDE DEF d
    <2>1. Encode(d) = Slice(w, 0, 6) \cup Slice(w, 12, 14) \cup Slice(w, 25, 31)
                        \cup Slice(w, 7, 11) \cup Slice(w, 15, 19) \cup Slice(w, 20, 24)
      BY <1>3, <1>4, ImmediatesAre, FieldsAre, Zenon
    <2> QED  BY <2>1, Slices
  <1> QED  BY <1>5 DEF Xor

\* FENCE, of which decode looks at nothing but funct3.
LEMMA MiscMemLossless ==
    ASSUME NEW w \in SUBSET (0 .. 31), get_opcode(w) = 15
    PROVE  Lossless(w, [op |-> "MiscMem", type |-> MiscMemType(get_funct3(w))])
  <1> DEFINE type == MiscMemType(get_funct3(w))
             d == [op |-> "MiscMem", type |-> type]
  <1> SUFFICES ASSUME Accepted(d) PROVE Xor(w, Encode(d)) \subseteq Unchecked(d)
    BY DEF Lossless
  <1>1. Key(d) = <<"MiscMem", type>> /\ Unchecked(d) = (7 .. 11) \cup (15 .. 31)
    BY DEF Key, Unchecked
  <1>2. RowsTell(w, "MiscMem", type, Slice(w, 0, 6) \cup Slice(w, 12, 14))
    BY FieldsAre DEF Rows, ByFunct3, MiscMemType, One, None, HasFields, Told, OrNothing, RowsTell
  <1>3. FixedBits(Key(d)) = Slice(w, 0, 6) \cup Slice(w, 12, 14)
    <2> HIDE DEF d, type
    <2> QED  BY <1>1, <1>2, FixedOf
  <1>4. Encode(d) = FixedBits(Key(d))
    BY <1>1 DEF Encode, Has, OrNothing, IsTrap
  <1>5. Xor(w, Encode(d)) \subseteq (7 .. 11) \cup (15 .. 31)
    <2> HIDE DEF d
    <2>1. Slice(w, 0, 6) \cup Slice(w, 12, 14) \subseteq w
      BY DEF Slice
    <2>2. w \ (Slice(w, 0, 6) \cup Slice(w, 12, 14)) \subseteq (7 .. 11) \cup (15 .. 31)
      BY DEF Slice
    <2> QED  BY <1>3, <1>4, <2>1, <2>2 DEF Xor
  <1> QED  BY <1>1, <1>5

\* The number decode takes for funct7 of a 64-bit shift leaves bit 25 out.
LEMMA FunctOfShift ==
    ASSUME NEW w \in SUBSET (0 .. 31)
    PROVE  get_funct7(w \ {25}) = 2 * FieldNumber(w, 26, 6)
  <1> DEFINE f == Field(w \ {25}, 25, 7)
             g == Field(w, 26, 6)
  <1>1. \A i \in 0 .. 6 - 1 : i \in g <=> i + 1 \in f
    BY DEF Field, Low
  <1>2. 0 \notin f
    BY DEF Field
  <1> HIDE DEF f, g
  <1>3. LowValue(f)[1 + 6] = LowValue(f)[1] + Power[1] * LowValue(g)[6]
    <2>1. PICK k \in Nat, m \in Nat : k = 1 /\ m = 6
      OBVIOUS
    <2>2. LowValue(f)[k + m] = LowValue(f)[k] + Power[k] * LowValue(g)[m]
      BY <1>1, <2>1, SplitAt
    <2> QED  BY <2>1, <2>2
  <1>4. LowValue(f)[1] = 0
    <2>1. LowValue(f)[0 + 1] = LowValue(f)[0] + (IF 0 \in f THEN Power[0] ELSE 0)
            /\ LowValue(f)[0] = 0
      BY LowValueFacts
    <2> QED  BY <1>2, <2>1
  <1>5. Power[1] = 2
    <2>1. Power[0 + 1] = 2 * Power[0] /\ Power[0] = 1
      BY PowerFacts
    <2> QED  BY <2>1
  <1>6. LowValue(g)[6] \in Nat
    BY LowValueFacts
  <1>7. LowValue(f)[7] = 2 * LowValue(g)[6]
    BY <1>3, <1>4, <1>5, <1>6
  <1> QED  BY <1>7 DEF get_funct7, FieldNumber, Amount, f, g

\* The rows of the immediate shifts.
LEMMA OpImmShiftRow ==
    ASSUME NEW f3 \in {1, 5}, NEW f6 \in 0 .. 63, NEW r \in Rows["OpImm"],
           r.type = OpType(2 * f6, f3)
    PROVE  /\ r.opcode = 19 /\ r.funct3 = f3 /\ r.funct7 = 2 * f6 /\ r.rs2 = None
           /\ r.type \in {"Sll", "Srl", "Sra"}
  BY DEF Rows, ByFunct3, One, None, OpType

\* And of those that do not shift.
LEMMA OpImmRow ==
    ASSUME NEW f3 \in {0, 2, 3, 4, 6, 7}, NEW r \in Rows["OpImm"], r.type = OpType(0, f3)
    PROVE  r.opcode = 19 /\ r.funct3 = f3 /\ r.funct7 = None /\ r.rs2 = None
  BY DEF Rows, ByFunct3, One, None, OpType

\* A field of six bits.
LEMMA SixBits == ASSUME NEW w PROVE FieldNumber(w, 26, 6) \in 0 .. 63
  <1>1. Power[6] = 64
    <2>1. Power[0] = 1 /\ \A j \in Nat : Power[j + 1] = 2 * Power[j]
      BY PowerFacts
    <2>2. Power[1] = 2
      BY <2>1
    <2>3. Power[2] = 4
      BY <2>1, <2>2
    <2>4. Power[3] = 8
      BY <2>1, <2>3
    <2>5. Power[4] = 16
      BY <2>1, <2>4
    <2>6. Power[5] = 32
      BY <2>1, <2>5
    <2> QED  BY <2>1, <2>6
  <1> QED  BY <1>1, FieldBack DEF Power

\* Immediate operations on registers.
LEMMA OpImmLossless ==
    ASSUME NEW w \in SUBSET (0 .. 31), get_opcode(w) = 19
    PROVE  Lossless(w, OpImmOf(w))
  <1> DEFINE d == OpImmOf(w)
             shift == IsShift(get_funct3(w))
             funct6 == FieldNumber(w, 26, 6)
             type == OpType(IF shift THEN 2 * funct6 ELSE 0, get_funct3(w))
             v == w \ {25}
  <1> SUFFICES ASSUME Accepted(d) PROVE Xor(w, Encode(d)) \subseteq Unchecked(d)
    BY DEF Lossless
  <1>1. /\ Key(d) = <<"OpImm", type>> /\ d.op = "OpImm"
        /\ DOMAIN d = {"op", "type", "imm", "rs1", "rd"}
        /\ d.type = type /\ d.rs1 = get_rs1(w) /\ d.rd = get_rd(w)
        /\ d.imm = IF shift THEN get_shamt(w) ELSE get_i_type_imm(w)
    BY DEF OpImmOf, Key
  <1>2. get_funct3(w) \in 0 .. 7 /\ funct6 \in 0 .. 63
    BY FieldsAre, SixBits
  <1> HIDE DEF d
  <1>3. Encode(d) = FixedBits(Key(d)) \cup Laid(FormatOf(d), d.imm) \cup At(get_rd(w), 7)
                        \cup At(get_rs1(w), 15)
    <2>1. ~IsTrap(Key(d))
      BY <1>1, NotTrap
    <2>2. /\ Has(d, "imm") /\ Has(d, "rd") /\ Has(d, "rs1")
          /\ ~Has(d, "rs2") /\ ~Has(d, "fs2") /\ ~Has(d, "rm")
      BY <1>1 DEF Has
    <2> QED  BY <1>1, <2>1, <2>2, EncodeIs DEF OrNothing
  <1>4. CASE shift
    <2>1. type \in {"Sll", "Srl", "Sra"} => FormatOf(d) = "Shift64"
      BY <1>1 DEF FormatOf
    <2>2. /\ get_opcode(v) = get_opcode(w) /\ get_funct3(v) = get_funct3(w)
          /\ get_funct7(v) = 2 * funct6
          /\ Slice(v, 0, 6) = Slice(w, 0, 6) /\ Slice(v, 12, 14) = Slice(w, 12, 14)
          /\ Slice(v, 25, 31) = Slice(w, 26, 31)
      <3>1. Field(v, 0, 7) = Field(w, 0, 7) /\ Field(v, 12, 3) = Field(w, 12, 3)
        BY DEF Field, Low
      <3>2. /\ Slice(v, 0, 6) = Slice(w, 0, 6) /\ Slice(v, 12, 14) = Slice(w, 12, 14)
            /\ Slice(v, 25, 31) = Slice(w, 26, 31)
        BY DEF Slice
      <3>3. get_funct7(v) = 2 * funct6
        BY FunctOfShift
      <3> QED  BY <3>1, <3>2, <3>3 DEF get_opcode, get_funct3, FieldNumber
    <2>3. \A row \in Rows["OpImm"] : row.type = type =>
            /\ row.opcode = 19 /\ row.funct3 = get_funct3(w) /\ row.funct7 = 2 * funct6
            /\ row.rs2 = None /\ row.type \in {"Sll", "Srl", "Sra"}
      <3> HIDE DEF funct6
      <3> QED  BY <1>2, <1>4, OpImmShiftRow DEF IsShift
    <2>4. RowsTell(v, "OpImm", type, Slice(w, 0, 6) \cup Slice(w, 12, 14) \cup Slice(w, 26, 31))
      <3> HIDE DEF type, v, funct6
      <3>1. \A row \in Rows["OpImm"] : row.type = type =>
                /\ row.opcode = get_opcode(v) /\ row.funct3 = get_funct3(v)
                /\ row.funct7 = get_funct7(v) /\ row.rs2 = None
        BY <2>2, <2>3
      <3>2. get_funct3(v) # None /\ get_funct7(v) # None
        BY <1>2, <2>2 DEF None
      <3> QED  BY <2>2, <3>1, <3>2 DEF RowsTell, HasFields, Told, OrNothing
    <2>5. FixedBits(Key(d)) = Slice(w, 0, 6) \cup Slice(w, 12, 14) \cup Slice(w, 26, 31)
      <3> HIDE DEF type, v
      <3> QED  BY <1>1, <2>4, FixedOf
    <2>6. FormatOf(d) = "Shift64"
      <3>1. \E row \in Rows["OpImm"] : row.type = type
        <4> HIDE DEF type
        <4>1. <<"OpImm", type>> \in Keys
          BY <1>1 DEF Accepted
        <4> QED  BY <4>1, RowOfKey
      <3> HIDE DEF type
      <3> QED  BY <2>1, <2>3, <3>1
    <2>7. Encode(d) = (Slice(w, 0, 6) \cup Slice(w, 12, 14) \cup Slice(w, 26, 31))
                        \cup Slice(w, 20, 25)
                        \cup Slice(w, 7, 11) \cup Slice(w, 15, 19)
      <3>1. d.imm = get_shamt(w)
        BY <1>1, <1>4
      <3> HIDE DEF type, v, shift, funct6
      <3>2. Laid(FormatOf(d), d.imm) = Slice(w, 20, 25)
        BY <2>6, <3>1, ImmediatesAre
      <3>3. At(get_rd(w), 7) = Slice(w, 7, 11) /\ At(get_rs1(w), 15) = Slice(w, 15, 19)
        BY FieldsAre
      <3> QED  BY <1>3, <2>5, <3>2, <3>3
    <2>8. Slice(w, 26, 31) \cup Slice(w, 20, 25) = Slice(w, 20, 24) \cup Slice(w, 25, 31)
      BY DEF Slice
    <2>9. Encode(d) = w
      BY <2>7, <2>8, Slices
    <2> QED  BY <2>9 DEF Xor
  <1>5. CASE ~shift
    <2>1. \A row \in Rows["OpImm"] : row.type = type =>
            /\ row.opcode = 19 /\ row.funct3 = get_funct3(w) /\ row.funct7 = None /\ row.rs2 = None
      BY <1>2, <1>5, OpImmRow DEF IsShift
    <2>2. FormatOf(d) = "I"
      <3>1. type \notin {"Sll", "Srl", "Sra"}
        BY <1>2, <1>5 DEF OpType, IsShift
      <3> HIDE DEF type
      <3> QED  BY <1>1, <3>1 DEF FormatOf
    <2>3. RowsTell(w, "OpImm", type, Slice(w, 0, 6) \cup Slice(w, 12, 14))
      <3> HIDE DEF type
      <3>1. get_funct3(w) # None
        BY <1>2 DEF None
      <3> QED  BY <2>1, <3>1 DEF RowsTell, HasFields, Told, OrNothing
    <2>4. FixedBits(Key(d)) = Slice(w, 0, 6) \cup Slice(w, 12, 14)
      <3> HIDE DEF type
      <3> QED  BY <1>1, <2>3, FixedOf
    <2>5. Encode(d) = (Slice(w, 0, 6) \cup Slice(w, 12, 14)) \cup Slice(w, 20, 31)
                        \cup Slice(w, 7, 11) \cup Slice(w, 15, 19)
      <3>1. d.imm = get_i_type_imm(w)
        BY <1>1, <1>5
      <3> QED  BY <1>3, <2>2, <2>4, <3>1, ImmediatesAre, FieldsAre, Zenon
    <2>6. Encode(d) = w
      BY <2>5, Slices
    <2> QED  BY <2>6 DEF Xor
  <1> QED  BY <1>4, <1>5

\* The rows of the immediate shifts of words.
LEMMA OpImm32ShiftRow ==
    ASSUME NEW f3 \in {1, 5}, NEW f7 \in 0 .. 127, NEW r \in Rows["OpImm32"],
           r.type = OpType(f7, f3)
    PROVE  /\ r.opcode = 27 /\ r.funct3 = f3 /\ r.funct7 = f7 /\ r.rs2 = None
           /\ r.type \in {"Sll", "Srl", "Sra"}
  BY DEF Rows, ByFunct3, One, None, OpType

\* And of those that do not shift.
LEMMA OpImm32Row ==
    ASSUME NEW f3 \in {0, 2, 3, 4, 6, 7}, NEW r \in Rows["OpImm32"], r.type = OpType(0, f3)
    PROVE  r.opcode = 27 /\ r.funct3 = f3 /\ r.funct7 = None /\ r.rs2 = None
  BY DEF Rows, ByFunct3, One, None, OpType

\* Immediate operations on words.
LEMMA OpImm32Lossless ==
    ASSUME NEW w \in SUBSET (0 .. 31), get_opcode(w) = 27
    PROVE  Lossless(w, OpImm32Of(w))
  <1> DEFINE d == OpImm32Of(w)
             shift == IsShift(get_funct3(w))
             funct7 == get_funct7(w)
             type == OpType(IF shift THEN funct7 ELSE 0, get_funct3(w))
  <1> SUFFICES ASSUME Accepted(d) PROVE Xor(w, Encode(d)) \subseteq Unchecked(d)
    BY DEF Lossless
  <1>1. /\ Key(d) = <<"OpImm32", type>> /\ d.op = "OpImm32"
        /\ DOMAIN d = {"op", "type", "imm", "rs1", "rd"}
        /\ d.type = type /\ d.rs1 = get_rs1(w) /\ d.rd = get_rd(w)
        /\ d.imm = IF shift THEN get_shamt(w) ELSE get_i_type_imm(w)
    BY DEF OpImm32Of, Key
  <1>2. get_funct3(w) \in 0 .. 7 /\ funct7 \in 0 .. 127
    BY FieldsAre
  <1> HIDE DEF d
  <1>3. Encode(d) = FixedBits(Key(d)) \cup Laid(FormatOf(d), d.imm) \cup At(get_rd(w), 7)
                        \cup At(get_rs1(w), 15)
    <2>1. ~IsTrap(Key(d))
      BY <1>1, NotTrap
    <2>2. /\ Has(d, "imm") /\ Has(d, "rd") /\ Has(d, "rs1")
          /\ ~Has(d, "rs2") /\ ~Has(d, "fs2") /\ ~Has(d, "rm")
      BY <1>1 DEF Has
    <2> QED  BY <1>1, <2>1, <2>2, EncodeIs DEF OrNothing
  <1>4. At(get_rd(w), 7) = Slice(w, 7, 11) /\ At(get_rs1(w), 15) = Slice(w, 15, 19)
    BY FieldsAre
  <1>5. get_funct3(w) # None /\ funct7 # None
    BY <1>2 DEF None
  <1>6. CASE shift
    <2>1. \A row \in Rows["OpImm32"] : row.type = type =>
            /\ row.opcode = 27 /\ row.funct3 = get_funct3(w) /\ row.funct7 = funct7
            /\ row.rs2 = None /\ row.type \in {"Sll", "Srl", "Sra"}
      <3> HIDE DEF funct7
      <3> QED  BY <1>2, <1>6, OpImm32ShiftRow DEF IsShift
    <2>2. RowsTell(w, "OpImm32", type, Slice(w, 0, 6) \cup Slice(w, 12, 14) \cup Slice(w, 25, 31))
      <3> HIDE DEF type
      <3> QED  BY <1>5, <2>1 DEF RowsTell, HasFields, Told, OrNothing
    <2>3. FixedBits(Key(d)) = Slice(w, 0, 6) \cup Slice(w, 12, 14) \cup Slice(w, 25, 31)
      <3> HIDE DEF type
      <3> QED  BY <1>1, <2>2, FixedOf
    <2>4. FormatOf(d) = "Shift32"
      <3>1. \E row \in Rows["OpImm32"] : row.type = type
        <4> HIDE DEF type
        <4>1. <<"OpImm32", type>> \in Keys
          BY <1>1 DEF Accepted
        <4> QED  BY <4>1, RowOfKey
      <3> HIDE DEF type
      <3>2. type \in {"Sll", "Srl", "Sra"}
        BY <2>1, <3>1
      <3> QED  BY <1>1, <3>2 DEF FormatOf
    <2>5. Encode(d) = (Slice(w, 0, 6) \cup Slice(w, 12, 14) \cup Slice(w, 25, 31))
                        \cup Slice(w, 20, 24)
                        \cup Slice(w, 7, 11) \cup Slice(w, 15, 19)
      <3>1. d.imm = get_shamt(w)
        BY <1>1, <1>6
      <3> HIDE DEF type, shift, funct7
      <3>2. Laid(FormatOf(d), d.imm) = Slice(w, 20, 24)
        BY <2>4, <3>1, ImmediatesAre
      <3> QED  BY <1>3, <1>4, <2>3, <3>2
    <2>6. Encode(d) = w
      BY <2>5, Slices
    <2> QED  BY <2>6 DEF Xor
  <1>7. CASE ~shift
    <2>1. \A row \in Rows["OpImm32"] : row.type = type =>
            /\ row.opcode = 27 /\ row.funct3 = get_funct3(w) /\ row.funct7 = None /\ row.rs2 = None
      BY <1>2, <1>7, OpImm32Row DEF IsShift
    <2>2. FormatOf(d) = "I"
      <3>1. type \notin {"Sll", "Srl", "Sra"}
        BY <1>2, <1>7 DEF OpType, IsShift
      <3> HIDE DEF type
      <3> QED  BY <1>1, <3>1 DEF FormatOf
    <2>3. RowsTell(w, "OpImm32", type, Slice(w, 0, 6) \cup Slice(w, 12, 14))
      <3> HIDE DEF type
      <3> QED  BY <1>5, <2>1 DEF RowsTell, HasFields, Told, OrNothing
    <2>4. FixedBits(Key(d)) = Slice(w, 0, 6) \cup Slice(w, 12, 14)
      <3> HIDE DEF type
      <3> QED  BY <1>1, <2>3, FixedOf
    <2>5. Encode(d) = (Slice(w, 0, 6) \cup Slice(w, 12, 14)) \cup Slice(w, 20, 31)
                        \cup Slice(w, 7, 11) \cup Slice(w, 15, 19)
      <3>1. d.imm = get_i_type_imm(w)
        BY <1>1, <1>7
      <3> HIDE DEF type, shift, funct7
      <3>2. Laid(FormatOf(d), d.imm) = Slice(w, 20, 31)
        BY <2>2, <3>1, ImmediatesAre
      <3> QED  BY <1>3, <1>4, <2>4, <3>2
    <2>6. Encode(d) = w
      BY <2>5, Slices
    <2> QED  BY <2>6 DEF Xor
  <1> QED  BY <1>6, <1>7

\* The rounding mode goes back to its place.
LEMMA RmBack == ASSUME NEW w PROVE Shifted(Field(w, 12, 3), 12) = Slice(w, 12, 14)
  <1>1. ASSUME NEW p \in Slice(w, 12, 14) PROVE \E i \in Field(w, 12, 3) : p = i + 12
    <2>1. p - 12 \in Field(w, 12, 3) /\ p = (p - 12) + 12
      BY DEF Field, Low, Slice
    <2> QED  BY <2>1
  <1> QED  BY <1>1 DEF Shifted, Field, Low, Slice

\* The fused multiplications, whose format decode makes sure is 0.
LEMMA FmaFpLossless ==
    ASSUME NEW w \in SUBSET (0 .. 31), NEW type,
           <<get_opcode(w), type>>
                \in {<<67, "MAdd">>, <<71, "MSub">>, <<75, "NmSub">>, <<79, "NmAdd">>}
    PROVE  Lossless(w, FmaFpOf(w, type))
  <1> DEFINE d == FmaFpOf(w, type)
  <1> SUFFICES ASSUME Accepted(d) PROVE Xor(w, Encode(d)) \subseteq Unchecked(d)
    BY DEF Lossless
  <1>1. get_fmt(w) = 0
    BY DEF Accepted, FmaFpOf
  <1>2. /\ DOMAIN d = {"op", "type", "rm", "fs1", "fs2", "fs3", "fd"} /\ d.op = "FmaFp"
        /\ d.type = type /\ d.rm = Field(w, 12, 3) /\ d.fs1 = get_rs1(w)
        /\ d.fs2 = get_rs2(w) /\ d.fs3 = get_rs3(w) /\ d.fd = get_rd(w)
    BY <1>1 DEF FmaFpOf
  <1> HIDE DEF d
  <1>3. Key(d) = <<"FmaFp", type>>
    BY <1>2 DEF Key
  <1> DEFINE row == OpcodeMap[Key(d)]
  <1>4. row \in Rows["FmaFp"] /\ row.type = type
    <2>1. <<"FmaFp", type>> \in Keys
      BY <1>3 DEF Accepted
    <2> QED  BY <1>3, <2>1, RowOfKey
  <1>5. row.opcode = get_opcode(w) /\ row.funct3 = None /\ row.funct7 = 0 /\ row.rs2 = None
    <2> HIDE DEF row
    <2> QED  BY <1>4 DEF Rows, One, None
  <1>6. FixedBits(Key(d)) = Slice(w, 0, 6) \cup Slice(w, 25, 26)
    <2> HIDE DEF row
    <2>1. At(row.opcode, 0) = Slice(w, 0, 6) /\ At(row.funct7, 25) = Slice(w, 25, 26)
      BY <1>1, <1>5, FieldsAre, Zenon
    <2>2. row.funct7 # None
      BY <1>5 DEF None
    <2> QED  BY <1>5, <2>1, <2>2 DEF FixedBits, OrNothing, row
  <1>7. Encode(d) = FixedBits(Key(d))
                        \cup (At(get_rd(w), 7) \cup At(get_rs1(w), 15) \cup At(get_rs3(w), 27))
                        \cup At(get_rs2(w), 20) \cup Shifted(Field(w, 12, 3), 12)
    <2>1. /\ ~Has(d, "imm") /\ ~Has(d, "rd") /\ ~Has(d, "rs1")
          /\ ~Has(d, "rs2") /\ Has(d, "fs2") /\ Has(d, "rm")
      BY <1>2 DEF Has
    <2> HIDE DEF row
    <2> QED  BY <1>2, <2>1 DEF Encode, OrNothing
  <1>8. Encode(d) = (Slice(w, 0, 6) \cup Slice(w, 25, 26))
                        \cup (Slice(w, 7, 11) \cup Slice(w, 15, 19) \cup Slice(w, 27, 31))
                        \cup Slice(w, 20, 24) \cup Slice(w, 12, 14)
    BY <1>6, <1>7, FieldsAre, RmBack, Zenon
  <1>9. Slice(w, 25, 31) = Slice(w, 25, 26) \cup Slice(w, 27, 31)
    BY DEF Slice
  <1>10. Encode(d) = w
    <2> HIDE DEF row
    <2> QED  BY <1>8, <1>9, Slices
  <1> QED  BY <1>10 DEF Xor

\* A row of a floating-point operation has the fields decode tells it by.
OpFpRowTold(f3, f7, f2) ==
    \A r \in Rows["OpFp"] : r.type = OpFpType(f7, f3, f2) =>
        r.opcode = 83 /\ r.funct3 \in {None, f3} /\ r.funct7 = f7 /\ r.rs2 \in {None, f2}

\* So has every row, whatever the fields are.
LEMMA OpFpRows ==
    \A f3 \in 0 .. 7 : \A f7 \in 0 .. 127 : \A f2 \in 0 .. 31 : OpFpRowTold(f3, f7, f2)
  BY DEF OpFpRowTold, Rows, ByFunct3, ByRs2, One, None, OpFpType, Nth

\* The other floating-point operations.
LEMMA OpFpLossless ==
    ASSUME NEW w \in SUBSET (0 .. 31), get_opcode(w) = 83
    PROVE  Lossless(w, OpFpOf(w))
  <1> DEFINE d == OpFpOf(w)
             type == OpFpType(get_funct7(w), get_funct3(w), get_rs2(w))
  <1> SUFFICES ASSUME Accepted(d) PROVE Xor(w, Encode(d)) \subseteq Unchecked(d)
    BY DEF Lossless
  <1>1. type # "throws"
    <2> HIDE DEF type
    <2> QED  BY DEF Accepted, OpFpOf, type
  <1>2. /\ DOMAIN d = {"op", "type", "rm", "fs1", "fs2", "rs1", "rd", "fd"} /\ d.op = "OpFp"
        /\ d.type = type /\ d.rm = Field(w, 12, 3) /\ d.rs1 = get_rs1(w)
        /\ d.fs2 = get_rs2(w) /\ d.rd = get_rd(w)
    <2> HIDE DEF type
    <2> QED  BY <1>1 DEF OpFpOf, type
  <1> HIDE DEF d, type
  <1>3. Key(d) = <<"OpFp", type>>
    BY <1>2 DEF Key
  <1> DEFINE row == OpcodeMap[Key(d)]
  <1>4. row \in Rows["OpFp"] /\ row.type = type
    <2>1. <<"OpFp", type>> \in Keys
      BY <1>3 DEF Accepted
    <2> QED  BY <1>3, <2>1, RowOfKey
  <1>5. /\ row.opcode = get_opcode(w) /\ row.funct3 \in {None, get_funct3(w)}
        /\ row.funct7 = get_funct7(w) /\ row.rs2 \in {None, get_rs2(w)}
    <2> HIDE DEF row
    <2>1. get_funct3(w) \in 0 .. 7 /\ get_funct7(w) \in 0 .. 127 /\ get_rs2(w) \in 0 .. 31
      BY FieldsAre
    <2>2. OpFpRowTold(get_funct3(w), get_funct7(w), get_rs2(w))
      BY <2>1, OpFpRows
    <2> QED  BY <1>4, <2>2 DEF OpFpRowTold, type
  <1>6. \E b3 \in SUBSET Slice(w, 12, 14) : \E b2 \in SUBSET Slice(w, 20, 24) :
            FixedBits(Key(d)) = Slice(w, 0, 6) \cup Slice(w, 25, 31) \cup b3 \cup b2
    <2> DEFINE b3 == OrNothing(row.funct3 # None, Slice(w, 12, 14))
               b2 == OrNothing(row.rs2 # None, Slice(w, 20, 24))
    <2>1. HasFields(w, row)
      BY <1>5 DEF HasFields
    <2>2. row.funct7 # None
      BY <1>5, FieldsAre DEF None
    <2>3. FixedBits(Key(d)) = Slice(w, 0, 6) \cup b3
                        \cup OrNothing(row.funct7 # None, Slice(w, 25, 31)) \cup b2
      BY <2>1, FixedAre, Zenon
    <2>4. b3 \in SUBSET Slice(w, 12, 14) /\ b2 \in SUBSET Slice(w, 20, 24)
      BY DEF OrNothing
    <2> HIDE DEF b3, b2, row
    <2>5. FixedBits(Key(d)) = Slice(w, 0, 6) \cup Slice(w, 25, 31) \cup b3 \cup b2
      BY <2>2, <2>3 DEF OrNothing
    <2> QED  BY <2>4, <2>5
  <1>7. PICK b3 \in SUBSET Slice(w, 12, 14), b2 \in SUBSET Slice(w, 20, 24) :
            FixedBits(Key(d)) = Slice(w, 0, 6) \cup Slice(w, 25, 31) \cup b3 \cup b2
    BY <1>6
  <1>8. Encode(d) = FixedBits(Key(d)) \cup At(get_rd(w), 7) \cup At(get_rs1(w), 15)
                        \cup At(get_rs2(w), 20) \cup Shifted(Field(w, 12, 3), 12)
    <2>1. ~IsTrap(Key(d))
      BY <1>3, NotTrap
    <2>2. /\ ~Has(d, "imm") /\ Has(d, "rd") /\ Has(d, "rs1")
          /\ ~Has(d, "rs2") /\ Has(d, "fs2") /\ Has(d, "rm")
      BY <1>2 DEF Has
    <2> QED  BY <1>2, <2>1, <2>2, EncodeIs DEF OrNothing
  <1>9. Encode(d) = (Slice(w, 0, 6) \cup Slice(w, 25, 31) \cup b3 \cup b2) \cup Slice(w, 7, 11)
                        \cup Slice(w, 15, 19) \cup Slice(w, 20, 24) \cup Slice(w, 12, 14)
    BY <1>7, <1>8, FieldsAre, RmBack, Zenon
  <1>10. Encode(d) = w
    <2>1. Encode(d) = Slice(w, 0, 6) \cup Slice(w, 25, 31) \cup Slice(w, 7, 11)
                        \cup Slice(w, 15, 19)
                        \cup Slice(w, 20, 24) \cup Slice(w, 12, 14)
      BY <1>9
    <2> QED  BY <2>1, Slices
  <1> QED  BY <1>10 DEF Xor

\* Small numbers placed in a word.
LEMMA SmallPlaced ==
    /\ \A from \in Nat : At(0, from) = {}
    /\ At(1, 20) = {20} /\ At(2, 20) = {21} /\ At(24, 25) = {28, 29}
  <1> DEFINE bits(number) == {j \in 0 .. 11 : (number \div Weight[j + 1]) % 2 = 1}
  <1>1. /\ Weight[1] = 1 /\ Weight[2] = 2 /\ Weight[3] = 4 /\ Weight[4] = 8 /\ Weight[5] = 16
        /\ Weight[6] = 32 /\ Weight[7] = 64 /\ Weight[8] = 128 /\ Weight[9] = 256
        /\ Weight[10] = 512 /\ Weight[11] = 1024 /\ Weight[12] = 2048
    BY DEF Weight
  <1>2. \A j \in 0 .. 11 : \/ j = 0 \/ j = 1 \/ j = 2 \/ j = 3 \/ j = 4 \/ j = 5 \/ j = 6
                           \/ j = 7 \/ j = 8 \/ j = 9 \/ j = 10 \/ j = 11
    OBVIOUS
  <1>3. bits(0) = {}
    <2>1. ASSUME NEW j \in 0 .. 11 PROVE (0 \div Weight[j + 1]) % 2 = 0
      BY <1>1, <1>2
    <2> QED  BY <2>1
  <1>4. bits(1) = {0}
    <2>1. ASSUME NEW j \in 0 .. 11 PROVE (1 \div Weight[j + 1]) % 2 = 1 <=> j = 0
      BY <1>1, <1>2
    <2> QED  BY <2>1
  <1>5. bits(2) = {1}
    <2>1. ASSUME NEW j \in 0 .. 11 PROVE (2 \div Weight[j + 1]) % 2 = 1 <=> j = 1
      BY <1>1, <1>2
    <2> QED  BY <2>1
  <1>6. bits(24) = {3, 4}
    <2>1. ASSUME NEW j \in 0 .. 11 PROVE (24 \div Weight[j + 1]) % 2 = 1 <=> j \in {3, 4}
      BY <1>1, <1>2
    <2> QED  BY <2>1
  <1>7. \A number, from : At(number, from) = {i + from : i \in bits(number)}
    BY DEF At
  <1> HIDE DEF bits
  <1>8. \A from \in Nat : At(0, from) = {}
    BY <1>3, <1>7
  <1>9. At(1, 20) = {20}
    BY <1>4, <1>7
  <1>10. At(2, 20) = {21}
    BY <1>5, <1>7
  <1>11. At(24, 25) = {28, 29}
    BY <1>6, <1>7
  <1> QED  BY <1>8, <1>9, <1>10, <1>11

\* A name that decode has for the number of a register is its name.
LEMMA CsrNamed ==
    ASSUME NEW number, CsrName(number) # "unimplemented"
    PROVE  CsrNumber[CsrName(number)] = number
  BY DEF CsrName, CsrNumber

\* The rows of the system instructions.
LEMMA SystemRows ==
    /\ \A f3 \in 1 .. 7 : \A row \in Rows["System"] :
          row.type = SystemType(f3, {}) =>
              row.opcode = 115 /\ row.funct3 = f3 /\ row.funct7 = None /\ row.rs2 = None
    /\ \A row \in Rows["System"] :
          /\ row.type = "Ecall" => row = One("Ecall", 115, 0, 0, 0)
          /\ row.type = "Ebreak" => row = One("Ebreak", 115, 0, 0, 1)
          /\ row.type = "Mret" => row = One("Mret", 115, 0, 24, 2)
          /\ row.type # "invalid"
  <1>1. ASSUME NEW row \in Rows["System"]
        PROVE  \/ row \in {One("Ecall", 115, 0, 0, 0), One("Ebreak", 115, 0, 0, 1),
                           One("Mret", 115, 0, 24, 2)}
               \/ row \in {One("Csrrw", 115, 1, None, None), One("Csrrs", 115, 2, None, None),
                           One("Csrrc", 115, 3, None, None), One("Csrrwi", 115, 5, None, None),
                           One("Csrrsi", 115, 6, None, None), One("Csrrci", 115, 7, None, None)}
    BY DEF Rows, ByFunct3, ByRs2
  <1>2. ASSUME NEW row \in Rows["System"], NEW f3 \in 1 .. 7, row.type = SystemType(f3, {})
        PROVE  row.opcode = 115 /\ row.funct3 = f3 /\ row.funct7 = None /\ row.rs2 = None
    BY <1>1, <1>2 DEF One, SystemType
  <1>3. ASSUME NEW row \in Rows["System"]
        PROVE  /\ row.type = "Ecall" => row = One("Ecall", 115, 0, 0, 0)
               /\ row.type = "Ebreak" => row = One("Ebreak", 115, 0, 0, 1)
               /\ row.type = "Mret" => row = One("Mret", 115, 0, 24, 2)
               /\ row.type # "invalid"
    BY <1>1 DEF One
  <1> QED  BY <1>2, <1>3

\* What the manual's fields of a system instruction are.
LEMMA SystemFields ==
    ASSUME NEW w
    PROVE  LET d == SystemOf(w)
           IN  /\ DOMAIN d = {"op", "type", "csr", "rs1", "uimm", "rd"} /\ d.op = "System"
               /\ d.type = SystemType(get_funct3(w), get_i_type_imm(w))
               /\ d.csr = CsrName(get_zicsr_csr(w)) /\ d.rs1 = get_rs1(w) /\ d.rd = get_rd(w)
               /\ Key(d) = <<"System", d.type>>
  BY DEF SystemOf, Key

\* What a system instruction is encoded to.
LEMMA SystemEncoded ==
    ASSUME NEW d, DOMAIN d = {"op", "type", "csr", "rs1", "uimm", "rd"}, d.op = "System"
    PROVE  Encode(d) = FixedBits(Key(d)) \cup OrNothing(~IsTrap(Key(d)), At(d.rd, 7))
                        \cup OrNothing(~IsTrap(Key(d)), At(d.rs1, 15))
                        \cup OrNothing(~IsTrap(Key(d)) /\ d.csr # "unimplemented",
                                       At(CsrNumber[d.csr], 20))
  <1>1. /\ ~Has(d, "imm") /\ Has(d, "rd") /\ Has(d, "rs1")
        /\ ~Has(d, "rs2") /\ ~Has(d, "fs2") /\ ~Has(d, "rm") /\ d.op # "FmaFp"
    BY DEF Has
  <1> QED  BY <1>1 DEF Encode, OrNothing

\* The instructions that access a control and status register.
LEMMA CsrLossless ==
    ASSUME NEW w \in SUBSET (0 .. 31), get_opcode(w) = 115, get_funct3(w) # 0
    PROVE  Lossless(w, SystemOf(w))
  <1> DEFINE d == SystemOf(w)
             type == SystemType(get_funct3(w), {})
  <1> SUFFICES ASSUME Accepted(d) PROVE Xor(w, Encode(d)) \subseteq Unchecked(d)
    BY DEF Lossless
  <1>1. get_funct3(w) \in 1 .. 7
    BY FieldsAre
  <1>2. /\ DOMAIN d = {"op", "type", "csr", "rs1", "uimm", "rd"} /\ d.op = "System"
        /\ d.csr = CsrName(get_zicsr_csr(w)) /\ d.rs1 = get_rs1(w) /\ d.rd = get_rd(w)
        /\ Key(d) = <<"System", type>>
    BY SystemFields DEF SystemType
  <1> HIDE DEF d, type
  <1> DEFINE row == OpcodeMap[Key(d)]
  <1>3. row \in Rows["System"] /\ row.type = type
    <2>1. <<"System", type>> \in Keys
      BY <1>2 DEF Accepted
    <2> QED  BY <1>2, <2>1, RowOfKey
  <1> HIDE DEF row
  <1>4. \A r \in Rows["System"] : r.type = type =>
            r.opcode = 115 /\ r.funct3 = get_funct3(w) /\ r.funct7 = None /\ r.rs2 = None
    BY <1>1, SystemRows DEF type
  <1>5. ~IsTrap(Key(d))
    BY <1>3, <1>4 DEF IsTrap, row
  <1>6. FixedBits(Key(d)) = Slice(w, 0, 6) \cup Slice(w, 12, 14)
    <2>1. get_funct3(w) # None
      BY <1>1 DEF None
    <2>2. RowsTell(w, "System", type, Slice(w, 0, 6) \cup Slice(w, 12, 14))
      BY <1>4, <2>1 DEF RowsTell, HasFields, Told, OrNothing
    <2> QED  BY <1>2, <2>2, FixedOf
  <1>7. Unchecked(d) = OrNothing(d.csr = "unimplemented", 20 .. 31)
    BY <1>2, <1>5 DEF Unchecked
  <1> DEFINE csr == OrNothing(d.csr # "unimplemented", Slice(w, 20, 31))
  <1>8. Encode(d) = FixedBits(Key(d)) \cup At(get_rd(w), 7) \cup At(get_rs1(w), 15) \cup csr
    <2>1. d.csr # "unimplemented" => At(CsrNumber[d.csr], 20) = Slice(w, 20, 31)
      <3>1. d.csr # "unimplemented" => CsrNumber[d.csr] = get_zicsr_csr(w)
        BY <1>2, CsrNamed
      <3>2. At(get_zicsr_csr(w), 20) = Slice(w, 20, 31)
        BY FieldsAre
      <3> QED  BY <3>1, <3>2
    <2> QED  BY <1>2, <1>5, <2>1, SystemEncoded DEF OrNothing
  <1>9. Encode(d) = (Slice(w, 0, 6) \cup Slice(w, 12, 14)) \cup Slice(w, 7, 11)
                        \cup Slice(w, 15, 19)
                        \cup csr
    <2> HIDE DEF csr
    <2>1. At(get_rd(w), 7) = Slice(w, 7, 11) /\ At(get_rs1(w), 15) = Slice(w, 15, 19)
      BY FieldsAre
    <2> QED  BY <1>6, <1>8, <2>1
  <1>10. CASE d.csr # "unimplemented"
    <2>1. csr = Slice(w, 20, 31)
      BY <1>10 DEF OrNothing
    <2> HIDE DEF csr
    <2>2. Encode(d) = w
      BY <1>9, <2>1, Slices
    <2> QED  BY <2>2 DEF Xor
  <1>11. CASE d.csr = "unimplemented"
    <2>1. csr = {} /\ Unchecked(d) = 20 .. 31
      BY <1>7, <1>11 DEF OrNothing
    <2> HIDE DEF csr
    <2> DEFINE same == Slice(w, 0, 6) \cup Slice(w, 12, 14) \cup Slice(w, 7, 11)
                            \cup Slice(w, 15, 19)
    <2>2. Encode(d) = same
      BY <1>9, <2>1
    <2>3. w = same \cup Slice(w, 20, 31)
      BY Slices
    <2>4. Slice(w, 20, 31) \subseteq 20 .. 31
      BY DEF Slice
    <2> HIDE DEF same
    <2> QED  BY <2>1, <2>2, <2>3, <2>4 DEF Xor
  <1> QED  BY <1>10, <1>11

\* ECALL, EBREAK and MRET.
LEMMA TrapLossless ==
    ASSUME NEW w \in SUBSET (0 .. 31), get_opcode(w) = 115, get_funct3(w) = 0
    PROVE  Lossless(w, SystemOf(w))
  <1> DEFINE d == SystemOf(w)
             imm == get_i_type_imm(w)
             type == SystemType(0, imm)
  <1> SUFFICES ASSUME Accepted(d) PROVE Xor(w, Encode(d)) \subseteq Unchecked(d)
    BY DEF Lossless
  <1>1. /\ DOMAIN d = {"op", "type", "csr", "rs1", "uimm", "rd"} /\ d.op = "System"
        /\ Key(d) = <<"System", type>>
    BY SystemFields
  <1>2. \/ imm = {} /\ type = "Ecall"
        \/ imm = {0} /\ type = "Ebreak"
        \/ imm = {1, 8, 9} /\ type = "Mret"
        \/ type = "invalid"
    <2> HIDE DEF imm
    <2> QED  BY DEF SystemType
  <1>3. Laid("I", imm) = Slice(w, 20, 31)
    BY ImmediatesAre
  <1> HIDE DEF d, type, imm
  <1> DEFINE row == OpcodeMap[Key(d)]
  <1>4. row \in Rows["System"] /\ row.type = type
    <2>1. <<"System", type>> \in Keys
      BY <1>1 DEF Accepted
    <2> QED  BY <1>1, <2>1, RowOfKey
  <1> HIDE DEF row
  <1>5. /\ Laid("I", {}) = {} /\ Laid("I", {0}) = {20} /\ Laid("I", {1, 8, 9}) = {21, 28, 29}
    BY DEF Laid, Figure
  <1>6. /\ row.opcode = 115 /\ row.funct3 = 0 /\ row.funct7 # None /\ row.rs2 # None
        /\ At(row.funct7, 25) \cup At(row.rs2, 20) = Slice(w, 20, 31)
    <2>1. CASE imm = {} /\ type = "Ecall"
      <3>1. row.opcode = 115 /\ row.funct3 = 0 /\ row.funct7 = 0 /\ row.rs2 = 0
        BY <1>4, <2>1, SystemRows DEF One
      <3> QED  BY <1>3, <1>5, <2>1, <3>1, SmallPlaced DEF None
    <2>2. CASE imm = {0} /\ type = "Ebreak"
      <3>1. row.opcode = 115 /\ row.funct3 = 0 /\ row.funct7 = 0 /\ row.rs2 = 1
        BY <1>4, <2>2, SystemRows DEF One
      <3> QED  BY <1>3, <1>5, <2>2, <3>1, SmallPlaced DEF None
    <2>3. CASE imm = {1, 8, 9} /\ type = "Mret"
      <3>1. row.opcode = 115 /\ row.funct3 = 0 /\ row.funct7 = 24 /\ row.rs2 = 2
        BY <1>4, <2>3, SystemRows DEF One
      <3> QED  BY <1>3, <1>5, <2>3, <3>1, SmallPlaced DEF None
    <2> QED  BY <1>2, <1>4, <2>1, <2>2, <2>3, SystemRows
  <1>7. IsTrap(Key(d))
    BY <1>1, <1>6 DEF IsTrap, row
  <1>8. FixedBits(Key(d)) = Slice(w, 0, 6) \cup Slice(w, 12, 14) \cup Slice(w, 20, 31)
    <2>1. At(row.opcode, 0) = Slice(w, 0, 6) /\ At(row.funct3, 12) = Slice(w, 12, 14)
      <3>1. row.opcode = get_opcode(w) /\ row.funct3 = get_funct3(w)
        BY <1>6
      <3> QED  BY <3>1, FieldsAre
    <2>2. row.funct3 # None
      BY <1>6 DEF None
    <2>3. FixedBits(Key(d)) = At(row.opcode, 0) \cup At(row.funct3, 12) \cup At(row.funct7, 25)
                                  \cup At(row.rs2, 20)
      BY <1>6, <2>2 DEF FixedBits, OrNothing, row
    <2> QED  BY <1>6, <2>1, <2>3
  <1>9. Encode(d) = FixedBits(Key(d))
    <2>1. Encode(d) = FixedBits(Key(d)) \cup OrNothing(~IsTrap(Key(d)), At(d.rd, 7))
                        \cup OrNothing(~IsTrap(Key(d)), At(d.rs1, 15))
                        \cup OrNothing(~IsTrap(Key(d)) /\ d.csr # "unimplemented",
                                       At(CsrNumber[d.csr], 20))
      BY <1>1, SystemEncoded
    <2>2. \A bits : OrNothing(FALSE, bits) = {}
      BY DEF OrNothing
    <2> QED  BY <1>7, <2>1, <2>2 DEF OrNothing
  <1>10. Unchecked(d) = (7 .. 11) \cup (15 .. 19)
    BY <1>1, <1>7 DEF Unchecked
  <1> DEFINE same == Slice(w, 0, 6) \cup Slice(w, 12, 14) \cup Slice(w, 20, 31)
  <1>11. w = same \cup (Slice(w, 7, 11) \cup Slice(w, 15, 19))
    BY Slices
  <1>12. Slice(w, 7, 11) \cup Slice(w, 15, 19) \subseteq (7 .. 11) \cup (15 .. 19)
    BY Zenon DEF Slice
  <1>13. Encode(d) = same
    BY <1>8, <1>9
  <1> HIDE DEF same
  <1> QED  BY <1>10, <1>11, <1>12, <1>13 DEF Xor

\* Nothing is lost of any word.
LEMMA DecodeLossless == ASSUME NEW w \in SUBSET (0 .. 31) PROVE Lossless(w, decode(w))
  <1> DEFINE opcode == get_opcode(w)
  <1> HIDE DEF opcode
  <1>1. CASE opcode = 55
    <2>1. Rows["Lui"] = Alone(55, None)
      BY DEF Rows
    <2>2. FormatOf(WithRd("Lui", w, get_u_type_imm(w))) = "U"
      BY DEF FormatOf, WithRd
    <2>3. decode(w) = WithRd("Lui", w, get_u_type_imm(w))
      BY <1>1 DEF decode, opcode
    <2> QED  BY <1>1, <2>1, <2>2, <2>3, ImmediatesAre, WithRdLossless DEF opcode
  <1>2. CASE opcode = 23
    <2>1. Rows["Auipc"] = Alone(23, None)
      BY DEF Rows
    <2>2. FormatOf(WithRd("Auipc", w, get_u_type_imm(w))) = "U"
      BY DEF FormatOf, WithRd
    <2>3. decode(w) = WithRd("Auipc", w, get_u_type_imm(w))
      BY <1>2 DEF decode, opcode
    <2> QED  BY <1>2, <2>1, <2>2, <2>3, ImmediatesAre, WithRdLossless DEF opcode
  <1>3. CASE opcode = 111
    <2>1. Rows["Jal"] = Alone(111, None)
      BY DEF Rows
    <2>2. FormatOf(WithRd("Jal", w, get_j_type_imm(w))) = "J"
      BY DEF FormatOf, WithRd
    <2>3. decode(w) = WithRd("Jal", w, get_j_type_imm(w))
      BY <1>3 DEF decode, opcode
    <2> QED  BY <1>3, <2>1, <2>2, <2>3, ImmediatesAre, WithRdLossless DEF opcode
  <1>4. CASE opcode = 103
    <2>1. Rows["Jalr"] = Alone(103, 0)
      BY DEF Rows
    <2>2. FormatOf(WithRs1("Jalr", w)) = "I" /\ Unchecked(WithRs1("Jalr", w)) = 12 .. 14
      BY DEF FormatOf, WithRs1, Unchecked
    <2>3. decode(w) = WithRs1("Jalr", w)
      BY <1>4 DEF decode, opcode
    <2> QED  BY <1>4, <2>1, <2>2, <2>3, WithRs1Lossless DEF opcode
  <1>5. CASE opcode = 7
    <2>1. Rows["LoadFp"] = Alone(7, 2)
      BY DEF Rows
    <2>2. FormatOf(WithRs1("LoadFp", w)) = "I" /\ Unchecked(WithRs1("LoadFp", w)) = 12 .. 14
      BY DEF FormatOf, WithRs1, Unchecked
    <2>3. decode(w) = WithRs1("LoadFp", w)
      BY <1>5 DEF decode, opcode
    <2> QED  BY <1>5, <2>1, <2>2, <2>3, WithRs1Lossless DEF opcode
  <1>6. CASE opcode = 99
    <2>1. decode(w) = Typed("Branch", w, BranchType(get_funct3(w)), get_b_type_imm(w))
      BY <1>6 DEF decode, opcode
    <2> QED  BY <1>6, <2>1, BranchLossless DEF opcode
  <1>7. CASE opcode = 3
    <2>1. decode(w) = [op |-> "Load", type |-> MemAccessType(get_funct3(w)),
                       imm |-> get_i_type_imm(w), rs1 |-> get_rs1(w), rd |-> get_rd(w)]
      BY <1>7 DEF decode, opcode
    <2> QED  BY <1>7, <2>1, LoadLossless DEF opcode
  <1>8. CASE opcode = 35
    <2>1. decode(w) = Typed("Store", w, MemAccessType(get_funct3(w)), get_s_type_imm(w))
      BY <1>8 DEF decode, opcode
    <2> QED  BY <1>8, <2>1, StoreLossless DEF opcode
  <1>9. CASE opcode = 19
    <2>1. decode(w) = OpImmOf(w)
      BY <1>9 DEF decode, opcode
    <2> QED  BY <1>9, <2>1, OpImmLossless DEF opcode
  <1>10. CASE opcode = 51
    <2>1. decode(w) = Registers3("Op", w)
      BY <1>10 DEF decode, opcode
    <2> QED  BY <1>10, <2>1, OpLossless DEF opcode
  <1>11. CASE opcode = 15
    <2>1. decode(w) = [op |-> "MiscMem", type |-> MiscMemType(get_funct3(w))]
      BY <1>11 DEF decode, opcode
    <2> QED  BY <1>11, <2>1, MiscMemLossless DEF opcode
  <1>12. CASE opcode = 115
    <2>1. decode(w) = SystemOf(w)
      BY <1>12 DEF decode, opcode
    <2> QED  BY <1>12, <2>1, CsrLossless, TrapLossless DEF opcode
  <1>13. CASE opcode = 27
    <2>1. decode(w) = OpImm32Of(w)
      BY <1>13 DEF decode, opcode
    <2> QED  BY <1>13, <2>1, OpImm32Lossless DEF opcode
  <1>14. CASE opcode = 59
    <2>1. decode(w) = Registers3("Op32", w)
      BY <1>14 DEF decode, opcode
    <2> QED  BY <1>14, <2>1, Op32Lossless DEF opcode
  <1>15. CASE opcode = 39
    <2>1. decode(w) = StoreFpOf(w)
      BY <1>15 DEF decode, opcode, StoreFpOf
    <2> QED  BY <1>15, <2>1, StoreFpLossless DEF opcode
  <1>16. CASE opcode = 67
    <2>1. decode(w) = FmaFpOf(w, "MAdd")
      BY <1>16 DEF decode, opcode
    <2> QED  BY <1>16, <2>1, FmaFpLossless DEF opcode
  <1>17. CASE opcode = 71
    <2>1. decode(w) = FmaFpOf(w, "MSub")
      BY <1>17 DEF decode, opcode
    <2> QED  BY <1>17, <2>1, FmaFpLossless DEF opcode
  <1>18. CASE opcode = 75
    <2>1. decode(w) = FmaFpOf(w, "NmSub")
      BY <1>18 DEF decode, opcode
    <2> QED  BY <1>18, <2>1, FmaFpLossless DEF opcode
  <1>19. CASE opcode = 79
    <2>1. decode(w) = FmaFpOf(w, "NmAdd")
      BY <1>19 DEF decode, opcode
    <2> QED  BY <1>19, <2>1, FmaFpLossless DEF opcode
  <1>20. CASE opcode = 83
    <2>1. decode(w) = OpFpOf(w)
      BY <1>20 DEF decode, opcode
    <2> QED  BY <1>20, <2>1, OpFpLossless DEF opcode
  <1>21. CASE opcode \notin {55, 23, 111, 103, 7, 99, 3, 35, 19, 51, 15, 115, 27, 59, 39,
                             67, 71, 75, 79, 83}
    <2>1. decode(w) = InvalidWord
      BY <1>21 DEF decode, opcode
    <2> QED  BY <2>1 DEF Lossless, Accepted
  <1> QED  BY <1>1, <1>2, <1>3, <1>4, <1>5, <1>6, <1>7, <1>8, <1>9, <1>10, <1>11, <1>12, <1>13,
              <1>14, <1>15, <1>16, <1>17, <1>18, <1>19, <1>20, <1>21

\* Words that are decoded without loss, wherever they are in memory.
THEOREM DecodingLosesNothing == LoaderSpec => []DecodingIsLossless
  <1>1. DecodingIsLossless
    <2> SUFFICES ASSUME NEW addr \in CodeAddrs, Accepted(Fetched(addr))
                 PROVE  Xor(Get(mem, addr, 4), Encode(Fetched(addr)))
                            \subseteq Unchecked(Fetched(addr))
      BY Zenon DEF DecodingIsLossless
    <2>1. Get(mem, addr, 4) \in SUBSET (0 .. 31)
      BY DEF Get, Low
    <2> QED  BY <2>1, DecodeLossless DEF Lossless, Fetched
  <1> QED  BY <1>1, PTL

-----------------------------------------------------------------------------
(***************************************************************************)
(* Decoding the other way: a word that has the bits that tell an           *)
(* instruction is decoded to that instruction.  The fields of the word are *)
(* those of the row, because a number placed in a field is read back; and  *)
(* the type of every row is the one decode finds for its fields.           *)
(***************************************************************************)

\* The powers of two up to the width of a number.
LEMMA SmallPowers ==
    /\ Power[0] = 1 /\ Power[1] = 2 /\ Power[2] = 4 /\ Power[3] = 8 /\ Power[4] = 16
    /\ Power[5] = 32 /\ Power[6] = 64 /\ Power[7] = 128
  <1>1. Power[0] = 1 /\ \A j \in Nat : Power[j + 1] = 2 * Power[j]
    BY PowerFacts
  <1>2. Power[1] = 2
    BY <1>1
  <1>3. Power[2] = 4
    BY <1>1, <1>2
  <1>4. Power[3] = 8
    BY <1>1, <1>3
  <1>5. Power[4] = 16
    BY <1>1, <1>4
  <1>6. Power[5] = 32
    BY <1>1, <1>5
  <1>7. Power[6] = 64
    BY <1>1, <1>6
  <1>8. Power[7] = 128
    BY <1>1, <1>7
  <1> QED  BY <1>1, <1>2, <1>3, <1>4, <1>5, <1>6, <1>7, <1>8

\* The weights are powers of two.
LEMMA WeightsArePowers == \A j \in 0 .. 11 : Weight[j + 1] = Power[j]
  <1>1. \A j \in Nat : Power[j + 1] = 2 * Power[j]
    BY PowerFacts
  <1>2. Power[0] = 1
    BY PowerFacts
  <1> QED  BY <1>1, <1>2 DEF Weight

\* A number is placed within its field, and is what the field then holds.
LEMMA PlacedWithin ==
    ASSUME NEW k \in 1 .. 12, NEW number \in 0 .. Power[k] - 1, NEW from \in Nat
    PROVE  At(number, from) \subseteq from .. from + k - 1
  <1>1. ASSUME NEW j \in k .. 11 PROVE (number \div Power[j]) % 2 # 1
    <2>1. Power[k] <= Power[j] /\ Power[j] \in Nat /\ Power[k] \in Nat
      <3>1. k = j \/ k < j
        OBVIOUS
      <3>2. j \in Nat /\ k \in Nat
        OBVIOUS
      <3>3. Power[j] \in Nat /\ Power[k] \in Nat
        BY <3>2, PowerFacts
      <3>4. k < j => Power[k] < Power[j]
        BY <3>2, PowerGrows
      <3> QED  BY <3>1, <3>3, <3>4
    <2>2. number < Power[j] /\ number \in Nat
      BY <2>1
    <2> DEFINE p == Power[j]
    <2> HIDE DEF p
    <2>3. number \div p = 0
      BY <2>1, <2>2 DEF p
    <2> QED  BY <2>3 DEF p
  <1>2. ASSUME NEW j \in 0 .. 11, (number \div Weight[j + 1]) % 2 = 1 PROVE j <= k - 1
    BY <1>1, <1>2, WeightsArePowers
  <1> QED  BY <1>2 DEF At

\* And it is read back.
LEMMA PlacedIsRead ==
    ASSUME NEW k \in 1 .. 12, NEW number \in 0 .. Power[k] - 1, NEW from \in Nat, NEW w,
           \A p \in from .. from + k - 1 : p \in w <=> p \in At(number, from)
    PROVE  FieldNumber(w, from, k) = number
  <1> DEFINE f == Field(w, from, k)
  <1>1. \A i \in 0 .. k - 1 : i \in f <=> i + from \in w
    BY DEF Field, Low
  <1>2. \A i \in 0 .. k - 1 : i + from \in w <=> i + from \in At(number, from)
    OBVIOUS
  <1>3. \A i \in 0 .. 11 : i + from \in At(number, from) <=> (number \div Weight[i + 1]) % 2 = 1
    BY DEF At
  <1> HIDE DEF f
  <1>4. \A i \in 0 .. k - 1 : i \in f <=> (number \div Power[i]) % 2 = 1
    BY <1>1, <1>2, <1>3, WeightsArePowers
  <1>5. number \in Nat /\ k \in Nat /\ Power[k] \in Nat \ {0}
    BY PowerFacts
  <1>6. LowValue(f)[k] = number % Power[k]
    BY <1>4, <1>5, NumberOfBits
  <1>7. number % Power[k] = number
    <2> DEFINE m == Power[k]
    <2>1. m \in Nat \ {0} /\ number \in 0 .. m - 1
      BY <1>5
    <2> HIDE DEF m
    <2>2. number % m = number
      BY <2>1
    <2> QED  BY <2>2 DEF m
  <1> QED  BY <1>6, <1>7 DEF FieldNumber, Amount, f

\* The positions whose bits tell an instruction, and the words of it.
Telling(key) ==
    LET row == OpcodeMap[key]
    IN  (0 .. 6) \cup OrNothing(row.funct3 # None, 12 .. 14)
        \cup OrNothing(row.funct7 # None,
                       IF key[1] = "FmaFp" THEN 25 .. 26
                       ELSE IF key[1] = "OpImm" THEN 26 .. 31 ELSE 25 .. 31)
        \cup OrNothing(row.rs2 # None, 20 .. 24)
IsWordOf(w, key) == \A p \in Telling(key) : p \in w <=> p \in FixedBits(key)

\* The fields of the rows are in the range of the fields of a word.
InFields(row) ==
    /\ row.opcode \in 0 .. 127 /\ row.funct3 \in {None} \cup 0 .. 7
    /\ row.funct7 \in {None} \cup 0 .. 127 /\ row.rs2 \in {None} \cup 0 .. 31

\* Every row has such fields.
LEMMA RowsInFields == \A op \in DOMAIN Rows : \A row \in Rows[op] : InFields(row)
  <1>1. \A opcode \in 0 .. 127 : \A funct3 \in {None} \cup 0 .. 7 :
            \A row \in Alone(opcode, funct3) : InFields(row)
    <2> SUFFICES ASSUME NEW opcode \in 0 .. 127, NEW funct3 \in {None} \cup 0 .. 7,
                        NEW row \in Alone(opcode, funct3)
                 PROVE  InFields(row)
      BY Zenon
    <2>1. row = One("", opcode, funct3, None, None)
      BY DEF Alone
    <2>2. row.opcode = opcode /\ row.funct3 = funct3 /\ row.funct7 = None /\ row.rs2 = None
      BY <2>1 DEF One
    <2> QED  BY <2>2 DEF InFields
  <1>2. /\ Rows["Lui"] = Alone(55, None) /\ Rows["Auipc"] = Alone(23, None)
        /\ Rows["Jal"] = Alone(111, None) /\ Rows["Jalr"] = Alone(103, 0)
        /\ Rows["LoadFp"] = Alone(7, 2) /\ Rows["StoreFp"] = Alone(39, 2)
    BY DEF Rows
  <1>3. \A op \in {"Lui", "Auipc", "Jal", "Jalr", "LoadFp", "StoreFp"} :
            \A row \in Rows[op] : InFields(row)
    BY <1>1, <1>2
  <1>4. \A row \in Rows["Branch"] : InFields(row)
    BY DEF Rows, ByFunct3, ByRs2, One, None, InFields
  <1>5. \A row \in Rows["Load"] : InFields(row)
    BY DEF Rows, ByFunct3, ByRs2, One, None, InFields
  <1>6. \A row \in Rows["Store"] : InFields(row)
    BY DEF Rows, ByFunct3, ByRs2, One, None, InFields
  <1>7. \A row \in Rows["OpImm"] : InFields(row)
    BY DEF Rows, ByFunct3, ByRs2, One, None, InFields
  <1>8. \A row \in Rows["MiscMem"] : InFields(row)
    BY DEF Rows, ByFunct3, ByRs2, One, None, InFields
  <1>9. \A row \in Rows["System"] : InFields(row)
    BY DEF Rows, ByFunct3, ByRs2, One, None, InFields
  <1>10. \A row \in Rows["OpImm32"] : InFields(row)
    BY DEF Rows, ByFunct3, ByRs2, One, None, InFields
  <1>11. \A row \in Rows["Op32"] : InFields(row)
    BY DEF Rows, ByFunct3, ByRs2, One, None, InFields
  <1>12. \A row \in Rows["FmaFp"] : InFields(row)
    BY DEF Rows, ByFunct3, ByRs2, One, None, InFields
  <1>13. \A row \in Rows["OpFp"] : InFields(row)
    BY DEF Rows, ByFunct3, ByRs2, One, None, InFields
  <1>14. \A row \in Rows["Op"] : InFields(row)
    BY DEF Rows, ByFunct3, ByRs2, One, None, InFields
  <1>15. DOMAIN Rows = {"Lui", "Auipc", "Jal", "Jalr", "Branch", "Load", "Store", "OpImm", "Op",
                        "MiscMem", "System", "OpImm32", "Op32", "LoadFp", "StoreFp", "FmaFp",
                        "OpFp"}
    BY DEF Rows
  <1> QED  BY <1>3, <1>4, <1>5, <1>6, <1>7, <1>8, <1>9, <1>10, <1>11, <1>12, <1>13, <1>14,
              <1>15

\* So the bits that tell an instruction come in the slices of its fields.
LEMMA FixedWithin ==
    ASSUME NEW key, InFields(OpcodeMap[key])
    PROVE  LET row == OpcodeMap[key]
           IN  /\ \A p \in 0 .. 6 : p \in FixedBits(key) <=> p \in At(row.opcode, 0)
               /\ row.funct3 # None =>
                    \A p \in 12 .. 14 : p \in FixedBits(key) <=> p \in At(row.funct3, 12)
               /\ row.funct7 # None =>
                    \A p \in 25 .. 31 : p \in FixedBits(key) <=> p \in At(row.funct7, 25)
               /\ row.rs2 # None =>
                    \A p \in 20 .. 24 : p \in FixedBits(key) <=> p \in At(row.rs2, 20)
  <1> DEFINE row == OpcodeMap[key]
             b3 == OrNothing(row.funct3 # None, At(row.funct3, 12))
             b7 == OrNothing(row.funct7 # None, At(row.funct7, 25))
             b2 == OrNothing(row.rs2 # None, At(row.rs2, 20))
  <1>1. At(row.opcode, 0) \subseteq 0 .. 6
    <2>1. row.opcode \in 0 .. Power[7] - 1 /\ 7 \in 1 .. 12 /\ 0 \in Nat
      BY SmallPowers DEF InFields
    <2> HIDE DEF row
    <2>2. At(row.opcode, 0) \subseteq 0 .. 0 + 7 - 1
      BY <2>1, PlacedWithin
    <2> QED  BY <2>2
  <1>2. b3 \subseteq 12 .. 14
    <2>1. row.funct3 # None => row.funct3 \in 0 .. 7
      BY DEF InFields
    <2>2. row.funct3 # None => At(row.funct3, 12) \subseteq 12 .. 14
      <3>1. row.funct3 # None => row.funct3 \in 0 .. Power[3] - 1
        BY <2>1, SmallPowers
      <3>2. 3 \in 1 .. 12 /\ 12 \in Nat
        OBVIOUS
      <3> HIDE DEF row
      <3>3. row.funct3 # None => At(row.funct3, 12) \subseteq 12 .. 12 + 3 - 1
        BY <3>1, <3>2, PlacedWithin
      <3> QED  BY <3>3
    <2> QED  BY <2>2 DEF OrNothing
  <1>3. b7 \subseteq 25 .. 31
    <2>1. row.funct7 # None => row.funct7 \in 0 .. 127
      BY DEF InFields
    <2>2. row.funct7 # None => At(row.funct7, 25) \subseteq 25 .. 31
      <3>1. row.funct7 # None => row.funct7 \in 0 .. Power[7] - 1
        BY <2>1, SmallPowers
      <3>2. 7 \in 1 .. 12 /\ 25 \in Nat
        OBVIOUS
      <3> HIDE DEF row
      <3>3. row.funct7 # None => At(row.funct7, 25) \subseteq 25 .. 25 + 7 - 1
        BY <3>1, <3>2, PlacedWithin
      <3> QED  BY <3>3
    <2> QED  BY <2>2 DEF OrNothing
  <1>4. b2 \subseteq 20 .. 24
    <2>1. row.rs2 # None => row.rs2 \in 0 .. 31
      BY DEF InFields
    <2>2. row.rs2 # None => At(row.rs2, 20) \subseteq 20 .. 24
      <3>1. row.rs2 # None => row.rs2 \in 0 .. Power[5] - 1
        BY <2>1, SmallPowers
      <3>2. 5 \in 1 .. 12 /\ 20 \in Nat
        OBVIOUS
      <3> HIDE DEF row
      <3>3. row.rs2 # None => At(row.rs2, 20) \subseteq 20 .. 20 + 5 - 1
        BY <3>1, <3>2, PlacedWithin
      <3> QED  BY <3>3
    <2> QED  BY <2>2 DEF OrNothing
  <1>5. FixedBits(key) = At(row.opcode, 0) \cup b3 \cup b7 \cup b2
    BY Zenon DEF FixedBits
  <1>6. /\ row.funct3 # None => b3 = At(row.funct3, 12)
        /\ row.funct7 # None => b7 = At(row.funct7, 25)
        /\ row.rs2 # None => b2 = At(row.rs2, 20)
    BY DEF OrNothing
  <1> HIDE DEF row, b3, b7, b2
  <1>7. /\ \A p \in 0 .. 6 : p \in FixedBits(key) <=> p \in At(row.opcode, 0)
        /\ \A p \in 12 .. 14 : p \in FixedBits(key) <=> p \in b3
        /\ \A p \in 25 .. 31 : p \in FixedBits(key) <=> p \in b7
        /\ \A p \in 20 .. 24 : p \in FixedBits(key) <=> p \in b2
    BY <1>1, <1>2, <1>3, <1>4, <1>5
  <1> QED  BY <1>6, <1>7 DEF row

\* The fields of a word of an instruction are those of its row.
LEMMA FieldsTold ==
    ASSUME NEW w, NEW key, InFields(OpcodeMap[key]), IsWordOf(w, key)
    PROVE  LET row == OpcodeMap[key]
           IN  /\ get_opcode(w) = row.opcode
               /\ row.funct3 # None => get_funct3(w) = row.funct3
               /\ row.funct7 # None /\ key[1] \notin {"FmaFp", "OpImm"} =>
                    get_funct7(w) = row.funct7
               /\ row.rs2 # None => get_rs2(w) = row.rs2
  <1> DEFINE row == OpcodeMap[key]
  <1> HIDE DEF row
  <1>1. get_opcode(w) = row.opcode
    <2>1. \A p \in 0 .. 0 + 7 - 1 : p \in w <=> p \in At(row.opcode, 0)
      BY FixedWithin DEF IsWordOf, Telling, row
    <2>2. row.opcode \in 0 .. Power[7] - 1 /\ 7 \in 1 .. 12 /\ 0 \in Nat
      BY SmallPowers DEF InFields, row
    <2> QED  BY <2>1, <2>2, PlacedIsRead DEF get_opcode
  <1>2. ASSUME row.funct3 # None PROVE get_funct3(w) = row.funct3
    <2>1. \A p \in 12 .. 12 + 3 - 1 : p \in w <=> p \in At(row.funct3, 12)
      BY <1>2, FixedWithin DEF IsWordOf, Telling, OrNothing, row
    <2>2. row.funct3 \in 0 .. Power[3] - 1 /\ 3 \in 1 .. 12 /\ 12 \in Nat
      BY <1>2, SmallPowers DEF InFields, row
    <2> QED  BY <2>1, <2>2, PlacedIsRead DEF get_funct3
  <1>3. ASSUME row.funct7 # None, key[1] \notin {"FmaFp", "OpImm"} PROVE get_funct7(w) = row.funct7
    <2>1. \A p \in 25 .. 25 + 7 - 1 : p \in w <=> p \in At(row.funct7, 25)
      BY <1>3, FixedWithin DEF IsWordOf, Telling, OrNothing, row
    <2>2. row.funct7 \in 0 .. Power[7] - 1 /\ 7 \in 1 .. 12 /\ 25 \in Nat
      BY <1>3, SmallPowers DEF InFields, row
    <2> QED  BY <2>1, <2>2, PlacedIsRead DEF get_funct7
  <1>4. ASSUME row.rs2 # None PROVE get_rs2(w) = row.rs2
    <2>1. \A p \in 20 .. 20 + 5 - 1 : p \in w <=> p \in At(row.rs2, 20)
      BY <1>4, FixedWithin DEF IsWordOf, Telling, OrNothing, row
    <2>2. row.rs2 \in 0 .. Power[5] - 1 /\ 5 \in 1 .. 12 /\ 20 \in Nat
      BY <1>4, SmallPowers DEF InFields, row
    <2> QED  BY <2>1, <2>2, PlacedIsRead DEF get_rs2
  <1> QED  BY <1>1, <1>2, <1>3, <1>4 DEF row

\* Two are read otherwise.  The first is the format of the fused operations.
LEMMA FormatTold ==
    ASSUME NEW w, NEW type, InFields(OpcodeMap[<<"FmaFp", type>>]), IsWordOf(w, <<"FmaFp", type>>),
           OpcodeMap[<<"FmaFp", type>>].funct7 = 0
    PROVE  get_fmt(w) = 0
  <1> DEFINE key == <<"FmaFp", type>>
             row == OpcodeMap[key]
  <1>1. row.funct7 # None /\ key[1] = "FmaFp"
    BY DEF None
  <1>2. row.funct7 = 0
    OBVIOUS
  <1> HIDE DEF row, key
  <1>3. \A p \in 25 .. 25 + 2 - 1 : p \in w <=> p \in At(0, 25)
    BY <1>1, <1>2, FixedWithin DEF IsWordOf, Telling, OrNothing, row, key
  <1>4. 0 \in 0 .. Power[2] - 1 /\ 2 \in 1 .. 12 /\ 25 \in Nat
    BY SmallPowers
  <1> QED  BY <1>3, <1>4, PlacedIsRead DEF get_fmt

\* The second is what the 64-bit shifts have for funct7.
LEMMA ShiftTold ==
    ASSUME NEW w \in SUBSET (0 .. 31), NEW type, InFields(OpcodeMap[<<"OpImm", type>>]),
           IsWordOf(w, <<"OpImm", type>>), OpcodeMap[<<"OpImm", type>>].funct7 \in {0, 32}
    PROVE  2 * FieldNumber(w, 26, 6) = OpcodeMap[<<"OpImm", type>>].funct7
  <1> DEFINE key == <<"OpImm", type>>
             row == OpcodeMap[key]
             v == w \ {25}
  <1>1. row.funct7 # None /\ key[1] = "OpImm" /\ row.funct7 \in {0, 32}
    BY DEF None
  <1> HIDE DEF row, key
  <1>2. \A p \in 26 .. 31 : p \in w <=> p \in At(row.funct7, 25)
    BY <1>1, FixedWithin DEF IsWordOf, Telling, OrNothing, row, key
  <1>3. 25 \notin At(row.funct7, 25)
    <2>1. Weight[1] = 1
      BY DEF Weight
    <2>2. (row.funct7 \div 1) % 2 # 1
      BY <1>1
    <2>3. \A j \in 0 .. 11 : j + 25 = 25 => j = 0
      OBVIOUS
    <2> QED  BY <2>1, <2>2, <2>3 DEF At
  <1>4. \A p \in 25 .. 25 + 7 - 1 : p \in v <=> p \in At(row.funct7, 25)
    BY <1>2, <1>3
  <1>5. row.funct7 \in 0 .. Power[7] - 1 /\ 7 \in 1 .. 12 /\ 25 \in Nat
    BY <1>1, SmallPowers
  <1>6. get_funct7(v) = row.funct7
    <2> HIDE DEF v
    <2> QED  BY <1>4, <1>5, PlacedIsRead DEF get_funct7
  <1> QED  BY <1>6, FunctOfShift DEF row, key

\* The types of the rows are those decode finds for their fields.
LEMMA TypesOfRows ==
    /\ \A row \in Rows["Branch"] :
          row.opcode = 99 /\ row.funct3 # None /\ row.type = BranchType(row.funct3)
    /\ \A row \in Rows["Load"] :
          row.opcode = 3 /\ row.funct3 # None /\ row.type = MemAccessType(row.funct3)
    /\ \A row \in Rows["Store"] :
          row.opcode = 35 /\ row.funct3 # None /\ row.type = MemAccessType(row.funct3)
    /\ \A row \in Rows["MiscMem"] :
          row.opcode = 15 /\ row.funct3 # None /\ row.type = MiscMemType(row.funct3)
    /\ \A row \in Rows["Op32"] :
          /\ row.opcode = 59 /\ row.funct3 # None /\ row.funct7 # None
          /\ row.type = OpType(row.funct7, row.funct3)
    /\ \A row \in Rows["FmaFp"] :
          /\ row.funct7 = 0
          /\ <<row.opcode, row.type>> \in {<<67, "MAdd">>, <<71, "MSub">>, <<75, "NmSub">>,
                                           <<79, "NmAdd">>}
  <1>1. \A row \in Rows["Branch"] :
          row.opcode = 99 /\ row.funct3 # None /\ row.type = BranchType(row.funct3)
    BY DEF Rows, ByFunct3, One, None, BranchType
  <1>2. \A row \in Rows["Load"] :
          row.opcode = 3 /\ row.funct3 # None /\ row.type = MemAccessType(row.funct3)
    BY DEF Rows, ByFunct3, One, None, MemAccessType
  <1>3. \A row \in Rows["Store"] :
          row.opcode = 35 /\ row.funct3 # None /\ row.type = MemAccessType(row.funct3)
    BY DEF Rows, ByFunct3, One, None, MemAccessType
  <1>4. \A row \in Rows["MiscMem"] :
          row.opcode = 15 /\ row.funct3 # None /\ row.type = MiscMemType(row.funct3)
    BY DEF Rows, ByFunct3, One, None, MiscMemType
  <1>5. \A row \in Rows["Op32"] :
          /\ row.opcode = 59 /\ row.funct3 # None /\ row.funct7 # None
          /\ row.type = OpType(row.funct7, row.funct3)
    BY DEF Rows, ByFunct3, One, None, OpType
  <1>6. \A row \in Rows["FmaFp"] :
          /\ row.funct7 = 0
          /\ <<row.opcode, row.type>> \in {<<67, "MAdd">>, <<71, "MSub">>, <<75, "NmSub">>,
                                           <<79, "NmAdd">>}
    BY DEF Rows, One
  <1> QED  BY <1>1, <1>2, <1>3, <1>4, <1>5, <1>6

\* So are those of the register operations.
LEMMA TypesOfOps ==
    \A row \in Rows["Op"] :
        /\ row.opcode = 51 /\ row.funct3 # None /\ row.funct7 # None
        /\ row.type = OpType(row.funct7, row.funct3)
  BY DEF Rows, ByFunct3, One, None, OpType

\* Of the immediate operations, those that shift have a funct7.
ShiftOrNot(row) ==
    /\ row.funct3 # None
    /\ row.funct7 = None => ~IsShift(row.funct3) /\ row.type = OpType(0, row.funct3)
    /\ row.funct7 # None =>
          /\ IsShift(row.funct3) /\ row.funct7 \in {0, 32}
          /\ row.type = OpType(row.funct7, row.funct3)

\* All of the immediate operations.
LEMMA TypesOfOpImms ==
    /\ \A row \in Rows["OpImm"] : row.opcode = 19 /\ ShiftOrNot(row)
    /\ \A row \in Rows["OpImm32"] : row.opcode = 27 /\ ShiftOrNot(row)
  <1>1. \A row \in Rows["OpImm"] : row.opcode = 19 /\ ShiftOrNot(row)
    BY DEF Rows, ByFunct3, One, None, OpType, ShiftOrNot, IsShift
  <1>2. \A row \in Rows["OpImm32"] : row.opcode = 27 /\ ShiftOrNot(row)
    BY DEF Rows, ByFunct3, One, None, OpType, ShiftOrNot, IsShift
  <1> QED  BY <1>1, <1>2

\* The floating-point operations, whatever is in the fields their rows leave open.
OpFpTyped(row) ==
    /\ row.opcode = 83 /\ row.funct7 # None /\ row.type # "throws"
    /\ \A f3 \in 0 .. 7 : \A f2 \in 0 .. 31 :
          row.funct3 \in {None, f3} /\ row.rs2 \in {None, f2} =>
              row.type = OpFpType(row.funct7, f3, f2)
OpFpTold(type, funct3, funct7, rs2) ==
    /\ funct7 # None /\ type # "throws"
    /\ \A f3 \in 0 .. 7 : \A f2 \in 0 .. 31 :
          funct3 \in {None, f3} /\ rs2 \in {None, f2} => type = OpFpType(funct7, f3, f2)

\* A row with those fields has the type.
LEMMA OneTyped ==
    ASSUME NEW type, NEW funct3, NEW funct7, NEW rs2, OpFpTold(type, funct3, funct7, rs2)
    PROVE  OpFpTyped(One(type, 83, funct3, funct7, rs2))
  BY DEF OpFpTyped, One, OpFpTold

\* All of the floating-point operations.
LEMMA TypesOfOpFps == \A row \in Rows["OpFp"] : OpFpTyped(row)
  <1> DEFINE plain == {One("Add", 83, None, 0, None), One("Sub", 83, None, 4, None),
                       One("Mul", 83, None, 8, None), One("Div", 83, None, 12, None)}
             root == {One("Sqrt", 83, None, 44, 0)}
             signs == {One("Sgnj", 83, 0, 16, None), One("Sgnjn", 83, 1, 16, None),
                       One("Sgnjx", 83, 2, 16, None)}
             ends == {One("Min", 83, 0, 20, None), One("Max", 83, 1, 20, None)}
             orders == {One("Le", 83, 0, 80, None), One("Lt", 83, 1, 80, None),
                        One("Eq", 83, 2, 80, None)}
             out == {One("CvtWFromS", 83, None, 96, 0), One("CvtWuFromS", 83, None, 96, 1),
                     One("CvtLFromS", 83, None, 96, 2), One("CvtLuFromS", 83, None, 96, 3)}
             in == {One("CvtSToW", 83, None, 104, 0), One("CvtSToWu", 83, None, 104, 1),
                    One("CvtSToL", 83, None, 104, 2), One("CvtSToLu", 83, None, 104, 3)}
             moves == {One("MoveToX", 83, 0, 112, 0), One("Class", 83, 1, 112, 0),
                       One("MoveFromX", 83, 0, 120, 0)}
  <1>1. \A row \in Rows["OpFp"] :
            \/ row \in plain \/ row \in root \/ row \in signs \/ row \in ends
            \/ row \in orders \/ row \in out \/ row \in in \/ row \in moves
    BY DEF Rows, ByFunct3, ByRs2
  <1>2. \A row \in plain : OpFpTyped(row)
    <2>1. OpFpTold("Add", None, 0, None)
      BY DEF OpFpTold, None, OpFpType, Nth
    <2>2. OpFpTold("Sub", None, 4, None)
      BY DEF OpFpTold, None, OpFpType, Nth
    <2>3. OpFpTold("Mul", None, 8, None)
      BY DEF OpFpTold, None, OpFpType, Nth
    <2>4. OpFpTold("Div", None, 12, None)
      BY DEF OpFpTold, None, OpFpType, Nth
    <2> QED  BY <2>1, <2>2, <2>3, <2>4, OneTyped
  <1>3. \A row \in root : OpFpTyped(row)
    <2>1. OpFpTold("Sqrt", None, 44, 0)
      BY DEF OpFpTold, None, OpFpType, Nth
    <2> QED  BY <2>1, OneTyped
  <1>4. \A row \in signs : OpFpTyped(row)
    <2>1. OpFpTold("Sgnj", 0, 16, None)
      BY DEF OpFpTold, None, OpFpType, Nth
    <2>2. OpFpTold("Sgnjn", 1, 16, None)
      BY DEF OpFpTold, None, OpFpType, Nth
    <2>3. OpFpTold("Sgnjx", 2, 16, None)
      BY DEF OpFpTold, None, OpFpType, Nth
    <2> QED  BY <2>1, <2>2, <2>3, OneTyped
  <1>5. \A row \in ends : OpFpTyped(row)
    <2>1. OpFpTold("Min", 0, 20, None)
      BY DEF OpFpTold, None, OpFpType, Nth
    <2>2. OpFpTold("Max", 1, 20, None)
      BY DEF OpFpTold, None, OpFpType, Nth
    <2> QED  BY <2>1, <2>2, OneTyped
  <1>6. \A row \in orders : OpFpTyped(row)
    <2>1. OpFpTold("Le", 0, 80, None)
      BY DEF OpFpTold, None, OpFpType, Nth
    <2>2. OpFpTold("Lt", 1, 80, None)
      BY DEF OpFpTold, None, OpFpType, Nth
    <2>3. OpFpTold("Eq", 2, 80, None)
      BY DEF OpFpTold, None, OpFpType, Nth
    <2> QED  BY <2>1, <2>2, <2>3, OneTyped
  <1>7. \A row \in out : OpFpTyped(row)
    <2>1. OpFpTold("CvtWFromS", None, 96, 0)
      BY DEF OpFpTold, None, OpFpType, Nth
    <2>2. OpFpTold("CvtWuFromS", None, 96, 1)
      BY DEF OpFpTold, None, OpFpType, Nth
    <2>3. OpFpTold("CvtLFromS", None, 96, 2)
      BY DEF OpFpTold, None, OpFpType, Nth
    <2>4. OpFpTold("CvtLuFromS", None, 96, 3)
      BY DEF OpFpTold, None, OpFpType, Nth
    <2> QED  BY <2>1, <2>2, <2>3, <2>4, OneTyped
  <1>8. \A row \in in : OpFpTyped(row)
    <2>1. OpFpTold("CvtSToW", None, 104, 0)
      BY DEF OpFpTold, None, OpFpType, Nth
    <2>2. OpFpTold("CvtSToWu", None, 104, 1)
      BY DEF OpFpTold, None, OpFpType, Nth
    <2>3. OpFpTold("CvtSToL", None, 104, 2)
      BY DEF OpFpTold, None, OpFpType, Nth
    <2>4. OpFpTold("CvtSToLu", None, 104, 3)
      BY DEF OpFpTold, None, OpFpType, Nth
    <2> QED  BY <2>1, <2>2, <2>3, <2>4, OneTyped
  <1>9. \A row \in moves : OpFpTyped(row)
    <2>1. OpFpTold("MoveToX", 0, 112, 0)
      BY DEF OpFpTold, None, OpFpType, Nth
    <2>2. OpFpTold("Class", 1, 112, 0)
      BY DEF OpFpTold, None, OpFpType, Nth
    <2>3. OpFpTold("MoveFromX", 0, 120, 0)
      BY DEF OpFpTold, None, OpFpType, Nth
    <2> QED  BY <2>1, <2>2, <2>3, OneTyped
  <1> HIDE DEF plain, root, signs, ends, orders, out, in, moves
  <1> QED  BY <1>1, <1>2, <1>3, <1>4, <1>5, <1>6, <1>7, <1>8, <1>9

\* The system instructions.
LEMMA TypesOfSystem ==
    \A row \in Rows["System"] :
        /\ row.opcode = 115 /\ row.funct3 # None
        /\ row.funct7 = None =>
              /\ row.funct3 # 0 /\ row.rs2 = None
              /\ \A imm : row.type = SystemType(row.funct3, imm)
        /\ row.funct7 # None =>
              row \in {One("Ecall", 115, 0, 0, 0), One("Ebreak", 115, 0, 0, 1),
                       One("Mret", 115, 0, 24, 2)}
  <1>1. ASSUME NEW row \in Rows["System"]
        PROVE  \/ row \in {One("Ecall", 115, 0, 0, 0), One("Ebreak", 115, 0, 0, 1),
                           One("Mret", 115, 0, 24, 2)}
               \/ row \in {One("Csrrw", 115, 1, None, None), One("Csrrs", 115, 2, None, None),
                           One("Csrrc", 115, 3, None, None), One("Csrrwi", 115, 5, None, None),
                           One("Csrrsi", 115, 6, None, None), One("Csrrci", 115, 7, None, None)}
    BY DEF Rows, ByFunct3, ByRs2
  <1> QED  BY <1>1 DEF One, None, SystemType

\* A row of an operation whose fields a word has.
Tells(w, op, row) ==
    /\ row \in Rows[op] /\ get_opcode(w) = row.opcode
    /\ row.funct3 # None => get_funct3(w) = row.funct3
    /\ row.funct7 # None /\ op \notin {"FmaFp", "OpImm"} => get_funct7(w) = row.funct7
    /\ row.rs2 # None => get_rs2(w) = row.rs2

\* The row of the instruction that a word has the bits of.
LEMMA RowTells ==
    ASSUME NEW w, NEW op, NEW type, <<op, type>> \in Keys, IsWordOf(w, <<op, type>>)
    PROVE  LET row == OpcodeMap[<<op, type>>]
           IN  Tells(w, op, row) /\ row.type = type /\ InFields(row)
  <1> DEFINE key == <<op, type>>
             row == OpcodeMap[key]
  <1>1. row \in Rows[op] /\ row.type = type
    BY RowOfKey
  <1>2. op \in DOMAIN Rows
    <2>1. PICK o \in DOMAIN Rows : \E r \in Rows[o] : <<op, type>> = <<o, r.type>>
      BY Zenon DEF Keys
    <2> QED  BY <2>1
  <1>3. InFields(row)
    BY <1>1, <1>2, RowsInFields
  <1>4. /\ get_opcode(w) = row.opcode
        /\ row.funct3 # None => get_funct3(w) = row.funct3
        /\ row.funct7 # None /\ key[1] \notin {"FmaFp", "OpImm"} => get_funct7(w) = row.funct7
        /\ row.rs2 # None => get_rs2(w) = row.rs2
    BY <1>3, FieldsTold
  <1>5. key[1] = op
    OBVIOUS
  <1> HIDE DEF row, key
  <1>6. Tells(w, op, row)
    BY <1>1, <1>4, <1>5 DEF Tells
  <1> QED  BY <1>1, <1>3, <1>6 DEF row, key

\* The instructions that their opcodes alone tell.
LEMMA AloneDecoded ==
    ASSUME NEW w, NEW op \in {"Lui", "Auipc", "Jal", "Jalr", "LoadFp", "StoreFp"}, NEW row,
           Tells(w, op, row)
    PROVE  Key(decode(w)) = <<op, row.type>>
  <1>1. ASSUME NEW opcode, NEW funct3, Rows[op] = Alone(opcode, funct3)
        PROVE  get_opcode(w) = opcode /\ row.type = ""
    <2>1. row = One("", opcode, funct3, None, None)
      BY <1>1 DEF Tells, Alone
    <2>2. row.opcode = opcode /\ row.type = ""
      BY <2>1 DEF One
    <2> QED  BY <2>2 DEF Tells
  <1>2. /\ Rows["Lui"] = Alone(55, None) /\ Rows["Auipc"] = Alone(23, None)
        /\ Rows["Jal"] = Alone(111, None) /\ Rows["Jalr"] = Alone(103, 0)
        /\ Rows["LoadFp"] = Alone(7, 2) /\ Rows["StoreFp"] = Alone(39, 2)
    BY DEF Rows
  <1>3. \A o, imm : Key(WithRd(o, w, imm)) = <<o, "">>
    BY DEF Key, WithRd
  <1>4. \A o : Key(WithRs1(o, w)) = <<o, "">>
    BY DEF Key, WithRs1
  <1>5. CASE op = "Lui"
    <2>1. Rows[op] = Alone(55, None)
      BY <1>2, <1>5, Zenon
    <2>2. get_opcode(w) = 55
      BY <1>1, <2>1, Zenon
    <2>3. row.type = ""
      BY <1>1, <2>1, Zenon
    <2>4. decode(w) = WithRd("Lui", w, get_u_type_imm(w))
      BY <2>2 DEF decode
    <2> QED  BY <1>3, <1>5, <2>3, <2>4
  <1>6. CASE op = "Auipc"
    <2>1. Rows[op] = Alone(23, None)
      BY <1>2, <1>6, Zenon
    <2>2. get_opcode(w) = 23
      BY <1>1, <2>1, Zenon
    <2>3. row.type = ""
      BY <1>1, <2>1, Zenon
    <2>4. decode(w) = WithRd("Auipc", w, get_u_type_imm(w))
      BY <2>2 DEF decode
    <2> QED  BY <1>3, <1>6, <2>3, <2>4
  <1>7. CASE op = "Jal"
    <2>1. Rows[op] = Alone(111, None)
      BY <1>2, <1>7, Zenon
    <2>2. get_opcode(w) = 111
      BY <1>1, <2>1, Zenon
    <2>3. row.type = ""
      BY <1>1, <2>1, Zenon
    <2>4. decode(w) = WithRd("Jal", w, get_j_type_imm(w))
      BY <2>2 DEF decode
    <2> QED  BY <1>3, <1>7, <2>3, <2>4
  <1>8. CASE op = "Jalr"
    <2>1. Rows[op] = Alone(103, 0)
      BY <1>2, <1>8, Zenon
    <2>2. get_opcode(w) = 103
      BY <1>1, <2>1, Zenon
    <2>3. row.type = ""
      BY <1>1, <2>1, Zenon
    <2>4. decode(w) = WithRs1("Jalr", w)
      BY <2>2 DEF decode
    <2> QED  BY <1>4, <1>8, <2>3, <2>4
  <1>9. CASE op = "LoadFp"
    <2>1. Rows[op] = Alone(7, 2)
      BY <1>2, <1>9, Zenon
    <2>2. get_opcode(w) = 7
      BY <1>1, <2>1, Zenon
    <2>3. row.type = ""
      BY <1>1, <2>1, Zenon
    <2>4. decode(w) = WithRs1("LoadFp", w)
      BY <2>2 DEF decode
    <2> QED  BY <1>4, <1>9, <2>3, <2>4
  <1>10. CASE op = "StoreFp"
    <2>1. Rows[op] = Alone(39, 2)
      BY <1>2, <1>10, Zenon
    <2>2. get_opcode(w) = 39
      BY <1>1, <2>1, Zenon
    <2>3. row.type = ""
      BY <1>1, <2>1, Zenon
    <2>4. decode(w) = [op |-> "StoreFp", imm |-> get_s_type_imm(w),
                       rs1 |-> get_rs1(w), rs2 |-> get_rs2(w)]
      BY <2>2 DEF decode
    <2>5. Key(decode(w)) = <<"StoreFp", "">>
      BY <2>4 DEF Key
    <2> QED  BY <1>10, <2>3, <2>5
  <1> QED  BY <1>5, <1>6, <1>7, <1>8, <1>9, <1>10

\* Those that funct3 tells, and the register operations.
LEMMA ByFunctDecoded ==
    ASSUME NEW w, NEW op \in {"Branch", "Load", "Store", "MiscMem", "Op", "Op32"}, NEW row,
           Tells(w, op, row)
    PROVE  Key(decode(w)) = <<op, row.type>>
  <1> DEFINE funct3 == get_funct3(w)
  <1>1. \A o, t, imm : Key(Typed(o, w, t, imm)) = <<o, t>>
    BY DEF Key, Typed
  <1>2. \A o : Key(Registers3(o, w)) = <<o, OpType(get_funct7(w), get_funct3(w))>>
    BY DEF Key, Registers3
  <1>3. CASE op = "Branch"
    <2>1. get_opcode(w) = 99 /\ row.type = BranchType(get_funct3(w))
      BY <1>3, TypesOfRows DEF Tells
    <2>2. decode(w) = Typed("Branch", w, BranchType(get_funct3(w)), get_b_type_imm(w))
      BY <2>1 DEF decode
    <2> QED  BY <1>1, <1>3, <2>1, <2>2
  <1>4. CASE op = "Load"
    <2>1. get_opcode(w) = 3 /\ row.type = MemAccessType(get_funct3(w))
      BY <1>4, TypesOfRows DEF Tells
    <2>2. decode(w) = [op |-> "Load", type |-> MemAccessType(get_funct3(w)),
                       imm |-> get_i_type_imm(w), rs1 |-> get_rs1(w), rd |-> get_rd(w)]
      BY <2>1 DEF decode
    <2> QED  BY <1>4, <2>1, <2>2 DEF Key
  <1>5. CASE op = "Store"
    <2>1. get_opcode(w) = 35 /\ row.type = MemAccessType(get_funct3(w))
      BY <1>5, TypesOfRows DEF Tells
    <2>2. decode(w) = Typed("Store", w, MemAccessType(get_funct3(w)), get_s_type_imm(w))
      BY <2>1 DEF decode
    <2> QED  BY <1>1, <1>5, <2>1, <2>2
  <1>6. CASE op = "MiscMem"
    <2>1. get_opcode(w) = 15 /\ row.type = MiscMemType(get_funct3(w))
      BY <1>6, TypesOfRows DEF Tells
    <2>2. decode(w) = [op |-> "MiscMem", type |-> MiscMemType(get_funct3(w))]
      BY <2>1 DEF decode
    <2> QED  BY <1>6, <2>1, <2>2 DEF Key
  <1>7. CASE op = "Op"
    <2>1. get_opcode(w) = 51 /\ row.type = OpType(get_funct7(w), get_funct3(w))
      BY <1>7, TypesOfOps DEF Tells
    <2>2. decode(w) = Registers3("Op", w)
      BY <2>1 DEF decode
    <2> QED  BY <1>2, <1>7, <2>1, <2>2
  <1>8. CASE op = "Op32"
    <2>1. get_opcode(w) = 59 /\ row.type = OpType(get_funct7(w), get_funct3(w))
      BY <1>8, TypesOfRows DEF Tells
    <2>2. decode(w) = Registers3("Op32", w)
      BY <2>1 DEF decode
    <2> QED  BY <1>2, <1>8, <2>1, <2>2
  <1> QED  BY <1>3, <1>4, <1>5, <1>6, <1>7, <1>8

\* The immediate operations: those that shift are told by funct6 or funct7.
LEMMA ImmediatesDecoded ==
    ASSUME NEW w \in SUBSET (0 .. 31), NEW op \in {"OpImm", "OpImm32"}, NEW row, Tells(w, op, row),
           op = "OpImm" /\ row.funct7 # None => 2 * FieldNumber(w, 26, 6) = row.funct7
    PROVE  Key(decode(w)) = <<op, row.type>>
  <1>1. CASE op = "OpImm"
    <2>1. get_opcode(w) = 19 /\ ShiftOrNot(row) /\ get_funct3(w) = row.funct3
      BY <1>1, TypesOfOpImms DEF Tells, ShiftOrNot
    <2>2. decode(w) = OpImmOf(w)
      BY <2>1 DEF decode
    <2>3. Key(OpImmOf(w))
            = <<"OpImm", OpType(IF IsShift(get_funct3(w)) THEN 2 * FieldNumber(w, 26, 6) ELSE 0,
                                get_funct3(w))>>
      BY DEF Key, OpImmOf
    <2>4. row.type = OpType(IF IsShift(get_funct3(w)) THEN 2 * FieldNumber(w, 26, 6) ELSE 0,
                            get_funct3(w))
      BY <1>1, <2>1 DEF ShiftOrNot
    <2> QED  BY <1>1, <2>2, <2>3, <2>4
  <1>2. CASE op = "OpImm32"
    <2>1. /\ get_opcode(w) = 27 /\ ShiftOrNot(row) /\ get_funct3(w) = row.funct3
          /\ row.funct7 # None => get_funct7(w) = row.funct7
      BY <1>2, TypesOfOpImms DEF Tells, ShiftOrNot
    <2>2. decode(w) = OpImm32Of(w)
      BY <2>1 DEF decode
    <2>3. Key(OpImm32Of(w))
            = <<"OpImm32", OpType(IF IsShift(get_funct3(w)) THEN get_funct7(w) ELSE 0,
                                  get_funct3(w))>>
      BY DEF Key, OpImm32Of
    <2>4. row.type = OpType(IF IsShift(get_funct3(w)) THEN get_funct7(w) ELSE 0, get_funct3(w))
      BY <2>1 DEF ShiftOrNot
    <2> QED  BY <1>2, <2>2, <2>3, <2>4
  <1> QED  BY <1>1, <1>2

\* The floating-point operations.
LEMMA FloatsDecoded ==
    ASSUME NEW w, NEW op \in {"FmaFp", "OpFp"}, NEW row, Tells(w, op, row),
           op = "FmaFp" => get_fmt(w) = 0
    PROVE  Key(decode(w)) = <<op, row.type>>
  <1>1. CASE op = "FmaFp"
    <2>1. /\ get_fmt(w) = 0
          /\ <<get_opcode(w), row.type>>
                \in {<<67, "MAdd">>, <<71, "MSub">>, <<75, "NmSub">>, <<79, "NmAdd">>}
      BY <1>1, TypesOfRows DEF Tells
    <2>2. decode(w) = FmaFpOf(w, row.type)
      BY <2>1 DEF decode
    <2>3. Key(FmaFpOf(w, row.type)) = <<"FmaFp", row.type>>
      BY <2>1 DEF FmaFpOf, Key
    <2> QED  BY <1>1, <2>2, <2>3
  <1>2. CASE op = "OpFp"
    <2> DEFINE type == OpFpType(get_funct7(w), get_funct3(w), get_rs2(w))
    <2>1. OpFpTyped(row)
      BY <1>2, TypesOfOpFps DEF Tells
    <2>2. get_funct3(w) \in 0 .. 7 /\ get_rs2(w) \in 0 .. 31
      BY FieldsAre
    <2>3. /\ get_opcode(w) = 83 /\ get_funct7(w) = row.funct7
          /\ row.funct3 \in {None, get_funct3(w)} /\ row.rs2 \in {None, get_rs2(w)}
      BY <1>2, <2>1 DEF Tells, OpFpTyped
    <2>4. row.type = type /\ type # "throws"
      BY <2>1, <2>2, <2>3 DEF OpFpTyped
    <2>5. decode(w) = OpFpOf(w)
      BY <2>3 DEF decode
    <2>6. Key(OpFpOf(w)) = <<"OpFp", type>>
      BY <2>4 DEF OpFpOf, Key
    <2> QED  BY <1>2, <2>4, <2>5, <2>6
  <1> QED  BY <1>1, <1>2

\* ECALL, EBREAK and MRET have immediates of their own.
LEMMA TrapsTold ==
    ASSUME NEW w \in SUBSET (0 .. 31), NEW row,
           \A p \in 20 .. 24 : p \in w <=> p \in At(row.rs2, 20),
           \A p \in 25 .. 31 : p \in w <=> p \in At(row.funct7, 25),
           row \in {One("Ecall", 115, 0, 0, 0), One("Ebreak", 115, 0, 0, 1),
                    One("Mret", 115, 0, 24, 2)}
    PROVE  row.type = SystemType(0, get_i_type_imm(w))
  <1> DEFINE f == Field(w, 20, 12)
  <1>1. \A i : i \in f <=> i \in 0 .. 11 /\ i + 20 \in w
    BY DEF Field, Low
  <1>2. \A i \in 0 .. 11 : i + 20 \in 20 .. 24 \/ i + 20 \in 25 .. 31
    OBVIOUS
  <1> HIDE DEF f
  <1>3. \A i : i \in f <=> i \in 0 .. 11 /\ (i + 20 \in At(row.rs2, 20) \cap (20 .. 24)
                                           \/ i + 20 \in At(row.funct7, 25) \cap (25 .. 31))
    BY <1>1, <1>2
  <1>4. ASSUME 11 \notin f PROVE get_i_type_imm(w) = f
    <2>1. Sext(f, 12) = f
      BY <1>1, <1>4 DEF Sext, Low
    <2> QED  BY <2>1 DEF get_i_type_imm, f
  <1>5. CASE row = One("Ecall", 115, 0, 0, 0)
    <2>1. row.rs2 = 0 /\ row.funct7 = 0 /\ row.type = "Ecall"
      BY <1>5 DEF One
    <2>2. f = {}
      BY <1>3, <2>1, SmallPlaced
    <2> QED  BY <1>4, <2>1, <2>2 DEF SystemType
  <1>6. CASE row = One("Ebreak", 115, 0, 0, 1)
    <2>1. row.rs2 = 1 /\ row.funct7 = 0 /\ row.type = "Ebreak"
      BY <1>6 DEF One
    <2>2. f = {0}
      BY <1>3, <2>1, SmallPlaced
    <2> QED  BY <1>4, <2>1, <2>2 DEF SystemType
  <1>7. CASE row = One("Mret", 115, 0, 24, 2)
    <2>1. row.rs2 = 2 /\ row.funct7 = 24 /\ row.type = "Mret"
      BY <1>7 DEF One
    <2>2. f = {1, 8, 9}
      BY <1>3, <2>1, SmallPlaced
    <2> QED  BY <1>4, <2>1, <2>2 DEF SystemType
  <1> QED  BY <1>5, <1>6, <1>7

\* The system instructions.
LEMMA SystemDecoded ==
    ASSUME NEW w \in SUBSET (0 .. 31), NEW row, Tells(w, "System", row),
           row.rs2 # None => \A p \in 20 .. 24 : p \in w <=> p \in At(row.rs2, 20),
           row.funct7 # None => \A p \in 25 .. 31 : p \in w <=> p \in At(row.funct7, 25)
    PROVE  Key(decode(w)) = <<"System", row.type>>
  <1>1. get_opcode(w) = 115 /\ get_funct3(w) = row.funct3 /\ row \in Rows["System"]
    BY TypesOfSystem DEF Tells
  <1>2. decode(w) = SystemOf(w)
    BY <1>1 DEF decode
  <1>3. Key(SystemOf(w)) = <<"System", SystemType(get_funct3(w), get_i_type_imm(w))>>
    BY DEF SystemOf, Key
  <1>4. CASE row.funct7 = None
    <2>1. row.type = SystemType(row.funct3, get_i_type_imm(w))
      BY <1>1, <1>4, TypesOfSystem
    <2> QED  BY <1>1, <1>2, <1>3, <2>1
  <1>5. CASE row.funct7 # None
    <2>1. row \in {One("Ecall", 115, 0, 0, 0), One("Ebreak", 115, 0, 0, 1),
                   One("Mret", 115, 0, 24, 2)}
      BY <1>1, <1>5, TypesOfSystem
    <2>2. row.rs2 # None /\ row.funct3 = 0
      BY <2>1 DEF One, None
    <2>3. row.type = SystemType(0, get_i_type_imm(w))
      BY <1>5, <2>1, <2>2, TrapsTold
    <2> QED  BY <1>1, <1>2, <1>3, <2>2, <2>3
  <1> QED  BY <1>4, <1>5

\* Every word that has the bits of an instruction of the manual's map is
\* decoded to that instruction, whatever its other bits are: Decoder::decode
\* leaves out none of them and mistakes none for another.
THEOREM InstructionsAreDecoded ==
    \A key \in Keys : \A w \in SUBSET (0 .. 31) : IsWordOf(w, key) => Key(decode(w)) = key
  <1> SUFFICES ASSUME NEW key \in Keys, NEW w \in SUBSET (0 .. 31), IsWordOf(w, key)
               PROVE  Key(decode(w)) = key
    OBVIOUS
  <1>0. PICK op \in DOMAIN Rows : \E r \in Rows[op] : key = <<op, r.type>>
    BY Zenon DEF Keys
  <1>1. PICK r \in Rows[op] : key = <<op, r.type>>
    BY <1>0
  <1> DEFINE type == r.type
             row == OpcodeMap[<<op, type>>]
  <1>2. Tells(w, op, row) /\ row.type = type /\ InFields(row)
    BY <1>1, RowTells
  <1>3. op \in {"Lui", "Auipc", "Jal", "Jalr", "Branch", "Load", "Store", "OpImm", "Op",
                "MiscMem", "System", "OpImm32", "Op32", "LoadFp", "StoreFp", "FmaFp", "OpFp"}
    BY DEF Rows
  <1>4. CASE op \in {"Lui", "Auipc", "Jal", "Jalr", "LoadFp", "StoreFp"}
    <2> HIDE DEF row
    <2> QED  BY <1>1, <1>2, <1>4, AloneDecoded
  <1>5. CASE op \in {"Branch", "Load", "Store", "MiscMem", "Op", "Op32"}
    <2> HIDE DEF row
    <2> QED  BY <1>1, <1>2, <1>5, ByFunctDecoded
  <1>6. CASE op \in {"OpImm", "OpImm32"}
    <2>1. op = "OpImm" /\ row.funct7 # None => 2 * FieldNumber(w, 26, 6) = row.funct7
      <3> SUFFICES ASSUME op = "OpImm", row.funct7 # None
                   PROVE  2 * FieldNumber(w, 26, 6) = row.funct7
        OBVIOUS
      <3>1. row.funct7 \in {0, 32}
        BY <1>2, TypesOfOpImms DEF Tells, ShiftOrNot
      <3> QED  BY <1>1, <1>2, <3>1, ShiftTold
    <2> HIDE DEF row
    <2> QED  BY <1>1, <1>2, <1>6, <2>1, ImmediatesDecoded
  <1>7. CASE op \in {"FmaFp", "OpFp"}
    <2>1. op = "FmaFp" => get_fmt(w) = 0
      <3> SUFFICES ASSUME op = "FmaFp" PROVE get_fmt(w) = 0
        OBVIOUS
      <3>1. row.funct7 = 0
        BY <1>2, TypesOfRows DEF Tells
      <3> QED  BY <1>1, <1>2, <3>1, FormatTold
    <2> HIDE DEF row
    <2> QED  BY <1>1, <1>2, <1>7, <2>1, FloatsDecoded
  <1>8. CASE op = "System"
    <2>1. /\ row.rs2 # None => \A p \in 20 .. 24 : p \in w <=> p \in At(row.rs2, 20)
          /\ row.funct7 # None => \A p \in 25 .. 31 : p \in w <=> p \in At(row.funct7, 25)
      <3>1. /\ row.funct7 # None =>
                 \A p \in 25 .. 31 : p \in FixedBits(key) <=> p \in At(row.funct7, 25)
            /\ row.rs2 # None =>
                 \A p \in 20 .. 24 : p \in FixedBits(key) <=> p \in At(row.rs2, 20)
        BY <1>1, <1>2, FixedWithin
      <3>2. key[1] = "System" /\ row = OpcodeMap[key]
        BY <1>1, <1>8
      <3> HIDE DEF row
      <3> QED  BY <3>1, <3>2 DEF IsWordOf, Telling, OrNothing
    <2> HIDE DEF row
    <2> QED  BY <1>1, <1>2, <1>8, <2>1, SystemDecoded
  <1> QED  BY <1>3, <1>4, <1>5, <1>6, <1>7, <1>8

\* The bits that tell an instruction are none of its operands.
LEMMA EncodingTold ==
    ASSUME NEW key \in Keys, NEW w, IsEncoding(w, key)
    PROVE  IsWordOf(w, key)
  <1> DEFINE row == OpcodeMap[key]
             operands == OperandBits(key) \cup OrNothing(IsCsrAccess(key), 20 .. 31)
  <1>1. w \ operands = FixedBits(key)
    BY Zenon DEF IsEncoding
  <1>2. key[1] = "System" /\ ~IsTrap(key) => row.funct7 = None /\ row.rs2 = None
    <2>1. PICK op \in DOMAIN Rows : \E r \in Rows[op] : key = <<op, r.type>>
      BY Zenon DEF Keys
    <2>2. PICK r \in Rows[op] : key = <<op, r.type>>
      BY <2>1
    <2>3. row \in Rows[op]
      BY <2>2, RowOfKey
    <2>4. key[1] = op
      BY <2>2
    <2> HIDE DEF row
    <2>5. IsTrap(key) <=> key[1] = "System" /\ row.funct7 # None
      BY DEF IsTrap, row
    <2> QED  BY <2>3, <2>4, <2>5, TypesOfSystem
  <1>3. ASSUME NEW p \in Telling(key) PROVE p \notin operands
    <2> DEFINE field7 == IF key[1] = "FmaFp" THEN 25 .. 26
                         ELSE IF key[1] = "OpImm" THEN 26 .. 31 ELSE 25 .. 31
    <2>1. \/ p \in 0 .. 6
          \/ row.funct3 # None /\ p \in 12 .. 14
          \/ row.funct7 # None /\ p \in field7
          \/ row.rs2 # None /\ p \in 20 .. 24
      <3>1. Telling(key) = (0 .. 6) \cup OrNothing(row.funct3 # None, 12 .. 14)
                              \cup OrNothing(row.funct7 # None, field7)
                              \cup OrNothing(row.rs2 # None, 20 .. 24)
        BY Zenon DEF Telling
      <3> HIDE DEF row, field7
      <3>2. /\ p \in OrNothing(row.funct3 # None, 12 .. 14) => row.funct3 # None /\ p \in 12 .. 14
            /\ p \in OrNothing(row.funct7 # None, field7) => row.funct7 # None /\ p \in field7
            /\ p \in OrNothing(row.rs2 # None, 20 .. 24) => row.rs2 # None /\ p \in 20 .. 24
        BY DEF OrNothing
      <3>3. \/ p \in 0 .. 6 \/ p \in OrNothing(row.funct3 # None, 12 .. 14)
            \/ p \in OrNothing(row.funct7 # None, field7)
            \/ p \in OrNothing(row.rs2 # None, 20 .. 24)
        BY <3>1
      <3> QED  BY <3>2, <3>3
    <2>2. CASE key[1] = "MiscMem" \/ IsTrap(key)
      <3>1. OperandBits(key) = {} /\ ~IsCsrAccess(key)
        BY <2>2 DEF OperandBits, IsCsrAccess, IsTrap
      <3> QED  BY <3>1 DEF OrNothing
    <2>3. CASE IsCsrAccess(key)
      <3>1. row.funct7 = None /\ row.rs2 = None /\ p \in (0 .. 6) \cup (12 .. 14)
              /\ (p \in 12 .. 14 => row.funct3 # None)
        BY <1>2, <2>1, <2>3 DEF IsCsrAccess
      <3>2. OperandBits(key) \subseteq (7 .. 31) \ OrNothing(row.funct3 # None, 12 .. 14)
        BY DEF OperandBits
      <3> HIDE DEF row
      <3> QED  BY <3>1, <3>2 DEF OrNothing
    <2>4. CASE key[1] \notin {"MiscMem", "System"}
      <3>1. OperandBits(key)
              = ((7 .. 31) \ OrNothing(row.funct3 # None, 12 .. 14))
                    \ (OrNothing(row.funct7 # None, field7)
                            \cup OrNothing(row.rs2 # None, 20 .. 24))
        <4>1. ~IsTrap(key) /\ key[1] # "System" /\ key[1] # "MiscMem"
          BY <2>4 DEF IsTrap
        <4> HIDE DEF row
        <4> QED  BY <4>1 DEF OperandBits, OrNothing, row
      <3>2. ~IsCsrAccess(key)
        BY <2>4 DEF IsCsrAccess
      <3> HIDE DEF row, field7
      <3>3. p \notin OperandBits(key)
        BY <2>1, <3>1 DEF OrNothing
      <3> QED  BY <3>2, <3>3 DEF OrNothing
    <2> QED  BY <2>2, <2>3, <2>4 DEF IsCsrAccess, IsTrap
  <1> HIDE DEF operands
  <1> QED  BY <1>1, <1>3 DEF IsWordOf

\* The number of a register is that of the CSR instruction, and has a name.
LEMMA CsrFound ==
    ASSUME NEW w \in SUBSET (0 .. 31), NEW f \in DOMAIN CsrNumber,
           w \cap (20 .. 31) = At(CsrNumber[f], 20)
    PROVE  CsrName(get_zicsr_csr(w)) # "unimplemented"
  <1>1. CsrNumber[f] \in {1, 2, 3, 768, 772, 773, 832, 833, 834, 835, 928, 944, 3860}
    BY DEF CsrNumber
  <1>2. Power[12] = 4096
    <2>1. \A j \in Nat : Power[j + 1] = 2 * Power[j]
      BY PowerFacts
    <2>2. Power[8] = 256
      BY <2>1, SmallPowers
    <2>3. Power[9] = 512
      BY <2>1, <2>2
    <2>4. Power[10] = 1024
      BY <2>1, <2>3
    <2>5. Power[11] = 2048
      BY <2>1, <2>4
    <2> QED  BY <2>1, <2>5
  <1>3. CsrNumber[f] \in 0 .. Power[12] - 1 /\ 12 \in 1 .. 12 /\ 20 \in Nat
    BY <1>1, <1>2
  <1>4. \A p \in 20 .. 20 + 12 - 1 : p \in w <=> p \in At(CsrNumber[f], 20)
    OBVIOUS
  <1>5. get_zicsr_csr(w) = CsrNumber[f]
    BY <1>3, <1>4, PlacedIsRead DEF get_zicsr_csr
  <1> QED  BY <1>1, <1>5 DEF CsrName

\* The three instructions whose funct3 decode does not look at have it in the
\* words they are encoded to.
LEMMA Funct3Encoded ==
    ASSUME NEW w \in SUBSET (0 .. 31), NEW op \in {"Jalr", "LoadFp", "StoreFp"},
           decode(w) = IF op = "StoreFp" THEN StoreFpOf(w) ELSE WithRs1(op, w)
    PROVE  \A p \in 12 .. 14 : p \in Encode(decode(w)) <=> p \in FixedBits(<<op, "">>)
  <1>1. \A p \in 12 .. 14 : /\ p \notin Slice(w, 7, 11) /\ p \notin Slice(w, 15, 19)
                            /\ p \notin Slice(w, 20, 24) /\ p \notin Slice(w, 20, 31)
                            /\ p \notin Slice(w, 25, 31)
    BY DEF Slice
  <1>2. CASE op \in {"Jalr", "LoadFp"}
    <2>1. FormatOf(WithRs1(op, w)) = "I"
      BY <1>2 DEF FormatOf, WithRs1
    <2>2. decode(w) = WithRs1(op, w)
      BY <1>2
    <2>3. Encode(decode(w)) = FixedBits(<<op, "">>) \cup Slice(w, 20, 31) \cup Slice(w, 7, 11)
                                  \cup Slice(w, 15, 19)
      <3>1. op \notin {"FmaFp", "System"}
        BY <1>2
      <3> QED  BY <2>1, <2>2, <3>1, WithRs1Encoded, Zenon
    <2> QED  BY <1>1, <2>3
  <1>3. CASE op = "StoreFp"
    <2>1. Encode(decode(w))
            = FixedBits(<<op, "">>) \cup (Slice(w, 7, 11) \cup Slice(w, 25, 31))
                  \cup Slice(w, 15, 19) \cup Slice(w, 20, 24)
      BY <1>3, StoreFpEncoded, Zenon
    <2> QED  BY <1>1, <2>1
  <1> QED  BY <1>2, <1>3

\* What decode makes of the words of these instructions.
LEMMA Funct3Unseen ==
    ASSUME NEW w \in SUBSET (0 .. 31), NEW op \in {"Jalr", "LoadFp", "StoreFp"}, NEW type,
           <<op, type>> \in Keys, IsWordOf(w, <<op, type>>)
    PROVE  /\ decode(w) = IF op = "StoreFp" THEN StoreFpOf(w) ELSE WithRs1(op, w)
           /\ \A p \in 12 .. 14 : p \in Telling(<<op, type>>)
           /\ type = ""
  <1> DEFINE row == OpcodeMap[<<op, type>>]
  <1>1. Tells(w, op, row) /\ row.type = type
    BY RowTells
  <1>2. /\ Rows["Jalr"] = Alone(103, 0) /\ Rows["LoadFp"] = Alone(7, 2)
        /\ Rows["StoreFp"] = Alone(39, 2)
    BY DEF Rows
  <1>3. row.funct3 # None => \A p \in 12 .. 14 : p \in Telling(<<op, type>>)
    <2>1. Telling(<<op, type>>)
            = (0 .. 6) \cup OrNothing(row.funct3 # None, 12 .. 14)
                \cup OrNothing(row.funct7 # None,
                               IF <<op, type>>[1] = "FmaFp" THEN 25 .. 26
                               ELSE IF <<op, type>>[1] = "OpImm" THEN 26 .. 31 ELSE 25 .. 31)
                \cup OrNothing(row.rs2 # None, 20 .. 24)
      BY Zenon DEF Telling
    <2> HIDE DEF row
    <2> QED  BY <2>1 DEF OrNothing
  <1> HIDE DEF row
  <1>4. ASSUME NEW opcode, NEW funct3, Rows[op] = Alone(opcode, funct3)
        PROVE  get_opcode(w) = opcode /\ type = "" /\ row.funct3 = funct3
    <2>1. row = One("", opcode, funct3, None, None)
      BY <1>1, <1>4 DEF Tells, Alone
    <2>2. row.opcode = opcode /\ row.type = "" /\ row.funct3 = funct3
      BY <2>1 DEF One
    <2> QED  BY <1>1, <2>2 DEF Tells
  <1>5. 0 # None /\ 2 # None
    BY DEF None
  <1>6. CASE op = "Jalr"
    <2>1. Rows[op] = Alone(103, 0)
      BY <1>2, <1>6, Zenon
    <2>2. get_opcode(w) = 103 /\ row.funct3 = 0
      BY <1>4, <2>1, Zenon
    <2>3. type = ""
      BY <1>4, <2>1, Zenon
    <2>4. decode(w) = WithRs1("Jalr", w)
      BY <2>2 DEF decode
    <2> QED  BY <1>3, <1>5, <1>6, <2>2, <2>3, <2>4
  <1>7. CASE op = "LoadFp"
    <2>1. Rows[op] = Alone(7, 2)
      BY <1>2, <1>7, Zenon
    <2>2. get_opcode(w) = 7 /\ row.funct3 = 2
      BY <1>4, <2>1, Zenon
    <2>3. type = ""
      BY <1>4, <2>1, Zenon
    <2>4. decode(w) = WithRs1("LoadFp", w)
      BY <2>2 DEF decode
    <2> QED  BY <1>3, <1>5, <1>7, <2>2, <2>3, <2>4
  <1>8. CASE op = "StoreFp"
    <2>1. Rows[op] = Alone(39, 2)
      BY <1>2, <1>8, Zenon
    <2>2. get_opcode(w) = 39 /\ row.funct3 = 2
      BY <1>4, <2>1, Zenon
    <2>3. type = ""
      BY <1>4, <2>1, Zenon
    <2>4. decode(w) = StoreFpOf(w)
      BY <2>2 DEF decode, StoreFpOf
    <2> QED  BY <1>3, <1>5, <1>8, <2>2, <2>3, <2>4
  <1> QED  BY <1>6, <1>7, <1>8

\* ECALL, EBREAK and MRET are encoded to the bits that tell them.
LEMMA TrapEncoded ==
    ASSUME NEW w, NEW key, IsTrap(key), decode(w) = SystemOf(w), Key(decode(w)) = key
    PROVE  Encode(decode(w)) = FixedBits(key)
  <1> DEFINE d == SystemOf(w)
  <1>1. DOMAIN d = {"op", "type", "csr", "rs1", "uimm", "rd"} /\ d.op = "System"
    BY SystemFields
  <1>2. Key(d) = key
    OBVIOUS
  <1> HIDE DEF d
  <1>3. Encode(d) = FixedBits(Key(d)) \cup OrNothing(~IsTrap(Key(d)), At(d.rd, 7))
                        \cup OrNothing(~IsTrap(Key(d)), At(d.rs1, 15))
                        \cup OrNothing(~IsTrap(Key(d)) /\ d.csr # "unimplemented",
                                       At(CsrNumber[d.csr], 20))
    BY <1>1, SystemEncoded
  <1>4. Encode(d) = FixedBits(Key(d))
    BY <1>2, <1>3 DEF OrNothing
  <1> QED  BY <1>2, <1>4 DEF d

\* The words of an instruction come back from their decoding.
LEMMA EncodingsComeBack ==
    ASSUME NEW key \in Keys, NEW w \in SUBSET (0 .. 31), IsEncoding(w, key)
    PROVE  Key(decode(w)) = key /\ (key[1] # "MiscMem" => Encode(decode(w)) = w)
  <1> DEFINE d == decode(w)
  <1>1. IsWordOf(w, key)
    BY EncodingTold
  <1>2. Key(d) = key
    BY <1>1, InstructionsAreDecoded
  <1>3. PICK op \in DOMAIN Rows : \E r \in Rows[op] : key = <<op, r.type>>
    BY Zenon DEF Keys
  <1>4. PICK type : key = <<op, type>>
    BY <1>3
  <1>5. op \in {"Lui", "Auipc", "Jal", "Jalr", "Branch", "Load", "Store", "OpImm", "Op",
                "MiscMem", "System", "OpImm32", "Op32", "LoadFp", "StoreFp", "FmaFp", "OpFp"}
    BY DEF Rows
  <1>6. d.op = op
    <2> HIDE DEF d
    <2>1. Key(d)[1] = d.op
      BY DEF Key
    <2> QED  BY <1>2, <1>4, <2>1
  <1>7. Accepted(d)
    <2>1. d # InvalidWord /\ d # Thrown
      <3> HIDE DEF d
      <3> QED  BY <1>5, <1>6 DEF InvalidWord, Thrown
    <2> HIDE DEF d
    <2> QED  BY <1>2, <2>1 DEF Accepted
  <1>8. Xor(w, Encode(d)) \subseteq Unchecked(d)
    BY <1>7, DecodeLossless DEF Lossless
  <1>9. \A a, b : Xor(a, b) = {} => a = b
    BY DEF Xor
  <1>10. CASE op \in {"Jalr", "LoadFp", "StoreFp"}
    <2>1. /\ d = IF op = "StoreFp" THEN StoreFpOf(w) ELSE WithRs1(op, w)
          /\ \A p \in 12 .. 14 : p \in Telling(key)
          /\ type = ""
      BY <1>1, <1>4, <1>10, Funct3Unseen
    <2>2. \A p \in 12 .. 14 : p \in Encode(d) <=> p \in FixedBits(key)
      BY <1>4, <1>10, <2>1, Funct3Encoded
    <2>3. \A p \in 12 .. 14 : p \in w <=> p \in FixedBits(key)
      BY <1>1, <2>1 DEF IsWordOf
    <2> HIDE DEF d
    <2>4. Unchecked(d) = 12 .. 14
      BY <1>6, <1>10 DEF Unchecked
    <2>5. w = Encode(d)
      BY <1>8, <2>2, <2>3, <2>4 DEF Xor
    <2> QED  BY <1>2, <2>5 DEF d
  <1>11. CASE op = "System"
    <2>1. w \ (OperandBits(key) \cup OrNothing(IsCsrAccess(key), 20 .. 31)) = FixedBits(key)
      BY Zenon DEF IsEncoding
    <2>2. get_opcode(w) = 115
      BY <1>1, <1>4, <1>11, RowTells, TypesOfSystem DEF Tells
    <2>3. d = SystemOf(w)
      BY <2>2 DEF decode
    <2>4. CASE IsTrap(key)
      <3>1. OperandBits(key) = {} /\ ~IsCsrAccess(key)
        BY <2>4 DEF OperandBits, IsCsrAccess
      <3>2. w = FixedBits(key)
        BY <2>1, <3>1 DEF OrNothing
      <3>3. Encode(d) = FixedBits(key)
        BY <1>2, <2>3, <2>4, TrapEncoded
      <3> QED  BY <1>2, <3>2, <3>3
    <2>5. CASE ~IsTrap(key)
      <3>1. PICK f \in DOMAIN CsrNumber : w \cap (20 .. 31) = At(CsrNumber[f], 20)
        BY <1>4, <1>11, <2>5 DEF IsEncoding, IsCsrAccess
      <3>2. d.csr # "unimplemented"
        BY <2>3, <3>1, CsrFound, SystemFields
      <3> HIDE DEF d
      <3>3. Unchecked(d) = {}
        BY <1>2, <1>6, <1>11, <2>5, <3>2 DEF Unchecked, OrNothing
      <3>4. w = Encode(d)
        BY <1>8, <1>9, <3>3
      <3> QED  BY <1>2, <3>4 DEF d
    <2> QED  BY <2>4, <2>5
  <1>12. CASE op \notin {"Jalr", "LoadFp", "StoreFp", "MiscMem", "System"}
    <2> HIDE DEF d
    <2>1. Unchecked(d) = {}
      BY <1>6, <1>12 DEF Unchecked
    <2>2. w = Encode(d)
      BY <1>8, <1>9, <2>1
    <2> QED  BY <1>2, <2>2 DEF d
  <1>13. CASE op = "MiscMem"
    BY <1>2, <1>4, <1>13
  <1> QED  BY <1>10, <1>11, <1>12, <1>13

\* What decode is given of the code when the program starts is what the
\* program headers of the file say.
LEMMA CodeIsLinked ==
    ASSUME file \in Files, phase = "run", LoadedAsLinked, NEW addr \in CodeAddrs
    PROVE  Get(mem, addr, 4) = Get([a \in RamAddrs |-> LinkedByte(file, a)], addr, 4)
  <1> DEFINE linked == [a \in RamAddrs |-> LinkedByte(file, a)]
  <1>1. \A a \in RamAddrs : mem[a] = linked[a]
    BY DEF LoadedAsLinked
  <1>2. ASSUME NEW k PROVE ByteAddr(addr, 4, k) \in RamAddrs
    <2>1. addr \in RamAddrs
      BY ImageAssumption
    <2> DEFINE low == {b \in OffsetBits(4) : (k \div 2^b) % 2 = 1}
               o == (addr \cap {2}) \cup low
    <2>2. OffsetBits(4) = {0, 1}
      BY DEF OffsetBits
    <2>3. low \subseteq {0, 1}
      BY <2>2
    <2>4. ByteAddr(addr, 4, k) = (addr \ {0, 1}) \cup low
      BY <2>2 DEF ByteAddr
    <2> HIDE DEF low
    <2>5. o \in SUBSET {0, 1, 2} /\ (addr \ {0, 1}) \cup low = (addr \ {0, 1, 2}) \cup o
      <3>1. addr \ {0, 1} = (addr \ {0, 1, 2}) \cup (addr \cap {2})
        OBVIOUS
      <3>2. o \in SUBSET {0, 1, 2}
        BY <2>3
      <3>3. (addr \ {0, 1}) \cup low = (addr \ {0, 1, 2}) \cup ((addr \cap {2}) \cup low)
        BY <3>1
      <3> QED  BY <3>2, <3>3
    <2> QED  BY <2>1, <2>4, <2>5, RamAssumption
  <1> HIDE DEF linked
  <1>3. \A i : mem[ByteAddr(addr, 4, i \div 8)] = linked[ByteAddr(addr, 4, i \div 8)]
    BY <1>1, <1>2
  <1>4. Get(mem, addr, 4) = Get(linked, addr, 4)
    BY <1>3 DEF Get
  <1> QED  BY <1>4 DEF linked

\* What was assembled is what the executor is given, whatever program it is,
\* in whatever segments the file has it: the loader and the decoder together
\* lose no instruction of the base, M, F and Zicsr sets and no operand of one.
THEOREM ProgramsAreDecoded == LoaderSpec => []ProgramsDecode
  <1>1. Loading /\ LoadedAsLinked => ProgramsDecode
    <2> SUFFICES ASSUME Loading, LoadedAsLinked, phase = "run", file.keys # <<>>,
                        NEW addr \in CodeAddrs
                 PROVE  /\ Key(Fetched(addr)) = file.keys
                        /\ \/ file.keys[1] \in {"MiscMem"}
                           \/ Encode(Fetched(addr)) = Get(mem, addr, 4)
      BY DEF ProgramsDecode
    <2> DEFINE w == Get(mem, addr, 4)
    <2>1. file \in Files
      BY DEF Loading
    <2>2. w \in SUBSET (0 .. 31)
      BY DEF Get, Low
    <2>3. file.keys \in Keys /\ IsEncoding(w, file.keys)
      <3>1. IsEncoding(Get([a \in RamAddrs |-> LinkedByte(file, a)], addr, 4), file.keys)
              /\ file.keys \in Keys
        BY <2>1, ImageAssumption
      <3>2. w = Get([a \in RamAddrs |-> LinkedByte(file, a)], addr, 4)
        BY <2>1, CodeIsLinked
      <3> HIDE DEF w
      <3> QED  BY <3>1, <3>2
    <2> HIDE DEF w
    <2>4. Key(decode(w)) = file.keys /\ (file.keys[1] # "MiscMem" => Encode(decode(w)) = w)
      BY <2>2, <2>3, EncodingsComeBack
    <2>5. Fetched(addr) = decode(w)
      BY DEF Fetched, w
    <2> QED  BY <2>4, <2>5 DEF w
  <1>2. LoaderSpec => []LoadedAsLinked
    BY MemoryIsLoaded
  <1> QED  BY <1>1, <1>2, LoadingInvariant, PTL
=============================================================================
