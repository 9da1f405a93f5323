------------------------------- MODULE Loader -------------------------------
(***************************************************************************)
(* ElfLoader::load of elf_loader.cpp, and the first half of main, which    *)
(* puts the segments into memory.  What the ELF library returns is a       *)
(* record: the entry point, for each section its type and the value its    *)
(* symbols give tohost (none or one), and for each segment its type, its   *)
(* address, its size and its bytes.  Addresses and sizes are machine words *)
(* and wrap around as the program's do.                                    *)
(***************************************************************************)
EXTENDS Ram, Sequences

CONSTANTS Files,          \* the files main may be given
          Uninitialized   \* values the stack may hold where image.tohost is

VARIABLES phase,          \* what main or load is doing
          file,           \* the ELF file
          n,              \* which section or segment is next
          tohost,         \* ElfImage::tohost
          segments        \* ElfImage::segments

loaderVars == <<phase, file, n, tohost, segments, mem>>

SymbolTables == {"SYMTAB", "DYNSYM"}

\* The segments of a file.
SegmentsOf(f) == {f.segments[i] : i \in DOMAIN f.segments}

\* A symbol table defines the symbol by a word, and a segment is placed by
\* words.  The memory is one interval, and address zero is not in it.
ASSUME LoaderAssumption ==
    /\ \A f \in Files :
          /\ f.sections \in Seq([type : STRING, tohost : SUBSET Word])
          /\ f.segments \in Seq(SegmentsOf(f))
          /\ \A s \in SegmentsOf(f) : {s.addr, s.size, s.filesz} \subseteq Word
    /\ \E top \in RamAddrs : \A a \in RamAddrs \ {top} : Plus(a, {0}) \in RamAddrs
    /\ {} \notin RamAddrs
    /\ Uninitialized \subseteq Word

-----------------------------------------------------------------------------
\* a lies in the size bytes from addr; all those bytes are in the memory.
Inside(a, addr, size) == Ltu(Minus(a, addr), size)
Fits(addr, size) ==
    LET last == Plus(addr, Minus(size, {0}))
    IN  size = {} \/ ({addr, last} \subseteq RamAddrs /\ ~Ltu(last, addr))

\* Memory::Memory, Memory::load and Memory::clear.
Blank == [a \in RamAddrs |-> {}]
Load(m, addr, data, size) ==
    [a \in RamAddrs |-> IF Inside(a, addr, size) THEN data[Minus(a, addr)] ELSE m[a]]
Clear(m, addr, size) == [a \in RamAddrs |-> IF Inside(a, addr, size) THEN {} ELSE m[a]]

-----------------------------------------------------------------------------
\* reader.load, which may refuse the file; the entry point stays in it.
Open ==
    /\ phase = "open"
    /\ phase' = IF file.readable THEN "symbols" ELSE "aborted"
    /\ UNCHANGED <<file, n, tohost, segments, mem>>

Section == file.sections[n]
DefinesTohost == Section.type \in SymbolTables /\ Section.tohost # {}

\* A section that is no symbol table, or does not know the symbol.
SkipSection ==
    /\ phase = "symbols" /\ n <= Len(file.sections) /\ ~DefinesTohost
    /\ n' = n + 1
    /\ UNCHANGED <<phase, file, tohost, segments, mem>>

\* Mutation of FindTohost: the scan goes on, and the last table decides.
FindTohostOnwards ==
    /\ phase = "symbols" /\ n <= Len(file.sections) /\ DefinesTohost
    /\ tohost' \in Section.tohost
    /\ n' = n + 1
    /\ UNCHANGED <<phase, file, segments, mem>>

\* The first table that knows the symbol ends the scan.
FindTohost ==
    /\ phase = "symbols" /\ n <= Len(file.sections) /\ DefinesTohost
    /\ tohost' \in Section.tohost
    /\ phase' = "test"
    /\ UNCHANGED <<file, n, segments, mem>>

EndOfSections ==
    /\ phase = "symbols" /\ n > Len(file.sections)
    /\ phase' = "test"
    /\ UNCHANGED <<file, n, tohost, segments, mem>>

\* Zero is no address of the symbol.  A tohost that no table has set is
\* whatever it was.
TestTohost ==
    /\ phase = "test"
    /\ phase' = IF tohost = {} THEN "aborted" ELSE "segments"
    /\ n' = 1
    /\ UNCHANGED <<file, tohost, segments, mem>>

\* The loadable segments, in the order of the file.
TakeSegment ==
    /\ phase = "segments" /\ n <= Len(file.segments)
    /\ n' = n + 1
    /\ segments' = IF file.segments[n].type = "LOAD" THEN Append(segments, file.segments[n])
                   ELSE segments
    /\ UNCHANGED <<phase, file, tohost, mem>>

\* load returns; main constructs the memory.
EndOfSegments ==
    /\ phase = "segments" /\ n > Len(file.segments)
    /\ phase' = "load" /\ n' = 1
    /\ mem' = Blank
    /\ UNCHANGED <<file, tohost, segments>>

-----------------------------------------------------------------------------
\* main copies a segment's bytes and clears the rest of it.  Neither call
\* looks at the bounds of the array.
LoadSegment ==
    /\ phase = "load" /\ n <= Len(segments)
    /\ LET seg == segments[n] IN
       IF Fits(seg.addr, seg.filesz)
       THEN mem' = Load(mem, seg.addr, seg.data, seg.filesz) /\ phase' = "clear"
       ELSE phase' = "undefined" /\ UNCHANGED mem
    /\ UNCHANGED <<file, n, tohost, segments>>

\* Mutation of ClearTail: as many bytes are cleared as the segment has.
ClearTailTooLong ==
    /\ phase = "clear"
    /\ LET seg == segments[n]
           tail == Plus(seg.addr, seg.filesz)
       IN  IF Fits(tail, Minus(seg.size, seg.filesz))
           THEN mem' = Clear(mem, tail, seg.size) /\ phase' = "load" /\ n' = n + 1
           ELSE phase' = "undefined" /\ UNCHANGED <<mem, n>>
    /\ UNCHANGED <<file, tohost, segments>>

\* A segment with more bytes than its size makes the length of the tail wrap.
ClearTail ==
    /\ phase = "clear"
    /\ LET seg == segments[n]
           tail == Plus(seg.addr, seg.filesz)
           length == Minus(seg.size, seg.filesz)
       IN  IF Fits(tail, length)
           THEN mem' = Clear(mem, tail, length) /\ phase' = "load" /\ n' = n + 1
           ELSE phase' = "undefined" /\ UNCHANGED <<mem, n>>
    /\ UNCHANGED <<file, tohost, segments>>

\* Core is constructed at the entry point, and the loop of Simulator begins.
Start ==
    /\ phase = "load" /\ n > Len(segments)
    /\ phase' = "run"
    /\ UNCHANGED <<file, n, tohost, segments, mem>>

Ready == phase \in {"run", "aborted", "undefined"} /\ UNCHANGED loaderVars

LoaderInit ==
    /\ phase = "open" /\ n = 1
    /\ file \in Files
    /\ tohost \in Uninitialized
    /\ segments = <<>>
    /\ mem = Blank

LoaderNext ==
    \/ Open \/ SkipSection \/ FindTohost \/ EndOfSections \/ TestTohost
    \/ TakeSegment \/ EndOfSegments \/ LoadSegment \/ ClearTail \/ Start
    \/ Ready

LoaderSpec == LoaderInit /\ [][LoaderNext]_loaderVars

-----------------------------------------------------------------------------
\* What the program headers of a file say of a byte: it is a byte of the last
\* loadable segment that covers it, or zero in that segment's tail, and zero
\* where there is no segment.
LinkedByte(f, a) ==
    LET covers == {i \in DOMAIN f.segments :
                      /\ f.segments[i].type = "LOAD"
                      /\ Inside(a, f.segments[i].addr, f.segments[i].size)}
        last == f.segments[CHOOSE i \in covers : \A j \in covers : j <= i]
    IN  IF covers # {} /\ Inside(a, last.addr, last.filesz)
        THEN last.data[Minus(a, last.addr)] ELSE {}

\* When the program starts, memory is what the program headers say.  No later
\* load or clear has spilt over into a byte that is not its own.
LoadedAsLinked == phase = "run" => \A a \in RamAddrs : mem[a] = LinkedByte(file, a)

\* The address main watches is the symbol's, from the first table that has
\* it, wherever one has it; a file without the symbol gets past the test only
\* by what the uninitialized member happens to hold.
TohostIsTheSymbol ==
    phase \in {"segments", "load", "clear", "run"} =>
        LET tables == {i \in DOMAIN file.sections :
                          /\ file.sections[i].type \in SymbolTables
                          /\ file.sections[i].tohost # {}}
            first == CHOOSE i \in tables : \A j \in tables : i <= j
        IN  /\ tohost # {}
            /\ IF tables # {} THEN tohost \in file.sections[first].tohost
               ELSE tohost \in Uninitialized
=============================================================================
