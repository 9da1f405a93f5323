---------------------------- MODULE TraceReplay ----------------------------
(***************************************************************************)
(* The commits step returns are a log of what every instruction changed.   *)
(* This module adds a consumer that starts with a copy of the hart and     *)
(* applies nothing but the logged writes, the way a co-simulation harness  *)
(* reads the program's output.  Its copy can stay equal to the hart only   *)
(* if the log is complete and carries the values the registers really      *)
(* took, whatever the masks of set_csr, the split of fcsr, the appended    *)
(* mstatus write, the dropped x0 writes and the traps in between did.      *)
(***************************************************************************)
EXTENDS Executor

VARIABLES tx, tf,     \* the consumer's integer and floating-point registers
          tc,         \* its control and status registers, fcsr by its halves
          tm          \* its memory

replay == <<tx, tf, tc, tm>>
replayVars == <<vars, replay>>

LoggableCsrs == CsrNames \ {"fcsr"}
Observed(c) == [n \in LoggableCsrs |-> Readback(c, n)]

\* The registers old after a set of logged writes, one per register at most.
Overwrite(old, writes) ==
    [r \in DOMAIN old |->
        IF \E w \in writes : w.num = r
        THEN (CHOOSE w \in writes : w.num = r).value
        ELSE old[r]]

\* The consumer knows an access as bytes at consecutive addresses, the lowest
\* first, counted from the logged address; it knows nothing of elements.
\* (Without a carry the sum is the union.)
AddrOf(addr, k) ==
    LET offset == {b \in 0 .. 2 : (k \div 2^b) % 2 = 1}
    IN  IF addr \cap offset = {} THEN addr \cup offset ELSE Plus(addr, offset)
ByteOf(value, k) == {b \in Low(8) : 8 * k + b \in value}

\* The memory old after a logged write.
Patched(old, w) ==
    [a \in DOMAIN old |->
        IF \E k \in 0 .. w.size - 1 : a = AddrOf(w.addr, k)
        THEN ByteOf(w.value, CHOOSE k \in 0 .. w.size - 1 : a = AddrOf(w.addr, k))
        ELSE old[a]]

Consume(commit) ==
    /\ tx' = Overwrite(tx, commit.x_writes)
    /\ tf' = Overwrite(tf, commit.f_writes)
    /\ tc' = Overwrite(tc, commit.c_writes)
    /\ tm' = IF commit.mem_writes = {} THEN tm
             ELSE Patched(tm, CHOOSE w \in commit.mem_writes : TRUE)

\* step returns a Commit unless it took a trap or did not return.
ReplayedStep(insn) ==
    \E r \in Execute(insn) :
        /\ Finish(r)
        /\ IF r.kind = "normal" /\ status' = "running"
           THEN Consume(CommitOf(r))
           ELSE UNCHANGED replay

ReplayInit ==
    /\ Init
    /\ tx = gprs /\ tf = fprs /\ tc = Observed(csrs) /\ tm = mem

ReplayNext ==
    \/ status = "running" /\ Fetchable /\ \E insn \in Insns : ReplayedStep(insn)
    \/ FetchFault /\ UNCHANGED replay
    \/ Ended /\ UNCHANGED replay

ReplaySpec == ReplayInit /\ [][ReplayNext]_replayVars

-----------------------------------------------------------------------------
\* The log accounts for every integer and floating-point register: nothing
\* else changes one, x0 included, and no trap does.
ReplayedRegisters == status = "running" => tx = gprs /\ tf = fprs

\* The log accounts for memory, byte for byte, under stores of every width:
\* the elements the accessors write are the bytes at the logged addresses.
ReplayedMemory == status = "running" => tm = mem

\* What a load would log next is what the consumer has at the addresses of the
\* load, whatever widths those bytes were written in and however the value was
\* extended.
ReplayedReads ==
    status = "running" =>
        \A insn \in {i \in Insns : i.op \in {"Load", "LoadFp"}} : \A r \in Execute(insn) :
            r.kind = "normal" =>
                \A k \in 0 .. r.read.size - 1 :
                    ByteOf(r.read.value, k) = tm[AddrOf(r.read.addr, k)]

\* The log accounts for the control and status registers as set_csr reports
\* them.  Trap entry changes four registers and is not logged at all: of
\* those, only what it leaves of mstatus is comparable.
TrapCsrs == {"mstatus", "mepc", "mcause", "mtval"}
TrapFields == MIE \cup MPIE \cup MPP
ReplayedCsrs ==
    status = "running" =>
        /\ \A n \in LoggableCsrs \ TrapCsrs : tc[n] = Readback(csrs, n)
        /\ tc["mstatus"] \ TrapFields = csrs["mstatus"] \ TrapFields
=============================================================================
