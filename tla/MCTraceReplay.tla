--------------------------- MODULE MCTraceReplay ---------------------------
(***************************************************************************)
(* TraceReplay with the instances of MCExecutor and two more instruction   *)
(* sets: memory accesses of every width, and writes of every kind of CSR.  *)
(***************************************************************************)
EXTENDS MCExecutor, TraceReplay

\* x1 is the address, x2 a value whose low bytes differ, x3 what is loaded.
MemInsns ==
    {AuipcI(1, {}), OpImmI("OpImm", "Add", 2, 0, {0, 7} \cup Minus2To(11)),
     StoreI("B", 2, 1, {0, 1}), StoreI("H", 2, 1, {1}), StoreI("W", 2, 1, {2}),
     StoreI("D", 2, 1, {}), StoreI("Hu", 2, 1, {}),
     StoreI("W", 2, 1, {1}),
     LoadI("B", 3, 1, {0, 1}), LoadI("Bu", 3, 1, {}), LoadI("H", 3, 1, {1}),
     LoadI("Hu", 3, 1, {}), LoadI("W", 0, 1, {0}), LoadI("Wu", 3, 1, {2}),
     LoadI("D", 3, 1, {}), LoadI("invalid", 0, 0, {}),
     LoadFpI(0, 1, {}), StoreFpI(0, 1, {2}), StoreFpI(0, 1, {1}),
     LoadI("W", 0, 1, {}), CsrI("Csrrs", 3, "mhartid", 1), JalI(0, Minus2To(2))}

\* A hart that is not the first.
MCHartBoot == {[Zeroes EXCEPT !["mhartid"] = {5}]}

CsrInsns ==
    {OpImmI("OpImm", "Add", 1, 0, {3, 7}),
     CsrI("Csrrw", 0, "fcsr", 1), CsrImmI("Csrrsi", 0, "frm", {0, 2}),
     CsrI("Csrrw", 0, "mstatus", 1), CsrImmI("Csrrci", 0, "mstatus", {3}),
     CsrI("Csrrs", 0, "mtvec", 1), CsrI("Csrrw", 1, "mscratch", 1),
     CsrI("Csrrw", 1, "mhartid", 0),
     OpFpI("Add", {}, 0, 0, 0),
     SystemI("Mret"), SystemI("Ecall"), JalI(0, Minus2To(2))}
============================================================================
