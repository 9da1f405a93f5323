----------------------------- MODULE TrapStack -----------------------------
(***************************************************************************)
(* What trap entry and return promise, without words, masks or registers:  *)
(* a stack of one interrupted context (the mode, the interrupt enable and  *)
(* the resume address).  A trap pushes the running context and continues   *)
(* at the handler, in machine mode with interrupts off.  A return pops it. *)
(* Software may rewrite the handler's address, the interrupt enable and    *)
(* what is on the stack, but changes the mode it runs in by trapping and   *)
(* returning only.                                                         *)
(***************************************************************************)
CONSTANTS User, Machine,   \* the modes boot and return refer to
          Modes,           \* every mode the stack can hold
          Addrs,           \* where execution can be
          Resumable,       \* what the resume address can be set to
          Align(_)         \* how an address is stored as a resume address

VARIABLES mode, ie,        \* the running context ...
          at,              \* ... and where it is
          pp, pie, epc,    \* the stacked one
          handler          \* where a trap continues

trapVars == <<mode, ie, at, pp, pie, epc, handler>>

Init ==
    /\ mode = Machine /\ ie = FALSE /\ at \in Addrs
    /\ pp = User /\ pie = FALSE /\ epc \in Addrs
    /\ handler \in Resumable

Trap ==
    /\ pp' = mode /\ pie' = ie /\ epc' = Align(at)
    /\ mode' = Machine /\ ie' = FALSE /\ at' = handler
    /\ UNCHANGED handler

Return ==
    /\ mode' = pp /\ ie' = pie /\ at' = epc
    /\ pp' = User /\ pie' = TRUE /\ UNCHANGED <<epc, handler>>

\* Execution that leaves both contexts alone.
Run ==
    /\ at' \in Addrs
    /\ UNCHANGED <<mode, ie, pp, pie, epc, handler>>

RewriteStatus ==
    /\ ie' \in BOOLEAN /\ pie' \in BOOLEAN /\ pp' \in Modes
    /\ at' \in Addrs
    /\ UNCHANGED <<mode, epc, handler>>

RewriteResume ==
    /\ epc' \in Resumable
    /\ at' \in Addrs
    /\ UNCHANGED <<mode, ie, pp, pie, handler>>

RewriteHandler ==
    /\ handler' \in Resumable
    /\ at' \in Addrs
    /\ UNCHANGED <<mode, ie, pp, pie, epc>>

Next ==
    Trap \/ Return \/ Run \/ RewriteStatus \/ RewriteResume \/ RewriteHandler

Spec == Init /\ [][Next]_trapVars
=============================================================================
