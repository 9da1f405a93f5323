----------------------------- MODULE Simulator -----------------------------
(***************************************************************************)
(* The loop of main.cpp: fetch the word at pc and decode it, execute it,   *)
(* print the commit it returns, and stop when the 64-bit word at the       *)
(* tohost symbol is not zero.  The program is in the memory it executes    *)
(* from, so what is fetched is whatever the stores so far have left there. *)
(* Every step of the loop is a step of Executor or leaves its state alone. *)
(***************************************************************************)
EXTENDS Executor, Decoder

CONSTANTS Tohost,       \* ElfImage::tohost
          None          \* std::nullopt

ASSUME SimulatorAssumption == Tohost \in Word /\ InvalidWord \in Insns

VARIABLES phase,        \* where the loop is
          insn,         \* the word fetched last
          out           \* what the last call of step returned

simVars == <<vars, phase, insn, out>>

\* Mutation of Decode: an unrecognised word is skipped like a fence.
DecodeLenient(w) ==
    IF decode(w) \in Insns \ {InvalidWord} THEN decode(w)
    ELSE [op |-> "MiscMem", type |-> "Fence"]

\* What main passes on: Insns holds every instruction the programs contain.
\* A word decode does not recognise is InvalidInsn; main throws for it, as
\* decode itself does for a floating-point word it does not know.
Decode(w) == IF decode(w) \in Insns THEN decode(w) ELSE InvalidWord

Signal == Get(mem, Tohost, 8)

-----------------------------------------------------------------------------
Fetch ==
    /\ phase = "fetch" /\ status = "running" /\ Fetchable
    /\ insn' = Get(mem, pc, 4)
    /\ phase' = "step"
    /\ UNCHANGED <<vars, out>>

FetchFails ==
    /\ phase = "fetch" /\ FetchFault
    /\ UNCHANGED <<phase, insn, out>>

\* Executor::step.  It returns a commit unless it takes a trap; a step that
\* throws does not return.
Execution ==
    /\ phase = "step" /\ status = "running"
    /\ \E decoded \in {Decode(insn)} : \E r \in Execute(decoded) :
          /\ Finish(r)
          /\ IF status' = "running"
             THEN /\ out' = IF r.kind = "normal" THEN CommitOf(r) ELSE None
                  /\ phase' = "check"
             ELSE UNCHANGED <<phase, out>>
    /\ UNCHANGED insn

\* Mutation of CheckTohost: only the first byte is looked at.
CheckTohostByte ==
    /\ phase = "check"
    /\ phase' = IF Get(mem, Tohost, 1) # {} THEN "halted" ELSE "fetch"
    /\ UNCHANGED <<vars, insn, out>>

\* The end of the loop body, after a commit and after a trap alike.
CheckTohost ==
    /\ phase = "check"
    /\ phase' = IF AccessOutcome(Tohost, 8) # "ok" THEN AccessOutcome(Tohost, 8)
                ELSE IF Signal # {} THEN "halted" ELSE "fetch"
    /\ UNCHANGED <<vars, insn, out>>

Finished == status # "running" \/ phase \in {"halted", "aborted", "undefined"}

Exited == Finished /\ UNCHANGED simVars

SimInit ==
    /\ Init
    /\ phase = "fetch" /\ insn = {} /\ out = None

Iterate == Fetch \/ FetchFails \/ Execution \/ CheckTohost

SimNext == Iterate \/ Exited

\* One thread runs the loop and nothing it calls blocks.
SimSpec == SimInit /\ [][SimNext]_simVars /\ WF_simVars(Iterate)

-----------------------------------------------------------------------------
\* The loop executes instructions only as Executor specifies: whatever holds
\* of every instruction stream holds of a program run.
ExecutorSpec == Spec

\* The commit names the word that was decoded and executed, even when the
\* instruction overwrote itself: step rereads memory, before it stores.
CommitNamesFetchedWord == phase = "check" /\ out # None => out.insn = insn

\* No instruction runs once a program has signalled its end, whether the
\* signalling store is the last commit or a trap came after it.
SignalStopsExecution == phase \in {"fetch", "step"} => Signal = {}

\* The program that signals its end is stopped.
SignalIsSeen == Signal # {} ~> Finished
=============================================================================
