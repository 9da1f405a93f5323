-------------------------- MODULE Simulator_proofs --------------------------
(***************************************************************************)
(* The loop of main.cpp for every program: it drives Executor as the       *)
(* specification of the instructions allows, and what it prints of a step  *)
(* is about the word it decoded.                                           *)
(***************************************************************************)
EXTENDS Simulator, Executor_proofs

\* Between the fetch and the step nothing moves: what was fetched is still
\* what memory holds at pc.  This is what both theorems need, and it says why
\* step may read the word again.
FetchedWord ==
    phase = "step" /\ status = "running" => Fetchable /\ insn = Get(mem, pc, 4)

\* Decoding yields an instruction Executor knows, InvalidInsn included.
LEMMA DecodeType == \A w : Decode(w) \in Insns
  BY SimulatorAssumption DEF Decode

LEMMA FetchedWordHolds == SimSpec => []FetchedWord
  <1>1. SimInit => FetchedWord
    BY DEF SimInit, FetchedWord
  <1>2. FetchedWord /\ [SimNext]_simVars => FetchedWord'
    <2> SUFFICES ASSUME FetchedWord, [SimNext]_simVars PROVE FetchedWord'
      OBVIOUS
    <2>1. CASE Fetch
      BY <2>1 DEF Fetch, FetchedWord, Fetchable, vars
    <2>2. CASE FetchFails
      BY <2>2 DEF FetchFails, FetchedWord
    <2>3. CASE Execution
      BY <2>3 DEF Execution, FetchedWord
    <2>4. CASE CheckTohost
      <3>1. phase' # "step"
        BY <2>4, OutcomeType DEF CheckTohost
      <3> QED  BY <3>1 DEF FetchedWord
    <2>5. CASE UNCHANGED simVars
      BY <2>5 DEF simVars, vars, FetchedWord, Fetchable
    <2> QED  BY <2>1, <2>2, <2>3, <2>4, <2>5 DEF SimNext, Iterate, Exited
  <1> QED  BY <1>1, <1>2, PTL DEF SimSpec

\* Every run of the loop is a run of Executor: the theorems about arbitrary
\* instruction streams hold of programs that are fetched from the memory they
\* modify.
THEOREM LoopImplementsExecutor == SimSpec => ExecutorSpec
  <1>1. SimInit => Init
    BY DEF SimInit
  <1>2. FetchedWord /\ [SimNext]_simVars => [Next]_vars
    <2> SUFFICES ASSUME FetchedWord, [SimNext]_simVars PROVE [Next]_vars
      OBVIOUS
    <2>1. CASE Fetch \/ CheckTohost \/ UNCHANGED simVars
      BY <2>1 DEF Fetch, CheckTohost, simVars
    <2>2. CASE FetchFails
      BY <2>2 DEF FetchFails, Next
    <2>3. CASE Execution
      <3>1. PICK r \in Execute(Decode(insn)) : Finish(r)
        BY <2>3 DEF Execution
      <3>2. Step(Decode(insn)) /\ Decode(insn) \in Insns
        BY <3>1, DecodeType DEF Step
      <3>3. status = "running" /\ Fetchable
        BY <2>3 DEF Execution, FetchedWord
      <3> QED  BY <3>2, <3>3 DEF Next
    <2> QED  BY <2>1, <2>2, <2>3 DEF SimNext, Iterate, Exited
  <1> QED  BY <1>1, <1>2, FetchedWordHolds, PTL DEF SimSpec, Spec, ExecutorSpec

\* A commit carries the word that was decoded and executed, even when the
\* instruction overwrote it.
THEOREM CommitsNameFetchedWords == SimSpec => []CommitNamesFetchedWord
  <1>1. SimInit => CommitNamesFetchedWord
    BY DEF SimInit, CommitNamesFetchedWord
  <1>2. FetchedWord /\ CommitNamesFetchedWord /\ [SimNext]_simVars
            => CommitNamesFetchedWord'
    <2> SUFFICES ASSUME FetchedWord, CommitNamesFetchedWord, [SimNext]_simVars
                 PROVE  CommitNamesFetchedWord'
      OBVIOUS
    <2>1. CASE Fetch \/ FetchFails
      BY <2>1 DEF Fetch, FetchFails, CommitNamesFetchedWord
    <2>2. CASE Execution
      <3>1. PICK r \in Execute(Decode(insn)) :
               \/ status' = "running" /\ out' = (IF r.kind = "normal" THEN CommitOf(r)
                                                                       ELSE None)
               \/ status' # "running" /\ UNCHANGED <<phase, out>>
        BY <2>2 DEF Execution
      <3>2. CommitOf(r).insn = insn
        BY <2>2 DEF CommitOf, RawInsn, Execution, FetchedWord
      <3>3. phase = "step" /\ insn' = insn
        BY <2>2 DEF Execution
      <3> QED  BY <3>1, <3>2, <3>3 DEF CommitNamesFetchedWord
    <2>3. CASE CheckTohost
      <3>1. phase' # "check"
        BY <2>3, OutcomeType DEF CheckTohost
      <3> QED  BY <3>1 DEF CommitNamesFetchedWord
    <2>4. CASE UNCHANGED simVars
      BY <2>4 DEF simVars, CommitNamesFetchedWord
    <2> QED  BY <2>1, <2>2, <2>3, <2>4 DEF SimNext, Iterate, Exited
  <1> QED  BY <1>1, <1>2, FetchedWordHolds, PTL DEF SimSpec

\* A step that does not return has stored nothing.
LEMMA FailuresStoreNothing ==
  ASSUME NEW r, Finish(r), status = "running", status' # "running"
  PROVE  UNCHANGED mem
  <1>1. CASE Retire(r)
    BY <1>1 DEF Retire
  <1>2. CASE TakeTrap(r)
    BY <1>2 DEF TakeTrap
  <1>3. CASE Fail(r)
    BY <1>3 DEF Fail
  <1> QED  BY <1>1, <1>2, <1>3 DEF Finish

\* No instruction runs after the signal, in any program that is not linked
\* with a signal in its image: main looks at tohost only after a step.
THEOREM SignalEndsTheLoop ==
  ASSUME \A image \in Images : Get(image, Tohost, 8) = {}
  PROVE  SimSpec => []SignalStopsExecution
  <1>1. SimInit => SignalStopsExecution
    BY DEF SimInit, Init, SignalStopsExecution, Signal
  <1>2. SignalStopsExecution /\ [SimNext]_simVars => SignalStopsExecution'
    <2> SUFFICES ASSUME SignalStopsExecution, [SimNext]_simVars
                 PROVE  SignalStopsExecution'
      OBVIOUS
    <2>1. CASE Fetch
      BY <2>1 DEF Fetch, vars, SignalStopsExecution, Signal
    <2>2. CASE FetchFails
      BY <2>2 DEF FetchFails, FetchFault, SignalStopsExecution, Signal
    <2>3. CASE Execution
      <3>1. PICK r \in Execute(Decode(insn)) : Finish(r)
        BY <2>3 DEF Execution
      <3>2. CASE status' = "running"
        BY <2>3, <3>2 DEF Execution, SignalStopsExecution
      <3>3. CASE status' # "running"
        <4>1. UNCHANGED <<phase, mem>>
          BY <2>3, <3>1, <3>3, FailuresStoreNothing DEF Execution
        <4> QED  BY <4>1 DEF SignalStopsExecution, Signal
      <3> QED  BY <3>2, <3>3
    <2>4. CASE CheckTohost
      <3>1. UNCHANGED mem
        BY <2>4 DEF CheckTohost, vars
      <3>2. phase' \in {"fetch", "step"} => Signal = {}
        BY <2>4, OutcomeType DEF CheckTohost
      <3> QED  BY <3>1, <3>2 DEF SignalStopsExecution, Signal
    <2>5. CASE UNCHANGED simVars
      BY <2>5 DEF simVars, vars, SignalStopsExecution, Signal
    <2> QED  BY <2>1, <2>2, <2>3, <2>4, <2>5 DEF SimNext, Iterate, Exited
  <1> QED  BY <1>1, <1>2, PTL DEF SimSpec
=============================================================================
