-------------------------- MODULE SpfgCycleProofs --------------------------
(***************************************************************************)
(* A cycle passes over no change, on any grid, through any stops, failures *)
(* and resumes, as long as the client does not disturb it: it is then one  *)
(* pass over the index (SpfgEvalProofs).                                   *)
(***************************************************************************)
EXTENDS SpfgCycle, SpfgEvalProofs

CycleInv == kept => OnePass /\ BehindConsumed

-----------------------------------------------------------------------------
\* A call that does not disturb the cycle.
LEMMA GentleStep == ASSUME PassInv, Gentle
                    PROVE  OnePass' /\ BehindConsumed'
<1>0. OnePass /\ BehindConsumed /\ TypeOK /\ Integrity /\ IndexCurrent /\ cur \in Nat
  BY DEF PassInv, EvalInv, EvalTypeOK, TypeOK
<1>1. ASSUME frames = <<>>, NEW cb \in BOOLEAN, RunCycle(cb)
      PROVE  OnePass' /\ BehindConsumed'
  BY <1>1, StartStep
<1>2. CASE /\ UNCHANGED <<fns, cur, grx, frames>>
           /\ \A i \in FnSlots : Passed(i) =>
                \A d \in Range(grx.fnx[i].in) : dps'[d] = dps[d]
  BY <1>0, <1>2 DEF OnePass, BehindConsumed, Passed, Changed
<1> QED
  BY <1>1, <1>2 DEF Gentle

LEMMA CycleStep == ASSUME EvalInv, OrderInv, CycleInv, [CycleNext]_cycleVars
                   PROVE  CycleInv'
<1>1. CASE UNCHANGED cycleVars
  BY <1>1 DEF cycleVars, CycleInv, OnePass, BehindConsumed, Passed, Changed
<1>2. CASE Idle'
  BY <1>2 DEF Idle, CycleInv, OnePass, BehindConsumed, Passed, FnSlots
<1>3. CASE CycleNext /\ ~Idle'
  <2>1. kept' => kept /\ (Loop \/ CbReturn \/ Gentle)
    BY <1>3 DEF CycleNext
  <2> QED
    BY <2>1, LibraryStep, GentleStep DEF CycleInv, PassInv
<1> QED
  BY <1>1, <1>2, <1>3

-----------------------------------------------------------------------------
(* Results *)

\* A cycle is evaluation, watched.
LEMMA CycleIsEval == CycleSpec => EvalSpec
<1>1. CycleInit => EvalInit
  BY DEF CycleInit
<1>2. [CycleNext]_cycleVars => [EvalNext]_evalVars
  BY DEF CycleNext, EvalNext, cycleVars, evalVars
<1> QED
  BY <1>1, <1>2, PTL DEF CycleSpec, EvalSpec

LEMMA CycleInvariant == LowPhases => (CycleSpec => [](EvalInv /\ OrderInv /\ CycleInv))
<1> SUFFICES ASSUME LowPhases
             PROVE  CycleSpec => [](EvalInv /\ OrderInv /\ CycleInv)
  OBVIOUS
<1>1. EvalSpec => []OrderInv
  BY OrderInvariant
<1>2. CycleInit => CycleInv
  BY DEF CycleInit, EvalInit, BuildInit, CycleInv, OnePass, BehindConsumed, Passed, FnSlots
<1>3. EvalInv /\ OrderInv /\ CycleInv /\ [CycleNext]_cycleVars => CycleInv'
  BY CycleStep
<1> QED
  BY <1>1, <1>2, <1>3, CycleIsEval, EvalInvariant, PTL DEF CycleSpec

\* No change is ever passed over: whatever the client and its callbacks do, an
\* entry behind the cursor has nothing pending unless the client has disturbed
\* the cycle.
THEOREM NothingPassedOver == LowPhases => (CycleSpec => []PassedConsumed)
<1> SUFFICES ASSUME LowPhases
             PROVE  CycleSpec => []PassedConsumed
  OBVIOUS
<1>1. CycleSpec => [](EvalInv /\ OrderInv /\ CycleInv)
  BY CycleInvariant
<1>2. CycleInv => PassedConsumed
  BY DEF CycleInv, PassedConsumed
<1> QED
  BY <1>1, <1>2, PTL

\* A cycle that nobody disturbs consumes all that is pending by its end.
THEOREM CycleConsumesAll == LowPhases => (CycleSpec => AllConsumed)
<1> SUFFICES ASSUME LowPhases
             PROVE  CycleSpec => AllConsumed
  OBVIOUS
<1>1. CycleSpec => [](EvalInv /\ OrderInv /\ CycleInv)
  BY CycleInvariant
<1>2. EvalInv /\ OrderInv /\ CycleInv
        => (kept /\ LoopEnd => \A f \in Used(fns) : ~Changed(EntryOf(fns, f)))
  BY EndConsumes DEF PassInv, CycleInv
<1> QED
  BY <1>1, <1>2, PTL DEF AllConsumed
=============================================================================
