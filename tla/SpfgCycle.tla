----------------------------- MODULE SpfgCycle -----------------------------
(***************************************************************************)
(* One cycle of a grid, from the cursor at the start of the index to the   *)
(* end of the loop, through stops, failing callbacks and resumed runs.     *)
(*                                                                         *)
(* The client of SpfgEval may do anything at any time, and some of it      *)
(* makes a cycle pass over a function that has something to do: editing    *)
(* the grid or setting a datapoint behind the cursor before a resume,      *)
(* running or resetting the cycle from a callback.  `kept' is a history    *)
(* variable that tells whether it has done so in this cycle.               *)
(***************************************************************************)
EXTENDS SpfgEval

VARIABLE
  kept  \* the client has not disturbed the cycle that is under way

cycleVars == <<dps, fns, cur, grx, ret, frames, kept>>

\* No cycle is under way.
Idle == frames = <<>> /\ cur = 0

\* What the client may do during a cycle: run it, but not from its callback; set
\* datapoints that no function behind the cursor reads; call in vain.
Gentle == \/ frames = <<>> /\ \E cb \in BOOLEAN : RunCycle(cb)
          \/ /\ UNCHANGED <<fns, cur, grx, frames>>
             /\ \A i \in FnSlots : Passed(i) =>
                  \A d \in Range(grx.fnx[i].in) : dps'[d] = dps[d]

CycleInit == EvalInit /\ kept = TRUE

CycleNext == \/ (Loop \/ CbReturn) /\ kept' = (Idle' \/ kept)
             \/ Client /\ kept' = (Idle' \/ (kept /\ Gentle))

CycleSpec == CycleInit /\ [][CycleNext]_cycleVars

-----------------------------------------------------------------------------
(* What a cycle keeps true *)

\* As long as the client keeps to that, no function behind the cursor has a
\* change pending on what it reads: the cycle can be stopped, failed and resumed
\* anywhere without a change being passed over.
PassedConsumed == kept => BehindConsumed

\* A cycle that comes to its end has then left no change pending on anything
\* that a live function reads (README.md: a grid is traversed "until all changed
\* data is properly consumed").
AllConsumed ==
  [][kept /\ LoopEnd => \A f \in Used(fns) : ~Changed(EntryOf(fns, f))]_cycleVars
=============================================================================
