------------------------------ MODULE SpfgTick ------------------------------
(***************************************************************************)
(* The library with the client it is meant for, the one of the README's    *)
(* walk-through and of contrib/binding-elm/examples/example-1: compose a   *)
(* grid that keeps to the README's abstraction model, then again and again *)
(* set source datapoints, reset the cycle and run it to its end.  The      *)
(* callback may stop the run or fail before any function; the client then  *)
(* runs again, without a reset.                                            *)
(***************************************************************************)
EXTENDS SpfgEval

CONSTANT FeedLimit  \* times a source is set between two cycles

ASSUME FeedAssumption == FeedLimit \in Nat

VARIABLES
  stage,  \* what the client is doing: "compose", "feed" or "work"
  fed     \* how often each datapoint was set since the last cycle ended

tickVars == <<dps, fns, cur, grx, ret, frames, stage, fed>>

Unfed == [d \in DpSlots |-> 0]

TickInit == /\ EvalInit
            /\ stage = "compose"
            /\ fed = Unfed

-----------------------------------------------------------------------------
(* The client *)

\* README.md: a datapoint is the input of at most one function and the output
\* of at most one; and a function does not read what it writes.
Conforming(in, out) ==
  /\ ~Intersect(in, out)
  /\ \A f \in Used(fns) : ~Intersect(fns[f].in, in) /\ ~Intersect(fns[f].out, out)

Compose ==
  /\ stage = "compose"
  /\ \/ \E type \in DpTypeArgs, name \in NameArgs : DpCreate(type, name)
     \/ \E type \in FnTypeArgs, phase \in CreatePhases, in \in InArgs,
           out \in OutArgs, name \in NameArgs :
          Conforming(in, out) /\ FnCreate(type, phase, in, out, name)
  /\ UNCHANGED <<frames, stage, fed>>

Open == /\ stage = "compose"
        /\ stage' = "feed"
        /\ UNCHANGED evalVars /\ UNCHANGED fed

\* A live datapoint that no function writes.
Source(d) == dps[d].used /\ \A f \in Used(fns) : d \notin Outs(fns[f])

Feed(d, v) == /\ stage = "feed"
              /\ Source(d)
              /\ fed[d] < FeedLimit
              /\ DpSetBool(d, v)
              /\ fed' = [fed EXCEPT ![d] = @ + 1]
              /\ UNCHANGED stage

Start == /\ stage = "feed"
         /\ ResetCycle
         /\ stage' = "work"
         /\ UNCHANGED fed

\* The first run after the reset, and the next ones while the cycle is not over.
Run == /\ stage = "work" /\ frames = <<>>
       /\ \E cb \in BOOLEAN : RunCycle(cb)
       /\ UNCHANGED <<stage, fed>>

-----------------------------------------------------------------------------
(* The library *)

Step == (Offer \/ RunNext \/ CbReturn) /\ UNCHANGED <<stage, fed>>

\* The loop found no function left: the cycle is over.
Finish == LoopEnd /\ stage' = "feed" /\ fed' = Unfed

TickNext == \/ Compose \/ Open
            \/ \E d \in DpSlots, v \in BOOLEAN : Feed(d, v)
            \/ Start \/ Run \/ Step \/ Finish

TickSpec == TickInit /\ [][TickNext]_tickVars

\* The client resumes what it stopped, the loop and the callback go on, and
\* the callback does not refuse the same function for ever.
TickFairness == /\ WF_tickVars(Run)
                /\ WF_tickVars(Step \/ Finish)
                /\ SF_tickVars(CbContinue /\ UNCHANGED <<stage, fed>>)
FairTickSpec == TickSpec /\ TickFairness

-----------------------------------------------------------------------------
(* What the client gets *)

Dataflow == INSTANCE SpfgDataflow WITH
  Datapoint <- DpSlots,
  net <- {[in |-> fns[f].in, out |-> fns[f].out] : f \in Used(fns)},
  val <- [d \in DpSlots |-> dps[d].value]

\* Run to its end, a cycle computes what the network of functions defines,
\* each function after those it depends on, and changes no source.
ImplementsDataflow == Dataflow!Spec

\* The values a function's output should have.
Agrees(f) == \A d \in Outs(fns[f]) :
               dps[d].value <=> \A i \in Ins(fns[f]) : dps[i].value

\* Why: an output that disagrees with its inputs always has a change pending
\* on one of them, and the cursor has not passed its function.
DisagreementIsPending == \A f \in Used(fns) :
  ~Agrees(f) => /\ \E d \in Ins(fns[f]) : dps[d].emitted
                /\ stage = "work" /\ grx.valid =>
                     \E i \in FnSlots : i > cur /\ grx.fnx[i].fn = f

\* When the cycle is over, no function disagrees and no change is pending on
\* anything that a function reads.
SettledBetweenCycles == stage = "feed" /\ fed = Unfed =>
  \A f \in Used(fns) : Agrees(f) /\ \A d \in Ins(fns[f]) : ~dps[d].emitted

\* A cycle that was started comes to its end.
CycleCompletes == stage = "work" ~> stage = "feed"
=============================================================================
