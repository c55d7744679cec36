------------------------------ MODULE SpfgEval ------------------------------
(***************************************************************************)
(* Grid evaluation: the calls of spfg.c and spfg_eval.c that set           *)
(* datapoints, reset the cycle and run it, together with the composition   *)
(* calls, which a client may make between two runs and, because            *)
(* spfg_rt_run_cycle hands control to a callback before every function,    *)
(* also in the middle of one.  A callback may even run the cycle again.    *)
(*                                                                         *)
(* The library is sequential: what interleaves is the loop of              *)
(* spfg_rt_run_cycle with the calls made from its callback.  `frames' is   *)
(* the stack of its activations.                                           *)
(***************************************************************************)
EXTENDS SpfgBuild

CONSTANTS
  MaxDepth,     \* bound on nested activations of spfg_rt_run_cycle
  InCallback,   \* the groups of calls the client makes from a callback
  MidCycle      \* the groups it makes between two runs of one cycle

CallGroups == {"init", "build", "set", "reset", "run", "io"}

ASSUME EvalAssumption == /\ MaxDepth \in Nat
                         /\ InCallback \subseteq CallGroups
                         /\ MidCycle \subseteq CallGroups

VARIABLE
  frames  \* activations of spfg_rt_run_cycle, the innermost first

\* cb: a callback was passed.  at: 0 while the loop has control; while the
\* callback has it, the position of the index entry the loop took (`fnx').
\* id: the function id given to the callback.
Frame == [cb: BOOLEAN, at: 0..MaxFns, id: Nat]

evalVars == <<dps, fns, cur, grx, ret, frames>>

EvalInit == BuildInit /\ frames = <<>>

\* The client has control, and its habits allow a call of this group now.
May(group) ==
  IF frames = <<>> THEN cur = 0 \/ group \in MidCycle
  ELSE Head(frames).at # 0 /\ group \in InCallback

-----------------------------------------------------------------------------
(* Datapoints *)

\* (Slip: only a write of TRUE counts as a change.)
BoolSetRising(table, d, v) == [table EXCEPT ![d].emitted = v, ![d].value = v]

\* _dp_bool_set: a change is pending when, and only when, this write altered
\* the value.
BoolSet(table, d, v) ==
  [table EXCEPT ![d].emitted = table[d].value # v, ![d].value = v]

\* spfg_dp_set_bool, whatever the type of the datapoint.
DpSetBool(id, v) ==
  /\ UNCHANGED <<fns, cur, grx, frames>>
  /\ \/ ~ResolveDp(dps, id) /\ ret' = "INVALID_DP_ID" /\ UNCHANGED dps
     \/ ResolveDp(dps, id) /\ ret' = "NO" /\ dps' = BoolSet(dps, id, v)

ResetCycle == /\ cur' = 0
              /\ ret' = "NO"
              /\ UNCHANGED <<dps, fns, grx, frames>>

-----------------------------------------------------------------------------
(* One function *)

\* _spfg_find_changed_fnx_in_dp finds a datapoint.
Changed(e) == \E d \in Range(e.in) : dps[d].used /\ dps[d].emitted

\* _fnx_eval: the only implemented type ands its two inputs.
EvalFails(e) == Changed(e) /\ fns[e.fn].type # "AND_BOOL_BOOL_RET_BOOL"
Evaluated(e) ==
  BoolSet(dps, e.out[1], dps[e.in[1]].value /\ dps[e.in[2]].value)

\* (Slip: the output is cleared too.)
ChangesClearedAll(table, e) ==
  [d \in DpSlots |-> IF d \in Range(e.in) \cup Range(e.out)
                     THEN [table[d] EXCEPT !.emitted = FALSE] ELSE table[d]]

\* _fnx_changed_dps_clear: the inputs, not what the function has just written.
ChangesCleared(table, e) ==
  [d \in DpSlots |-> IF d \in Range(e.in) THEN [table[d] EXCEPT !.emitted = FALSE]
                     ELSE table[d]]

\* What _fnx_run leaves in the datapoints when it does not fail.
AfterRun(e) == IF Changed(e) THEN ChangesCleared(Evaluated(e), e) ELSE dps

-----------------------------------------------------------------------------
(* The cycle *)

\* The innermost activation returns.
Return(code) == frames' = Tail(frames) /\ ret' = code

\* spfg_rt_run_cycle up to its loop.
RunCycle(cb) ==
  /\ Len(frames) < MaxDepth
  /\ \/ /\ ~grx.valid /\ ~Rebuildable(dps, fns)
        /\ grx' = HalfRebuilt(dps, fns, grx)
        /\ ret' = "REINDEX"
        /\ UNCHANGED <<dps, fns, cur, frames>>
     \/ /\ grx.valid \/ Rebuildable(dps, fns)
        /\ grx' \in IF grx.valid THEN {grx} ELSE Rebuilt(fns, grx)
        /\ frames' = <<[cb |-> cb, at |-> 0, id |-> 0]>> \o frames
        /\ UNCHANGED <<dps, fns, cur, ret>>

\* The loop has control.  It goes on while the cursor is inside the index, on
\* an entry whose function is live.
InLoop == frames # <<>> /\ Head(frames).at = 0
More == /\ cur < MaxFns
        /\ grx.fnx[cur + 1].fn # 0
        /\ fns[grx.fnx[cur + 1].fn].used

LoopEnd == /\ InLoop /\ ~More
           /\ Return("NO")
           /\ UNCHANGED grid

\* The loop gives the next function's id to the callback, before running it.
Offer ==
  /\ InLoop /\ More /\ Head(frames).cb
  /\ frames' = [frames EXCEPT ![1].at = cur + 1,
                              ![1].id = fns[grx.fnx[cur + 1].fn].id]
  /\ UNCHANGED <<dps, fns, cur, grx, ret>>

\* (Slip: the cursor only moves past a function that had something to do.)
RunFnOrWait(at) ==
  LET e == grx.fnx[at]
  IN  /\ ~EvalFails(e)
      /\ dps' = AfterRun(e)
      /\ cur' = IF Changed(e) THEN cur + 1 ELSE cur
      /\ frames' = [frames EXCEPT ![1].at = 0, ![1].id = 0]
      /\ UNCHANGED <<fns, grx, ret>>

\* The function of the entry at this position runs, whatever the entry holds
\* by now, and the cursor, wherever it is by now, advances.
RunFn(at) ==
  LET e == grx.fnx[at]
  IN  \/ /\ EvalFails(e)
         /\ Return("EVAL_FN_FAILURE")
         /\ UNCHANGED grid
      \/ /\ ~EvalFails(e)
         /\ dps' = AfterRun(e)
         /\ cur' = cur + 1
         /\ frames' = [frames EXCEPT ![1].at = 0, ![1].id = 0]
         /\ UNCHANGED <<fns, grx, ret>>

RunNext == InLoop /\ More /\ ~Head(frames).cb /\ RunFn(cur + 1)

\* The callback returns.
InCb == frames # <<>> /\ Head(frames).at # 0

\* (Slip: a stop moves the cursor past the function that was offered.)
CbStopAdvances == /\ InCb /\ Return("NO")
                  /\ cur' = cur + 1
                  /\ UNCHANGED <<dps, fns, grx>>

CbStop == InCb /\ Return("NO") /\ UNCHANGED grid
CbFail == InCb /\ Return("EVAL_CB_FAILURE") /\ UNCHANGED grid
CbContinue == InCb /\ RunFn(Head(frames).at)

-----------------------------------------------------------------------------
Loop == LoopEnd \/ Offer \/ RunNext
CbReturn == CbStop \/ CbFail \/ CbContinue

Client ==
  \/ May("init") /\ InitCall /\ UNCHANGED frames
  \/ May("build") /\ BuildCall /\ UNCHANGED frames
  \/ May("set") /\ \E id \in DpIdArgs, v \in BOOLEAN : DpSetBool(id, v)
  \/ May("reset") /\ ResetCycle
  \/ May("run") /\ \E cb \in BOOLEAN : RunCycle(cb)

EvalNext == Client \/ Loop \/ CbReturn

EvalSpec == EvalInit /\ [][EvalNext]_evalVars

\* The loop runs when it can, and a callback returns.
EvalFairness == WF_evalVars(Loop) /\ WF_evalVars(CbReturn)
FairEvalSpec == EvalSpec /\ EvalFairness

-----------------------------------------------------------------------------
(* What evaluation keeps true *)

\* The cursor has passed this entry of the index.
Passed(i) == i \in FnSlots /\ i <= cur

\* No function behind the cursor has a change pending on what it reads.
BehindConsumed == \A i \in FnSlots : Passed(i) => ~Changed(grx.fnx[i])

\* The variables hold values of their types; an activation holds a position of
\* the index.
EvalTypeOK == TypeOK /\ frames \in Seq(Frame)

\* The index never points at a block that is gone or that another block has
\* replaced: an entry that is not null is that of a live function with the
\* datapoints it refers to now, also while a callback that is rebuilding the
\* grid holds up a loop that will use the entry (the _spfg_index_clear at the
\* end of every composition call).
IndexCurrent == \A i \in FnSlots :
  LET e == grx.fnx[i]
  IN  \/ e = ZeroEntry
      \/ e.fn \in Used(fns) /\ e = EntryOf(fns, e.fn)

\* A valid index lists every live function, and only once.
IndexComplete == grx.valid =>
  \A f \in Used(fns) : \E i \in FnSlots :
    /\ grx.fnx[i].fn = f
    /\ \A j \in FnSlots \ {i} : grx.fnx[j].fn # f

\* A valid index is in evaluation order: by phase, then by id, with the null
\* entries last (README.md: "breadth-first per phase").
IndexOrdered == grx.valid =>
  \A i, j \in FnSlots : i < j /\ grx.fnx[j].fn # 0 =>
    LET f == grx.fnx[i].fn
        g == grx.fnx[j].fn
    IN  /\ f # 0
        /\ \/ fns[f].phase < fns[g].phase
           \/ fns[f].phase = fns[g].phase /\ f < g

\* In a valid index a function that feeds another stands before it, so one
\* pass over the index propagates a change all the way.
IndexTopological == grx.valid =>
  \A i, j \in FnSlots :
    /\ grx.fnx[i].fn # 0 /\ grx.fnx[j].fn # 0 /\ i # j
    /\ Feeds(grx.fnx[i].fn, grx.fnx[j].fn)
    => i < j

\* Nothing that was composed makes a run fail, whatever the callback does to the
\* function it was offered: the index can be built, and the function of an entry,
\* when its turn comes, is still one that there is code for.  (A function that
\* cannot be evaluated would hold the cursor for good.)
RunsNeverFail == [][ret' \notin {"REINDEX", "EVAL_FN_FAILURE"}]_evalVars

\* spfg_rt_run_cycle returns.
Termination == frames # <<>> ~> frames = <<>>
=============================================================================
