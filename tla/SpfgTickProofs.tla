--------------------------- MODULE SpfgTickProofs ---------------------------
(***************************************************************************)
(* What the disciplined client gets: on every grid that keeps to the       *)
(* README's abstraction model and whose sources are set at most once       *)
(* between two cycles, a cycle computes the network, although its callback *)
(* stops it and fails.                                                     *)
(*                                                                         *)
(* The invariant says where changes may be pending: in the feed stage only *)
(* on sources that have been set, in a cycle only ahead of the cursor, and *)
(* on what a function writes for another only once that function has run.  *)
(* Writing to a datapoint is what can withdraw a pending change, and a     *)
(* function only runs once: so it never withdraws one of its own.          *)
(*                                                                         *)
(* At the end, the library with this client implements the abstract        *)
(* dataflow, on every grid: the network is the set of live functions, a    *)
(* function that runs and alters its output is a function of the network   *)
(* that computes, and every other step of a cycle changes nothing that the *)
(* dataflow knows of.  Behind it are the order of the index, which makes a *)
(* function run after all it depends on, and the invariant, by which those *)
(* agree with their inputs when it does.                                   *)
(***************************************************************************)
EXTENDS SpfgTick, SpfgEvalProofs

\* The assumptions on the client.
Disciplined == LowPhases /\ FeedLimit <= 1

\* README.md, "Abstraction Model": one reader, one writer.
Private == \A f \in Used(fns) :
  /\ ~Feeds(f, f)
  /\ \A g \in Used(fns) \ {f} : /\ Ins(fns[f]) \cap Ins(fns[g]) = {}
                                /\ Outs(fns[f]) \cap Outs(fns[g]) = {}

\* Nothing has been written yet.
Blank == \A d \in DpSlots : ~dps[d].value /\ ~dps[d].emitted

Stages == /\ stage \in {"compose", "feed", "work"}
          /\ fed \in [DpSlots -> Nat]
          /\ stage # "work" => frames = <<>>
          /\ stage = "compose" => Blank /\ cur = 0
          /\ stage = "work" => BehindConsumed

\* Between cycles only a datapoint that was set has a change pending.
FedPending == stage = "feed" =>
  \A f \in Used(fns) : \A d \in Ins(fns[f]) : fed[d] = 0 => ~dps[d].emitted

\* What one function writes and another reads has a change pending only after
\* the first has run in this cycle.
WrittenPending == stage # "compose" =>
  \A f, g \in Used(fns) : \A d \in Outs(fns[f]) \cap Ins(fns[g]) :
    dps[d].emitted => /\ stage = "work"
                      /\ \E i \in FnSlots : Passed(i) /\ grx.fnx[i].fn = f

\* A function that disagrees with its inputs is due.
Due == stage # "compose" =>
  \A f \in Used(fns) : ~Agrees(f) => \E d \in Ins(fns[f]) : dps[d].emitted

TickInv == /\ EvalInv /\ OrderInv /\ OnePass
           /\ Private /\ Stages /\ FedPending /\ WrittenPending /\ Due

-----------------------------------------------------------------------------
(* One function *)

\* What a function computes.
Result(f) == \A i \in Ins(fns[f]) : dps[i].value

\* A live function has inputs and one output, all of them live slots.
LEMMA Signature ==
  ASSUME TypeOK, Integrity, NEW f \in Used(fns)
  PROVE  /\ f \in FnSlots
         /\ fns[f].in = <<fns[f].in[1], fns[f].in[2]>>
         /\ fns[f].out = <<fns[f].out[1]>>
         /\ Ins(fns[f]) = {fns[f].in[1], fns[f].in[2]}
         /\ Outs(fns[f]) = {fns[f].out[1]}
         /\ \A d \in Ins(fns[f]) \cup Outs(fns[f]) : d \in DpSlots /\ dps[d].used
<1>1. /\ f \in FnSlots
      /\ Len(fns[f].in) = 2 /\ Len(fns[f].out) = 1
      /\ fns[f].in \in Seq(DpSlots) /\ fns[f].out \in Seq(DpSlots)
      /\ \A d \in Ins(fns[f]) \cup Outs(fns[f]) : dps[d].used
  BY LiveRefs
<1> DEFINE in == fns[f].in
           out == fns[f].out
<1>2. in = <<in[1], in[2]>> /\ DOMAIN in = {1, 2} /\ in[1] \in DpSlots /\ in[2] \in DpSlots
  BY <1>1
<1>3. out = <<out[1]>> /\ DOMAIN out = {1} /\ out[1] \in DpSlots
  BY <1>1
<1>4. Ins(fns[f]) = {in[1], in[2]} /\ Outs(fns[f]) = {out[1]}
  <2> HIDE DEF in, out
  <2>1. Range(in) = {in[1], in[2]} /\ Range(out) = {out[1]}
    BY <1>2, <1>3 DEF Range
  <2> QED
    BY <2>1 DEF Ins, Outs, in, out
<1> QED
  BY <1>1, <1>2, <1>3, <1>4

\* A function that has something to do computes its output, which has a change
\* pending if that altered it, and consumes its inputs (_fnx_run).
LEMMA RunComputes ==
  ASSUME TypeOK, Integrity, IndexCurrent, Private,
         NEW p \in FnSlots, Changed(grx.fnx[p])
  PROVE  LET f == grx.fnx[p].fn
             o == fns[f].out[1]
             after == AfterRun(grx.fnx[p])
         IN  /\ f \in Used(fns)
             /\ o \in DpSlots /\ o \notin Ins(fns[f])
             /\ after[o].value = Result(f)
             /\ after[o].emitted = (dps[o].value # Result(f))
             /\ \A x \in DpSlots \ {o} : after[x].value = dps[x].value
             /\ \A x \in DpSlots \ {o} : x \notin Ins(fns[f]) => after[x] = dps[x]
<1> DEFINE e == grx.fnx[p]
           f == e.fn
           o == fns[f].out[1]
           after == AfterRun(e)
           mid == Evaluated(e)
           v == dps[e.in[1]].value /\ dps[e.in[2]].value
<1>1. e # ZeroEntry
  BY DEF Changed, ZeroEntry, Range
<1>2. f \in Used(fns) /\ e = EntryOf(fns, f)
  BY <1>1 DEF IndexCurrent
<1>3. e.in = fns[f].in /\ e.out = fns[f].out
  BY <1>2 DEF EntryOf
<1>4. /\ Ins(fns[f]) = {e.in[1], e.in[2]} /\ Outs(fns[f]) = {o} /\ e.out[1] = o
      /\ o \in DpSlots /\ e.in[1] \in DpSlots /\ e.in[2] \in DpSlots
  BY <1>2, <1>3, Signature
<1>5. o \notin Ins(fns[f])
  BY <1>2, <1>4 DEF Private, Feeds
<1>6. v = Result(f) /\ v \in BOOLEAN
  BY <1>4 DEF Result
<1>7. mid = [dps EXCEPT ![o].emitted = (dps[o].value # v), ![o].value = v]
  BY <1>4 DEF Evaluated, BoolSet
<1>8. mid[o].value = v /\ mid[o].emitted = (dps[o].value # v)
      /\ \A x \in DpSlots \ {o} : mid[x] = dps[x]
  <2> HIDE DEF v, o
  <2>1. dps \in [DpSlots -> Dp] /\ dps[o] \in Dp
    BY <1>4 DEF TypeOK
  <2> QED
    BY <1>4, <1>7, <2>1 DEF Dp
<1>9. /\ \A x \in DpSlots : x \notin Ins(fns[f]) => after[x] = mid[x]
      /\ \A x \in DpSlots : x \in Ins(fns[f]) =>
           after[x] = [mid[x] EXCEPT !.emitted = FALSE]
  BY <1>3 DEF AfterRun, ChangesCleared, Ins
<1>10. \A x \in DpSlots \ {o} : after[x].value = dps[x].value
  <2> TAKE x \in DpSlots \ {o}
  <2>1. dps[x] \in Dp /\ mid[x] = dps[x]
    BY <1>8 DEF TypeOK
  <2> HIDE DEF mid, after
  <2>2. [dps[x] EXCEPT !.emitted = FALSE].value = dps[x].value
    BY <2>1 DEF Dp
  <2> QED
    BY <1>9, <2>1, <2>2
<1> HIDE DEF after, v, mid, o
<1> QED
  BY <1>2, <1>4, <1>5, <1>6, <1>8, <1>9, <1>10 DEF o, after
-----------------------------------------------------------------------------
(* The steps of the client *)

\* Every function agrees with blank datapoints.
LEMMA BlankAgrees == ASSUME TypeOK, Integrity, Blank, NEW f \in Used(fns)
                     PROVE  Agrees(f)
<1>1. /\ Ins(fns[f]) # {}
      /\ \A d \in Ins(fns[f]) \cup Outs(fns[f]) : d \in DpSlots
  BY Signature
<1> QED
  BY <1>1 DEF Agrees, Blank

\* The client's steps are steps of evaluation.
LEMMA TickIsAnyStep == [TickNext]_tickVars => [AnyStep]_evalVars
<1>1. CASE Compose
  BY <1>1 DEF Compose, AnyStep, BuildNext, BuildCall
<1>2. ASSUME NEW d \in DpSlots, NEW v \in BOOLEAN, Feed(d, v)
      PROVE  AnyStep
  <2>1. d \in DpIdArgs
    BY SizesAssumption DEF DpIdArgs, DpSlots
  <2> QED
    BY <1>2, <2>1 DEF Feed, AnyStep
<1>3. CASE Start \/ Run \/ Step \/ Finish
  BY <1>3 DEF Start, Run, Step, Finish, AnyStep, Loop
<1>4. CASE Open \/ UNCHANGED tickVars
  BY <1>4 DEF Open, tickVars, evalVars
<1> QED
  BY <1>1, <1>2, <1>3, <1>4 DEF TickNext

TickRest == OnePass /\ Private /\ Stages /\ FedPending /\ WrittenPending /\ Due

LEMMA ComposeStep == ASSUME TickInv, Compose
                     PROVE  TickRest'
<1>0. /\ stage = "compose" /\ frames = <<>> /\ cur = 0 /\ Blank
      /\ TypeOK /\ Private /\ fed \in [DpSlots -> Nat]
  BY DEF TickInv, Stages, Compose, EvalInv, EvalTypeOK
<1>1. ASSUME Blank', Private', UNCHANGED <<cur, frames, stage, fed>>
      PROVE  TickRest'
  BY <1>0, <1>1 DEF TickRest, OnePass, Stages, FedPending, WrittenPending, Due
<1>2. UNCHANGED <<cur, frames, stage, fed>>
  BY ZenonT(60) DEF Compose, DpCreate, FnCreate, Refuse, grid
<1>3. UNCHANGED dps => Blank'
  BY <1>0 DEF Blank
<1>4. UNCHANGED fns => Private'
  BY <1>0 DEF Private, Used, Feeds, Ins, Outs
<1>5. ASSUME NEW type \in DpTypeArgs, NEW name \in NameArgs, DpCreate(type, name)
      PROVE  Blank' /\ UNCHANGED fns
  <2>1. ASSUME NEW d \in DpSlots,
               dps' = [dps EXCEPT ![d].used = TRUE, ![d].id = IdOf(d), ![d].type = type]
        PROVE  Blank'
    <3>1. \A x \in DpSlots : dps'[x].value = dps[x].value /\ dps'[x].emitted = dps[x].emitted
      BY <1>0, <2>1 DEF TypeOK, Dp
    <3> QED
      BY <1>0, <3>1 DEF Blank
  <2> QED
    BY <1>3, <1>5, <2>1 DEF DpCreate, Refuse, grid
<1>6. ASSUME NEW type \in FnTypeArgs, NEW phase \in CreatePhases, NEW in \in InArgs,
             NEW out \in OutArgs, NEW name \in NameArgs,
             Conforming(in, out), FnCreate(type, phase, in, out, name)
      PROVE  Private' /\ UNCHANGED dps
  <2>1. CASE UNCHANGED grid
    BY <1>4, <2>1 DEF grid
  <2>2. ASSUME NEW f \in FnSlots, FirstFree(fns, f), UNCHANGED dps,
               fns' = [fns EXCEPT ![f] = [used |-> TRUE, id |-> IdOf(f), type |-> type,
                                          phase |-> phase, in |-> in, out |-> out]]
        PROVE  Private'
    <3>1. /\ fns'[f].in = in /\ fns'[f].out = out
          /\ \A g \in Used(fns)' : g # f => g \in Used(fns) /\ fns'[g] = fns[g]
      BY <1>0, <2>2 DEF TypeOK, Used
    <3>2. Range(in) \cap Range(out) = {}
      BY <1>6 DEF Conforming, Intersect
    <3>3. \A g \in Used(fns) : /\ Range(fns[g].in) \cap Range(in) = {}
                              /\ Range(fns[g].out) \cap Range(out) = {}
      BY <1>6 DEF Conforming, Intersect
    <3> QED
      BY <1>0, <3>1, <3>2, <3>3 DEF Private, Feeds, Ins, Outs
  <2> QED
    BY <1>6, <2>1, <2>2 DEF FnCreate, Refuse, grid
<1> QED
  BY <1>1, <1>2, <1>3, <1>4, <1>5, <1>6 DEF Compose

LEMMA OpenStep == ASSUME TickInv, Open
                  PROVE  TickRest'
<1>0. /\ stage = "compose" /\ frames = <<>> /\ Blank
      /\ OnePass /\ Private /\ TypeOK /\ Integrity /\ fed \in [DpSlots -> Nat]
  BY DEF TickInv, Stages, Open, EvalInv, EvalTypeOK
<1>1. UNCHANGED <<dps, fns, cur, grx, frames, fed>> /\ stage' = "feed"
  BY DEF Open, evalVars
<1>2. /\ \A f \in Used(fns) : Agrees(f)
      /\ \A f \in Used(fns) : \A d \in Ins(fns[f]) : ~dps[d].emitted
  BY <1>0, BlankAgrees, Signature DEF Blank
<1>3. OnePass' /\ Private' /\ Stages'
  BY <1>0, <1>1 DEF OnePass, Private, Stages, Used, Feeds, Ins, Outs
<1>4. FedPending' /\ WrittenPending'
  BY <1>1, <1>2 DEF FedPending, WrittenPending, Used, Ins, Outs
<1>5. Due'
  BY <1>1, <1>2 DEF Due, Agrees, Used, Ins, Outs
<1> QED
  BY <1>3, <1>4, <1>5 DEF TickRest

LEMMA StartCycleStep == ASSUME TickInv, Start
                        PROVE  TickRest'
<1>1. /\ stage = "feed" /\ stage' = "work" /\ cur' = 0 /\ frames = <<>>
      /\ UNCHANGED <<dps, fns, grx, frames, fed>>
  BY DEF Start, ResetCycle, TickInv, Stages
<1>2. OnePass' /\ Private'
  BY <1>1 DEF TickInv, OnePass, Private, Used, Feeds, Ins, Outs
<1>3. Stages'
  BY <1>1 DEF TickInv, Stages, BehindConsumed, Passed, FnSlots
<1>4. FedPending' /\ WrittenPending'
  BY <1>1 DEF TickInv, FedPending, WrittenPending, Used, Ins, Outs
<1>5. Due'
  BY <1>1 DEF TickInv, Due, Agrees, Used, Ins, Outs
<1> QED
  BY <1>2, <1>3, <1>4, <1>5 DEF TickRest

LEMMA RunStep == ASSUME TickInv, Run
                 PROVE  TickRest'
<1>0. stage = "work" /\ frames = <<>> /\ PassInv
  BY DEF Run, TickInv, Stages, PassInv
<1>1. PICK cb \in BOOLEAN : RunCycle(cb)
  BY DEF Run
<1>2. OnePass' /\ BehindConsumed'
  BY <1>0, <1>1, StartStep
<1>3. UNCHANGED <<dps, fns, cur, stage, fed>>
  BY <1>1 DEF Run, RunCycle
<1>4. Private' /\ Stages' /\ FedPending'
  BY <1>0, <1>2, <1>3 DEF TickInv, Private, Stages, FedPending, Used, Feeds, Ins, Outs
<1>5. Due'
  BY <1>3 DEF TickInv, Due, Agrees, Used, Ins, Outs
<1>6. WrittenPending'
  <2>1. UNCHANGED grx \/ ~grx.valid
    BY <1>1 DEF RunCycle
  <2>2. ~grx.valid => cur = 0
    BY DEF TickInv, OnePass
  <2>3. cur = 0 => \A i \in FnSlots : ~Passed(i)
    BY DEF Passed, FnSlots
  <2> QED
    BY <1>3, <2>1, <2>2, <2>3 DEF TickInv, WrittenPending, Used, Ins, Outs, Passed
<1> QED
  BY <1>2, <1>4, <1>5, <1>6 DEF TickRest

\* A source that has not been set in this tick has no change pending for the
\* write to withdraw.
LEMMA FeedStep == ASSUME Disciplined, TickInv,
                         NEW d \in DpSlots, NEW v \in BOOLEAN, Feed(d, v)
                  PROVE  TickRest'
<1>0. /\ stage = "feed" /\ TypeOK /\ fed \in [DpSlots -> Nat]
      /\ dps[d].used /\ \A f \in Used(fns) : d \notin Outs(fns[f])
      /\ UNCHANGED <<fns, cur, grx, frames, stage>>
      /\ fed' = [fed EXCEPT ![d] = @ + 1]
  BY DEF Feed, Source, DpSetBool, TickInv, Stages, EvalInv, EvalTypeOK
<1>1. fed[d] = 0
  BY <1>0, FeedAssumption DEF Feed, Disciplined
<1>2. dps' = BoolSet(dps, d, v)
  BY <1>0 DEF Feed, DpSetBool, ResolveDp
<1>live. \A f \in Used(fns) : \A x \in Ins(fns[f]) \cup Outs(fns[f]) : x \in DpSlots
  BY Signature DEF TickInv, EvalInv, EvalTypeOK
<1>3. /\ \A x \in DpSlots \ {d} : dps'[x] = dps[x]
      /\ dps'[d].value = v /\ dps'[d].emitted = (dps[d].value # v)
  <2>1. dps \in [DpSlots -> Dp] /\ dps[d] \in Dp
    BY <1>0 DEF TypeOK
  <2>2. dps' = [dps EXCEPT ![d].emitted = (dps[d].value # v), ![d].value = v]
    BY <1>2 DEF BoolSet
  <2> QED
    BY <2>1, <2>2 DEF Dp
<1>4. OnePass' /\ Private'
  BY <1>0 DEF TickInv, OnePass, Private, Used, Feeds, Ins, Outs
<1>5. Stages'
  BY <1>0 DEF TickInv, Stages
<1>6. FedPending'
  <2>1. \A x \in DpSlots : fed'[x] = 0 => x # d /\ fed[x] = 0
    BY <1>0
  <2> QED
    BY <1>0, <1>live, <1>3, <2>1 DEF TickInv, FedPending, Used, Ins
<1>7. WrittenPending'
  BY <1>0, <1>live, <1>3 DEF TickInv, WrittenPending, Used, Ins, Outs
<1>8. Due'
  <2> SUFFICES ASSUME NEW f \in Used(fns), ~Agrees(f)'
               PROVE  \E x \in Ins(fns[f]) : dps'[x].emitted
    BY <1>0 DEF Due, Used, Ins
  <2>1. CASE d \in Ins(fns[f]) /\ dps[d].value # v
    BY <1>3, <2>1
  <2>2. CASE d \notin Ins(fns[f]) \/ dps[d].value = v
    <3>1. \A x \in Ins(fns[f]) \cup Outs(fns[f]) : dps'[x].value = dps[x].value
      BY <1>0, <1>live, <1>3, <2>2
    <3>2. ~Agrees(f)
      BY <1>0, <3>1 DEF Agrees, Ins, Outs
    <3>3. PICK x \in Ins(fns[f]) : dps[x].emitted
      BY <1>0, <3>2 DEF TickInv, Due
    <3>4. x # d
      BY <1>0, <1>1, <3>3 DEF TickInv, FedPending
    <3> QED
      BY <1>live, <1>3, <3>3, <3>4
  <2> QED
    BY <2>1, <2>2
<1> QED
  BY <1>4, <1>5, <1>6, <1>7, <1>8 DEF TickRest
-----------------------------------------------------------------------------
(* The steps of a cycle *)

\* The entry that runs is ahead of the cursor, so it stands nowhere behind it.
LEMMA RunsOnce ==
  ASSUME TickInv, cur + 1 \in FnSlots, grx.valid, grx.fnx[cur + 1].fn \in Used(fns)
  PROVE  \A i \in FnSlots : Passed(i) => grx.fnx[i].fn # grx.fnx[cur + 1].fn
<1> DEFINE f == grx.fnx[cur + 1].fn
<1>1. PICK k \in FnSlots : \A j \in FnSlots \ {k} : grx.fnx[j].fn # f
  BY DEF TickInv, EvalInv, IndexComplete
<1>2. \A i \in FnSlots : Passed(i) => i # cur + 1
  BY DEF TickInv, EvalInv, EvalTypeOK, TypeOK, Passed, FnSlots
<1> QED
  BY <1>1, <1>2

\* The function the cursor is on runs.
LEMMA RanDue ==
  ASSUME TickInv, stage = "work", cur + 1 \in FnSlots, grx.valid,
         dps' = AfterRun(grx.fnx[cur + 1]), UNCHANGED <<fns, stage>>
  PROVE  Due'
<1> DEFINE e == grx.fnx[cur + 1]
           f == e.fn
           o == fns[f].out[1]
<1>0. TypeOK /\ Integrity /\ IndexCurrent /\ Private /\ WrittenPending /\ Due
  BY DEF TickInv, EvalInv, EvalTypeOK
<1>1. CASE ~Changed(e)
  <2>1. dps' = dps
    BY <1>1 DEF AfterRun
  <2> QED
    BY <1>0, <2>1 DEF Due, Agrees, Used, Ins, Outs
<1>2. CASE Changed(e)
  <2>1. /\ f \in Used(fns)
        /\ o \in DpSlots /\ o \notin Ins(fns[f])
        /\ dps'[o].value = Result(f)
        /\ dps'[o].emitted = (dps[o].value # Result(f))
        /\ \A x \in DpSlots \ {o} : dps'[x].value = dps[x].value
        /\ \A x \in DpSlots \ {o} : x \notin Ins(fns[f]) => dps'[x] = dps[x]
    BY <1>0, <1>2, RunComputes
  <2>2. \A g \in Used(fns) : \A x \in Ins(fns[g]) \cup Outs(fns[g]) : x \in DpSlots
    BY <1>0, Signature
  <2>3. Outs(fns[f]) = {o}
    BY <1>0, <2>1, Signature
  <2> HIDE DEF e, f, o
  <2> SUFFICES ASSUME NEW g \in Used(fns), ~Agrees(g)'
               PROVE  \E x \in Ins(fns[g]) : dps'[x].emitted
    BY DEF Due, Used, Ins
  <2>4. g # f
    <3> SUFFICES ASSUME g = f
                 PROVE  FALSE
      OBVIOUS
    <3>1. Result(f) = \A i \in Ins(fns[g]) : dps'[i].value
      BY <2>1, <2>2 DEF Result
    <3>2. \A d \in Outs(fns[g]) : dps'[d].value = Result(f)
      BY <2>1, <2>3
    <3> QED
      BY <3>1, <3>2 DEF Agrees, Ins, Outs
  <2>5. Ins(fns[g]) \cap Ins(fns[f]) = {} /\ o \notin Outs(fns[g])
    BY <1>0, <2>1, <2>3, <2>4 DEF Private
  <2>6. CASE o \in Ins(fns[g]) /\ dps[o].value # Result(f)
    BY <2>1, <2>6
  <2>7. CASE o \notin Ins(fns[g]) \/ dps[o].value = Result(f)
    <3>1. \A x \in Ins(fns[g]) \cup Outs(fns[g]) : dps'[x].value = dps[x].value
      BY <2>1, <2>2, <2>5, <2>7
    <3>2. ~Agrees(g)
      BY <3>1 DEF Agrees, Ins, Outs
    <3>3. PICK x \in Ins(fns[g]) : dps[x].emitted
      BY <1>0, <3>2 DEF Due
    <3>4. x # o
      <4> SUFFICES ASSUME x = o
                   PROVE  FALSE
        OBVIOUS
      <4>1. o \in Outs(fns[f]) \cap Ins(fns[g])
        BY <2>3, <3>3
      <4>2. PICK i \in FnSlots : Passed(i) /\ grx.fnx[i].fn = f
        BY <1>0, <2>1, <3>3, <4>1 DEF WrittenPending
      <4> QED
        BY <2>1, <4>2, RunsOnce DEF f, e
    <3> QED
      BY <2>1, <2>2, <2>5, <3>3, <3>4
  <2> QED
    BY <2>6, <2>7
<1> QED
  BY <1>1, <1>2

LEMMA RanWritten ==
  ASSUME TickInv, stage = "work", cur + 1 \in FnSlots, grx.valid,
         dps' = AfterRun(grx.fnx[cur + 1]), cur' = cur + 1, UNCHANGED <<fns, grx, stage>>
  PROVE  WrittenPending'
<1>0. /\ TypeOK /\ Integrity /\ IndexCurrent /\ Private /\ WrittenPending /\ cur \in Nat
  BY DEF TickInv, EvalInv, EvalTypeOK, TypeOK
<1> SUFFICES ASSUME NEW f \in Used(fns), NEW g \in Used(fns),
                    NEW d \in Outs(fns[f]) \cap Ins(fns[g]), dps'[d].emitted
             PROVE  \E i \in FnSlots : i <= cur + 1 /\ grx.fnx[i].fn = f
  BY DEF WrittenPending, Passed, Used, Ins, Outs
<1>1. d \in DpSlots
  BY <1>0, Signature
<1>2. CASE dps[d].emitted
  <2>1. PICK i \in FnSlots : Passed(i) /\ grx.fnx[i].fn = f
    BY <1>0, <1>2 DEF WrittenPending
  <2> QED
    BY <1>0, <2>1 DEF Passed, FnSlots
<1>3. CASE ~dps[d].emitted
  <2> DEFINE h == grx.fnx[cur + 1].fn
  <2>1. h \in Used(fns) /\ d \in Outs(fns[h])
    BY <1>0, <1>1, <1>3, RunConsumes
  <2>2. h = f
    BY <1>0, <2>1 DEF Private
  <2> QED
    BY <1>0, <2>2
<1> QED
  BY <1>2, <1>3

LEMMA WorkStep == ASSUME TickInv, Step
                  PROVE  TickRest'
<1>0. frames # <<>> /\ (Loop \/ CbReturn) /\ UNCHANGED <<stage, fed>>
  BY DEF Step, Loop, Offer, RunNext, InLoop, CbReturn, CbStop, CbFail, CbContinue, InCb
<1>1. stage = "work" /\ PassInv
  BY <1>0 DEF TickInv, Stages, PassInv
<1>2. OnePass' /\ BehindConsumed'
  BY <1>0, <1>1, LibraryStep
<1>3. CASE UNCHANGED grid
  <2>1. UNCHANGED <<dps, fns, cur, grx>>
    BY <1>3 DEF grid
  <2>2. Private' /\ Stages' /\ FedPending'
    BY <1>0, <1>1, <1>2, <2>1 DEF TickInv, Private, Stages, FedPending, Used, Feeds,
       Ins, Outs
  <2>3. WrittenPending'
    BY <1>0, <2>1 DEF TickInv, WrittenPending, Passed, Used, Ins, Outs
  <2>4. Due'
    BY <1>0, <2>1 DEF TickInv, Due, Agrees, Used, Ins, Outs
  <2> QED
    BY <1>2, <2>2, <2>3, <2>4 DEF TickRest
<1>4. CASE /\ cur + 1 \in FnSlots /\ grx.valid
           /\ dps' = AfterRun(grx.fnx[cur + 1])
           /\ cur' = cur + 1
           /\ UNCHANGED <<fns, grx>>
  <2>1. Due' /\ WrittenPending'
    BY <1>0, <1>1, <1>4, RanDue, RanWritten
  <2>2. Private' /\ Stages' /\ FedPending'
    BY <1>0, <1>1, <1>2, <1>4 DEF TickInv, Private, Stages, FedPending, Used, Feeds,
       Ins, Outs
  <2> QED
    BY <1>2, <2>1, <2>2 DEF TickRest
<1> QED
  BY <1>0, <1>1, <1>3, <1>4, LibraryEffect

\* When the cycle is over nothing that a function reads has a change pending.
LEMMA FinishConsumed == ASSUME TickInv, Finish, NEW f \in Used(fns)
                        PROVE  \A d \in Ins(fns[f]) : ~dps[d].emitted
<1>1. PassInv /\ LoopEnd
  BY DEF Finish, LoopEnd, InLoop, TickInv, Stages, PassInv
<1>2. ~Changed(EntryOf(fns, f))
  BY <1>1, EndConsumes
<1>3. \A d \in Ins(fns[f]) : dps[d].used
  BY Signature DEF TickInv, EvalInv, EvalTypeOK
<1> QED
  BY <1>2, <1>3 DEF Changed, EntryOf, Ins

LEMMA FinishStep == ASSUME TickInv, Finish
                    PROVE  TickRest'
<1>0. /\ stage' = "feed" /\ fed' = Unfed /\ UNCHANGED <<dps, fns, cur, grx>>
      /\ frames \in Seq(Frame) /\ Len(frames) = 1 /\ frames' = Tail(frames) /\ grx.valid
  BY DEF Finish, LoopEnd, InLoop, Return, grid, TickInv, OnePass, EvalInv, EvalTypeOK
<1>1. frames' = <<>>
  BY <1>0
<1>2. OnePass' /\ Private' /\ Stages'
  BY <1>0, <1>1 DEF TickInv, OnePass, Private, Stages, Unfed, Used, Feeds, Ins, Outs
<1>3. FedPending' /\ WrittenPending'
  BY <1>0, FinishConsumed DEF FedPending, WrittenPending, Used, Ins, Outs
<1>4. Due'
  <2>1. stage # "compose"
    BY <1>0 DEF Finish, LoopEnd, InLoop, TickInv, Stages
  <2> QED
    BY <1>0, <2>1 DEF TickInv, Due, Agrees, Used, Ins, Outs
<1> QED
  BY <1>2, <1>3, <1>4 DEF TickRest
-----------------------------------------------------------------------------
(* Results *)

LEMMA TickStep == ASSUME Disciplined, TickInv, [TickNext]_tickVars
                  PROVE  TickInv'
<1>1. EvalInv' /\ OrderInv'
  <2>1. [AnyStep]_evalVars
    BY TickIsAnyStep
  <2> QED
    BY <2>1, EvalTypeStep, EvalGridStep, EvalIndexStep, OrderStep DEF TickInv, EvalInv,
       Disciplined
<1>2. TickRest'
  <2>1. CASE UNCHANGED tickVars
    <3>1. UNCHANGED <<dps, fns, cur, grx, frames, stage, fed>>
      BY <2>1 DEF tickVars
    <3>2. OnePass' /\ Private' /\ Stages' /\ FedPending'
      BY <3>1 DEF TickInv, OnePass, Private, Stages, Blank, BehindConsumed, Changed,
         FedPending, Passed, Used, Feeds, Ins, Outs
    <3>3. WrittenPending' /\ Due'
      BY <3>1 DEF TickInv, WrittenPending, Due, Agrees, Passed, Used, Ins, Outs
    <3> QED
      BY <3>2, <3>3 DEF TickRest
  <2> QED
    BY <2>1, ComposeStep, OpenStep, FeedStep, StartCycleStep, RunStep, WorkStep,
       FinishStep DEF TickNext
<1> QED
  BY <1>1, <1>2 DEF TickInv, TickRest

LEMMA TickInvariant == Disciplined => (TickSpec => []TickInv)
<1> SUFFICES ASSUME Disciplined
             PROVE  TickSpec => []TickInv
  OBVIOUS
<1>1. TickInit => TickInv
  <2> SUFFICES ASSUME TickInit
               PROVE  TickInv
    OBVIOUS
  <2>1. EvalInv /\ OrderInv
    BY EvalStarts, OrderStarts DEF TickInit
  <2>2. OnePass /\ Private
    BY ZeroUnused DEF TickInit, EvalInit, BuildInit, OnePass, Private
  <2>3. Stages
    BY DEF TickInit, EvalInit, BuildInit, Stages, Unfed, Blank, ZeroDps, ZeroDp
  <2> QED
    BY <2>1, <2>2, <2>3 DEF TickInit, TickInv, FedPending, WrittenPending, Due
<1>2. TickInv /\ [TickNext]_tickVars => TickInv'
  BY TickStep
<1> QED
  BY <1>1, <1>2, PTL DEF TickSpec

\* An output that disagrees with its inputs is due, on any grid, at any point of
\* any cycle.
THEOREM DisagreementStaysPending ==
  Disciplined => (TickSpec => []DisagreementIsPending)
<1> SUFFICES ASSUME Disciplined
             PROVE  TickSpec => []DisagreementIsPending
  OBVIOUS
<1>1. TickInv => DisagreementIsPending
  <2> SUFFICES ASSUME TickInv, NEW f \in Used(fns), ~Agrees(f)
               PROVE  /\ \E d \in Ins(fns[f]) : dps[d].emitted
                      /\ stage = "work" /\ grx.valid =>
                           \E i \in FnSlots : i > cur /\ grx.fnx[i].fn = f
    BY DEF DisagreementIsPending
  <2>0. TypeOK /\ Integrity /\ IndexCurrent /\ IndexComplete /\ cur \in Nat
    BY DEF TickInv, EvalInv, EvalTypeOK, TypeOK
  <2>1. stage # "compose"
    BY <2>0, BlankAgrees DEF TickInv, Stages
  <2>2. PICK d \in Ins(fns[f]) : dps[d].emitted
    BY <2>1 DEF TickInv, Due
  <2>3. ASSUME stage = "work", grx.valid
        PROVE  \E i \in FnSlots : i > cur /\ grx.fnx[i].fn = f
    <3>1. PICK i \in FnSlots : grx.fnx[i].fn = f
      BY <2>0, <2>3 DEF IndexComplete
    <3>2. grx.fnx[i] = EntryOf(fns, f)
      BY <2>0, <3>1 DEF IndexCurrent, ZeroEntry, Used, TypeOK, FnSlots
    <3>3. dps[d].used
      BY <2>0, Signature
    <3>4. Changed(grx.fnx[i])
      BY <2>2, <3>2, <3>3 DEF Changed, EntryOf, Ins
    <3>5. ~Passed(i)
      BY <2>3, <3>4 DEF TickInv, Stages, BehindConsumed
    <3> QED
      BY <2>0, <3>1, <3>5 DEF Passed, FnSlots
  <2> QED
    BY <2>2, <2>3
<1> QED
  BY <1>1, TickInvariant, PTL

\* A cycle leaves every function agreeing with its inputs and no change pending.
THEOREM CyclesSettle == Disciplined => (TickSpec => []SettledBetweenCycles)
<1> SUFFICES ASSUME Disciplined
             PROVE  TickSpec => []SettledBetweenCycles
  OBVIOUS
<1>1. TickInv => SettledBetweenCycles
  <2> SUFFICES ASSUME TickInv, stage = "feed", fed = Unfed, NEW f \in Used(fns)
               PROVE  Agrees(f) /\ \A d \in Ins(fns[f]) : ~dps[d].emitted
    BY DEF SettledBetweenCycles
  <2>1. \A d \in Ins(fns[f]) : d \in DpSlots
    BY Signature DEF TickInv, EvalInv, EvalTypeOK
  <2>2. \A d \in Ins(fns[f]) : ~dps[d].emitted
    BY <2>1 DEF TickInv, FedPending, Unfed
  <2> QED
    BY <2>2 DEF TickInv, Due
<1> QED
  BY <1>1, TickInvariant, PTL

-----------------------------------------------------------------------------
(* The dataflow *)

\* What a function is in the network, and the network.
Node(f) == [in |-> fns[f].in, out |-> fns[f].out]
Net == {Node(f) : f \in Used(fns)}
Val == [d \in DpSlots |-> dps[d].value]

\* The dataflow's functions and the library's are the same sequences.
LEMMA SameRange == \A s : Dataflow!Range(s) = Range(s)
BY DEF Dataflow!Range, Range

\* An agreeing function is a settled one.
LEMMA NodeSettled ==
  ASSUME TypeOK, Integrity, NEW f \in Used(fns)
  PROVE  /\ Dataflow!Result(Node(f)) <=> Result(f)
         /\ Dataflow!Settled(Node(f)) <=> Agrees(f)
<1>1. \A d \in Ins(fns[f]) \cup Outs(fns[f]) : d \in DpSlots
  BY Signature
<1>2. /\ Dataflow!Range(Node(f).in) = Ins(fns[f])
      /\ Dataflow!Range(Node(f).out) = Outs(fns[f])
  BY SameRange DEF Node, Ins, Outs
<1>3. \A d \in DpSlots : dps[d].value \in BOOLEAN
  BY DEF TypeOK, Dp
<1>4. Dataflow!Result(Node(f)) <=> Result(f)
  BY <1>1, <1>2 DEF Dataflow!Result, Result
<1>5. Dataflow!Result(Node(f)) \in BOOLEAN
  BY DEF Dataflow!Result
<1>6. Dataflow!Settled(Node(f)) <=> Agrees(f)
  BY <1>1, <1>2, <1>3, <1>4, <1>5 DEF Dataflow!Settled, Agrees, Result
<1> QED
  BY <1>4, <1>6
-----------------------------------------------------------------------------
(* The dataflow of a composition *)

\* Functions whose phases grow along every edge make an acyclic network: in any
\* part of it, one of the earliest phase reads nothing the part writes.
LEMMA PhasesAcyclic ==
  ASSUME NEW F, NEW table, \A f \in F : table[f].phase \in Nat,
         \A f, h \in F : Range(table[f].out) \cap Range(table[h].in) # {}
                           => table[f].phase < table[h].phase
  PROVE  Dataflow!Acyclic({[in |-> table[f].in, out |-> table[f].out] : f \in F})
<1> DEFINE node(f) == [in |-> table[f].in, out |-> table[f].out]
<1> SUFFICES ASSUME NEW S \in SUBSET {node(f) : f \in F}, S # {}
             PROVE  \E m \in S : \A n \in S : ~Dataflow!Feeds(n, m)
  BY DEF Dataflow!Acyclic
<1> DEFINE part == {f \in F : node(f) \in S}
           phases == {table[f].phase : f \in part}
<1>1. phases \in SUBSET Nat /\ phases # {}
  <2>1. PICK m \in S : TRUE
    OBVIOUS
  <2>2. PICK f \in F : m = node(f)
    BY <2>1
  <2>3. table[f].phase \in phases
    BY <2>1, <2>2
  <2> QED
    BY <2>3
<1>2. PICK p \in phases : \A q \in phases : p <= q
  BY <1>1, LeastNumber
<1>3. PICK h \in part : table[h].phase = p
  OBVIOUS
<1>4. ASSUME NEW n \in S, Dataflow!Feeds(n, node(h))
      PROVE  FALSE
  <2>1. PICK f \in part : n = node(f)
    OBVIOUS
  <2>2. Range(table[f].out) \cap Range(table[h].in) # {}
    BY <1>4, <2>1, SameRange DEF Dataflow!Feeds
  <2>3. table[f].phase < table[h].phase
    BY <2>2
  <2>4. p <= table[f].phase
    BY <1>2
  <2> QED
    BY <1>3, <2>3, <2>4
<1> QED
  BY <1>4

LEMMA ComposeMaps == ASSUME TickInv, TickInv', Compose
                     PROVE  [Dataflow!Next]_Dataflow!dataflowVars
<1>0. /\ stage = "compose" /\ UNCHANGED stage
      /\ TypeOK /\ Integrity /\ TypeOK' /\ Integrity' /\ PhaseOrdered' /\ Private'
  BY DEF Compose, TickInv, EvalInv, EvalTypeOK
<1>1. ASSUME NEW type \in DpTypeArgs, NEW name \in NameArgs, DpCreate(type, name)
      PROVE  Net' = Net /\ Val' = Val
  <2>1. UNCHANGED fns
    BY <1>1 DEF DpCreate, Refuse, grid
  <2>2. ASSUME NEW d \in DpSlots,
               dps' = [dps EXCEPT ![d].used = TRUE, ![d].id = IdOf(d), ![d].type = type]
        PROVE  Val' = Val
    <3>1. \A x \in DpSlots : dps'[x].value = dps[x].value
      BY <1>0, <2>2 DEF TypeOK, Dp
    <3> QED
      BY <3>1 DEF Val
  <2>3. Val' = Val
    BY <1>1, <2>2 DEF DpCreate, Refuse, grid, Val
  <2> QED
    BY <2>1, <2>3 DEF Net, Node, Used
<1>2. ASSUME NEW type \in FnTypeArgs, NEW phase \in CreatePhases, NEW in \in InArgs,
             NEW out \in OutArgs, NEW name \in NameArgs,
             Conforming(in, out), FnCreate(type, phase, in, out, name)
      PROVE  \/ Net' = Net /\ Val' = Val
             \/ \E i \in DpSlots \X DpSlots, o \in DpSlots :
                  Dataflow!Compose([in |-> i, out |-> <<o>>])
  <2>1. UNCHANGED dps /\ Val' = Val
    BY <1>2 DEF FnCreate, Refuse, grid, Val
  <2>2. CASE UNCHANGED fns
    BY <2>1, <2>2 DEF Net, Node, Used
  <2>3. ASSUME NEW f \in FnSlots, FirstFree(fns, f),
               FnCreateCode(type, phase, in, out, name) = "NO",
               fns' = [fns EXCEPT ![f] = [used |-> TRUE, id |-> IdOf(f), type |-> type,
                                          phase |-> phase, in |-> in, out |-> out]]
        PROVE  \E i \in DpSlots \X DpSlots, o \in DpSlots :
                 Dataflow!Compose([in |-> i, out |-> <<o>>])
    <3> DEFINE n == [in |-> in, out |-> out]
    <3>1. /\ f \notin Used(fns) /\ fns'[f].in = in /\ fns'[f].out = out
          /\ Used(fns)' = Used(fns) \cup {f}
          /\ \A g \in Used(fns) : fns'[g] = fns[g]
      BY <1>0, <2>3 DEF TypeOK, Used, FirstFree
    <3>2. Net' = Net \cup {n}
      BY <3>1 DEF Net, Node
    <3>3. /\ n = [in |-> <<in[1], in[2]>>, out |-> <<out[1]>>]
          /\ in[1] \in DpSlots /\ in[2] \in DpSlots /\ out[1] \in DpSlots
      <4>1. /\ Len(in) = 2 /\ Len(out) = 1
            /\ \A d \in Range(in) \cup Range(out) : d \in DpSlots
        BY <2>3 DEF FnCreateCode, Validate, ResolveDps, ResolveDp
      <4>2. in \in Seq(Nat \ {0}) /\ out \in Seq(Nat \ {0})
        BY ArgsAssumption
      <4>3. /\ in = <<in[1], in[2]>> /\ DOMAIN in = {1, 2}
            /\ out = <<out[1]>> /\ DOMAIN out = {1}
        BY <4>1, <4>2
      <4> QED
        BY <4>1, <4>3 DEF Range
    <3>4. Dataflow!Range(n.out) \cap Dataflow!Written = {}
      <4>1. \A g \in Used(fns) : Range(fns[g].out) \cap Range(out) = {}
        BY <1>2 DEF Conforming, Intersect
      <4> QED
        BY <4>1, SameRange DEF Dataflow!Written
    <3>5. Dataflow!Acyclic(Net \cup {n})
      <4>1. Net' = {[in |-> fns'[g].in, out |-> fns'[g].out] : g \in Used(fns')}
        BY DEF Net, Node
      <4>2. \A g \in Used(fns') : fns'[g].phase \in Nat
        BY <1>0, SizesAssumption DEF TypeOK, Used, Fn, PhaseNumbers
      <4>3. \A g, h \in Used(fns') : Range(fns'[g].out) \cap Range(fns'[h].in) # {}
                                    => fns'[g].phase < fns'[h].phase
        BY <1>0 DEF PhaseOrdered, Private, Feeds, Ins, Outs
      <4>4. Dataflow!Acyclic({[in |-> fns'[g].in, out |-> fns'[g].out] : g \in Used(fns')})
        <5> DEFINE table == fns'
                   F == Used(table)
        <5>1. /\ \A g \in F : table[g].phase \in Nat
              /\ \A g, h \in F : Range(table[g].out) \cap Range(table[h].in) # {}
                                => table[g].phase < table[h].phase
          BY <4>2, <4>3
        <5> HIDE DEF table, F
        <5>2. Dataflow!Acyclic({[in |-> table[g].in, out |-> table[g].out] : g \in F})
          BY <5>1, PhasesAcyclic
        <5> QED
          BY <5>2 DEF table, F
      <4> QED
        BY <3>2, <4>1, <4>4
    <3>6. Dataflow!Compose(n)
      BY <1>0, <2>1, <3>2, <3>4, <3>5 DEF Dataflow!Compose, Net, Node, Val
    <3> QED
      BY <3>3, <3>6
  <2> QED
    BY <1>2, <2>1, <2>2, <2>3 DEF FnCreate, Refuse, grid
<1>3. CASE Net' = Net /\ Val' = Val
  BY <1>0, <1>3 DEF Dataflow!dataflowVars, Net, Node, Val
<1> QED
  BY <1>1, <1>2, <1>3 DEF Compose, Dataflow!Next
-----------------------------------------------------------------------------
(* The dataflow of a cycle *)

\* A function behind the cursor agrees with its inputs, so whatever the next one
\* depends on is settled.
LEMMA DependsSettled ==
  ASSUME TickInv, stage = "work", cur + 1 \in FnSlots, grx.valid,
         grx.fnx[cur + 1].fn \in Used(fns), NEW g \in Used(fns),
         Feeds(g, grx.fnx[cur + 1].fn)
  PROVE  Agrees(g)
<1> DEFINE f == grx.fnx[cur + 1].fn
<1>0. /\ TypeOK /\ Integrity /\ IndexCurrent /\ IndexComplete /\ IndexTopological
      /\ Private /\ BehindConsumed /\ cur \in Nat
  BY TopologicalByInv DEF TickInv, Stages, EvalInv, EvalTypeOK, TypeOK
<1>1. PICK i \in FnSlots : grx.fnx[i].fn = g
  BY <1>0 DEF IndexComplete
<1>2. g # f /\ g # 0 /\ f # 0
  BY <1>0 DEF Private, Used, TypeOK, FnSlots
<1>3. Passed(i)
  BY <1>0, <1>1, <1>2 DEF IndexTopological, Passed, FnSlots
<1>4. grx.fnx[i] = EntryOf(fns, g)
  BY <1>0, <1>1, <1>2 DEF IndexCurrent, ZeroEntry
<1>5. \A d \in Ins(fns[g]) : dps[d].used
  BY <1>0, Signature
<1>6. \A d \in Ins(fns[g]) : ~dps[d].emitted
  BY <1>0, <1>3, <1>4, <1>5 DEF BehindConsumed, Changed, EntryOf, Ins
<1> QED
  BY <1>6 DEF TickInv, Due

\* A function that runs and alters its output computes; otherwise nothing happens
\* that the dataflow knows of.
LEMMA RanMaps ==
  ASSUME TickInv, stage = "work", cur + 1 \in FnSlots, grx.valid,
         dps' = AfterRun(grx.fnx[cur + 1]), UNCHANGED <<fns, stage>>
  PROVE  [Dataflow!Next]_Dataflow!dataflowVars
<1> DEFINE e == grx.fnx[cur + 1]
           f == e.fn
           o == fns[f].out[1]
<1>0. TypeOK /\ Integrity /\ IndexCurrent /\ Private
  BY DEF TickInv, EvalInv, EvalTypeOK
<1>1. UNCHANGED Net
  BY DEF Net, Node, Used
<1>2. CASE UNCHANGED Val
  BY <1>1, <1>2 DEF Dataflow!dataflowVars, Net, Node, Val
<1>3. CASE ~Changed(e)
  <2>1. UNCHANGED Val
    BY <1>3 DEF AfterRun, Val
  <2> QED
    BY <1>2, <2>1
<1>4. CASE Changed(e)
  <2>1. /\ f \in Used(fns) /\ o \in DpSlots
        /\ dps'[o].value = Result(f)
        /\ \A x \in DpSlots \ {o} : dps'[x].value = dps[x].value
    BY <1>0, <1>4, RunComputes
  <2>2. Outs(fns[f]) = {o}
    BY <1>0, <2>1, Signature
  <2>3. CASE dps[o].value = Result(f)
    <3>1. \A x \in DpSlots : dps'[x].value = dps[x].value
      BY <2>1, <2>3
    <3>2. UNCHANGED Val
      BY <3>1 DEF Val
    <3> QED
      BY <1>2, <3>2
  <2>4. CASE dps[o].value # Result(f)
    <3>1. /\ Dataflow!Range(Node(f).in) = Ins(fns[f])
          /\ Dataflow!Range(Node(f).out) = {o}
      BY <2>2, SameRange DEF Node, Ins, Outs
    <3>2. \A m \in Net : Dataflow!Feeds(m, Node(f)) => Dataflow!Settled(m)
      <4> SUFFICES ASSUME NEW g \in Used(fns), Dataflow!Feeds(Node(g), Node(f))
                   PROVE  Dataflow!Settled(Node(g))
        BY DEF Net
      <4>1. Feeds(g, f)
        BY SameRange DEF Dataflow!Feeds, Node, Feeds, Ins, Outs
      <4>2. Agrees(g)
        BY <2>1, <4>1, DependsSettled
      <4> QED
        BY <1>0, <4>2, NodeSettled
    <3>3. ~Dataflow!Settled(Node(f))
      <4>1. ~Agrees(f)
        BY <2>2, <2>4, <1>0, <2>1 DEF Agrees, Result, TypeOK, Dp
      <4> QED
        BY <1>0, <2>1, <4>1, NodeSettled
    <3>4. Dataflow!Result(Node(f)) = Result(f)
      <4>1. Dataflow!Result(Node(f)) \in BOOLEAN /\ Result(f) \in BOOLEAN
        BY DEF Dataflow!Result, Result
      <4> QED
        BY <1>0, <2>1, <4>1, NodeSettled
    <3>5. Val' = [d \in DpSlots |-> IF d \in Dataflow!Range(Node(f).out)
                                    THEN Dataflow!Result(Node(f)) ELSE Val[d]]
      <4> HIDE DEF o, f
      <4>1. \A d \in DpSlots : dps'[d].value = IF d = o THEN Result(f) ELSE Val[d]
        BY <2>1 DEF Val
      <4> QED
        BY <3>1, <3>4, <4>1 DEF Val
    <3>6. PICK n \in Net : n = Node(f)
      BY <2>1 DEF Net
    <3>7. Dataflow!Work(n)
      BY <1>1, <3>2, <3>3, <3>5, <3>6 DEF Dataflow!Work, Net, Node, Val
    <3> QED
      BY <3>7 DEF Dataflow!Next, Net, Node
  <2> QED
    BY <2>3, <2>4
<1> QED
  BY <1>3, <1>4
\* Feeding, and the stages of the client.
LEMMA FeedMaps == ASSUME TickInv, NEW d \in DpSlots, NEW v \in BOOLEAN, Feed(d, v)
                  PROVE  Dataflow!Feed(d, v)
<1>0. /\ stage = "feed" /\ UNCHANGED <<fns, stage>>
      /\ dps \in [DpSlots -> Dp] /\ dps' = BoolSet(dps, d, v)
      /\ \A f \in Used(fns) : d \notin Outs(fns[f])
  BY DEF Feed, Source, DpSetBool, ResolveDp, TickInv, EvalInv, EvalTypeOK, TypeOK
<1>1. d \notin Dataflow!Written
  BY <1>0, SameRange DEF Dataflow!Written, Outs
<1>2. Val' = [Val EXCEPT ![d] = v]
  <2>1. \A x \in DpSlots : dps'[x].value = IF x = d THEN v ELSE dps[x].value
    <3>1. dps[d] \in Dp
      BY <1>0
    <3>2. dps' = [dps EXCEPT ![d].emitted = (dps[d].value # v), ![d].value = v]
      BY <1>0 DEF BoolSet
    <3> QED
      BY <1>0, <3>1, <3>2 DEF Dp
  <2> QED
    BY <2>1 DEF Val
<1> QED
  BY <1>0, <1>1, <1>2 DEF Dataflow!Feed, Val, Used

LEMMA FinishMaps == ASSUME TickInv, Finish
                    PROVE  Dataflow!Settle
<1>0. /\ stage = "work" /\ stage' = "feed" /\ UNCHANGED <<dps, fns>>
      /\ TypeOK /\ Integrity /\ Due
  BY DEF Finish, LoopEnd, InLoop, grid, TickInv, Stages, EvalInv, EvalTypeOK
<1>1. \A f \in Used(fns) : Dataflow!Settled(Node(f))
  BY <1>0, FinishConsumed, NodeSettled DEF Due
<1> QED
  BY <1>0, <1>1 DEF Dataflow!Settle, Node, Used

LEMMA StepMaps == ASSUME TickInv, TickInv', [TickNext]_tickVars
                  PROVE  [Dataflow!Next]_Dataflow!dataflowVars
<1>1. ASSUME UNCHANGED <<dps, fns, stage>>
      PROVE  [Dataflow!Next]_Dataflow!dataflowVars
  BY <1>1 DEF Dataflow!dataflowVars, Used
<1>2. CASE UNCHANGED tickVars
  BY <1>1, <1>2 DEF tickVars
<1>3. CASE Compose
  BY <1>3, ComposeMaps
<1>4. CASE Open
  <2>1. Dataflow!Open
    BY <1>4 DEF Open, evalVars, Dataflow!Open, Used
  <2> QED
    BY <2>1 DEF Dataflow!Next
<1>5. ASSUME NEW d \in DpSlots, NEW v \in BOOLEAN, Feed(d, v)
      PROVE  Dataflow!Next
  <2>1. Dataflow!Feed(d, v)
    BY <1>5, FeedMaps
  <2> QED
    BY <2>1 DEF Dataflow!Next
<1>6. CASE Start
  <2>1. Dataflow!Start
    BY <1>6 DEF Start, ResetCycle, Dataflow!Start, Used
  <2> QED
    BY <2>1 DEF Dataflow!Next
<1>7. CASE Run
  BY <1>1, <1>7 DEF Run, RunCycle
<1>8. CASE Step
  <2>1. frames # <<>> /\ (Loop \/ CbReturn) /\ UNCHANGED stage
    BY <1>8 DEF Step, Loop, Offer, RunNext, InLoop, CbReturn, CbStop, CbFail,
                CbContinue, InCb
  <2>2. stage = "work" /\ PassInv
    BY <2>1 DEF TickInv, Stages, PassInv
  <2>3. CASE UNCHANGED grid
    BY <1>1, <2>1, <2>3 DEF grid
  <2> QED
    BY <2>1, <2>2, <2>3, LibraryEffect, RanMaps
<1>9. CASE Finish
  <2>1. Dataflow!Settle
    BY <1>9, FinishMaps
  <2> QED
    BY <2>1 DEF Dataflow!Next
<1> QED
  BY <1>2, <1>3, <1>4, <1>5, <1>6, <1>7, <1>8, <1>9 DEF TickNext

-----------------------------------------------------------------------------
(* Result *)

\* The library, driven by the disciplined client, implements the dataflow: each
\* cycle computes what the network of functions defines, every function after
\* those it depends on, however often the callback stops the run or fails.
THEOREM ImplementsTheDataflow == Disciplined => (TickSpec => ImplementsDataflow)
<1> SUFFICES ASSUME Disciplined
             PROVE  TickSpec => ImplementsDataflow
  OBVIOUS
<1>1. TickInit => Dataflow!Init
  BY ZeroUnused DEF TickInit, EvalInit, BuildInit, ZeroDps, ZeroDp, Dataflow!Init
<1>2. TickInv /\ TickInv' /\ [TickNext]_tickVars => [Dataflow!Next]_Dataflow!dataflowVars
  BY StepMaps
<1> QED
  BY <1>1, <1>2, TickInvariant, PTL DEF TickSpec, ImplementsDataflow, Dataflow!Spec
=============================================================================
