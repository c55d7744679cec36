--------------------------- MODULE SpfgEvalProofs ---------------------------
(***************************************************************************)
(* What evaluation keeps true of every grid, whatever the callback of a    *)
(* running cycle does: the results of SpfgBuildProofs, which steps of a    *)
(* cycle do not disturb, and the exactness of the index.                   *)
(*                                                                         *)
(* The invariant is proved as a whole, because its parts need each other:  *)
(* that a step of the loop writes live datapoints only takes an index that *)
(* is current, that a rebuilt index is current takes references that are   *)
(* whole, and that it is complete takes that a rebuild starts from an      *)
(* empty index, since one never fails half-way.                            *)
(*                                                                         *)
(* At the end, one pass over the index: what a cycle does that runs, from  *)
(* the cursor at the start to the end of the loop, in one activation at a  *)
(* time and on one index.  A function that runs consumes its own inputs,   *)
(* and what it writes is read only by entries the cursor has not come to:  *)
(* that is the order of the index, so the phases have to be low there.     *)
(***************************************************************************)
EXTENDS SpfgEval, SpfgBuildProofs, SequenceTheorems

\* An index that is not valid is empty: no rebuild is abandoned.
IndexFresh == grx.valid \/ grx = ZeroIndex

EvalInv == /\ EvalTypeOK
           /\ SlotsClean
           /\ Integrity
           /\ PhaseOrdered
           /\ IndexCurrent
           /\ IndexFresh
           /\ IndexComplete

-----------------------------------------------------------------------------
(* Writes to datapoints *)

\* Table t2 differs from t1 in nothing but changes and values of live
\* datapoints.
SameButValues(t1, t2) ==
  /\ t2 \in [DpSlots -> Dp]
  /\ \A d \in DpSlots :
       /\ t2[d].used = t1[d].used
       /\ t2[d].id = t1[d].id
       /\ t2[d].type = t1[d].type
       /\ ~t1[d].used => t2[d] = t1[d]

\* A write to a live datapoint (_dp_bool_set).
LEMMA BoolSetKeeps ==
  ASSUME NEW t \in [DpSlots -> Dp], NEW d \in DpSlots, t[d].used, NEW v \in BOOLEAN
  PROVE  SameButValues(t, BoolSet(t, d, v))
<1> DEFINE dp == [t[d] EXCEPT !.emitted = (t[d].value # v), !.value = v]
<1>1. BoolSet(t, d, v) = [t EXCEPT ![d] = dp]
  BY DEF BoolSet
<1>2. t[d] \in Dp
  OBVIOUS
<1>3. dp \in Dp
  <2>1. (t[d].value # v) \in BOOLEAN
    OBVIOUS
  <2> QED
    BY <1>2, <2>1 DEF Dp
<1>4. dp.used = t[d].used /\ dp.id = t[d].id /\ dp.type = t[d].type
  BY <1>2 DEF Dp
<1> QED
  BY <1>1, <1>3, <1>4 DEF SameButValues

\* Clearing the pending changes of an entry's live inputs
\* (_fnx_changed_dps_clear).
LEMMA ChangesClearedKeeps ==
  ASSUME NEW t \in [DpSlots -> Dp], NEW e,
         \A d \in Range(e.in) : d \in DpSlots /\ t[d].used
  PROVE  SameButValues(t, ChangesCleared(t, e))
<1>1. ASSUME NEW d \in DpSlots
      PROVE  LET dp == [t[d] EXCEPT !.emitted = FALSE]
             IN  /\ dp \in Dp
                 /\ dp.used = t[d].used /\ dp.id = t[d].id /\ dp.type = t[d].type
  <2>1. t[d] \in Dp
    OBVIOUS
  <2> QED
    BY <2>1 DEF Dp
<1>2. ChangesCleared(t, e) \in [DpSlots -> Dp]
  BY <1>1 DEF ChangesCleared
<1>3. ASSUME NEW d \in DpSlots
      PROVE  LET c == ChangesCleared(t, e)[d]
             IN  /\ c.used = t[d].used /\ c.id = t[d].id /\ c.type = t[d].type
                 /\ ~t[d].used => c = t[d]
  BY <1>1 DEF ChangesCleared
<1> QED
  BY <1>2, <1>3 DEF SameButValues

\* Two such writes one after the other.
LEMMA SameButValuesTrans ==
  ASSUME NEW t1, NEW t2, NEW t3, SameButValues(t1, t2), SameButValues(t2, t3)
  PROVE  SameButValues(t1, t3)
BY DEF SameButValues

\* A sequence of length one has its first item in its set.
LEMMA FirstOfSeq == ASSUME NEW S, NEW s \in Seq(S), Len(s) = 1
                    PROVE  1 \in DOMAIN s /\ s[1] \in S
OBVIOUS

\* A live function's ids are those of live datapoints.
LEMMA LiveRefs == ASSUME TypeOK, Integrity, NEW f \in Used(fns)
                  PROVE  /\ f \in FnSlots
                         /\ Len(fns[f].in) = 2 /\ Len(fns[f].out) = 1
                         /\ fns[f].in \in Seq(DpSlots) /\ fns[f].out \in Seq(DpSlots)
                         /\ \A d \in Ins(fns[f]) \cup Outs(fns[f]) : dps[d].used
<1>1. f \in FnSlots /\ fns[f].in \in Seq(Nat) /\ fns[f].out \in Seq(Nat)
  BY DEF TypeOK, Used, Fn
<1>2. /\ Len(fns[f].in) = 2 /\ Len(fns[f].out) = 1
      /\ \A d \in Ins(fns[f]) \cup Outs(fns[f]) : Serves(d)
  BY DEF Integrity
<1>3. ASSUME NEW s \in Seq(Nat), \A d \in Range(s) : d \in DpSlots
      PROVE  s \in Seq(DpSlots)
  <2>1. s \in [1..Len(s) -> DpSlots] /\ Len(s) \in Nat
    BY <1>3 DEF Range
  <2> QED
    BY <2>1, SeqDef
<1>4. fns[f].in \in Seq(DpSlots) /\ fns[f].out \in Seq(DpSlots)
  BY <1>1, <1>2, <1>3 DEF Serves, Ins, Outs
<1> QED
  BY <1>1, <1>2, <1>4 DEF Serves

\* A function that runs, from whatever entry, writes nothing but values of live
\* datapoints (_fnx_run).
LEMMA AfterRunKeeps ==
  ASSUME TypeOK, Integrity, IndexCurrent, NEW i \in FnSlots
  PROVE  SameButValues(dps, AfterRun(grx.fnx[i]))
<1> DEFINE e == grx.fnx[i]
<1>1. CASE ~Changed(e)
  BY <1>1 DEF AfterRun, SameButValues, TypeOK
<1>2. CASE Changed(e)
  <2>1. e # ZeroEntry
    BY <1>2 DEF Changed, ZeroEntry, Range
  <2>2. e.fn \in Used(fns) /\ e = EntryOf(fns, e.fn)
    BY <2>1 DEF IndexCurrent
  <2> DEFINE f == e.fn
  <2>3. e.in = fns[f].in /\ e.out = fns[f].out
    BY <2>2 DEF EntryOf
  <2>4. /\ e.in[1] \in DpSlots /\ e.in[2] \in DpSlots
        /\ e.out[1] \in DpSlots /\ dps[e.out[1]].used
        /\ \A d \in Range(e.in) : d \in DpSlots /\ dps[d].used
    <3> HIDE DEF f, e
    <3>1. /\ e.in \in Seq(DpSlots) /\ Len(e.in) = 2
          /\ e.out \in Seq(DpSlots) /\ Len(e.out) = 1
          /\ \A d \in Range(e.in) \cup Range(e.out) : dps[d].used
      BY <2>2, <2>3, LiveRefs DEF Ins, Outs, f
    <3>2. 1 \in DOMAIN e.out
      BY <3>1
    <3> QED
      BY <3>1, <3>2 DEF Range
  <2>5. (dps[e.in[1]].value /\ dps[e.in[2]].value) \in BOOLEAN
    OBVIOUS
  <2>6. SameButValues(dps, Evaluated(e))
    BY <2>4, <2>5, BoolSetKeeps DEF Evaluated, TypeOK
  <2>7. SameButValues(Evaluated(e), ChangesCleared(Evaluated(e), e))
    <3>1. Evaluated(e) \in [DpSlots -> Dp]
      BY <2>6 DEF SameButValues
    <3>2. \A d \in Range(e.in) : d \in DpSlots /\ Evaluated(e)[d].used
      BY <2>4, <2>6 DEF SameButValues
    <3> QED
      BY <3>1, <3>2, ChangesClearedKeeps
  <2> QED
    BY <1>2, <2>6, <2>7, SameButValuesTrans DEF AfterRun
<1> QED
  BY <1>1, <1>2

-----------------------------------------------------------------------------
(* Rebuilding *)

\* Whole references make a rebuild succeed.
LEMMA WholeIsRebuildable == ASSUME TypeOK, Integrity
                            PROVE  Rebuildable(dps, fns)
<1> SUFFICES ASSUME NEW f \in Used(fns)
             PROVE  Resolves(dps, fns[f])
  BY DEF Rebuildable
<1>1. \A d \in Ins(fns[f]) \cup Outs(fns[f]) : Serves(d)
  BY DEF Integrity
<1> QED
  BY <1>1 DEF Resolves, ResolveDps, ResolveDp, Serves, Ins, Outs

\* The entry of slot j in an index filled without leftovers.
SlotEntry(j) == IF fns[j].used THEN EntryOf(fns, j) ELSE ZeroEntry

\* No free slot has left anything in the index that a rebuild would carry over.
NoLeftovers == \A j \in FnSlots : fns[j].used \/ grx.fnx[j] = ZeroEntry

\* An index rebuilt without leftovers holds the entry of every slot once, and no
\* two neighbours are out of order.
RebuiltFrom(p, g) ==
  /\ p \in [FnSlots -> FnSlots]
  /\ \A i, j \in FnSlots : p[i] = p[j] => i = j
  /\ \A f \in FnSlots : \E i \in FnSlots : p[i] = f
  /\ g = [valid |-> TRUE, fnx |-> [i \in FnSlots |-> SlotEntry(p[i])]]
  /\ \A i \in FnSlots : i + 1 \in FnSlots => MayPrecede(fns, g.fnx[i], g.fnx[i + 1])

LEMMA RebuiltIndex == ASSUME NoLeftovers, NEW g \in Rebuilt(fns, grx)
                      PROVE  \E p : RebuiltFrom(p, g)
<1> DEFINE fnx == Filled(fns, grx.fnx)
<1>1. fnx = [j \in FnSlots |-> SlotEntry(j)]
  BY DEF Filled, NoLeftovers, SlotEntry
<1>2. PICK s \in Sorted(fns, fnx) : g = [valid |-> TRUE, fnx |-> s]
  BY DEF Rebuilt
<1>3. PICK p \in Bijection(FnSlots, FnSlots) : s = [i \in FnSlots |-> fnx[p[i]]]
  BY <1>2 DEF Sorted, Rearranged
<1>4. /\ p \in [FnSlots -> FnSlots]
      /\ \A i, j \in FnSlots : p[i] = p[j] => i = j
      /\ \A f \in FnSlots : \E i \in FnSlots : p[i] = f
  BY <1>3 DEF Bijection, Injection, Surjection, IsInjective
<1>5. s = [i \in FnSlots |-> SlotEntry(p[i])]
  BY <1>1, <1>3, <1>4
<1>6. \A i \in FnSlots : i + 1 \in FnSlots => MayPrecede(fns, s[i], s[i + 1])
  BY <1>2 DEF Sorted
<1> QED
  BY <1>2, <1>4, <1>5, <1>6 DEF RebuiltFrom

\* Such an index has the type of one.
LEMMA RebuiltType == ASSUME TypeOK, Integrity, NEW p, NEW g, RebuiltFrom(p, g)
                     PROVE  g \in Index
<1>1. ASSUME NEW j \in FnSlots
      PROVE  SlotEntry(j) \in Entry
  <2>1. CASE fns[j].used
    <3>1. j \in Used(fns)
      BY <2>1 DEF Used, TypeOK
    <3>2. fns[j].in \in Seq(DpSlots) /\ fns[j].out \in Seq(DpSlots)
      BY <3>1, LiveRefs
    <3>3. j \in 0..MaxFns
      BY SizesAssumption DEF FnSlots
    <3> QED
      BY <2>1, <3>2, <3>3 DEF SlotEntry, EntryOf, Entry
  <2>2. CASE ~fns[j].used
    <3>1. ZeroEntry \in Entry
      BY SizesAssumption, EmptySeq DEF ZeroEntry, Entry
    <3> QED
      BY <2>2, <3>1 DEF SlotEntry
  <2> QED
    BY <2>1, <2>2
<1>2. [i \in FnSlots |-> SlotEntry(p[i])] \in [FnSlots -> Entry]
  BY <1>1 DEF RebuiltFrom
<1> QED
  BY <1>2 DEF RebuiltFrom, Index

-----------------------------------------------------------------------------
(* The effect of each step *)

Composed == BuildNext

Valued == /\ UNCHANGED <<fns, grx>>
          /\ SameButValues(dps, dps')

Indexed == /\ UNCHANGED <<dps, fns>>
           /\ grx = ZeroIndex
           /\ grx' \in Rebuilt(fns, grx)

EvalEffect == Composed \/ Valued \/ Indexed

\* A step of evaluation, whatever habits the client has.
AnyStep == \/ BuildNext /\ UNCHANGED frames
           \/ \E id \in DpIdArgs, v \in BOOLEAN : DpSetBool(id, v)
           \/ ResetCycle
           \/ \E cb \in BOOLEAN : RunCycle(cb)
           \/ Loop
           \/ CbReturn

LEMMA NextIsAnyStep == [EvalNext]_evalVars => [AnyStep]_evalVars
BY DEF EvalNext, Client, AnyStep, BuildNext

\* A stack on which the loop, or a callback, has put or taken something.
LEMMA FramesKeep ==
  ASSUME NEW s \in Seq(Frame)
  PROVE  /\ \A cb \in BOOLEAN : <<[cb |-> cb, at |-> 0, id |-> 0]>> \o s \in Seq(Frame)
         /\ s # <<>> => Head(s) \in Frame /\ Tail(s) \in Seq(Frame)
         /\ s # <<>> => \A a \in 0..MaxFns, n \in Nat :
              [s EXCEPT ![1].at = a, ![1].id = n] \in Seq(Frame)
<1>1. ASSUME NEW cb \in BOOLEAN
      PROVE  <<[cb |-> cb, at |-> 0, id |-> 0]>> \o s \in Seq(Frame)
  <2>1. [cb |-> cb, at |-> 0, id |-> 0] \in Frame
    BY SizesAssumption DEF Frame
  <2>2. <<[cb |-> cb, at |-> 0, id |-> 0]>> \in Seq(Frame)
    BY <2>1
  <2> QED
    BY <2>2, ConcatProperties
<1>2. s # <<>> => Head(s) \in Frame /\ Tail(s) \in Seq(Frame)
  BY HeadTailProperties
<1>3. ASSUME s # <<>>, NEW a \in 0..MaxFns, NEW n \in Nat
      PROVE  [s EXCEPT ![1].at = a, ![1].id = n] \in Seq(Frame)
  <2> DEFINE top == [s[1] EXCEPT !.at = a, !.id = n]
  <2>1. 1 \in 1..Len(s) /\ s[1] \in Frame
    BY <1>3, EmptySeq, ElementOfSeq
  <2>2. top \in Frame
    BY <2>1 DEF Frame
  <2>3. [s EXCEPT ![1] = top] \in Seq(Frame)
    BY <2>1, <2>2, ExceptSeq
  <2>4. [s EXCEPT ![1].at = a, ![1].id = n] = [s EXCEPT ![1] = top]
    BY <2>1, LenProperties
  <2> QED
    BY <2>3, <2>4
<1> QED
  BY <1>1, <1>2, <1>3

\* Every step has one of these effects and leaves the cursor, the code and the
\* stack in their types.
LEMMA StepEvalEffect ==
  ASSUME EvalInv, [AnyStep]_evalVars
  PROVE  /\ EvalEffect
         /\ frames' \in Seq(Frame) /\ ret' \in Codes /\ cur' \in Nat
<1> DEFINE Goal == /\ EvalEffect
                   /\ frames' \in Seq(Frame) /\ ret' \in Codes /\ cur' \in Nat
<1>0. /\ TypeOK /\ Integrity /\ IndexCurrent
      /\ frames \in Seq(Frame) /\ ret \in Codes /\ cur \in Nat
      /\ dps \in [DpSlots -> Dp] /\ grx \in Index
  BY DEF EvalInv, EvalTypeOK, TypeOK
<1>1. SameButValues(dps, dps)
  BY <1>0 DEF SameButValues
<1>2. CASE UNCHANGED evalVars
  BY <1>0, <1>1, <1>2 DEF evalVars, EvalEffect, Valued
<1>3. ASSUME BuildNext, UNCHANGED frames
      PROVE  Goal
  <2>1. TypeOK'
    BY <1>0, <1>3, TypeStep
  <2> QED
    BY <1>0, <1>3, <2>1 DEF EvalEffect, Composed, TypeOK
<1>4. ASSUME NEW id \in DpIdArgs, NEW v \in BOOLEAN, DpSetBool(id, v)
      PROVE  Goal
  <2>1. CASE ResolveDp(dps, id) /\ dps' = BoolSet(dps, id, v)
    <3>1. SameButValues(dps, dps')
      BY <1>0, <2>1, BoolSetKeeps DEF ResolveDp
    <3> QED
      BY <1>0, <1>4, <3>1 DEF DpSetBool, EvalEffect, Valued, Codes
  <2>2. CASE UNCHANGED dps
    BY <1>0, <1>1, <1>4, <2>2 DEF DpSetBool, EvalEffect, Valued, Codes
  <2> QED
    BY <1>4, <2>1, <2>2 DEF DpSetBool
<1>5. CASE ResetCycle
  BY <1>0, <1>1, <1>5 DEF ResetCycle, EvalEffect, Valued, Codes
<1>6. ASSUME NEW cb \in BOOLEAN, RunCycle(cb)
      PROVE  Goal
  <2>1. Rebuildable(dps, fns)
    BY <1>0, WholeIsRebuildable
  <2>2. /\ grx' \in IF grx.valid THEN {grx} ELSE Rebuilt(fns, grx)
        /\ frames' = <<[cb |-> cb, at |-> 0, id |-> 0]>> \o frames
        /\ UNCHANGED <<dps, fns, cur, ret>>
    BY <1>6, <2>1 DEF RunCycle
  <2>3. frames' \in Seq(Frame)
    BY <1>0, <2>2, FramesKeep
  <2>4. CASE grx.valid
    BY <1>0, <1>1, <2>2, <2>3, <2>4 DEF EvalEffect, Valued
  <2>5. CASE ~grx.valid
    <3>1. grx = ZeroIndex
      BY <2>5 DEF EvalInv, IndexFresh
    <3> QED
      BY <1>0, <2>2, <2>3, <2>5, <3>1 DEF EvalEffect, Indexed
  <2> QED
    BY <2>4, <2>5
<1>7. ASSUME frames # <<>>, UNCHANGED grid,
             \E code \in Codes : Return(code)
      PROVE  Goal
  <2>1. frames' \in Seq(Frame) /\ ret' \in Codes
    BY <1>0, <1>7, FramesKeep DEF Return
  <2> QED
    BY <1>0, <1>1, <1>7, <2>1 DEF grid, EvalEffect, Valued
<1>8. CASE LoopEnd \/ CbStop \/ CbFail
  <2>1. {"NO", "EVAL_CB_FAILURE"} \subseteq Codes
    BY DEF Codes
  <2> QED
    BY <1>7, <1>8, <2>1 DEF LoopEnd, InLoop, CbStop, CbFail, InCb
<1>9. CASE Offer
  <2> DEFINE a == cur + 1
             n == fns[grx.fnx[cur + 1].fn].id
  <2>1. a \in FnSlots /\ a \in 0..MaxFns
    BY <1>0, <1>9, SizesAssumption DEF Offer, More, FnSlots
  <2>2. n \in Nat
    <3>1. grx.fnx[a] \in Entry
      BY <1>0, <2>1 DEF Index
    <3>2. grx.fnx[a].fn \in FnSlots
      BY <1>9, <3>1, SizesAssumption DEF Offer, More, Entry, FnSlots
    <3>3. fns[grx.fnx[a].fn] \in Fn
      BY <1>0, <3>2 DEF TypeOK
    <3> QED
      BY <3>3, SizesAssumption DEF Fn
  <2>3. frames # <<>> /\ frames' = [frames EXCEPT ![1].at = a, ![1].id = n]
    BY <1>9 DEF Offer, InLoop
  <2>4. frames' \in Seq(Frame)
    <3> HIDE DEF a, n
    <3> QED
      BY <1>0, <2>1, <2>2, <2>3, FramesKeep
  <2> QED
    BY <1>0, <1>1, <1>9, <2>4 DEF Offer, EvalEffect, Valued
<1>10. ASSUME frames # <<>>, NEW at \in FnSlots, RunFn(at)
       PROVE  Goal
  <2>1. CASE Return("EVAL_FN_FAILURE") /\ UNCHANGED grid
    BY <1>7, <1>10, <2>1 DEF Codes
  <2>2. CASE /\ dps' = AfterRun(grx.fnx[at])
             /\ cur' = cur + 1
             /\ frames' = [frames EXCEPT ![1].at = 0, ![1].id = 0]
             /\ UNCHANGED <<fns, grx, ret>>
    <3>1. SameButValues(dps, dps')
      BY <1>0, <2>2, AfterRunKeeps
    <3>2. frames' \in Seq(Frame)
      <4>1. 0 \in 0..MaxFns /\ 0 \in Nat
        BY SizesAssumption
      <4>2. [frames EXCEPT ![1].at = 0, ![1].id = 0] \in Seq(Frame)
        BY <1>0, <1>10, <4>1, FramesKeep
      <4> QED
        BY <2>2, <4>2
    <3> QED
      BY <1>0, <2>2, <3>1, <3>2 DEF EvalEffect, Valued
  <2> QED
    BY <1>10, <2>1, <2>2 DEF RunFn
<1>11. CASE RunNext
  <2>1. cur + 1 \in FnSlots
    BY <1>0, <1>11, SizesAssumption DEF RunNext, More, FnSlots
  <2> QED
    BY <1>10, <1>11, <2>1 DEF RunNext, InLoop
<1>12. CASE CbContinue
  <2>1. Head(frames) \in Frame
    BY <1>0, <1>12, FramesKeep DEF CbContinue, InCb
  <2>2. Head(frames).at \in FnSlots
    BY <1>12, <2>1, SizesAssumption DEF CbContinue, InCb, Frame, FnSlots
  <2> QED
    BY <1>10, <1>12, <2>2 DEF CbContinue, InCb
<1> QED
  <2>1. CASE Loop \/ CbReturn
    BY <1>8, <1>9, <1>11, <1>12, <2>1 DEF Loop, CbReturn
  <2> QED
    BY <1>2, <1>3, <1>4, <1>5, <1>6, <2>1 DEF AnyStep

\* A composition call leaves the grid alone or empties the index.
LEMMA ComposedIndex == ASSUME TypeOK, Composed
                       PROVE  grx' = ZeroIndex \/ UNCHANGED <<fns, grx>>
<1>1. Effect
  BY StepEffect DEF Composed
<1> QED
  BY <1>1, ZenonT(60) DEF Effect, grid, Wiped, DpCreated, DpRemoved, FnCreated, FnRemoved

-----------------------------------------------------------------------------
(* What composition guarantees stays true while cycles run *)

LEMMA EvalTypeStep == ASSUME EvalInv, [AnyStep]_evalVars
                      PROVE  EvalTypeOK'
<1>1. /\ EvalEffect
      /\ frames' \in Seq(Frame) /\ ret' \in Codes /\ cur' \in Nat
  BY StepEvalEffect
<1>2. TypeOK /\ Integrity
  BY DEF EvalInv, EvalTypeOK
<1>3. CASE Composed
  BY <1>1, <1>2, <1>3, TypeStep DEF Composed, EvalTypeOK
<1>4. CASE Valued
  BY <1>1, <1>2, <1>4 DEF Valued, SameButValues, EvalTypeOK, TypeOK
<1>5. CASE Indexed
  <2>1. PICK p : RebuiltFrom(p, grx')
    BY <1>5, RebuiltIndex DEF Indexed, NoLeftovers, ZeroIndex
  <2>2. grx' \in Index
    BY <1>2, <2>1, RebuiltType
  <2> QED
    BY <1>1, <1>2, <1>5, <2>2 DEF Indexed, EvalTypeOK, TypeOK
<1> QED
  BY <1>1, <1>3, <1>4, <1>5 DEF EvalEffect

LEMMA EvalGridStep == ASSUME EvalInv, [AnyStep]_evalVars
                      PROVE  SlotsClean' /\ Integrity' /\ PhaseOrdered'
<1>1. EvalEffect
  BY StepEvalEffect
<1>2. TypeOK /\ SlotsClean /\ Integrity /\ PhaseOrdered
  BY DEF EvalInv, EvalTypeOK
<1>3. CASE Composed
  BY <1>2, <1>3, SlotsStep, IntegrityStep, PhaseStep DEF Composed
<1>4. CASE Valued
  <2>1. SlotsClean'
    BY <1>2, <1>4 DEF Valued, SameButValues, SlotsClean
  <2>2. Integrity'
    <3>1. \A d : Serves(d)' <=> Serves(d)
      BY <1>4 DEF Valued, SameButValues, Serves
    <3> QED
      BY <1>2, <1>4, <3>1 DEF Valued, Integrity, Used, Ins, Outs
  <2>3. PhaseOrdered'
    BY <1>2, <1>4 DEF Valued, PhaseOrdered, Used, Feeds, Ins, Outs
  <2> QED
    BY <2>1, <2>2, <2>3
<1>5. CASE Indexed
  BY <1>2, <1>5 DEF Indexed, SlotsClean, Integrity, PhaseOrdered, Serves, Used,
                    Feeds, Ins, Outs
<1> QED
  BY <1>1, <1>3, <1>4, <1>5 DEF EvalEffect

-----------------------------------------------------------------------------
(* The index *)

\* An empty index is current, fresh and complete.
LEMMA ZeroIndexExact == grx = ZeroIndex => IndexCurrent /\ IndexFresh /\ IndexComplete
BY DEF ZeroIndex, IndexCurrent, IndexFresh, IndexComplete

\* So is one rebuilt without leftovers.
LEMMA RebuiltExact ==
  ASSUME DOMAIN fns = FnSlots, NEW p, NEW g, RebuiltFrom(p, g)
  PROVE  /\ g.valid
         /\ \A i \in FnSlots :
              \/ g.fnx[i] = ZeroEntry
              \/ /\ g.fnx[i].fn \in Used(fns)
                 /\ g.fnx[i] = EntryOf(fns, g.fnx[i].fn)
         /\ \A f \in Used(fns) : \E i \in FnSlots :
              /\ g.fnx[i].fn = f
              /\ \A j \in FnSlots \ {i} : g.fnx[j].fn # f
<1>1. /\ g.valid
      /\ \A i \in FnSlots : p[i] \in FnSlots /\ g.fnx[i] = SlotEntry(p[i])
  BY DEF RebuiltFrom
<1>2. \A j \in FnSlots : SlotEntry(j).fn = IF fns[j].used THEN j ELSE 0
  BY DEF SlotEntry, EntryOf, ZeroEntry
<1>3. ASSUME NEW i \in FnSlots, g.fnx[i] # ZeroEntry
      PROVE  /\ g.fnx[i].fn \in Used(fns)
             /\ g.fnx[i] = EntryOf(fns, g.fnx[i].fn)
  <2>1. fns[p[i]].used /\ g.fnx[i] = EntryOf(fns, p[i])
    BY <1>1, <1>3 DEF SlotEntry
  <2>2. g.fnx[i].fn = p[i]
    BY <2>1 DEF EntryOf
  <2> QED
    BY <1>1, <2>1, <2>2 DEF Used
<1>4. ASSUME NEW f \in Used(fns)
      PROVE  \E i \in FnSlots : /\ g.fnx[i].fn = f
                                /\ \A j \in FnSlots \ {i} : g.fnx[j].fn # f
  <2>1. f \in FnSlots /\ fns[f].used /\ f # 0
    BY DEF Used, FnSlots
  <2>2. PICK i \in FnSlots : p[i] = f
    BY <2>1 DEF RebuiltFrom
  <2>3. g.fnx[i].fn = f
    BY <1>1, <1>2, <2>1, <2>2
  <2>4. ASSUME NEW j \in FnSlots \ {i}
        PROVE  g.fnx[j].fn # f
    <3>1. p[j] # f
      BY <2>2 DEF RebuiltFrom
    <3> QED
      BY <1>1, <1>2, <2>1, <3>1
  <2> QED
    BY <2>3, <2>4
<1> QED
  BY <1>1, <1>3, <1>4

LEMMA EvalIndexStep == ASSUME EvalInv, [AnyStep]_evalVars
                       PROVE  IndexCurrent' /\ IndexFresh' /\ IndexComplete'
<1>1. EvalEffect
  BY StepEvalEffect
<1>2. TypeOK /\ IndexCurrent /\ IndexFresh /\ IndexComplete
  BY DEF EvalInv, EvalTypeOK
<1>3. CASE grx' = ZeroIndex
  BY <1>3 DEF ZeroIndex, IndexCurrent, IndexFresh, IndexComplete
<1>4. CASE UNCHANGED <<fns, grx>>
  BY <1>2, <1>4 DEF IndexCurrent, IndexFresh, IndexComplete, Used, EntryOf
<1>5. CASE Indexed
  <2>1. PICK p : RebuiltFrom(p, grx')
    BY <1>5, RebuiltIndex DEF Indexed, NoLeftovers, ZeroIndex
  <2>2. fns' = fns
    BY <1>5 DEF Indexed
  <2> QED
    BY <1>2, <2>1, <2>2, RebuiltExact DEF TypeOK, IndexCurrent, IndexFresh, IndexComplete
<1> QED
  BY <1>1, <1>2, <1>3, <1>4, <1>5, ComposedIndex DEF EvalEffect, Valued

-----------------------------------------------------------------------------
(* Results *)

\* It holds of a runtime that nobody has used yet.
LEMMA EvalStarts == EvalInit => EvalInv
<1> SUFFICES ASSUME EvalInit
             PROVE  EvalInv
  OBVIOUS
<1>1. EvalTypeOK
  BY ZeroTypes, EmptySeq DEF EvalInit, BuildInit, EvalTypeOK, TypeOK, Codes
<1>2. SlotsClean
  BY DEF EvalInit, BuildInit, SlotsClean, ZeroDps, ZeroDp, ZeroFns, ZeroFn
<1>3. Integrity /\ PhaseOrdered
  BY ZeroUnused DEF EvalInit, BuildInit, Integrity, PhaseOrdered
<1>4. IndexCurrent /\ IndexFresh /\ IndexComplete
  BY ZeroIndexExact DEF EvalInit, BuildInit
<1> QED
  BY <1>1, <1>2, <1>3, <1>4 DEF EvalInv

\* The invariant is one.
THEOREM EvalInvariant == EvalSpec => []EvalInv
<1>1. EvalInit => EvalInv
  BY EvalStarts
<1>2. EvalInv /\ [EvalNext]_evalVars => EvalInv'
  BY NextIsAnyStep, EvalTypeStep, EvalGridStep, EvalIndexStep DEF EvalInv
<1> QED
  BY <1>1, <1>2, PTL DEF EvalSpec

\* The variables of evaluation hold values of their types, and an activation of
\* spfg_rt_run_cycle holds a position of the index.
THEOREM EvalTypeCorrect == EvalSpec => []EvalTypeOK
<1>1. EvalInv => EvalTypeOK
  BY DEF EvalInv
<1> QED
  BY <1>1, EvalInvariant, PTL

\* What composition guarantees holds while cycles run, however the callbacks
\* that run them interleave with composition calls.
THEOREM GridStaysSound == EvalSpec => [](SlotsClean /\ Integrity /\ PhaseOrdered)
<1>1. EvalInv => SlotsClean /\ Integrity /\ PhaseOrdered
  BY DEF EvalInv
<1> QED
  BY <1>1, EvalInvariant, PTL

\* No entry of the index ever outlives the blocks it points at, also when a
\* callback removes and creates blocks under a loop that will use the entry.
THEOREM IndexStaysCurrent == EvalSpec => []IndexCurrent
<1>1. EvalInv => IndexCurrent
  BY DEF EvalInv
<1> QED
  BY <1>1, EvalInvariant, PTL

\* A valid index always lists every live function exactly once.
THEOREM IndexStaysComplete == EvalSpec => []IndexComplete
<1>1. EvalInv => IndexComplete
  BY DEF EvalInv
<1> QED
  BY <1>1, EvalInvariant, PTL

-----------------------------------------------------------------------------
(* Runs do not fail *)

\* There is code for every function (_fn_validate).
Implemented == \A f \in Used(fns) : fns[f].type = "AND_BOOL_BOOL_RET_BOOL"

LEMMA ImplementedStep == ASSUME EvalInv, Implemented, [AnyStep]_evalVars
                         PROVE  Implemented'
<1>1. EvalEffect
  BY StepEvalEffect
<1>2. CASE UNCHANGED fns
  BY <1>2 DEF Implemented, Used
<1>3. CASE Composed
  <2>1. Effect
    BY <1>3, CallEffect DEF Composed, EvalInv, EvalTypeOK, TypeOK
  <2>2. CASE Wiped
    BY <2>2, ZeroUnused DEF Wiped, Implemented
  <2>3. ASSUME NEW f, NEW type, NEW phase, NEW in, NEW out,
               FnCreated(f, type, phase, in, out)
        PROVE  Implemented'
    BY <2>3 DEF FnCreated, Validate, Implemented, Used, EvalInv, EvalTypeOK, TypeOK
  <2>4. ASSUME NEW f, FnRemoved(f)
        PROVE  Implemented'
    BY <2>4 DEF FnRemoved, ZeroFn, Implemented, Used, EvalInv, EvalTypeOK, TypeOK
  <2> QED
    BY <1>2, <2>1, <2>2, <2>3, <2>4 DEF Effect, grid, DpCreated, DpRemoved
<1> QED
  BY <1>1, <1>2, <1>3 DEF EvalEffect, Valued, Indexed

\* An entry that has something to do is that of a live function.
LEMMA EntryEvaluates == ASSUME EvalInv, Implemented, NEW i \in FnSlots
                        PROVE  ~EvalFails(grx.fnx[i])
<1>1. CASE grx.fnx[i] = ZeroEntry
  BY <1>1 DEF EvalFails, Changed, ZeroEntry, Range
<1>2. CASE grx.fnx[i].fn \in Used(fns)
  BY <1>2 DEF EvalFails, Implemented
<1> QED
  BY <1>1, <1>2 DEF EvalInv, IndexCurrent

NotFailed == ret \notin {"REINDEX", "EVAL_FN_FAILURE"}

LEMMA NotFailedStep == ASSUME EvalInv, Implemented, NotFailed, [EvalNext]_evalVars
                       PROVE  NotFailed'
<1>1. Rebuildable(dps, fns)
  BY WholeIsRebuildable DEF EvalInv, EvalTypeOK
<1>2. CASE UNCHANGED evalVars
  BY <1>2 DEF evalVars, NotFailed
<1>3. CASE InitCall
  BY <1>3 DEF InitCall, RtInit, RtFinish, NotFailed
<1>4. CASE BuildCall
  <2>1. ASSUME NEW type, NEW phase, NEW in, NEW out, NEW name
        PROVE  FnCreateCode(type, phase, in, out, name) \notin {"REINDEX", "EVAL_FN_FAILURE"}
    BY DEF FnCreateCode
  <2>2. ASSUME NEW type, NEW phase, NEW in, NEW out, NEW name,
               FnCreate(type, phase, in, out, name)
        PROVE  NotFailed'
    BY <2>1, <2>2 DEF FnCreate, Refuse, NotFailed
  <2>3. ASSUME NEW x, NEW name, DpCreate(x, name) \/ DpRemove(x) \/ FnRemove(x)
        PROVE  NotFailed'
    BY <2>3 DEF DpCreate, DpRemove, FnRemove, Refuse, NotFailed
  <2> QED
    BY <1>4, <2>2, <2>3, Zenon DEF BuildCall
<1>5. ASSUME NEW cb \in BOOLEAN, RunCycle(cb)
      PROVE  NotFailed'
  BY <1>1, <1>5 DEF RunCycle, NotFailed
<1>6. ASSUME NEW at \in FnSlots, RunFn(at)
      PROVE  NotFailed'
  BY <1>6, EntryEvaluates DEF RunFn, NotFailed
<1>7. CASE RunNext
  <2>1. cur + 1 \in FnSlots
    BY <1>7, SizesAssumption
       DEF RunNext, More, EvalInv, EvalTypeOK, TypeOK, FnSlots
  <2> QED
    BY <1>6, <1>7, <2>1 DEF RunNext
<1>8. CASE CbContinue
  <2>1. Head(frames) \in Frame /\ Head(frames).at # 0
    BY <1>8, FramesKeep DEF CbContinue, InCb, EvalInv, EvalTypeOK
  <2>2. Head(frames).at \in FnSlots
    BY <2>1, SizesAssumption DEF Frame, FnSlots
  <2> QED
    BY <1>6, <1>8, <2>2 DEF CbContinue
<1>9. CASE LoopEnd \/ Offer \/ CbStop \/ CbFail
  BY <1>9 DEF LoopEnd, Offer, CbStop, CbFail, Return, NotFailed
<1> QED
  BY <1>2, <1>3, <1>4, <1>5, <1>7, <1>8, <1>9
     DEF EvalNext, Client, DpSetBool, ResetCycle, Loop, CbReturn, NotFailed

\* On a grid that was composed, spfg_rt_run_cycle returns neither
\* SPFG_ERROR_REINDEX nor SPFG_ERROR_EVAL_FN_FAILURE, at any depth of nested runs
\* and whatever callbacks do to the grid.
THEOREM ComposedRunsNeverFail == EvalSpec => RunsNeverFail
<1>1. EvalInit => Implemented /\ NotFailed
  BY ZeroUnused DEF EvalInit, BuildInit, Implemented, NotFailed
<1>2. EvalInv /\ Implemented /\ NotFailed /\ [EvalNext]_evalVars
        => Implemented' /\ NotFailed'
  BY NextIsAnyStep, ImplementedStep, NotFailedStep
<1>3. Implemented' /\ NotFailed' => ret' \notin {"REINDEX", "EVAL_FN_FAILURE"}
  BY DEF NotFailed
<1> QED
  BY <1>1, <1>2, <1>3, EvalInvariant, PTL DEF EvalSpec, RunsNeverFail

-----------------------------------------------------------------------------
(* The order of the index *)

\* Phases that differ by less than half of their range, as they do when no
\* caller uses the upper half; otherwise the comparison overflows.
LowPhases == CreatePhases \subseteq 0..(PhaseHalf - 1)

PhasesLow == \A f \in Used(fns) : fns[f].phase < PhaseHalf

\* What qsort leaves: no two neighbours out of order.
NeighboursOrdered == grx.valid =>
  \A i \in FnSlots : i + 1 \in FnSlots => MayPrecede(fns, grx.fnx[i], grx.fnx[i + 1])

OrderInv == PhasesLow /\ NeighboursOrdered

\* A step keeps the phases low and the neighbours in order.
LEMMA OrderStep == ASSUME LowPhases, EvalInv, OrderInv, [AnyStep]_evalVars
                   PROVE  OrderInv'
<1>1. EvalEffect
  BY StepEvalEffect
<1>2. TypeOK
  BY DEF EvalInv, EvalTypeOK
<1>3. PhasesLow'
  <2>1. CASE UNCHANGED fns
    BY <2>1 DEF OrderInv, PhasesLow, Used
  <2>2. CASE Composed
    <3>1. Effect
      BY <1>2, <2>2, StepEffect DEF Composed
    <3>2. CASE Wiped
      BY <3>2, ZeroUnused DEF Wiped, PhasesLow
    <3>3. ASSUME NEW f \in FnSlots, NEW type \in FnTypes, NEW phase \in PhaseNumbers,
                 NEW in \in Seq(Nat), NEW out \in Seq(Nat),
                 FnCreated(f, type, phase, in, out)
          PROVE  PhasesLow'
      <4>1. \A g \in Used(fns)' : g # f => g \in Used(fns) /\ fns'[g] = fns[g]
        BY <1>2, <3>3 DEF FnCreated, Used, TypeOK
      <4>2. fns'[f].phase < PhaseHalf
        <5>1. fns'[f].phase = phase
          BY <1>2, <3>3 DEF FnCreated, TypeOK
        <5>2. phase \in 0..(PhaseHalf - 1)
          BY <3>3 DEF FnCreated, LowPhases
        <5> QED
          BY <5>1, <5>2, SizesAssumption
      <4> QED
        BY <4>1, <4>2 DEF OrderInv, PhasesLow
    <3>4. ASSUME NEW f \in FnSlots, FnRemoved(f)
          PROVE  PhasesLow'
      <4>1. \A g \in Used(fns)' : g \in Used(fns) /\ fns'[g] = fns[g]
        BY <1>2, <3>4 DEF FnRemoved, Used, TypeOK, ZeroFn
      <4> QED
        BY <4>1 DEF OrderInv, PhasesLow
    <3> QED
      BY <2>1, <3>1, <3>2, <3>3, <3>4 DEF Effect, grid, DpCreated, DpRemoved
  <2> QED
    BY <1>1, <2>1, <2>2 DEF EvalEffect, Valued, Indexed
<1>4. NeighboursOrdered'
  <2>1. CASE grx' = ZeroIndex
    BY <2>1 DEF ZeroIndex, NeighboursOrdered
  <2>2. CASE UNCHANGED <<fns, grx>>
    BY <2>2 DEF OrderInv, NeighboursOrdered, MayPrecede
  <2>3. CASE Indexed
    <3>1. PICK p : RebuiltFrom(p, grx')
      BY <2>3, RebuiltIndex DEF Indexed, NoLeftovers, ZeroIndex
    <3> QED
      BY <2>3, <3>1 DEF Indexed, RebuiltFrom, NeighboursOrdered, MayPrecede
  <2> QED
    BY <1>1, <1>2, <2>1, <2>2, <2>3, ComposedIndex DEF EvalEffect, Valued
<1> QED
  BY <1>3, <1>4 DEF OrderInv

\* The order the comparison stands for when nothing overflows.
Before(e, d) ==
  \/ d.fn = 0
  \/ /\ e.fn # 0
     /\ \/ fns[e.fn].phase < fns[d.fn].phase
        \/ fns[e.fn].phase = fns[d.fn].phase /\ fns[e.fn].id <= fns[d.fn].id

\* It is transitive.
LEMMA BeforeTrans ==
  ASSUME NEW a, NEW b, NEW c, a.fn # 0, b.fn # 0, c.fn # 0,
         \A e \in {a, b, c} : fns[e.fn].phase \in Int /\ fns[e.fn].id \in Int,
         Before(a, b), Before(b, c)
  PROVE  Before(a, c)
<1> DEFINE pa == fns[a.fn].phase
           pb == fns[b.fn].phase
           pc == fns[c.fn].phase
           ia == fns[a.fn].id
           ib == fns[b.fn].id
           ic == fns[c.fn].id
<1>1. /\ pa \in Int /\ pb \in Int /\ pc \in Int
      /\ ia \in Int /\ ib \in Int /\ ic \in Int
  OBVIOUS
<1>2. pa < pb \/ (pa = pb /\ ia <= ib)
  BY DEF Before
<1>3. pb < pc \/ (pb = pc /\ ib <= ic)
  BY DEF Before
<1>4. pa < pc \/ (pa = pc /\ ia <= ic)
  <2> HIDE DEF pa, pb, pc, ia, ib, ic
  <2> QED
    BY <1>1, <1>2, <1>3
<1> QED
  BY <1>4 DEF Before

LEMMA NoOverflow == ASSUME NEW p \in 0..(PhaseHalf - 1), NEW q \in 0..(PhaseHalf - 1)
                    PROVE  PhaseCmp(p, q) = p - q
BY SizesAssumption DEF PhaseCmp

\* An entry is null or that of a live function with a low phase.
LEMMA EntryFacts == ASSUME EvalInv, PhasesLow, NEW i \in FnSlots, grx.fnx[i].fn # 0
                    PROVE  LET f == grx.fnx[i].fn
                           IN  /\ f \in Used(fns)
                               /\ fns[f].phase \in 0..(PhaseHalf - 1)
                               /\ fns[f].id = f /\ f \in Nat
<1> DEFINE f == grx.fnx[i].fn
<1>1. f \in Used(fns)
  BY DEF EvalInv, IndexCurrent, ZeroEntry
<1>2. f \in FnSlots /\ fns[f].used /\ fns[f].phase \in PhaseNumbers
  BY <1>1 DEF EvalInv, EvalTypeOK, TypeOK, Used, Fn
<1>3. fns[f].id = f
  BY <1>2 DEF EvalInv, SlotsClean
<1> QED
  BY <1>1, <1>2, <1>3, SizesAssumption DEF PhasesLow, PhaseNumbers, FnSlots

\* The order of neighbours extends to any two entries: otherwise there is a
\* nearest entry out of order, and the one before it is in order.
LEMMA PairsOrdered ==
  ASSUME EvalInv, OrderInv, grx.valid, NEW i \in FnSlots, NEW j \in FnSlots, i < j
  PROVE  Before(grx.fnx[i], grx.fnx[j])
<1>1. ASSUME NEW a \in FnSlots, a + 1 \in FnSlots
      PROVE  Before(grx.fnx[a], grx.fnx[a + 1])
  <2>1. MayPrecede(fns, grx.fnx[a], grx.fnx[a + 1])
    BY <1>1 DEF OrderInv, NeighboursOrdered
  <2>2. CASE grx.fnx[a].fn # 0 /\ grx.fnx[a + 1].fn # 0
    <3>1. /\ fns[grx.fnx[a].fn].phase \in 0..(PhaseHalf - 1)
          /\ fns[grx.fnx[a + 1].fn].phase \in 0..(PhaseHalf - 1)
      BY <1>1, <2>2, EntryFacts DEF OrderInv
    <3>2. PhaseCmp(fns[grx.fnx[a].fn].phase, fns[grx.fnx[a + 1].fn].phase)
            = fns[grx.fnx[a].fn].phase - fns[grx.fnx[a + 1].fn].phase
      BY <3>1, NoOverflow
    <3> QED
      BY <2>1, <3>1, <3>2, SizesAssumption, SMTT(30) DEF MayPrecede, Before
  <2> QED
    BY <2>1, <2>2 DEF MayPrecede, Before
<1> DEFINE T == {k \in FnSlots : i < k /\ ~Before(grx.fnx[i], grx.fnx[k])}
<1>2. ASSUME T # {}
      PROVE  FALSE
  <2>1. T \in SUBSET Nat
    BY DEF FnSlots
  <2>2. PICK k \in T : \A l \in T : k <= l
    BY <1>2, <2>1, LeastNumber
  <2>3. k - 1 \in FnSlots /\ k \in FnSlots /\ i <= k - 1 /\ k - 1 + 1 = k
    BY SizesAssumption DEF FnSlots
  <2>4. Before(grx.fnx[k - 1], grx.fnx[k])
    BY <1>1, <2>3
  <2>5. i < k - 1
    BY <2>3, <2>4 DEF FnSlots
  <2>6. Before(grx.fnx[i], grx.fnx[k - 1])
    BY <2>2, <2>3, <2>5 DEF FnSlots
  <2>7. ~Before(grx.fnx[i], grx.fnx[k])
    OBVIOUS
  <2>8. grx.fnx[k].fn # 0 /\ grx.fnx[k - 1].fn # 0 /\ grx.fnx[i].fn # 0
    BY <2>4, <2>6, <2>7 DEF Before
  <2>9. \A l \in {i, k - 1, k} : /\ fns[grx.fnx[l].fn].phase \in Int
                                 /\ fns[grx.fnx[l].fn].id \in Int
    BY <2>3, <2>8, EntryFacts, SizesAssumption DEF OrderInv
  <2>10. \A e \in {grx.fnx[i], grx.fnx[k - 1], grx.fnx[k]} :
           fns[e.fn].phase \in Int /\ fns[e.fn].id \in Int
    BY <2>9
  <2>11. Before(grx.fnx[i], grx.fnx[k])
    BY <2>4, <2>6, <2>8, <2>10, BeforeTrans
  <2> QED
    BY <2>7, <2>11
<1> QED
  BY <1>2

\* With that a valid index is in evaluation order.
LEMMA OrderedByInv == EvalInv /\ OrderInv => IndexOrdered
<1> SUFFICES ASSUME EvalInv, OrderInv, grx.valid,
                    NEW i \in FnSlots, NEW j \in FnSlots, i < j, grx.fnx[j].fn # 0
             PROVE  LET f == grx.fnx[i].fn
                        g == grx.fnx[j].fn
                    IN  /\ f # 0
                        /\ \/ fns[f].phase < fns[g].phase
                           \/ fns[f].phase = fns[g].phase /\ f < g
  BY DEF IndexOrdered
<1>1. Before(grx.fnx[i], grx.fnx[j])
  BY PairsOrdered
<1>2. grx.fnx[i].fn # 0
  BY <1>1 DEF Before
<1>3. /\ fns[grx.fnx[i].fn].id = grx.fnx[i].fn /\ grx.fnx[i].fn \in Nat
      /\ fns[grx.fnx[j].fn].id = grx.fnx[j].fn /\ grx.fnx[j].fn \in Nat
      /\ grx.fnx[j].fn \in Used(fns)
  BY <1>2, EntryFacts DEF OrderInv
<1>4. grx.fnx[i].fn # grx.fnx[j].fn
  <2>1. PICK k \in FnSlots : \A l \in FnSlots \ {k} : grx.fnx[l].fn # grx.fnx[j].fn
    BY <1>3 DEF EvalInv, IndexComplete
  <2> QED
    BY <2>1 DEF FnSlots
<1> QED
  BY <1>1, <1>2, <1>3, <1>4 DEF Before

\* The strengthening is an invariant.
LEMMA OrderStarts == EvalInit => OrderInv
BY ZeroUnused DEF EvalInit, BuildInit, OrderInv, PhasesLow, NeighboursOrdered, ZeroIndex

LEMMA OrderInvariant == LowPhases => (EvalSpec => []OrderInv)
<1> SUFFICES ASSUME LowPhases
             PROVE  EvalSpec => []OrderInv
  OBVIOUS
<1>1. EvalInit => OrderInv
  BY OrderStarts
<1>2. EvalInv /\ OrderInv /\ [EvalNext]_evalVars => OrderInv'
  BY NextIsAnyStep, OrderStep
<1> QED
  BY <1>1, <1>2, EvalInvariant, PTL DEF EvalSpec

\* As long as no caller uses the upper half of the phase numbers, a valid index
\* is always in evaluation order.
THEOREM IndexStaysOrdered == LowPhases => (EvalSpec => []IndexOrdered)
<1> SUFFICES ASSUME LowPhases
             PROVE  EvalSpec => []IndexOrdered
  OBVIOUS
<1>1. EvalSpec => []OrderInv
  BY OrderInvariant
<1> QED
  BY <1>1, OrderedByInv, EvalInvariant, PTL

\* With that, and the cycle check, a function that feeds another stands before it.
LEMMA TopologicalByInv == EvalInv /\ OrderInv => IndexTopological
<1> SUFFICES ASSUME EvalInv, OrderInv, grx.valid,
                    NEW i \in FnSlots, NEW j \in FnSlots, i # j,
                    grx.fnx[i].fn # 0, grx.fnx[j].fn # 0,
                    Feeds(grx.fnx[i].fn, grx.fnx[j].fn), ~(i < j)
             PROVE  FALSE
  BY DEF IndexTopological
<1> DEFINE f == grx.fnx[i].fn
           g == grx.fnx[j].fn
<1>1. j < i
  BY DEF FnSlots
<1>2. /\ f \in Used(fns) /\ fns[f].phase \in Int
      /\ g \in Used(fns) /\ fns[g].phase \in Int
  BY EntryFacts, SizesAssumption DEF OrderInv
<1>3. f # g /\ fns[g].phase <= fns[f].phase
  BY <1>1, <1>2, OrderedByInv, EntryFacts, SMTT(30) DEF IndexOrdered, OrderInv
<1>4. fns[f].phase < fns[g].phase
  BY <1>2, <1>3 DEF EvalInv, PhaseOrdered
<1> QED
  BY <1>2, <1>3, <1>4

\* Then a function that feeds another always stands before it in a valid index:
\* what the cycle check establishes among the blocks, the sort by phase carries
\* over to the order of evaluation.
THEOREM IndexStaysTopological == LowPhases => (EvalSpec => []IndexTopological)
<1> SUFFICES ASSUME LowPhases
             PROVE  EvalSpec => []IndexTopological
  OBVIOUS
<1>1. EvalSpec => []OrderInv
  BY OrderInvariant
<1> QED
  BY <1>1, TopologicalByInv, EvalInvariant, PTL

-----------------------------------------------------------------------------
(* One pass over the index *)

\* A cycle under way runs on a valid index, and in one activation whose callback
\* holds the entry the cursor is on.
OnePass == /\ cur # 0 \/ frames # <<>> => grx.valid
           /\ frames # <<>> => Len(frames) = 1 /\ Head(frames).at \in {0, cur + 1}

PassInv == EvalInv /\ OrderInv /\ OnePass /\ BehindConsumed

-----------------------------------------------------------------------------
\* A function that runs leaves nothing pending on its own inputs, and no change
\* but on what it writes.
LEMMA RunConsumes ==
  ASSUME TypeOK, Integrity, IndexCurrent, NEW i \in FnSlots, NEW d \in DpSlots,
         AfterRun(grx.fnx[i])[d].emitted
  PROVE  \/ dps[d].emitted /\ ~Changed(grx.fnx[i])
         \/ /\ d \notin Range(grx.fnx[i].in)
            /\ \/ dps[d].emitted
               \/ grx.fnx[i].fn \in Used(fns) /\ d \in Outs(fns[grx.fnx[i].fn])
<1> DEFINE e == grx.fnx[i]
           after == AfterRun(e)
<1>1. CASE ~Changed(e)
  BY <1>1 DEF AfterRun
<1>2. CASE Changed(e)
  <2>1. e # ZeroEntry
    BY <1>2 DEF Changed, ZeroEntry, Range
  <2>2. e.fn \in Used(fns) /\ e = EntryOf(fns, e.fn)
    BY <2>1 DEF IndexCurrent
  <2>3. e.out = fns[e.fn].out /\ Len(e.out) = 1 /\ e.out \in Seq(DpSlots)
    BY <2>2, LiveRefs DEF EntryOf
  <2>4. e.out[1] \in Outs(fns[e.fn])
    BY <2>3 DEF Outs, Range
  <2>5. after = ChangesCleared(Evaluated(e), e)
    BY <1>2 DEF AfterRun
  <2>6. d \notin Range(e.in)
    <3>1. ASSUME d \in Range(e.in)
          PROVE  after[d] = [Evaluated(e)[d] EXCEPT !.emitted = FALSE]
      BY <2>5, <3>1 DEF ChangesCleared
    <3>2. Evaluated(e)[d] \in Dp
      <4>1. \A x \in Range(e.in) : x \in DpSlots
        <5>1. e.in \in Seq(DpSlots)
          BY <2>2, LiveRefs DEF EntryOf
        <5> QED
          BY <5>1 DEF Range
      <4>2. 1 \in DOMAIN e.out /\ e.out[1] \in DpSlots /\ dps[e.out[1]].used
        <5>1. dps[e.out[1]].used
          BY <2>2, <2>4, LiveRefs
        <5>2. 1 \in DOMAIN e.out /\ e.out[1] \in DpSlots
          <6> HIDE DEF e
          <6> QED
            BY <2>3, FirstOfSeq, Zenon
        <5> QED
          BY <5>1, <5>2
      <4>3. (dps[e.in[1]].value /\ dps[e.in[2]].value) \in BOOLEAN
        OBVIOUS
      <4>4. SameButValues(dps, Evaluated(e))
        BY <4>2, <4>3, BoolSetKeeps DEF Evaluated, TypeOK
      <4> QED
        BY <4>4 DEF SameButValues
    <3> QED
      BY <3>1, <3>2 DEF Dp
  <2>7. after[d] = Evaluated(e)[d]
    BY <2>5, <2>6 DEF ChangesCleared
  <2>8. CASE d = e.out[1]
    BY <2>2, <2>4, <2>6, <2>8
  <2>9. CASE d # e.out[1]
    <3>1. Evaluated(e)[d] = dps[d]
      BY <2>9 DEF Evaluated, BoolSet, TypeOK
    <3> QED
      BY <2>6, <2>7, <3>1
  <2> QED
    BY <2>8, <2>9
<1> QED
  BY <1>1, <1>2

\* The datapoints an entry reads are live slots.
LEMMA EntryReads ==
  ASSUME TypeOK, Integrity, IndexCurrent, NEW i \in FnSlots, NEW d \in Range(grx.fnx[i].in)
  PROVE  /\ d \in DpSlots
         /\ grx.fnx[i].fn \in Used(fns)
         /\ d \in Ins(fns[grx.fnx[i].fn])
         /\ dps[d].used
<1> DEFINE e == grx.fnx[i]
<1>1. e # ZeroEntry
  BY DEF ZeroEntry, Range
<1>2. e.fn \in Used(fns) /\ e.in = fns[e.fn].in
  <2>1. e.fn \in Used(fns) /\ e = EntryOf(fns, e.fn)
    BY <1>1 DEF IndexCurrent
  <2> QED
    BY <2>1 DEF EntryOf
<1>3. d \in Ins(fns[e.fn])
  BY <1>2 DEF Ins
<1>4. fns[e.fn].in \in Seq(DpSlots) /\ \A x \in Ins(fns[e.fn]) : dps[x].used
  BY <1>2, LiveRefs
<1> QED
  BY <1>2, <1>3, <1>4 DEF Range

\* When the entry the cursor is on has run, no entry up to it has anything to do.
LEMMA RunPasses ==
  ASSUME EvalInv, OrderInv, BehindConsumed, grx.valid,
         cur + 1 \in FnSlots, dps' = AfterRun(grx.fnx[cur + 1]),
         NEW i \in FnSlots, i <= cur + 1,
         NEW d \in Range(grx.fnx[i].in), dps'[d].used, dps'[d].emitted
  PROVE  FALSE
<1> DEFINE p == cur + 1
           e == grx.fnx[p]
<1>0. TypeOK /\ Integrity /\ IndexCurrent /\ cur \in Nat
  BY DEF EvalInv, EvalTypeOK, TypeOK
<1>1. /\ d \in DpSlots /\ grx.fnx[i].fn \in Used(fns)
      /\ d \in Ins(fns[grx.fnx[i].fn]) /\ dps[d].used
  BY <1>0, EntryReads
<1>2. \/ dps[d].emitted /\ ~Changed(e)
      \/ /\ d \notin Range(e.in)
         /\ dps[d].emitted \/ (e.fn \in Used(fns) /\ d \in Outs(fns[e.fn]))
  BY <1>0, <1>1, RunConsumes
<1>3. i # p
  BY <1>1, <1>2 DEF Changed
<1>4. ~dps[d].emitted
  <2>1. Passed(i)
    BY <1>0, <1>3 DEF Passed, FnSlots
  <2>2. ~Changed(grx.fnx[i])
    BY <2>1 DEF BehindConsumed
  <2> QED
    BY <1>1, <2>2 DEF Changed
<1>5. e.fn \in Used(fns) /\ Feeds(e.fn, grx.fnx[i].fn)
  BY <1>1, <1>2, <1>4 DEF Feeds
<1>6. e.fn # 0 /\ grx.fnx[i].fn # 0
  BY <1>0, <1>1, <1>5 DEF Used, TypeOK, FnSlots
<1>7. p < i
  BY <1>3, <1>5, <1>6, TopologicalByInv DEF IndexTopological
<1> QED
  BY <1>0, <1>7 DEF FnSlots

-----------------------------------------------------------------------------
(* The steps of a pass *)

\* The activation on top of the stack, changed.
Topped(s, a, n) == [s EXCEPT ![1].at = a, ![1].id = n]

LEMMA TopChanged ==
  ASSUME NEW s \in Seq(Frame), s # <<>>, NEW a, NEW n
  PROVE  Len(Topped(s, a, n)) = Len(s) /\ Head(Topped(s, a, n)).at = a
<1> DEFINE top == [s[1] EXCEPT !.at = a, !.id = n]
           t == Topped(s, a, n)
<1>1. 1 \in 1..Len(s) /\ s[1] \in Frame
  BY EmptySeq, ElementOfSeq
<1>2. t = [s EXCEPT ![1] = top]
  BY <1>1, LenProperties DEF Topped
<1>3. top.at = a
  BY <1>1 DEF Frame
<1>4. t \in Seq(Frame \cup {top}) /\ Len(t) = Len(s) /\ t[1] = top
  <2> DEFINE S == Frame \cup {top}
  <2>1. s \in Seq(S)
    BY ElementOfSeq, SeqDef, LenProperties
  <2> HIDE DEF top, S
  <2>2. [s EXCEPT ![1] = top] \in Seq(S) /\ Len([s EXCEPT ![1] = top]) = Len(s)
    BY <1>1, <2>1, ExceptSeq DEF S
  <2>3. [s EXCEPT ![1] = top][1] = top
    BY <1>1, <2>1, ExceptSeq DEF S
  <2> QED
    BY <1>2, <2>2, <2>3 DEF S
<1>5. Head(t) = t[1]
  <2> HIDE DEF t
  <2> QED
    BY <1>1, <1>4, HeadTailProperties, EmptySeq
<1> QED
  <2> HIDE DEF top
  <2> QED
    BY <1>3, <1>4, <1>5

\* A step of the loop or the return of a callback.
LEMMA LibraryStep ==
  ASSUME PassInv, Loop \/ CbReturn
  PROVE  OnePass' /\ BehindConsumed'
<1>0. OnePass /\ BehindConsumed /\ TypeOK /\ frames \in Seq(Frame) /\ cur \in Nat
  BY DEF PassInv, EvalInv, EvalTypeOK, TypeOK
<1>1. frames # <<>> /\ Len(frames) = 1 /\ Head(frames).at \in {0, cur + 1} /\ grx.valid
  BY <1>0 DEF Loop, LoopEnd, Offer, RunNext, CbReturn, CbStop, CbFail, CbContinue,
              InLoop, InCb, OnePass
<1>2. ASSUME NEW code, Return(code), UNCHANGED grid
      PROVE  OnePass' /\ BehindConsumed'
  <2>1. frames' = <<>>
    BY <1>0, <1>1, <1>2 DEF Return
  <2> QED
    BY <1>0, <1>2, <2>1 DEF grid, OnePass, BehindConsumed, Passed, Changed
<1>3. CASE Offer
  <2>1. /\ UNCHANGED <<dps, fns, cur, grx>>
        /\ frames' = [frames EXCEPT ![1].at = cur + 1,
                                    ![1].id = fns[grx.fnx[cur + 1].fn].id]
    BY <1>3 DEF Offer
  <2>2. Len(frames') = 1 /\ Head(frames').at = cur + 1
    <3> DEFINE n == fns[grx.fnx[cur + 1].fn].id
    <3>1. frames' = Topped(frames, cur + 1, n)
      BY <2>1 DEF Topped
    <3>2. frames \in Seq(Frame) /\ frames # <<>> /\ Len(frames) = 1
      BY <1>0, <1>1
    <3> HIDE DEF n
    <3>3. Len(Topped(frames, cur + 1, n)) = 1 /\ Head(Topped(frames, cur + 1, n)).at = cur + 1
      BY ONLY <3>2, TopChanged
    <3> QED
      BY <3>1, <3>3, Zenon
  <2> QED
    BY <1>0, <1>1, <2>1, <2>2 DEF OnePass, BehindConsumed, Passed, Changed
<1>4. ASSUME RunFn(cur + 1), cur + 1 \in FnSlots
      PROVE  OnePass' /\ BehindConsumed'
  <2>1. CASE Return("EVAL_FN_FAILURE") /\ UNCHANGED grid
    BY <1>2, <2>1
  <2>2. CASE /\ dps' = AfterRun(grx.fnx[cur + 1])
             /\ cur' = cur + 1
             /\ frames' = [frames EXCEPT ![1].at = 0, ![1].id = 0]
             /\ UNCHANGED <<fns, grx, ret>>
    <3>1. Len(frames') = 1 /\ Head(frames').at = 0
      <4>1. frames' = Topped(frames, 0, 0)
        BY <2>2 DEF Topped
      <4> QED
        BY <1>0, <1>1, <4>1, TopChanged
    <3>2. OnePass'
      BY <1>1, <2>2, <3>1 DEF OnePass
    <3>3. BehindConsumed'
      <4>1. ASSUME NEW i \in FnSlots, i <= cur + 1,
                   NEW d \in Range(grx.fnx[i].in), dps'[d].used, dps'[d].emitted
            PROVE  FALSE
        BY <1>0, <1>1, <1>4, <2>2, <4>1, RunPasses DEF PassInv
      <4> QED
        BY <2>2, <4>1 DEF BehindConsumed, Passed, Changed
    <3> QED
      BY <3>2, <3>3
  <2> QED
    BY <1>4, <2>1, <2>2 DEF RunFn
<1>5. CASE RunNext
  <2>1. cur + 1 \in FnSlots
    BY <1>0, <1>5, SizesAssumption DEF RunNext, More, FnSlots
  <2> QED
    BY <1>4, <1>5, <2>1 DEF RunNext
<1>6. CASE CbContinue
  <2>1. Head(frames).at = cur + 1
    BY <1>1, <1>6 DEF CbContinue, InCb
  <2>2. Head(frames) \in Frame
    BY <1>0, <1>1
  <2>3. cur + 1 \in FnSlots
    BY <1>0, <2>1, <2>2, SizesAssumption DEF Frame, FnSlots
  <2> QED
    BY <1>4, <1>6, <2>1, <2>3 DEF CbContinue
<1> QED
  BY <1>2, <1>3, <1>5, <1>6 DEF Loop, LoopEnd, CbReturn, CbStop, CbFail

\* Such a step leaves the grid alone, or the entry the cursor is on runs.
LEMMA LibraryEffect ==
  ASSUME PassInv, Loop \/ CbReturn
  PROVE  \/ UNCHANGED grid
         \/ /\ cur + 1 \in FnSlots /\ grx.valid
            /\ dps' = AfterRun(grx.fnx[cur + 1])
            /\ cur' = cur + 1
            /\ UNCHANGED <<fns, grx>>
<1>1. OnePass /\ frames \in Seq(Frame) /\ cur \in Nat
  BY DEF PassInv, EvalInv, EvalTypeOK, TypeOK
<1>2. CASE Offer \/ LoopEnd \/ CbStop \/ CbFail
  BY <1>2 DEF Offer, LoopEnd, CbStop, CbFail, grid
<1>3. CASE RunNext
  <2>1. cur + 1 \in FnSlots /\ grx.valid
    BY <1>1, <1>3, SizesAssumption DEF RunNext, InLoop, More, FnSlots, OnePass
  <2> QED
    BY <1>3, <2>1 DEF RunNext, RunFn
<1>4. CASE CbContinue
  <2>1. frames # <<>> /\ Head(frames) \in Frame /\ Head(frames).at # 0
    BY <1>1, <1>4 DEF CbContinue, InCb
  <2>2. Head(frames).at = cur + 1 /\ grx.valid
    BY <1>1, <2>1 DEF OnePass
  <2>3. cur + 1 \in FnSlots
    BY <1>1, <2>1, <2>2, SizesAssumption DEF Frame, FnSlots
  <2> QED
    BY <1>4, <2>2, <2>3 DEF CbContinue, RunFn
<1> QED
  BY <1>2, <1>3, <1>4 DEF Loop, CbReturn

\* spfg_rt_run_cycle up to its loop.
LEMMA StartStep == ASSUME PassInv, frames = <<>>, NEW cb \in BOOLEAN, RunCycle(cb)
                   PROVE  OnePass' /\ BehindConsumed'
<1>0. OnePass /\ BehindConsumed /\ TypeOK /\ cur \in Nat
  BY DEF PassInv, EvalInv, EvalTypeOK, TypeOK
<1>1. Rebuildable(dps, fns)
  BY WholeIsRebuildable DEF PassInv, EvalInv, EvalTypeOK
<1>2. /\ UNCHANGED <<dps, fns, cur>>
      /\ grx' \in IF grx.valid THEN {grx} ELSE Rebuilt(fns, grx)
      /\ frames' = <<[cb |-> cb, at |-> 0, id |-> 0]>> \o frames
  BY <1>1 DEF RunCycle
<1>3. grx'.valid
  BY <1>2 DEF Rebuilt
<1>4. frames' = <<[cb |-> cb, at |-> 0, id |-> 0]>>
  BY <1>2
<1>5. BehindConsumed'
  <2>1. CASE grx' = grx
    BY <1>0, <1>2, <2>1 DEF BehindConsumed, Passed, Changed
  <2>2. CASE cur = 0
    BY <1>2, <2>2 DEF BehindConsumed, Passed, FnSlots
  <2> QED
    BY <1>0, <1>2, <2>1, <2>2 DEF OnePass
<1> QED
  BY <1>3, <1>4, <1>5 DEF OnePass

\* At the end of the loop everything pending has been consumed.
LEMMA EndConsumes ==
  ASSUME PassInv, LoopEnd, NEW f \in Used(fns)
  PROVE  ~Changed(EntryOf(fns, f))
<1>0. /\ TypeOK /\ IndexCurrent /\ IndexComplete /\ cur \in Nat
      /\ frames # <<>> /\ ~More /\ grx.valid /\ BehindConsumed
  BY DEF EvalInv, EvalTypeOK, TypeOK, PassInv, OnePass, LoopEnd, InLoop
<1>1. f # 0
  BY <1>0 DEF Used, TypeOK, FnSlots
<1>2. PICK i \in FnSlots : grx.fnx[i].fn = f
  BY <1>0 DEF IndexComplete
<1>3. grx.fnx[i] = EntryOf(fns, f)
  BY <1>0, <1>1, <1>2 DEF IndexCurrent, ZeroEntry
<1>4. i <= cur
  <2> SUFFICES ASSUME ~(i <= cur)
               PROVE  FALSE
    OBVIOUS
  <2>1. cur + 1 \in FnSlots /\ cur < MaxFns /\ cur + 1 <= i
    BY <1>0, SizesAssumption DEF FnSlots
  <2>2. grx.fnx[cur + 1].fn = 0
    BY <1>0, <2>1 DEF More, IndexCurrent, ZeroEntry, Used
  <2>3. cur + 1 < i
    BY <1>0, <1>1, <1>2, <2>1, <2>2 DEF FnSlots
  <2> QED
    BY <1>0, <1>1, <1>2, <2>1, <2>2, <2>3, OrderedByInv DEF PassInv, IndexOrdered
<1> QED
  BY <1>0, <1>2, <1>3, <1>4 DEF BehindConsumed, Passed
=============================================================================
