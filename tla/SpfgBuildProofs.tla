-------------------------- MODULE SpfgBuildProofs --------------------------
(***************************************************************************)
(* What the composition calls keep true of every grid, for every size of   *)
(* the arrays and whatever arguments callers pass: the type invariant, the *)
(* cleanliness of the slots, the integrity of the references, the order of *)
(* the phases, and that no set of functions feeds itself.                  *)
(*                                                                         *)
(* TypeOK, SlotsClean, Integrity and PhaseOrdered are proved one on top of *)
(* the other, each inductive relative to the ones before it.  Acyclic      *)
(* follows from PhaseOrdered: the functions of the earliest phase of a set *)
(* read nothing that another one of the set writes.                        *)
(***************************************************************************)
EXTENDS SpfgBuild, WellFoundedInduction, TLAPS

-----------------------------------------------------------------------------
(* The operators the calls are built from *)

\* Zeroed memory is a well-formed grid (memset).
LEMMA ZeroTypes == /\ ZeroDps \in [DpSlots -> Dp]
                   /\ ZeroFns \in [FnSlots -> Fn]
                   /\ ZeroIndex \in Index
<1>1. ZeroDps \in [DpSlots -> Dp]
  BY SizesAssumption DEF ZeroDps, ZeroDp, Dp, DpTypeNumbers
<1>2. ZeroFns \in [FnSlots -> Fn]
  <2>1. <<>> \in Seq(Nat)
    OBVIOUS
  <2>2. 0 \in PhaseNumbers
    BY SizesAssumption DEF PhaseNumbers
  <2>3. ZeroFn \in Fn
    BY <2>1, <2>2, SizesAssumption DEF ZeroFn, Fn, FnTypes
  <2> QED
    BY <2>3 DEF ZeroFns
<1>3. ZeroIndex \in Index
  <2>1. <<>> \in Seq(DpSlots)
    OBVIOUS
  <2>2. ZeroEntry \in Entry
    BY <2>1, SizesAssumption DEF ZeroEntry, Entry
  <2> QED
    BY <2>2 DEF ZeroIndex, Index
<1> QED
  BY <1>1, <1>2, <1>3

\* No slot of a zeroed array is live.
LEMMA ZeroUnused == /\ \A d \in DpSlots : ~ZeroDps[d].used
                    /\ Used(ZeroFns) = {}
<1>1. \A d \in DpSlots : ~ZeroDps[d].used
  BY DEF ZeroDps, ZeroDp
<1>2. Used(ZeroFns) = {}
  BY DEF Used, ZeroFns, ZeroFn
<1> QED
  BY <1>1, <1>2

-----------------------------------------------------------------------------
(* The effect of each call that is not refused, as the invariants need it *)

Wiped == /\ dps' = ZeroDps
         /\ fns' = ZeroFns
         /\ cur' = 0
         /\ grx' = ZeroIndex

DpCreated(d, type) ==
  /\ d \in DpSlots
  /\ ~dps[d].used
  /\ type \in DpTypeNumbers
  /\ dps' = [dps EXCEPT ![d].used = TRUE, ![d].id = d, ![d].type = type]
  /\ grx' = ZeroIndex
  /\ UNCHANGED <<fns, cur>>

DpRemoved(d) ==
  /\ d \in DpSlots
  /\ dps[d].used
  /\ ~Referenced(d)
  /\ dps' = [dps EXCEPT ![d] = ZeroDp]
  /\ grx' = ZeroIndex
  /\ UNCHANGED <<fns, cur>>

FnCreated(f, type, phase, in, out) ==
  /\ f \in FnSlots
  /\ ~fns[f].used
  /\ type \in FnTypes
  /\ phase \in PhaseNumbers \cap CreatePhases
  /\ in \in Seq(Nat)
  /\ out \in Seq(Nat)
  /\ ResolveDps(dps, in)
  /\ ResolveDps(dps, out)
  /\ Validate(type, in, out)
  /\ CycleCheck(phase, in, out)
  /\ fns' = [fns EXCEPT ![f] = [used |-> TRUE, id |-> f, type |-> type,
                                phase |-> phase, in |-> in, out |-> out]]
  /\ grx' = ZeroIndex
  /\ UNCHANGED <<dps, cur>>

FnRemoved(f) ==
  /\ f \in FnSlots
  /\ fns[f].used
  /\ fns' = [fns EXCEPT ![f] = ZeroFn]
  /\ grx' = ZeroIndex
  /\ UNCHANGED <<dps, cur>>

\* The ways a call of the composition interface can change the grid.
Effect == \/ UNCHANGED grid
          \/ Wiped
          \/ \E d \in DpSlots, type \in DpTypeNumbers : DpCreated(d, type)
          \/ \E d \in DpSlots : DpRemoved(d)
          \/ \E f \in FnSlots, type \in FnTypes, phase \in PhaseNumbers,
                in \in Seq(Nat), out \in Seq(Nat) :
               FnCreated(f, type, phase, in, out)
          \/ \E f \in FnSlots : FnRemoved(f)

\* Every call has one of these effects and returns a code.
LEMMA CallEffect == ASSUME [BuildNext]_buildVars, ret \in Codes
                    PROVE  Effect /\ ret' \in Codes
<1>1. CASE UNCHANGED buildVars
  BY <1>1 DEF buildVars, grid, Effect
<1>2. CASE RtFinish
  BY <1>2 DEF RtFinish, Wipe, Wiped, Effect, Codes
<1>3. ASSUME NEW name \in NameArgs, RtInit(name)
      PROVE  Effect /\ ret' \in Codes
  BY <1>3 DEF RtInit, Wipe, Wiped, Effect, Codes
<1>4. ASSUME NEW type \in DpTypeArgs, NEW name \in NameArgs, DpCreate(type, name)
      PROVE  Effect /\ ret' \in Codes
  <2>1. CASE Refuse("OUT_OF_SLOTS") \/ Refuse("BAD_BLOCK_NAME")
    BY <2>1 DEF Refuse, Effect, Codes
  <2>2. CASE \E d \in DpSlots :
               /\ FirstFree(dps, d)
               /\ dps' = [dps EXCEPT ![d].used = TRUE, ![d].id = IdOf(d),
                                     ![d].type = type]
               /\ grx' = IndexClear(grx)
               /\ ret' = "NO"
               /\ UNCHANGED <<fns, cur>>
    <3>1. type \in DpTypeNumbers
      BY ArgsAssumption
    <3>2. \E d \in DpSlots : DpCreated(d, type)
      BY <2>2, <3>1 DEF FirstFree, IndexClear, IdOf, DpCreated
    <3> QED
      BY <2>2, <3>1, <3>2 DEF Effect, Codes
  <2> QED
    BY <1>4, <2>1, <2>2 DEF DpCreate
<1>5. ASSUME NEW id \in DpIdArgs, DpRemove(id)
      PROVE  Effect /\ ret' \in Codes
  <2>1. CASE Refuse("INVALID_DP_ID") \/ Refuse("FN_INTEGRITY")
    BY <2>1 DEF Refuse, Effect, Codes
  <2>2. CASE /\ ResolveDp(dps, id)
             /\ ~Referenced(id)
             /\ dps' = Freed(dps, id, ZeroDp)
             /\ grx' = IndexClear(grx)
             /\ ret' = "NO"
             /\ UNCHANGED <<fns, cur>>
    <3>1. id \in DpSlots /\ DpRemoved(id)
      BY <2>2 DEF ResolveDp, Freed, IndexClear, DpRemoved
    <3> QED
      BY <2>2, <3>1 DEF Effect, Codes
  <2> QED
    BY <1>5, <2>1, <2>2 DEF DpRemove
<1>6. ASSUME NEW type \in FnTypeArgs, NEW phase \in CreatePhases, NEW in \in InArgs,
             NEW out \in OutArgs, NEW name \in NameArgs,
             FnCreate(type, phase, in, out, name)
      PROVE  Effect /\ ret' \in Codes
  <2> DEFINE code == FnCreateCode(type, phase, in, out, name)
  <2>1. code \in Codes
    BY DEF FnCreateCode, Codes
  <2>2. CASE Refuse(code)
    BY <2>1, <2>2 DEF Refuse, Effect
  <2>3. ASSUME NEW f \in FnSlots,
               code = "NO",
               FirstFree(fns, f),
               fns' = [fns EXCEPT ![f] = [used |-> TRUE, id |-> IdOf(f), type |-> type,
                                          phase |-> phase, in |-> in, out |-> out]],
               grx' = IndexClear(grx),
               ret' = "NO",
               UNCHANGED <<dps, cur>>
        PROVE  Effect /\ ret' \in Codes
    <3>1. /\ phase \in PhaseNumbers
          /\ in \in Seq(Nat)
          /\ out \in Seq(Nat)
      <4>1. Seq(Nat \ {0}) \subseteq Seq(Nat)
        OBVIOUS
      <4> QED
        BY <4>1, ArgsAssumption
    <3>2. /\ ResolveDps(dps, in)
          /\ ResolveDps(dps, out)
          /\ Validate(type, in, out)
          /\ CycleCheck(phase, in, out)
      BY <2>3 DEF FnCreateCode
    <3>3. type \in FnTypes
      BY <3>2 DEF Validate, FnTypes
    <3>4. FnCreated(f, type, phase, in, out)
      BY <2>3, <3>1, <3>2, <3>3 DEF FirstFree, IndexClear, IdOf, FnCreated
    <3> QED
      BY <2>3, <3>1, <3>3, <3>4 DEF Effect, Codes
  <2> QED
    BY <1>6, <2>2, <2>3 DEF FnCreate
<1>7. ASSUME NEW id \in FnIdArgs, FnRemove(id)
      PROVE  Effect /\ ret' \in Codes
  <2>1. CASE Refuse("INVALID_FN_ID")
    BY <2>1 DEF Refuse, Effect, Codes
  <2>2. CASE /\ ResolveFn(fns, id)
             /\ fns' = Freed(fns, id, ZeroFn)
             /\ grx' = IndexClear(grx)
             /\ ret' = "NO"
             /\ UNCHANGED <<dps, cur>>
    <3>1. id \in FnSlots /\ FnRemoved(id)
      BY <2>2 DEF ResolveFn, Freed, IndexClear, FnRemoved
    <3> QED
      BY <2>2, <3>1 DEF Effect, Codes
  <2> QED
    BY <1>7, <2>1, <2>2 DEF FnRemove
<1> QED
  BY <1>1, <1>2, <1>3, <1>4, <1>5, <1>6, <1>7 DEF BuildNext, InitCall, BuildCall

-----------------------------------------------------------------------------
(* Types *)

\* A composition call keeps the types.
LEMMA TypeStep == ASSUME TypeOK, [BuildNext]_buildVars
                  PROVE  TypeOK'
<1>0. Effect /\ ret' \in Codes
  BY CallEffect DEF TypeOK
<1>1. CASE UNCHANGED grid
  BY <1>0, <1>1 DEF grid, TypeOK
<1>2. CASE Wiped
  BY <1>0, <1>2, ZeroTypes DEF Wiped, TypeOK
<1>3. ASSUME NEW d \in DpSlots, NEW type \in DpTypeNumbers, DpCreated(d, type)
      PROVE  TypeOK'
  <2> DEFINE dp == [dps[d] EXCEPT !.used = TRUE, !.id = d, !.type = type]
  <2>1. d \in 0..MaxDps /\ dps[d] \in Dp
    BY SizesAssumption DEF DpSlots, TypeOK
  <2>2. dp \in Dp
    BY <2>1 DEF Dp
  <2>3. dps' = [dps EXCEPT ![d] = dp]
    BY <1>3 DEF DpCreated, TypeOK
  <2>4. dps' \in [DpSlots -> Dp]
    BY <2>2, <2>3 DEF TypeOK
  <2> QED
    BY <1>0, <1>3, <2>4, ZeroTypes DEF DpCreated, TypeOK
<1>4. ASSUME NEW d \in DpSlots, DpRemoved(d)
      PROVE  TypeOK'
  <2>1. ZeroDp \in Dp
    BY SizesAssumption DEF ZeroDp, Dp, DpTypeNumbers
  <2>2. dps' \in [DpSlots -> Dp]
    BY <1>4, <2>1 DEF DpRemoved, TypeOK
  <2> QED
    BY <1>0, <1>4, <2>2, ZeroTypes DEF DpRemoved, TypeOK
<1>5. ASSUME NEW f \in FnSlots, NEW type \in FnTypes, NEW phase \in PhaseNumbers,
             NEW in \in Seq(Nat), NEW out \in Seq(Nat),
             FnCreated(f, type, phase, in, out)
      PROVE  TypeOK'
  <2>1. f \in 0..MaxFns
    BY SizesAssumption DEF FnSlots
  <2>2. [used |-> TRUE, id |-> f, type |-> type,
         phase |-> phase, in |-> in, out |-> out] \in Fn
    BY <2>1 DEF Fn
  <2>3. fns' \in [FnSlots -> Fn]
    BY <1>5, <2>2 DEF FnCreated, TypeOK
  <2> QED
    BY <1>0, <1>5, <2>3, ZeroTypes DEF FnCreated, TypeOK
<1>6. ASSUME NEW f \in FnSlots, FnRemoved(f)
      PROVE  TypeOK'
  <2>1. ZeroFn \in Fn
    BY ZeroTypes, SizesAssumption DEF ZeroFns, FnSlots
  <2>2. fns' \in [FnSlots -> Fn]
    BY <1>6, <2>1 DEF FnRemoved, TypeOK
  <2> QED
    BY <1>0, <1>6, <2>2, ZeroTypes DEF FnRemoved, TypeOK
<1> QED
  BY <1>0, <1>1, <1>2, <1>3, <1>4, <1>5, <1>6 DEF Effect

\* The variables always hold values of the types of spfg_types.h.
THEOREM TypeCorrect == BuildSpec => []TypeOK
<1>1. BuildInit => TypeOK
  BY ZeroTypes DEF BuildInit, TypeOK, Codes
<1>2. TypeOK /\ [BuildNext]_buildVars => TypeOK'
  BY TypeStep
<1> QED
  BY <1>1, <1>2, PTL DEF BuildSpec

\* The effects without the code a call returns.
LEMMA StepEffect == ASSUME TypeOK, [BuildNext]_buildVars
                    PROVE  Effect
BY CallEffect DEF TypeOK

-----------------------------------------------------------------------------
(* Slots *)

\* A composition call keeps the slots clean.
LEMMA SlotsStep == ASSUME TypeOK, SlotsClean, [BuildNext]_buildVars
                   PROVE  SlotsClean'
<1>0. Effect
  BY StepEffect
<1>1. CASE UNCHANGED grid
  BY <1>1 DEF grid, SlotsClean
<1>2. CASE Wiped
  BY <1>2 DEF Wiped, SlotsClean, ZeroDps, ZeroDp, ZeroFns, ZeroFn
<1>3. ASSUME NEW d \in DpSlots, NEW type \in DpTypeNumbers, DpCreated(d, type)
      PROVE  SlotsClean'
  BY <1>3 DEF DpCreated, SlotsClean, TypeOK, Dp
<1>4. ASSUME NEW d \in DpSlots, DpRemoved(d)
      PROVE  SlotsClean'
  BY <1>4 DEF DpRemoved, SlotsClean, TypeOK, ZeroDp
<1>5. ASSUME NEW f \in FnSlots, NEW type \in FnTypes, NEW phase \in PhaseNumbers,
             NEW in \in Seq(Nat), NEW out \in Seq(Nat),
             FnCreated(f, type, phase, in, out)
      PROVE  SlotsClean'
  BY <1>5 DEF FnCreated, SlotsClean, TypeOK
<1>6. ASSUME NEW f \in FnSlots, FnRemoved(f)
      PROVE  SlotsClean'
  BY <1>6 DEF FnRemoved, SlotsClean, TypeOK, ZeroFn
<1> QED
  BY <1>0, <1>1, <1>2, <1>3, <1>4, <1>5, <1>6 DEF Effect

\* A live block always carries the id of its slot and a free slot is always
\* all zeros, so no block that is created inherits anything.
THEOREM SlotsStayClean == BuildSpec => []SlotsClean
<1>1. BuildInit => SlotsClean
  BY DEF BuildInit, SlotsClean, ZeroDps, ZeroDp, ZeroFns, ZeroFn
<1>2. TypeOK /\ SlotsClean /\ [BuildNext]_buildVars => SlotsClean'
  BY SlotsStep
<1> QED
  BY <1>1, <1>2, TypeCorrect, PTL DEF BuildSpec

-----------------------------------------------------------------------------
(* References *)

\* A composition call keeps the references whole.
LEMMA IntegrityStep == ASSUME TypeOK, SlotsClean, Integrity, [BuildNext]_buildVars
                       PROVE  Integrity'
<1>0. Effect
  BY StepEffect
<1>1. CASE UNCHANGED grid
  BY <1>1 DEF grid, Integrity, Used, Serves, Ins, Outs
<1>2. CASE Wiped
  BY <1>2, ZeroUnused DEF Wiped, Integrity
<1>3. ASSUME NEW d \in DpSlots, NEW type \in DpTypeNumbers, DpCreated(d, type)
      PROVE  Integrity'
  <2>1. \A c : Serves(c) => Serves(c)'
    BY <1>3 DEF DpCreated, Serves, TypeOK
  <2>2. Used(fns)' = Used(fns)
    BY <1>3 DEF DpCreated, Used
  <2> QED
    BY <1>3, <2>1, <2>2 DEF DpCreated, Integrity, Ins, Outs
<1>4. ASSUME NEW d \in DpSlots, DpRemoved(d)
      PROVE  Integrity'
  <2>1. \A c : Serves(c) /\ c # d => Serves(c)'
    BY <1>4 DEF DpRemoved, Serves, TypeOK
  \* The id the references are compared with is that of the slot.
  <2>2. \A f \in Used(fns) : d \notin Ins(fns[f]) \cup Outs(fns[f])
    BY <1>4 DEF DpRemoved, Referenced, SlotsClean
  <2>3. Used(fns)' = Used(fns)
    BY <1>4 DEF DpRemoved, Used
  <2> QED
    BY <1>4, <2>1, <2>2, <2>3 DEF DpRemoved, Integrity, Ins, Outs
<1>5. ASSUME NEW f \in FnSlots, NEW type \in FnTypes, NEW phase \in PhaseNumbers,
             NEW in \in Seq(Nat), NEW out \in Seq(Nat),
             FnCreated(f, type, phase, in, out)
      PROVE  Integrity'
  <2>1. \A c : Serves(c)' <=> Serves(c)
    BY <1>5 DEF FnCreated, Serves
  <2>2. \A g \in Used(fns)' : g # f => g \in Used(fns) /\ fns'[g] = fns[g]
    BY <1>5 DEF FnCreated, Used, TypeOK
  <2>3. fns'[f].in = in /\ fns'[f].out = out
    BY <1>5 DEF FnCreated, TypeOK
  <2>4. \A c \in Range(in) \cup Range(out) : Serves(c)
    BY <1>5 DEF FnCreated, Validate, ResolveDps, ResolveDp, Serves
  <2>5. Len(in) = 2 /\ Len(out) = 1
    BY <1>5 DEF FnCreated, Validate
  <2> QED
    BY <2>1, <2>2, <2>3, <2>4, <2>5 DEF Integrity, Ins, Outs
<1>6. ASSUME NEW f \in FnSlots, FnRemoved(f)
      PROVE  Integrity'
  <2>1. \A c : Serves(c)' <=> Serves(c)
    BY <1>6 DEF FnRemoved, Serves
  <2>2. \A g \in Used(fns)' : g \in Used(fns) /\ fns'[g] = fns[g]
    BY <1>6 DEF FnRemoved, Used, TypeOK, ZeroFn
  <2> QED
    BY <2>1, <2>2 DEF Integrity, Ins, Outs
<1> QED
  BY <1>0, <1>1, <1>2, <1>3, <1>4, <1>5, <1>6 DEF Effect

\* A live function always refers to as many live datapoints, of the type, as
\* its signature asks for: what spfg_fn_create checks once stays true although
\* datapoints come and go, because spfg_dp_remove keeps the ones referred to.
THEOREM ReferencesStayWhole == BuildSpec => []Integrity
<1>1. BuildInit => Integrity
  BY ZeroUnused DEF BuildInit, Integrity
<1>2. TypeOK /\ SlotsClean /\ Integrity /\ [BuildNext]_buildVars => Integrity'
  BY IntegrityStep
<1> QED
  BY <1>1, <1>2, TypeCorrect, SlotsStayClean, PTL DEF BuildSpec

-----------------------------------------------------------------------------
(* Phases *)

\* A composition call keeps the order of the phases.
LEMMA PhaseStep == ASSUME TypeOK, PhaseOrdered, [BuildNext]_buildVars
                   PROVE  PhaseOrdered'
<1>0. Effect
  BY StepEffect
<1>1. CASE fns' = fns
  BY <1>1 DEF PhaseOrdered, Used, Feeds, Ins, Outs
<1>2. CASE Wiped
  BY <1>2, ZeroUnused DEF Wiped, PhaseOrdered
<1>3. ASSUME NEW f \in FnSlots, NEW type \in FnTypes, NEW phase \in PhaseNumbers,
             NEW in \in Seq(Nat), NEW out \in Seq(Nat),
             FnCreated(f, type, phase, in, out)
      PROVE  PhaseOrdered'
  <2>1. \A g \in Used(fns)' : g # f => g \in Used(fns) /\ fns'[g] = fns[g]
    BY <1>3 DEF FnCreated, Used, TypeOK
  <2>2. fns'[f].in = in /\ fns'[f].out = out /\ fns'[f].phase = phase
    BY <1>3 DEF FnCreated, TypeOK
  <2>3. \A g \in Used(fns) : fns[g].phase \in Int /\ phase \in Int
    BY DEF TypeOK, Used, Fn, PhaseNumbers
  \* What the new function writes is read later only ..
  <2>4. \A g \in Used(fns) : Outs(fns'[f]) \cap Ins(fns[g]) # {} => phase < fns[g].phase
    <3> SUFFICES ASSUME NEW g \in Used(fns), Outs(fns'[f]) \cap Ins(fns[g]) # {}
                 PROVE  phase < fns[g].phase
      OBVIOUS
    <3>1. Intersect(fns[g].in, out)
      BY <2>2 DEF Intersect, Ins, Outs
    <3>2. ~(fns[g].phase <= phase)
      BY <1>3, <3>1 DEF FnCreated, CycleCheck
    <3> QED
      BY <2>3, <3>2
  \* .. and what it reads is written earlier only.
  <2>5. \A g \in Used(fns) : Outs(fns[g]) \cap Ins(fns'[f]) # {} => fns[g].phase < phase
    <3> SUFFICES ASSUME NEW g \in Used(fns), Outs(fns[g]) \cap Ins(fns'[f]) # {}
                 PROVE  fns[g].phase < phase
      OBVIOUS
    <3>1. Intersect(fns[g].out, in)
      BY <2>2 DEF Intersect, Ins, Outs
    <3>2. ~(fns[g].phase >= phase)
      BY <1>3, <3>1 DEF FnCreated, CycleCheck
    <3> QED
      BY <2>3, <3>2
  <2> QED
    BY <2>1, <2>2, <2>4, <2>5 DEF PhaseOrdered, Feeds, Ins, Outs
<1>4. ASSUME NEW f \in FnSlots, FnRemoved(f)
      PROVE  PhaseOrdered'
  <2>1. \A g \in Used(fns)' : g \in Used(fns) /\ fns'[g] = fns[g]
    BY <1>4 DEF FnRemoved, Used, TypeOK, ZeroFn
  <2> QED
    BY <2>1 DEF PhaseOrdered, Feeds, Ins, Outs
<1> QED
  BY <1>0, <1>1, <1>2, <1>3, <1>4 DEF Effect, grid, DpCreated, DpRemoved

\* Of two live functions the one that feeds the other is in an earlier phase,
\* whichever was created first: _fn_cycle_check looks both ways.
THEOREM FeedsForward == BuildSpec => []PhaseOrdered
<1>1. BuildInit => PhaseOrdered
  BY ZeroUnused DEF BuildInit, PhaseOrdered
<1>2. TypeOK /\ PhaseOrdered /\ [BuildNext]_buildVars => PhaseOrdered'
  BY PhaseStep
<1> QED
  BY <1>1, <1>2, TypeCorrect, PTL DEF BuildSpec

\* A set of numbers, of phases for one, has a least one: the order of the
\* naturals is well-founded.
LEMMA LeastNumber == ASSUME NEW T \in SUBSET Nat, T # {}
                     PROVE  \E x \in T : \A y \in T : x <= y
<1>1. \E x \in T : \A y \in T : ~(<<y, x>> \in OpToRel(<, Nat))
  BY NatLessThanWellFounded, WFMin
<1>2. \E x \in T : \A y \in T : ~(y < x)
  BY <1>1 DEF OpToRel
<1> QED
  BY <1>2

\* Composition never closes a cycle through two functions or more.
THEOREM NeverCyclic == BuildSpec => []Acyclic
<1>1. TypeOK /\ PhaseOrdered => Acyclic
  <2> SUFFICES ASSUME TypeOK, PhaseOrdered,
                      NEW S \in SUBSET Used(fns), S # {}
               PROVE  \E f \in S : \A g \in S \ {f} : ~Feeds(g, f)
    BY DEF Acyclic
  <2>1. \A f \in S : fns[f].phase \in Nat
    BY SizesAssumption DEF TypeOK, Used, Fn, PhaseNumbers
  <2> DEFINE T == {fns[f].phase : f \in S}
  <2>2. PICK p \in T : \A q \in T : p <= q
    <3>1. T \in SUBSET Nat /\ T # {}
      BY <2>1
    <3> QED
      BY <3>1, LeastNumber
  <2>3. PICK f \in S : fns[f].phase = p
    OBVIOUS
  <2>4. \A g \in S \ {f} : ~Feeds(g, f)
    <3> SUFFICES ASSUME NEW g \in S, g # f, Feeds(g, f)
                 PROVE  FALSE
      OBVIOUS
    <3>1. fns[g].phase < fns[f].phase
      BY DEF PhaseOrdered
    <3>2. fns[f].phase <= fns[g].phase
      BY <2>2, <2>3
    <3> QED
      BY <2>1, <3>1, <3>2
  <2> QED
    BY <2>4
<1> QED
  BY <1>1, TypeCorrect, FeedsForward, PTL
=============================================================================
