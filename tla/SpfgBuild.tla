----------------------------- MODULE SpfgBuild -----------------------------
(***************************************************************************)
(* Grid composition: the calls of spfg.c and spfg_build.c that create and  *)
(* remove datapoints and functions.  One action per call, with all of its  *)
(* refusals in the order in which the code tries them.  A call with a null *)
(* pointer returns before it touches anything and is left out.             *)
(***************************************************************************)
EXTENDS SpfgIndex

\* What callers pass.
CONSTANTS
  NameArgs,       \* classes of names
  DpTypeArgs,     \* datapoint types
  FnTypeArgs,     \* function types
  CreatePhases,   \* phases
  InArgs,         \* arrays of input ids
  OutArgs         \* arrays of output ids

\* Ids are positive: a zero in the middle of an array makes the code validate
\* the type of a datapoint it never looked up.
ASSUME ArgsAssumption == /\ NameArgs \subseteq NameClasses
                         /\ DpTypeArgs \subseteq DpTypeNumbers
                         /\ FnTypeArgs \subseteq FnTypeNumbers
                         /\ CreatePhases \subseteq PhaseNumbers
                         /\ InArgs \subseteq Seq(Nat \ {0})
                         /\ OutArgs \subseteq Seq(Nat \ {0})

VARIABLES
  dps,   \* gr.dps
  fns,   \* gr.fns
  cur,   \* gr.ctl.curr_fn_idx, the number of index entries the cycle has passed
  grx,   \* the evaluation index
  ret    \* the code the last call returned

grid == <<dps, fns, cur, grx>>
buildVars == <<dps, fns, cur, grx, ret>>

-----------------------------------------------------------------------------
\* memset of the whole runtime.
Wipe == /\ dps' = ZeroDps
        /\ fns' = ZeroFns
        /\ cur' = 0
        /\ grx' = ZeroIndex

\* (Slip: only the name is cleared.)
FreedNameOnly(table, i, zero) == [table EXCEPT ![i].used = FALSE]

\* memset of one slot.
Freed(table, i, zero) == [table EXCEPT ![i] = zero]

\* The memory of a runtime that nobody has used yet.
BuildInit == /\ dps = ZeroDps
             /\ fns = ZeroFns
             /\ cur = 0
             /\ grx = ZeroIndex
             /\ ret = "NO"

\* A call that returns `code' and changes nothing.
Refuse(code) == ret' = code /\ UNCHANGED grid

-----------------------------------------------------------------------------
(* Runtime *)

\* spfg_rt_init wipes the runtime before it looks at the name.
RtInit(name) == /\ Wipe
                /\ ret' = IF NameSet(name) THEN "NO" ELSE "BAD_BLOCK_NAME"

RtFinish == Wipe /\ ret' = "NO"

-----------------------------------------------------------------------------
(* Datapoints *)

\* The block is written field by field: emitted and value keep what the slot
\* holds.  Any number passes as a type.
DpCreate(type, name) ==
  \/ NoneFree(dps) /\ Refuse("OUT_OF_SLOTS")
  \/ ~NoneFree(dps) /\ ~NameSet(name) /\ Refuse("BAD_BLOCK_NAME")
  \/ \E d \in DpSlots :
       /\ FirstFree(dps, d)
       /\ NameSet(name)
       /\ dps' = [dps EXCEPT ![d].used = TRUE, ![d].id = IdOf(d), ![d].type = type]
       /\ grx' = IndexClear(grx)
       /\ ret' = "NO"
       /\ UNCHANGED <<fns, cur>>

\* (Slip: outputs are not looked at.)
ReferencedAsInput(d) == \E f \in Used(fns) : dps[d].id \in Ins(fns[f])

\* Some live function reads or writes the datapoint in slot d: it has the id that
\* datapoint carries in one of its arrays, the zeros after their ends included.
Referenced(d) ==
  \E f \in Used(fns) :
    \/ dps[d].id \in Ins(fns[f]) \cup Outs(fns[f])
    \/ dps[d].id = 0 /\ (Len(fns[f].in) < MaxIn \/ Len(fns[f].out) < MaxOut)

DpRemove(id) ==
  \/ ~ResolveDp(dps, id) /\ Refuse("INVALID_DP_ID")
  \/ ResolveDp(dps, id) /\ Referenced(id) /\ Refuse("FN_INTEGRITY")
  \/ /\ ResolveDp(dps, id)
     /\ ~Referenced(id)
     /\ dps' = Freed(dps, id, ZeroDp)
     /\ grx' = IndexClear(grx)
     /\ ret' = "NO"
     /\ UNCHANGED <<fns, cur>>

-----------------------------------------------------------------------------
(* Functions *)

\* _fn_validate: the only type there is code for is the AND of two booleans.
\* Called on arrays whose ids all resolve.
Validate(type, in, out) ==
  /\ type = "AND_BOOL_BOOL_RET_BOOL"
  /\ Len(in) = 2 /\ Len(out) = 1
  /\ \A id \in Range(in) \cup Range(out) : dps[id].type = "BOOL"

\* (Slip: functions of the same phase are not compared.)
CycleCheckSkipsSamePhase(phase, in, out) ==
  \A f \in Used(fns) :
    /\ fns[f].phase < phase => ~Intersect(fns[f].in, out)
    /\ fns[f].phase > phase => ~Intersect(fns[f].out, in)

\* (Slip: a function created late is not compared with later phases.)
CycleCheckForwardOnly(phase, in, out) ==
  \A f \in Used(fns) : fns[f].phase <= phase => ~Intersect(fns[f].in, out)

\* _fn_cycle_check: nothing written is read by a live function of the same or
\* an earlier phase, nothing read is written by one of the same or a later
\* phase.
CycleCheck(phase, in, out) ==
  \A f \in Used(fns) :
    /\ fns[f].phase <= phase => ~Intersect(fns[f].in, out)
    /\ fns[f].phase >= phase => ~Intersect(fns[f].out, in)

\* The first check that fails, or "NO".
FnCreateCode(type, phase, in, out, name) ==
  IF Len(in) > MaxIn \/ Len(out) > MaxOut THEN "BUFFER_OVERFLOW"
  ELSE IF ~ResolveDps(dps, in) \/ ~ResolveDps(dps, out) THEN "INVALID_DP_ID"
  ELSE IF ~Validate(type, in, out) THEN "VALIDATE_FN"
  ELSE IF ~CycleCheck(phase, in, out) THEN "INVALID_FN_CYCLE"
  ELSE IF NoneFree(fns) THEN "OUT_OF_SLOTS"
  ELSE IF ~NameSet(name) THEN "BAD_BLOCK_NAME"
  ELSE "NO"

FnCreate(type, phase, in, out, name) ==
  LET code == FnCreateCode(type, phase, in, out, name)
  IN  \/ code # "NO" /\ Refuse(code)
      \/ \E f \in FnSlots :
           /\ code = "NO"
           /\ FirstFree(fns, f)
           /\ fns' = [fns EXCEPT ![f] = [used |-> TRUE, id |-> IdOf(f), type |-> type,
                                         phase |-> phase, in |-> in, out |-> out]]
           /\ grx' = IndexClear(grx)
           /\ ret' = "NO"
           /\ UNCHANGED <<dps, cur>>

FnRemove(id) ==
  \/ ~ResolveFn(fns, id) /\ Refuse("INVALID_FN_ID")
  \/ /\ ResolveFn(fns, id)
     /\ fns' = Freed(fns, id, ZeroFn)
     /\ grx' = IndexClear(grx)
     /\ ret' = "NO"
     /\ UNCHANGED <<dps, cur>>

-----------------------------------------------------------------------------
\* Ids callers pass: those of the slots and, on both sides, ones that are none.
DpIdArgs == 0..(MaxDps + 1)
FnIdArgs == 0..(MaxFns + 1)

InitCall == RtFinish \/ \E name \in NameArgs : RtInit(name)

BuildCall ==
  \/ \E type \in DpTypeArgs, name \in NameArgs : DpCreate(type, name)
  \/ \E id \in DpIdArgs : DpRemove(id)
  \/ \E type \in FnTypeArgs, phase \in CreatePhases, in \in InArgs,
        out \in OutArgs, name \in NameArgs :
       FnCreate(type, phase, in, out, name)
  \/ \E id \in FnIdArgs : FnRemove(id)

BuildNext == InitCall \/ BuildCall

BuildSpec == BuildInit /\ [][BuildNext]_buildVars

-----------------------------------------------------------------------------
(* What composition keeps true *)

\* The variables hold values of their types (spfg_types.h).
TypeOK == /\ dps \in [DpSlots -> Dp]
          /\ fns \in [FnSlots -> Fn]
          /\ cur \in Nat
          /\ grx \in Index
          /\ ret \in Codes

\* Datapoint d is live and of the type the one implemented signature asks for.
Serves(d) == d \in DpSlots /\ dps[d].used /\ dps[d].type = "BOOL"

\* A live function only refers to live datapoints, of the type its signature
\* asks for, and to as many of them as its signature asks for: whatever is
\* removed afterwards and whatever block then takes the slot
\* (spfg_dp_remove's integrity check against spfg_fn_create's validation).
Integrity == \A f \in Used(fns) :
               /\ Len(fns[f].in) = 2 /\ Len(fns[f].out) = 1
               /\ \A d \in Ins(fns[f]) \cup Outs(fns[f]) : Serves(d)

\* Function f writes a datapoint that function g reads.
Feeds(f, g) == Outs(fns[f]) \cap Ins(fns[g]) # {}

\* Of two live functions the one that writes what the other reads is in an
\* earlier phase, in whatever order they were created (_fn_cycle_check).
PhaseOrdered == \A f, g \in Used(fns) :
                  f # g /\ Feeds(f, g) => fns[f].phase < fns[g].phase

\* No set of live functions feeds itself: some member reads nothing that
\* another member writes, so an order that evaluates every function after all
\* it depends on exists (what INVALID_FN_CYCLE is for).
Acyclic == \A S \in SUBSET Used(fns) :
             S # {} => \E f \in S : \A g \in S \ {f} : ~Feeds(g, f)

\* A live block's id is its slot, and a free slot is all zeros, so a block
\* created in it, whose emitted flag, value and array tails the create calls
\* do not write, starts clean however the slot was used before.
SlotsClean == /\ \A d \in DpSlots : IF dps[d].used THEN dps[d].id = d
                                     ELSE dps[d] = ZeroDp
              /\ \A f \in FnSlots : IF fns[f].used THEN fns[f].id = f
                                     ELSE fns[f] = ZeroFn

-----------------------------------------------------------------------------
(* What a comment says of composition *)

\* spfg_build.c, _fn_cycle_check: "Forbid a dp that is already the in_dp or
\* out_dp of a function from the same phase": a function that reads what it
\* writes is a cycle within its phase.
NoSelfFeed == \A f \in Used(fns) : ~Feeds(f, f)
=============================================================================
