----------------------------- MODULE SpfgTypes -----------------------------
(***************************************************************************)
(* The data of a grid and the helpers the other parts share: the records   *)
(* of spfg_types.h, the codes and limits of spfg.h, the lookups of         *)
(* spfg_utils.c.                                                           *)
(*                                                                         *)
(* A slot of one of the two fixed arrays is named by its position, counted *)
(* from 1, which is also the id the code gives to the block stored there   *)
(* (SPFG_DP_ID and SPFG_FN_ID add one to the array index).  `used' stands  *)
(* for "the first character of the name is not NUL", the test by which the *)
(* code tells a live block from a free one.                                *)
(*                                                                         *)
(* Here and in the other modules a definition introduced as a slip is what *)
(* the one after it would be with a plausible mistake in the code; nothing *)
(* uses it but the runs that show which property the mistake would break.  *)
(***************************************************************************)
EXTENDS Integers, Sequences, FiniteSets, Functions

CONSTANTS MaxDps,     \* SPFG_MAX_GRID_DPS, 60 in spfg.h
          MaxFns,     \* SPFG_MAX_GRID_FNS, 20 in spfg.h
          MaxIn,      \* SPFG_MAX_FN_IN_DPS, 2 in spfg.h
          MaxOut,     \* SPFG_MAX_FN_OUT_DPS, 1 in spfg.h
          PhaseHalf   \* 2^31: half of the range of the unsigned phase numbers

ASSUME SizesAssumption == /\ MaxDps \in Nat \ {0}
                          /\ MaxFns \in Nat \ {0}
                          /\ MaxIn \in Nat
                          /\ MaxOut \in Nat
                          /\ PhaseHalf \in Nat \ {0}

-----------------------------------------------------------------------------
DpSlots == 1..MaxDps
FnSlots == 1..MaxFns

\* spfg_phase_t, an unsigned integer of 32 bits.
PhaseNumbers == 0..(2 * PhaseHalf - 1)

\* The types that spfg.h has numbers for.
DpTypes == {"INT", "REAL", "BOOL"}
FnTypes == {"INVERT_BOOL_RET_BOOL", "AND_BOOL_BOOL_RET_BOOL"}

\* A type field takes any number.  "none" is zero, what a free slot holds; "wide"
\* stands for the other numbers whose lowest byte is zero, "other" for the rest.
DpTypeNumbers == DpTypes \cup {"none", "other"}
FnTypeNumbers == FnTypes \cup {"none", "wide", "other"}

\* The three classes of names that spfg_name_set tells apart.
NameClasses == {"empty", "fits", "long"}

\* The return codes of the calls that are modelled.
Codes == {"NO", "UNIMPLEMENTED", "OUT_OF_SLOTS", "BAD_BLOCK_NAME",
          "INVALID_DP_ID", "INVALID_FN_ID", "EVAL_FN_FAILURE",
          "EVAL_CB_FAILURE", "REINDEX", "VALIDATE_FN", "BUFFER_OVERFLOW",
          "FN_INTEGRITY", "INVALID_FN_CYCLE", "FAIL",
          "BAD_PARAM_INVALID_VALUE"}

\* The two records of a grid.  Of a value the model keeps the boolean, the only
\* member of the union that any call reads or writes.  The id arrays are
\* sequences: their length is in_dp_ids_len and out_dp_ids_len.
Dp == [used: BOOLEAN, id: 0..MaxDps, type: DpTypeNumbers,
       emitted: BOOLEAN, value: BOOLEAN]
Fn == [used: BOOLEAN, id: 0..MaxFns, type: FnTypes \cup {"none"},
       phase: PhaseNumbers, in: Seq(Nat), out: Seq(Nat)]

\* What memset(.., 0, ..) leaves in a slot.
ZeroDp == [used |-> FALSE, id |-> 0, type |-> "none",
           emitted |-> FALSE, value |-> FALSE]
ZeroFn == [used |-> FALSE, id |-> 0, type |-> "none",
           phase |-> 0, in |-> <<>>, out |-> <<>>]
ZeroDps == [d \in DpSlots |-> ZeroDp]
ZeroFns == [f \in FnSlots |-> ZeroFn]

\* (Slip: one is added to what is an id already.)
IdPastSlot(slot) == slot + 1

\* SPFG_DP_ID and SPFG_FN_ID: the id of the block in a slot.
IdOf(slot) == slot

\* The datapoints a function reads and the ones it writes.
Ins(fn) == Range(fn.in)
Outs(fn) == Range(fn.out)

\* The live functions of a table of functions.
Used(table) == {i \in DOMAIN table : table[i].used}

-----------------------------------------------------------------------------
\* spfg_name_set refuses an empty name and one of more than 9 characters, and
\* touches the block only when it accepts.
NameSet(name) == name = "fits"

\* The id of a live block resolves to its slot; any other id does not.
ResolveDp(dps, id) == id \in DpSlots /\ dps[id].used
ResolveFn(fns, id) == id \in FnSlots /\ fns[id].used

\* All the ids of an array resolve.
ResolveDps(dps, ids) == \A id \in Range(ids) : ResolveDp(dps, id)

\* `i' is the slot a search from the start of the array finds free.
FirstFree(table, i) == /\ ~table[i].used
                       /\ \A j \in DOMAIN table : table[j].used \/ i <= j
NoneFree(table) == \A i \in DOMAIN table : table[i].used

\* Two arrays of ids share one.
Intersect(ids1, ids2) == Range(ids1) \cap Range(ids2) # {}
=============================================================================
