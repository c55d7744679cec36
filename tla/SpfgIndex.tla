----------------------------- MODULE SpfgIndex -----------------------------
(***************************************************************************)
(* The evaluation index of spfg_index.c: an array with one entry per       *)
(* function slot that caches pointers to the function and to its           *)
(* datapoints, sorted in the order in which a cycle runs them.             *)
(*                                                                         *)
(* An entry is a record [fn, in, out]; fn is the slot of the function, or  *)
(* 0 for the null pointer of a zeroed entry, in and out are the slots of   *)
(* the datapoints it points to.                                            *)
(***************************************************************************)
EXTENDS SpfgTypes, FiniteSetsExt

Entry == [fn: 0..MaxFns, in: Seq(DpSlots), out: Seq(DpSlots)]
Index == [valid: BOOLEAN, fnx: [FnSlots -> Entry]]

ZeroEntry == [fn |-> 0, in |-> <<>>, out |-> <<>>]

ZeroIndex == [valid |-> FALSE, fnx |-> [i \in FnSlots |-> ZeroEntry]]

\* (Slip: a composition call forgets the index.)
IndexKept(grx) == grx

\* _spfg_index_clear zeroes the index, whatever it held.
IndexClear(grx) == ZeroIndex

-----------------------------------------------------------------------------
\* The int that the comparison subtracts two unsigned phases into: the
\* difference modulo 2 * PhaseHalf, read as a signed number.
PhaseCmp(p, q) ==
  IF p - q < -PhaseHalf THEN p - q + 2 * PhaseHalf
  ELSE IF p - q >= PhaseHalf THEN p - q - 2 * PhaseHalf
  ELSE p - q

\* (Slip: the phase is not compared.)
MayPrecedeById(fns, e, d) ==
  d.fn = 0 \/ (e.fn # 0 /\ fns[e.fn].id <= fns[d.fn].id)

\* fnx_cmp lets entry e stand before entry d: null entries come last, the
\* others by phase, then by id.
MayPrecede(fns, e, d) ==
  \/ d.fn = 0
  \/ /\ e.fn # 0
     /\ \/ PhaseCmp(fns[e.fn].phase, fns[d.fn].phase) < 0
        \/ /\ PhaseCmp(fns[e.fn].phase, fns[d.fn].phase) = 0
           /\ fns[e.fn].id <= fns[d.fn].id

\* qsort may leave any rearrangement of the entries in which no two neighbours
\* are out of order: one alone when the comparison is a total order.
Rearranged(fnx) ==
  {[i \in FnSlots |-> fnx[p[i]]] : p \in Bijection(FnSlots, FnSlots)}
Sorted(fns, fnx) ==
  {s \in Rearranged(fnx) :
     \A i \in FnSlots : i + 1 \in FnSlots => MayPrecede(fns, s[i], s[i + 1])}

-----------------------------------------------------------------------------
\* A function whose datapoints all resolve, and the entry it gets.
Resolves(dps, fn) == ResolveDps(dps, fn.in) /\ ResolveDps(dps, fn.out)
EntryOf(fns, i) == [fn |-> i, in |-> fns[i].in, out |-> fns[i].out]

\* The part of an array of ids before the first one that does not resolve.
ResolvedPrefix(dps, ids) ==
  LET bad == {k \in DOMAIN ids : ~ResolveDp(dps, ids[k])}
  IN  IF bad = {} THEN ids ELSE SubSeq(ids, 1, Min(bad) - 1)

\* (Slip: the loop ends at the first free slot.)
FilledToGap(fns, fnx) ==
  [i \in FnSlots |-> IF \A j \in 1..i : fns[j].used THEN EntryOf(fns, i) ELSE fnx[i]]

\* The first loop of _spfg_index_rebuild when every live function resolves:
\* free slots keep the entry they had.
Filled(fns, fnx) ==
  [i \in FnSlots |-> IF fns[i].used THEN EntryOf(fns, i) ELSE fnx[i]]

\* The same loop when it gives up on slot b, the first that does not resolve:
\* the later entries are not reached, and that one is half written (its out
\* part is not even reached when its in part fails).
FilledUpTo(dps, fns, fnx, b) ==
  [i \in FnSlots |->
     IF ~fns[i].used \/ i > b THEN fnx[i]
     ELSE IF i < b THEN EntryOf(fns, i)
     ELSE [fn |-> b,
           in |-> ResolvedPrefix(dps, fns[b].in),
           out |-> IF ResolveDps(dps, fns[b].in)
                   THEN ResolvedPrefix(dps, fns[b].out) ELSE fnx[b].out]]

\* Whether _spfg_index_rebuild succeeds, and the indices it may then leave ..
Rebuildable(dps, fns) == \A i \in Used(fns) : Resolves(dps, fns[i])
Rebuilt(fns, grx) ==
  {[valid |-> TRUE, fnx |-> s] : s \in Sorted(fns, Filled(fns, grx.fnx))}

\* (Slip: the index is marked valid before it is filled.)
HalfRebuiltValid(dps, fns, grx) ==
  LET b == Min({i \in Used(fns) : ~Resolves(dps, fns[i])})
  IN  [valid |-> TRUE, fnx |-> FilledUpTo(dps, fns, grx.fnx, b)]

\* .. and the index it leaves when it does not.
HalfRebuilt(dps, fns, grx) ==
  LET b == Min({i \in Used(fns) : ~Resolves(dps, fns[i])})
  IN  [grx EXCEPT !.fnx = FilledUpTo(dps, fns, @, b)]
=============================================================================
