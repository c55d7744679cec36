-------------------------- MODULE SpfgExportProofs --------------------------
(***************************************************************************)
(* What the index is worth when grids come and go as snapshots and         *)
(* documents; and which grids are read as they were written.               *)
(*                                                                         *)
(* Nothing is assumed of the blocks that are imported, so nothing that     *)
(* SpfgEvalProofs needs of a grid is there to rest on: a rebuild may fail  *)
(* half-way, and the next one fills on top of what it left.  What is left  *)
(* belongs to live functions only, and every call that frees a slot clears *)
(* the index; that is enough.                                              *)
(*                                                                         *)
(* The array of a table is its live blocks in slot order; that every place *)
(* of it is taken by one is counted (LivePlaces).                          *)
(***************************************************************************)
EXTENDS SpfgExport, SpfgEvalProofs, FiniteSetTheorems

\* Whatever is imported fills a table of functions.
Shaped == /\ DOMAIN fns = FnSlots /\ DOMAIN bin.fns = FnSlots

\* The index is exact, or nothing in it survives the next rebuild.
IndexSound == IF grx.valid THEN IndexCurrent /\ IndexComplete ELSE NoLeftovers

ExportInv == Shaped /\ IndexSound

-----------------------------------------------------------------------------
(* The effect of each step on the functions and the index *)

Cleared == grx' = ZeroIndex /\ DOMAIN fns' = FnSlots
Kept == UNCHANGED <<fns, grx>>
Restored == grx = ZeroIndex /\ UNCHANGED grx /\ fns' = bin.fns
Reindexed == /\ UNCHANGED fns
             /\ ~grx.valid
             /\ grx' \in Rebuilt(fns, grx) \cup {HalfRebuilt(dps, fns, grx)}
StepIndexEffect == Cleared \/ Kept \/ Restored \/ Reindexed

LEMMA BuildIndexEffect == ASSUME Shaped, InitCall \/ BuildCall
                          PROVE  Cleared \/ Kept
<1>1. CASE InitCall
  BY <1>1 DEF InitCall, RtInit, RtFinish, Wipe, ZeroFns, Cleared
<1>2. ASSUME NEW type, NEW name, DpCreate(type, name)
      PROVE  Cleared \/ Kept
  BY <1>2 DEF DpCreate, Refuse, grid, IndexClear, Shaped, Cleared, Kept
<1>3. ASSUME NEW id, DpRemove(id)
      PROVE  Cleared \/ Kept
  BY <1>3 DEF DpRemove, Refuse, grid, IndexClear, Shaped, Cleared, Kept
<1>4. ASSUME NEW type, NEW phase, NEW in, NEW out, NEW name,
             FnCreate(type, phase, in, out, name)
      PROVE  Cleared \/ Kept
  BY <1>4 DEF FnCreate, Refuse, grid, IndexClear, Shaped, Cleared, Kept
<1>5. ASSUME NEW id, FnRemove(id)
      PROVE  Cleared \/ Kept
  BY <1>5 DEF FnRemove, Freed, Refuse, grid, IndexClear, Shaped, Cleared, Kept
<1> QED
  BY <1>1, <1>2, <1>3, <1>4, <1>5 DEF BuildCall

LEMMA EvalIndexEffect == ASSUME Shaped, EvalNext
                         PROVE  Cleared \/ Kept \/ Reindexed
<1>1. CASE InitCall \/ BuildCall
  BY <1>1, BuildIndexEffect
<1>2. ASSUME NEW cb \in BOOLEAN, RunCycle(cb)
      PROVE  Kept \/ Reindexed
  BY <1>2 DEF RunCycle, Kept, Reindexed
<1>3. CASE Loop \/ CbReturn
  BY <1>3 DEF Loop, LoopEnd, Offer, RunNext, RunFn, CbReturn, CbStop, CbFail,
              CbContinue, grid, Kept
<1> QED
  BY <1>1, <1>2, <1>3 DEF EvalNext, Client, DpSetBool, ResetCycle, Kept

\* What a document leaves fills a table, whatever the document is.
LEMMA ImportShaped == ASSUME NEW d
                      PROVE  DOMAIN Import(d).fns = FnSlots
BY DEF Import, Loaded, FnSlots

LEMMA ExportIndexEffect ==
  ASSUME ImportBinAt = "fresh", Shaped, [ExportNext]_exportVars
  PROVE  StepIndexEffect /\ Shaped'
<1>1. CASE UNCHANGED exportVars
  BY <1>1 DEF exportVars, StepIndexEffect, Kept, Shaped
<1>2. CASE EvalNext /\ UNCHANGED bin
  <2>1. Cleared \/ Kept \/ Reindexed
    BY <1>2, EvalIndexEffect
  <2> QED
    BY <1>2, <2>1 DEF StepIndexEffect, Cleared, Kept, Reindexed, Shaped
<1>3. CASE ExportBin
  BY <1>3 DEF ExportBin, Snapshot, StepIndexEffect, Kept, Shaped
<1>4. CASE ImportBin
  BY <1>4 DEF ImportBin, StepIndexEffect, Restored, Shaped
<1>5. CASE ShortBuffer \/ ExportJsonFails
  BY <1>5 DEF ShortBuffer, ExportJsonFails, StepIndexEffect, Kept, Shaped
<1>6. ASSUME NEW d, ImportJson(d)
      PROVE  StepIndexEffect /\ Shaped'
  BY <1>6, ImportShaped DEF ImportJson, StepIndexEffect, Cleared, Shaped
<1> QED
  BY <1>1, <1>2, <1>3, <1>4, <1>5, <1>6 DEF ExportNext, Io

-----------------------------------------------------------------------------
(* The index *)

\* An empty index is sound over any functions.
LEMMA ClearedSound == ASSUME Cleared \/ Restored
                      PROVE  IndexSound'
BY DEF Cleared, Restored, ZeroIndex, IndexSound, NoLeftovers

\* A rebuild without leftovers gives an exact index ..
LEMMA RebuiltSound ==
  ASSUME Shaped, NoLeftovers, UNCHANGED fns, grx' \in Rebuilt(fns, grx)
  PROVE  IndexSound'
<1>1. PICK p : RebuiltFrom(p, grx')
  BY RebuiltIndex
<1> QED
  BY <1>1, RebuiltExact DEF Shaped, IndexSound, IndexCurrent, IndexComplete

\* .. and one that fails writes no entry of a free slot.
LEMMA HalfRebuiltSound ==
  ASSUME NoLeftovers, ~grx.valid, UNCHANGED fns, grx' = HalfRebuilt(dps, fns, grx)
  PROVE  IndexSound'
<1>1. PICK b : grx' = [grx EXCEPT !.fnx = FilledUpTo(dps, fns, @, b)]
  BY DEF HalfRebuilt
<1>2. grx'.valid = grx.valid
  BY <1>1
<1> QED
  BY <1>1, <1>2 DEF IndexSound, NoLeftovers, FilledUpTo

LEMMA SoundStep ==
  ASSUME ImportBinAt = "fresh", ExportInv, [ExportNext]_exportVars
  PROVE  ExportInv'
<1>1. StepIndexEffect /\ Shaped'
  BY ExportIndexEffect DEF ExportInv
<1>2. CASE Cleared \/ Restored
  BY <1>1, <1>2, ClearedSound DEF ExportInv
<1>3. CASE Kept
  BY <1>1, <1>3 DEF Kept, ExportInv, IndexSound, IndexCurrent, IndexComplete, NoLeftovers,
              Used, EntryOf
<1>4. CASE Reindexed
  BY <1>1, <1>4, RebuiltSound, HalfRebuiltSound DEF Reindexed, ExportInv, IndexSound
<1> QED
  BY <1>1, <1>2, <1>3, <1>4 DEF StepIndexEffect, ExportInv

\* A client that only restores a snapshot into a runtime without an index never
\* runs on an index of another grid, nor on the remains of a rebuild that
\* failed, whatever the snapshots and documents hold.
THEOREM IndexStaysSane ==
  ImportBinAt = "fresh" => (ExportSpec => []IndexSane)
<1> SUFFICES ASSUME ImportBinAt = "fresh"
             PROVE  ExportSpec => []IndexSane
  OBVIOUS
<1>1. ExportInit => ExportInv
  BY DEF ExportInit, EvalInit, BuildInit, Snapshot, ZeroFns, ZeroIndex, ExportInv,
         Shaped, IndexSound, NoLeftovers
<1>2. ExportInv /\ [ExportNext]_exportVars => ExportInv'
  BY SoundStep
<1>3. ExportInv => IndexSane
  BY DEF ExportInv, IndexSound, IndexSane
<1> QED
  BY <1>1, <1>2, <1>3, PTL DEF ExportSpec

-----------------------------------------------------------------------------
(* Written and read *)

\* A table of `max' blocks, as far as writing and reading are concerned.
IsTable(t, max) == DOMAIN t = 1..max /\ \A i \in 1..max : t[i].used \in BOOLEAN

\* The tables that grids, snapshots and documents may fill.
DpTables == [DpSlots -> DpBlocks]
FnTables == [FnSlots -> FnBlocks]

\* The live slots are finitely many, and those before a slot fewer the earlier it is.
LEMMA LiveSlots ==
  ASSUME NEW t, NEW max \in Nat, IsTable(t, max)
  PROVE  /\ Used(t) \subseteq 1..max
         /\ IsFiniteSet(Used(t)) /\ Cardinality(Used(t)) \in Nat
         /\ Cardinality(Used(t)) <= max
         /\ \A i \in Used(t) : Earlier(t, i) \in Nat /\ Earlier(t, i) < Cardinality(Used(t))
         /\ \A i, j \in Used(t) : i < j => Earlier(t, i) < Earlier(t, j)
<1> DEFINE U == Used(t)
<1>1. U \subseteq 1..max
  BY DEF IsTable, Used
<1>2. IsFiniteSet(1..max) /\ Cardinality(1..max) = max
  BY FS_Interval
<1>3. /\ IsFiniteSet(U) /\ Cardinality(U) \in Nat /\ Cardinality(U) <= max
  BY <1>1, <1>2, FS_Subset, FS_CardinalityType
<1>4. ASSUME NEW S \in SUBSET U, NEW T \in SUBSET S, NEW x \in S, x \notin T
      PROVE  /\ Cardinality(T) \in Nat /\ Cardinality(S) \in Nat
             /\ Cardinality(T) < Cardinality(S)
  <2>1. IsFiniteSet(S) /\ IsFiniteSet(T)
    BY <1>3, FS_Subset
  <2>2. Cardinality(T) \in Nat /\ Cardinality(S) \in Nat
    BY <2>1, FS_CardinalityType
  <2>3. Cardinality(T) <= Cardinality(S) /\ Cardinality(T) # Cardinality(S)
    BY <1>4, <2>1, FS_Subset
  <2> QED
    BY <2>2, <2>3
<1>5. \A i \in U : Earlier(t, i) \in Nat /\ Earlier(t, i) < Cardinality(U)
  <2> TAKE i \in U
  <2> DEFINE b == {x \in Used(t) : x < i}
  <2>1. b \in SUBSET U /\ i \notin b /\ Earlier(t, i) = Cardinality(b)
    BY <1>1 DEF Earlier
  <2> HIDE DEF b
  <2> QED
    BY <1>4, <2>1
<1>6. \A i, j \in U : i < j => Earlier(t, i) < Earlier(t, j)
  <2> TAKE i, j \in U
  <2> HAVE i < j
  <2> DEFINE b == {x \in Used(t) : x < i}
             c == {x \in Used(t) : x < j}
  <2>1. Earlier(t, i) = Cardinality(b) /\ Earlier(t, j) = Cardinality(c)
    BY DEF Earlier
  <2>2. b \in SUBSET c /\ c \in SUBSET U /\ i \in c /\ i \notin b
    BY <1>1
  <2> HIDE DEF b, c
  <2> QED
    BY <1>4, <2>1, <2>2
<1> QED
  BY <1>1, <1>3, <1>5, <1>6

\* Every live slot has a place of its own in the array.
LEMMA PlaceOf ==
  ASSUME NEW t, NEW max \in Nat, IsTable(t, max), NEW i \in Used(t)
  PROVE  LET k == Earlier(t, i) + 1
         IN  /\ k \in 1..Cardinality(Used(t))
             /\ Live(t, k) = i
             /\ \A past : Items(t, past)[k] = Item(t, past, i)
<1> DEFINE k == Earlier(t, i) + 1
<1>1. k \in 1..Cardinality(Used(t)) /\ Earlier(t, i) = k - 1
  BY LiveSlots
<1>2. \A j \in Used(t) : Earlier(t, j) = k - 1 => j = i
  <2> TAKE j \in Used(t)
  <2>1. i \in Nat /\ j \in Nat
    BY LiveSlots
  <2>2. /\ Earlier(t, i) \in Nat
        /\ i < j => Earlier(t, i) < Earlier(t, j)
        /\ j < i => Earlier(t, j) < Earlier(t, i)
    BY LiveSlots
  <2> QED
    BY <1>1, <2>1, <2>2
<1> HIDE DEF k
<1>3. Live(t, k) \in Used(t) /\ Earlier(t, Live(t, k)) = k - 1
  <2>1. \E j \in Used(t) : Earlier(t, j) = k - 1
    BY <1>1
  <2> QED
    BY <2>1, Zenon DEF Live
<1>4. Live(t, k) = i
  BY <1>2, <1>3
<1> QED
  BY <1>1, <1>4 DEF k, Items

\* The array of a table without gaps is the table up to its last live slot.
LEMMA GapFreeItems ==
  ASSUME NEW t, NEW past, NEW max \in Nat, IsTable(t, max), NEW n \in 0..max, Used(t) = 1..n
  PROVE  /\ Items(t, past) = [k \in 1..n |-> Item(t, past, k)]
         /\ Len(Items(t, past)) = n
<1>1. Cardinality(Used(t)) = n
  BY FS_Interval
<1>2. ASSUME NEW k \in 1..n
      PROVE  Live(t, k) = k
  <2>1. {j \in Used(t) : j < k} = 1..(k - 1)
    OBVIOUS
  <2>3. k - 1 \in Int /\ Cardinality(1..(k - 1)) = k - 1
    BY FS_Interval
  <2>2. Earlier(t, k) = k - 1
    BY <2>1, <2>3, Zenon DEF Earlier
  <2> QED
    BY <2>2, PlaceOf
<1>3. Items(t, past) = [k \in 1..n |-> Item(t, past, k)]
  BY <1>1, <1>2 DEF Items
<1> QED
  BY <1>3

\* It is read as it was written, unless it fills the table.
LEMMA RoomyLoads ==
  ASSUME NEW t, NEW past, NEW max \in Nat, IsTable(t, max), Roomy(t), NEW zero, zero.used = FALSE
  PROVE  /\ Loads(Items(t, past), max)
         /\ SameBlocks(Loaded(Items(t, past), max, zero), t)
<1>1. PICK n \in 0..max : Used(t) = 1..n
  <2>1. Cardinality(DOMAIN t) = max
    BY FS_Interval DEF IsTable
  <2> QED
    BY <2>1 DEF Roomy, GapFree
<1>2. n < max
  <2>1. n # max
    BY <1>1 DEF Roomy, NoneFree, IsTable, Used
  <2> QED
    BY <2>1
<1>3. /\ Items(t, past) = [k \in 1..n |-> Item(t, past, k)]
      /\ Len(Items(t, past)) = n
  BY <1>1, GapFreeItems
<1>4. \A k \in 1..n : Comma(t, past, k) = (k < n)
  <2> TAKE k \in 1..n
  <2>1. k + 1 \in 1..max /\ (t[k + 1].used <=> k + 1 \in 1..n) /\ t[k + 1].used \in BOOLEAN
    BY <1>1, <1>2 DEF IsTable, Used
  <2> QED
    BY <2>1 DEF Comma, IsTable
<1>5. GivesUp(Items(t, past), max) = {}
  BY <1>2, <1>3, <1>4 DEF GivesUp, Item
<1>6. Loads(Items(t, past), max)
  BY <1>5 DEF Loads
<1>7. Loaded(Items(t, past), max, zero) = [k \in 1..max |-> IF k > n THEN zero ELSE t[k]]
  BY <1>2, <1>3, <1>6 DEF Loaded, Item
<1>8. \A k \in 1..max : t[k].used \in BOOLEAN /\ (t[k].used <=> k <= n)
  BY <1>1 DEF IsTable, Used
<1> DEFINE new == Loaded(Items(t, past), max, zero)
<1>9. /\ DOMAIN new = 1..max
      /\ \A k \in 1..max : new[k] = IF k > n THEN zero ELSE t[k]
  BY <1>7
<1> HIDE DEF new
<1>10. \A k \in 1..max : new[k].used = t[k].used /\ (t[k].used => new[k] = t[k])
  <2> TAKE k \in 1..max
  <2>1. CASE k > n
    <3>1. new[k] = zero /\ t[k].used = FALSE
      BY <1>8, <1>9, <2>1
    <3> QED
      BY <3>1
  <2>2. CASE ~(k > n)
    BY <1>9, <2>2
  <2> QED
    BY <2>1, <2>2
<1>11. SameBlocks(new, t)
  BY <1>9, <1>10 DEF SameBlocks
<1> QED
  BY <1>6, <1>11 DEF new

\* A table that fills is not read to its end ..
LEMMA FullGivesUp ==
  ASSUME NEW t, NEW past, NEW max \in Nat \ {0}, IsTable(t, max), NoneFree(t)
  PROVE  ~Loads(Items(t, past), max)
<1>1. Used(t) = 1..max
  BY DEF NoneFree, IsTable, Used
<1>2. Items(t, past) = [k \in 1..max |-> Item(t, past, k)]
  BY <1>1, GapFreeItems
<1>3. max \in GivesUp(Items(t, past), max)
  BY <1>2 DEF GivesUp
<1> QED
  BY <1>3 DEF Loads

\* .. nor is one with a live slot and another further on, and a free one after the
\* first ..
LEMMA GapGivesUp ==
  ASSUME NEW t, NEW past, NEW max \in Nat, IsTable(t, max), NEW i \in Used(t), NEW j \in Used(t),
         i < j, i + 1 \notin Used(t)
  PROVE  ~Loads(Items(t, past), max)
<1> DEFINE k == Earlier(t, i) + 1
           n == Cardinality(Used(t))
<1>1. k \in 1..n /\ n \in Nat /\ Items(t, past)[k] = Item(t, past, i)
  BY PlaceOf, LiveSlots
<1>2. k < n
  BY LiveSlots
<1>3. Comma(t, past, i) = FALSE
  <2>1. i + 1 \in 1..max
    BY LiveSlots
  <2>2. i + 1 \in DOMAIN t /\ t[i + 1].used = FALSE
    BY <2>1 DEF IsTable, Used
  <2> QED
    BY <2>2 DEF Comma
<1>4. DOMAIN Items(t, past) = 1..n /\ Len(Items(t, past)) = n
  BY <1>1 DEF Items
<1> HIDE DEF k, n
<1>5. Items(t, past)[k].comma = FALSE
  BY <1>1, <1>3 DEF Item
<1>6. k \in GivesUp(Items(t, past), max)
  BY <1>1, <1>2, <1>4, <1>5 DEF GivesUp
<1> QED
  BY <1>6 DEF Loads

\* .. and one whose first slot is free, but not all of them, is read into other slots.
LEMMA ShiftedDiffers ==
  ASSUME NEW t, NEW past, NEW max \in Nat, IsTable(t, max), NEW i \in Used(t), 1 \notin Used(t),
         NEW zero, Loads(Items(t, past), max)
  PROVE  ~SameBlocks(Loaded(Items(t, past), max, zero), t)
<1> DEFINE n == Cardinality(Used(t))
           new == Loaded(Items(t, past), max, zero)
<1>1. PICK f \in Used(t) : \A j \in Used(t) : f <= j
  <2>1. Used(t) \in SUBSET Nat /\ Used(t) # {}
    BY LiveSlots
  <2> QED
    BY <2>1, LeastNumber
<1>2. Earlier(t, f) = 0
  <2>1. {j \in Used(t) : j < f} = {}
    BY <1>1, LiveSlots
  <2> QED
    BY <2>1, FS_EmptySet DEF Earlier
<1>3. n \in Nat /\ n >= 1 /\ Items(t, past)[1] = Item(t, past, f)
  BY <1>2, PlaceOf, LiveSlots
<1>4. max # 1
  BY LiveSlots
<1>5. 1 \in 1..max
  BY LiveSlots
<1>6. Len(Items(t, past)) = n
  BY <1>3 DEF Items
<1> HIDE DEF n
<1>7. DOMAIN new = 1..max /\ new[1] = t[f]
  BY <1>3, <1>4, <1>5, <1>6 DEF Loaded, Item
<1> HIDE DEF new
<1>8. t[f].used /\ t[f].used \in BOOLEAN /\ t[1].used = FALSE
  BY <1>1, <1>5, LiveSlots DEF Used, IsTable
<1> QED
  BY <1>5, <1>7, <1>8 DEF SameBlocks, new

\* So only a table without gaps and with room is read as it was written: the first
\* free slot is the end of it.
LEMMA OnlyRoomyLoads ==
  ASSUME NEW t, NEW past, NEW max \in Nat \ {0}, IsTable(t, max), NEW zero,
         Loads(Items(t, past), max), SameBlocks(Loaded(Items(t, past), max, zero), t)
  PROVE  Roomy(t)
<1>1. ~NoneFree(t)
  BY FullGivesUp
<1>2. Used(t) = {} \/ 1 \in Used(t)
  BY ShiftedDiffers
<1> DEFINE Free == {j \in 1..max + 1 : j \notin Used(t)}
<1>3. PICK h \in Free : \A j \in Free : h <= j
  <2>1. Free \in SUBSET Nat
    OBVIOUS
  <2>2. max + 1 \in Free
    BY LiveSlots
  <2> QED
    BY <2>1, <2>2, LeastNumber
<1>4. h \in 1..max + 1 /\ h \notin Used(t) /\ \A j \in 1..h - 1 : j \in Used(t)
  BY <1>3
<1>5. \A i \in Used(t) : i <= h - 1
  <2> SUFFICES ASSUME NEW i \in Used(t), i > h
               PROVE  FALSE
    BY <1>4, LiveSlots
  <2>1. h # 1
    BY <1>2, <1>4
  <2>2. h - 1 \in Used(t) /\ h - 1 < i
    BY <1>4, <2>1, LiveSlots
  <2>3. (h - 1) + 1 \notin Used(t)
    BY <1>4
  <2> QED
    BY <2>2, <2>3, GapGivesUp
<1>6. Used(t) = 1..h - 1 /\ h - 1 \in 0..max
  <2>1. \A i \in Used(t) : i \in 1..h - 1
    BY <1>5, LiveSlots
  <2>2. 1..h - 1 \subseteq Used(t)
    BY <1>4
  <2>3. Used(t) = 1..h - 1
    BY <2>1, <2>2, Zenon
  <2>4. h - 1 \in 0..max
    BY <1>4, Z3
  <2> QED
    BY <2>3, <2>4
<1>7. GapFree(t)
  <2>1. Cardinality(DOMAIN t) = max
    BY FS_Interval DEF IsTable
  <2> QED
    BY <1>6, <2>1 DEF GapFree
<1> QED
  BY <1>1, <1>7 DEF Roomy

-----------------------------------------------------------------------------
(* Tables stay tables *)

\* The grid and the snapshot are tables of blocks, whoever wrote them.
TablesOK == /\ dps \in DpTables /\ fns \in FnTables
            /\ bin.dps \in DpTables /\ bin.fns \in FnTables

LEMMA TablesAre ==
  TablesOK => IsTable(dps, MaxDps) /\ IsTable(fns, MaxFns)
BY DEF TablesOK, DpTables, FnTables, DpBlocks, FnBlocks, IsTable, DpSlots, FnSlots

LEMMA ZeroTables ==
  /\ ZeroDp \in DpBlocks /\ ZeroFn \in FnBlocks
  /\ ZeroDps \in DpTables /\ ZeroFns \in FnTables
<1>1. ZeroDp \in DpBlocks
  BY DEF ZeroDp, DpBlocks, DpTypeNumbers
<1>2. ZeroFn \in FnBlocks
  <2>1. <<>> \in Seq(Int)
    OBVIOUS
  <2> QED
    BY <2>1 DEF ZeroFn, FnBlocks, FnTypeNumbers
<1> QED
  BY <1>1, <1>2 DEF DpTables, FnTables, ZeroDps, ZeroFns

\* A call of the composition interface leaves tables.
LEMMA BuildTables ==
  ASSUME dps \in DpTables, fns \in FnTables, InitCall \/ BuildCall
  PROVE  dps' \in DpTables /\ fns' \in FnTables
<1>1. CASE InitCall
  BY <1>1, ZeroTables DEF InitCall, RtInit, RtFinish, Wipe
<1>2. ASSUME NEW type \in DpTypeArgs, NEW name, DpCreate(type, name)
      PROVE  dps' \in DpTables /\ fns' \in FnTables
  <2>1. CASE UNCHANGED <<dps, fns>>
    BY <2>1
  <2>2. ASSUME NEW d \in DpSlots,
               dps' = [dps EXCEPT ![d].used = TRUE, ![d].id = IdOf(d), ![d].type = type]
        PROVE  dps' \in DpTables
    <3> DEFINE dp == [dps[d] EXCEPT !.used = TRUE, !.id = IdOf(d), !.type = type]
    <3>1. dps[d] \in DpBlocks
      BY DEF DpTables
    <3>2. IdOf(d) \in Int /\ type \in DpTypeNumbers
      BY ArgsAssumption, SizesAssumption DEF IdOf, DpSlots
    <3>3. dp \in DpBlocks
      BY <3>1, <3>2 DEF DpBlocks
    <3>4. dps' = [dps EXCEPT ![d] = dp]
      BY <2>2 DEF DpTables
    <3> HIDE DEF dp
    <3> QED
      BY <3>3, <3>4 DEF DpTables
  <2> QED
    BY <1>2, <2>1, <2>2 DEF DpCreate, Refuse, grid
<1>3. ASSUME NEW id, DpRemove(id)
      PROVE  dps' \in DpTables /\ fns' \in FnTables
  BY <1>3, ZeroTables DEF DpRemove, Refuse, grid, Freed, DpTables
<1>4. ASSUME NEW type \in FnTypeArgs, NEW phase \in CreatePhases, NEW in \in InArgs,
             NEW out \in OutArgs, NEW name, FnCreate(type, phase, in, out, name)
      PROVE  dps' \in DpTables /\ fns' \in FnTables
  <2>1. CASE UNCHANGED <<dps, fns>>
    BY <2>1
  <2>2. ASSUME NEW f \in FnSlots, UNCHANGED dps,
               fns' = [fns EXCEPT ![f] = [used |-> TRUE, id |-> IdOf(f), type |-> type,
                                          phase |-> phase, in |-> in, out |-> out]]
        PROVE  fns' \in FnTables
    <3> DEFINE fn == [used |-> TRUE, id |-> IdOf(f), type |-> type,
                      phase |-> phase, in |-> in, out |-> out]
    <3>1. IdOf(f) \in Int /\ type \in FnTypeNumbers /\ phase \in Int
      BY ArgsAssumption, SizesAssumption DEF IdOf, FnSlots, PhaseNumbers
    <3>2. in \in Seq(Int) /\ out \in Seq(Int)
      <4>1. Seq(Nat \ {0}) \subseteq Seq(Int)
        OBVIOUS
      <4> QED
        BY <4>1, ArgsAssumption
    <3>3. fn \in FnBlocks
      BY <3>1, <3>2 DEF FnBlocks
    <3> HIDE DEF fn
    <3>4. fns' = [fns EXCEPT ![f] = fn]
      BY <2>2 DEF fn
    <3> QED
      BY <3>3, <3>4 DEF FnTables
  <2> QED
    BY <1>4, <2>1, <2>2 DEF FnCreate, Refuse, grid
<1>5. ASSUME NEW id, FnRemove(id)
      PROVE  dps' \in DpTables /\ fns' \in FnTables
  BY <1>5, ZeroTables DEF FnRemove, Refuse, grid, Freed, FnTables
<1> QED
  BY <1>1, <1>2, <1>3, <1>4, <1>5 DEF BuildCall

\* So does a write of a value, wherever it goes, and clearing what is pending.
LEMMA BoolSetTable ==
  ASSUME NEW t \in DpTables, NEW d, NEW v \in BOOLEAN
  PROVE  BoolSet(t, d, v) \in DpTables
<1>1. CASE d \in DpSlots
  <2> DEFINE dp == [t[d] EXCEPT !.emitted = (t[d].value # v), !.value = v]
  <2>1. BoolSet(t, d, v) = [t EXCEPT ![d] = dp]
    BY <1>1 DEF BoolSet, DpTables
  <2>2. t[d] \in DpBlocks
    BY <1>1 DEF DpTables
  <2>3. dp \in DpBlocks
    BY <2>2 DEF DpBlocks
  <2> HIDE DEF dp
  <2> QED
    BY <2>1, <2>3 DEF DpTables
<1>2. CASE d \notin DpSlots
  <2>1. BoolSet(t, d, v) = t
    BY <1>2 DEF BoolSet, DpTables
  <2> QED
    BY <2>1
<1> QED
  BY <1>1, <1>2

LEMMA AfterRunTable ==
  ASSUME dps \in DpTables, NEW e
  PROVE  AfterRun(e) \in DpTables
<1> DEFINE t == Evaluated(e)
<1>1. t \in DpTables
  BY BoolSetTable DEF Evaluated
<1> HIDE DEF t
<1>2. ChangesCleared(t, e) \in DpTables
  <2>1. ASSUME NEW d \in DpSlots
        PROVE  [t[d] EXCEPT !.emitted = FALSE] \in DpBlocks /\ t[d] \in DpBlocks
    BY <1>1 DEF DpTables, DpBlocks
  <2> QED
    BY <2>1 DEF ChangesCleared, DpTables
<1> QED
  BY <1>2 DEF AfterRun, t

LEMMA EvalTables ==
  ASSUME dps \in DpTables, fns \in FnTables, EvalNext
  PROVE  dps' \in DpTables /\ fns' \in FnTables
<1>1. CASE InitCall \/ BuildCall
  BY <1>1, BuildTables
<1>2. ASSUME NEW id, NEW v \in BOOLEAN, DpSetBool(id, v)
      PROVE  dps' \in DpTables /\ fns' \in FnTables
  BY <1>2, BoolSetTable DEF DpSetBool
<1>3. CASE Loop \/ CbReturn
  BY <1>3, AfterRunTable DEF Loop, LoopEnd, Offer, RunNext, RunFn, CbReturn, CbStop, CbFail,
              CbContinue, grid
<1> QED
  BY <1>1, <1>2, <1>3 DEF EvalNext, Client, RunCycle, ResetCycle

\* There is a live slot for every place in the array ..
LEMMA LivePlaces ==
  ASSUME NEW t, NEW max \in Nat, IsTable(t, max), NEW k \in 1..Cardinality(Used(t))
  PROVE  Live(t, k) \in Used(t)
<1> DEFINE U == Used(t)
           n == Cardinality(U)
           place == [i \in U |-> Earlier(t, i) + 1]
<1>1. IsFiniteSet(1..n) /\ Cardinality(1..n) = n
  BY LiveSlots, FS_Interval
<1>2. place \in [U -> 1..n]
  BY PlaceOf
<1>3. \A i, j \in U : place[i] = place[j] => i = j
  BY PlaceOf
<1>4. place \in Injection(U, 1..n)
  BY <1>2, <1>3 DEF Injection, IsInjective
<1>5. place \in Surjection(U, 1..n)
  BY <1>1, <1>4, FS_Injection
<1>6. PICK i \in U : place[i] = k
  BY <1>5 DEF Surjection
<1>7. Live(t, k) = i
  BY <1>6, PlaceOf
<1> QED
  BY <1>7

\* .. so the array of a table is one of blocks of that table.
LEMMA ItemsOfTable ==
  ASSUME NEW max \in Nat, NEW B, NEW t \in [1..max -> B], NEW past \in BOOLEAN, IsTable(t, max)
  PROVE  Items(t, past) \in ItemsOf(B)
<1> DEFINE n == Cardinality(Used(t))
<1>1. n \in Nat
  BY LiveSlots
<1>2. ASSUME NEW k \in 1..n
      PROVE  Item(t, past, Live(t, k)) \in [block: B, comma: BOOLEAN]
  <2>1. t[Live(t, k)] \in B
    BY LivePlaces, LiveSlots
  <2>2. \A i : Comma(t, past, i) \in BOOLEAN
    BY DEF Comma, IsTable
  <2> QED
    BY <2>1, <2>2 DEF Item
<1> HIDE DEF n
<1>3. Items(t, past) = [k \in 1..n |-> Item(t, past, Live(t, k))]
  BY DEF Items, n
<1> QED
  BY <1>1, <1>2, <1>3 DEF ItemsOf

\* An array of some blocks is one of more of them.
LEMMA ItemsWiden == ASSUME NEW B, NEW A \in SUBSET B
                    PROVE  ItemsOf(A) \subseteq ItemsOf(B)
<1> DEFINE S == [block: A, comma: BOOLEAN]
           T == [block: B, comma: BOOLEAN]
<1>1. S \subseteq T
  OBVIOUS
<1>2. ItemsOf(A) = Seq(S) /\ ItemsOf(B) = Seq(T)
  BY DEF ItemsOf
<1> HIDE DEF S, T
<1>3. Seq(S) \subseteq Seq(T)
  BY <1>1
<1> QED
  BY <1>2, <1>3

\* Whatever an array of blocks holds, what loading it leaves is a table.
LEMMA LoadedTable ==
  ASSUME NEW max \in Nat, NEW B, NEW items \in ItemsOf(B), NEW zero \in B,
         \A b \in B : [zero EXCEPT !.id = b.id] \in B
  PROVE  Loaded(items, max, zero) \in [1..max -> B]
<1> DEFINE last == IF Loads(items, max) THEN Len(items) ELSE Min(GivesUp(items, max))
<1>1. /\ Len(items) \in Nat /\ DOMAIN items = 1..Len(items)
      /\ \A k \in 1..Len(items) : items[k].block \in B
  <2> DEFINE S == [block: B, comma: BOOLEAN]
  <2>1. items \in Seq(S)
    BY DEF ItemsOf
  <2>2. ASSUME NEW k \in 1..Len(items)
        PROVE  items[k].block \in B
    <3>1. items[k] \in S
      <4> HIDE DEF S
      <4> QED
        BY <2>1
    <3> QED
      BY <3>1
  <2> QED
    BY <2>1, <2>2
<1>2. last \in 0..Len(items)
  <2>1. CASE Loads(items, max)
    BY <1>1, <2>1
  <2>2. CASE ~Loads(items, max)
    <3> DEFINE G == GivesUp(items, max)
    <3>1. G \in SUBSET Nat /\ G # {} /\ G \subseteq 1..Len(items)
      BY <1>1, <2>2 DEF Loads, GivesUp
    <3> HIDE DEF G
    <3>2. \E x \in G : \A y \in G : x <= y
      BY <3>1, LeastNumber
    <3>3. Min(G) \in G
      BY <3>2 DEF Min
    <3> QED
      BY <1>1, <2>2, <3>1, <3>3 DEF G
  <2> QED
    BY <2>1, <2>2
<1>3. Loaded(items, max, zero)
        = [k \in 1..max |-> IF k > last THEN zero
                            ELSE IF k = max THEN [zero EXCEPT !.id = items[k].block.id]
                            ELSE items[k].block]
  BY DEF Loaded
<1> HIDE DEF last
<1>4. ASSUME NEW k \in 1..max
      PROVE  (IF k > last THEN zero
              ELSE IF k = max THEN [zero EXCEPT !.id = items[k].block.id]
              ELSE items[k].block) \in B
  <2>1. k > last \/ k \in 1..Len(items)
    BY <1>1, <1>2
  <2> QED
    BY <1>1, <2>1
<1> QED
  BY <1>3, <1>4

\* Of the last item of a full array only the id is stored, which makes a block too.
LEMMA ImportTables ==
  ASSUME NEW d, d.dps \in ItemsOf(DpBlocks), d.fns \in ItemsOf(FnBlocks)
  PROVE  Import(d).dps \in DpTables /\ Import(d).fns \in FnTables
<1>1. \A b \in DpBlocks : [ZeroDp EXCEPT !.id = b.id] \in DpBlocks
  BY ZeroTables DEF DpBlocks
<1>2. \A b \in FnBlocks : [ZeroFn EXCEPT !.id = b.id] \in FnBlocks
  BY ZeroTables DEF FnBlocks
<1>3. /\ Loaded(d.dps, MaxDps, ZeroDp) \in DpTables
      /\ Loaded(d.fns, MaxFns, ZeroFn) \in FnTables
  BY <1>1, <1>2, LoadedTable, ZeroTables, SizesAssumption
     DEF DpTables, FnTables, DpSlots, FnSlots
<1> QED
  BY <1>3, ZeroTables DEF Import

WrittenDps == [d \in DpSlots |-> Written(dps[d])]

\* What is written of the datapoints is a table with the same live slots; its reals
\* are zero.
LEMMA WrittenTable ==
  ASSUME dps \in DpTables
  PROVE  /\ WrittenDps \in [DpSlots -> TextDps] /\ WrittenDps \in DpTables
         /\ IsTable(WrittenDps, MaxDps)
         /\ \A d \in DpSlots : WrittenDps[d].used = dps[d].used
         /\ Used(WrittenDps) = Used(dps)
         /\ Roomy(WrittenDps) <=> Roomy(dps)
<1>1. ASSUME NEW dp \in DpBlocks
      PROVE  Written(dp) \in TextDps /\ Written(dp) \in DpBlocks /\ Written(dp).used = dp.used
  BY <1>1 DEF Written, TextDps, DpBlocks
<1>2. \A d \in DpSlots : dps[d] \in DpBlocks
  BY DEF DpTables
<1>3. /\ WrittenDps \in [DpSlots -> TextDps] /\ WrittenDps \in DpTables
      /\ \A d \in DpSlots : WrittenDps[d].used = dps[d].used
  BY <1>1, <1>2 DEF WrittenDps, DpTables
<1>4. \A d \in DpSlots : WrittenDps[d].used \in BOOLEAN
  BY <1>3 DEF DpTables, DpBlocks
<1>5. DOMAIN WrittenDps = DpSlots /\ DOMAIN dps = DpSlots
  BY <1>3 DEF DpTables
<1>6. Used(WrittenDps) = Used(dps)
  BY <1>3, <1>5 DEF Used
<1>7. Roomy(WrittenDps) <=> Roomy(dps)
  BY <1>3, <1>5, <1>6 DEF Roomy, GapFree, NoneFree
<1> QED
  BY <1>3, <1>4, <1>5, <1>6, <1>7 DEF IsTable, DpSlots

\* Where no real is set as a boolean the datapoints are written as they are.
LEMMA WrittenSame ==
  ASSUME NEW dp \in TextDps
  PROVE  Written(dp) = dp
BY DEF Written, TextDps, DpBlocks

\* What is loaded has no other reals either: it is what was saved just when it is what
\* was written and no real was lost.
LEMMA LoadedSame ==
  ASSUME dps \in DpTables, NEW new \in [DpSlots -> TextDps]
  PROVE  SameBlocks(new, dps) <=> SameBlocks(new, WrittenDps) /\ RealsZero
<1>1. DOMAIN new = DpSlots /\ DOMAIN dps = DpSlots
  BY DEF DpTables
<1>2. \A d \in DpSlots : WrittenDps[d] = Written(dps[d]) /\ WrittenDps[d].used = dps[d].used
  BY WrittenTable DEF WrittenDps
<1>3. ASSUME SameBlocks(new, dps)
      PROVE  SameBlocks(new, WrittenDps) /\ RealsZero
  <2>1. ASSUME NEW d \in DpSlots, dps[d].used
        PROVE  dps[d] \in TextDps /\ new[d] = dps[d]
    BY <1>1, <1>3, <2>1 DEF SameBlocks
  <2>2. SameBlocks(new, WrittenDps)
    BY <1>1, <1>2, <1>3, <2>1, WrittenSame DEF SameBlocks
  <2>3. RealsZero
    BY <1>1, <2>1 DEF RealsZero, Used, TextDps
  <2> QED
    BY <2>2, <2>3
<1>4. ASSUME SameBlocks(new, WrittenDps), RealsZero
      PROVE  SameBlocks(new, dps)
  <2>1. ASSUME NEW d \in DpSlots, dps[d].used
        PROVE  WrittenDps[d] = dps[d]
    <3>1. dps[d] \in TextDps
      BY <1>1, <1>4, <2>1 DEF RealsZero, Used, TextDps, DpTables
    <3> QED
      BY <1>2, <3>1, WrittenSame
  <2> QED
    BY <1>1, <1>2, <1>4, <2>1 DEF SameBlocks
<1> QED
  BY <1>3, <1>4

LEMMA TablesStep ==
  ASSUME TablesOK, [ExportNext]_exportVars
  PROVE  TablesOK'
<1>1. CASE UNCHANGED exportVars
  BY <1>1 DEF exportVars, TablesOK
<1>2. CASE EvalNext /\ UNCHANGED bin
  BY <1>2, EvalTables DEF TablesOK
<1>3. CASE ExportBin
  BY <1>3 DEF ExportBin, Snapshot, TablesOK
<1>4. CASE ImportBin
  BY <1>4 DEF ImportBin, TablesOK
<1>5. CASE ShortBuffer
  BY <1>5 DEF ShortBuffer, TablesOK
<1>6. CASE ExportJsonFails
  BY <1>6 DEF ExportJsonFails, TablesOK
<1>7. ASSUME NEW d \in ForeignDocs \cup {Document}, ImportJson(d)
      PROVE  TablesOK'
  <2>1. d.dps \in ItemsOf(DpBlocks) /\ d.fns \in ItemsOf(FnBlocks)
    <3>1. CASE d \in ForeignDocs
      <4>1. d.dps \in ItemsOf(TextDps) /\ d.fns \in ItemsOf(TextFns)
        BY <3>1, ForeignAssumption
      <4>2. ItemsOf(TextDps) \subseteq ItemsOf(DpBlocks) /\ ItemsOf(TextFns) \subseteq ItemsOf(FnBlocks)
        BY ItemsWiden DEF TextDps, TextFns
      <4> QED
        BY <4>1, <4>2
    <3>2. CASE d = Document
      <4>1. Items(WrittenDps, PastDps(fns)) \in ItemsOf(DpBlocks)
        BY WrittenTable, ItemsOfTable, SizesAssumption DEF TablesOK, DpTables, DpSlots, PastDps
      <4>2. Items(fns, PastFns) \in ItemsOf(FnBlocks)
        BY TablesAre, ItemsOfTable, SizesAssumption DEF TablesOK, FnTables, FnSlots, PastFns
      <4> QED
        BY <3>2, <4>1, <4>2 DEF Document, WrittenDps
    <3> QED
      BY <3>1, <3>2
  <2> QED
    BY <1>7, <2>1, ImportTables DEF ImportJson, TablesOK
<1> QED
  BY <1>1, <1>2, <1>3, <1>4, <1>5, <1>6, <1>7 DEF ExportNext, Io

-----------------------------------------------------------------------------
(* The grid, written and read *)

\* What stands past a table makes no difference: it is only looked at where the table
\* is full.
LEMMA RoomyJustWhen ==
  ASSUME TablesOK
  PROVE  RoomyReadsBack
<1> DEFINE d == Items(WrittenDps, PastDps(fns))
           f == Items(fns, PastFns)
           newDps == Loaded(d, MaxDps, ZeroDp)
           newFns == Loaded(f, MaxFns, ZeroFn)
<1>1. /\ MaxDps \in Nat \ {0} /\ MaxFns \in Nat \ {0}
      /\ ZeroFn.used = FALSE /\ ZeroDp.used = FALSE
      /\ IsTable(fns, MaxFns) /\ IsTable(WrittenDps, MaxDps)
      /\ Roomy(WrittenDps) <=> Roomy(dps)
  BY SizesAssumption, TablesAre, WrittenTable DEF ZeroDp, ZeroFn, TablesOK
<1>2. /\ Roomy(dps) <=> Loads(d, MaxDps) /\ SameBlocks(newDps, WrittenDps)
      /\ Roomy(fns) <=> Loads(f, MaxFns) /\ SameBlocks(newFns, fns)
  BY <1>1, RoomyLoads, OnlyRoomyLoads
<1>3. newDps \in [DpSlots -> TextDps]
  <2>1. d \in ItemsOf(TextDps)
    <3>1. PastDps(fns) \in BOOLEAN
      BY DEF PastDps
    <3> QED
      BY <1>1, <3>1, WrittenTable, ItemsOfTable DEF TablesOK, DpSlots
  <2>2. ZeroDp \in TextDps /\ \A b \in TextDps : [ZeroDp EXCEPT !.id = b.id] \in TextDps
    BY ZeroTables DEF TextDps, DpBlocks, ZeroDp
  <2> HIDE DEF d
  <2> QED
    BY <1>1, <2>1, <2>2, LoadedTable DEF DpSlots
<1> HIDE DEF d, f, newDps, newFns
<1>4. SameBlocks(newDps, dps) <=> SameBlocks(newDps, WrittenDps) /\ RealsZero
  BY <1>3, LoadedSame DEF TablesOK
<1> DEFINE new == Import(Document)
<1>5. /\ new.ok <=> Loads(f, MaxFns) /\ Loads(d, MaxDps)
      /\ new.fns = newFns
      /\ new.ok => new.dps = newDps /\ new.cur = cur
  BY DEF Import, Document, WrittenDps, d, f, newDps, newFns
<1> HIDE DEF new
<1> QED
  BY <1>2, <1>4, <1>5 DEF RoomyReadsBack, ReadsBack, new

\* Whatever was composed, run, restored and imported before, a grid whose types can
\* all be written is read from its text as it was just when its tables have no gaps
\* and are not full, and no real in it was set as a boolean.
THEOREM ReadBackJustWhenRoomy == ExportSpec => []RoomyReadsBack
<1>1. ExportInit => TablesOK
  BY ZeroTables DEF ExportInit, EvalInit, BuildInit, Snapshot, TablesOK
<1>2. TablesOK /\ [ExportNext]_exportVars => TablesOK'
  BY TablesStep
<1>3. TablesOK => RoomyReadsBack
  BY RoomyJustWhen
<1> QED
  BY <1>1, <1>2, <1>3, PTL DEF ExportSpec
=============================================================================
