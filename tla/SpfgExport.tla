----------------------------- MODULE SpfgExport -----------------------------
(***************************************************************************)
(* Saving a grid and bringing it back: the calls of spfg.c and             *)
(* spfg_export.c, as bytes and as a JSON document (SpfgDocument).  Neither *)
(* form keeps the evaluation index.  Only the boolean value of a datapoint *)
(* is kept, so the types in use are those that carry one.                  *)
(***************************************************************************)
EXTENDS SpfgEval, SpfgDocument

CONSTANTS
  ForeignDocs,  \* documents that were not written by spfg_rt_export_json
  ImportBinAt,  \* "fresh": only into a runtime without an index; or "any"
  IoForms       \* the forms the client uses, "bin" and "json"

\* The blocks a table may have once documents were loaded into it: any numbers.
DpBlocks == [used: BOOLEAN, id: Int, type: DpTypeNumbers,
             emitted: BOOLEAN, value: BOOLEAN]
FnBlocks == [used: BOOLEAN, id: Int, type: FnTypeNumbers,
             phase: Int, in: Seq(Int), out: Seq(Int)]

\* The blocks that texts give: no array of ids is longer than its field (the
\* reader would refuse it), values are 0 and 1, and the only real is 0.
TextDps == {dp \in DpBlocks : dp.type = "REAL" => ~dp.value}
TextFns == {fn \in FnBlocks : /\ fn.phase \in PhaseNumbers
                                 /\ Len(fn.in) <= MaxIn /\ Len(fn.out) <= MaxOut}
ASSUME ForeignAssumption ==
  ForeignDocs \subseteq [fns: ItemsOf(TextFns), dps: ItemsOf(TextDps), cur: Int]

VARIABLE
  bin  \* the buffer last filled by spfg_rt_export_bin

exportVars == <<dps, fns, cur, grx, ret, frames, bin>>

-----------------------------------------------------------------------------
(* Binary *)

Snapshot == [dps |-> dps, fns |-> fns, cur |-> cur]

ExportBin == /\ bin' = Snapshot
             /\ ret' = "NO"
             /\ UNCHANGED <<dps, fns, cur, grx, frames>>

\* The index is left as it is.
ImportBin == /\ ImportBinAt = "fresh" => grx = ZeroIndex
             /\ dps' = bin.dps
             /\ fns' = bin.fns
             /\ cur' = bin.cur
             /\ ret' = "NO"
             /\ UNCHANGED <<grx, frames, bin>>

\* Buffers too short for a grid are turned down.
ShortBuffer == /\ \/ ret' = "BUFFER_OVERFLOW"
                  \/ ret' = "BAD_PARAM_INVALID_VALUE"
               /\ UNCHANGED <<dps, fns, cur, grx, frames, bin>>

-----------------------------------------------------------------------------
(* JSON *)

\* A live datapoint of a type that spfg.h has no number for ends the export with an
\* error.  spfg_dp_create makes one as readily as an import does.
Exportable == \A d \in Used(dps) : dps[d].type \in DpTypes
ExportJsonFails == /\ ~Exportable
                   /\ ret' = "FAIL"
                   /\ UNCHANGED <<dps, fns, cur, grx, frames, bin>>

\* A datapoint as its text gives it back.  The byte of a TRUE in a real makes the
\* least of all numbers, 4.9407E-324: the reader passes over a number with an
\* exponent (SpfgReader), and zero stays.
Written(dp) == IF dp.type = "REAL" THEN [dp EXCEPT !.value = FALSE] ELSE dp

\* The text spfg_rt_export_json writes of the grid; the grid stays as it is.
Document == [fns |-> Items(fns, PastFns),
             dps |-> Items([d \in DpSlots |-> Written(dps[d])], PastDps(fns)),
             cur |-> cur]

\* The runtime is wiped first, so what a document leaves does not depend on the
\* grid it is read into: to read a document back later is to read it back now.
ImportJson(d) ==
  LET loaded == Import(d)
  IN  /\ dps' = loaded.dps
      /\ fns' = loaded.fns
      /\ cur' = loaded.cur
      /\ grx' = ZeroIndex
      /\ ret' = IF loaded.ok THEN "NO" ELSE "FAIL"
      /\ UNCHANGED <<frames, bin>>

-----------------------------------------------------------------------------
ExportInit == /\ EvalInit
              /\ bin = Snapshot

Io == \/ "bin" \in IoForms /\ (ExportBin \/ ImportBin \/ ShortBuffer)
      \/ "json" \in IoForms /\ \/ ExportJsonFails
                               \/ Exportable /\ ImportJson(Document)
                               \/ \E d \in ForeignDocs : ImportJson(d)

ExportNext == \/ EvalNext /\ UNCHANGED bin
              \/ May("io") /\ Io

ExportSpec == ExportInit /\ [][ExportNext]_exportVars

-----------------------------------------------------------------------------
(* What saving and restoring keep true *)

\* "Ensures index sanity" (the comment in spfg_rt_run_cycle): while a cycle
\* runs on a valid index, that index lists the live functions, all of them and
\* nothing else, with the datapoints they refer to; also after a rebuild that
\* failed, on a datapoint an imported function refers to, has left entries behind
\* and the next one has filled on top of them.
IndexSane == frames # <<>> /\ grx.valid => IndexCurrent /\ IndexComplete

\* A table without gaps; and one with room for a block more.
GapFree(table) == \E n \in 0..Cardinality(DOMAIN table) : Used(table) = 1..n
Roomy(table) == GapFree(table) /\ ~NoneFree(table)

SameBlocks(table1, table2) ==
  \A i \in DOMAIN table1 : /\ table1[i].used = table2[i].used
                           /\ table1[i].used => table1[i] = table2[i]

\* A grid written and read again is the grid it was: its blocks in their slots,
\* under their ids, with their values and pending changes, and the cursor
\* (tests/test_spfg_io_json.c reimports what it has exported).
ReadsBack == LET loaded == Import(Document)
             IN  /\ loaded.ok
                 /\ SameBlocks(loaded.dps, dps)
                 /\ SameBlocks(loaded.fns, fns)
                 /\ loaded.cur = cur

\* No real has been set as if it were a boolean.
RealsZero == \A d \in Used(dps) : dps[d].type = "REAL" => ~dps[d].value

\* Of the grids that can be written it is so for those that have no gaps, fill
\* neither of their tables and hold no such real, and for no others.
RoomyReadsBack ==
  Exportable => (ReadsBack <=> Roomy(dps) /\ Roomy(fns) /\ RealsZero)

\* The text of a grid that does not fill a table is meant to be read at all, gaps or
\* not (tests/test_spfg_io_json.c: "Reimport generated output JSON string") ..
SparseLoads ==
  /\ Exportable
  /\ Cardinality(Used(dps)) < MaxDps /\ Cardinality(Used(fns)) < MaxFns
  => Import(Document).ok

\* .. and a full one without gaps, whose commas are right, to come back as it was:
\* azjson counts the items of an array "to prevent overflow", and an array of as
\* many items as there are slots overflows nothing.
Separated(items) == \A k \in DOMAIN items : items[k].comma = (k < Len(items))
FullReadsBack ==
  /\ Exportable /\ RealsZero
  /\ GapFree(dps) /\ Separated(Document.dps)
  /\ GapFree(fns) /\ Separated(Document.fns)
  => ReadsBack
=============================================================================
