---------------------------- MODULE SpfgDocument ----------------------------
(***************************************************************************)
(* A saved grid as a JSON document, block by block: what                   *)
(* spfg_rt_export_json makes of the tables of a grid and what loading such *)
(* a document leaves in them.  SpfgReader shows that the reader of         *)
(* azjson.c, letter by letter, comes to the same.                          *)
(*                                                                         *)
(* A document has three parts: the array of functions, the array of        *)
(* datapoints and the cursor.  An item of an array is a block and whether  *)
(* the text has a comma after it.                                          *)
(***************************************************************************)
EXTENDS SpfgTypes, SequencesExt

-----------------------------------------------------------------------------
(* Written *)

\* An array of blocks, with whether a comma follows each.
ItemsOf(blocks) == Seq([block: blocks, comma: BOOLEAN])

\* What is read as the first character of the name one slot past each table, in the
\* layout of spfg_types.h on a little-endian machine: past the functions padding,
\* which is zero; past the datapoints the lowest byte of the type of the first
\* function.
PastFns == FALSE
PastDps(fns) == fns[1].type \notin {"none", "wide"}

\* (Slip: a comma after every block.)
CommaAfterEach(table, past, i) == TRUE

\* The live blocks in slot order; a comma follows one when the next slot is live
\* too.  The bound the code puts on that look is no bound: from the last slot it
\* goes past the table.
Comma(table, past, i) == IF i + 1 \in DOMAIN table THEN table[i + 1].used ELSE past
Earlier(table, i) == Cardinality({j \in Used(table) : j < i})
Live(table, k) == CHOOSE i \in Used(table) : Earlier(table, i) = k - 1
Item(table, past, i) == [block |-> table[i], comma |-> Comma(table, past, i)]
Items(table, past) ==
  [k \in 1..Cardinality(Used(table)) |-> Item(table, past, Live(table, k))]

-----------------------------------------------------------------------------
(* Read *)

\* The items at which loading an array gives up: a comma is missing before the
\* next one or follows the last, or there is no room for another one, and the
\* second key of the item is counted as one item too many.
GivesUp(items, max) ==
  {k \in DOMAIN items : k = max \/ items[k].comma # (k < Len(items))}
Loads(items, max) == GivesUp(items, max) = {}

\* Item k takes slot k, whatever its id says.  Of the last item there is room
\* for only the first key, the id, is stored.
Loaded(items, max, zero) ==
  LET last == IF Loads(items, max) THEN Len(items) ELSE Min(GivesUp(items, max))
  IN  [k \in 1..max |->
         IF k > last THEN zero
         ELSE IF k = max THEN [zero EXCEPT !.id = items[k].block.id]
         ELSE items[k].block]

\* The grid and the verdict loading leaves: the functions come first, then the
\* datapoints, then the cursor.  Nothing is undone.
Import(d) ==
  LET fnsOk == Loads(d.fns, MaxFns)
      ok    == fnsOk /\ Loads(d.dps, MaxDps)
  IN  [ok  |-> ok,
       fns |-> Loaded(d.fns, MaxFns, ZeroFn),
       dps |-> IF fnsOk THEN Loaded(d.dps, MaxDps, ZeroDp) ELSE ZeroDps,
       cur |-> IF ok THEN d.cur ELSE 0]
=============================================================================
