# Verification of spfg

`spfg` (single precision function graph) is a small C library. A *grid* holds
*datapoints* (typed values) and *functions* that read up to two datapoints and
write one. The client composes a grid, sets datapoints, resets the *cycle* and
runs it: the library sorts the functions by phase and id into an *evaluation
index* and runs those whose inputs changed, calling the client back before each.
A grid can be saved and restored as bytes or as JSON.

This directory holds TLA+ models of the library, configurations that check them
with TLC on small instances, and theorems about them whose proofs TLAPS checks
for every size of the arrays. Paths below are relative to `src/`.

## Inventory

| Part | Source | State it keeps | Operations |
|---|---|---|---|
| Data model, lookups | `include/spfg/spfg.h`, `src/spfg_types.h`, `src/spfg_utils.[ch]` | two fixed arrays of blocks; a block is live when the first character of its name is not NUL | name set, id to slot, free slot search, sharing test |
| Composition | `src/spfg_build.c`, `src/spfg.c` | the blocks | init, finish, create and remove a datapoint or function |
| Evaluation index | `src/spfg_index.c` | a validity flag and one entry per function slot: pointers to a function and its datapoints | clear, rebuild (fill, then `qsort`) |
| Evaluation | `src/spfg_eval.c` | the cursor of the cycle (`curr_fn_idx`), the `emitted` flag of every datapoint | set, reset, run with a callback |
| Import and export | `src/spfg_export.c` | a caller's buffer | export/import as bytes and as JSON |
| JSON reader | `lib/azjson` | the parser's automaton and stack of modes, the trail of open containers and the last key, the loader's stack of specifications and addresses | feed it one character, finish; used by the import only |
| Inspection | `src/spfg.c` | none | sizes, version |
| JavaScript binding | `contrib/binding-js` | allocations, a pool of ten function pointers | forwards calls |
| Python binding | `contrib/binding-py` | the runtime buffer | forwards calls |
| Elm binding, example | `contrib/binding-elm` | the page's model | feed, reset, run |

The library is sequential and keeps everything in one runtime the caller owns.
What can interleave is the loop of `spfg_rt_run_cycle` with the calls its
callback makes on the same runtime, a further `spfg_rt_run_cycle` included, and
the calls of a client between a stopped run and the run that resumes it.

What is hard here, and what makes each part correct:

* **Composition.** Functions may be created in any order and phase, so the cycle
  check has to look both ways; a datapoint in use must not be removed, nor its
  slot be taken by one of another type; create calls write blocks field by
  field, so removal has to leave nothing behind. Correct when references are
  whole, writes feed forward, no cycle exists and slots are clean.
* **Index.** It caches pointers across calls. Correct when it is never stale,
  also in the hands of a loop that a callback has suspended; complete; ordered.
* **Evaluation.** `emitted` says whether the *last write* changed a value and
  serves as "someone has yet to consume this"; the cursor is a position, not a
  function. Correct when a cycle that ends has consumed everything, when what
  it computes is the dataflow the graph defines, and when it ends.
* **Import and export.** The form read back must be the grid written; the index
  is not part of either form and must not survive the grid it was built of.
* **JSON reader.** Three stacks, each moved by rules of its own, have to agree on
  where in the document a character is; the last of them holds the address a
  value is copied to. Correct when nothing is copied without an address, when a
  text that was cut is refused, and when a saved grid is read as it was meant.

`PROJECT.json` lists each hazard at its line with the properties that watch it.

## Modules

| Module | Models | Builds on |
|---|---|---|
| `SpfgTypes` | records, codes, limits, helpers | |
| `SpfgIndex` | the index as pure operators: `IndexClear`, `Filled`, `Sorted`, `Rebuilt`, `HalfRebuilt` | `SpfgTypes` |
| `SpfgBuild` | composition: one action per call, all refusals in the order of the code | `SpfgIndex` |
| `SpfgEval` | evaluation: `DpSetBool`, `ResetCycle`, `RunCycle`, the steps of its loop, the three ways a callback returns; a client that makes any call it may | `SpfgBuild` |
| `SpfgCycle` | a cycle through stops, failures and resumed runs, with a history variable for what the client does to it meanwhile | `SpfgEval` |
| `SpfgDataflow` | abstract specification: an acyclic network of ANDs whose outputs are recomputed, each after those it depends on | |
| `SpfgTick` | a client that composes a grid to the README's rules, then feeds, resets and runs for ever; refines `SpfgDataflow` | `SpfgEval` |
| `SpfgDocument` | a saved grid as a JSON document, block by block: what is written, what reading it leaves | `SpfgTypes` |
| `SpfgExport` | the calls that save and restore, in both forms, with the rest of the library around them | `SpfgEval`, `SpfgDocument` |
| `SpfgReader` | the text of a document and the reader of azjson, letter by letter; comes to what `SpfgDocument` says | `SpfgDocument` |
| `SpfgBuildProofs` | theorems about composition | `SpfgBuild` |
| `SpfgEvalProofs` | theorems about evaluation; lemmas about one pass over the index | `SpfgEval`, `SpfgBuildProofs` |
| `SpfgCycleProofs` | theorems about cycles | `SpfgCycle`, `SpfgEvalProofs` |
| `SpfgTickProofs` | theorems about the disciplined client, the refinement of `SpfgDataflow` among them | `SpfgTick`, `SpfgEvalProofs` |
| `SpfgExportProofs` | theorems about imported grids | `SpfgExport`, `SpfgEvalProofs` |
| `SpfgReaderProofs` | theorems about the reader's stacks | `SpfgReader` |
| `SpfgBlockProofs` | lemmas: what the text of a key, a value, a member and a block does to the reader | `SpfgReaderProofs` |
| `SpfgImportProofs` | the same for arrays and the grid; the reader comes to what `SpfgDocument` says | `SpfgBlockProofs` |
| `MCBuild`, `MCCycle`, `MCEval`, `MCTick`, `MCExport`, `MCReader` | small instances for TLC | |

### How state and actions correspond to the code

* `dps`, `fns` are `gr.dps`, `gr.fns`. A slot is named by its position counted
  from 1, which is the id the code gives its block. `used` is "the name's first
  character is not NUL". Names are three classes (empty, fits, too long), the
  last two of which occur in the runs: an empty name is refused like a long one.
* Of a value only the boolean is kept: booleans are the only values that any
  implemented function reads or writes. `emitted` is the flag of that name. A type
  field takes any number (`spfg_dp_create` looks at none, `spfg_build.c:177`, nor does
  an import): "none" is zero, "other" and "wide" are numbers `spfg.h` gives to no type.
* `cur` is `gr.ctl.curr_fn_idx`. `grx` is the index; an entry holds slots where
  the code holds pointers, 0 standing for NULL. `qsort` is any rearrangement in
  which no two neighbours are out of order under `fnx_cmp`, whose subtraction of
  unsigned phases is modelled with its wrap-around (`PhaseCmp`).
* `frames` is the stack of activations of `spfg_rt_run_cycle`. A frame remembers
  whether a callback was given and, while the callback has control, which entry
  the loop holds in its local `fnx`. The function of that entry runs after the
  callback returns, whatever the entry holds by then.
* `ret` is the code of the last call. No action reads it, so the runs leave it
  out of the state fingerprint with a `VIEW`, but for the ones that check
  liveness.
* `kept` (`SpfgCycle`) is a history variable: since the cycle began the client has
  done nothing but what `Gentle` allows. The calls themselves are those of
  `SpfgEval`, all of them at all times.
* `bin` is the buffer of the last binary export. A JSON document is its arrays
  of blocks, each with whether a comma follows, and the cursor. What reading
  leaves does not depend on the grid it is read into (the runtime is wiped
  first), so reading a document back later is modelled by reading it at once. A
  datapoint of a type the export has no form for ends the export with an error
  (`Exportable`); the half of the text it has written by then is not modelled.
* Whether a comma follows the block in the last slot is decided by a byte past the
  table: the bound in the code is always met. `PastFns` and `PastDps` say what that
  byte is in the layout of `spfg_types.h` on a little-endian machine: after the
  functions padding, which stays zero, after the datapoints the lowest byte of the
  type of the first function. So a comma does follow the last of 60 datapoints when
  there is a function in slot 1.
* `Written` is what the text of a datapoint gives back. It is the datapoint but for a
  real that `spfg_dp_set_bool` set to TRUE, which takes any type: that byte makes the
  number 4.9407E-324, the reader passes over it, and zero comes back. Other reals only
  come with documents; `SpfgReader` says what becomes of them (`Reread`), and
  `SpfgExport` has none of them: of the values of a foreign document it takes 0 and 1,
  and of reals 0 (`TextDps`).

* In `SpfgReader`, `parser` is `azjson_parser_t` with the token `azjson_track_token`
  made of the last character; `trail` is `azjson_trail_t`; `loader` is the stack of
  `azjson_loader_t`, where the address of a value is its path (`<<"fns", 1, "id">>`);
  `store` is what has been copied, counts of arrays included. `ReadLetter` is one turn
  of the loop in `azjson_import`: parse, track, sync, extract, in this order, each
  from what the one before left; `EndOfText` is its end. `todo` is what is left of
  the text, `verdict` what the import returns.
* A letter is the first character of a name, number or word, standing for those
  that continue it, or a character that changes the automaton. A key and a short
  text travel as a whole with their opening quote. `saved` tells a text that
  `spfg_rt_export_json` wrote of `doc`, perhaps cut short, from any other text.

Left out of the modelled calls: refusals of null pointers (they come first and
change nothing); id 0 inside an argument array (`ArgsAssumption`: the code then
validates a datapoint it did not look up); the one extra turn of
`_fn_cycle_check`'s loop, which in the layout built reads bytes that are always
zero; the timestamp argument, which nothing uses; the characters of names, which the
export writes as they are, so that what is said of texts is said of names without
quotes and backslashes. Left out of the reader: white
space, escapes in strings, strings longer than their field, and keys that are the
beginning of a specified key (the loader compares as many characters as the key
has).

A definition introduced as a *slip* is the next one with a plausible mistake; the
slips are there to show which property each mistake would break.

## What TLC checks

| Run | Question | Properties |
|---|---|---|
| `build` | Does any sequence of composition calls break the graph? | `TypeOK` `Integrity` `PhaseOrdered` `Acyclic` `SlotsClean` |
| `build_self_feed` | Is a function that reads what it writes refused? (no) | `NoSelfFeed` |
| `eval_callbacks` | Is the index exact, and is no change passed over, whatever callbacks, nested runs and clients do? | `EvalTypeOK` `IndexCurrent` `IndexComplete` `IndexOrdered` `IndexTopological` `RunsNeverFail` `PassedConsumed` `AllConsumed` |
| `eval_termination` | Does a run end although callbacks create and remove blocks? | `Termination` |
| `tick` | Does the disciplined client get the dataflow, and its cycles completed? | `DisagreementIsPending` `SettledBetweenCycles` `ImplementsDataflow` `CycleCompletes` |
| `tick_twice` | May a source be set twice between cycles? (no) | `SettledBetweenCycles` |
| `export_json` | Which grids read back; does nothing of a rebuild that failed get run? | `IndexSane` `RoomyReadsBack` |
| `export_bin` | Do restored snapshots run on an index of their own? | `IndexSane` |
| `export_stale` | Also when restored over a grid that has been run? (no) | `IndexSane` |
| `export_sparse` | Is the text of a grid with free slots between blocks read at all? (no) | `SparseLoads` |
| `export_full` | Does a grid without gaps that fills a table read back? (no) | `FullReadsBack` |
| `reader` | Does the reader, letter by letter, come to what `SpfgDocument` says? What does it rely on in other texts? | `AddressesKnown` `StacksInStep` `CutNeverAccepted` `ReadsAsImport` |

The two cycle properties of `eval_callbacks` hold for cycles the client leaves
alone in the sense of `Gentle`; the others hold whatever client and callbacks do.
`ReadsAsImport` is what lets the `export_*` runs treat a document block by block.

### Bounds

* Composition: three datapoints, three functions, three phases, two inputs
  and one output. With three functions the longest cycle that avoids every pair is
  possible; input arrays overlap and are also too short, too long and unknown; types
  are right, wrong and none that there is.
  `FnIdArgs` and `DpIdArgs` go one past the arrays on both sides.
* Evaluation: three datapoints and two functions form a chain, a pair of equal
  readers, a pair of writers of one datapoint and self-loops; two slots are
  enough for the index to be reordered under the cursor. `MaxDepth = 2` nests a
  run once. `PhaseHalf` scales 2^31 down; phases in use stay below it.
* The client `SpfgTick`: five datapoints let two functions of two inputs be
  chained or not, in both orders of creation; a source is set once a cycle
  (`FeedLimit`).
* The client of `eval_callbacks` makes every call between the runs of a cycle and
  from callbacks, a cycle of its own included, so the order of the index changes
  while an outer loop holds an entry.
* Saving: three datapoints so that a gap, a comma and room for more can occur
  together, booleans, reals and of a type that cannot be written; three foreign
  documents reach what no composed grid contains (a function with no code, a dangling
  reference, such a type in a gap-free table). `export_sparse` and `export_full` have
  composed grids only and leave aside what another cause keeps from being read, so
  that each fails for one reason: with the comma written before every later live
  block the first holds, and with the count checked against one item more the second.
* Reading: arrays of every length from none to one block more than the table has,
  each with a comma after it or not; booleans, integers of every sign, reals of both signs
  with a fraction, without one, with an exponent and on the borders between these,
  ties of rounding included; phases in both halves. Every text is
  cut after every letter. `Depth = 6` is what a saved grid needs, so any nesting
  more meets the limit. The other texts are a saved grid in which one letter, at
  every place, is replaced by another or preceded by one.

`MidCycle` and `InCallback` name the groups of calls the client makes between the
runs of one cycle and from callbacks; each run says which it allows.

### Fairness

`Termination` assumes that the loop runs when it can and that a callback returns
(`EvalFairness`); callbacks that reset or re-initialise the cycle are excluded
there, because such a callback can hold a loop for ever. `CycleCompletes` adds
that the client resumes what it stopped and that the callback does not refuse
the same function for ever (strong fairness of `CbContinue`); nothing makes the
client start a cycle. The loop is one thread of one process, so weak fairness of
its steps is what the processor gives.

## Where code and documentation disagree

* `build_self_feed`: `_fn_cycle_check` compares a new function with the others
  but not its inputs with its output.
* `tick_twice`: writing a value twice before a cycle clears `emitted`, and the
  change is not seen.
* `export_stale`: `_spfg_rt_import_bin` leaves a valid index of the old grid.
* `export_sparse`: the comma after a block depends on the *next slot* being live,
  so a gap gives text that the import rejects.
* `export_full`: the loader counts the second key of the last item as one item
  too many.

Further behaviour seen while modelling, each reproducible by changing the
constants named:

* A change is passed over, so that neither `PassedConsumed` nor `AllConsumed` would
  hold without `kept`, when the client edits the grid between two runs of a cycle
  (the index is sorted anew, the cursor stays, and functions that moved before it
  are skipped), when it sets a datapoint that a function behind the cursor reads,
  and when a callback runs or resets the cycle (inner and outer loop both advance
  the cursor for the same entry). Each shows when its call is added to `Gentle`.
* `IndexOrdered` fails for phases 2^31 or more apart (`CreatePhases = {0, 3}` with
  `PhaseHalf = 2` in `MCEval`): the comparison overflows and the later one is run
  first. No run is kept for it; the passing run and the theorem say what they assume.
* A datapoint may be the input of several functions although the README says at
  most one (the TODOs in `spfg_build.c` say so): the first reader clears
  `emitted` and the second does not run.
* A callback that edits the grid and runs the cycle again can make the outer loop
  run a function other than the one it announced.
* A function that cannot be evaluated keeps the cursor on itself; later runs fail
  on it again.
* Blocks behind a gap at the start of a table come back in earlier slots under the
  ids they had, and ids are looked up by slot.
* After the last datapoint of a full grid a comma is written when function slot 1 is
  in use; the import, which refuses full tables anyway, would refuse that too.
* A datapoint created with a number that is no type makes the export fail.
* A real comes back as `Reread` says: from 99999.5 on it is written with an
  exponent, and the reader ends no token there and keeps its key for the next
  value; one with no fraction after five digits is read as an integer.
* In a text like `[1,{...` the item changes within one character, and the loader,
  which compares heights only, keeps the address of the item before. No exported
  text has an array of that kind, so `StacksInStep` is stated of exported texts.

## What is proved

TLAPS checks the following for every number of slots, every set of arguments a caller
may pass, every depth of nested runs, every choice of calls a client makes from
callbacks and between runs, and every text. The assumptions on the constants are
`SizesAssumption` (the arrays have slots), `ArgsAssumption` (arguments are of the
types of the C API, types any numbers, ids positive), `EvalAssumption`,
`FeedAssumption`, `DepthAssumption`, and of documents their types: `ForeignAssumption`
(what is imported: values 0 and 1, no real but 0, arrays of ids that fit) and
`DocsAssumption` (what was saved: any number of live blocks whose ids fit their arrays
and whose values are of the type they are marked with, a boolean being 0 or 1); TLC
evaluates them on every run. Some theorems need more, and say so: `LowPhases` (no
caller uses the upper half of the phase numbers, where the comparison overflows),
`Disciplined` (`LowPhases`, and a source is set at most once between cycles), of
imports that snapshots are restored only into a runtime without an index
(`export_stale` shows why), and of reading `Depth >= 6` (`AZJSON_DEPTH` is 10; the ids
of a block are the sixth level of a document).

`SpfgBuildProofs`, about `BuildSpec`: `TypeCorrect`, `SlotsStayClean`,
`ReferencesStayWhole`, `FeedsForward`, `NeverCyclic`. `CallEffect` first reduces the
calls, with all their refusals, to six effects on the grid; each invariant is then
inductive relative to `TypeOK`, and `Integrity` to `SlotsClean` too: `spfg_dp_remove`
compares references with the id a datapoint carries, which is that of its slot.
`Acyclic` follows from `PhaseOrdered`: of any set of functions one in the earliest
phase reads nothing another one writes (`LeastNumber`, from the well-foundedness of
the naturals).

`SpfgEvalProofs`, about `EvalSpec`: `EvalInvariant` proves `EvalInv`, from which
`EvalTypeCorrect`, `GridStaysSound`, `IndexStaysCurrent` and `IndexStaysComplete`
follow. The strengthening is needed in a circle: a step of the loop writes live
datapoints only because the index is current; a rebuilt index is current because
references are whole; and it lists each function once because a rebuild always
starts from an empty index (`IndexFresh`), which holds because no rebuild fails.
`ComposedRunsNeverFail` says that of the calls: on a composed grid neither
`SPFG_ERROR_REINDEX` nor `SPFG_ERROR_EVAL_FN_FAILURE` is ever returned. For the
second, a function an entry holds when its turn comes, which need not be the one
that was announced, must still be of a type that there is code for: a live function
is (`Implemented`), and `EvalInv` has it live.

`IndexStaysOrdered` and `IndexStaysTopological` assume `LowPhases`. What
`qsort` leaves is known of neighbours only; `PairsOrdered` extends it to any two
entries by looking at the nearest one out of order.

`SpfgCycleProofs`, about `CycleSpec`: `NothingPassedOver` and `CycleConsumesAll`,
under `LowPhases`. While a cycle is kept it runs in one activation and on one index
(`OnePass`), and no entry behind the cursor has a change pending (`PassInv`). A
function that runs consumes its own inputs, and what it writes is read only ahead
of the cursor, because the index is topological (the end of
`SpfgEvalProofs`); a cycle that
ends has everything behind the cursor.

`SpfgTickProofs`, about `TickSpec`: `DisagreementStaysPending` and `CyclesSettle`
under `Disciplined`. `TickInv` adds to one pass where changes may be pending: in the
feed stage only on sources that were set; in a cycle only ahead of the cursor; on
what one function writes for another only after the first has run. Writing is what
withdraws a pending change, and a function writes once in a cycle: so it never
withdraws one of its own, and a function that disagrees with its inputs is due.

There too, `ImplementsTheDataflow`, under `Disciplined`: every step of the
client, the library and its callback is a step of `SpfgDataflow` under the
refinement mapping, or leaves the abstract state alone. The step that runs a
function maps to a recomputation because the index is topological: nothing ahead of
the cursor writes what it reads.

`SpfgExportProofs`, about `ExportSpec`: `IndexStaysSane`. Nothing is assumed of
imported blocks, so rebuilds may fail half-way and the invariant `EvalInv` is not
available; `IndexSound` is what is left: a valid index is exact, and nothing in an
invalid one survives the next rebuild. Snapshots must be restored without an index.
`ReadBackJustWhenRoomy` is about the grids whose types can all be written, and needs
only the types of the tables (`TablesOK`, kept by every import because a document has
no other blocks). The array of a table is its live blocks in slot order, each with its
place counted. A gap between blocks makes a comma disagree, a free slot before the
first block shifts them all, a full table has one item too many; where none of these
is the case every block is back in its slot, as it was written. That is as it was,
but for a real set as a boolean, and no text gives such a real back (`LoadedSame`).
What byte follows a table makes no difference: it is only looked at after the last
slot, and a table with that slot taken is full or has a gap.

`SpfgReaderProofs`, about `ReaderSpec`: `AddressesStayKnown`, for every text. The
lemmas follow one letter from stage to stage: `ParserStep` (containers that stay
open keep their kind; one is opened only where a value may start; after one closes
the state is OK), `TrailStep` (the trail has an item for each of them; an item is
an array's item just when the one below it is an array, and then has no key),
`LoaderStep` (a part of the specification is found for an item with no key only
under an array). `ReaderInv` is their conjunction.

`StacksStayInStep` and `CutIsNeverAccepted` are about the text of a saved grid, for
every grid of `Docs`. Neither is inductive: that a brace may open here, and what is
to be found under it, is known only from where in the text it is. So the text is
first shown to be a *walk*. A `Spot` is one of six regions of a text (`StackOf`
names them), a place in it and a key; `Goes(a, l, b)` lists the letters that lead
from one spot to another, and `TextWalks` shows that `Text(doc)` leads from the
first spot to the last: a text in pieces walks when its pieces do (`Glue`), and for
arrays, of any length, `FlatWalks` takes the least piece that would not
(`Least`, from the well-foundedness of the naturals). Then one letter is followed
again, now with its spot: `ParserGoes` (the automaton and its stack are where the
spot says), `TopStep` (the trail has a value on top just after one ended) and
`LoaderGoes` (each level holds a part of the specification of the right type, and
arrays the part the next region needs). `SavedInv` puts that beside `ReaderInv`:
some spot matches all three, and the letters left lead from it to the end, unless
one of them was refused. The stacks agree because all agree with the spot; and a
text is not accepted early because nothing is open only at the spots before the
first letter and after the last.

`SavedGridsReadAsImport` (`SpfgImportProofs`, on the lemmas of `SpfgBlockProofs`) is
the strongest of these: when the text of a saved grid has been read, or a letter of
it has been refused, the verdict and every field of every slot in the store are those
of `Import`, whatever the numbers of blocks and ids, the values and the commas. It is
what lets `SpfgExport` treat a document block by block. `Reads(X, a, b)` says that the
text `X` takes a reader `a` to `b`; `a` is the four parts of the reader and whether it
has stopped, after which no letter moves it. Here letters are followed with their
values, and the theorem is built up along the structure of the text:

* one letter: `OneOutcome` and the lemmas of parser, trail and loader before it show
  that each stage has just one outcome, so that the reader is deterministic there;
* a value: `NumberReads`, `StrReads`, `WordReads`, `RealReads` bring the reader to
  where the value is stored (`Settled`), or where the next letter will store it
  (`Pends`: a number is complete only when something else follows), or where it is
  passed over and its key stays (`Lost`: an exponent);
* a member, an array of ids, a block (`FnReads`, `DpReads`): what is behind its
  members, and that nothing else was written; `IdsReads` takes the least id that
  would not be read. A block for which there is no room stores its id, and its next
  key is refused (`BlockRefused`);
* an array of blocks (`ItemsRead`): up to the first item at which `GivesUp` says that
  loading ends, the reader is behind each block (`Reached`); there it stops, and
  `HeldMember` carries the stop to the end of the text;
* the grid (`GridReads`, `TextReads`): the slots that the store holds are those of
  `Loaded` (`SlotsBack`), and parts written before stay as they are.

`ImportInv`, the inductive invariant, is then short: while `doc` is being read, the
letters that are left take the reader from where it is to what `Import` says. Each
letter consumes the first of them (`LetterReached`); the end of the text, which
`CutNeverAccepted` allows only where no letters are left, finds the reader there
(`EndReached`).

Only model-checked: `Termination` and `CycleCompletes`. They are liveness properties,
which are out of TLAPS's reach, as is `ENABLED`. Every invariant and every action
property that a run checks is also a theorem, but for those the `violation` runs
refute.

## Not modelled

Composition, index, evaluation, saving and the JSON reader are modelled with every
operation that changes state. What is left has no logic of its own:

* Inspection (`spfg_info`, `spfg_runtime_size`) returns constants. The setters for
  integers and reals, and the functions other than AND, are not implemented in the
  library: they return an error at once.
* The JavaScript binding copies arguments to the emscripten heap and forwards the
  call. What can go wrong there depends on the compiler's table of function
  pointers: every run takes one of the ten that `arch-wasm.mk` reserves and none is
  given back (`spfg.js:275`). The callback that `localSpfgRunCycle` passes on returns
  the client's callback, bound to its arguments, instead of calling it.
* The Python and Elm bindings forward calls and decode what comes back; the loop of
  the Elm example is the client of `SpfgTick`.
* Build files, continuous integration and documentation have no run-time behaviour.
  The unit tests were read for what they expect.
