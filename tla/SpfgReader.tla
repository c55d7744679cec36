----------------------------- MODULE SpfgReader -----------------------------
(***************************************************************************)
(* The text of a saved grid, and the reader of azjson.c that brings it     *)
(* back.  For every character the reader advances an automaton with a      *)
(* stack of modes (the parser), finds the tokens that end there, follows   *)
(* the position in the document with a second stack (the trail), matches   *)
(* that position with the specification of spfg_export.c on a third (the   *)
(* loader), and copies the value of the token to the address the loader    *)
(* has come to.                                                            *)
(*                                                                         *)
(* A character that only continues a lexeme changes nothing but the end of *)
(* the token.  So a letter of the model is the first of a name, number or  *)
(* word, standing for those that continue it, or one that changes the      *)
(* state of the automaton.  White space and escapes are left out.          *)
(***************************************************************************)
EXTENDS SpfgDocument

CONSTANTS
  Depth,  \* AZJSON_DEPTH, 10 in azjson.h
  Docs,   \* the documents that are read
  Texts   \* a function to texts that spfg_rt_export_json did not write

ASSUME DepthAssumption == Depth \in Nat \ {0}

\* The live blocks that a grid in memory can have, by the types of spfg_types.h.  A
\* value is the member of the union of spfg_dp_value_t that the type tells: <<"int", n>>,
\* a boolean being 0 or 1, or <<"real", n>>, a real of n tenths.
IdArrays(max) == {ids \in Seq(Int) : Len(ids) <= max}
DocValues(type) == CASE type = "INT"  -> {"int"} \X Int
                     [] type = "BOOL" -> {"int"} \X {0, 1}
                     [] type = "REAL" -> {"real"} \X Int
DocFns == [used: {TRUE}, id: Int, type: Int, phase: PhaseNumbers,
           in: IdArrays(MaxIn), out: IdArrays(MaxOut)]
DocDps == {dp \in [used: {TRUE}, id: Int, type: DpTypes, emitted: BOOLEAN,
                   value: {"int", "real"} \X Int] : dp.value \in DocValues(dp.type)}
ASSUME DocsAssumption == Docs \subseteq [fns: ItemsOf(DocFns), dps: ItemsOf(DocDps), cur: Int]

VARIABLES
  saved,    \* the text is that of a document
  doc,      \* which one, block by block
  todo,     \* the letters of its text that have not been read
  parser,   \* [state, stack, lex, token]: the automaton, its stack of modes, the
            \* lexeme it is in and the type of the token that ended with the last letter
  trail,    \* [items, key]: the containers around the position; the last key read
  loader,   \* the part of the specification, and the address, of each of them
  store,    \* what was copied: a function from addresses to values and counts
  verdict   \* "reading"; "ok"; "refused" by a letter or at the end; "cut"

readerVars == <<saved, doc, todo, parser, trail, loader, store, verdict>>

-----------------------------------------------------------------------------
(* The text of a document *)

Mark(c) == [c |-> c, v |-> 0]

\* A quote that opens a string has its content; one that was meant to close it
\* can only open one that nobody knows.
Unknown == "?"
Quote(s) == [c |-> "quote", v |-> s]
Str(s) == <<Quote(s), Quote(Unknown)>>
Key(k) == Append(Str(k), Mark(":"))
Word(b) == <<[c |-> IF b THEN "tru" ELSE "fals", v |-> 0], Mark("e")>>
\* The code of a type of datapoint; all are positive.
Code(x) == <<[c |-> "digit", v |-> x]>>
Number(n) == IF n = 0 THEN <<[c |-> "zero", v |-> 0]>>
             ELSE IF n < 0 THEN <<[c |-> "minus", v |-> n], Mark("digit")>>
             ELSE <<[c |-> "digit", v |-> n]>>
CommaIf(b) == IF b THEN <<Mark(",")>> ELSE <<>>
Comma1 == CommaIf(TRUE)

\* A real of n tenths as %.5G prints it: with an exponent from 10^5 on, with
\* a fraction only if one is left after five digits.  Ties go to the even digit.
Exponent(n) == n >= 999995 \/ n <= -999995
Whole(n) == n >= 100000 \/ n <= -100000 \/ n % 10 = 0
Rounded(n) == LET q == n \div 10
              IN  IF n % 10 > 5 \/ (n % 10 = 5 /\ q % 2 = 1) THEN q + 1 ELSE q
RealText(n) ==
  IF Exponent(n) THEN Number(n) \o <<Mark("exp"), Mark("plus"), Mark("digit")>>
  ELSE IF Whole(n) THEN Number(Rounded(n))
  ELSE Number(n) \o <<Mark("point"), Mark("digit")>>

ValueText(dp) ==
  CASE dp.type = "INT"  -> Number(dp.value[2])
    [] dp.type = "REAL" -> RealText(dp.value[2])
    [] dp.type = "BOOL" -> Word(dp.value[2] # 0)

\* %d prints the upper half of the phases as negative numbers.
PhaseText(p) == Number(IF p < PhaseHalf THEN p ELSE p - 2 * PhaseHalf)

Braces(text) == <<Mark("{")>> \o text \o <<Mark("}")>>
Brackets(text) == <<Mark("[")>> \o text \o <<Mark("]")>>

IdsText(ids) ==
  Brackets(FlattenSeq([i \in DOMAIN ids |-> Number(ids[i]) \o CommaIf(i < Len(ids))]))

FnText(fn) ==
  Braces(Key("id") \o Number(fn.id) \o Comma1
         \o Key("name") \o Str("f") \o Comma1 \o Key("type") \o Number(fn.type) \o Comma1
         \o Key("phase") \o PhaseText(fn.phase) \o Comma1
         \o Key("in_dp_ids") \o IdsText(fn.in) \o Comma1
         \o Key("out_dp_ids") \o IdsText(fn.out))

DpText(dp) ==
  Braces(Key("id") \o Number(dp.id) \o Comma1
         \o Key("name") \o Str("d") \o Comma1 \o Key("type") \o Code(dp.type) \o Comma1
         \o Key("value") \o ValueText(dp) \o Comma1
         \o Key("emitted") \o Word(dp.emitted))

\* An array of items, of whose blocks the texts are given.
ItemsText(items, texts) ==
  Brackets(FlattenSeq([k \in DOMAIN items |-> texts[k] \o CommaIf(items[k].comma)]))

Text(d) ==
  Braces(Key("name") \o Str("g") \o Comma1
         \o Key("fns") \o ItemsText(d.fns, [k \in DOMAIN d.fns |-> FnText(d.fns[k].block)])
         \o Comma1
         \o Key("dps") \o ItemsText(d.dps, [k \in DOMAIN d.dps |-> DpText(d.dps[k].block)])
         \o Comma1
         \o Key("ctl") \o Braces(Key("curr_fn_idx") \o Number(d.cur)))

-----------------------------------------------------------------------------
(* The parser *)

\* Where a letter takes the automaton inside a lexeme, or to the start of one.
\* T3, F4 and N3 are the words but for their last character; INT is the state
\* the code calls IN; "exp" is an upper case E.
ValueStart == [quote |-> "ST", minus |-> "MI", zero |-> "ZE", digit |-> "INT",
               tru |-> "T3", fals |-> "F4", nul |-> "N3"]
Moves == [OB |-> [quote |-> "ST"],
          KE |-> [quote |-> "ST"],
          VA |-> ValueStart,
          AR |-> ValueStart,
          MI |-> [zero |-> "ZE", digit |-> "INT"],
          ZE |-> [point |-> "FR", exp |-> "E1", e |-> "E1"],
          INT |-> [zero |-> "INT", digit |-> "INT", point |-> "FR", exp |-> "E1", e |-> "E1"],
          FR |-> [zero |-> "FS", digit |-> "FS"],
          FS |-> [zero |-> "FS", digit |-> "FS", exp |-> "E1", e |-> "E1"],
          E1 |-> [plus |-> "E2", minus |-> "E2", zero |-> "E3", digit |-> "E3"],
          E2 |-> [zero |-> "E3", digit |-> "E3"],
          E3 |-> [zero |-> "E3", digit |-> "E3"],
          T3 |-> [e |-> "OK"],
          F4 |-> [e |-> "OK"],
          N3 |-> [l |-> "OK"]]

\* States in which a value may end with the container or with a comma.
Ending == {"OK", "ZE", "INT", "FS", "E3"}

\* The token that ends when the automaton leaves a state for one of KE, VA, OK;
\* a number with an exponent ends in no token.
ValueToken == [ST |-> "VS", ZE |-> "VI", INT |-> "VI", FS |-> "VR",
               T3 |-> "VT", F4 |-> "VF", N3 |-> "VN"]
Token(from, to) ==
  IF from = "ST" /\ to = "CO" THEN "KS"
  ELSE IF from \in DOMAIN ValueToken /\ to \in {"KE", "VA", "OK"} THEN ValueToken[from]
  ELSE "NO"

\* The state and the stack after a letter that opens, closes or separates: one
\* pair, or none when the letter is refused.
Structured(p, c) ==
  LET s    == p.state
      mode == Last(p.stack)
      push(m) == Append(p.stack, m)
      swap(m) == Append(Front(p.stack), m)
      rules ==
        {[c |-> "{", in |-> {"GO", "VA", "AR"}, on |-> {mode}, to |-> "OB", stack |-> push("KEY")],
         [c |-> "[", in |-> {"GO", "VA", "AR"}, on |-> {mode}, to |-> "AR", stack |-> push("ARRAY")],
         [c |-> "}", in |-> {"OB"}, on |-> {"KEY"}, to |-> "OK", stack |-> Front(p.stack)],
         [c |-> "}", in |-> Ending, on |-> {"OBJECT"}, to |-> "OK", stack |-> Front(p.stack)],
         [c |-> "]", in |-> Ending \cup {"AR"}, on |-> {"ARRAY"}, to |-> "OK", stack |-> Front(p.stack)],
         [c |-> ",", in |-> Ending, on |-> {"OBJECT"}, to |-> "KE", stack |-> swap("KEY")],
         [c |-> ",", in |-> Ending, on |-> {"ARRAY"}, to |-> "VA", stack |-> p.stack],
         [c |-> ":", in |-> {"CO"}, on |-> {"KEY"}, to |-> "VA", stack |-> swap("OBJECT")],
         [c |-> "quote", in |-> {"ST"}, on |-> {"KEY"}, to |-> "CO", stack |-> p.stack],
         [c |-> "quote", in |-> {"ST"}, on |-> {"ARRAY", "OBJECT"}, to |-> "OK", stack |-> p.stack]}
  IN  {r \in rules : r.c = c /\ s \in r.in /\ mode \in r.on /\ Len(r.stack) <= Depth}

\* The parser after a letter, with the token that ended; none when it refuses.
\* In a string any letter goes, which makes it a longer string.
Parsed(p, l) ==
  IF p.state = "ST" /\ l.c # "quote" THEN
    {[state |-> "ST", stack |-> p.stack, lex |-> Unknown, token |-> "NO"]}
  ELSE IF p.state \in DOMAIN Moves /\ l.c \in DOMAIN Moves[p.state] THEN
    LET to == Moves[p.state][l.c]
    IN  {[state |-> to, stack |-> p.stack, token |-> Token(p.state, to),
          lex |-> IF p.state \in {"OB", "KE", "VA", "AR"} THEN l.v ELSE p.lex]}
  ELSE
    {[state |-> r.to, stack |-> r.stack, token |-> Token(p.state, r.to), lex |-> p.lex]
      : r \in Structured(p, l.c)}

-----------------------------------------------------------------------------
(* The trail *)

NoKey == ""

\* The kind of thing the letter has added to the document, if any.
Child(prev, p) ==
  IF p.token \notin {"NO", "KS"} THEN "LEAF"
  ELSE IF Len(p.stack) <= Len(prev.stack) THEN "none"
  ELSE IF p.state = "OB" THEN "OBJECT" ELSE "ARRAY"

\* (Slip: containers are not left.)
LeftNone(items, height) == items

\* The items without the containers that were closed, unless a value is on top.
Left(items, height) ==
  IF Last(items).type = "LEAF" \/ Len(items) < height THEN items
  ELSE SubSeq(items, 1, height)

\* The trail after a letter.  The value before it has been dealt with; what is
\* added to an object takes the last key, what is added to an array or starts
\* the document must find none.
Trailed(prev, p, t) ==
  LET key    == IF p.token = "KS" THEN p.lex ELSE t.key
      items  == IF Last(t.items).type = "LEAF" THEN Front(t.items) ELSE t.items
      child  == Child(prev, p)
      inside == Last(prev.stack)
      top    == Len(items)
      item   == [type   |-> child,
                 isItem |-> inside = "ARRAY",
                 idx    |-> IF inside = "ARRAY" THEN items[top].count ELSE 0,
                 key    |-> IF inside = "OBJECT" THEN key ELSE NoKey,
                 count  |-> 0]
      counted == IF inside = "ARRAY" THEN [items EXCEPT ![top].count = @ + 1] ELSE items
  IN  IF child = "none" THEN {[items |-> Left(items, Len(p.stack)), key |-> key]}
      ELSE IF (inside = "OBJECT") # (key # NoKey) \/ top >= Depth THEN {}
      ELSE {[items |-> Left(Append(counted, item), Len(p.stack)), key |-> NoKey]}

-----------------------------------------------------------------------------
(* The specification of spfg_export.c *)

Leaf(key, vtype) == [key |-> key, vtype |-> vtype, kids |-> <<>>, maxitems |-> 0]
Object(key, kids) == [key |-> key, vtype |-> "OBJECT", kids |-> kids, maxitems |-> 0]
Array(key, kid, max) == [key |-> key, vtype |-> "ARRAY", kids |-> <<kid>>, maxitems |-> max]

FnSpec == Object(NoKey, <<Leaf("id", "INTEGER"), Leaf("type", "INTEGER"),
                          Leaf("name", "STRING"), Leaf("phase", "INTEGER"),
                          Array("in_dp_ids", Leaf(NoKey, "INTEGER"), MaxIn),
                          Array("out_dp_ids", Leaf(NoKey, "INTEGER"), MaxOut)>>)
DpSpec == Object(NoKey, <<Leaf("id", "INTEGER"), Leaf("type", "INTEGER"),
                          Leaf("name", "STRING"), Leaf("emitted", "BOOL"),
                          Leaf("value", "BOOL"), Leaf("value", "INTEGER"),
                          Leaf("value", "REAL")>>)
RootSpec == Object(NoKey, <<Leaf("name", "STRING"),
                            Array("fns", FnSpec, MaxFns),
                            Array("dps", DpSpec, MaxDps),
                            Object("ctl", <<Leaf("curr_fn_idx", "INTEGER")>>)>>)

\* The types a token agrees with.  Null agrees with none; a letter that ends no
\* value says nothing of the type.
Scalars == {"BOOL", "REAL", "STRING", "INTEGER"}
VTypes == Scalars \cup {"OBJECT", "ARRAY"}
Fitting == [VT |-> {"BOOL"}, VF |-> {"BOOL"}, VI |-> {"INTEGER"}, VR |-> {"REAL"},
            VS |-> {"STRING"}, VN |-> {}, KS |-> VTypes, NO |-> VTypes]

-----------------------------------------------------------------------------
(* The loader *)

Bottom == [node |-> Leaf(NoKey, "none"), at |-> <<>>]

\* The level that matches an item of the trail, one level above `top': where it
\* is stored is told by its place in an array or by its key.
Level(top, item, node) ==
  [node |-> node,
   at   |-> IF item.type = "ROOT" \/ top.node.vtype = "none" THEN <<>>
            ELSE Append(top.at, IF item.isItem THEN item.idx + 1 ELSE item.key)]

\* (Slip: a comparison of no characters finds no difference.)
SameStart(kid, key) == key \in {NoKey, kid.key}

\* A value in an object must have a key, and its part of the specification has
\* the same.
SameKey(kid, key) == key # NoKey /\ kid.key = key

\* The part of the specification for an item below a node: in an object, of
\* those with the key of the item, the first whose type the token fits.
Part(node, item, token) ==
  LET fits == {k \in DOMAIN node.kids : /\ SameKey(node.kids[k], item.key)
                                        /\ node.kids[k].vtype \in Fitting[token]}
  IN  CASE node.vtype = "none"   -> {RootSpec}
        [] node.vtype = "OBJECT" -> {node.kids[k] : k \in {i \in fits : \A j \in fits : i <= j}}
        [] node.vtype = "ARRAY"  -> {node.kids[1]}

\* The loader after a letter, brought to the height of the trail: which grows by
\* one item at most.  Below a value there is nothing to follow.
Synced(l, t, token) ==
  LET top  == Last(l)
      item == Last(t.items)
  IN  IF Len(t.items) <= Len(l) THEN {SubSeq(l, 1, Len(t.items))}
      ELSE IF top.node.vtype \in Scalars THEN {l}
      ELSE {Append(l, Level(top, item, node)) : node \in Part(top.node, item, token)}

-----------------------------------------------------------------------------
(* The store *)

Wrap(n) == n % (2 * PhaseHalf)

\* What a token leaves at the address of its value.
Content(node, token, v) ==
  CASE token \in {"VT", "VF"} -> <<"int", IF token = "VT" THEN 1 ELSE 0>>
    [] token = "VI" -> <<"int", IF node.key = "phase" THEN Wrap(v) ELSE v>>
    [] token = "VR" -> <<"real", v>>
    [] token = "VS" -> v

\* (Slip: the room is there for one item more.)
Crowded(count, max) == count > max

\* There is no room for another item of an array.
NoRoom(count, max) == count + 1 > max

Count(s, at) == IF at \in DOMAIN s THEN s[at] ELSE 0

\* A value is written over what was at its address.
Put(s, at, v) == [x \in {at} \cup DOMAIN s |-> IF x = at THEN v ELSE s[x]]

\* The store after a letter.  Anything but a letter that ends no token, a key
\* too, counts the item it stands in, if it stands in an item; and before that
\* makes sure that another one would fit.
Extracted(s, l, t, p) ==
  LET top   == Last(l)
      item  == t.items[Len(l)]
      array == l[Len(l) - 1]
      value == IF p.token = "KS" THEN s
               ELSE Put(s, top.at, Content(top.node, p.token, p.lex))
  IN  IF p.token = "NO" THEN {s}
      ELSE IF top.node.vtype \notin Fitting[p.token] THEN {}
      ELSE IF ~item.isItem THEN {value}
      ELSE IF NoRoom(Count(s, array.at), array.node.maxitems) THEN {}
      ELSE {Put(value, array.at, item.idx + 1)}

-----------------------------------------------------------------------------
(* Reading *)

NoDoc == [fns |-> <<>>, dps |-> <<>>, cur |-> 0]

Start == /\ parser = [state |-> "GO", stack |-> <<"DONE">>, lex |-> "", token |-> "NO"]
         /\ trail = [items |-> <<[type |-> "ROOT", isItem |-> FALSE, idx |-> 0,
                                  key |-> NoKey, count |-> 0]>>,
                     key |-> NoKey]
         /\ loader = <<Bottom>>
         /\ store = <<>>
         /\ verdict = "reading"

\* What the stages make of a letter, none when one of them turns it down.
Now == [parser |-> parser, trail |-> trail, loader |-> loader, store |-> store]
Outcome(now, l) ==
  UNION {UNION {UNION {{[parser |-> p, trail |-> t, loader |-> up, store |-> s]
    : s \in Extracted(now.store, up, t, p)}
    : up \in Synced(now.loader, t, p.token)}
    : t \in Trailed(now.parser, p, now.trail)}
    : p \in Parsed(now.parser, l)}

\* The next letter.  What was stored before one that is refused stays.
ReadLetter ==
  /\ verdict = "reading" /\ todo # <<>>
  /\ todo' = Tail(todo)
  /\ \/ \E o \in Outcome(Now, Head(todo)) :
          /\ parser' = o.parser
          /\ trail' = o.trail
          /\ loader' = o.loader
          /\ store' = o.store
          /\ UNCHANGED verdict
     \/ /\ Outcome(Now, Head(todo)) = {}
        /\ verdict' = "refused"
        /\ UNCHANGED <<parser, trail, loader, store>>
  /\ UNCHANGED <<saved, doc>>

\* (Slip: what is still open is not looked at.)
FinishedAnywhere == parser.state = "OK"

Finished == parser.state = "OK" /\ parser.stack = <<"DONE">>

\* The end of the text, at any letter: spfg_rt_export_json cuts the text short
\* when the buffer is, and says nothing of it.
EndOfText ==
  /\ verdict = "reading"
  /\ verdict' = IF Finished THEN "ok" ELSE IF todo = <<>> THEN "refused" ELSE "cut"
  /\ UNCHANGED <<saved, doc, todo, parser, trail, loader, store>>

ReaderInit == /\ \/ saved = TRUE /\ doc \in Docs /\ todo = Text(doc)
                 \/ saved = FALSE /\ doc = NoDoc /\ \E x \in DOMAIN Texts : todo = Texts[x]
              /\ Start
ReaderNext == ReadLetter \/ EndOfText
ReaderSpec == ReaderInit /\ [][ReaderNext]_readerVars

-----------------------------------------------------------------------------
(* What reading promises *)

\* Whatever the text, what is read has an address: a token has a part of the
\* specification, and an item that is counted belongs to an array of the
\* specification, which alone has a place for the count; azjson_loader_extract
\* reads that place without a look at it.
AddressesKnown ==
  /\ parser.token # "NO" => Len(loader) > 1
  /\ \A k \in 2..Len(loader) :
       trail.items[k].isItem => loader[k-1].node.vtype = "ARRAY"

\* The stacks keep step, though each is moved by rules of its own: the trail has
\* one item for each container that is open, of the same kind, and one more for a
\* value that has just ended; the loader has a part of the specification of the
\* right type for each item of the trail.  So it is when a grid was saved; other
\* texts can have objects where the specification has arrays.
Kinds == [ROOT |-> {"none"}, OBJECT |-> {"OBJECT"}, ARRAY |-> {"ARRAY"},
          LEAF |-> Scalars]
Opened == [DONE |-> "ROOT", KEY |-> "OBJECT", OBJECT |-> "OBJECT", ARRAY |-> "ARRAY"]
StacksInStep == saved =>
  LET items == trail.items
      open  == IF Last(items).type = "LEAF" THEN Front(items) ELSE items
  IN  /\ Len(loader) = Len(items)
      /\ \A k \in DOMAIN loader : loader[k].node.vtype \in Kinds[items[k].type]
      /\ Len(open) >= Len(parser.stack)
      /\ parser.token \in {"NO", "KS"} => Len(open) = Len(parser.stack)
      /\ \A k \in DOMAIN parser.stack : open[k].type = Opened[parser.stack[k]]

\* A text that was cut is never taken for a whole one, wherever the cut is: what
\* spfg_rt_export_json leaves in a buffer too short for it cannot be loaded as a
\* smaller grid.
CutNeverAccepted == saved /\ verdict = "ok" => todo = <<>>

\* What there is in the store at an address, or what memset left there.
Stored(s, at, zero) == IF at \in DOMAIN s THEN s[at] ELSE zero
At(s, at, zero) == IF at \in DOMAIN s THEN s[at][2] ELSE zero
Ids(s, at) == [i \in 1..Count(s, at) |-> At(s, Append(at, i), 0)]
FnRead(s, k) ==
  [used  |-> Stored(s, <<"fns", k, "name">>, "") # "",
   id    |-> At(s, <<"fns", k, "id">>, ZeroFn.id),
   type  |-> At(s, <<"fns", k, "type">>, ZeroFn.type),
   phase |-> At(s, <<"fns", k, "phase">>, ZeroFn.phase),
   in    |-> Ids(s, <<"fns", k, "in_dp_ids">>),
   out   |-> Ids(s, <<"fns", k, "out_dp_ids">>)]
DpRead(s, k) ==
  [used    |-> Stored(s, <<"dps", k, "name">>, "") # "",
   id      |-> At(s, <<"dps", k, "id">>, ZeroDp.id),
   type    |-> At(s, <<"dps", k, "type">>, ZeroDp.type),
   emitted |-> At(s, <<"dps", k, "emitted">>, 0) # 0,
   value   |-> Stored(s, <<"dps", k, "value">>, ZeroDp.value)]
GridRead == [ok  |-> verdict = "ok",
             fns |-> [k \in FnSlots |-> FnRead(store, k)],
             dps |-> [k \in DpSlots |-> DpRead(store, k)],
             cur |-> At(store, <<"ctl", "curr_fn_idx">>, 0)]

\* The value of a datapoint as it comes back: a real with no fraction left is an
\* integer, and one with an exponent is passed over.
Reread(dp) ==
  LET n == dp.value[2]
  IN  CASE dp.type = "REAL" /\ Exponent(n) -> [dp EXCEPT !.value = ZeroDp.value]
        [] dp.type = "REAL" /\ ~Exponent(n) /\ Whole(n) ->
             [dp EXCEPT !.value = <<"int", Rounded(n)>>]
        [] OTHER -> dp
RereadItem(item) == [item EXCEPT !.block = Reread(@)]
RereadDoc(d) == [d EXCEPT !.dps = [k \in DOMAIN @ |-> RereadItem(@[k])]]

\* Letter by letter the reader comes to what SpfgDocument says of a document as a
\* whole: the same verdict, and the same grid behind, half loaded or not.
ReadsAsImport ==
  saved /\ verdict \in {"ok", "refused"} => GridRead = Import(RereadDoc(doc))
=============================================================================
