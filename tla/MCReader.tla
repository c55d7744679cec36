------------------------------ MODULE MCReader ------------------------------
(***************************************************************************)
(* SpfgReader on the documents of small grids.                             *)
(***************************************************************************)
EXTENDS SpfgReader

MCFn(in, phase) == [used |-> TRUE, id |-> 1, type |-> 5, phase |-> phase,
                    in |-> in, out |-> <<2>>]
MCDp(type, value) == [used |-> TRUE, id |-> 2, type |-> type,
                      emitted |-> TRUE, value |-> value]

\* An array of blocks, for every length there is room for and one more, with a
\* comma or without after each.
Arrays(max, block) ==
  UNION {{[k \in 1..n |-> [block |-> block, comma |-> commas[k]]]
            : commas \in [1..n -> BOOLEAN]} : n \in 0..max + 1}

MCArrayDocs ==
  {[fns |-> f, dps |-> d, cur |-> 0]
     : f \in Arrays(MaxFns, MCFn(<<1, 1>>, 0)),
       d \in Arrays(MaxDps, MCDp("BOOL", <<"int", 1>>))}

\* A document of one function and one datapoint, for every form of a value, of a
\* phase and of an array of ids.
MCValues == {<<"BOOL", <<"int", n>>>> : n \in {0, 1}}
            \cup {<<"INT", <<"int", n>>>> : n \in {-3, 0, 7}}
            \cup {<<"REAL", <<"real", n>>>> : n \in {-15, 0, 15, 20, 100005, 123456, 999994, 999995, -999995}}
MCValueDocs ==
  {[fns |-> <<[block |-> MCFn(in, phase), comma |-> FALSE]>>,
    dps |-> <<[block |-> MCDp(v[1], v[2]), comma |-> FALSE]>>,
    cur |-> cur]
     : in \in {<<>>, <<1>>, <<1, 2>>}, phase \in {0, 1, PhaseHalf, 2 * PhaseHalf - 1},
       v \in MCValues, cur \in {0, 3}}

MCDocs == MCArrayDocs \cup MCValueDocs

\* The text of a grid with one letter replaced, or one put in.
MCDoc == [fns |-> <<[block |-> MCFn(<<1, 2>>, 0), comma |-> FALSE]>>,
          dps |-> <<[block |-> MCDp("BOOL", <<"int", 1>>), comma |-> FALSE]>>,
          cur |-> 0]
MCLetters == [k \in 1..11 |-> Mark(<<"{", "}", "[", "]", ",", ":", "zero", "minus", "point", "exp", "nul">>[k])]
             \o <<Quote(Unknown), Quote("name")>>
MCTexts ==
  LET text == Text(MCDoc)
  IN  [x \in (DOMAIN text) \X (DOMAIN MCLetters) \X BOOLEAN |->
         IF x[3] THEN InsertAt(text, x[1], MCLetters[x[2]])
         ELSE ReplaceAt(text, x[1], MCLetters[x[2]])]
=============================================================================
