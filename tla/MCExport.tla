------------------------------ MODULE MCExport ------------------------------
(***************************************************************************)
(* SpfgExport on small grids.                                              *)
(***************************************************************************)
EXTENDS SpfgExport

MCInArgs == {<<1, 1>>, <<2, 2>>}
MCOutArgs == {<<2>>}
MCInArgsOne == {<<1, 1>>}
MCCreatePhases == {0}

\* Documents nobody exported: a function whose type has no code, with a change
\* pending on its inputs; a function that refers to a datapoint the document does
\* not have; and a datapoint of a type that cannot be written again.
ADp(i, e) == [block |-> [used |-> TRUE, id |-> i, type |-> "BOOL",
                         emitted |-> e, value |-> e],
              comma |-> i = 1]
AFn(type, in, out) == [block |-> [used |-> TRUE, id |-> 1, type |-> type,
                                  phase |-> 0, in |-> in, out |-> out],
                       comma |-> FALSE]
MCForeignDocs ==
  {[fns |-> <<AFn("INVERT_BOOL_RET_BOOL", <<1, 1>>, <<2>>)>>,
    dps |-> <<ADp(1, TRUE), ADp(2, FALSE)>>,
    cur |-> 0],
   [fns |-> <<AFn("AND_BOOL_BOOL_RET_BOOL", <<1, 3>>, <<2>>)>>,
    dps |-> <<ADp(1, TRUE), ADp(2, FALSE)>>,
    cur |-> 0],
   [fns |-> <<>>,
    dps |-> <<[block |-> [ADp(2, FALSE).block EXCEPT !.type = "other"], comma |-> FALSE]>>,
    cur |-> 0]}

IoView == <<dps, fns, cur, grx, frames, bin>>
=============================================================================
