------------------------------- MODULE MCEval -------------------------------
(***************************************************************************)
(* SpfgEval on small grids.                                                *)
(***************************************************************************)
EXTENDS SpfgEval

\* A two step chain 1 -> 2 -> 3, and functions that read their inputs twice.
MCInArgs == {<<1, 1>>, <<2, 2>>}
MCOutArgs == {<<2>>, <<3>>}
MCInArgsOne == {<<1, 1>>}
MCOutArgsOne == {<<2>>}
MCCreatePhases == {0, 1}

\* What the calls of the future depend on: not the code the last one returned,
\* which no property of these runs mentions either.
GridView == <<dps, fns, cur, grx, frames>>
==============================================================================
