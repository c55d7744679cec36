------------------------------- MODULE MCTick -------------------------------
(***************************************************************************)
(* SpfgTick on a grid of up to two functions, chained or not.              *)
(***************************************************************************)
EXTENDS SpfgTick

\* 1, 2 -> 3 and 3, 4 -> 5, composed in either order and phases.
MCInArgs == {<<1, 2>>, <<3, 4>>}
MCOutArgs == {<<3>>, <<5>>}
MCCreatePhases == {0, 1}

\* All but the code the last call returned.
TickView == <<dps, fns, cur, grx, frames, stage, fed>>
=============================================================================
