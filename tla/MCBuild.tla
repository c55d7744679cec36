------------------------------- MODULE MCBuild -------------------------------
(***************************************************************************)
(* SpfgBuild on three datapoints and three functions.                      *)
(***************************************************************************)
EXTENDS SpfgBuild

\* Arrays from which cycles of one, two and three functions can be tried, with
\* overlapping inputs; and one id too few, one too many, one unknown.
MCInArgs == {<<1, 1>>, <<2, 2>>, <<3, 3>>, <<1, 2>>, <<1>>, <<1, 2, 3>>, <<1, 4>>}
MCOutArgs == {<<1>>, <<2>>, <<3>>, <<4>>, <<1, 2>>}
MCCreatePhases == {0, 1, 2}

\* All but the code the last call returned, which no later call depends on.
GridView == grid
==============================================================================
