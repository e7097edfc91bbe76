-------------------------------- MODULE MCWatch --------------------------------
(***************************************************************************)
(* Two threads, two places and as many registers as TLC can afford.        *)
(***************************************************************************)
EXTENDS Watchpoint

TwoThreads == {0, 1}
TwoPlaces == {"x", "y"}
TwoValues == {0, 1}
BothModes == {"write", "access"}
WriteMode == {"write"}
===============================================================================
