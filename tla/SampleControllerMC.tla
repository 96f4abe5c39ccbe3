------------------------ MODULE SampleControllerMC ------------------------
(* SampleController with small sets of values for TLC.                      *)
EXTENDS SampleController

OneCount  == {1}
TwoCounts == {1, 2}
=============================================================================
