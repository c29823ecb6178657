----------------------------- MODULE MCSnapDesk -----------------------------
(* Instances of SnapDesk for TLC.  Outputs are strings, hence sequences of  *)
(* pieces: the .cfg files give the pieces and choose among the sets below.  *)
EXTENDS SnapDesk

CONSTANTS o1, o2

OneOutput == {<<o1>>}
TwoOutputs == {<<o1>>, <<o2>>}
=============================================================================
