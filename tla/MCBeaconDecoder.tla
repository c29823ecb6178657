-------------------------- MODULE MCBeaconDecoder --------------------------
(* Instances of BeaconDecoder for TLC: getters, and cuts at, across and     *)
(* inside byte boundaries, of no bits and beyond the end of a value.        *)
EXTENDS BeaconDecoder

MCLookups == {<<0>>, <<0, 1>>, <<10, 5>>, <<1, 10, 5>>}
\* The getters of code.txt that are numbers of elements
ScriptLookups == {<<0>>, <<3>>, <<7>>, <<1>>, <<4, 5>>, <<2, 2, 1>>}
MCSlices == {<<0, 1>>, <<0, 8>>, <<1, 7>>, <<4, 1>>, <<3, 10>>, <<7, 2>>, <<7, 9>>,
             <<8, 8>>, <<5, 0>>, <<0, 0>>, <<0, 16>>, <<1, 16>>, <<1, 1>>}
=============================================================================
