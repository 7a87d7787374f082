------------------------------ MODULE TimingMC -------------------------------
(* Instances of TimingLayer for TLC: what the sensor may answer.           *)
EXTENDS TimingLayer

Short     == {<<Other, LF>>, <<LF, LF>>}
TwoLines  == {<<LF>>, <<Other, LF, LF>>, <<LF, Other, LF>>}
==============================================================================
