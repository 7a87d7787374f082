---------------------------- MODULE SensorTestsMC ----------------------------
(* A small instance of SensorTests: measurements of up to two values.        *)
EXTENDS SensorTests

UpToTwo == {<<>>, <<1>>, <<1, 2>>, <<2>>}
==============================================================================
