--------------------------- MODULE MCThermalHunt ---------------------------
(* A small instance of ThermalHunt for TLC: a junction that warms up, is     *)
(* over the target, and at the cap.                                          *)
EXTENDS ThermalHunt

WarmingUp == {<<60, 66>>, <<60, 80>>, <<60, 81>>, <<60, 84>>}
=============================================================================
