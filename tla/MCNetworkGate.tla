---------------------------- MODULE MCNetworkGate ----------------------------
(* Small instances of NetworkGate for TLC: two values of m=.                *)
EXTENDS NetworkGate

TwoMemories == {100, 1100}
ClassicMode == {0}
HybridMode  == {100}
BothModes   == {0, 100}
=============================================================================
