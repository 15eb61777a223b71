---------------------------- MODULE MCAutoTrader ----------------------------
(* Instances of AutoTrader for TLC. *)
EXTENDS AutoTrader, TLC

Symmetry == Permutations(Symbol) \cup Permutations(Manual) \cup Permutations(ScanTask)

Even     == {0}
Loss     == {-1}
LossGain == {-1, 1}
Paper    == {"paper"}
Live     == {"live"}
BothModes == {"paper", "live"}
=============================================================================
