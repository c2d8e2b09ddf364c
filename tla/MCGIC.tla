------------------------------- MODULE MCGIC -------------------------------
(* An instance of GIC for TLC: lines driven by the CPU and by a timer.  The *)
(* mask value 3 lets every priority through, 1 only the most urgent.        *)
EXTENDS GIC

TwoPriorities == {0, 1}
TwoMasks == {1, 3}
CpuAndTimer == {"cpu", "timer"}
=============================================================================
