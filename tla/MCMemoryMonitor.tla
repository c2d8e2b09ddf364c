-------------------------- MODULE MCMemoryMonitor --------------------------
(* Instances of MemoryMonitor for TLC.                                     *)
EXTENDS MemoryMonitor

TwoThreads == {0, 1}
ThreeThreads == {0, 1, 2}
AllPrograms == {{"llsc"}, {"llsc", "amo"}, {"llsc", "amo", "store"}}
LLSCAndAmo == {{"llsc", "amo"}}
=============================================================================
