------------------------ MODULE MCEngineLifecycle ------------------------
(* Instances of EngineLifecycle for TLC.                                   *)
EXTENDS EngineLifecycle

ThreeThreads == {1, 2, 3}
=============================================================================
