--------------------------- MODULE MCGuestThreads ---------------------------
(***************************************************************************)
(* Instances for TLC of the life of the guest's threads and of the monitor *)
(* behind their atomics.  Each is checked by itself: `part', chosen at the *)
(* start, says which one runs, and the other stays as it began.            *)
(***************************************************************************)
EXTENDS MCMemoryMonitor, EngineLifecycle

VARIABLE part

FourThreads == {1, 2, 3, 4}

GuestInit ==
    /\ Init /\ EngineInit
    /\ \/ part = "monitor" /\ first = 1 /\ ~userMode
       \/ part = "engine" /\ program = {"llsc"}

GuestNext ==
    \/ part = "monitor" /\ Next /\ UNCHANGED <<part, engineVars>>
    \/ part = "engine" /\ EngineNext /\ UNCHANGED <<part, vars>>

\* The fairness of the part that runs, as its module states it.
GuestFairness ==
    /\ \A t \in Threads : WF_vars(part = "monitor" /\ Continue(t))
    /\ WF_engineVars(part = "engine" /\ MainStep)
    /\ \A t \in ThreadObjects :
          /\ WF_engineVars(part = "engine" /\ LoopEnds(t))
          /\ WF_engineVars(part = "engine" /\ CloneStart(t))

GuestSpec == GuestInit /\ [][GuestNext]_<<part, vars, engineVars>> /\ GuestFairness
=============================================================================
