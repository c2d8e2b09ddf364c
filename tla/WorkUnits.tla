------------------------------ MODULE WorkUnits ------------------------------
(***************************************************************************)
(* What the asynchronous translator promises about a TranslationWorkUnit,  *)
(* with the threads, the mutex and the condition variable left out: a unit *)
(* is built and queued once, taken by one owner, translated at most once   *)
(* and only while it is owned, and destroyed at most once.                 *)
(***************************************************************************)
CONSTANT Units

VARIABLES state,        \* where each unit is in its life
          translated    \* the units whose translation was handed back

abstractVars == <<state, translated>>

AbstractInit ==
  /\ state = [u \in Units |-> "fresh"]
  /\ translated = {}

\* A unit is built for a hot region and queued.
Enqueue(u) ==
  /\ state[u] = "fresh"
  /\ state' = [state EXCEPT ![u] = "queued"]
  /\ UNCHANGED translated

\* One owner takes the unit off the queue.
TakeUnit(u) ==
  /\ state[u] = "queued"
  /\ state' = [state EXCEPT ![u] = "owned"]
  /\ UNCHANGED translated

\* The owner hands back a translation of the unit's region.
Translated(u) ==
  /\ state[u] = "owned"
  /\ u \notin translated
  /\ translated' = translated \cup {u}
  /\ UNCHANGED state

\* The owner destroys the unit.
Destroy(u) ==
  /\ state[u] = "owned"
  /\ state' = [state EXCEPT ![u] = "destroyed"]
  /\ UNCHANGED translated

\* Everything still queued is destroyed at once, when the manager shuts down.
DestroyQueued ==
  /\ state' = [u \in Units |-> IF state[u] = "queued" THEN "destroyed" ELSE state[u]]
  /\ UNCHANGED translated

AbstractNext ==
  \/ \E u \in Units : Enqueue(u) \/ TakeUnit(u) \/ Translated(u) \/ Destroy(u)
  \/ DestroyQueued

AbstractSpec == AbstractInit /\ [][AbstractNext]_abstractVars
=============================================================================
