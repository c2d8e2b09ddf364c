--------------------------- MODULE ControllerLine ---------------------------
(***************************************************************************)
(* IRQControllerLine, the line from a device into an interrupt controller, *)
(* driven the way the devices drive it: a device that wants the line high  *)
(* (low) asserts (rescinds) it when IsAsserted() says that it is not (is). *)
(* asserted_ is a plain flag that any thread reads and writes, so each     *)
(* access is a step.                                                       *)
(***************************************************************************)
VARIABLES
    asserted,   \* asserted_
    level,      \* the controller's view: AssertLine or RescindLine came last
    at          \* where each thread is

\* Assert() sets the flag before it tells the controller; Rescind() tells the
\* controller before it clears the flag.
LinePlaces == {"wantHigh", "assert", "set", "raise", "wantLow", "rescind", "lower", "clear"}

LineGo(t, place) == at' = [at EXCEPT ![t] = place]

\* The device's IsAsserted(), then the one inside Assert() or Rescind().
LineTest(t, done) ==
    /\ \/ at[t] = "wantHigh" /\ LineGo(t, IF asserted THEN done ELSE "assert")
       \/ at[t] = "assert" /\ LineGo(t, IF asserted THEN done ELSE "set")
       \/ at[t] = "wantLow" /\ LineGo(t, IF asserted THEN "rescind" ELSE done)
       \/ at[t] = "rescind" /\ LineGo(t, IF asserted THEN "lower" ELSE done)
    /\ UNCHANGED <<asserted, level>>

LineFlag(t, done) ==
    /\ \/ at[t] = "set" /\ asserted' = TRUE /\ LineGo(t, "raise")
       \/ at[t] = "clear" /\ asserted' = FALSE /\ LineGo(t, done)
    /\ UNCHANGED level

LineLevel(t, done) ==
    /\ \/ at[t] = "raise" /\ level' = TRUE /\ LineGo(t, done)
       \/ at[t] = "lower" /\ level' = FALSE /\ LineGo(t, "clear")
    /\ UNCHANGED asserted

\* One step of thread t in the line's code; at the end it goes to "done".
LineStep(t, done) == LineTest(t, done) \/ LineFlag(t, done) \/ LineLevel(t, done)
=============================================================================
