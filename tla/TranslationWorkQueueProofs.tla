--------------------- MODULE TranslationWorkQueueProofs ---------------------
(***************************************************************************)
(* Proofs about TranslationWorkQueue for any number of workers and units.  *)
(*                                                                         *)
(* The inductive invariant adds to the checked properties the facts they   *)
(* rest on: who holds the queue lock (LockOK), that only blocked workers   *)
(* are in the wait set (WaitOK), which labels of run() hold a unit         *)
(* (PointerOK), what is known about the queue when a worker parks or the   *)
(* manager stops (EmptyOK), and what stop() has reached (StopOK).          *)
(***************************************************************************)
EXTENDS TranslationWorkQueue, TLAPS

\* The prover of a leaf that names none.
USE Zenon

\* The labels of run() at which the unit pointer is certainly set, and those at
\* which it is certainly NULL.
WithUnit == {"skip", "again", "translate", "compile", "delete"}
WithoutUnit == {"loop", "lock", "test", "park", "waiting", "check", "done"}

LockOK == \A w \in Workers : pc[w] \in Holding <=> lock = w

WaitOK == \A w \in Workers : w \in waiters <=> pc[w] = "waiting"

PointerOK == \A w \in Workers :
  /\ pc[w] \in WithUnit => unit[w] # NoUnit
  /\ pc[w] \in WithoutUnit => unit[w] = NoUnit
  /\ pc[w] = "take" => unit[w] \in invalid \cup {NoUnit}

EmptyOK ==
  /\ mpc # "run" => queue = {}
  /\ \A w \in Workers : pc[w] = "park" => queue = {}

StopOK ==
  /\ mpc = "run" => terminate = {} /\ remaining = Workers
  /\ mpc = "destroyed" => remaining = {}
  /\ \A w \in Workers :
       /\ pc[w] = "done" => w \in terminate
       /\ w \in remaining \/ pc[w] = "done" \/ (mpc \in {"notify", "join"} /\ w = stopping)

ControlOK == TypeOK /\ LockOK /\ WaitOK /\ PointerOK /\ EmptyOK /\ StopOK

\* Only what is queued or held can still be translated.
CompletedOK ==
  /\ completed \subseteq built
  /\ completed \cap queue = {}
  /\ \A w \in Workers : pc[w] # "delete" => unit[w] \notin completed

\* The pieces of the specification each step proof has to open.
USE DEF Goto, Held, Holding, PCs, unitVars, mainVars, WithUnit, WithoutUnit

\* The manager and its workers start in a state of the right type.
LEMMA InitType == Init => TypeOK
  BY WorkersAssumption, UnitsAssumption, SpuriousAssumption, SMTT(30) DEF Init, TypeOK

\* The shape of every proof about a step: the actions of Next, one at a time.
LEMMA NextCases ==
  ASSUME [Next]_vars
  PROVE \/ \E u \in Units : TranslateRegion(u)
        \/ \E u \in Units : InvalidateRegion(u)
        \/ DestroyQueue \/ SetTerminate \/ NotifyStopped \/ Join \/ Destroyed
        \/ \E w \in Workers :
             \/ Loop(w) \/ Lock(w) \/ Test(w) \/ Park(w) \/ SpuriousWakeup(w) \/ Check(w)
             \/ Take(w) \/ Skip(w) \/ Again(w) \/ Unlock(w) \/ Dispatch(w)
             \/ Translate(w) \/ Compile(w) \/ Delete(w)
        \/ UNCHANGED vars
  BY DEF Next, Shutdown, Worker

\* Every variable keeps its type.
LEMMA TypeStep == TypeOK /\ PointerOK /\ [Next]_vars => TypeOK'
<1> SUFFICES ASSUME TypeOK, PointerOK, [Next]_vars PROVE TypeOK'
  OBVIOUS
<1> USE WorkersAssumption, UnitsAssumption, SpuriousAssumption DEF TypeOK
<1>1. ASSUME NEW u \in Units, TranslateRegion(u) PROVE TypeOK'
  BY <1>1 DEF TranslateRegion, NotifyOne
<1>2. ASSUME NEW u \in Units, InvalidateRegion(u) PROVE TypeOK'
  BY <1>2 DEF InvalidateRegion
<1>3. ASSUME DestroyQueue \/ SetTerminate \/ NotifyStopped \/ Join \/ Destroyed PROVE TypeOK'
  BY <1>3 DEF DestroyQueue, SetTerminate, NotifyStopped, NotifyAll, Join, Destroyed
<1>4. ASSUME NEW w \in Workers,
             Loop(w) \/ Lock(w) \/ Test(w) \/ Park(w) \/ SpuriousWakeup(w) \/ Check(w)
      PROVE TypeOK'
  BY <1>4, SMTT(30) DEF Loop, Lock, Test, Park, SpuriousWakeup, Check
<1>5. ASSUME NEW w \in Workers, Take(w) \/ Skip(w) \/ Again(w) \/ Unlock(w) \/ Dispatch(w)
      PROVE TypeOK'
  BY <1>5, SMTT(30) DEF Take, Skip, Again, Unlock, Dispatch, Erase
<1>6. ASSUME NEW w \in Workers, Translate(w) \/ Compile(w) \/ Delete(w) PROVE TypeOK'
  BY <1>6, SMTT(30) DEF Translate, Compile, Delete, PointerOK
<1>7. CASE UNCHANGED vars
  BY <1>7 DEF vars
<1> QED
  BY NextCases, <1>1, <1>2, <1>3, <1>4, <1>5, <1>6, <1>7

\* A worker holds the queue lock exactly at the labels between lock and unlock.
LEMMA LockStep == TypeOK /\ LockOK /\ WaitOK /\ [Next]_vars => LockOK'
<1> SUFFICES ASSUME TypeOK, LockOK, WaitOK, [Next]_vars PROVE LockOK'
  OBVIOUS
<1> USE WorkersAssumption, UnitsAssumption DEF TypeOK, LockOK, WaitOK
<1>1. ASSUME NEW u \in Units, TranslateRegion(u) PROVE LockOK'
  BY <1>1, SMTT(30) DEF TranslateRegion, NotifyOne
<1>2. ASSUME NEW u \in Units, InvalidateRegion(u) PROVE LockOK'
  BY <1>2 DEF InvalidateRegion
<1>3. ASSUME DestroyQueue PROVE LockOK'
  BY <1>3 DEF DestroyQueue
<1>4. ASSUME SetTerminate \/ NotifyStopped \/ Join \/ Destroyed PROVE LockOK'
  BY <1>4, SMTT(30) DEF SetTerminate, NotifyStopped, NotifyAll, Join, Destroyed
<1>5. ASSUME NEW w \in Workers, Loop(w) \/ Lock(w) \/ Test(w) PROVE LockOK'
  BY <1>5, SMTT(30) DEF Loop, Lock, Test
<1>6. ASSUME NEW w \in Workers, Park(w) \/ SpuriousWakeup(w) \/ Check(w) PROVE LockOK'
  BY <1>6, SMTT(30) DEF Park, SpuriousWakeup, Check
<1>7. ASSUME NEW w \in Workers, Take(w) PROVE LockOK'
  BY <1>7 DEF Take, Erase
<1>8. ASSUME NEW w \in Workers, Skip(w) PROVE LockOK'
  BY <1>8 DEF Skip
<1>9. ASSUME NEW w \in Workers, Again(w) \/ Unlock(w) \/ Dispatch(w) PROVE LockOK'
  BY <1>9, SMTT(30) DEF Again, LooksAgain, Unlock, Dispatch
<1>10. ASSUME NEW w \in Workers, Translate(w) \/ Compile(w) \/ Delete(w) PROVE LockOK'
  BY <1>10, SMTT(30) DEF Translate, Compile, Delete
<1>11. CASE UNCHANGED vars
  BY <1>11 DEF vars
<1> QED
  BY NextCases, <1>1, <1>2, <1>3, <1>4, <1>5, <1>6, <1>7, <1>8, <1>9, <1>10, <1>11

\* The wait set of the condition variable is the set of blocked workers.
LEMMA WaitStep == TypeOK /\ WaitOK /\ [Next]_vars => WaitOK'
<1> SUFFICES ASSUME TypeOK, WaitOK, [Next]_vars PROVE WaitOK'
  OBVIOUS
<1> USE WorkersAssumption, UnitsAssumption DEF TypeOK, WaitOK
<1>1. ASSUME NEW u \in Units, TranslateRegion(u) PROVE WaitOK'
  BY <1>1, SMTT(30) DEF TranslateRegion, NotifyOne
<1>2. ASSUME NEW u \in Units, InvalidateRegion(u) PROVE WaitOK'
  BY <1>2 DEF InvalidateRegion
<1>3. ASSUME DestroyQueue PROVE WaitOK'
  BY <1>3 DEF DestroyQueue
<1>4. ASSUME SetTerminate \/ NotifyStopped \/ Join \/ Destroyed PROVE WaitOK'
  BY <1>4 DEF SetTerminate, NotifyStopped, NotifyAll, Join, Destroyed
<1>5. ASSUME NEW w \in Workers, Loop(w) \/ Lock(w) \/ Test(w) PROVE WaitOK'
  BY <1>5, SMTT(30) DEF Loop, Lock, Test
<1>6. ASSUME NEW w \in Workers, Park(w) \/ SpuriousWakeup(w) \/ Check(w) PROVE WaitOK'
  BY <1>6, SMTT(30) DEF Park, SpuriousWakeup, Check
<1>7. ASSUME NEW w \in Workers, Take(w) PROVE WaitOK'
  BY <1>7, SMTT(30) DEF Take, Erase
<1>8. ASSUME NEW w \in Workers, Skip(w) PROVE WaitOK'
  BY <1>8 DEF Skip
<1>9. ASSUME NEW w \in Workers, Again(w) \/ Unlock(w) \/ Dispatch(w) PROVE WaitOK'
  BY <1>9, SMTT(30) DEF Again, LooksAgain, Unlock, Dispatch
<1>10. ASSUME NEW w \in Workers, Translate(w) \/ Compile(w) \/ Delete(w) PROVE WaitOK'
  BY <1>10, SMTT(30) DEF Translate, Compile, Delete
<1>11. CASE UNCHANGED vars
  BY <1>11 DEF vars
<1> QED
  BY NextCases, <1>1, <1>2, <1>3, <1>4, <1>5, <1>6, <1>7, <1>8, <1>9, <1>10, <1>11

\* run() knows at each label whether its unit pointer is NULL; when the dequeue
\* loop comes round, the unit it overwrites belongs to an invalidated region.
LEMMA PointerStep == TypeOK /\ WaitOK /\ PointerOK /\ [Next]_vars => PointerOK'
<1> SUFFICES ASSUME TypeOK, WaitOK, PointerOK, [Next]_vars PROVE PointerOK'
  OBVIOUS
<1> USE WorkersAssumption, UnitsAssumption DEF TypeOK, WaitOK, PointerOK
<1>1. ASSUME NEW u \in Units, TranslateRegion(u) PROVE PointerOK'
  BY <1>1, SMTT(30) DEF TranslateRegion, NotifyOne
<1>2. ASSUME NEW u \in Units, InvalidateRegion(u) PROVE PointerOK'
  BY <1>2 DEF InvalidateRegion
<1>3. ASSUME DestroyQueue PROVE PointerOK'
  BY <1>3 DEF DestroyQueue
<1>4. ASSUME SetTerminate \/ NotifyStopped \/ Join \/ Destroyed PROVE PointerOK'
  BY <1>4, SMTT(30) DEF SetTerminate, NotifyStopped, NotifyAll, Join, Destroyed
<1>5. ASSUME NEW w \in Workers, Loop(w) \/ Lock(w) \/ Test(w) PROVE PointerOK'
  BY <1>5, SMTT(30) DEF Loop, Lock, Test
<1>6. ASSUME NEW w \in Workers, Park(w) \/ SpuriousWakeup(w) \/ Check(w) PROVE PointerOK'
  BY <1>6, SMTT(30) DEF Park, SpuriousWakeup, Check
<1>7. ASSUME NEW w \in Workers, Take(w) PROVE PointerOK'
  BY <1>7, SMTT(30) DEF Take, Erase
<1>8. ASSUME NEW w \in Workers, Skip(w) PROVE PointerOK'
  BY <1>8, SMTT(30) DEF Skip
<1>9. ASSUME NEW w \in Workers, Again(w) \/ Unlock(w) \/ Dispatch(w) PROVE PointerOK'
  BY <1>9, SMTT(30) DEF Again, LooksAgain, Unlock, Dispatch
<1>10. ASSUME NEW w \in Workers, Translate(w) \/ Compile(w) \/ Delete(w) PROVE PointerOK'
  BY <1>10, SMTT(30) DEF Translate, Compile, Delete
<1>11. CASE UNCHANGED vars
  BY <1>11 DEF vars
<1> QED
  BY NextCases, <1>1, <1>2, <1>3, <1>4, <1>5, <1>6, <1>7, <1>8, <1>9, <1>10, <1>11

\* A worker parks only on an empty queue, and Destroy leaves the queue empty.
LEMMA EmptyStep == TypeOK /\ LockOK /\ WaitOK /\ EmptyOK /\ [Next]_vars => EmptyOK'
<1> SUFFICES ASSUME TypeOK, LockOK, WaitOK, EmptyOK, [Next]_vars PROVE EmptyOK'
  OBVIOUS
<1> USE WorkersAssumption, UnitsAssumption DEF TypeOK, LockOK, WaitOK, EmptyOK
<1>1. ASSUME NEW u \in Units, TranslateRegion(u) PROVE EmptyOK'
  BY <1>1 DEF TranslateRegion, NotifyOne
<1>2. ASSUME NEW u \in Units, InvalidateRegion(u) PROVE EmptyOK'
  BY <1>2 DEF InvalidateRegion
<1>3. ASSUME DestroyQueue PROVE EmptyOK'
  BY <1>3 DEF DestroyQueue
<1>4. ASSUME SetTerminate \/ NotifyStopped \/ Join \/ Destroyed PROVE EmptyOK'
  BY <1>4 DEF SetTerminate, NotifyStopped, NotifyAll, Join, Destroyed
<1>5. ASSUME NEW w \in Workers, Loop(w) \/ Lock(w) \/ Test(w) PROVE EmptyOK'
  BY <1>5, SMTT(30) DEF Loop, Lock, Test
<1>6. ASSUME NEW w \in Workers, Park(w) \/ SpuriousWakeup(w) \/ Check(w) PROVE EmptyOK'
  BY <1>6, SMTT(30) DEF Park, SpuriousWakeup, Check
<1>7. ASSUME NEW w \in Workers, Take(w) PROVE EmptyOK'
  BY <1>7 DEF Take, Erase
<1>8. ASSUME NEW w \in Workers, Skip(w) PROVE EmptyOK'
  BY <1>8, SMTT(30) DEF Skip
<1>9. ASSUME NEW w \in Workers, Again(w) \/ Unlock(w) \/ Dispatch(w) PROVE EmptyOK'
  BY <1>9, SMTT(30) DEF Again, LooksAgain, Unlock, Dispatch
<1>10. ASSUME NEW w \in Workers, Translate(w) \/ Compile(w) \/ Delete(w) PROVE EmptyOK'
  BY <1>10, SMTT(30) DEF Translate, Compile, Delete
<1>11. CASE UNCHANGED vars
  BY <1>11 DEF vars
<1> QED
  BY NextCases, <1>1, <1>2, <1>3, <1>4, <1>5, <1>6, <1>7, <1>8, <1>9, <1>10, <1>11

\* stop() is called for every worker in turn and join() leaves it finished.
LEMMA StopStep == TypeOK /\ WaitOK /\ StopOK /\ [Next]_vars => StopOK'
<1> SUFFICES ASSUME TypeOK, WaitOK, StopOK, [Next]_vars PROVE StopOK'
  OBVIOUS
<1> USE WorkersAssumption, UnitsAssumption DEF TypeOK, WaitOK, StopOK
<1>1. ASSUME NEW u \in Units, TranslateRegion(u) PROVE StopOK'
  BY <1>1 DEF TranslateRegion, NotifyOne
<1>2. ASSUME NEW u \in Units, InvalidateRegion(u) PROVE StopOK'
  BY <1>2 DEF InvalidateRegion
<1>3. ASSUME DestroyQueue PROVE StopOK'
  BY <1>3 DEF DestroyQueue
<1>4. ASSUME SetTerminate \/ NotifyStopped \/ Join \/ Destroyed PROVE StopOK'
  BY <1>4 DEF SetTerminate, NotifyStopped, NotifyAll, Join, Destroyed
<1>5. ASSUME NEW w \in Workers, Loop(w) \/ Lock(w) \/ Test(w) PROVE StopOK'
  BY <1>5, SMTT(30) DEF Loop, Lock, Test
<1>6. ASSUME NEW w \in Workers, Park(w) \/ SpuriousWakeup(w) \/ Check(w) PROVE StopOK'
  BY <1>6, SMTT(30) DEF Park, SpuriousWakeup, Check
<1>7. ASSUME NEW w \in Workers, Take(w) PROVE StopOK'
  BY <1>7, SMTT(30) DEF Take, Erase
<1>8. ASSUME NEW w \in Workers, Skip(w) PROVE StopOK'
  BY <1>8, SMTT(30) DEF Skip
<1>9. ASSUME NEW w \in Workers, Again(w) \/ Unlock(w) \/ Dispatch(w) PROVE StopOK'
  BY <1>9, SMTT(30) DEF Again, LooksAgain, Unlock, Dispatch
<1>10. ASSUME NEW w \in Workers, Translate(w) \/ Compile(w) \/ Delete(w) PROVE StopOK'
  BY <1>10, SMTT(30) DEF Translate, Compile, Delete
<1>11. CASE UNCHANGED vars
  BY <1>11 DEF vars
<1> QED
  BY NextCases, <1>1, <1>2, <1>3, <1>4, <1>5, <1>6, <1>7, <1>8, <1>9, <1>10, <1>11

\* No step puts the last awake worker to sleep while there is work.
LEMMA WakeupStep == ControlOK /\ NoLostWakeup /\ [Next]_vars => NoLostWakeup'
<1> SUFFICES ASSUME ControlOK, NoLostWakeup, [Next]_vars PROVE NoLostWakeup'
  OBVIOUS
<1> USE WorkersAssumption, UnitsAssumption DEF ControlOK, TypeOK, WaitOK, EmptyOK, StopOK, NoLostWakeup
<1>1. ASSUME NEW u \in Units, TranslateRegion(u) PROVE NoLostWakeup'
  BY <1>1 DEF TranslateRegion, NotifyOne
<1>2. ASSUME NEW u \in Units, InvalidateRegion(u) PROVE NoLostWakeup'
  BY <1>2 DEF InvalidateRegion
<1>3. ASSUME DestroyQueue PROVE NoLostWakeup'
  BY <1>3 DEF DestroyQueue
<1>4. ASSUME SetTerminate \/ NotifyStopped \/ Join \/ Destroyed PROVE NoLostWakeup'
  BY <1>4 DEF SetTerminate, NotifyStopped, NotifyAll, Join, Destroyed
<1>5. ASSUME NEW w \in Workers, Loop(w) \/ Lock(w) \/ Test(w) PROVE NoLostWakeup'
  BY <1>5, SMTT(30) DEF Loop, Lock, Test
<1>6. ASSUME NEW w \in Workers, Park(w) \/ SpuriousWakeup(w) \/ Check(w) PROVE NoLostWakeup'
  BY <1>6, SMTT(30) DEF Park, SpuriousWakeup, Check
<1>7. ASSUME NEW w \in Workers, Take(w) PROVE NoLostWakeup'
  BY <1>7, SMTT(30) DEF Take, Erase
<1>8. ASSUME NEW w \in Workers, Skip(w) PROVE NoLostWakeup'
  BY <1>8, SMTT(30) DEF Skip
<1>9. ASSUME NEW w \in Workers, Again(w) \/ Unlock(w) \/ Dispatch(w) PROVE NoLostWakeup'
  BY <1>9, SMTT(30) DEF Again, LooksAgain, Unlock, Dispatch
<1>10. ASSUME NEW w \in Workers, Translate(w) \/ Compile(w) \/ Delete(w) PROVE NoLostWakeup'
  BY <1>10, SMTT(30) DEF Translate, Compile, Delete
<1>11. CASE UNCHANGED vars
  BY <1>11 DEF vars
<1> QED
  BY NextCases, <1>1, <1>2, <1>3, <1>4, <1>5, <1>6, <1>7, <1>8, <1>9, <1>10, <1>11

\* No step forgets a unit of a valid region while the manager runs.
LEMMA LostStep == ControlOK /\ ValidUnitNotLost /\ [Next]_vars => ValidUnitNotLost'
<1> SUFFICES ASSUME ControlOK, ValidUnitNotLost, [Next]_vars PROVE ValidUnitNotLost'
  OBVIOUS
<1> USE WorkersAssumption, UnitsAssumption DEF ControlOK, TypeOK, PointerOK, StopOK, ValidUnitNotLost
<1>1. ASSUME NEW u \in Units, TranslateRegion(u) PROVE ValidUnitNotLost'
  BY <1>1 DEF TranslateRegion, NotifyOne
<1>2. ASSUME NEW u \in Units, InvalidateRegion(u) PROVE ValidUnitNotLost'
  BY <1>2 DEF InvalidateRegion
<1>3. ASSUME DestroyQueue PROVE ValidUnitNotLost'
  BY <1>3 DEF DestroyQueue
<1>4. ASSUME SetTerminate \/ NotifyStopped \/ Join \/ Destroyed PROVE ValidUnitNotLost'
  BY <1>4 DEF SetTerminate, NotifyStopped, NotifyAll, Join, Destroyed
<1>5. ASSUME NEW w \in Workers, Loop(w) \/ Lock(w) \/ Test(w) PROVE ValidUnitNotLost'
  BY <1>5 DEF Loop, Lock, Test
<1>6. ASSUME NEW w \in Workers, Park(w) \/ SpuriousWakeup(w) \/ Check(w) PROVE ValidUnitNotLost'
  BY <1>6 DEF Park, SpuriousWakeup, Check
<1>7. ASSUME NEW w \in Workers, Take(w) PROVE ValidUnitNotLost'
  BY <1>7, SMTT(30) DEF Take, Erase
<1>8. ASSUME NEW w \in Workers, Skip(w) PROVE ValidUnitNotLost'
  BY <1>8 DEF Skip
<1>9. ASSUME NEW w \in Workers, Again(w) \/ Unlock(w) \/ Dispatch(w) PROVE ValidUnitNotLost'
  BY <1>9 DEF Again, LooksAgain, Unlock, Dispatch
<1>10. ASSUME NEW w \in Workers, Translate(w) \/ Compile(w) \/ Delete(w) PROVE ValidUnitNotLost'
  BY <1>10 DEF Translate, Compile, Delete
<1>11. CASE UNCHANGED vars
  BY <1>11 DEF vars
<1> QED
  BY NextCases, <1>1, <1>2, <1>3, <1>4, <1>5, <1>6, <1>7, <1>8, <1>9, <1>10, <1>11

\* No step puts a unit in two places or in none.
LEMMA OwnerStep == ControlOK /\ OneOwner /\ [Next]_vars => OneOwner'
<1> SUFFICES ASSUME ControlOK, OneOwner, [Next]_vars PROVE OneOwner'
  OBVIOUS
<1> USE WorkersAssumption, UnitsAssumption DEF ControlOK, TypeOK, PointerOK, OneOwner
<1>1. ASSUME NEW u \in Units, TranslateRegion(u) PROVE OneOwner'
  BY <1>1, SMTT(30) DEF TranslateRegion, NotifyOne
<1>2. ASSUME NEW u \in Units, InvalidateRegion(u) PROVE OneOwner'
  BY <1>2, SMTT(30) DEF InvalidateRegion
<1>3. ASSUME DestroyQueue PROVE OneOwner'
  BY <1>3, SMTT(30) DEF DestroyQueue
<1>4. ASSUME SetTerminate \/ NotifyStopped \/ Join \/ Destroyed PROVE OneOwner'
  BY <1>4, SMTT(30) DEF SetTerminate, NotifyStopped, NotifyAll, Join, Destroyed
<1>5. ASSUME NEW w \in Workers, Loop(w) \/ Lock(w) \/ Test(w) PROVE OneOwner'
  BY <1>5, SMTT(30) DEF Loop, Lock, Test
<1>6. ASSUME NEW w \in Workers, Park(w) \/ SpuriousWakeup(w) \/ Check(w) PROVE OneOwner'
  BY <1>6, SMTT(30) DEF Park, SpuriousWakeup, Check
<1>7. ASSUME NEW w \in Workers, Take(w) PROVE OneOwner'
  BY <1>7, SMTT(30) DEF Take, Erase
<1>8. ASSUME NEW w \in Workers, Skip(w) PROVE OneOwner'
  BY <1>8, SMTT(30) DEF Skip
<1>9. ASSUME NEW w \in Workers, Again(w) \/ Unlock(w) \/ Dispatch(w) PROVE OneOwner'
  BY <1>9, SMTT(30) DEF Again, LooksAgain, Unlock, Dispatch
<1>10. ASSUME NEW w \in Workers, Translate(w) \/ Compile(w) \/ Delete(w) PROVE OneOwner'
  BY <1>10, SMTT(30) DEF Translate, Compile, Delete
<1>11. CASE UNCHANGED vars
  BY <1>11, SMTT(30) DEF vars
<1> QED
  BY NextCases, <1>1, <1>2, <1>3, <1>4, <1>5, <1>6, <1>7, <1>8, <1>9, <1>10, <1>11

\* A unit is completed once, by its owner, on its way to being deleted.
LEMMA CompletedStep == ControlOK /\ OneOwner /\ CompletedOK /\ [Next]_vars => CompletedOK'
<1> SUFFICES ASSUME ControlOK, OneOwner, CompletedOK, [Next]_vars PROVE CompletedOK'
  OBVIOUS
<1> USE WorkersAssumption, UnitsAssumption DEF ControlOK, TypeOK, WaitOK, PointerOK, OneOwner, CompletedOK
<1>1. ASSUME NEW u \in Units, TranslateRegion(u) PROVE CompletedOK'
  BY <1>1, SMTT(30) DEF TranslateRegion, NotifyOne
<1>2. ASSUME NEW u \in Units, InvalidateRegion(u) PROVE CompletedOK'
  BY <1>2 DEF InvalidateRegion
<1>3. ASSUME DestroyQueue PROVE CompletedOK'
  BY <1>3 DEF DestroyQueue
<1>4. ASSUME SetTerminate \/ NotifyStopped \/ Join \/ Destroyed PROVE CompletedOK'
  BY <1>4, SMTT(30) DEF SetTerminate, NotifyStopped, NotifyAll, Join, Destroyed
<1>5. ASSUME NEW w \in Workers, Loop(w) \/ Lock(w) \/ Test(w) PROVE CompletedOK'
  BY <1>5, SMTT(30) DEF Loop, Lock, Test
<1>6. ASSUME NEW w \in Workers, Park(w) \/ SpuriousWakeup(w) \/ Check(w) PROVE CompletedOK'
  BY <1>6, SMTT(30) DEF Park, SpuriousWakeup, Check
<1>7. ASSUME NEW w \in Workers, Take(w) PROVE CompletedOK'
  BY <1>7, SMTT(30) DEF Take, Erase
<1>8. ASSUME NEW w \in Workers, Skip(w) PROVE CompletedOK'
  BY <1>8, SMTT(30) DEF Skip
<1>9. ASSUME NEW w \in Workers, Again(w) \/ Unlock(w) \/ Dispatch(w) PROVE CompletedOK'
  BY <1>9, SMTT(30) DEF Again, LooksAgain, Unlock, Dispatch
<1>10. ASSUME NEW w \in Workers, Translate(w) \/ Compile(w) \/ Delete(w) PROVE CompletedOK'
  BY <1>10, SMTT(30) DEF Translate, Compile, Delete
<1>11. CASE UNCHANGED vars
  BY <1>11 DEF vars
<1> QED
  BY NextCases, <1>1, <1>2, <1>3, <1>4, <1>5, <1>6, <1>7, <1>8, <1>9, <1>10, <1>11

-----------------------------------------------------------------------------
(* The theorems.                                                           *)

\* The control part of the inductive invariant: types, lock, wait set, unit
\* pointers, empty queue and progress of stop(), together.
THEOREM ControlInvariant == Spec => []ControlOK
<1>1. Init => ControlOK
  <2> SUFFICES ASSUME Init PROVE ControlOK
    OBVIOUS
  <2>1. TypeOK
    BY InitType
  <2>2. LockOK /\ WaitOK /\ PointerOK /\ EmptyOK /\ StopOK
    BY WorkersAssumption DEF Init, LockOK, WaitOK, PointerOK, EmptyOK, StopOK
  <2> QED
    BY <2>1, <2>2 DEF ControlOK
<1>2. ControlOK /\ [Next]_vars => ControlOK'
  BY TypeStep, LockStep, WaitStep, PointerStep, EmptyStep, StopStep DEF ControlOK
<1> QED
  BY <1>1, <1>2, PTL DEF Spec

\* The variables of the manager and its workers keep their types, for any number
\* of workers, units and spurious wake-ups.
THEOREM TypeCorrect == Spec => []TypeOK
<1>1. ControlOK => TypeOK
  BY DEF ControlOK
<1> QED
  BY <1>1, ControlInvariant, PTL

\* A unit is queued, held by one worker, deleted or forgotten, never two of them:
\* run() and Destroy neither translate a deleted unit nor delete one twice.
THEOREM UnitsHaveOneOwner == Spec => []OneOwner
<1>1. Init => OneOwner
  BY DEF Init, OneOwner
<1> QED
  BY <1>1, OwnerStep, ControlInvariant, PTL DEF Spec

\* The notify_one of TranslateRegion is never lost: while the queue is not empty
\* some worker is neither blocked in wait() nor finished.
THEOREM WakeupsAreNotLost == Spec => []NoLostWakeup
<1>1. Init => NoLostWakeup
  BY DEF Init, NoLostWakeup
<1> QED
  BY <1>1, WakeupStep, ControlInvariant, PTL DEF Spec

\* run() forgets only units of invalidated regions, unless it is being stopped.
THEOREM ValidUnitsAreNotLost == Spec => []ValidUnitNotLost
<1>1. Init => ValidUnitNotLost
  BY DEF Init, ValidUnitNotLost
<1> QED
  BY <1>1, LostStep, ControlInvariant, PTL DEF Spec

\* When Destroy returns, stop() and join() have left every worker finished, the
\* lock free and the queue empty.
THEOREM DestroyedManagerIsQuiet == Spec => []DestroyedIsQuiet
<1>1. ControlOK => DestroyedIsQuiet
  BY DEF ControlOK, TypeOK, LockOK, EmptyOK, StopOK, DestroyedIsQuiet
<1> QED
  BY <1>1, ControlInvariant, PTL

-----------------------------------------------------------------------------
(* The refinement.                                                         *)

\* Deleting one held unit is Destroy of that unit.
LEMMA DestroyOne ==
  ASSUME NEW u \in Units, u \in built, u \notin queue, u \notin deleted,
         deleted' = deleted \cup {u}, UNCHANGED <<built, queue, completed>>
  PROVE Life!Destroy(u)
  BY DEF Life!Destroy

\* Every step of the threads is a step in the life of one unit, the end of all
\* queued units, or nothing that WorkUnits can see.
LEMMA LifeStep ==
  ASSUME ControlOK, OneOwner, CompletedOK, [Next]_vars
  PROVE [Life!AbstractNext]_(Life!abstractVars)
<1> USE WorkersAssumption, UnitsAssumption
        DEF ControlOK, TypeOK, PointerOK, OneOwner, CompletedOK, Life!abstractVars
<1>1. ASSUME NEW u \in Units, TranslateRegion(u) PROVE Life!Enqueue(u)
  BY <1>1, ZenonT(30) DEF TranslateRegion, Life!Enqueue
<1>2. ASSUME NEW u \in Units, InvalidateRegion(u) PROVE UNCHANGED Life!abstractVars
  BY <1>2, SMTT(30) DEF InvalidateRegion
<1>3. ASSUME DestroyQueue PROVE Life!DestroyQueued
  BY <1>3 DEF DestroyQueue, Life!DestroyQueued
<1>4. ASSUME SetTerminate \/ NotifyStopped \/ Join \/ Destroyed
      PROVE UNCHANGED Life!abstractVars
  BY <1>4 DEF SetTerminate, NotifyStopped, NotifyAll, Join, Destroyed
<1>5. ASSUME NEW w \in Workers,
             \/ Loop(w) \/ Lock(w) \/ Test(w) \/ Park(w) \/ SpuriousWakeup(w) \/ Check(w)
             \/ Again(w) \/ Unlock(w) \/ Dispatch(w) \/ Translate(w)
      PROVE UNCHANGED Life!abstractVars
  BY <1>5
     DEF Loop, Lock, Test, Park, SpuriousWakeup, Check, Again, Unlock, Dispatch, Translate
<1>6. ASSUME NEW w \in Workers, Take(w)
      PROVE UNCHANGED Life!abstractVars \/ \E u \in Units : Life!TakeUnit(u)
  <2>1. CASE queue = {}
    BY <1>6, <2>1 DEF Take
  <2>2. CASE queue # {}
    <3>1. PICK u \in queue : queue' = queue \ {u} /\ UNCHANGED <<built, deleted, completed>>
      BY <1>6, <2>2 DEF Take, Erase
    <3>2. Life!TakeUnit(u)
      BY <3>1, SMTT(30) DEF Life!TakeUnit
    <3> QED
      BY <3>1, <3>2
  <2> QED
    BY <2>1, <2>2
<1>7. ASSUME NEW w \in Workers, Skip(w)
      PROVE UNCHANGED Life!abstractVars \/ \E u \in Units : Life!Destroy(u)
  <2>1. CASE unit[w] \in invalid
    <3>1. unit[w] \in Units \ {NoUnit}
      BY <1>7 DEF Skip
    <3>2. unit[w] \in built /\ unit[w] \notin queue /\ unit[w] \notin deleted
      BY <3>1, SMTT(30)
    <3>3. deleted' = deleted \cup {unit[w]} /\ UNCHANGED <<built, queue, completed>>
      BY <1>7, <2>1, <3>1, SMTT(30) DEF Skip
    <3> QED
      BY <3>1, <3>2, <3>3, DestroyOne
  <2>2. CASE unit[w] \notin invalid
    BY <1>7, <2>2 DEF Skip
  <2> QED
    BY <2>1, <2>2
<1>8. ASSUME NEW w \in Workers, Compile(w)
      PROVE UNCHANGED Life!abstractVars \/ \E u \in Units : Life!Translated(u)
  BY <1>8, SMTT(30) DEF Compile, Life!Translated
<1>9. ASSUME NEW w \in Workers, Delete(w) PROVE \E u \in Units : Life!Destroy(u)
  <2>1. unit[w] \in Units \ {NoUnit}
    BY <1>9 DEF Delete
  <2>2. unit[w] \in built /\ unit[w] \notin queue /\ unit[w] \notin deleted
    BY <2>1, SMTT(30)
  <2>3. deleted' = deleted \cup {unit[w]} /\ UNCHANGED <<built, queue, completed>>
    BY <1>9 DEF Delete
  <2> QED
    BY <2>1, <2>2, <2>3, DestroyOne
<1>10. CASE UNCHANGED vars
  BY <1>10 DEF vars
<1> QED
  BY NextCases, <1>1, <1>2, <1>3, <1>4, <1>5, <1>6, <1>7, <1>8, <1>9, <1>10
     DEF Life!AbstractNext

\* The worker pool implements WorkUnits: a unit is queued once, taken by one
\* owner, translated at most once while owned, and destroyed at most once.
THEOREM Refinement == Spec => ImplementsWorkUnits
<1>1. Init => CompletedOK /\ Life!AbstractInit
  BY UnitsAssumption DEF Init, CompletedOK, Life!AbstractInit
<1> QED
  BY <1>1, LifeStep, CompletedStep, ControlInvariant, UnitsHaveOneOwner, PTL
     DEF Spec, ImplementsWorkUnits, Life!AbstractSpec
=============================================================================
