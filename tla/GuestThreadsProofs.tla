------------------------ MODULE GuestThreadsProofs ------------------------
(***************************************************************************)
(* Proofs about the life of the guest's threads (EngineLifecycle) and the  *)
(* monitor behind their atomics (MemoryMonitor).                           *)
(*                                                                         *)
(* EngineLifecycle: for any finite set of addresses at which thread        *)
(* objects may be allocated.  StartOK says which contexts still have no    *)
(* host thread: those that Start's loop has not reached, the one that      *)
(* AttachThread is adding and those that are in no map.  SystemOK says     *)
(* what the main thread's loops have done in system emulation, where       *)
(* nothing is attached meanwhile.                                          *)
(*                                                                         *)
(* MemoryMonitor: for any number of threads and addresses and any kind of  *)
(* guest program.  Both properties rest on mutual exclusion: a thread is   *)
(* at a label between Lock and Unlock exactly when it owns the lock        *)
(* (OwnerOK).  What LL/SC adds is that a thread whose link is stale either *)
(* has lost its monitor or has a writer in front of its Notify, which      *)
(* still owns the lock (LinkOK).                                           *)
(***************************************************************************)
EXTENDS EngineLifecycle, MemoryMonitor, FiniteSetTheorems, TLAPS

\* The prover of a leaf that names none.
USE Zenon

-----------------------------------------------------------------------------
(* The life of the guest's threads.                                        *)

MainPlaces == {"run", "start", "join", "wait", "returned", "detach", "destroyed"}

LifeTypeOK ==
  /\ userMode \in BOOLEAN
  /\ first \in ThreadObjects
  /\ engine \in {"Ready", "Running", "Halted"}
  /\ ctx \in [ThreadObjects -> {"none", "unset", "Ready", "Running", "Halted"}]
  /\ worker \in [ThreadObjects -> {"none", "running", "exited", "joined"}]
  /\ lock \in {Free, Main} \cup ThreadObjects
  /\ adding \in {Free} \cup ThreadObjects
  /\ main \in MainPlaces
  /\ cursor \in Nat

\* The contexts without a host thread.
StartOK ==
  /\ fault # "started_twice"
  /\ engine = "Ready" <=> main = "run"
  /\ main = "run" => lock = Free /\ \A t \in ThreadObjects : worker[t] = "none"
  /\ main = "start" => /\ lock = Main /\ engine = "Running"
                       /\ \A t \in Attached : worker[t] = "none" <=> cursor < t
  /\ lock = Main => main = "start"
  /\ lock \in ThreadObjects => /\ userMode /\ adding \in Attached
                         /\ worker[adding] = "none"
  /\ engine = "Running" /\ main # "start" =>
       \A t \in Attached : worker[t] = "none" => lock \in ThreadObjects /\ t = adding
  /\ userMode => main # "detach" /\ \A t \in ThreadObjects \ Attached : worker[t] = "none"

\* A context that was started and not joined.
Started(t) == ctx[t] = "Running" /\ worker[t] \in {"running", "exited"}

\* System emulation.
SystemOK ==
  ~userMode =>
    /\ fault = "none"
    /\ main \notin {"detach", "destroyed"} => Attached = ThreadObjects
    /\ main = "start" => \A t \in ThreadObjects : t <= cursor => Started(t)
    /\ main = "join" => \A t \in ThreadObjects : IF t <= cursor THEN worker[t] = "joined" ELSE Started(t)
    /\ main = "wait" => \A t \in ThreadObjects : IF t < cursor THEN worker[t] = "joined" ELSE Started(t)
    /\ main \in {"returned", "detach", "destroyed"} => \A t \in ThreadObjects : worker[t] = "joined"
    /\ main = "detach" => engine = "Halted"

LifeInv == LifeTypeOK /\ StartOK /\ SystemOK

-----------------------------------------------------------------------------
(* Numbers.                                                                *)

\* A nonempty set of naturals has a least element.
LEMMA LeastExists ==
  ASSUME NEW S \in SUBSET Nat, S # {}
  PROVE \E m \in S : \A n \in S : m <= n
<1>1. PICK m \in S : \A n \in S : <<n, m>> \notin OpToRel(<, Nat)
  BY NatLessThanWellFounded, WFMin
<1>2. \A n \in S : ~(n < m)
  BY <1>1 DEF OpToRel
<1> QED
  BY <1>2, SMTT(30)

\* A nonempty finite set of naturals has a greatest element: a smallest set
\* without one would still have none after losing an element.
LEMMA GreatestExists ==
  ASSUME NEW S \in SUBSET Nat, IsFiniteSet(S), S # {}
  PROVE \E m \in S : \A n \in S : n <= m
<1> DEFINE HasMax(U) == \E m \in U : \A n \in U : n <= m
           Without == {U \in SUBSET S : U # {} /\ ~HasMax(U)}
<1>1. SUFFICES ASSUME Without # {} PROVE FALSE
  BY <1>1
<1>2. IsWellFoundedOn(StrictSubsetOrdering(S), SUBSET S)
  BY FS_StrictSubsetOrderingWellFounded, FS_FiniteSubsetsOfFinite
<1>3. PICK U \in Without : \A V \in Without : <<V, U>> \notin StrictSubsetOrdering(S)
  BY <1>1, <1>2, WFMin
<1>4. PICK x \in U : TRUE
  OBVIOUS
<1>5. U \ {x} \notin Without
  BY <1>3, <1>4 DEF StrictSubsetOrdering
<1>6. CASE U = {x}
  BY <1>3, <1>6, SMTT(30)
<1>7. CASE U \ {x} # {}
  <2>1. PICK m \in U \ {x} : \A n \in U \ {x} : n <= m
    BY <1>5, <1>7
  <2>2. HasMax(U)
    BY <2>1, SMTT(30)
  <2> QED
    BY <1>3, <2>2
<1> QED
  BY <1>4, <1>6, <1>7

\* The main thread is told from the workers, and from no thread, as an owner of lock_.
LEMMA MainIsNoThread ==
  /\ Main \notin ThreadObjects /\ Main # Free /\ Free \notin ThreadObjects
  /\ ThreadObjects \subseteq Nat /\ \A t \in ThreadObjects : 0 < t
<1>1. ThreadObjects \in SUBSET Nat /\ IsFiniteSet(ThreadObjects) /\ ThreadObjects # {} /\ 0 \notin ThreadObjects
  BY ThreadObjectsAssumption
<1>2. Max(ThreadObjects) \in ThreadObjects /\ \A n \in ThreadObjects : n <= Max(ThreadObjects)
  BY <1>1, GreatestExists DEF Max
<1>3. Max(ThreadObjects) \in Nat
  BY <1>1, <1>2
<1>4. \A t \in ThreadObjects : t \in Nat /\ t # 0
  BY <1>1
<1> QED
  BY <1>1, <1>2, <1>3, <1>4, SMTT(30) DEF Main, Free

\* The loops over the map take the contexts in the order of their addresses.
LEMMA NextInMap ==
  ASSUME After(cursor) # {}
  PROVE /\ Min(After(cursor)) \in Attached
        /\ cursor < Min(After(cursor))
        /\ \A t \in Attached : cursor < t => Min(After(cursor)) <= t
<1>1. After(cursor) \in SUBSET Nat
  BY MainIsNoThread DEF After, Attached
<1>2. Min(After(cursor)) \in After(cursor) /\ \A n \in After(cursor) : Min(After(cursor)) <= n
  BY <1>1, LeastExists DEF Min
<1> QED
  BY <1>2 DEF After

-----------------------------------------------------------------------------
(* Types.                                                                  *)

\* Every variable keeps its type.
LEMMA LifeTypeStep == LifeTypeOK /\ [EngineNext]_engineVars => LifeTypeOK'
<1> SUFFICES ASSUME LifeTypeOK, [EngineNext]_engineVars PROVE LifeTypeOK'
  OBVIOUS
<1> USE DEF LifeTypeOK, MainPlaces, mode
<1>1. CASE Start
  BY <1>1 DEF Start
<1>2. CASE StartNext
  <2>1. cursor' \in ThreadObjects /\ cursor' \in Nat
    BY <1>2, NextInMap, MainIsNoThread DEF StartNext, Attached
  <2> QED
    BY <1>2, <2>1 DEF StartNext, StartContext
<1>3. CASE StartDone
  BY <1>3 DEF StartDone
<1>4. CASE JoinNext
  <2>1. cursor' \in Nat
    BY <1>4, NextInMap, MainIsNoThread DEF JoinNext, Attached
  <2> QED
    BY <1>4, <2>1 DEF JoinNext
<1>5. CASE JoinWorker
  BY <1>5 DEF JoinWorker
<1>6. CASE JoinDone \/ DestroyUser \/ DetachDone
  BY <1>6 DEF JoinDone, DestroyUser, DetachDone
<1>7. CASE EngineHalt
  BY <1>7 DEF EngineHalt
<1>8. ASSUME NEW t \in ThreadObjects, DetachThread(t) PROVE LifeTypeOK'
  BY <1>8 DEF DetachThread
<1>9. CASE HaltSimulation
  BY <1>9 DEF HaltSimulation
<1>10. ASSUME NEW t \in ThreadObjects, LoopEnds(t) \/ Abort(t) PROVE LifeTypeOK'
  BY <1>10 DEF LoopEnds, Abort, Exit
<1>11. ASSUME NEW t \in ThreadObjects, SysExit(t) PROVE LifeTypeOK'
  BY <1>11 DEF SysExit
<1>12. ASSUME NEW t \in ThreadObjects, CloneStart(t) PROVE LifeTypeOK'
  BY <1>12 DEF CloneStart, StartContext
<1>13. ASSUME NEW t \in ThreadObjects, NEW new \in ThreadObjects, Clone(t, new) PROVE LifeTypeOK'
  BY <1>13 DEF Clone
<1>14. CASE UNCHANGED engineVars
  BY <1>14 DEF engineVars
<1> QED
  BY <1>1, <1>2, <1>3, <1>4, <1>5, <1>6, <1>7, <1>8, <1>9, <1>10, <1>11, <1>12, <1>13, <1>14
     DEF EngineNext, MainStep, WorkerStep

-----------------------------------------------------------------------------
(* Starting.                                                               *)

\* Start and AttachThread between them leave no attached context without a host
\* thread, and give none a second one.
LEMMA StartStep ==
  LifeTypeOK /\ StartOK /\ [EngineNext]_engineVars => StartOK'
<1> SUFFICES ASSUME LifeTypeOK, StartOK, [EngineNext]_engineVars PROVE StartOK'
  OBVIOUS
<1>a. /\ Main \notin ThreadObjects /\ Main # Free /\ Free \notin ThreadObjects
      /\ ThreadObjects \subseteq Nat /\ \A t \in ThreadObjects : 0 < t
  BY MainIsNoThread
<1> USE DEF LifeTypeOK, StartOK, Attached, mode
<1>1. CASE Start
  BY <1>1, <1>a DEF Start
<1>2. CASE StartNext
  <2> DEFINE c == Min(After(cursor))
  <2>1. /\ c \in ThreadObjects /\ c \in Attached /\ cursor < c
        /\ \A t \in Attached : cursor < t => c <= t
    BY <1>2, NextInMap DEF StartNext
  <2>2. /\ cursor' = c
        /\ ctx' = [ctx EXCEPT ![c] = "Running"] /\ worker' = [worker EXCEPT ![c] = "running"]
        /\ fault' = IF worker[c] = "none" THEN "none" ELSE "started_twice"
        /\ main = "start" /\ UNCHANGED <<userMode, adding, engine, lock, main>>
    BY <1>2 DEF StartNext, StartContext
  <2> HIDE DEF c
  <2>3. worker[c] = "none"
    BY <2>1, <2>2
  <2>4. Attached' = Attached
    BY <2>1, <2>2
  <2>5. ASSUME NEW t \in Attached PROVE worker'[t] = "none" <=> cursor' < t
    <3>1. t \in Nat /\ c \in Nat /\ cursor \in Nat
      BY <1>a, <2>1
    <3>2. CASE t = c
      BY <2>1, <2>2, <3>1, <3>2, SMTT(30)
    <3>3. CASE t # c
      <4>1. worker'[t] = worker[t] /\ (worker[t] = "none" <=> cursor < t)
        BY <2>2, <3>3
      <4>2. cursor < t => c <= t
        BY <2>1
      <4> QED
        BY <2>1, <2>2, <3>1, <3>3, <4>1, <4>2, SMTT(30)
    <3> QED
      BY <3>2, <3>3
  <2> QED
    BY <1>a, <2>1, <2>2, <2>3, <2>4, <2>5, SMTT(30)
<1>3. CASE StartDone
  <2>1. \A t \in Attached : worker[t] # "none"
    BY <1>3 DEF StartDone, After
  <2> QED
    BY <1>3, <1>a, <2>1 DEF StartDone
<1>4. CASE JoinNext
  BY <1>4 DEF JoinNext, Alive
<1>5. CASE JoinWorker
  BY <1>5, <1>a DEF JoinWorker, Alive
<1>6. CASE JoinDone \/ DestroyUser \/ DetachDone
  BY <1>6, SMTT(30) DEF JoinDone, DestroyUser, DetachDone, Alive
<1>7. CASE EngineHalt
  BY <1>7, <1>a DEF EngineHalt, Alive
<1>8. ASSUME NEW t \in ThreadObjects, DetachThread(t) PROVE StartOK'
  BY <1>8, <1>a DEF DetachThread, Alive
<1>9. CASE HaltSimulation
  BY <1>9 DEF HaltSimulation, Alive
<1>10. ASSUME NEW t \in ThreadObjects, LoopEnds(t) \/ Abort(t) PROVE StartOK'
  <2>1. /\ worker[t] = "running" /\ worker' = [worker EXCEPT ![t] = "exited"]
        /\ UNCHANGED <<mode, adding, engine, ctx, lock, main, cursor, fault>>
    BY <1>10 DEF LoopEnds, Abort, Exit, Running
  <2>2. \A u \in ThreadObjects : worker'[u] = "none" <=> worker[u] = "none"
    BY <2>1
  <2> QED
    BY <2>1, <2>2
<1>11. ASSUME NEW t \in ThreadObjects, SysExit(t) PROVE StartOK'
  BY <1>11 DEF SysExit, Running, Alive
<1>12. ASSUME NEW t \in ThreadObjects, CloneStart(t) PROVE StartOK'
  <2>1. /\ lock \in ThreadObjects /\ lock' = Free /\ adding \in Attached /\ worker[adding] = "none"
        /\ main # "start" /\ main # "run" /\ fault = "none"
        /\ UNCHANGED <<userMode, engine, main, cursor>>
    BY <1>12, <1>a DEF CloneStart, Running, Alive
  <2>2. CASE engine = "Running"
    <3>1. /\ ctx' = [ctx EXCEPT ![adding] = "Running"]
          /\ worker' = [worker EXCEPT ![adding] = "running"] /\ fault' = "none"
      BY <1>12, <2>1, <2>2 DEF CloneStart, StartContext
    <3>2. Attached' = Attached
      BY <2>1, <3>1
    <3>3. \A u \in ThreadObjects : u # adding => worker'[u] = worker[u]
      BY <3>1
    <3>4. \A u \in Attached : worker'[u] # "none"
      BY <2>1, <2>2, <3>1, <3>3
    <3> QED
      BY <1>a, <2>1, <2>2, <3>1, <3>2, <3>3, <3>4, SMTT(30)
  <2>3. CASE engine # "Running"
    BY <1>12, <1>a, <2>1, <2>3 DEF CloneStart
  <2> QED
    BY <2>2, <2>3
<1>13. ASSUME NEW t \in ThreadObjects, NEW new \in ThreadObjects, Clone(t, new) PROVE StartOK'
  <2>1. /\ lock = Free /\ lock' = t /\ adding' = new /\ new \notin Attached /\ userMode
        /\ ctx' = [ctx EXCEPT ![new] = "unset"] /\ worker[t] = "running" /\ fault = "none"
        /\ UNCHANGED <<userMode, engine, worker, main, cursor, fault>>
    BY <1>13 DEF Clone, Running, Alive
  <2>2. main # "start" /\ main # "run" /\ worker[new] = "none"
    BY <1>a, <2>1
  <2>3. Attached' = Attached \cup {new}
    BY <2>1, SMTT(30)
  <2> QED
    BY <1>a, <2>1, <2>2, <2>3
<1>14. CASE UNCHANGED engineVars
  BY <1>14 DEF engineVars
<1> QED
  BY <1>1, <1>2, <1>3, <1>4, <1>5, <1>6, <1>7, <1>8, <1>9, <1>10, <1>11, <1>12, <1>13,
     <1>14, ZenonT(30)
     DEF EngineNext, MainStep, WorkerStep

-----------------------------------------------------------------------------
(* System emulation.                                                       *)

\* The main thread joins every worker before it destroys anything.
LEMMA SystemStep ==
  LifeTypeOK /\ StartOK /\ SystemOK /\ [EngineNext]_engineVars => SystemOK'
<1> SUFFICES ASSUME LifeTypeOK, StartOK, SystemOK, [EngineNext]_engineVars, ~userMode' PROVE SystemOK'
  BY DEF SystemOK
<1>a. /\ ~userMode /\ lock \notin ThreadObjects /\ ThreadObjects \subseteq Nat
      /\ \A t \in ThreadObjects : t \in Nat /\ 0 < t
  <2>1. userMode' = userMode
    BY DEF EngineNext, MainStep, WorkerStep, Start, StartNext, StartDone, JoinNext,
           JoinWorker, JoinDone, DestroyUser, EngineHalt, DetachDone, DetachThread,
           HaltSimulation, LoopEnds, Abort, Exit, SysExit, CloneStart, Clone, mode,
           engineVars
  <2> QED
    BY <2>1, MainIsNoThread DEF StartOK
<1> USE DEF LifeTypeOK, SystemOK, Started, Attached
<1>1. CASE Start
  BY <1>1, <1>a, SMTT(30) DEF Start, StartOK
<1>2. CASE StartNext
  <2> DEFINE c == Min(After(cursor))
  <2>1. /\ c \in ThreadObjects /\ c \in Attached /\ cursor < c
        /\ \A t \in Attached : cursor < t => c <= t
    BY <1>2, NextInMap DEF StartNext
  <2>2. /\ cursor' = c
        /\ ctx' = [ctx EXCEPT ![c] = "Running"] /\ worker' = [worker EXCEPT ![c] = "running"]
        /\ fault' = IF worker[c] = "none" THEN "none" ELSE "started_twice"
        /\ main = "start" /\ main' = main
    BY <1>2 DEF StartNext, StartContext
  <2> HIDE DEF c
  <2>3. worker[c] = "none"
    BY <2>1, <2>2 DEF StartOK
  <2>4. Attached' = ThreadObjects
    BY <1>a, <2>1, <2>2
  <2>5. ASSUME NEW t \in ThreadObjects, t <= c PROVE Started(t)'
    <3>1. CASE t = c
      BY <2>1, <2>2, <3>1
    <3>2. CASE t # c
      <4>1. t <= cursor
        BY <1>a, <2>1, <2>2, <2>5, <3>2, SMTT(30)
      <4> QED
        BY <1>a, <2>2, <3>2, <4>1
    <3> QED
      BY <3>1, <3>2
  <2> QED
    BY <2>2, <2>3, <2>4, <2>5
<1>3. CASE StartDone
  <2>1. \A t \in ThreadObjects : t <= cursor
    BY <1>3, <1>a, SMTT(30) DEF StartDone, After
  <2> QED
    BY <1>3, <1>a, <2>1, SMTT(30) DEF StartDone
<1>4. CASE JoinNext
  <2> DEFINE c == Min(After(cursor))
  <2>1. /\ c \in ThreadObjects /\ cursor < c
        /\ \A t \in Attached : cursor < t => c <= t
    BY <1>4, NextInMap DEF JoinNext
  <2>2. /\ cursor' = c /\ main = "join"
        /\ UNCHANGED <<ctx, worker, engine>>
    BY <1>4 DEF JoinNext
  <2> HIDE DEF c
  <2>3. Started(c)
    BY <1>a, <2>1, <2>2, SMTT(30)
  <2>4. main' = "wait" /\ UNCHANGED fault
    BY <1>4, <2>2, <2>3 DEF JoinNext
  <2>5. ASSUME NEW t \in ThreadObjects
        PROVE IF t < c THEN worker[t] = "joined" ELSE Started(t)
    <3>1. t < c => t <= cursor
      BY <1>a, <2>1, <2>2, SMTT(30)
    <3>2. ~(t < c) => cursor < t
      BY <1>a, <2>1, SMTT(30)
    <3> QED
      BY <1>a, <2>2, <3>1, <3>2, SMTT(30)
  <2> QED
    BY <1>a, <2>2, <2>4, <2>5
<1>5. CASE JoinWorker
  <2>1. /\ main = "wait" /\ main' = "join" /\ UNCHANGED <<cursor, engine, fault>>
        /\ worker[cursor] = "exited"
        /\ ctx' = [ctx EXCEPT ![cursor] = "Ready"]
        /\ worker' = [worker EXCEPT ![cursor] = "joined"]
    BY <1>5 DEF JoinWorker
  <2>2. ASSUME NEW t \in ThreadObjects
        PROVE IF t <= cursor THEN worker'[t] = "joined" ELSE Started(t)'
    BY <1>a, <2>1, SMTT(30)
  <2>3. Attached' = ThreadObjects
    BY <1>a, <2>1
  <2> QED
    BY <1>a, <2>1, <2>2, <2>3
<1>6. CASE JoinDone
  <2>1. \A t \in ThreadObjects : t <= cursor
    BY <1>6, <1>a, SMTT(30) DEF JoinDone, After
  <2> QED
    BY <1>6, <1>a, <2>1 DEF JoinDone
<1>7. CASE DestroyUser \/ DetachDone
  BY <1>7, <1>a DEF DestroyUser, DetachDone
<1>8. CASE EngineHalt
  BY <1>8, <1>a DEF EngineHalt
<1>9. ASSUME NEW t \in ThreadObjects, DetachThread(t) PROVE SystemOK'
  BY <1>9, <1>a DEF DetachThread
<1>10. CASE HaltSimulation
  BY <1>10, <1>a DEF HaltSimulation
<1>11. ASSUME NEW t \in ThreadObjects, LoopEnds(t) \/ Abort(t) PROVE SystemOK'
  <2>1. /\ worker[t] = "running" /\ worker' = [worker EXCEPT ![t] = "exited"]
        /\ UNCHANGED <<engine, ctx, main, cursor, fault>>
    BY <1>11 DEF LoopEnds, Abort, Exit, Running
  <2>2. \A u \in ThreadObjects : /\ worker[u] = "joined" => worker'[u] = "joined"
                           /\ Started(u) => Started(u)'
    BY <2>1
  <2> QED
    BY <1>a, <2>1, <2>2, SMTT(30)
<1>12. ASSUME NEW t \in ThreadObjects, SysExit(t) \/ CloneStart(t) \/ \E new \in ThreadObjects : Clone(t, new)
       PROVE FALSE
  BY <1>12, <1>a DEF SysExit, CloneStart, Clone
<1>13. CASE UNCHANGED engineVars
  BY <1>13, <1>a DEF engineVars
<1> QED
  BY <1>1, <1>2, <1>3, <1>4, <1>5, <1>6, <1>7, <1>8, <1>9, <1>10, <1>11, <1>12, <1>13,
     ZenonT(30)
     DEF EngineNext, MainStep, WorkerStep

-----------------------------------------------------------------------------
\* The host threads of the contexts are as StartOK and SystemOK say.
THEOREM LifeInvariant == EngineSpec => []LifeInv
<1>1. EngineInit => LifeInv
  <2> SUFFICES ASSUME EngineInit PROVE LifeInv
    OBVIOUS
  <2>1. ThreadObjects \in SUBSET Nat /\ ThreadObjects # {}
    BY ThreadObjectsAssumption
  <2>2. Min(ThreadObjects) \in ThreadObjects
    BY <2>1, LeastExists DEF Min
  <2>3. LifeTypeOK
    BY <2>2 DEF EngineInit, LifeTypeOK, MainPlaces
  <2>4. StartOK
    BY MainIsNoThread DEF EngineInit, StartOK
  <2>5. SystemOK
    BY DEF EngineInit, SystemOK, Attached
  <2> QED
    BY <2>3, <2>4, <2>5 DEF LifeInv
<1>2. LifeInv /\ [EngineNext]_engineVars => LifeInv'
  BY LifeTypeStep, StartStep, SystemStep DEF LifeInv
<1> QED
  BY <1>1, <1>2, PTL DEF EngineSpec

\* However a guest's clones interleave with Start, every attached context is
\* started, and none twice.
THEOREM ThreadsStartOnce == EngineSpec => []StartedOnce
<1>1. LifeInv => StartedOnce
  BY MainIsNoThread DEF LifeInv, LifeTypeOK, StartOK, StartedOnce
<1> QED
  BY LifeInvariant, <1>1, PTL

\* In system emulation RunSimulation returns when every worker has ended, and
\* destroying the system then kills no joinable thread.
THEOREM SystemShutdownIsClean == EngineSpec => []CleanShutdown
<1>1. LifeInv => CleanShutdown
  BY DEF LifeInv, SystemOK, CleanShutdown, ReturnsWhenDone, Alive
<1> QED
  BY LifeInvariant, <1>1, PTL

-----------------------------------------------------------------------------
(* The monitor behind the guest's atomics.                                 *)

Locked == {"sc_write", "sc_notify", "amo_read", "amo_write", "amo_unlock"}
InAmo == {"amo_read", "amo_write", "amo_unlock"}
Places == Locked \cup {"idle", "lr_read"}
MaybeAddr == Addrs \cup {None}

TypeOK ==
  /\ program \in Programs
  /\ monitors \in [Threads -> MaybeAddr]
  /\ owner \in Threads \cup {None}
  /\ pc \in [Threads -> [at : Places, addr : MaybeAddr]]
  /\ linked \in [Threads -> MaybeAddr]
  /\ staleLink \subseteq Threads /\ staleRead \subseteq Threads
  /\ undefined \in {"none", "skip", "crash"}

\* The thread that locked_thread_ names is the one inside a locked section.
OwnerOK == \A t \in Threads : pc[t].at \in Locked <=> owner = t

\* Only a program with amos is in one, and every instruction has an address.
ProgramOK ==
  \A t \in Threads : /\ pc[t].at \in InAmo => "amo" \in program
                     /\ pc[t].at # "idle" => pc[t].addr \in Addrs

\* Another thread has written the linked address and is about to notify.
Breaking(t) == \E u \in Threads \ {t} : pc[u].at = "sc_notify" /\ pc[u].addr = linked[t]

\* A link that another thread's sc has broken cannot be used: the monitor is gone,
\* or the writer is about to remove it and still has the lock.
Link(t) ==
  /\ pc[t].at = "lr_read" => linked[t] = None /\ t \notin staleLink
  /\ linked[t] # None /\ t \in staleLink => monitors[t] # linked[t] \/ Breaking(t)

LinkOK == program = {"llsc"} /\ undefined = "none" => \A t \in Threads : Link(t)

MonitorInv == TypeOK /\ OwnerOK /\ ProgramOK /\ LinkOK /\ LLSCIsAtomic /\ AmoIsAtomic

USE NoneAssumption
USE DEF Locked, InAmo, Places, MaybeAddr

\* The invariant holds when no guest thread has issued an instruction yet.
LEMMA MonitorInit == Init => MonitorInv
<1> SUFFICES ASSUME Init PROVE MonitorInv
  OBVIOUS
<1> USE DEF Init, Idle
<1>1. TypeOK
  BY DEF TypeOK
<1>2. OwnerOK /\ ProgramOK /\ LinkOK
  BY DEF OwnerOK, ProgramOK, LinkOK, Link
<1>3. LLSCIsAtomic /\ AmoIsAtomic
  BY DEF LLSCIsAtomic, ScIsAtomic, AmoIsAtomic
<1> QED
  BY <1>1, <1>2, <1>3 DEF MonitorInv

\* The actions of Next, one at a time.
LEMMA MonitorCases ==
  ASSUME [Next]_vars
  PROVE \/ \E t \in Threads :
             /\ UNCHANGED program
             /\ \/ LrRead(t) \/ ScWrite(t) \/ ScFault(t) \/ Notify(t)
                \/ AmoRead(t) \/ AmoWrite(t) \/ MemUnlock(t) \/ HandleMemoryFault(t)
                \/ LockMonitor(t)
                \/ \E a \in Addrs : AcquireMonitor(t, a) \/ MemLock(t, a) \/ Store(t, a)
        \/ UNCHANGED vars
  BY DEF Next, Continue, Begin

USE DEF Goto, Return, At, Issue, Idle, Notified

\* Every step of the monitor and of the guest's atomics keeps the types.
LEMMA MonitorTypeStep == TypeOK /\ [Next]_vars => TypeOK'
<1> SUFFICES ASSUME TypeOK, [Next]_vars PROVE TypeOK'
  OBVIOUS
<1> USE DEF TypeOK
<1>1. ASSUME NEW t \in Threads, UNCHANGED program, LrRead(t) \/ ScWrite(t) \/ ScFault(t)
      PROVE TypeOK'
  BY <1>1, SMTT(30) DEF LrRead, ScWrite, ScFault, Writes
<1>2. ASSUME NEW t \in Threads, UNCHANGED program, Notify(t) PROVE TypeOK'
  BY <1>2, SMTT(30) DEF Notify
<1>3. ASSUME NEW t \in Threads, UNCHANGED program,
             AmoRead(t) \/ AmoWrite(t) \/ MemUnlock(t) \/ HandleMemoryFault(t)
      PROVE TypeOK'
  BY <1>3, SMTT(30) DEF AmoRead, AmoWrite, MemUnlock, HandleMemoryFault, Writes
<1>4. ASSUME NEW t \in Threads, UNCHANGED program, LockMonitor(t) PROVE TypeOK'
  BY <1>4, SMTT(30) DEF LockMonitor
<1>5. ASSUME NEW t \in Threads, NEW a \in Addrs, UNCHANGED program,
             AcquireMonitor(t, a) \/ MemLock(t, a) \/ Store(t, a)
      PROVE TypeOK'
  BY <1>5, SMTT(30) DEF AcquireMonitor, MemLock, Store, Writes
<1>6. CASE UNCHANGED vars
  BY <1>6 DEF vars
<1> QED
  BY MonitorCases, <1>1, <1>2, <1>3, <1>4, <1>5, <1>6

\* Every step keeps the owner of the monitor's lock inside a locked section, and
\* issues only instructions of the guest's program.
LEMMA OwnerStep ==
  TypeOK /\ OwnerOK /\ ProgramOK /\ [Next]_vars => OwnerOK' /\ ProgramOK'
<1> SUFFICES ASSUME TypeOK, OwnerOK, ProgramOK, [Next]_vars PROVE OwnerOK' /\ ProgramOK'
  OBVIOUS
<1> USE DEF TypeOK, OwnerOK, ProgramOK
<1>1. ASSUME NEW t \in Threads, UNCHANGED program, LrRead(t) \/ ScWrite(t) \/ ScFault(t)
      PROVE OwnerOK' /\ ProgramOK'
  BY <1>1, SMTT(30) DEF LrRead, ScWrite, ScFault
<1>2. ASSUME NEW t \in Threads, UNCHANGED program, Notify(t) PROVE OwnerOK' /\ ProgramOK'
  BY <1>2, SMTT(30) DEF Notify
<1>3. ASSUME NEW t \in Threads, UNCHANGED program,
             AmoRead(t) \/ AmoWrite(t) \/ MemUnlock(t) \/ HandleMemoryFault(t)
      PROVE OwnerOK' /\ ProgramOK'
  BY <1>3, SMTT(30) DEF AmoRead, AmoWrite, MemUnlock, HandleMemoryFault
<1>4. ASSUME NEW t \in Threads, UNCHANGED program, LockMonitor(t)
      PROVE OwnerOK' /\ ProgramOK'
  BY <1>4, SMTT(30) DEF LockMonitor
<1>5. ASSUME NEW t \in Threads, NEW a \in Addrs, UNCHANGED program,
             AcquireMonitor(t, a) \/ MemLock(t, a) \/ Store(t, a)
      PROVE OwnerOK' /\ ProgramOK'
  BY <1>5, SMTT(30) DEF AcquireMonitor, MemLock, Store
<1>6. CASE UNCHANGED vars
  BY <1>6 DEF vars
<1> QED
  BY MonitorCases, <1>1, <1>2, <1>3, <1>4, <1>5, <1>6

\* A write that breaks the link of another thread is made by the owner of the
\* lock, and its Notify removes that thread's monitor before the lock is free.
LEMMA LinkStep ==
  TypeOK /\ OwnerOK /\ ProgramOK /\ LinkOK /\ [Next]_vars => LinkOK'
<1> SUFFICES ASSUME TypeOK, OwnerOK, ProgramOK, LinkOK, [Next]_vars,
                    program' = {"llsc"}, undefined' = "none", NEW w \in Threads
             PROVE Link(w)'
  BY DEF LinkOK
<1> USE DEF TypeOK, OwnerOK, ProgramOK, LinkOK, Link, Breaking
<1>1. ASSUME NEW t \in Threads, UNCHANGED program, LrRead(t) PROVE Link(w)'
  BY <1>1, SMTT(30) DEF LrRead
<1>2. ASSUME NEW t \in Threads, UNCHANGED program, ScWrite(t) PROVE Link(w)'
  <2>1. pc'[t].at = "sc_notify" /\ pc'[t].addr = pc[t].addr
    BY <1>2 DEF ScWrite
  <2>2. \A u \in Threads \ {t} : pc'[u] = pc[u] /\ pc[u].at \notin Locked
    BY <1>2 DEF ScWrite
  <2>3. CASE w = t
    BY <1>2, <2>1, <2>2, <2>3 DEF ScWrite, Writes
  <2>4. CASE w # t /\ linked[w] = pc[t].addr
    <3>1. Breaking(w)'
      BY <1>2, <2>1, <2>4 DEF ScWrite
    <3>2. pc[t].at = "sc_write" /\ pc[t].addr \in Addrs
      BY <1>2 DEF ScWrite
    <3>3. linked[w] # None /\ pc'[w] = pc[w] /\ undefined = "none"
      BY <1>2, <2>2, <2>4, <3>2, SMTT(30) DEF ScWrite
    <3> QED
      BY <1>2, <3>1, <3>3
  <2>5. CASE w # t /\ linked[w] # pc[t].addr
    <3>1. ~Breaking(w)
      BY <1>2, <2>2 DEF ScWrite
    <3> QED
      BY <1>2, <2>2, <2>5, <3>1 DEF ScWrite, Writes
  <2> QED
    BY <2>3, <2>4, <2>5
<1>3. ASSUME NEW t \in Threads, UNCHANGED program, ScFault(t) PROVE Link(w)'
  BY <1>3 DEF ScFault
<1>4. ASSUME NEW t \in Threads, UNCHANGED program, Notify(t) PROVE Link(w)'
  BY <1>4, SMTT(30) DEF Notify, Monitoring
<1>5. ASSUME NEW t \in Threads, UNCHANGED program,
             AmoRead(t) \/ AmoWrite(t) \/ MemUnlock(t)
      PROVE Link(w)'
  <2>1. pc[t].at \in InAmo
    BY <1>5 DEF AmoRead, AmoWrite, MemUnlock
  <2>2. "amo" \in program
    BY <2>1
  <2> HIDE DEF TypeOK, OwnerOK, ProgramOK, LinkOK, Link, Breaking
  <2> QED
    BY <1>5, <2>2, SMTT(30)
<1>6. ASSUME NEW t \in Threads, UNCHANGED program, HandleMemoryFault(t) PROVE Link(w)'
  BY <1>6 DEF HandleMemoryFault
<1>7. ASSUME NEW t \in Threads, UNCHANGED program, LockMonitor(t) PROVE Link(w)'
  BY <1>7, SMTT(30) DEF LockMonitor
<1>8. ASSUME NEW t \in Threads, NEW a \in Addrs, UNCHANGED program, AcquireMonitor(t, a)
      PROVE Link(w)'
  BY <1>8, SMTT(30) DEF AcquireMonitor
<1>9. ASSUME NEW t \in Threads, NEW a \in Addrs, UNCHANGED program,
             MemLock(t, a) \/ Store(t, a)
      PROVE Link(w)'
  BY <1>9 DEF MemLock, Store
<1>10. CASE UNCHANGED vars
  BY <1>10 DEF vars
<1> QED
  BY MonitorCases, <1>1, <1>2, <1>3, <1>4, <1>5, <1>6, <1>7, <1>8, <1>9, <1>10

\* A thread reaches the write of its sc with a link that is not stale, and keeps
\* others from writing while it is there.
LEMMA LLSCStep ==
  TypeOK /\ OwnerOK /\ LinkOK /\ LLSCIsAtomic /\ [Next]_vars => LLSCIsAtomic'
<1> SUFFICES ASSUME TypeOK, OwnerOK, LinkOK, LLSCIsAtomic, [Next]_vars
             PROVE LLSCIsAtomic'
  OBVIOUS
<1> USE DEF TypeOK, OwnerOK, LLSCIsAtomic, ScIsAtomic
<1>1. ASSUME NEW t \in Threads, UNCHANGED program, LrRead(t) \/ ScWrite(t) \/ ScFault(t)
      PROVE LLSCIsAtomic'
  BY <1>1, SMTT(30) DEF LrRead, ScWrite, ScFault, Writes
<1>2. ASSUME NEW t \in Threads, UNCHANGED program, Notify(t) PROVE LLSCIsAtomic'
  BY <1>2, SMTT(30) DEF Notify
<1>3. ASSUME NEW t \in Threads, UNCHANGED program,
             AmoRead(t) \/ AmoWrite(t) \/ MemUnlock(t) \/ HandleMemoryFault(t)
      PROVE LLSCIsAtomic'
  BY <1>3, SMTT(30) DEF AmoRead, AmoWrite, MemUnlock, HandleMemoryFault, Writes
<1>4. ASSUME NEW t \in Threads, UNCHANGED program, LockMonitor(t) PROVE LLSCIsAtomic'
  BY <1>4, SMTT(30) DEF LockMonitor, LinkOK, Link, Breaking
<1>5. ASSUME NEW t \in Threads, NEW a \in Addrs, UNCHANGED program,
             AcquireMonitor(t, a) \/ MemLock(t, a) \/ Store(t, a)
      PROVE LLSCIsAtomic'
  BY <1>5, SMTT(30) DEF AcquireMonitor, MemLock, Store, Writes
<1>6. CASE UNCHANGED vars
  BY <1>6 DEF vars
<1> QED
  BY MonitorCases, <1>1, <1>2, <1>3, <1>4, <1>5, <1>6

\* Between the read and the write of an amo the lock is its thread's.
LEMMA AmoStep == TypeOK /\ OwnerOK /\ AmoIsAtomic /\ [Next]_vars => AmoIsAtomic'
<1> SUFFICES ASSUME TypeOK, OwnerOK, AmoIsAtomic, [Next]_vars PROVE AmoIsAtomic'
  OBVIOUS
<1> USE DEF TypeOK, OwnerOK, AmoIsAtomic
<1>1. ASSUME NEW t \in Threads, UNCHANGED program, LrRead(t) \/ ScWrite(t) \/ ScFault(t)
      PROVE AmoIsAtomic'
  BY <1>1, SMTT(30) DEF LrRead, ScWrite, ScFault, Writes
<1>2. ASSUME NEW t \in Threads, UNCHANGED program, Notify(t) PROVE AmoIsAtomic'
  BY <1>2, SMTT(30) DEF Notify
<1>3. ASSUME NEW t \in Threads, UNCHANGED program,
             AmoRead(t) \/ AmoWrite(t) \/ MemUnlock(t) \/ HandleMemoryFault(t)
      PROVE AmoIsAtomic'
  BY <1>3, SMTT(30) DEF AmoRead, AmoWrite, MemUnlock, HandleMemoryFault, Writes
<1>4. ASSUME NEW t \in Threads, UNCHANGED program, LockMonitor(t) PROVE AmoIsAtomic'
  BY <1>4, SMTT(30) DEF LockMonitor
<1>5. ASSUME NEW t \in Threads, NEW a \in Addrs, UNCHANGED program,
             AcquireMonitor(t, a) \/ MemLock(t, a) \/ Store(t, a)
      PROVE AmoIsAtomic'
  BY <1>5, SMTT(30) DEF AcquireMonitor, MemLock, Store, Writes
<1>6. CASE UNCHANGED vars
  BY <1>6 DEF vars
<1> QED
  BY MonitorCases, <1>1, <1>2, <1>3, <1>4, <1>5, <1>6

\* The lock, the monitors, the links and where each thread is always agree.
THEOREM MonitorInvariant == Spec => []MonitorInv
<1>1. MonitorInv /\ [Next]_vars => MonitorInv'
  BY MonitorTypeStep, OwnerStep, LinkStep, LLSCStep, AmoStep DEF MonitorInv
<1> QED
  BY MonitorInit, <1>1, PTL DEF Spec

\* LL/SC is atomic for programs whose only writes are store-conditionals, for any
\* number of threads, as long as Notify has reached every entry.
THEOREM StoreConditionalsAreAtomic == Spec => []LLSCIsAtomic
<1>1. MonitorInv => LLSCIsAtomic
  BY DEF MonitorInv
<1> QED
  BY MonitorInvariant, <1>1, PTL

\* A locked read-modify-write is atomic with respect to the others and to
\* store-conditionals, on the fault paths too.
THEOREM AmosAreAtomic == Spec => []AmoIsAtomic
<1>1. MonitorInv => AmoIsAtomic
  BY DEF MonitorInv
<1> QED
  BY MonitorInvariant, <1>1, PTL
=============================================================================
