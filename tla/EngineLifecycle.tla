-------------------------- MODULE EngineLifecycle --------------------------
(***************************************************************************)
(* Starting, joining, halting and destroying the guest threads.            *)
(*                                                                         *)
(* The main thread runs System::RunSimulation, which starts the engine's   *)
(* contexts and joins them, and then System::Destroy.  Each context has a  *)
(* worker thread that runs guest code.  In user mode a guest may clone a   *)
(* thread, which attaches a context to the running engine.  A signal, the  *)
(* screen's thread or the guest may call HaltSimulation.                   *)
(*                                                                         *)
(* The engine's lock_ protects its map of contexts, except in Join, which  *)
(* iterates over the map, in the order of the thread objects' addresses,   *)
(* without it.  Reading the state of a context that has none yet (the      *)
(* constructor leaves state_ uninitialised) may go either way.             *)
(*                                                                         *)
(* A thread's message queue is reduced to whether it holds a Halt; the     *)
(* other messages are those of CPUInterrupts.  A signal that arrives after *)
(* the emulation model is deleted is not modelled.                         *)
(***************************************************************************)
EXTENDS Naturals, FiniteSets, FiniteSetsExt

CONSTANT
    ThreadObjects   \* addresses at which thread objects may be allocated, as numbers above 0

ASSUME ThreadObjectsAssumption ==
    ThreadObjects \subseteq Nat \ {0} /\ IsFiniteSet(ThreadObjects) /\ ThreadObjects # {}

VARIABLES
    userMode,  \* the emulation model: user (threads are cloned) or system
    first,     \* the thread HaltCores finds first in threads_
    engine,    \* state_ of the engine
    ctx,       \* state_ of each context; "none" if not in the map
    worker,    \* the host thread of each context
    halts,     \* threads with a Halt message
    lock,      \* owner of the engine's lock_
    adding,    \* the thread AttachThread is attaching
    main,      \* where the main thread is
    cursor,    \* the context the main thread has reached in its loop
    halted,    \* _halted
    fault      \* how the process died

mode == <<userMode, first>>
engineVars == <<mode, engine, ctx, worker, halts, lock, adding, main, cursor, halted,
                fault>>

Free == 0
Main == Max(ThreadObjects) + 1    \* the main thread, as an owner of the lock

Attached == {t \in ThreadObjects : ctx[t] # "none"}
After(c) == {t \in Attached : t > c}

Alive == fault = "none"

\* What a worker does once the emulation model is deleted is not modelled.
Running(t) == Alive /\ worker[t] = "running" /\ main # "destroyed"

\* In system mode InstantiateThreads attached every thread; in user mode
\* Initialise attached the main one.
EngineInit ==
    /\ userMode \in BOOLEAN
    /\ first \in IF userMode THEN ThreadObjects ELSE {Min(ThreadObjects)}
    /\ engine = "Ready"
    /\ ctx = [t \in ThreadObjects |-> IF t = first \/ ~userMode THEN "unset" ELSE "none"]
    /\ worker = [t \in ThreadObjects |-> "none"]
    /\ halts = {} /\ lock = Free /\ adding = Free /\ main = "run" /\ cursor = 0
    /\ halted = FALSE /\ fault = "none"

-----------------------------------------------------------------------------
(* ExecutionEngineThreadContext::Start; assigning to a std::thread that is *)
(* still joinable terminates the process.                                  *)
StartContext(t) ==
    /\ ctx' = [ctx EXCEPT ![t] = "Running"]
    /\ worker' = [worker EXCEPT ![t] = "running"]
    /\ fault' = IF worker[t] = "none" THEN "none" ELSE "started_twice"

(* ExecutionEngine::Start, from RunSimulation.                             *)

\* Variant: Start does not take the lock.
StartUnlocked ==
    /\ Alive /\ main = "run"
    /\ engine' = "Running" /\ main' = "start" /\ cursor' = 0
    /\ UNCHANGED <<mode, adding, ctx, worker, halts, lock, halted, fault>>

Start ==
    /\ Alive /\ main = "run" /\ lock = Free
    /\ lock' = Main
    /\ engine' = "Running" /\ main' = "start" /\ cursor' = 0
    /\ UNCHANGED <<mode, adding, ctx, worker, halts, halted, fault>>

StartNext ==
    /\ Alive /\ main = "start" /\ After(cursor) # {}
    /\ cursor' = Min(After(cursor))
    /\ StartContext(cursor')
    /\ UNCHANGED <<mode, adding, engine, halts, lock, main, halted>>

StartDone ==
    /\ Alive /\ main = "start" /\ After(cursor) = {}
    /\ lock' = IF lock = Main THEN Free ELSE lock
    /\ main' = "join" /\ cursor' = 0
    /\ UNCHANGED <<mode, adding, engine, ctx, worker, halts, halted, fault>>

(* ExecutionEngine::Join and the Join of each context.                     *)

\* Variant: a context's Join returns at once.
JoinNextNoWait ==
    /\ Alive /\ main = "join" /\ After(cursor) # {}
    /\ cursor' = Min(After(cursor))
    /\ UNCHANGED <<mode, adding, engine, ctx, worker, halts, lock, main, halted, fault>>

JoinNext ==
    /\ Alive /\ main = "join" /\ After(cursor) # {}
    /\ cursor' = Min(After(cursor))
    /\ \/ ctx[cursor'] = "Running" /\ main' = "wait" /\ UNCHANGED fault
       \/ ctx[cursor'] # "Running" /\ UNCHANGED <<main, fault>>
       \* The value found there is Running: there is no thread to join yet.
       \/ /\ ctx[cursor'] = "unset"
          /\ fault' = "joined_early" /\ UNCHANGED main
    /\ UNCHANGED <<mode, adding, engine, ctx, worker, halts, lock, halted>>

JoinWorker ==
    /\ Alive /\ main = "wait" /\ worker[cursor] = "exited"
    /\ ctx' = [ctx EXCEPT ![cursor] = "Ready"]
    /\ worker' = [worker EXCEPT ![cursor] = "joined"]
    /\ main' = "join"
    /\ UNCHANGED <<mode, adding, engine, halts, lock, cursor, halted, fault>>

\* RunSimulation returns.
JoinDone ==
    /\ Alive /\ main = "join" /\ After(cursor) = {}
    /\ main' = "returned"
    /\ UNCHANGED <<mode, adding, engine, ctx, worker, halts, lock, cursor, halted, fault>>

-----------------------------------------------------------------------------
(* System::Destroy.  UserEmulationModel::Destroy does nothing;             *)
(* SystemEmulationModel::Destroy halts the engine and detaches threads.    *)

DestroyUser ==
    /\ Alive /\ main = "returned" /\ userMode
    /\ main' = "destroyed"
    /\ UNCHANGED <<mode, adding, engine, ctx, worker, halts, lock, cursor, halted, fault>>

\* No context is Running to its Join, which therefore does not wait.
EngineHalt ==
    /\ Alive /\ main = "returned" /\ ~userMode /\ lock = Free
    /\ engine' = "Halted"
    /\ ctx' = [t \in ThreadObjects |-> IF t \in Attached THEN "Halted" ELSE "none"]
    /\ halts' = halts \cup Attached
    /\ main' = "detach"
    /\ UNCHANGED <<mode, adding, worker, lock, cursor, halted, fault>>

\* Destroying a context whose std::thread is joinable terminates the process.
DetachThread(t) ==
    /\ Alive /\ main = "detach" /\ lock = Free /\ t \in Attached
    /\ ctx' = [ctx EXCEPT ![t] = "none"]
    /\ fault' = IF engine = "Running" THEN "detached_running"
                ELSE IF worker[t] \in {"none", "joined"} THEN "none"
                ELSE "destroyed_joinable"
    /\ UNCHANGED <<mode, adding, engine, worker, halts, lock, main, cursor, halted>>

DetachDone ==
    /\ Alive /\ main = "detach" /\ Attached = {}
    /\ main' = "destroyed"
    /\ UNCHANGED <<mode, adding, engine, ctx, worker, halts, lock, cursor, halted, fault>>

-----------------------------------------------------------------------------
(* Workers.                                                                *)

Exit(t) ==
    /\ worker' = [worker EXCEPT ![t] = "exited"]
    /\ UNCHANGED <<mode, adding, engine, ctx, lock, main, cursor, halted, fault>>

\* The loop's test of the context's state, and its message.
LoopEnds(t) ==
    /\ Running(t) /\ lock # t
    /\ ctx[t] # "Running" \/ t \in halts
    /\ halts' = halts \ {t}
    /\ Exit(t)

\* A block cannot be decoded, or an exception reaches the loop.
Abort(t) == Running(t) /\ lock # t /\ Exit(t) /\ UNCHANGED halts

\* sys_exit sends Halt to the calling thread.
SysExit(t) ==
    /\ Running(t) /\ lock # t /\ userMode
    /\ halts' = halts \cup {t}
    /\ UNCHANGED <<mode, adding, engine, ctx, worker, lock, main, cursor, halted, fault>>

\* sys_clone: CreateThread allocates the thread, and AttachThread, under the
\* lock, first inserts its context ...
Clone(t, new) ==
    /\ Running(t) /\ lock = Free /\ userMode
    /\ new \notin Attached
    /\ lock' = t
    /\ adding' = new
    /\ ctx' = [ctx EXCEPT ![new] = "unset"]
    /\ UNCHANGED <<mode, engine, worker, halts, main, cursor, halted, fault>>

\* ... and then starts it if the engine is running.
CloneStart(t) ==
    /\ Running(t) /\ lock = t
    /\ IF engine = "Running" THEN StartContext(adding)
       ELSE UNCHANGED <<ctx, worker, fault>>
    /\ lock' = Free /\ adding' = Free
    /\ UNCHANGED <<mode, engine, halts, main, cursor, halted>>

-----------------------------------------------------------------------------
\* Variant: only the first core is halted.
HaltFirstCore ==
    /\ Alive /\ main # "destroyed" /\ ~halted
    /\ halted' = TRUE
    /\ halts' = halts \cup {first}
    /\ UNCHANGED <<mode, adding, engine, ctx, worker, lock, main, cursor, fault>>

\* HaltSimulation: HaltCores sends Halt to every thread in system mode, to the
\* main thread in user mode.
HaltSimulation ==
    /\ Alive /\ main # "destroyed" /\ ~halted
    /\ halted' = TRUE
    /\ halts' = halts \cup IF userMode THEN {first} ELSE ThreadObjects
    /\ UNCHANGED <<mode, adding, engine, ctx, worker, lock, main, cursor, fault>>

MainStep ==
    \/ Start \/ StartNext \/ StartDone
    \/ JoinNext \/ JoinWorker \/ JoinDone
    \/ DestroyUser \/ EngineHalt \/ DetachDone
    \/ \E t \in ThreadObjects : DetachThread(t)

WorkerStep(t) ==
    \/ LoopEnds(t) \/ Abort(t) \/ SysExit(t) \/ CloneStart(t)
    \/ \E new \in ThreadObjects : Clone(t, new)

EngineNext == MainStep \/ HaltSimulation \/ \E t \in ThreadObjects : WorkerStep(t)

\* The main thread runs, and a worker gets from one turn of its loop to the next.
EngineFairness ==
    /\ WF_engineVars(MainStep)
    /\ \A t \in ThreadObjects : WF_engineVars(LoopEnds(t)) /\ WF_engineVars(CloneStart(t))

EngineSpec == EngineInit /\ [][EngineNext]_engineVars /\ EngineFairness

-----------------------------------------------------------------------------
\* Every attached thread runs, once: Start starts what was attached before it
\* and AttachThread what comes after, and no interleaving of a clone with Start
\* starts a context twice or not at all.
StartedOnce ==
    /\ fault # "started_twice"
    /\ engine = "Running" /\ lock = Free => \A t \in Attached : worker[t] # "none"

\* RunSimulation returns when the simulation is over: no guest thread is still
\* executing when it has returned and main destroys the system.
ReturnsWhenDone ==
    main \in {"returned", "detach", "destroyed"} =>
        \A t \in ThreadObjects : worker[t] # "running"

\* The same in system emulation, where no thread is attached after Start; and
\* there destroying the system never kills the process: the engine is halted
\* before its threads are detached, and their host threads were joined.
CleanShutdown == ~userMode => ReturnsWhenDone /\ Alive

\* In system emulation HaltSimulation, whenever it comes (before the workers
\* start, while they run, after some have ended), ends with the system destroyed.
HaltEnds == (halted /\ ~userMode) ~> (main = "destroyed")
=============================================================================
