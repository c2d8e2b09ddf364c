------------------------ MODULE TranslationWorkQueue ------------------------
(***************************************************************************)
(* The work queue between the execution thread and the JIT workers:        *)
(* AsynchronousTranslationManager (TranslateRegion, Destroy) and           *)
(* AsynchronousTranslationWorker (run, stop, Translate).                   *)
(*                                                                         *)
(* A step is one access to state another thread can change: the terminate  *)
(* flags and the validity of a region are read without the queue lock, so  *)
(* each such read is a step of its own; what is done under the lock to the *)
(* queue alone is one step.  Which unit a worker picks depends on heat     *)
(* counters the execution thread keeps changing, so any queued unit may be *)
(* the heaviest.                                                           *)
(***************************************************************************)
EXTENDS Naturals, FiniteSets

CONSTANTS Workers,      \* the JitThreads worker threads
          Units,        \* the work units built during a run
          NoUnit,       \* the NULL unit pointer
          NoOne,        \* the owner of a free lock
          MaxSpurious   \* bound on spurious wake-ups of the condition variable

ASSUME WorkersAssumption == Workers # {} /\ NoOne \notin Workers
ASSUME UnitsAssumption == NoUnit \notin Units
ASSUME SpuriousAssumption == MaxSpurious \in Nat

VARIABLES
  queue,       \* work_unit_queue_
  lock,        \* the owner of work_unit_queue_lock
  waiters,     \* the workers blocked in work_unit_queue_cond.wait
  terminate,   \* the workers whose terminate flag is set
  remaining,   \* the manager's list of workers still to be stopped
  stopping,    \* the worker whose stop() is running
  mpc,         \* where the execution thread is
  pc,          \* where each worker is in run()
  unit,        \* each worker's local unit pointer
  invalid,     \* the units whose region has been invalidated
  built,       \* the units built so far
  deleted,     \* the units destroyed
  lost,        \* the units dropped without being destroyed
  completed,   \* the units given to MarkTranslationAsComplete
  spurious     \* spurious wake-ups so far

unitVars == <<built, deleted, lost, completed>>
mainVars == <<remaining, stopping, mpc>>
vars == <<queue, lock, waiters, terminate, mainVars, pc, unit, invalid, unitVars, spurious>>

Holding == {"test", "park", "check", "take", "skip", "again", "unlock"}
PCs == Holding \cup {"loop", "lock", "waiting", "dispatch", "translate",
                     "compile", "delete", "done"}

Init ==
  /\ queue = {} /\ lock = NoOne /\ waiters = {} /\ terminate = {}
  /\ remaining = Workers /\ stopping = NoOne /\ mpc = "run"
  /\ pc = [w \in Workers |-> "loop"]
  /\ unit = [w \in Workers |-> NoUnit]
  /\ invalid = {} /\ built = {} /\ deleted = {} /\ lost = {} /\ completed = {}
  /\ spurious = 0

Goto(w, label) == pc' = [pc EXCEPT ![w] = label]

\* The unit a worker's pointer designates, as a set that is empty for NULL.
Held(w) == {unit[w]} \ {NoUnit}

-----------------------------------------------------------------------------
(* The execution thread.                                                   *)

\* Variant: the unit is queued and nobody is told.
NotifyNobody == UNCHANGED <<waiters, pc>>

\* notify_one: one of the waiters, if there is one, goes on to retake the lock.
NotifyOne ==
  \/ waiters = {} /\ UNCHANGED <<waiters, pc>>
  \/ \E w \in waiters : waiters' = waiters \ {w} /\ Goto(w, "lock")

\* notify_all
NotifyAll ==
  /\ waiters' = {}
  /\ pc' = [w \in Workers |-> IF w \in waiters THEN "lock" ELSE pc[w]]

\* TranslateRegion for a valid region whose unit could be built.
TranslateRegion(u) ==
  /\ mpc = "run" /\ u \notin built
  /\ lock = NoOne
  /\ queue' = queue \cup {u}
  /\ built' = built \cup {u}
  /\ NotifyOne
  /\ UNCHANGED <<lock, terminate, mainVars, unit, invalid, deleted, lost, completed, spurious>>

\* The guest overwrites the unit's page: Region::Invalidate, under no lock.
InvalidateRegion(u) ==
  /\ mpc = "run" /\ u \in built \ invalid
  /\ invalid' = invalid \cup {u}
  /\ UNCHANGED <<queue, lock, waiters, terminate, mainVars, pc, unit, unitVars, spurious>>

\* Destroy, first half: every queued unit is deleted.
DestroyQueue ==
  /\ mpc = "run" /\ lock = NoOne
  /\ queue' = {}
  /\ deleted' = deleted \cup queue
  /\ mpc' = "stop"
  /\ UNCHANGED <<lock, waiters, terminate, remaining, stopping, pc, unit, invalid,
                 built, lost, completed, spurious>>

\* stop(), first statement, for the next worker of the list.
SetTerminate ==
  /\ mpc = "stop"
  /\ \E w \in remaining :
       /\ terminate' = terminate \cup {w}
       /\ remaining' = remaining \ {w}
       /\ stopping' = w
  /\ mpc' = "notify"
  /\ UNCHANGED <<queue, lock, waiters, pc, unit, invalid, unitVars, spurious>>

\* Variant: stop() notifies without taking the lock.
NotifyStoppedUnlocked ==
  /\ mpc = "notify"
  /\ NotifyAll
  /\ mpc' = "join"
  /\ UNCHANGED <<queue, lock, terminate, remaining, stopping, unit, invalid, unitVars, spurious>>

\* stop(), the notify_all under the lock.
NotifyStopped ==
  /\ mpc = "notify" /\ lock = NoOne
  /\ NotifyAll
  /\ mpc' = "join"
  /\ UNCHANGED <<queue, lock, terminate, remaining, stopping, unit, invalid, unitVars, spurious>>

\* Variant: the worker is detached instead of joined.
JoinWithoutWaiting ==
  /\ mpc = "join"
  /\ stopping' = NoOne
  /\ mpc' = "stop"
  /\ UNCHANGED <<queue, lock, waiters, terminate, remaining, pc, unit, invalid, unitVars, spurious>>

\* stop(), join(): the thread's run() has returned.
Join ==
  /\ mpc = "join" /\ pc[stopping] = "done"
  /\ stopping' = NoOne
  /\ mpc' = "stop"
  /\ UNCHANGED <<queue, lock, waiters, terminate, remaining, pc, unit, invalid, unitVars, spurious>>

Destroyed ==
  /\ mpc = "stop" /\ remaining = {}
  /\ mpc' = "destroyed"
  /\ UNCHANGED <<queue, lock, waiters, terminate, remaining, stopping, pc, unit, invalid,
                 unitVars, spurious>>

-----------------------------------------------------------------------------
(* A worker's run().                                                       *)

\* while (!terminate)
Loop(w) ==
  /\ pc[w] = "loop"
  /\ Goto(w, IF w \in terminate THEN "done" ELSE "lock")
  /\ UNCHANGED <<queue, lock, waiters, terminate, mainVars, unit, invalid, unitVars, spurious>>

\* queue_lock.lock(), and the relocking inside wait().
Lock(w) ==
  /\ pc[w] = "lock" /\ lock = NoOne
  /\ lock' = w
  /\ Goto(w, "test")
  /\ UNCHANGED <<queue, waiters, terminate, mainVars, unit, invalid, unitVars, spurious>>

\* while (work_unit_queue_.empty() && !terminate)
Test(w) ==
  /\ pc[w] = "test"
  /\ Goto(w, IF queue = {} /\ w \notin terminate THEN "park" ELSE "check")
  /\ UNCHANGED <<queue, lock, waiters, terminate, mainVars, unit, invalid, unitVars, spurious>>

\* work_unit_queue_cond.wait: unlock and block in one step.
Park(w) ==
  /\ pc[w] = "park"
  /\ lock' = NoOne
  /\ waiters' = waiters \cup {w}
  /\ Goto(w, "waiting")
  /\ UNCHANGED <<queue, terminate, mainVars, unit, invalid, unitVars, spurious>>

\* wait() may return although nobody notified.
SpuriousWakeup(w) ==
  /\ pc[w] = "waiting" /\ spurious < MaxSpurious
  /\ spurious' = spurious + 1
  /\ waiters' = waiters \ {w}
  /\ Goto(w, "lock")
  /\ UNCHANGED <<queue, lock, terminate, mainVars, unit, invalid, unitVars>>

\* if (terminate) { unlock; break; }
Check(w) ==
  /\ pc[w] = "check"
  /\ IF w \in terminate
       THEN lock' = NoOne /\ Goto(w, "done")
       ELSE UNCHANGED lock /\ Goto(w, "take")
  /\ UNCHANGED <<queue, waiters, terminate, mainVars, unit, invalid, unitVars, spurious>>

\* Variant: the unit is taken and stays queued.
EraseNothing(u) == UNCHANGED queue

\* work_unit_queue_.erase(best_it)
Erase(u) == queue' = queue \ {u}

\* The head of the do loop: NULL when nothing is left, else the heaviest unit.
\* When the loop comes round again, the previous unit is simply forgotten.
Take(w) ==
  /\ pc[w] = "take"
  /\ lost' = lost \cup Held(w)
  /\ \/ /\ queue = {}
        /\ unit' = [unit EXCEPT ![w] = NoUnit]
        /\ Goto(w, "unlock")
        /\ UNCHANGED queue
     \/ \E u \in queue :
          /\ Erase(u)
          /\ unit' = [unit EXCEPT ![w] = u]
          /\ Goto(w, "skip")
  /\ UNCHANGED <<lock, waiters, terminate, mainVars, invalid, built, deleted, completed, spurious>>

\* if (!unit->GetRegion().IsValid()) { delete unit; unit = NULL; break; }
Skip(w) ==
  /\ pc[w] = "skip"
  /\ IF unit[w] \in invalid
       THEN /\ deleted' = deleted \cup Held(w)
            /\ unit' = [unit EXCEPT ![w] = NoUnit]
            /\ Goto(w, "unlock")
       ELSE /\ Goto(w, "again")
            /\ UNCHANGED <<deleted, unit>>
  /\ UNCHANGED <<queue, lock, waiters, terminate, mainVars, invalid, built, lost, completed, spurious>>

\* Variant: the loop goes round although the region is valid.
LooksAgainWhileRunning(w) == w \notin terminate

\* while (!terminate && !unit->GetRegion().IsValid()): a second look at the region.
LooksAgain(w) == w \notin terminate /\ unit[w] \in invalid

Again(w) ==
  /\ pc[w] = "again"
  /\ Goto(w, IF LooksAgain(w) THEN "take" ELSE "unlock")
  /\ UNCHANGED <<queue, lock, waiters, terminate, mainVars, unit, invalid, unitVars, spurious>>

Unlock(w) ==
  /\ pc[w] = "unlock"
  /\ lock' = NoOne
  /\ Goto(w, "dispatch")
  /\ UNCHANGED <<queue, waiters, terminate, mainVars, unit, invalid, unitVars, spurious>>

\* Variant: if (terminate) continue, without the test for NULL.
DispatchNull(w) ==
  /\ pc[w] = "dispatch"
  /\ IF w \in terminate
       THEN /\ lost' = lost \cup Held(w)
            /\ unit' = [unit EXCEPT ![w] = NoUnit]
            /\ Goto(w, "loop")
       ELSE /\ Goto(w, "translate")
            /\ UNCHANGED <<lost, unit>>
  /\ UNCHANGED <<queue, lock, waiters, terminate, mainVars, invalid, built, deleted, completed, spurious>>

\* if (terminate || !unit) continue: a unit held at this point is forgotten.
Dispatch(w) ==
  /\ pc[w] = "dispatch"
  /\ IF w \in terminate \/ unit[w] = NoUnit
       THEN /\ lost' = lost \cup Held(w)
            /\ unit' = [unit EXCEPT ![w] = NoUnit]
            /\ Goto(w, "loop")
       ELSE /\ Goto(w, "translate")
            /\ UNCHANGED <<lost, unit>>
  /\ UNCHANGED <<queue, lock, waiters, terminate, mainVars, invalid, built, deleted, completed, spurious>>

\* Translate: an invalid region is not translated at all.
Translate(w) ==
  /\ pc[w] = "translate"
  /\ Goto(w, IF unit[w] \in invalid THEN "delete" ELSE "compile")
  /\ UNCHANGED <<queue, lock, waiters, terminate, mainVars, unit, invalid, unitVars, spurious>>

\* Translate: the compiler fails, or MarkTranslationAsComplete gets the result.
Compile(w) ==
  /\ pc[w] = "compile"
  /\ completed' \in {completed, completed \cup {unit[w]}}
  /\ Goto(w, "delete")
  /\ UNCHANGED <<queue, lock, waiters, terminate, mainVars, unit, invalid, built, deleted, lost, spurious>>

\* delete unit
Delete(w) ==
  /\ pc[w] = "delete"
  /\ deleted' = deleted \cup {unit[w]}
  /\ unit' = [unit EXCEPT ![w] = NoUnit]
  /\ Goto(w, "loop")
  /\ UNCHANGED <<queue, lock, waiters, terminate, mainVars, invalid, built, lost, completed, spurious>>

-----------------------------------------------------------------------------
Worker(w) ==
  \/ Loop(w) \/ Lock(w) \/ Test(w) \/ Park(w) \/ Check(w) \/ Take(w) \/ Skip(w)
  \/ Again(w) \/ Unlock(w) \/ Dispatch(w) \/ Translate(w) \/ Compile(w) \/ Delete(w)

Shutdown == SetTerminate \/ NotifyStopped \/ Join \/ Destroyed

Next ==
  \/ \E u \in Units : TranslateRegion(u) \/ InvalidateRegion(u)
  \/ DestroyQueue
  \/ Shutdown
  \/ \E w \in Workers : Worker(w) \/ SpuriousWakeup(w)

Spec == Init /\ [][Next]_vars

\* Every started thread keeps running, and a destructor that has begun goes on.
Fairness == WF_vars(Shutdown) /\ \A w \in Workers : WF_vars(Worker(w))

FairSpec == Spec /\ Fairness

-----------------------------------------------------------------------------
(* Properties.                                                             *)

\* The variables have the types their declarations in the manager and the
\* worker give them.
TypeOK ==
  /\ queue \subseteq Units
  /\ lock \in Workers \cup {NoOne}
  /\ waiters \subseteq Workers
  /\ terminate \subseteq Workers
  /\ remaining \subseteq Workers
  /\ stopping \in Workers \cup {NoOne}
  /\ mpc \in {"run", "stop", "notify", "join", "destroyed"}
  /\ pc \in [Workers -> PCs]
  /\ unit \in [Workers -> Units \cup {NoUnit}]
  /\ invalid \subseteq built
  /\ built \subseteq Units
  /\ deleted \subseteq Units /\ lost \subseteq Units /\ completed \subseteq Units
  /\ spurious \in 0..MaxSpurious

\* Every unit TranslateRegion built is in exactly one place: queued, held by
\* exactly one worker, deleted, or forgotten.  Hence no worker translates a unit
\* that Destroy or another worker deleted, and no unit is deleted twice.
OneOwner ==
  /\ built = queue \cup deleted \cup lost \cup UNION {Held(w) : w \in Workers}
  /\ queue \cap deleted = {} /\ queue \cap lost = {} /\ deleted \cap lost = {}
  /\ \A w \in Workers :
       /\ Held(w) \cap (queue \cup deleted \cup lost) = {}
       /\ \A v \in Workers \ {w} : Held(w) \cap Held(v) = {}

\* While there is work, some worker is awake to take it: the notify_one of
\* TranslateRegion cannot be lost between a worker's test of the queue and its
\* wait, nor be consumed by a worker that goes back to sleep.
NoLostWakeup ==
  queue # {} => \E w \in Workers : pc[w] \notin {"waiting", "done"}

\* run() forgets a unit without deleting it (leaving a reference to its region
\* behind) only if the region was invalidated between the two validity tests of
\* the dequeue loop or the worker was being stopped: no unit of a valid region
\* is ever dropped while the manager runs.
ValidUnitNotLost ==
  \A u \in lost : u \in invalid \/ mpc # "run"

\* Once Destroy has returned every worker thread has ended and nothing is queued.
DestroyedIsQuiet ==
  mpc = "destroyed" => queue = {} /\ lock = NoOne /\ \A w \in Workers : pc[w] = "done"

\* Queued work does not stay queued: the workers empty the queue.
QueueDrains == queue # {} ~> queue = {}

\* The destructor's stop()/join() of every worker returns, whatever the worker
\* was doing when its terminate flag was set.
DestroyReturns == mpc # "run" ~> mpc = "destroyed"

\* The threads, the lock and the condition variable implement the life of a
\* work unit that WorkUnits states.  A forgotten unit still owns its region.
Life == INSTANCE WorkUnits WITH
          state <- [u \in Units |->
                      IF u \notin built THEN "fresh"
                      ELSE IF u \in queue THEN "queued"
                      ELSE IF u \in deleted THEN "destroyed" ELSE "owned"],
          translated <- completed

ImplementsWorkUnits == Life!AbstractSpec
=============================================================================
