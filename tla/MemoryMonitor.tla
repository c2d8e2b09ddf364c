--------------------------- MODULE MemoryMonitor ---------------------------
(***************************************************************************)
(* Guest atomics: the memory monitor (BaseMemoryMonitor) and the           *)
(* instructions that use it, as the interpreter generator emits them.      *)
(*                                                                         *)
(*   lr    takes a monitor on an address, then reads it;                   *)
(*   sc    if the monitor is still there, locks, writes, notifies the      *)
(*         others, unlocks;                                                *)
(*   amo   locks, reads, writes, unlocks.                                  *)
(*                                                                         *)
(* locked_thread_ makes the lock recursive.  A thread compares it only     *)
(* with itself, so the mutex and locked_thread_ change together in the     *)
(* model.  Memory holds no values: a thread is stale when another thread   *)
(* has written the address since it read it.                               *)
(***************************************************************************)
EXTENDS Naturals, FiniteSets, FiniteSetsExt

CONSTANTS
    Threads,   \* thread ids, the keys of monitors_
    Addrs,
    None,
    Programs   \* what a guest program may use: sets of "llsc", "amo", "store"

ASSUME ThreadsAssumption == IsFiniteSet(Threads) /\ Threads \subseteq Nat
ASSUME NoneAssumption == None \notin Addrs /\ None \notin Threads
ASSUME ProgramsAssumption == Programs \subseteq SUBSET {"llsc", "amo", "store"}

VARIABLES
    program,    \* the instructions this guest uses
    monitors,   \* monitors_: the address each thread has a monitor on, or None
    owner,      \* locked_thread_, and the owner of the mutex
    pc,         \* the instruction each thread is in, and its address
    linked,     \* the address of the lr a thread has done without an sc since
    staleLink,  \* threads whose linked address was written by another
    staleRead,  \* threads whose amo address was written by another since its read
    undefined   \* what advancing an erased iterator of monitors_ has led to

vars == <<program, monitors, owner, pc, linked, staleLink, staleRead, undefined>>

Idle == [at |-> "idle", addr |-> None]
Goto(t, place, a) == pc' = [pc EXCEPT ![t] = [at |-> place, addr |-> a]]
Return(t) == pc' = [pc EXCEPT ![t] = Idle]

At(t, place) == undefined # "crash" /\ pc[t].at = place
Issue(t, op) == op \in program /\ At(t, "idle")

Init ==
    /\ monitors = [t \in Threads |-> None]
    /\ owner = None
    /\ pc = [t \in Threads |-> Idle]
    /\ linked = [t \in Threads |-> None]
    /\ staleLink = {} /\ staleRead = {}
    /\ undefined = "none"
    /\ program \in Programs

\* A write of t reaches memory.
Writes(t, a) ==
    /\ staleLink' = staleLink \cup {u \in Threads \ {t} : linked[u] = a}
    /\ staleRead' = staleRead \cup
                      {u \in Threads \ {t} : pc[u] = [at |-> "amo_write", addr |-> a]}

-----------------------------------------------------------------------------
(* lr: AcquireMonitor locks, records and unlocks; the read follows.        *)

AcquireMonitor(t, a) ==
    /\ Issue(t, "llsc") /\ owner = None
    /\ monitors' = [monitors EXCEPT ![t] = a]
    /\ linked' = [linked EXCEPT ![t] = None]
    /\ staleLink' = staleLink \ {t}
    /\ Goto(t, "lr_read", a)
    /\ UNCHANGED <<owner, staleRead, undefined>>

LrRead(t) ==
    /\ At(t, "lr_read")
    /\ linked' = [linked EXCEPT ![t] = pc[t].addr]
    /\ Return(t)
    /\ UNCHANGED <<monitors, owner, staleLink, staleRead, undefined>>

-----------------------------------------------------------------------------
(* sc, to the linked address.                                              *)

\* Variant: a successful LockMonitor returns without the lock.
LockMonitorUnlocked(t) ==
    /\ Issue(t, "llsc") /\ linked[t] # None /\ owner = None
    /\ IF monitors[t] = linked[t]
       THEN Goto(t, "sc_write", linked[t]) /\ UNCHANGED <<linked, owner>>
       ELSE /\ linked' = [linked EXCEPT ![t] = None]
            /\ UNCHANGED <<pc, owner>>
    /\ UNCHANGED <<monitors, staleLink, staleRead, undefined>>

LockMonitor(t) ==
    /\ Issue(t, "llsc") /\ linked[t] # None /\ owner = None
    /\ IF monitors[t] = linked[t]
       THEN owner' = t /\ Goto(t, "sc_write", linked[t]) /\ UNCHANGED linked
       ELSE /\ linked' = [linked EXCEPT ![t] = None]
            /\ UNCHANGED <<pc, owner>>
    /\ UNCHANGED <<monitors, staleLink, staleRead, undefined>>

ScWrite(t) ==
    /\ At(t, "sc_write")
    /\ Writes(t, pc[t].addr)
    /\ Goto(t, "sc_notify", pc[t].addr)
    /\ UNCHANGED <<monitors, owner, linked, undefined>>

\* A write that faults is followed by Notify all the same.
ScFault(t) ==
    /\ At(t, "sc_write")
    /\ Goto(t, "sc_notify", pc[t].addr)
    /\ UNCHANGED <<monitors, owner, linked, staleLink, staleRead, undefined>>

Monitoring(t, a) == {u \in Threads \ {t} : monitors[u] = a}

\* Notify's Unlock releases the lock (UnlockMonitor then finds it released).
Notified(t, erased) ==
    /\ monitors' = [u \in Threads |-> IF u \in erased THEN None ELSE monitors[u]]
    /\ owner' = None
    /\ linked' = [linked EXCEPT ![t] = None]
    /\ Return(t)
    /\ UNCHANGED <<staleLink, staleRead>>

\* Variant: Notify erases the writer's own monitor only.
NotifySelf(t) ==
    /\ At(t, "sc_notify")
    /\ Notified(t, {t}) /\ UNCHANGED undefined

\* The loop erases the entry its iterator is at.  Advancing from an erased node
\* is undefined: it may go on to the next entry, end the loop, or crash.
Notify(t) ==
    /\ At(t, "sc_notify")
    /\ LET found == Monitoring(t, pc[t].addr)
       IN  \/ Notified(t, found) /\ UNCHANGED undefined
           \/ \E u, w \in found : /\ u < w
                                  /\ Notified(t, {v \in found : v <= u})
                                  /\ undefined' = "skip"
           \/ found # {} /\ Notified(t, {Min(found)}) /\ undefined' = "crash"

-----------------------------------------------------------------------------
(* amo, between mem_lock and mem_unlock.                                   *)

MemLock(t, a) ==
    /\ Issue(t, "amo") /\ owner = None
    /\ owner' = t
    /\ Goto(t, "amo_read", a)
    /\ UNCHANGED <<monitors, linked, staleLink, staleRead, undefined>>

AmoRead(t) ==
    /\ At(t, "amo_read")
    /\ staleRead' = staleRead \ {t}
    /\ Goto(t, "amo_write", pc[t].addr)
    /\ UNCHANGED <<monitors, owner, linked, staleLink, undefined>>

AmoWrite(t) ==
    /\ At(t, "amo_write")
    /\ Writes(t, pc[t].addr)
    /\ Goto(t, "amo_unlock", pc[t].addr)
    /\ UNCHANGED <<monitors, owner, linked, undefined>>

MemUnlock(t) ==
    /\ At(t, "amo_unlock")
    /\ owner' = None
    /\ Return(t)
    /\ UNCHANGED <<monitors, linked, staleLink, staleRead, undefined>>

\* Variant: the fault handler does not release the lock.
FaultKeepsLock(t) ==
    /\ At(t, "amo_read") \/ At(t, "amo_write") \/ At(t, "lr_read")
    /\ Return(t)
    /\ UNCHANGED <<monitors, owner, linked, staleLink, staleRead, undefined>>

\* A read or write faults: RiscVSystemEmulationModel releases the lock if the
\* thread has it, and the instruction is aborted.
HandleMemoryFault(t) ==
    /\ At(t, "amo_read") \/ At(t, "amo_write") \/ At(t, "lr_read")
    /\ owner' = IF owner = t THEN None ELSE owner
    /\ Return(t)
    /\ UNCHANGED <<monitors, linked, staleLink, staleRead, undefined>>

-----------------------------------------------------------------------------
\* An ordinary store does not involve the monitor.
Store(t, a) ==
    /\ Issue(t, "store")
    /\ Writes(t, a)
    /\ UNCHANGED <<monitors, owner, pc, linked, undefined>>

\* The steps that end an instruction under way.
Continue(t) ==
    /\ UNCHANGED program
    /\ \/ LrRead(t) \/ ScWrite(t) \/ ScFault(t) \/ Notify(t)
       \/ AmoRead(t) \/ AmoWrite(t) \/ MemUnlock(t) \/ HandleMemoryFault(t)

\* The guest issues an instruction.
Begin(t) ==
    /\ UNCHANGED program
    /\ \/ LockMonitor(t)
       \/ \E a \in Addrs : AcquireMonitor(t, a) \/ MemLock(t, a) \/ Store(t, a)

Next == \E t \in Threads : Continue(t) \/ Begin(t)

\* A host thread finishes the instruction it is executing.
Fairness == \A t \in Threads : WF_vars(Continue(t))

Spec == Init /\ [][Next]_vars /\ Fairness

-----------------------------------------------------------------------------
\* A store-conditional writes only if no other thread has written the address
\* since this thread's load-linked: the LL/SC semantics that the class comment
\* of MemoryMonitor promises.
ScIsAtomic == \A t \in Threads : pc[t].at = "sc_write" => t \notin staleLink

\* The same for programs whose only writes to these addresses are their
\* store-conditionals, while Notify has always reached every entry: the locks of
\* AcquireMonitor, LockMonitor and Notify leave no window between them, though
\* the lr takes its monitor before it reads and the sc writes before it notifies.
LLSCIsAtomic == program = {"llsc"} /\ undefined = "none" => ScIsAtomic

\* No locked read-modify-write, and no store-conditional, of another thread
\* comes between the read and the write of an amo: Lock and LockMonitor exclude
\* each other, though Notify and the fault handler release a lock that their
\* caller took.
AmoIsAtomic ==
    "store" \notin program =>
        \A t \in Threads : pc[t].at = "amo_write" => t \notin staleRead

\* A thread that locks the monitor releases it, on the fault paths too, unless
\* the process crashes in Notify.
LockIsReleased ==
    \A t \in Threads : (owner = t) ~> (owner # t \/ undefined = "crash")
=============================================================================
