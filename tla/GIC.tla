-------------------------------- MODULE GIC --------------------------------
(***************************************************************************)
(* The ARM generic interrupt controller: the distributor's per-interrupt   *)
(* state, and the CPU interface, whose update() selects the best interrupt *)
(* and drives the CPU's IRQ line, and whose acknowledge() and complete()   *)
(* maintain the stack of active interrupts as a list threaded through      *)
(* last_active.                                                            *)
(*                                                                         *)
(* GIC has a mutex that no method takes.  Register accesses run on the     *)
(* CPU's thread and lines are also driven by device threads (the tick      *)
(* source's, for the timers), so update() is a sequence of steps and two   *)
(* threads may be in it at once.                                           *)
(*                                                                         *)
(* Left out: binpnt, cpu_targets and config, which are stored and nothing  *)
(* reads but the guest, and edge_triggered, which no code sets.            *)
(***************************************************************************)
EXTENDS Integers, FiniteSets

CONSTANTS
    NIrqs,       \* number of interrupts (96 in the code)
    Priorities,  \* priorities a guest writes; a lower value is more urgent
    Masks,       \* values of the priority mask a guest writes
    Cpu,         \* the thread of the CPU
    Drivers      \* the threads that drive lines

ASSUME NIrqsAssumption == NIrqs \in 1 .. 1020      \* 1023 stands for none
ASSUME PrioritiesAssumption == Priorities \subseteq 0 .. 255 /\ 0 \in Priorities
ASSUME MasksAssumption == Masks \subseteq 0 .. 255

VARIABLES
    dist_enabled, cpu_enabled,   \* bit 0 of each ctrl
    enabled, pending, raised,    \* the interrupts with that flag
    priority,
    prio_mask,
    current_pending, running_irq, running_priority, last_active,
    line,                        \* the CPU's IRQ line is asserted
    pc,                          \* where each thread is in update()
    raced                        \* history: two threads have been in this code at once

guest == <<dist_enabled, cpu_enabled, enabled, priority, prio_mask>>
stack == <<running_irq, running_priority, last_active>>
vars == <<guest, pending, raised, stack, current_pending, line, pc, raced>>

Irqs == 0 .. NIrqs - 1
None == 1023
Lowest == 256        \* running_priority and best_prio when there is none
Threads == {Cpu} \cup Drivers

Idle == [at |-> "idle", irq |-> None, raise |-> FALSE]
Goto(t, c) ==
    /\ pc' = [pc EXCEPT ![t] = c]
    /\ raced' = (raced \/ (c # Idle /\ \E u \in Threads \ {t} : pc[u] # Idle))

\* update(), to be entered by t.
Update(t) == Goto(t, [Idle EXCEPT !.at = "update"])

PriorityOf(i) == IF i = None THEN Lowest ELSE priority[i]

\* The active interrupts, those that a walk of the list from running_irq meets:
\* they are in every set that has the running one and, with each, the next.
Walked(S) ==
    /\ running_irq # None => running_irq \in S
    /\ \A i \in S : last_active[i] # None => last_active[i] \in S
Active == {i \in Irqs : \A S \in SUBSET Irqs : Walked(S) => i \in S}

Init ==
    /\ dist_enabled = FALSE /\ cpu_enabled = FALSE
    /\ enabled = {} /\ pending = {} /\ raised = {}
    /\ priority = [i \in Irqs |-> 0]
    /\ prio_mask = 0
    /\ current_pending = None /\ running_irq = None /\ running_priority = Lowest
    /\ last_active = [i \in Irqs |-> None]
    /\ line = FALSE
    /\ pc = [t \in Threads |-> Idle]
    /\ raced = FALSE

-----------------------------------------------------------------------------
(* The lines.                                                              *)

AssertLine(t, i) ==
    /\ pc[t].at = "idle" /\ i \notin raised
    /\ raised' = raised \cup {i}
    /\ Update(t)
    /\ UNCHANGED <<guest, pending, stack, current_pending, line>>

RescindLine(t, i) ==
    /\ pc[t].at = "idle" /\ i \in raised
    /\ raised' = raised \ {i}
    /\ Update(t)
    /\ UNCHANGED <<guest, pending, stack, current_pending, line>>

-----------------------------------------------------------------------------
(* Register writes of the guest, each of which ends in update().  An       *)
(* access of one register names one interrupt.                             *)

Write ==
    /\ pc[Cpu].at = "idle"
    /\ Update(Cpu)
    /\ UNCHANGED <<raised, stack, current_pending, line>>

WriteDistCtrl(b) ==
    /\ Write
    /\ dist_enabled' = b
    /\ UNCHANGED <<cpu_enabled, enabled, pending, priority, prio_mask>>

WriteCpuCtrl(b) ==
    /\ Write
    /\ cpu_enabled' = b
    /\ UNCHANGED <<dist_enabled, enabled, pending, priority, prio_mask>>

WriteMask(m) ==
    /\ Write
    /\ prio_mask' = m
    /\ UNCHANGED <<dist_enabled, cpu_enabled, enabled, pending, priority>>

\* The binary point has no variable, but its write runs update().
WriteBinaryPoint == Write /\ UNCHANGED <<guest, pending>>

\* Variant: enabling an interrupt does not run update().
SetEnabledQuietly(i) ==
    /\ pc[Cpu].at = "idle"
    /\ enabled' = enabled \cup {i}
    /\ pending' = IF i \in raised THEN pending \cup {i} ELSE pending
    /\ UNCHANGED <<dist_enabled, cpu_enabled, priority, prio_mask, raised, stack,
                   current_pending, line, pc, raced>>

\* Enabling an interrupt whose (level-triggered) line is high makes it pending.
SetEnabled(i) ==
    /\ Write
    /\ enabled' = enabled \cup {i}
    /\ pending' = IF i \in raised THEN pending \cup {i} ELSE pending
    /\ UNCHANGED <<dist_enabled, cpu_enabled, priority, prio_mask>>

ClearEnabled(i) ==
    /\ Write
    /\ enabled' = enabled \ {i}
    /\ UNCHANGED <<dist_enabled, cpu_enabled, pending, priority, prio_mask>>

SetPending(i) ==
    /\ Write
    /\ pending' = pending \cup {i}
    /\ UNCHANGED guest

ClearPending(i) ==
    /\ Write
    /\ pending' = pending \ {i}
    /\ UNCHANGED guest

\* A guest changes the priority of an interrupt that is not active.
WritePriority(i, p) ==
    /\ i \notin Active
    /\ Write
    /\ priority' = [priority EXCEPT ![i] = p]
    /\ UNCHANGED <<dist_enabled, cpu_enabled, enabled, pending, prio_mask>>

-----------------------------------------------------------------------------
(* The active stack.                                                       *)

\* Variant: an interrupt that does not preempt the running one is acknowledged.
AcknowledgeAny ==
    /\ pc[Cpu].at = "idle" /\ current_pending # None
    /\ last_active' = [last_active EXCEPT ![current_pending] = running_irq]
    /\ pending' = pending \ {current_pending}
    /\ running_irq' = current_pending
    /\ running_priority' = priority[current_pending]
    /\ Update(Cpu)
    /\ UNCHANGED <<guest, raised, current_pending, line>>

\* A read of GICC_IAR; otherwise it returns 1023 and changes nothing.
Acknowledge ==
    /\ pc[Cpu].at = "idle"
    /\ current_pending # None /\ priority[current_pending] < running_priority
    /\ last_active' = [last_active EXCEPT ![current_pending] = running_irq]
    /\ pending' = pending \ {current_pending}
    /\ running_irq' = current_pending
    /\ running_priority' = priority[current_pending]
    /\ Update(Cpu)
    /\ UNCHANGED <<guest, raised, current_pending, line>>

\* complete() of the running interrupt pops it; of another active interrupt,
\* unlinks it from the list; of any other, walks the list and changes nothing.
Pop(irq) ==
    /\ running_irq' = last_active[irq]
    /\ running_priority' = PriorityOf(last_active[irq])
    /\ UNCHANGED last_active

Unlink(irq) ==
    /\ last_active' = [i \in Irqs |->
         IF i \in Active /\ last_active[i] = irq THEN last_active[irq]
         ELSE last_active[i]]
    /\ UNCHANGED <<running_irq, running_priority>>

\* Variant: complete() does not run update().
CompleteQuietly(irq) ==
    /\ pc[Cpu].at = "idle" /\ running_irq # None
    /\ IF irq = running_irq THEN Pop(irq) ELSE Unlink(irq)
    /\ UNCHANGED <<guest, pending, raised, current_pending, line, pc, raced>>

Complete(irq) ==
    /\ pc[Cpu].at = "idle" /\ running_irq # None
    /\ IF irq = running_irq THEN Pop(irq) ELSE Unlink(irq)
    /\ Update(Cpu)
    /\ UNCHANGED <<guest, pending, raised, current_pending, line>>

-----------------------------------------------------------------------------
(* update().                                                               *)

Deliverable == {i \in enabled : i \in pending \cup raised}

\* The scan in index order keeps the first interrupt of the best priority.
Best ==
    IF Deliverable = {} THEN None
    ELSE CHOOSE i \in Deliverable : \A j \in Deliverable :
           priority[i] < priority[j] \/ (priority[i] = priority[j] /\ i <= j)

ClearCurrent(t) ==
    /\ pc[t].at = "update"
    /\ current_pending' = None
    /\ Goto(t, [pc[t] EXCEPT
                  !.at = IF cpu_enabled /\ dist_enabled THEN "scan" ELSE "line"])
    /\ UNCHANGED <<guest, pending, raised, stack, line>>

Scan(t) ==
    /\ pc[t].at = "scan"
    /\ Goto(t, [pc[t] EXCEPT !.at = "select", !.irq = Best])
    /\ UNCHANGED <<guest, pending, raised, stack, current_pending, line>>

Select(t) ==
    /\ pc[t].at = "select"
    /\ LET best == PriorityOf(pc[t].irq)
       IN  /\ current_pending' = IF best < prio_mask THEN pc[t].irq
                                 ELSE current_pending
           /\ Goto(t, [pc[t] EXCEPT !.at = "line",
                         !.raise = best < prio_mask /\ best < running_priority])
    /\ UNCHANGED <<guest, pending, raised, stack, line>>

SetLine(t) ==
    /\ pc[t].at = "line"
    /\ line' = pc[t].raise
    /\ Goto(t, Idle)
    /\ UNCHANGED <<guest, pending, raised, stack, current_pending>>

Next ==
    \/ \E t \in Threads : ClearCurrent(t) \/ Scan(t) \/ Select(t) \/ SetLine(t)
    \/ \E t \in Drivers, i \in Irqs : AssertLine(t, i) \/ RescindLine(t, i)
    \/ \E b \in BOOLEAN : WriteDistCtrl(b) \/ WriteCpuCtrl(b)
    \/ \E m \in Masks : WriteMask(m)
    \/ WriteBinaryPoint
    \/ \E i \in Irqs :
         \/ SetEnabled(i) \/ ClearEnabled(i)
         \/ SetPending(i) \/ ClearPending(i)
         \/ \E p \in Priorities : WritePriority(i, p)
         \/ Complete(i)
    \/ Acknowledge

Spec == Init /\ [][Next]_vars

-----------------------------------------------------------------------------
Quiet == \A t \in Threads : pc[t].at = "idle"

\* The list through last_active is a stack of preemptions, whatever the other
\* threads do in update(): each active interrupt is more urgent than the one it
\* preempted, so the list ends and complete()'s walk of it terminates, and
\* running_priority is that of the running interrupt.
StackIsOrdered ==
    /\ running_priority = PriorityOf(running_irq)
    /\ \A i \in Active : priority[i] < PriorityOf(last_active[i])

\* Between operations the CPU's line is asserted exactly when the controller is
\* enabled and some enabled interrupt is below the mask and preempts the running
\* one: no access leaves a stale line behind, however accesses nest, as long as
\* no two threads have been in update() at once.
LineIsExact ==
    Quiet /\ ~raced =>
        line = ( /\ cpu_enabled /\ dist_enabled
                 /\ \E i \in Deliverable : /\ priority[i] < prio_mask
                                           /\ priority[i] < running_priority )

\* acknowledge() hands out a most urgent deliverable interrupt: current_pending,
\* computed by an earlier operation, is not stale when it is used (again unless
\* another thread drives a line meanwhile).
MostUrgentFirst ==
    [][~raced' => \A i \in Active' \ Active : \A j \in Deliverable :
         i \in Deliverable /\ priority[i] <= priority[j]]_vars
=============================================================================
