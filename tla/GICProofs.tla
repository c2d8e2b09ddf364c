----------------------------- MODULE GICProofs ------------------------------
(***************************************************************************)
(* Proofs about GIC for any number of interrupts, priorities, masks and    *)
(* driving threads.                                                        *)
(*                                                                         *)
(* StackIsOrdered is inductive with the types, since Active is the least   *)
(* set that a walk of the list stays in: to bound it after a step it is    *)
(* enough to name a set that the new list stays in.  LineIsExact and       *)
(* MostUrgentFirst rest on what holds at each label of update(), while one *)
(* thread at a time is there.                                              *)
(***************************************************************************)
EXTENDS GIC, WellFoundedInduction, TLAPS

\* The prover of a leaf that names none.
USE Zenon

Answers == Irqs \cup {None}
Places == {"update", "scan", "select", "line"}

\* The local state of a thread.
Local ==
  {r \in [at : Places \cup {"idle"}, irq : Answers, raise : BOOLEAN] :
     r.at = "idle" => r = Idle}

TypeOK ==
  /\ dist_enabled \in BOOLEAN /\ cpu_enabled \in BOOLEAN
  /\ enabled \subseteq Irqs /\ pending \subseteq Irqs /\ raised \subseteq Irqs
  /\ priority \in [Irqs -> 0 .. 255]
  /\ prio_mask \in 0 .. 255
  /\ current_pending \in Answers /\ running_irq \in Answers
  /\ running_priority \in 0 .. Lowest
  /\ last_active \in [Irqs -> Answers]
  /\ line \in BOOLEAN
  /\ pc \in [Threads -> Local]
  /\ raced \in BOOLEAN

-----------------------------------------------------------------------------
(* The interrupt that update() selects.                                    *)

\* No interrupt has the number that stands for none.
LEMMA NoneIsNoIrq == None \notin Irqs /\ Irqs \subseteq Nat
  BY NIrqsAssumption, SMTT(30) DEF None, Irqs

\* A nonempty set of naturals has a least element.
LEMMA LeastExists ==
  ASSUME NEW S \in SUBSET Nat, S # {}
  PROVE \E m \in S : \A n \in S : m <= n
<1>1. PICK m \in S : \A n \in S : <<n, m>> \notin OpToRel(<, Nat)
  BY NatLessThanWellFounded, WFMin
<1>2. \A n \in S : ~(n < m)
  BY <1>1 DEF OpToRel
<1> QED
  BY <1>2, SMTT(30)

\* The scan answers with a deliverable interrupt that none is more urgent than,
\* if there is one.
LEMMA BestIsMostUrgent ==
  ASSUME TypeOK
  PROVE /\ Best = None <=> Deliverable = {}
        /\ Best # None => /\ Best \in Deliverable
                          /\ \A j \in Deliverable : priority[Best] <= priority[j]
        /\ Best \in Answers
<1>1. Deliverable \subseteq Irqs
  BY DEF Deliverable, TypeOK
<1>2. CASE Deliverable = {}
  BY <1>2 DEF Best, Answers
<1>3. CASE Deliverable # {}
  <2> DEFINE P == {priority[i] : i \in Deliverable}
             Before(i, j) == priority[i] < priority[j] \/ (priority[i] = priority[j] /\ i <= j)
  <2>1. \A i \in Deliverable : i \in Nat /\ priority[i] \in Nat
    BY <1>1, NoneIsNoIrq, SMTT(30) DEF TypeOK
  <2>2. PICK p \in P : \A q \in P : p <= q
    <3>1. P \in SUBSET Nat /\ P # {}
      BY <1>3, <2>1
    <3> HIDE DEF P
    <3> QED
      BY <3>1, LeastExists
  <2> DEFINE F == {i \in Deliverable : priority[i] = p}
  <2>3. PICK i \in F : \A j \in F : i <= j
    <3>1. F \in SUBSET Nat /\ F # {}
      BY <2>1, <2>2
    <3> HIDE DEF F
    <3> QED
      BY <3>1, LeastExists
  <2>4. i \in Deliverable /\ \A j \in Deliverable : Before(i, j)
    BY <2>1, <2>2, <2>3, SMTT(30)
  <2>5. Best = CHOOSE k \in Deliverable : \A j \in Deliverable : Before(k, j)
    BY <1>3 DEF Best
  <2>6. Best \in Deliverable /\ \A j \in Deliverable : Before(Best, j)
    <3> HIDE DEF Before
    <3> QED
      BY <2>4, <2>5
  <2>7. \A j \in Deliverable : priority[Best] <= priority[j]
    BY <2>1, <2>6, SMTT(30)
  <2> QED
    BY <1>1, <1>3, <2>6, <2>7, NoneIsNoIrq DEF Answers
<1> QED
  BY <1>2, <1>3

-----------------------------------------------------------------------------
(* Types.                                                                  *)

\* What a thread does next, in the fields that change.
LEMMA Locals ==
  /\ Idle \in Local
  /\ [Idle EXCEPT !.at = "update"] \in Local /\ [Idle EXCEPT !.at = "update"] # Idle
  /\ \A r \in Local :
       /\ r.irq \in Answers /\ r.raise \in BOOLEAN
       /\ \A p \in Places : [r EXCEPT !.at = p] \in Local
       /\ \A p \in Places, i \in Answers : [r EXCEPT !.at = p, !.irq = i] \in Local
       /\ \A p \in Places, b \in BOOLEAN : [r EXCEPT !.at = p, !.raise = b] \in Local
<1> USE DEF Local, Idle, Places, Answers
<1>1. Idle \in Local
  OBVIOUS
<1>2. [Idle EXCEPT !.at = "update"] \in Local /\ [Idle EXCEPT !.at = "update"] # Idle
  OBVIOUS
<1>3. ASSUME NEW r \in Local PROVE r.irq \in Answers /\ r.raise \in BOOLEAN
  OBVIOUS
<1>4. ASSUME NEW r \in Local, NEW p \in Places PROVE [r EXCEPT !.at = p] \in Local
  OBVIOUS
<1>5. ASSUME NEW r \in Local, NEW p \in Places, NEW i \in Answers
      PROVE [r EXCEPT !.at = p, !.irq = i] \in Local
  OBVIOUS
<1>6. ASSUME NEW r \in Local, NEW p \in Places, NEW b \in BOOLEAN
      PROVE [r EXCEPT !.at = p, !.raise = b] \in Local
  OBVIOUS
<1> HIDE DEF Local, Idle, Places, Answers
<1> QED
  BY <1>1, <1>2, <1>3, <1>4, <1>5, <1>6

\* Goto moves one thread, and leaves the types.
LEMMA GotoType ==
  ASSUME TypeOK, NEW t \in Threads, NEW r \in Local, Goto(t, r)
  PROVE /\ pc' \in [Threads -> Local] /\ raced' \in BOOLEAN
        /\ pc'[t] = r
  BY DEF TypeOK, Goto

\* The register accesses of the guest, which end in update() on the CPU's thread.
Access ==
  \/ \E b \in BOOLEAN : WriteDistCtrl(b) \/ WriteCpuCtrl(b)
  \/ \E m \in Masks : WriteMask(m)
  \/ WriteBinaryPoint
  \/ \E i \in Irqs : SetEnabled(i) \/ ClearEnabled(i) \/ SetPending(i) \/ ClearPending(i)
  \/ \E i \in Irqs, p \in Priorities : WritePriority(i, p)
  \/ \E i \in Irqs : Complete(i)
  \/ Acknowledge

\* The threads that the steps belong to.
LEMMA GICCases ==
  ASSUME [Next]_vars
  PROVE \/ \E t \in Threads : ClearCurrent(t) \/ Scan(t) \/ Select(t) \/ SetLine(t)
        \/ \E t \in Threads, i \in Irqs : AssertLine(t, i) \/ RescindLine(t, i)
        \/ Access
        \/ UNCHANGED vars
  BY DEF Next, Threads, Access

\* Every access of the guest enters update().
LEMMA AccessEnters ==
  ASSUME Access
  PROVE pc[Cpu].at = "idle" /\ Update(Cpu) /\ UNCHANGED <<raised, current_pending, line>>
  BY DEF Access, WriteDistCtrl, WriteCpuCtrl, WriteMask, WriteBinaryPoint, SetEnabled,
         ClearEnabled, SetPending, ClearPending, WritePriority, Complete, Acknowledge, Write

\* Every variable keeps its type.
LEMMA GICTypeStep == TypeOK /\ [Next]_vars => TypeOK'
<1> SUFFICES ASSUME TypeOK, [Next]_vars PROVE TypeOK'
  OBVIOUS
<1> DEFINE PcOK == pc' \in [Threads -> Local] /\ raced' \in BOOLEAN
<1> USE DEF TypeOK, guest, stack
<1>1. ASSUME NEW t \in Threads, Update(t) PROVE PcOK
  BY <1>1, Locals, GotoType DEF Update
<1>2. ASSUME NEW t \in Threads, ClearCurrent(t) PROVE TypeOK'
  <2>1. PcOK
    BY <1>2, Locals, GotoType, ZenonT(30) DEF ClearCurrent, Places
  <2> QED
    BY <1>2, <2>1 DEF ClearCurrent, Answers
<1>3. ASSUME NEW t \in Threads, Scan(t) PROVE TypeOK'
  <2>1. PcOK
    BY <1>3, Locals, GotoType, BestIsMostUrgent, ZenonT(30) DEF Scan, Places
  <2> QED
    BY <1>3, <2>1 DEF Scan
<1>4. ASSUME NEW t \in Threads, Select(t) PROVE TypeOK'
  <2> DEFINE best == PriorityOf(pc[t].irq)
             b == best < prio_mask /\ best < running_priority
  <2>1. pc[t] \in Local /\ "line" \in Places /\ b \in BOOLEAN
    BY DEF Places
  <2>2. Goto(t, [pc[t] EXCEPT !.at = "line", !.raise = b])
    BY <1>4 DEF Select
  <2>3. PcOK
    <3> HIDE DEF b
    <3> QED
      BY <2>1, <2>2, Locals, GotoType, ZenonT(30)
  <2> QED
    BY <1>4, <2>1, <2>3, Locals DEF Select
<1>5. ASSUME NEW t \in Threads, SetLine(t) PROVE TypeOK'
  <2>1. PcOK
    BY <1>5, Locals, GotoType, ZenonT(30) DEF SetLine
  <2>2. line' \in BOOLEAN
    BY <1>5, Locals DEF SetLine
  <2> QED
    BY <1>5, <2>1, <2>2 DEF SetLine
<1>6. ASSUME NEW t \in Threads, NEW i \in Irqs, AssertLine(t, i) \/ RescindLine(t, i)
      PROVE TypeOK'
  BY <1>1, <1>6, SMTT(30) DEF AssertLine, RescindLine
<1>7. CASE Access
  <2>1. PcOK /\ UNCHANGED <<raised, current_pending, line>>
    BY <1>1, <1>7, AccessEnters DEF Threads
  <2> HIDE DEF PcOK
  <2>2. ASSUME NEW b \in BOOLEAN, WriteDistCtrl(b) \/ WriteCpuCtrl(b) PROVE TypeOK'
    BY <2>1, <2>2, SMTT(30) DEF WriteDistCtrl, WriteCpuCtrl, Write, PcOK
  <2>3. ASSUME NEW m \in Masks, WriteMask(m) PROVE TypeOK'
    BY <2>1, <2>3, MasksAssumption, SMTT(30) DEF WriteMask, Write, PcOK
  <2>4. CASE WriteBinaryPoint
    BY <2>1, <2>4, SMTT(30) DEF WriteBinaryPoint, Write, PcOK
  <2>5. ASSUME NEW i \in Irqs,
               SetEnabled(i) \/ ClearEnabled(i) \/ SetPending(i) \/ ClearPending(i)
        PROVE TypeOK'
    BY <2>1, <2>5, SMTT(30)
       DEF SetEnabled, ClearEnabled, SetPending, ClearPending, Write, PcOK
  <2>6. ASSUME NEW i \in Irqs, NEW p \in Priorities, WritePriority(i, p) PROVE TypeOK'
    BY <2>1, <2>6, PrioritiesAssumption, SMTT(30) DEF WritePriority, Write, PcOK
  <2>7. ASSUME NEW i \in Irqs, Complete(i) PROVE TypeOK'
    <3>1. /\ running_irq' \in Answers /\ running_priority' \in 0 .. Lowest
          /\ last_active' \in [Irqs -> Answers]
      BY <2>7, SMTT(30) DEF Complete, Pop, Unlink, PriorityOf, Lowest, Answers
    <3> QED
      BY <2>1, <2>7, <3>1, SMTT(30) DEF Complete, PcOK
  <2>8. CASE Acknowledge
    <3>1. current_pending \in Irqs
      BY <2>8 DEF Acknowledge, Answers
    <3> QED
      BY <2>1, <2>8, <3>1, SMTT(30) DEF Acknowledge, Answers, Lowest, PcOK
  <2> QED
    BY <1>7, <2>2, <2>3, <2>4, <2>5, <2>6, <2>7, <2>8 DEF Access
<1>8. CASE UNCHANGED vars
  BY <1>8 DEF vars
<1> QED
  BY GICCases, <1>2, <1>3, <1>4, <1>5, <1>6, <1>7, <1>8

-----------------------------------------------------------------------------
(* The stack of active interrupts.                                         *)

\* The walk of the list stays in Active, and Active in every set that it stays in.
LEMMA ActiveIsLeast ==
  ASSUME TypeOK
  PROVE /\ Active \in SUBSET Irqs /\ Walked(Active)
        /\ \A S \in SUBSET Irqs : Walked(S) => Active \subseteq S
<1>1. Active \in SUBSET Irqs /\ \A S \in SUBSET Irqs : Walked(S) => Active \subseteq S
  BY DEF Active
<1>2. running_irq # None => running_irq \in Active
  BY DEF Active, Walked, TypeOK, Answers
<1>3. ASSUME NEW i \in Active, last_active[i] # None PROVE last_active[i] \in Active
  <2>1. last_active[i] \in Irqs
    BY <1>1, <1>3 DEF TypeOK, Answers
  <2>2. ASSUME NEW S \in SUBSET Irqs, Walked(S) PROVE last_active[i] \in S
    BY <1>1, <1>3, <2>2 DEF Walked
  <2> QED
    BY <2>1, <2>2 DEF Active
<1> QED
  BY <1>1, <1>2, <1>3 DEF Walked

\* What a step does to the active interrupts: acknowledge() may add the one that it
\* hands out, and no other step adds any.
LEMMA ActiveStep ==
  ASSUME TypeOK, TypeOK', [Next]_vars
  PROVE \/ Acknowledge /\ Active' \subseteq Active \cup {current_pending}
        \/ Active' \subseteq Active
<1> DEFINE Stays(S) ==
             /\ running_irq' # None => running_irq' \in S
             /\ \A i \in S : last_active'[i] # None => last_active'[i] \in S
<1>1. ASSUME NEW S \in SUBSET Irqs, Stays(S) PROVE Active' \subseteq S
  BY <1>1 DEF Active, Walked
<1>2. Active \in SUBSET Irqs /\ Walked(Active)
  BY ActiveIsLeast
<1>3. CASE Acknowledge
  <2> DEFINE S == Active \cup {current_pending}
  <2>1. current_pending \in Irqs
    BY <1>3 DEF Acknowledge, TypeOK, Answers
  <2>2. running_irq' \in S
    BY <1>3 DEF Acknowledge
  <2>3. ASSUME NEW i \in S, last_active'[i] # None PROVE last_active'[i] \in S
    BY <1>2, <1>3, <2>1, <2>3, SMTT(30) DEF Acknowledge, Walked, TypeOK
  <2>4. S \in SUBSET Irqs
    BY <1>2, <2>1
  <2>5. Stays(S)
    BY <2>2, <2>3
  <2> HIDE DEF S, Stays
  <2>6. Active' \subseteq S
    BY <1>1, <2>4, <2>5
  <2> QED
    BY <1>3, <2>6 DEF S
<1>4. ASSUME NEW i \in Irqs, Complete(i) PROVE Stays(Active)
  <2>1. CASE i = running_irq
    BY <1>2, <1>4, <2>1 DEF Complete, Pop, Walked
  <2>2. CASE i # running_irq
    <3>1. running_irq' = running_irq /\ running_irq # None
      BY <1>4, <2>2 DEF Complete, Unlink
    <3>2. ASSUME NEW k \in Active, last_active'[k] # None PROVE last_active'[k] \in Active
      <4>1. last_active'[k] = IF last_active[k] = i THEN last_active[i] ELSE last_active[k]
        BY <1>2, <1>4, <2>2, <3>2 DEF Complete, Unlink
      <4>2. last_active[k] = i => i \in Active
        BY <1>2, <3>2, NoneIsNoIrq DEF Walked
      <4> QED
        BY <1>2, <3>2, <4>1, <4>2 DEF Walked
    <3> QED
      BY <1>2, <3>1, <3>2 DEF Walked
  <2> QED
    BY <2>1, <2>2
<1>5. ASSUME UNCHANGED <<running_irq, last_active>> PROVE Stays(Active)
  BY <1>2, <1>5 DEF Walked
<1>6. ASSUME Access, ~Acknowledge, ~\E i \in Irqs : Complete(i)
      PROVE UNCHANGED <<running_irq, last_active>>
  BY <1>6
     DEF Access, WriteDistCtrl, WriteCpuCtrl, WriteMask, WriteBinaryPoint, SetEnabled,
         ClearEnabled, SetPending, ClearPending, WritePriority, Write, stack
<1>7. ASSUME NEW t \in Threads,
             \/ ClearCurrent(t) \/ Scan(t) \/ Select(t) \/ SetLine(t)
             \/ \E i \in Irqs : AssertLine(t, i) \/ RescindLine(t, i)
      PROVE UNCHANGED <<running_irq, last_active>>
  BY <1>7 DEF ClearCurrent, Scan, Select, SetLine, AssertLine, RescindLine, stack
<1>8. ASSUME UNCHANGED vars PROVE UNCHANGED <<running_irq, last_active>>
  BY <1>8 DEF vars, stack
<1>9. Acknowledge \/ Stays(Active)
  <2> HIDE DEF Stays
  <2> QED
    BY GICCases, <1>4, <1>5, <1>6, <1>7, <1>8
<1> QED
  <2> HIDE DEF Stays
  <2> QED
    BY <1>1, <1>2, <1>3, <1>9

\* Each step leaves every active interrupt more urgent than the one it preempted.
LEMMA StackStep == TypeOK /\ TypeOK' /\ StackIsOrdered /\ [Next]_vars => StackIsOrdered'
<1> SUFFICES ASSUME TypeOK, TypeOK', StackIsOrdered, [Next]_vars PROVE StackIsOrdered'
  OBVIOUS
<1>1. Active \in SUBSET Irqs /\ Walked(Active) /\ None \notin Irqs
  BY ActiveIsLeast, NoneIsNoIrq
<1>2. CASE Acknowledge
  <2>1. Active' \subseteq Active \cup {current_pending}
    BY ActiveStep
  <2>2. current_pending \in Irqs
    BY <1>2, SMTT(30) DEF Acknowledge, TypeOK, Answers
  <2>3. UNCHANGED priority /\ \A i : PriorityOf(i)' = PriorityOf(i)
    BY <1>2 DEF Acknowledge, guest, PriorityOf
  <2>4. running_priority' = PriorityOf(running_irq)'
    BY <1>1, <1>2, <2>2, <2>3 DEF Acknowledge, PriorityOf
  <2>5. priority[current_pending] < PriorityOf(running_irq)
    BY <1>2 DEF Acknowledge, StackIsOrdered
  <2>6. ASSUME NEW i \in Active' PROVE priority'[i] < PriorityOf(last_active'[i])
    <3>1. CASE i = current_pending
      BY <1>2, <2>2, <2>3, <2>5, <3>1, SMTT(30) DEF Acknowledge, TypeOK
    <3>2. CASE i # current_pending
      <4>1. i \in Active /\ last_active'[i] = last_active[i]
        BY <1>1, <1>2, <2>1, <2>6, <3>2, SMTT(30) DEF Acknowledge, TypeOK
      <4> QED
        BY <2>3, <4>1 DEF StackIsOrdered
    <3> QED
      BY <3>1, <3>2
  <2> QED
    BY <2>3, <2>4, <2>6 DEF StackIsOrdered
<1> SUFFICES ASSUME ~Acknowledge PROVE StackIsOrdered'
  BY <1>2
<1>3. Active' \subseteq Active
  BY ActiveStep
<1>4. ASSUME NEW i \in Irqs, Complete(i) PROVE StackIsOrdered'
  <2>1. UNCHANGED priority /\ \A k : PriorityOf(k)' = PriorityOf(k)
    BY <1>4 DEF Complete, guest, PriorityOf
  <2>2. CASE i = running_irq
    <3>1. running_irq' = last_active[i] /\ running_priority' = PriorityOf(last_active[i])
          /\ last_active' = last_active
      BY <1>4, <2>2 DEF Complete, Pop
    <3> QED
      BY <1>3, <2>1, <3>1 DEF StackIsOrdered
  <2>3. CASE i # running_irq
    <3>1. UNCHANGED <<running_irq, running_priority>>
      BY <1>4, <2>3 DEF Complete, Unlink
    <3>2. ASSUME NEW k \in Active PROVE priority[k] < PriorityOf(last_active'[k])
      <4>1. last_active'[k] = IF last_active[k] = i THEN last_active[i] ELSE last_active[k]
        BY <1>1, <1>4, <2>3 DEF Complete, Unlink
      <4>2. CASE last_active[k] = i
        <5>1. i \in Active /\ last_active'[k] = last_active[i]
          BY <1>1, <4>1, <4>2 DEF Walked
        <5>2. priority[k] < priority[i] /\ priority[i] < PriorityOf(last_active[i])
          BY <1>1, <4>2, <5>1 DEF StackIsOrdered, PriorityOf
        <5>3. priority[k] \in Nat /\ priority[i] \in Nat /\ PriorityOf(last_active[i]) \in Nat
          <6>1. k \in Irqs /\ i \in Irqs /\ last_active[i] \in Answers
            BY <1>1, <5>1, SMTT(30) DEF TypeOK
          <6>2. priority \in [Irqs -> 0..255]
            BY DEF TypeOK
          <6>3. \A j \in Irqs : priority[j] \in Nat
            BY <6>2, SMTT(30)
          <6>4. PriorityOf(last_active[i]) \in Nat
            BY <6>1, <6>3, SMTT(30) DEF PriorityOf, Answers, Lowest
          <6> QED
            BY <6>1, <6>3, <6>4
        <5> QED
          BY <5>1, <5>2, <5>3, SMTT(30)
      <4>3. CASE last_active[k] # i
        BY <4>1, <4>3 DEF StackIsOrdered
      <4> QED
        BY <4>2, <4>3
    <3> QED
      BY <1>3, <2>1, <3>1, <3>2 DEF StackIsOrdered
  <2> QED
    BY <2>2, <2>3
<1>5. ASSUME NEW i \in Irqs, NEW p \in Priorities, WritePriority(i, p) PROVE StackIsOrdered'
  <2>1. i \notin Active /\ UNCHANGED <<running_irq, running_priority, last_active>>
    BY <1>5 DEF WritePriority, Write, stack
  <2>2. \A k \in Active : priority'[k] = priority[k]
    BY <1>1, <1>5, <2>1, SMTT(30) DEF WritePriority, TypeOK
  <2>3. \A k \in Active \cup {None} : PriorityOf(k)' = PriorityOf(k)
    BY <2>2 DEF PriorityOf
  <2>4. running_irq \in Active \cup {None}
        /\ \A k \in Active : last_active[k] \in Active \cup {None}
    BY <1>1 DEF Walked
  <2> QED
    BY <1>3, <2>1, <2>2, <2>3, <2>4 DEF StackIsOrdered
<1>6. ASSUME UNCHANGED <<priority, stack>> PROVE StackIsOrdered'
  BY <1>3, <1>6 DEF StackIsOrdered, PriorityOf, stack
<1>7. ASSUME Access, ~\E i \in Irqs : Complete(i),
             ~\E i \in Irqs, p \in Priorities : WritePriority(i, p)
      PROVE UNCHANGED <<priority, stack>>
  BY <1>7
     DEF Access, WriteDistCtrl, WriteCpuCtrl, WriteMask, WriteBinaryPoint, SetEnabled,
         ClearEnabled, SetPending, ClearPending, Write, guest
<1>8. ASSUME NEW t \in Threads,
             \/ ClearCurrent(t) \/ Scan(t) \/ Select(t) \/ SetLine(t)
             \/ \E i \in Irqs : AssertLine(t, i) \/ RescindLine(t, i)
      PROVE UNCHANGED <<priority, stack>>
  BY <1>8 DEF ClearCurrent, Scan, Select, SetLine, AssertLine, RescindLine, guest
<1>9. ASSUME UNCHANGED vars PROVE UNCHANGED <<priority, stack>>
  BY <1>9 DEF vars, guest
<1> QED
  BY GICCases, <1>4, <1>5, <1>6, <1>7, <1>8, <1>9

-----------------------------------------------------------------------------
(* update(), one thread at a time.                                         *)

On == cpu_enabled /\ dist_enabled

\* What update() is to leave in current_pending and on the line.
Candidate == IF On /\ PriorityOf(Best) < prio_mask THEN Best ELSE None
Wanted ==
  On /\ \E i \in Deliverable : priority[i] < prio_mask /\ priority[i] < running_priority

\* Unless they have raced, at most one thread is in update().
Alone ==
  ~raced => \A t, u \in Threads : t # u => pc[t] = Idle \/ pc[u] = Idle

\* What holds while a thread is at each label, and no other is in update().
Phase(r) ==
  /\ r.at = "update" => r.raise = FALSE
  /\ r.at = "scan" => On /\ current_pending = None
  /\ r.at = "select" => On /\ current_pending = None /\ r.irq = Best
  /\ r.at = "line" => current_pending = Candidate /\ (r.raise <=> Wanted)

Settled == current_pending = Candidate /\ (line <=> Wanted)

PhaseOK ==
  ~raced => /\ Quiet => Settled
            /\ \A t \in Threads : Phase(pc[t])

\* Some interrupt is to be delivered exactly if the best one is.
LEMMA WantedIsBest ==
  ASSUME TypeOK
  PROVE Wanted <=> /\ On /\ PriorityOf(Best) < prio_mask
                   /\ PriorityOf(Best) < running_priority
<1>1. prio_mask \in 0 .. 255 /\ running_priority \in 0 .. 256
  BY DEF TypeOK, Lowest
<1>2. \A i \in Deliverable : i \in Irqs /\ priority[i] \in 0 .. 255
  BY DEF TypeOK, Deliverable
<1>3. CASE Best = None
  <2>1. ~(PriorityOf(Best) < prio_mask)
    BY <1>1, <1>3, SMTT(30) DEF PriorityOf, Lowest
  <2> QED
    BY <1>3, <2>1, BestIsMostUrgent DEF Wanted
<1>4. CASE Best # None
  <2>1. PriorityOf(Best) = priority[Best] /\ Best \in Deliverable
        /\ \A j \in Deliverable : priority[Best] <= priority[j]
    BY <1>4, BestIsMostUrgent DEF PriorityOf
  <2>2. ASSUME NEW j \in Deliverable, priority[j] < prio_mask, priority[j] < running_priority
        PROVE priority[Best] < prio_mask /\ priority[Best] < running_priority
    <3>1. priority[j] \in Int /\ priority[Best] \in Int /\ priority[Best] <= priority[j]
      BY <1>2, <2>1, SMTT(30)
    <3>2. prio_mask \in Int /\ running_priority \in Int
      BY <1>1, SMTT(30)
    <3> QED
      BY <2>2, <3>1, <3>2, SMTT(30)
  <2> QED
    BY <2>1, <2>2 DEF Wanted
<1> QED
  BY <1>3, <1>4

\* A step that leaves no race behind is taken by the only thread in update().
LEMMA Solo ==
  ASSUME TypeOK, Alone, NEW t \in Threads, NEW r, Goto(t, r), ~raced', pc[t] # Idle \/ r # Idle
  PROVE /\ ~raced /\ pc'[t] = r
        /\ \A u \in Threads \ {t} : pc[u] = Idle /\ pc'[u] = Idle
  BY ZenonT(30) DEF TypeOK, Alone, Goto

\* So it is enough to look at that thread.
LEMMA SoloPhase ==
  ASSUME NEW t \in Threads, \A u \in Threads \ {t} : pc'[u] = Idle, Phase(pc[t])',
         pc'[t].at = "idle" => Settled'
  PROVE Alone' /\ PhaseOK'
<1>1. Phase(Idle)'
  BY DEF Phase, Idle
<1>2. \A u \in Threads : Phase(pc[u])'
  BY <1>1
<1> QED
  BY <1>2 DEF Alone, PhaseOK, Quiet

\* Each step establishes what its thread's next label needs.
LEMMA PhaseStep == TypeOK /\ Alone /\ PhaseOK /\ [Next]_vars => Alone' /\ PhaseOK'
<1> SUFFICES ASSUME TypeOK, Alone, PhaseOK, [Next]_vars PROVE Alone' /\ PhaseOK'
  OBVIOUS
<1>1. CASE raced'
  BY <1>1 DEF Alone, PhaseOK
<1>a. ASSUME UNCHANGED <<guest, pending, raised, stack>>
      PROVE UNCHANGED <<On, Best, Wanted>> /\ UNCHANGED Candidate
  BY <1>a, SMTT(30) DEF guest, stack, On, Best, Wanted, Candidate, Deliverable, PriorityOf
<1>2. CASE UNCHANGED vars
  <2>1. UNCHANGED <<On, Best, Wanted>> /\ UNCHANGED Candidate
    BY <1>2, <1>a DEF vars
  <2>2. UNCHANGED <<current_pending, line, pc, raced>>
    BY <1>2 DEF vars
  <2> QED
    BY <2>1, <2>2 DEF Alone, PhaseOK, Phase, Quiet, Settled
<1> SUFFICES ASSUME ~raced', ~UNCHANGED vars PROVE Alone' /\ PhaseOK'
  BY <1>1, <1>2
\* What the thread that takes the step finds.
<1>3. ASSUME NEW t \in Threads, NEW r, Goto(t, r), pc[t].at # "idle" \/ r # Idle
      PROVE /\ ~raced /\ pc'[t] = r /\ Phase(pc[t])
            /\ \A u \in Threads \ {t} : pc'[u] = Idle
  <2>1. pc[t].at # "idle" => pc[t] # Idle
    BY SMTT(30) DEF Idle
  <2>2. /\ ~raced /\ pc'[t] = r
        /\ \A u \in Threads \ {t} : pc[u] = Idle /\ pc'[u] = Idle
    BY <1>3, <2>1, Solo
  <2> QED
    BY <2>2 DEF PhaseOK
<1>4. ASSUME NEW t \in Threads, Update(t) PROVE Alone' /\ PhaseOK'
  <2>1. /\ pc'[t] = [Idle EXCEPT !.at = "update"]
        /\ \A u \in Threads \ {t} : pc'[u] = Idle
    BY <1>3, <1>4, Locals DEF Update
  <2>2. pc'[t].at = "update" /\ pc'[t].raise = FALSE
    BY <2>1 DEF Idle
  <2>3. Phase(pc[t])'
    BY <2>2 DEF Phase
  <2> QED
    BY <2>1, <2>2, <2>3, SoloPhase
<1>5. ASSUME NEW t \in Threads, ClearCurrent(t) PROVE Alone' /\ PhaseOK'
  <2> DEFINE p == IF On THEN "scan" ELSE "line"
  <2>1. /\ pc'[t] = [pc[t] EXCEPT !.at = p] /\ Phase(pc[t])
        /\ \A u \in Threads \ {t} : pc'[u] = Idle
    BY <1>3, <1>5 DEF ClearCurrent, On
  <2>2. UNCHANGED <<On, Best, Wanted>> /\ UNCHANGED Candidate /\ current_pending' = None
    BY <1>5, <1>a DEF ClearCurrent
  <2>3. pc[t] \in Local /\ pc[t].at = "update"
    BY <1>5 DEF ClearCurrent, TypeOK
  <2>4. pc'[t].at = p /\ pc'[t].raise = FALSE
    BY <2>1, <2>3 DEF Phase, Local
  <2>5. ~On => Candidate = None /\ ~Wanted
    BY DEF Candidate, Wanted
  <2>6. Phase(pc[t])' /\ pc'[t].at # "idle"
    BY <2>2, <2>4, <2>5 DEF Phase
  <2> QED
    BY <2>1, <2>6, SoloPhase
<1>6. ASSUME NEW t \in Threads, Scan(t) PROVE Alone' /\ PhaseOK'
  <2>1. /\ pc'[t] = [pc[t] EXCEPT !.at = "select", !.irq = Best] /\ Phase(pc[t])
        /\ \A u \in Threads \ {t} : pc'[u] = Idle
    BY <1>3, <1>6 DEF Scan
  <2>2. UNCHANGED <<On, Best, Wanted>> /\ UNCHANGED current_pending
    BY <1>6, <1>a DEF Scan
  <2>3. pc[t] \in Local /\ pc[t].at = "scan"
    BY <1>6 DEF Scan, TypeOK
  <2>4. pc'[t].at = "select" /\ pc'[t].irq = Best
    BY <2>1, <2>3 DEF Local
  <2>5. Phase(pc[t])' /\ pc'[t].at # "idle"
    BY <2>1, <2>2, <2>3, <2>4 DEF Phase
  <2> QED
    BY <2>1, <2>5, SoloPhase
<1>7. ASSUME NEW t \in Threads, Select(t) PROVE Alone' /\ PhaseOK'
  <2> DEFINE best == PriorityOf(pc[t].irq)
             b == best < prio_mask /\ best < running_priority
  <2>1. pc[t] \in Local /\ pc[t].at = "select"
    BY <1>7 DEF Select, TypeOK
  <2>2. /\ pc'[t] = [pc[t] EXCEPT !.at = "line", !.raise = b] /\ Phase(pc[t])
        /\ \A u \in Threads \ {t} : pc'[u] = Idle
    BY <1>3, <1>7 DEF Select
  <2>3. UNCHANGED <<On, Best, Wanted>> /\ UNCHANGED Candidate
    BY <1>7, <1>a DEF Select
  <2>4. pc[t].irq = Best /\ On /\ current_pending = None
    BY <2>1, <2>2 DEF Phase
  <2>5. current_pending' = Candidate
    BY <1>7, <2>4 DEF Select, Candidate
  <2>6. b <=> Wanted
    BY <2>4, WantedIsBest
  <2>7. pc'[t].at = "line" /\ (pc'[t].raise <=> b)
    <3> HIDE DEF b
    <3> QED
      BY <2>1, <2>2 DEF Local
  <2> HIDE DEF b
  <2>8. Phase(pc[t])' /\ pc'[t].at # "idle"
    BY <2>3, <2>5, <2>6, <2>7 DEF Phase
  <2> QED
    BY <2>2, <2>8, SoloPhase
<1>8. ASSUME NEW t \in Threads, SetLine(t) PROVE Alone' /\ PhaseOK'
  <2>1. /\ pc'[t] = Idle /\ Phase(pc[t])
        /\ \A u \in Threads \ {t} : pc'[u] = Idle
    BY <1>3, <1>8 DEF SetLine
  <2>2. UNCHANGED <<On, Best, Wanted>> /\ UNCHANGED Candidate
    BY <1>8, <1>a DEF SetLine
  <2>3. Settled'
    BY <1>8, <2>1, <2>2 DEF SetLine, Phase, Settled
  <2>4. Phase(pc[t])'
    BY <2>1, SMTT(30) DEF Phase, Idle
  <2> QED
    BY <2>1, <2>3, <2>4, SoloPhase
<1>9. ASSUME NEW t \in Threads, NEW i \in Irqs, AssertLine(t, i) \/ RescindLine(t, i)
      PROVE Update(t)
  BY <1>9 DEF AssertLine, RescindLine
<1>10. ASSUME Access PROVE Cpu \in Threads /\ Update(Cpu)
  BY <1>10, AccessEnters DEF Threads
<1> QED
  BY GICCases, <1>4, <1>5, <1>6, <1>7, <1>8, <1>9, <1>10

-----------------------------------------------------------------------------
GICInv == TypeOK /\ StackIsOrdered /\ Alone /\ PhaseOK

\* The list of active interrupts is ordered, and update()'s local variables agree
\* with the registers at every label while one thread at a time is in it.
THEOREM GICInvariant == Spec => []GICInv
<1>1. Init => GICInv
  <2> SUFFICES ASSUME Init PROVE GICInv
    OBVIOUS
  <2>1. TypeOK
    <3>1. pc \in [Threads -> Local]
      BY Locals DEF Init
    <3>2. priority \in [Irqs -> 0 .. 255] /\ last_active \in [Irqs -> Answers]
      BY SMTT(30) DEF Init, Answers
    <3>3. /\ dist_enabled \in BOOLEAN /\ cpu_enabled \in BOOLEAN
          /\ line \in BOOLEAN /\ raced \in BOOLEAN
      BY DEF Init
    <3>4. prio_mask \in 0 .. 255 /\ running_priority \in 0 .. Lowest
      BY SMTT(30) DEF Init, Lowest
    <3>5. current_pending \in Answers /\ running_irq \in Answers
      BY DEF Init, Answers
    <3> QED
      BY <3>1, <3>2, <3>3, <3>4, <3>5 DEF Init, TypeOK
  <2>2. Active = {}
    <3>1. Walked({})
      BY DEF Init, Walked
    <3> QED
      BY <3>1 DEF Active
  <2>3. StackIsOrdered
    BY <2>2 DEF Init, StackIsOrdered, PriorityOf
  <2>4. Phase(Idle)
    BY DEF Phase, Idle
  <2>5. Settled
    BY DEF Init, Settled, Candidate, Wanted, On
  <2>6. Alone /\ PhaseOK
    BY <2>4, <2>5 DEF Init, Alone, PhaseOK
  <2> QED
    BY <2>1, <2>3, <2>6 DEF GICInv
<1>2. GICInv /\ [Next]_vars => GICInv'
  BY GICTypeStep, StackStep, PhaseStep DEF GICInv
<1> QED
  BY <1>1, <1>2, PTL DEF Spec

\* Whatever other threads do in update(), acknowledge() and complete() keep the
\* active interrupts a stack of preemptions, so complete()'s walk of it ends.
THEOREM ActiveInterruptsAreAStack == Spec => []StackIsOrdered
<1>1. GICInv => StackIsOrdered
  BY DEF GICInv
<1> QED
  BY GICInvariant, <1>1, PTL

\* When no thread is in update(), and none has met another there, the CPU's line is
\* asserted exactly if some interrupt is to be delivered.
THEOREM TheLineIsExact == Spec => []LineIsExact
<1>1. GICInv => LineIsExact
  <2> SUFFICES ASSUME GICInv, Quiet, ~raced
               PROVE line = ( /\ cpu_enabled /\ dist_enabled
                              /\ \E i \in Deliverable : /\ priority[i] < prio_mask
                                                        /\ priority[i] < running_priority )
    BY DEF LineIsExact
  <2>1. line \in BOOLEAN /\ (line <=> Wanted)
    BY DEF GICInv, TypeOK, PhaseOK, Settled
  <2> QED
    BY <2>1 DEF Wanted, On
<1> QED
  BY GICInvariant, <1>1, PTL

\* The interrupt that acknowledge() makes active is one that update() would choose
\* now, unless another thread was in update() meanwhile.
THEOREM AcknowledgedIsMostUrgent == Spec => MostUrgentFirst
<1> DEFINE Urgent == ~raced' => \A i \in Active' \ Active : \A j \in Deliverable :
                       i \in Deliverable /\ priority[i] <= priority[j]
<1>1. GICInv /\ GICInv' /\ [Next]_vars => Urgent
  <2> SUFFICES ASSUME GICInv, GICInv', [Next]_vars, ~raced',
                      NEW i \in Active' \ Active, NEW j \in Deliverable
               PROVE i \in Deliverable /\ priority[i] <= priority[j]
    OBVIOUS
  <2>1. Acknowledge /\ i = current_pending
    BY ActiveStep DEF GICInv
  <2>2. Cpu \in Threads /\ pc[Cpu].at = "idle" /\ Update(Cpu) /\ i # None
    BY <2>1 DEF Acknowledge, Threads
  <2>3. ~raced /\ \A u \in Threads \ {Cpu} : pc[u] = Idle
    BY <2>2, Solo, Locals DEF Update, GICInv
  <2>4. Quiet
    BY <2>2, <2>3, SMTT(30) DEF Quiet, Idle
  <2>5. i = Best
    BY <2>1, <2>2, <2>3, <2>4 DEF GICInv, PhaseOK, Settled, Candidate
  <2> QED
    BY <2>2, <2>5, BestIsMostUrgent DEF GICInv
<1>2. GICInv /\ GICInv' /\ [Next]_vars => [Urgent]_vars
  BY <1>1
<1> QED
  BY GICInvariant, <1>2, PTL DEF Spec, MostUrgentFirst
=============================================================================
