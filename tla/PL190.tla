------------------------------- MODULE PL190 -------------------------------
(***************************************************************************)
(* The PL190 vectored interrupt controller of the ARM boards.  Devices     *)
(* change irq_level from their own threads; the guest CPU's thread reads   *)
(* and writes the registers.  Both end in update_lines(), which decides    *)
(* and then drives the two outgoing lines, with no lock between the        *)
(* decision and the line.                                                  *)
(*                                                                         *)
(* Register words are sets of line numbers; a vector control byte is       *)
(* whether it is enabled and which line it selects.  Priorities are vector *)
(* numbers: NVectors (16) is a line with no vector, NVectors + 1 (17) is   *)
(* no interrupt being serviced.  vector_addrs can never be written: the    *)
(* code computes an index above 16 for every one of its addresses.         *)
(***************************************************************************)
EXTENDS Integers

CONSTANTS
    IrqLines,     \* the incoming lines (32)
    NVectors,     \* the number of vectors (16)
    DeviceLines,  \* the lines that devices drive (bound: all 32)
    SoftLines,    \* the lines the guest raises in software (bound: all 32)
    FiqLines,     \* the lines it routes to FIQ (bound: all 32)
    Cpu,          \* the guest CPU's thread
    DeviceThreads \* the threads of the devices

Idle == NVectors + 1
Unset == NVectors + 2     \* an entry of prev_priority never written
Vectors == 0 .. NVectors - 1
\* A disabled vector's line selects nothing: one control word stands for them.
Off == [on |-> FALSE, line |-> CHOOSE l \in IrqLines : TRUE]
Controls == {Off} \cup [on : {TRUE}, line : IrqLines]
VicThreads == {Cpu} \cup DeviceThreads

VARIABLES
    irq_level, soft_level, enable, fiq_select,
    vector_ctrls,   \* [Vectors -> [on, line]]
    prio_mask,      \* [0 .. Idle -> SUBSET IrqLines]
    priority, prev_priority,
    irqOut, fiqOut, \* the outgoing lines
    vicAt,          \* where each thread is in update_lines()
    vicOverlap      \* history: an operation has run beside another, and none
                    \* has run alone since

vicVars == <<irq_level, soft_level, enable, fiq_select, vector_ctrls, prio_mask,
             priority, prev_priority, irqOut, fiqOut, vicAt, vicOverlap>>
registers == <<irq_level, soft_level, enable, fiq_select, vector_ctrls, prio_mask,
               priority, prev_priority>>

get_active_irqs == ((irq_level \cup soft_level) \cap enable) \ fiq_select
get_active_fiqs == (irq_level \cup soft_level) \cap enable \cap fiq_select

\* Variant: the mask of a priority includes its own vector.
MasksInclusive(ctrls) ==
    [p \in 0 .. Idle |->
        IF p = Idle THEN IrqLines
        ELSE {ctrls[v].line : v \in {w \in Vectors : w <= p /\ ctrls[w].on}}]

\* update_vectors(): a priority admits the lines of the vectors before it.
Masks(ctrls) ==
    [p \in 0 .. Idle |->
        IF p = Idle THEN IrqLines
        ELSE {ctrls[v].line : v \in {w \in Vectors : w < p /\ ctrls[w].on}}]

VicInit ==
    /\ irq_level = {} /\ soft_level = {} /\ enable = {} /\ fiq_select = {}
    /\ vector_ctrls = [v \in Vectors |-> Off]
    /\ prio_mask = Masks(vector_ctrls)
    /\ priority = Idle
    /\ prev_priority = [p \in 0 .. NVectors |-> Unset]
    /\ irqOut = FALSE /\ fiqOut = FALSE
    /\ vicAt = [t \in VicThreads |-> "free"]
    /\ vicOverlap = FALSE

\* An operation changes the registers and enters update_lines().
Enter(t) ==
    /\ vicAt[t] = "free"
    /\ vicAt' = [vicAt EXCEPT ![t] = "irq"]
    /\ vicOverlap' = (\E u \in VicThreads \ {t} : vicAt[u] # "free")
    /\ UNCHANGED <<irqOut, fiqOut>>

\* PL190Controller::AssertLine and RescindLine, from a device: irq_level is atomic.
AssertLine(t, l) ==
    /\ Enter(t)
    /\ irq_level' = irq_level \cup {l}
    /\ UNCHANGED <<soft_level, enable, fiq_select, vector_ctrls, prio_mask, priority, prev_priority>>

RescindLine(t, l) ==
    /\ Enter(t)
    /\ irq_level' = irq_level \ {l}
    /\ UNCHANGED <<soft_level, enable, fiq_select, vector_ctrls, prio_mask, priority, prev_priority>>

-----------------------------------------------------------------------------
(* Write: the registers whose value changes, then update_lines().          *)

WriteStatus ==
    /\ Enter(Cpu)
    /\ UNCHANGED registers

WriteSelect(data) ==
    /\ Enter(Cpu)
    /\ fiq_select' = data
    /\ UNCHANGED <<irq_level, soft_level, enable, vector_ctrls, prio_mask, priority, prev_priority>>

WriteEnable(data) ==
    /\ Enter(Cpu)
    /\ enable' \in {enable \cup data, enable \ data}
    /\ UNCHANGED <<irq_level, soft_level, fiq_select, vector_ctrls, prio_mask, priority, prev_priority>>

WriteSoft(data) ==
    /\ Enter(Cpu)
    /\ soft_level' \in {soft_level \cup data, soft_level \ data}
    /\ UNCHANGED <<irq_level, enable, fiq_select, vector_ctrls, prio_mask, priority, prev_priority>>

\* A vector control; index NVectors passes the code's bound, and lands in
\* vector_addrs[0], which nothing here depends on.
WriteVectorCtrl(v, ctrl) ==
    /\ Enter(Cpu)
    /\ vector_ctrls' = IF v \in Vectors THEN [vector_ctrls EXCEPT ![v] = ctrl] ELSE vector_ctrls
    /\ prio_mask' = Masks(vector_ctrls')
    /\ UNCHANGED <<irq_level, soft_level, enable, fiq_select, priority, prev_priority>>

-----------------------------------------------------------------------------
(* The vector address register: reading it enters the most urgent pending  *)
(* priority, writing it returns to the one before.                         *)

\* The first priority above the current one whose mask meets a raw line; the
\* current priority when there is none.
Entered ==
    LET above == {p \in 0 .. priority - 1 : (irq_level \cup soft_level) \cap prio_mask[p + 1] # {}}
    IN  IF above = {} THEN priority ELSE CHOOSE p \in above : \A q \in above : p <= q

\* Variant: the priority that is interrupted is not remembered.
VarReadUnsaved ==
    /\ Entered < priority
    /\ Enter(Cpu)
    /\ priority' = Entered
    /\ UNCHANGED <<irq_level, soft_level, enable, fiq_select, vector_ctrls, prio_mask, prev_priority>>

\* handle_var_read(): with nothing to enter it returns at once, with the
\* default vector address or the current one, and leaves the lines alone.
VarRead ==
    /\ Entered < priority
    /\ Enter(Cpu)
    /\ priority' = Entered
    /\ prev_priority' = [prev_priority EXCEPT ![Entered] = priority]
    /\ UNCHANGED <<irq_level, soft_level, enable, fiq_select, vector_ctrls, prio_mask>>

\* handle_var_write()
VarWrite ==
    /\ Enter(Cpu)
    /\ priority' = IF priority < Idle THEN prev_priority[priority] ELSE priority
    /\ UNCHANGED <<irq_level, soft_level, enable, fiq_select, vector_ctrls, prio_mask, prev_priority>>

-----------------------------------------------------------------------------
(* update_lines(): decide on the IRQ line, drive it, then the FIQ line.    *)

DecideIrq(t) ==
    /\ vicAt[t] = "irq"
    /\ vicAt' = [vicAt EXCEPT ![t] =
                   IF get_active_irqs \cap prio_mask[priority] # {} THEN "irqAssert" ELSE "irqRescind"]
    /\ UNCHANGED <<registers, irqOut, fiqOut, vicOverlap>>

DriveIrq(t) ==
    /\ vicAt[t] \in {"irqAssert", "irqRescind"}
    /\ irqOut' = (vicAt[t] = "irqAssert")
    /\ vicAt' = [vicAt EXCEPT ![t] = "fiq"]
    /\ UNCHANGED <<registers, fiqOut, vicOverlap>>

DecideFiq(t) ==
    /\ vicAt[t] = "fiq"
    /\ vicAt' = [vicAt EXCEPT ![t] =
                   IF get_active_fiqs \cap prio_mask[priority] # {} THEN "fiqAssert" ELSE "fiqRescind"]
    /\ UNCHANGED <<registers, irqOut, fiqOut, vicOverlap>>

DriveFiq(t) ==
    /\ vicAt[t] \in {"fiqAssert", "fiqRescind"}
    /\ fiqOut' = (vicAt[t] = "fiqAssert")
    /\ vicAt' = [vicAt EXCEPT ![t] = "free"]
    /\ UNCHANGED <<registers, irqOut, vicOverlap>>

UpdateLines(t) == DecideIrq(t) \/ DriveIrq(t) \/ DecideFiq(t) \/ DriveFiq(t)

Registers ==
    \/ WriteStatus
    \/ \E data \in SUBSET IrqLines : WriteEnable(data)
    \/ \E data \in SUBSET FiqLines : WriteSelect(data)
    \/ \E data \in SUBSET SoftLines : WriteSoft(data)
    \/ \E v \in 0 .. NVectors, ctrl \in Controls : WriteVectorCtrl(v, ctrl)
    \/ VarRead \/ VarWrite

VicNext ==
    \/ Registers
    \/ \E t \in DeviceThreads, l \in DeviceLines : AssertLine(t, l) \/ RescindLine(t, l)
    \/ \E t \in VicThreads : UpdateLines(t)

VicSpec == VicInit /\ [][VicNext]_vicVars

-----------------------------------------------------------------------------
\* The lines that may interrupt priority p, told from the vectors themselves.
Admitted(p) ==
    {l \in IrqLines : p = Idle \/ \E v \in Vectors : v < p /\ vector_ctrls[v] = [on |-> TRUE, line |-> l]}

\* update_lines() leaves the outgoing lines as the registers say: high exactly
\* when an enabled pending line is more urgent than the interrupt in service.
\* Operations of a device and of the CPU that overlap may leave a line wrong,
\* and the next operation that runs alone puts it right.
LinesFollowRegisters ==
    (\A t \in VicThreads : vicAt[t] = "free") /\ ~vicOverlap =>
        /\ irqOut = (get_active_irqs \cap Admitted(priority) # {})
        /\ fiqOut = (get_active_fiqs \cap Admitted(priority) # {})

\* Nested interrupts unwind in order: from the priority in service, following
\* prev_priority meets ever less urgent priorities, each written by a read of
\* the vector address register, until no interrupt is in service; an end of
\* interrupt never takes its priority from an entry nobody wrote.
PrioritiesNest ==
    LET unwinds[p \in 0 .. Idle] ==
            p = Idle \/ (prev_priority[p] \in p + 1 .. Idle /\ unwinds[prev_priority[p]])
    IN  unwinds[priority]
=============================================================================
