-------------------------- MODULE RiscVCoprocessor --------------------------
(***************************************************************************)
(* The interrupt registers of a RISC-V hart (RiscVSystemCoprocessor): MIP, *)
(* MIE, and true_pending_interrupts_, the cached MIP & MIE from which      *)
(* CheckForInterrupts decides which CPU interrupt lines to assert and      *)
(* rescind.  The hart writes them through CSR writes; the CLINT and the    *)
(* PLIC pend and unpend bits from the hart's thread and from others.       *)
(*                                                                         *)
(* Most entries hold the recursive mutex lock_ from the register update to *)
(* the end of CheckForInterrupts.  The CSR writes of SIE and MIE, and the  *)
(* second check of an MSTATUS write, run without it, so every read and     *)
(* write of shared state in CheckForInterrupts is a step of its own.       *)
(***************************************************************************)
EXTENDS Integers, FiniteSets, FiniteSetsExt

CONSTANTS
    Hart,      \* the hart's thread
    Devices,   \* other host threads: the tick source, other harts
    None       \* no thread

ASSUME DevicesAssumption == Hart \notin Devices /\ None \notin Devices \cup {Hart}

VARIABLES
    ip,        \* IP: the set bits of MIP
    ie,        \* IE: the set bits of MIE
    pending,   \* true_pending_interrupts_
    asserted,  \* the hart's CPU interrupt lines that are asserted
    lock,      \* owner of lock_
    pc,        \* what each thread is doing
    raced      \* history: an unlocked check has overlapped another check

vars == <<ip, ie, pending, asserted, lock, pc, raced>>

(***************************************************************************)
(* One bit of each kind: SSIP, which the guest writes itself through SIP   *)
(* and MIP, and MSIP and MTIP, which only the CLINT writes.                *)
(***************************************************************************)
SSIP == 1
MSIP == 3
MTIP == 7
Bits == {SSIP, MSIP, MTIP}
Supervisor == {SSIP}     \* the bits that SIE, SIP and a write of MIP reach

Threads == {Hart} \cup Devices

\* A thread in CheckForInterrupts: the value of MIP & MIE it read, the bits its
\* loop has still to visit, and whether its caller holds lock_ ("locked"), also
\* checks once more without it ("twice"), or never took it ("unlocked").
At(place, check) == [at |-> place, current |-> {}, todo |-> {}, check |-> check]
Idle == At("idle", "locked")

Overlap(p) == \E t, u \in Threads :
                 /\ t # u /\ p[t].at # "idle" /\ p[u].at # "idle"
                 /\ p[t].check = "unlocked"
Goto(t, c) ==
    /\ pc' = [pc EXCEPT ![t] = c]
    /\ raced' = (raced \/ Overlap(pc'))

Init ==
    /\ ip = {}
    /\ ie \in SUBSET Bits       \* the boot code has chosen what to enable
    /\ pending = {}
    /\ asserted = {}
    /\ lock = None
    /\ pc = [t \in Threads |-> Idle]
    /\ raced = FALSE

-----------------------------------------------------------------------------
(* Entries that hold lock_ around the register update and the check.       *)

\* Variant: the bits are updated without the lock.
EnterUnlocked(t, new, check) ==
    /\ pc[t].at = "idle"
    /\ lock' = lock
    /\ ip' = new
    /\ Goto(t, At("read", check))
    /\ UNCHANGED <<ie, pending, asserted>>

\* Take lock_, write MIP and go on to the check.
Enter(t, new, check) ==
    /\ pc[t].at = "idle" /\ lock = None
    /\ lock' = t
    /\ ip' = new
    /\ Goto(t, At("read", check))
    /\ UNCHANGED <<ie, pending, asserted>>

MachinePendInterrupt(t, mask) == Enter(t, ip \cup mask, "locked")
MachineUnpendInterrupt(t, mask) == Enter(t, ip \ mask, "locked")

\* SifiveCLINT::SetMSIP, from a hart's write of its MSIP register.
SetMSIP(t, p) ==
    IF p THEN MachinePendInterrupt(t, {MSIP}) ELSE MachineUnpendInterrupt(t, {MSIP})

\* CLINTTimer::CheckTick, from the tick source's thread or from a write of
\* MTIMECMP: an expired timer is pended only while MTIE is set.
CheckTick(t, expired) ==
    IF expired THEN MTIP \in ie /\ MachinePendInterrupt(t, {MTIP})
    ELSE MachineUnpendInterrupt(t, {MTIP})

\* Write64 of SIP and MIP, which reach the supervisor bits, and of SSTATUS.
WriteIP(v) == Enter(Hart, (ip \ Supervisor) \cup v, "locked")
WriteSSTATUS == Enter(Hart, ip, "locked")

\* Write64 of MSTATUS checks under the lock and then once more without it.
WriteMSTATUS == Enter(Hart, ip, "twice")

-----------------------------------------------------------------------------
(* Write64 of MIE, and of SIE, whose writes change supervisor bits only:   *)
(* no lock.                                                                *)

WriteIE(new) ==
    /\ pc[Hart].at = "idle"
    /\ ie' = new
    /\ Goto(Hart, At("read", "unlocked"))
    /\ UNCHANGED <<ip, pending, asserted, lock>>

-----------------------------------------------------------------------------
(* CheckForInterrupts.                                                     *)

\* The end of a check: an unlocked check may follow, or the entry returns.
\* PendIRQ, which ends it, reads the lines and changes nothing here.
Leave(t) ==
    /\ lock' = IF lock = t THEN None ELSE lock
    /\ Goto(t, IF pc[t].check = "twice" THEN At("read", "unlocked") ELSE Idle)

ReadCurrent(t) ==
    /\ pc[t].at = "read"
    /\ Goto(t, [pc[t] EXCEPT !.at = "compare", !.current = ip \cap ie])
    /\ UNCHANGED <<ip, ie, pending, asserted, lock>>

Compare(t) ==
    /\ pc[t].at = "compare"
    /\ IF pc[t].current = pending
       THEN Leave(t)
       ELSE /\ Goto(t, [pc[t] EXCEPT !.at = "loop", !.todo = Bits])
            /\ lock' = lock
    /\ UNCHANGED <<ip, ie, pending, asserted>>

\* One bit of the loop: assert or rescind its line if the bit changed.
Loop(t) ==
    /\ pc[t].at = "loop" /\ pc[t].todo # {}
    /\ LET i == Min(pc[t].todo)
           now == i \in pc[t].current
           before == i \in pending
       IN  /\ asserted' = IF now /\ ~before THEN asserted \cup {i}
                          ELSE IF ~now /\ before THEN asserted \ {i}
                          ELSE asserted
           /\ Goto(t, [pc[t] EXCEPT !.todo = @ \ {i}])
    /\ UNCHANGED <<ip, ie, pending, lock>>

\* Variant: the cached value keeps bits that are no longer pending.
UpdateGrows(t) ==
    /\ pc[t].at = "loop" /\ pc[t].todo = {}
    /\ pending' = pending \cup pc[t].current
    /\ Leave(t)
    /\ UNCHANGED <<ip, ie, asserted>>

UpdateTruePending(t) ==
    /\ pc[t].at = "loop" /\ pc[t].todo = {}
    /\ pending' = pc[t].current
    /\ Leave(t)
    /\ UNCHANGED <<ip, ie, asserted>>

Check(t) == ReadCurrent(t) \/ Compare(t) \/ Loop(t) \/ UpdateTruePending(t)

Next ==
    \/ \E t \in Threads :
         \/ Check(t)
         \/ \E b \in BOOLEAN : SetMSIP(t, b) \/ CheckTick(t, b)
    \/ \E v \in SUBSET Supervisor : WriteIP(v)
    \/ \E v \in SUBSET Bits : WriteIE(v)
    \/ WriteSSTATUS
    \/ WriteMSTATUS

\* A thread inside CheckForInterrupts finishes it.
Fairness == \A t \in Threads : WF_vars(Check(t))

Spec == Init /\ [][Next]_vars /\ Fairness

-----------------------------------------------------------------------------
Quiet == \A t \in Threads : pc[t].at = "idle"

\* Whenever no thread is in CheckForInterrupts, and as long as no unlocked check
\* has overlapped another: the cached value is MIP & MIE, as its comment says,
\* and the asserted lines are its bits, so that no line is left high for an
\* interrupt that was withdrawn or disabled, and none low for a pending one.
PendingIsCurrent ==
    Quiet /\ ~raced => pending = ip \cap ie /\ asserted = pending

\* An interrupt that becomes pending and enabled gets its line asserted, unless
\* it is withdrawn or disabled first, or an unlocked check overlaps another.
PendingGetsAsserted ==
    \A i \in Bits :
        (i \in ip \cap ie) ~> (i \in asserted \/ i \notin ip \cap ie \/ raced)
=============================================================================
