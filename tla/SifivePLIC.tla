----------------------------- MODULE SifivePLIC -----------------------------
(***************************************************************************)
(* The RISC-V platform interrupt controller (SifivePLIC) of one hart.      *)
(* Devices assert and rescind its lines; the hart's contexts enable, claim *)
(* and complete interrupts through its registers; and UpdateIRQ brings the *)
(* external interrupt bits of the hart's MIP up to date after each of      *)
(* these.                                                                  *)
(*                                                                         *)
(* Register accesses hold lock_.  AssertLine and RescindLine do not: they  *)
(* run on whichever thread drives the line (the hart, whose access to a    *)
(* device changes its line, or the serial port's input thread).  Their     *)
(* update of a word of interrupt_pending_ is therefore a load and a store, *)
(* and UpdateIRQ, which may run on two threads at once, reads the lines,   *)
(* reads MIP and changes MIP in separate steps.                            *)
(***************************************************************************)
EXTENDS Integers, FiniteSets, FiniteSetsExt

CONSTANTS
    Irqs,       \* the lines in use; in a claim, 0 stands for "none"
    Contexts,   \* the hart's contexts (privilege modes), from HartConfig
    Hart,       \* the hart's thread
    Drivers,    \* the threads that assert and rescind lines
    WordBits    \* interrupts per word of the bit vectors (32 in the code)

ASSUME IrqsAssumption == IsFiniteSet(Irqs) /\ Irqs \subseteq Nat \ {0}
ASSUME WordBitsAssumption == WordBits \in Nat \ {0}

VARIABLES
    asserted,   \* the lines whose asserted_ flag is set
    pending,    \* interrupt_pending_
    claimed,    \* interrupt_claimed_
    enable,     \* enable of each context
    eip,        \* the contexts whose external interrupt bit is set in MIP
    serving,    \* history: what each context has claimed and not completed
    pc,         \* what each thread is doing
    raced       \* history: two threads have been in this code at once

vars == <<asserted, pending, claimed, enable, eip, serving, pc, raced>>
registers == <<claimed, enable, serving>>

Threads == {Hart} \cup Drivers

Word(i) == i \div WordBits
InWord(set, w) == {i \in set : Word(i) = w}

Idle == [at |-> "idle", line |-> 0, word |-> {}, want |-> {}, mip |-> {}]
Goto(t, c) ==
    /\ pc' = [pc EXCEPT ![t] = c]
    /\ raced' = (raced \/ (c # Idle /\ \E u \in Threads \ {t} : pc[u] # Idle))

\* pending & ~claimed & context.enable, over all words.
HartPending(c) == (pending \ claimed) \cap enable[c]

Init ==
    /\ asserted = {} /\ pending = {} /\ claimed = {} /\ eip = {}
    /\ enable = [c \in Contexts |-> {}]
    /\ serving = [c \in Contexts |-> {}]
    /\ pc = [t \in Threads |-> Idle]
    /\ raced = FALSE

-----------------------------------------------------------------------------
(* Lines: IRQControllerLine::Assert and Rescind, and the AssertLine and    *)
(* RescindLine they call.  Assert sets the flag before, Rescind clears it  *)
(* after the call.                                                         *)

Assert(t, i) ==
    /\ pc[t].at = "idle" /\ i \notin asserted
    /\ asserted' = asserted \cup {i}
    /\ Goto(t, [Idle EXCEPT !.at = "assert", !.line = i,
                            !.word = InWord(pending, Word(i))])
    /\ UNCHANGED <<pending, eip, registers>>

Rescind(t, i) ==
    /\ pc[t].at = "idle" /\ i \in asserted
    /\ Goto(t, [Idle EXCEPT !.at = "rescind", !.line = i,
                            !.word = InWord(pending, Word(i))])
    /\ UNCHANGED <<asserted, pending, eip, registers>>

\* The store of the changed word.
StoreWord(t, word) ==
    pending' = (pending \ InWord(Irqs, Word(pc[t].line))) \cup word

AssertLine(t) ==
    /\ pc[t].at = "assert"
    /\ StoreWord(t, pc[t].word \cup {pc[t].line})
    /\ Goto(t, [Idle EXCEPT !.at = "compute"])
    /\ UNCHANGED <<asserted, eip, registers>>

RescindLine(t) ==
    /\ pc[t].at = "rescind"
    /\ StoreWord(t, pc[t].word \ {pc[t].line})
    /\ Goto(t, [Idle EXCEPT !.at = "compute", !.line = pc[t].line])
    /\ UNCHANGED <<asserted, eip, registers>>

-----------------------------------------------------------------------------
(* Register accesses of the hart.  The lock is held from here to the end   *)
(* of UpdateIRQ; as only the hart takes it, that is when the hart is not   *)
(* idle, and it has no variable of its own.                                *)

Access ==
    /\ pc[Hart].at = "idle"
    /\ Goto(Hart, [Idle EXCEPT !.at = "compute"])
    /\ UNCHANGED <<asserted, pending, eip>>

\* Reads of a priority, an enable word or a threshold, and writes of a priority
\* or a threshold, which nothing consults, a claim included.
AccessOther == Access /\ UNCHANGED registers

WriteEnable(c, w, v) ==
    /\ Access
    /\ enable' = [enable EXCEPT ![c] = (@ \ InWord(Irqs, w)) \cup v]
    /\ UNCHANGED <<claimed, serving>>

\* The loop over words keeps the answer of the last word with a candidate, and
\* bit_set_forward takes the lowest bit of that word.
Chosen(candidates) ==
    Min(InWord(candidates, Max({Word(i) : i \in candidates})))

ClaimFrom(c, candidates) ==
    /\ Access
    /\ LET taken == IF candidates = {} THEN {} ELSE {Chosen(candidates)}
       IN  /\ claimed' = claimed \cup taken
           /\ serving' = [serving EXCEPT ![c] = @ \cup taken]
    /\ UNCHANGED enable

\* Variant: a claim does not mask what is claimed already.
ClaimUnmasked(c) == ClaimFrom(c, pending \cap enable[c])

ClaimInterrupt(c) == ClaimFrom(c, HartPending(c))

\* A guest completes an interrupt from the context that claimed it.
CompleteInterrupt(c, i) ==
    /\ i \in serving[c]
    /\ Access
    /\ claimed' = claimed \ {i}
    /\ serving' = [serving EXCEPT ![c] = @ \ {i}]
    /\ UNCHANGED enable

-----------------------------------------------------------------------------
(* UpdateIRQ, at the end of every operation.                               *)

\* Variant: UpdateIRQ does not mask what is claimed.
ComputeUnmasked(t) ==
    /\ pc[t].at = "compute"
    /\ Goto(t, [pc[t] EXCEPT !.at = "read",
                  !.want = {c \in Contexts : pending \cap enable[c] # {}}])
    /\ UNCHANGED <<asserted, pending, eip, registers>>

\* Which EIP bits should be set.
Compute(t) ==
    /\ pc[t].at = "compute"
    /\ Goto(t, [pc[t] EXCEPT !.at = "read",
                  !.want = {c \in Contexts : HartPending(c) # {}}])
    /\ UNCHANGED <<asserted, pending, eip, registers>>

ReadMIP(t) ==
    /\ pc[t].at = "read"
    /\ Goto(t, [pc[t] EXCEPT !.at = "unpend", !.mip = eip])
    /\ UNCHANGED <<asserted, pending, eip, registers>>

\* MachineUnpendInterrupt of the bits that are set and should not be...
Unpend(t) ==
    /\ pc[t].at = "unpend"
    /\ eip' = eip \ (pc[t].mip \ pc[t].want)
    /\ Goto(t, [pc[t] EXCEPT !.at = "pend"])
    /\ UNCHANGED <<asserted, pending, registers>>

\* ... MachinePendInterrupt of those that should be and are not, and the return
\* to the caller: Rescind clears the line's flag.
Pend(t) ==
    /\ pc[t].at = "pend"
    /\ eip' = eip \cup (pc[t].want \ pc[t].mip)
    /\ asserted' = asserted \ {pc[t].line}
    /\ Goto(t, Idle)
    /\ UNCHANGED <<pending, registers>>

Next ==
    \/ \E t \in Threads :
         \/ AssertLine(t) \/ RescindLine(t)
         \/ Compute(t) \/ ReadMIP(t) \/ Unpend(t) \/ Pend(t)
    \/ \E t \in Drivers, i \in Irqs : Assert(t, i) \/ Rescind(t, i)
    \/ AccessOther
    \/ \E c \in Contexts :
         \/ \E w \in {Word(i) : i \in Irqs} : \E v \in SUBSET InWord(Irqs, w) :
              WriteEnable(c, w, v)
         \/ ClaimInterrupt(c)
         \/ \E i \in Irqs : CompleteInterrupt(c, i)

Spec == Init /\ [][Next]_vars

-----------------------------------------------------------------------------
Quiet == \A t \in Threads : pc[t].at = "idle"

\* Between operations the external interrupt bits are those the lines call for:
\* a context's bit is set in MIP exactly when a line the context enables is
\* asserted and not being served (what UpdateIRQ's comments say it computes), as
\* long as no thread has driven a line while another was in this code.
EipIsExact ==
    Quiet /\ ~raced =>
        eip = {c \in Contexts : (asserted \ claimed) \cap enable[c] # {}}

\* An interrupt has one handler at a time, on any interleaving of the lines
\* with the claims: what ClaimInterrupt hands to one context it does not hand
\* to another, or twice, until CompleteInterrupt, though the line may fall and
\* rise in between.
ServedOnce ==
    /\ \A c, d \in Contexts : c # d => serving[c] \cap serving[d] = {}
    /\ claimed = UNION {serving[c] : c \in Contexts}
=============================================================================
