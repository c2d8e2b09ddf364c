--------------------------- MODULE CPUInterrupts ---------------------------
(***************************************************************************)
(* Interrupt lines into a guest CPU (CPUIRQLine), the messages that make   *)
(* the CPU's thread look at them (ThreadInstance::SendMessage and          *)
(* HandleMessage), and the execution engine's loop that polls for them.    *)
(*                                                                         *)
(* A CPUIRQLine has two plain fields, asserted_ and state_, and no lock:   *)
(* an interrupt controller writes them from whichever thread it runs on,   *)
(* and the CPU's thread reads and writes them while it handles a message.  *)
(* Each read and each write of a field is therefore a step of its own.     *)
(* The message queue has a mutex, and a push or a pop is one step.         *)
(*                                                                         *)
(* The guest is an ARM: its I flag masks IRQs, entering the handler sets   *)
(* it, and every instruction that writes it ends with pend_interrupt().    *)
(***************************************************************************)
EXTENDS Integers, FiniteSets

CONSTANTS
    NLines,       \* irq_lines_.size(): lines are 1..NLines in vector order
    Hart,         \* the thread that executes the guest CPU
    Others,       \* host threads that run devices (ticks, serial input)
    MaxMessages,  \* bound on the messages waiting at once
    Width         \* pending_irqs_ counts modulo Width (2^32 in the code)

ASSUME LinesAssumption == NLines \in Nat \ {0}
ASSUME ThreadsAssumption == IsFiniteSet(Others) /\ Hart \notin Others
ASSUME MessagesAssumption == MaxMessages \in Nat /\ MaxMessages > Cardinality(Others) + 1
ASSUME WidthAssumption == Width \in Nat /\ Width > NLines

VARIABLES
    asserted,   \* asserted_ of each line
    state,      \* state_ of each line: Idle, Raised, Acknowledged or Rescinded
    messages,   \* Interrupt messages in message_queue_ (the flag is messages > 0)
    pending,    \* pending_irqs_
    masked,     \* the guest's I flag
    pc,         \* what each thread is doing in this code
    raced       \* history: two threads have been in this code at once

vars == <<asserted, state, messages, pending, masked, pc, raced>>

Lines == 1 .. NLines
Threads == {Hart} \cup Others

(***************************************************************************)
(* The four switches over state_: the values they act on, and the value    *)
(* stored.  Any other value leaves the line alone.                         *)
(***************************************************************************)
AssertOf == [s \in {"Idle", "Acknowledged"} |-> "Raised"]
RescindOf == [s \in {"Raised", "Acknowledged"} |->
                IF s = "Raised" THEN "Rescinded" ELSE "Idle"]
AcknowledgeOf == [s \in {"Raised", "Rescinded"} |->
                    IF s = "Raised" THEN "Acknowledged" ELSE "Idle"]
\* Variant: pending again leaves acknowledged lines alone.
RaiseNothing == [s \in {} |-> "Raised"]
RaiseOf == [s \in {"Acknowledged"} |-> "Raised"]

SwitchOf(op) ==
    CASE op = "Assert" -> AssertOf
      [] op = "Rescind" -> RescindOf
      [] op = "Acknowledge" -> AcknowledgeOf
      [] op = "Raise" -> RaiseOf

(***************************************************************************)
(* A thread's position: where it is, in which operation, at which line,    *)
(* and the value of state_ it is about to store.                           *)
(***************************************************************************)
At(place, op, l) == [at |-> place, op |-> op, line |-> l, new |-> "Idle"]

\* Where a thread goes when its operation returns.
Return(t) == At(IF t = Hart THEN "guest" ELSE "idle", "None", 1)

InCode(c) == c.at \notin {"idle", "check", "guest"}
Goto(t, c) ==
    /\ pc' = [pc EXCEPT ![t] = c]
    /\ raced' = (raced \/ (InCode(c) /\ \E u \in Threads \ {t} : InCode(pc[u])))

\* The loops over irq_lines_: the next line, or the end of the operation.
NextLine(t, place, op, l) ==
    Goto(t, IF l < NLines THEN At(place, op, l + 1) ELSE Return(t))

Init ==
    /\ asserted = [l \in Lines |-> FALSE]
    /\ state = [l \in Lines |-> "Idle"]
    /\ messages = 0
    /\ pending = 0
    /\ masked = TRUE
    /\ pc = [t \in Threads |->
               IF t = Hart THEN At("guest", "None", 1) ELSE At("idle", "None", 1)]
    /\ raced = FALSE

\* A thread starts only when the messages that every thread may still send fit
\* under the bound, so that no operation is ever blocked half way.
Room == messages + Cardinality({t \in Threads : InCode(pc[t])}) < MaxMessages
Free(t) == pc[t].at = IF t = Hart THEN "guest" ELSE "idle"

-----------------------------------------------------------------------------
(* CPUIRQLine::Assert and Rescind, called through an interrupt controller. *)

Assert(t, l) ==
    /\ Free(t) /\ Room
    /\ asserted' = [asserted EXCEPT ![l] = TRUE]
    /\ Goto(t, At("switch", "Assert", l))
    /\ UNCHANGED <<state, messages, pending, masked>>

Rescind(t, l) ==
    /\ Free(t) /\ Room
    /\ asserted' = [asserted EXCEPT ![l] = FALSE]
    /\ Goto(t, At("switch", "Rescind", l))
    /\ UNCHANGED <<state, messages, pending, masked>>

\* What follows a line's switch: Assert and Rescind return, the loops that
\* acknowledge or raise go on to the next line.
AfterLine(t) ==
    LET op == pc[t].op
    IN  CASE op = "Acknowledge" -> NextLine(t, "test", op, pc[t].line)
          [] op = "Raise" -> NextLine(t, "switch", op, pc[t].line)
          [] OTHER -> Goto(t, Return(t))

\* switch(state_) reads the state...
Switch(t) ==
    /\ pc[t].at = "switch"
    /\ LET old == state[pc[t].line]
           to == SwitchOf(pc[t].op)
       IN  IF old \in DOMAIN to
           THEN Goto(t, [pc[t] EXCEPT !.at = "store", !.new = to[old]])
           ELSE AfterLine(t)
    /\ UNCHANGED <<asserted, state, messages, pending, masked>>

\* ... and the case taken writes it.  Rescind's Raised case also calls RescindIRQ().
Store(t) ==
    /\ pc[t].at = "store"
    /\ state' = [state EXCEPT ![pc[t].line] = pc[t].new]
    /\ pending' = IF pc[t].new = "Rescinded" THEN (pending - 1) % Width ELSE pending
    /\ IF pc[t].op = "Assert"
       THEN Goto(t, [pc[t] EXCEPT !.at = "take", !.new = "Idle"])
       ELSE AfterLine(t)
    /\ UNCHANGED <<asserted, messages, masked>>

\* Variant: the message goes out only when no line was pending before.
TakeFirstIRQ(t) ==
    /\ pc[t].at = "take"
    /\ pending' = (pending + 1) % Width
    /\ messages' = IF pending = 0 THEN messages + 1 ELSE messages
    /\ Goto(t, Return(t))
    /\ UNCHANGED <<asserted, state, masked>>

TakeIRQ(t) ==
    /\ pc[t].at = "take"
    /\ pending' = (pending + 1) % Width
    /\ messages' = messages + 1
    /\ Goto(t, Return(t))
    /\ UNCHANGED <<asserted, state, masked>>

-----------------------------------------------------------------------------
(* The engine loop, HandleMessage and HandleIRQ.                           *)

Poll ==
    /\ pc[Hart].at = "check" /\ messages = 0
    /\ Goto(Hart, At("guest", "None", 1))
    /\ UNCHANGED <<asserted, state, messages, pending, masked>>

HandleMessage ==
    /\ pc[Hart].at = "check" /\ messages > 0
    /\ messages' = messages - 1
    /\ Goto(Hart, At("test", "Acknowledge", 1))
    /\ UNCHANGED <<asserted, state, pending, masked>>

\* if(irq->IsAsserted() ...
TestAsserted ==
    /\ pc[Hart].at = "test"
    /\ IF asserted[pc[Hart].line]
       THEN Goto(Hart, [pc[Hart] EXCEPT !.at = "interrupt"])
       ELSE NextLine(Hart, "test", "Acknowledge", pc[Hart].line)
    /\ UNCHANGED <<asserted, state, messages, pending, masked>>

\* ... && !irq->IsAcknowledged()) HandleInterrupt, whose guest behaviour
\* take_interrupt enters the handler, and masks, unless the I flag is set.
HandleInterrupt ==
    /\ pc[Hart].at = "interrupt"
    /\ IF state[pc[Hart].line] # "Acknowledged"
       THEN /\ masked' = TRUE
            /\ Goto(Hart, At("switch", "Acknowledge", pc[Hart].line))
       ELSE /\ masked' = masked
            /\ NextLine(Hart, "test", "Acknowledge", pc[Hart].line)
    /\ UNCHANGED <<asserted, state, messages, pending>>

-----------------------------------------------------------------------------
(* Guest code: a block may access devices, and write the mask and call     *)
(* PendIRQ; when it ends, the engine loop polls for messages.              *)

Block ==
    /\ pc[Hart].at = "guest"
    /\ Goto(Hart, At("check", "None", 1))
    /\ UNCHANGED <<asserted, state, messages, pending, masked>>

WriteMask(i) ==
    /\ pc[Hart].at = "guest" /\ Room
    /\ masked' = i
    /\ Goto(Hart, At("scan", "Pend", 1))
    /\ UNCHANGED <<asserted, state, messages, pending>>

\* PendIRQ's first loop, which stops at the first asserted line.
Scan(t) ==
    /\ pc[t].at = "scan"
    /\ IF asserted[pc[t].line]
       THEN Goto(t, At("send", "Pend", 1))
       ELSE NextLine(t, "scan", "Pend", pc[t].line)
    /\ UNCHANGED <<asserted, state, messages, pending, masked>>

\* Its SendMessage(Interrupt); the loop that calls Raise() follows.
Send(t) ==
    /\ pc[t].at = "send"
    /\ messages' = messages + 1
    /\ Goto(t, At("switch", "Raise", 1))
    /\ UNCHANGED <<asserted, state, pending, masked>>

-----------------------------------------------------------------------------
LineStep(t) == Switch(t) \/ Store(t) \/ TakeIRQ(t)
HartStep ==
    \/ Poll \/ HandleMessage \/ TestAsserted \/ HandleInterrupt
    \/ Scan(Hart) \/ Send(Hart) \/ LineStep(Hart)
Guest ==
    \/ Block
    \/ \E i \in BOOLEAN : WriteMask(i)
Device(t) == \E l \in Lines : Assert(t, l) \/ Rescind(t, l)

Next ==
    \/ HartStep
    \/ Guest
    \/ \E t \in Others : LineStep(t)
    \/ \E t \in Threads : Device(t)

\* The CPU's thread keeps executing, a guest block ends whatever it does on
\* the way, and a device thread inside Assert or Rescind finishes it.  Nothing
\* makes a device or the guest start an operation.
Fairness ==
    /\ WF_vars(HartStep)
    /\ SF_vars(Block)
    /\ \A t \in Others : WF_vars(LineStep(t))

Spec == Init /\ [][Next]_vars /\ Fairness

-----------------------------------------------------------------------------
\* When the engine loop is between operations, every line that is Raised has a
\* message waiting: Assert, Acknowledge and PendIRQ never leave a raised line
\* that no message will make HandleIRQ look at.  A device thread that is still
\* on its way to TakeIRQ will send it; and operations that have overlapped are
\* excepted, for nothing orders their accesses to state_.
RaisedIsAnnounced ==
    pc[Hart].at \in {"check", "guest"} /\ ~raced =>
        \A l \in Lines : state[l] = "Raised" =>
            messages > 0 \/ \E t \in Others : pc[t].at = "take"

\* PendIRQ delivers again whatever was acknowledged while the guest masked it:
\* once the guest unmasks with a line high, it is interrupted, unless the line
\* falls or the guest masks again first.
PendTakes ==
    \A l \in Lines :
        (pc[Hart].at = "scan" /\ pc[Hart].line = 1 /\ asserted[l] /\ ~masked)
            ~> (~asserted[l] \/ masked)
=============================================================================
