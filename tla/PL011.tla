------------------------------- MODULE PL011 -------------------------------
(***************************************************************************)
(* The PL011 UART and the AsyncSerial thread that feeds it.  The thread    *)
(* reads characters from the console and calls EnqueueChar(); the guest    *)
(* CPU's thread reads and writes the registers.  They share the fifo, the  *)
(* interrupt status word and the line, with no lock.                       *)
(*                                                                         *)
(* Characters are numbered as the console delivers them.  push_back writes *)
(* one end of the deque and pop_front the other, and each is one step; a   *)
(* read-modify-write of irq_status is two.                                 *)
(***************************************************************************)
EXTENDS Integers, Sequences

CONSTANTS
    MaxChars,    \* bound on the characters that arrive
    Masks        \* the values the guest writes to the mask and clear registers

VARIABLES
    arrived,     \* how many characters the console has delivered
    input,       \* characters the console holds
    fifo,        \* the UART's fifo
    received,    \* history: what the guest has read
    char,        \* the character in the serial thread's hand (0: none)
    irq_status,  \* a subset of {"TX", "RX"}
    irq_mask,
    status,      \* each thread's copy of irq_status in a read-modify-write
    uartAsserted, uartLevel,   \* the line to the interrupt controller
    uartAt,      \* where each thread is
    started,     \* the guest has transmitted, and so created the serial thread
    draining,    \* the guest is in its interrupt handler, reading the fifo
    quietAt,     \* when the guest began to do nothing else, the characters that
                 \* had arrived (Busy: it has not)
    uartOverlap  \* history: see UartEnter and CheckIRQs

uartVars == <<arrived, input, fifo, received, char, irq_status, irq_mask, status, uartAsserted,
              uartLevel, uartAt, started, draining, quietAt, uartOverlap>>
data == <<arrived, input, fifo, received, char>>
device == <<irq_status, irq_mask, uartAsserted, uartLevel>>

UartLine == INSTANCE ControllerLine WITH
              asserted <- uartAsserted, level <- uartLevel, at <- uartAt

Busy == MaxChars + 1
UartThreads == {"cpu", "serial"}
UartOther(t) == IF t = "cpu" THEN "serial" ELSE "cpu"

UartInit ==
    /\ arrived = 0
    /\ input = <<>> /\ fifo = <<>> /\ received = <<>>
    /\ char = 0
    /\ irq_status = {} /\ irq_mask = {}
    /\ status = [t \in UartThreads |-> {}]
    /\ uartAsserted = FALSE /\ uartLevel = FALSE
    /\ uartAt = [t \in UartThreads |-> "free"]
    /\ started = FALSE /\ draining = FALSE /\ quietAt = Busy
    /\ uartOverlap = FALSE

UartEnter(t, place) ==
    /\ uartAt[t] = "free"
    /\ uartAt' = [uartAt EXCEPT ![t] = place]
    /\ uartOverlap' = (uartOverlap \/ uartAt[UartOther(t)] # "free")

-----------------------------------------------------------------------------
(* The serial thread: AsyncSerial::run and console_callback.               *)

Arrive ==
    /\ started /\ arrived < MaxChars
    /\ arrived' = arrived + 1
    /\ input' = Append(input, arrived + 1)
    /\ UNCHANGED <<fifo, received, char, device, status, uartAt, started, draining, quietAt, uartOverlap>>

\* IsDataAvailable and ReadChar
ReadChar ==
    /\ started /\ input # <<>>
    /\ UartEnter("serial", "push")
    /\ char' = Head(input) /\ input' = Tail(input)
    /\ UNCHANGED <<arrived, fifo, received, device, status, started, draining, quietAt>>


EnqueueChar ==
    /\ uartAt["serial"] = "push"
    /\ fifo' = Append(fifo, char)
    /\ char' = 0
    /\ uartAt' = [uartAt EXCEPT !["serial"] = "setRx"]
    /\ UNCHANGED <<arrived, input, received, device, status, started, draining, quietAt, uartOverlap>>

-----------------------------------------------------------------------------
(* The guest.  Its interrupt handler reads data until the flag register    *)
(* says that the fifo is empty.                                            *)

Idle == ~draining /\ quietAt = Busy

\* Write of the data register: the first one creates the serial thread.
Transmit ==
    /\ Idle /\ UartEnter("cpu", "setTx")
    /\ started' = TRUE
    /\ UNCHANGED <<data, device, status, draining, quietAt>>

WriteMask(m) ==
    /\ Idle /\ UartEnter("cpu", "check")
    /\ irq_mask' = m
    /\ UNCHANGED <<data, irq_status, uartAsserted, uartLevel, status, started, draining, quietAt>>

\* Write of the interrupt clear register.
WriteClear(m) ==
    /\ Idle /\ UartEnter("cpu", "clearBits")
    /\ status' = [status EXCEPT !["cpu"] = m]
    /\ UNCHANGED <<data, device, started, draining, quietAt>>

\* From here on the guest only takes interrupts.
Quiet ==
    /\ Idle /\ started /\ uartAt["cpu"] = "free"
    /\ quietAt' = arrived
    /\ UNCHANGED <<data, device, status, uartAt, started, draining, uartOverlap>>

TakeInterrupt ==
    /\ uartLevel /\ ~draining /\ uartAt["cpu"] = "free"
    /\ draining' = TRUE
    /\ UNCHANGED <<data, device, status, uartAt, started, quietAt, uartOverlap>>

\* The flag register says RXFE.
HandlerReturns ==
    /\ draining /\ uartAt["cpu"] = "free" /\ fifo = <<>>
    /\ draining' = FALSE
    /\ UNCHANGED <<data, device, status, uartAt, started, quietAt, uartOverlap>>

\* Read of the data register.
ReadData ==
    /\ draining /\ fifo # <<>>
    /\ UartEnter("cpu", "clearRx")
    /\ received' = Append(received, Head(fifo)) /\ fifo' = Tail(fifo)
    /\ UNCHANGED <<arrived, input, char, device, status, started, draining, quietAt>>

-----------------------------------------------------------------------------
(* irq_status |= and &=, then CheckIRQs().                                 *)

\* Variant: the receive bit is never set.
ReadStatusNoRx(t) ==
    /\ uartAt[t] \in {"setRx", "setTx", "clearRx", "clearBits"}
    /\ status' = [status EXCEPT ![t] =
                    CASE uartAt[t] = "setRx" -> irq_status
                      [] uartAt[t] = "setTx" -> irq_status \cup {"TX"}
                      [] uartAt[t] = "clearRx" -> irq_status \ {"RX"}
                      [] uartAt[t] = "clearBits" -> irq_status \ status[t]]
    /\ uartAt' = [uartAt EXCEPT ![t] = "writeStatus"]
    /\ UNCHANGED <<data, device, started, draining, quietAt, uartOverlap>>

ReadStatus(t) ==
    /\ uartAt[t] \in {"setRx", "setTx", "clearRx", "clearBits"}
    /\ status' = [status EXCEPT ![t] =
                    CASE uartAt[t] = "setRx" -> irq_status \cup {"RX"}
                      [] uartAt[t] = "setTx" -> irq_status \cup {"TX"}
                      [] uartAt[t] = "clearRx" -> irq_status \ {"RX"}
                      [] uartAt[t] = "clearBits" -> irq_status \ status[t]]
    /\ uartAt' = [uartAt EXCEPT ![t] = "writeStatus"]
    /\ UNCHANGED <<data, device, started, draining, quietAt, uartOverlap>>

WriteStatus(t) ==
    /\ uartAt[t] = "writeStatus"
    /\ irq_status' = status[t]
    /\ status' = [status EXCEPT ![t] = {}]
    /\ uartAt' = [uartAt EXCEPT ![t] = "check"]
    /\ UNCHANGED <<data, irq_mask, uartAsserted, uartLevel, started, draining, quietAt, uartOverlap>>

\* Variant: the line is only ever raised.
CheckIRQsHigh(t) ==
    /\ uartAt[t] = "check"
    /\ uartAt' = [uartAt EXCEPT ![t] = IF irq_status \cap irq_mask # {} THEN "wantHigh" ELSE "free"]
    /\ uartOverlap' = (uartAt[UartOther(t)] # "free")
    /\ UNCHANGED <<data, device, status, started, draining, quietAt>>

CheckIRQs(t) ==
    /\ uartAt[t] = "check"
    /\ uartAt' = [uartAt EXCEPT ![t] = IF irq_status \cap irq_mask # {} THEN "wantHigh" ELSE "wantLow"]
    /\ uartOverlap' = (uartAt[UartOther(t)] # "free")
    /\ UNCHANGED <<data, device, status, started, draining, quietAt>>

DriveUart(t) ==
    /\ UartLine!LineStep(t, "free")
    /\ UNCHANGED <<data, irq_status, irq_mask, status, started, draining, quietAt, uartOverlap>>

UartStep(t) == ReadStatus(t) \/ WriteStatus(t) \/ CheckIRQs(t) \/ DriveUart(t)
Handler == TakeInterrupt \/ ReadData \/ HandlerReturns
SerialThread == ReadChar \/ EnqueueChar \/ UartStep("serial")

\* The bound: no more characters come, and the guest does nothing else.
UartRests ==
    /\ arrived = MaxChars /\ input = <<>> /\ quietAt # Busy /\ ~draining /\ ~uartLevel
    /\ \A t \in UartThreads : uartAt[t] = "free"
    /\ UNCHANGED uartVars

UartNext ==
    \/ Arrive \/ SerialThread
    \/ Transmit \/ Quiet \/ \E m \in Masks : WriteMask(m) \/ WriteClear(m)
    \/ Handler \/ UartStep("cpu") \/ UartRests

\* The serial thread polls for ever; a register access ends; and the guest
\* takes its interrupt and drains the fifo.
UartFairness ==
    /\ WF_uartVars(SerialThread)
    /\ WF_uartVars(UartStep("cpu"))
    /\ SF_uartVars(TakeInterrupt)
    /\ WF_uartVars(ReadData \/ HandlerReturns)

UartSpec == UartInit /\ [][UartNext]_uartVars /\ UartFairness

-----------------------------------------------------------------------------

\* When no thread is in the UART its line's flag agrees with the masked status,
\* and the controller knows of a raised one, unless the serial thread and a
\* register access have overlapped and CheckIRQs() has not run alone since.
UartLineFollows ==
    (\A t \in UartThreads : uartAt[t] = "free") /\ ~uartOverlap =>
        LET high == irq_status \cap irq_mask # {}
        IN  uartAsserted = high /\ (high => uartLevel)

\* The first character that arrives while the guest does nothing but take its
\* receive interrupt is read, and so is every one before it: however the serial thread
\* and the handler overlap, the handler looks at the fifo again after it has
\* cleared the status.  (While the guest transmits, masks or clears, its update
\* of irq_status can undo the serial thread's, and the last character then
\* waits for the next one.)
EveryCharacterIsRead ==
    (arrived > quietAt /\ "RX" \in irq_mask) ~> (Len(received) > quietAt)
=============================================================================
