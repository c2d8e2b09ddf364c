----------------------------- MODULE SifiveUART -----------------------------
(***************************************************************************)
(* The SiFive UART of the RISC-V boards.  The AsyncSerial thread enqueues  *)
(* characters; the guest CPU's thread reads and writes the registers.      *)
(* Every operation ends in UpdateIRQ(), which rebuilds the pending word    *)
(* ip_ from nothing in the field itself, then drives the line; the two     *)
(* threads take no lock.                                                   *)
(***************************************************************************)
EXTENDS Integers, Sequences

CONSTANTS
    SuChars,     \* bound on the characters that arrive
    SuMarks      \* the watermarks the guest programs (0 .. 3)

VARIABLES
    suArrived,   \* how many characters have been enqueued
    rx_fifo, suReceived,
    txcnt, rxcnt, ie, ip,
    suAsserted, suLevel,
    suAt,
    suAgain,     \* the CPU's UpdateIRQ() will be followed by another
    suOverlap    \* history: see SuEnter and ClearPending

suVars == <<suArrived, rx_fifo, suReceived, txcnt, rxcnt, ie, ip, suAsserted, suLevel,
            suAt, suAgain, suOverlap>>
suFifo == <<suArrived, rx_fifo, suReceived>>

SuLine == INSTANCE ControllerLine WITH
            asserted <- suAsserted, level <- suLevel, at <- suAt

SuThreads == {"cpu", "serial"}
SuOther(t) == IF t = "cpu" THEN "serial" ELSE "cpu"

SuInit ==
    /\ suArrived = 0 /\ rx_fifo = <<>> /\ suReceived = <<>>
    /\ txcnt = 0 /\ rxcnt = 0 /\ ie = {} /\ ip = {}
    /\ suAsserted = FALSE /\ suLevel = FALSE
    /\ suAt = [t \in SuThreads |-> "free"]
    /\ suAgain = FALSE /\ suOverlap = FALSE

\* An operation has done its work and enters UpdateIRQ().
SuEnter(t) ==
    /\ suAt[t] = "free"
    /\ suAt' = [suAt EXCEPT ![t] = "clearIp"]
    /\ suOverlap' = (suOverlap \/ suAt[SuOther(t)] # "free")
    /\ UNCHANGED <<ip, suAsserted, suLevel>>

\* EnqueueChar
SuEnqueue ==
    /\ suArrived < SuChars /\ SuEnter("serial")
    /\ suArrived' = suArrived + 1
    /\ rx_fifo' = Append(rx_fifo, suArrived + 1)
    /\ UNCHANGED <<suReceived, txcnt, rxcnt, ie, suAgain>>

\* Read of rxdata: ReadRXFifo() calls UpdateIRQ(), and so does Read().
SuReadData ==
    /\ SuEnter("cpu")
    /\ IF rx_fifo = <<>> THEN UNCHANGED <<rx_fifo, suReceived>>
       ELSE rx_fifo' = Tail(rx_fifo) /\ suReceived' = Append(suReceived, Head(rx_fifo))
    /\ suAgain' = TRUE
    /\ UNCHANGED <<suArrived, txcnt, rxcnt, ie>>

\* Write of txctrl, rxctrl, ie; every other write only updates the line.
SuWrite ==
    /\ SuEnter("cpu")
    /\ \/ txcnt' \in SuMarks /\ UNCHANGED <<rxcnt, ie>>
       \/ rxcnt' \in SuMarks /\ UNCHANGED <<txcnt, ie>>
       \/ ie' \in SUBSET {"TX", "RX"} /\ UNCHANGED <<txcnt, rxcnt>>
    /\ UNCHANGED <<suFifo, suAgain>>

-----------------------------------------------------------------------------
(* UpdateIRQ()                                                             *)

\* ip_ = 0; a rebuild that begins alone makes up for earlier overlaps.
ClearPending(t) ==
    /\ suAt[t] = "clearIp"
    /\ ip' = {}
    /\ suAt' = [suAt EXCEPT ![t] = "setTx"]
    /\ suOverlap' = (suAt[SuOther(t)] # "free")
    /\ UNCHANGED <<suFifo, txcnt, rxcnt, ie, suAsserted, suLevel, suAgain>>

SetTxPending(t) ==
    /\ suAt[t] = "setTx"
    /\ ip' = IF txcnt > 0 THEN ip \cup {"TX"} ELSE ip
    /\ suAt' = [suAt EXCEPT ![t] = "setRx"]
    /\ UNCHANGED <<suFifo, txcnt, rxcnt, ie, suAsserted, suLevel, suAgain, suOverlap>>

\* Variant: the fifo has to be strictly above one more than the watermark.
SetRxPendingLate(t) ==
    /\ suAt[t] = "setRx"
    /\ ip' = IF rxcnt + 1 < Len(rx_fifo) THEN ip \cup {"RX"} ELSE ip
    /\ suAt' = [suAt EXCEPT ![t] = "test"]
    /\ UNCHANGED <<suFifo, txcnt, rxcnt, ie, suAsserted, suLevel, suAgain, suOverlap>>

SetRxPending(t) ==
    /\ suAt[t] = "setRx"
    /\ ip' = IF rxcnt < Len(rx_fifo) THEN ip \cup {"RX"} ELSE ip
    /\ suAt' = [suAt EXCEPT ![t] = "test"]
    /\ UNCHANGED <<suFifo, txcnt, rxcnt, ie, suAsserted, suLevel, suAgain, suOverlap>>

TestPending(t) ==
    /\ suAt[t] = "test"
    /\ suAt' = [suAt EXCEPT ![t] = IF ip \cap ie # {} THEN "wantHigh" ELSE "wantLow"]
    /\ UNCHANGED <<suFifo, txcnt, rxcnt, ie, ip, suAsserted, suLevel, suAgain, suOverlap>>

SuDrive(t) ==
    /\ SuLine!LineStep(t, "done")
    /\ UNCHANGED <<suFifo, txcnt, rxcnt, ie, ip, suAgain, suOverlap>>

SuReturn(t) ==
    /\ suAt[t] = "done"
    /\ suAt' = [suAt EXCEPT ![t] = IF t = "cpu" /\ suAgain THEN "clearIp" ELSE "free"]
    /\ suAgain' = (suAgain /\ t # "cpu")
    /\ UNCHANGED <<suFifo, txcnt, rxcnt, ie, ip, suAsserted, suLevel, suOverlap>>

SuNext ==
    \/ SuEnqueue \/ SuReadData \/ SuWrite
    \/ \E t \in SuThreads :
          \/ ClearPending(t) \/ SetTxPending(t) \/ SetRxPending(t) \/ TestPending(t)
          \/ SuDrive(t) \/ SuReturn(t)

SuSpec == SuInit /\ [][SuNext]_suVars

-----------------------------------------------------------------------------
\* After an operation that ran alone, the pending word and the line are those of
\* the watermarks and of the fifo: a guest that sees the line low has fewer
\* characters waiting than it asked to be told of.  A character enqueued while
\* a register access rebuilds ip_ may find it half built and rescind the line;
\* nothing puts that right until the UART is next used.
SuLineFollows ==
    (\A t \in SuThreads : suAt[t] = "free") /\ ~suOverlap =>
        LET want == {s \in ie : \/ s = "TX" /\ txcnt > 0
                                \/ s = "RX" /\ Len(rx_fifo) > rxcnt} # {}
        IN  /\ suAsserted = want /\ (want => suLevel)
            /\ ("RX" \in ip) = (Len(rx_fifo) > rxcnt)
            /\ suReceived \o rx_fifo = [i \in 1 .. suArrived |-> i]
=============================================================================
