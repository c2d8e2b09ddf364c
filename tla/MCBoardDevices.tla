--------------------------- MODULE MCBoardDevices ---------------------------
(***************************************************************************)
(* Instances of the boards' interrupt controllers and devices for TLC.     *)
(* Each is checked by itself: `part', chosen at the start, says which one  *)
(* runs, and the others stay as they began.                                *)
(***************************************************************************)
EXTENDS Integers, Sequences, FiniteSets

VARIABLES
    part,
    irq_level, soft_level, enable, fiq_select, vector_ctrls, prio_mask,
    priority, prev_priority, irqOut, fiqOut, vicAt, vicOverlap,
    lines, sicEnable, parentAsserted, parentLevel, sicAt, sicStale,
    load, current, isr, enabled, control, timerAsserted, timerLevel,
    timerAt, index, subtracted, waiting, timerOverlap,
    suArrived, rx_fifo, suReceived, txcnt, rxcnt, ie, ip, suAsserted, suLevel,
    suAt, suAgain, suOverlap,
    free, availRing, availIdx, lastAvail, usedRing, usedIdx, seenIdx, receiveBuffers,
    hand, interruptStatus, netAsserted, netLevel, netAt, netQueue, netThen, handling

Control(o, s, i, m, e) == [one_shot |-> o, size |-> s, int_en |-> i, mode |-> m, enable |-> e]

\* Two vectors, every line an IRQ; and one vector, with a line routed to FIQ.
Vic2 == INSTANCE PL190 WITH IrqLines <- {0, 1}, NVectors <- 2, DeviceLines <- {1},
            SoftLines <- {0}, FiqLines <- {}, Cpu <- "cpu", DeviceThreads <- {"device"}
Vic1 == INSTANCE PL190 WITH IrqLines <- {0, 1}, NVectors <- 1, DeviceLines <- {1},
            SoftLines <- {0}, FiqLines <- {1}, Cpu <- "cpu", DeviceThreads <- {"device"}
Sic == INSTANCE VersatileSIC WITH SicLines <- {1, 2}, SicDevices <- {"a", "b"}
\* Both timers, with one period.
Timer == INSTANCE SP804 WITH Timers <- {1, 2}, TickLength <- 1, Max16 <- 1, MaxValue <- 2,
            LoadValues <- {1}, Controls <- {Control(FALSE, TRUE, TRUE, TRUE, e) : e \in BOOLEAN}
SiUart == INSTANCE SifiveUART WITH SuChars <- 2, SuMarks <- {0, 1}
\* Two receive buffers in a ring of four whose indexes wrap at eight.
Net == INSTANCE VirtIONet WITH Heads <- [rx |-> {0, 2}], QueueSize <- 4, IdxMod <- 8

vic == <<irq_level, soft_level, enable, fiq_select, vector_ctrls, prio_mask,
    priority, prev_priority, irqOut, fiqOut, vicAt, vicOverlap>>
sic == <<lines, sicEnable, parentAsserted, parentLevel, sicAt, sicStale>>
timer == <<load, current, isr, enabled, control, timerAsserted, timerLevel,
    timerAt, index, subtracted, waiting, timerOverlap>>
siUart == <<suArrived, rx_fifo, suReceived, txcnt, rxcnt, ie, ip, suAsserted, suLevel,
    suAt, suAgain, suOverlap>>
net == <<free, availRing, availIdx, lastAvail, usedRing, usedIdx, seenIdx, receiveBuffers,
    hand, interruptStatus, netAsserted, netLevel, netAt, netQueue, netThen, handling>>
vars == <<part, vic, sic, timer, siUart, net>>

Init ==
    /\ part \in {"vic1", "vic2", "sic", "timer", "siUart", "net"}
    /\ IF part = "vic2" THEN Vic2!VicInit ELSE Vic1!VicInit
    /\ Sic!SicInit /\ Timer!TimerInit /\ SiUart!SuInit /\ Net!NetInit

Next ==
    \/ part = "vic1" /\ Vic1!VicNext /\ UNCHANGED <<part, sic, timer, siUart, net>>
    \/ part = "vic2" /\ Vic2!VicNext /\ UNCHANGED <<part, sic, timer, siUart, net>>
    \/ part = "sic" /\ Sic!SicNext /\ UNCHANGED <<part, vic, timer, siUart, net>>
    \/ part = "timer" /\ Timer!TimerNext /\ UNCHANGED <<part, vic, sic, siUart, net>>
    \/ part = "siUart" /\ SiUart!SuNext /\ UNCHANGED <<part, vic, sic, timer, net>>
    \/ part = "net" /\ Net!NetNext /\ UNCHANGED <<part, vic, sic, timer, siUart>>

Spec == Init /\ [][Next]_vars

-----------------------------------------------------------------------------
\* The lines the devices drive follow their registers: the PL190's two outputs,
\* the SIC's line to the primary controller, the SP804's line its two timers
\* share, and the SiFive UART's, each as its module states it.
LinesFollow ==
    /\ part = "vic1" => Vic1!LinesFollowRegisters
    /\ part = "vic2" => Vic2!LinesFollowRegisters
    /\ Sic!ParentFollowsLines
    /\ Timer!TimerLineFollows
    /\ SiUart!SuLineFollows

\* PL190's nested interrupts unwind in order.
PrioritiesNest ==
    /\ part = "vic1" => Vic1!PrioritiesNest
    /\ part = "vic2" => Vic2!PrioritiesNest

\* The VirtIO receive ring neither loses a buffer nor hands one out twice.
BuffersConserved == Net!BuffersConserved
=============================================================================
