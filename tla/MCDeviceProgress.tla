-------------------------- MODULE MCDeviceProgress --------------------------
(***************************************************************************)
(* Instances of the devices whose guests wait for them, with fairness, for *)
(* TLC: a timer in all its modes, the console's UART and the network       *)
(* device with both its queues.  Each is checked by itself: `part', chosen *)
(* at the start, says which one runs.                                      *)
(***************************************************************************)
EXTENDS Integers, Sequences, FiniteSets

VARIABLES
    part,
    load, current, isr, enabled, control, timerAsserted, timerLevel,
    timerAt, index, subtracted, waiting, timerOverlap,
    arrived, input, fifo, received, char, irq_status, irq_mask, status, uartAsserted,
    uartLevel, uartAt, started, draining, quietAt, uartOverlap,
    free, availRing, availIdx, lastAvail, usedRing, usedIdx, seenIdx, receiveBuffers,
    hand, interruptStatus, netAsserted, netLevel, netAt, netQueue, netThen, handling

Control(o, s, i, m, e) == [one_shot |-> o, size |-> s, int_en |-> i, mode |-> m, enable |-> e]

Timer == INSTANCE SP804 WITH Timers <- {1}, TickLength <- 1, Max16 <- 1, MaxValue <- 2,
            LoadValues <- {1, 2},
            Controls <- {Control(FALSE, s, i, m, e) :
                            s \in BOOLEAN, i \in BOOLEAN, m \in BOOLEAN, e \in BOOLEAN}
                          \cup {Control(TRUE, TRUE, TRUE, TRUE, TRUE)}
Uart == INSTANCE PL011 WITH MaxChars <- 2, Masks <- {{"RX"}, {"RX", "TX"}, {}}
Net == INSTANCE VirtIONet WITH Heads <- [rx |-> {0}, tx |-> {0}], QueueSize <- 2, IdxMod <- 2

timer == <<load, current, isr, enabled, control, timerAsserted, timerLevel,
    timerAt, index, subtracted, waiting, timerOverlap>>
uart == <<arrived, input, fifo, received, char, irq_status, irq_mask, status, uartAsserted,
    uartLevel, uartAt, started, draining, quietAt, uartOverlap>>
net == <<free, availRing, availIdx, lastAvail, usedRing, usedIdx, seenIdx, receiveBuffers,
    hand, interruptStatus, netAsserted, netLevel, netAt, netQueue, netThen, handling>>
vars == <<part, timer, uart, net>>

Init ==
    /\ part \in {"timer", "uart", "net"}
    /\ Timer!TimerInit /\ Uart!UartInit /\ Net!NetInit

Next ==
    \/ part = "timer" /\ Timer!TimerNext /\ UNCHANGED <<part, uart, net>>
    \/ part = "uart" /\ Uart!UartNext /\ UNCHANGED <<part, timer, net>>
    \/ part = "net" /\ Net!NetNext /\ UNCHANGED <<part, timer, uart>>

\* The fairness of the device that runs, as its module states it.
Fairness ==
    /\ WF_timer(part = "timer" /\ Timer!TickStep)
    /\ WF_timer(part = "timer" /\ Timer!CpuStep)
    /\ WF_uart(part = "uart" /\ Uart!SerialThread)
    /\ WF_uart(part = "uart" /\ Uart!UartStep("cpu"))
    /\ SF_uart(part = "uart" /\ Uart!TakeInterrupt)
    /\ WF_uart(part = "uart" /\ (Uart!ReadData \/ Uart!HandlerReturns))
    /\ WF_net(part = "net" /\ Net!CpuInDevice)
    /\ WF_net(part = "net" /\ Net!DeviceStep("net"))
    /\ SF_net(part = "net" /\ Net!TakeNetInterrupt)
    /\ WF_net(part = "net" /\ (Net!Acknowledge \/ Net!Drain))

Spec == Init /\ [][Next]_vars /\ Fairness

-----------------------------------------------------------------------------
\* The line of an SP804 timer in any mode and of the PL011 follows the device's
\* unmasked status.
DeviceLinesFollow == Timer!TimerLineFollows /\ Uart!UartLineFollows



\* A character that arrives while the guest only takes interrupts is read.
EveryCharacterIsRead == Uart!EveryCharacterIsRead

\* The VirtIO driver comes to see every buffer the device has used.
UsedIsSeen == Net!UsedIsSeen
=============================================================================
