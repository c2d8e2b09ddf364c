----------------------------- MODULE VirtIONet -----------------------------
(***************************************************************************)
(* The VirtIO network device: VirtIO, VirtQueue and VirtIONet.  The guest  *)
(* CPU's thread notifies queues and acknowledges interrupts; the network   *)
(* interface's thread delivers packets into the buffers that the guest has *)
(* posted on queue "rx".  The rings are in guest memory, which both        *)
(* threads use; only _receive_buffers has a lock.                          *)
(*                                                                         *)
(* The guest's driver is the environment: it posts buffers (chains of two  *)
(* descriptors, named by their heads), takes the interrupt, acknowledges   *)
(* what InterruptStatus shows, and then reads the used rings to their end. *)
(* InterruptStatus only ever has bit 0, so setting or clearing it is one   *)
(* store whatever was read before.                                         *)
(***************************************************************************)
EXTENDS Integers, Sequences, FiniteSets

CONSTANTS
    Heads,      \* [queue -> the heads the driver owns at first]
    QueueSize,  \* entries of a ring
    IdxMod      \* the ring indexes count modulo this (2^16)

Queues == DOMAIN Heads

VARIABLES
    free,        \* the heads the driver may post
    availRing, availIdx, lastAvail,
    usedRing, usedIdx,
    seenIdx,     \* the driver's position in the used ring
    receiveBuffers,
    hand,        \* the head each thread holds (None)
    interruptStatus,
    netAsserted, netLevel,
    netAt,
    netQueue,    \* the queue the CPU's thread processes
    netThen,     \* where a thread goes when the line's code returns
    handling     \* the driver is in its handler: "no", "ack", "drain"

netVars == <<free, availRing, availIdx, lastAvail, usedRing, usedIdx, seenIdx, receiveBuffers,
             hand, interruptStatus, netAsserted, netLevel, netAt, netQueue, netThen, handling>>
rings == <<free, availRing, availIdx, lastAvail, usedRing, usedIdx, seenIdx, receiveBuffers, hand>>

NetLine == INSTANCE ControllerLine WITH
             asserted <- netAsserted, level <- netLevel, at <- netAt

None == -1
NetThreads == {"cpu", "net"}
NumHeads(q) == (availIdx[q] - lastAvail[q]) % IdxMod
Unseen(q) == (usedIdx[q] - seenIdx[q]) % IdxMod

NetInit ==
    /\ free = Heads
    /\ availRing = [q \in Queues |-> [i \in 0 .. QueueSize - 1 |-> None]]
    /\ usedRing = [q \in Queues |-> [i \in 0 .. QueueSize - 1 |-> None]]
    /\ availIdx = [q \in Queues |-> 0] /\ lastAvail = [q \in Queues |-> 0]
    /\ usedIdx = [q \in Queues |-> 0] /\ seenIdx = [q \in Queues |-> 0]
    /\ receiveBuffers = <<>>
    /\ hand = [t \in NetThreads |-> None]
    /\ interruptStatus = FALSE
    /\ netAsserted = FALSE /\ netLevel = FALSE
    /\ netAt = [t \in NetThreads |-> "free"]
    /\ netQueue = "rx"
    /\ netThen = [t \in NetThreads |-> "free"]
    /\ handling = "no"

NetGo(t, place) == netAt' = [netAt EXCEPT ![t] = place]
DriverRuns == netAt["cpu"] = "free"

-----------------------------------------------------------------------------
(* The driver in the guest.                                                *)

Post(q) ==
    /\ DriverRuns /\ handling = "no"
    /\ \E h \in free[q] :
          /\ free' = [free EXCEPT ![q] = @ \ {h}]
          /\ availRing' = [availRing EXCEPT ![q][availIdx[q] % QueueSize] = h]
    /\ availIdx' = [availIdx EXCEPT ![q] = (@ + 1) % IdxMod]
    /\ UNCHANGED <<lastAvail, usedRing, usedIdx, seenIdx, receiveBuffers, hand, interruptStatus,
                   netAsserted, netLevel, netAt, netQueue, netThen, handling>>

\* The interrupt: InterruptStatus reads as the line's flag.
TakeNetInterrupt ==
    /\ DriverRuns /\ handling = "no" /\ netLevel
    /\ handling' = IF netAsserted THEN "ack" ELSE "no"
    /\ UNCHANGED <<rings, interruptStatus, netAsserted, netLevel, netAt, netQueue, netThen>>

Drain ==
    /\ DriverRuns /\ handling = "drain"
    /\ IF \E q \in Queues : Unseen(q) > 0
       THEN \E q \in Queues :
              /\ Unseen(q) > 0
              /\ free' = [free EXCEPT ![q] = @ \cup {usedRing[q][seenIdx[q] % QueueSize]}]
              /\ seenIdx' = [seenIdx EXCEPT ![q] = (@ + 1) % IdxMod]
              /\ handling' = handling
       ELSE UNCHANGED <<free, seenIdx>> /\ handling' = "no"
    /\ UNCHANGED <<availRing, availIdx, lastAvail, usedRing, usedIdx, receiveBuffers, hand,
                   interruptStatus, netAsserted, netLevel, netAt, netQueue, netThen>>

-----------------------------------------------------------------------------
(* WriteRegister(QueueNotify): ProcessQueue.                               *)

Notify(q) ==
    /\ DriverRuns /\ handling = "no"
    /\ netQueue' = q
    /\ NetGo("cpu", "pop")
    /\ UNCHANGED <<rings, interruptStatus, netAsserted, netLevel, netThen, handling>>

\* Variant: the position in the available ring is not advanced.
PopDescriptorChainHeadAgain ==
    /\ netAt["cpu"] = "pop"
    /\ IF NumHeads(netQueue) = 0
       THEN NetGo("cpu", "tail") /\ UNCHANGED <<lastAvail, hand>>
       ELSE /\ hand' = [hand EXCEPT !["cpu"] = availRing[netQueue][lastAvail[netQueue] % QueueSize]]
            /\ NetGo("cpu", "event") /\ UNCHANGED lastAvail
    /\ UNCHANGED <<free, availRing, availIdx, usedRing, usedIdx, seenIdx, receiveBuffers,
                   interruptStatus, netAsserted, netLevel, netQueue, netThen, handling>>

\* PopDescriptorChainHead, and the walk of the chain it heads.
PopDescriptorChainHead ==
    /\ netAt["cpu"] = "pop"
    /\ IF NumHeads(netQueue) = 0
       THEN NetGo("cpu", "tail") /\ UNCHANGED <<lastAvail, hand>>
       ELSE /\ hand' = [hand EXCEPT !["cpu"] = availRing[netQueue][lastAvail[netQueue] % QueueSize]]
            /\ lastAvail' = [lastAvail EXCEPT ![netQueue] = (@ + 1) % IdxMod]
            /\ NetGo("cpu", "event")
    /\ UNCHANGED <<free, availRing, availIdx, usedRing, usedIdx, seenIdx, receiveBuffers,
                   interruptStatus, netAsserted, netLevel, netQueue, netThen, handling>>

\* ProcessEvent: a receive buffer is kept, under the lock; a packet is sent and
\* its buffer returned.
ProcessEvent ==
    /\ netAt["cpu"] = "event"
    /\ IF netQueue = "rx"
       THEN /\ receiveBuffers' = Append(receiveBuffers, hand["cpu"])
            /\ hand' = [hand EXCEPT !["cpu"] = None]
            /\ NetGo("cpu", "pop")
       ELSE /\ NetGo("cpu", "pushElem")
            /\ UNCHANGED <<receiveBuffers, hand>>
    /\ UNCHANGED <<free, availRing, availIdx, lastAvail, usedRing, usedIdx, seenIdx,
                   interruptStatus, netAsserted, netLevel, netQueue, netThen, handling>>

-----------------------------------------------------------------------------
(* receive_packet, on the network interface's thread.                      *)

\* With no buffer the packet is dropped, and nothing changes.
ReceivePacket ==
    /\ netAt["net"] = "free" /\ receiveBuffers # <<>>
    /\ hand' = [hand EXCEPT !["net"] = Head(receiveBuffers)]
    /\ receiveBuffers' = Tail(receiveBuffers)
    /\ NetGo("net", "pushElem")
    /\ UNCHANGED <<free, availRing, availIdx, lastAvail, usedRing, usedIdx, seenIdx,
                   interruptStatus, netAsserted, netLevel, netQueue, netThen, handling>>

-----------------------------------------------------------------------------
(* VirtQueue::Push and AssertInterrupt, on either thread.                  *)

QueueOf(t) == IF t = "net" THEN "rx" ELSE netQueue

PushElem(t) ==
    /\ netAt[t] = "pushElem"
    /\ LET q == QueueOf(t)
       IN  usedRing' = [usedRing EXCEPT ![q][usedIdx[q] % QueueSize] = hand[t]]
    /\ NetGo(t, "pushIdx")
    /\ UNCHANGED <<free, availRing, availIdx, lastAvail, usedIdx, seenIdx, receiveBuffers, hand,
                   interruptStatus, netAsserted, netLevel, netQueue, netThen, handling>>

\* Variant: a delivered packet raises no interrupt.
PushIdxSilent(t) ==
    /\ netAt[t] = "pushIdx"
    /\ LET q == QueueOf(t) IN usedIdx' = [usedIdx EXCEPT ![q] = (@ + 1) % IdxMod]
    /\ hand' = [hand EXCEPT ![t] = None]
    /\ NetGo(t, IF t = "net" THEN "free" ELSE "setStatus")
    /\ UNCHANGED <<free, availRing, availIdx, lastAvail, usedRing, seenIdx, receiveBuffers,
                   interruptStatus, netAsserted, netLevel, netQueue, netThen, handling>>

PushIdx(t) ==
    /\ netAt[t] = "pushIdx"
    /\ LET q == QueueOf(t) IN usedIdx' = [usedIdx EXCEPT ![q] = (@ + 1) % IdxMod]
    /\ hand' = [hand EXCEPT ![t] = None]
    /\ NetGo(t, "setStatus")
    /\ UNCHANGED <<free, availRing, availIdx, lastAvail, usedRing, seenIdx, receiveBuffers,
                   interruptStatus, netAsserted, netLevel, netQueue, netThen, handling>>

SetStatus(t) ==
    /\ netAt[t] = "setStatus"
    /\ interruptStatus' = TRUE
    /\ NetGo(t, "testStatus")
    /\ UNCHANGED <<rings, netAsserted, netLevel, netQueue, netThen, handling>>

\* The second Get(), which may see an acknowledgement; then irq.Assert().
TestStatus(t) ==
    /\ netAt[t] = "testStatus"
    /\ LET back == IF t = "net" THEN "free" ELSE "pop"
       IN  /\ NetGo(t, IF interruptStatus THEN "assert" ELSE back)
           /\ netThen' = [netThen EXCEPT ![t] = back]
    /\ UNCHANGED <<rings, interruptStatus, netAsserted, netLevel, netQueue, handling>>

-----------------------------------------------------------------------------
(* WriteRegister(InterruptACK), and the check at the end of WriteRegister. *)

Acknowledge ==
    /\ DriverRuns /\ handling = "ack"
    /\ interruptStatus' = FALSE
    /\ handling' = "drain"
    /\ netThen' = [netThen EXCEPT !["cpu"] = "tail"]
    /\ NetGo("cpu", "wantLow")
    /\ UNCHANGED <<rings, netAsserted, netLevel, netQueue>>

WriteRegisterTail ==
    /\ netAt["cpu"] = "tail"
    /\ NetGo("cpu", IF interruptStatus THEN "wantHigh" ELSE "free")
    /\ netThen' = [netThen EXCEPT !["cpu"] = "free"]
    /\ UNCHANGED <<rings, interruptStatus, netAsserted, netLevel, netQueue, handling>>

DriveNet(t) ==
    /\ NetLine!LineStep(t, netThen[t])
    /\ UNCHANGED <<rings, interruptStatus, netQueue, netThen, handling>>

DeviceStep(t) == PushElem(t) \/ PushIdx(t) \/ SetStatus(t) \/ TestStatus(t) \/ DriveNet(t)
CpuInDevice == PopDescriptorChainHead \/ ProcessEvent \/ WriteRegisterTail \/ DeviceStep("cpu")

NetNext ==
    \/ \E q \in Queues : Post(q) \/ Notify(q)
    \/ TakeNetInterrupt \/ Acknowledge \/ Drain
    \/ CpuInDevice
    \/ ReceivePacket \/ DeviceStep("net")

\* A register access ends, the network thread finishes a packet it has begun,
\* and the driver takes its interrupt and ends its handler.
NetFairness ==
    /\ WF_netVars(CpuInDevice)
    /\ WF_netVars(DeviceStep("net"))
    /\ SF_netVars(TakeNetInterrupt)
    /\ WF_netVars(Acknowledge \/ Drain)

NetSpec == NetInit /\ [][NetNext]_netVars /\ NetFairness

-----------------------------------------------------------------------------
\* Every buffer is in one place: with the driver, posted and not yet popped,
\* kept for a packet, in a thread's hand, or used and not yet seen.  The rings'
\* indexes, which wrap, never hand a buffer out twice nor lose one, and the
\* assertion in PopDescriptorChainHead that fewer heads than entries are
\* waiting holds.
BuffersConserved ==
    \A q \in Queues :
        LET posted == [i \in 1 .. NumHeads(q) |-> availRing[q][(lastAvail[q] + i - 1) % QueueSize]]
            used == [i \in 1 .. Unseen(q) |-> usedRing[q][(seenIdx[q] + i - 1) % QueueSize]]
            held == IF q = "rx" THEN receiveBuffers ELSE <<>>
            hands == {hand[t] : t \in {u \in NetThreads : QueueOf(u) = q}} \ {None}
            inRings == posted \o held \o used
            ringSet == {inRings[i] : i \in DOMAIN inRings}
        IN  /\ NumHeads(q) < QueueSize
            /\ free[q] \cup hands \cup ringSet = Heads[q]
            /\ Cardinality(free[q]) + Cardinality(hands) + Len(inRings) = Cardinality(Heads[q])

\* A packet delivered, or a buffer sent, is noticed: the driver comes to have
\* seen all of both used rings, however its acknowledgement overlaps the
\* network thread's AssertInterrupt.
UsedIsSeen ==
    (\E q \in Queues : Unseen(q) > 0) ~> (\A q \in Queues : Unseen(q) = 0)
=============================================================================
