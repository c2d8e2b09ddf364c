------------------------------- MODULE SP804 -------------------------------
(***************************************************************************)
(* The SP804 dual timer.  The tick source's thread counts the timers down  *)
(* and posts their interrupts; the guest CPU's thread programs them.  The  *)
(* two share every field and take no lock.                                 *)
(*                                                                         *)
(* Counters are modulo MaxValue + 1 (2^32).  The code's `suspended' is     *)
(* never set.                                                              *)
(***************************************************************************)
EXTENDS Integers

CONSTANTS
    Timers,      \* 1 .. 2, or 1 .. 1 for a guest that uses one of them
    TickLength,  \* what a tick takes off a counter (1000)
    Max16,       \* 0xffff
    MaxValue,    \* 0xffffffff
    LoadValues,  \* the periods the guest programs
    Controls     \* the control words it programs: [one_shot, size, int_en, mode, enable]

VARIABLES
    load, current, isr, enabled, control,   \* each timer's fields
    timerAsserted, timerLevel,              \* the line to the interrupt controller
    timerAt,       \* where each thread is
    index,         \* the timer each thread is at
    subtracted,    \* current_value - ticks, in the tick's register
    waiting,       \* the guest has stopped programming and waits
    timerOverlap   \* history: see Enter and UpdateIRQ

timerVars == <<load, current, isr, enabled, control, timerAsserted, timerLevel,
               timerAt, index, subtracted, waiting, timerOverlap>>
fields == <<load, current, isr, enabled, control>>

Line == INSTANCE ControllerLine WITH
          asserted <- timerAsserted, level <- timerLevel, at <- timerAt

TimerThreads == {"cpu", "tick"}
Other(t) == IF t = "cpu" THEN "tick" ELSE "cpu"
Reset == [one_shot |-> FALSE, size |-> FALSE, int_en |-> TRUE, mode |-> FALSE, enable |-> FALSE]

TimerInit ==
    /\ load = [i \in Timers |-> 0]
    /\ current = [i \in Timers |-> MaxValue]
    /\ isr = [i \in Timers |-> FALSE]
    /\ enabled = [i \in Timers |-> FALSE]
    /\ control = [i \in Timers |-> Reset]
    /\ timerAsserted = FALSE /\ timerLevel = FALSE
    /\ timerAt = [t \in TimerThreads |-> "free"]
    /\ index = [t \in TimerThreads |-> 1]
    /\ subtracted = 0
    /\ waiting = FALSE
    /\ timerOverlap = FALSE

Go(t, place) == timerAt' = [timerAt EXCEPT ![t] = place]
\* A thread starts an operation; the overlap with the other is remembered.
Enter(t, i, place) ==
    /\ timerAt[t] = "free"
    /\ Go(t, place)
    /\ index' = [index EXCEPT ![t] = i]
    /\ timerOverlap' = (timerOverlap \/ timerAt[Other(t)] # "free")

\* InitialisePeriod()
PeriodOf(i) ==
    IF control[i].mode THEN load[i]
    ELSE IF control[i].size THEN MaxValue ELSE Max16

-----------------------------------------------------------------------------
(* WriteRegister, on the CPU's thread.                                     *)

WriteLoad(i, data) ==
    /\ ~waiting /\ timerAt["cpu"] = "free"
    /\ load' = [load EXCEPT ![i] = data]
    /\ current' = [current EXCEPT ![i] = data]
    /\ UNCHANGED <<isr, enabled, control, timerAsserted, timerLevel, timerAt, index,
                   subtracted, waiting, timerOverlap>>

WriteBGLoad(i, data) ==
    /\ ~waiting /\ timerAt["cpu"] = "free"
    /\ load' = [load EXCEPT ![i] = data]
    /\ UNCHANGED <<current, isr, enabled, control, timerAsserted, timerLevel, timerAt, index,
                   subtracted, waiting, timerOverlap>>

WriteControl(i, data) ==
    /\ ~waiting /\ Enter("cpu", i, "changed")
    /\ control' = [control EXCEPT ![i] = data]
    /\ UNCHANGED <<load, current, isr, enabled, timerAsserted, timerLevel, subtracted, waiting>>

\* Update(): a timer that was off starts a period.
Update ==
    /\ timerAt["cpu"] = "changed"
    /\ LET i == index["cpu"]
       IN  /\ enabled' = [enabled EXCEPT ![i] = control[i].enable]
           /\ current' = IF control[i].enable /\ ~enabled[i]
                         THEN [current EXCEPT ![i] = PeriodOf(i)] ELSE current
    /\ Go("cpu", "update")
    /\ UNCHANGED <<load, isr, control, timerAsserted, timerLevel, index, subtracted, waiting, timerOverlap>>

\* Variant: clearing an expiry leaves the line as it was.
WriteIntClrQuietly(i) ==
    /\ ~waiting /\ timerAt["cpu"] = "free"
    /\ isr' = [isr EXCEPT ![i] = FALSE]
    /\ UNCHANGED <<load, current, enabled, control, timerAsserted, timerLevel, timerAt, index,
                   subtracted, waiting, timerOverlap>>

WriteIntClr(i) ==
    /\ ~waiting /\ Enter("cpu", i, "update")
    /\ isr' = [isr EXCEPT ![i] = FALSE]
    /\ UNCHANGED <<load, current, enabled, control, timerAsserted, timerLevel, subtracted, waiting>>

\* The guest has programmed its timers and waits for an interrupt.
Wait ==
    /\ ~waiting /\ timerAt["cpu"] = "free"
    /\ waiting' = TRUE
    /\ UNCHANGED <<fields, timerAsserted, timerLevel, timerAt, index, subtracted, timerOverlap>>

-----------------------------------------------------------------------------
(* Tick, on the tick source's thread: each enabled timer in turn.          *)

Tick ==
    /\ Enter("tick", 1, "timer")
    /\ UNCHANGED <<fields, timerAsserted, timerLevel, subtracted, waiting>>

\* tick()'s IsEnabled(), and the comparison of the counter.
TickTimer ==
    /\ timerAt["tick"] = "timer"
    /\ LET i == index["tick"]
       IN  /\ Go("tick", IF ~enabled[i] THEN "next"
                         ELSE IF current[i] <= TickLength THEN "expire" ELSE "subtract")
           /\ subtracted' = IF enabled[i] /\ current[i] > TickLength
                            THEN current[i] - TickLength ELSE 0
    /\ UNCHANGED <<fields, timerAsserted, timerLevel, index, waiting, timerOverlap>>

\* current_value -= ticks: the build may keep the counter it has compared in a
\* register, or read it again.
Subtract ==
    /\ timerAt["tick"] = "subtract"
    /\ LET i == index["tick"]
       IN  \E v \in {subtracted, (current[i] - TickLength) % (MaxValue + 1)} :
              current' = [current EXCEPT ![i] = v]
    /\ Go("tick", "next")
    /\ subtracted' = 0
    /\ UNCHANGED <<load, isr, enabled, control, timerAsserted, timerLevel, index, waiting, timerOverlap>>


\* isr |= 1, and UpdateIRQ() if the interrupt is enabled.
Expire ==
    /\ timerAt["tick"] = "expire"
    /\ LET i == index["tick"]
       IN  /\ isr' = [isr EXCEPT ![i] = TRUE]
           /\ Go("tick", IF control[i].int_en THEN "update" ELSE "period")
    /\ UNCHANGED <<load, current, enabled, control, timerAsserted, timerLevel,
                   index, subtracted, waiting, timerOverlap>>

\* InitialisePeriod(), for a one-shot timer too: it returns after this.
Restart ==
    /\ timerAt["tick"] = "period"
    /\ LET i == index["tick"] IN current' = [current EXCEPT ![i] = PeriodOf(i)]
    /\ Go("tick", "next")
    /\ UNCHANGED <<load, isr, enabled, control, timerAsserted, timerLevel,
                   index, subtracted, waiting, timerOverlap>>

NextTimer ==
    /\ timerAt["tick"] = "next"
    /\ IF index["tick"] + 1 \in Timers
       THEN index' = [index EXCEPT !["tick"] = @ + 1] /\ Go("tick", "timer")
       ELSE index' = [index EXCEPT !["tick"] = 1] /\ Go("tick", "free")
    /\ UNCHANGED <<fields, timerAsserted, timerLevel, subtracted, waiting, timerOverlap>>

-----------------------------------------------------------------------------
\* Variant: only the timer at hand is looked at.
UpdateIRQOfOne(t) ==
    /\ timerAt[t] = "update"
    /\ Go(t, IF isr[index[t]] /\ control[index[t]].int_en THEN "wantHigh" ELSE "wantLow")
    /\ timerOverlap' = (timerAt[Other(t)] # "free")
    /\ UNCHANGED <<fields, timerAsserted, timerLevel, index, subtracted, waiting>>

Pending == \E i \in Timers : isr[i] /\ control[i].int_en

\* UpdateIRQ() decides; the line's code follows.  A decision made with no other
\* thread in the timer makes up for earlier overlaps.
UpdateIRQ(t) ==
    /\ timerAt[t] = "update"
    /\ Go(t, IF Pending THEN "wantHigh" ELSE "wantLow")
    /\ timerOverlap' = (timerAt[Other(t)] # "free")
    /\ UNCHANGED <<fields, timerAsserted, timerLevel, index, subtracted, waiting>>

DriveLine(t) ==
    /\ Line!LineStep(t, IF t = "cpu" THEN "free" ELSE "period")
    /\ UNCHANGED <<fields, index, subtracted, waiting, timerOverlap>>

Program ==
    \E i \in Timers :
        \/ \E data \in LoadValues : WriteLoad(i, data) \/ WriteBGLoad(i, data)
        \/ \E data \in Controls : WriteControl(i, data)
        \/ WriteIntClr(i)

CpuStep == Update \/ UpdateIRQ("cpu") \/ DriveLine("cpu")
TickStep ==
    \/ Tick \/ TickTimer \/ Subtract \/ Expire \/ Restart \/ NextTimer
    \/ UpdateIRQ("tick") \/ DriveLine("tick")

TimerNext == Program \/ Wait \/ CpuStep \/ TickStep

\* The tick source's thread loops for ever, and a register write ends.
TimerFairness == WF_timerVars(TickStep) /\ WF_timerVars(CpuStep)
TimerSpec == TimerInit /\ [][TimerNext]_timerVars /\ TimerFairness

-----------------------------------------------------------------------------
\* When no thread is in the timer, its line's flag says whether a timer has an
\* expiry that is unmasked and not cleared, and then the controller has been
\* told: UpdateIRQ() is called wherever isr or int_en change.  Excepted is an
\* overlap of a tick and a register write after which UpdateIRQ() has not yet
\* run alone.  (That the controller's level falls with the flag cannot be said:
\* AssertLine of one thread between RescindLine and ClearAsserted of the other
\* leaves it high with the flag low, and no later UpdateIRQ() lowers it.)
TimerLineFollows ==
    (\A t \in TimerThreads : timerAt[t] = "free") /\ ~timerOverlap =>
        timerAsserted = Pending /\ (Pending => timerLevel)

=============================================================================
