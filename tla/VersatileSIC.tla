---------------------------- MODULE VersatileSIC ----------------------------
(***************************************************************************)
(* The secondary interrupt controller of the Versatile boards: devices     *)
(* drive its lines from their threads, the guest enables and disables      *)
(* them, and it drives one line of the primary controller.                 *)
(***************************************************************************)
EXTENDS Integers

CONSTANTS
    SicLines,    \* nr_lines (32)
    SicDevices   \* the threads of the devices

VARIABLES
    lines,       \* the set of lines that are high
    sicEnable,   \* SIC_ENABLE, as a set
    parentAsserted, parentLevel,   \* the line to the primary controller
    sicAt,
    sicStale     \* history: SIC_ENABLE has been written, or two devices have
                 \* been in the controller at once, since an operation that
                 \* began alone

sicVars == <<lines, sicEnable, parentAsserted, parentLevel, sicAt, sicStale>>

Parent == INSTANCE ControllerLine WITH
            asserted <- parentAsserted, level <- parentLevel, at <- sicAt

Alone(t) == \A u \in SicDevices \ {t} : sicAt[u] = "free"

SicInit ==
    /\ lines = {} /\ sicEnable = {}
    /\ parentAsserted = FALSE /\ parentLevel = FALSE
    /\ sicAt = [t \in SicDevices |-> "free"]
    /\ sicStale = FALSE

\* AssertLine and RescindLine
SicAssert(t, l) ==
    /\ sicAt[t] = "free"
    /\ lines' = lines \cup {l}
    /\ sicAt' = [sicAt EXCEPT ![t] = "update"]
    /\ sicStale' = ~Alone(t)
    /\ UNCHANGED <<sicEnable, parentAsserted, parentLevel>>

SicRescind(t, l) ==
    /\ sicAt[t] = "free"
    /\ lines' = lines \ {l}
    /\ sicAt' = [sicAt EXCEPT ![t] = "update"]
    /\ sicStale' = ~Alone(t)
    /\ UNCHANGED <<sicEnable, parentAsserted, parentLevel>>

\* Variant: the lines are reported whether or not they are enabled.
UpdateParentRaw(t) ==
    /\ sicAt[t] = "update"
    /\ sicAt' = [sicAt EXCEPT ![t] = IF lines # {} THEN "wantHigh" ELSE "wantLow"]
    /\ UNCHANGED <<lines, sicEnable, parentAsserted, parentLevel, sicStale>>

\* UpdateParentState() decides; the line's code follows.
UpdateParentState(t) ==
    /\ sicAt[t] = "update"
    /\ sicAt' = [sicAt EXCEPT ![t] = IF lines \cap sicEnable # {} THEN "wantHigh" ELSE "wantLow"]
    /\ UNCHANGED <<lines, sicEnable, parentAsserted, parentLevel, sicStale>>

DriveParent(t) ==
    /\ Parent!LineStep(t, "free")
    /\ UNCHANGED <<lines, sicEnable, sicStale>>

\* WriteRegister: SIC_ENABLE sets bits and SIC_ENCLR clears them; neither
\* calls UpdateParentState().
WriteSicEnable(data) ==
    /\ sicEnable' \in {sicEnable \cup data, sicEnable \ data}
    /\ sicStale' = TRUE
    /\ UNCHANGED <<lines, parentAsserted, parentLevel, sicAt>>

SicNext ==
    \/ \E t \in SicDevices :
          \/ \E l \in SicLines : SicAssert(t, l) \/ SicRescind(t, l)
          \/ UpdateParentState(t)
          \/ DriveParent(t)
    \/ \E data \in SUBSET SicLines : WriteSicEnable(data)

SicSpec == SicInit /\ [][SicNext]_sicVars

-----------------------------------------------------------------------------
\* The line to the primary controller is high whenever an enabled line is, and
\* its flag is low otherwise, once UpdateParentState() has run alone since the
\* guest last wrote the enable register (which does not update the parent: a
\* line enabled while high stays unseen until some line changes).
ParentFollowsLines ==
    (\A t \in SicDevices : sicAt[t] = "free") /\ ~sicStale =>
        LET high == lines \cap sicEnable # {}
        IN  parentAsserted = high /\ (high => parentLevel)
=============================================================================
