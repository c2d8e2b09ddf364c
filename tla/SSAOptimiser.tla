--------------------------- MODULE SSAOptimiser ---------------------------
(***************************************************************************)
(* The pass manager at work on one action: SSAContext::Optimise, one run   *)
(* of a pass per step.                                                     *)
(***************************************************************************)
EXTENDS SSAPasses

CONSTANTS
    Actions,    \* the actions, as they come from the front end
    Machines    \* the machines they are run on

VARIABLES
    source,     \* the action
    action,     \* what it has become
    pass,       \* the pass of O3 to run
    changed     \* whether one has changed the action in this round

vars == <<source, action, pass, changed>>

Init ==
    /\ source \in Actions /\ action = source
    /\ pass = 1 /\ changed = FALSE

\* A pass is run again for as long as it changes something.
RunPass ==
    /\ pass <= O3
    /\ action' = Apply(pass, action)
    /\ changed' = (changed \/ action' # action)
    /\ pass' = IF action' = action THEN pass + 1 ELSE pass
    /\ UNCHANGED source

\* And all of them for as long as one did.
NextRound ==
    /\ pass > O3 /\ changed
    /\ pass' = 1 /\ changed' = FALSE
    /\ UNCHANGED <<source, action>>

Next == RunPass \/ NextRound

Spec == Init /\ [][Next]_vars

-----------------------------------------------------------------------------
Effect(a, m) ==
    LET st == ExecuteAction(a, [rf |-> m.rf, log |-> <<>>])
    IN  <<st.machine, st.result>>

\* Every run of every pass leaves an action that does what its source does: the
\* registers, the accesses and their order, and the result.
ActionKept == \A m \in Machines : Effect(action, m) = Effect(source, m)

\* What is left to do in an action: a statement counts, more if it might become a
\* constant, and a transfer with how far back its targets are.
Work(a) ==
    LET last == Max(DOMAIN source) + 1
        back(s) == MapThenSumSet(LAMBDA i : last - s.to[i], DOMAIN s.to)
        weight(s) == back(s) + IF s.op \in {"const", "field"} THEN 1 ELSE 2
    IN  MapThenSumSet(weight, Statements(a))

=============================================================================
