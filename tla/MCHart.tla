------------------------------- MODULE MCHart -------------------------------
(***************************************************************************)
(* Instances for TLC of two things a core depends on: the interrupt        *)
(* registers of a RISC-V hart, and the caches that hold the code it runs.  *)
(* Each is checked by itself: `part', chosen at the start, says which one  *)
(* runs; the other rests.                                                 *)
(***************************************************************************)
EXTENDS RiscVCoprocessor, CodeCaches

VARIABLE part

OneDevice == {"ticks"}

Program(blocks, spaces, n, f) ==
    [blocks |-> blocks, spaces |-> spaces, stores |-> n, features |-> f]

\* A page that moves, and one that comes and goes; a page with two addresses; two
\* blocks in a page; and the pages of a user program.
BlockPrograms ==
    {Program({<<1, 1>>}, {<<1, 0>>, <<2, 0>>}, 1, FALSE),
     Program({<<1, 1>>}, {<<1, 0>>, <<0, 0>>}, 2, FALSE),
     Program({<<1, 1>>, <<2, 1>>}, {<<1, 1>>}, 1, TRUE),
     Program({<<1, 1>>, <<1, 2>>}, {<<1, 0>>}, 2, FALSE),
     Program({<<1, 1>>, <<2, 1>>}, {<<1, 2>>}, 1, FALSE)}

\* A core that runs no block.
Resting ==
    /\ BlocksInit
    /\ engine = "Interpreter" /\ platform = "riscv" /\ memory = "base" /\ ~aggressive
    /\ program = Program({<<1, 1>>, <<1, 2>>}, {<<1, 0>>}, 2, FALSE)

HartInit ==
    /\ Init
    /\ \/ part = "blocks" /\ BlocksInit /\ ie = {}
       \/ part = "interrupts" /\ Resting

HartNext ==
    \/ part = "blocks" /\ BlocksNext /\ UNCHANGED <<part, vars>>
    \/ part = "interrupts" /\ Next /\ UNCHANGED <<part, blockVars>>

\* The fairness of the hart's threads, as its module states it.
HartSpec ==
    /\ HartInit /\ [][HartNext]_<<part, vars, blockVars>>
    /\ \A t \in Threads : WF_vars(part = "interrupts" /\ Check(t))

=============================================================================
