----------------------------- MODULE MCGuestCPU -----------------------------
(***************************************************************************)
(* Instances for TLC of what a guest CPU does: its instructions, from the  *)
(* optimiser of their behaviours (part "optimiser") to the block JIT       *)
(* ("compiler"), and the interrupts that reach it ("interrupts").  Each is *)
(* checked by itself: `part', chosen at the start, says which one runs,    *)
(* and the others rest in one of their initial states.                     *)
(***************************************************************************)
EXTENDS CPUInterrupts, GuestPrograms

VARIABLES
    part,
    source, action, pass, changed,
    program, meant, ir, stage, flaws

OneOther == {"device"}

Optimiser == INSTANCE SSAOptimiser
                WITH Actions <- SampleActions, Machines <- SampleMachines
Compiler == INSTANCE BlockCompiler
                WITH Programs <- SamplePrograms, Machines <- SampleMachines,
                     NumAllocable <- 2

optimiser == <<source, action, pass, changed>>
compiler == <<program, meant, ir, stage, flaws>>
cpuVars == <<part, vars, optimiser, compiler>>

NoAction == source = <<>> /\ action = <<>> /\ pass = 0 /\ changed = FALSE
NoProgram == program = <<>> /\ meant = <<>> /\ ir = <<>> /\ stage = 0 /\ flaws = {}

CPUInit ==
    /\ Init
    /\ \/ part = "interrupts" /\ NoAction /\ NoProgram
       \/ part = "optimiser" /\ Optimiser!Init /\ NoProgram
       \/ part = "compiler" /\ Compiler!Init /\ NoAction

\* A compilation or an optimisation that is done.
Done ==
    /\ \/ part = "optimiser" /\ pass > Optimiser!O3 /\ ~changed
       \/ part = "compiler" /\ stage = 13
    /\ UNCHANGED cpuVars

CPUNext ==
    \/ part = "interrupts" /\ Next /\ UNCHANGED <<part, optimiser, compiler>>
    \/ part = "optimiser" /\ Optimiser!Next /\ UNCHANGED <<part, vars, compiler>>
    \/ part = "compiler" /\ Compiler!Next /\ UNCHANGED <<part, vars, optimiser>>
    \/ Done

\* The fairness of CPUInterrupts, while it runs.
CPUFairness ==
    /\ WF_vars(part = "interrupts" /\ HartStep)
    /\ SF_vars(part = "interrupts" /\ Block)
    /\ \A t \in Others : WF_vars(part = "interrupts" /\ LineStep(t))

CPUSpec == CPUInit /\ [][CPUNext]_cpuVars /\ CPUFairness

-----------------------------------------------------------------------------
\* Each pass of the optimiser leaves an action that does what its source does.
ActionKept == part = "optimiser" => Optimiser!ActionKept


\* A translated block does what the interpreter does, after each pass.
MeaningKept == part = "compiler" => Compiler!MeaningKept
=============================================================================
