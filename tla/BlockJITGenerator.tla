------------------------- MODULE BlockJITGenerator -------------------------
(***************************************************************************)
(* From guest instructions to IR: the code that JitGenerator generates     *)
(* from the SSA form of each instruction, run at translation time, and the *)
(* loop of BlockJitTranslate that translates one instruction after another. *)
(*                                                                         *)
(* A statement that is fixed is evaluated when the instruction is          *)
(* translated; otherwise instructions are emitted for it.  Blocks of the   *)
(* action whose control flow is fixed are walked with gotos; the others    *)
(* become blocks of the IR, emitted from a queue.                          *)
(*                                                                         *)
(* Tracing, profiling, chaining by dispatch (which never finds a           *)
(* translation) and changes of ISA mode are left out.                      *)
(***************************************************************************)
EXTENDS BlockIR, SSAPasses

\* The builder: the buffer, the current block, and how many blocks and virtual
\* registers are allocated.
NewBuilder == [ir |-> <<>>, b |-> 0, blocks |-> 1, regs |-> 0]

Emit(builder, t, o) == [builder EXCEPT !.ir = Append(@, Insn(t, builder.b, o))]

-----------------------------------------------------------------------------
(* Emission of one action.  e has the builder, the action and its          *)
(* fixedness; where its blocks and registers begin; its exit block and     *)
(* __result; the values known at translation time; the queue of dynamic    *)
(* blocks; and where a goto led (0: fixed_done).                           *)

SymbolReg(e, symbol) == VReg(e.reg0 - symbol, Word)
StatementReg(e, s) == VReg(e.reg0 + 4 + s.id, s.w)
BlockIndex(e, b) == e.block0 + b - 1

IsFixedIn(e, id) == \E b \in DOMAIN e.action : id \in e.fixedness[b].fixed

\* operand_for_node.  Reading a variable emits nothing: its register stands for
\* the statement wherever that is used.
OperandFor(e, id) ==
    LET s == Statement(e.action, id)
    IN  IF IsFixedIn(e, id) THEN Const(e.cv[id], s.w)
        ELSE IF s.op = "readvar" THEN SymbolReg(e, s.n)
        ELSE StatementReg(e, s)

Out(e, t, o) == [e EXCEPT !.builder = Emit(@, t, o)]

\* The walkers' EmitFixedCode of what only computes, and of a variable write.
EmitFixedValue(e, s) == [e EXCEPT !.cv = Put(@, s.id, Value(s, e.cv, e.cv))]

EmitFixedWrite(e, b, i) ==
    LET s == e.action[b][i]
        known == [e EXCEPT !.cv = Put(@, s.n, Wrap(e.cv[s.args[1]], Word))]
    IN  IF HasDynamicDominatedReads(e.action, b, i, e.fixedness)
        THEN Out(known, "MOV", <<OperandFor(e, s.args[1]), SymbolReg(e, s.n)>>)
        ELSE known

\* CreateBlock and a jump to it; gotos end at fixed_done.
JumpTo(e, b) ==
    Out([e EXCEPT !.queue = Append(@, b), !.goto = 0], "JMP", <<Block(BlockIndex(e, b))>>)

\* A control transfer that is known, from a block with control flow that is
\* fixed, or not.
Goto(e, b, fully_fixed) ==
    IF fully_fixed /\ e.fixedness[b].constness = "always" THEN [e EXCEPT !.goto = b]
    ELSE JumpTo(e, b)

EmitReturn(e, s, fully_fixed) ==
    IF ~fully_fixed THEN Out(e, "JMP", <<Block(e.exit)>>)
    ELSE IF s.args = <<>> THEN [e EXCEPT !.goto = 0]
    ELSE Out([e EXCEPT !.goto = 0], "MOV",
             <<OperandFor(e, s.args[1]), VReg(e.result, 1)>>)

(* EmitDynamicCode of the walkers.                                         *)

Arg(e, s, i) == OperandFor(e, s.args[i])

EmitBinary(e, s) ==
    LET reg == StatementReg(e, s)
    IN  IF s.op \in Comparisons
        THEN Out(e, Comparison[s.op], <<Arg(e, s, 1), Arg(e, s, 2), reg>>)
        ELSE Out(Out(e, "MOV", <<Arg(e, s, 1), reg>>), Opcode[s.op], <<Arg(e, s, 2), reg>>)

EmitUnary(e, s) ==
    LET reg == StatementReg(e, s)
        tmp == VReg(e.reg0 + 24 + s.id, 1)
        zero == Const(0, s.w)
    IN  CASE s.op = "complement" ->
                Out(Out(e, "MOV", <<Arg(e, s, 1), reg>>), "XOR",
                    <<Const(Wrap(-1, s.w), s.w), reg>>)
          [] s.op = "negate" /\ s.w = 1 -> Out(e, "CMPEQ", <<Arg(e, s, 1), zero, reg>>)
          [] s.op = "negate" /\ s.w > 1 ->
                Out(Out(e, "CMPEQ", <<Arg(e, s, 1), zero, tmp>>), "ZX", <<tmp, reg>>)

\* A MOV to a place of another size.
Resize(from, to) == IF to < from THEN "TRUNC" ELSE IF to = from THEN "MOV" ELSE "ZX"

EmitCast(e, s) ==
    Out(e, Resize(Arg(e, s, 1).w, s.w), <<Arg(e, s, 1), StatementReg(e, s)>>)

EmitSelect(e, s) ==
    LET reg == StatementReg(e, s)
        taken == IF e.cv[s.args[1]] # 0 THEN 2 ELSE 3
    IN  IF IsFixedIn(e, s.args[1]) THEN Out(e, "MOV", <<Arg(e, s, taken), reg>>)
        ELSE Out(Out(e, "MOV", <<Arg(e, s, 3), reg>>), "CMOV",
                 <<Arg(e, s, 1), Arg(e, s, 2), reg>>)

EmitRegisterRead(e, s) == Out(e, "READ_REG", <<Const(s.n, 4), StatementReg(e, s)>>)

\* The front end has cast the value to the type of the register.
EmitRegisterWrite(e, s) == Out(e, "WRITE_REG", <<Arg(e, s, 1), Const(s.n, 4)>>)

EmitMemoryRead(e, s) ==
    Out(e, "READ_MEM", <<Const(0, 4), Arg(e, s, 1), Const(0, 4), SymbolReg(e, s.n)>>)

EmitMemoryWrite(e, s) ==
    Out(e, "WRITE_MEM", <<Const(0, 4), Arg(e, s, 2), Const(0, 4), Arg(e, s, 1)>>)

EmitDeviceRead(e, s) ==
    Out(e, "READ_DEVICE", <<Const(0, 4), Arg(e, s, 1), SymbolReg(e, s.n)>>)

EmitVariableWrite(e, s) ==
    Out(e, Resize(Arg(e, s, 1).w, Word), <<Arg(e, s, 1), SymbolReg(e, s.n)>>)

EmitIf(e, s) ==
    Out([e EXCEPT !.queue = @ \o s.to, !.goto = 0], "BRANCH",
        <<Arg(e, s, 1), Block(BlockIndex(e, s.to[1])), Block(BlockIndex(e, s.to[2]))>>)

EmitDynamic(e, s) ==
    CASE s.op \in Binaries -> EmitBinary(e, s)
      [] s.op \in Unaries -> EmitUnary(e, s)
      [] s.op = "cast" -> EmitCast(e, s)
      [] s.op = "select" -> EmitSelect(e, s)
      [] s.op = "readreg" -> EmitRegisterRead(e, s)
      [] s.op = "writereg" -> EmitRegisterWrite(e, s)
      [] s.op = "readmem" -> EmitMemoryRead(e, s)
      [] s.op = "writemem" -> EmitMemoryWrite(e, s)
      [] s.op = "readdev" -> EmitDeviceRead(e, s)
      [] s.op = "writevar" -> EmitVariableWrite(e, s)
      [] s.op = "if" -> EmitIf(e, s)
      [] s.op = "readvar" -> e

EmitStatement(e, b, i, fully_fixed) ==
    LET s == e.action[b][i]
        fixed == s.id \in e.fixedness[b].fixed
    IN  CASE s.op = "return" -> EmitReturn(e, s, fully_fixed)
          [] s.op = "jump" -> Goto(e, s.to[1], fully_fixed)
          [] s.op = "if" /\ fixed ->
                Goto(e, s.to[IF e.cv[s.args[1]] # 0 THEN 1 ELSE 2], TRUE)
          [] s.op = "writevar" /\ fixed -> EmitFixedWrite(e, b, i)
          [] fixed /\ s.op \notin {"writereg", "writemem", "if", "writevar", "jump", "return"} ->
                EmitFixedValue(e, s)
          [] OTHER -> EmitDynamic(e, s)

EmitStatements(e, b, fully_fixed) ==
    LET Step(so_far, i) == EmitStatement(so_far, b, i, fully_fixed)
    IN  Through(Step, e, Len(e.action[b]))

RECURSIVE WalkFixed(_)
WalkFixed(e) == IF e.goto = 0 THEN e ELSE WalkFixed(EmitStatements(e, e.goto, TRUE))

RECURSIVE DrainQueue(_, _)
DrainQueue(e, emitted) ==
    IF e.queue = <<>> THEN e
    ELSE LET b == Head(e.queue)
             popped == [e EXCEPT !.queue = Tail(@)]
         IN  IF b \in emitted THEN DrainQueue(popped, emitted)
             ELSE DrainQueue(
                    EmitStatements([popped EXCEPT !.builder.b = BlockIndex(e, b)], b, FALSE),
                    emitted \cup {b})

\* Nothing is queued when the fixed blocks run to the end.
EmitQueued(e) ==
    IF e.queue = <<>> THEN Out(e, "JMP", <<Block(e.exit)>>) ELSE DrainQueue(e, {})

\* EmitJITFunction, with registers for the symbols, the statements and __result.
EmitJITFunction(builder, action, exit, result) ==
    [EmitQueued(WalkFixed(
        [builder |-> [builder EXCEPT !.blocks = @ + Max(DOMAIN action), !.regs = @ + 48],
         action |-> action, fixedness |-> Fixedness(action),
         block0 |-> builder.blocks, reg0 |-> builder.regs,
         exit |-> exit, result |-> result, cv |-> <<>>, queue |-> <<>>, goto |-> 1])).builder
     EXCEPT !.b = exit]

-----------------------------------------------------------------------------
(* translate_<instruction>: RegisterJITFunction.                           *)

AllocBlock(builder) == [builder EXCEPT !.blocks = @ + 1]

IncrementPC(builder) == Emit(builder, "INCPC", <<Const(1, 4)>>)

\* The branch on a predicate's result, after which the taken block is the current
\* one: <<builder, exit block>>.
BranchOnPredicate(builder, result, taken, endOfBlock) ==
    LET fresh == builder.blocks
        branched(n) == Emit([builder EXCEPT !.blocks = @ + n], "BRANCH",
                            <<VReg(result, 1), Block(taken), Block(fresh)>>)
        skipped == IncrementPC([branched(2) EXCEPT !.b = fresh])
    IN  IF endOfBlock
        THEN <<[Emit(skipped, "JMP", <<Block(fresh + 1)>>) EXCEPT !.b = taken], fresh + 1>>
        ELSE <<[branched(1) EXCEPT !.b = taken], fresh>>

EmitPredicate(builder, insn) ==
    BranchOnPredicate(
        EmitJITFunction([builder EXCEPT !.blocks = @ + 2, !.regs = @ + 1],
                        insn.predicate, builder.blocks + 1, builder.regs),
        builder.regs, builder.blocks, insn.endOfBlock)

\* The action, from <<builder, exit block>>.
EmitAction(start, insn) == EmitJITFunction(start[1], insn.action, start[2], 0)

Advanced(builder, insn) == IF insn.endOfBlock THEN builder ELSE IncrementPC(builder)

TranslateInstruction(builder, insn) ==
    Advanced(EmitAction(IF insn.predicate # <<>> THEN EmitPredicate(builder, insn)
                        ELSE <<AllocBlock(builder), builder.blocks>>, insn), insn)

\* emit_block: the instructions of a page (the whole program), up to the end of
\* a block, and past it when a jump can be merged; <<builder, instructions>>.
CanMergeJump(insn) == insn.predicate = <<>> /\ insn.jump # "indirect"

RECURSIVE EmitBlock(_, _, _, _, _)
EmitBlock(builder, program, pc, heads, count) ==
    IF pc \notin 0..(Len(program) - 1) THEN <<Emit(builder, "RET", <<>>), count>>
    ELSE LET insn == program[pc + 1]
             target == Wrap(pc + insn.offset, Word)
             merged == CanMergeJump(insn) /\ target < Len(program) /\ target \notin heads
             next == IF ~insn.endOfBlock THEN pc + 1
                     ELSE IF merged THEN target ELSE Len(program)
         IN  EmitBlock(TranslateInstruction(builder, insn), program, next,
                       IF insn.endOfBlock THEN heads \cup {target} ELSE heads, count + 1)

BuildBlock(program) == EmitBlock(NewBuilder, program, 0, {0}, 0)
=============================================================================
