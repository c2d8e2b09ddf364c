--------------------------- MODULE BlockCompiler ---------------------------
(***************************************************************************)
(* The block JIT's compiler: the passes that BlockCompiler::compile        *)
(* applies, in its order, to the IR of a translated block, up to the       *)
(* buffer that is lowered to host code.                                    *)
(*                                                                         *)
(* A behaviour picks a guest program, builds its block and then takes one  *)
(* pass after another.  flaws records where the code is known to change    *)
(* the meaning of a block:                                                 *)
(*   deferred    a variable is read, then written, and then the value read *)
(*               is used: the use names the variable's register            *)
(*   hoisted     MOV elimination moves a write of the MOV's destination    *)
(*               over another use of the destination                       *)
(*   crossed     a register write is removed because of a write in another *)
(*               block that is next to it in the unsorted buffer           *)
(*   dropped     a guest access whose result is not used is removed        *)
(*   double free a host register is put twice on the list of free ones     *)
(***************************************************************************)
EXTENDS BlockJITGenerator

CONSTANTS
    Programs,   \* the guest programs: sequences of instructions
    Machines    \* the machines they are run on: register file, empty log, junk

VARIABLES
    program,    \* the guest program of the block
    meant,      \* the machine the interpreter leaves, for each machine
    ir,         \* the buffer
    stage,      \* the passes applied
    flaws       \* what is known to be wrong with the block

vars == <<program, meant, ir, stage, flaws>>

Targeted(insn) ==
    CASE insn.t = "JMP" -> {insn.o[1].n}
      [] insn.t = "BRANCH" -> {insn.o[2].n, insn.o[3].n}
      [] OTHER -> {}

Retarget(insn, new(_)) ==
    CASE insn.t = "JMP" -> [insn EXCEPT !.o[1].n = new(@)]
      [] insn.t = "BRANCH" -> [insn EXCEPT !.o[2].n = new(@), !.o[3].n = new(@)]
      [] OTHER -> insn

\* SortIRTransform: stable, by block, NOPs last.
RECURSIVE SortFrom(_, _)
SortFrom(buffer, blocks) ==
    IF blocks = {} THEN <<>>
    ELSE LET b == Min(blocks)
             In(i) == i.b = b
         IN  SelectSeq(buffer, In) \o SortFrom(buffer, blocks \ {b})

Sort(buffer) == SortFrom(buffer, Blocks(buffer) \cup {NOP_BLOCK})

-----------------------------------------------------------------------------
(* Passes over blocks.                                                     *)

\* ReorderBlocks numbers the blocks by their longest path from the entry; blocks
\* of equal depth are ordered as std::sort leaves them, one way or the other.
ReorderBlocks(buffer, up) ==
    LET blocks == {0} \cup UNION {Targeted(buffer[i]) : i \in DOMAIN buffer}
        succs == [b \in blocks |->
                    UNION {Targeted(buffer[i]) : i \in {j \in DOMAIN buffer : buffer[j].b = b}}]
        depth[b \in blocks] ==
            LET preds == {p \in blocks : b \in succs[p]}
            IN  IF preds = {} THEN 0 ELSE 1 + Max({depth[p] : p \in preds})
        before(a, b) == \/ depth[a] < depth[b]
                        \/ depth[a] = depth[b] /\ IF up THEN a < b ELSE b < a
        reordering(b) == IF b \notin blocks THEN NOP_BLOCK
                         ELSE Cardinality({a \in blocks : before(a, b)})
    IN  [i \in DOMAIN buffer |->
            [Retarget(buffer[i], reordering) EXCEPT !.b = reordering(@)]]

\* ThreadJumps.  The last run of instructions in the buffer ends no block.
ThreadJumps(buffer) ==
    LET starts == {i \in DOMAIN buffer : i = 1 \/ buffer[i - 1].b # buffer[i].b}
        First(b) == Max({i \in starts : buffer[i].b = b})
        lasts == {i \in DOMAIN buffer : i + 1 \in starts}
        Thread(now, b) ==
            LET ends == {i \in lasts : buffer[i].b = b - 1}
                follow[n \in DOMAIN buffer] ==
                    IF now[n].t = "JMP" THEN follow[First(now[n].o[1].n)] ELSE n
                goal(t) == follow[First(t)]
                threaded(insn) ==
                    LET to(t) == now[goal(t)].b IN Retarget(insn, to)
                src == Max(ends)
                target == now[goal(now[src].o[1].n)]
            IN  IF ends = {} THEN now
                ELSE CASE now[src].t = "BRANCH" -> [now EXCEPT ![src] = threaded(@)]
                       [] now[src].t = "JMP" /\ target.t = "BRANCH" ->
                            [now EXCEPT ![src] = threaded([target EXCEPT !.b = b - 1])]
                       [] now[src].t = "JMP" /\ target.t \notin {"BRANCH", "RET"} ->
                            [now EXCEPT ![src].o[1].n = target.b]
                       [] OTHER -> now
    IN  Through(Thread, buffer, 1 + Max(Blocks(buffer)))

DeadBlockElimination(buffer) ==
    LET live == {0} \cup UNION {Targeted(buffer[i]) : i \in DOMAIN buffer}
    IN  [i \in DOMAIN buffer |-> IF buffer[i].b \in live THEN buffer[i] ELSE Nop]

\* MergeBlocks: a block that ends in a jump takes in the block it jumps to when
\* no other block does, the last in the work list first.
MergeInto(buffer, from, into) ==
    LET jmp == Min({i \in DOMAIN buffer : buffer[i].b = into /\ buffer[i].t = "JMP"})
    IN  [i \in DOMAIN buffer |->
            IF i = jmp THEN Nop
            ELSE IF i > jmp /\ buffer[i].b = from THEN [buffer[i] EXCEPT !.b = into]
            ELSE buffer[i]]

RECURSIVE MergeList(_, _, _, _)
MergeList(buffer, work, succs, preds) ==
    IF work = <<>> THEN buffer
    ELSE LET b == work[Len(work)]
             rest == SubSeq(work, 1, Len(work) - 1)
             s == succs[b]
         IN  IF preds[s] # 1 \/ s < b THEN MergeList(buffer, rest, succs, preds)
             ELSE MergeList(MergeInto(buffer, s, b),
                            IF succs[s] = NOP_BLOCK THEN rest ELSE Append(rest, b),
                            [succs EXCEPT ![b] = succs[s]], preds)

MergeBlocks(unsorted) ==
    LET buffer == Sort(unsorted)
        IsJmp(i) == i.t = "JMP"
        jumps == SelectSeq(buffer, IsJmp)
        blocks == Blocks(buffer)
        succs == [b \in blocks |->
                    IF \E i \in DOMAIN jumps : jumps[i].b = b
                    THEN jumps[Max({i \in DOMAIN jumps : jumps[i].b = b})].o[1].n
                    ELSE NOP_BLOCK]
        preds == [b \in blocks |->
                    Cardinality({x \in (DOMAIN buffer) \X (1..3) :
                        /\ x[2] \in DOMAIN buffer[x[1]].o
                        /\ buffer[x[1]].o[x[2]].k = "block"
                        /\ buffer[x[1]].o[x[2]].n = b})]
    IN  MergeList(buffer, [i \in DOMAIN jumps |-> jumps[i].b], succs, preds)

-----------------------------------------------------------------------------
(* Passes over instructions before registers are allocated.                *)

\* PeepholeTransform: additions of nothing go, an addition of a negative constant
\* becomes a subtraction, a shift of all bits a MOV of 0, and increments of the pc
\* are merged unless something between them could see the pc.
PeepholeArith(insn) ==
    LET c == insn.o[1]
        half == 2^(c.w * ByteBits - 1)
    IN  IF ~IsConst(c) \/ insn.t = "AND" THEN insn
        ELSE IF c.n = 0 THEN Nop
        ELSE IF insn.t \in {"SHL", "SHR"} /\ c.n = insn.o[2].w * ByteBits
        THEN [insn EXCEPT !.t = "MOV", !.o[1].n = 0]
        ELSE IF insn.t = "ADD" /\ c.n >= half
        THEN [insn EXCEPT !.t = "SUB", !.o[1].n = 2 * half - c.n]
        ELSE insn

\* Variant: increments of the pc are merged over an access to memory.
SeesPCReadsOnly(insn) ==
    insn.t = "RET" \/ (insn.t = "READ_REG" /\ insn.o[1].n = PC)

SeesPC(insn) ==
    \/ insn.t \in {"RET", "READ_MEM", "WRITE_MEM", "READ_DEVICE"}
    \/ insn.t = "READ_REG" /\ insn.o[1].n = PC

Peephole(buffer) ==
    LET Step(p, i) ==
            LET insn == p.ir[i]
                prev == IF insn.b = p.b THEN p.inc ELSE 0
            IN  IF insn.b = NOP_BLOCK THEN p
                ELSE CASE insn.t \in Arith ->
                            [p EXCEPT !.ir[i] = PeepholeArith(insn), !.b = insn.b, !.inc = prev]
                       [] insn.t = "INCPC" ->
                            [ir |-> IF prev = 0 THEN p.ir
                                    ELSE [p.ir EXCEPT ![i].o[1].n = @ + p.ir[prev].o[1].n,
                                                      ![prev] = Nop],
                             b |-> insn.b, inc |-> i]
                       [] SeesPC(insn) -> [p EXCEPT !.b = insn.b, !.inc = 0]
                       [] OTHER -> [p EXCEPT !.b = insn.b, !.inc = prev]
    IN  Through(Step, [ir |-> buffer, b |-> NOP_BLOCK, inc |-> 0], Len(buffer)).ir

\* RegStoreElimination.  writes has the last write of each offset, with its size
\* and offset the wrong way round as the constructor's caller has them; insert
\* leaves an entry that is there.
ClearPreviousWrites(writes, offset, size) ==
    LET kept == {x \in DOMAIN writes :
                    ~(x <= offset + size \/ x + writes[x].size <= offset)}
    IN  [x \in kept |-> writes[x]]

RegStoreElimination(buffer) ==
    LET Step(p, i) ==
            LET insn == p.ir[i]
                offset == insn.o[2].n
                size == insn.o[1].w
                gone == {x \in DOMAIN p.writes :
                            p.writes[x].offset = offset /\ p.writes[x].size = size}
                left == [x \in DOMAIN p.writes \ gone |-> p.writes[x]]
                removed == {p.writes[x].at : x \in gone}
            IN  CASE insn.t \in {"JMP", "BRANCH", "RET", "READ_MEM", "WRITE_MEM", "INCPC",
                                 "READ_DEVICE"} -> [p EXCEPT !.writes = <<>>]
                  [] insn.t = "READ_REG" ->
                        [p EXCEPT !.writes = ClearPreviousWrites(@, insn.o[1].n, insn.o[2].w)]
                  [] insn.t = "WRITE_REG" ->
                        [ir |-> [j \in DOMAIN p.ir |-> IF j \in removed THEN Nop ELSE p.ir[j]],
                         writes |-> IF offset \in DOMAIN left THEN left
                                    ELSE Put(left, offset, [size |-> offset, offset |-> size,
                                                            at |-> i]),
                         crossed |-> p.crossed \/ \E j \in removed : p.ir[j].b # insn.b]
                  [] OTHER -> p
    IN  Through(Step, [ir |-> buffer, writes |-> <<>>, crossed |-> FALSE], Len(buffer))

\* ValueRenumbering: virtual registers are numbered in the order of their uses.
MapRegs(buffer, new(_)) ==
    [i \in DOMAIN buffer |->
        [buffer[i] EXCEPT !.o = [x \in DOMAIN @ |->
            IF IsVReg(@[x]) THEN [@[x] EXCEPT !.n = new(@)] ELSE @[x]]]]

Regs(insn) == {insn.o[x].n : x \in {y \in DOMAIN insn.o : IsVReg(insn.o[y])}}

\* The uses of a virtual register in a buffer: pairs of an index and an operand.
Uses(buffer, r) ==
    UNION {{<<i, x>> : x \in {y \in DOMAIN buffer[i].o :
                                IsVReg(buffer[i].o[y]) /\ buffer[i].o[y].n = r}} :
           i \in {j \in DOMAIN buffer : r \in Regs(buffer[j])}}

ValueRenumbering(buffer) ==
    LET regs == UNION {Regs(buffer[i]) : i \in DOMAIN buffer}
        first == [r \in regs |-> Min({10 * u[1] + u[2] : u \in Uses(buffer, r)})]
        new(r) == Cardinality({q \in regs : first[q] < first[r]})
    IN  MapRegs(buffer, new)

\* MovElimination: a register with one write, and one read by a MOV, is replaced
\* by the MOV's destination, which is then written where the register was.
MovElimination(buffer) ==
    LET regs == UNION {Regs(buffer[i]) : i \in DOMAIN buffer}
        Writers(r) == {u \in Uses(buffer, r) : u[2] \in Outs(buffer[u[1]])}
        Readers(r) == {u \in Uses(buffer, r) : u[2] \in Ins(buffer[u[1]])}
        movs(r) == {u \in Readers(r) : buffer[u[1]].t = "MOV"}
        candidates == {r \in regs : /\ Cardinality(Writers(r)) = 1
                                    /\ Cardinality(Readers(r)) = 1
                                    /\ movs(r) # {}}
        mov == [r \in candidates |-> (CHOOSE u \in movs(r) : TRUE)[1]]
        def == [r \in candidates |-> (CHOOSE u \in Writers(r) : TRUE)[1]]
        replacement[r \in regs] ==
            IF r \in candidates THEN replacement[buffer[mov[r]].o[2].n] ELSE r
        new(r) == replacement[r]
        removed == [i \in DOMAIN buffer |->
                        IF i \in Range(mov) THEN Nop ELSE buffer[i]]
        result == MapRegs(removed, new)
    IN  [ir |-> result,
         hoisted |-> \E r \in candidates :
            \/ buffer[def[r]].b # buffer[mov[r]].b
            \/ \E i \in (def[r] + 1)..(mov[r] - 1) : new(r) \in Regs(result[i])]

\* ConstantProp.  What an ADD or SUB adds to a constant is forgotten at once.
ConstantProp(buffer) ==
    LET Step(p, i) ==
            LET insn == p.ir[i]
                known == IF insn.b = p.b THEN p.known ELSE <<>>
                sets == {insn.o[x].n : x \in Outs(insn)}
                left == [r \in DOMAIN known \ sets |-> known[r]]
                inlined == [insn EXCEPT !.o = [x \in DOMAIN @ |->
                    IF /\ Format(insn.t)[x] = "I" /\ IsVReg(@[x])
                       /\ @[x].n \in DOMAIN known
                    THEN known[@[x].n] ELSE @[x]]]
            IN  IF insn.b = NOP_BLOCK THEN p
                ELSE IF insn.t = "MOV" /\ IsConst(insn.o[1])
                THEN [p EXCEPT !.known = Put(known, insn.o[2].n, insn.o[1]), !.b = insn.b]
                ELSE [ir |-> [p.ir EXCEPT ![i] = inlined], known |-> left, b |-> insn.b]
    IN  Through(Step, [ir |-> buffer, known |-> <<>>, b |-> 0], Len(buffer)).ir

\* DSE goes backwards; an instruction it removes reads nothing.
DSE(buffer) ==
    LET n == Len(buffer)
        Step(p, back) ==
            LET i == n + 1 - back
                insn == p.ir[i]
                dead == /\ ~HasSideEffects(insn.t)
                        /\ \E x \in Outs(insn) : insn.o[x].n \notin p.read
            IN  IF dead THEN [p EXCEPT !.ir[i] = Nop]
                ELSE [p EXCEPT !.read = @ \cup {insn.o[x].n : x \in Ins(insn)}]
    IN  Through(Step, [ir |-> buffer, read |-> {}], n).ir

\* A write that another follows in its block goes, whatever made it.
StoreAfterStoreElimination(buffer) ==
    LET Step(p, i) ==
            LET insn == p.ir[i]
                reads == {insn.o[x].n : x \in Ins(insn)}
                sets == {insn.o[x].n : x \in Outs(insn)}
                over == {p.prev[r] : r \in (sets \ reads) \cap DOMAIN p.prev}
                gone == {j \in over : p.ir[j].b = insn.b}
            IN  [ir |-> [j \in DOMAIN p.ir |-> IF j \in gone THEN Nop ELSE p.ir[j]],
                 prev |-> [r \in (DOMAIN p.prev \ reads) \cup sets |->
                              IF r \in sets THEN i ELSE p.prev[r]]]
    IN  Through(Step, [ir |-> buffer, prev |-> <<>>], Len(buffer)).ir

DeadStoreElimination(buffer) == StoreAfterStoreElimination(DSE(buffer))

IsAccess(insn) == insn.t \in {"READ_MEM", "WRITE_MEM", "READ_DEVICE"}

-----------------------------------------------------------------------------
(* Register allocation and the passes after it.                            *)

\* GlobalRegisterAllocation, operand by operand: a register is taken, the last
\* freed first, where a virtual register is first used, and freed at every
\* operand of the instruction that uses it last.
GlobalRegisterAllocation(buffer) ==
    LET regs == UNION {Regs(buffer[i]) : i \in DOMAIN buffer}
        users == [r \in regs |-> {i \in DOMAIN buffer : r \in Regs(buffer[i])}]
        Allocate(p, r) ==
            IF p.free # <<>>
            THEN [p EXCEPT !.alloc = Put(p.alloc, r, p.free[Len(p.free)]),
                           !.free = SubSeq(p.free, 1, Len(p.free) - 1)]
            ELSE [p EXCEPT !.alloc = Put(p.alloc, r, p.next), !.next = @ + 1]
        Release(p, r) ==
            [p EXCEPT !.free = Append(@, p.alloc[r]),
                      !.twice = @ \/ p.alloc[r] \in Range(p.free)]
        Step(p, i) ==
            LET Op(q, x) ==
                    LET r == buffer[i].o[x].n
                        q1 == IF i = Min(users[r]) THEN Allocate(q, r) ELSE q
                    IN  IF ~IsVReg(buffer[i].o[x]) THEN q
                        ELSE IF i = Max(users[r]) THEN Release(q1, r) ELSE q1
            IN  Through(Op, p, Len(buffer[i].o))
        done == Through(Step, [alloc |-> <<>>, free |-> <<>>, next |-> 1, twice |-> FALSE],
                        Len(buffer))
    IN  [ir |-> [i \in DOMAIN buffer |->
                    [buffer[i] EXCEPT !.o = [x \in DOMAIN @ |->
                        IF IsVReg(@[x]) THEN [@[x] EXCEPT !.a = done.alloc[buffer[i].o[x].n]]
                        ELSE @[x]]]],
         twice |-> done.twice]

\* BlockCompiler::post_allocate_peephole: a MOV to where its operand is already,
\* and the second of two that undo each other.  (Its folding of an addition into
\* a load expects the operands of another READ_MEM and never applies.)
post_allocate_peephole(buffer) ==
    LET Mov(insn) == insn.t = "MOV"
        Step(now, i) ==
            LET insn == now[i]
                next == now[i + 1]
            IN  IF ~Mov(insn) THEN now
                ELSE IF insn.o[1].a = insn.o[2].a THEN [now EXCEPT ![i] = Nop]
                ELSE IF Mov(next) /\ insn.o[1].a = next.o[2].a /\ insn.o[2].a = next.o[1].a
                THEN [now EXCEPT ![i + 1] = Nop]
                ELSE now
    IN  Through(Step, buffer, Len(buffer) - 1)

\* PostAllocatePeephole: an AND with the mask of a size is a zero extension.
PostAllocatePeephole(buffer) ==
    LET mask(s) == 2^(s * ByteBits) - 1
    IN  [i \in DOMAIN buffer |->
            LET insn == buffer[i]
                c == insn.o[1]
                sizes == {s \in {1, 2, 4} : mask(s) = c.n}
                s == CHOOSE x \in sizes : TRUE
            IN  IF insn.t # "AND" \/ ~IsConst(c) \/ sizes = {} THEN insn
                ELSE IF c.w = s THEN Nop
                ELSE [insn EXCEPT !.t = "ZX", !.o[1] = [insn.o[2] EXCEPT !.w = s]]]

\* Peephole2: a load through a register that the next load takes again.
Peephole2(buffer) ==
    LET Step(now, i) ==
            LET ldreg1 == now[i]
                mov == now[i + 1]
                ldreg2 == now[i + 2]
                r0 == ldreg1.o[2]
            IN  IF /\ ldreg1.t = "READ_REG" /\ mov.t = "MOV" /\ ldreg2.t = "READ_REG"
                   /\ \A o \in {r0, mov.o[1], mov.o[2], ldreg2.o[2]} : IsAllocReg(o)
                   /\ r0.a = mov.o[1].a /\ r0.a = ldreg2.o[2].a
                THEN [now EXCEPT ![i].o[2].a = mov.o[2].a, ![i + 1] = Nop]
                ELSE now
    IN  Through(Step, buffer, IF Len(buffer) > 3 THEN Len(buffer) - 3 ELSE 0)

-----------------------------------------------------------------------------
(* BlockCompiler::compile.                                                 *)

\* A read of a variable whose register is overwritten before the value is used.
Deferred(action) ==
    \E b \in DOMAIN action : \E i, k \in DOMAIN action[b] :
        LET s == action[b][i]
        IN  /\ s.op = "readvar" /\ s.id \notin Fixedness(action)[b].fixed
            /\ s.id \in Range(action[b][k].args)
            /\ \E j \in (i + 1)..(k - 1) :
                  /\ action[b][j].op \in {"writevar", "readmem", "readdev"}
                  /\ action[b][j].n = s.n

\* The compiler starts from the block that was built from the program's first
\* instructions, and the interpreter runs as many.
Start(built) ==
    /\ meant = [m \in Machines |->
                   StepBlock([i \in DOMAIN program |-> program[i].described], built[2],
                             [rf |-> m.rf, log |-> <<>>])]
    /\ ir = built[1].ir

Init ==
    /\ program \in Programs
    /\ Start(BuildBlock([i \in DOMAIN program |-> program[i].generated]))
    /\ flaws = IF \E i \in DOMAIN program : Deferred(program[i].generated.action)
               THEN {"deferred"} ELSE {}
    /\ stage = 0

\* The pass numbered n leaves result; flaw says what it did wrong, if anything.
Pass(n, result, flaw) ==
    /\ stage = n
    /\ stage' = n + 1
    /\ ir' = result
    /\ flaws' = flaws \cup flaw
    /\ UNCHANGED <<program, meant>>

Known(name, happened) == IF happened THEN {name} ELSE {}

Lost(before, after) ==
    \E i \in DOMAIN before : IsAccess(before[i]) /\ after[i].t = "NOP"

Reorder == \E up \in BOOLEAN : Pass(0, ReorderBlocks(ir, up), {})
Thread == Pass(1, ThreadJumps(ir), {})
EliminateBlocks == Pass(2, DeadBlockElimination(ir), {})
Merge == Pass(3, MergeBlocks(ir), {})
EarlyPeephole == Pass(4, Peephole(ir), {})

EliminateWrites ==
    LET rse == RegStoreElimination(ir)
    IN  Pass(5, Sort(rse.ir), Known("crossed", rse.crossed))

Renumber == Pass(6, ValueRenumbering(ir), {})

EliminateMovs ==
    LET done == MovElimination(ir)
    IN  Pass(7, done.ir, Known("hoisted", done.hoisted))

PropagateConstants == Pass(8, ConstantProp(ir), {})

EliminateStores ==
    LET left == DeadStoreElimination(ir)
    IN  Pass(9, Sort(left), Known("dropped", Lost(ir, left)))

AllocateRegisters ==
    LET done == GlobalRegisterAllocation(ir)
    IN  Pass(10, done.ir, Known("double free", done.twice))

LatePeephole == Pass(11, Sort(PostAllocatePeephole(post_allocate_peephole(ir))), {})
LastPeephole == Pass(12, Sort(Peephole2(ir)), {})

Next ==
    \/ Reorder \/ Thread \/ EliminateBlocks \/ Merge \/ EarlyPeephole \/ EliminateWrites
    \/ Renumber \/ EliminateMovs \/ PropagateConstants \/ EliminateStores
    \/ AllocateRegisters \/ LatePeephole \/ LastPeephole

Spec == Init /\ [][Next]_vars

-----------------------------------------------------------------------------
\* What the translated block does is what the interpreter does with its
\* instructions, from when it is built and after each pass of compile: the
\* registers it leaves, the accesses it makes, their order, and the registers
\* and pc a fault handler would find at each of them.  Where one of the known
\* flaws struck it may not.
MeaningKept ==
    flaws = {} => \A m \in Machines :
        Meaning(ir, [rf |-> m.rf, log |-> <<>>], m.junk) = meant[m]
=============================================================================
