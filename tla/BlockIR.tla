------------------------------ MODULE BlockIR ------------------------------
(***************************************************************************)
(* The intermediate representation of the block JIT and its meaning.       *)
(*                                                                         *)
(* The translation context holds a buffer of instructions; each belongs to *)
(* a block, and a block's instructions need not be next to each other until *)
(* the buffer is sorted.  An operand is a constant, a virtual register or  *)
(* a block; a is its allocation: 0 before register allocation, then the    *)
(* number of a host register or, past NumAllocable, of a stack slot.       *)
(*                                                                         *)
(* The pc is in the register file; INCPC adds to it.                       *)
(***************************************************************************)
EXTENDS SSAForm

CONSTANT
    NumAllocable    \* BLKJIT_NUM_ALLOCABLE

NOP_BLOCK == 1000

Operand(k, n, w) == [k |-> k, n |-> n, w |-> w, a |-> 0]
Const(n, w) == Operand("const", n, w)
VReg(n, w) == Operand("vreg", n, w)
Block(n) == Operand("block", n, 0)

Insn(t, b, o) == [t |-> t, b |-> b, o |-> o]
Nop == Insn("NOP", NOP_BLOCK, <<>>)

\* insn_descriptors: what an instruction does with each operand (N: neither, I:
\* in, O: out, B: both), and whether it has side effects.
Opcode == [add |-> "ADD", sub |-> "SUB", and |-> "AND", or |-> "OR", xor |-> "XOR",
           shl |-> "SHL", shr |-> "SHR"]
Arith == Range(Opcode)
Comparison == [eq |-> "CMPEQ", ne |-> "CMPNE", lt |-> "CMPLT", le |-> "CMPLTE",
               gt |-> "CMPGT", ge |-> "CMPGTE"]
Compares == Range(Comparison)

Format(t) ==
    CASE t \in {"MOV", "ZX", "TRUNC", "READ_REG"} -> <<"I", "O">>
      [] t \in Arith -> <<"I", "B">>
      [] t \in Compares -> <<"I", "I", "O">>
      [] t = "CMOV" -> <<"I", "I", "B">>
      [] t = "INCPC" -> <<"I">>
      [] t = "WRITE_REG" -> <<"I", "I">>
      [] t = "READ_MEM" -> <<"N", "I", "I", "O">>
      [] t = "WRITE_MEM" -> <<"N", "I", "I", "I">>
      [] t = "READ_DEVICE" -> <<"I", "I", "O">>
      [] t = "JMP" -> <<"N">>
      [] t = "BRANCH" -> <<"I", "N", "N">>
      [] t \in {"RET", "NOP"} -> <<>>

HasSideEffects(t) ==
    t \in {"INCPC", "WRITE_REG", "READ_MEM", "WRITE_MEM", "JMP", "BRANCH", "RET"}

IsVReg(o) == o.k = "vreg"
IsConst(o) == o.k = "const"
IsAllocReg(o) == o.a \in 1..NumAllocable

\* The operands of an instruction that are virtual registers it reads, writes.
Ins(i) == {x \in DOMAIN i.o : IsVReg(i.o[x]) /\ Format(i.t)[x] \in {"I", "B"}}
Outs(i) == {x \in DOMAIN i.o : IsVReg(i.o[x]) /\ Format(i.t)[x] \in {"O", "B"}}

-----------------------------------------------------------------------------
(* The meaning of a buffer: the machine it leaves.  A place holds the      *)
(* value of a virtual register, or of the host register or slot it was     *)
(* given; junk is what a place holds before anything is written to it.     *)

Place(o) == IF o.a = 0 THEN o.n ELSE o.a

Get(places, junk, o) ==
    IF IsConst(o) THEN Wrap(o.n, o.w)
    ELSE IF Place(o) \in DOMAIN places THEN Wrap(places[Place(o)], o.w) ELSE Wrap(junk, o.w)

Inverted(names, t) == CHOOSE op \in DOMAIN names : names[op] = t

Execute(st, i) ==
    LET in(x) == Get(st.places, st.junk, i.o[x])
        out(x, v) == [st EXCEPT !.places = Put(@, Place(i.o[x]), Wrap(v, i.o[x].w))]
        m == st.machine
    IN  CASE i.t \in {"MOV", "ZX", "TRUNC"} -> out(2, in(1))
          [] i.t \in Arith -> out(2, Arithmetic(Inverted(Opcode, i.t), in(2), in(1)))
          [] i.t \in Compares ->
                out(3, Arithmetic(Inverted(Comparison, i.t), in(1), in(2)))
          [] i.t = "CMOV" -> IF in(1) # 0 THEN out(3, in(2)) ELSE st
          [] i.t = "INCPC" ->
                [st EXCEPT !.machine.rf = Write(@, PC, Word, Read(@, PC, Word) + in(1))]
          [] i.t = "READ_REG" -> out(2, Read(m.rf, i.o[1].n, i.o[2].w))
          [] i.t = "WRITE_REG" ->
                [st EXCEPT !.machine.rf = Write(@, i.o[2].n, i.o[1].w, in(1))]
          [] i.t = "READ_MEM" ->
                [out(4, Answer(m, in(2) + in(3)))
                    EXCEPT !.machine = Access(m, "readmem", in(2) + in(3), 0)]
          [] i.t = "WRITE_MEM" ->
                [st EXCEPT !.machine = Access(m, "writemem", in(3) + in(4), in(2))]
          [] i.t = "READ_DEVICE" ->
                [out(3, Answer(m, in(2))) EXCEPT !.machine = Access(m, "readdev", in(2), 0)]
          [] i.t = "NOP" -> st

At(code, b) == IF b \in DOMAIN code THEN code[b] ELSE <<>>

\* Execution of st.rest; code has the instructions of each block, in buffer order.
RECURSIVE Run(_, _)
Run(code, st) ==
    LET i == Head(st.rest)
        goto(b) == Run(code, [st EXCEPT !.rest = At(code, b)])
    IN  IF st.rest = <<>> THEN "ran off the end"
        ELSE CASE i.t = "RET" -> st.machine
               [] i.t = "JMP" -> goto(i.o[1].n)
               [] i.t = "BRANCH" ->
                    goto(i.o[IF Get(st.places, st.junk, i.o[1]) # 0 THEN 2 ELSE 3].n)
               [] OTHER -> Run(code, [Execute(st, i) EXCEPT !.rest = Tail(@)])

Blocks(ir) == {ir[i].b : i \in DOMAIN ir} \ {NOP_BLOCK}

Code(ir) ==
    [b \in Blocks(ir) |-> LET In(i) == i.b = b IN SelectSeq(ir, In)]

Meaning(ir, machine, junk) ==
    LET code == Code(ir)
    IN  Run(code, [rest |-> At(code, 0), places |-> <<>>, junk |-> junk,
                   machine |-> machine])
=============================================================================
