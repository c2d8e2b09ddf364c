------------------------------ MODULE SSAForm ------------------------------
(***************************************************************************)
(* The SSA form of an instruction's behaviour, what it means (the SSA      *)
(* interpreter and the stepping of guest instructions by the interpreting  *)
(* engine), and which of its statements the fixedness analysis lets a JIT  *)
(* evaluate when it translates.                                            *)
(*                                                                         *)
(* An action is a sequence of blocks, the entry first, each a sequence of  *)
(* statements; jumps go to later blocks.  A statement has an identity, an  *)
(* operation, the size in bytes of its value, the statements it uses, a    *)
(* number (a constant, the value of a field of the decoded instruction, a  *)
(* register's offset or a symbol) and its targets.                         *)
(* Symbols (the variables of an action) are the numbers below 0 and all    *)
(* hold words.                                                             *)
(*                                                                         *)
(* A byte is ByteBits bits.  Guest memory is not stored: an access goes    *)
(* to the log of the machine with the register file it found (what a fault *)
(* handler would see), and a read is answered from its address and its     *)
(* place in the log, so that no access can be dropped, repeated or moved   *)
(* without being noticed.  Signed and floating types, vectors, loops and   *)
(* calls of helpers are left out.                                          *)
(***************************************************************************)
EXTENDS Integers, Sequences, FiniteSets, Functions, Bitwise

CONSTANT
    ByteBits    \* bits in a byte

Word == 2           \* bytes in a word
R0 == 0             \* offsets in the register file: two words, the pc and a flag;
R1 == 2             \* a register whose offset is its size, as r1 of a 32-bit ARM
PC == 4
Z == 6

Wrap(v, w) == v % 2^(w * ByteBits)

Read(rf, offset, w) ==
    LET byte[i \in 0..w] ==
            IF i = w THEN 0 ELSE rf[offset + i] + 2^ByteBits * byte[i + 1]
    IN  byte[0]

Write(rf, offset, w, v) ==
    [i \in DOMAIN rf |-> IF i \in offset..(offset + w - 1)
                         THEN (v \div 2^((i - offset) * ByteBits)) % 2^ByteBits
                         ELSE rf[i]]

\* What the memory answers to an access.
Answer(machine, addr) == Wrap(addr + Len(machine.log) + 1, Word)

Access(machine, kind, addr, v) ==
    [machine EXCEPT !.log = Append(@, <<kind, addr, v, machine.rf>>)]

St(id, op, w, args, n) ==
    [id |-> id, op |-> op, w |-> w, args |-> args, n |-> n, to |-> <<>>]

Transfer(id, op, args, to) == [St(id, op, 0, args, 0) EXCEPT !.to = to]

Comparisons == {"eq", "ne", "lt", "le", "gt", "ge"}
Binaries == Comparisons \cup {"add", "sub", "and", "or", "xor", "shl", "shr"}
Unaries == {"complement", "negate"}

Holds(op, l, r) ==
    CASE op = "eq" -> l = r
      [] op = "ne" -> l # r
      [] op = "lt" -> l < r
      [] op = "le" -> l <= r
      [] op = "gt" -> l > r
      [] op = "ge" -> l >= r

Bit(b) == IF b THEN 1 ELSE 0

Arithmetic(op, l, r) ==
    CASE op = "add" -> l + r
      [] op = "sub" -> l - r
      [] op = "and" -> l & r
      [] op = "or"  -> l | r
      [] op = "xor" -> l ^^ r
      [] op = "shl" -> l * 2^r
      [] op = "shr" -> l \div 2^r
      [] op \in Comparisons -> Bit(Holds(op, l, r))

-----------------------------------------------------------------------------
(* SSAInterpreter: the values of the statements and symbols, the machine,  *)
(* the block (0 when the action has returned) and the next statement in it. *)

\* The value of a statement that only computes.
Value(s, val, sym) ==
    LET arg(i) == val[s.args[i]]
    IN  Wrap(CASE s.op \in {"const", "field"} -> s.n
               [] s.op = "readvar" -> sym[s.n]
               [] s.op = "cast"    -> arg(1)
               [] s.op = "complement" -> -1 - arg(1)
               [] s.op = "negate"  -> Bit(arg(1) = 0)
               [] s.op = "select"  -> IF arg(1) # 0 THEN arg(2) ELSE arg(3)
               [] s.op \in Binaries -> Arithmetic(s.op, arg(1), arg(2)),
             s.w)

\* What is left of start when Step has been taken for 1, 2, ... n.
Through(Step(_, _), start, n) ==
    LET RECURSIVE From(_)
        From(at) == IF at.i = n THEN at.done
                    ELSE From([done |-> Step(at.done, at.i + 1), i |-> at.i + 1])
    IN  From([done |-> start, i |-> 0])

Put(f, x, v) == [y \in DOMAIN f \cup {x} |-> IF y = x THEN v ELSE f[y]]

Visit(st, s) ==
    LET arg(i) == st.val[s.args[i]]
        m == st.machine
    IN  CASE s.op = "readreg" -> [st EXCEPT !.val = Put(@, s.id, Read(m.rf, s.n, s.w))]
          [] s.op = "writereg" -> [st EXCEPT !.machine.rf = Write(@, s.n, s.w, arg(1))]
          [] s.op \in {"readmem", "readdev"} ->
                [st EXCEPT !.sym = Put(@, s.n, Answer(m, arg(1))),
                           !.machine = Access(m, s.op, arg(1), 0)]
          [] s.op = "writemem" -> [st EXCEPT !.machine = Access(m, s.op, arg(1), arg(2))]
          [] s.op = "writevar" -> [st EXCEPT !.sym = Put(@, s.n, Wrap(arg(1), Word))]
          [] s.op = "if" ->
                [st EXCEPT !.block = s.to[IF arg(1) # 0 THEN 1 ELSE 2], !.next = 0]
          [] s.op = "jump" -> [st EXCEPT !.block = s.to[1], !.next = 0]
          [] s.op = "return" ->
                [st EXCEPT !.block = 0, !.result = IF s.args = <<>> THEN 0 ELSE arg(1)]
          [] OTHER -> [st EXCEPT !.val = Put(@, s.id, Value(s, st.val, st.sym))]

RECURSIVE ExecuteBlocks(_, _)
ExecuteBlocks(action, st) ==
    IF st.block = 0 THEN st
    ELSE ExecuteBlocks(action, Visit([st EXCEPT !.next = @ + 1],
                                     action[st.block][st.next + 1]))

ExecuteAction(action, machine) ==
    ExecuteBlocks(action, [val |-> <<>>, sym |-> <<>>, machine |-> machine,
                           block |-> 1, next |-> 0, result |-> 0])

\* StepInstruction of the interpreting engine.  An instruction has a behaviour,
\* a predicate (<<>> if it is not predicated), and may end its block.
StepInstruction(insn, machine) ==
    LET should_execute == \/ insn.predicate = <<>>
                          \/ ExecuteAction(insn.predicate, machine).result # 0
        m == IF should_execute THEN ExecuteAction(insn.action, machine).machine
             ELSE machine
    IN  IF insn.endOfBlock /\ should_execute THEN m
        ELSE [m EXCEPT !.rf = Write(@, PC, Word, Read(@, PC, Word) + 1)]

\* The engine runs n instructions of a program that starts at address 0.
RECURSIVE StepBlock(_, _, _)
StepBlock(program, n, machine) ==
    IF n = 0 THEN machine
    ELSE StepBlock(program, n - 1,
                   StepInstruction(program[Read(machine.rf, PC, Word) + 1], machine))

-----------------------------------------------------------------------------
(* SSAFormAction::DoFixednessAnalysis.  Since jumps go forward, one pass   *)
(* over the blocks reaches the fixed point of its work list.               *)

Control(block) == block[Len(block)]
Targets(s) == Range(s.to)
Predecessors(action, b) == {p \in DOMAIN action : b \in Targets(Control(action[p]))}

\* IsFixed of each class of statement.
IsFixed(s, fixed, dynamic, constness) ==
    /\ s.op \notin {"readreg", "readmem", "readdev"}
    /\ s.op = "readvar" => s.n \notin dynamic
    /\ s.op = "writevar" => constness # "never"
    /\ \/ s.op \in {"jump", "return"}
       \/ \A i \in DOMAIN s.args : s.args[i] \in fixed

RECURSIVE FixStatements(_, _, _, _)
FixStatements(statements, fixed, dynamic, constness) ==
    IF statements = <<>> THEN [fixed |-> fixed, dynamic |-> dynamic]
    ELSE LET s == Head(statements)
             f == IsFixed(s, fixed, dynamic, constness)
         IN  FixStatements(
                 Tail(statements),
                 IF f THEN fixed \cup {s.id} ELSE fixed,
                 IF s.op \in {"writevar", "readmem", "readdev"} /\ ~f
                 THEN dynamic \cup {s.n} ELSE dynamic,
                 constness)

\* The constness of each block, the symbols dynamic at its end, and the fixed
\* statements of the blocks up to it.
Fixedness(action) ==
    LET block[b \in DOMAIN action] ==
            LET preds == Predecessors(action, b)
                before == UNION {block[p].fixed : p \in preds}
                constness ==
                    IF \E p \in preds : \/ block[p].constness = "never"
                                        \/ Control(action[p]).id \notin block[p].fixed
                    THEN "never" ELSE "always"
                f == FixStatements(action[b], before,
                                   UNION {block[p].dynamic : p \in preds}, constness)
            IN  [constness |-> constness, fixed |-> f.fixed, dynamic |-> f.dynamic]
    IN  block

\* GetDominatedReads: the reads that a write of the symbol reaches from statement
\* i of block b, as pairs of a block and a statement.
RECURSIVE DominatedReads(_, _, _, _)
DominatedReads(action, b, i, symbol) ==
    IF i > Len(action[b])
    THEN UNION {DominatedReads(action, t, 1, symbol) : t \in Targets(Control(action[b]))}
    ELSE LET s == action[b][i]
         IN  IF s.op \in {"writevar", "readmem", "readdev"} /\ s.n = symbol THEN {}
             ELSE (IF s.op = "readvar" /\ s.n = symbol THEN {<<b, s.id>>} ELSE {})
                  \cup DominatedReads(action, b, i + 1, symbol)

HasDynamicDominatedReads(action, b, i, fixedness) ==
    \E r \in DominatedReads(action, b, i + 1, action[b][i].n) :
        \/ r[2] \notin fixedness[r[1]].fixed
        \/ fixedness[r[1]].constness # "always"
=============================================================================
