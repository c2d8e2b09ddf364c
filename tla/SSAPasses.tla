----------------------------- MODULE SSAPasses -----------------------------
(***************************************************************************)
(* The optimisation of actions: the passes of O3 and the pass manager that *)
(* runs each as long as it changes the action, and all of them again as    *)
(* long as one did.                                                        *)
(*                                                                         *)
(* O4 runs O3 three times with phi analysis and elimination between.  The  *)
(* analysis goes by the lists of uses and definitions that a symbol keeps  *)
(* of its own, to which nothing is ever added, so no phi node comes to be  *)
(* and O4 leaves what O3 leaves.  Inlining and the merging of struct reads *)
(* have nothing to do, since actions have no calls and read no field of a  *)
(* field here,                                                             *)
(* and the symbol table that dead symbols are removed from is left out.    *)
(*                                                                         *)
(* An action is a function on the blocks that are left.  A statement that  *)
(* is replaced by a new one gives it its identity.                         *)
(***************************************************************************)
EXTENDS SSAForm, FiniteSetsExt

Kills == {"writevar", "readmem", "readdev"}

Statements(action) == UNION {Range(action[b]) : b \in DOMAIN action}

\* HasSideEffects: statements are important by default.
Pure(s) == s.op \in Binaries \cup Unaries \cup {"const", "field", "cast", "readvar"}

Without(action, ids) ==
    LET Kept(s) == s.id \notin ids
    IN  [b \in DOMAIN action |-> SelectSeq(action[b], Kept)]

\* Op of each element; the concatenation makes TLC evaluate it at once.
Each(Op(_), seq) == <<>> \o [i \in DOMAIN seq |-> Op(seq[i])]

\* SSAStatement::Replace, in every user of the statement.
Replace(action, old, new) ==
    LET Operand(id) == IF id = old THEN new ELSE id
        User(s) == [s EXCEPT !.args = Each(Operand, @)]
    IN  [b \in DOMAIN action |-> Each(User, action[b])]

Statement(action, id) == CHOOSE s \in Statements(action) : s.id = id
IsConstant(action, id) == Statement(action, id).op = "const"

\* One block after another.
OverBlocks(Step(_, _), action) ==
    LET Visited(a, b) == IF b \in DOMAIN a THEN Step(a, b) ELSE a
    IN  Through(Visited, action, Max(DOMAIN action))

-----------------------------------------------------------------------------
\* Statements without effect that only their block uses.
RECURSIVE RemoveDeadStatements(_, _)
RemoveDeadStatements(action, b) ==
    LET used == UNION {Range(s.args) : s \in Statements(action)}
        dead == {s.id : s \in {x \in Range(action[b]) : Pure(x) /\ x.id \notin used}}
    IN  IF dead = {} THEN action ELSE RemoveDeadStatements(Without(action, dead), b)

DeadCodeElimination(action) == OverBlocks(RemoveDeadStatements, action)

UnreachableBlockElimination(action) ==
    LET reachable[b \in DOMAIN action] ==
            b = 1 \/ \E p \in Predecessors(action, b) : reachable[p]
    IN  Restrict(action, {b \in DOMAIN action : reachable[b]})

\* TrySimplifyIf.
ControlFlowSimplification(action) ==
    [b \in DOMAIN action |->
        LET s == Control(action[b])
            to == s.to[IF Statement(action, s.args[1]).n # 0 THEN 1 ELSE 2]
        IN  IF s.op = "if" /\ IsConstant(action, s.args[1])
            THEN [action[b] EXCEPT ![Len(action[b])] = Transfer(s.id, "jump", <<>>, <<to>>)]
            ELSE action[b]]

\* A block takes in its only successor if it is its only predecessor.
RECURSIVE BlockMerging(_)
BlockMerging(action) ==
    LET child(b) == CHOOSE c \in Targets(Control(action[b])) : TRUE
        parents == {b \in DOMAIN action :
                        /\ Cardinality(Targets(Control(action[b]))) = 1
                        /\ Predecessors(action, child(b)) = {b}
                        /\ child(b) \notin {1, b}}
        b == Min(parents)
        merged == [action EXCEPT ![b] = SubSeq(@, 1, Len(@) - 1) \o action[child(b)]]
    IN  IF parents = {} THEN action
        ELSE BlockMerging(Restrict(merged, DOMAIN action \ {child(b)}))

ConstantFolding(action) ==
    LET Fold(a, b) ==
            LET foldable(s) == /\ s.op \in Binaries \cup {"cast"}
                               /\ \A i \in DOMAIN s.args : IsConstant(a, s.args[i])
                val == [id \in {s.id : s \in {x \in Statements(a) : x.op = "const"}} |->
                            Statement(a, id).n]
                folded(s) == IF foldable(s)
                             THEN St(s.id, "const", s.w, <<>>, Value(s, val, <<>>))
                             ELSE s
            IN  [a EXCEPT ![b] = Each(folded, @)]
    IN  OverBlocks(Fold, action)

\* SSADominance: the union, not the intersection, of what the predecessors have,
\* that is, every block from which a block can be reached.
Dominance(action) ==
    LET dominance[b \in DOMAIN action] ==
            {b} \cup UNION {dominance[p] : p \in Predecessors(action, b)}
    IN  dominance

\* Variant: another write of the variable does not matter.
IsACandidateAnyWrite(action, s) ==
    s.op = "writevar" /\ Statement(action, s.args[1]).op \in {"const", "field"}

\* A write of a constant, or of a field, that is all that is ever written to its variable.
IsACandidate(action, s) ==
    /\ s.op = "writevar" /\ Statement(action, s.args[1]).op \in {"const", "field"}
    /\ \A t \in Statements(action) : t.op \in Kills /\ t.n = s.n => t = s

\* Reads in the other blocks that the write "dominates" are the constant.
ConstantPropagation(action) ==
    LET dominance == Dominance(action)
        writes(b) == {s \in Range(action[b]) : IsACandidate(action, s)}
    IN  [b \in DOMAIN action |->
            LET known == UNION {writes(c) : c \in dominance[b] \ {b}}
                found(s) == {w \in known : s.op = "readvar" /\ w.n = s.n}
                value(s) == Statement(action, (CHOOSE w \in found(s) : TRUE).args[1])
                propagated(s) == IF found(s) = {} THEN s
                                 ELSE [value(s) EXCEPT !.id = s.id]
            IN  Each(propagated, action[b])]

\* A read of a variable that the same block wrote is the value it wrote.
RECURSIVE DoValuePropagation(_, _)
DoValuePropagation(action, b) ==
    LET block == action[b]
        kills(i) == {j \in 1..(i - 1) : block[j].op \in Kills /\ block[j].n = block[i].n}
        live == {i \in DOMAIN block : /\ block[i].op = "readvar" /\ kills(i) # {}
                                      /\ block[Max(kills(i))].op = "writevar"}
        read == Min(live)
        value == block[Max(kills(read))].args[1]
    IN  IF live = {} THEN action
        ELSE DoValuePropagation(
                Replace(Without(action, {block[read].id}), block[read].id, value), b)

ValuePropagation(action) == OverBlocks(DoValuePropagation, action)

\* The loads of a block that an earlier load or write of the variable stands for,
\* replaced by it and yet to be removed.
ReplaceLoads(action, b) ==
    LET Step(p, i) ==
            LET s == p.a[b][i]
            IN  CASE s.op = "readvar" /\ s.n \in DOMAIN p.live ->
                        [p EXCEPT !.a = Replace(@, s.id, p.live[s.n]), !.dead = @ \cup {s.id}]
                  [] s.op = "readvar" /\ s.n \notin DOMAIN p.live ->
                        [p EXCEPT !.live = Put(@, s.n, s.id)]
                  [] s.op = "writevar" -> [p EXCEPT !.live = Put(@, s.n, s.args[1])]
                  [] s.op \in {"readmem", "readdev"} ->
                        [p EXCEPT !.live = Restrict(@, DOMAIN @ \ {s.n})]
                  [] OTHER -> p
    IN  Through(Step, [a |-> action, live |-> <<>>, dead |-> {}], Len(action[b]))


\* DoStoreElimination, which runs if this changes nothing, spares every write
\* that something uses, and its block counts.
DoLoadElimination(action, b) ==
    LET done == ReplaceLoads(action, b) IN Without(done.a, done.dead)

LoadStoreElimination(action) == OverBlocks(DoLoadElimination, action)

\* Writes of variables that are only ever written.
DeadWriteElimination(action) ==
    LET alive == {s.n : s \in {x \in Statements(action) :
                                  x.op \in {"readvar", "readmem", "readdev"}}}
    IN  Without(action, {s.id : s \in {x \in Statements(action) :
                                          x.op = "writevar" /\ x.n \notin alive}})

\* A target that starts with a jump is replaced by where that goes.
JumpThreading(action) ==
    LET Thread(a, b) ==
            LET to(t) == IF a[t][1].op = "jump" THEN a[t][1].to[1] ELSE t
            IN  [a EXCEPT ![b][Len(a[b])].to = Each(to, @)]
    IN  OverBlocks(Thread, action)

-----------------------------------------------------------------------------
\* The passes of O3.
O3 == 10

Apply(pass, action) ==
    CASE pass = 1 -> DeadCodeElimination(action)
      [] pass = 2 -> UnreachableBlockElimination(action)
      [] pass = 3 -> ControlFlowSimplification(action)
      [] pass = 4 -> BlockMerging(action)
      [] pass = 5 -> ConstantFolding(action)
      [] pass = 6 -> ConstantPropagation(action)
      [] pass = 7 -> ValuePropagation(action)
      [] pass = 8 -> LoadStoreElimination(action)
      [] pass = 9 -> DeadWriteElimination(action)
      [] pass = 10 -> JumpThreading(action)

\* SSAPassManager::Run from a pass on; changed says whether one has done anything.
RECURSIVE RunPasses(_, _, _)
RunPasses(action, pass, changed) ==
    LET left == Apply(pass, action)
    IN  IF pass > O3 THEN IF changed THEN RunPasses(action, 1, FALSE) ELSE action
        ELSE IF left # action THEN RunPasses(left, pass, TRUE)
        ELSE RunPasses(action, pass + 1, changed)

Optimise(action) == RunPasses(action, 1, FALSE)

\* An instruction of a description, and as code is generated from it.
Generate(insn) ==
    [described |-> insn,
     generated |-> [insn EXCEPT !.action = Optimise(@),
                                !.predicate = IF @ = <<>> THEN @ ELSE Optimise(@)]]
=============================================================================
