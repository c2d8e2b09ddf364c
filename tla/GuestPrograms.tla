--------------------------- MODULE GuestPrograms ---------------------------
(***************************************************************************)
(* A library of guest instructions, as a front end would emit their SSA    *)
(* forms, the programs made of them and the machines they run on, for      *)
(* model checking the optimiser and the block JIT.                         *)
(***************************************************************************)
EXTENDS SSAPasses

\* Statements, numbered by i within an action.
C(i, n) == St(i, "const", Word, <<>>, n)
F(i, n) == St(i, "field", Word, <<>>, n)
RR(i, r) == St(i, "readreg", Word, <<>>, r)
WR(i, r, a) == St(i, "writereg", Word, <<a>>, r)
B(i, op, a, b) == St(i, op, Word, <<a, b>>, 0)
RV(i, x) == St(i, "readvar", Word, <<>>, x)
WV(i, x, a) == St(i, "writevar", Word, <<a>>, x)
RM(i, x, a) == St(i, "readmem", Word, <<a>>, x)
WM(i, a, v) == St(i, "writemem", Word, <<a, v>>, 0)
If(i, a, t, f) == Transfer(i, "if", <<a>>, <<t, f>>)
Jmp(i, t) == Transfer(i, "jump", <<>>, <<t>>)
Ret(i) == St(i, "return", 0, <<>>, 0)

X == -1
Y == -2

Plain(action) == [action |-> action, predicate |-> <<>>, endOfBlock |-> FALSE,
                  jump |-> "none", offset |-> 0]

\* Predicates.
IfZ == << <<St(1, "readreg", 1, <<>>, Z), St(2, "return", 1, <<1>>, 0)>> >>
IfNotZ == << <<St(1, "readreg", 1, <<>>, Z), St(2, "const", 1, <<>>, 0),
               St(3, "eq", 1, <<1, 2>>, 0), St(4, "return", 1, <<3>>, 0)>> >>
When(p, insn) == [insn EXCEPT !.predicate = p]

\* Rd op= constant or register; an addition that carries into the pc's place.
AddI(r, n) == Plain(<< <<RR(1, r), C(2, n), B(3, "add", 1, 2), WR(4, r, 3), Ret(5)>> >>)
OpR(op, r, q) == Plain(<< <<RR(1, r), RR(2, q), B(3, op, 1, 2), WR(4, r, 3), Ret(5)>> >>)
MovI(r, n) == Plain(<< <<C(1, n), WR(2, r, 1), Ret(3)>> >>)
Mov(r, q) == Plain(<< <<RR(1, q), WR(2, r, 1), Ret(3)>> >>)
AndI(r, n) == Plain(<< <<RR(1, r), C(2, n), B(3, "and", 1, 2), WR(4, r, 3), Ret(5)>> >>)
\* A load through a variable, as the decoder's __mem_read macro writes it.
Ldr(r, q) == Plain(<< <<RR(1, q), RM(2, X, 1), RV(3, X), WR(4, r, 3), Ret(5)>> >>)
Str(r, q) == Plain(<< <<RR(1, q), RR(2, r), WM(3, 1, 2), Ret(4)>> >>)
\* A store of the address itself, and one whose address is a variable.
StrSame(r) == Plain(<< <<RR(1, r), WM(2, 1, 1), Ret(3)>> >>)
\* The flag: set if r op q.
Cmp(op, r, q) == Plain(<< <<RR(1, r), RR(2, q), St(3, op, 1, <<1, 2>>, 0),
                        St(4, "writereg", 1, <<3>>, Z), Ret(5)>> >>)
Sel(r) == Plain(<< <<St(1, "readreg", 1, <<>>, Z), RR(2, R0), RR(3, R1),
                     St(4, "select", Word, <<1, 2, 3>>, 0), WR(5, r, 4), Ret(6)>> >>)
\* Low byte of r, extended.
Ext(r) == Plain(<< <<RR(1, r), St(2, "cast", 1, <<1>>, 0), St(3, "cast", Word, <<2>>, 0),
                     WR(4, r, 3), Ret(5)>> >>)
\* A shift by the flag, and by a constant; unary operators.
ShiftZ(r) == Plain(<< <<RR(1, r), St(2, "readreg", 1, <<>>, Z), St(3, "cast", Word, <<2>>, 0),
                        B(4, "shl", 1, 3), WR(5, r, 4), Ret(6)>> >>)
ShrI(r, n) == Plain(<< <<RR(1, r), C(2, n), B(3, "shr", 1, 2), WR(4, r, 3), Ret(5)>> >>)
Un(op, r, q) == Plain(<< <<RR(1, q), St(2, op, Word, <<1>>, 0), WR(3, r, 2), Ret(4)>> >>)
\* A variable with a value that is known, changed on one side of a dynamic branch.
Clamp == Plain(<< <<C(1, 1), WV(2, X, 1), St(3, "readreg", 1, <<>>, Z), If(4, 3, 2, 3)>>,
                  <<RR(5, R0), WV(6, X, 5), Jmp(7, 3)>>,
                  <<RV(8, X), WR(9, R1, 8), Ret(10)>> >>)
\* A fixed branch, and one that is not with a fixed one inside.
Known2 == Plain(<< <<C(1, 1), If(2, 1, 2, 3)>>, <<RR(3, R0), WR(4, R1, 3), Jmp(5, 4)>>,
                   <<RR(6, R1), WR(7, R0, 6), Jmp(8, 4)>>, <<Ret(9)>> >>)
Nested == Plain(<< <<St(1, "readreg", 1, <<>>, Z), If(2, 1, 2, 4)>>,
                   <<C(3, 1), WR(4, R1, 3), WV(5, X, 3), Jmp(6, 3)>>,
                   <<RV(7, X), WR(8, R0, 7), Ret(9)>>,
                   <<C(10, 2), WR(11, R1, 10), Ret(12)>> >>)
\* A variable written once, with a constant, and read in other blocks; a branch
\* with nothing on one side; one with nothing on either.
Once == Plain(<< <<C(1, 1), C(2, 1), B(3, "add", 1, 2), WV(4, X, 3),
                   St(5, "readreg", 1, <<>>, Z), If(6, 5, 2, 3)>>,
                 <<RV(7, X), WR(8, R0, 7), Jmp(9, 4)>>,
                 <<Jmp(10, 4)>>,
                 <<RV(11, X), RV(12, X), B(13, "sub", 11, 12), WR(14, R1, 13), Ret(15)>> >>)
Hollow == Plain(<< <<St(1, "readreg", 1, <<>>, Z), If(2, 1, 2, 3)>>, <<Jmp(3, 4)>>, <<Jmp(4, 4)>>,
                   <<RR(5, R0), WR(6, R1, 5), Ret(7)>> >>)
\* x = cond ? r0 : r1; r1 = x++; r0 = x.
JoinInc == Plain(<< <<St(1, "readreg", 1, <<>>, Z), If(2, 1, 2, 3)>>,
                    <<RR(3, R0), WV(4, X, 3), Jmp(5, 4)>>,
                    <<RR(6, R1), WV(7, X, 6), Jmp(8, 4)>>,
                    <<RV(9, X), RV(10, X), C(11, 1), B(12, "add", 10, 11), WV(13, X, 12),
                      WR(14, R1, 9), RV(15, X), WR(16, R0, 15), Ret(17)>> >>)
\* A branch that the decoded instruction decides, under one that it does not.
Decoded(n) == Plain(<< <<St(1, "readreg", 1, <<>>, Z), If(2, 1, 2, 5)>>,
                       <<C(3, 1), WR(4, R1, 3), F(5, n), WV(6, X, 5), If(7, 5, 3, 4)>>,
                       <<RV(8, X), WR(9, R0, 8), Ret(10)>>,
                       <<RR(11, R0), RM(12, X, 11), RV(13, X), WR(14, R1, 13), Ret(15)>>,
                       <<C(16, 2), WR(17, R1, 16), Ret(18)>> >>)
\* x = cond ? r0 : r1; t = r0; r1 = x; x = t; if(cond) r0 = x.
Rotate == Plain(<< <<St(1, "readreg", 1, <<>>, Z), If(2, 1, 2, 3)>>,
                   <<RR(3, R0), WV(4, X, 3), Jmp(5, 4)>>,
                   <<RR(6, R1), WV(7, X, 6), Jmp(8, 4)>>,
                   <<RR(9, R0), RV(10, X), WR(11, R1, 10), WV(12, X, 9),
                     St(13, "readreg", 1, <<>>, Z), If(14, 13, 5, 6)>>,
                   <<RV(15, X), WR(16, R0, 15), Ret(17)>>, <<Ret(18)>> >>)
\* t = x; x = y; y = t with variables; and r = x++.
Swap == Plain(<< <<RR(1, R0), WV(2, X, 1), RR(3, R1), WV(4, Y, 3),
                   RV(5, X), WV(6, -3, 5), RV(7, Y), WV(8, X, 7), RV(9, -3), WV(10, Y, 9),
                   RV(11, X), WR(12, R0, 11), RV(13, Y), WR(14, R1, 13), Ret(15)>> >>)
PostInc == Plain(<< <<RR(1, R0), WV(2, X, 1), RV(3, X), C(4, 1), B(5, "add", 3, 4),
                      WV(6, X, 5), WR(7, R1, 3), RV(8, X), WR(9, R0, 8), Ret(10)>> >>)
\* A load and a device read with results that are not used, and one that is.
Touch == Plain(<< <<RR(1, R0), RM(2, X, 1), RM(3, X, 1), RV(4, X), WR(5, R1, 4), Ret(6)>> >>)
Mrc(r) == Plain(<< <<C(1, 1), St(2, "readdev", Word, <<1>>, X), RV(3, X), WR(4, r, 3), Ret(5)>> >>)
Probe == Plain(<< <<C(1, 1), St(2, "readdev", Word, <<1>>, X), Ret(3)>> >>)
\* Branches: relative to the pc, and to a register.
Br(n) == [Plain(<< <<RR(1, PC), C(2, n), B(3, "add", 1, 2), WR(4, PC, 3), Ret(5)>> >>)
            EXCEPT !.endOfBlock = TRUE, !.jump = "direct", !.offset = n]
Bx == [Plain(<< <<RR(1, R0), WR(2, PC, 1), Ret(3)>> >>)
            EXCEPT !.endOfBlock = TRUE, !.jump = "indirect"]
ReadPC == Plain(<< <<RR(1, PC), WR(2, R0, 1), Ret(3)>> >>)

Instructions ==
    {AddI(R0, 1), AddI(R1, 3), AddI(R0, 0), OpR("sub", R0, R1), OpR("xor", R0, R0), MovI(R0, 2),
     Mov(R1, R0), AndI(R0, 1), AndI(R1, 3), Ldr(R0, R1), Ldr(R1, R1), Str(R0, R1), StrSame(R0),
     Cmp("lt", R0, R1), Cmp("ne", R0, R1), Cmp("ge", R1, R0), Sel(R1), Ext(R0), ShiftZ(R1),
     ShrI(R0, 1), Un("complement", R1, R0), Un("negate", R0, R0), Clamp, Known2, Nested, Once, Hollow, JoinInc, Decoded(1), Decoded(0), Rotate, Swap, PostInc,
     Touch, Mrc(R0), Probe, Br(1), Br(2), Bx, ReadPC, When(IfZ, AddI(R0, 1)),
     When(IfNotZ, Ldr(R0, R1)), When(IfZ, Br(2)), When(IfNotZ, MovI(R1, 1))}

Library == {Generate(insn) : insn \in Instructions}

\* The instructions that follow others, and programs of three.
Followers ==
    {Generate(insn) : insn \in
        {AddI(R0, 1), MovI(R1, 2), Ldr(R1, R0), StrSame(R0), Cmp("lt", R0, R1), Clamp, Nested, Br(1),
         When(IfZ, AddI(R0, 1)), ReadPC}}

Loops ==
    {<<Generate(AddI(R0, 1)), Generate(Br(1)), Generate(insn)>> :
        insn \in {AddI(R0, 1), Ldr(R0, R1), ReadPC, Nested}}
    \cup {<<Generate(Br(2)), Generate(AddI(R1, 3)), Generate(insn)>> :
            insn \in {AddI(R0, 1), Br(3), When(IfZ, Br(3))}}

SamplePrograms == {<<a>> : a \in Library} \cup {<<a, b>> : a \in Library, b \in Followers} \cup Loops

SampleActions == {insn.action : insn \in Instructions} \cup {IfZ, IfNotZ}

SampleMachines ==
    {[rf |-> [i \in 0..6 |-> IF i \in m[1] THEN 1 ELSE 0], junk |-> m[2]] :
        m \in {<<{}, 3>>, <<{0, 6}, 0>>, <<{1, 2, 6}, 2>>, <<{2, 3}, 1>>}}
=============================================================================
