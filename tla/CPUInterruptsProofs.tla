------------------------ MODULE CPUInterruptsProofs ------------------------
(***************************************************************************)
(* Proofs about CPUInterrupts for any number of lines, device threads and  *)
(* messages.                                                               *)
(*                                                                         *)
(* RaisedIsAnnounced is about the engine loop between operations.  What    *)
(* carries it there is what the one thread that is in this code has done   *)
(* so far (Holds): a Raised line has a message waiting, or that thread is  *)
(* about to send one, or it is handling one and has yet to reach the line. *)
(***************************************************************************)
EXTENDS CPUInterrupts, TLAPS

\* The prover of a leaf that names none.
USE Zenon

Outside == {"idle", "check", "guest"}
Places == Outside \cup {"switch", "store", "take", "test", "interrupt", "scan", "send"}
Ops == {"None", "Assert", "Rescind", "Acknowledge", "Raise", "Pend"}
States == {"Idle", "Raised", "Acknowledged", "Rescinded"}

\* The values that the switch of an operation stores.
Stored(op) ==
  CASE op \in {"Assert", "Raise"} -> {"Raised"}
    [] op = "Rescind" -> {"Rescinded", "Idle"}
    [] op = "Acknowledge" -> {"Acknowledged", "Idle"}
    [] OTHER -> {}

\* The positions a thread can have in an operation.
Local ==
  {r \in [at : Places, op : Ops, line : Lines, new : States] :
     /\ r.at \in Outside => r.op = "None"
     /\ r.at = "switch" => r.op \in {"Assert", "Rescind", "Acknowledge", "Raise"}
     /\ r.at = "store" => r.new \in Stored(r.op)
     /\ r.at = "take" => r.op = "Assert"
     /\ r.at \in {"test", "interrupt"} => r.op = "Acknowledge"
     /\ r.at \in {"scan", "send"} => r.op = "Pend"}

\* Only the CPU's thread handles messages.
Allowed(t, r) ==
  /\ r \in Local
  /\ t # Hart => /\ r.op \notin {"Acknowledge", "Raise", "Pend"}
                 /\ r.at \notin {"check", "guest"}
  /\ t = Hart => r.at # "idle"

TypeOK ==
  /\ asserted \in [Lines -> BOOLEAN]
  /\ state \in [Lines -> States]
  /\ messages \in Nat
  /\ pc \in [Threads -> Local] /\ \A t \in Threads : Allowed(t, pc[t])
  /\ raced \in BOOLEAN

-----------------------------------------------------------------------------
\* Where AfterLine takes a thread.
After(t) ==
  IF pc[t].op = "Acknowledge" /\ pc[t].line < NLines
  THEN At("test", "Acknowledge", pc[t].line + 1)
  ELSE IF pc[t].op = "Raise" /\ pc[t].line < NLines
  THEN At("switch", "Raise", pc[t].line + 1)
  ELSE Return(t)

\* A thread that is done with a line goes where After says: HandleIRQ's loops over
\* the lines go on to the next one, and every other operation returns.
LEMMA AfterLineGoes == ASSUME NEW t, AfterLine(t) PROVE Goto(t, After(t))
<1>1. CASE pc[t].op = "Acknowledge"
  BY <1>1 DEF AfterLine, After, NextLine
<1>2. CASE pc[t].op = "Raise"
  BY <1>2 DEF AfterLine, After, NextLine
<1>3. CASE pc[t].op \notin {"Acknowledge", "Raise"}
  BY <1>3 DEF AfterLine, After
<1> QED
  BY <1>1, <1>2, <1>3

\* What Switch stores next is a value of its operation's table.
LEMMA SwitchStores ==
  ASSUME NEW op \in {"Assert", "Rescind", "Acknowledge", "Raise"},
         NEW old \in DOMAIN SwitchOf(op)
  PROVE /\ SwitchOf(op)[old] \in Stored(op) \cap States
        /\ op = "Raise" => old = "Acknowledged"
  BY DEF SwitchOf, AssertOf, RescindOf, AcknowledgeOf, RaiseOf, Stored, States

\* What Switch leaves alone.
LEMMA SwitchLeaves ==
  ASSUME NEW op \in {"Assert", "Rescind", "Acknowledge", "Raise"},
         NEW old \in States, old \notin DOMAIN SwitchOf(op)
  PROVE /\ op = "Rescind" => old \notin {"Raised", "Acknowledged"}
        /\ op = "Acknowledge" => old # "Raised"
  BY DEF SwitchOf, AssertOf, RescindOf, AcknowledgeOf, RaiseOf, States

\* The positions a thread goes to.
LEMMA Locals ==
  /\ \A t \in Threads : Return(t) \in Local
  /\ At("check", "None", 1) \in Local /\ At("guest", "None", 1) \in Local
  /\ \A l \in Lines : /\ At("switch", "Assert", l) \in Local
                      /\ At("switch", "Rescind", l) \in Local
                      /\ At("switch", "Acknowledge", l) \in Local
                      /\ At("switch", "Raise", l) \in Local
                      /\ At("test", "Acknowledge", l) \in Local
                      /\ At("scan", "Pend", l) \in Local
                      /\ At("send", "Pend", l) \in Local
<1>1. 1 \in Lines
  BY LinesAssumption, SMTT(30) DEF Lines
<1>2. \A l \in Lines : At("switch", "Assert", l) \in Local /\ At("switch", "Rescind", l) \in Local
  BY DEF Local, At, Places, Outside, Ops, States
<1>3. \A l \in Lines : At("switch", "Acknowledge", l) \in Local /\ At("switch", "Raise", l) \in Local
  BY DEF Local, At, Places, Outside, Ops, States
<1>4. \A l \in Lines : At("test", "Acknowledge", l) \in Local
  BY DEF Local, At, Places, Outside, Ops, States
<1>5. \A l \in Lines : At("scan", "Pend", l) \in Local /\ At("send", "Pend", l) \in Local
  BY DEF Local, At, Places, Outside, Ops, States
<1>6. At("check", "None", 1) \in Local /\ At("guest", "None", 1) \in Local
      /\ At("idle", "None", 1) \in Local
  BY <1>1 DEF Local, At, Places, Outside, Ops, States
<1> QED
  BY <1>2, <1>3, <1>4, <1>5, <1>6 DEF Return

\* Where AfterLine goes, from a line of the loop.
LEMMA AfterAllowed ==
  ASSUME TypeOK, NEW t \in Threads
  PROVE Allowed(t, After(t))
<1> DEFINE l == pc[t].line
<1>1. pc[t] \in Local /\ l \in Lines /\ Allowed(t, pc[t])
  BY DEF TypeOK, Local
<1>2. CASE pc[t].op = "Acknowledge" /\ l < NLines
  <2>1. l + 1 \in Lines /\ t = Hart
    BY <1>1, <1>2, LinesAssumption, SMTT(30) DEF Lines, Allowed
  <2>2. After(t) = At("test", "Acknowledge", l + 1)
    BY <1>2 DEF After
  <2>3. After(t) \in Local
    BY <2>1, <2>2, Locals
  <2>4. After(t).at = "test"
    BY <2>2, SMTT(30) DEF At
  <2> QED
    BY <2>1, <2>3, <2>4 DEF Allowed
<1>3. CASE pc[t].op = "Raise" /\ l < NLines
  <2>1. l + 1 \in Lines /\ t = Hart
    BY <1>1, <1>3, LinesAssumption, SMTT(30) DEF Lines, Allowed
  <2>2. After(t) = At("switch", "Raise", l + 1)
    BY <1>3 DEF After
  <2>3. After(t) \in Local
    BY <2>1, <2>2, Locals
  <2>4. After(t).at = "switch"
    BY <2>2, SMTT(30) DEF At
  <2> QED
    BY <2>1, <2>3, <2>4 DEF Allowed
<1>4. CASE ~(pc[t].op \in {"Acknowledge", "Raise"} /\ l < NLines)
  <2>1. After(t) = Return(t)
    BY <1>4 DEF After
  <2> QED
    BY <2>1, Locals, SMTT(30) DEF Allowed, Return, At
<1> QED
  BY <1>2, <1>3, <1>4

\* Return is allowed everywhere, and so is a step within an operation.
LEMMA GotoType ==
  ASSUME TypeOK, NEW t \in Threads, NEW r, Allowed(t, r), Goto(t, r)
  PROVE /\ pc' \in [Threads -> Local] /\ \A u \in Threads : Allowed(u, pc'[u])
        /\ raced' \in BOOLEAN
        /\ pc'[t] = r /\ \A u \in Threads \ {t} : pc'[u] = pc[u]
<1>1. r \in Local
  BY DEF Allowed
<1>2. /\ pc' \in [Threads -> Local]
      /\ pc'[t] = r /\ \A u \in Threads \ {t} : pc'[u] = pc[u]
  BY <1>1 DEF TypeOK, Goto
<1>3. raced' \in BOOLEAN
  BY DEF Goto
<1>4. \A u \in Threads : Allowed(u, pc'[u])
  BY <1>2 DEF TypeOK
<1> QED
  BY <1>2, <1>3, <1>4

-----------------------------------------------------------------------------
\* The steps, with the position each goes to: the start of an operation, the
\* steps of the switch over state_, and the engine loop.
LEMMA CPUCases ==
  ASSUME [Next]_vars
  PROVE \/ \E t \in Threads, l \in Lines : Assert(t, l) \/ Rescind(t, l)
        \/ \E t \in Threads : Switch(t) \/ Store(t) \/ TakeIRQ(t)
        \/ Poll \/ Block
        \/ HandleMessage \/ TestAsserted \/ HandleInterrupt
        \/ \E i \in BOOLEAN : WriteMask(i)
        \/ Scan(Hart) \/ Send(Hart)
        \/ UNCHANGED vars
  BY DEF Next, HartStep, Guest, Device, LineStep, Threads

\* Every variable keeps its type.
LEMMA CPUTypeStep == TypeOK /\ [Next]_vars => TypeOK'
<1> SUFFICES ASSUME TypeOK, [Next]_vars PROVE TypeOK'
  OBVIOUS
<1> DEFINE PositionsOK == /\ pc' \in [Threads -> Local]
                          /\ \A u \in Threads : Allowed(u, pc'[u])
                          /\ raced' \in BOOLEAN
<1>0. Hart \in Threads /\ 1 \in Lines
  BY LinesAssumption, SMTT(30) DEF Threads, Lines
<1>1. ASSUME NEW t \in Threads, NEW l \in Lines, Assert(t, l) \/ Rescind(t, l) PROVE TypeOK'
  <2>1. /\ Allowed(t, At("switch", "Assert", l))
        /\ Allowed(t, At("switch", "Rescind", l))
    BY Locals DEF Allowed, At
  <2>2. PositionsOK
    BY <1>1, <2>1, GotoType DEF Assert, Rescind
  <2> QED
    BY <1>1, <2>2 DEF Assert, Rescind, TypeOK
<1>2. ASSUME NEW t \in Threads, AfterLine(t) PROVE PositionsOK
  BY <1>2, AfterLineGoes, AfterAllowed, GotoType
<1>3. ASSUME NEW t \in Threads, Switch(t) PROVE TypeOK'
  <2> DEFINE old == state[pc[t].line]
             to == SwitchOf(pc[t].op)
             r == [pc[t] EXCEPT !.at = "store", !.new = to[old]]
  <2>1. pc[t] \in Local /\ pc[t].at = "switch" /\ Allowed(t, pc[t])
    BY <1>3 DEF Switch, TypeOK
  <2>2. pc[t].op \in {"Assert", "Rescind", "Acknowledge", "Raise"}
    BY <2>1 DEF Local
  <2>3. CASE old \in DOMAIN to
    <3>1. to[old] \in Stored(pc[t].op) /\ to[old] \in States
      BY <2>2, <2>3, SwitchStores
    <3>2. Allowed(t, r)
      BY <2>1, <2>2, <3>1 DEF Allowed, Local, Places, Outside
    <3>3. PositionsOK
      BY <1>3, <2>3, <3>2, GotoType DEF Switch
    <3> QED
      BY <1>3, <3>3 DEF Switch, TypeOK
  <2>4. CASE old \notin DOMAIN to
    BY <1>2, <1>3, <2>4 DEF Switch, TypeOK
  <2> QED
    BY <2>3, <2>4
<1>4. ASSUME NEW t \in Threads, Store(t) PROVE TypeOK'
  <2>1. pc[t] \in Local /\ pc[t].at = "store" /\ Allowed(t, pc[t])
    BY <1>4 DEF Store, TypeOK
  <2>2. state' \in [Lines -> States]
    BY <1>4, <2>1 DEF Store, TypeOK, Local
  <2>3. CASE pc[t].op = "Assert"
    <3>1. Allowed(t, [pc[t] EXCEPT !.at = "take", !.new = "Idle"])
      BY <2>1, <2>3 DEF Allowed, Local, Places, Outside, States
    <3>2. PositionsOK
      BY <1>4, <2>3, <3>1, GotoType DEF Store
    <3> QED
      BY <1>4, <2>2, <3>2 DEF Store, TypeOK
  <2>4. CASE pc[t].op # "Assert"
    BY <1>2, <1>4, <2>2, <2>4 DEF Store, TypeOK
  <2> QED
    BY <2>3, <2>4
<1>5. ASSUME NEW t \in Threads, TakeIRQ(t) PROVE TypeOK'
  <2>1. Allowed(t, Return(t))
    BY Locals DEF Allowed, Return, At
  <2>2. PositionsOK
    BY <1>5, <2>1, GotoType DEF TakeIRQ
  <2> QED
    BY <1>5, <2>2, SMTT(30) DEF TakeIRQ, TypeOK
<1>6. CASE Poll \/ Block
  <2>1. Allowed(Hart, At("guest", "None", 1)) /\ Allowed(Hart, At("check", "None", 1))
    BY Locals DEF Allowed, At
  <2>2. PositionsOK
    BY <1>0, <1>6, <2>1, GotoType DEF Poll, Block
  <2> QED
    BY <1>6, <2>2 DEF Poll, Block, TypeOK
\* The loops over irq_lines_.
<1>7. ASSUME NEW place, NEW op, <<place, op>> \in {<<"test", "Acknowledge">>, <<"scan", "Pend">>},
             NextLine(Hart, place, op, pc[Hart].line)
      PROVE PositionsOK
  <2>1. pc[Hart].line \in Lines
    BY <1>0 DEF TypeOK, Local
  <2>2. CASE pc[Hart].line < NLines
    <3>1. pc[Hart].line + 1 \in Lines
      BY <2>1, <2>2, LinesAssumption, SMTT(30) DEF Lines
    <3>2. At(place, op, pc[Hart].line + 1) \in Local
      BY <1>7, <3>1, Locals
    <3>3. At(place, op, pc[Hart].line + 1).at = place
      BY DEF At
    <3>4. Allowed(Hart, At(place, op, pc[Hart].line + 1))
      BY <1>7, <3>2, <3>3 DEF Allowed
    <3> QED
      BY <1>0, <1>7, <2>2, <3>4, GotoType DEF NextLine
  <2>3. CASE ~(pc[Hart].line < NLines)
    <3>1. Allowed(Hart, Return(Hart))
      BY <1>0, Locals DEF Allowed, Return, At
    <3> QED
      BY <1>0, <1>7, <2>3, <3>1, GotoType DEF NextLine
  <2> QED
    BY <2>2, <2>3
<1>8. CASE HandleMessage
  <2>1. Allowed(Hart, At("test", "Acknowledge", 1))
    BY <1>0, Locals DEF Allowed, At
  <2>2. PositionsOK
    BY <1>0, <1>8, <2>1, GotoType DEF HandleMessage
  <2> QED
    BY <1>8, <2>2, SMTT(30) DEF HandleMessage, TypeOK
<1>9. CASE TestAsserted
  <2>1. pc[Hart] \in Local /\ pc[Hart].at = "test"
    BY <1>0, <1>9 DEF TestAsserted, TypeOK
  <2>2. Allowed(Hart, [pc[Hart] EXCEPT !.at = "interrupt"])
    BY <2>1 DEF Allowed, Local, Places, Outside
  <2>3. PositionsOK
    BY <1>0, <1>7, <1>9, <2>2, GotoType, SMTT(30) DEF TestAsserted
  <2> QED
    BY <1>9, <2>3 DEF TestAsserted, TypeOK
<1>10. CASE HandleInterrupt
  <2>1. pc[Hart].line \in Lines
    BY <1>0 DEF TypeOK, Local
  <2>2. Allowed(Hart, At("switch", "Acknowledge", pc[Hart].line))
    BY <2>1, Locals DEF Allowed, At
  <2>3. PositionsOK
    BY <1>0, <1>7, <1>10, <2>2, GotoType, SMTT(30) DEF HandleInterrupt
  <2> QED
    BY <1>10, <2>3 DEF HandleInterrupt, TypeOK
<1>11. CASE \E i \in BOOLEAN : WriteMask(i)
  <2>1. Allowed(Hart, At("scan", "Pend", 1))
    BY <1>0, Locals DEF Allowed, At
  <2>2. PositionsOK
    BY <1>0, <1>11, <2>1, GotoType DEF WriteMask
  <2> QED
    BY <1>11, <2>2 DEF WriteMask, TypeOK
<1>12. CASE Scan(Hart)
  <2>1. Allowed(Hart, At("send", "Pend", 1))
    BY <1>0, Locals DEF Allowed, At
  <2>2. PositionsOK
    BY <1>0, <1>7, <1>12, <2>1, GotoType, SMTT(30) DEF Scan
  <2> QED
    BY <1>12, <2>2 DEF Scan, TypeOK
<1>13. CASE Send(Hart)
  <2>1. Allowed(Hart, At("switch", "Raise", 1))
    BY <1>0, Locals DEF Allowed, At
  <2>2. PositionsOK
    BY <1>0, <1>13, <2>1, GotoType DEF Send
  <2> QED
    BY <1>13, <2>2, SMTT(30) DEF Send, TypeOK
<1>14. CASE UNCHANGED vars
  BY <1>14 DEF vars, TypeOK
<1> QED
  BY CPUCases, <1>1, <1>3, <1>4, <1>5, <1>6, <1>8, <1>9, <1>10, <1>11, <1>12, <1>13, <1>14

-----------------------------------------------------------------------------
(* One thread in this code at a time.                                      *)

Alone ==
  ~raced => \A t, u \in Threads : t # u => ~InCode(pc[t]) \/ ~InCode(pc[u])

\* The thread is taking the line down.
Rescinding(r, l) == r.op = "Rescind" /\ r.line = l

\* The thread is about to send a message, or its loop has still to reach the line.
Covers(r, l) == r.at = "take" \/ (r.op = "Acknowledge" /\ r.line <= l)

\* What holds when a thread at position r is the only one in this code: a line in
\* service or waiting for it is high, and a waiting one is announced.
Holds(r) ==
  /\ \A l \in Lines :
       /\ state[l] \in {"Raised", "Acknowledged"} => asserted[l] \/ Rescinding(r, l)
       /\ state[l] = "Raised" => messages > 0 \/ Covers(r, l)
  /\ r.op = "Assert" => asserted[r.line]
  /\ r.op = "Acknowledge" /\ r.at # "test" => asserted[r.line]
  /\ r.op = "Raise" => messages > 0
  /\ r.op = "Raise" /\ r.at = "store" => state[r.line] = "Acknowledged"

HoldsOK ==
  ~raced => \A t \in Threads :
              (\A u \in Threads \ {t} : ~InCode(pc[u])) => Holds(pc[t])

CPUInv == TypeOK /\ Alone /\ HoldsOK

\* The loop of HandleIRQ comes to every line after k once it has gone past k.
LEMMA Later ==
  ASSUME NEW k \in Nat, NEW l \in Nat, l # k, k <= l
  PROVE k + 1 <= l
  BY SMTT(30)

\* A step that leaves no race behind is taken by the only thread in this code.
LEMMA Solo ==
  ASSUME TypeOK, Alone, HoldsOK, ~raced',
         NEW t \in Threads, NEW r, Goto(t, r), InCode(pc[t]) \/ InCode(r)
  PROVE /\ ~raced /\ pc'[t] = r /\ Holds(pc[t])
        /\ \A u \in Threads \ {t} : ~InCode(pc'[u])
<1>1. pc'[t] = r /\ \A u \in Threads \ {t} : pc'[u] = pc[u]
  BY DEF Goto, TypeOK
<1>2. ~raced /\ (InCode(r) => \A u \in Threads \ {t} : ~InCode(pc[u]))
  BY DEF Goto
<1>3. InCode(pc[t]) => \A u \in Threads \ {t} : ~InCode(pc[u])
  BY <1>2 DEF Alone
<1> QED
  BY <1>1, <1>2, <1>3 DEF HoldsOK

\* So it is enough to look at that thread: outside this code a thread's position
\* says nothing about the lines.
LEMMA SoloHolds ==
  ASSUME TypeOK', NEW t \in Threads, \A u \in Threads \ {t} : ~InCode(pc'[u]), Holds(pc[t])'
  PROVE Alone' /\ HoldsOK'
<1>1. ASSUME NEW u \in Threads \ {t}, ~InCode(pc'[t]) PROVE Holds(pc[u])'
  <2>1. pc'[t] \in Local /\ pc'[u] \in Local /\ ~InCode(pc'[u])
    BY <1>1 DEF TypeOK
  <2>2. /\ pc'[t].op = "None" /\ pc'[t].at # "take"
        /\ pc'[u].op = "None" /\ pc'[u].at # "take"
    BY <1>1, <2>1 DEF Local, InCode, Outside
  <2> QED
    BY <2>2 DEF Holds, Rescinding, Covers
<1> QED
  BY <1>1 DEF Alone, HoldsOK

\* Each step leaves the lines as the next position needs them.
LEMMA HoldsStep ==
  TypeOK /\ TypeOK' /\ Alone /\ HoldsOK /\ [Next]_vars => Alone' /\ HoldsOK'
<1> SUFFICES ASSUME TypeOK, TypeOK', Alone, HoldsOK, [Next]_vars PROVE Alone' /\ HoldsOK'
  OBVIOUS
<1>1. CASE raced'
  BY <1>1 DEF Alone, HoldsOK
<1>2. CASE UNCHANGED vars
  BY <1>2 DEF vars, Alone, HoldsOK, Holds
<1> SUFFICES ASSUME ~raced', ~UNCHANGED vars PROVE Alone' /\ HoldsOK'
  BY <1>1, <1>2
<1>0. Hart \in Threads /\ 1 \in Lines /\ NLines \in Nat
  BY LinesAssumption, SMTT(30) DEF Threads, Lines
\* What a thread in this code, or entering it, finds and has to establish.
<1>3. ASSUME NEW t \in Threads, NEW r, Goto(t, r), InCode(pc[t]) \/ InCode(r),
             Holds(pc[t]) /\ pc'[t] = r => Holds(pc[t])'
      PROVE Alone' /\ HoldsOK'
  BY <1>3, Solo, SoloHolds
<1>4. ASSUME NEW t \in Threads, NEW l \in Lines, Assert(t, l) PROVE Alone' /\ HoldsOK'
  <2>1. InCode(At("switch", "Assert", l)) /\ pc[t] \in Local /\ pc[t].at \in Outside
    BY <1>4 DEF InCode, At, Assert, Free, Outside, TypeOK
  <2>2. pc[t].op = "None" /\ pc[t].at # "take"
    BY <2>1 DEF Local, Outside
  <2>3. ASSUME Holds(pc[t]), pc'[t] = At("switch", "Assert", l) PROVE Holds(pc[t])'
    BY <1>4, <2>2, <2>3, SMTT(30) DEF Assert, Holds, Rescinding, Covers, At, TypeOK
  <2> QED
    BY <1>3, <1>4, <2>1, <2>3 DEF Assert
<1>5. ASSUME NEW t \in Threads, NEW l \in Lines, Rescind(t, l) PROVE Alone' /\ HoldsOK'
  <2>1. InCode(At("switch", "Rescind", l)) /\ pc[t] \in Local /\ pc[t].at \in Outside
    BY <1>5 DEF InCode, At, Rescind, Free, Outside, TypeOK
  <2>2. pc[t].op = "None" /\ pc[t].at # "take"
    BY <2>1 DEF Local, Outside
  <2>3. ASSUME Holds(pc[t]), pc'[t] = At("switch", "Rescind", l) PROVE Holds(pc[t])'
    BY <1>5, <2>2, <2>3, SMTT(30) DEF Rescind, Holds, Rescinding, Covers, At, TypeOK
  <2> QED
    BY <1>3, <1>5, <2>1, <2>3 DEF Rescind
\* The end of a line's switch, once the line needs nothing more of the thread.
<1>6. ASSUME NEW t \in Threads, pc[t].at \in {"switch", "store"}, Holds(pc[t]),
             pc'[t] = After(t), UNCHANGED <<asserted, messages>>,
             \A l \in Lines \ {pc[t].line} : state'[l] = state[l],
             state'[pc[t].line] \in {"Raised", "Acknowledged"} => asserted[pc[t].line],
             state'[pc[t].line] = "Raised" => messages > 0
      PROVE Holds(pc[t])'
  <2> DEFINE k == pc[t].line
  <2>1. k \in Lines /\ k \in Nat /\ Lines \subseteq Nat /\ \A l \in Lines : l <= NLines
    BY <1>0, SMTT(30) DEF TypeOK, Local, Lines
  <2>2. \A l \in Lines : state'[l] \in {"Raised", "Acknowledged"} => asserted'[l]
    BY <1>6 DEF Holds, Rescinding
  <2>3. \A l \in Lines : state'[l] = "Raised" =>
          messages' > 0 \/ (pc[t].op = "Acknowledge" /\ k + 1 <= l)
    BY <1>6, <2>1, SMTT(30) DEF Holds, Covers
  <2>4. pc[t].op = "Raise" => messages' > 0
    BY <1>6 DEF Holds
  <2>5. CASE pc[t].op = "Acknowledge" /\ k < NLines
    <3>1. pc'[t] = At("test", "Acknowledge", k + 1)
      BY <1>6, <2>5 DEF After
    <3>2. pc'[t].at = "test" /\ pc'[t].op = "Acknowledge" /\ pc'[t].line = k + 1
      BY <3>1, SMTT(30) DEF At
    <3> QED
      BY <2>2, <2>3, <3>2 DEF Holds, Covers
  <2>6. CASE pc[t].op = "Raise" /\ k < NLines
    <3>1. pc'[t] = At("switch", "Raise", k + 1)
      BY <1>6, <2>6 DEF After
    <3>2. pc'[t].at = "switch" /\ pc'[t].op = "Raise"
      BY <3>1, SMTT(30) DEF At
    <3> QED
      BY <2>2, <2>4, <2>6, <3>2 DEF Holds
  <2>7. CASE ~(pc[t].op \in {"Acknowledge", "Raise"} /\ k < NLines)
    <3>1. pc'[t] = Return(t)
      BY <1>6, <2>7 DEF After
    <3>2. pc'[t].op = "None"
      BY <3>1, SMTT(30) DEF Return, At
    <3>3. \A l \in Lines : state'[l] = "Raised" => messages' > 0
      BY <1>0, <2>1, <2>3, <2>7, SMTT(30)
    <3> QED
      BY <2>2, <3>2, <3>3 DEF Holds
  <2> QED
    BY <2>5, <2>6, <2>7
<1>7. ASSUME NEW t \in Threads, Switch(t) PROVE Alone' /\ HoldsOK'
  <2> DEFINE old == state[pc[t].line]
             to == SwitchOf(pc[t].op)
             r == [pc[t] EXCEPT !.at = "store", !.new = to[old]]
  <2>1. pc[t] \in Local /\ pc[t].at = "switch" /\ InCode(pc[t]) /\ pc[t].line \in Lines
    BY <1>7 DEF Switch, TypeOK, InCode, Local
  <2>2. pc[t].op \in {"Assert", "Rescind", "Acknowledge", "Raise"}
    BY <2>1 DEF Local
  <2>3. UNCHANGED <<asserted, state, messages>> /\ old \in States
    BY <1>7, <2>1 DEF Switch, TypeOK
  <2>4. CASE old \in DOMAIN to
    <3>1. pc[t].op = "Raise" => old = "Acknowledged"
      BY <2>2, <2>4, SwitchStores
    <3>2. r.at = "store" /\ r.op = pc[t].op /\ r.line = pc[t].line
      BY <2>1 DEF Local
    <3> HIDE DEF r
    <3>3. ASSUME Holds(pc[t]), pc'[t] = r PROVE Holds(pc[t])'
      BY <2>1, <2>3, <3>1, <3>2, <3>3 DEF Holds, Rescinding, Covers
    <3>4. Goto(t, r)
      BY <1>7, <2>4 DEF Switch, r
    <3> QED
      BY <1>3, <2>1, <3>3, <3>4
  <2>5. CASE old \notin DOMAIN to
    <3>1. /\ pc[t].op = "Rescind" => old \notin {"Raised", "Acknowledged"}
          /\ pc[t].op = "Acknowledge" => old # "Raised"
      BY <2>2, <2>3, <2>5, SwitchLeaves
    <3>2. Goto(t, After(t))
      BY <1>7, <2>5, AfterLineGoes DEF Switch
    <3>3. ASSUME Holds(pc[t]), pc'[t] = After(t) PROVE Holds(pc[t])'
      <4>1. /\ old \in {"Raised", "Acknowledged"} => asserted[pc[t].line]
            /\ old = "Raised" => messages > 0
        BY <2>1, <3>1, <3>3 DEF Holds, Rescinding, Covers
      <4> QED
        BY <1>6, <2>1, <2>3, <3>3, <4>1
    <3> QED
      BY <1>3, <2>1, <3>2, <3>3
  <2> QED
    BY <2>4, <2>5
<1>8. ASSUME NEW t \in Threads, Store(t) PROVE Alone' /\ HoldsOK'
  <2> DEFINE k == pc[t].line
  <2>1. /\ pc[t] \in Local /\ pc[t].at = "store" /\ InCode(pc[t])
        /\ k \in Lines /\ pc[t].new \in Stored(pc[t].op)
    BY <1>8 DEF Store, TypeOK, InCode, Local
  <2>2. /\ UNCHANGED <<asserted, messages>> /\ state'[k] = pc[t].new
        /\ \A l \in Lines \ {k} : state'[l] = state[l]
    BY <1>8, <2>1 DEF Store, TypeOK
  <2>3. CASE pc[t].op = "Assert"
    <3> DEFINE r == [pc[t] EXCEPT !.at = "take", !.new = "Idle"]
    <3>1. r.at = "take" /\ r.op = "Assert" /\ r.line = k
      BY <2>1, <2>3 DEF Local
    <3> HIDE DEF r
    <3>2. ASSUME Holds(pc[t]), pc'[t] = r PROVE Holds(pc[t])'
      BY <2>1, <2>2, <2>3, <3>1, <3>2 DEF Holds, Rescinding, Covers
    <3>3. Goto(t, r)
      BY <1>8, <2>3 DEF Store, r
    <3> QED
      BY <1>3, <2>1, <3>2, <3>3
  <2>4. CASE pc[t].op # "Assert"
    <3>1. Goto(t, After(t))
      BY <1>8, <2>4, AfterLineGoes DEF Store
    <3>2. ASSUME Holds(pc[t]), pc'[t] = After(t) PROVE Holds(pc[t])'
      <4>1. /\ pc[t].new \in {"Raised", "Acknowledged"} => asserted[k]
            /\ pc[t].new = "Raised" => messages > 0
        BY <2>1, <2>4, <3>2 DEF Holds, Stored, Rescinding
      <4> QED
        BY <1>6, <2>1, <2>2, <3>2, <4>1
    <3> QED
      BY <1>3, <2>1, <3>1, <3>2
  <2> QED
    BY <2>3, <2>4
<1>9. ASSUME NEW t \in Threads, TakeIRQ(t) PROVE Alone' /\ HoldsOK'
  <2>1. pc[t].at = "take" /\ pc[t].op = "Assert" /\ InCode(pc[t])
    BY <1>9 DEF TakeIRQ, TypeOK, InCode, Local
  <2>2. UNCHANGED <<asserted, state>> /\ messages' > 0 /\ Return(t).op = "None"
    BY <1>9, SMTT(30) DEF TakeIRQ, TypeOK, Return, At
  <2>3. ASSUME Holds(pc[t]), pc'[t] = Return(t) PROVE Holds(pc[t])'
    BY <2>1, <2>2, <2>3 DEF Holds, Rescinding
  <2> QED
    BY <1>3, <1>9, <2>1, <2>3 DEF TakeIRQ
\* The engine loop itself is outside, whoever is inside.
<1>10. CASE Poll \/ Block
  <2>1. /\ pc[Hart].at \in Outside /\ pc[Hart] \in Local
        /\ UNCHANGED <<asserted, state, messages>>
    BY <1>0, <1>10 DEF Poll, Block, TypeOK, Outside
  <2>2. PICK r \in {At("guest", "None", 1), At("check", "None", 1)} : Goto(Hart, r)
    BY <1>10 DEF Poll, Block
  <2>3. /\ ~InCode(pc[Hart]) /\ pc[Hart].op = "None" /\ pc[Hart].at # "take"
        /\ ~InCode(r) /\ r.op = "None" /\ r.at # "take"
    BY <2>1, <2>2, SMTT(30) DEF InCode, Outside, Local, At
  <2>4. pc'[Hart] = r /\ \A u \in Threads \ {Hart} : pc'[u] = pc[u]
    BY <1>0, <2>2 DEF Goto, TypeOK
  <2>5. ~raced /\ \A u \in Threads : InCode(pc'[u]) <=> InCode(pc[u])
    BY <2>2, <2>3, <2>4 DEF Goto
  <2>6. Alone'
    BY <2>5 DEF Alone
  <2>7. ASSUME NEW t \in Threads, Holds(pc[t]) PROVE Holds(pc[t])'
    <3>1. CASE t = Hart
      BY <2>1, <2>3, <2>4, <2>7, <3>1 DEF Holds, Rescinding, Covers
    <3>2. CASE t # Hart
      BY <2>1, <2>4, <2>7, <3>2 DEF Holds
    <3> QED
      BY <3>1, <3>2
  <2> QED
    BY <2>5, <2>6, <2>7 DEF HoldsOK
<1>11. CASE HandleMessage
  <2> DEFINE r == At("test", "Acknowledge", 1)
  <2>1. /\ pc[Hart] \in Local /\ pc[Hart].at \in Outside /\ InCode(r)
        /\ r.at = "test" /\ r.op = "Acknowledge" /\ r.line = 1
    BY <1>0, <1>11 DEF HandleMessage, TypeOK, InCode, Outside, At
  <2>2. pc[Hart].op = "None" /\ \A l \in Lines : 1 <= l
    BY <1>0, <2>1, SMTT(30) DEF Local, Lines
  <2>3. UNCHANGED <<asserted, state>> /\ Goto(Hart, r)
    BY <1>11 DEF HandleMessage
  <2> HIDE DEF r
  <2>4. ASSUME Holds(pc[Hart]), pc'[Hart] = r PROVE Holds(pc[Hart])'
    BY <2>1, <2>2, <2>3, <2>4 DEF Holds, Rescinding, Covers
  <2> QED
    BY <1>0, <1>3, <2>1, <2>3, <2>4
\* The loop of HandleIRQ goes past a line that is not Raised.
<1>12. ASSUME pc[Hart].at \in {"test", "interrupt"}, state[pc[Hart].line] # "Raised",
              NextLine(Hart, "test", "Acknowledge", pc[Hart].line),
              UNCHANGED <<asserted, state, messages>>
       PROVE Alone' /\ HoldsOK'
  <2> DEFINE k == pc[Hart].line
             r == IF k < NLines THEN At("test", "Acknowledge", k + 1) ELSE Return(Hart)
  <2>1. /\ k \in Lines /\ k \in Nat /\ Lines \subseteq Nat /\ \A l \in Lines : l <= NLines
        /\ pc[Hart].op = "Acknowledge" /\ pc[Hart].at # "take" /\ InCode(pc[Hart])
    BY <1>0, <1>12, SMTT(30) DEF TypeOK, Local, Lines, InCode
  <2>2. /\ k < NLines => r.at = "test" /\ r.op = "Acknowledge" /\ r.line = k + 1
        /\ ~(k < NLines) => r.op = "None"
    BY DEF Return, At
  <2>3. Goto(Hart, r)
    BY <1>12 DEF NextLine
  <2> HIDE DEF r
  <2>4. ASSUME Holds(pc[Hart]), pc'[Hart] = r PROVE Holds(pc[Hart])'
    <3>1. \A l \in Lines : state'[l] \in {"Raised", "Acknowledged"} => asserted'[l]
      BY <1>12, <2>1, <2>4 DEF Holds, Rescinding
    <3>2. \A l \in Lines : state'[l] = "Raised" => messages' > 0 \/ k + 1 <= l
      <4>1. \A l \in Lines : l # k /\ k <= l => k + 1 <= l
        BY <2>1, Later
      <4> QED
        BY <1>12, <2>1, <2>4, <4>1 DEF Holds, Covers
    <3>3. CASE k < NLines
      BY <2>2, <2>4, <3>1, <3>2, <3>3 DEF Holds, Covers
    <3>4. CASE ~(k < NLines)
      <4>1. \A l \in Lines : state'[l] = "Raised" => messages' > 0
        BY <1>0, <2>1, <3>2, <3>4, SMTT(30)
      <4> QED
        BY <2>2, <2>4, <3>1, <3>4, <4>1 DEF Holds
    <3> QED
      BY <3>3, <3>4
  <2> QED
    BY <1>0, <1>3, <2>1, <2>3, <2>4
<1>13. CASE TestAsserted
  <2> DEFINE r == [pc[Hart] EXCEPT !.at = "interrupt"]
  <2>1. /\ pc[Hart] \in Local /\ pc[Hart].at = "test" /\ pc[Hart].op = "Acknowledge"
        /\ pc[Hart].line \in Lines /\ InCode(pc[Hart])
        /\ UNCHANGED <<asserted, state, messages>>
    BY <1>0, <1>13 DEF TestAsserted, TypeOK, Local, InCode
  <2>2. CASE asserted[pc[Hart].line]
    <3>1. r.at = "interrupt" /\ r.op = "Acknowledge" /\ r.line = pc[Hart].line
      BY <2>1 DEF Local
    <3>2. Goto(Hart, r)
      BY <1>13, <2>2 DEF TestAsserted
    <3> HIDE DEF r
    <3>3. ASSUME Holds(pc[Hart]), pc'[Hart] = r PROVE Holds(pc[Hart])'
      BY <2>1, <2>2, <3>1, <3>3 DEF Holds, Rescinding, Covers
    <3> QED
      BY <1>0, <1>3, <2>1, <3>2, <3>3
  <2>3. CASE ~asserted[pc[Hart].line]
    <3>1. PICK r2 : Goto(Hart, r2)
      BY <1>13, <2>3 DEF TestAsserted, NextLine
    <3>2. Holds(pc[Hart])
      BY <1>0, <2>1, <3>1, Solo
    <3>3. state[pc[Hart].line] # "Raised"
      BY <2>1, <2>3, <3>2 DEF Holds, Rescinding
    <3> QED
      BY <1>12, <1>13, <2>1, <2>3, <3>3 DEF TestAsserted
  <2> QED
    BY <2>2, <2>3
<1>14. CASE HandleInterrupt
  <2> DEFINE r == At("switch", "Acknowledge", pc[Hart].line)
  <2>1. /\ pc[Hart].at = "interrupt" /\ pc[Hart].op = "Acknowledge" /\ InCode(pc[Hart])
        /\ UNCHANGED <<asserted, state, messages>>
    BY <1>0, <1>14 DEF HandleInterrupt, TypeOK, Local, InCode
  <2>2. CASE state[pc[Hart].line] # "Acknowledged"
    <3>1. r.at = "switch" /\ r.op = "Acknowledge" /\ r.line = pc[Hart].line
      BY DEF At
    <3>2. Goto(Hart, r)
      BY <1>14, <2>2 DEF HandleInterrupt
    <3> HIDE DEF r
    <3>3. ASSUME Holds(pc[Hart]), pc'[Hart] = r PROVE Holds(pc[Hart])'
      BY <2>1, <3>1, <3>3 DEF Holds, Rescinding, Covers
    <3> QED
      BY <1>0, <1>3, <2>1, <3>2, <3>3
  <2>3. CASE state[pc[Hart].line] = "Acknowledged"
    BY <1>12, <1>14, <2>1, <2>3 DEF HandleInterrupt
  <2> QED
    BY <2>2, <2>3
\* PendIRQ: nothing is raised again before its message is sent.
<1>15. ASSUME NEW r, Goto(Hart, r), r.op \in {"None", "Pend"}, r.at # "take",
              pc[Hart].op \in {"None", "Pend"}, pc[Hart].at # "take",
              InCode(pc[Hart]) \/ InCode(r), UNCHANGED <<asserted, state, messages>>
       PROVE Alone' /\ HoldsOK'
  <2>1. ASSUME Holds(pc[Hart]), pc'[Hart] = r PROVE Holds(pc[Hart])'
    BY <1>15, <2>1 DEF Holds, Rescinding, Covers
  <2> QED
    BY <1>0, <1>3, <1>15, <2>1
<1>16. CASE \E i \in BOOLEAN : WriteMask(i)
  <2> DEFINE r == At("scan", "Pend", 1)
  <2>1. pc[Hart].op = "None" /\ pc[Hart].at # "take" /\ UNCHANGED <<asserted, state, messages>>
    BY <1>0, <1>16 DEF WriteMask, TypeOK, Local, Outside
  <2>2. r.op = "Pend" /\ r.at # "take" /\ InCode(r)
    BY DEF At, InCode
  <2>3. Goto(Hart, r)
    BY <1>16 DEF WriteMask
  <2> HIDE DEF r
  <2> QED
    BY <1>15, <2>1, <2>2, <2>3
<1>17. CASE Scan(Hart)
  <2>1. /\ pc[Hart].op = "Pend" /\ pc[Hart].at # "take" /\ InCode(pc[Hart])
        /\ UNCHANGED <<asserted, state, messages>>
    BY <1>0, <1>17 DEF Scan, TypeOK, Local, InCode
  <2>2. PICK r \in {At("send", "Pend", 1), At("scan", "Pend", pc[Hart].line + 1), Return(Hart)} :
          Goto(Hart, r)
    BY <1>17 DEF Scan, NextLine
  <2>3. r.op \in {"None", "Pend"} /\ r.at # "take"
    BY <2>2, SMTT(30) DEF At, Return
  <2> QED
    BY <1>15, <2>1, <2>2, <2>3
<1>18. CASE Send(Hart)
  <2> DEFINE r == At("switch", "Raise", 1)
  <2>1. pc[Hart].op = "Pend" /\ pc[Hart].at # "take" /\ InCode(pc[Hart])
    BY <1>0, <1>18 DEF Send, TypeOK, Local, InCode
  <2>2. UNCHANGED <<asserted, state>> /\ messages' > 0
    BY <1>18, SMTT(30) DEF Send, TypeOK
  <2>3. r.at = "switch" /\ r.op = "Raise" /\ r.line = 1
    BY DEF At
  <2>4. Goto(Hart, r)
    BY <1>18 DEF Send
  <2> HIDE DEF r
  <2>5. ASSUME Holds(pc[Hart]), pc'[Hart] = r PROVE Holds(pc[Hart])'
    BY <2>1, <2>2, <2>3, <2>5 DEF Holds, Rescinding
  <2> QED
    BY <1>0, <1>3, <2>1, <2>4, <2>5
<1> QED
  BY CPUCases, <1>4, <1>5, <1>7, <1>8, <1>9, <1>10, <1>11, <1>13, <1>14, <1>16, <1>17, <1>18

-----------------------------------------------------------------------------
\* Positions have their types, and while no two operations have overlapped the
\* lines and the messages agree with the position of the thread in this code.
THEOREM CPUInvariant == Spec => []CPUInv
<1>1. Init => CPUInv
  <2> SUFFICES ASSUME Init PROVE CPUInv
    OBVIOUS
  <2>1. \A t \in Threads : pc[t] \in Local /\ Allowed(t, pc[t]) /\ ~InCode(pc[t]) /\ pc[t].op = "None"
    <3>1. At("guest", "None", 1) \in Local /\ \A t \in Threads : t # Hart => At("idle", "None", 1) \in Local
      BY Locals DEF Return
    <3> QED
      BY <3>1 DEF Init, Allowed, InCode, At
  <2>2. TypeOK
    BY <2>1 DEF Init, TypeOK, States
  <2>3. Alone
    BY <2>1 DEF Alone
  <2>4. HoldsOK
    BY <2>1 DEF Init, HoldsOK, Holds
  <2> QED
    BY <2>2, <2>3, <2>4 DEF CPUInv
<1>2. CPUInv /\ [Next]_vars => CPUInv'
  BY CPUTypeStep, HoldsStep DEF CPUInv
<1> QED
  BY <1>1, <1>2, PTL DEF Spec

\* When the engine loop is between operations, every Raised line has a message
\* waiting or a device thread on its way to send it, unless operations overlapped.
THEOREM RaisedLinesAreAnnounced == Spec => []RaisedIsAnnounced
<1>1. CPUInv => RaisedIsAnnounced
  <2> SUFFICES ASSUME CPUInv, pc[Hart].at \in {"check", "guest"}, ~raced,
                      NEW l \in Lines, state[l] = "Raised"
               PROVE messages > 0 \/ \E t \in Others : pc[t].at = "take"
    BY DEF RaisedIsAnnounced
  <2> USE DEF CPUInv
  <2>1. Hart \in Threads /\ Others \subseteq Threads /\ Threads = {Hart} \cup Others
    BY DEF Threads
  <2>2. pc[Hart].op = "None" /\ ~InCode(pc[Hart])
    BY <2>1 DEF TypeOK, Local, Outside, InCode
  <2>3. CASE \E t \in Others : InCode(pc[t])
    <3>1. PICK t \in Others : InCode(pc[t])
      BY <2>3
    <3>2. t # Hart /\ t \in Threads /\ Holds(pc[t])
      BY <2>1, <2>2, <3>1 DEF Alone, HoldsOK
    <3>3. pc[t].op # "Acknowledge"
      BY <3>2 DEF TypeOK, Allowed
    <3> QED
      BY <3>2, <3>3 DEF Holds, Covers
  <2>4. CASE \A t \in Others : ~InCode(pc[t])
    <3>1. Holds(pc[Hart])
      BY <2>1, <2>4 DEF HoldsOK
    <3> QED
      BY <2>2, <3>1 DEF Holds, Covers
  <2> QED
    BY <2>3, <2>4
<1> QED
  BY CPUInvariant, <1>1, PTL
=============================================================================
