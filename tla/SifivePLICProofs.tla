-------------------------- MODULE SifivePLICProofs --------------------------
(***************************************************************************)
(* Proofs about SifivePLIC for any lines, contexts and driving threads.    *)
(*                                                                         *)
(* ServedOnce needs only that ClaimInterrupt answers with one of its       *)
(* candidates.  EipIsExact rests on what holds at each label of UpdateIRQ  *)
(* and of the changes to a word, while one thread at a time is there.      *)
(***************************************************************************)
EXTENDS SifivePLIC, FiniteSetTheorems, TLAPS

\* The prover of a leaf that names none.
USE Zenon

Update == {"compute", "read", "unpend", "pend"}
Changing == {"assert", "rescind"}
Places == {"idle"} \cup Changing \cup Update

\* The local state of a thread: a thread that is changing a word has a line.
Local ==
  {r \in [at : Places, line : Irqs \cup {0}, word : SUBSET Irqs,
          want : SUBSET Contexts, mip : SUBSET Contexts] :
     /\ r.at = "idle" => r = Idle
     /\ r.at \in Changing => r.line \in Irqs}

TypeOK ==
  /\ asserted \subseteq Irqs /\ pending \subseteq Irqs /\ claimed \subseteq Irqs
  /\ eip \subseteq Contexts
  /\ enable \in [Contexts -> SUBSET Irqs]
  /\ serving \in [Contexts -> SUBSET Irqs]
  /\ pc \in [Threads -> Local]
  /\ raced \in BOOLEAN

-----------------------------------------------------------------------------
(* The answer of a claim.                                                  *)

\* A nonempty set of naturals has a least element.
LEMMA LeastExists ==
  ASSUME NEW S \in SUBSET Nat, S # {}
  PROVE \E m \in S : \A n \in S : m <= n
<1>1. PICK m \in S : \A n \in S : <<n, m>> \notin OpToRel(<, Nat)
  BY NatLessThanWellFounded, WFMin
<1>2. \A n \in S : ~(n < m)
  BY <1>1 DEF OpToRel
<1> QED
  BY <1>2, SMTT(30)

\* A nonempty finite set of naturals has a greatest element: a smallest set
\* without one would still have none after losing an element.
LEMMA GreatestExists ==
  ASSUME NEW S \in SUBSET Nat, IsFiniteSet(S), S # {}
  PROVE \E m \in S : \A n \in S : n <= m
<1> DEFINE HasMax(U) == \E m \in U : \A n \in U : n <= m
           Without == {U \in SUBSET S : U # {} /\ ~HasMax(U)}
<1>1. SUFFICES ASSUME Without # {} PROVE FALSE
  BY <1>1
<1>2. IsWellFoundedOn(StrictSubsetOrdering(S), SUBSET S)
  BY FS_StrictSubsetOrderingWellFounded, FS_FiniteSubsetsOfFinite
<1>3. PICK U \in Without : \A V \in Without : <<V, U>> \notin StrictSubsetOrdering(S)
  BY <1>1, <1>2, WFMin
<1>4. PICK x \in U : TRUE
  OBVIOUS
<1>5. U \ {x} \notin Without
  BY <1>3, <1>4 DEF StrictSubsetOrdering
<1>6. CASE U = {x}
  BY <1>3, <1>6, SMTT(30)
<1>7. CASE U \ {x} # {}
  <2>1. PICK m \in U \ {x} : \A n \in U \ {x} : n <= m
    BY <1>5, <1>7
  <2>2. HasMax(U)
    BY <2>1, SMTT(30)
  <2> QED
    BY <1>3, <2>2
<1> QED
  BY <1>4, <1>6, <1>7

\* What a claim answers is one of the candidates.
LEMMA ChosenIsCandidate ==
  ASSUME NEW S \in SUBSET Irqs, S # {}
  PROVE Chosen(S) \in S
<1> DEFINE Words == {Word(i) : i \in S}
<1>1. Words \in SUBSET Nat /\ Words # {} /\ IsFiniteSet(Words)
  <2>1. IsFiniteSet(S)
    BY IrqsAssumption, FS_Subset
  <2>2. [i \in S |-> Word(i)] \in Surjection(S, Words)
    BY DEF Surjection
  <2>3. \A i \in S : Word(i) \in Nat
    BY IrqsAssumption, WordBitsAssumption, SMTT(30) DEF Word
  <2> QED
    BY <2>1, <2>2, <2>3, FS_Surjection
<1>2. Max(Words) \in Words
  BY <1>1, GreatestExists DEF Max
<1>3. PICK i \in S : Word(i) = Max(Words)
  BY <1>2
<1> DEFINE Last == InWord(S, Max(Words))
<1>4. Last \in SUBSET Nat /\ i \in Last
  BY <1>3, IrqsAssumption DEF InWord
<1>5. Min(Last) \in Last
  BY <1>4, LeastExists DEF Min
<1> QED
  BY <1>5 DEF Chosen, InWord

-----------------------------------------------------------------------------
(* Types and the claims.                                                   *)

\* The operations that end in UpdateIRQ, and the steps of each.
LEMMA PLICCases ==
  ASSUME [Next]_vars
  PROVE \/ \E t \in Threads :
             \/ AssertLine(t) \/ RescindLine(t)
             \/ Compute(t) \/ ReadMIP(t) \/ Unpend(t) \/ Pend(t)
             \/ \E i \in Irqs : Assert(t, i) \/ Rescind(t, i)
        \/ AccessOther
        \/ \E c \in Contexts, w \in Nat : \E v \in SUBSET Irqs : WriteEnable(c, w, v)
        \/ \E c \in Contexts : ClaimInterrupt(c)
        \/ \E c \in Contexts, i \in Irqs : CompleteInterrupt(c, i)
        \/ UNCHANGED vars
<1>1. \A i \in Irqs : Word(i) \in Nat
  BY IrqsAssumption, WordBitsAssumption, SMTT(30) DEF Word
<1>2. \A w : InWord(Irqs, w) \subseteq Irqs
  BY DEF InWord
<1> QED
  BY <1>1, <1>2 DEF Next, Threads

\* What a thread does next, in the fields that change.
LEMMA Locals ==
  /\ Idle \in Local
  /\ \A r \in Local :
       /\ r.line \in Irqs \cup {0} /\ r.word \in SUBSET Irqs /\ r.want \in SUBSET Contexts
       /\ r.at \in Changing => r.line \in Irqs
  /\ \A i \in Irqs, p \in Changing, w \in SUBSET Irqs :
       [Idle EXCEPT !.at = p, !.line = i, !.word = w] \in Local
  /\ \A r \in Local, p \in Update :
       /\ [Idle EXCEPT !.at = p] \in Local
       /\ [Idle EXCEPT !.at = p, !.line = r.line] \in Local
       /\ [r EXCEPT !.at = p] \in Local
       /\ \A C \in SUBSET Contexts : /\ [r EXCEPT !.at = p, !.want = C] \in Local
                                     /\ [r EXCEPT !.at = p, !.mip = C] \in Local
<1> USE DEF Local, Idle, Places, Changing, Update
<1>1. Idle \in Local
  OBVIOUS
<1>2. ASSUME NEW r \in Local
      PROVE /\ r.line \in Irqs \cup {0} /\ r.word \in SUBSET Irqs /\ r.want \in SUBSET Contexts
            /\ r.at \in Changing => r.line \in Irqs
  OBVIOUS
<1>3. ASSUME NEW i \in Irqs, NEW p \in Changing, NEW w \in SUBSET Irqs
      PROVE [Idle EXCEPT !.at = p, !.line = i, !.word = w] \in Local
  OBVIOUS
<1>4. ASSUME NEW r \in Local, NEW p \in Update
      PROVE /\ [Idle EXCEPT !.at = p] \in Local
            /\ [Idle EXCEPT !.at = p, !.line = r.line] \in Local
  BY ZenonT(30)
<1>5. ASSUME NEW r \in Local, NEW p \in Update
      PROVE [r EXCEPT !.at = p] \in Local
  OBVIOUS
<1>6. ASSUME NEW r \in Local, NEW p \in Update, NEW C \in SUBSET Contexts
      PROVE /\ [r EXCEPT !.at = p, !.want = C] \in Local
            /\ [r EXCEPT !.at = p, !.mip = C] \in Local
  OBVIOUS
<1> HIDE DEF Local, Idle, Places, Changing, Update
<1> QED
  BY <1>1, <1>2, <1>3, <1>4, <1>5, <1>6

\* Moving a thread within the PLIC's code keeps the types of pc and raced.
LEMMA GotoType ==
  ASSUME TypeOK, NEW t \in Threads, NEW r \in Local, Goto(t, r)
  PROVE pc' \in [Threads -> Local] /\ raced' \in BOOLEAN
  BY DEF TypeOK, Goto

\* The reset state of the PLIC has the right types.
LEMMA PLICTypeInit == Init => TypeOK
  BY Locals, ZenonT(30) DEF Init, TypeOK

\* Every register access, change of a line and step of UpdateIRQ keeps the types.
LEMMA PLICTypeStep == TypeOK /\ [Next]_vars => TypeOK'
<1> SUFFICES ASSUME TypeOK, [Next]_vars PROVE TypeOK'
  OBVIOUS
<1> USE DEF TypeOK, registers, Changing, Update
<1>1. ASSUME NEW t \in Threads, NEW i \in Irqs, Assert(t, i) \/ Rescind(t, i) PROVE TypeOK'
  BY <1>1, Locals, GotoType, ZenonT(30) DEF Assert, Rescind, InWord
<1>2. ASSUME NEW t \in Threads, AssertLine(t) \/ RescindLine(t) PROVE TypeOK'
  <2>1. pc[t] \in Local /\ pc[t].line \in Irqs /\ pc[t].word \in SUBSET Irqs
    BY <1>2, Locals, ZenonT(30) DEF AssertLine, RescindLine
  <2>2. pc' \in [Threads -> Local] /\ raced' \in BOOLEAN
    BY <1>2, <2>1, Locals, GotoType DEF AssertLine, RescindLine
  <2>3. pending' \subseteq Irqs
    BY <1>2, <2>1 DEF AssertLine, RescindLine, StoreWord
  <2> QED
    BY <1>2, <2>2, <2>3 DEF AssertLine, RescindLine
<1>3. ASSUME NEW t \in Threads, Compute(t) \/ ReadMIP(t) PROVE TypeOK'
  BY <1>3, Locals, GotoType DEF Compute, ReadMIP
<1>4. ASSUME NEW t \in Threads, Unpend(t) \/ Pend(t) PROVE TypeOK'
  <2>1. pc[t] \in Local /\ pc[t].want \in SUBSET Contexts
    BY Locals, ZenonT(30)
  <2>2. pc' \in [Threads -> Local] /\ raced' \in BOOLEAN
    BY <1>4, <2>1, Locals, GotoType, ZenonT(30) DEF Unpend, Pend
  <2> QED
    BY <1>4, <2>1, <2>2 DEF Unpend, Pend
<1>5. ASSUME Access PROVE pc' \in [Threads -> Local] /\ raced' \in BOOLEAN
  BY <1>5, Locals, GotoType DEF Access, Threads
<1>6. CASE AccessOther
  BY <1>5, <1>6 DEF AccessOther, Access
<1>7. ASSUME NEW c \in Contexts, NEW w \in Nat, NEW v \in SUBSET Irqs, WriteEnable(c, w, v)
      PROVE TypeOK'
  BY <1>5, <1>7 DEF WriteEnable, Access
<1>8. ASSUME NEW c \in Contexts, ClaimInterrupt(c) PROVE TypeOK'
  BY <1>5, <1>8, ChosenIsCandidate, ZenonT(30)
     DEF ClaimInterrupt, ClaimFrom, Access, HartPending
<1>9. ASSUME NEW c \in Contexts, NEW i \in Irqs, CompleteInterrupt(c, i) PROVE TypeOK'
  BY <1>5, <1>9 DEF CompleteInterrupt, Access
<1>10. CASE UNCHANGED vars
  BY <1>10 DEF vars
<1> QED
  BY PLICCases, <1>1, <1>2, <1>3, <1>4, <1>6, <1>7, <1>8, <1>9, <1>10

\* A claim takes an interrupt that no context is serving; completing it takes it
\* away from the one context that is.
LEMMA ServedOnceStep == TypeOK /\ ServedOnce /\ [Next]_vars => ServedOnce'
<1> SUFFICES ASSUME TypeOK, ServedOnce, [Next]_vars PROVE ServedOnce'
  OBVIOUS
<1> USE DEF TypeOK, ServedOnce
<1>1. ASSUME UNCHANGED <<claimed, serving>> PROVE ServedOnce'
  BY <1>1
<1>2. ASSUME NEW t \in Threads, NEW i \in Irqs, Assert(t, i) \/ Rescind(t, i)
      PROVE UNCHANGED <<claimed, serving>>
  BY <1>2 DEF Assert, Rescind, registers
<1>3. ASSUME NEW t \in Threads,
             \/ AssertLine(t) \/ RescindLine(t)
             \/ Compute(t) \/ ReadMIP(t) \/ Unpend(t) \/ Pend(t)
      PROVE UNCHANGED <<claimed, serving>>
  BY <1>3 DEF AssertLine, RescindLine, Compute, ReadMIP, Unpend, Pend, registers
<1>4. ASSUME AccessOther \/ \E c \in Contexts, w \in Nat : \E v \in SUBSET Irqs : WriteEnable(c, w, v)
      PROVE UNCHANGED <<claimed, serving>>
  BY <1>4 DEF AccessOther, WriteEnable, registers
<1>5. ASSUME NEW c \in Contexts, ClaimInterrupt(c) PROVE ServedOnce'
  <2>1. CASE HartPending(c) = {}
    BY <1>5, <2>1, SMTT(30) DEF ClaimInterrupt, ClaimFrom
  <2>2. CASE HartPending(c) # {}
    <3> DEFINE x == Chosen(HartPending(c))
    <3>1. x \in Irqs /\ x \notin claimed
      BY <2>2, ChosenIsCandidate, SMTT(30) DEF HartPending
    <3>2. claimed' = claimed \cup {x} /\ serving' = [serving EXCEPT ![c] = @ \cup {x}]
      BY <1>5, <2>2 DEF ClaimInterrupt, ClaimFrom
    <3> HIDE DEF x
    <3> QED
      BY <3>1, <3>2, SMTT(30)
  <2> QED
    BY <2>1, <2>2
<1>6. ASSUME NEW c \in Contexts, NEW i \in Irqs, CompleteInterrupt(c, i) PROVE ServedOnce'
  BY <1>6, SMTT(30) DEF CompleteInterrupt
<1>7. CASE UNCHANGED vars
  BY <1>7 DEF vars
<1> QED
  BY PLICCases, <1>1, <1>2, <1>3, <1>4, <1>5, <1>6, <1>7

-----------------------------------------------------------------------------
(* UpdateIRQ, one thread at a time.                                        *)

Wanted == {c \in Contexts : HartPending(c) # {}}

\* Unless they have raced, at most one thread is in this code.
Alone ==
  ~raced => \A t, u \in Threads : t # u => pc[t] = Idle \/ pc[u] = Idle

\* What holds while a thread is at each label, and no other is in this code.
Phase(r) ==
  /\ r.at \in Changing => r.word = InWord(pending, Word(r.line))
  /\ r.at = "assert" => asserted = pending \cup {r.line}
  /\ r.at = "rescind" => asserted = pending
  /\ r.at \in Update => pending = asserted \ {r.line}
  /\ r.at \in {"read", "unpend", "pend"} => r.want = Wanted
  /\ r.at = "unpend" => r.mip = eip
  /\ r.at = "pend" => eip = r.mip \cap r.want

PhaseOK ==
  ~raced => /\ Quiet => pending = asserted /\ eip = Wanted
            /\ \A t \in Threads : Phase(pc[t])

\* A step that leaves no race behind is taken by the only thread in this code.
LEMMA Solo ==
  ASSUME TypeOK, Alone, NEW t \in Threads, NEW r, Goto(t, r), ~raced', pc[t] # Idle \/ r # Idle
  PROVE /\ ~raced /\ pc'[t] = r
        /\ \A u \in Threads \ {t} : pc[u] = Idle /\ pc'[u] = Idle
  BY DEF TypeOK, Alone, Goto

\* So it is enough to look at that thread.
LEMMA SoloPhase ==
  ASSUME NEW t \in Threads, \A u \in Threads \ {t} : pc'[u] = Idle, Phase(pc[t])',
         pc'[t].at = "idle" => (pending = asserted /\ eip = Wanted)'
  PROVE Alone' /\ PhaseOK'
<1>1. Phase(Idle)'
  BY DEF Phase, Idle, Changing, Update
<1>2. \A u \in Threads : Phase(pc[u])'
  BY <1>1
<1> QED
  BY <1>2 DEF Alone, PhaseOK, Quiet

\* Each step establishes what its thread's next label needs.
LEMMA PhaseStep == TypeOK /\ Alone /\ PhaseOK /\ [Next]_vars => Alone' /\ PhaseOK'
<1> SUFFICES ASSUME TypeOK, Alone, PhaseOK, [Next]_vars PROVE Alone' /\ PhaseOK'
  OBVIOUS
<1>1. CASE raced'
  BY <1>1 DEF Alone, PhaseOK
<1>2. CASE UNCHANGED vars
  BY <1>2 DEF vars, Alone, PhaseOK, Phase, Quiet, Wanted, HartPending
<1> SUFFICES ASSUME ~raced', ~UNCHANGED vars PROVE Alone' /\ PhaseOK'
  BY <1>1, <1>2
<1> USE DEF Update, Changing
\* What the thread that takes the step finds.
<1>3. ASSUME NEW t \in Threads, NEW r, Goto(t, r), pc[t].at # "idle" \/ r # Idle
      PROVE /\ ~raced /\ pc'[t] = r /\ Phase(pc[t])
            /\ \A u \in Threads \ {t} : pc'[u] = Idle
            /\ pc[t].at = "idle" => pending = asserted /\ eip = Wanted
  <2>1. pc[t].at # "idle" => pc[t] # Idle
    BY SMTT(30) DEF Idle
  <2>2. /\ ~raced /\ pc'[t] = r
        /\ \A u \in Threads \ {t} : pc[u] = Idle /\ pc'[u] = Idle
    BY <1>3, <2>1, Solo
  <2>3. pc[t].at = "idle" => Quiet
    BY <2>2, SMTT(30) DEF Quiet, Idle
  <2> QED
    BY <2>2, <2>3 DEF PhaseOK
<1>4. ASSUME NEW t \in Threads, NEW i \in Irqs, Assert(t, i) PROVE Alone' /\ PhaseOK'
  <2> DEFINE r == [Idle EXCEPT !.at = "assert", !.line = i, !.word = InWord(pending, Word(i))]
  <2>1. r # Idle
    BY DEF Idle
  <2>2. /\ pc'[t] = r /\ pending = asserted
        /\ \A u \in Threads \ {t} : pc'[u] = Idle
    BY <1>3, <1>4, <2>1 DEF Assert
  <2>3. Phase(pc[t])' /\ pc'[t].at # "idle"
    BY <1>4, <2>2, SMTT(30) DEF Assert, Phase, Idle
  <2> QED
    BY <2>2, <2>3, SoloPhase
<1>5. ASSUME NEW t \in Threads, NEW i \in Irqs, Rescind(t, i) PROVE Alone' /\ PhaseOK'
  <2> DEFINE r == [Idle EXCEPT !.at = "rescind", !.line = i, !.word = InWord(pending, Word(i))]
  <2>1. r # Idle
    BY DEF Idle
  <2>2. /\ pc'[t] = r /\ pending = asserted
        /\ \A u \in Threads \ {t} : pc'[u] = Idle
    BY <1>3, <1>5, <2>1 DEF Rescind
  <2>3. Phase(pc[t])' /\ pc'[t].at # "idle"
    BY <1>5, <2>2, SMTT(30) DEF Rescind, Phase, Idle
  <2> QED
    BY <2>2, <2>3, SoloPhase
<1>6. ASSUME NEW t \in Threads, AssertLine(t) PROVE Alone' /\ PhaseOK'
  <2>1. /\ pc'[t] = [Idle EXCEPT !.at = "compute"] /\ Phase(pc[t])
        /\ \A u \in Threads \ {t} : pc'[u] = Idle
    BY <1>3, <1>6 DEF AssertLine
  <2>2. pc[t].line \in Irqs /\ 0 \notin Irqs
    BY <1>6, Locals, IrqsAssumption DEF AssertLine, TypeOK
  <2>3. pending' = pending \cup {pc[t].line}
    BY <1>6, <2>1, <2>2 DEF AssertLine, StoreWord, Phase, InWord, TypeOK
  <2>4. pending' = asserted' /\ asserted' \subseteq Irqs
    BY <1>6, <2>1, <2>3 DEF AssertLine, Phase, TypeOK
  <2>5. Phase(pc[t])' /\ pc'[t].at # "idle"
    BY <2>1, <2>2, <2>4, SMTT(30) DEF Phase, Idle
  <2> QED
    BY <2>1, <2>5, SoloPhase
<1>7. ASSUME NEW t \in Threads, RescindLine(t) PROVE Alone' /\ PhaseOK'
  <2>1. /\ pc'[t] = [Idle EXCEPT !.at = "compute", !.line = pc[t].line] /\ Phase(pc[t])
        /\ \A u \in Threads \ {t} : pc'[u] = Idle
    BY <1>3, <1>7 DEF RescindLine
  <2>2. pending' = pending \ {pc[t].line}
    BY <1>7, <2>1 DEF RescindLine, StoreWord, Phase, InWord, TypeOK
  <2>3. pending' = asserted' \ {pc[t].line}
    BY <1>7, <2>1, <2>2 DEF RescindLine, Phase
  <2>4. Phase(pc[t])' /\ pc'[t].at # "idle"
    BY <2>1, <2>3 DEF Phase, Idle
  <2> QED
    BY <2>1, <2>4, SoloPhase
<1>8. ASSUME NEW t \in Threads, Compute(t) PROVE Alone' /\ PhaseOK'
  <2>1. /\ pc'[t] = [pc[t] EXCEPT !.at = "read", !.want = Wanted] /\ Phase(pc[t])
        /\ \A u \in Threads \ {t} : pc'[u] = Idle
    BY <1>3, <1>8 DEF Compute, Wanted
  <2>2. UNCHANGED <<pending, asserted, eip, Wanted>>
    BY <1>8 DEF Compute, registers, Wanted, HartPending
  <2>3. pc[t] \in Local /\ pc[t].at = "compute"
    BY <1>8 DEF Compute, TypeOK
  <2>4. Phase(pc[t])' /\ pc'[t].at # "idle"
    BY <2>1, <2>2, <2>3 DEF Phase, Local
  <2> QED
    BY <2>1, <2>4, SoloPhase
<1>9. ASSUME NEW t \in Threads, ReadMIP(t) PROVE Alone' /\ PhaseOK'
  <2>1. /\ pc'[t] = [pc[t] EXCEPT !.at = "unpend", !.mip = eip] /\ Phase(pc[t])
        /\ \A u \in Threads \ {t} : pc'[u] = Idle
    BY <1>3, <1>9 DEF ReadMIP
  <2>2. UNCHANGED <<pending, asserted, eip, Wanted>>
    BY <1>9 DEF ReadMIP, registers, Wanted, HartPending
  <2>3. pc[t] \in Local /\ pc[t].at = "read"
    BY <1>9 DEF ReadMIP, TypeOK
  <2>4. Phase(pc[t])' /\ pc'[t].at # "idle"
    BY <2>1, <2>2, <2>3 DEF Phase, Local
  <2> QED
    BY <2>1, <2>4, SoloPhase
<1>10. ASSUME NEW t \in Threads, Unpend(t) PROVE Alone' /\ PhaseOK'
  <2>1. /\ pc'[t] = [pc[t] EXCEPT !.at = "pend"] /\ Phase(pc[t])
        /\ \A u \in Threads \ {t} : pc'[u] = Idle
    BY <1>3, <1>10 DEF Unpend
  <2>2. UNCHANGED <<pending, asserted, Wanted>>
    BY <1>10 DEF Unpend, registers, Wanted, HartPending
  <2>3. pc[t] \in Local /\ pc[t].at = "unpend"
    BY <1>10 DEF Unpend, TypeOK
  <2>4. eip' = pc[t].mip \cap pc[t].want
    BY <1>10, <2>1, <2>3 DEF Unpend, Phase
  <2>5. Phase(pc[t])' /\ pc'[t].at # "idle"
    BY <2>1, <2>2, <2>3, <2>4 DEF Phase, Local
  <2> QED
    BY <2>1, <2>5, SoloPhase, ZenonT(30)
<1>11. ASSUME NEW t \in Threads, Pend(t) PROVE Alone' /\ PhaseOK'
  <2>1. /\ pc'[t] = Idle /\ Phase(pc[t])
        /\ \A u \in Threads \ {t} : pc'[u] = Idle
    BY <1>3, <1>11 DEF Pend
  <2>2. UNCHANGED Wanted
    BY <1>11 DEF Pend, registers, Wanted, HartPending
  <2>3. pending' = asserted' /\ eip' = Wanted'
    BY <1>11, <2>1, <2>2 DEF Pend, Phase
  <2>4. Phase(pc[t])'
    BY <2>1, SMTT(30) DEF Phase, Idle
  <2> QED
    BY <2>1, <2>3, <2>4, SoloPhase
<1>12. ASSUME Access PROVE Alone' /\ PhaseOK'
  <2>1. Hart \in Threads /\ [Idle EXCEPT !.at = "compute"] # Idle
    BY DEF Threads, Idle
  <2>2. /\ pc'[Hart] = [Idle EXCEPT !.at = "compute"] /\ pending = asserted
        /\ \A u \in Threads \ {Hart} : pc'[u] = Idle
    BY <1>3, <1>12, <2>1 DEF Access
  <2>3. pending' = asserted' \ {0}
    BY <1>12, <2>2, IrqsAssumption DEF Access, TypeOK
  <2>4. Phase(pc[Hart])' /\ pc'[Hart].at # "idle"
    BY <2>2, <2>3 DEF Phase, Idle
  <2> QED
    BY <2>1, <2>2, <2>4, SoloPhase, ZenonT(30)
<1>13. ASSUME \/ AccessOther \/ \E c \in Contexts : ClaimInterrupt(c)
              \/ \E c \in Contexts, w \in Nat : \E v \in SUBSET Irqs : WriteEnable(c, w, v)
              \/ \E c \in Contexts, i \in Irqs : CompleteInterrupt(c, i)
       PROVE Access
  BY <1>13 DEF AccessOther, ClaimInterrupt, ClaimFrom, WriteEnable, CompleteInterrupt
<1> QED
  BY PLICCases, <1>4, <1>5, <1>6, <1>7, <1>8, <1>9, <1>10, <1>11, <1>12, <1>13

-----------------------------------------------------------------------------
PLICInv == TypeOK /\ ServedOnce /\ Alone /\ PhaseOK

\* The claims are disjoint, and UpdateIRQ's local variables agree with the
\* registers at every label while one thread at a time is in this code.
THEOREM PLICInvariant == Spec => []PLICInv
<1>1. Init => PLICInv
  <2> SUFFICES ASSUME Init PROVE PLICInv
    OBVIOUS
  <2>1. ServedOnce
    BY DEF Init, ServedOnce
  <2>2. Alone
    BY DEF Init, Alone
  <2>3. Phase(Idle)
    BY DEF Phase, Idle, Changing, Update
  <2>4. PhaseOK
    BY <2>3 DEF Init, PhaseOK, Wanted, HartPending
  <2> QED
    BY PLICTypeInit, <2>1, <2>2, <2>4 DEF PLICInv
<1>2. PLICInv /\ [Next]_vars => PLICInv'
  BY PLICTypeStep, ServedOnceStep, PhaseStep DEF PLICInv
<1> QED
  BY <1>1, <1>2, PTL DEF Spec

\* An interrupt has one handler at a time: what ClaimInterrupt hands to a context
\* no context is given again before CompleteInterrupt, on every interleaving.
THEOREM InterruptsAreServedOnce == Spec => []ServedOnce
<1>1. PLICInv => ServedOnce
  BY DEF PLICInv
<1> QED
  BY PLICInvariant, <1>1, PTL

\* When no thread is in this code, and none has met another there, MIP's external
\* interrupt bits are those that the lines, the claims and the enables call for.
THEOREM ExternalInterruptsAreExact == Spec => []EipIsExact
<1>1. PLICInv => EipIsExact
  BY DEF PLICInv, PhaseOK, EipIsExact, Wanted, HartPending
<1> QED
  BY PLICInvariant, <1>1, PTL
=============================================================================
