----------------------------- MODULE HartProofs -----------------------------
(***************************************************************************)
(* Proofs about the two parts of a core: RiscVCoprocessor, for any number  *)
(* of device threads, and CodeCaches, for any pages and any programs.      *)
(*                                                                         *)
(* lock_ keeps the locked checks apart (LockOK), so a second thread in     *)
(* CheckForInterrupts means that an unlocked check overlaps it.  Where     *)
(* there is one thread, its loop has brought the lines it has visited up   *)
(* to date and left the others at the cached value (Phase).                *)
(*                                                                         *)
(* A translation in a page's profile is current until a store makes the    *)
(* page dirty, and stays where it is until checkFlushTxlns comes to it;    *)
(* the flush that an event asks for covers what it made stale              *)
(* (GoodTranslation).  What the virtual cache or a decode cache holds, and *)
(* that a store to such a page is seen, follows from that and from what    *)
(* the memory model's own caches may hold (PagesOK).                       *)
(***************************************************************************)
EXTENDS RiscVCoprocessor, CodeCaches, TLAPS

\* The prover of a leaf that names none.
USE Zenon

-----------------------------------------------------------------------------
(* The coprocessor.                                                        *)

Places == {"idle", "read", "compare", "loop"}
Local ==
  {r \in [at : Places, current : SUBSET Bits, todo : SUBSET Bits,
          check : {"locked", "twice", "unlocked"}] : r.at = "idle" => r = Idle}

TypeOK ==
  /\ ip \subseteq Bits /\ ie \subseteq Bits
  /\ pending \subseteq Bits /\ asserted \subseteq Bits
  /\ lock \in Threads \cup {None}
  /\ pc \in [Threads -> Local]
  /\ raced \in BOOLEAN

\* The owner of lock_ is the thread in a locked check.
Locking(r) == r.at # "idle" /\ r.check # "unlocked"
LockOK == \A t \in Threads : Locking(pc[t]) <=> lock = t

\* What holds while a thread is at each label, and no other is in the check.
Phase(r) ==
  /\ r.at \in {"read", "compare"} => asserted = pending
  /\ r.at \in {"compare", "loop"} => r.current = ip \cap ie
  /\ r.at = "loop" => asserted = (pending \cap r.todo) \cup (r.current \ r.todo)

PhaseOK ==
  ~raced => /\ ~Overlap(pc)
            /\ Quiet => pending = ip \cap ie /\ asserted = pending
            /\ \A t \in Threads : Phase(pc[t])

CoprocessorInv == TypeOK /\ LockOK /\ PhaseOK

-----------------------------------------------------------------------------
\* The loop of CheckForInterrupts visits a bit that it has still to visit.
LEMMA NextBit ==
  ASSUME NEW S \in SUBSET Bits, S # {}
  PROVE Min(S) \in S
<1>1. \E m \in S : \A n \in S : m <= n
  <2>1. CASE 1 \in S
    BY <2>1, SMTT(30) DEF Bits, SSIP, MSIP, MTIP
  <2>2. CASE 1 \notin S /\ 3 \in S
    BY <2>2, SMTT(30) DEF Bits, SSIP, MSIP, MTIP
  <2>3. CASE 1 \notin S /\ 3 \notin S
    <3>1. S = {7}
      BY <2>3 DEF Bits, SSIP, MSIP, MTIP
    <3> QED
      BY <3>1, SMTT(30)
  <2> QED
    BY <2>1, <2>2, <2>3
<1> QED
  BY <1>1 DEF Min

\* The local states a thread goes to.
LEMMA Locals ==
  /\ Idle \in Local
  /\ \A check \in {"locked", "twice", "unlocked"} : At("read", check) \in Local
  /\ \A r \in Local, S \in SUBSET Bits :
       /\ [r EXCEPT !.at = "compare", !.current = S] \in Local
       /\ [r EXCEPT !.at = "loop", !.todo = S] \in Local
       /\ r.at = "loop" => [r EXCEPT !.todo = S] \in Local
<1> USE DEF Local, Idle, At, Places
<1>1. Idle \in Local
  OBVIOUS
<1>2. ASSUME NEW check \in {"locked", "twice", "unlocked"} PROVE At("read", check) \in Local
  OBVIOUS
<1>3. ASSUME NEW r \in Local, NEW S \in SUBSET Bits
      PROVE [r EXCEPT !.at = "compare", !.current = S] \in Local
  OBVIOUS
<1>4. ASSUME NEW r \in Local, NEW S \in SUBSET Bits
      PROVE [r EXCEPT !.at = "loop", !.todo = S] \in Local
  OBVIOUS
<1>5. ASSUME NEW r \in Local, NEW S \in SUBSET Bits, r.at = "loop"
      PROVE [r EXCEPT !.todo = S] \in Local
  BY <1>5
<1> HIDE DEF Local, Idle, At, Places
<1> QED
  BY <1>1, <1>2, <1>3, <1>4, <1>5

\* The kinds of step: an entry that takes lock_, a write of IE, and the check.
LEMMA CoprocessorCases ==
  ASSUME TypeOK, [Next]_vars
  PROVE \/ \E t \in Threads, new \in SUBSET Bits, check \in {"locked", "twice"} :
             Enter(t, new, check)
        \/ \E new \in SUBSET Bits : WriteIE(new)
        \/ \E t \in Threads : \/ ReadCurrent(t) \/ Compare(t) \/ Loop(t)
                              \/ UpdateTruePending(t)
        \/ UNCHANGED vars
<1>1. ASSUME NEW t \in Threads, NEW b \in BOOLEAN, SetMSIP(t, b) \/ CheckTick(t, b)
      PROVE \E new \in SUBSET Bits : Enter(t, new, "locked")
  BY <1>1 DEF SetMSIP, CheckTick, MachinePendInterrupt, MachineUnpendInterrupt, TypeOK, Bits
<1>2. ASSUME NEW v \in SUBSET Supervisor, WriteIP(v)
      PROVE \E new \in SUBSET Bits : Enter(Hart, new, "locked")
  BY <1>2 DEF WriteIP, TypeOK, Bits, Supervisor
<1>3. ASSUME WriteSSTATUS \/ WriteMSTATUS
      PROVE \E new \in SUBSET Bits, check \in {"locked", "twice"} : Enter(Hart, new, check)
  BY <1>3 DEF WriteSSTATUS, WriteMSTATUS, TypeOK
<1>4. Hart \in Threads
  BY DEF Threads
<1> QED
  BY <1>1, <1>2, <1>3, <1>4 DEF Next, Check

\* A step of one thread changes its own local state.
LEMMA GotoType ==
  ASSUME TypeOK, NEW t \in Threads, NEW r \in Local, Goto(t, r)
  PROVE /\ pc' \in [Threads -> Local] /\ raced' \in BOOLEAN
        /\ pc'[t] = r /\ \A u \in Threads \ {t} : pc'[u] = pc[u]
  BY DEF TypeOK, Goto

\* Every variable keeps its type, and lock_ its owner.
LEMMA CoprocessorTypeStep == TypeOK /\ LockOK /\ [Next]_vars => TypeOK' /\ LockOK'
<1> SUFFICES ASSUME TypeOK, LockOK, [Next]_vars PROVE TypeOK' /\ LockOK'
  OBVIOUS
<1>0. Hart \in Threads /\ \A t \in Threads : t # None
  BY DevicesAssumption DEF Threads
<1>1. ASSUME NEW t \in Threads, NEW new \in SUBSET Bits, NEW check \in {"locked", "twice"},
             Enter(t, new, check)
      PROVE TypeOK' /\ LockOK'
  <2>1. /\ pc' \in [Threads -> Local] /\ raced' \in BOOLEAN
        /\ pc'[t] = At("read", check) /\ \A u \in Threads \ {t} : pc'[u] = pc[u]
    BY <1>1, Locals, GotoType DEF Enter
  <2>2. TypeOK'
    BY <1>1, <2>1 DEF Enter, TypeOK
  <2>3. Locking(At("read", check))
    BY DEF Locking, At
  <2> QED
    BY <1>0, <1>1, <2>1, <2>2, <2>3 DEF Enter, LockOK
<1>2. ASSUME NEW new \in SUBSET Bits, WriteIE(new) PROVE TypeOK' /\ LockOK'
  <2>1. /\ pc' \in [Threads -> Local] /\ raced' \in BOOLEAN
        /\ pc'[Hart] = At("read", "unlocked") /\ \A u \in Threads \ {Hart} : pc'[u] = pc[u]
    BY <1>0, <1>2, Locals, GotoType DEF WriteIE
  <2>2. TypeOK'
    BY <1>2, <2>1 DEF WriteIE, TypeOK
  <2>3. ~Locking(At("read", "unlocked")) /\ ~Locking(pc[Hart])
    BY <1>2 DEF Locking, At, WriteIE
  <2> QED
    BY <1>0, <1>2, <2>1, <2>2, <2>3 DEF WriteIE, LockOK
<1>3. ASSUME NEW t \in Threads, ReadCurrent(t) PROVE TypeOK' /\ LockOK'
  <2>1. /\ pc' \in [Threads -> Local] /\ raced' \in BOOLEAN
        /\ pc'[t] = [pc[t] EXCEPT !.at = "compare", !.current = ip \cap ie]
        /\ \A u \in Threads \ {t} : pc'[u] = pc[u]
    BY <1>3, Locals, GotoType DEF ReadCurrent, TypeOK
  <2>2. TypeOK'
    BY <1>3, <2>1 DEF ReadCurrent, TypeOK
  <2>3. pc[t] \in Local /\ pc[t].at = "read"
    BY <1>3 DEF ReadCurrent, TypeOK
  <2>4. Locking(pc[t])' <=> Locking(pc[t])
    BY <2>1, <2>3 DEF Locking, Local
  <2> QED
    BY <1>3, <2>1, <2>2, <2>4 DEF ReadCurrent, LockOK
\* The end of a check releases lock_ if the thread has it.
<1>4. ASSUME NEW t \in Threads, pc[t].at # "idle", Leave(t)
      PROVE /\ pc' \in [Threads -> Local] /\ raced' \in BOOLEAN
            /\ lock' \in Threads \cup {None} /\ LockOK'
  <2> DEFINE r == IF pc[t].check = "twice" THEN At("read", "unlocked") ELSE Idle
  <2>1. r \in Local /\ ~Locking(r)
    BY Locals DEF Locking, At, Idle
  <2>2. /\ pc' \in [Threads -> Local] /\ raced' \in BOOLEAN
        /\ pc'[t] = r /\ \A u \in Threads \ {t} : pc'[u] = pc[u]
    BY <1>4, <2>1, GotoType DEF Leave
  <2>3. lock' = IF lock = t THEN None ELSE lock
    BY <1>4 DEF Leave
  <2> HIDE DEF r
  <2> QED
    BY <1>0, <2>1, <2>2, <2>3 DEF LockOK, TypeOK
<1>5. ASSUME NEW t \in Threads, Compare(t) PROVE TypeOK' /\ LockOK'
  <2>1. CASE pc[t].current = pending
    BY <1>4, <1>5, <2>1 DEF Compare, TypeOK
  <2>2. CASE pc[t].current # pending
    <3>1. /\ pc' \in [Threads -> Local] /\ raced' \in BOOLEAN
          /\ pc'[t] = [pc[t] EXCEPT !.at = "loop", !.todo = Bits]
          /\ \A u \in Threads \ {t} : pc'[u] = pc[u]
      BY <1>5, <2>2, Locals, GotoType DEF Compare, TypeOK
    <3>2. TypeOK'
      BY <1>5, <2>2, <3>1 DEF Compare, TypeOK
    <3>3. pc[t] \in Local /\ pc[t].at = "compare"
      BY <1>5 DEF Compare, TypeOK
    <3>4. Locking(pc[t])' <=> Locking(pc[t])
      BY <3>1, <3>3 DEF Locking, Local
    <3> QED
      BY <1>5, <2>2, <3>1, <3>2, <3>4 DEF Compare, LockOK
  <2> QED
    BY <2>1, <2>2
<1>6. ASSUME NEW t \in Threads, Loop(t) PROVE TypeOK' /\ LockOK'
  <2> DEFINE i == Min(pc[t].todo)
  <2>1. pc[t] \in Local /\ pc[t].at = "loop" /\ pc[t].todo \in SUBSET Bits
    BY <1>6 DEF Loop, TypeOK, Local
  <2>2. i \in Bits
    BY <1>6, <2>1, NextBit DEF Loop
  <2>3. /\ pc' \in [Threads -> Local] /\ raced' \in BOOLEAN
        /\ pc'[t] = [pc[t] EXCEPT !.todo = @ \ {i}]
        /\ \A u \in Threads \ {t} : pc'[u] = pc[u]
    BY <1>6, <2>1, Locals, GotoType DEF Loop
  <2>4. TypeOK'
    BY <1>6, <2>2, <2>3 DEF Loop, TypeOK
  <2>5. Locking(pc[t])' <=> Locking(pc[t])
    BY <2>1, <2>3 DEF Locking, Local
  <2> QED
    BY <1>6, <2>3, <2>4, <2>5 DEF Loop, LockOK
<1>7. ASSUME NEW t \in Threads, UpdateTruePending(t) PROVE TypeOK' /\ LockOK'
  <2>1. pc[t].current \in SUBSET Bits /\ pc[t].at # "idle"
    BY <1>7 DEF UpdateTruePending, TypeOK, Local
  <2> QED
    BY <1>4, <1>7, <2>1 DEF UpdateTruePending, TypeOK
<1>8. CASE UNCHANGED vars
  BY <1>8 DEF vars, TypeOK, LockOK
<1> QED
  BY CoprocessorCases, <1>1, <1>2, <1>3, <1>5, <1>6, <1>7, <1>8

-----------------------------------------------------------------------------
(* CheckForInterrupts, where no unlocked check has overlapped another.     *)

\* Two threads in the check would both own lock_, or one of them is unlocked.
LEMMA OneChecker ==
  ASSUME LockOK, ~Overlap(pc)
  PROVE \A t, u \in Threads : t # u => pc[t].at = "idle" \/ pc[u].at = "idle"
  BY DEF LockOK, Overlap, Locking

\* A step that leaves no overlap behind is taken by the only thread in the check.
LEMMA Solo ==
  ASSUME TypeOK, LockOK, LockOK', PhaseOK, ~raced',
         NEW t \in Threads, NEW r \in Local, Goto(t, r), pc[t].at # "idle" \/ r.at # "idle"
  PROVE /\ ~Overlap(pc)' /\ pc'[t] = r /\ Phase(pc[t])
        /\ \A u \in Threads \ {t} : pc'[u].at = "idle"
        /\ pc[t].at = "idle" => asserted = pending
<1>1. pc'[t] = r /\ \A u \in Threads \ {t} : pc'[u] = pc[u]
  BY GotoType
<1>2. ~raced /\ ~Overlap(pc') /\ ~Overlap(pc)
  BY DEF Goto, PhaseOK
<1>3. \A u \in Threads \ {t} : pc[u].at = "idle" \/ pc[t].at = "idle"
  BY <1>2, OneChecker
<1>4. \A u \in Threads \ {t} : pc'[u].at = "idle" \/ r.at = "idle"
  BY <1>1, <1>2 DEF LockOK, Overlap, Locking
<1>5. \A u \in Threads \ {t} : pc'[u].at = "idle" /\ pc[u].at = "idle"
  BY <1>1, <1>3, <1>4
<1> QED
  BY <1>1, <1>2, <1>5 DEF PhaseOK, Quiet

\* So it is enough to look at that thread.
LEMMA SoloPhase ==
  ASSUME NEW t \in Threads, ~Overlap(pc)', \A u \in Threads \ {t} : pc'[u].at = "idle",
         Phase(pc[t])',
         pc'[t].at = "idle" => (pending = ip \cap ie /\ asserted = pending)'
  PROVE PhaseOK'
<1>1. \A u \in Threads : Phase(pc[u])'
  BY DEF Phase
<1> QED
  BY <1>1 DEF PhaseOK, Quiet

\* Every step keeps what each place in CheckForInterrupts implies of MIP & MIE,
\* the lines and the cached set, as long as no unlocked checks have overlapped.
LEMMA PhaseStep ==
  TypeOK /\ LockOK /\ LockOK' /\ PhaseOK /\ [Next]_vars => PhaseOK'
<1> SUFFICES ASSUME TypeOK, LockOK, LockOK', PhaseOK, [Next]_vars PROVE PhaseOK'
  OBVIOUS
<1>1. CASE raced'
  BY <1>1 DEF PhaseOK
<1>2. CASE UNCHANGED vars
  BY <1>2 DEF vars, PhaseOK, Phase, Quiet, Overlap
<1> SUFFICES ASSUME ~raced', ~UNCHANGED vars PROVE PhaseOK'
  BY <1>1, <1>2
<1>3. ASSUME NEW t \in Threads, NEW new \in SUBSET Bits, NEW check \in {"locked", "twice"},
             Enter(t, new, check)
      PROVE PhaseOK'
  <2>1. At("read", check) \in Local /\ At("read", check).at = "read"
    BY Locals DEF At
  <2>2. /\ ~Overlap(pc)' /\ pc'[t] = At("read", check) /\ asserted = pending
        /\ \A u \in Threads \ {t} : pc'[u].at = "idle"
    BY <1>3, <2>1, Solo DEF Enter
  <2>3. Phase(pc[t])' /\ pc'[t].at # "idle"
    BY <1>3, <2>1, <2>2 DEF Enter, Phase
  <2> QED
    BY <2>2, <2>3, SoloPhase
<1>4. ASSUME NEW new \in SUBSET Bits, WriteIE(new) PROVE PhaseOK'
  <2>1. Hart \in Threads /\ At("read", "unlocked") \in Local /\ At("read", "unlocked").at = "read"
    BY Locals DEF At, Threads
  <2>2. /\ ~Overlap(pc)' /\ pc'[Hart] = At("read", "unlocked") /\ asserted = pending
        /\ \A u \in Threads \ {Hart} : pc'[u].at = "idle"
    BY <1>4, <2>1, Solo DEF WriteIE
  <2>3. Phase(pc[Hart])' /\ pc'[Hart].at # "idle"
    BY <1>4, <2>1, <2>2 DEF WriteIE, Phase
  <2> QED
    BY <2>1, <2>2, <2>3, SoloPhase
<1>5. ASSUME NEW t \in Threads, ReadCurrent(t) PROVE PhaseOK'
  <2> DEFINE r == [pc[t] EXCEPT !.at = "compare", !.current = ip \cap ie]
  <2>1. pc[t] \in Local /\ pc[t].at = "read" /\ r \in Local
    BY <1>5, Locals DEF ReadCurrent, TypeOK
  <2>2. r.at = "compare" /\ r.current = ip \cap ie
    BY <2>1 DEF Local
  <2>3. /\ ~Overlap(pc)' /\ pc'[t] = r /\ Phase(pc[t])
        /\ \A u \in Threads \ {t} : pc'[u].at = "idle"
    BY <1>5, <2>1, Solo, SMTT(30) DEF ReadCurrent
  <2> HIDE DEF r
  <2>4. Phase(pc[t])' /\ pc'[t].at # "idle"
    BY <1>5, <2>1, <2>2, <2>3 DEF ReadCurrent, Phase
  <2> QED
    BY <2>3, <2>4, SoloPhase
\* A check ends with the cached value and the lines at MIP & MIE.
<1>6. ASSUME NEW t \in Threads, pc[t].at # "idle", Leave(t), UNCHANGED <<ip, ie>>,
             pending' = ip \cap ie, asserted' = pending'
      PROVE PhaseOK'
  <2> DEFINE r == IF pc[t].check = "twice" THEN At("read", "unlocked") ELSE Idle
  <2>1. r \in Local /\ r.at \in {"idle", "read"}
    BY Locals DEF At, Idle
  <2>2. Goto(t, r)
    BY <1>6 DEF Leave
  <2> HIDE DEF r
  <2>3. /\ ~Overlap(pc)' /\ pc'[t] = r
        /\ \A u \in Threads \ {t} : pc'[u].at = "idle"
    BY <1>6, <2>1, <2>2, Solo
  <2>4. Phase(pc[t])'
    BY <1>6, <2>1, <2>3 DEF Phase
  <2> QED
    BY <1>6, <2>3, <2>4, SoloPhase
<1>7. ASSUME NEW t \in Threads, Compare(t) PROVE PhaseOK'
  <2>1. pc[t] \in Local /\ pc[t].at = "compare" /\ ~raced
    BY <1>7 DEF Compare, TypeOK, Leave, Goto
  <2>2. pc[t].current = ip \cap ie /\ asserted = pending
    BY <2>1 DEF PhaseOK, Phase
  <2>3. CASE pc[t].current = pending
    BY <1>6, <1>7, <2>1, <2>2, <2>3 DEF Compare
  <2>4. CASE pc[t].current # pending
    <3> DEFINE r == [pc[t] EXCEPT !.at = "loop", !.todo = Bits]
    <3>1. r \in Local
      BY <2>1, Locals
    <3>2. r.at = "loop" /\ r.todo = Bits /\ r.current = pc[t].current
      BY <2>1 DEF Local
    <3>3. /\ ~Overlap(pc)' /\ pc'[t] = r
          /\ \A u \in Threads \ {t} : pc'[u].at = "idle"
      BY <1>7, <2>1, <2>4, <3>1, Solo DEF Compare
    <3> HIDE DEF r
    <3>4. Phase(pc[t])' /\ pc'[t].at # "idle"
      BY <1>7, <2>2, <3>2, <3>3 DEF Compare, Phase, TypeOK
    <3> QED
      BY <3>3, <3>4, SoloPhase
  <2> QED
    BY <2>3, <2>4
<1>8. ASSUME NEW t \in Threads, Loop(t) PROVE PhaseOK'
  <2> DEFINE i == Min(pc[t].todo)
             r == [pc[t] EXCEPT !.todo = @ \ {i}]
  <2>1. pc[t] \in Local /\ pc[t].at = "loop" /\ pc[t].todo \in SUBSET Bits /\ ~raced
    BY <1>8 DEF Loop, TypeOK, Local, Goto
  <2>2. i \in pc[t].todo
    BY <1>8, <2>1, NextBit DEF Loop
  <2>3. r \in Local
    BY <2>1, Locals
  <2>4. r.at = "loop" /\ r.todo = pc[t].todo \ {i} /\ r.current = pc[t].current
    BY <2>1 DEF Local
  <2>5. /\ ~Overlap(pc)' /\ pc'[t] = r /\ Phase(pc[t])
        /\ \A u \in Threads \ {t} : pc'[u].at = "idle"
    BY <1>8, <2>1, <2>3, Solo DEF Loop
  <2>6. asserted' = IF i \in pc[t].current /\ i \notin pending THEN asserted \cup {i}
                    ELSE IF i \notin pc[t].current /\ i \in pending THEN asserted \ {i}
                    ELSE asserted
    BY <1>8 DEF Loop
  <2>7. UNCHANGED <<ip, ie, pending>>
    BY <1>8 DEF Loop
  <2> HIDE DEF r, i
  <2>8. asserted' = (pending \cap r.todo) \cup (r.current \ r.todo)
    BY <2>1, <2>2, <2>4, <2>5, <2>6, SMTT(30) DEF Phase
  <2>9. Phase(pc[t])' /\ pc'[t].at # "idle"
    BY <2>1, <2>4, <2>5, <2>7, <2>8 DEF Phase
  <2> QED
    BY <2>5, <2>9, SoloPhase
<1>9. ASSUME NEW t \in Threads, UpdateTruePending(t) PROVE PhaseOK'
  <2>1. pc[t].at = "loop" /\ pc[t].todo = {} /\ ~raced
    BY <1>9 DEF UpdateTruePending, Leave, Goto
  <2>2. pc[t].current = ip \cap ie /\ asserted = pc[t].current
    BY <2>1 DEF PhaseOK, Phase
  <2> QED
    BY <1>6, <1>9, <2>1, <2>2 DEF UpdateTruePending
<1> QED
  BY CoprocessorCases, <1>3, <1>4, <1>5, <1>7, <1>8, <1>9

-----------------------------------------------------------------------------
\* lock_, the cached value and the lines agree at every label of the check.
THEOREM CoprocessorInvariant == Spec => []CoprocessorInv
<1>1. Init => CoprocessorInv
  <2> SUFFICES ASSUME Init PROVE CoprocessorInv
    OBVIOUS
  <2>1. TypeOK
    BY Locals DEF Init, TypeOK
  <2>2. \A t \in Threads : pc[t].at = "idle" /\ lock # t
    BY DevicesAssumption DEF Init, Idle, At, Threads
  <2>3. LockOK
    BY <2>2 DEF LockOK, Locking
  <2>4. PhaseOK
    BY <2>2 DEF Init, PhaseOK, Phase, Overlap
  <2> QED
    BY <2>1, <2>3, <2>4 DEF CoprocessorInv
<1>2. CoprocessorInv /\ [Next]_vars => CoprocessorInv'
  BY CoprocessorTypeStep, PhaseStep DEF CoprocessorInv
<1> QED
  BY <1>1, <1>2, PTL DEF Spec

\* When no thread is in CheckForInterrupts, and no unlocked check has overlapped
\* another, true_pending_interrupts_ is MIP & MIE and the lines are its bits.
THEOREM CachedPendingIsCurrent == Spec => []PendingIsCurrent
<1>1. CoprocessorInv => PendingIsCurrent
  BY DEF CoprocessorInv, PhaseOK, PendingIsCurrent
<1> QED
  BY CoprocessorInvariant, <1>1, PTL

-----------------------------------------------------------------------------
(* The caches of a core's code.                                            *)

\* The pages that an address can be in, and what the caches can hold for one.
Pages == PPages \cup {NoPage}
Translations ==
  [page : PPages, from : PPages, version : Nat, level : Nat, freed : BOOLEAN]
Decodings == [from : Pages, version : Nat]

BlocksTypeOK ==
  /\ engine \in {"BlockJIT", "BlockLLVM", "Interpreter"}
  /\ memory \in {"base", "cache", "user"}
  /\ aggressive \in BOOLEAN
  /\ program \in Programs
  /\ mapped \in [VPages -> Pages]
  /\ stores \in [PPages -> Nat]
  /\ level \in Nat
  /\ readCache \in [VPages -> Pages] /\ writeCache \in [VPages -> Pages]
  /\ codePages \subseteq PPages
  /\ profile \in [PPages -> [Offsets -> Translations \cup {NoTranslation}]]
  /\ dirtied \subseteq PPages /\ dirtyPages \subseteq PPages
  /\ virt \in [Blocks -> Translations \cup {NoTranslation}]
  /\ flush \in {"none", "dead", "all"}
  /\ decoded \in [Blocks -> Decodings \cup {NoTranslation}]
  /\ seen \in [VPages -> SUBSET Pages]
  /\ synced \in [PPages -> Nat]

\* The memory model keeps no page but those it found since the engine last heard of
\* the page tables; where a JIT runs it may, but translateBlock empties its caches.
PagesOK ==
  /\ memory # "cache" => readCache = NoPages
  /\ \A v \in VPages : mapped[v] \in seen[v]
  /\ ~JIT => \A v \in VPages : readCache[v] \in seen[v] \cup {NoPage}

\* What the other engines have is not used.
UnusedOK ==
  /\ ~JIT => virt = NothingCached /\ profile = [p \in PPages |-> NoTranslations]
  /\ ~Decoding => decoded = NothingCached

SyncedOK ==
  /\ dirtied \subseteq dirtyPages
  /\ \A p \in PPages : synced[p] <= stores[p]

\* A translation of a page is of what the page holds unless the page is dirty, or a
\* user program, whose stores nobody sees, has written it; and it is of what the page
\* held when the engine last heard of it unless checkFlushTxlns still has to remove it.
GoodTranslation(p, t) ==
  /\ t.from = p
  /\ memory # "user" /\ p \notin dirtied => t.version = stores[p]
  /\ \/ t.version >= synced[p]
     \/ flush = "all"
     \/ flush # "none" /\ (aggressive \/ p \in dirtied)

ProfileOK ==
  \A p \in PPages, o \in Offsets :
    profile[p][o] # NoTranslation => GoodTranslation(p, profile[p][o])

CodeInv ==
  /\ BlocksTypeOK /\ PagesOK /\ UnusedOK /\ SyncedOK /\ ProfileOK
  /\ BlocksAreCurrent /\ StoresAreNoticed

-----------------------------------------------------------------------------
(* What the actions do to the caches of code.                              *)

\* What a store does to the contents of a page and to what is kept about its code.
Stored(p) ==
  /\ stores' = [stores EXCEPT ![p] = @ + 1]
  /\ UNCHANGED <<setup, mapped, level, readCache, profile, virt, flush, decoded, heard>>
  /\ codePages' \subseteq codePages /\ dirtied \subseteq dirtied'
  /\ \A q \in PPages : q # p => /\ q \in codePages => q \in codePages'
                                /\ q \in dirtied' => q \in dirtied
  /\ p \in codePages /\ memory # "user" => p \in dirtied'
  /\ p \in codePages' => p \in codePages /\ memory = "user"
  /\ p \in codePages => p \in codePages' \/ p \in dirtied'
  /\ dirtied' \subseteq PPages /\ dirtyPages' \subseteq PPages
  /\ dirtied \subseteq dirtyPages => dirtied' \subseteq dirtyPages'

\* A cache of the memory model finds a page, which is where the page tables put it or
\* where they put it before.
LEMMA FindsPage ==
  ASSUME BlocksTypeOK, NEW v \in VPages,
         NEW cache \in [VPages -> Pages]
  PROVE /\ PageFor(cache, v) \in Pages
        /\ PageFor(cache, v) \in {cache[v], mapped[v]}
        /\ memory # "cache" => PageFor(cache, v) = mapped[v]
        /\ PageFor(cache, v) = NoPage \/ PageFor(cache, v) = mapped[v] \/ cache[v] # NoPage
        /\ Fill(cache, v) \in [VPages -> Pages]
        /\ \A u \in VPages : u # v => Fill(cache, v)[u] = cache[u]
        /\ Fill(cache, v)[v] \in {cache[v], PageFor(cache, v)}
        /\ memory # "cache" => Fill(cache, v) = cache
  BY DEF PageFor, Fill, Cached, BlocksTypeOK

\* A store changes one page, and marks it dirty where it holds translations; only in
\* user mode is it not looked at.
LEMMA StoreEffect ==
  ASSUME BlocksTypeOK, StoresAreNoticed, NEW v \in VPages, Store(v)
  PROVE \E p \in PPages : /\ Stored(p)
                          /\ writeCache' \in [VPages -> Pages]
                          /\ \A u \in VPages : \/ writeCache'[u] = writeCache[u]
                                               \/ writeCache'[u] = p /\ p \notin codePages'
<1> USE PagesAssumption DEF StoreTo, setup, heard, BlocksTypeOK, Pages
<1>1. CASE StoreBase(v)
  <2>1. mapped[v] \in PPages
    BY <1>1 DEF StoreBase
  <2>2. Stored(mapped[v]) /\ writeCache' = writeCache
    BY <1>1, <2>1 DEF StoreBase, InvalidateRegion, Stored
  <2> QED
    BY <2>1, <2>2
<1>2. CASE StoreCached(v)
  <2> DEFINE p == PageFor(writeCache, v)
  <2>1. p \in PPages
    BY <1>2, FindsPage DEF StoreCached
  <2> HIDE DEF p
  <2>2. Stored(p)
    BY <1>2, <2>1 DEF StoreCached, InvalidateRegion, p, Stored
  <2>3. writeCache' = Fill(writeCache, v) /\ p \notin codePages'
    BY <1>2 DEF StoreCached, InvalidateRegion, p, Stored
  <2>4. /\ Fill(writeCache, v) \in [VPages -> Pages]
        /\ \A u \in VPages : u # v => Fill(writeCache, v)[u] = writeCache[u]
        /\ Fill(writeCache, v)[v] \in {writeCache[v], p}
    BY FindsPage, SMTT(30) DEF p
  <2> QED
    BY <2>1, <2>2, <2>3, <2>4
<1>3. CASE StoreDirect(v)
  <2>1. writeCache[v] \in PPages /\ writeCache[v] \notin codePages
    BY <1>3 DEF StoreDirect, StoresAreNoticed
  <2>2. Stored(writeCache[v]) /\ writeCache' = writeCache
    BY <1>3, <2>1 DEF StoreDirect, Stored
  <2> QED
    BY <2>1, <2>2
<1>4. CASE StoreUser(v)
  <2>1. mapped[v] \in PPages
    BY <1>4 DEF StoreUser
  <2>2. Stored(mapped[v]) /\ writeCache' = writeCache
    BY <1>4, <2>1 DEF StoreUser, Stored
  <2> QED
    BY <2>1, <2>2
<1> QED
  BY <1>1, <1>2, <1>3, <1>4 DEF Store

\* What translateBlock does: it adds a translation of what the page holds, drops those
\* of a dirty page, and marks the entries of the cache whose translation it freed.
Translated(b, p, t) ==
  /\ JIT /\ flush = "none"
  /\ p \in PPages /\ p = mapped[b[1]]
  /\ t \in Translations /\ t.from = p /\ t.version = stores[p]
  /\ codePages' = codePages \cup {p}
  /\ readCache' = Fill(NoPages, b[1]) /\ writeCache' = NoPages
  /\ dirtied' \subseteq dirtied /\ p \notin dirtied'
  /\ profile' \in [PPages -> [Offsets -> Translations \cup {NoTranslation}]]
  /\ \A q \in PPages, o \in Offsets :
       \/ profile'[q][o] = NoTranslation
       \/ q = p /\ profile'[q][o] = t
       \/ profile'[q][o] = profile[q][o] /\ (q \in dirtied <=> q \in dirtied')
  /\ virt' \in [Blocks -> Translations \cup {NoTranslation}]
  /\ \A c \in Blocks :
       \/ virt'[c] = NoTranslation
       \/ c = b /\ virt'[c] = t
       \/ virt'[c] = virt[c]
       \/ virt'[c].freed
  /\ UNCHANGED <<setup, tables, dirtyPages, flush, decoded, heard>>

\* BlockPageProfile::Insert leaves the new translation and those of pages that are
\* not dirty, unless it was preceded by checkCodeSize throwing all of them away.
LEMMA InsertEffect ==
  ASSUME BlocksTypeOK, NEW p \in PPages, NEW o \in Offsets, NEW t \in Translations,
         NEW over \in BOOLEAN,
         profile' = Insert(p, o, t, over),
         dirtied' = IF over THEN {} ELSE dirtied \ {p}
  PROVE /\ dirtied' \subseteq dirtied /\ p \notin dirtied'
        /\ profile' \in [PPages -> [Offsets -> Translations \cup {NoTranslation}]]
        /\ \A q \in PPages, r \in Offsets :
             \/ profile'[q][r] = NoTranslation
             \/ q = p /\ profile'[q][r] = t
             \/ profile'[q][r] = profile[q][r] /\ (q \in dirtied <=> q \in dirtied')
<1>1. CASE over
  BY <1>1 DEF Insert, NoTranslations, BlocksTypeOK
<1>2. CASE ~over
  BY <1>2 DEF Insert, NoTranslations, BlocksTypeOK
<1> QED
  BY <1>1, <1>2

\* The cache of the JITs gets the new translation; the entries of those that Insert
\* freed are marked.
LEMMA EntriesEffect ==
  ASSUME BlocksTypeOK, NEW b \in Blocks, NEW p \in PPages, NEW t \in Translations,
         NEW over \in BOOLEAN,
         virt' = [c \in Blocks |-> IF c = b THEN t ELSE IF over THEN NoTranslation
                                   ELSE EntryAfter(virt[c], p, b[2], c[2])]
  PROVE /\ virt' \in [Blocks -> Translations \cup {NoTranslation}]
        /\ \A c \in Blocks :
             \/ virt'[c] = NoTranslation
             \/ c = b /\ virt'[c] = t
             \/ virt'[c] = virt[c]
             \/ virt'[c].freed
<1>1. ASSUME NEW e \in Translations \cup {NoTranslation}, NEW at
      PROVE /\ EntryAfter(e, p, b[2], at) \in Translations \cup {NoTranslation}
            /\ EntryAfter(e, p, b[2], at) = e \/ EntryAfter(e, p, b[2], at).freed
  <2>1. CASE e # NoTranslation
    <3>1. e \in Translations
      BY <2>1
    <3>2. [e EXCEPT !.freed = TRUE] \in Translations /\ [e EXCEPT !.freed = TRUE].freed
      BY <3>1 DEF Translations
    <3> QED
      BY <3>1, <3>2 DEF EntryAfter
  <2>2. CASE e = NoTranslation
    BY <2>2 DEF EntryAfter
  <2> QED
    BY <2>1, <2>2
<1>2. \A c \in Blocks : virt[c] \in Translations \cup {NoTranslation}
  BY DEF BlocksTypeOK
<1> HIDE DEF Translations
<1>3. \A c \in Blocks :
        /\ EntryAfter(virt[c], p, b[2], c[2]) \in Translations \cup {NoTranslation}
        /\ \/ EntryAfter(virt[c], p, b[2], c[2]) = virt[c]
           \/ EntryAfter(virt[c], p, b[2], c[2]).freed
  BY <1>1, <1>2
<1> QED
  BY <1>3

LEMMA TranslateEffect ==
  ASSUME BlocksTypeOK, NEW b \in Blocks, TranslateBlock(b)
  PROVE \E p \in PPages, t \in Translations : Translated(b, p, t)
<1>1. PICK over \in BOOLEAN, needs \in Nat : Translate(b, over, needs)
  <2>1. PICK over \in {FALSE, engine = "BlockJIT"},
             needs \in {AnyLevel} \cup (IF program.features THEN {level} ELSE {}) :
               Translate(b, over, needs)
    BY DEF TranslateBlock
  <2>2. over \in BOOLEAN
    OBVIOUS
  <2>3. needs \in Nat
    BY SMTT(30) DEF AnyLevel, BlocksTypeOK
  <2> QED
    BY <2>1, <2>2, <2>3
<1> DEFINE p == mapped[b[1]]
           from == PageFor(NoPages, b[1])
           t == [page |-> p, from |-> from, version |-> stores[from], level |-> needs,
                 freed |-> FALSE]
<1>2. b[1] \in VPages /\ b[2] \in Offsets
  BY DEF Blocks
<1>3. p \in PPages /\ from = p
  BY <1>1, <1>2 DEF Translate, BlocksTypeOK, Pages, PageFor, Cached, NoPages
<1>4. t \in Translations /\ t.from = p /\ t.version = stores[p]
  BY <1>3 DEF BlocksTypeOK, Translations
<1>5. /\ JIT /\ flush = "none"
      /\ codePages' = codePages \cup {p}
      /\ readCache' = Fill(NoPages, b[1]) /\ writeCache' = NoPages
      /\ profile' = Insert(p, b[2], t, over)
      /\ dirtied' = IF over THEN {} ELSE dirtied \ {p}
      /\ virt' = [c \in Blocks |-> IF c = b THEN t ELSE IF over THEN NoTranslation
                                   ELSE EntryAfter(virt[c], p, b[2], c[2])]
      /\ UNCHANGED <<setup, tables, dirtyPages, flush, decoded, heard>>
  BY <1>1 DEF Translate, AfterDispatch
<1> HIDE DEF t, p
<1>6. /\ dirtied' \subseteq dirtied /\ p \notin dirtied'
      /\ profile' \in [PPages -> [Offsets -> Translations \cup {NoTranslation}]]
      /\ \A q \in PPages, r \in Offsets :
           \/ profile'[q][r] = NoTranslation
           \/ q = p /\ profile'[q][r] = t
           \/ profile'[q][r] = profile[q][r] /\ (q \in dirtied <=> q \in dirtied')
  BY <1>2, <1>3, <1>4, <1>5, InsertEffect, SMTT(30)
<1>7. /\ virt' \in [Blocks -> Translations \cup {NoTranslation}]
      /\ \A c \in Blocks :
           \/ virt'[c] = NoTranslation
           \/ c = b /\ virt'[c] = t
           \/ virt'[c] = virt[c]
           \/ virt'[c].freed
  BY <1>3, <1>4, <1>5, EntriesEffect, SMTT(30)
<1>8. p = mapped[b[1]]
  BY DEF p
<1>9. Translated(b, p, t)
  BY <1>3, <1>4, <1>5, <1>6, <1>7, <1>8 DEF Translated
<1> QED
  BY <1>3, <1>4, <1>9

\* The steps of a core, one at a time.
LEMMA BlocksCases ==
  ASSUME BlocksTypeOK, StoresAreNoticed, [BlocksNext]_blockVars
  PROVE \/ \E v \in VPages : Load(v)
        \/ \E p \in PPages :
             /\ Stored(p)
             /\ writeCache' \in [VPages -> Pages]
             /\ \A u \in VPages : \/ writeCache'[u] = writeCache[u]
                                  \/ writeCache'[u] = p /\ p \notin codePages'
        \/ \E m \in program.spaces : Remap(m)
        \/ \E events \in Published : Publish(events)
        \/ \E l \in 1 .. 2 : SetFeatureLevel(l)
        \/ CheckFlushTxlns
        \/ \E b \in Blocks : Lookup(b)
        \/ \E b \in Blocks, p \in PPages, t \in Translations : Translated(b, p, t)
        \/ \E b \in Blocks : DecodeSync(b)
        \/ UNCHANGED blockVars
<1>1. program.blocks \subseteq Blocks
  BY ProgramsAssumption DEF BlocksTypeOK
<1>3. CASE \E v \in VPages : Store(v)
  BY <1>3, StoreEffect
<1>4. CASE \E b \in program.blocks : TranslateBlock(b)
  BY <1>1, <1>4, TranslateEffect
<1>5. CASE \E b \in program.blocks : Lookup(b) \/ DecodeSync(b)
  BY <1>1, <1>5
<1> QED
  BY <1>3, <1>4, <1>5 DEF BlocksNext, Fence

\* A core starts with empty caches.
LEMMA CodeInit == BlocksInit => CodeInv
<1> SUFFICES ASSUME BlocksInit PROVE CodeInv
  OBVIOUS
<1>1. mapped \in [VPages -> Pages]
  BY ProgramsAssumption DEF BlocksInit, Pages
<1>2. BlocksTypeOK
  BY <1>1, SMTT(30)
     DEF BlocksInit, BlocksTypeOK, Pages, NoPages, NothingCached, NoTranslations
<1>3. PagesOK /\ UnusedOK /\ SyncedOK
  BY <1>2, SMTT(30) DEF BlocksInit, PagesOK, UnusedOK, SyncedOK, NoPages, BlocksTypeOK
<1>4. ProfileOK /\ BlocksAreCurrent
  BY DEF BlocksInit, ProfileOK, BlocksAreCurrent, NothingCached, NoTranslations, NoPages
<1>5. StoresAreNoticed
  BY DEF BlocksInit, StoresAreNoticed, NoTranslations
<1> QED
  BY <1>2, <1>3, <1>4, <1>5 DEF CodeInv

-----------------------------------------------------------------------------
(* Every step keeps the invariant of the caches of code.                   *)

\* Every variable keeps its type.
LEMMA BlocksTypeStep ==
  ASSUME BlocksTypeOK, StoresAreNoticed, [BlocksNext]_blockVars
  PROVE BlocksTypeOK'
<1> USE DEF BlocksTypeOK
<1>1. ASSUME NEW v \in VPages, Load(v) PROVE BlocksTypeOK'
  BY <1>1, FindsPage DEF Load, setup, tables, txlns, heard
<1>2. ASSUME NEW p \in PPages, Stored(p), writeCache' \in [VPages -> Pages]
      PROVE BlocksTypeOK'
  BY <1>2, SMTT(30) DEF Stored, setup, heard
<1>3. ASSUME NEW m \in program.spaces, Remap(m) PROVE BlocksTypeOK'
  <2>1. m \in [VPages -> Pages]
    BY ProgramsAssumption DEF Pages
  <2> QED
    BY <1>3, <2>1, SMTT(30) DEF Remap, setup, caches, txlns
<1>4. ASSUME NEW events, Publish(events) PROVE BlocksTypeOK'
  <2>1. /\ readCache' \in [VPages -> Pages] /\ writeCache' \in [VPages -> Pages]
        /\ flush' \in {"none", "dead", "all"}
    BY <1>4 DEF Publish, FlushCaches, FlushTxlns, NoPages, Pages
  <2>2. /\ virt' \in [Blocks -> Translations \cup {NoTranslation}]
        /\ decoded' \in [Blocks -> Decodings \cup {NoTranslation}]
    BY <1>4 DEF Publish, FlushDecoded, FlushTxlns, NothingCached
  <2>3. seen' \in [VPages -> SUBSET Pages] /\ synced' \in [PPages -> Nat]
    BY <1>4, SMTT(30) DEF Publish
  <2>4. UNCHANGED <<setup, tables, codePages, profile, dirtied, dirtyPages>>
    BY <1>4 DEF Publish
  <2> QED
    BY <2>1, <2>2, <2>3, <2>4 DEF setup, tables
<1>5. ASSUME NEW l \in 1 .. 2, SetFeatureLevel(l) PROVE BlocksTypeOK'
  <2>1. virt' \in [Blocks -> Translations \cup {NoTranslation}]
    BY <1>5 DEF SetFeatureLevel, InvalidateFeatures
  <2> QED
    BY <1>5, <2>1, SMTT(30) DEF SetFeatureLevel, setup, caches, heard
<1>6. ASSUME CheckFlushTxlns PROVE BlocksTypeOK'
  <2>1. /\ virt' = NothingCached
        /\ profile' \in [PPages -> [Offsets -> Translations \cup {NoTranslation}]]
    BY <1>6 DEF CheckFlushTxlns, NoTranslations
  <2>2. /\ flush' = "none" /\ dirtied' \subseteq PPages /\ dirtyPages' \subseteq PPages
        /\ UNCHANGED <<setup, tables, caches, codePages, decoded, heard>>
    BY <1>6 DEF CheckFlushTxlns
  <2> QED
    BY <2>1, <2>2 DEF NothingCached, setup, tables, caches, heard
<1>7. ASSUME NEW b \in Blocks, Lookup(b) PROVE BlocksTypeOK'
  <2>1. mapped[b[1]] \in PPages /\ b[2] \in Offsets
    BY <1>7 DEF Lookup, Blocks, Pages
  <2> QED
    BY <1>7, <2>1, SMTT(30) DEF Lookup, setup, tables, caches, heard
<1>8. ASSUME NEW b \in Blocks, NEW p \in PPages, NEW t \in Translations, Translated(b, p, t)
      PROVE BlocksTypeOK'
  <2>1. NoPages \in [VPages -> Pages] /\ b[1] \in VPages
    BY DEF NoPages, Pages, Blocks
  <2>2. Fill(NoPages, b[1]) \in [VPages -> Pages]
    BY <2>1, FindsPage
  <2> QED
    BY <1>8, <2>1, <2>2, SMTT(30) DEF Translated, setup, tables, heard
<1>9. ASSUME NEW b \in Blocks, DecodeSync(b) PROVE BlocksTypeOK'
  <2> DEFINE from == PageFor(readCache, b[1])
             version == IF from = NoPage THEN NoPage ELSE stores[from]
  <2>1. b[1] \in VPages
    BY DEF Blocks
  <2>2. from \in Pages /\ Fill(readCache, b[1]) \in [VPages -> Pages]
    BY <2>1, FindsPage
  <2>3. version \in Nat
    BY <2>2 DEF Pages, NoPage
  <2>4. [from |-> from, version |-> version] \in Decodings
    BY <2>2, <2>3 DEF Decodings
  <2>5. /\ decoded' = [decoded EXCEPT ![b] = [from |-> from, version |-> version]]
        /\ readCache' = Fill(readCache, b[1])
        /\ UNCHANGED <<setup, tables, writeCache, codePages, txlns, flush, heard>>
    BY <1>9 DEF DecodeSync
  <2> HIDE DEF from, version
  <2> QED
    BY <2>2, <2>4, <2>5 DEF setup, tables, txlns, heard
<1>10. CASE UNCHANGED blockVars
  BY <1>10 DEF blockVars, setup, tables, caches, txlns, heard
<1> QED
  BY <1>1, <1>2, <1>3, <1>4, <1>5, <1>6, <1>7, <1>8, <1>9, <1>10, BlocksCases

\* What the memory model keeps for fetches is what the page tables said since the
\* interpreter last heard of them.
LEMMA PagesStep ==
  ASSUME BlocksTypeOK, StoresAreNoticed, PagesOK, [BlocksNext]_blockVars
  PROVE PagesOK'
<1> USE DEF PagesOK, JIT
<1>1. ASSUME NEW v \in VPages, Load(v) PROVE PagesOK'
  BY <1>1, FindsPage, SMTT(30) DEF Load, setup, tables, heard, BlocksTypeOK
<1>2. ASSUME NEW p \in PPages, Stored(p) PROVE PagesOK'
  BY <1>2 DEF Stored, setup, heard
<1>3. ASSUME NEW m \in program.spaces, Remap(m) PROVE PagesOK'
  BY <1>3 DEF Remap, setup, caches, BlocksTypeOK
<1>4. ASSUME NEW events, Publish(events) PROVE PagesOK'
  <2>1. UNCHANGED <<engine, memory, mapped>>
    BY <1>4 DEF Publish, setup, tables
  <2>0. readCache' = NoPages \/ (DTlb \notin events /\ readCache' = readCache)
    BY <1>4 DEF Publish, FlushCaches
  <2>2. memory # "cache" => readCache' = NoPages
    BY <2>0
  <2>3. \A v \in VPages : mapped[v] \in seen'[v]
    BY <1>4 DEF Publish
  <2>4. ASSUME ~JIT, NEW v \in VPages PROVE readCache'[v] \in seen'[v] \cup {NoPage}
    <3>1. CASE HearsOfMapping(events)
      <4>1. readCache' = NoPages
        BY <2>0, <2>2, <2>4, <3>1 DEF HearsOfMapping
      <4> QED
        BY <4>1 DEF NoPages
    <3>2. CASE ~HearsOfMapping(events)
      BY <1>4, <2>0, <2>4, <3>2 DEF Publish, NoPages
    <3> QED
      BY <3>1, <3>2
  <2> QED
    BY <2>1, <2>2, <2>3, <2>4
<1>5. ASSUME NEW l \in 1 .. 2, SetFeatureLevel(l) PROVE PagesOK'
  BY <1>5 DEF SetFeatureLevel, setup, caches, heard
<1>6. ASSUME CheckFlushTxlns PROVE PagesOK'
  BY <1>6 DEF CheckFlushTxlns, setup, tables, caches, heard
<1>7. ASSUME NEW b \in Blocks, Lookup(b) PROVE PagesOK'
  BY <1>7 DEF Lookup, setup, tables, caches, heard
<1>8. ASSUME NEW b \in Blocks, NEW p \in PPages, NEW t \in Translations, Translated(b, p, t)
      PROVE PagesOK'
  <2>1. memory # "cache" => Fill(NoPages, b[1]) = NoPages
    BY DEF Fill
  <2> QED
    BY <1>8, <2>1 DEF Translated, setup, tables, heard
<1>9. ASSUME NEW b \in Blocks, DecodeSync(b) PROVE PagesOK'
  <2>1. b[1] \in VPages
    BY DEF Blocks
  <2> QED
    BY <1>9, <2>1, FindsPage, SMTT(30) DEF DecodeSync, setup, tables, heard, BlocksTypeOK
<1>10. CASE UNCHANGED blockVars
  BY <1>10 DEF blockVars, setup, tables, caches, heard
<1> QED
  BY <1>1, <1>2, <1>3, <1>4, <1>5, <1>6, <1>7, <1>8, <1>9, <1>10, BlocksCases

\* The interpreter translates nothing, and only the interpreter that keeps decoded
\* instructions decodes.
LEMMA UnusedStep ==
  ASSUME BlocksTypeOK, StoresAreNoticed, UnusedOK, [BlocksNext]_blockVars
  PROVE UnusedOK'
<1> USE DEF UnusedOK, JIT, Decoding
<1>1. ASSUME NEW v \in VPages, Load(v) PROVE UnusedOK'
  BY <1>1 DEF Load, setup, txlns
<1>2. ASSUME NEW p \in PPages, Stored(p) PROVE UnusedOK'
  BY <1>2 DEF Stored, setup
<1>3. ASSUME NEW m \in program.spaces, Remap(m) PROVE UnusedOK'
  BY <1>3 DEF Remap, setup, txlns
<1>4. ASSUME NEW events, Publish(events) PROVE UnusedOK'
  BY <1>4 DEF Publish, FlushTxlns, FlushDecoded, setup
<1>5. ASSUME NEW l \in 1 .. 2, SetFeatureLevel(l) PROVE UnusedOK'
  BY <1>5 DEF SetFeatureLevel, setup, InvalidateFeatures, NothingCached
<1>6. ASSUME CheckFlushTxlns PROVE UnusedOK'
  BY <1>6 DEF CheckFlushTxlns, setup
<1>7. ASSUME NEW b \in Blocks, Lookup(b) PROVE UnusedOK'
  BY <1>7 DEF Lookup, setup
<1>8. ASSUME NEW b \in Blocks, NEW p \in PPages, NEW t \in Translations, Translated(b, p, t)
      PROVE UnusedOK'
  BY <1>8 DEF Translated, setup
<1>9. ASSUME NEW b \in Blocks, DecodeSync(b) PROVE UnusedOK'
  BY <1>9 DEF DecodeSync, setup, txlns
<1>10. CASE UNCHANGED blockVars
  BY <1>10 DEF blockVars, setup, txlns
<1> QED
  BY <1>1, <1>2, <1>3, <1>4, <1>5, <1>6, <1>7, <1>8, <1>9, <1>10, BlocksCases

\* What a page held when the engine last heard of it is no newer than what it holds,
\* and a dirty page is in the list that checkFlushTxlns goes through.
LEMMA SyncedStep ==
  ASSUME BlocksTypeOK, StoresAreNoticed, SyncedOK, [BlocksNext]_blockVars
  PROVE SyncedOK'
<1> USE DEF SyncedOK, BlocksTypeOK
<1>1. ASSUME NEW v \in VPages, Load(v) PROVE SyncedOK'
  BY <1>1 DEF Load, tables, txlns, heard
<1>2. ASSUME NEW p \in PPages, Stored(p) PROVE SyncedOK'
  BY <1>2, SMTT(30) DEF Stored, heard
<1>3. ASSUME NEW m \in program.spaces, Remap(m) PROVE SyncedOK'
  BY <1>3 DEF Remap, txlns
<1>4. ASSUME NEW events, Publish(events) PROVE SyncedOK'
  BY <1>4, SMTT(30) DEF Publish, tables
<1>5. ASSUME NEW l \in 1 .. 2, SetFeatureLevel(l) PROVE SyncedOK'
  BY <1>5 DEF SetFeatureLevel, heard
<1>6. ASSUME CheckFlushTxlns PROVE SyncedOK'
  BY <1>6 DEF CheckFlushTxlns, tables, heard
<1>7. ASSUME NEW b \in Blocks, Lookup(b) PROVE SyncedOK'
  BY <1>7 DEF Lookup, tables, heard
<1>8. ASSUME NEW b \in Blocks, NEW p \in PPages, NEW t \in Translations, Translated(b, p, t)
      PROVE SyncedOK'
  BY <1>8 DEF Translated, tables, heard
<1>9. ASSUME NEW b \in Blocks, DecodeSync(b) PROVE SyncedOK'
  BY <1>9 DEF DecodeSync, tables, txlns, heard
<1>10. CASE UNCHANGED blockVars
  BY <1>10 DEF blockVars, tables, txlns, heard
<1> QED
  BY <1>1, <1>2, <1>3, <1>4, <1>5, <1>6, <1>7, <1>8, <1>9, <1>10, BlocksCases

\* The translations of a page are good until the page is written; what an event makes
\* stale goes before the next lookup.
LEMMA ProfileStep ==
  ASSUME BlocksTypeOK, StoresAreNoticed, ProfileOK, SyncedOK, UnusedOK, [BlocksNext]_blockVars
  PROVE ProfileOK'
<1> USE DEF ProfileOK, GoodTranslation
<1>1. ASSUME NEW v \in VPages, Load(v) PROVE ProfileOK'
  BY <1>1 DEF Load, setup, tables, txlns, heard
<1>2. ASSUME NEW p \in PPages, Stored(p) PROVE ProfileOK'
  <2> SUFFICES ASSUME NEW q \in PPages, NEW o \in Offsets, profile[q][o] # NoTranslation
               PROVE GoodTranslation(q, profile[q][o])'
    BY <1>2 DEF Stored
  <2>1. GoodTranslation(q, profile[q][o])
    OBVIOUS
  <2>2. UNCHANGED <<memory, aggressive, flush, synced, profile>> /\ dirtied \subseteq dirtied'
    BY <1>2 DEF Stored, setup, heard
  <2>3. memory # "user" /\ q \notin dirtied' => stores'[q] = stores[q]
    <3>1. profile[q] # NoTranslations
      BY SMTT(30) DEF NoTranslations
    <3>2. memory # "user" /\ q \notin dirtied' => q # p
      BY <1>2, <3>1 DEF Stored, StoresAreNoticed
    <3> QED
      BY <1>2, <3>2 DEF Stored, BlocksTypeOK
  <2> QED
    BY <2>1, <2>2, <2>3
<1>3. ASSUME NEW m \in program.spaces, Remap(m) PROVE ProfileOK'
  BY <1>3 DEF Remap, setup, txlns
<1>4. ASSUME NEW events, Publish(events) PROVE ProfileOK'
  <2>1. UNCHANGED <<memory, aggressive, stores, profile, dirtied>>
    BY <1>4 DEF Publish, setup, tables
  <2> SUFFICES ASSUME NEW q \in PPages, NEW o \in Offsets, profile[q][o] # NoTranslation
               PROVE GoodTranslation(q, profile[q][o])'
    BY <2>1
  <2>2. GoodTranslation(q, profile[q][o])
    OBVIOUS
  <2>3. JIT
    BY SMTT(30) DEF UnusedOK, NoTranslations
  <2>4. /\ flush' = flush \/ flush' = "all" \/ (flush = "none" /\ flush' = "dead")
        /\ All \in events => flush' = "all"
        /\ events \cap {L1I, Dead} # {} => flush' # "none"
    BY <1>4, <2>3 DEF Publish, FlushTxlns
  <2>5. \/ synced' = synced
        \/ synced' = stores /\ flush' = "all"
        \/ synced' = stores /\ flush' # "none" /\ (aggressive \/ memory # "user")
    BY <1>4, <2>3, <2>4 DEF Publish, HearsOfCode
  <2>6. profile[q][o].version \in Nat /\ stores[q] \in Nat
    <3>1. profile[q][o] \in Translations
      BY SMTT(30) DEF BlocksTypeOK
    <3> QED
      BY <3>1, SMTT(30) DEF BlocksTypeOK, Translations
  <2> QED
    BY <2>1, <2>2, <2>4, <2>5, <2>6, SMTT(30)
<1>5. ASSUME NEW l \in 1 .. 2, SetFeatureLevel(l) PROVE ProfileOK'
  BY <1>5, SMTT(30) DEF SetFeatureLevel, setup, heard
<1>6. ASSUME CheckFlushTxlns PROVE ProfileOK'
  <2> SUFFICES ASSUME NEW q \in PPages, NEW o \in Offsets, profile'[q][o] # NoTranslation
               PROVE GoodTranslation(q, profile[q][o])'
    OBVIOUS
  <2> DEFINE every == aggressive \/ flush = "all"
             gone == IF every THEN PPages ELSE dirtyPages
  <2>1. /\ profile' = [p \in PPages |-> IF p \in gone THEN NoTranslations ELSE profile[p]]
        /\ dirtied' = dirtied \ gone /\ flush # "none"
        /\ UNCHANGED <<memory, aggressive, stores, synced>>
    BY <1>6 DEF CheckFlushTxlns, setup, tables, heard
  <2>2. q \notin gone /\ profile'[q][o] = profile[q][o]
    BY <2>1 DEF NoTranslations
  <2>3. ~aggressive /\ flush # "all" /\ q \notin dirtied
    BY <2>2 DEF SyncedOK
  <2>4. GoodTranslation(q, profile[q][o])
    BY <2>2
  <2> QED
    BY <2>1, <2>2, <2>3, <2>4
<1>7. ASSUME NEW b \in Blocks, Lookup(b) PROVE ProfileOK'
  BY <1>7, SMTT(30) DEF Lookup, setup, tables, heard
<1>8. ASSUME NEW b \in Blocks, NEW p \in PPages, NEW t \in Translations, Translated(b, p, t)
      PROVE ProfileOK'
  <2> SUFFICES ASSUME NEW q \in PPages, NEW o \in Offsets, profile'[q][o] # NoTranslation
               PROVE GoodTranslation(q, profile[q][o])'
    OBVIOUS
  <2>1. UNCHANGED <<memory, aggressive, flush, stores, synced>>
    BY <1>8 DEF Translated, setup, tables, heard
  <2>2. CASE q = p /\ profile'[q][o] = t
    <3>1. synced[p] <= stores[p] /\ stores[p] \in Nat /\ synced[p] \in Nat
      BY DEF SyncedOK, BlocksTypeOK
    <3> QED
      BY <1>8, <2>1, <2>2, <3>1 DEF Translated
  <2>3. CASE profile'[q][o] = profile[q][o] /\ (q \in dirtied <=> q \in dirtied')
    <3>1. GoodTranslation(q, profile[q][o])
      BY <2>3
    <3> QED
      BY <2>1, <2>3, <3>1
  <2> QED
    BY <1>8, <2>2, <2>3, SMTT(30) DEF Translated
<1>9. ASSUME NEW b \in Blocks, DecodeSync(b) PROVE ProfileOK'
  BY <1>9 DEF DecodeSync, setup, tables, txlns, heard
<1>10. CASE UNCHANGED blockVars
  BY <1>10, SMTT(30) DEF blockVars, setup, tables, txlns, heard
<1> QED
  BY <1>1, <1>2, <1>3, <1>4, <1>5, <1>6, <1>7, <1>8, <1>9, <1>10, BlocksCases

\* What a JIT finds in the profile is a translation of the page that the page tables
\* name, and is as new as the engine was told.
LEMMA FoundIsCurrent ==
  ASSUME BlocksTypeOK, PagesOK, ProfileOK, NEW b \in Blocks, Lookup(b)
  PROVE Current(b[1], profile[mapped[b[1]]][b[2]])
<1>2. b[1] \in VPages /\ b[2] \in Offsets /\ mapped[b[1]] \in PPages
  BY DEF Lookup, BlocksTypeOK, Blocks, Pages
<1>3. flush = "none" /\ profile[mapped[b[1]]][b[2]] # NoTranslation
  BY DEF Lookup, Fits
<1>4. GoodTranslation(mapped[b[1]], profile[mapped[b[1]]][b[2]])
  BY <1>2, <1>3 DEF ProfileOK
<1> QED
  BY <1>2, <1>3, <1>4 DEF GoodTranslation, PagesOK, Current

\* What the engine would run next stays what the guest has put there since the engine
\* last heard of it.
LEMMA CurrentStep ==
  ASSUME BlocksTypeOK, StoresAreNoticed, PagesOK, UnusedOK, SyncedOK, ProfileOK, BlocksAreCurrent, [BlocksNext]_blockVars
  PROVE BlocksAreCurrent'
<1>0. PagesOK'
  BY PagesStep
<1>a. \A b \in Blocks : b[1] \in VPages
  BY DEF Blocks
<1>b. ~JIT' /\ ~Decoding' => \A v \in VPages : readCache'[v] \in seen'[v] \cup {NoPage}
  BY <1>0 DEF PagesOK
<1>c. ASSUME \A v \in VPages : seen[v] \subseteq seen'[v], synced' = synced, decoded' = decoded,
             \A b \in Blocks : \/ virt'[b] = NoTranslation
                               \/ virt'[b] = virt[b]
                               \/ virt'[b].freed
      PROVE BlocksAreCurrent'
  <2>1. ASSUME NEW b \in Blocks, virt'[b] # NoTranslation, ~virt'[b].freed
        PROVE Current(b[1], virt[b])'
    BY <1>a, <1>c, <2>1 DEF BlocksAreCurrent, Current
  <2>2. ASSUME NEW b \in Blocks, decoded'[b] # NoTranslation
        PROVE Current(b[1], decoded[b])'
    BY <1>a, <1>c, <2>2 DEF BlocksAreCurrent, Current
  <2> QED
    BY <1>b, <2>1, <2>2 DEF BlocksAreCurrent
<1>1. ASSUME NEW v \in VPages, Load(v) PROVE BlocksAreCurrent'
  BY <1>c, <1>1 DEF Load, txlns, heard
<1>2. ASSUME NEW p \in PPages, Stored(p) PROVE BlocksAreCurrent'
  BY <1>c, <1>2 DEF Stored, heard
<1>3. ASSUME NEW m \in program.spaces, Remap(m) PROVE BlocksAreCurrent'
  BY <1>c, <1>3 DEF Remap, txlns, BlocksTypeOK
<1>4. ASSUME NEW events, Publish(events) PROVE BlocksAreCurrent'
  <2>1. virt' = virt \/ virt' = NothingCached
    BY <1>4 DEF Publish, FlushTxlns
  <2>2. decoded' = decoded \/ decoded' = NothingCached
    BY <1>4 DEF Publish, FlushDecoded
  <2>3. ASSUME NEW b \in Blocks, virt'[b] # NoTranslation
        PROVE virt'[b] = virt[b] /\ seen' = seen /\ synced' = synced
    <3>1. virt' = virt /\ virt # NothingCached
      BY <2>1, <2>3 DEF NothingCached
    <3>2. JIT
      BY <3>1 DEF UnusedOK
    <3>3. events \cap FlushedBy = {}
      BY <1>4, <3>1 DEF Publish, FlushTxlns
    <3>4. ~HearsOfMapping(events) /\ ~HearsOfCode(events)
      BY <3>2, <3>3 DEF HearsOfMapping, HearsOfCode, FlushedBy
    <3> QED
      BY <1>4, <3>1, <3>4 DEF Publish
  <2>4. ASSUME NEW b \in Blocks, decoded'[b] # NoTranslation
        PROVE decoded'[b] = decoded[b] /\ seen' = seen /\ synced' = synced
    <3>1. decoded' = decoded /\ decoded # NothingCached
      BY <2>2, <2>4 DEF NothingCached
    <3>2. Decoding
      BY <3>1 DEF UnusedOK
    <3>3. events \cap {Dead, All} = {}
      BY <1>4, <3>1 DEF Publish, FlushDecoded
    <3>4. ~HearsOfMapping(events) /\ ~HearsOfCode(events)
      BY <3>2, <3>3 DEF HearsOfMapping, HearsOfCode, Decoding, JIT
    <3> QED
      BY <1>4, <3>1, <3>4 DEF Publish
  <2>5. ASSUME NEW b \in Blocks, virt'[b] # NoTranslation, ~virt'[b].freed
        PROVE Current(b[1], virt[b])'
    BY <2>3, <2>5 DEF BlocksAreCurrent, Current
  <2>6. ASSUME NEW b \in Blocks, decoded'[b] # NoTranslation
        PROVE Current(b[1], decoded[b])'
    BY <2>4, <2>6 DEF BlocksAreCurrent, Current
  <2> QED
    BY <1>b, <2>5, <2>6 DEF BlocksAreCurrent
<1>5. ASSUME NEW l \in 1 .. 2, SetFeatureLevel(l) PROVE BlocksAreCurrent'
  BY <1>c, <1>5 DEF SetFeatureLevel, InvalidateFeatures, heard
<1>6. ASSUME CheckFlushTxlns PROVE BlocksAreCurrent'
  BY <1>c, <1>6 DEF CheckFlushTxlns, NothingCached, heard
<1>7. ASSUME NEW b \in Blocks, Lookup(b) PROVE BlocksAreCurrent'
  <2> DEFINE t == profile[mapped[b[1]]][b[2]]
  <2>1. UNCHANGED <<seen, synced, decoded>> /\ virt' = [virt EXCEPT ![b] = t]
    BY <1>7 DEF Lookup, heard
  <2>2. Current(b[1], t)
    BY <1>7, FoundIsCurrent
  <2> HIDE DEF t
  <2>3. ASSUME NEW c \in Blocks, virt'[c] # NoTranslation, ~virt'[c].freed
        PROVE Current(c[1], virt[c])'
    BY <2>1, <2>2, <2>3 DEF BlocksAreCurrent, Current, BlocksTypeOK
  <2> QED
    BY <1>b, <2>1, <2>3 DEF BlocksAreCurrent, Current
<1>8. ASSUME NEW b \in Blocks, NEW p \in PPages, NEW t \in Translations, Translated(b, p, t)
      PROVE BlocksAreCurrent'
  <2>1. UNCHANGED <<seen, synced, decoded>>
    BY <1>8 DEF Translated, heard
  <2>2. Current(b[1], t)
    BY <1>a, <1>8 DEF Translated, Current, PagesOK, SyncedOK, BlocksTypeOK
  <2>3. ASSUME NEW c \in Blocks, virt'[c] # NoTranslation, ~virt'[c].freed
        PROVE Current(c[1], virt[c])'
    <3>1. (c = b /\ virt'[c] = t) \/ virt'[c] = virt[c]
      BY <1>8, <2>3 DEF Translated
    <3> QED
      BY <2>1, <2>2, <2>3, <3>1 DEF BlocksAreCurrent, Current
  <2> QED
    BY <1>b, <2>1, <2>3 DEF BlocksAreCurrent, Current
<1>9. ASSUME NEW b \in Blocks, DecodeSync(b) PROVE BlocksAreCurrent'
  <2> DEFINE from == PageFor(readCache, b[1])
             version == IF from = NoPage THEN NoPage ELSE stores[from]
             d == [from |-> from, version |-> version]
  <2>1. UNCHANGED <<seen, synced, virt>> /\ decoded' = [decoded EXCEPT ![b] = d] /\ Decoding
    BY <1>9 DEF DecodeSync, txlns, heard
  <2>2. /\ from \in Pages /\ from \in {readCache[b[1]], mapped[b[1]]}
        /\ from = NoPage \/ from = mapped[b[1]] \/ readCache[b[1]] # NoPage
        /\ readCache[b[1]] = NoPage => from = mapped[b[1]]
    BY <1>a, FindsPage DEF BlocksTypeOK, PageFor, Cached
  <2>3. from \in seen[b[1]]
    BY <1>a, <2>1, <2>2 DEF PagesOK, Decoding, JIT
  <2> HIDE DEF from
  <2>4. Current(b[1], d)
    BY <2>2, <2>3 DEF Current, SyncedOK, BlocksTypeOK, Pages
  <2> HIDE DEF d
  <2>5. ASSUME NEW c \in Blocks, decoded'[c] # NoTranslation
        PROVE Current(c[1], decoded[c])'
    BY <2>1, <2>4, <2>5 DEF BlocksAreCurrent, Current, BlocksTypeOK
  <2> QED
    BY <1>b, <2>1, <2>5 DEF BlocksAreCurrent, Current
<1>10. CASE UNCHANGED blockVars
  BY <1>c, <1>10 DEF blockVars, txlns, heard
<1> QED
  BY <1>1, <1>2, <1>3, <1>4, <1>5, <1>6, <1>7, <1>8, <1>9, <1>10, BlocksCases

\* A page with good translations stays marked as code, and no write cache gets by.
LEMMA NoticedStep ==
  ASSUME BlocksTypeOK, StoresAreNoticed, [BlocksNext]_blockVars
  PROVE StoresAreNoticed'
<1> USE DEF StoresAreNoticed
<1>0. NoPage \notin codePages
  BY PagesAssumption DEF BlocksTypeOK
<1>1. ASSUME NEW v \in VPages, Load(v) PROVE StoresAreNoticed'
  BY <1>0, <1>1 DEF Load, txlns
<1>2. ASSUME NEW p \in PPages, Stored(p),
             \A u \in VPages : \/ writeCache'[u] = writeCache[u]
                               \/ writeCache'[u] = p /\ p \notin codePages'
      PROVE StoresAreNoticed'
  <2>1. codePages' \subseteq codePages /\ profile' = profile
    BY <1>2 DEF Stored
  <2>2. \A v \in VPages : writeCache'[v] \notin codePages'
    BY <1>0, <1>2, <2>1
  <2>3. \A q \in PPages : q \in codePages => q \in codePages' \/ q \in dirtied'
    BY <1>2 DEF Stored
  <2>4. dirtied \subseteq dirtied'
    BY <1>2 DEF Stored
  <2> QED
    BY <1>0, <2>1, <2>2, <2>3, <2>4
<1>3. ASSUME NEW m \in program.spaces, Remap(m) PROVE StoresAreNoticed'
  BY <1>0, <1>3 DEF Remap, caches, txlns
<1>4. ASSUME NEW events, Publish(events) PROVE StoresAreNoticed'
  BY <1>0, <1>4 DEF Publish, FlushCaches, NoPages
<1>5. ASSUME NEW l \in 1 .. 2, SetFeatureLevel(l) PROVE StoresAreNoticed'
  BY <1>0, <1>5 DEF SetFeatureLevel, caches
<1>6. ASSUME CheckFlushTxlns PROVE StoresAreNoticed'
  BY <1>0, <1>6 DEF CheckFlushTxlns, caches
<1>7. ASSUME NEW b \in Blocks, Lookup(b) PROVE StoresAreNoticed'
  BY <1>0, <1>7 DEF Lookup, caches
<1>8. ASSUME NEW b \in Blocks, NEW p \in PPages, NEW t \in Translations, Translated(b, p, t)
      PROVE StoresAreNoticed'
  <2>1. codePages' = codePages \cup {p} /\ writeCache' = NoPages
    BY <1>8 DEF Translated
  <2>2. ASSUME NEW q \in PPages \ dirtied', profile'[q] # NoTranslations
        PROVE q \in codePages'
    <3>1. PICK o \in Offsets : profile'[q][o] # NoTranslation
      BY <1>8, <2>2, SMTT(30) DEF Translated, NoTranslations
    <3>2. CASE q = p
      BY <2>1, <3>2
    <3>3. CASE profile'[q][o] = profile[q][o] /\ (q \in dirtied <=> q \in dirtied')
      BY <1>0, <2>1, <2>2, <3>1, <3>3 DEF NoTranslations
    <3> QED
      BY <1>8, <3>1, <3>2, <3>3 DEF Translated
  <2>3. \A v \in VPages : writeCache'[v] \notin codePages'
    BY <1>0, <2>1, PagesAssumption DEF NoPages
  <2> QED
    BY <2>2, <2>3
<1>9. ASSUME NEW b \in Blocks, DecodeSync(b) PROVE StoresAreNoticed'
  BY <1>0, <1>9 DEF DecodeSync, txlns
<1>10. CASE UNCHANGED blockVars
  BY <1>0, <1>10 DEF blockVars, caches, txlns
<1> QED
  BY <1>1, <1>2, <1>3, <1>4, <1>5, <1>6, <1>7, <1>8, <1>9, <1>10, BlocksCases

-----------------------------------------------------------------------------
(* The theorems about the caches of code.                                  *)

\* The inductive invariant of the caches that hold a core's code.
THEOREM CodeInvariant == BlocksSpec => []CodeInv
<1>1. ASSUME CodeInv, [BlocksNext]_blockVars PROVE CodeInv'
  BY <1>1, BlocksTypeStep, PagesStep, UnusedStep, SyncedStep, ProfileStep, CurrentStep,
     NoticedStep
     DEF CodeInv
<1> QED
  BY <1>1, CodeInit, PTL DEF BlocksSpec

\* What any engine would run next is what the guest has put there since the engine last
\* heard of it, for any guest, any pages and any sequence of stores, remappings, fences
\* and flushes.
THEOREM RunsCurrentCode == BlocksSpec => []BlocksAreCurrent
<1>1. CodeInv => BlocksAreCurrent
  BY DEF CodeInv
<1> QED
  BY <1>1, CodeInvariant, PTL

\* A store to a page with translations that are still good is noticed, whichever way
\* it takes to the page.
THEOREM StoresToCodeAreNoticed == BlocksSpec => []StoresAreNoticed
<1>1. CodeInv => StoresAreNoticed
  BY DEF CodeInv
<1> QED
  BY <1>1, CodeInvariant, PTL
=============================================================================
