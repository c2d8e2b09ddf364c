-------------------------- MODULE RegionTranslation --------------------------
(***************************************************************************)
(* The region JIT: profile::Region objects and their reference counts, the *)
(* TranslationManager that finds, profiles and invalidates them, the loop  *)
(* of LLVMRegionJITExecutionEngine that interprets and runs translations,  *)
(* and the workers that translate.                                         *)
(*                                                                         *)
(* The state they share is that of RegionState.                            *)
(***************************************************************************)
EXTENDS RegionState

managerVars == <<table, cache, touched, dirty, code, prev>>
engineVars == <<guest, mpc, epoch, leaked, todo>>
vars == <<rgn, managerVars, unit, completed, stale, version, engineVars, fault>>

NoBlock == [set |-> FALSE, of |-> None]

Init ==
  /\ guest \in Guests
  /\ rgn = [r \in Regions |-> Unborn]
  /\ table = [p \in Pages |-> None]
  /\ cache = [s \in Slots |-> [tag |-> None, data |-> None]]
  /\ touched = {} /\ dirty = {} /\ code = {} /\ prev = NoBlock
  /\ unit = [u \in Units |-> Unbuilt]
  /\ completed = {} /\ stale = {}
  /\ version = [p \in Pages |-> 0]
  /\ mpc = "exec" /\ epoch = None /\ todo = {}
  /\ leaked = [r \in Regions |-> 0]
  /\ fault = "none"

-----------------------------------------------------------------------------
(* Region objects.  The operators map a state of the objects to the next.  *)

\* new Region(mgr, phys_base)
Instantiate(R, r, p) == [R EXCEPT ![r] = [Unborn EXCEPT !.page = p, !.life = "live",
                                                        !.refs = 1, !.valid = TRUE]]

\* Variant: the reference is used without being counted.
AcquireNothing(R, r) == R

Acquire(R, r) == [R EXCEPT ![r].refs = @ + 1]

\* Release: the last reference deletes the Region.
Release(R, r) == [R EXCEPT ![r].refs = @ - 1,
                           ![r].life = IF R[r].refs = 1 THEN "freed" ELSE @]

\* System emulation: memory models report writes to code.
SystemMode == guest # "user"

Slot(p) == SlotOf[guest][p]

\* The guest program goes wrong in a way the host does not define.
Fault(kind) ==
  /\ fault' = kind
  /\ UNCHANGED <<rgn, managerVars, unit, completed, stale, version, engineVars>>

-----------------------------------------------------------------------------
(* TranslationManager.                                                     *)

Hit(p) == cache[Slot(p)].tag = p

\* The regions GetRegion(p) may return: the cached one whatever became of it,
\* the table's, or a new one.
Found(p) ==
  IF Hit(p) THEN {cache[Slot(p)].data}
  ELSE IF table[p] # None THEN {table[p]}
  ELSE {r \in Regions : rgn[r].life = "unborn"}

\* The Region objects after GetRegion(p) has returned r.
AfterGet(p, r) == IF rgn[r].life = "unborn" THEN Instantiate(rgn, r, p) ELSE rgn

\* GetRegion(p) returning r; only a miss looks at the table and marks the page.
GetRegion(p, r) ==
  /\ r \in Found(p)
  /\ cache' = [cache EXCEPT ![Slot(p)] = [tag |-> p, data |-> r]]
  /\ table' = IF Hit(p) THEN table ELSE [table EXCEPT ![p] = r]
  /\ code' = IF Hit(p) THEN code ELSE code \cup {p}
  /\ touched' = touched \cup {r}

\* Following prev_block: nothing to follow, a null block, or a freed region's.
PrevFreed == prev.of # None /\ Freed(prev.of)
PrevNull == prev.set /\ prev.of = None

\* Variant: the region is released but stays in the table.
InvalidateRegionNotErased(p) ==
  /\ dirty' = dirty \cup {p}
  /\ prev' = IF prev.set /\ prev.of = table[p] THEN [prev EXCEPT !.of = None] ELSE prev
  /\ rgn' = IF table[p] = None THEN rgn
            ELSE Release([rgn EXCEPT ![table[p]].valid = FALSE], table[p])
  /\ stale' = stale \cup Orphaned(rgn, rgn')
  /\ UNCHANGED <<table, cache, touched>>

\* Variant: the region leaves the table but is not marked invalid.
InvalidateRegionStillValid(p) ==
  /\ dirty' = dirty \cup {p}
  /\ prev' = IF prev.set /\ prev.of = table[p] THEN [prev EXCEPT !.of = None] ELSE prev
  /\ table' = [table EXCEPT ![p] = None]
  /\ rgn' = IF table[p] = None THEN rgn ELSE Release(rgn, table[p])
  /\ stale' = stale \cup Orphaned(rgn, rgn')
  /\ UNCHANGED <<cache, touched>>

\* InvalidateRegion, published by CodeRegionTracker for a page that holds code.
InvalidateRegion(p) ==
  /\ dirty' = dirty \cup {p}
  /\ prev' = IF prev.set /\ prev.of = table[p] THEN [prev EXCEPT !.of = None] ELSE prev
  /\ table' = [table EXCEPT ![p] = None]
  /\ rgn' = IF table[p] = None THEN rgn
            ELSE Release([rgn EXCEPT ![table[p]].valid = FALSE], table[p])
  /\ stale' = stale \cup Orphaned(rgn, rgn')
  /\ UNCHANGED <<cache, touched>>

\* Every region of the table is invalidated and released.
FlushedRegions == [r \in Regions |->
  IF r \in {table[p] : p \in Pages}
    THEN [rgn[r] EXCEPT !.valid = FALSE, !.refs = @ - 1,
                        !.life = IF rgn[r].refs = 1 THEN "freed" ELSE @]
    ELSE rgn[r]]

\* Invalidate: everything but touched_regions_ is reset.
Invalidate ==
  /\ prev' = NoBlock
  /\ rgn' = FlushedRegions
  /\ stale' = stale \cup Orphaned(rgn, rgn')
  /\ dirty' = {}
  /\ table' = [p \in Pages |-> None]
  /\ cache' = [s \in Slots |-> [tag |-> None, data |-> None]]
  /\ UNCHANGED touched

-----------------------------------------------------------------------------
(* The guest, while a block is interpreted or a translation runs.          *)

InGuest == mpc = "jit" \/ (mpc = "epoch" /\ epoch # None)

\* A system memory model writes a page: code pages are invalidated first.
CodeWrite(p) ==
  /\ SystemMode /\ InGuest /\ p \in Written /\ version[p] < MaxVersion
  /\ IF p \notin code
       THEN /\ version' = [version EXCEPT ![p] = @ + 1]
            /\ UNCHANGED <<rgn, managerVars, unit, completed, stale, engineVars, fault>>
     ELSE IF PrevNull THEN Fault("null")
     ELSE IF PrevFreed \/ (table[p] # None /\ Freed(table[p])) THEN Fault("freed")
     ELSE /\ InvalidateRegion(p)
          /\ code' = code \ {p}
          /\ version' = [version EXCEPT ![p] = @ + 1]
          /\ UNCHANGED <<unit, completed, engineVars, fault>>

\* The x86 user model's clflush: the guest has changed code and says so.
FlushAllTranslations ==
  /\ ~SystemMode /\ InGuest
  /\ \A p \in Pages : version[p] < MaxVersion
  /\ version' = [p \in Pages |-> version[p] + 1]
  /\ Invalidate
  /\ UNCHANGED <<code, unit, completed, engineVars, fault>>

-----------------------------------------------------------------------------
(* LLVMRegionJITExecutionEngine::Execute.                                  *)

\* One iteration with the guest at page p: run the region's translation, if it
\* has one with this block, else interpret.
Execute(p) ==
  /\ mpc = "exec"
  /\ \E r \in Found(p) :
       IF Freed(r) THEN Fault("freed")
       ELSE /\ GetRegion(p, r)
            /\ rgn' = AfterGet(p, r)
            /\ \/ /\ rgn[r].txln # None
                  /\ mpc' = "jit"
               \/ mpc' = "epoch"
            /\ UNCHANGED <<dirty, prev, unit, completed, stale, version, guest, epoch, leaked,
                           todo, fault>>

\* The iteration's own fetch translation fails: straight to the interpreter.
ExecuteFetchFault ==
  /\ FetchFaults /\ mpc = "exec"
  /\ mpc' = "epoch"
  /\ UNCHANGED <<rgn, managerVars, unit, completed, stale, version, guest, epoch, leaked, todo, fault>>

LeaveTranslation ==
  /\ mpc = "jit"
  /\ mpc' = "exec"
  /\ UNCHANGED <<rgn, managerVars, unit, completed, stale, version, guest, epoch, leaked, todo, fault>>

\* Region::TraceBlock in r, the objects being R: a region in translation is not
\* traced, another becomes prev_block's and may become hot.
TraceBlock(R, r) ==
  \/ /\ R[r].inTranslation
     /\ rgn' = R /\ UNCHANGED prev
  \/ /\ ~R[r].inTranslation
     /\ \E h \in {R[r].hot, TRUE} : rgn' = [R EXCEPT ![r].hot = h]
     /\ prev' = [set |-> TRUE, of |-> r]

\* The objects after EpochInterpret has let go of the region it was in.
AfterLetGo == IF epoch = None THEN rgn ELSE Release(rgn, epoch)

\* EpochInterpret goes on in the same region.
EpochKeep ==
  /\ mpc = "epoch" /\ epoch # None /\ ~Freed(epoch)
  /\ IF PrevFreed /\ ~rgn[epoch].inTranslation THEN Fault("freed")
     ELSE /\ TraceBlock(rgn, epoch)
          /\ UNCHANGED <<table, cache, touched, dirty, code, unit, completed, stale, version,
                         engineVars, fault>>

\* EpochInterpret lets go of its region and takes the one of page p.
EpochRenew(p) ==
  /\ mpc = "epoch" /\ (epoch # None => ~Freed(epoch))
  /\ \E r \in Found(p) :
       LET R == IF rgn[r].life = "unborn" THEN Instantiate(AfterLetGo, r, p) ELSE AfterLetGo
       IN  IF R[r].life = "freed" THEN Fault("acquire")
           ELSE IF prev.of # None /\ R[prev.of].life = "freed" /\ ~R[r].inTranslation
             THEN Fault("freed")
           ELSE /\ GetRegion(p, r)
                /\ epoch' = r
                /\ TraceBlock(Acquire(R, r), r)
                /\ stale' = stale \cup Orphaned(rgn, AfterLetGo)
                /\ UNCHANGED <<dirty, unit, completed, version, guest, mpc, leaked, todo, fault>>

\* The fetch at the new page faults: the region was let go, its pointer stays.
EpochFetchFault ==
  /\ FetchFaults /\ mpc = "epoch" /\ epoch # None
  /\ IF Freed(epoch) THEN Fault("release")
     ELSE /\ rgn' = AfterLetGo
          /\ stale' = stale \cup Orphaned(rgn, rgn')
          /\ UNCHANGED <<managerVars, unit, completed, version, engineVars, fault>>

\* EpochInterpret returns without releasing the region it is in.
EpochEnd ==
  /\ mpc = "epoch"
  /\ epoch # None => leaked[epoch] < MaxLeaks
  /\ leaked' = IF epoch = None THEN leaked ELSE [leaked EXCEPT ![epoch] = @ + 1]
  /\ epoch' = None /\ mpc' = "exec"
  /\ UNCHANGED <<rgn, managerVars, unit, completed, stale, version, guest, todo, fault>>

-----------------------------------------------------------------------------
(* Profile and RegisterCompletedTranslations, every 10000 iterations.      *)

\* Profile looks at every region if the threshold moved, else at the touched.
Profile ==
  /\ mpc = "exec"
  /\ todo' \in {touched, {table[p] : p \in Pages} \ {None}}
  /\ mpc' = "profile"
  /\ UNCHANGED <<rgn, managerVars, unit, completed, stale, version, guest, epoch, leaked, fault>>

\* Variant: the unit's constructor does not acquire the region.
DispatchedUncounted(r) == [rgn EXCEPT ![r].inTranslation = TRUE, ![r].hot = FALSE]

\* Variant: a region whose unit was queued keeps its heat.
DispatchedHot(r) == [rgn EXCEPT ![r].inTranslation = TRUE, ![r].refs = @ + 1]

\* A hot region for which a unit was queued.
Dispatched(r) == [rgn EXCEPT ![r].inTranslation = TRUE, ![r].refs = @ + 1, ![r].hot = FALSE]

ProfileRegion(r) ==
  /\ mpc = "profile" /\ r \in todo
  /\ IF Freed(r) THEN Fault("freed")
     ELSE /\ todo' = todo \ {r}
          /\ \/ /\ rgn[r].page \in dirty \/ ~rgn[r].hot
                /\ UNCHANGED <<rgn, unit>>
             \/ /\ rgn[r].page \notin dirty /\ rgn[r].hot /\ ~rgn[r].valid
                /\ rgn' = [rgn EXCEPT ![r].inTranslation = TRUE]
                /\ UNCHANGED unit
             \/ /\ rgn[r].page \notin dirty /\ rgn[r].hot /\ rgn[r].valid
                /\ \/ /\ rgn' = [rgn EXCEPT ![r].inTranslation = FALSE, ![r].hot = FALSE]
                      /\ UNCHANGED unit
                   \/ \E u \in Units :
                        /\ unit[u] = Unbuilt
                        /\ unit' = [unit EXCEPT ![u] =
                             [state |-> "queued", region |-> r, version |-> version[rgn[r].page]]]
                        /\ rgn' = Dispatched(r)
          /\ UNCHANGED <<managerVars, completed, stale, version, guest, mpc, epoch, leaked, fault>>

\* The end of Profile, and the unlocked look at completed_translations.
ProfileEnd ==
  /\ mpc = "profile" /\ todo = {}
  /\ touched' = {} /\ dirty' = {} /\ prev' = NoBlock
  /\ mpc' = IF completed = {} THEN "exec" ELSE "register"
  /\ UNCHANGED <<rgn, table, cache, code, unit, completed, stale, version, guest, epoch, leaked, todo, fault>>

\* RegisterTranslation: an invalid region's translation is discarded.
Installed(u) ==
  IF rgn[unit[u].region].valid
    THEN [rgn EXCEPT ![unit[u].region].txln = u, ![unit[u].region].inTranslation = FALSE]
    ELSE rgn

\* Variant: the new translation is assigned before the old one is retired.
ReplacedTooLate(u) == {t \in Units : t = u /\ rgn[unit[u].region].valid}

\* The translation a valid region had before.
Replaced(u) == {t \in Units : t = rgn[unit[u].region].txln /\ rgn[unit[u].region].valid}

\* One turn of the loop over completed_translations, whose lock is held.
RegisterTranslation(u) ==
  /\ mpc = "register" /\ u \in completed /\ ~Freed(unit[u].region)
  /\ rgn' = Release(Installed(u), unit[u].region)
  /\ stale' = stale \cup Orphaned(Installed(u), rgn') \cup Replaced(u)
  /\ completed' = completed \ {u}
  /\ mpc' = IF completed = {u} THEN "exec" ELSE "register"
  /\ UNCHANGED <<managerVars, unit, version, guest, epoch, leaked, todo, fault>>

-----------------------------------------------------------------------------
(* The workers.                                                            *)

SetUnit(u, s) == unit' = [unit EXCEPT ![u].state = s]

\* Only the unit moves.
WorkerStep(u, s) ==
  /\ SetUnit(u, s)
  /\ UNCHANGED <<rgn, managerVars, completed, stale, version, engineVars, fault>>

Dequeue(u) == unit[u].state = "queued" /\ WorkerStep(u, "held")

\* ~TranslationWorkUnit releases the region.
Delete(u) ==
  /\ rgn' = Release(rgn, unit[u].region)
  /\ stale' = stale \cup Orphaned(rgn, rgn')
  /\ SetUnit(u, "deleted")
  /\ UNCHANGED <<managerVars, completed, version, engineVars, fault>>

\* The first validity test of the dequeue loop, and the second.
SkipInvalid(u) == unit[u].state = "held" /\ ~Valid(u) /\ Delete(u)
Forget(u) == unit[u].state = "held" /\ ~Valid(u) /\ WorkerStep(u, "lost")

\* Translate: SetStatus, then the third validity test.
StartTranslation(u) ==
  /\ unit[u].state = "held"
  /\ rgn' = [rgn EXCEPT ![unit[u].region].inTranslation = TRUE]
  /\ SetUnit(u, "started")
  /\ UNCHANGED <<managerVars, completed, stale, version, engineVars, fault>>

TestValid(u) ==
  /\ unit[u].state = "started"
  /\ WorkerStep(u, IF Valid(u) THEN "compile" ELSE "finish")

CompileFails(u) == unit[u].state = "compile" /\ WorkerStep(u, "finish")

\* MarkTranslationAsComplete, which waits for the lock.
Complete(u) ==
  /\ unit[u].state = "compile" /\ mpc # "register"
  /\ rgn' = Acquire(rgn, unit[u].region)
  /\ completed' = completed \cup {u}
  /\ SetUnit(u, "finish")
  /\ UNCHANGED <<managerVars, stale, version, engineVars, fault>>

Finish(u) == unit[u].state = "finish" /\ Delete(u)

\* A worker follows its unit's region, as every step of it does.
Worker(u) ==
  /\ unit[u].state \in Busy
  /\ IF Freed(unit[u].region) THEN Fault("freed")
     ELSE \/ Dequeue(u) \/ SkipInvalid(u) \/ Forget(u) \/ StartTranslation(u)
          \/ TestValid(u) \/ CompileFails(u) \/ Complete(u) \/ Finish(u)

\* RegisterCompletedTranslations follows a region that is gone.
RegisterFreed(u) ==
  mpc = "register" /\ u \in completed /\ Freed(unit[u].region) /\ Fault("freed")

-----------------------------------------------------------------------------
Next ==
  /\ fault = "none"
  /\ \/ \E p \in DOMAIN SlotOf[guest] :
          CodeWrite(p) \/ Execute(p) \/ EpochRenew(p)
     \/ FlushAllTranslations \/ ExecuteFetchFault \/ LeaveTranslation
     \/ EpochKeep \/ EpochFetchFault \/ EpochEnd
     \/ Profile \/ ProfileEnd
     \/ \E r \in Regions : ProfileRegion(r)
     \/ \E u \in Units : Worker(u) \/ RegisterTranslation(u) \/ RegisterFreed(u)

Spec == Init /\ [][Next]_vars

-----------------------------------------------------------------------------
(* Property.                                                               *)

\* Acquire is never called on a deleted Region (the assertion in Acquire).
AcquireIsLive == fault # "acquire"
=============================================================================
