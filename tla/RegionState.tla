---------------------------- MODULE RegionState -----------------------------
(***************************************************************************)
(* The state of the region JIT (RegionTranslation): the profile::Region    *)
(* objects and their reference counts, the TranslationManager's table,     *)
(* cache and lists, the work units and the execution thread's pointers,    *)
(* with what must hold of them whatever the threads do.                    *)
(*                                                                         *)
(* A worker is seen through the work unit it holds (TranslationWorkQueue   *)
(* shows that a unit has one holder).  A translation is named by the unit  *)
(* it was made from.  Heat counters are abstracted to whether the region   *)
(* is hot; the guest's control flow, its writes to code and the progress   *)
(* of the compiler are nondeterministic.                                   *)
(*                                                                         *)
(* A Region that is freed is never reused by the model.  Pointers that do  *)
(* not count as references (region_cache_, touched_regions_, prev_block)   *)
(* may designate a freed Region; what happens once one is followed is      *)
(* undefined, so the first such access is recorded in fault and ends the   *)
(* behaviour.                                                              *)
(***************************************************************************)
EXTENDS Naturals, FiniteSets

CONSTANTS Pages,         \* guest pages
          Slots, SlotOf, \* the direct-mapped region_cache_: where the
                         \* pages that each kind of guest executes fall
          Regions,       \* Region objects that can be allocated
          Units,         \* work units that can be built
          None,          \* the null pointer, and no page
          Written,       \* the pages a system guest writes to
          Guests,        \* the kinds of guest: "user", "system", or "faulting",
                         \* a system guest whose fetches the MMU may refuse
          MaxVersion,    \* bound on changes of a page's contents
          MaxLeaks       \* bound on epochs that end holding one region

ASSUME PagesAssumption == Pages # {} /\ None \notin Pages \cup Regions \cup Units
ASSUME WrittenAssumption == Written \subseteq Pages
ASSUME SlotsAssumption == \A g \in Guests :
  SlotOf[g] \in [DOMAIN SlotOf[g] -> Slots] /\ DOMAIN SlotOf[g] \subseteq Pages
ASSUME PoolAssumption == IsFiniteSet(Regions) /\ IsFiniteSet(Units)
ASSUME GuestsAssumption == Guests \subseteq {"user", "system", "faulting"}
ASSUME BoundsAssumption == MaxVersion \in Nat /\ MaxLeaks \in Nat

VARIABLES
  guest,      \* the kind of guest that is run
  rgn,        \* the Region objects
  table,      \* RegionTable: page -> region
  cache,      \* region_cache_: slot -> tag and region
  touched,    \* touched_regions_
  dirty,      \* dirty_code_pages
  code,       \* CodeRegionTracker::code_regions
  prev,       \* prev_block: [set, of], the region the block belongs to
  unit,       \* the work units, and the translations made from them
  completed,  \* completed_translations
  stale,      \* stale_txlns
  version,    \* how often each page's code has changed
  mpc,        \* where the execution thread is
  epoch,      \* EpochInterpret's region pointer
  leaked,     \* references EpochInterpret returned without releasing
  todo,       \* the regions Profile has still to look at
  fault       \* the first undefined access

\* The states of a work unit whose worker may still follow its region pointer.
Busy == {"queued", "held", "started", "compile", "finish"}

Unborn == [page |-> None, life |-> "unborn", refs |-> 0, valid |-> FALSE,
           inTranslation |-> FALSE, txln |-> None, hot |-> FALSE]
Unbuilt == [state |-> "unbuilt", region |-> None, version |-> 0]

\* The translations ~Region hands to RegisterTranslationForGC when R becomes S.
Orphaned(R, S) == {R[r].txln : r \in {r \in Regions :
                     R[r].life = "live" /\ S[r].life = "freed" /\ R[r].txln # None}}

\* The MMU may refuse the fetches of the guest.
FetchFaults == guest = "faulting"

\* The Region object r has been deleted.
Freed(r) == rgn[r].life = "freed"

\* The region of the unit u is valid.
Valid(u) == rgn[unit[u].region].valid

-----------------------------------------------------------------------------
(* Properties of a state.                                                  *)

\* The units that hold a reference to r: a forgotten unit holds it for ever.
UnitsOf(r) == {u \in Units : unit[u].region = r /\ unit[u].state \in Busy \cup {"lost"}}
CompletedOf(r) == {u \in completed : unit[u].region = r}
InTable(r) == \E p \in Pages : table[p] = r

\* The count of a Region is exactly the number of its owners: the table, the
\* work units, the completed translations, EpochInterpret, and the epochs that
\* returned without releasing it.  So no owner is left with a freed Region, and
\* nothing but a forgotten reference keeps one alive.  (Without fetch faults,
\* after which EpochInterpret keeps a pointer it has released.)
RefsCounted ==
  ~FetchFaults => \A r \in Regions :
    rgn[r].refs = Cardinality(UnitsOf(r)) + Cardinality(CompletedOf(r)) + leaked[r]
                  + (IF InTable(r) THEN 1 ELSE 0) + (IF epoch = r THEN 1 ELSE 0)

\* The table holds only live, valid regions of the page they are found under,
\* and a write to such a page is always noticed: the page is marked as code.
TableIsCurrent ==
  ~FetchFaults => \A p \in Pages : table[p] # None =>
    /\ rgn[table[p]].life = "live" /\ rgn[table[p]].valid /\ rgn[table[p]].page = p
    /\ p \in code

\* At most one translation of a valid region is on its way, and the region is
\* not traced meanwhile: it is dispatched once, not again every profile.
OneInFlight ==
  \A u, v \in Units :
    LET Coming(x) == unit[x].state \in {"queued", "held", "started", "compile"} \/ x \in completed
    IN  Coming(u) /\ Valid(u) =>
          /\ rgn[unit[u].region].inTranslation
          /\ u # v /\ Coming(v) => unit[v].region # unit[u].region

\* A valid region never has a translation of code that has changed since, though
\* the worker may finish long after the page was written.
InstalledIsFresh ==
  \A r \in Regions :
    rgn[r].valid /\ rgn[r].txln # None => unit[rgn[r].txln].version = version[rgn[r].page]

\* RunGC would delete no translation that a live region still has.
StaleIsUnused ==
  \A r \in Regions : rgn[r].life = "live" => rgn[r].txln \notin stale
=============================================================================
