--------------------------- MODULE RegionSteps ----------------------------
(***************************************************************************)
(* The invariant of RegionTranslation and what its steps may do.           *)
(*                                                                         *)
(* RegionInv says what every pointer leads to: a region that the table     *)
(* holds is valid, and a valid region is in the table, under its page; a   *)
(* work unit knows the version of a valid region's code; a translation     *)
(* that is installed or stale was completed once and is not to be          *)
(* completed again; a valid region that awaits a translation is not hot.   *)
(*                                                                         *)
(* The effects (Stay, Inval, Got ...) are what a step does to what the     *)
(* invariant looks at.  RegionStepsProofs shows that every step has one of *)
(* them.                                                                   *)
(***************************************************************************)
EXTENDS RegionState

Region ==
  [page : Pages \cup {None}, life : {"unborn", "live", "freed"}, refs : Nat,
   valid : BOOLEAN, inTranslation : BOOLEAN, txln : Units \cup {None}, hot : BOOLEAN]
Objects == [Regions -> Region]
Unit ==
  [state : {"unbuilt", "lost", "deleted"} \cup Busy, region : Regions \cup {None}, version : Nat]

TypeOK ==
  /\ guest \in Guests
  /\ rgn \in Objects
  /\ table \in [Pages -> Regions \cup {None}]
  /\ cache \in [Slots -> [tag : Pages \cup {None}, data : Regions \cup {None}]]
  /\ touched \subseteq Regions /\ todo \subseteq Regions
  /\ unit \in [Units -> Unit]
  /\ completed \subseteq Units /\ stale \subseteq Units
  /\ version \in [Pages -> Nat]
  /\ epoch \in Regions \cup {None}
  /\ leaked \in [Regions -> Nat]

\* A region is alive while it is counted.
LifeOK ==
  \A r \in Regions : /\ rgn[r].life = "live" <=> rgn[r].refs # 0
                     /\ rgn[r].life = "unborn" => ~rgn[r].valid /\ rgn[r].txln = None

Born(r) == rgn[r].life # "unborn"
Built(u) == unit[u].state # "unbuilt"

\* Pointers lead to regions that were allocated.
CachedBorn == \A s \in Slots : cache[s].tag # None => cache[s].data \in Regions /\ Born(cache[s].data)
SeenBorn == \A r \in touched \cup todo : Born(r)
EpochBorn == epoch # None => Born(epoch)
UnitsBorn == \A u \in Units : Built(u) => unit[u].region \in Regions /\ Born(unit[u].region)
BornOK == CachedBorn /\ SeenBorn /\ EpochBorn /\ UnitsBorn

\* The table holds the valid regions.
TableOK ==
  /\ \A p \in Pages : table[p] # None =>
       rgn[table[p]].valid /\ rgn[table[p]].page = p /\ p \in code
  /\ \A r \in Regions : rgn[r].valid => rgn[r].page \in Pages /\ table[rgn[r].page] = r

\* The translation made from u is not on its way any more.
Over(u) == unit[u].state \in {"finish", "deleted"} /\ u \notin completed

\* A translation is installed, and retired, after it was completed.
UnitsOK ==
  /\ \A u \in completed : unit[u].state \in {"finish", "deleted"}
  /\ \A r \in Regions : rgn[r].txln # None => unit[rgn[r].txln].region = r /\ Over(rgn[r].txln)
  /\ \A u \in stale : Over(u)

Coming(u) == unit[u].state \in {"queued", "held", "started", "compile"} \/ u \in completed

\* A valid region that awaits a translation is not traced.
FlightOK ==
  \A u \in Units : Coming(u) /\ Valid(u) =>
    /\ rgn[unit[u].region].inTranslation /\ ~rgn[unit[u].region].hot
    /\ \A v \in Units \ {u} : Coming(v) => unit[v].region # unit[u].region

\* A unit of a valid region was built from the code as it is.
FreshOK ==
  \A u \in Units : Built(u) /\ Valid(u) =>
    unit[u].version = version[rgn[unit[u].region].page]

\* The owners that are neither the table nor EpochInterpret are counted by a number.
Owners(r) == Cardinality(UnitsOf(r)) + Cardinality(CompletedOf(r)) + leaked[r]
OwnersOK == \A r \in Regions : Owners(r) \in Nat

RegionInv ==
  /\ TypeOK /\ LifeOK /\ BornOK /\ TableOK /\ UnitsOK /\ FlightOK /\ FreshOK
  /\ StaleIsUnused /\ RefsCounted /\ OwnersOK
-----------------------------------------------------------------------------
(* The Region objects.                                                     *)

\* x and y differ in their references at most.
SameMarks(x, y) ==
  /\ x.page = y.page /\ x.valid = y.valid /\ x.inTranslation = y.inTranslation
  /\ x.txln = y.txln /\ x.hot = y.hot

\* S is R but for what becomes of r.
Only(r, R, S) == S \in Objects /\ \A q \in Regions \ {r} : S[q] = R[q]

\* y is a region of page p that was just made, with n references.
Made(y, p, n) ==
  /\ y.page = p /\ y.life = "live" /\ y.refs = n /\ y.valid = TRUE
  /\ y.inTranslation = FALSE /\ y.txln = None

-----------------------------------------------------------------------------
(* What the steps do.                                                      *)

\* A reference to x, now y, is released.
Lost(x, y) == y.refs = x.refs - 1 /\ y.life = IF x.refs = 1 THEN "freed" ELSE x.life

\* The live region x, now y, becomes invalid and is released.
Invalidated(x, y) ==
  /\ x.life = "live" /\ Lost(x, y) /\ y.valid = FALSE
  /\ y.page = x.page /\ y.inTranslation = x.inTranslation
  /\ y.txln = x.txln /\ y.hot = x.hot

\* Nothing that the invariant looks at changes, but for what the execution thread
\* has still to do.
Stay ==
  /\ UNCHANGED <<guest, rgn, table, cache, code, unit, completed, stale, version>>
  /\ touched' \in {touched, {}}
  /\ todo' \in {todo, touched, {table[p] : p \in Pages} \ {None}}
  /\ \/ UNCHANGED <<epoch, leaked>>
     \/ /\ epoch # None /\ epoch' = None
        /\ leaked' = [leaked EXCEPT ![epoch] = @ + 1]

\* The code of the pages in P changes: their regions are invalidated and leave the
\* table.
InvalRegions(P) ==
  /\ rgn' \in Objects
  /\ \A r \in Regions :
       IF \E p \in P : table[p] = r
         THEN Invalidated(rgn[r], rgn'[r])
         ELSE rgn'[r] = rgn[r]
InvalCache ==
  /\ cache' \in [Slots -> [tag : Pages \cup {None}, data : Regions \cup {None}]]
  /\ \A s \in Slots : cache'[s] = cache[s] \/ cache'[s].tag = None
Inval(P) ==
  /\ InvalRegions(P) /\ InvalCache
  /\ table' = [p \in Pages |-> IF p \in P THEN None ELSE table[p]]
  /\ code \ P \subseteq code'
  /\ version' \in [Pages -> Nat] /\ \A p \in Pages \ P : version'[p] = version[p]
  /\ stale' = stale \cup Orphaned(rgn, rgn')
  /\ UNCHANGED <<guest, touched, todo, unit, completed, epoch, leaked>>

\* GetRegion(p) returns r: a new region, or one that it knows.
GettingCache(p, r) ==
  /\ cache' \in [Slots -> [tag : Pages \cup {None}, data : Regions \cup {None}]]
  /\ \A s \in Slots : cache'[s] = cache[s] \/ cache'[s] = [tag |-> p, data |-> r]
Getting(p, r) ==
  /\ r \in Regions /\ touched' = touched \cup {r} /\ GettingCache(p, r)
  /\ code \subseteq code'
  /\ IF Born(r) THEN table' = table
     ELSE /\ table[p] = None /\ table' = [table EXCEPT ![p] = r]
          /\ p \in code'
  /\ UNCHANGED <<guest, unit, completed, version, leaked, todo>>

\* x, now y, is as it was, or has become hot unless it is in translation.
Traced(x, y) ==
  /\ y.page = x.page /\ y.valid = x.valid /\ y.inTranslation = x.inTranslation
  /\ y.txln = x.txln /\ (x.inTranslation => y.hot = x.hot)

\* Execute found r under page p.
Got(p, r) ==
  /\ Getting(p, r)
  /\ IF Born(r) THEN rgn' = rgn ELSE Only(r, rgn, rgn') /\ Made(rgn'[r], p, 1)
  /\ UNCHANGED <<stale, epoch>>

\* EpochInterpret lets go of its region and takes r, of page p.
LetGo(r) ==
  /\ rgn' \in Objects /\ \A q \in Regions \ {r, epoch} : rgn'[q] = rgn[q]
  /\ epoch # None => rgn[epoch].life = "live"
  /\ epoch \notin {None, r} => SameMarks(rgn[epoch], rgn'[epoch]) /\ Lost(rgn[epoch], rgn'[epoch])
Taken(p, r) ==
  IF Born(r)
    THEN /\ rgn[r].life = "live" /\ rgn'[r].life = "live" /\ Traced(rgn[r], rgn'[r])
         /\ rgn'[r].refs = rgn[r].refs + (IF epoch = r THEN 0 ELSE 1)
    ELSE Made(rgn'[r], p, 2)
Renewed(p, r) ==
  /\ Getting(p, r) /\ LetGo(r) /\ Taken(p, r)
  /\ epoch' = r /\ stale' = stale \cup Orphaned(rgn, rgn')

\* The table, the cache and the pointers of EpochInterpret stay.
Aside == UNCHANGED <<guest, table, cache, touched, code, version, epoch, leaked>>

\* EpochInterpret goes on in its region.
Kept ==
  /\ epoch \in Regions /\ Only(epoch, rgn, rgn') /\ Traced(rgn[epoch], rgn'[epoch])
  /\ rgn'[epoch].refs = rgn[epoch].refs /\ rgn'[epoch].life = rgn[epoch].life
  /\ Aside /\ UNCHANGED <<unit, completed, stale, todo>>

\* One reference to the live region r is released.
Released(r) ==
  /\ r \in Regions /\ rgn[r].life = "live"
  /\ Only(r, rgn, rgn') /\ SameMarks(rgn[r], rgn'[r]) /\ Lost(rgn[r], rgn'[r])
Dropped(r) ==
  /\ Released(r) /\ stale' = stale \cup Orphaned(rgn, rgn')
  /\ Aside /\ UNCHANGED <<completed, todo>>

\* Profile passes r over, or has it not translated, ...
PassedOver(r) ==
  /\ r \in Regions /\ Only(r, rgn, rgn')
  /\ rgn'[r].page = rgn[r].page /\ rgn'[r].life = rgn[r].life /\ rgn'[r].refs = rgn[r].refs
  /\ rgn'[r].valid = rgn[r].valid /\ rgn'[r].txln = rgn[r].txln
  /\ \/ rgn'[r].hot = rgn[r].hot /\ rgn'[r].inTranslation = rgn[r].inTranslation
     \/ ~rgn[r].valid
     \/ rgn[r].hot
Passed(r) ==
  /\ PassedOver(r) /\ todo' = todo \ {r}
  /\ Aside /\ UNCHANGED <<unit, completed, stale>>

\* ... or queues the unit u for it.
Dispatching(r) ==
  /\ r \in Regions /\ Only(r, rgn, rgn')
  /\ rgn[r].life = "live" /\ rgn[r].hot /\ rgn[r].valid
  /\ rgn'[r].page = rgn[r].page /\ rgn'[r].life = rgn[r].life
  /\ rgn'[r].refs = rgn[r].refs + 1 /\ rgn'[r].valid = TRUE /\ rgn'[r].txln = rgn[r].txln
  /\ rgn'[r].inTranslation = TRUE /\ rgn'[r].hot = FALSE
Queued(r, u) ==
  /\ Dispatching(r) /\ u \in Units /\ unit[u].state = "unbuilt"
  /\ unit' = [unit EXCEPT ![u] =
                [state |-> "queued", region |-> r, version |-> version[rgn[r].page]]]
  /\ todo' = todo \ {r}
  /\ Aside /\ UNCHANGED <<completed, stale>>

\* The completed translation of u is installed in its region r, or discarded.
Installing(u, r) ==
  /\ r \in Regions /\ rgn[r].life = "live"
  /\ Only(r, rgn, rgn') /\ Lost(rgn[r], rgn'[r])
  /\ rgn'[r].page = rgn[r].page /\ rgn'[r].valid = rgn[r].valid /\ rgn'[r].hot = rgn[r].hot
  /\ IF rgn[r].valid THEN rgn'[r].txln = u ELSE SameMarks(rgn[r], rgn'[r])
Retiring(u, r) ==
  /\ stale' \subseteq Units
  /\ \A t \in stale' : t \in stale \/ t = rgn[r].txln \/ (t = u /\ rgn'[r].life = "freed")
  /\ \A t \in stale' \ stale : rgn'[r].life = "freed" \/ rgn[r].valid
Registered(u) ==
  /\ u \in completed /\ completed' = completed \ {u}
  /\ Installing(u, unit[u].region) /\ Retiring(u, unit[u].region)
  /\ Aside /\ UNCHANGED <<unit, todo>>

\* The unit u is now in state s.
Moved(u, s) == unit' = [unit EXCEPT ![u].state = s]

\* A worker starts to translate the region r, or has translated it.
Begun(r) ==
  /\ Only(r, rgn, rgn')
  /\ rgn'[r].page = rgn[r].page /\ rgn'[r].life = rgn[r].life
  /\ rgn'[r].refs = rgn[r].refs /\ rgn'[r].valid = rgn[r].valid
  /\ rgn'[r].txln = rgn[r].txln /\ rgn'[r].hot = rgn[r].hot /\ rgn'[r].inTranslation = TRUE
Completed(r) ==
  /\ Only(r, rgn, rgn') /\ SameMarks(rgn[r], rgn'[r])
  /\ rgn'[r].refs = rgn[r].refs + 1 /\ rgn'[r].life = rgn[r].life

\* The next state of a unit that only moves.
Onward(u, s) ==
  \/ unit[u].state = "queued" /\ s = "held"
  \/ unit[u].state = "held" /\ ~Valid(u) /\ s = "lost"
  \/ unit[u].state = "started" /\ s \in {"compile", "finish"}
  \/ unit[u].state = "compile" /\ s = "finish"

\* What a worker that has u does: it goes on, deletes the unit, starts to translate
\* or has translated.
GoesOn(u) ==
  /\ \E s \in Busy \cup {"lost"} : Onward(u, s) /\ Moved(u, s)
  /\ UNCHANGED <<rgn, completed, stale>>
Deletes(u) ==
  /\ unit[u].state = "finish" \/ (unit[u].state = "held" /\ ~Valid(u))
  /\ Released(unit[u].region) /\ stale' = stale \cup Orphaned(rgn, rgn')
  /\ Moved(u, "deleted") /\ UNCHANGED completed
Begins(u) ==
  /\ unit[u].state = "held" /\ Begun(unit[u].region)
  /\ Moved(u, "started") /\ UNCHANGED <<completed, stale>>
Completes(u) ==
  /\ unit[u].state = "compile" /\ Completed(unit[u].region)
  /\ completed' = completed \cup {u} /\ Moved(u, "finish") /\ UNCHANGED stale
Worked(u) ==
  /\ Built(u) /\ unit[u].region \in Regions /\ rgn[unit[u].region].life = "live"
  /\ GoesOn(u) \/ Deletes(u) \/ Begins(u) \/ Completes(u)
  /\ Aside /\ UNCHANGED todo

\* What a step does.
RegionStep ==
  \/ Stay
  \/ \E P \in SUBSET Pages : Inval(P)
  \/ \E p \in Pages : \E r : Got(p, r) \/ Renewed(p, r)
  \/ Kept
  \/ Dropped(epoch) /\ FetchFaults /\ UNCHANGED unit
  \/ \E r \in Regions : Passed(r) \/ \E u \in Units : Queued(r, u)
  \/ \E u \in Units : Registered(u) \/ Worked(u)

\* What no step changes: a region that was allocated stays so, keeps its page and
\* does not become valid again; a unit that was built keeps its region and version.
Steady ==
  /\ rgn' \in Objects
  /\ \A r \in Regions : Born(r) => /\ Born(r)' /\ rgn'[r].page = rgn[r].page
                                   /\ rgn'[r].valid => rgn[r].valid
  /\ \A u \in Units : Built(u) => /\ Built(u)' /\ unit'[u].region = unit[u].region
                                  /\ unit'[u].version = unit[u].version
=============================================================================
