---------------------- MODULE RegionTranslationProofs -----------------------
(***************************************************************************)
(* Proofs about RegionTranslation for any pages, regions, work units,      *)
(* guests and bounds.  The effects of RegionSteps keep RegionInv: one      *)
(* lemma for each part of the invariant (the types, the table, the units,  *)
(* the translations, the counts), with one step for each effect.  Each     *)
(* action of RegionTranslation has one of the effects (RegionCases), and   *)
(* the theorems are drawn from that.                                       *)
(***************************************************************************)
EXTENDS RegionTranslation, RegionSteps, TLAPS

\* The prover of a leaf that names none.
USE Zenon

-----------------------------------------------------------------------------
(* Regions, the table of regions and the cache of it.                      *)

\* What ~Region hands over are translations of regions that have died.
LEMMA OrphanedIs ==
  ASSUME NEW R \in Objects, NEW S \in Objects
  PROVE /\ Orphaned(R, S) \subseteq Units
        /\ \A t \in Orphaned(R, S) : \E r \in Regions :
             R[r].life = "live" /\ S[r].life = "freed" /\ R[r].txln = t
  BY DEF Orphaned, Objects, Region

\* A region that is counted is alive, and one that was allocated and not freed.
LEMMA Counted ==
  ASSUME RegionInv, NEW r \in Regions
  PROVE /\ rgn[r] \in Region /\ rgn[r].refs \in Nat
        /\ Born(r) /\ ~Freed(r) => rgn[r].life = "live"
        /\ rgn[r].life = "live" <=> rgn[r].refs # 0
  BY SMTT(30) DEF RegionInv, TypeOK, LifeOK, Objects, Region, Born, Freed

\* Without fetch faults, the regions of the table are alive.
LEMMA TableIsAlive ==
  ASSUME RegionInv, ~FetchFaults, NEW p \in Pages, table[p] # None
  PROVE table[p] \in Regions /\ rgn[table[p]].life = "live"
<1>1. table[p] \in Regions /\ InTable(table[p])
  BY DEF RegionInv, TypeOK, InTable
<1>2. rgn[table[p]].refs = Owners(table[p]) + 1 + (IF epoch = table[p] THEN 1 ELSE 0)
  BY <1>1 DEF RegionInv, RefsCounted, Owners
<1>3. Owners(table[p]) \in Nat
  BY <1>1 DEF RegionInv, OwnersOK
<1> QED
  BY <1>1, <1>2, <1>3, Counted, SMTT(30)

\* A region that lives on is counted.
LEMMA LostLife ==
  ASSUME NEW x \in Region, x.life = "live", x.refs # 0, NEW y \in Region, Lost(x, y)
  PROVE y.life # "unborn" /\ (y.life = "live" <=> y.refs # 0)
  BY SMTT(30) DEF Lost

\* Regions and units go on, and the references tell whether a region is alive.
LEMMA SteadyStep ==
  ASSUME RegionInv, RegionStep
  PROVE Steady /\ LifeOK'
<1>a. rgn \in Objects /\ unit \in [Units -> Unit]
  BY DEF RegionInv, TypeOK
<1>b. ASSUME NEW r \in Regions
      PROVE /\ rgn[r] \in Region
            /\ rgn[r].life = "live" <=> rgn[r].refs # 0
            /\ ~Born(r) => ~rgn[r].valid /\ rgn[r].txln = None
  BY Counted DEF RegionInv, LifeOK, Born
<1> DEFINE Fine(r) == /\ rgn'[r] \in Region
                      /\ rgn'[r].life = "live" <=> rgn'[r].refs # 0
                      /\ rgn'[r].life = "unborn" => ~rgn'[r].valid /\ rgn'[r].txln = None
                      /\ Born(r) => /\ Born(r)' /\ rgn'[r].page = rgn[r].page
                                    /\ rgn'[r].valid => rgn[r].valid
           Lasting == \A u \in Units : Built(u) => /\ Built(u)' /\ unit'[u].region = unit[u].region
                                                  /\ unit'[u].version = unit[u].version
<1>c. ASSUME rgn' \in Objects, \A r \in Regions : Fine(r), Lasting PROVE Steady /\ LifeOK'
  BY <1>c DEF Steady, LifeOK
<1>d. ASSUME NEW r \in Regions, rgn'[r] = rgn[r] PROVE Fine(r)
  BY <1>b, <1>d DEF Born
<1>e. ASSUME NEW r \in Regions, rgn'[r] \in Region, rgn'[r].page = rgn[r].page,
             rgn'[r].valid => rgn[r].valid, rgn[r].life = "live", Lost(rgn[r], rgn'[r])
      PROVE Fine(r)
  BY <1>b, <1>e, LostLife DEF Born
<1>f. ASSUME NEW r \in Regions, rgn'[r] \in Region, rgn'[r].page = rgn[r].page,
             rgn'[r].valid = rgn[r].valid, rgn'[r].txln = rgn[r].txln,
             rgn'[r].life = rgn[r].life, rgn'[r].refs = rgn[r].refs
      PROVE Fine(r)
  BY <1>b, <1>f DEF Born
<1>g. ASSUME NEW r \in Regions, NEW p, NEW n \in Nat \ {0}, ~Born(r), rgn'[r] \in Region,
             Made(rgn'[r], p, n)
      PROVE Fine(r)
  BY <1>g DEF Made
<1>h. ASSUME NEW r \in Regions, rgn'[r] \in Region, rgn'[r].page = rgn[r].page,
             rgn'[r].valid = rgn[r].valid, rgn[r].life = "live", rgn'[r].life = "live",
             NEW n \in Nat, rgn'[r].refs = rgn[r].refs + n
      PROVE Fine(r)
  <2>1. rgn[r].refs \in Nat \ {0}
    BY <1>b, <1>h DEF Region
  <2> QED
    BY <1>h, <2>1, SMTT(30) DEF Born
<1>i. unit' = unit => Lasting
  BY DEF Built
<1>j. ASSUME NEW u \in Units, NEW t, Built(u), t # "unbuilt", Moved(u, t) PROVE Lasting
  <2>1. \A v \in Units : v # u => unit'[v] = unit[v]
    BY <1>j, SMTT(30) DEF Moved
  <2>2. unit'[u].state = t /\ unit'[u].region = unit[u].region
        /\ unit'[u].version = unit[u].version
    BY <1>a, <1>j, SMTT(30) DEF Moved
  <2> QED
    BY <1>j, <2>1, <2>2 DEF Built
<1>k. ASSUME NEW r \in Regions, Only(r, rgn, rgn'), Fine(r)
      PROVE rgn' \in Objects /\ \A q \in Regions : Fine(q)
  <2> HIDE DEF Fine
  <2> QED
    BY <1>d, <1>k DEF Only
<1> HIDE DEF Fine, Lasting
<1>1. CASE Stay
  BY <1>1, <1>a, <1>c, <1>d, <1>i DEF Stay
<1>2. ASSUME NEW P \in SUBSET Pages, Inval(P) PROVE Steady /\ LifeOK'
  <2>1. rgn' \in Objects /\ unit' = unit
    BY <1>2 DEF Inval, InvalRegions
  <2>2. ASSUME NEW r \in Regions PROVE Fine(r)
    <3>1. rgn'[r] = rgn[r] \/ Invalidated(rgn[r], rgn'[r])
      BY <1>2 DEF Inval, InvalRegions
    <3>2. rgn'[r] \in Region
      BY <2>1 DEF Objects
    <3> QED
      BY <1>d, <1>e, <3>1, <3>2 DEF Invalidated
  <2> QED
    BY <1>c, <1>i, <2>1, <2>2
<1>3. ASSUME NEW p \in Pages, NEW r, Got(p, r) PROVE Steady /\ LifeOK'
  <2>1. r \in Regions /\ unit' = unit
    BY <1>3 DEF Got, Getting
  <2>2. CASE Born(r)
    BY <1>3, <1>a, <1>c, <1>d, <1>i, <2>1, <2>2 DEF Got
  <2>3. CASE ~Born(r)
    <3>1. Only(r, rgn, rgn') /\ Made(rgn'[r], p, 1) /\ rgn'[r] \in Region
      BY <1>3, <2>1, <2>3 DEF Got, Only, Objects
    <3>2. Fine(r)
      BY <1>g, <2>1, <2>3, <3>1, SMTT(30)
    <3> QED
      BY <1>c, <1>i, <1>k, <2>1, <3>1, <3>2
  <2> QED
    BY <2>2, <2>3
<1>4. ASSUME NEW p \in Pages, NEW r, Renewed(p, r) PROVE Steady /\ LifeOK'
  <2>1. r \in Regions /\ unit' = unit /\ rgn' \in Objects
    BY <1>4 DEF Renewed, Getting, LetGo
  <2>2. ASSUME NEW q \in Regions PROVE Fine(q)
    <3>1. rgn'[q] \in Region
      BY <2>1 DEF Objects
    <3>2. CASE q \notin {r, epoch}
      BY <1>4, <1>d, <3>2 DEF Renewed, LetGo
    <3>3. CASE q = epoch /\ q # r
      <4>1. q # None
        BY PagesAssumption
      <4>2. rgn[q].life = "live" /\ SameMarks(rgn[q], rgn'[q]) /\ Lost(rgn[q], rgn'[q])
        BY <1>4, <3>3, <4>1 DEF Renewed, LetGo
      <4> QED
        BY <1>e, <3>1, <4>2 DEF SameMarks
    <3>4. CASE q = r /\ Born(r)
      <4> DEFINE n == IF epoch = r THEN 0 ELSE 1
      <4>1. rgn[q].life = "live" /\ rgn'[q].life = "live" /\ Traced(rgn[q], rgn'[q])
            /\ rgn'[q].refs = rgn[q].refs + n /\ n \in Nat
        BY <1>4, <3>4 DEF Renewed, Taken
      <4> HIDE DEF n
      <4> QED
        BY <1>h, <3>1, <4>1 DEF Traced
    <3>5. CASE q = r /\ ~Born(r)
      BY <1>4, <1>g, <3>1, <3>5, SMTT(30) DEF Renewed, Taken
    <3> QED
      BY <3>2, <3>3, <3>4, <3>5
  <2> QED
    BY <1>c, <1>i, <2>1, <2>2
<1>5. CASE Kept
  <2>1. /\ epoch \in Regions /\ Only(epoch, rgn, rgn') /\ unit' = unit
        /\ rgn'[epoch] \in Region /\ Traced(rgn[epoch], rgn'[epoch])
        /\ rgn'[epoch].refs = rgn[epoch].refs /\ rgn'[epoch].life = rgn[epoch].life
    BY <1>5 DEF Kept, Only, Objects
  <2>2. Fine(epoch)
    BY <1>f, <2>1 DEF Traced
  <2> QED
    BY <1>c, <1>i, <1>k, <2>1, <2>2
<1>6. ASSUME NEW r, Dropped(r)
      PROVE rgn' \in Objects /\ \A q \in Regions : Fine(q)
  <2>1. /\ r \in Regions /\ Only(r, rgn, rgn') /\ rgn'[r] \in Region
        /\ rgn[r].life = "live" /\ SameMarks(rgn[r], rgn'[r]) /\ Lost(rgn[r], rgn'[r])
    BY <1>6 DEF Dropped, Released, Only, Objects
  <2>2. Fine(r)
    BY <1>e, <2>1 DEF SameMarks
  <2> QED
    BY <1>k, <2>1, <2>2
<1>7. ASSUME NEW r \in Regions, Passed(r) PROVE Steady /\ LifeOK'
  <2>1. Only(r, rgn, rgn') /\ rgn'[r] \in Region /\ unit' = unit
    BY <1>7 DEF Passed, PassedOver, Only, Objects
  <2>2. Fine(r)
    BY <1>7, <1>f, <2>1 DEF Passed, PassedOver
  <2> QED
    BY <1>c, <1>i, <1>k, <2>1, <2>2
<1>8. ASSUME NEW r \in Regions, NEW u \in Units, Queued(r, u) PROVE Steady /\ LifeOK'
  <2>1. Only(r, rgn, rgn') /\ rgn'[r] \in Region
    BY <1>8 DEF Queued, Dispatching, Only, Objects
  <2>2. Fine(r)
    <3>1. rgn[r].valid = TRUE
      BY <1>8 DEF Queued, Dispatching
    <3> QED
      BY <1>8, <1>h, <2>1, ZenonT(30) DEF Queued, Dispatching
  <2>3. Lasting
    <3>1. \A v \in Units : v # u => unit'[v] = unit[v]
      BY <1>8, SMTT(30) DEF Queued
    <3> QED
      BY <1>8, SMTT(30) DEF Queued, Built, Lasting
  <2> QED
    BY <1>c, <1>k, <2>1, <2>2, <2>3
<1>9. ASSUME NEW u \in Units, Registered(u) PROVE Steady /\ LifeOK'
  <2> DEFINE r == unit[u].region
  <2>1. /\ r \in Regions /\ Only(r, rgn, rgn') /\ rgn'[r] \in Region /\ unit' = unit
        /\ rgn[r].life = "live" /\ Lost(rgn[r], rgn'[r])
        /\ rgn'[r].page = rgn[r].page /\ rgn'[r].valid = rgn[r].valid
    BY <1>9 DEF Registered, Installing, Only, Objects
  <2>2. Fine(r)
    BY <1>e, <2>1
  <2> QED
    BY <1>c, <1>i, <1>k, <2>1, <2>2
<1>10. ASSUME NEW u \in Units, Worked(u) PROVE Steady /\ LifeOK'
  <2> DEFINE r == unit[u].region
  <2>1. Built(u) /\ r \in Regions /\ rgn[r].life = "live"
    BY <1>10 DEF Worked
  <2>2. CASE GoesOn(u)
    <3>1. Lasting
      BY <1>j, <2>1, <2>2 DEF GoesOn, Busy
    <3> QED
      BY <1>a, <1>c, <1>d, <2>2, <3>1 DEF GoesOn
  <2>3. CASE Deletes(u)
    BY <1>c, <1>j, <1>6, <1>10, <2>3 DEF Worked, Deletes, Dropped
  <2>4. CASE Begins(u)
    <3>1. Only(r, rgn, rgn') /\ rgn'[r] \in Region /\ Lasting
      BY <1>j, <2>1, <2>4 DEF Begun, Begins, Only, Objects
    <3>2. Fine(r)
      BY <1>f, <2>1, <2>4, <3>1 DEF Begun, Begins
    <3> QED
      BY <1>c, <1>k, <2>1, <3>1, <3>2
  <2>5. CASE Completes(u)
    <3>1. Only(r, rgn, rgn') /\ rgn'[r] \in Region /\ Lasting
      BY <1>j, <2>1, <2>5 DEF Completed, Completes, Only, Objects
    <3>2. Fine(r)
      BY <1>h, <2>1, <2>5, <3>1 DEF Completed, Completes, SameMarks
    <3> QED
      BY <1>c, <1>k, <2>1, <3>1, <3>2
  <2> QED
    BY <1>10, <2>2, <2>3, <2>4, <2>5 DEF Worked
<1>11. CASE Dropped(epoch) /\ UNCHANGED unit
  BY <1>c, <1>i, <1>6, <1>11
<1> QED
  BY <1>1, <1>2, <1>3, <1>4, <1>5, <1>7, <1>8, <1>9, <1>10, <1>11 DEF RegionStep

\* A unit that moves keeps its region and its version.
LEMMA MovedUnit ==
  ASSUME unit \in [Units -> Unit], NEW u \in Units, NEW t \in {"lost", "deleted"} \cup Busy,
         Moved(u, t)
  PROVE /\ unit' \in [Units -> Unit]
        /\ \A v \in Units \ {u} : unit'[v] = unit[v]
        /\ unit'[u].state = t /\ unit'[u].region = unit[u].region
        /\ unit'[u].version = unit[u].version
<1> DEFINE x == [unit[u] EXCEPT !.state = t]
<1>1. unit' = [unit EXCEPT ![u] = x] /\ unit[u] \in Unit
  BY DEF Moved
<1>2. x \in Unit /\ x.state = t /\ x.region = unit[u].region /\ x.version = unit[u].version
  BY DEF Unit
<1> HIDE DEF x
<1> QED
  BY <1>1, <1>2

\* What a worker does to its unit.
LEMMA WorkedUnit ==
  ASSUME unit \in [Units -> Unit], NEW u \in Units, Worked(u)
  PROVE \E t \in {"lost", "deleted"} \cup Busy : Moved(u, t)
  BY DEF Worked, GoesOn, Deletes, Begins, Completes, Busy

\* Units are built, or move, in the hands of Profile and the workers.
LEMMA UnitCases ==
  ASSUME RegionStep
  PROVE \/ unit' = unit /\ completed' \subseteq completed
        \/ \E r \in Regions, u \in Units : Queued(r, u)
        \/ \E u \in Units : Worked(u)
  BY SMTT(30)
     DEF RegionStep, Stay, Inval, Got, Getting, Renewed, Kept, Dropped, Passed, Registered

\* Every variable keeps its type.
LEMMA RegionTypeStep ==
  ASSUME RegionInv, RegionStep
  PROVE TypeOK'
<1>a. rgn' \in Objects /\ TypeOK /\ None \notin Regions
  BY SteadyStep, PagesAssumption DEF Steady, RegionInv
<1>b. ASSUME stale' = stale \cup Orphaned(rgn, rgn') PROVE stale' \subseteq Units
  BY <1>a, <1>b, OrphanedIs DEF TypeOK
<1>1. CASE Stay
  <2>1. todo' \subseteq Regions
    BY <1>1, <1>a, SMTT(30) DEF Stay, TypeOK
  <2>2. leaked' \in [Regions -> Nat] /\ epoch' \in Regions \cup {None}
    BY <1>1, <1>a, SMTT(30) DEF Stay, TypeOK
  <2> QED
    BY <1>1, <1>a, SMTT(30) DEF Stay, TypeOK
<1>2. ASSUME NEW P \in SUBSET Pages, Inval(P) PROVE TypeOK'
  <2>1. table' \in [Pages -> Regions \cup {None}]
    BY <1>2, <1>a DEF Inval, TypeOK
  <2>2. stale' \subseteq Units
    BY <1>2, <1>b DEF Inval
  <2> QED
    BY <1>2, <1>a, <2>2 DEF Inval, InvalCache, TypeOK
<1>3. ASSUME NEW p \in Pages, NEW r, Getting(p, r)
      PROVE /\ table' \in [Pages -> Regions \cup {None}] /\ touched' \subseteq Regions
            /\ cache' \in [Slots -> [tag : Pages \cup {None}, data : Regions \cup {None}]]
            /\ r \in Regions
  BY <1>3, <1>a DEF Getting, GettingCache, TypeOK
<1>4. ASSUME NEW p \in Pages, NEW r, Got(p, r) PROVE TypeOK'
  BY <1>3, <1>4, <1>a DEF Got, Getting, TypeOK
<1>5. ASSUME NEW p \in Pages, NEW r, Renewed(p, r) PROVE TypeOK'
  BY <1>3, <1>5, <1>a, <1>b DEF Renewed, Getting, TypeOK
<1>6. CASE Kept
  BY <1>6, <1>a DEF Kept, Aside, TypeOK
<1>7. CASE Dropped(epoch) /\ UNCHANGED unit
  BY <1>7, <1>a, <1>b DEF Dropped, Aside, TypeOK
<1>8. ASSUME NEW r \in Regions, Passed(r) PROVE TypeOK'
  BY <1>8, <1>a DEF Passed, Aside, TypeOK
<1>9. ASSUME NEW r \in Regions, NEW u \in Units, Queued(r, u) PROVE TypeOK'
  <2>1. version[rgn[r].page] \in Nat
    BY <1>9 DEF Queued, Dispatching, RegionInv, TableOK, TypeOK
  <2>2. [state |-> "queued", region |-> r, version |-> version[rgn[r].page]] \in Unit
    BY <2>1 DEF Unit, Busy
  <2>3. unit' \in [Units -> Unit]
    BY <1>9, <1>a, <2>2 DEF Queued, TypeOK
  <2> QED
    BY <1>9, <1>a, <2>3 DEF Queued, Aside, TypeOK
<1>10. ASSUME NEW u \in Units, Registered(u) PROVE TypeOK'
  BY <1>10, <1>a DEF Registered, Retiring, Aside, TypeOK
<1>11. ASSUME NEW u \in Units, Worked(u) PROVE TypeOK'
  <2>1. unit' \in [Units -> Unit]
    BY <1>11, <1>a, MovedUnit, WorkedUnit DEF TypeOK
  <2>2. /\ UNCHANGED <<guest, table, cache, touched, version, epoch, leaked, todo>>
        /\ completed' \subseteq Units
    BY <1>11, <1>a DEF Worked, Aside, GoesOn, Deletes, Begins, Completes, TypeOK
  <2>3. stale' \subseteq Units
    BY <1>11, <1>a, <1>b DEF Worked, GoesOn, Deletes, Begins, Completes, TypeOK
  <2> QED
    BY <1>a, <2>1, <2>2, <2>3 DEF TypeOK
<1> QED
  BY <1>1, <1>2, <1>4, <1>5, <1>6, <1>7, <1>8, <1>9, <1>10, <1>11 DEF RegionStep

\* Pointers lead to regions that were allocated.
LEMMA BornStep ==
  ASSUME RegionInv, RegionStep
  PROVE BornOK'
<1>a. /\ \A r \in Regions : Born(r) => Born(r)'
      /\ \A u \in Units : Built(u) => Built(u)' /\ unit'[u].region = unit[u].region
  BY SteadyStep DEF Steady
<1>b. BornOK /\ TypeOK /\ TypeOK' /\ None \notin Regions
  BY RegionTypeStep, PagesAssumption DEF RegionInv
<1>c. \A p \in Pages : table[p] # None => table[p] \in Regions /\ Born(table[p])
  BY SMTT(30) DEF RegionInv, TypeOK, TableOK, LifeOK, Born
<1>d. ASSUME CachedBorn', SeenBorn', EpochBorn', UnitsBorn' PROVE BornOK'
  BY <1>d DEF BornOK
<1>e. /\ cache' = cache => CachedBorn'
      /\ touched' \cup todo' \subseteq touched \cup todo => SeenBorn'
      /\ epoch' \in {epoch, None} => EpochBorn'
      /\ unit' = unit => UnitsBorn'
  BY <1>a, <1>b DEF BornOK, CachedBorn, SeenBorn, EpochBorn, UnitsBorn, TypeOK, Built
<1>f. ASSUME NEW u \in Units, Built(u), \A v \in Units \ {u} : unit'[v] = unit[v] PROVE UnitsBorn'
  BY <1>a, <1>b, <1>f DEF BornOK, UnitsBorn, Built
<1>1. CASE Stay
  <2>1. SeenBorn'
    BY <1>1, <1>a, <1>b, <1>c, SMTT(30) DEF Stay, BornOK, SeenBorn, TypeOK
  <2>2. cache' = cache /\ unit' = unit /\ epoch' \in {epoch, None}
    BY <1>1 DEF Stay
  <2> QED
    BY <1>d, <1>e, <2>1, <2>2
<1>2. ASSUME NEW P \in SUBSET Pages, Inval(P) PROVE BornOK'
  <2>1. CachedBorn'
    BY <1>2, <1>a, <1>b DEF Inval, InvalCache, BornOK, CachedBorn
  <2>2. UNCHANGED <<touched, todo, unit, epoch>>
    BY <1>2 DEF Inval
  <2> QED
    BY <1>d, <1>e, <2>1, <2>2
<1>3. ASSUME NEW p \in Pages, NEW r, Getting(p, r), Born(r)', UNCHANGED <<todo, unit>>,
             epoch' \in {epoch, r}
      PROVE BornOK'
  <2>1. r \in Regions /\ touched' = touched \cup {r}
        /\ \A s \in Slots : cache'[s] = cache[s] \/ cache'[s] = [tag |-> p, data |-> r]
    BY <1>3 DEF Getting, GettingCache
  <2>2. CachedBorn'
    BY <1>3, <1>a, <1>b, <2>1, SMTT(30) DEF BornOK, CachedBorn
  <2>3. SeenBorn'
    BY <1>3, <1>a, <1>b, <2>1 DEF BornOK, SeenBorn, TypeOK
  <2>4. EpochBorn'
    BY <1>3, <1>a, <1>b DEF BornOK, EpochBorn, TypeOK
  <2> QED
    BY <1>3, <1>d, <1>e, <2>2, <2>3, <2>4
<1>4. ASSUME NEW p \in Pages, NEW r, Got(p, r) PROVE BornOK'
  <2>1. Getting(p, r) /\ UNCHANGED <<todo, unit, epoch>>
    BY <1>4 DEF Got, Getting
  <2>2. Born(r)'
    BY <1>4 DEF Got, Made, Born
  <2> QED
    BY <1>3, <2>1, <2>2
<1>5. ASSUME NEW p \in Pages, NEW r, Renewed(p, r) PROVE BornOK'
  <2>1. Getting(p, r) /\ UNCHANGED <<todo, unit>> /\ epoch' = r
    BY <1>5 DEF Renewed, Getting
  <2>2. Born(r)'
    BY <1>5 DEF Renewed, Taken, Made, Born
  <2> QED
    BY <1>3, <2>1, <2>2
<1>6. CASE Kept \/ (Dropped(epoch) /\ UNCHANGED unit) \/ \E r \in Regions : Passed(r)
  <2>1. UNCHANGED <<cache, unit, epoch, touched>> /\ todo' \subseteq todo
    BY <1>6 DEF Kept, Aside, Dropped, Passed
  <2> QED
    BY <1>d, <1>e, <2>1
<1>7. ASSUME NEW r \in Regions, NEW u \in Units, Queued(r, u) PROVE BornOK'
  <2>1. UNCHANGED <<cache, epoch, touched>> /\ todo' \subseteq todo
    BY <1>7 DEF Queued, Aside
  <2>2. UnitsBorn'
    <3>1. \A v \in Units \ {u} : unit'[v] = unit[v]
      BY <1>7, SMTT(30) DEF Queued
    <3>2. unit'[u].region = r /\ Born(r)
      BY <1>7, <1>b DEF Queued, Dispatching, TypeOK, Born
    <3> QED
      BY <1>a, <1>b, <3>1, <3>2 DEF BornOK, UnitsBorn, Built
  <2> QED
    BY <1>d, <1>e, <2>1, <2>2
<1>8. ASSUME NEW u \in Units, Registered(u) PROVE BornOK'
  <2>1. UNCHANGED <<cache, unit, epoch, touched, todo>>
    BY <1>8 DEF Registered, Aside
  <2> QED
    BY <1>d, <1>e, <2>1
<1>9. ASSUME NEW u \in Units, Worked(u) PROVE BornOK'
  <2>1. UNCHANGED <<cache, epoch, touched, todo>> /\ Built(u)
    BY <1>9 DEF Worked, Aside
  <2>2. \A v \in Units \ {u} : unit'[v] = unit[v]
    BY <1>9, <1>b, MovedUnit, WorkedUnit DEF TypeOK
  <2>3. UnitsBorn'
    BY <1>f, <2>1, <2>2
  <2> QED
    BY <1>d, <1>e, <2>1, <2>3
<1> QED
  BY <1>1, <1>2, <1>4, <1>5, <1>6, <1>7, <1>8, <1>9 DEF RegionStep

\* The table and what makes its regions current stay, ...
SameTable ==
  /\ table' = table /\ code \subseteq code' /\ version' = version
  /\ \A r \in Regions : rgn'[r].page = rgn[r].page /\ rgn'[r].valid = rgn[r].valid

\* ... or the new region r is entered under page p.
Entered(p, r) ==
  /\ r \in Regions /\ ~Born(r) /\ rgn'[r].page = p /\ rgn'[r].valid
  /\ table[p] = None /\ table' = [table EXCEPT ![p] = r]
  /\ code \cup {p} \subseteq code' /\ version' = version
  /\ \A q \in Regions \ {r} : rgn'[q].page = rgn[q].page /\ rgn'[q].valid = rgn[q].valid

\* What a step does to the table.
LEMMA TableCases ==
  ASSUME RegionInv, RegionStep
  PROVE \/ SameTable
        \/ \E P \in SUBSET Pages : Inval(P)
        \/ \E p \in Pages, r \in Regions : Entered(p, r)
<1>a. rgn \in Objects /\ None \notin Regions
  BY PagesAssumption DEF RegionInv, TypeOK
<1>b. ASSUME NEW r \in Regions, \A q \in Regions \ {r} : rgn'[q] = rgn[q],
             rgn'[r].page = rgn[r].page, rgn'[r].valid = rgn[r].valid,
             table' = table, code' = code, version' = version
      PROVE SameTable
  BY <1>b DEF SameTable
<1>1. CASE Stay
  BY <1>1 DEF Stay, SameTable
<1>2. ASSUME NEW p \in Pages, NEW r, Got(p, r) PROVE SameTable \/ Entered(p, r)
  <2>1. CASE Born(r)
    BY <1>2, <2>1 DEF Got, Getting, SameTable
  <2>2. CASE ~Born(r)
    BY <1>2, <2>2 DEF Got, Getting, Only, Made, Entered
  <2> QED
    BY <2>1, <2>2
<1>3. ASSUME NEW p \in Pages, NEW r, Renewed(p, r) PROVE SameTable \/ Entered(p, r)
  <2>1. /\ r \in Regions /\ code \subseteq code' /\ version' = version
        /\ \A q \in Regions \ {r} : rgn'[q].page = rgn[q].page /\ rgn'[q].valid = rgn[q].valid
    BY <1>3, <1>a DEF Renewed, Getting, LetGo, SameMarks
  <2>2. CASE Born(r)
    BY <1>3, <2>1, <2>2 DEF Renewed, Getting, Taken, Traced, SameTable
  <2>3. CASE ~Born(r)
    BY <1>3, <2>1, <2>3 DEF Renewed, Getting, Taken, Made, Entered
  <2> QED
    BY <2>2, <2>3
<1>4. CASE Kept
  BY <1>4, <1>b DEF Kept, Aside, Only, Traced
<1>5. ASSUME NEW r \in Regions, Dropped(r) PROVE SameTable
  BY <1>5, <1>b DEF Dropped, Released, Aside, Only, SameMarks
<1>6. ASSUME NEW r \in Regions, Passed(r) PROVE SameTable
  BY <1>6, <1>b DEF Passed, PassedOver, Aside, Only
<1>7. ASSUME NEW r \in Regions, NEW u \in Units, Queued(r, u) PROVE SameTable
  <2>1. rgn[r].valid = TRUE
    BY <1>7 DEF Queued, Dispatching
  <2> QED
    BY <1>7, <1>b DEF Queued, Dispatching, Aside, Only
<1>8. ASSUME NEW u \in Units, Registered(u) PROVE SameTable
  BY <1>8, <1>b DEF Registered, Installing, Aside, Only
<1>9. ASSUME NEW u \in Units, Worked(u) PROVE SameTable
  <2>1. CASE GoesOn(u)
    BY <1>9, <2>1 DEF Worked, Aside, GoesOn, SameTable
  <2>2. CASE Deletes(u)
    BY <1>9, <1>5, <2>2 DEF Worked, Deletes, Dropped
  <2>3. CASE Begins(u)
    BY <1>9, <1>b, <2>3 DEF Begun, Begins, Worked, Aside, Only
  <2>4. CASE Completes(u)
    BY <1>9, <1>b, <2>4 DEF Completed, Completes, Worked, Aside, Only, SameMarks
  <2> QED
    BY <1>9, <2>1, <2>2, <2>3, <2>4 DEF Worked
<1>10. CASE Dropped(epoch)
  BY <1>10, <1>5 DEF Dropped, Released
<1> QED
  BY <1>1, <1>2, <1>3, <1>4, <1>6, <1>7, <1>8, <1>9, <1>10, SMTT(30) DEF RegionStep, Entered

\* Of the valid regions, the invalidated are those of the table's pages P.
LEMMA Untouched ==
  ASSUME RegionInv, NEW P \in SUBSET Pages, Inval(P), NEW r \in Regions
  PROVE IF rgn[r].valid /\ rgn[r].page \notin P
          THEN rgn'[r] = rgn[r] /\ rgn[r].page \in Pages /\ table'[rgn[r].page] = r
          ELSE ~rgn'[r].valid
<1>1. TableOK /\ rgn \in Objects /\ None \notin Regions
  BY PagesAssumption DEF RegionInv, TypeOK
<1>2. CASE rgn[r].valid /\ rgn[r].page \notin P
  <2>1. rgn[r].page \in Pages /\ table[rgn[r].page] = r
    BY <1>1, <1>2 DEF TableOK
  <2>2. ~\E p \in P : table[p] = r
    BY <1>1, <1>2, SMTT(30) DEF TableOK
  <2> QED
    BY <2>1, <2>2 DEF Inval, InvalRegions
<1>3. CASE rgn[r].valid /\ rgn[r].page \in P
  <2>1. \E p \in P : table[p] = r
    BY <1>1, <1>3 DEF TableOK
  <2> QED
    BY <1>3, <2>1 DEF Inval, InvalRegions, Invalidated
<1>4. CASE ~rgn[r].valid
  <2>1. ~\E p \in P : table[p] = r
    BY <1>1, <1>4, SMTT(30) DEF TableOK
  <2> QED
    BY <1>4, <2>1 DEF Inval, InvalRegions
<1> QED
  BY <1>2, <1>3, <1>4

\* The table holds the valid regions.
LEMMA TableStep ==
  ASSUME RegionInv, RegionStep
  PROVE TableOK'
<1>a. TableOK /\ TypeOK /\ None \notin Regions /\ TypeOK'
  BY RegionTypeStep, PagesAssumption DEF RegionInv
<1>b. \A p \in Pages : table[p] # None => table[p] \in Regions
  BY <1>a DEF TypeOK
<1>1. CASE SameTable
  <2>1. ASSUME NEW p \in Pages, table'[p] # None
        PROVE rgn'[table'[p]].valid /\ rgn'[table'[p]].page = p /\ p \in code'
    BY <1>1, <1>a, <1>b, <2>1 DEF TableOK, SameTable
  <2>2. ASSUME NEW r \in Regions, rgn'[r].valid
        PROVE rgn'[r].page \in Pages /\ table'[rgn'[r].page] = r
    BY <1>1, <1>a, <2>2 DEF TableOK, SameTable
  <2> QED
    BY <2>1, <2>2 DEF TableOK
<1>2. ASSUME NEW P \in SUBSET Pages, Inval(P) PROVE TableOK'
  <2>1. ASSUME NEW p \in Pages, table'[p] # None
        PROVE rgn'[table'[p]].valid /\ rgn'[table'[p]].page = p /\ p \in code'
    <3>1. p \notin P /\ table'[p] = table[p] /\ table[p] \in Regions
      BY <1>2, <1>b, <2>1 DEF Inval
    <3>2. rgn[table[p]].valid /\ rgn[table[p]].page = p /\ p \in code
      BY <1>a, <3>1 DEF TableOK
    <3>3. rgn'[table[p]] = rgn[table[p]]
      BY <1>2, <3>1, <3>2, Untouched
    <3>4. p \in code'
      BY <1>2, <3>1, <3>2 DEF Inval
    <3> QED
      BY <3>1, <3>2, <3>3, <3>4
  <2>2. ASSUME NEW r \in Regions, rgn'[r].valid
        PROVE rgn'[r].page \in Pages /\ table'[rgn'[r].page] = r
    BY <1>2, <2>2, Untouched
  <2> QED
    BY <2>1, <2>2 DEF TableOK
<1>3. ASSUME NEW p \in Pages, NEW r \in Regions, Entered(p, r) PROVE TableOK'
  <2>1. ASSUME NEW q \in Pages, table'[q] # None
        PROVE rgn'[table'[q]].valid /\ rgn'[table'[q]].page = q /\ q \in code'
    <3>1. CASE q = p
      BY <1>3, <1>a, <3>1 DEF Entered, TypeOK
    <3>2. CASE q # p
      <4>1. table'[q] = table[q] /\ table[q] \in Regions
        BY <1>3, <1>b, <2>1, <3>2, SMTT(30) DEF Entered
      <4>2. rgn[table[q]].valid /\ rgn[table[q]].page = q /\ q \in code
        BY <1>a, <4>1 DEF TableOK
      <4>3. table[q] # r
        BY <1>3, <4>2 DEF Entered, RegionInv, LifeOK, Born
      <4> QED
        BY <1>3, <4>1, <4>2, <4>3 DEF Entered
    <3> QED
      BY <3>1, <3>2
  <2>2. ASSUME NEW q \in Regions, rgn'[q].valid
        PROVE rgn'[q].page \in Pages /\ table'[rgn'[q].page] = q
    <3>1. CASE q = r
      BY <1>3, <1>a, <3>1 DEF Entered, TypeOK
    <3>2. CASE q # r
      <4>1. rgn[q].valid /\ rgn'[q].page = rgn[q].page
        BY <1>3, <2>2, <3>2 DEF Entered
      <4>2. rgn[q].page \in Pages /\ table[rgn[q].page] = q
        BY <1>a, <4>1 DEF TableOK
      <4>3. rgn[q].page # p
        BY <1>3, <1>a, <4>2 DEF Entered
      <4> QED
        BY <1>3, <4>1, <4>2, <4>3, SMTT(30) DEF Entered
    <3> QED
      BY <3>1, <3>2
  <2> QED
    BY <2>1, <2>2 DEF TableOK
<1> QED
  BY TableCases, <1>1, <1>2, <1>3

\* Only Profile builds a unit.
LEMMA NewUnit ==
  ASSUME RegionInv, RegionStep, NEW u \in Units, ~Built(u), Built(u)'
  PROVE \E r \in Regions : Queued(r, u)
<1>1. unit' # unit /\ unit \in [Units -> Unit]
  BY DEF Built, RegionInv, TypeOK
<1>2. ASSUME NEW r \in Regions, NEW v \in Units, Queued(r, v) PROVE v = u
  BY <1>2, SMTT(30) DEF Queued, Built
<1>3. ASSUME NEW v \in Units, Worked(v) PROVE FALSE
  <2>1. Built(v)
    BY <1>3 DEF Worked
  <2>2. unit'[u] = unit[u]
    BY <1>1, <1>3, <2>1, WorkedUnit, MovedUnit
  <2> QED
    BY <2>2 DEF Built
<1> QED
  BY <1>1, <1>2, <1>3, UnitCases

\* A unit of a valid region was built from the code as it is.
LEMMA FreshStep ==
  ASSUME RegionInv, RegionStep
  PROVE FreshOK'
<1> SUFFICES ASSUME NEW u \in Units, Built(u)', Valid(u)'
             PROVE unit'[u].version = version'[rgn'[unit'[u].region].page]
  BY DEF FreshOK
<1>1. CASE Built(u)
  <2> DEFINE r == unit[u].region
  <2>1. /\ r \in Regions /\ Born(r) /\ unit'[u].region = r
        /\ unit'[u].version = unit[u].version
        /\ rgn'[r].page = rgn[r].page /\ rgn[r].valid /\ rgn'[r].valid
    BY <1>1, SteadyStep DEF Steady, RegionInv, BornOK, UnitsBorn, Valid
  <2>2. unit[u].version = version[rgn[r].page]
    BY <1>1, <2>1 DEF RegionInv, FreshOK, Valid
  <2>3. version'[rgn[r].page] = version[rgn[r].page]
    <3>1. ASSUME NEW P \in SUBSET Pages, Inval(P)
          PROVE version'[rgn[r].page] = version[rgn[r].page]
      <4>1. rgn[r].page \notin P /\ rgn[r].page \in Pages
        BY <3>1, <2>1, Untouched
      <4> QED
        BY <3>1, <4>1 DEF Inval
    <3> QED
      BY TableCases, <3>1 DEF SameTable, Entered
  <2> QED
    BY <2>1, <2>2, <2>3
<1>2. CASE ~Built(u)
  <2>1. PICK r \in Regions : Queued(r, u)
    BY <1>2, NewUnit
  <2>2. unit'[u] = [state |-> "queued", region |-> r, version |-> version[rgn[r].page]]
    BY <2>1 DEF Queued, RegionInv, TypeOK
  <2>3. version' = version /\ rgn'[r].page = rgn[r].page
    BY <2>1 DEF Queued, Dispatching, Aside
  <2> QED
    BY <2>2, <2>3, SMTT(30)
<1> QED
  BY <1>1, <1>2

\* Past the compiler, a unit is only deleted; a translation is completed once.
LEMMA UnitsMove ==
  ASSUME RegionInv, RegionStep, NEW u \in Units
  PROVE /\ unit[u].state \in {"finish", "deleted"} => unit'[u].state \in {"finish", "deleted"}
        /\ u \in completed' /\ u \notin completed =>
             unit[u].state = "compile" /\ unit'[u].state = "finish" /\ Completes(u)
<1>a. unit \in [Units -> Unit]
  BY DEF RegionInv, TypeOK
<1>1. CASE unit' = unit /\ completed' \subseteq completed
  BY <1>1
<1>2. ASSUME NEW r \in Regions, NEW v \in Units, Queued(r, v)
      PROVE /\ unit[u].state \in {"finish", "deleted"} => unit'[u] = unit[u]
            /\ completed' = completed
  BY <1>2, SMTT(30) DEF Queued
<1>3. ASSUME NEW v \in Units, Worked(v), v # u
      PROVE unit'[u] = unit[u] /\ (u \in completed' => u \in completed)
  <2>1. unit'[u] = unit[u]
    BY <1>3, <1>a, WorkedUnit, MovedUnit
  <2>2. completed' \subseteq completed \cup {v}
    BY <1>3 DEF Worked, GoesOn, Deletes, Begins, Completes
  <2> QED
    BY <1>3, <2>1, <2>2
<1>4. CASE Worked(u)
  <2>1. CASE GoesOn(u)
    BY <2>1 DEF GoesOn, Onward
  <2>2. CASE Deletes(u)
    BY <1>a, <2>2, MovedUnit DEF Deletes
  <2>3. CASE Begins(u)
    BY <2>3 DEF Begins
  <2>4. CASE Completes(u)
    <3>1. unit'[u].state = "finish"
      BY <1>a, <2>4, MovedUnit DEF Completes, Busy
    <3> QED
      BY <2>4, <3>1 DEF Completes
  <2> QED
    BY <1>4, <2>1, <2>2, <2>3, <2>4 DEF Worked
<1> QED
  BY <1>2, <1>3, <1>4, UnitCases

\* A translation that is over stays over, and one that is completed was compiled.
LEMMA OverStays ==
  ASSUME RegionInv, RegionStep, NEW u \in Units
  PROVE /\ Over(u) => Over(u)' /\ unit'[u].region = unit[u].region
        /\ u \in completed' => unit'[u].state \in {"finish", "deleted"}
<1>1. Built(u) => unit'[u].region = unit[u].region
  BY SteadyStep DEF Steady
<1> QED
  BY <1>1, UnitsMove DEF Over, Built, RegionInv, UnitsOK

\* No translation is installed, and only those of regions that die are retired.
SameTxlns ==
  /\ \A r \in Regions :
       \/ rgn'[r].txln = rgn[r].txln /\ (rgn'[r].life = "live" => rgn[r].life = "live")
       \/ rgn'[r].txln = None
  /\ \A t \in stale' : t \in stale \/ \E r \in Regions :
       rgn[r].life = "live" /\ rgn'[r].life = "freed" /\ rgn[r].txln = t

\* What a step does to translations.
LEMMA TxlnCases ==
  ASSUME RegionInv, RegionStep
  PROVE SameTxlns \/ \E u \in Units : Registered(u)
<1>a. rgn \in Objects /\ rgn' \in Objects /\ None \notin Regions
  BY SteadyStep, PagesAssumption DEF RegionInv, TypeOK, Steady
<1>b. ASSUME stale' = stale \cup Orphaned(rgn, rgn') \/ stale' = stale
      PROVE \A t \in stale' : t \in stale \/ \E r \in Regions :
              rgn[r].life = "live" /\ rgn'[r].life = "freed" /\ rgn[r].txln = t
  BY <1>a, <1>b, OrphanedIs, SMTT(30)
<1> DEFINE Alike(r) ==
      \/ rgn'[r].txln = rgn[r].txln /\ (rgn'[r].life = "live" => rgn[r].life = "live")
      \/ rgn'[r].txln = None
<1>c. ASSUME stale' = stale \cup Orphaned(rgn, rgn') \/ stale' = stale,
             NEW r \in Regions, \A q \in Regions \ {r} : rgn'[q] = rgn[q], Alike(r)
      PROVE SameTxlns
  BY <1>b, <1>c, SMTT(30) DEF SameTxlns
<1>1. CASE Stay
  BY <1>1 DEF Stay, SameTxlns
<1>2. ASSUME NEW P \in SUBSET Pages, Inval(P) PROVE SameTxlns
  <2>1. \A r \in Regions : Alike(r)
    BY <1>2 DEF Inval, InvalRegions, Invalidated
  <2> QED
    BY <1>2, <1>b, <2>1 DEF Inval, SameTxlns
<1>3. ASSUME NEW p \in Pages, NEW r, Got(p, r) PROVE SameTxlns
  <2>1. CASE Born(r)
    BY <1>3, <2>1 DEF Got, SameTxlns
  <2>2. CASE ~Born(r)
    BY <1>3, <1>c DEF Got, Getting, Only, Made
  <2> QED
    BY <2>1, <2>2
<1>4. ASSUME NEW p \in Pages, NEW r, Renewed(p, r) PROVE SameTxlns
  <2>1. ASSUME NEW q \in Regions \ {r} PROVE Alike(q)
    BY <1>4, <1>a DEF Renewed, LetGo, SameMarks
  <2>2. r \in Regions => Alike(r)
    BY <1>4 DEF Renewed, Taken, Traced, Made
  <2> QED
    BY <1>4, <1>b, <2>1, <2>2 DEF Renewed, SameTxlns
<1>5. CASE Kept
  BY <1>5, <1>c DEF Kept, Only, Traced
<1>6. ASSUME NEW r, Dropped(r) PROVE SameTxlns
  BY <1>6, <1>c DEF Dropped, Released, Only, SameMarks
<1>7. ASSUME NEW r \in Regions, Passed(r) \/ \E u \in Units : Queued(r, u) PROVE SameTxlns
  BY <1>7, <1>c DEF Passed, PassedOver, Queued, Dispatching, Only
<1>8. ASSUME NEW u \in Units, Worked(u) PROVE SameTxlns
  <2>1. CASE GoesOn(u)
    BY <2>1 DEF GoesOn, SameTxlns
  <2>2. CASE Begins(u)
    BY <1>8, <1>c, <2>2 DEF Begun, Begins, Only, Worked
  <2>3. CASE Completes(u)
    BY <1>8, <1>c, <2>3 DEF Completed, Completes, Only, Worked, SameMarks
  <2>4. CASE Deletes(u)
    BY <1>8, <1>6, <2>4 DEF Worked, Deletes, Dropped
  <2> QED
    BY <1>8, <2>1, <2>2, <2>3, <2>4 DEF Worked
<1> QED
  BY <1>1, <1>2, <1>3, <1>4, <1>5, <1>6, <1>7, <1>8 DEF RegionStep
-----------------------------------------------------------------------------
(* Work units, the translations they become, and the references.           *)

\* A translation is installed, and retired, after it was completed, and what is
\* retired is not what a live region has.
LEMMA TxlnStep ==
  ASSUME RegionInv, RegionStep
  PROVE UnitsOK' /\ StaleIsUnused'
<1>a. /\ \A u \in completed' : u \in Units /\ unit'[u].state \in {"finish", "deleted"}
      /\ stale' \subseteq Units /\ None \notin Units
  BY RegionTypeStep, OverStays, PagesAssumption DEF TypeOK
<1> DEFINE Past(t) == unit'[t].state \in {"finish", "deleted"} /\ t \notin completed'
<1>b. ASSUME NEW t \in Units, Over(t) PROVE Past(t) /\ unit'[t].region = unit[t].region
  BY <1>b, OverStays DEF Over
<1>c. ASSUME NEW r \in Regions, rgn[r].txln # None
      PROVE /\ rgn[r].txln \in Units /\ unit[rgn[r].txln].region = r /\ Over(rgn[r].txln)
            /\ Past(rgn[r].txln) /\ unit'[rgn[r].txln].region = r
            /\ rgn[r].life = "live" => rgn[r].txln \notin stale
  <2>1. rgn[r].txln \in Units /\ unit[rgn[r].txln].region = r /\ Over(rgn[r].txln)
    BY <1>c, SMTT(30) DEF RegionInv, TypeOK, Objects, Region, UnitsOK
  <2>2. rgn[r].life = "live" => rgn[r].txln \notin stale
    BY DEF RegionInv, StaleIsUnused
  <2> HIDE DEF Past
  <2> QED
    BY <1>b, <2>1, <2>2
<1>d. \A t \in stale : t \in Units /\ Over(t) /\ Past(t)
  BY <1>b DEF RegionInv, TypeOK, UnitsOK
<1>e. ASSUME \A r \in Regions : rgn'[r].txln # None =>
               unit'[rgn'[r].txln].region = r /\ Past(rgn'[r].txln),
             \A t \in stale' : Past(t),
             \A r \in Regions : rgn'[r].life = "live" => rgn'[r].txln \notin stale'
      PROVE UnitsOK' /\ StaleIsUnused'
  BY <1>a, <1>e DEF UnitsOK, Over, StaleIsUnused
<1>1. CASE SameTxlns
  <2> HIDE DEF Past
  <2>1. \A r \in Regions : rgn'[r].txln # None =>
          unit'[rgn'[r].txln].region = r /\ Past(rgn'[r].txln)
    BY <1>1, <1>c, SMTT(30) DEF SameTxlns
  <2>2. ASSUME NEW t \in stale' PROVE Past(t)
    <3>1. CASE t \in stale
      BY <1>d, <3>1
    <3>2. CASE t \notin stale
      <4>1. PICK r \in Regions : rgn[r].txln = t
        BY <1>1, <3>2 DEF SameTxlns
      <4>2. t # None
        BY <1>a
      <4> QED
        BY <1>c, <4>1, <4>2
    <3> QED
      BY <3>1, <3>2
  <2>3. ASSUME NEW r \in Regions, rgn'[r].life = "live", rgn'[r].txln \in stale' PROVE FALSE
    <3> DEFINE t == rgn'[r].txln
    <3>1. t # None
      BY <1>a, <2>3
    <3>2. t = rgn[r].txln /\ rgn[r].life = "live"
      BY <1>1, <2>3, <3>1 DEF SameTxlns
    <3>3. t \notin stale /\ unit[t].region = r
      BY <1>c, <3>1, <3>2
    <3>4. PICK q \in Regions : rgn'[q].life = "freed" /\ rgn[q].txln = t
      BY <1>1, <2>3, <3>3 DEF SameTxlns
    <3>5. unit[t].region = q
      BY <1>c, <3>1, <3>4
    <3> QED
      BY <2>3, <3>3, <3>4, <3>5
  <2> QED
    BY <1>e, <2>1, <2>2, <2>3
<1>2. ASSUME NEW u \in Units, Registered(u) PROVE UnitsOK' /\ StaleIsUnused'
  <2> DEFINE r == unit[u].region
  <2>1. /\ u \in completed /\ r \in Regions /\ completed' = completed \ {u} /\ unit' = unit
        /\ rgn[r].life = "live" /\ \A q \in Regions \ {r} : rgn'[q] = rgn[q]
        /\ IF rgn[r].valid THEN rgn'[r].txln = u ELSE rgn'[r].txln = rgn[r].txln
        /\ \A t \in stale' : t \in stale \/ t = rgn[r].txln \/ (t = u /\ rgn'[r].life = "freed")
        /\ \A t \in stale' \ stale : rgn'[r].life = "freed" \/ rgn[r].valid
    BY <1>2 DEF Registered, Installing, Retiring, Only, SameMarks
  <2>2. Past(u) /\ ~Over(u)
    BY <2>1 DEF RegionInv, UnitsOK, Over
  <2> HIDE DEF Past
  <2>3. ASSUME NEW q \in Regions, rgn'[q].txln # None
        PROVE unit'[rgn'[q].txln].region = q /\ Past(rgn'[q].txln)
    <3>1. CASE q = r /\ rgn[r].valid
      BY <2>1, <2>2, <3>1
    <3>2. CASE ~(q = r /\ rgn[r].valid)
      <4>1. rgn'[q].txln = rgn[q].txln
        BY <2>1, <3>2
      <4> QED
        BY <1>c, <2>3, <4>1
    <3> QED
      BY <3>1, <3>2
  <2>4. ASSUME NEW t \in stale' PROVE Past(t)
    <3>1. CASE t = rgn[r].txln
      BY <1>a, <1>c, <2>1, <3>1, SMTT(30)
    <3> QED
      BY <1>d, <2>1, <2>2, <3>1
  <2>5. ASSUME NEW q \in Regions, rgn'[q].life = "live", rgn'[q].txln \in stale' PROVE FALSE
    <3> DEFINE t == rgn'[q].txln
    <3>1. t # None /\ t \in stale'
      BY <1>a, <2>5
    <3>2. CASE q # r
      <4>1. rgn'[q] = rgn[q]
        BY <2>1, <3>2
      <4>2. t = rgn[q].txln /\ rgn[q].life = "live"
        BY <2>5, <4>1
      <4>3. t \notin stale /\ unit[t].region = q /\ Over(t)
        BY <1>c, <3>1, <4>2
      <4>4. t = rgn[r].txln
        BY <2>1, <2>2, <3>1, <4>3
      <4>5. unit[t].region = r
        BY <1>c, <2>1, <3>1, <4>4
      <4> QED
        BY <3>2, <4>3, <4>5
    <3>3. CASE q = r /\ rgn[r].valid
      <4>1. t = u /\ u \notin stale
        BY <1>d, <2>1, <2>2, <3>3
      <4>2. u = rgn[r].txln
        BY <2>1, <2>5, <3>3, <4>1
      <4>3. Over(u)
        BY <1>c, <2>1, <3>1, <4>1, <4>2
      <4> QED
        BY <2>2, <4>3
    <3>4. CASE q = r /\ ~rgn[r].valid
      <4>1. t = rgn[r].txln
        BY <2>1, <3>4
      <4>2. t \notin stale
        BY <1>c, <2>1, <3>1, <4>1
      <4> QED
        BY <2>1, <2>5, <3>4, <4>2
    <3> QED
      BY <3>2, <3>3, <3>4
  <2> QED
    BY <1>e, <2>3, <2>4, <2>5
<1> QED
  BY TxlnCases, <1>1, <1>2

\* A translation that is on its way was so before, or its unit is queued now.
LEMMA ComingCases ==
  ASSUME RegionInv, RegionStep, NEW u \in Units, Coming(u)'
  PROVE \/ Coming(u) /\ Built(u) /\ unit'[u].region = unit[u].region
        \/ \E r \in Regions : Queued(r, u)
<1>a. unit \in [Units -> Unit] /\ UnitsOK
  BY DEF RegionInv, TypeOK
<1>b. Coming(u) => Built(u)
  BY <1>a DEF Coming, Built, UnitsOK
<1>c. CASE Coming(u)
  BY <1>b, <1>c, SteadyStep DEF Steady
<1>d. CASE Built(u)
  <2>1. CASE unit'[u] = unit[u]
    BY <1>c, <2>1, UnitsMove DEF Coming
  <2>2. CASE Worked(u)
    <3>1. unit[u].state \in {"queued", "held", "started", "compile"} => Coming(u)
      BY DEF Coming
    <3>2. CASE unit[u].state = "finish" /\ Deletes(u)
      <4>1. unit'[u].state = "deleted" /\ completed' = completed
        BY <1>a, <3>2, MovedUnit DEF Deletes
      <4> QED
        BY <1>c, <4>1 DEF Coming
    <3> QED
      BY <1>c, <2>2, <3>1, <3>2 DEF Worked, GoesOn, Onward, Deletes, Begins, Completes
  <2>3. ASSUME NEW v \in Units, Worked(v), v # u PROVE unit'[u] = unit[u]
    BY <1>a, <2>3, WorkedUnit, MovedUnit
  <2>4. ASSUME NEW r \in Regions, NEW v \in Units, Queued(r, v) PROVE unit'[u] = unit[u]
    BY <1>d, <2>4, SMTT(30) DEF Queued, Built
  <2> QED
    BY <2>1, <2>2, <2>3, <2>4, UnitCases
<1>e. CASE ~Built(u) /\ ~Coming(u)
  <2>1. Built(u)'
    BY <1>e, UnitsMove DEF Coming, Built
  <2> QED
    BY <1>e, <2>1, NewUnit
<1> QED
  BY <1>c, <1>d, <1>e

\* A valid region that awaits a translation and is not hot stays so while it is
\* valid and the translation is on its way.
LEMMA AwaitingStays ==
  ASSUME RegionInv, RegionStep, NEW u \in Units, Coming(u), Coming(u)', Valid(u),
         NEW r \in Regions, r = unit[u].region, rgn'[r].valid
  PROVE rgn'[r].inTranslation /\ ~rgn'[r].hot
<1>a. /\ rgn[r].inTranslation /\ ~rgn[r].hot /\ rgn[r].valid
      /\ \A v \in Units \ {u} : Coming(v) => unit[v].region # r
  BY DEF RegionInv, FlightOK, Valid
<1>b. Born(r) /\ None \notin Regions
  BY <1>a, PagesAssumption DEF RegionInv, LifeOK, Born
<1>c. CASE rgn'[r] = rgn[r]
  BY <1>a, <1>c
<1>d. CASE SameMarks(rgn[r], rgn'[r]) \/ Traced(rgn[r], rgn'[r])
  BY <1>a, <1>d DEF SameMarks, Traced
<1>1. ASSUME NEW P \in SUBSET Pages, Inval(P) PROVE rgn'[r] = rgn[r]
  BY <1>1, Untouched
<1>2. ASSUME NEW p \in Pages, NEW q, Got(p, q) PROVE rgn'[r] = rgn[r]
  BY <1>2, <1>b DEF Got, Only
<1>3. ASSUME NEW p \in Pages, NEW q, Renewed(p, q)
      PROVE rgn'[r] = rgn[r] \/ SameMarks(rgn[r], rgn'[r]) \/ Traced(rgn[r], rgn'[r])
  BY <1>3, <1>b DEF Renewed, LetGo, Taken
<1>4. ASSUME Kept PROVE rgn'[r] = rgn[r] \/ Traced(rgn[r], rgn'[r])
  BY <1>4 DEF Kept, Only
<1>5. ASSUME NEW q, Dropped(q) PROVE rgn'[r] = rgn[r] \/ SameMarks(rgn[r], rgn'[r])
  BY <1>5 DEF Dropped, Released, Only
<1>6. ASSUME NEW q \in Regions, Passed(q) PROVE rgn'[r].inTranslation /\ ~rgn'[r].hot
  BY <1>6, <1>a DEF Passed, PassedOver, Only
<1>7. ASSUME NEW q \in Regions, NEW v \in Units, Queued(q, v) PROVE rgn'[r] = rgn[r]
  BY <1>7, <1>a DEF Queued, Dispatching, Only
<1>8. ASSUME NEW v \in Units, Registered(v) PROVE rgn'[r] = rgn[r]
  <2>1. v \in completed /\ v \notin completed' /\ unit' = unit
    BY <1>8 DEF Registered
  <2>2. unit[v].state \in {"finish", "deleted"} /\ Coming(v)
    BY <2>1 DEF RegionInv, UnitsOK, Coming
  <2>3. v # u
    BY <2>1, <2>2 DEF Coming
  <2>4. unit[v].region # r
    BY <1>a, <2>2, <2>3
  <2> QED
    BY <1>8, <2>4 DEF Registered, Installing, Only
<1>9. ASSUME NEW v \in Units, Worked(v) PROVE rgn'[r].inTranslation /\ ~rgn'[r].hot
  <2>1. CASE Begins(v)
    BY <2>1, <1>a DEF Begun, Begins, Only
  <2>2. CASE Completes(v)
    BY <2>2, <1>a DEF Completed, Completes, Only, SameMarks
  <2>3. CASE GoesOn(v)
    BY <1>c, <2>3 DEF GoesOn
  <2>4. CASE Deletes(v)
    BY <1>c, <1>d, <1>9, <1>5, <2>4 DEF Worked, Deletes, Dropped
  <2> QED
    BY <1>9, <2>1, <2>2, <2>3, <2>4 DEF Worked
<1> QED
  BY <1>c, <1>d, <1>1, <1>2, <1>3, <1>4, <1>5, <1>6, <1>7, <1>8, <1>9 DEF RegionStep, Stay

\* A valid region that awaits a translation is not traced, and awaits no other.
LEMMA FlightStep ==
  ASSUME RegionInv, RegionStep
  PROVE FlightOK'
<1> SUFFICES ASSUME NEW u \in Units, Coming(u)', Valid(u)'
             PROVE /\ rgn'[unit'[u].region].inTranslation /\ ~rgn'[unit'[u].region].hot
                   /\ \A v \in Units \ {u} : Coming(v)' => unit'[v].region # unit'[u].region
  BY DEF FlightOK
<1>a. unit \in [Units -> Unit]
  BY DEF RegionInv, TypeOK
<1>1. CASE Coming(u) /\ Built(u) /\ unit'[u].region = unit[u].region
  <2> DEFINE r == unit[u].region
  <2>1. r \in Regions /\ Born(r) /\ rgn'[r].valid /\ unit'[u].region = r
    BY <1>1 DEF RegionInv, BornOK, UnitsBorn, Valid
  <2>2. rgn[r].valid
    BY <2>1, SteadyStep DEF Steady
  <2>3. ~rgn[r].hot /\ \A v \in Units \ {u} : Coming(v) => unit[v].region # r
    BY <1>1, <2>2 DEF RegionInv, FlightOK, Valid
  <2>4. rgn'[r].inTranslation /\ ~rgn'[r].hot
    BY <1>1, <2>1, <2>2, AwaitingStays DEF Valid
  <2>5. ASSUME NEW v \in Units \ {u}, Coming(v)' PROVE unit'[v].region # r
    <3>1. CASE Coming(v) /\ unit'[v].region = unit[v].region
      BY <2>3, <3>1
    <3>2. ASSUME NEW q \in Regions, Queued(q, v) PROVE unit'[v].region # r
      BY <1>a, <2>3, <3>2 DEF Queued, Dispatching
    <3> QED
      BY <2>5, <3>1, <3>2, ComingCases
  <2> QED
    BY <2>1, <2>4, <2>5
<1>2. ASSUME NEW r \in Regions, Queued(r, u)
      PROVE /\ rgn'[unit'[u].region].inTranslation /\ ~rgn'[unit'[u].region].hot
            /\ \A v \in Units \ {u} : Coming(v)' => unit'[v].region # unit'[u].region
  <2>1. unit'[u].region = r /\ unit'[u].state = "queued" /\ rgn[r].hot /\ rgn[r].valid
    BY <1>2, <1>a DEF Queued, Dispatching
  <2>2. rgn'[r].inTranslation /\ ~rgn'[r].hot
    BY <1>2 DEF Queued, Dispatching
  <2>3. ASSUME NEW v \in Units \ {u}, Coming(v)' PROVE unit'[v].region # r
    <3>1. unit'[v] = unit[v] /\ completed' = completed
      BY <1>2, SMTT(30) DEF Queued
    <3>2. Coming(v)
      BY <2>3, <3>1 DEF Coming
    <3> QED
      BY <2>1, <3>1, <3>2 DEF RegionInv, FlightOK, Valid
  <2> QED
    BY <2>1, <2>2, <2>3
<1> QED
  BY <1>1, <1>2, ComingCases

-----------------------------------------------------------------------------
(* Counting.                                                               *)

\* What counting sets of units rests on; the theorems below show that it holds of
\* a pool of units, which is finite.
Countable ==
  \A S \in SUBSET Units :
    /\ Cardinality(S) \in Nat
    /\ \A u \in Units \ S : Cardinality(S \cup {u}) = Cardinality(S) + 1
    /\ \A u \in S : Cardinality(S \ {u}) = Cardinality(S) - 1

\* The owners of a region are units, completed translations and leaks.
LEMMA OwnersAreCounted ==
  ASSUME Countable, TypeOK, NEW r \in Regions
  PROVE /\ UnitsOf(r) \subseteq Units /\ CompletedOf(r) \subseteq Units
        /\ Cardinality(UnitsOf(r)) \in Nat /\ Cardinality(CompletedOf(r)) \in Nat
        /\ leaked[r] \in Nat /\ Owners(r) \in Nat
<1>1. UnitsOf(r) \subseteq Units /\ CompletedOf(r) \subseteq Units
  BY DEF TypeOK, UnitsOf, CompletedOf
<1>2. Cardinality(UnitsOf(r)) \in Nat /\ Cardinality(CompletedOf(r)) \in Nat
  BY <1>1 DEF Countable
<1> QED
  BY <1>1, <1>2, SMTT(30) DEF TypeOK, Owners

\* The references to r, by owner.
Exact(r) == rgn[r].refs = Owners(r) + (IF InTable(r) THEN 1 ELSE 0) + (IF epoch = r THEN 1 ELSE 0)

\* Where no fetch faults, every region is counted exactly.
LEMMA ExactNow ==
  ASSUME RegionInv, ~FetchFaults, NEW r \in Regions
  PROVE /\ Exact(r) /\ Owners(r) \in Nat /\ rgn[r].refs \in Nat
        /\ ~Born(r) => rgn[r].refs = 0 /\ Owners(r) = 0 /\ ~InTable(r) /\ epoch # r
<1>1. Exact(r)
  BY DEF RegionInv, RefsCounted, Exact, Owners
<1>2. Owners(r) \in Nat
  BY DEF RegionInv, OwnersOK
<1>3. rgn[r].refs \in Nat /\ (~Born(r) => rgn[r].refs = 0)
  BY Counted DEF Born
<1> QED
  BY <1>1, <1>2, <1>3, SMTT(30) DEF Exact

\* The owners of r are the same while units, completed translations and leaks are.
LEMMA SameOwners ==
  ASSUME NEW r, UnitsOf(r)' = UnitsOf(r), CompletedOf(r)' = CompletedOf(r), leaked'[r] = leaked[r]
  PROVE Owners(r)' = Owners(r)
  BY DEF Owners

\* A region that keeps its owners, its place in the table and its count is still
\* counted exactly.
LEMMA SameExact ==
  ASSUME RegionInv, ~FetchFaults, NEW r \in Regions, unit' = unit, completed' = completed,
         leaked' = leaked, InTable(r)' <=> InTable(r), epoch' = r <=> epoch = r,
         rgn'[r].refs = rgn[r].refs
  PROVE Exact(r)'
<1>1. UnitsOf(r)' = UnitsOf(r) /\ CompletedOf(r)' = CompletedOf(r)
  BY DEF UnitsOf, CompletedOf
<1>2. Owners(r)' = Owners(r) /\ Exact(r)
  BY <1>1, SameOwners, ExactNow
<1> QED
  BY <1>2 DEF Exact

\* Where regions are found under pages after a step.
LEMMA InTableStep ==
  ASSUME RegionInv, NEW r \in Regions
  PROVE /\ SameTable => (InTable(r)' <=> InTable(r))
        /\ \A p \in Pages, q \in Regions : Entered(p, q) =>
             (InTable(r)' <=> (r = q \/ InTable(r)))
        /\ \A P \in SUBSET Pages : Inval(P) =>
             (InTable(r)' <=> (InTable(r) /\ ~\E p \in P : table[p] = r))
<1>a. table \in [Pages -> Regions \cup {None}] /\ TableOK /\ None \notin Regions
  BY PagesAssumption DEF RegionInv, TypeOK
<1>1. SameTable => (InTable(r)' <=> InTable(r))
  BY DEF SameTable, InTable
<1>2. ASSUME NEW p \in Pages, NEW q \in Regions, Entered(p, q)
      PROVE InTable(r)' <=> (r = q \/ InTable(r))
  BY <1>2, <1>a DEF Entered, InTable
<1>3. ASSUME NEW P \in SUBSET Pages, Inval(P)
      PROVE InTable(r)' <=> (InTable(r) /\ ~\E p \in P : table[p] = r)
  <2>1. \A p \in Pages : table'[p] = IF p \in P THEN None ELSE table[p]
    BY <1>3 DEF Inval
  <2>2. \A p, q \in Pages : table[p] = r /\ table[q] = r => p = q
    BY <1>a, SMTT(30) DEF TableOK
  <2> QED
    BY <1>a, <2>1, <2>2 DEF InTable
<1> QED
  BY <1>1, <1>2, <1>3

\* GetRegion counts a new region once, for the table, and EpochInterpret moves its
\* own reference.
LEMMA GetCounts ==
  ASSUME RegionInv, ~FetchFaults, NEW p \in Pages, NEW r, Got(p, r) \/ Renewed(p, r),
         NEW q \in Regions
  PROVE Exact(q)'
<1>a. /\ r \in Regions /\ Getting(p, r) /\ None \notin Regions
      /\ UNCHANGED <<unit, completed, leaked>>
  BY PagesAssumption DEF Got, Getting, Renewed
<1>b. UnitsOf(q)' = UnitsOf(q) /\ CompletedOf(q)' = CompletedOf(q)
  BY <1>a DEF UnitsOf, CompletedOf
<1>c. Owners(q)' = Owners(q)
  BY <1>a, <1>b, SameOwners
<1>d. /\ Exact(q) /\ Owners(q) \in Nat /\ rgn[q].refs \in Nat
      /\ ~Born(q) => rgn[q].refs = 0 /\ Owners(q) = 0 /\ ~InTable(q) /\ epoch # q
  BY ExactNow
<1>e. InTable(q)' <=> InTable(q) \/ (q = r /\ ~Born(r))
  <2>1. table \in [Pages -> Regions \cup {None}]
    BY DEF RegionInv, TypeOK
  <2> QED
    BY <1>a, <2>1 DEF Getting, InTable
<1>1. CASE Got(p, r)
  <2>1. CASE q = r /\ ~Born(r)
    <3>1. rgn'[q].refs = 1 /\ epoch' = epoch
      BY <1>1, <2>1 DEF Got, Made
    <3> QED
      BY <1>c, <1>d, <1>e, <2>1, <3>1, SMTT(30) DEF Exact
  <2>2. CASE ~(q = r /\ ~Born(r))
    <3>1. rgn'[q] = rgn[q] /\ epoch' = epoch
      BY <1>1, <2>2 DEF Got, Only
    <3> QED
      BY <1>c, <1>d, <1>e, <2>2, <3>1 DEF Exact
  <2> QED
    BY <2>1, <2>2
<1>2. CASE Renewed(p, r)
  <2>0. epoch' = r
    BY <1>2 DEF Renewed
  <2>1. CASE q = r /\ ~Born(r)
    <3>1. rgn'[q].refs = 2
      BY <1>2, <2>1 DEF Renewed, Taken, Made
    <3> QED
      BY <1>c, <1>d, <1>e, <2>0, <2>1, <3>1, SMTT(30) DEF Exact
  <2>2. CASE q = r /\ Born(r)
    <3>1. rgn'[q].refs = rgn[q].refs + (IF epoch = r THEN 0 ELSE 1)
      BY <1>2, <2>2 DEF Renewed, Taken
    <3> QED
      BY <1>c, <1>d, <1>e, <2>0, <2>2, <3>1, SMTT(30) DEF Exact
  <2>3. CASE q # r /\ q = epoch
    <3>1. rgn'[q].refs = rgn[q].refs - 1
      BY <1>2, <1>a, <2>3 DEF Renewed, LetGo, Lost
    <3> QED
      BY <1>c, <1>d, <1>e, <2>0, <2>3, <3>1, SMTT(30) DEF Exact
  <2>4. CASE q \notin {r, epoch}
    <3>1. rgn'[q] = rgn[q]
      BY <1>2, <2>4 DEF Renewed, LetGo
    <3> QED
      BY <1>c, <1>d, <1>e, <2>0, <2>4, <3>1 DEF Exact
  <2> QED
    BY <2>1, <2>2, <2>3, <2>4
<1> QED
  BY <1>1, <1>2

\* A unit takes its reference when it is built.
LEMMA QueueCounts ==
  ASSUME Countable, RegionInv, ~FetchFaults, NEW r \in Regions, NEW u \in Units, Queued(r, u),
         NEW q \in Regions, InTable(q)' <=> InTable(q)
  PROVE Exact(q)'
<1>a. unit \in [Units -> Unit] /\ unit[u].state = "unbuilt"
  BY DEF Queued, RegionInv, TypeOK
<1>b. /\ \A v \in Units \ {u} : unit'[v] = unit[v]
      /\ unit'[u].state = "queued" /\ unit'[u].region = r
      /\ completed' = completed /\ leaked' = leaked /\ epoch' = epoch
  BY <1>a DEF Queued, Aside
<1>c. u \notin completed /\ u \notin UnitsOf(q)
  BY <1>a DEF RegionInv, UnitsOK, UnitsOf, Busy
<1>d. CompletedOf(q)' = CompletedOf(q)
  BY <1>b, <1>c DEF CompletedOf, RegionInv, TypeOK
<1>e. Exact(q) /\ Owners(q) \in Nat /\ rgn[q].refs \in Nat
  BY ExactNow
<1>1. CASE q = r
  <2>1. UnitsOf(q)' = UnitsOf(q) \cup {u}
    BY <1>1, <1>b DEF UnitsOf, Busy
  <2>2. UnitsOf(q) \subseteq Units /\ Cardinality(UnitsOf(q)) \in Nat
        /\ Cardinality(CompletedOf(q)) \in Nat /\ leaked[q] \in Nat
    BY OwnersAreCounted DEF RegionInv
  <2>3. Cardinality(UnitsOf(q)') = Cardinality(UnitsOf(q)) + 1
    BY <1>c, <2>1, <2>2 DEF Countable
  <2>4. Owners(q)' = Owners(q) + 1
    BY <1>b, <1>d, <2>2, <2>3, SMTT(30) DEF Owners
  <2>5. rgn'[q].refs = rgn[q].refs + 1
    BY <1>1 DEF Queued, Dispatching
  <2> QED
    BY <1>b, <1>e, <2>4, <2>5, SMTT(30) DEF Exact
<1>2. CASE q # r
  <2>1. UnitsOf(q)' = UnitsOf(q)
    BY <1>2, <1>a, <1>b DEF UnitsOf, Busy
  <2>2. Owners(q)' = Owners(q)
    BY <1>b, <1>d, <2>1, SameOwners
  <2>3. rgn'[q] = rgn[q]
    BY <1>2 DEF Queued, Dispatching, Only
  <2> QED
    BY <1>b, <1>e, <2>2, <2>3 DEF Exact
<1> QED
  BY <1>1, <1>2

\* A completed translation gives its reference back when it is registered.
LEMMA RegisterCounts ==
  ASSUME Countable, RegionInv, ~FetchFaults, NEW u \in Units, Registered(u),
         NEW q \in Regions, InTable(q)' <=> InTable(q)
  PROVE Exact(q)'
<1>a. /\ unit' = unit /\ completed' = completed \ {u} /\ u \in completed
      /\ leaked' = leaked /\ epoch' = epoch
  BY DEF Registered, Aside
<1>b. UnitsOf(q)' = UnitsOf(q)
  BY <1>a DEF UnitsOf
<1>c. Exact(q) /\ Owners(q) \in Nat /\ rgn[q].refs \in Nat
  BY ExactNow
<1>1. CASE q = unit[u].region
  <2>1. CompletedOf(q)' = CompletedOf(q) \ {u} /\ u \in CompletedOf(q)
    BY <1>1, <1>a DEF CompletedOf
  <2>2. CompletedOf(q) \subseteq Units /\ Cardinality(UnitsOf(q)) \in Nat
        /\ Cardinality(CompletedOf(q)) \in Nat /\ leaked[q] \in Nat
    BY OwnersAreCounted DEF RegionInv
  <2>3. Cardinality(CompletedOf(q)') = Cardinality(CompletedOf(q)) - 1
    BY <2>1, <2>2 DEF Countable
  <2>4. Owners(q)' = Owners(q) - 1
    BY <1>a, <1>b, <2>2, <2>3, SMTT(30) DEF Owners
  <2>5. rgn'[q].refs = rgn[q].refs - 1
    BY <1>1 DEF Registered, Installing, Lost
  <2> QED
    BY <1>a, <1>c, <2>4, <2>5, SMTT(30) DEF Exact
<1>2. CASE q # unit[u].region
  <2>1. CompletedOf(q)' = CompletedOf(q)
    BY <1>2, <1>a DEF CompletedOf
  <2>2. Owners(q)' = Owners(q)
    BY <1>a, <1>b, <2>1, SameOwners
  <2>3. rgn'[q] = rgn[q]
    BY <1>2 DEF Registered, Installing, Only
  <2> QED
    BY <1>a, <1>c, <2>2, <2>3 DEF Exact
<1> QED
  BY <1>1, <1>2

\* A worker gives the unit's reference back with the unit, and takes one for the
\* translation it completes.
LEMMA WorkCounts ==
  ASSUME Countable, RegionInv, ~FetchFaults, NEW u \in Units, Worked(u),
         NEW q \in Regions, InTable(q)' <=> InTable(q)
  PROVE Exact(q)'
<1> DEFINE r == unit[u].region
<1>a. /\ unit \in [Units -> Unit] /\ completed \subseteq Units
      /\ r \in Regions /\ leaked' = leaked /\ epoch' = epoch
  BY DEF RegionInv, TypeOK, Worked, Aside
<1>b. Exact(q) /\ Owners(q) \in Nat /\ rgn[q].refs \in Nat
  BY ExactNow
<1>c. /\ UnitsOf(q) \subseteq Units /\ CompletedOf(q) \subseteq Units
      /\ Cardinality(UnitsOf(q)) \in Nat /\ Cardinality(CompletedOf(q)) \in Nat
      /\ leaked[q] \in Nat
  BY OwnersAreCounted DEF RegionInv
<1>d. PICK t \in {"lost", "deleted"} \cup Busy : Moved(u, t)
  BY <1>a, WorkedUnit
<1>e. /\ \A v \in Units \ {u} : unit'[v] = unit[v]
      /\ unit'[u].state = t /\ unit'[u].region = r
  BY <1>a, <1>d, MovedUnit
<1>f. completed' = completed => CompletedOf(q)' = CompletedOf(q)
  BY <1>a, <1>e DEF CompletedOf
<1>g. ASSUME unit[u].state \in Busy \cup {"lost"}, t \in Busy \cup {"lost"}
      PROVE UnitsOf(q)' = UnitsOf(q)
  BY <1>e, <1>g DEF UnitsOf
<1>1. CASE GoesOn(u)
  <2>1. PICK s \in Busy \cup {"lost"} : Onward(u, s) /\ Moved(u, s)
    BY <1>1 DEF GoesOn
  <2>2. unit'[u].state = s
    BY <1>a, <2>1, MovedUnit
  <2>3. UnitsOf(q)' = UnitsOf(q)
    BY <1>e, <1>g, <2>1, <2>2 DEF Onward, Busy
  <2>4. Owners(q)' = Owners(q)
    BY <1>1, <1>a, <1>f, <2>3, SameOwners DEF GoesOn
  <2> QED
    BY <1>1, <1>a, <1>b, <2>4 DEF Exact, GoesOn
<1>2. CASE Deletes(u)
  <2>1. unit'[u].state = "deleted" /\ completed' = completed
    BY <1>2, <1>a, MovedUnit DEF Deletes
  <2>2. CASE q = r
    <3>1. UnitsOf(q)' = UnitsOf(q) \ {u} /\ u \in UnitsOf(q)
      BY <1>2, <1>e, <2>1, <2>2 DEF UnitsOf, Busy, Deletes
    <3>2. Cardinality(UnitsOf(q)') = Cardinality(UnitsOf(q)) - 1
      BY <1>c, <3>1 DEF Countable
    <3>3. Owners(q)' = Owners(q) - 1
      BY <1>a, <1>c, <1>f, <2>1, <3>2, SMTT(30) DEF Owners
    <3>4. rgn'[q].refs = rgn[q].refs - 1
      BY <1>2, <2>2 DEF Released, Deletes, Lost
    <3> QED
      BY <1>a, <1>b, <3>3, <3>4, SMTT(30) DEF Exact
  <2>3. CASE q # r
    <3>1. UnitsOf(q)' = UnitsOf(q)
      BY <1>e, <2>3 DEF UnitsOf
    <3>2. Owners(q)' = Owners(q)
      BY <1>a, <1>f, <2>1, <3>1, SameOwners
    <3>3. rgn'[q] = rgn[q]
      BY <1>2, <2>3 DEF Released, Deletes, Only
    <3> QED
      BY <1>a, <1>b, <3>2, <3>3 DEF Exact
  <2> QED
    BY <2>2, <2>3
<1>3. CASE Begins(u)
  <2>1. unit'[u].state = "started" /\ completed' = completed
    BY <1>3, <1>a, MovedUnit DEF Begins, Busy
  <2>2. UnitsOf(q)' = UnitsOf(q)
    BY <1>3, <1>e, <1>g, <2>1 DEF Busy, Begins
  <2>3. Owners(q)' = Owners(q)
    BY <1>a, <1>f, <2>1, <2>2, SameOwners
  <2>4. rgn'[q].refs = rgn[q].refs
    BY <1>3 DEF Begun, Begins, Only
  <2> QED
    BY <1>a, <1>b, <2>3, <2>4 DEF Exact
<1>4. CASE Completes(u)
  <2>1. unit'[u].state = "finish" /\ completed' = completed \cup {u}
    BY <1>4, <1>a, MovedUnit DEF Completes, Busy
  <2>2. UnitsOf(q)' = UnitsOf(q)
    BY <1>4, <1>e, <1>g, <2>1 DEF Busy, Completes
  <2>3. u \notin completed
    BY <1>4 DEF RegionInv, UnitsOK, Completes
  <2>4. CASE q = r
    <3>1. CompletedOf(q)' = CompletedOf(q) \cup {u} /\ u \notin CompletedOf(q)
      BY <1>a, <1>e, <2>1, <2>3, <2>4 DEF CompletedOf
    <3>2. Cardinality(CompletedOf(q)') = Cardinality(CompletedOf(q)) + 1
      BY <1>c, <3>1 DEF Countable
    <3>3. Owners(q)' = Owners(q) + 1
      BY <1>a, <1>c, <2>2, <3>2, SMTT(30) DEF Owners
    <3>4. rgn'[q].refs = rgn[q].refs + 1
      BY <1>4, <2>4 DEF Completed, Completes
    <3> QED
      BY <1>a, <1>b, <3>3, <3>4, SMTT(30) DEF Exact
  <2>5. CASE q # r
    <3>1. CompletedOf(q)' = CompletedOf(q)
      BY <1>a, <1>e, <2>1, <2>5 DEF CompletedOf
    <3>2. Owners(q)' = Owners(q)
      BY <1>a, <2>2, <3>1, SameOwners
    <3>3. rgn'[q] = rgn[q]
      BY <1>4, <2>5 DEF Completed, Completes, Only
    <3> QED
      BY <1>a, <1>b, <3>2, <3>3 DEF Exact
  <2> QED
    BY <2>4, <2>5
<1> QED
  BY <1>1, <1>2, <1>3, <1>4 DEF Worked

\* The owners stay countable.
LEMMA OwnersStep ==
  ASSUME Countable, TypeOK'
  PROVE OwnersOK'
<1> SUFFICES ASSUME NEW r \in Regions PROVE Owners(r)' \in Nat
  BY DEF OwnersOK
<1>1. UnitsOf(r)' \subseteq Units /\ CompletedOf(r)' \subseteq Units
  BY DEF TypeOK, UnitsOf, CompletedOf
<1>2. Cardinality(UnitsOf(r)') \in Nat /\ Cardinality(CompletedOf(r)') \in Nat
  BY <1>1 DEF Countable
<1>3. leaked'[r] \in Nat
  BY DEF TypeOK
<1> QED
  BY <1>2, <1>3, SMTT(30) DEF Owners

\* Every step keeps the count exact.
LEMMA RefsStep ==
  ASSUME Countable, RegionInv, RegionStep
  PROVE RefsCounted'
<1>a. guest' = guest
  BY ZenonT(30)
     DEF RegionStep, Stay, Inval, Got, Getting, Renewed, Kept, Aside, Dropped, Passed,
         Queued, Registered, Worked
<1> SUFFICES ASSUME ~FetchFaults, NEW r \in Regions PROVE Exact(r)'
  BY <1>a DEF RefsCounted, FetchFaults, Exact, Owners
<1>b. r # None
  BY PagesAssumption
<1>c. /\ Exact(r) /\ Owners(r) \in Nat /\ rgn[r].refs \in Nat
  BY ExactNow
<1>d. table' = table => (InTable(r)' <=> InTable(r))
  BY DEF InTable
<1>1. CASE Stay
  <2>1. UNCHANGED <<rgn, table, unit, completed>>
    BY <1>1 DEF Stay
  <2>2. UnitsOf(r)' = UnitsOf(r) /\ CompletedOf(r)' = CompletedOf(r)
    BY <2>1 DEF UnitsOf, CompletedOf
  <2>3. leaked[r] \in Nat /\ Cardinality(UnitsOf(r)) \in Nat /\ Cardinality(CompletedOf(r)) \in Nat
    BY OwnersAreCounted DEF RegionInv
  <2>4. CASE UNCHANGED <<epoch, leaked>>
    BY <1>d, <2>1, <2>4, SameExact
  <2>5. CASE /\ epoch # None /\ epoch' = None
             /\ leaked' = [leaked EXCEPT ![epoch] = @ + 1]
    <3>1. leaked'[r] = leaked[r] + (IF epoch = r THEN 1 ELSE 0)
      BY <2>5, SMTT(30) DEF RegionInv, TypeOK
    <3>2. Owners(r)' = Owners(r) + (IF epoch = r THEN 1 ELSE 0)
      BY <2>2, <2>3, <3>1, SMTT(30) DEF Owners
    <3> QED
      BY <1>b, <1>c, <1>d, <2>1, <2>5, <3>2, SMTT(30) DEF Exact
  <2> QED
    BY <1>1, <2>4, <2>5 DEF Stay
<1>2. ASSUME NEW P \in SUBSET Pages, Inval(P) PROVE Exact(r)'
  <2>1. UNCHANGED <<unit, completed, leaked, epoch>>
    BY <1>2 DEF Inval
  <2>2. InTable(r)' <=> (InTable(r) /\ ~\E p \in P : table[p] = r)
    BY <1>2, InTableStep
  <2>3. CASE \E p \in P : table[p] = r
    <3>1. rgn'[r].refs = rgn[r].refs - 1 /\ InTable(r)
      BY <1>2, <2>3 DEF Inval, InvalRegions, Invalidated, Lost, InTable
    <3>2. UnitsOf(r)' = UnitsOf(r) /\ CompletedOf(r)' = CompletedOf(r)
      BY <2>1 DEF UnitsOf, CompletedOf
    <3>3. Owners(r)' = Owners(r)
      BY <2>1, <3>2, SameOwners
    <3> QED
      BY <1>c, <2>1, <2>2, <2>3, <3>1, <3>3, SMTT(30) DEF Exact
  <2>4. CASE ~\E p \in P : table[p] = r
    <3>1. rgn'[r] = rgn[r]
      BY <1>2, <2>4 DEF Inval, InvalRegions
    <3> QED
      BY <2>1, <2>2, <2>4, <3>1, SameExact
  <2> QED
    BY <2>3, <2>4
<1>3. ASSUME NEW p \in Pages, NEW q, Got(p, q) \/ Renewed(p, q) PROVE Exact(r)'
  BY <1>3, GetCounts
<1>4. ASSUME Kept \/ \E q \in Regions : Passed(q) PROVE Exact(r)'
  <2>1. rgn'[r].refs = rgn[r].refs /\ UNCHANGED <<unit, completed, leaked, epoch, table>>
    BY <1>4 DEF Kept, Aside, Passed, PassedOver, Only
  <2> QED
    BY <1>d, <2>1, SameExact
<1>5. ASSUME NEW q \in Regions, NEW u \in Units, Queued(q, u) PROVE Exact(r)'
  BY <1>5, <1>d, QueueCounts DEF Queued, Aside
<1>6. ASSUME NEW u \in Units, Registered(u) PROVE Exact(r)'
  BY <1>6, <1>d, RegisterCounts DEF Registered, Aside
<1>7. ASSUME NEW u \in Units, Worked(u) PROVE Exact(r)'
  <2>1. table' = table
    BY <1>7 DEF Worked, Aside
  <2> QED
    BY <1>7, <1>d, <2>1, WorkCounts
<1> QED
  BY <1>1, <1>2, <1>3, <1>4, <1>5, <1>6, <1>7 DEF RegionStep

-----------------------------------------------------------------------------
(* What the operations on the Region objects return.                       *)

\* Acquire counts one reference more.
LEMMA AcquireEffect ==
  ASSUME NEW R \in Objects, NEW r \in Regions
  PROVE /\ Only(r, R, Acquire(R, r)) /\ SameMarks(R[r], Acquire(R, r)[r])
        /\ Acquire(R, r)[r].refs = R[r].refs + 1 /\ Acquire(R, r)[r].life = R[r].life
  BY SMTT(30) DEF Acquire, Objects, Region, SameMarks, Only

\* Release counts one less, and ends the life of a region with one.
LEMMA ReleaseEffect ==
  ASSUME NEW R \in Objects, NEW r \in Regions, R[r].refs # 0
  PROVE /\ Only(r, R, Release(R, r)) /\ SameMarks(R[r], Release(R, r)[r])
        /\ Release(R, r)[r].refs = R[r].refs - 1
        /\ Release(R, r)[r].life = IF R[r].refs = 1 THEN "freed" ELSE R[r].life
<1> DEFINE l == IF R[r].refs = 1 THEN "freed" ELSE R[r].life
           x == [R[r] EXCEPT !.refs = R[r].refs - 1, !.life = l]
<1>1. Release(R, r) = [R EXCEPT ![r] = x]
  BY DEF Release
<1>2. R[r] \in Region /\ R[r].refs - 1 \in Nat /\ l \in {"unborn", "live", "freed"}
  BY SMTT(30) DEF Objects, Region
<1> HIDE DEF l
<1>3. x \in Region /\ x.refs = R[r].refs - 1 /\ x.life = l /\ SameMarks(R[r], x)
  BY <1>2 DEF Region, SameMarks
<1> HIDE DEF x
<1> QED
  BY <1>1, <1>3 DEF Objects, Only, l

\* A new Region is valid, empty and counted once.
LEMMA InstantiateEffect ==
  ASSUME NEW R \in Objects, NEW r \in Regions, NEW p \in Pages
  PROVE Only(r, R, Instantiate(R, r, p)) /\ Made(Instantiate(R, r, p)[r], p, 1)
  BY DEF Instantiate, Objects, Region, Unborn, Only, Made

-----------------------------------------------------------------------------
(* What the steps do.                                                      *)

\* A write to a page of code, and one to a page where there is none.
LEMMA CodeWriteEffect ==
  ASSUME RegionInv, NEW p \in Pages, CodeWrite(p)
  PROVE Inval({p}) \/ \E k : Fault(k)
<1> USE DEF managerVars, engineVars
<1>1. CASE p \notin code
  <2>1. table[p] = None
    BY <1>1 DEF RegionInv, TableOK
  <2>2. table \in [Pages -> Regions \cup {None}] /\ None \notin Regions /\ rgn \in Objects
    BY PagesAssumption DEF RegionInv, TypeOK
  <2>3. rgn' = rgn /\ table' = table /\ stale' = stale /\ UNCHANGED <<guest, code, cache, touched, todo, unit,
           completed, epoch, leaked>> /\ version' = [version EXCEPT ![p] = @ + 1]
    BY <1>1 DEF CodeWrite
  <2>4. Orphaned(rgn, rgn) = {}
    BY DEF Orphaned
  <2>5. table' = [q \in Pages |-> IF q \in {p} THEN None ELSE table[q]]
    BY <2>1, <2>2, <2>3
  <2> QED
    BY <2>2, <2>3, <2>4, <2>5, SMTT(30)
       DEF Inval, InvalRegions, InvalCache, RegionInv, TypeOK
<1>2. CASE p \in code
  <2>1. SUFFICES ASSUME ~\E k : Fault(k) PROVE Inval({p})
    OBVIOUS
  <2>2. /\ ~(table[p] # None /\ Freed(table[p])) /\ InvalidateRegion(p)
        /\ code' = code \ {p} /\ version' = [version EXCEPT ![p] = @ + 1]
        /\ UNCHANGED <<unit, completed, engineVars>>
    BY <1>2, <2>1 DEF CodeWrite
  <2>3. table \in [Pages -> Regions \cup {None}] /\ None \notin Regions /\ rgn \in Objects
    BY PagesAssumption DEF RegionInv, TypeOK
  <2>4. table' = [q \in Pages |-> IF q \in {p} THEN None ELSE table[q]]
    BY <2>2, <2>3 DEF InvalidateRegion
  <2>5. /\ rgn' \in Objects
        /\ \A r \in Regions :
             IF table[p] = r
               THEN Invalidated(rgn[r], rgn'[r])
               ELSE rgn'[r] = rgn[r]
    <3>1. CASE table[p] = None
      BY <2>2, <2>3, <3>1 DEF InvalidateRegion
    <3>2. CASE table[p] # None
      <4> DEFINE r == table[p]
                 R == [rgn EXCEPT ![r].valid = FALSE]
      <4>1. r \in Regions /\ rgn[r].valid
        BY <2>3, <3>2 DEF RegionInv, TableOK
      <4>2. rgn[r].life = "live" /\ rgn[r].refs # 0
        BY <2>2, <3>2, <4>1, Counted DEF RegionInv, LifeOK, Born
      <4>3. /\ R \in Objects /\ \A q \in Regions \ {r} : R[q] = rgn[q]
            /\ R[r].valid = FALSE /\ R[r].refs = rgn[r].refs /\ R[r].life = rgn[r].life
            /\ R[r].page = rgn[r].page /\ R[r].inTranslation = rgn[r].inTranslation
            /\ R[r].txln = rgn[r].txln /\ R[r].hot = rgn[r].hot
        BY <2>3, <4>1, ZenonT(30) DEF Objects, Region
      <4>4. rgn' = Release(R, r)
        BY <2>2, <3>2 DEF InvalidateRegion
      <4> HIDE DEF R
      <4>5. /\ Only(r, R, rgn') /\ SameMarks(R[r], rgn'[r]) /\ rgn'[r].refs = R[r].refs - 1
            /\ rgn'[r].life = IF R[r].refs = 1 THEN "freed" ELSE R[r].life
        BY <4>1, <4>2, <4>3, <4>4, ReleaseEffect
      <4>6. Invalidated(rgn[r], rgn'[r])
        BY <4>2, <4>3, <4>5 DEF Invalidated, SameMarks, Lost
      <4>7. rgn' \in Objects /\ \A q \in Regions \ {r} : rgn'[q] = rgn[q]
        BY <4>3, <4>5 DEF Only
      <4> QED
        BY <4>6, <4>7
    <3> QED
      BY <3>1, <3>2
  <2>6. \A r \in Regions : (\E q \in {p} : table[q] = r) <=> table[p] = r
    OBVIOUS
  <2>7. /\ stale' = stale \cup Orphaned(rgn, rgn')
        /\ UNCHANGED <<guest, cache, touched, todo, unit, completed, epoch, leaked>>
    BY <2>2 DEF InvalidateRegion
  <2>8. /\ version' \in [Pages -> Nat] /\ \A q \in Pages \ {p} : version'[q] = version[q]
        /\ cache \in [Slots -> [tag : Pages \cup {None}, data : Regions \cup {None}]]
    BY <2>2, SMTT(30) DEF RegionInv, TypeOK
  <2> QED
    BY <2>2, <2>4, <2>5, <2>7, <2>8 DEF Inval, InvalRegions, InvalCache
<1> QED
  BY <1>1, <1>2

\* The flush of a user guest.
LEMMA FlushEffect ==
  ASSUME RegionInv, FlushAllTranslations
  PROVE Inval(Pages)
<1>1. /\ ~FetchFaults /\ rgn' = FlushedRegions /\ stale' = stale \cup Orphaned(rgn, rgn')
      /\ table' = [p \in Pages |-> None]
      /\ cache' = [s \in Slots |-> [tag |-> None, data |-> None]]
      /\ version' = [p \in Pages |-> version[p] + 1]
      /\ UNCHANGED <<guest, code, touched, todo, unit, completed, epoch, leaked>>
  BY DEF FlushAllTranslations, Invalidate, FetchFaults, SystemMode, engineVars
<1>2. ASSUME NEW r \in Regions
      PROVE /\ rgn'[r] \in Region
            /\ IF \E p \in Pages : table[p] = r THEN Invalidated(rgn[r], rgn'[r])
               ELSE rgn'[r] = rgn[r]
  <2>1. rgn[r] \in Region
    BY Counted
  <2>2. CASE \E p \in Pages : table[p] = r
    <3>1. rgn[r].life = "live" /\ rgn[r].refs \in Nat \ {0}
      <4>1. r # None
        BY PagesAssumption
      <4> QED
        BY <1>1, <2>2, <4>1, TableIsAlive, Counted
    <3> DEFINE l == IF rgn[r].refs = 1 THEN "freed" ELSE rgn[r].life
    <3>2. rgn'[r] = [rgn[r] EXCEPT !.valid = FALSE, !.refs = rgn[r].refs - 1, !.life = l]
      BY <1>1, <2>2 DEF FlushedRegions
    <3>3. l \in {"unborn", "live", "freed"} /\ rgn[r].refs - 1 \in Nat
      BY <3>1, SMTT(30)
    <3> HIDE DEF l
    <3>4. rgn'[r] \in Region /\ rgn'[r].refs = rgn[r].refs - 1 /\ rgn'[r].life = l
          /\ rgn'[r].valid = FALSE /\ rgn'[r].page = rgn[r].page /\ rgn'[r].hot = rgn[r].hot
          /\ rgn'[r].inTranslation = rgn[r].inTranslation /\ rgn'[r].txln = rgn[r].txln
      BY <2>1, <3>2, <3>3, ZenonT(30) DEF Region
    <3> QED
      BY <2>2, <3>1, <3>4 DEF Invalidated, Lost, l
  <2>3. CASE ~\E p \in Pages : table[p] = r
    BY <1>1, <2>1, <2>3 DEF FlushedRegions
  <2> QED
    BY <2>2, <2>3
<1>3. rgn' \in Objects
  BY <1>1, <1>2 DEF FlushedRegions, Objects
<1>4. version' \in [Pages -> Nat]
  BY <1>1, SMTT(30) DEF RegionInv, TypeOK
<1>5. cache' \in [Slots -> [tag : Pages \cup {None}, data : Regions \cup {None}]]
      /\ \A s \in Slots : cache'[s].tag = None
  BY <1>1
<1>6. table' = [p \in Pages |-> IF p \in Pages THEN None ELSE table[p]]
  BY <1>1
<1> QED
  BY <1>1, <1>2, <1>3, <1>4 DEF Inval, InvalRegions, InvalCache

\* What GetRegion(p) finds.
LEMMA GetEffect ==
  ASSUME RegionInv, NEW p \in DOMAIN SlotOf[guest], NEW r, GetRegion(p, r),
         UNCHANGED <<guest, unit, completed, version, leaked, todo>>
  PROVE Getting(p, r) /\ p \in Pages
<1>1. p \in Pages /\ Slot(p) \in Slots /\ p # None
  BY SlotsAssumption, PagesAssumption, SMTT(30) DEF RegionInv, TypeOK, Slot
<1>2. cache \in [Slots -> [tag : Pages \cup {None}, data : Regions \cup {None}]]
      /\ table \in [Pages -> Regions \cup {None}]
  BY DEF RegionInv, TypeOK
<1>3. r \in Regions
      /\ IF Born(r) THEN Hit(p) \/ table[p] = r ELSE ~Hit(p) /\ table[p] = None
  <2>1. CASE Hit(p)
    BY <1>1, <2>1 DEF GetRegion, Found, Hit, RegionInv, BornOK, CachedBorn
  <2>2. CASE ~Hit(p) /\ table[p] # None
    <3>1. r = table[p] /\ r \in Regions /\ rgn[r].valid
      BY <1>1, <1>2, <2>2, SMTT(30) DEF GetRegion, Found, RegionInv, TableOK
    <3> QED
      BY <3>1 DEF RegionInv, LifeOK, Born
  <2>3. CASE ~Hit(p) /\ table[p] = None
    BY <2>3 DEF GetRegion, Found, Born
  <2> QED
    BY <2>1, <2>2, <2>3
<1>4. [tag |-> p, data |-> r] \in [tag : Pages \cup {None}, data : Regions \cup {None}]
  BY <1>1, <1>3
<1>5. /\ cache' \in [Slots -> [tag : Pages \cup {None}, data : Regions \cup {None}]]
      /\ \A s \in Slots : cache'[s] = cache[s] \/ cache'[s] = [tag |-> p, data |-> r]
  BY <1>1, <1>2, <1>4 DEF GetRegion
<1>6. IF Born(r) THEN table' = table
      ELSE table[p] = None /\ table' = [table EXCEPT ![p] = r] /\ p \in code'
  BY <1>2, <1>3 DEF GetRegion
<1> QED
  BY <1>1, <1>3, <1>5, <1>6 DEF GetRegion, Getting, GettingCache

\* Execute finds a region under a page.
LEMMA ExecuteEffect ==
  ASSUME RegionInv, NEW p \in DOMAIN SlotOf[guest], Execute(p)
  PROVE (p \in Pages /\ \E r : Got(p, r)) \/ \E k : Fault(k)
<1> SUFFICES ASSUME ~\E k : Fault(k) PROVE p \in Pages /\ \E r : Got(p, r)
  OBVIOUS
<1>1. PICK r : /\ GetRegion(p, r) /\ rgn' = AfterGet(p, r)
               /\ UNCHANGED <<unit, completed, stale, version, guest, epoch, leaked, todo>>
  BY DEF Execute
<1>2. Getting(p, r) /\ p \in Pages
  BY <1>1, GetEffect
<1>3. r \in Regions /\ rgn \in Objects
  BY <1>2 DEF Getting, RegionInv, TypeOK
<1>4. IF Born(r) THEN rgn' = rgn ELSE Only(r, rgn, rgn') /\ Made(rgn'[r], p, 1)
  BY <1>1, <1>2, <1>3, InstantiateEffect DEF AfterGet, Born
<1> QED
  BY <1>1, <1>2, <1>4 DEF Got

\* TraceBlock makes a region hot at most.
LEMMA TraceEffect ==
  ASSUME NEW R \in Objects, NEW r \in Regions, TraceBlock(R, r)
  PROVE /\ Only(r, R, rgn') /\ Traced(R[r], rgn'[r])
        /\ rgn'[r].refs = R[r].refs /\ rgn'[r].life = R[r].life
<1>1. CASE rgn' = R
  BY <1>1 DEF Only, Traced
<1>2. CASE ~R[r].inTranslation /\ \E h \in {R[r].hot, TRUE} : rgn' = [R EXCEPT ![r].hot = h]
  <2>1. PICK h \in BOOLEAN : rgn' = [R EXCEPT ![r].hot = h]
    BY <1>2 DEF Objects, Region
  <2>2. rgn'[r] = [R[r] EXCEPT !.hot = h] /\ R[r] \in Region
    BY <2>1 DEF Objects
  <2>3. rgn'[r] \in Region
    BY <2>2 DEF Region
  <2>4. Only(r, R, rgn')
    BY <2>1, <2>3 DEF Only, Objects
  <2> QED
    BY <1>2, <2>4, SMTT(30) DEF Traced
<1> QED
  BY <1>1, <1>2 DEF TraceBlock

\* EpochInterpret goes on in its region.
LEMMA KeepEffect ==
  ASSUME RegionInv, EpochKeep
  PROVE Kept \/ \E k : Fault(k)
<1> SUFFICES ASSUME ~\E k : Fault(k) PROVE Kept
  OBVIOUS
<1>1. /\ epoch # None /\ TraceBlock(rgn, epoch)
      /\ UNCHANGED <<table, cache, touched, dirty, code, unit, completed, stale, version,
                     engineVars, fault>>
  BY DEF EpochKeep
<1>2. epoch \in Regions /\ rgn \in Objects
  BY <1>1 DEF RegionInv, TypeOK
<1> QED
  BY <1>1, <1>2, TraceEffect DEF Kept, Aside, engineVars

\* EpochInterpret goes on in another region, or comes back to the same.
LEMMA RenewEffect ==
  ASSUME RegionInv, NEW p \in DOMAIN SlotOf[guest], EpochRenew(p)
  PROVE (p \in Pages /\ \E r : Renewed(p, r)) \/ \E k : Fault(k)
<1> SUFFICES ASSUME ~\E k : Fault(k) PROVE p \in Pages /\ \E r : Renewed(p, r)
  OBVIOUS
<1> DEFINE New(r) == IF rgn[r].life = "unborn" THEN Instantiate(AfterLetGo, r, p) ELSE AfterLetGo
<1>1. PICK r \in Found(p) :
             /\ New(r)[r].life # "freed" /\ GetRegion(p, r) /\ epoch' = r
             /\ TraceBlock(Acquire(New(r), r), r)
             /\ stale' = stale \cup Orphaned(rgn, AfterLetGo)
             /\ UNCHANGED <<unit, completed, version, guest, leaked, todo>>
  BY DEF EpochRenew
<1>2. Getting(p, r) /\ p \in Pages /\ r \in Regions
  BY <1>1, GetEffect DEF Getting
<1> DEFINE R0 == AfterLetGo
           R1 == New(r)
           R2 == Acquire(R1, r)
<1>3. rgn \in Objects /\ epoch \in Regions \cup {None} /\ None \notin Regions
  BY PagesAssumption DEF RegionInv, TypeOK
<1>4. epoch # None => rgn[epoch].life = "live" /\ rgn[epoch].refs # 0
  BY <1>3, Counted DEF EpochRenew, RegionInv, BornOK, EpochBorn
<1>5. /\ R0 \in Objects /\ \A q \in Regions \ {epoch} : R0[q] = rgn[q]
      /\ epoch # None => SameMarks(rgn[epoch], R0[epoch]) /\ Lost(rgn[epoch], R0[epoch])
  BY <1>3, <1>4, ReleaseEffect DEF AfterLetGo, Only, Lost
<1> HIDE DEF R0
<1>6. /\ R1 \in Objects /\ \A q \in Regions \ {r} : R1[q] = R0[q]
      /\ IF Born(r) THEN R1[r] = R0[r] ELSE Made(R1[r], p, 1)
  <2>1. IF Born(r) THEN R1 = R0 ELSE R1 = Instantiate(R0, r, p)
    BY DEF R0, Born
  <2> HIDE DEF R1, New
  <2>2. Only(r, R0, Instantiate(R0, r, p)) /\ Made(Instantiate(R0, r, p)[r], p, 1)
    BY <1>2, <1>5, InstantiateEffect
  <2> QED
    BY <1>5, <2>1, <2>2 DEF Only
<1> HIDE DEF R1, New
<1>7. Only(r, R1, R2) /\ SameMarks(R1[r], R2[r]) /\ R2[r].refs = R1[r].refs + 1
      /\ R2[r].life = R1[r].life
  BY <1>2, <1>6, AcquireEffect
<1>8. TraceBlock(R2, r) /\ R1[r].life # "freed"
  BY <1>1 DEF R1
<1> HIDE DEF R2
<1>9. Only(r, R2, rgn') /\ Traced(R2[r], rgn'[r])
      /\ rgn'[r].refs = R2[r].refs /\ rgn'[r].life = R2[r].life
  BY <1>2, <1>7, <1>8, TraceEffect DEF Only
<1>10. /\ rgn' \in Objects /\ \A q \in Regions \ {r} : rgn'[q] = R0[q]
       /\ Traced(R1[r], rgn'[r])
       /\ rgn'[r].refs = R1[r].refs + 1 /\ rgn'[r].life = R1[r].life
  BY <1>6, <1>7, <1>9 DEF Only, SameMarks, Traced
<1>11. /\ \A q \in Regions \ {r, epoch} : rgn'[q] = rgn[q]
       /\ epoch \notin {None, r} =>
            SameMarks(rgn[epoch], rgn'[epoch]) /\ Lost(rgn[epoch], rgn'[epoch])
  BY <1>3, <1>5, <1>10
<1>12. CASE ~Born(r)
  <2>1. Made(rgn'[r], p, 2)
    BY <1>6, <1>10, <1>12, SMTT(30) DEF Made, Traced
  <2>2. epoch # r
    BY <1>2, <1>3, <1>4, <1>12 DEF Born
  <2>3. ASSUME NEW q \in Regions
        PROVE rgn[q].life = "live" /\ R0[q].life = "freed" <=> rgn[q].life = "live" /\ rgn'[q].life = "freed"
    BY <1>10, <1>12 DEF Born
  <2>4. Orphaned(rgn, R0) = Orphaned(rgn, rgn')
    BY <2>3 DEF Orphaned
  <2> QED
    BY <1>1, <1>2, <1>4, <1>10, <1>11, <1>12, <2>1, <2>4 DEF Renewed, LetGo, Taken, R0
<1>13. CASE Born(r)
  <2>1. R1[r] = R0[r]
    BY <1>6, <1>13
  <2>2. rgn[r].life = "live" /\ rgn'[r].life = "live"
        /\ rgn'[r].refs = rgn[r].refs + (IF epoch = r THEN 0 ELSE 1)
    <3>1. CASE epoch = r
      <4>1. rgn[r].refs \in Nat /\ R0[r].refs = rgn[r].refs - 1
            /\ R0[r].life = IF rgn[r].refs = 1 THEN "freed" ELSE rgn[r].life
        BY <1>2, <1>3, <1>5, <3>1, Counted DEF Lost
      <4> QED
        BY <1>2, <1>3, <1>4, <1>8, <1>10, <2>1, <3>1, <4>1, SMTT(30)
    <3>2. CASE epoch # r
      <4>1. R0[r] = rgn[r]
        BY <1>2, <1>5, <3>2
      <4>2. rgn[r].life = "live"
        BY <1>2, <1>8, <1>13, <2>1, <4>1, Counted DEF Freed
      <4> QED
        BY <1>10, <2>1, <3>2, <4>1, <4>2
    <3> QED
      BY <3>1, <3>2
  <2>3. Traced(rgn[r], rgn'[r])
    BY <1>2, <1>3, <1>5, <1>10, <2>1, SMTT(30) DEF Traced, SameMarks
  <2>4. R0[r].life # "freed"
    BY <1>8, <2>1
  <2>5. ASSUME NEW q \in Regions
        PROVE rgn[q].life = "live" /\ R0[q].life = "freed" <=> rgn[q].life = "live" /\ rgn'[q].life = "freed"
    BY <1>10, <2>2, <2>4
  <2>6. Orphaned(rgn, R0) = Orphaned(rgn, rgn')
    BY <2>5 DEF Orphaned
  <2> QED
    BY <1>1, <1>2, <1>4, <1>10, <1>11, <1>13, <2>2, <2>3, <2>6 DEF Renewed, LetGo, Taken, R0
<1> QED
  BY <1>12, <1>13

\* A reference is released.
LEMMA DropEffect ==
  ASSUME RegionInv, NEW r \in Regions, Born(r), ~Freed(r), rgn' = Release(rgn, r),
         stale' = stale \cup Orphaned(rgn, rgn'),
         UNCHANGED <<guest, table, cache, touched, code, completed, version, epoch, leaked, todo>>
  PROVE Dropped(r)
<1>1. rgn \in Objects /\ rgn[r].life = "live" /\ rgn[r].refs # 0
  BY Counted DEF RegionInv, TypeOK
<1> QED
  BY <1>1, ReleaseEffect DEF Dropped, Released, Aside, Lost

\* Profile looks at a region.
LEMMA ProfileEffect ==
  ASSUME RegionInv, NEW r \in Regions, ProfileRegion(r)
  PROVE Passed(r) \/ (\E u \in Units : Queued(r, u)) \/ \E k : Fault(k)
<1> SUFFICES ASSUME ~\E k : Fault(k) PROVE Passed(r) \/ \E u \in Units : Queued(r, u)
  OBVIOUS
<1>1. /\ ~Freed(r) /\ r \in todo /\ todo' = todo \ {r}
      /\ UNCHANGED <<guest, table, cache, touched, code, completed, stale, version, epoch, leaked>>
  BY DEF ProfileRegion, managerVars
<1>2. rgn \in Objects /\ rgn[r] \in Region /\ rgn[r].life = "live" /\ unit \in [Units -> Unit]
  BY <1>1, Counted DEF RegionInv, TypeOK, BornOK, SeenBorn
<1>3. ASSUME NEW i \in BOOLEAN, NEW h \in BOOLEAN, NEW n \in Nat,
             rgn' = [rgn EXCEPT ![r] = [@ EXCEPT !.inTranslation = i, !.hot = h, !.refs = n]]
      PROVE /\ Only(r, rgn, rgn') /\ rgn'[r].page = rgn[r].page /\ rgn'[r].life = rgn[r].life
            /\ rgn'[r].valid = rgn[r].valid /\ rgn'[r].txln = rgn[r].txln
            /\ rgn'[r].inTranslation = i /\ rgn'[r].hot = h /\ rgn'[r].refs = n
  <2> DEFINE x == [rgn[r] EXCEPT !.inTranslation = i, !.hot = h, !.refs = n]
  <2>1. /\ x \in Region /\ x.page = rgn[r].page /\ x.life = rgn[r].life
        /\ x.valid = rgn[r].valid /\ x.txln = rgn[r].txln
        /\ x.inTranslation = i /\ x.hot = h /\ x.refs = n
    BY <1>2, ZenonT(30) DEF Region
  <2>2. rgn' = [rgn EXCEPT ![r] = x]
    BY <1>3
  <2> HIDE DEF x
  <2>3. Only(r, rgn, rgn') /\ rgn'[r] = x
    BY <1>2, <2>1, <2>2 DEF Only, Objects
  <2> QED
    BY <2>1, <2>3
<1>4. CASE rgn' = rgn /\ unit' = unit
  BY <1>1, <1>2, <1>4 DEF Passed, PassedOver, Aside, Only
<1>5. CASE ~rgn[r].valid /\ rgn' = [rgn EXCEPT ![r].inTranslation = TRUE] /\ unit' = unit
  <2>1. rgn' = [rgn EXCEPT ![r] = [@ EXCEPT !.inTranslation = TRUE, !.hot = rgn[r].hot,
                                            !.refs = rgn[r].refs]]
    BY <1>5
  <2>2. rgn[r].hot \in BOOLEAN /\ rgn[r].refs \in Nat
    BY <1>2 DEF Region
  <2>3. /\ Only(r, rgn, rgn') /\ rgn'[r].page = rgn[r].page /\ rgn'[r].life = rgn[r].life
        /\ rgn'[r].valid = rgn[r].valid /\ rgn'[r].txln = rgn[r].txln
        /\ rgn'[r].inTranslation = TRUE /\ rgn'[r].hot = rgn[r].hot /\ rgn'[r].refs = rgn[r].refs
    BY <1>3, <2>1, <2>2
  <2> QED
    BY <1>1, <1>5, <2>3 DEF Passed, PassedOver, Aside
<1>6. CASE rgn[r].hot /\ unit' = unit
           /\ rgn' = [rgn EXCEPT ![r].inTranslation = FALSE, ![r].hot = FALSE]
  <2>1. rgn' = [rgn EXCEPT ![r] = [@ EXCEPT !.inTranslation = FALSE, !.hot = FALSE,
                                            !.refs = rgn[r].refs]]
    BY <1>2, <1>6 DEF Objects, Region
  <2>2. rgn[r].refs \in Nat
    BY <1>2 DEF Region
  <2>3. /\ Only(r, rgn, rgn') /\ rgn'[r].page = rgn[r].page /\ rgn'[r].life = rgn[r].life
        /\ rgn'[r].valid = rgn[r].valid /\ rgn'[r].txln = rgn[r].txln
        /\ rgn'[r].inTranslation = FALSE /\ rgn'[r].hot = FALSE /\ rgn'[r].refs = rgn[r].refs
    BY <1>3, <2>1, <2>2
  <2> QED
    BY <1>1, <1>6, <2>3 DEF Passed, PassedOver, Aside
<1>7. ASSUME NEW u \in Units, rgn[r].hot, rgn[r].valid, unit[u] = Unbuilt,
             unit' = [unit EXCEPT ![u] =
                        [state |-> "queued", region |-> r, version |-> version[rgn[r].page]]],
             rgn' = Dispatched(r)
      PROVE Queued(r, u)
  <2>1. rgn' = [rgn EXCEPT ![r] = [@ EXCEPT !.inTranslation = TRUE, !.hot = FALSE,
                                            !.refs = rgn[r].refs + 1]]
    BY <1>2, <1>7 DEF Objects, Region, Dispatched
  <2>2. rgn[r].refs + 1 \in Nat /\ rgn[r].valid = TRUE
    BY <1>2, <1>7, SMTT(30) DEF Region
  <2>3. unit[u].state = "unbuilt"
    BY <1>7, SMTT(30) DEF Unbuilt
  <2>4. /\ Only(r, rgn, rgn') /\ rgn'[r].page = rgn[r].page /\ rgn'[r].life = rgn[r].life
        /\ rgn'[r].valid = rgn[r].valid /\ rgn'[r].txln = rgn[r].txln
        /\ rgn'[r].inTranslation = TRUE /\ rgn'[r].hot = FALSE /\ rgn'[r].refs = rgn[r].refs + 1
    BY <1>3, <2>1, <2>2
  <2> QED
    BY <1>1, <1>2, <1>7, <2>3, <2>4 DEF Queued, Dispatching, Aside
<1> QED
  BY <1>4, <1>5, <1>6, <1>7 DEF ProfileRegion

\* A completed translation reaches its region.
LEMMA RegisterEffect ==
  ASSUME RegionInv, NEW u \in Units, RegisterTranslation(u)
  PROVE Registered(u)
<1> DEFINE r == unit[u].region
           R == Installed(u)
<1>1. /\ u \in completed /\ ~Freed(r) /\ rgn' = Release(R, r)
      /\ stale' = stale \cup Orphaned(R, rgn') \cup Replaced(u)
      /\ completed' = completed \ {u}
      /\ UNCHANGED <<guest, table, cache, touched, code, unit, version, epoch, leaked, todo>>
  BY DEF RegisterTranslation, managerVars
<1>2. r \in Regions /\ Born(r) /\ rgn \in Objects
  BY <1>1 DEF RegionInv, TypeOK, UnitsOK, BornOK, UnitsBorn, Built
<1>3. rgn[r] \in Region /\ rgn[r].life = "live" /\ rgn[r].refs # 0
  BY <1>1, <1>2, Counted
<1>4. /\ Only(r, rgn, R) /\ R[r].refs = rgn[r].refs /\ R[r].life = rgn[r].life
      /\ R[r].page = rgn[r].page /\ R[r].valid = rgn[r].valid /\ R[r].hot = rgn[r].hot
      /\ IF rgn[r].valid THEN R[r].txln = u ELSE R = rgn
  <2>1. CASE rgn[r].valid
    <3> DEFINE x == [rgn[r] EXCEPT !.txln = u, !.inTranslation = FALSE]
    <3>1. R = [rgn EXCEPT ![r] = x]
      BY <2>1 DEF Installed
    <3>2. /\ x \in Region /\ x.refs = rgn[r].refs /\ x.life = rgn[r].life /\ x.txln = u
          /\ x.page = rgn[r].page /\ x.valid = rgn[r].valid /\ x.hot = rgn[r].hot
      BY <1>3 DEF Region
    <3> HIDE DEF x
    <3>3. Only(r, rgn, R) /\ R[r] = x
      BY <1>2, <3>1, <3>2 DEF Only, Objects
    <3> QED
      BY <2>1, <3>2, <3>3
  <2>2. CASE ~rgn[r].valid
    BY <1>2, <2>2 DEF Installed, Only
  <2> QED
    BY <2>1, <2>2
<1>5. Replaced(u) \subseteq Units /\ \A t \in Replaced(u) : t = rgn[r].txln /\ rgn[r].valid
  BY DEF Replaced
<1> HIDE DEF R, r
<1>6. /\ Only(r, R, rgn') /\ SameMarks(R[r], rgn'[r]) /\ rgn'[r].refs = R[r].refs - 1
      /\ rgn'[r].life = IF R[r].refs = 1 THEN "freed" ELSE R[r].life
  <2>1. R \in Objects /\ R[r].refs # 0
    BY <1>3, <1>4 DEF Only
  <2> QED
    BY <1>1, <1>2, <2>1, ReleaseEffect
<1>7. /\ Only(r, rgn, rgn') /\ Lost(rgn[r], rgn'[r])
      /\ rgn'[r].page = rgn[r].page /\ rgn'[r].valid = rgn[r].valid /\ rgn'[r].hot = rgn[r].hot
      /\ IF rgn[r].valid THEN rgn'[r].txln = u ELSE SameMarks(rgn[r], rgn'[r])
  BY <1>4, <1>6 DEF Only, Lost, SameMarks
<1>8. ASSUME NEW t \in Orphaned(R, rgn')
      PROVE rgn'[r].life = "freed" /\ t = R[r].txln
  <2>1. PICK q \in Regions : R[q].life = "live" /\ rgn'[q].life = "freed" /\ R[q].txln = t
    BY <1>4, <1>6, OrphanedIs, SMTT(30) DEF Only
  <2>2. q = r
    BY <1>6, <2>1 DEF Only
  <2> QED
    BY <2>1, <2>2
<1>9. Orphaned(R, rgn') \subseteq Units /\ stale \subseteq Units
  BY <1>4, <1>6, OrphanedIs DEF Only, RegionInv, TypeOK
<1>10. /\ \A t \in stale' : t \in stale \/ t = rgn[r].txln \/ (t = u /\ rgn'[r].life = "freed")
       /\ \A t \in stale' \ stale : rgn'[r].life = "freed" \/ rgn[r].valid
       /\ stale' \subseteq Units
  BY <1>1, <1>4, <1>5, <1>8, <1>9
<1> QED
  BY <1>1, <1>2, <1>3, <1>7, <1>10 DEF Registered, Installing, Retiring, Aside, r

\* A worker goes on with its unit.
LEMMA WorkerEffect ==
  ASSUME RegionInv, NEW u \in Units, Worker(u)
  PROVE Worked(u) \/ \E k : Fault(k)
<1> SUFFICES ASSUME ~\E k : Fault(k) PROVE Worked(u)
  OBVIOUS
<1> DEFINE r == unit[u].region
<1>1. /\ unit[u].state \in Busy /\ ~Freed(r)
      /\ \/ Dequeue(u) \/ SkipInvalid(u) \/ Forget(u) \/ StartTranslation(u)
         \/ TestValid(u) \/ CompileFails(u) \/ Complete(u) \/ Finish(u)
  BY DEF Worker
<1>2. Built(u) /\ r \in Regions /\ Born(r) /\ rgn \in Objects
  BY <1>1 DEF RegionInv, TypeOK, BornOK, UnitsBorn, Built, Busy
<1>3. rgn[r].life = "live" /\ rgn[r] \in Region
  BY <1>1, <1>2, Counted
<1> USE DEF managerVars, engineVars, Moved
<1>4. CASE Dequeue(u) \/ Forget(u) \/ TestValid(u) \/ CompileFails(u)
  <2>1. PICK s \in Busy \cup {"lost"} : WorkerStep(u, s) /\ Onward(u, s)
    BY <1>4 DEF Dequeue, Forget, TestValid, CompileFails, Onward, Busy
  <2>2. GoesOn(u)
    BY <2>1 DEF WorkerStep, SetUnit, GoesOn
  <2> QED
    BY <1>2, <1>3, <2>1, <2>2 DEF WorkerStep, Worked, Aside
<1>5. CASE SkipInvalid(u) \/ Finish(u)
  <2>1. Delete(u) /\ (unit[u].state = "finish" \/ (unit[u].state = "held" /\ ~Valid(u)))
    BY <1>5 DEF SkipInvalid, Finish
  <2>2. Dropped(r)
    BY <1>1, <1>2, <2>1, DropEffect DEF Delete
  <2> QED
    BY <1>2, <1>3, <2>1, <2>2 DEF Delete, SetUnit, Worked, Dropped, Deletes
<1>6. CASE StartTranslation(u)
  <2> DEFINE x == [rgn[r] EXCEPT !.inTranslation = TRUE]
  <2>1. rgn' = [rgn EXCEPT ![r] = x]
    BY <1>6 DEF StartTranslation
  <2>2. /\ x \in Region /\ x.page = rgn[r].page /\ x.life = rgn[r].life /\ x.refs = rgn[r].refs
        /\ x.valid = rgn[r].valid /\ x.txln = rgn[r].txln /\ x.hot = rgn[r].hot
        /\ x.inTranslation = TRUE
    BY <1>3 DEF Region
  <2> HIDE DEF x
  <2>3. Only(r, rgn, rgn') /\ rgn'[r] = x
    BY <1>2, <2>1, <2>2 DEF Only, Objects
  <2>4. Begun(r)
    BY <2>2, <2>3 DEF Begun
  <2>5. Begins(u)
    BY <1>6, <2>4 DEF Begins, StartTranslation, SetUnit
  <2> QED
    BY <1>2, <1>3, <1>6, <2>5 DEF Worked, Aside, StartTranslation
<1>7. CASE Complete(u)
  <2>1. Completed(r)
    BY <1>2, <1>7, AcquireEffect DEF Complete, Completed
  <2>2. Completes(u)
    BY <1>7, <2>1 DEF Complete, Completes, SetUnit
  <2> QED
    BY <1>2, <1>3, <1>7, <2>2 DEF Worked, Aside, Complete
<1> QED
  BY <1>1, <1>4, <1>5, <1>6, <1>7

\* What a step does.
LEMMA RegionCases ==
  ASSUME RegionInv, [Next]_vars
  PROVE RegionStep
<1> USE DEF managerVars, engineVars
<1>1. ASSUME UNCHANGED vars \/ \E k : Fault(k) PROVE Stay
  BY <1>1 DEF vars, Fault, Stay
<1>2. ASSUME \/ ExecuteFetchFault \/ LeaveTranslation \/ EpochEnd \/ Profile \/ ProfileEnd
             \/ \E u \in Units : RegisterFreed(u)
      PROVE Stay
  <2>1. CASE ExecuteFetchFault \/ LeaveTranslation
    BY <2>1 DEF ExecuteFetchFault, LeaveTranslation, Stay
  <2>2. CASE EpochEnd
    BY <2>2 DEF EpochEnd, Stay
  <2>3. CASE Profile
    BY <2>3 DEF Profile, Stay
  <2>4. CASE ProfileEnd
    BY <2>4 DEF ProfileEnd, Stay
  <2>5. CASE \E u \in Units : RegisterFreed(u)
    BY <1>1, <2>5 DEF RegisterFreed
  <2> QED
    BY <1>2, <2>1, <2>2, <2>3, <2>4, <2>5
<1>3. CASE EpochFetchFault
  <2>1. CASE \E k : Fault(k)
    BY <1>1, <2>1 DEF RegionStep
  <2>2. CASE ~\E k : Fault(k)
    <3>1. /\ epoch # None /\ ~Freed(epoch) /\ rgn' = Release(rgn, epoch) /\ FetchFaults
          /\ stale' = stale \cup Orphaned(rgn, rgn')
          /\ UNCHANGED <<unit, guest, table, cache, touched, code, completed, version, epoch,
                         leaked, todo>>
      BY <1>3, <2>2 DEF EpochFetchFault, AfterLetGo
    <3>2. epoch \in Regions /\ Born(epoch)
      BY <3>1 DEF RegionInv, TypeOK, BornOK, EpochBorn
    <3> QED
      BY <3>1, <3>2, DropEffect DEF RegionStep
  <2> QED
    BY <2>1, <2>2
<1>4. DOMAIN SlotOf[guest] \subseteq Pages
  BY SlotsAssumption DEF RegionInv, TypeOK
<1>5. ASSUME NEW p \in DOMAIN SlotOf[guest], CodeWrite(p) \/ Execute(p) \/ EpochRenew(p)
      PROVE \/ Stay \/ \E P \in SUBSET Pages : Inval(P)
            \/ \E q \in Pages : \E r : Got(q, r) \/ Renewed(q, r)
  <2>1. CASE CodeWrite(p)
    <3>1. {p} \in SUBSET Pages /\ (Inval({p}) \/ Stay)
      BY <1>1, <1>4, <2>1, CodeWriteEffect
    <3> QED
      BY <3>1
  <2>2. CASE Execute(p)
    BY <1>1, <2>2, ExecuteEffect
  <2>3. CASE EpochRenew(p)
    BY <1>1, <2>3, RenewEffect
  <2> QED
    BY <1>5, <2>1, <2>2, <2>3
<1>6. CASE FlushAllTranslations
  <2>1. Inval(Pages) /\ Pages \in SUBSET Pages
    BY <1>6, FlushEffect
  <2> QED
    BY <2>1 DEF RegionStep
<1>7. CASE EpochKeep
  BY <1>1, <1>7, KeepEffect DEF RegionStep
<1>8. ASSUME NEW r \in Regions, ProfileRegion(r)
      PROVE Stay \/ Passed(r) \/ \E u \in Units : Queued(r, u)
  BY <1>1, <1>8, ProfileEffect
<1>9. ASSUME NEW u \in Units, Worker(u) \/ RegisterTranslation(u)
      PROVE Stay \/ Registered(u) \/ Worked(u)
  BY <1>1, <1>9, RegisterEffect, WorkerEffect
<1> QED
  BY <1>1, <1>2, <1>3, <1>5, <1>6, <1>7, <1>8, <1>9 DEF Next, RegionStep

-----------------------------------------------------------------------------
(* The theorems.                                                           *)

INSTANCE FiniteSetTheorems

\* The pool of work units is finite, so its subsets can be counted.
LEMMA UnitsAreCountable == Countable
<1> SUFFICES ASSUME NEW S \in SUBSET Units
             PROVE /\ Cardinality(S) \in Nat
                   /\ \A u \in Units \ S : Cardinality(S \cup {u}) = Cardinality(S) + 1
                   /\ \A u \in S : Cardinality(S \ {u}) = Cardinality(S) - 1
  BY DEF Countable
<1>1. IsFiniteSet(S)
  BY PoolAssumption, FS_Subset
<1> QED
  BY <1>1, FS_CardinalityType, FS_AddElement, FS_RemoveElement

\* The invariant holds when the manager, the engine and the workers start.
LEMMA RegionInit ==
  ASSUME Init
  PROVE RegionInv
<1>a. /\ \A r \in Regions : rgn[r] = Unborn
      /\ \A u \in Units : unit[u] = Unbuilt
      /\ None \notin Regions
  BY PagesAssumption DEF Init
<1>1. TypeOK
  <2>1. rgn \in Objects /\ unit \in [Units -> Unit]
    BY DEF Init, Objects, Region, Unborn, Unit, Unbuilt
  <2> QED
    BY <2>1 DEF Init, TypeOK
<1>2. LifeOK
  BY <1>a, SMTT(30) DEF LifeOK, Unborn
<1>3. BornOK
  BY DEF Init, BornOK, CachedBorn, SeenBorn, EpochBorn, UnitsBorn, Built, Unbuilt
<1>4. TableOK
  BY DEF Init, TableOK, Unborn
<1>5. UnitsOK /\ StaleIsUnused
  BY DEF Init, UnitsOK, StaleIsUnused, Unborn
<1>6. FlightOK /\ FreshOK
  BY DEF Init, FlightOK, FreshOK, Coming, Built, Unbuilt
<1>7. RefsCounted
  <2> SUFFICES ASSUME NEW r \in Regions
               PROVE rgn[r].refs = Cardinality(UnitsOf(r)) + Cardinality(CompletedOf(r)) + leaked[r]
                       + (IF InTable(r) THEN 1 ELSE 0) + (IF epoch = r THEN 1 ELSE 0)
    BY DEF RefsCounted
  <2>1. UnitsOf(r) = {} /\ CompletedOf(r) = {}
    BY <1>a DEF Init, UnitsOf, CompletedOf, Unbuilt
  <2>2. Cardinality(UnitsOf(r)) = 0 /\ Cardinality(CompletedOf(r)) = 0
    BY <2>1, FS_EmptySet
  <2>3. ~InTable(r) /\ epoch # r /\ leaked[r] = 0 /\ rgn[r].refs = 0
    BY <1>a DEF Init, InTable, Unborn
  <2> QED
    BY <2>2, <2>3, SMTT(30)
<1>8. OwnersOK
  BY <1>1, UnitsAreCountable, OwnersAreCounted DEF OwnersOK
<1> QED
  BY <1>1, <1>2, <1>3, <1>4, <1>5, <1>6, <1>7, <1>8, SMTT(30) DEF RegionInv

\* Regions, their table, the work units and the translations agree in every
\* reachable state, for any number of pages, regions and units.
THEOREM RegionInvariant == Spec => []RegionInv
<1>1. Init => RegionInv
  BY RegionInit
<1>2. RegionInv /\ [Next]_vars => RegionInv'
  BY RegionCases, RegionTypeStep, SteadyStep, BornStep, TableStep, TxlnStep, FlightStep,
     FreshStep, RefsStep, OwnersStep, UnitsAreCountable, SMTT(30)
     DEF RegionInv
<1> QED
  BY <1>1, <1>2, PTL DEF Spec

\* The count of a Region is the number of its owners: the table, the units, the
\* completed translations, EpochInterpret and the epochs that leaked it.
THEOREM ReferencesAreExact == Spec => []RefsCounted
<1>1. RegionInv => RefsCounted
  BY DEF RegionInv
<1> QED
  BY <1>1, RegionInvariant, PTL

\* The table holds live, valid regions of the page they are found under, and such
\* a page is marked as code, so a write to it is noticed.
THEOREM TableHoldsCurrentRegions == Spec => []TableIsCurrent
<1>1. RegionInv => TableIsCurrent
  BY TableIsAlive DEF RegionInv, TableOK, TableIsCurrent
<1> QED
  BY <1>1, RegionInvariant, PTL

\* A valid region awaits at most one translation and is not dispatched again
\* meanwhile.
THEOREM OneTranslationInFlight == Spec => []OneInFlight
<1>1. RegionInv => OneInFlight
  BY DEF RegionInv, FlightOK, OneInFlight, Coming
<1> QED
  BY <1>1, RegionInvariant, PTL

\* A valid region never has a translation of code that has changed since.
THEOREM InstalledCodeIsFresh == Spec => []InstalledIsFresh
<1>1. ASSUME RegionInv, NEW r \in Regions, rgn[r].valid, rgn[r].txln # None
      PROVE unit[rgn[r].txln].version = version[rgn[r].page]
  <2>1. rgn[r].txln \in Units
    BY <1>1 DEF RegionInv, TypeOK, Objects, Region
  <2>2. unit[rgn[r].txln].region = r /\ Built(rgn[r].txln)
    BY <1>1 DEF RegionInv, UnitsOK, Over, Built
  <2> QED
    BY <1>1, <2>1, <2>2 DEF RegionInv, FreshOK, Valid
<1>2. RegionInv => InstalledIsFresh
  BY <1>1 DEF InstalledIsFresh
<1> QED
  BY <1>2, RegionInvariant, PTL

\* No translation that a live region still has is handed to the collector.
THEOREM StaleTranslationsAreUnused == Spec => []StaleIsUnused
<1>1. RegionInv => StaleIsUnused
  BY DEF RegionInv
<1> QED
  BY <1>1, RegionInvariant, PTL
=============================================================================
