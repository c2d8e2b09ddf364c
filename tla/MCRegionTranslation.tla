------------------------- MODULE MCRegionTranslation -------------------------
(* Two pages, a few regions and work units, as model values. *)
EXTENDS RegionTranslation, TLC

CONSTANTS p1, p2, r1, r2, r3, u1, u2

TwoPages == {p1, p2}
OnePage == {p1}
ThreeRegions == {r1, r2, r3}
TwoUnits == {u1, u2}

EveryGuest == {"user", "system", "faulting"}
User == {"user"}
System == {"system"}

\* Each page has its own entry of the direct-mapped caches, or both share one.
\* A guest whose fetches may fault executes one page.
TwoSlots == {1, 2}
Own == (p1 :> 1) @@ (p2 :> 2)
Shared == (p1 :> 1) @@ (p2 :> 1)
Single == p1 :> 1
EachGuest == [user |-> Own, system |-> Shared, faulting |-> Single]
OwnSystem == [system |-> Own]
OwnUser == [user |-> Own]

\* Region objects and work units are interchangeable.
Interchangeable == Permutations(ThreeRegions) \cup Permutations(TwoUnits)
=============================================================================
