----------------------- MODULE MCTranslationWorkQueue -----------------------
(* Two workers and a handful of units, as model values. *)
EXTENDS TranslationWorkQueue

CONSTANTS w1, w2, u1, u2, u3

TwoWorkers == {w1, w2}
ThreeUnits == {u1, u2, u3}
=============================================================================
