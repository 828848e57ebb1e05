--------------------------- MODULE MCImageReplace ---------------------------
(***************************************************************************)
(* Small instances of ImageReplace for TLC.                                *)
(***************************************************************************)
EXTENDS ImageReplace, TLC

CONSTANTS h1, h2, h3, k1, k2, k3, k4, k5

OneHandler == {h1}
TwoHandlers == {h1, h2}
ThreeHandlers == {h1, h2, h3}
FourKeys == {k1, k2, k3, k4}
FiveKeys == {k1, k2, k3, k4, k5}

Symmetry == Permutations(Handlers) \cup Permutations(Keys)
=============================================================================
