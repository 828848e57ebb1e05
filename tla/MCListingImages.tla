--------------------------- MODULE MCListingImages ---------------------------
(***************************************************************************)
(* Small instances of ListingImages for TLC.                               *)
(***************************************************************************)
EXTENDS ListingImages, TLC

CONSTANTS h1, h2, k1, k2, k3, k4

OneHandler == {h1}
TwoHandlers == {h1, h2}
ThreeKeys == {k1, k2, k3}
FourKeys == {k1, k2, k3, k4}

OneItem == {"shirt"}
OneTable == [i \in OneItem |-> "storeProduct"]
StoreAndMarket == {"shirt", "book"}
StoreAndMarketTables ==
    [i \in StoreAndMarket |-> IF i = "shirt" THEN "storeProduct" ELSE "product"]

RaceOps == {"release", "webDrop", "cover"}

Symmetry == Permutations(Handlers) \cup Permutations(Keys)
=============================================================================
