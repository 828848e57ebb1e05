------------------------- MODULE MCFederatedRequests -------------------------
(***************************************************************************)
(* A small instance of FederatedRequests for TLC.                          *)
(***************************************************************************)
EXTENDS FederatedRequests, TLC

CONSTANTS h1, h2, r1, r2

TheSellers == {"s"}
TheAdmins == {"a"}
TheScopes == {"OWNER", "STAFF"}
TheAddresses == {"ip"}
SomeFailures == {"UNAUTHORIZED", NoCode}
TwoRefs == {r1, r2}
TwoHandlers == {h1, h2}

Symmetry == Permutations(Handlers) \cup Permutations(Refs)
=============================================================================
