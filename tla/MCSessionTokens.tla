--------------------------- MODULE MCSessionTokens ---------------------------
(***************************************************************************)
(* Small instances of SessionTokens for TLC.                               *)
(***************************************************************************)
EXTENDS SessionTokens, TLC

CONSTANTS h1, h2

TheSellers == {"s"}
NoSellers == {}
TheAdmins == {"a"}
NoAdmins == {}
TheRoles == {"OWNER", "STAFF"}
OneRole == {"OWNER"}
TheBusinessRoles == {"OWNER"}
NoRoles == {}
TwoHandlers == {h1, h2}
OneHandler == {h1}

HandlerSymmetry == Permutations(TwoHandlers)
=============================================================================
