--------------------------- MODULE MCLoginLockout ---------------------------
(***************************************************************************)
(* A small instance of LoginLockout for TLC: two sign-ins for one account. *)
(***************************************************************************)
EXTENDS LoginLockout

CONSTANTS h1, h2

TwoHandlers == {h1, h2}
=============================================================================
