------------------------ MODULE MCThrottlerFallback ------------------------
(***************************************************************************)
(* A small instance of ThrottlerFallback for TLC.                          *)
(***************************************************************************)
EXTENDS ThrottlerFallback

CONSTANTS h1, h2, h3

ThreeHandlers == {h1, h2, h3}
=============================================================================
