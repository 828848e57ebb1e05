---------------------------- MODULE MCPanelSeats ----------------------------
(***************************************************************************)
(* A small instance of PanelSeats for TLC.                                 *)
(***************************************************************************)
EXTENDS PanelSeats, TLC

CONSTANTS h1, h2

ThreeAdmins == 1..3
TwoPlans == {"BASIC", "PREMIUM"}
TwoHandlers == {h1, h2}

HandlerSymmetry == Permutations(Handlers)
=============================================================================
