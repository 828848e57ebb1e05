---------------------------- MODULE LockoutPolicy ----------------------------
(***************************************************************************)
(* The lockout of a seller account as its comments describe it: every      *)
(* wrong password counts, the threshold locks the account for a while, and *)
(* only a sign-in clears the counter and the lock.                         *)
(***************************************************************************)
EXTENDS Integers

CONSTANTS MaxAttempts, Lockout

VARIABLES attempts, lock

Null == -1

Init == attempts = 0 /\ lock = Null

Unlocked == lock <= 0

WrongPassword ==
    /\ Unlocked
    /\ attempts' = attempts + 1
    /\ lock' \in IF attempts' >= MaxAttempts THEN 0..Lockout ELSE {Null}

SignIn ==
    /\ Unlocked
    /\ attempts' = 0
    /\ lock' = Null

Tick ==
    /\ lock > 0
    /\ lock' = lock - 1
    /\ UNCHANGED attempts

Next == WrongPassword \/ SignIn \/ Tick

Spec == Init /\ [][Next]_<<attempts, lock>>
=============================================================================
