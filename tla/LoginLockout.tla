---------------------------- MODULE LoginLockout ----------------------------
(***************************************************************************)
(* The credential part of AuthService.login: the failed-attempt counter    *)
(* and the timed lock of one seller's row.                                 *)
(*                                                                         *)
(* login reads the row, compares the password, and writes the row back     *)
(* from what it read, with an await between each of these.  Several        *)
(* sign-ins for one account may be under way at the same time, so the row  *)
(* a handler writes from may be out of date when it writes.  An account    *)
(* that does not exist answers without touching anything and is left out.  *)
(*                                                                         *)
(* Times are relative: a lock is the time it has left, so the clock needs  *)
(* no bound.  The counter has none in the code; CountBound ends the        *)
(* sign-ins that the model looks at.                                       *)
(***************************************************************************)
EXTENDS Integers, FiniteSets

CONSTANTS
    Handlers,     \* sign-ins in flight at one time (bound)
    MaxAttempts,  \* MAX_LOGIN_ATTEMPTS
    Lockout,      \* LOCKOUT_MS, in ticks of the clock
    CountBound,   \* bound: the counter past which nobody signs in
    Faults        \* whether awaits may fail and the process may stop

ASSUME LimitsArePositive == MaxAttempts \in Nat \ {0} /\ Lockout \in Nat \ {0}
ASSUME CountBoundIsNat == CountBound \in Nat
ASSUME FaultsIsBoolean == Faults \in BOOLEAN

VARIABLES
    attempts,  \* Seller.loginAttempts
    lock,      \* Seller.lockedUntil: Null, or the time left (0: expired)
    login,     \* the sign-in each handler is serving
    failures,  \* history: wrong passwords compared, up to MaxAttempts
    guesses,   \* history: wrong passwords that were registered since a lock
               \* last ran out or a sign-in cleared the counter
    orderly    \* history: no two sign-ins were ever under way at once

vars == <<attempts, lock, login, failures, guesses, orderly>>

Null == -1
Lock == {Null} \cup 0..Lockout

Steps == {"idle", "compare", "count", "clear", "stamp"}

\* What a handler keeps of the row it read, and the lock it is to write.
SignInState == [step : Steps, attempts : Nat, dirty : BOOLEAN, until : Lock]

Idle == [step |-> "idle", attempts |-> 0, dirty |-> FALSE, until |-> Null]

TypeOK ==
    /\ attempts \in Nat
    /\ lock \in Lock
    /\ login \in [Handlers -> SignInState]
    /\ failures \in 0..MaxAttempts
    /\ guesses \in Nat
    /\ orderly \in BOOLEAN

Init ==
    /\ attempts = 0
    /\ lock = Null
    /\ login = [h \in Handlers |-> Idle]
    /\ failures = 0
    /\ guesses = 0
    /\ orderly = TRUE

\* registerFailedLogin: one attempt more than the row said.
OneMore(n) == n + 1

\* Mutants of LockFor: locks one attempt early; locks one attempt late; takes
\* the length for seconds and writes it in milliseconds.
LockForEarly(n) == IF n >= MaxAttempts - 1 THEN Lockout ELSE Null
LockForLate(n) == IF n > MaxAttempts THEN Lockout ELSE Null
LockForThousand(n) == IF n >= MaxAttempts THEN 1000 * Lockout ELSE Null

\* The lock a counter deserves.
LockFor(n) == IF n >= MaxAttempts THEN Lockout ELSE Null

OneLess(t) == IF t > 0 THEN t - 1 ELSE t

At(h, s) == login[h].step = s
Answer(h) == login' = [login EXCEPT ![h] = Idle]

-----------------------------------------------------------------------------

\* What a handler keeps of a row that is not locked.
TakeUp(h) ==
    /\ attempts < CountBound
    /\ login' = [login EXCEPT ![h] =
                   [step |-> "compare", attempts |-> attempts,
                    dirty |-> attempts # 0 \/ lock # Null, until |-> Null]]
    /\ orderly' = (orderly /\ \A k \in Handlers : At(k, "idle"))
    /\ UNCHANGED <<attempts, lock, failures, guesses>>

\* Mutants of Read: the lock is not looked at; an attempt on a locked account
\* prolongs the lock.
ReadAnyway(h) == At(h, "idle") /\ TakeUp(h)
ReadProlongs(h) ==
    /\ At(h, "idle")
    /\ \/ lock <= 0 /\ TakeUp(h)
       \/ lock > 0 /\ lock' = Lockout
          /\ UNCHANGED <<attempts, login, failures, guesses, orderly>>

\* findUnique: a row whose lock is still in force refuses at once, which
\* changes nothing; otherwise the handler goes on with what it read.
Read(h) ==
    /\ At(h, "idle")
    /\ lock <= 0
    /\ TakeUp(h)

\* The password is wrong: registerFailedLogin computes the new counter from
\* the one that was read, and the deadline from the time of this call.
CompareWrong(h) ==
    /\ At(h, "compare")
    /\ failures' = IF failures < MaxAttempts THEN failures + 1 ELSE failures
    /\ LET n == OneMore(login[h].attempts) IN
       login' = [login EXCEPT
                   ![h] = [step |-> "count", attempts |-> n, dirty |-> FALSE,
                           until |-> LockFor(n)]]
    /\ UNCHANGED <<attempts, lock, guesses, orderly>>

\* The password is right.  A business that is not approved is refused with the
\* counter as it was; the others write the counter only if they read one.
CompareRight(h) ==
    /\ At(h, "compare")
    /\ \/ Answer(h)
       \/ login' = [login EXCEPT ![h] =
                      [Idle EXCEPT !.step =
                         IF login[h].dirty THEN "clear" ELSE "stamp"]]
    /\ UNCHANGED <<attempts, lock, failures, guesses, orderly>>

\* The update of registerFailedLogin.
RegisterFailedLogin(h) ==
    /\ At(h, "count")
    /\ attempts' = login[h].attempts
    /\ lock' = login[h].until
    /\ guesses' = IF login[h].until = 0 THEN 0 ELSE guesses + 1
    /\ Answer(h)
    /\ UNCHANGED <<failures, orderly>>

\* The update of a sign-in that read a counter or a lock.
Clear(h) ==
    /\ At(h, "clear")
    /\ attempts' = 0
    /\ lock' = Null
    /\ guesses' = 0
    /\ Answer(h)
    /\ UNCHANGED <<failures, orderly>>

\* The update of a sign-in that read neither: lastLoginAt alone.
Stamp(h) ==
    /\ At(h, "stamp")
    /\ Answer(h)
    /\ UNCHANGED <<attempts, lock, failures, guesses, orderly>>

\* An await rejects: the request ends with an error and nothing was written.
AwaitFails(h) ==
    /\ Faults
    /\ ~At(h, "idle")
    /\ Answer(h)
    /\ UNCHANGED <<attempts, lock, failures, guesses, orderly>>

\* The process stops and starts again: the sign-ins in flight are gone.
Crash ==
    /\ Faults
    /\ \E h \in Handlers : ~At(h, "idle")
    /\ login' = [h \in Handlers |-> Idle]
    /\ UNCHANGED <<attempts, lock, failures, guesses, orderly>>

\* Time passes for the row and for the deadlines that are on their way to it.
Tick ==
    /\ lock' = OneLess(lock)
    /\ login' = [h \in Handlers |->
                   [login[h] EXCEPT !.until = OneLess(@)]]
    /\ guesses' = IF lock = 1 THEN 0 ELSE guesses
    /\ UNCHANGED <<attempts, failures, orderly>>

Proceed(h) ==
    \/ CompareWrong(h) \/ CompareRight(h)
    \/ RegisterFailedLogin(h) \/ Clear(h) \/ Stamp(h)

Step(h) == Proceed(h) \/ AwaitFails(h)

Next ==
    \/ \E h \in Handlers : Read(h) \/ Step(h)
    \/ Crash
    \/ Tick

Spec == Init /\ [][Next]_vars

\* Awaits settle and the event loop resumes every handler; time passes.
FairSpec == Spec /\ WF_vars(Tick) /\ \A h \in Handlers : WF_vars(Proceed(h))

-----------------------------------------------------------------------------
(* Properties. *)

\* An account is never locked, nor is a lock about to be written, before
\* MaxAttempts wrong passwords were given for it, however the sign-ins
\* interleave and whatever they write from.
LockIsEarned ==
    /\ attempts <= failures \/ failures = MaxAttempts
    /\ lock # Null => failures = MaxAttempts
    /\ \A h \in Handlers : login[h].until # Null => failures = MaxAttempts

\* "locks the account once the threshold is hit": between two locks that ran
\* out an account takes only so many wrong passwords, although sign-ins that
\* overlap lose each other's increments, put the counter back to what they read
\* and lift a lock that is in force.  It is MaxAttempts where they come one at a
\* time; n of them at once stretch it to the binomial coefficient of
\* MaxAttempts + n over n, less one, and no further.
Budget ==
    LET choose[n \in Nat] ==
          IF n = 0 THEN 1 ELSE (choose[n - 1] * (MaxAttempts + n)) \div n
    IN  choose[Cardinality(Handlers)] - 1
GuessesAreBounded == guesses <= Budget

\* The lock is "a timed lock": whatever sign-ins are in flight when it is
\* applied, and however many try again, the account is unlocked again and
\* again, with no operator to clear it.
NeverLockedForGood == []<>(lock <= 0)

\* The counter "is cleared on the next successful sign-in", which clears "any
\* expired lock", and the threshold applies "a timed lock": as long as sign-ins
\* come one at a time, the counter and the lock do exactly what the policy says,
\* failures and restarts included.  (Sign-ins that overlap write from rows that
\* are out of date: they may lower the counter, or lift a lock in force.)
Policy == INSTANCE LockoutPolicy
KeepsPolicy ==
    /\ Policy!Init
    /\ [][orderly' => Policy!Next]_<<attempts, lock>>
=============================================================================
