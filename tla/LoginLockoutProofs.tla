--------------------------- MODULE LoginLockoutProofs ---------------------------
(***************************************************************************)
(* Proofs about LoginLockout, for any number of sign-ins at once, any      *)
(* threshold and any length of the lock: no account is locked before its   *)
(* threshold of wrong passwords, although the counter is written back from *)
(* reads that may be out of date.                                          *)
(***************************************************************************)
EXTENDS LoginLockout, TLAPS

\* A count of failures that were really seen, as far as they are remembered.
Earned(n) == n <= failures \/ failures = MaxAttempts

\* What a handler read or is about to write is such a count.
ReadsAreEarned == \A h \in Handlers : Earned(login[h].attempts)

IInv == TypeOK /\ LockIsEarned /\ ReadsAreEarned

-----------------------------------------------------------------------------

LEMMA IdleFacts ==
  Idle \in SignInState /\ Idle.attempts = 0 /\ Idle.until = Null /\ Idle.step = "idle"
  BY LimitsArePositive DEF Idle, SignInState, Steps, Lock, Null

\* One failure more keeps an earned count earned, and earns the next one.
LEMMA OneMoreFacts ==
  ASSUME NEW n \in Nat, failures \in 0..MaxAttempts, Earned(n),
         failures' = IF failures < MaxAttempts THEN failures + 1 ELSE failures
  PROVE  /\ OneMore(n) \in Nat /\ failures' \in 0..MaxAttempts
         /\ Earned(n)' /\ Earned(OneMore(n))'
         /\ failures = MaxAttempts => failures' = MaxAttempts
  BY LimitsArePositive DEF OneMore, Earned

\* A lock is given from the last attempt on.
LEMMA LockForFacts ==
  ASSUME NEW n \in Nat
  PROVE  LockFor(n) \in Lock /\ (LockFor(n) # Null => n >= MaxAttempts)
  BY LimitsArePositive DEF LockFor, Lock, Null

LEMMA OneLessFacts ==
  ASSUME NEW t \in Lock
  PROVE  OneLess(t) \in Lock /\ (OneLess(t) # Null => t # Null)
  BY LimitsArePositive DEF OneLess, Lock, Null

\* A step of one handler that sees no failure: it is enough that what it holds
\* and what it wrote are earned.
LEMMA MoveKeeps ==
  ASSUME IInv, NEW h \in Handlers, NEW r \in SignInState,
         login' = [login EXCEPT ![h] = r], UNCHANGED failures, orderly' \in BOOLEAN,
         guesses' \in Nat, Earned(r.attempts), r.until # Null => failures = MaxAttempts,
         attempts' \in Nat, Earned(attempts'),
         lock' \in Lock, lock' # Null => failures = MaxAttempts
  PROVE  IInv'
  <1>1. TypeOK'
    BY DEF IInv, TypeOK
  <1>2. login'[h] = r /\ \A k \in Handlers \ {h} : login'[k] = login[k]
    BY DEF IInv, TypeOK
  <1>3. LockIsEarned'
    BY <1>2 DEF IInv, LockIsEarned, Earned
  <1>4. ReadsAreEarned'
    BY <1>2 DEF IInv, ReadsAreEarned, Earned
  <1> QED
    BY <1>1, <1>3, <1>4 DEF IInv

LEMMA AnswerKeeps ==
  ASSUME IInv, NEW h \in Handlers, Answer(h), UNCHANGED <<failures, orderly>>,
         guesses' \in Nat,
         attempts' \in Nat, Earned(attempts'),
         lock' \in Lock, lock' # Null => failures = MaxAttempts
  PROVE  IInv'
  <1>1. Earned(Idle.attempts) /\ orderly' \in BOOLEAN /\ UNCHANGED failures
    BY IdleFacts DEF IInv, TypeOK, Earned
  <1> QED
    BY <1>1, IdleFacts, MoveKeeps DEF Answer

LEMMA ReadKeeps ==
  ASSUME IInv, NEW h \in Handlers, Read(h)
  PROVE  IInv'
  <1> DEFINE r == [step |-> "compare", attempts |-> attempts,
                   dirty |-> attempts # 0 \/ lock # Null, until |-> Null]
  <1>1. /\ r \in SignInState /\ Earned(r.attempts) /\ r.until = Null
        /\ attempts \in Nat /\ Earned(attempts)
        /\ lock \in Lock /\ (lock # Null => failures = MaxAttempts)
    BY DEF IInv, TypeOK, LockIsEarned, Earned, SignInState, Steps, Lock, Null
  <1>2. login' = [login EXCEPT ![h] = r] /\ UNCHANGED <<attempts, lock, failures, guesses>>
    BY DEF Read, TakeUp
  <1>3. /\ UNCHANGED failures /\ attempts' = attempts /\ lock' = lock
        /\ orderly' \in BOOLEAN /\ guesses' \in Nat
    BY <1>2 DEF Read, TakeUp, IInv, TypeOK
  <1> HIDE DEF r
  <1> QED
    BY <1>1, <1>2, <1>3, MoveKeeps

\* The new counter is one more than one that was read, so no more than one
\* more failure.
LEMMA CompareWrongKeeps ==
  ASSUME IInv, NEW h \in Handlers, CompareWrong(h)
  PROVE  IInv'
  <1> DEFINE n == OneMore(login[h].attempts)
             r == [step |-> "count", attempts |-> n, dirty |-> FALSE,
                   until |-> LockFor(n)]
  <1>1. /\ login \in [Handlers -> SignInState] /\ login[h].attempts \in Nat
        /\ failures \in 0..MaxAttempts /\ Earned(login[h].attempts)
        /\ attempts \in Nat /\ Earned(attempts) /\ lock \in Lock
        /\ guesses \in Nat /\ orderly \in BOOLEAN
    BY DEF IInv, TypeOK, LockIsEarned, ReadsAreEarned, SignInState, Earned
  <1>2. /\ failures' = IF failures < MaxAttempts THEN failures + 1 ELSE failures
        /\ login' = [login EXCEPT ![h] = r]
        /\ UNCHANGED <<attempts, lock, guesses, orderly>>
    BY DEF CompareWrong
  <1>3. /\ n \in Nat /\ failures' \in 0..MaxAttempts
        /\ n <= failures' \/ failures' = MaxAttempts
        /\ failures = MaxAttempts => failures' = MaxAttempts
    BY <1>1, <1>2, OneMoreFacts DEF Earned, OneMore
  <1>4. LockFor(n) \in Lock /\ (LockFor(n) # Null => n >= MaxAttempts)
    BY <1>3, LockForFacts
  <1>5. r \in SignInState /\ r.attempts = n /\ r.until = LockFor(n)
    BY <1>3, <1>4 DEF SignInState, Steps
  <1>6. login'[h] = r /\ \A k \in Handlers \ {h} : login'[k] = login[k]
    BY <1>1, <1>2
  <1> HIDE DEF r, n
  <1>7. TypeOK'
    BY <1>1, <1>2, <1>3, <1>5 DEF TypeOK
  <1>8. n >= MaxAttempts => failures' = MaxAttempts
    BY <1>3, LimitsArePositive
  <1>9. ReadsAreEarned'
    <2> SUFFICES ASSUME NEW k \in Handlers
                 PROVE  login'[k].attempts <= failures' \/ failures' = MaxAttempts
      BY DEF ReadsAreEarned, Earned
    <2>1. CASE k = h
      BY <1>3, <1>5, <1>6, <2>1
    <2>2. CASE k # h
      <3>1. login[k].attempts \in Nat /\ Earned(login[k].attempts)
        BY DEF IInv, TypeOK, ReadsAreEarned, SignInState
      <3>2. login'[k].attempts = login[k].attempts
        BY <1>6, <2>2
      <3> QED
        BY <1>1, <1>2, <3>1, <3>2 DEF Earned
    <2> QED
      BY <2>1, <2>2
  <1>10. LockIsEarned'
    <2>1. attempts' <= failures' \/ failures' = MaxAttempts
      BY <1>1, <1>2 DEF Earned
    <2>2. lock' # Null => failures' = MaxAttempts
      BY <1>2, <1>3 DEF IInv, LockIsEarned
    <2>3. \A k \in Handlers : login'[k].until # Null => failures' = MaxAttempts
      BY <1>3, <1>4, <1>5, <1>6, <1>8 DEF IInv, LockIsEarned
    <2> QED
      BY <2>1, <2>2, <2>3 DEF LockIsEarned
  <1> QED
    BY <1>7, <1>9, <1>10 DEF IInv

LEMMA CompareRightKeeps ==
  ASSUME IInv, NEW h \in Handlers, CompareRight(h)
  PROVE  IInv'
  <1>1. /\ attempts \in Nat /\ Earned(attempts) /\ lock \in Lock
        /\ (lock # Null => failures = MaxAttempts)
        /\ UNCHANGED <<attempts, lock, failures, guesses, orderly>>
        /\ failures \in Nat /\ guesses' \in Nat /\ orderly' \in BOOLEAN
    BY LimitsArePositive DEF CompareRight, IInv, TypeOK, LockIsEarned, Earned
  <1>2. CASE Answer(h)
    BY <1>1, <1>2, AnswerKeeps
  <1>3. CASE ~Answer(h)
    <2> DEFINE s == IF login[h].dirty THEN "clear" ELSE "stamp"
               r == [Idle EXCEPT !.step = s]
    <2>1. s \in Steps
      BY DEF Steps
    <2>2. r \in SignInState /\ r.attempts = 0 /\ r.until = Null
      BY <2>1, IdleFacts DEF Idle, SignInState
    <2>3. login' = [login EXCEPT ![h] = r]
      BY <1>3 DEF CompareRight
    <2>4. Earned(r.attempts)
      BY <1>1, <2>2 DEF Earned
    <2> HIDE DEF r
    <2> QED
      BY <1>1, <2>2, <2>3, <2>4, MoveKeeps
  <1> QED
    BY <1>2, <1>3

LEMMA WriteKeeps ==
  ASSUME IInv, NEW h \in Handlers,
         RegisterFailedLogin(h) \/ Clear(h) \/ Stamp(h) \/ AwaitFails(h)
  PROVE  IInv'
  <1>1. Answer(h) /\ UNCHANGED <<failures, orderly>> /\ guesses' \in Nat
    BY DEF RegisterFailedLogin, Clear, Stamp, AwaitFails, IInv, TypeOK
  <1>2. /\ login[h] \in SignInState /\ Earned(login[h].attempts)
        /\ login[h].until # Null => failures = MaxAttempts
        /\ attempts \in Nat /\ Earned(attempts) /\ lock \in Lock
        /\ (lock # Null => failures = MaxAttempts) /\ failures \in 0..MaxAttempts
    BY DEF IInv, TypeOK, LockIsEarned, ReadsAreEarned, Earned
  <1>3. attempts' \in Nat /\ Earned(attempts')
    BY <1>2, LimitsArePositive
       DEF RegisterFailedLogin, Clear, Stamp, AwaitFails, SignInState, Earned
  <1>4. lock' \in Lock /\ (lock' # Null => failures = MaxAttempts)
    BY <1>2 DEF RegisterFailedLogin, Clear, Stamp, AwaitFails, SignInState, Lock
  <1> QED
    BY <1>1, <1>3, <1>4, AnswerKeeps

LEMMA CrashKeeps ==
  ASSUME IInv, Crash
  PROVE  IInv'
  <1>1. (\A h \in Handlers : login'[h] = Idle) 
        /\ UNCHANGED <<attempts, lock, failures, guesses, orderly>>
        /\ login' \in [Handlers -> SignInState]
    BY IdleFacts DEF Crash
  <1>2. 0 <= failures
    BY DEF IInv, TypeOK
  <1> QED
    BY <1>1, <1>2, IdleFacts DEF IInv, TypeOK, LockIsEarned, ReadsAreEarned, Earned

LEMMA TickKeeps ==
  ASSUME IInv, Tick
  PROVE  IInv'
  <1>1. /\ lock' = OneLess(lock) /\ UNCHANGED <<attempts, failures, orderly>>
        /\ login' = [h \in Handlers |-> [login[h] EXCEPT !.until = OneLess(@)]]
        /\ guesses' \in Nat
    BY DEF Tick, IInv, TypeOK
  <1>2. lock' \in Lock /\ (lock' # Null => lock # Null)
    BY <1>1, OneLessFacts DEF IInv, TypeOK
  <1>3. ASSUME NEW h \in Handlers
        PROVE  /\ login'[h] \in SignInState
               /\ login'[h].attempts = login[h].attempts
               /\ login'[h].until # Null => login[h].until # Null
    <2>1. login[h] \in SignInState /\ login[h].until \in Lock
      BY DEF IInv, TypeOK, SignInState
    <2>2. OneLess(login[h].until) \in Lock
          /\ (OneLess(login[h].until) # Null => login[h].until # Null)
      BY <2>1, OneLessFacts
    <2>3. login'[h] = [login[h] EXCEPT !.until = OneLess(login[h].until)]
      BY <1>1
    <2> QED
      BY <2>1, <2>2, <2>3 DEF SignInState
  <1>4. TypeOK'
    <2>1. login' \in [Handlers -> SignInState]
      BY <1>1, <1>3
    <2> QED
      BY <1>1, <1>2, <2>1 DEF IInv, TypeOK
  <1>5. LockIsEarned' /\ ReadsAreEarned'
    BY <1>1, <1>2, <1>3 DEF IInv, LockIsEarned, ReadsAreEarned, Earned
  <1> QED
    BY <1>4, <1>5 DEF IInv

LEMMA NextKeeps ==
  ASSUME IInv, [Next]_vars
  PROVE  IInv'
  <1>1. ASSUME UNCHANGED vars PROVE IInv'
    BY <1>1 DEF vars, IInv, TypeOK, LockIsEarned, ReadsAreEarned, Earned
  <1>2. ASSUME NEW h \in Handlers, Step(h) PROVE IInv'
    BY <1>2, CompareWrongKeeps, CompareRightKeeps, WriteKeeps DEF Step, Proceed
  <1> QED
    BY <1>1, <1>2, ReadKeeps, CrashKeeps, TickKeeps DEF Next

LEMMA InitIInv == Init => IInv
  BY IdleFacts, LimitsArePositive
     DEF Init, IInv, TypeOK, LockIsEarned, ReadsAreEarned, Earned, Lock

-----------------------------------------------------------------------------
(* The theorems. *)

THEOREM Invariance == Spec => []IInv
  <1>1. IInv /\ [Next]_vars => IInv'
    BY NextKeeps
  <1> QED
    BY InitIInv, <1>1, PTL DEF Spec

\* The counter is a count, of any size, and no lock is longer than Lockout,
\* whatever sign-ins wrote it.
THEOREM TypeCorrect == Spec => []TypeOK
  <1>1. IInv => TypeOK
    BY DEF IInv
  <1> QED
    BY <1>1, Invariance, PTL

\* No account is locked, or about to be, before MaxAttempts wrong passwords.
THEOREM LocksAreEarned == Spec => []LockIsEarned
  <1>1. IInv => LockIsEarned
    BY DEF IInv
  <1> QED
    BY <1>1, Invariance, PTL

-----------------------------------------------------------------------------
(* One sign-in at a time implements the policy.                             *)

Busy(h) == login[h].step # "idle"

\* While sign-ins are orderly, the one under way is the only one, and the row
\* is still as it read it.
Alone == \A h, k \in Handlers : Busy(h) /\ Busy(k) => h = k

ReadsAreCurrent ==
    \A h \in Handlers :
        /\ login[h].step \in {"compare", "count", "clear"} => lock <= 0
        /\ login[h].step = "compare" => login[h].attempts = attempts
        /\ login[h].step = "count" =>
             /\ login[h].attempts = OneMore(attempts)
             /\ login[h].until \in
                  IF login[h].attempts >= MaxAttempts THEN 0..Lockout ELSE {Null}

OInv == orderly => Alone /\ ReadsAreCurrent

LEMMA InitOInv == Init => OInv
  BY IdleFacts DEF Init, OInv, Alone, ReadsAreCurrent, Busy

\* A step that leaves the row alone and the other handlers as they were.
LEMMA HandlerMoves ==
  ASSUME IInv, OInv, NEW h \in Handlers, NEW r \in SignInState, orderly, orderly',
         login' = [login EXCEPT ![h] = r],
         Busy(h) \/ (\A k \in Handlers : ~Busy(k)),
         r.step \in {"compare", "count", "clear"} => lock' <= 0,
         r.step = "compare" => r.attempts = attempts',
         r.step = "count" =>
           /\ r.attempts = OneMore(attempts')
           /\ r.until \in IF r.attempts >= MaxAttempts THEN 0..Lockout ELSE {Null}
  PROVE  OInv'
  <1>1. login'[h] = r /\ \A k \in Handlers \ {h} : login'[k] = login[k]
    BY DEF IInv, TypeOK
  <1>2. \A k \in Handlers \ {h} : login[k].step = "idle"
    BY DEF OInv, Alone, Busy
  <1>3. Alone'
    BY <1>1, <1>2 DEF Alone, Busy
  <1>4. ReadsAreCurrent'
    BY <1>1, <1>2 DEF ReadsAreCurrent
  <1> QED
    BY <1>3, <1>4 DEF OInv

LEMMA AnswerKeepsOrder ==
  ASSUME IInv, OInv, NEW h \in Handlers, Answer(h), Busy(h), UNCHANGED orderly
  PROVE  OInv'
  <1>1. CASE orderly
    BY <1>1, IdleFacts, HandlerMoves DEF Answer
  <1>2. CASE ~orderly
    BY <1>2 DEF OInv
  <1> QED
    BY <1>1, <1>2

LEMMA ReadKeepsOrder ==
  ASSUME IInv, OInv, NEW h \in Handlers, Read(h)
  PROVE  OInv'
  <1> DEFINE r == [step |-> "compare", attempts |-> attempts,
                   dirty |-> attempts # 0 \/ lock # Null, until |-> Null]
  <1>1. /\ r \in SignInState /\ r.attempts = attempts /\ r.step = "compare"
        /\ attempts' = attempts /\ lock' = lock /\ lock <= 0
        /\ login' = [login EXCEPT ![h] = r]
    BY DEF Read, TakeUp, IInv, TypeOK, SignInState, Steps, Lock
  <1>2. orderly' => orderly /\ \A k \in Handlers : ~Busy(k)
    BY DEF Read, TakeUp, At, Busy
  <1> HIDE DEF r
  <1>3. CASE orderly'
    BY <1>1, <1>2, <1>3, HandlerMoves
  <1>4. CASE ~orderly'
    BY <1>4 DEF OInv
  <1> QED
    BY <1>3, <1>4

LEMMA CompareKeepsOrder ==
  ASSUME IInv, OInv, NEW h \in Handlers, CompareWrong(h) \/ CompareRight(h)
  PROVE  OInv'
  <1>1. /\ login[h].step = "compare" /\ Busy(h) /\ login[h] \in SignInState
        /\ login[h].attempts \in Nat /\ orderly' = orderly
        /\ attempts' = attempts /\ lock' = lock
    BY DEF CompareWrong, CompareRight, At, Busy, IInv, TypeOK, SignInState
  <1>2. CASE ~orderly
    BY <1>1, <1>2 DEF OInv
  <1>3. CASE orderly /\ CompareWrong(h)
    <2> DEFINE n == OneMore(login[h].attempts)
               r == [step |-> "count", attempts |-> n, dirty |-> FALSE,
                     until |-> LockFor(n)]
    <2>1. n \in Nat /\ n = OneMore(attempts) /\ lock <= 0
      BY <1>1, <1>3 DEF OInv, ReadsAreCurrent, OneMore
    <2>2. LockFor(n) \in IF n >= MaxAttempts THEN 0..Lockout ELSE {Null}
      BY <2>1, LimitsArePositive DEF LockFor, Null
    <2>3. r \in SignInState /\ r.step = "count" /\ r.attempts = n /\ r.until = LockFor(n)
      BY <2>1, LockForFacts DEF SignInState, Steps
    <2>4. login' = [login EXCEPT ![h] = r]
      BY <1>3 DEF CompareWrong
    <2> HIDE DEF r, n
    <2> QED
      BY <1>1, <1>3, <2>1, <2>2, <2>3, <2>4, HandlerMoves
  <1>4. CASE orderly /\ CompareRight(h) /\ ~Answer(h)
    <2> DEFINE s == IF login[h].dirty THEN "clear" ELSE "stamp"
               r == [Idle EXCEPT !.step = s]
    <2>1. s \in {"clear", "stamp"}
      OBVIOUS
    <2>2. r \in SignInState /\ r.step = s
      BY <2>1, IdleFacts DEF Idle, SignInState, Steps
    <2>3. login' = [login EXCEPT ![h] = r]
      BY <1>4 DEF CompareRight
    <2>4. lock <= 0
      BY <1>1, <1>4 DEF OInv, ReadsAreCurrent
    <2> HIDE DEF r, s
    <2> QED
      BY <1>1, <1>4, <2>1, <2>2, <2>3, <2>4, HandlerMoves
  <1>5. CASE Answer(h)
    BY <1>1, <1>5, AnswerKeepsOrder
  <1> QED
    BY <1>2, <1>3, <1>4, <1>5

LEMMA TickKeepsOrder ==
  ASSUME IInv, OInv, Tick
  PROVE  OInv'
  <1>1. /\ lock' = OneLess(lock) /\ UNCHANGED <<attempts, failures, orderly>>
        /\ \A h \in Handlers :
             login'[h] = [login[h] EXCEPT !.until = OneLess(login[h].until)]
    BY DEF Tick
  <1>2. lock <= 0 => lock' <= 0
    BY <1>1, LimitsArePositive DEF IInv, TypeOK, Lock, Null, OneLess
  <1>3. ASSUME NEW h \in Handlers
        PROVE  /\ login'[h].step = login[h].step
               /\ login'[h].attempts = login[h].attempts
               /\ login'[h].until = OneLess(login[h].until)
    BY <1>1 DEF IInv, TypeOK, SignInState
  <1>4. \A t \in 0..Lockout : OneLess(t) \in 0..Lockout
    BY LimitsArePositive DEF OneLess
  <1>5. OneLess(Null) = Null
    BY DEF OneLess, Null
  <1> QED
    BY <1>1, <1>2, <1>3, <1>4, <1>5 DEF OInv, Alone, ReadsAreCurrent, Busy

\* The two invariants are kept by every step.
LEMMA NextKeepsOrder ==
  ASSUME IInv, OInv, [Next]_vars
  PROVE  OInv'
  <1>1. ASSUME UNCHANGED vars PROVE OInv'
    BY <1>1 DEF vars, OInv, Alone, ReadsAreCurrent, Busy
  <1>2. ASSUME NEW h \in Handlers, Step(h) PROVE OInv'
    <2>1. ASSUME RegisterFailedLogin(h) \/ Clear(h) \/ Stamp(h) \/ AwaitFails(h)
          PROVE  OInv'
      <3>1. Answer(h) /\ Busy(h) /\ UNCHANGED orderly
        BY <2>1 DEF RegisterFailedLogin, Clear, Stamp, AwaitFails, At, Busy
      <3> QED
        BY <3>1, AnswerKeepsOrder
    <2> QED
      BY <1>2, <2>1, CompareKeepsOrder DEF Step, Proceed
  <1>3. ASSUME Crash PROVE OInv'
    BY <1>3, IdleFacts DEF Crash, OInv, Alone, ReadsAreCurrent, Busy
  <1> QED
    BY <1>1, <1>2, <1>3, ReadKeepsOrder, TickKeepsOrder DEF Next

\* A step that leaves the row alone is no step of the policy; the others are
\* the three writes and the clock.
LEMMA StepKeepsPolicy ==
  ASSUME IInv, OInv, [Next]_vars, orderly', <<attempts, lock>>' # <<attempts, lock>>
  PROVE  Policy!Next
  <1>1. Next
    BY DEF vars
  <1>2. ASSUME NEW h \in Handlers, RegisterFailedLogin(h)
        PROVE  Policy!Next
    <2>1. /\ orderly /\ login[h].step = "count"
          /\ attempts' = login[h].attempts /\ lock' = login[h].until
      BY <1>2 DEF RegisterFailedLogin, At
    <2>2. /\ lock <= 0 /\ attempts' = OneMore(attempts)
          /\ lock' \in IF attempts' >= MaxAttempts THEN 0..Lockout ELSE {Null}
      BY <2>1 DEF OInv, ReadsAreCurrent
    <2> QED
      BY <2>2 DEF Policy!Next, Policy!WrongPassword, Policy!Unlocked, Policy!Null,
                  Null, OneMore
  <1>3. ASSUME NEW h \in Handlers, Clear(h)
        PROVE  Policy!Next
    <2>1. orderly /\ login[h].step = "clear" /\ attempts' = 0 /\ lock' = Null
      BY <1>3 DEF Clear, At
    <2>2. lock <= 0
      BY <2>1 DEF OInv, ReadsAreCurrent
    <2> QED
      BY <2>1, <2>2 DEF Policy!Next, Policy!SignIn, Policy!Unlocked, Policy!Null, Null
  <1>4. ASSUME Tick
        PROVE  Policy!Next
    <2>1. lock' = OneLess(lock) /\ attempts' = attempts
      BY <1>4 DEF Tick
    <2>2. lock > 0 /\ lock' = lock - 1
      BY <2>1 DEF OneLess
    <2> QED
      BY <2>1, <2>2 DEF Policy!Next, Policy!Tick
  <1>5. ASSUME NEW h \in Handlers,
               Read(h) \/ CompareWrong(h) \/ CompareRight(h) \/ Stamp(h) \/ AwaitFails(h)
        PROVE  FALSE
    BY <1>5 DEF Read, TakeUp, CompareWrong, CompareRight, Stamp, AwaitFails
  <1>6. ASSUME Crash PROVE FALSE
    BY <1>6 DEF Crash
  <1> QED
    BY <1>1, <1>2, <1>3, <1>4, <1>5, <1>6 DEF Next, Step, Proceed

\* With one sign-in at a time the counter and the lock follow the policy, for
\* any threshold and any length of the lock, failures and restarts included.
THEOREM Refinement == Spec => KeepsPolicy
  <1>1. Init => Policy!Init
    BY DEF Init, Policy!Init, Policy!Null, Null
  <1>2. IInv /\ OInv /\ [Next]_vars => OInv'
    BY NextKeepsOrder
  <1>3. IInv /\ OInv /\ [Next]_vars => [orderly' => Policy!Next]_<<attempts, lock>>
    BY StepKeepsPolicy
  <1> QED
    BY <1>1, <1>2, <1>3, InitOInv, Invariance, PTL DEF Spec, KeepsPolicy
=============================================================================
