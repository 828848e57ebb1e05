-------------------------- MODULE PanelSeatsProofs --------------------------
(***************************************************************************)
(* Proofs about PanelSeats, for any admins, plans, rules and number of     *)
(* checks in flight.                                                       *)
(*                                                                         *)
(* Whoever is let in, or told to wait, while nothing changes has been      *)
(* compared with the seats of the plan in force by the place in the queue  *)
(* as it is; and the place of an admin in the queue is the number of       *)
(* admins ahead.  The rest is counting.                                    *)
(***************************************************************************)
EXTENDS PanelSeats, FiniteSetTheorems, SequenceTheorems, TLAPS

\* The free plan never has a seat.
FreeHasNone == seats[Free] = 0

\* A check that nothing disturbed has read what is still so.
QuietChecksKnow ==
    \A h \in quiet :
        /\ At(h, "rule") => check[h].plan = plan
        /\ At(h, "holders") => check[h].seats = seats[plan]

\* A check that never saw a paid plan in force read none, and none is.
ShutChecksKnow ==
    \A h \in shut :
        /\ plan = Free
        /\ At(h, "rule") => check[h].plan = Free
        /\ ~At(h, "holders")

\* Whoever was let in has a place below the seats.
GrantedAreSeated ==
    \A a \in granted : HasSeat(Queue(holders, owners), a, seats[plan])

\* Whoever was told to wait is in the queue, without a place below the seats.
WaitingAreUnseated ==
    \A b \in waiting :
        b \in holders /\ ~HasSeat(Queue(holders, owners), b, seats[plan])

IInv ==
    /\ TypeOK /\ FreeHasNone /\ QuietChecksKnow /\ ShutChecksKnow
    /\ GrantedAreSeated /\ WaitingAreUnseated

-----------------------------------------------------------------------------
(* The queue. *)

Below(S, a) == Cardinality({b \in S : b < a})

\* An admin of S has as many places before it as there are older admins in S.
LEMMA InOrderIs ==
    ASSUME NEW S \in SUBSET Nat, IsFiniteSet(S)
    PROVE  /\ Cardinality(S) \in Nat
           /\ InOrder(S) \in Seq(S) /\ Len(InOrder(S)) = Cardinality(S)
           /\ \A i \in 1..Cardinality(S) : InOrder(S)[i] \in S
           /\ \A a \in S : Below(S, a) + 1 \in 1..Cardinality(S)
           /\ \A i \in 1..Cardinality(S), a \in S :
                InOrder(S)[i] = a <=> i = Below(S, a) + 1
  <1> DEFINE n == Cardinality(S)
             T == 0..n - 1
             f == [a \in S |-> Below(S, a)]
  <1>1. n \in Nat /\ IsFiniteSet(T) /\ Cardinality(T) = n
    <2>1. n \in Nat
      BY FS_CardinalityType
    <2> HIDE DEF n
    <2>2. IsFiniteSet(T) /\ Cardinality(T) = IF 0 > n - 1 THEN 0 ELSE n - 1 - 0 + 1
      BY <2>1, FS_Interval
    <2> QED
      BY <2>1, <2>2
  <1>2. ASSUME NEW a \in S PROVE Below(S, a) \in Nat /\ Below(S, a) < n
    <2> DEFINE B == {b \in S : b < a}
    <2>1. B \in SUBSET S /\ B # S
      OBVIOUS
    <2> HIDE DEF B
    <2>2. IsFiniteSet(B) /\ Cardinality(B) <= n /\ Cardinality(B) # n
      BY <2>1, FS_Subset
    <2>3. Cardinality(B) \in Nat
      BY <2>2, FS_CardinalityType
    <2> QED
      BY <1>1, <2>2, <2>3 DEF B, Below
  <1>3. ASSUME NEW a \in S, NEW c \in S, a < c PROVE Below(S, a) < Below(S, c)
    <2> DEFINE B == {b \in S : b < a}
               C == {b \in S : b < c}
    <2>1. B \in SUBSET C /\ a \in C /\ a \notin B /\ C \in SUBSET S
      <3>1. \A b \in S : b < a => b < c
        BY <1>3
      <3>2. a < c /\ ~(a < a)
        BY <1>3
      <3> QED
        BY <3>1, <3>2
    <2>2. IsFiniteSet(C)
      BY <2>1, FS_Subset
    <2> HIDE DEF B, C
    <2>3. Cardinality(B) <= Cardinality(C) /\ Cardinality(B) # Cardinality(C)
      BY <2>1, <2>2, FS_Subset
    <2>4. Cardinality(B) = Below(S, a) /\ Cardinality(C) = Below(S, c)
      BY DEF B, C, Below
    <2> QED
      BY <1>2, <2>3, <2>4
  <1>4. \A a, c \in S : Below(S, a) = Below(S, c) => a = c
    <2> SUFFICES ASSUME NEW a \in S, NEW c \in S, Below(S, a) = Below(S, c), a # c
                 PROVE  FALSE
      OBVIOUS
    <2>1. a < c \/ c < a
      OBVIOUS
    <2> QED
      BY <1>2, <1>3, <2>1
  <1>5. f \in Injection(S, T)
    <2>1. \A a \in S : Below(S, a) \in T
      <3> HIDE DEF n
      <3> QED
        BY <1>1, <1>2
    <2> HIDE DEF T
    <2> QED
      BY <1>4, <2>1 DEF Injection, IsInjective
  <1>6. f \in Surjection(S, T)
    <2> HIDE DEF f, T
    <2> QED
      BY <1>1, <1>5, FS_Injection
  <1>7. ASSUME NEW i \in 1..n PROVE \E a \in S : Below(S, a) = i - 1
    <2>1. i - 1 \in T
      BY <1>1
    <2> QED
      BY <1>6, <2>1 DEF Surjection
  <1> DEFINE q == InOrder(S)
  <1>8. ASSUME NEW i \in 1..n PROVE q[i] \in S /\ Below(S, q[i]) = i - 1
    <2>1. q[i] = CHOOSE a \in S : Below(S, a) = i - 1
      BY DEF InOrder, Below
    <2> QED
      BY <1>7, <2>1
  <1>9. q \in [1..n -> S]
    <2>1. \A i \in 1..n : (CHOOSE a \in S : Below(S, a) = i - 1) \in S
      BY <1>7
    <2>2. q = [i \in 1..n |-> CHOOSE a \in S : Below(S, a) = i - 1]
      BY DEF InOrder, Below
    <2> HIDE DEF q
    <2> QED
      BY <2>1, <2>2
  <1>10. q \in Seq(S) /\ Len(q) = n
    <2> HIDE DEF q, n
    <2> QED
      BY <1>1, <1>9
  <1>11. ASSUME NEW i \in 1..n, NEW a \in S
         PROVE  q[i] = a <=> i = Below(S, a) + 1
    <2>1. /\ q[i] \in S /\ Below(S, q[i]) = i - 1
          /\ Below(S, a) \in Nat /\ Below(S, q[i]) \in Nat
      BY <1>2, <1>8
    <2> HIDE DEF q, n
    <2>2. i = Below(S, q[i]) + 1
      BY <1>1, <2>1
    <2>3. i = Below(S, a) + 1 => Below(S, q[i]) = Below(S, a)
      BY <2>1, <2>2
    <2> QED
      BY <1>4, <2>1, <2>2, <2>3
  <1>12. ASSUME NEW a \in S PROVE Below(S, a) + 1 \in 1..n
    BY <1>1, <1>2
  <1> HIDE DEF q
  <1> QED
    BY <1>1, <1>8, <1>10, <1>11, <1>12 DEF q

\* The place of an admin in the queue is the number of admins ahead.
LEMMA PlaceInQueue ==
    ASSUME NEW S \in SUBSET Nat, IsFiniteSet(S), NEW b \in S, NEW n \in Nat
    PROVE  /\ Cardinality({a \in S : Ahead(a, b)}) \in Nat
           /\ HasSeat(Queue(S, owners), b, n) <=>
                Cardinality({a \in S : Ahead(a, b)}) < n
  <1> DEFINE F == S \cap owners
             R == S \ owners
             A == {a \in S : Ahead(a, b)}
             q == Queue(S, owners)
             c == Cardinality(F)
             d == Cardinality(R)
  <1>1. /\ F \in SUBSET Nat /\ IsFiniteSet(F) /\ R \in SUBSET Nat /\ IsFiniteSet(R)
        /\ F \in SUBSET S /\ R \in SUBSET S
    BY FS_Subset
  <1>2. /\ c \in Nat /\ d \in Nat
        /\ InOrder(F) \in Seq(S) /\ InOrder(R) \in Seq(S)
        /\ Len(InOrder(F)) = c /\ Len(InOrder(R)) = d
    <2>1. c \in Nat /\ InOrder(F) \in Seq(F) /\ Len(InOrder(F)) = c
      <3> HIDE DEF F
      <3> QED
        BY <1>1, InOrderIs
    <2>2. d \in Nat /\ InOrder(R) \in Seq(R) /\ Len(InOrder(R)) = d
      <3> HIDE DEF R
      <3> QED
        BY <1>1, InOrderIs
    <2> HIDE DEF F, R
    <2> QED
      BY <1>1, <2>1, <2>2, SeqMonotonic
  <1>3. /\ \A i \in 1..c : InOrder(F)[i] \in F
        /\ \A i \in 1..d : InOrder(R)[i] \in R
        /\ b \in F => /\ Below(F, b) + 1 \in 1..c
                      /\ \A i \in 1..c : InOrder(F)[i] = b <=> i = Below(F, b) + 1
        /\ b \in R => /\ Below(R, b) + 1 \in 1..d
                      /\ \A i \in 1..d : InOrder(R)[i] = b <=> i = Below(R, b) + 1
    <2> HIDE DEF F, R
    <2> QED
      BY <1>1, InOrderIs
  <1>4. /\ q \in Seq(S) /\ Len(q) = c + d
        /\ \A i \in 1..c + d :
             q[i] = IF i <= c THEN InOrder(F)[i] ELSE InOrder(R)[i - c]
    <2>1. q = InOrder(F) \o InOrder(R)
      BY DEF Queue
    <2> HIDE DEF q, F, R, c, d
    <2> QED
      BY <1>2, <2>1, ConcatProperties
  <1>5. DOMAIN q = 1..c + d
    <2> HIDE DEF q, c, d
    <2> QED
      BY <1>2, <1>4, LenProperties
  <1>6. /\ Cardinality(A) \in Nat /\ Cardinality(A) + 1 \in 1..c + d
        /\ \A i \in 1..c + d : q[i] = b <=> i = Cardinality(A) + 1
    <2>1. CASE b \in owners
      <3>1. A = {a \in F : a < b} /\ b \in F
        BY <2>1 DEF Ahead
      <3>2. Cardinality(A) = Below(F, b)
        BY <3>1 DEF Below
      <3>3. Below(F, b) \in Nat
        <4>1. IsFiniteSet(A)
          BY FS_Subset
        <4> QED
          BY <3>2, <4>1, FS_CardinalityType
      <3>4. \A i \in 1..d : InOrder(R)[i] # b
        BY <1>3, <2>1
      <3> HIDE DEF A, F, R, q, c, d
      <3>5. ASSUME NEW i \in 1..c + d PROVE q[i] = b <=> i = Below(F, b) + 1
        <4>1. CASE i <= c
          BY <1>2, <1>3, <1>4, <3>1, <4>1
        <4>2. CASE ~(i <= c)
          <5>1. i - c \in 1..d /\ q[i] = InOrder(R)[i - c]
            BY <1>2, <1>4, <4>2
          <5>2. i # Below(F, b) + 1
            BY <1>2, <1>3, <3>1, <4>2
          <5> QED
            BY <3>4, <5>1, <5>2
        <4> QED
          BY <4>1, <4>2
      <3> QED
        <4>1. Below(F, b) + 1 \in 1..c
          BY <1>3, <3>1
        <4>2. Below(F, b) + 1 \in 1..c + d
          BY <1>2, <3>3, <4>1
        <4> QED
          BY <3>2, <3>3, <3>5, <4>2
    <2>2. CASE b \notin owners
      <3> DEFINE E == {a \in R : a < b}
      <3>1. A = F \cup E /\ F \cap E = {} /\ b \in R /\ E \in SUBSET S
        BY <2>2 DEF Ahead
      <3>2. Cardinality(E) = Below(R, b) /\ IsFiniteSet(E)
        BY <3>1, FS_Subset DEF Below
      <3>3. \A i \in 1..c : InOrder(F)[i] # b
        BY <1>3, <2>2
      <3> HIDE DEF A, E, F, R, q, c, d
      <3>4. Cardinality(E) \in Nat
        BY <3>2, FS_CardinalityType
      <3>5. Cardinality(A) = c + Below(R, b)
        <4>1. Cardinality(F \cup E) = Cardinality(F) + Cardinality(E) - Cardinality(F \cap E)
          BY <1>1, <3>2, FS_Union
        <4>2. Cardinality(F \cap E) = 0
          BY <3>1, FS_EmptySet
        <4> QED
          BY <1>2, <3>1, <3>2, <3>4, <4>1, <4>2 DEF c
      <3>6. ASSUME NEW i \in 1..c + d PROVE q[i] = b <=> i = c + Below(R, b) + 1
        <4>1. CASE i <= c
          BY <1>2, <1>4, <3>2, <3>3, <3>4, <4>1
        <4>2. CASE ~(i <= c)
          <5>1. i - c \in 1..d /\ q[i] = InOrder(R)[i - c]
            BY <1>2, <1>4, <4>2
          <5>2. InOrder(R)[i - c] = b <=> i - c = Below(R, b) + 1
            BY <1>3, <3>1, <5>1
          <5> QED
            BY <1>2, <3>2, <3>4, <5>1, <5>2
        <4> QED
          BY <4>1, <4>2
      <3>7. c + Below(R, b) + 1 \in 1..c + d
        BY <1>2, <1>3, <3>1, <3>2, <3>4
      <3> QED
        BY <1>2, <3>2, <3>4, <3>5, <3>6, <3>7
    <2> QED
      BY <2>1, <2>2
  <1> HIDE DEF A, F, R, q, c, d
  <1>7. HasSeat(q, b, n) <=> Cardinality(A) < n
    BY <1>2, <1>5, <1>6 DEF HasSeat
  <1> QED
    BY <1>6, <1>7 DEF A, q

\* Nobody outside the queue has a place in it.
LEMMA SeatedAreQueued ==
    ASSUME NEW S \in SUBSET Nat, IsFiniteSet(S), NEW a, NEW n \in Nat,
           HasSeat(Queue(S, owners), a, n)
    PROVE  a \in S
  <1> DEFINE F == S \cap owners
             R == S \ owners
  <1>1. /\ F \in SUBSET Nat /\ IsFiniteSet(F) /\ R \in SUBSET Nat /\ IsFiniteSet(R)
        /\ F \in SUBSET S /\ R \in SUBSET S
    BY FS_Subset
  <1>2. Queue(S, owners) = InOrder(F) \o InOrder(R)
    BY DEF Queue
  <1> HIDE DEF F, R
  <1>3. InOrder(F) \in Seq(S) /\ InOrder(R) \in Seq(S)
    BY <1>1, InOrderIs, SeqMonotonic
  <1>4. Queue(S, owners) \in Seq(S)
    BY <1>2, <1>3, ConcatProperties
  <1> QED
    BY <1>4, LenProperties, ElementOfSeq DEF HasSeat

\* However a queue was made, no more have a seat than there are.
LEMMA SeatedAreFew ==
    ASSUME NEW q, NEW n \in Nat, NEW G, \A a \in G : HasSeat(q, a, n)
    PROVE  Cardinality(G) <= n
  <1> DEFINE T == {i \in 1..n : i \in DOMAIN q /\ q[i] \in G}
             f == [i \in T |-> q[i]]
  <1>1. f \in Surjection(T, G)
    <2>1. f \in [T -> G]
      OBVIOUS
    <2>2. \A a \in G : \E i \in T : f[i] = a
      BY DEF HasSeat
    <2> QED
      BY <2>1, <2>2 DEF Surjection
  <1>2. IsFiniteSet(1..n) /\ Cardinality(1..n) = n
    <2>1. CASE n = 0
      BY <2>1, FS_Interval
    <2>2. CASE n # 0
      BY <2>2, FS_Interval
    <2> QED
      BY <2>1, <2>2
  <1>3. /\ IsFiniteSet(T) /\ Cardinality(T) <= n
        /\ Cardinality(T) \in Nat
    BY <1>2, FS_Subset, FS_CardinalityType
  <1>4. IsFiniteSet(G) /\ Cardinality(G) <= Cardinality(T)
    <2> HIDE DEF T, f
    <2> QED
      BY <1>1, <1>3, FS_Surjection
  <1>5. Cardinality(G) \in Nat
    BY <1>4, FS_CardinalityType
  <1> QED
    BY <1>3, <1>4, <1>5

LEMMA Initially == Init => IInv
  <1> SUFFICES ASSUME Init PROVE IInv
    OBVIOUS
  <1>1. TypeOK
    BY MaxSeatsIsNat DEF Init, TypeOK, Check, Idle
  <1>2. FreeHasNone
    BY DEF Init, FreeHasNone
  <1>3. /\ QuietChecksKnow /\ ShutChecksKnow
        /\ GrantedAreSeated /\ WaitingAreUnseated
    BY DEF Init, QuietChecksKnow, ShutChecksKnow, GrantedAreSeated, WaitingAreUnseated
  <1> QED
    BY <1>1, <1>2, <1>3 DEF IInv

\* An answer leaves the others as they were, lets in only who has a seat, and
\* tells only who has none to wait.
LEMMA AnswerKeeps ==
    ASSUME IInv, NEW h \in Handlers, NEW G \in SUBSET Admins, NEW W \in SUBSET Admins,
           Answer(h, G, W), UNCHANGED data,
           h \in quiet => \A a \in G : HasSeat(Queue(holders, owners), a, seats[plan]),
           h \in quiet => \A b \in W :
               b \in holders /\ ~HasSeat(Queue(holders, owners), b, seats[plan])
    PROVE  IInv'
  <1>1. /\ check' = [check EXCEPT ![h] = Idle]
        /\ quiet' = quiet \ {h} /\ shut' = shut \ {h}
        /\ granted' = IF h \in quiet THEN granted \cup G ELSE granted
        /\ waiting' = IF h \in quiet THEN waiting \cup W ELSE waiting
        /\ UNCHANGED <<plan, seats, holders, owners>>
    BY DEF Answer, data
  <1>2. /\ check' \in [Handlers -> Check]
        /\ \A g \in Handlers \ {h} : check'[g] = check[g]
    BY <1>1, MaxSeatsIsNat DEF IInv, TypeOK, Check, Idle
  <1>3. TypeOK'
    BY <1>1, <1>2 DEF IInv, TypeOK
  <1>4. FreeHasNone'
    BY <1>1 DEF IInv, FreeHasNone
  <1>5. QuietChecksKnow' /\ ShutChecksKnow'
    BY <1>1, <1>2 DEF IInv, TypeOK, QuietChecksKnow, ShutChecksKnow, At
  <1>6. GrantedAreSeated' /\ WaitingAreUnseated'
    BY <1>1 DEF IInv, GrantedAreSeated, WaitingAreUnseated
  <1> QED
    BY <1>3, <1>4, <1>5, <1>6 DEF IInv

\* A check gets on, to c, and nothing else changes.
LEMMA OneCheck ==
    ASSUME IInv, NEW h \in Handlers, NEW c \in Check,
           check' = [check EXCEPT ![h] = c],
           UNCHANGED <<plan, seats, holders, owners, granted, waiting>>,
           quiet' \subseteq quiet \cup {h}, shut' \subseteq shut \cup {h},
           h \in quiet' => /\ c.step = "rule" => c.plan = plan
                           /\ c.step = "holders" => c.seats = seats[plan],
           h \in shut' => /\ plan = Free
                          /\ c.step = "rule" => c.plan = Free
                          /\ c.step # "holders"
    PROVE  IInv'
  <1>1. /\ check' \in [Handlers -> Check] /\ check'[h] = c
        /\ \A g \in Handlers \ {h} : check'[g] = check[g]
    BY DEF IInv, TypeOK
  <1>2. TypeOK'
    BY <1>1 DEF IInv, TypeOK
  <1>3. FreeHasNone'
    BY DEF IInv, FreeHasNone
  <1>4. QuietChecksKnow'
    BY <1>1, <1>2 DEF IInv, TypeOK, QuietChecksKnow, At
  <1>5. ShutChecksKnow'
    BY <1>1, <1>2 DEF IInv, TypeOK, ShutChecksKnow, At
  <1>6. GrantedAreSeated' /\ WaitingAreUnseated'
    BY DEF IInv, GrantedAreSeated, WaitingAreUnseated
  <1> QED
    BY <1>2, <1>3, <1>4, <1>5, <1>6 DEF IInv

LEMMA AskKeeps ==
    ASSUME IInv, NEW h \in Handlers, NEW a \in Admins, Ask(h, a)
    PROVE  IInv'
  <1> DEFINE c == [step |-> "term", admin |-> {a}, plan |-> Free, seats |-> 0]
  <1>1. c \in Check /\ c.step = "term"
    BY MaxSeatsIsNat DEF Check
  <1>2. /\ check' = [check EXCEPT ![h] = c]
        /\ quiet' = quiet \cup {h}
        /\ UNCHANGED <<plan, seats, holders, owners, granted, waiting>>
        /\ shut' \subseteq shut \cup {h}
        /\ h \in shut' => plan = Free
    BY DEF Ask, data, IInv, ShutChecksKnow
  <1> HIDE DEF c
  <1> QED
    BY <1>1, <1>2, OneCheck

LEMMA ReadTermKeeps ==
    ASSUME IInv, NEW h \in Handlers, ReadTerm(h)
    PROVE  IInv'
  <1> DEFINE c == [check[h] EXCEPT !.step = "rule", !.plan = plan]
  <1>1. c \in Check /\ c.step = "rule" /\ c.plan = plan
    BY DEF IInv, TypeOK, Check
  <1>2. /\ check' = [check EXCEPT ![h] = c]
        /\ UNCHANGED <<plan, seats, holders, owners, quiet, granted, waiting, shut>>
    BY DEF ReadTerm, data, IInv, TypeOK
  <1>3. h \in shut => plan = Free
    BY DEF IInv, ShutChecksKnow
  <1> HIDE DEF c
  <1> QED
    BY <1>1, <1>2, <1>3, OneCheck

LEMMA ReadRuleKeeps ==
    ASSUME IInv, NEW h \in Handlers, ReadRule(h)
    PROVE  IInv'
  <1> DEFINE n == seats[check[h].plan]
             c == [check[h] EXCEPT !.step = "holders", !.seats = n]
  <1>1. CASE n = 0
    <2>1. Answer(h, {}, {}) /\ UNCHANGED data
      BY <1>1 DEF ReadRule, Seats
    <2> QED
      BY <2>1, AnswerKeeps
  <1>2. CASE n # 0
    <2>1. check[h] \in Check /\ n \in 0..MaxSeats /\ check[h].step = "rule"
      BY DEF IInv, TypeOK, Check, ReadRule, At
    <2>2. c \in Check /\ c.step = "holders" /\ c.seats = n
      BY <2>1 DEF Check
    <2>3. /\ check' = [check EXCEPT ![h] = c]
          /\ UNCHANGED <<plan, seats, holders, owners, quiet, granted, waiting, shut>>
      BY <1>2, <2>1 DEF ReadRule, Seats, data
    <2>4. h \in quiet => n = seats[plan]
      BY <2>1 DEF IInv, QuietChecksKnow, At
    <2>5. h \notin shut
      BY <1>2, <2>1 DEF IInv, ShutChecksKnow, FreeHasNone, At
    <2> HIDE DEF c, n
    <2> QED
      BY <2>2, <2>3, <2>4, <2>5, OneCheck
  <1> QED
    BY <1>1, <1>2

LEMMA ReadHoldersKeeps ==
    ASSUME IInv, NEW h \in Handlers, ReadHolders(h)
    PROVE  IInv'
  <1>1. PICK a \in check[h].admin :
          IF HasSeat(Queue(holders, owners), a, check[h].seats)
          THEN Answer(h, {a}, {})
          ELSE Answer(h, {}, {a} \cap holders)
    BY DEF ReadHolders
  <1>2. a \in Admins /\ UNCHANGED data /\ check[h].step = "holders"
    BY DEF ReadHolders, IInv, TypeOK, Check, At
  <1>3. h \in quiet => check[h].seats = seats[plan]
    BY <1>2 DEF IInv, QuietChecksKnow, At
  <1>4. CASE HasSeat(Queue(holders, owners), a, check[h].seats)
    BY <1>1, <1>2, <1>3, <1>4, AnswerKeeps
  <1>5. CASE ~HasSeat(Queue(holders, owners), a, check[h].seats)
    BY <1>1, <1>2, <1>3, <1>5, AnswerKeeps
  <1> QED
    BY <1>4, <1>5

LEMMA ReadFailsKeeps ==
    ASSUME IInv, NEW h \in Handlers, ReadFails(h)
    PROVE  IInv'
  BY AnswerKeeps DEF ReadFails

\* Another service's write starts the histories afresh.
LEMMA DisturbedKeeps ==
    ASSUME IInv, ChangePlan \/ EditRule \/ ChangeHolders
    PROVE  IInv'
  <1>1. quiet' = {} /\ granted' = {} /\ waiting' = {} /\ check' = check
    BY DEF ChangePlan, EditRule, ChangeHolders, Disturbed
  <1>2. /\ plan' \in Plans \cup {Free} /\ holders' \subseteq Admins
        /\ owners' = owners
        /\ shut' \subseteq shut
        /\ shut' # {} => plan' = Free
    BY DEF ChangePlan, EditRule, ChangeHolders, IInv, TypeOK, ShutChecksKnow
  <1>3. seats' \in [Plans \cup {Free} -> 0..MaxSeats] /\ seats'[Free] = 0
    <2>1. CASE EditRule
      BY <2>1, FreeIsNotPaid DEF EditRule, IInv, TypeOK, FreeHasNone
    <2>2. CASE ChangePlan \/ ChangeHolders
      BY <2>2 DEF ChangePlan, ChangeHolders, IInv, TypeOK, FreeHasNone
    <2> QED
      BY <2>1, <2>2
  <1>4. TypeOK'
    BY <1>1, <1>2, <1>3 DEF IInv, TypeOK
  <1>5. FreeHasNone' /\ QuietChecksKnow' /\ GrantedAreSeated' /\ WaitingAreUnseated'
    BY <1>1, <1>3 DEF FreeHasNone, QuietChecksKnow, GrantedAreSeated, WaitingAreUnseated
  <1>6. ShutChecksKnow'
    BY <1>1, <1>2 DEF IInv, ShutChecksKnow, At
  <1> QED
    BY <1>4, <1>5, <1>6 DEF IInv

LEMMA NextKeeps == IInv /\ [Next]_vars => IInv'
  <1> SUFFICES ASSUME IInv, [Next]_vars PROVE IInv'
    OBVIOUS
  <1>1. ASSUME NEW h \in Handlers, NEW a \in Admins, Ask(h, a) PROVE IInv'
    BY <1>1, AskKeeps
  <1>2. ASSUME NEW h \in Handlers,
               ReadTerm(h) \/ ReadRule(h) \/ ReadHolders(h) \/ ReadFails(h)
        PROVE  IInv'
    BY <1>2, ReadTermKeeps, ReadRuleKeeps, ReadHoldersKeeps, ReadFailsKeeps
  <1>3. CASE ChangePlan \/ EditRule \/ ChangeHolders
    BY <1>3, DisturbedKeeps
  <1>4. CASE UNCHANGED vars
    BY <1>4 DEF vars, IInv, TypeOK, FreeHasNone, QuietChecksKnow, ShutChecksKnow,
               GrantedAreSeated, WaitingAreUnseated, At
  <1> QED
    BY <1>1, <1>2, <1>3, <1>4 DEF Next

LEMMA Invariance == Spec => []IInv
  BY Initially, NextKeeps, PTL DEF Spec

-----------------------------------------------------------------------------
(* The theorems. *)

\* Checks and histories stay well formed.
THEOREM TypeCorrect == Spec => []TypeOK
  <1>1. IInv => TypeOK
    BY DEF IInv
  <1> QED
    BY <1>1, Invariance, PTL

\* A check that never saw a paid plan in force ends before seats are counted.
THEOREM LapsedRefused == Spec => []LapsedPlanRefuses
  <1>1. IInv => LapsedPlanRefuses
    BY DEF IInv, ShutChecksKnow, LapsedPlanRefuses
  <1> QED
    BY <1>1, Invariance, PTL

\* As long as nothing changes, no more admins are let in than there are seats.
THEOREM SeatsSuffice == Spec => []SeatsNotOversold
  <1>1. IInv => SeatsNotOversold
    <2> SUFFICES ASSUME IInv PROVE Cardinality(granted) <= seats[plan]
      BY DEF SeatsNotOversold
    <2>1. seats[plan] \in Nat
      BY MaxSeatsIsNat DEF IInv, TypeOK
    <2> QED
      BY <2>1, SeatedAreFew DEF IInv, GrantedAreSeated
  <1> QED
    BY <1>1, Invariance, PTL

LEMMA HoldersAreCounted ==
    ASSUME IInv
    PROVE  holders \in SUBSET Nat /\ IsFiniteSet(holders) /\ seats[plan] \in Nat
  <1>1. /\ Admins \in SUBSET Nat /\ IsFiniteSet(Admins) /\ holders \in SUBSET Admins
        /\ seats[plan] \in 0..MaxSeats
    BY AdminsAreNumbered DEF IInv, TypeOK
  <1>2. IsFiniteSet(holders)
    BY <1>1, FS_Subset
  <1> QED
    BY <1>1, <1>2, MaxSeatsIsNat

\* The converse of NobodyWaitsForNothing: whoever is let in, while nothing
\* changes, is an active admin with fewer admins ahead than there are seats.  The
\* two say that the verdicts of the three reads are those of the policy.
NobodyEntersUnduly ==
    \A a \in granted :
        a \in holders /\ Cardinality({e \in holders : Ahead(e, a)}) < seats[plan]

THEOREM EntryIsDue == Spec => []NobodyEntersUnduly
  <1>1. IInv => NobodyEntersUnduly
    <2> SUFFICES ASSUME IInv, NEW a \in granted
                 PROVE  /\ a \in holders
                        /\ Cardinality({e \in holders : Ahead(e, a)}) < seats[plan]
      BY DEF NobodyEntersUnduly
    <2>1. HasSeat(Queue(holders, owners), a, seats[plan])
      BY DEF IInv, GrantedAreSeated
    <2>2. a \in holders
      BY <2>1, HoldersAreCounted, SeatedAreQueued
    <2> QED
      BY <2>1, <2>2, HoldersAreCounted, PlaceInQueue
  <1> QED
    BY <1>1, Invariance, PTL

\* As long as nothing changes, whoever is told to wait has at least as many
\* admins ahead as there are seats.
THEOREM WaitIsDue == Spec => []NobodyWaitsForNothing
  <1>1. IInv => NobodyWaitsForNothing
    <2> SUFFICES ASSUME IInv, NEW b \in waiting
                 PROVE  Cardinality({a \in holders : Ahead(a, b)}) >= seats[plan]
      BY DEF NobodyWaitsForNothing
    <2>1. b \in holders /\ ~HasSeat(Queue(holders, owners), b, seats[plan])
      BY DEF IInv, WaitingAreUnseated
    <2>2. /\ Cardinality({a \in holders : Ahead(a, b)}) \in Nat
          /\ ~(Cardinality({a \in holders : Ahead(a, b)}) < seats[plan])
      BY <2>1, HoldersAreCounted, PlaceInQueue
    <2> QED
      BY <2>2, HoldersAreCounted
  <1> QED
    BY <1>1, Invariance, PTL

\* As long as nothing changes, the owner and the older accounts go first: who is
\* let in is ahead of everyone who was told to wait.
THEOREM QueueIsKept == Spec => []NobodyIsOvertaken
  <1>1. IInv => NobodyIsOvertaken
    <2> SUFFICES ASSUME IInv, NEW a \in granted, NEW b \in waiting
                 PROVE  Ahead(a, b)
      BY DEF NobodyIsOvertaken
    <2> DEFINE A == {e \in holders : Ahead(e, a)}
               B == {e \in holders : Ahead(e, b)}
    <2>1. /\ HasSeat(Queue(holders, owners), a, seats[plan])
          /\ b \in holders /\ ~HasSeat(Queue(holders, owners), b, seats[plan])
      BY DEF IInv, GrantedAreSeated, WaitingAreUnseated
    <2>2. a \in holders
      BY <2>1, HoldersAreCounted, SeatedAreQueued
    <2>3. /\ Cardinality(A) \in Nat /\ Cardinality(A) < seats[plan]
          /\ Cardinality(B) \in Nat /\ ~(Cardinality(B) < seats[plan])
      BY <2>1, <2>2, HoldersAreCounted, PlaceInQueue
    <2>4. ASSUME ~Ahead(a, b) PROVE FALSE
      <3>1. a # b /\ holders \in SUBSET Nat
        BY <2>1, HoldersAreCounted
      <3>2. Ahead(b, a)
        BY <2>1, <2>2, <2>4, <3>1 DEF Ahead
      <3>3. B \in SUBSET A
        <4>1. ASSUME NEW e \in holders, Ahead(e, b) PROVE Ahead(e, a)
          <5>1. a \in Nat /\ b \in Nat /\ e \in Nat
            BY <2>1, <2>2, <3>1
          <5> QED
            BY <3>2, <4>1, <5>1 DEF Ahead
        <4> QED
          BY <4>1
      <3>4. A \in SUBSET holders
        OBVIOUS
      <3> HIDE DEF A, B
      <3>5. Cardinality(B) <= Cardinality(A)
        BY <3>3, <3>4, HoldersAreCounted, FS_Subset
      <3> QED
        BY <2>3, <3>5, HoldersAreCounted
    <2> QED
      BY <2>4
  <1> QED
    BY <1>1, Invariance, PTL
=============================================================================
