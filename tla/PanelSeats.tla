----------------------------- MODULE PanelSeats -----------------------------
(***************************************************************************)
(* businessPanelRefusal: whether an admin of one business may use its      *)
(* panel, asked at every sign-in and every refresh.                        *)
(*                                                                         *)
(* The answer comes from three reads with an await between them: the plan  *)
(* in force, the seats its rule gives, and the admins who want one.  The   *)
(* plan, the rule and the admins are other services' data and may change   *)
(* between any two of the reads.                                           *)
(*                                                                         *)
(* Assumption: no two admins of a business have the same createdAt.  The   *)
(* query orders by nothing else, so that of two that do each read may put  *)
(* either first, and a seat may change hands between them.                 *)
(***************************************************************************)
EXTENDS Integers, SequencesExt, FiniteSetsExt

CONSTANTS
    Admins,    \* the admins of the business, numbered in order of createdAt;
               \* distinct numbers are distinct times
    Plans,     \* the paid plans
    MaxSeats,  \* the most seats a rule gives (bound)
    Handlers   \* checks in flight at one time (bound)

Free == "FREEMIUM"

ASSUME AdminsAreNumbered == Admins \subseteq Nat /\ IsFiniteSet(Admins)
ASSUME FreeIsNotPaid == Free \notin Plans
ASSUME MaxSeatsIsNat == MaxSeats \in Nat

VARIABLES
    plan,     \* what the term in force pays for; Free when there is none
    seats,    \* panelSeats of each plan's rule
    holders,  \* the active business admins
    owners,   \* the admins whose role is BUSINESS_OWNER
    check,    \* the check each handler is doing
    quiet,    \* history: the checks begun since anything last changed
    granted,  \* history: the admins such checks let in
    waiting,  \* history: the admins such checks sent away for want of a seat
    shut      \* history: the checks that never saw a paid plan in force

data == <<plan, seats, holders, owners>>
vars == <<plan, seats, holders, owners, check, quiet, granted, waiting, shut>>

\* plan and seats: what the check has read so far.
Check == [step : {"idle", "term", "rule", "holders"}, admin : SUBSET Admins,
          plan : Plans \cup {Free}, seats : 0..MaxSeats]

Idle == [step |-> "idle", admin |-> {}, plan |-> Free, seats |-> 0]

TypeOK ==
    /\ plan \in Plans \cup {Free}
    /\ seats \in [Plans \cup {Free} -> 0..MaxSeats]
    /\ holders \subseteq Admins /\ owners \subseteq Admins
    /\ check \in [Handlers -> Check]
    /\ quiet \subseteq Handlers /\ shut \subseteq Handlers
    /\ granted \subseteq Admins /\ waiting \subseteq Admins

\* The free plan has no panel.
Init ==
    /\ plan \in Plans \cup {Free}
    /\ seats \in {s \in [Plans \cup {Free} -> 0..MaxSeats] : s[Free] = 0}
    /\ holders = Admins
    /\ owners \in SUBSET Admins
    /\ check = [h \in Handlers |-> Idle]
    /\ quiet = {} /\ shut = {} /\ granted = {} /\ waiting = {}

At(h, s) == check[h].step = s

\* The answer, and what the histories make of it.
Answer(h, letIn, sentAway) ==
    /\ check' = [check EXCEPT ![h] = Idle]
    /\ granted' = IF h \in quiet THEN granted \cup letIn ELSE granted
    /\ waiting' = IF h \in quiet THEN waiting \cup sentAway ELSE waiting
    /\ quiet' = quiet \ {h}
    /\ shut' = shut \ {h}

-----------------------------------------------------------------------------

\* An admin signs in or refreshes.  (Its row was read a moment ago, and it may
\* have been deactivated since.)
Ask(h, a) ==
    /\ At(h, "idle")
    /\ check' = [check EXCEPT ![h] =
                   [step |-> "term", admin |-> {a}, plan |-> Free, seats |-> 0]]
    /\ quiet' = quiet \cup {h}
    /\ shut' = IF plan = Free THEN shut \cup {h} ELSE shut
    /\ UNCHANGED <<data, granted, waiting>>

\* Mutant of ReadTerm: a business with no term has no plan to look up.
ReadTermOrNone(h) ==
    /\ At(h, "term")
    /\ check' = [check EXCEPT ![h].step = "rule",
                             ![h].plan = IF plan = Free THEN "none" ELSE plan]
    /\ UNCHANGED <<data, quiet, granted, waiting, shut>>

\* The latest of the terms in force; a business with none is on the free plan.
ReadTerm(h) ==
    /\ At(h, "term")
    /\ check' = [check EXCEPT ![h].step = "rule", ![h].plan = plan]
    /\ UNCHANGED <<data, quiet, granted, waiting, shut>>

\* Mutant of Seats: a rule that gives no seat gives one.
SeatsOrOne(p) == IF seats[p] = 0 THEN 1 ELSE seats[p]

Seats(p) == seats[p]

\* The rule of the plan that was read: without seats there is no panel.
ReadRule(h) ==
    /\ At(h, "rule")
    /\ LET n == Seats(check[h].plan) IN
       IF n = 0
       THEN Answer(h, {}, {})
       ELSE /\ check' = [check EXCEPT ![h].step = "holders", ![h].seats = n]
            /\ UNCHANGED <<quiet, granted, waiting, shut>>
    /\ UNCHANGED data

\* The admins of S in order of createdAt, which no two share.
InOrder(S) ==
    [n \in 1..Cardinality(S) |->
        CHOOSE a \in S : Cardinality({b \in S : b < a}) = n - 1]

\* Mutant of Queue: the oldest first, owner or not.
QueueByAge(S, O) == InOrder(S)

\* Of the admins S, the owners O, then the others, each in order of createdAt.
Queue(S, O) == InOrder(S \cap O) \o InOrder(S \ O)

\* Mutant of HasSeat: the place is compared as if it counted from one.
HasSeatOffByOne(queue, a, n) ==
    \E i \in 1..n + 1 : i \in DOMAIN queue /\ queue[i] = a

\* Whether a is among the first n; an admin outside the queue has no place.
HasSeat(queue, a, n) == \E i \in 1..n : i \in DOMAIN queue /\ queue[i] = a

ReadHolders(h) ==
    /\ At(h, "holders")
    /\ \E a \in check[h].admin :
         IF HasSeat(Queue(holders, owners), a, check[h].seats)
         THEN Answer(h, {a}, {})
         ELSE Answer(h, {}, {a} \cap holders)
    /\ UNCHANGED data

\* One of the reads rejects: the sign-in or the refresh ends with an error.
ReadFails(h) ==
    /\ ~At(h, "idle")
    /\ Answer(h, {}, {})
    /\ UNCHANGED data

(* What the other services do meanwhile. *)

Disturbed ==
    /\ quiet' = {} /\ granted' = {} /\ waiting' = {}
    /\ UNCHANGED check

\* A term starts, lapses, or gives way to that of another plan.
ChangePlan ==
    /\ \E p \in (Plans \cup {Free}) \ {plan} :
         plan' = p /\ shut' = IF p = Free THEN shut ELSE {}
    /\ UNCHANGED <<seats, holders, owners>>
    /\ Disturbed

\* The rule of a paid plan is edited.
EditRule ==
    /\ \E p \in Plans, n \in 0..MaxSeats : seats' = [seats EXCEPT ![p] = n]
    /\ seats' # seats
    /\ UNCHANGED <<plan, holders, owners, shut>>
    /\ Disturbed

\* An admin is deactivated or activated again.
ChangeHolders ==
    /\ \E a \in Admins :
         holders' = IF a \in holders THEN holders \ {a} ELSE holders \cup {a}
    /\ UNCHANGED <<plan, seats, owners, shut>>
    /\ Disturbed

Next ==
    \/ \E h \in Handlers, a \in Admins : Ask(h, a)
    \/ \E h \in Handlers :
         ReadTerm(h) \/ ReadRule(h) \/ ReadHolders(h) \/ ReadFails(h)
    \/ ChangePlan \/ EditRule \/ ChangeHolders

Spec == Init /\ [][Next]_vars

-----------------------------------------------------------------------------
(* Properties. *)

\* "A free seat": as long as nothing changes, however many admins ask and in
\* whatever order their reads are served, no more are let in than the plan in
\* force has seats.
SeatsNotOversold == Cardinality(granted) <= seats[plan]

Ahead(a, b) ==
    IF a \in owners THEN b \in owners => a < b ELSE b \notin owners /\ a < b

\* "The owner goes first, then the oldest accounts, and the rest wait": as long
\* as nothing changes, nobody is let in past one who was told to wait.
NobodyIsOvertaken == \A a \in granted, b \in waiting : Ahead(a, b)

\* "The rest wait for a free seat": as long as nothing changes, nobody is told
\* to wait unless the admins ahead of them fill the seats.
NobodyWaitsForNothing ==
    \A b \in waiting :
        Cardinality({a \in holders : Ahead(a, b)}) >= seats[plan]

\* "A lapsed plan ends sessions": a sign-in or a refresh that never saw a paid
\* plan in force is refused before seats are counted, whatever else is edited
\* while it is under way.
LapsedPlanRefuses == \A h \in shut : ~At(h, "holders")
=============================================================================
