---------------------------- MODULE SessionChains ----------------------------
(***************************************************************************)
(* What the refresh tokens promise, without handlers, rows or failures: a  *)
(* sign-in opens a session that one token stands for; a refresh hands the  *)
(* session on, in one step, to one successor; and a session ends by losing *)
(* its token.  The one exception is said openly: a token that two requests *)
(* contend for may have several successors.                                *)
(***************************************************************************)
CONSTANT Token

VARIABLES
    active,    \* the tokens that stand for a session
    spent,     \* the tokens that no longer do
    bought,    \* every <<token, successor>> of a rotation
    contested  \* the tokens that were contended for

vars == <<active, spent, bought, contested>>

Init == active = {} /\ spent = {} /\ bought = {} /\ contested = {}

Fresh(t) == t \in Token \ (active \cup spent)

Open(t) ==
    /\ Fresh(t)
    /\ active' = active \cup {t}
    /\ UNCHANGED <<spent, bought, contested>>

Contest(t) ==
    /\ t \in active
    /\ contested' = contested \cup {t}
    /\ UNCHANGED <<active, spent, bought>>

\* The session of p goes on as that of c, of the same subject.
Buy(p, c) ==
    /\ p \in active
    /\ Fresh(c)
    /\ p.sub = c.sub
    /\ bought' = bought \cup {<<p, c>>}
    /\ UNCHANGED contested

Rotate(p, c) ==
    /\ Buy(p, c)
    /\ active' = (active \ {p}) \cup {c}
    /\ spent' = spent \cup {p}

\* One of the requests that contend for p has its successor, others may follow.
Fork(p, c) ==
    /\ Buy(p, c)
    /\ p \in contested
    /\ active' = active \cup {c}
    /\ UNCHANGED spent

\* A logout, a refusal, a failure, or a stop of the process that several
\* exchanges were caught in.
End(T) ==
    /\ T \subseteq active
    /\ active' = active \ T
    /\ spent' = spent \cup T
    /\ UNCHANGED <<bought, contested>>

Next ==
    \/ \E t \in Token : Open(t) \/ Contest(t)
    \/ \E p, c \in Token : Rotate(p, c) \/ Fork(p, c)
    \/ \E T \in SUBSET active : End(T)

Spec == Init /\ [][Next]_vars
=============================================================================
