---------------------------- MODULE SessionTokens ----------------------------
(***************************************************************************)
(* The refresh tokens of the gateway: who gets one, how one is exchanged   *)
(* for the next, and how one ends.                                         *)
(*                                                                         *)
(* AuthService keeps no state in memory.  Its state is the RefreshToken    *)
(* table, reached through TokenRepository, and the Admin rows that the     *)
(* users subgraph edits.  Every request handler is a coroutine whose       *)
(* awaits are its only interleaving points, so a handler here is a record  *)
(* that says which await comes next and what the handler has read so far,  *)
(* and each action is one awaited database operation with the synchronous  *)
(* code that follows it.                                                   *)
(*                                                                         *)
(* A refresh token is a signed {subject, iat, exp} with no random part and *)
(* `iat' counts seconds, so two tokens signed for one subject within one   *)
(* second are the same string: a token IS its subject and its second.      *)
(***************************************************************************)
EXTENDS Integers, FiniteSets

CONSTANTS
    Sellers,         \* ids of sellers
    Admins,          \* ids of admins
    Roles,           \* the claims a row gives: adminRole, with its adminType
    BusinessRoles,   \* those whose adminType is BUSINESS
    NoRole,          \* the claim of a barred admin, and of every seller
    Nobody,          \* the subject of an idle handler
    NoToken,         \* the token of a handler that was given none
    Handlers,        \* requests in flight at one time (bound)
    RefreshTTL,      \* life of a refresh token, in seconds of the model
    Faults,          \* whether awaits may fail and the process may stop
    MaxNow           \* bound of the clock

Subject == Sellers \cup Admins
Seconds == 0..MaxNow
Token == [sub : Subject, iat : Seconds]

ASSUME SubjectsDistinct == Sellers \cap Admins = {} /\ Nobody \notin Subject
ASSUME BusinessAreRoles == BusinessRoles \subseteq Roles
ASSUME NoRoleIsNone == NoRole \notin Roles
ASSUME NoTokenIsNone == NoToken \notin Token
ASSUME TimesAreNat == RefreshTTL \in Nat /\ MaxNow \in Nat
ASSUME FaultsAreBoolean == Faults \in BOOLEAN

VARIABLES
    now,        \* the clock, in seconds
    live,       \* rows of RefreshToken with isRevoked = false
    revoked,    \* rows of RefreshToken with isRevoked = true
    standing,   \* the role of each admin, NoRole once inactive or locked
    req,        \* the request each handler is serving
    minted,     \* history: the pairs that were issued, with their origin
    signedOut,  \* history: tokens whose logout was answered
    contested   \* history: tokens that two requests have raced for

vars == <<now, live, revoked, standing, req, minted, signedOut, contested>>

Ops == {"none", "login", "loginAdmin", "refresh", "refreshAdmin", "logout"}
Refreshes == {"refresh", "refreshAdmin"}
Steps == {"idle", "isRevoked", "revoke", "reread", "panel", "touch", "save"}

Standing == Roles \cup {NoRole}

\* `late' and `seen' are history: whether the token presented was already
\* revoked when the request arrived, and every standing the admin has had
\* since then.
Request ==
    [op : Ops, step : Steps, sub : Subject \cup {Nobody},
     token : Token \cup {NoToken}, signedAt : Seconds, claim : Standing,
     late : BOOLEAN, seen : SUBSET Standing]

Pair ==
    [token : Token, parent : Token \cup {NoToken},
     late : BOOLEAN, current : BOOLEAN]

Idle ==
    [op |-> "none", step |-> "idle", sub |-> Nobody, token |-> NoToken,
     signedAt |-> 0, claim |-> NoRole, late |-> FALSE, seen |-> {}]

TypeOK ==
    /\ now \in Seconds
    /\ live \subseteq Token
    /\ revoked \subseteq Token
    /\ standing \in [Admins -> Standing]
    /\ req \in [Handlers -> Request]
    /\ minted \subseteq Pair
    /\ signedOut \subseteq Token
    /\ contested \subseteq Token

Init ==
    /\ now = 0
    /\ live = {} /\ revoked = {}
    /\ standing \in [Admins -> Roles]
    /\ req = [h \in Handlers |-> Idle]
    /\ minted = {} /\ signedOut = {} /\ contested = {}

-----------------------------------------------------------------------------
(* The race for a token.  Between isRevoked and revoke lies an await, so     *)
(* two requests can both find one token live.  Nothing in the gateway keeps  *)
(* a client from that; a history remembers for which tokens it happened.     *)

\* A request has a token in hand from the answer of isRevoked on; logout
\* never asks.
InHand(h, t, ops) ==
    /\ req[h].op \in ops
    /\ req[h].step # "isRevoked"
    /\ req[h].token = t

\* One more request takes t in hand, beside one of ops that has it already.
Contend(t, ops) ==
    contested' = IF \E k \in Handlers : InHand(k, t, ops)
                 THEN contested \cup {t}
                 ELSE contested

-----------------------------------------------------------------------------
(* Arrivals.  Each one starts an idle handler. *)

Seen(u) == IF u \in Admins THEN {standing[u]} ELSE {}

Begin(h, o, s, u, t, c) ==
    /\ req[h].step = "idle"
    /\ req' = [req EXCEPT ![h] =
                 [op |-> o, step |-> s, sub |-> u, token |-> t,
                  signedAt |-> 0, claim |-> c,
                  late |-> t \in revoked, seen |-> Seen(u)]]
    /\ UNCHANGED <<now, live, revoked, standing, minted, signedOut>>

\* POST /session: the seller's row, password and approval were accepted
\* (LoginLockout models that part); what is left is the row update, the
\* signing and the save.
Login(h, s) ==
    /\ Begin(h, "login", "touch", s, NoToken, NoRole)
    /\ UNCHANGED contested

\* POST /session/admin: the row is read once, here, and the claims signed at
\* the end come from this read.
LoginAdmin(h, a) ==
    /\ standing[a] # NoRole
    /\ Begin(h, "loginAdmin",
             IF standing[a] \in BusinessRoles THEN "panel" ELSE "touch",
             a, NoToken, standing[a])
    /\ UNCHANGED contested

\* A client may hold any token that was saved: whether the answer that carries
\* it was lost, or the client lets it lie, makes no difference here.
Saved == live \cup revoked

\* What jwtService.verify accepts: a token of ours that has not expired.
Verifies(t) == now < t.iat + RefreshTTL

\* Both refresh endpoints verify with the same secret, so either accepts the
\* token of either kind of subject.
Refresh(h, t) ==
    /\ Verifies(t)
    /\ Begin(h, "refresh", "isRevoked", t.sub, t, NoRole)
    /\ UNCHANGED contested

RefreshAdmin(h, t) ==
    /\ Verifies(t)
    /\ Begin(h, "refreshAdmin", "isRevoked", t.sub, t, NoRole)
    /\ UNCHANGED contested

\* logout does not verify the token it is given.
Logout(h, t) ==
    /\ Begin(h, "logout", "revoke", t.sub, t, NoRole)
    /\ Contend(t, Refreshes)

-----------------------------------------------------------------------------
(* Steps.  Each one is the next await of a handler and the code after it. *)

At(h, s) == req[h].step = s

\* The request is answered, with a pair or with an error.
Answer(h) == req' = [req EXCEPT ![h] = Idle]

\* Mutant of Sign: the second of expiry is taken for the second of issue.
SignExpiry(h) ==
    req' = [req EXCEPT ![h].step = "save", ![h].signedAt = now + RefreshTTL]

\* The pair is signed, synchronously, before the await that saves it.
Sign(h) == req' = [req EXCEPT ![h].step = "save", ![h].signedAt = now]

\* Mutant of IsRevoked: a row that exists is taken for a live one.
IsUnknown(h) ==
    /\ At(h, "isRevoked")
    /\ IF req[h].token \in Saved
       THEN /\ req' = [req EXCEPT ![h].step = "revoke"]
            /\ Contend(req[h].token, Refreshes \cup {"logout"})
       ELSE Answer(h) /\ UNCHANGED contested
    /\ UNCHANGED <<now, live, revoked, standing, minted, signedOut>>

IsRevoked(h) ==
    /\ At(h, "isRevoked")
    /\ IF req[h].token \in live
       THEN /\ req' = [req EXCEPT ![h].step = "revoke"]
            /\ Contend(req[h].token, Refreshes \cup {"logout"})
       ELSE Answer(h) /\ UNCHANGED contested
    /\ UNCHANGED <<now, live, revoked, standing, minted, signedOut>>

\* Mutants of RevokeRow: the row is deleted; the row is left as it was.
DeleteRow(t) == live' = live \ {t} /\ UNCHANGED revoked
KeepRow(t) == UNCHANGED <<live, revoked>>

\* The update of TokenRepository.revoke: it touches only a row that is live.
RevokeRow(t) ==
    /\ live' = live \ {t}
    /\ revoked' = revoked \cup ({t} \cap live)

\* What the handler does once its token is revoked.  A token of the other
\* kind has no seller or admin id: the next database call gets `undefined'
\* and rejects.
AfterRevoke(h) ==
    LET r == req[h] IN
    CASE r.op = "refresh" /\ r.sub \in Sellers -> Sign(h)
      [] r.op = "refreshAdmin" /\ r.sub \in Admins ->
            req' = [req EXCEPT ![h].step = "reread"]
      [] OTHER -> Answer(h)

Revoke(h) ==
    /\ At(h, "revoke")
    /\ RevokeRow(req[h].token)
    /\ AfterRevoke(h)
    /\ signedOut' = IF req[h].op = "logout"
                    THEN signedOut \cup {req[h].token}
                    ELSE signedOut
    /\ UNCHANGED <<now, standing, minted, contested>>

\* The row is revoked, but the answer of the database is lost: the await
\* rejects.
RevokeUnanswered(h) ==
    /\ Faults
    /\ At(h, "revoke")
    /\ RevokeRow(req[h].token)
    /\ Answer(h)
    /\ UNCHANGED <<now, standing, minted, signedOut, contested>>

\* Mutant of Reread: the admin's isActive and accountLocked are not looked at.
RereadTrusting(h) ==
    /\ At(h, "reread")
    /\ req' = [req EXCEPT ![h].step = "save", ![h].signedAt = now,
                          ![h].claim = standing[req[h].sub]]
    /\ UNCHANGED <<now, live, revoked, standing, minted, signedOut, contested>>

\* refreshAdminToken reads the admin again, after the revocation.
Reread(h) ==
    /\ At(h, "reread")
    /\ LET s == standing[req[h].sub] IN
       CASE s = NoRole -> Answer(h)
         [] s \in BusinessRoles ->
               req' = [req EXCEPT ![h].step = "panel", ![h].claim = s]
         [] OTHER ->
               req' = [req EXCEPT ![h].step = "save", ![h].claim = s,
                                  ![h].signedAt = now]
    /\ UNCHANGED <<now, live, revoked, standing, minted, signedOut, contested>>

\* businessPanelRefusal, whose verdict PanelSeats models: refused, or go on.
Panel(h) ==
    /\ At(h, "panel")
    /\ \/ Answer(h)
       \/ IF req[h].op = "loginAdmin"
          THEN req' = [req EXCEPT ![h].step = "touch"]
          ELSE Sign(h)
    /\ UNCHANGED <<now, live, revoked, standing, minted, signedOut, contested>>

\* A sign-in updates the counters and lastLoginAt of its row (the counters are
\* LoginLockout's), then signs.
Touch(h) ==
    /\ At(h, "touch")
    /\ Sign(h)
    /\ UNCHANGED <<now, live, revoked, standing, minted, signedOut, contested>>

Child(h) == [sub |-> req[h].sub, iat |-> req[h].signedAt]

NewPair(h) ==
    [token |-> Child(h), parent |-> req[h].token,
     late |-> req[h].late,
     current |-> req[h].claim \in req[h].seen \ {NoRole}]

\* Mutant of Save: an upsert.
SaveUpserts(h) ==
    /\ At(h, "save")
    /\ live' = live \cup {Child(h)}
    /\ minted' = minted \cup {NewPair(h)}
    /\ Answer(h)
    /\ UNCHANGED <<now, revoked, standing, signedOut, contested>>

\* TokenRepository.save creates a row, and the token column is unique.
Save(h) ==
    /\ At(h, "save")
    /\ IF Child(h) \in Saved
       THEN UNCHANGED <<live, minted>>
       ELSE /\ live' = live \cup {Child(h)}
            /\ minted' = minted \cup {NewPair(h)}
    /\ Answer(h)
    /\ UNCHANGED <<now, revoked, standing, signedOut, contested>>

\* Any await may reject without having done anything.
AwaitFails(h) ==
    /\ Faults
    /\ ~At(h, "idle")
    /\ Answer(h)
    /\ UNCHANGED <<now, live, revoked, standing, minted, signedOut, contested>>

-----------------------------------------------------------------------------
(* The process and its environment. *)

\* The process stops and starts again: the requests in flight are gone.
Crash ==
    /\ Faults
    /\ \E h \in Handlers : ~At(h, "idle")
    /\ req' = [h \in Handlers |-> Idle]
    /\ UNCHANGED <<now, live, revoked, standing, minted, signedOut, contested>>

\* The users subgraph changes a role, deactivates, locks or restores an admin.
ChangeStanding(a, s) ==
    /\ s # standing[a]
    /\ standing' = [standing EXCEPT ![a] = s]
    /\ req' = [h \in Handlers |->
                 IF req[h].sub = a
                 THEN [req[h] EXCEPT !.seen = @ \cup {s}]
                 ELSE req[h]]
    /\ UNCHANGED <<now, live, revoked, minted, signedOut, contested>>

Tick ==
    /\ now < MaxNow
    /\ now' = now + 1
    /\ UNCHANGED <<live, revoked, standing, req, minted, signedOut, contested>>

Arrive(h) ==
    \/ \E s \in Sellers : Login(h, s)
    \/ \E a \in Admins : LoginAdmin(h, a)
    \/ \E t \in Saved : Refresh(h, t) \/ RefreshAdmin(h, t) \/ Logout(h, t)

Proceed(h) ==
    \/ IsRevoked(h) \/ Revoke(h) \/ Reread(h) \/ Panel(h) \/ Touch(h) \/ Save(h)

Step(h) == Proceed(h) \/ RevokeUnanswered(h) \/ AwaitFails(h)

Next ==
    \/ \E h \in Handlers : Arrive(h) \/ Step(h)
    \/ \E a \in Admins, s \in Standing : ChangeStanding(a, s)
    \/ Crash
    \/ Tick

Spec == Init /\ [][Next]_vars

\* The event loop runs every handler whose await has settled, and every await
\* settles; nothing makes a client send a request, an admin change, or an
\* await fail.
FairSpec == Spec /\ \A h \in Handlers : WF_vars(Proceed(h))

-----------------------------------------------------------------------------
(* Properties. *)

\* A token that was revoked is never honoured again: no step takes its row
\* away or makes it live, not even a save that signs the same string again.
RevokedStaysRevoked ==
    [][revoked \subseteq revoked' /\ live' \cap revoked = {}]_vars

\* Rotation: whatever fails, stops or interleaves, the token a refresh was
\* paid with is revoked by the time the pair it bought exists.
ParentRevoked ==
    \A m \in minted : m.parent # NoToken => m.parent \in revoked

\* A refresh that arrives after its token was used or signed out never issues
\* a pair, whatever the other handlers do meanwhile.
LateRefreshRefused == \A m \in minted : ~m.late

\* An admin pair carries a role the admin held at some moment since the
\* request arrived: an admin barred throughout gets none, and no pair carries
\* a role taken from an older token.
ClaimsAreCurrent ==
    \A m \in minted :
        m.token.sub \in Admins => m.current

\* "a second refresh with the same token" is refused: one token buys at most
\* one pair.
TokenIsSpentOnce ==
    \A m, n \in minted :
        m.parent = n.parent /\ m.parent # NoToken => m = n

\* What is left of that promise: a token buys a second pair only if two
\* requests were between isRevoked and revoke with it at one time, however
\* they interleave, fail or stop before, between and after.
OnlyContestedSpentTwice ==
    \A m, n \in minted :
        m.parent = n.parent /\ m.parent # NoToken
            => m = n \/ m.parent \in contested

\* "Both cookies cleared, session terminated": once the logout of a token was
\* answered, no pair is bought with it, unless a refresh was past its check
\* with that token while the logout was served.
LogoutTerminates ==
    [][\A m \in minted' \ minted :
         m.parent \in signedOut => m.parent \in contested]_vars

\* "Rotate: revoke the used token and issue a new pair": with no fault, a
\* refresh that revoked its token and signed the pair issues that pair.
RotationCompletes ==
    [][\A h \in Handlers :
         At(h, "save") /\ ~At(h, "save")' /\ req[h].op = "refresh"
            => \E m \in minted' : m.parent = req[h].token]_vars

-----------------------------------------------------------------------------
(* The promise this implements: see SessionChains.  From the moment a       *)
(* refresh finds its token live until it is answered, the token stands for   *)
(* its session, although its row is revoked on the way.                      *)

Exchanging ==
    {t \in live \cup revoked : \E h \in Handlers : InHand(h, t, Refreshes)}

Bought == {<<m.parent, m.token>> : m \in {n \in minted : n.parent # NoToken}}

Chains == INSTANCE SessionChains WITH
    active <- live \cup Exchanging,
    spent <- revoked \ Exchanging,
    bought <- Bought,
    contested <- contested

\* No interleaving, failure or stop of the process opens a session without a
\* sign-in or revives one, and a session branches only at a token that two
\* requests raced for.
SessionsAreChains == Chains!Spec
=============================================================================
