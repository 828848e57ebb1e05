------------------------- MODULE SessionTokensProofs -------------------------
(***************************************************************************)
(* Proofs about SessionTokens, for every number of subjects, handlers and  *)
(* seconds, with and without faults.                                       *)
(*                                                                         *)
(* The argument rests on what a handler knows at each of its steps: past   *)
(* the revocation its token is revoked for good, it can only be there if   *)
(* the token was live when it looked, and an admin claim it carries is one *)
(* of the standings it has seen.                                           *)
(***************************************************************************)
EXTENDS SessionTokens, FiniteSetTheorems, TLAPS

\* Which steps each operation goes through.
StepOfOp(r) ==
    /\ r.op = "none" => r.step = "idle"
    /\ r.op = "login" => r.step \in {"touch", "save"} /\ r.sub \in Sellers
    /\ r.op = "loginAdmin" =>
         r.step \in {"panel", "touch", "save"} /\ r.sub \in Admins
    /\ r.op = "refresh" => r.step \in {"isRevoked", "revoke", "save"}
    /\ r.op = "refreshAdmin" =>
         r.step \in {"isRevoked", "revoke", "reread", "panel", "save"}
    /\ r.op = "logout" => r.step = "revoke"

\* Which token each operation holds, of the live ones L and the revoked R.
TokenOfOp(r, L, R) ==
    /\ r.op \in {"none", "login", "loginAdmin"} => r.token = NoToken /\ ~r.late
    /\ r.op \in Refreshes \cup {"logout"} =>
         r.token \in L \cup R /\ r.token.sub = r.sub

\* What a refresh knows about its token.
TokenKnown(r, R) ==
    r.op \in Refreshes =>
        /\ r.step \in {"reread", "panel", "save"} => r.token \in R
        /\ r.late => r.step = "isRevoked" /\ r.token \in R

\* What a handler knows about the admin it serves, whose standing S gives.
ClaimKnown(r, S) ==
    /\ r.sub \in Admins => S[r.sub] \in r.seen
    /\ r.op = "refresh" /\ r.step = "save" => r.sub \in Sellers
    /\ r.op = "refreshAdmin" /\ r.step \in {"reread", "panel", "save"}
         => r.sub \in Admins
    /\ r.step \in {"panel", "touch", "save"} /\ r.sub \in Admins
         => r.claim \in r.seen \ {NoRole}

Knows(r, L, R, S) ==
    StepOfOp(r) /\ TokenOfOp(r, L, R) /\ TokenKnown(r, R) /\ ClaimKnown(r, S)

HandlersKnow == \A h \in Handlers : Knows(req[h], live, revoked, standing)

Disjoint == live \cap revoked = {}

PairsAreGood == ParentRevoked /\ LateRefreshRefused /\ ClaimsAreCurrent

IInv == TypeOK /\ Disjoint /\ HandlersKnow /\ PairsAreGood

-----------------------------------------------------------------------------
(* Type correctness. *)

\* The idle request is a request.
LEMMA IdleType == Idle \in Request
  BY NoTokenIsNone, TimesAreNat
     DEF Idle, Request, Ops, Steps, Standing, Seconds

LEMMA InitType == Init => TypeOK
  BY IdleType, TimesAreNat DEF Init, TypeOK, Standing, Seconds

\* What every arrival does to the request of its handler.
LEMMA BeginType ==
  ASSUME TypeOK, NEW h \in Handlers, NEW o \in Ops, NEW s \in Steps,
         NEW u \in Subject, NEW t \in Token \cup {NoToken}, NEW c \in Standing,
         Begin(h, o, s, u, t, c), contested' \subseteq Token
  PROVE  TypeOK'
  <1>1. Seen(u) \subseteq Standing
    BY DEF Seen, TypeOK
  <1>2. [op |-> o, step |-> s, sub |-> u, token |-> t, signedAt |-> 0,
         claim |-> c, late |-> t \in revoked, seen |-> Seen(u)] \in Request
    BY <1>1, TimesAreNat DEF Request, Seconds
  <1> QED
    BY <1>2 DEF Begin, TypeOK

\* The race history only ever gains tokens.
LEMMA ContendType ==
  ASSUME TypeOK, NEW t \in Token, NEW ops, Contend(t, ops)
  PROVE  contested' \subseteq Token
  BY DEF Contend, TypeOK

\* The two ways a step leaves a request: answered, or signed.
LEMMA AnswerType ==
  ASSUME TypeOK, NEW h \in Handlers, Answer(h)
  PROVE  req' \in [Handlers -> Request]
  BY IdleType DEF Answer, TypeOK

LEMMA SignType ==
  ASSUME TypeOK, NEW h \in Handlers, Sign(h)
  PROVE  req' \in [Handlers -> Request]
  <1>1. req[h] \in Request /\ now \in Seconds
    BY DEF TypeOK
  <1>2. [req[h] EXCEPT !.step = "save", !.signedAt = now] \in Request
    BY <1>1 DEF Request, Steps
  <1> QED
    BY <1>2 DEF Sign, TypeOK

-----------------------------------------------------------------------------
(* What the handlers know survives what the others do. *)

\* A handler that has not moved still knows what it knew after rows were added
\* or revoked.
LEMMA KnowsIsKept ==
  ASSUME NEW r, NEW L, NEW R, NEW L2, NEW R2, NEW S,
         Knows(r, L, R, S), R \subseteq R2, L \cup R \subseteq L2 \cup R2
  PROVE  Knows(r, L2, R2, S)
  BY DEF Knows, TokenOfOp, TokenKnown, Refreshes

LEMMA IdleKnows ==
  ASSUME NEW L, NEW R, NEW S
  PROVE  Knows(Idle, L, R, S)
  BY SubjectsDistinct
     DEF Knows, Idle, StepOfOp, TokenOfOp, TokenKnown, ClaimKnown, Refreshes,
         Subject

\* A step of one handler that adds or revokes rows: only its own request needs
\* looking at.
LEMMA OthersKnow ==
  ASSUME TypeOK, HandlersKnow, NEW h \in Handlers,
         \A k \in Handlers \ {h} : req'[k] = req[k],
         revoked \subseteq revoked', live \cup revoked \subseteq live' \cup revoked',
         standing' = standing,
         Knows(req'[h], live', revoked', standing')
  PROVE  HandlersKnow'
  <1> SUFFICES ASSUME NEW k \in Handlers
               PROVE  Knows(req'[k], live', revoked', standing')
    BY DEF HandlersKnow
  <1>1. CASE k = h
    BY <1>1
  <1>2. CASE k # h
    BY <1>2, KnowsIsKept DEF HandlersKnow
  <1> QED
    BY <1>1, <1>2

\* An answered request leaves nothing to know.
LEMMA AnswerKnows ==
  ASSUME TypeOK, HandlersKnow, NEW h \in Handlers, Answer(h),
         revoked \subseteq revoked', live \cup revoked \subseteq live' \cup revoked',
         standing' = standing
  PROVE  HandlersKnow'
  <1>1. req'[h] = Idle /\ \A k \in Handlers \ {h} : req'[k] = req[k]
    BY DEF Answer, TypeOK
  <1> QED
    BY <1>1, IdleKnows, OthersKnow

\* A request that arrived knows its token and its admin.
LEMMA BeginKnows ==
  ASSUME IInv, NEW h \in Handlers, NEW o \in Ops, NEW s \in Steps,
         NEW u \in Subject, NEW t \in Token \cup {NoToken}, NEW c \in Standing,
         Begin(h, o, s, u, t, c), contested' \subseteq Token,
         \/ o = "login" /\ s = "touch" /\ t = NoToken /\ u \in Sellers
         \/ o = "loginAdmin" /\ s \in {"panel", "touch"} /\ t = NoToken
              /\ u \in Admins /\ c = standing[u] /\ c # NoRole
         \/ o \in Refreshes /\ s = "isRevoked" /\ t \in Saved /\ u = t.sub
         \/ o = "logout" /\ s = "revoke" /\ t \in Saved /\ u = t.sub
  PROVE  IInv'
  <1> DEFINE r == [op |-> o, step |-> s, sub |-> u, token |-> t, signedAt |-> 0,
                   claim |-> c, late |-> t \in revoked, seen |-> Seen(u)]
  <1>1. TypeOK'
    BY BeginType DEF IInv
  <1>2. UNCHANGED <<live, revoked, standing, minted>>
    BY DEF Begin
  <1>3. req'[h] = r /\ \A k \in Handlers \ {h} : req'[k] = req[k]
    BY DEF Begin, IInv, TypeOK
  <1>4. NoToken \notin revoked
    BY NoTokenIsNone DEF IInv, TypeOK
  <1>5. StepOfOp(r)
    BY DEF StepOfOp, Refreshes
  <1>6. TokenOfOp(r, live, revoked) /\ TokenKnown(r, revoked)
    BY <1>4 DEF TokenOfOp, TokenKnown, Refreshes, Saved
  <1>7. ClaimKnown(r, standing)
    BY SubjectsDistinct DEF ClaimKnown, Seen, Refreshes
  <1>8. HandlersKnow'
    BY <1>2, <1>3, <1>5, <1>6, <1>7, OthersKnow DEF Knows, IInv
  <1> QED
    BY <1>1, <1>2, <1>8
       DEF IInv, Disjoint, PairsAreGood, ParentRevoked, LateRefreshRefused,
           ClaimsAreCurrent

-----------------------------------------------------------------------------
(* The invariant is preserved, step by step. *)

\* A step of one handler that issues no pair: what is left to show is that the
\* handler knows, in its new state, what it should.
LEMMA MoveKeeps ==
  ASSUME IInv, NEW h \in Handlers, NEW r \in Request,
         req' = [req EXCEPT ![h] = r],
         Knows(r, live', revoked', standing),
         live' \subseteq Token, revoked' \subseteq Token, live' \cap revoked' = {},
         revoked \subseteq revoked', live \cup revoked \subseteq live' \cup revoked',
         signedOut' \subseteq Token, contested' \subseteq Token,
         UNCHANGED <<now, standing, minted>>
  PROVE  IInv'
  <1>1. TypeOK'
    BY DEF IInv, TypeOK
  <1>2. req'[h] = r /\ \A k \in Handlers \ {h} : req'[k] = req[k]
    BY DEF IInv, TypeOK
  <1>3. HandlersKnow'
    BY <1>2, OthersKnow DEF IInv
  <1>4. PairsAreGood'
    BY DEF IInv, PairsAreGood, ParentRevoked, LateRefreshRefused, ClaimsAreCurrent
  <1> QED
    BY <1>1, <1>3, <1>4 DEF IInv, Disjoint

\* The same, for a step that leaves the table alone.
LEMMA QuietMoveKeeps ==
  ASSUME IInv, NEW h \in Handlers, NEW r \in Request,
         req' = [req EXCEPT ![h] = r], Knows(r, live, revoked, standing),
         UNCHANGED <<now, live, revoked, standing, minted, signedOut, contested>>
  PROVE  IInv'
  <1>1. live' \subseteq Token /\ revoked' \subseteq Token /\ signedOut' \subseteq Token
        /\ contested' \subseteq Token /\ live' \cap revoked' = {}
    BY DEF IInv, TypeOK, Disjoint
  <1>2. Knows(r, live', revoked', standing)
    OBVIOUS
  <1> QED
    BY <1>1, <1>2, MoveKeeps

\* Answering and leaving the table alone.
LEMMA AnswerKeeps ==
  ASSUME IInv, NEW h \in Handlers, Answer(h),
         UNCHANGED <<now, live, revoked, standing, minted, signedOut, contested>>
  PROVE  IInv'
  BY QuietMoveKeeps, IdleType, IdleKnows DEF Answer

\* The state a handler is in after signing.
LEMMA Signed ==
  ASSUME TypeOK, NEW h \in Handlers, Sign(h)
  PROVE  /\ [req[h] EXCEPT !.step = "save", !.signedAt = now] \in Request
         /\ req' = [req EXCEPT ![h] =
                      [req[h] EXCEPT !.step = "save", !.signedAt = now]]
  <1>1. req[h] \in Request /\ now \in Seconds
    BY DEF TypeOK
  <1>2. [req[h] EXCEPT !.step = "save", !.signedAt = now] \in Request
    BY <1>1 DEF Request, Steps
  <1> QED
    BY <1>2 DEF Sign, TypeOK

LEMMA ArriveKeeps ==
  ASSUME IInv, NEW h \in Handlers, Arrive(h)
  PROVE  IInv'
  <1>0. TypeOK /\ contested \subseteq Token
    BY DEF IInv, TypeOK
  <1>1. ASSUME NEW s \in Sellers, Login(h, s) PROVE IInv'
    BY <1>0, <1>1, BeginKnows DEF Login, Ops, Steps, Subject, Standing
  <1>2. ASSUME NEW a \in Admins, LoginAdmin(h, a) PROVE IInv'
    <2>1. standing[a] \in Standing /\ a \in Subject
      BY <1>0 DEF TypeOK, Subject
    <2>2. CASE standing[a] \in BusinessRoles
      BY <1>0, <1>2, <2>1, <2>2, BeginKnows DEF LoginAdmin, Ops, Steps
    <2>3. CASE standing[a] \notin BusinessRoles
      BY <1>0, <1>2, <2>1, <2>3, BeginKnows DEF LoginAdmin, Ops, Steps
    <2> QED
      BY <2>2, <2>3
  <1>3. ASSUME NEW t \in Saved, Refresh(h, t) PROVE IInv'
    <2>1. t \in Token /\ t.sub \in Subject
      BY <1>0 DEF TypeOK, Saved, Token
    <2> QED
      BY <1>0, <1>3, <2>1, BeginKnows DEF Refresh, Refreshes, Ops, Steps, Standing
  <1>4. ASSUME NEW t \in Saved, RefreshAdmin(h, t) PROVE IInv'
    <2>1. t \in Token /\ t.sub \in Subject
      BY <1>0 DEF TypeOK, Saved, Token
    <2> QED
      BY <1>0, <1>4, <2>1, BeginKnows DEF RefreshAdmin, Refreshes, Ops, Steps, Standing
  <1>5. ASSUME NEW t \in Saved, Logout(h, t) PROVE IInv'
    <2>1. t \in Token /\ t.sub \in Subject
      BY <1>0 DEF TypeOK, Saved, Token
    <2> QED
      BY <1>0, <1>5, <2>1, ContendType, BeginKnows
         DEF Logout, Refreshes, Ops, Steps, Standing
  <1> QED
    BY <1>1, <1>2, <1>3, <1>4, <1>5 DEF Arrive

\* Only a refresh asks, and it goes on only with a token that is live, so not
\* with one that was revoked when it arrived.
LEMMA IsRevokedKeeps ==
  ASSUME IInv, NEW h \in Handlers, IsRevoked(h)
  PROVE  IInv'
  <1> DEFINE r == [req[h] EXCEPT !.step = "revoke"]
  <1>1. UNCHANGED <<now, live, revoked, standing, minted, signedOut>>
    BY DEF IsRevoked
  <1>2. CASE req[h].token \notin live
    BY <1>1, <1>2, AnswerKeeps DEF IsRevoked
  <1>3. CASE req[h].token \in live
    <2>1. req[h] \in Request /\ Knows(req[h], live, revoked, standing)
      BY DEF IInv, TypeOK, HandlersKnow
    <2>2. r \in Request
      BY <2>1 DEF Request, Steps
    <2>3. req' = [req EXCEPT ![h] = r]
      BY <1>3 DEF IsRevoked
    <2>4. req[h].step = "isRevoked" /\ req[h].op \in Refreshes
      BY <2>1 DEF IsRevoked, At, Knows, StepOfOp, Request, Ops, Refreshes
    <2>5. ~req[h].late
      BY <1>3, <2>1, <2>4 DEF Knows, TokenKnown, IInv, Disjoint
    <2>6. Knows(r, live, revoked, standing)
      BY <2>1, <2>4, <2>5
         DEF Knows, StepOfOp, TokenOfOp, TokenKnown, ClaimKnown, Refreshes, Request
    <2>7. contested' \subseteq Token
      BY <1>3, ContendType DEF IsRevoked, IInv, TypeOK
    <2>8. /\ live' \subseteq Token /\ revoked' \subseteq Token /\ signedOut' \subseteq Token
          /\ live' \cap revoked' = {} /\ Knows(r, live', revoked', standing)
      BY <1>1, <2>6 DEF IInv, TypeOK, Disjoint
    <2> QED
      BY <1>1, <2>2, <2>3, <2>7, <2>8, MoveKeeps
  <1> QED
    BY <1>2, <1>3

\* The row is revoked before anything else is done, so the handlers that go on
\* hold a revoked token, and those that looked before find nothing to take back.
LEMMA RevokeKeeps ==
  ASSUME IInv, NEW h \in Handlers, Revoke(h) \/ RevokeUnanswered(h)
  PROVE  IInv'
  <1> DEFINE t == req[h].token
  <1>1. /\ req[h] \in Request /\ Knows(req[h], live, revoked, standing)
        /\ live \subseteq Token /\ revoked \subseteq Token /\ live \cap revoked = {}
        /\ signedOut \subseteq Token /\ contested \subseteq Token
    BY DEF IInv, TypeOK, HandlersKnow, Disjoint
  <1>2. /\ req[h].step = "revoke"
        /\ req[h].op \in Refreshes \cup {"logout"}
        /\ t \in live \cup revoked /\ t.sub = req[h].sub
    BY <1>1 DEF Revoke, RevokeUnanswered, At, Knows, StepOfOp, TokenOfOp, Request, Ops, Refreshes
  <1>3. /\ live' \subseteq Token /\ revoked' \subseteq Token
        /\ live' \cap revoked' = {} /\ revoked \subseteq revoked'
        /\ live \cup revoked \subseteq live' \cup revoked'
        /\ t \in revoked'
    BY <1>1, <1>2 DEF Revoke, RevokeUnanswered, RevokeRow
  <1>4. signedOut' \subseteq Token /\ contested' \subseteq Token
        /\ UNCHANGED <<now, standing, minted>>
    BY <1>1, <1>2 DEF Revoke, RevokeUnanswered
  <1>5. CASE Answer(h)
    BY <1>3, <1>4, <1>5, IdleType, IdleKnows, MoveKeeps DEF Answer
  <1>6. CASE req[h].op = "refresh" /\ req[h].sub \in Sellers /\ Sign(h)
    <2> DEFINE r == [req[h] EXCEPT !.step = "save", !.signedAt = now]
    <2>1. r \in Request /\ req' = [req EXCEPT ![h] = r]
      BY <1>6, Signed DEF IInv
    <2>2. req[h].sub \notin Admins
      BY <1>6, SubjectsDistinct
    <2>3. Knows(r, live', revoked', standing)
      BY <1>1, <1>2, <1>3, <1>6, <2>2
         DEF Knows, StepOfOp, TokenOfOp, TokenKnown, ClaimKnown, Refreshes, Request
    <2> QED
      BY <1>3, <1>4, <2>1, <2>3, MoveKeeps
  <1>7. CASE /\ req[h].op = "refreshAdmin" /\ req[h].sub \in Admins
             /\ req' = [req EXCEPT ![h].step = "reread"]
    <2> DEFINE r == [req[h] EXCEPT !.step = "reread"]
    <2>1. r \in Request
      BY <1>1 DEF Request, Steps
    <2>2. req' = [req EXCEPT ![h] = r]
      BY <1>7
    <2>3. Knows(r, live', revoked', standing)
      BY <1>1, <1>2, <1>3, <1>7
         DEF Knows, StepOfOp, TokenOfOp, TokenKnown, ClaimKnown, Refreshes, Request
    <2> QED
      BY <1>3, <1>4, <2>1, <2>2, <2>3, MoveKeeps
  <1> QED
    BY <1>5, <1>6, <1>7 DEF Revoke, RevokeUnanswered, AfterRevoke

\* The claims come from the standing that holds at this moment.
LEMMA RereadKeeps ==
  ASSUME IInv, NEW h \in Handlers, Reread(h)
  PROVE  IInv'
  <1> DEFINE s == standing[req[h].sub]
  <1>1. /\ req[h] \in Request /\ Knows(req[h], live, revoked, standing)
        /\ standing \in [Admins -> Standing] /\ now \in Seconds
    BY DEF IInv, TypeOK, HandlersKnow
  <1>2. req[h].step = "reread"
    BY DEF Reread, At
  <1>3. req[h].op = "refreshAdmin"
    BY <1>1, <1>2 DEF Knows, StepOfOp, Request, Ops
  <1>4. req[h].sub \in Admins /\ s \in Standing /\ s \in req[h].seen
    BY <1>1, <1>2, <1>3 DEF Knows, ClaimKnown
  <1>5. UNCHANGED <<now, live, revoked, standing, minted, signedOut, contested>>
        /\ (s \in BusinessRoles => s # NoRole)
    BY BusinessAreRoles, NoRoleIsNone DEF Reread
  <1>6. CASE s = NoRole
    BY <1>5, <1>6, AnswerKeeps DEF Reread
  <1>7. CASE s \in BusinessRoles
    <2> DEFINE r == [req[h] EXCEPT !.step = "panel", !.claim = s]
    <2>1. r \in Request
      BY <1>1, <1>4 DEF Request, Steps
    <2>2. req' = [req EXCEPT ![h] = r]
      BY <1>5, <1>7 DEF Reread
    <2>3. Knows(r, live, revoked, standing)
      BY <1>1, <1>2, <1>3, <1>4, <1>5, <1>7
         DEF Knows, StepOfOp, TokenOfOp, TokenKnown, ClaimKnown, Refreshes, Request
    <2> QED
      BY <1>5, <2>1, <2>2, <2>3, QuietMoveKeeps
  <1>8. CASE s # NoRole /\ s \notin BusinessRoles
    <2> DEFINE r == [req[h] EXCEPT !.step = "save", !.claim = s, !.signedAt = now]
    <2>1. r \in Request
      BY <1>1, <1>4 DEF Request, Steps
    <2>2. req' = [req EXCEPT ![h] = r]
      BY <1>8 DEF Reread
    <2>3. Knows(r, live, revoked, standing)
      BY <1>1, <1>2, <1>3, <1>4, <1>8
         DEF Knows, StepOfOp, TokenOfOp, TokenKnown, ClaimKnown, Refreshes, Request
    <2> QED
      BY <1>5, <2>1, <2>2, <2>3, QuietMoveKeeps
  <1> QED
    BY <1>6, <1>7, <1>8

LEMMA PanelKeeps ==
  ASSUME IInv, NEW h \in Handlers, Panel(h)
  PROVE  IInv'
  <1>1. req[h] \in Request /\ Knows(req[h], live, revoked, standing)
    BY DEF IInv, TypeOK, HandlersKnow
  <1>2. req[h].step = "panel"
    BY DEF Panel, At
  <1>3. req[h].op \in {"loginAdmin", "refreshAdmin"}
    BY <1>1, <1>2 DEF Knows, StepOfOp, Request, Ops
  <1>4. UNCHANGED <<now, live, revoked, standing, minted, signedOut, contested>>
    BY DEF Panel
  <1>5. CASE Answer(h)
    BY <1>4, <1>5, AnswerKeeps
  <1>6. CASE req[h].op = "loginAdmin" /\ req' = [req EXCEPT ![h].step = "touch"]
    <2> DEFINE r == [req[h] EXCEPT !.step = "touch"]
    <2>1. r \in Request
      BY <1>1 DEF Request, Steps
    <2>2. req' = [req EXCEPT ![h] = r]
      BY <1>6
    <2>3. Knows(r, live, revoked, standing)
      BY <1>1, <1>2, <1>6
         DEF Knows, StepOfOp, TokenOfOp, TokenKnown, ClaimKnown, Refreshes, Request
    <2> QED
      BY <1>4, <2>1, <2>2, <2>3, QuietMoveKeeps
  <1>7. CASE req[h].op # "loginAdmin" /\ Sign(h)
    <2> DEFINE r == [req[h] EXCEPT !.step = "save", !.signedAt = now]
    <2>1. r \in Request /\ req' = [req EXCEPT ![h] = r]
      BY <1>7, Signed DEF IInv
    <2>2. Knows(r, live, revoked, standing)
      BY <1>1, <1>2, <1>3, <1>7
         DEF Knows, StepOfOp, TokenOfOp, TokenKnown, ClaimKnown, Refreshes, Request
    <2> QED
      BY <1>4, <2>1, <2>2, QuietMoveKeeps
  <1> QED
    BY <1>5, <1>6, <1>7 DEF Panel

LEMMA TouchKeeps ==
  ASSUME IInv, NEW h \in Handlers, Touch(h)
  PROVE  IInv'
  <1> DEFINE r == [req[h] EXCEPT !.step = "save", !.signedAt = now]
  <1>1. req[h] \in Request /\ Knows(req[h], live, revoked, standing)
    BY DEF IInv, TypeOK, HandlersKnow
  <1>2. req[h].step = "touch"
    BY DEF Touch, At
  <1>3. req[h].op \in {"login", "loginAdmin"}
    BY <1>1, <1>2 DEF Knows, StepOfOp, Request, Ops
  <1>4. r \in Request /\ req' = [req EXCEPT ![h] = r]
    BY Signed DEF Touch, IInv
  <1>5. Knows(r, live, revoked, standing)
    BY <1>1, <1>2, <1>3
       DEF Knows, StepOfOp, TokenOfOp, TokenKnown, ClaimKnown, Refreshes, Request
  <1> QED
    BY <1>4, <1>5, QuietMoveKeeps DEF Touch

\* The one step that issues a pair.  The row it adds is new, so it is not one
\* of the revoked ones.
LEMMA SaveKeeps ==
  ASSUME IInv, NEW h \in Handlers, Save(h)
  PROVE  IInv'
  <1>1. req[h] \in Request /\ Knows(req[h], live, revoked, standing)
    BY DEF IInv, TypeOK, HandlersKnow
  <1>2. req[h].step = "save" /\ Answer(h) /\ UNCHANGED <<now, revoked, standing, signedOut, contested>>
    BY DEF Save, At
  <1>3. CASE Child(h) \in Saved
    BY <1>2, <1>3, AnswerKeeps DEF Save
  <1>4. CASE Child(h) \notin Saved
    <2>1. live' = live \cup {Child(h)} /\ minted' = minted \cup {NewPair(h)}
      BY <1>4 DEF Save
    <2>2. /\ req[h].op \in Refreshes \cup {"login", "loginAdmin"}
          /\ req[h].sub \in Subject
      BY <1>1, <1>2
         DEF Knows, StepOfOp, ClaimKnown, Request, Ops, Refreshes, Subject
    <2>3. Child(h) \in Token /\ Child(h).sub = req[h].sub
      BY <1>1, <2>2 DEF Child, Token, Request
    <2>4. NewPair(h) \in Pair
      BY <1>1, <2>3 DEF NewPair, Pair, Request
    <2>5. TypeOK'
      BY <1>2, <2>1, <2>3, <2>4, AnswerType DEF IInv, TypeOK
    <2>6. HandlersKnow'
      BY <1>2, <2>1, AnswerKnows DEF IInv
    <2>7. Disjoint'
      BY <1>2, <1>4, <2>1 DEF IInv, Disjoint, Saved
    <2>8. /\ NewPair(h).parent # NoToken => NewPair(h).parent \in revoked
          /\ ~NewPair(h).late
          /\ NewPair(h).token.sub \in Admins => NewPair(h).current
      <3>1. NewPair(h).parent # NoToken => NewPair(h).parent \in revoked
        BY <1>1, <1>2, <2>2 DEF NewPair, Knows, TokenOfOp, TokenKnown, Refreshes
      <3>2. ~NewPair(h).late
        BY <1>1, <1>2, <2>2 DEF NewPair, Knows, TokenOfOp, TokenKnown, Refreshes
      <3>3. NewPair(h).token.sub \in Admins => NewPair(h).current
        BY <1>1, <1>2, <2>3 DEF NewPair, Knows, ClaimKnown
      <3> QED
        BY <3>1, <3>2, <3>3
    <2>9. PairsAreGood'
      BY <1>2, <2>1, <2>8
         DEF IInv, PairsAreGood, ParentRevoked, LateRefreshRefused, ClaimsAreCurrent
    <2> QED
      BY <2>5, <2>6, <2>7, <2>9 DEF IInv
  <1> QED
    BY <1>3, <1>4

LEMMA AwaitFailsKeeps ==
  ASSUME IInv, NEW h \in Handlers, AwaitFails(h)
  PROVE  IInv'
  BY AnswerKeeps DEF AwaitFails

LEMMA CrashKeeps ==
  ASSUME IInv, Crash
  PROVE  IInv'
  <1>1. UNCHANGED <<now, live, revoked, standing, minted, signedOut, contested>>
    BY DEF Crash
  <1>2. TypeOK'
    BY <1>1, IdleType DEF Crash, IInv, TypeOK
  <1>3. HandlersKnow'
    BY IdleKnows DEF Crash, HandlersKnow
  <1> QED
    BY <1>1, <1>2, <1>3
       DEF IInv, Disjoint, PairsAreGood, ParentRevoked, LateRefreshRefused,
           ClaimsAreCurrent

\* Every handler that serves the admin sees the change, so it still has the
\* standing that holds now among those it has seen.
LEMMA ChangeStandingKeeps ==
  ASSUME IInv, NEW a \in Admins, NEW s \in Standing, ChangeStanding(a, s)
  PROVE  IInv'
  <1>1. UNCHANGED <<now, live, revoked, minted, signedOut, contested>>
    BY DEF ChangeStanding
  <1>2. /\ standing \in [Admins -> Standing] /\ req \in [Handlers -> Request]
        /\ standing' = [standing EXCEPT ![a] = s]
    BY DEF ChangeStanding, IInv, TypeOK
  <1>3. ASSUME NEW h \in Handlers
        PROVE  req'[h] \in Request /\ Knows(req'[h], live, revoked, standing')
    <2>1. req[h] \in Request /\ Knows(req[h], live, revoked, standing)
      BY DEF IInv, TypeOK, HandlersKnow
    <2>2. CASE req[h].sub = a
      <3> DEFINE r == [req[h] EXCEPT !.seen = @ \cup {s}]
      <3>1. req'[h] = r
        BY <2>2 DEF ChangeStanding
      <3>2. r \in Request
        BY <2>1 DEF Request
      <3>3. Knows(r, live, revoked, standing')
        BY <1>2, <2>1, <2>2
           DEF Knows, StepOfOp, TokenOfOp, TokenKnown, ClaimKnown, Request
      <3> QED
        BY <3>1, <3>2, <3>3
    <2>3. CASE req[h].sub # a
      <3>1. req'[h] = req[h]
        BY <2>3 DEF ChangeStanding
      <3>2. req[h].sub \in Admins => standing'[req[h].sub] = standing[req[h].sub]
        BY <1>2, <2>3
      <3> QED
        BY <2>1, <3>1, <3>2 DEF Knows, ClaimKnown
    <2> QED
      BY <2>2, <2>3
  <1>4. TypeOK'
    <2>1. req' \in [Handlers -> Request]
      BY <1>3 DEF ChangeStanding
    <2> QED
      BY <1>1, <1>2, <2>1 DEF IInv, TypeOK
  <1>5. HandlersKnow'
    BY <1>1, <1>3 DEF HandlersKnow
  <1> QED
    BY <1>1, <1>4, <1>5
       DEF IInv, Disjoint, PairsAreGood, ParentRevoked, LateRefreshRefused,
           ClaimsAreCurrent

LEMMA TickKeeps ==
  ASSUME IInv, Tick
  PROVE  IInv'
  <1>1. UNCHANGED <<live, revoked, standing, req, minted, signedOut, contested>>
    BY DEF Tick
  <1>2. now' \in Seconds
    BY TimesAreNat DEF Tick, IInv, TypeOK, Seconds
  <1> QED
    BY <1>1, <1>2
       DEF IInv, TypeOK, HandlersKnow, Disjoint, PairsAreGood, ParentRevoked,
           LateRefreshRefused, ClaimsAreCurrent

LEMMA StutterKeeps ==
  ASSUME IInv, UNCHANGED vars
  PROVE  IInv'
  BY DEF vars, IInv, TypeOK, HandlersKnow, Disjoint, PairsAreGood, ParentRevoked,
         LateRefreshRefused, ClaimsAreCurrent

LEMMA NextKeeps ==
  ASSUME IInv, [Next]_vars
  PROVE  IInv'
  <1>1. ASSUME NEW h \in Handlers, Step(h) PROVE IInv'
    BY <1>1, IsRevokedKeeps, RevokeKeeps, RereadKeeps, PanelKeeps, TouchKeeps,
       SaveKeeps, AwaitFailsKeeps DEF Step, Proceed
  <1> QED
    BY <1>1, ArriveKeeps, ChangeStandingKeeps, CrashKeeps, TickKeeps, StutterKeeps
       DEF Next

LEMMA InitKnows == Init => IInv
  BY InitType, IdleKnows
     DEF Init, IInv, Disjoint, HandlersKnow, PairsAreGood, ParentRevoked,
         LateRefreshRefused, ClaimsAreCurrent

-----------------------------------------------------------------------------
(* The theorems. *)

\* The inductive invariant holds in every reachable state.
THEOREM Invariance == Spec => []IInv
  <1>1. Init => IInv
    BY InitKnows
  <1>2. IInv /\ [Next]_vars => IInv'
    BY NextKeeps
  <1> QED
    BY <1>1, <1>2, PTL DEF Spec

\* Every state of the token service is well typed; in particular every pair
\* that was issued belongs to a subject, at a second of the clock.
THEOREM TypeCorrect == Spec => []TypeOK
  <1>1. IInv => TypeOK
    BY DEF IInv
  <1> QED
    BY <1>1, Invariance, PTL

\* refreshToken and refreshAdminToken revoke before they issue: no failure, no
\* stop and no interleaving leaves a pair beside the live token it was bought
\* with.
THEOREM Rotation == Spec => []ParentRevoked
  <1>1. IInv => ParentRevoked
    BY DEF IInv, PairsAreGood
  <1> QED
    BY <1>1, Invariance, PTL

\* A refresh that presents a token already used or signed out issues nothing.
THEOREM ReplayRefused == Spec => []LateRefreshRefused
  <1>1. IInv => LateRefreshRefused
    BY DEF IInv, PairsAreGood
  <1> QED
    BY <1>1, Invariance, PTL

\* An admin pair carries a role that its admin held since the request came.
THEOREM ClaimsCurrent == Spec => []ClaimsAreCurrent
  <1>1. IInv => ClaimsAreCurrent
    BY DEF IInv, PairsAreGood
  <1> QED
    BY <1>1, Invariance, PTL

\* A revoked row is neither dropped nor made live by any step.
LEMMA StepKeepsRevoked ==
  ASSUME IInv, [Next]_vars
  PROVE  revoked \subseteq revoked' /\ live' \cap revoked = {}
  <1> USE DEF IInv, Disjoint
  <1>1. ASSUME NEW h \in Handlers, Arrive(h)
        PROVE  UNCHANGED <<live, revoked>>
    BY <1>1 DEF Arrive, Login, LoginAdmin, Refresh, RefreshAdmin, Logout, Begin
  <1>2. ASSUME NEW h \in Handlers, Revoke(h) \/ RevokeUnanswered(h)
        PROVE  revoked \subseteq revoked' /\ live' \cap revoked = {}
    BY <1>2 DEF Revoke, RevokeUnanswered, RevokeRow
  <1>3. ASSUME NEW h \in Handlers, Save(h)
        PROVE  revoked' = revoked /\ live' \cap revoked = {}
    BY <1>3 DEF Save, Saved
  <1>4. ASSUME NEW h \in Handlers,
               IsRevoked(h) \/ Reread(h) \/ Panel(h) \/ Touch(h) \/ AwaitFails(h)
        PROVE  UNCHANGED <<live, revoked>>
    BY <1>4 DEF IsRevoked, Reread, Panel, Touch, AwaitFails
  <1>5. ASSUME NEW h \in Handlers, Step(h)
        PROVE  revoked \subseteq revoked' /\ live' \cap revoked = {}
    <2>1. CASE Revoke(h) \/ RevokeUnanswered(h)
      BY <1>2, <2>1
    <2>2. CASE Save(h)
      BY <1>3, <2>2
    <2>3. CASE IsRevoked(h) \/ Reread(h) \/ Panel(h) \/ Touch(h) \/ AwaitFails(h)
      BY <1>4, <2>3
    <2> QED
      BY <1>5, <2>1, <2>2, <2>3 DEF Step, Proceed
  <1>6. ASSUME Crash \/ Tick \/ \E a \in Admins, s \in Standing : ChangeStanding(a, s)
        PROVE  UNCHANGED <<live, revoked>>
    BY <1>6 DEF Crash, Tick, ChangeStanding
  <1>7. ASSUME UNCHANGED vars
        PROVE  UNCHANGED <<live, revoked>>
    BY <1>7 DEF vars
  <1> QED
    BY <1>1, <1>5, <1>6, <1>7 DEF Next

THEOREM RevocationIsFinal == Spec => RevokedStaysRevoked
  <1>1. IInv /\ [Next]_vars => [revoked \subseteq revoked' /\ live' \cap revoked = {}]_vars
    BY StepKeepsRevoked
  <1> QED
    BY <1>1, Invariance, PTL DEF Spec, RevokedStaysRevoked

-----------------------------------------------------------------------------
(***************************************************************************)
(* The race.  Nothing keeps a client from sending one token in several     *)
(* requests, and two of them may both find it live.  What is proved here   *)
(* is that nothing else lets a token buy twice: a token in the hands of    *)
(* one request alone was not spent, nor signed out.                        *)
(***************************************************************************)
Holds(r) == r.op \in Refreshes \cup {"logout"} /\ r.step # "isRevoked"

Past(r) == r.op \in Refreshes /\ r.step # "isRevoked"

Parents == {m.parent : m \in minted}

RivalsContend ==
    \A h, k \in Handlers :
        h # k /\ Past(req[h]) /\ Holds(req[k]) /\ req[h].token = req[k].token
            => req[h].token \in contested

UnspentInHand ==
    \A h \in Handlers :
        Past(req[h]) /\ req[h].token \notin contested
            => req[h].token \notin Parents \cup signedOut

SignedOutIsRevoked == signedOut \subseteq revoked

RInv ==
    /\ IInv
    /\ RivalsContend /\ UnspentInHand /\ SignedOutIsRevoked
    /\ OnlyContestedSpentTwice

\* What IInv says of one handler, in the form these proofs use it.
LEMMA HandlerFacts ==
  ASSUME IInv, NEW h \in Handlers
  PROVE  /\ req[h] \in Request
         /\ req[h].op \in {"none", "login", "loginAdmin"} => req[h].token = NoToken
         /\ Holds(req[h]) \/ req[h].op \in Refreshes =>
              req[h].token \in (live \cup revoked) \cap Token
              /\ req[h].token # NoToken /\ req[h].token.sub = req[h].sub
  <1>1. req[h] \in Request /\ Knows(req[h], live, revoked, standing)
        /\ live \subseteq Token /\ revoked \subseteq Token
    BY DEF IInv, TypeOK, HandlersKnow
  <1> QED
    BY <1>1, NoTokenIsNone DEF Knows, TokenOfOp, Holds

\* An arrival leaves the other handlers alone.
LEMMA BeginMoves ==
  ASSUME TypeOK, NEW h \in Handlers, NEW o, NEW s, NEW u, NEW t, NEW c,
         Begin(h, o, s, u, t, c)
  PROVE  /\ req[h].step = "idle"
         /\ req'[h].op = o /\ req'[h].step = s /\ req'[h].token = t
         /\ \A k \in Handlers \ {h} : req'[k] = req[k]
  BY DEF Begin, TypeOK

\* A request comes to hold a token by the check, or as a logout that arrives.
LEMMA TakesInHand ==
  ASSUME IInv, [Next]_vars, NEW k \in Handlers, Holds(req'[k])
  PROVE  \/ /\ Holds(req[k]) /\ req'[k].token = req[k].token
            /\ req'[k].op = req[k].op
         \/ /\ IsRevoked(k) /\ req[k].token \in live
            /\ req[k].op \in Refreshes
            /\ req'[k].token = req[k].token
            /\ \A j \in Handlers \ {k} : req'[j] = req[j]
         \/ /\ req'[k].op = "logout" /\ Logout(k, req'[k].token)
            /\ \A j \in Handlers \ {k} : req'[j] = req[j]
  <1>0. /\ TypeOK /\ req \in [Handlers -> Request] /\ ~Holds(Idle)
    BY DEF IInv, TypeOK, Holds, Idle, Refreshes
  <1>1. ASSUME NEW h \in Handlers, Arrive(h), k # h
        PROVE  req'[k] = req[k]
    BY <1>0, <1>1
       DEF Arrive, Login, LoginAdmin, Refresh, RefreshAdmin, Logout, Begin
  <1>2. ASSUME Arrive(k)
        PROVE  /\ req'[k].op = "logout" /\ Logout(k, req'[k].token)
               /\ \A j \in Handlers \ {k} : req'[j] = req[j]
    <2>1. ASSUME NEW s \in Sellers, Login(k, s) PROVE FALSE
      BY <1>0, <2>1, BeginMoves DEF Login, Holds, Refreshes
    <2>2. ASSUME NEW a \in Admins, LoginAdmin(k, a) PROVE FALSE
      BY <1>0, <2>2, BeginMoves DEF LoginAdmin, Holds, Refreshes
    <2>3. ASSUME NEW t \in Saved, Refresh(k, t) \/ RefreshAdmin(k, t) PROVE FALSE
      BY <1>0, <2>3, BeginMoves DEF Refresh, RefreshAdmin, Holds
    <2>4. ASSUME NEW t \in Saved, Logout(k, t)
          PROVE  /\ req'[k].op = "logout" /\ Logout(k, req'[k].token)
                 /\ \A j \in Handlers \ {k} : req'[j] = req[j]
      <3>1. /\ req'[k].op = "logout" /\ req'[k].token = t
            /\ \A j \in Handlers \ {k} : req'[j] = req[j]
        BY <1>0, <2>4, BeginMoves DEF Logout
      <3> QED
        BY <2>4, <3>1
    <2> QED
      BY <1>2, <2>1, <2>2, <2>3, <2>4 DEF Arrive
  <1>3. ASSUME NEW h \in Handlers, Step(h), k # h
        PROVE  req'[k] = req[k]
    BY <1>0, <1>3
       DEF Step, Proceed, IsRevoked, Revoke, RevokeUnanswered, AfterRevoke, Reread,
           Panel, Touch, Save, AwaitFails, Answer, Sign
  <1>4. ASSUME Step(k)
        PROVE  \/ /\ Holds(req[k]) /\ req'[k].token = req[k].token
                  /\ req'[k].op = req[k].op
               \/ /\ IsRevoked(k) /\ req[k].token \in live
                  /\ req[k].op \in Refreshes
                  /\ req'[k].token = req[k].token
                  /\ \A j \in Handlers \ {k} : req'[j] = req[j]
    <2>1. req'[k] # Idle
      BY <1>0
    <2>2. CASE IsRevoked(k)
      <3>1. req[k].token \in live /\ req' = [req EXCEPT ![k].step = "revoke"]
        BY <1>0, <2>1, <2>2 DEF IsRevoked, Answer
      <3>2. req[k].op \in Refreshes
        BY <1>0, <2>2
           DEF IsRevoked, At, IInv, HandlersKnow, Knows, StepOfOp, Request, Ops, Refreshes
      <3> QED
        BY <1>0, <2>2, <3>1, <3>2 DEF Request
    <2>3. CASE Revoke(k) \/ RevokeUnanswered(k)
      BY <1>0, <2>1, <2>3
         DEF Revoke, RevokeUnanswered, AfterRevoke, Answer, Sign, At, Request, Holds
    <2>4. CASE Reread(k)
      BY <1>0, <2>1, <2>4 DEF Reread, Answer, At, Request, Holds
    <2>5. CASE Panel(k) \/ Touch(k)
      BY <1>0, <2>1, <2>5 DEF Panel, Touch, Answer, Sign, At, Request, Holds
    <2>6. ~Save(k) /\ ~AwaitFails(k)
      BY <1>0, <2>1 DEF Save, AwaitFails, Answer
    <2> QED
      BY <1>4, <2>2, <2>3, <2>4, <2>5, <2>6 DEF Step, Proceed
  <1>5. ~Crash
    BY <1>0 DEF Crash
  <1>6. ASSUME NEW a \in Admins, NEW s \in Standing, ChangeStanding(a, s)
        PROVE  /\ req'[k].op = req[k].op /\ req'[k].step = req[k].step
               /\ req'[k].token = req[k].token
    BY <1>0, <1>6 DEF ChangeStanding, Request
  <1>7. ASSUME Tick \/ UNCHANGED vars
        PROVE  req' = req
    BY <1>7 DEF Tick, vars
  <1> QED
    BY <1>1, <1>2, <1>3, <1>4, <1>5, <1>6, <1>7 DEF Next, Holds

\* Only a save issues a pair, and it is bought with the token in hand.
LEMMA OnlySaveIssues ==
  ASSUME IInv, [Next]_vars
  PROVE  \/ minted' = minted
         \/ \E h \in Handlers :
              /\ Save(h) /\ minted' = minted \cup {NewPair(h)}
              /\ signedOut' = signedOut
              /\ NewPair(h).parent = req[h].token
              /\ req[h].token # NoToken => Past(req[h])
  <1>1. ASSUME NEW h \in Handlers, Save(h), minted' # minted
        PROVE  /\ Save(h) /\ minted' = minted \cup {NewPair(h)}
               /\ signedOut' = signedOut
               /\ NewPair(h).parent = req[h].token
               /\ req[h].token # NoToken => Past(req[h])
    <2>1. /\ req[h] \in Request /\ req[h].step = "save"
          /\ Knows(req[h], live, revoked, standing)
      BY <1>1 DEF Save, At, IInv, TypeOK, HandlersKnow
    <2>2. req[h].token # NoToken => req[h].op \in Refreshes
      BY <2>1 DEF Knows, StepOfOp, TokenOfOp, Request, Ops, Refreshes
    <2> QED
      BY <1>1, <2>1, <2>2 DEF Save, NewPair, Past
  <1>2. ASSUME \A h \in Handlers : ~Save(h)
        PROVE  minted' = minted
    BY <1>2 DEF Next, Arrive, Login, LoginAdmin, Refresh, RefreshAdmin, Logout, Begin,
                Step, Proceed, IsRevoked, Revoke, RevokeUnanswered, Reread, Panel,
                Touch, AwaitFails, ChangeStanding, Crash, Tick, vars
  <1> QED
    BY <1>1, <1>2

\* Only the revocation of a logout signs a token out.
LEMMA OnlyLogoutSignsOut ==
  ASSUME IInv, [Next]_vars
  PROVE  \/ signedOut' = signedOut
         \/ \E h \in Handlers :
              /\ Revoke(h) /\ req[h].op = "logout" /\ req[h].step = "revoke"
              /\ signedOut' = signedOut \cup {req[h].token}
              /\ req[h].token \in revoked'
              /\ \A k \in Handlers \ {h} : req'[k] = req[k]
              /\ ~Past(req'[h])
  <1>0. req \in [Handlers -> Request] /\ ~Past(Idle)
    BY DEF IInv, TypeOK, Past, Idle, Refreshes
  <1>1. ASSUME NEW h \in Handlers, Revoke(h), signedOut' # signedOut
        PROVE  /\ Revoke(h) /\ req[h].op = "logout" /\ req[h].step = "revoke"
               /\ signedOut' = signedOut \cup {req[h].token}
               /\ req[h].token \in revoked'
               /\ \A k \in Handlers \ {h} : req'[k] = req[k]
               /\ ~Past(req'[h])
    <2>1. req[h].op = "logout" /\ req[h].step = "revoke"
      BY <1>1 DEF Revoke, At
    <2>2. req[h].token \in live \cup revoked
      BY <2>1, HandlerFacts DEF Holds
    <2>3. Answer(h)
      BY <1>1, <2>1 DEF Revoke, AfterRevoke
    <2> QED
      BY <1>0, <1>1, <2>1, <2>2, <2>3 DEF Revoke, RevokeRow, Answer
  <1>2. ASSUME \A h \in Handlers : ~Revoke(h)
        PROVE  signedOut' = signedOut
    BY <1>2 DEF Next, Arrive, Login, LoginAdmin, Refresh, RefreshAdmin, Logout, Begin,
                Step, Proceed, IsRevoked, Save, RevokeUnanswered, Reread, Panel,
                Touch, AwaitFails, ChangeStanding, Crash, Tick, vars
  <1> QED
    BY <1>1, <1>2

\* A race is never forgotten.
LEMMA RacesAreRemembered ==
  ASSUME [Next]_vars
  PROVE  contested \subseteq contested'
  BY DEF Next, Arrive, Login, LoginAdmin, Refresh, RefreshAdmin, Logout, Begin, Contend,
         Step, Proceed, IsRevoked, Revoke, Save, RevokeUnanswered, Reread, Panel,
         Touch, AwaitFails, ChangeStanding, Crash, Tick, vars

LEMMA RivalsKeep ==
  ASSUME RInv, [Next]_vars
  PROVE  RivalsContend'
  <1> SUFFICES ASSUME NEW h \in Handlers, NEW k \in Handlers, h # k,
                      Past(req'[h]), Holds(req'[k]),
                      req'[h].token = req'[k].token
               PROVE  req'[h].token \in contested'
    BY DEF RivalsContend
  <1> DEFINE t == req'[h].token
  <1>0. IInv /\ contested \subseteq contested' /\ Holds(req'[h])
        /\ req'[h].op \in Refreshes
    BY RacesAreRemembered DEF RInv, Past, Holds
  <1>1. CASE IsRevoked(h) /\ req[h].token \in live /\ req'[h].token = req[h].token
             /\ \A j \in Handlers \ {h} : req'[j] = req[j]
    <2>1. InHand(k, t, Refreshes \cup {"logout"}) /\ req[h].token = t
      BY <1>1 DEF InHand, Holds
    <2>2. Contend(t, Refreshes \cup {"logout"})
      BY <1>1, <2>1 DEF IsRevoked
    <2> QED
      BY <2>1, <2>2 DEF Contend
  <1>2. CASE Past(req[h]) /\ req'[h].token = req[h].token
    <2>1. CASE /\ IsRevoked(k) /\ req[k].token \in live
               /\ req'[k].token = req[k].token
               /\ \A j \in Handlers \ {k} : req'[j] = req[j]
      <3>1. InHand(h, t, Refreshes \cup {"logout"}) /\ req[k].token = t
        BY <1>2, <2>1 DEF InHand, Past
      <3>2. Contend(t, Refreshes \cup {"logout"})
        BY <2>1, <3>1 DEF IsRevoked
      <3> QED
        BY <3>1, <3>2 DEF Contend
    <2>2. CASE Logout(k, req'[k].token) /\ \A j \in Handlers \ {k} : req'[j] = req[j]
      <3>1. InHand(h, t, Refreshes) /\ Contend(t, Refreshes)
        BY <1>2, <2>2 DEF InHand, Past, Logout
      <3> QED
        BY <3>1 DEF Contend
    <2>3. CASE Holds(req[k]) /\ req'[k].token = req[k].token
      BY <1>0, <1>2, <2>3 DEF RInv, RivalsContend
    <2> QED
      BY <1>0, <2>1, <2>2, <2>3, TakesInHand
  <1>3. \/ IsRevoked(h) /\ req[h].token \in live /\ req'[h].token = req[h].token
             /\ \A j \in Handlers \ {h} : req'[j] = req[j]
        \/ Past(req[h]) /\ req'[h].token = req[h].token
    <2>1. req'[h].op # "logout"
      BY <1>0 DEF Refreshes
    <2> QED
      BY <1>0, <2>1, TakesInHand DEF Holds, Past
  <1> QED
    BY <1>1, <1>2, <1>3

\* A token that passes the check is live, so not spent nor signed out; while
\* one request alone holds it nobody else can spend it or sign it out.
LEMMA UnspentKeeps ==
  ASSUME RInv, [Next]_vars
  PROVE  UnspentInHand'
  <1> SUFFICES ASSUME NEW h \in Handlers, Past(req'[h]), req'[h].token \notin contested'
               PROVE  req'[h].token \notin Parents' \cup signedOut'
    BY DEF UnspentInHand
  <1> DEFINE t == req'[h].token
  <1>0. /\ IInv /\ t \notin contested /\ Holds(req'[h]) /\ req'[h].op # "logout"
        /\ ~Past(Idle) /\ req \in [Handlers -> Request]
    BY RacesAreRemembered DEF RInv, IInv, TypeOK, Past, Holds, Refreshes, Idle
  <1>1. CASE Past(req[h]) /\ t = req[h].token
    <2>1. t \notin Parents \cup signedOut /\ t # NoToken
      BY <1>0, <1>1, HandlerFacts DEF RInv, UnspentInHand, Holds, Past
    <2>2. t \notin Parents'
      <3>1. CASE minted' = minted
        BY <2>1, <3>1 DEF Parents
      <3>2. ASSUME NEW k \in Handlers,
                   Save(k), minted' = minted \cup {NewPair(k)},
                   NewPair(k).parent = req[k].token,
                   req[k].token # NoToken => Past(req[k])
            PROVE  t \notin Parents'
        <4>1. k # h
          BY <1>0, <3>2 DEF Save, Answer
        <4>2. req[k].token # t
          BY <1>0, <1>1, <2>1, <3>2, <4>1 DEF RInv, RivalsContend, Holds, Past
        <4> QED
          BY <2>1, <3>2, <4>2 DEF Parents
      <3> QED
        BY <1>0, <3>1, <3>2, OnlySaveIssues
    <2>3. t \notin signedOut'
      <3>1. ASSUME NEW k \in Handlers, req[k].op = "logout", req[k].step = "revoke",
                   signedOut' = signedOut \cup {req[k].token}, ~Past(req'[k])
            PROVE  t \notin signedOut'
        BY <1>0, <1>1, <2>1, <3>1 DEF RInv, RivalsContend, Holds
      <3> QED
        BY <1>0, <2>1, <3>1, OnlyLogoutSignsOut
    <2> QED
      BY <2>2, <2>3
  <1>2. CASE IsRevoked(h) /\ t = req[h].token /\ t \in live
    <2>1. UNCHANGED <<minted, signedOut>>
      BY <1>2 DEF IsRevoked
    <2>2. t \notin revoked /\ t # NoToken
      BY <1>0, <1>2, NoTokenIsNone DEF IInv, Disjoint, TypeOK
    <2>3. t \notin Parents
      BY <1>0, <2>2 DEF IInv, PairsAreGood, ParentRevoked, Parents
    <2> QED
      BY <2>1, <2>2, <2>3 DEF RInv, SignedOutIsRevoked, Parents
  <1> QED
    BY <1>0, <1>1, <1>2, TakesInHand DEF Holds, Past

LEMMA NextRaces ==
  ASSUME RInv, [Next]_vars
  PROVE  RInv'
  <1>0. IInv
    BY DEF RInv
  <1>1. IInv'
    BY <1>0, NextKeeps
  <1>2. SignedOutIsRevoked'
    <2>1. revoked \subseteq revoked'
      BY <1>0, StepKeepsRevoked
    <2> QED
      BY <1>0, <2>1, OnlyLogoutSignsOut DEF RInv, SignedOutIsRevoked
  <1>3. OnlyContestedSpentTwice'
    <2>1. contested \subseteq contested'
      BY RacesAreRemembered
    <2>2. CASE minted' = minted
      BY <2>1, <2>2 DEF RInv, OnlyContestedSpentTwice
    <2>3. ASSUME NEW h \in Handlers, minted' = minted \cup {NewPair(h)},
                 NewPair(h).parent = req[h].token,
                 req[h].token # NoToken => Past(req[h])
          PROVE  OnlyContestedSpentTwice'
      <3>1. ASSUME NEW m \in minted, m.parent = NewPair(h).parent, m.parent # NoToken
            PROVE  m.parent \in contested
        BY <2>3, <3>1 DEF RInv, UnspentInHand, Parents
      <3> QED
        BY <2>1, <2>3, <3>1 DEF RInv, OnlyContestedSpentTwice
    <2> QED
      BY <1>0, <2>2, <2>3, OnlySaveIssues
  <1> QED
    BY <1>1, <1>2, <1>3, RivalsKeep, UnspentKeeps DEF RInv

LEMMA InitRaces == Init => RInv
  <1> SUFFICES ASSUME Init PROVE RInv
    OBVIOUS
  <1>1. IInv /\ \A h \in Handlers : ~Past(req[h])
    BY InitKnows DEF Init, Past, Idle, Refreshes
  <1> QED
    BY <1>1
       DEF Init, RInv, RivalsContend, UnspentInHand, SignedOutIsRevoked,
           OnlyContestedSpentTwice

\* isRevoked and revoke are two awaits, and that gap is the only way to two
\* pairs: every token that bought two was in two requests' hands between them.
THEOREM SpentOnce == Spec => []OnlyContestedSpentTwice
  <1>1. RInv => OnlyContestedSpentTwice
    BY DEF RInv
  <1> QED
    BY InitRaces, NextRaces, <1>1, PTL DEF Spec

\* Once logout answered nothing is bought with its token, unless a refresh was
\* past its check with that token when the logout came, or passed it before
\* the logout was answered.
THEOREM LogoutIsFinal == Spec => LogoutTerminates
  <1>1. RInv /\ [Next]_vars
          => [\A m \in minted' \ minted :
                m.parent \in signedOut => m.parent \in contested]_vars
    <2> SUFFICES ASSUME RInv, Next, NEW m \in minted' \ minted, m.parent \in signedOut
                 PROVE  m.parent \in contested
      OBVIOUS
    <2>1. IInv /\ m.parent # NoToken
      BY NoTokenIsNone DEF RInv, IInv, TypeOK
    <2>2. PICK h \in Handlers : m.parent = req[h].token /\ Past(req[h])
      BY <2>1, OnlySaveIssues
    <2> QED
      BY <2>2 DEF RInv, UnspentInHand
  <1> QED
    BY InitRaces, NextRaces, <1>1, PTL DEF Spec, LogoutTerminates

-----------------------------------------------------------------------------
(* The refinement.  A session's tokens are the live ones and those a refresh *)
(* has in hand; what is left of the rows is spent.  So a step that adds no   *)
(* row can only end sessions, and only a save opens or hands on one.         *)

Sessions == live \cup Exchanging
Ended == revoked \ Exchanging

\* Exchanging, seen from one of its tokens.
LEMMA ExchangingIs ==
  /\ \A x : x \in Exchanging <=>
       x \in live \cup revoked /\ \E k \in Handlers : Past(req[k]) /\ x = req[k].token
  /\ \A x : x \in Exchanging' <=>
       x \in live' \cup revoked'
         /\ \E k \in Handlers : Past(req'[k]) /\ x = req'[k].token
  BY DEF Exchanging, InHand, Past

LEMMA SessionsPartition ==
  ASSUME IInv
  PROVE  /\ Sessions \cup Ended = live \cup revoked
         /\ Sessions \cap Ended = {}
         /\ live \cup revoked \subseteq Token
  BY DEF IInv, TypeOK, Disjoint, Sessions, Ended, Exchanging

\* A step that keeps the rows and issues nothing may end sessions, no more.
LEMMA EndingRefines ==
  ASSUME IInv, IInv', live' \cup revoked' = live \cup revoked,
         Sessions' \subseteq Sessions, UNCHANGED <<minted, contested>>
  PROVE  Chains!Next
  <1> DEFINE T == Sessions \ Sessions'
  <1>1. /\ Sessions \cup Ended = live \cup revoked /\ Sessions \cap Ended = {}
        /\ Sessions' \cup Ended' = live' \cup revoked' /\ Sessions' \cap Ended' = {}
    BY DEF IInv, Disjoint, Sessions, Ended, Exchanging
  <1>2. Sessions' = Sessions \ T /\ Ended' = Ended \cup T
    BY <1>1
  <1>3. Bought' = Bought
    BY DEF Bought
  <1>4. Chains!End(T)
    BY <1>2, <1>3 DEF Chains!End, Sessions, Ended
  <1> QED
    BY <1>4 DEF Chains!Next, Sessions

\* A step that starts a race for a token of a session.
LEMMA ContestRefines ==
  ASSUME IInv, NEW t \in Sessions, UNCHANGED <<live, revoked, minted>>,
         Sessions' = Sessions, contested' = contested \cup {t}
  PROVE  Chains!Next
  <1>1. Ended' = Ended /\ Bought' = Bought /\ t \in Token
    <2>1. Exchanging' \ live = Exchanging \ live
      BY DEF Sessions
    <2>2. live \cap revoked = {} /\ Sessions \subseteq Token
      BY SessionsPartition DEF IInv, Disjoint
    <2> QED
      BY <2>1, <2>2 DEF Ended, Bought, Sessions
  <1>2. Chains!Contest(t)
    BY <1>1 DEF Chains!Contest, Sessions, Ended
  <1> QED
    BY <1>1, <1>2 DEF Chains!Next

\* Without a save no row is added, none is made live, and what is in hand was
\* in hand, or live when the check let it through.
LEMMA NoSaveEnds ==
  ASSUME IInv, IInv', [Next]_vars, \A h \in Handlers : ~Save(h)
  PROVE  /\ live' \subseteq live /\ live' \cup revoked' = live \cup revoked
         /\ UNCHANGED minted
         /\ Sessions' \subseteq Sessions
  <1>1. live' \subseteq live /\ live' \cup revoked' = live \cup revoked
        /\ UNCHANGED minted
    <2>1. ASSUME NEW h \in Handlers, Revoke(h) \/ RevokeUnanswered(h)
          PROVE  live' \subseteq live /\ live' \cup revoked' = live \cup revoked
                 /\ UNCHANGED minted
      BY <2>1 DEF Revoke, RevokeUnanswered, RevokeRow
    <2>2. ASSUME \A h \in Handlers : ~Revoke(h) /\ ~RevokeUnanswered(h)
          PROVE  UNCHANGED <<live, revoked, minted>>
      BY <2>2 DEF Next, Arrive, Login, LoginAdmin, Refresh, RefreshAdmin, Logout, Begin,
                  Step, Proceed, IsRevoked, Reread, Panel, Touch, AwaitFails,
                  ChangeStanding, Crash, Tick, vars
    <2> QED
      BY <2>1, <2>2
  <1>2. ASSUME NEW x \in Exchanging'
        PROVE  x \in Sessions
    <2>1. PICK k \in Handlers : Past(req'[k]) /\ x = req'[k].token
      BY ExchangingIs
    <2>2. x \in live \cup revoked
      BY <1>1, ExchangingIs
    <2>3. Holds(req'[k]) /\ req'[k].op # "logout"
      BY <2>1 DEF Holds, Past, Refreshes
    <2>4. \/ Past(req[k]) /\ x = req[k].token
          \/ x \in live
      BY <2>1, <2>3, TakesInHand DEF Holds, Past
    <2> QED
      BY <2>2, <2>4, ExchangingIs DEF Sessions
  <1> QED
    BY <1>1, <1>2 DEF Sessions

\* A race is for a token of a session, and leaves the sessions as they are.
LEMMA RacesAreForSessions ==
  ASSUME IInv, [Next]_vars, contested' # contested
  PROVE  \E t \in Sessions :
            /\ contested' = contested \cup {t}
            /\ UNCHANGED <<live, revoked, minted>>
            /\ Sessions \subseteq Sessions'
            /\ \A h \in Handlers : ~Save(h)
  <1>0. TypeOK
    BY DEF IInv
  <1>1. ASSUME NEW h \in Handlers, ~Past(req[h]),
               \A k \in Handlers \ {h} : req'[k] = req[k],
               UNCHANGED <<live, revoked>>
        PROVE  Sessions \subseteq Sessions'
    BY <1>1, ExchangingIs DEF Sessions
  <1>2. PICK h \in Handlers :
          IsRevoked(h) \/ \E t \in Saved : Logout(h, t)
    BY DEF Next, Arrive, Login, LoginAdmin, Refresh, RefreshAdmin, Begin,
           Step, Proceed, Revoke, Save, RevokeUnanswered, Reread, Panel,
           Touch, AwaitFails, ChangeStanding, Crash, Tick, vars
  <1>3. CASE IsRevoked(h)
    <2>1. /\ req[h].token \in live /\ req' = [req EXCEPT ![h].step = "revoke"]
          /\ contested' = contested \cup {req[h].token}
          /\ UNCHANGED <<live, revoked, minted>> /\ req[h].step = "isRevoked"
      BY <1>3 DEF IsRevoked, Contend, At
    <2>2. Sessions \subseteq Sessions'
      BY <1>0, <1>1, <2>1 DEF Past, TypeOK
    <2>3. \A k \in Handlers : ~Save(k)
      <3>1. SUFFICES ASSUME NEW k \in Handlers, Save(k) PROVE FALSE
        OBVIOUS
      <3> QED
        BY <3>1 DEF Save
    <2> QED
      BY <2>1, <2>2, <2>3 DEF Sessions
  <1>4. ASSUME NEW t \in Saved, Logout(h, t)
        PROVE  \E u \in Sessions :
                  /\ contested' = contested \cup {u}
                  /\ UNCHANGED <<live, revoked, minted>>
                  /\ Sessions \subseteq Sessions'
                  /\ \A k \in Handlers : ~Save(k)
    <2>1. /\ req[h].step = "idle" /\ \A k \in Handlers \ {h} : req'[k] = req[k]
          /\ UNCHANGED <<live, revoked, minted>>
      BY <1>0, <1>4, BeginMoves DEF Logout, Begin
    <2>2. PICK k \in Handlers : InHand(k, t, Refreshes)
      BY <1>4 DEF Logout, Contend
    <2>3. contested' = contested \cup {t}
      BY <1>4, <2>2 DEF Logout, Contend
    <2>4. t \in Exchanging
      BY <1>4, <2>2 DEF Exchanging, Saved
    <2>5. ~Past(req[h])
      <3>1. req[h] \in Request /\ StepOfOp(req[h])
        BY DEF IInv, TypeOK, HandlersKnow, Knows
      <3> QED
        BY <2>1, <3>1 DEF Past, StepOfOp, Refreshes
    <2>6. Sessions \subseteq Sessions'
      BY <1>1, <2>1, <2>5
    <2>7. \A j \in Handlers : ~Save(j)
      <3>1. SUFFICES ASSUME NEW j \in Handlers, Save(j) PROVE FALSE
        OBVIOUS
      <3> QED
        BY <3>1 DEF Save
    <2> QED
      BY <2>1, <2>3, <2>4, <2>6, <2>7 DEF Sessions
  <1> QED
    BY <1>2, <1>3, <1>4

\* A save opens a session, hands one on, or branches one that is raced for.
LEMMA SaveRefines ==
  ASSUME RInv, IInv', NEW h \in Handlers, Save(h)
  PROVE  Chains!Next
  <1> DEFINE p == req[h].token
             c == Child(h)
  <1>1. /\ IInv /\ req[h] \in Request /\ Knows(req[h], live, revoked, standing)
        /\ req[h].step = "save" /\ revoked' = revoked /\ contested' = contested
        /\ live \subseteq Token /\ revoked \subseteq Token /\ live \cap revoked = {}
    BY DEF RInv, IInv, TypeOK, HandlersKnow, Disjoint, Save, At
  <1>2. req'[h] = Idle /\ ~Past(Idle) /\ \A k \in Handlers \ {h} : req'[k] = req[k]
    BY <1>1 DEF Save, Answer, IInv, TypeOK, Past, Idle, Refreshes
  <1>3. CASE c \in Saved
    <2>1. UNCHANGED <<live, revoked, minted, contested>>
      BY <1>1, <1>3 DEF Save
    <2>2. Exchanging' \subseteq Exchanging
      BY <1>2, <2>1, ExchangingIs
    <2> QED
      BY <1>1, <2>1, <2>2, EndingRefines DEF Sessions
  <1>4. CASE c \notin Saved
    <2>1. /\ live' = live \cup {c} /\ minted' = minted \cup {NewPair(h)}
          /\ NewPair(h).parent = p /\ NewPair(h).token = c
      BY <1>4 DEF Save, NewPair
    <2>2. /\ req[h].op \in Refreshes \cup {"login", "loginAdmin"}
          /\ req[h].sub \in Subject
      BY <1>1
         DEF Knows, StepOfOp, ClaimKnown, Request, Ops, Refreshes, Subject
    <2>3. c \in Token /\ c.sub = req[h].sub
      BY <1>1, <2>2 DEF Child, Token, Request
    <2>4. Chains!Fresh(c)
      BY <1>4, <2>3 DEF Chains!Fresh, Saved, Exchanging
    <2>5. \A x : x \in Exchanging' <=>
             \E k \in Handlers \ {h} : Past(req[k]) /\ x = req[k].token
      BY <1>1, <1>2, <2>1, HandlerFacts, ExchangingIs DEF Past, Holds
    <2>6. \A x : x \in Exchanging <=>
             \E k \in Handlers : Past(req[k]) /\ x = req[k].token
      BY <1>1, HandlerFacts, ExchangingIs DEF Past, Holds
    <2>7. CASE req[h].op \in Refreshes
      <3>1. Past(req[h]) /\ p \in revoked \cap Token /\ p # NoToken
            /\ p.sub = req[h].sub /\ p \in Exchanging /\ p \notin live
        BY <1>1, <2>6, <2>7, HandlerFacts DEF Past, Holds, Knows, TokenKnown
      <3>2. Bought' = Bought \cup {<<p, c>>}
        BY <2>1, <3>1 DEF Bought
      <3>3. Chains!Buy(p, c)
        BY <1>1, <2>3, <2>4, <3>1, <3>2 DEF Chains!Buy
      <3>4. CASE p \in Exchanging'
        <4>1. PICK k \in Handlers \ {h} : Past(req[k]) /\ p = req[k].token
          BY <2>5, <3>4
        <4>2. p \in contested
          BY <3>1, <4>1 DEF RInv, RivalsContend, Past, Holds
        <4>3. Exchanging' = Exchanging
          BY <2>5, <2>6, <3>4
        <4>4. Chains!Fork(p, c)
          BY <1>1, <2>1, <3>3, <4>2, <4>3 DEF Chains!Fork
        <4> QED
          BY <2>3, <3>1, <4>4 DEF Chains!Next
      <3>5. CASE p \notin Exchanging'
        <4>1. Exchanging' = Exchanging \ {p}
          BY <2>5, <2>6, <3>5
        <4>2. p # c /\ c \notin Exchanging
          BY <1>4, <3>1 DEF Saved, Exchanging
        <4>3. Chains!Rotate(p, c)
          BY <1>1, <2>1, <3>1, <3>3, <4>1, <4>2 DEF Chains!Rotate
        <4> QED
          BY <2>3, <3>1, <4>3 DEF Chains!Next
      <3> QED
        BY <3>4, <3>5
    <2>8. CASE req[h].op \in {"login", "loginAdmin"}
      <3>1. ~Past(req[h]) /\ p = NoToken
        BY <1>1, <2>8, HandlerFacts DEF Past, Refreshes
      <3>2. Exchanging' = Exchanging
        BY <2>5, <2>6, <3>1
      <3>3. Bought' = Bought
        BY <2>1, <3>1 DEF Bought
      <3>4. Chains!Open(c)
        BY <1>1, <1>4, <2>1, <2>4, <3>2, <3>3 DEF Chains!Open, Saved
      <3> QED
        BY <2>3, <3>4 DEF Chains!Next
    <2> QED
      BY <2>2, <2>7, <2>8
  <1> QED
    BY <1>3, <1>4

LEMMA NextRefines ==
  ASSUME RInv, [Next]_vars
  PROVE  [Chains!Next]_(Chains!vars)
  <1>0. IInv /\ IInv'
    BY NextKeeps DEF RInv
  <1>1. ASSUME NEW h \in Handlers, Save(h) PROVE Chains!Next
    BY <1>0, <1>1, SaveRefines
  <1>2. CASE contested' = contested /\ \A h \in Handlers : ~Save(h)
    BY <1>0, <1>2, NoSaveEnds, EndingRefines
  <1>3. CASE contested' # contested
    <2>1. PICK t \in Sessions :
            /\ contested' = contested \cup {t}
            /\ UNCHANGED <<live, revoked, minted>>
            /\ Sessions \subseteq Sessions'
            /\ \A h \in Handlers : ~Save(h)
      BY <1>0, <1>3, RacesAreForSessions
    <2>2. Sessions' = Sessions
      BY <1>0, <2>1, NoSaveEnds
    <2> QED
      BY <1>0, <2>1, <2>2, ContestRefines
  <1> QED
    BY <1>1, <1>2, <1>3

\* The token service implements its promise: a session never comes back, is
\* opened by a sign-in alone, and is handed on to one successor, except where
\* two requests raced for its token.
THEOREM Refinement == Spec => SessionsAreChains
  <1>1. Init => Chains!Init
    BY DEF Init, Chains!Init, Exchanging, Bought
  <1>2. RInv /\ [Next]_vars => [Chains!Next]_(Chains!vars)
    BY NextRefines
  <1> QED
    BY InitRaces, NextRaces, <1>1, <1>2, PTL DEF Spec, SessionsAreChains, Chains!Spec

-----------------------------------------------------------------------------
(* What the chains are worth: refreshes hand sessions on, and make new ones *)
(* only out of races.  It is proved of SessionChains, for active tokens a,  *)
(* spent ones s, rotations b and contested tokens C, and holds of the       *)
(* service because that implements them.                                    *)

\* The tokens that no rotation bought: those of the sign-ins.
Opened(a, s, b) == (a \cup s) \ {e[2] : e \in b}

\* The rotations of contested tokens.
RacedFor(b, C) == {e \in b : e[1] \in C}

CountInv(a, s, b, C) ==
    /\ IsFiniteSet(a) /\ IsFiniteSet(b) /\ IsFiniteSet(Opened(a, s, b))
    /\ Cardinality(a) <= Cardinality(Opened(a, s, b)) + Cardinality(RacedFor(b, C))
    /\ {e[2] : e \in b} \subseteq a \cup s

LEMMA CountsAreNat ==
    ASSUME NEW a, NEW s, NEW b, NEW C, CountInv(a, s, b, C)
    PROVE  /\ Cardinality(a) \in Nat /\ Cardinality(Opened(a, s, b)) \in Nat
           /\ IsFiniteSet(RacedFor(b, C)) /\ Cardinality(RacedFor(b, C)) \in Nat
  <1>1. RacedFor(b, C) \in SUBSET b
    BY DEF RacedFor
  <1>2. IsFiniteSet(RacedFor(b, C))
    BY <1>1, FS_Subset DEF CountInv
  <1> QED
    BY <1>2, FS_CardinalityType DEF CountInv

LEMMA OpenCounts ==
    ASSUME NEW a, NEW s, NEW b, NEW C, NEW t, CountInv(a, s, b, C), t \notin a \cup s
    PROVE  CountInv(a \cup {t}, s, b, C)
  <1>1. /\ Opened(a \cup {t}, s, b) = Opened(a, s, b) \cup {t}
        /\ t \notin Opened(a, s, b)
    BY DEF CountInv, Opened
  <1>2. /\ IsFiniteSet(a \cup {t}) /\ Cardinality(a \cup {t}) = Cardinality(a) + 1
        /\ IsFiniteSet(Opened(a, s, b) \cup {t})
        /\ Cardinality(Opened(a, s, b) \cup {t}) = Cardinality(Opened(a, s, b)) + 1
    BY <1>1, FS_AddElement DEF CountInv
  <1>3. {e[2] : e \in b} \subseteq (a \cup {t}) \cup s
    BY DEF CountInv
  <1>4. Cardinality(a \cup {t})
          <= Cardinality(Opened(a \cup {t}, s, b)) + Cardinality(RacedFor(b, C))
    <2>1. /\ Cardinality(a) \in Nat /\ Cardinality(Opened(a, s, b)) \in Nat
          /\ Cardinality(RacedFor(b, C)) \in Nat
          /\ Cardinality(a)
               <= Cardinality(Opened(a, s, b)) + Cardinality(RacedFor(b, C))
      BY CountsAreNat DEF CountInv
    <2>2. Cardinality(Opened(a \cup {t}, s, b)) = Cardinality(Opened(a, s, b)) + 1
      BY <1>1, <1>2
    <2> QED
      BY <1>2, <2>1, <2>2
  <1> QED
    BY <1>1, <1>2, <1>3, <1>4 DEF CountInv

\* More contested tokens, more rotations that may count.
LEMMA ContestCounts ==
    ASSUME NEW a, NEW s, NEW b, NEW C, NEW t, CountInv(a, s, b, C)
    PROVE  CountInv(a, s, b, C \cup {t})
  <1>1. /\ RacedFor(b, C) \subseteq RacedFor(b, C \cup {t})
        /\ RacedFor(b, C \cup {t}) \in SUBSET b
    BY DEF RacedFor
  <1>2. /\ IsFiniteSet(RacedFor(b, C \cup {t}))
        /\ Cardinality(RacedFor(b, C)) <= Cardinality(RacedFor(b, C \cup {t}))
    BY <1>1, FS_Subset DEF CountInv
  <1>3. Cardinality(RacedFor(b, C \cup {t})) \in Nat
    BY <1>2, FS_CardinalityType
  <1> QED
    BY <1>2, <1>3, CountsAreNat DEF CountInv

Counted(a, s, b, C, p, A, S, B) ==
    /\ {e[2] : e \in B} \subseteq A \cup S
    /\ Opened(A, S, B) = Opened(a, s, b)
    /\ IsFiniteSet(B) /\ IsFiniteSet(RacedFor(B, C))
    /\ Cardinality(RacedFor(B, C)) =
         IF p \in C THEN Cardinality(RacedFor(b, C)) + 1
                    ELSE Cardinality(RacedFor(b, C))

\* A rotation leaves the tokens of the sign-ins as they were, and counts as
\* raced for if its token was contested.
LEMMA BuyCounts ==
    ASSUME NEW a, NEW s, NEW b, NEW C, NEW p \in a, NEW c,
           CountInv(a, s, b, C), c \notin a \cup s,
           NEW A, NEW S, A \cup S = (a \cup s) \cup {c},
           NEW B, B = b \cup {<<p, c>>}
    PROVE  Counted(a, s, b, C, p, A, S, B)
  <1> DEFINE e0 == <<p, c>>
  <1>1. e0[1] = p /\ e0[2] = c
    OBVIOUS
  <1>2. {e[2] : e \in B} = {e[2] : e \in b} \cup {c}
    <2> HIDE DEF e0
    <2>1. {e[2] : e \in b \cup {e0}} = {e[2] : e \in b} \cup {e0[2]}
      OBVIOUS
    <2>2. B = b \cup {e0}
      BY DEF e0
    <2> QED
      BY <1>1, <2>1, <2>2
  <1>3. {e[2] : e \in B} \subseteq A \cup S
    BY <1>2 DEF CountInv
  <1>4. Opened(A, S, B) = Opened(a, s, b)
    BY <1>2 DEF Opened
  <1>5. e0 \notin b
    <2>1. e0 \in b => e0[2] \in {e[2] : e \in b}
      OBVIOUS
    <2> QED
      BY <1>1, <2>1 DEF CountInv
  <1>6. IsFiniteSet(B)
    BY FS_AddElement DEF CountInv
  <1>7. RacedFor(B, C) = IF p \in C THEN RacedFor(b, C) \cup {e0} ELSE RacedFor(b, C)
    <2> HIDE DEF e0
    <2>1. RacedFor(b \cup {e0}, C) =
            IF e0[1] \in C THEN RacedFor(b, C) \cup {e0} ELSE RacedFor(b, C)
      BY DEF RacedFor
    <2>2. B = b \cup {e0}
      BY DEF e0
    <2> QED
      BY <1>1, <2>1, <2>2
  <1>8. e0 \notin RacedFor(b, C)
    BY <1>5 DEF RacedFor
  <1>9. /\ IsFiniteSet(RacedFor(b, C) \cup {e0})
        /\ Cardinality(RacedFor(b, C) \cup {e0}) = Cardinality(RacedFor(b, C)) + 1
    BY <1>8, CountsAreNat, FS_AddElement
  <1>10. /\ IsFiniteSet(RacedFor(B, C))
         /\ Cardinality(RacedFor(B, C)) =
              IF p \in C THEN Cardinality(RacedFor(b, C)) + 1
                         ELSE Cardinality(RacedFor(b, C))
    <2> HIDE DEF e0
    <2> QED
      BY <1>7, <1>9, CountsAreNat
  <1> QED
    BY <1>3, <1>4, <1>6, <1>10 DEF Counted

LEMMA RotateCounts ==
    ASSUME NEW a, NEW s, NEW b, NEW C, NEW p \in a, NEW c,
           CountInv(a, s, b, C), c \notin a \cup s
    PROVE  CountInv((a \ {p}) \cup {c}, s \cup {p}, b \cup {<<p, c>>}, C)
  <1> DEFINE A == (a \ {p}) \cup {c}
             S == s \cup {p}
             B == b \cup {<<p, c>>}
  <1>1. A \cup S = (a \cup s) \cup {c}
    OBVIOUS
  <1>2. IsFiniteSet(A) /\ Cardinality(A) = Cardinality(a)
    <2>1. IsFiniteSet(a \ {p}) /\ Cardinality(a \ {p}) = Cardinality(a) - 1
      BY FS_RemoveElement DEF CountInv
    <2>2. IsFiniteSet(A) /\ Cardinality(A) = Cardinality(a \ {p}) + 1
      BY <2>1, FS_AddElement
    <2> QED
      BY <2>1, <2>2, CountsAreNat
  <1>a. B = b \cup {<<p, c>>}
    OBVIOUS
  <1> HIDE DEF A, S, B
  <1>3. Counted(a, s, b, C, p, A, S, B)
    BY <1>1, <1>a, BuyCounts
  <1>4. CountInv(A, S, B, C)
    BY <1>2, <1>3, CountsAreNat DEF CountInv, Counted
  <1> QED
    BY <1>4 DEF A, S, B

LEMMA ForkCounts ==
    ASSUME NEW a, NEW s, NEW b, NEW C, NEW p \in a, NEW c,
           CountInv(a, s, b, C), c \notin a \cup s, p \in C
    PROVE  CountInv(a \cup {c}, s, b \cup {<<p, c>>}, C)
  <1> DEFINE A == a \cup {c}
             B == b \cup {<<p, c>>}
  <1>1. A \cup s = (a \cup s) \cup {c}
    OBVIOUS
  <1>2. IsFiniteSet(A) /\ Cardinality(A) = Cardinality(a) + 1
    BY FS_AddElement DEF CountInv
  <1>a. B = b \cup {<<p, c>>}
    OBVIOUS
  <1> HIDE DEF A, B
  <1>3. Counted(a, s, b, C, p, A, s, B)
    BY <1>1, <1>a, BuyCounts
  <1>4. CountInv(A, s, B, C)
    BY <1>2, <1>3, CountsAreNat DEF CountInv, Counted
  <1> QED
    BY <1>4 DEF A, B

LEMMA EndCounts ==
    ASSUME NEW a, NEW s, NEW b, NEW C, NEW T \in SUBSET a, CountInv(a, s, b, C)
    PROVE  CountInv(a \ T, s \cup T, b, C)
  <1>1. (a \ T) \cup (s \cup T) = a \cup s
    OBVIOUS
  <1>2. Opened(a \ T, s \cup T, b) = Opened(a, s, b)
    BY <1>1 DEF Opened
  <1>3. IsFiniteSet(a \ T) /\ Cardinality(a \ T) <= Cardinality(a)
    BY FS_Subset DEF CountInv
  <1>4. Cardinality(a \ T) \in Nat
    BY <1>3, FS_CardinalityType
  <1> QED
    BY <1>1, <1>2, <1>3, <1>4, CountsAreNat DEF CountInv

LEMMA ChainsCount ==
    CountInv(Sessions, Ended, Bought, contested) /\ [Chains!Next]_(Chains!vars)
        => CountInv(Sessions, Ended, Bought, contested)'
  <1> SUFFICES ASSUME CountInv(Sessions, Ended, Bought, contested),
                      [Chains!Next]_(Chains!vars)
               PROVE  CountInv(Sessions', Ended', Bought', contested')
    OBVIOUS
  <1>1. ASSUME NEW t \in Token, Chains!Open(t)
        PROVE  CountInv(Sessions', Ended', Bought', contested')
    <2>1. /\ t \notin Sessions \cup Ended
          /\ Sessions' = Sessions \cup {t} /\ Ended' = Ended /\ Bought' = Bought
          /\ contested' = contested
      BY <1>1 DEF Chains!Open, Chains!Fresh, Sessions, Ended
    <2> QED
      BY <2>1, OpenCounts
  <1>2. ASSUME NEW t \in Token, Chains!Contest(t)
        PROVE  CountInv(Sessions', Ended', Bought', contested')
    <2>1. /\ Sessions' = Sessions /\ Ended' = Ended /\ Bought' = Bought
          /\ contested' = contested \cup {t}
      BY <1>2 DEF Chains!Contest, Sessions, Ended
    <2> QED
      BY <2>1, ContestCounts
  <1>3. ASSUME NEW p \in Token, NEW c \in Token, Chains!Rotate(p, c)
        PROVE  CountInv(Sessions', Ended', Bought', contested')
    <2>1. /\ p \in Sessions /\ c \notin Sessions \cup Ended
          /\ Sessions' = (Sessions \ {p}) \cup {c} /\ Ended' = Ended \cup {p}
          /\ Bought' = Bought \cup {<<p, c>>} /\ contested' = contested
      BY <1>3 DEF Chains!Rotate, Chains!Buy, Chains!Fresh, Sessions, Ended
    <2> QED
      BY <2>1, RotateCounts
  <1>4. ASSUME NEW p \in Token, NEW c \in Token, Chains!Fork(p, c)
        PROVE  CountInv(Sessions', Ended', Bought', contested')
    <2>1. /\ p \in Sessions /\ c \notin Sessions \cup Ended /\ p \in contested
          /\ Sessions' = Sessions \cup {c} /\ Ended' = Ended
          /\ Bought' = Bought \cup {<<p, c>>} /\ contested' = contested
      BY <1>4 DEF Chains!Fork, Chains!Buy, Chains!Fresh, Sessions, Ended
    <2> QED
      BY <2>1, ForkCounts
  <1>5. ASSUME NEW T \in SUBSET Sessions, Chains!End(T)
        PROVE  CountInv(Sessions', Ended', Bought', contested')
    <2>1. /\ Sessions' = Sessions \ T /\ Ended' = Ended \cup T /\ Bought' = Bought
          /\ contested' = contested
      BY <1>5 DEF Chains!End, Sessions, Ended
    <2> QED
      BY <2>1, EndCounts
  <1>6. CASE UNCHANGED Chains!vars
    BY <1>6 DEF Chains!vars, Sessions, Ended
  <1> QED
    BY <1>1, <1>2, <1>3, <1>4, <1>5, <1>6 DEF Chains!Next, Sessions

\* The tokens no refresh issued.
FromSignIns == (live \cup revoked) \ {m.token : m \in {n \in minted : n.parent # NoToken}}

\* The pairs bought with a token that two requests raced for.
FromRaces == {e \in Bought : e[1] \in contested}

\* However often sessions are refreshed, and whatever interleaves, fails or
\* stops, the live tokens are no more than the sign-ins and the pairs that
\* came out of a race: a client that does not race itself has one live token
\* for each sign-in at most.
OnlyRacesMultiply ==
    Cardinality(live) <= Cardinality(FromSignIns) + Cardinality(FromRaces)

THEOREM NoSessionFromNothing == Spec => []OnlyRacesMultiply
  <1>1. Chains!Init => CountInv(Sessions, Ended, Bought, contested)
    <2> SUFFICES ASSUME Chains!Init
                 PROVE  CountInv(Sessions, Ended, Bought, contested)
      OBVIOUS
    <2>1. Sessions = {} /\ Ended = {} /\ Bought = {}
      BY DEF Chains!Init, Sessions, Ended
    <2>2. Opened({}, {}, {}) = {} /\ RacedFor({}, contested) = {}
      BY DEF Opened, RacedFor
    <2> QED
      BY <2>1, <2>2, FS_EmptySet DEF CountInv
  <1>2. ASSUME IInv, CountInv(Sessions, Ended, Bought, contested)
        PROVE  OnlyRacesMultiply
    <2>1. Sessions \cup Ended = live \cup revoked
      BY <1>2, SessionsPartition
    <2>2. {e[2] : e \in Bought} = {m.token : m \in {n \in minted : n.parent # NoToken}}
      <3> DEFINE M == {n \in minted : n.parent # NoToken}
      <3>1. Bought = {<<m.parent, m.token>> : m \in M}
        BY DEF Bought
      <3>2. \A m \in M : <<m.parent, m.token>>[2] = m.token
        OBVIOUS
      <3> HIDE DEF M
      <3>3. {e[2] : e \in Bought} \subseteq {m.token : m \in M}
        BY <3>1
      <3>4. ASSUME NEW m \in M PROVE m.token \in {e[2] : e \in Bought}
        <4>1. <<m.parent, m.token>> \in Bought
          BY <3>1
        <4> QED
          BY <4>1
      <3> QED
        BY <3>3, <3>4 DEF M
    <2>3. Opened(Sessions, Ended, Bought) = FromSignIns
      BY <2>1, <2>2 DEF Opened, FromSignIns
    <2>4. RacedFor(Bought, contested) = FromRaces
      BY DEF RacedFor, FromRaces
    <2>5. IsFiniteSet(Sessions) /\ live \in SUBSET Sessions
      BY <1>2 DEF CountInv, Sessions
    <2>6. /\ IsFiniteSet(live) /\ Cardinality(live) <= Cardinality(Sessions)
      BY <2>5, FS_Subset
    <2>7. /\ Cardinality(live) \in Nat /\ Cardinality(Sessions) \in Nat
          /\ Cardinality(FromSignIns) \in Nat /\ Cardinality(FromRaces) \in Nat
          /\ Cardinality(Sessions) <= Cardinality(FromSignIns) + Cardinality(FromRaces)
      BY <1>2, <2>3, <2>4, <2>6, CountsAreNat, FS_CardinalityType DEF CountInv
    <2> QED
      BY <2>6, <2>7 DEF OnlyRacesMultiply
  <1>3. Spec => Chains!Init /\ [][Chains!Next]_(Chains!vars)
    BY Refinement DEF SessionsAreChains, Chains!Spec
  <1> QED
    BY <1>1, <1>2, <1>3, ChainsCount, Invariance, PTL

-----------------------------------------------------------------------------
(* What clients that race themselves can gain.  Nothing is assumed of them *)
(* here: a token may buy several pairs, but no more than there were        *)
(* requests past the check when it was revoked.                            *)

PairsOf(p) == {m \in minted : m.parent = p}

\* The refreshes that found the token p live and have not been answered.
PastCheck(p) ==
    {h \in Handlers :
        req[h].op \in Refreshes /\ req[h].step # "isRevoked" /\ req[h].token = p}

\* The gap between the check and the revocation lets in no more pairs than
\* there are requests served at one time, however many requests are sent.
GapIsBounded ==
    \A p \in Token :
        IsFiniteSet(PairsOf(p)) /\ Cardinality(PairsOf(p)) <= Cardinality(Handlers)

\* Every pair of p was bought by a request that was past the check; the others
\* may still buy one.
BInv ==
    \A p \in Token :
        /\ IsFiniteSet(PairsOf(p))
        /\ Cardinality(PairsOf(p)) + Cardinality(PastCheck(p))
             <= Cardinality(Handlers)

\* Once a token is revoked no request passes its check any more.
LEMMA NobodyJoins ==
  ASSUME IInv, [Next]_vars, NEW p \in revoked
  PROVE  PastCheck(p)' \subseteq PastCheck(p)
  <1> SUFFICES ASSUME NEW k \in Handlers, Past(req'[k]), req'[k].token = p
               PROVE  Past(req[k]) /\ req[k].token = p
    BY DEF PastCheck, Past
  <1>1. Holds(req'[k]) /\ req'[k].op # "logout" /\ req'[k].op \in Refreshes /\ p \notin live
    BY DEF Holds, Past, Refreshes, IInv, Disjoint
  <1> QED
    BY <1>1, TakesInHand DEF Holds, Past

\* A save turns a request past the check into a pair.
LEMMA SaveSpends ==
  ASSUME IInv, BInv, IsFiniteSet(Handlers), NEW h \in Handlers, Save(h),
         NEW p \in Token, p \in revoked
  PROVE  /\ IsFiniteSet(PairsOf(p)')
         /\ Cardinality(PairsOf(p)') + Cardinality(PastCheck(p)')
              <= Cardinality(Handlers)
  <1>0. /\ req \in [Handlers -> Request]
        /\ IsFiniteSet(PairsOf(p)) /\ IsFiniteSet(PastCheck(p))
        /\ Cardinality(PairsOf(p)) + Cardinality(PastCheck(p))
             <= Cardinality(Handlers)
    BY FS_Subset DEF BInv, IInv, TypeOK, PastCheck
  <1>1. PastCheck(p)' \subseteq PastCheck(p) \ {h}
    <2>1. PastCheck(p)' \subseteq PastCheck(p)
      BY NobodyJoins DEF Next, Step, Proceed
    <2>2. req'[h] = Idle
      BY <1>0 DEF Save, Answer
    <2> QED
      BY <2>1, <2>2 DEF PastCheck, Idle, Refreshes
  <1>2. /\ IsFiniteSet(PastCheck(p)') /\ Cardinality(PastCheck(p)') \in Nat
        /\ Cardinality(PairsOf(p)) \in Nat /\ Cardinality(PastCheck(p)) \in Nat
        /\ Cardinality(Handlers) \in Nat
        /\ Cardinality(PastCheck(p)') <= Cardinality(PastCheck(p) \ {h})
        /\ Cardinality(PastCheck(p) \ {h}) =
             IF h \in PastCheck(p) THEN Cardinality(PastCheck(p)) - 1
                                   ELSE Cardinality(PastCheck(p))
    <2>1. /\ IsFiniteSet(PastCheck(p) \ {h})
          /\ Cardinality(PastCheck(p) \ {h}) =
             IF h \in PastCheck(p) THEN Cardinality(PastCheck(p)) - 1
                                   ELSE Cardinality(PastCheck(p))
      BY <1>0, FS_RemoveElement
    <2>2. /\ IsFiniteSet(PastCheck(p)')
          /\ Cardinality(PastCheck(p)') <= Cardinality(PastCheck(p) \ {h})
      BY <1>1, <2>1, FS_Subset
    <2> QED
      BY <1>0, <2>1, <2>2, FS_CardinalityType
  <1>3. CASE minted' = minted \/ req[h].token # p
    <2>1. PairsOf(p)' = PairsOf(p)
      BY <1>3 DEF PairsOf, Save, NewPair
    <2> QED
      BY <1>0, <1>2, <2>1
  <1>4. CASE minted' = minted \cup {NewPair(h)} /\ req[h].token = p
    <2>1. h \in PastCheck(p)
      <3>1. Knows(req[h], live, revoked, standing) /\ req[h].step = "save"
        BY DEF IInv, HandlersKnow, Save, At
      <3>2. req[h].op \in Refreshes
        BY <1>0, <1>4, <3>1, NoTokenIsNone
           DEF Knows, StepOfOp, TokenOfOp, Request, Ops, Refreshes
      <3> QED
        BY <1>4, <3>1, <3>2 DEF PastCheck
    <2>2. PairsOf(p)' = PairsOf(p) \cup {NewPair(h)}
      BY <1>4 DEF PairsOf, NewPair
    <2>3. /\ IsFiniteSet(PairsOf(p)')
          /\ Cardinality(PairsOf(p)') \in Nat
          /\ Cardinality(PairsOf(p)') <= Cardinality(PairsOf(p)) + 1
      <3>1. /\ IsFiniteSet(PairsOf(p) \cup {NewPair(h)})
            /\ Cardinality(PairsOf(p) \cup {NewPair(h)}) =
                 IF NewPair(h) \in PairsOf(p) THEN Cardinality(PairsOf(p))
                                             ELSE Cardinality(PairsOf(p)) + 1
        BY <1>0, FS_AddElement
      <3>2. /\ IsFiniteSet(PairsOf(p)')
            /\ Cardinality(PairsOf(p)') =
                 IF NewPair(h) \in PairsOf(p) THEN Cardinality(PairsOf(p))
                                             ELSE Cardinality(PairsOf(p)) + 1
        BY <2>2, <3>1, Zenon
      <3> QED
        BY <1>2, <3>2, FS_CardinalityType
    <2> QED
      BY <1>0, <1>2, <2>1, <2>3
  <1> QED
    BY <1>3, <1>4 DEF Save

\* A token still live has bought nothing, so only a revoked one needs counting.
LEMMA NextBounds ==
  ASSUME IInv, BInv, IsFiniteSet(Handlers), [Next]_vars
  PROVE  BInv'
  <1> SUFFICES ASSUME NEW p \in Token
               PROVE  /\ IsFiniteSet(PairsOf(p)')
                      /\ Cardinality(PairsOf(p)') + Cardinality(PastCheck(p)')
                           <= Cardinality(Handlers)
    BY DEF BInv
  <1>1. /\ IsFiniteSet(PastCheck(p)) /\ IsFiniteSet(PastCheck(p)')
        /\ Cardinality(PastCheck(p)) \in Nat /\ Cardinality(PastCheck(p)') \in Nat
        /\ Cardinality(PastCheck(p)') <= Cardinality(Handlers)
        /\ Cardinality(Handlers) \in Nat
    <2>1. PastCheck(p) \in SUBSET Handlers /\ PastCheck(p)' \in SUBSET Handlers
      BY DEF PastCheck
    <2> QED
      BY <2>1, FS_Subset, FS_CardinalityType
  <1>2. PairsOf(p) # {} => p \in revoked
    BY NoTokenIsNone DEF PairsOf, IInv, PairsAreGood, ParentRevoked
  <1>3. ASSUME NEW h \in Handlers, Save(h), p \in revoked
        PROVE  /\ IsFiniteSet(PairsOf(p)')
               /\ Cardinality(PairsOf(p)') + Cardinality(PastCheck(p)')
                    <= Cardinality(Handlers)
    BY <1>3, SaveSpends
  <1>4. CASE PairsOf(p)' = {}
    BY <1>1, <1>4, FS_EmptySet
  <1>5. CASE PairsOf(p)' = PairsOf(p) /\ p \in revoked
    <2>1. /\ IsFiniteSet(PairsOf(p)) /\ Cardinality(PairsOf(p)) \in Nat
          /\ Cardinality(PairsOf(p)) + Cardinality(PastCheck(p))
               <= Cardinality(Handlers)
      BY FS_CardinalityType DEF BInv
    <2>2. Cardinality(PastCheck(p)') <= Cardinality(PastCheck(p))
      BY <1>1, <1>5, NobodyJoins, FS_Subset
    <2> QED
      BY <1>1, <1>5, <2>1, <2>2
  <1>6. CASE \A h \in Handlers : ~Save(h)
    <2>1. minted' = minted
      BY <1>6 DEF Next, Arrive, Login, LoginAdmin, Refresh, RefreshAdmin, Logout, Begin,
                  Step, Proceed, IsRevoked, Revoke, RevokeUnanswered, Reread, Panel,
                  Touch, AwaitFails, ChangeStanding, Crash, Tick, vars
    <2> QED
      BY <1>2, <1>4, <1>5, <2>1 DEF PairsOf
  <1>7. ASSUME NEW h \in Handlers, Save(h), p \notin revoked
        PROVE  PairsOf(p)' = {}
    <2>1. IInv' /\ revoked' = revoked
      BY <1>7, NextKeeps DEF Save, Next, Step, Proceed
    <2> QED
      BY <1>7, <2>1, NoTokenIsNone DEF PairsOf, IInv, PairsAreGood, ParentRevoked
  <1> QED
    BY <1>3, <1>4, <1>6, <1>7

\* The refresh handlers call isRevoked and revoke in two awaits; a client that
\* sends one token many times over gains no more from that than one pair for
\* each request served at one time.  Nothing is assumed of the clients.
THEOREM RaceIsBounded ==
  ASSUME IsFiniteSet(Handlers)
  PROVE  Spec => []GapIsBounded
  <1>1. Init => BInv
    <2>1. ASSUME Init, NEW p \in Token
          PROVE  PairsOf(p) = {} /\ PastCheck(p) = {}
      BY <2>1 DEF Init, PairsOf, PastCheck, Idle, Refreshes
    <2>2. Cardinality(Handlers) \in Nat
      BY FS_CardinalityType
    <2> QED
      BY <2>1, <2>2, FS_EmptySet DEF BInv
  <1>2. BInv => GapIsBounded
    <2> SUFFICES ASSUME BInv, NEW p \in Token
                 PROVE  Cardinality(PairsOf(p)) <= Cardinality(Handlers)
      BY DEF BInv, GapIsBounded
    <2>1. PastCheck(p) \in SUBSET Handlers
      BY DEF PastCheck
    <2>2. /\ Cardinality(PairsOf(p)) \in Nat /\ Cardinality(PastCheck(p)) \in Nat
          /\ Cardinality(Handlers) \in Nat
      BY <2>1, FS_Subset, FS_CardinalityType DEF BInv
    <2> QED
      BY <2>2 DEF BInv
  <1> QED
    BY <1>1, <1>2, NextBounds, Invariance, PTL DEF Spec
=============================================================================
