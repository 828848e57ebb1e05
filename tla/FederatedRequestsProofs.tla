---------------------- MODULE FederatedRequestsProofs ----------------------
(***************************************************************************)
(* Proofs about FederatedRequests, for any number of requests in flight,   *)
(* any accounts and any lifetime of a token.                               *)
(***************************************************************************)
EXTENDS FederatedRequests, TLAPS

\* What a token of ours claims, and the second it claims it of.
ClaimOf(t) == [sub |-> t.sub, scope |-> t.scope]
HoldingOf(t) == [sub |-> t.sub, scope |-> t.scope, at |-> t.iat]

\* A context names nobody, or exactly the subject of the token it carries, an
\* access token that was issued and that proved its claim when the request came.
ContextProven(c, P, second) ==
    IF c.token = NoToken
    THEN c.sellerId = None /\ c.adminId = None
    ELSE /\ ClaimOf(c.token) \in P
         /\ c.token.secret = "access"
         /\ HoldingOf(c.token) \in held
         /\ second < c.token.iat + AccessTTL
         /\ c.sellerId = IF c.token.sub \in Sellers THEN c.token.sub ELSE None
         /\ c.adminId = IF c.token.sub \in Admins THEN c.token.sub ELSE None
         /\ c.adminScope = c.token.scope

\* Headers say what the context says, the bearer excepted: it may be missing.
SentFrom(f, c) ==
    /\ f.bearer \in {NoToken, c.token}
    /\ f.sellerId = c.sellerId
    /\ f.adminId = c.adminId
    /\ f.adminId # None => f.adminScope = c.adminScope

\* No seller was ever issued a token with a scope.
SellersPlain == \A c \in held : c.sub \in Sellers => c.scope = NoScope

ContextsProven ==
    \A h \in Handlers : ContextProven(req[h].context, req[h].proven, req[h].arrived)

HeadersProven ==
    \A h \in Handlers : At(h, "fetch") => SentFrom(req[h].sent, req[h].context)

\* A GraphQL request has a ref, which no other has.
RefsKept ==
    /\ \A h \in Handlers :
         req[h].ref = None <=> req[h].step \in {"idle", "admitted"}
    /\ \A g, h \in Handlers :
         req[g].ref = req[h].ref /\ req[g].ref # None => g = h

\* A line carries the ref of the request it is of.
LinesKept == \A l \in log : req[l.of].ref = l.ref

\* Each error of a request has its line before the answer is written.
LoggedFor(q, h, L) ==
    q.step \in {"respond", "answered"} =>
        \A c \in q.errors : \E l \in L : l.of = h /\ l.code = CodeOf(c)

Logged == \A h \in Handlers : LoggedFor(req[h], h, log)

AnswerOf(q) ==
    q.step = "answered" =>
        q.answer = {ForClient(CodeOf(Formatted(c)), q.ref) : c \in q.errors}

Answered == \A h \in Handlers : AnswerOf(req[h])

IInv ==
    /\ TypeOK /\ SellersPlain /\ ContextsProven /\ HeadersProven
    /\ GuardsAgree /\ RefsKept /\ LinesKept /\ Logged /\ Answered

-----------------------------------------------------------------------------
(* Tokens. *)

\* Whoever may be issued a token is described in full, a seller without scope.
LEMMA HoldersAreHolding ==
    ASSUME NEW st \in [Admins -> Standing], NEW second \in Seconds
    PROVE  /\ Holders(st, second) \subseteq Holding
           /\ \A c \in Holders(st, second) : c.sub \in Sellers => c.scope = NoScope
  BY SubjectsDistinct DEF Holders, Holding, Standing, Subject

\* A token that verifies is one of ours, of that secret and not expired.
LEMMA VerifiedIsOurs ==
    ASSUME NEW t \in Credential, NEW s \in {"access", "refresh"},
           Verify(t, s) = "valid"
    PROVE  /\ t \in Token /\ t \notin {NoToken, Forged}
           /\ t.secret = s /\ now < t.iat + AccessTTL
  <1>1. t \notin {NoToken, Forged}
    BY NoTokenIsNone DEF Verify, Credential
  <1>2. t \in Token
    BY <1>1 DEF Credential
  <1>3. t.secret = s
    BY <1>1, <1>2, NoTokenIsNone DEF Verify
  <1>4. now < t.iat + AccessTTL
    BY <1>1, <1>2, <1>3, NoTokenIsNone DEF Verify
  <1> QED
    BY <1>1, <1>2, <1>3, <1>4

\* What a caller can present is a credential, and an access token among it was
\* issued.
LEMMA PresentableIsHeld ==
    ASSUME TypeOK, NEW t \in Presentable
    PROVE  /\ t \in Credential
           /\ t \in Token /\ t.secret = "access" => HoldingOf(t) \in held
  <1>1. CASE t \in AccessTokens
    <2> PICK c \in held : t = [sub |-> c.sub, scope |-> c.scope, iat |-> c.at,
                               secret |-> "access"]
      BY <1>1 DEF AccessTokens
    <2>1. c = HoldingOf(t) /\ t \in Token
      BY DEF TypeOK, Holding, HoldingOf, Token
    <2> QED
      BY <2>1 DEF Credential
  <1>2. CASE t \in RefreshTokens
    BY <1>2 DEF RefreshTokens, TypeOK, Holding, Token, Credential, Standing
  <1>3. CASE t \in {NoToken, Forged}
    BY <1>3, NoTokenIsNone DEF Credential
  <1> QED
    BY <1>1, <1>2, <1>3 DEF Presentable

\* The context of a request is well formed, and says what its credentials
\* prove.
LEMMA ContextIsProven ==
    ASSUME TypeOK, NEW cookie \in Presentable, NEW header, NEW ip \in Addresses,
           header.token \in Presentable
    PROVE  /\ ContextOf(cookie, header, ip) \in Contexts
           /\ ContextProven(ContextOf(cookie, header, ip), Proofs(cookie, header), now)
           /\ Proofs(cookie, header) \subseteq Claim
  <1> DEFINE t == Chosen(cookie, header)
             c == ContextOf(cookie, header, ip)
  <1>1. t \in Presentable /\ t \in {cookie, header.token}
    BY DEF Chosen
  <1>2. Proofs(cookie, header) \subseteq Claim
    <2>1. cookie \in Credential /\ header.token \in Credential
      BY PresentableIsHeld
    <2> QED
      BY <2>1 DEF Proofs, Credential, Token, Claim
  <1>3. CASE CheckAccessToken(t) # "valid"
    BY <1>2, <1>3 DEF ContextOf, ContextProven, Contexts, Standing
  <1>4. CASE CheckAccessToken(t) = "valid"
    <2>1. t # NoToken /\ Verify(t, "access") = "valid"
      BY <1>4 DEF CheckAccessToken
    <2>2. t \in Credential
      BY <1>1, PresentableIsHeld
    <2>3. /\ t \in Token /\ t \notin {NoToken, Forged}
          /\ t.secret = "access" /\ now < t.iat + AccessTTL
      BY <2>1, <2>2, VerifiedIsOurs
    <2>4. HoldingOf(t) \in held
      BY <1>1, <2>3, PresentableIsHeld
    <2>5. ClaimOf(t) \in Proofs(cookie, header)
      BY <1>1, <2>3 DEF Proofs, ClaimOf
    <2>6. c = [token |-> t,
               sellerId |-> IF t.sub \in Sellers THEN t.sub ELSE None,
               adminId |-> IF t.sub \in Admins THEN t.sub ELSE None,
               adminScope |-> t.scope, clientIp |-> ip]
      BY <1>4 DEF ContextOf
    <2>7. c \in Contexts
      BY <2>3, <2>6 DEF Contexts, Token
    <2>8. ContextProven(c, Proofs(cookie, header), now)
      BY <2>1, <2>3, <2>4, <2>5, <2>6 DEF ContextProven
    <2> QED
      BY <1>2, <2>7, <2>8
  <1> QED
    BY <1>2, <1>3, <1>4

\* A guard lets in whom the context names.
LEMMA GuardNamesContext ==
    ASSUME TypeOK, NEW cookie \in Presentable, NEW header, NEW ip \in Addresses,
           header.token \in Presentable,
           NEW user \in {SellerOf(cookie, header), AdminOf(cookie, header)},
           user # None
    PROVE  /\ user \in Subject
           /\ LET c == ContextOf(cookie, header, ip)
              IN  user \in {c.sellerId, c.adminId}
  <1> DEFINE t == Chosen(cookie, header)
  <1>1. t \in Credential
    BY PresentableIsHeld DEF Chosen
  <1>2. CASE user = SellerOf(cookie, header)
    <2>1. cookie # NoToken \/ header.scheme = "Bearer"
      BY <1>2, NoTokenIsNone DEF SellerOf, Verify
    <2>2. Verify(t, "access") = "valid" /\ t.sub \in Sellers /\ user = t.sub
      BY <1>2, <2>1 DEF SellerOf, Chosen
    <2>3. t # NoToken
      BY <1>1, <2>2, VerifiedIsOurs
    <2> QED
      BY <2>2, <2>3 DEF ContextOf, CheckAccessToken, Subject
  <1>3. CASE user = AdminOf(cookie, header)
    <2>1. Verify(t, "access") = "valid" /\ t.sub \in Admins /\ user = t.sub
      BY <1>3 DEF AdminOf
    <2>2. t # NoToken
      BY <1>1, <2>1, VerifiedIsOurs
    <2> QED
      BY <2>1, <2>2 DEF ContextOf, CheckAccessToken, Subject
  <1> QED
    BY <1>2, <1>3

-----------------------------------------------------------------------------
(* The strengthened invariant. *)

LEMMA Initially == Init => IInv
  <1> SUFFICES ASSUME Init PROVE IInv
    OBVIOUS
  <1>0. 0 \in Seconds /\ standing \in [Admins -> Standing]
    BY TimesAreNat DEF Init, Seconds, Standing
  <1>1. held \subseteq Holding /\ SellersPlain
    BY <1>0, HoldersAreHolding DEF Init, SellersPlain
  <1>2. Idle \in Request
    BY TimesAreNat DEF Seconds, Idle, Request, Steps, Contexts, Anonymous, Headers, NothingSent,
           Standing
  <1>3. TypeOK
    BY <1>0, <1>1, <1>2 DEF TypeOK, Init
  <1>4. ContextsProven /\ HeadersProven /\ GuardsAgree
    BY DEF Init, ContextsProven, ContextProven, HeadersProven, GuardsAgree, At,
           Idle, Anonymous
  <1>5. RefsKept /\ LinesKept /\ Logged /\ Answered
    BY DEF Init, RefsKept, LinesKept, Logged, LoggedFor, Answered, AnswerOf, Idle
  <1> QED
    BY <1>1, <1>3, <1>4, <1>5 DEF IInv

\* One handler takes a step: what its request, q, has to satisfy.
LEMMA OneRequest ==
    ASSUME IInv, NEW h \in Handlers, NEW q \in Request,
           req' = [req EXCEPT ![h] = q],
           UNCHANGED <<now, standing, held>>,
           ContextProven(q.context, q.proven, q.arrived),
           q.step = "fetch" => SentFrom(q.sent, q.context),
           q.step = "admitted" => q.user \in {q.context.sellerId, q.context.adminId},
           q.ref = None <=> q.step \in {"idle", "admitted"},
           q.ref # None => \A g \in Handlers \ {h} : req[g].ref # q.ref,
           log' \subseteq Line,
           \A l \in log' : IF l.of = h THEN q.ref = l.ref ELSE l \in log,
           \A l \in log : l.of # h => l \in log',
           LoggedFor(q, h, log'),
           AnswerOf(q)
    PROVE  IInv'
  <1> USE DEF IInv
  <1>1. /\ req' \in [Handlers -> Request]
        /\ req'[h] = q
        /\ \A g \in Handlers \ {h} : req'[g] = req[g]
    BY DEF TypeOK
  <1>2. TypeOK' /\ SellersPlain'
    BY <1>1 DEF TypeOK, SellersPlain
  <1>3. ContextsProven'
    <2> SUFFICES ASSUME NEW g \in Handlers
                 PROVE  ContextProven(req[g].context, req[g].proven, req[g].arrived)'
      BY DEF ContextsProven
    <2>1. CASE g = h
      BY <1>1, <2>1 DEF ContextProven
    <2>2. CASE g # h
      BY <1>1, <2>2 DEF ContextsProven, ContextProven
    <2> QED
      BY <2>1, <2>2
  <1>4. HeadersProven'
    BY <1>1 DEF HeadersProven, At
  <1>5. GuardsAgree'
    BY <1>1 DEF GuardsAgree, At
  <1>6. RefsKept'
    BY <1>1 DEF RefsKept
  <1>7. LinesKept'
    BY <1>1 DEF LinesKept, Line
  <1>8. Logged'
    <2> SUFFICES ASSUME NEW g \in Handlers PROVE LoggedFor(req'[g], g, log')
      BY DEF Logged
    <2>1. CASE g = h
      BY <1>1, <2>1
    <2>2. CASE g # h
      BY <1>1, <2>2 DEF Logged, LoggedFor
    <2> QED
      BY <2>1, <2>2
  <1>9. Answered'
    BY <1>1 DEF Answered
  <1> QED
    BY <1>2, <1>3, <1>4, <1>5, <1>6, <1>7, <1>8, <1>9

\* A clock tick or a change of standing leaves the requests and the log alone.
LEMMA NoRequest ==
    ASSUME IInv, UNCHANGED <<req, log>>, now' \in Seconds,
           standing' \in [Admins -> Standing],
           held \subseteq held', held' \subseteq Holding,
           \A c \in held' : c.sub \in Sellers => c.scope = NoScope
    PROVE  IInv'
  <1> USE DEF IInv
  <1>1. TypeOK' /\ SellersPlain'
    BY DEF TypeOK, SellersPlain
  <1>2. ContextsProven'
    BY DEF ContextsProven, ContextProven
  <1>3. HeadersProven' /\ GuardsAgree'
    BY DEF HeadersProven, GuardsAgree, At
  <1>4. RefsKept' /\ LinesKept'
    BY DEF RefsKept, LinesKept
  <1>5. Logged' /\ Answered'
    BY DEF Logged, Answered
  <1> QED
    BY <1>1, <1>2, <1>3, <1>4, <1>5

LEMMA ArriveKeeps ==
    ASSUME IInv, NEW h \in Handlers, At(h, "idle"), NEW cookie \in Presentable,
           NEW header, header.token \in Presentable, NEW ip \in Addresses,
           Arrive(h, cookie, header, ip)
    PROVE  IInv'
  <1>1. PICK r \in Refs :
          /\ NewRef(r)
          /\ req' = [req EXCEPT ![h] =
               [step |-> "validate", context |-> ContextOf(cookie, header, ip),
                sent |-> NothingSent, user |-> None, errors |-> {}, ref |-> r,
                answer |-> {}, arrived |-> now, proven |-> Proofs(cookie, header)]]
    BY DEF Arrive
  <1> DEFINE q == [step |-> "validate", context |-> ContextOf(cookie, header, ip),
                   sent |-> NothingSent, user |-> None, errors |-> {}, ref |-> r,
                   answer |-> {}, arrived |-> now, proven |-> Proofs(cookie, header)]
  <1>2. TypeOK /\ now \in Seconds
    BY DEF IInv, TypeOK
  <1>3. /\ ContextOf(cookie, header, ip) \in Contexts
        /\ ContextProven(ContextOf(cookie, header, ip), Proofs(cookie, header), now)
        /\ Proofs(cookie, header) \subseteq Claim
    BY <1>2, ContextIsProven
  <1>4. q \in Request
    BY <1>2, <1>3 DEF Request, Steps, Headers, NothingSent, Standing
  <1>5. q.ref # None /\ \A g \in Handlers \ {h} : req[g].ref # q.ref
    BY <1>1, NoneIsNone DEF NewRef
  <1>6. /\ log' = log /\ log \subseteq Line
        /\ UNCHANGED <<now, standing, held>>
        /\ \A l \in log : l.of # h
    BY <1>2, NoneIsNone DEF Arrive, IInv, LinesKept, RefsKept, TypeOK, Line, At
  <1>7. LoggedFor(q, h, log') /\ AnswerOf(q)
    BY DEF LoggedFor, AnswerOf
  <1> HIDE DEF q
  <1>8. /\ req' = [req EXCEPT ![h] = q]
        /\ q.step = "validate"
        /\ ContextProven(q.context, q.proven, q.arrived)
    BY <1>1, <1>3 DEF q
  <1> QED
    BY <1>4, <1>5, <1>6, <1>7, <1>8, OneRequest

LEMMA AdmitKeeps ==
    ASSUME IInv, NEW h \in Handlers, At(h, "idle"), NEW cookie \in Presentable,
           NEW header, header.token \in Presentable, NEW ip \in Addresses,
           NEW user \in {SellerOf(cookie, header), AdminOf(cookie, header)},
           Admit(h, user, cookie, header, ip)
    PROVE  IInv'
  <1> DEFINE q == [step |-> "admitted", context |-> ContextOf(cookie, header, ip),
                   sent |-> NothingSent, user |-> user, errors |-> {}, ref |-> None,
                   answer |-> {}, arrived |-> now, proven |-> Proofs(cookie, header)]
  <1>1. TypeOK /\ now \in Seconds /\ user # None
    BY DEF IInv, TypeOK, Admit
  <1>2. /\ ContextOf(cookie, header, ip) \in Contexts
        /\ ContextProven(ContextOf(cookie, header, ip), Proofs(cookie, header), now)
        /\ Proofs(cookie, header) \subseteq Claim
    BY <1>1, ContextIsProven
  <1>3. /\ user \in Subject
        /\ LET c == ContextOf(cookie, header, ip)
           IN  user \in {c.sellerId, c.adminId}
    BY <1>1, GuardNamesContext
  <1>4. q \in Request
    BY <1>1, <1>2, <1>3 DEF Request, Steps, Headers, NothingSent, Standing
  <1>5. /\ log' = log /\ log \subseteq Line
        /\ UNCHANGED <<now, standing, held>>
        /\ \A l \in log : l.of # h
    BY <1>1, NoneIsNone DEF Admit, IInv, LinesKept, RefsKept, TypeOK, Line, At
  <1>6. LoggedFor(q, h, log') /\ AnswerOf(q)
    BY DEF LoggedFor, AnswerOf
  <1>7. /\ req' = [req EXCEPT ![h] = q]
        /\ q.step = "admitted" /\ q.ref = None
        /\ q.user \in {q.context.sellerId, q.context.adminId}
        /\ ContextProven(q.context, q.proven, q.arrived)
    BY <1>2, <1>3 DEF Admit
  <1> HIDE DEF q
  <1> QED
    BY <1>4, <1>5, <1>6, <1>7, OneRequest

LEMMA ComeKeeps ==
    ASSUME IInv, NEW h \in Handlers, Come(h)
    PROVE  IInv'
  <1>1. At(h, "idle")
    BY DEF Come
  <1>2. PICK cookie \in Presentable, t \in Presentable, scheme \in Schemes,
             ip \in Addresses :
          \/ Arrive(h, cookie, Header(t, scheme), ip)
          \/ Admit(h, SellerOf(cookie, Header(t, scheme)), cookie,
                   Header(t, scheme), ip)
          \/ Admit(h, AdminOf(cookie, Header(t, scheme)), cookie,
                   Header(t, scheme), ip)
    BY DEF Come
  <1>3. Header(t, scheme).token \in Presentable
    BY DEF Header
  <1> QED
    BY <1>1, <1>2, <1>3, ArriveKeeps, AdmitKeeps

\* What the invariant says of one request.
LEMMA OfOne ==
    ASSUME IInv, NEW h \in Handlers
    PROVE  /\ req[h] \in Request /\ log \subseteq Line
           /\ ContextProven(req[h].context, req[h].proven, req[h].arrived)
           /\ req[h].step = "fetch" => SentFrom(req[h].sent, req[h].context)
           /\ req[h].ref = None <=> req[h].step \in {"idle", "admitted"}
           /\ req[h].ref # None => \A g \in Handlers \ {h} : req[g].ref # req[h].ref
           /\ \A l \in log : l.of = h => req[h].ref = l.ref
           /\ LoggedFor(req[h], h, log)
  BY DEF IInv, TypeOK, ContextsProven, HeadersProven, At, RefsKept, LinesKept, Logged

\* Nobody, and nothing sent, are well formed.
LEMMA NobodyIsContext ==
    /\ 0 \in Seconds /\ Anonymous \in Contexts /\ NothingSent \in Headers
    /\ \A P, second : ContextProven(Anonymous, P, second)
  BY TimesAreNat DEF Seconds, Anonymous, Contexts, NothingSent, Headers, Standing,
     ContextProven

\* A step of a handler that writes no line.
LEMMA OneRequestSameLog ==
    ASSUME IInv, NEW h \in Handlers, NEW q \in Request,
           req' = [req EXCEPT ![h] = q],
           UNCHANGED <<now, standing, held>>, log' = log,
           ContextProven(q.context, q.proven, q.arrived),
           q.step = "fetch" => SentFrom(q.sent, q.context),
           q.ref = req[h].ref,
           req[h].step \notin {"idle", "admitted"},
           q.step \notin {"idle", "admitted"},
           LoggedFor(q, h, log),
           AnswerOf(q)
    PROVE  IInv'
  <1>1. /\ q.ref # None
        /\ q.ref = None <=> q.step \in {"idle", "admitted"}
        /\ \A g \in Handlers \ {h} : req[g].ref # q.ref
        /\ log' \subseteq Line
        /\ \A l \in log' : IF l.of = h THEN q.ref = l.ref ELSE l \in log
        /\ \A l \in log : l.of # h => l \in log'
        /\ LoggedFor(q, h, log')
    BY OfOne
  <1> QED
    BY <1>1, OneRequest

LEMMA ValidateKeeps ==
    ASSUME IInv, NEW h \in Handlers, Validate(h)
    PROVE  IInv'
  <1> DEFINE ok == [req[h] EXCEPT !.step = "run"]
             bad == [req[h] EXCEPT !.step = "report",
                                   !.errors = {"GRAPHQL_VALIDATION_FAILED"},
                                   !.context = Anonymous, !.arrived = 0, !.proven = {}]
  <1>1. /\ UNCHANGED <<now, standing, held>> /\ log' = log
        /\ req[h].step = "validate"
        /\ req' = [req EXCEPT ![h] = ok] \/ req' = [req EXCEPT ![h] = bad]
    BY OfOne DEF Validate, At
  <1>2. /\ ok \in Request /\ ok.step = "run" /\ ok.ref = req[h].ref
        /\ ok.context = req[h].context /\ ok.proven = req[h].proven
        /\ ok.arrived = req[h].arrived
    BY OfOne DEF Request, Steps
  <1>3. /\ bad \in Request /\ bad.step = "report" /\ bad.ref = req[h].ref
        /\ ContextProven(bad.context, bad.proven, bad.arrived)
    <2>1. {"GRAPHQL_VALIDATION_FAILED"} \subseteq Codes \cup {NoCode}
      BY DEF Codes
    <2> QED
      BY <2>1, OfOne, NobodyIsContext DEF Request, Steps
  <1>4. /\ LoggedFor(ok, h, log) /\ AnswerOf(ok)
        /\ LoggedFor(bad, h, log) /\ AnswerOf(bad)
    BY <1>2, <1>3 DEF LoggedFor, AnswerOf
  <1> HIDE DEF ok, bad
  <1>5. CASE req' = [req EXCEPT ![h] = ok]
    BY <1>1, <1>2, <1>4, <1>5, OfOne, OneRequestSameLog
  <1>6. CASE req' = [req EXCEPT ![h] = bad]
    BY <1>1, <1>3, <1>4, <1>6, OfOne, OneRequestSameLog
  <1> QED
    BY <1>1, <1>5, <1>6

\* The headers of a fetch are well formed, and say what the context says.
LEMMA HeadersSayContext ==
    ASSUME NEW c \in Contexts
    PROVE  HeadersFrom(c) \in Headers /\ SentFrom(HeadersFrom(c), c)
  BY DEF HeadersFrom, Headers, SentFrom, Contexts, Standing

LEMMA SendKeeps ==
    ASSUME IInv, NEW h \in Handlers, Send(h)
    PROVE  IInv'
  <1> DEFINE q == [req[h] EXCEPT !.step = "fetch", !.sent = HeadersFrom(req[h].context)]
  <1>1. /\ UNCHANGED <<now, standing, held>> /\ log' = log
        /\ req[h].step = "run"
        /\ req' = [req EXCEPT ![h] = q]
    BY OfOne DEF Send, At
  <1>2. req[h].context \in Contexts
    BY OfOne DEF Request
  <1>3. /\ q \in Request /\ q.step = "fetch" /\ q.ref = req[h].ref
        /\ q.context = req[h].context /\ q.proven = req[h].proven
        /\ q.arrived = req[h].arrived
        /\ SentFrom(q.sent, q.context)
    BY <1>2, OfOne, HeadersSayContext DEF Request, Steps
  <1>4. LoggedFor(q, h, log) /\ AnswerOf(q)
    BY <1>3 DEF LoggedFor, AnswerOf
  <1> HIDE DEF q
  <1> QED
    BY <1>1, <1>2, <1>3, <1>4, OfOne, OneRequestSameLog

LEMMA ReceiveKeeps ==
    ASSUME IInv, NEW h \in Handlers, Receive(h)
    PROVE  IInv'
  <1>1. PICK E \in {{}} \cup {{c} : c \in Failures} :
          req' = [req EXCEPT ![h].step = "run", ![h].sent = NothingSent,
                             ![h].errors = @ \cup E]
    BY DEF Receive
  <1> DEFINE q == [req[h] EXCEPT !.step = "run", !.sent = NothingSent,
                                 !.errors = req[h].errors \cup E]
  <1>2. /\ UNCHANGED <<now, standing, held>> /\ log' = log
        /\ req[h].step = "fetch"
        /\ req' = [req EXCEPT ![h] = q]
    <2>1. req' = [req EXCEPT ![h] = q]
      BY <1>1
    <2> QED
      BY <2>1 DEF Receive, At
  <1>3. E \subseteq Codes \cup {NoCode}
    BY FailuresAreCodes
  <1>4. /\ q \in Request /\ q.step = "run" /\ q.ref = req[h].ref
        /\ q.context = req[h].context /\ q.proven = req[h].proven
        /\ q.arrived = req[h].arrived
    BY <1>3, OfOne, NobodyIsContext DEF Request, Steps
  <1>5. LoggedFor(q, h, log) /\ AnswerOf(q)
    BY <1>4 DEF LoggedFor, AnswerOf
  <1> HIDE DEF q
  <1> QED
    BY <1>2, <1>4, <1>5, OfOne, OneRequestSameLog

LEMMA FinishKeeps ==
    ASSUME IInv, NEW h \in Handlers, Finish(h)
    PROVE  IInv'
  <1> DEFINE q == [req[h] EXCEPT
                     !.step = IF req[h].errors = {} THEN "respond" ELSE "report",
                     !.context = Anonymous, !.arrived = 0, !.proven = {}]
  <1>1. /\ UNCHANGED <<now, standing, held>> /\ log' = log
        /\ req[h].step = "run"
        /\ req' = [req EXCEPT ![h] = q]
    BY OfOne DEF Finish, At
  <1>2. /\ q \in Request /\ q.ref = req[h].ref /\ q.errors = req[h].errors
        /\ q.step = IF req[h].errors = {} THEN "respond" ELSE "report"
        /\ ContextProven(q.context, q.proven, q.arrived)
    BY OfOne, NobodyIsContext DEF Request, Steps
  <1>3. LoggedFor(q, h, log) /\ AnswerOf(q)
    BY <1>2 DEF LoggedFor, AnswerOf
  <1> HIDE DEF q
  <1>4. q.step \in {"respond", "report"}
    BY <1>2
  <1> QED
    BY <1>1, <1>2, <1>3, <1>4, OfOne, OneRequestSameLog

\* A code is one the log and the caller may read.
LEMMA CodesShown ==
    ASSUME NEW c \in Codes \cup {NoCode}
    PROVE  /\ CodeOf(c) \in Shown /\ CodeOf(Formatted(c)) \in Shown
           /\ CodeOf(c) \in {CodeOf(Formatted(c)), "UNKNOWN"}
  BY DEF CodeOf, Formatted, Shown, Codes, ClientFacing, NoCode

LEMMA ReportKeeps ==
    ASSUME IInv, NEW h \in Handlers, Report(h)
    PROVE  IInv'
  <1> DEFINE q == [req[h] EXCEPT !.step = "respond"]
             L == {[ref |-> req[h].ref, code |-> CodeOf(c), of |-> h] :
                     c \in req[h].errors}
  <1>1. /\ UNCHANGED <<now, standing, held>> /\ log' = log \cup L
        /\ req[h].step = "report"
        /\ req' = [req EXCEPT ![h] = q]
    BY OfOne DEF Report, At
  <1>2. /\ q \in Request /\ q.step = "respond" /\ q.ref = req[h].ref
        /\ q.context = req[h].context /\ q.proven = req[h].proven
        /\ q.arrived = req[h].arrived
        /\ q.errors = req[h].errors
    BY OfOne DEF Request, Steps
  <1>3. req[h].ref \in Refs /\ req[h].errors \subseteq Codes \cup {NoCode}
    BY <1>1, OfOne DEF Request
  <1>4. /\ L \subseteq Line
        /\ \A l \in L : l.of = h /\ l.ref = q.ref
    BY <1>2, <1>3, CodesShown DEF Line
  <1>5. LoggedFor(q, h, log') /\ AnswerOf(q)
    <2>1. ASSUME NEW c \in q.errors
          PROVE  \E l \in log' : l.of = h /\ l.code = CodeOf(c)
      <3> DEFINE l == [ref |-> req[h].ref, code |-> CodeOf(c), of |-> h]
      <3>1. l \in log' /\ l.of = h /\ l.code = CodeOf(c)
        BY <1>1, <1>2
      <3> QED
        BY <3>1
    <2> QED
      BY <1>2, <2>1 DEF LoggedFor, AnswerOf
  <1> HIDE DEF q, L
  <1>6. /\ log' \subseteq Line
        /\ \A l \in log' : IF l.of = h THEN q.ref = l.ref ELSE l \in log
        /\ \A l \in log : l.of # h => l \in log'
    BY <1>1, <1>2, <1>4, OfOne
  <1>7. /\ q.ref # None
        /\ \A g \in Handlers \ {h} : req[g].ref # q.ref
        /\ ContextProven(q.context, q.proven, q.arrived)
    BY <1>1, <1>2, OfOne
  <1> QED
    BY <1>1, <1>2, <1>5, <1>6, <1>7, OneRequest

LEMMA RespondKeeps ==
    ASSUME IInv, NEW h \in Handlers, Respond(h)
    PROVE  IInv'
  <1> DEFINE A == {ForClient(CodeOf(Formatted(c)), req[h].ref) : c \in req[h].errors}
             q == [req[h] EXCEPT !.step = "answered", !.answer = A]
  <1>1. /\ UNCHANGED <<now, standing, held>> /\ log' = log
        /\ req[h].step = "respond"
        /\ req' = [req EXCEPT ![h] = q]
    BY OfOne DEF Respond, At
  <1>2. req[h].ref \in Refs /\ req[h].errors \subseteq Codes \cup {NoCode}
    BY <1>1, OfOne DEF Request
  <1>3. A \subseteq Told
    BY <1>2, CodesShown DEF ForClient, Told
  <1>4. /\ q \in Request /\ q.step = "answered" /\ q.ref = req[h].ref
        /\ q.context = req[h].context /\ q.proven = req[h].proven
        /\ q.arrived = req[h].arrived
        /\ q.errors = req[h].errors /\ q.answer = A
    BY <1>3, OfOne DEF Request, Steps
  <1>5. LoggedFor(q, h, log) /\ AnswerOf(q)
    BY <1>1, <1>4, OfOne DEF LoggedFor, AnswerOf
  <1> HIDE DEF q
  <1> QED
    BY <1>1, <1>4, <1>5, OfOne, OneRequestSameLog

LEMMA CloseKeeps ==
    ASSUME IInv, NEW h \in Handlers, Close(h)
    PROVE  IInv'
  <1>1. /\ UNCHANGED <<now, standing, held>> /\ log' = {l \in log : l.of # h}
        /\ req' = [req EXCEPT ![h] = Idle]
    BY DEF Close
  <1>2. /\ Idle \in Request /\ Idle.step = "idle" /\ Idle.ref = None
        /\ ContextProven(Idle.context, Idle.proven, Idle.arrived)
    BY TimesAreNat DEF Seconds, Idle, Request, Steps, Contexts, Anonymous, Headers, NothingSent,
           Standing, ContextProven
  <1>3. LoggedFor(Idle, h, log') /\ AnswerOf(Idle)
    BY <1>2 DEF LoggedFor, AnswerOf
  <1>4. /\ log' \subseteq Line
        /\ \A l \in log' : l.of # h /\ l \in log
        /\ \A l \in log : l.of # h => l \in log'
    BY <1>1, OfOne
  <1> QED
    BY <1>1, <1>2, <1>3, <1>4, OneRequest

LEMMA ClockKeeps ==
    ASSUME IInv, Tick
    PROVE  IInv'
  <1>1. /\ now + 1 \in Seconds /\ now' = now + 1
        /\ held' = held \cup Holders(standing, now + 1)
        /\ UNCHANGED <<standing, req, log>>
        /\ standing \in [Admins -> Standing] /\ held \subseteq Holding
        /\ SellersPlain
    BY TimesAreNat DEF Tick, IInv, TypeOK, Seconds
  <1>2. /\ Holders(standing, now + 1) \subseteq Holding
        /\ \A c \in Holders(standing, now + 1) : c.sub \in Sellers => c.scope = NoScope
    BY <1>1, HoldersAreHolding
  <1> QED
    BY <1>1, <1>2, NoRequest DEF SellersPlain

LEMMA StandingKeeps ==
    ASSUME IInv, NEW a \in Admins, NEW s \in Standing, ChangeStanding(a, s)
    PROVE  IInv'
  <1>1. /\ standing' \in [Admins -> Standing] /\ now \in Seconds
        /\ held' = held \cup Holders(standing', now)
        /\ UNCHANGED <<now, req, log>>
        /\ held \subseteq Holding /\ SellersPlain
    BY DEF ChangeStanding, IInv, TypeOK
  <1>2. /\ Holders(standing', now) \subseteq Holding
        /\ \A c \in Holders(standing', now) : c.sub \in Sellers => c.scope = NoScope
    BY <1>1, HoldersAreHolding
  <1> QED
    BY <1>1, <1>2, NoRequest DEF SellersPlain

LEMMA NextKeeps == IInv /\ [Next]_vars => IInv'
  <1> SUFFICES ASSUME IInv, [Next]_vars PROVE IInv'
    OBVIOUS
  <1>1. ASSUME NEW h \in Handlers, Come(h) PROVE IInv'
    BY <1>1, ComeKeeps
  <1>2. ASSUME NEW h \in Handlers, Step(h) PROVE IInv'
    BY <1>2, ValidateKeeps, SendKeeps, ReceiveKeeps, FinishKeeps, ReportKeeps,
       RespondKeeps, CloseKeeps DEF Step
  <1>3. ASSUME NEW a \in Admins, NEW s \in Standing, ChangeStanding(a, s) PROVE IInv'
    BY <1>3, StandingKeeps
  <1>4. CASE Tick
    BY <1>4, ClockKeeps
  <1>5. CASE UNCHANGED vars
    <2>1. UNCHANGED <<req, log, now, standing, held>>
      BY <1>5 DEF vars
    <2>2. /\ now' \in Seconds /\ standing' \in [Admins -> Standing]
          /\ held \subseteq held' /\ held' \subseteq Holding
          /\ \A c \in held' : c.sub \in Sellers => c.scope = NoScope
      BY <2>1 DEF IInv, TypeOK, SellersPlain
    <2> QED
      BY <2>1, <2>2, NoRequest
  <1> QED
    BY <1>1, <1>2, <1>3, <1>4, <1>5 DEF Next

LEMMA Invariance == Spec => []IInv
  <1> QED
    BY Initially, NextKeeps, PTL DEF Spec

-----------------------------------------------------------------------------
(* The theorems. *)

\* The requests, the log and the history stay well formed.
THEOREM TypeCorrect == Spec => []TypeOK
  <1>1. IInv => TypeOK
    BY DEF IInv
  <1> QED
    BY <1>1, Invariance, PTL

\* Headers that follow from a context with a token name its subject alone.
LEMMA NamesOneSubject ==
    ASSUME NEW c \in Contexts, NEW P, NEW second, NEW f, SellersPlain,
           SentFrom(f, c), ContextProven(c, P, second), c.token # NoToken
    PROVE  Named(f) = {ClaimOf(c.token)}
  <1> DEFINE t == c.token
  <1>1. t \in Token /\ HoldingOf(t) \in held
    BY DEF Contexts, ContextProven
  <1>2. t.sub \in Subject /\ t.sub # None
    BY <1>1, NoneIsNone DEF Token
  <1>3. CASE t.sub \in Sellers
    <2>1. f.sellerId = t.sub /\ f.adminId = None /\ t.scope = NoScope
      BY <1>1, <1>3, SubjectsDistinct
         DEF SentFrom, ContextProven, SellersPlain, HoldingOf
    <2> QED
      BY <1>2, <2>1 DEF Named, ClaimOf
  <1>4. CASE t.sub \in Admins
    <2>1. f.sellerId = None /\ f.adminId = t.sub /\ f.adminScope = t.scope
      BY <1>2, <1>4, SubjectsDistinct DEF SentFrom, ContextProven
    <2> QED
      BY <1>2, <2>1 DEF Named, ClaimOf
  <1> QED
    BY <1>2, <1>3, <1>4 DEF Subject

LEMMA ProvenWhenSent == IInv => IdentityWasProven
  <1> SUFFICES ASSUME IInv, NEW h \in Handlers, At(h, "fetch")
               PROVE  LET f == req[h].sent IN
                      /\ Named(f) \subseteq req[h].proven
                      /\ f.bearer # NoToken =>
                           Named(f) = {[sub |-> f.bearer.sub, scope |-> f.bearer.scope]}
    BY DEF IdentityWasProven
  <1> DEFINE f == req[h].sent
             c == req[h].context
             t == c.token
  <1>1. /\ SentFrom(f, c) /\ ContextProven(c, req[h].proven, req[h].arrived)
        /\ c \in Contexts /\ SellersPlain
    BY OfOne DEF At, IInv, Request
  <1>2. CASE t = NoToken
    BY <1>1, <1>2 DEF SentFrom, ContextProven, Named
  <1>3. CASE t # NoToken
    <2>1. Named(f) = {ClaimOf(t)} /\ ClaimOf(t) \in req[h].proven
      BY <1>1, <1>3, NamesOneSubject DEF ContextProven
    <2> QED
      BY <1>1, <1>3, <2>1 DEF SentFrom, ClaimOf
  <1> QED
    BY <1>2, <1>3

\* Whatever a subgraph is told of the caller was proved by a credential this
\* request came with, and the token handed on says the same.
THEOREM IdentityHolds == Spec => []IdentityWasProven
  BY Invariance, ProvenWhenSent, PTL

\* A guard lets in only whom the GraphQL endpoint would have recognised.
THEOREM GuardsHold == Spec => []GuardsAgree
  <1>1. IInv => GuardsAgree
    BY DEF IInv
  <1> QED
    BY <1>1, Invariance, PTL

LEMMA TraceableWhenAnswered == IInv => ErrorsTraceable
  <1> SUFFICES ASSUME IInv, NEW h \in Handlers, At(h, "answered"),
                      NEW e \in req[h].answer
               PROVE  \/ e.text = "own" /\ e.code \in ClientFacing
                      \/ /\ e.text = "generic"
                         /\ \A l \in log : l.ref = e.ref => l.of = h
                         /\ \E l \in log : /\ l.ref = e.ref
                                           /\ l.code \in {e.code, "UNKNOWN"}
    BY DEF ErrorsTraceable
  <1>1. /\ req[h] \in Request /\ log \subseteq Line /\ req[h].step = "answered"
        /\ req[h].ref # None
        /\ \A l \in log : l.of \in Handlers /\ req[l.of].ref = l.ref
    BY OfOne DEF At, IInv, LinesKept, Line
  <1>2. PICK c \in req[h].errors : e = ForClient(CodeOf(Formatted(c)), req[h].ref)
    BY <1>1 DEF IInv, Answered, AnswerOf
  <1>3. CASE CodeOf(Formatted(c)) \in ClientFacing
    BY <1>2, <1>3 DEF ForClient
  <1>4. CASE CodeOf(Formatted(c)) \notin ClientFacing
    <2>1. /\ e.text = "generic" /\ e.ref = req[h].ref
          /\ e.code = CodeOf(Formatted(c))
      BY <1>2, <1>4 DEF ForClient
    <2>2. \A l \in log : l.ref = e.ref => l.of = h
      BY <1>1, <2>1 DEF IInv, RefsKept
    <2>3. PICK l \in log : l.of = h /\ l.code = CodeOf(c)
      BY <1>1 DEF IInv, Logged, LoggedFor
    <2>4. c \in Codes \cup {NoCode}
      BY <1>1 DEF Request
    <2>5. l.ref = e.ref /\ l.code \in {e.code, "UNKNOWN"}
      BY <1>1, <2>1, <2>3, <2>4, CodesShown
    <2> QED
      BY <2>1, <2>2, <2>5
  <1> QED
    BY <1>3, <1>4

\* Every error a caller reads was written for one, or names the ref of its own
\* lines in the log.
THEOREM ErrorsHold == Spec => []ErrorsTraceable
  BY Invariance, TraceableWhenAnswered, PTL

LEMMA SentIsFresh ==
    ASSUME IInv, [Next]_vars, NEW h \in Handlers, At(h, "run"), At(h, "fetch")'
    PROVE  LET f == req'[h].sent IN
           /\ f.bearer # NoToken => WasEntitled(f.bearer, now)
           /\ \A claim \in Named(f) : WasEntitled(claim, req[h].arrived)
  <1>1. Send(h)
    <2>1. req[h].step = "run" /\ req'[h].step = "fetch" /\ req \in [Handlers -> Request]
      BY DEF At, IInv, TypeOK
    <2>2. ASSUME NEW g \in Handlers, Come(g) PROVE FALSE
      <3>1. ASSUME NEW cookie, NEW header, NEW ip, Arrive(g, cookie, header, ip)
            PROVE  FALSE
        BY <2>1, <3>1 DEF Arrive
      <3>2. ASSUME NEW cookie, NEW header, NEW ip, NEW user,
                   Admit(g, user, cookie, header, ip)
            PROVE  FALSE
        BY <2>1, <3>2 DEF Admit
      <3> QED
        BY <2>2, <3>1, <3>2 DEF Come
    <2>3. ASSUME NEW g \in Handlers, Step(g), g # h PROVE FALSE
      BY <2>1, <2>3 DEF Step, Validate, Send, Receive, Finish, Report, Respond, Close
    <2>4. ASSUME Step(h), ~Send(h) PROVE FALSE
      <3>1. CASE Validate(h) \/ Report(h) \/ Respond(h) \/ Close(h) \/ Receive(h)
        BY <2>1, <3>1 DEF Validate, Receive, Report, Respond, Close, At
      <3>2. CASE Finish(h)
        <4>1. req'[h].step \in {"respond", "report"}
          BY <2>1, <3>2, OfOne DEF Finish, Request
        <4> QED
          BY <2>1, <4>1
      <3> QED
        BY <2>4, <3>1, <3>2 DEF Step
    <2>5. ASSUME UNCHANGED req PROVE FALSE
      BY <2>1, <2>5
    <2> QED
      BY <2>2, <2>3, <2>4, <2>5 DEF Next, vars, ChangeStanding, Tick
  <1> DEFINE c == req[h].context
             t == c.token
             f == HeadersFrom(c)
  <1>2. /\ req'[h].sent = f /\ c \in Contexts /\ SellersPlain
        /\ ContextProven(c, req[h].proven, req[h].arrived)
    BY <1>1, OfOne DEF Send, Request, IInv, TypeOK
  <1>3. ASSUME f.bearer # NoToken PROVE WasEntitled(f.bearer, now)
    <2>1. f.bearer = t /\ ValidateToken(t) /\ t # NoToken
      BY <1>3 DEF HeadersFrom
    <2>2. t \in Token /\ HoldingOf(t) \in held
      BY <1>2, <2>1 DEF Contexts, ContextProven
    <2>3. now < t.iat + AccessTTL
      BY <2>1, <2>2, VerifiedIsOurs DEF ValidateToken, Credential
    <2> QED
      BY <2>1, <2>2, <2>3 DEF HoldingOf, WasEntitled
  <1>4. ASSUME NEW claim \in Named(f) PROVE WasEntitled(claim, req[h].arrived)
    <2>1. SentFrom(f, c)
      BY <1>2, HeadersSayContext
    <2>2. t # NoToken
      BY <1>2, <1>4, <2>1 DEF SentFrom, ContextProven, Named
    <2>3. /\ t \in Token /\ HoldingOf(t) \in held
          /\ req[h].arrived < t.iat + AccessTTL
      BY <1>2, <2>2 DEF Contexts, ContextProven
    <2>4. claim = ClaimOf(t)
      BY <1>2, <1>4, <2>1, <2>2, <2>3, NamesOneSubject
    <2> QED
      BY <2>3, <2>4 DEF HoldingOf, ClaimOf, WasEntitled
  <1> QED
    BY <1>2, <1>3, <1>4

\* A token is forwarded only within a lifetime of the moment its subject was
\* entitled to it as it stands, and the identity headers name only what their
\* subject was entitled to within a lifetime of the request's arrival.
THEOREM AccessEnds == Spec => AccessFadesOut
  <1>1. IInv /\ [Next]_vars =>
          [\A h \in Handlers :
             At(h, "run") /\ At(h, "fetch")' =>
               LET f == req'[h].sent IN
               /\ f.bearer # NoToken => WasEntitled(f.bearer, now)
               /\ \A claim \in Named(f) : WasEntitled(claim, req[h].arrived)]_vars
    BY SentIsFresh
  <1> QED
    BY <1>1, Invariance, PTL DEF Spec, AccessFadesOut
=============================================================================
