-------------------------- MODULE FederatedRequests --------------------------
(***************************************************************************)
(* A request at the public edge of the gateway: who it is taken for, what  *)
(* the subgraphs are told about it, and what its caller is told when       *)
(* something fails.                                                        *)
(*                                                                         *)
(* A GraphQL request gets its context once, when it arrives                *)
(* (app.module.ts), and its fetches set their headers from it later, while *)
(* the clock goes on and other requests share the data source and the      *)
(* plugins.  A REST request meets a guard instead.  No part of this asks   *)
(* the database: an account that was barred loses its access when its last *)
(* access token expires.                                                   *)
(*                                                                         *)
(* Limitations: the fetches of one request are taken one at a time (they   *)
(* all read the same context); a ref, four random bytes, is taken to be    *)
(* different from every other ref in the log.                              *)
(***************************************************************************)
EXTENDS Integers

CONSTANTS
    Sellers,    \* ids of sellers
    Admins,     \* ids of admins
    Scopes,     \* what an admin token says besides: adminRole, adminType, adminSellerId
    None,       \* no id, no address, no ref
    NoScope,    \* the scope of a seller, of a refresh token, of a barred admin
    NoToken,    \* no credential
    Forged,     \* a credential this gateway never signed
    Addresses,  \* addresses of visitors
    Failures,   \* the codes a fetch may fail with
    Refs,       \* the refs of the requests in flight (bound)
    Handlers,   \* requests in flight at one time (bound)
    AccessTTL,  \* life of an access token, in seconds of the model
    MaxNow      \* bound of the clock

Subject == Sellers \cup Admins
Standing == Scopes \cup {NoScope}
Seconds == 0..MaxNow
Claim == [sub : Subject, scope : Standing]
Token == [sub : Subject, scope : Standing, iat : Seconds,
          secret : {"access", "refresh"}]
Credential == Token \cup {NoToken, Forged}

\* The codes an error may come with, if it comes with one.
ClientFacing == {"UNAUTHORIZED"}
Codes == ClientFacing \cup {"INTERNAL_SERVER_ERROR", "GRAPHQL_VALIDATION_FAILED"}
NoCode == "none"

ASSUME SubjectsDistinct == Sellers \cap Admins = {}
ASSUME NoneIsNone == None \notin Subject \cup Addresses \cup Refs
ASSUME NoScopeIsNone == NoScope \notin Scopes
ASSUME NoTokenIsNone == {NoToken, Forged} \cap Token = {} /\ NoToken # Forged
ASSUME FailuresAreCodes == Failures \subseteq Codes \cup {NoCode}
ASSUME TimesAreNat == AccessTTL \in Nat /\ MaxNow \in Nat

VARIABLES
    now,       \* the clock, in seconds
    standing,  \* the scope of each admin, NoScope while barred
    held,      \* history: who had which claim in which second
    req,       \* the request each handler is serving
    log        \* the lines of the error log, of the requests still in flight

vars == <<now, standing, held, req, log>>

Holding == [sub : Subject, scope : Standing, at : Seconds]

Headers == [bearer : Token \cup {NoToken}, sellerId : Sellers \cup {None},
            adminId : Admins \cup {None}, adminScope : Standing,
            clientIp : Addresses \cup {None}]

\* GatewayContext: what the context factory makes of a request.
Contexts == [token : Token \cup {NoToken}, sellerId : Sellers \cup {None},
             adminId : Admins \cup {None}, adminScope : Standing,
             clientIp : Addresses \cup {None}]

Shown == Codes \cup {"UNKNOWN"}

\* What the caller reads of an error: its own text, or the generic one, which
\* names a ref.
Told == [code : Shown, text : {"own", "generic"}, ref : Refs \cup {None}]

\* A line says more (who was asking, and why a token was refused), all of it
\* taken from the request it is of.
Line == [ref : Refs, code : Shown, of : Handlers]

Steps == {"idle", "validate", "run", "fetch", "report", "respond", "answered",
          "admitted"}

\* arrived and proven are history: when a request came, and the claims that its
\* credentials proved at that moment.
Request == [step : Steps, context : Contexts, sent : Headers,
            user : Subject \cup {None}, errors : SUBSET (Codes \cup {NoCode}),
            ref : Refs \cup {None}, answer : SUBSET Told,
            arrived : Seconds, proven : SUBSET Claim]

TypeOK ==
    /\ now \in Seconds
    /\ standing \in [Admins -> Standing]
    /\ held \subseteq Holding
    /\ req \in [Handlers -> Request]
    /\ log \subseteq Line

Anonymous == [token |-> NoToken, sellerId |-> None, adminId |-> None,
              adminScope |-> NoScope, clientIp |-> None]

NothingSent == [bearer |-> NoToken, sellerId |-> None, adminId |-> None,
                adminScope |-> NoScope, clientIp |-> None]

Idle == [step |-> "idle", context |-> Anonymous, sent |-> NothingSent,
         user |-> None, errors |-> {}, ref |-> None, answer |-> {},
         arrived |-> 0, proven |-> {}]

\* Who may be issued a token in a second, with the standing st: a seller, and
\* an admin who is not barred.
Holders(st, second) ==
    [sub : Sellers, scope : {NoScope}, at : {second}]
      \cup {[sub |-> a, scope |-> st[a], at |-> second] :
              a \in {b \in Admins : st[b] # NoScope}}

Init ==
    /\ now = 0
    /\ standing \in [Admins -> Scopes]
    /\ held = Holders(standing, 0)
    /\ req = [h \in Handlers |-> Idle]
    /\ log = {}

-----------------------------------------------------------------------------
(* The tokens that may be about.  Whoever may be issued a pair in a second *)
(* has been; how pairs are issued is SessionTokens' matter.                *)

AccessTokens ==
    {[sub |-> c.sub, scope |-> c.scope, iat |-> c.at, secret |-> "access"] : c \in held}

\* A refresh token names its subject and nothing else.
RefreshTokens ==
    {[sub |-> c.sub, scope |-> NoScope, iat |-> c.at, secret |-> "refresh"] : c \in held}

Presentable == AccessTokens \cup RefreshTokens \cup {NoToken, Forged}

\* An Authorization header: a scheme, and what follows it.
Header(t, scheme) == [token |-> t, scheme |-> scheme]
Schemes == {"Bearer", "other"}

-----------------------------------------------------------------------------
(* Verification. *)

\* What `verify' makes of a token signed with the given secret.
Verify(t, secret) ==
    CASE t \in {NoToken, Forged} -> "invalid"
      [] t \in Token /\ t.secret # secret -> "invalid"
      [] t \in Token /\ t.secret = secret ->
            IF now < t.iat + AccessTTL THEN "valid" ELSE "expired"

\* Mutant of CheckAccessToken: a refresh token will do, as it once did.
CheckEitherToken(t) ==
    CASE t = NoToken -> "missing"
      [] t \in Token /\ t.secret = "refresh" -> "valid"
      [] OTHER -> Verify(t, "access")

CheckAccessToken(t) == IF t = NoToken THEN "missing" ELSE Verify(t, "access")

\* The cookie is taken before the header, and the header whatever its scheme.
Chosen(cookie, header) == IF cookie # NoToken THEN cookie ELSE header.token

\* The context factory: a request without a valid access token goes on
\* unauthenticated.
ContextOf(cookie, header, ip) ==
    LET t == Chosen(cookie, header) IN
    IF CheckAccessToken(t) = "valid"
    THEN [token |-> t,
          sellerId |-> IF t.sub \in Sellers THEN t.sub ELSE None,
          adminId |-> IF t.sub \in Admins THEN t.sub ELSE None,
          adminScope |-> t.scope, clientIp |-> ip]
    ELSE [token |-> NoToken, sellerId |-> None, adminId |-> None,
          adminScope |-> NoScope, clientIp |-> ip]

\* JwtStrategy: the cookie, or else a bearer header; a seller's token only.
SellerOf(cookie, header) ==
    LET t == CASE cookie # NoToken -> cookie
               [] cookie = NoToken /\ header.scheme = "Bearer" -> header.token
               [] OTHER -> NoToken
    IN  IF Verify(t, "access") = "valid" /\ t.sub \in Sellers THEN t.sub ELSE None

\* Mutant of AdminOf: the header is taken before the cookie.
AdminOfHeader(cookie, header) ==
    LET t == IF header.token # NoToken THEN header.token ELSE cookie
    IN  IF Verify(t, "access") = "valid" /\ t.sub \in Admins THEN t.sub ELSE None

\* JwtAdminGuard.
AdminOf(cookie, header) ==
    LET t == Chosen(cookie, header)
    IN  IF Verify(t, "access") = "valid" /\ t.sub \in Admins THEN t.sub ELSE None

-----------------------------------------------------------------------------
(* Arrivals. *)

At(h, s) == req[h].step = s

\* What a request's credentials prove when it arrives: the claims of access
\* tokens of ours that were issued less than a lifetime ago.
Proofs(cookie, header) ==
    {[sub |-> t.sub, scope |-> t.scope] :
       t \in {u \in {cookie, header.token} \ {NoToken, Forged} :
                u.secret = "access" /\ now < u.iat + AccessTTL}}

\* Mutant of NewRef: the plugin draws one ref for every request.
OneRef(r) == r = CHOOSE q \in Refs : TRUE

\* requestDidStart: four random bytes for this request.
NewRef(r) == \A h \in Handlers : req[h].ref # r

\* POST /graphql.
Arrive(h, cookie, header, ip) ==
    /\ \E r \in Refs :
         /\ NewRef(r)
         /\ req' = [req EXCEPT ![h] =
              [step |-> "validate", context |-> ContextOf(cookie, header, ip),
               sent |-> NothingSent, user |-> None, errors |-> {}, ref |-> r,
               answer |-> {}, arrived |-> now, proven |-> Proofs(cookie, header)]]
    /\ UNCHANGED <<now, standing, held, log>>

\* An upload, a release or a panel edit whose guard lets its caller in; the
\* context it would have had is kept as history.  Whoever is not let in is
\* answered 401 at once.
Admit(h, user, cookie, header, ip) ==
    /\ user # None
    /\ req' = [req EXCEPT ![h] =
         [step |-> "admitted", context |-> ContextOf(cookie, header, ip),
          sent |-> NothingSent, user |-> user, errors |-> {}, ref |-> None,
          answer |-> {}, arrived |-> now, proven |-> Proofs(cookie, header)]]
    /\ UNCHANGED <<now, standing, held, log>>

-----------------------------------------------------------------------------
(* Steps of a GraphQL request. *)

\* The server parses the query and holds it against the schema and the
\* validation rules; here it passes or does not.
Validate(h) ==
    /\ At(h, "validate")
    /\ \/ req' = [req EXCEPT ![h].step = "run"]
       \/ req' = [req EXCEPT ![h].step = "report",
                             ![h].errors = {"GRAPHQL_VALIDATION_FAILED"},
                             ![h].context = Anonymous,
                             ![h].arrived = 0, ![h].proven = {}]
    /\ UNCHANGED <<now, standing, held, log>>

\* Mutant of ValidateToken: the check made on arrival is trusted.
TrustToken(t) == t # NoToken

ValidateToken(t) == t # NoToken /\ Verify(t, "access") = "valid"

\* willSendRequest: the bearer is left out once it has expired; the identity
\* headers are not.
HeadersFrom(c) ==
    [bearer |-> IF ValidateToken(c.token) THEN c.token ELSE NoToken,
     sellerId |-> c.sellerId,
     adminId |-> c.adminId,
     adminScope |-> IF c.adminId # None THEN c.adminScope ELSE NoScope,
     clientIp |-> c.clientIp]

Send(h) ==
    /\ At(h, "run")
    /\ req' = [req EXCEPT ![h].step = "fetch",
                          ![h].sent = HeadersFrom(req[h].context)]
    /\ UNCHANGED <<now, standing, held, log>>

\* A fetch may add an error: the subgraph's, or the gateway's own when it has
\* no answer.
Receive(h) ==
    /\ At(h, "fetch")
    /\ \E E \in {{}} \cup {{c} : c \in Failures} :
         req' = [req EXCEPT ![h].step = "run", ![h].sent = NothingSent,
                            ![h].errors = @ \cup E]
    /\ UNCHANGED <<now, standing, held, log>>

\* The query is executed; nothing looks at its context again, but for the
\* words of the log.
Finish(h) ==
    /\ At(h, "run")
    /\ req' = [req EXCEPT
         ![h].step = IF req[h].errors = {} THEN "respond" ELSE "report",
         ![h].context = Anonymous, ![h].arrived = 0, ![h].proven = {}]
    /\ UNCHANGED <<now, standing, held, log>>

\* Mutant of CodeOf: a missing code is written as it is.
CodeAsGiven(c) == c

CodeOf(c) == IF c = NoCode THEN "UNKNOWN" ELSE c

\* didEncounterErrors: one line for each error.
Report(h) ==
    /\ At(h, "report")
    /\ log' = log \cup {[ref |-> req[h].ref, code |-> CodeOf(c),
                         of |-> h] : c \in req[h].errors}
    /\ req' = [req EXCEPT ![h].step = "respond"]
    /\ UNCHANGED <<now, standing, held>>

\* The server formats an error before willSendResponse sees it, and gives a
\* code to one that has none.
Formatted(c) == IF c = NoCode THEN "INTERNAL_SERVER_ERROR" ELSE c

ForClient(c, r) ==
    IF c \in ClientFacing
    THEN [code |-> c, text |-> "own", ref |-> None]
    ELSE [code |-> c, text |-> "generic", ref |-> r]

\* willSendResponse.
Respond(h) ==
    /\ At(h, "respond")
    /\ req' = [req EXCEPT ![h].step = "answered",
                 ![h].answer = {ForClient(CodeOf(Formatted(c)), req[h].ref) :
                                  c \in req[h].errors}]
    /\ UNCHANGED <<now, standing, held, log>>

\* The caller has its answer; the handler and the ref are free again.
Close(h) ==
    /\ At(h, "answered") \/ At(h, "admitted")
    /\ req' = [req EXCEPT ![h] = Idle]
    /\ log' = {l \in log : l.of # h}
    /\ UNCHANGED <<now, standing, held>>

-----------------------------------------------------------------------------
(* The environment. *)

\* The users subgraph changes the scope of an admin, bars or restores it.
ChangeStanding(a, s) ==
    /\ s # standing[a]
    /\ standing' = [standing EXCEPT ![a] = s]
    /\ held' = held \cup Holders(standing', now)
    /\ UNCHANGED <<now, req, log>>

Tick ==
    /\ now < MaxNow
    /\ now' = now + 1
    /\ held' = held \cup Holders(standing, now + 1)
    /\ UNCHANGED <<standing, req, log>>

\* A handler that is free takes a request.
Come(h) ==
    /\ At(h, "idle")
    /\ \E cookie, t \in Presentable, scheme \in Schemes, ip \in Addresses :
         LET header == Header(t, scheme) IN
         \/ Arrive(h, cookie, header, ip)
         \/ Admit(h, SellerOf(cookie, header), cookie, header, ip)
         \/ Admit(h, AdminOf(cookie, header), cookie, header, ip)

Step(h) ==
    \/ Validate(h) \/ Send(h) \/ Receive(h) \/ Finish(h)
    \/ Report(h) \/ Respond(h) \/ Close(h)

Next ==
    \/ \E h \in Handlers : Come(h) \/ Step(h)
    \/ \E a \in Admins, s \in Standing : ChangeStanding(a, s)
    \/ Tick

Spec == Init /\ [][Next]_vars

-----------------------------------------------------------------------------
(* Properties. *)

\* Whom the headers of a fetch name.
Named(f) ==
    {[sub |-> u, scope |-> NoScope] : u \in {f.sellerId} \ {None}}
      \cup {[sub |-> u, scope |-> f.adminScope] : u \in {f.adminId} \ {None}}

\* Someone had what x claims less than the life of an access token before.
WasEntitled(x, second) ==
    \E c \in held :
        c.sub = x.sub /\ c.scope = x.scope /\ second < c.at + AccessTTL

\* "Only the short-lived access token authenticates a GraphQL request": what a
\* subgraph is told of the caller, all of it, was proved by a credential this
\* very request came with, at the time it came; and the token it is handed
\* says the same.  No refresh or forged token names anybody, nor one that had
\* expired when the request came, whoever else is served meanwhile.  A token
\* that expires while the request is under way goes on naming its subject in
\* the identity headers: the code checks only the bearer again.
IdentityWasProven ==
    \A h \in Handlers :
        At(h, "fetch") =>
          LET f == req[h].sent IN
          /\ Named(f) \subseteq req[h].proven
          /\ f.bearer # NoToken =>
               Named(f) = {[sub |-> f.bearer.sub, scope |-> f.bearer.scope]}

\* "Logging out or disabling an account left the token working": no more.  A
\* token that is forwarded as a bearer says what its subject was entitled to
\* less than an access token's life before; the identity headers, the role of
\* an admin among them, what their subject was entitled to less than that life
\* before the request came.  An admin barred or given another role for that
\* long is heard in the old one by no request that comes afterwards.
AccessFadesOut ==
    [][\A h \in Handlers :
         At(h, "run") /\ At(h, "fetch")' =>
           LET f == req'[h].sent IN
           /\ f.bearer # NoToken => WasEntitled(f.bearer, now)
           /\ \A claim \in Named(f) : WasEntitled(claim, req[h].arrived)]_vars

\* "The same rule the GraphQL context follows": a guard lets nobody in whom
\* the GraphQL endpoint would take for another, or for nobody.
GuardsAgree ==
    \A h \in Handlers :
        At(h, "admitted") =>
          LET c == req[h].context IN req[h].user \in {c.sellerId, c.adminId}

\* "A user's report leads straight to it": a generic message names a ref whose
\* lines in the log are of that request alone, and one of them is the error's;
\* and no text reaches a caller that was not written for one.
ErrorsTraceable ==
    \A h \in Handlers :
        At(h, "answered") =>
          \A e \in req[h].answer :
            \/ e.text = "own" /\ e.code \in ClientFacing
            \/ /\ e.text = "generic"
               /\ \A l \in log : l.ref = e.ref => l.of = h
               /\ \E l \in log : l.ref = e.ref /\ l.code \in {e.code, "UNKNOWN"}
=============================================================================
