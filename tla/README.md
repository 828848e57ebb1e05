# ekoru-gateway: a verification project

The gateway is a NestJS process in front of the ekoru subgraphs. It federates
GraphQL, signs sellers and admins in, takes image uploads, bridges payment
providers to the transactions subgraph and limits request rates. It keeps
almost nothing in memory: its state is rows of a shared Postgres database,
files in the object store behind the image processor, and counters in Redis.
Every request is a coroutine over those stores, so what is hard about it is
what happens *between* two awaits: other requests, other services writing the
same rows, a call that rejects or whose answer is lost, a restart.

The modules below model that. TLC checks small instances; TLAPS proves the
most important results for every value of the constants.

    tlc -config sessions_admin.cfg MCSessionTokens.tla     # one run
    tlapm SessionTokensProofs.tla                          # one proof module

## 1. The system

| Part | State it keeps | Operations | Talks to | Modelled by |
|---|---|---|---|---|
| Session tokens (`auth/auth.service.ts`, `token.repository.ts`, `auth.controller.ts`) | rows of `RefreshToken`; reads `Seller`, `Admin` | login, loginAdmin, refreshToken, refreshAdminToken, logout | Postgres; the users subgraph edits the same `Admin` rows | `SessionTokens`, `SessionChains` |
| Login lockout (`AuthService.login`, `registerFailedLogin`) | `loginAttempts`, `lockedUntil` of a `Seller` row | one sign-in | Postgres | `LoginLockout`, `LockoutPolicy` |
| Panel access (`auth/business-panel-access.ts`) | none; reads terms, plan rules, admins | one check, at sign-in and refresh | Postgres, written by the users subgraph | `PanelSeats` |
| Image replacement (`profile-image`, `cover-image`, `product-images` controllers) | the image column of a profile or product row | replace | Postgres, image processor | `ImageReplace` |
| Listing images (`panel-business-images`, `business-image`, `product-images`, `images` controllers) | `images`, `isActive` of listing rows | publish, add, append, replace, remove, cover, release | Postgres, image processor; the web edits the same rows through the catalog subgraph | `ListingImages` |
| Rate-limit storage (`resilient-throttler.storage.ts`) | `downUntil`; counters in Redis or in memory | increment | Redis | `ThrottlerFallback` |
| Payment callbacks (`payments/`) | none; the transactions subgraph keeps it | return, webhook | providers, transactions subgraph | `PaymentCallbacks` |
| Request identity (`app.module.ts`) | the context of one request | build context, set headers | subgraphs | `FederatedRequests` |
| Access tokens and guards (`auth/access-token.ts`, `guards/`, `strategies/`) | none | verify one token, let a REST request in | jsonwebtoken, passport | `FederatedRequests` |
| Error reporting (`graphql/error-reporting.plugin.ts`) | one `ref` per request, the log | log the errors, word the answer | Apollo server | `FederatedRequests` |
| Upload checks (`upload-security.ts`) | none | validate one request | – | no: stateless (section 6) |
| Notifications, languages, metrics, health, bootstrap, scripts | none that a property depends on | – | – | no (section 6) |

How the parts meet: `loginAdmin` and `refreshAdminToken` ask panel access for a
verdict while a session is being made (`Panel` of `SessionTokens` takes either
verdict; `PanelSeats` says which one); `login` runs the lockout before the
session part starts (`Login` of `SessionTokens` starts where `LoginLockout`
ends); the access tokens a session hands out are the credentials
`FederatedRequests` starts from (its `held` is what any sequence of sign-ins and
refreshes may have issued); the two image components share the image processor,
whose keys are fresh, and the `Product` rows: `POST api/product-images` is in both,
in `ImageReplace` as one more route that replaces the files of a row, and in
`ListingImages` as the one that deletes files other listings may share.

What is hard about each, and what makes it correct:

- **Session tokens.** A refresh is *check, revoke, sign, save* in four separate
  awaits with no transaction. Two requests may carry the same token; a logout
  may fall in between; a save may reject after the revocation; the admin may be
  barred meanwhile. Correct means: a revoked token is never honoured again, a
  pair exists only once its parent is revoked, an admin pair carries a role its
  admin held, and a session is in one pair of hands unless two requests had its
  token in hand at once.
- **Lockout.** The counter is read, a password is compared (slowly), and the
  counter is written back. Correct means: no lock without eight wrong passwords,
  a bounded number of them between two locks, no lock for ever, and nothing but a
  sign-in clears the counter.
- **Panel access.** Plan, rule and admins are read in three awaits. Correct
  means: no more admins than seats, in the order the policy gives.
- **Images.** The row and the file are in two stores. Correct means: a row never
  lists a file that is gone, and files no row lists are cleaned up.
- **Payment callbacks.** The gateway keeps nothing; a call that fails in passing
  is recovered only if the provider sends again, which depends on the answer it
  was given; nothing the gateway receives is checked here, and anybody may send it.
  Correct means: the gateway ends no notification of a payment that was taken before
  the subgraph knows of the payment. Khipu's failures are the exception (section 3).
- **Rate limit.** Every request of the gateway waits for its count. Correct
  means: it always gets one, Redis is not pressed while it is away, is used again
  soon after, and the limit holds as far as the counts survive.
- **Requests.** A request is identified once, from a cookie or a header, and its
  fetches go out later, when the token may have expired; three places choose a
  token by slightly different rules; nothing asks the database whether the account
  still stands; one plugin reports the errors of all requests, in two callbacks
  between which the server rewrites the error. Correct means: a subgraph is told
  only what this request proved, a guard and the GraphQL context never take a
  caller for two different people, an admin's old role fades within the life of an
  access token and the request under way then, and a caller's `ref` leads to the lines of that request and to no
  others.

`PROJECT.json` lists each hazard at its line with the properties about it.

## 2. How the code is modelled

The atomic step is the same everywhere: *one awaited call and the synchronous
code that follows it*, which is exactly the unit Node cannot interrupt. A
handler is a record holding the next await (`step`) and what it has read so far.
Requests arrive at idle handlers; the number of handlers bounds the requests in
flight, not the number served. `AwaitFails` lets any await reject without
effect, actions named `...Unanswered` let it take effect and then reject, and
`Crash` forgets every request in flight. All are switched by the constant
`Faults`. Rows edited by other services change in actions of their own
(`ChangeStanding`, `ChangePlan`, `EditRule`, `ChangeHolders`, `WebDrop`); those
and the clock are external in the map.

Definitions named `Mutant of X` in comments are the variants with which each
property is tested: the property fails when X is replaced by one of them.

### SessionTokens
`live` and `revoked` are the `RefreshToken` rows by `isRevoked`; rows are never
deleted, as in the code. A token is `[sub, iat]` and nothing else, because
`signRefreshToken` signs only the subject, `iat` counts seconds and there is no
random id: two tokens of one subject in one second are the same string.
`standing[a]` is the role of an admin row, `NoRole` once it is inactive or
locked; `BusinessRoles` are those whose type sends the request through panel
access. Handlers run through `isRevoked`, `revoke`, `reread`, `panel`, `touch`,
`save`, as the code does. Both refresh endpoints accept either kind of token
(same secret), and the wrong one revokes it and then fails: `AfterRevoke` keeps
that. `logout` does not verify its token. `minted`, `signedOut`, `contested` and
the fields `late` and `seen` are history. `contested` holds the tokens that a refresh
took in hand (passed `isRevoked` with) while another refresh or a logout had them in
hand, in either order: nothing in the gateway keeps a client from that.

`SessionChains` is the abstract promise: a token stands for a session, a refresh
hands it on in one step to one successor, and it ends. A token that two requests
hold at once is contested: only such a token may be handed on twice (`Fork`) or
after its sign-out. `SessionsAreChains` refines it, races included: a token that is
revoked but whose exchange is still under way maps to an active one, so that the
abstract `Rotate` is the concrete `Save`.

Not modelled: cookies, messages, the access token's own content, the login
alert, and the admin's failed-attempt increment (a blind atomic increment that
nothing in the gateway reads).

### LoginLockout
One seller row. The lock is stored as time left, so the clock is unbounded; the
counter has no bound, as in the code, and TLC's (`CountBound`) stops sign-ins at a
counter of ten, two past the threshold: every value past it acts the same. `guesses`
is history, the wrong passwords since an account was last cleared or a lock ran out.
`LockoutPolicy` is the policy in the words of the comments. `orderly` is history:
no two sign-ins have overlapped so far. `KeepsPolicy` says that the policy's
initial state and steps are kept as long as that is so; a stale write that
lowers the counter or lifts a lock is possible only after it stopped being so.
What such writes cost is `GuessesAreBounded`: with n handlers at once an account
takes at most C(8 + n, n) - 1 wrong passwords between two locks, 8 with one and 44
with two, and TLC finds that the bound is reached.

### FederatedRequests
A handler serves a GraphQL request (`validate`, `run`, `fetch`, `report`,
`respond`, `answered`) or a REST request a guard has let in (`admitted`). `Come`
presents any cookie with any header: access and refresh tokens that were issued,
expired ones, forged ones, none. `Verify` is `verify` of jsonwebtoken, by secret
and expiry; `Chosen`, `SellerOf` and `AdminOf` are the three choices between
cookie and header. `ContextOf` is the context factory, `HeadersFrom` is
`willSendRequest` and verifies the token once more. The claims of an admin token
(role, type, seller) are one value, its `scope`; `standing` is the scope of an
admin's row and `ChangeStanding` the users subgraph. `Report` writes one line per
error, `Formatted` is what the server does to an error before `willSendResponse`
words it, and `Respond` is that. History: `held`, who was entitled to which claim
in which second; `arrived` and `proven`, when a request came and what its
credentials proved then.
Code and ref are kept of a log line, the text is not. A request that is answered
gives its ref back, so that a few refs serve any number of requests.

The fetches of one request are taken one after another: they read one context,
which nothing writes, so that an overlap of two adds no state.

### PanelSeats
`plan` stands for the answer of the term query (the latest active term in force,
or the free plan), `seats` for the rules. `InOrder` is what the database's
`orderBy` returns, `Queue` and `HasSeat` are the sequence code; the properties use
the declarative order `Ahead` and counting instead. Admins are numbered in order of
`createdAt`, and there are finitely many. That no two share a `createdAt` is an
assumption: the query has no second key to order by, and of two admins created in
the same millisecond each read may put either first.
`quiet`, `granted` and `waiting` remember the verdicts of checks begun since
anything last changed: the policy is about one state of affairs, and a check
whose reads span two of them may mix them, which the code accepts and no
property here forbids.

### ImageReplace
One row, on any of the three routes, for a person or a business, with or
without its profile row (`target`, chosen once). A batch of fresh keys is
uploaded, the row is pointed at it, the old files go. A failed delete is logged
and leaves its file; the first read failing means "no old key" on the profile
routes and an error on the product route. Only this row lists the files here; what
a product shares with other listings is in `ListingImages`. `orderly` is history: no overlap and
no fault so far.

### ListingImages
Every edit reads a list, awaits, and writes the whole list. `base` is the list
read and `stale` (history) the items that were ever overwritten from a list that
was no longer theirs. A release counts the three tables one by one, in any
order, and then deletes. A replacement of a product's photos writes its new files
whatever the list is by then, and deletes those it found at first, one after the
other, without a count; `gone` (history) has the files each product's replacements
deleted. A client can only name a key it was told (`Known`).
The publishing upload (`UploadProductImage`) stores a file for a listing that does
not exist yet, which its seller may then name in a release; the listings made of
such files are the initial ones; they may share photos, as copies of one key do. The code filters a removed key out of a list;
here the first of that name goes, which is the same because no list repeats a
photo (`NoRepeats`, section 4). The catalogue and avatar uploads of
`ImagesController` touch no row.

### PaymentCallbacks
`paid` is what a provider has taken, `due` what it still means to notify,
`settled` what the subgraph recorded; all three are outside the gateway and
modelled from what its comments and calls say of them. A webhook comes for any
payment, taken or pending, from the provider or from somebody else (`Webhook`), or
from the provider because it has taken the payment (`Notice`); the gateway does not
tell them apart, forwards both in one call (`Forward`, or `ForwardFails`, which may
have taken effect) and answers by whether the call failed. The status string the
subgraph returns is read by nobody. The subgraph may therefore take a notice without
recording the payment; `overlooked` (history) keeps such payments, and what they
mean is the subgraph's matter. The provider may send again before it is answered,
and the answer may be lost. A Khipu failure is answered 201 with `ok: false` in the
body and so ends its notifications (`refused` remembers which); a Mercado Pago
failure is answered 500 and does not. A webhook without signature or body, and a
return of an unknown provider, are refused before the call and change nothing.
Webpay has no notification. Not modelled: the page a returning buyer is sent to
(when the subgraph gives no id, `processReturn` names the order id, or 0),
signatures, which the subgraph verifies, and the hand-off page.

### ThrottlerFallback
One visitor and one window, so that no count expires. `down` is the time left
until `downUntil`; a handler asks Redis when it is 0 and counts in memory
otherwise. `redis` is the environment: a call during which Redis was away may
fail, having counted or not, or be answered once Redis is back. `Tick` cannot let
a call outlive `commandTimeout`. `Restart` is a deploy: a new memory, and no
`downUntil`. Redis is taken to keep its counts while it is away.

## 3. The runs

| Run | Bounds | Question |
|---|---|---|
| `sessions_admin` | 1 admin, 2 roles, 2 handlers, 2 seconds, faults | Do rotation, revocation and claims stay safe whatever interleaves or fails? |
| `sessions_chain` | 1 seller, 2 handlers, 3 seconds, faults | Does the service implement `SessionChains`, and is a race for a token the only way to spend it twice or to outlive its sign-out? |
| `lockout` | 2 sign-ins, 8 attempts, counter up to 10, lock of 3, faults, fair | Is every lock earned, none for ever, the number of guesses bounded whatever races, and the policy kept while sign-ins are orderly? |
| `panel_seats` | 3 admins, 2 paid plans, up to 2 seats, 2 checks | Are seats given as the policy says while everything changes? |
| `images_replace` | 3 replacements, 5 keys, up to 2 files, every route and kind, faults | Does the row list stored files only? |
| `listings` | 2 listings that may share photos, in two tables, 2 requests of any kind, 3 keys, limit 2, replacements of up to 2 files, faults | Do racing edits, uploads, replacements and releases keep the limit, the visibility rule, each other's photos and, the replacement of another listing excepted, the shared files? |
| `payments` | a payment of each provider that notifies, 2 callbacks at once, fair | Does the gateway end the notices of no payment the subgraph does not know of, and do the others reach it? |
| `rate_limit` | 3 hits at once, limit 2, calls of 2 ticks, pause of 4, 2 memories, fair | Does the fallback keep to its pause, end, and keep the limit? |
| `federated_requests` | 1 seller, 1 admin, 2 scopes, 2 requests, 2 refs, tokens of 1 second, 2 seconds | Is what subgraphs and callers are told proved, current, and traceable? |

Why the bounds are enough. Two or three handlers cover every pairwise race, and
each property relates at most two requests and one environment change. Two
seconds give both a same-second and a next-second token; the third lets one
expire (lifetime 2). Eight attempts is the code's own threshold; a lock of three
ticks has a first, a middle and a last, and a counter of ten lets both sign-ins
write past the threshold. Keys are fresh, so their number bounds
the uploads in a behaviour: five let three replacements follow an initial
picture with one double upload. The listing limit is 2 instead of 3, so that
three keys reach past it. A token that lives one second may expire between any two
steps of a request, and two seconds have a token of each age, of an admin before
and after a change of scope; two requests are enough for one ref or one context to
meet another. The pause of the rate limit is longer than a call, as
30 s is than 500 ms, and two calls and a failure of a third may overlap in it.
Symmetry is used for handlers and keys, only in runs
with no liveness property.

Fairness. `FairSpec` assumes that an await settles and the event loop resumes
its handler (weak fairness of each handler's `Proceed`) and, for the lockout,
that time passes (`Tick`). For the payments it also assumes what the comment on
`mercadoPagoWebhook` does: a provider that has not been answered sends again, and
errors pass, so that a call made again and again is not lost for ever (strong
fairness of `Notify` and `ForwardNotice`). Nothing obliges a client to send a request, an await
to fail, the process to stop, or another service to change a row. `Next` never
deadlocks in these models, so the runs check deadlock too.

### Where the code and its words part

Three runs expect a violation; each has a finding in `PROJECT.json`.

- `sessions_spent_once`: two overlapping refreshes with one token both pass
  `isRevoked` and both issue a pair; the log text says the second is refused.
- `sessions_rotation`: a refresh within the second its token was signed signs
  the same string, collides with the row it has just revoked, and the session
  ends with an error instead of a new pair.
- `listings_dangling`: a release counts no row, an edit writes a list it read
  earlier, the release deletes the file; a comment says a stale key can never
  break a listing.

Others are visible in how a property is stated.

- The gap that `sessions_spent_once` shows also lets a refresh that passed its check
  before a logout save its pair after the logout was answered. `LogoutTerminates` and
  `OnlyContestedSpentTwice` say that this takes two requests with the token in hand
  at once; they do not say it cannot happen.
- The failed-attempt counter can fall and a lock in force can be lifted when sign-ins
  overlap. `KeepsPolicy` is about orderly ones, `GuessesAreBounded` about all.
- A Khipu notification that fails in passing is answered 201 and not sent again,
  though the comment on it says a rejection must not look like success. That payment
  is lost unless its buyer returns; `NoPaymentForgotten` counts it as refused, and
  `NotificationComesBack` lets a Khipu payment end so.
- When a token expires while its request is under way, the bearer is withheld but
  `x-seller-id` and the `x-admin-*` headers are still sent, the old role of an admin
  among them, where `docs/AUTHENTICATION_FLOW.md:387-392` has the token validated
  again and "If invalid: Don't forward credentials". `IdentityWasProven` is about what
  was proved when the request arrived, and `AccessFadesOut` bounds the age of a bearer
  at the moment it is sent and that of the headers at the moment the request arrived.
- `POST api/product-images` deletes the former files of a product without asking
  whether another listing lists them, as `releaseImages` does. `FreshListsServable`
  excepts files deleted by the replacement of another listing.
- The GraphQL context and the admin guard take a header of any scheme, the seller
  guard a `Bearer` only: `GuardsAgree` goes one way, whom a guard lets in the context
  names.
- An error without a code is logged as UNKNOWN and answered as INTERNAL_SERVER_ERROR:
  `ErrorsTraceable` looks for either.
- Overlapping replacements leave orphaned files (`NoOrphans` is about those that come
  one at a time), and a business without a profile row is told its avatar was saved
  when nothing was (`ImageReplace` has the missing row, and no property is about the
  answer).
- Two panel edits that overlap lose a photo, and the shop's append never looks at the
  limit: `SaveIsOneEdit` is about listings to which that has not happened, and
  `OnlyTheShopExceeds` about the photos of the seller's own folder, where the shop's
  are not.

`docs/IMAGE_PROCESSOR_INTEGRATION.md` still describes deleting before
uploading; the code, and the model, delete last.

## 4. What is proved

Every safety invariant and every action property of the passing runs but
`GuessesAreBounded`, and a few more, for any number of subjects, handlers, keys and
seconds, with and without faults, under the named assumptions on the constants
(identities distinct, switches Boolean, numbers natural, at least one replacement at
a time, finitely many admins). `RaceIsBounded`, which counts
the handlers at work, also assumes finitely many of them.

**SessionTokensProofs.** `IInv` strengthens the properties with what each handler
knows (`Knows`): a step belongs to its operation; the token a handler holds has
a row; past `revoke` it is revoked; a handler that arrived late never gets past
its check; the claim it carries is one it has seen. It is inductive, one lemma
per action. From it: `TypeCorrect`, `Rotation` (`ParentRevoked`), `ReplayRefused`
(`LateRefreshRefused`), `ClaimsCurrent` (`ClaimsAreCurrent`) and
`RevocationIsFinal` (`RevokedStaysRevoked`).

The race for a token is part of the proof and not assumed away. A token of which two
requests that may still use it are in flight, or of which one is in flight that has
bought something or was signed out already, is contested. That is inductive, and
gives `SpentOnce` (`OnlyContestedSpentTwice`), `LogoutIsFinal` (`LogoutTerminates`)
and `Refinement` (`SessionsAreChains`: initial states map, and every step is an
abstract step or a stutter). `NoSessionFromNothing` uses the refinement: it counts in
`SessionChains`, where opening adds one session and one sign-in, handing on keeps
both numbers, forking a contested token adds one session and is counted as a race,
and ending only takes away, and carries the result over: there are never more live
tokens than sign-ins issued and races added.

`RaceIsBounded` says how far a race goes: one token buys at most
as many pairs as requests are served at one time, however many are sent. Once a
token is revoked nobody passes its check any more (`NobodyJoins`), and each pair
was a request past the check before (`BInv`). The two pairs of
`sessions_spent_once`, with its two handlers, reach the bound.

**LoginLockoutProofs.** `TypeCorrect`, and `LocksAreEarned` (`LockIsEarned`), strengthened by
"what a handler read is no more than the failures seen": a stale write can lose
attempts but never invent them. `Refinement` (`KeepsPolicy`) rests on what `orderly` gives: a handler
in the middle of a sign-in is alone, so what it read is what the row holds.
`GuessesAreBounded` is model-checked only: its bound is a binomial coefficient,
which the provers cannot compute with.

**FederatedRequestsProofs.** `TypeCorrect`, `IdentityHolds` (`IdentityWasProven`),
`GuardsHold` (`GuardsAgree`), `ErrorsHold` (`ErrorsTraceable`) and `AccessEnds`
(`AccessFadesOut`), for any accounts, requests, refs and lifetimes. The invariant
says that a context names nobody or exactly the subject of the token it carries,
which was issued, had not expired when the request came and whose claim it proved
(`ContextsProven`); that
headers say what the context says (`HeadersProven`); that no two requests share a
ref (`RefsKept`) and a line carries the ref of its request (`LinesKept`); and that
each error has its line before the answer is written (`Logged`, `Answered`).
`GuardNamesContext` is the lemma behind `GuardsHold`: for every cookie and header,
whom a guard accepts the context names.

**PaymentCallbacksProofs.** `TypeCorrect` and `NothingForgotten` (`NoPaymentForgotten`).
A notice comes to the webhook of the payment's own provider (`NoticesAreAddressed`),
and one whose call did not fail is about a payment the subgraph has recorded or
passed over (`RepliesAreTrue`), so that an answer that ends the notices of a payment
is one the subgraph knows of, or Khipu's refusal.

**PanelSeatsProofs.** `TypeCorrect`, `LapsedRefused` (`LapsedPlanRefuses`),
`SeatsSuffice` (`SeatsNotOversold`), `WaitIsDue` (`NobodyWaitsForNothing`),
`QueueIsKept` (`NobodyIsOvertaken`) and `EntryIsDue` (`NobodyEntersUnduly`, stated
with the proofs), for any number of admins, checks and seats. A check that nothing disturbed has
read what is still so (`QuietChecksKnow`), so whoever was let in has a place in
the present queue (`GrantedAreSeated`) and whoever was told to wait has none
(`WaitingAreUnseated`). The rest is about the queue alone: the n-th of `InOrder` has
n - 1 before it (`InOrderIs`), so an admin's place in the queue is one more than the
number of admins `Ahead` (`PlaceInQueue`). That ties the two concatenated filters
of the code to the policy, and being ahead is transitive: whoever is ahead of a
seated admin is seated.

**ThrottlerFallbackProofs.** `TypeCorrect`, `LeftAlone` (`RedisLeftAlone`), `Bounded`
(`OutageBounded`) and `Limited` (`LimitHolds`), for any times, limit and number of
calls. The invariant says that the pause left and the time since the last failure
add up to a pause at least; that a call which can still fail is older than
Redis's return, so that a pause ends within a call of it; and that whoever was
admitted was counted in Redis, in this memory or in an earlier one.

**ImageReplaceProofs.** `TypeCorrect`, `Servable` (`RowIsServable`) and `NothingOrphaned`
(`NoOrphans`).
`RowIsServable` is not inductive: a row is pointed at files uploaded earlier
while others delete. What keeps them is that a batch not yet saved is known to
its handler alone, because keys are fresh. `NoOrphans` rests on `Tidy`: as long as
replacements came one at a time without a fault, at most one is under way, and the
store holds the row's files and those that one is about.

**ListingImagesProofs.** `TypeCorrect`, `NoRepeats` (`ListsHaveNoRepeats`),
`ShownHavePhotos` (`NoneShownEmpty`), `FreshAreServable` (`FreshListsServable`),
`LimitKept` (`OnlyTheShopExceeds`) and `OneEdit` (`SaveIsOneEdit`). A request carries the
list it will write, and that list is right for what it has read (`RightJobs`:
within the limit, without repeats, its own edit of `base`). The key it is about
to list is known to no other request and in no list (`NewIsOwn`), because keys are
fresh; keys in use never come back as fresh ones (`KeysAreUsed`). A release that
has counted a table found its keys in no row of it; such a row can list one again only by
being written from an old list, which makes it stale (`CountsHold`). What a
replacement still has to delete was in its own product's list, and in no list of it
any more, so that it can only be missing from another. None of these
is visible in the properties, and each is needed for them to be inductive.

Only model-checked: `GuessesAreBounded` and the three liveness properties
(`NeverLockedForGood`, `NotificationComesBack`, `EveryIncrementAnswered`). Liveness
under fairness is outside the prover's reach.

## 5. Plan

Done: the token service and its abstraction, the lockout and its policy, panel
access, image replacement, listing images, payment callbacks, the fallback of the
rate limit, requests with their identity and their errors, and proofs of every
safety and action property of the runs. Left, in this order:

1. An abstract specification of the rate limit (a count that a new memory starts
   afresh) that `ThrottlerFallback` implements, with its proof.
2. A composition of `SessionTokens` with `PanelSeats`, so that the verdict in a
   refresh is the one the reads give. `Panel` takes either verdict now, which
   covers every composition; the gain would be a property of the seats counted
   over sessions.
3. The counterparts of the disagreements, as `RaceIsBounded` is of
   `sessions_spent_once`: a rotation completes unless a token of its second is
   already saved, and a lock is lost only to a sign-in that read the row before it.

Each joins a present run where it can (several properties in one run, a history
variable instead of a second configuration), so that there is one run per
question.

## 6. Not modelled

- **Upload checks** compare the bytes and the declared type of one file and the
  fields of one request. They keep nothing and race nothing: unit tests reach them.
  Ownership, the one check that reads a row, decides who reaches `ImageReplace` and
  `ListingImages`, whose callers are those it lets through.
- **Depth and selection limits** (`validation-rules.ts`) are a walk over one document.
  `Validate` stands for the server that runs them, and may refuse any query.
- **Notifications** are best-effort calls whose failures are swallowed, **metrics**
  counters nothing in the gateway reads, **languages** wording.
- **Health, bootstrap, wiring, scripts and deployment** are declarations, start-up
  and build tooling without a state of their own.
- The page a returning buyer is sent to and the Webpay hand-off page are texts.
- `TokenService` and `AuthService.decodeToken` are called by nothing.
