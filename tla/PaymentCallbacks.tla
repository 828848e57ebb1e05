-------------------------- MODULE PaymentCallbacks --------------------------
(***************************************************************************)
(* The public edge of the payment providers: a buyer's browser returning   *)
(* from a provider, and the provider's notifications.  Either is forwarded *)
(* to the transactions subgraph, which decides the payment, and answered   *)
(* by whether that call failed.                                            *)
(*                                                                         *)
(* The gateway keeps nothing, and checks neither what a callback says nor  *)
(* the status the subgraph replies with.  What is lost on the way is       *)
(* recovered, if at all, by the provider sending its notification again,   *)
(* which depends on the answer the gateway gives.                          *)
(***************************************************************************)
CONSTANTS
    Payments,    \* the payments under way
    ProviderOf,  \* the provider of each
    Handlers     \* callbacks in flight at one time (bound)

Providers == {"WEBPAY", "KHIPU", "MERCADOPAGO"}

\* What the URL of a return may name.
Named == Providers \cup {"OTHER"}

ASSUME ProvidersAreKnown == ProviderOf \in [Payments -> Providers]

VARIABLES
    paid,       \* the payments the provider has taken
    settled,    \* those the transactions subgraph has recorded as paid
    due,        \* those taken that the provider still means to notify
    callback,   \* the callback each handler is serving
    refused,    \* history: those whose notification was answered 201, ok: false
    overlooked  \* history: those of which the subgraph took a notification
                \* without an error and without recording the payment

vars == <<paid, settled, due, callback, refused, overlooked>>

\* payment: what the payload tells of, if the subgraph finds it; notice: the
\* provider sent it to tell of a payment it has taken; reply: how the call of
\* the subgraph ended.
Callback == [kind : {"none", "return", "webhook"},
             step : {"idle", "forward", "answer"},
             provider : Providers \cup {"NONE"},
             payment : SUBSET Payments,
             notice : BOOLEAN,
             reply : {"none", "done", "error"}]

Idle == [kind |-> "none", step |-> "idle", provider |-> "NONE",
         payment |-> {}, notice |-> FALSE, reply |-> "none"]

TypeOK ==
    /\ paid \subseteq Payments /\ settled \subseteq Payments
    /\ due \subseteq Payments
    /\ refused \subseteq Payments /\ overlooked \subseteq Payments
    /\ callback \in [Handlers -> Callback]

Init ==
    /\ paid = {} /\ settled = {} /\ due = {}
    /\ refused = {} /\ overlooked = {}
    /\ callback = [h \in Handlers |-> Idle]

At(h, s) == callback[h].step = s
Done(h) == callback' = [callback EXCEPT ![h] = Idle]

-----------------------------------------------------------------------------
(* The providers and the buyers. *)

\* The provider takes the money.  Webpay sends no notification: the buyer's
\* return is its only signal.
Pay(p) ==
    /\ p \notin paid
    /\ paid' = paid \cup {p}
    /\ due' = IF ProviderOf[p] = "WEBPAY" THEN due ELSE due \cup {p}
    /\ UNCHANGED <<settled, callback, refused, overlooked>>

\* The subgraph looks a payment up among those of the provider it is told.
Arrive(h, k, u, p, genuine) ==
    /\ At(h, "idle")
    /\ callback' = [callback EXCEPT ![h] =
         [Idle EXCEPT !.kind = k, !.step = "forward", !.provider = u,
                      !.payment = IF ProviderOf[p] = u THEN {p} ELSE {},
                      !.notice = genuine]]
    /\ UNCHANGED <<paid, settled, due, refused, overlooked>>

\* Mutant of Return: the provider is taken from the URL as it came.
ReturnAsNamed(h, u, p) == Arrive(h, "return", u, p, FALSE)

\* webpayReturn and externalReturn: before or after paying, and again whenever
\* the page is reloaded.  An unknown provider is answered 400.
Return(h, u, p) == u \in Providers /\ Arrive(h, "return", u, p, FALSE)

\* khipuWebhook and mercadoPagoWebhook, with a signature and a body, whatever
\* these are worth: about a payment that is pending, was rejected or does not
\* exist, or from somebody else.  Without them a request is not forwarded and
\* changes nothing.
Webhook(h, u, p) ==
    /\ u \in {"KHIPU", "MERCADOPAGO"}
    /\ Arrive(h, "webhook", u, p, FALSE)

\* The same handlers, told by the provider of a payment it has taken, as often
\* as it likes until it has had an answer.
Notice(h, p) == p \in due /\ Arrive(h, "webhook", ProviderOf[p], p, TRUE)

-----------------------------------------------------------------------------
(* The call of the subgraph, _callTransactions. *)

\* What the subgraph may record: a payment the provider has taken.
Takeable(h) == callback[h].payment \cap paid

Reply(h, S, r) ==
    /\ At(h, "forward")
    /\ settled' = settled \cup S
    /\ callback' = [callback EXCEPT ![h].step = "answer", ![h].reply = r]
    /\ UNCHANGED <<paid, due, refused>>

\* The subgraph records the payment, or says in its status that it does not;
\* nobody reads the status.
Forward(h) ==
    /\ \E S \in {{}, Takeable(h)} : Reply(h, S, "done")
    /\ overlooked' = IF callback[h].notice
                     THEN overlooked \cup (callback[h].payment \ settled')
                     ELSE overlooked

\* The subgraph cannot be reached, answers with an error (a signature that it
\* rejects is one), or its answer is lost after it did its work: the call throws.
ForwardFails(h) ==
    /\ \E S \in {{}, Takeable(h)} : Reply(h, S, "error")
    /\ UNCHANGED overlooked

-----------------------------------------------------------------------------
(* The answers. *)

\* The payment the provider will not tell of again, once this is answered.
Told(h) == IF callback[h].notice THEN callback[h].payment ELSE {}

Answering(h, k, u) ==
    /\ At(h, "answer") /\ callback[h].kind = k
    /\ callback[h].provider \in u
    /\ Done(h)
    /\ UNCHANGED <<paid, settled, overlooked>>

\* _handleReturn: the buyer is sent to the confirmation page, whatever came.
Redirect(h) == Answering(h, "return", Named) /\ UNCHANGED <<due, refused>>

\* Mutant of AnswerKhipu: a failure answers ok: true.
AnswerKhipuOk(h) ==
    /\ Answering(h, "webhook", {"KHIPU"})
    /\ due' = due \ Told(h)
    /\ UNCHANGED refused

\* A failure is answered ok: false, but with the status of a success: Khipu
\* does not ask again.
AnswerKhipu(h) ==
    /\ Answering(h, "webhook", {"KHIPU"})
    /\ due' = due \ Told(h)
    /\ refused' = IF callback[h].reply = "error" THEN refused \cup Told(h) ELSE refused

\* Mutant of AnswerMercadoPago: every answer ends the notifications.
AnswerMercadoPagoGone(h) ==
    /\ Answering(h, "webhook", {"MERCADOPAGO"})
    /\ due' = due \ Told(h)
    /\ UNCHANGED refused

\* "A failure answers 500": the provider asks again.
AnswerMercadoPago(h) ==
    /\ Answering(h, "webhook", {"MERCADOPAGO"})
    /\ due' = IF callback[h].reply = "error" THEN due ELSE due \ Told(h)
    /\ UNCHANGED refused

\* The answer is lost on its way, or the process stops before giving it.
AnswerLost(h) ==
    /\ ~At(h, "idle")
    /\ Done(h)
    /\ UNCHANGED <<paid, settled, due, refused, overlooked>>

Respond(h) == Redirect(h) \/ AnswerKhipu(h) \/ AnswerMercadoPago(h)

Next ==
    \/ \E p \in Payments : Pay(p)
    \/ \E h \in Handlers, u \in Named, p \in Payments :
         Return(h, u, p) \/ Webhook(h, u, p)
    \/ \E h \in Handlers, p \in Payments : Notice(h, p)
    \/ \E h \in Handlers :
         Forward(h) \/ ForwardFails(h) \/ Respond(h) \/ AnswerLost(h)

Spec == Init /\ [][Next]_vars

\* The calls of one payment's notices, by whichever handler.
Notify(p) == \E h \in Handlers : Notice(h, p)
ForwardNotice(p) ==
    \E h \in Handlers :
        callback[h].notice /\ callback[h].payment = {p} /\ Forward(h)

\* Every handler gets on; a provider that means to notify does, if a handler is
\* free again and again; and errors pass: calls that are made again and again
\* do not fail for ever.  No buyer has to return or to pay.
FairSpec ==
    /\ Spec
    /\ \A h \in Handlers :
         /\ WF_vars(Forward(h) \/ ForwardFails(h))
         /\ WF_vars(Respond(h))
    /\ \A p \in Payments : SF_vars(Notify(p)) /\ SF_vars(ForwardNotice(p))

-----------------------------------------------------------------------------
(* Properties. *)

\* "A rejected signature must not look like success", "a failure answers 500": a
\* payment that was taken is recorded, or its provider will tell of it again,
\* unless the subgraph itself took the notice and passed it over, or Khipu was
\* answered ok: false.  No other loss, repetition, forged or early notification
\* and no order of these makes the gateway end the notices of a payment that is
\* not recorded.
NoPaymentForgotten ==
    \A p \in paid :
        \/ ProviderOf[p] = "WEBPAY"
        \/ p \in settled \cup due \cup overlooked
        \/ ProviderOf[p] = "KHIPU" /\ p \in refused

\* "A notification lost to a passing error comes back": a payment Mercado Pago
\* took reaches the subgraph in the end, which records it or passes it over,
\* even if its buyer never returns; one Khipu took does, or its notification was
\* answered ok: false.
NotificationComesBack ==
    \A p \in Payments :
        /\ ProviderOf[p] = "MERCADOPAGO" /\ p \in paid
             ~> p \in settled \cup overlooked
        /\ ProviderOf[p] = "KHIPU" /\ p \in paid
             ~> p \in settled \cup overlooked \cup refused
=============================================================================
