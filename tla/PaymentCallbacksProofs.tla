----------------------- MODULE PaymentCallbacksProofs -----------------------
(***************************************************************************)
(* Proofs about PaymentCallbacks, for any payments, providers and number   *)
(* of callbacks in flight.                                                 *)
(***************************************************************************)
EXTENDS PaymentCallbacks, TLAPS

\* A notice tells of payments of the provider whose webhook it came to.
NoticesAreAddressed ==
    \A h \in Handlers :
        callback[h].notice =>
            \A p \in callback[h].payment : ProviderOf[p] = callback[h].provider

\* A notice whose call did not fail is known to the subgraph.
RepliesAreTrue ==
    \A h \in Handlers :
        At(h, "answer") /\ callback[h].notice /\ callback[h].reply # "error"
          => callback[h].payment \subseteq settled \cup overlooked

IInv == TypeOK /\ NoticesAreAddressed /\ RepliesAreTrue /\ NoPaymentForgotten

-----------------------------------------------------------------------------
LEMMA Initially == Init => IInv
  BY DEF Init, IInv, TypeOK, Callback, Idle, NoticesAreAddressed,
         RepliesAreTrue, NoPaymentForgotten, At

\* The handlers other than h stay as true as they were, when h goes on and the
\* subgraph forgets nothing.
LEMMA OneCallback ==
    ASSUME IInv, NEW h \in Handlers, NEW c \in Callback,
           callback' = [callback EXCEPT ![h] = c],
           settled \subseteq settled', overlooked \subseteq overlooked',
           c.notice => \A p \in c.payment : ProviderOf[p] = c.provider,
           c.step = "answer" /\ c.notice /\ c.reply # "error"
             => c.payment \subseteq settled' \cup overlooked'
    PROVE  /\ callback' \in [Handlers -> Callback]
           /\ NoticesAreAddressed' /\ RepliesAreTrue'
  <1>1. /\ callback' \in [Handlers -> Callback] /\ callback'[h] = c
        /\ \A g \in Handlers \ {h} : callback'[g] = callback[g]
    BY DEF IInv, TypeOK
  <1>2. NoticesAreAddressed'
    BY <1>1 DEF IInv, NoticesAreAddressed
  <1>3. RepliesAreTrue'
    BY <1>1 DEF IInv, RepliesAreTrue, At
  <1> QED
    BY <1>1, <1>2, <1>3

LEMMA PayKeeps ==
    ASSUME IInv, NEW p \in Payments, Pay(p)
    PROVE  IInv'
  <1>1. TypeOK' /\ NoticesAreAddressed' /\ RepliesAreTrue'
    BY DEF IInv, Pay, TypeOK, NoticesAreAddressed, RepliesAreTrue, At
  <1>2. NoPaymentForgotten'
    BY DEF IInv, Pay, NoPaymentForgotten
  <1> QED
    BY <1>1, <1>2 DEF IInv

LEMMA ArriveKeeps ==
    ASSUME IInv, NEW h \in Handlers, NEW k \in {"return", "webhook"},
           NEW u \in Providers, NEW p \in Payments, NEW genuine \in BOOLEAN,
           Arrive(h, k, u, p, genuine)
    PROVE  IInv'
  <1> DEFINE c == [Idle EXCEPT !.kind = k, !.step = "forward", !.provider = u,
                     !.payment = IF ProviderOf[p] = u THEN {p} ELSE {},
                     !.notice = genuine]
  <1>1. /\ c \in Callback /\ c.step = "forward"
        /\ \A q \in c.payment : ProviderOf[q] = c.provider
    BY DEF Idle, Callback
  <1>2. /\ callback' = [callback EXCEPT ![h] = c]
        /\ UNCHANGED <<paid, settled, due, refused, overlooked>>
    BY DEF Arrive
  <1> HIDE DEF c
  <1>3. /\ callback' \in [Handlers -> Callback]
        /\ NoticesAreAddressed' /\ RepliesAreTrue'
    BY <1>1, <1>2, OneCallback
  <1>4. TypeOK' /\ NoPaymentForgotten'
    BY <1>2, <1>3 DEF IInv, TypeOK, NoPaymentForgotten
  <1> QED
    BY <1>3, <1>4 DEF IInv

\* Whatever call of the subgraph ended: what was taken is recorded or not.
LEMMA ReplyKeeps ==
    ASSUME IInv, NEW h \in Handlers, NEW S \in {{}, Takeable(h)},
           NEW r \in {"done", "error"}, Reply(h, S, r),
           overlooked \subseteq overlooked', overlooked' \subseteq Payments,
           callback[h].notice /\ r = "done"
             => callback[h].payment \subseteq settled' \cup overlooked'
    PROVE  IInv'
  <1> DEFINE c == [callback[h] EXCEPT !.step = "answer", !.reply = r]
  <1>1. /\ callback' = [callback EXCEPT ![h] = c]
        /\ settled' = settled \cup S
        /\ UNCHANGED <<paid, due, refused>>
    BY DEF Reply, IInv, TypeOK
  <1>2. callback[h] \in Callback /\ paid \subseteq Payments /\ settled \subseteq Payments
    BY DEF IInv, TypeOK
  <1>3. /\ c \in Callback /\ c.notice = callback[h].notice
        /\ c.payment = callback[h].payment /\ c.provider = callback[h].provider
        /\ c.reply = r
    BY <1>2 DEF Callback
  <1>4. callback[h].notice =>
          \A p \in callback[h].payment : ProviderOf[p] = callback[h].provider
    BY DEF IInv, NoticesAreAddressed
  <1> HIDE DEF c
  <1>5. /\ callback' \in [Handlers -> Callback]
        /\ NoticesAreAddressed' /\ RepliesAreTrue'
    BY <1>1, <1>3, <1>4, OneCallback
  <1>6. TypeOK' /\ NoPaymentForgotten'
    BY <1>1, <1>2, <1>5 DEF IInv, TypeOK, NoPaymentForgotten, Takeable
  <1> QED
    BY <1>5, <1>6 DEF IInv

LEMMA ForwardKeeps ==
    ASSUME IInv, NEW h \in Handlers, Forward(h) \/ ForwardFails(h)
    PROVE  IInv'
  <1>1. /\ overlooked \subseteq Payments /\ callback[h].payment \subseteq Payments
    <2>1. callback[h] \in Callback /\ overlooked \subseteq Payments
      BY DEF IInv, TypeOK
    <2> QED
      BY <2>1 DEF Callback
  <1>2. CASE Forward(h)
    <2>1. PICK S \in {{}, Takeable(h)} : Reply(h, S, "done")
      BY <1>2 DEF Forward
    <2>2. /\ overlooked \subseteq overlooked' /\ overlooked' \subseteq Payments
          /\ callback[h].notice => callback[h].payment \subseteq settled' \cup overlooked'
      BY <1>1, <1>2 DEF Forward
    <2> QED
      BY <2>1, <2>2, ReplyKeeps
  <1>3. CASE ForwardFails(h)
    <2>1. PICK S \in {{}, Takeable(h)} : Reply(h, S, "error")
      BY <1>3 DEF ForwardFails
    <2>2. overlooked' = overlooked
      BY <1>3 DEF ForwardFails
    <2> QED
      BY <1>1, <2>1, <2>2, ReplyKeeps
  <1> QED
    BY <1>2, <1>3

\* The end of a callback, if it leaves every payment that is still to be told of
\* due, known to the subgraph, or refused by Khipu.
LEMMA DoneKeeps ==
    ASSUME IInv, NEW h \in Handlers, Done(h),
           UNCHANGED <<paid, settled, overlooked>>,
           due' \subseteq due, refused \subseteq refused', refused' \subseteq Payments,
           \A p \in due \ due' :
              p \in settled \cup overlooked \/ (ProviderOf[p] = "KHIPU" /\ p \in refused')
    PROVE  IInv'
  <1>1. Idle \in Callback /\ Idle.notice = FALSE
    BY DEF Idle, Callback
  <1>2. /\ callback' \in [Handlers -> Callback]
        /\ NoticesAreAddressed' /\ RepliesAreTrue'
    BY <1>1, OneCallback DEF Done
  <1>3. TypeOK'
    BY <1>2 DEF IInv, TypeOK
  <1>4. NoPaymentForgotten'
    BY DEF IInv, NoPaymentForgotten
  <1> QED
    BY <1>2, <1>3, <1>4 DEF IInv

LEMMA AnswerKeeps ==
    ASSUME IInv, NEW h \in Handlers, Respond(h) \/ AnswerLost(h)
    PROVE  IInv'
  <1>1. refused \subseteq Payments /\ Told(h) \subseteq Payments
    <2>1. callback[h] \in Callback /\ refused \subseteq Payments
      BY DEF IInv, TypeOK
    <2> QED
      BY <2>1 DEF Callback, Told
  <1>2. \A p \in Told(h) :
          /\ ProviderOf[p] = callback[h].provider
          /\ At(h, "answer") /\ callback[h].reply # "error"
               => p \in settled \cup overlooked
    BY DEF IInv, NoticesAreAddressed, RepliesAreTrue, Told
  <1>3. CASE Redirect(h) \/ AnswerLost(h)
    BY <1>1, <1>3, DoneKeeps DEF Redirect, Answering, AnswerLost
  <1>4. CASE AnswerKhipu(h)
    <2>1. /\ Done(h) /\ UNCHANGED <<paid, settled, overlooked>>
          /\ At(h, "answer") /\ callback[h].provider = "KHIPU"
          /\ due' = due \ Told(h)
          /\ refused' = IF callback[h].reply = "error" THEN refused \cup Told(h)
                        ELSE refused
      BY <1>4 DEF AnswerKhipu, Answering
    <2>2. /\ due' \subseteq due /\ refused \subseteq refused' /\ refused' \subseteq Payments
          /\ \A p \in due \ due' :
               p \in settled \cup overlooked \/ (ProviderOf[p] = "KHIPU" /\ p \in refused')
      BY <1>1, <1>2, <2>1
    <2> QED
      BY <2>1, <2>2, DoneKeeps
  <1>5. CASE AnswerMercadoPago(h)
    <2>1. /\ Done(h) /\ UNCHANGED <<paid, settled, overlooked, refused>>
          /\ At(h, "answer")
          /\ due' = IF callback[h].reply = "error" THEN due ELSE due \ Told(h)
      BY <1>5 DEF AnswerMercadoPago, Answering
    <2>2. /\ due' \subseteq due
          /\ \A p \in due \ due' : p \in settled \cup overlooked
      BY <1>2, <2>1
    <2> QED
      BY <1>1, <2>1, <2>2, DoneKeeps
  <1> QED
    BY <1>3, <1>4, <1>5 DEF Respond

LEMMA NextKeeps == IInv /\ [Next]_vars => IInv'
  <1> SUFFICES ASSUME IInv, [Next]_vars PROVE IInv'
    OBVIOUS
  <1>1. ASSUME NEW p \in Payments, Pay(p) PROVE IInv'
    BY <1>1, PayKeeps
  <1>2. ASSUME NEW h \in Handlers, NEW u \in Named, NEW p \in Payments, Return(h, u, p)
        PROVE  IInv'
    BY <1>2, ArriveKeeps DEF Return
  <1>3. ASSUME NEW h \in Handlers, NEW u \in Named, NEW p \in Payments, Webhook(h, u, p)
        PROVE  IInv'
    BY <1>3, ArriveKeeps DEF Webhook, Providers
  <1>4. ASSUME NEW h \in Handlers, NEW p \in Payments, Notice(h, p)
        PROVE  IInv'
    BY <1>4, ArriveKeeps, ProvidersAreKnown DEF Notice
  <1>5. ASSUME NEW h \in Handlers, Forward(h) \/ ForwardFails(h) PROVE IInv'
    BY <1>5, ForwardKeeps
  <1>6. ASSUME NEW h \in Handlers, Respond(h) \/ AnswerLost(h) PROVE IInv'
    BY <1>6, AnswerKeeps
  <1>7. CASE UNCHANGED vars
    BY <1>7 DEF vars, IInv, TypeOK, NoticesAreAddressed, RepliesAreTrue,
               NoPaymentForgotten, At
  <1> QED
    BY <1>1, <1>2, <1>3, <1>4, <1>5, <1>6, <1>7 DEF Next

LEMMA Invariance == Spec => []IInv
  BY Initially, NextKeeps, PTL DEF Spec

-----------------------------------------------------------------------------
(* The theorems. *)

\* Payments and callbacks stay well formed.
THEOREM TypeCorrect == Spec => []TypeOK
  <1>1. IInv => TypeOK
    BY DEF IInv
  <1> QED
    BY <1>1, Invariance, PTL

\* The gateway never ends the notices of a payment that nobody has recorded,
\* passed over or refused, whatever is lost, repeated, forged or early.
THEOREM NothingForgotten == Spec => []NoPaymentForgotten
  <1>1. IInv => NoPaymentForgotten
    BY DEF IInv
  <1> QED
    BY <1>1, Invariance, PTL
=============================================================================
