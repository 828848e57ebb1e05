------------------------- MODULE MCPaymentCallbacks -------------------------
(***************************************************************************)
(* A small instance of PaymentCallbacks for TLC: one payment of each       *)
(* provider that notifies.  Webpay's returns arrive too, and find nothing: *)
(* what becomes of a Webpay payment is promised by no property.            *)
(***************************************************************************)
EXTENDS PaymentCallbacks

CONSTANTS h1, h2

OneEach == {"k", "m"}
TheProviders == [p \in OneEach |-> IF p = "k" THEN "KHIPU" ELSE "MERCADOPAGO"]
TwoHandlers == {h1, h2}
=============================================================================
