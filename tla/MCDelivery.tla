----------------------------- MODULE MCDelivery -----------------------------
(* Instances of Delivery, and of CircuitBreaker within it, for TLC: one    *)
(* call for each platform.  One tick is fifteen seconds: a call takes at   *)
(* most one, the breaker cools down in two.                                *)
EXTENDS Delivery, TLC

CONSTANTS c1, c2

MCAdapterOf == (c1 :> "telegram") @@ (c2 :> "whatsapp")
=============================================================================
