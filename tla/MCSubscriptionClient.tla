------------------------ MODULE MCSubscriptionClient ------------------------
(* SubscriptionClient with model values for TLC. *)
EXTENDS SubscriptionClient
=============================================================================
