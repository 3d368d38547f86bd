------------------------- MODULE MCWebhookDelivery -------------------------
(***************************************************************************)
(* WebhookDelivery for TLC: all deliveries belong to one endpoint, whose   *)
(* failure counter they share.                                             *)
(***************************************************************************)
EXTENDS WebhookDelivery, TLC

CONSTANTS d1, d2

\* Mishaps befall one delivery only, up to its last attempt.
MishapsOfOne == [d \in Deliveries |-> IF d = d1 THEN 2 ELSE 0]

OneEndpoint == [d \in Deliveries |-> CHOOSE e \in Endpoints : TRUE]

=============================================================================
