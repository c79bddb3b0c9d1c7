------------------------- MODULE MCWebhookDelivery -------------------------
(***************************************************************************)
(* Small instances of WebhookDelivery: the configuration gives all values. *)
(***************************************************************************)
EXTENDS WebhookDelivery
=============================================================================
