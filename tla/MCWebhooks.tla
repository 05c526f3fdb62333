----------------------------- MODULE MCWebhooks -----------------------------
(* Two events for one endpoint, one retry, a worker and a client. *)
EXTENDS Webhooks
==============================================================================
