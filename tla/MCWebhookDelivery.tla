--------------------------- MODULE MCWebhookDelivery ---------------------------
(* TLC instances of WebhookDelivery: see the .cfg files. *)
EXTENDS WebhookDelivery, TLC

CONSTANTS e1, e2, o1, o2

\* Two clients with an endpoint each, or one client with one endpoint.
TwoOwners == (e1 :> o1) @@ (e2 :> o2)
OneOwner  == (e1 :> o1)

Two       == {1, 2}
OneEach   == (1 :> e1) @@ (2 :> e2)
SameForBoth == (1 :> e1) @@ (2 :> e1)
Symmetric == Permutations(Worker)
=============================================================================
