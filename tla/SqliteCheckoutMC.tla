---- MODULE SqliteCheckoutMC ----
(* SqliteCheckout in the small shop of VisitMC. *)
EXTENDS SqliteCheckout, VisitMC
====
