---- MODULE D1CheckoutMC ----
(* D1Checkout in the small shop of VisitMC. *)
EXTENDS D1Checkout, VisitMC
====
