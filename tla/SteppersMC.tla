---- MODULE SteppersMC ----
(* One product in two sizes, one of them with a single unit. *)
EXTENDS Steppers, TLC
CONSTANTS S, M, shirt
Stocked == [z \in {S, M} |-> IF z = S THEN 2 ELSE 1]
Shirts == [z \in {S, M} |-> shirt]
AnyIds == Permutations(Call)
====
