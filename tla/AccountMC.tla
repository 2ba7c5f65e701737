---- MODULE AccountMC ----
(* Two visitors, one of whom knows the password of the other; two emails, one *)
(* of them typed with a capital.                                              *)
EXTENDS Account
CONSTANTS v, w, p, q, marie, paul, Marie
Means == [e \in {Marie, paul} |-> IF e = Marie THEN marie ELSE paul]
Types == [b \in {v, w} |-> IF b = v THEN {<<Marie, p>>, <<paul, p>>} ELSE {<<Marie, p>>, <<Marie, q>>}]
Wants == [b \in {v, w} |-> <<Marie, IF b = v THEN p ELSE q>>]
====
