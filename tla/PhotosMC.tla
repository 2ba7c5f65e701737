---- MODULE PhotosMC ----
(* Photos with two of the three widths: one baked, one only cooked. *)
EXTENDS Photos
CONSTANTS w400, w1600
Widths == {w400, w1600}
BakedWidths == <<w400>>
====
