--------------------------- MODULE MCAlertDelivery ---------------------------
(***************************************************************************)
(* Small instances of AlertDelivery: d1 is a price change, d2 is not and   *)
(* d3 carries no claim; c1 and c2 are Slack webhooks, e1 a mail recipient. *)
(***************************************************************************)
EXTENDS AlertDelivery, TLC

CONSTANTS d1, d2, d3, c1, c2, e1, w1, w2

\* Overlapping sweeps run the same code.
SweepSymmetry == Permutations(Sweeps)
=============================================================================
