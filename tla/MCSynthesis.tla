----------------------------- MODULE MCSynthesis -----------------------------
(***************************************************************************)
(* Small instances of Synthesis.  d1 is a leadership hire and d2 a hiring  *)
(* signal of c1, so both concern its team section and d2 does not verify;  *)
(* d3 is a hiring signal of c2 that carries no claim.                      *)
(***************************************************************************)
EXTENDS Synthesis, TLC

CONSTANTS c1, c2, d1, d2, d3, n1, n2

MCOwner == d1 :> c1 @@ d2 :> c1 @@ d3 :> c2

MCClass == d1 :> "leadership_hire" @@ d2 :> "hiring_signal" @@ d3 :> "hiring_signal"

\* Overlapping nights run the same code.
NightSymmetry == Permutations(Nights)
=============================================================================
