------------------------------- MODULE Powers -------------------------------
(***************************************************************************)
(* Powers of a base, as a recursive function: the provers know nothing of  *)
(* the operator ^, and can be told what this one computes.                 *)
(***************************************************************************)
EXTENDS Naturals

Power(base, exponent) ==
    LET P[n \in Nat] == IF n = 0 THEN 1 ELSE base * P[n - 1] IN P[exponent]
=============================================================================
