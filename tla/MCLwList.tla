------------------------------ MODULE MCLwList ------------------------------
(***************************************************************************)
(* Values of LwList's constants for TLC: one task looks, all change.       *)
(***************************************************************************)
EXTENDS LwList

CONSTANTS t1, t2

MCWalks == [t \in Tasks |-> IF t = t1 THEN WalkOps ELSE {}]
MCCalls == [t \in Tasks |-> IF t = t1 THEN {}
                            ELSE Ops \ {"sort"}]
=============================================================================
