----------------------------- MODULE MCKvList ------------------------------
(***************************************************************************)
(* Values of KvList's constants for TLC.                                   *)
(***************************************************************************)
EXTENDS KvList

CONSTANTS m, w, v

Callers(ofM, ofW) == [t \in Tasks |-> IF t = m THEN ofM ELSE ofW]

\* One manager, workers that only add and look.
OneManager == Callers({"search_remove", "remove", "sort", "clear", "search", "add"},
                      {"add", "search", "walk", "at"})
TwoManagers == [t \in Tasks |-> {"add", "search_remove"}]
OneReader  == [t \in Tasks |-> {"add", "at", "search_remove"}]
=============================================================================
