------------------------------- MODULE MCLog -------------------------------
(***************************************************************************)
(* Values of Log's constants for TLC: texts, captions, dumps and numbers   *)
(* at both sides of the bounds the code has.                               *)
(***************************************************************************)
EXTENDS Log

CONSTANTS ble, log

Request(f, text, args, value) ==
    {[fn |-> f, level |-> 1, text |-> text, args |-> args, value |-> value, eol |-> TRUE]}

Requests ==
    UNION ({Request("format", n, a, 0) : n \in {0, 329, 330, 500}, a \in BOOLEAN} \cup
           {Request("number", 329, FALSE, v) : v \in {0, 255, 256, 65536}} \cup
           {Request("hex", n, FALSE, v) : n \in {0, 1, 20}, v \in {0, 100, 101, 4096}} \cup
           {Request("raw", 500, FALSE, 0)})

Names == [t \in Tasks |-> IF t = log THEN 18 ELSE 0]
=============================================================================
