----------------------------- MODULE MCDBServer -----------------------------
(***************************************************************************)
(* Instances of DBServer for TLC: two leafs; all connections on one event  *)
(* base, or the first request on another one.                              *)
(***************************************************************************)
EXTENDS DBServer, TLC

CONSTANTS
    r1, r2, r3,     \* requests
    b1, b2,         \* event bases
    Writes          \* the requests that write

MCBaseOne == [r \in Reqs |-> b1]
MCBaseTwo == [r \in Reqs |-> IF r = r1 THEN b2 ELSE b1]
MCKind    == [r \in Reqs |-> IF r \in Writes THEN "write" ELSE "read"]
=============================================================================
