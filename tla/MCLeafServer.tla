---------------------------- MODULE MCLeafServer ----------------------------
(* Small instances of LeafServer for TLC. *)
EXTENDS LeafServer

CONSTANTS r1, r2, r3, b1, b2, f1, f2

\* r1 and the earlier request share a connection's event base.
MCBase == [f \in Fds |-> IF f \in {r1, Boot} THEN b1 ELSE b2]

\* One writer and readers, of its file and of another one.
MCKind == [r \in Reqs |-> IF r = r1 THEN "write" ELSE "read"]
MCFile == [r \in Reqs |-> IF r = r3 THEN f2 ELSE f1]
=============================================================================
