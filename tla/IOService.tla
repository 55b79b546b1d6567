------------------------------ MODULE IOService ------------------------------
(***************************************************************************)
(* What the asynchronous-I/O engine promises its caller: each request goes *)
(* through submission, execution by the kernel and completion, in this     *)
(* order, once, and independently of every other request.  Whether a       *)
(* submitted request gets that far is the fairness part of FairSpec.       *)
(***************************************************************************)
CONSTANT Reqs

VARIABLE phase

Phases == {"new", "submitted", "executed", "done"}

Init == phase = [t \in Reqs |-> "new"]

Advance(t, from, to) ==
    /\ phase[t] = from
    /\ phase' = [phase EXCEPT ![t] = to]

Submit(t)   == Advance(t, "new", "submitted")
Complete(t) == Advance(t, "executed", "done")

\* Executions that end.
Execute(t) == Advance(t, "submitted", "executed")

Next == \E t \in Reqs : Submit(t) \/ Execute(t) \/ Complete(t)

Spec == Init /\ [][Next]_phase

FairSpec == Spec /\ \A t \in Reqs : WF_phase(Execute(t)) /\ WF_phase(Complete(t))
=============================================================================
