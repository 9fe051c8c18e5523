--------------------------- MODULE MethodDecisions ---------------------------
(***************************************************************************)
(* What the method cache promises its callers: for each FunctionID one     *)
(* decision, taken at most once and never changed.  The callers rely on it *)
(* twice over: they keep using a MethodInfo after the lock is gone, and    *)
(* they push on enter and pop on leave by the same decision.               *)
(***************************************************************************)
CONSTANTS FunctionIDs, Info, Undecided

VARIABLE decision

Init == decision = [f \in FunctionIDs |-> Undecided]

Decide(f) ==
  /\ decision[f] = Undecided
  /\ \E info \in Info : decision' = [decision EXCEPT ![f] = info]

Next == \E f \in FunctionIDs : Decide(f)

Spec == Init /\ [][Next]_decision
=============================================================================
