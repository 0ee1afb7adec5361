-------------------------- MODULE MCTurnAdmission --------------------------
(* One Thread with up to two Turns: messages that create them and one that *)
(* rewinds the first.                                                      *)
EXTENDS TurnAdmission, TLC

CONSTANTS t1, t2, d1, d2, d3, th1

OneThread == [t \in Turns |-> th1]

AnyRun == Permutations(Runs)

Requests ==
  [d \in Deliveries |-> [turn |-> IF d = d2 THEN t2 ELSE t1, op |-> IF d = d3 THEN "rewind" ELSE "create"]]
=============================================================================
