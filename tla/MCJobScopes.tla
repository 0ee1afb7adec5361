---------------------------- MODULE MCJobScopes ----------------------------
(* A session scope with one run scope in it, next to the root; one job in  *)
(* the run and one in the session compete for one slot.                    *)
EXTENDS JobScopes, TLC

CONSTANTS j1, j2, bg, s1, t1, root, session, run

Job(scope, parents, slot) ==
    [lane |-> bg, session |-> s1, thread |-> t1, scope |-> scope, parents |-> parents,
     slot |-> slot, queue |-> IF slot = "inherit" THEN "reject" ELSE "wait", timeout |-> FALSE]

TreeAttr == j1 :> Job(run, <<>>, "counted") @@ j2 :> Job(session, <<>>, "counted")

(* The command of a turn runs in the run scope and inherits its slot, or   *)
(* is refused.                                                             *)
InheritAttr == j1 :> Job(session, <<>>, "counted") @@ j2 :> Job(run, <<j1>>, "inherit")

Tree == root :> NoScope @@ session :> root @@ run :> session

OneSlot == [level \in Levels |-> bg :> [max_running |-> 1, max_queued |-> 1]]

=============================================================================
