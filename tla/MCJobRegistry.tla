--------------------------- MODULE MCJobRegistry ---------------------------
(* Small instances of JobRegistry: two or three jobs in one lane, competing*)
(* for one slot, or a parent and the child that inherits its slot.         *)
EXTENDS JobRegistry, TLC

CONSTANTS j1, j2, j3, bg, s1, s2, t1, root

Job(session, thread, parents, slot, queueMode, timeout) ==
    [lane |-> bg, session |-> session, thread |-> thread, scope |-> root,
     parents |-> parents, slot |-> slot, queue |-> queueMode, timeout |-> timeout]

(* Two jobs of one session and a job of another compete for one slot.      *)
CompetingAttr ==
    j1 :> Job(s1, NoOwner, <<>>, "counted", "wait", TRUE)
    @@ j2 :> Job(s1, NoOwner, <<>>, "counted", "wait", TRUE)
    @@ j3 :> Job(s2, NoOwner, <<>>, "counted", "wait", FALSE)

(* A turn, the command it runs in its own slot, and a job that             *)
(* takes no slot.                                                          *)
FamilyAttr ==
    j1 :> Job(s1, t1, <<>>, "counted", "wait", TRUE)
    @@ j2 :> Job(s1, t1, <<j1>>, "inherit", "wait", TRUE)
    @@ j3 :> Job(s2, NoOwner, <<>>, "unmetered", "wait", FALSE)

(* Two jobs of one thread that wait for its slot without a timeout.        *)
PairAttr ==
    j1 :> Job(s1, t1, <<>>, "counted", "wait", FALSE)
    @@ j2 :> Job(s1, t1, <<>>, "counted", "wait", FALSE)

Limit(run, queued) == [max_running |-> run, max_queued |-> queued]

(* One slot in the lane; a session may queue one job, the lane two.        *)
OneSlot ==
    [level \in Levels |-> bg :> Limit(1, IF level = "system" THEN 2 ELSE 1)]

=============================================================================
