----------------------------- MODULE JobScopes -----------------------------
(***************************************************************************)
(* The scope tree of backend/src/jobs/scope.py and registry/scopes.py on   *)
(* top of the job registry: scopes are created under open parents, and     *)
(* _close_scope closes a whole subtree and then works through the jobs it  *)
(* found there while the registry goes on.  Each scope is closed by at     *)
(* most one call, named after the scope.                                   *)
(***************************************************************************)
EXTENDS JobRegistry

CONSTANTS
    NoScope,      \* the parent of the root scope
    Parent,       \* JobScope.parent
    Closed,       \* scopes somebody closes
    Timed         \* those that are closed with a timeout

ASSUME ScopeAssumption ==
    /\ NoScope \notin Scopes
    /\ Parent \in [Scopes -> Scopes \cup {NoScope}]

VARIABLES
    scopes,       \* keys of _scopes
    call,         \* where the _close_scope call of a scope is
    pending,      \* its local lists of jobs
    live,
    worked,       \* the jobs of the two lists it is through with
    checked,      \* the job it saw pending and is about to cancel
    report        \* the CloseReport

scopeVars == <<scopes, call, pending, live, worked, checked, report>>
allVars == <<vars, scopeVars>>

(***************************************************************************)
(* The walk along JobScope.parent from c meets s: every set of scopes that *)
(* holds c and is closed under Parent holds s.                             *)
(***************************************************************************)
Upward(S) == \A x \in S : Parent[x] \in S \cup {NoScope}

Within(c, s) == \A S \in SUBSET Scopes : c \in S /\ Upward(S) => s \in S

depth(s) == Cardinality({a \in Scopes : Within(s, a)}) - 1

collect_scopes_locked(s) == {c \in scopes : Within(c, s)}

JobsIn(S) == {j \in records : Attr[j].scope \in S}

EmptyReport == [closed |-> {}, timed_out |-> {}, failed |-> {}]

ScopesInit ==
    /\ Init
    /\ scopes = {s \in Scopes : Parent[s] = NoScope}
    /\ call = [s \in Scopes |-> "none"]
    /\ pending = [s \in Scopes |-> {}]
    /\ live = [s \in Scopes |-> {}]
    /\ worked = [s \in Scopes |-> {}]
    /\ checked = [s \in Scopes |-> {}]
    /\ report = [s \in Scopes |-> EmptyReport]

-----------------------------------------------------------------------------
(***************************************************************************)
(* A step of the registry.  A job is registered in a scope that exists.    *)
(***************************************************************************)
InScopes ==
    /\ \A j \in records' : Attr[j].scope \in scopes
    /\ UNCHANGED scopeVars

RegistryStep == Next /\ InScopes

ForgetsToCheckTheParent(s) ==
    /\ s \notin scopes
    /\ Parent[s] \in scopes
    /\ scopes' = scopes \cup {s}
    /\ UNCHANGED <<vars, call, pending, live, worked, checked, report>>

create_scope(s) ==
    /\ s \notin scopes
    /\ Parent[s] \in scopes \ closedScopes
    /\ scopes' = scopes \cup {s}
    /\ UNCHANGED <<vars, call, pending, live, worked, checked, report>>

(***************************************************************************)
(* The first section of _close_scope: a scope that is closed already       *)
(* yields an empty report, otherwise the subtree is closed and its jobs    *)
(* are sorted into the two lists.                                          *)
(***************************************************************************)
close_scope(s) ==
    /\ call[s] = "none"
    /\ s \in scopes \cap Closed
    /\ IF s \in closedScopes
       THEN /\ call' = [call EXCEPT ![s] = "nothing"]
            /\ UNCHANGED <<closedScopes, pending, live>>
       ELSE /\ call' = [call EXCEPT ![s] = "closing"]
            /\ LET jobs == JobsIn(collect_scopes_locked(s))
               IN  /\ pending' = [pending EXCEPT ![s] = {j \in jobs : state[j] = "pending"}]
                   /\ live' = [live EXCEPT ![s] = {j \in jobs : state[j] = "running"}]
            /\ closedScopes' = closedScopes \cup collect_scopes_locked(s)
    /\ UNCHANGED <<jobVars, recordVars, slotVars, pc, toStart, scopes, worked, checked, report>>

Oldest(S) == {j \in S : \A k \in S : queuedAt[j] <= queuedAt[k]}

(***************************************************************************)
(* The loop over the pending list: the state is read once more, and the    *)
(* cancel is a step of its own.  A job that started in between is asked to *)
(* stop through its adapter, which may raise.                              *)
(***************************************************************************)
check_pending(s) ==
    /\ call[s] = "closing"
    /\ checked[s] = {}
    /\ \E j \in Oldest(pending[s] \ worked[s]) :
          IF state[j] = "pending"
          THEN checked' = [checked EXCEPT ![s] = {j}] /\ UNCHANGED worked
          ELSE worked' = [worked EXCEPT ![s] = @ \cup {j}] /\ UNCHANGED checked
    /\ UNCHANGED <<vars, scopes, call, pending, live, report>>

cancel_pending(s) ==
    /\ \E j \in checked[s] :
          /\ cancel(j)
          /\ worked' = [worked EXCEPT ![s] = @ \cup {j}]
          /\ \/ report' = [report EXCEPT ![s].closed = @ \cup {j}]
             \/ /\ state[j] = "running"
                /\ report' = [report EXCEPT ![s].failed = @ \cup {j}]
    /\ checked' = [checked EXCEPT ![s] = {}]
    /\ UNCHANGED <<recordVars, slotVars, closedScopes, pc, toStart, scopes, call, pending, live>>

(***************************************************************************)
(* The loop over the running list, deepest scope first: job.close cancels  *)
(* and waits.  It ends with the job terminal, at the shared deadline, or   *)
(* with an exception of the adapter; past the deadline no job is closed.   *)
(***************************************************************************)
AnyOfTheList(s) == Oldest(live[s])

NextToClose(s) ==
    LET left == live[s] \ worked[s]
    IN  Oldest({j \in left : \A k \in left : depth(Attr[j].scope) >= depth(Attr[k].scope)})

AssumesClosed(s) ==
    /\ call[s] = "closing"
    /\ pending[s] \subseteq worked[s]
    /\ \E j \in NextToClose(s) :
          /\ worked' = [worked EXCEPT ![s] = @ \cup {j}]
          /\ state[j] = "terminal" \/ s \in Timed
          /\ report' = [report EXCEPT ![s].closed = @ \cup {j}]
    /\ UNCHANGED <<vars, scopes, call, pending, live, checked>>

close_job(s) ==
    /\ call[s] = "closing"
    /\ pending[s] \subseteq worked[s]
    /\ \E j \in NextToClose(s) :
          /\ worked' = [worked EXCEPT ![s] = @ \cup {j}]
          /\ \/ /\ state[j] = "terminal"
                /\ report' = [report EXCEPT ![s].closed = @ \cup {j}]
             \/ /\ s \in Timed
                /\ report' = [report EXCEPT ![s].timed_out = @ \cup {j}]
    /\ UNCHANGED <<vars, scopes, call, pending, live, checked>>

close_raises(s) ==
    /\ call[s] = "closing"
    /\ pending[s] \subseteq worked[s]
    /\ \E j \in NextToClose(s) :
          /\ worked' = [worked EXCEPT ![s] = @ \cup {j}]
          /\ report' = [report EXCEPT ![s].failed = @ \cup {j}]
    /\ UNCHANGED <<vars, scopes, call, pending, live, checked>>

return_report(s) ==
    /\ call[s] = "closing"
    /\ pending[s] \cup live[s] \subseteq worked[s]
    /\ call' = [call EXCEPT ![s] = "returned"]
    /\ UNCHANGED <<vars, scopes, pending, live, worked, checked, report>>

CloseSteps(s) == check_pending(s) \/ cancel_pending(s) \/ close_job(s) \/ return_report(s)

ScopesNext ==
    \/ RegistryStep
    \/ \E s \in Scopes :
          create_scope(s) \/ close_scope(s) \/ CloseSteps(s) \/ close_raises(s)

ScopesSpec == ScopesInit /\ [][ScopesNext]_allVars

(***************************************************************************)
(* Fairness: the registry's, and a thread inside _close_scope goes on.     *)
(* No adapter is obliged to raise.                                         *)
(***************************************************************************)
ScopesFairSpec ==
    /\ ScopesSpec
    /\ \A j \in Jobs : /\ WF_allVars(Submit(j) /\ InScopes)
                       /\ WF_allVars(finish(j) /\ InScopes)
                       /\ WF_allVars(on_job_state_change(j) /\ InScopes)
    /\ \A t \in Starters : WF_allVars(StartList(t) /\ InScopes)
    /\ \A s \in Scopes : WF_allVars(CloseSteps(s))

-----------------------------------------------------------------------------
(***************************************************************************)
(* Type invariant of the scope tree and of the close calls; no job is in   *)
(* two lists of a report.                                                  *)
(***************************************************************************)
ScopesTypeOK ==
    /\ scopes \subseteq Scopes
    /\ call \in [Scopes -> {"none", "closing", "nothing", "returned"}]
    /\ pending \in [Scopes -> SUBSET Jobs]
    /\ live \in [Scopes -> SUBSET Jobs]
    /\ worked \in [Scopes -> SUBSET Jobs]
    /\ checked \in [Scopes -> SUBSET Jobs]
    /\ report \in [Scopes -> [closed : SUBSET Jobs, timed_out : SUBSET Jobs,
                              failed : SUBSET Jobs]]
    /\ \A s \in Scopes : /\ report[s].closed \cap report[s].timed_out = {}
                         /\ report[s].failed \cap (report[s].closed \cup report[s].timed_out) = {}

(***************************************************************************)
(* No open scope hangs under a closed one, whatever creations and closes   *)
(* overlap: _create_scope looks at the parent in the section that inserts, *)
(* _close_scope collects the subtree in the section that closes it.        *)
(***************************************************************************)
ClosedSubtree ==
    \A s \in scopes : Parent[s] \in closedScopes => s \in closedScopes

Subtree(s) == {c \in Scopes : Within(c, s)}

(***************************************************************************)
(* A close never forgets a job that was executing: once it has returned, a *)
(* job of its subtree that is not terminal was either reported as timed    *)
(* out or failed, or still pending when the lists were made                *)
(* (_close_scope; register refuses a closed scope).                        *)
(***************************************************************************)
CloseAccountsForJobs ==
    \A s \in Scopes : call[s] = "returned" =>
        \A j \in JobsIn(Subtree(s)) :
            \/ state[j] = "terminal"
            \/ j \in report[s].timed_out \cup report[s].failed \cup pending[s]

(***************************************************************************)
(* _close_scope returns: every job it waits for ends.                      *)
(***************************************************************************)
CloseReturns == \A s \in Scopes : (call[s] = "closing") ~> (call[s] = "returned")

(***************************************************************************)
(* docs/plans/job-runtime-modules-3-4.md: after the close all jobs of all  *)
(* descendant scopes are in a terminal state.                              *)
(***************************************************************************)
ClosedScopeIsQuiet ==
    \A s \in Scopes :
        (call[s] = "returned" /\ report[s].timed_out \cup report[s].failed = {}) =>
            \A j \in JobsIn(Subtree(s)) : state[j] = "terminal"

=============================================================================
