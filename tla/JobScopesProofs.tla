-------------------------- MODULE JobScopesProofs --------------------------
(***************************************************************************)
(* What closing a scope guarantees, for any scope tree and any jobs.       *)
(***************************************************************************)
EXTENDS JobScopes, JobRegistryProofs

(***************************************************************************)
(* What is below a scope's parent is the scope itself or what is below it. *)
(***************************************************************************)
LEMMA WithinParent ==
  ASSUME NEW c \in Scopes, NEW s \in Scopes
  PROVE  /\ Within(c, c)
         /\ Parent[c] \in Scopes /\ Within(Parent[c], s) => Within(c, s)
         /\ Within(c, s) /\ c # s => Parent[c] \in Scopes /\ Within(Parent[c], s)
<1>1. Within(c, c)
  BY DEF Within
<1>2. ASSUME Parent[c] \in Scopes, Within(Parent[c], s) PROVE Within(c, s)
  BY <1>2, ScopeAssumption DEF Within, Upward
<1>3. ASSUME Within(c, s), c # s PROVE Parent[c] \in Scopes /\ Within(Parent[c], s)
  <2>1. Parent[c] \in Scopes
    <3>1. CASE Parent[c] = NoScope
      <4>1. Upward({c})
        BY <3>1 DEF Upward
      <4> QED
        BY <1>3, <4>1 DEF Within
    <3> QED
      BY <3>1, ScopeAssumption
  <2>2. ASSUME NEW S \in SUBSET Scopes, Parent[c] \in S, Upward(S) PROVE s \in S
    <3>1. Upward(S \cup {c})
      BY <2>2 DEF Upward
    <3> QED
      BY <1>3, <3>1 DEF Within
  <2> QED
    BY <2>1, <2>2 DEF Within
<1> QED
  BY <1>1, <1>2, <1>3

(***************************************************************************)
(* Nothing revives a terminal job, and no step but register adds a record, *)
(* which it does in an open scope.                                         *)
(***************************************************************************)
LEMMA RegistryFacts ==
  ASSUME SlotInv, Next
  PROVE  /\ \A j \in Jobs : state[j] = "terminal" => state'[j] = "terminal"
         /\ \A j \in records' \ records : Attr[j].scope \notin closedScopes
         /\ UNCHANGED closedScopes
<1> USE DEF SlotInv, TypeOK, jobVars, recordVars
<1> DEFINE Facts == /\ \A j \in Jobs : state[j] = "terminal" => state'[j] = "terminal"
                    /\ \A j \in records' \ records : Attr[j].scope \notin closedScopes
                    /\ UNCHANGED closedScopes
<1>1. ASSUME NEW j \in Jobs, Submit(j) PROVE Facts
  <2>1. CASE register(j)
    BY <2>1 DEF register
  <2>2. CASE add_listener(j) \/ start(j) \/ finish_admission_admit(j)
    BY <2>2 DEF add_listener, start, finish_admission_admit
  <2>3. CASE finish_admission_refuse(j) \/ finish_admission_queue(j) \/ wait_for_admission(j)
    BY <2>3 DEF finish_admission_refuse, finish_admission_queue, wait_for_admission, cancel
  <2> QED
    BY <1>1, <2>1, <2>2, <2>3 DEF Submit
<1>2. ASSUME NEW j \in Jobs, wait_expires(j) \/ unregister(j) PROVE Facts
  BY <1>2 DEF wait_expires, unregister
<1>3. ASSUME NEW j \in Jobs, finish(j) \/ cancel_in_scope(j) PROVE Facts
  BY <1>3 DEF finish, cancel_in_scope, cancel
<1>4. ASSUME NEW j \in Jobs, on_job_state_change(j) PROVE Facts
  <2>1. records' \subseteq records
    <3>1. prune_history_locked(records, terminal \cup {j}) \subseteq records
      BY DEF prune_history_locked, Newest
    <3> QED
      BY <1>4, <3>1 DEF on_job_state_change, on_terminal
  <2> QED
    BY <1>4, <2>1 DEF on_job_state_change
<1>5. ASSUME NEW t \in Starters, StartList(t) \/ launch_fails(t) PROVE Facts
  BY <1>5 DEF StartList, start_jobs, launch, launch_fails, HeadOf
<1> QED
  BY <1>1, <1>2, <1>3, <1>4, <1>5 DEF Next

-----------------------------------------------------------------------------
(***************************************************************************)
(* Where a close call is: a job it has seen pending is still in front of   *)
(* it, what it reports it is through with, and a call that returned is     *)
(* through with both lists.                                                *)
(***************************************************************************)
Progress ==
    \A s \in Scopes :
        /\ checked[s] \subseteq pending[s] \ worked[s]
        /\ pending[s] \cap live[s] = {}
        /\ report[s].closed \cup report[s].timed_out \cup report[s].failed \subseteq worked[s]
        /\ call[s] = "none" => worked[s] = {} /\ pending[s] = {}
        /\ call[s] = "returned" => pending[s] \cup live[s] \subseteq worked[s]

TreeInv ==
    /\ SlotInv
    /\ ScopesTypeOK
    /\ Progress
    /\ \A j \in records : Attr[j].scope \in scopes
    /\ ClosedSubtree

(***************************************************************************)
(* The scope operations leave the registry's variables alone, but for the  *)
(* closed scopes and a cancellation.                                       *)
(***************************************************************************)
LEMMA ScopeStepsKeepSlotInv ==
  ASSUME SlotInv, ScopesTypeOK, NEW s \in Scopes,
         \/ create_scope(s) \/ close_scope(s) \/ CloseSteps(s) \/ close_raises(s)
  PROVE  SlotInv' /\ records' = records
<1> USE DEF SlotInv, TypeOK, LeaseTakenOnce, SlotAccounting
<1>1. CASE close_scope(s)
  <2>1. closedScopes' \subseteq Scopes
    BY <1>1 DEF close_scope, collect_scopes_locked, ScopesTypeOK
  <2> QED
    BY <1>1, <2>1 DEF close_scope, jobVars, recordVars, slotVars
<1>2. CASE cancel_pending(s)
  <2>1. PICK j \in Jobs : cancel(j)
    BY <1>2 DEF cancel_pending, ScopesTypeOK
  <2>2. UNCHANGED <<recordVars, slotVars, closedScopes, pc, toStart, carrier>>
    BY <1>2, <2>1 DEF cancel_pending, cancel
  <2>3. state' \in [Jobs -> JobStates]
    BY <2>1 DEF cancel, JobStates
  <2>4. unnotified' \subseteq Jobs
    BY <2>1 DEF cancel
  <2> QED
    BY <2>2, <2>3, <2>4 DEF recordVars, slotVars
<1>3. CASE ~ close_scope(s) /\ ~ cancel_pending(s)
  <2>1. UNCHANGED vars
    BY <1>3 DEF create_scope, CloseSteps, close_raises, check_pending, close_job, return_report
  <2> QED
    BY <2>1 DEF vars, jobVars, recordVars, slotVars
<1> QED
  BY <1>1, <1>2, <1>3

(***************************************************************************)
(* A close call keeps its own books in order.                              *)
(***************************************************************************)
LEMMA ScopeStepsKeepProgress ==
  ASSUME ScopesTypeOK, Progress, SlotInv, NEW s \in Scopes,
         \/ create_scope(s) \/ close_scope(s) \/ CloseSteps(s) \/ close_raises(s)
  PROVE  ScopesTypeOK' /\ Progress'
<1> USE DEF ScopesTypeOK, Progress
<1>1. CASE create_scope(s)
  BY <1>1 DEF create_scope
<1>2. CASE close_scope(s)
  <2> DEFINE jobs == JobsIn(collect_scopes_locked(s))
  <2>1. jobs \subseteq Jobs
    BY DEF JobsIn, SlotInv, TypeOK
  <2>2. CASE s \in closedScopes
    BY <1>2, <2>2 DEF close_scope
  <2>3. CASE s \notin closedScopes
    <3>1. /\ pending' = [pending EXCEPT ![s] = {j \in jobs : state[j] = "pending"}]
          /\ live' = [live EXCEPT ![s] = {j \in jobs : state[j] = "running"}]
          /\ call' = [call EXCEPT ![s] = "closing"]
          /\ call[s] = "none"
          /\ UNCHANGED <<scopes, worked, checked, report>>
      BY <1>2, <2>3 DEF close_scope
    <3> HIDE DEF jobs
    <3>2. ScopesTypeOK'
      BY <2>1, <3>1
    <3>3. pending'[s] \cap live'[s] = {} /\ checked[s] = {}
      BY <3>1
    <3> QED
      BY <3>1, <3>2, <3>3
  <2> QED
    BY <2>2, <2>3
<1>3. CASE check_pending(s)
  <2>1. PICK j \in pending[s] \ worked[s] :
           \/ checked' = [checked EXCEPT ![s] = {j}] /\ UNCHANGED worked
           \/ worked' = [worked EXCEPT ![s] = @ \cup {j}] /\ UNCHANGED checked
    BY <1>3 DEF check_pending, Oldest
  <2>2. checked[s] = {} /\ call[s] = "closing" /\ UNCHANGED <<scopes, call, pending, live, report>>
    BY <1>3 DEF check_pending
  <2>3. CASE checked' = [checked EXCEPT ![s] = {j}] /\ UNCHANGED worked
    BY <2>1, <2>2, <2>3
  <2>4. CASE worked' = [worked EXCEPT ![s] = @ \cup {j}] /\ UNCHANGED checked
    BY <2>1, <2>2, <2>4
  <2> QED
    BY <2>1, <2>3, <2>4
<1>4. CASE cancel_pending(s)
  <2>1. PICK j \in checked[s] :
           /\ worked' = [worked EXCEPT ![s] = @ \cup {j}]
           /\ \/ report' = [report EXCEPT ![s].closed = @ \cup {j}]
              \/ report' = [report EXCEPT ![s].failed = @ \cup {j}]
    BY <1>4 DEF cancel_pending
  <2>2. checked' = [checked EXCEPT ![s] = {}] /\ UNCHANGED <<scopes, call, pending, live>>
    BY <1>4 DEF cancel_pending
  <2>3. j \in Jobs /\ j \in pending[s] \ worked[s] /\ call[s] # "none"
    BY <2>1
  <2>4. CASE report' = [report EXCEPT ![s].closed = @ \cup {j}]
    <3>1. ScopesTypeOK'
      BY <2>1, <2>2, <2>3, <2>4
    <3> QED
      BY <2>1, <2>2, <2>3, <2>4, <3>1
  <2>5. CASE report' = [report EXCEPT ![s].failed = @ \cup {j}]
    <3>1. ScopesTypeOK'
      BY <2>1, <2>2, <2>3, <2>5
    <3> QED
      BY <2>1, <2>2, <2>3, <2>5, <3>1
  <2> QED
    BY <2>1, <2>4, <2>5
<1>5. CASE close_job(s)
  <2>1. PICK j \in live[s] \ worked[s] :
           /\ worked' = [worked EXCEPT ![s] = @ \cup {j}]
           /\ \/ report' = [report EXCEPT ![s].closed = @ \cup {j}]
              \/ report' = [report EXCEPT ![s].timed_out = @ \cup {j}]
    BY <1>5 DEF close_job, NextToClose, Oldest
  <2>2. call[s] = "closing" /\ UNCHANGED <<scopes, call, pending, live, checked>>
    BY <1>5 DEF close_job
  <2>3. j \notin report[s].closed \cup report[s].timed_out \cup report[s].failed
    BY <2>1
  <2>4. CASE report' = [report EXCEPT ![s].closed = @ \cup {j}]
    BY <2>1, <2>2, <2>3, <2>4
  <2>5. CASE report' = [report EXCEPT ![s].timed_out = @ \cup {j}]
    BY <2>1, <2>2, <2>3, <2>5
  <2> QED
    BY <2>1, <2>4, <2>5
<1>6. CASE close_raises(s)
  BY <1>6 DEF close_raises, NextToClose, Oldest
<1>7. CASE return_report(s)
  BY <1>7 DEF return_report
<1> QED
  BY <1>1, <1>2, <1>3, <1>4, <1>5, <1>6, <1>7 DEF CloseSteps

(***************************************************************************)
(* TreeInv is inductive.                                                   *)
(***************************************************************************)
LEMMA TreeInvStep == TreeInv /\ [ScopesNext]_allVars => TreeInv'
<1> SUFFICES ASSUME TreeInv, [ScopesNext]_allVars PROVE TreeInv'
  OBVIOUS
<1>1. CASE RegistryStep
  <2>1. SlotInv'
    BY <1>1, SlotInvStep DEF TreeInv, RegistryStep, InScopes
  <2>2. UNCHANGED closedScopes
    BY <1>1, RegistryFacts DEF TreeInv, RegistryStep, InScopes
  <2>3. UNCHANGED scopeVars /\ \A j \in records' : Attr[j].scope \in scopes
    BY <1>1 DEF RegistryStep, InScopes
  <2> QED
    BY <2>1, <2>2, <2>3 DEF TreeInv, scopeVars, ScopesTypeOK, Progress, ClosedSubtree
<1>2. ASSUME NEW s \in Scopes,
             create_scope(s) \/ close_scope(s) \/ CloseSteps(s) \/ close_raises(s)
      PROVE  TreeInv'
  <2>1. SlotInv' /\ records' = records /\ ScopesTypeOK' /\ Progress'
    BY <1>2, ScopeStepsKeepSlotInv, ScopeStepsKeepProgress DEF TreeInv
  <2>2. scopes \subseteq scopes'
    BY <1>2 DEF create_scope, close_scope, CloseSteps, check_pending, cancel_pending,
       close_job, close_raises, return_report
  <2>3. ClosedSubtree'
    <3>1. CASE create_scope(s)
      BY <3>1 DEF create_scope, vars, TreeInv, ClosedSubtree
    <3>2. CASE close_scope(s)
      <4>1. CASE s \in closedScopes
        BY <3>2, <4>1 DEF close_scope, TreeInv, ClosedSubtree
      <4>2. CASE s \notin closedScopes
        <5>1. /\ closedScopes' = closedScopes \cup {c \in scopes : Within(c, s)}
              /\ scopes' = scopes
              /\ scopes \subseteq Scopes
          BY <3>2, <4>2 DEF close_scope, collect_scopes_locked, TreeInv, ScopesTypeOK
        <5>2. ASSUME NEW c \in scopes, Parent[c] \in scopes, Within(Parent[c], s)
              PROVE  Within(c, s)
          BY <5>1, <5>2, WithinParent
        <5> QED
          BY <5>1, <5>2 DEF TreeInv, ClosedSubtree
      <4> QED
        BY <4>1, <4>2
    <3>3. CASE CloseSteps(s) \/ close_raises(s)
      <4>1. UNCHANGED <<closedScopes, scopes>>
        BY <3>3 DEF CloseSteps, check_pending, cancel_pending, close_job, close_raises,
           return_report, vars
      <4> QED
        BY <4>1 DEF TreeInv, ClosedSubtree
    <3> QED
      BY <1>2, <3>1, <3>2, <3>3
  <2> QED
    BY <2>1, <2>2, <2>3 DEF TreeInv
<1>3. CASE UNCHANGED allVars
  <2>1. SlotInv'
    BY <1>3, SlotInvStep DEF TreeInv, allVars
  <2> QED
    BY <1>3, <2>1 DEF TreeInv, allVars, vars, scopeVars, recordVars, ScopesTypeOK, Progress, ClosedSubtree
<1> QED
  BY <1>1, <1>2, <1>3 DEF ScopesNext

(***************************************************************************)
(* TreeInv holds initially.                                                *)
(***************************************************************************)
LEMMA TreeInvInit == ScopesInit => TreeInv
<1> SUFFICES ASSUME ScopesInit PROVE TreeInv
  OBVIOUS
<1>1. SlotInv
  BY SlotInvInit DEF ScopesInit
<1>2. records = {} /\ closedScopes = {}
  BY DEF ScopesInit, Init
<1>3. ScopesTypeOK /\ Progress
  BY DEF ScopesInit, ScopesTypeOK, Progress, EmptyReport
<1> QED
  BY <1>1, <1>2, <1>3 DEF TreeInv, ClosedSubtree

(***************************************************************************)
(* For any tree of scopes and any jobs: nothing open hangs below a closed  *)
(* scope, and the slot counters stay exact while scopes are closed         *)
(* (_create_scope, _close_scope).                                          *)
(***************************************************************************)
THEOREM ScopeTreeHolds == ScopesSpec => [](ClosedSubtree /\ SlotAccounting)
<1>1. TreeInv => ClosedSubtree /\ SlotAccounting
  BY DEF TreeInv, SlotInv
<1> QED
  BY <1>1, TreeInvInit, TreeInvStep, PTL DEF ScopesSpec

-----------------------------------------------------------------------------
(***************************************************************************)
(* Once a close has begun, its whole subtree is closed, and a job in there *)
(* that is not terminal is in one of its lists; what it is through with in *)
(* the running list is terminal or reported.                               *)
(***************************************************************************)
CloseInv ==
    \A s \in Scopes : call[s] \in {"closing", "returned"} =>
        /\ \A c \in scopes : Within(c, s) => c \in closedScopes
        /\ s \in scopes
        /\ \A j \in JobsIn(Subtree(s)) : state[j] = "terminal" \/ j \in pending[s] \cup live[s]
        /\ \A j \in live[s] \cap worked[s] :
              state[j] = "terminal" \/ j \in report[s].timed_out \cup report[s].failed

(***************************************************************************)
(* The registry cannot add to what a close has to deal with.               *)
(***************************************************************************)
LEMMA RegistryKeepsCloseInv == TreeInv /\ CloseInv /\ RegistryStep => CloseInv'
<1> SUFFICES ASSUME TreeInv, CloseInv, RegistryStep, NEW s \in Scopes,
                    call'[s] \in {"closing", "returned"}
             PROVE  /\ \A c \in scopes' : Within(c, s) => c \in closedScopes'
                    /\ s \in scopes'
                    /\ \A j \in JobsIn(Subtree(s))' :
                          state'[j] = "terminal" \/ j \in pending'[s] \cup live'[s]
                    /\ \A j \in live'[s] \cap worked'[s] :
                          state'[j] = "terminal" \/ j \in report'[s].timed_out \cup report'[s].failed
  BY DEF CloseInv
<1>1. /\ \A j \in Jobs : state[j] = "terminal" => state'[j] = "terminal"
      /\ \A j \in records' \ records : Attr[j].scope \notin closedScopes
      /\ UNCHANGED closedScopes
  BY RegistryFacts DEF TreeInv, RegistryStep, InScopes
<1>2. /\ UNCHANGED <<scopes, call, pending, live, worked, report>>
      /\ \A j \in records' : Attr[j].scope \in scopes
  BY DEF RegistryStep, InScopes, scopeVars
<1>3. live[s] \subseteq Jobs /\ records' \subseteq Jobs
  <2>1. SlotInv'
    BY SlotInvStep DEF TreeInv, RegistryStep, InScopes
  <2> QED
    BY <2>1 DEF TreeInv, ScopesTypeOK, SlotInv, TypeOK
<1>4. \A j \in JobsIn(Subtree(s))' : j \in JobsIn(Subtree(s))
  BY <1>1, <1>2 DEF CloseInv, JobsIn, Subtree
<1> QED
  BY <1>1, <1>2, <1>3, <1>4 DEF CloseInv, JobsIn

(***************************************************************************)
(* Working on a pending job leaves alone what is done of the running ones. *)
(***************************************************************************)
LEMMA PendingWorkKeepsLiveWork ==
  ASSUME TreeInv, NEW u \in Scopes, NEW j \in pending[u],
         worked' = worked \/ worked' = [worked EXCEPT ![u] = @ \cup {j}],
         NEW s \in Scopes
  PROVE  live[s] \cap worked'[s] = live[s] \cap worked[s]
<1>1. j \notin live[u]
  BY DEF TreeInv, Progress
<1>2. worked \in [Scopes -> SUBSET Jobs]
  BY DEF TreeInv, ScopesTypeOK
<1>3. CASE worked' = worked
  BY <1>3
<1>4. CASE worked' = [worked EXCEPT ![u] = @ \cup {j}] /\ s # u
  BY <1>2, <1>4
<1>5. CASE worked' = [worked EXCEPT ![u] = @ \cup {j}] /\ s = u
  <2>1. worked'[s] = worked[s] \cup {j}
    BY <1>2, <1>5
  <2> QED
    BY <1>1, <1>5, <2>1
<1> QED
  BY <1>3, <1>4, <1>5

(***************************************************************************)
(* Neither can a scope operation, on whichever scope it works.             *)
(***************************************************************************)
LEMMA ScopeStepsKeepCloseInv ==
  ASSUME TreeInv, TreeInv', CloseInv, NEW u \in Scopes,
         \/ create_scope(u) \/ close_scope(u) \/ CloseSteps(u) \/ close_raises(u)
  PROVE  CloseInv'
<1> USE DEF CloseInv
<1>0. records' = records /\ records \subseteq Jobs /\ \A s \in Scopes : live[s] \subseteq Jobs
  BY ScopeStepsKeepSlotInv DEF TreeInv, SlotInv, TypeOK, ScopesTypeOK
<1>1. CASE create_scope(u)
  <2>1. /\ scopes' = scopes \cup {u}
        /\ Parent[u] \in scopes \ closedScopes
        /\ u \notin scopes
        /\ UNCHANGED <<state, records, closedScopes, call, pending, live, worked, report>>
    BY <1>1 DEF create_scope, vars, jobVars, recordVars
  <2>2. \A s \in Scopes : s # u /\ Within(u, s) => Within(Parent[u], s)
    BY WithinParent
  <2> QED
    BY <2>1, <2>2 DEF JobsIn
<1>2. CASE close_scope(u)
  <2>1. CASE u \in closedScopes
    <3>1. /\ UNCHANGED <<state, records, closedScopes, scopes, pending, live, worked, report>>
          /\ call' = [call EXCEPT ![u] = "nothing"]
      BY <1>2, <2>1 DEF close_scope, jobVars, recordVars
    <3> QED
      BY <3>1 DEF JobsIn, TreeInv, ScopesTypeOK
  <2>2. CASE u \notin closedScopes
    <3> DEFINE jobs == JobsIn(collect_scopes_locked(u))
    <3>1. /\ pending' = [pending EXCEPT ![u] = {j \in jobs : state[j] = "pending"}]
          /\ live' = [live EXCEPT ![u] = {j \in jobs : state[j] = "running"}]
          /\ call' = [call EXCEPT ![u] = "closing"]
          /\ closedScopes' = closedScopes \cup collect_scopes_locked(u)
          /\ UNCHANGED <<state, records, scopes, worked, report>>
          /\ call[u] = "none" /\ u \in scopes
      BY <1>2, <2>2 DEF close_scope, jobVars, recordVars
    <3>2. worked[u] = {}
      BY <3>1 DEF TreeInv, Progress
    <3>3. jobs = JobsIn(Subtree(u))
      BY DEF JobsIn, Subtree, collect_scopes_locked, TreeInv, ScopesTypeOK
    <3>4. \A j \in jobs : state[j] \in {"pending", "running", "terminal"}
      BY DEF JobsIn, TreeInv, SlotInv, TypeOK, JobStates
    <3>5. \A s \in Scopes \ {u} : /\ call'[s] = call[s] /\ pending'[s] = pending[s]
                                  /\ live'[s] = live[s]
      BY <3>1 DEF TreeInv, ScopesTypeOK
    <3>6. /\ pending'[u] = {j \in jobs : state[j] = "pending"}
          /\ live'[u] = {j \in jobs : state[j] = "running"}
      BY <3>1 DEF TreeInv, ScopesTypeOK
    <3>7. \A s \in Scopes : JobsIn(Subtree(s))' = JobsIn(Subtree(s))
      <4> HIDE DEF CloseInv
      <4>1. records' = records
        BY <3>1
      <4> QED
        BY <4>1, Zenon DEF JobsIn, Subtree
    <3>8. \A c \in scopes : Within(c, u) => c \in closedScopes'
      BY <3>1 DEF collect_scopes_locked
    <3> HIDE DEF jobs
    <3> SUFFICES ASSUME NEW s \in Scopes, call'[s] \in {"closing", "returned"}
                 PROVE  /\ \A c \in scopes' : Within(c, s) => c \in closedScopes'
                        /\ s \in scopes'
                        /\ \A j \in JobsIn(Subtree(s))' :
                              state'[j] = "terminal" \/ j \in pending'[s] \cup live'[s]
                        /\ \A j \in live'[s] \cap worked'[s] :
                              state'[j] = "terminal" \/ j \in report'[s].timed_out \cup report'[s].failed
      OBVIOUS
    <3>9. CASE s # u
      BY <3>1, <3>5, <3>7, <3>9
    <3>10. CASE s = u
      <4> HIDE DEF CloseInv
      <4>1. \A c \in scopes' : Within(c, s) => c \in closedScopes'
        BY <3>1, <3>8, <3>10
      <4>2. \A j \in JobsIn(Subtree(s))' : state'[j] = "terminal" \/ j \in pending'[s] \cup live'[s]
        BY <3>1, <3>3, <3>4, <3>6, <3>7, <3>10
      <4> QED
        BY <3>1, <3>2, <3>10, <4>1, <4>2
    <3> QED
      BY <3>9, <3>10
  <2> QED
    BY <2>1, <2>2
<1>3. CASE check_pending(u)
  <2>1. PICK j \in pending[u] : worked' = worked \/ worked' = [worked EXCEPT ![u] = @ \cup {j}]
    BY <1>3 DEF check_pending, Oldest
  <2>2. UNCHANGED <<state, records, closedScopes, scopes, call, pending, live, report>>
    BY <1>3 DEF check_pending, vars, jobVars, recordVars
  <2>3. \A s \in Scopes : live[s] \cap worked'[s] = live[s] \cap worked[s]
    BY <2>1, PendingWorkKeepsLiveWork
  <2> QED
    BY <2>2, <2>3 DEF JobsIn, Subtree
<1>4. CASE cancel_pending(u)
  <2>1. PICK j \in checked[u] :
           /\ cancel(j)
           /\ worked' = [worked EXCEPT ![u] = @ \cup {j}]
           /\ \/ report' = [report EXCEPT ![u].closed = @ \cup {j}]
              \/ report' = [report EXCEPT ![u].failed = @ \cup {j}]
    BY <1>4 DEF cancel_pending
  <2>2. UNCHANGED <<records, closedScopes, scopes, call, pending, live>>
    BY <1>4 DEF cancel_pending, recordVars
  <2> j \in pending[u]
    BY <2>1 DEF TreeInv, Progress
  <2>3. \A s \in Scopes : live[s] \cap worked'[s] = live[s] \cap worked[s]
    BY <2>1, PendingWorkKeepsLiveWork
  <2>4. \A k \in Jobs : state[k] = "terminal" => state'[k] = "terminal"
    BY <2>1 DEF cancel, TreeInv, SlotInv, TypeOK
  <2>5. \A s \in Scopes : /\ report[s].timed_out \subseteq report'[s].timed_out
                          /\ report[s].failed \subseteq report'[s].failed
    <3> USE DEF TreeInv, ScopesTypeOK
    <3>1. CASE report' = [report EXCEPT ![u].closed = @ \cup {j}]
      BY <3>1
    <3>2. CASE report' = [report EXCEPT ![u].failed = @ \cup {j}]
      BY <3>2
    <3> QED
      BY <2>1, <3>1, <3>2
  <2> QED
    BY <1>0, <2>2, <2>3, <2>4, <2>5 DEF JobsIn, Subtree
<1>5. CASE close_job(u) \/ close_raises(u)
  <2>1. PICK j \in live[u] :
           /\ worked' = [worked EXCEPT ![u] = @ \cup {j}]
           /\ \/ state[j] = "terminal" /\ report' = [report EXCEPT ![u].closed = @ \cup {j}]
              \/ report' = [report EXCEPT ![u].timed_out = @ \cup {j}]
              \/ report' = [report EXCEPT ![u].failed = @ \cup {j}]
    BY <1>5 DEF close_job, close_raises, NextToClose, Oldest
  <2>2. UNCHANGED <<state, records, closedScopes, scopes, call, pending, live>>
    BY <1>5 DEF close_job, close_raises, vars, jobVars, recordVars
  <2>3. /\ \A s \in Scopes \ {u} : worked'[s] = worked[s] /\ report'[s] = report[s]
        /\ worked'[u] = worked[u] \cup {j}
    BY <2>1 DEF TreeInv, ScopesTypeOK
  <2>4. /\ report[u].timed_out \subseteq report'[u].timed_out
        /\ report[u].failed \subseteq report'[u].failed
        /\ state[j] = "terminal" \/ j \in report'[u].timed_out \cup report'[u].failed
    <3> USE DEF TreeInv, ScopesTypeOK
    <3>1. CASE state[j] = "terminal" /\ report' = [report EXCEPT ![u].closed = @ \cup {j}]
      BY <3>1
    <3>2. CASE report' = [report EXCEPT ![u].timed_out = @ \cup {j}]
      BY <3>2
    <3>3. CASE report' = [report EXCEPT ![u].failed = @ \cup {j}]
      BY <3>3
    <3> QED
      BY <2>1, <3>1, <3>2, <3>3
  <2> QED
    BY <2>2, <2>3, <2>4 DEF JobsIn, Subtree
<1>6. CASE return_report(u)
  <2>1. /\ UNCHANGED <<state, records, closedScopes, scopes, pending, live, worked, report>>
        /\ call[u] = "closing"
        /\ call' = [call EXCEPT ![u] = "returned"]
    BY <1>6 DEF return_report, vars, jobVars, recordVars
  <2> QED
    BY <2>1 DEF JobsIn, Subtree, TreeInv, ScopesTypeOK
<1> QED
  BY <1>1, <1>2, <1>3, <1>4, <1>5, <1>6 DEF CloseSteps

(***************************************************************************)
(* For any tree and any jobs, a close that returned has terminated,        *)
(* reported, or seen as pending every job of its subtree (_close_scope).   *)
(***************************************************************************)
THEOREM CloseAccountsForJobsHolds == ScopesSpec => []CloseAccountsForJobs
<1>1. ScopesInit => CloseInv
  BY DEF ScopesInit, CloseInv
<1>2. TreeInv /\ CloseInv /\ [ScopesNext]_allVars => CloseInv'
  <2> SUFFICES ASSUME TreeInv, CloseInv, [ScopesNext]_allVars PROVE CloseInv'
    OBVIOUS
  <2>1. TreeInv'
    BY TreeInvStep
  <2>2. CASE UNCHANGED allVars
    BY <2>2 DEF allVars, vars, jobVars, recordVars, scopeVars, CloseInv, JobsIn, Subtree
  <2> QED
    BY <2>1, <2>2, RegistryKeepsCloseInv, ScopeStepsKeepCloseInv DEF ScopesNext
<1>3. TreeInv /\ CloseInv => CloseAccountsForJobs
  BY DEF TreeInv, Progress, CloseInv, CloseAccountsForJobs
<1> QED
  BY <1>1, <1>2, <1>3, TreeInvInit, TreeInvStep, PTL DEF ScopesSpec

=============================================================================
