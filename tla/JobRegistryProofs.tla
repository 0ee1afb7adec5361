------------------------- MODULE JobRegistryProofs -------------------------
(***************************************************************************)
(* What holds of JobRegistry for any number of jobs, lanes, owners, scopes *)
(* and any limits.                                                         *)
(***************************************************************************)
EXTENDS JobRegistry, FiniteSetTheorems, TLAPS

(***************************************************************************)
(* No lease is taken twice: a submitter that has not been admitted yet, and*)
(* a job in the queue, have none, and no job is in both places.            *)
(***************************************************************************)
LeaseTakenOnce ==
    /\ \A j \in Jobs :
          pc[j] \in {"new", "bind", "start", "admit", "enqueue"} =>
              lease[j] = "none" /\ j \notin queue
    /\ \A j \in queue : lease[j] = "none"

SlotInv == TypeOK /\ SlotAccounting /\ LeaseTakenOnce

-----------------------------------------------------------------------------
(***************************************************************************)
(* Finite sets of jobs can be counted.                                     *)
(***************************************************************************)
LEMMA JobSetsAreFinite ==
  ASSUME NEW S \in SUBSET Jobs
  PROVE  IsFiniteSet(S) /\ Cardinality(S) \in Nat
BY JobsAssumption, FS_Subset, FS_CardinalityType

(***************************************************************************)
(* Two disjoint sets of jobs count together what they count apart.         *)
(***************************************************************************)
LEMMA DisjointCount ==
  ASSUME NEW S \in SUBSET Jobs, NEW T \in SUBSET Jobs, S \cap T = {}
  PROVE  Cardinality(S \cup T) = Cardinality(S) + Cardinality(T)
<1>1. Cardinality(S \cup T) = Cardinality(S) + Cardinality(T) - Cardinality(S \cap T)
  BY JobSetsAreFinite, FS_Union
<1>2. Cardinality(S \cap T) = 0
  BY FS_EmptySet
<1> QED
  BY <1>1, <1>2, JobSetsAreFinite

(***************************************************************************)
(* The counters that go with an assignment of leases.                      *)
(***************************************************************************)
CountedIn(leases, c) == {j \in Jobs : leases[j] = "counted" /\ c \in Counters(j)}

Accounted(run, leases) == \A c \in Counter : run[c] = Cardinality(CountedIn(leases, c))

(***************************************************************************)
(* Giving counted leases to a set S of jobs that have none, and adding S to*)
(* the counters, keeps them accounted for (_admit_locked).                 *)
(***************************************************************************)
LEMMA AdmissionIsAccounted ==
  ASSUME NEW run, NEW leases, NEW leases2,
         NEW S \in SUBSET Jobs,
         Accounted(run, leases),
         \A j \in S : leases[j] # "counted",
         \A j \in Jobs : leases2[j] = "counted" <=> (j \in S \/ leases[j] = "counted")
  PROVE  Accounted(AddTo(run, S), leases2)
<1> SUFFICES ASSUME NEW c \in Counter
             PROVE  AddTo(run, S)[c] = Cardinality(CountedIn(leases2, c))
  BY DEF Accounted
<1> DEFINE new == {j \in S : c \in Counters(j)}
<1>1. CountedIn(leases2, c) = CountedIn(leases, c) \cup new
  BY DEF CountedIn
<1>2. CountedIn(leases, c) \cap new = {}
  BY DEF CountedIn
<1>3. /\ CountedIn(leases, c) \in SUBSET Jobs
      /\ new \in SUBSET Jobs
  BY DEF CountedIn
<1>4. Cardinality(CountedIn(leases2, c)) = Cardinality(CountedIn(leases, c)) + Cardinality(new)
  BY <1>1, <1>2, <1>3, DisjointCount
<1> QED
  BY <1>4 DEF Accounted, AddTo

(***************************************************************************)
(* Releasing j's counted lease and taking j off its counters keeps them    *)
(* accounted for (_on_terminal).                                           *)
(***************************************************************************)
LEMMA ReleaseIsAccounted ==
  ASSUME NEW run, NEW leases, NEW leases2, NEW j \in Jobs,
         Accounted(run, leases),
         leases[j] = "counted",
         \A k \in Jobs : leases2[k] = "counted" <=> (k # j /\ leases[k] = "counted")
  PROVE  Accounted(RemoveFrom(run, j), leases2)
<1> SUFFICES ASSUME NEW c \in Counter
             PROVE  RemoveFrom(run, j)[c] = Cardinality(CountedIn(leases2, c))
  BY DEF Accounted
<1>1. CountedIn(leases2, c) = CountedIn(leases, c) \ {j}
  BY DEF CountedIn
<1>2. CountedIn(leases, c) \in SUBSET Jobs
  BY DEF CountedIn
<1>3. Cardinality(CountedIn(leases2, c)) =
        IF j \in CountedIn(leases, c) THEN Cardinality(CountedIn(leases, c)) - 1
                                      ELSE Cardinality(CountedIn(leases, c))
  BY <1>1, <1>2, JobSetsAreFinite, FS_RemoveElement
<1>4. j \in CountedIn(leases, c) <=> c \in Counters(j)
  BY DEF CountedIn
<1> QED
  BY <1>3, <1>4 DEF Accounted, RemoveFrom

(***************************************************************************)
(* Accounted counters are natural numbers.                                 *)
(***************************************************************************)
LEMMA AccountedIsNat ==
  ASSUME NEW run, NEW leases, NEW f,
         run = [c \in Counter |-> f[c]],
         Accounted(run, leases)
  PROVE  run \in [Counter -> Nat]
<1>1. \A c \in Counter : CountedIn(leases, c) \in SUBSET Jobs
  BY DEF CountedIn
<1>2. \A c \in Counter : run[c] \in Nat
  BY <1>1, JobSetsAreFinite DEF Accounted
<1> QED
  BY <1>2

(***************************************************************************)
(* SlotAccounting in terms of Accounted.                                   *)
(***************************************************************************)
LEMMA AccountingIsAccounted == SlotAccounting <=> Accounted(running, lease)
BY DEF SlotAccounting, Accounted, CountedIn

-----------------------------------------------------------------------------
(***************************************************************************)
(* A direct start that is admitted (_finish_admission, action "admit").    *)
(***************************************************************************)
LEMMA AdmitKeepsSlotInv ==
  ASSUME SlotInv, NEW j \in Jobs, finish_admission_admit(j)
  PROVE  SlotInv'
<1> USE DEF SlotInv, finish_admission_admit, jobVars
<1>1. lease[j] = "none" /\ j \notin queue
  BY DEF LeaseTakenOnce
<1> DEFINE counts == CountsAgainstLimits(j, records, Held(lease))
<1>2. /\ lease' = [lease EXCEPT ![j] = IF counts THEN "counted" ELSE "uncounted"]
      /\ running' = IF counts THEN AddTo(running, {j}) ELSE running
  OBVIOUS
<1> HIDE DEF counts
<1>3. Accounted(running, lease)
  BY AccountingIsAccounted
<1>4. Accounted(running', lease') /\ running' \in [Counter -> Nat]
  <2>1. CASE counts
    <3>1. \A k \in Jobs : lease'[k] = "counted" <=> (k \in {j} \/ lease[k] = "counted")
      BY <1>2, <2>1 DEF TypeOK
    <3>2. {j} \in SUBSET Jobs /\ \A k \in {j} : lease[k] # "counted"
      BY <1>1
    <3>3. Accounted(AddTo(running, {j}), lease')
      <4> HIDE DEF finish_admission_admit, SlotInv
      <4> QED
        BY <3>1, <3>2, <1>3, AdmissionIsAccounted
    <3>4. AddTo(running, {j}) = [c \in Counter |-> AddTo(running, {j})[c]]
      BY DEF AddTo
    <3> QED
      BY <3>3, <3>4, <1>2, <2>1, AccountedIsNat
  <2>2. CASE ~ counts
    <3>1. \A c \in Counter : CountedIn(lease', c) = CountedIn(lease, c)
      BY <1>1, <1>2, <2>2 DEF CountedIn, TypeOK
    <3> QED
      BY <3>1, <1>2, <1>3, <2>2 DEF Accounted, TypeOK
  <2> QED
    BY <2>1, <2>2
<1>5. SlotAccounting'
  BY <1>4 DEF SlotAccounting, Accounted, CountedIn
<1>6. LeaseTakenOnce'
  BY <1>1, <1>2 DEF LeaseTakenOnce, TypeOK, GoTo
<1>7. TypeOK'
  <2>1. lease' \in [Jobs -> {"none", "counted", "uncounted", "released"}]
    BY <1>2 DEF TypeOK
  <2>2. toStart' \in [Starters -> SUBSET Jobs]
    BY DEF TypeOK
  <2>3. pc' \in [Jobs -> PCs]
    BY DEF TypeOK, GoTo, PCs
  <2> QED
    BY <1>4, <2>1, <2>2, <2>3 DEF TypeOK
<1> QED
  BY <1>5, <1>6, <1>7

(***************************************************************************)
(* The end of a job: its lease is released and the queue drained           *)
(* (_on_terminal, _drain_queue_locked).                                    *)
(***************************************************************************)
LEMMA TerminalKeepsSlotInv ==
  ASSUME SlotInv, NEW j \in Jobs, on_terminal(j),
         UNCHANGED <<state, carrier, closedScopes, pc>>,
         unnotified' = unnotified \ {j}
  PROVE  SlotInv'
<1> DEFINE kept    == prune_history_locked(records, terminal \cup {j})
           waiting == {q \in queue \ {j} : Lane(q) = Lane(j)}
           freed   == ReleasedLease(j)
           fewer   == ReleasedCounters(j)
<1>1. PICK S \in SUBSET waiting :
         /\ running' = AddTo(fewer, CountedBy(S, kept, freed))
         /\ lease' = [q \in Jobs |-> IF q \in CountedBy(S, kept, freed) THEN "counted"
                                     ELSE IF q \in S THEN "uncounted" ELSE freed[q]]
         /\ terminal' = terminal \cup {j}
         /\ records' = kept
         /\ listening' = listening \ (records \ kept)
         /\ admitted' = admitted \cup S
         /\ queue' = {q \in queue \ {j} :
                        q \in waiting => q \notin S /\ q \in kept /\ state[q] = "pending"}
         /\ toStart' = [toStart EXCEPT ![<<"notice", j>>] = S]
         /\ UNCHANGED <<queuedAt, enqueuedAt>>
  BY DEF on_terminal
<1> DEFINE counted == CountedBy(S, kept, freed)
<1>2. kept \in SUBSET records
  BY DEF prune_history_locked, Newest
<1>3. S \subseteq queue /\ S \subseteq Jobs /\ counted \subseteq S /\ j \notin S
  BY DEF SlotInv, TypeOK, CountedBy
<1>4. /\ freed \in [Jobs -> {"none", "counted", "uncounted", "released"}]
      /\ \A k \in Jobs : k # j => freed[k] = lease[k]
      /\ freed[j] \in {"none", "released"}
      /\ lease[j] = "none" => freed[j] = "none"
  BY DEF SlotInv, TypeOK, ReleasedLease
<1>5. Accounted(fewer, freed)
  <2>1. Accounted(running, lease)
    BY AccountingIsAccounted DEF SlotInv
  <2>2. CASE lease[j] = "counted"
    <3>1. \A k \in Jobs : freed[k] = "counted" <=> (k # j /\ lease[k] = "counted")
      BY <1>4
    <3>2. fewer = RemoveFrom(running, j)
      BY <2>2 DEF ReleasedCounters
    <3> HIDE DEF freed, fewer
    <3> QED
      BY <2>1, <2>2, <3>1, <3>2, ReleaseIsAccounted
  <2>3. CASE lease[j] # "counted"
    <3>1. \A c \in Counter : CountedIn(freed, c) = CountedIn(lease, c)
      BY <1>4, <2>3 DEF CountedIn
    <3>2. fewer = running
      BY <2>3 DEF ReleasedCounters
    <3> HIDE DEF freed, fewer
    <3> QED
      BY <2>1, <3>1, <3>2 DEF Accounted
  <2> QED
    BY <2>2, <2>3
<1>6. \A k \in S : freed[k] = "none"
  BY <1>3, <1>4 DEF SlotInv, LeaseTakenOnce
<1>7. /\ lease' \in [Jobs -> {"none", "counted", "uncounted", "released"}]
      /\ \A k \in Jobs : lease'[k] = "counted" <=> (k \in counted \/ freed[k] = "counted")
      /\ \A k \in Jobs : k \notin S => lease'[k] = freed[k]
  <2> HIDE DEF freed, kept
  <2> QED
    BY <1>1, <1>3, <1>4, <1>6
<1>8. Accounted(running', lease') /\ running' \in [Counter -> Nat]
  <2>1. counted \in SUBSET Jobs /\ \A k \in counted : freed[k] # "counted"
    BY <1>3, <1>6
  <2>2. running' = AddTo(fewer, counted)
    BY <1>1
  <2> HIDE DEF freed, fewer, counted, kept, waiting
  <2>3. Accounted(AddTo(fewer, counted), lease')
    BY <1>5, <1>7, <2>1, AdmissionIsAccounted
  <2>4. AddTo(fewer, counted) = [c \in Counter |-> AddTo(fewer, counted)[c]]
    BY DEF AddTo
  <2> QED
    BY <2>2, <2>3, <2>4, AccountedIsNat
<1>9. SlotAccounting'
  BY <1>8 DEF SlotAccounting, Accounted, CountedIn
<1>10. queue' \subseteq queue \ (S \cup {j})
  <2> HIDE DEF freed, kept
  <2> QED
    BY <1>1
<1>11. LeaseTakenOnce'
  <2> HIDE DEF freed, fewer, kept, waiting, counted
  <2>1. ASSUME NEW k \in Jobs, pc'[k] \in {"new", "bind", "start", "admit", "enqueue"}
        PROVE  lease'[k] = "none" /\ k \notin queue'
    BY <2>1, <1>3, <1>4, <1>7, <1>10 DEF SlotInv, LeaseTakenOnce
  <2>2. ASSUME NEW k \in queue'
        PROVE  lease'[k] = "none"
    BY <2>2, <1>4, <1>7, <1>10 DEF SlotInv, LeaseTakenOnce, TypeOK
  <2> QED
    BY <2>1, <2>2 DEF LeaseTakenOnce
<1>12. TypeOK'
  <2> HIDE DEF freed, fewer, kept, waiting, counted
  <2>1. toStart' \in [Starters -> SUBSET Jobs]
    BY <1>1, <1>3 DEF SlotInv, TypeOK
  <2> QED
    BY <1>1, <1>2, <1>3, <1>7, <1>8, <1>10, <2>1 DEF SlotInv, TypeOK
<1> QED
  BY <1>9, <1>11, <1>12 DEF SlotInv

(***************************************************************************)
(* A logical clock's next value is a natural number.                       *)
(***************************************************************************)
LEMMA NextInIsNat ==
  ASSUME NEW stamp \in [Jobs -> Nat]
  PROVE  NextIn(stamp) \in Nat
<1>1. {j \in Jobs : stamp[j] > 0} \in SUBSET Jobs
  OBVIOUS
<1> QED
  BY <1>1, JobSetsAreFinite DEF NextIn

(***************************************************************************)
(* Every other step leaves leases and counters alone; it keeps the types   *)
(* and moves no job that has a lease back before its admission.            *)
(***************************************************************************)
LEMMA OtherStepsKeepSlotInv ==
  ASSUME SlotInv,
         \/ \E j \in Jobs : \/ register(j) \/ add_listener(j) \/ start(j)
                            \/ finish_admission_refuse(j) \/ finish_admission_queue(j)
                            \/ wait_for_admission(j) \/ wait_expires(j) \/ finish(j)
                            \/ cancel_in_scope(j) \/ unregister(j)
         \/ \E t \in Starters : StartList(t) \/ launch_fails(t)
         \/ UNCHANGED vars
  PROVE  SlotInv'
<1> USE DEF SlotInv, TypeOK, LeaseTakenOnce, GoTo, PCs, JobStates, jobVars, recordVars, slotVars
<1>0. ASSUME lease' = lease, running' = running
      PROVE  SlotAccounting'
  BY <1>0 DEF SlotAccounting
<1>1. ASSUME NEW j \in Jobs, register(j) PROVE SlotInv'
  <2>1. NextIn(queuedAt) \in Nat
    BY NextInIsNat
  <2>2. queuedAt' \in [Jobs -> Nat]
    <3>1. queuedAt \in [Jobs -> Nat]
      OBVIOUS
    <3> HIDE DEF SlotInv, TypeOK, GoTo, PCs, JobStates, jobVars, recordVars, slotVars
    <3>2. \/ queuedAt' = queuedAt
          \/ queuedAt' = [queuedAt EXCEPT ![j] = NextIn(queuedAt)]
      BY <1>1 DEF register
    <3> QED
      BY <2>1, <3>1, <3>2
  <2>3. PICK label \in {"done", "bind"} : pc' = [pc EXCEPT ![j] = label]
    BY <1>1 DEF register
  <2>4. /\ pc[j] = "new"
        /\ records' \subseteq Jobs
        /\ UNCHANGED <<jobVars, listening, admitted, terminal, lease, slotVars,
                       closedScopes, toStart>>
    <3>1. records \subseteq Jobs
      OBVIOUS
    <3> HIDE DEF SlotInv, TypeOK, PCs, JobStates, jobVars, recordVars, slotVars
    <3> QED
      BY <1>1, <3>1 DEF register
  <2> QED
    BY <1>0, <2>2, <2>3, <2>4
<1>2. ASSUME NEW j \in Jobs, add_listener(j) PROVE SlotInv'
  BY <1>0, <1>2 DEF add_listener
<1>3. ASSUME NEW j \in Jobs, start(j) PROVE SlotInv'
  <2>1. PICK label \in {"admit", "refuse", "enqueue", "done"} : GoTo(j, label)
    BY <1>3 DEF start, admission_decision_locked
  <2> QED
    BY <1>0, <1>3, <2>1 DEF start
<1>4. ASSUME NEW j \in Jobs, finish_admission_refuse(j) PROVE SlotInv'
  BY <1>0, <1>4 DEF finish_admission_refuse, cancel
<1>5. ASSUME NEW j \in Jobs, finish_admission_queue(j) PROVE SlotInv'
  <2>1. NextIn(enqueuedAt) \in Nat
    BY NextInIsNat
  <2>2. enqueuedAt' \in [Jobs -> Nat]
    BY <1>5, <2>1 DEF finish_admission_queue
  <2>3. CASE state[j] # "pending"
    BY <1>0, <1>5, <2>3 DEF finish_admission_queue
  <2>4. CASE state[j] = "pending"
    BY <1>0, <1>5, <2>2, <2>4 DEF finish_admission_queue
  <2> QED
    BY <2>3, <2>4
<1>6. ASSUME NEW j \in Jobs, wait_for_admission(j) PROVE SlotInv'
  BY <1>0, <1>6 DEF wait_for_admission
<1>7. ASSUME NEW j \in Jobs, wait_expires(j) PROVE SlotInv'
  BY <1>0, <1>7 DEF wait_expires
<1>8. ASSUME NEW j \in Jobs, finish(j) PROVE SlotInv'
  BY <1>0, <1>8 DEF finish
<1>9. ASSUME NEW j \in Jobs, cancel_in_scope(j) PROVE SlotInv'
  BY <1>0, <1>9 DEF cancel_in_scope, cancel
<1>10. ASSUME NEW j \in Jobs, unregister(j) PROVE SlotInv'
  BY <1>0, <1>10 DEF unregister
<1>11. ASSUME NEW t \in Starters, start_jobs(t) PROVE SlotInv'
  BY <1>0, <1>11 DEF start_jobs, HeadOf
<1>12. ASSUME NEW t \in Starters, launch(t) PROVE SlotInv'
  BY <1>0, <1>12 DEF launch, HeadOf
<1>13. ASSUME NEW t \in Starters, launch_fails(t) PROVE SlotInv'
  BY <1>0, <1>13 DEF launch_fails, HeadOf
<1>14. CASE UNCHANGED vars
  BY <1>0, <1>14 DEF vars
<1> QED
  BY <1>1, <1>2, <1>3, <1>4, <1>5, <1>6, <1>7, <1>8, <1>9, <1>10, <1>11, <1>12,
     <1>13, <1>14 DEF StartList

(***************************************************************************)
(* SlotInv is preserved by every step.                                     *)
(***************************************************************************)
LEMMA SlotInvStep == SlotInv /\ [Next]_vars => SlotInv'
<1> SUFFICES ASSUME SlotInv, [Next]_vars PROVE SlotInv'
  OBVIOUS
<1>1. ASSUME NEW j \in Jobs, finish_admission_admit(j) PROVE SlotInv'
  BY <1>1, AdmitKeepsSlotInv
<1>2. ASSUME NEW j \in Jobs, on_job_state_change(j) PROVE SlotInv'
  <2>1. CASE j \in listening /\ j \in records \ terminal
    BY <1>2, <2>1, TerminalKeepsSlotInv DEF on_job_state_change
  <2>2. CASE ~ (j \in listening /\ j \in records \ terminal)
    <3>1. /\ UNCHANGED <<recordVars, slotVars, toStart, state, carrier, closedScopes, pc>>
          /\ unnotified' = unnotified \ {j}
      BY <1>2, <2>2 DEF on_job_state_change
    <3> QED
      BY <3>1 DEF SlotInv, TypeOK, LeaseTakenOnce, SlotAccounting, recordVars, slotVars
  <2> QED
    BY <2>1, <2>2
<1> QED
  BY <1>1, <1>2, OtherStepsKeepSlotInv DEF Next, Submit

(***************************************************************************)
(* SlotInv holds initially.                                                *)
(***************************************************************************)
LEMMA SlotInvInit == Init => SlotInv
<1> SUFFICES ASSUME Init PROVE SlotInv
  OBVIOUS
<1>1. TypeOK /\ LeaseTakenOnce
  BY DEF Init, TypeOK, LeaseTakenOnce, PCs, JobStates, Starters
<1>2. \A c \in Counter : {j \in Jobs : lease[j] = "counted" /\ c \in Counters(j)} = {}
  BY DEF Init
<1>3. SlotAccounting
  BY <1>2, FS_EmptySet DEF Init, SlotAccounting
<1> QED
  BY <1>1, <1>3 DEF SlotInv

(***************************************************************************)
(* The slot counters are right in every reachable state, for any number of *)
(* jobs and any limits: each equals the number of counted leases not yet   *)
(* released, so none drifts or goes negative (_admit_locked, _on_terminal).*)
(***************************************************************************)
THEOREM SlotAccountingHolds == Spec => [](TypeOK /\ SlotAccounting)
<1>1. Init => SlotInv
  BY SlotInvInit
<1>2. SlotInv => TypeOK /\ SlotAccounting
  BY DEF SlotInv
<1> QED
  BY <1>1, <1>2, SlotInvStep, PTL DEF Spec

-----------------------------------------------------------------------------
(***************************************************************************)
(* How a job's life and its lease go together: a terminal notice, and the  *)
(* terminal flag, are only there for a terminal job; a job about to be     *)
(* started, or running, holds its lease; a job that was started had one.   *)
(***************************************************************************)
LifeInv ==
    /\ \A j \in unnotified \cup terminal : state[j] = "terminal"
    /\ \A t \in Starters : \A j \in toStart[t] : state[j] = "pending" => j \in Held(lease)
    /\ \A j \in Jobs : carrier[j] # "none" => lease[j] # "none"
    /\ RunningHoldsLease
    /\ StartedJobGivesSlotBack

(***************************************************************************)
(* A step that gives leases to the jobs S, which had none, and takes those *)
(* of the jobs R, which have ended; only S is added to lists of jobs to    *)
(* start.                                                                  *)
(***************************************************************************)
LeaseStep(S, R) ==
    /\ \A j \in S : lease[j] = "none" /\ lease'[j] \in {"counted", "uncounted"}
    /\ \A j \in Jobs \ (S \cup R) : lease'[j] = lease[j]
    /\ \A j \in R : /\ state[j] = "terminal"
                    /\ lease'[j] = IF lease[j] = "none" THEN "none" ELSE "released"
    /\ S \cap R = {}
    /\ terminal' = terminal \cup R
    /\ \A t \in Starters : toStart'[t] \subseteq toStart[t] \cup S
    /\ unnotified' \subseteq unnotified
    /\ UNCHANGED <<state, carrier>>

(***************************************************************************)
(* Such a step keeps LifeInv.                                              *)
(***************************************************************************)
LEMMA LeaseStepKeepsLifeInv ==
  ASSUME SlotInv, SlotInv', LifeInv,
         NEW S \in SUBSET Jobs, NEW R \in SUBSET Jobs,
         LeaseStep(S, R)
  PROVE  LifeInv'
<1> USE DEF LeaseStep, LifeInv, SlotInv, TypeOK, Held, RunningHoldsLease,
            StartedJobGivesSlotBack
<1>1. \A j \in (unnotified \cup terminal)' : state'[j] = "terminal"
  OBVIOUS
<1>2. \A j \in Jobs : j \in Held(lease) /\ state[j] # "terminal" => j \in Held(lease)'
  OBVIOUS
<1>3. \A t \in Starters : \A j \in toStart'[t] : state'[j] = "pending" => j \in Held(lease)'
  OBVIOUS
<1>4. \A j \in Jobs : carrier'[j] # "none" => lease'[j] # "none"
  OBVIOUS
<1>5. RunningHoldsLease'
  BY <1>2
<1>6. StartedJobGivesSlotBack'
  OBVIOUS
<1> QED
  BY <1>1, <1>3, <1>4, <1>5, <1>6

(***************************************************************************)
(* LifeInv is preserved by every step.                                     *)
(***************************************************************************)
LEMMA LifeInvStep == SlotInv /\ LifeInv /\ [Next]_vars => LifeInv'
<1> SUFFICES ASSUME SlotInv, LifeInv, [Next]_vars PROVE LifeInv'
  OBVIOUS
<1>0. SlotInv'
  BY SlotInvStep
<1>1. ASSUME NEW j \in Jobs, finish_admission_admit(j) PROVE LifeInv'
  <2>1. lease[j] = "none"
    BY <1>1 DEF SlotInv, LeaseTakenOnce, finish_admission_admit
  <2>2. /\ lease'[j] \in {"counted", "uncounted"}
        /\ \A k \in Jobs \ {j} : lease'[k] = lease[k]
    BY <1>1 DEF finish_admission_admit, SlotInv, TypeOK
  <2>3. \A t \in Starters : toStart'[t] \subseteq toStart[t] \cup {j}
    BY <1>1 DEF finish_admission_admit, SlotInv, TypeOK
  <2>4. UNCHANGED <<state, carrier, terminal, unnotified>>
    BY <1>1 DEF finish_admission_admit, jobVars
  <2>5. LeaseStep({j}, {})
    BY <2>1, <2>2, <2>3, <2>4 DEF LeaseStep
  <2> QED
    BY <1>0, <2>5, LeaseStepKeepsLifeInv
<1>2. ASSUME NEW j \in Jobs, on_job_state_change(j) PROVE LifeInv'
  <2>1. CASE j \in listening /\ j \in records \ terminal
    <3>1. PICK S \in SUBSET (queue \ {j}), counted \in SUBSET Jobs :
             /\ counted \subseteq S
             /\ lease' = [q \in Jobs |-> IF q \in counted THEN "counted"
                                         ELSE IF q \in S THEN "uncounted"
                                         ELSE ReleasedLease(j)[q]]
             /\ terminal' = terminal \cup {j}
             /\ toStart' = [toStart EXCEPT ![<<"notice", j>>] = S]
      <4> DEFINE kept    == prune_history_locked(records, terminal \cup {j})
                 waiting == {q \in queue \ {j} : Lane(q) = Lane(j)}
      <4>1. PICK S \in SUBSET waiting :
             /\ lease' = [q \in Jobs |->
                            IF q \in CountedBy(S, kept, ReleasedLease(j)) THEN "counted"
                            ELSE IF q \in S THEN "uncounted" ELSE ReleasedLease(j)[q]]
             /\ terminal' = terminal \cup {j}
             /\ toStart' = [toStart EXCEPT ![<<"notice", j>>] = S]
        BY <1>2, <2>1 DEF on_job_state_change, on_terminal
      <4>2. CountedBy(S, kept, ReleasedLease(j)) \in SUBSET S
        BY DEF CountedBy
      <4>3. S \subseteq Jobs
        BY DEF SlotInv, TypeOK
      <4> HIDE DEF kept
      <4> QED
        BY <4>1, <4>2, <4>3
    <3>2. UNCHANGED <<state, carrier>> /\ unnotified' \subseteq unnotified
      BY <1>2 DEF on_job_state_change
    <3>3. S \in SUBSET Jobs /\ j \notin S /\ \A k \in S : lease[k] = "none"
      BY DEF SlotInv, TypeOK, LeaseTakenOnce
    <3>4. \A k \in S : lease'[k] \in {"counted", "uncounted"}
      BY <3>1, <3>3
    <3>5. \A k \in Jobs \ (S \cup {j}) : lease'[k] = lease[k]
      BY <3>1 DEF ReleasedLease, SlotInv, TypeOK
    <3>6. /\ lease'[j] = IF lease[j] = "none" THEN "none" ELSE "released"
          /\ state[j] = "terminal"
      BY <1>2, <3>1, <3>3 DEF ReleasedLease, SlotInv, TypeOK, LifeInv, on_job_state_change
    <3>7. \A t \in Starters : toStart'[t] \subseteq toStart[t] \cup S
      BY <3>1 DEF SlotInv, TypeOK
    <3>8. LeaseStep(S, {j})
      BY <3>1, <3>2, <3>3, <3>4, <3>5, <3>6, <3>7 DEF LeaseStep
    <3> QED
      BY <1>0, <3>3, <3>8, LeaseStepKeepsLifeInv
  <2>2. CASE ~ (j \in listening /\ j \in records \ terminal)
    BY <1>2, <2>2 DEF on_job_state_change, LifeInv, recordVars, RunningHoldsLease,
       StartedJobGivesSlotBack, Held
  <2> QED
    BY <2>1, <2>2
<1> USE DEF LifeInv, SlotInv, TypeOK, Held, RunningHoldsLease, StartedJobGivesSlotBack,
            jobVars, recordVars
<1>3. ASSUME NEW j \in Jobs, cancel(j), UNCHANGED <<recordVars, toStart>> PROVE LifeInv'
  BY <1>3 DEF cancel
<1>4. ASSUME NEW j \in Jobs,
             \/ register(j) \/ add_listener(j) \/ start(j) \/ finish_admission_queue(j)
             \/ wait_for_admission(j) \/ wait_expires(j) \/ unregister(j)
      PROVE  LifeInv'
  <2>1. UNCHANGED <<jobVars, terminal, lease, toStart>>
    BY <1>4 DEF register, add_listener, start, finish_admission_queue, wait_for_admission,
       wait_expires, unregister
  <2> QED
    BY <2>1
<1>5. ASSUME NEW j \in Jobs, finish_admission_refuse(j) \/ cancel_in_scope(j) PROVE LifeInv'
  BY <1>3, <1>5 DEF finish_admission_refuse, cancel_in_scope
<1>6. ASSUME NEW j \in Jobs, finish(j) PROVE LifeInv'
  BY <1>6 DEF finish
<1>7. ASSUME NEW t \in Starters, start_jobs(t) PROVE LifeInv'
  BY <1>7 DEF start_jobs, HeadOf
<1>8. ASSUME NEW t \in Starters, launch(t) PROVE LifeInv'
  BY <1>8 DEF launch, HeadOf
<1>9. ASSUME NEW t \in Starters, launch_fails(t) PROVE LifeInv'
  BY <1>9 DEF launch_fails, HeadOf
<1>10. CASE UNCHANGED vars
  BY <1>10 DEF vars
<1> QED
  BY <1>1, <1>2, <1>4, <1>5, <1>6, <1>7, <1>8, <1>9, <1>10 DEF Next, Submit, StartList

(***************************************************************************)
(* A running job always holds its slot, and a job that was started gives   *)
(* it back when the registry handles its end, for any number of jobs and   *)
(* any limits (_start_jobs, _on_terminal).                                 *)
(***************************************************************************)
THEOREM LeaseLifecycleHolds == Spec => [](RunningHoldsLease /\ StartedJobGivesSlotBack)
<1>1. Init => SlotInv /\ LifeInv
  BY SlotInvInit DEF Init, LifeInv, RunningHoldsLease, StartedJobGivesSlotBack, Starters
<1>2. LifeInv => RunningHoldsLease /\ StartedJobGivesSlotBack
  BY DEF LifeInv
<1> QED
  BY <1>1, <1>2, SlotInvStep, LifeInvStep, PTL DEF Spec

=============================================================================
