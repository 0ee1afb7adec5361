---------------------------- MODULE JobRegistry ----------------------------
(***************************************************************************)
(* The process-wide job control centre of backend/src/jobs: the lifecycle  *)
(* of a Job (base.py), hierarchical lane admission (registry/admission.py),*)
(* registration and start (registry/core.py) and terminal handling         *)
(* (registry/lifecycle.py).                                                *)
(*                                                                         *)
(* The code has two kinds of lock: the registry's and one per job.  One    *)
(* action here is one critical section, together with the code up to the   *)
(* next one; whatever the code does between two sections can be overtaken  *)
(* by every other thread.  Each job is submitted once, by the thread whose *)
(* place in register/start is pc[j].  A job's terminal transition happens  *)
(* under the job lock; the thread that made it then delivers the notice    *)
(* (Job._notify), which is a later section: the job is in `unnotified`.    *)
(***************************************************************************)
EXTENDS Integers, FiniteSets, Sequences

CONSTANTS
    Jobs,                 \* the jobs this process ever submits
    Lanes,                \* JobLane
    Owners,               \* session ids and thread scope ids
    NoOwner,              \* a job outside every session or thread scope
    Scopes,               \* the scope tree's nodes
    Attr,                 \* what each job is submitted with, see AttrType
    Policy,               \* JobLimitPolicy: level -> lane -> LaneLimits
    HistoryLimit,         \* terminal records kept in all
    SessionHistoryLimit,  \* terminal records kept per session
    Unregistered          \* jobs whose owner calls unregister

Levels == {"system", "session", "thread"}

AttrType == [lane    : Lanes,
             session : Owners \cup {NoOwner},
             thread  : Owners \cup {NoOwner},
             scope   : Scopes,
             parents : Seq(Jobs),                     \* parent_job_id, nearest first
             slot    : {"counted", "inherit", "unmetered"},
             queue   : {"wait", "reject"},
             timeout : BOOLEAN]                       \* queue_timeout_seconds is set

ASSUME JobsAssumption == IsFiniteSet(Jobs)

ASSUME AttrAssumption == Attr \in [Jobs -> AttrType]

ASSUME PolicyAssumption ==
    Policy \in [Levels -> [Lanes -> [max_running : Nat, max_queued : Nat]]]

ASSUME HistoryAssumption == HistoryLimit \in Nat /\ SessionHistoryLimit \in Nat

VARIABLES
    state,            \* Job._state; the registry tells no two terminal states apart
    carrier,          \* the thread or process that executes the job
    listening,        \* jobs whose _listeners holds the registry
    records,          \* keys of _records
    queuedAt,         \* _Record.queued_at
    admitted,         \* records whose admitted_at is set
    terminal,         \* records whose terminal flag is set
    lease,            \* _Record.lease
    running,          \* _running, _running_by_session, _running_by_thread
    queue,            \* members of _queues, in the order of enqueuedAt
    enqueuedAt,
    closedScopes,     \* _closed_scopes
    pc,               \* where the thread that submits the job is
    unnotified,       \* terminal jobs whose _notify has not run yet
    toStart           \* the list a thread is working off in _start_jobs

jobVars == <<state, carrier, unnotified>>
recordVars == <<listening, records, queuedAt, admitted, terminal, lease>>
slotVars == <<running, queue, enqueuedAt>>
vars == <<jobVars, recordVars, slotVars, closedScopes, pc, toStart>>

JobStates == {"pending", "running", "terminal"}

(***************************************************************************)
(* A thread that runs _start_jobs: the one submitting j, or the one that   *)
(* delivers j's terminal notice and drained the queue.                     *)
(***************************************************************************)
Starters == {"submit", "notice"} \X Jobs

Lane(j) == Attr[j].lane

-----------------------------------------------------------------------------
(***************************************************************************)
(* Slot accounting.  A job is counted in one counter of each level it      *)
(* belongs to; the three dictionaries of the code are one function over    *)
(* these counters.                                                         *)
(***************************************************************************)
CounterOf(j, level) ==
    [level |-> level,
     owner |-> CASE level = "system"  -> NoOwner
                 [] level = "session" -> Attr[j].session
                 [] level = "thread"  -> Attr[j].thread,
     lane  |-> Lane(j)]

Counters(j) ==
    {CounterOf(j, level) : level \in
        {l \in Levels : l = "system" \/ CounterOf(j, l).owner # NoOwner}}

Counter == UNION {Counters(j) : j \in Jobs}

Limits(c) == Policy[c.level][c.lane]

Held(leases) == {j \in Jobs : leases[j] \in {"counted", "uncounted"}}

(***************************************************************************)
(* _inherited_lease_locked: some ancestor holds a lease in the same lane,  *)
(* and every record on the way up to it is still there.                    *)
(***************************************************************************)
inherited_lease_locked(j, recs, held) ==
    \E i \in DOMAIN Attr[j].parents :
        /\ \A k \in 1..i : Attr[j].parents[k] \in recs
        /\ Attr[j].parents[i] \in held
        /\ Lane(Attr[j].parents[i]) = Lane(j)

CanAdmitAtTheCap(j, run) ==
    \A c \in Counters(j) : run[c] <= Limits(c).max_running

can_admit_locked(j, run) ==
    \A c \in Counters(j) : run[c] < Limits(c).max_running

QueuedIn(c) == {q \in queue : c \in Counters(q) /\ (c.level = "system" \/ q \in records)}

check_queue_capacity_locked(j) ==
    \A c \in Counters(j) : Cardinality(QueuedIn(c)) < Limits(c).max_queued

(***************************************************************************)
(* _admit_locked: whether the admitted job's lease counts.                 *)
(***************************************************************************)
CountsAgainstLimits(j, recs, held) ==
    \/ Attr[j].slot = "counted"
    \/ Attr[j].slot = "inherit" /\ ~ inherited_lease_locked(j, recs, held)

AddTo(run, S) ==
    [c \in Counter |-> run[c] + Cardinality({j \in S : c \in Counters(j)})]

RemoveFromSystemOnly(run, j) ==
    [c \in Counter |-> IF c \in Counters(j) /\ c.level = "system" THEN run[c] - 1 ELSE run[c]]

RemoveFrom(run, j) ==
    [c \in Counter |-> IF c \in Counters(j) THEN run[c] - 1 ELSE run[c]]

-----------------------------------------------------------------------------
Init ==
    /\ state = [j \in Jobs |-> "pending"]
    /\ carrier = [j \in Jobs |-> "none"]
    /\ listening = {}
    /\ records = {}
    /\ queuedAt = [j \in Jobs |-> 0]
    /\ admitted = {}
    /\ terminal = {}
    /\ lease = [j \in Jobs |-> "none"]
    /\ running = [c \in Counter |-> 0]
    /\ queue = {}
    /\ enqueuedAt = [j \in Jobs |-> 0]
    /\ closedScopes = {}
    /\ pc = [j \in Jobs |-> "new"]
    /\ unnotified = {}
    /\ toStart = [t \in Starters |-> {}]

(***************************************************************************)
(* The next value of a clock that only orders the jobs stamped so far.     *)
(***************************************************************************)
NextIn(stamp) == 1 + Cardinality({j \in Jobs : stamp[j] > 0})

GoTo(j, label) == pc' = [pc EXCEPT ![j] = label]

-----------------------------------------------------------------------------
(***************************************************************************)
(* Job.cancel, whoever calls it: a pending job is cancelled at once.  For  *)
(* a running job it only passes the request on to the carrier, a terminal  *)
(* one is left alone: neither is visible to the registry.                  *)
(***************************************************************************)
cancel(j) ==
    /\ state' = [state EXCEPT ![j] = IF @ = "pending" THEN "terminal" ELSE @]
    /\ unnotified' = IF state[j] = "pending" THEN unnotified \cup {j} ELSE unnotified
    /\ UNCHANGED carrier

(***************************************************************************)
(* register: one registry section inserts the record, and the listener is  *)
(* bound after it.  A child job is submitted by its running parent.        *)
(***************************************************************************)
register(j) ==
    /\ pc[j] = "new"
    /\ Attr[j].parents # <<>> => state[Attr[j].parents[1]] = "running"
    /\ IF Attr[j].scope \in closedScopes
       THEN /\ GoTo(j, "done")                        \* JobScopeClosed
            /\ UNCHANGED <<records, queuedAt>>
       ELSE /\ records' = records \cup {j}
            /\ queuedAt' = [queuedAt EXCEPT ![j] = NextIn(queuedAt)]
            /\ GoTo(j, "bind")
    /\ UNCHANGED <<jobVars, listening, admitted, terminal, lease, slotVars,
                   closedScopes, toStart>>

NeverListens(j) ==
    /\ pc[j] = "bind"
    /\ GoTo(j, "start")
    /\ UNCHANGED <<jobVars, recordVars, slotVars, closedScopes, toStart>>

add_listener(j) ==
    /\ pc[j] = "bind"
    /\ listening' = listening \cup {j}
    /\ GoTo(j, "start")
    /\ UNCHANGED <<jobVars, records, queuedAt, admitted, terminal, lease, slotVars,
                   closedScopes, toStart>>

(***************************************************************************)
(* start with _admission_decision_locked: only a decision, nothing is      *)
(* reserved in this section.                                               *)
(***************************************************************************)
admission_decision_locked(j) ==
    IF \/ Attr[j].slot = "unmetered"
       \/ Attr[j].slot = "inherit" /\ inherited_lease_locked(j, records, Held(lease))
       \/ can_admit_locked(j, running)
    THEN "admit"
    ELSE IF Attr[j].queue = "reject" \/ ~ check_queue_capacity_locked(j)
         THEN "refuse"
         ELSE "enqueue"

start(j) ==
    /\ pc[j] = "start"
    /\ GoTo(j, IF j \in records /\ state[j] = "pending"
               THEN admission_decision_locked(j)
               ELSE "done")                           \* JobNotFound, not pending
    /\ UNCHANGED <<jobVars, recordVars, slotVars, closedScopes, toStart>>

(***************************************************************************)
(* _finish_admission, action "admit": the lease is taken in a section of   *)
(* its own, and _start_jobs follows it.                                    *)
(***************************************************************************)
finish_admission_admit(j) ==
    /\ pc[j] = "admit"
    /\ LET counts == CountsAgainstLimits(j, records, Held(lease))
       IN  /\ lease' = [lease EXCEPT ![j] = IF counts THEN "counted" ELSE "uncounted"]
           /\ running' = IF counts THEN AddTo(running, {j}) ELSE running
    /\ admitted' = admitted \cup {j}
    /\ toStart' = [toStart EXCEPT ![<<"submit", j>>] = {j}]
    /\ GoTo(j, "done")
    /\ UNCHANGED <<jobVars, listening, records, queuedAt, terminal, queue, enqueuedAt,
                   closedScopes>>

(***************************************************************************)
(* The refusals: queue full, and _finish_admission with action "reject".   *)
(* The job is cancelled and start raises.                                  *)
(***************************************************************************)
finish_admission_refuse(j) ==
    /\ pc[j] = "refuse"
    /\ cancel(j)
    /\ GoTo(j, "done")
    /\ UNCHANGED <<recordVars, slotVars, closedScopes, toStart>>

finish_admission_queue(j) ==
    /\ pc[j] = "enqueue"
    /\ IF state[j] # "pending"
       THEN /\ GoTo(j, "done")
            /\ UNCHANGED <<queue, enqueuedAt>>
       ELSE /\ queue' = queue \cup {j}
            /\ enqueuedAt' = [enqueuedAt EXCEPT ![j] = NextIn(enqueuedAt)]
            /\ GoTo(j, "wait")
    /\ UNCHANGED <<jobVars, recordVars, running, closedScopes, toStart>>

(***************************************************************************)
(* _wait_for_admission: it returns once the job is admitted or no longer   *)
(* pending; the deadline is noticed under the lock, the cancel comes after.*)
(***************************************************************************)
wait_for_admission(j) ==
    /\ pc[j] = "wait"
    /\ j \in admitted \/ state[j] # "pending"
    /\ GoTo(j, "done")
    /\ UNCHANGED <<jobVars, recordVars, slotVars, closedScopes, toStart>>

wait_expires(j) ==
    /\ pc[j] = "wait"
    /\ Attr[j].timeout
    /\ j \notin admitted /\ state[j] = "pending"
    /\ GoTo(j, "refuse")                              \* cancel, JobAdmissionTimeout
    /\ UNCHANGED <<jobVars, recordVars, slotVars, closedScopes, toStart>>

-----------------------------------------------------------------------------
(***************************************************************************)
(* _start_jobs works its list off in order.  job.start() moves a pending   *)
(* job to running and then launches the carrier; for a job that is no      *)
(* longer pending it raises JobStateError, and the exception leaves        *)
(* _start_jobs with the rest of the list unstarted.                        *)
(***************************************************************************)
HeadOf(t) ==
    {j \in toStart[t] : \A k \in toStart[t] : enqueuedAt[j] <= enqueuedAt[k]}

StartsWhateverTheState(t) ==
    \E j \in HeadOf(t) :
        /\ carrier[j] = "none"
        /\ state' = [state EXCEPT ![j] = "running"]
        /\ carrier' = [carrier EXCEPT ![j] = "launching"]
        /\ UNCHANGED <<toStart, unnotified, recordVars, slotVars, closedScopes, pc>>

start_jobs(t) ==
    \E j \in HeadOf(t) :
        /\ carrier[j] = "none"
        /\ IF state[j] = "pending"
           THEN /\ state' = [state EXCEPT ![j] = "running"]
                /\ carrier' = [carrier EXCEPT ![j] = "launching"]
                /\ UNCHANGED toStart
           ELSE /\ toStart' = [toStart EXCEPT ![t] = {}]
                /\ UNCHANGED <<state, carrier>>
        /\ UNCHANGED <<unnotified, recordVars, slotVars,
                       closedScopes, pc>>

launch(t) ==
    \E j \in HeadOf(t) :
        /\ carrier[j] = "launching"
        /\ carrier' = [carrier EXCEPT ![j] = "alive"]
        /\ toStart' = [toStart EXCEPT ![t] = @ \ {j}]
        /\ UNCHANGED <<state, unnotified, recordVars, slotVars,
                       closedScopes, pc>>

(***************************************************************************)
(* The carrier cannot be launched: _mark_failed, and the exception again   *)
(* ends _start_jobs.                                                       *)
(***************************************************************************)
launch_fails(t) ==
    \E j \in HeadOf(t) :
        /\ carrier[j] = "launching"
        /\ carrier' = [carrier EXCEPT ![j] = "gone"]
        /\ state' = [state EXCEPT ![j] = "terminal"]
        /\ unnotified' = unnotified \cup {j}
        /\ toStart' = [toStart EXCEPT ![t] = {}]
        /\ UNCHANGED <<recordVars, slotVars, closedScopes, pc>>

(***************************************************************************)
(* The carrier ends and seals the state (_mark_succeeded, _mark_failed,    *)
(* _mark_cancelled).                                                       *)
(***************************************************************************)
EndsWithoutSealing(j) ==
    /\ carrier[j] = "alive"
    /\ carrier' = [carrier EXCEPT ![j] = "gone"]
    /\ UNCHANGED <<state, unnotified, recordVars, slotVars, closedScopes, pc, toStart>>

finish(j) ==
    /\ carrier[j] = "alive"
    /\ state' = [state EXCEPT ![j] = "terminal"]
    /\ carrier' = [carrier EXCEPT ![j] = "gone"]
    /\ unnotified' = unnotified \cup {j}
    /\ UNCHANGED <<recordVars, slotVars, closedScopes, pc, toStart>>

(***************************************************************************)
(* A cancellation from outside (JobScope.cancel, the owner of the job).    *)
(***************************************************************************)
cancel_in_scope(j) ==
    /\ j \in records
    /\ state[j] = "pending"
    /\ cancel(j)
    /\ UNCHANGED <<recordVars, slotVars, closedScopes, pc, toStart>>

-----------------------------------------------------------------------------
(***************************************************************************)
(* _prune_history_locked: the newest HistoryLimit terminal records stay,   *)
(* and of what stays the newest SessionHistoryLimit of each session.       *)
(***************************************************************************)
Newest(S, n) ==
    {r \in S : Cardinality({q \in S : queuedAt[q] > queuedAt[r]}) < n}

prune_history_locked(recs, term) ==
    LET kept == (recs \ term) \cup Newest(recs \cap term, HistoryLimit)
        ofSession(r) == {q \in kept \cap term : Attr[q].session = Attr[r].session}
    IN  {r \in kept : \/ r \notin term
                      \/ Attr[r].session = NoOwner
                      \/ r \in Newest(ofSession(r), SessionHistoryLimit)}

(***************************************************************************)
(* _drain_queue_locked scans a lane's queue once, in order: S is the set   *)
(* of jobs it admits.  A job is admitted when it is still pending, no job  *)
(* of its session or thread was admitted earlier in this scan, and the     *)
(* counters, with what the scan admitted so far, leave room.               *)
(***************************************************************************)
Later(S, q) == {p \in S : enqueuedAt[p] > enqueuedAt[q]}

Earlier(S, q) == {p \in S : enqueuedAt[p] < enqueuedAt[q]}

CountedBy(S, recs, leases) ==
    {q \in S : CountsAgainstLimits(q, recs, Held(leases) \cup Earlier(S, q))}

SameOwner(p, q) ==
    \/ Attr[p].session = Attr[q].session /\ Attr[p].session # NoOwner
    \/ Attr[p].thread = Attr[q].thread /\ Attr[p].thread # NoOwner

drain_queue_locked(S, waiting, recs, run, leases) ==
    \A q \in waiting :
        q \in S <=> /\ q \in recs
                    /\ state[q] = "pending"
                    /\ \A p \in Earlier(S, q) : ~ SameOwner(p, q)
                    /\ can_admit_locked(q,
                          AddTo(run, CountedBy(S, recs, leases) \cap Earlier(S, q)))

(***************************************************************************)
(* The lease and the counters once j's lease is released, at most once.    *)
(***************************************************************************)
KeepsUncounted(j) == [lease EXCEPT ![j] = IF @ = "counted" THEN "released" ELSE @]

ReleasedLease(j) == [lease EXCEPT ![j] = IF @ = "none" THEN @ ELSE "released"]

UncountsEveryLease(j) == IF j \in Held(lease) THEN RemoveFrom(running, j) ELSE running

ReleasedCounters(j) == IF lease[j] = "counted" THEN RemoveFrom(running, j) ELSE running

(* A notice that flags the record and leaves the lease to nobody.          *)
FlagsWithoutReleasing(j) ==
    /\ terminal' = terminal \cup {j}
    /\ queue' = queue \ {j}
    /\ UNCHANGED <<records, listening, queuedAt, enqueuedAt, admitted, lease, running, toStart>>

(***************************************************************************)
(* _on_terminal, one registry section: flag the record, leave the queue,   *)
(* release the lease, prune the history, drain the lane's queue.  The      *)
(* drained jobs are started after it.                                      *)
(***************************************************************************)
on_terminal(j) ==
    LET kept    == prune_history_locked(records, terminal \cup {j})
        waiting == {q \in queue \ {j} : Lane(q) = Lane(j)}
    IN  \E S \in SUBSET waiting :
          /\ drain_queue_locked(S, waiting, kept, ReleasedCounters(j), ReleasedLease(j))
          /\ LET counted == CountedBy(S, kept, ReleasedLease(j))
             IN  /\ running' = AddTo(ReleasedCounters(j), counted)
                 /\ lease' = [q \in Jobs |->
                                IF q \in counted THEN "counted"
                                ELSE IF q \in S THEN "uncounted"
                                ELSE ReleasedLease(j)[q]]
          /\ terminal' = terminal \cup {j}
          /\ records' = kept
          /\ listening' = listening \ (records \ kept)
          /\ admitted' = admitted \cup S
          /\ queue' = {q \in queue \ {j} :
                         q \in waiting => q \notin S /\ q \in kept /\ state[q] = "pending"}
          /\ toStart' = [toStart EXCEPT ![<<"notice", j>>] = S]
          /\ UNCHANGED <<queuedAt, enqueuedAt>>

(***************************************************************************)
(* _notify of a terminal transition, by the thread that made it: the       *)
(* registry hears of it only if it is a listener by now, and ignores a job *)
(* without a record or with the terminal flag set.                         *)
(***************************************************************************)
on_job_state_change(j) ==
    /\ j \in unnotified
    /\ unnotified' = unnotified \ {j}
    /\ IF j \in listening /\ j \in records \ terminal
       THEN on_terminal(j)
       ELSE UNCHANGED <<recordVars, slotVars, toStart>>
    /\ UNCHANGED <<state, carrier, closedScopes, pc>>

unregister(j) ==
    /\ j \in Unregistered \cap records
    /\ state[j] = "terminal"
    /\ records' = records \ {j}
    /\ listening' = listening \ {j}
    /\ UNCHANGED <<jobVars, queuedAt, admitted, terminal, lease, slotVars,
                   closedScopes, pc, toStart>>

-----------------------------------------------------------------------------
Submit(j) ==
    \/ register(j)
    \/ add_listener(j)
    \/ start(j)
    \/ finish_admission_admit(j)
    \/ finish_admission_refuse(j)
    \/ finish_admission_queue(j)
    \/ wait_for_admission(j)

StartList(t) == start_jobs(t) \/ launch(t)

Next ==
    \/ \E j \in Jobs :
          \/ Submit(j)
          \/ wait_expires(j)
          \/ finish(j)
          \/ cancel_in_scope(j)
          \/ on_job_state_change(j)
          \/ unregister(j)
    \/ \E t \in Starters : StartList(t) \/ launch_fails(t)

Spec == Init /\ [][Next]_vars

(***************************************************************************)
(* Fairness: threads are scheduled (a thread inside submit, _notify or     *)
(* _start_jobs goes on), and a carrier eventually ends.  Nothing obliges   *)
(* anyone to cancel, to unregister or to let a queue timeout pass.         *)
(***************************************************************************)
Fairness ==
    /\ \A j \in Jobs : /\ WF_vars(Submit(j))
                       /\ WF_vars(finish(j))
                       /\ WF_vars(on_job_state_change(j))
    /\ \A t \in Starters : WF_vars(StartList(t))

FairSpec == Spec /\ Fairness

-----------------------------------------------------------------------------
PCs == {"new", "bind", "start", "admit", "refuse", "enqueue", "wait", "done"}

(***************************************************************************)
(* Type invariant of the registry and of the jobs it controls; no counter  *)
(* is ever negative.                                                       *)
(***************************************************************************)
TypeOK ==
    /\ state \in [Jobs -> JobStates]
    /\ carrier \in [Jobs -> {"none", "launching", "alive", "gone"}]
    /\ listening \subseteq Jobs
    /\ records \subseteq Jobs
    /\ queuedAt \in [Jobs -> Nat]
    /\ admitted \subseteq Jobs
    /\ terminal \subseteq Jobs
    /\ lease \in [Jobs -> {"none", "counted", "uncounted", "released"}]
    /\ running \in [Counter -> Nat]
    /\ queue \subseteq Jobs
    /\ enqueuedAt \in [Jobs -> Nat]
    /\ closedScopes \subseteq Scopes
    /\ pc \in [Jobs -> PCs]
    /\ unnotified \subseteq Jobs
    /\ toStart \in [Starters -> SUBSET Jobs]

(***************************************************************************)
(* Every counter is the number of counted leases not yet released in it:   *)
(* no admission, drain, release or race between them makes _running,       *)
(* _running_by_session or _running_by_thread drift from the leases         *)
(* (_admit_locked, _on_terminal).                                          *)
(***************************************************************************)
SlotAccounting ==
    \A c \in Counter :
        running[c] = Cardinality({j \in Jobs : lease[j] = "counted" /\ c \in Counters(j)})

(***************************************************************************)
(* A job that is executing holds a lease that was not released, so its     *)
(* children may inherit it: nothing gives a slot back before the carrier   *)
(* has ended (_on_terminal, _start_jobs).                                  *)
(***************************************************************************)
RunningHoldsLease ==
    \A j \in Jobs : state[j] = "running" => j \in Held(lease)

(***************************************************************************)
(* A job that got as far as running has given its slot back once the       *)
(* registry handled its end, whatever cancellations, timeouts and failed   *)
(* launches raced with it (_on_terminal).                                  *)
(***************************************************************************)
StartedJobGivesSlotBack ==
    \A j \in terminal : carrier[j] # "none" => lease[j] = "released"

(***************************************************************************)
(* Within one owner the queue is first in, first out: a job is never taken *)
(* out of the queue to run while an older one that counts against the same *)
(* limits stays behind (_drain_queue_locked).                              *)
(***************************************************************************)
QueueOrder ==
    [][\A p, q \in queue :
          /\ enqueuedAt[p] < enqueuedAt[q]
          /\ Counters(p) = Counters(q)
          /\ p \in queue'
          => q \notin admitted' ]_vars

(***************************************************************************)
(* Draining the queue never lifts a counter above its cap: only the        *)
(* unlocked gap between decision and admission of a direct start can       *)
(* (_drain_queue_locked, _finish_admission).                               *)
(***************************************************************************)
DrainRespectsCaps ==
    [][\A c \in Counter :
          running'[c] > running[c] =>
             \/ running'[c] <= Limits(c).max_running
             \/ \E j \in Jobs : pc[j] = "admit" /\ pc'[j] = "done" ]_vars

(***************************************************************************)
(* The slot of a job whose carrier has ended is eventually released, unless*)
(* its record was dropped first (_notify, _on_terminal).                   *)
(***************************************************************************)
SlotEventuallyReleased ==
    \A j \in Jobs :
        (carrier[j] = "gone") ~> (lease[j] = "released" \/ j \notin records)

(***************************************************************************)
(* scheduling.py: leases guarantee "a slot is released exactly once when a *)
(* job reaches a terminal state".                                          *)
(***************************************************************************)
SlotReleasedAtTerminal == \A j \in terminal : j \notin Held(lease)

=============================================================================
