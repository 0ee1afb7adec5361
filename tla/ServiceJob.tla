----------------------------- MODULE ServiceJob -----------------------------
(***************************************************************************)
(* ServiceJob of backend/src/jobs/service_job.py: the supervisor thread    *)
(* that starts, probes, rebuilds and gives up a long-lived service, against*)
(* threads that cancel the job and a transport that reports call results.  *)
(*                                                                         *)
(* A step is one section of the job lock or one call of the driver, which  *)
(* is external: start returns a new handle or raises, check answers        *)
(* anything.  Handles are numbered by generation.                          *)
(***************************************************************************)
EXTENDS Integers, FiniteSets

CONSTANTS
    Cancellers,     \* threads that call Job.cancel, once each
    MaxFailures,    \* max_failures
    MaxRestarts     \* max_restarts

ASSUME BudgetAssumption == MaxFailures \in Nat \ {0} /\ MaxRestarts \in Nat

VARIABLES
    state,            \* Job._state
    cancelRequested,  \* cancel_requested_at is set
    cancelWakeup,     \* the event _cancel_wakeup
    forceRebuild,     \* the event _force_rebuild
    health,
    rebuilds,         \* _rebuild_count
    failures,         \* consecutive_failures, local to _serve
    external,         \* _external_failures, counted up to MaxFailures + 1
    started,          \* generations the driver has started
    active,           \* _active_handle; 0 is None
    marked,           \* _stopped_handles
    stopCalls,        \* how often driver.stop ran, per handle
    sup,              \* where the supervisor thread is
    canceller,        \* where each canceller is
    held,             \* the handle it read
    caller            \* where the transport's report is

Handles == 1..(MaxRestarts + 1)

counters == <<rebuilds, failures, external>>
instances == <<started, active, marked, stopCalls>>
events == <<cancelRequested, cancelWakeup, forceRebuild>>
others == <<canceller, held, caller>>
vars == <<state, events, health, counters, instances, sup, others>>

Init ==
    /\ state = "pending"
    /\ cancelRequested = FALSE /\ cancelWakeup = FALSE /\ forceRebuild = FALSE
    /\ health = "down"
    /\ rebuilds = 0 /\ failures = 0 /\ external = 0
    /\ started = 0 /\ active = 0 /\ marked = {}
    /\ stopCalls = [h \in Handles |-> 0]
    /\ sup = "none"
    /\ canceller = [c \in Cancellers |-> "idle"]
    /\ held = [c \in Cancellers |-> 0]
    /\ caller = "idle"

-----------------------------------------------------------------------------
SetHealth(h) == health' = h

KeepHealth == UNCHANGED health

Goto(label) == sup' = label

(***************************************************************************)
(* start: the job is running and the supervisor thread is launched.        *)
(***************************************************************************)
start ==
    /\ state = "pending"
    /\ state' = "running"
    /\ Goto("start")
    /\ KeepHealth /\ UNCHANGED <<events, counters, instances, others>>

(***************************************************************************)
(* _start_instance: the driver starts an instance, its handle is published *)
(* as the active one, and a cancellation seen then stops it at once.       *)
(***************************************************************************)
driver_start ==
    /\ sup = "start"
    /\ started' = started + 1
    /\ Goto("publish")
    /\ KeepHealth /\ UNCHANGED <<state, events, counters, active, marked, stopCalls, others>>

driver_start_raises ==
    /\ sup = "start"
    /\ state' = "failed"
    /\ Goto("exited")
    /\ KeepHealth /\ UNCHANGED <<events, counters, instances, others>>

publish_handle ==
    /\ sup = "publish"
    /\ active' = started
    /\ Goto("started")
    /\ KeepHealth /\ UNCHANGED <<state, events, counters, started, marked, stopCalls, others>>

NeverLooksForACancel ==
    /\ sup = "started"
    /\ Goto("init")
    /\ KeepHealth /\ UNCHANGED <<state, events, counters, instances, others>>

start_instance_checks_cancel ==
    /\ sup = "started"
    /\ Goto(IF cancelRequested THEN "abort" ELSE "init")
    /\ KeepHealth /\ UNCHANGED <<state, events, counters, instances, others>>

(***************************************************************************)
(* _stop_handle: the handle is marked under the lock, and only the thread  *)
(* that marked it calls driver.stop.                                       *)
(***************************************************************************)
MarksWithoutLooking(h, thenStop, already) ==
    /\ marked' = marked \cup {h}
    /\ thenStop

stop_handle(h, thenStop, already) ==
    /\ marked' = marked \cup {h}
    /\ IF h \in marked THEN already ELSE thenStop

DriverStop(h) == stopCalls' = [stopCalls EXCEPT ![h] = @ + 1]

abort_start ==
    /\ sup = "abort"
    /\ stop_handle(active, Goto("abort_stop"), Goto("aborted"))
    /\ KeepHealth /\ UNCHANGED <<state, events, counters, started, active, stopCalls, others>>

abort_start_stops ==
    /\ sup = "abort_stop"
    /\ DriverStop(active)
    /\ Goto("aborted")
    /\ KeepHealth /\ UNCHANGED <<state, events, counters, started, active, marked, others>>

mark_aborted ==
    /\ sup = "aborted"
    /\ active' = 0
    /\ state' = "cancelled"
    /\ Goto("exited")
    /\ KeepHealth /\ UNCHANGED <<events, counters, started, marked, stopCalls, others>>

(***************************************************************************)
(* _initialize: probes until one succeeds, the job is cancelled or the     *)
(* deadline passes; a cancellation may come while a probe is under way.    *)
(* The first instance must make it; a rebuilt one that does not goes back  *)
(* to the probe loop.                                                      *)
(***************************************************************************)
initialize_succeeds ==
    /\ sup = "init"
    /\ SetHealth("healthy")
    /\ failures' = 0
    /\ Goto("loop")
    /\ UNCHANGED <<state, events, rebuilds, external, instances, others>>

initialize_fails ==
    /\ sup = "init"
    /\ \/ /\ started = 1 /\ cancelRequested
          /\ Goto("exited") /\ state' = "cancelled"
       \/ /\ started = 1 /\ ~ cancelRequested
          /\ Goto("give_up") /\ UNCHANGED state
       \/ /\ started > 1
          /\ Goto("loop") /\ UNCHANGED state
    /\ KeepHealth /\ UNCHANGED <<events, counters, instances, others>>

(***************************************************************************)
(* The loop of _serve.  A wake-up or a cancellation ends it.               *)
(***************************************************************************)
RunsOnWhenCancelled ==
    /\ sup = "loop"
    /\ Goto("check")
    /\ forceRebuild' = FALSE
    /\ failures' = IF forceRebuild THEN MaxFailures + 1 ELSE failures
    /\ KeepHealth
    /\ UNCHANGED <<state, cancelRequested, cancelWakeup, rebuilds, external, instances, others>>

serve_wakes ==
    /\ sup = "loop"
    /\ IF cancelWakeup \/ cancelRequested
       THEN /\ Goto("shutdown")
            /\ UNCHANGED <<forceRebuild, failures>>
       ELSE /\ Goto("check")
            /\ forceRebuild' = FALSE
            /\ failures' = IF forceRebuild THEN MaxFailures + 1 ELSE failures
    /\ KeepHealth
    /\ UNCHANGED <<state, cancelRequested, cancelWakeup, rebuilds, external, instances, others>>

check_passes ==
    /\ sup = "check"
    /\ failures' = 0
    /\ Goto(IF health = "degraded" THEN "recovered" ELSE "loop")
    /\ KeepHealth /\ UNCHANGED <<state, events, rebuilds, external, instances, others>>

set_recovered ==
    /\ sup = "recovered"
    /\ SetHealth("healthy")
    /\ Goto("loop")
    /\ UNCHANGED <<state, events, counters, instances, others>>

check_fails ==
    /\ sup = "check"
    /\ failures' = failures + 1
    /\ Goto(IF failures + 1 > MaxFailures THEN "rebuild" ELSE "loop")
    /\ IF failures + 1 = MaxFailures THEN SetHealth("degraded") ELSE KeepHealth
    /\ UNCHANGED <<state, events, rebuilds, external, instances, others>>

(***************************************************************************)
(* Giving an instance up: when the first one never became healthy          *)
(* ("give_up"), and for a rebuild.  The rebuild budget is looked at after  *)
(* the old instance has been stopped.                                      *)
(***************************************************************************)
stop_instance ==
    /\ sup \in {"give_up", "rebuild"}
    /\ stop_handle(active, Goto(IF sup = "rebuild" THEN "rebuild_stop" ELSE "give_up_stop"),
                           Goto(IF sup = "rebuild" THEN "stopped" ELSE "given_up"))
    /\ KeepHealth /\ UNCHANGED <<state, events, counters, started, active, stopCalls, others>>

stop_instance_calls_driver ==
    /\ sup \in {"give_up_stop", "rebuild_stop"}
    /\ DriverStop(active)
    /\ Goto(IF sup = "rebuild_stop" THEN "stopped" ELSE "given_up")
    /\ KeepHealth /\ UNCHANGED <<state, events, counters, started, active, marked, others>>

OneRebuildTooMany ==
    /\ sup = "stopped"
    /\ IF rebuilds > MaxRestarts
       THEN /\ Goto("given_up")
            /\ UNCHANGED counters
       ELSE /\ rebuilds' = rebuilds + 1
            /\ failures' = 0
            /\ Goto("start")
            /\ UNCHANGED external
    /\ UNCHANGED <<state, events, health, instances, others>>

rebuild ==
    /\ sup = "stopped"
    /\ IF rebuilds >= MaxRestarts
       THEN /\ Goto("given_up")
            /\ UNCHANGED counters
       ELSE /\ rebuilds' = rebuilds + 1
            /\ failures' = 0
            /\ Goto("start")
            /\ UNCHANGED external
    /\ UNCHANGED <<state, events, health, instances, others>>

set_down ==
    /\ sup \in {"given_up", "shutdown"}
    /\ SetHealth("down")
    /\ Goto(IF sup = "given_up" THEN "mark_failed" ELSE "mark_cancelled")
    /\ UNCHANGED <<state, events, counters, instances, others>>

mark_terminal ==
    /\ sup \in {"mark_failed", "mark_cancelled"}
    /\ state' = IF sup = "mark_failed" THEN "failed" ELSE "cancelled"
    /\ Goto("exited")
    /\ KeepHealth /\ UNCHANGED <<events, counters, instances, others>>

-----------------------------------------------------------------------------
(***************************************************************************)
(* Job.cancel and _request_cancel: note the request, wake the supervisor,  *)
(* read the active handle, stop it.                                        *)
(***************************************************************************)
CancellerAt(c, label) == canceller' = [canceller EXCEPT ![c] = label]

cancel(c) ==
    /\ canceller[c] = "idle"
    /\ state' = IF state = "pending" THEN "cancelled" ELSE state
    /\ cancelRequested' = (cancelRequested \/ state = "running")
    /\ CancellerAt(c, IF state = "running" THEN "wake" ELSE "done")
    /\ KeepHealth
    /\ UNCHANGED <<cancelWakeup, forceRebuild, counters, instances, sup, held, caller>>

request_cancel_wakes(c) ==
    /\ canceller[c] = "wake"
    /\ cancelWakeup' = TRUE
    /\ CancellerAt(c, "read")
    /\ KeepHealth
    /\ UNCHANGED <<state, cancelRequested, forceRebuild, counters, instances, sup, held, caller>>

request_cancel_reads(c) ==
    /\ canceller[c] = "read"
    /\ held' = [held EXCEPT ![c] = active]
    /\ CancellerAt(c, IF active = 0 THEN "done" ELSE "mark")
    /\ KeepHealth /\ UNCHANGED <<state, events, counters, instances, sup, caller>>

request_cancel_marks(c) ==
    /\ canceller[c] = "mark"
    /\ stop_handle(held[c], CancellerAt(c, "stop"), CancellerAt(c, "done"))
    /\ KeepHealth
    /\ UNCHANGED <<state, events, counters, started, active, stopCalls, sup, held, caller>>

request_cancel_stops(c) ==
    /\ canceller[c] = "stop"
    /\ DriverStop(held[c])
    /\ CancellerAt(c, "done")
    /\ KeepHealth
    /\ UNCHANGED <<state, events, counters, started, active, marked, sup, held, caller>>

(***************************************************************************)
(* report_failure and report_success of the transport, section by section. *)
(* Only whether the count reaches or exceeds MaxFailures matters, so it is *)
(* kept up to MaxFailures + 1.  The transport exists once an instance does.*)
(***************************************************************************)
report_failure ==
    /\ caller = "idle" /\ started > 0
    /\ external' = IF external > MaxFailures THEN external ELSE external + 1
    /\ caller' = IF external + 1 > MaxFailures THEN "degrade_and_force"
                 ELSE IF external + 1 = MaxFailures THEN "degrade" ELSE "idle"
    /\ KeepHealth
    /\ UNCHANGED <<state, events, rebuilds, failures, instances, sup, canceller, held>>

report_failure_degrades ==
    /\ caller \in {"degrade", "degrade_and_force"}
    /\ SetHealth("degraded")
    /\ caller' = IF caller = "degrade" THEN "idle" ELSE "force"
    /\ UNCHANGED <<state, events, counters, instances, sup, canceller, held>>

report_failure_forces ==
    /\ caller = "force"
    /\ forceRebuild' = TRUE
    /\ caller' = "idle"
    /\ KeepHealth
    /\ UNCHANGED <<state, cancelRequested, cancelWakeup, counters, instances, sup, canceller, held>>

report_success ==
    /\ caller = "idle" /\ started > 0
    /\ external' = 0
    /\ caller' = "succeeded"
    /\ KeepHealth
    /\ UNCHANGED <<state, events, rebuilds, failures, instances, sup, canceller, held>>

report_success_reads_health ==
    /\ caller = "succeeded"
    /\ caller' = IF health = "degraded" THEN "recover" ELSE "idle"
    /\ KeepHealth
    /\ UNCHANGED <<state, events, counters, instances, sup, canceller, held>>

report_success_recovers ==
    /\ caller = "recover"
    /\ SetHealth("healthy")
    /\ caller' = "idle"
    /\ UNCHANGED <<state, events, counters, instances, sup, canceller, held>>

-----------------------------------------------------------------------------
Supervisor ==
    \/ driver_start \/ publish_handle \/ start_instance_checks_cancel
    \/ abort_start \/ abort_start_stops \/ mark_aborted
    \/ initialize_succeeds \/ initialize_fails
    \/ serve_wakes \/ check_passes \/ set_recovered \/ check_fails
    \/ stop_instance \/ stop_instance_calls_driver \/ rebuild
    \/ set_down \/ mark_terminal

Cancel(c) ==
    \/ request_cancel_wakes(c) \/ request_cancel_reads(c)
    \/ request_cancel_marks(c) \/ request_cancel_stops(c)

Transport ==
    \/ report_failure \/ report_failure_degrades \/ report_failure_forces
    \/ report_success \/ report_success_reads_health \/ report_success_recovers

Next ==
    \/ start \/ Supervisor \/ driver_start_raises \/ Transport
    \/ \E c \in Cancellers : cancel(c) \/ Cancel(c)

Spec == Init /\ [][Next]_vars

(***************************************************************************)
(* Fairness: the threads are scheduled and the driver's calls return.      *)
(* Nobody has to start, cancel or use the service.                         *)
(***************************************************************************)
FairSpec == Spec /\ WF_vars(Supervisor) /\ \A c \in Cancellers : WF_vars(Cancel(c))

-----------------------------------------------------------------------------
SupervisorAt ==
    {"none", "start", "publish", "started", "abort", "abort_stop", "aborted", "init", "loop",
     "check", "recovered", "rebuild", "rebuild_stop", "stopped", "give_up", "give_up_stop",
     "given_up", "shutdown", "mark_failed", "mark_cancelled", "exited"}

(***************************************************************************)
(* Type invariant; the rebuild budget bounds the generations, and a handle *)
(* somebody is about to stop exists.                                       *)
(***************************************************************************)
TypeOK ==
    /\ state \in {"pending", "running", "failed", "cancelled"}
    /\ cancelRequested \in BOOLEAN /\ cancelWakeup \in BOOLEAN /\ forceRebuild \in BOOLEAN
    /\ health \in {"healthy", "degraded", "down"}
    /\ rebuilds \in 0..MaxRestarts
    /\ failures \in 0..(MaxFailures + 2)
    /\ external \in 0..(MaxFailures + 1)
    /\ started \in 0..(MaxRestarts + 1)
    /\ active \in 0..started
    /\ marked \subseteq 1..started
    /\ stopCalls \in [Handles -> Nat]
    /\ sup \in SupervisorAt
    /\ canceller \in [Cancellers -> {"idle", "wake", "read", "mark", "stop", "done"}]
    /\ held \in [Cancellers -> 0..started]
    /\ caller \in {"idle", "degrade", "degrade_and_force", "force", "succeeded", "recover"}

(***************************************************************************)
(* "Each generation handle is stopped exactly once", the at most half:     *)
(* however cancellations and rebuilds overlap, driver.stop is never called *)
(* twice for an instance (_stop_handle).                                   *)
(***************************************************************************)
StoppedOnce == \A h \in Handles : stopCalls[h] <= 1

(***************************************************************************)
(* The at least half: "cancelling mid-rebuild never leaks an instance".    *)
(* When the supervisor has exited and no canceller is on its way, every    *)
(* instance the driver started has been stopped (_start_instance,          *)
(* _request_cancel, _serve).                                               *)
(***************************************************************************)
NoInstanceLeaks ==
    (/\ sup = "exited"
     /\ \A c \in Cancellers : canceller[c] \in {"idle", "done"})
    => \A h \in 1..started : stopCalls[h] = 1

(***************************************************************************)
(* A cancellation of a running service is carried through: the job ends,   *)
(* wherever the supervisor was (_serve).                                   *)
(***************************************************************************)
CancelTakesEffect == cancelRequested ~> (state \in {"failed", "cancelled"})

(***************************************************************************)
(* base.py, Job.cancel: "so a job is never marked cancelled while its      *)
(* carrier is still alive".                                                *)
(***************************************************************************)
CancelledMeansStopped ==
    state = "cancelled" => \A h \in 1..started : stopCalls[h] >= 1

=============================================================================
