-------------------------- MODULE ServiceJobProofs --------------------------
(***************************************************************************)
(* Every instance of a supervised service is stopped exactly once, for any *)
(* number of cancelling threads and any failure and rebuild budget.        *)
(***************************************************************************)
EXTENDS ServiceJob, TLAPS

(***************************************************************************)
(* The supervisor is about to call driver.stop for the active handle.      *)
(***************************************************************************)
SupervisorStops == sup \in {"abort_stop", "give_up_stop", "rebuild_stop"}

(***************************************************************************)
(* A marked handle has exactly one thread that stops it or has stopped it. *)
(***************************************************************************)
OneStopper ==
    /\ \A h \in Handles : h \notin marked => stopCalls[h] = 0
    /\ \A c \in Cancellers : canceller[c] = "stop" =>
          held[c] \in marked /\ stopCalls[held[c]] = 0
    /\ SupervisorStops => active \in marked /\ stopCalls[active] = 0
    /\ \A c, d \in Cancellers :
          canceller[c] = "stop" /\ canceller[d] = "stop" /\ held[c] = held[d] => c = d
    /\ \A c \in Cancellers : canceller[c] = "stop" /\ SupervisorStops => held[c] # active
    /\ \A h \in marked :
          \/ stopCalls[h] = 1
          \/ SupervisorStops /\ active = h
          \/ \E c \in Cancellers : canceller[c] = "stop" /\ held[c] = h

(***************************************************************************)
(* What the place of the supervisor says about the generations.            *)
(***************************************************************************)
Generations ==
    /\ state = "pending" => sup = "none"
    /\ sup \in {"none", "start"} => active = started /\ started = rebuilds
    /\ sup = "none" => started = 0
    /\ sup = "publish" => started = rebuilds + 1 /\ active = started - 1
    /\ sup \notin {"none", "start", "publish", "exited"} =>
          active = started /\ started = rebuilds + 1
    /\ started <= rebuilds + 1
    /\ sup \in {"none", "start", "publish", "started", "init", "recovered"} => failures = 0
    /\ sup = "check" => failures <= MaxFailures + 1
    /\ sup # "check" => failures <= MaxFailures + 2
    /\ sup = "loop" => failures <= MaxFailures

(***************************************************************************)
(* Who takes care of an instance that is not marked: it is the last one,   *)
(* and the supervisor still has it, or a cancellation was requested.       *)
(***************************************************************************)
Unmarked ==
    /\ \A h \in 1..started : h < started => h \in marked
    /\ sup \in {"start", "abort_stop", "aborted", "rebuild_stop", "stopped", "give_up_stop",
                "given_up", "mark_failed"} => 1..started \subseteq marked
    /\ sup = "exited" =>
          \A h \in 1..started : h \in marked \/ (h = active /\ cancelRequested)
    /\ sup \in {"shutdown", "mark_cancelled", "abort"} => cancelRequested
    /\ cancelWakeup => cancelRequested

(***************************************************************************)
(* After a request, an active instance that is not marked has a canceller  *)
(* on its way to it, unless the supervisor is about to look.               *)
(***************************************************************************)
CancellerComes ==
    /\ \A c \in Cancellers : canceller[c] \in {"wake", "read", "mark", "stop"} => cancelRequested
    /\ \A c \in Cancellers : canceller[c] \in {"mark", "stop"} => held[c] >= 1
    /\ (/\ cancelRequested
        /\ active >= 1
        /\ active \notin marked
        /\ sup \notin {"publish", "started", "abort"})
       => \E c \in Cancellers :
             \/ canceller[c] \in {"wake", "read"}
             \/ canceller[c] = "mark" /\ held[c] = active

Inv == TypeOK /\ OneStopper /\ Generations /\ Unmarked /\ CancellerComes

(***************************************************************************)
(* The invariant is preserved by every step of every thread.               *)
(***************************************************************************)
LEMMA InvStep == Inv /\ [Next]_vars => Inv'
<1> SUFFICES ASSUME Inv, [Next]_vars PROVE Inv'
  OBVIOUS
<1> USE BudgetAssumption DEF Inv, TypeOK, OneStopper, Generations, Unmarked, CancellerComes,
        SupervisorStops, SupervisorAt, Handles, SetHealth, KeepHealth, Goto, counters, instances, events, others
<1>1. CASE driver_start
  BY <1>1 DEF driver_start
<1>2. CASE driver_start_raises
  BY <1>2 DEF driver_start_raises
<1>3. CASE publish_handle
  BY <1>3 DEF publish_handle
<1>4. CASE start_instance_checks_cancel
  BY <1>4 DEF start_instance_checks_cancel
<1>5. CASE abort_start
  <2> HIDE DEF OneStopper, Generations, Unmarked, CancellerComes
  <2>1. TypeOK'
    BY <1>5 DEF abort_start, stop_handle, Generations
  <2>2. OneStopper'
    <3>1. CASE active \in marked
      <4>1. marked' = marked /\ sup' = "aborted" /\ UNCHANGED <<active, stopCalls, canceller, held>>
        BY <1>5, <3>1 DEF abort_start, stop_handle
      <4> QED
        BY <1>5, <4>1 DEF abort_start, OneStopper
    <3>2. CASE active \notin marked
      BY <1>5, <3>2 DEF abort_start, stop_handle, OneStopper, Generations
    <3> QED
      BY <3>1, <3>2
  <2>3. Generations'
    BY <1>5 DEF abort_start, stop_handle, Generations
  <2>4. Unmarked'
    BY <1>5 DEF abort_start, stop_handle, Unmarked, Generations
  <2>5. CancellerComes'
    BY <1>5 DEF abort_start, stop_handle, CancellerComes, Unmarked, Generations
  <2> QED
    BY <2>1, <2>2, <2>3, <2>4, <2>5
<1>6. CASE abort_start_stops
  BY <1>6 DEF abort_start_stops, DriverStop
<1>7. CASE mark_aborted
  BY <1>7 DEF mark_aborted
<1>8. CASE initialize_succeeds
  BY <1>8 DEF initialize_succeeds
<1>9. CASE initialize_fails
  BY <1>9 DEF initialize_fails
<1>10. CASE serve_wakes
  <2>1. CASE cancelWakeup \/ cancelRequested
    BY <1>10, <2>1, SMTT(30) DEF serve_wakes
  <2>2. CASE ~ (cancelWakeup \/ cancelRequested)
    <3> HIDE DEF OneStopper, Generations, Unmarked, CancellerComes
    <3>1. TypeOK'
      <4>1. failures' \in 0..(MaxFailures + 2) /\ forceRebuild' = FALSE /\ sup' = "check"
        BY <1>10, <2>2 DEF serve_wakes
      <4>2. /\ UNCHANGED <<state, cancelRequested, cancelWakeup, health>>
            /\ UNCHANGED <<rebuilds, external, instances, others>>
        BY <1>10 DEF serve_wakes
      <4> QED
        BY <4>1, <4>2
    <3>2. OneStopper'
      BY <1>10, <2>2 DEF serve_wakes, OneStopper
    <3>3. Generations'
      BY <1>10, <2>2 DEF serve_wakes, Generations
    <3>4. Unmarked'
      BY <1>10, <2>2 DEF serve_wakes, Unmarked, Generations
    <3>5. CancellerComes'
      BY <1>10, <2>2 DEF serve_wakes, CancellerComes, Unmarked, Generations
    <3> QED
      BY <3>1, <3>2, <3>3, <3>4, <3>5
  <2> QED
    BY <2>1, <2>2
<1>11. CASE check_passes
  BY <1>11 DEF check_passes
<1>12. CASE set_recovered
  BY <1>12 DEF set_recovered
<1>13. CASE check_fails
  BY <1>13 DEF check_fails
<1>14. CASE stop_instance
  BY <1>14 DEF stop_instance, stop_handle
<1>15. CASE stop_instance_calls_driver
  BY <1>15 DEF stop_instance_calls_driver, DriverStop
<1>16. CASE rebuild
  <2>1. CASE rebuilds >= MaxRestarts
    BY <1>16, <2>1 DEF rebuild
  <2>2. CASE ~ (rebuilds >= MaxRestarts)
    <3> HIDE DEF OneStopper, Generations, Unmarked, CancellerComes
    <3>1. TypeOK'
      BY <1>16, <2>2 DEF rebuild, Generations
    <3>2. OneStopper'
      BY <1>16, <2>2 DEF rebuild, OneStopper
    <3>3. Generations'
      BY <1>16, <2>2 DEF rebuild, Generations
    <3>4. Unmarked'
      BY <1>16, <2>2 DEF rebuild, Unmarked, Generations
    <3>5. CancellerComes'
      BY <1>16, <2>2 DEF rebuild, CancellerComes, Unmarked, Generations
    <3> QED
      BY <3>1, <3>2, <3>3, <3>4, <3>5
  <2> QED
    BY <2>1, <2>2
<1>17. CASE set_down
  BY <1>17 DEF set_down
<1>18. CASE mark_terminal
  BY <1>18 DEF mark_terminal
<1>19. CASE start
  BY <1>19 DEF start
<1>20. ASSUME NEW c \in Cancellers, cancel(c) PROVE Inv'
  <2>1. CASE state = "running"
    <3> HIDE DEF OneStopper, Generations, Unmarked, CancellerComes
    <3>1. TypeOK'
      BY <1>20, <2>1 DEF cancel, CancellerAt
    <3>2. OneStopper'
      BY <1>20, <2>1 DEF cancel, CancellerAt, OneStopper
    <3>3. Generations'
      BY <1>20, <2>1 DEF cancel, CancellerAt, Generations
    <3>4. Unmarked'
      BY <1>20, <2>1 DEF cancel, CancellerAt, Unmarked, Generations
    <3>5. CancellerComes'
      BY <1>20, <2>1 DEF cancel, CancellerAt, CancellerComes, Unmarked, Generations
    <3> QED
      BY <3>1, <3>2, <3>3, <3>4, <3>5
  <2>2. CASE state # "running"
    BY <1>20, <2>2 DEF cancel, CancellerAt
  <2> QED
    BY <2>1, <2>2
<1>21. ASSUME NEW c \in Cancellers, request_cancel_wakes(c) PROVE Inv'
  BY <1>21 DEF request_cancel_wakes, CancellerAt
<1>22. ASSUME NEW c \in Cancellers, request_cancel_reads(c) PROVE Inv'
  BY <1>22 DEF request_cancel_reads, CancellerAt
<1>23. ASSUME NEW c \in Cancellers, request_cancel_marks(c) PROVE Inv'
  <2>1. CASE held[c] \in marked
    <3> HIDE DEF OneStopper, Generations, Unmarked, CancellerComes
    <3>1. TypeOK'
      <4>1. marked' = marked /\ canceller' = [canceller EXCEPT ![c] = "done"]
        BY <1>23, <2>1 DEF request_cancel_marks, CancellerAt, stop_handle
      <4>2. /\ UNCHANGED <<state, cancelRequested, cancelWakeup, forceRebuild, health>>
            /\ UNCHANGED <<counters, started, active, stopCalls, sup, held, caller>>
        BY <1>23 DEF request_cancel_marks
      <4> QED
        BY <4>1, <4>2
    <3>2. OneStopper'
      BY <1>23, <2>1 DEF request_cancel_marks, CancellerAt, stop_handle, OneStopper
    <3>3. Generations'
      BY <1>23, <2>1 DEF request_cancel_marks, CancellerAt, stop_handle, Generations
    <3>4. Unmarked'
      BY <1>23, <2>1 DEF request_cancel_marks, CancellerAt, stop_handle, Unmarked, Generations
    <3>5. CancellerComes'
      BY <1>23, <2>1 DEF request_cancel_marks, CancellerAt, stop_handle, CancellerComes, Unmarked, Generations
    <3> QED
      BY <3>1, <3>2, <3>3, <3>4, <3>5
  <2>2. CASE held[c] \notin marked
    <3> HIDE DEF OneStopper, Generations, Unmarked, CancellerComes
    <3>1. TypeOK'
      <4>1. held[c] \in 1..started
        BY <1>23 DEF request_cancel_marks, CancellerComes
      <4> QED
        <5>1. marked' = marked \cup {held[c]} /\ canceller' = [canceller EXCEPT ![c] = "stop"]
          BY <1>23, <2>2 DEF request_cancel_marks, CancellerAt, stop_handle
        <5>2. /\ UNCHANGED <<state, cancelRequested, cancelWakeup, forceRebuild, health>>
              /\ UNCHANGED <<counters, started, active, stopCalls, sup, held, caller>>
          BY <1>23 DEF request_cancel_marks
        <5>3. /\ marked' \subseteq 1..started'
              /\ canceller' \in [Cancellers -> {"idle", "wake", "read", "mark", "stop", "done"}]
          BY <4>1, <5>1, <5>2
        <5> QED
          BY <5>2, <5>3
    <3>2. OneStopper'
      BY <1>23, <2>2 DEF request_cancel_marks, CancellerAt, stop_handle, OneStopper, CancellerComes
    <3>3. Generations'
      BY <1>23, <2>2 DEF request_cancel_marks, CancellerAt, stop_handle, Generations
    <3>4. Unmarked'
      BY <1>23, <2>2 DEF request_cancel_marks, CancellerAt, stop_handle, Unmarked, Generations
    <3>5. CancellerComes'
      BY <1>23, <2>2 DEF request_cancel_marks, CancellerAt, stop_handle, CancellerComes, Unmarked, Generations
    <3> QED
      BY <3>1, <3>2, <3>3, <3>4, <3>5
  <2> QED
    BY <2>1, <2>2
<1>24. ASSUME NEW c \in Cancellers, request_cancel_stops(c) PROVE Inv'
  BY <1>24 DEF request_cancel_stops, CancellerAt, DriverStop
<1>25. CASE Transport
  <2> HIDE DEF OneStopper, Generations, Unmarked, CancellerComes
  <2>1. /\ UNCHANGED <<state, cancelRequested, cancelWakeup, rebuilds, failures, instances, sup,
                       canceller, held>>
        /\ health' \in {"healthy", "degraded", "down"}
        /\ external' \in 0..(MaxFailures + 1)
        /\ caller' \in {"idle", "degrade", "degrade_and_force", "force", "succeeded", "recover"}
        /\ forceRebuild' \in BOOLEAN
    <3>1. CASE report_failure
      BY <3>1 DEF report_failure
    <3>2. CASE report_success \/ report_success_reads_health
      BY <3>2 DEF report_success, report_success_reads_health
    <3>3. CASE report_failure_degrades \/ report_success_recovers
      BY <3>3 DEF report_failure_degrades, report_success_recovers
    <3>4. CASE report_failure_forces
      BY <3>4 DEF report_failure_forces
    <3> QED
      BY <1>25, <3>1, <3>2, <3>3, <3>4 DEF Transport
  <2>2. TypeOK' /\ Generations'
    BY <2>1 DEF Generations
  <2>3. OneStopper' /\ Unmarked' /\ CancellerComes'
    BY <2>1 DEF OneStopper, Unmarked, CancellerComes
  <2> QED
    BY <2>2, <2>3
<1>26. CASE UNCHANGED vars
  BY <1>26 DEF vars
<1> QED
  BY <1>1, <1>2, <1>3, <1>4, <1>5, <1>6, <1>7, <1>8, <1>9, <1>10, <1>11, <1>12, <1>13, <1>14, <1>15, <1>16, <1>17, <1>18, <1>19, <1>20, <1>21, <1>22, <1>23, <1>24, <1>25, <1>26 DEF Next, Supervisor, Cancel

(***************************************************************************)
(* No instance is stopped twice, and when the supervisor has exited and no *)
(* canceller is on its way every instance has been stopped: cancelling     *)
(* mid-rebuild leaks nothing (_stop_handle, _start_instance).              *)
(***************************************************************************)
THEOREM InstancesStoppedExactlyOnce == Spec => [](TypeOK /\ StoppedOnce /\ NoInstanceLeaks)
<1>1. Init => Inv
  <2> SUFFICES ASSUME Init PROVE Inv
    OBVIOUS
  <2> USE BudgetAssumption DEF Init
  <2>1. TypeOK
    <3>1. /\ stopCalls \in [Handles -> Nat]
          /\ canceller \in [Cancellers -> {"idle", "wake", "read", "mark", "stop", "done"}]
          /\ held \in [Cancellers -> 0..started]
      OBVIOUS
    <3>2. /\ rebuilds \in 0..MaxRestarts
          /\ failures \in 0..(MaxFailures + 2) /\ external \in 0..(MaxFailures + 1)
          /\ started \in 0..(MaxRestarts + 1) /\ active \in 0..started
      OBVIOUS
    <3> QED
      BY <3>1, <3>2 DEF TypeOK, SupervisorAt
  <2>2. OneStopper
    BY DEF OneStopper, SupervisorStops
  <2>3. Generations /\ Unmarked /\ CancellerComes
    BY DEF Generations, Unmarked, CancellerComes
  <2> QED
    BY <2>1, <2>2, <2>3 DEF Inv
<1>2. Inv => TypeOK /\ StoppedOnce /\ NoInstanceLeaks
  <2> SUFFICES ASSUME Inv PROVE StoppedOnce /\ NoInstanceLeaks
    BY DEF Inv
  <2>1. \A h \in Handles : stopCalls[h] <= 1
    <3>1. \A h \in Handles : stopCalls[h] \in {0, 1}
      <4> SUFFICES ASSUME NEW h \in Handles PROVE stopCalls[h] \in {0, 1}
        OBVIOUS
      <4>1. CASE h \notin marked
        BY <4>1 DEF Inv, OneStopper
      <4>2. CASE \E c \in Cancellers : canceller[c] = "stop" /\ held[c] = h
        BY <4>2 DEF Inv, OneStopper
      <4>3. CASE SupervisorStops /\ active = h
        BY <4>3 DEF Inv, OneStopper
      <4> QED
        BY <4>1, <4>2, <4>3 DEF Inv, OneStopper
    <3> QED
      BY <3>1
  <2> USE DEF Inv, TypeOK, OneStopper
  <2>2. ASSUME sup = "exited", \A c \in Cancellers : canceller[c] \in {"idle", "done"},
               NEW h \in 1..started
        PROVE  stopCalls[h] = 1
    <3>1. h \in marked
      BY <2>2 DEF Unmarked, CancellerComes
    <3> QED
      BY <2>2, <3>1 DEF SupervisorStops
  <2> QED
    BY <2>1, <2>2 DEF StoppedOnce, NoInstanceLeaks
<1> QED
  BY <1>1, <1>2, InvStep, PTL DEF Spec

=============================================================================
