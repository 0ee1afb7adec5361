--------------------------- MODULE TurnAdmission ---------------------------
(***************************************************************************)
(* How an accepted message becomes an executing Turn: the start requests   *)
(* on the Redis stream, the one worker that claims them, the Thread's      *)
(* reservation, the run with its entries in the process registries, and    *)
(* the Turn records in SQLite.  Endpoints, the message worker and the runs *)
(* interleave at every registry access, store call and Redis command.      *)
(* The registry of reservations is itself made by the first to ask for it, *)
(* without a lock, so two that ask together may each make one.             *)
(***************************************************************************)
EXTENDS Naturals, Sequences, FiniteSets

CONSTANTS
  Threads, Turns, Deliveries, Runs, Patchers,
  ThreadOf,      \* the Thread of each Turn
  Start,         \* what each delivery asks for: [turn, op]
  Served,        \* creates served before the behaviour begins; their Turns have succeeded
  NoTurn, NoRun, NoDelivery,
  Compaction,    \* the Turn compact_turn writes
  MaxRestarts    \* bound on backend restarts

ASSUME TurnsAreOfThreads ==
  /\ ThreadOf \in [Turns -> Threads]
  /\ NoTurn \notin Turns /\ Compaction \notin Turns \cup {NoTurn}

ASSUME StartsAreOfTurns ==
  /\ Start \in [Deliveries -> [turn : Turns, op : {"create", "rewind"}]]
  /\ NoDelivery \notin Deliveries
  /\ Served \subseteq Deliveries

ASSUME NamesAndBounds == NoRun \notin Runs /\ MaxRestarts \in Nat

VARIABLES
  status,        \* of each Turn record; "none" when there is no record
  versions,      \* delivery ids in the versions of each Turn record
  running,       \* running_turn_id of each Thread
  request,       \* where the HTTP request of each delivery is
  stream,        \* start entries not yet delivered to the consumer group
  claimed,       \* the entry in its pending list
  acked,         \* deliveries whose receipt says acknowledged
  worker,        \* the message worker: [at, delivery, run]
  made,          \* registries made in this process; the attribute names the last of them
  keys,          \* reservations: <<registry, Thread>>
  run,           \* each run or compaction: [at, turn, compacts, reg, delivery, asked, want, copy]
  controller,    \* active_turn_cancellations
  active,        \* active_turn_streams
  pausing,       \* the record pause_turn is about to read (status "none") or has read
  patch,         \* the record each current-data request has read
  restarts

records == <<status, versions, running>>
queue == <<request, stream, claimed, acked>>
registries == <<made, keys, controller, active>>
requests == <<pausing, patch>>
vars == <<records, queue, worker, registries, run, requests, restarts>>

Free == [at |-> "free", turn |-> NoTurn, compacts |-> FALSE, reg |-> 0, delivery |-> NoDelivery,
         asked |-> FALSE, want |-> "none", copy |-> {}]
Idle == [at |-> "idle", delivery |-> NoDelivery, run |-> NoRun]
NoRecord == [turn |-> NoTurn, status |-> "none", versions |-> {}]
Terminal == {"success", "failed", "paused"}
TurnsOf(th) == {t \in Turns : ThreadOf[t] = th}

Init ==
  /\ versions = [t \in Turns |-> {d \in Served : Start[d].turn = t}]
  /\ status = [t \in Turns |-> IF versions[t] = {} THEN "none" ELSE "success"]
  /\ running = [th \in Threads |-> NoTurn]
  /\ request = [d \in Deliveries |-> IF d \in Served THEN "sent" ELSE "idle"]
  /\ stream = <<>> /\ claimed = NoDelivery /\ acked = Served
  /\ worker = Idle
  /\ made = 0 /\ keys = {}
  /\ run = [r \in Runs |-> Free]
  /\ controller = [t \in Turns |-> NoRun]
  /\ active = [t \in Turns |-> NoRun]
  /\ pausing = NoRecord /\ patch = [p \in Patchers |-> NoRecord]
  /\ restarts = 0

-----------------------------------------------------------------------------
(***************************************************************************)
(* Start requests: the checks of the endpoint, then DIRECT_DISPATCH_SCRIPT.*)
(* A first Turn hangs below the root; a later one needs a parent that is   *)
(* not running.  These handlers and resume_turn run on the event loop, one *)
(* at a time.                                                              *)
(***************************************************************************)
Calling == {"requested", "unregistered", "registered", "reserved"}
LoopIsFree ==
  /\ \A d \in Deliveries : request[d] # "checked"
  /\ \A q \in Runs : run[q].at \in Calling => worker.run = q \/ run[q].compacts

HasParent(t) ==
  \/ \A u \in TurnsOf(ThreadOf[t]) : status[u] = "none"
  \/ \E u \in TurnsOf(ThreadOf[t]) : status[u] \in Terminal

create_turn(d) ==
  /\ LoopIsFree /\ request[d] = "idle" /\ Start[d].op = "create"
  /\ status[Start[d].turn] = "none" /\ HasParent(Start[d].turn)
  /\ request' = [request EXCEPT ![d] = "checked"]
  /\ UNCHANGED <<records, stream, claimed, acked, worker, registries, run, requests, restarts>>

rewind_turn(d) ==
  /\ LoopIsFree /\ request[d] = "idle" /\ Start[d].op = "rewind"
  /\ status[Start[d].turn] # "none"
  /\ request' = [request EXCEPT ![d] = "checked"]
  /\ UNCHANGED <<records, stream, claimed, acked, worker, registries, run, requests, restarts>>

dispatch_turn_start(d) ==
  /\ request[d] = "checked"
  /\ request' = [request EXCEPT ![d] = "sent"]
  /\ stream' = Append(stream, d)
  /\ UNCHANGED <<records, claimed, acked, worker, registries, run, requests, restarts>>

-----------------------------------------------------------------------------
(***************************************************************************)
(* Taking the Thread in SQLite (_claim_thread_turn): only when no other    *)
(* Turn of the Thread is running.                                          *)
(***************************************************************************)
claim_thread_turn(t) ==
  /\ running[ThreadOf[t]] \in {NoTurn, t}
  /\ running' = [running EXCEPT ![ThreadOf[t]] = t]

KeepsTheClaim(t) == UNCHANGED running

set_thread_head(t) ==
  running' = [running EXCEPT ![ThreadOf[t]] = IF @ = t THEN NoTurn ELSE @]

finalize_node(t, s, copy) ==
  /\ status[t] = "running"
  /\ status' = [status EXCEPT ![t] = s]
  /\ versions' = [versions EXCEPT ![t] = copy]
  /\ set_thread_head(t)

update_node(t, s, copy) ==
  /\ status' = [status EXCEPT ![t] = s]
  /\ versions' = [versions EXCEPT ![t] = copy]
  /\ IF s \in Terminal THEN set_thread_head(t) ELSE UNCHANGED running

(***************************************************************************)
(* The message worker.  A claimed entry that stays idle for STALE_CLAIM_MS *)
(* is claimed again, whatever the first attempt is doing.                  *)
(***************************************************************************)
At(at) == worker.at = at
Goto(at) == worker' = [worker EXCEPT !.at = at]

claim_turn_start ==
  /\ At("idle") /\ claimed = NoDelivery /\ stream # <<>>
  /\ claimed' = Head(stream) /\ stream' = Tail(stream)
  /\ worker' = [Idle EXCEPT !.at = "claimed", !.delivery = Head(stream)]
  /\ UNCHANGED <<records, request, acked, registries, run, requests, restarts>>

reclaim_turn_start ==
  /\ At("idle") /\ claimed # NoDelivery
  /\ worker' = [Idle EXCEPT !.at = "claimed", !.delivery = claimed]
  /\ UNCHANGED <<records, queue, registries, run, requests, restarts>>

Acknowledge(d) ==
  /\ acked' = acked \cup {d}
  /\ claimed' = IF claimed = d THEN NoDelivery ELSE claimed
  /\ UNCHANGED <<request, stream>>

(***************************************************************************)
(* _start looks the Turn up.  A recorded delivery is acknowledged; a Turn  *)
(* that exists without it is left alone, and the entry stays claimed.      *)
(***************************************************************************)
look_up ==
  /\ At("claimed")
  /\ LET d == worker.delivery
         t == Start[d].turn
     IN \/ status[t] # "none" /\ d \in versions[t] /\ Acknowledge(d) /\ worker' = Idle
        \/ /\ status[t] # "none" /\ d \notin versions[t] /\ Start[d].op = "create"
           /\ worker' = Idle /\ UNCHANGED queue
        \/ /\ status[t] = "none" /\ Start[d].op = "create"
           /\ Goto("launch") /\ UNCHANGED queue
        \/ /\ d \notin versions[t] /\ Start[d].op = "rewind"
           /\ Goto("rewind") /\ UNCHANGED queue
  /\ UNCHANGED <<records, registries, run, requests, restarts>>

(***************************************************************************)
(* append_turn_version: the status is read first, the transaction claims   *)
(* the Thread and does not look at the status again.  A refusal raises and *)
(* the worker's loop goes on.                                              *)
(***************************************************************************)
read_version ==
  /\ At("rewind")
  /\ IF status[Start[worker.delivery].turn] \in Terminal THEN Goto("append") ELSE worker' = Idle
  /\ UNCHANGED <<records, queue, registries, run, requests, restarts>>

append_turn_version ==
  /\ At("append")
  /\ LET d == worker.delivery
         t == Start[d].turn
     IN /\ claim_thread_turn(t)
        /\ status' = [status EXCEPT ![t] = "running"]
        /\ versions' = [versions EXCEPT ![t] = @ \cup {d}]
  /\ Goto("launch")
  /\ UNCHANGED <<queue, registries, run, requests, restarts>>

append_refused ==
  /\ At("append")
  /\ running[ThreadOf[Start[worker.delivery].turn]] \notin {NoTurn, Start[worker.delivery].turn}
  /\ worker' = Idle
  /\ UNCHANGED <<records, queue, registries, run, requests, restarts>>

-----------------------------------------------------------------------------
(***************************************************************************)
(* Three callers reserve a Thread, each in a thread of its own: the message*)
(* worker, resume_turn and compact_turn.  The last two check the status    *)
(* first, and have no delivery.                                            *)
(***************************************************************************)
Check(r, t, c) ==
  run[r] = Free /\ run' = [run EXCEPT ![r] = [Free EXCEPT !.at = "requested", !.turn = t, !.compacts = c]]

resume_turn(t, r) ==
  /\ LoopIsFree /\ status[t] = "paused" /\ Check(r, t, FALSE)
  /\ UNCHANGED <<records, queue, worker, registries, requests, restarts>>

compact_turn(t, r) ==
  /\ status[t] = "success" /\ Check(r, t, TRUE)
  /\ UNCHANGED <<records, queue, worker, registries, requests, restarts>>

(***************************************************************************)
(* _runtime_stream_lock_registry: whoever finds the attribute unset makes  *)
(* a registry and sets the attribute to it, whatever was set meanwhile.    *)
(***************************************************************************)
Found == IF made = 0 THEN "unregistered" ELSE "registered"

launch(r) ==
  /\ At("launch") /\ run[r] = Free
  /\ run' = [run EXCEPT ![r] = [Free EXCEPT !.at = Found, !.turn = Start[worker.delivery].turn, !.reg = made,
                                           !.delivery = worker.delivery]]
  /\ worker' = [worker EXCEPT !.at = "submit", !.run = r]
  /\ UNCHANGED <<records, queue, registries, requests, restarts>>

find_registry(r) ==
  /\ run[r].at = "requested"
  /\ run' = [run EXCEPT ![r].at = Found, ![r].reg = made]
  /\ UNCHANGED <<records, queue, worker, registries, requests, restarts>>

make_registry(r) ==
  /\ run[r].at = "unregistered"
  /\ made' = made + 1
  /\ run' = [run EXCEPT ![r].at = "registered", ![r].reg = made + 1]
  /\ UNCHANGED <<records, queue, worker, keys, controller, active, requests, restarts>>

(***************************************************************************)
(* The Thread is reserved in the registry the caller has got; _stream then *)
(* enters the run in the other registries.                                 *)
(***************************************************************************)
KeyOf(r) == <<run[r].reg, ThreadOf[run[r].turn]>>
Returned(r) == worker' = IF worker.run = r THEN Idle ELSE worker

reserve(r) ==
  /\ run[r].at = "registered" /\ ~ run[r].compacts /\ KeyOf(r) \notin keys
  /\ keys' = keys \cup {KeyOf(r)}
  /\ active' = [active EXCEPT ![run[r].turn] = r]
  /\ controller' = [controller EXCEPT ![run[r].turn] = r]
  /\ run' = [run EXCEPT ![r].at = "reserved"]
  /\ UNCHANGED <<records, queue, worker, made, requests, restarts>>

compact_reserves(r) ==
  /\ run[r].at = "registered" /\ run[r].compacts /\ KeyOf(r) \notin keys
  /\ keys' = keys \cup {KeyOf(r)}
  /\ run' = [run EXCEPT ![r].at = "compacting"]
  /\ UNCHANGED <<records, queue, worker, made, controller, active, requests, restarts>>

conflicts(r) ==
  /\ run[r].at = "registered" /\ KeyOf(r) \in keys
  /\ run' = [run EXCEPT ![r] = Free]
  /\ Returned(r)
  /\ UNCHANGED <<records, queue, registries, requests, restarts>>

(***************************************************************************)
(* JobRegistry.submit, in the thread that reserved.  When it raises (queue *)
(* full, queue timeout, closing scope) the worker function never runs, and *)
(* neither does its finally.                                               *)
(***************************************************************************)
submit(r) ==
  /\ run[r].at = "reserved"
  /\ run' = [run EXCEPT ![r].at = "setup"]
  /\ Returned(r)
  /\ UNCHANGED <<records, queue, registries, requests, restarts>>

submit_raises(r) ==
  /\ run[r].at = "reserved"
  /\ run' = [run EXCEPT ![r] = [Free EXCEPT !.at = "leaked", !.turn = run[r].turn, !.reg = run[r].reg]]
  /\ Returned(r)
  /\ UNCHANGED <<records, queue, registries, requests, restarts>>

-----------------------------------------------------------------------------
Step(r, from, to) == run[r].at = from /\ run' = [run EXCEPT ![r].at = to]
Close(r, from) ==
  /\ run[r].at = from
  /\ run' = [run EXCEPT ![r] = [Free EXCEPT !.at = "closing", !.turn = run[r].turn, !.reg = run[r].reg]]
Elsewhere == UNCHANGED <<worker, registries, requests, restarts>>

(***************************************************************************)
(* The run up to the bridge: application, model configuration, project.    *)
(* A failure here publishes a terminal event and writes no record.         *)
(***************************************************************************)
startup_fails(r) ==
  /\ run[r].want = "none" /\ Close(r, "setup")
  /\ UNCHANGED <<records, queue>> /\ Elsewhere

(***************************************************************************)
(* RuntimeEventNodeBridge.start creates the Turn of a new message, adopts  *)
(* a running one and re-opens a paused one.  The run keeps its own copy of *)
(* the record (NodeWriter._dynamic) and writes it back as the baseline.    *)
(* When start, or what comes before it, raises, finish calls it once more  *)
(* to have a Turn to fail.                                                 *)
(***************************************************************************)
Creates(r) == run[r].delivery # NoDelivery /\ Start[run[r].delivery].op = "create"
Started(r) == IF run[r].want = "none" THEN "started" ELSE "settled"

CreatesWithoutDelivery(r) ==
  /\ Step(r, "setup", Started(r)) /\ Creates(r)
  /\ claim_thread_turn(run[r].turn)
  /\ status' = [status EXCEPT ![run[r].turn] = "running"]
  /\ UNCHANGED <<versions, queue>> /\ Elsewhere

create_node(r) ==
  /\ run[r].at = "setup" /\ Creates(r)
  /\ run' = [run EXCEPT ![r].at = Started(r), ![r].copy = {run[r].delivery}]
  /\ LET t == run[r].turn
     IN /\ claim_thread_turn(t)
        /\ status' = [status EXCEPT ![t] = "running"]
        /\ versions' = [versions EXCEPT ![t] = {run[r].delivery}]
  /\ UNCHANGED queue /\ Elsewhere

start_reads(r) ==
  /\ run[r].at = "setup" /\ ~ Creates(r)
  /\ \E to \in {"adopting", "resuming"} :
       /\ status[run[r].turn] = IF to = "adopting" THEN "running" ELSE "paused"
       /\ run' = [run EXCEPT ![r].at = to, ![r].copy = versions[run[r].turn]]
  /\ UNCHANGED <<records, queue>> /\ Elsewhere

resume_turn_node(r) ==
  /\ Step(r, "resuming", "adopting")
  /\ claim_thread_turn(run[r].turn)
  /\ status' = [status EXCEPT ![run[r].turn] = "running"]
  /\ versions' = [versions EXCEPT ![run[r].turn] = run[r].copy]
  /\ UNCHANGED queue /\ Elsewhere

snapshot(r) ==
  /\ Step(r, "adopting", Started(r))
  /\ update_node(run[r].turn, "running", run[r].copy)
  /\ UNCHANGED queue /\ Elsewhere

Refused(r) ==
  IF Creates(r) \/ run[r].at = "resuming"
  THEN running[ThreadOf[run[r].turn]] \notin {NoTurn, run[r].turn}
  ELSE status[run[r].turn] \in {"success", "failed"}

setup_raises(r, s) ==
  /\ run[r].want = "none" /\ (run[r].at = "setup" \/ (run[r].at = "resuming" /\ Refused(r)))
  /\ s = "failed" \/ (s = "paused" /\ run[r].asked)
  /\ run' = [run EXCEPT ![r].at = "setup", ![r].want = s, ![r].asked = FALSE, ![r].copy = {}]
  /\ UNCHANGED <<records, queue>> /\ Elsewhere

start_raises(r) ==
  /\ run[r].want # "none" /\ (Close(r, "setup") \/ Close(r, "resuming"))
  /\ Refused(r)
  /\ UNCHANGED <<records, queue>> /\ Elsewhere

(***************************************************************************)
(* on_started acknowledges the delivery.  From here on every failure is    *)
(* written to the Turn.                                                    *)
(***************************************************************************)
on_started(r) ==
  /\ run[r].at = "started"
  /\ run' = [run EXCEPT ![r].at = "working", ![r].delivery = NoDelivery]
  /\ IF run[r].delivery = NoDelivery THEN UNCHANGED queue ELSE Acknowledge(run[r].delivery)
  /\ UNCHANGED records /\ Elsewhere

ack_unavailable(r) ==
  /\ run[r].at = "started" /\ run[r].delivery # NoDelivery
  /\ run' = [run EXCEPT ![r].at = "settled", ![r].want = "failed", ![r].asked = FALSE,
                        ![r].delivery = NoDelivery]
  /\ UNCHANGED <<records, queue>> /\ Elsewhere

(***************************************************************************)
(* While it works the run writes its copy back with every item.  Its end   *)
(* decides the status, a requested pause first, and finish writes that     *)
(* with the copy; a write that fails leaves the record as it was.          *)
(***************************************************************************)
persist(r) ==
  /\ run[r].at \in {"working", "settled"}
  /\ update_node(run[r].turn, "running", run[r].copy)
  /\ UNCHANGED <<queue, run>> /\ Elsewhere

SettlesUnmapped(r, s) ==
  /\ run[r].at = "working"
  /\ run' = [run EXCEPT ![r].at = "settled", ![r].want = "cancelled", ![r].asked = FALSE]
  /\ UNCHANGED <<records, queue>> /\ Elsewhere

settle(r, s) ==
  /\ run[r].at = "working"
  /\ run[r].asked => s # "success"
  /\ run' = [run EXCEPT ![r].at = "settled", ![r].want = s, ![r].asked = FALSE]
  /\ UNCHANGED <<records, queue>> /\ Elsewhere

finish(r) ==
  /\ Close(r, "settled")
  /\ \/ update_node(run[r].turn, run[r].want, run[r].copy)
     \/ UNCHANGED records
  /\ UNCHANGED queue /\ Elsewhere

(***************************************************************************)
(* The worker's finally: the reservation, then the pause controller under  *)
(* the Turn's id whoever it belongs to, then the stream if it is its own.  *)
(***************************************************************************)
ExitsWithoutRelease(r) ==
  /\ Step(r, "closing", "released")
  /\ UNCHANGED <<records, queue, worker, registries, requests, restarts>>

release_key(r) ==
  /\ Step(r, "closing", "released")
  /\ keys' = keys \ {KeyOf(r)}
  /\ UNCHANGED <<records, queue, worker, made, controller, active, requests, restarts>>

pop_controller(r) ==
  /\ Step(r, "released", "popped")
  /\ controller' = [controller EXCEPT ![run[r].turn] = NoRun]
  /\ UNCHANGED <<records, queue, worker, made, keys, active, requests, restarts>>

PopsAnyStream(r) ==
  /\ run[r].at = "popped" /\ run' = [run EXCEPT ![r] = Free]
  /\ active' = [active EXCEPT ![run[r].turn] = NoRun]
  /\ UNCHANGED <<records, queue, worker, made, keys, controller, requests, restarts>>

pop_stream(r) ==
  /\ run[r].at = "popped" /\ run' = [run EXCEPT ![r] = Free]
  /\ active' = [active EXCEPT ![run[r].turn] = IF @ = r THEN NoRun ELSE @]
  /\ UNCHANGED <<records, queue, worker, made, keys, controller, requests, restarts>>

-----------------------------------------------------------------------------
(***************************************************************************)
(* pause_turn: signal the registered controller, or else read the record   *)
(* and, if it is running, seal what was read.  A run looks at the signal   *)
(* until it settles.                                                       *)
(***************************************************************************)
Unsettled == {"reserved", "setup", "resuming", "adopting", "started", "working"}

request_pause(t) ==
  /\ status[t] # "none" /\ controller[t] # NoRun
  /\ run[controller[t]].at \in Unsettled
  /\ run' = [run EXCEPT ![controller[t]].asked = TRUE]
  /\ UNCHANGED <<records, queue, worker, registries, requests, restarts>>

pause_turn(t) ==
  /\ pausing = NoRecord /\ controller[t] = NoRun /\ status[t] # "none"
  /\ pausing' = [NoRecord EXCEPT !.turn = t]
  /\ UNCHANGED <<records, queue, worker, registries, run, patch, restarts>>

pause_reads ==
  /\ pausing.turn # NoTurn /\ pausing.status = "none"
  /\ LET t == pausing.turn
     IN pausing' = IF status[t] = "running"
                   THEN [turn |-> t, status |-> "running", versions |-> versions[t]] ELSE NoRecord
  /\ UNCHANGED <<records, queue, worker, registries, run, patch, restarts>>

pause_seals ==
  /\ pausing.status = "running"
  /\ \/ finalize_node(pausing.turn, "paused", pausing.versions)
     \/ status[pausing.turn] # "running" /\ UNCHANGED records
  /\ pausing' = NoRecord
  /\ UNCHANGED <<queue, worker, registries, run, patch, restarts>>

(***************************************************************************)
(* compact_turn holds the reservation while it creates and seals a Turn of *)
(* its own, which claims the Thread like any other.  When it fails between *)
(* the two the claim stays; the reservation is freed in any case.          *)
(***************************************************************************)
create_compact_turn(r) ==
  /\ run[r].at = "compacting" /\ running[ThreadOf[run[r].turn]] = NoTurn
  /\ running' = [running EXCEPT ![ThreadOf[run[r].turn]] = Compaction]
  /\ run' = [run EXCEPT ![r].at = "compacted"]
  /\ UNCHANGED <<status, versions, queue, worker, registries, requests, restarts>>

compact_done(r) ==
  /\ run[r].at \in {"compacting", "compacted"}
  /\ keys' = keys \ {KeyOf(r)}
  /\ run' = [run EXCEPT ![r] = Free]
  /\ \/ run[r].at = "compacted" /\ running' = [running EXCEPT ![ThreadOf[run[r].turn]] = NoTurn]
     \/ UNCHANGED running
  /\ UNCHANGED <<status, versions, queue, worker, made, controller, active, requests, restarts>>

(***************************************************************************)
(* patch_current_data reads a Turn and writes it back whole.               *)
(***************************************************************************)
patch_reads(p, t) ==
  /\ patch[p] = NoRecord /\ status[t] # "none"
  /\ patch' = [patch EXCEPT ![p] = [turn |-> t, status |-> status[t], versions |-> versions[t]]]
  /\ UNCHANGED <<records, queue, worker, registries, run, pausing, restarts>>

set_turn_current_data(p) ==
  /\ patch[p] # NoRecord
  /\ update_node(patch[p].turn, patch[p].status, patch[p].versions)
  /\ patch' = [patch EXCEPT ![p] = NoRecord]
  /\ UNCHANGED <<queue, worker, registries, run, pausing, restarts>>

(***************************************************************************)
(* The backend dies and comes back: process state is gone, the start       *)
(* stream and the records stay, and reconciliation fails what was running. *)
(***************************************************************************)
restart ==
  /\ restarts < MaxRestarts /\ restarts' = restarts + 1
  /\ status' = [t \in Turns |-> IF status[t] = "running" THEN "failed" ELSE status[t]]
  /\ running' = [th \in Threads |-> IF \/ running[th] = Compaction
                                       \/ running[th] \in Turns /\ status[running[th]] = "running"
                                    THEN NoTurn ELSE running[th]]
  /\ request' = [d \in Deliveries |-> IF request[d] = "checked" THEN "idle" ELSE request[d]]
  /\ worker' = Idle
  /\ made' = 0 /\ keys' = {}
  /\ run' = [r \in Runs |-> Free]
  /\ controller' = [t \in Turns |-> NoRun] /\ active' = [t \in Turns |-> NoRun]
  /\ pausing' = NoRecord /\ patch' = [p \in Patchers |-> NoRecord]
  /\ UNCHANGED <<versions, stream, claimed, acked>>

-----------------------------------------------------------------------------
MessageWorker ==
  \/ claim_turn_start \/ reclaim_turn_start \/ look_up
  \/ read_version \/ append_turn_version \/ append_refused
  \/ \E r \in Runs : launch(r)

RunStep(r) ==
  \/ find_registry(r) \/ make_registry(r) \/ reserve(r) \/ compact_reserves(r) \/ conflicts(r)
  \/ submit(r) \/ submit_raises(r) \/ startup_fails(r)
  \/ create_node(r) \/ start_reads(r) \/ resume_turn_node(r) \/ snapshot(r)
  \/ (\E s \in Terminal : setup_raises(r, s)) \/ start_raises(r)
  \/ on_started(r) \/ ack_unavailable(r) \/ persist(r)
  \/ (\E s \in Terminal : settle(r, s)) \/ finish(r)
  \/ release_key(r) \/ pop_controller(r) \/ pop_stream(r)
  \/ create_compact_turn(r) \/ compact_done(r)

Endpoint ==
  \/ \E d \in Deliveries : create_turn(d) \/ rewind_turn(d) \/ dispatch_turn_start(d)
  \/ \E t \in Turns : \/ \E r \in Runs : resume_turn(t, r) \/ compact_turn(t, r)
                      \/ request_pause(t) \/ pause_turn(t)
  \/ pause_reads \/ pause_seals

Next == MessageWorker \/ (\E r \in Runs : RunStep(r)) \/ Endpoint \/ restart

Spec == Init /\ [][Next]_vars

(***************************************************************************)
(* With the endpoint that selects another version of a Turn.               *)
(***************************************************************************)
patch_current_data ==
  \E p \in Patchers : set_turn_current_data(p) \/ \E t \in Turns : patch_reads(p, t)

PatchedSpec == Init /\ [][Next \/ patch_current_data]_vars

-----------------------------------------------------------------------------
RunAt == {"free", "requested", "unregistered", "registered", "reserved", "compacting", "compacted", "leaked",
          "setup", "resuming", "adopting", "started", "working", "settled", "closing", "released", "popped"}
Executing == {"setup", "resuming", "adopting", "started", "working", "settled"}
Holding == Executing \cup {"reserved", "compacting", "compacted", "leaked", "closing"}

Statuses == Terminal \cup {"none", "running"}
Record == [turn : Turns \cup {NoTurn}, status : Statuses, versions : SUBSET Deliveries]

(***************************************************************************)
(* Type invariant; a run that is in use has a Turn, one that is about to   *)
(* finish has decided how, and a Thread runs one of its own Turns.         *)
(***************************************************************************)
TypeOK ==
  /\ status \in [Turns -> Statuses]
  /\ versions \in [Turns -> SUBSET Deliveries]
  /\ running \in [Threads -> Turns \cup {NoTurn, Compaction}]
  /\ \A th \in Threads : running[th] \in Turns => ThreadOf[running[th]] = th
  /\ request \in [Deliveries -> {"idle", "checked", "sent"}]
  /\ stream \in Seq(Deliveries) /\ claimed \in Deliveries \cup {NoDelivery} /\ acked \subseteq Deliveries
  /\ worker \in [at : {"idle", "claimed", "rewind", "append", "launch", "submit"},
                 delivery : Deliveries \cup {NoDelivery}, run : Runs \cup {NoRun}]
  /\ worker.at # "idle" => worker.delivery # NoDelivery
  /\ made \in Nat /\ keys \subseteq Nat \X Threads
  /\ run \in [Runs -> [at : RunAt, turn : Turns \cup {NoTurn}, compacts : BOOLEAN, reg : Nat,
                       delivery : Deliveries \cup {NoDelivery}, asked : BOOLEAN,
                       want : Terminal \cup {"none"}, copy : SUBSET Deliveries]]
  /\ \A r \in Runs : /\ run[r].at # "free" => run[r].turn # NoTurn
                     /\ run[r].at = "settled" => run[r].want # "none"
  /\ controller \in [Turns -> Runs \cup {NoRun}] /\ active \in [Turns -> Runs \cup {NoRun}]
  /\ pausing \in Record /\ (pausing # NoRecord => pausing.turn # NoTurn)
  /\ patch \in [Patchers -> Record]
  /\ \A p \in Patchers : patch[p] # NoRecord => patch[p].turn # NoTurn /\ patch[p].status # "none"
  /\ restarts \in 0..MaxRestarts

(***************************************************************************)
(* A registry never gives one Thread to two of its callers (runs and       *)
(* compactions), and a reservation without a holder does not exist, where  *)
(* a run whose submission raised holds its reservation for good.  As long  *)
(* as the process has made one registry, a Thread has one holder; two that *)
(* made one each on first use may both hold it.  (_stream, compact_turn,   *)
(* the worker's finally and _runtime_stream_lock_registry.)                *)
(***************************************************************************)
Holders == {r \in Runs : run[r].at \in Holding}

ReservationOwned ==
  /\ keys = {KeyOf(r) : r \in Holders}
  /\ \A r, q \in Holders : KeyOf(r) = KeyOf(q) => r = q
  /\ made < 2 => \A r, q \in Holders : ThreadOf[run[r].turn] = ThreadOf[run[q].turn] => r = q

(***************************************************************************)
(* docs/architecture.md: a Thread has at most one active Turn at a time.   *)
(* (_claim_thread_turn and its callers.)                                   *)
(***************************************************************************)
OneActiveTurn ==
  \A t, u \in Turns : status[t] = "running" /\ status[u] = "running" /\ ThreadOf[t] = ThreadOf[u] => t = u

(***************************************************************************)
(* A Thread is never held for a Turn that has ended: whatever interleaves  *)
(* with a pause, a resume, a rewind, a version switch or a restart, the    *)
(* next message can claim it (_claim_thread_turn, _set_thread_head).       *)
(***************************************************************************)
ClaimIsLive ==
  \A th \in Threads : running[th] \in Turns => status[running[th]] = "running"

(***************************************************************************)
(* The stream registered for a Turn is that of the run executing it: what  *)
(* steers or follows the Turn never reaches an earlier run, as long as the *)
(* process has made one registry of reservations (_stream).                *)
(***************************************************************************)
StreamIsOfTheRun == made < 2 => \A r \in Runs : run[r].at \in Executing => active[run[r].turn] = r

(***************************************************************************)
(* A message acknowledged as the start of a new Turn is in that Turn, and  *)
(* no later resume, rewind, pause or restart writes it away (_start,       *)
(* on_started, resume_turn_node).                                          *)
(***************************************************************************)
AcknowledgedStartIsRecorded ==
  \A d \in acked : Start[d].op = "create" => d \in versions[Start[d].turn]
=============================================================================
