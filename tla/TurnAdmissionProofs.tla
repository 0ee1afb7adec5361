------------------------ MODULE TurnAdmissionProofs ------------------------
(***************************************************************************)
(* Proofs about TurnAdmission, for any Threads, Turns, messages and runs,  *)
(* with version switches (PatchedSpec) as well as without.                 *)
(***************************************************************************)
EXTENDS TurnAdmission, SequenceTheorems, TLAPS

-----------------------------------------------------------------------------
(***************************************************************************)
(* The type invariant, by the part of the system that it is about.         *)
(***************************************************************************)
RecordsOK ==
  /\ status \in [Turns -> Statuses]
  /\ versions \in [Turns -> SUBSET Deliveries]
  /\ running \in [Threads -> Turns \cup {NoTurn, Compaction}]
  /\ \A th \in Threads : running[th] \in Turns => ThreadOf[running[th]] = th

QueueOK ==
  /\ request \in [Deliveries -> {"idle", "checked", "sent"}]
  /\ stream \in Seq(Deliveries) /\ claimed \in Deliveries \cup {NoDelivery} /\ acked \subseteq Deliveries

WorkerOK ==
  /\ worker \in [at : {"idle", "claimed", "rewind", "append", "launch", "submit"},
                 delivery : Deliveries \cup {NoDelivery}, run : Runs \cup {NoRun}]
  /\ worker.at # "idle" => worker.delivery # NoDelivery

RegistriesOK ==
  /\ made \in Nat /\ keys \subseteq Nat \X Threads
  /\ controller \in [Turns -> Runs \cup {NoRun}] /\ active \in [Turns -> Runs \cup {NoRun}]

RunRecord ==
  [at : RunAt, turn : Turns \cup {NoTurn}, compacts : BOOLEAN, reg : Nat, delivery : Deliveries \cup {NoDelivery},
   asked : BOOLEAN, want : Terminal \cup {"none"}, copy : SUBSET Deliveries]

RunsOK ==
  /\ run \in [Runs -> RunRecord]
  /\ \A r \in Runs : /\ run[r].at # "free" => run[r].turn # NoTurn
                     /\ run[r].at = "settled" => run[r].want # "none"

RequestsOK ==
  /\ pausing \in Record /\ (pausing # NoRecord => pausing.turn # NoTurn)
  /\ patch \in [Patchers -> Record]
  /\ \A p \in Patchers : patch[p] # NoRecord => patch[p].turn # NoTurn /\ patch[p].status # "none"

BoundOK == restarts \in 0..MaxRestarts

TypeInv == RecordsOK /\ QueueOK /\ WorkerOK /\ RegistriesOK /\ RunsOK /\ RequestsOK /\ BoundOK

-----------------------------------------------------------------------------
(***************************************************************************)
(* A run that moves on keeps its shape.                                    *)
(***************************************************************************)
LEMMA RunMoves ==
  ASSUME RunsOK, NEW r \in Runs, NEW rec \in RunRecord,
         rec.at # "free" => rec.turn # NoTurn,
         rec.at = "settled" => rec.want # "none",
         run' = [run EXCEPT ![r] = rec]
  PROVE  RunsOK'
<1>1. \A q \in Runs : run'[q] = IF q = r THEN rec ELSE run[q]
  BY DEF RunsOK
<1>2. run' \in [Runs -> RunRecord]
  BY DEF RunsOK
<1> QED
  BY <1>1, <1>2 DEF RunsOK

(***************************************************************************)
(* What a run in use knows.                                                *)
(***************************************************************************)
LEMMA RunFacts ==
  ASSUME RunsOK, NEW r \in Runs, run[r].at # "free"
  PROVE  /\ run[r] \in RunRecord
         /\ run[r].turn \in Turns /\ run[r].reg \in Nat
         /\ run[r].copy \in SUBSET Deliveries
         /\ run[r].delivery \in Deliveries \cup {NoDelivery}
         /\ run[r].at = "settled" => run[r].want \in Terminal
BY DEF RunsOK, RunRecord

(***************************************************************************)
(* What the store writes is well formed when what it is given is.          *)
(***************************************************************************)
LEMMA StoreWrites ==
  ASSUME RecordsOK, NEW t \in Turns, NEW s \in Statuses, NEW copy \in SUBSET Deliveries,
         \/ update_node(t, s, copy)
         \/ finalize_node(t, s, copy)
         \/ /\ claim_thread_turn(t)
            /\ status' = [status EXCEPT ![t] = s]
            /\ versions' = [versions EXCEPT ![t] = copy]
  PROVE  RecordsOK'
<1> USE TurnsAreOfThreads
<1>1. /\ status' = [status EXCEPT ![t] = s]
      /\ versions' = [versions EXCEPT ![t] = copy]
  BY DEF update_node, finalize_node
<1>2. status' \in [Turns -> Statuses] /\ versions' \in [Turns -> SUBSET Deliveries]
  BY <1>1 DEF RecordsOK
<1>3. \/ running' = running
      \/ running' = [running EXCEPT ![ThreadOf[t]] = t]
      \/ running' = [running EXCEPT ![ThreadOf[t]] = NoTurn]
  BY DEF update_node, finalize_node, claim_thread_turn, set_thread_head, RecordsOK
<1>4. /\ running' \in [Threads -> Turns \cup {NoTurn, Compaction}]
      /\ \A th \in Threads : running'[th] \in Turns => ThreadOf[running'[th]] = th
  <2> USE DEF RecordsOK
  <2>1. CASE running' = running
    BY <2>1
  <2>2. CASE running' = [running EXCEPT ![ThreadOf[t]] = t]
    BY <2>2
  <2>3. CASE running' = [running EXCEPT ![ThreadOf[t]] = NoTurn]
    BY <2>3
  <2> QED
    BY <1>3, <2>1, <2>2, <2>3
<1> QED
  BY <1>2, <1>4 DEF RecordsOK

(***************************************************************************)
(* Every step keeps the types: per action, the parts that it changes, then *)
(* the rest.                                                               *)
(***************************************************************************)
LEMMA TypeStep ==
  ASSUME TypeInv, Next \/ patch_current_data PROVE TypeInv'
<1> USE TurnsAreOfThreads, StartsAreOfTurns, NamesAndBounds
<1>0. RecordsOK /\ QueueOK /\ WorkerOK /\ RegistriesOK /\ RunsOK /\ RequestsOK /\ BoundOK
  BY DEF TypeInv
<1> USE DEF Elsewhere, records, queue, registries, requests
<1>1. ASSUME NEW r \in Runs, submit(r) PROVE TypeInv'
  <2>1. WorkerOK'
    BY <1>0, <1>1 DEF submit, Returned, WorkerOK, Idle
  <2>2. RunsOK'
    <3> DEFINE rec == [run[r] EXCEPT !.at = "setup"]
    <3>1. run' = [run EXCEPT ![r] = rec]
      BY <1>0, <1>1 DEF submit, Returned, RunsOK, RunRecord
    <3>2. run[r] \in RunRecord /\ run[r].turn \in Turns /\ run[r].reg \in Nat
      BY <1>0, <1>1, RunFacts DEF submit, Returned
    <3>3. /\ rec \in RunRecord
          /\ rec.at # "free" => rec.turn # NoTurn
          /\ rec.at = "settled" => rec.want # "none"
      BY <1>1, <3>2 DEF RunRecord, RunAt, Free, Terminal
    <3> HIDE DEF rec
    <3> QED
      BY <1>0, <3>1, <3>3, RunMoves
  <2>3. RecordsOK' /\ QueueOK' /\ RegistriesOK' /\ RequestsOK' /\ BoundOK'
    BY <1>0, <1>1 DEF submit, Returned, RecordsOK, QueueOK, RegistriesOK, RequestsOK, BoundOK
  <2> QED
    BY <2>1, <2>2, <2>3 DEF TypeInv
<1>2. ASSUME NEW r \in Runs, submit_raises(r) PROVE TypeInv'
  <2>1. WorkerOK'
    BY <1>0, <1>2 DEF submit_raises, Returned, WorkerOK, Idle
  <2>2. RunsOK'
    <3> DEFINE rec == [Free EXCEPT !.at = "leaked", !.turn = run[r].turn, !.reg = run[r].reg]
    <3>1. run' = [run EXCEPT ![r] = rec]
      BY <1>0, <1>2 DEF submit_raises, Returned, RunsOK, RunRecord
    <3>2. run[r] \in RunRecord /\ run[r].turn \in Turns /\ run[r].reg \in Nat
      BY <1>0, <1>2, RunFacts DEF submit_raises, Returned
    <3>3. /\ rec \in RunRecord
          /\ rec.at # "free" => rec.turn # NoTurn
          /\ rec.at = "settled" => rec.want # "none"
      BY <1>2, <3>2 DEF RunRecord, RunAt, Free, Terminal
    <3> HIDE DEF rec
    <3> QED
      BY <1>0, <3>1, <3>3, RunMoves
  <2>3. RecordsOK' /\ QueueOK' /\ RegistriesOK' /\ RequestsOK' /\ BoundOK'
    BY <1>0, <1>2 DEF submit_raises, Returned, RecordsOK, QueueOK, RegistriesOK, RequestsOK, BoundOK
  <2> QED
    BY <2>1, <2>2, <2>3 DEF TypeInv
<1>3. ASSUME NEW r \in Runs, startup_fails(r) PROVE TypeInv'
  <2>1. RunsOK'
    <3> DEFINE rec == [Free EXCEPT !.at = "closing", !.turn = run[r].turn, !.reg = run[r].reg]
    <3>1. run' = [run EXCEPT ![r] = rec]
      BY <1>0, <1>3 DEF startup_fails, Close, RunsOK, RunRecord
    <3>2. run[r] \in RunRecord /\ run[r].turn \in Turns /\ run[r].reg \in Nat
      BY <1>0, <1>3, RunFacts DEF startup_fails, Close
    <3>3. /\ rec \in RunRecord
          /\ rec.at # "free" => rec.turn # NoTurn
          /\ rec.at = "settled" => rec.want # "none"
      BY <1>3, <3>2 DEF RunRecord, RunAt, Free, Terminal
    <3> HIDE DEF rec
    <3> QED
      BY <1>0, <3>1, <3>3, RunMoves
  <2>2. RecordsOK' /\ QueueOK' /\ WorkerOK' /\ RegistriesOK' /\ RequestsOK' /\ BoundOK'
    BY <1>0, <1>3 DEF startup_fails, Close, RecordsOK, QueueOK, WorkerOK, RegistriesOK, RequestsOK, BoundOK
  <2> QED
    BY <2>1, <2>2 DEF TypeInv
<1>4. ASSUME NEW r \in Runs, create_node(r) PROVE TypeInv'
  <2>1. RecordsOK'
    <3>1. run[r].turn \in Turns /\ {run[r].delivery} \in SUBSET Deliveries
      BY <1>0, <1>4, RunFacts DEF create_node, Creates
    <3>2. claim_thread_turn(run[r].turn) /\ status' = [status EXCEPT ![run[r].turn] = "running"]
          /\ versions' = [versions EXCEPT ![run[r].turn] = {run[r].delivery}]
      BY <1>4 DEF create_node
    <3> QED
      BY <1>0, <3>1, <3>2, StoreWrites DEF Statuses, Terminal
  <2>2. RunsOK'
    <3> DEFINE rec == [run[r] EXCEPT !.at = Started(r), !.copy = {run[r].delivery}]
    <3>1. run' = [run EXCEPT ![r] = rec]
      BY <1>0, <1>4 DEF create_node, Started, Creates, claim_thread_turn, RunsOK, RunRecord
    <3>2. /\ run[r] \in RunRecord /\ run[r].turn \in Turns /\ run[r].delivery \in Deliveries
          /\ Started(r) \in {"started", "settled"} /\ (Started(r) = "settled" => run[r].want # "none")
      BY <1>0, <1>4, RunFacts DEF create_node, Creates, Started
    <3>3. /\ rec \in RunRecord
          /\ rec.at # "free" => rec.turn # NoTurn
          /\ rec.at = "settled" => rec.want # "none"
      BY <1>4, <3>2 DEF RunRecord, RunAt
    <3> HIDE DEF rec
    <3> QED
      BY <1>0, <3>1, <3>3, RunMoves
  <2>3. QueueOK' /\ WorkerOK' /\ RegistriesOK' /\ RequestsOK' /\ BoundOK'
    BY <1>0, <1>4 DEF create_node, Started, Creates, claim_thread_turn, QueueOK, WorkerOK, RegistriesOK, RequestsOK, BoundOK
  <2> QED
    BY <2>1, <2>2, <2>3 DEF TypeInv
<1>5. ASSUME NEW r \in Runs, start_reads(r) PROVE TypeInv'
  <2>1. RunsOK'
    <3>1. PICK to \in {"adopting", "resuming"} :
             run' = [run EXCEPT ![r].at = to, ![r].copy = versions[run[r].turn]]
      BY <1>5 DEF start_reads
    <3> DEFINE rec == [run[r] EXCEPT !.at = to, !.copy = versions[run[r].turn]]
    <3>2. run[r] \in RunRecord /\ run[r].turn \in Turns /\ versions[run[r].turn] \in SUBSET Deliveries
      BY <1>0, <1>5, RunFacts DEF start_reads, RecordsOK
    <3>3. rec \in RunRecord /\ rec.turn # NoTurn /\ rec.at # "settled"
      BY <3>2 DEF RunRecord, RunAt
    <3>4. run' = [run EXCEPT ![r] = rec]
      BY <1>0, <3>1, <3>2 DEF RunsOK, RunRecord
    <3> HIDE DEF rec
    <3> QED
      BY <1>0, <3>3, <3>4, RunMoves
  <2>2. RecordsOK' /\ QueueOK' /\ WorkerOK' /\ RegistriesOK' /\ RequestsOK' /\ BoundOK'
    BY <1>0, <1>5 DEF start_reads, Creates, RecordsOK, QueueOK, WorkerOK, RegistriesOK, RequestsOK, BoundOK
  <2> QED
    BY <2>1, <2>2 DEF TypeInv
<1>6. ASSUME NEW r \in Runs, resume_turn_node(r) PROVE TypeInv'
  <2>1. RecordsOK'
    <3>1. run[r].turn \in Turns /\ run[r].copy \in SUBSET Deliveries
      BY <1>0, <1>6, RunFacts DEF resume_turn_node, Step
    <3>2. claim_thread_turn(run[r].turn) /\ status' = [status EXCEPT ![run[r].turn] = "running"]
          /\ versions' = [versions EXCEPT ![run[r].turn] = run[r].copy]
      BY <1>6 DEF resume_turn_node
    <3> QED
      BY <1>0, <3>1, <3>2, StoreWrites DEF Statuses, Terminal
  <2>2. RunsOK'
    <3> DEFINE rec == [run[r] EXCEPT !.at = "adopting"]
    <3>1. run' = [run EXCEPT ![r] = rec]
      BY <1>0, <1>6 DEF resume_turn_node, Step, claim_thread_turn, RunsOK, RunRecord
    <3>2. run[r] \in RunRecord /\ run[r].turn \in Turns /\ run[r].reg \in Nat
      BY <1>0, <1>6, RunFacts DEF resume_turn_node, Step, claim_thread_turn
    <3>3. /\ rec \in RunRecord
          /\ rec.at # "free" => rec.turn # NoTurn
          /\ rec.at = "settled" => rec.want # "none"
      BY <1>6, <3>2 DEF RunRecord, RunAt, Free, Terminal
    <3> HIDE DEF rec
    <3> QED
      BY <1>0, <3>1, <3>3, RunMoves
  <2>3. QueueOK' /\ WorkerOK' /\ RegistriesOK' /\ RequestsOK' /\ BoundOK'
    BY <1>0, <1>6 DEF resume_turn_node, Step, claim_thread_turn, QueueOK, WorkerOK, RegistriesOK, RequestsOK, BoundOK
  <2> QED
    BY <2>1, <2>2, <2>3 DEF TypeInv
<1>7. ASSUME NEW r \in Runs, snapshot(r) PROVE TypeInv'
  <2>1. RecordsOK'
    <3>1. run[r].turn \in Turns /\ run[r].copy \in SUBSET Deliveries
      BY <1>0, <1>7, RunFacts DEF snapshot, Step
    <3>2. update_node(run[r].turn, "running", run[r].copy)
      BY <1>7 DEF snapshot
    <3> QED
      BY <1>0, <3>1, <3>2, StoreWrites DEF Statuses, Terminal
  <2>2. RunsOK'
    <3> DEFINE rec == [run[r] EXCEPT !.at = Started(r)]
    <3>1. run' = [run EXCEPT ![r] = rec]
      BY <1>0, <1>7 DEF snapshot, Step, Started, update_node, set_thread_head, RunsOK, RunRecord
    <3>2. /\ rec \in RunRecord
          /\ rec.at # "free" => rec.turn # NoTurn
          /\ rec.at = "settled" => rec.want # "none"
      BY <1>0, <1>7 DEF snapshot, Step, Started, update_node, set_thread_head, RunsOK, RunRecord, RunAt, Free, Terminal
    <3> HIDE DEF rec
    <3> QED
      BY <1>0, <3>1, <3>2, RunMoves
  <2>3. QueueOK' /\ WorkerOK' /\ RegistriesOK' /\ RequestsOK' /\ BoundOK'
    BY <1>0, <1>7 DEF snapshot, Step, Started, update_node, set_thread_head, QueueOK, WorkerOK, RegistriesOK, RequestsOK, BoundOK
  <2> QED
    BY <2>1, <2>2, <2>3 DEF TypeInv
<1>8. ASSUME NEW r \in Runs, start_raises(r) PROVE TypeInv'
  <2>1. RunsOK'
    <3> DEFINE rec == [Free EXCEPT !.at = "closing", !.turn = run[r].turn, !.reg = run[r].reg]
    <3>1. run' = [run EXCEPT ![r] = rec]
      BY <1>0, <1>8 DEF start_raises, Close, RunsOK, RunRecord
    <3>2. run[r] \in RunRecord /\ run[r].turn \in Turns /\ run[r].reg \in Nat
      BY <1>0, <1>8, RunFacts DEF start_raises, Close
    <3>3. /\ rec \in RunRecord
          /\ rec.at # "free" => rec.turn # NoTurn
          /\ rec.at = "settled" => rec.want # "none"
      BY <1>8, <3>2 DEF RunRecord, RunAt, Free, Terminal
    <3> HIDE DEF rec
    <3> QED
      BY <1>0, <3>1, <3>3, RunMoves
  <2>2. RecordsOK' /\ QueueOK' /\ WorkerOK' /\ RegistriesOK' /\ RequestsOK' /\ BoundOK'
    BY <1>0, <1>8 DEF start_raises, Close, RecordsOK, QueueOK, WorkerOK, RegistriesOK, RequestsOK, BoundOK
  <2> QED
    BY <2>1, <2>2 DEF TypeInv
<1>9. ASSUME NEW r \in Runs, on_started(r) PROVE TypeInv'
  <2>1. QueueOK'
    <3>1. run[r].delivery \in Deliveries \cup {NoDelivery}
      BY <1>0, <1>9, RunFacts DEF on_started
    <3>2. UNCHANGED queue \/ (run[r].delivery \in Deliveries /\ Acknowledge(run[r].delivery))
      BY <1>9, <3>1 DEF on_started
    <3> QED
      BY <1>0, <3>2 DEF QueueOK, Acknowledge
  <2>2. RunsOK'
    <3> DEFINE rec == [run[r] EXCEPT !.at = "working", !.delivery = NoDelivery]
    <3>1. run' = [run EXCEPT ![r] = rec]
      BY <1>0, <1>9 DEF on_started, Acknowledge, RunsOK, RunRecord
    <3>2. /\ run[r] \in RunRecord /\ run[r].turn \in Turns
      BY <1>0, <1>9, RunFacts DEF on_started
    <3>3. /\ rec \in RunRecord
          /\ rec.at # "free" => rec.turn # NoTurn
          /\ rec.at = "settled" => rec.want # "none"
      BY <1>9, <3>2 DEF RunRecord, RunAt
    <3> HIDE DEF rec
    <3> QED
      BY <1>0, <3>1, <3>3, RunMoves
  <2>3. RecordsOK' /\ WorkerOK' /\ RegistriesOK' /\ RequestsOK' /\ BoundOK'
    BY <1>0, <1>9 DEF on_started, Acknowledge, RecordsOK, WorkerOK, RegistriesOK, RequestsOK, BoundOK
  <2> QED
    BY <2>1, <2>2, <2>3 DEF TypeInv
<1>10. ASSUME NEW r \in Runs, ack_unavailable(r) PROVE TypeInv'
  <2>1. RunsOK'
    <3> DEFINE rec == [run[r] EXCEPT !.at = "settled", !.want = "failed", !.asked = FALSE, !.delivery = NoDelivery]
    <3>1. run' = [run EXCEPT ![r] = rec]
      BY <1>0, <1>10 DEF ack_unavailable, RunsOK, RunRecord
    <3>2. run[r] \in RunRecord /\ run[r].turn \in Turns /\ run[r].reg \in Nat
      BY <1>0, <1>10, RunFacts DEF ack_unavailable
    <3>3. /\ rec \in RunRecord
          /\ rec.at # "free" => rec.turn # NoTurn
          /\ rec.at = "settled" => rec.want # "none"
      BY <1>10, <3>2 DEF RunRecord, RunAt, Free, Terminal
    <3> HIDE DEF rec
    <3> QED
      BY <1>0, <3>1, <3>3, RunMoves
  <2>2. RecordsOK' /\ QueueOK' /\ WorkerOK' /\ RegistriesOK' /\ RequestsOK' /\ BoundOK'
    BY <1>0, <1>10 DEF ack_unavailable, RecordsOK, QueueOK, WorkerOK, RegistriesOK, RequestsOK, BoundOK
  <2> QED
    BY <2>1, <2>2 DEF TypeInv
<1>11. ASSUME NEW r \in Runs, persist(r) PROVE TypeInv'
  <2>1. RecordsOK'
    <3>1. run[r].turn \in Turns /\ run[r].copy \in SUBSET Deliveries
      BY <1>0, <1>11, RunFacts DEF persist
    <3>2. update_node(run[r].turn, "running", run[r].copy)
      BY <1>11 DEF persist
    <3> QED
      BY <1>0, <3>1, <3>2, StoreWrites DEF Statuses, Terminal
  <2>2. QueueOK' /\ WorkerOK' /\ RegistriesOK' /\ RunsOK' /\ RequestsOK' /\ BoundOK'
    BY <1>0, <1>11 DEF persist, update_node, set_thread_head, QueueOK, WorkerOK, RegistriesOK, RunsOK, RequestsOK, BoundOK
  <2> QED
    BY <2>1, <2>2 DEF TypeInv
<1>12. ASSUME NEW r \in Runs, finish(r) PROVE TypeInv'
  <2>1. RecordsOK'
    <3>1. run[r].turn \in Turns /\ run[r].copy \in SUBSET Deliveries /\ run[r].want \in Terminal
      BY <1>0, <1>12, RunFacts DEF finish, Close
    <3>2. update_node(run[r].turn, run[r].want, run[r].copy) \/ UNCHANGED records
      BY <1>12 DEF finish
    <3> QED
      BY <1>0, <3>1, <3>2, StoreWrites DEF Statuses, RecordsOK
  <2>2. RunsOK'
    <3> DEFINE rec == [Free EXCEPT !.at = "closing", !.turn = run[r].turn, !.reg = run[r].reg]
    <3>1. run' = [run EXCEPT ![r] = rec]
      BY <1>0, <1>12 DEF finish, Close, update_node, set_thread_head, RunsOK, RunRecord
    <3>2. run[r] \in RunRecord /\ run[r].turn \in Turns /\ run[r].reg \in Nat
      BY <1>0, <1>12, RunFacts DEF finish, Close, update_node, set_thread_head
    <3>3. /\ rec \in RunRecord
          /\ rec.at # "free" => rec.turn # NoTurn
          /\ rec.at = "settled" => rec.want # "none"
      BY <1>12, <3>2 DEF RunRecord, RunAt, Free, Terminal
    <3> HIDE DEF rec
    <3> QED
      BY <1>0, <3>1, <3>3, RunMoves
  <2>3. QueueOK' /\ WorkerOK' /\ RegistriesOK' /\ RequestsOK' /\ BoundOK'
    BY <1>0, <1>12 DEF finish, Close, update_node, set_thread_head, QueueOK, WorkerOK, RegistriesOK, RequestsOK, BoundOK
  <2> QED
    BY <2>1, <2>2, <2>3 DEF TypeInv
<1>13. ASSUME NEW r \in Runs, release_key(r) PROVE TypeInv'
  <2>1. RegistriesOK'
    BY <1>0, <1>13 DEF release_key, Step, RegistriesOK
  <2>2. RunsOK'
    <3> DEFINE rec == [run[r] EXCEPT !.at = "released"]
    <3>1. run' = [run EXCEPT ![r] = rec]
      BY <1>0, <1>13 DEF release_key, Step, RunsOK, RunRecord
    <3>2. run[r] \in RunRecord /\ run[r].turn \in Turns /\ run[r].reg \in Nat
      BY <1>0, <1>13, RunFacts DEF release_key, Step
    <3>3. /\ rec \in RunRecord
          /\ rec.at # "free" => rec.turn # NoTurn
          /\ rec.at = "settled" => rec.want # "none"
      BY <1>13, <3>2 DEF RunRecord, RunAt, Free, Terminal
    <3> HIDE DEF rec
    <3> QED
      BY <1>0, <3>1, <3>3, RunMoves
  <2>3. RecordsOK' /\ QueueOK' /\ WorkerOK' /\ RequestsOK' /\ BoundOK'
    BY <1>0, <1>13 DEF release_key, Step, RecordsOK, QueueOK, WorkerOK, RequestsOK, BoundOK
  <2> QED
    BY <2>1, <2>2, <2>3 DEF TypeInv
<1>14. ASSUME NEW r \in Runs, pop_controller(r) PROVE TypeInv'
  <2>1. RegistriesOK'
    BY <1>0, <1>14 DEF pop_controller, Step, RegistriesOK
  <2>2. RunsOK'
    <3> DEFINE rec == [run[r] EXCEPT !.at = "popped"]
    <3>1. run' = [run EXCEPT ![r] = rec]
      BY <1>0, <1>14 DEF pop_controller, Step, RunsOK, RunRecord
    <3>2. run[r] \in RunRecord /\ run[r].turn \in Turns /\ run[r].reg \in Nat
      BY <1>0, <1>14, RunFacts DEF pop_controller, Step
    <3>3. /\ rec \in RunRecord
          /\ rec.at # "free" => rec.turn # NoTurn
          /\ rec.at = "settled" => rec.want # "none"
      BY <1>14, <3>2 DEF RunRecord, RunAt, Free, Terminal
    <3> HIDE DEF rec
    <3> QED
      BY <1>0, <3>1, <3>3, RunMoves
  <2>3. RecordsOK' /\ QueueOK' /\ WorkerOK' /\ RequestsOK' /\ BoundOK'
    BY <1>0, <1>14 DEF pop_controller, Step, RecordsOK, QueueOK, WorkerOK, RequestsOK, BoundOK
  <2> QED
    BY <2>1, <2>2, <2>3 DEF TypeInv
<1>15. ASSUME NEW r \in Runs, pop_stream(r) PROVE TypeInv'
  <2>1. RegistriesOK'
    BY <1>0, <1>15 DEF pop_stream, RegistriesOK
  <2>2. RunsOK'
    <3> DEFINE rec == Free
    <3>1. run' = [run EXCEPT ![r] = rec]
      BY <1>0, <1>15 DEF pop_stream, RunsOK, RunRecord
    <3>2. /\ rec \in RunRecord
          /\ rec.at # "free" => rec.turn # NoTurn
          /\ rec.at = "settled" => rec.want # "none"
      BY <1>0, <1>15 DEF pop_stream, RunsOK, RunRecord, RunAt, Free, Terminal
    <3> HIDE DEF rec
    <3> QED
      BY <1>0, <3>1, <3>2, RunMoves
  <2>3. RecordsOK' /\ QueueOK' /\ WorkerOK' /\ RequestsOK' /\ BoundOK'
    BY <1>0, <1>15 DEF pop_stream, RecordsOK, QueueOK, WorkerOK, RequestsOK, BoundOK
  <2> QED
    BY <2>1, <2>2, <2>3 DEF TypeInv
<1>16. ASSUME NEW r \in Runs, launch(r) PROVE TypeInv'
  <2>1. WorkerOK'
    BY <1>0, <1>16 DEF launch, At, WorkerOK, Idle
  <2>2. RunsOK'
    <3> DEFINE rec == [Free EXCEPT !.at = Found, !.turn = Start[worker.delivery].turn, !.reg = made,
                               !.delivery = worker.delivery]
    <3>1. run' = [run EXCEPT ![r] = rec]
      BY <1>0, <1>16 DEF launch, At, RunsOK, RunRecord
    <3>2. /\ rec \in RunRecord
          /\ rec.at # "free" => rec.turn # NoTurn
          /\ rec.at = "settled" => rec.want # "none"
      <4>1. worker.delivery \in Deliveries /\ made \in Nat /\ Found \in {"unregistered", "registered"}
        BY <1>0, <1>16 DEF launch, At, WorkerOK, RegistriesOK, Found
      <4>2. Start[worker.delivery].turn \in Turns
        BY <4>1
      <4> QED
        BY <4>1, <4>2 DEF RunRecord, RunAt, Free
    <3> HIDE DEF rec
    <3> QED
      BY <1>0, <3>1, <3>2, RunMoves
  <2>3. RecordsOK' /\ QueueOK' /\ RegistriesOK' /\ RequestsOK' /\ BoundOK'
    BY <1>0, <1>16 DEF launch, At, RecordsOK, QueueOK, RegistriesOK, RequestsOK, BoundOK
  <2> QED
    BY <2>1, <2>2, <2>3 DEF TypeInv
<1>17. ASSUME NEW r \in Runs, NEW s \in Terminal, setup_raises(r, s) PROVE TypeInv'
  <2>1. RunsOK'
    <3> DEFINE rec == [run[r] EXCEPT !.at = "setup", !.want = s, !.asked = FALSE, !.copy = {}]
    <3>1. run' = [run EXCEPT ![r] = rec]
      BY <1>0, <1>17 DEF setup_raises, RunsOK, RunRecord
    <3>2. run[r] \in RunRecord /\ run[r].turn \in Turns /\ run[r].reg \in Nat
      BY <1>0, <1>17, RunFacts DEF setup_raises
    <3>3. /\ rec \in RunRecord
          /\ rec.at # "free" => rec.turn # NoTurn
          /\ rec.at = "settled" => rec.want # "none"
      BY <1>17, <3>2 DEF RunRecord, RunAt, Free, Terminal
    <3> HIDE DEF rec
    <3> QED
      BY <1>0, <3>1, <3>3, RunMoves
  <2>2. RecordsOK' /\ QueueOK' /\ WorkerOK' /\ RegistriesOK' /\ RequestsOK' /\ BoundOK'
    BY <1>0, <1>17 DEF setup_raises, RecordsOK, QueueOK, WorkerOK, RegistriesOK, RequestsOK, BoundOK
  <2> QED
    BY <2>1, <2>2 DEF TypeInv
<1>18. ASSUME NEW r \in Runs, NEW s \in Terminal, settle(r, s) PROVE TypeInv'
  <2>1. RunsOK'
    <3> DEFINE rec == [run[r] EXCEPT !.at = "settled", !.want = s, !.asked = FALSE]
    <3>1. run' = [run EXCEPT ![r] = rec]
      BY <1>0, <1>18 DEF settle, RunsOK, RunRecord
    <3>2. /\ run[r] \in RunRecord /\ run[r].turn \in Turns
      BY <1>0, <1>18, RunFacts DEF settle
    <3>3. /\ rec \in RunRecord
          /\ rec.at # "free" => rec.turn # NoTurn
          /\ rec.at = "settled" => rec.want # "none"
      BY <1>18, <3>2 DEF RunRecord, RunAt, Terminal
    <3> HIDE DEF rec
    <3> QED
      BY <1>0, <3>1, <3>3, RunMoves
  <2>2. RecordsOK' /\ QueueOK' /\ WorkerOK' /\ RegistriesOK' /\ RequestsOK' /\ BoundOK'
    BY <1>0, <1>18 DEF settle, RecordsOK, QueueOK, WorkerOK, RegistriesOK, RequestsOK, BoundOK
  <2> QED
    BY <2>1, <2>2 DEF TypeInv
<1>19. ASSUME NEW r \in Runs, find_registry(r) PROVE TypeInv'
  <2>1. RunsOK'
    <3> DEFINE rec == [run[r] EXCEPT !.at = Found, !.reg = made]
    <3>1. run' = [run EXCEPT ![r] = rec]
      BY <1>0, <1>19 DEF find_registry, RunsOK, RunRecord
    <3>2. run[r] \in RunRecord /\ run[r].turn \in Turns /\ run[r].reg \in Nat /\ made \in Nat
      BY <1>0, <1>19, RunFacts DEF find_registry, RegistriesOK
    <3>3. /\ rec \in RunRecord
          /\ rec.at # "free" => rec.turn # NoTurn
          /\ rec.at = "settled" => rec.want # "none"
      BY <1>19, <3>2 DEF RunRecord, RunAt, Free, Terminal, Found
    <3> HIDE DEF rec
    <3> QED
      BY <1>0, <3>1, <3>3, RunMoves
  <2>2. RecordsOK' /\ QueueOK' /\ WorkerOK' /\ RegistriesOK' /\ RequestsOK' /\ BoundOK'
    BY <1>0, <1>19 DEF find_registry, RecordsOK, QueueOK, WorkerOK, RegistriesOK, RequestsOK, BoundOK
  <2> QED
    BY <2>1, <2>2 DEF TypeInv
<1>20. ASSUME NEW r \in Runs, make_registry(r) PROVE TypeInv'
  <2>1. RegistriesOK'
    BY <1>0, <1>20 DEF make_registry, RegistriesOK
  <2>2. RunsOK'
    <3> DEFINE new == made + 1
               rec == [run[r] EXCEPT !.at = "registered", !.reg = new]
    <3>1. run' = [run EXCEPT ![r] = rec]
      BY <1>0, <1>20 DEF make_registry, RunsOK, RunRecord
    <3>2. new \in Nat
      BY <1>0 DEF RegistriesOK
    <3>3. run[r] \in RunRecord /\ run[r].turn \in Turns
      BY <1>0, <1>20, RunFacts DEF make_registry
    <3> HIDE DEF new
    <3>4. rec \in RunRecord /\ rec.turn # NoTurn /\ rec.at # "settled"
      BY <3>2, <3>3 DEF RunRecord, RunAt
    <3> HIDE DEF rec
    <3> QED
      BY <1>0, <3>1, <3>4, RunMoves
  <2>3. RecordsOK' /\ QueueOK' /\ WorkerOK' /\ RequestsOK' /\ BoundOK'
    BY <1>0, <1>20 DEF make_registry, RecordsOK, QueueOK, WorkerOK, RequestsOK, BoundOK
  <2> QED
    BY <2>1, <2>2, <2>3 DEF TypeInv
<1>21. ASSUME NEW r \in Runs, reserve(r) PROVE TypeInv'
  <2>1. RegistriesOK'
    <3>1. KeyOf(r) \in Nat \X Threads /\ run[r].turn \in Turns
      BY <1>0, <1>21, RunFacts DEF reserve, KeyOf
    <3> QED
      BY <1>0, <1>21, <3>1 DEF reserve, RegistriesOK
  <2>2. RunsOK'
    <3> DEFINE rec == [run[r] EXCEPT !.at = "reserved"]
    <3>1. run' = [run EXCEPT ![r] = rec]
      BY <1>0, <1>21 DEF reserve, RunsOK, RunRecord
    <3>2. run[r] \in RunRecord /\ run[r].turn \in Turns /\ run[r].reg \in Nat
      BY <1>0, <1>21, RunFacts DEF reserve
    <3>3. /\ rec \in RunRecord
          /\ rec.at # "free" => rec.turn # NoTurn
          /\ rec.at = "settled" => rec.want # "none"
      BY <1>21, <3>2 DEF RunRecord, RunAt, Free, Terminal
    <3> HIDE DEF rec
    <3> QED
      BY <1>0, <3>1, <3>3, RunMoves
  <2>3. RecordsOK' /\ QueueOK' /\ WorkerOK' /\ RequestsOK' /\ BoundOK'
    BY <1>0, <1>21 DEF reserve, RecordsOK, QueueOK, WorkerOK, RequestsOK, BoundOK
  <2> QED
    BY <2>1, <2>2, <2>3 DEF TypeInv
<1>22. ASSUME NEW r \in Runs, compact_reserves(r) PROVE TypeInv'
  <2>1. RegistriesOK'
    <3>1. KeyOf(r) \in Nat \X Threads /\ run[r].turn \in Turns
      BY <1>0, <1>22, RunFacts DEF compact_reserves, KeyOf
    <3> QED
      BY <1>0, <1>22, <3>1 DEF compact_reserves, RegistriesOK
  <2>2. RunsOK'
    <3> DEFINE rec == [run[r] EXCEPT !.at = "compacting"]
    <3>1. run' = [run EXCEPT ![r] = rec]
      BY <1>0, <1>22 DEF compact_reserves, RunsOK, RunRecord
    <3>2. run[r] \in RunRecord /\ run[r].turn \in Turns /\ run[r].reg \in Nat
      BY <1>0, <1>22, RunFacts DEF compact_reserves
    <3>3. /\ rec \in RunRecord
          /\ rec.at # "free" => rec.turn # NoTurn
          /\ rec.at = "settled" => rec.want # "none"
      BY <1>22, <3>2 DEF RunRecord, RunAt, Free, Terminal
    <3> HIDE DEF rec
    <3> QED
      BY <1>0, <3>1, <3>3, RunMoves
  <2>3. RecordsOK' /\ QueueOK' /\ WorkerOK' /\ RequestsOK' /\ BoundOK'
    BY <1>0, <1>22 DEF compact_reserves, RecordsOK, QueueOK, WorkerOK, RequestsOK, BoundOK
  <2> QED
    BY <2>1, <2>2, <2>3 DEF TypeInv
<1>23. ASSUME NEW r \in Runs, conflicts(r) PROVE TypeInv'
  <2>1. WorkerOK'
    BY <1>0, <1>23 DEF conflicts, Returned, WorkerOK, Idle
  <2>2. RunsOK'
    <3> DEFINE rec == Free
    <3>1. run' = [run EXCEPT ![r] = rec]
      BY <1>0, <1>23 DEF conflicts, Returned, RunsOK, RunRecord
    <3>2. /\ rec \in RunRecord
          /\ rec.at # "free" => rec.turn # NoTurn
          /\ rec.at = "settled" => rec.want # "none"
      BY <1>0, <1>23 DEF conflicts, Returned, RunsOK, RunRecord, RunAt, Free, Terminal
    <3> HIDE DEF rec
    <3> QED
      BY <1>0, <3>1, <3>2, RunMoves
  <2>3. RecordsOK' /\ QueueOK' /\ RegistriesOK' /\ RequestsOK' /\ BoundOK'
    BY <1>0, <1>23 DEF conflicts, Returned, RecordsOK, QueueOK, RegistriesOK, RequestsOK, BoundOK
  <2> QED
    BY <2>1, <2>2, <2>3 DEF TypeInv
<1>24. ASSUME NEW r \in Runs, create_compact_turn(r) PROVE TypeInv'
  <2>1. RecordsOK'
    <3>1. ThreadOf[run[r].turn] \in Threads
      BY <1>0, <1>24, RunFacts DEF create_compact_turn
    <3> QED
      BY <1>0, <1>24, <3>1 DEF create_compact_turn, RecordsOK
  <2>2. RunsOK'
    <3> DEFINE rec == [run[r] EXCEPT !.at = "compacted"]
    <3>1. run' = [run EXCEPT ![r] = rec]
      BY <1>0, <1>24 DEF create_compact_turn, RunsOK, RunRecord
    <3>2. run[r] \in RunRecord /\ run[r].turn \in Turns /\ run[r].reg \in Nat
      BY <1>0, <1>24, RunFacts DEF create_compact_turn
    <3>3. /\ rec \in RunRecord
          /\ rec.at # "free" => rec.turn # NoTurn
          /\ rec.at = "settled" => rec.want # "none"
      BY <1>24, <3>2 DEF RunRecord, RunAt, Free, Terminal
    <3> HIDE DEF rec
    <3> QED
      BY <1>0, <3>1, <3>3, RunMoves
  <2>3. QueueOK' /\ WorkerOK' /\ RegistriesOK' /\ RequestsOK' /\ BoundOK'
    BY <1>0, <1>24 DEF create_compact_turn, QueueOK, WorkerOK, RegistriesOK, RequestsOK, BoundOK
  <2> QED
    BY <2>1, <2>2, <2>3 DEF TypeInv
<1>25. ASSUME NEW r \in Runs, compact_done(r) PROVE TypeInv'
  <2>1. RecordsOK'
    <3>1. ThreadOf[run[r].turn] \in Threads
      BY <1>0, <1>25, RunFacts DEF compact_done
    <3> QED
      BY <1>0, <1>25, <3>1 DEF compact_done, RecordsOK
  <2>2. RegistriesOK'
    BY <1>0, <1>25 DEF compact_done, RegistriesOK
  <2>3. RunsOK'
    <3> DEFINE rec == Free
    <3>1. run' = [run EXCEPT ![r] = rec]
      BY <1>0, <1>25 DEF compact_done, RunsOK, RunRecord
    <3>2. /\ rec \in RunRecord
          /\ rec.at # "free" => rec.turn # NoTurn
          /\ rec.at = "settled" => rec.want # "none"
      BY <1>0, <1>25 DEF compact_done, RunsOK, RunRecord, RunAt, Free, Terminal
    <3> HIDE DEF rec
    <3> QED
      BY <1>0, <3>1, <3>2, RunMoves
  <2>4. QueueOK' /\ WorkerOK' /\ RequestsOK' /\ BoundOK'
    BY <1>0, <1>25 DEF compact_done, QueueOK, WorkerOK, RequestsOK, BoundOK
  <2> QED
    BY <2>1, <2>2, <2>3, <2>4 DEF TypeInv
<1>26. ASSUME NEW t \in Turns, NEW r \in Runs, resume_turn(t, r) PROVE TypeInv'
  <2>1. RunsOK'
    <3> DEFINE rec == [Free EXCEPT !.at = "requested", !.turn = t, !.compacts = FALSE]
    <3>1. run' = [run EXCEPT ![r] = rec]
      BY <1>0, <1>26 DEF resume_turn, Check, RunsOK, RunRecord
    <3>2. /\ rec \in RunRecord
          /\ rec.at # "free" => rec.turn # NoTurn
          /\ rec.at = "settled" => rec.want # "none"
      BY <1>0, <1>26 DEF resume_turn, Check, RunsOK, RunRecord, RunAt, Free, Terminal
    <3> HIDE DEF rec
    <3> QED
      BY <1>0, <3>1, <3>2, RunMoves
  <2>2. RecordsOK' /\ QueueOK' /\ WorkerOK' /\ RegistriesOK' /\ RequestsOK' /\ BoundOK'
    BY <1>0, <1>26 DEF resume_turn, Check, RecordsOK, QueueOK, WorkerOK, RegistriesOK, RequestsOK, BoundOK
  <2> QED
    BY <2>1, <2>2 DEF TypeInv
<1>27. ASSUME NEW t \in Turns, NEW r \in Runs, compact_turn(t, r) PROVE TypeInv'
  <2>1. RunsOK'
    <3> DEFINE rec == [Free EXCEPT !.at = "requested", !.turn = t, !.compacts = TRUE]
    <3>1. run' = [run EXCEPT ![r] = rec]
      BY <1>0, <1>27 DEF compact_turn, Check, RunsOK, RunRecord
    <3>2. /\ rec \in RunRecord
          /\ rec.at # "free" => rec.turn # NoTurn
          /\ rec.at = "settled" => rec.want # "none"
      BY <1>0, <1>27 DEF compact_turn, Check, RunsOK, RunRecord, RunAt, Free, Terminal
    <3> HIDE DEF rec
    <3> QED
      BY <1>0, <3>1, <3>2, RunMoves
  <2>2. RecordsOK' /\ QueueOK' /\ WorkerOK' /\ RegistriesOK' /\ RequestsOK' /\ BoundOK'
    BY <1>0, <1>27 DEF compact_turn, Check, RecordsOK, QueueOK, WorkerOK, RegistriesOK, RequestsOK, BoundOK
  <2> QED
    BY <2>1, <2>2 DEF TypeInv
<1>28. ASSUME NEW d \in Deliveries, create_turn(d) PROVE TypeInv'
  <2>1. QueueOK'
    BY <1>0, <1>28 DEF create_turn, QueueOK
  <2>2. RecordsOK' /\ WorkerOK' /\ RegistriesOK' /\ RunsOK' /\ RequestsOK' /\ BoundOK'
    BY <1>0, <1>28 DEF create_turn, RecordsOK, WorkerOK, RegistriesOK, RunsOK, RequestsOK, BoundOK
  <2> QED
    BY <2>1, <2>2 DEF TypeInv
<1>29. ASSUME NEW d \in Deliveries, rewind_turn(d) PROVE TypeInv'
  <2>1. QueueOK'
    BY <1>0, <1>29 DEF rewind_turn, QueueOK
  <2>2. RecordsOK' /\ WorkerOK' /\ RegistriesOK' /\ RunsOK' /\ RequestsOK' /\ BoundOK'
    BY <1>0, <1>29 DEF rewind_turn, RecordsOK, WorkerOK, RegistriesOK, RunsOK, RequestsOK, BoundOK
  <2> QED
    BY <2>1, <2>2 DEF TypeInv
<1>30. ASSUME NEW d \in Deliveries, dispatch_turn_start(d) PROVE TypeInv'
  <2>1. QueueOK'
    BY <1>0, <1>30 DEF dispatch_turn_start, QueueOK
  <2>2. RecordsOK' /\ WorkerOK' /\ RegistriesOK' /\ RunsOK' /\ RequestsOK' /\ BoundOK'
    BY <1>0, <1>30 DEF dispatch_turn_start, RecordsOK, WorkerOK, RegistriesOK, RunsOK, RequestsOK, BoundOK
  <2> QED
    BY <2>1, <2>2 DEF TypeInv
<1>31. ASSUME NEW t \in Turns, request_pause(t) PROVE TypeInv'
  <2>1. RunsOK'
    <3> DEFINE q == controller[t]
               rec == [run[q] EXCEPT !.asked = TRUE]
    <3>1. q \in Runs /\ run[q].at \in Unsettled
      BY <1>0, <1>31 DEF request_pause, RegistriesOK
    <3>2. run' = [run EXCEPT ![q] = rec]
      BY <1>0, <1>31 DEF request_pause, RunsOK, RunRecord
    <3>3. run[q] \in RunRecord /\ run[q].turn \in Turns /\ run[q].at # "settled"
      BY <1>0, <3>1, RunFacts DEF Unsettled
    <3>4. rec \in RunRecord /\ rec.turn # NoTurn /\ rec.at # "settled"
      BY <3>3 DEF RunRecord
    <3> HIDE DEF q, rec
    <3> QED
      BY <1>0, <3>1, <3>2, <3>4, RunMoves
  <2>2. RecordsOK' /\ QueueOK' /\ WorkerOK' /\ RegistriesOK' /\ RequestsOK' /\ BoundOK'
    BY <1>0, <1>31 DEF request_pause, RecordsOK, QueueOK, WorkerOK, RegistriesOK, RequestsOK, BoundOK
  <2> QED
    BY <2>1, <2>2 DEF TypeInv
<1>32. ASSUME NEW t \in Turns, pause_turn(t) PROVE TypeInv'
  <2>1. RequestsOK'
    <3>1. [NoRecord EXCEPT !.turn = t] \in Record /\ [NoRecord EXCEPT !.turn = t].turn = t
      BY DEF NoRecord, Record, Statuses
    <3> QED
      BY <1>0, <1>32, <3>1 DEF pause_turn, RequestsOK
  <2>2. RecordsOK' /\ QueueOK' /\ WorkerOK' /\ RegistriesOK' /\ RunsOK' /\ BoundOK'
    BY <1>0, <1>32 DEF pause_turn, RecordsOK, QueueOK, WorkerOK, RegistriesOK, RunsOK, BoundOK
  <2> QED
    BY <2>1, <2>2 DEF TypeInv
<1>33. ASSUME pause_reads PROVE TypeInv'
  <2>1. RequestsOK'
    <3> DEFINE rec == [turn |-> pausing.turn, status |-> "running", versions |-> versions[pausing.turn]]
    <3>1. rec \in Record /\ rec.turn # NoTurn
      BY <1>0, <1>33 DEF pause_reads, RecordsOK, RequestsOK, Record, Statuses
    <3>2. NoRecord \in Record
      BY DEF NoRecord, Record, Statuses
    <3>3. pausing' \in {rec, NoRecord} /\ patch' = patch
      BY <1>33 DEF pause_reads
    <3> HIDE DEF rec
    <3> QED
      BY <1>0, <3>1, <3>2, <3>3 DEF RequestsOK
  <2>2. RecordsOK' /\ QueueOK' /\ WorkerOK' /\ RegistriesOK' /\ RunsOK' /\ BoundOK'
    BY <1>0, <1>33 DEF pause_reads, RecordsOK, QueueOK, WorkerOK, RegistriesOK, RunsOK, BoundOK
  <2> QED
    BY <2>1, <2>2 DEF TypeInv
<1>34. ASSUME pause_seals PROVE TypeInv'
  <2>1. RecordsOK'
    <3>1. pausing.turn \in Turns /\ pausing.versions \in SUBSET Deliveries
      BY <1>0, <1>34 DEF pause_seals, RequestsOK, Record, NoRecord
    <3>2. finalize_node(pausing.turn, "paused", pausing.versions) \/ UNCHANGED records
      BY <1>34 DEF pause_seals
    <3> QED
      BY <1>0, <3>1, <3>2, StoreWrites DEF Statuses, Terminal, RecordsOK
  <2>2. RequestsOK'
    BY <1>0, <1>34 DEF pause_seals, finalize_node, set_thread_head, RequestsOK, Record, Statuses, NoRecord, Terminal
  <2>3. QueueOK' /\ WorkerOK' /\ RegistriesOK' /\ RunsOK' /\ BoundOK'
    BY <1>0, <1>34 DEF pause_seals, finalize_node, set_thread_head, QueueOK, WorkerOK, RegistriesOK, RunsOK, BoundOK
  <2> QED
    BY <2>1, <2>2, <2>3 DEF TypeInv
<1>35. ASSUME claim_turn_start PROVE TypeInv'
  <2>1. QueueOK'
    BY <1>0, <1>35 DEF claim_turn_start, At, QueueOK
  <2>2. WorkerOK'
    <3>1. Head(stream) \in Deliveries
      BY <1>0, <1>35 DEF claim_turn_start, QueueOK
    <3> QED
      BY <1>0, <1>35, <3>1 DEF claim_turn_start, WorkerOK, Idle
  <2>3. RecordsOK' /\ RegistriesOK' /\ RunsOK' /\ RequestsOK' /\ BoundOK'
    BY <1>0, <1>35 DEF claim_turn_start, At, RecordsOK, RegistriesOK, RunsOK, RequestsOK, BoundOK
  <2> QED
    BY <2>1, <2>2, <2>3 DEF TypeInv
<1>36. ASSUME reclaim_turn_start PROVE TypeInv'
  <2>1. WorkerOK'
    <3>1. claimed \in Deliveries
      BY <1>0, <1>36 DEF reclaim_turn_start, QueueOK
    <3> QED
      BY <1>0, <1>36, <3>1 DEF reclaim_turn_start, WorkerOK, Idle
  <2>2. RecordsOK' /\ QueueOK' /\ RegistriesOK' /\ RunsOK' /\ RequestsOK' /\ BoundOK'
    BY <1>0, <1>36 DEF reclaim_turn_start, At, RecordsOK, QueueOK, RegistriesOK, RunsOK, RequestsOK, BoundOK
  <2> QED
    BY <2>1, <2>2 DEF TypeInv
<1>37. ASSUME look_up PROVE TypeInv'
  <2>1. QueueOK'
    <3>1. worker.delivery \in Deliveries
      BY <1>0, <1>37 DEF look_up, At, WorkerOK
    <3>2. UNCHANGED queue \/ Acknowledge(worker.delivery)
      BY <1>37 DEF look_up
    <3> QED
      BY <1>0, <3>1, <3>2 DEF QueueOK, Acknowledge
  <2>2. WorkerOK'
    BY <1>0, <1>37 DEF look_up, At, Goto, Acknowledge, WorkerOK, Idle
  <2>3. RecordsOK' /\ RegistriesOK' /\ RunsOK' /\ RequestsOK' /\ BoundOK'
    BY <1>0, <1>37 DEF look_up, At, Goto, Acknowledge, RecordsOK, RegistriesOK, RunsOK, RequestsOK, BoundOK
  <2> QED
    BY <2>1, <2>2, <2>3 DEF TypeInv
<1>38. ASSUME read_version PROVE TypeInv'
  <2>1. WorkerOK'
    BY <1>0, <1>38 DEF read_version, At, Goto, WorkerOK, Idle
  <2>2. RecordsOK' /\ QueueOK' /\ RegistriesOK' /\ RunsOK' /\ RequestsOK' /\ BoundOK'
    BY <1>0, <1>38 DEF read_version, At, Goto, RecordsOK, QueueOK, RegistriesOK, RunsOK, RequestsOK, BoundOK
  <2> QED
    BY <2>1, <2>2 DEF TypeInv
<1>39. ASSUME append_turn_version PROVE TypeInv'
  <2>1. RecordsOK'
    <3> DEFINE d == worker.delivery
               t == Start[d].turn
    <3>1. d \in Deliveries /\ t \in Turns /\ versions[t] \cup {d} \in SUBSET Deliveries
      BY <1>0, <1>39 DEF append_turn_version, At, WorkerOK, RecordsOK
    <3>2. claim_thread_turn(t) /\ status' = [status EXCEPT ![t] = "running"]
          /\ versions' = [versions EXCEPT ![t] = versions[t] \cup {d}]
      BY <1>39 DEF append_turn_version
    <3> HIDE DEF d, t
    <3> QED
      BY <1>0, <3>1, <3>2, StoreWrites DEF Statuses
  <2>2. WorkerOK'
    BY <1>0, <1>39 DEF append_turn_version, At, Goto, claim_thread_turn, WorkerOK, Idle
  <2>3. QueueOK' /\ RegistriesOK' /\ RunsOK' /\ RequestsOK' /\ BoundOK'
    BY <1>0, <1>39 DEF append_turn_version, At, Goto, claim_thread_turn, QueueOK, RegistriesOK, RunsOK, RequestsOK, BoundOK
  <2> QED
    BY <2>1, <2>2, <2>3 DEF TypeInv
<1>40. ASSUME append_refused PROVE TypeInv'
  <2>1. WorkerOK'
    BY <1>0, <1>40 DEF append_refused, At, WorkerOK, Idle
  <2>2. RecordsOK' /\ QueueOK' /\ RegistriesOK' /\ RunsOK' /\ RequestsOK' /\ BoundOK'
    BY <1>0, <1>40 DEF append_refused, At, RecordsOK, QueueOK, RegistriesOK, RunsOK, RequestsOK, BoundOK
  <2> QED
    BY <2>1, <2>2 DEF TypeInv
<1>41. ASSUME restart PROVE TypeInv'
  <2>1. RecordsOK'
    BY <1>0, <1>41 DEF restart, RecordsOK, Statuses, Terminal
  <2>2. QueueOK' /\ WorkerOK' /\ RegistriesOK' /\ BoundOK'
    BY <1>0, <1>41 DEF restart, QueueOK, WorkerOK, RegistriesOK, BoundOK, Idle
  <2>3. RunsOK' /\ RequestsOK'
    BY <1>0, <1>41 DEF restart, RunsOK, RunRecord, RunAt, Free, RequestsOK, Record, NoRecord, Statuses
  <2> QED
    BY <2>1, <2>2, <2>3 DEF TypeInv
<1>42. ASSUME NEW p \in Patchers, NEW t \in Turns, patch_reads(p, t) PROVE TypeInv'
  <2>1. RequestsOK'
    <3> DEFINE rec == [turn |-> t, status |-> status[t], versions |-> versions[t]]
    <3>1. rec \in Record /\ rec.turn # NoTurn /\ rec.status # "none"
      BY <1>0, <1>42 DEF RecordsOK, Record, patch_reads
    <3>2. patch' = [patch EXCEPT ![p] = rec]
      BY <1>42 DEF patch_reads
    <3> HIDE DEF rec
    <3> QED
      BY <1>0, <1>42, <3>1, <3>2 DEF patch_reads, RequestsOK
  <2>2. RecordsOK' /\ QueueOK' /\ WorkerOK' /\ RegistriesOK' /\ RunsOK' /\ BoundOK'
    BY <1>0, <1>42 DEF patch_reads, RecordsOK, QueueOK, WorkerOK, RegistriesOK, RunsOK, BoundOK
  <2> QED
    BY <2>1, <2>2 DEF TypeInv
<1>43. ASSUME NEW p \in Patchers, set_turn_current_data(p) PROVE TypeInv'
  <2>1. RecordsOK'
    <3>1. patch[p].turn \in Turns /\ patch[p].status \in Statuses /\ patch[p].versions \in SUBSET Deliveries
      BY <1>0, <1>43 DEF set_turn_current_data, RequestsOK, Record
    <3>2. update_node(patch[p].turn, patch[p].status, patch[p].versions)
      BY <1>43 DEF set_turn_current_data
    <3> QED
      BY <1>0, <3>1, <3>2, StoreWrites
  <2>2. RequestsOK'
    BY <1>0, <1>43 DEF set_turn_current_data, update_node, set_thread_head, RequestsOK, Record, Statuses, NoRecord, Terminal
  <2>3. QueueOK' /\ WorkerOK' /\ RegistriesOK' /\ RunsOK' /\ BoundOK'
    BY <1>0, <1>43 DEF set_turn_current_data, update_node, set_thread_head, QueueOK, WorkerOK, RegistriesOK, RunsOK, BoundOK
  <2> QED
    BY <2>1, <2>2, <2>3 DEF TypeInv
<1> QED
  BY <1>1, <1>2, <1>3, <1>4, <1>5, <1>6, <1>7, <1>8, <1>9, <1>10, <1>11, <1>12, <1>13, <1>14, <1>15, <1>16, <1>17, <1>18, <1>19, <1>20, <1>21, <1>22, <1>23, <1>24, <1>25, <1>26, <1>27, <1>28, <1>29, <1>30, <1>31, <1>32, <1>33, <1>34, <1>35, <1>36, <1>37, <1>38, <1>39, <1>40, <1>41, <1>42, <1>43
     DEF Next, MessageWorker, RunStep, Endpoint, patch_current_data

-----------------------------------------------------------------------------
(***************************************************************************)
(* No store call leaves a Thread to a Turn that has ended.                 *)
(***************************************************************************)
LEMMA WritesKeepClaim ==
  ASSUME RecordsOK, ClaimIsLive, NEW t \in Turns, NEW s \in Statuses, NEW copy \in SUBSET Deliveries,
         \/ s # "none" /\ update_node(t, s, copy)
         \/ finalize_node(t, s, copy)
         \/ /\ s = "running" /\ claim_thread_turn(t)
            /\ status' = [status EXCEPT ![t] = s]
  PROVE  ClaimIsLive'
<1> USE TurnsAreOfThreads DEF RecordsOK, ClaimIsLive
<1> SUFFICES ASSUME NEW th \in Threads, running'[th] \in Turns
             PROVE  status'[running'[th]] = "running"
  OBVIOUS
<1>1. status' = [status EXCEPT ![t] = s]
  BY DEF update_node, finalize_node
<1>2. CASE s = "running" /\ (claim_thread_turn(t) \/ running' = running)
  BY <1>1, <1>2 DEF claim_thread_turn
<1>3. CASE set_thread_head(t)
  <2>1. running'[th] = running[th] /\ running[th] # t
    BY <1>3 DEF set_thread_head
  <2> QED
    BY <1>1, <2>1
<1> QED
  BY <1>2, <1>3 DEF update_node, finalize_node, Statuses, Terminal

(***************************************************************************)
(* So no step does.                                                        *)
(***************************************************************************)
LEMMA ClaimStep ==
  ASSUME TypeInv, ClaimIsLive, Next \/ patch_current_data PROVE ClaimIsLive'
<1>0. RecordsOK /\ WorkerOK /\ RunsOK /\ RequestsOK
  BY DEF TypeInv
<1> USE TurnsAreOfThreads, StartsAreOfTurns
<1>1. ASSUME NEW r \in Runs, create_node(r) PROVE ClaimIsLive'
  <2>1. run[r].turn \in Turns /\ run[r].copy \in SUBSET Deliveries
    BY <1>0, <1>1, RunFacts DEF create_node
  <2>2. claim_thread_turn(run[r].turn) /\ status' = [status EXCEPT ![run[r].turn] = "running"]
    BY <1>1 DEF create_node
  <2> QED
    BY <1>0, <2>1, <2>2, WritesKeepClaim DEF Statuses, Terminal
<1>2. ASSUME NEW r \in Runs, resume_turn_node(r) PROVE ClaimIsLive'
  <2>1. run[r].turn \in Turns /\ run[r].copy \in SUBSET Deliveries
    BY <1>0, <1>2, RunFacts DEF resume_turn_node, Step
  <2>2. claim_thread_turn(run[r].turn) /\ status' = [status EXCEPT ![run[r].turn] = "running"]
    BY <1>2 DEF resume_turn_node
  <2> QED
    BY <1>0, <2>1, <2>2, WritesKeepClaim DEF Statuses, Terminal
<1>3. ASSUME NEW r \in Runs, snapshot(r) PROVE ClaimIsLive'
  <2>1. run[r].turn \in Turns /\ run[r].copy \in SUBSET Deliveries
    BY <1>0, <1>3, RunFacts DEF snapshot, Step
  <2>2. update_node(run[r].turn, "running", run[r].copy)
    BY <1>3 DEF snapshot
  <2> QED
    BY <1>0, <2>1, <2>2, WritesKeepClaim DEF Statuses, Terminal
<1>4. ASSUME NEW r \in Runs, persist(r) PROVE ClaimIsLive'
  <2>1. run[r].turn \in Turns /\ run[r].copy \in SUBSET Deliveries
    BY <1>0, <1>4, RunFacts DEF persist
  <2>2. update_node(run[r].turn, "running", run[r].copy)
    BY <1>4 DEF persist
  <2> QED
    BY <1>0, <2>1, <2>2, WritesKeepClaim DEF Statuses, Terminal
<1>5. ASSUME NEW r \in Runs, finish(r) PROVE ClaimIsLive'
  <2>1. run[r].turn \in Turns /\ run[r].copy \in SUBSET Deliveries /\ run[r].want \in Terminal
    BY <1>0, <1>5, RunFacts DEF finish, Close
  <2>2. update_node(run[r].turn, run[r].want, run[r].copy) \/ UNCHANGED records
    BY <1>5 DEF finish
  <2> QED
    BY <1>0, <2>1, <2>2, WritesKeepClaim DEF Statuses, Terminal, ClaimIsLive, records
<1>6. ASSUME append_turn_version PROVE ClaimIsLive'
  <2> DEFINE t == Start[worker.delivery].turn
  <2>1. t \in Turns
    BY <1>0, <1>6 DEF append_turn_version, At, WorkerOK
  <2>2. claim_thread_turn(t) /\ status' = [status EXCEPT ![t] = "running"]
    BY <1>6 DEF append_turn_version
  <2> HIDE DEF t
  <2> QED
    BY <1>0, <2>1, <2>2, WritesKeepClaim DEF Statuses
<1>7. ASSUME pause_seals PROVE ClaimIsLive'
  <2>1. pausing.turn \in Turns /\ pausing.versions \in SUBSET Deliveries
    BY <1>0, <1>7 DEF pause_seals, RequestsOK, Record, NoRecord
  <2>2. finalize_node(pausing.turn, "paused", pausing.versions) \/ UNCHANGED records
    BY <1>7 DEF pause_seals
  <2> QED
    BY <1>0, <2>1, <2>2, WritesKeepClaim DEF Statuses, Terminal, ClaimIsLive, records
<1>8. ASSUME NEW p \in Patchers, set_turn_current_data(p) PROVE ClaimIsLive'
  <2>1. /\ patch[p].turn \in Turns /\ patch[p].status \in Statuses /\ patch[p].status # "none"
        /\ patch[p].versions \in SUBSET Deliveries
    BY <1>0, <1>8 DEF set_turn_current_data, RequestsOK, Record
  <2>2. update_node(patch[p].turn, patch[p].status, patch[p].versions)
    BY <1>8 DEF set_turn_current_data
  <2> QED
    BY <1>0, <2>1, <2>2, WritesKeepClaim
<1>9. ASSUME NEW r \in Runs, create_compact_turn(r) PROVE ClaimIsLive'
  BY <1>0, <1>9 DEF create_compact_turn, ClaimIsLive, RecordsOK
<1>10. ASSUME NEW r \in Runs, compact_done(r) PROVE ClaimIsLive'
  BY <1>0, <1>10 DEF compact_done, ClaimIsLive, RecordsOK
<1>11. ASSUME restart PROVE ClaimIsLive'
  BY <1>0, <1>11 DEF restart, ClaimIsLive, RecordsOK
<1>12. CASE UNCHANGED records
  BY <1>12 DEF records, ClaimIsLive
<1>13. ASSUME NEW r \in Runs, RunStep(r) PROVE ClaimIsLive'
  BY <1>1, <1>2, <1>3, <1>4, <1>5, <1>9, <1>10, <1>12, <1>13
     DEF RunStep, Elsewhere, find_registry, make_registry, reserve, compact_reserves, conflicts, submit, submit_raises,
         startup_fails, start_reads, setup_raises, start_raises, on_started, ack_unavailable, settle,
         release_key, pop_controller, pop_stream
<1>14. ASSUME MessageWorker PROVE ClaimIsLive'
  BY <1>6, <1>12, <1>14
     DEF MessageWorker, claim_turn_start, reclaim_turn_start, look_up, read_version, append_refused, launch
<1>15. ASSUME Endpoint PROVE ClaimIsLive'
  BY <1>7, <1>12, <1>15
     DEF Endpoint, create_turn, rewind_turn, dispatch_turn_start, resume_turn, compact_turn, request_pause,
         pause_turn, pause_reads
<1>16. ASSUME patch_current_data PROVE ClaimIsLive'
  BY <1>8, <1>12, <1>16 DEF patch_current_data, patch_reads
<1> QED
  BY <1>11, <1>13, <1>14, <1>15, <1>16 DEF Next

-----------------------------------------------------------------------------
(***************************************************************************)
(* What the reservations rest on: the keys are those of their holders, one *)
(* holder to a key, and a holder's registry is one that was made, so while *)
(* a single one was made every holder is in it.  StreamIsOfTheRun is not   *)
(* inductive: a run enters the registry of streams when it reserves,       *)
(* before it executes, so the invariant has to speak of the reserved run   *)
(* as well.                                                                *)
(***************************************************************************)
Entered == Executing \cup {"reserved"}

KeysOwned ==
  /\ keys = {KeyOf(r) : r \in Holders}
  /\ \A r, q \in Holders : KeyOf(r) = KeyOf(q) => r = q

RegInv == \A r \in Runs : run[r].at \in Holding \cup {"registered"} => run[r].reg \in 1 .. made

StreamInv == made < 2 => \A r \in Runs : run[r].at \in Entered => active[run[r].turn] = r

HoldInv == KeysOwned /\ RegInv /\ StreamInv

(* A run that becomes rec neither takes nor gives up a reservation or an entry. *)
Calm(r, rec) ==
  /\ rec.at \in Holding <=> run[r].at \in Holding
  /\ rec.at \in Holding => rec.turn = run[r].turn /\ rec.reg = run[r].reg
  /\ rec.at \in Entered => run[r].at \in Entered
  /\ rec.at = "registered" => rec.reg \in 1 .. made'

(* Such a step keeps HoldInv, also when it makes a registry. *)
LEMMA CalmKeepsHoldInv ==
  ASSUME RunsOK, RegistriesOK, HoldInv, NEW r \in Runs, NEW rec, Calm(r, rec),
         run' = [run EXCEPT ![r] = rec],
         keys' = keys, active' = active, made' \in {made, made + 1}
  PROVE  HoldInv'
<1>1. \A q \in Runs : run'[q] = IF q = r THEN rec ELSE run[q]
  BY DEF RunsOK
<1>2. /\ \A q \in Runs : run'[q].at \in Holding <=> run[q].at \in Holding
      /\ \A q \in Runs : run'[q].at \in Holding => run'[q].turn = run[q].turn /\ run'[q].reg = run[q].reg
      /\ \A q \in Runs : run'[q].at \in Entered => run[q].at \in Entered
  BY <1>1 DEF Calm
<1>3. KeysOwned'
  <2>1. Holders' = Holders /\ \A q \in Holders : KeyOf(q)' = KeyOf(q)
    BY <1>2 DEF Holders, KeyOf
  <2> QED
    BY <2>1 DEF HoldInv, KeysOwned
<1>4. RegInv'
  <2> SUFFICES ASSUME NEW q \in Runs, run'[q].at \in Holding \cup {"registered"} PROVE run'[q].reg \in 1 .. made'
    BY DEF RegInv
  <2>1. made \in Nat
    BY DEF RegistriesOK
  <2>2. CASE run'[q].at \in Holding
    <3>1. run[q].reg \in 1 .. made /\ run'[q].reg = run[q].reg
      BY <1>2, <2>2 DEF HoldInv, RegInv
    <3> QED
      BY <2>1, <3>1
  <2>3. CASE run'[q].at = "registered" /\ q = r
    BY <1>1, <2>3 DEF Calm
  <2>4. CASE run'[q].at = "registered" /\ q # r
    <3>1. run[q].reg \in 1 .. made /\ run'[q].reg = run[q].reg
      BY <1>1, <2>4 DEF HoldInv, RegInv
    <3> QED
      BY <2>1, <3>1
  <2> QED
    BY <2>2, <2>3, <2>4
<1>5. StreamInv'
  <2>1. \A q \in Runs : run'[q].at \in Entered => run'[q].turn = run[q].turn
    BY <1>2 DEF Entered, Holding
  <2>2. made' < 2 => made < 2
    BY DEF RegistriesOK
  <2> QED
    BY <1>2, <2>1, <2>2 DEF HoldInv, StreamInv
<1> QED
  BY <1>3, <1>4, <1>5 DEF HoldInv

(* So does a step that leaves the runs and the registries alone. *)
LEMMA UnchangedKeepsHoldInv ==
  ASSUME HoldInv, UNCHANGED <<made, keys, active, run>> PROVE HoldInv'
<1>1. Holders' = Holders /\ \A r \in Holders : KeyOf(r)' = KeyOf(r)
  BY DEF Holders, KeyOf
<1> QED
  BY <1>1 DEF HoldInv, KeysOwned, RegInv, StreamInv

(* Taking a key that nobody holds, and giving one up. *)
LEMMA TakesKey ==
  ASSUME RunsOK, HoldInv, NEW r \in Runs, NEW rec,
         run[r].at = "registered", KeyOf(r) \notin keys,
         keys' = keys \cup {KeyOf(r)}, made' = made, run' = [run EXCEPT ![r] = rec],
         rec.at \in Holding, rec.turn = run[r].turn, rec.reg = run[r].reg
  PROVE  KeysOwned' /\ RegInv'
<1>1. \A q \in Runs : run'[q] = IF q = r THEN rec ELSE run[q]
  BY DEF RunsOK
<1>2. Holders' = Holders \cup {r}
  BY <1>1 DEF Holders
<1>3. \A q \in Holders' : KeyOf(q)' = KeyOf(q)
  BY <1>1 DEF KeyOf, Holders
<1>4. \A q \in Holders : KeyOf(q) \in keys
  BY DEF HoldInv, KeysOwned
<1>5. KeysOwned'
  <2>1. keys' = {KeyOf(q) : q \in Holders'}
    BY <1>2 DEF HoldInv, KeysOwned
  <2>2. \A p, q \in Holders' : KeyOf(p) = KeyOf(q) => p = q
    BY <1>2, <1>4 DEF HoldInv, KeysOwned
  <2> QED
    BY <1>3, <2>1, <2>2 DEF KeysOwned
<1>6. RegInv'
  BY <1>1 DEF HoldInv, RegInv
<1> QED
  BY <1>5, <1>6

(* A holder that leaves with its key. *)
LEMMA FreesKey ==
  ASSUME RunsOK, HoldInv, NEW r \in Runs, NEW rec,
         run[r].at \in Holding, keys' = keys \ {KeyOf(r)}, made' = made,
         run' = [run EXCEPT ![r] = rec], rec.at \notin Holding \cup {"registered"}
  PROVE  KeysOwned' /\ RegInv'
<1>1. \A q \in Runs : run'[q] = IF q = r THEN rec ELSE run[q]
  BY DEF RunsOK
<1>2. Holders' = Holders \ {r} /\ r \in Holders
  BY <1>1 DEF Holders
<1>3. \A q \in Holders' : KeyOf(q)' = KeyOf(q)
  BY <1>1, <1>2 DEF KeyOf, Holders
<1>4. KeysOwned'
  <2>1. keys' = {KeyOf(q) : q \in Holders'}
    BY <1>2 DEF HoldInv, KeysOwned
  <2>2. \A p, q \in Holders' : KeyOf(p) = KeyOf(q) => p = q
    BY <1>2 DEF HoldInv, KeysOwned
  <2> QED
    BY <1>3, <2>1, <2>2 DEF KeysOwned
<1>5. RegInv'
  BY <1>1 DEF HoldInv, RegInv
<1> QED
  BY <1>4, <1>5

(***************************************************************************)
(* Every step keeps HoldInv.                                               *)
(***************************************************************************)
LEMMA HoldStep ==
  ASSUME TypeInv, HoldInv, Next \/ patch_current_data PROVE HoldInv'
<1>0. WorkerOK /\ RegistriesOK /\ RunsOK
  BY DEF TypeInv
<1> USE TurnsAreOfThreads, StartsAreOfTurns
<1>1. ASSUME NEW r \in Runs, submit(r) PROVE HoldInv'
  <2> DEFINE rec == [run[r] EXCEPT !.at = "setup"]
  <2>1. /\ run' = [run EXCEPT ![r] = rec]
        /\ keys' = keys /\ active' = active /\ made' = made
    BY <1>0, <1>1 DEF submit, Returned, RunsOK, RunRecord, Elsewhere, registries
  <2>2. Calm(r, rec)
    BY <1>0, <1>1, <2>1 DEF Calm, submit, Returned, RunsOK, RunRecord, Free, Holding, Entered, Executing, RegistriesOK
  <2> HIDE DEF rec
  <2> QED
    BY <1>0, <2>1, <2>2, CalmKeepsHoldInv
<1>2. ASSUME NEW r \in Runs, submit_raises(r) PROVE HoldInv'
  <2> DEFINE rec == [Free EXCEPT !.at = "leaked", !.turn = run[r].turn, !.reg = run[r].reg]
  <2>1. /\ run' = [run EXCEPT ![r] = rec]
        /\ keys' = keys /\ active' = active /\ made' = made
    BY <1>0, <1>2 DEF submit_raises, Returned, RunsOK, RunRecord, Elsewhere, registries
  <2>2. Calm(r, rec)
    BY <1>0, <1>2, <2>1 DEF Calm, submit_raises, Returned, RunsOK, RunRecord, Free, Holding, Entered, Executing, RegistriesOK
  <2> HIDE DEF rec
  <2> QED
    BY <1>0, <2>1, <2>2, CalmKeepsHoldInv
<1>3. ASSUME NEW r \in Runs, startup_fails(r) PROVE HoldInv'
  <2> DEFINE rec == [Free EXCEPT !.at = "closing", !.turn = run[r].turn, !.reg = run[r].reg]
  <2>1. /\ run' = [run EXCEPT ![r] = rec]
        /\ keys' = keys /\ active' = active /\ made' = made
    BY <1>0, <1>3 DEF startup_fails, Close, RunsOK, RunRecord, Elsewhere, registries
  <2>2. Calm(r, rec)
    BY <1>0, <1>3, <2>1 DEF Calm, startup_fails, Close, RunsOK, RunRecord, Free, Holding, Entered, Executing, RegistriesOK
  <2> HIDE DEF rec
  <2> QED
    BY <1>0, <2>1, <2>2, CalmKeepsHoldInv
<1>4. ASSUME NEW r \in Runs, start_raises(r) PROVE HoldInv'
  <2> DEFINE rec == [Free EXCEPT !.at = "closing", !.turn = run[r].turn, !.reg = run[r].reg]
  <2>1. /\ run' = [run EXCEPT ![r] = rec]
        /\ keys' = keys /\ active' = active /\ made' = made
    BY <1>0, <1>4 DEF start_raises, Close, RunsOK, RunRecord, Elsewhere, registries
  <2>2. Calm(r, rec)
    BY <1>0, <1>4, <2>1 DEF Calm, start_raises, Close, RunsOK, RunRecord, Free, Holding, Entered, Executing, RegistriesOK
  <2> HIDE DEF rec
  <2> QED
    BY <1>0, <2>1, <2>2, CalmKeepsHoldInv
<1>5. ASSUME NEW r \in Runs, create_node(r) PROVE HoldInv'
  <2> DEFINE rec == [run[r] EXCEPT !.at = Started(r), !.copy = {run[r].delivery}]
  <2>1. /\ run' = [run EXCEPT ![r] = rec]
        /\ keys' = keys /\ active' = active /\ made' = made
    BY <1>0, <1>5 DEF create_node, Started, RunsOK, RunRecord, Elsewhere, registries
  <2>2. Calm(r, rec)
    BY <1>0, <1>5, <2>1 DEF Calm, create_node, Started, RunsOK, RunRecord, Free, Holding, Entered, Executing, RegistriesOK
  <2> HIDE DEF rec
  <2> QED
    BY <1>0, <2>1, <2>2, CalmKeepsHoldInv
<1>6. ASSUME NEW r \in Runs, resume_turn_node(r) PROVE HoldInv'
  <2> DEFINE rec == [run[r] EXCEPT !.at = "adopting"]
  <2>1. /\ run' = [run EXCEPT ![r] = rec]
        /\ keys' = keys /\ active' = active /\ made' = made
    BY <1>0, <1>6 DEF resume_turn_node, Step, RunsOK, RunRecord, Elsewhere, registries
  <2>2. Calm(r, rec)
    BY <1>0, <1>6, <2>1 DEF Calm, resume_turn_node, Step, RunsOK, RunRecord, Free, Holding, Entered, Executing, RegistriesOK
  <2> HIDE DEF rec
  <2> QED
    BY <1>0, <2>1, <2>2, CalmKeepsHoldInv
<1>7. ASSUME NEW r \in Runs, snapshot(r) PROVE HoldInv'
  <2> DEFINE rec == [run[r] EXCEPT !.at = Started(r)]
  <2>1. /\ run' = [run EXCEPT ![r] = rec]
        /\ keys' = keys /\ active' = active /\ made' = made
    BY <1>0, <1>7 DEF snapshot, Step, Started, RunsOK, RunRecord, Elsewhere, registries
  <2>2. Calm(r, rec)
    BY <1>0, <1>7, <2>1 DEF Calm, snapshot, Step, Started, RunsOK, RunRecord, Free, Holding, Entered, Executing, RegistriesOK
  <2> HIDE DEF rec
  <2> QED
    BY <1>0, <2>1, <2>2, CalmKeepsHoldInv
<1>8. ASSUME NEW r \in Runs, on_started(r) PROVE HoldInv'
  <2> DEFINE rec == [run[r] EXCEPT !.at = "working", !.delivery = NoDelivery]
  <2>1. /\ run' = [run EXCEPT ![r] = rec]
        /\ keys' = keys /\ active' = active /\ made' = made
    BY <1>0, <1>8 DEF on_started, RunsOK, RunRecord, Elsewhere, registries
  <2>2. Calm(r, rec)
    BY <1>0, <1>8, <2>1 DEF Calm, on_started, RunsOK, RunRecord, Free, Holding, Entered, Executing, RegistriesOK
  <2> HIDE DEF rec
  <2> QED
    BY <1>0, <2>1, <2>2, CalmKeepsHoldInv
<1>9. ASSUME NEW r \in Runs, ack_unavailable(r) PROVE HoldInv'
  <2> DEFINE rec == [run[r] EXCEPT !.at = "settled", !.want = "failed", !.asked = FALSE, !.delivery = NoDelivery]
  <2>1. /\ run' = [run EXCEPT ![r] = rec]
        /\ keys' = keys /\ active' = active /\ made' = made
    BY <1>0, <1>9 DEF ack_unavailable, RunsOK, RunRecord, Elsewhere, registries
  <2>2. Calm(r, rec)
    BY <1>0, <1>9, <2>1 DEF Calm, ack_unavailable, RunsOK, RunRecord, Free, Holding, Entered, Executing, RegistriesOK
  <2> HIDE DEF rec
  <2> QED
    BY <1>0, <2>1, <2>2, CalmKeepsHoldInv
<1>10. ASSUME NEW r \in Runs, NEW s \in Terminal, setup_raises(r, s) PROVE HoldInv'
  <2> DEFINE rec == [run[r] EXCEPT !.at = "setup", !.want = s, !.asked = FALSE, !.copy = {}]
  <2>1. /\ run' = [run EXCEPT ![r] = rec]
        /\ keys' = keys /\ active' = active /\ made' = made
    BY <1>0, <1>10 DEF setup_raises, RunsOK, RunRecord, Elsewhere, registries
  <2>2. Calm(r, rec)
    BY <1>0, <1>10, <2>1 DEF Calm, setup_raises, RunsOK, RunRecord, Free, Holding, Entered, Executing, RegistriesOK
  <2> HIDE DEF rec
  <2> QED
    BY <1>0, <2>1, <2>2, CalmKeepsHoldInv
<1>11. ASSUME NEW r \in Runs, NEW s \in Terminal, settle(r, s) PROVE HoldInv'
  <2> DEFINE rec == [run[r] EXCEPT !.at = "settled", !.want = s, !.asked = FALSE]
  <2>1. /\ run' = [run EXCEPT ![r] = rec]
        /\ keys' = keys /\ active' = active /\ made' = made
    BY <1>0, <1>11 DEF settle, RunsOK, RunRecord, Elsewhere, registries
  <2>2. Calm(r, rec)
    BY <1>0, <1>11, <2>1 DEF Calm, settle, RunsOK, RunRecord, Free, Holding, Entered, Executing, RegistriesOK
  <2> HIDE DEF rec
  <2> QED
    BY <1>0, <2>1, <2>2, CalmKeepsHoldInv
<1>12. ASSUME NEW r \in Runs, finish(r) PROVE HoldInv'
  <2> DEFINE rec == [Free EXCEPT !.at = "closing", !.turn = run[r].turn, !.reg = run[r].reg]
  <2>1. /\ run' = [run EXCEPT ![r] = rec]
        /\ keys' = keys /\ active' = active /\ made' = made
    BY <1>0, <1>12 DEF finish, Close, RunsOK, RunRecord, Elsewhere, registries
  <2>2. Calm(r, rec)
    BY <1>0, <1>12, <2>1 DEF Calm, finish, Close, RunsOK, RunRecord, Free, Holding, Entered, Executing, RegistriesOK
  <2> HIDE DEF rec
  <2> QED
    BY <1>0, <2>1, <2>2, CalmKeepsHoldInv
<1>13. ASSUME NEW r \in Runs, pop_controller(r) PROVE HoldInv'
  <2> DEFINE rec == [run[r] EXCEPT !.at = "popped"]
  <2>1. /\ run' = [run EXCEPT ![r] = rec]
        /\ keys' = keys /\ active' = active /\ made' = made
    BY <1>0, <1>13 DEF pop_controller, Step, RunsOK, RunRecord, Elsewhere, registries
  <2>2. Calm(r, rec)
    BY <1>0, <1>13, <2>1 DEF Calm, pop_controller, Step, RunsOK, RunRecord, Free, Holding, Entered, Executing, RegistriesOK
  <2> HIDE DEF rec
  <2> QED
    BY <1>0, <2>1, <2>2, CalmKeepsHoldInv
<1>14. ASSUME NEW r \in Runs, NEW t \in Turns, resume_turn(t, r) PROVE HoldInv'
  <2> DEFINE rec == [Free EXCEPT !.at = "requested", !.turn = t, !.compacts = FALSE]
  <2>1. /\ run' = [run EXCEPT ![r] = rec]
        /\ keys' = keys /\ active' = active /\ made' = made
    BY <1>0, <1>14 DEF resume_turn, Check, RunsOK, RunRecord, Elsewhere, registries
  <2>2. Calm(r, rec)
    BY <1>0, <1>14, <2>1 DEF Calm, resume_turn, Check, RunsOK, RunRecord, Free, Holding, Entered, Executing, RegistriesOK
  <2> HIDE DEF rec
  <2> QED
    BY <1>0, <2>1, <2>2, CalmKeepsHoldInv
<1>15. ASSUME NEW r \in Runs, NEW t \in Turns, compact_turn(t, r) PROVE HoldInv'
  <2> DEFINE rec == [Free EXCEPT !.at = "requested", !.turn = t, !.compacts = TRUE]
  <2>1. /\ run' = [run EXCEPT ![r] = rec]
        /\ keys' = keys /\ active' = active /\ made' = made
    BY <1>0, <1>15 DEF compact_turn, Check, RunsOK, RunRecord, Elsewhere, registries
  <2>2. Calm(r, rec)
    BY <1>0, <1>15, <2>1 DEF Calm, compact_turn, Check, RunsOK, RunRecord, Free, Holding, Entered, Executing, RegistriesOK
  <2> HIDE DEF rec
  <2> QED
    BY <1>0, <2>1, <2>2, CalmKeepsHoldInv
<1>16. ASSUME NEW r \in Runs, launch(r) PROVE HoldInv'
  <2> DEFINE rec == [Free EXCEPT !.at = Found, !.turn = Start[worker.delivery].turn, !.reg = made,
                             !.delivery = worker.delivery]
  <2>1. /\ run' = [run EXCEPT ![r] = rec]
        /\ keys' = keys /\ active' = active /\ made' = made
    BY <1>0, <1>16 DEF launch, Found, RunsOK, RunRecord, Elsewhere, registries
  <2>2. Calm(r, rec)
    BY <1>0, <1>16, <2>1 DEF Calm, launch, Found, RunsOK, RunRecord, Free, Holding, Entered, Executing, RegistriesOK
  <2> HIDE DEF rec
  <2> QED
    BY <1>0, <2>1, <2>2, CalmKeepsHoldInv
<1>17. ASSUME NEW r \in Runs, find_registry(r) PROVE HoldInv'
  <2> DEFINE rec == [run[r] EXCEPT !.at = Found, !.reg = made]
  <2>1. /\ run' = [run EXCEPT ![r] = rec]
        /\ keys' = keys /\ active' = active /\ made' = made
    BY <1>0, <1>17 DEF find_registry, Found, RunsOK, RunRecord, Elsewhere, registries
  <2>2. Calm(r, rec)
    BY <1>0, <1>17, <2>1 DEF Calm, find_registry, Found, RunsOK, RunRecord, Free, Holding, Entered, Executing, RegistriesOK
  <2> HIDE DEF rec
  <2> QED
    BY <1>0, <2>1, <2>2, CalmKeepsHoldInv
<1>18. ASSUME NEW r \in Runs, conflicts(r) PROVE HoldInv'
  <2> DEFINE rec == Free
  <2>1. /\ run' = [run EXCEPT ![r] = rec]
        /\ keys' = keys /\ active' = active /\ made' = made
    BY <1>0, <1>18 DEF conflicts, Returned, RunsOK, RunRecord, Elsewhere, registries
  <2>2. Calm(r, rec)
    BY <1>0, <1>18, <2>1 DEF Calm, conflicts, Returned, RunsOK, RunRecord, Free, Holding, Entered, Executing, RegistriesOK
  <2> HIDE DEF rec
  <2> QED
    BY <1>0, <2>1, <2>2, CalmKeepsHoldInv
<1>19. ASSUME NEW r \in Runs, create_compact_turn(r) PROVE HoldInv'
  <2> DEFINE rec == [run[r] EXCEPT !.at = "compacted"]
  <2>1. /\ run' = [run EXCEPT ![r] = rec]
        /\ keys' = keys /\ active' = active /\ made' = made
    BY <1>0, <1>19 DEF create_compact_turn, RunsOK, RunRecord, Elsewhere, registries
  <2>2. Calm(r, rec)
    BY <1>0, <1>19, <2>1 DEF Calm, create_compact_turn, RunsOK, RunRecord, Free, Holding, Entered, Executing, RegistriesOK
  <2> HIDE DEF rec
  <2> QED
    BY <1>0, <2>1, <2>2, CalmKeepsHoldInv
<1>20. ASSUME NEW r \in Runs, make_registry(r) PROVE HoldInv'
  <2> DEFINE rec == [run[r] EXCEPT !.at = "registered", !.reg = made + 1]
  <2>1. /\ run' = [run EXCEPT ![r] = rec]
        /\ keys' = keys /\ active' = active /\ made' = made + 1
    BY <1>0, <1>20 DEF make_registry, RunsOK, RunRecord, Elsewhere, registries
  <2>2. Calm(r, rec)
    BY <1>0, <1>20, <2>1 DEF Calm, make_registry, RunsOK, RunRecord, Free, Holding, Entered, Executing, RegistriesOK
  <2> HIDE DEF rec
  <2> QED
    BY <1>0, <2>1, <2>2, CalmKeepsHoldInv
<1>21. ASSUME NEW r \in Runs, start_reads(r) PROVE HoldInv'
  <2>1. PICK to \in {"adopting", "resuming"} :
           /\ run' = [run EXCEPT ![r].at = to, ![r].copy = versions[run[r].turn]]
           /\ run[r].at = "setup"
           /\ keys' = keys /\ active' = active /\ made' = made
    BY <1>21 DEF start_reads, Elsewhere, registries
  <2> DEFINE rec == [run[r] EXCEPT !.at = to, !.copy = versions[run[r].turn]]
  <2>2. run' = [run EXCEPT ![r] = rec]
    BY <1>0, <2>1 DEF RunsOK, RunRecord
  <2>3. Calm(r, rec)
    BY <1>0, <2>1 DEF Calm, RunsOK, RunRecord, Holding, Entered, Executing
  <2> HIDE DEF rec
  <2> QED
    BY <1>0, <2>1, <2>2, <2>3, CalmKeepsHoldInv
<1>22. ASSUME NEW t \in Turns, request_pause(t) PROVE HoldInv'
  <2> DEFINE q == controller[t]
             rec == [run[q] EXCEPT !.asked = TRUE]
  <2>1. q \in Runs /\ keys' = keys /\ active' = active /\ made' = made /\ run[q].at # "registered"
    BY <1>0, <1>22 DEF request_pause, RegistriesOK, registries, Unsettled
  <2>2. run' = [run EXCEPT ![q] = rec]
    BY <1>0, <1>22 DEF request_pause, RunsOK, RunRecord
  <2>3. rec.at = run[q].at /\ rec.turn = run[q].turn /\ rec.reg = run[q].reg
    BY <1>0, <2>1 DEF RunsOK, RunRecord
  <2> HIDE DEF q, rec
  <2>4. Calm(q, rec)
    BY <2>1, <2>3 DEF Calm
  <2> QED
    BY <1>0, <2>1, <2>2, <2>4, CalmKeepsHoldInv
<1>23. ASSUME NEW r \in Runs, reserve(r) PROVE HoldInv'
  <2> DEFINE rec == [run[r] EXCEPT !.at = "reserved"]
             t == run[r].turn
  <2>1. /\ run[r].at = "registered" /\ KeyOf(r) \notin keys /\ t \in Turns
        /\ keys' = keys \cup {KeyOf(r)} /\ made' = made
        /\ active' = [active EXCEPT ![t] = r]
        /\ run' = [run EXCEPT ![r] = rec]
    BY <1>0, <1>23, RunFacts DEF reserve, RunsOK, RunRecord
  <2>2. rec.at = "reserved" /\ rec.turn = t /\ rec.reg = run[r].reg
    BY <1>0 DEF RunsOK, RunRecord
  <2> HIDE DEF rec
  <2>3. KeysOwned' /\ RegInv'
    BY <1>0, <2>1, <2>2, TakesKey DEF Holding
  <2>4. StreamInv'
    <3> SUFFICES ASSUME made < 2, NEW q \in Runs, run'[q].at \in Entered PROVE active'[run'[q].turn] = q
      BY <2>1 DEF StreamInv
    <3>1. \A p \in Runs : run'[p] = IF p = r THEN rec ELSE run[p]
      BY <1>0, <2>1 DEF RunsOK
    <3>2. active \in [Turns -> Runs \cup {NoRun}] /\ made \in Nat
      BY <1>0 DEF RegistriesOK
    <3>3. CASE q = r
      BY <2>1, <2>2, <3>1, <3>2, <3>3
    <3>4. CASE q # r
      <4>1. run[q].at \in Entered /\ run'[q] = run[q] /\ q \in Holders
        BY <3>1, <3>4 DEF Entered, Holders, Holding
      <4>2. active[run[q].turn] = q /\ run[q].turn \in Turns
        BY <1>0, <4>1, RunFacts DEF HoldInv, StreamInv, Entered, Executing
      <4>3. run[q].reg = 1 /\ run[r].reg = 1
        <5>1. run[q].reg \in 1 .. made
          BY <4>1 DEF HoldInv, RegInv, Holders
        <5>2. run[r].reg \in 1 .. made
          BY <2>1 DEF HoldInv, RegInv
        <5> QED
          BY <3>2, <5>1, <5>2
      <4>4. KeyOf(q) # KeyOf(r)
        BY <2>1, <4>1 DEF HoldInv, KeysOwned
      <4>5. run[q].turn # t
        BY <4>3, <4>4 DEF KeyOf
      <4> QED
        BY <2>1, <3>2, <4>1, <4>2, <4>5
    <3> QED
      BY <3>3, <3>4
  <2> QED
    BY <2>3, <2>4 DEF HoldInv
<1>24. ASSUME NEW r \in Runs, compact_reserves(r) PROVE HoldInv'
  <2> DEFINE rec == [run[r] EXCEPT !.at = "compacting"]
  <2>1. /\ run[r].at = "registered" /\ KeyOf(r) \notin keys
        /\ keys' = keys \cup {KeyOf(r)} /\ made' = made /\ active' = active
        /\ run' = [run EXCEPT ![r] = rec]
    BY <1>0, <1>24 DEF compact_reserves, RunsOK, RunRecord
  <2>2. rec.at = "compacting" /\ rec.turn = run[r].turn /\ rec.reg = run[r].reg
    BY <1>0 DEF RunsOK, RunRecord
  <2> HIDE DEF rec
  <2>3. KeysOwned' /\ RegInv'
    BY <1>0, <2>1, <2>2, TakesKey DEF Holding
  <2>4. StreamInv'
    BY <1>0, <2>1, <2>2 DEF HoldInv, StreamInv, Entered, Executing, RunsOK
  <2> QED
    BY <2>3, <2>4 DEF HoldInv
<1>25. ASSUME NEW r \in Runs, release_key(r) PROVE HoldInv'
  <2> DEFINE rec == [run[r] EXCEPT !.at = "released"]
  <2>1. /\ run[r].at = "closing" /\ keys' = keys \ {KeyOf(r)} /\ made' = made /\ active' = active
        /\ run' = [run EXCEPT ![r] = rec]
    BY <1>0, <1>25 DEF release_key, Step, RunsOK, RunRecord
  <2>2. rec.at = "released"
    BY <1>0 DEF RunsOK, RunRecord
  <2> HIDE DEF rec
  <2>3. KeysOwned' /\ RegInv'
    BY <1>0, <2>1, <2>2, FreesKey DEF Holding, Executing
  <2>4. StreamInv'
    BY <1>0, <2>1, <2>2 DEF HoldInv, StreamInv, Entered, Executing, RunsOK
  <2> QED
    BY <2>3, <2>4 DEF HoldInv
<1>26. ASSUME NEW r \in Runs, compact_done(r) PROVE HoldInv'
  <2>1. /\ run[r].at \in {"compacting", "compacted"} /\ keys' = keys \ {KeyOf(r)}
        /\ made' = made /\ active' = active
        /\ run' = [run EXCEPT ![r] = Free]
    BY <1>26 DEF compact_done
  <2>2. Free.at = "free"
    BY DEF Free
  <2>3. KeysOwned' /\ RegInv'
    BY <1>0, <2>1, <2>2, FreesKey DEF Holding, Executing
  <2>4. StreamInv'
    BY <1>0, <2>1, <2>2 DEF HoldInv, StreamInv, Entered, Executing, RunsOK
  <2> QED
    BY <2>3, <2>4 DEF HoldInv
<1>27. ASSUME NEW r \in Runs, pop_stream(r) PROVE HoldInv'
  <2>1. /\ run[r].at = "popped" /\ run[r].turn \in Turns
        /\ keys' = keys /\ made' = made
        /\ run' = [run EXCEPT ![r] = Free]
        /\ active' = [active EXCEPT ![run[r].turn] = IF active[run[r].turn] = r THEN NoRun
                                                        ELSE active[run[r].turn]]
    BY <1>0, <1>27, RunFacts DEF pop_stream
  <2>2. \A q \in Runs : run'[q] = IF q = r THEN Free ELSE run[q]
    BY <1>0, <2>1 DEF RunsOK
  <2>3. run[r].at \notin Holding \cup {"registered"} /\ Free.at \notin Holding \cup {"registered"}
    BY <2>1 DEF Holding, Executing, Free
  <2>4. KeysOwned'
    <3>1. Holders' = Holders /\ \A q \in Holders : KeyOf(q)' = KeyOf(q)
      BY <2>2, <2>3 DEF Holders, KeyOf
    <3> QED
      BY <2>1, <3>1 DEF HoldInv, KeysOwned
  <2>5. RegInv'
    BY <2>1, <2>2, <2>3 DEF HoldInv, RegInv
  <2>6. StreamInv'
    <3> SUFFICES ASSUME made < 2, NEW q \in Runs, run'[q].at \in Entered PROVE active'[run'[q].turn] = q
      BY <2>1 DEF StreamInv
    <3>1. q # r /\ run'[q] = run[q]
      BY <2>2 DEF Free, Entered, Executing
    <3>2. active[run[q].turn] = q /\ run[q].turn \in Turns
      BY <1>0, <3>1, RunFacts DEF HoldInv, StreamInv, Entered, Executing
    <3> QED
      BY <1>0, <2>1, <3>1, <3>2 DEF RegistriesOK
  <2> QED
    BY <2>4, <2>5, <2>6 DEF HoldInv
<1>28. ASSUME restart PROVE HoldInv'
  <2>1. keys' = {} /\ \A q \in Runs : run'[q].at = "free"
    BY <1>28 DEF restart, Free
  <2>2. Holders' = {}
    BY <2>1 DEF Holders, Holding, Executing
  <2> QED
    BY <2>1, <2>2 DEF HoldInv, KeysOwned, RegInv, StreamInv, Holding, Entered, Executing
<1>29. CASE UNCHANGED <<made, keys, active, run>>
  BY <1>29, UnchangedKeepsHoldInv
<1>30. ASSUME NEW r \in Runs, RunStep(r) PROVE HoldInv'
  BY <1>17, <1>20, <1>23, <1>24, <1>18, <1>1, <1>2, <1>3, <1>5, <1>21, <1>6, <1>7, <1>10, <1>4, <1>8, <1>9, <1>11, <1>12, <1>25, <1>13, <1>27, <1>19, <1>26, <1>29, <1>30
     DEF RunStep, persist, Elsewhere, registries
<1>31. ASSUME MessageWorker PROVE HoldInv'
  BY <1>16, <1>29, <1>31
     DEF MessageWorker, claim_turn_start, reclaim_turn_start, look_up, read_version, append_turn_version,
         append_refused, registries
<1>32. ASSUME Endpoint PROVE HoldInv'
  BY <1>14, <1>15, <1>22, <1>29, <1>32
     DEF Endpoint, create_turn, rewind_turn, dispatch_turn_start, pause_turn, pause_reads, pause_seals, registries
<1>33. ASSUME patch_current_data PROVE HoldInv'
  BY <1>29, <1>33 DEF patch_current_data, patch_reads, set_turn_current_data, registries
<1> QED
  BY <1>28, <1>30, <1>31, <1>32, <1>33 DEF Next

-----------------------------------------------------------------------------
(***************************************************************************)
(* The inductive invariant of both specifications.                         *)
(***************************************************************************)
Inv == TypeInv /\ ClaimIsLive /\ HoldInv

(* The initial states, before any run, satisfy the inductive invariant. *)
LEMMA InvInit == Init => Inv
<1> SUFFICES ASSUME Init PROVE Inv
  OBVIOUS
<1> USE TurnsAreOfThreads, StartsAreOfTurns, NamesAndBounds DEF Init
<1>1. RecordsOK /\ ClaimIsLive
  BY DEF RecordsOK, ClaimIsLive, Statuses, Terminal
<1>2. QueueOK /\ WorkerOK /\ RegistriesOK /\ BoundOK
  BY DEF QueueOK, WorkerOK, RegistriesOK, BoundOK, Idle
<1>3. RunsOK /\ RequestsOK
  BY DEF RunsOK, RunRecord, RunAt, Free, RequestsOK, Record, NoRecord, Statuses
<1>4. HoldInv
  BY DEF HoldInv, KeysOwned, RegInv, StreamInv, Holders, Holding, Entered, Executing, Free
<1> QED
  BY <1>1, <1>2, <1>3, <1>4 DEF Inv, TypeInv

(* Every step of the backend and of a version switch keeps the inductive invariant. *)
LEMMA InvStep == Inv /\ [Next \/ patch_current_data]_vars => Inv'
<1>1. ASSUME Inv, UNCHANGED vars PROVE Inv'
  <2> USE <1>1 DEF vars, records, queue, registries, requests
  <2>1. TypeInv'
    BY DEF Inv, TypeInv, RecordsOK, QueueOK, WorkerOK, RegistriesOK, RunsOK, RequestsOK, BoundOK
  <2>2. ClaimIsLive' /\ HoldInv'
    BY UnchangedKeepsHoldInv DEF Inv, ClaimIsLive
  <2> QED
    BY <2>1, <2>2 DEF Inv
<1> QED
  BY <1>1, TypeStep, ClaimStep, HoldStep DEF Inv

(* The inductive invariant holds throughout, also with version switches. *)
LEMMA InvAlways == PatchedSpec => []Inv
BY InvInit, InvStep, PTL DEF PatchedSpec

(* A behaviour without version switches is one of the specification that allows them. *)
LEMMA SpecIsPatched == Spec => PatchedSpec
<1>1. [Next]_vars => [Next \/ patch_current_data]_vars
  OBVIOUS
<1> QED
  BY <1>1, PTL DEF Spec, PatchedSpec

(***************************************************************************)
(* The type invariant, for any Threads, Turns, messages and runs.          *)
(***************************************************************************)
THEOREM TypesHold == Spec => []TypeOK
<1>1. Inv => TypeOK
  BY DEF Inv, TypeInv, TypeOK, RecordsOK, QueueOK, WorkerOK, RegistriesOK, RunsOK, RunRecord,
         RequestsOK, BoundOK
<1> QED
  BY <1>1, InvAlways, SpecIsPatched, PTL

(***************************************************************************)
(* No registry gives a Thread to two runs or compactions at a time, nor    *)
(* does the process while it has made one registry, and no reservation     *)
(* outlives its holder (_stream, compact_turn and                          *)
(* _runtime_stream_lock_registry).                                         *)
(***************************************************************************)
THEOREM ReservationOwnedHolds == Spec => []ReservationOwned
<1>1. Inv => ReservationOwned
  <2> SUFFICES ASSUME Inv PROVE ReservationOwned
    OBVIOUS
  <2>1. KeysOwned /\ RegInv /\ made \in Nat
    BY DEF Inv, HoldInv, TypeInv, RegistriesOK
  <2>2. ASSUME made < 2, NEW r \in Holders, NEW q \in Holders,
               ThreadOf[run[r].turn] = ThreadOf[run[q].turn]
        PROVE  r = q
    <3>1. run[r].reg = 1 /\ run[q].reg = 1
      BY <2>1, <2>2 DEF RegInv, Holders
    <3> QED
      BY <2>1, <2>2, <3>1 DEF KeysOwned, KeyOf
  <2> QED
    BY <2>1, <2>2 DEF KeysOwned, ReservationOwned
<1> QED
  BY <1>1, InvAlways, SpecIsPatched, PTL

(***************************************************************************)
(* The stream registered for a Turn is that of the run executing it, while *)
(* the process has made one registry of reservations (_stream).            *)
(***************************************************************************)
THEOREM StreamIsOfTheRunHolds == Spec => []StreamIsOfTheRun
<1>1. Inv => StreamIsOfTheRun
  BY DEF Inv, HoldInv, StreamInv, StreamIsOfTheRun, Entered
<1> QED
  BY <1>1, InvAlways, SpecIsPatched, PTL

(***************************************************************************)
(* A Thread is never held for a Turn that has ended, version switches      *)
(* included (_claim_thread_turn, _set_thread_head).                        *)
(***************************************************************************)
THEOREM ClaimIsLiveHolds == PatchedSpec => []ClaimIsLive
<1>1. Inv => ClaimIsLive
  BY DEF Inv
<1> QED
  BY <1>1, InvAlways, PTL

=============================================================================
