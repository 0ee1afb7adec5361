---------------------------- MODULE TurnMailbox ----------------------------
(***************************************************************************)
(* The path of a queued user message into a running Turn: the Redis queue  *)
(* of editable drafts, the Turn's mailbox stream with its consumer group   *)
(* and delivery receipts, the HTTP handlers that edit and steer, the Turn  *)
(* workers that claim, record, project and acknowledge a delivery, the     *)
(* release of what they left behind, and the reconciliation after a crash. *)
(* One Thread: one worker at a time holds its key, but a worker frees the  *)
(* key before it releases the mailbox, so the next one may run beside that.*)
(* Every Redis command or Lua script that another actor can get in front   *)
(* of is a step of its own.                                                *)
(***************************************************************************)
EXTENDS Naturals, FiniteSets

CONSTANTS
  Messages, Deliveries, Turns, Clients,
  Texts,        \* the contents a draft may have
  NoReceipt, NoTurn,
  MaxRev,       \* bound on the writes of one draft
  MaxEntries,   \* bound on XADDs
  MaxAttempts   \* bound on runs of the Thread

VARIABLES
  drafts,     \* hash and order of the Thread: [state, listed, text, rev]; rev stands for updated_at
  receipts,   \* delivery receipts
  mailbox,    \* stream entries: [id, delivery, turn, ids, text, again]; again: its envelope was sent before
  claimed,    \* ids in the consumer group's pending list
  added,      \* number of XADDs so far, the last stream id
  turns,      \* canonical status of each Turn
  ledger,     \* attempt under which SQLite recorded a delivery, 0 for none
  nodes,      \* deliveries whose text is in the canonical Turn
  calls,      \* the steer request each client has in flight
  run,        \* the worker of each attempt: [pc, turn, pausing, hold, raw]
  attempt,    \* number of runs started
  launching,  \* the Turn whose new version is recorded and whose run is about to reserve the Thread
  backend,    \* "up", or where the restart is
  todo,       \* entries a restart has still to look at
  returning,  \* entries a restart hands back
  outage,     \* whether Redis failed a reconciliation
  strayed     \* history: drafts of an entry that two workers settled, or that went with its stream

vars == <<drafts, receipts, mailbox, claimed, added, turns, ledger, nodes,
          calls, run, attempt, launching, backend, todo, returning, outage, strayed>>
queue == <<drafts, receipts, mailbox, claimed, added>>
history == <<turns, ledger, nodes>>
starts == <<attempt, launching>>
recovery == <<backend, todo, returning, outage>>

Runs == 1 .. MaxAttempts
Idle == [phase |-> "idle"]
\* hold: the entry claimed, or those release_turn has still to hand back;
\* raw: the drafts it has read of the first of these.
NoRun == [pc |-> "idle", turn |-> NoTurn, pausing |-> FALSE, hold |-> {}, raw |-> <<>>]
MailboxOf(t) == {e \in mailbox : e.turn = t}
First(E) == CHOOSE e \in E : \A f \in E : e.id <= f.id
Fingerprint(t, ids) == <<t, ids>>

Init ==
  /\ drafts = [m \in Messages |-> [state |-> "absent", listed |-> FALSE, text |-> CHOOSE x \in Texts : TRUE,
                                   rev |-> 0]]
  /\ receipts = [d \in Deliveries |-> NoReceipt]
  /\ mailbox = {} /\ claimed = {} /\ added = 0
  /\ turns = [t \in Turns |-> "none"]
  /\ ledger = [d \in Deliveries |-> 0]
  /\ nodes = {}
  /\ calls = [c \in Clients |-> Idle]
  /\ run = [a \in Runs |-> NoRun] /\ attempt = 0 /\ launching = NoTurn
  /\ backend = "up" /\ todo = {} /\ returning = {} /\ outage = FALSE
  /\ strayed = {}

-----------------------------------------------------------------------------
(* The draft endpoints.  WATCH/MULTI with a retry loop makes each atomic.   *)

Write(m, state, listed, text) ==
  /\ drafts' = [drafts EXCEPT ![m] = [state |-> state, listed |-> listed, text |-> text, rev |-> @.rev + 1]]
  /\ UNCHANGED <<receipts, mailbox, claimed, added, history, calls, run, starts, recovery, strayed>>

create(m, x) ==
  /\ backend = "up" /\ drafts[m].state = "absent" /\ drafts[m].rev < MaxRev
  /\ Write(m, "pending", TRUE, x)

update(m, x) ==
  /\ backend = "up" /\ drafts[m].state = "pending" /\ drafts[m].rev < MaxRev
  /\ Write(m, "pending", drafts[m].listed, x)

delete(m) ==
  /\ backend = "up" /\ drafts[m].state = "pending"
  /\ Write(m, "absent", FALSE, drafts[m].text)

-----------------------------------------------------------------------------
(* The steer endpoint: it looks at the Turn, then RedisMessageQueue.dispatch *)
(* reads the receipt, reads the drafts, and runs the dispatch script.        *)

\* active_turn_streams holds the stream of the Turn's latest run until that run's
\* own finally block pops it.
Streaming == {"running", "claimed", "recorded", "projected", "raised", "finished", "freed"}
StreamOpen(t) ==
  \E a \in Runs : /\ run[a].turn = t /\ run[a].pc \in Streaming
                  /\ \A b \in Runs : b > a => run[b].turn # t

steer_turn(c, d, t, ids) ==
  /\ backend = "up" /\ calls[c] = Idle /\ ids # {}
  /\ turns[t] = "running" /\ StreamOpen(t)
  /\ calls' = [calls EXCEPT ![c] = [phase |-> "receipt", delivery |-> d, turn |-> t, ids |-> ids]]
  /\ UNCHANGED <<queue, history, run, starts, recovery, strayed>>

\* An unfinished delivery answers a repeated request; a returned one is sent
\* again with the envelope it had.
read_receipt(c) ==
  /\ calls[c].phase = "receipt"
  /\ LET r == receipts[calls[c].delivery]
         stored == IF r = NoReceipt THEN {} ELSE {r.text}
     IN IF r # NoReceipt /\ (r.print # Fingerprint(calls[c].turn, calls[c].ids) \/ r.status # "returned")
        THEN calls' = [calls EXCEPT ![c] = Idle]
        ELSE calls' = [calls EXCEPT ![c] = [phase |-> "drafts", delivery |-> @.delivery, turn |-> @.turn,
                                            ids |-> @.ids, stored |-> stored]]
  /\ UNCHANGED <<queue, history, run, starts, recovery, strayed>>

\* The order and the hash, taken together; a draft outside the order is not found.
read_drafts(c) ==
  /\ calls[c].phase = "drafts"
  /\ LET k == calls[c]
         raw == [m \in k.ids |-> drafts[m]]
         current == [m \in k.ids |-> drafts[m].text]
     IN IF \E m \in k.ids : drafts[m].state # "pending" \/ ~drafts[m].listed
        THEN calls' = [calls EXCEPT ![c] = Idle]
        ELSE calls' = [calls EXCEPT ![c] =
               [phase |-> "script", delivery |-> k.delivery, turn |-> k.turn, ids |-> k.ids, raw |-> raw,
                text |-> IF k.stored = {} THEN current ELSE CHOOSE x \in k.stored : TRUE,
                again |-> k.stored # {}]]
  /\ UNCHANGED <<queue, history, run, starts, recovery, strayed>>

\* Variants for mutation: a script that trusts the reads made before it.
IgnoresTheEdit(k) ==
  LET r == receipts[k.delivery] IN
  /\ r = NoReceipt \/ (r.print = Fingerprint(k.turn, k.ids) /\ r.status = "returned")
  /\ \A m \in k.ids : drafts[m].state = "pending"
IgnoresTheDrafts(k) ==
  LET r == receipts[k.delivery] IN r = NoReceipt \/ (r.print = Fingerprint(k.turn, k.ids) /\ r.status = "returned")

\* DISPATCH_SCRIPT: what it compares before it writes anything.
ScriptAccepts(k) ==
  LET r == receipts[k.delivery] IN
  /\ r = NoReceipt \/ (r.print = Fingerprint(k.turn, k.ids) /\ r.status = "returned")
  /\ \A m \in k.ids : drafts[m].state = "pending" /\ drafts[m] = k.raw[m]

dispatch_script(c) ==
  /\ calls[c].phase = "script"
  /\ LET k == calls[c] IN
       IF ScriptAccepts(k)
       THEN /\ added < MaxEntries
            /\ added' = added + 1
            /\ drafts' = [m \in Messages |->
                 IF m \in k.ids THEN [drafts[m] EXCEPT !.state = "dispatched", !.rev = @ + 1] ELSE drafts[m]]
            /\ mailbox' = mailbox \cup {[id |-> added + 1, delivery |-> k.delivery, turn |-> k.turn,
                                         ids |-> k.ids, text |-> k.text, again |-> k.again]}
            /\ receipts' = [receipts EXCEPT ![k.delivery] =
                 [print |-> Fingerprint(k.turn, k.ids), status |-> "dispatched", text |-> k.text]]
            /\ UNCHANGED claimed
       ELSE UNCHANGED queue
  /\ calls' = [calls EXCEPT ![c] = Idle]
  /\ UNCHANGED <<history, run, starts, recovery, strayed>>
-----------------------------------------------------------------------------
(* The Turn workers.                                                        *)

At(a, pc) == run[a].pc = pc
Goto(a, pc) == run' = [run EXCEPT ![a].pc = pc, ![a].hold = {}, ![a].raw = <<>>]
Holding(a, pc) == run' = [run EXCEPT ![a].pc = pc]
Leave(a) == run' = [run EXCEPT ![a] = [NoRun EXCEPT !.turn = run[a].turn]]
Entry(a) == First(run[a].hold)
Busy == {"running", "claimed", "recorded", "projected", "raised"}
KeyFree == \A a \in Runs : run[a].pc \notin Busy \cup {"finished"}

\* A sealed or paused Turn gets a new version before its run reserves the Thread;
\* when the reservation is refused the Turn stays running.
append_turn_version(t) ==
  /\ backend = "up" /\ launching = NoTurn /\ attempt < MaxAttempts
  /\ turns[t] \in {"success", "failed", "paused"} /\ \A u \in Turns : turns[u] # "running"
  /\ turns' = [turns EXCEPT ![t] = "running"]
  /\ launching' = t
  /\ UNCHANGED <<queue, ledger, nodes, calls, run, attempt, recovery, strayed>>

launch_conflicts ==
  /\ launching # NoTurn /\ ~KeyFree
  /\ launching' = NoTurn
  /\ UNCHANGED <<queue, history, calls, run, attempt, recovery, strayed>>

\* The run of a new Turn, of a resumed one or of a recorded version; each is an
\* attempt with a run id of its own, and starts once the Thread's key is free.
start_turn(t) ==
  /\ backend = "up" /\ KeyFree /\ attempt < MaxAttempts
  /\ \/ launching = t
     \/ turns[t] \in {"none", "paused"} /\ \A u \in Turns : turns[u] # "running"
  /\ launching' = NoTurn
  /\ turns' = [turns EXCEPT ![t] = "running"]
  /\ attempt' = attempt + 1
  /\ run' = [run EXCEPT ![attempt + 1] = [NoRun EXCEPT !.pc = "running", !.turn = t]]
  /\ UNCHANGED <<queue, ledger, nodes, calls, recovery, strayed>>

request_pause(a) ==
  /\ run[a].pc \in Busy /\ ~run[a].pausing
  /\ run' = [run EXCEPT ![a].pausing = TRUE]
  /\ UNCHANGED <<queue, history, calls, starts, recovery, strayed>>

\* _claim_stream: XAUTOCLAIM takes over the oldest claim once it is stale;
\* while any claim is outstanding nothing new is read.
claim(a) ==
  /\ At(a, "running") /\ MailboxOf(run[a].turn) # {}
  /\ LET stale == {e \in MailboxOf(run[a].turn) : e.id \in claimed}
         e == IF stale # {} THEN First(stale) ELSE First(MailboxOf(run[a].turn))
     IN /\ claimed' = claimed \cup {e.id}
        /\ run' = [run EXCEPT ![a].pc = "claimed", ![a].hold = {e}]
  /\ UNCHANGED <<drafts, receipts, mailbox, added, history, calls, starts, recovery, strayed>>

\* Variants for mutation: the ledger entry is left to the next save, or made
\* under a run id that is not this run's.
SkipsTheLedger(a) ==
  /\ At(a, "claimed")
  /\ Holding(a, "recorded")
  /\ UNCHANGED <<queue, history, calls, starts, recovery, strayed>>
RecordsUnderNextRun(a) ==
  /\ At(a, "claimed")
  /\ ledger' = [ledger EXCEPT ![Entry(a).delivery] = attempt + 1]
  /\ Holding(a, "recorded")
  /\ UNCHANGED <<queue, turns, nodes, calls, starts, recovery, strayed>>

\* append_turn_input refuses a delivery that another run already recorded.
record_input(a) ==
  /\ At(a, "claimed")
  /\ LET d == Entry(a).delivery IN
       IF ledger[d] \in {0, a}
       THEN ledger' = [ledger EXCEPT ![d] = a] /\ Holding(a, "recorded")
       ELSE Goto(a, "raised") /\ UNCHANGED ledger
  /\ UNCHANGED <<queue, turns, nodes, calls, starts, recovery, strayed>>

\* The steering_applied event reaches the node bridge through the stream's
\* sink, which drops it once a pause is requested.
project_input(a) ==
  /\ At(a, "recorded")
  /\ nodes' = IF run[a].pausing THEN nodes ELSE nodes \cup {Entry(a).delivery}
  /\ Holding(a, "projected")
  /\ UNCHANGED <<queue, turns, ledger, calls, starts, recovery, strayed>>

\* Storage, the save of the checkpoint, or Redis fails under apply_steering.
apply_raises(a) ==
  /\ run[a].pc \in {"claimed", "recorded", "projected"}
  /\ Goto(a, "raised")
  /\ UNCHANGED <<queue, history, calls, starts, recovery, strayed>>

\* ACK_SCRIPT.  It does not look whether the entry is still in the stream.
Acknowledge(e) ==
  IF receipts[e.delivery].status = "acknowledged"
  THEN UNCHANGED queue
  ELSE /\ mailbox' = {f \in mailbox : f.id # e.id}
       /\ claimed' = claimed \ {e.id}
       /\ drafts' = [m \in Messages |->
            IF m \in e.ids THEN [drafts[m] EXCEPT !.state = "absent", !.listed = FALSE, !.rev = @ + 1]
            ELSE drafts[m]]
       /\ receipts' = [receipts EXCEPT ![e.delivery].status = "acknowledged"]
       /\ UNCHANGED added

\* Settling an entry that another worker has settled in the meantime.
Strays(e) == strayed' = IF e \in mailbox THEN strayed ELSE strayed \cup e.ids

ack_input(a) ==
  /\ At(a, "projected")
  /\ Acknowledge(Entry(a)) /\ Strays(Entry(a))
  /\ Goto(a, "running")
  /\ UNCHANGED <<history, calls, starts, recovery>>

\* bridge.finish: a pause wins over the outcome of the run, except over Redis
\* being unavailable, which fails the Turn.
finish(a) ==
  /\ run[a].pc \in {"running", "raised"}
  /\ \E status \in {"success", "failed", "paused"} :
       /\ status = "success" => At(a, "running") /\ ~run[a].pausing
       /\ status = "failed" => At(a, "raised") \/ ~run[a].pausing
       /\ status = "paused" => run[a].pausing
       /\ turns' = [turns EXCEPT ![run[a].turn] = status]
  /\ Goto(a, "finished")
  /\ UNCHANGED <<queue, ledger, nodes, calls, starts, recovery, strayed>>

-----------------------------------------------------------------------------
(* The worker's finally block.  From free_key on the next run may go on     *)
(* beside it.                                                               *)

Passes(a, from, to) ==
  /\ At(a, from) /\ Goto(a, to)
  /\ UNCHANGED <<queue, history, calls, starts, recovery, strayed>>

free_key(a) == Passes(a, "finished", "freed")

close_stream(a) == Passes(a, "freed", "closed")

\* The status is that of the record by now: a Turn that runs again is left alone.
read_final(a) ==
  /\ At(a, "closed")
  /\ IF turns[run[a].turn] \in {"success", "failed"} THEN Goto(a, "release") ELSE Leave(a)
  /\ UNCHANGED <<queue, history, calls, starts, recovery, strayed>>

\* release_turn reads the stream once; what is added later is not seen.
release_turn(a) ==
  /\ At(a, "release")
  /\ run' = [run EXCEPT ![a].pc = "releasing", ![a].hold = MailboxOf(run[a].turn)]
  /\ UNCHANGED <<queue, history, calls, starts, recovery, strayed>>

\* Entry by entry: the drafts are read one by one, outside the transaction.
read_draft(a, m) ==
  /\ At(a, "releasing") /\ run[a].hold # {}
  /\ m \in Entry(a).ids \ DOMAIN run[a].raw
  /\ run' = [run EXCEPT ![a].raw = [n \in DOMAIN @ \cup {m} |-> IF n = m THEN drafts[m] ELSE @[n]]]
  /\ UNCHANGED <<queue, history, calls, starts, recovery, strayed>>

\* Variants for mutation: the entry is not deleted from the stream, or the drafts
\* go with it.
KeepsTheEntry(e, raw) ==
  /\ drafts' = [m \in Messages |-> IF m \in e.ids THEN [drafts[m] EXCEPT !.state = "pending"] ELSE drafts[m]]
  /\ claimed' = claimed \ {e.id}
  /\ receipts' = [receipts EXCEPT ![e.delivery].status = "returned"]
  /\ UNCHANGED <<mailbox, added>>
DropsTheDrafts(e, raw) ==
  /\ drafts' = [m \in Messages |->
       IF m \in e.ids THEN [drafts[m] EXCEPT !.state = "absent", !.listed = FALSE] ELSE drafts[m]]
  /\ mailbox' = {f \in mailbox : f.id # e.id}
  /\ claimed' = claimed \ {e.id}
  /\ receipts' = [receipts EXCEPT ![e.delivery].status = "returned"]
  /\ UNCHANGED added

\* The MULTI that hands an entry back: its drafts as they were read, its claim
\* and its receipt.  The hash is written and the order is not.
HandBack(e, raw) ==
  /\ drafts' = [m \in Messages |->
       IF m \in e.ids /\ raw[m].state # "absent"
       THEN [raw[m] EXCEPT !.state = "pending", !.listed = drafts[m].listed, !.rev = drafts[m].rev + 1]
       ELSE drafts[m]]
  /\ mailbox' = {f \in mailbox : f.id # e.id}
  /\ claimed' = claimed \ {e.id}
  /\ receipts' = [receipts EXCEPT ![e.delivery].status = "returned"]
  /\ UNCHANGED added

release_entry(a) ==
  /\ At(a, "releasing") /\ run[a].hold # {}
  /\ DOMAIN run[a].raw = Entry(a).ids
  /\ HandBack(Entry(a), run[a].raw) /\ Strays(Entry(a))
  /\ run' = [run EXCEPT ![a].hold = @ \ {Entry(a)}, ![a].raw = <<>>]
  /\ UNCHANGED <<history, calls, starts, recovery>>

\* XLEN, then DEL: an entry added in between goes with the stream.
release_done(a) ==
  /\ At(a, "releasing") /\ run[a].hold = {}
  /\ IF MailboxOf(run[a].turn) = {} THEN Goto(a, "emptied") ELSE Leave(a)
  /\ UNCHANGED <<queue, history, calls, starts, recovery, strayed>>

delete_stream(a) ==
  /\ At(a, "emptied") /\ Leave(a)
  /\ mailbox' = mailbox \ MailboxOf(run[a].turn)
  /\ claimed' = claimed \ {e.id : e \in MailboxOf(run[a].turn)}
  /\ strayed' = strayed \cup UNION {e.ids : e \in MailboxOf(run[a].turn)}
  /\ UNCHANGED <<drafts, receipts, added, history, calls, starts, recovery>>

\* MessageQueueUnavailable is swallowed: the rest of the mailbox stays.
release_unavailable(a) ==
  /\ run[a].pc \in {"release", "releasing", "emptied"} /\ Leave(a)
  /\ UNCHANGED <<queue, history, calls, starts, recovery, strayed>>
-----------------------------------------------------------------------------
(* A crash, and _reconcile_message_queue before the backend serves again.   *)

crash ==
  /\ backend' = "down"
  /\ run' = [a \in Runs |-> NoRun] /\ launching' = NoTurn /\ calls' = [c \in Clients |-> Idle]
  /\ todo' = {} /\ returning' = {} /\ outage' = FALSE
  /\ UNCHANGED <<queue, history, attempt, strayed>>

restart ==
  /\ backend = "down"
  /\ backend' = "deliveries"
  /\ \/ todo' = mailbox /\ UNCHANGED outage
     \/ todo' = {} /\ outage' = TRUE
  /\ UNCHANGED <<queue, history, calls, run, starts, strayed, returning>>

\* One pending delivery: complete the half of its record that is missing, then
\* acknowledge it, leave it to its paused Turn, or mark its Turn for release.
reconcile_delivery(e) ==
  /\ backend = "deliveries" /\ e \in todo
  /\ LET running == turns[e.turn] = "running"
         recorded == ledger[e.delivery] # 0
         projected == e.delivery \in nodes
     IN /\ nodes' = IF recorded /\ running THEN nodes \cup {e.delivery} ELSE nodes
        \* Without a running run in SQLite (running_run_id) the ledger stays as it is.
        /\ ledger' \in IF projected /\ running /\ ~recorded
                       THEN {ledger, [ledger EXCEPT ![e.delivery] = attempt]} ELSE {ledger}
        /\ IF ledger'[e.delivery] # 0 /\ e.delivery \in nodes'
           THEN /\ \/ Acknowledge(e) /\ UNCHANGED outage
                   \/ UNCHANGED queue /\ outage' = TRUE
                /\ UNCHANGED returning
           ELSE /\ returning' = IF turns[e.turn] = "paused" THEN returning ELSE returning \cup MailboxOf(e.turn)
                /\ UNCHANGED <<queue, outage>>
  /\ todo' = todo \ {e}
  /\ UNCHANGED <<turns, calls, run, starts, strayed, backend>>

\* Variant for mutation: the interrupted Turns are failed, their mailboxes kept.
FailsWithoutReleasing ==
  /\ backend = "deliveries" /\ todo = {}
  /\ turns' = [t \in Turns |-> IF turns[t] = "running" THEN "failed" ELSE turns[t]]
  /\ returning' = {}
  /\ backend' = "release"
  /\ UNCHANGED <<queue, ledger, nodes, calls, run, starts, strayed, todo, outage>>

reconcile_turns ==
  /\ backend = "deliveries" /\ todo = {}
  /\ turns' = [t \in Turns |-> IF turns[t] = "running" THEN "failed" ELSE turns[t]]
  /\ returning' = returning \cap mailbox
  /\ backend' = "release"
  /\ UNCHANGED <<queue, ledger, nodes, calls, run, starts, strayed, todo, outage>>

reconcile_release ==
  /\ backend = "release" /\ returning # {}
  /\ HandBack(First(returning), drafts)
  /\ returning' = returning \ {First(returning)}
  /\ UNCHANGED <<history, calls, run, starts, strayed, backend, todo, outage>>

serve ==
  /\ backend = "release" /\ returning = {}
  /\ backend' = "up"
  /\ UNCHANGED <<queue, history, calls, run, starts, strayed, todo, returning, outage>>

reconcile_unavailable ==
  /\ backend = "release" /\ returning # {}
  /\ returning' = {} /\ outage' = TRUE /\ backend' = "up"
  /\ UNCHANGED <<queue, history, calls, run, starts, strayed, todo>>

-----------------------------------------------------------------------------
Edit == \E m \in Messages : delete(m) \/ \E x \in Texts : create(m, x) \/ update(m, x)
Steer == \E c \in Clients :
  \/ \E d \in Deliveries, t \in Turns, ids \in SUBSET Messages : steer_turn(c, d, t, ids)
  \/ read_receipt(c) \/ read_drafts(c) \/ dispatch_script(c)
Worker(a) == \/ claim(a) \/ record_input(a) \/ project_input(a) \/ ack_input(a) \/ finish(a)
             \/ free_key(a) \/ close_stream(a) \/ read_final(a) \/ release_turn(a)
             \/ (\E m \in Messages : read_draft(a, m)) \/ release_entry(a) \/ release_done(a) \/ delete_stream(a)
Launch == launch_conflicts \/ \E t \in Turns : append_turn_version(t) \/ start_turn(t)
Reconcile == \/ restart \/ reconcile_turns \/ reconcile_release \/ serve
             \/ \E e \in todo : reconcile_delivery(e)
Trouble == crash \/ reconcile_unavailable \/ \E a \in Runs : apply_raises(a) \/ release_unavailable(a)

Next == Edit \/ Steer \/ Launch \/ Reconcile \/ Trouble \/ \E a \in Runs : Worker(a) \/ request_pause(a)
Spec == Init /\ [][Next]_vars

\* Without failures; and, for FairSpec, with handlers and workers running to
\* their end.  Nobody has to start a Turn or ask for a pause.
CalmNext == Edit \/ Steer \/ Launch \/ \E a \in Runs : Worker(a) \/ request_pause(a)
CalmSpec == Init /\ [][CalmNext]_vars
FairSpec == CalmSpec /\ \A a \in Runs : WF_vars(Worker(a))
                 /\ \A c \in Clients : WF_vars(read_receipt(c) \/ read_drafts(c) \/ dispatch_script(c))

-----------------------------------------------------------------------------
Receipt == [print : Turns \X SUBSET Messages, status : {"dispatched", "acknowledged", "returned"},
            text : UNION {[ids -> Texts] : ids \in SUBSET Messages}]

\* Every variable keeps its shape.
TypeOK ==
  /\ drafts \in [Messages -> [state : {"absent", "pending", "dispatched"}, listed : BOOLEAN, text : Texts,
                            rev : Nat]]
  /\ receipts \in [Deliveries -> Receipt \cup {NoReceipt}]
  /\ \A e \in mailbox : /\ e.id \in 1 .. added /\ e.delivery \in Deliveries /\ e.turn \in Turns
                        /\ e.ids \in SUBSET Messages /\ e.text \in [e.ids -> Texts]
  /\ claimed \subseteq 1 .. added /\ added \in Nat
  /\ turns \in [Turns -> {"none", "running", "paused", "success", "failed"}]
  /\ ledger \in [Deliveries -> 0 .. attempt] /\ nodes \subseteq Deliveries
  /\ backend \in {"up", "down", "deliveries", "release"}
  /\ outage \in BOOLEAN /\ strayed \subseteq Messages /\ launching \in Turns \cup {NoTurn}

\* A draft is marked dispatched exactly while one mailbox entry carries it, and
\* an entry's receipt says dispatched: no draft is carried twice, none is stuck
\* with nothing carrying it.  The exceptions are the drafts that strayed: a run
\* acknowledged an entry that an earlier worker was handing back, two workers
\* handed one back, or release_turn deleted a stream that was no longer empty.
\* Nothing else breaks it (dispatch, edits, ack, release_turn, crashes and the
\* reconciliation against each other).
CarriedOnce ==
  /\ \A m \in Messages \ strayed : drafts[m].state = "dispatched" <=> \E e \in mailbox : m \in e.ids
  /\ \A e, f \in mailbox : e # f => e.ids \cap f.ids \subseteq strayed
  /\ \A e \in mailbox : e.ids \cap strayed = {} =>
       /\ receipts[e.delivery] # NoReceipt
       /\ receipts[e.delivery].status = "dispatched"
       /\ receipts[e.delivery].print = Fingerprint(e.turn, e.ids)
       /\ \A f \in mailbox : f.delivery = e.delivery => f = e

\* A first dispatch carries the text its drafts show: an edit that lands
\* between reading the drafts and the script is refused by the raw comparison.
\* (A delivery that was returned is sent again with its stored envelope.)
CarriesShownText ==
  \A e \in mailbox :
    ~e.again => \A m \in e.ids \ strayed : e.text[m] = drafts[m].text

\* Only a delivery recorded in the ledger is acknowledged: whatever raises,
\* crashes or is retried, a consumed draft is part of the SQLite history.
AcknowledgedIsRecorded ==
  \A d \in Deliveries : receipts[d] # NoReceipt /\ receipts[d].status = "acknowledged" => ledger[d] # 0

\* A restart that reached Redis hands every delivery back unless its Turn is
\* paused and will take it later.  An entry whose receipt says acknowledged (a
\* strayed delivery that was sent again before the acknowledgement) stays.
RecoveryReturnsAll ==
  [][backend # "up" /\ backend' = "up" /\ ~outage'
       => \A e \in mailbox' : \/ turns'[e.turn] = "paused"
                              \/ e.ids \subseteq strayed' /\ receipts'[e.delivery].status = "acknowledged"]_vars

D == INSTANCE DraftDelivery WITH
       draft <- [m \in Messages |-> IF drafts[m].state = "dispatched" THEN "flying" ELSE drafts[m].state],
       batch <- [d \in Deliveries |-> IF receipts[d] = NoReceipt THEN {} ELSE receipts[d].print[2]],
       logged <- {d \in Deliveries : ledger[d] # 0}

\* The queue keeps the promise of DraftDelivery: a draft that was dispatched
\* leaves the queue only by its author's hand or once the history holds its
\* text, even while one run acknowledges what another hands back.
KeepsPromise == D!Spec

\* A draft that was accepted into a mailbox is in the end consumed or handed
\* back, or waits for a paused Turn.
AcceptedIsSettled ==
  \A m \in Messages :
    drafts[m].state = "dispatched"
      ~> \/ drafts[m].state # "dispatched"
         \/ \E e \in mailbox : m \in e.ids /\ turns[e.turn] = "paused"
=============================================================================
