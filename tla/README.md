# A TLA+ model of the mini_agent backend

mini_agent is a local agent application: a browser front end talks over HTTP and
server-sent events to a FastAPI backend, which runs a model-and-tools loop per
*Turn* of a conversation *Thread*, keeps Turns and runs in SQLite, and uses Redis
streams for queued drafts, steering messages and start requests. Everything that
executes in the background is a *Job* under one process-wide registry.

The models cover the concurrent core of the backend: the job registry and its
scopes, supervised services, the way of a queued message into a running Turn, and
the way of an accepted message to an executing Turn. `PROJECT.json` maps every
definition to the lines it models and lists the hazards; paths below are relative
to `src/backend/src`.

## Inventory

| Part | Where | Status |
|---|---|---|
| Job registry: admission, slots, queue, history | `jobs/registry`, `jobs/base.py`, `jobs/scheduling.py` | `JobRegistry` |
| Scope tree and its close | `jobs/scope.py`, `jobs/registry/scopes.py` | `JobScopes` (extends `JobRegistry`) |
| Supervised services | `jobs/service_job.py` | `ServiceJob` |
| Drafts, deliveries, receipts, steering | `storage/redis_message_*.py`, `storage/message_mailbox.py`, `runtime/conversation/steering.py` | `TurnMailbox`, partly |
| Start-up reconciliation | `api/state.py` | `TurnMailbox` and `TurnAdmission`, partly |
| Turn admission, reservation, registries, Turn records | `api/turn_message_worker.py`, `api/chat/streaming.py`, `api/routes/turns.py`, `storage/sqlite_runtime/nodes.py`, `storage/sqlite_agent_threads.py` | `TurnAdmission`, partly |
| Thread and process jobs, job output, job events | `jobs/thread_job.py`, `jobs/output.py`, `jobs/processes`, `runtime/job_events.py` | planned |
| Turn streams, event transport, pause callbacks | `api/active_turn_stream.py`, `storage/runtime_event_stream.py`, `api/pause_control.py` | planned |
| Terminals | `api/terminal_manager.py`, `storage/terminal_stream.py` | planned |
| Agent runner, interrupts, sub-agents | `runtime` | planned |
| Todo lists; sidebar and right-panel stores | `storage` | planned |
| Settings, projects, domain types | `storage/settings`, `storage/projects.py`, `domain` | not modelled |
| Sandbox | `sandbox` | not modelled but for a planned lease manifest |
| MCP, planning, providers, tools, skills, observability | same names | not modelled: external protocols, prompts and file I/O |
| Front end | `frontend/src` | not modelled; its Turn reducers are planned with the streams |

## Modules and the code

**JobRegistry.** One action per critical section of the registry's lock or a job's
lock, with the code up to the next one. `register`, `add_listener`, `start` and
the `finish_admission_*` actions are the steps of one submitting thread, whose
place is `pc[j]`; `on_job_state_change` is the later notice of a terminal
transition and contains all of `_on_terminal`: flag, leave the queue, release the
lease, prune the history, drain the lane. `running` holds the slot counters of
each level and lane, `lease` what a job was given. Job payloads are left out.

**JobScopes** adds the scope tree and the two loops of `_close_scope`, interleaved
with every registry step.

**ServiceJob** has the supervisor thread, cancelling threads and a transport that
reports results. The driver is external: `start` returns a new handle or raises,
`check` answers anything.

**TurnMailbox** has clients that edit and steer, the workers of the Thread's runs
(`run[a]`, one per attempt) that claim, record, project and acknowledge, their
`finally` blocks, crashes, Redis outages, and the reconciliation. Each Redis command
or script that another actor can overtake is a step. A worker frees the Thread's key
(`free_key`) before it closes its stream, reads the final status and calls
`release_turn`; from then on the next run may go on beside it. `release_turn` is
step by step as in the code: it reads the stream once, reads the drafts of an entry
outside the transaction (`read_draft`), hands the entry back in one transaction
(`release_entry`), asks for the length and deletes the stream (`release_done`,
`delete_stream`). The acknowledgement does not look whether its entry is still in
the stream, so two workers can settle one entry; the history variable `strayed`
remembers the drafts of such an entry, and those deleted with a stream. The Thread's
key is one key here: its registry exists (see `TurnAdmission` for its first use).
**DraftDelivery** is the abstract promise to the author of a draft: it stays theirs
until dispatched, and once dispatched it leaves the queue only when the history
holds the text of a delivery that carried it.

**TurnAdmission** has the create, rewind, resume, pause, compact and version
endpoints, the start stream, the message worker, the Thread reservations (`keys`),
the registries of `_stream` (`controller`, `active`), the runs and compactions, and
the Turn records (`status`, `versions`, `running`). The registry of reservations is
not made at start-up: `_runtime_stream_lock_registry` makes it on first use, without
a lock, so `made` counts the registries made, `find_registry` and `make_registry` are
two steps, and a reservation is a pair of a registry and a Thread. The callers are
the message worker's thread, the event loop (resume) and the thread pool (compact);
handlers on the event loop exclude each other (`LoopIsFree`). A record that code
reads in one transaction and writes back in another is kept as a copy in between (`copy`,
`pausing`, `patch`). `Spec` is the backend without version selection;
`PatchedSpec` adds it.

The `MC*` modules hold the constants of the instances and nothing else.

## Runs

| Run | Distinct states | Shows |
|---|---|---|
| `registry_competing` | 359,859 | Three jobs, one slot: exact counters, a running job holds its lease and returns it, first-in-first-out per owner, a drain respects every limit |
| `registry_family` | 17,919 | A job, one that inherits its slot, one that needs none; pruning and unregister; the slot of an ended job comes back |
| `scopes_tree` | 51,148 | Root and session closed while scopes and jobs appear: no open scope below a closed one, every job found running is ended or reported, a close without a timeout returns |
| `service_supervisor` | 64,753 | Two cancellers: each instance stopped once, none leaked, a cancelled service ends |
| `mailbox_recovery` | 521,886 | Crashes and outages, and a second run beside the release of the first: each draft is carried once, an acknowledged delivery is recorded, a restart that reaches Redis hands back the rest, `DraftDelivery` is implemented |
| `mailbox_race` | 703,476 | Two clients dispatching an edited draft while one run acknowledges what the other hands back: each draft is carried once, with the text it shows, and `DraftDelivery` is implemented with two deliveries as well |
| `admission` | 753,402 | Each registry gives a reservation to one holder; Thread claims and streams belong to live holders; an acknowledged create is in its Turn |

State counts are after symmetry reduction where the configuration states it. The
five other runs end in a counterexample; each is a disagreement between the code
and a statement of the repository, quoted in `PROJECT.json`:

- `registry_leak`: a cancellation handled between the admission decision and the
  admission leaves a slot counted for good (`jobs/registry/admission.py:37`).
- `scopes_quiet`: a job that starts while its scope is being closed may be neither
  waited for nor reported (`jobs/registry/scopes.py:67`).
- `service_stopped`: a service job is marked cancelled before its instance is
  stopped (`jobs/service_job.py:318`).
- `mailbox_settled`: a steer checked before the Turn closes and dispatched after it
  stays in a mailbox nobody reads until the backend restarts, or is deleted with it
  between the two commands that end `release_turn`.
- `admission_active`: `set_turn_current_data` writes a stale record back, so an
  ended Turn is `running` again and a second one starts beside it.

These are results about the models; none was reproduced on the running program.

**What the passing properties do not say.** `StartedJobGivesSlotBack` is about jobs
that got as far as running; `registry_leak` is about those that did not.
`CloseAccountsForJobs` exempts jobs the close saw pending, the case of
`scopes_quiet`. `DrainRespectsCaps` is about drains: a direct start admitted on a
stale decision can exceed a limit. `SlotEventuallyReleased` exempts jobs whose record
is gone.

`ReservationOwned` counts a run whose submission raised as the holder of its
reservation: the code never releases it. Its last conjunct, and `StreamIsOfTheRun`,
hold while the process has made one registry. Callers that come together on first
use can make two, and two runs of a Thread, or a run and a compaction, may then
execute side by side until they end, the later one's stream replacing the earlier's:
the code gives no exclusion there. With two registries the first conjuncts still say
that each has one holder per Thread and no reservation without a holder.

`CarriedOnce` and `CarriesShownText` exempt the drafts that strayed. When a run
acknowledges an entry that the worker before it hands back, the drafts can be pending
or dispatched again in between, and are deleted, or one that was deleted is written
back. `KeepsPromise` exempts nothing: even then a dispatched draft that leaves the
queue is in the history. It allows a draft to stay dispatched for good, the case of
`mailbox_settled`. `CarriesShownText` also exempts a returned delivery that is
sent again, which carries its stored text. `RecoveryReturnsAll` exempts paused Turns, a
reconciliation cut off by Redis, and an entry of a strayed delivery whose receipt
says acknowledged, which `ACK_SCRIPT` leaves in the stream.

`AcknowledgedStartIsRecorded` is about creates; a rewind can be acknowledged with
no run working on it. `OneActiveTurn` fails without version selection as well: a
finished run removes the pause controller of its successor, a pause then seals the
record under the live run, and that run's next write revives it.

## Bounds

Two or three jobs and one slot make queueing, draining and inheritance happen; a
history limit of 1 or 2 makes pruning happen. One tolerated failure and one
rebuild put `ServiceJob` at its limits. `MaxRev`, `MaxEntries` and `MaxAttempts`
bound the writes of a draft, the entries of a stream and the runs of a Thread: two
of each allow an edit, a re-dispatch and a second run. `mailbox_recovery` has two
messages, one delivery, one text and two runs; `mailbox_race` one message, two
deliveries, two clients, two texts and two runs without crashes; their product was
not explored. `mailbox_settled` has one run. `admission` has one Thread, one Turn
with a create and a rewind, two runs or compactions at a time and one restart, after
which two registries can be made (before it the create has made the only one).
`admission_active` has a second Turn and version selection, and begins with the
first Turn already created (`Served`). Deadlock checking is off throughout: with
finitely many jobs, messages and restarts the system may come to rest.

## Fairness

Only `registry_family`, `scopes_tree`, `service_supervisor` and `mailbox_settled`
assume fairness, always weak and of threads inside a call, which the operating
system schedules. It also makes carriers end (`finish`) and driver calls return; a tool or service that hangs for ever is
outside these liveness results. Nobody has to start, cancel, pause or unregister.
`mailbox_settled` excludes crashes and outages, so that its counterexample is due
to the race alone.

## Proofs

All hold for every value of the constants under the named `ASSUME`s: finitely many
jobs with well-typed attributes and natural limits; `Parent` a function on scopes;
a positive failure budget; each Turn in one Thread, and the null values
not among the Turns, runs and deliveries.

- `JobRegistryProofs`: `SlotAccountingHolds` by `SlotInv`, which adds to the
  accounting that a job not yet admitted, or queued, has no lease; otherwise an
  admission could count a job twice. `LeaseLifecycleHolds` by `LifeInv`, which adds
  that a pending job on a list of jobs to start holds its lease.
- `JobScopesProofs`: `ScopeTreeHolds` by `TreeInv`; `CloseAccountsForJobsHolds` by
  `CloseInv`, which says that once a close has begun every live job of its subtree
  is in one of its lists. The registry's invariant is reused.
- `ServiceJobProofs`: `InstancesStoppedExactlyOnce` by `Inv`, whose core is that
  each marked handle has one stopper, and that an unmarked active handle of a
  cancelled job has a canceller still to come.
- `TurnAdmissionProofs`: `TypesHold`, `ReservationOwnedHolds` and
  `StreamIsOfTheRunHolds` for `Spec`, `ClaimIsLiveHolds` for `PatchedSpec`, from one
  invariant of both: types, `ClaimIsLive`, and `HoldInv`. The latter has three parts.
  `KeysOwned`: each registry's reservations are those of its holders, one each.
  `RegInv`: the registry a caller has is one of those made, so that with one made
  all holders share it; this is where the lazy creation enters. `StreamInv`
  strengthens the stream property to runs that have reserved and not yet begun.

Only model-checked: all liveness properties, `QueueOrder`, `DrainRespectsCaps`,
everything about `TurnMailbox` with its refinement of `DraftDelivery`, and
`AcknowledgedStartIsRecorded`. Liveness under fairness is out of the prover's
reach; the others are left for later.

## Not modelled, and next

Within the modelled parts: the start of a Turn from a queued draft (the second half
of `create_turn`, which dispatches a draft to the start stream); draft order,
Thread and report mailboxes, receipt
expiry; fork, completion of a paused Turn, config patches, plan handoffs and
compaction in mid-run, sub-agent Threads; Todo receipts. Time is not modelled: a
timeout is a step that may happen.

Next, in this order: Turn streams with replay to late subscribers and the bounded
job event queue; interrupts and pause callbacks; the agent runner over model
answers and tool calls; sub-agent delegation and reports; terminals and process
jobs; Todo lists and the panel stores. `TurnMailbox` and `TurnAdmission` are to be
composed over one Thread. Proofs to follow: `CarriedOnce`,
`AcknowledgedIsRecorded` and the refinement of `DraftDelivery`, then
`AcknowledgedStartIsRecorded`. The models cover the part of the code with the most
concurrency, which is a small share of its lines.
