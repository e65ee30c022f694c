# TLA+ models of chatgpt-chat-bridge

chat-bridge lets command-line agents hold conversations in logged-in ChatGPT
browser tabs. A durable queue in SQLite (`src/coordinator.py`) decides *what* is
sent to whom; short-lived browser programs (`bin/chat-bridge` + `src/main.js`,
run by `src/ego-runner.py`) type it. Many processes take part: one or more
`serve` workers, a browser child per claim, operator commands, a watchdog, and
readers of two shared JSON documents. There is no exactly-once primitive on the
far side: the page accepts a click and may or may not show it. All the promises
below come from the order in which these processes commit rows, create files and
press Send.

The modules here are translations of that code, small enough for TLC, and
written so that the central results are also proved with TLAPS for every number
of operations, workers, accounts and retries.

## Inventory

### Components

| Component | State | Operations | Modules |
|---|---|---|---|
| Durable delivery queue (`coordinator.py`, `delivery_attempt.py`) | `operations` rows; claim directories `delivery-attempts/<op>/<n>`; worker locals | claim, retarget, mode check, prepare, spawn, collect, finish, retry, cancel, recover, reconcile | `Dispatch`, `Delivery`, `DispatchProofs` |
| Sending a message (`main.js` `sendMessage`, `triggerSend`; `delivery-attempt.mjs`) | phase files of a claim, the conversation itself | admission, intent, second admission, click, observation | `Dispatch` (`ChildStep`) |
| Control modes (`coordinator.py` `set_control_mode`, `management_mode`) | `control_state` rows: mode, epoch per scope | pause, drain, resume, read | `Dispatch` (global and project scope) |
| State store (`state-store.py` and its client in `main.js`) | `documents` rows for registry and runtime, JSON projections | peek, get, put (three-way merge), bootstrap | `StateStore`, `StateStoreProofs` |
| UI pacing lock (`bin/chat-bridge`), event journal (`event-journal.js`) | lock directory with a pid, time stamps | acquire, recover a dead owner, pace, release | `PacingLock`, `PacingLockProofs` |
| Result outbox, management broadcasts (`coordinator.py`) | `task_results`, `management_deliveries`, their operations, `session_successors` | result, callback, broadcast, materialize, refresh, retarget, acknowledge, cancel, retry, reconcile | `Outbox`, `OutboxProofs` |
| Rotation and quarantine (`coordinator.py`, `state-store.py`) | `role_rotations`, logical sessions, quarantined roles | prepare, send, acknowledge, recover, quarantine, fence registrations | `Rotation`, `Succession`, `RotationProofs` |
| Image capability (`coordinator.py` `image_*`, `capabilities/image/`) | `image_jobs` documents with attempts and revisions, grants, batch budgets; files of originals, received copies and receipts | begin, send, observe, assist, cancel, export, publish, receive | `ImageJob`, `ImageArtifacts`, `ImageProofs` |
| Watchdog (`main.js` `watchOnce`, `gradedRecover`, and the policy modules), event journal | recovery counts, notices and pauses of tasks in the runtime document, reconcile state of projects, journal lines | scan, recover, notify, reconcile | `Watchdog`, `WatchdogProofs` |
| Page allocation, attachment, release (`main.js`, `page-pool.js`, `space-catalog.js`, `delivery_attempt.py`, `coordinator.py` `page_resource_decision`) | pages of a Space, attachments and overflow Spaces in the registry, allocation and release journals | send, new, allocate, reclaim, overflow, release, terminate, prune | `Pages`, `PagesProofs` |
| Submission (`coordinator.py` `submit`), resource waits, direct send requests, process supervision, account selection, native Codex delivery, web runtime stream | see `PROJECT.json` | | not modelled, or only where another part meets them: see *Not modelled* |
| Picker and page probes, GitHub synchronisation, local queries, release identity, wrappers | remote DOM, remote boards, read-only views, file digests | | not modelled: the state is not in this repository or nothing is changed |

### Interactions

- *Worker to child*: a worker publishes an immutable `manifest.json`, then starts
  a child in a process session of its own. The child talks back through phase
  files, two `delivery-admission` commands (which open the database themselves),
  and a receipt on its output. The worker may die, be cancelled, or time out
  while the child lives on.
- *Workers among themselves and with commands*: only through SQLite. Each
  `claim`, `finish`, `retry`, … is one writer transaction; `work_one` makes
  several, and everything may happen between them.
- *Queue and documents*: routes, controllers and rotation state live in the
  registry document, task and chat state in the runtime document. The browser
  program edits both through `state-store.py put`; the coordinator edits the same
  rows directly.
- *Browser programs of one account*: serialized by the pacing lock. Between two of
  their steps the coordinator claims and settles operations, results come in, and
  people use the same tabs.
- *Image commands*: each is a process that reads and writes one `image_jobs` document
  through revision checks of the coordinator, and files that appear by `link(2)`.
- *Watchdog and pages to the coordinator*: the watchdog queues callbacks and sends
  reconcile messages; page releases ask `page_resource_decision` for permission and
  leave a journal that later commands read.

### What is hard here

`PROJECT.json` lists each hazard with the line where it bites. In summary: a
claim that outlives its worker; an outcome written for a claim that is no longer
current; a child that is about to click when its claim expires; the gap between
admission and click; ordinals given back by a cancelled claim and used again;
a pause between a mode read and a click; mirrors of an operation's status in
other tables; two documents merged by path from several processes; lock
directories recovered from dead owners; lost acknowledgements of irreversible
page operations and of image generations that cost money; a watchdog that works on a
copy of a task while its controller ends it; pages that a person makes busy, and tasks
that are set, between the permission to close a page and the close.

## Modules

### Dispatch

`Dispatch.tla` is the queue with everything that can disturb one delivery.

- `ops` is the `operations` table (status, attempts, claimed_at,
  pre_send_failures, control scope and epoch, account, whether the session is
  known); `due` abstracts `not_before`.
- `worker[w]` is the program counter and locals of one `work_one` call, with one
  pc per gap between two transactions. `latched` is the cancellation latch of
  `bridge_cancellation`. The code has one latch per process and a process runs
  one `serve` loop per thread; a latch per worker allows every combination that
  allows, and more.
- `child`, `receipt`, `manifest` are indexed by claim `<<operation, ordinal>>`,
  as the directories are. `child` is the furthest phase of the claim's process,
  `receipt` what its worker can learn from its output.
- `control` and `setter` are `control_state` and the read-then-write of
  `set_control_mode`; `pauses` is a history variable for `PauseFence`.
- `proofs` is a `reconcile` call between its read of the chat and its commit.
- `sent[o]` counts the messages in the conversation: the only state that no
  process of the repository can read reliably.

Actions follow the code in order: `Claim` (expiry, ranking, account exclusion,
row update in one transaction), `ReturnClaim` (a signal latched during COMMIT),
`Retarget` or `CheckMode`/`Restamp`/`Reread`, `RouteChanged`, `Prepare`, `Spawn`,
`Collect`/`Abandon`, `RecordTask`, `Finish`; for the child `Decline`,
`RecordIntent`, `Arm`, `Click`, `Observe`, `ChildDies`; for operators `Retry`,
`Cancel`, `ReadEvidence`/`CommitEvidence`, `Supersede`, `ReadEpoch`/`SetMode`,
`Recover`, `RefreshRoutes`; for the environment `Elapse`, `Interrupt`, `Restart`,
`Crash`.

Abstractions: time (any claim may be overdue whenever the code compares it with
the clock, any postponed row may become due); the DOM (each probe is a choice
between its outcomes); text, routes and digests (equal or changed). The
`delivery-admission` command reads the row and then the mode in two autocommit
reads; the model takes them in one step. This loses nothing: the two admissions
are separated by a step of the child, a row that is DISPATCHING under the
manifest's claim stays so until a step that the model may also place before or
after the pair, and the mode read is the later of the two.

Left out of `Dispatch`: operations of kind `stop`, native targets, and the
workgroup control scope, which are further branches of the same handlers.

### Delivery

`Delivery.tla` is the promise behind the queue in nine operators: six public
phases per operation and the number of messages posted. `Dispatch` implements it
under the mapping `Promise` (`phase <- PhaseOf(status)`, `posted <- sent`).

### StateStore

`StateStore.tla` is one of the two documents: its SQLite row, the JSON file
projected from it, and everything that edits it.

- A document has two levels, records (a task, a chat, a project) and fields, the
  depth at which `differences` and `apply` tell cases apart: an absent record, an
  empty one, a new one that is compared field by field, a field that is added,
  changed or removed. Values are the times they were written, so two edits never
  agree by accident and the heartbeat comparison of `merge_runtime_volatile` has
  something to compare.
- `client[c]` is a run of `main.js`: the copy it started from (`stateBaselines`),
  the copy it wants, the paths it wants checked. `Peek`, `Edit`, `Save`, `Quit`.
- `store[p]` is the `state-store.py` process of a client's `put` or of a `get`,
  between its transactions: `Get`, `ReadSeed`, `Insert`, `Reread`, `Commit`,
  `Project`, `Fail`. A `put` outlives its client; a client that received an
  error after the commit keeps its old baseline and may save again.
- `Transaction` is a coordinator command that reads and writes in one
  `BEGIN IMMEDIATE`. `ReadForWrite`/`WriteBack` are the three that do not; they
  belong to `UnguardedSpec` only, so that `Spec` is the store as `put` and the
  transactions leave it and `UnguardedSpec` the store with those three beside them.
- `seen` and `author` are history variables of the properties.

Left out: the registration fence of `put` (it is in `Rotation`), and the
database deadlines, which are one more way for a process to `Fail`.

### PacingLock

`PacingLock.tla` is the part of `bin/chat-bridge` from the choice of the lock
directory to the end of the script, for the commands of one account.

- `dir` and `pid` are the lock directory and the file in it. `dir` remembers which
  command made it, which the code cannot see. `held` is LOCK_HELD, `client` the
  living browser clients, which are processes of their own.
- Time is kept in ages (`last`, `heavyLast`: the stamps) and countdowns (`timer`:
  the rest of the lock wait, then of the sleep) that `Tick` moves, so it has no
  bound; an age stops at the heavy interval, beyond which the script asks nothing.
  `rest` and `heavyRest` are what the stamps should say.
- `Mkdir`, `ReadPid`, `CheckPid`, `Busy` are one round of the lock loop; `Unlink` and
  `Rmdir` are every `rm -rf` (of a waiter, of a deferral, of a trap), with `resume`
  for where the script goes on; `WritePid`, `ReadStamps`, `Run`, `ClientEnds`,
  `Stamp`, `Exit` are the rest. `Fail` is any command that fails under `set -e`,
  `Interrupt` INT and TERM, `Kill` SIGKILL (of the shell alone, or of all).

Left out: reuse of process ids, the tolerance of 0.01 s, the exit status (a watch
command reports success where others report PACING_DEFERRED), the cooldown gate,
and commands that do not touch the web, which take no lock. `event-journal.js`
uses the same lock protocol around an append.

### Outbox

`Outbox.tla` is how a result of a task, a plain callback and a management event
reach the conversation of their owner while conversations retire and rotations
commit successors.

- `ops` holds the callback and management rows of `operations`, named by their
  request key: what is told, and the conversation it was made for. A row may move on
  to a successor (`session`) and keeps its key.
- `results` and `deliveries` are the two tables that mirror the fate of a row:
  `task_results` and `management_deliveries` (whose primary key is event and target).
  `task` is the status and last result the runtime document shows.
- `chat` and `succ` are the registry status of conversations and `session_successors`;
  `contract` is the owner recorded in the task: a conversation, nobody (the owner is
  then the root), or a local Codex owner, which polls.
- `calls` are commands between their reads and their transaction, with the copy they
  took; `canceller` is the same for `cancel`; `worker[w]` is one `work_one`.
- `posted` is what the conversations really contain; `missed` is a history variable.

`ReadResult`/`CommitResult`, `ReadCallback`/`CommitCallback`,
`ReadTargets`/`CommitBroadcast` create notices. A worker goes through `Materialize`
(attach results that have no callback, wake plain callbacks), `Refresh` (move waiting
notices to successors), `Claim`, `Route` and `Redirect` (the owner retired after the
claim), `Spawn`, `Deliver` or `Decline`, `Finish`; `Expire` and `Crash` disturb it.
`Retry`, `CancelRead`/`CancelWrite`, `ReconcileSent`, `ReconcileSuperseded`, `Ack`,
`AckEvent` are the commands; `Register`, `Retire`, `Commit` change the conversations.

Abstractions: one project, role and workgroup, and a verified account per
conversation; the exclusion of accounts, the order of claims and the inside of the
child are those of `Dispatch` (here the child sends or does not, and is believed or
not). `Ack` is one action: its owner is looked up before the transaction, so the model
accepts an owner that ever was one. `budget` is chosen in `Init` and bounds what one
behaviour is about.

### Rotation

`Rotation.tla` is how a role passes from a conversation that ran out of context to a
successor that a child of the queue opens, and how a rotation of unknown fate is
quarantined without a second successor ever appearing.

- `registry` holds status, role and recovery proof of every chat; an archived or
  deleted chat is `retired` here, since only active and pending ones count. `logical`
  is the `logical_sessions` row of the role, `ops` the `rotation` rows of `operations`,
  `audit` the `ROTATION_QUARANTINE` events with the row each recorded, `checkpoint` the
  latest `session_checkpoints` row, `succ` is `session_successors`, `tasks` and
  `resumed` are the runtime tasks and the `rotation-resume` operations.
- `child[r]` is the process that opens the new conversation: admission (`Arm`), click
  (`Post`), registration (`Register`), receipt (`ChildEnds`), and the worker's `Finish`.
  `remote` says what each conversation of ChatGPT was opened with. A rotation has one
  child at a time: `Dispatch` proves that no older one can still send.
- `call[k]` is a control command between what it read and its transaction, with the
  copy it took: `PrepareRead`/`PrepareCommit`, `QuarantinePreview`/`QuarantineConfirm`
  (two invocations in the code), `RecoverRead`/`RecoverCommit`, `AckRead`/`AckCommit`.
  Each commit compares what the code compares again and otherwise changes nothing.
- `FenceAdmits` is `fence_rotation_registration` of `state-store.py`, asked by every put
  of the registry: the child's, `RegisterByHand`, `RetireByHand`, `ForgetByHand`.

Abstractions: one role of one project on one account, outside workgroups; a put is one
action, its merge being the subject of `StateStore`; handoff texts and their hashes are
the number of the checkpoint they were rendered from. `load` is chosen in `Init` and
bounds one behaviour: commands at a time, claims, checkpoints, edits by hand, and
whether conversations fill up.

`Succession.tla` is the promise behind it: an owner, an epoch, at most one rotation on
offer, and a handover only to the conversation that was briefed by the rotation on
offer. `Rotation` implements it under the mapping `Promise` (`offer` is the rotation of
a row that is ROTATING, `brief` what a conversation was opened with).

### ImageJob and ImageArtifacts

`ImageJob.tla` is the life of image jobs that share one conversation.

- `job[j]` is the `image_jobs` document: revision, status, cancel mark, attempts with their
  baseline, user message, turn and output. `active` and `overrun` are the grants and
  deadlines that run out. `Began`, `Observed`, `Exported`, `Cancelled` are the events of the
  reducer in `contract.js`; `Late`, `Provable`, `Blocked` its conditions.
- `BeginAllowed`, `IOAllowed`, `RecoveryAllowed`, `Reserved` are the coordinator's checks;
  `Proposed` is what the batch planner would run next.
- `proc[p]` is a command between its calls: `Start`, `Begin`, `Hand` (to an operator), `Fill`,
  `PageHeld`, `Final`, `Admit`, `Click`, `Fail`, `Unsent`; `Look`, `Attest`, `AttestNow`,
  `Record`; `Export`. A process may stop between two of them.
- `chat`, `composer` and `sent` are what no process sees reliably: the messages of the
  conversation, the prompt in the composer, every press of Send and whether it landed.

`ImageArtifacts.tla` extends it by the files: the exporter's record and bytes (`Fetch`,
`PutRecord`, `PutBytes`), their publication as the job's output, and the receiver's copy and
receipt. `putImmutable` is one step, since files appear by `link(2)`; `Lose` deletes a file.

Abstractions: prompts carry the digest of their attempt, so a message is known by its
attempt; bytes are their hash; one output per attempt, the only count the adapter runs;
other refusals (pause, cooldown, login) are the failure of a step.

### Watchdog

`Watchdog.tla` is a scan of the active tasks of one project, or a `recover` command.

- `task[t]` holds the fields the watchdog decides by. `run` is the process: what it has read
  (`base`), its copy (`next`), whether it has acted. `Save` merges as the store does and is
  refused when both sides changed a field.
- `Scan`, `Visit`, `Retell`, `Open`, `Look` lead to what the page shows; `Exhausted`,
  `Running`, `Complete`, `Stalled` are the branches of `watchOnce`; `Decide`, `Stop`, `Admit`,
  `Click`, `Clicked`, `Unconfirmed` those of `gradedRecover`, with the task looked at again
  before each click, and a continue message admitted once more behind its recorded intent
  (`Refused`: nothing was sent, and yet it counts as unconfirmed); `Failed` counts failed visits; `Lifecycle`, `Reserve`, `Ask`, `Asked` are
  the reconcile message.
- Around it `Page` changes the conversation, `Edit` the task, `Person` the Space, `Deliver`
  delivers queued notices, `Crash` stops the process between any two steps.
- `nudged` and `asked` are history: what was done, and what of it was never counted.

Abstractions: time (a cooldown or gap may have passed or not); texts of messages; one
watcher, since watchers hold the pacing lane of their account (`PacingLock`).

### Pages

`Pages.tla` is the pages of the Spaces of one account and project.

- `tabs` are the pages that were ever opened, by target; `homes` the attachment of each
  conversation, `pool` the overflow Spaces of the registry; `allocs` and `releases` the
  journals, one entry per intent and per target.
- `cmd` is the command that holds the lane. It attaches (`Locate`, `Visits`, `Attach`), or
  allocates (`Intend`, `Opens`, `RecordPage`, `HandOff`), and when the Space is full
  (`NoPage`, `NoRoom`) reclaims a page (`Reclaim`, `Guard`) or goes to an overflow Space
  (`Overflow`, `MapSpace`). A release is `Release`, `Reload`, `Check`, `Verify`,
  `CloseTarget`, `Closed`, `Refuse`, with the journal written before each irreversible step.
- `Allowed` is `page_resource_decision`, the coordinator's permission.
- Around it `Queue`, `Claims`, `Recovers`, `Results` are the coordinator and `Sets` is
  `task set` and `task clear`; `Turns`, `Sends` and `Takes` are the page and its people. A
  person may send in any idle page at any moment, also between the last look of a release and its
  close, and from the home of a project goes into a conversation the registry does not name
  (`Foreign`). `Stops` kills the command between any two steps.
- `cmd.late` is history: whether a turn began after the last sample of the page that is being
  closed, or a task was set after the last permission.

Abstractions: labels are reused and targets are not, as in the browser; the states a page is
checked for are busy, draft, home, blank, a conversation or a foreign one.

### MCDispatch and its configurations

| Run | Instance | What it shows |
|---|---|---|
| `dispatch_delivery` | 1 dispatch that opens a conversation, 2 workers, 2 claims, a retry limit of 2, 1 controller with 2 changes per scope | at most one send, honest statuses, fresh claim directories, retry budget, no child passed over a pause, refinement of `Delivery` |
| `dispatch_liveness` | a dispatch and a management notice that may move to the other account, 1 worker, 1 claim each | claims end, queued operations are tried |

Bounds. `MaxClaims` limits claims per operation, committed ones including those
given back; two are enough for an expired claim and a late finish of it next to a
retried claim, or for another worker's claim of an ordinal given back. `MaxEpoch` limits control
changes per scope: two allow a pause and the resume that hides it. Two workers
are enough for a stale and a current holder of one operation; the proofs below
remove these bounds for the safety properties. The model may stop when all claims
are used, so deadlock is not checked.

### MCStateStore and its configurations

| Run | Instance | What it shows |
|---|---|---|
| `store` | runtime with a heartbeat and a task that does not exist yet; 1 client, a stream of gets, racing initializations, transactions, 2 edits | nothing is replaced unseen; heartbeats move forward; a put that was already merged can be repeated; the file catches up as long as somebody gets the document |
| `store_unguarded` (violation) | runtime, 1 command without a transaction | finding: it undoes a put |

Bounds. `MaxClock` bounds the edits: two make the two sides of a race. One client, whose
puts outlive it and meet its own later ones, and the transactions are the actors of the
races of the run; `NoLostUpdate` and `HeartbeatForward` are proved for any number of
clients, and for the registry, whose puts also name what they read. One existing and one
absent record give all the shapes `differences` distinguishes.
The system may stop when the edits are used up: deadlock is not checked.

### MCPacingLock and its configurations

| Run | Instance | What it shows |
|---|---|---|
| `pacing` | a heavy and a light command, two intervals, a budget that defers, kills with the client, signals and failures at any step | no two clients but after a wrong removal or a dropped lock; no lock left behind; both intervals are kept; every command ends; dead commands' locks are cleared |
| `pacing_stale` (violation) | 3 commands, nothing fails | finding: a waiter removes a living command's lock |

Bounds. Two commands are a holder that dies, is signalled or ends, and one that waits for
it; three, a dead holder, a recoverer and one that takes the lock in between, are needed
for the finding, and `LockSafe` and `Spaced` are proved for any number. Each runs once. One or two units are enough for intervals to be unequal,
met exactly, missed and beyond the budget. All commands end, so deadlock is not
checked.

### MCOutbox and its configurations

| Run | Instance | What it shows |
|---|---|---|
| `outbox_notices` | 2 workers, 2 conversations, every kind of owner; one result, callback or broadcast with 2 commands and 2 claims, or two results with 3 commands | one message per result, to its owner or a successor; mirrors and cancels are truthful; COMPLETE means accepted |
| `outbox_refresh` (violation) | one event, broadcast twice, 1 worker | finding: a refresh fails for ever |

Bounds. `Budgets` gives each behaviour its notices, the number of commands and of
claims per notice. Notices of different kinds share no state except the workers, so
that each gets its own budget; only two results of one task meet, in `task` and in the
order of `stamp`, and for them the claims are left out, since the delivery of one
result does not read another. Two claims are a claim that expires or
is retried and the one after it; two commands are a report and its cancel, or an event
and its repetition. Two conversations are an owner and a successor. When the budget
is used up nothing is left to do: deadlock is not checked.

### MCRotation and its configurations

| Run | Instance | What it shows |
|---|---|---|
| `rotation_safety` | 2 rotations, 3 conversations, 2 tasks; 2 commands at a time with an edit by hand or with full conversations, 1 command with 2 edits or a second claim | one owner, one open rotation, a sound lineage; a quarantined rotation never comes back; refinement of `Succession` |
| `rotation_recover` (violation) | 2 rotations, 1 command | finding: a recovered successor that cannot acknowledge |

Bounds. Two rotations are the quarantined one and its replacement, or the two sides of
a race of prepares; three conversations are the owner and what the two rotations open,
so that a late conversation meets both. Two commands at a time are every race of a
read with another's commit; two checkpoints are one before and one after an event. A
second claim follows a child that waited or was refused. One task is delegated and one
is not. `Loads` pairs these, since a late edit, a race of commands and a second claim
disturb different steps. When the load is used up nothing is left to do: deadlock is
not checked.

### MCImage and MCBrowser

| Run | Instance | What it shows |
|---|---|---|
| `image` | 2 jobs that compete for a conversation; 1 job beside a person who writes; 1 job with an operator; 1 generated image with 2 contents, exporters and receivers; 2 processes, 3 commands | one generation per job, one job in a conversation, results bound to their own turn, cancel is final, every copy is the one original |
| `browser` | 4 loads of the watchdog (a page that moves, a person and a recover command, an external task, two results) and 6 of the pages (a finished or a running conversation holds the page, one or two overflow Spaces, prune, release by a manager, a stray page) | budgets and ended tasks are respected, one reconcile message per event, pages are closed once and idle, and never lost |

Bounds. In `image`, `MaxAttempts` is two (a failed attempt and its repetition), `MaxCalls`
three, so that the batch budget refuses the fourth of two jobs with two attempts; two
processes are one that stopped or races and one that goes on. The artifacts start from a
generated image too, since a job rarely reaches one within three commands.

In `browser` a load is a sentence about one situation: which tasks or pages there are, how
many commands run, and how many events of which kinds happen around them (crashes, edits,
results, persons, closed tabs). The two modules share no variable; each initial state is an
instance of one of them, so that one run checks both. A Space holds one page (`Budget`), so
that every second attachment must reclaim or overflow; four pages are never used up by two
commands. Both systems stop when the loads are used up: deadlock is not checked.

### Properties of Dispatch

- `AtMostOnce`: a message never enters the conversation twice.
- `OutcomesTrue` joins the next two:
- `ProvenUnsent`: a status from which the operation may be tried again, or that
  tells the caller nothing was sent, is honest, and no child of an older claim can
  still make it a lie.
- `SentIsDelivered`: SENT is never claimed without a message.
- `FreshDirectory`: a worker whose claim is current never meets a directory left
  by an earlier claim of the same ordinal (the code would report
  DELIVERY_UNKNOWN for a message nobody typed).
- `RetryBudget`: automatic retries end.
- `BusinessExclusive` (proved, without a run of its own): one business operation per
  account. It is stated for business operations only because the code rewrites the account of a claimed
  notice to its successor's account without looking at the claims there.
- `PauseFence`: an action property about the second admission. A claim stamped
  by the project's own control row is held to that row only; the code compares one
  scope and epoch, so a global pause and resume in between goes unseen.
- `KeepsPromise`: refinement of `Delivery`; it contains that an unknown outcome is
  never retried and that no late step rewrites a settled outcome.
- `EveryClaimEnds`, `QueuedIsTried`: liveness.

### Properties of StateStore

- `NoLostUpdate`: a value in the row is replaced only by a process that read it or
  wrote it. It holds for `put` in every interleaving with other puts, crashes and
  initializations, and fails for the three coordinator functions that read the
  runtime document outside a transaction (`store_unguarded`).
- `HeartbeatForward`: `projects/*/updatedAt` never moves back.
- `RetryHarmless`: a put that was merged is, when repeated, refused or merged into
  the same document; a lost answer cannot apply an edit twice.
- `ProjectionCatchesUp`: once writing stops and as long as gets of the document go on, the
  file becomes the row and stays it, although processes project in an order of their own and
  may die between their commit and their projection. The gets are a condition and not an
  assumption: coordinator commands that open the database with `initialize` get the
  registry first (coordinator.py:150-153), while nothing that is scheduled gets the runtime
  document (`main.js` peeks, `serve` opens with `initialize=False`). A runtime file that its
  last put left behind stays so until somebody runs an explicit get, as
  docs/architecture.md:348 says; TLC refutes the property without the condition.

### Properties of PacingLock

- `Exclusive` (violated): no two browser clients at once.
- `LockSafe`: two clients run at once only after `overtaken` (`Serialized`): a removal hit a
  directory that was no longer the judged command's, a trap dropped the lock of a command
  that goes on, or a SIGKILL left the client alive. So a crash between any two steps, a lock
  without a pid, a failed pid write and racing exits are all harmless. And a command that
  ends by itself leaves no lock behind (`Released`).
- `Spaced`: an action property: a client starts only when both intervals are over,
  counted from the end of the clients themselves. It is conditional on every end
  having been stamped: a command killed or failing between the two leaves no trace,
  and the next one starts at once.
- `EveryCommandEnds`, `Recovered`: liveness. A lock whose maker was killed before it
  wrote its pid is never cleared; every later command is deferred, which these
  properties allow and the operator must repair.

### Properties of Outbox

- `NoticesExact` joins `ToldOnce` and `NeverGuessed`, `PostsRecorded` joins
  `DeliveredIsPosted` and `CancelledUnsent`.
- `ToldOnce`: a result is told to one conversation at most, and once, although it is
  attached by whichever comes first of the report and any worker, and redirected by
  two different steps. (A claim that fails before sending may be made again: whether
  the message of one claim is sent twice is the question of `Dispatch`.)
- `NeverGuessed`: a message goes to its owner or a committed successor of it, never to
  a root guessed in the owner's absence (docs/architecture.md).
- `DeliveredIsPosted`: what a mirror calls DELIVERED is in the conversation that its notice
  is addressed to, whoever wrote the mirror: finish, reconcile, or a redirected row. (That the
  *target* of a delivered delivery has the message is not true of the code: see the
  observations below.)
- `CancelledUnsent`: a cancelled notice is never sent.
- `MigrationSettled`: when `migration-check` finds nothing of an account pending, every
  result that went to it is acknowledged, cancelled or proven unsent. The check reads
  mirrors for some of it and rows for the rest. It is conditional on `missed`: see the
  observations below.
- `CompleteIsAccepted`: a task is COMPLETE only with the accepted result it shows,
  unless two reports committed in another order than they took their stamps.
- `RouteResolves` (violated): a waiting notice with a successor leaves the outbox.

### Properties of Rotation

- `OneOwner` joins `ProtectedOwner` and `LateNeverOwns`, `Lineage` joins `OneOpen` and
  `LineageSound`.
- `ProtectedOwner`: after a quarantine nobody but the owner is an active holder of the
  role. It joins what the fence asks of every put to what the four commands write.
- `LateNeverOwns`: the conversation of a quarantined rotation never becomes owner,
  pending successor or active holder, whenever its child posts and registers it: also
  not through a second rotation, an edit by hand, or a recovery.
- `AuditHolds`: the operation of a quarantined rotation stays as the event recorded it,
  although its worker and child may be alive. If it did not, every later put of the
  registry would be refused.
- `OneOpen`: only the rotation in the logical row may still be delivered.
- `LineageSound`: successors were opened by the delivered handoff of the rotation that
  their predecessor called one epoch before; nobody has two predecessors, and the owner
  has no successor.
- `FreshHandoff`: an action property: a role leaves quarantine with a handoff from a
  checkpoint that the owner took after the event, also when a checkpoint comes between
  the read and the commit of the prepare.
- `HandoverKeepsTasks`: an action property: the acknowledgement takes along exactly the
  delegated tasks that are blocked on the old owner at that moment, each with a resume
  operation.
- `KeepsPromise`: refinement of `Succession`.
- `RecoveredMayAck` (violated): a recovered successor can acknowledge.

### Properties of ImageJob and ImageArtifacts

- `OneGeneration`: Send is pressed at most once for all attempts of a job, and whoever says
  that nothing was sent (an attempt that failed before Send, a cancelled job, the planner
  that proposes a new attempt) is right, although the press, its answer or the process may
  be lost.
- `OneInFlight`: a second job of the conversation presses only after the own answer and
  output of the first were recorded, also when that one failed, was cancelled or expired.
- `BoundToOwnTurn`: the message and answer a record names are the attempt's own.
- `CancelHolds`: an action property: nothing is begun or adopted after a cancel.
- `Provenance`: stored bytes, published outputs, received copies and receipts of a job are
  one recorded original, although files are lost and the source changes between reads.

### Properties of Watchdog and Pages

- `RecoveryBudget`: all nudges of a task that could be counted stay within the total budget.
- `EndedStays`: an action property: the watchdog never makes an ended task active.
- `ExternalUntouched`: an action property: a task that its adapter declared UNKNOWN keeps
  status and budget, and its page is not clicked (docs/architecture.md).
- `ReconcileOnce`: one reconcile message per event key.
- `ReleaseOnce`: a target is closed once at most, and no message goes into a page of which a
  release may still take effect.
- `IdleClose`: an action property: whatever begins before the last look at a page (a turn of
  a person, a task that is set or sent) keeps it open. What a close may meet is a turn that
  began after the last sample of the page, or at a termination, which takes no sample, and a
  task set after the last permission. The code keeps this window small and does not shut it:
  docs/architecture.md:142 "does not promise zero pre-close races", and 146 makes no claim of
  an empty page for a termination. Without these exceptions TLC closes a page under a turn
  and under a task that has just become active, so the instance reaches the window.
- `NoLostPage`: a living page is known to the registry or has an open allocation record.
- `OverflowMapped`: every page is in a Space the registry knows, and there are no more
  overflow Spaces than the policy allows.

### Fairness

`serve` polls every second in a loop that only a signal ends, and launchd
restarts it, so a worker that can step does (`WF` of `WorkerStep`, `Restart`), and
`recover`/`claim` keep looking for overdue claims (`WF` of `Recover`). A claim of a
due row may be interrupted again and again but not for ever (`SF` of `Claim`).
Time passes (`WF` of `Elapse`). Nothing is assumed of operator commands, of
children, or against crashes. `QueuedIsTried` is conditional on the others not
returning to the queue for ever: `claim` orders by rank and due time and a
continuous flow of more urgent work may starve the rest.

In `StateStore` a process that was started is not for ever killed in front of the same step
(`SF` of `ReadSeed`, `Insert`, `Reread` and `Project` of a get). That a get is started at all
is not assumed but a condition of `ProjectionCatchesUp`, for either document. Nothing is assumed of clients.

In `Outbox` `serve` calls `work_one` again and again (`WF` of `Work`) and is not killed
each time just before it refreshes the routes (`SF` of `Refresh`).

`ImageJob`, `Watchdog` and `Pages` assume no fairness and have no liveness property: a command
that fails is repeated by an operator or by a schedule outside this code.

In `PacingLock` the operating system runs every process and time passes (`WF` of the
steps of a command and of `Tick`), and a client ends because `ego-runner.py` stops it
at its time limit (`WF` of `ClientEnds`). Failures, signals and kills may or may not
come.

## Proofs

`DispatchProofs.tla` proves, for all constants that satisfy the named assumptions
of `Dispatch` (kinds and accounts are total, only business operations open
conversations, the retry limit is positive):

| Theorem | Statement |
|---|---|
| `TypeCorrect` | `Spec => []TypeOK` |
| `BusinessApart` | `Spec => []BusinessExclusive` |
| `NoDuplicate` | `Spec => []AtMostOnce` |
| `UnsentIsProven` | `Spec => []ProvenUnsent` |
| `SentIsTrue` | `Spec => []SentIsDelivered` |
| `OutcomesCorrect` | `Spec => []OutcomesTrue` |
| `DirectoriesFresh` | `Spec => []FreshDirectory` |
| `PromiseKept` | `Spec => KeepsPromise` |
| `RetriesEnd` | `Spec => []RetryBudget` |
| `PausesHold` | `Spec /\ []Apart => PauseFence` |

None of the properties is inductive: from an arbitrary state with `sent[o] = 0`, a
stray armed child would click on a queued operation. `SafeInv` adds what the code
relies on:

- `AttemptsCounted`, `CommittedCounted`: ordinals never exceed the claims made, and
  a claim that may be given back has an ordinal to give back;
- `ClaimHeld`: while a worker is between claim and finish its operation is in
  flight *under that worker's ordinal*, even if the claim has expired. This holds
  because only a settled finish leads back to the queue;
- `OneHolder`: hence two workers never hold one operation, although claims expire;
- `ChildrenCurrent`: directories exist for counted ordinals only, and a child that
  may still act belongs to the current ordinal of an operation in flight;
- `NotYetStarted`: before `Prepare` there is no directory, before `Spawn` no step;
- `PostedByCurrent`: a posted message was posted by the child of the current
  ordinal, which left no receipt that proves the contrary;
- `BeliefsTrue`, `DenialsTrue`: whoever is about to report a delivery, or its
  absence, is right.

`SafeInv` was model-checked as an invariant first. The proof has one step per
action (`ClaimSafe`, `ReturnSafe`, `WorkerStepSafe`, `ChildSafe`, `FinishSafe`,
`CommandSafe`), and lemmas on the effect of the shared operators (`ClaimEffect`,
`ChildEffect`, `MovesOnly`). `PromiseKept` maps every action to a step of
`Delivery` per operation (`EveryMove`) from the same invariant.

`RetryBudget` and `PauseFence` rest on two more invariants, which were model-checked as well:

- `BudgetInv`: every operation that may still be tried has budget left, its worker has the
  number of its failures right for as long as it is in flight, and an outcome that is about
  to be written as a failure to be tried again is affordable. `RowEffect` says which steps
  change failures and stamps at all.
- `FenceInv`: a mode that a worker or a manifest carries is `Honest`: as long as the epoch of
  its scope stands, that scope has not been paused again. A child is armed only after
  comparing epochs, so that nothing was paused since its mode was read.

`PausesHold` has a hypothesis of its own, `Apart`: no two control commands are between their
read and their write of one scope at once. It holds in `MCDispatch`, where one controller
issues the commands. Without it two commands write one epoch twice (coordinator.py:1676): a
claim stamped between the two would pass over the second, and `FenceInv` is false.

`StateStoreProofs.tla` proves, for any number of clients, readers, records, fields
and edits:

| Theorem | Statement |
|---|---|
| `StoreTypeCorrect` | `UnguardedSpec => []TypeOK` |
| `NoneLost` | `Spec => NoLostUpdate` |
| `HeartbeatsAdvance` | `Spec => HeartbeatForward` |
| `RetrySafe` | `UnguardedSpec => []RetryHarmless` |

`Spec` implies `UnguardedSpec` (`Guarded`), whose steps preserve the invariant; that
`NoneLost` and `HeartbeatsAdvance` are about `Spec` is necessary, as `store_unguarded` shows. The
argument: `Known` (what a client takes
for the stored document it has read or written) and `ApplyLeaf` (an accepted put
changes a field only from its client's base value or past an older heartbeat to its
client's value) give `NoneLost`; `Timed` (everybody's values lie in the past) and
`Grows` (what a client writes is younger than what it read) give
`HeartbeatsAdvance`. `Spawned` and `Initialized` tie the program counters of client,
process and row together. `RetrySafe` needs no more than types: `MergeTwice` shows of any
three documents that a merge that was accepted is accepted again and changes nothing then.

`PacingLockProofs.tla` proves, for any commands, intervals, kills and signals:

| Theorem | Statement |
|---|---|
| `LockTypeCorrect` | `Spec => []TypeOK` |
| `LockSafeCorrect` | `Spec => []LockSafe` |
| `SpacedCorrect` | `Spec => Spaced` |

Both are conditional on `overtaken` being false, which every one of the three events sets
that the findings and observations below describe; nothing is assumed of the constants but
their types. `LockInv` says that LOCK_HELD and the place in
the script agree (`PlacesAgree`), that who removes another's directory has judged it dead
(`Judged`), and that directory and pid file belong to the living holder (`Owned`, as
long as nobody was overtaken). `PaceInv` adds that the stamps are no older than the
clients' real ends unless their writer still holds the lock (`Stamped`), and that a
sleeper's rest covers both intervals (`Asleep`).

`ImageProofs.tla` proves, for any jobs, attempts, processes,
presses by operators, messages of other people, contents, grants and lost files:

| Theorem | Statement |
|---|---|
| `ProvenanceCorrect` | `ASpec => []Provenance` |
| `OneGenerationCorrect` | `ASpec => []OneGeneration` |
| `OneInFlightCorrect` | `ASpec => []OneInFlight` |
| `BoundToOwnTurnCorrect` | `ASpec => []BoundToOwnTurn` |
| `CancelHoldsCorrect` | `ASpec => CancelHolds` |

Assumed are that `None` is neither a content nor an attempt (`HashesAssumption`,
`NoneAssumption`) and that prepared jobs are jobs (`PreparedAssumption`). `ArtifactInv`
adds to `Provenance` what a command carries between its calls (`Carried`): the content of
the job's record, or for a receiver the one that was published. Files without the commands
in between are not inductive, since a late `PutBytes` would overwrite what was published.

`JobInv` was model-checked first. `OneGeneration` alone is not inductive: a stray command
at `Click` would press again. What keeps it from doing so is spread over the documents and
the commands:

- `JobSound`: all attempts of a job but the last are disproved, and a record names the
  message of its own attempt and the answer to it;
- `Knows`: what a command remembers still holds when it acts. The revision it read fixes
  the number of the attempt it may begin, its attempt is held by it alone, the operator
  included, and an observation on its way is in the conversation, which only grows;
- `Presses`, `SentOnce`: only an attempt nobody has disproved was pressed, and a message
  comes from a press;
- `OneReserved`: at most one job of the conversation has an unfinished attempt, from
  `Began` on, hence `OneInFlight`.

The proof has one lemma per step of a command, per event of the reducer and per act of
the outside world; `NextJobs` and `NextArtifacts` put them together.

`RotationProofs.tla` proves, for any rotations, conversations, commands in flight, tasks,
claims, checkpoints and edits by hand:

| Theorem | Statement |
|---|---|
| `LineageCorrect` | `Spec => []Lineage` |
| `OneOwnerCorrect` | `Spec => []OneOwner` |
| `AuditCorrect` | `Spec => []AuditHolds` |
| `FreshHandoffCorrect` | `Spec => FreshHandoff` |
| `HandoverCorrect` | `Spec => HandoverKeepsTasks` |
| `SuccessionKept` | `Spec => KeepsPromise` |

Assumed are that the first owner was opened by hand, that `None` and "hand" are neither
conversations nor rotations where that matters, and the types of the bounds. None of the
invariants is inductive: a command could commit a view that was never current, and a child
could post for an operation that failed before its send. `RotationInv`, model-checked first
on the instance of `MCRotation`, adds:

- `OpSound`: an operation that was neither delivered nor quarantined is the one on offer,
  and its epoch is the role's;
- `Elder`: whoever owns a role was opened by hand, or by a handoff that was delivered in an
  earlier epoch. So an accepted successor has never owned the role before, and the
  conversation of a quarantined rotation, which is never delivered, is nobody's elder;
- `ChildSound`: a child that may still post belongs to a rotation without a conversation,
  and one that posted knows its own conversation;
- `QuarantineSound`: a quarantined operation is DELIVERY_UNKNOWN without a witness, so that
  neither a late `Finish` nor a recovery changes it;
- `CallSound`: what a command remembers between its read and its commit, for each kind. A
  prepare's view of a quarantined role names a checkpoint younger than the event, which
  `FreshHandoff` rests on;
- `Linked`, `Chosen`: successors and resume operations come from delivered rotations, the
  latter from epochs before the role's, hence a handover's resume operations are new.

Only an acknowledgement changes the successors (`OtherSteps`, `AckEffect`), which gives
`HandoverCorrect`; `SuccessionStep` maps every action to a step of `Succession` or a
stutter.

`WatchdogProofs.tla` proves, for any tasks, scans, edits by other programs, failed saves and
answers of a page:

| Theorem | Statement |
|---|---|
| `BudgetKept` | `Spec => []RecoveryBudget` |
| `AskedOnce` | `Spec => []ReconcileOnce` |
| `EndedKept` | `Spec => EndedStays` |
| `ExternalKept` | `Spec => ExternalUntouched` |

Assumed are that `None` is neither a task nor a reservation (`NothingAssumption`) and that
the limit is a number (`TotalAssumption`). The watchdog reads a task, looks at its page for a
long time and then saves, while others edit the task. `WatchInv`, checked on the instance of `browser` first,
says what of the copy still holds then:

- `Budgeted`, `Copied`: what was done to a conversation beyond the limit was done by a visit
  that has not been saved, and the copies of a scan count all the rest; a copy can bring a
  cleared task back, so the statement is about the copies too;
- `Counts`, `Saves`: an action is counted in the draft before it is done; `Near` is what may
  have happened to the original of the draft meanwhile, and each kind of draft says how it
  may differ from its base;
- `Reserved`: while a message may have been sent, its reservation is booked; a reservation is
  taken back only when nothing was asked beyond the last recorded version.

`Merges` is the effect of an accepted save on a task, `TaskSteps` that of any step;
`EndedKept` and `ExternalKept` follow from these (`OnlyAdmitted`: only an admitted visit
acts on a page).

`PagesProofs.tla` proves, for any conversations, pages, commands, stops between two steps, and
people who open, use, send in and close pages:

| Theorem | Statement |
|---|---|
| `PageReleasedOnce` | `PagesSpec => []ReleaseOnce` |
| `PageNeverLost` | `PagesSpec => []NoLostPage` |
| `PagesMapped` | `PagesSpec => []OverflowMapped` |
| `PagesClosedIdle` | `PagesSpec => IdleClose` |

Assumed are that names of conversations, Spaces and commands differ from the marks for
"none", "home", "blank" and "foreign" (`NameAssumption`), that the number of pages is bounded
(`BoundAssumption`), and that in the initial registries conversations have pages in mapped Spaces, as have all tasks
that are not over (`LoadAssumption`). `PagesInv`, checked on
the instance of `browser` first, has two parts. `World` holds whichever command runs: `Fates` (a close follows
an intent that is never taken back), `Journalled` (every opened page has the journal entry of
its own allocation, and a live page is known to the registry or its allocation is not
settled) and
`SpacesMapped`. `Holder` says what the running command knows: which commands come to which
steps (`Kinds`), the page it has opened and not handed off (`Uses`), and that the page it is about
to close was not closed before and that a turn in it, or an open task, came late (`Closes`). A command can stop at every step, so
`World` must hold without the command (`QuitSafe`). A new page needs a free label: `Least` and
`LabelFree` are the pigeonhole argument, by the set form of the well-foundedness of the
natural numbers, since the library's induction theorems take operators.

`OutboxProofs.tla` proves, for any conversations, results, callbacks, events, workers,
commands in flight, expired claims, deaths, retirements and successions:

| Theorem | Statement |
|---|---|
| `OutboxSafe` | `Spec => []OutboxInv` |
| `NoticesHold` | `Spec => []NoticesExact` |
| `PostsHold` | `Spec => []PostsRecorded` |
| `MigrationHolds` | `Spec => []MigrationSettled` |
| `CompleteHolds` | `Spec => []CompleteIsAccepted` |

Assumed are that there are finitely many conversations (otherwise a chain of successors need
not have an end), that the marks for no owner and a local owner are not conversations and the
recorded owners are (`RefAssumption`), and that results, callbacks and events have different
names (`NoticeAssumption`), as their request keys have in the code. `OutboxInv` was
checked as an invariant on two instances first (three conversations with one worker, two
with two workers). None of the four properties is inductive: a worker with
a stale address would post to a conversation that its notice has left, and a second worker on
the same notice would tell it twice. The invariant adds:

- `Addressed`: every notice is addressed to somebody in the line of successors of its owner,
  as is the heir that a worker has looked up and not yet written;
- `Called`: what a command between its reads and its transaction knows of the owner is
  in that line still;
- `Held`: a worker between claim and finish holds the current attempt of its notice, alone and
  with its current address, even when its claim has expired, because a claim is made of
  queued notices only and nobody but its worker brings a notice in flight back to the queue;
- `Posts`: a posted message went where its notice points now, and the notice is never claimed
  again. A notice with a posted message is therefore never redirected;
- `Named`, `Mirrored`: results, callbacks, deliveries and rows name each other, and the
  mirrors that `migration-check` reads are true as long as no late cancel rewrote them;
- `Timed`: stamps tell reports and commands apart;
- `Committed`: only retired conversations have successors.

The line of successors is a recursive function. `Least` (every set of numbers has
a least member, from the well-foundedness of `<`) replaces induction: a chain is a walk
(`ChainIs`), it closes within as many hops as there are conversations by the pigeonhole
principle (`Closed`), whatever contains its start and is closed under hops contains it
(`Contains`), and a successor that is committed for a conversation without one only makes
lines longer (`Extended`), so that what was addressed well before a succession still is
afterwards. Steps are proved in two shapes: those that change the status of one notice and its
mirrors (`StatusSafe`, from `RowStep`, `ResultStep`, `DeliveryStep`), and those that create or
readdress notices (`TablesSafe`, from `RowsGrow`, `ResultsGrow`, `DeliveriesMove`,
`WorkersFree`).

Only model-checked: `ProjectionCatchesUp` of `StateStore`, the refusals that the violation runs
show, and every liveness property, since fairness and ENABLED are outside the prover's reach.
Induction over data is as well, where it needs the induction theorems of the
library; where a proof needed it of a number (labels in `Pages`, hops in `Outbox`), the least
counterexample served.

## Findings

- `store_unguarded`: `mark_capacity_wait`, `clear_capacity_wait` and
  `enqueue_stop_requests` read the runtime document in autocommit and write all of
  it back. A `put` that commits in between is undone, against the comment of
  `merge_runtime_volatile` on independent writers.
- `pacing_stale`: a waiter removes a lock that changed hands since it read the pid,
  and two browser clients of one account run at once, against the pacing test.
- `outbox_refresh`: a notice that waits for its retired owner cannot be moved to the
  committed successor when the same event was broadcast to that successor too: the
  update meets the primary key of `management_deliveries`, and since every `work_one`
  begins with it, no operation of any kind is claimed any more.
- `rotation_recover`: `rotation_recover` registers the successor under the role with
  `-pending` appended. After a quarantine of the role, `rotation_ack` asks for the role
  itself and the fence refuses to change it, so the recovered rotation can neither be
  acknowledged nor, being SENT, be quarantined: the role stays ROTATING.

More observations have no run of their own. In `Outbox`, a `cancel` that read its row
before a claim and writes after it leaves the sent result with the mirror CANCELLED,
and `migration-check` does not miss its acknowledgement (`missed`); an expired claim
leaves the mirrors as they were; an acknowledgement of a broadcast that precedes the
worker's `finish` is overwritten with DELIVERED; an event broadcast again after its
notice moved to a successor reaches that successor twice; with three conversations it may
also leave a delivery DELIVERED whose target got nothing: the redirect of one of the two
notices rewrites the delivery of the other, because the updates select by event and target
(coordinator.py:1180, 1223) and `reconcile` by operation (coordinator.py:3545); of two reports that commit in
the opposite order of their stamps, the task shows the one that can no longer be
acknowledged. In `PacingLock`, with
`Kills = "shell"`, the client outlives its killed shell (`ego-runner.py` starts it in a
session of its own) and the next command clears the lock beside it; with
`Signals = TRUE` the TERM trap, which `runtime.js` triggers on a timeout, drops the lock
and the script goes on to start its client. Both violate `Exclusive` within two
commands. In `StateStore`, `setdefault` in `apply` re-creates a record that another
process removed, for a client that only adds a field to it, without a conflict.
In `Rotation`, a rotation whose operation failed before its send, or was cancelled, leaves
the row ROTATING, and a new `rotation-prepare` answers ROTATION_ALREADY_PENDING: the
failed operation can be retried, the cancelled one cannot, and no command brings the
role back. A child that registered its conversation and whose receipt
was then lost without a witness leaves a pending chat in the role; after the quarantine
of that rotation the child of the next one cannot register beside it, until somebody
registers that chat again with `--status retired`.

In `ImageJob`, an observation of an exported job is refused so that its validation is never
downgraded (contract.js:343), but not one that comes after the grant or the time limit has
run out: it makes the job BLOCKED (the adapter's own observation returns before that,
chatgpt-ego.js:366, an operator's does not). Further, a failed or refused job keeps its conversation reserved until its result
is observed, and nothing else ends the reservation.

In `Watchdog`:
- "notify once per quiet episode" (docs/architecture.md:180): the callback's key is made of task
  and text (coordinator.py:951), and the text of a stall is constant. From the second episode
  on the operation of the first is answered again: nothing is queued, though the watchdog
  records the notice as sent.
- A stall notice that was only queued leaves `watchdogPendingNotification` set, so the task's
  page counts as needed until the notice is delivered.
- The branches for a running, an exhausted and a user-controlled conversation fall back to the
  scan's copy of a task that was cleared meanwhile, and save it again; the exhausted branch
  does not look whether the task is still active, so that COMPLETE may become BLOCKED.
- The pause of a workgroup (`watchdogPausedForUserControl` under `workgroups`) is set by the
  reconcile step, and `clearUserControlPause` clears only the project's.
- A pause that is set or lifted on a task that has a result raises its `updatedAt`: the same
  result becomes a new reconcile event.
- A notice that fails for another reason than a cooldown leaves a BLOCKED task neither
  notified nor pending, so that no later scan tells anybody.

In `Pages`:
- A release whose outcome stayed UNKNOWN fences its target for ever; a later termination ends
  the page but not the fence, and the conversation that names the target stays closed to
  commands until `reattach` moves it.
- A label is used again by the browser. The record of a conversation whose page is gone may
  name a label that now belongs to another conversation's page, whose release is then refused
  (PHYSICAL_TARGET_REFERENCED).
- A direct allocation that stayed UNKNOWN blocks every further direct allocation of its Space.
- A conversation to which no task was ever linked is never reclaimed.
- The reservation of a conversation by an image job is checked by the browser program only,
  before the release; the coordinator's permission does not look at it.

Stop requests are keyed by task and session for ever (coordinator.py:1702): a second stop of
the same session answers with the first.

## Not modelled

Left out because the state or the answer lies elsewhere: model and effort picker and page
probes (what the DOM of ChatGPT Web shows), GitHub synchronisation, native Codex delivery
beyond its transport of an operation, web runtime stream, wrappers and installers. Left out
because nothing changes: local queries, topology, health, release identity.

Left out of modelled parts:
- Submission of operations: `submit` with its idempotence key and its many admission rules.
  `Dispatch` and `Pages` begin with rows that were accepted.
- Control: workgroup scope, and two commands that set a mode at once (coordinator.py:1676).
- Pages: `controlPage`, `reattach`, `observe`, the consolidation of Spaces, the collection of
  empty agent Spaces, the discarding of drafts, the journal of direct requests
  (`delivery-attempt.mjs:98`), image jobs that hold a page, an explicit command that goes on
  in another canonical Space when a person controls the main one (space-catalog.js:28-35; here
  it fails), and a person who navigates a page to another address.
- Watchdog: workgroups as scopes of the reconcile message (one project is one scope), two
  accounts whose watchers overlap, `listEvents` (it throws at a torn last line).
- Images: uploads and the catalogue of models; more than one output per attempt.
- Process supervision and account selection, which read what the operating system and the
  browser report and keep no state of their own between calls.

What a next step would take: a module for submission; the composition
of `Rotation` with the successors that `Outbox` follows.

## Running

    tlc -config MCDispatch.cfg MCDispatch
    tlc -config MCStateStore.cfg MCStateStore
    tlc -config MCPacingLock.cfg MCPacingLock
    tlc -config MCOutbox.cfg MCOutbox
    tlc -config MCRotation.cfg MCRotation
    tlc -config MCImage.cfg MCImage
    tlc -config MCBrowser.cfg MCBrowser
    tlapm DispatchProofs.tla        (and the other modules named *Proofs.tla)

The other configurations belong to the modules they begin with: `MCDispatchLive.cfg` checks
liveness; `MCStateStoreUnguarded.cfg`, `MCPacingLockStale.cfg`, `MCOutboxPoison.cfg` and
`MCRotationRecovered.cfg` end with the counterexamples of *Findings*.
