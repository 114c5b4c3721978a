# TLA+ verification of AI-Exchange

AI-Exchange reads an Exchange mailbox, turns every change event into a row of a
durable inbox, has consumers process each new e-mail exactly once (classify,
draft, notify through Feishu), and sends a reply only after a person approved
that very text. What can go wrong is therefore mostly concurrency, crashes and
ambiguous external calls. This directory models that core and the parts around
it in TLA+, checks them with TLC on small instances, and proves the safety properties
and the refinement of the authority's ledger with TLAPS for every value of the constants.
Paths below are relative to `src/`.

## Inventory

| Component | State | Operations | Hard part | Correct when |
|---|---|---|---|---|
| Email event algebra (`src/ingestion/email_events.py`) | none | `decide_email_event`, application manifest | events in any order, twice, late | every decision is a manifest row; no CREATE is lost; a settled e-mail stays settled |
| Durable Inbox (`src/ingestion/repository.py`, SQL baseline) | `event_inbox`, `emails`, receipts, intake decisions | claim, renew, apply, begin effect, finish, fail, recover, requeue, release | leases that expire under a live consumer, two tables in step | one attempt per e-mail ever acts; row and e-mail agree; every row is settled |
| Worker, heartbeats (`src/ingestion/worker.py`, `processing.py`) | the claimed lease and the elected attempt in memory | `run_once`, heartbeat loop, failure classification | lost answers, cancellation, death | never acts on authority it lost, nor twice |
| Processing adapter (`src/ingestion/email_pipeline.py`) | none of its own | detail read, intake guard, graph run, card | effects that may or may not have happened | every effect behind a durable marker |
| Ingestion runtime (`src/ingestion/runtime.py`, `recovery.py`) | tasks, web-instance lease | start, heartbeat, recovery loop, stop | a stale process beside its successor | fail-stop; nothing is leaked |
| Runtime authority (`src/ingestion/runtime_authority.py`, SQL functions) | authority row, web instances, receipts | initialize, pause, resume, register, heartbeat, drain | epochs, replayed commands | only the current epoch may write |
| Pipeline ownership (`src/ingestion/ownership.py`) | generations of an account | bootstrap, quiesce, hand over, retire | old reads, Inbox transactions beside the retirement | one generation takes in mail; nothing unresolved under a retired one |
| Polling ingress (`src/ingestion/polling.py`) | cursor, page | activation boundary, `commit_page` | crash between page and cursor, redelivery | each item becomes one row; the cursor never passes an uncommitted item |
| Hand-off and approval (`src/utils/db_async.py`, `src/utils/lark_app.py`) | hand-off run, payload revisions, envelopes, `emails_log` | freeze, edit, approve, reject, save draft, recover | a click races an edit, two clicks, a crash in between | only an approved current revision is sent |
| Sender (`src/nodes/sender.py`) | claim of the execution | claim, send, record | ambiguous send | at most one send; ambiguity never resent |
| Daily digest (`src/daily_digest.py`) | digest slot rows | claim slot, send, confirm | restarts around the slot | a slot is delivered at most once |
| Feishu delivery, PDF replies, file cleanup (`src/email_feishu_delivery.py`, `src/utils/lark_*.py`) | `pdf_token`, `attachment_tokens` in the checkpoint | upload, stage, send, reply, delete | a lost answer at every call, clicks beside the worker | no file is forgotten silently, the PDF on screen is kept |
| Checkpoint cleanup, maintenance fence (`src/maintenance/`, `src/db/`) | plan, backup, artifacts, advisory locks | plan, back up, apply, resume | crash in the middle; writers beside a cleanup | nothing is deleted without a backup or under a writer |
| Content store (`src/storage/`, `_ensure_durable_content_ref`) | encrypted files, `emails_log.content_ref` | write, fsync, rename, claim, load | crash or power loss between any two of them | a reference in the database can be read back |
| Workflow (`src/graph/`, `src/nodes/`) | graph state, draft row | nodes, edges, rewrite loop | interrupt and resume, failing model calls | what is put up for approval passed the review of that run |
| Routing (`src/router/`, `src/handoff/history.py`) | compiled rules, the decision row | compile, start, match, consensus, fallback, persist | unknown conditions, expiring rules, overlapping attempts | what cannot be evaluated never decides; one decision per mail |
| Circuit breaker, rate limiter, retries (`src/utils/`) | failure window, last call | call, retry, report | an outage and its end | calls are spaced; an open breaker keeps the provider free |

`PROJECT.json` lists every component, the ones left out too, and the hazards
the properties are aimed at, each at its line.

The parts meet in the database. The polling ingress commits rows under the
account's authority epoch; consumers of the one registered web process lease
them; the adapter runs the graph, which freezes a payload and shows a card; the
e-mail's aggregate ends as `waiting_approval`; a Feishu callback then drives the
hand-off run, and the sender claims it. A recovery loop and start-up recovery
repair what a crash left. Around this core the daily digest reads the same
tables on a schedule of its own, an operator pauses and resumes the account, and
a cleanup command deletes the checkpoints of finished mail while the service is
held off by a lock.

## Modules

### `EmailEvents`

The pure algebra of `email_events.py`: `decide_email_event`, split by event kind
as the code splits it, and the manifest against which
`EmailEventApplication.__post_init__` validates an application. `"absent"` stands
for the missing row.

### `DurableInbox`

State:

| Variable | Code |
|---|---|
| `inbox[r]` | an `event_inbox` row: status, `execution_epoch`, `attempts`, the lease (owner session, `until`, whether the clock has passed it), `processing_started_at`, `processing_effect_started_at`, authority epoch |
| `email[e]` | an `emails` row: status, version, processing link and its epoch, `create_seen`, `processing_started`, source deleted, effect marker, authority epoch |
| `worker[w]` | what one consumer task remembers: its place in `run_once`, the lease token it was given, the version it elected, its result |
| `runtime`, `authority` | the live web-instance row and the account's authority row |
| `elected`, `quarantined` | processing-attempt receipts and quarantine decisions |
| `authorized`, `performed` | history: attempts that were granted, and that made, an external effect |

Every repository method is one transaction under the account's advisory lock,
and one action. What a consumer does between transactions, external calls,
heartbeats, cancellation, death, is an action of its own. So
`Claim` is `claim_due`; `ApplyProcess`, `ApplySettle`, `ApplyReview` and
`ApplyRejected` are the outcomes of `apply_email_event`; `AuthorizeDetail` and
`BeginEffect` are `begin_processing_effect`, `PerformEffect` the call after it;
`Finish` and `FinishFailure` are `finish_email_processing` and
`finish_email_failure`; `RecoverLinked` and `RecoverUnlinked` the two halves of
lease recovery; `Requeue` and `ReleaseQuarantine` the operator commands.

Abstractions:

- the lease's `until` counts the renewals since the claim, enough for the exact
  comparison of tokens (`_leases_equal`); `live` says whether the clock has
  passed it, and becomes false at any moment;
- folder and read-flag projections, hashes and audit rows are left out;
- receipts replayed with the same digest are never reached by the worker and
  are left out;
- an archive event that the intake guard suppresses or quarantines is refused by
  the worker's policy check and ends as a dead letter, as in the code;
- the web instance id is a constant of the deployment, so one runtime is
  registered at a time; the session tells incarnations apart, and an old
  process goes on until it notices;
- one account, and one pipeline generation, which stays `current_ingress`.

### `Handoff`

One hand-off run, from the frozen payload to the message or draft that leaves
the system. Runs share no rows, so one is enough.

| Variable | Code |
|---|---|
| `run` | the `handoff_runs` row: state, version, `payload_revision`, whether `execution_claim_id` is set |
| `log` | `emails_log.status` |
| `payload`, `envelopes` | `execution_payload_revisions` in order, `approved_execution_envelopes` |
| `graph`, `draft` | the projections: the checkpoint (revision, recipients, `approval_status`, whether the sender node has completed) and the stored draft |
| `cards` | the revisions whose card still offers its buttons to somebody |
| `delivery` | the processing attempt that prepares the run and shows the first card |
| `task[t]` | a card callback and the graph it resumes: its place, the binding it carries, the version it read |
| `proc`, `found` | processes; what the recovery statement of one found in its snapshot |
| `sends`, `drafts` | history: what was handed to Exchange |

Every database transaction, checkpoint write and external call is an action.
A callback is therefore several: `ClickApprove`, `ApproveRead` (the lock and
`get_handoff_run`), `ApproveCommit` (`approve_payload_revision`),
`ProjectApproval` (the checkpoint), `Resume`, and then the sender node from
`SenderRead` to `SenderRecord`, with `fail_before_send` (`QuarantineRun`,
`QuarantineLog`) and `fail_after_send` (`FailRun`, `MarkUnknown`). Each of them
may fail, lose its answer after it committed, be cancelled or die with its
process, wherever the code lets the exception through; the disjuncts without a
new value of `run` and `log` are these failures.

Abstractions:

- a payload is a draft and a recipient; digests are left out because revisions
  and envelopes are immutable and a digest names its revision;
- a callback carries the binding of a card, and only of one that was shown;
  which cards exist is all the model keeps of Feishu;
- the per-e-mail action lock and the graph resource lock are per process, so
  they are derived from the places of the process's tasks (`LockFree`,
  `Resume`) and never exclude a task of another process;
- the processed card appears with the approval's checkpoint write, or not at all;
- `recover_durable_handoff_states` is one statement, but PostgreSQL evaluates
  its CTE on a snapshot and re-reads the rows it has to wait for, so it is
  `RecoverScan` followed by `RecoverRuns`;
- `EditRead` takes the status, the checkpoint and the stored draft in one step, where
  the code awaits three reads (`lark_app.py:2224` to `2362`). An edit in another process
  may fall between them, so that the next revision mixes two projections, as in the
  first of the Known limits. No property looks at what an edit started from: `EditVersion`
  and the commit compare the run's version and revision, and the card shows what was committed;
- statuses before the first card are one, `"processing"`;
- left out: legacy cards without a binding, read notifications and their
  `mark_read` card, `advance_handoff_execution` (a separate record of delivery
  effects), PDF and attachment resources.

### `AuthorityLedger` and `RuntimeAuthority`

`AuthorityLedger` is what the authority promises its operators: one ledger of
commands, `initialize` and then alternating `pause` and `resume`, each key used
once, and answers that name the position at which a command really stands.
`RuntimeAuthority` is `runtime_authority.py` and the SQL functions behind it: the
authority row, the manifest, the receipts, the web-instance rows, the command
invocations (`cli`) and the process starts (`session`). A command reads the
authority (`PrepareInitialize`, `ReadAuthority`), then submits; the answer of a
submitted command may be lost. `LedgerImplemented` is the refinement: the ledger
is computed from the receipts, so every step of the detailed module is a command
taking effect once, a replay, or nothing the operator can see. `BigintMax` is the
code's `POSTGRES_BIGINT_MAX`, of which the code refuses the last value.

### `PipelineOwnership`

`ownership.py`, and the Inbox as it depends on it. `ownership` is the history of
generations, `op` the transaction that holds the account's advisory lock. Operators
read without the lock (`get`, `next_generation`), so a command may name any
generation and token, and what it finds under the lock decides; one lock holder at
a time stands for any number of operators. The hand-over is three steps of a
transaction its caller owns (`op.rows` is what it would commit). Inbox transactions
take the lock shared, so `Unlocked` guards them too; `Requeue` does not take it,
and runs between the two reads of `retire`. E-mails use
`EmailEvents`. Leases, budgets and the link's execution epoch are
`DurableInbox`'s: here a lease is an attempt number and the budget a choice.
`Evidence` is the retirement guard, which the shipped default always denies.

### `PollingIngress`

`polling.py`, the Gateway client of `exchange_api.py` and
`greenfield_commit_sync_page`. The mailbox is a sequence of changes and a
`sync_state` a position in it; a page is a set of changes, because the envelopes
are sorted by their key before they are stored. A process loads the checkpoint,
asks, and commits rows and cursor in one fenced transaction whose answer may be
lost; the activation boundary discards what was there before. Abstractions: one
folder; a dedupe key is the cursor of the page and the change; the Gateway
answers with the whole delta, or repeats a state it has already given.

### `IngestionRuntime`

`server.py`'s lifespan around `runtime.py`: the main task goes through the stages
of the start (fence, context, Feishu, pool, authority, registration, processing,
digest) and of the shutdown, any of which may fail or time out; beside it run the
heartbeat, a polling page, Feishu callbacks, the fence monitor, the consumers and
the recovery loop. Heartbeat and pages renew one lease under the session lock, and
a renewal may be applied without its answer.

### `CheckpointCleanup`

The cleanup command (`src/maintenance/`), the maintenance fence (`src/db/`) and
the checkpoint writes of the service. The clock is modelled because the protocol
relies on it: a plan has a time to live, threads a retention age, the exclusive
lock a settling time. `CleanupAssumption` has `Settle > Detect`: the code settles
for 20 s, the fence monitor notices a lost connection after 5 s and a probe of
10 s. A backup is a snapshot at its completion, and signatures are genuine.

### `DailyDigest`

`daily_digest.py`: a scheduler's `run_due`, the execution and part rows, the
requests on their way to Feishu, the chat, and the inbox rows a snapshot reads.
`DigestAssumption` has `Flight < Delay`: Feishu settles a request within
the reconciliation delay of 900 s.

### `DriveResources`

The files of one e-mail in Feishu Drive: the worker that delivers the card
(`email_feishu_delivery.py`, `exchange_service.py`), the clicks that ask for a PDF
(`lark_pdf_flow.py`) and those that clean up (`lark_app.py`, `lark_file_ops.py`).
Every upload, send, deletion, state read and state write is an action and may
fail, also after it was applied. `pdf_token` and `attachment_tokens` in the graph
state are the only book of the files; the checkpointer itself does not lie.
One delivery and one attachment per e-mail; deletions come in any order.

### `Tier1Routing`

`router/`: the three-valued condition language, the compiler with its admission
checks and fixtures, start-up, the selection by fingerprint, the historical consensus
(`handoff/history.py`), the model fallback, and `persist_route_decision` between
attempts that overlap. Rules are records shaped like the YAML manifests; "eq" and
"contains" are the one-element forms of the set operators. Labels of an old and of
a new schema count as different actions in the consensus (`history.py:49`), which
is intended. A forward is fingerprinted with recipients, copies, the freedom to edit them and attachments.

Validation has three outcomes. What a schema refuses is no rule, or no label; what
raises later ends the attempt without a decision (`Fail`), and the inbox leases the
mail again: `RouterRaises` (a profile on a route that writes nothing passes the
compiler and is refused by `RouteDecision` at every match, `decision.py:86`; more
than 32 rules to name, or 16 candidates) and `ConsensusRaises` (a label whose profile
left the registry, outside the `try` of `history.py:43`). The same unknown profile in a rule
file is a `KeyError` the compiler does not catch, whatever the rule's status
(`ParseErrors`). The 32 and the 16 are above the instance's rule counts, so only the proofs
cover those two.

A rule's conditions are a tree: `Conditions` is the set of its nodes with
all their parts, and the matcher, the normal form and the leaves are recursive
functions on it. `RoutingAssumption` says what the schema and the compiler guarantee
of the data: folding is idempotent, `Conditions` contains the parts of its nodes and has
no cycle, identifiers are ordered, and no decision is `None`. `/test_rule` only reads and prints
(`src/commands/handlers.py:285`) and is left out.

### `LlmGate` and `Workflow`

`LlmGate` is what a series of model calls goes through: the breaker with its
failure window, the limiter that sleeps outside its bookkeeping, and the retries.
`Workflow` is the graph around it: categorizer, retriever, drafter, reviewer,
manual review, and the driver (`_run_ai_pipeline`) that resumes interrupts, rewrites
and reads the draft back from the row. There is one caller at a time
(`runtime.py:953`). The retriever's image analysis uses the limiter and not the
breaker; Tier 3 and thread summaries use neither. A text is a number, a verdict
a choice. `graph_rewrite_limit` and `empty_draft` cannot be reached and are left
out, as are `report_success` and `should_attempt_recovery`, which nothing calls.

### `ContentStore`

`encrypted_files.py` and `_ensure_durable_content_ref`. A name is safe once its
directory was fsynced, bytes once their file was, and the kernel may write anything
back earlier. The root comes with the image (`Dockerfile:53`); the account's directory
is made by the first write. `put_email` runs in a thread that outlives a cancelled
attempt.

### Proof modules

The theorems are in modules of their own, each extending what it is about:
`DurableInboxProofs` (with `EmailEvents`), `HandoffProofs` (with what `MCHandoff` adds),
`PipelineOwnershipProofs`, `RuntimeAuthorityProofs` (with the refinement and the
composition of `MCRuntimeAuthority`), `PollingIngressProofs`, `CheckpointCleanupProofs`,
`ServingProofs` (`IngestionRuntime`, `LlmGate`, `Workflow`, composed by `MCServing`) and
`MailPartsProofs` (`ContentStore`, `DriveResources`, `DailyDigest`, `Tier1Routing`, composed by
`MCMailParts`). See Proofs.

### MC modules

`MCDurableInbox`, `MCHandoff`, `MCRuntimeAuthority`, `MCPollingIngress`,
`MCCheckpointCleanup` and `MCTier1Routing` give constants their values. Two of them
add a variable chosen once per behaviour, so that one run covers two
situations without their product: `overlap` in `MCHandoff` (two processes with a
callback each, or one process with two) and `focus` in `MCRuntimeAuthority` (racing
operators, or processes under one operator).

`MCRuntimeAuthority` (with `PipelineOwnership`), `MCServing`
(`IngestionRuntime`, `Workflow`) and `MCMailParts` (`Tier1Routing`,
`ContentStore`, `DriveResources`, `DailyDigest`) instantiate components that share
no modelled state. A behaviour picks its `part` (or `focus`) and only that one moves,
so the state spaces add up; fairness is asked of the chosen part only. They repeat the parts'
properties under the parts' names, and assert the parts' assumptions on constants.

## Runs

| Run | Instance | Question |
|---|---|---|
| `inbox` | one CREATE and one DELETE of an e-mail, two processes, a retry, a requeue, pause and resume | may two attempts act, may a cancelled e-mail be acted on, do row and e-mail stay in step? checks the inductive invariant too |
| `inbox_order` | two CREATEs under different policies and an UPDATE, across authority epochs | is a CREATE dropped silently or a settled e-mail reopened by the order of events? |
| `inbox_liveness` | one process with crashes, a renewal, fair | does every lease end, and every row settle within its retry budget? |
| `handoff` | two processes with a callback each, or one with two; two drafts, two revisions | does the e-mail leave once at most, as approved and as shown, does `emails_log` tell the truth, and does recovery leave run and e-mail in step? checks the inductive invariant too |
| `handoff_stranded` | one callback at a time | can an approved run always be resumed? No, see Findings |
| `authority` | two operators, two keys, two names; or two starts of an instance under one operator; or two generations, two consumers, a CREATE and an UPDATE or DELETE with two leases each | do receipts implement the ledger, is a pause a barrier, does a replaced process stay silent? is there a second ingress, an e-mail worked on by another generation's event, or work left under a retired one? |
| `polling` | two pollers, three kinds of change, two of which happen, three epochs, fair | is a change skipped or stored twice, and does the cursor catch up? |
| `polling_backlog` | the same with a response limit of one | does the cursor catch up after a backlog? No |
| `cleanup` | two command runs, one plan, one thread that is written once more | is anything erased that is not backed up, finished and quiet, or erased twice? |
| `serving` | the whole life cycle; four kinds of mail, two failures open the breaker | is everything released in order, does start, shutdown and pipeline end, is what is approved reviewed, are calls spaced? |
| `workflow_outage` | a breaker that opened before the provider recovers | does it close again? No |
| `mail_parts` | nine rule sets, five mails, two attempts, an expiry; two stored mails, two power losses; two PDF clicks and a cleanup, three uploads; two windows of two parts | does what is unknown decide, is a decision frozen, can references be read back, is a file forgotten, is a part posted twice? |

What a run checks of a component is a conjunction of named parts, each defined and
explained in the component's module:

| Property | Parts beside the type invariant |
|---|---|
| `Inductive` (`inbox`) | `Tokens`, `LinkConsistent`, `MarkersAgree` and the other layers listed under Proofs |
| `HandoffInductive` (`handoff`) | the layers listed under Proofs |
| `AuthorityInv`, `SessionsObey` (`authority`) | `OneHolder`, `ManifestAlwaysLoads`; `PauseIsBarrier`, `ReplacedStaysSilent` |
| `OwnershipInv` (`authority`) | `OneIngress`, `LinkInOwner`, `RetiredIsDone` |
| `PollingInv` (`polling`) | `StoredOnce`, `ReadyHasCursor` |
| `CleanupInv`, `ErasesOnlyEligible` (`cleanup`) | `ExecutedOnce`; `ErasesOnlyBackedUp`, `ErasesOnlyFinished` |
| `RuntimeInv`, `ServingMovesOn` (`serving`) | `DrainedMeansQuiet`, `SessionKeepsVersion`, `CallbacksAfterStart`; `NeverStuck`, `ControlLossEnds` |
| `WorkflowInv` (`serving`) | `ApprovedWasReviewed`, `RewrittenOnce`, `QuietWhileOpen` |
| `RoutingInv` (`mail_parts`) | `EveryMatchAgrees`, `UnknownNeverDecides`, `FixturesDecide` |
| `StoreInv` (`mail_parts`) | `RefResolves` |
| `DriveInv` (`mail_parts`) | `NothingForgotten`, `ShownPdfKept`, `ReadAfterDelivery` |
| `DigestInv` (`mail_parts`) | `PostedOnce`, `ConfirmedIsPosted`, `MissedIsReported` |

Bounds. `VMax` and `BigintMax` are the code's `POSTGRES_BIGINT_MAX`, small enough for the
exhausted branches to be reached; `MaxRetries = 0` or `1` reaches both the
retry and the exhausted budget; `MaxRenewals = 1` distinguishes a renewed token
from the first; `MaxEpoch` and `MaxAuthority` bound operators. Two processes
suffice for a stale holder beside a new one; the theorems remove these bounds.
`Limit = 2` lets a delta fill a page exactly; three epochs are a pause and a resume
between two pages. `MaxTokens = 2` is reached by three uploads, so the full list of
handles is too. In the digest the clock passes the end of a second window with
time for the first to be reconciled; in the cleanup it passes retention, settling
and the end of a plan. `Threshold`, `Window`, `Interval` keep the order of the code's
values (a window holds several intervals).
`CHECK_DEADLOCK FALSE`, because a mailbox without events may rest for ever, a
hand-off, a cleanup or a digest that has ended too, and a process that exited.

The symmetry sets of the MC modules hold exactly the permutations that respect
`SessionOf`, and swap clicks, command runs or process starts of one kind. They are
used for safety only.

In `Handoff`, two tasks are enough for one to act between any two steps of the
other, and a finished task is reused for further clicks; two revisions give a
stale card beside a current one. Versions grow only with committed transitions,
so they need no bound.

In `mail_parts` the power stays on while the account's directory is being made
(part `"first store"`); see Known limits.

Fairness. Inbox: a consumer task keeps running (weak fairness of its own
steps); the clock passes; the recovery loop, claiming and registration are
strongly fair because a process may come and go between two polls, and a
supervisor restarts it; the heartbeat's fail-stop and the lapse of an unrenewed
registration are weakly fair. Polling: the scheduler never gives up (weak fairness
of a poll's steps), and loading and committing the current page are strongly fair,
because the Gateway and the database answer again and again. Runtime: the event
loop runs what can run; the heartbeat's lock is strongly fair because an
`asyncio.Lock` serves its waiters in order. Workflow: every client has a timeout
(`src/providers/factory.py:157`, 60 s; the CLI providers 120 s), so a call that was sent
is answered or fails, and time passes. Operators, events, successful heartbeats,
outages and crashes owe nothing.

## Findings

- `handoff_stranded`: the processed card has no buttons and no loop resumes
  approved runs, so an approval whose resume failed or died stays `approved`.
  `src/utils/lark_app.py:549` calls it "recoverable" and the daily digest shows
  it as being sent or waiting for a retry (`src/daily_digest.py:211`).
- `polling_backlog`: a response with more than the limit of 500 items is a contract
  error as a whole, also for the baseline whose items are discarded, and the Gateway
  answers with the complete delta. After a larger backlog every retry meets the
  same delta and the cursor stays where it is, although `polling.py:665` says that
  "retrying a rejected poll is safe".
- `workflow_outage`: nothing outside the tests calls `report_success`, so a breaker
  that opened refuses every call until the process is restarted, although
  `retry_decorator.py:50` refuses only "until recovery".

## Known limits

Met while modelling and not the subject of a run. Most can be reproduced in the models;
`/test_rule` and the two readings of a missing `reply_mode` were read from the code:

- `_append_current_payload_revision` (`src/utils/lark_app.py:2345`) assembles the
  next revision from the stored draft and the checkpoint. If the projection of an
  edit failed, and so did its repair, the next edit of the other field commits a
  revision without the first edit. The new card shows the reverted text, so
  `ApprovedAsShown` holds.
- Recovery beside a predecessor that is quarantining its ambiguous send can turn
  `send_unknown` into `manual_review` (`src/utils/db_async.py:1629`); hence
  `RememberedAlone` and `RecoveredConsistent` are about one process at a time. The
  message is never sent again either way.
- After one failed page renewal `accepting` stays false, and a consumer or recovery
  loop that dies then is no longer escalated (`src/ingestion/runtime.py:656`): the
  process keeps its session and processes nothing. `ControlLossEnds` is about the
  other losses.
- The hand-over primitives leave the commit to their caller: one that commits after
  `_mark_draining` and before `_insert_current` leaves the account without a current
  generation, and neither `bootstrap` nor another hand-over can give it one
  (`src/ingestion/ownership.py:853`). Nothing in the shipped program calls them yet.
- A page commit that began before 18:00 and ends after the digest's snapshot is in
  no digest's list (`src/daily_digest.py:401`); a window during which the service
  was down has no execution row and is not reported (`daily_digest.py:1021`); two
  schedulers may finish each other's claim (`daily_digest.py:781`), so one is checked.
- A staged PDF whose write was applied but could not be read back may stay both active
  and listed for deletion (`src/email_feishu_delivery.py:608`). A PDF reply whose
  answer is lost counts as failed (`lark_pdf_flow.py:627`).
- A process that is restarted after one rule of its artifact expired does not start
  (`src/router/tier1/compiler.py:532`). `/test_rule` always reports no match: it prints
  `report["tier1"]` (`src/commands/handlers.py:306`), and the dry run answers under
  `matched_rule_ids`.
- A rule that names a profile on a route that writes nothing compiles, passes its
  fixtures and then fails every mail it matches (`src/router/decision.py:86`); one
  historical label whose profile was removed fails every mail whose search finds it
  (`src/handoff/history.py:50`); a proposed rule with an unknown profile stops the compiler,
  which means to let broken candidates through (`src/router/tier1/compiler.py:186`).
- The fingerprint treats a reply without `reply_mode` as one with
  `sender_and_original_cc` (`src/router/tier1/fingerprint.py:37`), as
  `docs/tier1-routing-design.md:182` says, and merges the two. The check before sending holds
  only the explicit value to the sender and the original Cc (`src/safety/recipients.py:229`), so
  which of two merged rules, or of two agreeing labels, is read decides whether an
  operator may change the recipients. `Executes` follows the fingerprint and the document:
  `EveryMatchAgrees` and `OneMailOneVote` do not speak of this freedom.
- Only the maker of the account's directory syncs the root: a power loss during the
  very first stores can lose an object another writer has already claimed
  (`src/storage/encrypted_files.py:235`).
- A backup that completes between the cleanup plan's clock reading and its scan passes
  the receipt check (`src/maintenance/checkpoint_cleanup.py:232`).

## Proofs

Every safety property of the passing runs, invariant or action property, is a theorem:
`PROJECT.json` lists which. Each follows from an inductive invariant, defined in the
component's module (in `MCHandoff` for the recovery) as a conjunction of named parts and
checked by TLC on the run's instance before it was proved. A proof module has one
lemma per action, or per group of actions that touch the same state, and the theorem
puts them together with the initial states. Unless another assumption is named, a theorem rests only on the
module's assumption on its constants, for any number of rows, tasks, processes, operators
and values; bounds such as `MaxClock` are arbitrary naturals.

### Durable Inbox

From `ConstantsAssumption` alone (types of the constants, `VMax >= 4`). None of the
properties is inductive, so `Inductive` strengthens them, in five layers, each used by
the next:

1. `TypeOK` and `Holding`: what a consumer holds in each of its states.
2. `Tokens`: the pair of epoch and attempt number of a claim is not ahead of its
   row, two active consumers never hold the same attempt, and every elected
   receipt is in the past of its row. So a late consumer can never again equal
   the row's token: without it a stale consumer could pass the lease check.
3. `LinkConsistent`, `LinkState`, `MarkersAgree`, `Unlinked`: the e-mail's link
   names a CREATE row in the same epoch with a matching status, and the effect
   markers of the two rows agree. So recovery never finds an attempt in a state
   it cannot explain.
4. `EffectState`, `Effecting`: an e-mail is marked before anything is authorized
   for it, and all its authorizations belong to one attempt.
5. `Remembered` and `NoSilentDrop`: an e-mail that left `ingested` has seen a CREATE or
   was given up on record, and so has one whose CREATE a consumer is about to complete.
   So a CREATE row never ends as completed with nothing to show for it.

Theorems: `TypeCorrect`, `ClaimsUnique`, `LinksAgree`, `InductiveHolds`, `EffectsOnce`,
`CancelledSafe`, `AttemptsAreFresh`, `NothingDropped`, `SettledIsFinal` (an action property, from the
invariant before the step), and `EventsApplyLegally`, which holds of `decide_email_event`
in any state and needs no invariant: every branch is compared with the manifest's row.

### Hand-off

From `HandoffAssumption` alone. `HandoffInductive` is needed because the properties only
look at what left the system, while what keeps them true is who may still act:

1. `TypeOK` and `Holding`: a pending run has a payload, a pending approval an
   approver.
2. `DeliveredFirst`: `emails_log` leaves `processing` only by its delivery, so
   the delivery's plain `update_status` never overwrites a decision.
3. `ClaimedOnce`: the claim marks the run for ever, excludes every state from
   which it could be approved or claimed again, and the one task between claim
   and send has not sent.
4. `DraftedOnce`: the same of the task that saves the draft; a started draft
   excludes a claimed execution, and the other way round.
5. `ApprovedCurrent`: an envelope ends the time of edits, so the revision that
   is approved, carried by a sender, sent or saved is the current one.

Each part is shown to hold after every step in one lemma (`TypeStep`,
`HoldingStep`, `DeliveredStep`, `ClaimedStep`, `DraftedStep`, `ApprovedStep`),
with one step per action; steps that touch no record and make no call are
treated together (`QuietMoves`). Theorems: `HandoffTypeCorrect`,
`HandoffInductiveHolds`, `OneOutcome`, `ApprovedOnly`, `LogsTruthful`,
`ApprovalsAsShown`.

What holds of recovery needs `RecoveryInductive`, which adds `EndTogether` (run and e-mail
reach `rejected`, `draft_saved` and `sent` in one transaction), `Hosted` (callbacks run only in a
process that is up, so none runs while the process recovers) and `Undisturbed` (with one process
at a time a claim stays visible in `emails_log`, and what the recovery has read or put right
stays so). Theorems `SendsStayVisible` and `RecoveryIsConsistent`, of `MCSpec`: both are about one
process at a time, because two are a known limit.

### Authority and ownership

`AuthorityInv` is inductive with `Recorded` (one receipt per epoch, pauses and resumes by turns,
a key used once per command, what was told is a receipt) and `Prepared` (what a client checked
before it submitted). `SessionsAreObedient` is an action property from it.
`ReceiptsImplementLedger` is the refinement of `AuthorityLedger`: `ViewComplete` shows that the
receipts of epochs 1 to n form a sequence, `InitializeApplies` and `TransitionApplies` that a
command appends to it, and every other step leaves the ledger as it is and answers, if at all,
from a receipt that is there.

`OwnershipInv` is inductive with `Underway`: what the holder of the account's lock has read is
still so when it commits. `GenerationsHold` is about `PipelineOwnership` itself, and
`OwnershipHolds` carries it over to the composed system, where every step is one of
`PipelineOwnership` or leaves its variables alone.

### Polling

`PollingInv` is inductive with `CursorInFeed` and `PagesFromFeed`: a page in the hands of a
process is what lies between its two positions in the feed, or repeats rows that are stored.
Hence a late page can neither add a row of its own nor move the cursor past anything. Theorems `PollingHolds`,
`NothingIsSkipped`, `CommitsAreFenced`; they assume that the mailbox may change at all (`MaxFeed > 0`).

### Checkpoint cleanup

`CleanupInv` is inductive with `LockExcludes`, `StoppedInTime` (a service that lost its fence is
gone before the settling time is over), `BackupsInOrder`, `Authorized` (the next deletion is a
candidate that is still as planned) and `ClaimedOnce`. Theorems `PlansRunOnce`, `LockKeepsRows`,
`DeletionsAreSafe`, from `CleanupAssumption` (`Settle > Detect`, and a clock that reaches the
retention time). Time passes only as far as the monitor's deadline (`MonitorHasTime`), in every
action that lets it pass; the induction failed until the backup's clock step had this guard too.

### Serving

`RuntimeInductive` adds to `RuntimeInv` what each stage of a living process has already started
(`StartsInOrder`) and stopped (`StopsInOrder`): `ProcessHolds` and `ReleasesAreLate` follow,
`StagesKeepOrder` is the invariant itself. `WorkflowInv` is inductive with `FailuresInOrder` (so that
what the breaker prunes is a prefix), `Stamped` (the limiter's stamp), `SeriesInNode`, `Rewriting` (how far the
one possible rewrite has come) and `Judged` (what the driver finds at the interrupt):
`ReviewedBeforeApproval` and `CallsAreSpaced`, for any threshold, window, interval and number of tries.

### The parts of a mail

`MCMailParts` moves one part at a time, so `OnePartMoves` shows that a step is a step of one
part and leaves the others' variables alone; each part's invariant is then proved of the part
and carried over.

- Content store. `StoreInv` is inductive with `Secured`: the bytes are durable before the
  rename, the name before the claim. `ReferencesResolve` is about the store itself while the
  account's directory is durable or the power stays on (`DirectorySafe`), `StoreHolds` about the
  composed run, which includes the first store. Without `DirectorySafe` the property is false,
  see Known limits.
- Drive. `DriveInductive` adds `OnCourse`, `OldNews` (an upload is new to everybody),
  `DeliveryFirst` (there is nothing to click on until the card was sent), `ClicksTakeTurns` (the lock), and which
  files the worker, a reply and a cleanup hold in each state (`WorkerFiles`, `ReplyFiles`, `CleanupFiles`).
  Theorems `DriveHolds`, `FilesAreKept`, `CleanupsSpareNewer`.
- Digest. `DigestInductive` adds that parts and windows are taken up in their order with one open part at
  most, that a request on its way belongs to the last attempt of an open part and is young, and
  that the chat still looks as the reconciling run read it. The last two rest on `Flight < Delay`.
  Theorems `DigestHolds` and `DigestsAreHonest`, both for one scheduler at a time
  (`OneScheduler`); two may finish each other's claim, a known limit.
- Routing. `RoutingInductive` (`JobShapes`, `Admitted`) says that the engine's rules passed the compiler
  and that what an attempt persists is a decision; the three parts of `RoutingInv` are then facts about
  `ExecuteRouter` for every mail and time. They are shown of the operators: the recursive functions
  satisfy their equations because `Conditions` has no cycle (well-founded recursion,
  by partial solutions); knowing more can only turn `UNKNOWN` into a
  value, which every connective respects; and two rules with one fingerprint execute the same.
  `MailsVoteOnce` shows that the consensus depends only on which mail cast which votes, so neither
  the order of the hits nor a repeated one matters. Theorems `RoutesAreSound`, `RouteIsFrozen`, `MailsVoteOnce`, from
  `RoutingAssumption`.

### Only model-checked

The five liveness properties `LeaseResolves`, `RowSettles` (inbox), `CatchesUp` (polling),
`ServingMovesOn` and `RunEnds` (serving): fairness and ENABLED are beyond the prover. The three
findings are counterexamples. That an operator such as `Cardinality` means the same in an
instantiated module and in the library is proved where it is used (`SameCount`, `SameLibrary`).

## Plan

Done: every module above, and a theorem for every safety property of the runs. Next, in this order:

1. Hand-off recovery beside a predecessor: state what still holds with two processes (the
   message is not sent again; which statuses may be overwritten) as an invariant of its own.
2. Digest with two schedulers: which of the parts of `DigestInv` survive, and under which condition on
   the time between claim and finish.
3. Polling: a refinement of "every change becomes one row, in order of arrival", as the authority
   has in its ledger.
4. Deeper coverage of `repository.py` (folder and read-flag projections) if properties of them turn up.

## Not modelled

HTTP and Exchange protocol code, card layout and PDF rendering, prompts and model
output, cryptography, database grants and provisioning, configuration and
deployment scripts: I/O or text without interleavings of their own.
`PROJECT.json` gives the reason for each.

Within modelled components: the bootstrap, quiesce, retire and hand-over operations
of `ownership.py`, the unguarded `process_and_archive_email`, the deletion branch of
the content store and the recovery half of the circuit breaker have no caller.
Reports of the cleanup command, and the wording of cards and digests, are text.
