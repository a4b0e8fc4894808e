# Formal models of LTDS Ops

TLA+ models of the protocols in this repository, checked by TLC on small
instances and proved with TLAPS where a proof is in reach. The modules are
translated from the source under `src/`; `PROJECT.json` maps every definition to
the lines it models.

## 1. The system and its parts

LTDS Ops is a monorepo of independently deployed programs.

| Part | State it keeps | Operations, and who calls whom |
| --- | --- | --- |
| **Operations workspace publication outbox** (`operations-portal-workspace-publication-outbox.ts`, migration 0153) | one command and one outbox row per operation (state, `remote_attempted`, claim token and expiry), a head row per target, receipts | reserve, dispatch (publish or recover), acknowledge. Calls the Client over a service binding |
| **Publication invocations** (`...-invocations.ts`, 0156) | one-use rows: which manager asked for which action, authorised or claimed, and an audit row | reserve, claim (in one batch with the outbox row) |
| **Publication cancellations** (`...-cancellations.ts`, 0155) | cancellation receipts and audit rows | cancel: read the Client's disposition, ask for a tombstone, store the ending |
| **Client workspace publication store** (Client Worker, 0223 and 0225) | commands, head, history, receipts, tombstones | `publishWorkspace`, `getPublicationStatus`, `cancelWorkspacePublication`, `getPublicationDisposition` |
| Workspace owner HTTP surface | none | staff requests: reserve, invoke, dispatch in this order; replay and recover |
| Operations Worker, staff routes | D1 `ltds-ops` | CRUD, ACL, delivery administration |
| Native recipient and delivery authority dispatch | outbox rows with leases, receipts | the same pattern as publications, for grants |
| Native directory and Project Alpha outboxes | outbox rows, schedules | cron drains towards Project Alpha |
| **Delivery share notifications** (`notifications.ts`, `delivery.ts`, 0091) | outbox rows with status, attempts, lease and the share version whose bearer they carry; audit log | share edits insert rows and suppress stale ones; a scheduled drain mails them |
| **Portal delivery notifications, direct lane** (`notifications.ts`, `project-alpha-delivery-intents.ts`) | outbox rows with status, attempts, lease | delivery intents insert rows; a scheduled drain mails each by itself |
| **Portal notification batches and staff controls** (`portal-delivery-notification-batches.ts`, `native-delivery-notification-center.ts`, 0161) | batches with revision, token, seal and fingerprint; their items; receipts of staff requests | untouched grants are adopted into batches, a scheduled drain mails a batch once; staff send at once or cancel |
| Incoming uploads and rclone promotion | upload sessions, verdicts, promotion state | browser uploads, scanner callbacks, a Workflow |
| File events | append-only feed with cursors | written by file changes, read by pollers |
| **Thumbnail jobs** (`image-thumbnails.ts`, 0111) | one row per source (status, attempts, lease, signal marker), thumbnail objects in R2, a cleanup ledger | file events register and remove rows; a queue consumer renders through a container; the scheduler repairs |
| **Thumbnail renderer API and TrueNAS slots** (`thumbnail-renderer-api.ts`, `thumbnail-queue-worker.sh`) | none besides the row; each slot holds a lease token | slots claim, upload, complete or fail, and signal the queue |
| Thumbnail prebuilt ingest and backfills | the same rows | sidecar thumbnails and one-off backfills end in the modelled registration |
| Client portal Worker | D1 `client-data`, R2 | portal reads, public shares, ZIP streams |
| Cloud transfer workflow | transfer rows, Workflow steps | copies deliveries to Dropbox or Google Drive |
| Project Alpha sync | projection tables | signed webhooks, Access group reconcile |
| 3D viewer processing workers | SQLite jobs with leases | workers claim, heartbeat, finish |
| Employee read gateway | snapshot cache with bounded readers | HTTP threads |
| **Windows transfer queue** (`Core/TransferQueue.cs`, the end of `Core/Downloader.cs`) | `queue.json`, a process lock, a copy of the jobs in memory, one running transfer | open, enqueue, start, retry, pause, cancel, refresh, dispose; a background transfer; crash and reopen |
| Windows queue host, placeholder hydration | presentation state, hydration requests | UI commands to the queue; file system callbacks |
| Operations MCP adapter, shared packages, UI | none | adapters, schemas, layout |

The protocol modelled first is workspace publication. It is the place where
this system is hardest to get right: two databases that share no transaction,
service-binding calls that may time out and still run later, leases that expire
under a running call, requests replayed by people, Workers that are evicted at
any await, and managers who lose their authority half-way. A publication is
what a customer sees, and an operation whose outcome is guessed wrongly either
publishes twice, loses a publication, or blocks its workspace for ever.

The second is the durable download queue of the Windows app: commands that wait
behind a network request while local stops overtake them, a background transfer,
a state file that must survive the end of the process between any two file
operations, and a hand-over of the directory between processes.

The third is mail: three outboxes drained by scheduled invocations that overlap,
outlive their leases or end anywhere, towards a provider that may accept a
message and lose the answer, while staff rotate bearers, revoke access, cancel
batches and change addresses.

The fourth is the thumbnail pipeline: two kinds of renderer compete for one row
through leases and attempt numbers, and a row, a message queue, an object store
and a cleanup ledger that share no transaction have to stay in step while
sources are replaced and deleted and a scheduler repairs what was left behind.

What makes each modelled part correct:

- *Client store*: an operation enters the history once and at the revision it
  expects; a tombstone and a receipt of one operation exclude each other, in
  whichever order the requests arrive.
- *Outbox*: at most one operation of a target is in flight; what may have
  reached the Client is marked so before it leaves; a terminal row says what the
  Client's tables say; only the holder of the claim writes the row.
- *Invocations*: each claim spends one authorised invocation, once.
- *Cancellations*: an operation in doubt can always be decided.
- *Transfer queue*: one writer of `queue.json`; a transfer runs only under its
  stored Running record; Completed is stored only for a verified file, and a
  verified file is not forgotten; a stop is never undone by an older start; an
  ended job stays ended; stops return without the network.
- *Notifications*: attempts are bounded, and each reaches the provider once at
  most; an ending is final whoever comes late; no notice with a bearer that was
  rotated away is marked sent; every mail of a batch says the same; a notice is
  mailed by one lane only; receipts and the audit log agree with the outbox; and
  every notice ends.
- *Thumbnails*: only the last claimant's answer changes a row; a row that waits
  for the queue has a message coming; no row stays pending or claimed, and no
  ready row stays without its object.

## 2. Modules

| Module | Content |
| --- | --- |
| `PublicationLedger` | what the protocol promises: each operation is opened, then committed as the next revision or withdrawn, once; no operation is opened while another is undecided |
| `PublicationLedger_proofs` | what follows from the ledger alone |
| `ClientPublication` | the Client's tables and the verdict and effect of each RPC handler |
| `WorkspacePublication` | the Operations side, the RPCs between both, managers, the clock and crashes; the properties and the inductive invariant |
| `WorkspacePublicationRecovery` | the same system with fairness, for what must eventually happen |
| `WorkspacePublication_proofs` | the theorems about `WorkspacePublication` |
| `MCWorkspacePublication` | TLC instances |
| `TransferQueue` | the queue objects, their commands, the worker, the state file and the output files, crashes; the properties and the inductive invariant |
| `TransferQueue_proofs` | the theorems about `TransferQueue` |
| `MCTransferQueue` | TLC instances and the violated property |
| `AttemptLedger` | what every notification outbox promises: a job is taken a bounded number of times, each time it reaches the provider once at most, and an ended job is never taken or released again |
| `ShareNotifications` | delivery share notices, share edits and `processDeliveryNotifications`; implements `AttemptLedger` |
| `PortalNotifications`, `MCPortalNotifications` | the direct lane, the batches and staff requests; implements `AttemptLedger` with notices and batches as its items; TLC instances |
| `Counting` | facts about cardinalities that the proofs of both outboxes use |
| `ShareNotifications_proofs`, `PortalNotifications_proofs` | the theorems about the two notification modules |
| `ThumbnailJobs`, `MCThumbnailJobs` | one source, its row, objects, cleanup ledger, queue, invocations and slots; TLC instances |
| `ThumbnailJobs_proofs` | the inductive invariant of `ThumbnailJobs` and the bound on cleanups |
| `ThumbnailFencing_proofs` | the theorems about claims, answers and messages of `ThumbnailJobs` |

### Workspace publication: how state and actions correspond to the code

A *call* is one run of `dispatchOperationsPortalWorkspacePublication` or of the
Operations function `cancelOperationsPortalWorkspacePublication`. `pc` is the
await it is suspended at, `job` the parameters and the row it read before the
claim, `reply` the RPC it awaits. A call's identity is its claim token, so an
identity starts again only when no row holds it.

One step is one D1 statement or batch, or one RPC event:

| Action | Code |
| --- | --- |
| `Reserve` | `reserveOperationsPortalWorkspacePublication`: the batch and its triggers |
| `ReserveInvocation` | `reserveOperationsPortalWorkspacePublicationInvocation` and the insert guard of 0156 |
| `BeginDispatch`, `BeginCancel` | reading the stored row; terminal rows answer at once |
| `Precheck` | drift or lost authority seen before the claim supersedes a row never sent |
| `Claim` | `claimOperationsPortalWorkspacePublicationInvocation` with the triggers of 0153, 0155 and 0156 |
| `RejectDocument` | the stored document fails to parse or verify |
| `Proceed` | the branch on the action and on the row read before the claim; the views are read again |
| `Mark` | `remote_attempted=1` and its trigger |
| `StatusAnswered`, `Resend`, `PublishAnswered` | the RPCs of a dispatch |
| `DispositionAnswered`, `CancelAnswered` | the RPCs of a cancellation |
| `RpcThrows` | `boundedRpc` rejects or its timer wins |
| `Ack`, `PersistCancelled` | the terminal batches |
| `StatementFails` | a D1 error where the code's `catch` gives the row back |
| `Crash` | the Worker is evicted; the lease is left to run out |
| `ServesRead`, `ServesPublish`, `ServesCancel`, `Refuses` | the Client entrypoint |
| `RunsLate` | a request whose caller is gone runs at the Client |
| `StandingChanges`, `InvokerChanges`, `LeaseLapses` | source rows and authority of the command, the invoking manager's proof, the clock |

What is abstracted, and why it loses nothing the properties see:

- Everything in the tables is keyed by `target_id`: one target is modelled.
- A document is a model value. Whether the deployed Worker can verify a stored
  document is the constant `Unreadable`, so a Worker version that cannot read an
  older document is covered; fingerprints and envelopes identify the operation.
- The `current_checkpoints` and `live_commands` views are one variable
  `standing`: *live* in both, *suspended* (may come back: a source row, a
  permission), *expired* (`authorized_verified_until` is in the past, for good).
  Every use in the code asks for both or treats the loss of either alike.
- A handler of the Client ends in one batch or one INSERT. What it reads before
  is a receipt or a tombstone, both immutable and checked again by the batch's
  triggers, so a handler is one step. For the same reason the two reads of
  `readDisposition` are one.
- `Precheck` and `Proceed` read a view and write the row in the next statement.
  Should the command be live again at the write, the trigger rejects it and the
  call throws with the row unchanged: this is `Crash`.
- A D1 statement that throws although it was applied is that statement followed
  by `Crash` or `RpcThrows`; one that throws where nothing catches it and was
  not applied is `Crash`.
- `next_attempt_at` is set to the current time by every retry, so a retry row is
  always due.
- The claim tests the invocation, dispatch does not look at it earlier: the
  model begins calls with spent invocations too, and the claim denies them.

### Transfer queue: how state and actions correspond to the code

`disk` is `queue.json`, `mem` the field `jobs` of each queue object, `gate` the
semaphore `commands`, `active` and `run` the fields `activeJob`,
`activeCancellation` and `stopState` together with the place `RunAsync` is
suspended at, `cmd` the running calls of public methods, `file` the output files.

| Action | Code |
| --- | --- |
| `Open` | `OpenAsync`: unknown names refused, `ReadState`, Running becomes Paused with recovery, `Commit` |
| `Call`, `Enter`, `Withdraw` | a method up to the gate (`PrepareStart` for starts), the gate and `EnsureOpen`, a cancelled await |
| `SessionHolds`, `SessionLost`, `Resolved` | `VerifySessionAsync` (which drains the worker when the session is another's) and resolution |
| `Enqueue`, `Begin` | the critical sections at the end of `EnqueueAsync` and `BeginAsync` |
| `StopActive`, `StopInactive` | `StopAsync`, both branches |
| `Drained` | the end of `DisposeAsync`, or the rethrow after a drain |
| `Authorized`, `VersionChanges`, `RecoverExisting`, `Receive`, `Promote`, `Fails`, `Stopped` | `RunAsync`, `RecoverExistingAsync` and `DownloadAsync` up to and including the move to the final name |
| `Finish`, `End` | `Finish` and the `finally` of `RunAsync` |
| `Crash`, `UserTouches` | the end of the process; the user's changes in the destination directory |

What is abstracted:

- A `Commit` is one step that succeeds, fails, or is cut short by `Crash`; a
  failure or a crash may leave the temporary file (`leftover`), which the next
  open refuses. `File.Replace` is atomic.
- `OpenAsync` is one step: what it does before taking the exclusive lock reads
  only the marker and the names. The first open of an empty directory is not
  modelled; initially `queue.json` exists and is empty.
- `Cancel()` runs after the lock on `sync` is released. Nothing but the
  worker reads the token and the source is disposed only when the worker has
  ended, so the signal is part of the critical section's step.
- `localStops` holds a fresh Guid per stop; only equality with the captured one
  is used, so a reservation is `valid` until the job's entry changes. `outrun`
  and `verified` are history variables that properties read and no guard does.
- Failed stands for the four states that differ in the message only. Jobs of one
  target have the same pins: another version ends the job as VersionChanged.
- The bytes of a transfer, ranges and partial files are data: a transfer ends
  with the pinned content verified, or fails.

### Share notifications: how state and actions correspond to the code

`row` is `delivery_notifications`, `version` and `active` the share, `owed` an
edit between its two batches, `log` the audit entries, `sender` the scheduled
invocations with the row and attempt each holds.

| Action | Code |
| --- | --- |
| `Edit`, `InsertNotice` | an edit of a share in `delivery.ts`: the update batch with `suppressStaleNotifications`, then the notification batch; an edit that leaves no recipient owes none |
| `Enqueue`, `EndShare` | first access and expiry-soon notices; expiry and revocation, whose notices are in the same batch |
| `Select`, `Claim`, `Materialize`, `Mail`, `Record`, `RecordAccepted`, `Suppress`, `Retry`, `Audit` | `processDeliveryNotifications`, statement by statement |
| `TimePasses`, `Crash` | `next_attempt_at` or `lease_until` passes; an invocation ends |

The queries behind a recipient's authority are a choice of `Materialize`. Notices
of the kinds that carry the bearer name the version they were made for; the
others name none. The claim does not compare attempts, so the attempt a sender
counts is the one it selected. `late` is a history variable: the rows whose lease
ran out under a sender.

### Portal notifications: how state and actions correspond to the code

`out` is `project_alpha_delivery_portal_notification_outbox`, `item` and `batch`
the tables of migration 0161, `control` the receipts of staff requests, `live`
and `contact` the authority and the address found by the queries, `staging`
whether the batch tables exist yet.

| Action | Code |
| --- | --- |
| `Intent`, `Adopt` (both through `Stage`) | `stagePortalDeliveryNotificationStatements` at the intent, or `adoptPortalDeliveryNotifications` in an invocation; full batches are sealed |
| `Request`, `Apply` | `controlNativeDeliveryNotification`: the checks, then status, receipt and audit in one batch |
| `Sweep` | what is due with no attempt left becomes failed |
| `SelectNotice`, `Look`, `Drop` | candidates of the direct lane, the second read with its authority, and the suppression of a row that fails it |
| `SelectBatch` | candidates of the batches |
| `Claim`, `Resolve`, `Publish`, `Mail`, `Finish` | both lanes: the compare-and-set on attempts or revision, recipient and message, the publication that freezes a batch's message, the provider, the fenced result |
| `Migrate`, `ChangeAuthority`, `TimePasses`, `Crash` | the environment |

A message is the address and the set of live notices, which is what
`authorityFingerprint` covers. The order over sources (`fairIds`) is fairness.

### Thumbnails: how state and actions correspond to the code

One still image or PDF. `src` is the original in R2, `row` its row of
`image_thumbnail_jobs`, `object` the thumbnails by content, `cleanup` the ledger,
`queue` and `dead` the messages by content and delivery number, `job` the
invocations of the Operations Worker, `slot` the TrueNAS slots. An invocation is
suspended at `job[w].at` and makes one D1, R2 or queue call a step.

| Actions | Code |
| --- | --- |
| `EventArrives`, `Register`, `AfterRegister`, `Publish`, `Send`, `SendFails`, `Mark` | `enqueueThumbnailJob` from a file event |
| `RemovalArrives`, `Remove`, `Retire`, `Resurrect` | `handleRemovedSource` and `removeThumbnailStateForPath` |
| `SelectCleanup` to `Tidy` | `drainThumbnailCleanup`, alone or inside another operation |
| `Receive`, `Look` to `Fail`, `Throw` | `consumeThumbnailJobs` and `processThumbnailJob`: the container fallback |
| `DeadLetter` | `consumeThumbnailDeadLetters` |
| `NasRead` to `NasMark`, `NasAbandon` | a slot's claim, upload, completion or failure, and the loss of any of these requests |
| `RecoverExpired`, `Exhaust`, `Revive`, `RecoverTransient`, `Retry`, `Republish`, `Reconcile`, `Deregister`, `Orphans` | the scheduled repairs |
| `Upload`, `Delete`, `LeaseExpires`, `GateOpens`, `CleanupExpires`, `Crash` | the source, the clock, the runtime |

What is abstracted:

- A heartbeat of a slot only postpones the end of its lease, which happens at
  any time in the model. The grace periods of the primary and the fallback are
  the three values of `gate`; their lengths are not modelled.
- Equal messages above `MaxCopies` are merged: a consumer cannot tell them apart.
- Every upload has a content of its own. When content comes back after its row
  was deleted, attempt numbers start again at zero and the token of an older
  lease can name the new attempt: `docs/media-thumbnail-pipeline.md:327` notwithstanding, the
  older slot's answer is then accepted (`thumbnail-renderer-api.ts:295`). It is
  a rendering of the same content, so the row ends right, but `OlderNeverActs`
  would not hold.
- A claim request does not last as long as a lease (`LeaseExpires`): `handleClaim`
  writes the attempt number of the row it read, fenced by `status='pending'` only,
  so a claim suspended for longer would give the row an old number.
- Slots may give up any number of times; faults of invocations are counted, since
  each may undo what the scheduler repaired.

## 3. Properties and runs

| Run | Instance | Checks |
| --- | --- | --- |
| `two_operations` | 2 operations, 2 calls, 3 invocations, any document unreadable, symmetric; about 594 000 states | `ImplementsLedger`, `CommittedOnce`, `HeadsAgree`, `FenceResolvable`, `Consistent`, `TerminalAgreement`, `OnlyHolderSettles`, `ClaimsSpendInvocations` |
| `recovery` | 1 operation, 2 calls, 2 invocations, fairness; about 424 000 states | `DoubtResolved`, `CallsReturn` |
| `stranded` | 1 operation, 1 call, 2 invocations | `RecoveryAdmitted`, violated |
| `queue_jobs` | 3 jobs, two of them for one output, 1 command, 1 queue object, symmetric; about 2 560 000 states | `CompletionTruthful`, `QueueSound`, `TerminalSticks` |
| `queue_handover` | 1 job, 2 commands, 2 queue objects, fairness of a signalled worker; about 1 380 000 states | `MemoryIsDisk`, `TransferIsDurable`, `StateReadable`, `NoStaleStart`, `StopsReturn` |
| `queue_lost_cancel` | 1 job, 2 commands | `CancelHonoured`, violated |
| `share_mail` | 1 notice of any kind, 3 versions, 3 attempts, 2 invocations, fairness; about 381 000 states | `IsLedger`, `SentWasCurrent`, `AuditTruthful`, `MissedMeansSuppressed`, `Accounted`, `Settles` |
| `portal_ends` | 1 notice of either kind, 1 batch, 2 staff requests, 2 attempts, 2 invocations, fairness; about 370 000 states | `IsLedger`, `OneLane`, `ReceiptsTruthful`, `CancelStops`, `PortalSound`, `EveryNoticeEnds` |
| `portal_batches` | 3 notices, 2 batches of two, 2 addresses, 1 invocation, symmetric; about 1 840 000 states | `OneMessage`, `SealedStays` |
| `thumb_fencing` | 2 contents or 2 invocations, 1 slot, any answer of the container, no faults; about 536 000 states | `NotStranded`, `SignalsOut`, `ClaimsInOrder`, `ThumbSound`, `OlderNeverActs` |
| `thumb_repair` | 1 content, 1 slot that owes nothing, 1 invocation, 1 fault anywhere, fairness; about 350 000 states | `TypeOK`, `Repaired`, `Settles` |
| `thumb_conflict` | 1 content, 1 slot, 1 invocation | `WinnerAdopted`, violated |

- `ImplementsLedger`: with `Outcome` as refinement mapping (the Client's tables
  decide; a row never sent is decided by Operations), every step of the detailed
  system is a step of `PublicationLedger` or a stutter. Decisions are made once
  and kept, a withdrawn operation never enters the history, and nothing is
  reserved while an operation is in doubt.
- `CommittedOnce`: every operation the Client has a receipt of is one revision of
  its history and only one, and nothing else is in it, whatever was resent after
  a lost answer or ran late. It is the ledger's `HistoryExact`, seen through the
  refinement mapping.
- `TerminalAgreement`: acknowledged rows have a Client receipt, dead rows that
  were sent have a tombstone, and rows that ended without having been sent left
  no trace at the Client and no request on the way.
- `HeadsAgree`: both heads are equal, or the Client is one revision ahead by
  exactly the operation in flight, and they name the same operation.
- `FenceResolvable`: an operation in doubt is already decided at the Client, or
  the Client's head still has the revision both compare-and-sets need.
- `OnlyHolderSettles`: a row leaves *dispatching* only by the call that holds
  its token.
- `ClaimsSpendInvocations`: each claim spends one unused invocation for this
  operation, and a spent one stays spent.
- `DoubtResolved`, `CallsReturn`: see fairness below.
- `Consistent`, `QueueSound`, `Accounted`, `PortalSound`, `ThumbSound`: the inductive
  invariants of section 4, checked on the same instances. Each has its module's
  `TypeOK` as a conjunct.
- `NoStaleStart`: a start reserved before a stop of the job was accepted does
  not start it, however long it waited for the gate or the session.
- `TerminalSticks`: an ended job in `queue.json` never changes, across stops,
  late workers, crashes and other processes.
- `MemoryIsDisk`: an open queue holds the lock and agrees with `queue.json`;
  after a failed `Finish` it differs by the completed job only, which is still
  Running on disk, so that the next open recovers it.
- `TransferIsDurable`: a transfer runs only under the lock and a stored Running
  record, and a stored Running record of an open queue has its worker.
- `CompletionTruthful`: Completed is stored only for an output its own worker
  verified, and a job with a verified output has ended, is Running, or is marked
  for recovery.
- `StateReadable`: `ReadState` accepts whatever `Commit` wrote.
- `StopsReturn`: a pause or cancel of the active job returns.
- `IsLedger` (both notification modules): with `Phase` as refinement mapping each
  outbox implements `AttemptLedger`. A late sender's write never reopens what has
  ended, and mails are bounded by attempts.
- `SentWasCurrent`: while a share is open, a notice is marked sent only if the
  bearer it carries is still the share's. It rests on two mechanisms: a rotation
  suppresses the rows it finds, and a row inserted after a second rotation is
  refused when it is materialised.
- `AuditTruthful`, `MissedMeansSuppressed`: unless an invocation outlived its
  lease on the row, the audit log agrees with the outbox, and an acknowledgement
  that finds its row taken away finds it suppressed, as the comment in
  `notifications.ts` says. For a row in `late` neither holds: nothing but
  `status='sending'` fences those statements.
- `Settles` (share notices): every notice is sent, failed, or abandoned in its
  last attempt (see the observations below).
- `OneLane`: a notice in a batch was never mailed by the direct lane, also for
  an invocation that began before the batch tables existed.
- `OneMessage`, `SealedStays`: every mail of a batch goes to one address about
  one set of notices, and a batch that was claimed, filled or sent by hand takes
  no more of them.
- `ReceiptsTruthful`, `CancelStops`: a batch cancelled on request stays
  cancelled, of two requests that saw one revision one is applied, and a
  cancelled batch is mailed no more unless an invocation outlived its lease.
- `EveryNoticeEnds`: every notice, and the batch it is in, ends.
- `OlderNeverActs`: a slot or invocation changes the row with its answer only if
  it is the last one that claimed it, or had the same attempt number. The
  exception is real and narrow: between a slot's read and its claim the consumer
  claims the row and a cleanup that deleted its object reopens it, and both then
  hold one number for one content.
- `NotStranded`: a pending row that only the consumer may take and the scheduler
  holds for published has a message in the queue, in a consumer's hands or about
  to be sent.
- `SignalsOut`, `ClaimsInOrder`: the invariants behind these two. A row only the consumer may take has a message that will be
  answered, or neither the mark of one nor somebody about to mark it; and of the
  claims that may still be answered none has a higher attempt number than the row,
  and those with the row's number belong to its holders.
- `Settles` (thumbnails): no row stays pending or claimed, though slots answer
  nothing. `Repaired`: a ready row of the live source whose object is missing or
  another one does not stay ready.
- `ThumbnailJobs!TypeOK` bounds the attempts of a cleanup: the limit is checked
  when cleanups are selected and not when they are claimed, so with *w*
  invocations it is exceeded by *w* - 1 at most.

**Bounds, workspace publication.** Single flight means that operations overlap only through what an
earlier one left behind (late requests, sleeping calls, old rows), so two
operations show every pair. Two calls give every takeover of a lease by another
call; a third adds only another sleeper, and a sleeper's writes are conditioned
on a token nobody else has. Three invocations allow publish, recover and cancel
on one row, or a takeover after two denials. `two_operations` keeps managers'
proofs current (`InvokersStay`); `recovery` does not, and the theorems hold
without the bound. Calls and invocations
are symmetric: no definition looks at their names; the liveness run uses no
symmetry. Deadlock checking is off because a system in which every operation is
decided rightly stops.

**Bounds, transfer queue.** One transfer runs at a time and the gate admits one
command, so two commands give a holder of the gate and a waiter, or a pending
stop beside either; inactive stops are single steps and need no command. Three
jobs show a stop or start of one beside the transfer of another, and an old
job that left a file for its successor, with one command at a time because what
`queue_jobs` checks is about records and files. Two queue objects show every hand-over;
a third would only wait for the lock. Crashes, failed saves and user changes are
unbounded in all runs. Deadlock checking is off: a directory with a leftover
temporary file and no open queue rightly stays as it is.

**Bounds, notifications.** Rows of one share or batch meet only through the
share's version or the batch, so one notice shows every order of edits and
senders, and three show a batch that fills and its successor. Two senders give
every takeover of a lease; a third is another sleeper. `MaxAttempts` is 3 for
shares, as in the code, and 2 for the portal, where the third attempt repeats the
second. Three versions show a second rotation before the first has inserted its
notice. `portal_batches` starts with the batch tables in place, has one sender
(whose crashes give every takeover) and lets one notice at a time lose its
authority, once its batch is sealed (`OnlyStaged`); the overlap of senders and the
migration are in `portal_ends`. Crashes and lost answers are unbounded. Deadlock
checking is off: an outbox in which everything has ended rightly rests.

**Bounds, thumbnails.** Two contents show every late answer, event and cleanup of
a replaced source; one is enough for repairs. One slot and one invocation already
compete for the row; `LeaseExpires` lets each be overtaken by the other. A second
invocation, which only finds orphans and works off the cleanup ledger, shows a
deletion overtaken by a retry. `thumb_fencing` has the second content and the
second invocation one at a time, and beside a second content one claim, no
failure of the container and no deletion of that content (`FewTries`): the sharp case is the
first attempt at each content, whose numbers agree, and the sharp deletion is the one handled
when the replacement is already there. `FewTries` also bounds the claims of one row to two, one
to be overtaken and one that overtakes (an image that the container refuses as too large
and fails in turn goes back and forth without a limit in the code); a third number
is given only by a retry while the second invocation is at work on a cleanup. Nothing in that run reads the dead letters, so its view leaves
them out (`LettersUnread`). `MaxAttempts` is 1 or 2 in place of 6, `MaxDeliveries` 2 or 3 and
`MaxCleanups` 2 in place of 8, so that limits are reached. `thumb_fencing` has no
faults and `thumb_repair` one fault and more deliveries than faults, for the
reason given under the observations.

**Fairness, notifications.** The clock moves on, an invocation that does not end
goes on, and the schedule keeps starting invocations, which take due rows by age
(strong fairness of selection for each row, because rows are selectable again and
again). A sender may still crash at every attempt.

**Fairness, thumbnails.** Deadlines pass, an invocation goes on unless it is the
one that fails, the queue delivers, file events are handled, and what the
scheduler finds due is started again and again. Of the slots only the claim
request, which the Operations Worker serves, has to end. A row that waits for a
slot because the image is too large for the container waits by design; the answer
`pixel` is therefore not in `thumb_repair`.

**Fairness, transfer queue.** `StopFairness` asks for progress of the worker only
once its token is cancelled, or when its remaining steps are local (promotion,
`Finish`, the `finally`): every network await of the worker takes the token.
Nothing is assumed of session requests, and a command may hold the gate for ever.

**Fairness, workspace publication.** `CallsReturn` assumes only that the Worker runtime resumes a call
whose await settled and that `boundedRpc`'s 15 second timer settles every RPC.
`DoubtResolved` is about what follows a bad period: `calm` becomes true at a
moment nobody knows, and from then on calls are not evicted, the Client answers,
time passes (leases expire) and a manager whose proof is current keeps asking to
cancel. A call makes at most two RPCs of 15 seconds, so in calm weather it ends
within its 60 second lease (`LapsesInCalm`). What the storm left, including late
requests, is still there. The cancel function has no HTTP route at this commit
and is exercised by its tests only: `DoubtResolved` is a statement about the
protocol once something calls it. With publish and recover alone an operation in
doubt whose authority is gone stays in retry, by design (see the comment at
`operations-portal-workspace-publication-outbox.ts:472-474`). `Forget` returns
identities of used-up invocations: the system has unboundedly many.

**The disagreements found.** `stranded`: a call spends its invocation on the
claim and dies before `remote_attempted` is stored. The row is *dispatching*
with `remote_attempted=0`. Recover and cancel invocations are admitted only for
`remote_attempted=1`; a publish invocation, new or replayed, only while the
command is in the live view, which ends for good with
`authorized_verified_until`; the check that would supersede the row is skipped
for dispatching rows; and the single-flight guard refuses new reservations. The
acceptance document says that recovery uses a new audited invocation for the
same publication. `DoubtResolved` is stated for `attempted` rows for this
reason. A related case, not run: a handler that dies between reserving the
publication and reserving its first invocation leaves a *pending* row whose
authority may run out, with the same effect.

`queue_lost_cancel`: `CancelAsync` of the active job records the request for the
worker and awaits it. When the worker has already chosen another ending (a
failure, or an earlier pause) and not yet reached its `finally`, nobody reads the
request: the cancel returns without an error and the job stays Paused or Failed,
startable again. The lifecycle test asserts Cancelled after `CancelAsync`.

`thumb_conflict`: `adoptExistingThumbnail` recognises the winner of a race by the
custom metadata `thumbnailProvider`, but the upload route of the slots stores
`rendererProvider`. A thumbnail that a slot has uploaded is never adopted: the
row fails for a conflict and the object is scheduled for deletion.

**Observations without a run.**

- The Windows app's README (lines 196-197) says that inactive changes remain
  session-gated; `StopAsync` (`TransferQueue.cs:199`) stores a stop of an
  inactive job without a session, and its comment says why. The code looks
  intended and the README outdated.
- A share notice whose invocation ends in its third attempt stays *sending* for
  good: the selection asks for `attempts < 3` (`notifications.ts:363`) and there
  is no sweep like the portal lanes have, although `docs/notifications.md:7` has
  terminally failed attempts audited. `Abandoned` in `Settles` is this case.
- A call that throws before the claim on the last delivery of a message
  (`image-thumbnails.ts:1360`) sends the message to the dead letters, whose
  consumer annotates failed rows only; a row pending with an error and
  `queue_published_at` set is then found by no repair, in spite of
  `docs/media-thumbnail-pipeline.md:326`. This is the second half of
  `SignalDropped`, which `NotStrandedHolds` excepts by name; `NotStranded` is
  checked without faults, and `Settles` with answers that leave no such error and
  fewer faults than deliveries.
- With several slots the mark that `handleFail` stores last
  (`thumbnail-renderer-api.ts:670-673`) is fenced by the status and not by the
  attempt. One that is delayed until another slot has failed the row again marks
  the row for a message the other slot has yet to send; should that slot then give
  up, republication does not look at the row. This is the first half of
  `SignalDropped`.

## 4. Proofs

TLAPS proves the theorems below for every value of the constants that satisfies
the named assumptions. These say that `None` is no member of the sets it is added
to, that bounds are numbers (`MaxAttempts` and `MaxItems` positive), that notices
and batches are apart, that every job has a target and that unreadable documents
are documents, and of the thumbnails that contents are numbered and invocations
finitely many. Otherwise the sets are arbitrary, infinite ones included.

| Module | Inductive invariant | Safety properties | Action properties | Refinement |
| --- | --- | --- | --- | --- |
| `PublicationLedger_proofs` | `LedgerTypeCorrect` | `HistoryExactAlways` | `KeptAlways` | |
| `WorkspacePublication_proofs` | `ConsistentAlways` | `TypeCorrect`, `TerminalAgreementHolds`, `HeadsAgreeHolds`, `FenceResolvableHolds`, `CommittedOnceHolds` | `OnlyHolderSettlesHolds`, `ClaimsSpendInvocationsHolds`, `DecisionsKept` | `Refinement` of `PublicationLedger` |
| `TransferQueue_proofs` | `QueueSoundAlways` | `TypeCorrect`, `MemoryIsDiskHolds`, `TransferIsDurableHolds`, `StateReadableHolds`, `CompletionTruthfulHolds` | `NoStaleStartHolds`, `TerminalSticksHolds` | |
| `ShareNotifications_proofs` | `AccountedAlways` | `TypeCorrect`, `AuditTruthfulHolds`, `MissedMeansSuppressedHolds` | `SentWasCurrentHolds` | `Refinement` of `AttemptLedger` |
| `PortalNotifications_proofs` | `PortalSoundAlways` | `TypeCorrect`, `OneLaneHolds`, `OneMessageHolds`, `ReceiptsTruthfulHolds` | `SealedStaysHolds`, `CancelStopsHolds` | `Refinement` of `AttemptLedger` |
| `ThumbnailJobs_proofs` | `ThumbSoundAlways` | `TypeCorrect` | | |
| `ThumbnailFencing_proofs` | `MessagesHandledAlways`, `SignalsOutAlways`, `ClaimsInOrderAlways` | `NotStrandedHolds` | `OlderNeverActsHolds` | |

**Workspace publication.** `Consistent` is the inductive invariant, in named
parts. `TerminalAgreement` is not inductive: that an acknowledgement finds a
Client receipt needs to know that an answer a call holds is still true of the
Client (`AnswersTrue`); that a superseded row left no trace needs to know that all
that was or may be sent is marked (`SentIsMarked`), and that the job a call works
on is the one its invocation names (`JobsInvoked`). `HeadsAgree` needs single
flight (`SingleFlight`), that the operation in flight expects the current head
(`HeadsInStep`) and that every receipt sits at its revision (`ReceiptsPlaced`).
The steps of a call share one shape (`CallStepShape`: they write their own row,
only if they own it, and their own call variables), which `CallsPreserve` uses once
for all of them; requests at the Client, invocations, reservations and the
environment have a lemma each. The refinement is proved from `Consistent`: a
reservation maps to `Open`, a commit to `Commit`, a tombstone and the endings of
rows never sent to `Withdraw`, everything else to a stutter.

The refinement is put to use: the ledger has one short proof each that an operation
enters the history exactly when it is committed, so once, and that decisions and
revisions are kept. `WorkspacePublication_proofs` instantiates that module with the
refinement mapping (`LedgerFacts`) and carries both facts over to the two databases,
as `CommittedOnceHolds` and `DecisionsKept`, without looking at a step of the protocol again.

**Transfer queue.** `QueueSound` is the four invariants of the runs with three
parts they lean on. `MemoryIsDisk` holds only because one queue object at a time is
open and a command past the gate holds it (`LocksHeld`): `VerifySessionAsync` and
the transfer suspend between reading the jobs and storing them, and it is the gate,
not the lock on `sync`, that keeps another command out. `CompletionTruthful` needs
to know what the worker is about to store (`WorkerSound`): a verdict of Completed
was verified, and a worker that verified an output and ends in any other way leaves
the record marked for recovery. `NoStaleStart` needs `CallsKnown`: a start that was
overtaken by a stop has lost its reservation, or the job had ended before.
One lemma (`StoredSound`) treats every `Commit`: all that has to be shown of an
action that stores a record is that `ReadState` accepts it and that it is truthful
about the output.

**Share notifications.** The ledger's "no more mails than attempts" is not inductive:
`MailsCounted` counts the invocations that still stand before the provider with
the mails already accepted, so a claim adds one to both sides, and acceptance moves one
from one summand to the other. `AuditTruthful` needs that an invocation which has
not outlived its lease is alone on its row (`LeaseExclusive`) and that what it is
about to log is true (`AuditsTruthful`); `SentWasCurrent` needs that a mail under way
carries the current bearer or had its row suppressed (`MailCurrent`), which takes
both the suppression by a rotation and the check at materialisation.

**Portal notifications.** Every action satisfies one fact, `Forward`: rows are never
deleted, attempts and revisions never fall, a row that has ended and a frozen
message never change, and a batch that is due changes only together with its revision. Most
parts of `PortalSound` (which has `TypeOK` as its first) follow from `Forward` alone. `OneMessage` is the part that
takes the argument: the message is frozen in the row before the first mail
(`MailsFrozen`), by a statement that does not count as a revision; that a retry
cannot claim with an older view of it is `ClaimFits`, which holds because a batch
is not due between its claim and its release. `OneLane` follows from `Adopted` (a
staged notice was never attempted) and `MailsCounted`, so also for an invocation that
read the notice before the batch tables existed. `ReceiptsTruthful` rests on
`RequestsFit`: an applied request has seen an earlier revision than the current one.

Both refinements map a claim to `Take`, an accepted mail to `Accept`, and whatever
else changes a row's phase to the ledger's moves; every case where an invocation
lost its lease is a stutter, or releases a held item, and never touches an ended one.

**Thumbnails.** `ThumbSound` carries the types through all actions. Two things in
`TypeOK` are not about one step. A lookup in the cleanup ledger finds a record
because an invocation at work on a cleanup names one that exists, and ledger rows are
marked and never deleted (`JobsFit`). And the attempts of a cleanup are bounded though
the claim does not repeat the cap that the selection tests: `CleanupsCounted` adds to the
attempts made those of the invocations that have selected the cleanup and not yet
claimed it, and this sum stays below the cap plus the number of invocations. A
selection finds the attempts below the cap and at most all invocations selecting; a
claim moves one from the second summand to the first; rescheduling keeps the
attempts, retiring starts them anew.

`ThumbnailFencing_proofs` is about any number of slots and invocations, any contents,
and any number of faults. `MessagesHandled` says of every invocation between taking a
message and answering it that it has one, and that a failure it means to have retried
is not one of the last delivery; it holds in all behaviours. On it rest two
invariants, each true as long as the steps it names do not happen:

- `SignalsOut` needs `[][~SignalDropped]_vars`: no slot gives up its signal for a row
  that has the mark of another one or is about to get it, and no invocation dies on a message's last
  delivery before its claim. Without the hypothesis `NotStranded` is false, for the reasons
  under the observations; the theorem says that these are the only two
  ways to strand a row. `NotStranded` itself is not inductive: a message of the last
  delivery that comes before the gate is open is sent away, so it counts as carried
  only once the gate is open, and a mark about to be stored counts as stored.
  Both theorems are for `MaxDeliveries > 1`, as the message needs a second delivery
  when the first comes too early; `THUMBNAIL_MAX_DELIVERY_ATTEMPTS` is 6.
- `ClaimsInOrder` needs `[][~NumberReused]_vars`: the attempt number of a row does not
  fall (a slot that claims with a number read long before) and does not start
  again (a registration after a deletion) while a claim on that content may still be
  answered. Without it `OlderNeverActs` is false: attempt numbers are the fence.
  `OlderNeverActs` follows, since an answer is written only to a row that still has its
  number. The rest of the fence (expiry, takeover by the other renderer, retries,
  recoveries, exhaustion, cleanups that reopen a row) needs no hypothesis.

With one slot and no faults neither hypothesis is needed: `thumb_fencing` checks
all four properties without them.

**Only model-checked.**

- The liveness properties (`DoubtResolved`, `CallsReturn`, `StopsReturn`, `Settles`,
  `EveryNoticeEnds`, `Repaired`): fairness and ENABLED are out of the prover's reach.
- The violated properties.

## 5. Plan

1. Done: workspace publication (outbox, invocations, cancellations, Client
   store), its ledger and recovery; the Windows transfer queue; the three
   notification outboxes with their abstract specification; the thumbnail jobs.
2. Done: the proofs above.
3. Further models: partial files and ranges of `Downloader.cs`; native recipient
   and delivery authority dispatch, compared with the publication protocol;
   incoming uploads and promotion; viewer processing leases; the snapshot cache
   of the employee gateway; cloud transfers.

## 6. Not modelled

The repository is far larger than what has a protocol of its own. Route tables
and single-request CRUD, React clients, the viewer's rendering and level-of-detail
code, image processing, the MCP adapter and the schema packages are sequential
code over data, about which a state machine would say nothing that the code does
not. Of the thumbnail pipeline, video sources, prebuilt artifacts, trash
tombstones and image locations are left out: they lead to the same row by the
same statements. The parts listed in step 3 of the plan do have protocols and are
not modelled yet.
