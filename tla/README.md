# Betterlytics in TLA+

TLA+ models of the parts of Betterlytics whose correctness depends on the order
in which things happen, the TLC runs that search small instances of them, and
TLAPS proofs of the properties that matter most. Every definition is translated
from the source; paths below are relative to `src/` (`backend/` is the Rust ingest
and monitoring process, `dashboard/` the Next.js application and its worker,
`static/` the scripts of the tracker). `PROJECT.json` maps each definition to the lines it stands for.

Run a model with `tlc -config MCx.cfg MCx`, a proof with `tlapm x_proofs.tla`.

## 1. The system and its components

Betterlytics is privacy-friendly web analytics. Four kinds of process share two
databases: the **backend** (one process, many tokio tasks), the **dashboard**
(HTTP handlers), the dashboard **worker** (pg-boss jobs) and the **tracker** in
the visitor's browser. Postgres holds what users configure (sites, checks,
integrations, subscriptions, salts); ClickHouse holds what happened (events,
sessions, probe results, incidents, notification history). The processes never
call each other except that the tracker posts to the backend, and Stripe to the
dashboard; everything else goes through the databases.

| component | state it keeps | operations | interacts with | what is hard | what makes it correct |
|---|---|---|---|---|---|
| **Ingest pipeline** `backend/src/db`, `processing`, `main.rs` | bounded channel, a batch and a retry state per table | `try_send`, `run_inserter`, `flush`, drain | HTTP handlers in, ClickHouse out | retries whose first attempt may still be executed; shutdown; full channel; poison batches | an event is stored at most once, and never lost without a trace |
| **Visitor identity** `backend/src/salt`, `session`, `visitor` | the day's and the previous salt, the session cache, the table of salts | rotate, `identify`, warm at a start | HTTP handlers, other backends through the salt table, sessions in ClickHouse | a rotation in the background of requests, several backends, midnight, restart | one fingerprint per visitor and day; old salts vanish; a session survives midnight and restart |
| **Monitor incidents** `backend/src/monitor/{runner,service}.rs`, `incident/`, `alert/` | evaluator, notification tracker, rows in ClickHouse | `handle_failure`, `handle_success`, alerts, `prune_inactive`, warm start | probes in; mail, push and row writer out | mail awaited between state changes, a second runner pruning, a crash between memory and row | no false all-clear; one alert per incident; resolved rows stay so |
| **ClickHouse channel writers** `backend/src/monitor/clickhouse_writer.rs` | channel and worker per table | `enqueue_rows`, insert by chunks, fence, `flush_all_writers` | incidents, results, notifications; shutdown | fences between rows, full channels, chunks that fail | rows once and in order; an ack means nothing is left behind |
| **Push notifications** `backend/src/notifications/engine.rs` | `delivery_log` of claims | `notify`, retries, history, seeding | monitor and event alerts in; providers and a channel writer out | claims taken before and given up after an await, partial failure, restart | no repeat once delivered; a failure leaves no claim |
| **Billing** `dashboard/src/services/system/webhookHandlers.service.ts` and its repositories | the Subscription row, the retention settings' tier | five kinds of Stripe event, the syncs of a user's request | Stripe, retention settings, mail queue | events late, repeated, in any order and overlapping; duplicate checkouts | the row entitles to what is paid; one live subscription |
| **Configuration caches** `backend/src/{site_config,monitor,notifications}/cache.rs` | a map and a watermark | full and partial refresh on two timers | Postgres in; everything above reads them | a partial refresh lands between the fetch and the store of a full one | an update is visible after bounded time |
| **Supervised tasks** `backend/src/utils/tasks.rs` | restart back-off | spawn, restart | all background loops | a panic in the supervised future | a loop keeps running |
| **Probes, back-off, SSL alerts** `backend/src/monitor/{probe,backoff,rate_limiter}.rs`, `service.rs` | back-off level per check, SSL milestones | `due`, `report`, SSL alert once per milestone | incidents | escalation against thresholds; renewed certificates | a check is probed in time; each milestone alerts once |
| **Session recorder** `static/replay.js`, loaded by `static/analytics.js` | flags, buffer or matrix of events, uploads, consent | start, stop, flush, upload, navigate, consent, error | rrweb, backend, object store | every handler ends in a promise or a timer, and others come in between | no event is skipped; one recorder; a stop ends |
| **Session replay ingest** `backend/src/session_replay`, `storage` | cached totals per session | presign, finalize | object store, ClickHouse | the total is read before and written after an upsert | totals count every segment |
| **Event processing and bots** `backend/src/{processing,validation,bot_detection}` | velocity windows | validate, classify, route | identity, ingest | windows shared by requests; a verdict cached across requests | a bot verdict holds for its window |
| **GeoIP, ASN** `backend/src/{geoip_updater,geoip,asn}` | a database file and a reader | download, swap | enrichment | I/O | the reader is always a complete file |
| **Parsers, sanitizers** `backend/src/{ua_parser,referrer,campaign,url_utils,ip_parser,sanitize,error_fingerprint}` | none | pure functions of strings | processing | none for a model checker | unit tests |
| **Job queue and outbox** `dashboard/src/worker`, `services/email` | pg-boss rows, the log of sent mail | enqueue with a singleton key, dispatch, record | billing, reports, onboarding | crash between dispatch and record; retry | a letter that is due is sent; twice only if a handler was lost |
| **Scans and reports** `dashboard/src/worker/jobs/{reports,onboarding,billing}` | last-sent marks | due-ness, mark, enqueue | outbox | mark and enqueue are two steps | a report that counts as sent was sent to all |
| **Retention** `dashboardSettings.service.ts`, `retention-purge.job.ts` | settings, a grace date | sync to tier, save, purge | billing, ClickHouse | a downgrade's grace period against the user's own change and an upgrade | nothing is purged that the tier entitles to keep |
| **Dashboards, members, invitations** `dashboard/src/services/dashboard` | rows | invite, accept one or all, decline, cancel, remove | billing limits, outbox | each request checks first and writes later, query by query | the limit holds; an invitation is used once, and not in vain |
| **Accounts** `services/auth`, `services/account` | users and tokens | reset, verify | outbox | short sequences | a token works once |
| **Status pages** `services/analytics/statusPage*` | rows | manual edits | monitor tables | little | what is shown is what was published |
| **Queries, tRPC, MCP**; **user interface** | none of their own | reads | ClickHouse | none | tests |
| **Tracker** `static/analytics.js` | page timers | engagement time, error rate limit | backend | visibility and navigation events in any order | time is counted once |
| **Initializer, migrations** | schemas | run once | both databases | none | idempotent |

`PROJECT.json` lists every one of them with its status, and under `hazards` the
places in the code, each at its line, where a test would hardly reach.

## 2. Modules and plan

Written, in this order, the most important behaviour first. Every model has an `MC`
module with the model values and symmetry sets TLC needs; proofs about
those marked with a star are in a module of their own, proofs about two that belong
together in one: `Notification_proofs` is about the engine and the writers its
history goes through, `Subscription_proofs` about the subscription row and the
retention that follows from its tier.

1. `EventInserter`*, with the abstract `EventLedger` it implements;
2. `MonitorIncidents`*;
3. `ChannelWriter`*, which the incidents' and notifications' rows go through. The
   two users do not compose it: they have a queue whose rows are inserted in
   order or dropped, which is what `ChannelWriter`'s `StoredOnceInOrder` and
   `NoSilentLoss` promise of it;
4. `NotificationEngine`*;
5. `BillingSync`*;
6. `VisitorIdentity`*;
7. `ReplayRecorder`, the recorder in the browser, and `SessionReplay`*, which
   composes it with the backend: they share the finalize requests on their way;
8. `EmailOutbox`*, which composes the scans, the queue and the handler of letters;
9. `RetentionGrace`*;
10. `DashboardMembers`*.

Next, in this order:

11. `RefreshCache`: full and partial refresh over one map and one watermark, with
    the supervisor of `utils/tasks.rs` in which the two loops run; abstract
    specification: a register that lags by at most one full period. It covers the two
    hazards of the list that no property covers;
12. `RetentionGrace` composed with `BillingSync` over the tier it syncs;
13. the back-off with the SSL milestones, the velocity window, and the tracker's
    engagement clock.

In every module, definitions marked *Fault* are not part of the specification.
Each is one operator with a bug a change of the code could plausibly introduce (a
guard dropped, an off-by-one, two steps swapped), and serves to confirm that a
property notices it. (`Fault` without a colon is a helper that counts a failure of
the environment.)

## 3. The models

### EventInserter (and EventLedger)

One table, one inserter. `channel` is the mpsc channel, `batch` the rows
`run_inserter` owns, `token` the flush in progress and `rejected` its count of
rejections. `flushes`, `blocks`, `rows` and `abandoned` are ClickHouse: each
flush has one deduplication token, the table remembers the tokens of its last
`DedupWindow` blocks, and a request the client gave up on may be executed later,
even after its process was killed. `phase` follows `main`: serving, stopping
(the listener is closed), draining (the last sender is gone), stopped, killed.

| action | code |
|---|---|
| `TrySend` | `try_send` of the processor and the bot recorder; full means a counted drop |
| `Recv` | `rx.recv()`: convert, push, flush when full |
| `FlushRest` | the period elapsed or the channel closed |
| `InsertConfirmed`, `InsertFails`, `InsertRejected` | the outcomes of `try_insert`: done, transient (retry under the same token), rejected (drop at the third) |
| `ShutdownSignal`, `HttpServerStopped`, `DrainComplete` | the shutdown sequence |
| `Killed`, `Restart` | deadline, watchdog, panic of the inserter, SIGKILL; a new process |
| `ServerInsertsLate`, `ServerDrops` | what becomes of an abandoned request |

Assumed: the server executes or drops an abandoned request before `DedupWindow`
(100 in the migrations) further blocks were inserted, and one process at a time
writes the table. With several replicas writing, blocks of the others push a token out of
the window faster; that is not modelled.

`EventLedger` is what a user of the pipeline relies on: events are accepted, whole
groups of accepted events are recorded once, or written off. `ImplementsLedger` maps
`rows`, `accepted` and the three classes of written-off events onto it.

### MonitorIncidents

One check. `incident` is its `MonitorIncidentState`, `tracker` its
`NotificationTimestamps`, `queue` and `table` its rows on the way to and in
`monitor_incidents`. The HTTP runner handles one outcome at a time, and `event` is the
`IncidentEvent` it has in hand. The TLS runner prunes the same maps on another thread, so
that each access of the HTTP runner to one of them is a step of its own, and `pc` says
which one is next.

| action | code |
|---|---|
| `StartProbe` | a tick of the runner |
| `FailureTolerated`, `FailureEvaluated`, `SuccessNoted`, `IncidentResolved` | `evaluate_failure` and `evaluate_recovery`, each under the entry of the check |
| `SnapshotTaken`, `RowEnqueued` | `persist_incident_snapshot`: the evaluator's state, then the tracker's times and the row |
| `AlertDecided` | the settings and `should_notify_down` |
| `DownAlertSent`, `DownAlertFails`, `RecoveryAlertTried` | what becomes of the mail, `mark_notified_down` included |
| `TlsPruneBegins`, `EvaluatorPruned`, `TrackerPruned` | `prune_inactive` of the TLS runner, retain by retain, by ids taken before |
| `PruneInactive` | that of the HTTP runner, between outcomes |

So a prune can leave an open incident in the evaluator's answer and nothing in the tracker,
and a confirmed alert is sent again. `forgotten` is the history of incidents a prune of the
tracker hit while they were open or in the HTTP runner's hands; `DownAlertOncePerRun` allows one
more alert after each such prune, and none otherwise (`MCMonitorIncidentsTwice`, section 6,
shows the repeated one). `Crash` forgets all but the table, `Restart` is
`warm_from_incidents`: several ongoing rows of one check are applied in the order of random
ids, so any of them may win. Probe, mail text, push notifications and SSL alerts are left
out; the listing of the check in the cache is an input.

### ChannelWriter

`queue[w]` holds batches and fences, `inserting[w]` what is left of the batch the
worker holds. `EnqueueRows`, `RecvRows`, `RecvFence`, `ChunkInserted`, `ChunkFails`
are the producer and the worker; a failed chunk may or may not be in the table
and takes the rest of its batch with it. A panic in an insert (`WorkerPanics`) ends the
worker for good: its channel refuses what comes (`Accepts`), and the acks in it are
dropped, which `FlushEnds` takes for an answer, as `flush_all_writers` warns and goes on. `StartFlush`, `RequestFence`, `FlushEnds`
and `DeadlinePasses` are `flush_all_writers` under `SHUTDOWN_DEADLINE`. Producers
go on during the flush. A writer whose channel is full takes no fence and is not
waited for: `AckedIsSettled` speaks of writers that took one.

### NotificationEngine

`notify` for each key at the same time: claim, one send per integration with
retries, the history rows, and giving the claim up if nothing was sent. `historyQueue`
and `history` are the history rows on their way and in the table, `Crash` and `Restart` seed the log
from what is durable. Claims expire after 30 days in the code; time is not
modelled, and the unused cooldown strategy is not either.

### BillingSync

One user. `stripe` is the truth at Stripe, `events` the deliveries to come (each
is delivered at least once, in any order), `row` the Subscription row and
`retention` the tier the retention settings were last synced to. A delivery is a
run `job[h]` of a handler with one action per await: `ReadLocal`, `Retrieve`,
`ListDuplicates`, `CancelDuplicate`, `Verdict`, `Upsert`, `SetStatus`, `Revoke`,
`SyncRetention`; `RunFails` ends it anywhere, and Stripe delivers again. Two functions of
the repository catch a database error and return null, after which the event is answered as
handled and never sent again: `ReadSwallowed`, where the run ends as if there were no
row, and `StatusSwallowed`, where a payment's failure is not written (an `updated`
event of the same change still follows). `UserSyncs` are the same functions started by a
user's request, which nobody repeats. A duplicate is first canceled and then refunded, in two
steps (`CancelDuplicate`, `RefundDuplicate`); because the errors of both are swallowed, either
may happen without the other. `faults`, `overlap` and `unread` (subscriptions with a change
whose read failed, until a run writes their row) are history: properties that only hold of
runs one at a time, without a failure in the middle, or but for a change that was never
read, say so with them. Mails, prices,
currencies, scheduled cancellations and the `pending_update_applied` event are left out.

### VisitorIdentity

One visitor of one site, several requests at the same time on one backend, other
backends in the same database. A fingerprint is named by the salt it is made with
(the hash is taken to be injective). `made` and `salts` are the table, `state` is
`STATE`, `rotation` the background task with one action per statement of
`ensure_state`. `Arrive` reads the salts and starts a rotation if one is due;
`GetCurrent`, `GetPrevious` and `Create` are `get_or_create`. Time passes between
requests: a request ends within a unit, `SESSION_EXPIRY` is two units.

`Restart` is a graceful one. It leaves the cache empty (`NotWarmed`: switched off by the
configuration, or the query failed) or warms it (`Warmed`) with what `active_sessions_query`
may answer. The query reads without `FINAL`: of the `events` of a session some may have been
merged, into a row with the latest `session_end` of them and the fingerprint of any of them
(`Readable`), and of the rows of a fingerprint the one with the latest end is taken
(`LatestSessions`). What was read gets a fresh idle time.

`visit` is history: the session of the visitor's last request, when it was created,
whether it was created with the salt of that day, and whether no start since then
left the cache empty (`warm`). Its `alone` says that no request since then
overlapped another. It has to speak of all of them: after a midnight, of two overlapping
requests the one may find the session under yesterday's fingerprint while the other has
missed it under today's and creates another, and a restart may then warm the cache with
either (three requests and three starts are needed to see it go wrong).

Assumed, as a conjunct of `Tick`: a rotation is over before the second midnight after
its start. Without it one that hangs for two days could insert a salt for a day whose
salt another backend has already pruned, and that day would have had two.

### ReplayRecorder and SessionReplay

One page, one session. Events are numbers in the order rrweb emits them, so that a
gap or a reordering shows. `rec` holds the flags of `initSessionReplay`, with the
number of rrweb recorders that run (`live`), whether the last one can be stopped
(`hooked`) and the number of starts `startRecording` has deferred; `buffer`
(sampled sessions) and `matrix` (the last two segments, for sessions recorded only
around errors) are what waits, `uploads` the uploads in progress.

| action | code |
|---|---|
| `GrantConsent`, `RevokeConsent`, `ScriptRuns` | `setReplayConsent` and the loading of the script in `analytics.js` |
| `Start`, `Stop`, `StopStep`, `Navigate` | the deferred start; `stopRecording` and the rounds of `flushAll`; `handleNavigationChange` |
| `Emit`, `NotifyError`, `ErrorFlush` | `handleRecordingEmit`; `notifyError` and the flush three seconds later |
| `Flush`, `Presigned`, `Uploaded`, `UploadFails` | `flush` and the promises it chains: presign, PUT, finalize, `handleFlushError` |
| `MinDurationPasses` | `hasReachedMinDuration` |

`SessionReplay` adds the backend: `Receive`, `Upserted`, `CacheTotals` are
`finalize_session_replay` before, at and after the await of the upsert, for any
number of requests at once and in any order; requests are lost or refused, upserts
fail, also after they were executed, and the process restarts without its cache.
`crossed`, `lateStart` and `disturbed` are history: two uploads of errors that
overlapped, a deferred start during a stop, a disturbance of the backend. The bytes
of a segment are its events; sampling, masking, compression, the idle and the
maximal duration (each a `Stop`) and a session id that changes during the recording
are left out, and the page does not close.

### EmailOutbox

A letter is a recipient key with a campaign key: the singleton key of its job and
the primary key of its row in `SentEmail`. `scans` are the scheduled handlers that
find what is due: the report, which marks itself as sent at its end, and the scans of
candidates, which come again. `job` is pg-boss: enqueue under the policy
"exclusive", fetch, retry, expiration. `handler` is the handler pg-boss waits for,
`strays` the ones it gave up on, which go on all the same. `Fetch`,
`DispatchEmail`, `RecordSent`, `Return` are the handler with its two queries;
`HandlerThrows`, `Expire`, `Crash`, `ExpireOrphan` and, in the scans, `EnqueueFails`
and `ScanBreaksOff` are what fails. `lapses` counts the handlers of a letter
that were lost between check and record, `swallowed` the recipients whose enqueue
failed in a report.

### RetentionGrace

One dashboard, in days. A tier change is `ChangeTier` (the webhook has stored the
tier), `ReadSettings` (`findOwnerSettingsForRetentionSync` and the patch computed
from what it found) and `ApplyPatch`, two at once; an edit is `CheckEdit` and
`ApplyEdit`; the purge is `StartPurge`, which reads the settings, and `Delete` or
`DeleteFails` per table. `held[t]` is the age of the oldest data of a table.
`chosen`, `lostAt` and `expected` are history, the contract of a user: the last
choice counts as far as the plan covers it or covered it less than the grace
period ago. `clobbered` says that a patch or an edit was written over what it had
not read, `missed` that a sync failed: the webhook is retried, finds the tier
unchanged and does not sync again (which `BillingSync` shows from its side). A day
passes only between the requests, a purge may take several.

### DashboardMembers

One dashboard, its invitations and members, several requests at once; each action
is one query of a request.

| action | code |
|---|---|
| `InviteUser`, `FindInvitation`, `InvitationUnseen` | `inviteUserToDashboard`: is the user a member, is one invited (a failed look-up counts as none) |
| `CountMembers`, `CountInvitations` | the two counts of the limit, which run in parallel and so in either order; the last one decides (`HasSeat`) |
| `CreateInvitation`, `EnqueueInvitation`, `DeleteInvitation` | the row, its mail, and the rollback if that fails |
| `AcceptInvitation`, `FindAccess` | `acceptInvitation` up to its write: the status, then whether the user has access |
| `AcceptAll`, `SkipExpired` | what `acceptPendingInvitations` reads and closes |
| `AddMember`, `AddRefused`, `AddFails`, `MarkAccepted` | adding the member and recording it, one invitation after the other |
| `CloseInvitation`, `MarkClosed`, `RemoveMember` | declining, cancelling, removing, leaving |

Three histories name what the separate queries allow. `raced` are the requests behind one of
whose counts a seat was taken: by another invitation, by accepting one that had ended, or by
one that was accepted after the members and before the invitations were counted, so that its user is
in neither count. `doubled` are the users whose invitation was checked beside another one, beside an
acceptance of theirs, or with a look-up that failed: a user who joins after the member check
and before the look-up ends up as a member with a new invitation. `dropped` are invitations
whose acceptance broke off or whose error was ignored.

## 4. The runs

Every passing run ends with no error and exhausts its instance. `CHECK_DEADLOCK
FALSE` is set where the bounds on starts, sessions, incidents or events end
every behaviour; the outbox, the retention settings and the members never stop, and
are checked for deadlocks.

| run | bounds | states | checks | shows |
|---|---|---|---|---|
| `inserter` | 3 events, one of them unparsable; channel and batch of 2; 3 rejections; window 2; 2 starts | 21 332 | `AtMostOnce` `NoSilentLoss` `DrainContract` `EveryEventSettles` `ImplementsLedger` | no mixture of timeouts, late executions, rejections, kills and restarts stores an event twice or loses one silently; accepted events settle |
| `incidents` | threshold 1, recovery 2, queue 2, 2 incidents, 2 starts, the check may be disabled | 563 438 | `RecoveryConfirmed` `ResolvedRowIsFinal` `DownAlertOncePerRun` `DownAlertEventually` | an incident ends only with two successes in a row, a resolved row is final, a confirmed alert is repeated by the process only after a prune of the tracker that hit the incident, an unalerted one is sent in the end |
| `writer` | 2 writers, capacity 1, batches of 2 in chunks of 1, 4 rows each | 528 652 | `AckedIsSettled` `StoredOnceInOrder` `FlushTerminates` | rows arrive once and in order; an ack means nothing enqueued before is on its way; the flush ends, though workers panic |
| `engine_safety` | 2 keys, 2 integrations, 2 retries, history queue 1, 2 starts | 9 173 | `NoLeakedClaim` `OncePerRun` `DurableIsFinal` | what was delivered is not delivered again by the process, nor after a restart if the row is durable; a failed call leaves no claim |
| `billing` | 2 handlers, 2 subscriptions, 2 twists (changes at Stripe, failures, swallowed errors, redeliveries, user's runs, together) | 2 330 245 | `TypeOK` `EntitlementFollowsStripe` `RetentionFollowsTier` `OneLiveSubscription` | one at a time, runs leave the entitlement Stripe is paid for, in any order and repeated, but for a change whose read failed; overlapping ones never leave two live subscriptions |
| `billing_doubled` | 1 handler, 2 subscriptions, no twist | | `RefundedIsNotProvisioned` (violated) | the canceled and refunded duplicate is provisioned over the survivor's row |
| `identity` | 2 requests, days of 3 units, 6 units, 3 sessions, 1 failed rotation, 3 starts | 2 455 455 | `OneSaltPerDay` `OldSaltsGone` `ActiveVisitorKeepsSession` `NoSessionComesBack` | over two midnights: one salt per day, old ones gone, an active visitor keeps the session across rotations and restarts whatever rows a start reads, and one that gave way does not come back |
| `replay` | 2 events, 3 turns (navigations, consent, stops, errors), 2 faults, 2 failed flushes to give up, 2 tasks of the backend | 178 447 | `TypeOK` `NothingSkipped` `OneRecorder` `RowTotals` `UploadedIsFinalized` `StopCompletes` | nothing is skipped on the way to the bucket, every stored segment is finalized, one recorder runs, stops end, and rows show what was received |
| `replay_revoked` | same | | `RevokedIsRespected` (violated) | after consent is revoked the recorder starts all the same |
| `outbox` | 1 recipient, 1 candidate, 1 retry, 2 scans at once, 2 faults | 117 164 | `TypeOK` `DuplicatesHaveACause` `SentReportIsEnqueued` `CandidatesAreMailed` | a letter is sent twice only for a handler that was lost, a report that counts as sent was enqueued for all, a letter that stays due is sent |
| `retention` | plans of 1, 2 and 3 days, grace of 2, 2 tables, 2 syncs, 1 purge, 3 days, 3 tier changes and edits, 1 failure | 356 039 | `RetentionTypeOK` `ExpectedIsHeld` `SettingFollowsPlan` `TablesArePurged` | nothing is purged that the user may count on, the setting follows choice and plan through chains of changes, and purges catch up |
| `members` | 3 users, 2 seats, 2 requests, 2 invitations, 1 fault | 2 785 112 | `LimitIsKept` `MembersHaveNoInvitation` `AcceptedMeansJoined` | who accepts, is removed or is refused leaves no invitation to come back with, and an invitation is created within the limit, unless queries of two requests came in between each other |

The type invariants of `EventInserter`, `MonitorIncidents`, `ChannelWriter`,
`NotificationEngine`, `VisitorIdentity` and `DashboardMembers` are proved (section 5) instead of run;
so are `NoSilentLoss` of `ChannelWriter`, `BatchClearedOnlyWhenSettled` and
`RotationNotStuck`.

**Why the bounds are enough.** Two of everything that competes: two incidents of a
check, writers, keys, integrations, handlers, subscriptions, requests, scans, syncs,
uploads, tasks; two starts, so that a crash is followed by a full life; queues of one
or two, so that they are full often. The inserter's window of two is the smallest in
which another block can come between an execution and its retry, and three events
make two batches. The incidents' threshold is one, since a failure below the
threshold changes nothing but a counter. Two midnights are the least after which a salt must be gone; a day
of three units exceeds the expiry; three starts are two restarts of one session, of which
the second may find what the first one filed. A plan with two seats for three users is the
least in which a user is accepted while another one is invited and a seat is
still free. Two twists allow, for example, a plan change and a
failed run that races it, or a payment that fails and recovers while its events
are still on their way. Three turns of a recorder are a stop, a navigation and what
comes between them, two events the one that is uploaded and the one recorded
meanwhile; two failed flushes both put a chunk back and give up. Three plans are the
least with a partial upgrade, three changes a downgrade, an upgrade and what
interferes with them. Two faults are a lost handler and a failure of its retry, which
uses up the one retry. The outbox has one recipient: that a report whose scan breaks off
between two recipients does not count as sent is covered by the proof alone, which is for
any recipients.

**Fairness.** `inserter`: the inserter task is scheduled (weak fairness on `Recv`,
`FlushRest` and `DrainComplete`: tokio runs a ready task), and ClickHouse does not fail
transiently for ever (strong fairness on a confirmed or rejected attempt: the loop retries
without a limit). `incidents`: the runner and the writer's worker are scheduled
(weak), and the mail provider does not refuse for ever (strong on `DownAlertSent`).
No fairness on failures of probes: the property allows that the incident is
resolved instead. `writer`: each worker and the flush are scheduled (weak);
producers are not, nor need they stop. `replay`: a fetch of the recorder is answered
or fails, its timers fire and the script it loads runs (weak on each). `outbox`: the
scans of candidates are scheduled again and again by pg-boss, and one of their slots gets free
again and again (strong on the start of one, since another scan may hold the slot),
what a handler or scan awaits ends, and workers fetch what is queued (weak). `retention`:
purges are scheduled every week and their queries end, as do those of syncs and
edits (weak). The other modules check safety only.

## 5. What is proved

With TLAPS, for every value of the constants that satisfies the named assumptions.
Every property was checked with TLC before it was proved.

`EventInserter_proofs`: the types, `AtMostOnce`, `NoSilentLoss`, `DrainContract`,
`BatchClearedOnlyWhenSettled` and the refinement of `EventLedger`. The properties
are not inductive alone. The invariant `IInv` adds that an event is in one place only
(`HeldInv`); that a flush owns its rows for good, so that no two flushes share one
(`FlushInv`); that `rows[e]` is one exactly if a flush with `e` was executed
(`CountInv`); and the heart of it, `WindowInv`: if the flush in progress was
already executed, the server still remembers it. That holds because blocks inserted since its
start belong to older flushes, each executed late within the window of its *own*, earlier
start. Assumed are `InserterAssumption` and the guard of `ServerInsertsLate`.

`MonitorIncidents_proofs`: the types, `RecoveryConfirmed`, `ResolvedRowIsFinal` and
`DownAlertOncePerRun`, for any thresholds, queue capacity, incidents and starts.
`IncidentInvariant` adds that the successes counted were in a row (`Streaks`); that what the
HTTP runner has in hand is what the evaluator holds, unless it was pruned (`EventInHand`); that
the tracker remembers a confirmed alert of every incident it may still be asked for, unless
a prune hit it (`Remembered`); and that no snapshot "ongoing" waits behind
one of the same incident that says "resolved" (`RowOrder`), nor does any row of an
incident that is open, or about to be stored as such, say so (`LiveIsOpen`).

`Notification_proofs`, of `ChannelWriter`: the types, `NoSilentLoss`, `AckedIsSettled` and
`StoredOnceInOrder`, for any writers and sizes. Per writer (`WriterOK`): the table, the
batch in progress and the channel, one after the other, list rows in the order in
which they were offered; each row is in one of them or was warned about; and behind
a fence, or anywhere after its ack, there are only rows offered after it. A worker that
panicked holds nothing, and takes nothing any more.

`Notification_proofs`, of `NotificationEngine`: the types, `NoLeakedClaim`, `OncePerRun` and
`DurableIsFinal`. `EngineInvariant` says that a key is claimed as long as anything
knows of a push of it (an open call, a confirmation, a queued row, a row the process
was seeded from), and that a call is only open for a key that was not.

`VisitorIdentity_proofs`: the types, `OneSaltPerDay`, `OldSaltsGone`, `RotationNotStuck`
and `ActiveVisitorKeepsSession`, for any number of days, requests, failures and starts.
For the salts the difficulty is that what a
backend holds outlives the rows it was read from. `SaltInvariant` says that the
table has one salt per day (`Unique`), and that what a backend holds, or has read
and not yet stored, is `Sound`: its current salt is either in the table or more than a day old, so
that no rotation, being at most a day late (`Timely`), inserts its day anew.
`VisitInvariant` is about the session. Every salt ever made is the only one of its
day and, if of today or yesterday, in the table (`SaltsInOrder`); hence what a rotation is about to store
is never older than what is held and keeps the salts of both days (`StoresNewer`), and no
request or entry has a newer salt than the backend (`NoneNewer`). The visitor's last
session is the last to expire, in the table and, unless a start left it empty, in the cache
(`LastToGo`), and a request that is alone works on the cache it
found (`AloneIsAlone`). As long as the session is `Young` there is a salt c, that of the day
of its creation, of which `KeptUnder` says: the backend and every request that is alone have it
as their current or previous salt, no entry of the session is under an older one, and whatever
is under a newer one is of this session. `AloneFinds` draws the conclusion: one of the two
look-ups finds the session and none finds another, although after a restart an older
session may be filed under c itself. `WarmedFields` is what all of it needs of a warm-up: what is
read of a session is filed under a fingerprint of one of its rows, however they were merged,
and the latest session is read.

`Subscription_proofs`, of `BillingSync`: the types, `EntitlementFollowsStripe`,
`RetentionFollowsTier` and `OneLiveSubscription`, for any handlers, subscriptions and changes.
`BillingInvariant` has two parts. Whatever overlaps and fails, `DuplicatesAreResolved`: of
two live subscriptions the younger still has its checkout event, or a run of it that has the older one
among the duplicates it will cancel, unless a cancel was lost. And as long as runs
were handled one at a time, `HandledAlone`: a row or a retention tier that is behind has
an event that will bring it up to date, or the one run is about to, or its change was
never read (`unread`).

`Subscription_proofs`, of `RetentionGrace`: the types, `ExpectedIsHeld` and
`SettingFollowsPlan`, for any plans, grace period, tables, syncs and purges.
`RetentionInvariant` follows each number of days d that the user chose (`KeptDay`): the setting, the
grace period of the day the plan stopped covering d, or a sync under way keeps it, as long as
nothing was written that no longer held and no sync failed (`Clean`). What a
sync read is current as long as no other write intervened (`PatchesAreCurrent`), and a
purge that goes by old settings deletes nothing that is expected, because its cutoff ages with it.

`SessionReplay_proofs`: the types, `NothingSkipped`, `OneRecorder`, `RowTotals` and
`UploadedIsFinalized`, for any number of events, turns, faults and tasks. `Data` is said
of a buffer and a matrix given as arguments, because some handlers record an event
and flush in one step: the lemmas for recording (`SampledEvent`, `OnErrorEvent`) and
for flushing (`FlushKeeps`) are then composed. `InOrder` says that the upload in
progress and the buffer end with the last event and that all before them is in the bucket;
`Backed` what an upload relies on for its finalize request (it is identified; an error is
pending, or the minimal duration has passed); `FlagsOK` that a recorder which
is being stopped has halted rrweb. `TotalsInvariant` says that, undisturbed, one task at most
works, that cache and row agree while none does, and that each total ends no earlier
than the row it replaces, which is why the replacement always wins.

`EmailOutbox_proofs`: the types, `DuplicatesHaveACause` and `SentReportIsEnqueued`, for any
letters, scans, retries and faults. Duplicates are a matter of counting: `Counted` bounds the
mails that are out together with those that handlers past their check may still send
by one more than the lost handlers, and by their number alone when neither an active
handler nor the row of `SentEmail` keeps the next one from being added.

`DashboardMembers_proofs`: the types, `MembersHaveNoInvitation`, `AcceptedMeansJoined`
and `LimitIsKept`. `MembersInvariant` says that, unless its checks came in between
those of another request, a user is one thing at a time (`PendingOutside`, `CreatingAlone`,
`OneOpen`): a member, about to be invited, or the user of one invitation that can still be accepted.
`CountsHold` is about the limit. What a request has counted is no less than what there
is of it, unless a seat was taken behind the count. If the members are counted first, an
invitation accepted before the second count is in neither (`Missing`); if the
invitations are, one accepted later moves its user to the count that is still to come, and is at
worst counted twice. A request that may create (`CreatingHolds`) has then a seat left, since the sum it
compared is no less than the number of those seated.

**Only model-checked.** Liveness (`EveryEventSettles`, `DownAlertEventually`,
`FlushTerminates`, `StopCompletes`, `CandidatesAreMailed`, `TablesArePurged`), since
fairness and ENABLED are out of the prover's reach, and `NoSessionComesBack`. Every
other property of a passing run is proved. No module uses recursion, and no theorem needs induction
over data.

## 6. Findings

Two places where the code does something else than its documents or comments say,
each with a run whose counterexample shows it:

* `billing_doubled`: the duplicate that was just canceled and refunded gets
  provisioned, because with one live subscription left the verdict is `keep` whichever
  subscription the event is about.
* `replay_revoked`: `setReplayConsent(false)` reaches a running recorder only. While the
  script loads, while a start is deferred, and at the next navigation, the recorder
  starts without asking for the consent again.

Further disagreements, each a property stated in its module and a configuration
beside it (`tlc -config X.cfg M` reports the violation):

* `MCMonitorIncidentsReopen` (`ResolvedIsNeverReopened`): `incident/evaluator.rs` says a
  resolved incident's id is never used again; a crash before its row is durable
  brings it back.
* `MCMonitorIncidentsUnmailed` (`NotifiedMeansMailed`): the notification time persisted with
  an incident is that of the check, so after a restart an incident that was never
  mailed counts as notified.
* `MCMonitorIncidentsTwice` (`ConfirmedIsNotRepeated`): the notification tracker "tracks
  notification state to prevent duplicates" (`backend/src/monitor/alert/notification_tracker.rs:26`); the TLS
  runner's prune, between the HTTP runner's evaluation of a failure and its
  `should_notify_down`, makes it send a confirmed alert again.
* `MCChannelWriterDurable` (`AckedIsDurable`): "durable once acked" does not hold for a
  batch that failed.
* `MCBillingSyncConcurrent` (`ConcurrentSyncsAreSafe`): "Idempotent so concurrent calls are
  safe" does not hold: of two overlapping syncs the one with the older state may write last.
* `MCBillingSyncDropped` (`NoRetryWouldFix`): an event is answered as not worth a retry for a
  "failure that no Stripe retry can fix (missing metadata, config drift, orphaned
  subscription)" (`dashboard/src/lib/exceptions.ts:12`); a failed read of the row is taken for an
  orphaned subscription, and the row stays behind Stripe.
* `MCVisitorIdentitySplit` (`SessionsEndByIdlenessOnly`): a session ends without idleness
  when the day before had no events.
* `MCDashboardMembersExpired` (`ExpiredCanBeInvitedAgain`): the page of an expired invitation
  tells the user to ask for a new one, but `findInvitationByEmail` does not look at
  `expiresAt` and nothing calls `markExpiredInvitations`, so the owner is told
  that an invitation is pending until somebody cancels or opens the old one.

Properties that hold only with an exception name it, and the exception is then what
the code can get wrong: `lateStart` and `crossed` (a start during a stop, overlapping
uploads of errors), `clobbered` and `missed` (overlapping changes of a plan, a sync
that failed), `raced` and `doubled` (queries of overlapping invitations and acceptances),
`forgotten` (a prune that overtakes a failure), `warm` (a start that leaves the session cache
empty), `unread` (an event dropped for a failed read), `swallowed` (a failed
enqueue of a report), `lapses` (a lost mail handler), `overlap` and `faults` (webhooks).

## 7. Not modelled, and why

Reads without state (queries, tRPC, MCP, user interface), functions of strings
(parsers, sanitizers), file and network I/O (GeoIP, probes, object store), schemas
run once, and metrics. Caches, supervisor, back-off, SSL milestones, velocity windows and the
tracker are planned (section 2). Accounts and status pages are short database
sequences that come after them. Most of the repository's lines are of these kinds
(user interface, translations, SQL, and the rrweb library bundled in the first 8210 lines of
`static/replay.js`), so that the models stand for a small share of all lines and for
most of those whose order matters.

In the modelled parts: schema validation and TTL policies of the ingest tables, other
replicas that push a token out of the deduplication window, alert layout, the 30 day
expiry of claims, the writer whose full channel takes no fence (`AckedIsSettled`
speaks of those that took one), a session that rolls over during a recording, roles and
permissions of members and a plan that shrinks below the members there are, the time windows of
onboarding letters, and what each model's section above leaves out.
