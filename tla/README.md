# Verification of Songhive

Songhive is a self-hosted music server: a web API with its database, Celery
workers, a stream worker that renders server-side outputs, federation, payments
and a web client. This directory holds TLA+ models of the parts of it whose
correctness depends on the order in which several processes act, the TLC
configurations that check them, and TLAPS proofs about them.

Check a configuration with `tlc -config StreamLock_lock.cfg MCStreamLock.tla`,
the proofs with `tlapm StreamLockProofs.tla`. `PROJECT.json` lists the runs, the
mutants that show that each property can fail, the source lines behind every
definition, the hazards and the theorems.

## 1. The system

Processes share a database (SQLite or PostgreSQL through SQLAlchemy, one
transaction per request or task, no row locks or version columns), Redis (locks,
lists, streams), Celery's broker, and remote parties (the payment provider,
other servers, storage services).

| Component | State it keeps | Operations | What is hard | What makes it correct |
|---|---|---|---|---|
| Stream worker, output ownership (`streams/worker.py`) | Redis lock with TTL, tasks per output | scan, claim, refresh, release, reap, shut down | lock commands that are not atomic, iterations that outlive the TTL, crashes | one driver per output; orphaned outputs are driven again |
| Playback session and driver (`services/playback.py`, `streams/worker.py`, `streams/icecast.py`) | session row, control list, driver fields, decoder and encoder processes | API commands, drain and replay, advance with retry, broadcast takeover and return, reload | commands, track ends, retries and broadcasts in any order; failures halfway | the driver does what the row says; a track's end moves the queue once; a broadcast owns the mount while it is on air, and gives it back |
| Live ingest (`streaming/live.py`, `streams/live.py`) | claim key, ingest stream, write queues, tasks of a connection | claim, chunk, refresh, stop, clean up; poll and feed of the worker | takeover by a reconnect, a close racing its own start, cleanup and refresh, dead processes | a broadcast that is refreshed keeps its claim; the mount is given back; one who is alone is heard |
| Purchase orders (`services/payments`, `tasks/payments.py`, `api/routes/payments.py`) | order, entitlement, event inbox, outbox | checkout, webhooks, expiry and reconcile sweeps, mail outbox, refund | duplicated, lost and reordered webhooks, stale reads, crashes between a call and its commit | access is granted once, only for money, and not left after a refund; payments settle |
| Membership (`services/payments/membership.py`, `webhooks.py`, `users/manager.py`) | user flags, subscription row, `paid_through` | checkout, renewal, cancellation, suspension, webhooks, sweep | events out of order, tasks that have read the user before | a suspension wins; what was paid is known; who has not paid is out in the end |
| External libraries (`external/sync.py`, `external/watchdog.py`, `tasks/external_libraries.py`) | items and their tracks, sync runs, Redis lock, watch windows | manual, scheduled and watched syncs; edits, write-backs, tombstones | a sync between an edit and its write-back; refused and abandoned runs; a lock that expires | edits survive; the library shows what the item says; changes are found; one sync at a time |
| Downloads (`tasks/downloads.py`, `services/downloads.py`) | archives, leased slots, the shared stored file | request, build, sweep, delete | slow builds against the sweep, lost tasks, equal archives sharing a file | an archive ends; a ready one can be downloaded; builds stay within their slots |
| Follows, federation and moderation (`services/follows.py`, `services/moderation.py`, `tasks/federation.py`) | follow rows, followers, held requests, blocks | follow, undo, accept, reject, block, suspend, deliver, receive | messages lost, repeated and reordered; two stores that commit apart | both sides agree when all is quiet; blocks hold; nothing is accepted ungranted |
| Guest redemption (`services/payments/fulfillment.py`) | capabilities, counters | redeem, refresh, archive | counters read and written without a lock | a link works as often as it may |
| Remote content, podcasts, scrobbling, webmentions, notifications | caches, queues | fetch, submit, notify | retries and duplicates | best effort |
| Library, sharing, moderation, users, statistics, Subsonic, CLI | rows | CRUD in one transaction | little concurrency | predicates over rows |
| Web client (`frontend/`) | stores | requests, reconnects | optimistic state | converges to the server's |

Interactions: the API commits a session and pushes a command onto a Redis list;
the worker drains the list, applies the commands to the row again, and drives
ffmpeg; decoders report their end through the driver's queue. A broadcaster's
WebSocket handler sets the live key and feeds a Redis stream that the worker
polls and the decoder reads. The payment routes and webhooks write inbox rows
and queue tasks; sweeps repair what webhooks missed. The full list of
components, with what is left out and why, is under `components` in
`PROJECT.json`; every hazard found, at its line, is under `hazards`.

## 2. Modules

| Module | What it is |
|---|---|
| `ExclusiveOutput` | abstract: at most one renderer of an output |
| `StreamLock` | workers, the Redis lock, a driver's life; implements `ExclusiveOutput` |
| `StreamLockProofs` | theorems about `StreamLock` |
| `PurchaseRight` | abstract: the right to purchased tracks against the money paid |
| `PurchaseOrder` | one order from checkout to refund; implements `PurchaseRight` |
| `PurchaseOrderProofs` | theorems about `PurchaseOrder` |
| `SessionDriver`, `SessionDriverProofs` | one session with its driver, in charge of one output |
| `LiveClaim` | abstract: who has the mount of a broadcast |
| `LiveIngest`, `LiveIngestProofs` | the connections of a broadcaster, the claim, the feed and the worker's reader; implements `LiveClaim` |
| `FollowHandshake`, `FollowHandshakeProofs` | one follow between two users, on one server or two |
| `ExternalTrack` | one file at a provider and the track made of it |
| `ExternalSync` | the syncs of one library: lock, runs, watchdog, schedule |
| `ExternalLibraryProofs` | theorems about both |
| `Membership`, `MembershipProofs` | one account that has to pay |
| `DownloadArchive`, `DownloadArchiveProofs` | the archives of one selection, and the file they share |
| `MC...` | instances for TLC |

Two pairs of modules meet at a state they share. `SessionDriver.key` and `over` are
what the worker sees of `LiveIngest`. `LiveClaim` says how they move: a connection
claims the mount once, keeps it until a newer one takes it over or its broadcast is
over, and loses it after that. It is proved of both modules: `LiveIngest`
implements it, with `Over` (whoever is not refreshing the claim, nor about to) for
`over`, and the broadcasts of `SessionDriver`, its actions `Claim`, `Disconnect` and
`Release`, are its three steps with the connections numbered in the order of their
claims. `SessionDriver` lets a broadcast's feed end at any time, also while its
connection goes on, which covers every reason `LiveIngest` has for it, and assumes
that it ends once the broadcast is over and that the claim then goes. The other
pair: `ExternalTrack`'s sync of one item is what each sync of `ExternalSync` does for
every item it lists. Both are extended by `ExternalLibraryProofs`, for which
`ExternalSync` names its specification `SyncSpec`, its types `SyncTypeOK` and so on.

In every module a transaction that reads, waits and commits is two or more
actions, and what it writes is what SQLAlchemy writes: the columns that differ
from what was read, over whatever is there by then. Accidents (a failed request,
a lost message, a dead process) are counted against a bound on faults. Variables listed
under "History" change nothing; they record that a named gap was entered, and let
a property say exactly when it holds.

### StreamLock

`lock` and `ttl` are the Redis key and its time to live. `pc[w]` is the point
that worker w's `SessionDriver.run` has reached for this output, one value
between any two Redis commands, so that `RefreshGet`/`RefreshExpire`/
`RefreshSetNX` and `ReleaseGet`/`ReleaseDelete` interleave with everything else.
A driver's token is random and used once; since a worker runs one driver per
output and a new one starts only after `SET NX` found no key, the worker's name
stands for it. `Tick` is time: the key ages, and `age[w]` counts the ticks since
the driver wrote the key. A normal iteration takes at most `MaxAge` ticks; what
exceeds it is counted in `late`, so the properties can say how much overrun they
tolerate. `Fault` covers Redis and database errors (with the command applied or
not), provider errors, crashes and shutdowns.

### PurchaseOrder

One order with one entitlement (an order's items are granted and revoked in the
same loop of the same transaction). A task is two steps: `Begin...` reads, the
matching `Commit...` writes the columns the task changed over whatever is there
by then, which is what SQLAlchemy does without locks. Webhook events are raised
by the provider (`emitted`), stored and acknowledged by `ReceiveWebhook`, queued
and processed by tasks in any order, more than once. `clock` tells a fresh order
from one past the grace and past its lifetime, which is all the sweeps look at.
Failed and pending inbox rows are treated alike by the code and are one value.
At most one instance of each sweep runs at a time.

### SessionDriver

| State | Code |
|---|---|
| `sess` | the `PlaybackSession` row: state, index, repeat and shuffle mode |
| `api` | a request between loading the row, committing and publishing |
| `control` | the Redis list of commands |
| `key`, `over` | the live key; broadcasts whose connection has closed |
| `conf` | the output's committed edits, and whether one is uncommitted |
| `pc`, `task` | the point of `_main_loop`; an open transaction of the worker |
| `mem` | `SessionDriver`'s fields: `_active_track_id`, `_live_ingest_id`, `_resume_after_live`, the advance retry |
| `pipe` | the driver object: source, paused, whether the decoder has ended (`dead`), whether its task holds an exception (`stuck`), whether `source_ended` events of the current or an earlier generation wait, the event kept for a retry |

The worker's loop is one action per step of `_main_loop`, and each handler that
opens a transaction is split where it commits, so API commands, broadcasts, track
ends and encoder restarts fall between its read and its write. Commands drained
in one settle window form one batch (`TakeCommands`, `FinishBatch`). The number of
a decoder's generation is abstracted to "current or not", which is all the code
asks. `credit` (in `pipe`), `want`, `hit` and `broken` are history: how many ends of
the decoder may still move the queue (-1 once it moved without one), the last command
and its outcome, the failures that have happened, and whether a broadcast was cut
into. Replacing the decoder takes the credit away, except that an encoder's restart
leaves it to an advance that has read the row already.

Abstractions: a queue of fixed, distinct tracks, so that an index is a track; no
positions; a session has shuffle or a repeat mode, not both; seek, prev, volume
and control hand-over are left out (prev and seek take the same paths as next
and play_at, volume touches no other state); the driver always has a session and
the session its output; the idle stop belongs to `StreamLock`. A decoder that
cannot be started (`SpawnFails`) fails at any time after it was asked for, which
includes at once. `Faults` selects the failures of a run.

### LiveIngest

`pc[c]` is the point a connection's handler has reached: opened, claiming,
claimed, live, cleaning up, done. `key` is the claim in Redis, `log` the ingest
stream with start, chunk and end entries, `queue[c]` the handler's write queue,
`tasks[c]` its writer, refresh and meta tasks, `sock[c]` and `closing[c]` the
socket. `feed` is the worker's reader: whose start entry it follows, how far it
has read, how many chunks it has played. Each await of the handler on Redis is a
boundary between two actions (`Start`, `Supersede`, `Announce`; `SocketCloses`,
`CleanupEnd`, `Release`). A key expires only when no refresh task keeps it.

The model shows three things the code does that its comments do not say. Chunk
entries carry no ingest id, so chunks of a superseded connection still under way
are played as the newer one's. The end entry is written before the writer has
drained its queue and the claim outlives it by up to 2 s, so late chunks are
dropped and the worker's poll may take the ended broadcast over once more. And a
socket that goes while `_handle_start` awaits Redis is cleaned up before there is
anything to clean: the tasks start afterwards and refresh the claim until a newer
connection takes it over, although `streams/live.py:8-9` has it "refreshed while
the broadcaster's socket is open". `MountIsGivenBack` is therefore about handlers
that end.

### FollowHandshake

The follower's server has the row, the target's server a follower or a held
request, in a store that commits separately even when both live on one server
(`local`). `asking`, `leaving`, `task`, `deciding` and `cutting` are requests and
tasks between their first step and their commit; `mail` is what is on its way, in
no order. `smooth` turns false with the first accident (a fault, an overtaking, two
requests at once), `raced` when a record was stored across a block.

### ExternalTrack and ExternalSync

A value in `ExternalTrack` names the edit that made it, so that the model can
tell whose edit a track shows. `run` is what a sync has read of the item before
it asks the provider; `writing` what a write-back task has read; `flagging` the
time between an edit's two commits. `ExternalSync` abstracts items to changes on
disk, each shown by the catalogue or not: a task has a scope (everything, a
directory, or what is newer than the window) and `sees` what its listing showed.
`missed` collects the changes that slipped through a named gap.

### Membership

`sub` is the truth at the provider, `row` what the webhooks have told, `inbox`
the events not handled yet, `cancels` queued cancellations, `job` the task or
sweep between its read and its commit with what it read. Time is counted in
periods.

### DownloadArchive

All archives are of one selection, so their ZIPs are equal and `StorageService`
keeps them as one file: `stored` is its row, `bytes` its content, `file` the
archives that refer to it. A lease may end while its build runs; `overrun`,
`crossed` and `shared` record the three named gaps.

## 3. What the runs show

| Run | Bounds | Shows |
|---|---|---|
| `lock` | 2 workers, TTL 3, 2 ticks of overrun, 1 fault, fairness | the workers implement `ExclusiveOutput` up to the step at which overruns outlive the TTL; releases delete only the own key until then; overlaps end; attached outputs are driven, detached ones fall silent |
| `orders` | 3 provider events, 1 task beside the sweeps, 1 fault, 2 mail attempts | the order implements `PurchaseRight`; a refunded order gives no access; paid orders were granted; a sent mail's link works; payments settle without webhooks; mails end |
| `driver` | 2 tracks, 1 command or edit, 1 track end, 1 broadcast, 1 failure of any of 11 kinds, fairness | what a command paused stays paused; the driver comes to follow the row; ended decoders are replaced; an undisturbed broadcast gives a playing queue back |
| `driver_advance` | all repeat modes, 1 command, 1 track end, 2 broadcasts, 2 failures (a failed transaction repeats freely) | a track's end moves the queue at most once; a broadcast on air is what the decoder plays, and one that is over is not |
| `live` | 2 connections, 1 chunk each, queue of 1, 1 fault, fairness | the handlers implement `LiveClaim` (a refreshed claim is not deleted, a broadcast that is over does not come back); the mount is given back; two do not go on broadcasting; one who is alone is heard |
| `follow` | 2 follows, local and remote, 1 fault, fairness | when all is quiet and went smoothly the two sides agree; blocks hold; nothing is accepted that was not granted; a pending follow is answered or held |
| `track` | 2 kinds of provider, 3 values, 1 fault, fairness | an edit outlives the syncs and write-backs it races with but for the named gaps; the library shows what the state says; a file that stays is taken over |
| `sync` | 2 changes in 2 directories, 2 tasks, 1 fault, fairness | syncs exclude each other while the lock lives; the watchdog loses nothing but through its gaps; the schedule finds the rest |
| `membership` | 1 subscription, 2 periods, 1 fault, fairness | a suspension holds; what it should stop is cancelled or queued; the row knows every paid period; who has not paid is out in the end |
| `download` | 3 archives, at most 2 active, 1 slot, 1 fault, fairness | both limits hold but for their gaps; what is ready can be downloaded; every archive ends |

The bounds are small because the hazards are: two workers and one expiry make an
overlap; each payment hazard needs two tasks with one event between their reads
and writes; a sync that crosses an edit needs the provider's value before, the
user's and one after; a shared file needs one archive being deleted, one being
built and one that is ready; a takeover needs two connections. Every cap is named
in the module's CONSTANTS and only stops the environment (commands, track ends,
broadcasts, follows, edits, faults), never the program. The
theorems of section 4 have no bounds. A second subscription, which needs several
minutes, is left out of `membership`'s configuration: with `MaxSubs = 2`,
`MaxTime = 0` and `MaxFaults = 0` (2.8 million states) its four properties hold as
well. No run checks a type invariant: they are proved, for every component.

Two runs check a statement of the repository that the code does not keep; each
property quotes it, and `findings` gives the lines:

| Run | The code |
|---|---|
| `orders_out_of_order` | a refund event processed before the checkout's finds no order by payment id and is dropped; the order is then granted |
| `sync_stuck` | a manual sync that is refused because another runs leaves its run queued without a task, and the schedule skips the library for ever |

Further disagreements met while modelling are in the models and excluded from the
properties by name, without a run of their own:

* the expiry sweep overwrites an order that was paid after it was read, and no
  sweep re-drives inbox rows whose task was lost or failed;
* the worker applies pause and stop a second time, over later commands; a
  reconnecting broadcast forgets that the queue is to resume; a decoder that could
  not be spawned blocks every later swap, the silence generator included; retries
  of an advance that run out pause the driver even under a broadcast; the reload of
  an edited output is announced before the edit is committed
  (`services/outputs.py:350`), and a reload whose start fails leaves a driver
  without an object until the next edit;
* a conflict leaves `write_back_pending` for a write-back that nothing enqueues,
  and a tombstoned item that a sync revives in conflict is active but not in the
  library;
* a cancellation that fails in its task is swallowed, so billing goes on until
  someone looks;
* a build that is merely slow commits `ready` after the sweep has failed its
  archive; an archive that takes over a file which is being deleted is ready
  without it.

"Running more than one [worker] is safe" needs iterations shorter than the lock's
TTL (`OneDriverUntilOverrun` states the bound; a remote file spilled to disk by
the driver, a slow provider or a stalled database counts). And an output stopped
as idle is started again by the next scan while it stays attached.

### Fairness

* `StreamLock`: time passes; a live event loop runs its tasks and scans at its
  interval; a supervisor restarts the process (Compose or systemd). Nothing is
  assumed of users.
* `PurchaseOrder`: beat schedules the sweeps, tasks end, the grace passes. No
  delivery of webhooks is assumed.
* `SessionDriver`: the loop does not block for ever (its waits have timeouts); it
  comes round every 0.1 s, so a retry or live poll that keeps being due is not
  passed over every time (strong fairness of `RetryAdvance` and `PollLive`, whose
  deadlines are abstracted to a choice); a request is served to its end; a closed
  connection's clean-up runs or the key's TTL ends; a feed's end is read.
* `LiveIngest`: coroutines and the worker's loops go on; a socket that was asked to
  close closes; a key past its TTL expires; the worker is restarted. No browser has
  to stop, disconnect or send.
* `FollowHandshake`: requests and deliveries that have started end; nobody has to
  decide a held request.
* `ExternalTrack`: the library is synced again and again, and the sync of an item
  ends. `ExternalSync`: the schedule's scan keeps coming, a request that has
  committed its run sends it, syncs take their steps, and a lock's hour ends.
  Nothing is assumed of the watchdog.
* `Membership`: the sweep keeps coming (strong fairness: it is a beat task that
  waits for a worker no other task holds for ever), and a task that has read
  commits. No webhook has to arrive.
* `DownloadArchive`: a request ends and the sweep comes every hour; nothing is asked
  of the broker and the workers.

CHECK_DEADLOCK is off where a bounded environment may run out: an order, a
membership, a follow, an archive or a broadcast may come to its end.

## 4. What is proved

Every theorem is for all values of the constants (any number of workers, tasks,
archives, connections, edits and faults) and rests on the named assumption about
their types alone. The property is seldom inductive; the table gives what has to
be added.

| Module | Theorems | The inductive invariant |
|---|---|---|
| `StreamLockProofs` | `TypeCorrect`; `OneDriver`; `ReleasesOwn`; `Exclusive` (if `MaxAge + MaxLate < LockTTL`); `ExclusiveUntilOverrun` | `LockInv`: a driver in charge wrote the key at most `MaxAge + late` ticks ago and, while that is less than the TTL, owns the key with at least `LockTTL - age` ticks left |
| `PurchaseOrderProofs` | `TypeCorrect`; `Implements` (`PurchaseRight`); `RefundRevokes`; `PaidIsGranted`; `SentMailsWork` | `TypeInv`, `ProviderInv` (what the provider reported has happened and is not undone), `GrantInv` (a payment id is on record only with its grant, and a task that found an order by it runs after that) |
| `SessionDriverProofs` | `TypeCorrect`; `AdvancesOnce`; `BroadcastHeard`; `BroadcastLeaves`; `ClaimsAgree` (`LiveClaim`) | `SessionInv`: an advance under way, or a kept event whose queue has not moved, is backed by an end of the current decoder (`CreditKept`), while a broadcast counts as on air no advance is under way or kept (`AirKept`), a driver that is not up has no transaction (`StartsIdle`), the commands waiting were counted (`Counted`); `HeardInv`: only a decoder that failed to spawn is stuck; `NumberInv`: broadcasts are numbered by their claims |
| `LiveIngestProofs` | `TypeCorrect`; `Implements` (`LiveClaim`) | `RefreshInv`: a refresh task runs only between its handler's start entry and its cleanup; `ClaimInv`: a claim names a connection that will not claim again |
| `FollowHandshakeProofs` | `TypeCorrect`; `BlockCuts`; `NoneAcceptedUngranted`; `SidesAgree` | `TypeInv` (a row names its follow); `BlockInv` (a policy read while barred refuses; what a sever removed stays removed until the block commits); `GrantInv` (every source of an accepted row: an open local request, an Accept under way); `SettleInv` (while all goes smoothly, a follow is on its way, held, answered or agreed, and one that was withdrawn is forgotten or its Undo is on its way) |
| `ExternalLibraryProofs`: `ExternalTrack` | `TypeCorrect`; `EditsSurvive`; `LibraryShows` | `EditInv` (an edit the provider has not had is flagged or about to be; a sync that read it unflagged does not overwrite it), `LibraryInv` (a sync the owner has not crossed finds the state it read) |
| the same: `ExternalSync` | `SyncTypeCorrect`; `OneSync`; `WatchedSynced` | `LockInv`: until a lock has expired under its sync, a task past the lock is the one that set it, although the lock's value does not say so; `WatchInv`: a change that the catalogue does not show is with the file watcher, in the open window, with a task that was sent for it and sees it, or among the missed ones |
| `MembershipProofs` | `TypeCorrect`; `SuspensionWins`; `SuspendedUnbilled`; `PaymentsKnown` | types for the action property, which follows action by action from what each handler writes; `BillingInv` (a subscription that is charged is the last one; the row names it and knows its period, or the event that will tell is waiting; if the account is suspended, its cancellation is queued) |
| `DownloadArchiveProofs` | `TypeCorrect`; `Capped`; `Limited`; `Served` | `CapInv` (a running build has its slot), `FileInv` (row, bytes and deletions of the shared file) |

In `StreamLockProofs` nothing in "at most one driver is on air" says why a driver
that passed its GET may go on; `Owned` does. Each lemma `...KeepsHolders` shows
that one group of actions keeps it for every driver v, those of v itself and those
of others: `KeyStep` has the key commands (a `SET NX` succeeds only if no driver
in charge owns the key, a `DELETE` follows a GET by the owner), `TickKeepsHolders`
the passage of time. Two drivers in charge would then own one key.

In `PurchaseOrderProofs` a step of the order maps to a grant, a revocation or a
movement of money of `PurchaseRight`, or to a stutter. A grant by a task with an
outdated read is legal because a grant is made only where no entitlement exists at
the commit and the provider reports money, and `ProviderInv` says that what it
reports has arrived.

In `SessionDriverProofs` the end of a decoder is followed through every place it can
wait in: an event of the current generation, one that has become stale, one kept for
a retry, an advance that has read the row. `Covers` says that those which may still
move the queue are covered by the decoder's credit; each operation of the pipeline
(`StartDecoderTask`, `SetSource`, `Pause`, `Ended`, `Restarted`) has a lemma on what it
does to that. The attempt to prove `OneAdvancePerTrack` corrected the model: the
history variable it had been stated with forgot an end when a restarted encoder
replaced a decoder during an open advance, so that the formula was neither inductive
nor what was meant. What `ReplayAll` computes over a batch is shown to be a row by
the least index at which it would not be (`LeastNumber`), in place of an induction.

In `LiveIngestProofs` a step of a handler or of the worker maps to a claim, a release or
the end of broadcasts. A connection is fresh until it has the mount, and no step makes
one fresh again (`FreshStep`); so a claim comes from one that never had it, and
`NotBack` says that a broadcast whose refresh has stopped does not start another.

Only model-checked: all liveness (TLAPS has no rule for ENABLED), what `StreamLock`
does after an overrun, and the two runs that end in a violation. Every invariant and
every safety property of the other runs has a theorem.

## 5. Plan

Done: ownership of outputs, orders, the session driver, live ingest, external
libraries, membership, follows and downloads, with their proofs. What would come
next, in this order:

1. Guest redemption: capability counters are read and written without a lock
   (`services/payments/fulfillment.py:315`), so two redemptions at the limit count
   as one; and the artifact built for them.
2. `SessionDriver`: prev, seek and set_queue (`_active_track_id` names tracks by
   id in a queue that holds one twice), drivers without a session.
3. An abstract specification of a library's item that `ExternalTrack` implements and
   `ExternalSync` uses, as `LiveClaim` is for broadcasts.
4. The uniqueness of a mount's slug, checked in Python and then inserted
   (`services/outputs.py:163`); optimistic state of the web client.
5. The remaining activities of the federation inbox; podcast and scrobbling queues
   with their retries.

## 6. Not modelled, and why

Audio itself (formats, resampling, ranges, ICY metadata), HTTP and its
validation, authentication, search and statistics, storage back ends and
migrations are input, output or queries in one transaction: unit tests reach
them. By lines they are most of the repository, with the web client and its
components. The web client is left out because the models already allow any order
of its requests. Activities, statuses, remote content, playlists and libraries are
large but nearly sequential: a request reads and writes rows in one transaction,
and a model of them would repeat the code. `PROJECT.json` names each such part
with its reason. Liveness cannot be proved with the tools at hand and stays with
TLC.
