# Formal models of JRL Messages

JRL Messages is an iMessage client for Windows. It talks to a BlueBubbles server
on a Mac, keeps every message in a local SQLite file, and shows them in a Qt
window. This directory holds TLA+ models of its core logic, the TLC
configurations that check them, and proofs checked by TLAPS. The reference is
always the code under `src/`; `PROJECT.json` maps every definition to the lines
it models.

## 1. Inventory

Two processes share one SQLite file in WAL mode, and a Mac stands behind them:

    window (app/ui) --- local pipe, JSON lines ---> agent (app/agent)
       |                                             | QThread workers
       +------------- messages.db -------------------+
                                                     | HTTPS, socket.io
    supervisor (agent_supervisor.pyw) starts         v
    and restarts the agent               BlueBubbles + Messages on the Mac

| Component | State it keeps | Operations | What makes it correct |
|---|---|---|---|
| Outbox table (`store/repo.py` 722-833) | one row per outgoing text: state, attempts; the maintenance lease in `meta` | enqueue, claim, set, recover; begin and end maintenance | one claimant per row; no claim under the lease |
| `SendThread` (`store/outbox.py`) | an in-memory queue of row ids, `_stop`, `recover_sending` | boot recovery, claim, post, outcome, requeue | every queued row is attempted, every attempt gets a verdict, no text is posted twice unasked |
| `AgentCore` (`agent/core.py`) | the current generation of workers, retired generations, wake and recovery state | start, stop and rebuild of the backend, watchdog, Wake Mac, manual recovery, settings, commands | a retired generation harms nobody; recovery ends; the send fence covers the restart of Messages |
| Reconciler (`store/reconcile_core.py`, `store/sync.py`) | a ROWID cursor with a snapshot of its bound, quarantine, archive and tail audits, backfill marks, wanted rescans | catch-up, tail, audits, head scans, gap fill, backfill | a message the server once had is never permanently missed |
| Push socket (`api/events.py`) | connection and backoff | new and updated messages | pushes and scans commute: the row is the same in any order |
| Delivery ledger (`store/repo.py` 428-436, 567-601; `ui/main_window.py` 1697-1974) | one event per new incoming message: unread applied, notification done | drain, toast, acknowledge, reject, hide, undo, mark read | each message counts as unread once and alerts at least once while it is fresh |
| Popups (`ui/notify.py`) | live cards, pending requests, a breaker | show, queue, drain, close | no request is lost, the number of cards is bounded |
| Downloads (`store/attach_cache.py`) | requested guids, files on disk | request, download, thumbnail | a request ends in a file or a visible failure |
| Agent channel (`agent/server.py`, `ui/agent_link.py`) | sockets and line buffers; handshake, upgrade deadline, buffered commands | connect, hello, send, dispatch, upgrade handoff, spawn | no command reaches an agent of another version; the handoff ends |
| Agent lifetime (`agent_supervisor.pyw`, `agent/main.py`, heartbeat) | lock files, the owner and heartbeat rows in `meta`, backoff | start, adopt, terminate a stale agent, clean stop | at most one agent, and again one after every crash |
| Phone link (`phone/link.py`, `phone/ancs.py`) | BLE session, candidate rotation, half-received ANCS answers | pair, connect, fetch, restart | a worker restart is never dropped; fragments reassemble |
| Conversation view (`ui/thread_view.py`, `ui/composer.py`) | the rows it shows, drafts per conversation, send bubbles, pictures that load | open, page, search hit, rebuild, stash and restore, submit, retry | shows in the end what the database holds; a draft never changes conversations |
| Other widgets, settings, helpers, Mac scripts, installers | none that is shared | - | not modelled (section 11) |

How they interact: the window writes outbox rows and delivery acknowledgements
straight into SQLite and sends short commands over the pipe; the agent answers
with broadcast events. Inside the agent one Qt event loop owns the workers and
receives their signals as queued callbacks stamped with a backend generation.
Nothing is joined for longer than 250 ms: a retired generation keeps running
until its bounded HTTP calls return.

The hard behaviours: two generations of a worker alive at once; commands and
signals that arrive for a generation that is gone; the agent dying between any
two writes; HTTP calls whose outcome is unknown; timers that fire after the state
they were armed for; leases and deadlines that expire between two looks.

## 2. Modules

| Module | Contents | Composes | Abstract specification | Checked by | State |
|---|---|---|---|---|---|
| `OutboxStore` | transactions on outbox and lease | - | - | `send_*` | done |
| `SendPath` | window, channel, agent, generations of SendThreads, the lease side of Wake Mac | `OutboxStore` | `SendFence` | `send_safety`, `send_live` | done |
| `SendPathProofs` | type correctness, `SendInv`, `NoOrphanedSending`, `ImplementsFence` | `SendPath` | - | tlapm | done |
| `SyncStore` | transactions on messages, delivery events, quarantine and the reconciler's meta keys | - | - | `catchup_*` | done |
| `RowidCatchup` | floor, cursor, windows, omissions, quarantine, reset, audits, initial sync, pushes | `SyncStore` | - | `catchup_safety`, `catchup_holes`, `catchup_honoured` | done |
| `RowidCatchupProofs` | type correctness, `CursorCovers` | `RowidCatchup` | - | tlapm | done |
| `RowidFloorProofs` | `HistoryStaysQuiet`, `BaselineIsComplete` | `RowidCatchupProofs` | - | tlapm | done |
| `WakeMac` | generations of the backend, the restart of Messages, refresh probes, manual recovery, watchdog | - | - | `wake_safety`, `wake_live` | done |
| `WakeMacProofs` | type correctness, `WakeInv`, `RefreshWakesOnce`, `LeaseCoversRelaunch`, `RecoveryIsGenuine` | `WakeMac` | - | tlapm | done |
| `PopupDeck` | the popup manager as operators on one record | - | - | `alerts_*` | done |
| `DeliveryAlerts` | ledger, sweep, unread counts, feed, alerts and their acknowledgement | `PopupDeck` | - | `alerts_safety`, `alerts_live` | done |
| `DeliveryAlertsProofs` | the loops of both modules, `AlertsInv`, `RecordedOnce`, `NoAlertStranded`, `OneCardPerRun`, `QueueHasAWaker` | `DeliveryAlerts` | - | tlapm | done |
| `AgentLifetime` | supervisor, lock file, ownership, heartbeat, channel, upgrade handoff, installer | - | - | `lifetime` | done |
| `AgentLifetimeProofs` | `LifetimeInv`, `LetsGoOnRequest` | `AgentLifetime` | - | tlapm | done |
| `PhoneServe` | one ANCS session: queue, command in flight, fragments | - | - | `phone` | done |
| `PhoneLink` | settings, dialog, guided setup, worker threads, candidates | `PhoneServe` | - | `phone` | done |
| `PhoneLinkProofs` | `PhoneInv`, `NotPairedIsTrue` | `PhoneLink` | - | tlapm | done |
| `ThreadView` | the open conversation, drafts, send bubbles, pictures and their downloads | - | - | `thread` | done |
| `ThreadViewProofs` | `ThreadInv`, `NoBubbleForgotten` | `ThreadView` | - | tlapm | done |

Each `...Proofs` module holds the theorems of the module it extends (section 10). None of
the modules has a RECURSIVE operator: loops are recursive functions.

## 3. The send path

| Model | Code |
|---|---|
| `row`, `attempts` | columns `outbox.state`, `outbox.attempts` |
| `lease` | `meta.mac_maintenance_until_ms` in the future |
| `sender` | `AgentCore.sender_t` |
| `pc[t]`, `cur[t]`, `queue[t]`, `stopping`, `marking` | `SendThread.run` and its fields `oid`, `q`, `_stop`, `recover_sending`; a stopped thread that is no longer `sender` is a retired one |
| `holding`, `mac` | `AgentCore._wake_lease_active`, Messages on the Mac |
| `link`, `pipe` | the validated channel and what is in it |
| `outdated` | rows whose bubble still offers Retry although the row moved on |
| `clicks`, `faults` | history and budget, not in the code |

Atomicity: every SQLite transaction is one step, because each runs in its own
write transaction; the steps of a thread between transactions (take an id, claim,
look at the row, look at the lease, post, write the outcome) are separate steps that
everything else may interleave with. Handlers of the agent's event loop are atomic: the loop runs one
at a time. `AgentShutdown` is one step although it waits for threads: what the
threads do while it waits are `Answer` steps before it.

Abstractions: what a row contains; the pauses of `time.sleep` and the polling of
`q.get`; the exact expiry of the lease, which may come at any time once Messages
is up again (150 s against a restart the server bounds at 30 s); guards of
`wake_mac` that only refuse (a manual recovery is running). `WakeMac` is allowed
whenever the code's own fence allows it, which includes every schedule of the
real triggers.

Hazards: the environment may produce four kinds of bad luck, and each run names
those it admits: `late_boot` (a backend is torn down before its SendThread has
executed its first statement), `stale_view` (Retry clicked on an outdated
bubble), `db_fault` (a SQLite call raises and ends its thread), `exit_mid_wake`
(the agent ends while it holds the lease). Everything else is always admitted:
kills and shutdowns at any other point, lost links, dropped commands, rebuilds,
failing calls, broken wake calls, clicks.

### Runs

| Run | Shows |
|---|---|
| `send_safety` | `SendInv` and `ImplementsFence` with two rows, two threads and two faults under `exit_mid_wake` and `db_fault` |
| `send_live` | `NoOrphanedSending` (a row at 'sending' has a thread in its call or a recovery coming) and, under fairness, `SendingIsResolved` and `QueuedIsClaimed`, with one row, two clicks, three faults and `stale_view` |

Bounds: two threads are enough for a retired generation and its replacement, and
two rows for a thread that works on one while the other waits; liveness of a row
does not depend on another. `MaxClicks` bounds Send and Retry for each row (the first may
be retried once, a second is sent beside it), `MaxFaults` exits, link losses, rebuilds,
wakes, lost calls and dead threads. Two faults are the least at which something goes
wrong inside a wake: the exit of the agent, the rebuild beside the open restart call, the
call that breaks, the thread that dies. The environment runs out of
both, after which everything is idle: hence `CHECK_DEADLOCK FALSE`. The threads
are interchangeable, so `send_safety` uses symmetry; the liveness run does not. The
live run is without `db_fault` and `exit_mid_wake`: section 9 says what goes wrong with
them.

Fairness (`Fairness` in `SendPath`): the event loop handles its commands, the
supervisor restarts the agent, the window reconnects, threads are scheduled and
HTTP calls are bounded by time-outs, the lease expires. There is no fairness on
clicks or faults, and none that makes a send succeed.

## 4. The reconciler

`SyncStore` has the durable state and its transactions, `RowidCatchup` everything
that calls them: the Mac, the agent's generations, the threads.

| Model | Code |
|---|---|
| `stored`, `event`, `failed` | `messages`, `messages.delivery_event_recorded`, `sync_failures` |
| `cursor`, `archive`, `floor`, `emptySeen`, `lower`, `baseline` | the meta keys of `reconcile_core.py` 20-26, `notification_baseline_complete` |
| `mac`, `seq`, `gen`, `sparse`, `server` | the Mac's message table, SQLite's row counter, the life of that database, rows that BlueBubbles serialises without chat or date, whether it knows ROWIDs |
| `current` | the generation that `AgentCore` accepts signals from |
| `pc`, `stopping`, `armed`, `support`, `heard`, `whole` | where a thread is; `_stop`, `notify_new`, `_rowid_supported`, `_caught_up_emitted`, `summary.cursor >= summary.snapshot` |
| `told` | `notify_new` as the scan was told it: read when it is called, used for every row it stores |
| `mode`, `cur`, `snap`, `windows`, `page` | which scan, and its locals `cursor`, `snapshot`, `windows`, `batch` |
| `arrived`, `skipped`, `faults` | history and budget, not in the code |

A message is a pair of a ROWID and a life of the Mac's database: a database that is
restored from a backup hands out ROWIDs again, for other messages.

Atomicity: a step of a thread ends at every HTTP answer and after the transaction of
every row. Three groups of adjacent writes without a call in between are one step:
judging a maximum (counter, cursor, floor), storing a row and clearing its
quarantine, and reading the floor and storing the row judged by it. A thread that is
told to stop looks at its flag where the code does, at the top of a cycle, before a
window, after a row and before a commit.

Abstractions: only incoming messages, because only they get delivery events;
`DateRead` reads any row, which is what a page sorted by date may hold (head and chat
scans, gap fill, backfill, the audit of edits); the timers of the audits decide
nothing but whether an audit is passed over; the refresh of chats and contacts, and
the wanted rescans, touch none of this state; a refused floor makes the thread start
again (`SyncThread` tries four times, which `CallFails` cuts short).

Hazards (`Hazards` in `RowidCatchup`): `omit` (both passes of a window leave a row
out), `sparse` (a row comes without chat or date), `low_max` (a relaunching Messages
reports a maximum that is too low), `refuse` (the server refuses ROWID queries for a
while, the maximum or a window), `delete` (the user deletes on the Mac), `restore` (the Mac's database is
restored), `late_update` (an update event about an old message comes before the
baseline is complete). Kills of the agent, rebuilds, failing calls and late, repeated
or missing pushes are always admitted.

### Runs

| Run | Shows |
|---|---|
| `catchup_safety` | `CursorCovers`, `HistoryStaysQuiet` and `BaselineIsComplete` on a first start with two reconcilers of overlapping generations under `omit`, with and without ROWIDs |
| `catchup_holes` | `NoPermanentHole` under `omit`, `sparse`, `delete` and `late_update` |
| `catchup_honoured` | `FloorIsHonoured` and `NoPermanentHole` with a reconciler and a syncer under `refuse` and `restore`, with and without ROWIDs |

Bounds: two ROWIDs and windows of width one give a cursor strictly inside the archive,
a window before and one at the snapshot, and a tail (`TailSpan` 1) that leaves a row
to the archive audit. `MaxWindows` 1 makes the first catch-up partial, which is what
`BaselineIsComplete` is about. Two workers are a retired one and its successor, or the
two of a first start (`catchup_honoured`). `InitialTop`
ROWIDs are used at the first start, some by rows that are gone; 0 makes all that
arrives news, on a Mac that is empty at first. Every
generation starts one reconciler and one syncer; an instance without syncers leaves
out the second, whose steps are a subset of the first's. `MaxFaults` bounds rebuilds,
kills, failing calls and the hazards together. When all ROWIDs are used, nobody is
required to act: hence `CHECK_DEADLOCK FALSE`. Only `catchup_safety`, which has two
reconcilers and no liveness property, uses symmetry.

Fairness: the event loop starts the backend and handles `caught_up`, threads are
scheduled and their calls bounded by time-outs (weak fairness of `Step` and
`OnCaughtUp`), five seconds pass (`EmptyMacIsStable`). The timers of the audits and the
count of cycles come round whatever happened before, so an audit that is due on
infinitely many cycles runs on infinitely many of them: strong fairness of `Reprobe`,
`TailAudit` and `ArchiveAudit`. Nothing makes a push arrive, a message complete, an
upgrade happen or the date pages hold a certain row.

## 5. Wake Mac, recovery and the generations of the backend

`WakeMac` is `AgentCore` as its event loop sees it.

| Model | Code |
|---|---|
| `gen`, `client`, `restarting`, `closing` | `_backend_generation`, `client is not None`, `_restarting`, `_closing` |
| `wake` | `_wake_state`, `_wake_token`, `_wake_poll_verified`, `_wake_finish_extended`, `_wake_lease_active`; `stage` says whether `_wake_verify_earliest` and the window of 60 s have passed |
| `worker`, `keeper`, `call` | `_wake_worker`, `_wake_lease_release_worker`, restart calls on the Mac |
| `recovery` | `_manual_recovery`, its generation and the two reports it waits for |
| `cycle`, `chatQueue`, `sync` | where `ReconcileThread` and `SyncThread` are |
| `inbox`, `timers` | queued signals and single shots, each with the generation or token it was made for |
| `retired`, `lingering` | `_retired_backends` and whatever still runs in them |

Atomicity: a slot of the event loop is one step; the workers' calls and their reports
are separate ones. Clocks are reduced to the orders the code relies on: a pending shot
fires at any time, unless its own window says that it is too early.

Abstractions: origin and wording of a status, counts of recovered messages, the expiry
of the durable lease and the refusal of a wake while a text is being sent (both are in
`SendPath`).

Hazards: `slow_workers` (workers outlive their generation) and `mute_keyring` (the
password store does not answer, or fails, when `start_backend` asks, and the settings
file holds no copy). `wake_safety` and the theorems admit both. `wake_live` admits
neither: a rebuild that finds no password leaves the agent without a backend (section 9).

| Run | Shows |
|---|---|
| `wake_safety` | `WakeInv` (restarts of Messages never overlap, the lease is held as long as a restart call is open, no HTTP client is closed under a call), `RefreshWakesOnce`, `LeaseCoversRelaunch`; two wakes, one Refresh, one rebuild, and workers that outlive their generation (`slow_workers`) |
| `wake_live` | `RecoveryIsGenuine` (success is reported on a poll and an audit of one backend built after the click), `LeaseIsReturned`, `WorkersAreReplaced`; one wake and two faults |

Bounds: the second wake is what a stale timer or a stale report of the first can
disturb; two faults are a recovery with a rebuild across it. `MaxInbox` 1 lets a report
wait while everything else happens; a second one behind it would be handled by a later
step of the same loop. Fairness: the loop handles what is queued, timers fire and REST
calls end, because each has a time-out. Nothing makes a worker succeed.

## 6. The delivery ledger and its alerts

`DeliveryAlerts` has the ledger, the agent that fills it and the window that replays
it; `PopupDeck` is `PopupManager` as operators on a record.

| Model | Code |
|---|---|
| `stored`, `recorded`, `ledger`, `unreadDone`, `alertDone` | `messages`, `delivery_event_recorded`, `delivery_events` and its two flags |
| `unread`, `hidden`, `feed` | `chats.unread`, `chats.hidden`, the notification center |
| `reviving` | the agent's second transaction, which brings a hidden conversation back |
| `sweep`, `logged`, `toasts`, `popping`, `groups` | `_drain_delivery_events` and its page, `_feed_logged_guids`, `_toast_queue`, `_popup_pending_guids`, `_popup_ack_groups` |
| `deck` | the cards, the requests behind them, the breaker and posted callbacks |
| `owed`, `seen`, `carded`, `unfiled` | history: what the badge should count, what has had a card, what failed to be written to the notification center |

Atomicity: each transaction is one step; between two of them only the agent and the end
of the process come in, since everything of the window runs on its one thread. A sweep
is therefore a step per event and write.

Abstractions: sounds, wording, the stack of Undo, archived conversations, cards without
a key, the cap of 8 widgets (three live cards never reach it); the retries after 5 s
are sweeps that may begin at any time.

Hazards: `ages` (an event is older than the window in which it still alerts) and
`late_resume` (a burst or a closing card falls into the 250 ms between a cool-down and
its resume shot). No run admits `late_resume`; all theorems but one do, and section 9
says what it does to the other. The loops of the code (filtering the ledger, draining
the requests, presenting a burst) are recursive functions over the length of their list.

| Run | Shows |
|---|---|
| `alerts_safety` | `UnreadIsExact` (the badge is the events swept since the conversation was last opened, less those on screen), `FeedIsComplete` (what was announced is in the notification center, unless the last write of it failed), `RecordedOnce`; a self-text with a code and another message, ends of both processes, two failing writes, popups and alerts switched off, and events that grow old (`ages`) |
| `alerts_live` | `NoAlertStranded`, `QueueHasAWaker`, `OneCardPerRun` and, under fairness, `EveryEventIsTold` |

Bounds: pages of one event, one card, one request behind it and a breaker of one card
put every queue at its limit with two messages; one message is then on screen, the
other behind it, refused or rejected. Fairness: the GUI thread gets to its timers and
posted callbacks. They wait for a sweep to end, which makes them enabled again and
again and not always: hence strong fairness. Nothing makes a process end or restart.

## 7. The lifetime of the agent

| Model | Code |
|---|---|
| `agent[a]` | a process: in front of the lock file, owning, serving, hung, quitting, gone, and its exit code |
| `endpoint`, `owner` | listeners of the named pipe, `meta.active_agent_instance_id` |
| `sup`, `arriving` | the supervisor with the mutex, and those on their way to it |
| `link`, `shots` | `AgentLink`: peer, handshake, state and budget of an upgrade handoff, its single shots |
| `installer` | `run_agent.py --wait-ready` |

Hazards: `broken_lock` (the lock file is taken while its holder lives: another machine
on the same profile, a lock directory that was removed), `old_folder` (the folder of
the old version is still launched, by logon or the hourly task) and `unwatched_hang` (an
agent hangs that was started by hand or has lost its supervisor, or the supervisor is
killed while its agent hangs). Crashes, hangs of the supervisor's own agent, kills of the
supervisor and stop requests are always admitted. The theorems admit all three hazards;
the run leaves `unwatched_hang` out, because nothing recovers from it (section 9).

Abstractions: time is reduced to the orders the code waits for; equal shots pending at
once are one; the window stays open, since `WindowIsServed` is about an open window.
Commands that are buffered meanwhile are in `SendPath`.

Run `lifetime` (two agents, one fault, one stop, two forced spawns): `OneAgentServes`
(as long as the lock holds, one agent is past it, owns the database and is the one
that listens), `LetsGoOnRequest` (only a requested end makes the supervisor let go),
`RivalsRetire` and `WindowIsServed`. Two slots are an agent and its duplicate or
successor; a third would meet the same lock. One fault is a broken lock, a crash, a hang
or a kill; that a duplicate past a broken lock cannot have the channel, which is another
agent's, is a consequence and costs no second one. Fairness: processes run and timers fire;
faults and requests are budgeted, so that what is left is the system's own doing.

## 8. The window: phone link and conversation view

### 8.1 The phone link

`PhoneLink` has the window's side (settings, dialog, guided setup), the threads of
`PhoneLinkWorker` and what each address answers; `PhoneServe` a connected session.

| Model | Code |
|---|---|
| `settings`, `dialog`, `wizard` | `phone_link_enabled` and the stored address; the settings dialog's own copy; the guided setup and its candidates |
| `gui` | how far `start()` is: joining the old thread, marking a restart as owed, looking again |
| `thread`, `current`, `flags` | threads and what each is at, `_thread`, `_want`, `_stop`, `_restart_pending` |
| `search` | `_sidelined`, `_last_suspect`, `_needs_probe`, `_consecutive_failures` |
| `mail` | learned addresses on their way to the GUI thread |
| `queue`, `fetch`, `air`, `names` | ANCS events waiting, the command in flight and its fragments, fragments on their way, the application's name |

Abstractions: the address of the device is the address connected to; a wait may end at
any time, which stands for kicks and back-off; notifications are of one application;
status texts, the wizard's limit of eight candidates, advanced pairing and a missing
Bluetooth stack are left out. The end of a thread is three steps: the look at an owed
restart, the respawn, the death that `is_alive()` sees; a respawn takes a free slot.

Hazards, none of which the run admits, because each breaks a property (section 9):
`two_aims` (the link is re-aimed twice within the 1.5 s of one re-aim), `late_look` (a
`stop()` falls between a thread's look and its respawn, or both looks of `start()`
between that look and the thread's death), `blind_list` (a query for the paired list
fails and reads as entries missing) and `unreachable_entry` (an entry of the list cannot
be connected to).

Run `phone`: `OneThreadOnTheRadio` and `ToldAsSent` (a notification is told with its own
text) in `PhoneInv`, with what they rest on (`OneStarter`, `OnePlaceEach`);
`NotPairedIsTrue`; under fairness `StartIsHonoured`, `LinkIsFound`
and `QueueIsServed`. Two entries and a beacon are a candidate that is wrong, one that is
right and one that was learned; two threads are one that ends and its successor; a
queue of one is full with the first event. `MCInit` starts from a link that the
guided setup has just made.

### 8.2 The conversation view

| Model | Code |
|---|---|
| `stored`, `outbox`, `sentTo` | rows of one conversation (absent, as they came, changed since), states of outgoing texts: 'sending' is a row claimed by an earlier thread, what the running one has claimed looks like a queued one |
| `running`, `lingering` | whether the agent has a backend; what the workers of retired ones are still at |
| `view` | `ThreadView`: `chat_guid`, `by_guid` with the version shown, `oldest_key` and the end of the page, `_outbox_widgets`, tiles that say they load |
| `composer`, `drafts` | the composer's content, `_drafts` |
| `files`, `thumbs`, `seen`, `queue`, `busy`, `retired` | the cache, `DownloadThread` and those of retired backends |
| `events`, `link`, `asked` | signals and broadcasts on their way, the channel, download commands on it |
| `typedFor`, `missed`, `excused` | history: what a text was typed for; whether, since the last rebuild of the view, something was committed whose signal was dropped or that has none; pictures whose download failed or was dropped |

A rebuild reads the database when it runs, so equal events under way are one, and the
three events that only cause a rebuild are one kind. The handshake is the first thing the
link hears, and until then it keeps no command: connecting and hearing it are one step.
`load_chat` is one step although it reads twice; what is committed between its two reads
brings an event of its own. The teardown of a backend and the start of the next are two
steps, with anything between them, as they are after 250 ms in `_recover` or in the first
50 ms of an agent. Retired workers finish unheard: their signals are blocked. Drafts live
in memory only, as in the code. Database errors and threads torn down before they ran are
in `SendPath`.

Run `thread`: `DraftsStayHome`, and with it `DraftsAreOwn` and `BubblesHaveRows`, in
`ThreadInv`; `NoBubbleForgotten` (while the link is up the send bubbles are those of the
outbox, as they look, or an event that redraws them is on its way); under fairness
`ShowsWhatIsStored` and `PicturesLoad`, each across a channel that drops, an agent that
ends, a backend that is stopped and started, a failed send or a failed download. Two
excuses are in the properties because the code needs them, and section 9 has their cases:
nothing makes the view look again after a commit that it was not told of (`missed`), and
a download that failed or was dropped is asked for again only by the next rebuild of the
view (`excused`).

Bounds: pages of one row make the second message an older page; one text is enough,
because texts do not meet; two conversations are the least a draft can leak between. One
fault is an end of the agent or of its channel, a teardown, a failed send or download.
Every step of the user but the fate of a text (erase, send, retry) is counted against
`MaxActs` 3: open, type and open another one. That a draft comes back with its
conversation takes a fourth, which the theorem covers. Fairness: the window handles what
is queued and reconnects (`WindowGoesOn`), the agent reads its commands and its downloads
end (`DownloadsGoOn`). Nothing makes a backend start or a send end, so a picture whose
command waits for a backend is excused by the dropped command, not by the missing backend.

## 9. Statements the code does not keep

Each was found by TLC while its module was written: the formula is in the module, and a
copy of the named configuration with that formula as its only property shows the
counterexample. They have no runs of their own.

| Formula | With | What happens |
|---|---|---|
| `SendPath!OneAttemptPerClick` (INVARIANT) | `SendPath_safety.cfg` | `claim_outbox` accepts failed rows, and one id can be in `SendThread.q` twice (boot recovery or the wait for the lease, and `kick_outbox`): the second entry resends a row that has just failed. outbox.py:2-3: "A failed send never retries silently" |
| `SendPath!SingleClaimant` (INVARIANT) | `SendPath_safety.cfg`, `late_boot`, one row, three faults | `recover_sending` is decided when a thread is created and used when it first runs (core.py:274): a thread retired before that fails the row its replacement is posting, and a Retry posts it a second time |
| `SendPath!QueuedIsClaimed` (PROPERTY) | `SendPath_live.cfg`, `exit_mid_wake` | after a refused claim the row is kept only if the lease is still active at a second look (outbox.py:57); if the lease of a dead agent expires in between, the row waits for the next kick |
| `SendPath!MacRestartsAlone` (INVARIANT) | `SendPath_safety.cfg` | the restart call breaks while the Mac still serves it, the lease is given up (core.py:707) and a text is posted into the restart |
| `RowidCatchup!FloorStaysAboveHistory` (PROPERTY) | `RowidCatchup_safety.cfg`, `low_max`, no symmetry | until the baseline is complete every catch-up proposes its maximum as the floor and the smallest stays (reconcile_core.py:219); a low answer of a relaunching Messages turns history into news |
| `RowidCatchup!HistoryStaysQuiet` (INVARIANT) | `RowidCatchup_safety.cfg`, `delete`, two faults, `InitialTop` 2, no symmetry | a retired reconciler holds a page with a row; the newest row is deleted on the Mac, the successor's judgement lowers the floor below the row, and the retired thread stores it as news (reconcile_core.py:219) |
| `WakeMac!VerifiedByLaterScan` (PROPERTY) | `WakeMac_safety.cfg` | a check that began before the restart was confirmed verifies the wake if it ends after `_wake_verify_earliest` (core.py:968, against "authoritative post-restart scan", 755) |
| `AgentLifetime!HandoffIsBounded` (INVARIANT) | `AgentLifetime.cfg` | a handoff that has spent its budget passes the hello on (agent_link.py:319), and the window answers it with the next handoff (main_window.py:537), against agent_link.py:61-64 |
| `DeliveryAlerts!QueueHasAWaker` (INVARIANT) | `DeliveryAlerts_live.cfg`, `late_resume`, three messages, `MaxCards` and `MaxWaiting` 2 | a burst or a closing card between the cool-down and its resume shot engages the breaker again while `_resume_scheduled` is still set, so no new shot is scheduled (notify.py:309-311); the old shot puts the requests back, and only the next card looks at them |
| `WakeMac!WorkersAreReplaced` (PROPERTY) | `WakeMac_live.cfg`, `mute_keyring` | the rebuild finds no password (config.py:116-124) after the teardown; `go()` only logs it (core.py:542-545) and the watchdog returns at once while there is no client (core.py:456), so nothing builds the backend again |
| `AgentLifetime!WindowIsServed` (PROPERTY) | `AgentLifetime.cfg`, `unwatched_hang` | an agent that no supervisor holds hangs: heartbeats are read only by the supervisor of the process (agent_supervisor.pyw:140), a new one starts an agent that meets the lock, and the window's hello time-out spawns in vain (agent_link.py:215-220) |
| `PhoneLink!OneThreadOnTheRadio` (INVARIANT) | `PhoneLink.cfg`, `late_look`, `MaxActs` 3 | `_maybe_respawn` sees the restart owed and wanted (link.py:893), the GUI thread stops the link, and `_spawn` clears the stop (883): a thread works although nobody wants it |
| `PhoneLink!StartIsHonoured` (PROPERTY) | `PhoneLink.cfg`, `late_look` | the old thread looks before `start()` marks the restart as owed (872) and is still alive when `start()` looks again (875): neither respawns, and the start is swallowed, which link.py:868-871 means to rule out |
| `PhoneLink!NotPairedIsTrue` (PROPERTY) | `PhoneLink.cfg`, `blind_list` | a failing query is an empty list (link.py:206-207, 231-233, 588-591, 784-788), and the setup says "not paired" of a paired phone, "a lie" in the words of link.py:586 |
| `PhoneLink!OneThreadOnTheRadio` (INVARIANT) | `PhoneLink.cfg`, `two_aims`, `MaxActs` 4 | after a successful join `start()` spawns unconditionally (link.py:880), although the joined thread has started a successor for the restart that an earlier `start()` owed (link.py:872, 938); against tests/test_phone_link.py:1138, "cannot spawn while the old thread lives" |
| `PhoneLink!LinkResumes` (PROPERTY) | `PhoneLink.cfg` | after the guided setup the settings start the link only if it does not run (main_window.py:1168); a thread that is still ending counts as running, against "the background link resumes after the dialog closes" |

Seen while modelling, and not formulas:

- on a first start the floor is asked for before anything else, and a server without
  ROWIDs refuses it (rest.py 134-137), so the compatibility path written for such
  servers is not reached; once ROWID queries are refused, a compatibility cycle
  declares the baseline complete although the archive has not been read;
- a page of history that arrives for an open, non-empty conversation is not shown, and
  with fewer than 30 rows the button that would load it is hidden (main_window.py 2003,
  thread_view.py 775);
- a rebuild drops older pages that the reader has loaded (main_window.py 1690 speaks of
  preserving the position); a guid that was downloaded stays in `_seen`, so a deleted
  file is not fetched again by the same backend;
- a click on a file while the channel is down is answered with "the download will begin
  shortly" (main_window.py 2102-2106), but the command is not kept;
- with `unreachable_entry` admitted, `PhoneLink!LinkIsFound` fails: an entry of the
  paired list that cannot be connected to is tried for ever before a beacon;
- `_feed_logged_guids` is set before the write (main_window.py 1746) and `_feed_record`
  swallows its failure (964-977), so an entry that could not be written is missing once the
  event is finished, against "every alert-worthy arrival also lands in the notification
  center" (1738); `FeedIsComplete` excuses it (`unfiled`), and is violated without that;
- a SendThread that a rebuild has retired commits its outcome (outbox.py 83-99) with its
  signals blocked and disconnected (core.py 356-359): the message is not shown and its
  bubble stays until the view is rebuilt for another reason; nor does a start tell the
  window of the rows it found interrupted and marked as failed (repo.py 808-825). The
  properties of `ThreadView` excuse both (`missed`);
- a download command that arrives while the agent has no backend, in the 250 ms of a
  rebuild or the first 50 ms of the process, is dropped with a status line (core.py
  1229-1235), and the picture says that it loads until the next rebuild of the view;
- a rescan that was asked for is forgotten when a call of its cycle raises (sync.py
  113-117): the answer to a Refresh never comes.

## 10. What is proved

Every theorem is for all values of the constants that the named assumptions of the modules
allow: any number of rows, threads, generations, messages, conversations and addresses,
any bounds and budgets, and every set of hazards that the theorem does not exclude. Where a
hazard is excluded, TLC finds the property violated with it; some of the instances that
show it are a little larger than the run's.

### The send path (`SendPathProofs`)

- `SendPathTypeCorrect`: `Spec => []TypeOK`, under all hazards. It needs
  `WorkHasId` (a thread past `q.get` holds an id) as its strengthening.
- `SendInvariant`: `Punctual => (Spec => []SendInv)`, where `Punctual` excludes
  `late_boot` and `stale_view`. The core is `WireRowIsSending`: while a thread is
  in its call, its row reads 'sending'. Then nobody else can claim the row, so
  `SingleClaimant`; the active count sees it, so no restart begins. What could
  break it is a boot that marks rows (excluded by `MarkerIsAlone`: a marking
  thread boots only when no other runs) and a Retry on a row that is not failed
  (excluded by `NothingOutdated`). `RestartHoldsLease` carries the other half of
  the fence.
- `SendPathImplementsFence`: `Punctual => (Spec => ImplementsFence)`, step by step
  from `SendInv`.
- `SendingHasAnOwner`: `Spec => []NoOrphanedSending` without `db_fault`, which ends a thread
  in the middle of its work. `OrphanInv` adds `DownIsQuiet` (a process that is gone
  leaves no thread behind), so a row at 'sending' whose thread is gone is one that the
  first backend of the next process marks.

### The reconciler (`RowidCatchupProofs`, `RowidFloorProofs`)

- `CatchupTypeCorrect`: `Spec => []TypeOK`, under all hazards.
- `CursorIsSafe`: `Spec => []CursorCovers` as long as the Mac is never restored. That
  a row is covered (stored, quarantined, or left out by both passes of a window that
  was accepted) is a fact about the durable state, but a thread commits from
  locals it read long before; so `CursorInv` says the same of every thread in a
  catch-up (`ScanCovers`): everything at or below its `cur` is covered, and in a
  window everything up to `High` is covered or still on its page. `BelowSeq` is
  needed with it: cursor and snapshots never exceed the highest ROWID handed out, so
  a new row never appears under a cursor. Covered rows stay covered, whoever acts
  (`CoveredKept`); every step is then one of a few kinds of move: a thread stays where
  it is, leaves its scan, takes the durable cursor, reads a window, stores a row, or
  commits, and only the last moves the durable cursor. A restored Mac hands out ROWIDs
  under the cursor until three equal sightings have cleared it, which `catchup_honoured`
  covers in the long run.
- `HistoryIsNeverNews`: `Spec => []HistoryStaysQuiet` under `Faithful`, which excludes
  `low_max`, `delete`, `restore` and `late_update`. `QuietInv` says that the floor, once
  frozen, is not below any row the first start found (`FloorInv`); since a floor is
  proposed from an answer received earlier, the same holds of every answer a thread still
  carries (`AnswerInv`). `Frozen` says that no thread scans and no baseline is
  declared before there is a floor, `PagesAreReal` that what is on a page is on the Mac.
  A low answer puts the floor below history; after a delete or a restore even a true one
  can be below a row that another thread has read before; and a late update stores an old
  message as if it were new, without asking the floor.
- `BaselineIsHonest`: `Spec => []BaselineIsComplete` without `restore` and `refuse`.
  `BaselineInv` extends `CursorInv`: a thread that may declare the baseline, or whose
  signal is queued, has read everything under the floor (`FloorIsRead`), because a
  catch-up ends above the floor (`AimsAboveFloor`); and the floor only falls. After a
  refusal a compatibility cycle declares the baseline without reading the archive.

### Wake Mac and the generations (`WakeMacProofs`)

The inductive invariant is `Inductive`. `CallIsHeld` ties an open restart call to the lease
and to one of two places, the wake's worker or the keeper of a wake that was given up;
`AnswerIsFinal` says that the answer of a wake is queued once and after its call;
`ClientsAreKept` that a call's client belongs to the current backend or to one
on the retired list; `RecoveryIsCurrent` that the reports a manual recovery counts are of
the backend it last built; `Spent` that generations, tokens and call numbers grow with the
faults and wakes already used. No hazard is excluded.

- `WakeTypeCorrect` and `WakeInvariant`: `Spec => []WakeInv` (one restart at a time, the
  lease held while a restart call is open, no client closed under a call).
- `SuccessIsGenuine` (`RecoveryIsGenuine`), `RefreshEscalatesOnce` (`RefreshWakesOnce`).
- `FenceOutlivesStaleTimers`: the action property `LeaseCoversRelaunch`, from the same
  invariant: a shot or report of an earlier token finds another token and does nothing.

### The ledger, the alerts and the cards (`DeliveryAlertsProofs`)

Three loops of the code are recursive functions: filtering the ledger (`Kept`), draining
the requests behind the cards (`DrainPending`) and presenting a burst (`Presented`). The
library's induction theorems take an operator as a parameter and cannot be used; that `<`
on the naturals is well-founded takes none, so the module proves induction as a statement
about sets (`SetInduction`, `BoundedInduction`) and derives what each loop
computes: `Kept` returns a sequence of exactly the elements of both arguments, draining
keeps every key on a card, in the queue or rejected, and a burst keeps
`Underway`, the reservations of a burst in the middle.

The inductive invariant `AllKept` has four parts.

- `Badge`: messages of the ledger were recorded, a page of a sweep holds recorded
  ones, and the unread number of a conversation is the size of the set of events that are
  owed to it, applied and not seen.
- `Filed`: what is collected for a burst, reserved for a card or acknowledged is in the
  notification center or failed to be written there, and only stored messages are.
- `Settled`: the ranges of what decides nothing here.
- `Reservations`: the queued requests and posted callbacks are exactly the groups of
  messages that wait for a card (`DOMAIN groups = Awaited(deck)`), groups do not overlap,
  a message is not collected for the next burst while it is reserved (`Reserved`), and a
  message that has had a card stays reserved or acknowledged and is in no group whose card
  is still to come (`Told`).

From it: `UnreadCountIsExact` and `AlertsInvariant` (`Spec => []AlertsInv`),
`EventsAreRecordedOnce` (`RecordedOnce`), `AlertsAreNotStranded` (`NoAlertStranded`) and
`CardsAreUnique` (`OneCardPerRun`), under both hazards. `QueuesAreWoken`
(`QueueHasAWaker`) excludes `late_resume`: it rests on `Woken`, that an engaged breaker has
its shot still to come, and this is what a burst between cool-down and shot breaks. The
proof attempt showed it, and TLC confirmed it with three messages and two cards.

### Agent, phone, conversation view

- `LifetimeInvariant` (`AgentLifetimeProofs`): `Spec => []LifetimeInv` under all hazards.
  `Safe` names the one agent past an intact lock: the owner in the database (`OwnerHolds`).
  That is stronger than "at most one", and it is what a starting agent re-establishes.
  `SupervisorIsFaithful`: the action property `LetsGoOnRequest`.
- `PhoneLinkInvariant` (`PhoneLinkProofs`): `Spec => []PhoneInv` without `two_aims` and
  `late_look`. The strengthening is `OneStarter`: only the current thread can still work, a
  join is for it, what it saw owed is owed until it respawns, and an owed restart excludes a
  pending re-aim; and `OnePlaceEach`: a notification is waiting, being fetched or told,
  never two of them.
  `NotPairedIsNeverWrong`: `NotPairedIsTrue` without `blind_list`: each look at the list is
  then a look at all of it.
- `DraftsStayWhereTheyBelong` (`ThreadViewProofs`): `Spec => []ThreadInv`. The strengthening
  is `DraftsAreOwn`: the composer holds a text of the open conversation that was not sent
  yet, a draft one of its own. The draft of the open conversation is exempt, because the
  code leaves it as it was.
  `BubblesAreTold`: `Spec => []NoBubbleForgotten`. It needs `BubblesHaveRows` (bubbles and
  retired senders belong to texts that were sent), so that a text typed now has no old
  bubble; every other step leaves the bubbles of the open conversation as they are,
  redraws them, sends the event, or sets `missed`.

### Only model-checked

The liveness properties (`SendingIsResolved`, `QueuedIsClaimed`, `NoPermanentHole`,
`FloorIsHonoured`, `LeaseIsReturned`, `WorkersAreReplaced`, `EveryEventIsTold`,
`RivalsRetire`, `WindowIsServed`, `StartIsHonoured`, `LinkIsFound`, `QueueIsServed`,
`ShowsWhatIsStored`, `PicturesLoad`): fairness and ENABLED are out of the
prover's reach. Every invariant and every action property of a run is stated by a theorem.

## 11. Not modelled

The REST client and the payload parser are I/O; their outcomes are choices of the
models. The connection of the push socket is a retry loop whose effects (pushes come,
or do not) are in `RowidCatchup`. Other widgets, settings forms, text helpers,
installers, the website and the Mac scripts have no shared state whose order matters.
Of the modelled components the following is left out: chats and contacts of the
reconciler, tapbacks and read receipts of the view, the Undo stack, searching and
exporting, the framing of the channel's lines, advanced pairing of a phone.

Every property of a run has a mutant in `PROJECT.json`: a definition of the model is
replaced by a plausible mistake, which the property then reports. The mistakes are the
operators marked "Mutant" in the modules.
