------------------------------- MODULE WakeMac -------------------------------
(***************************************************************************)
(* AgentCore: the generations of the backend, the restart of Messages on   *)
(* the Mac ("Wake Mac") and the manual recovery, as the agent's event loop *)
(* interleaves them.                                                       *)
(*                                                                         *)
(*   backend    a client and its workers, numbered by _backend_generation; *)
(*              torn down without waiting for calls in flight, which keep  *)
(*              their HTTP client until they return                        *)
(*   wake       one restart call on a thread of its own, then a window of  *)
(*              60 s (90 s if no check has succeeded), all of it behind    *)
(*              the durable send fence                                     *)
(*   recovery   rebuilds the backend and ends when a poll and a sync audit *)
(*              of the rebuilt generation have reported, or after 180 s    *)
(*   workers    report to the loop through queued signals; the loop drops  *)
(*              a report whose generation is no longer the current one     *)
(*                                                                         *)
(* Clocks are abstracted to the orders the code relies on: stage tells how *)
(* far the window of the current wake has come, and a pending single shot  *)
(* fires at any time unless its own window says it is too early.  Status   *)
(* lines, broadcasts and counts of recovered messages are left out; which  *)
(* rows may be sent behind the fence is the subject of SendPath.           *)
(***************************************************************************)
EXTENDS Naturals, Sequences, FiniteSets

CONSTANTS
  MaxWakes,    \* bound: restart calls
  MaxAsks,     \* bound: Refresh commands (F5) for the selected chat
  MaxFaults,   \* bound: recoveries, reloads, rebuilds and dead workers
  MaxInbox,    \* bound: reports queued to the event loop
  Hazards      \* which of AllHazards the environment may produce

\* slow_workers: a torn-down backend has calls out for longer than 250 ms
\* mute_keyring: the stored password reads as empty when a backend is started
AllHazards == {"slow_workers", "mute_keyring"}

ASSUME WakeMacAssumption ==
  Hazards \subseteq AllHazards /\
  MaxWakes \in Nat /\ MaxAsks \in Nat /\ MaxFaults \in Nat /\ MaxInbox \in Nat

Call == 1..MaxWakes
NoCall == 0
\* Every fault moves the generation by two at most; it starts at 1, and a
\* shutdown adds one.
Gen == 0..(2 * MaxFaults + 2)
Token == 0..(MaxWakes + MaxFaults + 1)

VARIABLES
  gen,        \* _backend_generation
  client,     \* client is not None: a backend is up
  creds,      \* settings hold a server address and a password
  restarting, \* _restarting, with the manual flag go() has captured
  dead,       \* a worker of the current backend has died
  recovery,   \* _manual_recovery, _generation and _recovery_state; poll and
              \* audit hold the generation whose report set _manual_poll_ok
              \* and _manual_sync_audit_done (0: not set); since is history,
              \* the generation the user clicked in
  wake,       \* _wake_state, _origin, _token, _poll_verified, _extended,
              \* _lease_active, and the stage of its window
  worker,     \* _wake_worker
  keeper,     \* _wake_lease_release_worker
  call,       \* restart calls: open or not, and the generation's client
  chatQueue,  \* ReconcileThread._chat_queue holds the selected chat
  cycle,      \* ReconcileThread: where its cycle is and what it has taken
  sync,       \* SyncThread: "off", "running", "audited" or "failed"
  inbox,      \* reports queued to the event loop
  timers,     \* single shots pending: <<what, token>>
  probe,      \* _refresh_probes has an entry for the selected chat
  retired,    \* _retired_backends: generation and wake worker of each
  lingering,  \* generations with a worker (not the wake's) in a call
  closing,    \* _closing
  asks,       \* history: Refresh commands so far
  refreshes,  \* history: restarts that a Refresh has led to
  faults

backendVars == <<gen, client, creds, restarting, dead, retired, lingering,
                 closing>>
wakeVars == <<wake, worker, keeper, call>>
workVars == <<chatQueue, cycle, sync>>
history  == <<asks, refreshes>>
vars == <<backendVars, wakeVars, workVars, recovery, inbox, timers, probe,
          history, faults>>

Report ==
  [kind : {"done"}, gen : Gen, ok : BOOLEAN] \cup
  [kind : {"poll"}, gen : Gen, late : BOOLEAN] \cup
  [kind : {"chat", "audit", "syncFailed"}, gen : Gen]

WakeRecord ==
  [state : {"idle", "working", "watching", "success"}, token : Token,
   verified : BOOLEAN, extended : BOOLEAN, lease : BOOLEAN,
   stage : {"none", "early", "open", "due"}]

RecoveryRecord ==
  [on : BOOLEAN, gen : Gen, poll : Gen, audit : Gen, since : Gen,
   state : {"idle", "working", "success"}]

BackendTypes ==
  /\ gen \in Gen /\ client \in BOOLEAN /\ creds \in BOOLEAN
  /\ restarting \in {"no", "auto", "manual"}
  /\ dead \in BOOLEAN /\ closing \in BOOLEAN
  /\ retired \subseteq [gen : Gen, worker : Call \cup {NoCall}]
  /\ lingering \subseteq Gen

WakeTypes ==
  /\ wake \in WakeRecord
  /\ worker \in Call \cup {NoCall} /\ keeper \in Call \cup {NoCall}
  /\ call \in [Call -> [open : BOOLEAN, gen : Gen]]

WorkTypes ==
  /\ chatQueue \in BOOLEAN
  /\ cycle \in [at : {"idle", "begun", "scanned"}, target : BOOLEAN,
                late : BOOLEAN]
  /\ sync \in {"off", "running", "audited", "failed"}

LoopTypes ==
  /\ recovery \in RecoveryRecord
  /\ inbox \in Seq(Report)
  /\ timers \subseteq {"finish", "recoveryWake"} \X Token
  /\ probe \in BOOLEAN

CountTypes ==
  /\ asks \in 0..MaxAsks /\ refreshes \in 0..MaxWakes
  /\ faults \in 0..MaxFaults

TypeOK == BackendTypes /\ WakeTypes /\ WorkTypes /\ LoopTypes /\ CountTypes

NoRecovery == [on |-> FALSE, gen |-> 0, poll |-> 0, audit |-> 0, since |-> 0,
               state |-> "idle"]
IdleCycle == [at |-> "idle", target |-> FALSE, late |-> FALSE]
Watching == wake.state = "watching"
OpenCalls == {c \in Call : call[c].open}
IsRunning(c) == c \in OpenCalls
Spend == faults < MaxFaults /\ faults' = faults + 1
Post(report) == Len(inbox) < MaxInbox /\ inbox' = Append(inbox, report)

\* The agent has just started with a configured server.
Init ==
  /\ gen = 1 /\ client = TRUE /\ creds = TRUE /\ restarting = "no"
  /\ dead = FALSE /\ closing = FALSE
  /\ recovery = NoRecovery
  /\ wake = [state |-> "idle", token |-> 0,
             verified |-> FALSE, extended |-> FALSE, lease |-> FALSE,
             stage |-> "none"]
  /\ worker = NoCall /\ keeper = NoCall
  /\ call = [c \in Call |-> [open |-> FALSE, gen |-> 0]]
  /\ chatQueue = FALSE /\ cycle = IdleCycle /\ sync = "running"
  /\ inbox = <<>> /\ timers = {} /\ probe = FALSE
  /\ retired = {} /\ lingering = {}
  /\ asks = 0 /\ refreshes = 0
  /\ faults = 0

----------------------------------------------------------------------------
\* The lease and the token of a wake.

\* Mutant: the lease is given up with the wake, whoever is still calling.
CancelAndRelease ==
  /\ keeper' = NoCall
  /\ wake' = [wake EXCEPT !.token = @ + 1, !.state = "idle", !.lease = FALSE,
                !.verified = FALSE, !.extended = FALSE, !.stage = "none"]

\* _cancel_wake: an open call keeps the lease; its worker is remembered.
CancelWake ==
  LET keep == IF wake.lease /\ IsRunning(keeper) THEN keeper
              ELSE IF wake.lease /\ IsRunning(worker) THEN worker ELSE NoCall
  IN  /\ keeper' = keep
      /\ wake' = [wake EXCEPT !.token = @ + 1, !.state = "idle",
                    !.lease = @ /\ keep # NoCall,
                    !.verified = FALSE, !.extended = FALSE, !.stage = "none"]

MayWake ==
  /\ ~closing /\ restarting = "no" /\ ~recovery.on
  /\ wake.state \notin {"working", "watching"}
  /\ ~wake.lease /\ client

BeginWake ==
  [wake EXCEPT !.state = "working", !.token = @ + 1,
     !.verified = FALSE, !.extended = FALSE, !.lease = TRUE, !.stage = "none"]

\* wake_mac when it returns True.  It may return False at any time, because
\* a message may be queued or sending; it then leaves no trace.
StartWake ==
  /\ MayWake
  /\ \E c \in Call :
       /\ \A d \in Call : call[d].gen = 0 <=> d >= c
       /\ call' = [call EXCEPT ![c] = [open |-> TRUE, gen |-> gen]]
       /\ worker' = c
  /\ wake' = BeginWake
  /\ UNCHANGED keeper

WakeOrRefused == StartWake \/ UNCHANGED wakeVars

----------------------------------------------------------------------------
\* Tear-down and rebuild.

\* stop_backend, for the generation it retires: what has not returned
\* within 250 ms is kept with its client, otherwise the client is closed.
Retire(busy) ==
  LET kept == busy \/ IsRunning(worker)
  IN  /\ retired' = IF client /\ kept
                    THEN retired \cup {[gen |-> gen, worker |-> worker]}
                    ELSE retired
      /\ lingering' = IF client /\ busy THEN lingering \cup {gen} ELSE lingering

StopBackend ==
  /\ \E busy \in {FALSE, "slow_workers" \in Hazards} : Retire(busy)
  /\ worker' = NoCall /\ probe' = FALSE
  /\ chatQueue' = FALSE /\ cycle' = IdleCycle /\ dead' = FALSE

\* _recover up to the 250 ms pause.
Recover(manual) ==
  /\ ~closing /\ restarting = "no"
  /\ restarting' = IF manual \/ recovery.on THEN "manual" ELSE "auto"
  /\ CancelWake
  /\ StopBackend
  /\ gen' = gen + 1 /\ client' = FALSE /\ sync' = "off"
  /\ UNCHANGED <<creds, closing, call>>

\* Mutant: the flags of the checks survive the rebuild.
RestartKeepsFlags(g) == [recovery EXCEPT !.gen = g]

RestartChecks(g) ==
  [recovery EXCEPT !.poll = 0, !.audit = 0, !.gen = g]

\* _finish_manual_recovery
Ended(success, poll, audit) ==
  /\ recovery' = IF success
                 THEN [recovery EXCEPT !.on = FALSE, !.gen = 0, !.state = "success",
                         !.poll = poll, !.audit = audit]
                 ELSE NoRecovery
  /\ timers' = IF success THEN timers \cup {<<"recoveryWake", 0>>} ELSE timers

Failed == Ended(FALSE, 0, 0)

\* What get_password finds when the settings have credentials: the keyring may
\* be locked, or fail, and the config file holds no copy.
Reads(hasCreds) ==
  {hasCreds} \cup IF "mute_keyring" \in Hazards THEN {FALSE} ELSE {}

\* start_backend: it returns at once with a backend up, and without a server or
\* a password.
StartBackend(isUp, hasCreds, g) ==
  \E found \in Reads(hasCreds) :
    /\ gen' = IF ~isUp /\ found THEN g + 1 ELSE g
    /\ client' = (isUp \/ found)
    /\ sync' = IF isUp THEN sync ELSE IF found THEN "running" ELSE "off"

\* go(): start_backend unless a reload has been faster, and for a manual
\* recovery the checks that it waits for.
RestartBackend ==
  /\ restarting # "no" /\ ~closing
  /\ StartBackend(client, creds, gen)
  /\ IF restarting = "manual" /\ client'
     THEN recovery' = RestartChecks(gen') /\ UNCHANGED timers
     ELSE IF restarting = "manual" /\ recovery.on THEN Failed
     ELSE UNCHANGED <<recovery, timers>>
  /\ restarting' = "no"
  /\ UNCHANGED <<creds, dead, retired, lingering, closing, wakeVars,
                 chatQueue, cycle, inbox, probe, history, faults>>

\* reload_settings after the server or the password changed, or with no
\* backend up.  stop_backend and start_backend run back to back.
ReloadSettings ==
  /\ ~closing /\ Spend
  /\ CancelWake
  /\ StopBackend
  /\ \E c \in BOOLEAN :
       /\ creds' = c
       /\ StartBackend(FALSE, c, gen + 1)
  /\ UNCHANGED <<restarting, closing, call, recovery, inbox, timers, history>>

\* recover_messages
RecoverMessages ==
  /\ ~recovery.on /\ creds /\ Spend
  /\ Recover(TRUE)
  /\ recovery' = [NoRecovery EXCEPT !.on = TRUE, !.state = "working", !.since = gen]
  /\ UNCHANGED <<inbox, timers, history>>

\* Mutant: the watchdog leaves a backend alone while its sync runs.
UnattendedAfterSync == client /\ dead /\ sync # "running"
Unattended == client /\ dead

\* _watchdog_tick: a worker is not running.
WatchdogReplaces ==
  /\ Unattended
  /\ Recover(FALSE)
  /\ UNCHANGED <<recovery, inbox, timers, history, faults>>

\* _watchdog_tick: the machine slept, polling stalled, or polls kept failing.
WatchdogRecovers ==
  /\ client /\ ~dead /\ Spend
  /\ Recover(FALSE)
  /\ UNCHANGED <<recovery, inbox, timers, history>>

\* _clean_retired_backends, once per second.
\* Clients not closed yet: the current one and those of retired backends.
OpenClients == {b.gen : b \in retired} \cup (IF client THEN {gen} ELSE {})

Idle(b) == ~IsRunning(b.worker) /\ b.gen \notin lingering

KeeperDone == keeper # NoCall /\ ~IsRunning(keeper)

CleanRetired ==
  /\ ~closing
  /\ KeeperDone \/ \E b \in retired : Idle(b)
  /\ retired' = {b \in retired : ~Idle(b)}
  /\ IF KeeperDone
     THEN /\ keeper' = NoCall
          /\ wake' = [wake EXCEPT !.lease = FALSE]
     ELSE UNCHANGED <<keeper, wake>>
  /\ UNCHANGED <<gen, client, creds, restarting, dead, lingering, closing,
                 worker, call, workVars, recovery, inbox, timers, probe,
                 history, faults>>

\* shutdown: the clients are closed under whatever is still running.
Shutdown ==
  /\ ~closing
  /\ closing' = TRUE
  /\ CancelWake
  /\ StopBackend
  /\ gen' = gen + 1 /\ client' = FALSE /\ sync' = "off"
  /\ UNCHANGED <<creds, restarting, call, recovery, inbox, timers, history, faults>>

----------------------------------------------------------------------------
\* The commands that may lead to a wake.

\* The Wake Mac button.
WakeButton ==
  /\ StartWake
  /\ UNCHANGED <<backendVars, workVars, recovery, inbox, timers, probe, history, faults>>

\* _auto_wake_tick with should_auto_wake; whether the quiet interval is over
\* and polls are healthy is left open.
AutoWakeTick ==
  /\ StartWake
  /\ UNCHANGED <<backendVars, workVars, recovery, inbox, timers, probe, history, faults>>

\* _cmd_refresh_chat (F5) for the selected chat.
RefreshChat ==
  /\ client /\ asks < MaxAsks
  /\ asks' = asks + 1
  /\ probe' = TRUE
  /\ chatQueue' = TRUE
  /\ UNCHANGED <<backendVars, wakeVars, cycle, sync, recovery, inbox, timers,
                 refreshes, faults>>

\* poke_chat for another reason: a read receipt, a chat opened, a group changed.
PokeChat ==
  /\ client /\ ~chatQueue
  /\ chatQueue' = TRUE
  /\ UNCHANGED <<backendVars, wakeVars, cycle, sync, recovery, inbox, timers,
                 probe, history, faults>>

----------------------------------------------------------------------------
\* The workers.

\* The wake's REST call ends.  Its report is queued unless the worker has
\* been retired, which disconnects its signals.
CallReturns(c, ok) ==
  /\ IsRunning(c)
  /\ call' = [call EXCEPT ![c].open = FALSE]
  /\ IF c = worker
     THEN inbox' = Append(inbox, [kind |-> "done", gen |-> call[c].gen, ok |-> ok])
     ELSE UNCHANGED inbox
  /\ UNCHANGED <<backendVars, wake, worker, keeper, workVars, recovery,
                 timers, probe, history, faults>>

\* ReconcileThread.run: the wanted rescans are swapped out, then the work.
CycleBegins ==
  /\ client /\ cycle.at = "idle"
  /\ cycle' = [at |-> "begun", target |-> chatQueue, late |-> Watching]
  /\ chatQueue' = FALSE
  /\ UNCHANGED <<backendVars, wakeVars, sync, recovery, inbox, timers, probe,
                 history, faults>>

ChatScanned ==
  /\ cycle.at = "begun" /\ cycle.target
  /\ cycle' = [cycle EXCEPT !.at = "scanned"]
  /\ Post([kind |-> "chat", gen |-> gen])
  /\ UNCHANGED <<backendVars, wakeVars, chatQueue, sync, recovery, timers, probe,
                 history, faults>>

CycleSucceeds ==
  /\ cycle.at = IF cycle.target THEN "scanned" ELSE "begun"
  /\ cycle' = IdleCycle
  /\ Post([kind |-> "poll", gen |-> gen, late |-> cycle.late])
  /\ UNCHANGED <<backendVars, wakeVars, chatQueue, sync, recovery, timers, probe,
                 history, faults>>

\* A call raised: poll_failed, and rescans not yet done are forgotten.
CycleFails ==
  /\ cycle.at # "idle"
  /\ cycle' = IdleCycle
  /\ UNCHANGED <<backendVars, wakeVars, chatQueue, sync, recovery, inbox, timers,
                 probe, history, faults>>

\* SyncThread: the audit of recent messages, then the backfill; either may
\* fail.  A backfill that succeeds changes nothing here.
SyncAudited ==
  /\ sync = "running" /\ sync' = "audited"
  /\ Post([kind |-> "audit", gen |-> gen])
  /\ UNCHANGED <<backendVars, wakeVars, chatQueue, cycle, recovery, timers, probe,
                 history, faults>>

SyncFails ==
  /\ sync \in {"running", "audited"} /\ sync' = "failed"
  /\ Post([kind |-> "syncFailed", gen |-> gen])
  /\ UNCHANGED <<backendVars, wakeVars, chatQueue, cycle, recovery, timers, probe,
                 history, faults>>

WorkerDies ==
  /\ client /\ ~dead /\ Spend
  /\ dead' = TRUE
  /\ UNCHANGED <<gen, client, creds, restarting, retired, lingering,
                 closing, wakeVars, workVars, recovery, inbox, timers, probe, history>>

\* A retired worker's last REST call returns.
LastCallReturns(g) ==
  /\ g \in lingering
  /\ lingering' = lingering \ {g}
  /\ UNCHANGED <<gen, client, creds, restarting, dead, retired, closing,
                 wakeVars, workVars, recovery, inbox, timers, probe, history, faults>>

----------------------------------------------------------------------------
\* The event loop takes the next report.

\* _accept_backend_signal
Accept(e) == e.gen = gen

Take(kind) ==
  /\ ~closing
  /\ inbox # <<>> /\ Head(inbox).kind = kind
  /\ Accept(Head(inbox))
  /\ inbox' = Tail(inbox)

DropReport ==
  /\ ~closing
  /\ inbox # <<>> /\ ~Accept(Head(inbox))
  /\ inbox' = Tail(inbox)
  /\ UNCHANGED <<backendVars, wakeVars, workVars, recovery, timers, probe,
                 history, faults>>

\* _on_wake_done
OnWakeDone ==
  /\ Take("done")
  /\ IF wake.state # "working"
     THEN UNCHANGED <<wake, timers>>
     ELSE IF Head(inbox).ok
     THEN /\ wake' = [wake EXCEPT !.state = "watching", !.stage = "early"]
          /\ timers' = timers \cup {<<"finish", wake.token>>}
     ELSE /\ wake' = [wake EXCEPT !.state = "idle", !.lease = FALSE]
          /\ UNCHANGED timers
  /\ UNCHANGED <<backendVars, worker, keeper, call, workVars, recovery, probe,
                 history, faults>>

Verifies == Watching /\ wake.stage # "early"
Expected(e) == recovery.on /\ recovery.gen = gen

\* _on_poll_ok
OnPollOk ==
  /\ Take("poll")
  /\ LET e == Head(inbox) IN
     /\ wake' = [wake EXCEPT !.verified = @ \/ Verifies]
     /\ IF Expected(e)
        THEN IF recovery.audit # 0 THEN Ended(TRUE, e.gen, recovery.audit)
             ELSE recovery' = [recovery EXCEPT !.poll = e.gen] /\ UNCHANGED timers
        ELSE UNCHANGED <<recovery, timers>>
  /\ UNCHANGED <<backendVars, worker, keeper, call, workVars, probe,
                 history, faults>>

\* _on_recovery_audit_done
OnRecoveryAuditDone ==
  /\ Take("audit")
  /\ LET e == Head(inbox) IN
     IF Expected(e)
     THEN IF recovery.poll # 0 THEN Ended(TRUE, recovery.poll, e.gen)
          ELSE recovery' = [recovery EXCEPT !.audit = e.gen] /\ UNCHANGED timers
     ELSE UNCHANGED <<recovery, timers>>
  /\ UNCHANGED <<backendVars, wakeVars, workVars, probe, history, faults>>

\* _on_sync_failed
OnSyncFailed ==
  /\ Take("syncFailed")
  /\ IF Expected(Head(inbox)) THEN Failed ELSE UNCHANGED <<recovery, timers>>
  /\ UNCHANGED <<backendVars, wakeVars, workVars, probe, history, faults>>

\* Mutant: the probe is read and left in place.
ProbeKept == probe

\* _finish_refresh_probe pops the probe whatever it then decides.
ProbeAfter == FALSE

\* _on_chat_refreshed: with a probe, nothing new in the chat and no wake in
\* the last minutes, the Refresh goes on to the Mac.
OnChatRefreshed ==
  /\ Take("chat")
  /\ IF ~probe
     THEN UNCHANGED <<wakeVars, probe, refreshes>>
     ELSE /\ probe' = ProbeAfter
          /\ \/ StartWake /\ refreshes' = refreshes + 1
             \/ UNCHANGED <<wakeVars, refreshes>>
  /\ UNCHANGED <<backendVars, workVars, recovery, timers, asks, faults>>

----------------------------------------------------------------------------
\* Timers.

\* Four seconds after the Mac confirmed; then the 60 s of the window.
WindowOpens ==
  /\ ~closing /\ Watching /\ wake.stage = "early"
  /\ wake' = [wake EXCEPT !.stage = "open"]
  /\ UNCHANGED <<backendVars, worker, keeper, call, workVars, recovery,
                 inbox, timers, probe, history, faults>>

WindowIsOver ==
  /\ ~closing /\ Watching /\ wake.stage = "open"
  /\ wake' = [wake EXCEPT !.stage = "due"]
  /\ UNCHANGED <<backendVars, worker, keeper, call, workVars, recovery,
                 inbox, timers, probe, history, faults>>

\* Mutant: the timer set for the extension is taken for an old one.
ConcernsUnextended(t) == t = wake.token /\ Watching /\ ~wake.extended

\* Mutant: any _finish_wake that fires ends the wake that is watching.
ConcernsAnyWake(t) == Watching

\* The timers of cancelled and earlier wakes stay pending; the token alone
\* tells them apart.
Concerns(t) == t = wake.token /\ Watching

FinishWake(t) ==
  /\ ~closing /\ <<"finish", t>> \in timers
  /\ t = wake.token /\ Watching => wake.stage = "due"
  /\ IF ~Concerns(t)
     THEN timers' = timers \ {<<"finish", t>>} /\ UNCHANGED wake
     ELSE IF ~wake.verified /\ ~wake.extended
     THEN wake' = [wake EXCEPT !.extended = TRUE] /\ UNCHANGED timers
     ELSE /\ wake' = [wake EXCEPT !.lease = FALSE,
                        !.state = IF wake.verified THEN "success" ELSE "idle"]
          /\ timers' = timers \ {<<"finish", t>>}
  /\ UNCHANGED <<backendVars, worker, keeper, call, workVars, recovery, inbox,
                 probe, history, faults>>

\* _clear_wake_success; a timer of an earlier wake changes nothing.
ClearWakeSuccess ==
  /\ ~closing /\ wake.state = "success"
  /\ wake' = [wake EXCEPT !.state = "idle"]
  /\ UNCHANGED <<backendVars, worker, keeper, call, workVars, recovery, inbox,
                 timers, probe, history, faults>>

StartRecoveryWake ==
  /\ ~closing /\ <<"recoveryWake", 0>> \in timers
  /\ timers' = timers \ {<<"recoveryWake", 0>>}
  /\ WakeOrRefused
  /\ UNCHANGED <<backendVars, workVars, recovery, inbox, probe, history, faults>>

ClearRecoverySuccess ==
  /\ ~closing /\ recovery.state = "success"
  /\ recovery' = NoRecovery
  /\ UNCHANGED <<backendVars, wakeVars, workVars, inbox, timers, probe, history, faults>>

\* _manual_recovery_timed_out
RecoveryTimesOut ==
  /\ ~closing /\ recovery.on
  /\ recovery' = NoRecovery
  /\ UNCHANGED <<backendVars, wakeVars, workVars, inbox, timers, probe, history, faults>>

----------------------------------------------------------------------------
Commands == WakeButton \/ AutoWakeTick \/ RefreshChat \/ PokeChat
Rebuilds == RecoverMessages \/ ReloadSettings \/ WatchdogReplaces
            \/ WatchdogRecovers \/ RestartBackend \/ CleanRetired \/ Shutdown
Workers ==
  \/ \E c \in Call, ok \in BOOLEAN : CallReturns(c, ok)
  \/ CycleBegins \/ ChatScanned \/ CycleSucceeds \/ CycleFails
  \/ SyncAudited \/ SyncFails \/ WorkerDies
  \/ \E g \in Gen : LastCallReturns(g)
Reports == DropReport \/ OnWakeDone \/ OnPollOk \/ OnRecoveryAuditDone
           \/ OnSyncFailed \/ OnChatRefreshed
Clocks ==
  \/ WindowOpens \/ WindowIsOver \/ RecoveryTimesOut
  \/ StartRecoveryWake \/ ClearRecoverySuccess
  \/ ClearWakeSuccess \/ \E t \in Token : FinishWake(t)

Next == Commands \/ Rebuilds \/ Workers \/ Reports \/ Clocks

(***************************************************************************)
(* The event loop handles what is queued to it; single shots and the       *)
(* one-second and 15-second timers fire; a REST call ends, because every   *)
(* one has a timeout.  These are finitely many steps, so that one of them  *)
(* is always taken in the end says it of each.  Nobody has to press a      *)
(* button, workers need not report, and faults need not happen.            *)
(***************************************************************************)
Timely ==
  \/ RestartBackend \/ WatchdogReplaces \/ CleanRetired
  \/ WindowOpens \/ WindowIsOver \/ \E t \in Token : FinishWake(t)
  \/ \E c \in Call, ok \in BOOLEAN : CallReturns(c, ok)

Spec == Init /\ [][Next]_vars
FairSpec == Spec /\ WF_vars(Reports) /\ WF_vars(Timely)

----------------------------------------------------------------------------
\* Two restarts of Messages never overlap, even when a rebuild cancels a
\* wake whose call cannot be cancelled and a new wake is asked for at once.
OneRestartAtATime == Cardinality(OpenCalls) <= 1

\* As long as a restart call is open the durable fence is up and the agent
\* knows that it holds it, whatever happened to the wake the call belongs to
\* (core.py:408-414 and 820-836).
FenceCoversRestart == OpenCalls # {} => wake.lease

\* An HTTP client is never closed under a call of its generation, before the
\* process ends (core.py:368-376).
ClientOutlivesCalls ==
  closing \/ lingering \cup {call[c].gen : c \in OpenCalls} \subseteq OpenClients

\* A manual recovery reports success only on a poll and an audit of one and
\* the same backend, and that backend was built after the click, however many
\* rebuilds came in between (core.py:536-540).
RecoveryIsGenuine ==
  recovery.state = "success" =>
    recovery.poll = recovery.audit /\ recovery.poll > recovery.since

\* One Refresh escalates to at most one restart of Messages, whatever other
\* reason the chat is scanned for afterwards (core.py:1302-1314).
RefreshWakesOnce == refreshes <= asks

(***************************************************************************)
(* What keeps these true from step to step (WakeMacProofs).                *)
(***************************************************************************)
\* A wake on its way holds the lease; an open call is the wake's or the one
\* the lease is kept for, and the lease is kept for one only between wakes.
CallIsHeld ==
  /\ wake.state \in {"working", "watching"} => wake.lease
  /\ OpenCalls \subseteq {worker, keeper}
  /\ IsRunning(worker) => wake.state = "working"
  /\ keeper # NoCall => /\ wake.lease /\ worker = NoCall
                         /\ wake.state \notin {"working", "watching"}

\* The answer of the current wake is queued once, when its call has returned.
IsAnswer(i) == inbox[i].kind = "done" /\ inbox[i].gen = gen
AnswerIsFinal ==
  /\ \A i \in DOMAIN inbox : inbox[i].gen <= gen
  /\ \A i \in DOMAIN inbox :
       IsAnswer(i) => wake.state = "working" /\ ~IsRunning(worker)
  /\ \A i, j \in DOMAIN inbox : IsAnswer(i) /\ IsAnswer(j) => i = j

\* A call keeps the client of its backend open, current or retired; a worker
\* that outlives its backend keeps the retired one.
ClientsAreKept ==
  /\ worker # NoCall => client /\ call[worker].gen = gen
  /\ \A c \in OpenCalls :
       c = worker \/ [gen |-> call[c].gen, worker |-> c] \in retired
  /\ lingering \subseteq {b.gen : b \in retired}

\* The reports a recovery counts are of the backend it has last built.
RecoveryIsCurrent ==
  /\ recovery.gen <= gen
  /\ restarting = "manual" => recovery.gen < gen /\ recovery.state # "success"
  /\ recovery.on =>
       /\ recovery.state = "working" /\ recovery.since < gen
       /\ recovery.gen # 0 => recovery.since < recovery.gen
       /\ {recovery.poll, recovery.audit} \subseteq {0, recovery.gen}

\* Generations and tokens are used up by faults and calls alone.
CallsMade(n) == \A c \in Call : call[c].gen = 0 <=> c > n
Spent ==
  /\ gen >= 1
  /\ closing => ~client /\ gen <= 2 * faults + 2
  /\ ~closing => gen <= 2 * faults + 1
  /\ ~closing /\ ~client /\ restarting # "no" => gen <= 2 * faults
  /\ dead => client /\ gen < 2 * faults
  /\ \E n \in 0..MaxWakes :
       /\ CallsMade(n)
       /\ refreshes <= n
       /\ wake.token <= n + faults + 1
       /\ ~closing => wake.token <= n + faults
       /\ dead => wake.token < n + faults
  /\ refreshes <= asks
  /\ probe => refreshes < asks

WakeInv ==
  /\ TypeOK
  /\ OneRestartAtATime /\ FenceCoversRestart /\ ClientOutlivesCalls
  /\ CallIsHeld /\ AnswerIsFinal /\ ClientsAreKept
  /\ RecoveryIsCurrent /\ Spent

\* While Messages relaunches the fence is given up only by the cancellation
\* of the wake or at the end of its own window; timers left over from earlier
\* wakes do not end it (core.py:752).
LeaseCoversRelaunch ==
  [][ Watching /\ ~wake'.lease /\ wake'.token = wake.token
        => wake.stage = "due" ]_vars

\* A wake is called verified by a scan whose reading began after the Mac had
\* confirmed the restart (core.py:755 "authoritative post-restart scan").  Not
\* so: a check that was under way counts if it ends late enough (README, 9).
VerifiedByLaterScan ==
  [][ ~wake.verified /\ wake'.verified => Head(inbox).late ]_vars

\* Whatever becomes of a wake, its lease is returned: by its window, by its
\* failure, or after a rebuild by the clean-up of retired backends.
LeaseIsReturned == wake.lease ~> ~wake.lease \/ closing

\* A backend with a dead worker is replaced by a working one, manual
\* recoveries and reloads in between included.  Not so when the password cannot
\* be read at that moment: nobody tries again (README, 9).
WorkersAreReplaced == dead /\ creds ~> (client /\ ~dead) \/ ~creds \/ closing
=============================================================================
