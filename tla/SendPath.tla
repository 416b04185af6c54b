------------------------------- MODULE SendPath -------------------------------
(***************************************************************************)
(* Sending a text, from the click in the window to the Mac's answer.       *)
(*                                                                         *)
(*   window    enqueues rows, resets failed rows on a Retry click, and     *)
(*             asks the agent over a local pipe to submit them             *)
(*   agent     owns one SendThread per backend generation; a rebuild stops *)
(*             the old thread without waiting for its REST call to end, so *)
(*             a retired thread and its replacement can run together       *)
(*   threads   take ids from an in-memory queue, claim the row, post it to *)
(*             the Mac, and write the outcome                              *)
(*   wake      the agent restarts Messages on the Mac behind the durable   *)
(*             maintenance lease (reduced here to what the lease sees;     *)
(*             the state machine of one wake is in its own module)         *)
(*                                                                         *)
(* The agent process can be killed at any time and is started again by its *)
(* supervisor; the process-wide lock file keeps two agents from running at *)
(* once, so threads of a dead agent are simply gone.                       *)
(***************************************************************************)
EXTENDS OutboxStore

CONSTANTS
  Thread,      \* slots for SendThreads alive at once (bounds the model)
  NoThread,    \* AgentCore.sender_t is None
  Hazards,     \* which of AllHazards the environment may produce
  MaxClicks,   \* bound: Send and Retry clicks on each row
  MaxFaults    \* bound: exits, link losses, rebuilds, wakes, dead threads

(***************************************************************************)
(*   late_boot      a backend is torn down before its SendThread has run   *)
(*                  recover_outbox (stop_backend waits 250 ms per worker)  *)
(*   stale_view     Retry is clicked on a bubble whose row has moved on    *)
(*                  since the thread view last read the table              *)
(*   db_fault       a SQLite call raises and ends the thread making it     *)
(*   exit_mid_wake  the agent process ends while it holds the lease        *)
(***************************************************************************)
AllHazards == {"late_boot", "stale_view", "db_fault", "exit_mid_wake"}

NoId == 0

ASSUME SendPathAssumption ==
  /\ NoThread \notin Thread
  /\ Hazards \subseteq AllHazards
  /\ MaxClicks \in [Id -> Nat]
  /\ MaxFaults \in Nat

VARIABLES
  agent,       \* the agent process: "down" or "up"
  sender,      \* AgentCore.sender_t
  pc,          \* where each thread is in SendThread.run
  cur,         \* the outbox id each thread is working on
  queue,       \* SendThread.q, without the None that stop() appends
  stopping,    \* threads whose _stop is set
  marking,     \* threads created with recover_sending=True
  holding,     \* AgentCore._wake_lease_active: "no" or "yes"
  mac,         \* Messages on the Mac: "up"; "restarting" while a restart
               \* request is open; "abandoned" when its connection is gone
               \* and the Mac may still be serving it
  link,        \* validated channel from the window to the agent
  pipe,        \* commands written to it and not yet handled
  outdated,    \* rows whose bubble still offers Retry, although the row
               \* has been claimed since the thread view read it
  clicks,      \* history: Send and Retry clicks per row
  faults       \* uses of the MaxFaults budget

threadVars == <<pc, cur, queue, stopping, marking>>
wakeVars   == <<holding, mac>>
windowVars == <<link, pipe, outdated, clicks>>
vars == <<storeVars, agent, sender, threadVars, wakeVars, windowVars, faults>>

Cmd == [cmd : {"submit_outbox"}, id : Id] \cup [cmd : {"kick_outbox"}, id : {NoId}]
Submit(i) == [cmd |-> "submit_outbox", id |-> i]
Kick == [cmd |-> "kick_outbox", id |-> NoId]

TypeOK ==
  /\ StoreTypeOK
  /\ agent \in {"down", "up"}
  /\ sender \in Thread \cup {NoThread}
  /\ pc \in [Thread -> {"off", "boot", "get", "claim", "check", "lease", "wire"}]
  /\ cur \in [Thread -> Id \cup {NoId}]
  /\ queue \in [Thread -> Seq(Id)]
  /\ stopping \subseteq Thread
  /\ marking \subseteq Thread
  /\ holding \in {"no", "yes"}
  /\ mac \in {"up", "restarting", "abandoned"}
  /\ link \in {"down", "up"}
  /\ pipe \in Seq(Cmd)
  /\ outdated \subseteq Id
  /\ clicks \in [Id -> Nat]
  /\ faults \in Nat

Init ==
  /\ StoreInit
  /\ agent = "down" /\ sender = NoThread
  /\ pc = [t \in Thread |-> "off"]
  /\ cur = [t \in Thread |-> NoId]
  /\ queue = [t \in Thread |-> <<>>]
  /\ stopping = {} /\ marking = {}
  /\ holding = "no" /\ mac = "up"
  /\ link = "down" /\ pipe = <<>>
  /\ outdated = {}
  /\ clicks = [i \in Id |-> 0]
  /\ faults = 0

Running(t) == pc[t] # "off"
OnWire(t, i) == pc[t] = "wire" /\ cur[t] = i
Spend == faults < MaxFaults /\ faults' = faults + 1

----------------------------------------------------------------------------
\* The window.

\* AgentLink.send: a command the channel cannot take now is dropped.
WriteCmd(c) == pipe' = IF link = "up" THEN Append(pipe, c) ELSE pipe

OnSend(i) ==
  /\ Enqueue(i)
  /\ clicks' = [clicks EXCEPT ![i] = 1]
  /\ WriteCmd(Submit(i))
  /\ outdated' = {}
  /\ UNCHANGED <<agent, sender, threadVars, wakeVars, link, faults>>

\* A click on a bubble that shows "failed": the row is overwritten unread.
OnRetry(i) ==
  /\ row[i] = "failed" \/ i \in outdated
  /\ clicks[i] < MaxClicks[i]
  /\ OutboxSet(i, "queued")
  /\ clicks' = [clicks EXCEPT ![i] = @ + 1]
  /\ WriteCmd(Submit(i))
  /\ outdated' = {}
  /\ UNCHANGED <<agent, sender, threadVars, wakeVars, link, faults>>

\* refresh_outbox on an outbox_changed event, or when a chat is opened.
Repaint ==
  /\ outdated # {}
  /\ outdated' = {}
  /\ UNCHANGED <<storeVars, agent, sender, threadVars, wakeVars, link, pipe,
                 clicks, faults>>

\* A matching hello validates the channel; kick_outbox is the first command.
LinkUp ==
  /\ agent = "up" /\ link = "down"
  /\ link' = "up"
  /\ pipe' = <<Kick>>
  /\ UNCHANGED <<storeVars, agent, sender, threadVars, wakeVars, outdated,
                 clicks, faults>>

LinkDown ==
  /\ link = "up"
  /\ link' = "down" /\ pipe' = <<>>
  /\ Spend
  /\ UNCHANGED <<storeVars, agent, sender, threadVars, wakeVars, outdated, clicks>>

----------------------------------------------------------------------------
\* The agent's event loop.

\* Appends to the current SendThread's queue; "if not self.sender_t: return".
SubmitAll(ids) ==
  queue' = IF sender = NoThread THEN queue
           ELSE [queue EXCEPT ![sender] = @ \o ids]

HandleSubmit ==
  /\ pipe # <<>> /\ Head(pipe).cmd = "submit_outbox"
  /\ SubmitAll(<<Head(pipe).id>>)
  /\ pipe' = Tail(pipe)
  /\ UNCHANGED <<storeVars, agent, sender, pc, cur, stopping, marking,
                 wakeVars, link, outdated, clicks, faults>>

HandleKick ==
  /\ pipe # <<>> /\ Head(pipe).cmd = "kick_outbox"
  /\ \E ids \in QueuedInOrder : SubmitAll(ids)
  /\ pipe' = Tail(pipe)
  /\ UNCHANGED <<storeVars, agent, sender, pc, cur, stopping, marking,
                 wakeVars, link, outdated, clicks, faults>>

AgentStart ==
  /\ agent = "down"
  /\ agent' = "up"
  /\ UNCHANGED <<storeVars, sender, threadVars, wakeVars, windowVars, faults>>

\* start_backend: the flag that decides what the new thread does to rows
\* left at "sending" is computed here and used when the thread first runs.
StartBackend(t) ==
  /\ agent = "up" /\ sender = NoThread
  /\ ~Running(t)
  /\ sender' = t
  /\ pc' = [pc EXCEPT ![t] = "boot"]
  /\ queue' = [queue EXCEPT ![t] = <<>>]
  /\ cur' = [cur EXCEPT ![t] = NoId]
  /\ stopping' = stopping \ {t}
  /\ marking' = IF \E u \in Thread : Running(u)
                THEN marking \ {t} ELSE marking \cup {t}
  /\ UNCHANGED <<storeVars, agent, wakeVars, windowVars, faults>>

\* _cancel_wake then stop_backend, as in _recover and reload_settings.  A
\* restart request still running keeps its lease; one that has returned
\* gives it up, without a kick.
StopBackend ==
  /\ sender # NoThread
  /\ "late_boot" \in Hazards \/ pc[sender] # "boot"
  /\ stopping' = stopping \cup {sender}
  /\ sender' = NoThread
  /\ IF holding = "yes" /\ mac # "restarting"
     THEN holding' = "no" /\ FreeLease
     ELSE UNCHANGED <<storeVars, holding>>
  /\ UNCHANGED <<agent, pc, cur, queue, marking, mac, windowVars>>

Rebuild == Spend /\ StopBackend

\* _watchdog_tick: a sender that is no longer running forces a rebuild.
Watchdog ==
  /\ sender # NoThread /\ ~Running(sender)
  /\ StopBackend
  /\ UNCHANGED faults

\* What the end of the process does, however it ends.
ProcessGone ==
  /\ agent' = "down" /\ sender' = NoThread
  /\ pc' = [t \in Thread |-> "off"]
  /\ cur' = [t \in Thread |-> NoId]
  /\ queue' = [t \in Thread |-> <<>>]
  /\ stopping' = {} /\ marking' = {}
  /\ holding' = "no"
  /\ link' = "down" /\ pipe' = <<>>

\* Killed, or ended with threads still in their calls: the table and the
\* lease stay as they are.
AgentKilled ==
  /\ agent = "up"
  /\ holding = "yes" => "exit_mid_wake" \in Hazards
  /\ Spend
  /\ ProcessGone
  /\ UNCHANGED <<storeVars, mac, outdated, clicks>>

\* shutdown: the HTTP clients are closed so that running calls fail, the
\* threads write those failures, and the lease is given up because its
\* worker has returned, whatever the Mac is doing with the request.
AgentShutdown ==
  /\ agent = "up"
  /\ holding = "yes" => "exit_mid_wake" \in Hazards
  /\ Spend
  /\ ProcessGone
  /\ row' = [i \in Id |-> IF \E t \in Thread : OnWire(t, i)
                          THEN "failed" ELSE row[i]]
  /\ lease' = IF holding = "yes" THEN "free" ELSE lease
  /\ mac' = IF holding = "yes" /\ mac = "restarting" THEN "abandoned" ELSE mac
  /\ UNCHANGED <<attempts, outdated, clicks>>

----------------------------------------------------------------------------
\* Wake Mac, as the lease sees it.

WakeMac ==
  /\ sender # NoThread /\ holding = "no"
  /\ TryBeginMacMaintenance
  /\ holding' = "yes" /\ mac' = "restarting"
  /\ Spend
  /\ UNCHANGED <<agent, sender, threadVars, windowVars>>

\* The connection breaks under the request: the worker returns an error.
WakeCallLost ==
  /\ holding = "yes" /\ mac = "restarting"
  /\ mac' = "abandoned"
  /\ Spend
  /\ UNCHANGED <<storeVars, agent, sender, threadVars, holding, windowVars>>

\* The Mac has finished restarting Messages; a waiting worker returns.
MacDone ==
  /\ mac # "up"
  /\ mac' = "up"
  /\ UNCHANGED <<storeVars, agent, sender, threadVars, holding, windowVars,
                 faults>>

\* Mutant: the lease is given up without a kick.
ReleaseQuietly ==
  /\ holding = "yes" /\ mac # "restarting"
  /\ holding' = "no"
  /\ FreeLease
  /\ UNCHANGED <<agent, sender, threadVars, mac, windowVars, faults>>

\* _release_wake_lease(kick=True): the wake failed, finished watching, or
\* its cancelled worker was found to have returned.
ReleaseLease ==
  /\ holding = "yes" /\ mac # "restarting"
  /\ holding' = "no"
  /\ FreeLease
  /\ \E ids \in QueuedInOrder : SubmitAll(ids)
  /\ UNCHANGED <<agent, sender, pc, cur, stopping, marking, mac, windowVars,
                 faults>>

\* 150 s have passed.  The restart request is bounded well below that.
LeaseExpires ==
  /\ lease = "held" /\ mac = "up"
  /\ FreeLease
  /\ UNCHANGED <<agent, sender, threadVars, wakeVars, windowVars, faults>>

----------------------------------------------------------------------------
\* SendThread.run.

\* while not self._stop
NextRound(t) == pc' = [pc EXCEPT ![t] = IF t \in stopping THEN "off" ELSE "get"]

Boot(t) ==
  /\ pc[t] = "boot"
  /\ RecoverOutbox(t \in marking)
  /\ \E ids \in QueuedInOrder : queue' = [queue EXCEPT ![t] = @ \o ids]
  /\ NextRound(t)
  /\ UNCHANGED <<agent, sender, cur, stopping, marking, wakeVars, windowVars,
                 faults>>

\* q.get().  A thread stopped while it waits here may still take one id: the
\* None that stop() appends comes behind the ids already in the queue.
Get(t) ==
  /\ pc[t] = "get" /\ queue[t] # <<>>
  /\ cur' = [cur EXCEPT ![t] = Head(queue[t])]
  /\ queue' = [queue EXCEPT ![t] = Tail(@)]
  /\ pc' = [pc EXCEPT ![t] = "claim"]
  /\ UNCHANGED <<storeVars, agent, sender, stopping, marking, wakeVars,
                 windowVars, faults>>

\* The None is reached, or the get timed out and _stop was set meanwhile.
Exit(t) ==
  /\ pc[t] = "get" /\ t \in stopping
  /\ pc' = [pc EXCEPT ![t] = "off"]
  /\ queue' = [queue EXCEPT ![t] = <<>>]
  /\ UNCHANGED <<storeVars, agent, sender, cur, stopping, marking,
                 wakeVars, windowVars, faults>>

Claim(t) ==
  /\ pc[t] = "claim"
  /\ \/ /\ ClaimOutbox(cur[t])
        /\ pc' = [pc EXCEPT ![t] = "wire"]
        /\ outdated' = IF "stale_view" \in Hazards /\ row[cur[t]] = "failed"
                       THEN outdated \cup {cur[t]} ELSE outdated
     \/ /\ ~Claimable(cur[t])
        /\ pc' = [pc EXCEPT ![t] = "check"]
        /\ UNCHANGED <<storeVars, outdated>>
  /\ UNCHANGED <<agent, sender, cur, queue, stopping, marking, wakeVars,
                 link, pipe, clicks, faults>>

\* The claim failed: read the row again, and drop an id that is not queued.
Check(t) ==
  /\ pc[t] = "check"
  /\ IF t \notin stopping /\ row[cur[t]] = "queued"
     THEN pc' = [pc EXCEPT ![t] = "lease"] /\ UNCHANGED cur
     ELSE cur' = [cur EXCEPT ![t] = NoId] /\ NextRound(t)
  /\ UNCHANGED <<storeVars, agent, sender, queue, stopping, marking, wakeVars,
                 windowVars, faults>>

\* mac_maintenance_active, a second query: keep the id in the queue only while
\* the lease that presumably refused it is still held.
CheckLease(t) ==
  /\ pc[t] = "lease"
  /\ queue' = IF lease = "held" THEN [queue EXCEPT ![t] = Append(@, cur[t])]
              ELSE queue
  /\ cur' = [cur EXCEPT ![t] = NoId]
  /\ NextRound(t)
  /\ UNCHANGED <<storeVars, agent, sender, stopping, marking, wakeVars,
                 windowVars, faults>>

\* Mutant: a failure is logged and not written to the row.
AnswerLogged(t) ==
  /\ pc[t] = "wire"
  /\ OutboxSet(cur[t], "sent") \/ UNCHANGED storeVars
  /\ cur' = [cur EXCEPT ![t] = NoId]
  /\ NextRound(t)
  /\ UNCHANGED <<agent, sender, queue, stopping, marking, wakeVars,
                 windowVars, faults>>

\* The REST call returns or raises.  "failed" covers a refusal, a time-out
\* after the Mac took the text, and any local error after the answer.
Answer(t) ==
  /\ pc[t] = "wire"
  /\ \E outcome \in {"sent", "failed"} : OutboxSet(cur[t], outcome)
  /\ cur' = [cur EXCEPT ![t] = NoId]
  /\ NextRound(t)
  /\ UNCHANGED <<agent, sender, queue, stopping, marking, wakeVars,
                 windowVars, faults>>

\* An exception outside the try block, or raised by the handler itself.
ThreadDies(t) ==
  /\ "db_fault" \in Hazards
  /\ pc[t] \in {"boot", "claim", "check", "lease", "wire"}
  /\ pc' = [pc EXCEPT ![t] = "off"]
  /\ Spend
  /\ UNCHANGED <<storeVars, agent, sender, cur, queue, stopping, marking,
                 wakeVars, windowVars>>

ThreadStep(t) ==
  Boot(t) \/ Get(t) \/ Exit(t) \/ Claim(t) \/ Check(t) \/ CheckLease(t) \/ Answer(t)

----------------------------------------------------------------------------
Next ==
  \/ \E i \in Id : OnSend(i) \/ OnRetry(i)
  \/ Repaint \/ LinkUp \/ LinkDown
  \/ HandleSubmit \/ HandleKick
  \/ AgentStart \/ Rebuild \/ Watchdog \/ AgentKilled \/ AgentShutdown
  \/ \E t \in Thread : StartBackend(t)
  \/ WakeMac \/ WakeCallLost \/ MacDone \/ ReleaseLease \/ LeaseExpires
  \/ \E t \in Thread : ThreadStep(t) \/ ThreadDies(t)

Spec == Init /\ [][Next]_vars

\* What the scheduling of the code justifies: the event loop and the threads
\* keep running, REST calls are time-bounded, the supervisor restarts the
\* agent, the window reconnects.  No fairness on clicks or on faults.
Fairness ==
  /\ WF_vars(AgentStart) /\ WF_vars(LinkUp)
  /\ WF_vars(HandleSubmit) /\ WF_vars(HandleKick)
  /\ WF_vars(\E t \in Thread : StartBackend(t)) /\ WF_vars(Watchdog)
  /\ WF_vars(MacDone) /\ WF_vars(ReleaseLease) /\ WF_vars(LeaseExpires)
  /\ \A t \in Thread : WF_vars(ThreadStep(t))

FairSpec == Spec /\ Fairness

----------------------------------------------------------------------------
(***************************************************************************)
(* No two SendThreads are ever in a REST call for the same row: the        *)
(* promise of claim_outbox that only one claimant "reaches the remote send *)
(* call", across rebuilds, recoveries, duplicate submissions and retries.  *)
(***************************************************************************)
SingleClaimant ==
  \A t, u \in Thread :
    pc[t] = "wire" /\ pc[u] = "wire" /\ t # u => cur[t] # cur[u]

(***************************************************************************)
(* A row that a thread is sending reads "sending" for the whole call.  So  *)
(* no bubble offers Retry for a text that is still on its way, and         *)
(* outbox_active_count sees every call in progress.                        *)
(***************************************************************************)
WireRowIsSending == \A t \in Thread : pc[t] = "wire" => row[cur[t]] = "sending"

(***************************************************************************)
(* While the request to restart Messages is open, or the agent that made   *)
(* it was killed, no text is on the wire: the lease excludes late claims   *)
(* and the active count excludes early ones.                               *)
(***************************************************************************)
RestartFencesSends ==
  mac = "restarting" => \A t \in Thread : pc[t] # "wire"

(***************************************************************************)
(* The purpose of that fence, whoever waits for the answer: "Quitting      *)
(* Messages mid-send could interrupt an AppleScript delivery" (wake_mac).  *)
(* Not so when the restart call breaks (README, 9).                        *)
(***************************************************************************)
MacRestartsAlone == mac # "up" => \A t \in Thread : pc[t] # "wire"

(***************************************************************************)
(* A row at "sending" with no thread behind it is about to be turned red:  *)
(* no agent runs, or the thread that will mark it has not run yet.  Such a *)
(* row otherwise shows "sending" for ever and blocks every Wake Mac.       *)
(***************************************************************************)
RecoveryPending ==
  \/ agent = "down"
  \/ sender = NoThread /\ \A t \in Thread : ~Running(t)
  \/ \E t \in marking : pc[t] = "boot"

NoOrphanedSending ==
  \A i \in RowsIn({"sending"}) : RecoveryPending \/ \E t \in Thread : OnWire(t, i)

(***************************************************************************)
(* The whole path implements SendFence: posts and restarts of Messages     *)
(* exclude each other, no row is posted twice at once, and no row is       *)
(* posted again after a positive answer, whatever retired threads,         *)
(* duplicate queue entries, recoveries and Retry clicks do.                *)
(***************************************************************************)
Calls == {<<t, cur[t]>> : t \in {u \in Thread : pc[u] = "wire"}}
Accepted == RowsIn({"sent"})
Restart == IF mac = "restarting" THEN "yes" ELSE "no"

Fence == INSTANCE SendFence WITH
  calls <- Calls, accepted <- Accepted, restart <- Restart

ImplementsFence == Fence!Spec

(***************************************************************************)
(* The inductive invariant behind these properties.  It holds as long as   *)
(* a SendThread has booted before its backend is torn down and no Retry is *)
(* clicked on an outdated bubble.                                          *)
(***************************************************************************)
BootIsCurrent == \A t \in Thread : pc[t] = "boot" => t = sender
MarkerIsAlone ==
  \A t \in marking : pc[t] = "boot" => \A u \in Thread \ {t} : pc[u] = "off"
NothingOutdated == outdated = {}
WorkHasId == \A t \in Thread : pc[t] \in {"claim", "check", "lease", "wire"} => cur[t] \in Id
RestartHoldsLease == mac = "restarting" => lease = "held"

SendInv ==
  /\ TypeOK
  /\ SingleClaimant /\ WireRowIsSending /\ RestartFencesSends
  /\ BootIsCurrent /\ MarkerIsAlone /\ NothingOutdated /\ WorkHasId
  /\ RestartHoldsLease

(***************************************************************************)
(* "A failed send never retries silently ... and waits for a click"        *)
(* (outbox.py): a row is posted to the Mac at most once per click.  Not so *)
(* for a row that is in the queue twice (README, 9).                       *)
(***************************************************************************)
OneAttemptPerClick == \A i \in Id : attempts[i] <= clicks[i]

(***************************************************************************)
(* "Nothing is lost" (_on_send), "keep this row alive in the sender queue  *)
(* until it can be claimed safely" (SendThread.run): a queued row is       *)
(* claimed sooner or later.                                                *)
(***************************************************************************)
QueuedIsClaimed == \A i \in Id : row[i] = "queued" ~> row[i] # "queued"

(***************************************************************************)
(* Every attempt gets a visible verdict: "sending" is never permanent.     *)
(***************************************************************************)
SendingIsResolved == \A i \in Id : row[i] = "sending" ~> row[i] # "sending"
=============================================================================
