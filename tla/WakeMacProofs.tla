----------------------------- MODULE WakeMacProofs -----------------------------
(***************************************************************************)
(* Proofs about WakeMac for every number of wakes, refreshes, faults and   *)
(* queued reports, with and without workers that outlive their backend.    *)
(***************************************************************************)
EXTENDS WakeMac, FiniteSetTheorems, SequenceTheorems, TLAPS

USE WakeMacAssumption DEF Call, NoCall, Gen, Token,
    backendVars, wakeVars, workVars, history

(***************************************************************************)
(* Reports join and leave the queue of the event loop one at a time.       *)
(***************************************************************************)
LEMMA InboxType ==
  ASSUME TypeOK, NEW r \in Report
  PROVE  /\ Append(inbox, r) \in Seq(Report)
         /\ inbox # <<>> => Head(inbox) \in Report /\ Tail(inbox) \in Seq(Report)
<1>1. inbox \in Seq(Report)
  BY DEF TypeOK, LoopTypes
<1> QED
  BY <1>1, AppendProperties, HeadTailProperties

(***************************************************************************)
(* A wake takes the first free call and nothing but it.                    *)
(***************************************************************************)
LEMMA StartWakeStep ==
  ASSUME TypeOK, Spent, StartWake
  PROVE  \E c \in Call :
           /\ \A d \in Call : call[d].gen = 0 <=> d >= c
           /\ call' = [call EXCEPT ![c] = [open |-> TRUE, gen |-> gen]]
           /\ \A d \in Call : call'[d].gen = 0 <=> d > c
           /\ worker' = c /\ keeper' = keeper /\ wake' = BeginWake
<1>1. PICK c \in Call :
        /\ \A d \in Call : call[d].gen = 0 <=> d >= c
        /\ call' = [call EXCEPT ![c] = [open |-> TRUE, gen |-> gen]]
        /\ worker' = c
  BY DEF StartWake
<1>2. \A d \in Call : call'[d].gen = 0 <=> d > c
  BY <1>1 DEF TypeOK, WakeTypes, BackendTypes, Spent
<1> QED
  BY <1>1, <1>2 DEF StartWake

(***************************************************************************)
(* Generations, tokens and restarts stay within what faults and calls use  *)
(* up, and every Refresh leads to at most one restart.                     *)
(***************************************************************************)
LEMMA SpentStep ==
  ASSUME TypeOK, Spent, [Next]_vars
  PROVE  Spent'
<1> DEFINE Numbers ==
      /\ gen \in Nat /\ faults \in Nat /\ refreshes \in Nat /\ asks \in Nat
      /\ dead \in BOOLEAN /\ client \in BOOLEAN /\ closing \in BOOLEAN
      /\ probe \in BOOLEAN /\ wake \in WakeRecord
<1>0. Numbers
  BY DEF TypeOK, BackendTypes, WakeTypes, LoopTypes, CountTypes
<1> USE <1>0
<1> HIDE DEF Numbers
<1> PICK n \in 0..MaxWakes :
      /\ CallsMade(n)
      /\ refreshes <= n
      /\ wake.token <= n + faults + 1
      /\ ~closing => wake.token <= n + faults
      /\ dead => wake.token < n + faults
  BY DEF Spent
<1>1. ASSUME StartWake, UNCHANGED <<backendVars, asks, faults>>,
             \/ UNCHANGED <<probe, refreshes>>
             \/ probe /\ ~probe' /\ refreshes' = refreshes + 1
      PROVE  Spent'
  <2>1. PICK c \in Call :
          /\ \A d \in Call : call[d].gen = 0 <=> d >= c
          /\ \A d \in Call : call'[d].gen = 0 <=> d > c
          /\ wake' = BeginWake
    BY <1>1, StartWakeStep
  <2>2. c = n + 1
    BY <2>1 DEF CallsMade
  <2>3. wake'.token = wake.token + 1
    BY <2>1 DEF BeginWake, Numbers, WakeRecord
  <2>4. c \in 0..MaxWakes /\ CallsMade(c)'
    BY <2>1 DEF CallsMade
  <2> QED
    BY <1>1, <2>2, <2>3, <2>4 DEF Spent, Numbers, WakeRecord
<1>2. ASSUME UNCHANGED <<gen, client, restarting, dead, closing, faults, refreshes, asks>>,
             probe' = probe \/ probe' = FALSE, wake'.token = wake.token,
             \A c \in Call : call'[c].gen = call[c].gen
      PROVE  Spent'
  BY <1>2 DEF Spent, Numbers, CallsMade, WakeRecord
<1>3. CASE Commands
  <2>1. CASE WakeButton \/ AutoWakeTick
    BY <1>1, <2>1 DEF WakeButton, AutoWakeTick
  <2>2. CASE RefreshChat
    BY <2>2 DEF RefreshChat, Spent, Numbers, CallsMade, WakeRecord
  <2>3. CASE PokeChat
    BY <1>2, <2>3 DEF PokeChat
  <2> QED
    BY <1>3, <2>1, <2>2, <2>3 DEF Commands
<1>4. CASE Rebuilds
  <2>1. ASSUME Recover(TRUE) \/ Recover(FALSE), UNCHANGED history,
               faults' = faults + 1 \/ (dead /\ faults' = faults)
        PROVE  Spent'
    <3>1. /\ gen' = gen + 1 /\ ~client' /\ ~dead' /\ ~probe'
          /\ ~closing /\ ~closing' /\ wake'.token = wake.token + 1 /\ call' = call
      <4>1. wake'.token = wake.token + 1
        BY <2>1 DEF Recover, CancelWake, WakeRecord, Numbers
      <4>2. ~dead' /\ ~probe'
        BY <2>1 DEF Recover, StopBackend
      <4> QED
        BY <2>1, <4>1, <4>2 DEF Recover
    <3> QED
      BY <2>1, <3>1 DEF Spent, Numbers, CallsMade, WakeRecord
  <2>2. CASE RecoverMessages
    BY <2>1, <2>2 DEF RecoverMessages, Spend
  <2>3. CASE WatchdogReplaces \/ WatchdogRecovers
    BY <2>1, <2>3 DEF WatchdogReplaces, WatchdogRecovers, Unattended, Spend
  <2>4. CASE ReloadSettings
    BY <2>4 DEF ReloadSettings, Spend, CancelWake, StopBackend, StartBackend, Spent, Numbers, CallsMade, WakeRecord
  <2>5. CASE RestartBackend
    <3>1. /\ ~closing /\ restarting # "no" /\ restarting' = "no"
          /\ IF client THEN client' /\ gen' = gen ELSE gen' \in {gen, gen + 1}
          /\ UNCHANGED <<dead, closing, wake, call, probe, history, faults>>
      BY <2>5 DEF RestartBackend, StartBackend
    <3> QED
      BY <3>1 DEF Spent, Numbers, CallsMade
  <2>6. CASE CleanRetired
    BY <1>2, <2>6 DEF CleanRetired, Numbers, WakeRecord
  <2>7. CASE Shutdown
    BY <2>7 DEF Shutdown, CancelWake, StopBackend, Spent, Numbers, CallsMade, WakeRecord
  <2> QED
    BY <1>4, <2>2, <2>3, <2>4, <2>5, <2>6, <2>7 DEF Rebuilds
<1>5. CASE Workers
  <2>1. ASSUME NEW c \in Call, NEW ok \in BOOLEAN, CallReturns(c, ok)
        PROVE  Spent'
    BY <1>2, <2>1 DEF CallReturns, Numbers, WakeRecord
  <2>2. CASE CycleBegins \/ ChatScanned \/ CycleSucceeds \/ CycleFails
             \/ SyncAudited \/ SyncFails
    BY <1>2, <2>2 DEF CycleBegins, ChatScanned, CycleSucceeds, CycleFails,
                      SyncAudited, SyncFails
  <2>3. CASE WorkerDies
    <3>1. /\ client /\ faults' = faults + 1
          /\ UNCHANGED <<gen, client, restarting, closing, wake, call, probe, history>>
      BY <2>3 DEF WorkerDies, Spend
    <3> QED
      BY <3>1 DEF Spent, Numbers, CallsMade, WakeRecord
  <2>4. ASSUME NEW g \in Gen, LastCallReturns(g) PROVE Spent'
    BY <1>2, <2>4 DEF LastCallReturns
  <2> QED
    BY <1>5, <2>1, <2>2, <2>3, <2>4 DEF Workers
<1>6. CASE Reports
  <2>1. CASE OnChatRefreshed
    BY <1>1, <1>2, <2>1 DEF OnChatRefreshed, ProbeAfter, Numbers, WakeRecord
  <2>2. CASE OnWakeDone \/ OnPollOk
    BY <1>2, <2>2 DEF OnWakeDone, OnPollOk, Numbers, WakeRecord
  <2>3. CASE DropReport \/ OnRecoveryAuditDone \/ OnSyncFailed
    BY <1>2, <2>3 DEF DropReport, OnRecoveryAuditDone, OnSyncFailed
  <2> QED
    BY <1>6, <2>1, <2>2, <2>3 DEF Reports
<1>7. CASE Clocks
  <2>1. CASE StartRecoveryWake
    BY <1>1, <1>2, <2>1 DEF StartRecoveryWake, WakeOrRefused
  <2>2. CASE WindowOpens \/ WindowIsOver \/ ClearWakeSuccess
    BY <1>2, <2>2 DEF WindowOpens, WindowIsOver, ClearWakeSuccess, Numbers, WakeRecord
  <2>3. CASE RecoveryTimesOut \/ ClearRecoverySuccess
    BY <1>2, <2>3 DEF RecoveryTimesOut, ClearRecoverySuccess
  <2>4. ASSUME NEW t \in Token, FinishWake(t) PROVE Spent'
    BY <1>2, <2>4 DEF FinishWake, Numbers, WakeRecord
  <2> QED
    BY <1>7, <2>1, <2>2, <2>3, <2>4 DEF Clocks
<1>8. CASE UNCHANGED vars
  BY <1>2, <1>8 DEF vars
<1> QED
  BY <1>3, <1>4, <1>5, <1>6, <1>7, <1>8 DEF Next

(***************************************************************************)
(* Every step keeps the state within its types; the bounds of generations, *)
(* tokens and restarts come from what has been spent.                      *)
(***************************************************************************)
LEMMA TypeStep ==
  ASSUME TypeOK, Spent, [Next]_vars
  PROVE  TypeOK'
<1>0. Spent' /\ BackendTypes /\ WakeTypes /\ WorkTypes /\ LoopTypes /\ CountTypes
  BY SpentStep DEF TypeOK
<1> USE <1>0
<1>1. ASSUME gen' \in Nat, wake'.token \in Nat, refreshes' \in Nat,
             faults' \in 0..MaxFaults, closing' \in BOOLEAN
      PROVE  /\ gen' \in Gen /\ wake'.token \in Token
             /\ refreshes' \in 0..MaxWakes
  <2>1. PICK n \in 0..MaxWakes : refreshes' <= n /\ wake'.token <= n + faults' + 1
    BY DEF Spent
  <2>2. (closing' => gen' <= 2 * faults' + 2) /\ (~closing' => gen' <= 2 * faults' + 1)
    BY DEF Spent
  <2>3. faults' \in Nat /\ faults' <= MaxFaults
    BY <1>1
  <2>4. \A g, f, m \in Nat : /\ g <= 2 * f + 1 => g <= 2 * f + 2
                             /\ g <= 2 * f + 2 /\ f <= m => g \in 0..(2 * m + 2)
    OBVIOUS
  <2>5. gen' \in Gen
    BY <1>1, <2>2, <2>3, <2>4
  <2>6. wake'.token \in Token /\ refreshes' \in 0..MaxWakes
    BY <1>1, <2>1, <2>3
  <2> QED
    BY <2>5, <2>6
<1>n. NoRecovery \in RecoveryRecord
  <2>1. 0 \in Gen
    OBVIOUS
  <2> QED
    BY <2>1 DEF NoRecovery, RecoveryRecord
<1>i. IdleCycle \in [at : {"idle", "begun", "scanned"}, target : BOOLEAN, late : BOOLEAN]
  BY DEF IdleCycle
<1>b. ASSUME UNCHANGED backendVars PROVE BackendTypes'
  BY <1>b DEF BackendTypes
<1>w. ASSUME UNCHANGED wakeVars PROVE WakeTypes'
  BY <1>w DEF WakeTypes
<1>k. ASSUME UNCHANGED workVars PROVE WorkTypes'
  BY <1>k DEF WorkTypes
<1>l. ASSUME UNCHANGED <<recovery, inbox, timers, probe>> PROVE LoopTypes'
  BY <1>l DEF LoopTypes
<1>c. ASSUME UNCHANGED <<history, faults>> PROVE CountTypes'
  BY <1>c DEF CountTypes
<1>2. ASSUME StartWake, UNCHANGED <<backendVars, faults>>,
             refreshes' = refreshes \/ refreshes' = refreshes + 1
      PROVE  WakeTypes' /\ refreshes' \in 0..MaxWakes
  <2>1. wake'.token = wake.token + 1 /\ wake.token \in Nat
    BY <1>2 DEF StartWake, BeginWake, WakeTypes, WakeRecord
  <2>2. wake'.token \in Token /\ refreshes' \in 0..MaxWakes
    BY <1>1, <1>2, <2>1 DEF BackendTypes, CountTypes
  <2>3. wake' \in WakeRecord
    BY <1>2, <2>2 DEF StartWake, BeginWake, WakeTypes, WakeRecord
  <2> QED
    BY <1>2, <2>2, <2>3 DEF StartWake, WakeTypes, BackendTypes
<1>3. ASSUME CancelWake, UNCHANGED <<call, refreshes>>, gen' \in Nat, worker' = NoCall,
             faults' \in 0..MaxFaults, closing' \in BOOLEAN
      PROVE  WakeTypes' /\ gen' \in Gen
  <2>1. wake'.token = wake.token + 1 /\ wake.token \in Nat
    BY <1>3 DEF CancelWake, WakeTypes, WakeRecord
  <2>2. wake'.token \in Token /\ gen' \in Gen
    BY <1>1, <1>3, <2>1 DEF CountTypes
  <2>3. wake' \in WakeRecord
    BY <1>3, <2>2 DEF CancelWake, WakeTypes, WakeRecord
  <2>4. keeper' \in Call \cup {NoCall}
    BY <1>3 DEF CancelWake, WakeTypes
  <2> QED
    BY <1>3, <2>2, <2>3, <2>4 DEF WakeTypes
<1>4. ASSUME StopBackend
      PROVE  /\ worker' = NoCall /\ probe' = FALSE /\ dead' = FALSE
             /\ retired' \subseteq [gen : Gen, worker : Call \cup {NoCall}]
             /\ lingering' \subseteq Gen
             /\ sync' \in {"off", "running", "audited", "failed"} => WorkTypes'
  <2>1. retired' \subseteq [gen : Gen, worker : Call \cup {NoCall}]
        /\ lingering' \subseteq Gen
    <3>1. [gen |-> gen, worker |-> worker] \in [gen : Gen, worker : Call \cup {NoCall}]
      BY DEF WakeTypes, BackendTypes
    <3>2. retired' \subseteq retired \cup {[gen |-> gen, worker |-> worker]}
          /\ lingering' \subseteq lingering \cup {gen}
      BY <1>4 DEF StopBackend, Retire
    <3> QED
      BY <3>1, <3>2 DEF BackendTypes
  <2> QED
    BY <1>4, <1>i, <2>1 DEF StopBackend, WorkTypes
<1>5. CASE Commands
  <2>1. CASE WakeButton \/ AutoWakeTick
    BY <1>b, <1>2, <1>k, <1>l, <1>c, <2>1 DEF WakeButton, AutoWakeTick, TypeOK
  <2>2. CASE RefreshChat
    <3>1. WorkTypes' /\ LoopTypes' /\ CountTypes'
      BY <2>2 DEF RefreshChat, WorkTypes, LoopTypes, CountTypes
    <3> QED
      BY <1>b, <1>w, <2>2, <3>1 DEF RefreshChat, TypeOK
  <2>3. CASE PokeChat
    <3>1. WorkTypes'
      BY <2>3 DEF PokeChat, WorkTypes
    <3> QED
      BY <1>b, <1>w, <1>l, <1>c, <2>3, <3>1 DEF PokeChat, TypeOK
  <2> QED
    BY <1>5, <2>1, <2>2, <2>3 DEF Commands
<1>6. CASE Rebuilds
  <2>0. ASSUME Spend PROVE faults' \in 0..MaxFaults
    BY <2>0 DEF Spend, CountTypes
  <2>1. ASSUME Recover(TRUE) \/ Recover(FALSE), faults' \in 0..MaxFaults,
               recovery' \in RecoveryRecord, UNCHANGED <<inbox, timers, history>>
        PROVE  TypeOK'
    <3>1. /\ CancelWake /\ StopBackend
          /\ gen' \in Nat /\ restarting' \in {"no", "auto", "manual"}
          /\ closing' \in BOOLEAN /\ client' = FALSE /\ sync' = "off"
          /\ UNCHANGED <<creds, call>>
      BY <2>1 DEF Recover, BackendTypes
    <3>2. WakeTypes' /\ gen' \in Gen
      BY <1>3, <1>4, <2>1, <3>1
    <3>3. BackendTypes' /\ WorkTypes'
      BY <1>4, <3>1, <3>2 DEF BackendTypes
    <3>4. LoopTypes' /\ CountTypes'
      BY <1>4, <2>1, <3>1 DEF LoopTypes, CountTypes
    <3> QED
      BY <3>2, <3>3, <3>4 DEF TypeOK
  <2>2. CASE RecoverMessages
    <3>1. recovery' \in RecoveryRecord
      BY <1>n, <2>2 DEF RecoverMessages, RecoveryRecord, BackendTypes
    <3> QED
      BY <2>0, <2>1, <2>2, <3>1 DEF RecoverMessages
  <2>3. CASE WatchdogReplaces \/ WatchdogRecovers
    <3>1. faults' \in 0..MaxFaults /\ recovery' \in RecoveryRecord
      BY <2>0, <2>3 DEF WatchdogReplaces, WatchdogRecovers, CountTypes, LoopTypes
    <3> QED
      BY <2>1, <2>3, <3>1 DEF WatchdogReplaces, WatchdogRecovers
  <2>4. CASE ReloadSettings
    <3>1. /\ CancelWake /\ StopBackend
          /\ gen' \in Nat /\ client' \in BOOLEAN /\ creds' \in BOOLEAN
          /\ sync' \in {"off", "running", "audited", "failed"}
          /\ restarting' = restarting /\ closing' = closing
          /\ faults' \in 0..MaxFaults
          /\ UNCHANGED <<call, recovery, inbox, timers, history>>
      BY <2>0, <2>4 DEF ReloadSettings, StartBackend, BackendTypes
    <3>2. WakeTypes' /\ gen' \in Gen
      BY <1>3, <1>4, <3>1 DEF BackendTypes
    <3>3. BackendTypes' /\ WorkTypes'
      BY <1>4, <3>1, <3>2 DEF BackendTypes
    <3>4. LoopTypes' /\ CountTypes'
      BY <1>4, <3>1 DEF LoopTypes, CountTypes
    <3> QED
      BY <3>2, <3>3, <3>4 DEF TypeOK
  <2>5. CASE RestartBackend
    <3>1. /\ gen' \in Nat /\ client' \in BOOLEAN /\ restarting' = "no"
          /\ sync' \in {"off", "running", "audited", "failed"}
          /\ UNCHANGED <<creds, dead, retired, lingering, closing>>
          /\ UNCHANGED <<wakeVars, chatQueue, cycle, inbox, probe, history, faults>>
      BY <2>5 DEF RestartBackend, StartBackend, BackendTypes, WorkTypes
    <3>2. WakeTypes' /\ CountTypes' /\ WorkTypes'
      BY <1>w, <1>c, <3>1 DEF WorkTypes
    <3>3. gen' \in Gen
      BY <1>1, <3>1, <3>2 DEF CountTypes, BackendTypes, WakeTypes, WakeRecord
    <3>4. BackendTypes'
      BY <3>1, <3>3 DEF BackendTypes
    <3>5. recovery' \in RecoveryRecord /\ timers' = timers
      <4>1. CASE recovery' = RestartChecks(gen') /\ UNCHANGED timers
        <5>1. recovery \in RecoveryRecord /\ 0 \in Gen
          BY DEF LoopTypes
        <5> QED
          BY <3>3, <4>1, <5>1 DEF RestartChecks, RecoveryRecord
      <4>2. CASE Failed
        BY <1>n, <4>2 DEF Failed, Ended
      <4>3. CASE UNCHANGED <<recovery, timers>>
        BY <4>3 DEF LoopTypes
      <4> QED
        BY <2>5, <4>1, <4>2, <4>3 DEF RestartBackend
    <3>6. LoopTypes'
      BY <3>1, <3>5 DEF LoopTypes
    <3> QED
      BY <3>2, <3>4, <3>6 DEF TypeOK
  <2>6. CASE CleanRetired
    <3>1. BackendTypes'
      BY <2>6 DEF CleanRetired, BackendTypes
    <3>2. WakeTypes'
      BY <2>6 DEF CleanRetired, WakeTypes, WakeRecord
    <3> QED
      BY <1>k, <1>l, <1>c, <2>6, <3>1, <3>2 DEF CleanRetired, TypeOK
  <2>7. CASE Shutdown
    <3>1. /\ CancelWake /\ StopBackend /\ closing' = TRUE
          /\ gen' \in Nat /\ client' = FALSE /\ sync' = "off"
          /\ UNCHANGED <<creds, restarting, call, recovery, inbox, timers, history, faults>>
      BY <2>7 DEF Shutdown, BackendTypes
    <3>2. WakeTypes' /\ gen' \in Gen
      BY <1>3, <1>4, <3>1 DEF CountTypes
    <3>3. BackendTypes' /\ WorkTypes'
      BY <1>4, <3>1, <3>2 DEF BackendTypes
    <3>4. LoopTypes' /\ CountTypes'
      BY <1>4, <3>1 DEF LoopTypes, CountTypes
    <3> QED
      BY <3>2, <3>3, <3>4 DEF TypeOK
  <2> QED
    BY <1>6, <2>2, <2>3, <2>4, <2>5, <2>6, <2>7 DEF Rebuilds
<1>7. CASE Workers
  <2>1. ASSUME NEW r \in Report, Post(r), UNCHANGED <<recovery, timers, probe>>
        PROVE  LoopTypes'
    BY <2>1, InboxType DEF Post, LoopTypes
  <2>2. ASSUME NEW c \in Call, NEW ok \in BOOLEAN, CallReturns(c, ok)
        PROVE  TypeOK'
    <3>1. [kind |-> "done", gen |-> call[c].gen, ok |-> ok] \in Report
      BY DEF Report, WakeTypes
    <3>2. LoopTypes'
      BY <2>2, <3>1, InboxType DEF CallReturns, LoopTypes
    <3>3. WakeTypes'
      BY <2>2 DEF CallReturns, WakeTypes
    <3> QED
      BY <1>b, <1>k, <1>c, <2>2, <3>2, <3>3 DEF CallReturns, TypeOK
  <2>0. Watching \in BOOLEAN
    BY DEF Watching
  <2>3. CASE CycleBegins \/ CycleFails
    <3>1. WorkTypes'
      <4>1. cycle' \in [at : {"idle", "begun", "scanned"}, target : BOOLEAN, late : BOOLEAN]
        <5>1. CASE CycleBegins
          BY <2>0, <5>1 DEF CycleBegins, WorkTypes
        <5> QED
          BY <1>i, <2>3, <5>1 DEF CycleFails
      <4> QED
        BY <2>3, <4>1 DEF CycleBegins, CycleFails, WorkTypes
    <3> QED
      BY <1>b, <1>w, <1>l, <1>c, <2>3, <3>1 DEF CycleBegins, CycleFails, TypeOK
  <2>4. CASE ChatScanned \/ SyncAudited \/ SyncFails
    <3>1. \A k \in {"chat", "audit", "syncFailed"} : [kind |-> k, gen |-> gen] \in Report
      BY DEF Report, BackendTypes
    <3>2. LoopTypes'
      BY <2>1, <2>4, <3>1 DEF ChatScanned, SyncAudited, SyncFails
    <3>3. WorkTypes'
      BY <2>4 DEF ChatScanned, SyncAudited, SyncFails, WorkTypes
    <3> QED
      BY <1>b, <1>w, <1>c, <2>4, <3>2, <3>3 DEF ChatScanned, SyncAudited, SyncFails, TypeOK
  <2>5. CASE CycleSucceeds
    <3>1. [kind |-> "poll", gen |-> gen, late |-> cycle.late] \in Report
      BY DEF Report, WorkTypes, BackendTypes
    <3>2. LoopTypes'
      BY <2>1, <2>5, <3>1 DEF CycleSucceeds
    <3>3. WorkTypes'
      BY <2>5 DEF CycleSucceeds, IdleCycle, WorkTypes
    <3> QED
      BY <1>b, <1>w, <1>c, <2>5, <3>2, <3>3 DEF CycleSucceeds, TypeOK
  <2>6. CASE WorkerDies
    <3>1. BackendTypes' /\ CountTypes'
      BY <2>6 DEF WorkerDies, Spend, BackendTypes, CountTypes
    <3> QED
      BY <1>w, <1>k, <1>l, <2>6, <3>1 DEF WorkerDies, TypeOK
  <2>7. ASSUME NEW g \in Gen, LastCallReturns(g) PROVE TypeOK'
    <3>1. BackendTypes'
      BY <2>7 DEF LastCallReturns, BackendTypes
    <3> QED
      BY <1>w, <1>k, <1>l, <1>c, <2>7, <3>1 DEF LastCallReturns, TypeOK
  <2> QED
    BY <1>7, <2>2, <2>3, <2>4, <2>5, <2>6, <2>7 DEF Workers
<1>8. CASE Reports
  <2>1. \A r \in Report : r.gen \in Gen
    BY DEF Report
  <2>2. ASSUME inbox # <<>>
        PROVE  Head(inbox) \in Report /\ Tail(inbox) \in Seq(Report)
               /\ Head(inbox).gen \in Gen
    BY <2>1, <2>2, HeadTailProperties DEF LoopTypes
  <2>3. CASE DropReport
    <3>1. LoopTypes'
      BY <2>2, <2>3 DEF DropReport, LoopTypes
    <3> QED
      BY <1>b, <1>w, <1>k, <1>c, <2>3, <3>1 DEF DropReport, TypeOK
  <2>4. CASE OnWakeDone
    <3>1. LoopTypes'
      BY <2>2, <2>4 DEF OnWakeDone, Take, LoopTypes, WakeTypes, WakeRecord
    <3>2. WakeTypes'
      BY <2>4 DEF OnWakeDone, WakeTypes, WakeRecord
    <3> QED
      BY <1>b, <1>k, <1>c, <2>4, <3>1, <3>2 DEF OnWakeDone, TypeOK
  <2>5. ASSUME NEW p \in Gen, NEW a \in Gen, Ended(TRUE, p, a) \/ Ended(FALSE, p, a)
        PROVE  recovery' \in RecoveryRecord
               /\ timers' \subseteq {"finish", "recoveryWake"} \X Token
    <3>1. CASE Ended(TRUE, p, a)
      <4>1. recovery' = [recovery EXCEPT !.on = FALSE, !.gen = 0, !.state = "success",
                           !.poll = p, !.audit = a]
        BY <3>1 DEF Ended
      <4>2. recovery' \in RecoveryRecord
        <5>1. recovery \in RecoveryRecord /\ 0 \in Gen
          BY DEF LoopTypes
        <5> QED
          BY <2>5, <4>1, <5>1 DEF RecoveryRecord
      <4>3. <<"recoveryWake", 0>> \in {"finish", "recoveryWake"} \X Token
        OBVIOUS
      <4> QED
        BY <3>1, <4>2, <4>3 DEF Ended, LoopTypes
    <3>2. CASE Ended(FALSE, p, a)
      BY <1>n, <3>2 DEF Ended, LoopTypes
    <3> QED
      BY <2>5, <3>1, <3>2
  <2>6. recovery.poll \in Gen /\ recovery.audit \in Gen
    BY DEF LoopTypes, RecoveryRecord
  <2>7. CASE OnPollOk
    <3>1. wake' \in WakeRecord
      BY <2>7 DEF OnPollOk, Verifies, Watching, WakeTypes, WakeRecord
    <3>2. WakeTypes'
      BY <2>7, <3>1 DEF OnPollOk, WakeTypes
    <3>3. recovery' \in RecoveryRecord
          /\ timers' \subseteq {"finish", "recoveryWake"} \X Token
      <4>1. CASE Ended(TRUE, Head(inbox).gen, recovery.audit)
        BY <2>2, <2>5, <2>6, <2>7, <4>1 DEF OnPollOk, Take
      <4>2. CASE recovery' = [recovery EXCEPT !.poll = Head(inbox).gen] /\ UNCHANGED timers
        BY <2>2, <2>7, <4>2 DEF OnPollOk, Take, LoopTypes, RecoveryRecord
      <4>3. CASE UNCHANGED <<recovery, timers>>
        BY <4>3 DEF LoopTypes
      <4> QED
        BY <2>7, <4>1, <4>2, <4>3 DEF OnPollOk
    <3>4. LoopTypes'
      BY <2>2, <2>7, <3>3 DEF OnPollOk, Take, LoopTypes
    <3> QED
      BY <1>b, <1>k, <1>c, <2>7, <3>2, <3>4 DEF OnPollOk, TypeOK
  <2>8. CASE OnRecoveryAuditDone
    <3>1. recovery' \in RecoveryRecord
          /\ timers' \subseteq {"finish", "recoveryWake"} \X Token
      <4>1. CASE Ended(TRUE, recovery.poll, Head(inbox).gen)
        BY <2>2, <2>5, <2>6, <2>8, <4>1 DEF OnRecoveryAuditDone, Take
      <4>2. CASE recovery' = [recovery EXCEPT !.audit = Head(inbox).gen] /\ UNCHANGED timers
        BY <2>2, <2>8, <4>2 DEF OnRecoveryAuditDone, Take, LoopTypes, RecoveryRecord
      <4>3. CASE UNCHANGED <<recovery, timers>>
        BY <4>3 DEF LoopTypes
      <4> QED
        BY <2>8, <4>1, <4>2, <4>3 DEF OnRecoveryAuditDone
    <3>2. LoopTypes'
      BY <2>2, <2>8, <3>1 DEF OnRecoveryAuditDone, Take, LoopTypes
    <3> QED
      BY <1>b, <1>w, <1>k, <1>c, <2>8, <3>2 DEF OnRecoveryAuditDone, TypeOK
  <2>9. CASE OnSyncFailed
    <3>1. recovery' \in RecoveryRecord
          /\ timers' \subseteq {"finish", "recoveryWake"} \X Token
      <4>1. CASE Failed
        <5>1. 0 \in Gen
          OBVIOUS
        <5> QED
          BY <2>5, <4>1, <5>1 DEF Failed
      <4>2. CASE UNCHANGED <<recovery, timers>>
        BY <4>2 DEF LoopTypes
      <4> QED
        BY <2>9, <4>1, <4>2 DEF OnSyncFailed
    <3>2. LoopTypes'
      BY <2>2, <2>9, <3>1 DEF OnSyncFailed, Take, LoopTypes
    <3> QED
      BY <1>b, <1>w, <1>k, <1>c, <2>9, <3>2 DEF OnSyncFailed, TypeOK
  <2>10. CASE OnChatRefreshed
    <3>1. LoopTypes'
      BY <2>2, <2>10 DEF OnChatRefreshed, Take, ProbeAfter, LoopTypes
    <3>2. CASE UNCHANGED <<wakeVars, refreshes>>
      <4>1. WakeTypes' /\ CountTypes'
        BY <1>w, <1>c, <2>10, <3>2 DEF OnChatRefreshed
      <4> QED
        BY <1>b, <1>k, <2>10, <3>1, <4>1 DEF OnChatRefreshed, TypeOK
    <3>3. CASE StartWake /\ refreshes' = refreshes + 1
      <4>1. WakeTypes' /\ refreshes' \in 0..MaxWakes
        BY <1>2, <2>10, <3>3 DEF OnChatRefreshed
      <4>2. CountTypes'
        BY <2>10, <4>1 DEF OnChatRefreshed, CountTypes
      <4> QED
        BY <1>b, <1>k, <2>10, <3>1, <4>1, <4>2 DEF OnChatRefreshed, TypeOK
    <3> QED
      BY <2>10, <3>2, <3>3 DEF OnChatRefreshed
  <2> QED
    BY <1>8, <2>3, <2>4, <2>7, <2>8, <2>9, <2>10 DEF Reports
<1>9. CASE Clocks
  <2>1. CASE StartRecoveryWake
    <3>1. LoopTypes'
      BY <2>1 DEF StartRecoveryWake, LoopTypes
    <3>2. WakeTypes'
      BY <1>2, <1>w, <2>1 DEF StartRecoveryWake, WakeOrRefused
    <3> QED
      BY <1>b, <1>k, <1>c, <2>1, <3>1, <3>2 DEF StartRecoveryWake, TypeOK
  <2>2. CASE WindowOpens \/ WindowIsOver \/ ClearWakeSuccess
    <3>1. WakeTypes'
      BY <2>2 DEF WindowOpens, WindowIsOver, ClearWakeSuccess, WakeTypes, WakeRecord
    <3> QED
      BY <1>b, <1>k, <1>l, <1>c, <2>2, <3>1
         DEF WindowOpens, WindowIsOver, ClearWakeSuccess, TypeOK
  <2>3. CASE RecoveryTimesOut \/ ClearRecoverySuccess
    <3>1. LoopTypes'
      BY <1>n, <2>3 DEF RecoveryTimesOut, ClearRecoverySuccess, LoopTypes
    <3> QED
      BY <1>b, <1>w, <1>k, <1>c, <2>3, <3>1 DEF RecoveryTimesOut, ClearRecoverySuccess, TypeOK
  <2>4. ASSUME NEW t \in Token, FinishWake(t) PROVE TypeOK'
    <3>1. WakeTypes'
      BY <2>4 DEF FinishWake, WakeTypes, WakeRecord
    <3>2. LoopTypes'
      BY <2>4 DEF FinishWake, LoopTypes
    <3> QED
      BY <1>b, <1>k, <1>c, <2>4, <3>1, <3>2 DEF FinishWake, TypeOK
  <2> QED
    BY <1>9, <2>1, <2>2, <2>3, <2>4 DEF Clocks
<1>10. CASE UNCHANGED vars
  BY <1>b, <1>w, <1>k, <1>l, <1>c, <1>10 DEF vars, TypeOK
<1> QED
  BY <1>5, <1>6, <1>7, <1>8, <1>9, <1>10 DEF Next

(***************************************************************************)
(* The initial state.                                                      *)
(***************************************************************************)
LEMMA WakeInit ==
  ASSUME Init
  PROVE  TypeOK /\ Spent
<1>1. BackendTypes
  <2>1. 1 \in Gen
    OBVIOUS
  <2> QED
    BY <2>1 DEF Init, BackendTypes
<1>2. WakeTypes
  BY DEF Init, WakeTypes, WakeRecord
<1>3. WorkTypes
  BY DEF Init, WorkTypes, IdleCycle
<1>4. LoopTypes
  <2>1. 0 \in Gen
    OBVIOUS
  <2>2. recovery \in RecoveryRecord
    BY <2>1 DEF Init, NoRecovery, RecoveryRecord
  <2> QED
    BY <2>2, EmptySeq DEF Init, LoopTypes
<1>5. CountTypes
  BY DEF Init, CountTypes
<1>6. Spent
  <2>1. CallsMade(0)
    BY DEF Init, CallsMade
  <2>2. \E n \in 0..MaxWakes :
          /\ CallsMade(n)
          /\ refreshes <= n
          /\ wake.token <= n + faults + 1
          /\ ~closing => wake.token <= n + faults
          /\ dead => wake.token < n + faults
    BY <2>1 DEF Init
  <2> QED
    BY <2>2 DEF Init, Spent
<1> QED
  BY <1>1, <1>2, <1>3, <1>4, <1>5, <1>6 DEF TypeOK

(***************************************************************************)
(* Every reachable state is well typed, and its generations and tokens     *)
(* stay within the bounds the faults allow.                                *)
(***************************************************************************)
THEOREM WakeTypeCorrect == Spec => []TypeOK
<1>1. Init => TypeOK /\ Spent
  BY WakeInit
<1>2. TypeOK /\ Spent /\ [Next]_vars => (TypeOK /\ Spent)'
  BY TypeStep, SpentStep
<1> QED
  BY <1>1, <1>2, PTL DEF Spec

(***************************************************************************)
(* The lease and the calls it stands for.                                  *)
(***************************************************************************)
LEMMA HeldStep ==
  ASSUME TypeOK, CallIsHeld, AnswerIsFinal, [Next]_vars
  PROVE  CallIsHeld'
<1> DEFINE Types ==
      /\ wake \in WakeRecord
      /\ worker \in Call \cup {NoCall} /\ keeper \in Call \cup {NoCall}
      /\ call \in [Call -> [open : BOOLEAN, gen : Gen]]
<1>0. Types
  BY DEF TypeOK, WakeTypes
<1> USE <1>0 DEF IsRunning, OpenCalls
<1> HIDE DEF Types
<1>1. ASSUME wake'.state = wake.state, wake'.lease = wake.lease,
             UNCHANGED <<worker, keeper, call>>
      PROVE  CallIsHeld'
  BY <1>1 DEF CallIsHeld
<1>2. ASSUME StartWake PROVE CallIsHeld'
  <2>1. PICK c \in Call :
          /\ call' = [call EXCEPT ![c] = [open |-> TRUE, gen |-> gen]]
          /\ worker' = c
    BY <1>2 DEF StartWake
  <2>2. keeper = NoCall /\ keeper' = keeper /\ OpenCalls = {}
    <3>1. ~wake.lease /\ keeper' = keeper
      BY <1>2 DEF StartWake, MayWake
    <3>2. keeper = NoCall /\ ~IsRunning(worker)
      BY <3>1 DEF CallIsHeld
    <3> QED
      BY <3>1, <3>2 DEF CallIsHeld
  <2>3. wake'.state = "working" /\ wake'.lease
    BY <1>2 DEF StartWake, BeginWake, Types, WakeRecord
  <2>4. OpenCalls' = {c}
    BY <2>1, <2>2 DEF Types
  <2> QED
    BY <2>1, <2>2, <2>3, <2>4 DEF CallIsHeld
<1>3. ASSUME CancelWake, worker' = NoCall, call' = call PROVE CallIsHeld'
  <2>1. /\ wake'.state = "idle" /\ (wake'.lease <=> wake.lease /\ keeper' # NoCall)
        /\ keeper' = IF wake.lease /\ IsRunning(keeper) THEN keeper
                     ELSE IF wake.lease /\ IsRunning(worker) THEN worker ELSE NoCall
    BY <1>3 DEF CancelWake, Types, WakeRecord
  <2>2. OpenCalls \subseteq {keeper'}
    BY <2>1 DEF CallIsHeld, Types
  <2>3. keeper' # NoCall => wake'.lease
    BY <2>1
  <2> QED
    BY <1>3, <2>1, <2>2, <2>3 DEF CallIsHeld
<1>4. CASE Commands
  BY <1>1, <1>2, <1>4 DEF Commands, WakeButton, AutoWakeTick, RefreshChat, PokeChat
<1>5. CASE Rebuilds
  <2>1. CASE RecoverMessages \/ ReloadSettings \/ WatchdogReplaces
             \/ WatchdogRecovers \/ Shutdown
    <3>1. CancelWake /\ worker' = NoCall /\ call' = call
      BY <2>1 DEF RecoverMessages, ReloadSettings, WatchdogReplaces,
                  WatchdogRecovers, Shutdown, Recover, StopBackend
    <3> QED
      BY <1>3, <3>1
  <2>2. CASE RestartBackend
    BY <1>1, <2>2 DEF RestartBackend
  <2>3. CASE CleanRetired
    <3>1. CASE KeeperDone
      <4>1. keeper' = NoCall /\ wake'.state = wake.state /\ UNCHANGED <<worker, call>>
        BY <2>3, <3>1 DEF CleanRetired, Types, WakeRecord
      <4>2. worker = NoCall /\ wake.state \notin {"working", "watching"} /\ OpenCalls = {}
        BY <3>1 DEF KeeperDone, CallIsHeld, Types
      <4> QED
        BY <4>1, <4>2 DEF CallIsHeld
    <3> QED
      BY <1>1, <2>3, <3>1 DEF CleanRetired
  <2> QED
    BY <1>5, <2>1, <2>2, <2>3 DEF Rebuilds
<1>6. CASE Workers
  <2>1. ASSUME NEW c \in Call, NEW ok \in BOOLEAN, CallReturns(c, ok)
        PROVE  CallIsHeld'
    <3>1. OpenCalls' = OpenCalls \ {c} /\ UNCHANGED <<wake, worker, keeper>>
      BY <2>1 DEF CallReturns, Types
    <3> QED
      BY <3>1 DEF CallIsHeld
  <2>2. ASSUME UNCHANGED wakeVars PROVE CallIsHeld'
    BY <1>1, <2>2
  <2> QED
    BY <1>6, <2>1, <2>2 DEF Workers, CycleBegins, ChatScanned, CycleSucceeds,
       CycleFails, SyncAudited, SyncFails, WorkerDies, LastCallReturns
<1>7. CASE Reports
  <2>1. CASE OnWakeDone
    <3>1. wake.state = "working" /\ ~IsRunning(worker)
      <4>1. 1 \in DOMAIN inbox /\ inbox[1] = Head(inbox)
        BY <2>1, HeadTailProperties DEF OnWakeDone, Take, TypeOK, LoopTypes
      <4>2. IsAnswer(1)
        BY <2>1, <4>1 DEF OnWakeDone, Take, Accept, IsAnswer
      <4> QED
        BY <4>1, <4>2 DEF AnswerIsFinal
    <3>2. \/ wake'.state = "watching" /\ wake'.lease = wake.lease
          \/ wake'.state = "idle"
      BY <2>1, <3>1 DEF OnWakeDone, Types, WakeRecord
    <3>3. UNCHANGED <<worker, keeper, call>>
      BY <2>1 DEF OnWakeDone
    <3> QED
      BY <3>1, <3>2, <3>3 DEF CallIsHeld
  <2>2. CASE OnPollOk
    BY <1>1, <2>2 DEF OnPollOk, Types, WakeRecord
  <2>3. CASE DropReport \/ OnRecoveryAuditDone \/ OnSyncFailed
    BY <1>1, <2>3 DEF DropReport, OnRecoveryAuditDone, OnSyncFailed
  <2>4. CASE OnChatRefreshed
    BY <1>1, <1>2, <2>4 DEF OnChatRefreshed
  <2> QED
    BY <1>7, <2>1, <2>2, <2>3, <2>4 DEF Reports
<1>8. CASE Clocks
  <2>1. CASE StartRecoveryWake
    BY <1>1, <1>2, <2>1 DEF StartRecoveryWake, WakeOrRefused
  <2>2. CASE WindowOpens \/ WindowIsOver
    BY <1>1, <2>2 DEF WindowOpens, WindowIsOver, Types, WakeRecord
  <2>3. CASE ClearWakeSuccess
    <3>1. wake.state = "success" /\ wake'.state = "idle" /\ wake'.lease = wake.lease
          /\ UNCHANGED <<worker, keeper, call>>
      BY <2>3 DEF ClearWakeSuccess, Types, WakeRecord
    <3> QED
      BY <3>1 DEF CallIsHeld
  <2>4. CASE RecoveryTimesOut \/ ClearRecoverySuccess
    BY <1>1, <2>4 DEF RecoveryTimesOut, ClearRecoverySuccess
  <2>5. ASSUME NEW t \in Token, FinishWake(t) PROVE CallIsHeld'
    <3>1. UNCHANGED <<worker, keeper, call>>
      BY <2>5 DEF FinishWake
    <3>2. \/ wake'.state = wake.state /\ wake'.lease = wake.lease
          \/ Watching /\ wake'.state \in {"success", "idle"}
      BY <2>5 DEF FinishWake, Concerns, Watching, Types, WakeRecord
    <3>3. CASE Watching /\ wake'.state \in {"success", "idle"}
      BY <3>1, <3>3 DEF CallIsHeld, Watching
    <3> QED
      BY <1>1, <3>1, <3>2, <3>3
  <2> QED
    BY <1>8, <2>1, <2>2, <2>3, <2>4, <2>5 DEF Clocks
<1>9. CASE UNCHANGED vars
  BY <1>1, <1>9 DEF vars
<1> QED
  BY <1>4, <1>5, <1>6, <1>7, <1>8, <1>9 DEF Next

(***************************************************************************)
(* What is queued: a report leaves at the head and joins at the end, and   *)
(* only the return of the current wake's call queues its answer.           *)
(***************************************************************************)
LEMMA AnswersStay ==
  ASSUME inbox \in Seq(Report), gen' = gen,
         \/ inbox' = inbox
         \/ inbox # <<>> /\ inbox' = Tail(inbox)
         \/ \E r \in Report : r.kind # "done" /\ r.gen = gen /\ inbox' = Append(inbox, r)
  PROVE  \E o \in {0, 1} :
           /\ \A i \in DOMAIN inbox' : i \in Nat /\ i >= 1
           /\ \A i \in DOMAIN inbox' : IsAnswer(i)' =>
                i + o \in DOMAIN inbox /\ IsAnswer(i + o)
           /\ \A i \in DOMAIN inbox' : inbox'[i].gen = gen' \/
                (i + o \in DOMAIN inbox /\ inbox'[i].gen = inbox[i + o].gen)
           /\ inbox # <<>> /\ inbox' = Tail(inbox) => o = 1
<1>1. CASE inbox' = inbox
  <2> WITNESS 0 \in {0, 1}
  <2>1. \A i \in DOMAIN inbox : i \in Nat /\ i >= 1
    OBVIOUS
  <2>2. inbox = <<>> \/ inbox' # Tail(inbox)
    BY <1>1, HeadTailProperties
  <2> QED
    BY <1>1, <2>1, <2>2 DEF IsAnswer
<1>2. CASE inbox # <<>> /\ inbox' = Tail(inbox)
  <2> WITNESS 1 \in {0, 1}
  <2>1. \A i \in DOMAIN inbox' :
                                /\ i \in Nat /\ i >= 1 /\ i + 1 \in DOMAIN inbox
                                /\ inbox'[i] = inbox[i + 1]
    BY <1>2, HeadTailProperties
  <2> QED
    BY <2>1 DEF IsAnswer
<1>3. ASSUME NEW r \in Report, r.kind # "done", r.gen = gen, inbox' = Append(inbox, r)
      PROVE  \A i \in DOMAIN inbox' :
               /\ i \in Nat /\ i >= 1
               /\ IsAnswer(i)' => i \in DOMAIN inbox /\ IsAnswer(i)
               /\ inbox'[i].gen = gen' \/
                    (i \in DOMAIN inbox /\ inbox'[i].gen = inbox[i].gen)
  <2>1. \A i \in DOMAIN inbox' :
                                /\ i \in Nat /\ i >= 1
                                /\ \/ i \in DOMAIN inbox /\ inbox'[i] = inbox[i]
                                   \/ inbox'[i] = r
    BY <1>3, AppendProperties
  <2> QED
    BY <1>3, <2>1 DEF IsAnswer
<1>4. CASE \E r \in Report : r.kind # "done" /\ r.gen = gen /\ inbox' = Append(inbox, r)
  <2>1. Len(inbox') # Len(inbox) - 1
    BY <1>4, AppendProperties
  <2>2. inbox = <<>> \/ inbox' # Tail(inbox)
    BY <2>1, HeadTailProperties
  <2>3. \A i \in DOMAIN inbox' :
             /\ i \in Nat /\ i >= 1
             /\ IsAnswer(i)' => i \in DOMAIN inbox /\ IsAnswer(i)
             /\ inbox'[i].gen = gen' \/
                  (i \in DOMAIN inbox /\ inbox'[i].gen = inbox[i].gen)
    BY <1>3, <1>4
  <2>4. \A i \in DOMAIN inbox' :
          /\ i \in Nat /\ i >= 1 /\ i + 0 = i
    BY <2>3
  <2> WITNESS 0 \in {0, 1}
  <2>5. \A i \in DOMAIN inbox' : IsAnswer(i)' => i + 0 \in DOMAIN inbox /\ IsAnswer(i + 0)
    BY <2>3, <2>4 DEF IsAnswer
  <2>6. ASSUME NEW i \in DOMAIN inbox'
        PROVE  inbox'[i].gen = gen' \/
                (i + 0 \in DOMAIN inbox /\ inbox'[i].gen = inbox[i + 0].gen)
    <3>1. i + 0 = i
      BY <2>4
    <3> QED
      BY <2>3, <3>1
  <2> QED
    BY <2>2, <2>4, <2>5, <2>6
<1> QED
  BY <1>1, <1>2, <1>4

LEMMA AnswerStep ==
  ASSUME TypeOK, CallIsHeld, AnswerIsFinal, ClientsAreKept, [Next]_vars
  PROVE  AnswerIsFinal'
<1> DEFINE Types ==
      /\ inbox \in Seq(Report) /\ gen \in Nat /\ wake \in WakeRecord
      /\ worker \in Call \cup {NoCall}
      /\ call \in [Call -> [open : BOOLEAN, gen : Gen]]
<1>0. Types
  BY DEF TypeOK, BackendTypes, WakeTypes, LoopTypes
<1> USE <1>0 DEF IsRunning, OpenCalls
<1> HIDE DEF Types
<1> DEFINE NoneNew == \E o \in {0, 1} :
      /\ \A i \in DOMAIN inbox' : i \in Nat /\ i >= 1
      /\ \A i \in DOMAIN inbox' : IsAnswer(i)' => i + o \in DOMAIN inbox /\ IsAnswer(i + o)
      /\ \A i \in DOMAIN inbox' : inbox'[i].gen = gen' \/
           (i + o \in DOMAIN inbox /\ inbox'[i].gen = inbox[i + o].gen)
      /\ inbox # <<>> /\ inbox' = Tail(inbox) => o = 1
<1>1. ASSUME gen' = gen,
             \/ inbox' = inbox
             \/ inbox # <<>> /\ inbox' = Tail(inbox)
             \/ \E r \in Report : r.kind # "done" /\ r.gen = gen /\ inbox' = Append(inbox, r)
      PROVE  NoneNew
  BY <1>1, AnswersStay DEF Types
<1> HIDE DEF NoneNew
<1>2. ASSUME NoneNew, gen' = gen,
             \/ \A i \in DOMAIN inbox : ~IsAnswer(i)
             \/ UNCHANGED <<worker, call>> /\ wake'.state = wake.state
             \/ inbox # <<>> /\ inbox' = Tail(inbox) /\ IsAnswer(1)
      PROVE  AnswerIsFinal'
  <2>1. PICK o \in {0, 1} :
          /\ \A i \in DOMAIN inbox' : i \in Nat /\ i >= 1
          /\ \A i \in DOMAIN inbox' : IsAnswer(i)' => i + o \in DOMAIN inbox /\ IsAnswer(i + o)
          /\ \A i \in DOMAIN inbox' : inbox'[i].gen = gen' \/
               (i + o \in DOMAIN inbox /\ inbox'[i].gen = inbox[i + o].gen)
          /\ inbox # <<>> /\ inbox' = Tail(inbox) => o = 1
    BY <1>2 DEF NoneNew
  <2>2. \A i \in DOMAIN inbox' : inbox'[i].gen <= gen'
    <3>1. \A i \in DOMAIN inbox : inbox[i].gen <= gen
      BY DEF AnswerIsFinal
    <3>2. gen' <= gen' /\ gen' = gen
      BY <1>2 DEF Types
    <3> QED
      BY <2>1, <3>1, <3>2
  <2>3. \A i \in DOMAIN inbox' : IsAnswer(i)' => wake'.state = "working" /\ ~IsRunning(worker)'
    <3>1. CASE UNCHANGED <<worker, call>> /\ wake'.state = wake.state
      BY <2>1, <3>1 DEF AnswerIsFinal
    <3>2. CASE inbox # <<>> /\ inbox' = Tail(inbox) /\ IsAnswer(1)
      <4>1. 1 \in DOMAIN inbox
        BY <3>2 DEF Types
      <4>2. \A i \in DOMAIN inbox' : IsAnswer(i)' => i + 1 = 1
        BY <2>1, <3>2, <4>1 DEF AnswerIsFinal
      <4> QED
        BY <2>1, <4>2
    <3> QED
      BY <1>2, <2>1, <3>1, <3>2
  <2>4. \A i, j \in DOMAIN inbox' : IsAnswer(i)' /\ IsAnswer(j)' => i = j
    <3>1. \A i, j \in DOMAIN inbox' : IsAnswer(i)' /\ IsAnswer(j)' => i + o = j + o
      BY <2>1 DEF AnswerIsFinal
    <3> QED
      BY <2>1, <3>1
  <2> QED
    BY <2>2, <2>3, <2>4 DEF AnswerIsFinal
<1>3. ASSUME inbox' = inbox, gen' \in Nat, gen' > gen PROVE AnswerIsFinal'
  <2>1. \A i \in DOMAIN inbox : inbox[i].gen <= gen /\ inbox[i].gen \in Nat
    <3>1. \A r \in Report : r.gen \in Nat
      BY DEF Report
    <3> QED
      BY <3>1 DEF AnswerIsFinal, Types
  <2>2. \A i \in DOMAIN inbox' : inbox'[i].gen <= gen' /\ inbox'[i].gen # gen'
    BY <1>3, <2>1 DEF Types
  <2> QED
    BY <2>2 DEF AnswerIsFinal, IsAnswer
<1>4. ASSUME StartWake PROVE \A i \in DOMAIN inbox : ~IsAnswer(i)
  BY <1>4 DEF StartWake, MayWake, AnswerIsFinal
<1>5. CASE Commands
  BY <1>1, <1>2, <1>4, <1>5 DEF Commands, WakeButton, AutoWakeTick, RefreshChat, PokeChat
<1>6. CASE Rebuilds
  <2>1. CASE RecoverMessages \/ ReloadSettings \/ WatchdogReplaces
             \/ WatchdogRecovers \/ Shutdown
    <3>1. inbox' = inbox /\ gen' \in Nat /\ gen' > gen
      BY <2>1 DEF RecoverMessages, ReloadSettings, WatchdogReplaces, StartBackend,
                  WatchdogRecovers, Shutdown, Recover, Types
    <3> QED
      BY <1>3, <3>1
  <2>2. CASE RestartBackend
    <3>1. /\ inbox' = inbox /\ UNCHANGED <<wake, worker, call>>
          /\ gen' = gen \/ (gen' \in Nat /\ gen' > gen)
      <4>1. inbox' = inbox /\ UNCHANGED <<wake, worker, call>>
        BY <2>2 DEF RestartBackend
      <4>2. gen' = gen \/ gen' = gen + 1
        BY <2>2 DEF RestartBackend, StartBackend
      <4> QED
        BY <4>1, <4>2 DEF Types
    <3> QED
      BY <1>1, <1>2, <1>3, <3>1
  <2>3. CASE CleanRetired
    <3>1. inbox' = inbox /\ gen' = gen /\ UNCHANGED <<worker, call>> /\ wake'.state = wake.state
      BY <2>3 DEF CleanRetired, Types, WakeRecord
    <3> QED
      BY <1>1, <1>2, <3>1
  <2> QED
    BY <1>6, <2>1, <2>2, <2>3 DEF Rebuilds
<1>7. CASE Workers
  <2>1. ASSUME NEW c \in Call, NEW ok \in BOOLEAN, CallReturns(c, ok), c # worker
        PROVE  AnswerIsFinal'
    <3>1. /\ inbox' = inbox /\ gen' = gen /\ wake' = wake /\ worker' = worker
          /\ IsRunning(worker)' <=> IsRunning(worker)
      BY <2>1 DEF CallReturns, Types
    <3> QED
      BY <3>1 DEF AnswerIsFinal, IsAnswer
  <2>2. ASSUME NEW c \in Call, NEW ok \in BOOLEAN, CallReturns(c, ok), c = worker
        PROVE  AnswerIsFinal'
    <3> DEFINE r == [kind |-> "done", gen |-> gen, ok |-> ok]
    <3>1. /\ \A i \in DOMAIN inbox : ~IsAnswer(i)
          /\ wake.state = "working"
      BY <2>2 DEF CallReturns, AnswerIsFinal, CallIsHeld
    <3>2. /\ inbox' = Append(inbox, r) /\ gen' = gen /\ wake' = wake /\ worker' = worker
          /\ ~IsRunning(worker)'
      <4>1. call[c].gen = gen
        BY <2>2 DEF ClientsAreKept
      <4> QED
        BY <2>2, <4>1 DEF CallReturns, Types
    <3>3. \A i \in DOMAIN inbox' :
            \/ i \in DOMAIN inbox /\ inbox'[i] = inbox[i]
            \/ i = Len(inbox) + 1 /\ inbox'[i] = r
      <4>1. r \in Report
        BY DEF Report, TypeOK, BackendTypes
      <4> QED
        BY <3>2, <4>1, AppendProperties DEF Types
    <3>4. \A i \in DOMAIN inbox' : IsAnswer(i)' => i = Len(inbox) + 1
      BY <3>1, <3>2, <3>3 DEF IsAnswer
    <3>5. \A i \in DOMAIN inbox' : inbox'[i].gen <= gen'
      BY <3>2, <3>3 DEF AnswerIsFinal, Types
    <3> QED
      BY <3>1, <3>2, <3>4, <3>5 DEF AnswerIsFinal
  <2>3. ASSUME NEW r \in Report, r.kind # "done", r.gen = gen, Post(r), gen' = gen,
               UNCHANGED wakeVars
        PROVE  AnswerIsFinal'
    BY <1>1, <1>2, <2>3 DEF Post
  <2>4. CASE CycleBegins \/ CycleFails \/ WorkerDies \/ \E g \in Gen : LastCallReturns(g)
    BY <1>1, <1>2, <2>4 DEF CycleBegins, CycleFails, WorkerDies, LastCallReturns
  <2>5. CASE ChatScanned \/ SyncAudited \/ SyncFails
    <3>1. \A k \in {"chat", "audit", "syncFailed"} :
            LET r == [kind |-> k, gen |-> gen]
            IN  r \in Report /\ r.kind # "done" /\ r.gen = gen
      BY DEF Report, TypeOK, BackendTypes
    <3> QED
      BY <2>3, <2>5, <3>1 DEF ChatScanned, SyncAudited, SyncFails
  <2>6. CASE CycleSucceeds
    <3>1. [kind |-> "poll", gen |-> gen, late |-> cycle.late] \in Report
      BY DEF Report, TypeOK, BackendTypes, WorkTypes
    <3> QED
      BY <2>3, <2>6, <3>1 DEF CycleSucceeds
  <2> QED
    BY <1>7, <2>1, <2>2, <2>4, <2>5, <2>6 DEF Workers
<1>8. CASE Reports
  <2>1. CASE OnWakeDone
    <3>1. /\ inbox # <<>> /\ inbox' = Tail(inbox) /\ gen' = gen
          /\ Head(inbox).kind = "done" /\ Head(inbox).gen = gen
      BY <2>1 DEF OnWakeDone, Take, Accept
    <3>2. IsAnswer(1)
      BY <3>1, HeadTailProperties DEF IsAnswer, Types
    <3> QED
      BY <1>1, <1>2, <3>1, <3>2
  <2>2. CASE OnPollOk
    <3>1. /\ inbox # <<>> /\ inbox' = Tail(inbox) /\ gen' = gen
          /\ UNCHANGED <<worker, call>> /\ wake'.state = wake.state
      BY <2>2 DEF OnPollOk, Take, Types, WakeRecord
    <3> QED
      BY <1>1, <1>2, <3>1
  <2>3. CASE DropReport \/ OnRecoveryAuditDone \/ OnSyncFailed
    BY <1>1, <1>2, <2>3 DEF DropReport, OnRecoveryAuditDone, OnSyncFailed, Take
  <2>4. CASE OnChatRefreshed
    BY <1>1, <1>2, <1>4, <2>4 DEF OnChatRefreshed, Take
  <2> QED
    BY <1>8, <2>1, <2>2, <2>3, <2>4 DEF Reports
<1>9. CASE Clocks
  <2>1. CASE StartRecoveryWake
    BY <1>1, <1>2, <1>4, <2>1 DEF StartRecoveryWake, WakeOrRefused
  <2>2. CASE WindowOpens \/ WindowIsOver
    BY <1>1, <1>2, <2>2 DEF WindowOpens, WindowIsOver, Types, WakeRecord
  <2>3. CASE ClearWakeSuccess
    <3>1. \A i \in DOMAIN inbox : ~IsAnswer(i)
      BY <2>3 DEF ClearWakeSuccess, AnswerIsFinal
    <3> QED
      BY <1>1, <1>2, <2>3, <3>1 DEF ClearWakeSuccess
  <2>4. CASE RecoveryTimesOut \/ ClearRecoverySuccess
    BY <1>1, <1>2, <2>4 DEF RecoveryTimesOut, ClearRecoverySuccess
  <2>5. ASSUME NEW t \in Token, FinishWake(t) PROVE AnswerIsFinal'
    <3>1. UNCHANGED <<worker, call, inbox, gen>>
      BY <2>5 DEF FinishWake
    <3>2. wake'.state = wake.state \/ Watching
      BY <2>5 DEF FinishWake, Concerns, Types, WakeRecord
    <3>3. Watching => \A i \in DOMAIN inbox : ~IsAnswer(i)
      BY DEF Watching, AnswerIsFinal
    <3> QED
      BY <1>1, <1>2, <3>1, <3>2, <3>3
  <2> QED
    BY <1>9, <2>1, <2>2, <2>3, <2>4, <2>5 DEF Clocks
<1>10. CASE UNCHANGED vars
  BY <1>1, <1>2, <1>10 DEF vars
<1> QED
  BY <1>5, <1>6, <1>7, <1>8, <1>9, <1>10 DEF Next

(***************************************************************************)
(* The clients that calls in flight are made through.                      *)
(***************************************************************************)
LEMMA ClientStep ==
  ASSUME TypeOK, CallIsHeld, ClientsAreKept, [Next]_vars
  PROVE  ClientsAreKept'
<1> DEFINE Types ==
      /\ gen \in Nat /\ worker \in Call \cup {NoCall} /\ keeper \in Call \cup {NoCall}
      /\ call \in [Call -> [open : BOOLEAN, gen : Gen]]
<1>0. Types
  BY DEF TypeOK, BackendTypes, WakeTypes
<1> USE <1>0 DEF IsRunning, OpenCalls
<1> HIDE DEF Types
<1>1. ASSUME UNCHANGED <<gen, client, retired, lingering, worker, call>>
      PROVE  ClientsAreKept'
  BY <1>1 DEF ClientsAreKept
<1>2. ASSUME StartWake, UNCHANGED backendVars PROVE ClientsAreKept'
  <2>1. PICK c \in Call :
          /\ call' = [call EXCEPT ![c] = [open |-> TRUE, gen |-> gen]]
          /\ worker' = c
    BY <1>2 DEF StartWake
  <2>2. client /\ OpenCalls = {}
    <3>1. ~wake.lease /\ client
      BY <1>2 DEF StartWake, MayWake
    <3>2. keeper = NoCall /\ ~IsRunning(worker)
      BY <3>1 DEF CallIsHeld
    <3> QED
      BY <3>1, <3>2 DEF CallIsHeld
  <2>3. OpenCalls' = {c} /\ call'[c].gen = gen
    BY <2>1, <2>2 DEF Types
  <2> QED
    BY <1>2, <2>1, <2>2, <2>3 DEF ClientsAreKept
<1>3. ASSUME StopBackend, call' = call PROVE ClientsAreKept'
  <2>1. PICK busy \in {FALSE, "slow_workers" \in Hazards} : Retire(busy)
    BY <1>3 DEF StopBackend
  <2>2. worker' = NoCall
    BY <1>3 DEF StopBackend
  <2>3. retired \subseteq retired'
    BY <2>1 DEF Retire
  <2>4. ASSUME NEW c \in OpenCalls
        PROVE  [gen |-> call[c].gen, worker |-> c] \in retired'
    <3>1. CASE c = worker
      <4>1. worker # NoCall /\ client /\ call[worker].gen = gen
        BY <3>1 DEF ClientsAreKept
      <4> QED
        BY <2>1, <3>1, <4>1 DEF Retire
    <3> QED
      BY <2>3, <3>1 DEF ClientsAreKept
  <2>5. lingering' \subseteq {b.gen : b \in retired'}
    <3>1. lingering \subseteq {b.gen : b \in retired'}
      BY <2>3 DEF ClientsAreKept
    <3>2. CASE client /\ busy
      <4>1. [gen |-> gen, worker |-> worker] \in retired'
        BY <2>1, <3>2 DEF Retire
      <4>2. gen \in {b.gen : b \in retired'}
        BY <4>1
      <4>3. lingering' = lingering \cup {gen}
        BY <2>1, <3>2 DEF Retire
      <4> QED
        BY <3>1, <4>2, <4>3
    <3>3. CASE ~(client /\ busy)
      BY <2>1, <3>1, <3>3 DEF Retire
    <3> QED
      BY <3>2, <3>3
  <2> QED
    BY <1>3, <2>2, <2>4, <2>5 DEF ClientsAreKept
<1>4. CASE Commands
  BY <1>1, <1>2, <1>4 DEF Commands, WakeButton, AutoWakeTick, RefreshChat, PokeChat
<1>5. CASE Rebuilds
  <2>1. CASE RecoverMessages \/ ReloadSettings \/ WatchdogReplaces
             \/ WatchdogRecovers \/ Shutdown
    <3>1. StopBackend /\ call' = call
      BY <2>1 DEF RecoverMessages, ReloadSettings, WatchdogReplaces,
                  WatchdogRecovers, Shutdown, Recover
    <3> QED
      BY <1>3, <3>1
  <2>2. CASE RestartBackend
    <3>1. UNCHANGED <<retired, lingering, worker, call>> /\ (client => client' /\ gen' = gen)
      BY <2>2 DEF RestartBackend, StartBackend
    <3> QED
      BY <3>1 DEF ClientsAreKept
  <2>3. CASE CleanRetired
    <3>1. UNCHANGED <<gen, client, worker, call, lingering>>
          /\ retired' = {b \in retired : ~Idle(b)}
      BY <2>3 DEF CleanRetired
    <3>2. ASSUME NEW c \in OpenCalls, [gen |-> call[c].gen, worker |-> c] \in retired
          PROVE  [gen |-> call[c].gen, worker |-> c] \in retired'
      BY <3>1, <3>2 DEF Idle
    <3>3. lingering' \subseteq {b.gen : b \in retired'}
      <4>1. \A b \in retired : b.gen \in lingering => b \in retired'
        BY <3>1 DEF Idle
      <4>2. \A g \in lingering : \E b \in retired : b.gen = g
        BY DEF ClientsAreKept
      <4> QED
        BY <3>1, <4>1, <4>2
    <3> QED
      BY <3>1, <3>2, <3>3 DEF ClientsAreKept
  <2> QED
    BY <1>5, <2>1, <2>2, <2>3 DEF Rebuilds
<1>6. CASE Workers
  <2>1. ASSUME NEW c \in Call, NEW ok \in BOOLEAN, CallReturns(c, ok)
        PROVE  ClientsAreKept'
    <3>1. /\ OpenCalls' = OpenCalls \ {c} /\ \A d \in Call : call'[d].gen = call[d].gen
          /\ UNCHANGED <<gen, client, retired, lingering, worker>>
      BY <2>1 DEF CallReturns, Types
    <3>2. worker # NoCall => worker \in Call
      BY DEF Types
    <3> QED
      BY <3>1, <3>2 DEF ClientsAreKept
  <2>2. ASSUME NEW g \in Gen, LastCallReturns(g) PROVE ClientsAreKept'
    BY <2>2 DEF LastCallReturns, ClientsAreKept
  <2> QED
    BY <1>1, <1>6, <2>1, <2>2 DEF Workers, CycleBegins, ChatScanned, CycleSucceeds,
       CycleFails, SyncAudited, SyncFails, WorkerDies
<1>7. CASE Reports
  BY <1>1, <1>2, <1>7 DEF Reports, DropReport, OnWakeDone, OnPollOk,
     OnRecoveryAuditDone, OnSyncFailed, OnChatRefreshed
<1>8. CASE Clocks
  BY <1>1, <1>2, <1>8 DEF Clocks, WindowOpens, WindowIsOver, RecoveryTimesOut,
     StartRecoveryWake, WakeOrRefused, ClearRecoverySuccess, ClearWakeSuccess, FinishWake
<1>9. CASE UNCHANGED vars
  BY <1>1, <1>9 DEF vars
<1> QED
  BY <1>4, <1>5, <1>6, <1>7, <1>8, <1>9 DEF Next

(***************************************************************************)
(* What a recovery has counted, and what it reports when it succeeds.      *)
(***************************************************************************)
LEMMA RecoveryStep ==
  ASSUME TypeOK, Spent, RecoveryIsCurrent, RecoveryIsGenuine, [Next]_vars
  PROVE  (RecoveryIsCurrent /\ RecoveryIsGenuine)'
<1> DEFINE Types == /\ recovery \in RecoveryRecord
                    /\ gen \in Nat /\ gen >= 1
<1>0. Types
  BY DEF TypeOK, BackendTypes, LoopTypes, Spent
<1> USE <1>0
<1> HIDE DEF Types
<1>1. ASSUME UNCHANGED recovery, gen' \in Nat, gen' >= gen,
             restarting' = "manual" =>
               \/ restarting = "manual"
               \/ gen' > gen /\ recovery.on
      PROVE  (RecoveryIsCurrent /\ RecoveryIsGenuine)'
  <2>1. restarting' = "manual" => recovery.gen < gen' /\ recovery.state # "success"
    BY <1>1 DEF RecoveryIsCurrent, Types, RecoveryRecord
  <2> QED
    BY <1>1, <2>1 DEF RecoveryIsCurrent, RecoveryIsGenuine, Types, RecoveryRecord
<1>2. ASSUME recovery' = NoRecovery, gen' \in Nat, gen' >= 1
      PROVE  (RecoveryIsCurrent /\ RecoveryIsGenuine)'
  BY <1>2 DEF RecoveryIsCurrent, RecoveryIsGenuine, NoRecovery
<1>3. CASE Commands
  BY <1>1, <1>3 DEF Commands, WakeButton, AutoWakeTick, RefreshChat, PokeChat, Types
<1>4. CASE Rebuilds
  <2>1. CASE RecoverMessages
    <3>1. gen' = gen + 1 /\ recovery'.gen = 0 /\ recovery'.on
          /\ recovery'.state = "working" /\ recovery'.since = gen
          /\ recovery'.poll = 0 /\ recovery'.audit = 0
      BY <2>1 DEF RecoverMessages, Recover, NoRecovery
    <3> QED
      BY <3>1 DEF RecoveryIsCurrent, RecoveryIsGenuine, Types
  <2>2. CASE ReloadSettings \/ Shutdown
    <3>1. recovery' = recovery /\ restarting' = restarting
          /\ (gen' = gen + 1 \/ gen' = gen + 1 + 1)
      BY <2>2 DEF ReloadSettings, Shutdown, StartBackend
    <3> QED
      BY <1>1, <3>1 DEF Types
  <2>3. CASE WatchdogReplaces \/ WatchdogRecovers
    <3>1. recovery' = recovery /\ gen' = gen + 1 /\ (restarting' = "manual" => recovery.on)
      BY <2>3 DEF WatchdogReplaces, WatchdogRecovers, Recover
    <3> QED
      BY <1>1, <3>1 DEF Types
  <2>4. CASE RestartBackend
    <3>1. restarting' = "no" /\ (gen' = gen \/ gen' = gen + 1)
      BY <2>4 DEF RestartBackend, StartBackend
    <3>2. CASE restarting = "manual" /\ recovery' = RestartChecks(gen')
      <4>1. /\ recovery'.gen = gen' /\ recovery'.poll = 0 /\ recovery'.audit = 0
            /\ recovery'.on = recovery.on /\ recovery'.state = recovery.state
            /\ recovery'.since = recovery.since
        BY <3>2 DEF RestartChecks, Types, RecoveryRecord
      <4>2. recovery.state # "success"
        BY <3>2 DEF RecoveryIsCurrent
      <4>3. recovery.on => recovery.state = "working" /\ recovery.since < gen
            /\ recovery.since \in Nat
        BY DEF RecoveryIsCurrent, Types, RecoveryRecord
      <4> QED
        BY <3>1, <4>1, <4>2, <4>3 DEF RecoveryIsCurrent, RecoveryIsGenuine, Types
    <3>3. CASE recovery' = NoRecovery
      BY <1>2, <3>1, <3>3 DEF Types
    <3>4. CASE recovery' = recovery
      BY <1>1, <3>1, <3>4 DEF Types
    <3> QED
      BY <2>4, <3>2, <3>3, <3>4 DEF RestartBackend, Failed, Ended
  <2>5. CASE CleanRetired
    BY <1>1, <2>5 DEF CleanRetired, Types
  <2> QED
    BY <1>4, <2>1, <2>2, <2>3, <2>4, <2>5 DEF Rebuilds
<1>5. CASE Workers
  <2>1. recovery' = recovery /\ gen' = gen /\ restarting' = restarting
    BY <1>5 DEF Workers, CallReturns, CycleBegins, ChatScanned, CycleSucceeds,
       CycleFails, SyncAudited, SyncFails, WorkerDies, LastCallReturns
  <2> QED
    BY <1>1, <2>1 DEF Types
<1>6. CASE Reports
  <2>1. UNCHANGED <<gen, restarting>>
    BY <1>6 DEF Reports, DropReport, OnWakeDone, OnPollOk,
       OnRecoveryAuditDone, OnSyncFailed, OnChatRefreshed
  <2>2. CASE recovery' = recovery
    BY <1>1, <2>1, <2>2 DEF Types
  <2>3. CASE recovery' = NoRecovery
    BY <1>2, <2>1, <2>3 DEF Types
  <2>4. ASSUME recovery.on, recovery.gen = gen, NEW p, NEW a, Ended(TRUE, p, a),
               p = gen, a = gen
        PROVE  (RecoveryIsCurrent /\ RecoveryIsGenuine)'
    <3>1. /\ recovery'.on = FALSE /\ recovery'.gen = 0 /\ recovery'.state = "success"
          /\ recovery'.poll = gen /\ recovery'.audit = gen
          /\ recovery'.since = recovery.since
      BY <2>4 DEF Ended, Types, RecoveryRecord
    <3>2. recovery.since < gen
      BY <2>4 DEF RecoveryIsCurrent
    <3>3. restarting # "manual"
      BY <2>4 DEF RecoveryIsCurrent, Types
    <3> QED
      BY <2>1, <3>1, <3>2, <3>3 DEF RecoveryIsCurrent, RecoveryIsGenuine, Types, RecoveryRecord
  <2>5. recovery.on /\ recovery.gen = gen =>
          recovery.poll \in {0, gen} /\ recovery.audit \in {0, gen}
    BY DEF RecoveryIsCurrent
  <2>6. ASSUME recovery.on, recovery.gen = gen,
               \/ recovery' = [recovery EXCEPT !.poll = gen]
               \/ recovery' = [recovery EXCEPT !.audit = gen]
        PROVE  (RecoveryIsCurrent /\ RecoveryIsGenuine)'
    <3>1. /\ recovery'.on = recovery.on /\ recovery'.gen = recovery.gen
          /\ recovery'.state = recovery.state /\ recovery'.since = recovery.since
          /\ recovery'.poll \in {0, gen} /\ recovery'.audit \in {0, gen}
      BY <2>5, <2>6 DEF Types, RecoveryRecord
    <3> QED
      BY <2>1, <2>6, <3>1 DEF RecoveryIsCurrent, RecoveryIsGenuine, Types
  <2>7. CASE OnPollOk
    <3>1. Head(inbox).gen = gen
      BY <2>7 DEF OnPollOk, Take, Accept
    <3> QED
      BY <2>2, <2>4, <2>5, <2>6, <2>7, <3>1 DEF OnPollOk, Expected
  <2>8. CASE OnRecoveryAuditDone
    <3>1. Head(inbox).gen = gen
      BY <2>8 DEF OnRecoveryAuditDone, Take, Accept
    <3> QED
      BY <2>2, <2>4, <2>5, <2>6, <2>8, <3>1 DEF OnRecoveryAuditDone, Expected
  <2>9. CASE DropReport \/ OnWakeDone \/ OnSyncFailed \/ OnChatRefreshed
    BY <2>2, <2>3, <2>9 DEF DropReport, OnWakeDone, OnSyncFailed, OnChatRefreshed,
                             Failed, Ended
  <2> QED
    BY <1>6, <2>7, <2>8, <2>9 DEF Reports
<1>7. CASE Clocks
  <2>1. UNCHANGED <<gen, restarting>> /\ recovery' \in {recovery, NoRecovery}
    BY <1>7 DEF Clocks, WindowOpens, WindowIsOver, RecoveryTimesOut,
       StartRecoveryWake, ClearRecoverySuccess, ClearWakeSuccess, FinishWake
  <2> QED
    BY <1>1, <1>2, <2>1 DEF Types
<1>8. CASE UNCHANGED vars
  BY <1>1, <1>8 DEF vars, Types
<1> QED
  BY <1>3, <1>4, <1>5, <1>6, <1>7, <1>8 DEF Next

(***************************************************************************)
(* The inductive invariant: WakeInv with what the recovery reports.        *)
(***************************************************************************)
Inductive ==
  /\ TypeOK /\ Spent
  /\ CallIsHeld /\ AnswerIsFinal /\ ClientsAreKept
  /\ RecoveryIsCurrent /\ RecoveryIsGenuine

LEMMA InductiveHolds == Spec => []Inductive
<1>1. Init => Inductive
  <2> SUFFICES ASSUME Init PROVE Inductive
    OBVIOUS
  <2>1. OpenCalls = {}
    BY DEF Init, OpenCalls
  <2>2. CallIsHeld
    BY <2>1 DEF Init, CallIsHeld, IsRunning
  <2>3. AnswerIsFinal
    BY DEF Init, AnswerIsFinal
  <2>4. ClientsAreKept
    BY <2>1 DEF Init, ClientsAreKept
  <2>5. RecoveryIsCurrent /\ RecoveryIsGenuine
    BY DEF Init, NoRecovery, RecoveryIsCurrent, RecoveryIsGenuine
  <2> QED
    BY WakeInit, <2>2, <2>3, <2>4, <2>5 DEF Inductive
<1>2. Inductive /\ [Next]_vars => Inductive'
  BY TypeStep, SpentStep, HeldStep, AnswerStep, ClientStep, RecoveryStep DEF Inductive
<1> QED
  BY <1>1, <1>2, PTL DEF Spec

(***************************************************************************)
(* Restarts of Messages never overlap; while one is open the send fence is *)
(* up; and no HTTP client is closed under a call.                          *)
(***************************************************************************)
THEOREM WakeInvariant == Spec => []WakeInv
<1>1. Inductive => WakeInv
  <2> SUFFICES ASSUME Inductive PROVE WakeInv
    OBVIOUS
  <2> USE DEF IsRunning
  <2>1. OneRestartAtATime
    <3>1. PICK c : OpenCalls \subseteq {c}
      <4>1. keeper # NoCall => worker \notin OpenCalls
        BY DEF Inductive, CallIsHeld, OpenCalls
      <4>2. CASE keeper = NoCall
        BY <4>2 DEF Inductive, CallIsHeld, OpenCalls
      <4>3. CASE keeper # NoCall
        BY <4>1, <4>3 DEF Inductive, CallIsHeld
      <4> QED
        BY <4>2, <4>3
    <3>2. Cardinality({c}) = 1 /\ IsFiniteSet({c})
      BY FS_Singleton
    <3>3. Cardinality(OpenCalls) <= Cardinality({c})
      BY <3>1, <3>2, FS_Subset
    <3> QED
      BY <3>2, <3>3 DEF OneRestartAtATime
  <2>2. FenceCoversRestart
    <3> SUFFICES ASSUME NEW c \in OpenCalls PROVE wake.lease
      BY DEF FenceCoversRestart
    <3>1. c = worker \/ (c = keeper /\ c # NoCall)
      BY DEF Inductive, CallIsHeld, OpenCalls
    <3> QED
      BY <3>1 DEF Inductive, CallIsHeld
  <2>3. ClientOutlivesCalls
    <3>1. {b.gen : b \in retired} \subseteq OpenClients /\ (client => gen \in OpenClients)
      BY DEF OpenClients
    <3>2. ASSUME NEW c \in OpenCalls PROVE call[c].gen \in OpenClients
      <4>1. CASE c = worker
        <5>1. worker # NoCall
          BY <4>1 DEF OpenCalls
        <5> QED
          BY <3>1, <4>1, <5>1 DEF Inductive, ClientsAreKept
      <4>2. CASE [gen |-> call[c].gen, worker |-> c] \in retired
        BY <3>1, <4>2
      <4> QED
        BY <4>1, <4>2 DEF Inductive, ClientsAreKept
    <3>3. lingering \subseteq OpenClients
      BY <3>1 DEF Inductive, ClientsAreKept
    <3> QED
      BY <3>2, <3>3 DEF ClientOutlivesCalls
  <2> QED
    BY <2>1, <2>2, <2>3 DEF WakeInv, Inductive
<1> QED
  BY InductiveHolds, <1>1, PTL

(***************************************************************************)
(* A manual recovery succeeds only on a poll and an audit of one backend,  *)
(* built after the click.                                                  *)
(***************************************************************************)
THEOREM SuccessIsGenuine == Spec => []RecoveryIsGenuine
<1>1. Inductive => RecoveryIsGenuine
  BY DEF Inductive
<1> QED
  BY InductiveHolds, <1>1, PTL

(***************************************************************************)
(* However many scans follow, a Refresh restarts Messages at most once.    *)
(***************************************************************************)
THEOREM RefreshEscalatesOnce == Spec => []RefreshWakesOnce
<1>1. Inductive => RefreshWakesOnce
  BY DEF Inductive, Spent, RefreshWakesOnce
<1> QED
  BY InductiveHolds, <1>1, PTL

(***************************************************************************)
(* No late timer, and no retired call, lowers the fence while Messages     *)
(* relaunches: a cancellation or the end of the wake's own window does.    *)
(***************************************************************************)
THEOREM FenceOutlivesStaleTimers == Spec => LeaseCoversRelaunch
<1>1. Inductive /\ [Next]_vars =>
        [Watching /\ ~wake'.lease /\ wake'.token = wake.token => wake.stage = "due"]_vars
  <2> SUFFICES ASSUME Inductive, Next, Watching, wake'.token = wake.token, ~wake'.lease
               PROVE  wake.stage = "due"
    OBVIOUS
  <2>1. wake.lease /\ keeper = NoCall /\ wake \in WakeRecord
    BY DEF Inductive, CallIsHeld, Watching, TypeOK, WakeTypes
  <2>2. ~CancelWake
    <3>1. CancelWake => wake'.token = wake.token + 1
      BY <2>1 DEF CancelWake, WakeRecord
    <3>2. wake.token \in Nat
      BY <2>1 DEF WakeRecord
    <3> QED
      BY <3>1, <3>2
  <2>3. ~StartWake
    BY DEF StartWake, MayWake, Watching
  <2>4. wake' # wake
    BY <2>1
  <2>5. CASE Commands
    BY <2>3, <2>4, <2>5 DEF Commands, WakeButton, AutoWakeTick, RefreshChat, PokeChat
  <2>6. CASE Rebuilds
    BY <2>1, <2>2, <2>4, <2>6 DEF Rebuilds, RecoverMessages, ReloadSettings,
       WatchdogReplaces, WatchdogRecovers, RestartBackend, CleanRetired, Shutdown,
       Recover, KeeperDone
  <2>7. CASE Workers
    BY <2>4, <2>7 DEF Workers, CallReturns, CycleBegins, ChatScanned, CycleSucceeds,
       CycleFails, SyncAudited, SyncFails, WorkerDies, LastCallReturns
  <2>8. CASE Reports
    <3>1. CASE OnPollOk
      BY <2>1, <3>1 DEF OnPollOk, WakeRecord
    <3> QED
      BY <2>3, <2>4, <2>8, <3>1 DEF Reports, DropReport, OnWakeDone, OnRecoveryAuditDone,
         OnSyncFailed, OnChatRefreshed, Watching
  <2>9. CASE Clocks
    <3>1. ASSUME NEW t \in Token, FinishWake(t) PROVE wake.stage = "due"
      <4>1. t = wake.token
        BY <2>4, <3>1 DEF FinishWake, Concerns
      <4> QED
        BY <3>1, <4>1 DEF FinishWake
    <3>2. CASE WindowOpens \/ WindowIsOver
      BY <2>1, <3>2 DEF WindowOpens, WindowIsOver, WakeRecord
    <3> QED
      BY <2>3, <2>4, <2>9, <3>1, <3>2 DEF Clocks, RecoveryTimesOut, StartRecoveryWake,
         WakeOrRefused, ClearRecoverySuccess, ClearWakeSuccess, Watching
  <2> QED
    BY <2>5, <2>6, <2>7, <2>8, <2>9 DEF Next
<1> QED
  BY InductiveHolds, <1>1, PTL DEF Spec, LeaseCoversRelaunch
=============================================================================
