---------------------------- MODULE SendPathProofs ----------------------------
(***************************************************************************)
(* Proofs about SendPath for every set of rows and threads, every budget   *)
(* and every allowed combination of hazards.                               *)
(***************************************************************************)
EXTENDS SendPath, FiniteSetTheorems, SequenceTheorems, TLAPS

(***************************************************************************)
(* The ids that recover_outbox returns form a sequence of outbox ids.      *)
(***************************************************************************)
LEMMA QueuedInOrderType ==
  ASSUME NEW ids \in QueuedInOrder
  PROVE  ids \in Seq(Id)
<1>1. RowsIn({"queued"}) \in SUBSET Id
  BY DEF RowsIn
<1>2. Cardinality(RowsIn({"queued"})) \in Nat
  BY <1>1, IdAssumption, FS_Subset, FS_CardinalityType
<1>3. ids \in [1..Cardinality(RowsIn({"queued"})) -> Id]
  BY <1>1 DEF QueuedInOrder
<1> QED
  BY <1>2, <1>3, SeqDef

(***************************************************************************)
(* Handing ids to the sender, if there is one, keeps the queues typed.     *)
(***************************************************************************)
LEMMA SubmitAllType ==
  ASSUME TypeOK, NEW ids \in Seq(Id), SubmitAll(ids)
  PROVE  queue' \in [Thread -> Seq(Id)]
<1>1. CASE sender = NoThread
  BY <1>1 DEF SubmitAll, TypeOK
<1>2. CASE sender # NoThread
  <2>1. sender \in Thread /\ queue[sender] \o ids \in Seq(Id)
    BY <1>2, ConcatProperties DEF TypeOK
  <2> QED
    BY <1>2, <2>1 DEF SubmitAll, TypeOK
<1> QED
  BY <1>1, <1>2

(***************************************************************************)
(* Writing a command to the channel keeps the pipe typed.                  *)
(***************************************************************************)
LEMMA WriteCmdType ==
  ASSUME TypeOK, NEW i \in Id, WriteCmd(Submit(i))
  PROVE  pipe' \in Seq(Cmd)
<1>1. Submit(i) \in Cmd
  BY DEF Submit, Cmd
<1> QED
  BY <1>1, AppendProperties DEF WriteCmd, TypeOK

(***************************************************************************)
(* Type correctness: every step of the window, the agent and the threads   *)
(* keeps the state within its types, under every hazard.                   *)
(***************************************************************************)
LEMMA TypeStep == TypeOK /\ WorkHasId /\ [Next]_vars => TypeOK'
<1> SUFFICES ASSUME TypeOK, WorkHasId, [Next]_vars PROVE TypeOK'
  OBVIOUS
<1> USE DEF TypeOK, StoreTypeOK, RowState, NoId, storeVars, threadVars,
            wakeVars, windowVars
<1>1. ASSUME NEW i \in Id, OnSend(i) PROVE TypeOK'
  <2>1. pipe' \in Seq(Cmd)
    BY <1>1, WriteCmdType DEF OnSend
  <2> QED
    BY <1>1, <2>1 DEF OnSend, Enqueue
<1>2. ASSUME NEW i \in Id, OnRetry(i) PROVE TypeOK'
  <2>1. pipe' \in Seq(Cmd)
    BY <1>2, WriteCmdType DEF OnRetry
  <2> QED
    BY <1>2, <2>1 DEF OnRetry, OutboxSet
<1>3. CASE Repaint
  BY <1>3 DEF Repaint
<1>4. CASE LinkUp
  <2>1. <<Kick>> \in Seq(Cmd)
    BY DEF Kick, Cmd
  <2> QED
    BY <1>4, <2>1 DEF LinkUp
<1>5. CASE LinkDown
  BY <1>5 DEF LinkDown, Spend
<1>6. CASE HandleSubmit
  <2>1. pipe # <<>> /\ Head(pipe) \in Cmd /\ pipe' \in Seq(Cmd)
    BY <1>6, HeadTailProperties DEF HandleSubmit
  <2>2. Head(pipe).id \in Id
    BY <1>6, <2>1 DEF HandleSubmit, Cmd
  <2>3. queue' \in [Thread -> Seq(Id)]
    <3>1. <<Head(pipe).id>> \in Seq(Id)
      BY <2>2
    <3> QED
      BY <1>6, <3>1, SubmitAllType DEF HandleSubmit
  <2> QED
    BY <1>6, <2>1, <2>3 DEF HandleSubmit
<1>7. CASE HandleKick
  <2>1. pipe' \in Seq(Cmd)
    BY <1>7, HeadTailProperties DEF HandleKick
  <2>2. queue' \in [Thread -> Seq(Id)]
    BY <1>7, QueuedInOrderType, SubmitAllType DEF HandleKick
  <2> QED
    BY <1>7, <2>1, <2>2 DEF HandleKick
<1>8. CASE AgentStart
  BY <1>8 DEF AgentStart
<1>9. CASE Rebuild
  BY <1>9 DEF Rebuild, Spend, StopBackend, FreeLease
<1>10. CASE Watchdog
  BY <1>10 DEF Watchdog, StopBackend, FreeLease
<1>11. CASE AgentKilled
  BY <1>11 DEF AgentKilled, Spend, ProcessGone
<1>12. CASE AgentShutdown
  BY <1>12 DEF AgentShutdown, Spend, ProcessGone
<1>13. ASSUME NEW t \in Thread, StartBackend(t) PROVE TypeOK'
  BY <1>13 DEF StartBackend
<1>14. CASE WakeMac
  BY <1>14 DEF WakeMac, TryBeginMacMaintenance, Spend
<1>15. CASE MacDone \/ WakeCallLost
  BY <1>15 DEF MacDone, WakeCallLost, Spend
<1>16. CASE ReleaseLease
  <2>1. queue' \in [Thread -> Seq(Id)]
    BY <1>16, QueuedInOrderType, SubmitAllType DEF ReleaseLease
  <2> QED
    BY <1>16, <2>1 DEF ReleaseLease, FreeLease
<1>17. CASE LeaseExpires
  BY <1>17 DEF LeaseExpires, FreeLease
<1>18. ASSUME NEW t \in Thread, ThreadStep(t) PROVE TypeOK'
  <2>1. CASE Boot(t)
    <3>1. PICK ids \in QueuedInOrder :
            queue' = [queue EXCEPT ![t] = queue[t] \o ids]
      BY <2>1 DEF Boot
    <3>2. queue[t] \o ids \in Seq(Id)
      BY <3>1, QueuedInOrderType, ConcatProperties
    <3> QED
      BY <2>1, <3>1, <3>2 DEF Boot, RecoverOutbox, NextRound
  <2>2. CASE Get(t)
    <3>1. Head(queue[t]) \in Id /\ Tail(queue[t]) \in Seq(Id)
      BY <2>2, HeadTailProperties DEF Get
    <3> QED
      BY <2>2, <3>1 DEF Get
  <2>3. CASE Exit(t)
    BY <2>3 DEF Exit
  <2>4. CASE Claim(t)
    <3>1. cur[t] \in Id
      BY <2>4 DEF Claim, WorkHasId
    <3>2. outdated' \subseteq Id
      BY <2>4, <3>1 DEF Claim
    <3>3. CASE ClaimOutbox(cur[t])
      <4>1. row' \in [Id -> RowState] /\ lease' \in {"free", "held"}
        BY <3>1, <3>3 DEF ClaimOutbox
      <4>2. attempts' \in [Id -> Nat]
        BY <3>1, <3>3 DEF ClaimOutbox
      <4> QED
        BY <2>4, <3>2, <4>1, <4>2 DEF Claim
    <3>4. CASE UNCHANGED storeVars
      BY <2>4, <3>2, <3>4 DEF Claim
    <3> QED
      BY <2>4, <3>3, <3>4 DEF Claim
  <2>5. CASE Check(t)
    <3>1. pc' \in [Thread -> {"off", "boot", "get", "claim", "check", "lease", "wire"}]
      BY <2>5 DEF Check, NextRound
    <3>2. cur' \in [Thread -> Id \cup {NoId}]
      BY <2>5 DEF Check
    <3> QED
      BY <2>5, <3>1, <3>2 DEF Check
  <2>7. CASE CheckLease(t)
    <3>1. Append(queue[t], cur[t]) \in Seq(Id)
      BY <2>7, AppendProperties DEF CheckLease, WorkHasId
    <3>2. queue' \in [Thread -> Seq(Id)]
      BY <2>7, <3>1 DEF CheckLease
    <3>3. pc' \in [Thread -> {"off", "boot", "get", "claim", "check", "lease", "wire"}]
      BY <2>7 DEF CheckLease, NextRound
    <3> QED
      BY <2>7, <3>2, <3>3 DEF CheckLease
  <2>6. CASE Answer(t)
    <3>1. row' \in [Id -> RowState] /\ UNCHANGED <<attempts, lease>>
      BY <2>6 DEF Answer, OutboxSet
    <3>2. pc' \in [Thread -> {"off", "boot", "get", "claim", "check", "lease", "wire"}]
      BY <2>6 DEF Answer, NextRound
    <3> QED
      BY <2>6, <3>1, <3>2 DEF Answer
  <2> QED
    BY <1>18, <2>1, <2>2, <2>3, <2>4, <2>5, <2>6, <2>7 DEF ThreadStep
<1>19. ASSUME NEW t \in Thread, ThreadDies(t) PROVE TypeOK'
  BY <1>19 DEF ThreadDies, Spend
<1>20. CASE UNCHANGED vars
  BY <1>20 DEF vars
<1> QED
  BY <1>1, <1>2, <1>3, <1>4, <1>5, <1>6, <1>7, <1>8, <1>9, <1>10, <1>11,
     <1>12, <1>13, <1>14, <1>15, <1>16, <1>17, <1>18, <1>19, <1>20 DEF Next

(***************************************************************************)
(* Only the threads themselves, the start of a backend and the end of the  *)
(* process move a thread; every other step leaves pc and cur alone.        *)
(***************************************************************************)
LEMMA ThreadMoves ==
  [Next]_vars =>
    \/ UNCHANGED <<pc, cur>>
    \/ AgentKilled \/ AgentShutdown
    \/ \E t \in Thread : StartBackend(t) \/ ThreadStep(t) \/ ThreadDies(t)
<1> USE DEF threadVars
<1>1. ASSUME NEW i \in Id, OnSend(i) \/ OnRetry(i) PROVE UNCHANGED <<pc, cur>>
  BY <1>1 DEF OnSend, OnRetry
<1>2. Repaint \/ LinkUp \/ LinkDown \/ HandleSubmit \/ HandleKick
        => UNCHANGED <<pc, cur>>
  BY DEF Repaint, LinkUp, LinkDown, HandleSubmit, HandleKick
<1>3. AgentStart \/ Rebuild \/ Watchdog => UNCHANGED <<pc, cur>>
  BY DEF AgentStart, Rebuild, Watchdog, StopBackend
<1>4. WakeMac \/ WakeCallLost \/ MacDone \/ ReleaseLease \/ LeaseExpires
        => UNCHANGED <<pc, cur>>
  BY DEF WakeMac, WakeCallLost, MacDone, ReleaseLease, LeaseExpires
<1>5. UNCHANGED vars => UNCHANGED <<pc, cur>>
  BY DEF vars
<1> QED
  BY <1>1, <1>2, <1>3, <1>4, <1>5 DEF Next

(***************************************************************************)
(* A thread that is past q.get() holds an outbox id.                       *)
(***************************************************************************)
LEMMA WorkHasIdStep == TypeOK /\ WorkHasId /\ [Next]_vars => WorkHasId'
<1> SUFFICES ASSUME TypeOK, WorkHasId, [Next]_vars PROVE WorkHasId'
  OBVIOUS
<1> USE DEF TypeOK, WorkHasId, NoId, threadVars
<1>1. CASE UNCHANGED <<pc, cur>>
  BY <1>1
<1>2. CASE AgentKilled \/ AgentShutdown
  BY <1>2 DEF AgentKilled, AgentShutdown, ProcessGone
<1>3. ASSUME NEW t \in Thread, StartBackend(t) PROVE WorkHasId'
  BY <1>3 DEF StartBackend
<1>4. ASSUME NEW t \in Thread, ThreadStep(t) PROVE WorkHasId'
  <2>1. CASE Get(t)
    <3>1. Head(queue[t]) \in Id
      BY <2>1, HeadTailProperties DEF Get
    <3> QED
      BY <2>1, <3>1 DEF Get
  <2>2. CASE Boot(t) \/ Exit(t) \/ Claim(t)
    BY <2>2 DEF Boot, Exit, Claim, NextRound
  <2>3. CASE Check(t) \/ CheckLease(t) \/ Answer(t)
    BY <2>3 DEF Check, CheckLease, Answer, NextRound
  <2> QED
    BY <1>4, <2>1, <2>2, <2>3 DEF ThreadStep
<1>5. ASSUME NEW t \in Thread, ThreadDies(t) PROVE WorkHasId'
  BY <1>5 DEF ThreadDies
<1> QED
  BY <1>1, <1>2, <1>3, <1>4, <1>5, ThreadMoves

(***************************************************************************)
(* Type correctness of the send path: under every hazard the environment   *)
(* may produce, the table, the queues and the threads keep their types.    *)
(***************************************************************************)
THEOREM SendPathTypeCorrect == Spec => []TypeOK
<1>1. Init => TypeOK /\ WorkHasId
  BY DEF Init, StoreInit, TypeOK, StoreTypeOK, RowState, WorkHasId, NoId
<1>2. TypeOK /\ WorkHasId /\ [Next]_vars => TypeOK' /\ WorkHasId'
  BY TypeStep, WorkHasIdStep
<1> QED
  BY <1>1, <1>2, PTL DEF Spec

----------------------------------------------------------------------------
(***************************************************************************)
(* The two timing hazards excluded: a backend is not torn down before its  *)
(* SendThread has booted, and no Retry is clicked on an outdated bubble.   *)
(***************************************************************************)
Punctual == "late_boot" \notin Hazards /\ "stale_view" \notin Hazards

(***************************************************************************)
(* A row that some thread is sending is not queued, so no restart of       *)
(* Messages can begin; and it is not failed, so nobody can retry it.       *)
(***************************************************************************)
LEMMA SendInvStep ==
  ASSUME Punctual, SendInv, [Next]_vars
  PROVE  SendInv'
<1>0. TypeOK /\ TypeOK' /\ WorkHasId /\ WorkHasId'
  BY TypeStep, WorkHasIdStep DEF SendInv
<1> USE <1>0 DEF SendInv, SingleClaimant, WireRowIsSending, RestartFencesSends,
      BootIsCurrent, MarkerIsAlone, NothingOutdated, RestartHoldsLease, WorkHasId
<1>1. ASSUME NEW i \in Id, OnSend(i) PROVE SendInv'
  BY <1>1 DEF OnSend, Enqueue, threadVars, wakeVars, TypeOK, StoreTypeOK
<1>2. ASSUME NEW i \in Id, OnRetry(i) PROVE SendInv'
  BY <1>2 DEF OnRetry, OutboxSet, threadVars, wakeVars, TypeOK, StoreTypeOK
<1>3. CASE Repaint \/ LinkUp \/ LinkDown
  BY <1>3 DEF Repaint, LinkUp, LinkDown, storeVars, threadVars, wakeVars
<1>4. CASE HandleSubmit \/ HandleKick
  BY <1>4 DEF HandleSubmit, HandleKick, storeVars, wakeVars
<1>5. CASE AgentStart
  BY <1>5 DEF AgentStart, storeVars, threadVars, wakeVars, windowVars
<1>6. CASE StopBackend
  <2>1. \A t \in Thread : pc[t] # "boot"
    BY <1>6 DEF StopBackend, Punctual
  <2>2. UNCHANGED <<row, pc, cur, marking, mac, outdated>>
    BY <1>6 DEF StopBackend, FreeLease, storeVars, windowVars
  <2>3. mac = "restarting" => lease' = lease
    BY <1>6 DEF StopBackend, FreeLease, storeVars
  <2> QED
    BY <2>1, <2>2, <2>3
<1>7. CASE AgentKilled
  BY <1>7 DEF AgentKilled, ProcessGone, storeVars
<1>8. CASE AgentShutdown
  BY <1>8 DEF AgentShutdown, ProcessGone
<1>9. ASSUME NEW t \in Thread, StartBackend(t) PROVE SendInv'
  <2>1. \A u \in Thread : pc[u] # "boot"
    BY <1>9, SendPathAssumption DEF StartBackend
  <2>2. pc[t] = "off" /\ sender' = t /\ pc' = [pc EXCEPT ![t] = "boot"]
    BY <1>9 DEF StartBackend, Running
  <2>3. UNCHANGED <<row, lease, mac, outdated>>
    BY <1>9 DEF StartBackend, storeVars, wakeVars, windowVars
  <2>4. \A u \in Thread \ {t} : pc'[u] = pc[u] /\ cur'[u] = cur[u]
    BY <1>9 DEF StartBackend, TypeOK
  <2>5. pc'[t] = "boot"
    BY <2>2 DEF TypeOK
  <2>6. t \in marking' => \A u \in Thread : pc[u] = "off"
    BY <1>9 DEF StartBackend, Running
  <2>7. SingleClaimant' /\ WireRowIsSending' /\ RestartFencesSends'
    BY <2>3, <2>4, <2>5
  <2>8. BootIsCurrent' /\ MarkerIsAlone'
    BY <2>1, <2>2, <2>4, <2>5, <2>6 DEF TypeOK
  <2> QED
    BY <2>3, <2>7, <2>8
<1>10. CASE WakeMac
  <2>1. \A t \in Thread : pc[t] # "wire"
    BY <1>10 DEF WakeMac, TryBeginMacMaintenance, RowsIn
  <2> QED
    BY <1>10, <2>1 DEF WakeMac, TryBeginMacMaintenance, threadVars, windowVars
<1>11. CASE MacDone \/ WakeCallLost
  BY <1>11 DEF MacDone, WakeCallLost, storeVars, threadVars, windowVars
<1>12. CASE ReleaseLease \/ LeaseExpires
  BY <1>12 DEF ReleaseLease, LeaseExpires, FreeLease, threadVars, wakeVars, windowVars
<1>13. ASSUME NEW t \in Thread, Boot(t) PROVE SendInv'
  BY <1>13 DEF Boot, RecoverOutbox, NextRound, wakeVars, windowVars, TypeOK, StoreTypeOK
<1>14. ASSUME NEW t \in Thread, Get(t) \/ Exit(t) \/ Check(t) \/ CheckLease(t)
       PROVE  SendInv'
  <2>1. /\ pc[t] \in {"get", "check", "lease"}
        /\ pc'[t] \in {"claim", "lease", "off", "get"}
        /\ \A u \in Thread \ {t} : pc'[u] = pc[u] /\ cur'[u] = cur[u]
    BY <1>14 DEF Get, Exit, Check, CheckLease, NextRound, TypeOK
  <2>2. UNCHANGED <<row, lease, sender, marking, mac, outdated>>
    BY <1>14 DEF Get, Exit, Check, CheckLease, storeVars, wakeVars, windowVars
  <2>3. SingleClaimant' /\ WireRowIsSending' /\ RestartFencesSends'
    BY <2>1, <2>2
  <2>4. BootIsCurrent' /\ MarkerIsAlone'
    BY <2>1, <2>2 DEF TypeOK
  <2> QED
    BY <2>2, <2>3, <2>4
<1>15. ASSUME NEW t \in Thread, Claim(t) PROVE SendInv'
  <2>1. /\ pc[t] = "claim" /\ cur[t] \in Id
        /\ UNCHANGED <<cur, sender, marking, mac>>
    BY <1>15 DEF Claim, wakeVars
  <2>2. outdated' = {}
    BY <1>15 DEF Claim, Punctual
  <2>3. CASE ClaimOutbox(cur[t])
    <3>1. /\ lease = "free" /\ lease' = lease
          /\ row[cur[t]] # "sending"
          /\ row' = [row EXCEPT ![cur[t]] = "sending"]
      BY <2>3 DEF ClaimOutbox, Claimable
    <3>2. pc' = [pc EXCEPT ![t] = "wire"]
      BY <1>15, <2>3 DEF Claim, ClaimOutbox
    <3>3. \A u \in Thread : pc[u] = "wire" => cur[u] # cur[t]
      BY <3>1
    <3>4. SingleClaimant'
      BY <2>1, <3>2, <3>3 DEF TypeOK
    <3>5. WireRowIsSending'
      BY <2>1, <3>1, <3>2, <3>3 DEF TypeOK, StoreTypeOK
    <3>6. RestartFencesSends' /\ RestartHoldsLease'
      BY <2>1, <3>1
    <3>7. BootIsCurrent' /\ MarkerIsAlone'
      BY <2>1, <3>2 DEF TypeOK
    <3> QED
      BY <2>2, <3>4, <3>5, <3>6, <3>7
  <2>4. CASE UNCHANGED storeVars /\ pc' = [pc EXCEPT ![t] = "check"]
    BY <2>1, <2>2, <2>4 DEF storeVars, TypeOK
  <2> QED
    BY <1>15, <2>3, <2>4 DEF Claim
<1>16. ASSUME NEW t \in Thread, Answer(t) PROVE SendInv'
  <2>1. /\ pc[t] = "wire" /\ cur[t] \in Id
        /\ UNCHANGED <<sender, marking, mac, outdated, lease>>
    BY <1>16 DEF Answer, OutboxSet, wakeVars, windowVars
  <2>2. PICK outcome \in {"sent", "failed"} : row' = [row EXCEPT ![cur[t]] = outcome]
    BY <1>16 DEF Answer, OutboxSet
  <2>3. /\ pc'[t] \in {"off", "get"}
        /\ \A u \in Thread \ {t} : pc'[u] = pc[u] /\ cur'[u] = cur[u]
    BY <1>16 DEF Answer, NextRound, TypeOK
  <2>4. \A u \in Thread \ {t} : pc[u] = "wire" => row'[cur[u]] = "sending"
    BY <2>1, <2>2 DEF TypeOK, StoreTypeOK
  <2>5. SingleClaimant' /\ WireRowIsSending'
    BY <2>3, <2>4
  <2>6. RestartFencesSends' /\ RestartHoldsLease' /\ BootIsCurrent' /\ MarkerIsAlone'
    BY <2>1, <2>3 DEF TypeOK
  <2> QED
    BY <2>1, <2>5, <2>6
<1>17. ASSUME NEW t \in Thread, ThreadDies(t) PROVE SendInv'
  BY <1>17 DEF ThreadDies, storeVars, wakeVars, windowVars, TypeOK
<1>18. CASE UNCHANGED vars
  BY <1>18 DEF vars, storeVars, threadVars, wakeVars, windowVars
<1> QED
  BY <1>1, <1>2, <1>3, <1>4, <1>5, <1>6, <1>7, <1>8, <1>9, <1>10, <1>11, <1>12,
     <1>13, <1>14, <1>15, <1>16, <1>17, <1>18
     DEF Next, Rebuild, Watchdog, ThreadStep

(***************************************************************************)
(* Without the two timing hazards, and whatever is killed, rebuilt, lost   *)
(* or failing: a row on the wire reads "sending" throughout its call, so   *)
(* it is never offered for retry and never missed by the active count.     *)
(***************************************************************************)
THEOREM SendInvariant == Punctual => (Spec => []SendInv)
<1>1. Init => SendInv
  BY DEF Init, StoreInit, SendInv, TypeOK, StoreTypeOK, RowState, NoId,
         SingleClaimant, WireRowIsSending, RestartFencesSends, BootIsCurrent,
         MarkerIsAlone, NothingOutdated, WorkHasId, RestartHoldsLease
<1>2. Punctual /\ SendInv /\ [Next]_vars => SendInv'
  BY SendInvStep
<1>3. ASSUME Punctual PROVE Spec => []SendInv
  <2>1. SendInv /\ [Next]_vars => SendInv'
    BY <1>2, <1>3
  <2> QED
    BY <1>1, <2>1, PTL DEF Spec
<1> QED
  BY <1>3

----------------------------------------------------------------------------
(***************************************************************************)
(* A row at "sending" always has a thread behind it, or a recovery ahead.  *)
(* Two facts carry this: a process that is gone leaves no thread behind,   *)
(* and the first backend of a process marks the rows of the last one.      *)
(***************************************************************************)
DownIsQuiet ==
  agent = "down" => sender = NoThread /\ \A t \in Thread : ~Running(t)

OrphanInv == TypeOK /\ WorkHasId /\ DownIsQuiet /\ NoOrphanedSending

LEMMA DownIsQuietStep ==
  ASSUME TypeOK, DownIsQuiet, [Next]_vars
  PROVE  DownIsQuiet'
<1> USE DEF DownIsQuiet, Running
<1>1. CASE UNCHANGED <<agent, sender, pc>>
  BY <1>1
<1>2. ASSUME NEW i \in Id, OnSend(i) \/ OnRetry(i)
      PROVE  UNCHANGED <<agent, sender, pc>>
  BY <1>2 DEF OnSend, OnRetry, threadVars
<1>3. Repaint \/ LinkUp \/ LinkDown \/ HandleSubmit \/ HandleKick \/ WakeMac
        \/ WakeCallLost \/ MacDone \/ ReleaseLease \/ LeaseExpires
        => UNCHANGED <<agent, sender, pc>>
  BY DEF Repaint, LinkUp, LinkDown, HandleSubmit, HandleKick, WakeMac,
         WakeCallLost, MacDone, ReleaseLease, LeaseExpires, threadVars
<1>4. CASE AgentStart
  BY <1>4 DEF AgentStart
<1>5. CASE Rebuild \/ Watchdog
  BY <1>5 DEF Rebuild, Watchdog, StopBackend
<1>6. CASE AgentKilled \/ AgentShutdown
  BY <1>6 DEF AgentKilled, AgentShutdown, ProcessGone
<1>7. ASSUME NEW t \in Thread, StartBackend(t)
      PROVE  DownIsQuiet'
  BY <1>7 DEF StartBackend
<1>8. ASSUME NEW t \in Thread, ThreadStep(t) \/ ThreadDies(t)
      PROVE  DownIsQuiet'
  <2>1. pc[t] # "off" /\ agent' = agent
    BY <1>8 DEF ThreadStep, Boot, Get, Exit, Claim, Check, CheckLease, Answer,
                ThreadDies
  <2> QED
    BY <2>1
<1>9. CASE UNCHANGED vars
  BY <1>9 DEF vars, threadVars
<1> QED
  BY <1>1, <1>2, <1>3, <1>4, <1>5, <1>6, <1>7, <1>8, <1>9 DEF Next

(***************************************************************************)
(* What a step may do and leave every row at "sending" accounted for.      *)
(***************************************************************************)
LEMMA OrphanFrame ==
  ASSUME TypeOK, NoOrphanedSending,
         UNCHANGED <<agent, marking, pc, cur>>,
         sender' \in {sender, NoThread},
         \A i \in Id : row'[i] = "sending" => row[i] = "sending"
  PROVE  NoOrphanedSending'
BY DEF NoOrphanedSending, RecoveryPending, RowsIn, Running, OnWire

LEMMA NoOrphanedSendingStep ==
  ASSUME OrphanInv, [Next]_vars, "db_fault" \notin Hazards
  PROVE  NoOrphanedSending'
<1> USE DEF OrphanInv
<1>1. ASSUME NEW i \in Id, OnSend(i) \/ OnRetry(i)
      PROVE  NoOrphanedSending'
  <2>1. \A j \in Id : row'[j] = "sending" => row[j] = "sending"
    BY <1>1 DEF OnSend, OnRetry, Enqueue, OutboxSet, TypeOK, StoreTypeOK
  <2> QED
    BY <1>1, <2>1, OrphanFrame DEF OnSend, OnRetry, threadVars
<1>2. CASE Repaint \/ LinkUp \/ LinkDown \/ HandleSubmit \/ HandleKick
           \/ WakeMac \/ WakeCallLost \/ MacDone \/ ReleaseLease
           \/ LeaseExpires
  BY <1>2, OrphanFrame
  DEF Repaint, LinkUp, LinkDown, HandleSubmit, HandleKick, WakeMac,
      WakeCallLost, MacDone, ReleaseLease, LeaseExpires, FreeLease,
      TryBeginMacMaintenance, threadVars, storeVars
<1>3. CASE Rebuild \/ Watchdog
  BY <1>3, OrphanFrame
  DEF Rebuild, Watchdog, StopBackend, FreeLease, storeVars
<1>4. CASE AgentStart
  BY <1>4 DEF AgentStart, DownIsQuiet, NoOrphanedSending, RecoveryPending,
              Running, threadVars
<1>5. CASE AgentKilled \/ AgentShutdown
  BY <1>5 DEF AgentKilled, AgentShutdown, ProcessGone, NoOrphanedSending,
              RecoveryPending
<1>6. ASSUME NEW t \in Thread, StartBackend(t)
      PROVE  NoOrphanedSending'
  <2>1. /\ agent = "up" /\ pc[t] = "off" /\ row' = row
        /\ pc' = [pc EXCEPT ![t] = "boot"]
        /\ \A u \in Thread \ {t} : cur'[u] = cur[u]
    BY <1>6 DEF StartBackend, Running, storeVars, TypeOK
  <2>2. CASE \A u \in Thread : ~Running(u)
    <3>1. t \in marking' /\ pc'[t] = "boot"
      BY <1>6, <2>1, <2>2 DEF StartBackend, TypeOK
    <3> QED
      BY <3>1 DEF NoOrphanedSending, RecoveryPending
  <2>3. ASSUME NEW u \in marking, pc[u] = "boot"
        PROVE  NoOrphanedSending'
    <3>1. u # t /\ u \in marking' /\ pc'[u] = "boot"
      BY <1>6, <2>1, <2>3 DEF StartBackend, TypeOK
    <3> QED
      BY <3>1 DEF NoOrphanedSending, RecoveryPending
  <2>4. CASE \A i \in RowsIn({"sending"}) : \E u \in Thread : OnWire(u, i)
    <3>1. ASSUME NEW u \in Thread, NEW i \in Id, OnWire(u, i)
          PROVE  OnWire(u, i)'
      BY <2>1, <3>1 DEF OnWire, TypeOK
    <3> QED
      BY <2>1, <2>4, <3>1 DEF NoOrphanedSending, RowsIn
  <2> QED
    BY <2>1, <2>2, <2>3, <2>4 DEF NoOrphanedSending, RecoveryPending
<1>7. ASSUME NEW t \in Thread, Boot(t)
      PROVE  NoOrphanedSending'
  <2>1. /\ pc[t] = "boot" /\ UNCHANGED <<agent, cur, marking>>
        /\ pc'[t] \in {"off", "get"}
        /\ \A u \in Thread \ {t} : pc'[u] = pc[u]
        /\ agent # "down"
    BY <1>7 DEF Boot, NextRound, TypeOK, DownIsQuiet, Running
  <2>2. CASE t \in marking
    <3>1. \A i \in Id : row'[i] # "sending"
      BY <1>7, <2>2 DEF Boot, RecoverOutbox
    <3> QED
      BY <3>1 DEF NoOrphanedSending, RowsIn
  <2>3. CASE t \notin marking
    <3>1. \A i \in Id : row'[i] = row[i]
      BY <1>7, <2>3 DEF Boot, RecoverOutbox
    <3>2. ASSUME NEW i \in Id, row'[i] = "sending"
          PROVE  RecoveryPending' \/ \E u \in Thread : OnWire(u, i)'
      <4>1. CASE \E u \in marking : pc[u] = "boot"
        BY <2>1, <2>3, <4>1 DEF RecoveryPending, TypeOK
      <4>2. CASE \E u \in Thread : OnWire(u, i)
        BY <2>1, <4>2 DEF OnWire
      <4> QED
        BY <2>1, <3>1, <3>2, <4>1, <4>2
        DEF NoOrphanedSending, RecoveryPending, RowsIn, Running
    <3> QED
      BY <3>2 DEF NoOrphanedSending, RowsIn
  <2> QED
    BY <2>2, <2>3
<1>8. ASSUME NEW t \in Thread, Get(t) \/ Exit(t) \/ Claim(t) \/ Check(t)
                              \/ CheckLease(t) \/ Answer(t)
      PROVE  NoOrphanedSending'
  <2>1. /\ pc[t] \notin {"off", "boot"} /\ UNCHANGED <<agent, sender, marking>>
        /\ \A u \in Thread \ {t} : pc'[u] = pc[u] /\ cur'[u] = cur[u]
        /\ agent # "down"
    BY <1>8 DEF Get, Exit, Claim, Check, CheckLease, Answer, NextRound, TypeOK, Running,
                DownIsQuiet
  <2>2. ASSUME NEW i \in Id, row'[i] = "sending", ~OnWire(t, i)'
        PROVE  row[i] = "sending" /\ ~OnWire(t, i)
    <3>1. CASE Get(t) \/ Exit(t) \/ Check(t) \/ CheckLease(t)
      BY <2>2, <3>1 DEF Get, Exit, Check, CheckLease, OnWire, storeVars
    <3>2. CASE Claim(t)
      BY <2>2, <3>2 DEF Claim, ClaimOutbox, OnWire, storeVars, WorkHasId,
                        TypeOK, StoreTypeOK
    <3>3. CASE Answer(t)
      BY <2>2, <3>3 DEF Answer, OutboxSet, OnWire, WorkHasId, TypeOK,
                        StoreTypeOK
    <3> QED
      BY <1>8, <3>1, <3>2, <3>3
  <2>3. ASSUME NEW i \in Id, row'[i] = "sending"
        PROVE  RecoveryPending' \/ \E u \in Thread : OnWire(u, i)'
    <3>1. CASE OnWire(t, i)'
      BY <3>1
    <3>2. CASE ~OnWire(t, i)'
      <4>1. row[i] = "sending" /\ ~OnWire(t, i)
        BY <2>2, <2>3, <3>2
      <4>2. CASE \E u \in marking : pc[u] = "boot"
        BY <2>1, <4>2 DEF RecoveryPending, TypeOK
      <4>3. ASSUME NEW u \in Thread, OnWire(u, i)
            PROVE  OnWire(u, i)'
        BY <2>1, <4>1, <4>3 DEF OnWire
      <4> QED
        BY <2>1, <4>1, <4>2, <4>3
        DEF NoOrphanedSending, RecoveryPending, RowsIn, Running
    <3> QED
      BY <3>1, <3>2
  <2> QED
    BY <2>3 DEF NoOrphanedSending, RowsIn
<1>9. ASSUME NEW t \in Thread, ThreadDies(t)
      PROVE  FALSE
  BY <1>9 DEF ThreadDies
<1>10. CASE UNCHANGED vars
  BY <1>10, OrphanFrame DEF vars, threadVars, storeVars
<1> QED
  BY <1>1, <1>2, <1>3, <1>4, <1>5, <1>6, <1>7, <1>8, <1>9, <1>10
  DEF Next, ThreadStep

(***************************************************************************)
(* No bubble shows "sending" with nothing behind it: under every timing    *)
(* hazard, every kill and every rebuild, a row at "sending" is in a call   *)
(* of a thread or will be marked by the next backend, unless a SQLite call *)
(* of a SendThread raises.                                                 *)
(***************************************************************************)
THEOREM SendingHasAnOwner ==
  ASSUME "db_fault" \notin Hazards
  PROVE  Spec => []NoOrphanedSending
<1>1. Init => OrphanInv
  BY DEF Init, StoreInit, OrphanInv, TypeOK, StoreTypeOK, RowState, NoId,
         WorkHasId, DownIsQuiet, Running, NoOrphanedSending, RowsIn
<1>2. OrphanInv /\ [Next]_vars => OrphanInv'
  BY TypeStep, WorkHasIdStep, DownIsQuietStep, NoOrphanedSendingStep
  DEF OrphanInv
<1>3. OrphanInv => NoOrphanedSending
  BY DEF OrphanInv
<1> QED
  BY <1>1, <1>2, <1>3, PTL DEF Spec

----------------------------------------------------------------------------
(***************************************************************************)
(* Steps that leave the threads in their calls, the accepted rows and the  *)
(* state of Messages alone are stuttering steps of SendFence.              *)
(***************************************************************************)
LEMMA FenceStutter ==
  ASSUME TypeOK, TypeOK',
         \A t \in Thread : /\ pc[t] = "wire" <=> pc'[t] = "wire"
                           /\ pc[t] = "wire" => cur'[t] = cur[t],
         \A i \in Id : row[i] = "sent" <=> row'[i] = "sent",
         mac = "restarting" <=> mac' = "restarting"
  PROVE  UNCHANGED <<Calls, Accepted, Restart>>
<1>1. Calls' = Calls
  BY DEF Calls
<1>2. Accepted' = Accepted
  BY DEF Accepted, RowsIn
<1>3. Restart' = Restart
  BY DEF Restart
<1> QED
  BY <1>1, <1>2, <1>3

(***************************************************************************)
(* Every step of the send path is a step of SendFence or leaves what       *)
(* SendFence sees unchanged.                                               *)
(***************************************************************************)
LEMMA FenceStep ==
  ASSUME Punctual, SendInv, SendInv', [Next]_vars
  PROVE  Fence!Next \/ UNCHANGED <<Calls, Accepted, Restart>>
<1> DEFINE Stutter == UNCHANGED <<Calls, Accepted, Restart>>
<1>0. TypeOK /\ TypeOK' /\ WorkHasId
  BY DEF SendInv
<1> USE <1>0
<1>1. ASSUME NEW i \in Id, OnSend(i) \/ OnRetry(i) PROVE Stutter
  <2>1. UNCHANGED <<pc, cur, mac>>
    BY <1>1 DEF OnSend, OnRetry, threadVars, wakeVars
  <2>2. row[i] \in {"none", "failed"} /\ row' = [row EXCEPT ![i] = "queued"]
    BY <1>1 DEF OnSend, OnRetry, Enqueue, OutboxSet, SendInv, NothingOutdated
  <2> QED
    BY <2>1, <2>2, FenceStutter DEF TypeOK, StoreTypeOK
<1>2. CASE Repaint \/ LinkUp \/ LinkDown \/ HandleSubmit \/ HandleKick \/ AgentStart
  <2>1. UNCHANGED <<pc, cur, mac, row>>
    BY <1>2 DEF Repaint, LinkUp, LinkDown, HandleSubmit, HandleKick, AgentStart,
                storeVars, threadVars, wakeVars
  <2> QED
    BY <2>1, FenceStutter
<1>3. CASE StopBackend \/ ReleaseLease \/ LeaseExpires
  <2>1. UNCHANGED <<pc, cur, mac, row>>
    BY <1>3 DEF StopBackend, ReleaseLease, LeaseExpires, FreeLease,
                storeVars, threadVars, wakeVars
  <2> QED
    BY <2>1, FenceStutter
<1>4. CASE AgentKilled \/ AgentShutdown
  <2>1. Calls' = {}
    BY <1>4 DEF AgentKilled, AgentShutdown, ProcessGone, Calls
  <2>2. \A i \in Id : row[i] = "sent" <=> row'[i] = "sent"
    <3>1. CASE AgentKilled
      BY <3>1 DEF AgentKilled, storeVars
    <3>2. CASE AgentShutdown
      BY <3>2 DEF AgentShutdown, OnWire, SendInv, WireRowIsSending
    <3> QED
      BY <1>4, <3>1, <3>2
  <2>3. Accepted' = Accepted
    BY <2>2 DEF Accepted, RowsIn
  <2>4. Restart' \in {"no", Restart}
    BY <1>4 DEF AgentKilled, AgentShutdown, Restart
  <2> QED
    BY <2>1, <2>3, <2>4 DEF Fence!Next, Fence!Abort
<1>5. ASSUME NEW t \in Thread, StartBackend(t) PROVE Stutter
  <2>1. UNCHANGED <<row, mac>> /\ pc[t] = "off" /\ pc' = [pc EXCEPT ![t] = "boot"]
        /\ cur' = [cur EXCEPT ![t] = NoId]
    BY <1>5 DEF StartBackend, Running, storeVars, wakeVars
  <2> QED
    BY <2>1, FenceStutter DEF TypeOK
<1>6. CASE WakeMac
  <2>1. Calls = {} /\ Calls' = {}
    BY <1>6 DEF WakeMac, TryBeginMacMaintenance, RowsIn, SendInv, WireRowIsSending,
                WorkHasId, Calls, threadVars
  <2>2. Accepted' = Accepted
    BY <1>6 DEF WakeMac, TryBeginMacMaintenance, Accepted, RowsIn
  <2>3. Restart = "no" /\ Restart' = "yes"
    BY <1>6 DEF WakeMac, TryBeginMacMaintenance, Restart, SendInv, RestartHoldsLease
  <2> QED
    BY <2>1, <2>2, <2>3 DEF Fence!Next, Fence!BeginRestart
<1>7. CASE MacDone \/ WakeCallLost
  <2>1. UNCHANGED <<Calls, Accepted>> /\ Restart' = "no" /\ Restart \in {"yes", "no"}
    BY <1>7 DEF MacDone, WakeCallLost, Calls, Accepted, RowsIn, Restart, storeVars, threadVars
  <2> QED
    BY <2>1 DEF Fence!Next, Fence!EndRestart
<1>8. ASSUME NEW t \in Thread, Boot(t) PROVE Stutter
  <2>1. /\ UNCHANGED <<cur, mac>> /\ pc[t] = "boot" /\ pc'[t] \in {"off", "get"}
        /\ \A u \in Thread \ {t} : pc'[u] = pc[u]
    BY <1>8 DEF Boot, NextRound, wakeVars, TypeOK
  <2>2. \A i \in Id : row[i] = "sent" <=> row'[i] = "sent"
    BY <1>8 DEF Boot, RecoverOutbox
  <2> QED
    BY <2>1, <2>2, FenceStutter
<1>9. ASSUME NEW t \in Thread, Get(t) \/ Exit(t) \/ Check(t) \/ CheckLease(t)
      PROVE  Stutter
  <2>1. /\ pc[t] \in {"get", "check", "lease"}
        /\ pc'[t] \in {"claim", "lease", "off", "get"}
        /\ \A u \in Thread \ {t} : pc'[u] = pc[u] /\ cur'[u] = cur[u]
        /\ UNCHANGED <<row, mac>>
    BY <1>9 DEF Get, Exit, Check, CheckLease, NextRound, storeVars, wakeVars, TypeOK
  <2> QED
    BY <2>1, FenceStutter
<1>10. ASSUME NEW t \in Thread, Claim(t) PROVE Fence!Next \/ Stutter
  <2>1. pc[t] = "claim" /\ cur[t] \in Id /\ UNCHANGED <<cur, mac>>
    BY <1>10 DEF Claim, WorkHasId, wakeVars
  <2>2. CASE ClaimOutbox(cur[t])
    <3>1. /\ lease = "free" /\ row[cur[t]] \in {"queued", "failed"}
          /\ row' = [row EXCEPT ![cur[t]] = "sending"]
          /\ pc' = [pc EXCEPT ![t] = "wire"]
      BY <1>10, <2>2 DEF Claim, ClaimOutbox, Claimable
    <3>2. Restart = "no" /\ Restart' = Restart
      BY <2>1, <3>1 DEF Restart, SendInv, RestartHoldsLease
    <3>3. Accepted' = Accepted /\ cur[t] \notin Accepted
      BY <2>1, <3>1 DEF Accepted, RowsIn, TypeOK, StoreTypeOK
    <3>4. \A c \in Calls : c[1] # t /\ c[2] # cur[t]
      BY <2>1, <3>1 DEF Calls, SendInv, WireRowIsSending
    <3>5. Calls' = Calls \cup {<<t, cur[t]>>}
      BY <2>1, <3>1 DEF Calls, TypeOK
    <3> QED
      BY <2>1, <3>2, <3>3, <3>4, <3>5 DEF Fence!Next, Fence!Post
  <2>3. CASE UNCHANGED storeVars /\ pc' = [pc EXCEPT ![t] = "check"]
    BY <2>1, <2>3, FenceStutter DEF storeVars, TypeOK
  <2> QED
    BY <1>10, <2>2, <2>3 DEF Claim
<1>11. ASSUME NEW t \in Thread, Answer(t) \/ ThreadDies(t), pc[t] = "wire"
       PROVE  Fence!Next
  <2> DEFINE c == <<t, cur[t]>>
  <2>1. /\ pc'[t] \in {"off", "get"} /\ mac' = mac
        /\ \A u \in Thread \ {t} : pc'[u] = pc[u] /\ cur'[u] = cur[u]
    BY <1>11 DEF Answer, ThreadDies, NextRound, wakeVars, TypeOK
  <2>2. c \in Calls /\ Calls' = Calls \ {c}
    BY <1>11, <2>1 DEF Calls
  <2>3. Restart' = Restart
    BY <2>1 DEF Restart
  <2>4. cur[t] \in Id /\ row[cur[t]] = "sending"
    BY <1>11 DEF WorkHasId, SendInv, WireRowIsSending
  <2>5. \/ row' = row
        \/ row' = [row EXCEPT ![cur[t]] = "sent"]
        \/ row' = [row EXCEPT ![cur[t]] = "failed"]
    BY <1>11 DEF Answer, ThreadDies, OutboxSet, storeVars
  <2>6. Accepted' \in {Accepted, Accepted \cup {c[2]}}
    BY <2>4, <2>5 DEF Accepted, RowsIn, TypeOK, StoreTypeOK
  <2> QED
    BY <2>2, <2>3, <2>6 DEF Fence!Next, Fence!Finish
<1>12. ASSUME NEW t \in Thread, ThreadDies(t), pc[t] # "wire" PROVE Stutter
  <2>1. UNCHANGED <<cur, row, mac>> /\ pc' = [pc EXCEPT ![t] = "off"]
    BY <1>12 DEF ThreadDies, storeVars, wakeVars
  <2> QED
    BY <1>12, <2>1, FenceStutter DEF TypeOK
<1>13. CASE UNCHANGED vars
  BY <1>13, FenceStutter DEF vars, storeVars, threadVars, wakeVars
<1>14. ASSUME NEW t \in Thread, Answer(t) PROVE pc[t] = "wire"
  BY <1>14 DEF Answer
<1> QED
  BY <1>1, <1>2, <1>3, <1>4, <1>5, <1>6, <1>7, <1>8, <1>9, <1>10, <1>11, <1>12,
     <1>13, <1>14 DEF Next, Rebuild, Watchdog, ThreadStep

(***************************************************************************)
(* The send path implements SendFence: posts to the Mac and restarts of    *)
(* Messages exclude each other, no row is in two posts at once, and no row *)
(* is posted again after a positive answer.                                *)
(***************************************************************************)
THEOREM SendPathImplementsFence == Punctual => (Spec => ImplementsFence)
<1>1. Init => Fence!Init
  BY DEF Init, StoreInit, Fence!Init, Calls, Accepted, RowsIn, Restart
<1>2. ASSUME Punctual PROVE Spec => ImplementsFence
  <2>1. SendInv /\ SendInv' /\ [Next]_vars => [Fence!Next]_(Fence!fenceVars)
    BY <1>2, FenceStep DEF Fence!fenceVars
  <2>2. Spec => []SendInv
    BY <1>2, SendInvariant
  <2> QED
    BY <1>1, <2>1, <2>2, PTL DEF Spec, ImplementsFence, Fence!Spec
<1> QED
  BY <1>2
=============================================================================
