-------------------------- MODULE RowidCatchupProofs --------------------------
(***************************************************************************)
(* Proofs about RowidCatchup for every number of ROWIDs and workers, every *)
(* window width and every budget.                                          *)
(***************************************************************************)
EXTENDS RowidCatchup, TLAPS

(***************************************************************************)
(* What the moves of a worker do to the types of its own variables.        *)
(***************************************************************************)
LEMMA GotoType ==
  ASSUME CycleTypeOK, NEW w \in Worker, NEW label \in PC, Goto(w, label)
  PROVE  pc' \in [Worker -> PC]
BY DEF CycleTypeOK, Goto

LEMMA EndScanType ==
  ASSUME CycleTypeOK, ScanTypeOK, NEW w \in Worker, NEW label \in PC,
         EndScan(w, label)
  PROVE  pc' \in [Worker -> PC] /\ ScanTypeOK'
<1>1. pc' \in [Worker -> PC]
  BY GotoType DEF EndScan
<1>2. 0 \in 0..MaxRow
  BY StoreAssumption
<1> QED
  BY <1>1, <1>2 DEF EndScan, ScanTypeOK

LEMMA VanishType ==
  ASSUME CycleTypeOK, ScanTypeOK, NEW W, Vanish(W)
  PROVE  CycleTypeOK' /\ ScanTypeOK'
<1>1. CycleTypeOK'
  BY DEF Vanish, CycleTypeOK, PC
<1>2. 0 \in 0..MaxRow
  BY StoreAssumption
<1> QED
  BY <1>1, <1>2 DEF Vanish, ScanTypeOK

(***************************************************************************)
(* The answer to max_message_rowid costs at most one unit of the budget.   *)
(***************************************************************************)
LEMMA FaultsType ==
  ASSUME faults \in 0..MaxFaults, Strike \/ faults' = faults
  PROVE  faults' \in 0..MaxFaults
BY CatchupAssumption DEF Strike

LEMMA HighType ==
  ASSUME ScanTypeOK, NEW w \in Worker
  PROVE  High(w) \in 0..MaxRow
BY StoreAssumption, CatchupAssumption DEF ScanTypeOK, High


LEMMA AnswerType ==
  ASSUME NEW a, MaxMessageRowid(a)
  PROVE  Strike \/ faults' = faults
BY DEF MaxMessageRowid

LEMMA UpsertType ==
  ASSUME StoreTypeOK, NEW S \in SUBSET Message, NEW news, NEW repair,
         UpsertAll(S, news, repair)
  PROVE  stored' \in SUBSET Message /\ event' \in SUBSET Message
BY DEF StoreTypeOK, UpsertAll

LEMMA LowestType ==
  ASSUME StoreTypeOK, NEW a \in 0..MaxRow
  PROVE  Lowest(a) \in Absent..MaxRow
BY StoreAssumption DEF StoreTypeOK, Lowest, Absent

(***************************************************************************)
(* What an action leaves alone keeps its type.                             *)
(***************************************************************************)
LEMMA StoreFrame ==
  ASSUME StoreTypeOK, UNCHANGED <<messageVars, metaVars>>
  PROVE  StoreTypeOK'
BY DEF StoreTypeOK, messageVars, metaVars

LEMMA MacFrame ==
  ASSUME MacTypeOK, UNCHANGED macVars
  PROVE  MacTypeOK'
BY DEF MacTypeOK, macVars

LEMMA CycleFrame ==
  ASSUME CycleTypeOK, UNCHANGED cycleVars, pc' \in [Worker -> PC]
  PROVE  CycleTypeOK'
BY DEF CycleTypeOK, cycleVars

LEMMA ScanFrame ==
  ASSUME ScanTypeOK, UNCHANGED scanVars
  PROVE  ScanTypeOK'
BY DEF ScanTypeOK, scanVars

LEMMA ToldType ==
  ASSUME TypeOK, NEW w \in Worker, told' = [told EXCEPT ![w] = armed[w]]
  PROVE  told' \in [Worker -> BOOLEAN]
<1>1. armed[w] \in BOOLEAN
  BY DEF TypeOK, CycleTypeOK
<1> QED
  BY <1>1 DEF TypeOK, ScanTypeOK

(***************************************************************************)
(* Type correctness: one step per action.                                  *)
(***************************************************************************)
LEMMA MacStepType ==
  ASSUME TypeOK, MacStep
  PROVE  TypeOK'
<1> USE DEF TypeOK
<1>1. CASE Arrive
  <2>1. seq + 1 \in Row /\ seq' \in 0..MaxRow
    BY <1>1, StoreAssumption DEF Arrive, MacTypeOK, Row
  <2>2. <<seq + 1, gen>> \in Message
    BY <2>1 DEF MacTypeOK, Message
  <2>3. mac' \in [Row -> 0..MaxGen]
    BY <1>1, <2>1, StoreAssumption DEF Arrive, MacTypeOK
  <2>4. MacTypeOK'
    BY <1>1, <2>1, <2>2, <2>3 DEF Arrive, MacTypeOK
  <2> QED
    BY <1>1, <2>4, StoreFrame, CycleFrame, ScanFrame DEF Arrive, CycleTypeOK
<1>2. ASSUME NEW m \in Message, BecomesComplete(m)
      PROVE  TypeOK'
  <2>1. MacTypeOK'
    BY <1>2 DEF BecomesComplete, MacTypeOK
  <2> QED
    BY <1>2, <2>1, StoreFrame, CycleFrame, ScanFrame
    DEF BecomesComplete, CycleTypeOK
<1>3. ASSUME NEW r \in Row, DeleteOnMac(r)
      PROVE  TypeOK'
  <2>1. MacTypeOK'
    BY <1>3, StoreAssumption DEF DeleteOnMac, MacTypeOK
  <2> QED
    BY <1>3, <2>1, FaultsType, StoreFrame, CycleFrame, ScanFrame
    DEF DeleteOnMac, CycleTypeOK
<1>4. ASSUME NEW k \in 0..MaxRow, RestoreMac(k)
      PROVE  TypeOK'
  <2>1. MacTypeOK'
    BY <1>4, StoreAssumption DEF RestoreMac, MacTypeOK, Row
  <2> QED
    BY <1>4, <2>1, FaultsType, StoreFrame, CycleFrame, ScanFrame
    DEF RestoreMac, CycleTypeOK
<1>5. CASE UpgradeServer
  <2>1. MacTypeOK'
    BY <1>5 DEF UpgradeServer, MacTypeOK
  <2> QED
    BY <1>5, <2>1, StoreFrame, CycleFrame, ScanFrame
    DEF UpgradeServer, CycleTypeOK
<1> QED
  BY <1>1, <1>2, <1>3, <1>4, <1>5 DEF MacStep

LEMMA AgentStepType ==
  ASSUME TypeOK, AgentStep
  PROVE  TypeOK'
<1> USE DEF TypeOK
<1>1. ASSUME NEW started \in Generations, StartBackend(started)
      PROVE  TypeOK'
  <2>1. started \in SUBSET Worker
    BY <1>1 DEF Generations, Worker
  <2>2. CycleTypeOK'
    BY <1>1 DEF StartBackend, CycleTypeOK, StoreTypeOK, PC
  <2> QED
    BY <1>1, <2>1, <2>2, StoreFrame, MacFrame, ScanFrame DEF StartBackend
<1>2. CASE StopBackend
  <2>1. stopping' \in [Worker -> BOOLEAN]
    BY <1>2 DEF StopBackend
  <2>2. CycleTypeOK'
    BY <1>2, <2>1 DEF StopBackend, CycleTypeOK
  <2> QED
    BY <1>2, <2>2, FaultsType, StoreFrame, MacFrame, ScanFrame DEF StopBackend
<1>3. CASE AgentDies
  BY <1>3, VanishType, FaultsType, StoreFrame, MacFrame DEF AgentDies
<1>4. CASE EmptyMacIsStable
  <2>1. StoreTypeOK'
    BY <1>4 DEF EmptyMacIsStable, StoreTypeOK, messageVars
  <2> QED
    BY <1>4, <2>1, MacFrame, CycleFrame, ScanFrame
    DEF EmptyMacIsStable, CycleTypeOK
<1>5. ASSUME NEW m \in Message, HandleIncoming(m) \/ HandleUpdate(m)
      PROVE  TypeOK'
  <2>1. stored' \in SUBSET Message /\ event' \in SUBSET Message
    BY <1>5, UpsertType DEF HandleIncoming, HandleUpdate
  <2>2. StoreTypeOK'
    BY <1>5, <2>1 DEF HandleIncoming, HandleUpdate, StoreTypeOK, metaVars
  <2> QED
    BY <1>5, <2>2, MacFrame, CycleFrame, ScanFrame
    DEF HandleIncoming, HandleUpdate, CycleTypeOK
<1> QED
  BY <1>1, <1>2, <1>3, <1>4, <1>5 DEF AgentStep


\* Steps that move a worker and change none of the tables.
LEMMA QuietStepType ==
  ASSUME TypeOK, NEW w \in Worker,
         \/ Begin(w) \/ Reprobe(w) \/ AskFloor(w) \/ FloorRefused(w)
         \/ SyncEnds(w) \/ BeginCatchup(w) \/ AnswerMax(w) \/ RefuseRowids(w)
         \/ FinishScan(w) \/ TailAudit(w) \/ ArchiveAudit(w) \/ EndCycle(w)
         \/ CallFails(w) \/ Quit(w)
  PROVE  TypeOK'
<1> USE DEF TypeOK
<1>1. CASE Begin(w)
  <2>1. pc' \in [Worker -> PC]
    BY <1>1, GotoType DEF Begin, PC
  <2> QED
    BY <1>1, <2>1, StoreFrame, MacFrame, CycleFrame, ScanFrame DEF Begin
<1>2. CASE Reprobe(w)
  <2>1. CycleTypeOK'
    BY <1>2 DEF Reprobe, CycleTypeOK
  <2> QED
    BY <1>2, <2>1, StoreFrame, MacFrame, ScanFrame DEF Reprobe
<1>3. CASE AskFloor(w)
  <2>1. pc' \in [Worker -> PC]
    BY <1>3, GotoType DEF AskFloor, PC
  <2>2. ScanTypeOK'
    BY <1>3 DEF AskFloor, ScanTypeOK
  <2>3. faults' \in 0..MaxFaults
    BY <1>3, AnswerType, FaultsType DEF AskFloor
  <2> QED
    BY <1>3, <2>1, <2>2, <2>3, StoreFrame, MacFrame, CycleFrame DEF AskFloor
<1>4. CASE FloorRefused(w)
  <2>1. pc' \in [Worker -> PC]
    BY <1>4, GotoType DEF FloorRefused, PC
  <2> QED
    BY <1>4, <2>1, StoreFrame, MacFrame, CycleFrame, ScanFrame DEF FloorRefused
<1>5. CASE SyncEnds(w)
  BY <1>5, VanishType, StoreFrame, MacFrame DEF SyncEnds
<1>6. CASE BeginCatchup(w)
  <2>1. pc' \in [Worker -> PC]
    BY <1>6, GotoType DEF BeginCatchup, PC
  <2>2. ScanTypeOK'
    <3>1. told' \in [Worker -> BOOLEAN]
      BY <1>6, ToldType DEF BeginCatchup, ScanTypeOK
    <3>2. cur' \in [Worker -> 0..MaxRow] /\ UNCHANGED <<mode, snap, windows, page>>
      BY <1>6 DEF BeginCatchup, ScanTypeOK, StoreTypeOK
    <3> QED
      BY <3>1, <3>2 DEF ScanTypeOK
  <2> QED
    BY <1>6, <2>1, <2>2, StoreFrame, MacFrame, CycleFrame DEF BeginCatchup
<1>7. CASE AnswerMax(w)
  <2>1. pc' \in [Worker -> PC]
    BY <1>7, GotoType DEF AnswerMax, PC
  <2>2. ScanTypeOK'
    BY <1>7 DEF AnswerMax, ScanTypeOK
  <2>3. faults' \in 0..MaxFaults
    BY <1>7, AnswerType, FaultsType DEF AnswerMax
  <2> QED
    BY <1>7, <2>1, <2>2, <2>3, StoreFrame, MacFrame, CycleFrame DEF AnswerMax
<1>8. CASE RefuseRowids(w)
  <2>1. pc' \in [Worker -> PC] /\ ScanTypeOK'
    BY <1>8, EndScanType DEF RefuseRowids, PC
  <2>2. CycleTypeOK'
    BY <1>8, <2>1 DEF RefuseRowids, CycleTypeOK
  <2>3. faults' \in 0..MaxFaults
    BY <1>8, FaultsType DEF RefuseRowids
  <2> QED
    BY <1>8, <2>1, <2>2, <2>3, StoreFrame, MacFrame DEF RefuseRowids
<1>9. CASE FinishScan(w)
  <2>1. pc' \in [Worker -> PC] /\ ScanTypeOK'
    BY <1>9, EndScanType DEF FinishScan, PC
  <2>2. CASE UNCHANGED whole
    BY <1>9, <2>1, <2>2, StoreFrame, MacFrame DEF FinishScan, CycleTypeOK
  <2>3. ASSUME whole' = [whole EXCEPT ![w] = cur[w] >= snap[w]]
        PROVE  whole' \in [Worker -> BOOLEAN]
    BY <2>3 DEF CycleTypeOK
  <2> QED
    BY <1>9, <2>1, <2>2, <2>3, StoreFrame, MacFrame DEF FinishScan, CycleTypeOK
<1>10. CASE TailAudit(w)
  <2>1. pc' \in [Worker -> PC]
    BY <1>10, GotoType DEF TailAudit, PC
  <2>2. ScanTypeOK'
    <3>1. told' \in [Worker -> BOOLEAN]
      BY <1>10, ToldType DEF TailAudit
    <3>2. /\ mode' \in [Worker -> {"catchup", "tail", "archive"}]
          /\ UNCHANGED <<windows, page>>
      BY <1>10 DEF TailAudit, ScanTypeOK
    <3>3. cur' \in [Worker -> 0..MaxRow] /\ snap' \in [Worker -> 0..MaxRow]
      BY <1>10, StoreAssumption, CatchupAssumption DEF TailAudit, ScanTypeOK
    <3> QED
      BY <3>1, <3>2, <3>3 DEF ScanTypeOK
  <2>3. faults' \in 0..MaxFaults
    BY <1>10, AnswerType, FaultsType DEF TailAudit
  <2> QED
    BY <1>10, <2>1, <2>2, <2>3, StoreFrame, MacFrame, CycleFrame DEF TailAudit
<1>11. CASE ArchiveAudit(w)
  <2>1. pc' \in [Worker -> PC]
    BY <1>11, GotoType DEF ArchiveAudit, PC
  <2>2. ScanTypeOK'
    <3>1. told' \in [Worker -> BOOLEAN]
      BY <1>11, ToldType DEF ArchiveAudit
    <3>2. /\ mode' \in [Worker -> {"catchup", "tail", "archive"}]
          /\ UNCHANGED <<windows, page>>
      BY <1>11 DEF ArchiveAudit, ScanTypeOK
    <3>3. cur' \in [Worker -> 0..MaxRow] /\ snap' \in [Worker -> 0..MaxRow]
      BY <1>11, StoreAssumption DEF ArchiveAudit, ScanTypeOK, StoreTypeOK
    <3> QED
      BY <3>1, <3>2, <3>3 DEF ScanTypeOK
  <2>3. faults' \in 0..MaxFaults
    BY <1>11, AnswerType, FaultsType DEF ArchiveAudit
  <2> QED
    BY <1>11, <2>1, <2>2, <2>3, StoreFrame, MacFrame, CycleFrame
    DEF ArchiveAudit
<1>12. CASE EndCycle(w)
  <2>1. pc' \in [Worker -> PC]
    BY <1>12, GotoType DEF EndCycle, PC
  <2>2. CycleTypeOK'
    BY <1>12, <2>1 DEF EndCycle, CycleTypeOK
  <2> QED
    BY <1>12, <2>2, StoreFrame, MacFrame, ScanFrame DEF EndCycle
<1>13. CASE CallFails(w)
  <2>1. CASE EndScan(w, "idle") /\ whole' = [whole EXCEPT ![w] = FALSE]
             /\ UNCHANGED <<stopping, armed, support, heard>>
    <3>1. pc' \in [Worker -> PC] /\ ScanTypeOK'
      BY <2>1, EndScanType DEF PC
    <3>2. CycleTypeOK'
      BY <2>1, <3>1 DEF CycleTypeOK
    <3> QED
      BY <1>13, <3>1, <3>2, FaultsType, StoreFrame, MacFrame DEF CallFails
  <2>2. CASE Vanish({w})
    BY <1>13, <2>2, VanishType, FaultsType, StoreFrame, MacFrame DEF CallFails
  <2> QED
    BY <1>13, <2>1, <2>2 DEF CallFails
<1>14. CASE Quit(w)
  BY <1>14, VanishType, StoreFrame, MacFrame DEF Quit
<1> QED
  BY <1>1, <1>2, <1>3, <1>4, <1>5, <1>6, <1>7, <1>8, <1>9, <1>10, <1>11,
     <1>12, <1>13, <1>14


\* Steps that write to the tables.
LEMMA WriteStepType ==
  ASSUME TypeOK, NEW w \in Worker,
         \/ OnCaughtUp(w) \/ FreezeFloor(w) \/ Judge(w) \/ Commit(w)
         \/ LegacyCycle(w) \/ QueryWindow(w)
         \/ \E m \in Message, repair \in BOOLEAN : DateRead(w, m, repair)
         \/ \E r \in Row : RetryQuarantined(w, r)
  PROVE  TypeOK'
<1> USE DEF TypeOK
<1>1. CASE OnCaughtUp(w)
  <2>1. StoreTypeOK'
    BY <1>1 DEF OnCaughtUp, StoreTypeOK, messageVars
  <2>2. CycleTypeOK'
    BY <1>1 DEF OnCaughtUp, CycleTypeOK
  <2> QED
    BY <1>1, <2>1, <2>2, MacFrame, ScanFrame DEF OnCaughtUp
<1>2. CASE FreezeFloor(w)
  <2>1. pc' \in [Worker -> PC] /\ ScanTypeOK'
    BY <1>2, EndScanType DEF FreezeFloor, PC
  <2>2. snap[w] \in 0..MaxRow
    BY DEF ScanTypeOK
  <2>3. floor' \in Absent..MaxRow
    BY <1>2, <2>2, LowestType DEF FreezeFloor, StoreTypeOK
  <2>4. StoreTypeOK'
    BY <1>2, <2>3 DEF FreezeFloor, StoreTypeOK, messageVars
  <2> QED
    BY <1>2, <2>1, <2>4, MacFrame, CycleFrame DEF FreezeFloor
<1>3. CASE Judge(w)
  <2>1. snap[w] \in 0..MaxRow
    BY DEF ScanTypeOK
  <2>2. pc' \in [Worker -> PC] /\ ScanTypeOK'
    <3>1. CASE EndScan(w, "idle")
      BY <3>1, EndScanType DEF PC
    <3>2. CASE Goto(w, "window") /\ cur' = [cur EXCEPT ![w] = 0]
               /\ UNCHANGED <<told, mode, snap, windows, page>>
      <4>1. 0 \in 0..MaxRow
        BY StoreAssumption
      <4>2. ScanTypeOK'
        BY <3>2, <4>1 DEF ScanTypeOK
      <4> QED
        BY <3>2, <4>2, GotoType DEF PC
    <3>3. CASE Goto(w, "window") /\ UNCHANGED scanVars
      BY <3>3, GotoType, ScanFrame DEF PC
    <3> QED
      BY <1>3, <3>1, <3>2, <3>3 DEF Judge
  <2>3. floor' \in Absent..MaxRow
    BY <1>3, <2>1, LowestType DEF Judge, StoreTypeOK
  <2>4. lower' \in [candidate : Absent..MaxRow, count : 0..3]
    BY <1>3, <2>1, StoreAssumption DEF Judge, StoreTypeOK, Absent
  <2>5. cursor' \in 0..MaxRow
    BY <1>3, StoreAssumption DEF Judge, StoreTypeOK
  <2>6. StoreTypeOK'
    BY <1>3, <2>3, <2>4, <2>5 DEF Judge, StoreTypeOK, messageVars
  <2> QED
    BY <1>3, <2>2, <2>6, MacFrame, CycleFrame DEF Judge
<1>4. CASE Commit(w)
  <2>1. High(w) \in 0..MaxRow
    BY HighType
  <2>2. pc' \in [Worker -> PC]
    BY <1>4, GotoType DEF Commit, PC
  <2>3. ScanTypeOK'
    BY <1>4, <2>1 DEF Commit, ScanTypeOK
  <2>4. StoreTypeOK'
    BY <1>4, <2>1 DEF Commit, StoreTypeOK, messageVars
  <2> QED
    BY <1>4, <2>2, <2>3, <2>4, MacFrame, CycleFrame DEF Commit
<1>5. CASE LegacyCycle(w)
  <2>1. stored' \in SUBSET Message /\ event' \in SUBSET Message
    BY <1>5, UpsertType DEF LegacyCycle, Readable, Present
  <2>2. StoreTypeOK'
    BY <1>5, <2>1 DEF LegacyCycle, StoreTypeOK, metaVars
  <2>3. pc' \in [Worker -> PC]
    BY <1>5, GotoType DEF LegacyCycle, PC
  <2>4. CycleTypeOK'
    BY <1>5, <2>3 DEF LegacyCycle, CycleTypeOK
  <2> QED
    BY <1>5, <2>2, <2>4, MacFrame, ScanFrame DEF LegacyCycle
<1>6. CASE QueryWindow(w)
  <2>1. InWindow(w) \in SUBSET Message
    BY DEF InWindow, Present
  <2>2. pc' \in [Worker -> PC] /\ ScanTypeOK' /\ skipped' \in SUBSET Message
    <3>1. CASE EndScan(w, "idle") /\ UNCHANGED skipped
      BY <3>1, EndScanType DEF PC
    <3>2. ASSUME NEW missed \in SUBSET InWindow(w),
                 NEW found \in SUBSET InWindow(w),
                 skipped' = skipped \cup missed,
                 page' = [page EXCEPT ![w] =
                            {<<m[1], m[2], m \notin sparse>> : m \in found}],
                 Goto(w, IF found = {} THEN "commit" ELSE "put"),
                 UNCHANGED <<told, mode, cur, snap, windows>>
          PROVE  pc' \in [Worker -> PC] /\ ScanTypeOK'
                 /\ skipped' \in SUBSET Message
      <4>1. ASSUME NEW m \in found
            PROVE  <<m[1], m[2], m \notin sparse>> \in Reading
        <5>1. m[1] \in Row /\ m[2] \in 1..MaxGen
          BY <2>1 DEF Message
        <5>2. (m \notin sparse) \in BOOLEAN
          BY Zenon
        <5> QED
          BY <5>1, <5>2 DEF Reading
      <4>2. ScanTypeOK'
        BY <3>2, <4>1 DEF ScanTypeOK
      <4>3. pc' \in [Worker -> PC]
        BY <3>2, GotoType DEF PC
      <4> QED
        BY <2>1, <3>2, <4>2, <4>3
    <3>3. PICK missed \in SUBSET InWindow(w) :
            LET found == InWindow(w) \ missed
            IN  \/ EndScan(w, "idle") /\ UNCHANGED skipped
                \/ /\ skipped' = skipped \cup missed
                   /\ page' = [page EXCEPT ![w] =
                                 {<<m[1], m[2], m \notin sparse>> : m \in found}]
                   /\ Goto(w, IF found = {} THEN "commit" ELSE "put")
                   /\ UNCHANGED <<told, mode, cur, snap, windows>>
      BY <1>6 DEF QueryWindow
    <3>4. InWindow(w) \ missed \in SUBSET InWindow(w)
      OBVIOUS
    <3> QED
      BY <3>1, <3>2, <3>3, <3>4
  <2>3. faults' \in 0..MaxFaults
    BY <1>6, FaultsType DEF QueryWindow
  <2> QED
    BY <1>6, <2>2, <2>3, StoreFrame, MacFrame, CycleFrame DEF QueryWindow
<1>7. ASSUME NEW m \in Message, NEW repair \in BOOLEAN, DateRead(w, m, repair)
      PROVE  TypeOK'
  <2>1. stored' \in SUBSET Message /\ event' \in SUBSET Message
    BY <1>7, UpsertType DEF DateRead
  <2>2. StoreTypeOK'
    BY <1>7, <2>1 DEF DateRead, StoreTypeOK, metaVars
  <2>3. pc' \in [Worker -> PC]
    BY <1>7, GotoType DEF DateRead, PC
  <2> QED
    BY <1>7, <2>2, <2>3, MacFrame, CycleFrame, ScanFrame DEF DateRead
<1>8. ASSUME NEW r \in Row, RetryQuarantined(w, r)
      PROVE  TypeOK'
  <2>1. stored' \in SUBSET Message /\ event' \in SUBSET Message
    BY <1>8, UpsertType DEF RetryQuarantined, Readable, Present
  <2>2. failed' \in [Row -> 0..MaxGen]
    BY <1>8, StoreAssumption
    DEF RetryQuarantined, ClearSyncFailure, StoreTypeOK
  <2>3. StoreTypeOK'
    BY <1>8, <2>1, <2>2 DEF RetryQuarantined, StoreTypeOK, metaVars
  <2>4. pc' \in [Worker -> PC]
    BY <1>8, GotoType DEF RetryQuarantined, PC
  <2> QED
    BY <1>8, <2>3, <2>4, MacFrame, CycleFrame, ScanFrame DEF RetryQuarantined
<1> QED
  BY <1>1, <1>2, <1>3, <1>4, <1>5, <1>6, <1>7, <1>8

LEMMA PutRowType ==
  ASSUME TypeOK, NEW w \in Worker, PutRow(w)
  PROVE  TypeOK'
<1> USE DEF TypeOK
<1>1. PICK p \in page[w] :
        /\ LET m == <<p[1], p[2]>>
               news == IF NotificationEligible(p[1], told[w]) THEN {m} ELSE {}
           IN  IF p[3]
               THEN /\ UpsertAll({m}, news, RepairsEvent(p[1], told[w]))
                    /\ ClearSyncFailure(p[1])
               ELSE RecordSyncFailure(m) /\ UNCHANGED <<stored, event>>
        /\ \/ stopping[w] /\ Vanish({w})
           \/ /\ ~stopping[w]
              /\ page' = [page EXCEPT ![w] = @ \ {p}]
              /\ Goto(w, IF page[w] = {p} THEN "commit" ELSE "put")
              /\ UNCHANGED <<cycleVars, told, mode, cur, snap, windows>>
  BY DEF PutRow
<1>2. p[1] \in Row /\ p[2] \in 1..MaxGen /\ <<p[1], p[2]>> \in Message
  BY DEF ScanTypeOK, Reading, Message
<1>3. StoreTypeOK'
  <2>1. stored' \in SUBSET Message /\ event' \in SUBSET Message
    BY <1>1, <1>2, UpsertType DEF StoreTypeOK
  <2>2. failed' \in [Row -> 0..MaxGen]
    BY <1>1, <1>2, StoreAssumption
    DEF RecordSyncFailure, ClearSyncFailure, StoreTypeOK
  <2> QED
    BY <2>1, <2>2 DEF PutRow, StoreTypeOK, metaVars
<1>4. CycleTypeOK' /\ ScanTypeOK'
  <2>1. CASE Vanish({w})
    BY <2>1, VanishType
  <2>2. CASE /\ page' = [page EXCEPT ![w] = @ \ {p}]
             /\ Goto(w, IF page[w] = {p} THEN "commit" ELSE "put")
             /\ UNCHANGED <<cycleVars, told, mode, cur, snap, windows>>
    <3>1. pc' \in [Worker -> PC]
      BY <2>2, GotoType DEF PC
    <3>2. ScanTypeOK'
      BY <2>2 DEF ScanTypeOK
    <3> QED
      BY <2>2, <3>1, <3>2, CycleFrame
  <2> QED
    BY <1>1, <2>1, <2>2
<1> QED
  BY <1>3, <1>4, MacFrame DEF PutRow

LEMMA TypeStep ==
  ASSUME TypeOK, [Next]_vars
  PROVE  TypeOK'
<1>1. CASE Next
  BY <1>1, MacStepType, AgentStepType, QuietStepType, WriteStepType, PutRowType
  DEF Next, WorkerStep, Step
<1>2. CASE UNCHANGED vars
  BY <1>2, StoreFrame, MacFrame, CycleFrame, ScanFrame
  DEF TypeOK, vars, messageVars, metaVars, macVars, cycleVars, scanVars,
      CycleTypeOK
<1> QED
  BY <1>1, <1>2

LEMMA TypeInit ==
  ASSUME Init
  PROVE  TypeOK
<1>1. StoreTypeOK
  <2>1. 0 \in 0..MaxRow /\ Absent \in Absent..MaxRow /\ 0 \in 0..MaxGen
    BY StoreAssumption DEF Absent
  <2>2. lower \in [candidate : Absent..MaxRow, count : 0..3]
    BY <2>1 DEF Init, StoreInit
  <2>3. failed \in [Row -> 0..MaxGen]
    BY <2>1 DEF Init, StoreInit
  <2> QED
    BY <2>1, <2>2, <2>3 DEF Init, StoreInit, StoreTypeOK
<1>2. MacTypeOK
  <2>1. mac \in [Row -> 0..MaxGen]
    BY StoreAssumption DEF Init
  <2>2. Present \in SUBSET Message
    BY DEF Present
  <2>3. seq \in 0..MaxRow /\ gen \in 1..MaxGen
    BY StoreAssumption, CatchupAssumption DEF Init
  <2>4. sparse \in SUBSET Message
    BY <2>2 DEF Init
  <2> QED
    BY <2>1, <2>3, <2>4, CatchupAssumption DEF Init, MacTypeOK
<1>3. CycleTypeOK
  BY DEF Init, CycleTypeOK, PC
<1>4. ScanTypeOK
  BY StoreAssumption DEF Init, ScanTypeOK
<1> QED
  BY <1>1, <1>2, <1>3, <1>4, CatchupAssumption DEF Init, TypeOK

(***************************************************************************)
(* Every variable stays in its range: the tables hold only messages the    *)
(* Mac had, the meta keys only ROWIDs.                                     *)
(***************************************************************************)
THEOREM CatchupTypeCorrect == Spec => []TypeOK
BY TypeInit, TypeStep, PTL DEF Spec


----------------------------------------------------------------------------
(***************************************************************************)
(* CursorCovers, for a Mac whose database is never restored.  Its          *)
(* inductive form says what a scan in flight has covered so far.           *)
(***************************************************************************)
OneLife ==
  /\ gen = 1
  /\ \A r \in Row : mac[r] \in {0, 1} /\ failed[r] \in {0, 1}
  /\ \A w \in Worker : \A p \in page[w] : p[2] = 1

BelowSeq ==
  /\ \A r \in Row : r > seq => mac[r] = 0
  /\ cursor <= seq

ScanCovers(w) ==
  /\ cur[w] <= seq /\ snap[w] <= seq
  /\ mode[w] = "catchup" =>
       /\ \A r \in 1..cur[w] : Covered(r)
       /\ pc[w] \in {"put", "commit"} =>
            \A r \in Row : cur[w] < r /\ r <= High(w) =>
              Covered(r) \/ \E p \in page[w] : p[1] = r
       /\ pc[w] = "commit" => page[w] = {}

CursorInv ==
  /\ TypeOK
  /\ OneLife
  /\ BelowSeq
  /\ CursorCovers
  /\ \A w \in Worker : ScanCovers(w)

(***************************************************************************)
(* What every step keeps of the facts that cover a row.                    *)
(***************************************************************************)
StoreKept ==
  /\ stored \subseteq stored'
  /\ skipped \subseteq skipped'
  /\ \A r \in Row :
       \/ failed'[r] = failed[r]
       \/ failed'[r] = 1
       \/ failed'[r] = 0 /\ (mac[r] = 0 \/ <<r, mac[r]>> \in stored')

MacKept ==
  /\ seq <= seq'
  /\ gen' = gen
  /\ \A r \in Row : r <= seq => mac'[r] = mac[r] \/ mac'[r] = 0
  /\ \A r \in Row : mac'[r] \in {0, gen, mac[r]}

LEMMA CoveredKept ==
  ASSUME OneLife, StoreKept, MacKept, NEW r \in Row, r <= seq, Covered(r)
  PROVE  Covered(r)'
BY DEF OneLife, StoreKept, MacKept, Covered

LEMMA MacStepKeeps ==
  ASSUME TypeOK, MacStep, "restore" \notin Hazards
  PROVE  MacKept
<1> USE DEF TypeOK, MacTypeOK, MacKept
<1>1. CASE Arrive
  BY <1>1, StoreAssumption DEF Arrive, Row
<1>2. CASE UNCHANGED <<mac, seq, gen>>
  BY <1>2
<1>3. ASSUME NEW r \in Row, DeleteOnMac(r)
      PROVE  MacKept
  BY <1>3 DEF DeleteOnMac
<1> QED
  BY <1>1, <1>2, <1>3
  DEF MacStep, BecomesComplete, RestoreMac, UpgradeServer

LEMMA PutRowKeeps ==
  ASSUME TypeOK, OneLife, NEW w \in Worker, PutRow(w)
  PROVE  StoreKept
<1>1. PICK p \in page[w] :
        LET m == <<p[1], p[2]>>
            news == IF NotificationEligible(p[1], told[w]) THEN {m} ELSE {}
        IN  IF p[3]
            THEN /\ UpsertAll({m}, news, RepairsEvent(p[1], told[w]))
                 /\ ClearSyncFailure(p[1])
            ELSE RecordSyncFailure(m) /\ UNCHANGED <<stored, event>>
  BY DEF PutRow
<1>2. p[1] \in Row /\ p[2] = 1
  BY DEF TypeOK, ScanTypeOK, Reading, OneLife
<1>3. skipped' = skipped /\ failed \in [Row -> 0..MaxGen]
  BY DEF PutRow, TypeOK, StoreTypeOK
<1>4. CASE p[3]
  <2>1. stored' = stored \cup {<<p[1], 1>>}
    BY <1>1, <1>2, <1>4 DEF UpsertAll
  <2>2. failed' = [failed EXCEPT ![p[1]] = 0]
    BY <1>1, <1>4 DEF ClearSyncFailure
  <2>3. mac[p[1]] = 0 \/ <<p[1], mac[p[1]]>> \in stored'
    BY <1>2, <2>1 DEF OneLife
  <2> QED
    BY <1>2, <1>3, <2>1, <2>2, <2>3 DEF StoreKept
<1>5. CASE ~p[3]
  <2>1. stored' = stored /\ failed' = [failed EXCEPT ![p[1]] = 1]
    BY <1>1, <1>2, <1>5 DEF RecordSyncFailure
  <2> QED
    BY <1>2, <1>3, <2>1 DEF StoreKept
<1> QED
  BY <1>4, <1>5

LEMMA RetryKeeps ==
  ASSUME TypeOK, NEW w \in Worker, NEW r \in Row, RetryQuarantined(w, r)
  PROVE  StoreKept
<1>1. <<r, failed[r]>> \in Present
  BY DEF RetryQuarantined, Readable
<1>2. mac[r] = failed[r]
  BY <1>1 DEF Present
<1>3. stored' = stored \cup {<<r, failed[r]>>}
  BY DEF RetryQuarantined, UpsertAll
<1>4. failed' = [failed EXCEPT ![r] = 0] /\ failed \in [Row -> 0..MaxGen]
  BY DEF RetryQuarantined, ClearSyncFailure, TypeOK, StoreTypeOK
<1>5. skipped' = skipped
  BY DEF RetryQuarantined
<1> QED
  BY <1>2, <1>3, <1>4, <1>5 DEF StoreKept

LEMMA MacIdleKeeps ==
  ASSUME TypeOK, UNCHANGED macVars
  PROVE  MacKept
BY DEF TypeOK, MacTypeOK, macVars, MacKept

LEMMA StepKeeps ==
  ASSUME TypeOK, OneLife, Next, "restore" \notin Hazards
  PROVE  StoreKept /\ MacKept
<1>1. CASE MacStep
  <2>1. StoreKept
    BY <1>1 DEF MacStep, Arrive, BecomesComplete, DeleteOnMac, RestoreMac,
                UpgradeServer, messageVars, StoreKept
  <2> QED
    BY <1>1, <2>1, MacStepKeeps
<1>2. CASE UNCHANGED macVars /\ UNCHANGED <<messageVars, skipped>>
  BY <1>2, MacIdleKeeps DEF StoreKept, messageVars
<1>3. CASE /\ UNCHANGED macVars /\ UNCHANGED <<skipped, failed>>
           /\ stored \subseteq stored'
  BY <1>3, MacIdleKeeps DEF StoreKept
<1>4. CASE AgentStep
  BY <1>2, <1>3, <1>4
  DEF AgentStep, StartBackend, StopBackend, AgentDies, EmptyMacIsStable,
      HandleIncoming, HandleUpdate, UpsertAll
<1>5. ASSUME NEW w \in Worker, Step(w)
      PROVE  StoreKept /\ MacKept
  <2>1. CASE PutRow(w)
    BY <2>1, PutRowKeeps, MacIdleKeeps DEF PutRow
  <2>2. CASE QueryWindow(w)
    <3>1. StoreKept
      BY <2>2 DEF QueryWindow, StoreKept, messageVars
    <3> QED
      BY <2>2, <3>1, MacIdleKeeps DEF QueryWindow
  <2>3. CASE LegacyCycle(w)
    BY <1>3, <2>3 DEF LegacyCycle, UpsertAll
  <2> QED
    BY <1>2, <1>5, <2>1, <2>2, <2>3
    DEF Step, Begin, AskFloor, FloorRefused, FreezeFloor, SyncEnds,
        BeginCatchup, AnswerMax, RefuseRowids, Judge, Commit, FinishScan,
        EndCycle, Quit
<1>6. ASSUME NEW w \in Worker,
             \/ Reprobe(w) \/ OnCaughtUp(w) \/ TailAudit(w)
             \/ ArchiveAudit(w) \/ CallFails(w)
      PROVE  StoreKept /\ MacKept
  BY <1>2, <1>6
  DEF Reprobe, OnCaughtUp, TailAudit, ArchiveAudit, CallFails
<1>7. ASSUME NEW w \in Worker, NEW m \in Message, NEW repair \in BOOLEAN,
             DateRead(w, m, repair)
      PROVE  StoreKept /\ MacKept
  BY <1>3, <1>7 DEF DateRead, UpsertAll
<1>8. ASSUME NEW w \in Worker, NEW r \in Row, RetryQuarantined(w, r)
      PROVE  StoreKept /\ MacKept
  BY <1>8, RetryKeeps, MacIdleKeeps DEF RetryQuarantined
<1> QED
  BY <1>1, <1>4, <1>5, <1>6, <1>7, <1>8 DEF Next, WorkerStep


(***************************************************************************)
(* How a step moves one worker: it stays where it is in its scan, or it is *)
(* out of the windows with nothing more to account for.                    *)
(***************************************************************************)
Stays(w) ==
  /\ pc'[w] = pc[w] /\ mode'[w] = mode[w]
  /\ cur'[w] = cur[w] /\ snap'[w] = snap[w] /\ page'[w] = page[w]

Leaves(w) ==
  /\ pc'[w] \notin {"put", "commit"}
  /\ cur'[w] = 0 \/ (cur'[w] = cur[w] /\ mode'[w] = mode[w])
  /\ snap'[w] \in {0, snap[w]}

LEMMA StaysCovers ==
  ASSUME CursorInv, TypeOK', StoreKept, MacKept, NEW w \in Worker, Stays(w)
  PROVE  ScanCovers(w)'
<1> USE DEF CursorInv
<1>1. /\ cur[w] \in 0..MaxRow /\ snap[w] \in 0..MaxRow /\ seq \in 0..MaxRow
      /\ seq' \in Int
  BY DEF TypeOK, ScanTypeOK, MacTypeOK
<1>2. cur[w] <= seq /\ snap[w] <= seq /\ seq <= seq'
  BY DEF ScanCovers, MacKept
<1>3. High(w) <= seq /\ High(w)' = High(w)
  BY <1>1, <1>2, CatchupAssumption DEF High, Stays
<1>4. \A r \in Row : r <= seq /\ Covered(r) => Covered(r)'
  BY CoveredKept
<1>5. cur'[w] <= seq' /\ snap'[w] <= seq'
  BY <1>1, <1>2 DEF Stays
<1>6. ASSUME mode'[w] = "catchup", NEW r \in 1..cur'[w]
      PROVE  Covered(r)'
  <2>1. r \in Row /\ r <= seq /\ r \in 1..cur[w]
    BY <1>1, <1>2, <1>6, StoreAssumption DEF Stays, Row
  <2> QED
    BY <1>4, <1>6, <2>1 DEF ScanCovers, Stays
<1>7. ASSUME mode'[w] = "catchup", pc'[w] \in {"put", "commit"}, NEW r \in Row,
             cur'[w] < r, r <= High(w)'
      PROVE  Covered(r)' \/ \E p \in page'[w] : p[1] = r
  <2>1. r <= seq /\ cur[w] < r /\ r <= High(w)
    BY <1>1, <1>3, <1>7, HighType DEF Stays, Row, TypeOK
  <2>2. Covered(r) \/ \E p \in page[w] : p[1] = r
    BY <1>7, <2>1 DEF ScanCovers, Stays
  <2> QED
    BY <1>4, <2>1, <2>2 DEF Stays
<1>8. mode'[w] = "catchup" /\ pc'[w] = "commit" => page'[w] = {}
  BY DEF ScanCovers, Stays
<1> QED
  BY <1>5, <1>6, <1>7, <1>8 DEF ScanCovers


LEMMA LeavesCovers ==
  ASSUME CursorInv, TypeOK', StoreKept, MacKept, NEW w \in Worker, Leaves(w)
  PROVE  ScanCovers(w)'
<1> USE DEF CursorInv
<1>1. /\ cur[w] \in 0..MaxRow /\ snap[w] \in 0..MaxRow /\ seq \in 0..MaxRow
      /\ seq' \in 0..MaxRow
  BY DEF TypeOK, ScanTypeOK, MacTypeOK
<1>2. cur[w] <= seq /\ snap[w] <= seq /\ seq <= seq'
  BY DEF ScanCovers, MacKept
<1>3. cur'[w] <= seq' /\ snap'[w] <= seq'
  BY <1>1, <1>2, StoreAssumption DEF Leaves
<1>4. ASSUME mode'[w] = "catchup", NEW r \in 1..cur'[w]
      PROVE  Covered(r)'
  <2>1. cur'[w] = cur[w] /\ mode[w] = "catchup"
    BY <1>4, <1>1 DEF Leaves
  <2>2. r \in Row /\ r <= seq /\ r \in 1..cur[w]
    BY <1>1, <1>2, <1>4, <2>1, StoreAssumption DEF Row
  <2> QED
    BY <2>1, <2>2, CoveredKept DEF ScanCovers
<1> QED
  BY <1>3, <1>4 DEF ScanCovers, Leaves

LEMMA GotoMoves ==
  ASSUME TypeOK, NEW v \in Worker, NEW label, Goto(v, label), UNCHANGED scanVars
  PROVE  /\ \A w \in Worker : w # v => Stays(w)
         /\ label \notin {"put", "commit"} => Leaves(v)
BY DEF TypeOK, CycleTypeOK, Goto, scanVars, Stays, Leaves

LEMMA EndScanMoves ==
  ASSUME TypeOK, NEW v \in Worker, NEW label, EndScan(v, label)
  PROVE  /\ \A w \in Worker : w # v => Stays(w)
         /\ label \notin {"put", "commit"} => Leaves(v)
BY DEF TypeOK, CycleTypeOK, ScanTypeOK, EndScan, Goto, Stays, Leaves

LEMMA VanishMoves ==
  ASSUME NEW W \in SUBSET Worker, Vanish(W), NEW w \in Worker
  PROVE  IF w \in W THEN Leaves(w) ELSE Stays(w)
BY DEF Vanish, Stays, Leaves

\* The steps that advance a scan, and the part of it each concerns.
Advances(w) ==
  \/ AskFloor(w) \/ BeginCatchup(w) \/ AnswerMax(w) \/ QueryWindow(w)
  \/ PutRow(w) \/ Commit(w) \/ TailAudit(w) \/ ArchiveAudit(w)

LEMMA AdvanceMoves ==
  ASSUME TypeOK, NEW v \in Worker, Advances(v), NEW w \in Worker, w # v
  PROVE  Stays(w)
<1> USE DEF TypeOK, CycleTypeOK, ScanTypeOK
<1>1. CASE AskFloor(v) \/ AnswerMax(v)
  BY <1>1 DEF AskFloor, AnswerMax, Goto, Stays
<1>2. CASE BeginCatchup(v)
  BY <1>2 DEF BeginCatchup, Goto, Stays
<1>3. CASE QueryWindow(v)
  <2>1. CASE EndScan(v, "idle")
    BY <2>1, EndScanMoves
  <2>2. CASE /\ page' = [page EXCEPT ![v] = page'[v]]
             /\ \E label \in PC : Goto(v, label)
             /\ UNCHANGED <<mode, cur, snap>>
    BY <2>2 DEF Goto, Stays
  <2>3. page' = [page EXCEPT ![v] = page'[v]] \/ EndScan(v, "idle")
    BY <1>3 DEF QueryWindow
  <2> QED
    BY <1>3, <2>1, <2>2, <2>3 DEF QueryWindow, PC
<1>4. CASE PutRow(v)
  <2>1. CASE Vanish({v})
    BY <2>1, VanishMoves
  <2>2. ASSUME NEW p, page' = [page EXCEPT ![v] = @ \ {p}],
               NEW label, Goto(v, label), UNCHANGED <<mode, cur, snap>>
        PROVE  Stays(w)
    BY <2>2 DEF Goto, Stays
  <2> QED
    BY <1>4, <2>1, <2>2 DEF PutRow
<1>5. CASE Commit(v)
  BY <1>5 DEF Commit, Goto, Stays
<1>6. CASE TailAudit(v) \/ ArchiveAudit(v)
  BY <1>6 DEF TailAudit, ArchiveAudit, Goto, Stays
<1> QED
  BY <1>1, <1>2, <1>3, <1>4, <1>5, <1>6 DEF Advances

LEMMA QuietMoves ==
  ASSUME TypeOK, NEW v \in Worker, WorkerStep(v), ~Advances(v)
  PROVE  \A w \in Worker : Stays(w) \/ Leaves(w)
<1>1. CASE UNCHANGED <<pc, scanVars>>
  BY <1>1 DEF scanVars, Stays
<1>2. ASSUME NEW label \in PC \ {"put", "commit"}, Goto(v, label),
             UNCHANGED scanVars
      PROVE  \A w \in Worker : Stays(w) \/ Leaves(w)
  BY <1>2, GotoMoves
<1>3. ASSUME NEW label \in PC \ {"put", "commit"}, EndScan(v, label)
      PROVE  \A w \in Worker : Stays(w) \/ Leaves(w)
  BY <1>3, EndScanMoves
<1>4. CASE Vanish({v})
  BY <1>4, VanishMoves
<1>5. CASE Reprobe(v) \/ OnCaughtUp(v)
  BY <1>1, <1>5 DEF Reprobe, OnCaughtUp
<1>6. CASE Begin(v) \/ FloorRefused(v) \/ LegacyCycle(v) \/ EndCycle(v)
  BY <1>2, <1>6 DEF Begin, FloorRefused, LegacyCycle, EndCycle, PC
<1>7. CASE FreezeFloor(v) \/ RefuseRowids(v) \/ FinishScan(v)
  BY <1>3, <1>7 DEF FreezeFloor, RefuseRowids, FinishScan, PC
<1>8. CASE SyncEnds(v) \/ Quit(v)
  BY <1>4, <1>8 DEF SyncEnds, Quit
<1>9. CASE CallFails(v)
  BY <1>3, <1>4, <1>9 DEF CallFails, PC
<1>10. CASE Judge(v)
  <2>1. CASE Goto(v, "window") /\ cur' = [cur EXCEPT ![v] = 0]
             /\ UNCHANGED <<told, mode, snap, windows, page>>
    BY <2>1 DEF TypeOK, CycleTypeOK, ScanTypeOK, Goto, Stays, Leaves
  <2> QED
    BY <1>2, <1>3, <1>10, <2>1 DEF Judge, PC
<1>11. ASSUME NEW m \in Message, NEW repair \in BOOLEAN,
              DateRead(v, m, repair)
       PROVE  \A w \in Worker : Stays(w) \/ Leaves(w)
  BY <1>2, <1>11 DEF DateRead, PC
<1>12. ASSUME NEW r \in Row, RetryQuarantined(v, r)
       PROVE  \A w \in Worker : Stays(w) \/ Leaves(w)
  BY <1>2, <1>12 DEF RetryQuarantined, PC
<1> QED
  BY <1>5, <1>6, <1>7, <1>8, <1>9, <1>10, <1>11, <1>12
  DEF WorkerStep, Step, Advances

LEMMA EnvironmentMoves ==
  ASSUME TypeOK, MacStep \/ AgentStep, NEW w \in Worker
  PROVE  Stays(w) \/ Leaves(w)
<1>1. CASE UNCHANGED <<pc, scanVars>>
  BY <1>1 DEF scanVars, Stays
<1>2. ASSUME NEW started \in Generations, StartBackend(started)
      PROVE  Stays(w) \/ Leaves(w)
  BY <1>2 DEF StartBackend, scanVars, Stays, Leaves
<1>3. CASE AgentDies
  BY <1>3, VanishMoves DEF AgentDies
<1> QED
  BY <1>1, <1>2, <1>3
  DEF MacStep, Arrive, BecomesComplete, DeleteOnMac, RestoreMac,
      UpgradeServer, AgentStep, StopBackend, EmptyMacIsStable,
      HandleIncoming, HandleUpdate

LEMMA AnswerBelowSeq ==
  ASSUME TypeOK, BelowSeq, NEW a \in 0..MaxRow, MaxMessageRowid(a)
  PROVE  a <= seq
<1>1. CASE IsTop(a)
  BY <1>1 DEF IsTop, BelowSeq, TypeOK, MacTypeOK, Row
<1>2. ASSUME NEW r \in Row, mac[r] # 0, a < r
      PROVE  a <= seq
  BY <1>2, StoreAssumption DEF BelowSeq, TypeOK, MacTypeOK, Row
<1> QED
  BY <1>1, <1>2 DEF MaxMessageRowid

(***************************************************************************)
(* The steps of a scan keep its own invariant.                             *)
(***************************************************************************)
LEMMA AnswerCovers ==
  ASSUME CursorInv, TypeOK', StoreKept, MacKept, NEW w \in Worker,
         AskFloor(w) \/ AnswerMax(w) \/ TailAudit(w) \/ ArchiveAudit(w)
  PROVE  ScanCovers(w)'
<1> USE DEF CursorInv
<1>1. PICK a \in 0..MaxRow : MaxMessageRowid(a) /\ snap' = [snap EXCEPT ![w] = a]
  BY DEF AskFloor, AnswerMax, TailAudit, ArchiveAudit
<1>2. /\ seq \in 0..MaxRow /\ seq' \in 0..MaxRow /\ seq <= seq'
      /\ cur[w] \in 0..MaxRow /\ cur[w] <= seq
  BY DEF TypeOK, MacTypeOK, ScanTypeOK, MacKept, ScanCovers
<1>3. snap'[w] = a /\ a <= seq
  BY <1>1, AnswerBelowSeq DEF TypeOK, ScanTypeOK
<1>4. pc'[w] \notin {"put", "commit"}
  BY DEF AskFloor, AnswerMax, TailAudit, ArchiveAudit, Goto, TypeOK, CycleTypeOK
<1>5. CASE AskFloor(w) \/ AnswerMax(w)
  <2>1. cur' = cur /\ mode' = mode
    BY <1>5 DEF AskFloor, AnswerMax
  <2>2. \A r \in 1..cur[w] : r \in Row /\ r <= seq
    BY <1>2, StoreAssumption DEF Row
  <2>3. mode'[w] = "catchup" => \A r \in 1..cur'[w] : Covered(r)'
    BY <2>1, <2>2, CoveredKept DEF ScanCovers
  <2> QED
    BY <1>2, <1>3, <1>4, <2>1, <2>3 DEF ScanCovers
<1>6. CASE TailAudit(w)
  <2>1. mode'[w] = "tail"
    BY <1>6 DEF TailAudit, TypeOK, ScanTypeOK
  <2>2. PICK b \in 0..MaxRow :
          /\ snap' = [snap EXCEPT ![w] = b]
          /\ cur' = [cur EXCEPT ![w] = IF b > TailSpan THEN b - TailSpan ELSE 0]
    BY <1>6 DEF TailAudit
  <2>3. b = a /\ cur'[w] <= b
    BY <1>3, <2>2, CatchupAssumption DEF TypeOK, ScanTypeOK
  <2>4. cur'[w] \in 0..MaxRow
    BY DEF TypeOK, ScanTypeOK
  <2> QED
    BY <1>2, <1>3, <2>1, <2>3, <2>4 DEF ScanCovers
<1>7. CASE ArchiveAudit(w)
  <2>1. mode'[w] = "archive"
    BY <1>7 DEF ArchiveAudit, TypeOK, ScanTypeOK
  <2>2. PICK b \in 0..MaxRow :
          /\ snap' = [snap EXCEPT ![w] = b]
          /\ cur' = [cur EXCEPT ![w] = IF archive >= b THEN 0 ELSE archive]
    BY <1>7 DEF ArchiveAudit
  <2>3. b = a /\ cur'[w] <= b
    BY <1>3, <2>2 DEF TypeOK, ScanTypeOK, StoreTypeOK
  <2>4. cur'[w] \in 0..MaxRow
    BY DEF TypeOK, ScanTypeOK
  <2> QED
    BY <1>2, <1>3, <2>1, <2>3, <2>4 DEF ScanCovers
<1> QED
  BY <1>5, <1>6, <1>7

LEMMA BeginCovers ==
  ASSUME CursorInv, TypeOK', StoreKept, MacKept, NEW w \in Worker,
         BeginCatchup(w)
  PROVE  ScanCovers(w)'
<1> USE DEF CursorInv
<1>1. /\ seq \in 0..MaxRow /\ seq' \in 0..MaxRow /\ seq <= seq'
      /\ snap[w] \in 0..MaxRow /\ snap[w] <= seq
      /\ cursor \in 0..MaxRow /\ cursor <= seq
      /\ cur[w] \in 0..MaxRow /\ cur[w] <= seq
  BY DEF TypeOK, MacTypeOK, ScanTypeOK, StoreTypeOK, MacKept, ScanCovers, BelowSeq
<1>2. pc'[w] \in {"max", "legacy"} /\ snap' = snap /\ mode' = mode
  BY DEF BeginCatchup, Goto, TypeOK, CycleTypeOK
<1>3. cur'[w] \in {cursor, cur[w]}
  BY DEF BeginCatchup, TypeOK, ScanTypeOK
<1>4. \A r \in Row : r <= seq /\ Covered(r) => Covered(r)'
  BY CoveredKept
<1>5. ASSUME mode'[w] = "catchup", NEW r \in 1..cur'[w]
      PROVE  Covered(r)'
  <2>1. r \in Row /\ r <= seq
    BY <1>1, <1>3, StoreAssumption DEF Row
  <2>2. CASE cur'[w] = cursor
    BY <1>4, <2>1, <2>2 DEF CursorCovers
  <2>3. CASE cur'[w] = cur[w]
    BY <1>2, <1>4, <1>5, <2>1, <2>3 DEF ScanCovers
  <2> QED
    BY <1>3, <2>2, <2>3
<1>6. cur'[w] <= seq' /\ snap'[w] <= seq'
  BY <1>1, <1>2, <1>3
<1> QED
  BY <1>2, <1>5, <1>6 DEF ScanCovers

LEMMA QueryCovers ==
  ASSUME CursorInv, TypeOK', StoreKept, MacKept, NEW w \in Worker,
         QueryWindow(w)
  PROVE  ScanCovers(w)'
<1> USE DEF CursorInv
<1>1. CASE EndScan(w, "idle")
  BY <1>1, EndScanMoves, LeavesCovers
<1>2. CASE ~EndScan(w, "idle")
  <2>1. PICK missed \in SUBSET InWindow(w) :
          LET found == InWindow(w) \ missed
          IN  /\ skipped' = skipped \cup missed
              /\ page' = [page EXCEPT ![w] =
                            {<<m[1], m[2], m \notin sparse>> : m \in found}]
              /\ Goto(w, IF found = {} THEN "commit" ELSE "put")
              /\ UNCHANGED <<told, mode, cur, snap, windows>>
    BY <1>2 DEF QueryWindow
  <2> DEFINE found == InWindow(w) \ missed
  <2>2. page'[w] = {<<m[1], m[2], m \notin sparse>> : m \in found}
    BY <2>1 DEF TypeOK, ScanTypeOK
  <2>3. pc'[w] = IF found = {} THEN "commit" ELSE "put"
    BY <2>1 DEF TypeOK, CycleTypeOK, Goto
  <2>4. UNCHANGED <<mode, cur, snap>> /\ UNCHANGED <<mac, seq>>
    BY <2>1 DEF QueryWindow, macVars
  <2>5. High(w)' = High(w)
    BY <2>4 DEF High
  <2>6. ASSUME NEW r \in Row, cur[w] < r, r <= High(w)
        PROVE  Covered(r)' \/ \E p \in page'[w] : p[1] = r
    <3>1. CASE mac[r] = 0
      BY <2>4, <3>1 DEF Covered
    <3>2. CASE mac[r] # 0
      <4>1. <<r, mac[r]>> \in InWindow(w)
        <5>1. mac[r] \in 1..MaxGen
          BY <3>2, StoreAssumption DEF TypeOK, MacTypeOK
        <5>2. <<r, mac[r]>> \in Message
          BY <5>1 DEF Message
        <5> QED
          BY <2>6, <5>2 DEF InWindow, Present
      <4>2. CASE <<r, mac[r]>> \in missed
        BY <2>1, <2>4, <4>2 DEF Covered
      <4>3. ASSUME NEW m \in found, m = <<r, mac[r]>>
            PROVE  \E p \in page'[w] : p[1] = r
        <5>1. <<m[1], m[2], m \notin sparse>> \in page'[w]
          BY <2>2
        <5>2. <<m[1], m[2], m \notin sparse>>[1] = r
          BY <4>3
        <5> QED
          BY <5>1, <5>2
      <4> QED
        BY <4>1, <4>2, <4>3
    <3> QED
      BY <3>1, <3>2
  <2>7. mode'[w] = "catchup" => \A r \in 1..cur'[w] : Covered(r)'
    <3>1. /\ cur[w] \in 0..MaxRow /\ cur[w] <= seq /\ seq \in 0..MaxRow
      BY DEF ScanCovers, TypeOK, MacTypeOK, ScanTypeOK
    <3>2. \A r \in 1..cur[w] : r \in Row /\ r <= seq
      BY <3>1, StoreAssumption DEF Row
    <3> QED
      BY <2>4, <3>2, CoveredKept DEF ScanCovers
  <2>8. pc'[w] = "commit" => page'[w] = {}
    BY <2>2, <2>3
  <2>9. cur'[w] <= seq' /\ snap'[w] <= seq'
    BY <2>4 DEF ScanCovers
  <2> HIDE DEF found
  <2> QED
    BY <2>4, <2>5, <2>6, <2>7, <2>8, <2>9 DEF ScanCovers
<1> QED
  BY <1>1, <1>2

LEMMA PutCovers ==
  ASSUME CursorInv, TypeOK', StoreKept, MacKept, NEW w \in Worker, PutRow(w)
  PROVE  ScanCovers(w)'
<1> USE DEF CursorInv
<1>1. PICK p \in page[w] :
        /\ LET m == <<p[1], p[2]>>
               news == IF NotificationEligible(p[1], told[w]) THEN {m} ELSE {}
           IN  IF p[3]
               THEN /\ UpsertAll({m}, news, RepairsEvent(p[1], told[w]))
                    /\ ClearSyncFailure(p[1])
               ELSE RecordSyncFailure(m) /\ UNCHANGED <<stored, event>>
        /\ \/ stopping[w] /\ Vanish({w})
           \/ /\ ~stopping[w]
              /\ page' = [page EXCEPT ![w] = @ \ {p}]
              /\ Goto(w, IF page[w] = {p} THEN "commit" ELSE "put")
              /\ UNCHANGED <<cycleVars, told, mode, cur, snap, windows>>
  BY DEF PutRow
<1>2. CASE Vanish({w})
  BY <1>2, VanishMoves, LeavesCovers
<1>3. CASE ~Vanish({w})
  <2>1. /\ page' = [page EXCEPT ![w] = @ \ {p}]
        /\ Goto(w, IF page[w] = {p} THEN "commit" ELSE "put")
        /\ UNCHANGED <<mode, cur, snap>>
    BY <1>1, <1>3
  <2>2. /\ page'[w] = page[w] \ {p}
        /\ pc'[w] = IF page[w] = {p} THEN "commit" ELSE "put"
        /\ pc[w] = "put"
    BY <2>1 DEF TypeOK, ScanTypeOK, CycleTypeOK, Goto, PutRow
  <2>3. /\ cur[w] \in 0..MaxRow /\ cur[w] <= seq /\ snap[w] <= seq
        /\ snap[w] \in 0..MaxRow
        /\ seq \in 0..MaxRow /\ seq' \in 0..MaxRow /\ seq <= seq'
    BY DEF ScanCovers, TypeOK, MacTypeOK, ScanTypeOK, MacKept
  <2>4. High(w)' = High(w) /\ High(w) <= seq
    BY <2>1, <2>3, CatchupAssumption DEF High
  <2>5. p[1] \in Row /\ p[2] = 1 /\ mac' = mac
    BY DEF TypeOK, ScanTypeOK, Reading, OneLife, PutRow, macVars
  \* The row that leaves the page is covered now.
  <2>6. Covered(p[1])'
    <3>1. mac[p[1]] \in {0, 1}
      BY <2>5 DEF OneLife
    <3>2. CASE p[3]
      <4>1. <<p[1], 1>> \in stored'
        BY <1>1, <2>5, <3>2 DEF UpsertAll
      <4> QED
        BY <2>5, <3>1, <4>1 DEF Covered
    <3>3. CASE ~p[3]
      <4>1. failed'[p[1]] = 1
        BY <1>1, <2>5, <3>3 DEF RecordSyncFailure, TypeOK, StoreTypeOK
      <4> QED
        BY <2>5, <3>1, <4>1 DEF Covered
    <3> QED
      BY <3>2, <3>3
  <2>7. \A r \in Row : r <= seq /\ Covered(r) => Covered(r)'
    BY CoveredKept
  <2>8. ASSUME mode'[w] = "catchup", NEW r \in 1..cur'[w]
        PROVE  Covered(r)'
    <3>1. r \in Row /\ r <= seq /\ r \in 1..cur[w]
      BY <2>1, <2>3, <2>8, StoreAssumption DEF Row
    <3> QED
      BY <2>1, <2>7, <2>8, <3>1 DEF ScanCovers
  <2>9. ASSUME mode'[w] = "catchup", NEW r \in Row, cur'[w] < r, r <= High(w)'
        PROVE  Covered(r)' \/ \E q \in page'[w] : q[1] = r
    <3>1. r <= seq /\ cur[w] < r /\ r <= High(w)
      BY <2>1, <2>3, <2>4, <2>9, HighType DEF Row, TypeOK
    <3>2. CASE Covered(r)
      BY <2>7, <3>1, <3>2
    <3>3. ASSUME NEW q \in page[w], q[1] = r
          PROVE  Covered(r)' \/ \E o \in page'[w] : o[1] = r
      BY <2>2, <2>6, <3>3
    <3> QED
      BY <2>1, <2>2, <2>9, <3>1, <3>2, <3>3 DEF ScanCovers
  <2>10. pc'[w] = "commit" => page'[w] = {}
    BY <2>2
  <2>11. cur'[w] <= seq' /\ snap'[w] <= seq'
    BY <2>1, <2>3
  <2> QED
    BY <2>8, <2>9, <2>10, <2>11 DEF ScanCovers
<1> QED
  BY <1>2, <1>3

\* At the end of a window everything up to its upper bound is covered.
LEMMA WindowIsCovered ==
  ASSUME CursorInv, NEW w \in Worker, pc[w] = "commit", mode[w] = "catchup"
  PROVE  High(w) <= seq /\ \A r \in 1..High(w) : r \in Row /\ Covered(r)
<1> USE DEF CursorInv
<1>1. /\ cur[w] \in 0..MaxRow /\ snap[w] \in 0..MaxRow /\ snap[w] <= seq
      /\ seq \in 0..MaxRow
  BY DEF ScanCovers, TypeOK, ScanTypeOK, MacTypeOK
<1>2. High(w) \in 0..MaxRow /\ High(w) <= seq
  BY <1>1, HighType, CatchupAssumption DEF High, TypeOK
<1>3. ASSUME NEW r \in 1..High(w)
      PROVE  r \in Row /\ Covered(r)
  <2>1. r \in Row
    BY <1>2, StoreAssumption DEF Row
  <2>2. CASE r <= cur[w]
    BY <1>1, <2>1, <2>2, StoreAssumption DEF ScanCovers, Row
  <2>3. CASE cur[w] < r
    BY <1>2, <1>3, <2>1, <2>3 DEF ScanCovers
  <2> QED
    BY <1>1, <2>1, <2>2, <2>3, StoreAssumption DEF Row
<1> QED
  BY <1>2, <1>3

LEMMA CommitCovers ==
  ASSUME CursorInv, TypeOK', StoreKept, MacKept, NEW w \in Worker, Commit(w)
  PROVE  ScanCovers(w)'
<1> USE DEF CursorInv
<1>1. /\ cur'[w] = High(w) /\ pc'[w] = "window"
      /\ UNCHANGED <<mode, snap>> /\ pc[w] = "commit"
  BY DEF Commit, Goto, TypeOK, ScanTypeOK, CycleTypeOK
<1>2. /\ snap[w] \in 0..MaxRow /\ snap[w] <= seq /\ cur[w] \in 0..MaxRow
      /\ seq \in 0..MaxRow /\ seq' \in 0..MaxRow /\ seq <= seq'
  BY DEF ScanCovers, TypeOK, ScanTypeOK, MacTypeOK, MacKept
<1>3. High(w) <= seq /\ High(w) \in 0..MaxRow
  BY <1>2, HighType, CatchupAssumption DEF High, TypeOK
<1>4. ASSUME mode'[w] = "catchup", NEW r \in 1..cur'[w]
      PROVE  Covered(r)'
  <2>1. r \in Row /\ r <= seq /\ Covered(r)
    BY <1>1, <1>2, <1>3, <1>4, WindowIsCovered DEF Row
  <2> QED
    BY <2>1, CoveredKept
<1>5. cur'[w] <= seq' /\ snap'[w] <= seq'
  BY <1>1, <1>2, <1>3
<1> QED
  BY <1>1, <1>4, <1>5 DEF ScanCovers

LEMMA ScanCoversStep ==
  ASSUME CursorInv, TypeOK', StoreKept, MacKept, Next, NEW w \in Worker
  PROVE  ScanCovers(w)'
<1> USE DEF CursorInv
<1>1. CASE MacStep \/ AgentStep
  BY <1>1, EnvironmentMoves, StaysCovers, LeavesCovers
<1>2. ASSUME NEW v \in Worker, WorkerStep(v)
      PROVE  ScanCovers(w)'
  <2>1. CASE ~Advances(v)
    BY <1>2, <2>1, QuietMoves, StaysCovers, LeavesCovers
  <2>2. CASE Advances(v) /\ v # w
    BY <2>2, AdvanceMoves, StaysCovers
  <2>3. CASE Advances(v) /\ v = w
    BY <2>3, AnswerCovers, BeginCovers, QueryCovers, PutCovers, CommitCovers
    DEF Advances
  <2> QED
    BY <2>1, <2>2, <2>3
<1> QED
  BY <1>1, <1>2 DEF Next

LEMMA OneLifeStep ==
  ASSUME CursorInv, TypeOK', Next, "restore" \notin Hazards
  PROVE  OneLife'
<1> USE DEF CursorInv
<1>1. StoreKept /\ MacKept
  BY StepKeeps
<1>2. gen' = 1 /\ \A r \in Row : mac'[r] \in {0, 1} /\ failed'[r] \in {0, 1}
  BY <1>1 DEF OneLife, StoreKept, MacKept
<1>3. ASSUME NEW w \in Worker, NEW p \in page'[w]
      PROVE  p[2] = 1
  <2>1. CASE p \in page[w]
    BY <2>1 DEF OneLife
  <2>2. CASE QueryWindow(w) /\ ~EndScan(w, "idle")
    <3>1. PICK m \in InWindow(w) : p = <<m[1], m[2], m \notin sparse>>
      BY <1>3, <2>2 DEF QueryWindow, TypeOK, ScanTypeOK
    <3>2. m[1] \in Row /\ m[2] \in 1..MaxGen /\ mac[m[1]] = m[2]
      BY <3>1 DEF InWindow, Present, Message
    <3> QED
      BY <3>1, <3>2 DEF OneLife
  <2>3. CASE page'[w] \subseteq page[w]
    BY <1>3, <2>1, <2>3
  <2>4. CASE MacStep \/ AgentStep
    BY <2>3, <2>4
    DEF MacStep, Arrive, BecomesComplete, DeleteOnMac, RestoreMac,
        UpgradeServer, AgentStep, StartBackend, StopBackend, AgentDies,
        EmptyMacIsStable, HandleIncoming, HandleUpdate, Vanish, scanVars
  <2>5. ASSUME NEW v \in Worker, WorkerStep(v), ~Advances(v)
        PROVE  page'[w] \subseteq page[w]
    <3>1. ASSUME NEW label, EndScan(v, label)
          PROVE  page'[w] \subseteq page[w]
      BY <3>1 DEF EndScan, TypeOK, ScanTypeOK
    <3>2. CASE Vanish({v})
      BY <3>2 DEF Vanish
    <3>3. CASE page' = page
      BY <3>3
    <3> QED
      BY <2>5, <3>1, <3>2, <3>3
      DEF WorkerStep, Step, Advances, Begin, FloorRefused, FreezeFloor,
          SyncEnds, RefuseRowids, Judge, FinishScan, LegacyCycle, EndCycle, Quit,
          Reprobe, OnCaughtUp, CallFails, DateRead, RetryQuarantined, scanVars
  <2>6. ASSUME NEW v \in Worker, Advances(v), v # w
        PROVE  page'[w] \subseteq page[w]
    BY <2>6, AdvanceMoves DEF Stays
  <2>7. CASE Advances(w) /\ ~QueryWindow(w)
    <3>1. CASE Vanish({w})
      BY <2>3, <3>1 DEF Vanish
    <3>2. ASSUME NEW q, page' = [page EXCEPT ![w] = @ \ {q}]
          PROVE  page'[w] \subseteq page[w]
      BY <3>2 DEF TypeOK, ScanTypeOK
    <3>3. CASE page' = page
      BY <2>3, <3>3
    <3> QED
      BY <2>3, <2>7, <3>1, <3>2, <3>3
      DEF Advances, AskFloor, BeginCatchup, AnswerMax, PutRow, Commit,
          TailAudit, ArchiveAudit
  <2>8. CASE EndScan(w, "idle")
    BY <2>3, <2>8 DEF EndScan, TypeOK, ScanTypeOK
  <2> QED
    BY <2>2, <2>3, <2>4, <2>5, <2>6, <2>7, <2>8 DEF Next, Advances
<1> QED
  BY <1>2, <1>3 DEF OneLife

LEMMA CursorStep ==
  ASSUME CursorInv, TypeOK', StoreKept, MacKept, Next
  PROVE  CursorCovers' /\ cursor' <= seq'
<1> USE DEF CursorInv
<1>1. /\ cursor \in 0..MaxRow /\ cursor <= seq /\ seq \in 0..MaxRow
      /\ seq' \in 0..MaxRow /\ seq <= seq'
  BY DEF TypeOK, StoreTypeOK, MacTypeOK, BelowSeq, MacKept
<1>2. \A r \in Row : r <= seq /\ Covered(r) => Covered(r)'
  BY CoveredKept
<1>3. CASE cursor' = cursor
  <2>1. \A r \in 1..cursor : r \in Row /\ r <= seq
    BY <1>1, StoreAssumption DEF Row
  <2> QED
    BY <1>1, <1>2, <1>3, <2>1 DEF CursorCovers
<1>4. CASE cursor' = 0
  BY <1>1, <1>4 DEF CursorCovers
<1>5. ASSUME NEW w \in Worker, Commit(w), mode[w] = "catchup"
      PROVE  CursorCovers' /\ cursor' <= seq'
  <2>1. cursor' = High(w) /\ pc[w] = "commit"
    BY <1>5 DEF Commit
  <2>2. High(w) <= seq /\ \A r \in 1..High(w) : r \in Row /\ Covered(r)
    BY <1>5, <2>1, WindowIsCovered
  <2>3. High(w) \in 0..MaxRow
    BY HighType DEF TypeOK
  <2>4. \A r \in 1..High(w) : r <= seq
    BY <1>1, <2>2, <2>3
  <2> QED
    BY <1>1, <1>2, <2>1, <2>2, <2>3, <2>4 DEF CursorCovers
<1>6. CASE MacStep \/ AgentStep
  BY <1>3, <1>6
  DEF MacStep, Arrive, BecomesComplete, DeleteOnMac, RestoreMac,
      UpgradeServer, AgentStep, StartBackend, StopBackend, AgentDies,
      EmptyMacIsStable, HandleIncoming, HandleUpdate, metaVars
<1>7. ASSUME NEW w \in Worker, WorkerStep(w), ~Judge(w), ~Commit(w)
      PROVE  cursor' = cursor
  BY <1>7
  DEF WorkerStep, Step, Begin, AskFloor, FloorRefused, FreezeFloor, SyncEnds,
      BeginCatchup, AnswerMax, RefuseRowids, QueryWindow, PutRow, FinishScan,
      LegacyCycle, EndCycle, Quit, Reprobe, OnCaughtUp, TailAudit,
      ArchiveAudit, CallFails, DateRead, RetryQuarantined, metaVars
<1>8. ASSUME NEW w \in Worker, Judge(w)
      PROVE  cursor' \in {0, cursor}
  BY <1>8 DEF Judge
<1>9. ASSUME NEW w \in Worker, Commit(w), mode[w] # "catchup"
      PROVE  cursor' = cursor
  BY <1>9 DEF Commit
<1> QED
  BY <1>3, <1>4, <1>5, <1>6, <1>7, <1>8, <1>9 DEF Next

LEMMA CursorInvStep ==
  ASSUME CursorInv, [Next]_vars, "restore" \notin Hazards
  PROVE  CursorInv'
<1>1. TypeOK'
  BY TypeStep DEF CursorInv
<1>2. CASE Next
  <2>1. StoreKept /\ MacKept
    BY <1>2, StepKeeps DEF CursorInv
  <2>2. OneLife'
    BY <1>1, <1>2, OneLifeStep
  <2>3. \A w \in Worker : ScanCovers(w)'
    BY <1>1, <1>2, <2>1, ScanCoversStep
  <2>4. CursorCovers' /\ cursor' <= seq'
    BY <1>1, <1>2, <2>1, CursorStep
  <2>5. \A r \in Row : r > seq' => mac'[r] = 0
    <3>1. CASE Arrive
      <4>1. /\ mac' = [mac EXCEPT ![seq + 1] = gen] /\ seq' = seq + 1
            /\ seq \in 0..MaxRow
        BY <3>1 DEF Arrive, CursorInv, TypeOK, MacTypeOK
      <4>2. \A r \in Row : r > seq' => r # seq + 1 /\ r > seq
        BY <4>1, StoreAssumption DEF Row
      <4> QED
        BY <4>1, <4>2 DEF CursorInv, BelowSeq, TypeOK, MacTypeOK
    <3>2. ASSUME seq' = seq, \A r \in Row : mac'[r] \in {0, mac[r]}
          PROVE  \A r \in Row : r > seq' => mac'[r] = 0
      BY <3>2 DEF CursorInv, BelowSeq
    <3>3. CASE UNCHANGED macVars
      BY <3>2, <3>3 DEF macVars
    <3>4. CASE MacStep /\ ~Arrive
      BY <3>2, <3>4
      DEF MacStep, BecomesComplete, DeleteOnMac, RestoreMac, UpgradeServer,
          CursorInv, TypeOK, MacTypeOK
    <3>5. CASE AgentStep
      BY <3>3, <3>5
      DEF AgentStep, StartBackend, StopBackend, AgentDies,
          EmptyMacIsStable, HandleIncoming, HandleUpdate
    <3>6. ASSUME NEW w \in Worker, Step(w)
          PROVE  UNCHANGED macVars
      BY <3>6
      DEF Step, Begin, AskFloor, FloorRefused, FreezeFloor, SyncEnds,
          BeginCatchup, AnswerMax, RefuseRowids, Judge, QueryWindow, PutRow,
          Commit, FinishScan, LegacyCycle, EndCycle, Quit
    <3>7. ASSUME NEW w \in Worker, WorkerStep(w), ~Step(w)
          PROVE  UNCHANGED macVars
      BY <3>7
      DEF WorkerStep, Reprobe, OnCaughtUp, TailAudit, ArchiveAudit,
          CallFails, DateRead, RetryQuarantined
    <3> QED
      BY <1>2, <3>1, <3>3, <3>4, <3>5, <3>6, <3>7 DEF Next
  <2> QED
    BY <1>1, <2>2, <2>3, <2>4, <2>5 DEF CursorInv, BelowSeq
<1>3. CASE UNCHANGED vars
  BY <1>1, <1>3
  DEF CursorInv, OneLife, BelowSeq, CursorCovers, ScanCovers, Covered, High,
      vars
<1> QED
  BY <1>2, <1>3

LEMMA CursorInvInit ==
  ASSUME Init
  PROVE  CursorInv
<1>1. TypeOK
  BY TypeInit
<1>2. OneLife
  BY DEF Init, StoreInit, OneLife
<1>3. BelowSeq
  <2>1. seq \in Nat
    BY CatchupAssumption DEF Init
  <2> QED
    BY <2>1 DEF Init, StoreInit, BelowSeq
<1>4. CursorCovers
  BY DEF Init, StoreInit, CursorCovers
<1>5. ASSUME NEW w \in Worker
      PROVE  ScanCovers(w)
  <2>1. /\ cur[w] = 0 /\ snap[w] = 0 /\ pc[w] = "off" /\ seq \in Nat
    BY CatchupAssumption DEF Init
  <2> QED
    BY <2>1 DEF ScanCovers
<1> QED
  BY <1>1, <1>2, <1>3, <1>4, <1>5 DEF CursorInv

(***************************************************************************)
(* The durable cursor never passes a row that is neither stored nor in     *)
(* quarantine nor omitted by both passes over a window, with any number of *)
(* overlapping reconcilers, kills and failing calls, as long as the Mac    *)
(* keeps its database.                                                     *)
(***************************************************************************)
THEOREM CursorIsSafe ==
  ASSUME "restore" \notin Hazards
  PROVE  Spec => []CursorCovers
<1>1. Init => CursorInv
  BY CursorInvInit
<1>2. CursorInv /\ [Next]_vars => CursorInv'
  BY CursorInvStep
<1>3. CursorInv => CursorCovers
  BY DEF CursorInv
<1> QED
  BY <1>1, <1>2, <1>3, PTL DEF Spec
=============================================================================
