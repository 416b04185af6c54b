--------------------------- MODULE RowidFloorProofs ---------------------------
(***************************************************************************)
(* Proofs about the notification floor of RowidCatchup: history stays      *)
(* quiet, and a complete baseline has read everything under its floor, for *)
(* every number of ROWIDs and workers and every budget.                    *)
(***************************************************************************)
EXTENDS RowidCatchupProofs

(***************************************************************************)
(* Nothing is read, and nothing is declared complete, before a floor is    *)
(* frozen: what follows it needs the floor to tell history from news.      *)
(***************************************************************************)
Scanning(w) == pc[w] \notin {"off", "idle", "floor", "freeze"}

NeedsFloor(w) ==
  \/ Scanning(w)
  \/ armed[w] = TRUE
  \/ told[w] = TRUE
  \/ whole[w] = TRUE
  \/ heard[w] = "queued"
  \/ support[w] = FALSE

Frozen ==
  /\ baseline = TRUE => floor # Absent
  /\ \A w \in Worker : NeedsFloor(w) => floor # Absent

(***************************************************************************)
(* What the first start found lies at or below a; a server that hides      *)
(* ROWIDs has no such message.                                             *)
(***************************************************************************)
HistoryBelow(a) ==
  /\ server = "old" => Present \subseteq arrived
  /\ \A m \in Present \ arrived : m[1] <= a

NothingAbove == \A r \in Row : r > seq => mac[r] = 0

PagesAreReal == \A w \in Worker : \A p \in page[w] : <<p[1], p[2]>> \in Present

FloorInv == floor # Absent => HistoryBelow(floor)

AnswerInv ==
  \A w \in Worker : pc[w] \in {"freeze", "judge"} => HistoryBelow(snap[w])

QuietInv ==
  /\ TypeOK /\ Frozen /\ NothingAbove /\ PagesAreReal
  /\ FloorInv /\ AnswerInv /\ HistoryStaysQuiet

(***************************************************************************)
(* Everything at or below the floor has been read.                         *)
(***************************************************************************)
FloorIsRead == \A r \in Row : r <= floor => Covered(r)

Declares(w) ==
  armed[w] = TRUE \/ told[w] = TRUE \/ whole[w] = TRUE \/ heard[w] = "queued"

FloorBelowSeq == floor <= seq

\* A server that hides ROWIDs has been seen empty, or has no floor.
OldIsEmpty ==
  /\ server = "old" => floor \in {Absent, 0}
  /\ \A w \in Worker :
       /\ support[w] = FALSE \/ pc[w] = "legacy" => floor = 0
       /\ server = "old" /\ pc[w] \in {"freeze", "judge"} => snap[w] = 0

\* A catch-up ends above the floor, unless that has been read before.
AimsAboveFloor ==
  \A w \in Worker :
    mode[w] = "catchup" /\ pc[w] \in {"window", "put", "commit"}
      => floor <= snap[w] \/ FloorIsRead

BaselineInv ==
  /\ CursorInv /\ Frozen /\ FloorBelowSeq /\ OldIsEmpty /\ AimsAboveFloor
  /\ baseline = TRUE => FloorIsRead
  /\ \A w \in Worker : Declares(w) => FloorIsRead

----------------------------------------------------------------------------
(***************************************************************************)
(* The floor only ever falls, and only to an answer some worker holds.     *)
(***************************************************************************)
LEMMA LowestOf ==
  ASSUME TypeOK, NEW a \in 0..MaxRow
  PROVE  /\ Lowest(a) \in 0..MaxRow /\ Lowest(a) <= a
         /\ Lowest(a) \in {a, floor}
         /\ floor # Absent => Lowest(a) <= floor
<1>1. floor \in Int /\ (floor # Absent => floor \in 0..MaxRow)
  BY StoreAssumption DEF TypeOK, StoreTypeOK, Absent
<1> QED
  BY <1>1, StoreAssumption DEF Lowest, Absent

LEMMA FloorMoves ==
  ASSUME TypeOK, Next
  PROVE  \/ floor' = floor
         \/ \E w \in Worker : /\ pc[w] \in {"freeze", "judge"}
                              /\ floor' = Lowest(snap[w])
<1>1. CASE MacStep
  BY <1>1 DEF MacStep, Arrive, BecomesComplete, DeleteOnMac, RestoreMac,
              UpgradeServer, metaVars
<1>2. CASE AgentStep
  BY <1>2 DEF AgentStep, StartBackend, StopBackend, AgentDies,
              EmptyMacIsStable, HandleIncoming, HandleUpdate, metaVars
<1>3. ASSUME NEW w \in Worker, FreezeFloor(w) \/ Judge(w)
      PROVE  \/ floor' = floor
             \/ pc[w] \in {"freeze", "judge"} /\ floor' = Lowest(snap[w])
  BY <1>3 DEF FreezeFloor, Judge
<1>4. ASSUME NEW w \in Worker, WorkerStep(w), ~FreezeFloor(w), ~Judge(w)
      PROVE  floor' = floor
  BY <1>4
  DEF WorkerStep, Step, Begin, AskFloor, FloorRefused, SyncEnds,
      BeginCatchup, AnswerMax, RefuseRowids, QueryWindow, PutRow, Commit,
      FinishScan, LegacyCycle, EndCycle, Quit, Reprobe, OnCaughtUp,
      TailAudit, ArchiveAudit, CallFails, DateRead, RetryQuarantined, metaVars
<1> QED
  BY <1>1, <1>2, <1>3, <1>4 DEF Next

LEMMA FloorFalls ==
  ASSUME TypeOK, Next, floor # Absent
  PROVE  floor' # Absent /\ floor' <= floor
<1>1. floor \in 0..MaxRow
  BY StoreAssumption DEF TypeOK, StoreTypeOK, Absent
<1>2. ASSUME NEW w \in Worker, floor' = Lowest(snap[w])
      PROVE  floor' # Absent /\ floor' <= floor
  <2>1. snap[w] \in 0..MaxRow
    BY DEF TypeOK, ScanTypeOK
  <2> QED
    BY <1>2, <2>1, LowestOf DEF Absent
<1> QED
  BY <1>1, <1>2, FloorMoves

(***************************************************************************)
(* A scan is told what its worker knows when it is called.                 *)
(***************************************************************************)
LEMMA ToldMoves ==
  ASSUME TypeOK, NEW v \in Worker, WorkerStep(v)
  PROVE  /\ \A w \in Worker \ {v} : told'[w] = told[w]
         /\ told'[v] = TRUE => told[v] = TRUE \/ armed[v] = TRUE
<1>0. told \in [Worker -> BOOLEAN]
  BY DEF TypeOK, ScanTypeOK
<1>1. CASE told' = told
  BY <1>1
<1>2. CASE told' = [told EXCEPT ![v] = FALSE]
  BY <1>0, <1>2
<1>3. CASE told' = [told EXCEPT ![v] = armed[v]]
  BY <1>0, <1>3
<1>4. CASE Vanish({v})
  BY <1>0, <1>4 DEF Vanish
<1>5. ASSUME NEW label, EndScan(v, label) PROVE told' = [told EXCEPT ![v] = FALSE]
  BY <1>5 DEF EndScan
<1>6. CASE UNCHANGED scanVars
  BY <1>1, <1>6 DEF scanVars
<1>7. CASE BeginCatchup(v) \/ TailAudit(v) \/ ArchiveAudit(v)
  BY <1>1, <1>3, <1>7 DEF BeginCatchup, TailAudit, ArchiveAudit
<1>8. CASE AskFloor(v) \/ AnswerMax(v) \/ Commit(v)
  BY <1>1, <1>8 DEF AskFloor, AnswerMax, Commit
<1>9. CASE PutRow(v)
  BY <1>1, <1>4, <1>9 DEF PutRow
<1>10. CASE Judge(v) \/ QueryWindow(v)
  BY <1>1, <1>2, <1>5, <1>6, <1>10 DEF Judge, QueryWindow
<1>11. CASE FreezeFloor(v) \/ RefuseRowids(v) \/ FinishScan(v)
  BY <1>2, <1>5, <1>11 DEF FreezeFloor, RefuseRowids, FinishScan
<1>12. CASE CallFails(v) \/ SyncEnds(v) \/ Quit(v)
  BY <1>2, <1>4, <1>5, <1>12 DEF CallFails, SyncEnds, Quit
<1> QED
  BY <1>6, <1>7, <1>8, <1>9, <1>10, <1>11, <1>12
  DEF WorkerStep, Step, Begin, FloorRefused, LegacyCycle, EndCycle, Reprobe,
      OnCaughtUp, DateRead, RetryQuarantined

(***************************************************************************)
(* A worker's step is its own: the others keep what they hold.             *)
(***************************************************************************)
Keeps(w) ==
  /\ Stays(w)
  /\ told'[w] = told[w]
  /\ armed'[w] = armed[w] /\ support'[w] = support[w]
  /\ heard'[w] = heard[w] /\ whole'[w] = whole[w]

LEMMA OthersKeep ==
  ASSUME TypeOK, NEW v \in Worker, WorkerStep(v), NEW w \in Worker, w # v
  PROVE  Keeps(w)
<1>1. /\ armed'[w] = armed[w] /\ support'[w] = support[w]
      /\ heard'[w] = heard[w] /\ whole'[w] = whole[w]
  <2>1. CASE Vanish({v})
    BY <2>1 DEF Vanish
  <2>2. CASE UNCHANGED cycleVars
    BY <2>2 DEF cycleVars
  <2>3. CASE Reprobe(v) \/ RefuseRowids(v)
    BY <2>3 DEF Reprobe, RefuseRowids, TypeOK, CycleTypeOK
  <2>4. CASE OnCaughtUp(v)
    BY <2>4 DEF OnCaughtUp, TypeOK, CycleTypeOK
  <2>5. CASE FinishScan(v) \/ LegacyCycle(v)
    BY <2>5 DEF FinishScan, LegacyCycle, TypeOK, CycleTypeOK
  <2>6. CASE EndCycle(v)
    BY <2>6 DEF EndCycle, TypeOK, CycleTypeOK
  <2>7. CASE CallFails(v)
    BY <2>1, <2>7 DEF CallFails, TypeOK, CycleTypeOK
  <2> QED
    BY <2>1, <2>2, <2>3, <2>4, <2>5, <2>6, <2>7
    DEF WorkerStep, Step, Begin, AskFloor, FloorRefused, FreezeFloor,
        SyncEnds, BeginCatchup, AnswerMax, Judge, QueryWindow, PutRow,
        Commit, Quit, TailAudit, ArchiveAudit, DateRead, RetryQuarantined
<1>2. Stays(w)
  <2>1. CASE Advances(v)
    BY <2>1, AdvanceMoves
  <2>2. ASSUME NEW label, Goto(v, label), UNCHANGED scanVars
        PROVE  Stays(w)
    BY <2>2, GotoMoves
  <2>3. ASSUME NEW label, EndScan(v, label)
        PROVE  Stays(w)
    BY <2>3, EndScanMoves
  <2>4. CASE Vanish({v})
    BY <2>4, VanishMoves
  <2>5. CASE UNCHANGED <<pc, scanVars>>
    BY <2>5 DEF scanVars, Stays
  <2>6. CASE Judge(v)
    <3>1. CASE Goto(v, "window") /\ cur' = [cur EXCEPT ![v] = 0]
               /\ UNCHANGED <<told, mode, snap, windows, page>>
      BY <3>1 DEF TypeOK, CycleTypeOK, ScanTypeOK, Goto, Stays
    <3> QED
      BY <2>2, <2>3, <2>6, <3>1 DEF Judge
  <2> QED
    BY <2>1, <2>2, <2>3, <2>4, <2>5, <2>6
    DEF WorkerStep, Step, Advances, Begin, Reprobe, FloorRefused,
        FreezeFloor, SyncEnds, RefuseRowids, FinishScan, LegacyCycle, EndCycle,
        CallFails, Quit, OnCaughtUp, DateRead, RetryQuarantined
<1>3. told'[w] = told[w]
  BY ToldMoves
<1> QED
  BY <1>1, <1>2, <1>3 DEF Keeps

(***************************************************************************)
(* What the Mac and the agent do to a worker: at most they start it, with  *)
(* a copy of the baseline flag, or end it.                                 *)
(***************************************************************************)
Begins(w) ==
  /\ pc[w] = "off" /\ pc'[w] = "idle" /\ armed'[w] = baseline
  /\ support'[w] = support[w] /\ heard'[w] = heard[w] /\ whole'[w] = whole[w]
  /\ mode'[w] = mode[w] /\ cur'[w] = cur[w] /\ snap'[w] = snap[w]
  /\ page'[w] = page[w] /\ told'[w] = told[w]

Ends(w) ==
  /\ pc'[w] = "off" /\ armed'[w] = FALSE /\ support'[w] = TRUE
  /\ heard'[w] = "no" /\ whole'[w] = FALSE /\ told'[w] = FALSE
  /\ snap'[w] = 0 /\ page'[w] = {}

LEMMA EnvironmentKeeps ==
  ASSUME TypeOK, MacStep \/ AgentStep, NEW w \in Worker
  PROVE  Keeps(w) \/ Begins(w) \/ Ends(w)
<1>1. CASE UNCHANGED <<pc, armed, support, heard, whole, scanVars>>
  BY <1>1 DEF Keeps, Stays, scanVars
<1>2. CASE MacStep
  BY <1>1, <1>2 DEF MacStep, Arrive, BecomesComplete, DeleteOnMac,
                    RestoreMac, UpgradeServer, cycleVars
<1>3. ASSUME NEW started \in Generations, StartBackend(started)
      PROVE  Keeps(w) \/ Begins(w)
  BY <1>3 DEF StartBackend, Keeps, Stays, Begins, scanVars
<1>4. CASE AgentDies
  BY <1>4 DEF AgentDies, Vanish, Ends
<1>5. CASE StopBackend \/ EmptyMacIsStable
  BY <1>1, <1>5 DEF StopBackend, EmptyMacIsStable, cycleVars
<1>6. ASSUME NEW m \in Message, HandleIncoming(m) \/ HandleUpdate(m)
      PROVE  Keeps(w) \/ Begins(w) \/ Ends(w)
  BY <1>1, <1>6 DEF HandleIncoming, HandleUpdate, cycleVars
<1> QED
  BY <1>2, <1>3, <1>4, <1>5, <1>6 DEF AgentStep

LEMMA BaselineMoves ==
  ASSUME TypeOK, Next, baseline' # baseline
  PROVE  \E w \in Worker : OnCaughtUp(w)
<1>1. CASE MacStep
  BY <1>1 DEF MacStep, Arrive, BecomesComplete, DeleteOnMac, RestoreMac,
              UpgradeServer, metaVars
<1>2. CASE AgentStep
  BY <1>2 DEF AgentStep, StartBackend, StopBackend, AgentDies,
              EmptyMacIsStable, HandleIncoming, HandleUpdate, metaVars
<1>3. ASSUME NEW w \in Worker, WorkerStep(w), ~OnCaughtUp(w)
      PROVE  baseline' = baseline
  BY <1>3
  DEF WorkerStep, Step, Begin, AskFloor, FloorRefused, FreezeFloor, SyncEnds,
      BeginCatchup, AnswerMax, RefuseRowids, Judge, QueryWindow, PutRow, Commit,
      FinishScan, LegacyCycle, EndCycle, Quit, Reprobe, TailAudit,
      ArchiveAudit, CallFails, DateRead, RetryQuarantined, metaVars
<1> QED
  BY <1>1, <1>2, <1>3 DEF Next

(***************************************************************************)
(* As long as no floor is frozen no worker gets past asking for one.       *)
(***************************************************************************)
LEMMA FrozenStep ==
  ASSUME TypeOK, Frozen, Next
  PROVE  Frozen'
<1>1. CASE floor # Absent
  BY <1>1, FloorFalls DEF Frozen, Absent
<1>2. CASE floor = Absent /\ floor' # Absent
  BY <1>2 DEF Frozen, Absent
<1>3. CASE floor = Absent /\ floor' = Absent
  <2>1. baseline # TRUE /\ \A w \in Worker : ~NeedsFloor(w)
    BY <1>3 DEF Frozen
  <2>2. baseline' # TRUE
    BY <2>1, BaselineMoves DEF OnCaughtUp, NeedsFloor
  <2>3. ASSUME NEW w \in Worker, Keeps(w) \/ Begins(w) \/ Ends(w)
        PROVE  ~NeedsFloor(w)'
    BY <2>1, <2>3
    DEF Keeps, Stays, Begins, Ends, NeedsFloor, Scanning
  <2>4. ASSUME NEW v \in Worker, WorkerStep(v)
        PROVE  ~NeedsFloor(v)'
    <3>0. told'[v] # TRUE
      BY <2>1, <2>4, ToldMoves DEF NeedsFloor
    <3>1. /\ pc[v] \in {"off", "idle", "floor", "freeze"}
          /\ armed[v] # TRUE /\ whole[v] # TRUE /\ heard[v] # "queued"
          /\ support[v] # FALSE
      BY <2>1 DEF NeedsFloor, Scanning
    <3>2. CASE Begin(v)
      BY <1>3, <2>4, <3>0, <3>1, <3>2
      DEF Begin, Goto, NeedsFloor, Scanning, TypeOK, CycleTypeOK, cycleVars
    <3>3. CASE AskFloor(v) \/ FloorRefused(v)
      BY <2>4, <3>0, <3>1, <3>3
      DEF AskFloor, FloorRefused, Goto, NeedsFloor, Scanning, TypeOK,
          CycleTypeOK, cycleVars
    <3>4. CASE FreezeFloor(v)
      <4>1. EndScan(v, "idle") /\ UNCHANGED cycleVars
        <5>1. Lowest(snap[v]) # Absent
          BY LowestOf DEF TypeOK, ScanTypeOK, Absent
        <5> QED
          BY <1>3, <3>4, <5>1 DEF FreezeFloor
      <4>2. pc'[v] = "idle"
        BY <4>1 DEF EndScan, Goto, TypeOK, CycleTypeOK
      <4> QED
        BY <3>0, <3>1, <4>1, <4>2 DEF NeedsFloor, Scanning, cycleVars
    <3>5. CASE Vanish({v})
      BY <3>0, <3>5 DEF Vanish, NeedsFloor, Scanning
    <3>6. CASE CallFails(v)
      <4>1. CASE EndScan(v, "idle") /\ whole' = [whole EXCEPT ![v] = FALSE]
                 /\ UNCHANGED <<stopping, armed, support, heard>>
        BY <3>0, <3>1, <4>1
        DEF EndScan, Goto, NeedsFloor, Scanning, TypeOK, CycleTypeOK
      <4> QED
        BY <3>5, <3>6, <4>1 DEF CallFails
    <3>7. CASE SyncEnds(v) \/ Quit(v)
      BY <3>5, <3>7 DEF SyncEnds, Quit
    <3>8. ~Reprobe(v)
      BY <3>1 DEF Reprobe, TypeOK, CycleTypeOK
    <3>9. ASSUME NEW m \in Message, NEW repair \in BOOLEAN,
                 DateRead(v, m, repair)
          PROVE  FALSE
      BY <3>1, <3>9 DEF DateRead
    <3>10. ASSUME NEW r \in Row, RetryQuarantined(v, r)
           PROVE  FALSE
      BY <3>1, <3>10 DEF RetryQuarantined
    <3> QED
      BY <2>4, <3>1, <3>2, <3>3, <3>4, <3>6, <3>7, <3>8, <3>9, <3>10
      DEF WorkerStep, Step, OnCaughtUp, BeginCatchup, AnswerMax, RefuseRowids,
          Judge, QueryWindow, PutRow, Commit, FinishScan, LegacyCycle,
          EndCycle, TailAudit, ArchiveAudit
  <2>5. \A w \in Worker : ~NeedsFloor(w)'
    BY <2>3, <2>4, OthersKeep, EnvironmentKeeps DEF Next
  <2> QED
    BY <2>2, <2>5 DEF Frozen
<1> QED
  BY <1>1, <1>2, <1>3

LEMMA FrozenInit ==
  ASSUME Init
  PROVE  Frozen
BY DEF Init, StoreInit, Frozen, NeedsFloor, Scanning

----------------------------------------------------------------------------
(***************************************************************************)
(* History stays quiet.  The Mac only gains messages, and each of them has *)
(* arrived; so what lay below an answer still does.                        *)
(***************************************************************************)
Faithful ==
  Hazards \cap {"low_max", "delete", "restore", "late_update"} = {}

MacGrows ==
  /\ Present \subseteq Present' /\ arrived \subseteq arrived'
  /\ Present' \ arrived' \subseteq Present \ arrived
  /\ server' = "old" => server = "old"
  /\ NothingAbove'

LEMMA MacGrowsStep ==
  ASSUME TypeOK, NothingAbove, Next, Faithful
  PROVE  MacGrows
<1>1. CASE UNCHANGED macVars
  BY <1>1 DEF macVars, MacGrows, Present, NothingAbove
<1>2. CASE Arrive
  <2>1. /\ seq + 1 \in Row /\ seq' = seq + 1 /\ gen \in 1..MaxGen
        /\ arrived' = arrived \cup {<<seq + 1, gen>>}
        /\ mac' = [mac EXCEPT ![seq + 1] = gen] /\ server' = server
    BY <1>2, StoreAssumption DEF Arrive, TypeOK, MacTypeOK, Row
  <2>2. mac[seq + 1] = 0 /\ mac \in [Row -> 0..MaxGen]
    BY <2>1, StoreAssumption DEF NothingAbove, TypeOK, MacTypeOK, Row
  <2>3. ASSUME NEW m \in Message
        PROVE  /\ mac[m[1]] = m[2] => mac'[m[1]] = m[2]
               /\ mac'[m[1]] = m[2] => mac[m[1]] = m[2] \/ m = <<seq + 1, gen>>
    <3>1. m[1] \in Row /\ m[2] \in 1..MaxGen /\ m = <<m[1], m[2]>>
      BY DEF Message
    <3>2. m[2] # 0
      BY <3>1, StoreAssumption
    <3>3. CASE m[1] = seq + 1
      BY <2>1, <2>2, <3>1, <3>2, <3>3
    <3>4. CASE m[1] # seq + 1
      BY <2>1, <2>2, <3>1, <3>4
    <3> QED
      BY <3>3, <3>4
  <2>4. \A r \in Row : r > seq' => mac'[r] = 0
    <3>1. \A r \in Row : r > seq + 1 => r # seq + 1 /\ r > seq
      BY DEF TypeOK, MacTypeOK, Row
    <3> QED
      BY <2>1, <2>2, <3>1 DEF NothingAbove
  <2> QED
    BY <2>1, <2>3, <2>4 DEF MacGrows, Present, NothingAbove
<1>3. ASSUME NEW m \in Message, BecomesComplete(m)
      PROVE  MacGrows
  BY <1>3 DEF BecomesComplete, MacGrows, Present, NothingAbove
<1>4. CASE UpgradeServer
  BY <1>4 DEF UpgradeServer, MacGrows, Present, NothingAbove
<1>5. CASE MacStep
  BY <1>2, <1>3, <1>4, <1>5 DEF MacStep, DeleteOnMac, RestoreMac, Faithful
<1>6. CASE AgentStep
  BY <1>1, <1>6
  DEF AgentStep, StartBackend, StopBackend, AgentDies, EmptyMacIsStable,
      HandleIncoming, HandleUpdate
<1>7. ASSUME NEW w \in Worker, Step(w)
      PROVE  UNCHANGED macVars
  BY <1>7
  DEF Step, Begin, AskFloor, FloorRefused, FreezeFloor, SyncEnds,
      BeginCatchup, AnswerMax, RefuseRowids, Judge, QueryWindow, PutRow,
      Commit, FinishScan, LegacyCycle, EndCycle, Quit
<1>8. ASSUME NEW w \in Worker, WorkerStep(w), ~Step(w)
      PROVE  UNCHANGED macVars
  BY <1>8
  DEF WorkerStep, Reprobe, OnCaughtUp, TailAudit, ArchiveAudit, CallFails,
      DateRead, RetryQuarantined
<1> QED
  BY <1>1, <1>5, <1>6, <1>7, <1>8 DEF Next

LEMMA HistoryStaysBelow ==
  ASSUME MacGrows, NEW a, HistoryBelow(a)
  PROVE  /\ server' = "old" => Present' \subseteq arrived'
         /\ \A m \in Present' \ arrived' : m[1] <= a
BY DEF MacGrows, HistoryBelow

LEMMA MaxIsAboveHistory ==
  ASSUME TypeOK, Faithful, NEW a, MaxMessageRowid(a)
  PROVE  HistoryBelow(a)
<1>1. IsTop(a) /\ (server = "rowid" \/ Present = {})
  BY DEF MaxMessageRowid, Faithful
<1>2. \A m \in Present : m[1] \in Row /\ mac[m[1]] # 0
  BY StoreAssumption DEF Present, Message
<1> QED
  BY <1>1, <1>2 DEF IsTop, HistoryBelow

(***************************************************************************)
(* Who holds an answer to max_message_rowid has held it before, or has     *)
(* just been given it.                                                     *)
(***************************************************************************)
LEMMA AnswerMoves ==
  ASSUME TypeOK, Next, NEW w \in Worker, pc'[w] \in {"freeze", "judge"}
  PROVE  \/ pc[w] \in {"freeze", "judge"} /\ snap'[w] = snap[w]
         \/ \E a \in 0..MaxRow : MaxMessageRowid(a) /\ snap'[w] = a
<1>1. CASE Keeps(w)
  BY <1>1 DEF Keeps, Stays
<1>2. CASE Begins(w) \/ Ends(w)
  BY <1>2 DEF Begins, Ends
<1>3. CASE AskFloor(w) \/ AnswerMax(w)
  BY <1>3 DEF AskFloor, AnswerMax, TypeOK, ScanTypeOK
<1>4. CASE WorkerStep(w) /\ ~AskFloor(w) /\ ~AnswerMax(w)
  <2>1. ASSUME NEW label, Goto(w, label)
        PROVE  label \in {"freeze", "judge"}
    BY <2>1 DEF Goto, TypeOK, CycleTypeOK
  <2>2. ~Vanish({w})
    BY DEF Vanish
  <2>3. CASE UNCHANGED <<pc, scanVars>>
    BY <2>3 DEF scanVars
  <2>4. ~Judge(w) /\ ~FreezeFloor(w) /\ ~RefuseRowids(w)
    BY <2>1 DEF Judge, FreezeFloor, RefuseRowids, EndScan
  <2>5. ~FinishScan(w) /\ ~Commit(w) /\ ~QueryWindow(w) /\ ~PutRow(w)
    <3>1. ~FinishScan(w) /\ ~Commit(w)
      BY <2>1 DEF FinishScan, Commit, EndScan
    <3>2. PutRow(w) =>
            Vanish({w}) \/ \E label \in {"put", "commit"} : Goto(w, label)
      BY DEF PutRow
    <3>3. QueryWindow(w) => \E label \in {"idle", "put", "commit"} : Goto(w, label)
      BY DEF QueryWindow, EndScan
    <3> QED
      BY <2>1, <2>2, <3>1, <3>2, <3>3
  <2>6. ~CallFails(w) /\ ~SyncEnds(w) /\ ~Quit(w)
    BY <2>1, <2>2 DEF CallFails, SyncEnds, Quit, EndScan
  <2>7. ~Begin(w) /\ ~FloorRefused(w) /\ ~BeginCatchup(w)
    BY <2>1 DEF Begin, FloorRefused, BeginCatchup
  <2>8. ~LegacyCycle(w) /\ ~EndCycle(w) /\ ~TailAudit(w) /\ ~ArchiveAudit(w)
    BY <2>1 DEF LegacyCycle, EndCycle, TailAudit, ArchiveAudit
  <2>9. /\ \A m \in Message, repair \in BOOLEAN : ~DateRead(w, m, repair)
        /\ \A r \in Row : ~RetryQuarantined(w, r)
    BY <2>1 DEF DateRead, RetryQuarantined
  <2> QED
    BY <1>4, <2>3, <2>4, <2>5, <2>6, <2>7, <2>8, <2>9
    DEF WorkerStep, Step, Reprobe, OnCaughtUp
<1> QED
  BY <1>1, <1>2, <1>3, <1>4, OthersKeep, EnvironmentKeeps DEF Next

(***************************************************************************)
(* The answer a worker holds was the maximum when it was given: whatever   *)
(* is above it by now has arrived since.                                   *)
(***************************************************************************)
LEMMA AnswerInvStep ==
  ASSUME TypeOK, AnswerInv, MacGrows, Faithful, Next
  PROVE  AnswerInv'
<1> SUFFICES ASSUME NEW w \in Worker, pc'[w] \in {"freeze", "judge"}
             PROVE  HistoryBelow(snap[w])'
  BY DEF AnswerInv
<1>1. CASE pc[w] \in {"freeze", "judge"} /\ snap'[w] = snap[w]
  BY <1>1, HistoryStaysBelow DEF AnswerInv, HistoryBelow
<1>2. ASSUME NEW a \in 0..MaxRow, MaxMessageRowid(a), snap'[w] = a
      PROVE  HistoryBelow(snap[w])'
  <2>1. HistoryBelow(a)
    BY <1>2, MaxIsAboveHistory
  <2> QED
    BY <1>2, <2>1, HistoryStaysBelow DEF HistoryBelow
<1> QED
  BY <1>1, <1>2, AnswerMoves

LEMMA FloorInvStep ==
  ASSUME TypeOK, AnswerInv, FloorInv, MacGrows, Next
  PROVE  FloorInv'
<1> SUFFICES ASSUME floor' # Absent
             PROVE  HistoryBelow(floor)'
  BY DEF FloorInv, Absent
<1>1. CASE floor' = floor
  BY <1>1, HistoryStaysBelow DEF FloorInv, HistoryBelow
<1>2. ASSUME NEW w \in Worker, pc[w] \in {"freeze", "judge"},
             floor' = Lowest(snap[w])
      PROVE  HistoryBelow(floor)'
  <2>1. floor' \in {snap[w], floor}
    BY <1>2, LowestOf DEF TypeOK, ScanTypeOK
  <2>2. HistoryBelow(snap[w])
    BY <1>2 DEF AnswerInv
  <2> QED
    BY <1>1, <2>1, <2>2, HistoryStaysBelow DEF HistoryBelow
<1> QED
  BY <1>1, <1>2, FloorMoves

(***************************************************************************)
(* A page holds rows of the Mac, read in the window of its worker.         *)
(***************************************************************************)
LEMMA PageMoves ==
  ASSUME TypeOK, Next, NEW w \in Worker, NEW p \in page'[w]
  PROVE  \/ p \in page[w]
         \/ \E m \in InWindow(w) : p = <<m[1], m[2], m \notin sparse>>
<1>1. CASE page'[w] = page[w]
  BY <1>1
<1>2. CASE Keeps(w) \/ Begins(w) \/ Ends(w)
  BY <1>2 DEF Keeps, Stays, Begins, Ends
<1>3. ASSUME NEW label
      PROVE  ~EndScan(w, label)
  BY DEF EndScan, TypeOK, ScanTypeOK
<1>4. ~Vanish({w})
  BY DEF Vanish
<1>5. CASE QueryWindow(w)
  BY <1>3, <1>5 DEF QueryWindow, TypeOK, ScanTypeOK
<1>6. CASE PutRow(w)
  <2>1. ASSUME NEW q, page' = [page EXCEPT ![w] = @ \ {q}]
        PROVE  p \in page[w]
    BY <2>1 DEF TypeOK, ScanTypeOK
  <2> QED
    BY <1>4, <1>6, <2>1 DEF PutRow
<1>7. CASE WorkerStep(w) /\ ~QueryWindow(w) /\ ~PutRow(w)
  BY <1>1, <1>3, <1>4, <1>7
  DEF WorkerStep, Step, Begin, AskFloor, FloorRefused, FreezeFloor, SyncEnds,
      BeginCatchup, AnswerMax, RefuseRowids, Judge, Commit, FinishScan,
      LegacyCycle, EndCycle, Quit, Reprobe, OnCaughtUp, TailAudit,
      ArchiveAudit, CallFails, DateRead, RetryQuarantined, scanVars
<1> QED
  BY <1>2, <1>5, <1>6, <1>7, OthersKeep, EnvironmentKeeps DEF Next

LEMMA PagesAreRealStep ==
  ASSUME TypeOK, PagesAreReal, MacGrows, Next
  PROVE  PagesAreReal'
<1> SUFFICES ASSUME NEW w \in Worker, NEW p \in page'[w]
             PROVE  <<p[1], p[2]>> \in Present'
  BY DEF PagesAreReal
<1>1. CASE p \in page[w]
  BY <1>1 DEF PagesAreReal, MacGrows
<1>2. ASSUME NEW m \in InWindow(w), p = <<m[1], m[2], m \notin sparse>>
      PROVE  <<p[1], p[2]>> \in Present
  BY <1>2 DEF InWindow, Present, Message
<1> QED
  BY <1>1, <1>2, PageMoves DEF MacGrows

(***************************************************************************)
(* What a worker may count as news has arrived since the first start.      *)
(***************************************************************************)
LEMMA NewsHasArrived ==
  ASSUME TypeOK, FloorInv, floor # Absent, NEW m \in Present, NEW armd,
         \/ NotificationEligible(m[1], armd)
         \/ NotificationEligible(RowidOf(m), armd)
  PROVE  m \in arrived
<1>1. m[1] \in Row /\ m[1] > 0 /\ floor \in Int
  BY StoreAssumption
  DEF Present, Message, Row, TypeOK, StoreTypeOK, Absent
<1>2. CASE server = "old"
  BY <1>2 DEF FloorInv, HistoryBelow
<1>3. CASE server = "rowid"
  <2>1. RowidOf(m) = m[1]
    BY <1>3 DEF RowidOf
  <2>2. floor < m[1]
    BY <1>1, <2>1 DEF NotificationEligible
  <2>3. m \notin arrived => m[1] <= floor
    BY DEF FloorInv, HistoryBelow
  <2>4. m[1] \in Int
    BY <1>1 DEF Row
  <2> QED
    BY <1>1, <2>2, <2>3, <2>4
<1> QED
  BY <1>2, <1>3 DEF TypeOK, MacTypeOK

LEMMA HistoryStaysQuietStep ==
  ASSUME QuietInv, MacGrows, Faithful, Next
  PROVE  HistoryStaysQuiet'
<1> USE DEF QuietInv
<1>1. CASE event' \subseteq event \cup arrived
  BY <1>1 DEF HistoryStaysQuiet, MacGrows
<1>2. CASE UNCHANGED messageVars
  BY <1>1, <1>2 DEF messageVars
<1>3. CASE MacStep
  BY <1>2, <1>3 DEF MacStep, Arrive, BecomesComplete, DeleteOnMac, RestoreMac,
                    UpgradeServer
<1>4. ASSUME NEW m \in Message, HandleIncoming(m) \/ HandleUpdate(m)
      PROVE  HistoryStaysQuiet'
  <2>1. m \in arrived
    BY <1>4 DEF HandleIncoming, HandleUpdate, Faithful
  <2>2. event' \subseteq event \cup {m}
    BY <1>4 DEF HandleIncoming, HandleUpdate, UpsertAll
  <2> QED
    BY <1>1, <2>1, <2>2
<1>5. CASE AgentStep
  BY <1>2, <1>4, <1>5
  DEF AgentStep, StartBackend, StopBackend, AgentDies, EmptyMacIsStable
<1>6. ASSUME NEW w \in Worker, Scanning(w)
      PROVE  floor # Absent
  BY <1>6 DEF Frozen, NeedsFloor
<1>7. ASSUME NEW w \in Worker, PutRow(w)
      PROVE  HistoryStaysQuiet'
  <2>1. PICK p \in page[w] :
          LET m == <<p[1], p[2]>>
              news == IF NotificationEligible(p[1], told[w]) THEN {m} ELSE {}
          IN  IF p[3]
              THEN /\ UpsertAll({m}, news, RepairsEvent(p[1], told[w]))
                   /\ ClearSyncFailure(p[1])
              ELSE RecordSyncFailure(m) /\ UNCHANGED <<stored, event>>
    BY <1>7 DEF PutRow
  <2>2. floor # Absent
    BY <1>6, <1>7 DEF PutRow, Scanning
  <2>3. DEFINE m == <<p[1], p[2]>>
  <2>4. m \in Present /\ m[1] = p[1]
    BY DEF PagesAreReal
  <2>5. NotificationEligible(p[1], told[w]) => m \in arrived
    BY <2>2, <2>4, NewsHasArrived
  <2>6. \/ event' = event
        \/ event' \subseteq event \cup
              IF NotificationEligible(p[1], told[w]) THEN {m} ELSE {}
    BY <2>1 DEF UpsertAll
  <2> QED
    BY <1>1, <2>5, <2>6
<1>8. ASSUME NEW w \in Worker, LegacyCycle(w)
      PROVE  HistoryStaysQuiet'
  <2>1. PICK S \in SUBSET Readable :
          event' \subseteq event \cup
            {m \in S : NotificationEligible(RowidOf(m), armed[w])}
    BY <1>8 DEF LegacyCycle, UpsertAll
  <2>2. floor # Absent
    BY <1>6, <1>8 DEF LegacyCycle, Scanning
  <2>3. \A m \in S : NotificationEligible(RowidOf(m), armed[w]) => m \in arrived
    BY <2>2, NewsHasArrived DEF Readable
  <2> QED
    BY <1>1, <2>1, <2>3
<1>9. ASSUME NEW w \in Worker, NEW m \in Message, NEW repair \in BOOLEAN,
             DateRead(w, m, repair)
      PROVE  HistoryStaysQuiet'
  <2>1. m \in Present /\ floor # Absent
    BY <1>6, <1>9 DEF DateRead, Readable, Scanning
  <2>2. NotificationEligible(RowidOf(m), armed[w]) => m \in arrived
    BY <2>1, NewsHasArrived
  <2>3. event' \subseteq event \cup
          IF NotificationEligible(RowidOf(m), armed[w]) THEN {m} ELSE {}
    BY <1>9 DEF DateRead, UpsertAll
  <2> QED
    BY <1>1, <2>2, <2>3
<1>10. ASSUME NEW w \in Worker, NEW r \in Row, RetryQuarantined(w, r)
       PROVE  HistoryStaysQuiet'
  <2>1. DEFINE m == <<r, failed[r]>>
  <2>2. m \in Present /\ m[1] = r /\ floor # Absent
    BY <1>6, <1>10 DEF RetryQuarantined, Readable, Scanning
  <2>3. NotificationEligible(r, armed[w]) => m \in arrived
    BY <2>2, NewsHasArrived
  <2>4. event' \subseteq event \cup
          IF NotificationEligible(r, armed[w]) THEN {m} ELSE {}
    BY <1>10 DEF RetryQuarantined, UpsertAll
  <2> QED
    BY <1>1, <2>3, <2>4
<1>11. ASSUME NEW w \in Worker, WorkerStep(w), ~PutRow(w), ~LegacyCycle(w),
              \A m \in Message, repair \in BOOLEAN : ~DateRead(w, m, repair),
              \A r \in Row : ~RetryQuarantined(w, r)
       PROVE  UNCHANGED messageVars
  BY <1>11
  DEF WorkerStep, Step, Begin, AskFloor, FloorRefused, FreezeFloor, SyncEnds,
      BeginCatchup, AnswerMax, RefuseRowids, Judge, QueryWindow, Commit,
      FinishScan, EndCycle, Quit, Reprobe, OnCaughtUp, TailAudit,
      ArchiveAudit, CallFails
<1> QED
  BY <1>2, <1>3, <1>5, <1>7, <1>8, <1>9, <1>10, <1>11 DEF Next

LEMMA QuietInvStep ==
  ASSUME QuietInv, [Next]_vars, Faithful
  PROVE  QuietInv'
<1>1. TypeOK'
  BY TypeStep DEF QuietInv
<1>2. CASE Next
  <2>1. MacGrows
    BY <1>2, MacGrowsStep DEF QuietInv
  <2> QED
    BY <1>1, <1>2, <2>1, FrozenStep, AnswerInvStep, FloorInvStep,
       PagesAreRealStep, HistoryStaysQuietStep
    DEF QuietInv, MacGrows
<1>3. CASE UNCHANGED vars
  BY <1>1, <1>3
  DEF vars, QuietInv, Frozen, NeedsFloor, Scanning, NothingAbove,
      PagesAreReal, FloorInv, AnswerInv, HistoryBelow, HistoryStaysQuiet,
      Present
<1> QED
  BY <1>2, <1>3

LEMMA QuietInvInit ==
  ASSUME Init
  PROVE  QuietInv
<1>1. NothingAbove
  BY DEF Init, NothingAbove
<1> QED
  BY <1>1, TypeInit, FrozenInit
  DEF Init, StoreInit, QuietInv, PagesAreReal, FloorInv, AnswerInv,
      HistoryStaysQuiet

(***************************************************************************)
(* A message the Mac had before the first start never gets a delivery      *)
(* event (SETUP.md:47), with any number of overlapping workers, kills,     *)
(* refusals and omissions, and whatever floors they propose: as long as    *)
(* the Mac answers its true maximum, keeps its rows and edits none of      *)
(* them.                                                                   *)
(***************************************************************************)
THEOREM HistoryIsNeverNews ==
  ASSUME Faithful
  PROVE  Spec => []HistoryStaysQuiet
<1>1. Init => QuietInv
  BY QuietInvInit
<1>2. QuietInv /\ [Next]_vars => QuietInv'
  BY QuietInvStep
<1>3. QuietInv => HistoryStaysQuiet
  BY DEF QuietInv
<1> QED
  BY <1>1, <1>2, <1>3, PTL DEF Spec

----------------------------------------------------------------------------
(***************************************************************************)
(* A complete baseline has read everything under its floor.  CursorInv     *)
(* says what a catch-up has covered; the floor lies under the end of it.   *)
(***************************************************************************)
LEMMA FloorReadKept ==
  ASSUME CursorInv, FloorBelowSeq, FloorIsRead, floor # Absent,
         StoreKept, MacKept, Next
  PROVE  FloorIsRead'
<1> SUFFICES ASSUME NEW r \in Row, r <= floor'
             PROVE  Covered(r)'
  BY DEF FloorIsRead
<1>1. /\ floor \in Int /\ floor' \in Int /\ seq \in Int /\ r \in Int
      /\ floor' <= floor
  <2>1. TypeOK /\ TypeOK'
    BY TypeStep DEF CursorInv
  <2>2. floor' <= floor
    BY <2>1, FloorFalls
  <2>3. floor \in Int /\ floor' \in Int
    BY <2>1 DEF TypeOK, StoreTypeOK, Absent
  <2> QED
    BY <2>1, <2>2, <2>3 DEF TypeOK, MacTypeOK, Row
<1>2. r <= floor /\ r <= seq
  BY <1>1 DEF FloorBelowSeq
<1> QED
  BY <1>2, CoveredKept DEF FloorIsRead, CursorInv

LEMMA FloorBelowSeqStep ==
  ASSUME CursorInv, FloorBelowSeq, MacKept, Next
  PROVE  FloorBelowSeq'
<1>1. TypeOK /\ TypeOK'
  BY TypeStep DEF CursorInv
<1>2. floor \in Int /\ seq \in Int /\ seq' \in Int /\ seq <= seq'
  BY <1>1 DEF TypeOK, StoreTypeOK, MacTypeOK, Absent, MacKept
<1>3. CASE floor' = floor
  BY <1>2, <1>3 DEF FloorBelowSeq
<1>4. ASSUME NEW w \in Worker, floor' = Lowest(snap[w])
      PROVE  FloorBelowSeq'
  <2>1. snap[w] \in 0..MaxRow /\ snap[w] <= seq
    BY <1>1 DEF CursorInv, ScanCovers, TypeOK, ScanTypeOK
  <2>2. floor' <= snap[w] /\ floor' \in 0..MaxRow
    BY <1>1, <1>4, <2>1, LowestOf
  <2> QED
    BY <1>2, <2>1, <2>2 DEF FloorBelowSeq
<1> QED
  BY <1>1, <1>3, <1>4, FloorMoves

LEMMA ServerMoves ==
  ASSUME Next
  PROVE  server' = "old" => server = "old"
<1>1. CASE UNCHANGED macVars
  BY <1>1 DEF macVars
<1>2. CASE MacStep
  BY <1>2 DEF MacStep, Arrive, BecomesComplete, DeleteOnMac, RestoreMac,
              UpgradeServer
<1>3. CASE AgentStep
  BY <1>1, <1>3
  DEF AgentStep, StartBackend, StopBackend, AgentDies, EmptyMacIsStable,
      HandleIncoming, HandleUpdate
<1>4. ASSUME NEW w \in Worker, Step(w)
      PROVE  UNCHANGED macVars
  BY <1>4
  DEF Step, Begin, AskFloor, FloorRefused, FreezeFloor, SyncEnds,
      BeginCatchup, AnswerMax, RefuseRowids, Judge, QueryWindow, PutRow,
      Commit, FinishScan, LegacyCycle, EndCycle, Quit
<1>5. ASSUME NEW w \in Worker, WorkerStep(w), ~Step(w)
      PROVE  UNCHANGED macVars
  BY <1>5
  DEF WorkerStep, Reprobe, OnCaughtUp, TailAudit, ArchiveAudit, CallFails,
      DateRead, RetryQuarantined
<1> QED
  BY <1>1, <1>2, <1>3, <1>4, <1>5 DEF Next

\* A server that hides ROWIDs only answers for a Mac without messages.
LEMMA OldAnswersZero ==
  ASSUME TypeOK, NEW a, MaxMessageRowid(a), server = "old"
  PROVE  a = 0
<1>1. Present = {}
  BY DEF MaxMessageRowid
<1>2. ASSUME NEW r \in Row, mac[r] # 0
      PROVE  FALSE
  <2>1. mac[r] \in 1..MaxGen
    BY <1>2, StoreAssumption DEF TypeOK, MacTypeOK
  <2>2. <<r, mac[r]>> \in Present
    BY <2>1 DEF Present, Message
  <2> QED
    BY <1>1, <2>2
<1> QED
  BY <1>2 DEF MaxMessageRowid, IsTop

LEMMA OldIsEmptyStep ==
  ASSUME CursorInv, Frozen, OldIsEmpty, Next, "refuse" \notin Hazards
  PROVE  OldIsEmpty'
<1>1. TypeOK /\ TypeOK'
  BY TypeStep DEF CursorInv
<1>2. floor \in Absent..MaxRow /\ floor' \in Absent..MaxRow
  BY <1>1 DEF TypeOK, StoreTypeOK
<1>3. floor = 0 => floor' = 0
  <2>1. floor = 0 => floor' # Absent /\ floor' <= 0
    BY <1>1, FloorFalls DEF Absent
  <2> QED
    BY <1>2, <2>1 DEF Absent
<1>4. server' = "old" => floor' \in {Absent, 0}
  <2>1. ASSUME server = "old", NEW w \in Worker,
               pc[w] \in {"freeze", "judge"}, floor' = Lowest(snap[w])
        PROVE  floor' = 0
    <3>1. snap[w] = 0
      BY <2>1 DEF OldIsEmpty
    <3>2. Lowest(0) \in 0..MaxRow /\ Lowest(0) <= 0
      BY <1>1, LowestOf, StoreAssumption
    <3> QED
      BY <2>1, <3>1, <3>2
  <2> QED
    BY <1>1, <2>1, FloorMoves, ServerMoves DEF OldIsEmpty
<1>5. ASSUME NEW w \in Worker, support'[w] = FALSE \/ pc'[w] = "legacy"
      PROVE  floor' = 0
  <2>1. CASE support[w] = FALSE \/ pc[w] = "legacy"
    BY <1>3, <2>1 DEF OldIsEmpty
  <2>2. CASE Keeps(w) \/ Begins(w) \/ Ends(w)
    BY <1>5, <2>1, <2>2 DEF Keeps, Stays, Begins, Ends
  <2>3. CASE RefuseRowids(w)
    <3>1. server = "old" /\ pc[w] \in {"max", "window"}
      BY <2>3 DEF RefuseRowids
    <3>2. floor # Absent
      BY <3>1 DEF Frozen, NeedsFloor, Scanning
    <3> QED
      BY <1>3, <3>1, <3>2 DEF OldIsEmpty
  <2>4. CASE WorkerStep(w) /\ ~RefuseRowids(w) /\ support[w] # FALSE
             /\ pc[w] # "legacy"
    <3>1. ~Vanish({w})
      BY <1>5 DEF Vanish
    <3>2. CASE UNCHANGED support
      <4>1. pc'[w] = "legacy"
        BY <1>5, <2>4, <3>2
      <4>2. ASSUME NEW label, Goto(w, label)
            PROVE  label = "legacy"
        BY <1>1, <4>1, <4>2 DEF Goto, TypeOK, CycleTypeOK
      <4>3. UNCHANGED pc => FALSE
        BY <2>4, <4>1
      <4>4. ~BeginCatchup(w)
        BY <1>1, <2>4, <4>2 DEF BeginCatchup, TypeOK, CycleTypeOK
      <4>5. ~Judge(w) /\ ~FreezeFloor(w) /\ ~FinishScan(w) /\ ~Commit(w)
        BY <4>2 DEF Judge, FreezeFloor, FinishScan, Commit, EndScan
      <4>6. ~QueryWindow(w) /\ ~PutRow(w)
        <5>1. PutRow(w) =>
                Vanish({w}) \/ \E label \in {"put", "commit"} : Goto(w, label)
          BY DEF PutRow
        <5>2. QueryWindow(w) =>
                \E label \in {"idle", "put", "commit"} : Goto(w, label)
          BY DEF QueryWindow, EndScan
        <5> QED
          BY <3>1, <4>2, <5>1, <5>2
      <4>7. ~CallFails(w) /\ ~SyncEnds(w) /\ ~Quit(w)
        BY <3>1, <4>2 DEF CallFails, SyncEnds, Quit, EndScan
      <4>8. ~Begin(w) /\ ~AskFloor(w) /\ ~FloorRefused(w) /\ ~AnswerMax(w)
        BY <4>2 DEF Begin, AskFloor, FloorRefused, AnswerMax
      <4>9. ~LegacyCycle(w) /\ ~EndCycle(w) /\ ~TailAudit(w) /\ ~ArchiveAudit(w)
        BY <4>2 DEF LegacyCycle, EndCycle, TailAudit, ArchiveAudit
      <4>10. /\ \A m \in Message, repair \in BOOLEAN : ~DateRead(w, m, repair)
             /\ \A r \in Row : ~RetryQuarantined(w, r)
        BY <4>2 DEF DateRead, RetryQuarantined
      <4>11. ~Reprobe(w) /\ ~OnCaughtUp(w)
        BY <4>3 DEF Reprobe, OnCaughtUp
      <4> QED
        BY <2>4, <4>4, <4>5, <4>6, <4>7, <4>8, <4>9, <4>10, <4>11
        DEF WorkerStep, Step
    <3>3. CASE Reprobe(w)
      BY <1>1, <2>4, <3>3 DEF Reprobe, TypeOK, CycleTypeOK
    <3> QED
      BY <2>4, <3>1, <3>2, <3>3
      DEF WorkerStep, Step, Begin, AskFloor, FloorRefused, FreezeFloor,
          SyncEnds, BeginCatchup, AnswerMax, Judge, QueryWindow, PutRow,
          Commit, FinishScan, LegacyCycle, EndCycle, Quit, OnCaughtUp,
          TailAudit, ArchiveAudit, CallFails, DateRead, RetryQuarantined,
          cycleVars
  <2> QED
    BY <1>1, <2>1, <2>2, <2>3, <2>4, OthersKeep, EnvironmentKeeps DEF Next
<1>6. ASSUME NEW w \in Worker, server' = "old", pc'[w] \in {"freeze", "judge"}
      PROVE  snap'[w] = 0
  <2>1. server = "old"
    BY <1>6, ServerMoves
  <2> QED
    BY <1>1, <1>6, <2>1, AnswerMoves, OldAnswersZero DEF OldIsEmpty
<1> QED
  BY <1>4, <1>5, <1>6 DEF OldIsEmpty

(***************************************************************************)
(* Between the judgement of its snapshot and the end of its windows a      *)
(* catch-up keeps that snapshot.                                           *)
(***************************************************************************)
LEMMA WindowMoves ==
  ASSUME TypeOK, Next, NEW w \in Worker, mode'[w] = "catchup",
         pc'[w] \in {"window", "put", "commit"}
  PROVE  \/ /\ mode[w] = "catchup" /\ snap'[w] = snap[w]
            /\ pc[w] \in {"window", "put", "commit"}
         \/ /\ Judge(w) /\ snap'[w] = snap[w]
            /\ told[w] = TRUE \/ floor' = Lowest(snap[w])
<1>1. CASE Keeps(w)
  BY <1>1 DEF Keeps, Stays
<1>2. CASE Begins(w) \/ Ends(w)
  BY <1>2 DEF Begins, Ends
<1>3. CASE WorkerStep(w)
  <2>1. ASSUME NEW label, Goto(w, label)
        PROVE  label \in {"window", "put", "commit"}
    BY <2>1 DEF Goto, TypeOK, CycleTypeOK
  <2>2. ~Vanish({w})
    BY DEF Vanish
  <2>3. CASE UNCHANGED <<pc, scanVars>>
    BY <2>3 DEF scanVars
  <2>4. CASE Judge(w)
    <3>1. ~EndScan(w, "idle")
      BY <2>1 DEF EndScan
    <3>2. snap' = snap
      BY <2>4, <3>1 DEF Judge, scanVars
    <3>3. floor' = IF told[w] THEN floor ELSE Lowest(snap[w])
      BY <2>4, <3>1 DEF Judge
    <3>4. told[w] = TRUE \/ floor' = Lowest(snap[w])
      BY <3>3 DEF TypeOK, ScanTypeOK
    <3> QED
      BY <2>4, <3>2, <3>4
  <2>5. ~FreezeFloor(w) /\ ~RefuseRowids(w) /\ ~FinishScan(w) /\ ~CallFails(w)
    BY <2>1, <2>2 DEF FreezeFloor, RefuseRowids, FinishScan, CallFails, EndScan
  <2>6. CASE QueryWindow(w)
    <3>1. UNCHANGED <<mode, snap>> \/ EndScan(w, "idle")
      BY <2>6 DEF QueryWindow
    <3> QED
      BY <2>1, <2>6, <3>1 DEF QueryWindow, EndScan
  <2>7. CASE PutRow(w)
    <3>1. UNCHANGED <<mode, snap>>
      BY <2>2, <2>7 DEF PutRow
    <3> QED
      BY <2>7, <3>1 DEF PutRow
  <2>8. CASE Commit(w)
    BY <2>8 DEF Commit
  <2>9. ~SyncEnds(w) /\ ~Quit(w) /\ ~Begin(w) /\ ~FloorRefused(w)
        /\ ~BeginCatchup(w) /\ ~AskFloor(w) /\ ~AnswerMax(w)
    BY <2>1, <2>2 DEF SyncEnds, Quit, Begin, FloorRefused, BeginCatchup,
                      AskFloor, AnswerMax
  <2>10. ~LegacyCycle(w) /\ ~EndCycle(w)
    BY <2>1 DEF LegacyCycle, EndCycle
  <2>11. ~TailAudit(w) /\ ~ArchiveAudit(w)
    BY DEF TailAudit, ArchiveAudit, TypeOK, ScanTypeOK
  <2>12. /\ \A m \in Message, repair \in BOOLEAN : ~DateRead(w, m, repair)
         /\ \A r \in Row : ~RetryQuarantined(w, r)
    BY <2>1 DEF DateRead, RetryQuarantined
  <2> QED
    BY <1>3, <2>3, <2>4, <2>5, <2>6, <2>7, <2>8, <2>9, <2>10, <2>11, <2>12
    DEF WorkerStep, Step, Reprobe, OnCaughtUp
<1> QED
  BY <1>1, <1>2, <1>3, OthersKeep, EnvironmentKeeps DEF Next

LEMMA AimsAboveFloorStep ==
  ASSUME BaselineInv, StoreKept, MacKept, Next
  PROVE  AimsAboveFloor'
<1> USE DEF BaselineInv
<1>1. TypeOK /\ TypeOK'
  BY TypeStep DEF CursorInv
<1> SUFFICES ASSUME NEW w \in Worker, mode'[w] = "catchup",
                    pc'[w] \in {"window", "put", "commit"}
             PROVE  floor' <= snap'[w] \/ FloorIsRead'
  BY DEF AimsAboveFloor
<1>2. CASE mode[w] = "catchup" /\ pc[w] \in {"window", "put", "commit"}
           /\ snap'[w] = snap[w]
  <2>1. floor # Absent
    BY <1>2 DEF Frozen, NeedsFloor, Scanning
  <2>2. CASE FloorIsRead
    BY <2>1, <2>2, FloorReadKept
  <2>3. CASE floor <= snap[w]
    <3>1. floor' <= floor
      BY <1>1, <2>1, FloorFalls
    <3>2. floor \in Int /\ floor' \in Int /\ snap[w] \in Int
      BY <1>1 DEF TypeOK, StoreTypeOK, ScanTypeOK, Absent
    <3> QED
      BY <1>2, <2>3, <3>1, <3>2
  <2> QED
    BY <1>2, <2>2, <2>3 DEF AimsAboveFloor
<1>3. CASE told[w] = TRUE
  <2>1. FloorIsRead /\ floor # Absent
    BY <1>3 DEF Declares, Frozen, NeedsFloor
  <2> QED
    BY <2>1, FloorReadKept
<1>4. CASE floor' = Lowest(snap[w]) /\ snap'[w] = snap[w]
  BY <1>1, <1>4, LowestOf DEF TypeOK, ScanTypeOK
<1> QED
  BY <1>1, <1>2, <1>3, <1>4, WindowMoves

(***************************************************************************)
(* A worker comes to declare the baseline complete when it ends a catch-up *)
(* at its snapshot, or a compatibility cycle of a Mac that was empty.      *)
(***************************************************************************)
LEMMA DeclareMoves ==
  ASSUME TypeOK, Next, NEW w \in Worker, Declares(w)'
  PROVE  \/ Declares(w)
         \/ baseline = TRUE
         \/ pc[w] = "window" /\ mode[w] = "catchup" /\ cur[w] >= snap[w]
         \/ pc[w] = "legacy"
<1>1. CASE Keeps(w) \/ Begins(w) \/ Ends(w)
  BY <1>1 DEF Keeps, Begins, Ends, Declares
<1>2. CASE WorkerStep(w)
  <2>0. told'[w] = TRUE => told[w] = TRUE \/ armed[w] = TRUE
    BY <1>2, ToldMoves
  <2>1. CASE UNCHANGED <<armed, heard, whole>>
    BY <2>0, <2>1 DEF Declares
  <2>2. ~Vanish({w})
    BY DEF Vanish, Declares
  <2>3. CASE OnCaughtUp(w)
    BY <2>0, <2>3 DEF OnCaughtUp, Declares
  <2>4. CASE FinishScan(w)
    <3>1. CASE UNCHANGED whole
      BY <2>1, <2>4, <3>1 DEF FinishScan
    <3>2. CASE /\ mode[w] = "catchup"
               /\ whole' = [whole EXCEPT ![w] = cur[w] >= snap[w]]
      BY <2>0, <2>4, <3>2 DEF FinishScan, Declares, TypeOK, CycleTypeOK
    <3> QED
      BY <2>4, <3>1, <3>2 DEF FinishScan
  <2>5. CASE LegacyCycle(w)
    BY <2>0, <2>5 DEF LegacyCycle
  <2>6. CASE EndCycle(w)
    BY <2>0, <2>6 DEF EndCycle, Declares, TypeOK, CycleTypeOK
  <2>7. CASE CallFails(w)
    BY <2>0, <2>2, <2>7 DEF CallFails, Declares, TypeOK, CycleTypeOK
  <2> QED
    BY <1>2, <2>1, <2>2, <2>3, <2>4, <2>5, <2>6, <2>7
    DEF WorkerStep, Step, Begin, AskFloor, FloorRefused, FreezeFloor,
        SyncEnds, BeginCatchup, AnswerMax, RefuseRowids, Judge, QueryWindow,
        PutRow, Commit, Quit, Reprobe, TailAudit, ArchiveAudit, DateRead,
        RetryQuarantined, cycleVars
<1> QED
  BY <1>1, <1>2, OthersKeep, EnvironmentKeeps DEF Next

LEMMA DeclaresStep ==
  ASSUME BaselineInv, StoreKept, MacKept, Next, NEW w \in Worker, Declares(w)'
  PROVE  FloorIsRead'
<1> USE DEF BaselineInv
<1>1. TypeOK
  BY DEF CursorInv
<1>2. floor \in Int /\ cur[w] \in 0..MaxRow /\ snap[w] \in 0..MaxRow
  BY <1>1 DEF TypeOK, StoreTypeOK, ScanTypeOK, Absent
<1>3. CASE Declares(w) \/ baseline = TRUE
  <2>1. FloorIsRead /\ floor # Absent
    BY <1>3 DEF Frozen, NeedsFloor, Declares
  <2> QED
    BY <2>1, FloorReadKept
<1>4. CASE pc[w] = "window" /\ mode[w] = "catchup" /\ cur[w] >= snap[w]
  <2>1. floor # Absent
    BY <1>4 DEF Frozen, NeedsFloor, Scanning
  <2>2. CASE floor <= snap[w]
    <3>1. \A r \in 1..cur[w] : Covered(r)
      BY <1>4 DEF CursorInv, ScanCovers
    <3>2. \A r \in Row : r <= floor => r \in 1..cur[w]
      BY <1>2, <1>4, <2>2 DEF Row
    <3> QED
      BY <2>1, <3>1, <3>2, FloorReadKept DEF FloorIsRead
  <2> QED
    BY <1>4, <2>1, <2>2, FloorReadKept DEF AimsAboveFloor
<1>5. CASE pc[w] = "legacy"
  <2>1. floor = 0
    BY <1>5 DEF OldIsEmpty
  <2>2. FloorIsRead
    BY <2>1 DEF FloorIsRead, Row
  <2> QED
    BY <2>1, <2>2, FloorReadKept DEF Absent
<1> QED
  BY <1>1, <1>3, <1>4, <1>5, DeclareMoves

LEMMA BaselineInvStep ==
  ASSUME BaselineInv, [Next]_vars,
         "restore" \notin Hazards, "refuse" \notin Hazards
  PROVE  BaselineInv'
<1>1. CursorInv'
  BY CursorInvStep DEF BaselineInv
<1>2. CASE Next
  <2>1. TypeOK /\ OneLife
    BY DEF BaselineInv, CursorInv
  <2>2. StoreKept /\ MacKept
    BY <1>2, <2>1, StepKeeps
  <2>3. Frozen' /\ FloorBelowSeq' /\ OldIsEmpty' /\ AimsAboveFloor'
    BY <1>2, <2>1, <2>2, FrozenStep, FloorBelowSeqStep, OldIsEmptyStep,
       AimsAboveFloorStep DEF BaselineInv
  <2>4. \A w \in Worker : Declares(w)' => FloorIsRead'
    BY <1>2, <2>2, DeclaresStep
  <2>5. baseline' = TRUE => FloorIsRead'
    <3>1. CASE baseline = TRUE
      BY <1>2, <2>2, <3>1, FloorReadKept DEF BaselineInv, Frozen
    <3>2. ASSUME NEW w \in Worker, OnCaughtUp(w)
          PROVE  FloorIsRead'
      <4>1. heard[w] = "queued"
        BY <3>2 DEF OnCaughtUp
      <4> QED
        BY <1>2, <2>2, <4>1, FloorReadKept
        DEF BaselineInv, Declares, Frozen, NeedsFloor
    <3> QED
      BY <1>2, <2>1, <3>1, <3>2, BaselineMoves
  <2> QED
    BY <1>1, <2>3, <2>4, <2>5 DEF BaselineInv
<1>3. CASE UNCHANGED vars
  <2>1. FloorIsRead <=> FloorIsRead'
    BY <1>3 DEF vars, FloorIsRead, Covered
  <2> QED
    BY <1>1, <1>3, <2>1
    DEF vars, BaselineInv, Frozen, NeedsFloor, Scanning, FloorBelowSeq,
        OldIsEmpty, AimsAboveFloor, Declares
<1> QED
  BY <1>2, <1>3

LEMMA BaselineInvInit ==
  ASSUME Init
  PROVE  BaselineInv
<1>1. FloorBelowSeq
  <2>1. floor = -1 /\ seq \in Nat
    BY CatchupAssumption DEF Init, StoreInit, Absent
  <2> QED
    BY <2>1 DEF FloorBelowSeq
<1>2. OldIsEmpty /\ AimsAboveFloor
  BY DEF Init, StoreInit, OldIsEmpty, AimsAboveFloor
<1>3. /\ baseline # TRUE
      /\ \A w \in Worker : ~Declares(w)
  BY DEF Init, StoreInit, Declares
<1> QED
  BY <1>1, <1>2, <1>3, CursorInvInit, FrozenInit DEF BaselineInv

(***************************************************************************)
(* When the baseline is declared complete every row under the floor has    *)
(* been stored, put in quarantine, or left out by both passes of a window, *)
(* with any number of overlapping workers, deletions, low answers, kills   *)
(* and failing calls: as long as the Mac is not restored and does not      *)
(* refuse ROWID queries it has answered before.                            *)
(***************************************************************************)
THEOREM BaselineIsHonest ==
  ASSUME "restore" \notin Hazards, "refuse" \notin Hazards
  PROVE  Spec => []BaselineIsComplete
<1>1. Init => BaselineInv
  BY BaselineInvInit
<1>2. BaselineInv /\ [Next]_vars => BaselineInv'
  BY BaselineInvStep
<1>3. BaselineInv => BaselineIsComplete
  <2>1. ASSUME BaselineInv, baseline
        PROVE  floor # Absent /\ \A r \in 1..floor : Covered(r)
    <3>1. baseline = TRUE /\ floor \in Absent..MaxRow
      BY <2>1 DEF BaselineInv, CursorInv, TypeOK, StoreTypeOK
    <3>2. \A r \in 1..floor : r \in Row /\ r <= floor
      BY <3>1, StoreAssumption DEF Row, Absent
    <3> QED
      BY <2>1, <3>1, <3>2 DEF BaselineInv, Frozen, FloorIsRead
  <2> QED
    BY <2>1 DEF BaselineIsComplete
<1> QED
  BY <1>1, <1>2, <1>3, PTL DEF Spec
=============================================================================
