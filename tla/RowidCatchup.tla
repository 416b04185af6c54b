----------------------------- MODULE RowidCatchup -----------------------------
(***************************************************************************)
(* How a message reaches the local database: ReconcileThread and           *)
(* SyncThread (src/app/store/sync.py) with the scans they run              *)
(* (src/app/store/reconcile_core.py), the pushed messages the agent        *)
(* handles itself (src/app/agent/core.py), and the Mac they all read.      *)
(*                                                                         *)
(* A generation of the backend has one reconciler and one syncer.  A       *)
(* retired generation keeps running until it next looks at its stop flag,  *)
(* so workers of two generations write the same cursor and the same floor. *)
(* Each step of a worker ends where it can be overtaken: after an HTTP     *)
(* answer and after every transaction.                                     *)
(***************************************************************************)
EXTENDS SyncStore

CONSTANTS
  Reconciler,   \* reconcilers a process may start
  Syncer,       \* initial-sync threads
  Window,       \* ROWID_WINDOW: width of a numeric range
  MaxWindows,   \* windows of one catch-up call
  TailSpan,     \* ROWID_TAIL_SPAN: newest rows that the tail audit reads
  InitialTop,   \* ROWIDs the Mac has handed out before the first start
  Servers,      \* what the BlueBubbles server may be at first
  Hazards,      \* kinds of bad luck this instance admits
  MaxFaults     \* how often bad luck may strike

ASSUME CatchupAssumption ==
  /\ Window \in Nat \ {0} /\ MaxWindows \in Nat \ {0} /\ TailSpan \in Nat \ {0}
  /\ InitialTop \in 0..MaxRow
  /\ Servers \subseteq {"rowid", "old"}
  /\ Hazards \subseteq
       {"omit", "sparse", "low_max", "refuse", "delete", "restore", "late_update"}
  /\ MaxFaults \in Nat
  /\ Reconciler \cap Syncer = {}

Worker == Reconciler \cup Syncer

VARIABLES
  mac,          \* mac[r]: life of the message the Mac has at r, or 0
  seq,          \* highest ROWID the Mac's database has handed out
  gen,          \* its current life
  sparse,       \* messages it still serialises without chat or date
  server,       \* "old": BlueBubbles without ROWID queries
  arrived,      \* messages that came after the first start (history)
  skipped,      \* messages some accepted window left out (history)
  faults,       \* bad luck so far
  current,      \* workers of the live generation
  pc, stopping, \* position of a worker; its _stop flag
  armed,        \* its notify_new
  support,      \* its _rowid_supported is not False
  heard,        \* _caught_up_emitted, and whether the signal is queued
  whole,        \* summary.cursor >= summary.snapshot
  told,         \* notify_new of the scan it is in, read when it was called
  mode, cur, snap, windows,     \* locals of that scan
  page          \* rows of the window still to be stored, with a flag
                \* that tells whether the payload was complete

macVars == <<mac, seq, gen, sparse, server, arrived>>
cycleVars == <<stopping, armed, support, heard, whole>>
scanVars == <<told, mode, cur, snap, windows, page>>
vars == <<stored, event, failed, cursor, archive, floor, emptySeen, lower,
          baseline, mac, seq, gen, sparse, server, arrived, skipped, faults,
          current, pc, stopping, armed, support, heard, whole, told, mode, cur,
          snap, windows, page>>

PC == {"off", "idle", "floor", "freeze", "dates", "paged", "max", "judge",
       "legacy", "window", "put", "commit", "tail", "archive", "repair"}

MacTypeOK ==
  /\ mac \in [Row -> 0..MaxGen]
  /\ seq \in 0..MaxRow
  /\ gen \in 1..MaxGen
  /\ sparse \in SUBSET Message
  /\ server \in {"rowid", "old"}
  /\ arrived \in SUBSET Message

CycleTypeOK ==
  /\ pc \in [Worker -> PC]
  /\ stopping \in [Worker -> BOOLEAN]
  /\ armed \in [Worker -> BOOLEAN]
  /\ support \in [Worker -> BOOLEAN]
  /\ heard \in [Worker -> {"no", "queued", "done"}]
  /\ whole \in [Worker -> BOOLEAN]

\* A row of a page, and whether its payload was complete.
Reading == Row \X (1..MaxGen) \X BOOLEAN

ScanTypeOK ==
  /\ told \in [Worker -> BOOLEAN]
  /\ mode \in [Worker -> {"catchup", "tail", "archive"}]
  /\ cur \in [Worker -> 0..MaxRow]
  /\ snap \in [Worker -> 0..MaxRow]
  /\ windows \in [Worker -> Nat]
  /\ page \in [Worker -> SUBSET Reading]

TypeOK ==
  /\ StoreTypeOK
  /\ MacTypeOK
  /\ CycleTypeOK
  /\ ScanTypeOK
  /\ skipped \in SUBSET Message
  /\ faults \in 0..MaxFaults
  /\ current \in SUBSET Worker

Present == {m \in Message : mac[m[1]] = m[2]}
Readable == Present \ sparse

Init ==
  /\ StoreInit
  /\ seq = InitialTop
  /\ mac \in {f \in [Row -> {0, 1}] : \A r \in Row : r > seq => f[r] = 0}
  /\ gen = 1
  /\ sparse \in IF "sparse" \in Hazards THEN SUBSET Present ELSE {{}}
  /\ server \in Servers
  /\ arrived = {}
  /\ skipped = {}
  /\ faults = 0
  /\ current = {}
  /\ pc = [w \in Worker |-> "off"]
  /\ stopping = [w \in Worker |-> FALSE]
  /\ armed = [w \in Worker |-> FALSE]
  /\ support = [w \in Worker |-> TRUE]
  /\ heard = [w \in Worker |-> "no"]
  /\ whole = [w \in Worker |-> FALSE]
  /\ told = [w \in Worker |-> FALSE]
  /\ mode = [w \in Worker |-> "catchup"]
  /\ cur = [w \in Worker |-> 0]
  /\ snap = [w \in Worker |-> 0]
  /\ windows = [w \in Worker |-> 0]
  /\ page = [w \in Worker |-> {}]

Goto(w, label) == pc' = [pc EXCEPT ![w] = label]

\* A scan returns or raises: its locals are gone.
EndScan(w, label) ==
  /\ Goto(w, label)
  /\ told' = [told EXCEPT ![w] = FALSE]
  /\ mode' = [mode EXCEPT ![w] = "catchup"]
  /\ cur' = [cur EXCEPT ![w] = 0]
  /\ snap' = [snap EXCEPT ![w] = 0]
  /\ windows' = [windows EXCEPT ![w] = 0]
  /\ page' = [page EXCEPT ![w] = {}]

\* The threads in W end, and all that they held in memory with them.
Vanish(W) ==
  LET Reset(f, v) == [w \in Worker |-> IF w \in W THEN v ELSE f[w]]
  IN  /\ pc' = Reset(pc, "off")
      /\ stopping' = Reset(stopping, FALSE)
      /\ armed' = Reset(armed, FALSE)
      /\ support' = Reset(support, TRUE)
      /\ heard' = Reset(heard, "no")
      /\ whole' = Reset(whole, FALSE)
      /\ told' = Reset(told, FALSE)
      /\ mode' = Reset(mode, "catchup")
      /\ cur' = Reset(cur, 0)
      /\ snap' = Reset(snap, 0)
      /\ windows' = Reset(windows, 0)
      /\ page' = Reset(page, {})

Strike == faults < MaxFaults /\ faults' = faults + 1

----------------------------------------------------------------------------
(* The Mac.  ROWIDs are handed out in order and never twice in one life.   *)

Arrive ==
  /\ seq < MaxRow
  /\ seq' = seq + 1
  /\ mac' = [mac EXCEPT ![seq + 1] = gen]
  /\ arrived' = arrived \cup {<<seq + 1, gen>>}
  /\ \/ UNCHANGED sparse
     \/ "sparse" \in Hazards /\ sparse' = sparse \cup {<<seq + 1, gen>>}
  /\ UNCHANGED <<gen, server, skipped, faults, messageVars, metaVars, current,
                 pc, cycleVars, scanVars>>

\* Its chat and date have reached the Mac's database.
BecomesComplete(m) ==
  /\ m \in sparse
  /\ sparse' = sparse \ {m}
  /\ UNCHANGED <<mac, seq, gen, server, arrived, skipped, faults, messageVars,
                 metaVars, current, pc, cycleVars, scanVars>>

DeleteOnMac(r) ==
  /\ "delete" \in Hazards
  /\ mac[r] # 0
  /\ Strike
  /\ mac' = [mac EXCEPT ![r] = 0]
  /\ UNCHANGED <<seq, gen, sparse, server, arrived, skipped, messageVars,
                 metaVars, current, pc, cycleVars, scanVars>>

\* The Mac's database is replaced by an older copy of itself.
RestoreMac(k) ==
  /\ "restore" \in Hazards
  /\ gen < MaxGen
  /\ k < seq
  /\ Strike
  /\ gen' = gen + 1
  /\ seq' = k
  /\ mac' = [r \in Row |-> IF r <= k THEN mac[r] ELSE 0]
  /\ UNCHANGED <<sparse, server, arrived, skipped, messageVars, metaVars,
                 current, pc, cycleVars, scanVars>>

UpgradeServer ==
  /\ server = "old"
  /\ server' = "rowid"
  /\ UNCHANGED <<mac, seq, gen, sparse, arrived, skipped, faults, messageVars,
                 metaVars, current, pc, cycleVars, scanVars>>

\* The highest ROWID the Mac has, 0 when it has no message.
IsTop(a) ==
  /\ \A r \in Row : mac[r] # 0 => r <= a
  /\ a = 0 \/ (a \in Row /\ mac[a] # 0)

\* What max_message_rowid may answer: Messages that is relaunching may
\* report a lower maximum, or none.  A server without ROWIDs is only found
\* out by a message it returns.
MaxMessageRowid(a) ==
  /\ server = "rowid" \/ Present = {}
  /\ \/ IsTop(a) /\ UNCHANGED faults
     \/ /\ "low_max" \in Hazards
        /\ \E r \in Row : mac[r] # 0 /\ a < r
        /\ Strike

RowidOf(m) == IF server = "rowid" THEN m[1] ELSE 0

----------------------------------------------------------------------------
(* The agent: generations, pushes, the caught_up signal.                   *)

\* One reconciler and one syncer; an instance without syncers leaves the
\* second out, whose steps are a subset of the first's.
Generations ==
  IF Syncer = {} THEN {{r} : r \in Reconciler}
  ELSE {{r, s} : r \in Reconciler, s \in Syncer}

StartBackend(started) ==
  /\ current = {}
  /\ \A w \in started : pc[w] = "off"
  /\ current' = started
  /\ pc' = [w \in Worker |-> IF w \in started THEN "idle" ELSE pc[w]]
  /\ armed' = [w \in Worker |-> IF w \in started THEN baseline ELSE armed[w]]
  /\ UNCHANGED <<macVars, skipped, faults, messageVars, metaVars, stopping,
                 support, heard, whole, scanVars>>

\* Nothing is joined for longer than 250 ms: the workers go on.
StopBackend ==
  /\ current # {}
  /\ Strike
  /\ current' = {}
  /\ stopping' = [w \in Worker |-> w \in current \/ stopping[w]]
  /\ UNCHANGED <<macVars, skipped, messageVars, metaVars, pc, armed, support,
                 heard, whole, scanVars>>

AgentDies ==
  /\ \E w \in Worker : pc[w] # "off"
  /\ Strike
  /\ current' = {}
  /\ Vanish(Worker)
  /\ UNCHANGED <<macVars, skipped, messageVars, metaVars>>

\* _handle_incoming: a push may come late, twice or never.  One without its
\* context only pokes the reconciler.
HandleIncoming(m) ==
  /\ current # {}
  /\ m \in Readable \cap arrived
  /\ UpsertAll({m}, {m}, TRUE)
  /\ UNCHANGED <<macVars, skipped, faults, failed, metaVars, current, pc,
                 cycleVars, scanVars>>

\* _handle_update: an edit or a receipt; it never adds an event to a row
\* that exists.
HandleUpdate(m) ==
  /\ current # {}
  /\ m \in Readable
  /\ m \in arrived \/ "late_update" \in Hazards
  /\ UpsertAll({m}, {m}, FALSE)
  /\ UNCHANGED <<macVars, skipped, faults, failed, metaVars, current, pc,
                 cycleVars, scanVars>>

OnCaughtUp(w) ==
  /\ w \in current
  /\ heard[w] = "queued"
  /\ heard' = [heard EXCEPT ![w] = "done"]
  /\ baseline' = TRUE
  /\ armed' = [armed EXCEPT ![w] = TRUE]
  /\ UNCHANGED <<macVars, skipped, faults, messageVars, cursor, archive, floor,
                 emptySeen, lower, current, pc, stopping, support, whole,
                 scanVars>>

----------------------------------------------------------------------------
(* The notification floor, and the pages that are read by date.            *)

\* Top of a cycle, and of SyncThread._full: nothing is read before the
\* floor is frozen.
Begin(w) ==
  /\ pc[w] = "idle"
  /\ ~stopping[w]
  /\ Goto(w, IF armed[w] \/ floor # Absent THEN "dates" ELSE "floor")
  /\ UNCHANGED <<macVars, skipped, faults, messageVars, metaVars, current,
                 cycleVars, scanVars>>

\* Every twentieth cycle ROWID queries get another chance.
Reprobe(w) ==
  /\ pc[w] = "idle"
  /\ ~support[w]
  /\ support' = [support EXCEPT ![w] = TRUE]
  /\ UNCHANGED <<macVars, skipped, faults, messageVars, metaVars, current, pc,
                 stopping, armed, heard, whole, scanVars>>

AskFloor(w) ==
  /\ pc[w] = "floor"
  /\ \E a \in 0..MaxRow :
       /\ MaxMessageRowid(a)
       /\ snap' = [snap EXCEPT ![w] = a]
  /\ Goto(w, "freeze")
  /\ UNCHANGED <<macVars, skipped, messageVars, metaVars, current, cycleVars,
                 told, mode, cur, windows, page>>

FloorRefused(w) ==
  /\ pc[w] = "floor"
  /\ server = "old"
  /\ Goto(w, "idle")
  /\ UNCHANGED <<macVars, skipped, faults, messageVars, metaVars, current,
                 cycleVars, scanVars>>

\* ensure_notification_floor, after the answer.  An empty Mac must look
\* empty twice, EMPTY_BASELINE_STABLE_MS apart.
FreezeFloor(w) ==
  /\ pc[w] = "freeze"
  /\ IF snap[w] = 0 /\ stored = {} /\ emptySeen # "ripe"
     THEN /\ emptySeen' = "young"
          /\ EndScan(w, "idle")
          /\ UNCHANGED floor
     ELSE /\ emptySeen' = IF snap[w] = 0 /\ stored = {} THEN emptySeen
                          ELSE "unset"
          /\ floor' = Lowest(snap[w])
          /\ EndScan(w, "dates")
  /\ UNCHANGED <<macVars, skipped, faults, messageVars, cursor, archive, lower,
                 baseline, current, cycleVars>>

EmptyMacIsStable ==
  /\ emptySeen = "young"
  /\ emptySeen' = "ripe"
  /\ UNCHANGED <<macVars, skipped, faults, messageVars, cursor, archive, floor,
                 lower, baseline, current, pc, cycleVars, scanVars>>

\* One row of a page ordered by date: head and chat scans, the audits of
\* edits, gap fill, backfill.  Which rows such a page holds depends on their
\* dates, so it may be any.  Gap fill and backfill do not repair events.
DateRead(w, m, repair) ==
  /\ pc[w] = "dates"
  /\ m \in Readable
  /\ repair \/ w \in Syncer
  /\ LET eligible == NotificationEligible(RowidOf(m), armed[w])
     IN  UpsertAll({m}, IF eligible THEN {m} ELSE {},
                   repair /\ RepairsEvent(RowidOf(m), armed[w]))
  /\ Goto(w, IF stopping[w] THEN "paged" ELSE "dates")
  /\ UNCHANGED <<macVars, skipped, faults, failed, metaVars, current,
                 cycleVars, scanVars>>

SyncEnds(w) ==
  /\ w \in Syncer
  /\ pc[w] \in {"dates", "paged"}
  /\ Vanish({w})
  /\ UNCHANGED <<macVars, skipped, faults, messageVars, metaVars, current>>

----------------------------------------------------------------------------
(* scan_rowid_catchup.                                                     *)

\* The cursor is read before the maximum is asked for.
BeginCatchup(w) ==
  /\ w \in Reconciler
  /\ pc[w] \in {"dates", "paged"}
  /\ IF support[w]
     THEN /\ Goto(w, "max")
          /\ cur' = [cur EXCEPT ![w] = cursor]
          /\ told' = [told EXCEPT ![w] = armed[w]]
     ELSE Goto(w, "legacy") /\ UNCHANGED <<cur, told>>
  /\ UNCHANGED <<macVars, skipped, faults, messageVars, metaVars, current,
                 cycleVars, mode, snap, windows, page>>

AnswerMax(w) ==
  /\ pc[w] = "max"
  /\ \E a \in 0..MaxRow :
       /\ MaxMessageRowid(a)
       /\ snap' = [snap EXCEPT ![w] = a]
  /\ Goto(w, "judge")
  /\ UNCHANGED <<macVars, skipped, messageVars, metaVars, current, cycleVars,
                 told, mode, cur, windows, page>>

\* A maximum below the cursor is believed when three cycles in a row report
\* the same one; any other maximum forgets the count.
Judge(w) ==
  /\ pc[w] = "judge"
  /\ LET sightings == IF lower.candidate = snap[w] THEN lower.count + 1 ELSE 1
         proposed == IF told[w] THEN floor ELSE Lowest(snap[w])
     IN  \/ /\ snap[w] < cur[w] /\ sightings < 3
            /\ lower' = [candidate |-> snap[w], count |-> sightings]
            /\ EndScan(w, "idle")
            /\ UNCHANGED <<cursor, floor>>
         \/ /\ snap[w] < cur[w] /\ sightings >= 3
            /\ lower' = [candidate |-> snap[w], count |-> 0]
            /\ cursor' = 0
            /\ cur' = [cur EXCEPT ![w] = 0]
            /\ floor' = proposed
            /\ Goto(w, "window")
            /\ UNCHANGED <<told, mode, snap, windows, page>>
         \/ /\ snap[w] >= cur[w]
            /\ lower' = [lower EXCEPT !.count = 0]
            /\ floor' = proposed
            /\ Goto(w, "window")
            /\ UNCHANGED <<cursor, scanVars>>
  /\ UNCHANGED <<macVars, skipped, faults, messageVars, archive, emptySeen,
                 baseline, current, cycleVars>>

High(w) == IF snap[w] < cur[w] + Window THEN snap[w] ELSE cur[w] + Window

\* Mutant: the upper bound of the range is exclusive.
OpenWindow(w) == {m \in Present : cur[w] < m[1] /\ m[1] < High(w)}

InWindow(w) == {m \in Present : cur[w] < m[1] /\ m[1] <= High(w)}

\* A catch-up call reads MaxWindows windows at most, the archive audit one.
MoreToRead(w) ==
  /\ cur[w] < snap[w]
  /\ mode[w] = "catchup" => windows[w] < MaxWindows
  /\ mode[w] = "archive" => windows[w] = 0

\* 400, 404, 422 or bounds that were not honoured, of the maximum or of a
\* window of the catch-up: compatibility cycles.
RefuseRowids(w) ==
  /\ \/ pc[w] = "max"
     \/ pc[w] = "window" /\ mode[w] = "catchup" /\ MoreToRead(w) /\ ~stopping[w]
  /\ \/ server = "old" /\ UNCHANGED faults
     \/ "refuse" \in Hazards /\ Strike
  /\ support' = [support EXCEPT ![w] = FALSE]
  /\ EndScan(w, "legacy")
  /\ UNCHANGED <<macVars, skipped, messageVars, metaVars, current, stopping,
                 armed, heard, whole>>

\* _query_rowid_window: what the union of both passes left out is missed.
\* The row that the snapshot was frozen at may not be.
QueryWindow(w) ==
  /\ pc[w] = "window"
  /\ ~stopping[w]
  /\ MoreToRead(w)
  /\ \E missed \in SUBSET InWindow(w) :
       /\ \/ missed = {} /\ UNCHANGED faults
          \/ missed # {} /\ "omit" \in Hazards /\ Strike
       /\ LET found == InWindow(w) \ missed
          IN  IF /\ mode[w] = "catchup" /\ High(w) = snap[w]
                 /\ \A m \in found : m[1] # snap[w]
              THEN EndScan(w, "idle") /\ UNCHANGED skipped
              ELSE /\ skipped' = skipped \cup missed
                   /\ page' = [page EXCEPT ![w] =
                                 {<<m[1], m[2], m \notin sparse>> : m \in found}]
                   /\ Goto(w, IF found = {} THEN "commit" ELSE "put")
                   /\ UNCHANGED <<told, mode, cur, snap, windows>>
  /\ UNCHANGED <<macVars, messageVars, metaVars, current, cycleVars>>

\* Rows are stored in ROWID order; one without context is quarantined.
PutRow(w) ==
  /\ pc[w] = "put"
  /\ \E p \in page[w] :
       /\ \A q \in page[w] : p[1] <= q[1]
       /\ LET m == <<p[1], p[2]>>
              news == IF NotificationEligible(p[1], told[w]) THEN {m} ELSE {}
          IN  IF p[3]
              THEN /\ UpsertAll({m}, news, RepairsEvent(p[1], told[w]))
                   /\ ClearSyncFailure(p[1])
              ELSE RecordSyncFailure(m) /\ UNCHANGED <<stored, event>>
       /\ \/ stopping[w] /\ Vanish({w})
          \/ /\ ~stopping[w]
             /\ page' = [page EXCEPT ![w] = @ \ {p}]
             /\ Goto(w, IF page[w] = {p} THEN "commit" ELSE "put")
             /\ UNCHANGED <<cycleVars, told, mode, cur, snap, windows>>
  /\ UNCHANGED <<macVars, skipped, faults, metaVars, current>>

\* The end of a window: catch-up and archive audit persist where they are.
Commit(w) ==
  /\ pc[w] = "commit"
  /\ \/ /\ mode[w] = "catchup"
        /\ cursor' = High(w)
        /\ windows' = [windows EXCEPT ![w] = @ + 1]
        /\ UNCHANGED archive
     \/ mode[w] = "tail" /\ UNCHANGED <<cursor, windows, archive>>
     \/ /\ mode[w] = "archive"
        /\ archive' = High(w)
        /\ windows' = [windows EXCEPT ![w] = 1]
        /\ UNCHANGED cursor
  /\ cur' = [cur EXCEPT ![w] = High(w)]
  /\ Goto(w, "window")
  /\ UNCHANGED <<macVars, skipped, faults, messageVars, floor, emptySeen,
                 lower, baseline, current, cycleVars, told, mode, snap,
                 page>>

FinishScan(w) ==
  /\ pc[w] = "window"
  /\ ~MoreToRead(w)
  /\ \/ /\ mode[w] = "catchup"
        /\ whole' = [whole EXCEPT ![w] = cur[w] >= snap[w]]
        /\ EndScan(w, "tail")
     \/ mode[w] = "tail" /\ EndScan(w, "archive") /\ UNCHANGED whole
     \/ mode[w] = "archive" /\ EndScan(w, "repair") /\ UNCHANGED whole
  /\ UNCHANGED <<macVars, skipped, faults, messageVars, metaVars, current,
                 stopping, armed, support, heard>>

\* _legacy_cycle: an empty cache takes the whole newest page, otherwise the
\* rows after a date, which may be any; only that scan repairs events.
LegacyCycle(w) ==
  /\ pc[w] = "legacy"
  /\ \E S \in SUBSET Readable :
       /\ stored = {} => S = Readable
       /\ UpsertAll(S, {m \in S : NotificationEligible(RowidOf(m), armed[w])},
                    stored # {} /\ server = "rowid" /\ floor # Absent)
  /\ whole' = [whole EXCEPT ![w] = TRUE]
  /\ Goto(w, "repair")
  /\ UNCHANGED <<macVars, skipped, faults, failed, metaVars, current, stopping,
                 armed, support, heard, scanVars>>

----------------------------------------------------------------------------
(* The audits at the end of a cycle.  Each runs when its timer is due, so  *)
(* an earlier one may be passed over.                                      *)

TailAudit(w) ==
  /\ pc[w] = "tail"
  /\ told' = [told EXCEPT ![w] = armed[w]]
  /\ mode' = [mode EXCEPT ![w] = "tail"]
  /\ \E a \in 0..MaxRow :
       /\ MaxMessageRowid(a)
       /\ snap' = [snap EXCEPT ![w] = a]
       /\ cur' = [cur EXCEPT ![w] = IF a > TailSpan THEN a - TailSpan ELSE 0]
  /\ Goto(w, "window")
  /\ UNCHANGED <<macVars, skipped, messageVars, metaVars, current, cycleVars,
                 windows, page>>

\* Mutant: the rolling window stops at the end instead of starting again.
ArchiveAuditOnce(w) ==
  /\ pc[w] \in {"tail", "archive"}
  /\ whole[w]
  /\ told' = [told EXCEPT ![w] = armed[w]]
  /\ mode' = [mode EXCEPT ![w] = "archive"]
  /\ \E a \in 1..MaxRow :
       /\ MaxMessageRowid(a)
       /\ snap' = [snap EXCEPT ![w] = a]
       /\ archive < a
       /\ cur' = [cur EXCEPT ![w] = archive]
  /\ Goto(w, "window")
  /\ UNCHANGED <<macVars, skipped, messageVars, metaVars, current, cycleVars,
                 windows, page>>

\* Only when the catch-up had reached its snapshot; it wraps around.
ArchiveAudit(w) ==
  /\ pc[w] \in {"tail", "archive"}
  /\ whole[w]
  /\ told' = [told EXCEPT ![w] = armed[w]]
  /\ mode' = [mode EXCEPT ![w] = "archive"]
  /\ \E a \in 0..MaxRow :
       /\ MaxMessageRowid(a)
       /\ snap' = [snap EXCEPT ![w] = a]
       /\ cur' = [cur EXCEPT ![w] = IF archive >= a THEN 0 ELSE archive]
  /\ Goto(w, "window")
  /\ UNCHANGED <<macVars, skipped, messageVars, metaVars, current, cycleVars,
                 windows, page>>

\* One row of retry_quarantined: it is asked for by guid.
RetryQuarantined(w, r) ==
  /\ pc[w] \in {"tail", "archive", "repair"}
  /\ support[w]
  /\ ~stopping[w]
  /\ failed[r] # 0
  /\ LET m == <<r, failed[r]>>
     IN  /\ m \in Readable
         /\ UpsertAll({m}, IF NotificationEligible(r, armed[w]) THEN {m} ELSE {},
                      RepairsEvent(r, armed[w]))
         /\ ClearSyncFailure(r)
  /\ Goto(w, "repair")
  /\ UNCHANGED <<macVars, skipped, faults, metaVars, current, cycleVars,
                 scanVars>>

\* Mutant: caught_up is emitted after any cycle, whole or partial.
EndAnyCycle(w) ==
  /\ pc[w] \in {"tail", "archive", "repair"}
  /\ heard' = [heard EXCEPT ![w] = IF @ = "no" THEN "queued" ELSE @]
  /\ whole' = [whole EXCEPT ![w] = FALSE]
  /\ Goto(w, "idle")
  /\ UNCHANGED <<macVars, skipped, faults, messageVars, metaVars, current,
                 stopping, armed, support, scanVars>>

\* The end of a cycle: summary decides whether caught_up is emitted.
EndCycle(w) ==
  /\ pc[w] \in {"tail", "archive", "repair"}
  /\ heard' = [heard EXCEPT ![w] = IF whole[w] /\ @ = "no" THEN "queued" ELSE @]
  /\ whole' = [whole EXCEPT ![w] = FALSE]
  /\ Goto(w, "idle")
  /\ UNCHANGED <<macVars, skipped, faults, messageVars, metaVars, current,
                 stopping, armed, support, scanVars>>

\* An HTTP call raises: the cycle is over.  A syncer may also give up.
CallFails(w) ==
  /\ pc[w] \in {"floor", "dates", "max", "legacy", "window", "tail", "archive",
                "repair"}
  /\ Strike
  /\ \/ /\ EndScan(w, "idle")
        /\ whole' = [whole EXCEPT ![w] = FALSE]
        /\ UNCHANGED <<stopping, armed, support, heard>>
     \/ w \in Syncer /\ Vanish({w})
  /\ UNCHANGED <<macVars, skipped, messageVars, metaVars, current>>

\* A retired worker looks at its flag.
Quit(w) ==
  /\ stopping[w]
  /\ pc[w] \in {"idle", "window", "put", "commit"}
  /\ Vanish({w})
  /\ UNCHANGED <<macVars, skipped, faults, messageVars, metaVars, current>>

----------------------------------------------------------------------------
Step(w) ==
  \/ Begin(w) \/ AskFloor(w) \/ FloorRefused(w) \/ FreezeFloor(w)
  \/ SyncEnds(w) \/ BeginCatchup(w) \/ AnswerMax(w) \/ RefuseRowids(w)
  \/ Judge(w) \/ QueryWindow(w) \/ PutRow(w) \/ Commit(w) \/ FinishScan(w)
  \/ LegacyCycle(w) \/ EndCycle(w) \/ Quit(w)

MacStep ==
  \/ Arrive
  \/ \E m \in Message : BecomesComplete(m)
  \/ \E r \in Row : DeleteOnMac(r)
  \/ \E k \in 0..MaxRow : RestoreMac(k)
  \/ UpgradeServer

AgentStep ==
  \/ \E started \in Generations : StartBackend(started)
  \/ StopBackend
  \/ AgentDies
  \/ EmptyMacIsStable
  \/ \E m \in Message : HandleIncoming(m) \/ HandleUpdate(m)

WorkerStep(w) ==
  \/ Step(w)
  \/ Reprobe(w)
  \/ OnCaughtUp(w)
  \/ TailAudit(w)
  \/ ArchiveAudit(w)
  \/ CallFails(w)
  \/ \E m \in Message, repair \in BOOLEAN : DateRead(w, m, repair)
  \/ \E r \in Row : RetryQuarantined(w, r)

Next == MacStep \/ AgentStep \/ \E w \in Worker : WorkerStep(w)

\* The event loop starts the backend and handles signals; workers run and
\* their calls are bounded; clocks move, so an audit whose timer decides is
\* due again and again.  Nothing makes a push arrive, a message complete or
\* the user upgrade the server.
Fairness ==
  /\ WF_vars(\E started \in Generations : StartBackend(started))
  /\ WF_vars(EmptyMacIsStable)
  /\ \A w \in Worker :
       /\ WF_vars(Step(w))
       /\ WF_vars(OnCaughtUp(w))
  /\ \A w \in Reconciler :
       /\ SF_vars(Reprobe(w))
       /\ SF_vars(TailAudit(w))
       /\ SF_vars(ArchiveAudit(w))

Spec == Init /\ [][Next]_vars
FairSpec == Spec /\ Fairness
----------------------------------------------------------------------------
Covered(r) ==
  mac[r] # 0 => \/ <<r, mac[r]>> \in stored \cup skipped
                \/ failed[r] = mac[r]

\* Every message at or below the durable cursor is in the database or in
\* quarantine, unless both passes of some window left it out: a kill, a
\* rebuild, a second reconciler or a failing call between the reading of a
\* window and the commit never moves the cursor past an unread row.
CursorCovers == \A r \in 1..cursor : Covered(r)

\* A message the Mac had before the app was first started never gets a
\* delivery event (SETUP.md:47), whatever pushes, scans of two generations
\* and the settling of the floor do meanwhile.
HistoryStaysQuiet == event \subseteq arrived

\* When the baseline is declared complete, a floor is frozen and everything
\* under it has been read: later scans may trust "armed" without asking
\* which rows were history.  (Not so after a compatibility cycle, which
\* reports itself whole: hazard "refuse".)
BaselineIsComplete ==
  baseline => floor # Absent /\ \A r \in 1..floor : Covered(r)

\* No hole is permanent: a message that the Mac has and can serialise is
\* stored in the end, whatever was omitted, quarantined, restored or lost
\* with a worker before.
NoPermanentHole ==
  \A m \in Message :
    (server = "rowid" /\ m \in Readable)
      ~> (m \in stored \/ m \notin Present)

\* A stored message above the floor has its delivery event in the end, also
\* when it was first stored as history under a floor that was higher then.
FloorIsHonoured ==
  \A m \in Message :
    (server = "rowid" /\ m \in stored /\ floor # Absent /\ floor < m[1])
      ~> (m \in event \/ m \notin Present)

\* Once the floor is above everything the Mac had before the first start it
\* stays there: "Never shrink the historical notification boundary on an
\* unconfirmed transient low/empty max" (reconcile_core.py:216-217).  Not so
\* while the baseline is being indexed (README, 9).
AboveHistory == \A m \in Present \ arrived : m[1] <= floor
FloorStaysAboveHistory == [][AboveHistory => AboveHistory']_vars
=============================================================================
