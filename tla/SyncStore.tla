------------------------------ MODULE SyncStore ------------------------------
(***************************************************************************)
(* The durable half of receiving: the messages table with its delivery     *)
(* ledger, the quarantine table sync_failures, and the meta keys that the  *)
(* reconciler keeps (src/app/store/repo.py, reconcile_core.py).            *)
(*                                                                         *)
(* A message is <<r, g>>: the one at ROWID r of the Mac's database, in its *)
(* g-th life (a database restored from a backup hands out ROWIDs again).   *)
(* Only incoming messages are modelled: the others never get an event.     *)
(* Text, chats, attachments and dates play no part here.                   *)
(***************************************************************************)
EXTENDS Integers, FiniteSets

CONSTANTS
  MaxRow,       \* ROWIDs run from 1 to MaxRow (bound of the instance)
  MaxGen        \* lives of the Mac's database (bound of the instance)

ASSUME StoreAssumption == MaxRow \in Nat \ {0} /\ MaxGen \in Nat \ {0}

VARIABLES
  stored,       \* rows of table messages
  event,        \* those with delivery_event_recorded = 1
  failed,       \* failed[r]: life of the message quarantined at r, or 0
  cursor,       \* meta source_rowid_cursor
  archive,      \* meta rowid_archive_audit_cursor
  floor,        \* meta notification_baseline_rowid
  emptySeen,    \* meta notification_empty_baseline_first_seen_ms
  lower,        \* meta rowid_lower_snapshot_candidate and .._count
  baseline      \* meta notification_baseline_complete

messageVars == <<stored, event, failed>>
metaVars == <<cursor, archive, floor, emptySeen, lower, baseline>>

Row == 1..MaxRow
Message == Row \X (1..MaxGen)
Absent == -1        \* a meta key without a row

StoreTypeOK ==
  /\ stored \in SUBSET Message
  /\ event \in SUBSET Message
  /\ failed \in [Row -> 0..MaxGen]
  /\ cursor \in 0..MaxRow
  /\ archive \in 0..MaxRow
  /\ floor \in Absent..MaxRow
  /\ emptySeen \in {"unset", "young", "ripe"}
  /\ lower \in [candidate : Absent..MaxRow, count : 0..3]
  /\ baseline \in BOOLEAN

StoreInit ==
  /\ stored = {}
  /\ event = {}
  /\ failed = [r \in Row |-> 0]
  /\ cursor = 0
  /\ archive = 0
  /\ floor = Absent
  /\ emptySeen = "unset"
  /\ lower = [candidate |-> Absent, count |-> 0]
  /\ baseline = FALSE

----------------------------------------------------------------------------
\* set_meta_min(NOTIFICATION_FLOOR_KEY, v): the smallest value ever proposed.
Lowest(v) == IF floor = Absent \/ v < floor THEN v ELSE floor

\* Mutant: the row the floor was frozen at counts as news.
EligibleAtFloor(rid, armed) ==
  IF armed THEN rid = 0 \/ floor <= rid
  ELSE rid > 0 /\ floor # Absent /\ floor <= rid

\* A message that came without a ROWID (rid = 0) is history until the
\* baseline is complete and news afterwards.
NotificationEligible(rid, armed) ==
  IF armed THEN rid = 0 \/ floor < rid
  ELSE rid > 0 /\ floor # Absent /\ floor < rid

\* Mutant: an authoritative read never gives an existing row its event.
NeverRepair(rid, armed) == FALSE

\* allow_existing_event of _upsert_reconciled.
RepairsEvent(rid, armed) ==
  NotificationEligible(rid, armed) /\ rid > 0 /\ floor # Absent

\* One transaction of upsert_message per member of S; those in news are
\* notify_eligible, repair is allow_existing_event.
UpsertAll(S, news, repair) ==
  /\ stored' = stored \cup S
  /\ event' = event \cup
       {m \in S \cap news : m \notin stored \/ repair}

RecordSyncFailure(m) == failed' = [failed EXCEPT ![m[1]] = m[2]]

ClearSyncFailure(r) == failed' = [failed EXCEPT ![r] = 0]
=============================================================================
