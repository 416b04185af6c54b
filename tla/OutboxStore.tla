----------------------------- MODULE OutboxStore -----------------------------
(***************************************************************************)
(* The durable half of sending: the outbox table and the Mac maintenance   *)
(* lease, both in the SQLite file that the agent and the window share.     *)
(* Every operator below is one transaction of src/app/store/repo.py, so    *)
(* each is one atomic step of whichever process or thread takes it.        *)
(*                                                                         *)
(* A row's text, attachment, error wording and server guid play no part in *)
(* who may send it when, and are left out.  The lease is a wall-clock      *)
(* expiry in the meta table; a lease that is absent and one that has       *)
(* expired are treated alike by every reader, so it is "held" or "free",   *)
(* and the modules that extend this one say when time may free it.         *)
(***************************************************************************)
EXTENDS Naturals, FiniteSets, Sequences

CONSTANT Id     \* outbox row ids (AUTOINCREMENT, so positive integers)

ASSUME IdAssumption == Id \subseteq Nat \ {0} /\ IsFiniteSet(Id)

VARIABLES
  row,          \* row[i]: column outbox.state, "none" before the INSERT
  attempts,     \* attempts[i]: column outbox.attempts
  lease         \* meta key mac_maintenance_until_ms: in the future or not

storeVars == <<row, attempts, lease>>

RowState == {"none", "queued", "sending", "failed", "sent"}

StoreTypeOK ==
  /\ row \in [Id -> RowState]
  /\ attempts \in [Id -> Nat]
  /\ lease \in {"free", "held"}

StoreInit ==
  /\ row = [i \in Id |-> "none"]
  /\ attempts = [i \in Id |-> 0]
  /\ lease = "free"

RowsIn(states) == {i \in Id : row[i] \in states}

----------------------------------------------------------------------------
Enqueue(i) ==
  /\ row[i] = "none"
  /\ row' = [row EXCEPT ![i] = "queued"]
  /\ UNCHANGED <<attempts, lease>>

\* Mutant: the UPDATE tests the lease but not the state of the row.
ClaimableInAnyState(i) == lease = "free"

\* The guard of the conditional UPDATE: state and lease in one statement.
Claimable(i) == row[i] \in {"queued", "failed"} /\ lease = "free"

ClaimOutbox(i) ==
  /\ Claimable(i)
  /\ row' = [row EXCEPT ![i] = "sending"]
  /\ attempts' = [attempts EXCEPT ![i] = @ + 1]
  /\ UNCHANGED lease

\* An UPDATE by id alone: it does not look at the state it overwrites.
OutboxSet(i, state) ==
  /\ row' = [row EXCEPT ![i] = state]
  /\ UNCHANGED <<attempts, lease>>

\* Mutant: rows left at "sending" are never marked.
RecoverQueuedOnly(markSending) == UNCHANGED storeVars

\* recover_outbox with and without mark_sending_uncertain; the ids it
\* returns are the queued rows in id order.
RecoverOutbox(markSending) ==
  /\ row' = [i \in Id |-> IF markSending /\ row[i] = "sending"
                          THEN "failed" ELSE row[i]]
  /\ UNCHANGED <<attempts, lease>>

QueuedInOrder ==
  LET Q == RowsIn({"queued"})
  IN  {s \in [1..Cardinality(Q) -> Q] :
          \A m, n \in 1..Cardinality(Q) : m < n => s[m] < s[n]}

\* Mutant: only queued rows count as active.
TryBeginDespiteSending ==
  /\ lease = "free"
  /\ RowsIn({"queued"}) = {}
  /\ lease' = "held"
  /\ UNCHANGED <<row, attempts>>

\* try_begin_mac_maintenance when it returns True.  When it returns False
\* (lease held, or a row queued or sending) it leaves no trace.
TryBeginMacMaintenance ==
  /\ lease = "free"
  /\ RowsIn({"queued", "sending"}) = {}
  /\ lease' = "held"
  /\ UNCHANGED <<row, attempts>>

\* end_mac_maintenance, and the expiry of the lease by the clock.
FreeLease ==
  /\ lease' = "free"
  /\ UNCHANGED <<row, attempts>>
=============================================================================
