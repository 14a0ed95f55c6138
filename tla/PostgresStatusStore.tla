------------------------- MODULE PostgresStatusStore -------------------------
(***************************************************************************)
(* PostgresStore's implementation of StatusListStore                       *)
(* (internal/issuance/postgres_store.go, db/schema.sql): AllocateIdx is a  *)
(* transaction of several statements, run by concurrent calls at           *)
(* PostgreSQL's default READ COMMITTED isolation, any of which may fail.   *)
(*                                                                         *)
(* The database itself is not under src/; it is modelled by what the code  *)
(* relies on: a plain SELECT reads committed rows and takes no lock, an    *)
(* UPDATE locks its row until the transaction ends and re-reads the        *)
(* committed value once it has the lock, a unique index rejects a second   *)
(* row, and a transaction that does not commit leaves nothing behind.      *)
(***************************************************************************)
EXTENDS Integers, FiniteSets

CONSTANTS Records,    \* the issuance records
          Calls,      \* the request goroutines that may be inside AllocateIdx
          NoCall,     \* the value of seqLock when nobody holds the row
          DBFaults    \* TRUE if a statement, a commit or the process may fail

ASSUME NoCallAssumption == NoCall \notin Calls
ASSUME DBFaultsAssumption == DBFaults \in BOOLEAN

VARIABLES nextIdx,    \* status_list_seq.next_idx, as committed
          rows,       \* status_list_entries as committed: idx -> [rec, status]
          seqLock,    \* the call whose transaction holds the status_list_seq row
          pc,         \* the statement each call is about to run
          rec,        \* the call's issuanceRecordID
          idx,        \* the call's idx (existing or fresh)
          handed      \* history: the <<record, idx>> pairs returned with no error

vars == <<nextIdx, rows, seqLock, pc, rec, idx, handed>>

NoIdx == -1
StatusValid == 0
StatusInvalid == 1

TypeOK ==
  /\ nextIdx \in Nat
  /\ rows \in [0..(nextIdx - 1) -> [rec : Records, status : {StatusValid, StatusInvalid}]]
  /\ seqLock \in Calls \cup {NoCall}
  /\ pc \in [Calls -> {"idle", "select", "reuse", "seq", "insert", "commit", "failed"}]
  /\ rec \in [Calls -> Records]
  /\ idx \in [Calls -> Nat]
  /\ handed \subseteq Records \X Nat

Init ==
  /\ nextIdx = 0
  /\ rows = [i \in {} |-> [rec |-> CHOOSE r \in Records : TRUE, status |-> StatusValid]]
  /\ seqLock = NoCall
  /\ pc = [c \in Calls |-> "idle"]
  /\ rec \in [Calls -> Records]
  /\ idx = [c \in Calls |-> 0]
  /\ handed = {}

\* The committed rows of record r: what SELECT ... WHERE issuance_record_id = r
\* sees.
RowsOf(r) == {i \in DOMAIN rows : rows[i].rec = r}

-----------------------------------------------------------------------------
(* AllocateIdx, statement by statement.                                    *)

BeginTx(c, r) ==
  /\ pc[c] \in {"idle", "failed"}
  /\ pc' = [pc EXCEPT ![c] = "select"]
  /\ rec' = [rec EXCEPT ![c] = r]
  /\ UNCHANGED <<nextIdx, rows, seqLock, idx, handed>>

SelectExisting(c) ==
  /\ pc[c] = "select"
  /\ \/ \E i \in RowsOf(rec[c]) :
          /\ idx' = [idx EXCEPT ![c] = i]
          /\ pc' = [pc EXCEPT ![c] = "reuse"]
     \/ /\ RowsOf(rec[c]) = {}
        /\ pc' = [pc EXCEPT ![c] = "seq"]
        /\ UNCHANGED idx
  /\ UNCHANGED <<nextIdx, rows, seqLock, rec, handed>>

\* return existing, tx.Commit() of a transaction that wrote nothing.
ReturnExisting(c) ==
  /\ pc[c] = "reuse"
  /\ pc' = [pc EXCEPT ![c] = "idle"]
  /\ handed' = handed \cup {<<rec[c], idx[c]>>}
  /\ UNCHANGED <<nextIdx, rows, seqLock, rec, idx>>

\* Variant: the counter advances outside the transaction (a SEQUENCE).
UpdateSeq_Sequence(c) ==
  /\ pc[c] = "seq"
  /\ seqLock = NoCall
  /\ seqLock' = c
  /\ idx' = [idx EXCEPT ![c] = nextIdx]
  /\ nextIdx' = nextIdx + 1
  /\ pc' = [pc EXCEPT ![c] = "insert"]
  /\ UNCHANGED <<rows, rec, handed>>

\* UPDATE status_list_seq ... RETURNING next_idx - 1: waits for the row lock;
\* the increment stays invisible until the commit.
UpdateSeq(c) ==
  /\ pc[c] = "seq"
  /\ seqLock = NoCall
  /\ seqLock' = c
  /\ idx' = [idx EXCEPT ![c] = nextIdx]
  /\ pc' = [pc EXCEPT ![c] = "insert"]
  /\ UNCHANGED <<nextIdx, rows, rec, handed>>

\* Variant: no deferred Rollback, so the transaction keeps its row lock.
Rollback_Missing(c) ==
  /\ pc' = [pc EXCEPT ![c] = "failed"]
  /\ UNCHANGED seqLock

\* The deferred tx.Rollback: the call returns an error and its lock is free.
Rollback(c) ==
  /\ pc' = [pc EXCEPT ![c] = "failed"]
  /\ seqLock' = IF seqLock = c THEN NoCall ELSE seqLock

\* Variant: no unique index on issuance_record_id.
InsertEntry_NoUniqueIndex(c) ==
  /\ pc[c] = "insert"
  /\ pc' = [pc EXCEPT ![c] = "commit"]
  /\ UNCHANGED <<nextIdx, rows, seqLock, rec, idx, handed>>

\* The insert, held back by the primary key or by idx_status_list_entries_record
\* when a row for the record was committed since the SELECT.
InsertEntry(c) ==
  /\ pc[c] = "insert"
  /\ IF idx[c] \in DOMAIN rows \/ RowsOf(rec[c]) # {}
     THEN Rollback(c)
     ELSE /\ pc' = [pc EXCEPT ![c] = "commit"]
          /\ UNCHANGED seqLock
  /\ UNCHANGED <<nextIdx, rows, rec, idx, handed>>

\* What the commit publishes: the counter and the row, together.
CommitWrites(c) ==
  /\ nextIdx' = idx[c] + 1
  /\ rows' = [i \in DOMAIN rows \cup {idx[c]} |->
                IF i = idx[c] THEN [rec |-> rec[c], status |-> StatusValid] ELSE rows[i]]
  /\ seqLock' = NoCall

ReturnFresh(c) ==
  /\ pc[c] = "commit"
  /\ CommitWrites(c)
  /\ pc' = [pc EXCEPT ![c] = "idle"]
  /\ handed' = handed \cup {<<rec[c], idx[c]>>}
  /\ UNCHANGED <<rec, idx>>

-----------------------------------------------------------------------------
(* Faults.                                                                 *)

\* A statement or the commit errors and the transaction has no effect.
StatementFails(c) ==
  /\ DBFaults
  /\ pc[c] \notin {"idle", "failed"}
  /\ Rollback(c)
  /\ UNCHANGED <<nextIdx, rows, rec, idx, handed>>

\* Variant: the idx is returned although tx.Commit reported an error.
CommitUnacknowledged_Ignored(c) ==
  /\ DBFaults
  /\ pc[c] = "commit"
  /\ Rollback(c)
  /\ handed' = handed \cup {<<rec[c], idx[c]>>}
  /\ UNCHANGED <<nextIdx, rows, rec, idx>>

\* The commit takes effect but its answer is lost: the caller sees an error.
CommitUnacknowledged(c) ==
  /\ DBFaults
  /\ pc[c] = "commit"
  /\ CommitWrites(c)
  /\ pc' = [pc EXCEPT ![c] = "failed"]
  /\ UNCHANGED <<rec, idx, handed>>

\* The process dies: every open transaction is rolled back by the server.
Restart ==
  /\ DBFaults
  /\ pc' = [c \in Calls |-> "idle"]
  /\ seqLock' = NoCall
  /\ UNCHANGED <<nextIdx, rows, rec, idx, handed>>

\* Variant: revoking toggles the entry instead of setting it.
SetStatus_Toggle(r, value) ==
  /\ \E i \in RowsOf(r) :
       rows' = [rows EXCEPT ![i].status = IF @ = value THEN StatusValid ELSE value]
  /\ UNCHANGED <<nextIdx, seqLock, pc, rec, idx, handed>>

\* SetStatus is one UPDATE statement in its own transaction.  If its answer is
\* lost the caller sees ok = false, which is this step all the same.
SetStatus(r, value) ==
  /\ \E i \in RowsOf(r) : rows' = [rows EXCEPT ![i].status = value]
  /\ UNCHANGED <<nextIdx, seqLock, pc, rec, idx, handed>>

-----------------------------------------------------------------------------
CallStep(c) ==
  \/ SelectExisting(c)
  \/ ReturnExisting(c)
  \/ UpdateSeq(c)
  \/ InsertEntry(c)
  \/ ReturnFresh(c)

Next ==
  \/ \E c \in Calls :
       \/ \E r \in Records : BeginTx(c, r)
       \/ CallStep(c)
       \/ StatementFails(c)
       \/ CommitUnacknowledged(c)
  \/ \E r \in Records : SetStatus(r, StatusInvalid)
  \/ Restart

Spec == Init /\ [][Next]_vars

\* A call that can run a statement eventually runs it.  The row lock is granted
\* in the order of the waiters, so a waiting UPDATE is not passed over forever.
FairSpec == Spec /\ \A c \in Calls : WF_vars(CallStep(c)) /\ SF_vars(UpdateSeq(c))

-----------------------------------------------------------------------------
(* Properties.                                                             *)

\* The lock, the private idx and the committed table agree: only the lock's
\* holder is past its UPDATE, with the idx no committed row has; and no record
\* has two rows.  The inductive core of the theorems.
LockInv ==
  /\ \A c \in Calls : (pc[c] \in {"insert", "commit"}) <=> (seqLock = c)
  /\ \A c \in Calls : pc[c] \in {"insert", "commit"} => idx[c] = nextIdx
  /\ \A c \in Calls : pc[c] = "commit" => RowsOf(rec[c]) = {}
  /\ \A c \in Calls : pc[c] = "reuse" => idx[c] \in RowsOf(rec[c])
  /\ \A i, j \in DOMAIN rows : rows[i].rec = rows[j].rec => i = j

\* An idx that AllocateIdx returned without an error, and that a signed
\* credential therefore carries, is a committed row of that very record,
\* whatever failed or restarted around the call.
HandedIdxIsDurable ==
  \A h \in handed : h[2] \in RowsOf(h[1])

\* The counter is transactional: failed and abandoned calls leave no hole, so
\* the list AllEntries feeds to the bitstring is dense.
NoIdxLeaked == Cardinality(DOMAIN rows) = nextIdx

\* The refinement mapping: the committed rows as the in-memory store's two maps.
ByIdx   == [i \in DOMAIN rows |-> rows[i].status]
ByRecID == [r \in Records |-> IF RowsOf(r) = {} THEN NoIdx ELSE CHOOSE i \in RowsOf(r) : TRUE]

Abstract == INSTANCE StatusListStore WITH
  statusNextIdx <- nextIdx,
  statusByIdx   <- ByIdx,
  statusByRecID <- ByRecID

\* Every step of PostgresStore is a step of the in-memory store, or none.
ImplementsStatusListStore == Abstract!Spec

\* The index of a record never changes and a revoked entry is never valid again,
\* although the record may be issued again, by concurrent and failing calls,
\* after its revocation.
EntriesPersist == Abstract!EntriesPersist

\* An AllocateIdx call that was started returns (a value or an error), although
\* it waits for the transactions of other calls.
AllocateIdxReturns ==
  \A c \in Calls : (pc[c] \notin {"idle", "failed"}) ~> (pc[c] \in {"idle", "failed"})

\* What the comment on AllocateIdx and the schema's comment on the unique index
\* promise: a call for a record whose entry exists, or is being created, reuses
\* the entry; so without a database fault no call returns an error.
ConcurrentCallsReuse == \A c \in Calls : pc[c] # "failed"
=============================================================================
