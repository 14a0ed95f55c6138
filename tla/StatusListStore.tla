--------------------------- MODULE StatusListStore ---------------------------
(***************************************************************************)
(* The StatusListStore interface (internal/issuance/statusstore.go) and    *)
(* its in-memory implementation, issuance.Store: the allocation of Token   *)
(* Status List indices to issuance records.  Every method of the in-memory *)
(* store runs under statusMu, so each one is a single atomic step and this *)
(* module is also the abstract specification that PostgresStatusStore      *)
(* implements.                                                             *)
(***************************************************************************)
EXTENDS Integers

CONSTANT Records          \* the issuance records an index can be allocated to

VARIABLES statusNextIdx,  \* the next index to hand out
          statusByIdx,    \* index -> status value, defined on the allocated indices
          statusByRecID   \* record -> its index, NoIdx where the map has no key

storeVars == <<statusNextIdx, statusByIdx, statusByRecID>>

NoIdx           == -1
StatusValid     == 0
StatusInvalid   == 1
StatusSuspended == 2
Statuses        == {StatusValid, StatusInvalid, StatusSuspended}

TypeOK ==
  /\ statusNextIdx \in Nat
  /\ statusByIdx \in [0..(statusNextIdx - 1) -> Statuses]
  /\ statusByRecID \in [Records -> 0..(statusNextIdx - 1) \cup {NoIdx}]

Init ==
  /\ statusNextIdx = 0
  /\ statusByIdx = [i \in {} |-> StatusValid]
  /\ statusByRecID = [r \in Records |-> NoIdx]

-----------------------------------------------------------------------------
(* The operations.                                                         *)

\* FindByRecordID's ok result: the record owns an index.
HasEntry(r) == statusByRecID[r] # NoIdx

\* The status value of r's entry (FindByRecordID's value result).
StatusOf(r) == statusByIdx[statusByRecID[r]]

\* Variant: insert without looking for the record's existing entry first.
AllocateIdx_NoLookup(r) ==
  /\ statusNextIdx' = statusNextIdx + 1
  /\ statusByIdx' = [i \in 0..statusNextIdx |->
                       IF i = statusNextIdx THEN StatusValid ELSE statusByIdx[i]]
  /\ statusByRecID' = [statusByRecID EXCEPT ![r] = statusNextIdx]

\* Get-or-create: the index returned is statusByRecID'[r].
AllocateIdx(r) ==
  IF HasEntry(r)
  THEN UNCHANGED storeVars
  ELSE /\ statusNextIdx' = statusNextIdx + 1
       /\ statusByIdx' = [i \in 0..statusNextIdx |->
                            IF i = statusNextIdx THEN StatusValid ELSE statusByIdx[i]]
       /\ statusByRecID' = [statusByRecID EXCEPT ![r] = statusNextIdx]

\* The ok = true case; with no entry the call changes nothing.
SetStatus(r, value) ==
  /\ HasEntry(r)
  /\ statusByIdx' = [statusByIdx EXCEPT ![statusByRecID[r]] = value]
  /\ UNCHANGED <<statusNextIdx, statusByRecID>>

-----------------------------------------------------------------------------
\* StatusInvalid is the only value the program ever sets (RevokeCredential).
Next == \E r \in Records : AllocateIdx(r) \/ SetStatus(r, StatusInvalid)

Spec == Init /\ [][Next]_storeVars

-----------------------------------------------------------------------------
(* Properties.                                                             *)

\* Every allocated index belongs to exactly one record: no two records share
\* an index and no index is leaked (statusstore.go's "re-issuing a credential
\* for the same record never leaks a second idx").
OneRecordPerIdx ==
  \A i \in 0..(statusNextIdx - 1) :
    \E r \in Records : /\ statusByRecID[r] = i
                       /\ \A s \in Records : statusByRecID[s] = i => s = r

\* What a signed credential relies on, whatever happens later: the index of its
\* record never changes, and a revoked entry never becomes valid again, not
\* even when the record is issued again after its revocation.
EntryPersists ==
  \A r \in Records :
    HasEntry(r) => /\ statusByRecID'[r] = statusByRecID[r]
                   /\ StatusOf(r) = StatusInvalid => StatusOf(r)' = StatusInvalid

EntriesPersist == [][EntryPersists]_storeVars
=============================================================================
