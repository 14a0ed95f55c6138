---------------------- MODULE PostgresStatusStoreProofs ----------------------
(***************************************************************************)
(* PostgresStatusStore: the transaction of AllocateIdx keeps its           *)
(* invariants, and implements the atomic store, for any number of records  *)
(* and concurrent calls.                                                   *)
(***************************************************************************)
EXTENDS PostgresStatusStore, FiniteSetTheorems, TLAPS

\* The inductive invariant.  TypeOK alone is not inductive: that a commit keeps
\* the table dense rests on the holder's idx being the committed counter.
IInv == TypeOK /\ LockInv /\ HandedIdxIsDurable

\* The steps that publish a row.
Commits(c) == ReturnFresh(c) \/ CommitUnacknowledged(c)

\* The steps of a call, or of the process, that leave the two tables alone.
Quiet(c) ==
  \/ \E r \in Records : BeginTx(c, r)
  \/ SelectExisting(c)
  \/ ReturnExisting(c)
  \/ UpdateSeq(c)
  \/ InsertEntry(c)
  \/ StatementFails(c)

-----------------------------------------------------------------------------
\* A commit adds the holder's idx to the table and nothing else.
LEMMA CommitAdds ==
  ASSUME IInv, NEW c \in Calls, pc[c] = "commit", CommitWrites(c)
  PROVE  /\ nextIdx' = nextIdx + 1 /\ nextIdx \in Nat /\ idx[c] = nextIdx
         /\ rec[c] \in Records /\ RowsOf(rec[c]) = {}
         /\ DOMAIN rows = 0..(nextIdx - 1)
         /\ DOMAIN rows' = 0..nextIdx
         /\ rows'[nextIdx] = [rec |-> rec[c], status |-> StatusValid]
         /\ \A i \in DOMAIN rows : rows'[i] = rows[i]
         /\ rows' \in [0..(nextIdx' - 1) ->
                         [rec : Records, status : {StatusValid, StatusInvalid}]]
         /\ seqLock = c /\ seqLock' = NoCall
<1>1. nextIdx' = nextIdx + 1 /\ nextIdx \in Nat /\ idx[c] = nextIdx
  BY DEF IInv, TypeOK, LockInv, CommitWrites
<1>2. rec[c] \in Records /\ RowsOf(rec[c]) = {} /\ seqLock = c
  BY DEF IInv, TypeOK, LockInv
<1>3. DOMAIN rows = 0..(nextIdx - 1)
  BY DEF IInv, TypeOK
<1>4. rows' = [i \in DOMAIN rows \cup {idx[c]} |->
                 IF i = idx[c] THEN [rec |-> rec[c], status |-> StatusValid] ELSE rows[i]]
  BY DEF CommitWrites
<1>5. DOMAIN rows \cup {idx[c]} = 0..nextIdx
  BY <1>1, <1>3
<1>6. \A i \in DOMAIN rows : i # nextIdx /\ i \in 0..nextIdx
  BY <1>1, <1>3
<1>7. \A i \in DOMAIN rows : rows[i] \in [rec : Records, status : {StatusValid, StatusInvalid}]
  BY DEF IInv, TypeOK
<1>8. nextIdx' - 1 = nextIdx
  BY <1>1
<1>9. [rec |-> rec[c], status |-> StatusValid]
        \in [rec : Records, status : {StatusValid, StatusInvalid}]
  BY <1>2
<1> QED
  BY <1>1, <1>2, <1>3, <1>4, <1>5, <1>6, <1>7, <1>8, <1>9 DEF CommitWrites

\* A commit, acknowledged or not, preserves the invariant.
LEMMA CommitStep ==
  ASSUME IInv, NEW c \in Calls, Commits(c)
  PROVE  IInv'
<1>1. pc[c] = "commit" /\ CommitWrites(c) /\ UNCHANGED <<rec, idx>>
  BY DEF Commits, ReturnFresh, CommitUnacknowledged
<1>2. /\ nextIdx' = nextIdx + 1 /\ nextIdx \in Nat /\ idx[c] = nextIdx
      /\ rec[c] \in Records /\ RowsOf(rec[c]) = {}
      /\ DOMAIN rows = 0..(nextIdx - 1)
      /\ DOMAIN rows' = 0..nextIdx
      /\ rows'[nextIdx] = [rec |-> rec[c], status |-> StatusValid]
      /\ \A i \in DOMAIN rows : rows'[i] = rows[i]
      /\ rows' \in [0..(nextIdx' - 1) ->
                      [rec : Records, status : {StatusValid, StatusInvalid}]]
      /\ seqLock = c /\ seqLock' = NoCall
  BY <1>1, CommitAdds
<1>3. /\ pc' \in [Calls -> {"idle", "select", "reuse", "seq", "insert", "commit", "failed"}]
      /\ pc'[c] \in {"idle", "failed"}
      /\ \A d \in Calls : d # c => pc'[d] = pc[d]
  BY DEF IInv, TypeOK, Commits, ReturnFresh, CommitUnacknowledged
<1>4. handed' \subseteq handed \cup {<<rec[c], idx[c]>>}
  BY DEF Commits, ReturnFresh, CommitUnacknowledged
<1>5. TypeOK'
  BY <1>1, <1>2, <1>3, <1>4 DEF IInv, TypeOK
<1>6. \A d \in Calls : d # c => pc[d] \notin {"insert", "commit"}
  BY <1>2 DEF IInv, LockInv
<1>7. \A r \in Records : RowsOf(r) \subseteq RowsOf(r)'
  BY <1>2 DEF RowsOf
<1>8. \A i, j \in DOMAIN rows' : rows'[i].rec = rows'[j].rec => i = j
  <2> SUFFICES ASSUME NEW i \in DOMAIN rows', NEW j \in DOMAIN rows',
                      rows'[i].rec = rows'[j].rec
               PROVE  i = j
    OBVIOUS
  <2>1. \A k \in DOMAIN rows : rows[k].rec # rec[c]
    BY <1>2 DEF RowsOf
  <2>2. \A k \in DOMAIN rows' : k \in DOMAIN rows \/ k = nextIdx
    BY <1>2
  <2>3. rows'[nextIdx].rec = rec[c]
    BY <1>2
  <2>4. CASE i \in DOMAIN rows /\ j \in DOMAIN rows
    BY <2>4, <1>2 DEF IInv, LockInv
  <2>5. CASE i = nextIdx \/ j = nextIdx
    BY <2>5, <2>1, <2>2, <2>3, <1>2
  <2> QED
    BY <2>2, <2>4, <2>5
<1>9. LockInv'
  <2>1. \A d \in Calls : (pc'[d] \in {"insert", "commit"}) <=> (seqLock' = d)
    BY <1>2, <1>3, <1>6, NoCallAssumption
  <2>2. \A d \in Calls : pc'[d] \notin {"insert", "commit"}
    BY <1>3, <1>6
  <2>3. (\A d \in Calls : pc[d] = "reuse" => idx[d] \in RowsOf(rec[d]))'
    <3> SUFFICES ASSUME NEW d \in Calls, pc'[d] = "reuse"
                 PROVE  (idx[d] \in RowsOf(rec[d]))'
      OBVIOUS
    <3>1. d # c /\ pc[d] = "reuse"
      BY <1>3
    <3>2. idx[d] \in RowsOf(rec[d]) /\ rec[d] \in Records
      BY <3>1 DEF IInv, LockInv, TypeOK
    <3>3. idx[d] \in {i \in DOMAIN rows' : rows'[i].rec = rec[d]}
      BY <1>7, <3>2 DEF RowsOf
    <3> QED
      BY <1>1, <3>3 DEF RowsOf
  <2> QED
    BY <2>1, <2>2, <2>3, <1>8 DEF LockInv
<1>10. HandedIdxIsDurable'
  <2> SUFFICES ASSUME NEW h \in handed'
               PROVE  h[2] \in RowsOf(h[1])'
    BY DEF HandedIdxIsDurable
  <2>1. CASE h \in handed
    BY <2>1, <1>7 DEF IInv, TypeOK, HandedIdxIsDurable
  <2>2. CASE h = <<rec[c], idx[c]>>
    <3>1. h[2] = nextIdx /\ h[1] = rec[c]
      BY <2>2, <1>2
    <3> QED
      BY <3>1, <1>2 DEF RowsOf
  <2> QED
    BY <2>1, <2>2, <1>4
<1> QED
  BY <1>5, <1>9, <1>10 DEF IInv

\* A step that only moves a call along its transaction preserves the invariant.
LEMMA QuietStep ==
  ASSUME IInv, NEW c \in Calls, Quiet(c)
  PROVE  IInv' /\ UNCHANGED <<nextIdx, rows>>
<1> USE DEF IInv
<1>1. CASE \E r \in Records : BeginTx(c, r)
  BY <1>1, NoCallAssumption DEF BeginTx, TypeOK, LockInv, HandedIdxIsDurable, RowsOf
<1>2. CASE SelectExisting(c)
  <2>1. UNCHANGED <<nextIdx, rows, seqLock, rec, handed>>
    BY <1>2 DEF SelectExisting
  <2>2. \A r \in Records : RowsOf(r)' = RowsOf(r) /\ RowsOf(r) \subseteq Nat
    BY <2>1 DEF RowsOf, TypeOK
  <2>3. \/ /\ idx' = idx /\ pc' = [pc EXCEPT ![c] = "seq"]
        \/ \E i \in RowsOf(rec[c]) : /\ idx' = [idx EXCEPT ![c] = i]
                                     /\ pc' = [pc EXCEPT ![c] = "reuse"]
    BY <1>2 DEF SelectExisting
  <2>4. rec[c] \in Records /\ pc[c] = "select"
    BY <1>2 DEF SelectExisting, TypeOK
  <2>5. TypeOK'
    BY <2>1, <2>2, <2>3, <2>4 DEF TypeOK
  <2>6. \A d \in Calls : d # c => pc'[d] = pc[d] /\ idx'[d] = idx[d]
    BY <2>3 DEF TypeOK
  <2>7. pc'[c] \in {"seq", "reuse"} /\ (pc'[c] = "reuse" => idx'[c] \in RowsOf(rec[c]))
    BY <2>3 DEF TypeOK
  <2>8. LockInv'
    <3>1. \A d \in Calls :
            \/ pc'[d] = pc[d] /\ idx'[d] = idx[d]
            \/ pc'[d] = "seq"
            \/ pc'[d] = "reuse" /\ idx'[d] \in RowsOf(rec[d])
      BY <2>6, <2>7
    <3>2. \A d \in Calls : d = c => pc[d] \notin {"insert", "commit"}
      BY <2>4
    <3>3. \A d \in Calls : (pc'[d] \in {"insert", "commit"}) <=> (pc[d] \in {"insert", "commit"})
      BY <2>6, <2>7, <3>2
    <3> QED
      BY <2>1, <3>1, <3>3 DEF LockInv, RowsOf
  <2> QED
    BY <2>1, <2>5, <2>8 DEF HandedIdxIsDurable, RowsOf
<1>3. CASE ReturnExisting(c)
  <2>1. UNCHANGED <<nextIdx, rows, seqLock, rec, idx>> /\ pc[c] = "reuse"
        /\ pc' = [pc EXCEPT ![c] = "idle"] /\ handed' = handed \cup {<<rec[c], idx[c]>>}
    BY <1>3 DEF ReturnExisting
  <2>2. idx[c] \in RowsOf(rec[c]) /\ rec[c] \in Records /\ idx[c] \in Nat
    BY <2>1 DEF LockInv, TypeOK
  <2>3. TypeOK'
    BY <2>1, <2>2 DEF TypeOK
  <2>4. LockInv'
    BY <2>1 DEF LockInv, TypeOK, RowsOf
  <2>5. HandedIdxIsDurable'
    BY <2>1, <2>2 DEF HandedIdxIsDurable, RowsOf
  <2> QED
    BY <2>1, <2>3, <2>4, <2>5
<1>4. CASE UpdateSeq(c)
  BY <1>4, NoCallAssumption DEF UpdateSeq, TypeOK, LockInv, HandedIdxIsDurable, RowsOf
<1>5. CASE InsertEntry(c)
  <2>1. UNCHANGED <<nextIdx, rows, rec, idx, handed>> /\ pc[c] = "insert" /\ seqLock = c
    BY <1>5 DEF InsertEntry, LockInv
  <2>2. CASE Rollback(c)
    BY <2>1, <2>2, NoCallAssumption DEF Rollback, TypeOK, LockInv, HandedIdxIsDurable, RowsOf
  <2>3. CASE /\ RowsOf(rec[c]) = {} /\ pc' = [pc EXCEPT ![c] = "commit"]
             /\ UNCHANGED seqLock
    BY <2>1, <2>3, NoCallAssumption DEF TypeOK, LockInv, HandedIdxIsDurable, RowsOf
  <2> QED
    BY <1>5, <2>2, <2>3 DEF InsertEntry
<1>6. CASE StatementFails(c)
  BY <1>6, NoCallAssumption
  DEF StatementFails, Rollback, TypeOK, LockInv, HandedIdxIsDurable, RowsOf
<1> QED
  BY <1>1, <1>2, <1>3, <1>4, <1>5, <1>6 DEF Quiet

\* A restart forgets every open transaction and preserves the invariant.
LEMMA RestartStep ==
  ASSUME IInv, Restart
  PROVE  IInv' /\ UNCHANGED <<nextIdx, rows>>
BY NoCallAssumption DEF IInv, Restart, TypeOK, LockInv, HandedIdxIsDurable, RowsOf

\* Setting a status changes no row's record.
LEMMA SetStatusKeeps ==
  ASSUME IInv, NEW r \in Records, SetStatus(r, StatusInvalid)
  PROVE  /\ UNCHANGED <<nextIdx, seqLock, pc, rec, idx, handed>>
         /\ DOMAIN rows' = DOMAIN rows
         /\ \A i \in DOMAIN rows : rows'[i].rec = rows[i].rec
         /\ \A s : RowsOf(s)' = RowsOf(s)
         /\ rows' \in [0..(nextIdx - 1) ->
                         [rec : Records, status : {StatusValid, StatusInvalid}]]
         /\ \E i \in RowsOf(r) : /\ rows'[i].status = StatusInvalid
                                 /\ \A j \in DOMAIN rows : j # i => rows'[j] = rows[j]
<1>1. PICK i \in RowsOf(r) : rows' = [rows EXCEPT ![i].status = StatusInvalid]
  BY DEF SetStatus
<1>2. rows \in [0..(nextIdx - 1) -> [rec : Records, status : {StatusValid, StatusInvalid}]]
      /\ i \in DOMAIN rows
  BY DEF IInv, TypeOK, RowsOf
<1>3. /\ DOMAIN rows' = DOMAIN rows
      /\ rows'[i] = [rows[i] EXCEPT !.status = StatusInvalid]
      /\ \A j \in DOMAIN rows : j # i => rows'[j] = rows[j]
  BY <1>1, <1>2
<1>4. /\ rows'[i].rec = rows[i].rec /\ rows'[i].status = StatusInvalid
      /\ rows'[i] \in [rec : Records, status : {StatusValid, StatusInvalid}]
  BY <1>2, <1>3
<1>5. rows' \in [0..(nextIdx - 1) -> [rec : Records, status : {StatusValid, StatusInvalid}]]
  BY <1>1, <1>2, <1>3, <1>4
<1>6. \A s : RowsOf(s)' = RowsOf(s)
  BY <1>3, <1>4 DEF RowsOf
<1> QED
  BY <1>2, <1>3, <1>4, <1>5, <1>6 DEF SetStatus

\* Setting a status preserves the invariant.
LEMMA SetStatusStep ==
  ASSUME IInv, NEW r \in Records, SetStatus(r, StatusInvalid)
  PROVE  IInv'
<1>1. /\ UNCHANGED <<nextIdx, seqLock, pc, rec, idx, handed>>
      /\ DOMAIN rows' = DOMAIN rows
      /\ \A i \in DOMAIN rows : rows'[i].rec = rows[i].rec
      /\ \A s : RowsOf(s)' = RowsOf(s)
      /\ rows' \in [0..(nextIdx - 1) ->
                      [rec : Records, status : {StatusValid, StatusInvalid}]]
  BY SetStatusKeeps
<1>2. TypeOK'
  BY <1>1 DEF IInv, TypeOK
<1>3. \A s : {i \in DOMAIN rows' : rows'[i].rec = s} = {i \in DOMAIN rows : rows[i].rec = s}
  BY <1>1 DEF RowsOf
<1>4. LockInv'
  BY <1>1, <1>3 DEF IInv, LockInv, RowsOf
<1>5. HandedIdxIsDurable'
  BY <1>1, <1>3 DEF IInv, HandedIdxIsDurable, RowsOf
<1> QED
  BY <1>2, <1>4, <1>5 DEF IInv

\* IInv holds initially.
LEMMA InitInv == Init => IInv
BY NoCallAssumption DEF Init, IInv, TypeOK, LockInv, HandedIdxIsDurable, RowsOf

\* Every step is a commit, a quiet step, a status update, a restart or a stutter.
LEMMA NextCases ==
  ASSUME [Next]_vars
  PROVE  \/ \E c \in Calls : Commits(c)
         \/ \E c \in Calls : Quiet(c)
         \/ \E r \in Records : SetStatus(r, StatusInvalid)
         \/ Restart
         \/ UNCHANGED vars
BY DEF Next, CallStep, Commits, Quiet

\* IInv is inductive.
LEMMA InvStep == IInv /\ [Next]_vars => IInv'
<1> SUFFICES ASSUME IInv, [Next]_vars
             PROVE  IInv'
  OBVIOUS
<1>1. CASE UNCHANGED vars
  BY <1>1 DEF vars, IInv, TypeOK, LockInv, HandedIdxIsDurable, RowsOf
<1> QED
  BY <1>1, NextCases, CommitStep, QuietStep, SetStatusStep, RestartStep

\* The invariant of the transaction holds in every behaviour.
THEOREM Invariance == Spec => []IInv
BY InitInv, InvStep, PTL DEF Spec

-----------------------------------------------------------------------------
\* The tables stay well typed: in particular the committed rows are exactly the
\* indices below the committed counter.
THEOREM TypeCorrect == Spec => []TypeOK
BY Invariance, PTL DEF IInv

\* The row lock of status_list_seq protects the idx until the commit, and no
\* record ever has two rows.
THEOREM LockCorrect == Spec => []LockInv
BY Invariance, PTL DEF IInv

\* An idx AllocateIdx returned is a committed row of its record, for ever.
THEOREM Durability == Spec => []HandedIdxIsDurable
BY Invariance, PTL DEF IInv

\* Failed and abandoned transactions leave no hole in the list.
THEOREM Density == Spec => []NoIdxLeaked
<1>1. IInv => NoIdxLeaked
  <2> SUFFICES ASSUME IInv
               PROVE  NoIdxLeaked
    OBVIOUS
  <2>1. nextIdx \in Nat /\ DOMAIN rows = 0..(nextIdx - 1)
    BY DEF IInv, TypeOK
  <2>2. Cardinality(0..(nextIdx - 1)) =
          IF 0 > nextIdx - 1 THEN 0 ELSE (nextIdx - 1) - 0 + 1
    BY <2>1, FS_Interval
  <2> QED
    BY <2>1, <2>2 DEF NoIdxLeaked
<1> QED
  BY <1>1, Invariance, PTL

-----------------------------------------------------------------------------
(* Refinement.                                                             *)

\* A record with a row is mapped to that row, one without to NoIdx.
LEMMA ByRecIDIs ==
  ASSUME IInv, NEW r \in Records
  PROVE  /\ RowsOf(r) = {} => ByRecID[r] = NoIdx
         /\ \A i \in RowsOf(r) : ByRecID[r] = i
         /\ ByRecID[r] # NoIdx => RowsOf(r) # {}
<1>1. \A i, j \in RowsOf(r) : i = j
  BY DEF IInv, LockInv, RowsOf
<1>2. RowsOf(r) # {} => (CHOOSE i \in RowsOf(r) : TRUE) \in RowsOf(r)
  OBVIOUS
<1>3. ByRecID[r] = IF RowsOf(r) = {} THEN NoIdx ELSE CHOOSE i \in RowsOf(r) : TRUE
  BY DEF ByRecID
<1> QED
  BY <1>1, <1>2, <1>3

\* The same after a step, for the invariant also holds after it.
LEMMA ByRecIDIsNext ==
  ASSUME IInv', NEW r \in Records
  PROVE  /\ RowsOf(r)' = {} => ByRecID'[r] = NoIdx
         /\ \A i \in RowsOf(r)' : ByRecID'[r] = i
<1>1. \A i, j \in RowsOf(r)' : i = j
  BY DEF IInv, LockInv, RowsOf
<1>2. RowsOf(r)' # {} => (CHOOSE i \in RowsOf(r)' : TRUE) \in RowsOf(r)'
  OBVIOUS
<1>3. ByRecID'[r] = IF RowsOf(r)' = {} THEN NoIdx ELSE CHOOSE i \in RowsOf(r)' : TRUE
  BY DEF ByRecID
<1> QED
  BY <1>1, <1>2, <1>3

\* A record whose rows a step leaves alone keeps its image.
LEMMA ByRecIDKept ==
  ASSUME IInv, IInv', NEW r \in Records, RowsOf(r)' = RowsOf(r)
  PROVE  ByRecID'[r] = ByRecID[r]
<1>1. CASE RowsOf(r) = {}
  BY <1>1, ByRecIDIs, ByRecIDIsNext
<1>2. CASE RowsOf(r) # {}
  <2>1. PICK i : i \in RowsOf(r)
    BY <1>2
  <2> QED
    BY <2>1, ByRecIDIs, ByRecIDIsNext
<1> QED
  BY <1>1, <1>2

\* A commit is the in-memory store's AllocateIdx of the call's record.
LEMMA CommitRefines ==
  ASSUME IInv, IInv', NEW c \in Calls, Commits(c)
  PROVE  Abstract!AllocateIdx(rec[c])
<1>1. pc[c] = "commit" /\ CommitWrites(c)
  BY DEF Commits, ReturnFresh, CommitUnacknowledged
<1>2. /\ nextIdx' = nextIdx + 1 /\ nextIdx \in Nat /\ idx[c] = nextIdx
      /\ rec[c] \in Records /\ RowsOf(rec[c]) = {}
      /\ DOMAIN rows = 0..(nextIdx - 1)
      /\ DOMAIN rows' = 0..nextIdx
      /\ rows'[nextIdx] = [rec |-> rec[c], status |-> StatusValid]
      /\ \A i \in DOMAIN rows : rows'[i] = rows[i]
  BY <1>1, CommitAdds
<1>3. ~Abstract!HasEntry(rec[c])
  BY <1>2, ByRecIDIs DEF Abstract!HasEntry, Abstract!NoIdx, NoIdx
<1>4. ByIdx' = [i \in 0..nextIdx |-> IF i = nextIdx THEN StatusValid ELSE ByIdx[i]]
  <2>1. ByIdx' = [i \in 0..nextIdx |-> rows'[i].status]
    BY <1>2 DEF ByIdx
  <2>2. \A i \in 0..nextIdx : i # nextIdx => i \in DOMAIN rows
    BY <1>2
  <2>3. \A i \in 0..nextIdx :
          rows'[i].status = IF i = nextIdx THEN StatusValid ELSE ByIdx[i]
    BY <1>2, <2>2 DEF ByIdx
  <2> QED
    BY <2>1, <2>3
<1>5. ByRecID' = [ByRecID EXCEPT ![rec[c]] = nextIdx]
  <2>1. \A r \in Records : r # rec[c] => RowsOf(r)' = RowsOf(r)
    <3> SUFFICES ASSUME NEW r \in Records, r # rec[c]
                 PROVE  RowsOf(r)' = RowsOf(r)
      OBVIOUS
    <3>1. \A i : i \in DOMAIN rows' <=> (i \in DOMAIN rows \/ i = nextIdx)
      BY <1>2
    <3>2. rows'[nextIdx].rec # r
      BY <1>2
    <3> QED
      BY <1>2, <3>1, <3>2 DEF RowsOf
  <2>2. nextIdx \in RowsOf(rec[c])'
    <3>1. nextIdx \in {i \in DOMAIN rows' : rows'[i].rec = rec[c]}
      BY <1>2
    <3>2. rec' = rec
      BY DEF Commits, ReturnFresh, CommitUnacknowledged
    <3> QED
      BY <3>1, <3>2 DEF RowsOf
  <2>3. \A r \in Records : ByRecID'[r] = IF r = rec[c] THEN nextIdx ELSE ByRecID[r]
    <3> SUFFICES ASSUME NEW r \in Records
                 PROVE  ByRecID'[r] = IF r = rec[c] THEN nextIdx ELSE ByRecID[r]
      OBVIOUS
    <3>1. CASE r = rec[c]
      <4>1. nextIdx \in RowsOf(r)'
        BY <1>2, <3>1 DEF RowsOf
      <4> QED
        BY <3>1, <4>1, ByRecIDIsNext
    <3>2. CASE r # rec[c]
      <4>1. RowsOf(r)' = RowsOf(r)
        BY <2>1, <3>2
      <4> QED
        BY <3>2, <4>1, ByRecIDKept
    <3> QED
      BY <3>1, <3>2
  <2>4. ByRecID' = [r \in Records |-> ByRecID'[r]] /\ DOMAIN ByRecID = Records
    BY DEF ByRecID
  <2> QED
    BY <2>3, <2>4, <1>2
<1> QED
  BY <1>2, <1>3, <1>4, <1>5 DEF Abstract!AllocateIdx, Abstract!StatusValid, StatusValid

\* SetStatus is the in-memory store's SetStatus.
LEMMA SetStatusRefines ==
  ASSUME IInv, IInv', NEW r \in Records, SetStatus(r, StatusInvalid)
  PROVE  Abstract!SetStatus(r, Abstract!StatusInvalid)
<1>1. /\ nextIdx' = nextIdx
      /\ DOMAIN rows' = DOMAIN rows
      /\ \A s : RowsOf(s)' = RowsOf(s)
  BY SetStatusKeeps
<1>2. PICK i \in RowsOf(r) : /\ rows'[i].status = StatusInvalid
                             /\ \A j \in DOMAIN rows : j # i => rows'[j] = rows[j]
  BY SetStatusKeeps
<1>3. ByRecID[r] = i /\ i \in DOMAIN rows /\ i # NoIdx
  BY ByRecIDIs DEF IInv, TypeOK, RowsOf, NoIdx
<1>4. ByRecID' = ByRecID
  <2>1. \A s \in Records : ByRecID'[s] = ByRecID[s]
    BY <1>1, ByRecIDKept
  <2>2. ByRecID' = [s \in Records |-> ByRecID'[s]] /\ ByRecID = [s \in Records |-> ByRecID[s]]
    BY DEF ByRecID
  <2> QED
    BY <2>1, <2>2
<1>5. ByIdx' = [ByIdx EXCEPT ![i] = StatusInvalid]
  BY <1>1, <1>2, <1>3 DEF ByIdx
<1> QED
  BY <1>1, <1>3, <1>4, <1>5
  DEF Abstract!SetStatus, Abstract!HasEntry, Abstract!NoIdx, NoIdx,
      Abstract!StatusInvalid, StatusInvalid

\* The initial tables are the initial in-memory store.
LEMMA InitRefines == Init => Abstract!Init
<1> SUFFICES ASSUME Init
             PROVE  Abstract!Init
  OBVIOUS
<1>1. DOMAIN rows = {} /\ nextIdx = 0
  BY DEF Init
<1>2. ByIdx = [i \in {} |-> StatusValid]
  BY <1>1 DEF ByIdx
<1>3. \A r \in Records : RowsOf(r) = {}
  BY <1>1 DEF RowsOf
<1>4. ByRecID = [r \in Records |-> NoIdx]
  BY <1>3 DEF ByRecID
<1> QED
  BY <1>1, <1>2, <1>4 DEF Abstract!Init, Abstract!StatusValid, StatusValid, Abstract!NoIdx, NoIdx

\* Every step of the transaction maps to a step of the in-memory store or to none.
LEMMA StepRefines == IInv /\ IInv' /\ [Next]_vars => [Abstract!Next]_(Abstract!storeVars)
<1> SUFFICES ASSUME IInv, IInv', [Next]_vars
             PROVE  [Abstract!Next]_(Abstract!storeVars)
  OBVIOUS
<1>1. ASSUME UNCHANGED <<nextIdx, rows>>
      PROVE  UNCHANGED Abstract!storeVars
  BY <1>1 DEF Abstract!storeVars, ByIdx, ByRecID, RowsOf
<1>2. CASE \E c \in Calls : Commits(c)
  <2>1. PICK c \in Calls : Commits(c)
    BY <1>2
  <2>2. rec[c] \in Records
    BY DEF IInv, TypeOK
  <2> QED
    BY <2>1, <2>2, CommitRefines DEF Abstract!Next
<1>3. CASE \E c \in Calls : Quiet(c)
  BY <1>1, <1>3, QuietStep
<1>4. CASE \E r \in Records : SetStatus(r, StatusInvalid)
  BY <1>4, SetStatusRefines DEF Abstract!Next
<1>5. CASE Restart
  BY <1>1, <1>5, RestartStep
<1>6. CASE UNCHANGED vars
  BY <1>1, <1>6 DEF vars
<1> QED
  BY <1>2, <1>3, <1>4, <1>5, <1>6, NextCases

\* PostgresStore implements the interface of StatusListStore: its statements,
\* interleaved with those of other calls and failing at any point, add up to the
\* atomic operations of the in-memory store.
THEOREM Refinement == Spec => ImplementsStatusListStore
BY InitRefines, StepRefines, Invariance, PTL DEF Spec, ImplementsStatusListStore, Abstract!Spec

\* A step of the in-memory store, from tables that satisfy the invariant, keeps
\* the entry of every record.
LEMMA StepPersists ==
  IInv /\ [Abstract!Next]_(Abstract!storeVars) => [Abstract!EntryPersists]_(Abstract!storeVars)
<1> SUFFICES ASSUME IInv, [Abstract!Next]_(Abstract!storeVars),
                    NEW r \in Records, Abstract!HasEntry(r)
             PROVE  /\ ByRecID'[r] = ByRecID[r]
                    /\ ByIdx[ByRecID[r]] = StatusInvalid => ByIdx'[ByRecID'[r]] = StatusInvalid
  BY DEF Abstract!EntryPersists, Abstract!StatusOf, Abstract!StatusInvalid, StatusInvalid
<1>1. ByRecID[r] \in 0..(nextIdx - 1) /\ nextIdx \in Nat
  <2>1. ByRecID[r] \in RowsOf(r)
    BY ByRecIDIs DEF Abstract!HasEntry, Abstract!NoIdx, NoIdx
  <2> QED
    BY <2>1 DEF IInv, TypeOK, RowsOf
<1>2. DOMAIN ByIdx = 0..(nextIdx - 1) /\ DOMAIN ByRecID = Records
  BY DEF IInv, TypeOK, ByIdx, ByRecID
<1>3. ASSUME NEW t \in Records, Abstract!AllocateIdx(t)
      PROVE  ByRecID'[r] = ByRecID[r] /\ ByIdx'[ByRecID'[r]] = ByIdx[ByRecID[r]]
  <2>1. CASE Abstract!HasEntry(t)
    BY <1>3, <2>1 DEF Abstract!AllocateIdx, Abstract!storeVars
  <2>2. CASE ~Abstract!HasEntry(t)
    <3>1. /\ ByRecID' = [ByRecID EXCEPT ![t] = nextIdx]
          /\ ByIdx' = [i \in 0..nextIdx |->
                         IF i = nextIdx THEN Abstract!StatusValid ELSE ByIdx[i]]
      BY <1>3, <2>2 DEF Abstract!AllocateIdx
    <3>2. r # t
      BY <2>2
    <3> QED
      BY <1>1, <1>2, <3>1, <3>2
  <2> QED
    BY <2>1, <2>2
<1>4. ASSUME NEW t \in Records, Abstract!SetStatus(t, Abstract!StatusInvalid)
      PROVE  /\ ByRecID'[r] = ByRecID[r]
             /\ ByIdx[ByRecID[r]] = StatusInvalid => ByIdx'[ByRecID'[r]] = StatusInvalid
  BY <1>1, <1>2, <1>4 DEF Abstract!SetStatus, Abstract!StatusInvalid, StatusInvalid
<1>5. ASSUME UNCHANGED Abstract!storeVars
      PROVE  ByRecID'[r] = ByRecID[r] /\ ByIdx'[ByRecID'[r]] = ByIdx[ByRecID[r]]
  BY <1>5 DEF Abstract!storeVars
<1> QED
  BY <1>3, <1>4, <1>5 DEF Abstract!Next

\* With the Postgres store too, the index of a record is never reassigned and a
\* revoked entry never valid again.
THEOREM Permanence == Spec => EntriesPersist
BY StepRefines, StepPersists, Invariance, PTL DEF Spec, EntriesPersist, Abstract!EntriesPersist
=============================================================================
