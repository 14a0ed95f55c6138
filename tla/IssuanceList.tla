----------------------------- MODULE IssuanceList -----------------------------
(***************************************************************************)
(* The records table: GET /oid4vci/v1/issuance (internal/issuance/list.go, *)
(* FindAll of the record stores) and the page of the web UI that walks     *)
(* through it (web/static/app.js, S6), while records are created, issued   *)
(* and revoked.                                                            *)
(*                                                                         *)
(* A listing is not atomic: PostgresStore counts, then selects a page, and *)
(* the service then looks up the status list entry of each row.  None of   *)
(* these queries reports an error: whatever fails, the answer is a listing *)
(* with a smaller count, fewer rows or fewer labels, and a request of the  *)
(* page fails only if it does not reach the issuer or its answer is lost.  *)
(* The operator clicks once the page is there or has failed (one load at a *)
(* time), and sorts by created_at, whose values are taken to differ: a     *)
(* record is modelled by its position in the order of creation.            *)
(***************************************************************************)
EXTENDS Naturals, Sequences, FiniteSetsExt

CONSTANTS Size,        \* recordsState.size
          Legacy,      \* records 1..Legacy were issued before there was a status list
          MaxRecords,  \* bound on the number of records
          MaxPage      \* bound on the page number

ASSUME SizeAssumption == {Size, MaxRecords, MaxPage} \subseteq Nat \ {0}
ASSUME LegacyAssumption == Legacy \in Nat

VARIABLES
  recs,             \* the record table, in order of creation: Record.Status, where
                    \* "draft" stands for pending and offer_created
  entry,            \* the status list entry of each record, "" if it has none
  page, order,      \* recordsState
  pc, total, rows,  \* the load under way: its control, count and rows so far
  table,            \* the rows on the screen
  nextDisabled,     \* btn-next.disabled
  failed,           \* history: queries of this load ("rows", "label") whose failure was
                    \* swallowed; the count belongs to the rows
  base, seen,       \* history: records that existed when the walk began; those on screen since
  reached,          \* history: pages 1..reached were on screen in this walk, from
                    \* queries that answered
  derailed          \* history: "Next" was clicked on a page that failed to load

dbVars   == <<recs, entry>>
walkVars == <<base, seen, reached, derailed>>
uiVars   == <<page, order, table, nextDisabled, walkVars>>
loadVars == <<pc, total, rows, failed>>
vars == <<dbVars, uiVars, loadVars>>

Ids == DOMAIN recs

Init ==
  /\ recs = [r \in 1..Legacy |-> "credential_issued"]
  /\ entry = [r \in 1..Legacy |-> ""]
  /\ page = 1 /\ order = "desc"
  /\ pc = "closed" /\ total = 0 /\ rows = <<>> /\ failed = {}
  /\ table = <<>> /\ nextDisabled = TRUE
  /\ base = {} /\ seen = {} /\ reached = 0 /\ derailed = FALSE

-----------------------------------------------------------------------------
(* Other handlers, meanwhile.                                              *)

Create ==
  /\ Len(recs) < MaxRecords
  /\ recs' = Append(recs, "draft")
  /\ entry' = Append(entry, "")
  /\ UNCHANGED <<uiVars, loadVars>>

AllocateIdx(r) ==
  /\ entry[r] = ""
  /\ entry' = [entry EXCEPT ![r] = "valid"]
  /\ UNCHANGED <<recs, uiVars, loadVars>>

\* Variant: the record is marked before its index is allocated.
MarkIssued_First(r) ==
  /\ recs' = [recs EXCEPT ![r] = "credential_issued"]
  /\ UNCHANGED <<entry, uiVars, loadVars>>

\* IssueCredential marks the record after AllocateIdx.
MarkIssued(r) ==
  /\ entry[r] # ""
  /\ recs' = [recs EXCEPT ![r] = "credential_issued"]
  /\ UNCHANGED <<entry, uiVars, loadVars>>

-----------------------------------------------------------------------------
(* The listing.                                                            *)

\* ORDER BY created_at.
Sorted(ord) ==
  [i \in Ids |-> IF ord = "desc" THEN Len(recs) + 1 - i ELSE i]

\* Variant: pages counted from 0.
Offset_ZeroBased(p) == p * Size

Offset(p) == (p - 1) * Size

\* The page of list l from an offset: cut at the end, empty beyond it.
PageOf(l, offset) ==
  IF offset >= Len(l)
  THEN <<>>
  ELSE SubSeq(l, offset + 1, Min({offset + Size, Len(l)}))

\* SELECT count(*).  On an error FindAll returns no rows and a total of 0, and does
\* not get to the rows.
FindAllCount ==
  /\ pc = "count"
  /\ \/ total' = Len(recs) /\ pc' = "select" /\ UNCHANGED failed
     \/ total' = 0 /\ pc' = "label" /\ failed' = {"rows"}
  /\ UNCHANGED <<rows, dbVars, uiVars>>

\* SELECT ... LIMIT size OFFSET offset.  An error returns no rows if the query or a
\* Scan fails, and the rows so far if the connection breaks (rows.Err is not asked).
FindAllRows ==
  /\ pc = "select"
  /\ LET ids == PageOf(Sorted(order), Offset(page))
     IN  \E n \in 0..Len(ids) :
           /\ rows' = [i \in 1..n |-> [id |-> ids[i], status |-> recs[ids[i]], label |-> "?"]]
           /\ failed' = IF n < Len(ids) THEN {"rows"} ELSE failed
  /\ pc' = "label"
  /\ UNCHANGED <<total, dbVars, uiVars>>

\* The first row without a label gets the one of its record's entry now, or none if
\* FindByRecordID fails: to the service that is a record without an entry.
credentialStatusLabel ==
  /\ pc = "label"
  /\ \E i \in DOMAIN rows :
       /\ rows[i].label = "?"
       /\ \A j \in 1..(i - 1) : rows[j].label # "?"
       /\ \/ /\ rows' = [rows EXCEPT ![i].label = entry[rows[i].id]]
             /\ UNCHANGED failed
          \/ /\ rows' = [rows EXCEPT ![i].label = ""]
             /\ failed' = failed \cup {"label"}
  /\ UNCHANGED <<pc, total, dbVars, uiVars>>

-----------------------------------------------------------------------------
(* The page.                                                               *)

\* loadRecords: the table is cleared and the page requested.
loadRecords ==
  /\ table' = <<>>
  /\ pc' = "count" /\ total' = 0 /\ rows' = <<>> /\ failed' = {}

Idle == pc \in {"closed", "shown", "error"}

\* A walk begins at page 1 with the records there are.
BeginWalk == base' = Ids /\ seen' = {} /\ reached' = 0 /\ derailed' = FALSE

totalPages(n) == IF n = 0 THEN 1 ELSE (n + Size - 1) \div Size

\* Variant: the last page still has a next one.
NextDisabled_OffByOne(p, n) == p > totalPages(n)

NextDisabled(p, n) == p >= totalPages(n)

renderRecords ==
  /\ pc = "label"
  /\ \A i \in DOMAIN rows : rows[i].label # "?"
  /\ table' = rows
  /\ nextDisabled' = NextDisabled(page, total)
  /\ seen' = seen \cup {r \in base : \E i \in DOMAIN rows : rows[i].id = r}
  /\ reached' = IF page = reached + 1 /\ "rows" \notin failed THEN page ELSE reached
  /\ pc' = "shown" /\ total' = 0 /\ rows' = <<>>
  /\ UNCHANGED <<failed, page, order, base, derailed, dbVars>>

\* The request does not arrive or its answer is lost: the table says so, the buttons
\* stay as they were.
LoadFails ==
  /\ pc \in {"count", "select", "label"}
  /\ pc' = "error" /\ total' = 0 /\ rows' = <<>> /\ failed' = {}
  /\ UNCHANGED <<dbVars, uiVars>>

\* The tab is opened, again or for the first time, on the page it was left at.
OpenRecords ==
  /\ Idle
  /\ loadRecords
  /\ IF pc = "closed" THEN BeginWalk ELSE UNCHANGED walkVars
  /\ UNCHANGED <<page, order, nextDisabled, dbVars>>

ClickPrev ==
  /\ Idle /\ page > 1
  /\ page' = page - 1
  /\ loadRecords
  /\ UNCHANGED <<order, nextDisabled, walkVars, dbVars>>

ClickNext ==
  /\ Idle /\ ~nextDisabled /\ page < MaxPage
  /\ page' = page + 1
  /\ loadRecords
  /\ derailed' = (derailed \/ pc = "error")
  /\ UNCHANGED <<order, nextDisabled, base, seen, reached, dbVars>>

\* The header of the sorted column: the other order, from page 1.
ClickSort ==
  /\ pc \in {"shown", "error"}
  /\ order' = IF order = "desc" THEN "asc" ELSE "desc"
  /\ page' = 1
  /\ loadRecords
  /\ BeginWalk
  /\ UNCHANGED <<nextDisabled, dbVars>>

\* The button of a row labelled "valid": RevokeCredential, then a reload if it
\* succeeds.  It may be refused or fail, and its answer may be lost.
ClickRevoke(i) ==
  /\ pc = "shown" /\ table[i].label = "valid"
  /\ \/ UNCHANGED <<entry, table, loadVars>>
     \/ /\ recs[table[i].id] = "credential_issued"
        /\ entry' = [entry EXCEPT ![table[i].id] = "revoked"]
        /\ loadRecords \/ UNCHANGED <<table, loadVars>>
  /\ UNCHANGED <<recs, page, order, nextDisabled, walkVars>>

-----------------------------------------------------------------------------
Next ==
  \/ Create
  \/ \E r \in Ids : AllocateIdx(r) \/ MarkIssued(r)
  \/ FindAllCount
  \/ FindAllRows
  \/ credentialStatusLabel
  \/ renderRecords
  \/ LoadFails
  \/ OpenRecords
  \/ ClickPrev
  \/ ClickNext
  \/ ClickSort
  \/ \E i \in DOMAIN table : ClickRevoke(i)

Spec == Init /\ [][Next]_vars

-----------------------------------------------------------------------------
(* Properties.                                                             *)

PositionOf(r) == IF order = "desc" THEN Len(recs) + 1 - r ELSE r

\* Going through the pages misses no record that was there at the start, however
\* many are created on the way: a record that was not on screen yet is still on
\* a page to come.  Pages whose rows FindAll could not read are not gone through.
NoRecordSkipped ==
  pc = "shown" => \A r \in base : r \in seen \/ PositionOf(r) > reached * Size

\* "Next" leads from a page that was shown to one that has rows, if FindAll can read
\* them, although the count and the rows of a listing are two queries and a count
\* that failed is shown like any other.  (After a page that failed to load the button
\* may lead past the end: its handler checks nothing.)
PageExists ==
  pc = "shown" /\ page > 1 /\ ~derailed /\ "rows" \notin failed => table # <<>>

\* A row that says credential_issued has a credential status, unless its credential
\* is older than the status list or the lookup failed: the record is read before its
\* entry, and IssueCredential writes them in the opposite order.
IssuedRowHasStatus ==
  \A i \in DOMAIN table :
    table[i].status = "credential_issued" /\ "label" \notin failed =>
      table[i].label # "" \/ table[i].id <= Legacy
=============================================================================
