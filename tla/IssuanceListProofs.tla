-------------------------- MODULE IssuanceListProofs --------------------------
(***************************************************************************)
(* IssuanceList, for any page size and any number of records, of which any *)
(* number were there before the status list: through pages that FindAll    *)
(* could read a walk misses nothing and Next leads to rows, and what a row *)
(* says of a record and of its credential fits together.                   *)
(***************************************************************************)
EXTENDS IssuanceList, SequenceTheorems, TLAPS

Statuses == {"draft", "credential_issued"}
Labels   == {"", "valid", "revoked"}
Row      == [id : Nat, status : Statuses, label : Labels \cup {"?"}]

TypeOK ==
  /\ recs \in Seq(Statuses)
  /\ entry \in Seq(Labels) /\ Len(entry) = Len(recs)
  /\ page \in Nat \ {0} /\ order \in {"asc", "desc"}
  /\ pc \in {"closed", "count", "select", "label", "shown", "error"}
  /\ total \in Nat /\ reached \in Nat
  /\ failed \subseteq {"rows", "label"}
  /\ base \subseteq Ids
  /\ rows \in [DOMAIN rows -> Row]
  /\ table \in [DOMAIN table -> Row]

\* The rows of a list are records as they were or further on: one that says
\* credential_issued is of a record that was marked, and so has an entry, whose
\* label it gets, unless it is older than the entries or the lookup fails.
RowsOK(l) ==
  \A i \in DOMAIN l :
    /\ l[i].id \in Ids
    /\ l[i].status = "credential_issued" =>
         /\ recs[l[i].id] = "credential_issued"
         /\ l[i].label # "" \/ l[i].id <= Legacy \/ "label" \in failed

MarkedHasEntry ==
  \A r \in Ids : recs[r] = "credential_issued" => entry[r] # "" \/ r <= Legacy

RowInv ==
  /\ MarkedHasEntry
  /\ RowsOK(rows)
  /\ RowsOK(table)
  /\ pc = "count" => DOMAIN rows = {}
  /\ pc \in {"count", "select", "label"} => DOMAIN table = {}

\* What the pages so far did not show is behind them, and once all rows of the next
\* page are read, what neither they nor the pages before have is behind that page.
\* Records created since only push it further.
WalkInv ==
  /\ \A r \in base : r \in seen \/ PositionOf(r) > reached * Size
  /\ pc = "label" /\ page = reached + 1 /\ "rows" \notin failed =>
       \A r \in base : \/ r \in seen
                       \/ \E i \in DOMAIN rows : rows[i].id = r
                       \/ PositionOf(r) > page * Size

\* The page asked for begins before the end of the table, unless "Next" was clicked
\* on one that had failed.  That rests on the count of the page before, which is no
\* more than the records there are by now, and 0 if the count failed.
PageInv ==
  /\ pc = "closed" => page = 1 /\ nextDisabled
  /\ page > 1 /\ ~derailed => (page - 1) * Size < Len(recs)
  /\ pc = "shown" /\ ~nextDisabled => page * Size < Len(recs)
  /\ pc \in {"select", "label"} => total <= Len(recs)
  /\ pc = "label" /\ page > 1 /\ ~derailed /\ "rows" \notin failed => DOMAIN rows # {}
  /\ pc = "shown" /\ page > 1 /\ ~derailed /\ "rows" \notin failed => DOMAIN table # {}

IInv == TypeOK /\ RowInv /\ WalkInv /\ PageInv

-----------------------------------------------------------------------------
(* Pages.                                                                  *)

LEMMA SizeFacts == Size \in Nat /\ Size >= 1
BY SizeAssumption

LEMMA PageBounds ==
  ASSUME NEW p \in Nat, NEW q \in Nat
  PROVE  /\ p * Size \in Nat
         /\ (p + 1) * Size = p * Size + Size
         /\ p <= q => p * Size <= q * Size
<1>1. p * Size \in Nat /\ (p + 1) * Size = p * Size + Size
  BY SizeFacts
<1>2. ASSUME p <= q PROVE p * Size <= q * Size
  <2>1. q - p \in Nat /\ (q - p) * Size \in Nat
    BY <1>2, SizeFacts
  <2>2. q * Size = p * Size + (q - p) * Size
    BY SizeFacts
  <2> QED
    BY <1>1, <2>1, <2>2, SizeFacts
<1> QED
  BY <1>1, <1>2

\* The button is enabled on pages that end before the count does.
LEMMA NextPageHasRows ==
  ASSUME NEW p \in Nat \ {0}, NEW n \in Nat, ~NextDisabled(p, n)
  PROVE  p * Size < n
<1>1. n # 0 /\ p < (n + Size - 1) \div Size
  BY SizeFacts DEF NextDisabled, totalPages
<1> DEFINE m == n + Size - 1
           q == m \div Size
<1>2. m \in Nat
  BY SizeFacts
<1>3. q \in Nat /\ q * Size <= m
  <2> HIDE DEF m
  <2> QED
   BY <1>2, SizeFacts
<1>4. p + 1 <= q
  BY <1>1, <1>3
<1>5. (p + 1) * Size <= q * Size /\ (p + 1) * Size = p * Size + Size /\ p * Size \in Nat /\ q * Size \in Nat
  <2> HIDE DEF q
  <2> QED BY <1>3, <1>4, PageBounds
<1> QED
  <2>1. p * Size + Size <= n + Size - 1
    <3> HIDE DEF q
    <3> QED BY <1>3, <1>5, SizeFacts
  <2> QED
    BY <2>1, <1>5, SizeFacts

LEMMA MinIs == ASSUME NEW a \in Nat, NEW b \in Nat PROVE Min({a, b}) = IF a <= b THEN a ELSE b
BY DEF Min

\* Which elements of a list its page from o has.
LEMMA PageOfFacts ==
  ASSUME NEW S, NEW l \in Seq(S), NEW o \in Nat
  PROVE  /\ PageOf(l, o) \in Seq(S)
         /\ \A i \in DOMAIN PageOf(l, o) : i \in Nat /\ o + i \in 1..Len(l) /\ PageOf(l, o)[i] = l[o + i]
         /\ \A k \in 1..Len(l) : o < k /\ k <= o + Size => k - o \in DOMAIN PageOf(l, o)
<1>1. CASE o >= Len(l)
  BY <1>1 DEF PageOf
<1>2. CASE ~(o >= Len(l))
  <2> DEFINE e == IF o + Size <= Len(l) THEN o + Size ELSE Len(l)
  <2>1. PageOf(l, o) = SubSeq(l, o + 1, e)
    BY <1>2, MinIs, SizeFacts DEF PageOf
  <2>2. e \in Nat /\ o < e /\ e <= Len(l)
    BY <1>2, SizeFacts
  <2>3. SubSeq(l, o + 1, e) = [i \in 1..(e - o) |-> l[o + i]]
    BY <1>2, <2>2, SizeFacts
  <2>4. DOMAIN PageOf(l, o) = 1..(e - o) /\ \A i \in 1..(e - o) : PageOf(l, o)[i] = l[o + i]
    BY <2>1, <2>3
  <2>5. \A i \in 1..(e - o) : i \in Nat /\ o + i \in 1..Len(l)
    BY <2>2
  <2>6. \A k \in 1..Len(l) : o < k /\ k <= o + Size => k - o \in 1..(e - o)
    BY SizeFacts
  <2>7. PageOf(l, o) \in Seq(S)
    BY <2>1, <2>2, <2>3, <2>5
  <2> QED
    BY <2>4, <2>5, <2>6, <2>7
<1> QED
  BY <1>1, <1>2
-----------------------------------------------------------------------------
(* The steps.                                                              *)

LEMMA TypeFacts ==
  ASSUME TypeOK
  PROVE  /\ Len(recs) \in Nat /\ Ids = 1..Len(recs) /\ DOMAIN entry = Ids
         /\ \A r \in base : r \in 1..Len(recs)
         /\ page * Size \in Nat /\ (page - 1) * Size \in Nat /\ reached * Size \in Nat
         /\ page * Size = (page - 1) * Size + Size
         /\ Offset(page) = (page - 1) * Size
<1>1. Len(recs) \in Nat /\ Ids = 1..Len(recs) /\ DOMAIN entry = Ids
  BY LenProperties DEF TypeOK, Ids
<1>2. page - 1 \in Nat /\ page \in Nat /\ (page - 1) + 1 = page /\ reached \in Nat
  BY DEF TypeOK
<1>3. page * Size \in Nat /\ (page - 1) * Size \in Nat /\ reached * Size \in Nat
  BY <1>2, PageBounds
<1>4. page * Size = (page - 1) * Size + Size
  BY <1>2, PageBounds
<1> QED
  BY <1>1, <1>3, <1>4 DEF TypeOK, Offset

\* What happens in the database meanwhile: records are added, never moved or removed,
\* and one that is marked stays so.
MarkedStays == \A r \in Ids : recs[r] = "credential_issued" => recs'[r] = "credential_issued"

LEMMA MeanwhileKeeps ==
  ASSUME IInv, recs' \in Seq(Statuses), entry' \in Seq(Labels), Len(entry') = Len(recs'),
         Len(recs) <= Len(recs'), MarkedStays, MarkedHasEntry', UNCHANGED <<uiVars, loadVars>>
  PROVE  IInv'
<1>1. Len(recs) \in Nat /\ Len(recs') \in Nat /\ Ids = 1..Len(recs) /\ Ids' = 1..Len(recs')
  BY TypeFacts, LenProperties DEF IInv, Ids
<1>2. Len(recs) <= Len(recs') /\ Ids \subseteq Ids'
  BY <1>1
<1>3. UNCHANGED <<page, order, table, nextDisabled, base, seen, reached, derailed, pc, total, rows, failed>>
  BY DEF uiVars, walkVars, loadVars
<1>4. TypeOK'
  BY <1>2, <1>3 DEF IInv, TypeOK
<1>5. RowInv'
  BY <1>2, <1>3 DEF IInv, RowInv, RowsOK, MarkedStays
<1>6. \A r \in base : \A n \in Nat : PositionOf(r) > n => PositionOf(r)' > n
  BY <1>1, <1>2, <1>3, TypeFacts DEF IInv, PositionOf
<1>7. WalkInv'
  <2>1. page * Size \in Nat /\ reached * Size \in Nat
    BY TypeFacts DEF IInv
  <2>2. \A r \in base : r \in seen \/ PositionOf(r)' > reached * Size
    BY <1>6, <2>1 DEF IInv, WalkInv
  <2>3. pc = "label" /\ page = reached + 1 /\ "rows" \notin failed =>
          \A r \in base : \/ r \in seen
                          \/ \E i \in DOMAIN rows : rows[i].id = r
                          \/ PositionOf(r)' > page * Size
    BY <1>6, <2>1 DEF IInv, WalkInv
  <2> QED
    BY <1>3, <2>2, <2>3 DEF WalkInv
<1>8. PageInv'
  BY <1>1, <1>2, <1>3, TypeFacts DEF IInv, PageInv, TypeOK
<1> QED
  BY <1>4, <1>5, <1>7, <1>8 DEF IInv

\* What Append and EXCEPT make of a sequence.
LEMMA Appended ==
  ASSUME NEW S, NEW s \in Seq(S), NEW e \in S, NEW t, t = Append(s, e)
  PROVE  /\ t \in Seq(S) /\ Len(t) = Len(s) + 1 /\ t[Len(s) + 1] = e
         /\ \A i \in 1..Len(s) : t[i] = s[i]
BY AppendProperties

LEMMA Updated ==
  ASSUME NEW S, NEW s \in Seq(S), NEW k \in 1..Len(s), NEW e \in S, NEW t, t = [s EXCEPT ![k] = e]
  PROVE  /\ t \in Seq(S) /\ Len(t) = Len(s)
         /\ \A i \in 1..Len(s) : t[i] = IF i = k THEN e ELSE s[i]
BY ExceptSeq

LEMMA DatabaseStep ==
  ASSUME IInv, Create \/ \E r \in Ids : AllocateIdx(r) \/ MarkIssued(r)
  PROVE  IInv'
<1>1. recs \in Seq(Statuses) /\ "draft" \in Statuses /\ "credential_issued" \in Statuses
  BY DEF IInv, TypeOK, Statuses
<1>2. entry \in Seq(Labels)
  BY DEF IInv, TypeOK
<1>3. Len(entry) = Len(recs) /\ Len(recs) \in Nat
  BY TypeFacts DEF IInv, TypeOK
<1>4. Ids = 1..Len(recs) /\ Ids = 1..Len(entry)
  BY TypeFacts DEF IInv, TypeOK
<1>5. MarkedHasEntry
  BY DEF IInv, RowInv
<1>6. CASE Create
  <2>1. recs' = Append(recs, "draft")
    BY <1>6 DEF Create
  <2>2. entry' = Append(entry, "")
    BY <1>6 DEF Create
  <2>3. /\ recs' \in Seq(Statuses) /\ Len(recs') = Len(recs) + 1
        /\ recs'[Len(recs) + 1] = "draft" /\ \A r \in 1..Len(recs) : recs'[r] = recs[r]
    BY <1>1, <2>1, Appended
  <2>4. /\ entry' \in Seq(Labels) /\ Len(entry') = Len(entry) + 1
        /\ \A r \in 1..Len(entry) : entry'[r] = entry[r]
    <3> DEFINE none == ""
    <3>1. none \in Labels
      BY DEF Labels
    <3>2. entry' = Append(entry, none)
      BY <2>2
    <3> HIDE DEF none
    <3> QED
      BY <1>2, <3>1, <3>2, Appended
  <2>5. \A r \in Ids' : r \in Ids \/ r = Len(recs) + 1
    <3>1. Ids' = 1..Len(recs')
      BY <2>3, LenProperties DEF Ids
    <3> QED
      BY <1>3, <1>4, <2>3, <3>1
  <2>6. MarkedHasEntry'
    BY <1>4, <1>5, <2>3, <2>4, <2>5 DEF MarkedHasEntry
  <2>7. MarkedStays
    BY <1>4, <2>3 DEF MarkedStays
  <2>8. Len(recs) <= Len(recs') /\ Len(entry') = Len(recs')
    BY <1>3, <2>3, <2>4
  <2>9. UNCHANGED <<uiVars, loadVars>>
    BY <1>6 DEF Create
  <2> QED
    BY <2>3, <2>4, <2>6, <2>7, <2>8, <2>9, MeanwhileKeeps
<1>7. ASSUME NEW r \in Ids, AllocateIdx(r) PROVE IInv'
  <2>1. recs' = recs /\ UNCHANGED <<uiVars, loadVars>>
    BY <1>7 DEF AllocateIdx
  <2>2. r \in 1..Len(entry) /\ entry' = [entry EXCEPT ![r] = "valid"]
    BY <1>4, <1>7 DEF AllocateIdx
  <2>3. /\ entry' \in Seq(Labels) /\ Len(entry') = Len(entry)
        /\ \A i \in 1..Len(entry) : entry'[i] = IF i = r THEN "valid" ELSE entry[i]
    <3>1. "valid" \in Labels
      BY DEF Labels
    <3> QED
      BY <1>2, <2>2, <3>1, Updated
  <2>4. Ids' = Ids
    BY <2>1 DEF Ids
  <2>5. \A i \in Ids : entry'[i] = entry[i] \/ entry'[i] = "valid"
    BY <1>4, <2>3
  <2>6. MarkedHasEntry'
    BY <1>5, <2>1, <2>4, <2>5 DEF MarkedHasEntry
  <2>7. MarkedStays
    BY <2>1 DEF MarkedStays
  <2>8. Len(recs) <= Len(recs') /\ Len(entry') = Len(recs')
    BY <1>3, <2>1, <2>3
  <2> QED
    BY <1>1, <2>1, <2>3, <2>6, <2>7, <2>8, MeanwhileKeeps
<1>8. ASSUME NEW r \in Ids, MarkIssued(r) PROVE IInv'
  <2>1. entry' = entry /\ UNCHANGED <<uiVars, loadVars>>
    BY <1>8 DEF MarkIssued
  <2>2. r \in 1..Len(recs) /\ recs' = [recs EXCEPT ![r] = "credential_issued"]
    BY <1>4, <1>8 DEF MarkIssued
  <2>3. /\ recs' \in Seq(Statuses) /\ Len(recs') = Len(recs)
        /\ \A i \in 1..Len(recs) : recs'[i] = IF i = r THEN "credential_issued" ELSE recs[i]
    BY <1>1, <2>2, Updated
  <2>4. Ids' = Ids
    BY <1>4, <2>3, LenProperties DEF Ids
  <2>5. \A i \in Ids : recs'[i] = IF i = r THEN "credential_issued" ELSE recs[i]
    BY <1>4, <2>3
  <2>6. MarkedHasEntry'
    BY <1>5, <1>8, <2>1, <2>4, <2>5 DEF MarkedHasEntry, MarkIssued
  <2>7. MarkedStays
    BY <2>5 DEF MarkedStays
  <2>8. Len(recs) <= Len(recs') /\ Len(entry') = Len(recs')
    BY <1>3, <2>1, <2>3
  <2> QED
    BY <1>2, <2>1, <2>3, <2>6, <2>7, <2>8, MeanwhileKeeps
<1> QED
  BY <1>6, <1>7, <1>8

\* The rows a page gets: records of the table, every one whose position is on the
\* page, and some if the page begins before the end of the table.
LEMMA RowsOfPage ==
  ASSUME TypeOK, NEW ids, ids = PageOf(Sorted(order), Offset(page))
  PROVE  /\ ids \in Seq(Nat)
         /\ \A i \in DOMAIN ids : ids[i] \in Ids
         /\ \A r \in Ids : PositionOf(r) > (page - 1) * Size /\ ~(PositionOf(r) > page * Size)
                             => \E i \in DOMAIN ids : ids[i] = r
         /\ (page - 1) * Size < Len(recs) => DOMAIN ids # {}
<1> DEFINE l == Sorted(order)
           o == (page - 1) * Size
           n == Len(recs)
<1>1. n \in Nat /\ Ids = 1..n /\ o \in Nat /\ Offset(page) = o /\ page * Size = o + Size
  BY TypeFacts
<1>2. order \in {"asc", "desc"}
  BY DEF TypeOK
<1>3. l = [i \in Ids |-> IF order = "desc" THEN n + 1 - i ELSE i]
  BY DEF Sorted
<1>4. \A r \in Ids : PositionOf(r) = IF order = "desc" THEN n + 1 - r ELSE r
  BY DEF PositionOf
<1> HIDE DEF l, o, n
<1>5. l \in [1..n -> Nat]
  BY <1>1, <1>3
<1>6. l \in Seq(Nat) /\ Len(l) = n
  BY <1>1, <1>5
<1>7. /\ ids \in Seq(Nat)
      /\ \A i \in DOMAIN ids : i \in Nat /\ o + i \in 1..n /\ ids[i] = l[o + i]
      /\ \A k \in 1..n : o < k /\ k <= o + Size => k - o \in DOMAIN ids
  <2>1. ids = PageOf(l, o)
    BY <1>1 DEF l
  <2>2. l \in Seq(Nat) /\ o \in Nat
    BY <1>1, <1>6
  <2>3. /\ PageOf(l, o) \in Seq(Nat)
        /\ \A i \in DOMAIN PageOf(l, o) : i \in Nat /\ o + i \in 1..Len(l) /\ PageOf(l, o)[i] = l[o + i]
        /\ \A k \in 1..Len(l) : o < k /\ k <= o + Size => k - o \in DOMAIN PageOf(l, o)
    BY <2>2, PageOfFacts
  <2> QED
    BY <1>6, <2>1, <2>3
<1>8. \A k \in 1..n : l[k] \in Ids
  BY <1>1, <1>3
<1>9. \A i \in DOMAIN ids : ids[i] \in Ids
  BY <1>7, <1>8
<1>10. ASSUME NEW r \in Ids, PositionOf(r) > o, ~(PositionOf(r) > page * Size)
       PROVE  \E i \in DOMAIN ids : ids[i] = r
  <2> DEFINE k == PositionOf(r)
  <2>1. k \in 1..n /\ l[k] = r
    BY <1>1, <1>3, <1>4
  <2> HIDE DEF k
  <2>2. o < k /\ k <= o + Size
    BY <1>1, <1>10, <2>1, SizeFacts DEF k
  <2>3. k - o \in DOMAIN ids /\ o + (k - o) = k
    BY <1>1, <1>7, <2>1, <2>2
  <2>4. ids[k - o] = r
    BY <1>7, <2>1, <2>3
  <2> QED
    BY <2>3, <2>4
<1>11. ASSUME o < n PROVE DOMAIN ids # {}
  <2>1. o + 1 \in 1..n /\ o < o + 1 /\ o + 1 <= o + Size
    BY <1>1, <1>11, SizeFacts
  <2> QED
    BY <1>7, <2>1
<1> QED
  BY <1>7, <1>9, <1>10, <1>11 DEF o, n

LEMMA CountStep == ASSUME IInv, FindAllCount PROVE IInv'
<1>1. /\ pc = "count"
      /\ \/ pc' = "select" /\ total' = Len(recs) /\ failed' = failed
         \/ pc' = "label" /\ total' = 0 /\ failed' = {"rows"}
      /\ UNCHANGED <<recs, entry, page, order, table, nextDisabled, base, seen, reached, derailed, rows>>
  BY DEF FindAllCount, dbVars, uiVars, walkVars
<1>2. Len(recs) \in Nat
  BY TypeFacts DEF IInv
<1>3. TypeOK'
  BY <1>1, <1>2 DEF IInv, TypeOK, Ids
<1>4. RowInv'
  BY <1>1 DEF IInv, RowInv, MarkedHasEntry, RowsOK, Ids
<1>5. WalkInv'
  BY <1>1 DEF IInv, WalkInv, PositionOf
<1>6. PageInv'
  BY <1>1, <1>2 DEF IInv, PageInv
<1> QED
  BY <1>3, <1>4, <1>5, <1>6 DEF IInv

LEMMA SelectStep == ASSUME IInv, FindAllRows PROVE IInv'
<1> DEFINE ids == PageOf(Sorted(order), Offset(page))
<1>1. PICK n \in 0..Len(ids) :
        /\ rows' = [i \in 1..n |-> [id |-> ids[i], status |-> recs[ids[i]], label |-> "?"]]
        /\ failed' = IF n < Len(ids) THEN {"rows"} ELSE failed
  BY DEF FindAllRows
<1>2. /\ pc = "select" /\ pc' = "label"
      /\ UNCHANGED <<recs, entry, page, order, table, nextDisabled, base, seen, reached, derailed, total>>
  BY DEF FindAllRows, dbVars, uiVars, walkVars
<1>3. /\ ids \in Seq(Nat)
      /\ \A i \in DOMAIN ids : ids[i] \in Ids
      /\ \A r \in Ids : PositionOf(r) > (page - 1) * Size /\ ~(PositionOf(r) > page * Size)
                          => \E i \in DOMAIN ids : ids[i] = r
      /\ (page - 1) * Size < Len(recs) => DOMAIN ids # {}
  BY RowsOfPage DEF IInv
<1> HIDE DEF ids
<1>4. \A r \in Ids : recs[r] \in Statuses /\ r \in Nat
  BY DEF IInv, TypeOK, Ids
<1>5. /\ Len(ids) \in Nat /\ DOMAIN ids = 1..Len(ids) /\ DOMAIN rows' = 1..n
      /\ 1..n \subseteq DOMAIN ids
      /\ "rows" \notin failed' => DOMAIN rows' = DOMAIN ids
  <2>1. Len(ids) \in Nat /\ DOMAIN ids = 1..Len(ids)
    BY <1>3, LenProperties
  <2>2. DOMAIN rows' = 1..n /\ 1..n \subseteq 1..Len(ids)
    BY <1>1, <2>1
  <2>3. ASSUME "rows" \notin failed' PROVE n = Len(ids)
    <3> DEFINE m == Len(ids)
    <3>1. ~(n < m) /\ m \in Nat /\ n \in 0..m
      BY <1>1, <2>1, <2>3
    <3> HIDE DEF m
    <3>2. n = m
      BY <3>1
    <3> QED
      BY <3>2 DEF m
  <2> QED
    BY <2>1, <2>2, <2>3
<1>6. \A i \in DOMAIN rows' : rows'[i].id = ids[i] /\ rows'[i].status = recs[ids[i]] /\ rows'[i].label = "?"
  BY <1>1, <1>5
<1>7. TypeOK'
  <2>1. rows' \in [1..n -> Row]
    BY <1>1, <1>3, <1>4, <1>5 DEF Row
  <2>2. failed' \subseteq {"rows", "label"}
    BY <1>1 DEF IInv, TypeOK
  <2> QED
    BY <1>2, <1>5, <2>1, <2>2 DEF IInv, TypeOK, Ids
<1>8. RowInv'
  <2>1. RowsOK(rows)'
    <3>1. Ids' = Ids /\ \A i \in DOMAIN rows' : rows'[i].id \in Ids
      BY <1>2, <1>3, <1>5, <1>6 DEF Ids
    <3>2. \A i \in DOMAIN rows' : rows'[i].status = recs'[rows'[i].id] /\ rows'[i].label # ""
      BY <1>2, <1>6
    <3> QED
      BY <3>1, <3>2 DEF RowsOK
  <2> QED
    BY <1>2, <2>1 DEF IInv, RowInv, RowsOK, MarkedHasEntry, Ids
<1>9. WalkInv'
  <2>1. base \subseteq Ids /\ page \in Nat /\ reached \in Nat
    BY DEF IInv, TypeOK
  <2>2. ASSUME page = reached + 1, "rows" \notin failed',
               NEW r \in base, r \notin seen, ~(PositionOf(r) > page * Size)
        PROVE  \E i \in DOMAIN rows' : rows'[i].id = r
    <3>1. page - 1 = reached
      BY <2>1, <2>2
    <3>2. PositionOf(r) > (page - 1) * Size
      BY <2>2, <3>1 DEF IInv, WalkInv
    <3>3. \E i \in DOMAIN ids : ids[i] = r
      BY <1>3, <2>1, <2>2, <3>2
    <3> QED
      BY <1>5, <1>6, <2>2, <3>3
  <2> QED
    BY <1>2, <2>2 DEF IInv, WalkInv, PositionOf
<1>10. PageInv'
  BY <1>2, <1>3, <1>5 DEF IInv, PageInv
<1> QED
  BY <1>7, <1>8, <1>9, <1>10 DEF IInv

LEMMA LabelStep == ASSUME IInv, credentialStatusLabel PROVE IInv'
<1>1. PICK k \in DOMAIN rows :
        \/ rows' = [rows EXCEPT ![k].label = entry[rows[k].id]] /\ failed' = failed
        \/ rows' = [rows EXCEPT ![k].label = ""] /\ failed' = failed \cup {"label"}
  BY DEF credentialStatusLabel
<1>2. UNCHANGED <<recs, entry, page, order, table, nextDisabled, base, seen, reached, derailed, total, pc>> /\ pc = "label"
  BY DEF credentialStatusLabel, dbVars, uiVars, walkVars
<1>3. rows \in [DOMAIN rows -> Row] /\ rows[k] \in Row /\ rows[k].id \in Ids
  BY DEF IInv, TypeOK, RowInv, RowsOK
<1>4. entry[rows[k].id] \in Labels
  <2>1. DOMAIN entry = Ids
    BY TypeFacts DEF IInv
  <2> QED
    BY <1>3, <2>1 DEF IInv, TypeOK
<1>5. PICK e \in Labels :
        /\ rows' = [rows EXCEPT ![k].label = e]
        /\ (e = entry[rows[k].id] /\ failed' = failed) \/ failed' = failed \cup {"label"}
  <2>1. "" \in Labels
    BY DEF Labels
  <2> QED
    BY <1>1, <1>4, <2>1
<1>6. /\ DOMAIN rows' = DOMAIN rows
      /\ \A i \in DOMAIN rows : rows'[i].id = rows[i].id /\ rows'[i].status = rows[i].status
      /\ \A i \in DOMAIN rows : rows'[i].label = IF i = k THEN e ELSE rows[i].label
  BY <1>3, <1>5 DEF Row
<1>7. "rows" \in failed' <=> "rows" \in failed
  BY <1>5
<1>8. TypeOK'
  <2>1. rows' \in [DOMAIN rows -> Row]
    BY <1>3, <1>5 DEF Row
  <2>2. failed' \subseteq {"rows", "label"}
    BY <1>5 DEF IInv, TypeOK
  <2> QED
    BY <1>2, <1>6, <2>1, <2>2 DEF IInv, TypeOK, Ids
<1>9. RowInv'
  <2>1. /\ RowsOK(rows) /\ MarkedHasEntry /\ Ids' = Ids
        /\ "label" \in failed => "label" \in failed'
    BY <1>2, <1>5 DEF IInv, RowInv, Ids
  <2>2. ASSUME NEW i \in DOMAIN rows, rows[i].status = "credential_issued"
        PROVE  /\ recs[rows[i].id] = "credential_issued"
               /\ rows'[i].label # "" \/ rows[i].id <= Legacy \/ "label" \in failed'
    <3>1. CASE i = k
      BY <1>5, <1>6, <2>1, <2>2, <3>1 DEF RowsOK, MarkedHasEntry
    <3>2. CASE i # k
      BY <1>6, <2>1, <2>2, <3>2 DEF RowsOK
    <3> QED
      BY <3>1, <3>2
  <2>3. RowsOK(rows)'
    BY <1>2, <1>6, <2>1, <2>2 DEF RowsOK
  <2> QED
    BY <1>2, <2>3 DEF IInv, RowInv, RowsOK, MarkedHasEntry, Ids
<1>10. WalkInv'
  BY <1>2, <1>6, <1>7 DEF IInv, WalkInv, PositionOf
<1>11. PageInv'
  BY <1>2, <1>6, <1>7 DEF IInv, PageInv
<1> QED
  BY <1>8, <1>9, <1>10, <1>11 DEF IInv

LEMMA RenderStep == ASSUME IInv, renderRecords PROVE IInv'
<1>1. /\ pc = "label" /\ pc' = "shown"
      /\ table' = rows /\ rows' = <<>> /\ total' = 0
      /\ nextDisabled' = NextDisabled(page, total)
      /\ UNCHANGED <<page, order, base, derailed, recs, entry, failed>>
  BY DEF renderRecords, dbVars
<1>2. /\ seen' = seen \cup {r \in base : \E i \in DOMAIN rows : rows[i].id = r}
      /\ reached' = IF page = reached + 1 /\ "rows" \notin failed THEN page ELSE reached
  BY DEF renderRecords
<1>3. DOMAIN rows' = {} /\ rows' \in [{} -> Row]
  BY <1>1
<1>4. TypeOK'
  BY <1>1, <1>2, <1>3 DEF IInv, TypeOK, Ids
<1>5. RowInv'
  BY <1>1, <1>3 DEF IInv, RowInv, RowsOK, MarkedHasEntry, Ids
<1>6. WalkInv'
  <2>1. \A r \in base : r \in seen' \/ PositionOf(r) > reached' * Size
    BY <1>1, <1>2 DEF IInv, WalkInv
  <2> QED
    BY <1>1, <2>1 DEF WalkInv, PositionOf
<1>7. PageInv'
  <2>1. page \in Nat \ {0} /\ total \in Nat /\ total <= Len(recs) /\ page * Size \in Nat /\ Len(recs) \in Nat
    BY <1>1, TypeFacts DEF IInv, TypeOK, PageInv
  <2>2. ~nextDisabled' => page * Size < Len(recs)
    BY <1>1, <2>1, NextPageHasRows
  <2> QED
    BY <1>1, <2>2 DEF IInv, PageInv
<1> QED
  BY <1>4, <1>5, <1>6, <1>7 DEF IInv

LEMMA FailStep == ASSUME IInv, LoadFails PROVE IInv'
<1>1. /\ pc' = "error" /\ total' = 0 /\ rows' = <<>> /\ failed' = {} /\ DOMAIN table = {}
      /\ UNCHANGED <<recs, entry, page, order, table, nextDisabled, base, seen, reached, derailed>>
  BY DEF LoadFails, IInv, RowInv, dbVars, uiVars, walkVars
<1>2. DOMAIN rows' = {} /\ rows' \in [{} -> Row]
  BY <1>1
<1>3. TypeOK'
  BY <1>1, <1>2 DEF IInv, TypeOK, Ids
<1>4. RowInv'
  BY <1>1, <1>2 DEF IInv, RowInv, RowsOK, MarkedHasEntry, Ids
<1>5. WalkInv'
  BY <1>1 DEF IInv, WalkInv, PositionOf
<1>6. PageInv'
  BY <1>1 DEF IInv, PageInv
<1> QED
  BY <1>3, <1>4, <1>5, <1>6 DEF IInv

\* Whatever was clicked, a load leaves the invariant to the page it asks for and
\* the walk it belongs to.
LEMMA LoadStep ==
  ASSUME IInv, loadRecords, UNCHANGED recs, entry' \in Seq(Labels), Len(entry') = Len(entry), MarkedHasEntry',
         page' \in Nat \ {0}, order' \in {"asc", "desc"},
         UNCHANGED <<order, base, seen, reached>> \/ BeginWalk,
         page' > 1 /\ ~derailed' => (page' - 1) * Size < Len(recs)
  PROVE  IInv'
<1>1. pc' = "count" /\ table' = <<>> /\ total' = 0 /\ rows' = <<>> /\ failed' = {}
  BY DEF loadRecords
<1>2. /\ DOMAIN table' = {} /\ table' \in [{} -> Row] /\ Ids' = Ids
      /\ DOMAIN rows' = {} /\ rows' \in [{} -> Row]
  BY <1>1 DEF Ids
<1>3. base' \subseteq Ids /\ reached' \in Nat
  BY DEF BeginWalk, IInv, TypeOK
<1>4. TypeOK'
  BY <1>1, <1>2, <1>3 DEF IInv, TypeOK
<1>5. RowInv'
  BY <1>1, <1>2 DEF IInv, RowInv, RowsOK
<1>6. \A r \in base' : r \in seen' \/ PositionOf(r)' > reached' * Size
  <2>1. CASE UNCHANGED <<order, base, seen, reached>>
    BY <2>1 DEF IInv, WalkInv, PositionOf
  <2>2. CASE BeginWalk
    <3>1. base' = Ids /\ reached' = 0 /\ Ids = 1..Len(recs) /\ Len(recs) \in Nat
      BY <2>2, TypeFacts DEF BeginWalk, IInv
    <3>2. 0 * Size = 0
      BY SizeFacts
    <3>3. \A r \in base' : PositionOf(r)' > 0
      BY <3>1 DEF PositionOf
    <3> QED
      BY <3>1, <3>2, <3>3
  <2> QED
    BY <2>1, <2>2
<1>7. WalkInv'
  BY <1>1, <1>6 DEF WalkInv
<1>8. PageInv'
  BY <1>1 DEF PageInv
<1> QED
  BY <1>4, <1>5, <1>7, <1>8 DEF IInv

LEMMA ClickStep ==
  ASSUME IInv, OpenRecords \/ ClickPrev \/ ClickNext \/ ClickSort
  PROVE  IInv'
<1>1. UNCHANGED recs /\ entry' = entry /\ MarkedHasEntry' /\ entry \in Seq(Labels)
  BY DEF IInv, TypeOK, RowInv, MarkedHasEntry, Ids, OpenRecords, ClickPrev, ClickNext, ClickSort, dbVars
<1>2. page \in Nat \ {0} /\ order \in {"asc", "desc"} /\ Len(recs) \in Nat /\ page * Size \in Nat
      /\ (page - 1) * Size \in Nat
  BY TypeFacts DEF IInv, TypeOK
<1>3. page > 1 /\ ~derailed => (page - 1) * Size < Len(recs)
  BY DEF IInv, PageInv
<1>4. CASE OpenRecords
  <2>1. loadRecords /\ page' = page /\ order' = order
    BY <1>4 DEF OpenRecords
  <2>2. IF pc = "closed" THEN BeginWalk ELSE UNCHANGED walkVars
    BY <1>4 DEF OpenRecords
  <2>3. CASE pc = "closed"
    <3>1. page = 1
      BY <2>3 DEF IInv, PageInv
    <3> QED
      BY <1>1, <1>2, <2>1, <2>2, <2>3, <3>1, LoadStep
  <2>4. CASE pc # "closed"
    <3>1. UNCHANGED <<base, seen, reached, derailed>>
      BY <2>2, <2>4 DEF walkVars
    <3> QED
      BY <1>1, <1>2, <1>3, <2>1, <3>1, LoadStep
  <2> QED
    BY <2>3, <2>4
<1>5. CASE ClickPrev
  <2>1. loadRecords /\ page > 1 /\ page' = page - 1 /\ UNCHANGED <<order, base, seen, reached, derailed>>
    BY <1>5 DEF ClickPrev, walkVars
  <2>2. page - 1 \in Nat \ {0} /\ page' \in Nat \ {0}
    BY <1>2, <2>1
  <2>3. (page - 2) * Size <= (page - 1) * Size /\ (page - 2) * Size \in Nat
    <3>1. page - 2 \in Nat /\ page - 1 \in Nat /\ page - 2 <= page - 1
      BY <1>2, <2>1
    <3> QED
      BY <3>1, PageBounds
  <2>4. page' - 1 = page - 2
    BY <1>2, <2>1
  <2>5. ~derailed' => (page' - 1) * Size < Len(recs)
    BY <1>2, <1>3, <2>1, <2>3, <2>4
  <2> QED
    BY <1>1, <1>2, <2>1, <2>2, <2>5, LoadStep
<1>6. CASE ClickNext
  <2>1. /\ Idle /\ ~nextDisabled /\ loadRecords /\ page' = page + 1
        /\ derailed' = (derailed \/ pc = "error") /\ UNCHANGED <<order, base, seen, reached>>
    BY <1>6 DEF ClickNext
  <2>2. ~derailed' => pc = "shown"
    BY <2>1 DEF Idle, IInv, PageInv
  <2>3. ~derailed' => page * Size < Len(recs)
    BY <2>1, <2>2 DEF IInv, PageInv
  <2>4. page' \in Nat \ {0} /\ page' - 1 = page
    BY <1>2, <2>1
  <2> QED
    BY <1>1, <1>2, <2>1, <2>3, <2>4, LoadStep
<1>7. CASE ClickSort
  <2>1. loadRecords /\ page' = 1 /\ BeginWalk /\ order' \in {"asc", "desc"}
    BY <1>7 DEF ClickSort
  <2> QED
    BY <1>1, <2>1, LoadStep
<1> QED
  BY <1>4, <1>5, <1>6, <1>7

LEMMA RevokeStep ==
  ASSUME IInv, NEW i \in DOMAIN table, ClickRevoke(i)
  PROVE  IInv'
<1> DEFINE r == table[i].id
<1>1. UNCHANGED <<recs, page, order, nextDisabled, base, seen, reached, derailed>>
  BY DEF ClickRevoke, walkVars
<1>2. CASE UNCHANGED <<entry, table, loadVars>>
  <2>1. IInv' = IInv
    BY <1>1, <1>2 DEF IInv, TypeOK, RowInv, RowsOK, MarkedHasEntry, WalkInv, PageInv, Ids, PositionOf, loadVars
  <2> QED
    BY <2>1
<1>3. CASE entry' = [entry EXCEPT ![r] = "revoked"] /\ (loadRecords \/ UNCHANGED <<table, loadVars>>)
  <2>1. r \in Ids
    BY DEF IInv, RowInv, RowsOK
  <2> HIDE DEF r
  <2>2. r \in 1..Len(entry) /\ Ids = 1..Len(entry)
    BY <2>1, TypeFacts DEF IInv, TypeOK
  <2>3. /\ entry' \in Seq(Labels) /\ Len(entry') = Len(entry)
        /\ \A j \in 1..Len(entry) : entry'[j] = IF j = r THEN "revoked" ELSE entry[j]
    <3>1. "revoked" \in Labels /\ entry \in Seq(Labels)
      BY DEF Labels, IInv, TypeOK
    <3> QED
      BY <1>3, <2>2, <3>1, Updated
  <2>4. Ids' = Ids /\ \A j \in Ids : entry'[j] = entry[j] \/ entry'[j] = "revoked"
    BY <1>1, <2>2, <2>3 DEF Ids
  <2>5. MarkedHasEntry'
    BY <1>1, <2>4 DEF IInv, RowInv, MarkedHasEntry
  <2>6. page \in Nat \ {0} /\ order \in {"asc", "desc"} /\ (page > 1 /\ ~derailed => (page - 1) * Size < Len(recs))
    BY DEF IInv, TypeOK, PageInv
  <2>7. CASE loadRecords
    BY <1>1, <2>3, <2>5, <2>6, <2>7, LoadStep
  <2>8. CASE UNCHANGED <<table, loadVars>>
    <3>1. UNCHANGED <<uiVars, loadVars>> /\ recs' \in Seq(Statuses) /\ Len(recs) <= Len(recs') /\ Len(entry') = Len(recs')
      BY <1>1, <2>3, <2>8, TypeFacts DEF uiVars, walkVars, IInv, TypeOK
    <3>2. MarkedStays
      BY <1>1 DEF MarkedStays
    <3> QED
      BY <2>3, <2>5, <3>1, <3>2, MeanwhileKeeps
  <2> QED
    BY <1>3, <2>7, <2>8
<1> QED
  BY <1>2, <1>3 DEF ClickRevoke

LEMMA StutterStep == ASSUME IInv, UNCHANGED vars PROVE IInv'
<1>1. UNCHANGED <<recs, entry, page, order, table, nextDisabled, base, seen, reached, derailed, pc, total, rows, failed>>
  BY DEF vars, dbVars, uiVars, walkVars, loadVars
<1> QED
  BY <1>1 DEF IInv, TypeOK, RowInv, RowsOK, MarkedHasEntry, WalkInv, PageInv, Ids, PositionOf

LEMMA InitInv == Init => IInv
<1> SUFFICES ASSUME Init PROVE IInv
  OBVIOUS
<1> DEFINE issued == "credential_issued"
           none   == ""
<1>1. recs = [r \in 1..Legacy |-> issued] /\ entry = [r \in 1..Legacy |-> none]
  BY DEF Init
<1>2. /\ rows = <<>> /\ table = <<>> /\ base = {} /\ page = 1 /\ order = "desc"
      /\ pc = "closed" /\ total = 0 /\ reached = 0 /\ nextDisabled /\ failed = {}
  BY DEF Init
<1>3. issued \in Statuses /\ none \in Labels /\ Legacy \in Nat
  BY LegacyAssumption DEF Statuses, Labels
<1> HIDE DEF issued, none
<1>4. recs \in Seq(Statuses) /\ Len(recs) = Legacy
  BY <1>1, <1>3
<1>5. entry \in Seq(Labels) /\ Len(entry) = Legacy
  BY <1>1, <1>3
<1>6. Ids = 1..Legacy /\ \A r \in Ids : r <= Legacy
  BY <1>1, <1>3 DEF Ids
<1>7. DOMAIN rows = {} /\ DOMAIN table = {} /\ rows \in [{} -> Row] /\ table \in [{} -> Row]
  BY <1>2
<1>8. TypeOK
  BY <1>2, <1>4, <1>5, <1>7 DEF TypeOK
<1>9. RowInv
  BY <1>6, <1>7 DEF RowInv, RowsOK, MarkedHasEntry
<1>10. WalkInv
  BY <1>2 DEF WalkInv
<1>11. PageInv
  BY <1>2 DEF PageInv
<1> QED
  BY <1>8, <1>9, <1>10, <1>11 DEF IInv

\* The invariant of the records table and of a walk through it holds in every
\* behaviour.
THEOREM Inductive == Spec => []IInv
<1>1. IInv /\ [Next]_vars => IInv'
  BY DatabaseStep, CountStep, SelectStep, LabelStep, RenderStep, FailStep, ClickStep, RevokeStep, StutterStep
  DEF Next
<1> QED
  BY InitInv, <1>1, PTL DEF Spec

-----------------------------------------------------------------------------
(* The theorems.                                                           *)

\* For any page size and any number of records, going through the pages of
\* loadRecords misses no record that was there at the start, however many are created,
\* in which of the two orders, and whatever loads fail on the way.  A page counts as
\* gone through once FindAll has read all its rows: one whose query failed, which the
\* screen does not tell apart, does not advance the walk.
THEOREM NothingSkipped == Spec => []NoRecordSkipped
<1>1. IInv => NoRecordSkipped
  BY DEF IInv, WalkInv, NoRecordSkipped
<1> QED
  BY Inductive, <1>1, PTL

\* The Next button of a page that was shown leads to a page with rows, if FindAll can
\* read them: what it counted is still there when the rows of this page, or of the
\* next, are selected, and after a count that failed the button is disabled.
THEOREM NextHasRows == Spec => []PageExists
<1>1. IInv => PageExists
  BY DEF IInv, PageInv, PageExists
<1> QED
  BY Inductive, <1>1, PTL

\* A row on the screen that says credential_issued has a credential status, although
\* FindAll and credentialStatusLabel read the two at different times, unless the
\* record was issued before there was a status list or FindByRecordID failed.
THEOREM IssuedShowsStatus == Spec => []IssuedRowHasStatus
<1>1. IInv => IssuedRowHasStatus
  BY DEF IInv, RowInv, RowsOK, IssuedRowHasStatus
<1> QED
  BY Inductive, <1>1, PTL
=============================================================================
