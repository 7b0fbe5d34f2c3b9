---------------------------- MODULE Reports_proofs ----------------------------
(***************************************************************************)
(* Proofs about the exchange rate's history (RapiraRates), for any number  *)
(* of syncs that overlap, any retention, window and page size, and about   *)
(* the finance report (FinanceReports), for any invoices and calendar.     *)
(***************************************************************************)
EXTENDS RapiraRates, FinanceReports, Ranks

RateRow == [rate : Quotes, at : Nat]
SyncRow == [quote : Quotes, at : Nat, changed : BOOLEAN, alone : BOOLEAN]

RateTypes ==
  /\ kept \subseteq RateRow /\ rates \subseteq kept
  /\ IsFiniteSet(kept)
  /\ syncs \in [Syncs -> SyncRow \union {NoSync}]
  /\ time \in Nat
  /\ told \subseteq Quotes

\* A stamp belongs to one answer of Rapira, and is in the past.
Stamps ==
  /\ \A row \in kept : row.at < time /\ Stored[row.rate] = row.rate
  /\ \A a, b \in kept : a.at = b.at => a = b
  /\ \A s \in Running :
       /\ syncs[s].at < time
       /\ \A row \in kept : row.at # syncs[s].at
       /\ \A q \in Running : q # s => syncs[q].at # syncs[s].at

\* No sync outlives the retention.
InTime == \A s \in Running : time <= syncs[s].at + Retention

\* What a sync that no other overlaps has read is still so.
AloneKnows ==
  \A s \in Running : syncs[s].alone =>
    /\ Running = {s}
    /\ \A row \in kept : row.at < syncs[s].at
    /\ syncs[s].changed => ~Unchanged(syncs[s].quote)

NothingPrunedEarly == \A row \in kept : row.at >= time - Retention => row \in rates

\* What is newer than a row of the table is in the table.
OldestPruned == \A row \in rates : \A newer \in kept : row.at <= newer.at => newer \in rates

LastIsShown == \A quote \in told : \E row \in Latest : row.rate = Stored[quote]

Stages == {"closed", "shown", "found", "lost"}
Reader == [stage : Stages, cursor : SUBSET kept, more : BOOLEAN,
           shown : SUBSET kept, left : SUBSET kept, repeated : BOOLEAN]

\* What the administrator has not been shown is on a page to come. If the row of the
\* cursor is gone, so is everything older, and what he is shown again is excused.
HistoryFollowed ==
  /\ reader \in Reader
  /\ reader.cursor \subseteq reader.shown
  /\ reader.more => reader.cursor # {}
  /\ reader.stage \in {"found", "lost"} => reader.more
  /\ \A row \in reader.left \intersect rates :
       /\ reader.more /\ reader.stage # "lost"
       /\ \A last \in reader.cursor : row.at < last.at
  /\ reader.shown \subseteq rates =>
       /\ ~reader.repeated /\ reader.stage # "lost"
       /\ \A row \in reader.shown : \A last \in reader.cursor : last.at <= row.at

RateInv ==
  /\ RateTypes /\ Stamps /\ InTime /\ AloneKnows
  /\ NothingPrunedEarly /\ OldestPruned /\ LastIsShown /\ HistoryFollowed

-----------------------------------------------------------------------------
(* The invariant, one lemma for each action.                               *)

LEMMA RateInitSound == RateInit => RateInv
<1> SUFFICES ASSUME RateInit PROVE RateInv
  OBVIOUS
<1>1. HistoryFollowed
  BY DEF RateInit, HistoryFollowed, Reader, Stages
<1> QED
  BY <1>1, FS_EmptySet DEF RateInit, RateInv, RateTypes, Stamps, InTime, AloneKnows,
     NothingPrunedEarly, OldestPruned, LastIsShown, Running

\* A page that is open stays as it is while rows are stored and pruned.
LEMMA ReaderWaits ==
  ASSUME HistoryFollowed, UNCHANGED reader, kept \subseteq kept', rates' \intersect kept \subseteq rates
  PROVE  HistoryFollowed'
<1>1. /\ reader = [stage |-> reader.stage, cursor |-> reader.cursor, more |-> reader.more,
                  shown |-> reader.shown, left |-> reader.left, repeated |-> reader.repeated]
      /\ reader.stage \in Stages /\ reader.more \in BOOLEAN /\ reader.repeated \in BOOLEAN
      /\ reader.cursor \subseteq kept /\ reader.shown \subseteq kept /\ reader.left \subseteq kept
  BY DEF HistoryFollowed, Reader
<1>2. reader \in Reader'
  BY <1>1 DEF Reader, Stages
<1>3. reader.shown \subseteq rates' => reader.shown \subseteq rates
  BY <1>1
<1>4. reader.left \intersect rates' \subseteq reader.left \intersect rates
  BY <1>1
<1> QED
  BY <1>2, <1>3, <1>4 DEF HistoryFollowed

\* A new sync: nothing is stored, and those that run are no longer alone.
LEMMA FetchSound ==
  ASSUME RateInv, NEW s \in Syncs, NEW quote \in Quotes, Fetch(s, quote)
  PROVE  RateInv'
<1> DEFINE none == Running = {}
           new == [quote |-> quote, at |-> time, changed |-> FALSE, alone |-> none]
<1>0. none \in BOOLEAN
  OBVIOUS
<1>1. /\ UNCHANGED <<rates, told, kept, reader>> /\ time' = time + 1 /\ time \in Nat
      /\ syncs[s] = NoSync /\ Short(time + 1)
      /\ syncs \in [Syncs -> SyncRow \union {NoSync}]
  BY DEF Fetch, RateInv, RateTypes
<1>2. new \in SyncRow /\ new # NoSync
  <2> HIDE DEF none
  <2>1. new \in SyncRow
    BY <1>0, <1>1, Zenon DEF SyncRow
  <2> QED
    BY <2>1, RateAssumption DEF SyncRow
<1>3. syncs'[s] = new
  BY DEF Fetch
<1>4. ASSUME NEW q \in Syncs, q # s
      PROVE  /\ q \in Running => /\ syncs'[q] \in SyncRow /\ ~syncs'[q].alone
                                 /\ syncs'[q].at = syncs[q].at
             /\ q \notin Running => syncs'[q] = NoSync
  BY <1>1, <1>4 DEF Fetch, Running, SyncRow
<1>5. syncs' \in [Syncs -> SyncRow \union {NoSync}]
  <2>1. DOMAIN syncs' = Syncs /\ syncs' = [q \in Syncs |-> syncs'[q]]
    BY DEF Fetch
  <2>2. \A q \in Syncs : syncs'[q] \in SyncRow \union {NoSync}
    BY <1>2, <1>3, <1>4
  <2> QED
    BY <2>1, <2>2
<1>6. Running' = Running \union {s} /\ s \notin Running
  BY <1>1, <1>2, <1>3, <1>4, RateAssumption DEF Running, SyncRow
<1>7. RateTypes'
  BY <1>1, <1>5 DEF RateInv, RateTypes
<1>8. \A row \in kept : row.at \in Nat /\ row.at < time
  BY DEF RateInv, RateTypes, Stamps, RateRow
<1>9. \A q \in Running : /\ q # s /\ q \in Syncs /\ syncs[q].at \in Nat /\ syncs[q].at < time
                         /\ time + 1 < syncs[q].at + Retention
  BY <1>1, <1>6 DEF RateInv, RateTypes, Stamps, Running, SyncRow, Short
<1>10. Stamps'
  BY <1>1, <1>3, <1>4, <1>6, <1>8, <1>9 DEF RateInv, Stamps
<1>11. InTime'
  BY <1>1, <1>3, <1>4, <1>6, <1>9, RateAssumption DEF InTime
<1>12. AloneKnows'
  <2>1. \A q \in Running : ~syncs'[q].alone
    BY <1>4, <1>9
  <2>2. new.alone => Running' = {s}
    BY <1>6
  <2> QED
    BY <1>1, <1>3, <1>6, <1>8, <2>1, <2>2 DEF AloneKnows
<1>13. NothingPrunedEarly'
  BY <1>1, <1>8, RateAssumption DEF RateInv, NothingPrunedEarly
<1>14. LastIsShown' /\ OldestPruned'
  BY <1>1 DEF RateInv, LastIsShown, OldestPruned, Latest
<1>15. HistoryFollowed'
  BY <1>1, ReaderWaits DEF RateInv
<1> QED
  BY <1>7, <1>10, <1>11, <1>12, <1>13, <1>14, <1>15 DEF RateInv

\* A sync ends, or has decided to store: the table stays.
LEMMA SyncMoves ==
  ASSUME RateInv, NEW s \in Running, UNCHANGED <<rates, kept, time, reader>>,
         \/ syncs' = [syncs EXCEPT ![s] = NoSync]
         \/ syncs' = [syncs EXCEPT ![s].changed = TRUE] /\ ~Unchanged(syncs[s].quote),
         told' \subseteq Quotes,
         \A quote \in told' : \E row \in Latest : row.rate = Stored[quote]
  PROVE  RateInv'
<1>1. syncs \in [Syncs -> SyncRow \union {NoSync}] /\ s \in Syncs /\ syncs[s] \in SyncRow
  BY DEF RateInv, RateTypes, Running
<1>2. [syncs[s] EXCEPT !.changed = TRUE] \in SyncRow
  BY <1>1 DEF SyncRow
<1>3. RateTypes'
  BY <1>1, <1>2 DEF RateInv, RateTypes
<1>4. ASSUME NEW q \in Running'
      PROVE  /\ q \in Running /\ syncs'[q].at = syncs[q].at
             /\ syncs'[q].alone = syncs[q].alone /\ syncs'[q].quote = syncs[q].quote
             /\ q # s => syncs'[q] = syncs[q]
             /\ q = s => ~Unchanged(syncs[s].quote)
  BY <1>1 DEF Running, SyncRow
<1>5. Stamps'
  BY <1>4 DEF RateInv, Stamps
<1>6. InTime'
  BY <1>4 DEF RateInv, InTime
<1>7. AloneKnows'
  <2>1. \A x : Unchanged(x)' <=> Unchanged(x)
    BY DEF Unchanged, Latest
  <2>2. ASSUME NEW q \in Running', syncs'[q].alone
        PROVE  /\ Running' = {q} /\ \A row \in kept' : row.at < syncs'[q].at
               /\ syncs'[q].changed => ~Unchanged(syncs'[q].quote)
    <3>1. Running = {q} /\ \A row \in kept : row.at < syncs[q].at
      BY <1>4, <2>2 DEF RateInv, AloneKnows
    <3>2. Running' = {q}
      BY <1>4, <3>1
    <3>3. q = s
      BY <3>1
    <3> QED
      BY <1>4, <3>1, <3>2, <3>3
  <2> QED
    BY <2>1, <2>2 DEF AloneKnows
<1>8. NothingPrunedEarly' /\ OldestPruned' /\ LastIsShown'
  BY DEF RateInv, NothingPrunedEarly, OldestPruned, LastIsShown, Latest
<1>9. HistoryFollowed'
  BY ReaderWaits DEF RateInv
<1> QED
  BY <1>3, <1>5, <1>6, <1>7, <1>8, <1>9 DEF RateInv

LEMMA CompareSound ==
  ASSUME RateInv, NEW s \in Syncs, Compare(s)
  PROVE  RateInv'
<1>1. s \in Running /\ syncs[s] \in SyncRow
  BY DEF Compare, RateInv, RateTypes, Running
<1>2. CASE Unchanged(syncs[s].quote)
  <2>1. PICK row \in Latest : row.rate = syncs[s].quote
    BY <1>2 DEF Unchanged
  <2>3. Stored[syncs[s].quote] = row.rate
    BY <2>1 DEF Latest, RateInv, RateTypes, Stamps
  <2>4. /\ syncs' = [syncs EXCEPT ![s] = NoSync] /\ told' \subseteq {syncs[s].quote}
        /\ UNCHANGED <<rates, kept, time, reader>>
    BY <1>2 DEF Compare
  <2>5. told' \subseteq Quotes
    BY <2>4, <1>1 DEF SyncRow
  <2>6. \A quote \in told' : \E r \in Latest : r.rate = Stored[quote]
    BY <2>1, <2>3, <2>4
  <2> QED
    BY <1>1, <2>4, <2>5, <2>6, SyncMoves
<1>3. CASE ~Unchanged(syncs[s].quote)
  <2>1. /\ syncs' = [syncs EXCEPT ![s].changed = TRUE]
        /\ UNCHANGED <<rates, kept, time, told, reader>>
    BY <1>3 DEF Compare
  <2> QED
    BY <1>1, <1>3, <2>1, SyncMoves DEF RateInv, RateTypes, LastIsShown
<1> QED
  BY <1>2, <1>3

LEMMA FailSound ==
  ASSUME RateInv, NEW s \in Syncs, Fail(s)
  PROVE  RateInv'
<1>1. s \in Running /\ syncs' = [syncs EXCEPT ![s] = NoSync]
      /\ UNCHANGED <<rates, kept, time, told, reader>>
  BY DEF Fail, Running
<1> QED
  BY <1>1, SyncMoves DEF RateInv, RateTypes, LastIsShown

LEMMA WaitSound ==
  ASSUME RateInv, NEW n \in {1, Retention}, Wait(n)
  PROVE  RateInv'
<1>1. /\ UNCHANGED <<rates, syncs, told, kept, reader>> /\ time' = time + n
      /\ time \in Nat /\ n \in Nat /\ Short(time + n)
  BY RateAssumption DEF Wait, RateInv, RateTypes
<1>2. \A row \in kept : row.at \in Nat
  BY DEF RateInv, RateTypes, RateRow
<1>3. Running' = Running /\ \A s \in Running : syncs[s].at \in Nat
  BY <1>1 DEF Running, RateInv, RateTypes, SyncRow
<1>4. RateTypes' /\ Stamps'
  BY <1>1, <1>2, <1>3 DEF RateInv, RateTypes, Stamps
<1>5. InTime'
  BY <1>1, <1>3, RateAssumption DEF InTime, Short
<1>6. AloneKnows'
  BY <1>1, <1>3 DEF RateInv, AloneKnows, Unchanged, Latest
<1>7. NothingPrunedEarly'
  BY <1>1, <1>2, RateAssumption DEF RateInv, NothingPrunedEarly
<1>8. LastIsShown' /\ OldestPruned'
  BY <1>1 DEF RateInv, LastIsShown, OldestPruned, Latest
<1>9. HistoryFollowed'
  BY <1>1, ReaderWaits DEF RateInv
<1> QED
  BY <1>4, <1>5, <1>6, <1>7, <1>8, <1>9 DEF RateInv

\* A row is stored. If no sync overlaps, it is the newest.
LEMMA SaveSound ==
  ASSUME RateInv, NEW s \in Syncs, Save(s)
  PROVE  RateInv'
<1> DEFINE sync == syncs[s]
           new == [rate |-> Stored[sync.quote], at |-> sync.at]
<1>1. /\ sync \in SyncRow /\ s \in Running /\ sync.changed
      /\ rates' = Pruned(rates \union {new}) /\ kept' = kept \union {new}
      /\ told' = (IF sync.alone THEN {sync.quote} ELSE {})
      /\ syncs' = [syncs EXCEPT ![s] = NoSync] /\ time' = time
      /\ UNCHANGED reader
  BY DEF Save, Running, RateInv, RateTypes
<1>2. /\ new \in RateRow /\ Stored[new.rate] = new.rate /\ new.at = sync.at
      /\ new.rate = Stored[sync.quote]
  BY <1>1, RateAssumption DEF SyncRow, RateRow
<1>3. /\ time \in Nat /\ new.at \in Nat /\ new.at < time /\ time <= new.at + Retention
      /\ \A row \in kept : row.at \in Nat /\ row.at < time /\ row.at # new.at
  BY <1>1, <1>2 DEF RateInv, RateTypes, Stamps, InTime, RateRow
<1> HIDE DEF new
<1>4. \A row : row \in rates' <=> (row \in rates \/ row = new) /\ row.at >= time - Retention
  BY <1>1 DEF Pruned
<1>5. new \in rates' /\ rates' \subseteq kept'
  <2>1. new.at >= time - Retention
    BY <1>3, RateAssumption
  <2>2. rates \subseteq kept
    BY DEF RateInv, RateTypes
  <2> QED
    BY <1>1, <1>4, <2>1, <2>2
<1>6. RateTypes'
  <2>1. IsFiniteSet(kept')
    BY <1>1, FS_AddElement DEF RateInv, RateTypes
  <2>2. told' \subseteq Quotes
    BY <1>1 DEF SyncRow
  <2> QED
    BY <1>1, <1>2, <1>5, <2>1, <2>2 DEF RateInv, RateTypes
<1>7. Running' = Running \ {s} /\ \A q \in Running' : syncs'[q] = syncs[q]
  BY <1>1 DEF Running, RateInv, RateTypes
<1>8. Stamps'
  BY <1>1, <1>2, <1>3, <1>7 DEF RateInv, Stamps
<1>9. InTime'
  BY <1>1, <1>7 DEF RateInv, InTime
<1>10. AloneKnows'
  BY <1>1, <1>7 DEF RateInv, AloneKnows
<1>11. NothingPrunedEarly'
  BY <1>1, <1>4 DEF RateInv, NothingPrunedEarly
\* If it is alone, it is the newest row.
<1>12. ASSUME sync.alone
       PROVE  \A row \in kept : row.at < new.at
  BY <1>1, <1>2, <1>12 DEF RateInv, AloneKnows
<1>13. LastIsShown'
  <2>1. CASE sync.alone
    <3>1. \A other \in rates' : other.at <= new.at
      BY <1>3, <1>4, <1>12, <2>1 DEF RateInv, RateTypes
    <3>2. new \in Latest'
      BY <1>5, <3>1 DEF Latest
    <3> QED
      BY <1>1, <1>2, <2>1, <3>2 DEF LastIsShown
  <2>2. CASE ~sync.alone
    BY <1>1, <2>2 DEF LastIsShown
  <2> QED
    BY <2>1, <2>2
<1>14. OldestPruned'
  <2>1. SUFFICES ASSUME NEW row \in rates', NEW newer \in kept', row.at <= newer.at
                 PROVE  newer \in rates'
    BY DEF OldestPruned
  <2>2. row.at >= time - Retention /\ row.at \in Nat
    BY <1>3, <1>4, <2>1 DEF RateInv, RateTypes
  <2>3. CASE newer \in kept
    <3>1. newer.at >= time - Retention
      BY <1>3, <2>1, <2>2, <2>3, RateAssumption
    <3> QED
      BY <1>4, <2>3, <3>1 DEF RateInv, NothingPrunedEarly
  <2> QED
    BY <1>1, <1>5, <2>1, <2>3
<1>15. HistoryFollowed'
  <2>1. new \notin kept
    BY <1>3
  <2>2. rates' \intersect kept \subseteq rates
    BY <1>4, <2>1
  <2> QED
    BY <1>1, <2>2, ReaderWaits DEF RateInv
<1> QED
  BY <1>6, <1>8, <1>9, <1>10, <1>11, <1>13, <1>14, <1>15 DEF RateInv

-----------------------------------------------------------------------------
(* The history, page by page. A page holds the rows of a set that fewer    *)
(* than a page of others are newer than; what is left out is older than    *)
(* all of them, and then the page is full.                                 *)

Newer == {rr \in rates \X rates : rr[1].at > rr[2].at}
OlderPairs == {rr \in rates \X rates : rr[1].at < rr[2].at}

LEMMA StampOrders ==
  ASSUME RateInv, NEW rows \in SUBSET rates
  PROVE  /\ IsFiniteSet(rows) /\ IsOrder(Newer, rows) /\ IsOrder(OlderPairs, rows)
         /\ \A a \in rows : a.at \in Nat /\ a \in kept
<1>1. IsFiniteSet(rates)
  BY FS_Subset DEF RateInv, RateTypes
<1>2. IsFiniteSet(rows)
  BY <1>1, FS_Subset
<1>3. \A a \in rates : a.at \in Nat /\ a \in kept
  BY DEF RateInv, RateTypes, RateRow
<1> QED
  BY <1>2, <1>3 DEF IsOrder, Newer, OlderPairs

NewerIn(rows, row) == {other \in rows : other.at > row.at}

LEMMA NewestSplits ==
  ASSUME RateInv, NEW rows \in SUBSET rates, NEW old \in rows, old \notin Newest(rows)
  PROVE  /\ HasMore(Newest(rows))
         /\ \A row \in Newest(rows) : old.at < row.at
<1>1. /\ IsFiniteSet(rows) /\ IsFiniteSet(rows \ Newest(rows)) /\ IsFiniteSet(Newest(rows))
      /\ \A row \in rows : row.at \in Nat
      /\ IsOrder(Newer, rows \ Newest(rows))
  <2>1. rows \ Newest(rows) \in SUBSET rates /\ Newest(rows) \in SUBSET rates
    BY DEF Newest
  <2> QED
    BY <2>1, StampOrders
<1>2. ASSUME NEW row \in rows
      PROVE  /\ IsFiniteSet(NewerIn(rows, row)) /\ Cardinality(NewerIn(rows, row)) \in Nat
             /\ row \in Newest(rows) <=> Cardinality(NewerIn(rows, row)) < HistoryPage
  <2>1. NewerIn(rows, row) \in SUBSET rows
    BY DEF NewerIn
  <2>2. IsFiniteSet(NewerIn(rows, row))
    BY <1>1, <2>1, FS_Subset
  <2> QED
    BY <2>2, FS_CardinalityType DEF Newest, NewerIn
<1>3. HasMore(Newest(rows))
  <2>1. PICK last \in rows \ Newest(rows) :
          \A other \in rows \ Newest(rows) : <<other, last>> \notin Newer
    BY <1>1, FirstExists
  <2>2. NewerIn(rows, last) \in SUBSET Newest(rows)
    BY <2>1 DEF NewerIn, Newer, Newest
  <2>3. Cardinality(NewerIn(rows, last)) <= Cardinality(Newest(rows))
    BY <1>1, <2>2, FS_Subset
  <2>4. Cardinality(NewerIn(rows, last)) >= HistoryPage
    BY <1>2, RateAssumption
  <2>5. Cardinality(Newest(rows)) \in Nat /\ Cardinality(NewerIn(rows, last)) \in Nat
    BY <1>1, <1>2, FS_CardinalityType
  <2> QED
    BY <2>3, <2>4, <2>5, RateAssumption DEF HasMore
<1>4. ASSUME NEW row \in Newest(rows), ~(old.at < row.at) PROVE FALSE
  <2>1. row \in rows
    BY DEF Newest
  <2>2. NewerIn(rows, old) \in SUBSET NewerIn(rows, row)
    BY <1>1, <1>4, <2>1 DEF NewerIn
  <2>3. Cardinality(NewerIn(rows, old)) <= Cardinality(NewerIn(rows, row))
    BY <1>2, <2>1, <2>2, FS_Subset
  <2> QED
    BY <1>2, <2>1, <2>3, RateAssumption
<1> QED
  BY <1>3, <1>4

\* A page that offers more has an oldest row.
LEMMA OldestExists ==
  ASSUME RateInv, NEW rows \in SUBSET rates, HasMore(rows)
  PROVE  Oldest(rows) # {}
<1>1. IsFiniteSet(rows) /\ IsOrder(OlderPairs, rows) /\ \A row \in rows : row.at \in Nat
  BY StampOrders
<1>2. rows # {}
  BY FS_EmptySet, RateAssumption DEF HasMore
<1>3. PICK row \in rows : \A other \in rows : <<other, row>> \notin OlderPairs
  BY <1>1, <1>2, FirstExists
<1>4. ASSUME NEW other \in rows PROVE row.at <= other.at
  <2>1. other.at < row.at => <<other, row>> \in OlderPairs
    BY DEF OlderPairs
  <2> QED
    BY <1>1, <1>3, <2>1
<1> QED
  BY <1>4 DEF Oldest

\* What a page leaves out is older than the row it ends with.
LEMMA LeftForLater ==
  ASSUME RateInv, NEW rows \in SUBSET rates, NEW row \in rows \ Newest(rows)
  PROVE  HasMore(Newest(rows)) /\ \A last \in Oldest(Newest(rows)) : row.at < last.at
<1>1. HasMore(Newest(rows)) /\ \A other \in Newest(rows) : row.at < other.at
  BY NewestSplits
<1> QED
  BY <1>1 DEF Oldest

\* The table stands still while a page is read.
LEMMA TableStays ==
  ASSUME RateInv, UNCHANGED <<rates, syncs, time, told, kept>>, HistoryFollowed'
  PROVE  RateInv'
BY DEF RateInv, RateTypes, Stamps, InTime, AloneKnows, NothingPrunedEarly, OldestPruned,
   LastIsShown, Running, Unchanged, Latest

LEMMA OpenSound == ASSUME RateInv, OpenHistory PROVE RateInv'
<1> DEFINE first == Newest(InWindow)
<1>1. /\ UNCHANGED <<rates, syncs, time, told, kept>>
      /\ reader' = [stage |-> "shown", cursor |-> Oldest(first), more |-> HasMore(first),
                    shown |-> first, left |-> InWindow \ first, repeated |-> FALSE]
  BY DEF OpenHistory
<1>2. /\ InWindow \in SUBSET rates /\ first \subseteq InWindow /\ rates \subseteq kept
      /\ Oldest(first) \subseteq first
      /\ \A row \in first : \A last \in Oldest(first) : last.at <= row.at
  BY DEF InWindow, Newest, Oldest, RateInv, RateTypes
<1>3. \A row \in InWindow \ first :
        HasMore(first) /\ \A last \in Oldest(first) : row.at < last.at
  BY <1>2, LeftForLater
<1>4. HasMore(first) \in BOOLEAN /\ (HasMore(first) => Oldest(first) # {})
  BY <1>2, OldestExists DEF HasMore
<1> HIDE DEF first
<1>5. reader' \in Reader'
  BY <1>1, <1>2, <1>4 DEF Reader, Stages
<1>6. HistoryFollowed'
  BY <1>1, <1>2, <1>3, <1>4, <1>5 DEF HistoryFollowed
<1> QED
  BY <1>1, <1>6, TableStays

\* A cursor that is gone was older than every row that is there.
LEMMA FindSound == ASSUME RateInv, FindCursor PROVE RateInv'
<1> DEFINE stage == IF reader.cursor \subseteq rates THEN "found" ELSE "lost"
<1>1. /\ UNCHANGED <<rates, syncs, time, told, kept>>
      /\ reader' = [reader EXCEPT !.stage = stage]
      /\ reader \in Reader /\ stage \in Stages /\ reader.more
  BY DEF FindCursor, RateInv, HistoryFollowed, Stages
<1> HIDE DEF stage
<1>2. /\ reader'.stage = stage /\ reader'.cursor = reader.cursor /\ reader'.more = reader.more
      /\ reader'.shown = reader.shown /\ reader'.left = reader.left
      /\ reader'.repeated = reader.repeated /\ reader' \in Reader'
  BY <1>1 DEF Reader
<1>3. ASSUME stage = "lost"
      PROVE  reader.left \intersect rates = {} /\ ~(reader.shown \subseteq rates)
  <2>1. PICK last \in reader.cursor : last \notin rates
    BY <1>3 DEF stage
  <2>2. last \in kept /\ last.at \in Nat /\ last \in reader.shown
    BY <1>1 DEF Reader, RateInv, RateTypes, RateRow, HistoryFollowed
  <2>3. ASSUME NEW row \in reader.left \intersect rates PROVE FALSE
    <3>1. row.at < last.at /\ row.at \in Nat
      BY DEF RateInv, RateTypes, RateRow, HistoryFollowed
    <3>2. row.at <= last.at
      BY <2>2, <3>1
    <3> QED
      BY <2>1, <2>2, <3>2 DEF RateInv, OldestPruned
  <2> QED
    BY <2>1, <2>2, <2>3
<1>4. HistoryFollowed'
  BY <1>1, <1>2, <1>3 DEF RateInv, HistoryFollowed
<1> QED
  BY <1>1, <1>4, TableStays

\* A page after a cursor that is there is older than what was shown, and leaves out
\* only what is older still.
LEMMA MoreSound == ASSUME RateInv, ShowMore PROVE RateInv'
<1> DEFINE pool == IF reader.stage = "found" THEN Older(reader.cursor) ELSE rates
           rows == Newest(pool)
<1>1. /\ UNCHANGED <<rates, syncs, time, told, kept>>
      /\ reader' = [stage |-> "shown", cursor |-> Oldest(rows), more |-> HasMore(rows),
                    shown |-> reader.shown \union rows, left |-> reader.left \ rows,
                    repeated |-> reader.repeated \/ rows \intersect reader.shown # {}]
      /\ reader.stage \in {"found", "lost"}
  BY DEF ShowMore
<1>2. /\ pool \in SUBSET rates /\ rows \subseteq pool /\ rates \subseteq kept
      /\ Oldest(rows) \subseteq rows
      /\ \A row \in rows : \A last \in Oldest(rows) : last.at <= row.at
  BY DEF Older, Newest, Oldest, RateInv, RateTypes
<1>3. \A row \in pool \ rows :
        HasMore(rows) /\ \A last \in Oldest(rows) : row.at < last.at
  BY <1>2, LeftForLater
<1>4. HasMore(rows) \in BOOLEAN /\ (HasMore(rows) => Oldest(rows) # {})
  BY <1>2, OldestExists DEF HasMore
<1>5. /\ reader.shown \subseteq kept /\ reader.left \subseteq kept /\ reader.repeated \in BOOLEAN
      /\ reader.cursor \subseteq reader.shown
  BY DEF RateInv, HistoryFollowed, Reader
<1>6. reader.stage # "found" => reader.stage = "lost"
  BY <1>1
<1>7. reader.stage = "found" => pool = {row \in rates : \A last \in reader.cursor : row.at < last.at}
  BY DEF Older
<1> HIDE DEF rows, pool
<1>8. reader' \in Reader'
  BY <1>1, <1>2, <1>4, <1>5 DEF Reader, Stages
\* What was left is in the set the page is taken from.
<1>9. reader.left \intersect rates \subseteq pool
  BY <1>6, <1>7 DEF RateInv, HistoryFollowed
\* What was shown is not, and is at least as new as what is.
<1>10. ASSUME reader.shown \subseteq rates
       PROVE  /\ rows \intersect reader.shown = {}
              /\ \A row \in reader.shown : \A last \in Oldest(rows) : last.at <= row.at
              /\ ~reader.repeated
  <2>1. /\ reader.stage = "found" /\ ~reader.repeated
        /\ \A row \in reader.shown : \A last \in reader.cursor : last.at <= row.at
    BY <1>6, <1>10 DEF RateInv, HistoryFollowed
  <2>2. \A row \in rates : row.at \in Nat
    BY DEF RateInv, RateTypes, RateRow
  <2>3. ASSUME NEW row \in reader.shown, NEW last \in rows PROVE last.at < row.at
    <3>1. PICK c \in reader.cursor : TRUE
      BY <1>1 DEF RateInv, HistoryFollowed
    <3>2. last.at < c.at /\ c.at <= row.at
      BY <1>2, <1>7, <2>1, <2>3, <3>1
    <3> QED
      BY <1>2, <1>5, <1>10, <2>2, <2>3, <3>2
  <2> QED
    BY <1>2, <1>10, <2>1, <2>2, <2>3
<1>11. HistoryFollowed'
  BY <1>1, <1>2, <1>3, <1>4, <1>5, <1>8, <1>9, <1>10 DEF HistoryFollowed
<1> QED
  BY <1>1, <1>11, TableStays

LEMMA RateStutter == ASSUME RateInv, UNCHANGED rateVars PROVE RateInv'
<1>1. UNCHANGED <<rates, syncs, time, told, kept, reader>>
  BY DEF rateVars
<1>2. HistoryFollowed'
  BY <1>1, ReaderWaits DEF RateInv
<1> QED
  BY <1>1, <1>2, TableStays

\* What the history of rates rests on holds at every step, whatever syncs overlap and
\* whoever pages through it (sync_rapira_prices, prune_rapira_history,
\* list_rate_history).
THEOREM RateInvariant == RateSpec => []RateInv
<1>1. ASSUME RateInv, [RateNext]_rateVars PROVE RateInv'
  <2>1. CASE RateNext
    BY <1>1, <2>1, FetchSound, CompareSound, SaveSound, FailSound, WaitSound, OpenSound,
       FindSound, MoreSound DEF RateNext
  <2> QED
    BY <1>1, <2>1, RateStutter
<1> QED
  BY RateInitSound, <1>1, PTL DEF RateSpec

\* However many syncs overlap, after one that ran alone the rate shown is its answer,
\* and nothing is pruned before its time, for any retention (sync_rapira_prices,
\* prune_rapira_history).
THEOREM RateHistoryIsSound == RateSpec => []RateHistorySound
<1>1. RateInv => RateHistorySound
  BY DEF RateInv, RateHistorySound, LastIsShown, NothingPrunedEarly
<1> QED
  BY RateInvariant, <1>1, PTL

\* Whatever is stored and pruned between two pages, and whatever the size of a page,
\* an administrator who goes on to the end is shown every row of the window that is
\* still there, and none twice unless one he was shown is gone (list_rate_history).
THEOREM HistoryPagesAreSound == RateSpec => []HistoryPagesSound
<1>1. RateInv => HistoryPagesSound
  BY DEF RateInv, HistoryFollowed, HistoryPagesSound
<1> QED
  BY RateInvariant, <1>1, PTL

-----------------------------------------------------------------------------
(* The finance report: its calendar.                                       *)

\* The month of a time, counted through the years.
MonthOf(t) == t \div MonthLength

LEMMA MonthHolds ==
  ASSUME NEW t \in Nat
  PROVE  /\ MonthOf(t) \in Nat
         /\ MonthOf(t) * MonthLength <= t /\ t < MonthOf(t) * MonthLength + MonthLength
<1>1. MonthLength \in Nat \ {0} /\ t \in Int
  BY CalendarAssumption
<1> QED
  BY <1>1, DivBounds DEF MonthOf

LEMMA CalendarIsLinear ==
  ASSUME NEW t \in Nat
  PROVE  /\ MonthOf(t) \in Nat /\ YearOf(t) \in Int /\ MonthIndex(t) \in 1..12
         /\ 12 * YearOf(t) + MonthIndex(t) - 1 = MonthOf(t)
<1> DEFINE m == t \div MonthLength
           y == m \div 12
<1>1. m \in Int /\ m * MonthLength <= t /\ t < m * MonthLength + MonthLength /\ m \in Nat
  BY DivBounds, CalendarAssumption
<1> HIDE DEF m
<1>2. y \in Int /\ y * 12 <= m /\ m < y * 12 + 12 /\ m % 12 \in 0..11 /\ y * 12 + (m % 12) = m
  BY <1>1
<1> HIDE DEF y
<1>3. /\ (y * 12) * MonthLength <= m * MonthLength
      /\ m * MonthLength + MonthLength <= (y * 12 + 12) * MonthLength
  BY <1>1, <1>2, TimesMonotone, CalendarAssumption
<1>4. /\ (y * 12) * MonthLength = y * (12 * MonthLength)
      /\ (y * 12 + 12) * MonthLength = y * (12 * MonthLength) + 12 * MonthLength
      /\ 12 * MonthLength \in Nat \ {0}
  BY <1>2, CalendarAssumption
<1>5. y * (12 * MonthLength) <= t /\ t < y * (12 * MonthLength) + 12 * MonthLength
  <2> DEFINE a == m * MonthLength
             b == y * (12 * MonthLength)
             c == 12 * MonthLength
  <2>1. a \in Int /\ b \in Int /\ c \in Int
    BY <1>1, <1>2, CalendarAssumption
  <2>2. b <= a /\ a + MonthLength <= b + c /\ a <= t /\ t < a + MonthLength
    BY <1>1, <1>3, <1>4
  <2> HIDE DEF a, b, c
  <2>3. b <= t /\ t < b + c
    BY <2>1, <2>2, CalendarAssumption
  <2> QED
    BY <2>3 DEF b, c
<1>6. t \div (12 * MonthLength) = y
  BY <1>2, <1>4, <1>5, DivUnique
<1>7. MonthOf(t) = m /\ YearOf(t) = y /\ MonthIndex(t) = (m % 12) + 1
  BY <1>6 DEF MonthOf, YearOf, MonthIndex, m
<1> QED
  BY <1>1, <1>2, <1>7

\* The series asks for one month after another, the last one that of the clock.
LEMMA SeriesAsksMonths ==
  ASSUME NEW at \in Nat, NEW offset \in 0..Months - 1
  PROVE  MonthBounds(offset, at) = [start |-> (MonthOf(at) - offset) * MonthLength,
                                    end |-> (MonthOf(at) - offset + 1) * MonthLength]
<1>1. /\ MonthOf(at) \in Nat /\ YearOf(at) \in Int /\ MonthIndex(at) \in 1..12
      /\ 12 * YearOf(at) + MonthIndex(at) - 1 = MonthOf(at)
      /\ offset \in 0..11
  BY CalendarIsLinear, CalendarAssumption
<1> DEFINE back == MonthBack(offset, at)
<1>2. /\ back[1] \in Int /\ back[2] \in 1..12
      /\ 12 * back[1] + back[2] - 1 = MonthOf(at) - offset
  <2>1. CASE MonthIndex(at) - offset > 0
    <3>1. back = <<YearOf(at), MonthIndex(at) - offset>>
      BY <2>1 DEF MonthBack
    <3> QED
      BY <1>1, <2>1, <3>1
  <2>2. CASE ~(MonthIndex(at) - offset > 0)
    <3>1. back = <<YearOf(at) - 1, MonthIndex(at) - offset + 12>>
      BY <2>2 DEF MonthBack
    <3> QED
      BY <1>1, <2>2, <3>1
  <2> QED
    BY <2>1, <2>2
<1>3. MonthStart(back[1], back[2]) = (MonthOf(at) - offset) * MonthLength
  BY <1>2 DEF MonthStart
<1>4. back[2] = 12 =>
        MonthStart(back[1] + 1, 1) = (MonthOf(at) - offset + 1) * MonthLength
  <2>1. back[2] = 12 => 12 * (back[1] + 1) + 1 - 1 = MonthOf(at) - offset + 1
    BY <1>1, <1>2
  <2> QED
    BY <2>1 DEF MonthStart
<1>5. back[2] # 12 =>
        MonthStart(back[1], back[2] + 1) = (MonthOf(at) - offset + 1) * MonthLength
  <2>1. 12 * back[1] + (back[2] + 1) - 1 = MonthOf(at) - offset + 1
    BY <1>1, <1>2
  <2> QED
    BY <2>1 DEF MonthStart
<1> HIDE DEF back
<1> QED
  BY <1>3, <1>4, <1>5 DEF MonthBounds, back

\* What the bounds of a month hold: the stamps of that month, and the first instant
\* of the next one.
LEMMA BoundsHoldMonth ==
  ASSUME NEW t \in Nat, NEW month \in Int
  PROVE  InPeriod(t, month * MonthLength, (month + 1) * MonthLength) <=>
           MonthOf(t) = month \/ (MonthOf(t) = month + 1 /\ t % MonthLength = 0)
<1> DEFINE q == MonthOf(t)
           a == q * MonthLength
           b == month * MonthLength
<1>1. q \in Int /\ a <= t /\ t < a + MonthLength /\ t % MonthLength = t - a
  BY DivBounds, CalendarAssumption DEF MonthOf
<1> HIDE DEF q
<1>2. a \in Int /\ b \in Int /\ (month + 1) * MonthLength = b + MonthLength
  BY <1>1, CalendarAssumption
<1>3. /\ q < month => a + MonthLength <= b
      /\ q > month + 1 => b + MonthLength + MonthLength <= a
      /\ q = month => a = b
      /\ q = month + 1 => a = b + MonthLength
  <2>1. q > month + 1 => (month + 1) * MonthLength + MonthLength <= q * MonthLength
    BY <1>1, TimesMonotone, CalendarAssumption
  <2> QED
    BY <1>1, <1>2, <2>1, TimesMonotone, CalendarAssumption
<1> HIDE DEF a, b
<1>4. InPeriod(t, b, b + MonthLength) <=> b <= t /\ t <= b + MonthLength
  BY DEF InPeriod
<1>5. b <= t /\ t <= b + MonthLength <=> q = month \/ (q = month + 1 /\ t = a)
  BY <1>1, <1>2, <1>3, CalendarAssumption
<1>6. t - a = 0 <=> t = a
  BY <1>2
<1> QED
  BY <1>1, <1>2, <1>4, <1>5, <1>6 DEF b, q

-----------------------------------------------------------------------------
(* The finance report: its breakdowns.                                     *)

\* A breakdown against the totals, but for what landed meanwhile.
AddsUp(groups, totals, extra, cut) ==
  /\ UNION groups \subseteq totals \union extra
  /\ \A g, h \in groups : g # h => g \intersect h = {}
  /\ cut \/ totals \subseteq UNION groups

KeysIn(key, rows) == {key[i] : i \in rows}

LEMMA GroupedAddsUp ==
  ASSUME NEW totals, NEW extra, NEW rows, NEW key, NEW weight, NEW limit \in Nat,
         NEW keys, IsFiniteSet(keys), KeysIn(key, rows) \subseteq keys,
         totals \subseteq rows, rows \subseteq totals \union extra
  PROVE  AddsUp(Grouped(rows, key, weight, limit), totals, extra, Cardinality(keys) > limit)
<1> DEFINE groups == {{i \in rows : key[i] = key[j]} : j \in rows}
           Weight(g) == MapThenSumSet(LAMBDA i : weight[i], g)
           Before(g) == {h \in groups \ {g} : Weight(h) > Weight(g)}
           shown == Grouped(rows, key, weight, limit)
           class == [k \in keys |-> {i \in rows : key[i] = k}]
<1>1. shown = {g \in groups : Cardinality(Before(g)) < limit}
  BY DEF Grouped
<1> HIDE DEF shown, Weight
<1>2. UNION shown \subseteq rows /\ \A g, h \in shown : g # h => g \intersect h = {}
  <2>1. \A g \in groups : \E j \in rows : g = {i \in rows : key[i] = key[j]}
    OBVIOUS
  <2>2. shown \subseteq groups
    BY <1>1
  <2> HIDE DEF groups
  <2>3. ASSUME NEW g \in shown, NEW h \in shown, g # h, NEW i \in g \intersect h PROVE FALSE
    <3>1. PICK j \in rows : g = {r \in rows : key[r] = key[j]}
      BY <2>1, <2>2
    <3>2. PICK k \in rows : h = {r \in rows : key[r] = key[k]}
      BY <2>1, <2>2
    <3>3. key[i] = key[j] /\ key[i] = key[k]
      BY <2>3, <3>1, <3>2
    <3> QED
      BY <2>3, <3>1, <3>2, <3>3
  <2>4. \A g \in shown : g \subseteq rows
    BY <2>1, <2>2
  <2> QED
    BY <2>3, <2>4
<1>3. SUFFICES ASSUME Cardinality(keys) <= limit PROVE rows \subseteq UNION shown
  <2>1. Cardinality(keys) \in Nat
    BY FS_CardinalityType
  <2> QED
    BY <1>2, <1>3, <2>1 DEF AddsUp, shown
<1>4. groups \subseteq {class[k] : k \in keys}
  BY DEF KeysIn
<1>5. /\ IsFiniteSet({class[k] : k \in keys})
      /\ Cardinality({class[k] : k \in keys}) <= Cardinality(keys)
  <2>1. class \in Surjection(keys, {class[k] : k \in keys})
    BY Fun_IsSurj
  <2> HIDE DEF class
  <2> QED
    BY <2>1, FS_Surjection
<1>6. IsFiniteSet(groups) /\ Cardinality(groups) <= Cardinality(keys)
  <2> DEFINE classes == {class[k] : k \in keys}
  <2> HIDE DEF groups, class, classes
  <2>1. IsFiniteSet(groups) /\ Cardinality(groups) <= Cardinality(classes)
    BY <1>4, <1>5, FS_Subset DEF classes
  <2>2. Cardinality(groups) \in Nat /\ Cardinality(classes) \in Nat /\ Cardinality(keys) \in Nat
    BY <1>5, <2>1, FS_CardinalityType DEF classes
  <2> QED
    BY <1>5, <2>1, <2>2 DEF classes
<1>7. ASSUME NEW g \in groups PROVE Cardinality(Before(g)) < limit
  <2>1. Before(g) \in SUBSET groups /\ g \notin Before(g)
    OBVIOUS
  <2> HIDE DEF groups
  <2> DEFINE before == Before(g)
  <2> HIDE DEF Before
  <2>2. IsFiniteSet(before) /\ Cardinality(before) <= Cardinality(groups)
        /\ (Cardinality(groups) = Cardinality(before) => groups = before)
    BY <1>6, <2>1, FS_Subset
  <2>3. /\ Cardinality(before) \in Nat /\ Cardinality(groups) \in Nat
        /\ Cardinality(keys) \in Nat
    BY <1>6, <2>2, FS_CardinalityType
  <2>4. Cardinality(before) # Cardinality(groups)
    BY <2>1, <2>2
  <2> QED
    BY <1>3, <1>6, <2>2, <2>3, <2>4
<1>8. ASSUME NEW j \in rows PROVE j \in UNION shown
  <2> DEFINE g == {i \in rows : key[i] = key[j]}
  <2>1. g \in groups /\ j \in g
    OBVIOUS
  <2> HIDE DEF g, groups
  <2> QED
    BY <1>1, <1>7, <2>1
<1> QED
  BY <1>8

\* A shipment that lands later takes nothing away from that.
LEMMA AddsUpLater ==
  ASSUME NEW groups, NEW totals, NEW extra, NEW more, extra \subseteq more,
         NEW cut, NEW wider, cut => wider, AddsUp(groups, totals, extra, cut)
  PROVE  AddsUp(groups, totals, more, wider)
BY DEF AddsUp

-----------------------------------------------------------------------------
(* The finance report: what holds while it is read.                        *)

ShownRow ==
  [unpaid : SUBSET Invoices, paid : SUBSET Invoices, totals : SUBSET Invoices,
   companies : SUBSET SUBSET Invoices, products : SUBSET SUBSET Invoices,
   months : Seq(SUBSET Invoices), categories : SUBSET SUBSET Invoices]

ReportRow ==
  [period : Periods, start : Int, end : Nat, done : 0..7, monthsAt : Nat, shown : ShownRow]

FinanceTypes ==
  /\ now \in Nat
  /\ status \in [Invoices -> {"awaiting_payment", "paid", "cancelled", "shipped"}]
  /\ paidAt \in [Invoices -> Int]
  /\ shippedAt \in [Invoices -> Int]
  /\ shipping \in [Invoices -> Int]
  /\ category \in [Products -> Categories \union {NoCategory}]
  /\ report \in ReportRow
  /\ landed \subseteq Invoices

IsShipped(i) == status[i] = "shipped"

\* Only what is paid is being shipped, and stamps are in the past.
ShipmentStamps ==
  \A i \in Invoices :
    /\ IsShipped(i) => shippedAt[i] \in Nat /\ shippedAt[i] <= now
    /\ shipping[i] # -1 => status[i] = "paid" /\ shipping[i] \in Nat /\ shipping[i] <= now

\* The bounds are of the time the report began, the clock of the series is read later.
BoundsTaken ==
  /\ report.end <= report.monthsAt /\ report.monthsAt <= now
  /\ report.period = "month" =>
       report.start = MonthStart(YearOf(report.end), MonthIndex(report.end))

\* What was shipped after the report began has landed since.
LateOnesLanded ==
  \A i \in Invoices : IsShipped(i) => shippedAt[i] <= report.end \/ i \in landed

UnpaidRead ==
  report.done >= 1 => \A i \in report.shown.unpaid : IsShipped(i) => i \in landed

TotalsRead ==
  report.done >= 3 =>
    /\ report.shown.totals \subseteq ShippedIn(report.start, report.end)
    /\ ShippedIn(report.start, report.end) \subseteq report.shown.totals \union landed

BreakdownsRead ==
  LET shown == report.shown
      Few(key, limit) == Cardinality(KeysIn(key, shown.totals \union landed)) > limit
  IN /\ report.done >= 4 =>
          AddsUp(shown.companies, shown.totals, landed, Few(CompanyOf, BreakdownLimit))
     /\ report.done >= 5 =>
          AddsUp(shown.products, shown.totals, landed, Few(ProductOf, TopLimit))
     /\ report.done >= 7 =>
          AddsUp(shown.categories, shown.totals, landed,
                 Cardinality(Categories) + 1 > BreakdownLimit)

\* Whether a shipment is of the n-th month of the series.
OfMonth(i, n) ==
  LET bounds == MonthBounds(Months - n, report.monthsAt)
  IN InPeriod(shippedAt[i], bounds.start, bounds.end)

SeriesRead ==
  LET series == report.shown.months
  IN /\ report.done < 5 => series = <<>>
     /\ report.done = 5 => Len(series) < Months
     /\ report.done > 5 => Len(series) = Months
     /\ \A n \in 1..Len(series) :
          /\ \A i \in series[n] : IsShipped(i) /\ OfMonth(i, n)
          /\ \A i \in report.shown.totals : OfMonth(i, n) => i \in series[n]

FinanceInv ==
  /\ FinanceTypes /\ ShipmentStamps /\ BoundsTaken /\ LateOnesLanded
  /\ UnpaidRead /\ TotalsRead /\ BreakdownsRead /\ SeriesRead

LEMMA FinanceInitSound == FinanceInit => FinanceInv
<1> SUFFICES ASSUME FinanceInit PROVE FinanceInv
  OBVIOUS
<1> DEFINE blank == [n \in 1..Months |-> {}]
<1>1. Months \in 1..12 /\ FirstNow \in Nat
  BY CalendarAssumption
<1>2. blank \in Seq(SUBSET Invoices) /\ Len(blank) = Months /\ \A n \in 1..Months : blank[n] = {}
  BY <1>1
<1>3. report = [period |-> "all", start |-> -1, end |-> 0, done |-> 7, monthsAt |-> 0,
                shown |-> [unpaid |-> {}, paid |-> {}, totals |-> {}, companies |-> {},
                           products |-> {}, months |-> blank, categories |-> {}]]
  BY DEF FinanceInit, Blank, Parts
<1> HIDE DEF blank
<1>4. report \in ReportRow
  BY <1>2, <1>3 DEF ReportRow, ShownRow, Periods
<1>5. FinanceTypes
  BY <1>1, <1>4 DEF FinanceInit, FinanceTypes
<1>6. \A i \in Invoices : ~IsShipped(i) /\ shipping[i] = -1
  BY DEF FinanceInit, IsShipped
<1>7. ShipmentStamps /\ LateOnesLanded /\ UnpaidRead
  BY <1>3, <1>6 DEF ShipmentStamps, LateOnesLanded, UnpaidRead
<1>8. BoundsTaken
  BY <1>1, <1>3 DEF FinanceInit, BoundsTaken
<1>9. TotalsRead
  BY <1>3, <1>6 DEF TotalsRead, ShippedIn, IsShipped
<1>10. BreakdownsRead
  BY <1>3 DEF BreakdownsRead, AddsUp
<1>11. SeriesRead
  BY <1>1, <1>2, <1>3 DEF SeriesRead
<1> QED
  BY <1>5, <1>7, <1>8, <1>9, <1>10, <1>11 DEF FinanceInv

\* Steps that neither read for the report nor ship leave what is read as it is.
LEMMA QuietSteps ==
  ASSUME FinanceInv, FinanceTypes', ShipmentStamps', UNCHANGED <<report, landed>>, now <= now',
         \A i \in Invoices : IsShipped(i)' <=> IsShipped(i),
         \A i \in Invoices : IsShipped(i) => shippedAt'[i] = shippedAt[i]
  PROVE  FinanceInv'
<1>1. /\ report \in ReportRow /\ report.shown.totals \subseteq Invoices
      /\ now \in Nat /\ now' \in Nat /\ report.monthsAt \in Nat
      /\ report.done \in 0..7 /\ report.shown.months \in Seq(SUBSET Invoices)
  BY DEF FinanceInv, FinanceTypes, ReportRow, ShownRow
<1>2. ShippedIn(report.start, report.end)' = ShippedIn(report.start, report.end)
  BY DEF ShippedIn, IsShipped
<1>3. BoundsTaken'
  BY <1>1 DEF FinanceInv, BoundsTaken
<1>4. LateOnesLanded' /\ UnpaidRead'
  BY DEF FinanceInv, LateOnesLanded, UnpaidRead, FinanceTypes, ReportRow, ShownRow
<1>5. TotalsRead'
  BY <1>2 DEF FinanceInv, TotalsRead
<1>6. BreakdownsRead'
  BY DEF FinanceInv, BreakdownsRead
<1>7. \A i \in Invoices : IsShipped(i) => \A n : OfMonth(i, n)' <=> OfMonth(i, n)
  BY DEF OfMonth
<1>8. \A i \in report.shown.totals : report.shown.months # <<>> => IsShipped(i)
  <2>1. report.shown.months # <<>> => report.done >= 3
    BY <1>1 DEF FinanceInv, SeriesRead
  <2> QED
    BY <2>1 DEF FinanceInv, TotalsRead, ShippedIn, IsShipped
<1>9. SeriesRead'
  <2> DEFINE series == report.shown.months
  <2>1. \A n \in 1..Len(series) : series # <<>> /\ series[n] \subseteq Invoices
    BY <1>1
  <2> QED
    BY <1>1, <1>7, <1>8, <2>1 DEF FinanceInv, SeriesRead
<1> QED
  BY <1>3, <1>4, <1>5, <1>6, <1>9 DEF FinanceInv

LEMMA InvoiceStepsQuiet ==
  ASSUME FinanceInv, NEW i \in Invoices, Pay(i) \/ Close(i) \/ BeginShip(i)
  PROVE  FinanceInv'
<1>1. FinanceTypes'
  BY DEF FinanceInv, FinanceTypes, Pay, Close, BeginShip
<1>2. UNCHANGED <<report, landed, now, shippedAt>>
  BY DEF Pay, Close, BeginShip
<1>3. \A j \in Invoices : IsShipped(j)' <=> IsShipped(j)
  BY DEF FinanceInv, FinanceTypes, Pay, Close, BeginShip, IsShipped
<1>4. ShipmentStamps'
  <2>1. ASSUME NEW j \in Invoices, shipping'[j] # -1
        PROVE  status'[j] = "paid" /\ shipping'[j] \in Nat /\ shipping'[j] <= now
    BY <2>1 DEF FinanceInv, FinanceTypes, ShipmentStamps, Pay, Close, BeginShip
  <2> QED
    BY <1>2, <1>3, <2>1 DEF FinanceInv, ShipmentStamps
<1>5. now <= now'
  BY <1>2 DEF FinanceInv, FinanceTypes
<1> QED
  BY <1>1, <1>2, <1>3, <1>4, <1>5, QuietSteps

LEMMA OtherStepsQuiet ==
  ASSUME FinanceInv,
         \/ \E n \in {1, MonthLength} : Pass(n)
         \/ \E p \in Products, c \in Categories : Recategorise(p, c)
         \/ UNCHANGED financeVars
  PROVE  FinanceInv'
<1>1. UNCHANGED <<report, landed, status, shippedAt, shipping, paidAt>>
  BY DEF Pass, Recategorise, invoiceVars, financeVars
<1>2. now' \in Nat /\ now <= now'
  BY CalendarAssumption DEF FinanceInv, FinanceTypes, Pass, Recategorise, financeVars
<1>3. category' \in [Products -> Categories \union {NoCategory}]
  BY DEF FinanceInv, FinanceTypes, Pass, Recategorise, financeVars
<1>4. FinanceTypes'
  BY <1>1, <1>2, <1>3 DEF FinanceInv, FinanceTypes
<1>5. ShipmentStamps'
  BY <1>1, <1>2 DEF FinanceInv, FinanceTypes, ShipmentStamps, IsShipped
<1>6. \A i \in Invoices : IsShipped(i)' <=> IsShipped(i)
  BY <1>1 DEF IsShipped
<1> QED
  BY <1>1, <1>2, <1>4, <1>5, <1>6, QuietSteps

\* A shipment lands: what has been read does not know it.
LEMMA ShipSound ==
  ASSUME FinanceInv, NEW i \in Invoices, Ship(i)
  PROVE  FinanceInv'
<1>1. /\ report \in ReportRow /\ report.shown \in ShownRow /\ landed \subseteq Invoices
      /\ report.shown.totals \subseteq Invoices /\ report.shown.unpaid \subseteq Invoices
      /\ report.done \in 0..7 /\ report.shown.months \in Seq(SUBSET Invoices)
  BY DEF FinanceInv, FinanceTypes, ReportRow, ShownRow
<1>2. /\ UNCHANGED <<now, paidAt, category, report>>
      /\ landed' = landed \union {i}
      /\ status[i] = "paid" /\ shipping[i] \in Nat /\ shipping[i] <= now
      /\ ~IsShipped(i) /\ IsShipped(i)' /\ shippedAt'[i] = shipping[i] /\ shipping'[i] = -1
  BY DEF Ship, FinanceInv, FinanceTypes, ShipmentStamps, IsShipped
<1>3. \A j \in Invoices : j # i =>
        /\ IsShipped(j)' <=> IsShipped(j)
        /\ shippedAt'[j] = shippedAt[j] /\ shipping'[j] = shipping[j] /\ status'[j] = status[j]
  BY DEF Ship, FinanceInv, FinanceTypes, IsShipped
<1>4. FinanceTypes'
  BY DEF Ship, FinanceInv, FinanceTypes
<1>5. ShipmentStamps'
  BY <1>2, <1>3 DEF FinanceInv, ShipmentStamps
<1>6. BoundsTaken' /\ LateOnesLanded' /\ UnpaidRead'
  BY <1>1, <1>2, <1>3 DEF FinanceInv, BoundsTaken, LateOnesLanded, UnpaidRead
<1> DEFINE now_S == ShippedIn(report.start, report.end)
<1>7. \A j : j # i => (j \in now_S' <=> j \in now_S)
  BY <1>2, <1>3 DEF ShippedIn, IsShipped
<1>8. i \notin now_S
  BY <1>2 DEF ShippedIn, IsShipped
<1>9. TotalsRead'
  <2> HIDE DEF now_S
  <2>1. report.done >= 3 => report.shown.totals \subseteq now_S /\ now_S \subseteq report.shown.totals \union landed
    BY DEF FinanceInv, TotalsRead, now_S
  <2>2. report.done >= 3 => report.shown.totals \subseteq now_S'
    BY <1>7, <1>8, <2>1
  <2>3. report.done >= 3 => now_S' \subseteq report.shown.totals \union landed'
    BY <1>2, <1>7, <2>1
  <2> QED
    BY <1>2, <2>2, <2>3 DEF TotalsRead, now_S
<1>10. BreakdownsRead'
  <2> DEFINE rows == report.shown.totals \union landed
             more == report.shown.totals \union landed'
  <2>1. ASSUME NEW key PROVE /\ Cardinality(KeysIn(key, rows)) \in Nat
                             /\ Cardinality(KeysIn(key, more)) \in Nat
                             /\ Cardinality(KeysIn(key, rows)) <= Cardinality(KeysIn(key, more))
    <3>1. KeysIn(key, rows) \in SUBSET KeysIn(key, more)
      BY <1>2 DEF KeysIn
    <3>2. IsFiniteSet(KeysIn(key, more))
      <4> DEFINE f == [j \in more |-> key[j]]
      <4>1. IsFiniteSet(more)
        BY <1>1, <1>2, FS_Subset, TableAssumption
      <4>2. f \in Surjection(more, {f[j] : j \in more}) /\ KeysIn(key, more) = {f[j] : j \in more}
        BY Fun_IsSurj DEF KeysIn
      <4> HIDE DEF more, f
      <4> QED
        BY <4>1, <4>2, FS_Surjection
    <3> QED
      BY <3>1, <3>2, FS_Subset, FS_CardinalityType
  <2>2. ASSUME NEW key, NEW limit \in Nat, NEW groups,
               AddsUp(groups, report.shown.totals, landed, Cardinality(KeysIn(key, rows)) > limit)
        PROVE  AddsUp(groups, report.shown.totals, landed', Cardinality(KeysIn(key, more)) > limit)
    <3>1. Cardinality(KeysIn(key, rows)) > limit => Cardinality(KeysIn(key, more)) > limit
      BY <2>1
    <3>2. landed \subseteq landed'
      BY <1>2
    <3> HIDE DEF rows, more
    <3> QED
      BY <2>2, <3>1, <3>2 DEF AddsUp
  <2>3. ASSUME NEW cut, NEW groups, AddsUp(groups, report.shown.totals, landed, cut)
        PROVE  AddsUp(groups, report.shown.totals, landed', cut)
    BY <1>2, <2>3, AddsUpLater
  <2>4. report' = report
    BY <1>2
  <2> QED
    BY <2>2, <2>3, <2>4, TableAssumption DEF FinanceInv, BreakdownsRead
<1>11. SeriesRead'
  <2> DEFINE series == report.shown.months
  <2>1. \A n \in 1..Len(series) : series # <<>> /\ series[n] \subseteq Invoices
    BY <1>1
  <2>2. series # <<>> => report.done >= 3
    BY <1>1 DEF FinanceInv, SeriesRead
  <2>3. series # <<>> => i \notin report.shown.totals
    BY <1>8, <2>2 DEF FinanceInv, TotalsRead
  <2>4. \A n \in 1..Len(series) : i \notin series[n]
    BY <1>2 DEF FinanceInv, SeriesRead
  <2>5. \A j \in Invoices : j # i => \A n : OfMonth(j, n)' <=> OfMonth(j, n)
    BY <1>2, <1>3 DEF OfMonth
  <2>6. ASSUME NEW n \in 1..Len(series)
        PROVE  /\ \A j \in series[n] : IsShipped(j)' /\ OfMonth(j, n)'
               /\ \A j \in report.shown.totals : OfMonth(j, n)' => j \in series[n]
    BY <1>1, <1>3, <2>1, <2>3, <2>4, <2>5 DEF FinanceInv, SeriesRead
  <2>7. report' = report
    BY <1>2
  <2> QED
    BY <2>6, <2>7 DEF FinanceInv, SeriesRead
<1> QED
  BY <1>4, <1>5, <1>6, <1>9, <1>10, <1>11 DEF FinanceInv

\* A report begins: nothing is read yet, nothing has landed.
LEMMA StartSound ==
  ASSUME FinanceInv, NEW period \in Periods, StartReport(period)
  PROVE  FinanceInv'
<1>1. /\ report' = [period |-> period, start |-> StartOf(period, now), end |-> now, done |-> 0,
                    monthsAt |-> now, shown |-> Blank]
      /\ landed' = {} /\ UNCHANGED <<now, status, paidAt, shippedAt, shipping, category>>
      /\ now \in Nat
  BY DEF StartReport, FinanceInv, FinanceTypes, invoiceVars
<1>2. StartOf(period, now) \in Int
  <2>1. MonthStart(YearOf(now), MonthIndex(now)) \in Int
    BY <1>1, CalendarIsLinear, CalendarAssumption DEF MonthStart
  <2>2. now - Week \in Int /\ now - ThirtyDays \in Int
    BY <1>1, CalendarAssumption
  <2> QED
    BY <2>1, <2>2 DEF StartOf, Periods
<1>3. Blank \in ShownRow
  BY DEF Blank, ShownRow
<1>4. report' \in ReportRow
  BY <1>1, <1>2, <1>3 DEF ReportRow
<1>5. FinanceTypes'
  BY <1>1, <1>4 DEF FinanceInv, FinanceTypes
<1>6. ShipmentStamps' /\ LateOnesLanded'
  BY <1>1 DEF FinanceInv, ShipmentStamps, LateOnesLanded, IsShipped
<1>7. BoundsTaken'
  BY <1>1 DEF BoundsTaken, StartOf
<1>8. UnpaidRead' /\ TotalsRead' /\ BreakdownsRead'
  BY <1>1 DEF UnpaidRead, TotalsRead, BreakdownsRead
<1>9. SeriesRead'
  <2>1. report'.shown.months = <<>> /\ report'.done = 0 /\ Len(<<>>) = 0
    BY <1>1 DEF Blank
  <2> QED
    BY <2>1 DEF SeriesRead
<1> QED
  BY <1>5, <1>6, <1>7, <1>8, <1>9 DEF FinanceInv

\* What a SELECT other than those of the series writes.
LEMMA PartIsRead ==
  ASSUME FinanceInv, ReadPart
  PROVE  LET old == report.shown
             new == report'.shown
             S == ShippedIn(report.start, report.end)
         IN /\ UNCHANGED <<now, status, paidAt, shippedAt, shipping, category, landed>>
            /\ report' \in ReportRow
            /\ report'.period = report.period /\ report'.start = report.start
            /\ report'.end = report.end /\ report'.monthsAt = report.monthsAt
            /\ report.done \in {0, 1, 2, 3, 4, 6} /\ report'.done = report.done + 1
            /\ new.unpaid = IF report.done = 0 THEN Unpaid ELSE old.unpaid
            /\ new.totals = IF report.done = 2 THEN S ELSE old.totals
            /\ new.companies = IF report.done = 3
                               THEN Grouped(S, CompanyOf, LineTotal, BreakdownLimit)
                               ELSE old.companies
            /\ new.products = IF report.done = 4
                              THEN Grouped(S, ProductOf, Quantity, TopLimit)
                              ELSE old.products
            /\ new.categories = IF report.done = 6
                                THEN Grouped(S, CategoryOf, LineTotal, BreakdownLimit)
                                ELSE old.categories
            /\ new.months = old.months
<1> DEFINE part == Parts[report.done + 1]
<1>1. report \in ReportRow /\ report.done \in 0..7 /\ report.shown \in ShownRow
  BY DEF FinanceInv, FinanceTypes, ReportRow
<1>2. /\ report.done # 7 /\ report.done # 5
      /\ report' = [report EXCEPT !.shown[part] = Selected(part), !.done = @ + 1]
      /\ UNCHANGED <<now, status, paidAt, shippedAt, shipping, category, landed>>
  BY DEF ReadPart, Complete, Parts, invoiceVars
<1>3. \A rows \in SUBSET Invoices : \A key, weight, limit :
        Grouped(rows, key, weight, limit) \in SUBSET SUBSET Invoices
  BY DEF Grouped
<1>4. ShippedIn(report.start, report.end) \in SUBSET Invoices
      /\ Unpaid \in SUBSET Invoices /\ PaidIn(report.start, report.end) \in SUBSET Invoices
  BY DEF ShippedIn, Unpaid, PaidIn
<1> DEFINE found == Selected(part)
           next == [report.shown EXCEPT ![part] = found]
           done == report.done + 1
           S == ShippedIn(report.start, report.end)
<1>5. report' = [report EXCEPT !.shown = next, !.done = done] /\ done \in 0..7
  BY <1>1, <1>2 DEF ReportRow
<1> HIDE DEF next, done
<1>6. /\ report'.done = done /\ report'.shown = next
      /\ report'.period = report.period /\ report'.start = report.start
      /\ report'.end = report.end /\ report'.monthsAt = report.monthsAt
      /\ next \in ShownRow => report' \in ReportRow
  BY <1>1, <1>5 DEF ReportRow
<1>7. /\ report.done = 0 => part = "unpaid" /\ found = Unpaid
      /\ report.done = 1 => part = "paid" /\ found = PaidIn(report.start, report.end)
      /\ report.done = 2 => part = "totals" /\ found = S
      /\ report.done = 3 =>
           part = "companies" /\ found = Grouped(S, CompanyOf, LineTotal, BreakdownLimit)
      /\ report.done = 4 =>
           part = "products" /\ found = Grouped(S, ProductOf, Quantity, TopLimit)
      /\ report.done = 6 =>
           part = "categories" /\ found = Grouped(S, CategoryOf, LineTotal, BreakdownLimit)
  BY DEF Parts, Selected
<1> HIDE DEF part, found
<1>8. report.done \in {0, 1, 2, 3, 4, 6}
  BY <1>1, <1>2
<1>9. CASE report.done = 0
  <2>1. found \in SUBSET Invoices
    BY <1>3, <1>4, <1>7, <1>9
  <2>2. next = [report.shown EXCEPT !.unpaid = found]
    BY <1>7, <1>9 DEF next
  <2>3. next \in ShownRow
    BY <1>1, <2>1, <2>2 DEF ShownRow
  <2> QED
    BY <1>1, <1>2, <1>6, <1>7, <1>8, <1>9, <2>2, <2>3 DEF ShownRow, done
<1>10. CASE report.done = 1
  <2>1. found \in SUBSET Invoices
    BY <1>3, <1>4, <1>7, <1>10
  <2>2. next = [report.shown EXCEPT !.paid = found]
    BY <1>7, <1>10 DEF next
  <2>3. next \in ShownRow
    BY <1>1, <2>1, <2>2 DEF ShownRow
  <2> QED
    BY <1>1, <1>2, <1>6, <1>7, <1>8, <1>10, <2>2, <2>3 DEF ShownRow, done
<1>11. CASE report.done = 2
  <2>1. found \in SUBSET Invoices
    BY <1>3, <1>4, <1>7, <1>11
  <2>2. next = [report.shown EXCEPT !.totals = found]
    BY <1>7, <1>11 DEF next
  <2>3. next \in ShownRow
    BY <1>1, <2>1, <2>2 DEF ShownRow
  <2> QED
    BY <1>1, <1>2, <1>6, <1>7, <1>8, <1>11, <2>2, <2>3 DEF ShownRow, done
<1>12. CASE report.done = 3
  <2>1. found \in SUBSET SUBSET Invoices
    BY <1>3, <1>4, <1>7, <1>12
  <2>2. next = [report.shown EXCEPT !.companies = found]
    BY <1>7, <1>12 DEF next
  <2>3. next \in ShownRow
    BY <1>1, <2>1, <2>2 DEF ShownRow
  <2> QED
    BY <1>1, <1>2, <1>6, <1>7, <1>8, <1>12, <2>2, <2>3 DEF ShownRow, done
<1>13. CASE report.done = 4
  <2>1. found \in SUBSET SUBSET Invoices
    BY <1>3, <1>4, <1>7, <1>13
  <2>2. next = [report.shown EXCEPT !.products = found]
    BY <1>7, <1>13 DEF next
  <2>3. next \in ShownRow
    BY <1>1, <2>1, <2>2 DEF ShownRow
  <2> QED
    BY <1>1, <1>2, <1>6, <1>7, <1>8, <1>13, <2>2, <2>3 DEF ShownRow, done
<1>14. CASE report.done = 6
  <2>1. found \in SUBSET SUBSET Invoices
    BY <1>3, <1>4, <1>7, <1>14
  <2>2. next = [report.shown EXCEPT !.categories = found]
    BY <1>7, <1>14 DEF next
  <2>3. next \in ShownRow
    BY <1>1, <2>1, <2>2 DEF ShownRow
  <2> QED
    BY <1>1, <1>2, <1>6, <1>7, <1>8, <1>14, <2>2, <2>3 DEF ShownRow, done
<1> QED
  BY <1>8, <1>9, <1>10, <1>11, <1>12, <1>13, <1>14

LEMMA ReadPartSound ==
  ASSUME FinanceInv, ReadPart
  PROVE  FinanceInv'
<1> DEFINE old == report.shown
           new == report'.shown
           S == ShippedIn(report.start, report.end)
<1>1. /\ UNCHANGED <<now, status, paidAt, shippedAt, shipping, category, landed>>
      /\ report' \in ReportRow
      /\ report'.period = report.period /\ report'.start = report.start
      /\ report'.end = report.end /\ report'.monthsAt = report.monthsAt
      /\ report.done \in {0, 1, 2, 3, 4, 6} /\ report'.done = report.done + 1
      /\ new.unpaid = IF report.done = 0 THEN Unpaid ELSE old.unpaid
      /\ new.totals = IF report.done = 2 THEN S ELSE old.totals
      /\ new.companies = IF report.done = 3
                         THEN Grouped(S, CompanyOf, LineTotal, BreakdownLimit)
                         ELSE old.companies
      /\ new.products = IF report.done = 4
                        THEN Grouped(S, ProductOf, Quantity, TopLimit)
                        ELSE old.products
      /\ new.categories = IF report.done = 6
                          THEN Grouped(S, CategoryOf, LineTotal, BreakdownLimit)
                          ELSE old.categories
      /\ new.months = old.months
  BY PartIsRead
<1> HIDE DEF old, new
<1>2. \A i : IsShipped(i)' <=> IsShipped(i)
  BY <1>1 DEF IsShipped
<1>3. S' = S /\ S \subseteq Invoices
  BY <1>1 DEF ShippedIn
<1> HIDE DEF S
<1>4. FinanceTypes'
  BY <1>1 DEF FinanceInv, FinanceTypes
<1>5. ShipmentStamps' /\ BoundsTaken' /\ LateOnesLanded'
  BY <1>1, <1>2 DEF FinanceInv, ShipmentStamps, BoundsTaken, LateOnesLanded
<1>6. UnpaidRead'
  <2>1. \A i \in Unpaid : ~IsShipped(i)
    BY DEF Unpaid, IsShipped
  <2>2. report.done # 0 => report.done >= 1
    BY <1>1
  <2>3. \A i \in new.unpaid : IsShipped(i) => i \in landed
    BY <1>1, <2>1, <2>2 DEF FinanceInv, UnpaidRead, old
  <2> QED
    BY <1>1, <1>2, <2>3 DEF UnpaidRead, new
<1>7. report.done >= 2 => new.totals \subseteq S /\ S \subseteq new.totals \union landed
  <2>1. report.done >= 3 => old.totals \subseteq S /\ S \subseteq old.totals \union landed
    BY DEF FinanceInv, TotalsRead, old, S
  <2>2. report.done >= 2 => report.done = 2 \/ report.done >= 3
    BY <1>1
  <2>3. report.done >= 3 => report.done # 2
    BY <1>1
  <2> QED
    BY <1>1, <2>1, <2>2, <2>3
<1>8. TotalsRead'
  <2>1. report'.done >= 3 => report.done >= 2
    BY <1>1
  <2> QED
    BY <1>1, <1>3, <1>7, <2>1 DEF TotalsRead, new, S
<1>9. report.done >= 3 => new.totals = old.totals
  BY <1>1
<1>10. BreakdownsRead'
  <2> DEFINE Few(key, limit) == Cardinality(KeysIn(key, new.totals \union landed)) > limit
             Some == Cardinality(Categories) + 1 > BreakdownLimit
  <2>1. ASSUME NEW key, NEW weight, NEW limit \in Nat, report.done >= 2
        PROVE  AddsUp(Grouped(S, key, weight, limit), new.totals, landed, Few(key, limit))
    <3>1. KeysIn(key, S) \subseteq KeysIn(key, new.totals \union landed)
      BY <1>7, <2>1 DEF KeysIn
    <3>2. IsFiniteSet(KeysIn(key, new.totals \union landed))
      <4> DEFINE rows == new.totals \union landed
                 f == [j \in rows |-> key[j]]
      <4>1. rows \in SUBSET Invoices
        BY <1>1 DEF FinanceInv, FinanceTypes, ReportRow, ShownRow, new
      <4>2. f \in Surjection(rows, {f[j] : j \in rows}) /\ KeysIn(key, rows) = {f[j] : j \in rows}
        BY Fun_IsSurj DEF KeysIn
      <4> HIDE DEF rows, f
      <4>3. IsFiniteSet(rows)
        BY <4>1, FS_Subset, TableAssumption
      <4>4. IsFiniteSet({f[j] : j \in rows})
        BY <4>2, <4>3, FS_Surjection
      <4> QED
        BY <4>2, <4>4 DEF rows
    <3> DEFINE keys == KeysIn(key, new.totals \union landed)
    <3> HIDE DEF keys
    <3>3. AddsUp(Grouped(S, key, weight, limit), new.totals, landed, Cardinality(keys) > limit)
      BY <1>7, <2>1, <3>1, <3>2, GroupedAddsUp DEF keys
    <3> QED
      BY <3>3 DEF keys
  <2>2. report.done = 6 =>
          AddsUp(Grouped(S, CategoryOf, LineTotal, BreakdownLimit), new.totals, landed, Some)
    <3> DEFINE keys == Categories \union {NoCategory}
    <3>1. SUFFICES ASSUME report.done = 6
                   PROVE  AddsUp(Grouped(S, CategoryOf, LineTotal, BreakdownLimit), new.totals,
                                 landed, Some)
      OBVIOUS
    <3>2. KeysIn(CategoryOf, S) \subseteq keys
      <4>1. \A i \in Invoices : CategoryOf[i] \in Categories \union {NoCategory}
        BY TableAssumption DEF FinanceInv, FinanceTypes, CategoryOf
      <4> QED
        BY <1>3, <4>1 DEF KeysIn
    <3>3. /\ IsFiniteSet(keys) /\ Cardinality(keys) \in Nat /\ Cardinality(Categories) \in Nat
          /\ Cardinality(keys) <= Cardinality(Categories) + 1
      <4>1. IsFiniteSet(Categories) /\ IsFiniteSet(keys)
            /\ Cardinality(keys) = IF NoCategory \in Categories THEN Cardinality(Categories)
                                   ELSE Cardinality(Categories) + 1
        BY FS_AddElement, TableAssumption
      <4>2. Cardinality(keys) \in Nat /\ Cardinality(Categories) \in Nat
        BY <4>1, FS_CardinalityType
      <4> QED
        BY <4>1, <4>2
    <3> HIDE DEF keys
    <3>4. AddsUp(Grouped(S, CategoryOf, LineTotal, BreakdownLimit), new.totals, landed,
                 Cardinality(keys) > BreakdownLimit)
      BY <1>7, <3>1, <3>2, <3>3, GroupedAddsUp, TableAssumption
    <3>5. Cardinality(keys) > BreakdownLimit => Cardinality(Categories) + 1 > BreakdownLimit
      BY <3>3, TableAssumption
    <3> QED
      BY <3>4, <3>5 DEF AddsUp
  <2>3. report.done >= 3 =>
          AddsUp(new.companies, new.totals, landed, Few(CompanyOf, BreakdownLimit))
    <3>1. CASE report.done = 3
      BY <1>1, <2>1, <3>1, TableAssumption
    <3>2. CASE report.done # 3
      <4>1. report.done >= 3 => report.done >= 4
        BY <1>1, <3>2
      <4> QED
        BY <1>1, <1>9, <3>2, <4>1 DEF FinanceInv, BreakdownsRead, old
    <3> QED
      BY <3>1, <3>2
  <2>4. report.done >= 4 =>
          AddsUp(new.products, new.totals, landed, Few(ProductOf, TopLimit))
    <3>1. CASE report.done = 4
      <4>1. report.done >= 2 /\ new.products = Grouped(S, ProductOf, Quantity, TopLimit)
        BY <1>1, <3>1
      <4> QED
        BY <2>1, <4>1, TableAssumption
    <3>2. CASE report.done # 4
      <4>1. report.done >= 4 => report.done >= 5 /\ report.done >= 3
        BY <1>1, <3>2
      <4> QED
        BY <1>1, <1>9, <3>2, <4>1 DEF FinanceInv, BreakdownsRead, old
    <3> QED
      BY <3>1, <3>2
  <2>5. report.done >= 6 => AddsUp(new.categories, new.totals, landed, Some)
    <3>1. report.done >= 6 => report.done = 6
      BY <1>1
    <3> QED
      BY <1>1, <2>2, <3>1
  <2>6. /\ report'.done >= 4 => report.done >= 3
        /\ report'.done >= 5 => report.done >= 4
        /\ report'.done >= 7 => report.done >= 6
    BY <1>1
  <2>7. landed' = landed
    BY <1>1
  <2> QED
    BY <2>3, <2>4, <2>5, <2>6, <2>7 DEF BreakdownsRead, new
<1>11. SeriesRead'
  <2>1. \A i, n : OfMonth(i, n)' <=> OfMonth(i, n)
    BY <1>1 DEF OfMonth
  <2>2. report.done = 2 => old.months = <<>>
    BY <1>1 DEF FinanceInv, SeriesRead, old
  <2>3. \A n \in 1..Len(old.months) : old.months # <<>>
    OBVIOUS
  <2>4. \A n \in 1..Len(old.months) :
          /\ \A i \in old.months[n] : IsShipped(i) /\ OfMonth(i, n)
          /\ \A i \in new.totals : OfMonth(i, n) => i \in old.months[n]
    BY <1>1, <2>2, <2>3 DEF FinanceInv, SeriesRead, old
  <2>5. /\ report'.done < 5 => report.done < 5
        /\ report'.done = 5 => report.done = 4
        /\ report'.done > 5 => report.done > 5
    BY <1>1
  <2>6. report.done = 4 => Len(old.months) < Months
    BY CalendarAssumption DEF FinanceInv, SeriesRead, old
  <2> QED
    BY <1>1, <1>2, <2>1, <2>4, <2>5, <2>6 DEF FinanceInv, SeriesRead, old, new
<1> QED
  BY <1>4, <1>5, <1>6, <1>8, <1>10, <1>11 DEF FinanceInv

LEMMA ReadMonthSound ==
  ASSUME FinanceInv, ReadMonth
  PROVE  FinanceInv'
<1> DEFINE series == report.shown.months
           at == IF series = <<>> THEN now ELSE report.monthsAt
           bounds == MonthBounds(Months - 1 - Len(series), at)
           found == ShippedIn(bounds.start, bounds.end)
           next == [report.shown EXCEPT !.months = Append(series, found)]
           done == IF Len(series) + 1 = Months THEN report.done + 1 ELSE report.done
<1>1. /\ report \in ReportRow /\ report.shown \in ShownRow /\ now \in Nat /\ report.monthsAt \in Nat
      /\ series \in Seq(SUBSET Invoices) /\ report.end \in Nat
      /\ report.shown.totals \subseteq Invoices
  BY DEF FinanceInv, FinanceTypes, ReportRow, ShownRow
<1>2. /\ report.done = 5
      /\ UNCHANGED <<now, status, paidAt, shippedAt, shipping, category, landed>>
  <2>1. report.done # 7 /\ report.done \in 0..7 /\ Parts[report.done + 1] = "months"
    BY <1>1 DEF ReadMonth, Complete, Parts, ReportRow
  <2>2. UNCHANGED <<now, status, paidAt, shippedAt, shipping, category, landed>>
    BY DEF ReadMonth, invoiceVars
  <2> QED
    BY <2>1, <2>2 DEF Parts
<1>3. Len(series) \in Nat /\ Len(series) < Months /\ Months \in 1..12
  BY <1>1, <1>2, CalendarAssumption DEF FinanceInv, SeriesRead
<1>4. at \in Nat /\ report.end <= at /\ at <= now /\ (series # <<>> => at = report.monthsAt)
  BY <1>1 DEF FinanceInv, BoundsTaken
<1>5. report' = [report EXCEPT !.shown = next, !.monthsAt = at, !.done = done]
  BY <1>1 DEF ReadMonth, ReportRow, ShownRow
<1>6. done \in 5..6 /\ (done = 6 <=> Len(series) + 1 = Months)
  BY <1>2, <1>3
<1>7. found \in SUBSET Invoices
  BY DEF ShippedIn
<1>8. ShippedIn(report.start, report.end)' = ShippedIn(report.start, report.end)
  <2> HIDE DEF next, at, done
  <2>1. report'.start = report.start /\ report'.end = report.end
    BY <1>1, <1>5 DEF ReportRow
  <2> QED
    BY <1>2, <2>1 DEF ShippedIn
<1>9. /\ Append(series, found) \in Seq(SUBSET Invoices)
      /\ Len(Append(series, found)) = Len(series) + 1
      /\ \A n \in 1..Len(series) : Append(series, found)[n] = series[n]
      /\ Append(series, found)[Len(series) + 1] = found
  BY <1>1, <1>7
<1> DEFINE longer == Append(series, found)
<1> HIDE DEF found, at, done, longer
<1>10. /\ next \in ShownRow /\ next.months = longer
       /\ next.unpaid = report.shown.unpaid /\ next.totals = report.shown.totals
       /\ next.companies = report.shown.companies /\ next.products = report.shown.products
       /\ next.categories = report.shown.categories
  BY <1>1, <1>9 DEF ShownRow, longer
<1> HIDE DEF next
<1>11. /\ report' \in ReportRow /\ report'.shown = next /\ report'.done = done
       /\ report'.monthsAt = at /\ report'.period = report.period
       /\ report'.start = report.start /\ report'.end = report.end
  <2>1. report \in ReportRow /\ at \in Nat /\ done \in 0..7 /\ next \in ShownRow
    BY <1>1, <1>4, <1>6, <1>10
  <2> QED
    BY <1>5, <2>1 DEF ReportRow
<1>12. \A i : IsShipped(i)' <=> IsShipped(i)
  BY <1>2 DEF IsShipped
<1>13. FinanceTypes'
  BY <1>2, <1>11 DEF FinanceInv, FinanceTypes
<1>14. ShipmentStamps' /\ BoundsTaken' /\ LateOnesLanded' /\ UnpaidRead'
  BY <1>2, <1>4, <1>10, <1>11, <1>12
     DEF FinanceInv, ShipmentStamps, BoundsTaken, LateOnesLanded, UnpaidRead
<1>15. TotalsRead' /\ report.shown.totals \subseteq ShippedIn(report.start, report.end)
  BY <1>2, <1>8, <1>10, <1>11 DEF FinanceInv, TotalsRead
<1>16. BreakdownsRead'
  <2>1. ~(done >= 7) /\ report.done >= 4 /\ report.done >= 5
    BY <1>2, <1>6
  <2> QED
    BY <1>2, <1>10, <1>11, <2>1 DEF FinanceInv, BreakdownsRead
<1>17. SeriesRead'
  <2>1. ASSUME NEW n \in 1..Len(series), NEW i PROVE OfMonth(i, n)' <=> OfMonth(i, n)
    <3>1. report'.monthsAt = report.monthsAt
      BY <1>1, <1>3, <1>4, <1>11
    <3> QED
      BY <1>2, <3>1 DEF OfMonth
  <2>2. ASSUME NEW n, n = Len(series) + 1
        PROVE  \A i \in Invoices : i \in found <=> IsShipped(i) /\ OfMonth(i, n)'
    <3>1. Months - n = Months - 1 - Len(series)
      BY <1>3, <2>2
    <3>2. report'.monthsAt = at /\ shippedAt' = shippedAt
      BY <1>2, <1>11
    <3> QED
      BY <3>1, <3>2 DEF found, ShippedIn, OfMonth, IsShipped
  <2>3. \A i \in report.shown.totals : i \in Invoices /\ IsShipped(i)
    BY <1>1, <1>15 DEF ShippedIn, IsShipped
  <2>4. ASSUME NEW n \in 1..Len(longer)
        PROVE  /\ \A i \in longer[n] : IsShipped(i) /\ OfMonth(i, n)'
               /\ \A i \in report.shown.totals : OfMonth(i, n)' => i \in longer[n]
    <3>1. CASE n = Len(series) + 1
      BY <1>7, <1>9, <2>2, <2>3, <3>1 DEF longer
    <3>2. CASE n # Len(series) + 1
      <4>1. n \in 1..Len(series) /\ longer[n] = series[n]
        BY <1>3, <1>9, <3>2 DEF longer
      <4> QED
        BY <2>1, <4>1 DEF FinanceInv, SeriesRead
    <3> QED
      BY <3>1, <3>2
  <2>5. /\ ~(done < 5) /\ (done = 5 => Len(longer) < Months) /\ (done > 5 => Len(longer) = Months)
    BY <1>3, <1>6, <1>9 DEF longer
  <2> QED
    BY <1>10, <1>11, <1>12, <2>4, <2>5 DEF SeriesRead
<1> QED
  BY <1>13, <1>14, <1>15, <1>16, <1>17 DEF FinanceInv

\* What a report has read so far agrees with the tables but for what landed since, at
\* every step of any payments, shipments and changes of category.
THEOREM FinanceInvariant == FinanceSpec => []FinanceInv
<1>1. ASSUME FinanceInv, [FinanceNext]_financeVars PROVE FinanceInv'
  <2>1. CASE \E period \in Periods : StartReport(period)
    BY <1>1, <2>1, StartSound
  <2>2. CASE ReadPart
    BY <1>1, <2>2, ReadPartSound
  <2>3. CASE ReadMonth
    BY <1>1, <2>3, ReadMonthSound
  <2>4. CASE \E i \in Invoices : Pay(i) \/ Close(i) \/ BeginShip(i)
    BY <1>1, <2>4, InvoiceStepsQuiet
  <2>5. CASE \E i \in Invoices : Ship(i)
    BY <1>1, <2>5, ShipSound
  <2>6. CASE \/ \E p \in Products, c \in Categories : Recategorise(p, c)
             \/ \E n \in {1, MonthLength} : Pass(n)
             \/ UNCHANGED financeVars
    BY <1>1, <2>6, OtherStepsQuiet
  <2> QED
    BY <1>1, <2>1, <2>2, <2>3, <2>4, <2>5, <2>6 DEF FinanceNext
<1> QED
  BY FinanceInitSound, <1>1, PTL DEF FinanceSpec

\* A shipment of the totals is in the month it was made in, and in no other, except
\* one of the first instant of a month, which is in the month before as well.
LEMMA MonthsCount ==
  ASSUME FinanceInv, Complete, NEW i \in report.shown.totals
  PROVE  LET Counted == {n \in 1..Months : i \in report.shown.months[n]}
             first == MonthOf(report.monthsAt) - Months + 1
             place == MonthOf(shippedAt[i]) - first + 1
         IN place > 0 => \/ Counted = {place}
                         \/ /\ shippedAt[i] % MonthLength = 0
                            /\ Counted = {place, place - 1} \ {0}
<1> DEFINE Counted == {n \in 1..Months : i \in report.shown.months[n]}
           first == MonthOf(report.monthsAt) - Months + 1
           t == shippedAt[i]
           place == MonthOf(t) - first + 1
<1>1. /\ report.monthsAt \in Nat /\ report.end \in Nat /\ report.done = 7 /\ i \in Invoices
      /\ Months \in 1..12 /\ MonthLength \in Nat \ {0}
  BY CalendarAssumption DEF FinanceInv, FinanceTypes, ReportRow, ShownRow, Complete, Parts
<1>2. IsShipped(i) /\ t \in Nat /\ t <= report.end /\ t <= report.monthsAt
  <2>1. i \in ShippedIn(report.start, report.end)
    BY <1>1 DEF FinanceInv, TotalsRead
  <2>2. IsShipped(i) /\ t <= report.end
    BY <2>1 DEF ShippedIn, IsShipped, InPeriod
  <2>3. t \in Nat /\ report.end <= report.monthsAt
    BY <1>1, <2>2 DEF FinanceInv, ShipmentStamps, BoundsTaken
  <2> QED
    BY <1>1, <2>2, <2>3
<1>3. \A n \in 1..Months : n \in Counted <=> OfMonth(i, n)
  <2>1. Len(report.shown.months) = Months
    BY <1>1 DEF FinanceInv, SeriesRead
  <2> QED
    BY <2>1 DEF FinanceInv, SeriesRead
<1>4. MonthOf(t) \in Nat /\ MonthOf(report.monthsAt) \in Nat /\ MonthOf(t) <= MonthOf(report.monthsAt)
  <2> DEFINE a == MonthOf(t)
             b == MonthOf(report.monthsAt)
  <2>1. /\ a \in Nat /\ b \in Nat /\ a * MonthLength <= t
        /\ report.monthsAt < b * MonthLength + MonthLength
    BY <1>1, <1>2, MonthHolds
  <2> HIDE DEF a, b
  <2>2. a * MonthLength < b * MonthLength + MonthLength
    BY <1>1, <1>2, <2>1
  <2>3. a <= b
    BY <1>1, <2>1, <2>2, TimesMonotone
  <2> QED
    BY <2>1, <2>3 DEF a, b
<1>5. ASSUME NEW n \in 1..Months
      PROVE  n \in Counted <=> n = place \/ (n = place - 1 /\ t % MonthLength = 0)
  <2> DEFINE month == first + n - 1
  <2>1. Months - n \in 0..Months - 1 /\ month \in Int
        /\ MonthOf(report.monthsAt) - (Months - n) = month
    BY <1>1, <1>4
  <2>2. MonthBounds(Months - n, report.monthsAt) =
          [start |-> month * MonthLength, end |-> (month + 1) * MonthLength]
    <3> DEFINE offset == Months - n
    <3> HIDE DEF month
    <3>1. offset \in 0..Months - 1
      BY <2>1
    <3> QED
      BY <1>1, <2>1, <3>1, SeriesAsksMonths
  <2>3. OfMonth(i, n) <=> InPeriod(t, month * MonthLength, (month + 1) * MonthLength)
    BY <2>2 DEF OfMonth
  <2>4. OfMonth(i, n) <=> MonthOf(t) = month \/ (MonthOf(t) = month + 1 /\ t % MonthLength = 0)
    <3> HIDE DEF month
    <3> QED
      BY <1>2, <2>1, <2>3, BoundsHoldMonth
  <2>5. (MonthOf(t) = month <=> n = place) /\ (MonthOf(t) = month + 1 <=> n = place - 1)
    BY <1>1, <1>4
  <2> QED
    BY <1>3, <2>4, <2>5
<1>6. place \in Int /\ place <= Months
  BY <1>1, <1>4
<1> HIDE DEF place, Counted
<1>7. ASSUME place > 0, t % MonthLength = 0 PROVE Counted = {place, place - 1} \ {0}
  <2>1. \A n \in Counted : n \in 1..Months
    BY DEF Counted
  <2>2. place \in 1..Months /\ (place - 1 # 0 => place - 1 \in 1..Months)
    BY <1>1, <1>6, <1>7
  <2> QED
    BY <1>5, <1>6, <1>7, <2>1, <2>2
<1>8. ASSUME place > 0, t % MonthLength # 0 PROVE Counted = {place}
  <2>1. \A n \in Counted : n \in 1..Months
    BY DEF Counted
  <2>2. place \in 1..Months
    BY <1>1, <1>6, <1>8
  <2> QED
    BY <1>5, <1>8, <2>1, <2>2
<1> QED
  BY <1>7, <1>8 DEF place, Counted

\* The period "month" is the last month of the series.
LEMMA MonthIsLastOfSeries ==
  ASSUME FinanceInv, Complete, report.period = "month",
         MonthOf(report.end) = MonthOf(report.monthsAt)
  PROVE  /\ report.shown.totals \subseteq report.shown.months[Months]
         /\ report.shown.months[Months] \subseteq report.shown.totals \union landed
<1> DEFINE m == MonthOf(report.end)
           last == report.shown.months[Months]
<1>1. /\ report.monthsAt \in Nat /\ report.end \in Nat /\ report.done = 7
      /\ Months \in 1..12 /\ MonthLength \in Nat \ {0}
      /\ report.shown.months \in Seq(SUBSET Invoices)
  BY CalendarAssumption DEF FinanceInv, FinanceTypes, ReportRow, ShownRow, Complete, Parts
<1>2. /\ m \in Nat /\ report.end < m * MonthLength + MonthLength
      /\ report.start = m * MonthLength
  <2>1. m \in Nat /\ 12 * YearOf(report.end) + MonthIndex(report.end) - 1 = m
    BY <1>1, CalendarIsLinear
  <2>2. report.start = MonthStart(YearOf(report.end), MonthIndex(report.end))
    BY DEF FinanceInv, BoundsTaken
  <2>3. report.start = m * MonthLength
    BY <2>1, <2>2 DEF MonthStart
  <2>4. report.end < m * MonthLength + MonthLength
    BY <1>1, MonthHolds
  <2> QED
    BY <2>1, <2>3, <2>4
<1>3. MonthBounds(Months - Months, report.monthsAt) =
        [start |-> m * MonthLength, end |-> (m + 1) * MonthLength]
  <2>1. Months - Months = 0 /\ 0 \in 0..Months - 1
    BY <1>1
  <2>2. MonthOf(report.monthsAt) - 0 = m
    BY <1>2
  <2> QED
    BY <1>1, <2>1, <2>2, SeriesAsksMonths
<1> HIDE DEF m
<1>4. (m + 1) * MonthLength = m * MonthLength + MonthLength /\ m * MonthLength \in Nat
  BY <1>1, <1>2
<1>5. \A i : OfMonth(i, Months) <=> InPeriod(shippedAt[i], report.start, (m + 1) * MonthLength)
  BY <1>2, <1>3 DEF OfMonth
<1>6. Len(report.shown.months) = Months /\ Months \in 1..Len(report.shown.months)
  BY <1>1 DEF FinanceInv, SeriesRead
<1> DEFINE S == ShippedIn(report.start, report.end)
<1>7. report.shown.totals \subseteq S /\ S \subseteq report.shown.totals \union landed
  BY <1>1 DEF FinanceInv, TotalsRead
<1>8. ASSUME NEW i \in report.shown.totals PROVE i \in last
  <2>1. i \in Invoices /\ IsShipped(i) /\ InPeriod(shippedAt[i], report.start, report.end)
    BY <1>7 DEF ShippedIn, IsShipped
  <2>2. shippedAt[i] \in Nat
    BY <2>1 DEF FinanceInv, ShipmentStamps
  <2>3. OfMonth(i, Months)
    BY <1>1, <1>2, <1>4, <1>5, <2>1, <2>2 DEF InPeriod
  <2> QED
    BY <1>6, <2>3 DEF FinanceInv, SeriesRead
<1>9. ASSUME NEW i \in last PROVE i \in report.shown.totals \union landed
  <2>1. i \in Invoices /\ IsShipped(i) /\ OfMonth(i, Months)
    BY <1>1, <1>6 DEF FinanceInv, SeriesRead
  <2>2. shippedAt[i] <= report.end \/ i \in landed
    BY <2>1 DEF FinanceInv, LateOnesLanded
  <2>3. shippedAt[i] <= report.end => i \in S
    BY <1>5, <2>1 DEF ShippedIn, IsShipped, InPeriod
  <2> QED
    BY <1>7, <2>2, <2>3
<1> QED
  BY <1>8, <1>9

\* Whatever is paid, shipped and moved to other categories while its SELECTs run, a
\* finished report adds up: breakdowns against totals, the series against the calendar,
\* and no unpaid invoice among the shipped ones (finance/service.py).
THEOREM ReportAlwaysAddsUp == FinanceSpec => []ReportAddsUp
<1>1. ASSUME FinanceInv, Complete PROVE ReportAddsUp
  <2>1. report.done = 7
    BY <1>1 DEF Complete, Parts
  <2>2. BreakdownsRead /\ TotalsRead /\ UnpaidRead
    BY <1>1 DEF FinanceInv
  <2>3. report.shown.unpaid \intersect report.shown.totals \subseteq landed
    BY <2>1, <2>2 DEF TotalsRead, UnpaidRead, ShippedIn, IsShipped
  <2>4. /\ UNION report.shown.companies \subseteq report.shown.totals \union landed
        /\ \A g, h \in report.shown.companies : g # h => g \intersect h = {}
        /\ \/ Cardinality({CompanyOf[i] : i \in report.shown.totals \union landed}) > BreakdownLimit
           \/ report.shown.totals \subseteq UNION report.shown.companies
    BY <2>1, <2>2 DEF BreakdownsRead, AddsUp, KeysIn
  <2>5. /\ UNION report.shown.products \subseteq report.shown.totals \union landed
        /\ \A g, h \in report.shown.products : g # h => g \intersect h = {}
        /\ \/ Cardinality({ProductOf[i] : i \in report.shown.totals \union landed}) > TopLimit
           \/ report.shown.totals \subseteq UNION report.shown.products
    BY <2>1, <2>2 DEF BreakdownsRead, AddsUp, KeysIn
  <2>6. /\ UNION report.shown.categories \subseteq report.shown.totals \union landed
        /\ \A g, h \in report.shown.categories : g # h => g \intersect h = {}
        /\ \/ Cardinality(Categories) + 1 > BreakdownLimit
           \/ report.shown.totals \subseteq UNION report.shown.categories
    BY <2>1, <2>2 DEF BreakdownsRead, AddsUp
  <2>7. report.period = "month" /\ report.end \div MonthLength = report.monthsAt \div MonthLength =>
          /\ report.shown.totals \subseteq report.shown.months[Months]
          /\ report.shown.months[Months] \subseteq report.shown.totals \union landed
    BY <1>1, MonthIsLastOfSeries DEF MonthOf
  <2>8. ASSUME NEW i \in report.shown.totals
        PROVE  LET Counted == {n \in 1..Months : i \in report.shown.months[n]}
                   first == (report.monthsAt \div MonthLength) - Months + 1
                   place == (shippedAt[i] \div MonthLength) - first + 1
               IN place > 0 => \/ Counted = {place}
                               \/ /\ shippedAt[i] % MonthLength = 0
                                  /\ Counted = {place, place - 1} \ {0}
    BY <1>1, MonthsCount DEF MonthOf
  <2> QED
    BY <1>1, <2>3, <2>4, <2>5, <2>6, <2>7, <2>8 DEF ReportAddsUp
<1>2. FinanceInv => ReportAddsUp
  BY <1>1 DEF ReportAddsUp
<1> QED
  BY FinanceInvariant, <1>2, PTL
=============================================================================
