---------------------------- MODULE RapiraRates ----------------------------
(***************************************************************************)
(* The exchange rate of rapira/service.py, rapira/parser.py,               *)
(* rapira/router.py and the sync_rapira job of worker.py.                  *)
(*                                                                         *)
(* A sync asks Rapira and stamps the answer (Fetch), compares it with the  *)
(* latest row (Compare) and, if it differs, inserts a row and prunes the   *)
(* history in one transaction (Save). The job of every half hour and an    *)
(* administrator's sync may overlap. Stamps of two answers differ.         *)
(*                                                                         *)
(* An administrator opens the history and asks for more of it, page after  *)
(* page, while syncs store and prune rows.                                 *)
(***************************************************************************)
EXTENDS Integers, FiniteSets

CONSTANTS
  Quotes,     \* askPrice values Rapira may answer
  Stored,     \* what Numeric(12, 2) keeps of a quote
  Syncs,      \* slots for syncs in flight
  Retention,  \* RAPIRA_HISTORY_RETENTION_DAYS, in units of the clock
  Window,     \* RAPIRA_HISTORY_UI_DAYS, in the same units
  HistoryPage,\* RAPIRA_HISTORY_PAGE_SIZE
  NoSync,     \* an empty slot
  MaxClock    \* bound on the clock

ASSUME RateAssumption ==
  /\ NoSync \notin [quote : Quotes, at : Nat, changed : BOOLEAN, alone : BOOLEAN]
  /\ Retention \in Nat
  /\ Stored \in [Quotes -> Quotes]
  /\ \A q \in Quotes : Stored[Stored[q]] = Stored[q]
  /\ Window \in 1..Retention
  /\ HistoryPage \in Nat \ {0}

VARIABLES
  rates,      \* the rapira_price_history table
  syncs,      \* the sync in each slot
  time,       \* the clock
  told,       \* history variable: the quote of the last sync, if it ran alone
  kept,       \* history variable: every row ever stored
  reader      \* the history page an administrator has open

rateVars == <<rates, syncs, time, told, kept, reader>>

-----------------------------------------------------------------------------

\* _get_latest_rate_row and get_rapira_stats: the latest rate, or none.
Latest == {row \in rates : \A other \in rates : other.at <= row.at}

Running == {s \in Syncs : syncs[s] # NoSync}

\* No sync lasts as long as a row is retained (90 days): fetch_rapira_payload gives
\* up after seconds.
Short(t) == \A s \in Running : t < syncs[s].at + Retention

\* fetch_rapira_payload and parse_usdt_rate gave a rate: the sync goes on with it.
\* Two syncs overlap from now on if another one has not ended; alone says that none did.
Fetch(s, quote) ==
  /\ syncs[s] = NoSync
  /\ time < MaxClock
  /\ Short(time + 1)
  /\ syncs' = [q \in Syncs |->
                 IF q = s THEN [quote |-> quote, at |-> time, changed |-> FALSE,
                                alone |-> Running = {}]
                 ELSE IF q \in Running THEN [syncs[q] EXCEPT !.alone = FALSE]
                 ELSE NoSync]
  /\ time' = time + 1
  /\ UNCHANGED <<rates, told, kept, reader>>

\* Faulty variant of Unchanged: any row of the history may be the one that is compared.
UnchangedAnywhere(quote) == \E row \in rates : row.rate = quote

\* The comparison of sync_rapira_prices: the column with the quote as it came.
Unchanged(quote) == \E row \in Latest : row.rate = quote

\* sync_rapira_prices up to the decision.
Compare(s) ==
  LET sync == syncs[s]
  IN /\ sync # NoSync /\ ~sync.changed
     /\ IF Unchanged(sync.quote)
        THEN /\ syncs' = [syncs EXCEPT ![s] = NoSync]
             /\ told' = IF sync.alone THEN {sync.quote} ELSE {}
        ELSE /\ syncs' = [syncs EXCEPT ![s].changed = TRUE]
             /\ UNCHANGED told
     /\ UNCHANGED <<rates, time, kept, reader>>

\* prune_rapira_history
Pruned(rows) == {row \in rows : row.at >= time - Retention}

\* save_usdt_rate, prune_rapira_history and the caller's commit.
Save(s) ==
  LET sync == syncs[s]
      row == [rate |-> Stored[sync.quote], at |-> sync.at]
  IN /\ sync # NoSync /\ sync.changed
     /\ rates' = Pruned(rates \union {row})
     /\ kept' = kept \union {row}
     /\ told' = IF sync.alone THEN {sync.quote} ELSE {}
     /\ syncs' = [syncs EXCEPT ![s] = NoSync]
     /\ UNCHANGED <<time, reader>>

\* Any other end of a sync: a payload that is no rate, a timeout, a crash, a rollback.
Fail(s) ==
  /\ syncs[s] # NoSync
  /\ syncs' = [syncs EXCEPT ![s] = NoSync]
  /\ UNCHANGED <<rates, time, told, kept, reader>>

Wait(n) ==
  /\ time + n <= MaxClock
  /\ Short(time + n)
  /\ time' = time + n
  /\ UNCHANGED <<rates, syncs, told, kept, reader>>

-----------------------------------------------------------------------------
(* The history page.                                                       *)

\* The newest rows of a set, one page at most.
Newest(rows) ==
  {row \in rows : Cardinality({other \in rows : other.at > row.at}) < HistoryPage}

\* Faulty variant of HasMore: only a page that is longer than a page offers more.
HasMoreLate(rows) == Cardinality(rows) > HistoryPage

\* rate_history_context: whether more is offered.
HasMore(rows) == Cardinality(rows) >= HistoryPage

\* last_id
Oldest(rows) == {row \in rows : \A other \in rows : row.at <= other.at}

\* What list_rate_history finds without a cursor.
InWindow == {row \in rates : row.at >= time - Window}

\* The WHERE of list_rate_history for a cursor that is still there.
Older(cursor) == {row \in rates : \A last \in cursor : row.at < last.at}

\* rapira_page: the window up to a page. What it leaves out waits for the next ones.
OpenHistory ==
  /\ reader' = [stage |-> "shown", cursor |-> Oldest(Newest(InWindow)),
                more |-> HasMore(Newest(InWindow)), shown |-> Newest(InWindow),
                left |-> InWindow \ Newest(InWindow), repeated |-> FALSE]
  /\ UNCHANGED <<rates, syncs, time, told, kept>>

\* The button of rate_history_rows.html: db.get looks for the last row of the page.
FindCursor ==
  /\ reader.stage = "shown" /\ reader.more
  /\ reader' = [reader EXCEPT !.stage = IF reader.cursor \subseteq rates THEN "found" ELSE "lost"]
  /\ UNCHANGED <<rates, syncs, time, told, kept>>

\* The SELECT of list_rate_history, which has no WHERE if the row was pruned; its rows
\* are added to the page.
ShowMore ==
  LET rows == Newest(IF reader.stage = "found" THEN Older(reader.cursor) ELSE rates)
  IN /\ reader.stage \in {"found", "lost"}
     /\ reader' = [stage |-> "shown", cursor |-> Oldest(rows), more |-> HasMore(rows),
                   shown |-> reader.shown \union rows, left |-> reader.left \ rows,
                   repeated |-> reader.repeated \/ rows \intersect reader.shown # {}]
     /\ UNCHANGED <<rates, syncs, time, told, kept>>

-----------------------------------------------------------------------------

RateInit ==
  /\ rates = {}
  /\ syncs = [s \in Syncs |-> NoSync]
  /\ time = 0
  /\ told = {}
  /\ kept = {}
  /\ reader = [stage |-> "closed", cursor |-> {}, more |-> FALSE, shown |-> {},
               left |-> {}, repeated |-> FALSE]

RateNext ==
  \/ \E s \in Syncs, quote \in Quotes : Fetch(s, quote)
  \/ \E s \in Syncs : Compare(s) \/ Save(s) \/ Fail(s)
  \/ \E n \in {1, Retention} : Wait(n)
  \/ OpenHistory \/ FindCursor \/ ShowMore

RateSpec == RateInit /\ [][RateNext]_rateVars

-----------------------------------------------------------------------------
(* Properties.                                                             *)

\* What the comments say of sync_rapira_prices and of the job sync_rapira: a row is
\* written only when the rate changed, so no two neighbours of the history are equal.
WrittenOnChange ==
  \A row \in rates : \A prev \in rates :
    /\ prev.at < row.at
    /\ \A other \in rates : other.at <= prev.at \/ row.at <= other.at
    => prev.rate # row.rate

\* After a sync that ran alone the rate shown is its answer as the column keeps it,
\* whether the sync wrote a row or found the rate unchanged; and nothing is pruned
\* before its time, though a sync stamps its row long before it prunes
\* (sync_rapira_prices, get_rapira_stats, prune_rapira_history).
RateHistorySound ==
  /\ \A quote \in told : \E row \in Latest : row.rate = Stored[quote]
  /\ \A row \in kept : row.at >= time - Retention => row \in rates

\* Whoever opens the history and goes on until no more is offered has been shown every
\* row the window held when it was opened, save those pruned since, although rows are
\* stored and pruned between the pages; and he is shown no row twice unless a row that
\* he was shown is gone, for then the cursor may be (list_rate_history).
HistoryPagesSound ==
  /\ reader.stage = "shown" /\ ~reader.more => reader.left \intersect rates = {}
  /\ reader.repeated => ~(reader.shown \subseteq rates)
=============================================================================
