--------------------------- MODULE FinanceReports ---------------------------
(***************************************************************************)
(* The report of finance/service.py and finance/router.py, read while      *)
(* invoices are paid and shipped (invoices/service.py).                    *)
(*                                                                         *)
(* get_finance_summary takes the bounds of the period once and then runs   *)
(* one SELECT after another; every one sees what is committed by then      *)
(* (READ COMMITTED). A SELECT is represented by the set of invoices whose  *)
(* lines it adds up, by group. A shipment is stamped by its handler before *)
(* it commits.                                                             *)
(*                                                                         *)
(* Time is counted in units of which a month has MonthLength; unit 0 is    *)
(* the start of a January.                                                 *)
(***************************************************************************)
EXTENDS Integers, FiniteSets, Sequences, FiniteSetsExt

CONSTANTS
  Invoices,       \* invoices
  CompanyOf,      \* invoices.company_id
  ProductOf,      \* the product of an invoice
  Quantity,       \* units on the lines of an invoice
  LineTotal,      \* what the lines of an invoice add up to
  Products, Categories,
  NoCategory,     \* products.category_id IS NULL
  Months,         \* length of the monthly series
  MonthLength,    \* units in a month
  Week, ThirtyDays,   \* 7 and 30 days, in units
  BreakdownLimit, \* BREAKDOWN_LIMIT
  TopLimit,       \* TOP_PRODUCTS_LIMIT
  FirstNow,       \* the clock at the start
  MaxNow          \* bound on the clock

ASSUME CalendarAssumption ==
  /\ Months \in 1..12
  /\ MonthLength \in Nat \ {0}
  /\ Week \in Nat /\ ThirtyDays \in Nat
  /\ FirstNow \in Nat /\ MaxNow \in Nat

ASSUME TableAssumption ==
  /\ IsFiniteSet(Invoices) /\ IsFiniteSet(Categories)
  /\ ProductOf \in [Invoices -> Products]
  /\ BreakdownLimit \in Nat /\ TopLimit \in Nat

VARIABLES
  now,        \* the clock
  status,     \* invoices.status
  paidAt,     \* invoices.paid_at, -1 for NULL
  shippedAt,  \* invoices.shipped_at, -1 for NULL
  shipping,   \* the stamp of a shipment before its commit, -1 if there is none
  category,   \* products.category_id as it is now
  report,     \* the report that is being read, or the last one
  landed      \* history variable: shipments committed since the report was begun

invoiceVars == <<status, paidAt, shippedAt, shipping>>
financeVars == <<now, invoiceVars, category, report, landed>>

-----------------------------------------------------------------------------
(* Periods and months.                                                     *)

Periods == {"7d", "30d", "month", "all"}

MonthIndex(t) == ((t \div MonthLength) % 12) + 1
YearOf(t) == t \div (12 * MonthLength)
MonthStart(year, month) == (12 * year + month - 1) * MonthLength

\* finance_period_bounds, -1 for an open start
StartOf(period, t) ==
  CASE period = "all"   -> -1
    [] period = "7d"    -> t - Week
    [] period = "30d"   -> t - ThirtyDays
    [] period = "month" -> MonthStart(YearOf(t), MonthIndex(t))

\* _in_period: both bounds belong to the period.
InPeriod(stamp, start, end) == stamp # -1 /\ stamp <= end /\ start <= stamp

\* Faulty variant of MonthBack: the year stays the same.
MonthBackSameYear(offset, t) ==
  LET index == MonthIndex(t) - offset
  IN <<YearOf(t), IF index > 0 THEN index ELSE index + 12>>

\* The month and year of _shipped_monthly_series that lie offset months back.
MonthBack(offset, t) ==
  LET index == MonthIndex(t) - offset
  IN IF index > 0 THEN <<YearOf(t), index>> ELSE <<YearOf(t) - 1, index + 12>>

\* The bounds that it asks _shipped_snapshot_totals for.
MonthBounds(offset, t) ==
  LET month == MonthBack(offset, t)
  IN [start |-> MonthStart(month[1], month[2]),
      end |-> IF month[2] = 12 THEN MonthStart(month[1] + 1, 1)
              ELSE MonthStart(month[1], month[2] + 1)]

-----------------------------------------------------------------------------
(* The SELECTs.                                                            *)

\* The WHERE of the shipped totals and breakdowns.
ShippedIn(start, end) ==
  {i \in Invoices : status[i] = "shipped" /\ InPeriod(shippedAt[i], start, end)}

\* _list_unpaid_invoices
Unpaid == {i \in Invoices : status[i] = "awaiting_payment"}

\* _paid_totals: whatever became of the invoice since.
PaidIn(start, end) == {i \in Invoices : InPeriod(paidAt[i], start, end)}

\* GROUP BY key, ORDER BY weight DESC, LIMIT: the groups that a breakdown shows.
Grouped(rows, key, weight, limit) ==
  LET groups == {{i \in rows : key[i] = key[j]} : j \in rows}
      Weight(g) == MapThenSumSet(LAMBDA i : weight[i], g)
  IN {g \in groups : Cardinality({h \in groups \ {g} : Weight(h) > Weight(g)}) < limit}

\* The category a line is counted under is that of its product now.
CategoryOf == [i \in Invoices |-> category[ProductOf[i]]]

-----------------------------------------------------------------------------
(* Steps.                                                                  *)

\* The SELECTs of get_finance_summary in the order they run.
Parts == <<"unpaid", "paid", "totals", "companies", "products", "months", "categories">>
Complete == report.done = Len(Parts)

Blank == [unpaid |-> {}, paid |-> {}, totals |-> {}, companies |-> {}, products |-> {},
          months |-> <<>>, categories |-> {}]

\* finance_page and api_finance: the bounds are taken.
StartReport(period) ==
  /\ Complete
  /\ report' = [period |-> period, start |-> StartOf(period, now), end |-> now,
                done |-> 0, monthsAt |-> now, shown |-> Blank]
  /\ landed' = {}
  /\ UNCHANGED <<now, invoiceVars, category>>

\* What a SELECT finds.
Selected(part) ==
  LET shipped == ShippedIn(report.start, report.end)
  IN CASE part = "unpaid"     -> Unpaid
       [] part = "paid"       -> PaidIn(report.start, report.end)
       [] part = "totals"     -> shipped
       [] part = "companies"  -> Grouped(shipped, CompanyOf, LineTotal, BreakdownLimit)
       [] part = "products"   -> Grouped(shipped, ProductOf, Quantity, TopLimit)
       [] part = "categories" -> Grouped(shipped, CategoryOf, LineTotal, BreakdownLimit)

\* One SELECT of get_finance_summary other than those of the series.
ReadPart ==
  LET part == Parts[report.done + 1]
  IN /\ ~Complete /\ part # "months"
     /\ report' = [report EXCEPT !.shown[part] = Selected(part), !.done = @ + 1]
     /\ UNCHANGED <<now, invoiceVars, category, landed>>

\* One SELECT of _shipped_monthly_series, oldest month first. The first one reads
\* the clock.
ReadMonth ==
  LET series == report.shown.months
      at == IF series = <<>> THEN now ELSE report.monthsAt
      bounds == MonthBounds(Months - 1 - Len(series), at)
  IN /\ ~Complete /\ Parts[report.done + 1] = "months"
     /\ report' = [report EXCEPT
          !.shown.months = Append(@, ShippedIn(bounds.start, bounds.end)),
          !.monthsAt = at,
          !.done = IF Len(series) + 1 = Months THEN @ + 1 ELSE @]
     /\ UNCHANGED <<now, invoiceVars, category, landed>>

\* confirm_payment
Pay(i) ==
  /\ status[i] = "awaiting_payment"
  /\ status' = [status EXCEPT ![i] = "paid"]
  /\ paidAt' = [paidAt EXCEPT ![i] = now]
  /\ UNCHANGED <<now, shippedAt, shipping, category, report, landed>>

\* cancel_invoice and expire_invoices
Close(i) ==
  /\ status[i] = "awaiting_payment"
  /\ status' = [status EXCEPT ![i] = "cancelled"]
  /\ UNCHANGED <<now, paidAt, shippedAt, shipping, category, report, landed>>

\* ship_invoice up to its stamp: the row of the invoice is locked.
BeginShip(i) ==
  /\ status[i] = "paid"
  /\ shipping[i] = -1
  /\ shipping' = [shipping EXCEPT ![i] = now]
  /\ UNCHANGED <<now, status, paidAt, shippedAt, category, report, landed>>

\* Its commit.
Ship(i) ==
  /\ shipping[i] # -1
  /\ status' = [status EXCEPT ![i] = "shipped"]
  /\ shippedAt' = [shippedAt EXCEPT ![i] = shipping[i]]
  /\ shipping' = [shipping EXCEPT ![i] = -1]
  /\ landed' = landed \union {i}
  /\ UNCHANGED <<now, paidAt, category, report>>

\* update_product gives a product another category.
Recategorise(p, c) ==
  /\ category[p] # c
  /\ category' = [category EXCEPT ![p] = c]
  /\ UNCHANGED <<now, invoiceVars, report, landed>>

Pass(n) ==
  /\ now + n <= MaxNow
  /\ now' = now + n
  /\ UNCHANGED <<invoiceVars, category, report, landed>>

FinanceInit ==
  /\ now = FirstNow
  /\ status = [i \in Invoices |-> "awaiting_payment"]
  /\ paidAt = [i \in Invoices |-> -1]
  /\ shippedAt = [i \in Invoices |-> -1]
  /\ shipping = [i \in Invoices |-> -1]
  /\ category = [p \in Products |-> NoCategory]
  /\ report = [period |-> "all", start |-> -1, end |-> 0, done |-> Len(Parts),
               monthsAt |-> 0, shown |-> [Blank EXCEPT !.months = [n \in 1..Months |-> {}]]]
  /\ landed = {}

FinanceNext ==
  \/ \E period \in Periods : StartReport(period)
  \/ ReadPart
  \/ ReadMonth
  \/ \E i \in Invoices : Pay(i) \/ Close(i) \/ BeginShip(i) \/ Ship(i)
  \/ \E p \in Products, c \in Categories : Recategorise(p, c)
  \/ \E n \in {1, MonthLength} : Pass(n)

FinanceSpec == FinanceInit /\ [][FinanceNext]_financeVars

-----------------------------------------------------------------------------
(* Properties.                                                             *)

\* A report adds up although it is read in pieces. The groups of a breakdown share no
\* line and hold what the totals hold (if the limit cuts none off), but for shipments
\* committed while it was read. Every shipment of the totals that falls into the
\* months of the series is counted in the month it was made in and in no other, except
\* that one of the very first instant of a month is counted in the month before, too.
\* The period "month" is the last month of the series. Unpaid invoices are in no total
\* unless they were paid or shipped since.
ReportAddsUp ==
  Complete =>
  LET shown == report.shown
      totals == shown.totals
      Keys(key) == {key[i] : i \in totals \union landed}
      AddsUp(groups, cut) ==
        /\ UNION groups \subseteq totals \union landed
        /\ \A g, h \in groups : g # h => g \intersect h = {}
        /\ cut \/ totals \subseteq UNION groups
      MonthOf(t) == t \div MonthLength
      first == MonthOf(report.monthsAt) - Months + 1
      Counted(i) == {n \in 1..Months : i \in shown.months[n]}
      place(i) == MonthOf(shippedAt[i]) - first + 1
  IN /\ AddsUp(shown.companies, Cardinality(Keys(CompanyOf)) > BreakdownLimit)
     /\ AddsUp(shown.products, Cardinality(Keys(ProductOf)) > TopLimit)
     /\ AddsUp(shown.categories, Cardinality(Categories) + 1 > BreakdownLimit)
     /\ \A i \in totals : place(i) > 0 =>
          \/ Counted(i) = {place(i)}
          \/ /\ shippedAt[i] % MonthLength = 0
             /\ Counted(i) = {place(i), place(i) - 1} \ {0}
     /\ report.period = "month" /\ MonthOf(report.end) = MonthOf(report.monthsAt) =>
          /\ totals \subseteq shown.months[Months]
          /\ shown.months[Months] \subseteq totals \union landed
     /\ shown.unpaid \intersect totals \subseteq landed
=============================================================================
