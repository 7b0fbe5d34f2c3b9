\* Two companies and two administrators with two tickets, two requests at a time, one
\* ticket to a page; two syncs at a time and one rate to a page; two invoices over a
\* turn of the year.
CONSTANTS
  Tickets = {t1, t2}
  Companies = {c1, c2}
  Admins = {a1, a2}
  Requests = {r1, r2}
  PageSize = 1
  None = None
  MaxOps = 4
  Quotes = {9000, 9010, 9014}
  Stored <- Rounded
  Syncs = {s1, s2}
  Retention = 4
  Window = 3
  HistoryPage = 1
  NoSync = NoSync
  MaxClock = 6
  Invoices = {i1, i3}
  i1 = i1
  i2 = i2
  i3 = i3
  Products = {p1, p2}
  p1 = p1
  p2 = p2
  CompanyOf <- Two
  ProductOf <- Goods
  LineTotal <- Amounts
  Quantity <- Units
  Categories = {balls}
  NoCategory = NoCategory
  Months = 3
  MonthLength = 2
  Week = 1
  ThirtyDays = 2
  BreakdownLimit = 2
  TopLimit = 1
  FirstNow = 23
  MaxNow = 25
SPECIFICATION Spec
SYMMETRY Symmetry
CHECK_DEADLOCK FALSE
INVARIANTS
  SupportTypeOK
  ConversationSound
  BadgesMatchLists
  EveryMessageAnnounced
  RateHistorySound
  HistoryPagesSound
  ReportAddsUp
