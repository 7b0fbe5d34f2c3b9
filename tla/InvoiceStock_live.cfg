CONSTANTS
  Companies = {c1}
  Products = {1, 2}
  Invoices = {i1, i2}
  Keys = {}
  Requests = {r1, r2}
  Workers = {w1}
  NoCompany = NoCompany
  NoInvoice = NoInvoice
  NoKey = NoKey
  MaxQty = 1
  MaxStock = 1
  CorrectionsOverlap = FALSE
  CartEditsOverlap = FALSE
  SentByCreates = {i1}
  SentByPayments = {}
SPECIFICATION FairSpec
PROPERTIES
  OverdueResolved
  RequestsEnd
