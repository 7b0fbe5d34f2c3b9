\* One product and one request at a time; keys may be those of the expiry job.
CONSTANTS
  Companies = {c1}
  Products = {1}
  Invoices = {i1, i2}
  Keys = {}
  Requests = {r1}
  Workers = {w1}
  NoCompany = NoCompany
  NoInvoice = NoInvoice
  NoKey = NoKey
  MaxQty = 1
  MaxStock = 2
  CorrectionsOverlap = FALSE
  CartEditsOverlap = FALSE
  SentByCreates = {i1}
  SentByPayments = {i1}
SPECIFICATION FairSpec
PROPERTY OverdueExpires
