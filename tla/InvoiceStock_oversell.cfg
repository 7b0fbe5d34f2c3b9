CONSTANTS
  Companies = {c1}
  Products = {1}
  Invoices = {i1}
  Keys = {}
  Requests = {r1, r2}
  Workers = {w1}
  NoCompany = NoCompany
  NoInvoice = NoInvoice
  NoKey = NoKey
  MaxQty = 1
  MaxStock = 1
  CorrectionsOverlap = TRUE
  CartEditsOverlap = FALSE
  SentByCreates = {}
  SentByPayments = {}
SPECIFICATION Spec
SYMMETRY Symmetry
INVARIANT NeverOversold
