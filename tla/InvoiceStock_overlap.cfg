\* Two stock rows, so that shipments have several lines; corrections and cart edits overlap.
CONSTANTS
  Companies = {c1}
  Products = {1, 2}
  Invoices = {i1, i2}
  Keys = {}
  Requests = {r1, r2}
  Workers = {w1}
  NoCompany = NoCompany
  NoInvoice = NoInvoice
  NoKey = NoKey
  MaxQty = 1
  MaxStock = 1
  CorrectionsOverlap = TRUE
  CartEditsOverlap = TRUE
  SentByCreates = {}
  SentByPayments = {}
SPECIFICATION Spec
SYMMETRY Symmetry
INVARIANTS
  NoDeadlock
  ChecksStillHold
  ReservationsMatchLines
  PaymentCoversLines
  ShippedOnce
