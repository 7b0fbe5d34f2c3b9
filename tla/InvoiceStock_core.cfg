\* One product, quantities up to 2: reservations, payments and stock.
CONSTANTS
  Companies = {c1, c2}
  Products = {1}
  Invoices = {i1, i2}
  Keys = {k1}
  Requests = {r1, r2}
  Workers = {w1}
  NoCompany = NoCompany
  NoInvoice = NoInvoice
  NoKey = NoKey
  MaxQty = 2
  MaxStock = 2
  CorrectionsOverlap = FALSE
  CartEditsOverlap = FALSE
  SentByCreates = {i1, i2}
  SentByPayments = {}
SPECIFICATION Spec
SYMMETRY Symmetry
INVARIANTS
  TypeOK
  ReservationsMatchLines
  PaymentCoversLines
  NeverOversold
  StockMatchesLedger
  OneInvoicePerKey
PROPERTIES
  Lifecycle
  CheckoutTakesCart
  KeepsPromises
