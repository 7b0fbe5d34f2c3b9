----------------------------- MODULE InvoiceStock -----------------------------
(***************************************************************************)
(* Carts, invoices, stock reservations, stock on hand, payments and the    *)
(* idempotency keys of invoices/service.py, inventory/service.py and       *)
(* cart/service.py, under concurrent requests and expiry workers.          *)
(*                                                                         *)
(* Every handler is one PostgreSQL transaction at READ COMMITTED: it takes *)
(* row locks with SELECT ... FOR UPDATE, reads, checks, writes and commits *)
(* once. A step of this module ends where another transaction can come     *)
(* between: at an unlocked read whose result is used later, at every row   *)
(* lock it may have to wait for, and between its checks and its commit.    *)
(* Uncommitted writes are visible to nobody, so a transaction's writes are *)
(* the assignments of its commit step.                                     *)
(*                                                                         *)
(* Row locks are not variables: who holds a row follows from how far each  *)
(* transaction has got (CartFree, InvoiceFree, StockFree).                 *)
(***************************************************************************)
EXTENDS Integers, FiniteSets

CONSTANTS
  Companies,  \* buyers; each has one cart
  Products,   \* numbers, for product ids are ordered and locked in that order
  Invoices,   \* the ids the invoice table can still hand out
  Keys,       \* values of the Idempotency-Key header
  Requests,   \* slots for HTTP requests in flight, each with its own session
  Workers,    \* expire_invoices jobs that may run at the same time
  NoCompany, NoInvoice, NoKey,
  MaxQty,     \* bound on the quantity of a cart or invoice line
  MaxStock,   \* bound on the target of a stock correction
  CorrectionsOverlap,  \* TRUE: another transaction may commit inside correct_inventory
  CartEditsOverlap,    \* TRUE: the customer may edit a cart that is being checked out
  SentByCreates,       \* invoices whose expire_key a create may carry as its own key,
  SentByPayments       \* and those whose expire_key a confirmation of payment may carry

ASSUME ProductsAssumption == Products \subseteq Nat
ASSUME InvoicesAssumption == IsFiniteSet(Invoices)
ASSUME RequestsAssumption == IsFiniteSet(Requests)
ASSUME BoundsAssumption == MaxQty \in Nat \ {0} /\ MaxStock \in Nat \ {0}
ASSUME FlagsAssumption ==
  /\ CorrectionsOverlap \in BOOLEAN
  /\ CartEditsOverlap \in BOOLEAN
  /\ SentByCreates \subseteq Invoices
  /\ SentByPayments \subseteq Invoices

\* expire_key: the key under which the job files the expiry of invoice i.
ExpireKey(i) == <<"expire", i>>

ExpireKeys == {ExpireKey(i) : i \in Invoices}

\* Every key the idempotency_keys table may have: one column for all operations.
AllKeys == Keys \union ExpireKeys

ASSUME NullsAssumption ==
  NoCompany \notin Companies /\ NoInvoice \notin Invoices /\ NoKey \notin AllKeys

VARIABLES
  cart,       \* cart_items.quantity by company and product, 0 for no row
  status,     \* invoices.status, "none" while the id is unused
  owner,      \* invoices.company_id
  due,        \* expires_at <= now
  createKey,  \* invoices.create_idempotency_key
  item,       \* invoice_items.quantity by invoice and product, 0 for no row
  reserved,   \* quantity of the ACTIVE inventory_reservations row, 0 for none
  paidFor,    \* the lines the paid payments row was written for, NoLines for none
  moved,      \* minus the delta of the invoice's SHIPMENT stock movements
  onHand,     \* inventory.quantity_on_hand
  ledger,     \* the sum of the deltas of all stock movements
  keyEntity,  \* idempotency_keys: the entity a key is stored with
  pc, who, target, key, want, seen, need, held,  \* the transaction in each slot
  batch       \* the invoices an expiry job has locked

rows == <<cart, status, owner, due, createKey, item, reserved, paidFor, moved,
          onHand, ledger, keyEntity>>
session == <<pc, who, target, key, want, seen, need, held>>
vars == <<rows, session, batch>>

-----------------------------------------------------------------------------
(* Type definitions.                                                       *)

Status == {"awaiting_payment", "paid", "shipped", "canceled", "expired"}

\* idle; "checkout" waits for the cart; "create", "mutate" and "ship" hold their
\* cart or invoice and lock stock rows; "created", "mutated" and "shipping" have
\* passed their checks; "pay" waits for the invoice; "correct" is about to write.
Stage == {"idle", "checkout", "create", "created", "mutate", "mutated",
          "ship", "shipping", "pay", "correct"}

Creating(s) == pc[s] \in {"checkout", "create", "created"}
Mutating(s) == pc[s] \in {"mutate", "mutated"}
Shipping(s) == pc[s] \in {"ship", "shipping"}
OnInvoice(s) == Mutating(s) \/ Shipping(s) \/ pc[s] = "pay"

Lines == [Products -> 0..MaxQty]
NoLines == [p \in Products |-> 0]

RowsType ==
  /\ cart \in [Companies -> Lines]
  /\ status \in [Invoices -> Status \union {"none"}]
  /\ owner \in [Invoices -> Companies \union {NoCompany}]
  /\ due \in [Invoices -> BOOLEAN]
  /\ createKey \in [Invoices -> AllKeys \union {NoKey}]
  /\ item \in [Invoices -> Lines]
  /\ reserved \in [Invoices -> Lines]
  /\ paidFor \in [Invoices -> Lines]
  /\ moved \in [Invoices -> [Products -> Nat]]
  /\ onHand \in [Products -> Nat]
  /\ ledger \in [Products -> Int]
  /\ keyEntity \in [AllKeys -> Invoices \union {NoInvoice}]

SessionType ==
  /\ pc \in [Requests -> Stage]
  /\ who \in [Requests -> Companies \union {NoCompany}]
  /\ target \in [Requests -> Invoices \union {NoInvoice}]
  /\ key \in [Requests -> AllKeys \union {NoKey}]
  /\ want \in [Requests -> [Products -> Nat]]
  /\ seen \in [Requests -> [Products -> Nat]]
  /\ need \in [Requests -> SUBSET Products]
  /\ held \in [Requests -> SUBSET Products]
  /\ \A s \in Requests :
       /\ Creating(s) => who[s] \in Companies
       /\ OnInvoice(s) => target[s] \in Invoices
       /\ pc[s] # "correct" => want[s] \in Lines

TypeOK == RowsType /\ SessionType /\ batch \in [Workers -> SUBSET Invoices]

-----------------------------------------------------------------------------
(* Row locks and stock arithmetic.                                         *)

\* Who holds the cart of company c FOR UPDATE.
HoldsCart(s, c) == pc[s] \in {"create", "created"} /\ who[s] = c

\* Faulty variant of CartFree: checkouts do not lock the cart.
CartFreeAlways(c) == TRUE

CartFree(c) == \A s \in Requests : ~HoldsCart(s, c)

\* Faulty variant of HoldsInvoice: the invoice is locked after the stock rows.
HoldsInvoiceLate(s, i) == pc[s] \in {"mutated", "shipping"} /\ target[s] = i

\* Who holds the row of invoice i FOR UPDATE.
HoldsInvoice(s, i) == (Mutating(s) \/ Shipping(s)) /\ target[s] = i

\* Faulty variants of InvoiceFree: one does not wait for requests, one not for jobs.
InvoiceFreeOfJobs(i) == \A w \in Workers : i \notin batch[w]
InvoiceFreeOfRequests(i) == \A s \in Requests : ~HoldsInvoice(s, i)

InvoiceFree(i) ==
  /\ \A s \in Requests : ~HoldsInvoice(s, i)
  /\ \A w \in Workers : i \notin batch[w]

\* Faulty variant of StockFree: stock rows are read without FOR UPDATE.
StockFreeAlways(p) == TRUE

StockFree(p) == \A s \in Requests : p \notin held[s]

LinesOf(q) == {p \in Products : q[p] > 0}

\* The active reservations of product p, unit by unit, and how many they are
\* (reserved_quantity).
ReservedUnits(p) ==
  {u \in Invoices \X (1..MaxQty) : u[2] <= reserved[u[1]][p]}
ReservedQuantity(p) == Cardinality(ReservedUnits(p))

\* Faulty variant of Available: reservations are not subtracted.
AvailableOnHand(p) == onHand[p]

\* get_availability: on hand minus active reservations; negative when oversold.
Available(p) == onHand[p] - ReservedQuantity(p)

\* Faulty variant of NextRow: the rows are locked in any order.
NextRowUnordered(s) == need[s]

\* SELECT ... ORDER BY product_id FOR UPDATE takes the smallest id first.
NextRow(s) == {p \in need[s] : \A q \in need[s] : p <= q}

\* What the Idempotency-Key header of a request may hold: it is stored as it comes,
\* so it may be the expire_key of an invoice whose id the sender has seen.
HeaderKeys(sent) ==
  Keys \union {NoKey} \union {ExpireKey(i) : i \in {j \in sent : status[j] # "none"}}

\* _idempotency_entity_id finds a row.
KeyStored(k) == k # NoKey /\ keyEntity[k] # NoInvoice

\* Faulty variant of KeyUsed: neither a lookup nor a unique constraint.
KeyUsedNever(k) == FALSE

\* What create looks for: an invoice created with the key, or a stored key.
KeyUsed(k) ==
  KeyStored(k) \/ (k # NoKey /\ \E i \in Invoices : createKey[i] = k)

\* The session of slot s is closed: its locks are released and the slot is free.
EndSession(s) ==
  /\ pc' = [pc EXCEPT ![s] = "idle"]
  /\ who' = [who EXCEPT ![s] = NoCompany]
  /\ target' = [target EXCEPT ![s] = NoInvoice]
  /\ key' = [key EXCEPT ![s] = NoKey]
  /\ want' = [want EXCEPT ![s] = NoLines]
  /\ seen' = [seen EXCEPT ![s] = NoLines]
  /\ need' = [need EXCEPT ![s] = {}]
  /\ held' = [held EXCEPT ![s] = {}]

StoreKey(k, i) ==
  keyEntity' = IF k = NoKey THEN keyEntity ELSE [keyEntity EXCEPT ![k] = i]

-----------------------------------------------------------------------------
(* The cart.                                                               *)

\* add_cart_item_delta and upsert_cart_item. A new cart_items row needs a
\* KEY SHARE lock on its cart, so it waits for a checkout; an UPDATE of an
\* existing row does not.
PutInCart(c, p, q) ==
  /\ CartFree(c) \/ (CartEditsOverlap /\ cart[c][p] > 0)
  /\ q <= Available(p)
  /\ cart' = [cart EXCEPT ![c][p] = q]
  /\ UNCHANGED <<status, owner, due, createKey, item, reserved, paidFor, moved,
                 onHand, ledger, keyEntity, session, batch>>

\* Faulty variant of RemoveFromCart: a delta of -1 on a line that may be absent.
RemoveFromCartUnchecked(c, p) ==
  /\ CartFree(c) \/ CartEditsOverlap
  /\ cart' = [cart EXCEPT ![c][p] = @ - 1]
  /\ UNCHANGED <<status, owner, due, createKey, item, reserved, paidFor, moved,
                 onHand, ledger, keyEntity, session, batch>>

\* remove_cart_item.
RemoveFromCart(c, p) ==
  /\ CartFree(c) \/ CartEditsOverlap
  /\ cart[c][p] > 0
  /\ cart' = [cart EXCEPT ![c][p] = 0]
  /\ UNCHANGED <<status, owner, due, createKey, item, reserved, paidFor, moved,
                 onHand, ledger, keyEntity, session, batch>>

-----------------------------------------------------------------------------
(* create_invoice_from_cart.                                               *)

\* Bound: an unused id is left for every create in flight.
IdLeft ==
  Cardinality({s \in Requests : Creating(s)})
    < Cardinality({i \in Invoices : status[i] = "none"})

\* The key lookup before any lock; a key already used answers at once.
StartCreate(s, c, k) ==
  /\ pc[s] = "idle" /\ IdLeft
  /\ ~KeyUsed(k)
  /\ pc' = [pc EXCEPT ![s] = "checkout"]
  /\ who' = [who EXCEPT ![s] = c]
  /\ key' = [key EXCEPT ![s] = k]
  /\ UNCHANGED <<rows, target, want, seen, need, held, batch>>

\* The cart row is locked and the cart read; an empty cart ends the request,
\* with the key's invoice if the key was used meanwhile, else with an error.
LockCart(s) ==
  /\ pc[s] = "checkout"
  /\ CartFree(who[s])
  /\ IF cart[who[s]] = NoLines
       THEN EndSession(s)
       ELSE /\ pc' = [pc EXCEPT ![s] = "create"]
            /\ want' = [want EXCEPT ![s] = cart[who[s]]]
            /\ need' = [need EXCEPT ![s] = LinesOf(cart[who[s]])]
            /\ UNCHANGED <<who, target, key, seen, held>>
  /\ UNCHANGED <<rows, batch>>

\* One inventory row more is locked, in the order of the product ids.
LockStock(s) ==
  /\ pc[s] \in {"create", "mutate", "ship"}
  /\ \E p \in NextRow(s) :
       /\ StockFree(p)
       /\ held' = [held EXCEPT ![s] = @ \union {p}]
       /\ need' = [need EXCEPT ![s] = @ \ {p}]
  /\ UNCHANGED <<rows, pc, who, target, key, want, seen, batch>>

\* With all rows locked, the availability of every line.
CheckCreate(s) ==
  /\ pc[s] = "create" /\ need[s] = {}
  /\ IF \A p \in LinesOf(want[s]) : want[s][p] <= Available(p)
       THEN /\ pc' = [pc EXCEPT ![s] = "created"]
            /\ UNCHANGED <<who, target, key, want, seen, need, held>>
       ELSE EndSession(s)
  /\ UNCHANGED <<rows, batch>>

\* The invoice, its lines, its reservations and its key are inserted and every
\* cart row is deleted; a key used meanwhile is a unique violation.
CommitCreate(s) ==
  /\ pc[s] = "created"
  /\ \/ /\ KeyUsed(key[s])
        /\ UNCHANGED rows
     \/ /\ ~KeyUsed(key[s])
        /\ \E i \in Invoices :
             /\ status[i] = "none"
             /\ status' = [status EXCEPT ![i] = "awaiting_payment"]
             /\ owner' = [owner EXCEPT ![i] = who[s]]
             /\ createKey' = [createKey EXCEPT ![i] = key[s]]
             /\ item' = [item EXCEPT ![i] = want[s]]
             /\ reserved' = [reserved EXCEPT ![i] = want[s]]
             /\ StoreKey(key[s], i)
        /\ cart' = [cart EXCEPT ![who[s]] = NoLines]
        /\ UNCHANGED <<due, paidFor, moved, onHand, ledger>>
  /\ EndSession(s)
  /\ UNCHANGED batch

-----------------------------------------------------------------------------
(* mutate_invoice_items. A request is the line quantities it asks for: an  *)
(* absolute quantity for a line the invoice has, an addition for one it    *)
(* has not.                                                                *)

\* Faulty variant of StartMutate: only the stock of the present lines is locked.
StartMutateLocksLines(s, i, q) ==
  /\ pc[s] = "idle"
  /\ InvoiceFree(i)
  /\ status[i] = "awaiting_payment" /\ ~due[i]
  /\ q # NoLines /\ q # item[i]
  /\ pc' = [pc EXCEPT ![s] = "mutate"]
  /\ target' = [target EXCEPT ![s] = i]
  /\ want' = [want EXCEPT ![s] = q]
  /\ need' = [need EXCEPT ![s] = LinesOf(item[i])]
  /\ UNCHANGED <<rows, who, key, seen, held, batch>>

StartMutate(s, i, q) ==
  /\ pc[s] = "idle"
  /\ InvoiceFree(i)
  /\ status[i] = "awaiting_payment" /\ ~due[i]
  /\ q # NoLines /\ q # item[i]
  /\ pc' = [pc EXCEPT ![s] = "mutate"]
  /\ target' = [target EXCEPT ![s] = i]
  /\ want' = [want EXCEPT ![s] = q]
  /\ need' = [need EXCEPT ![s] = LinesOf(item[i]) \union LinesOf(q)]
  /\ UNCHANGED <<rows, who, key, seen, held, batch>>

\* Every line needs its active reservation and every increase has to be available.
CheckMutate(s) ==
  /\ pc[s] = "mutate" /\ need[s] = {}
  /\ LET i == target[s] IN
     IF /\ \A p \in LinesOf(item[i]) : reserved[i][p] > 0
        /\ \A p \in Products :
             want[s][p] > item[i][p] => want[s][p] - item[i][p] <= Available(p)
       THEN /\ pc' = [pc EXCEPT ![s] = "mutated"]
            /\ UNCHANGED <<who, target, key, want, seen, need, held>>
       ELSE EndSession(s)
  /\ UNCHANGED <<rows, batch>>

\* Faulty variants of CommitMutate: reservations only grow; a deleted line keeps its own.
CommitMutateOnlyGrows(s) ==
  /\ pc[s] = "mutated"
  /\ LET i == target[s] IN
     /\ item' = [item EXCEPT ![i] = want[s]]
     /\ reserved' = [reserved EXCEPT ![i] =
                       [p \in Products |-> IF want[s][p] < item[i][p]
                                             THEN reserved[i][p] ELSE want[s][p]]]
  /\ EndSession(s)
  /\ UNCHANGED <<cart, status, owner, due, createKey, paidFor, moved,
                 onHand, ledger, keyEntity, batch>>

CommitMutateKeepsDeleted(s) ==
  /\ pc[s] = "mutated"
  /\ LET i == target[s] IN
     /\ item' = [item EXCEPT ![i] = want[s]]
     /\ reserved' = [reserved EXCEPT ![i] =
                       [p \in Products |-> IF want[s][p] = 0
                                             THEN reserved[i][p] ELSE want[s][p]]]
  /\ EndSession(s)
  /\ UNCHANGED <<cart, status, owner, due, createKey, paidFor, moved,
                 onHand, ledger, keyEntity, batch>>

\* Changed lines take their new quantity and so do their reservations; a line
\* set to 0 is deleted and its reservation released.
CommitMutate(s) ==
  /\ pc[s] = "mutated"
  /\ LET i == target[s] IN
     /\ item' = [item EXCEPT ![i] = want[s]]
     /\ reserved' = [reserved EXCEPT ![i] =
                       [p \in Products |-> IF want[s][p] = item[i][p]
                                             THEN reserved[i][p] ELSE want[s][p]]]
  /\ EndSession(s)
  /\ UNCHANGED <<cart, status, owner, due, createKey, paidFor, moved,
                 onHand, ledger, keyEntity, batch>>

-----------------------------------------------------------------------------
(* cancel_invoice and confirm_payment.                                     *)

CancelInvoice(i) ==
  /\ InvoiceFree(i)
  /\ status[i] = "awaiting_payment"
  /\ status' = [status EXCEPT ![i] = "canceled"]
  /\ reserved' = [reserved EXCEPT ![i] = NoLines]
  /\ UNCHANGED <<cart, owner, due, createKey, item, paidFor, moved,
                 onHand, ledger, keyEntity, session, batch>>

\* The key lookup before any lock; a key already used answers at once, with
\* the entity it is stored with.
StartConfirm(s, i, k) ==
  /\ pc[s] = "idle"
  /\ status[i] # "none"
  /\ ~KeyStored(k)
  /\ pc' = [pc EXCEPT ![s] = "pay"]
  /\ target' = [target EXCEPT ![s] = i]
  /\ key' = [key EXCEPT ![s] = k]
  /\ UNCHANGED <<rows, who, want, seen, need, held, batch>>

\* The invoice row is locked; unless it awaits payment, has no payment and the
\* key can be inserted, nothing is written. expires_at is not looked at.
ConfirmPayment(s) ==
  /\ pc[s] = "pay"
  /\ LET i == target[s] IN
     /\ InvoiceFree(i)
     /\ IF /\ status[i] = "awaiting_payment"
           /\ paidFor[i] = NoLines
           /\ ~KeyStored(key[s])
          THEN /\ status' = [status EXCEPT ![i] = "paid"]
               /\ paidFor' = [paidFor EXCEPT ![i] = item[i]]
               /\ StoreKey(key[s], i)
               /\ UNCHANGED <<cart, owner, due, createKey, item, reserved,
                              moved, onHand, ledger>>
          ELSE UNCHANGED rows
  /\ EndSession(s)
  /\ UNCHANGED batch

-----------------------------------------------------------------------------
(* ship_invoice.                                                           *)

StartShip(s, i) ==
  /\ pc[s] = "idle"
  /\ InvoiceFree(i)
  /\ status[i] = "paid" /\ item[i] # NoLines
  /\ pc' = [pc EXCEPT ![s] = "ship"]
  /\ target' = [target EXCEPT ![s] = i]
  /\ need' = [need EXCEPT ![s] = LinesOf(item[i])]
  /\ UNCHANGED <<rows, who, key, want, seen, held, batch>>

\* Every line has an active reservation of its quantity; the stock rows are read.
CheckShip(s) ==
  /\ pc[s] = "ship" /\ need[s] = {}
  /\ LET i == target[s] IN
     IF \A p \in LinesOf(item[i]) : reserved[i][p] = item[i][p]
       THEN /\ pc' = [pc EXCEPT ![s] = "shipping"]
            /\ seen' = [seen EXCEPT ![s] = onHand]
            /\ UNCHANGED <<who, target, key, want, need, held>>
       ELSE EndSession(s)
  /\ UNCHANGED <<rows, batch>>

\* Faulty variant of CommitShip: when the stock of a line is refused, the movements of
\* the other lines are kept.
CommitShipInParts(s) ==
  /\ pc[s] = "shipping"
  /\ LET i == target[s] IN
     IF \A p \in LinesOf(item[i]) : seen[s][p] >= item[i][p]
       THEN /\ status' = [status EXCEPT ![i] = "shipped"]
            /\ reserved' = [reserved EXCEPT ![i] = NoLines]
            /\ onHand' = [p \in Products |-> onHand[p] - item[i][p]]
            /\ moved' = [moved EXCEPT ![i] = item[i]]
            /\ UNCHANGED <<cart, owner, due, createKey, item, paidFor, ledger, keyEntity>>
       ELSE /\ moved' = [moved EXCEPT ![i] = [p \in Products |->
                            IF seen[s][p] >= item[i][p] THEN item[i][p] ELSE 0]]
            /\ UNCHANGED <<cart, status, owner, due, createKey, item, reserved,
                           paidFor, onHand, ledger, keyEntity>>
  /\ EndSession(s)
  /\ UNCHANGED batch

\* The reservations are consumed and the stock read before goes down by the
\* lines; CHECK (quantity_on_hand >= 0) refuses a negative stock.
CommitShip(s) ==
  /\ pc[s] = "shipping"
  /\ LET i == target[s] IN
     IF \A p \in LinesOf(item[i]) : seen[s][p] >= item[i][p]
       THEN /\ status' = [status EXCEPT ![i] = "shipped"]
            /\ reserved' = [reserved EXCEPT ![i] =
                              [p \in Products |-> IF item[i][p] > 0 THEN 0 ELSE @[p]]]
            /\ onHand' = [p \in Products |-> IF item[i][p] > 0
                                               THEN seen[s][p] - item[i][p] ELSE onHand[p]]
            /\ moved' = [moved EXCEPT ![i] = [p \in Products |-> @[p] + item[i][p]]]
            /\ ledger' = [p \in Products |-> ledger[p] - item[i][p]]
            /\ UNCHANGED <<cart, owner, due, createKey, item, paidFor, keyEntity>>
       ELSE UNCHANGED rows
  /\ EndSession(s)
  /\ UNCHANGED batch

-----------------------------------------------------------------------------
(* expire_due_invoices and its job.                                        *)

\* SELECT ... FOR UPDATE SKIP LOCKED: all overdue invoices nobody has locked.
DueUnlocked ==
  {i \in Invoices : status[i] = "awaiting_payment" /\ due[i] /\ InvoiceFree(i)}

StartExpire(w) ==
  /\ batch[w] = {}
  /\ DueUnlocked # {}
  /\ batch' = [batch EXCEPT ![w] = DueUnlocked]
  /\ UNCHANGED <<rows, session>>

\* Faulty variant of Expiring: a stored expire_key ends the loop.
ExpiringIfNoneStored(w) ==
  IF \E i \in batch[w] : KeyStored(ExpireKey(i)) THEN {} ELSE batch[w]

\* The invoices of a batch whose expire_key is not stored: the job passes over the others.
Expiring(w) == {i \in batch[w] : ~KeyStored(ExpireKey(i))}

\* _store_idempotency for each of them.
StoreExpireKeys(w) ==
  keyEntity' = [k \in AllKeys |-> IF k \in {ExpireKey(i) : i \in Expiring(w)}
                                    THEN k[2] ELSE keyEntity[k]]

CommitExpire(w) ==
  /\ batch[w] # {}
  /\ status' = [i \in Invoices |-> IF i \in Expiring(w) THEN "expired" ELSE status[i]]
  /\ reserved' = [i \in Invoices |-> IF i \in Expiring(w) THEN NoLines ELSE reserved[i]]
  /\ StoreExpireKeys(w)
  /\ batch' = [batch EXCEPT ![w] = {}]
  /\ UNCHANGED <<cart, owner, due, createKey, item, paidFor, moved,
                 onHand, ledger, session>>

\* The job fails before its only commit, also because a key it is about to store was
\* stored meanwhile: the whole batch is rolled back.
FailExpire(w) ==
  /\ batch[w] # {}
  /\ batch' = [batch EXCEPT ![w] = {}]
  /\ UNCHANGED <<rows, session>>

-----------------------------------------------------------------------------
(* correct_inventory: it locks no row before it writes.                    *)

\* Faulty variant of CorrectAlone: the movement records the target, not the change.
CorrectAloneAbsolute(p, n) ==
  /\ ~CorrectionsOverlap
  /\ StockFree(p)
  /\ n >= ReservedQuantity(p) /\ n # onHand[p]
  /\ onHand' = [onHand EXCEPT ![p] = n]
  /\ ledger' = [ledger EXCEPT ![p] = @ + n]
  /\ UNCHANGED <<cart, status, owner, due, createKey, item, reserved, paidFor,
                 moved, keyEntity, session, batch>>

\* Nothing commits between its reads and its commit.
CorrectAlone(p, n) ==
  /\ ~CorrectionsOverlap
  /\ StockFree(p)
  /\ n >= ReservedQuantity(p) /\ n # onHand[p]
  /\ onHand' = [onHand EXCEPT ![p] = n]
  /\ ledger' = [ledger EXCEPT ![p] = @ + (n - onHand[p])]
  /\ UNCHANGED <<cart, status, owner, due, createKey, item, reserved, paidFor,
                 moved, keyEntity, session, batch>>

\* Bound: once lost updates have driven the ledger out of the range of the
\* stock, no further correction of the product begins.
LedgerInRange(p) == ledger[p] \in 0..MaxStock

\* Stock and reservations are read, the target is checked against them.
ReadForCorrection(s, p, n) ==
  /\ CorrectionsOverlap /\ LedgerInRange(p)
  /\ pc[s] = "idle"
  /\ n >= ReservedQuantity(p) /\ n # onHand[p]
  /\ pc' = [pc EXCEPT ![s] = "correct"]
  /\ want' = [want EXCEPT ![s] = [NoLines EXCEPT ![p] = n]]
  /\ seen' = [seen EXCEPT ![s] = onHand]
  /\ need' = [need EXCEPT ![s] = {p}]
  /\ UNCHANGED <<rows, who, target, key, held, batch>>

\* The UPDATE waits for the row's lock, then writes the absolute target and a
\* movement with the delta computed from the stock read before.
WriteCorrection(s) ==
  /\ pc[s] = "correct"
  /\ \E p \in need[s] :
       /\ StockFree(p)
       /\ onHand' = [onHand EXCEPT ![p] = want[s][p]]
       /\ ledger' = [ledger EXCEPT ![p] = @ + (want[s][p] - seen[s][p])]
  /\ EndSession(s)
  /\ UNCHANGED <<cart, status, owner, due, createKey, item, reserved, paidFor,
                 moved, keyEntity, batch>>

-----------------------------------------------------------------------------
(* The clock and failures.                                                 *)

\* expires_at passes.
ComeDue(i) ==
  /\ status[i] = "awaiting_payment" /\ ~due[i]
  /\ due' = [due EXCEPT ![i] = TRUE]
  /\ UNCHANGED <<cart, status, owner, createKey, item, reserved, paidFor, moved,
                 onHand, ledger, keyEntity, session, batch>>

\* A transaction ends without a commit: an exception, a check on data this
\* module leaves out (product and company state), a lost connection, a crash.
Rollback(s) ==
  /\ pc[s] # "idle"
  /\ EndSession(s)
  /\ UNCHANGED <<rows, batch>>

-----------------------------------------------------------------------------

Init ==
  /\ cart = [c \in Companies |-> NoLines]
  /\ status = [i \in Invoices |-> "none"]
  /\ owner = [i \in Invoices |-> NoCompany]
  /\ due = [i \in Invoices |-> FALSE]
  /\ createKey = [i \in Invoices |-> NoKey]
  /\ item = [i \in Invoices |-> NoLines]
  /\ reserved = [i \in Invoices |-> NoLines]
  /\ paidFor = [i \in Invoices |-> NoLines]
  /\ moved = [i \in Invoices |-> NoLines]
  /\ onHand = NoLines
  /\ ledger = NoLines
  /\ keyEntity = [k \in AllKeys |-> NoInvoice]
  /\ pc = [s \in Requests |-> "idle"]
  /\ who = [s \in Requests |-> NoCompany]
  /\ target = [s \in Requests |-> NoInvoice]
  /\ key = [s \in Requests |-> NoKey]
  /\ want = [s \in Requests |-> NoLines]
  /\ seen = [s \in Requests |-> NoLines]
  /\ need = [s \in Requests |-> {}]
  /\ held = [s \in Requests |-> {}]
  /\ batch = [w \in Workers |-> {}]

Customer ==
  \E c \in Companies, p \in Products :
    \/ \E q \in 1..MaxQty : PutInCart(c, p, q)
    \/ RemoveFromCart(c, p)

Begin(s) ==
  \/ \E c \in Companies, k \in HeaderKeys(SentByCreates) : StartCreate(s, c, k)
  \/ \E i \in Invoices, q \in Lines : StartMutate(s, i, q)
  \/ \E i \in Invoices, k \in HeaderKeys(SentByPayments) : StartConfirm(s, i, k)
  \/ \E i \in Invoices : StartShip(s, i)
  \/ \E p \in Products, n \in 0..MaxStock : ReadForCorrection(s, p, n)

Continue(s) ==
  \/ LockCart(s)
  \/ LockStock(s)
  \/ CheckCreate(s)
  \/ CommitCreate(s)
  \/ CheckMutate(s)
  \/ CommitMutate(s)
  \/ ConfirmPayment(s)
  \/ CheckShip(s)
  \/ CommitShip(s)
  \/ WriteCorrection(s)

ExpireJob(w) == StartExpire(w) \/ CommitExpire(w) \/ FailExpire(w)

Next ==
  \/ Customer
  \/ \E s \in Requests : Begin(s) \/ Continue(s) \/ Rollback(s)
  \/ \E i \in Invoices : CancelInvoice(i) \/ ComeDue(i)
  \/ \E w \in Workers : ExpireJob(w)
  \/ \E p \in Products, n \in 0..MaxStock : CorrectAlone(p, n)

Spec == Init /\ [][Next]_vars

\* Requests run to their end: PostgreSQL hands a row lock to its waiters in
\* turn, so a lock that is free again and again is obtained. The scheduler
\* starts the expiry job again and again and it does not fail every time.
Fairness ==
  /\ \A s \in Requests : SF_vars(Continue(s))
  /\ \A w \in Workers : WF_vars(StartExpire(w)) /\ SF_vars(CommitExpire(w))

FairSpec == Spec /\ Fairness

-----------------------------------------------------------------------------
(* Properties.                                                             *)

\* An open invoice reserves exactly its lines and a closed one nothing, so
\* ship_invoice never meets a reservation that is missing or differs.
ReservationsMatchLines ==
  \A i \in Invoices :
    reserved[i] = IF status[i] \in {"awaiting_payment", "paid"} THEN item[i] ELSE NoLines

\* An invoice is paid or shipped exactly if it has a payment, and that payment
\* was taken for the lines the invoice still has: what is paid is what is shipped.
PaymentCoversLines ==
  \A i \in Invoices :
    paidFor[i] = IF status[i] \in {"paid", "shipped"} THEN item[i] ELSE NoLines

\* Each shipped invoice has moved its lines out of stock exactly once, no other
\* invoice has moved anything.
ShippedOnce ==
  \A i \in Invoices :
    moved[i] = IF status[i] = "shipped" THEN item[i] ELSE NoLines

\* Open invoices never promise more of a product than is in stock.
NeverOversold == \A p \in Products : ReservedQuantity(p) <= onHand[p]

\* The stock on hand is what its movements add up to.
StockMatchesLedger == onHand = ledger

\* No two invoices were created with the same idempotency key, and a key used
\* to create an invoice is stored with that invoice.
OneInvoicePerKey ==
  \A i \in Invoices :
    createKey[i] # NoKey =>
      /\ keyEntity[createKey[i]] = i
      /\ \A j \in Invoices : createKey[j] = createKey[i] => j = i

\* s waits for a row that r has locked.
WaitsFor(s, r) ==
  \/ pc[s] = "checkout" /\ HoldsCart(r, who[s])
  \/ pc[s] = "pay" /\ HoldsInvoice(r, target[s])
  \/ pc[s] \in {"create", "mutate", "ship"} /\ NextRow(s) \cap held[r] # {}
  \/ pc[s] = "correct" /\ need[s] \cap held[r] # {}

\* In no set of transactions does each wait for another of the set.
NoDeadlock ==
  \A S \in (SUBSET Requests) \ {{}} : \E s \in S : \A r \in S : ~WaitsFor(s, r)

\* An invoice only moves awaiting_payment -> paid -> shipped or awaiting_payment
\* -> canceled / expired, and its lines never change once it is not awaiting_payment.
LifecycleStep ==
  \A i \in Invoices :
    /\ status'[i] # status[i] =>
         <<status[i], status'[i]>> \in
           {<<"none", "awaiting_payment">>, <<"paid", "shipped">>}
           \union {"awaiting_payment"} \X {"paid", "canceled", "expired"}
    /\ status[i] \notin {"none", "awaiting_payment"} => item'[i] = item[i]
Lifecycle == [][LifecycleStep]_vars

\* A new invoice has exactly the lines its company's cart holds at that moment
\* and empties the cart: no cart line is invoiced twice or dropped.
CheckoutStep ==
  \A i \in Invoices :
    status[i] = "none" /\ status'[i] # "none" =>
      item'[i] = cart[owner'[i]] /\ cart'[owner'[i]] = NoLines
CheckoutTakesCart == [][CheckoutStep]_vars

\* Two transactions never hold the same row of a table.
InvoiceLocksExclusive ==
  /\ \A r, s \in Requests : r # s =>
       \A i \in Invoices : ~(HoldsInvoice(r, i) /\ HoldsInvoice(s, i))
  /\ \A s \in Requests, w \in Workers : \A i \in batch[w] : ~HoldsInvoice(s, i)
  /\ \A v, w \in Workers : v # w => batch[v] \cap batch[w] = {}

StockLocksExclusive ==
  \A r, s \in Requests : r # s => held[r] \cap held[s] = {}

CartLocksExclusive ==
  \A r, s \in Requests : r # s =>
    \A c \in Companies : ~(HoldsCart(r, c) /\ HoldsCart(s, c))

LocksExclusive == InvoiceLocksExclusive /\ StockLocksExclusive /\ CartLocksExclusive

\* The status a transaction found its invoice in is still its status.
StatusStillHolds ==
  /\ \A s \in Requests :
       /\ Mutating(s) => status[target[s]] = "awaiting_payment"
       /\ Shipping(s) => status[target[s]] = "paid"
  /\ \A w \in Workers : \A i \in batch[w] : status[i] = "awaiting_payment"

\* The availability a transaction checked is still there, and the stock it
\* read is still the stock, when it commits.
StockStillHolds ==
  \A s \in Requests :
    /\ pc[s] = "created" =>
         \A p \in LinesOf(want[s]) : want[s][p] <= Available(p)
    /\ pc[s] = "mutated" =>
         \A p \in Products : want[s][p] > item[target[s]][p] =>
           want[s][p] - item[target[s]][p] <= Available(p)
    /\ pc[s] = "shipping" =>
         \A p \in LinesOf(item[target[s]]) : seen[s][p] = onHand[p]

ChecksStillHold == StatusStillHolds /\ StockStillHolds

\* The abstract promise that the locks, checks and jobs above implement.
PhaseOf(st) ==
  CASE st = "none" -> "unused"
    [] st = "awaiting_payment" -> "open"
    [] st \in {"canceled", "expired"} -> "released"
    [] OTHER -> st

Promise == INSTANCE StockPromise WITH
  phase <- [i \in Invoices |-> PhaseOf(status[i])],
  promised <- reserved,
  stock <- onHand

\* Seen from the stock, concurrent requests and jobs act as if one after the
\* other: every commit is one step of the abstract promise, every other step none.
KeepsPromises == Promise!PromiseSpec

\* "Переводит просроченные awaiting_payment в expired и снимает резервы": an invoice
\* whose payment term has passed does not go on reserving stock; it is expired,
\* unless it is paid or canceled first.
OverdueExpires ==
  \A i \in Invoices :
    (status[i] = "awaiting_payment" /\ due[i]) ~> status[i] # "awaiting_payment"

\* What expire_due_invoices does of that, whatever keys requests send, whatever rows
\* SKIP LOCKED leaves out and however often a batch fails: an overdue invoice is
\* resolved, but for one whose expire_key an earlier request has stored.
OverdueResolved ==
  \A i \in Invoices :
    (status[i] = "awaiting_payment" /\ due[i])
      ~> (status[i] # "awaiting_payment" \/ KeyStored(ExpireKey(i)))

\* Every request that takes locks ends: no deadlock, no starvation.
RequestsEnd == \A s \in Requests : pc[s] # "idle" ~> pc[s] = "idle"
=============================================================================
