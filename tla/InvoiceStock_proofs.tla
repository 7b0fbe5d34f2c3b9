-------------------------- MODULE InvoiceStock_proofs --------------------------
(* Theorems of InvoiceStock, for every value of its constants: its types;  *)
(* the invariants of the invoices; those of the requests, namely that a    *)
(* key creates one invoice, a checkout takes the whole cart and requests   *)
(* never wait for each other in a circle; and the stock, which is never    *)
(* oversold and equals its movements, up to the refinement of StockPromise.*)
EXTENDS InvoiceStock, FiniteSetTheorems, TLAPS

-----------------------------------------------------------------------------
(* Type correctness. The rows, the sessions and the batches are typed      *)
(* separately: a step of a transaction changes its session and, if it is   *)
(* the commit, rows.                                                       *)

LEMMA NoLinesType == NoLines \in Lines /\ NoLines \in [Products -> Nat]
  BY BoundsAssumption DEF NoLines, Lines

LEMMA LinesAreNat == \A q \in Lines : q \in [Products -> Nat]
  BY BoundsAssumption DEF Lines

LEMMA InitTypeOK == Init => TypeOK
  BY NoLinesType, NullsAssumption
  DEF Init, TypeOK, RowsType, SessionType, Stage, Status, Creating, OnInvoice, Mutating, Shipping

\* Closing a session leaves all sessions typed.
LEMMA EndSessionType ==
  ASSUME SessionType, NEW s \in Requests, EndSession(s)
  PROVE  SessionType'
  BY NoLinesType DEF SessionType, EndSession, Stage, Creating, OnInvoice, Mutating, Shipping


LEMMA CustomerType == TypeOK /\ Customer => TypeOK'
<1> SUFFICES ASSUME TypeOK, Customer PROVE TypeOK'
  OBVIOUS
<1>1. cart' \in [Companies -> Lines]
  <2>1. ASSUME NEW c \in Companies, NEW p \in Products, NEW q \in 0..MaxQty
        PROVE  [cart EXCEPT ![c][p] = q] \in [Companies -> Lines]
    BY DEF TypeOK, RowsType, Lines
  <2>2. PICK c \in Companies, p \in Products, q \in 0..MaxQty :
               cart' = [cart EXCEPT ![c][p] = q]
    BY BoundsAssumption DEF Customer, PutInCart, RemoveFromCart
  <2> QED BY <2>1, <2>2
<1>2. UNCHANGED <<status, owner, due, createKey, item, reserved, paidFor, moved,
                  onHand, ledger, keyEntity, session, batch>>
  BY DEF Customer, PutInCart, RemoveFromCart
<1>3. RowsType'
  BY <1>1, <1>2 DEF TypeOK, RowsType
<1>4. SessionType'
  BY <1>2 DEF TypeOK, SessionType, session, Creating, OnInvoice, Mutating, Shipping
<1> QED BY <1>2, <1>3, <1>4 DEF TypeOK

\* A request carries a key the table may have, or none.
LEMMA HeadersAreKeys ==
  ASSUME NEW sent \in SUBSET Invoices
  PROVE  HeaderKeys(sent) \subseteq AllKeys \union {NoKey}
BY DEF HeaderKeys, AllKeys, ExpireKeys

LEMMA BeginCases ==
  ASSUME NEW s \in Requests, Begin(s)
  PROVE  \/ \E c \in Companies, k \in AllKeys \union {NoKey} : StartCreate(s, c, k)
         \/ \E i \in Invoices, q \in Lines : StartMutate(s, i, q)
         \/ \E i \in Invoices, k \in AllKeys \union {NoKey} : StartConfirm(s, i, k)
         \/ \E i \in Invoices : StartShip(s, i)
         \/ \E p \in Products, n \in 0..MaxStock : ReadForCorrection(s, p, n)
<1>1. /\ HeaderKeys(SentByCreates) \subseteq AllKeys \union {NoKey}
      /\ HeaderKeys(SentByPayments) \subseteq AllKeys \union {NoKey}
  BY HeadersAreKeys, FlagsAssumption
<1> QED BY <1>1 DEF Begin

LEMMA BeginType == ASSUME TypeOK, NEW s \in Requests, Begin(s) PROVE TypeOK'
<1>1. UNCHANGED <<rows, batch>>
  BY DEF Begin, StartCreate, StartMutate, StartConfirm, StartShip, ReadForCorrection
<1>2. SessionType'
  <2>1. CASE \E c \in Companies, k \in AllKeys \union {NoKey} : StartCreate(s, c, k)
    BY <2>1 DEF StartCreate, TypeOK, SessionType, Stage, Creating, OnInvoice, Mutating, Shipping
  <2>2. CASE \E i \in Invoices, q \in Lines : StartMutate(s, i, q)
    BY <2>2, LinesAreNat
    DEF StartMutate, TypeOK, SessionType, Stage, Creating, OnInvoice, Mutating, Shipping, LinesOf
  <2>3. CASE \E i \in Invoices, k \in AllKeys \union {NoKey} : StartConfirm(s, i, k)
    BY <2>3 DEF StartConfirm, TypeOK, SessionType, Stage, Creating, OnInvoice, Mutating, Shipping
  <2>4. CASE \E i \in Invoices : StartShip(s, i)
    BY <2>4 DEF StartShip, TypeOK, SessionType, Stage, Creating, OnInvoice, Mutating, Shipping, LinesOf
  <2>5. CASE \E p \in Products, n \in 0..MaxStock : ReadForCorrection(s, p, n)
    BY <2>5, NoLinesType
    DEF ReadForCorrection, TypeOK, RowsType, SessionType, Stage, Creating, OnInvoice, Mutating, Shipping
  <2> QED BY <2>1, <2>2, <2>3, <2>4, <2>5, BeginCases
<1> QED BY <1>1, <1>2 DEF TypeOK, RowsType, rows

LEMMA ContinueSessionType ==
  ASSUME TypeOK, NEW s \in Requests, Continue(s)
  PROVE  SessionType' /\ batch' = batch
<1>1. CASE LockCart(s)
  <2>1. CASE cart[who[s]] = NoLines
    BY <1>1, <2>1, EndSessionType DEF LockCart, TypeOK
  <2>2. CASE cart[who[s]] # NoLines
    <3>1. cart[who[s]] \in Lines /\ cart[who[s]] \in [Products -> Nat]
      BY <1>1, LinesAreNat DEF LockCart, TypeOK, RowsType, SessionType, Creating
    <3>2. /\ pc' = [pc EXCEPT ![s] = "create"]
          /\ want' = [want EXCEPT ![s] = cart[who[s]]]
          /\ need' = [need EXCEPT ![s] = LinesOf(cart[who[s]])]
          /\ UNCHANGED <<who, target, key, seen, held, batch>>
          /\ who[s] \in Companies
      BY <1>1, <2>2 DEF LockCart, TypeOK, SessionType, Creating
    <3>3. LinesOf(cart[who[s]]) \subseteq Products
      BY DEF LinesOf
    <3> QED BY <3>1, <3>2, <3>3 DEF TypeOK, SessionType, Stage, Creating, OnInvoice, Mutating, Shipping
  <2> QED BY <2>1, <2>2
<1>2. CASE LockStock(s)
  BY <1>2 DEF LockStock, NextRow, TypeOK, SessionType, Creating, OnInvoice, Mutating, Shipping
<1>3. CASE CheckCreate(s)
  BY <1>3, EndSessionType DEF CheckCreate, TypeOK, SessionType, Stage, Creating, OnInvoice, Mutating, Shipping
<1>4. CASE CheckMutate(s)
  BY <1>4, EndSessionType DEF CheckMutate, TypeOK, SessionType, Stage, Creating, OnInvoice, Mutating, Shipping
<1>5. CASE CheckShip(s)
  <2>1. CASE EndSession(s)
    BY <1>5, <2>1, EndSessionType DEF CheckShip, TypeOK
  <2>2. CASE ~EndSession(s)
    <3>1. /\ pc[s] = "ship" /\ pc' = [pc EXCEPT ![s] = "shipping"]
          /\ seen' = [seen EXCEPT ![s] = onHand]
          /\ UNCHANGED <<who, target, key, want, need, held, batch>>
      BY <1>5, <2>2 DEF CheckShip
    <3>2. onHand \in [Products -> Nat]
      BY BoundsAssumption DEF TypeOK, RowsType
    <3> QED
      BY <3>1, <3>2
      DEF TypeOK, SessionType, Stage, Creating, OnInvoice, Mutating, Shipping
  <2> QED BY <2>1, <2>2
<1>6. CASE CommitCreate(s) \/ CommitMutate(s) \/ ConfirmPayment(s)
             \/ CommitShip(s) \/ WriteCorrection(s)
  BY <1>6, EndSessionType
  DEF CommitCreate, CommitMutate, ConfirmPayment, CommitShip, WriteCorrection, TypeOK
<1> QED BY <1>1, <1>2, <1>3, <1>4, <1>5, <1>6 DEF Continue

LEMMA ContinueRowsType ==
  ASSUME TypeOK, NEW s \in Requests, Continue(s)
  PROVE  RowsType'
<1>1. CASE LockCart(s) \/ LockStock(s) \/ CheckCreate(s) \/ CheckMutate(s) \/ CheckShip(s)
  BY <1>1 DEF LockCart, LockStock, CheckCreate, CheckMutate, CheckShip, TypeOK, RowsType, rows
<1>2. CASE CommitCreate(s)
  <2>1. CASE KeyUsed(key[s])
    BY <1>2, <2>1 DEF CommitCreate, TypeOK, RowsType, rows
  <2>2. CASE ~KeyUsed(key[s])
    <3>1. who[s] \in Companies /\ want[s] \in Lines /\ key[s] \in AllKeys \union {NoKey}
      BY <1>2 DEF CommitCreate, TypeOK, SessionType, Creating
    <3>2. PICK i \in Invoices :
            /\ status' = [status EXCEPT ![i] = "awaiting_payment"]
            /\ owner' = [owner EXCEPT ![i] = who[s]]
            /\ createKey' = [createKey EXCEPT ![i] = key[s]]
            /\ item' = [item EXCEPT ![i] = want[s]]
            /\ reserved' = [reserved EXCEPT ![i] = want[s]]
            /\ StoreKey(key[s], i)
      BY <1>2, <2>2 DEF CommitCreate
    <3>3. cart' = [cart EXCEPT ![who[s]] = NoLines]
          /\ UNCHANGED <<due, paidFor, moved, onHand, ledger>>
      BY <1>2, <2>2 DEF CommitCreate
    <3> QED BY <3>1, <3>2, <3>3, NoLinesType DEF TypeOK, RowsType, Status, StoreKey
  <2> QED BY <2>1, <2>2
<1>3. CASE CommitMutate(s)
  <2>1. target[s] \in Invoices /\ want[s] \in Lines
    BY <1>3 DEF CommitMutate, TypeOK, SessionType, OnInvoice, Mutating, Shipping
  <2> QED BY <1>3, <2>1 DEF CommitMutate, TypeOK, RowsType, Lines
<1>4. CASE ConfirmPayment(s)
  <2>1. target[s] \in Invoices /\ key[s] \in AllKeys \union {NoKey}
    BY <1>4 DEF ConfirmPayment, TypeOK, SessionType, OnInvoice, Mutating, Shipping
  <2>2. item[target[s]] \in Lines
    BY <2>1 DEF TypeOK, RowsType
  <2>3. CASE UNCHANGED rows
    BY <2>3 DEF TypeOK, RowsType, rows
  <2>4. CASE /\ status' = [status EXCEPT ![target[s]] = "paid"]
             /\ paidFor' = [paidFor EXCEPT ![target[s]] = item[target[s]]]
             /\ StoreKey(key[s], target[s])
             /\ UNCHANGED <<cart, owner, due, createKey, item, reserved, moved,
                            onHand, ledger>>
    BY <2>1, <2>2, <2>4 DEF TypeOK, RowsType, Status, StoreKey
  <2> QED BY <1>4, <2>3, <2>4 DEF ConfirmPayment
<1>5. CASE CommitShip(s)
  <2>1. target[s] \in Invoices /\ seen[s] \in [Products -> Nat]
    BY <1>5 DEF CommitShip, TypeOK, SessionType, OnInvoice, Mutating, Shipping
  <2>2. item[target[s]] \in [Products -> Nat]
    BY <2>1, LinesAreNat DEF TypeOK, RowsType
  <2>3. CASE UNCHANGED rows
    BY <2>3 DEF TypeOK, RowsType, rows
  <2>4. CASE ~UNCHANGED rows
    <3>1. \A p \in LinesOf(item[target[s]]) : seen[s][p] >= item[target[s]][p]
      BY <1>5, <2>4 DEF CommitShip
    <3>2. /\ status' = [status EXCEPT ![target[s]] = "shipped"]
          /\ UNCHANGED <<cart, owner, due, createKey, item, paidFor, keyEntity>>
      BY <1>5, <3>1 DEF CommitShip
    <3>3. reserved' \in [Invoices -> Lines]
      <4> DEFINE r == reserved[target[s]]
      <4>1. reserved' = [reserved EXCEPT ![target[s]] =
                [p \in Products |-> IF item[target[s]][p] > 0 THEN 0 ELSE r[p]]]
        BY <1>5, <3>1 DEF CommitShip
      <4>2. r \in Lines
        BY <2>1 DEF TypeOK, RowsType
      <4>3. [p \in Products |-> IF item[target[s]][p] > 0 THEN 0 ELSE r[p]] \in Lines
        BY <4>2, BoundsAssumption DEF Lines
      <4> QED BY <4>1, <4>3 DEF TypeOK, RowsType
    <3>4. moved' \in [Invoices -> [Products -> Nat]]
      <4> DEFINE m == moved[target[s]]
      <4>1. moved' = [moved EXCEPT ![target[s]] =
                        [p \in Products |-> m[p] + item[target[s]][p]]]
        BY <1>5, <3>1 DEF CommitShip
      <4>2. m \in [Products -> Nat]
        BY <2>1 DEF TypeOK, RowsType
      <4>3. [p \in Products |-> m[p] + item[target[s]][p]] \in [Products -> Nat]
        BY <2>2, <4>2
      <4> QED BY <4>1, <4>3 DEF TypeOK, RowsType
    <3>5. onHand' \in [Products -> Nat]
      <4>1. ASSUME NEW p \in Products
            PROVE  (IF item[target[s]][p] > 0
                      THEN seen[s][p] - item[target[s]][p] ELSE onHand[p]) \in Nat
        BY <3>1, <2>1, <2>2 DEF TypeOK, RowsType, LinesOf
      <4> QED BY <1>5, <3>1, <4>1 DEF CommitShip
    <3>6. ledger' \in [Products -> Int]
      BY <1>5, <3>1, <2>2 DEF CommitShip, TypeOK, RowsType
    <3> QED BY <3>2, <3>3, <3>4, <3>5, <3>6 DEF TypeOK, RowsType, Status
  <2> QED BY <2>3, <2>4
<1>6. CASE WriteCorrection(s)
  BY <1>6 DEF WriteCorrection, TypeOK, RowsType, SessionType
<1> QED BY <1>1, <1>2, <1>3, <1>4, <1>5, <1>6 DEF Continue

\* A job stores keys that were not stored, each with an invoice, and moves no other.
LEMMA ExpireKeysStored ==
  ASSUME TypeOK, NEW w \in Workers, StoreExpireKeys(w)
  PROVE  /\ keyEntity' \in [AllKeys -> Invoices \union {NoInvoice}]
         /\ \A k \in AllKeys : KeyStored(k) => keyEntity'[k] = keyEntity[k]
<1>1. Expiring(w) \subseteq Invoices /\ keyEntity \in [AllKeys -> Invoices \union {NoInvoice}]
  BY DEF Expiring, TypeOK, RowsType
<1>2. \A i \in Expiring(w) : ExpireKey(i)[2] \in Invoices /\ ~KeyStored(ExpireKey(i))
  BY <1>1 DEF ExpireKey, Expiring
<1> DEFINE K == {ExpireKey(i) : i \in Expiring(w)}
<1>3. \A k \in K : k[2] \in Invoices /\ ~KeyStored(k)
  BY <1>2
<1>4. keyEntity' = [k \in AllKeys |-> IF k \in K THEN k[2] ELSE keyEntity[k]]
  BY DEF StoreExpireKeys
<1> HIDE DEF K
<1> QED BY <1>1, <1>3, <1>4

LEMMA JobType == ASSUME TypeOK, NEW w \in Workers, ExpireJob(w) PROVE TypeOK'
<1>1. RowsType'
  <2>1. CASE StartExpire(w) \/ FailExpire(w)
    BY <2>1 DEF StartExpire, FailExpire, TypeOK, RowsType, rows
  <2>2. CASE CommitExpire(w)
    <3>1. keyEntity' \in [AllKeys -> Invoices \union {NoInvoice}]
      BY <2>2, ExpireKeysStored DEF CommitExpire
    <3> QED BY <2>2, <3>1, NoLinesType DEF CommitExpire, TypeOK, RowsType, Status
  <2> QED BY <2>1, <2>2 DEF ExpireJob
<1>2. SessionType' /\ batch' \in [Workers -> SUBSET Invoices]
  BY DEF ExpireJob, StartExpire, CommitExpire, FailExpire, DueUnlocked, TypeOK,
     SessionType, session, Creating, OnInvoice, Mutating, Shipping
<1> QED BY <1>1, <1>2 DEF TypeOK

LEMMA StepTypeOK == TypeOK /\ [Next]_vars => TypeOK'
<1> SUFFICES ASSUME TypeOK, [Next]_vars PROVE TypeOK'
  OBVIOUS
<1>a. ASSUME UNCHANGED <<session, batch>>, RowsType' PROVE TypeOK'
  BY <1>a DEF TypeOK, SessionType, session, Creating, OnInvoice, Mutating, Shipping
<1>1. CASE UNCHANGED vars
  BY <1>1, <1>a DEF vars, rows, TypeOK, RowsType
<1>2. CASE Customer
  BY <1>2, CustomerType
<1>3. ASSUME NEW s \in Requests, Begin(s) PROVE TypeOK'
  BY <1>3, BeginType
<1>4. ASSUME NEW s \in Requests, Continue(s) PROVE TypeOK'
  BY <1>4, ContinueRowsType, ContinueSessionType DEF TypeOK
<1>5. ASSUME NEW s \in Requests, Rollback(s) PROVE TypeOK'
  BY <1>5, EndSessionType DEF Rollback, TypeOK, RowsType, rows
<1>6. ASSUME NEW i \in Invoices, CancelInvoice(i) PROVE TypeOK'
  BY <1>6, <1>a, NoLinesType DEF CancelInvoice, TypeOK, RowsType, Status
<1>7. ASSUME NEW i \in Invoices, ComeDue(i) PROVE TypeOK'
  BY <1>7, <1>a DEF ComeDue, TypeOK, RowsType
<1>8. ASSUME NEW w \in Workers, ExpireJob(w) PROVE TypeOK'
  BY <1>8, JobType
<1>9. ASSUME NEW p \in Products, NEW n \in 0..MaxStock, CorrectAlone(p, n) PROVE TypeOK'
  BY <1>9, <1>a DEF CorrectAlone, TypeOK, RowsType
<1> QED BY <1>1, <1>2, <1>3, <1>4, <1>5, <1>6, <1>7, <1>8, <1>9 DEF Next

\* Every row, lock and transaction of the model keeps its type, whatever the
\* number of companies, products, invoices, requests and expiry jobs.
THEOREM TypeCorrect == Spec => []TypeOK
<1> QED BY InitTypeOK, StepTypeOK, PTL DEF Spec

-----------------------------------------------------------------------------
(* Invoices. A transaction that has locked an invoice relies on its status *)
(* until it commits; that nobody else changes it is the exclusion of the   *)
(* row locks. Both are needed to show that reservations, payments and      *)
(* movements follow the invoice's status and lines.                        *)

InvoiceInv ==
  /\ TypeOK
  /\ InvoiceLocksExclusive
  /\ StatusStillHolds
  /\ ReservationsMatchLines
  /\ PaymentCoversLines
  /\ ShippedOnce

invoiceRows == <<status, item, reserved, paidFor, moved>>

\* r is no further than it was: it holds no invoice it did not hold.
NoNewHold(r) ==
  /\ Mutating(r)' => Mutating(r) /\ target'[r] = target[r]
  /\ Shipping(r)' => Shipping(r) /\ target'[r] = target[r]

LEMMA InitInvoiceInv == Init => InvoiceInv
<1> SUFFICES ASSUME Init PROVE InvoiceInv
  OBVIOUS
<1>1. TypeOK
  BY InitTypeOK
<1> QED BY <1>1 DEF Init, InvoiceInv, InvoiceLocksExclusive, StatusStillHolds, Mutating,
        Shipping, HoldsInvoice, ReservationsMatchLines, PaymentCoversLines, ShippedOnce

\* A closed session holds nothing, the other sessions are as they were.
LEMMA EndSessionHolds ==
  ASSUME SessionType, NEW s \in Requests, EndSession(s)
  PROVE  /\ \A r \in Requests : NoNewHold(r)
         /\ ~Mutating(s)' /\ ~Shipping(s)'
BY DEF SessionType, EndSession, NoNewHold, Mutating, Shipping

\* Locks stay exclusive while no session and no job takes one.
LEMMA HoldsShrink ==
  ASSUME InvoiceLocksExclusive, \A r \in Requests : NoNewHold(r),
         \A w \in Workers : batch'[w] \subseteq batch[w]
  PROVE  InvoiceLocksExclusive'
BY DEF InvoiceLocksExclusive, HoldsInvoice, NoNewHold

\* A step that changes neither invoices nor holds keeps the invariant.
LEMMA QuietStep ==
  ASSUME InvoiceInv, TypeOK', UNCHANGED <<invoiceRows, batch>>,
         \A r \in Requests : NoNewHold(r)
  PROVE  InvoiceInv'
<1>1. InvoiceLocksExclusive'
  BY HoldsShrink DEF InvoiceInv
<1>2. StatusStillHolds'
  BY DEF InvoiceInv, StatusStillHolds, NoNewHold, invoiceRows
<1>3. ReservationsMatchLines' /\ PaymentCoversLines' /\ ShippedOnce'
  BY DEF InvoiceInv, ReservationsMatchLines, PaymentCoversLines, ShippedOnce, invoiceRows
<1> QED BY <1>1, <1>2, <1>3 DEF InvoiceInv

LEMMA BeginInvoice ==
  ASSUME InvoiceInv, TypeOK', NEW s \in Requests, Begin(s)
  PROVE  InvoiceInv'
<1>0. UNCHANGED <<rows, invoiceRows, batch>> /\ SessionType
  BY DEF Begin, StartCreate, StartMutate, StartConfirm, StartShip, ReadForCorrection,
     rows, invoiceRows, InvoiceInv, TypeOK
<1>1. CASE \/ \E c \in Companies, k \in AllKeys \union {NoKey} : StartCreate(s, c, k)
           \/ \E i \in Invoices, k \in AllKeys \union {NoKey} : StartConfirm(s, i, k)
           \/ \E p \in Products, n \in 0..MaxStock : ReadForCorrection(s, p, n)
  <2>1. \A r \in Requests : NoNewHold(r)
    BY <1>0, <1>1
    DEF StartCreate, StartConfirm, ReadForCorrection, NoNewHold, Mutating, Shipping, SessionType
  <2> QED BY <1>0, <2>1, QuietStep
<1>2. ASSUME NEW i \in Invoices, InvoiceFree(i), target' = [target EXCEPT ![s] = i],
             \/ \E q \in Lines : StartMutate(s, i, q)
             \/ StartShip(s, i)
      PROVE  InvoiceInv'
  <2>1. \A r \in Requests \ {s} : NoNewHold(r)
    BY <1>0, <1>2 DEF StartMutate, StartShip, NoNewHold, Mutating, Shipping, SessionType
  <2>2. target'[s] = i
    BY <1>0, <1>2 DEF SessionType
  <2>3. InvoiceLocksExclusive'
    BY <1>0, <1>2, <2>1, <2>2
    DEF InvoiceInv, InvoiceLocksExclusive, InvoiceFree, HoldsInvoice, NoNewHold
  <2>4. StatusStillHolds'
    <3>1. /\ Mutating(s)' => status[i] = "awaiting_payment"
          /\ Shipping(s)' => status[i] = "paid"
      BY <1>0, <1>2 DEF StartMutate, StartShip, Mutating, Shipping, SessionType
    <3> QED BY <1>0, <2>1, <2>2, <3>1 DEF InvoiceInv, StatusStillHolds, NoNewHold, invoiceRows
  <2>5. ReservationsMatchLines' /\ PaymentCoversLines' /\ ShippedOnce'
    BY <1>0 DEF InvoiceInv, ReservationsMatchLines, PaymentCoversLines, ShippedOnce, invoiceRows
  <2> QED BY <2>3, <2>4, <2>5 DEF InvoiceInv
<1> QED BY <1>1, <1>2, BeginCases DEF StartMutate, StartShip

LEMMA ContinueInvoice ==
  ASSUME InvoiceInv, TypeOK', NEW s \in Requests, Continue(s)
  PROVE  InvoiceInv'
<1>0. TypeOK /\ SessionType /\ RowsType /\ batch' = batch
  BY ContinueSessionType DEF InvoiceInv, TypeOK
<1>1. CASE LockCart(s) \/ LockStock(s) \/ CheckCreate(s) \/ CheckMutate(s) \/ CheckShip(s)
  <2>1. \A r \in Requests : NoNewHold(r)
    BY <1>0, <1>1, EndSessionHolds
    DEF LockCart, LockStock, CheckCreate, CheckMutate, CheckShip, NoNewHold, Mutating,
        Shipping, SessionType
  <2>2. UNCHANGED invoiceRows
    BY <1>1 DEF LockCart, LockStock, CheckCreate, CheckMutate, CheckShip, rows, invoiceRows
  <2> QED BY <1>0, <2>1, <2>2, QuietStep
<1>2. CASE EndSession(s) /\ UNCHANGED invoiceRows
  BY <1>0, <1>2, EndSessionHolds, QuietStep
<1>3. CASE WriteCorrection(s)
  BY <1>2, <1>3 DEF WriteCorrection, invoiceRows
<1>4. ASSUME EndSession(s)
      PROVE  /\ \A r \in Requests : NoNewHold(r)
             /\ ~Mutating(s)' /\ ~Shipping(s)'
             /\ InvoiceLocksExclusive'
  BY <1>0, <1>4, EndSessionHolds, HoldsShrink DEF InvoiceInv
<1>5. CASE CommitCreate(s)
  <2>1. CASE KeyUsed(key[s])
    BY <1>2, <1>5, <2>1 DEF CommitCreate, rows, invoiceRows
  <2>2. CASE ~KeyUsed(key[s])
    <3>1. PICK i \in Invoices :
            /\ status[i] = "none"
            /\ status' = [status EXCEPT ![i] = "awaiting_payment"]
            /\ item' = [item EXCEPT ![i] = want[s]]
            /\ reserved' = [reserved EXCEPT ![i] = want[s]]
            /\ UNCHANGED <<paidFor, moved>>
            /\ EndSession(s)
      BY <1>5, <2>2 DEF CommitCreate
    <3>2. StatusStillHolds'
      BY <1>0, <1>4, <3>1
      DEF InvoiceInv, StatusStillHolds, NoNewHold, RowsType
    <3>3. ReservationsMatchLines' /\ PaymentCoversLines' /\ ShippedOnce'
      BY <1>0, <3>1
      DEF InvoiceInv, ReservationsMatchLines, PaymentCoversLines, ShippedOnce, RowsType
    <3> QED BY <1>4, <3>1, <3>2, <3>3 DEF InvoiceInv
  <2> QED BY <2>1, <2>2
<1>6. CASE CommitMutate(s)
  <2> DEFINE i == target[s]
  <2>1. i \in Invoices /\ status[i] = "awaiting_payment" /\ want[s] \in Lines
        /\ HoldsInvoice(s, i)
    BY <1>0, <1>6
    DEF CommitMutate, SessionType, OnInvoice, Mutating, Shipping, HoldsInvoice, InvoiceInv, StatusStillHolds
  <2>2. item[i] = reserved[i]
    BY <2>1 DEF InvoiceInv, ReservationsMatchLines
  <2>3. item' = [item EXCEPT ![i] = want[s]] /\ reserved' = [reserved EXCEPT ![i] = want[s]]
    <3>1. want[s] = [p \in Products |-> IF want[s][p] = item[i][p]
                                          THEN reserved[i][p] ELSE want[s][p]]
      BY <2>1, <2>2 DEF Lines
    <3> QED BY <1>6, <3>1 DEF CommitMutate
  <2>4. StatusStillHolds'
    BY <1>0, <1>4, <1>6 DEF CommitMutate, InvoiceInv, StatusStillHolds, NoNewHold
  <2>5. ReservationsMatchLines' /\ PaymentCoversLines' /\ ShippedOnce'
    <3>1. UNCHANGED <<status, paidFor, moved>>
      BY <1>6 DEF CommitMutate
    <3> HIDE DEF i
    <3> QED BY <1>0, <2>1, <2>3, <3>1
            DEF InvoiceInv, ReservationsMatchLines, PaymentCoversLines, ShippedOnce, RowsType
  <2> QED BY <1>4, <1>6, <2>4, <2>5 DEF InvoiceInv, CommitMutate
<1>7. CASE ConfirmPayment(s)
  <2> DEFINE i == target[s]
  <2>1. CASE UNCHANGED invoiceRows
    BY <1>2, <1>7, <2>1 DEF ConfirmPayment
  <2>2. CASE ~UNCHANGED invoiceRows
    <3>1. /\ i \in Invoices /\ InvoiceFree(i)
          /\ status[i] = "awaiting_payment"
          /\ status' = [status EXCEPT ![i] = "paid"]
          /\ paidFor' = [paidFor EXCEPT ![i] = item[i]]
          /\ UNCHANGED <<item, reserved, moved>>
          /\ EndSession(s)
      BY <1>0, <1>7, <2>2
      DEF ConfirmPayment, SessionType, OnInvoice, Mutating, Shipping, rows, invoiceRows
    <3>2. StatusStillHolds'
      <4>1. \A r \in Requests : Mutating(r) \/ Shipping(r) => target[r] # i
        BY <3>1 DEF InvoiceFree, HoldsInvoice
      <4>2. \A w \in Workers : i \notin batch[w]
        BY <3>1 DEF InvoiceFree
      <4>3. \A r \in Requests : Mutating(r) \/ Shipping(r) => target[r] \in Invoices
        BY <1>0 DEF SessionType, OnInvoice
      <4>4. \A j \in Invoices : j # i => status'[j] = status[j]
        BY <1>0, <3>1 DEF RowsType
      <4> HIDE DEF i
      <4>5. ASSUME NEW r \in Requests
            PROVE  /\ Mutating(r)' => status'[target'[r]] = "awaiting_payment"
                   /\ Shipping(r)' => status'[target'[r]] = "paid"
        BY <1>4, <3>1, <4>1, <4>3, <4>4 DEF InvoiceInv, StatusStillHolds, NoNewHold
      <4>6. \A w \in Workers : \A j \in batch'[w] : status'[j] = "awaiting_payment"
        BY <1>0, <4>2, <4>4 DEF InvoiceInv, StatusStillHolds, TypeOK
      <4> QED BY <4>5, <4>6 DEF StatusStillHolds
    <3>3. ReservationsMatchLines' /\ PaymentCoversLines' /\ ShippedOnce'
      BY <1>0, <3>1
      DEF InvoiceInv, ReservationsMatchLines, PaymentCoversLines, ShippedOnce, RowsType
    <3> QED BY <1>4, <3>1, <3>2, <3>3 DEF InvoiceInv
  <2> QED BY <2>1, <2>2
<1>8. CASE CommitShip(s)
  <2> DEFINE i == target[s]
  <2>1. CASE UNCHANGED invoiceRows
    BY <1>2, <1>8, <2>1 DEF CommitShip
  <2>2. CASE ~UNCHANGED invoiceRows
    <3>0. /\ i \in Invoices /\ status[i] = "paid" /\ HoldsInvoice(s, i)
          /\ EndSession(s)
      BY <1>0, <1>8
      DEF CommitShip, SessionType, OnInvoice, Mutating, Shipping, HoldsInvoice, InvoiceInv, StatusStillHolds
    <3>1. /\ status' = [status EXCEPT ![i] = "shipped"]
          /\ reserved' = [reserved EXCEPT ![i] =
                            [p \in Products |-> IF item[i][p] > 0 THEN 0 ELSE @[p]]]
          /\ moved' = [moved EXCEPT ![i] = [p \in Products |-> @[p] + item[i][p]]]
          /\ UNCHANGED <<item, paidFor>>
      BY <1>8, <2>2 DEF CommitShip, rows, invoiceRows
    <3>2. reserved[i] = item[i] /\ moved[i] = NoLines /\ paidFor[i] = item[i]
          /\ item[i] \in [Products -> Nat] /\ item[i] \in Lines
      BY <1>0, <3>0, LinesAreNat
      DEF InvoiceInv, ReservationsMatchLines, ShippedOnce, PaymentCoversLines, RowsType
    <3>3. reserved' = [reserved EXCEPT ![i] = NoLines]
      <4>1. \A p \in Products : (IF item[i][p] > 0 THEN 0 ELSE reserved[i][p]) = 0
        BY <3>2
      <4> QED BY <3>1, <4>1 DEF NoLines
    <3>4. moved' = [moved EXCEPT ![i] = item[i]]
      <4>1. \A p \in Products : moved[i][p] + item[i][p] = item[i][p]
        BY <3>2 DEF NoLines
      <4>2. item[i] = [p \in Products |-> item[i][p]]
        BY <3>2
      <4> QED BY <3>1, <4>1, <4>2
    <3>5. StatusStillHolds'
      <4>1. \A r \in Requests : r # s /\ (Mutating(r) \/ Shipping(r)) => target[r] # i
        BY <3>0 DEF InvoiceInv, InvoiceLocksExclusive, HoldsInvoice
      <4>2. \A w \in Workers : i \notin batch[w]
        BY <3>0 DEF InvoiceInv, InvoiceLocksExclusive
      <4>3. \A r \in Requests : Mutating(r) \/ Shipping(r) => target[r] \in Invoices
        BY <1>0 DEF SessionType, OnInvoice
      <4>4. \A j \in Invoices : j # i => status'[j] = status[j]
        BY <1>0, <3>1 DEF RowsType
      <4> HIDE DEF i
      <4>5. ASSUME NEW r \in Requests
            PROVE  /\ Mutating(r)' => status'[target'[r]] = "awaiting_payment"
                   /\ Shipping(r)' => status'[target'[r]] = "paid"
        BY <1>4, <3>0, <4>1, <4>3, <4>4 DEF InvoiceInv, StatusStillHolds, NoNewHold
      <4>6. \A w \in Workers : \A j \in batch'[w] : status'[j] = "awaiting_payment"
        BY <1>0, <4>2, <4>4 DEF InvoiceInv, StatusStillHolds, TypeOK
      <4> QED BY <4>5, <4>6 DEF StatusStillHolds
    <3>6. ReservationsMatchLines' /\ PaymentCoversLines' /\ ShippedOnce'
      BY <1>0, <3>0, <3>1, <3>2, <3>3, <3>4
      DEF InvoiceInv, ReservationsMatchLines, PaymentCoversLines, ShippedOnce, RowsType
    <3> QED BY <1>4, <3>0, <3>5, <3>6 DEF InvoiceInv
  <2> QED BY <2>1, <2>2
<1> QED BY <1>1, <1>3, <1>5, <1>6, <1>7, <1>8 DEF Continue

LEMMA JobInvoice ==
  ASSUME InvoiceInv, TypeOK', NEW w \in Workers, ExpireJob(w)
  PROVE  InvoiceInv'
<1>0. TypeOK /\ RowsType /\ batch \in [Workers -> SUBSET Invoices] /\ UNCHANGED session
  BY DEF InvoiceInv, TypeOK, ExpireJob, StartExpire, CommitExpire, FailExpire
<1>1. \A r \in Requests : NoNewHold(r)
  BY <1>0 DEF session, NoNewHold, Mutating, Shipping
<1>2. CASE StartExpire(w)
  <2>1. InvoiceLocksExclusive'
    BY <1>0, <1>1, <1>2
    DEF StartExpire, DueUnlocked, InvoiceFree, InvoiceInv, InvoiceLocksExclusive, NoNewHold, HoldsInvoice
  <2>2. StatusStillHolds'
    BY <1>0, <1>1, <1>2 DEF StartExpire, DueUnlocked, InvoiceInv, StatusStillHolds, NoNewHold, rows
  <2>3. ReservationsMatchLines' /\ PaymentCoversLines' /\ ShippedOnce'
    BY <1>2 DEF StartExpire, InvoiceInv, ReservationsMatchLines, PaymentCoversLines, ShippedOnce, rows
  <2> QED BY <2>1, <2>2, <2>3 DEF InvoiceInv
<1>3. CASE CommitExpire(w)
  <2>1. InvoiceLocksExclusive'
    BY <1>0, <1>1, <1>3, HoldsShrink DEF CommitExpire, InvoiceInv
  <2>2. StatusStillHolds'
    <3>1. \A r \in Requests : Mutating(r) \/ Shipping(r) => target[r] \notin batch[w]
      BY DEF InvoiceInv, InvoiceLocksExclusive, HoldsInvoice
    <3>2. \A v \in Workers : v # w => batch[v] \cap batch[w] = {}
      BY DEF InvoiceInv, InvoiceLocksExclusive
    <3>3. \A r \in Requests : Mutating(r) \/ Shipping(r) => target[r] \in Invoices
      BY <1>0 DEF TypeOK, SessionType, OnInvoice
    <3> QED BY <1>0, <1>1, <1>3, <3>1, <3>2, <3>3
            DEF CommitExpire, Expiring, InvoiceInv, StatusStillHolds, NoNewHold
  <2>3. ReservationsMatchLines' /\ PaymentCoversLines' /\ ShippedOnce'
    BY <1>0, <1>3
    DEF CommitExpire, Expiring, InvoiceInv, StatusStillHolds, ReservationsMatchLines,
        PaymentCoversLines, ShippedOnce, RowsType
  <2> QED BY <2>1, <2>2, <2>3 DEF InvoiceInv
<1>4. CASE FailExpire(w)
  <2>1. InvoiceLocksExclusive'
    BY <1>0, <1>1, <1>4, HoldsShrink DEF FailExpire, InvoiceInv
  <2>2. StatusStillHolds'
    BY <1>0, <1>1, <1>4 DEF FailExpire, InvoiceInv, StatusStillHolds, NoNewHold, rows
  <2>3. ReservationsMatchLines' /\ PaymentCoversLines' /\ ShippedOnce'
    BY <1>4 DEF FailExpire, InvoiceInv, ReservationsMatchLines, PaymentCoversLines, ShippedOnce, rows
  <2> QED BY <2>1, <2>2, <2>3 DEF InvoiceInv
<1> QED BY <1>2, <1>3, <1>4 DEF ExpireJob

LEMMA CancelInvoiceInv ==
  ASSUME InvoiceInv, TypeOK', NEW i \in Invoices, CancelInvoice(i)
  PROVE  InvoiceInv'
<1>0. TypeOK /\ RowsType /\ UNCHANGED <<session, batch>>
  BY DEF InvoiceInv, TypeOK, CancelInvoice
<1>1. \A r \in Requests : NoNewHold(r)
  BY <1>0 DEF session, NoNewHold, Mutating, Shipping
<1>2. InvoiceLocksExclusive'
  BY <1>0, <1>1, HoldsShrink DEF InvoiceInv
<1>3. StatusStillHolds'
  <2>1. \A r \in Requests : Mutating(r) \/ Shipping(r) => target[r] # i
    BY DEF CancelInvoice, InvoiceFree, HoldsInvoice
  <2> QED BY <1>0, <1>1, <2>1
          DEF CancelInvoice, InvoiceFree, InvoiceInv, StatusStillHolds, NoNewHold, RowsType
<1>4. ReservationsMatchLines' /\ PaymentCoversLines' /\ ShippedOnce'
  BY <1>0
  DEF CancelInvoice, InvoiceInv, ReservationsMatchLines, PaymentCoversLines, ShippedOnce, RowsType
<1> QED BY <1>2, <1>3, <1>4 DEF InvoiceInv

LEMMA StepInvoiceInv == InvoiceInv /\ [Next]_vars => InvoiceInv'
<1> SUFFICES ASSUME InvoiceInv, [Next]_vars PROVE InvoiceInv'
  OBVIOUS
<1>0. TypeOK' /\ TypeOK /\ SessionType
  BY StepTypeOK DEF InvoiceInv, TypeOK
<1>1. ASSUME UNCHANGED <<invoiceRows, session, batch>> PROVE InvoiceInv'
  <2>1. \A r \in Requests : NoNewHold(r)
    BY <1>1 DEF session, NoNewHold, Mutating, Shipping
  <2> QED BY <1>0, <1>1, <2>1, QuietStep
<1>2. CASE UNCHANGED vars
  BY <1>1, <1>2 DEF vars, rows, invoiceRows
<1>3. CASE Customer
  BY <1>1, <1>3 DEF Customer, PutInCart, RemoveFromCart, invoiceRows
<1>4. ASSUME NEW s \in Requests, Begin(s) PROVE InvoiceInv'
  BY <1>0, <1>4, BeginInvoice
<1>5. ASSUME NEW s \in Requests, Continue(s) PROVE InvoiceInv'
  BY <1>0, <1>5, ContinueInvoice
<1>6. ASSUME NEW s \in Requests, Rollback(s) PROVE InvoiceInv'
  BY <1>0, <1>6, EndSessionHolds, QuietStep DEF Rollback, rows, invoiceRows
<1>7. ASSUME NEW i \in Invoices, CancelInvoice(i) PROVE InvoiceInv'
  BY <1>0, <1>7, CancelInvoiceInv
<1>8. ASSUME NEW i \in Invoices, ComeDue(i) PROVE InvoiceInv'
  BY <1>1, <1>8 DEF ComeDue, invoiceRows
<1>9. ASSUME NEW w \in Workers, ExpireJob(w) PROVE InvoiceInv'
  BY <1>0, <1>9, JobInvoice
<1>10. ASSUME NEW p \in Products, NEW n \in 0..MaxStock, CorrectAlone(p, n) PROVE InvoiceInv'
  BY <1>1, <1>10 DEF CorrectAlone, invoiceRows
<1> QED BY <1>2, <1>3, <1>4, <1>5, <1>6, <1>7, <1>8, <1>9, <1>10 DEF Next

LEMMA InvoiceInvariant == Spec => []InvoiceInv
<1> QED BY InitInvoiceInv, StepInvoiceInv, PTL DEF Spec

\* The invoice and its reservations cannot drift apart, whatever edits, payments,
\* shipments, cancellations and expiry jobs run at the same time.
THEOREM ReservationsFollowInvoices == Spec => []ReservationsMatchLines
<1>1. InvoiceInv => ReservationsMatchLines
  BY DEF InvoiceInv
<1> QED BY <1>1, InvoiceInvariant, PTL

\* What is paid for is what is shipped.
THEOREM PaymentsFollowInvoices == Spec => []PaymentCoversLines
<1>1. InvoiceInv => PaymentCoversLines
  BY DEF InvoiceInv
<1> QED BY <1>1, InvoiceInvariant, PTL

\* No invoice takes its lines out of stock twice or without being shipped.
THEOREM ShipmentsFollowInvoices == Spec => []ShippedOnce
<1>1. InvoiceInv => ShippedOnce
  BY DEF InvoiceInv
<1> QED BY <1>1, InvoiceInvariant, PTL

-----------------------------------------------------------------------------
(* Idempotency keys.                                                       *)

KeyInv == TypeOK /\ OneInvoicePerKey

LEMMA InitKeyInv == Init => KeyInv
BY InitTypeOK DEF Init, KeyInv, OneInvoicePerKey

\* A key that is not stored was used by no invoice, and storing it moves no other.
LEMMA KeyStep ==
  ASSUME TypeOK, OneInvoicePerKey, NEW k \in AllKeys \union {NoKey}, ~KeyStored(k),
         NEW i \in Invoices, StoreKey(k, i)
  PROVE  \A j \in Invoices : createKey[j] # NoKey =>
           createKey[j] # k /\ keyEntity'[createKey[j]] = j
<1> SUFFICES ASSUME NEW j \in Invoices, createKey[j] # NoKey
             PROVE  createKey[j] # k /\ keyEntity'[createKey[j]] = j
  OBVIOUS
<1>1. /\ createKey[j] \in AllKeys /\ keyEntity[createKey[j]] = j
      /\ keyEntity \in [AllKeys -> Invoices \union {NoInvoice}]
  BY DEF TypeOK, RowsType, OneInvoicePerKey
<1>2. createKey[j] # k
  BY <1>1, NullsAssumption DEF KeyStored
<1> QED BY <1>1, <1>2 DEF StoreKey

LEMMA StepKeyInv == KeyInv /\ [Next]_vars => KeyInv'
<1> SUFFICES ASSUME KeyInv, [Next]_vars PROVE OneInvoicePerKey'
  BY StepTypeOK DEF KeyInv
<1>0. /\ TypeOK /\ OneInvoicePerKey /\ SessionType
      /\ createKey \in [Invoices -> AllKeys \union {NoKey}]
      /\ keyEntity \in [AllKeys -> Invoices \union {NoInvoice}]
  BY DEF KeyInv, TypeOK, RowsType
<1>1. CASE UNCHANGED <<createKey, keyEntity>>
  BY <1>0, <1>1 DEF OneInvoicePerKey
<1>2. CASE UNCHANGED vars \/ Customer
  BY <1>1, <1>2 DEF vars, rows, Customer, PutInCart, RemoveFromCart
<1>3. ASSUME NEW s \in Requests, Begin(s) \/ Rollback(s) PROVE UNCHANGED <<createKey, keyEntity>>
  BY <1>3 DEF Begin, StartCreate, StartMutate, StartConfirm, StartShip, ReadForCorrection,
     Rollback, rows
<1>4. ASSUME NEW s \in Requests, Continue(s) PROVE OneInvoicePerKey'
  <2>0. key[s] \in AllKeys \union {NoKey}
    BY <1>0 DEF SessionType
  <2>1. CASE CommitCreate(s) /\ ~KeyUsed(key[s])
    <3>1. PICK i \in Invoices :
            createKey' = [createKey EXCEPT ![i] = key[s]] /\ StoreKey(key[s], i)
      BY <2>1 DEF CommitCreate
    <3>2. /\ ~KeyStored(key[s])
          /\ key[s] # NoKey => \A j \in Invoices : createKey[j] # key[s]
      BY <2>1 DEF KeyUsed
    <3>3. \A j \in Invoices : createKey[j] # NoKey =>
            createKey[j] # key[s] /\ keyEntity'[createKey[j]] = j
      BY <1>0, <2>0, <3>1, <3>2, KeyStep
    <3>4. key[s] # NoKey => keyEntity'[key[s]] = i
      BY <1>0, <2>0, <3>1 DEF StoreKey
    <3>5. createKey'[i] = key[s] /\ \A j \in Invoices \ {i} : createKey'[j] = createKey[j]
      BY <1>0, <3>1
    <3> QED BY <1>0, <3>3, <3>4, <3>5 DEF OneInvoicePerKey
  <2>2. CASE ConfirmPayment(s) /\ ~UNCHANGED rows
    <3>1. /\ target[s] \in Invoices /\ ~KeyStored(key[s]) /\ StoreKey(key[s], target[s])
          /\ UNCHANGED createKey
      BY <1>0, <2>2 DEF ConfirmPayment, SessionType, OnInvoice
    <3>2. \A j \in Invoices : createKey[j] # NoKey => keyEntity'[createKey[j]] = j
      BY <1>0, <2>0, <3>1, KeyStep
    <3> QED BY <1>0, <3>1, <3>2 DEF OneInvoicePerKey
  <2>3. CASE UNCHANGED rows
    BY <1>1, <2>3 DEF rows
  <2>4. CASE LockCart(s) \/ LockStock(s) \/ CheckCreate(s) \/ CheckMutate(s) \/ CheckShip(s)
    BY <2>3, <2>4 DEF LockCart, LockStock, CheckCreate, CheckMutate, CheckShip
  <2>5. CASE CommitMutate(s) \/ WriteCorrection(s) \/ CommitShip(s)
    BY <1>1, <2>3, <2>5 DEF CommitMutate, WriteCorrection, CommitShip
  <2>6. CASE CommitCreate(s) /\ KeyUsed(key[s])
    BY <2>3, <2>6 DEF CommitCreate
  <2> QED BY <1>4, <2>1, <2>2, <2>3, <2>4, <2>5, <2>6 DEF Continue
<1>5. ASSUME NEW i \in Invoices, CancelInvoice(i) \/ ComeDue(i) PROVE UNCHANGED <<createKey, keyEntity>>
  BY <1>5 DEF CancelInvoice, ComeDue
<1>6. ASSUME NEW w \in Workers, ExpireJob(w) PROVE OneInvoicePerKey'
  <2>1. CASE StartExpire(w) \/ FailExpire(w)
    BY <1>1, <2>1 DEF StartExpire, FailExpire, rows
  <2>2. CASE CommitExpire(w)
    <3>1. UNCHANGED createKey /\ \A k \in AllKeys : KeyStored(k) => keyEntity'[k] = keyEntity[k]
      BY <1>0, <2>2, ExpireKeysStored DEF CommitExpire
    <3>2. \A j \in Invoices : createKey[j] # NoKey => KeyStored(createKey[j])
      BY <1>0, NullsAssumption DEF OneInvoicePerKey, KeyStored
    <3> QED BY <1>0, <3>1, <3>2 DEF OneInvoicePerKey
  <2> QED BY <1>6, <2>1, <2>2 DEF ExpireJob
<1>7. ASSUME NEW p \in Products, NEW n \in 0..MaxStock, CorrectAlone(p, n)
      PROVE  UNCHANGED <<createKey, keyEntity>>
  BY <1>7 DEF CorrectAlone
<1> QED BY <1>1, <1>2, <1>3, <1>4, <1>5, <1>6, <1>7 DEF Next

\* However many requests carry the same key and however they interleave, with each
\* other and with payments that store keys too, at most one invoice is created.
THEOREM KeyCreatesOneInvoice == Spec => []OneInvoicePerKey
<1>1. KeyInv => OneInvoicePerKey
  BY DEF KeyInv
<1> QED BY <1>1, InitKeyInv, StepKeyInv, PTL DEF Spec

-----------------------------------------------------------------------------
(* Checkout. The lines a checkout read are still those of the cart when it *)
(* commits, because nobody else has that cart's lock.                      *)

CartInv ==
  /\ TypeOK
  /\ CartLocksExclusive
  /\ \A s \in Requests : pc[s] \in {"create", "created"} => want[s] = cart[who[s]]

\* r has the cart no longer, or has it as before.
CartKept(r) ==
  pc'[r] \in {"create", "created"} =>
    /\ pc[r] \in {"create", "created"} /\ who'[r] = who[r] /\ want'[r] = want[r]
    /\ cart'[who[r]] = cart[who[r]]

LEMMA InitCartInv == Init => CartInv
BY InitTypeOK DEF Init, CartInv, CartLocksExclusive, HoldsCart

LEMMA CartsKept ==
  ASSUME CartInv, TypeOK', \A r \in Requests : CartKept(r)
  PROVE  CartInv'
<1>1. CartLocksExclusive'
  BY DEF CartInv, CartLocksExclusive, HoldsCart, CartKept
<1> QED BY <1>1 DEF CartInv, CartKept

\* The other requests of a step of s that leaves the carts alone.
LEMMA CartOfOthers ==
  ASSUME CartInv, NEW s \in Requests, UNCHANGED cart,
         \A r \in Requests \ {s} : pc'[r] = pc[r] /\ who'[r] = who[r] /\ want'[r] = want[r],
         CartKept(s)
  PROVE  \A r \in Requests : CartKept(r)
BY DEF CartKept

LEMMA CartAfterEnd ==
  ASSUME SessionType, NEW s \in Requests, EndSession(s)
  PROVE  /\ CartKept(s) /\ pc'[s] = "idle"
         /\ \A r \in Requests \ {s} : pc'[r] = pc[r] /\ who'[r] = who[r] /\ want'[r] = want[r]
BY DEF SessionType, EndSession, CartKept

LEMMA CustomerCart ==
  ASSUME ~CartEditsOverlap, CartInv, TypeOK', Customer
  PROVE  CartInv'
<1>1. PICK c \in Companies : CartFree(c) /\ \A d \in Companies \ {c} : cart'[d] = cart[d]
  BY FlagsAssumption DEF Customer, PutInCart, RemoveFromCart, CartInv, TypeOK, RowsType
<1>2. UNCHANGED session
  BY DEF Customer, PutInCart, RemoveFromCart
<1>3. ASSUME NEW r \in Requests, pc[r] \in {"create", "created"}
      PROVE  cart'[who[r]] = cart[who[r]]
  <2>1. who[r] \in Companies /\ who[r] # c
    BY <1>1, <1>3 DEF CartInv, TypeOK, SessionType, Creating, CartFree, HoldsCart
  <2> QED BY <1>1, <2>1
<1>4. \A r \in Requests : CartKept(r)
  BY <1>2, <1>3 DEF CartKept, session
<1> QED BY <1>4, CartsKept

LEMMA BeginCart ==
  ASSUME CartInv, TypeOK', NEW s \in Requests, Begin(s)
  PROVE  CartInv'
<1>1. SessionType
  BY DEF CartInv, TypeOK
<1>2. /\ UNCHANGED cart /\ pc'[s] \notin {"create", "created"}
      /\ \A r \in Requests \ {s} : pc'[r] = pc[r] /\ who'[r] = who[r] /\ want'[r] = want[r]
  BY <1>1 DEF Begin, StartCreate, StartMutate, StartConfirm, StartShip, ReadForCorrection,
     rows, SessionType
<1>3. CartKept(s)
  BY <1>2 DEF CartKept
<1> QED BY <1>2, <1>3, CartOfOthers, CartsKept

LEMMA ContinueCart ==
  ASSUME CartInv, TypeOK', NEW s \in Requests, Continue(s)
  PROVE  CartInv'
<1>0. SessionType /\ RowsType
  BY DEF CartInv, TypeOK
<1>1. CASE EndSession(s) /\ UNCHANGED cart
  BY <1>0, <1>1, CartAfterEnd, CartOfOthers, CartsKept
<1>2. CASE LockCart(s) /\ ~EndSession(s)
  <2> DEFINE c == who[s]
  <2>1. /\ pc[s] = "checkout" /\ CartFree(c) /\ UNCHANGED <<cart, who>>
        /\ pc' = [pc EXCEPT ![s] = "create"] /\ want' = [want EXCEPT ![s] = cart[c]]
    BY <1>2 DEF LockCart, rows
  <2>2. pc'[s] = "create" /\ want'[s] = cart'[c] /\ who'[s] = c
        /\ \A r \in Requests \ {s} : pc'[r] = pc[r] /\ who'[r] = who[r] /\ want'[r] = want[r]
    BY <1>0, <2>1 DEF SessionType
  <2>3. CartLocksExclusive'
    BY <2>1, <2>2 DEF CartInv, CartLocksExclusive, CartFree, HoldsCart
  <2> QED BY <2>1, <2>2, <2>3 DEF CartInv
<1>3. CASE LockStock(s) \/ ((CheckCreate(s) \/ CheckMutate(s) \/ CheckShip(s)) /\ ~EndSession(s))
  <2>1. /\ UNCHANGED <<cart, who, want>>
        /\ pc'[s] \in {"create", "created"} => pc[s] \in {"create", "created"}
        /\ \A r \in Requests \ {s} : pc'[r] = pc[r]
    BY <1>0, <1>3 DEF LockStock, CheckCreate, CheckMutate, CheckShip, rows, SessionType
  <2>2. CartKept(s)
    BY <2>1 DEF CartKept
  <2> QED BY <2>1, <2>2, CartOfOthers, CartsKept
<1>4. CASE CommitCreate(s)
  <2>1. CASE UNCHANGED cart
    BY <1>1, <1>4, <2>1 DEF CommitCreate
  <2>2. CASE ~UNCHANGED cart
    <3>1. /\ cart' = [cart EXCEPT ![who[s]] = NoLines] /\ EndSession(s) /\ pc[s] = "created"
      BY <1>4, <2>2 DEF CommitCreate, rows
    <3>2. /\ pc'[s] = "idle" /\ CartKept(s)
          /\ \A r \in Requests \ {s} : pc'[r] = pc[r] /\ who'[r] = who[r] /\ want'[r] = want[r]
      BY <1>0, <3>1, CartAfterEnd
    <3>3. ASSUME NEW r \in Requests \ {s}, pc[r] \in {"create", "created"}
          PROVE  cart'[who[r]] = cart[who[r]]
      <4>1. who[s] \in Companies /\ who[r] \in Companies
        BY <1>0, <3>1, <3>3 DEF SessionType, Creating
      <4>2. who[r] # who[s]
        BY <3>1, <3>3, <4>1 DEF CartInv, CartLocksExclusive, HoldsCart
      <4> QED BY <1>0, <3>1, <4>1, <4>2 DEF RowsType
    <3>4. \A r \in Requests : CartKept(r)
      BY <3>2, <3>3 DEF CartKept
    <3> QED BY <3>4, CartsKept
  <2> QED BY <2>1, <2>2
<1>5. CASE CommitMutate(s) \/ ConfirmPayment(s) \/ CommitShip(s) \/ WriteCorrection(s)
  BY <1>1, <1>5 DEF CommitMutate, ConfirmPayment, CommitShip, WriteCorrection, rows
<1>6. CASE EndSession(s) /\ (LockCart(s) \/ CheckCreate(s) \/ CheckMutate(s) \/ CheckShip(s))
  BY <1>1, <1>6 DEF LockCart, CheckCreate, CheckMutate, CheckShip, rows
<1> QED BY <1>2, <1>3, <1>4, <1>5, <1>6 DEF Continue

LEMMA StepCartInv ==
  ASSUME ~CartEditsOverlap
  PROVE  CartInv /\ [Next]_vars => CartInv'
<1> SUFFICES ASSUME CartInv, [Next]_vars PROVE CartInv'
  OBVIOUS
<1>0. TypeOK' /\ SessionType
  BY StepTypeOK DEF CartInv, TypeOK
<1>1. CASE UNCHANGED <<cart, session>>
  <2>1. \A r \in Requests : CartKept(r)
    BY <1>1 DEF CartKept, session
  <2> QED BY <1>0, <2>1, CartsKept
<1>2. CASE UNCHANGED vars
  BY <1>1, <1>2 DEF vars, rows
<1>3. CASE Customer
  BY <1>0, <1>3, CustomerCart
<1>4. ASSUME NEW s \in Requests, Begin(s) PROVE CartInv'
  BY <1>0, <1>4, BeginCart
<1>5. ASSUME NEW s \in Requests, Continue(s) PROVE CartInv'
  BY <1>0, <1>5, ContinueCart
<1>6. ASSUME NEW s \in Requests, Rollback(s) PROVE CartInv'
  <2>1. EndSession(s) /\ UNCHANGED cart
    BY <1>6 DEF Rollback, rows
  <2> QED BY <1>0, <2>1, CartAfterEnd, CartOfOthers, CartsKept
<1>7. ASSUME NEW i \in Invoices, CancelInvoice(i) \/ ComeDue(i) PROVE CartInv'
  BY <1>1, <1>7 DEF CancelInvoice, ComeDue
<1>8. ASSUME NEW w \in Workers, ExpireJob(w) PROVE CartInv'
  BY <1>1, <1>8 DEF ExpireJob, StartExpire, CommitExpire, FailExpire, rows
<1>9. ASSUME NEW p \in Products, NEW n \in 0..MaxStock, CorrectAlone(p, n) PROVE CartInv'
  BY <1>1, <1>9 DEF CorrectAlone
<1> QED BY <1>2, <1>3, <1>4, <1>5, <1>6, <1>7, <1>8, <1>9 DEF Next

\* Only CommitCreate gives an unused invoice a status: whoever has locked an
\* invoice to change its status has found it in another.
LEMMA StepCheckout == InvoiceInv /\ CartInv /\ [Next]_vars => [CheckoutStep]_vars
<1> SUFFICES ASSUME InvoiceInv, CartInv, Next PROVE CheckoutStep
  BY DEF CheckoutStep, vars, rows
<1>0. RowsType /\ SessionType
  BY DEF CartInv, TypeOK
<1>1. ASSUME \A i \in Invoices : status[i] = "none" => status'[i] = "none" PROVE CheckoutStep
  BY <1>1 DEF CheckoutStep
<1>2. ASSUME UNCHANGED status PROVE CheckoutStep
  BY <1>1, <1>2
<1>3. ASSUME NEW i, status[i] # "none", NEW st, status' = [status EXCEPT ![i] = st]
      PROVE  CheckoutStep
  BY <1>0, <1>1, <1>3 DEF RowsType
<1>4. CASE Customer
  BY <1>2, <1>4 DEF Customer, PutInCart, RemoveFromCart
<1>5. ASSUME NEW s \in Requests, Begin(s) \/ Rollback(s) PROVE CheckoutStep
  BY <1>2, <1>5
  DEF Begin, StartCreate, StartMutate, StartConfirm, StartShip, ReadForCorrection, Rollback, rows
<1>6. ASSUME NEW s \in Requests, Continue(s) PROVE CheckoutStep
  <2>1. CASE CommitCreate(s) /\ ~KeyUsed(key[s])
    <3>1. PICK i \in Invoices :
            /\ status' = [status EXCEPT ![i] = "awaiting_payment"]
            /\ owner' = [owner EXCEPT ![i] = who[s]]
            /\ item' = [item EXCEPT ![i] = want[s]]
      BY <2>1 DEF CommitCreate
    <3>2. /\ cart' = [cart EXCEPT ![who[s]] = NoLines] /\ want[s] = cart[who[s]]
          /\ who[s] \in Companies
      BY <1>0, <2>1 DEF CommitCreate, CartInv, SessionType, Creating
    <3>3. /\ owner'[i] = who[s] /\ item'[i] = want[s] /\ cart'[who[s]] = NoLines
          /\ \A j \in Invoices \ {i} : status'[j] = status[j]
      BY <1>0, <3>1, <3>2 DEF RowsType
    <3> QED BY <3>2, <3>3 DEF CheckoutStep
  <2>2. CASE UNCHANGED rows
    BY <1>2, <2>2 DEF rows
  <2>3. CASE ConfirmPayment(s)
    BY <1>3, <2>2, <2>3 DEF ConfirmPayment
  <2>4. CASE CommitShip(s)
    <3>1. status[target[s]] = "paid"
      BY <2>4 DEF CommitShip, InvoiceInv, StatusStillHolds, Shipping
    <3> QED BY <1>3, <2>2, <2>4, <3>1 DEF CommitShip
  <2>5. CASE LockCart(s) \/ LockStock(s) \/ CheckCreate(s) \/ CheckMutate(s) \/ CheckShip(s)
             \/ CommitMutate(s) \/ WriteCorrection(s) \/ (CommitCreate(s) /\ KeyUsed(key[s]))
    BY <1>2, <2>5 DEF LockCart, LockStock, CheckCreate, CheckMutate, CheckShip, CommitMutate,
       WriteCorrection, CommitCreate, rows
  <2> QED BY <1>6, <2>1, <2>3, <2>4, <2>5 DEF Continue
<1>7. ASSUME NEW i \in Invoices, CancelInvoice(i) \/ ComeDue(i) PROVE CheckoutStep
  BY <1>2, <1>3, <1>7 DEF CancelInvoice, ComeDue
<1>8. ASSUME NEW w \in Workers, ExpireJob(w) PROVE CheckoutStep
  <2>1. \A i \in Expiring(w) : status[i] # "none"
    BY DEF Expiring, InvoiceInv, StatusStillHolds
  <2> QED BY <1>1, <1>2, <1>8, <2>1 DEF ExpireJob, StartExpire, CommitExpire, FailExpire, rows
<1>9. ASSUME NEW p \in Products, NEW n \in 0..MaxStock, CorrectAlone(p, n) PROVE CheckoutStep
  BY <1>2, <1>9 DEF CorrectAlone
<1> QED BY <1>4, <1>5, <1>6, <1>7, <1>8, <1>9 DEF Next

\* Two checkouts of a cart, and edits of it before and after them, neither invoice a
\* line twice nor drop one, as long as nobody edits a cart while it is checked out.
THEOREM CheckoutTakesWholeCart ==
  ASSUME ~CartEditsOverlap
  PROVE  Spec => CheckoutTakesCart
<1>1. CartInv /\ [Next]_vars => CartInv'
  BY StepCartInv
<1> QED BY <1>1, InitCartInv, InvoiceInvariant, StepCheckout, PTL DEF Spec, CheckoutTakesCart

-----------------------------------------------------------------------------
(* Deadlock. A request waits for a stock row above every row it has locked *)
(* already, so along a chain of waiting requests the rows go up. Those that*)
(* wait for anything else hold nothing anyone waits for.                   *)

LockOrder ==
  /\ TypeOK
  /\ \A s \in Requests :
       /\ held[s] # {} => Mutating(s) \/ Shipping(s) \/ pc[s] \in {"create", "created"}
       /\ pc[s] \in {"create", "mutate", "ship"} =>
            \A p \in held[s] : \A q \in need[s] : p < q

\* r has locked no more than before, or nothing.
NoNewLock(r) ==
  \/ held'[r] = {}
  \/ /\ held'[r] = held[r] /\ need'[r] = need[r]
     /\ <<pc[r], pc'[r]>> \in {<<"create", "created">>, <<"mutate", "mutated">>,
                              <<"ship", "shipping">>}
        \/ pc'[r] = pc[r]

LEMMA InitLockOrder == Init => LockOrder
BY InitTypeOK DEF Init, LockOrder

LEMMA LocksKept ==
  ASSUME LockOrder, TypeOK', \A r \in Requests : NoNewLock(r)
  PROVE  LockOrder'
BY DEF LockOrder, NoNewLock, Mutating, Shipping

LEMMA LocksAfterEnd ==
  ASSUME SessionType, NEW s \in Requests, EndSession(s)
  PROVE  \A r \in Requests : NoNewLock(r)
BY DEF SessionType, EndSession, NoNewLock

LEMMA StepLockOrder == LockOrder /\ [Next]_vars => LockOrder'
<1> SUFFICES ASSUME LockOrder, [Next]_vars PROVE LockOrder'
  OBVIOUS
<1>0. TypeOK' /\ TypeOK /\ SessionType
  BY StepTypeOK DEF LockOrder, TypeOK
<1>1. CASE UNCHANGED session
  <2>1. \A r \in Requests : NoNewLock(r)
    BY <1>1 DEF NoNewLock, session
  <2> QED BY <1>0, <2>1, LocksKept
<1>2. CASE UNCHANGED vars \/ Customer
  BY <1>1, <1>2 DEF vars, Customer, PutInCart, RemoveFromCart
<1>3. ASSUME NEW s \in Requests, EndSession(s) PROVE LockOrder'
  BY <1>0, <1>3, LocksAfterEnd, LocksKept
<1>4. ASSUME NEW s \in Requests, Begin(s) PROVE LockOrder'
  <2>1. /\ pc[s] = "idle" /\ held' = held
        /\ \A r \in Requests \ {s} : pc'[r] = pc[r] /\ need'[r] = need[r]
    BY <1>0, <1>4 DEF Begin, StartCreate, StartMutate, StartConfirm, StartShip,
       ReadForCorrection, SessionType
  <2>2. held[s] = {}
    BY <2>1 DEF LockOrder, Mutating, Shipping
  <2>3. \A r \in Requests : NoNewLock(r)
    BY <2>1, <2>2 DEF NoNewLock
  <2> QED BY <1>0, <2>3, LocksKept
<1>5. ASSUME NEW s \in Requests, Continue(s) PROVE LockOrder'
  <2>1. CASE LockCart(s) /\ ~EndSession(s)
    <3>1. /\ pc[s] = "checkout" /\ held' = held
          /\ \A r \in Requests \ {s} : pc'[r] = pc[r] /\ need'[r] = need[r]
      BY <1>0, <2>1 DEF LockCart, SessionType
    <3>2. held[s] = {}
      BY <3>1 DEF LockOrder, Mutating, Shipping
    <3>3. \A r \in Requests : NoNewLock(r)
      BY <3>1, <3>2 DEF NoNewLock
    <3> QED BY <1>0, <3>3, LocksKept
  <2>2. CASE LockStock(s)
    <3>1. PICK p \in NextRow(s) :
            /\ held' = [held EXCEPT ![s] = held[s] \union {p}]
            /\ need' = [need EXCEPT ![s] = need[s] \ {p}]
      BY <2>2 DEF LockStock
    <3>2. pc' = pc /\ pc[s] \in {"create", "mutate", "ship"}
      BY <2>2 DEF LockStock
    <3>3. /\ held'[s] = held[s] \union {p} /\ need'[s] = need[s] \ {p}
          /\ \A r \in Requests \ {s} : held'[r] = held[r] /\ need'[r] = need[r]
      BY <1>0, <3>1 DEF SessionType
    <3>4. need[s] \subseteq Nat /\ p \in need[s] /\ \A q \in need[s] : p <= q
      BY <1>0, ProductsAssumption DEF SessionType, NextRow
    <3>5. \A q \in need[s] \ {p} : p < q
      BY <3>4
    <3>6. \A a \in held'[s] : \A q \in need'[s] : a < q
      BY <3>2, <3>3, <3>5 DEF LockOrder
    <3> QED BY <1>0, <3>2, <3>3, <3>6 DEF LockOrder, Mutating, Shipping
  <2>3. CASE (CheckCreate(s) \/ CheckMutate(s) \/ CheckShip(s)) /\ ~EndSession(s)
    <3>1. \A r \in Requests : NoNewLock(r)
      BY <1>0, <2>3 DEF CheckCreate, CheckMutate, CheckShip, SessionType, NoNewLock
    <3> QED BY <1>0, <3>1, LocksKept
  <2>4. CASE CommitCreate(s) \/ CommitMutate(s) \/ ConfirmPayment(s) \/ CommitShip(s)
             \/ WriteCorrection(s)
    BY <1>3, <2>4 DEF CommitCreate, CommitMutate, ConfirmPayment, CommitShip, WriteCorrection
  <2> QED BY <1>3, <1>5, <2>1, <2>2, <2>3, <2>4 DEF Continue
<1>6. ASSUME NEW s \in Requests, Rollback(s) PROVE LockOrder'
  BY <1>3, <1>6 DEF Rollback
<1>7. ASSUME NEW i \in Invoices, CancelInvoice(i) \/ ComeDue(i) PROVE UNCHANGED session
  BY <1>7 DEF CancelInvoice, ComeDue
<1>8. ASSUME NEW w \in Workers, ExpireJob(w) PROVE UNCHANGED session
  BY <1>8 DEF ExpireJob, StartExpire, CommitExpire, FailExpire
<1>9. ASSUME NEW p \in Products, NEW n \in 0..MaxStock, CorrectAlone(p, n) PROVE UNCHANGED session
  BY <1>9 DEF CorrectAlone
<1> QED BY <1>1, <1>2, <1>4, <1>5, <1>6, <1>7, <1>8, <1>9 DEF Next

\* The requests of S that wait for a row above the one s waits for.
Above(S, s) == {x \in S : \E p \in NextRow(s) : \E q \in NextRow(x) : p < q}

LEMMA NextRowUnique ==
  ASSUME SessionType, NEW s \in Requests
  PROVE  NextRow(s) \subseteq Nat /\ \A p \in NextRow(s) : \A q \in NextRow(s) : p = q
<1>1. need[s] \subseteq Nat
  BY ProductsAssumption DEF SessionType
<1> QED BY <1>1 DEF NextRow

\* Whoever waits for a request that waits itself has fewer waiting above than it.
LEMMA WaitsGoUp ==
  ASSUME LockOrder, NEW S \in SUBSET Requests, NEW s \in S, NEW r \in S,
         WaitsFor(s, r), pc[s] \in {"create", "mutate", "ship"},
         pc[r] \in {"create", "mutate", "ship"}, NextRow(r) # {}
  PROVE  Above(S, r) \subseteq Above(S, s) /\ Above(S, r) # Above(S, s)
<1>0. SessionType /\ s \in Requests /\ r \in Requests
  BY DEF LockOrder, TypeOK
<1>1. PICK p \in NextRow(s) : p \in held[r]
  BY DEF WaitsFor
<1>2. PICK q \in NextRow(r) : TRUE
  OBVIOUS
<1>3. p < q
  BY <1>0, <1>1 DEF LockOrder, NextRow
<1>4. /\ p \in Nat /\ q \in Nat /\ \A a \in NextRow(r) : a = q
      /\ \A x \in S : NextRow(x) \subseteq Nat
  BY <1>0, <1>1, NextRowUnique
<1>5. r \in Above(S, s)
  BY <1>1, <1>2, <1>3 DEF Above
<1>6. r \notin Above(S, r)
  BY <1>4 DEF Above
<1>7. ASSUME NEW x \in Above(S, r) PROVE x \in Above(S, s)
  <2>1. PICK b \in NextRow(x) : x \in S /\ q < b
    BY <1>4 DEF Above
  <2>2. p < b
    BY <1>3, <1>4, <2>1
  <2> QED BY <1>1, <2>1, <2>2 DEF Above
<1> QED BY <1>5, <1>6, <1>7

LEMMA OrderExcludesDeadlock == LockOrder => NoDeadlock
<1> SUFFICES ASSUME LockOrder, NEW S \in (SUBSET Requests) \ {{}},
                    \A s \in S : \E r \in S : WaitsFor(s, r)
             PROVE  FALSE
  BY DEF NoDeadlock
<1> DEFINE T == {s \in S : pc[s] \in {"create", "mutate", "ship"} /\ NextRow(s) # {}}
           U == {Above(T, s) : s \in T}
           R == StrictSubsetOrdering(Requests)
<1>1. ASSUME NEW s \in S, NEW r \in S, WaitsFor(s, r) PROVE r \in T
  <2>1. pc[r] \in {"create", "created", "mutate", "mutated", "ship", "shipping"}
    BY <1>1 DEF WaitsFor, HoldsCart, HoldsInvoice, LockOrder, Mutating, Shipping
  <2>2. pc[r] \in {"checkout", "pay", "correct"}
        \/ (pc[r] \in {"create", "mutate", "ship"} /\ NextRow(r) # {})
    BY DEF WaitsFor
  <2> QED BY <2>1, <2>2
<1>2. T # {} /\ T \in SUBSET Requests
  BY <1>1
<1>3. \A s \in T : \E r \in T : WaitsFor(s, r)
  BY <1>1
<1>4. IsWellFoundedOn(R, SUBSET Requests)
  BY RequestsAssumption, FS_FiniteSubsetsOfFinite, FS_StrictSubsetOrderingWellFounded
<1>5. U \subseteq SUBSET Requests /\ U # {}
  <2>1. \A s \in T : Above(T, s) \in SUBSET Requests
    BY <1>2 DEF Above
  <2> QED BY <1>2, <2>1
<1>6. \A s \in T : pc[s] \in {"create", "mutate", "ship"} /\ NextRow(s) # {}
  OBVIOUS
<1> HIDE DEF T, R
<1>7. PICK u \in U : \A v \in U : <<v, u>> \notin R
  <2> HIDE DEF U
  <2> QED BY <1>4, <1>5, WFMin
<1>8. PICK s \in T : u = Above(T, s)
  OBVIOUS
<1>9. PICK r \in T : WaitsFor(s, r)
  BY <1>3
<1>10. Above(T, r) \subseteq Above(T, s) /\ Above(T, r) # Above(T, s)
  BY <1>2, <1>6, <1>9, WaitsGoUp
<1>11. <<Above(T, r), u>> \in R
  BY <1>5, <1>8, <1>10 DEF R, StrictSubsetOrdering
<1> QED BY <1>7, <1>11

\* Whatever set of requests one looks at, one of them waits for none of the others:
\* stock rows are locked upwards, carts and invoices before any stock row.
THEOREM RequestsNeverDeadlock == Spec => []NoDeadlock
<1> QED BY InitLockOrder, StepLockOrder, OrderExcludesDeadlock, PTL DEF Spec

-----------------------------------------------------------------------------
(* Counting reserved units. ReservedQuantity counts the units of a set of  *)
(* pairs <<invoice, n>>; what one invoice adds to it is what it reserves.  *)

UnitsOf(f, p) == {u \in Invoices \X (1..MaxQty) : u[2] <= f[u[1]][p]}
UnitsOfOthers(f, i, p) == {u \in UnitsOf(f, p) : u[1] # i}

LEMMA UnitsFinite ==
  ASSUME NEW f, NEW p
  PROVE  IsFiniteSet(UnitsOf(f, p)) /\ Cardinality(UnitsOf(f, p)) \in Nat
<1>1. IsFiniteSet(1..MaxQty)
  BY FS_Interval, BoundsAssumption
<1>2. IsFiniteSet(Invoices \X (1..MaxQty))
  BY <1>1, FS_Product, InvoicesAssumption
<1>3. UnitsOf(f, p) \in SUBSET (Invoices \X (1..MaxQty))
  BY DEF UnitsOf
<1>4. IsFiniteSet(UnitsOf(f, p))
  BY <1>2, <1>3, FS_Subset
<1> QED BY <1>4, FS_CardinalityType

\* Fewer units of every invoice are fewer units.
LEMMA UnitsMonotone ==
  ASSUME NEW f \in [Invoices -> Lines], NEW g \in [Invoices -> Lines], NEW p \in Products,
         \A i \in Invoices : g[i][p] <= f[i][p]
  PROVE  Cardinality(UnitsOf(g, p)) <= Cardinality(UnitsOf(f, p))
<1>1. ASSUME NEW i \in Invoices, NEW n \in 1..MaxQty, n <= g[i][p] PROVE n <= f[i][p]
  <2>1. g[i][p] \in Int /\ f[i][p] \in Int /\ n \in Int
    BY BoundsAssumption DEF Lines
  <2> QED BY <1>1, <2>1
<1>2. UnitsOf(g, p) \in SUBSET UnitsOf(f, p)
  BY <1>1 DEF UnitsOf
<1> QED BY <1>2, UnitsFinite, FS_Subset

LEMMA UnitsSplit ==
  ASSUME NEW f \in [Invoices -> Lines], NEW i \in Invoices, NEW p \in Products
  PROVE  /\ Cardinality(UnitsOf(f, p)) = Cardinality(UnitsOfOthers(f, i, p)) + f[i][p]
         /\ Cardinality(UnitsOfOthers(f, i, p)) \in Nat
<1> DEFINE R == UnitsOfOthers(f, i, p)
           Q == {i} \X (1..f[i][p])
<1>0. f[i][p] \in 0..MaxQty /\ MaxQty \in Nat
  BY BoundsAssumption DEF Lines
<1>1. IsFiniteSet(R) /\ Cardinality(R) \in Nat
  <2>1. R \in SUBSET UnitsOf(f, p)
    BY DEF UnitsOfOthers
  <2>2. IsFiniteSet(UnitsOf(f, p))
    BY UnitsFinite
  <2> HIDE DEF R
  <2>3. IsFiniteSet(R)
    BY <2>1, <2>2, FS_Subset
  <2> QED BY <2>3, FS_CardinalityType
<1>2. IsFiniteSet(Q) /\ Cardinality(Q) = f[i][p]
  <2>0. ASSUME NEW n \in Nat PROVE IsFiniteSet(1..n) /\ Cardinality(1..n) = n
    <3>1. IsFiniteSet(1..n) /\ Cardinality(1..n) = IF 1 > n THEN 0 ELSE n - 1 + 1
      BY FS_Interval
    <3> QED BY <3>1
  <2>1. IsFiniteSet(1..f[i][p]) /\ Cardinality(1..f[i][p]) = f[i][p]
    BY <1>0, <2>0
  <2>2. IsFiniteSet({i}) /\ Cardinality({i}) = 1
    BY FS_Singleton
  <2>3. IsFiniteSet(Q) /\ Cardinality(Q) = Cardinality({i}) * Cardinality(1..f[i][p])
    BY <2>1, <2>2, FS_Product
  <2> HIDE DEF Q
  <2> QED BY <1>0, <2>1, <2>2, <2>3
<1>3. UnitsOf(f, p) = R \union Q
  <2>1. ASSUME NEW n \in 1..MaxQty PROVE n <= f[i][p] <=> n \in 1..f[i][p]
    BY <1>0
  <2>2. 1..f[i][p] \subseteq 1..MaxQty
    BY <1>0
  <2>3. ASSUME NEW u \in UnitsOf(f, p) PROVE u \in R \union Q
    BY <2>1 DEF UnitsOf, UnitsOfOthers
  <2>4. ASSUME NEW u \in Q PROVE u \in UnitsOf(f, p)
    BY <2>1, <2>2 DEF UnitsOf
  <2> QED BY <2>3, <2>4 DEF UnitsOfOthers
<1>4. R \cap Q = {}
  BY DEF UnitsOfOthers
<1> HIDE DEF R, Q
<1>5. Cardinality(R \union Q) = Cardinality(R) + Cardinality(Q) - Cardinality(R \cap Q)
  BY <1>1, <1>2, FS_Union
<1>6. Cardinality(R \cap Q) = 0
  BY <1>4, FS_EmptySet
<1>7. Cardinality(UnitsOf(f, p)) = Cardinality(R) + f[i][p]
  BY <1>0, <1>1, <1>2, <1>3, <1>5, <1>6
<1> QED BY <1>1, <1>7 DEF R

\* If invoice i reserves q instead, the count changes by the difference.
LEMMA UnitsExcept ==
  ASSUME NEW f \in [Invoices -> Lines], NEW i \in Invoices, NEW q \in Lines, NEW p \in Products
  PROVE  Cardinality(UnitsOf([f EXCEPT ![i] = q], p)) = Cardinality(UnitsOf(f, p)) - f[i][p] + q[p]
<1> DEFINE g == [f EXCEPT ![i] = q]
<1>1. g \in [Invoices -> Lines] /\ g[i] = q
  OBVIOUS
<1>2. UnitsOfOthers(g, i, p) = UnitsOfOthers(f, i, p)
  BY DEF UnitsOfOthers, UnitsOf
<1>3. f[i][p] \in Nat /\ q[p] \in Nat
  BY LinesAreNat
<1> HIDE DEF g
<1>4. /\ Cardinality(UnitsOf(g, p)) = Cardinality(UnitsOfOthers(f, i, p)) + q[p]
      /\ Cardinality(UnitsOf(f, p)) = Cardinality(UnitsOfOthers(f, i, p)) + f[i][p]
      /\ Cardinality(UnitsOfOthers(f, i, p)) \in Nat
  BY <1>1, <1>2, UnitsSplit
<1>5. Cardinality(UnitsOf(g, p)) = Cardinality(UnitsOf(f, p)) - f[i][p] + q[p]
  BY <1>3, <1>4
<1> QED BY <1>5 DEF g

LEMMA ReservedIsUnits ==
  /\ \A p : ReservedQuantity(p) = Cardinality(UnitsOf(reserved, p))
  /\ \A p : ReservedQuantity(p)' = Cardinality(UnitsOf(reserved', p))
BY DEF ReservedQuantity, ReservedUnits, UnitsOf

LEMMA ReservedQuantityType == \A p : ReservedQuantity(p) \in Nat /\ ReservedQuantity(p)' \in Nat
BY ReservedIsUnits, UnitsFinite

\* Invoice i reserves q instead of what it did.
LEMMA ReservedExcept ==
  ASSUME TypeOK, NEW i \in Invoices, NEW q \in Lines, reserved' = [reserved EXCEPT ![i] = q]
  PROVE  \A p \in Products : ReservedQuantity(p)' = ReservedQuantity(p) - reserved[i][p] + q[p]
BY ReservedIsUnits, UnitsExcept DEF TypeOK, RowsType

\* No invoice reserves more than it did.
LEMMA ReservedShrinks ==
  ASSUME TypeOK, TypeOK', NEW p \in Products, \A i \in Invoices : reserved'[i][p] <= reserved[i][p]
  PROVE  ReservedQuantity(p)' <= ReservedQuantity(p)
BY ReservedIsUnits, UnitsMonotone DEF TypeOK, RowsType

-----------------------------------------------------------------------------
(* The inductive invariant. What a transaction has checked still holds     *)
(* because it has the lock of every stock row it depends on (Covered), and *)
(* whoever reserves more of a product or takes its stock has that lock.    *)

\* The stock rows request r depends on are locked or still to be locked.
Covered(r) ==
  /\ pc[r] \in {"create", "created"} => LinesOf(want[r]) \subseteq need[r] \union held[r]
  /\ Mutating(r) =>
       LinesOf(item[target[r]]) \union LinesOf(want[r]) \subseteq need[r] \union held[r]
  /\ Shipping(r) => LinesOf(item[target[r]]) \subseteq need[r] \union held[r]
  /\ pc[r] \in {"created", "mutated", "shipping"} => need[r] = {}

\* StockStillHolds for one request.
StockHolds(r) ==
  /\ pc[r] = "created" => \A p \in LinesOf(want[r]) : want[r][p] <= Available(p)
  /\ pc[r] = "mutated" =>
       \A p \in Products : want[r][p] > item[target[r]][p] =>
         want[r][p] - item[target[r]][p] <= Available(p)
  /\ pc[r] = "shipping" => \A p \in LinesOf(item[target[r]]) : seen[r][p] = onHand[p]

NoCorrection == \A r \in Requests : pc[r] # "correct"

StockInv ==
  /\ InvoiceInv
  /\ StockLocksExclusive
  /\ \A r \in Requests : Covered(r) /\ StockHolds(r)
  /\ ~CorrectionsOverlap => NoCorrection /\ NeverOversold /\ StockMatchesLedger

\* Request r has not moved.
Untouched(r) ==
  /\ pc'[r] = pc[r] /\ target'[r] = target[r] /\ want'[r] = want[r]
  /\ seen'[r] = seen[r] /\ need'[r] = need[r] /\ held'[r] = held[r]

\* Outside the rows in H no stock is taken and no more is reserved.
StockKept(H) ==
  \A p \in Products \ H : onHand'[p] = onHand[p] /\ ReservedQuantity(p)' <= ReservedQuantity(p)

\* A request that has not moved, whose rows nobody touched and whose invoice has
\* the lines it had, is covered and right about the stock as before.
LEMMA RequestKept ==
  ASSUME TypeOK, TypeOK', NEW H, StockKept(H), NEW r \in Requests,
         Untouched(r), held[r] \cap H = {},
         Mutating(r) \/ Shipping(r) => item'[target[r]] = item[target[r]],
         Covered(r), StockHolds(r)
  PROVE  Covered(r)' /\ StockHolds(r)'
<1> DEFINE i == target[r]
<1>1. Covered(r)'
  BY DEF Covered, Untouched, Mutating, Shipping, LinesOf
<1>2. ASSUME NEW p \in held[r], p \in Products
      PROVE  Available(p)' >= Available(p) /\ onHand'[p] = onHand[p]
  <2>1. onHand'[p] = onHand[p] /\ ReservedQuantity(p)' <= ReservedQuantity(p)
    BY <1>2 DEF StockKept
  <2>2. onHand[p] \in Nat
    BY <1>2 DEF TypeOK, RowsType
  <2> QED BY <2>1, <2>2, ReservedQuantityType DEF Available
<1>3. \A p \in Products : Available(p) \in Int /\ Available(p)' \in Int
  BY ReservedQuantityType DEF Available, TypeOK, RowsType
<1>4. CASE pc[r] = "created"
  <2>1. want[r] \in Lines
    BY <1>4 DEF TypeOK, SessionType
  <2>2. ASSUME NEW p \in LinesOf(want[r]) PROVE want[r][p] <= Available(p)'
    <3>1. p \in Products /\ p \in held[r] /\ want[r][p] <= Available(p)
      BY <1>4, <2>2 DEF Covered, StockHolds, LinesOf
    <3>2. want[r][p] \in Nat
      BY <2>1, <3>1, LinesAreNat
    <3> QED BY <1>2, <1>3, <3>1, <3>2
  <2> QED BY <1>1, <1>4, <2>2 DEF StockHolds, Untouched, LinesOf
<1>5. CASE pc[r] = "mutated"
  <2>1. want[r] \in Lines /\ i \in Invoices /\ item[i] \in Lines /\ item'[i] = item[i]
    BY <1>5 DEF TypeOK, SessionType, RowsType, OnInvoice, Mutating
  <2> HIDE DEF i
  <2>2. ASSUME NEW p \in Products, want[r][p] > item[i][p]
        PROVE  want[r][p] - item[i][p] <= Available(p)'
    <3>1. want[r][p] \in Nat /\ item[i][p] \in Nat
      BY <2>1, LinesAreNat
    <3>2. p \in held[r]
      <4>1. p \in LinesOf(want[r])
        BY <2>2, <3>1 DEF LinesOf
      <4> QED BY <1>5, <4>1 DEF Covered, Mutating
    <3>3. want[r][p] - item[i][p] <= Available(p)
      BY <1>5, <2>2 DEF StockHolds, i
    <3> QED BY <1>2, <1>3, <3>1, <3>2, <3>3
  <2>3. \A p \in Products : want[r][p] > item'[i][p] => want[r][p] - item'[i][p] <= Available(p)'
    BY <2>1, <2>2
  <2> QED BY <1>1, <1>5, <2>3 DEF StockHolds, Untouched, i
<1>6. CASE pc[r] = "shipping"
  <2>1. item'[i] = item[i]
    BY <1>6 DEF Shipping
  <2>2. \A p \in LinesOf(item[i]) : p \in Products /\ p \in held[r] /\ seen[r][p] = onHand[p]
    BY <1>6 DEF Covered, Shipping, StockHolds, LinesOf
  <2>3. \A p \in LinesOf(item[i]) : seen[r][p] = onHand'[p]
    BY <1>2, <2>2
  <2>4. LinesOf(item[i])' = LinesOf(item[i])
    BY <2>1 DEF LinesOf, Untouched
  <2> QED BY <1>1, <1>6, <2>3, <2>4 DEF StockHolds, Untouched
<1>7. CASE pc[r] \notin {"created", "mutated", "shipping"}
  BY <1>1, <1>7 DEF StockHolds, Untouched
<1> QED BY <1>1, <1>4, <1>5, <1>6, <1>7

\* The request that ends depends on nothing.
LEMMA EndedHolds ==
  ASSUME SessionType, NEW s \in Requests, EndSession(s)
  PROVE  /\ Covered(s)' /\ StockHolds(s)'
         /\ \A r \in Requests \ {s} : Untouched(r)
         /\ StockLocksExclusive => StockLocksExclusive'
         /\ NoCorrection => NoCorrection'
<1>1. pc'[s] = "idle" /\ held'[s] = {}
  BY DEF EndSession, SessionType
<1>2. \A r \in Requests \ {s} : Untouched(r)
  BY DEF EndSession, SessionType, Untouched
<1>3. Covered(s)' /\ StockHolds(s)'
  BY <1>1 DEF Covered, StockHolds, Mutating, Shipping
<1>4. StockLocksExclusive => StockLocksExclusive'
  BY <1>1, <1>2 DEF StockLocksExclusive, Untouched
<1>5. NoCorrection => NoCorrection'
  BY <1>1, <1>2 DEF NoCorrection, Untouched
<1> QED BY <1>2, <1>3, <1>4, <1>5

-----------------------------------------------------------------------------
(* The steps.                                                              *)

LEMMA InitStockInv == Init => StockInv
<1> SUFFICES ASSUME Init PROVE StockInv
  OBVIOUS
<1>1. \A r \in Requests : pc[r] = "idle" /\ held[r] = {}
  BY DEF Init
<1>2. StockLocksExclusive /\ NoCorrection
  BY <1>1 DEF StockLocksExclusive, NoCorrection
<1>3. \A r \in Requests : Covered(r) /\ StockHolds(r)
  BY <1>1 DEF Covered, StockHolds, Mutating, Shipping
<1>4. StockMatchesLedger
  BY DEF Init, StockMatchesLedger
<1>5. NeverOversold
  <2>1. ASSUME NEW p \in Products PROVE UnitsOf(reserved, p) = {}
    <3>1. ASSUME NEW u \in UnitsOf(reserved, p) PROVE FALSE
      <4>1. u[1] \in Invoices /\ u[2] \in 1..MaxQty /\ u[2] <= reserved[u[1]][p]
        BY DEF UnitsOf
      <4>2. reserved[u[1]][p] = 0
        BY <4>1 DEF Init, NoLines
      <4> QED BY <4>1, <4>2, BoundsAssumption
    <3> QED BY <3>1
  <2>2. \A p \in Products : ReservedQuantity(p) = 0 /\ onHand[p] = 0
    BY <2>1, ReservedIsUnits, FS_EmptySet DEF Init, NoLines
  <2> QED BY <2>2 DEF NeverOversold
<1> QED BY <1>2, <1>3, <1>4, <1>5, InitInvoiceInv DEF StockInv

\* Each request has not moved and what it depends on is untouched, or it has
\* moved to a place where it is covered and right.
LEMMA OthersKept ==
  ASSUME StockInv, TypeOK', NEW H, StockKept(H),
         \A r \in Requests :
           \/ Covered(r)' /\ StockHolds(r)'
           \/ /\ Untouched(r) /\ held[r] \cap H = {}
              /\ Mutating(r) \/ Shipping(r) => item'[target[r]] = item[target[r]]
  PROVE  \A r \in Requests : Covered(r)' /\ StockHolds(r)'
<1>1. ASSUME NEW r \in Requests PROVE Covered(r)' /\ StockHolds(r)'
  BY RequestKept DEF StockInv, InvoiceInv
<1> QED BY <1>1

stockRows == <<item, reserved, onHand, ledger>>

LEMMA SameStock ==
  ASSUME UNCHANGED stockRows
  PROVE  /\ \A p : Available(p)' = Available(p) /\ ReservedQuantity(p)' = ReservedQuantity(p)
         /\ TypeOK => StockKept({})
         /\ NeverOversold => NeverOversold'
         /\ StockMatchesLedger => StockMatchesLedger'
<1>1. \A p : ReservedQuantity(p)' = ReservedQuantity(p)
  BY DEF ReservedQuantity, ReservedUnits, stockRows
<1>2. \A p : Available(p)' = Available(p)
  BY <1>1 DEF Available, stockRows
<1>3. TypeOK => StockKept({})
  BY <1>1, ReservedQuantityType DEF StockKept, stockRows
<1>4. NeverOversold => NeverOversold'
  BY <1>1 DEF NeverOversold, stockRows
<1>5. StockMatchesLedger => StockMatchesLedger'
  BY DEF StockMatchesLedger, stockRows
<1> QED BY <1>1, <1>2, <1>3, <1>4, <1>5

\* A step of request s, or of none of them, that leaves the stock alone.
LEMMA SameStockStep ==
  ASSUME StockInv, InvoiceInv', UNCHANGED stockRows,
         \A r \in Requests : Untouched(r) \/ (Covered(r)' /\ StockHolds(r)'),
         StockLocksExclusive', ~CorrectionsOverlap /\ NoCorrection => NoCorrection'
  PROVE  StockInv'
<1>1. StockKept({}) /\ TypeOK'
  BY SameStock DEF StockInv, InvoiceInv
<1>2. \A r \in Requests : held[r] \cap {} = {} /\ item'[target[r]] = item[target[r]]
  BY DEF stockRows
<1>3. \A r \in Requests : Covered(r)' /\ StockHolds(r)'
  BY <1>1, <1>2, OthersKept
<1> QED BY <1>3, SameStock DEF StockInv

\* A step of no request that leaves the stock alone.
LEMMA QuietStock ==
  ASSUME StockInv, InvoiceInv', UNCHANGED <<stockRows, session>>
  PROVE  StockInv'
<1>1. \A r \in Requests : Untouched(r)
  BY DEF session, Untouched
<1>2. StockLocksExclusive' /\ (NoCorrection => NoCorrection')
  BY DEF StockInv, StockLocksExclusive, NoCorrection, session
<1> QED BY <1>1, <1>2, SameStockStep

\* A request that ends without touching the stock.
LEMMA EndedStock ==
  ASSUME StockInv, InvoiceInv', UNCHANGED stockRows, NEW s \in Requests, EndSession(s)
  PROVE  StockInv'
<1>1. SessionType /\ StockLocksExclusive
  BY DEF StockInv, InvoiceInv, TypeOK
<1>2. Covered(s)' /\ StockHolds(s)'
  BY <1>1, EndedHolds
<1>3. StockLocksExclusive' /\ (NoCorrection => NoCorrection')
  BY <1>1, EndedHolds
<1>4. \A r \in Requests \ {s} : Untouched(r)
  BY <1>1, EndedHolds
<1> QED BY <1>2, <1>3, <1>4, SameStockStep

LEMMA BeginStock ==
  ASSUME StockInv, InvoiceInv', NEW s \in Requests, Begin(s)
  PROVE  StockInv'
<1>0. SessionType
  BY DEF StockInv, InvoiceInv, TypeOK
<1>1. UNCHANGED <<stockRows, held>> /\ \A r \in Requests \ {s} : Untouched(r)
  BY <1>0 DEF Begin, StartCreate, StartMutate, StartConfirm, StartShip, ReadForCorrection,
     rows, stockRows, SessionType, Untouched
<1>2. StockLocksExclusive'
  BY <1>1 DEF StockInv, StockLocksExclusive
<1>3. ~CorrectionsOverlap /\ NoCorrection => NoCorrection'
  BY <1>0 DEF Begin, StartCreate, StartMutate, StartConfirm, StartShip, ReadForCorrection,
     NoCorrection, SessionType
<1>4. Covered(s)' /\ StockHolds(s)'
  <2>1. CASE \/ \E c \in Companies, k \in AllKeys \union {NoKey} : StartCreate(s, c, k)
             \/ \E i \in Invoices, k \in AllKeys \union {NoKey} : StartConfirm(s, i, k)
             \/ \E p \in Products, n \in 0..MaxStock : ReadForCorrection(s, p, n)
    <3>1. pc'[s] \in {"checkout", "pay", "correct"}
      BY <1>0, <2>1 DEF StartCreate, StartConfirm, ReadForCorrection, SessionType
    <3> QED BY <3>1 DEF Covered, StockHolds, Mutating, Shipping
  <2>2. ASSUME NEW i \in Invoices, NEW q \in Lines, StartMutate(s, i, q)
        PROVE  Covered(s)' /\ StockHolds(s)'
    <3>1. /\ pc'[s] = "mutate" /\ target'[s] = i /\ want'[s] = q
          /\ need'[s] = LinesOf(item[i]) \union LinesOf(q)
      BY <1>0, <2>2 DEF StartMutate, SessionType
    <3> QED BY <1>1, <3>1 DEF Covered, StockHolds, Mutating, Shipping, LinesOf, stockRows
  <2>3. ASSUME NEW i \in Invoices, StartShip(s, i)
        PROVE  Covered(s)' /\ StockHolds(s)'
    <3>1. pc'[s] = "ship" /\ target'[s] = i /\ need'[s] = LinesOf(item[i])
      BY <1>0, <2>3 DEF StartShip, SessionType
    <3> QED BY <1>1, <3>1 DEF Covered, StockHolds, Mutating, Shipping, LinesOf, stockRows
  <2> QED BY <2>1, <2>2, <2>3, BeginCases
<1> QED BY <1>1, <1>2, <1>3, <1>4, SameStockStep

LEMMA ChecksStock ==
  ASSUME StockInv, InvoiceInv', NEW s \in Requests,
         LockCart(s) \/ LockStock(s) \/ CheckCreate(s) \/ CheckMutate(s) \/ CheckShip(s)
  PROVE  StockInv'
<1>0. SessionType /\ RowsType /\ Covered(s) /\ StockHolds(s)
  BY DEF StockInv, InvoiceInv, TypeOK
<1>1. UNCHANGED stockRows
  BY DEF LockCart, LockStock, CheckCreate, CheckMutate, CheckShip, rows, stockRows
<1>2. CASE EndSession(s)
  BY <1>1, <1>2, EndedStock
<1>3. ASSUME \A r \in Requests \ {s} : Untouched(r), pc'[s] # "correct",
             held'[s] = held[s], Covered(s)', StockHolds(s)'
      PROVE  StockInv'
  <2>1. StockLocksExclusive' /\ (NoCorrection => NoCorrection')
    BY <1>3 DEF StockInv, StockLocksExclusive, NoCorrection, Untouched
  <2> QED BY <1>1, <1>3, <2>1, SameStockStep
<1>4. CASE LockCart(s) /\ ~EndSession(s)
  <2>1. /\ pc' = [pc EXCEPT ![s] = "create"]
        /\ want' = [want EXCEPT ![s] = cart[who[s]]]
        /\ need' = [need EXCEPT ![s] = LinesOf(cart[who[s]])]
        /\ UNCHANGED <<who, target, key, seen, held>>
    BY <1>4 DEF LockCart
  <2>2. Covered(s)' /\ StockHolds(s)'
    BY <1>0, <2>1 DEF SessionType, Covered, StockHolds, Mutating, Shipping, LinesOf
  <2>3. \A r \in Requests \ {s} : Untouched(r)
    BY <1>0, <2>1 DEF SessionType, Untouched
  <2> QED BY <1>0, <1>3, <2>1, <2>2, <2>3 DEF SessionType
<1>5. CASE LockStock(s)
  <2>1. PICK p \in NextRow(s) :
          /\ StockFree(p)
          /\ held' = [held EXCEPT ![s] = held[s] \union {p}]
          /\ need' = [need EXCEPT ![s] = need[s] \ {p}]
    BY <1>5 DEF LockStock
  <2>2. pc[s] \in {"create", "mutate", "ship"} /\ UNCHANGED <<pc, who, target, key, want, seen>>
    BY <1>5 DEF LockStock
  <2>3. held'[s] = held[s] \union {p} /\ need'[s] = need[s] \ {p} /\ p \in need[s]
    BY <1>0, <2>1 DEF SessionType, NextRow
  <2>4. Covered(s)' /\ StockHolds(s)'
    BY <1>0, <1>1, <2>2, <2>3 DEF Covered, StockHolds, Mutating, Shipping, LinesOf, stockRows
  <2>5. \A r \in Requests \ {s} : Untouched(r)
    BY <1>0, <2>1, <2>2 DEF SessionType, Untouched
  <2>6. StockLocksExclusive'
    BY <2>1, <2>3, <2>5 DEF StockInv, StockLocksExclusive, StockFree, Untouched
  <2>7. NoCorrection => NoCorrection'
    BY <2>2 DEF NoCorrection
  <2> QED BY <1>1, <2>4, <2>5, <2>6, <2>7, SameStockStep
<1>6. CASE CheckCreate(s) /\ ~EndSession(s)
  <2>1. /\ pc' = [pc EXCEPT ![s] = "created"] /\ need[s] = {} /\ pc[s] = "create"
        /\ UNCHANGED <<who, target, key, want, seen, need, held>>
        /\ \A p \in LinesOf(want[s]) : want[s][p] <= Available(p)
    BY <1>6 DEF CheckCreate
  <2>2. pc'[s] = "created"
    BY <1>0, <2>1 DEF SessionType
  <2>3. Covered(s)'
    BY <1>0, <2>1, <2>2 DEF Covered, Mutating, Shipping, LinesOf
  <2>4. StockHolds(s)'
    BY <1>1, <2>1, <2>2, SameStock DEF StockHolds, LinesOf
  <2>5. \A r \in Requests \ {s} : Untouched(r)
    BY <1>0, <2>1 DEF SessionType, Untouched
  <2> QED BY <1>3, <2>1, <2>2, <2>3, <2>4, <2>5
<1>7. CASE CheckMutate(s) /\ ~EndSession(s)
  <2>1. /\ pc' = [pc EXCEPT ![s] = "mutated"] /\ need[s] = {} /\ pc[s] = "mutate"
        /\ UNCHANGED <<who, target, key, want, seen, need, held>>
        /\ \A p \in Products : want[s][p] > item[target[s]][p] =>
             want[s][p] - item[target[s]][p] <= Available(p)
    BY <1>7 DEF CheckMutate
  <2>2. pc'[s] = "mutated"
    BY <1>0, <2>1 DEF SessionType
  <2>3. Covered(s)'
    BY <1>0, <1>1, <2>1, <2>2 DEF Covered, Mutating, Shipping, LinesOf, stockRows
  <2>4. StockHolds(s)'
    BY <1>1, <2>1, <2>2, SameStock DEF StockHolds, stockRows
  <2>5. \A r \in Requests \ {s} : Untouched(r)
    BY <1>0, <2>1 DEF SessionType, Untouched
  <2> QED BY <1>3, <2>1, <2>2, <2>3, <2>4, <2>5
<1>8. CASE CheckShip(s) /\ ~EndSession(s)
  <2>1. /\ pc' = [pc EXCEPT ![s] = "shipping"] /\ need[s] = {} /\ pc[s] = "ship"
        /\ seen' = [seen EXCEPT ![s] = onHand]
        /\ UNCHANGED <<who, target, key, want, need, held>>
    BY <1>8 DEF CheckShip
  <2>2. pc'[s] = "shipping" /\ seen'[s] = onHand
    BY <1>0, <2>1 DEF SessionType
  <2>3. Covered(s)'
    BY <1>0, <1>1, <2>1, <2>2 DEF Covered, Mutating, Shipping, LinesOf, stockRows
  <2>4. StockHolds(s)'
    BY <1>1, <2>2 DEF StockHolds, stockRows
  <2>5. \A r \in Requests \ {s} : Untouched(r)
    BY <1>0, <2>1 DEF SessionType, Untouched
  <2> QED BY <1>3, <2>1, <2>2, <2>3, <2>4, <2>5
<1> QED BY <1>2, <1>4, <1>5, <1>6, <1>7, <1>8

\* Request s commits: of the rows it writes outside H it takes nothing, and no
\* other transaction depends on a row in H or on an invoice it writes.
LEMMA CommittedStock ==
  ASSUME StockInv, InvoiceInv', NEW s \in Requests, EndSession(s), NEW H, StockKept(H),
         \A r \in Requests \ {s} :
           /\ held[r] \cap H = {}
           /\ Mutating(r) \/ Shipping(r) => item'[target[r]] = item[target[r]],
         ~CorrectionsOverlap /\ NeverOversold /\ StockMatchesLedger =>
           NeverOversold' /\ StockMatchesLedger'
  PROVE  StockInv'
<1>1. SessionType /\ StockLocksExclusive /\ TypeOK'
  BY DEF StockInv, InvoiceInv, TypeOK
<1>2. /\ Covered(s)' /\ StockHolds(s)'
      /\ \A r \in Requests \ {s} : Untouched(r)
      /\ StockLocksExclusive' /\ (NoCorrection => NoCorrection')
  BY <1>1, EndedHolds
<1>3. \A r \in Requests : Covered(r)' /\ StockHolds(r)'
  BY <1>1, <1>2, OthersKept
<1> QED BY <1>2, <1>3 DEF StockInv

\* A commit by no request.
LEMMA OutsideStock ==
  ASSUME StockInv, InvoiceInv', UNCHANGED <<session, item>>, NEW H, StockKept(H),
         \A r \in Requests : held[r] \cap H = {},
         ~CorrectionsOverlap /\ NeverOversold /\ StockMatchesLedger =>
           NeverOversold' /\ StockMatchesLedger'
  PROVE  StockInv'
<1>1. TypeOK' /\ \A r \in Requests : Untouched(r) /\ item'[target[r]] = item[target[r]]
  BY DEF InvoiceInv, session, Untouched
<1>2. StockLocksExclusive' /\ (NoCorrection => NoCorrection')
  BY DEF StockInv, StockLocksExclusive, NoCorrection, session
<1>3. \A r \in Requests : Covered(r)' /\ StockHolds(r)'
  BY <1>1, OthersKept
<1> QED BY <1>2, <1>3 DEF StockInv

\* What invoice i reserves becomes q, which is in stock and needs no stock row
\* outside held[s].
LEMMA RereservedStock ==
  ASSUME StockInv, InvoiceInv', NEW s \in Requests, EndSession(s), UNCHANGED <<onHand, ledger>>,
         NEW i \in Invoices, NEW q \in Lines, reserved' = [reserved EXCEPT ![i] = q],
         \A j \in Invoices : j # i => item'[j] = item[j],
         \A r \in Requests \ {s} : Mutating(r) \/ Shipping(r) => target[r] # i,
         LinesOf(reserved[i]) \union LinesOf(q) \subseteq held[s],
         \A p \in Products : q[p] > reserved[i][p] => q[p] - reserved[i][p] <= Available(p)
  PROVE  StockInv'
<1>0. TypeOK /\ reserved[i] \in Lines /\ SessionType
  BY DEF StockInv, InvoiceInv, TypeOK, RowsType
<1>1. \A p \in Products :
        /\ ReservedQuantity(p)' = ReservedQuantity(p) - reserved[i][p] + q[p]
        /\ ReservedQuantity(p) \in Nat /\ reserved[i][p] \in Nat /\ q[p] \in Nat
        /\ onHand[p] \in Nat
  BY <1>0, ReservedExcept, ReservedQuantityType, LinesAreNat DEF TypeOK, RowsType
<1>2. StockKept(held[s])
  <2>1. ASSUME NEW p \in Products \ held[s] PROVE ReservedQuantity(p)' = ReservedQuantity(p)
    <3>1. reserved[i][p] = 0 /\ q[p] = 0
      BY <1>1, <2>1 DEF LinesOf
    <3> QED BY <1>1, <3>1
  <2> QED BY <2>1, <1>1 DEF StockKept
<1>3. NeverOversold => NeverOversold'
  <2>1. ASSUME NEW p \in Products, ReservedQuantity(p) <= onHand[p]
        PROVE  ReservedQuantity(p)' <= onHand[p]
    <3>1. CASE q[p] > reserved[i][p]
      BY <1>1, <3>1 DEF Available
    <3>2. CASE ~(q[p] > reserved[i][p])
      BY <1>1, <2>1, <3>2
    <3> QED BY <3>1, <3>2
  <2> QED BY <2>1 DEF NeverOversold
<1>4. StockMatchesLedger => StockMatchesLedger'
  BY DEF StockMatchesLedger
<1>5. \A r \in Requests \ {s} :
        /\ held[r] \cap held[s] = {}
        /\ Mutating(r) \/ Shipping(r) => item'[target[r]] = item[target[r]]
  BY <1>0 DEF StockInv, StockLocksExclusive, SessionType, OnInvoice
<1> QED BY <1>2, <1>3, <1>4, <1>5, CommittedStock

\* The commit of create_invoice_from_cart: what it inserts, and where.
LEMMA CreateCommitted ==
  ASSUME StockInv, NEW s \in Requests, CommitCreate(s), ~KeyUsed(key[s])
  PROVE  \E i \in Invoices :
           /\ status[i] = "none" /\ reserved[i] = NoLines /\ want[s] \in Lines
           /\ status' = [status EXCEPT ![i] = "awaiting_payment"]
           /\ item' = [item EXCEPT ![i] = want[s]]
           /\ reserved' = [reserved EXCEPT ![i] = want[s]]
           /\ UNCHANGED <<onHand, ledger>>
           /\ \A p \in Products : want[s][p] > 0 => want[s][p] <= Available(p)
           /\ LinesOf(want[s]) \subseteq held[s]
<1>1. want[s] \in Lines /\ pc[s] = "created"
  BY DEF CommitCreate, StockInv, InvoiceInv, TypeOK, SessionType
<1>2. PICK i \in Invoices :
        /\ status[i] = "none"
        /\ status' = [status EXCEPT ![i] = "awaiting_payment"]
        /\ item' = [item EXCEPT ![i] = want[s]]
        /\ reserved' = [reserved EXCEPT ![i] = want[s]]
        /\ UNCHANGED <<onHand, ledger>>
  BY DEF CommitCreate
<1>3. reserved[i] = NoLines
  BY <1>2 DEF StockInv, InvoiceInv, ReservationsMatchLines
<1>4. LinesOf(want[s]) \subseteq held[s]
      /\ \A p \in LinesOf(want[s]) : want[s][p] <= Available(p)
  BY <1>1 DEF StockInv, Covered, StockHolds
<1> QED BY <1>1, <1>2, <1>3, <1>4 DEF LinesOf

LEMMA CreateStock ==
  ASSUME StockInv, InvoiceInv', NEW s \in Requests, CommitCreate(s)
  PROVE  StockInv'
<1>1. EndSession(s)
  BY DEF CommitCreate
<1>2. CASE KeyUsed(key[s])
  BY <1>1, <1>2, EndedStock DEF CommitCreate, rows, stockRows
<1>3. CASE ~KeyUsed(key[s])
  <2>1. PICK i \in Invoices :
           /\ status[i] = "none" /\ reserved[i] = NoLines /\ want[s] \in Lines
           /\ item' = [item EXCEPT ![i] = want[s]]
           /\ reserved' = [reserved EXCEPT ![i] = want[s]]
           /\ UNCHANGED <<onHand, ledger>>
           /\ \A p \in Products : want[s][p] > 0 => want[s][p] <= Available(p)
           /\ LinesOf(want[s]) \subseteq held[s]
    BY <1>3, CreateCommitted
  <2>2. \A j \in Invoices : j # i => item'[j] = item[j]
    BY <2>1 DEF StockInv, InvoiceInv, TypeOK, RowsType
  <2>3. \A r \in Requests : Mutating(r) \/ Shipping(r) => target[r] # i
    BY <2>1 DEF StockInv, InvoiceInv, StatusStillHolds
  <2>4. \A p \in Products : reserved[i][p] = 0 /\ want[s][p] \in Nat
    BY <2>1, LinesAreNat DEF NoLines
  <2>5. \A p \in Products : want[s][p] > reserved[i][p] => want[s][p] - reserved[i][p] <= Available(p)
    BY <2>1, <2>4
  <2>6. LinesOf(reserved[i]) \union LinesOf(want[s]) \subseteq held[s]
    BY <2>1, <2>4 DEF LinesOf
  <2> QED BY <1>1, <2>1, <2>2, <2>3, <2>5, <2>6, RereservedStock
<1> QED BY <1>2, <1>3

\* The commit of mutate_invoice_items.
LEMMA MutateCommitted ==
  ASSUME StockInv, NEW s \in Requests, CommitMutate(s)
  PROVE  /\ target[s] \in Invoices /\ want[s] \in Lines /\ HoldsInvoice(s, target[s])
         /\ status[target[s]] = "awaiting_payment" /\ reserved[target[s]] = item[target[s]]
         /\ item' = [item EXCEPT ![target[s]] = want[s]]
         /\ reserved' = [reserved EXCEPT ![target[s]] = want[s]]
         /\ UNCHANGED <<status, onHand, ledger>>
         /\ LinesOf(item[target[s]]) \union LinesOf(want[s]) \subseteq held[s]
         /\ \A p \in Products : want[s][p] > reserved[target[s]][p] =>
              want[s][p] - reserved[target[s]][p] <= Available(p)
<1> DEFINE i == target[s]
<1>1. /\ i \in Invoices /\ want[s] \in Lines /\ HoldsInvoice(s, i)
      /\ status[i] = "awaiting_payment" /\ pc[s] = "mutated"
  BY DEF CommitMutate, StockInv, InvoiceInv, TypeOK, SessionType, OnInvoice, Mutating,
     HoldsInvoice, StatusStillHolds
<1>2. reserved[i] = item[i]
  BY <1>1 DEF StockInv, InvoiceInv, ReservationsMatchLines
<1>3. want[s] = [p \in Products |-> IF want[s][p] = item[i][p]
                                      THEN reserved[i][p] ELSE want[s][p]]
  BY <1>1, <1>2 DEF Lines
<1>4. /\ item' = [item EXCEPT ![i] = want[s]] /\ reserved' = [reserved EXCEPT ![i] = want[s]]
      /\ UNCHANGED <<status, onHand, ledger>>
  BY <1>3 DEF CommitMutate
<1>5. /\ LinesOf(item[i]) \union LinesOf(want[s]) \subseteq held[s]
      /\ \A p \in Products : want[s][p] > item[i][p] => want[s][p] - item[i][p] <= Available(p)
  BY <1>1 DEF StockInv, Covered, StockHolds, Mutating
<1> QED BY <1>1, <1>2, <1>4, <1>5

LEMMA MutateStock ==
  ASSUME StockInv, InvoiceInv', NEW s \in Requests, CommitMutate(s)
  PROVE  StockInv'
<1> DEFINE i == target[s]
<1>1. EndSession(s)
  BY DEF CommitMutate
<1>2. /\ i \in Invoices /\ want[s] \in Lines /\ HoldsInvoice(s, i) /\ reserved[i] = item[i]
      /\ item' = [item EXCEPT ![i] = want[s]] /\ reserved' = [reserved EXCEPT ![i] = want[s]]
      /\ UNCHANGED <<onHand, ledger>>
      /\ LinesOf(item[i]) \union LinesOf(want[s]) \subseteq held[s]
      /\ \A p \in Products : want[s][p] > reserved[i][p] => want[s][p] - reserved[i][p] <= Available(p)
  BY MutateCommitted
<1>3. \A j \in Invoices : j # i => item'[j] = item[j]
  BY <1>2 DEF StockInv, InvoiceInv, TypeOK, RowsType
<1>4. \A r \in Requests \ {s} : Mutating(r) \/ Shipping(r) => target[r] # i
  BY <1>2 DEF StockInv, InvoiceInv, InvoiceLocksExclusive, HoldsInvoice
<1> HIDE DEF i
<1>5. LinesOf(reserved[i]) \union LinesOf(want[s]) \subseteq held[s]
  BY <1>2
<1> QED BY <1>1, <1>2, <1>3, <1>4, <1>5, RereservedStock

\* The commit of ship_invoice, if the stock is not refused.
LEMMA ShipCommitted ==
  ASSUME StockInv, NEW s \in Requests, CommitShip(s), ~UNCHANGED rows
  PROVE  /\ target[s] \in Invoices /\ HoldsInvoice(s, target[s])
         /\ status[target[s]] = "paid" /\ reserved[target[s]] = item[target[s]]
         /\ LinesOf(item[target[s]]) \subseteq held[s]
         /\ \A p \in LinesOf(item[target[s]]) : onHand[p] >= item[target[s]][p]
         /\ status' = [status EXCEPT ![target[s]] = "shipped"]
         /\ reserved' = [reserved EXCEPT ![target[s]] = NoLines]
         /\ onHand' = [p \in Products |-> onHand[p] - item[target[s]][p]]
         /\ ledger' = [p \in Products |-> ledger[p] - item[target[s]][p]]
         /\ UNCHANGED item
<1> DEFINE i == target[s]
<1>1. /\ i \in Invoices /\ HoldsInvoice(s, i) /\ status[i] = "paid" /\ pc[s] = "shipping"
  BY DEF CommitShip, StockInv, InvoiceInv, TypeOK, SessionType, OnInvoice, Shipping,
     HoldsInvoice, StatusStillHolds
<1>2. reserved[i] = item[i] /\ item[i] \in Lines
  BY <1>1 DEF StockInv, InvoiceInv, ReservationsMatchLines, TypeOK, RowsType
<1>3. /\ LinesOf(item[i]) \subseteq held[s]
      /\ \A p \in LinesOf(item[i]) : seen[s][p] = onHand[p]
  BY <1>1 DEF StockInv, Covered, StockHolds, Shipping
<1>4. /\ \A p \in LinesOf(item[i]) : seen[s][p] >= item[i][p]
      /\ status' = [status EXCEPT ![i] = "shipped"]
      /\ reserved' = [reserved EXCEPT ![i] =
                        [p \in Products |-> IF item[i][p] > 0 THEN 0 ELSE reserved[i][p]]]
      /\ onHand' = [p \in Products |-> IF item[i][p] > 0
                                         THEN seen[s][p] - item[i][p] ELSE onHand[p]]
      /\ ledger' = [p \in Products |-> ledger[p] - item[i][p]]
      /\ UNCHANGED item
  BY DEF CommitShip
<1>5. \A p \in Products : item[i][p] \in Nat /\ onHand[p] \in Nat
  BY <1>2, LinesAreNat DEF StockInv, InvoiceInv, TypeOK, RowsType
<1> HIDE DEF i
<1>6. \A p \in Products : (IF item[i][p] > 0 THEN 0 ELSE reserved[i][p]) = 0
  BY <1>2, <1>5
<1>7. reserved' = [reserved EXCEPT ![i] = NoLines]
  BY <1>4, <1>6 DEF NoLines
<1>8. \A p \in Products : (IF item[i][p] > 0 THEN seen[s][p] - item[i][p] ELSE onHand[p])
                            = onHand[p] - item[i][p]
  BY <1>3, <1>5 DEF LinesOf
<1>9. onHand' = [p \in Products |-> onHand[p] - item[i][p]]
  BY <1>4, <1>8
<1> QED BY <1>1, <1>2, <1>3, <1>4, <1>7, <1>9 DEF i

LEMMA ShipStock ==
  ASSUME StockInv, InvoiceInv', NEW s \in Requests, CommitShip(s)
  PROVE  StockInv'
<1> DEFINE i == target[s]
<1>1. EndSession(s)
  BY DEF CommitShip
<1>2. CASE UNCHANGED rows
  BY <1>1, <1>2, EndedStock DEF rows, stockRows
<1>3. CASE ~UNCHANGED rows
  <2>0. TypeOK
    BY DEF StockInv, InvoiceInv
  <2>1. /\ i \in Invoices /\ reserved[i] = item[i] /\ LinesOf(item[i]) \subseteq held[s]
        /\ reserved' = [reserved EXCEPT ![i] = NoLines]
        /\ onHand' = [p \in Products |-> onHand[p] - item[i][p]]
        /\ ledger' = [p \in Products |-> ledger[p] - item[i][p]]
        /\ UNCHANGED item
    BY <1>3, ShipCommitted
  <2> HIDE DEF i
  <2>2. \A p \in Products :
          /\ ReservedQuantity(p)' = ReservedQuantity(p) - item[i][p] + NoLines[p]
          /\ ReservedQuantity(p) \in Nat /\ item[i][p] \in Nat /\ onHand[p] \in Nat
          /\ NoLines[p] = 0
    <3>1. \A p \in Products :
            ReservedQuantity(p)' = ReservedQuantity(p) - reserved[i][p] + NoLines[p]
      BY <2>0, <2>1, NoLinesType, ReservedExcept
    <3>2. \A p \in Products : item[i][p] \in Nat /\ onHand[p] \in Nat
      BY <2>0, <2>1, LinesAreNat DEF TypeOK, RowsType
    <3> QED BY <2>1, <3>1, <3>2, ReservedQuantityType DEF NoLines
  <2>3. \A p \in Products : /\ ReservedQuantity(p)' = ReservedQuantity(p) - item[i][p]
                            /\ onHand'[p] = onHand[p] - item[i][p]
    BY <2>1, <2>2
  <2>4. StockKept(held[s])
    <3>1. \A p \in Products \ held[s] : item[i][p] = 0
      BY <2>1, <2>2 DEF LinesOf
    <3> QED BY <2>2, <2>3, <3>1 DEF StockKept
  <2>5. NeverOversold => NeverOversold'
    BY <2>2, <2>3 DEF NeverOversold
  <2>6. StockMatchesLedger => StockMatchesLedger'
    BY <2>1 DEF StockMatchesLedger
  <2>7. \A r \in Requests \ {s} : /\ held[r] \cap held[s] = {}
                                  /\ item'[target[r]] = item[target[r]]
    BY <2>1 DEF StockInv, StockLocksExclusive
  <2> QED BY <1>1, <2>4, <2>5, <2>6, <2>7, CommittedStock
<1> QED BY <1>2, <1>3

LEMMA WriteCorrectionStock ==
  ASSUME StockInv, InvoiceInv', NEW s \in Requests, WriteCorrection(s)
  PROVE  StockInv'
<1>1. PICK p \in need[s] : StockFree(p) /\ onHand' = [onHand EXCEPT ![p] = want[s][p]]
  BY DEF WriteCorrection
<1>2. EndSession(s) /\ UNCHANGED <<item, reserved>> /\ pc[s] = "correct"
  BY DEF WriteCorrection
<1>3. \A q : ReservedQuantity(q)' = ReservedQuantity(q)
  BY <1>2 DEF ReservedQuantity, ReservedUnits
<1>4. \A q \in Products \ {p} : onHand'[q] = onHand[q]
  BY <1>1 DEF StockInv, InvoiceInv, TypeOK, RowsType
<1>5. StockKept({p})
  BY <1>3, <1>4, ReservedQuantityType DEF StockKept
<1>6. CorrectionsOverlap
  BY <1>2, FlagsAssumption DEF StockInv, NoCorrection
<1>7. \A r \in Requests \ {s} : held[r] \cap {p} = {} /\ item'[target[r]] = item[target[r]]
  BY <1>1, <1>2 DEF StockFree
<1> QED BY <1>2, <1>5, <1>6, <1>7, CommittedStock

\* Only create and mutate reserve more, and only ship and corrections touch stock.
LEMMA ContinueStock ==
  ASSUME StockInv, InvoiceInv', NEW s \in Requests, Continue(s)
  PROVE  StockInv'
<1>1. CASE LockCart(s) \/ LockStock(s) \/ CheckCreate(s) \/ CheckMutate(s) \/ CheckShip(s)
  BY <1>1, ChecksStock
<1>2. CASE ConfirmPayment(s)
  BY <1>2, EndedStock DEF ConfirmPayment, rows, stockRows
<1>3. CASE CommitCreate(s) \/ CommitMutate(s) \/ CommitShip(s) \/ WriteCorrection(s)
  BY <1>3, CreateStock, MutateStock, ShipStock, WriteCorrectionStock
<1> QED BY <1>1, <1>2, <1>3 DEF Continue

\* Invoices that are closed by no request only give back what they reserved.
LEMMA ReleasedStock ==
  ASSUME StockInv, InvoiceInv', UNCHANGED <<session, item, onHand, ledger>>,
         \A i \in Invoices : reserved'[i] = reserved[i] \/ reserved'[i] = NoLines
  PROVE  StockInv'
<1>1. TypeOK /\ TypeOK'
  BY DEF StockInv, InvoiceInv
<1>2. ASSUME NEW p \in Products PROVE ReservedQuantity(p)' <= ReservedQuantity(p)
  <2>1. ASSUME NEW i \in Invoices PROVE reserved'[i][p] <= reserved[i][p]
    <3>1. reserved[i][p] \in Nat
      BY <1>1, LinesAreNat DEF TypeOK, RowsType
    <3> QED BY <3>1 DEF NoLines
  <2> QED BY <1>1, <2>1, ReservedShrinks
<1>3. StockKept({})
  BY <1>2 DEF StockKept
<1>4. NeverOversold => NeverOversold'
  <2>1. ASSUME NEW p \in Products, ReservedQuantity(p) <= onHand[p]
        PROVE  ReservedQuantity(p)' <= onHand'[p]
    <3>1. /\ ReservedQuantity(p) \in Nat /\ ReservedQuantity(p)' \in Nat
          /\ onHand[p] \in Nat /\ onHand'[p] = onHand[p]
      BY <1>1, ReservedQuantityType DEF TypeOK, RowsType
    <3> QED BY <1>2, <2>1, <3>1
  <2> QED BY <2>1 DEF NeverOversold
<1>5. StockMatchesLedger => StockMatchesLedger'
  BY DEF StockMatchesLedger
<1>6. \A r \in Requests : held[r] \cap {} = {}
  OBVIOUS
<1> QED BY <1>3, <1>4, <1>5, <1>6, OutsideStock

LEMMA CorrectAloneStock ==
  ASSUME StockInv, InvoiceInv', NEW p \in Products, NEW n \in 0..MaxStock, CorrectAlone(p, n)
  PROVE  StockInv'
<1>1. /\ StockFree(p) /\ n >= ReservedQuantity(p)
      /\ onHand' = [onHand EXCEPT ![p] = n]
      /\ ledger' = [ledger EXCEPT ![p] = ledger[p] + (n - onHand[p])]
      /\ UNCHANGED <<session, item, reserved>>
  BY DEF CorrectAlone
<1>2. onHand \in [Products -> Nat] /\ ledger \in [Products -> Int] /\ n \in Nat
  BY BoundsAssumption DEF StockInv, InvoiceInv, TypeOK, RowsType
<1>3. \A q : ReservedQuantity(q)' = ReservedQuantity(q)
  BY <1>1 DEF ReservedQuantity, ReservedUnits
<1>4. onHand'[p] = n /\ \A q \in Products \ {p} : onHand'[q] = onHand[q]
  BY <1>1, <1>2
<1>5. StockKept({p})
  BY <1>3, <1>4, ReservedQuantityType DEF StockKept
<1>6. NeverOversold => NeverOversold'
  <2>1. ASSUME NEW q \in Products, ReservedQuantity(q) <= onHand[q]
        PROVE  ReservedQuantity(q)' <= onHand'[q]
    <3>1. CASE q = p
      BY <1>1, <1>3, <1>4, <3>1
    <3>2. CASE q # p
      BY <1>3, <1>4, <2>1, <3>2
    <3> QED BY <3>1, <3>2
  <2> QED BY <2>1 DEF NeverOversold
<1>7. StockMatchesLedger => StockMatchesLedger'
  <2>1. ASSUME onHand = ledger PROVE onHand' = ledger'
    <3>1. ledger[p] + (n - onHand[p]) = n
      BY <1>2, <2>1
    <3> QED BY <1>1, <2>1, <3>1
  <2> QED BY <2>1 DEF StockMatchesLedger
<1>8. \A r \in Requests : held[r] \cap {p} = {}
  BY <1>1 DEF StockFree
<1>9. UNCHANGED <<session, item>>
  BY <1>1
<1> QED BY <1>5, <1>6, <1>7, <1>8, <1>9, OutsideStock

LEMMA StepStockInv == StockInv /\ [Next]_vars => StockInv'
<1> SUFFICES ASSUME StockInv, [Next]_vars PROVE StockInv'
  OBVIOUS
<1>0. InvoiceInv' /\ TypeOK
  BY StepInvoiceInv DEF StockInv, InvoiceInv
<1>1. CASE UNCHANGED vars
  BY <1>0, <1>1, QuietStock DEF vars, rows, stockRows
<1>2. CASE Customer
  BY <1>0, <1>2, QuietStock DEF Customer, PutInCart, RemoveFromCart, stockRows
<1>3. ASSUME NEW s \in Requests, Begin(s) PROVE StockInv'
  BY <1>0, <1>3, BeginStock
<1>4. ASSUME NEW s \in Requests, Continue(s) PROVE StockInv'
  BY <1>0, <1>4, ContinueStock
<1>5. ASSUME NEW s \in Requests, Rollback(s) PROVE StockInv'
  BY <1>0, <1>5, EndedStock DEF Rollback, rows, stockRows
<1>6. ASSUME NEW i \in Invoices, CancelInvoice(i) PROVE StockInv'
  <2>1. \A j \in Invoices : reserved'[j] = reserved[j] \/ reserved'[j] = NoLines
    BY <1>0, <1>6 DEF CancelInvoice, TypeOK, RowsType
  <2>2. UNCHANGED <<session, item, onHand, ledger>>
    BY <1>6 DEF CancelInvoice
  <2> QED BY <1>0, <2>1, <2>2, ReleasedStock
<1>7. ASSUME NEW i \in Invoices, ComeDue(i) PROVE StockInv'
  BY <1>0, <1>7, QuietStock DEF ComeDue, stockRows
<1>8. ASSUME NEW w \in Workers, ExpireJob(w) PROVE StockInv'
  <2>1. CASE StartExpire(w) \/ FailExpire(w)
    BY <1>0, <2>1, QuietStock DEF StartExpire, FailExpire, rows, stockRows
  <2>2. CASE CommitExpire(w)
    <3>1. \A j \in Invoices : reserved'[j] = reserved[j] \/ reserved'[j] = NoLines
      BY <2>2 DEF CommitExpire
    <3>2. UNCHANGED <<session, item, onHand, ledger>>
      BY <2>2 DEF CommitExpire
    <3> QED BY <1>0, <3>1, <3>2, ReleasedStock
  <2> QED BY <1>8, <2>1, <2>2 DEF ExpireJob
<1>9. ASSUME NEW p \in Products, NEW n \in 0..MaxStock, CorrectAlone(p, n) PROVE StockInv'
  BY <1>0, <1>9, CorrectAloneStock
<1> QED BY <1>1, <1>2, <1>3, <1>4, <1>5, <1>6, <1>7, <1>8, <1>9 DEF Next

LEMMA StockInvariant == Spec => []StockInv
<1> QED BY InitStockInv, StepStockInv, PTL DEF Spec

-----------------------------------------------------------------------------
(* The theorems.                                                           *)

\* What a transaction has checked - its invoice's status, the availability of what
\* it is about to reserve, the stock it is about to take - still holds when it
\* commits, whatever runs beside it and however corrections are made.
THEOREM ChecksHoldAtCommit == Spec => []ChecksStillHold
<1>1. StockInv => ChecksStillHold
  BY DEF StockInv, InvoiceInv, StockHolds, ChecksStillHold, StockStillHolds
<1> QED BY <1>1, StockInvariant, PTL

\* If nothing commits inside correct_inventory, open invoices never promise more
\* than is in stock.
THEOREM StockNeverOversold ==
  ASSUME ~CorrectionsOverlap
  PROVE  Spec => []NeverOversold
<1>1. StockInv => NeverOversold
  BY DEF StockInv
<1> QED BY <1>1, StockInvariant, PTL

\* On the same condition the stock on hand is what its movements add up to: neither
\* concurrent shipments nor rolled back ones lose or duplicate a movement.
THEOREM LedgerAddsUp ==
  ASSUME ~CorrectionsOverlap
  PROVE  Spec => []StockMatchesLedger
<1>1. StockInv => StockMatchesLedger
  BY DEF StockInv
<1> QED BY <1>1, StockInvariant, PTL

-----------------------------------------------------------------------------
(* Steps: the life of an invoice, and the abstract promise.                *)

LEMMA StepLifecycle == StockInv /\ [Next]_vars => [LifecycleStep]_vars
<1> SUFFICES ASSUME StockInv, Next PROVE LifecycleStep
  BY DEF LifecycleStep, vars, rows
<1>0. status \in [Invoices -> Status \union {"none"}] /\ item \in [Invoices -> Lines]
  BY DEF StockInv, InvoiceInv, TypeOK, RowsType
<1>1. CASE UNCHANGED <<status, item>>
  BY <1>1 DEF LifecycleStep
<1>2. CASE Customer
  BY <1>1, <1>2 DEF Customer, PutInCart, RemoveFromCart
<1>3. ASSUME NEW s \in Requests, Begin(s) \/ Rollback(s) PROVE LifecycleStep
  BY <1>1, <1>3
  DEF Begin, StartCreate, StartMutate, StartConfirm, StartShip, ReadForCorrection, Rollback, rows
<1>4. ASSUME NEW s \in Requests, Continue(s) PROVE LifecycleStep
  <2>1. CASE LockCart(s) \/ LockStock(s) \/ CheckCreate(s) \/ CheckMutate(s) \/ CheckShip(s)
    BY <1>1, <2>1 DEF LockCart, LockStock, CheckCreate, CheckMutate, CheckShip, rows
  <2>2. CASE CommitCreate(s)
    <3>1. CASE KeyUsed(key[s])
      BY <1>1, <2>2, <3>1 DEF CommitCreate, rows
    <3>2. CASE ~KeyUsed(key[s])
      <4>1. PICK i \in Invoices :
              /\ status[i] = "none" /\ status' = [status EXCEPT ![i] = "awaiting_payment"]
              /\ item' = [item EXCEPT ![i] = want[s]]
        BY <2>2, <3>2, CreateCommitted
      <4> QED BY <1>0, <4>1 DEF LifecycleStep
    <3> QED BY <3>1, <3>2
  <2>3. CASE CommitMutate(s)
    <3>1. /\ target[s] \in Invoices /\ status[target[s]] = "awaiting_payment"
          /\ item' = [item EXCEPT ![target[s]] = want[s]] /\ UNCHANGED status
      BY <2>3, MutateCommitted
    <3> QED BY <1>0, <3>1 DEF LifecycleStep
  <2>4. CASE ConfirmPayment(s)
    <3>1. CASE status[target[s]] = "awaiting_payment"
               /\ status' = [status EXCEPT ![target[s]] = "paid"] /\ UNCHANGED item
      BY <1>0, <3>1 DEF LifecycleStep
    <3> QED BY <1>1, <2>4, <3>1 DEF ConfirmPayment, rows
  <2>5. CASE CommitShip(s)
    <3>1. CASE UNCHANGED rows
      BY <1>1, <3>1 DEF rows
    <3>2. CASE ~UNCHANGED rows
      <4>1. /\ status[target[s]] = "paid" /\ status' = [status EXCEPT ![target[s]] = "shipped"]
            /\ UNCHANGED item
        BY <2>5, <3>2, ShipCommitted
      <4> QED BY <1>0, <4>1 DEF LifecycleStep
    <3> QED BY <3>1, <3>2
  <2>6. CASE WriteCorrection(s)
    BY <1>1, <2>6 DEF WriteCorrection
  <2> QED BY <1>4, <2>1, <2>2, <2>3, <2>4, <2>5, <2>6 DEF Continue
<1>5. ASSUME NEW i \in Invoices, CancelInvoice(i) \/ ComeDue(i) PROVE LifecycleStep
  BY <1>0, <1>5 DEF CancelInvoice, ComeDue, LifecycleStep
<1>6. ASSUME NEW w \in Workers, ExpireJob(w) PROVE LifecycleStep
  <2>1. CASE StartExpire(w) \/ FailExpire(w)
    BY <1>1, <2>1 DEF StartExpire, FailExpire, rows
  <2>2. CASE CommitExpire(w)
    <3>1. \A i \in batch[w] : status[i] = "awaiting_payment"
      BY DEF StockInv, InvoiceInv, StatusStillHolds
    <3> QED BY <1>0, <2>2, <3>1 DEF CommitExpire, Expiring, LifecycleStep
  <2> QED BY <1>6, <2>1, <2>2 DEF ExpireJob
<1>7. ASSUME NEW p \in Products, NEW n \in 0..MaxStock, CorrectAlone(p, n) PROVE LifecycleStep
  BY <1>1, <1>7 DEF CorrectAlone
<1> QED BY <1>2, <1>3, <1>4, <1>5, <1>6, <1>7 DEF Next

\* No interleaving of payments, shipments, edits, cancellations and expiry jobs
\* takes an invoice along a transition the code does not name, or changes the
\* lines of one that is no longer awaiting payment.
THEOREM InvoicesFollowLifecycle == Spec => Lifecycle
<1> QED BY StockInvariant, StepLifecycle, PTL DEF Spec, Lifecycle

\* The abstract promise in the terms of InvoiceStock.
phases == [i \in Invoices |-> PhaseOf(status[i])]

LEMMA PromiseTerms ==
  /\ Promise!Promises = Lines /\ Promise!Nothing = NoLines
  /\ \A p : Promise!Promised(p) = ReservedQuantity(p)
<1>1. \A S : Promise!Cardinality(S) = Cardinality(S)
  BY DEF Promise!Cardinality, Cardinality
<1>2. \A p : Promise!PromisedUnits(p) = ReservedUnits(p)
  BY DEF Promise!PromisedUnits, ReservedUnits
<1>3. \A p : Promise!Promised(p) = ReservedQuantity(p)
  BY <1>1, <1>2 DEF Promise!Promised, ReservedQuantity
<1> QED BY <1>3 DEF Promise!Promises, Promise!Nothing, Lines, NoLines

LEMMA InitPromise == Init => Promise!PromiseInit
BY PromiseTerms DEF Init, Promise!PromiseInit, PhaseOf, NoLines

\* A step that changes neither statuses, reservations nor stock is none of StockPromise.
LEMMA PromiseStutter ==
  ASSUME UNCHANGED <<status, reserved, onHand>>
  PROVE  [Promise!PromiseNext]_(Promise!pvars)
BY DEF Promise!pvars

LEMMA CreateOpens ==
  ASSUME StockInv, NEW s \in Requests, CommitCreate(s), ~KeyUsed(key[s])
  PROVE  Promise!PromiseNext
<1>1. PICK i \in Invoices :
        /\ status[i] = "none" /\ reserved[i] = NoLines /\ want[s] \in Lines
        /\ status' = [status EXCEPT ![i] = "awaiting_payment"]
        /\ reserved' = [reserved EXCEPT ![i] = want[s]]
        /\ UNCHANGED onHand
        /\ \A p \in Products : want[s][p] > 0 => want[s][p] <= Available(p)
  BY CreateCommitted
<1>2. \A p \in Products : reserved[i][p] = 0 /\ want[s][p] \in Nat
  BY <1>1, LinesAreNat DEF NoLines
<1>3. status \in [Invoices -> Status \union {"none"}]
  BY DEF StockInv, InvoiceInv, TypeOK, RowsType
<1>4. \A p \in Products : want[s][p] > reserved[i][p] =>
        want[s][p] - reserved[i][p] <= onHand[p] - Promise!Promised(p)
  BY <1>1, <1>2, PromiseTerms DEF Available
<1>5. phases[i] = "unused" /\ phases' = [phases EXCEPT ![i] = "open"]
  BY <1>1, <1>3 DEF phases, PhaseOf
<1>6. Promise!Open(i, want[s])
  BY <1>1, <1>4, <1>5 DEF Promise!Open, Promise!Repromise, phases
<1> QED BY <1>1, <1>6, PromiseTerms DEF Promise!PromiseNext

LEMMA MutateChanges ==
  ASSUME StockInv, NEW s \in Requests, CommitMutate(s)
  PROVE  Promise!PromiseNext
<1> DEFINE i == target[s]
<1>1. /\ i \in Invoices /\ want[s] \in Lines /\ status[i] = "awaiting_payment"
      /\ reserved' = [reserved EXCEPT ![i] = want[s]] /\ UNCHANGED <<status, onHand>>
      /\ \A p \in Products : want[s][p] > reserved[i][p] => want[s][p] - reserved[i][p] <= Available(p)
  BY MutateCommitted
<1> HIDE DEF i
<1>2. \A p \in Products : want[s][p] > reserved[i][p] =>
        want[s][p] - reserved[i][p] <= onHand[p] - Promise!Promised(p)
  BY <1>1, PromiseTerms DEF Available
<1>3. phases[i] = "open" /\ phases' = phases
  BY <1>1 DEF phases, PhaseOf
<1>4. Promise!Change(i, want[s])
  BY <1>1, <1>2, <1>3 DEF Promise!Change, Promise!Repromise, phases
<1> QED BY <1>1, <1>4, PromiseTerms DEF Promise!PromiseNext

LEMMA ConfirmPays ==
  ASSUME StockInv, NEW s \in Requests, ConfirmPayment(s), ~UNCHANGED rows
  PROVE  Promise!PromiseNext
<1> DEFINE i == target[s]
<1>1. /\ i \in Invoices /\ status[i] = "awaiting_payment"
      /\ status' = [status EXCEPT ![i] = "paid"] /\ UNCHANGED <<reserved, onHand>>
  BY DEF ConfirmPayment, StockInv, InvoiceInv, TypeOK, SessionType, OnInvoice
<1>2. status \in [Invoices -> Status \union {"none"}]
  BY DEF StockInv, InvoiceInv, TypeOK, RowsType
<1> HIDE DEF i
<1>3. phases[i] = "open" /\ phases' = [phases EXCEPT ![i] = "paid"]
  BY <1>1, <1>2 DEF phases, PhaseOf
<1>4. Promise!Pay(i)
  BY <1>1, <1>3 DEF Promise!Pay, phases
<1> QED BY <1>1, <1>4 DEF Promise!PromiseNext

LEMMA ShipShips ==
  ASSUME StockInv, NEW s \in Requests, CommitShip(s), ~UNCHANGED rows
  PROVE  Promise!PromiseNext
<1> DEFINE i == target[s]
<1>1. /\ i \in Invoices /\ status[i] = "paid" /\ reserved[i] = item[i]
      /\ \A p \in LinesOf(item[i]) : onHand[p] >= item[i][p]
      /\ status' = [status EXCEPT ![i] = "shipped"]
      /\ reserved' = [reserved EXCEPT ![i] = NoLines]
      /\ onHand' = [p \in Products |-> onHand[p] - item[i][p]]
  BY ShipCommitted
<1>2. /\ status \in [Invoices -> Status \union {"none"}] /\ onHand \in [Products -> Nat]
      /\ \A p \in Products : item[i][p] \in Nat
  BY <1>1, LinesAreNat DEF StockInv, InvoiceInv, TypeOK, RowsType
<1> HIDE DEF i
<1>3. phases[i] = "paid" /\ phases' = [phases EXCEPT ![i] = "shipped"]
  BY <1>1, <1>2 DEF phases, PhaseOf
<1>4. \A p \in Products : reserved[i][p] <= onHand[p]
  BY <1>1, <1>2 DEF LinesOf
<1>5. Promise!Ship(i)
  BY <1>1, <1>3, <1>4, PromiseTerms DEF Promise!Ship, phases
<1> QED BY <1>1, <1>5 DEF Promise!PromiseNext

\* Cancellation releases one promise, an expiry job a batch of them.
LEMMA CloseReleases ==
  ASSUME TypeOK, NEW I \in SUBSET Invoices, I # {}, NEW st \in {"canceled", "expired"},
         \A i \in I : status[i] = "awaiting_payment",
         status' = [i \in Invoices |-> IF i \in I THEN st ELSE status[i]],
         reserved' = [i \in Invoices |-> IF i \in I THEN NoLines ELSE reserved[i]],
         UNCHANGED onHand
  PROVE  Promise!PromiseNext
<1>1. \A i \in I : phases[i] = "open"
  BY DEF phases, PhaseOf
<1>2. phases' = [i \in Invoices |-> IF i \in I THEN "released" ELSE phases[i]]
  BY DEF phases, PhaseOf
<1>3. Promise!Release(I)
  BY <1>1, <1>2, PromiseTerms DEF Promise!Release, phases
<1> QED BY <1>3 DEF Promise!PromiseNext

LEMMA CorrectionRestocks ==
  ASSUME NEW p \in Products, NEW n \in 0..MaxStock, CorrectAlone(p, n)
  PROVE  Promise!PromiseNext
<1>1. Promise!Restock(p, n)
  BY PromiseTerms DEF CorrectAlone, Promise!Restock
<1> QED BY <1>1 DEF Promise!PromiseNext

LEMMA StepPromise ==
  ASSUME ~CorrectionsOverlap
  PROVE  StockInv /\ [Next]_vars => [Promise!PromiseNext]_(Promise!pvars)
<1> SUFFICES ASSUME StockInv, [Next]_vars PROVE [Promise!PromiseNext]_(Promise!pvars)
  OBVIOUS
<1>0. TypeOK /\ status \in [Invoices -> Status \union {"none"}]
      /\ reserved \in [Invoices -> Lines]
  BY DEF StockInv, InvoiceInv, TypeOK, RowsType
<1>1. CASE UNCHANGED <<status, reserved, onHand>>
  BY <1>1, PromiseStutter
<1>2. CASE UNCHANGED vars \/ Customer
  BY <1>1, <1>2 DEF vars, rows, Customer, PutInCart, RemoveFromCart
<1>3. ASSUME NEW s \in Requests, Begin(s) \/ Rollback(s) PROVE UNCHANGED <<status, reserved, onHand>>
  BY <1>3 DEF Begin, StartCreate, StartMutate, StartConfirm, StartShip, ReadForCorrection,
     Rollback, rows
<1>4. ASSUME NEW s \in Requests, Continue(s)
      PROVE  UNCHANGED <<status, reserved, onHand>> \/ Promise!PromiseNext
  <2>1. CASE UNCHANGED rows
    BY <2>1 DEF rows
  <2>2. CASE ~UNCHANGED rows
    <3>1. CASE LockCart(s) \/ LockStock(s) \/ CheckCreate(s) \/ CheckMutate(s) \/ CheckShip(s)
      BY <2>2, <3>1 DEF LockCart, LockStock, CheckCreate, CheckMutate, CheckShip
    <3>2. CASE CommitCreate(s)
      BY <2>2, <3>2, CreateOpens DEF CommitCreate
    <3>3. CASE CommitMutate(s) \/ ConfirmPayment(s) \/ CommitShip(s)
      BY <2>2, <3>3, MutateChanges, ConfirmPays, ShipShips
    <3>4. CASE WriteCorrection(s)
      BY <3>4 DEF WriteCorrection, StockInv, NoCorrection
    <3> QED BY <1>4, <3>1, <3>2, <3>3, <3>4 DEF Continue
  <2> QED BY <2>1, <2>2
<1>5. ASSUME NEW i \in Invoices, CancelInvoice(i) PROVE Promise!PromiseNext
  <2>1. /\ status' = [j \in Invoices |-> IF j \in {i} THEN "canceled" ELSE status[j]]
        /\ reserved' = [j \in Invoices |-> IF j \in {i} THEN NoLines ELSE reserved[j]]
    BY <1>0, <1>5 DEF CancelInvoice
  <2>2. status[i] = "awaiting_payment" /\ UNCHANGED onHand
    BY <1>5 DEF CancelInvoice
  <2> DEFINE I == {i}
  <2>3. I \in SUBSET Invoices /\ I # {} /\ \A j \in I : status[j] = "awaiting_payment"
    BY <2>2
  <2>4. /\ status' = [j \in Invoices |-> IF j \in I THEN "canceled" ELSE status[j]]
        /\ reserved' = [j \in Invoices |-> IF j \in I THEN NoLines ELSE reserved[j]]
    BY <2>1
  <2> HIDE DEF I
  <2> QED BY <1>0, <2>2, <2>3, <2>4, CloseReleases
<1>6. ASSUME NEW i \in Invoices, ComeDue(i) PROVE UNCHANGED <<status, reserved, onHand>>
  BY <1>6 DEF ComeDue
<1>7. ASSUME NEW w \in Workers, ExpireJob(w)
      PROVE  UNCHANGED <<status, reserved, onHand>> \/ Promise!PromiseNext
  <2>1. CASE StartExpire(w) \/ FailExpire(w)
    BY <2>1 DEF StartExpire, FailExpire, rows
  <2>2. CASE CommitExpire(w)
    <3>1. /\ Expiring(w) \in SUBSET Invoices
          /\ \A i \in Expiring(w) : status[i] = "awaiting_payment"
          /\ UNCHANGED onHand
      BY <1>0, <2>2 DEF CommitExpire, Expiring, TypeOK, StockInv, InvoiceInv, StatusStillHolds
    <3>2. /\ status' = [i \in Invoices |-> IF i \in Expiring(w) THEN "expired" ELSE status[i]]
          /\ reserved' = [i \in Invoices |-> IF i \in Expiring(w) THEN NoLines ELSE reserved[i]]
      BY <2>2 DEF CommitExpire
    <3>3. CASE Expiring(w) = {}
      BY <1>0, <3>1, <3>2, <3>3
    <3> QED BY <1>0, <3>1, <3>2, <3>3, CloseReleases
  <2> QED BY <1>7, <2>1, <2>2 DEF ExpireJob
<1>8. ASSUME NEW p \in Products, NEW n \in 0..MaxStock, CorrectAlone(p, n) PROVE Promise!PromiseNext
  BY <1>8, CorrectionRestocks
<1> QED BY <1>1, <1>2, <1>3, <1>4, <1>5, <1>6, <1>7, <1>8 DEF Next

\* Refinement: if nothing commits inside correct_inventory, the requests and jobs,
\* interleaved lock by lock, act on reservations and stock as if one after the other.
THEOREM ImplementsPromise ==
  ASSUME ~CorrectionsOverlap
  PROVE  Spec => KeepsPromises
<1>1. StockInv /\ [Next]_vars => [Promise!PromiseNext]_(Promise!pvars)
  BY StepPromise
<1> QED BY <1>1, InitPromise, StockInvariant, PTL DEF Spec, KeepsPromises, Promise!PromiseSpec

=============================================================================
