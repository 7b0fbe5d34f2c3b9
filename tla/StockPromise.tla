----------------------------- MODULE StockPromise -----------------------------
(***************************************************************************)
(* What invoicing promises about stock, with no locks, carts, requests or  *)
(* jobs: an invoice promises units of products, a promise is only made of  *)
(* units no other invoice has been promised, and it ends by being kept     *)
(* (shipped, out of stock) or released. InvoiceStock implements it.        *)
(***************************************************************************)
EXTENDS Integers, FiniteSets

CONSTANTS Products, Invoices, MaxQty, MaxStock

VARIABLES
  phase,     \* how far each invoice has got
  promised,  \* units promised by invoice and product
  stock      \* units in stock by product

pvars == <<phase, promised, stock>>

Promises == [Products -> 0..MaxQty]
Nothing == [p \in Products |-> 0]

PromiseTypeOK ==
  /\ phase \in [Invoices -> {"unused", "open", "paid", "shipped", "released"}]
  /\ promised \in [Invoices -> Promises]
  /\ stock \in [Products -> Nat]

\* The promised units of product p, and how many they are.
PromisedUnits(p) ==
  {u \in Invoices \X (1..MaxQty) : u[2] <= promised[u[1]][p]}
Promised(p) == Cardinality(PromisedUnits(p))

\* Every promise can be kept from stock.
Covered == \A p \in Products : Promised(p) <= stock[p]

-----------------------------------------------------------------------------

PromiseInit ==
  /\ phase = [i \in Invoices |-> "unused"]
  /\ promised = [i \in Invoices |-> Nothing]
  /\ stock = Nothing

\* Invoice i now promises q instead of what it did; what it promises more of
\* has to be in stock and free.
Repromise(i, q) ==
  /\ \A p \in Products :
       q[p] > promised[i][p] => q[p] - promised[i][p] <= stock[p] - Promised(p)
  /\ promised' = [promised EXCEPT ![i] = q]
  /\ UNCHANGED stock

Open(i, q) ==
  /\ phase[i] = "unused"
  /\ phase' = [phase EXCEPT ![i] = "open"]
  /\ Repromise(i, q)

Change(i, q) ==
  /\ phase[i] = "open"
  /\ Repromise(i, q)
  /\ UNCHANGED phase

Pay(i) ==
  /\ phase[i] = "open"
  /\ phase' = [phase EXCEPT ![i] = "paid"]
  /\ UNCHANGED <<promised, stock>>

\* The promises of some open invoices, one or a batch, are given up at once.
Release(I) ==
  /\ \A i \in I : phase[i] = "open"
  /\ phase' = [i \in Invoices |-> IF i \in I THEN "released" ELSE phase[i]]
  /\ promised' = [i \in Invoices |-> IF i \in I THEN Nothing ELSE promised[i]]
  /\ UNCHANGED stock

Ship(i) ==
  /\ phase[i] = "paid"
  /\ \A p \in Products : promised[i][p] <= stock[p]
  /\ phase' = [phase EXCEPT ![i] = "shipped"]
  /\ promised' = [promised EXCEPT ![i] = Nothing]
  /\ stock' = [p \in Products |-> stock[p] - promised[i][p]]

\* The stock of p is set to n, never below what is promised.
Restock(p, n) ==
  /\ n >= Promised(p)
  /\ stock' = [stock EXCEPT ![p] = n]
  /\ UNCHANGED <<phase, promised>>

PromiseNext ==
  \/ \E i \in Invoices, q \in Promises : Open(i, q) \/ Change(i, q)
  \/ \E i \in Invoices : Pay(i) \/ Ship(i)
  \/ \E I \in (SUBSET Invoices) \ {{}} : Release(I)
  \/ \E p \in Products, n \in 0..MaxStock : Restock(p, n)

PromiseSpec == PromiseInit /\ [][PromiseNext]_pvars
=============================================================================
