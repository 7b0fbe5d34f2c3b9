---------------------------- MODULE MCInvoiceStock ----------------------------
(* Model values and symmetry for the runs of InvoiceStock.                 *)
EXTENDS InvoiceStock, TLC

\* Buyers, invoice ids, keys and request slots are interchangeable.
Symmetry ==
  Permutations(Companies) \union Permutations(Invoices)
    \union Permutations(Keys) \union Permutations(Requests)
=============================================================================
