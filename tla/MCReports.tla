----------------------------- MODULE MCReports -----------------------------
(* Instances of SupportTickets, RapiraRates and FinanceReports for TLC.    *)
(* The three share no table, so a behaviour runs one of them while the     *)
(* others stand still.                                                     *)
EXTENDS SupportTickets, RapiraRates, FinanceReports, TLC

CONSTANTS i1, i2, i3, p1, p2

\* What is looked at; "done" after a report, as the next one starts from nothing.
VARIABLE page

vars == <<supportVars, rateVars, financeVars, page>>

\* Hundredths; 9014 comes in thousandths from Rapira and is stored as 9010.
Rounded == [q \in Quotes |-> IF q = 9014 THEN 9010 ELSE q]

Two == [i \in Invoices |-> IF i = i3 THEN "acme" ELSE "orbit"]
Goods == [i \in Invoices |-> IF i = i1 THEN p1 ELSE p2]
Amounts == [i \in Invoices |-> CASE i = i1 -> 50 [] i = i2 -> 30 [] i = i3 -> 100]
Units == [i \in Invoices |-> CASE i = i1 -> 5 [] i = i2 -> 1 [] i = i3 -> 2]

Init ==
  /\ page \in {"support", "rates", "finance"}
  /\ SupportInit /\ RateInit /\ FinanceInit
  /\ page # "support" => active = {}

Next ==
  \/ page = "support" /\ SupportNext /\ UNCHANGED <<rateVars, financeVars, page>>
  \/ page = "rates" /\ RateNext /\ UNCHANGED <<supportVars, financeVars, page>>
  \/ /\ page = "finance"
     /\ FinanceNext
     /\ page' = IF ~Complete /\ report'.done = Len(Parts) THEN "done" ELSE page
     /\ UNCHANGED <<supportVars, rateVars>>

Spec == Init /\ [][Next]_vars

Symmetry ==
  Permutations(Requests) \union Permutations(Tickets) \union Permutations(Companies)
    \union Permutations(Admins) \union Permutations(Syncs)
=============================================================================
