--------------------------- MODULE MCCompanyAccess ---------------------------
(* Values and symmetry for the runs of CompanyAccess.                      *)
EXTENDS CompanyAccess, TLC

\* The logins are spellings of one name in different case.
LowerCase == [l \in Logins |-> CHOOSE m \in Logins : TRUE]

\* Ids, tax numbers, hashes, tokens and request slots are interchangeable.
Symmetry ==
  Permutations(Companies) \union Permutations(Inns) \union Permutations(Hashes)
    \union Permutations(Tokens) \union Permutations(Requests)
=============================================================================
