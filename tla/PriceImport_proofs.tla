-------------------------- MODULE PriceImport_proofs --------------------------
(***************************************************************************)
(* What a price list import leaves in the catalogue, and that its preview  *)
(* foretells it, for any files, tables and numbers of imports and requests *)
(* that overlap.                                                           *)
(*                                                                         *)
(* The argument is about the products a row is looked up by (Candidates):  *)
(* writing one row changes the candidates of no row that stands for        *)
(* another product (CandidatesKept), so what was found for a row, what was *)
(* left for it and what the preview said of it stay true while the import  *)
(* is alone (Faithful).                                                    *)
(***************************************************************************)
EXTENDS Catalog_table_proofs

\* The products a row is looked up by, when one brand at most has its brand's name.
Candidates(row) ==
  {p \in Products :
     /\ Live(p)
     /\ SqlText[products[p].name] = MatchText[row.name]
     /\ products[p].brand # None /\ brands[products[p].brand].name = row.brand
     /\ products[p].year = row.year}

\* Category c is the one that a price list means by label.
Labelled(c, label) ==
  /\ label \in ValidCategories
  /\ c \in Categories /\ categories[c] # None
  /\ categories[c].name = label /\ categories[c].slug = ImportSlug(label)

\* Product p has what an import writes from row, but for the name and the brand.
Agrees(p, row) ==
  /\ products[p].sale = row.sale /\ products[p].status = row.status
  /\ Labelled(products[p].category, row.category)

\* It has the name, the brand and the year, too.
Carries(p, row) ==
  /\ Live(p)
  /\ products[p].name = row.name /\ products[p].year = row.year
  /\ products[p].brand # None /\ brands[products[p].brand].name = row.brand

LeftAs(row) ==
  \E p \in Products : Candidates(row) = {p} /\ Agrees(p, row) /\ onHand[p] = row.stock

\* Row k of import m stands for no product of an earlier row, of no later row.
First(m, k) == \A j \in 1..k - 1 : ~SameKey(m.rows[k], m.rows[j])
Final(m, k) == \A j \in k + 1..Len(m.rows) : ~SameKey(m.rows[k], m.rows[j])

Plain(row) == SqlText[row.name] = MatchText[row.name]

Unwritten == {"lookup", "create", "update"}
Created == {"created", "create-photo"}
Changing == {"updated", "update-photo"}
Outcomes == {"create", "update", "error"}

-----------------------------------------------------------------------------
(* What is true of an import, m.                                           *)

\* Whatever else happens: categories in its session carry labels of price lists.
DraftOK(draft) ==
  \A c \in DOMAIN draft :
    draft[c].name \in ValidCategories /\ draft[c].slug = ImportSlug(draft[c].name)

Steady(m) ==
  /\ m.stage \in {"idle"} \union Unwritten \union Created \union Changing
  /\ m.results \in Seq(Outcomes) /\ Len(m.results) = m.row - 1
  /\ DraftOK(m.draft)
  /\ m.stage \notin {"idle", "lookup"} => m.row \in DOMAIN m.rows /\ Valid(Row(m))
  /\ m.stage \in Created \union Changing => m.target \in Products
  /\ m.quiet => m.alone

\* The category a row was given, as the session of the import sees it.
CategoryRead(m) ==
  LET c == m.category
      label == Row(m).category
  IN IF c \in DOMAIN m.draft
     THEN m.draft[c].name = label /\ m.draft[c].slug = ImportSlug(label)
     ELSE Labelled(c, label)

\* While nobody else commits, what was read of the current row is still so, ...
AtWork(m) ==
  /\ m.stage = "create" =>
       /\ CategoryRead(m)
       /\ IF m.brand = None THEN BrandNamed(Row(m).brand) = {}
                            ELSE /\ m.brand \in BrandNamed(Row(m).brand)
                                 /\ Matches(Row(m), m.brand) = {}
  /\ m.stage = "update" =>
       /\ CategoryRead(m)
       /\ m.brand \in BrandNamed(Row(m).brand)
       /\ Matches(Row(m), m.brand) = {m.target}
       /\ m.seen = products[m.target]
  /\ m.stage \in Created \union Changing =>
       /\ Carries(m.target, Row(m)) /\ Agrees(m.target, Row(m))
       /\ Plain(Row(m)) /\ ~HasTwin(Row(m).brand) => Candidates(Row(m)) = {m.target}
  /\ m.stage = "created" => m.target \notin reserved
  /\ m.stage \in {"create-photo", "update-photo"} => onHand[m.target] = Row(m).stock

\* ... and the rows that are done have left what they should.
Counts(m, k) == m.results[k] \in {"create", "update"} /\ Final(m, k) /\ Plain(m.rows[k])

Left(m) ==
  \A k \in 1..Len(m.rows) :
    k < m.row /\ Counts(m, k) /\ ~HasTwin(m.rows[k].brand) => LeftAs(m.rows[k])

\* What the preview said of a row that is still to come, ...
Foretold(row, forecast) ==
  /\ forecast \in {"error", "create", "skip", "update"}
  /\ forecast = "error" => ~Valid(row) \/ Cardinality(Candidates(row)) > 1
  /\ forecast = "create" => Valid(row) /\ Candidates(row) = {}
  /\ forecast \in {"skip", "update"} => Valid(row) /\ \E p \in Products : Candidates(row) = {p}

\* ... and of one that is done.
CameTrue(row, forecast, result) ==
  \/ result = forecast
  \/ forecast = "skip" /\ result = "update"
  \/ /\ forecast \in {"skip", "update"} /\ result = "error"
     /\ \E p \in ProductsLike(row) : row.stock < ReservedOf(p)
  \/ /\ forecast # "error" /\ result = "error"
     /\ row.image = "refused" /\ ProductsLike(row) # {}

Foreseen(m) ==
  \A k \in 1..Len(m.rows) : First(m, k) /\ ~HasTwin(m.rows[k].brand) =>
    /\ k < m.row => CameTrue(m.rows[k], m.forecast[k], m.results[k])
    /\ k = m.row =>
         /\ m.stage = "lookup" => Foretold(m.rows[k], m.forecast[k])
         /\ m.stage \in {"create"} \union Created => m.forecast[k] = "create"
         /\ m.stage \in {"update"} \union Changing => m.forecast[k] \in {"skip", "update"}
    /\ k > m.row => Foretold(m.rows[k], m.forecast[k])

Faithful(m) ==
  /\ Steady(m)
  /\ m.alone => AtWork(m) /\ Left(m)
  /\ m.quiet => Foreseen(m)

\* The same of a file that is not confirmed yet.
Announced(file) ==
  file # None =>
    /\ "quiet" \in DOMAIN file
    /\ file.quiet => \A k \in DOMAIN file.rows :
         ~HasTwin(file.rows[k].brand) => Foretold(file.rows[k], file.forecast[k])

ReservedExist == \A p \in Products : p \in reserved => Exists(p)

AllFaithful ==
  /\ \A i \in Importers : Faithful(imports[i])
  /\ \A t \in Tokens : Announced(staged[t])

ImportInv == TableInv /\ ReservedExist /\ AllFaithful

-----------------------------------------------------------------------------
(* Looking a row up.                                                       *)

\* A product of the table, and what it refers to.
LEMMA ProductFacts ==
  ASSUME TableInv, NEW p \in Products, Exists(p)
  PROVE  /\ products[p] \in ProductRows /\ products[p].name \in Names
         /\ products[p].brand # None =>
              products[p].brand \in Brands /\ brands[products[p].brand] # None
         /\ products[p].category # None =>
              products[p].category \in Categories /\ categories[products[p].category] # None
<1>1. products[p] \in ProductRows /\ KeysExist(products[p], brands, categories)
  BY DEF TableInv, Inv, CatalogInv, ProductsOK, TablesOK, Referring, Exists
<1> QED
  BY <1>1 DEF ProductRows, KeysExist

LEMMA OneBrand ==
  ASSUME NEW n, ~HasTwin(n), NEW a \in BrandNamed(n), NEW b \in BrandNamed(n)
  PROVE  a = b
<1>1. IsFiniteSet(BrandNamed(n))
  BY TableAssumption, FS_Subset DEF BrandNamed
<1>2. SUFFICES ASSUME a # b PROVE FALSE
  OBVIOUS
<1>3. Cardinality({a, b}) = 2
  <2>1. IsFiniteSet({a}) /\ Cardinality({a}) = 1
    BY FS_Singleton
  <2>2. Cardinality({a} \cup {b}) = Cardinality({a}) + 1
    <3>1. b \notin {a}
      BY <1>2
    <3>2. Cardinality({a} \cup {b}) =
            IF b \in {a} THEN Cardinality({a}) ELSE Cardinality({a}) + 1
      BY <2>1, FS_AddElement
    <3> QED
      BY <3>1, <3>2
  <2>3. {a} \cup {b} = {a, b}
    OBVIOUS
  <2> QED
    BY <2>1, <2>2, <2>3
<1>4. {a, b} \subseteq BrandNamed(n)
  OBVIOUS
<1>5. Cardinality({a, b}) <= Cardinality(BrandNamed(n)) /\ Cardinality(BrandNamed(n)) \in Nat
  BY <1>1, <1>4, FS_Subset, FS_CardinalityType
<1> QED
  BY <1>3, <1>5 DEF HasTwin

\* Whichever brand of the name is taken, the candidates are found.
LEMMA FoundByBrand ==
  ASSUME TableInv, NEW row, ~HasTwin(row.brand), NEW b \in BrandsFor(row.brand)
  PROVE  /\ b = None => Candidates(row) = {}
         /\ b # None => b \in BrandNamed(row.brand) /\ Matches(row, b) = Candidates(row)
<1>1. ASSUME NEW p \in Candidates(row) PROVE products[p].brand \in BrandNamed(row.brand)
  <2>1. p \in Products /\ Exists(p) /\ products[p].brand # None
        /\ brands[products[p].brand].name = row.brand
    BY <1>1 DEF Candidates, Live
  <2> QED
    BY <2>1, ProductFacts DEF BrandNamed
<1>2. None \notin Brands
  BY NullAssumption
<1>3. CASE BrandNamed(row.brand) = {}
  BY <1>1, <1>3 DEF BrandsFor
<1>4. CASE BrandNamed(row.brand) # {}
  <2>1. b \in BrandNamed(row.brand) /\ b # None
    BY <1>2, <1>4 DEF BrandsFor, BrandNamed
  <2>2. Candidates(row) \subseteq Matches(row, b)
    <3>1. SUFFICES ASSUME NEW p \in Candidates(row) PROVE p \in Matches(row, b)
      OBVIOUS
    <3>2. products[p].brand = b
      BY <1>1, <2>1, OneBrand
    <3> QED
      BY <3>2 DEF Candidates, Matches
  <2>3. Matches(row, b) \subseteq Candidates(row)
    BY <2>1 DEF Candidates, Matches, BrandNamed
  <2> QED
    BY <2>1, <2>2, <2>3
<1> QED
  BY <1>3, <1>4

\* A lookup finds nothing, one product or several.
LEMMA Several ==
  ASSUME NEW S \in SUBSET Products
  PROVE  /\ ~(Cardinality(S) > 1) => S = {} \/ \E p \in Products : S = {p}
         /\ Cardinality(S) > 1 => S # {} /\ \A p \in Products : S # {p}
<1>1. IsFiniteSet(S) /\ Cardinality(S) \in Nat
  BY TableAssumption, FS_Subset, FS_CardinalityType
<1>2. ASSUME ~(Cardinality(S) > 1), S # {} PROVE \E p \in Products : S = {p}
  <2>1. Cardinality(S) = 0 \/ Cardinality(S) = 1
    BY <1>1, <1>2
  <2>2. Cardinality(S) # 0
    BY <1>1, <1>2, FS_EmptySet
  <2> QED
    BY <1>1, <2>1, <2>2, FS_Singleton
<1>3. Cardinality({}) = 0 /\ \A p \in Products : Cardinality({p}) = 1
  BY FS_EmptySet, FS_Singleton
<1> QED
  BY <1>2, <1>3

LEMMA LikeMeans ==
  ASSUME TableInv, NEW row, NEW p \in Products
  PROVE  p \in ProductsLike(row) <=>
           /\ Live(p) /\ products[p].brand # None
           /\ MatchText[products[p].name] = MatchText[row.name]
           /\ brands[products[p].brand].name = row.brand /\ products[p].year = row.year
<1>1. ASSUME Exists(p)
      PROVE  LET key == [products[p] EXCEPT !.brand = brands[@].name]
             IN /\ key.name = products[p].name /\ key.year = products[p].year
                /\ key.brand = brands[products[p].brand].name
  BY <1>1, ProductFacts DEF ProductRows
<1> QED
  BY <1>1 DEF ProductsLike, SameKey, Live

LEMMA CandidatesAlike ==
  ASSUME TableInv, NEW row, row.name \in Names PROVE Candidates(row) \subseteq ProductsLike(row)
<1>1. SUFFICES ASSUME NEW p \in Candidates(row) PROVE p \in ProductsLike(row)
  OBVIOUS
<1>2. /\ p \in Products /\ Live(p) /\ products[p].brand # None
      /\ SqlText[products[p].name] = MatchText[row.name]
      /\ brands[products[p].brand].name = row.brand /\ products[p].year = row.year
  BY DEF Candidates
<1>3. products[p].name \in Names
  BY <1>2, ProductFacts DEF Live
<1>4. MatchText[products[p].name] = MatchText[row.name]
  BY <1>2, <1>3, TextAssumption
<1> QED
  BY <1>2, <1>4, LikeMeans

-----------------------------------------------------------------------------
(* An import writes a row.                                                 *)

\* Row is committed to product t, which was new or a candidate.
RowWritten(t, row) ==
  /\ t \in Products
  /\ \A q \in Products \ {t} : products'[q] = products[q]
  /\ Carries(t, row)' /\ Agrees(t, row)'
  /\ Exists(t) => t \in Candidates(row)
  /\ \A b \in Brands : brands[b] # None => brands'[b] = brands[b]
  /\ \A n : HasTwin(n) => HasTwin(n)'
  /\ UNCHANGED <<onHand, reserved>>
  /\ \A c, label : Labelled(c, label) => Labelled(c, label)'

\* A product that carries one row is no candidate of another.
LEMMA CandidatesApart ==
  ASSUME TableInv, NEW row, row.name \in Names, NEW other, other.name \in Names,
         ~SameKey(row, other), NEW p \in Products,
         Carries(p, other) \/ p \in Candidates(other) \/ p \in ProductsLike(other)
  PROVE  p \notin Candidates(row)
<1>1. SUFFICES ASSUME p \in Candidates(row) PROVE FALSE
  OBVIOUS
<1>2. p \in ProductsLike(row)
  BY <1>1, CandidatesAlike
<1>3. CASE p \in ProductsLike(other)
  BY <1>2, <1>3, LikeMeans DEF SameKey
<1>4. CASE Carries(p, other)
  BY <1>2, <1>4, LikeMeans DEF SameKey, Carries
<1> QED
  BY <1>3, <1>4, CandidatesAlike

\* Whoever is no candidate before is none after, and the other way round.
LEMMA CandidatesKept ==
  ASSUME TableInv, NEW t, NEW row, row.name \in Names, RowWritten(t, row),
         NEW other, other.name \in Names, ~SameKey(row, other)
  PROVE  Candidates(other)' = Candidates(other) /\ t \notin Candidates(other)
<1>1. t \notin Candidates(other)
  <2>1. SUFFICES ASSUME t \in Candidates(other) PROVE FALSE
    OBVIOUS
  <2>2. t \in Products /\ t \in Candidates(row)
    BY <2>1 DEF RowWritten, Candidates, Live
  <2> QED
    BY <2>1, <2>2, CandidatesApart
<1>2. t \notin Candidates(other)'
  <2>1. SUFFICES ASSUME t \in Candidates(other)' PROVE FALSE
    OBVIOUS
  <2>2. Carries(t, row)'
    BY DEF RowWritten
  <2>3. /\ SqlText[row.name] = MatchText[other.name] /\ row.year = other.year
        /\ row.brand = other.brand
    BY <2>1, <2>2 DEF Candidates, Carries
  <2>4. MatchText[row.name] = MatchText[other.name]
    BY <2>3, TextAssumption
  <2> QED
    BY <2>3, <2>4 DEF SameKey
<1>3. ASSUME NEW q \in Products \ {t} PROVE q \in Candidates(other)' <=> q \in Candidates(other)
  <2>1. products'[q] = products[q]
    BY DEF RowWritten
  <2>2. ASSUME Exists(q), products[q].brand # None
        PROVE  brands'[products[q].brand] = brands[products[q].brand]
    BY <2>2, ProductFacts DEF RowWritten
  <2> QED
    BY <2>1, <2>2 DEF Candidates, Live, Exists
<1>4. Candidates(other)' \subseteq Products /\ Candidates(other) \subseteq Products
  BY DEF Candidates
<1> QED
  BY <1>1, <1>2, <1>3, <1>4

\* The product itself is the only candidate of its row afterwards.
LEMMA CandidateWritten ==
  ASSUME TableInv, NEW t, NEW row, RowWritten(t, row), Plain(row), Candidates(row) \subseteq {t}
  PROVE  Candidates(row)' = {t}
<1>1. t \in Candidates(row)'
  BY DEF RowWritten, Carries, Candidates, Plain
<1>2. ASSUME NEW q \in Candidates(row)', q # t PROVE FALSE
  <2>1. q \in Products /\ products'[q] = products[q]
    BY <1>2 DEF RowWritten, Candidates
  <2>2. Exists(q) /\ products[q].brand # None
    BY <2>1, <1>2 DEF Candidates, Live, Exists
  <2>3. brands'[products[q].brand] = brands[products[q].brand]
    BY <2>1, <2>2, ProductFacts DEF RowWritten
  <2>4. q \in Candidates(row)
    BY <1>2, <2>1, <2>3 DEF Candidates, Live, Exists
  <2> QED
    BY <1>2, <2>4
<1> QED
  BY <1>1, <1>2

\* The products like a row stay like it.
LEMMA LikeKept ==
  ASSUME TableInv, TableInv', NEW t, NEW row, row.name \in Names, RowWritten(t, row),
         NEW other, NEW p \in ProductsLike(other)
  PROVE  p \in ProductsLike(other)'
<1>1. /\ p \in Products /\ Live(p) /\ products[p].brand # None
      /\ MatchText[products[p].name] = MatchText[other.name]
      /\ brands[products[p].brand].name = other.brand /\ products[p].year = other.year
  <2>1. p \in Products
    BY DEF ProductsLike
  <2> QED
    BY <2>1, LikeMeans
<1>2. /\ Live(p)' /\ products'[p].brand # None
      /\ MatchText[products'[p].name] = MatchText[other.name]
      /\ brands'[products'[p].brand].name = other.brand /\ products'[p].year = other.year
  <2>1. CASE p = t
    <3>1. p \in ProductsLike(row)
      BY <1>1, <2>1, CandidatesAlike DEF RowWritten, Live
    <3>2. MatchText[row.name] = MatchText[other.name] /\ row.brand = other.brand
          /\ row.year = other.year
      BY <1>1, <3>1, LikeMeans
    <3> QED
      BY <2>1, <3>2 DEF RowWritten, Carries
  <2>2. CASE p # t
    <3>1. products'[p] = products[p]
      BY <1>1, <2>2 DEF RowWritten
    <3>2. brands'[products[p].brand] = brands[products[p].brand]
      BY <1>1, ProductFacts DEF RowWritten, Live
    <3> QED
      BY <1>1, <3>1, <3>2 DEF Live, Exists
  <2> QED
    BY <2>1, <2>2
<1>3. Exists(p)'
  BY <1>2 DEF Live
<1>4. products'[p] \in ProductRows
  BY <1>1, <1>3 DEF TableInv, Inv, CatalogInv, ProductsOK, Exists
<1>5. LET key == [products'[p] EXCEPT !.brand = brands'[@].name]
      IN /\ key.name = products'[p].name /\ key.year = products'[p].year
         /\ key.brand = brands'[products'[p].brand].name
  BY <1>4 DEF ProductRows
<1> QED
  BY <1>1, <1>2, <1>5 DEF ProductsLike, SameKey

\* So what was left for other rows, and what was said of them, stays true.
LEMMA OthersKept ==
  ASSUME TableInv, TableInv', NEW t, NEW row, row.name \in Names, RowWritten(t, row),
         NEW other, other.name \in Names
  PROVE  /\ ~SameKey(row, other) /\ LeftAs(other) => LeftAs(other)'
         /\ \A forecast : ~SameKey(row, other) /\ Foretold(other, forecast) =>
              Foretold(other, forecast)'
         /\ \A forecast, result : CameTrue(other, forecast, result) =>
              CameTrue(other, forecast, result)'
<1>1. ASSUME ~SameKey(row, other), LeftAs(other) PROVE LeftAs(other)'
  <2>1. PICK p \in Products :
          Candidates(other) = {p} /\ Agrees(p, other) /\ onHand[p] = other.stock
    BY <1>1 DEF LeftAs
  <2>2. Candidates(other)' = {p} /\ p # t
    BY <1>1, <2>1, CandidatesKept
  <2>3. products'[p] = products[p] /\ onHand'[p] = onHand[p]
    BY <2>2 DEF RowWritten
  <2>4. Agrees(p, other)'
    BY <2>1, <2>3 DEF Agrees, RowWritten
  <2> QED
    BY <2>1, <2>2, <2>3, <2>4 DEF LeftAs
<1>2. ASSUME NEW forecast, ~SameKey(row, other), Foretold(other, forecast)
      PROVE  Foretold(other, forecast)'
  BY <1>2, CandidatesKept DEF Foretold
<1>3. ASSUME NEW forecast, NEW result, CameTrue(other, forecast, result)
      PROVE  CameTrue(other, forecast, result)'
  <2>1. \A p : ReservedOf(p)' = ReservedOf(p)
    BY DEF RowWritten, ReservedOf
  <2> QED
    BY <1>3, <2>1, LikeKept DEF CameTrue
<1> QED
  BY <1>1, <1>2, <1>3

-----------------------------------------------------------------------------
(* Steps beside an import.                                                 *)

Views == <<products, brands, categories, onHand, reserved>>

\* Nothing is said of other tables.
LEMMA ViewsStay ==
  ASSUME UNCHANGED Views
  PROVE  /\ \A n : HasTwin(n)' <=> HasTwin(n)
         /\ \A row : Candidates(row)' = Candidates(row)
         /\ \A row : LeftAs(row) => LeftAs(row)'
         /\ \A row, forecast : Foretold(row, forecast) => Foretold(row, forecast)'
         /\ \A row, forecast, result :
              CameTrue(row, forecast, result) => CameTrue(row, forecast, result)'
<1>1. UNCHANGED <<products, brands, categories, onHand, reserved>>
  BY DEF Views
<1>2. \A n : BrandNamed(n)' = BrandNamed(n)
  BY <1>1 DEF BrandNamed
<1>3. \A row : Candidates(row)' = Candidates(row)
  BY <1>1 DEF Candidates, Live, Exists
<1>4. \A row : ProductsLike(row)' = ProductsLike(row)
  BY <1>1 DEF ProductsLike, Live, Exists
<1>5. \A p : ReservedOf(p)' = ReservedOf(p)
  BY <1>1 DEF ReservedOf
<1>6. \A p, row : Agrees(p, row) => Agrees(p, row)'
  BY <1>1 DEF Agrees, Labelled
<1>7. \A n : HasTwin(n)' <=> HasTwin(n)
  BY <1>2 DEF HasTwin
<1>8. \A row : LeftAs(row) => LeftAs(row)'
  BY <1>1, <1>3, <1>6 DEF LeftAs
<1>9. \A row, forecast : Foretold(row, forecast) => Foretold(row, forecast)'
  BY <1>3 DEF Foretold
<1>10. \A row, forecast, result :
         CameTrue(row, forecast, result) => CameTrue(row, forecast, result)'
  BY <1>4, <1>5 DEF CameTrue
<1> QED
  BY <1>3, <1>7, <1>8, <1>9, <1>10

LEMMA WorkViewed ==
  ASSUME UNCHANGED Views, NEW m, AtWork(m) PROVE AtWork(m)'
<1>1. UNCHANGED <<products, brands, categories, onHand, reserved>>
  BY DEF Views
<1>2. /\ \A n : BrandNamed(n)' = BrandNamed(n) /\ (HasTwin(n)' <=> HasTwin(n))
      /\ \A row : Candidates(row)' = Candidates(row)
      /\ \A row, b : Matches(row, b)' = Matches(row, b)
  BY <1>1, ViewsStay DEF BrandNamed, Matches, Live, Exists
<1>3. CategoryRead(m) => CategoryRead(m)'
  BY <1>1 DEF CategoryRead, Labelled
<1>4. \A p, row : (Agrees(p, row) => Agrees(p, row)') /\ (Carries(p, row) => Carries(p, row)')
  BY <1>1 DEF Agrees, Labelled, Carries, Live, Exists
<1> QED
  BY <1>1, <1>2, <1>3, <1>4 DEF AtWork

LEMMA FaithfulStays ==
  ASSUME UNCHANGED Views, NEW m, Faithful(m) PROVE Faithful(m)'
<1>1. Steady(m)'
  BY DEF Faithful, Steady, DraftOK
<1>2. m.alone => AtWork(m)'
  BY WorkViewed DEF Faithful
<1>3. m.alone => Left(m)'
  BY ViewsStay DEF Faithful, Left, Counts
<1>4. m.quiet => Foreseen(m)'
  BY ViewsStay DEF Faithful, Foreseen
<1> QED
  BY <1>1, <1>2, <1>3, <1>4 DEF Faithful

LEMMA AnnouncedStays ==
  ASSUME UNCHANGED Views, NEW file, Announced(file) PROVE Announced(file)'
BY ViewsStay DEF Announced

\* Of an import that another commit has disturbed little is asked.
LEMMA Disturbed ==
  ASSUME NEW m, Steady(m),
         NEW next, \A f \in {"stage", "results", "row", "rows", "draft", "target"} : next[f] = m[f],
         ~next.alone, ~next.quiet
  PROVE  Faithful(next)'
<1>1. /\ next.stage = m.stage /\ next.results = m.results /\ next.row = m.row
      /\ next.rows = m.rows /\ next.draft = m.draft /\ next.target = m.target
  OBVIOUS
<1> QED
  BY <1>1 DEF Steady, Faithful, Row, DraftOK

LEMMA NoImportFaithful == Faithful(NoImport) /\ Faithful(NoImport)'
BY DEF Faithful, Steady, NoImport, DraftOK, Unwritten, Created, Changing

-----------------------------------------------------------------------------
(* The steps of an import.                                                 *)

\* The row of an import that is at work.
RowFacts(m) == /\ m.row \in DOMAIN m.rows /\ DOMAIN m.rows = 1..Len(m.rows) /\ Len(m.rows) \in Nat
               /\ \A k \in 1..Len(m.rows) : m.rows[k].name \in Names /\ NamesOK(m.rows[k])

LEMMA RowKnown ==
  ASSUME TableInv, NEW i \in Importers, imports[i].row <= Len(imports[i].rows)
  PROVE  RowFacts(imports[i]) /\ Row(imports[i]).name \in Names
<1> DEFINE m == imports[i]
<1>1. RowsOK(m.rows) /\ FileOK(m.rows) /\ m.row \in Nat \ {0}
  BY ImportFields DEF ImportOK, CargoOK
<1> HIDE DEF m
<1>2. m.row \in DOMAIN m.rows
  BY <1>1 DEF RowsOK, m
<1> QED
  BY <1>1, <1>2 DEF RowsOK, ParsedOK, FileOK, RowFacts, Row, m

\* A row is reported and the next one begins.
LEMMA RowEnds ==
  ASSUME NEW m, DOMAIN m = DOMAIN NoImport,
         Faithful(m), RowFacts(m), NEW result \in Outcomes,
         m.alone /\ result \in {"create", "update"} /\ Plain(Row(m)) /\ ~HasTwin(Row(m).brand)
           => LeftAs(Row(m)),
         m.quiet /\ First(m, m.row) /\ ~HasTwin(Row(m).brand)
           => CameTrue(Row(m), m.forecast[m.row], result)
  PROVE  Faithful(Advance(m, result))
<1> DEFINE next == Advance(m, result)
<1>1. /\ next.stage = "lookup" /\ next.row = m.row + 1 /\ next.rows = m.rows
      /\ next.results = Append(m.results, result) /\ next.draft = m.draft
      /\ next.forecast = m.forecast /\ next.quiet = m.quiet /\ next.alone = m.alone
  BY DEF Advance, NoImport
<1>2. m.results \in Seq(Outcomes) /\ Len(m.results) = m.row - 1 /\ m.row \in 1..Len(m.rows)
  BY DEF Faithful, Steady, RowFacts
<1>3. /\ next.results \in Seq(Outcomes) /\ Len(next.results) = m.row
      /\ next.results[m.row] = result
      /\ \A k \in 1..m.row - 1 : next.results[k] = m.results[k]
  <2>1. ASSUME NEW S, NEW s \in Seq(S), NEW e \in S
        PROVE  /\ Append(s, e) \in Seq(S) /\ Len(Append(s, e)) = Len(s) + 1
               /\ Append(s, e)[Len(s) + 1] = e
               /\ \A k \in 1..Len(s) : Append(s, e)[k] = s[k]
    OBVIOUS
  <2>2. Len(m.results) + 1 = m.row
    BY <1>2 DEF RowFacts
  <2> QED
    BY <1>1, <1>2, <2>1, <2>2
<1> HIDE DEF next
<1>4. Steady(next)
  BY <1>1, <1>2, <1>3 DEF Steady, Faithful, Unwritten, Created, Changing
<1>5. AtWork(next)
  BY <1>1 DEF AtWork, Created, Changing
<1>6. ASSUME m.alone PROVE Left(next)
  <2>1. SUFFICES ASSUME NEW k \in 1..Len(m.rows), k < m.row + 1, Counts(next, k),
                        ~HasTwin(m.rows[k].brand)
                 PROVE  LeftAs(m.rows[k])
    BY <1>1 DEF Left
  <2>2. CASE k = m.row
    BY <1>1, <1>3, <1>6, <2>1, <2>2 DEF Counts, Row
  <2>3. CASE k < m.row
    <3>1. Counts(m, k)
      BY <1>1, <1>2, <1>3, <2>1, <2>3 DEF Counts, Final
    <3> QED
      BY <1>6, <2>1, <2>3, <3>1 DEF Faithful, Left
  <2> QED
    BY <1>2, <2>1, <2>2, <2>3
<1>7. ASSUME m.quiet PROVE Foreseen(next)
  <2>1. SUFFICES ASSUME NEW k \in 1..Len(m.rows), First(m, k), ~HasTwin(m.rows[k].brand)
                 PROVE  /\ k < m.row + 1 => CameTrue(m.rows[k], m.forecast[k], next.results[k])
                        /\ k >= m.row + 1 => Foretold(m.rows[k], m.forecast[k])
    <3>1. \A k : First(next, k) <=> First(m, k)
      BY <1>1 DEF First
    <3>2. next.stage \notin {"create", "update"} \union Created \union Changing
      BY <1>1 DEF Created, Changing
    <3>3. \A k \in 1..Len(m.rows) : k = m.row + 1 \/ k > m.row + 1 => k >= m.row + 1
      BY <1>2
    <3> QED
      BY <1>1, <2>1, <3>1, <3>2, <3>3 DEF Foreseen
  <2>2. /\ k < m.row => CameTrue(m.rows[k], m.forecast[k], m.results[k])
        /\ k > m.row => Foretold(m.rows[k], m.forecast[k])
    BY <1>7, <2>1 DEF Faithful, Foreseen
  <2>3. CASE k < m.row
    <3>1. next.results[k] = m.results[k] /\ ~(k >= m.row + 1)
      BY <1>2, <1>3, <2>1, <2>3
    <3> QED
      BY <2>2, <2>3, <3>1
  <2>4. CASE k = m.row
    BY <1>2, <1>3, <1>7, <2>1, <2>4 DEF Row
  <2>5. CASE k > m.row
    BY <1>2, <2>1, <2>2, <2>5
  <2> QED
    BY <1>2, <2>3, <2>4, <2>5
<1> QED
  BY <1>1, <1>4, <1>5, <1>6, <1>7 DEF Faithful, next

\* The category of a row, as the session of its import has it afterwards.
LEMMA CategoryChosen ==
  ASSUME TableInv, NEW i \in Importers, DraftOK(imports[i].draft),
         NEW label \in ValidCategories, NEW c \in CategoryFor(imports[i], label),
         NEW wrote,
         wrote = IF c.row = categories[c.id] THEN imports[i].draft
                                             ELSE Put(imports[i].draft, c.id, c.row)
  PROVE  /\ DraftOK(wrote)
         /\ IF c.id \in DOMAIN wrote
            THEN wrote[c.id].name = label /\ wrote[c.id].slug = ImportSlug(label)
            ELSE Labelled(c.id, label)
<1> DEFINE m == imports[i]
           cs == SessionCategories(m)
           new == [name |-> label, slug |-> ImportSlug(label), margin |-> None]
<1>1. label \in Names /\ CargoOK(m)
  BY VocabularyAssumption, ImportFields
<1>2. \A d \in Categories : cs[d] # None => cs[d] \in CategoryRows
  BY <1>1 DEF SessionCategories, CargoOK, TableInv, TablesOK, Shelves
<1>3. \A d \in Categories : cs[d] = IF d \in DOMAIN m.draft THEN m.draft[d] ELSE categories[d]
  BY DEF SessionCategories
<1> HIDE DEF cs
<1>4. \/ \E d \in Categories : /\ cs[d] # None /\ cs[d].slug = ImportSlug(label)
                               /\ c = [id |-> d, row |-> [cs[d] EXCEPT !.name = label]]
      \/ \E d \in Categories : cs[d] = None /\ c = [id |-> d, row |-> new]
  BY DEF CategoryFor, cs
<1>5. c.id \in Categories /\ c.row.name = label /\ c.row.slug = ImportSlug(label)
      /\ c.row \in CategoryRows
  <2>1. new \in CategoryRows
    BY <1>1, NameAssumption DEF CategoryRows, ImportSlug, Slugs
  <2>2. ASSUME NEW d \in Categories, cs[d] # None
        PROVE  /\ [cs[d] EXCEPT !.name = label] \in CategoryRows
               /\ [cs[d] EXCEPT !.name = label].name = label
               /\ [cs[d] EXCEPT !.name = label].slug = cs[d].slug
    BY <1>1, <1>2, <2>2 DEF CategoryRows
  <2>3. new.name = label /\ new.slug = ImportSlug(label)
    OBVIOUS
  <2> HIDE DEF new
  <2>4. ASSUME NEW d \in Categories, NEW row, c = [id |-> d, row |-> row]
        PROVE  c.id = d /\ c.row = row
    BY <2>4
  <2> QED
    BY <1>4, <2>1, <2>2, <2>3, <2>4
<1>6. CASE c.row # categories[c.id]
  <2>1. wrote = Put(m.draft, c.id, c.row)
    BY <1>6
  <2>2. c.id \in DOMAIN wrote /\ wrote[c.id] = c.row
        /\ \A d \in DOMAIN wrote : d = c.id \/ (d \in DOMAIN m.draft /\ wrote[d] = m.draft[d])
    BY <2>1 DEF Put
  <2> QED
    BY <1>5, <2>2 DEF DraftOK
<1>7. CASE c.row = categories[c.id] /\ c.id \notin DOMAIN m.draft
  <2>1. categories[c.id] # None
    BY <1>5, <1>7, NullAssumption
  <2> QED
    BY <1>5, <1>7, <2>1 DEF Labelled
<1>8. CASE c.row = categories[c.id] /\ c.id \in DOMAIN m.draft
  <2>1. m.draft[c.id].name \in ValidCategories
        /\ m.draft[c.id].slug = ImportSlug(m.draft[c.id].name)
    BY <1>8 DEF DraftOK
  <2>2. None # m.draft[c.id]
    BY <1>1, <1>8, NullAssumption DEF CargoOK
  <2>3. m.draft[c.id].slug = ImportSlug(label)
    <3>1. cs[c.id] = m.draft[c.id] /\ cs[c.id] \in CategoryRows
      BY <1>2, <1>3, <1>5, <1>8, <2>2
    <3>2. ASSUME NEW d \in Categories, cs[d].slug = ImportSlug(label),
                 c = [id |-> d, row |-> [cs[d] EXCEPT !.name = label]]
          PROVE  cs[c.id].slug = ImportSlug(label)
      BY <3>2
    <3>3. ASSUME NEW d \in Categories, cs[d] = None, c = [id |-> d, row |-> new] PROVE FALSE
      <4>1. c.id = d
        BY <3>3
      <4> QED
        BY <2>2, <3>1, <3>3, <4>1
    <3> HIDE DEF new, m
    <3> QED
      BY <1>4, <3>1, <3>2, <3>3
  <2>4. m.draft[c.id].name = label
    BY <2>1, <2>3, VocabularyAssumption DEF ImportSlug
  <2>5. wrote = m.draft
    BY <1>8
  <2>6. wrote[c.id].name = label /\ wrote[c.id].slug = ImportSlug(label)
    BY <2>3, <2>4, <2>5
  <2>7. c.id \in DOMAIN wrote /\ DraftOK(wrote)
    BY <1>8, <2>5
  <2> QED
    BY <2>6, <2>7
<1> QED
  BY <1>6, <1>7, <1>8

LEMMA RefusedFaithful ==
  ASSUME TableInv, NEW i \in Importers, Faithful(imports[i]), RowRefused(i)
  PROVE  Faithful(Advance(imports[i], "error"))
<1> DEFINE m == imports[i]
<1>1. m.stage = "lookup" /\ m.row <= Len(m.rows) /\ ~Valid(Row(m))
  BY DEF RowRefused
<1>2. RowFacts(m) /\ DOMAIN m = DOMAIN NoImport
  BY <1>1, RowKnown, ImportFields DEF ImportOK
<1> HIDE DEF m
<1>3. ASSUME m.quiet, First(m, m.row), ~HasTwin(Row(m).brand)
      PROVE  CameTrue(Row(m), m.forecast[m.row], "error")
  <2>1. Foretold(Row(m), m.forecast[m.row])
    BY <1>1, <1>2, <1>3 DEF Faithful, Foreseen, RowFacts, Row, m
  <2> QED
    BY <1>1, <2>1 DEF Foretold, CameTrue
<1>4. "error" \in Outcomes
  BY DEF Outcomes
<1> QED
  BY <1>2, <1>3, <1>4, RowEnds DEF m

\* What a lookup finds is what the preview was about.
LEMMA LookupFaithful ==
  ASSUME TableInv, NEW i \in Importers, Faithful(imports[i]), RowLookup(i)
  PROVE  \E next : Stay(i, next) /\ Faithful(next)
<1> DEFINE m == imports[i]
           row == Row(m)
<1>1. m.stage = "lookup" /\ m.row <= Len(m.rows) /\ Valid(row)
  BY DEF RowLookup
<1>2. /\ RowFacts(m) /\ row \in {m.rows[k] : k \in 1..Len(m.rows)} /\ NamesOK(row)
      /\ DOMAIN m = DOMAIN NoImport /\ Steady(m)
  BY <1>1, RowKnown, ImportFields DEF ImportOK, RowFacts, Row, Faithful
<1>3. PICK b \in BrandsFor(row.brand), c \in CategoryFor(m, row.category) :
        LET M == IF b = None THEN {} ELSE Matches(row, b)
            wrote == IF c.row = categories[c.id] THEN m.draft ELSE Put(m.draft, c.id, c.row)
            found == [m EXCEPT !.brand = b, !.category = c.id, !.draft = wrote]
        IN CASE M = {} -> Stay(i, [found EXCEPT !.stage = "create"])
             [] Cardinality(M) > 1 -> Stay(i, Advance([m EXCEPT !.draft = wrote], "error"))
             [] OTHER -> \E p \in M :
                  Stay(i, [found EXCEPT !.stage = "update", !.target = p, !.seen = products[p]])
  BY DEF RowLookup
<1> DEFINE M == IF b = None THEN {} ELSE Matches(row, b)
           wrote == IF c.row = categories[c.id] THEN m.draft ELSE Put(m.draft, c.id, c.row)
           found == [m EXCEPT !.brand = b, !.category = c.id, !.draft = wrote]
<1>4. /\ DraftOK(wrote)
      /\ IF c.id \in DOMAIN wrote
         THEN wrote[c.id].name = row.category /\ wrote[c.id].slug = ImportSlug(row.category)
         ELSE Labelled(c.id, row.category)
  <2>1. row.category \in ValidCategories
    BY <1>1, <1>2 DEF NamesOK
  <2> QED
    BY <1>2, <2>1, CategoryChosen DEF Steady
<1>5. /\ ~HasTwin(row.brand) => M = Candidates(row)
      /\ b # None => b \in BrandNamed(row.brand)
      /\ b = None => BrandNamed(row.brand) = {}
  <2>1. b \in BrandsFor(row.brand) /\ None \notin Brands
    BY NullAssumption
  <2>2. BrandNamed(row.brand) \subseteq Brands
    BY DEF BrandNamed
  <2> HIDE DEF row, m
  <2>3. ~HasTwin(row.brand) => M = Candidates(row)
    BY <2>1, FoundByBrand
  <2> QED
    BY <2>1, <2>2, <2>3 DEF BrandsFor
<1>6. M \subseteq Products
  BY DEF Matches
<1>7. ASSUME m.quiet, First(m, m.row), ~HasTwin(row.brand)
      PROVE  Foretold(row, m.forecast[m.row])
  BY <1>1, <1>2, <1>7 DEF Faithful, Foreseen, RowFacts, Row
<1> HIDE DEF M, wrote, row
<1>8. CASE M = {}
  <2> DEFINE next == [found EXCEPT !.stage = "create"]
  <2>1. Stay(i, next)
    <3> HIDE DEF found
    <3>1. (CASE M = {} -> Stay(i, next)
             [] Cardinality(M) > 1 -> Stay(i, Advance([m EXCEPT !.draft = wrote], "error"))
             [] OTHER -> \E p \in M :
                  Stay(i, [found EXCEPT !.stage = "update", !.target = p, !.seen = products[p]]))
      BY <1>3 DEF M, wrote, row, found
    <3> HIDE DEF next
    <3>2. ~(Cardinality(M) > 1)
      BY <1>8, FS_EmptySet
    <3> QED
      BY <1>8, <3>1, <3>2
  <2>2. /\ next.stage = "create" /\ next.row = m.row /\ next.rows = m.rows
        /\ next.results = m.results /\ next.forecast = m.forecast /\ next.quiet = m.quiet
        /\ next.alone = m.alone /\ next.draft = wrote /\ next.category = c.id /\ next.brand = b
    BY <1>2 DEF NoImport
  <2>3. Row(next) = row
    BY <2>2 DEF Row, row
  <2> HIDE DEF next
  <2>4. Steady(next)
    BY <1>1, <1>2, <1>4, <2>2, <2>3 DEF Steady, Unwritten, Created, Changing, RowFacts
  <2>5. AtWork(next)
    <3>1. CategoryRead(next)
      BY <1>4, <2>2, <2>3 DEF CategoryRead
    <3>2. IF b = None THEN BrandNamed(row.brand) = {}
          ELSE b \in BrandNamed(row.brand) /\ Matches(row, b) = {}
      BY <1>5, <1>8 DEF M
    <3> QED
      BY <2>2, <2>3, <3>1, <3>2 DEF AtWork, Created, Changing
  <2>6. m.alone => Left(next)
    BY <2>2 DEF Faithful, Left, Counts, Final
  <2>7. m.quiet => Foreseen(next)
    <3>1. ASSUME m.quiet, First(m, m.row), ~HasTwin(row.brand) PROVE m.forecast[m.row] = "create"
      <4>1. Candidates(row) = {} /\ Foretold(row, m.forecast[m.row])
        BY <1>5, <1>7, <1>8, <3>1
      <4>2. Cardinality({}) = 0
        BY FS_EmptySet
      <4> QED
        BY <1>1, <4>1, <4>2 DEF Foretold, row
    <3>2. \A k : First(next, k) <=> First(m, k)
      BY <2>2 DEF First
    <3> QED
      BY <2>2, <3>1, <3>2 DEF Faithful, Foreseen, Created, Changing, Row, row
  <2> QED
    BY <2>1, <2>2, <2>4, <2>5, <2>6, <2>7 DEF Faithful
<1>9. CASE M # {} /\ Cardinality(M) > 1
  <2> DEFINE read == [m EXCEPT !.draft = wrote]
  <2>1. Stay(i, Advance(read, "error"))
    BY <1>3, <1>9 DEF M, wrote, row
  <2>2. /\ read.stage = "lookup" /\ read.row = m.row /\ read.rows = m.rows
        /\ read.results = m.results /\ read.forecast = m.forecast /\ read.quiet = m.quiet
        /\ read.alone = m.alone /\ read.draft = wrote /\ DOMAIN read = DOMAIN NoImport
    BY <1>1, <1>2 DEF NoImport
  <2>3. Row(read) = row
    BY <2>2 DEF Row, row
  <2> HIDE DEF read
  <2>4. Faithful(read)
    <3>1. Steady(read)
      BY <1>1, <1>2, <1>4, <2>2 DEF Steady, Unwritten, Created, Changing
    <3>2. AtWork(read)
      BY <2>2 DEF AtWork, Created, Changing
    <3>3. m.alone => Left(read)
      BY <2>2 DEF Faithful, Left, Counts, Final
    <3>4. m.quiet => Foreseen(read)
      BY <1>1, <2>2 DEF Faithful, Foreseen, First
    <3> QED
      BY <2>2, <3>1, <3>2, <3>3, <3>4 DEF Faithful
  <2>5. ASSUME m.quiet, First(m, m.row), ~HasTwin(row.brand)
        PROVE  CameTrue(row, m.forecast[m.row], "error")
    <3>1. Candidates(row) # {} /\ \A p \in Products : Candidates(row) # {p}
      BY <1>5, <1>6, <1>9, <2>5, Several
    <3> QED
      BY <1>7, <2>5, <3>1 DEF Foretold, CameTrue
  <2>6. RowFacts(read) /\ "error" \in Outcomes
    BY <1>2, <2>2 DEF RowFacts, Outcomes
  <2>7. First(read, read.row) <=> First(m, m.row)
    BY <2>2 DEF First
  <2>8. Faithful(Advance(read, "error"))
    BY <2>2, <2>3, <2>4, <2>5, <2>6, <2>7, RowEnds
  <2> QED
    BY <2>1, <2>8
<1>10. CASE M # {} /\ ~(Cardinality(M) > 1)
  <2>1. PICK p \in M :
          Stay(i, [found EXCEPT !.stage = "update", !.target = p, !.seen = products[p]])
    BY <1>3, <1>10 DEF M, wrote, row
  <2> DEFINE next == [found EXCEPT !.stage = "update", !.target = p, !.seen = products[p]]
  <2>2. /\ next.stage = "update" /\ next.row = m.row /\ next.rows = m.rows
        /\ next.results = m.results /\ next.forecast = m.forecast /\ next.quiet = m.quiet
        /\ next.alone = m.alone /\ next.draft = wrote /\ next.category = c.id /\ next.brand = b
        /\ next.target = p /\ next.seen = products[p]
    BY <1>2 DEF NoImport
  <2>3. Row(next) = row
    BY <2>2 DEF Row, row
  <2> HIDE DEF next
  <2>4. Steady(next)
    BY <1>1, <1>2, <1>4, <2>2, <2>3 DEF Steady, Unwritten, Created, Changing, RowFacts
  <2>5. M = {p}
    <3>1. \E q \in Products : M = {q}
      BY <1>6, <1>10, Several
    <3> QED
      BY <3>1
  <2>6. AtWork(next)
    <3>1. CategoryRead(next)
      BY <1>4, <2>2, <2>3 DEF CategoryRead
    <3>2. b \in BrandNamed(row.brand) /\ Matches(row, b) = {p}
      BY <1>5, <2>5 DEF M
    <3> QED
      BY <2>2, <2>3, <3>1, <3>2 DEF AtWork, Created, Changing
  <2>7. m.alone => Left(next)
    BY <2>2 DEF Faithful, Left, Counts, Final
  <2>8. m.quiet => Foreseen(next)
    <3>1. ASSUME m.quiet, First(m, m.row), ~HasTwin(row.brand)
          PROVE  m.forecast[m.row] \in {"skip", "update"}
      <4>1. Candidates(row) = {p} /\ Foretold(row, m.forecast[m.row])
        BY <1>5, <1>7, <2>5, <3>1
      <4>2. ~(Cardinality({p}) > 1)
        BY FS_Singleton
      <4> QED
        BY <1>1, <4>1, <4>2 DEF Foretold, row
    <3>2. \A k : First(next, k) <=> First(m, k)
      BY <2>2 DEF First
    <3> QED
      BY <2>2, <3>1, <3>2 DEF Faithful, Foreseen, Created, Changing, Row, row
  <2> QED
    BY <2>1, <2>2, <2>4, <2>6, <2>7, <2>8 DEF Faithful, next
<1> QED
  BY <1>8, <1>9, <1>10

\* A stock below the reservations is refused for a product the preview knew only:
\* one that the import has created is not reserved.
LEMMA StockRefusedFaithful ==
  ASSUME TableInv, NEW i \in Importers, Faithful(imports[i]), RowStockRefused(i)
  PROVE  Faithful(Advance(imports[i], "error"))
<1> DEFINE m == imports[i]
           row == Row(m)
<1>1. /\ m.stage \in {"created", "updated"} /\ row.stock < ReservedOf(m.target)
      /\ Faithful(m) /\ Steady(m)
  BY DEF RowStockRefused, Faithful
<1>2. m.row \in DOMAIN m.rows /\ DOMAIN m = DOMAIN NoImport
  BY <1>1, ImportFields DEF Steady, ImportOK, Created, Changing
<1>3. RowFacts(m) /\ row.name \in Names /\ NamesOK(row)
  <2>1. m.row <= Len(m.rows)
    BY <1>2, ImportFields DEF ImportOK, RowsOK
  <2> QED
    BY <2>1, RowKnown DEF RowFacts, Row
<1> HIDE DEF m, row
<1>4. ASSUME m.quiet, First(m, m.row), ~HasTwin(row.brand)
      PROVE  CameTrue(row, m.forecast[m.row], "error")
  <2>1. m.alone /\ AtWork(m) /\ Foreseen(m)
    BY <1>1, <1>4 DEF Faithful, Steady
  <2>2. m.stage = "updated"
    <3>1. row.stock \in Nat
      BY <1>3 DEF NamesOK
    <3>2. CASE m.stage = "created"
      BY <1>1, <2>1, <3>1, <3>2 DEF AtWork, ReservedOf
    <3> QED
      BY <1>1, <3>2
  <2>3. m.forecast[m.row] \in {"skip", "update"}
    BY <1>3, <1>4, <2>1, <2>2 DEF Foreseen, Changing, RowFacts, Row, row
  <2>4. m.target \in Products /\ Carries(m.target, row)
    BY <1>1, <2>1, <2>2 DEF AtWork, Steady, Changing, row
  <2>5. m.target \in ProductsLike(row)
    BY <2>4, LikeMeans DEF Carries
  <2> QED
    BY <1>1, <2>3, <2>4, <2>5 DEF CameTrue
<1>5. "error" \in Outcomes
  BY DEF Outcomes
<1> QED
  BY <1>1, <1>2, <1>3, <1>4, <1>5, RowEnds DEF m, row

\* With its photo a row is done.
LEMMA PhotoFaithful ==
  ASSUME TableInv, NEW i \in Importers, Faithful(imports[i]), RowPhoto(i)
  PROVE  Faithful(Advance(imports[i], IF imports[i].stage = "create-photo" THEN "create"
                                                                           ELSE "update"))
<1> DEFINE m == imports[i]
           row == Row(m)
           result == IF m.stage = "create-photo" THEN "create" ELSE "update"
<1>1. m.stage \in {"create-photo", "update-photo"} /\ Faithful(m) /\ Steady(m)
  BY DEF RowPhoto, Faithful
<1>2. m.row \in DOMAIN m.rows /\ DOMAIN m = DOMAIN NoImport
  BY <1>1, ImportFields DEF Steady, ImportOK, Created, Changing
<1>3. RowFacts(m)
  <2>1. m.row <= Len(m.rows)
    BY <1>2, ImportFields DEF ImportOK, RowsOK
  <2> QED
    BY <2>1, RowKnown
<1> HIDE DEF m, row
<1>4. ASSUME m.quiet, First(m, m.row), ~HasTwin(row.brand)
      PROVE  CameTrue(row, m.forecast[m.row], result)
  BY <1>1, <1>3, <1>4 DEF Faithful, Foreseen, RowFacts, Row, row, Created, Changing, CameTrue
<1>5. ASSUME m.alone, Plain(row), ~HasTwin(row.brand) PROVE LeftAs(row)
  <2>1. m.target \in Products /\ AtWork(m)
    BY <1>1, <1>5 DEF Faithful, Steady, Created, Changing
  <2>2. Candidates(row) = {m.target} /\ Agrees(m.target, row) /\ onHand[m.target] = row.stock
    BY <1>1, <1>5, <2>1 DEF AtWork, Created, Changing, row
  <2> QED
    BY <2>1, <2>2 DEF LeftAs
<1>6. result \in Outcomes
  BY DEF Outcomes
<1> HIDE DEF result
<1>7. Faithful(Advance(m, result))
  BY <1>1, <1>2, <1>3, <1>4, <1>5, <1>6, RowEnds DEF row
<1> QED
  BY <1>7 DEF m, result

\* Without it the row is an error, of a product that is in the catalogue.
LEMMA PhotoRefusedFaithful ==
  ASSUME TableInv, NEW i \in Importers, Faithful(imports[i]), PhotoRefused(i)
  PROVE  Faithful(Advance(imports[i], "error"))
<1> DEFINE m == imports[i]
           row == Row(m)
<1>1. /\ m.stage \in {"create-photo", "update-photo"} /\ row.image = "refused"
      /\ Faithful(m) /\ Steady(m)
  BY DEF PhotoRefused, Uploads, Faithful
<1>2. m.row \in DOMAIN m.rows /\ DOMAIN m = DOMAIN NoImport
  BY <1>1, ImportFields DEF Steady, ImportOK, Created, Changing
<1>3. RowFacts(m) /\ row.name \in Names
  <2>1. m.row <= Len(m.rows)
    BY <1>2, ImportFields DEF ImportOK, RowsOK
  <2> QED
    BY <2>1, RowKnown
<1> HIDE DEF m, row
<1>4. ASSUME m.quiet, First(m, m.row), ~HasTwin(row.brand)
      PROVE  CameTrue(row, m.forecast[m.row], "error")
  <2>1. m.alone /\ AtWork(m) /\ Foreseen(m)
    BY <1>1, <1>4 DEF Faithful, Steady
  <2>2. m.forecast[m.row] \in {"create", "skip", "update"}
    BY <1>1, <1>3, <1>4, <2>1 DEF Foreseen, Created, Changing, RowFacts, Row, row
  <2>3. m.target \in Products /\ Carries(m.target, row)
    BY <1>1, <2>1 DEF AtWork, Steady, Created, Changing, row
  <2>4. m.target \in ProductsLike(row)
    BY <1>3, <2>3, LikeMeans DEF Carries
  <2> QED
    BY <1>1, <2>2, <2>4 DEF CameTrue
<1>5. "error" \in Outcomes
  BY DEF Outcomes
<1> QED
  BY <1>1, <1>2, <1>3, <1>4, <1>5, RowEnds DEF m, row

\* The stock of a row is that of no other.
LEMMA StockFaithful ==
  ASSUME TableInv, NEW i \in Importers, Faithful(imports[i]), RowStock(i), NEW next,
         next = [imports[i] EXCEPT !.seen = None,
                   !.stage = IF imports[i].stage = "created" THEN "create-photo"
                                                             ELSE "update-photo"]
  PROVE  Faithful(next)'
<1> DEFINE m == imports[i]
           row == Row(m)
<1>1. /\ m.stage \in {"created", "updated"} /\ Faithful(m) /\ Steady(m)
      /\ SetStock(m.target, row.stock)
      /\ UNCHANGED <<products, brands, categories, reserved>>
  BY DEF RowStock, Faithful, sales
<1>2. m.row \in DOMAIN m.rows /\ DOMAIN m = DOMAIN NoImport
  BY <1>1, ImportFields DEF Steady, ImportOK, Created, Changing
<1>3. RowFacts(m) /\ row.name \in Names
  <2>1. m.row <= Len(m.rows)
    BY <1>2, ImportFields DEF ImportOK, RowsOK
  <2> QED
    BY <2>1, RowKnown
<1>4. /\ next.stage = IF m.stage = "created" THEN "create-photo" ELSE "update-photo"
      /\ next.row = m.row /\ next.rows = m.rows /\ next.results = m.results
      /\ next.forecast = m.forecast /\ next.quiet = m.quiet /\ next.alone = m.alone
      /\ next.draft = m.draft /\ next.target = m.target
  BY <1>2 DEF NoImport
<1>5. PICK done : done = row
  OBVIOUS
<1>6. Row(next) = done /\ m.target \in Products
  BY <1>1, <1>4, <1>5 DEF Row, Steady, Created, Changing
<1>7. /\ onHand'[m.target] = done.stock
      /\ \A p \in Products : p # m.target => onHand'[p] = onHand[p]
  <2>1. onHand \in [Products -> Nat] /\ onHand' = [onHand EXCEPT ![m.target] = row.stock]
    BY <1>1 DEF TableInv, TablesOK, Stocked, SetStock
  <2> QED
    BY <1>5, <1>6, <2>1
<1> HIDE DEF m, row
<1>8. /\ \A n : HasTwin(n)' <=> HasTwin(n)
      /\ \A other : Candidates(other)' = Candidates(other)
      /\ \A p, other : Agrees(p, other)' <=> Agrees(p, other)
      /\ \A p, other : Carries(p, other)' <=> Carries(p, other)
      /\ \A other : ProductsLike(other)' = ProductsLike(other)
      /\ \A p : ReservedOf(p)' = ReservedOf(p)
  BY <1>1 DEF HasTwin, BrandNamed, Candidates, Agrees, Labelled, Carries, ProductsLike, Live,
              Exists, ReservedOf
<1>9. /\ \A other, forecast : Foretold(other, forecast)' <=> Foretold(other, forecast)
      /\ \A other, forecast, result : CameTrue(other, forecast, result)' <=>
                                       CameTrue(other, forecast, result)
  BY <1>8 DEF Foretold, CameTrue
<1>10. Steady(next)'
  BY <1>1, <1>3, <1>4, <1>5, <1>6 DEF Steady, DraftOK, Unwritten, Created, Changing, row, Row
<1>11. ASSUME m.alone PROVE AtWork(next)'
  <2>1. AtWork(m)
    BY <1>1, <1>11 DEF Faithful
  <2>2. /\ Carries(m.target, done) /\ Agrees(m.target, done)
        /\ Plain(done) /\ ~HasTwin(done.brand) => Candidates(done) = {m.target}
    BY <1>1, <1>5, <2>1 DEF AtWork, Created, Changing, row
  <2> QED
    BY <1>4, <1>6, <1>7, <1>8, <2>2 DEF AtWork, Created, Changing
<1>12. ASSUME m.alone PROVE Left(next)'
  <2>1. SUFFICES ASSUME NEW k \in 1..Len(m.rows), k < m.row, Counts(m, k),
                        ~HasTwin(m.rows[k].brand)
                 PROVE  \A other : other = m.rows[k] => LeftAs(other)'
    BY <1>4, <1>8 DEF Left, Counts, Final
  <2>2. TAKE other
  <2>3. HAVE other = m.rows[k]
  <2>4. PICK p \in Products :
          Candidates(other) = {p} /\ Agrees(p, other) /\ onHand[p] = other.stock
    BY <1>1, <1>12, <2>1, <2>3 DEF Faithful, Left, LeftAs
  <2>5. ~SameKey(other, done) /\ other.name \in Names /\ done.name \in Names
    <3>1. m.row \in k + 1..Len(m.rows)
      BY <1>3, <2>1 DEF RowFacts
    <3> QED
      BY <1>3, <1>5, <2>1, <2>3, <3>1 DEF Counts, Final, RowFacts, row, Row
  <2>6. Carries(m.target, done)
    BY <1>1, <1>5, <1>12 DEF Faithful, AtWork, Created, Changing, row
  <2>7. p # m.target
    BY <1>6, <2>4, <2>5, <2>6, CandidatesApart
  <2> QED
    BY <1>7, <1>8, <2>4, <2>7 DEF LeftAs
<1>13. ASSUME m.quiet PROVE Foreseen(next)'
  <2>1. \A k : First(next, k) <=> First(m, k)
    BY <1>4 DEF First
  <2>2. Foreseen(m)
    BY <1>1, <1>13 DEF Faithful
  <2>3. /\ next.stage # "lookup"
        /\ next.stage \in {"create"} \union Created => m.stage \in {"create"} \union Created
        /\ next.stage \in {"update"} \union Changing => m.stage \in {"update"} \union Changing
    BY <1>1, <1>4 DEF Created, Changing
  <2> QED
    BY <1>4, <1>8, <1>9, <2>1, <2>2, <2>3 DEF Foreseen, First
<1> QED
  BY <1>4, <1>10, <1>11, <1>12, <1>13 DEF Faithful

\* A row is committed: it alone is new, and what is true of the others stays true.
LEMMA CommitFaithful ==
  ASSUME TableInv, TableInv', NEW m, Faithful(m), m.alone, RowFacts(m),
         m.stage \in {"create", "update"}, DOMAIN m = DOMAIN NoImport,
         NEW t, NEW row, row = Row(m), RowWritten(t, row),
         ~HasTwin(row.brand) => Candidates(row) \subseteq {t},
         m.stage = "create" => t \notin reserved,
         NEW next,
         next = [Committed(m, t) EXCEPT
                   !.stage = IF m.stage = "create" THEN "created" ELSE "updated"]
  PROVE  Faithful(next)'
<1>1. /\ next.stage = IF m.stage = "create" THEN "created" ELSE "updated"
      /\ next.row = m.row /\ next.rows = m.rows /\ next.results = m.results
      /\ next.forecast = m.forecast /\ next.quiet = m.quiet /\ next.alone = m.alone
      /\ next.draft = <<>> /\ next.target = t
  BY DEF NoImport, Committed
<1>2. Row(next) = row
  BY <1>1 DEF Row
<1>3. t \in Products /\ Carries(t, row)' /\ Agrees(t, row)' /\ UNCHANGED <<onHand, reserved>>
  BY DEF RowWritten
<1>4. \A n : ~HasTwin(n)' => ~HasTwin(n)
  BY DEF RowWritten
<1>5. Steady(m) /\ AtWork(m) /\ Left(m) /\ (m.quiet => Foreseen(m)) /\ row.name \in Names
  BY DEF Faithful, RowFacts, Row
<1>6. Steady(next)'
  <2>1. DraftOK(next.draft)
    BY <1>1 DEF DraftOK
  <2>2. next.stage \in Created \union Changing
    BY <1>1 DEF Created, Changing
  <2>3. m.row \in DOMAIN m.rows /\ Valid(row)
    BY <1>5 DEF Steady
  <2>4. Steady(next)
    BY <1>1, <1>2, <1>3, <1>5, <2>1, <2>2, <2>3 DEF Steady
  <2> QED
    BY <2>4 DEF Steady, DraftOK
<1>7. AtWork(next)'
  <2>1. Plain(row) /\ ~HasTwin(row.brand)' => Candidates(row)' = {t}
    BY <1>4, CandidateWritten
  <2>2. m.stage = "create" => t \notin reserved'
    BY <1>3
  <2> QED
    BY <1>1, <1>2, <1>3, <2>1, <2>2 DEF AtWork, Created, Changing
<1>8. Left(next)'
  <2>1. SUFFICES ASSUME NEW k \in 1..Len(m.rows), k < m.row, Counts(m, k),
                        ~HasTwin(m.rows[k].brand)
                 PROVE  LeftAs(m.rows[k])'
    BY <1>1, <1>4 DEF Left, Counts, Final
  <2>2. m.row \in k + 1..Len(m.rows)
    BY <2>1 DEF RowFacts
  <2>3. ~SameKey(row, m.rows[k]) /\ m.rows[k].name \in Names
    BY <2>1, <2>2 DEF Counts, Final, RowFacts, Row, SameKey
  <2>4. LeftAs(m.rows[k])
    BY <1>5, <2>1 DEF Left
  <2> QED
    BY <1>5, <2>3, <2>4, OthersKept
<1>9. ASSUME m.quiet PROVE Foreseen(next)'
  <2>1. SUFFICES ASSUME NEW k \in 1..Len(m.rows), First(m, k), ~HasTwin(m.rows[k].brand)
                 PROVE  /\ k < m.row => CameTrue(m.rows[k], m.forecast[k], m.results[k])'
                        /\ k = m.row =>
                             IF m.stage = "create" THEN m.forecast[k] = "create"
                                                   ELSE m.forecast[k] \in {"skip", "update"}
                        /\ k > m.row => Foretold(m.rows[k], m.forecast[k])'
    <3>1. \A k : First(next, k)' <=> First(m, k)
      <4>1. \A k : First(next, k)' <=> First(next, k)
        BY DEF First, SameKey
      <4>2. \A k : First(next, k) <=> First(m, k)
        BY <1>1 DEF First
      <4> QED
        BY <4>1, <4>2
    <3>2. /\ next.stage # "lookup"
          /\ next.stage \in {"create"} \union Created <=> m.stage = "create"
          /\ next.stage \in {"update"} \union Changing <=> m.stage # "create"
      BY <1>1 DEF Created, Changing
    <3>3. ASSUME NEW k \in 1..Len(next.rows), First(next, k)', ~HasTwin(next.rows[k].brand)'
          PROVE  /\ k \in 1..Len(m.rows) /\ First(m, k)
                 /\ ~HasTwin(m.rows[k].brand)
      BY <1>1, <1>4, <3>1, <3>3
    <3>4. ASSUME NEW k \in 1..Len(m.rows), First(m, k), ~HasTwin(m.rows[k].brand)
          PROVE  /\ k < next.row => CameTrue(next.rows[k], next.forecast[k], next.results[k])'
                 /\ k = next.row =>
                      /\ next.stage \in {"create"} \union Created => next.forecast[k] = "create"
                      /\ next.stage \in {"update"} \union Changing =>
                           next.forecast[k] \in {"skip", "update"}
                 /\ k > next.row => Foretold(next.rows[k], next.forecast[k])'
      BY <1>1, <2>1, <3>2, <3>4
    <3> QED
      BY <3>2, <3>3, <3>4 DEF Foreseen
  <2>2. Foreseen(m) /\ m.rows[k].name \in Names
    BY <1>5, <1>9, <2>1 DEF RowFacts
  <2>3. CASE k < m.row
    BY <1>5, <2>1, <2>2, <2>3, OthersKept DEF Foreseen, RowFacts
  <2>4. CASE k = m.row
    BY <2>1, <2>2, <2>4 DEF Foreseen, Created, Changing, RowFacts
  <2>5. CASE k > m.row
    <3>1. ~SameKey(row, m.rows[k])
      <4>1. m.row \in 1..k - 1
        BY <2>1, <2>5 DEF RowFacts
      <4> QED
        BY <2>1, <4>1 DEF First, Row, SameKey
    <3>2. Foretold(m.rows[k], m.forecast[k])
      BY <2>1, <2>2, <2>5 DEF Foreseen
    <3>3. Foretold(m.rows[k], m.forecast[k])'
      BY <1>5, <2>2, <3>1, <3>2, OthersKept
    <3> QED
      BY <2>1, <2>5, <3>3 DEF RowFacts
  <2> QED
    BY <2>1, <2>3, <2>4, <2>5 DEF RowFacts
<1> QED
  BY <1>1, <1>6, <1>7, <1>8, <1>9 DEF Faithful

\* The categories of an import as its commit leaves them: none loses its label, and
\* the one the row was given has the row's.
LEMMA LabelsCommitted ==
  ASSUME TableInv, NEW i \in Importers, Steady(imports[i]), CommitDraft(imports[i])
  PROVE  /\ \A c, label : Labelled(c, label) => Labelled(c, label)'
         /\ CategoryRead(imports[i]) /\ imports[i].category \in Categories
              => \A c, label : c = imports[i].category /\ label = Row(imports[i]).category
                   /\ label \in ValidCategories => Labelled(c, label)'
<1> DEFINE m == imports[i]
<1>1. /\ categories' \in [Categories -> CategoryRows \union {None}]
      /\ DraftOK(m.draft) /\ CargoOK(m) /\ Shelves /\ None \notin CategoryRows
  BY DraftRows, ImportFields, NullAssumption DEF Steady, TableInv, TablesOK
<1>2. \A c \in Categories :
        categories'[c] = IF c \notin DOMAIN m.draft THEN categories[c]
                         ELSE IF categories[c] = None THEN m.draft[c]
                         ELSE [categories[c] EXCEPT !.name = m.draft[c].name]
  BY DEF CommitDraft
<1>3. \A c \in DOMAIN m.draft : categories[c] # None => categories[c].slug = m.draft[c].slug
  BY DEF CommitDraft
<1> HIDE DEF m
<1>4. ASSUME NEW c \in Categories, c \in DOMAIN m.draft
      PROVE  /\ categories'[c] # None /\ categories'[c].name = m.draft[c].name
             /\ categories'[c].slug = m.draft[c].slug
  <2>1. CASE categories[c] = None
    BY <1>1, <1>2, <1>4, <2>1 DEF CargoOK
  <2>2. CASE categories[c] # None
    <3>1. categories'[c] = [categories[c] EXCEPT !.name = m.draft[c].name]
          /\ categories[c] \in CategoryRows
      BY <1>1, <1>2, <1>4, <2>2 DEF Shelves
    <3>2. categories[c].slug = m.draft[c].slug
      BY <1>3, <1>4, <2>2
    <3>3. DOMAIN categories[c] = {"name", "slug", "margin"}
      BY <3>1 DEF CategoryRows
    <3>4. categories'[c].name = m.draft[c].name /\ categories'[c].slug = categories[c].slug
      BY <3>1, <3>3
    <3>5. categories'[c] # None
      BY <2>2, <1>1, DraftRows DEF m
    <3> QED
      BY <3>2, <3>4, <3>5
  <2> QED
    BY <2>1, <2>2
<1>5. ASSUME NEW c, NEW label, Labelled(c, label) PROVE Labelled(c, label)'
  <2>1. /\ c \in Categories /\ label \in ValidCategories /\ categories[c] # None
        /\ categories[c].name = label /\ categories[c].slug = ImportSlug(label)
    BY <1>5 DEF Labelled
  <2>2. CASE c \notin DOMAIN m.draft
    BY <1>2, <2>1, <2>2 DEF Labelled
  <2>3. CASE c \in DOMAIN m.draft
    <3>1. /\ m.draft[c].slug = ImportSlug(label) /\ m.draft[c].name \in ValidCategories
          /\ m.draft[c].slug = ImportSlug(m.draft[c].name)
      BY <1>1, <1>3, <2>1, <2>3 DEF DraftOK
    <3>2. m.draft[c].name = label
      BY <2>1, <3>1, VocabularyAssumption DEF ImportSlug
    <3> QED
      BY <1>4, <2>1, <2>3, <3>1, <3>2 DEF Labelled
  <2> QED
    BY <2>2, <2>3
<1>6. ASSUME CategoryRead(m), m.category \in Categories, NEW c, NEW label, c = m.category,
             label = Row(m).category, label \in ValidCategories
      PROVE  Labelled(c, label)'
  <2>1. CASE c \in DOMAIN m.draft
    BY <1>4, <1>6, <2>1 DEF CategoryRead, Labelled
  <2>2. CASE c \notin DOMAIN m.draft
    BY <1>5, <1>6, <2>2 DEF CategoryRead
  <2> QED
    BY <2>1, <2>2
<1> QED
  BY <1>5, <1>6 DEF m

\* A brand that is new leaves every name the brands it had.
LEMMA TwinsStay ==
  ASSUME \A b \in Brands : brands[b] # None => brands'[b] = brands[b]
  PROVE  \A n : HasTwin(n) => HasTwin(n)'
<1>1. SUFFICES ASSUME NEW n, HasTwin(n) PROVE HasTwin(n)'
  OBVIOUS
<1>2. BrandNamed(n) \subseteq BrandNamed(n)'
  BY DEF BrandNamed
<1>3. IsFiniteSet(BrandNamed(n)') /\ IsFiniteSet(BrandNamed(n))
  BY TableAssumption, FS_Subset DEF BrandNamed
<1>4. /\ Cardinality(BrandNamed(n)) <= Cardinality(BrandNamed(n)')
      /\ Cardinality(BrandNamed(n)) \in Nat /\ Cardinality(BrandNamed(n)') \in Nat
  BY <1>2, <1>3, FS_Subset, FS_CardinalityType
<1> QED
  BY <1>1, <1>4 DEF HasTwin

LEMMA CreateFaithful ==
  ASSUME TableInv, TableInv', ReservedExist, NEW i \in Importers, Faithful(imports[i]),
         RowCreate(i)
  PROVE  \E next : Disturb(Own(i, next)) /\ Faithful(next)'
<1>1. PICK m : m = imports[i]
  OBVIOUS
<1>2. PICK row : row = Row(m)
  OBVIOUS
<1>3. PICK b \in Brands, t \in Products :
        /\ CommitBrand(m, b)
        /\ Insert(t, RowOf(CreateForm(row, b, m.category), FALSE))
        /\ Disturb(Own(i, [Committed(m, t) EXCEPT !.stage = "created"]))
  BY <1>1, <1>2, Zenon DEF RowCreate
<1>4. PICK next : next = [Committed(m, t) EXCEPT !.stage = "created"]
  OBVIOUS
<1>5. PICK new : new = RowOf(CreateForm(row, b, m.category), FALSE)
  OBVIOUS
<1>6. /\ m.stage = "create" /\ CommitDraft(imports[i]) /\ Faithful(m) /\ Steady(m)
      /\ UNCHANGED <<onHand, reserved>>
  BY <1>1 DEF RowCreate, Faithful, sales
<1>7. /\ DOMAIN m = DOMAIN NoImport /\ ImportOK(m) /\ RowFacts(m) /\ Valid(row) /\ NamesOK(row)
      /\ row.name \in Names /\ m.category \in Categories
  <2>1. ImportOK(m)
    BY <1>1, ImportFields
  <2>2. m.row <= Len(m.rows)
    BY <1>6, <2>1 DEF ImportOK
  <2>3. RowFacts(m)
    BY <1>1, <2>2, RowKnown
  <2> QED
    BY <1>2, <1>6, <2>1, <2>3 DEF ImportOK, RowFacts, Row
<1>8. /\ new.name = row.name /\ new.year = row.year /\ new.brand = b /\ new.category = m.category
      /\ new.sale = row.sale /\ new.status = row.status /\ new.deleted = FALSE /\ new # None
  <2>1. CreateForm(row, b, m.category) \in FormRows
    BY <1>2, <1>6, <1>7, RowFits DEF CreateForm, FormRows
  <2>2. new \in ProductRows
    BY <1>5, <2>1, RowOfForm
  <2> QED
    BY <1>5, <2>2, NullFacts DEF RowOf, CreateForm
<1>9. ~Exists(t) /\ products' = [products EXCEPT ![t] = new] /\ DOMAIN products = Products
  BY <1>3, <1>5 DEF Insert, TableInv, Inv, CatalogInv, ProductsOK
<1>10. Faithful(next)'
  <2>1. CASE ~m.alone
    <3>1. /\ next.stage = "created" /\ next.row = m.row /\ next.rows = m.rows
          /\ next.results = m.results /\ next.quiet = m.quiet /\ next.alone = m.alone
          /\ next.draft = <<>> /\ next.target = t
      BY <1>4, <1>7 DEF NoImport, Committed
    <3>2. Steady(next)
      BY <1>2, <1>6, <1>7, <3>1 DEF Steady, DraftOK, Created, Changing, Row, RowFacts
    <3>3. ~next.quiet
      BY <1>6, <2>1, <3>1 DEF Steady
    <3> QED
      BY <2>1, <3>1, <3>2, <3>3, Disturbed
  <2>2. CASE m.alone
    <3>1. AtWork(m)
      BY <1>6, <2>2 DEF Faithful
    <3>2. /\ b # None /\ brands'[b].name = row.brand
          /\ \A d \in Brands : brands[d] # None => brands'[d] = brands[d]
      <4>1. b # None /\ DOMAIN brands = Brands
        BY NullAssumption DEF TableInv, TablesOK, Shelves
      <4>2. CASE m.brand # None
        BY <1>2, <1>3, <1>6, <3>1, <4>1, <4>2 DEF CommitBrand, AtWork, BrandNamed
      <4>3. CASE m.brand = None
        <5>1. brands[b] = None /\ brands' = [brands EXCEPT ![b] = BrandRow(row.brand)]
          BY <1>2, <1>3, <4>3 DEF CommitBrand
        <5>2. BrandRow(row.brand).name = row.brand
          BY DEF BrandRow
        <5> QED
          BY <4>1, <5>1, <5>2
      <4> QED
        BY <4>2, <4>3
    <3>3. ~HasTwin(row.brand) => Candidates(row) = {}
      <4>1. IF m.brand = None THEN BrandNamed(row.brand) = {}
            ELSE m.brand \in BrandNamed(row.brand) /\ Matches(row, m.brand) = {}
        BY <1>2, <1>6, <3>1 DEF AtWork
      <4>2. m.brand \in BrandsFor(row.brand)
        BY <4>1 DEF BrandsFor
      <4> QED
        BY <4>1, <4>2, FoundByBrand
    <3>4. Labelled(m.category, row.category)'
      <4>1. row.category \in ValidCategories /\ CategoryRead(m)
        BY <1>6, <1>7, <3>1 DEF NamesOK, AtWork
      <4> QED
        BY <1>1, <1>2, <1>6, <1>7, <4>1, LabelsCommitted
    <3>5. RowWritten(t, row)
      <4>1. products'[t] = new /\ \A q \in Products \ {t} : products'[q] = products[q]
        BY <1>9
      <4>2. Carries(t, row)' /\ Agrees(t, row)'
        BY <1>8, <3>2, <3>4, <4>1 DEF Carries, Agrees, Live, Exists
      <4>3. \A c, label : Labelled(c, label) => Labelled(c, label)'
        BY <1>1, <1>6, LabelsCommitted
      <4>4. \A n : HasTwin(n) => HasTwin(n)'
        BY <3>2, TwinsStay
      <4> QED
        BY <1>6, <1>9, <3>2, <4>1, <4>2, <4>3, <4>4 DEF RowWritten
    <3>6. t \notin reserved
      BY <1>9 DEF ReservedExist
    <3>7. next = [Committed(m, t) EXCEPT
                    !.stage = IF m.stage = "create" THEN "created" ELSE "updated"]
      BY <1>4, <1>6
    <3> QED
      BY <1>2, <1>6, <1>7, <2>2, <3>3, <3>5, <3>6, <3>7, CommitFaithful
  <2> QED
    BY <2>1, <2>2
<1> QED
  BY <1>3, <1>4, <1>10

LEMMA UpdateFaithful ==
  ASSUME TableInv, TableInv', NEW i \in Importers, Faithful(imports[i]), RowUpdate(i)
  PROVE  \E next : Disturb(Own(i, next)) /\ Faithful(next)'
<1>1. PICK m : m = imports[i]
  OBVIOUS
<1>2. PICK row : row = Row(m)
  OBVIOUS
<1>3. PICK next : next = [Committed(m, m.target) EXCEPT !.stage = "updated"]
  OBVIOUS
<1>4. /\ m.stage = "update" /\ CommitDraft(imports[i]) /\ Faithful(m) /\ Steady(m)
      /\ UNCHANGED <<brands, onHand, reserved>>
      /\ Update(m.target, m.seen, UpdateForm(row, m.seen, m.category))
      /\ Disturb(Own(i, next))
  BY <1>1, <1>2, <1>3 DEF RowUpdate, Faithful, sales
<1>5. /\ DOMAIN m = DOMAIN NoImport /\ ImportOK(m) /\ RowFacts(m) /\ Valid(row) /\ NamesOK(row)
      /\ row.name \in Names /\ m.category \in Categories
      /\ m.target \in Products /\ m.seen \in ProductRows
  <2>1. ImportOK(m)
    BY <1>1, ImportFields
  <2>2. m.row <= Len(m.rows)
    BY <1>4, <2>1 DEF ImportOK
  <2>3. RowFacts(m)
    BY <1>1, <2>2, RowKnown
  <2> QED
    BY <1>2, <1>4, <2>1, <2>3 DEF ImportOK, RowFacts, Row
<1>6. PICK t : t = m.target
  OBVIOUS
<1>7. Faithful(next)'
  <2>1. CASE ~m.alone
    <3>1. /\ next.stage = "updated" /\ next.row = m.row /\ next.rows = m.rows
          /\ next.results = m.results /\ next.quiet = m.quiet /\ next.alone = m.alone
          /\ next.draft = <<>> /\ next.target = m.target
      BY <1>3, <1>5 DEF NoImport, Committed
    <3>2. Steady(next)
      BY <1>2, <1>4, <1>5, <3>1 DEF Steady, DraftOK, Created, Changing, Row, RowFacts
    <3>3. ~next.quiet
      BY <1>4, <2>1, <3>1 DEF Steady
    <3> QED
      BY <2>1, <3>1, <3>2, <3>3, Disturbed
  <2>2. CASE m.alone
    <3>1. /\ CategoryRead(m) /\ m.brand \in BrandNamed(row.brand)
          /\ Matches(row, m.brand) = {t} /\ m.seen = products[t]
      BY <1>2, <1>4, <1>6, <2>2 DEF Faithful, AtWork
    <3>2. /\ t \in Products /\ Live(t) /\ products[t].brand = m.brand
          /\ SqlText[products[t].name] = MatchText[row.name] /\ products[t].year = row.year
      BY <3>1 DEF Matches
    <3>3. m.brand # None /\ brands[m.brand] # None /\ brands[m.brand].name = row.brand
      BY <3>1, NullAssumption DEF BrandNamed
    <3>4. t \in Candidates(row)
      BY <3>2, <3>3 DEF Candidates
    <3>5. PICK new : new = RowOf(UpdateForm(row, m.seen, m.category), m.seen.deleted)
      OBVIOUS
    <3>6. /\ new.name = row.name /\ new.year = row.year /\ new.brand = m.brand
          /\ new.category = m.category /\ new.sale = row.sale /\ new.status = row.status
          /\ ~new.deleted /\ new \in ProductRows
      <4>1. UpdateForm(row, m.seen, m.category) \in FormRows
        BY <1>2, <1>4, <1>5, RowFits DEF UpdateForm, FormRows, ProductRows
      <4>2. m.seen.deleted \in BOOLEAN /\ ~m.seen.deleted /\ m.seen.brand = m.brand
        BY <1>5, <3>1, <3>2 DEF ProductRows, Live
      <4>3. new \in ProductRows
        BY <3>5, <4>1, <4>2, RowOfForm
      <4> QED
        BY <3>5, <4>2, <4>3 DEF RowOf, UpdateForm
    <3>7. products' = [products EXCEPT ![t] = new] /\ DOMAIN products = Products
      <4>1. Updated(t, m.seen, UpdateForm(row, m.seen, m.category)) = new
        BY <1>5, <3>1, <3>5, <3>6, WrittenFresh DEF Updated
      <4> QED
        BY <1>4, <1>6, <4>1 DEF Update, TableInv, Inv, CatalogInv, ProductsOK
    <3>8. Labelled(m.category, row.category)'
      <4>1. row.category \in ValidCategories
        BY <1>5 DEF NamesOK
      <4> QED
        BY <1>1, <1>2, <1>4, <1>5, <3>1, <4>1, LabelsCommitted
    <3>9. RowWritten(t, row)
      <4>1. products'[t] = new /\ \A q \in Products \ {t} : products'[q] = products[q]
        BY <3>2, <3>7
      <4>2. Carries(t, row)' /\ Agrees(t, row)'
        BY <1>4, <3>3, <3>6, <3>8, <4>1, NullFacts DEF Carries, Agrees, Live, Exists
      <4>3. \A c, label : Labelled(c, label) => Labelled(c, label)'
        BY <1>1, <1>4, LabelsCommitted
      <4>4. \A n : HasTwin(n) => HasTwin(n)'
        BY <1>4, TwinsStay
      <4> QED
        BY <1>4, <3>2, <3>4, <4>1, <4>2, <4>3, <4>4 DEF RowWritten
    <3>10. ~HasTwin(row.brand) => Candidates(row) \subseteq {t}
      <4>1. m.brand \in BrandsFor(row.brand)
        BY <3>1 DEF BrandsFor
      <4> QED
        BY <3>1, <3>3, <4>1, FoundByBrand
    <3>11. next = [Committed(m, t) EXCEPT
                     !.stage = IF m.stage = "create" THEN "created" ELSE "updated"]
      BY <1>3, <1>4, <1>6
    <3> QED
      BY <1>2, <1>4, <1>5, <2>2, <3>9, <3>10, <3>11, CommitFaithful
  <2> QED
    BY <2>1, <2>2
<1> QED
  BY <1>4, <1>7

-----------------------------------------------------------------------------
(* The preview.                                                            *)

\* What a preview says of a row is right when it says it.
LEMMA ForecastRight ==
  ASSUME TableInv, NEW row, ~HasTwin(row.brand), NEW b \in BrandsFor(row.brand)
  PROVE  Foretold(row, Forecast(row, b))
<1> DEFINE M == Matches(row, b)
           said == Forecast(row, b)
<1>1. said = CASE ~Valid(row) -> "error"
               [] Valid(row) /\ (b = None \/ M = {}) -> "create"
               [] OTHER -> IF Cardinality(M) > 1 THEN "error"
                           ELSE IF \A p \in M : Unchanged(p, row) THEN "skip" ELSE "update"
  BY Zenon DEF Forecast
<1>2. /\ b = None => Candidates(row) = {}
      /\ b # None => M = Candidates(row)
  BY FoundByBrand
<1> HIDE DEF M, said
<1>3. M \subseteq Products
  BY DEF Matches, M
<1>4. CASE ~Valid(row)
  BY <1>1, <1>4 DEF Foretold, said
<1>5. CASE Valid(row) /\ (b = None \/ M = {})
  <2>1. Candidates(row) = {} /\ said = "create"
    BY <1>1, <1>2, <1>5
  <2> QED
    BY <1>5, <2>1 DEF Foretold, said
<1>6. CASE Valid(row) /\ b # None /\ M # {}
  <2>1. M = Candidates(row)
    BY <1>2, <1>6
  <2>2. CASE Cardinality(M) > 1
    BY <1>1, <1>6, <2>1, <2>2 DEF Foretold, said
  <2>3. CASE ~(Cardinality(M) > 1)
    <3>1. said \in {"skip", "update"}
      BY <1>1, <1>6, <2>3
    <3>2. \E p \in Products : Candidates(row) = {p}
      BY <1>3, <1>6, <2>1, <2>3, Several
    <3> QED
      BY <1>6, <3>1, <3>2 DEF Foretold, said
  <2> QED
    BY <2>2, <2>3
<1> QED
  BY <1>4, <1>5, <1>6

-----------------------------------------------------------------------------
(* Every step.                                                             *)

\* A step of one import that no other takes part in ...
LEMMA StayKeeps ==
  ASSUME TableInv, AllFaithful, UNCHANGED Views, NEW i \in Importers, NEW next, Stay(i, next),
         Faithful(next)'
  PROVE  AllFaithful'
<1>1. imports' = [imports EXCEPT ![i] = next] /\ UNCHANGED staged /\ DOMAIN imports = Importers
  BY DEF Stay, TableInv, Inv, CatalogInv, ImportSound
<1>2. ASSUME NEW j \in Importers PROVE Faithful(imports[j])'
  <2>1. CASE j = i
    BY <1>1, <2>1
  <2>2. CASE j # i
    <3>1. PICK m : m = imports[j]
      OBVIOUS
    <3>2. imports'[j] = m /\ Faithful(m)'
      BY <1>1, <2>2, <3>1, FaithfulStays DEF AllFaithful
    <3> QED
      BY <3>2
  <2> QED
    BY <2>1, <2>2
<1>3. ASSUME NEW t \in Tokens PROVE Announced(staged[t])'
  <2>1. PICK file : file = staged[t]
    OBVIOUS
  <2>2. staged'[t] = file /\ Announced(file)'
    BY <1>1, <2>1, AnnouncedStays DEF AllFaithful
  <2> QED
    BY <2>2
<1> QED
  BY <1>2, <1>3 DEF AllFaithful

\* ... and a commit, of an import or of another request.
LEMMA DisturbKeeps ==
  ASSUME TableInv, AllFaithful, NEW own, Disturb(own),
         \A i \in DOMAIN own : \A next : next = own[i] => Faithful(next)'
  PROVE  AllFaithful'
<1>1. ASSUME NEW i \in Importers PROVE Faithful(imports[i])'
  <2>1. PICK next : next = imports'[i]
    OBVIOUS
  <2>2. CASE i \in DOMAIN own
    <3>1. next = own[i]
      BY <2>1, <2>2 DEF Disturb
    <3> QED
      BY <2>1, <2>2, <3>1
  <2>3. CASE i \notin DOMAIN own
    <3>1. PICK m : m = imports[i]
      OBVIOUS
    <3>2. next = [m EXCEPT !.quiet = FALSE, !.alone = FALSE, !.again = FALSE]
      BY <2>1, <2>3, <3>1 DEF Disturb
    <3>3. DOMAIN m = {"stage", "token", "rows", "row", "results", "target", "seen", "brand",
                      "category", "draft", "forecast", "quiet", "alone", "again"}
      BY <3>1, ImportFields
    <3>4. /\ next.stage = m.stage /\ next.results = m.results /\ next.row = m.row
          /\ next.rows = m.rows /\ next.draft = m.draft /\ next.target = m.target
          /\ ~next.alone /\ ~next.quiet
      BY <3>2, <3>3
    <3>5. Steady(m)
      BY <3>1 DEF AllFaithful, Faithful
    <3>6. Faithful(next)'
      BY <3>4, <3>5, Disturbed
    <3> QED
      BY <2>1, <3>6
  <2> QED
    BY <2>2, <2>3
<1>2. ASSUME NEW t \in Tokens PROVE Announced(staged[t])'
  <2>1. staged'[t] = IF staged[t] = None THEN None ELSE [staged[t] EXCEPT !.quiet = FALSE]
    BY DEF Disturb
  <2>2. staged'[t] = None \/ ("quiet" \in DOMAIN staged'[t] /\ ~staged'[t].quiet)
    BY <2>1 DEF AllFaithful, Announced
  <2> QED
    BY <2>2 DEF Announced
<1> QED
  BY <1>1, <1>2 DEF AllFaithful

LEMMA OwnKeeps ==
  ASSUME TableInv, AllFaithful, NEW i \in Importers, NEW next, Disturb(Own(i, next)),
         Faithful(next)'
  PROVE  AllFaithful'
<1>1. DOMAIN Own(i, next) = {i} /\ Own(i, next)[i] = next
  BY DEF Own
<1> QED
  BY <1>1, DisturbKeeps

LEMMA TablesViewed ==
  ASSUME UNCHANGED <<tables, sales>> PROVE UNCHANGED Views
BY DEF tables, sales, Views

LEMMA PreviewKeeps ==
  ASSUME TableInv, AllFaithful, NEW t \in Tokens, NEW file \in Files, Preview(t, file)
  PROVE  AllFaithful'
<1>1. PICK pick \in [1..Len(file.data) -> Brands \union {None}] :
        /\ \A k \in DOMAIN pick : pick[k] \in BrandsFor(ParsedRows(file)[k].brand)
        /\ staged' = [staged EXCEPT ![t] =
             [rows |-> ParsedRows(file), quiet |-> TRUE,
              forecast |-> [k \in DOMAIN pick |-> Forecast(ParsedRows(file)[k], pick[k])]]]
  BY DEF Preview
<1>2. UNCHANGED <<tables, sales, imports>> /\ DOMAIN staged = Tokens
  BY DEF Preview, TableInv, Inv, CatalogInv, ImportSound
<1>3. UNCHANGED Views
  BY <1>2, TablesViewed
<1>4. PICK new : new = [rows |-> ParsedRows(file), quiet |-> TRUE,
                        forecast |-> [k \in DOMAIN pick |->
                                        Forecast(ParsedRows(file)[k], pick[k])]]
  OBVIOUS
<1>5. Announced(new)
  <2>1. new.rows = ParsedRows(file) /\ "quiet" \in DOMAIN new
        /\ new.forecast = [k \in DOMAIN pick |-> Forecast(ParsedRows(file)[k], pick[k])]
    BY <1>4
  <2>2. DOMAIN ParsedRows(file) = 1..Len(file.data) /\ DOMAIN pick = 1..Len(file.data)
    BY DEF ParsedRows
  <2>3. ASSUME NEW k \in 1..Len(file.data), ~HasTwin(ParsedRows(file)[k].brand)
        PROVE  Foretold(ParsedRows(file)[k], Forecast(ParsedRows(file)[k], pick[k]))
    BY <1>1, <2>2, <2>3, ForecastRight
  <2> QED
    BY <2>1, <2>2, <2>3 DEF Announced
<1>6. ASSUME NEW u \in Tokens PROVE Announced(staged[u])'
  <2>1. CASE u = t
    BY <1>1, <1>2, <1>3, <1>4, <1>5, <2>1, AnnouncedStays
  <2>2. CASE u # t
    <3>1. PICK other : other = staged[u]
      OBVIOUS
    <3>2. staged'[u] = other /\ Announced(other)'
      BY <1>1, <1>2, <1>3, <2>2, <3>1, AnnouncedStays DEF AllFaithful
    <3> QED
      BY <3>2
  <2> QED
    BY <2>1, <2>2
<1>7. ASSUME NEW i \in Importers PROVE Faithful(imports[i])'
  <2>1. PICK m : m = imports[i]
    OBVIOUS
  <2>2. imports'[i] = m /\ Faithful(m)'
    BY <1>2, <1>3, <2>1, FaithfulStays DEF AllFaithful
  <2> QED
    BY <2>2
<1> QED
  BY <1>6, <1>7 DEF AllFaithful

LEMMA ConfirmKeeps ==
  ASSUME TableInv, AllFaithful, NEW i \in Importers, NEW t \in Tokens, Confirm(i, t)
  PROVE  AllFaithful'
<1> DEFINE file == staged[t]
           next == [NoImport EXCEPT !.stage = "lookup", !.token = t, !.rows = file.rows,
                      !.forecast = file.forecast, !.quiet = file.quiet, !.alone = TRUE,
                      !.again = (last = file.rows)]
<1>1. /\ Stay(i, next) /\ file # None /\ Announced(file) /\ RowsOK(file.rows)
      /\ UNCHANGED <<tables, sales>>
  BY DEF Confirm, AllFaithful, TableInv, Inv, CatalogInv, ImportSound, StagedOK
<1>2. /\ next.stage = "lookup" /\ next.row = 1 /\ next.rows = file.rows /\ next.results = <<>>
      /\ next.forecast = file.forecast /\ next.quiet = file.quiet /\ next.alone = TRUE
      /\ next.draft = <<>>
  BY DEF NoImport
<1> HIDE DEF next, file
<1>3. Steady(next)
  <2>1. next.results \in Seq(Outcomes) /\ Len(next.results) = next.row - 1
        /\ DraftOK(next.draft)
    BY <1>2 DEF DraftOK
  <2> QED
    BY <1>2, <2>1 DEF Steady, Unwritten, Created, Changing
<1>4. AtWork(next)
  BY <1>2 DEF AtWork, Created, Changing
<1>5. Left(next)
  BY <1>1, <1>2 DEF Left, RowsOK
<1>6. next.quiet => Foreseen(next)
  <2>1. DOMAIN file.rows = 1..Len(file.rows) /\ Len(file.rows) \in Nat
    BY <1>1 DEF RowsOK
  <2>2. \A k \in 1..Len(file.rows) : ~(k < 1)
    BY <2>1
  <2> QED
    BY <1>1, <1>2, <2>1, <2>2 DEF Foreseen, Announced, Created, Changing
<1>7. PICK done : done = next
  OBVIOUS
<1>8. UNCHANGED Views
  BY <1>1, TablesViewed
<1>9. Faithful(done)'
  BY <1>2, <1>3, <1>4, <1>5, <1>6, <1>7, <1>8, FaithfulStays DEF Faithful
<1> QED
  BY <1>1, <1>7, <1>8, <1>9, StayKeeps

LEMMA FinishKeeps ==
  ASSUME TableInv, AllFaithful, NEW i \in Importers, Finish(i) PROVE AllFaithful'
<1>1. /\ imports' = [imports EXCEPT ![i] = NoImport]
      /\ staged' = [staged EXCEPT ![imports[i].token] = None]
      /\ UNCHANGED <<tables, sales>>
      /\ DOMAIN imports = Importers /\ DOMAIN staged = Tokens
  BY DEF Finish, catalogVars, TableInv, Inv, CatalogInv, ImportSound
<1>2. UNCHANGED Views
  BY <1>1, TablesViewed
<1>3. ASSUME NEW j \in Importers PROVE Faithful(imports[j])'
  <2>1. CASE j = i
    <3>1. imports'[j] = NoImport
      BY <1>1, <2>1
    <3> QED
      BY <3>1, NoImportFaithful DEF NoImport
  <2>2. CASE j # i
    <3>1. PICK m : m = imports[j]
      OBVIOUS
    <3>2. imports'[j] = m /\ Faithful(m)'
      BY <1>1, <1>2, <2>2, <3>1, FaithfulStays DEF AllFaithful
    <3> QED
      BY <3>2
  <2> QED
    BY <2>1, <2>2
<1>4. ASSUME NEW t \in Tokens PROVE Announced(staged[t])'
  <2>1. CASE staged'[t] = None
    BY <2>1 DEF Announced
  <2>2. CASE staged'[t] # None
    <3>1. PICK file : file = staged[t]
      OBVIOUS
    <3>2. staged'[t] = file /\ Announced(file)'
      BY <1>1, <1>2, <2>2, <3>1, AnnouncedStays DEF AllFaithful
    <3> QED
      BY <3>2
  <2> QED
    BY <2>1, <2>2
<1> QED
  BY <1>3, <1>4 DEF AllFaithful

LEMMA ContinueKeeps ==
  ASSUME TableInv, TableInv', ReservedExist, AllFaithful, NEW i \in Importers,
         ContinueImport(i)
  PROVE  AllFaithful'
<1>1. Faithful(imports[i])
  BY DEF AllFaithful
<1>2. ASSUME NEW next, Stay(i, next), Faithful(next), UNCHANGED Views PROVE AllFaithful'
  BY <1>2, FaithfulStays, StayKeeps
<1>3. CASE RowRefused(i) \/ RowStockRefused(i) \/ PhotoRefused(i)
  <2>1. PICK next : next = Advance(imports[i], "error")
    OBVIOUS
  <2>2. Stay(i, next) /\ UNCHANGED <<tables, sales>>
    BY <1>3, <2>1 DEF RowRefused, RowStockRefused, PhotoRefused, catalogVars
  <2>3. Faithful(next)
    BY <1>1, <1>3, <2>1, RefusedFaithful, StockRefusedFaithful, PhotoRefusedFaithful
  <2> QED
    BY <1>2, <2>2, <2>3, TablesViewed
<1>4. CASE RowLookup(i)
  <2>1. PICK next : Stay(i, next) /\ Faithful(next)
    BY <1>1, <1>4, LookupFaithful
  <2>2. UNCHANGED <<tables, sales>>
    BY <1>4 DEF RowLookup, catalogVars
  <2> QED
    BY <1>2, <2>1, <2>2, TablesViewed
<1>5. CASE RowCreate(i)
  BY <1>1, <1>5, CreateFaithful, OwnKeeps
<1>6. CASE RowUpdate(i)
  BY <1>1, <1>6, UpdateFaithful, OwnKeeps
<1>7. CASE RowStock(i)
  <2>1. PICK next : next = [imports[i] EXCEPT !.seen = None,
                              !.stage = IF imports[i].stage = "created" THEN "create-photo"
                                                                        ELSE "update-photo"]
    OBVIOUS
  <2>2. Disturb(Own(i, next))
    BY <1>7, <2>1 DEF RowStock
  <2>3. Faithful(next)'
    BY <1>1, <1>7, <2>1, StockFaithful
  <2> QED
    BY <2>2, <2>3, OwnKeeps
<1>8. CASE RowPhoto(i)
  <2>1. PICK next : next = Advance(imports[i], IF imports[i].stage = "create-photo"
                                               THEN "create" ELSE "update")
    OBVIOUS
  <2>2. /\ Disturb(Own(i, next)) \/ Stay(i, next)
        /\ UNCHANGED <<products, brands, categories, onHand, sales>>
    BY <1>8, <2>1 DEF RowPhoto
  <2>3. Faithful(next) /\ UNCHANGED Views
    BY <1>1, <1>8, <2>1, <2>2, PhotoFaithful DEF Views, sales
  <2>4. Faithful(next)'
    BY <2>3, FaithfulStays
  <2> QED
    BY <1>2, <2>2, <2>3, <2>4, OwnKeeps
<1>9. CASE Finish(i)
  BY <1>9, FinishKeeps
<1>10. CASE Crash(i)
  <2>1. Stay(i, NoImport) /\ UNCHANGED <<tables, sales>>
    BY <1>10 DEF Crash, catalogVars
  <2> QED
    BY <1>2, <2>1, NoImportFaithful, TablesViewed
<1> QED
  BY <1>3, <1>4, <1>5, <1>6, <1>7, <1>8, <1>9, <1>10 DEF ContinueImport

\* Orders reserve products that exist, and products stay in the table.
LEMMA ReservedStay ==
  ASSUME TableInv, ReservedExist, ImportNext PROVE ReservedExist'
<1>1. Step /\ WorkSound
  BY EveryStep DEF TableInv, Inv, CatalogInv
<1>2. \A p \in Products : products[p] # None => products'[p] # None
  BY <1>1, AllRows, NothingVanishes DEF TableInv, Inv, CatalogInv, Step
<1>3. ASSUME NEW p \in Products, p \in reserved' PROVE p \in reserved \/ Exists(p)
  <2>1. CASE UNCHANGED sales \/ SalesShrink
    BY <1>3, <2>1 DEF sales, SalesShrink
  <2>2. ASSUME NEW r \in Requests, CommitCart(r) \/ CommitOrder(r)
        PROVE  p \in reserved \/ Exists(p)
    BY <1>1, <1>3, <2>2 DEF CommitCart, CommitOrder, WorkSound, WorkOK
  <2> QED
    BY <1>1, <2>1, <2>2 DEF Step, ProductStep, SalesStep
<1> QED
  BY <1>2, <1>3 DEF ReservedExist, Exists

LEMMA NextImports ==
  ASSUME TableInv, TableInv', ReservedExist, AllFaithful, ImportNext
  PROVE  ReservedExist' /\ AllFaithful'
<1>1. CASE CatalogStep
  <2>1. CASE UNCHANGED <<tables, sales>>
    <3>1. UNCHANGED <<imports, staged>> /\ UNCHANGED Views
      BY <1>1, <2>1, TablesViewed DEF CatalogStep, importVars
    <3>2. ASSUME NEW i \in Importers PROVE Faithful(imports[i])'
      <4>1. PICK m : m = imports[i]
        OBVIOUS
      <4>2. imports'[i] = m /\ Faithful(m)'
        BY <3>1, <4>1, FaithfulStays DEF AllFaithful
      <4> QED
        BY <4>2
    <3>3. ASSUME NEW t \in Tokens PROVE Announced(staged[t])'
      <4>1. PICK file : file = staged[t]
        OBVIOUS
      <4>2. staged'[t] = file /\ Announced(file)'
        BY <3>1, <4>1, AnnouncedStays DEF AllFaithful
      <4> QED
        BY <4>2
    <3> QED
      BY <3>2, <3>3, ReservedStay DEF AllFaithful
  <2>2. CASE ~UNCHANGED <<tables, sales>>
    <3>1. Disturb(<<>>)
      BY <1>1, <2>2 DEF CatalogStep
    <3>2. DOMAIN <<>> = {}
      OBVIOUS
    <3>3. AllFaithful'
      BY <3>1, <3>2, DisturbKeeps
    <3> QED
      BY <3>3, ReservedStay
  <2> QED
    BY <2>1, <2>2
<1>2. CASE ImportForms
  BY <1>2, PreviewKeeps, ConfirmKeeps, ReservedStay DEF ImportForms
<1>3. CASE \E i \in Importers : ContinueImport(i)
  BY <1>3, ContinueKeeps, ReservedStay
<1> QED
  BY <1>1, <1>2, <1>3 DEF ImportNext

\* What is true of the imports, the previews and the tables they are about stays
\* true, whatever requests, jobs and other imports come in between.
THEOREM ImportInvariant == ImportSpec => []ImportInv
<1>1. ImportInit => ImportInv
  <2>1. SUFFICES ASSUME ImportInit PROVE ImportInv
    OBVIOUS
  <2>2. ReservedExist
    BY <2>1 DEF ImportInit, Init, ReservedExist
  <2>3. AllFaithful
    BY <2>1, NoImportFaithful DEF ImportInit, AllFaithful, Announced
  <2> QED
    BY <2>1, <2>2, <2>3, InitTables DEF ImportInv
<1>2. ImportInv /\ [ImportNext]_allVars => ImportInv'
  <2>1. SUFFICES ASSUME ImportInv, [ImportNext]_allVars PROVE ImportInv'
    OBVIOUS
  <2>2. TableInv /\ TableInv' /\ ReservedExist /\ AllFaithful
    BY <2>1, NextTables DEF ImportInv
  <2>3. CASE ImportNext
    BY <2>2, <2>3, NextImports DEF ImportInv
  <2>4. CASE UNCHANGED allVars
    <3>1. /\ UNCHANGED <<imports, staged, products, reserved>> /\ UNCHANGED Views
      BY <2>4 DEF allVars, catalogVars, importVars, tables, sales, Views
    <3>2. ASSUME NEW i \in Importers PROVE Faithful(imports[i])'
      <4>1. PICK m : m = imports[i]
        OBVIOUS
      <4>2. imports'[i] = m /\ Faithful(m)'
        BY <2>2, <3>1, <4>1, FaithfulStays DEF AllFaithful
      <4> QED
        BY <4>2
    <3>3. ASSUME NEW t \in Tokens PROVE Announced(staged[t])'
      <4>1. PICK file : file = staged[t]
        OBVIOUS
      <4>2. staged'[t] = file /\ Announced(file)'
        BY <2>2, <3>1, <4>1, AnnouncedStays DEF AllFaithful
      <4> QED
        BY <4>2
    <3>4. ReservedExist'
      BY <2>2, <3>1 DEF ReservedExist, Exists
    <3> QED
      BY <2>2, <3>2, <3>3, <3>4 DEF ImportInv, AllFaithful
  <2> QED
    BY <2>1, <2>3, <2>4
<1> QED
  BY <1>1, <1>2, PTL DEF ImportSpec

\* An import that nobody's commit came into leaves one live product for every row it
\* reports as created or updated, with the row's price, status, stock and category,
\* for any file and any catalogue to start from (apply_staged, _import_single_row).
THEOREM ImportsLeaveRows == ImportSpec => []ImportLeavesRows
<1>1. ImportInv => ImportLeavesRows
  <2>1. SUFFICES ASSUME ImportInv, NEW i \in Importers, imports[i].row > Len(imports[i].rows),
                        imports[i].alone, NEW k \in 1..Len(imports[i].rows),
                        imports[i].results[k] \in {"create", "update"},
                        \A j \in k + 1..Len(imports[i].rows) :
                          ~SameKey(imports[i].rows[k], imports[i].rows[j]),
                        Plain(imports[i].rows[k]), ~HasTwin(imports[i].rows[k].brand)
                 PROVE  \E p \in Products :
                          /\ ProductsOf(imports[i].rows[k]) = {p}
                          /\ products[p].sale = imports[i].rows[k].sale
                          /\ products[p].status = imports[i].rows[k].status
                          /\ onHand[p] = imports[i].rows[k].stock
                          /\ categories[products[p].category].name = imports[i].rows[k].category
    BY DEF ImportLeavesRows, Plain
  <2> DEFINE m == imports[i]
             row == m.rows[k]
  <2>2. RowsOK(m.rows) /\ m.row \in Nat
    BY <2>1, ImportFields DEF ImportInv, ImportOK
  <2>3. k < m.row
    BY <2>1, <2>2 DEF RowsOK
  <2>4. Left(m) /\ Counts(m, k)
    BY <2>1 DEF ImportInv, AllFaithful, Faithful, Counts, Final
  <2>5. LeftAs(row)
    BY <2>1, <2>3, <2>4 DEF Left
  <2>6. ProductsOf(row) = Candidates(row)
    BY <2>1 DEF ProductsOf, Candidates, Plain
  <2> QED
    BY <2>5, <2>6 DEF LeftAs, Agrees, Labelled
<1> QED
  BY <1>1, ImportInvariant, PTL

\* The report of an import is the one its preview announced as long as nothing was
\* committed in between, for any file and any catalogue, but for rows that are errors
\* because of their stock or their photo; these have their product in the catalogue
\* all the same (preview_upload, _preview_single_row, _import_single_row).
THEOREM PreviewsForetell == ImportSpec => []PreviewForetells
<1>1. ImportInv => PreviewForetells
  <2>1. SUFFICES ASSUME ImportInv, NEW i \in Importers, imports[i].row > Len(imports[i].rows),
                        imports[i].quiet, NEW k \in 1..Len(imports[i].rows),
                        First(imports[i], k), ~HasTwin(imports[i].rows[k].brand)
                 PROVE  CameTrue(imports[i].rows[k], imports[i].forecast[k],
                                 imports[i].results[k])
    BY DEF PreviewForetells, First, CameTrue
  <2>2. RowsOK(imports[i].rows) /\ imports[i].row \in Nat
    BY <2>1, ImportFields DEF ImportInv, ImportOK
  <2>3. k < imports[i].row
    BY <2>1, <2>2 DEF RowsOK
  <2>4. Foreseen(imports[i])
    BY <2>1 DEF ImportInv, AllFaithful, Faithful
  <2> QED
    BY <2>1, <2>3, <2>4 DEF Foreseen
<1> QED
  BY <1>1, ImportInvariant, PTL
=============================================================================
