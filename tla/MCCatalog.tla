------------------------------ MODULE MCCatalog ------------------------------
(* Values for the runs of the catalogue and its price list import.         *)
EXTENDS PriceImport, CatalogViews, TLC

CONSTANTS b1, b2, c1, c2

AllNames == {"AT10", "Ball", "Grip", "X  Y"}
Texts ==
  AllNames \union {"Nox", "Head", "Accessory", "Unknown"}
           \union {"Rackets", "Rakcets", "Balls", "Accessories", "Other"}

FirstYearOf == [n \in Texts |-> IF n = "AT10" THEN 2024 ELSE None]
FirstNameBrand == [n \in Texts |-> IF n = "Ball" THEN "Head" ELSE None]
Lowered == [n \in Texts |-> IF n = "X  Y" THEN "x y" ELSE n]
Trimmed == [n \in Texts |-> IF n = "X  Y" THEN "x  y" ELSE n]
Alphabet == [n \in Texts |-> CASE n = "AT10" -> 1 [] n = "Ball" -> 2
                                  [] n = "Grip" -> 3 [] OTHER -> 4]

Slug == [n \in Texts |-> n]

Racket ==
  [name |-> "AT10", brand |-> b1, category |-> c1, year |-> 2024, cost |-> 8,
   sale |-> 12, status |-> "active"]

Table(ids, id, row) == [i \in ids |-> IF i = id THEN row ELSE None]

OneProduct == Table(Products, 1, [RowOf(Racket, FALSE) EXCEPT !.name = "AT10"])
OneBrand == Table(Brands, b1, [name |-> "Nox", slug |-> <<"Nox", 1>>])
OneCategory ==
  Table(Categories, c1, [name |-> "Rackets", slug |-> <<"Rackets", 1>>, margin |-> 25])
OneInStock == [p \in Products |-> IF p = 1 THEN 1 ELSE 0]

\* A new cost for the racket, a new price, and another product like it.
SomeForms ==
  {[Racket EXCEPT !.cost = 10],
   [Racket EXCEPT !.sale = 10, !.status = "inactive"],
   [Racket EXCEPT !.cost = None, !.category = None, !.brand = None]}

SomeMargins == {50, -200}

Header(text) == [kind |-> "header", text |-> text, stock |-> "", image |-> "none"]
Line(text, stock, image) ==
  [kind |-> "line", text |-> text, stock |-> stock, image |-> image]
Data(name, label, price) == [name |-> name, label |-> label, price |-> price]

\* Two products: one known, one new, of a new brand and category.
TwoRows ==
  [sheet |-> <<Header("Rakcets"), Line("Nox", "", "none"), Line("AT10", "Few", "good"),
               Header("Balls"), Line("Ball", "Few", "none")>>,
   data |-> <<Data("AT10", "Few", 20), Data("Ball", "Sold_Out", 5)>>]

\* A product twice, and a row that is refused.
Twice ==
  [sheet |-> <<Header("Balls"), Header("Other"), Line("Ball", "Few", "good"),
               Line("Grip", "", "good")>>,
   data |-> <<Data("Ball", "Few", 6), Data("Grip", "Few", 6), Data("Ball", "Few", 7)>>]

\* The known product, sold out, with a photo that is too large; and a row that is refused.
SoldOut ==
  [sheet |-> <<Header("Rackets"), Line("Nox", "", "none"), Line("AT10", "Sold_Out", "refused")>>,
   data |-> <<Data("AT10", "Sold_Out", 12), Data("Ball", "Few", 0)>>]

SomeFiles == {TwoRows, Twice, SoldOut}

\* A name with two blanks inside.
Blanks ==
  [sheet |-> <<Header("Rackets"), Line("Nox", "", "none"), Line("X  Y", "Few", "none")>>,
   data |-> <<Data("X  Y", "Few", 20)>>]

BlankFile == {Blanks}

Symmetry == Permutations(Requests) \union Permutations(Importers) \union Permutations(Keys)
=============================================================================
