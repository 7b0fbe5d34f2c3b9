------------------------- MODULE Catalog_table_proofs -------------------------
(***************************************************************************)
(* More about the catalogue composed with the price list import: what the  *)
(* foreign keys keep, what a repricing job leaves, and what the pages of   *)
(* the storefront show, for any tables, files and numbers of requests.     *)
(*                                                                         *)
(* A row of a product refers to rows that exist because whoever writes a   *)
(* reference checks it against the table in the same commit, and whoever   *)
(* removes a row checks that nothing refers to it (ReferencesKept). That   *)
(* what is written is a row at all rests on the parser (SheetNames) and on *)
(* the free slug that _unique_slug finds (SlugFound).                      *)
(***************************************************************************)
EXTENDS Catalog_proofs, CatalogViews, Ranks

-----------------------------------------------------------------------------
(* What the parser reads in a price sheet.                                 *)

SheetLines == [kind : {"header", "line"}, text : Names, stock : STRING, image : Photos]

Headings == ValidCategories \union {NoMeta.category}

MetaOK(meta) ==
  \A name \in DOMAIN meta :
    meta[name].category \in Headings /\ meta[name].brand \in Names \union {None}

ScanOK(state) ==
  /\ DOMAIN state = {"category", "brand", "meta"}
  /\ state.category \in Headings
  /\ state.brand \in Names \union {None}
  /\ MetaOK(state.meta)

\* A line changes one thing of the state.
LEMMA ScanLineWrites ==
  ASSUME NEW state, NEW line
  PROVE  LET next == ScanLine(state, line)
         IN \/ next = state
            \/ /\ HeaderCategory(line.text) \in ValidCategories
               /\ next = [state EXCEPT !.category = HeaderCategory(line.text), !.brand = None]
            \/ next = [state EXCEPT !.brand = line.text]
            \/ next = [state EXCEPT !.meta = Put(@, line.text,
                                                 [category |-> state.category,
                                                  brand |-> state.brand,
                                                  image |-> line.image])]
BY Zenon DEF ScanLine

LEMMA ScanLineOK ==
  ASSUME NEW state, ScanOK(state), NEW line \in SheetLines PROVE ScanOK(ScanLine(state, line))
<1> DEFINE next == ScanLine(state, line)
           row == [category |-> state.category, brand |-> state.brand, image |-> line.image]
           head == HeaderCategory(line.text)
<1>1. line.text \in Names
  BY DEF SheetLines
<1>2. \/ next = state
      \/ head \in ValidCategories /\ next = [state EXCEPT !.category = head, !.brand = None]
      \/ next = [state EXCEPT !.brand = line.text]
      \/ next = [state EXCEPT !.meta = Put(@, line.text, row)]
  BY ScanLineWrites
<1>3. MetaOK(Put(state.meta, line.text, row))
  BY DEF ScanOK, MetaOK, Put
<1> SUFFICES ScanOK(next)
  OBVIOUS
<1> HIDE DEF next, row, head
<1>4. CASE head \in ValidCategories /\ next = [state EXCEPT !.category = head, !.brand = None]
  BY <1>4 DEF ScanOK, Headings
<1>5. CASE next = [state EXCEPT !.brand = line.text]
  BY <1>1, <1>5 DEF ScanOK
<1>6. CASE next = [state EXCEPT !.meta = Put(@, line.text, row)]
  BY <1>3, <1>6 DEF ScanOK
<1> QED
  BY <1>2, <1>4, <1>5, <1>6

\* The states after 0, 1, ... n lines.
ScanFrom(f, first, lines, n) ==
  f = [k \in 0..n |-> IF k = 0 THEN first ELSE ScanLine(f[k - 1], lines[k])]

LEMMA ScanExists ==
  ASSUME NEW first, NEW lines, NEW n \in Nat PROVE \E f : ScanFrom(f, first, lines, n)
<1> DEFINE S == {m \in Nat : \E f : ScanFrom(f, first, lines, m)}
<1>1. 0 \in S
  <2>1. ScanFrom([k \in 0..0 |-> first], first, lines, 0)
    BY DEF ScanFrom
  <2> QED
    BY <2>1
<1>2. ASSUME NEW m \in S PROVE m + 1 \in S
  <2>1. PICK f : ScanFrom(f, first, lines, m)
    OBVIOUS
  <2> DEFINE g == [k \in 0..m + 1 |-> IF k = m + 1 THEN ScanLine(f[m], lines[m + 1]) ELSE f[k]]
  <2>2. \A k \in 0..m : f[k] = IF k = 0 THEN first ELSE ScanLine(f[k - 1], lines[k])
    BY <2>1 DEF ScanFrom
  <2>3. ASSUME NEW k \in 0..m + 1
        PROVE  g[k] = IF k = 0 THEN first ELSE ScanLine(g[k - 1], lines[k])
    <3>1. CASE k = m + 1
      BY <3>1
    <3>2. CASE k # m + 1
      <4>1. k \in 0..m /\ (k # 0 => k - 1 \in 0..m)
        BY <3>2
      <4> QED
        BY <2>2, <4>1
    <3> QED
      BY <3>1, <3>2
  <2>4. ScanFrom(g, first, lines, m + 1)
    BY <2>3 DEF ScanFrom
  <2> QED
    BY <2>4
<1> HIDE DEF S
<1>3. S = Nat
  BY <1>1, <1>2, NaturalsReached DEF S
<1> QED
  BY <1>3 DEF S

LEMMA ScanTypes ==
  ASSUME NEW first, ScanOK(first), NEW n \in Nat, NEW lines, \A k \in 1..n : lines[k] \in SheetLines,
         NEW f, ScanFrom(f, first, lines, n)
  PROVE  ScanOK(f[n])
<1> DEFINE S == {k \in Nat : k <= n => ScanOK(f[k])}
<1>1. \A k \in 0..n : f[k] = IF k = 0 THEN first ELSE ScanLine(f[k - 1], lines[k])
  BY DEF ScanFrom
<1>2. 0 \in S
  BY <1>1
<1>3. ASSUME NEW k \in S PROVE k + 1 \in S
  <2>1. CASE k + 1 <= n
    <3>1. ScanOK(f[k]) /\ lines[k + 1] \in SheetLines /\ f[k + 1] = ScanLine(f[k], lines[k + 1])
      BY <1>1, <2>1
    <3> QED
      BY <3>1, ScanLineOK
  <2>2. CASE ~(k + 1 <= n)
    BY <2>2
  <2> QED
    BY <2>1, <2>2
<1> HIDE DEF S
<1>4. S = Nat
  BY <1>2, <1>3, NaturalsReached DEF S
<1> QED
  BY <1>4 DEF S

LEMMA SheetNames ==
  ASSUME NEW file \in Files PROVE MetaOK(SheetMeta(file.sheet))
<1> DEFINE lines == file.sheet
           n == Len(lines)
           first == [category |-> NoMeta.category, brand |-> None, meta |-> <<>>]
           scan == CHOOSE f : ScanFrom(f, first, lines, n)
<1>1. n \in Nat /\ \A k \in 1..n : lines[k] \in SheetLines
  <2>1. ASSUME NEW T, NEW s \in Seq(T) PROVE Len(s) \in Nat /\ \A k \in 1..Len(s) : s[k] \in T
    OBVIOUS
  <2>2. lines \in Seq(SheetLines)
    BY FilesAssumption DEF SheetLines
  <2> QED
    BY <2>1, <2>2
<1>2. SheetMeta(lines) = scan[n].meta
  BY Zenon DEF SheetMeta, ScanFrom, NoMeta
<1>3. ScanFrom(scan, first, lines, n)
  BY <1>1, ScanExists
<1>4. ScanOK(first)
  BY DEF ScanOK, Headings, MetaOK
<1> HIDE DEF scan, first, n
<1>5. ScanOK(scan[n])
  BY <1>1, <1>3, <1>4, ScanTypes
<1> QED
  BY <1>2, <1>5 DEF ScanOK

\* Names that end up in the tables, and a stock that does.
NamesOK(row) ==
  /\ row.brand \in Names
  /\ Valid(row) => row.category \in ValidCategories
  /\ row.stock \in Nat

LEMMA ResolvedBrand ==
  ASSUME NEW name \in Names, NEW category, NEW sub \in Names \union {None}
  PROVE  ResolveBrand(name, category, sub) \in Names
<1>1. NameBrand[name] \in Names \union {None} /\ "Accessory" \in Names /\ "Unknown" \in Names
  BY ReadingAssumption, VocabularyAssumption
<1> QED
  BY <1>1 DEF ResolveBrand

LEMMA ValidHeading ==
  ASSUME NEW row, Valid(row), row.category \in Headings PROVE row.category \in ValidCategories
<1>1. row.category # NoMeta.category
  BY Zenon DEF Valid, NoMeta
<1> QED
  BY <1>1 DEF Headings

LEMMA NormalizedNames ==
  ASSUME NEW raw, raw.name \in Names, NEW meta, MetaOK(meta)
  PROVE  NamesOK(Normalized(raw, meta))
<1> DEFINE m == IF raw.name \in DOMAIN meta THEN meta[raw.name] ELSE NoMeta
           row == Normalized(raw, meta)
<1>1. m.category \in Headings /\ m.brand \in Names \union {None}
  <2>1. NoMeta.brand = None /\ NoMeta.category \in Headings
    BY Zenon DEF NoMeta, Headings
  <2> QED
    BY <2>1 DEF MetaOK
<1> HIDE DEF m
<1>2. /\ row.category = m.category
      /\ row.brand = ResolveBrand(raw.name, m.category, m.brand)
      /\ row.stock = IF raw.label \in DOMAIN StockOf THEN StockOf[raw.label] ELSE 0
  BY DEF Normalized, m
<1>3. row.stock \in Nat
  BY <1>2 DEF StockOf
<1> HIDE DEF row
<1>4. row.brand \in Names
  BY <1>1, <1>2, ResolvedBrand
<1>5. Valid(row) => row.category \in ValidCategories
  BY <1>1, <1>2, ValidHeading
<1> QED
  BY <1>3, <1>4, <1>5 DEF NamesOK, row

LEMMA ParsedNames ==
  ASSUME NEW file \in Files
  PROVE  \A k \in DOMAIN ParsedRows(file) : NamesOK(ParsedRows(file)[k])
<1>1. SUFFICES ASSUME NEW k \in 1..Len(file.data)
               PROVE  NamesOK(Normalized(file.data[k], SheetMeta(file.sheet)))
  BY DEF ParsedRows
<1> DEFINE Raw == [name : Names, label : STRING, price : Int]
<1>2. file.data \in Seq(Raw)
  BY FilesAssumption
<1>3. file.data[k] \in Raw
  <2>1. ASSUME NEW T, NEW s \in Seq(T), NEW j \in 1..Len(s) PROVE s[j] \in T
    OBVIOUS
  <2> HIDE DEF Raw
  <2> QED
    BY <1>2, <2>1
<1> QED
  BY <1>3, SheetNames, NormalizedNames

-----------------------------------------------------------------------------
(* The free slug.                                                          *)

LEMMA RowsFinite ==
  ASSUME NEW I, IsFiniteSet(I), NEW table, DOMAIN table = I
  PROVE  IsFiniteSet(Rows(table)) /\ Cardinality(Rows(table)) \in Nat
<1> DEFINE T == {table[i] : i \in I}
           g == [i \in I |-> table[i]]
<1>1. g \in Surjection(I, T)
  <2>1. g \in [I -> T] /\ \A t \in T : \E i \in I : g[i] = t
    OBVIOUS
  <2> HIDE DEF g, T
  <2> QED
    BY <2>1, Fun_IsSurj
<1>2. IsFiniteSet(T)
  BY <1>1, FS_Surjection
<1>3. Rows(table) = T \ {None}
  BY DEF Rows
<1> HIDE DEF T
<1> QED
  BY <1>2, <1>3, FS_RemoveElement, FS_CardinalityType

\* Of one number more than there are rows, one is free.
LEMMA NumberFree ==
  ASSUME NEW R, IsFiniteSet(R), NEW base
  PROVE  \E n \in 1..Cardinality(R) + 1 : \A row \in R : row.slug # <<base, n>>
<1> DEFINE I == 1..Cardinality(R) + 1
           taken == [n \in I |-> CHOOSE row \in R : row.slug = <<base, n>>]
<1>1. Cardinality(R) \in Nat
  BY FS_CardinalityType
<1>2. IsFiniteSet(I) /\ Cardinality(I) = Cardinality(R) + 1
  <2>1. /\ IsFiniteSet(I)
        /\ Cardinality(I) = IF 1 > Cardinality(R) + 1 THEN 0 ELSE Cardinality(R) + 1 - 1 + 1
    BY <1>1, FS_Interval
  <2> HIDE DEF I
  <2> QED
    BY <1>1, <2>1
<1> HIDE DEF I
<1> SUFFICES ASSUME \A n \in I : \E row \in R : row.slug = <<base, n>> PROVE FALSE
  BY DEF I
<1>3. taken \in [I -> R] /\ \A n \in I : taken[n].slug = <<base, n>>
  OBVIOUS
<1> HIDE DEF taken
<1>4. \A m, n \in I : taken[m] = taken[n] => m = n
  BY <1>3
<1>5. Cardinality(I) <= Cardinality(R)
  BY <1>3, <1>4, Fun_IsInj, FS_Injection
<1> QED
  BY <1>1, <1>2, <1>5

LEMMA SlugFound ==
  ASSUME NEW I, IsFiniteSet(I), NEW table, DOMAIN table = I, NEW name \in Names
  PROVE  /\ FreeSlug(table, name) \in Slugs
         /\ \A row \in Rows(table) : row.slug # FreeSlug(table, name)
<1> DEFINE R == Rows(table)
           base == SlugBase[name]
           N == {n \in 1..Cardinality(R) + 1 : \A row \in R : row.slug # <<base, n>>}
           P(s) == /\ \A row \in R : row.slug # s
                   /\ \A n \in 1..(s[2] - 1) : \E row \in R : row.slug = <<s[1], n>>
           Offered == {base} \X (1..(Cardinality(R) + 1))
<1>1. IsFiniteSet(R) /\ Cardinality(R) \in Nat
  BY RowsFinite
<1> HIDE DEF R
<1>2. N \in SUBSET Nat /\ N # {}
  <2>1. \E n \in 1..Cardinality(R) + 1 : \A row \in R : row.slug # <<base, n>>
    BY <1>1, NumberFree
  <2>2. 1..Cardinality(R) + 1 \subseteq Nat
    BY <1>1
  <2> QED
    BY <2>1, <2>2
<1>3. PICK n \in N : \A m \in N : n <= m
  <2> HIDE DEF N
  <2> QED
    BY <1>2, LeastNatural
<1>4. <<base, n>> \in Offered
  BY <1>1
<1>5. P(<<base, n>>)
  <2>1. n \in Nat \ {0} /\ n <= Cardinality(R) + 1 /\ \A row \in R : row.slug # <<base, n>>
    BY <1>1
  <2>2. ASSUME NEW m \in 1..n - 1 PROVE \E row \in R : row.slug = <<base, m>>
    <3>1. m \in 1..Cardinality(R) + 1 /\ m < n /\ m \in Nat
      BY <1>1, <2>1
    <3>2. m \notin N
      BY <1>3, <2>1, <3>1
    <3> QED
      BY <3>1, <3>2
  <2>3. <<base, n>>[1] = base /\ <<base, n>>[2] = n
    OBVIOUS
  <2> QED
    BY <2>1, <2>2, <2>3
<1>6. FreeSlug(table, name) = CHOOSE s \in Offered : P(s)
  BY DEF FreeSlug, R
<1> HIDE DEF P
<1>7. FreeSlug(table, name) \in Offered /\ P(FreeSlug(table, name))
  BY <1>4, <1>5, <1>6
<1>8. base \in STRING
  BY NameAssumption
<1>9. Offered \subseteq Slugs
  BY <1>1, <1>8 DEF Slugs
<1> QED
  BY <1>7, <1>9 DEF P, R

LEMMA NewRows ==
  ASSUME NEW name \in Names
  PROVE  /\ brands \in [Brands -> BrandRows \union {None}] => BrandRow(name) \in BrandRows
         /\ categories \in [Categories -> CategoryRows \union {None}] =>
              CategoryRow(name) \in CategoryRows
<1>1. IsFiniteSet(Brands) /\ IsFiniteSet(Categories)
  BY TableAssumption
<1>2. DOMAIN brands = Brands => FreeSlug(brands, name) \in Slugs
  BY <1>1, SlugFound
<1>3. DOMAIN categories = Categories => FreeSlug(categories, name) \in Slugs
  BY <1>1, SlugFound
<1> QED
  BY <1>2, <1>3 DEF BrandRow, CategoryRow, BrandRows, CategoryRows

-----------------------------------------------------------------------------
(* The tables, and what is in flight for them.                             *)

Shelves ==
  /\ brands \in [Brands -> BrandRows \union {None}]
  /\ categories \in [Categories -> CategoryRows \union {None}]

Referring == \A p \in Products : Exists(p) => KeysExist(products[p], brands, categories)

Pictured == DOMAIN images = Products /\ \A p \in Products : \A i \in images[p] : i.key \in objects

Stocked ==
  /\ onHand \in [Products -> Nat]
  /\ carts \subseteq Products /\ reserved \subseteq invoiced
  /\ queued \in Nat

TablesOK == Shelves /\ Referring /\ Pictured /\ Stocked

\* A request in flight writes names of the right kind and stored objects.
FlightOK(w) ==
  /\ w.op \in {"brand", "rename"} => w.form.name \in Names
  /\ w.op = "uploaded" => w.form \in objects

FlightSound == \A r \in Requests : FlightOK(work[r])

\* So does an import.
FileOK(rows) == \A k \in DOMAIN rows : NamesOK(rows[k])

CargoOK(m) ==
  /\ FileOK(m.rows)
  /\ \A c \in DOMAIN m.draft : m.draft[c] \in CategoryRows
  /\ m.stage \in {"created", "updated"} => m.row \in DOMAIN m.rows

CargoSound ==
  /\ \A i \in Importers : CargoOK(imports[i])
  /\ \A t \in Tokens : staged[t] # None => FileOK(staged[t].rows)

TableInv == Inv /\ TablesOK /\ FlightSound /\ CargoSound

TableStep == TablesOK' /\ FlightSound'

-----------------------------------------------------------------------------
(* The steps of the catalogue.                                             *)

LEMMA FlightPut ==
  ASSUME FlightSound, WorkSound, NEW r \in Requests, NEW w, work' = [work EXCEPT ![r] = w],
         objects \subseteq objects',
         w.op \in {"brand", "rename"} => w.form.name \in Names,
         w.op = "uploaded" => w.form \in objects'
  PROVE  FlightSound'
<1>1. work'[r] = w /\ \A q \in Requests \ {r} : work'[q] = work[q]
  BY DEF WorkSound
<1>2. ASSUME NEW q \in Requests PROVE FlightOK(work[q])'
  <2>1. CASE q = r
    BY <1>1, <2>1 DEF FlightOK
  <2>2. CASE q # r
    BY <1>1, <2>2 DEF FlightOK, FlightSound
  <2> QED
    BY <2>1, <2>2
<1> QED
  BY <1>2 DEF FlightSound

LEMMA FlightEnds ==
  ASSUME FlightSound, WorkSound, NEW r \in Requests, End(r), objects \subseteq objects'
  PROVE  FlightSound'
<1>1. Idle.op = "idle"
  BY DEF Idle
<1> QED
  BY <1>1, FlightPut DEF End

LEMMA FlightStays ==
  ASSUME FlightSound, UNCHANGED work, objects \subseteq objects' PROVE FlightSound'
BY DEF FlightSound, FlightOK

LEMMA TablesStay ==
  ASSUME TablesOK, UNCHANGED <<products, images, objects, brands, categories, onHand>>,
         UNCHANGED sales, queued' \in Nat
  PROVE  TablesOK' /\ objects \subseteq objects'
<1>1. UNCHANGED <<carts, invoiced, reserved>>
  BY DEF sales
<1> QED
  BY <1>1 DEF TablesOK, Shelves, Referring, Pictured, Stocked, Exists

\* What requests load before they write.
LEMMA EnterSteps ==
  ASSUME TableInv, NEW r \in Requests,
         \/ \E p, f : EnterUpdate(r, p, f)
         \/ \E p : EnterDelete(r, p) \/ EnterCart(r, p) \/ EnterOrder(r, p)
         \/ \E p, n : EnterImages(r, p, n)
         \/ \E b : EnterDropBrand(r, b) \/ EnterDropCategory(r, b)
         \/ \E n \in BrandNames : EnterCreateBrand(r, n) \/ \E b : EnterRenameBrand(r, b, n)
         \/ CheckDelete(r) \/ StartReprice(r)
  PROVE  TableStep
<1> DEFINE Loads(w) == /\ work' = [work EXCEPT ![r] = w]
                       /\ w.op \in {"brand", "rename"} => w.form.name \in Names
                       /\ w.op # "uploaded"
<1>1. ASSUME NEW p, NEW f, EnterUpdate(r, p, f) PROVE \E w : Loads(w)
  <2>1. Loads([op |-> "update", target |-> p, form |-> f, seen |-> products[p], left |-> 1])
    BY <1>1 DEF EnterUpdate, Begin
  <2> QED
    BY <2>1
<1>2. ASSUME NEW p, EnterDelete(r, p) PROVE \E w : Loads(w)
  <2>1. Loads([op |-> "delete", target |-> p, form |-> None, seen |-> Held(p), left |-> 1])
    BY <1>2 DEF EnterDelete, Begin
  <2> QED
    BY <2>1
<1>3. ASSUME NEW p, EnterCart(r, p) \/ EnterOrder(r, p) PROVE \E w : Loads(w)
  <2>1. \/ Loads([op |-> "cart", target |-> p, form |-> None, seen |-> products[p], left |-> 1])
        \/ Loads([op |-> "order", target |-> p, form |-> None, seen |-> products[p], left |-> 1])
    BY <1>3 DEF EnterCart, EnterOrder, Begin
  <2> QED
    BY <2>1
<1>4. ASSUME NEW p, NEW n, EnterImages(r, p, n) PROVE \E w : Loads(w)
  <2>1. Loads([op |-> "upload", target |-> p, form |-> None, seen |-> None, left |-> n])
    BY <1>4 DEF EnterImages
  <2> QED
    BY <2>1
<1>5. ASSUME NEW b, EnterDropBrand(r, b) \/ EnterDropCategory(r, b) PROVE \E w : Loads(w)
  <2>1. \/ Loads([op |-> "dropBrand", target |-> b, form |-> None, seen |-> None, left |-> 1])
        \/ Loads([op |-> "dropCategory", target |-> b, form |-> None, seen |-> None, left |-> 1])
    BY <1>5 DEF EnterDropBrand, EnterDropCategory, Begin
  <2> QED
    BY <2>1
<1>6. ASSUME NEW b, NEW n \in BrandNames,
             EnterCreateBrand(r, n) \/ EnterRenameBrand(r, b, n)
      PROVE  \E w : Loads(w)
  <2>1. n \in Names
    BY NameAssumption
  <2>2. \/ Loads([op |-> "brand", target |-> None, form |-> [name |-> n], seen |-> None, left |-> 1])
        \/ Loads([op |-> "rename", target |-> b, form |-> [name |-> n], seen |-> None, left |-> 1])
    BY <1>6, <2>1 DEF EnterCreateBrand, EnterRenameBrand, Begin
  <2> QED
    BY <2>2
<1>7. ASSUME CheckDelete(r) PROVE \E w : Loads(w)
  <2>1. DOMAIN work[r] = {"op", "target", "form", "seen", "left"}
    BY DEF TableInv, Inv, CatalogInv, WorkSound, WorkOK
  <2>2. Loads([work[r] EXCEPT !.op = "deleting", !.seen = Checked(r)])
    BY <1>7, <2>1 DEF CheckDelete
  <2> QED
    BY <2>2
<1>8. ASSUME StartReprice(r) PROVE \E w : Loads(w)
  <2>1. Loads([op |-> "reprice", target |-> None, left |-> 1,
               seen |-> [rows |-> [p \in ToReprice |-> products[p]]],
               form |-> [prices |-> [p \in ToReprice |-> CategoryPrice(p)]]])
    BY <1>8 DEF StartReprice
  <2> QED
    BY <2>1
<1>9. \E w : Loads(w)
  BY <1>1, <1>2, <1>3, <1>4, <1>5, <1>6, <1>7, <1>8
<1>10. UNCHANGED <<products, images, objects, brands, categories, onHand, sales>>
  BY DEF EnterUpdate, EnterDelete, EnterCart, EnterOrder, EnterImages, EnterDropBrand,
         EnterDropCategory, EnterCreateBrand, EnterRenameBrand, CheckDelete, StartReprice,
         tables
<1>11. queued' \in Nat
  <2>1. CASE StartReprice(r)
    BY <2>1 DEF StartReprice, TableInv, TablesOK, Stocked
  <2>2. CASE ~StartReprice(r)
    BY <2>2 DEF EnterUpdate, EnterDelete, EnterCart, EnterOrder, EnterImages, EnterDropBrand,
                EnterDropCategory, EnterCreateBrand, EnterRenameBrand, CheckDelete,
                TableInv, TablesOK, Stocked
  <2> QED
    BY <2>1, <2>2
<1>12. TablesOK' /\ objects \subseteq objects'
  BY <1>10, <1>11, TablesStay DEF TableInv
<1>13. FlightSound'
  BY <1>9, <1>12, FlightPut DEF TableInv, Inv, CatalogInv
<1> QED
  BY <1>12, <1>13 DEF TableStep

\* Requests that end without a write, and the queue of jobs.
LEMMA QueueSteps ==
  ASSUME TableInv,
         \/ \E r \in Requests : Abort(r) \/ RestartReprice(r)
         \/ EnqueueReprice
  PROVE  TableStep
<1>1. UNCHANGED <<products, images, objects, brands, categories, onHand, sales>>
  BY DEF Abort, RestartReprice, EnqueueReprice, tables
<1>2. queued' \in Nat
  BY DEF Abort, RestartReprice, EnqueueReprice, TableInv, TablesOK, Stocked
<1>3. TablesOK' /\ objects \subseteq objects'
  BY <1>1, <1>2, TablesStay DEF TableInv
<1>4. FlightSound'
  <2>1. ASSUME NEW r \in Requests, Abort(r) \/ RestartReprice(r) PROVE FlightSound'
    BY <1>3, <2>1, FlightEnds DEF Abort, RestartReprice, TableInv, Inv, CatalogInv
  <2>2. ASSUME EnqueueReprice PROVE FlightSound'
    BY <1>3, <2>2, FlightStays DEF EnqueueReprice, TableInv
  <2> QED
    BY <2>1, <2>2
<1> QED
  BY <1>3, <1>4 DEF TableStep

\* References hold after a step that removes no row they need, if what is written
\* refers to rows or repeats the references of the row before.
SameKeys(row, old) == row.brand = old.brand /\ row.category = old.category

LEMMA ReferencesKept ==
  ASSUME ProductsOK, Referring,
         \A b \in Brands : brands[b] # None => brands'[b] # None,
         \A c \in Categories : categories[c] # None => categories'[c] # None,
         \A p \in Products : products'[p] # None =>
           \/ KeysExist(products'[p], brands', categories')
           \/ products[p] # None /\ SameKeys(products'[p], products[p])
  PROVE  Referring'
<1>1. SUFFICES ASSUME NEW p \in Products, products'[p] # None
               PROVE  KeysExist(products'[p], brands', categories')
  BY DEF Referring, Exists
<1>2. CASE products[p] # None /\ SameKeys(products'[p], products[p])
  <2>1. products[p] \in ProductRows /\ KeysExist(products[p], brands, categories)
    BY <1>2 DEF ProductsOK, Referring, Exists
  <2>2. products[p].brand \in Brands \union {None} /\ products[p].category \in Categories \union {None}
    BY <2>1 DEF ProductRows
  <2> QED
    BY <1>2, <2>1, <2>2 DEF SameKeys, KeysExist
<1> QED
  BY <1>1, <1>2

\* A step that writes products and no other table.
LEMMA ProductsWritten ==
  ASSUME TableInv, UNCHANGED <<images, objects, brands, categories, onHand, sales, queued>>,
         \A p \in Products : products'[p] # None =>
           \/ KeysExist(products'[p], brands, categories)
           \/ products[p] # None /\ SameKeys(products'[p], products[p])
  PROVE  TablesOK' /\ objects \subseteq objects'
<1>1. Referring'
  BY ReferencesKept DEF TableInv, Inv, CatalogInv, TablesOK
<1>2. UNCHANGED <<carts, invoiced, reserved>>
  BY DEF sales
<1> QED
  BY <1>1, <1>2 DEF TableInv, TablesOK, Shelves, Pictured, Stocked

LEMMA CreateTables == ASSUME TableInv, NEW f, CreateProduct(f) PROVE TableStep
<1>1. PICK q \in Products : Insert(q, RowOf(f, FALSE))
  BY DEF CreateProduct
<1>2. /\ KeysExist(RowOf(f, FALSE), brands, categories)
      /\ UNCHANGED <<images, objects, brands, categories, onHand, sales, work, queued>>
  BY DEF CreateProduct
<1>3. products' = [products EXCEPT ![q] = RowOf(f, FALSE)] /\ DOMAIN products = Products
  BY <1>1 DEF Insert, TableInv, Inv, CatalogInv, ProductsOK
<1> DEFINE row == RowOf(f, FALSE)
<1> HIDE DEF row
<1>4. ASSUME NEW p \in Products, products'[p] # None
      PROVE  \/ KeysExist(products'[p], brands, categories)
             \/ products[p] # None /\ SameKeys(products'[p], products[p])
  BY <1>2, <1>3, <1>4 DEF SameKeys, row
<1> QED
  BY <1>2, <1>4, ProductsWritten, FlightStays DEF TableStep, TableInv

LEMMA CommitTables ==
  ASSUME TableInv, NEW r \in Requests, CommitUpdate(r) \/ CommitDelete(r) \/ CommitReprice(r)
  PROVE  TableStep
<1>1. /\ UNCHANGED <<images, objects, brands, categories, onHand, sales, queued>>
      /\ End(r)
  BY DEF CommitUpdate, CommitDelete, CommitReprice
<1>2. DOMAIN products = Products /\ WorkOK(work[r])
      /\ \A p \in Products : products[p] # None => products[p] \in ProductRows
  BY DEF TableInv, Inv, CatalogInv, ProductsOK, WorkSound
<1> SUFFICES ASSUME NEW p \in Products, products'[p] # None
             PROVE  \/ KeysExist(products'[p], brands, categories)
                    \/ products[p] # None /\ SameKeys(products'[p], products[p])
  BY <1>1, ProductsWritten, FlightEnds DEF TableStep, TableInv, Inv, CatalogInv
<1>3. CASE CommitUpdate(r)
  <2> DEFINE row == Updated(work[r].target, work[r].seen, work[r].form)
  <2>1. KeysExist(row, brands, categories) /\ products' = [products EXCEPT ![work[r].target] = row]
    BY <1>3 DEF CommitUpdate, Update
  <2> HIDE DEF row
  <2> QED
    BY <1>2, <2>1 DEF SameKeys
<1>4. CASE CommitDelete(r)
  <2>1. products' = [products EXCEPT ![work[r].target] = [products[work[r].target] EXCEPT !.deleted = TRUE]]
    BY <1>4 DEF CommitDelete
  <2>2. work[r].target \in Products /\ products[work[r].target] # None
    BY <1>2, <1>4 DEF CommitDelete, WorkOK, Exists
  <2> QED
    BY <1>2, <2>1, <2>2 DEF SameKeys, ProductRows
<1>5. CASE CommitReprice(r)
  <2> DEFINE w == work[r]
             seen == w.seen.rows[p]
             new == [seen EXCEPT !.sale = w.form.prices[p],
                                 !.margin = ComputeMargin(seen.cost, w.form.prices[p])]
  <2>1. products'[p] = IF p \in Changed(w) THEN Written(products[p], seen, new) ELSE products[p]
    BY <1>5 DEF CommitReprice, Repriced
  <2>2. ASSUME p \in Changed(w)
        PROVE  products[p] # None /\ SameKeys(Written(products[p], seen, new), products[p])
    <3>1. products[p] # None /\ seen \in ProductRows
      BY <1>2, <1>5, <2>2 DEF CommitReprice, Changed, WorkOK, Exists
    <3>2. products[p] \in ProductRows
      BY <1>2, <3>1
    <3>3. new.brand = seen.brand /\ new.category = seen.category
      BY <3>1 DEF ProductRows
    <3> HIDE DEF new, seen
    <3>4. \A c \in {"brand", "category"} :
            Written(products[p], seen, new)[c] = IF new[c] # seen[c] THEN new[c] ELSE products[p][c]
      BY <3>2 DEF Written, ProductRows
    <3> QED
      BY <3>1, <3>3, <3>4 DEF SameKeys
  <2>3. p \notin Changed(w) => products'[p] = products[p]
    BY <2>1
  <2> QED
    BY <2>1, <2>2, <2>3 DEF SameKeys
<1> QED
  BY <1>3, <1>4, <1>5

\* The stock of a product.
LEMMA StockWritten ==
  ASSUME TablesOK, NEW p, NEW q \in Int, SetStock(p, q),
         UNCHANGED <<products, images, objects, brands, categories, sales, queued>>
  PROVE  TablesOK' /\ objects \subseteq objects'
<1>1. q \in Nat /\ onHand' = [onHand EXCEPT ![p] = q]
  BY DEF SetStock, ReservedOf
<1>2. onHand' \in [Products -> Nat]
  BY <1>1 DEF TablesOK, Stocked
<1>3. UNCHANGED <<carts, invoiced, reserved>>
  BY DEF sales
<1> QED
  BY <1>2, <1>3 DEF TablesOK, Shelves, Referring, Pictured, Stocked, Exists

LEMMA StockTables ==
  ASSUME TableInv, NEW p \in Products, NEW q \in Stocks, CorrectStock(p, q) PROVE TableStep
<1>1. q \in Int
  BY TableAssumption
<1>2. SetStock(p, q)
      /\ UNCHANGED <<products, images, objects, brands, categories, sales, queued, work>>
  BY DEF CorrectStock
<1> QED
  BY <1>1, <1>2, StockWritten, FlightStays DEF TableStep, TableInv

\* Photos: the object first, then the row.
LEMMA PhotosWritten ==
  ASSUME TablesOK, objects \subseteq objects', DOMAIN images' = Products,
         \A p \in Products : \A i \in images'[p] : i \in images[p] \/ i.key \in objects',
         UNCHANGED <<products, brands, categories, onHand, sales, queued>>
  PROVE  TablesOK'
<1>1. UNCHANGED <<carts, invoiced, reserved>>
  BY DEF sales
<1> QED
  BY <1>1 DEF TablesOK, Shelves, Referring, Pictured, Stocked, Exists

LEMMA PhotoTables ==
  ASSUME TableInv, NEW r \in Requests, PutObject(r) \/ CommitImage(r) PROVE TableStep
<1>1. DOMAIN work[r] = {"op", "target", "form", "seen", "left"} /\ FlightOK(work[r])
      /\ DOMAIN images = Products
  BY DEF TableInv, Inv, CatalogInv, WorkSound, WorkOK, FlightSound, TablesOK, Pictured
<1>2. ASSUME PutObject(r) PROVE TableStep
  <2>1. PICK k \in Keys : /\ objects' = objects \union {k}
                          /\ work' = [work EXCEPT ![r].op = "uploaded", ![r].form = k]
    BY <1>2 DEF PutObject
  <2> DEFINE w == [work[r] EXCEPT !.op = "uploaded", !.form = k]
  <2>2. work' = [work EXCEPT ![r] = w] /\ w.op = "uploaded" /\ w.form = k
    BY <1>1, <2>1
  <2> HIDE DEF w
  <2>3. FlightSound'
    BY <2>1, <2>2, FlightPut DEF TableInv, Inv, CatalogInv
  <2>4. UNCHANGED <<products, images, brands, categories, onHand, sales, queued>>
    BY <1>2 DEF PutObject
  <2> QED
    BY <1>1, <2>1, <2>3, <2>4, PhotosWritten DEF TableStep, TableInv
<1>3. ASSUME CommitImage(r) PROVE TableStep
  <2> DEFINE p == work[r].target
             row == ImageRow(p, work[r].form)
  <2>1. /\ images' = [images EXCEPT ![p] = images[p] \union {row}]
        /\ UNCHANGED <<products, objects, brands, categories, onHand, sales, queued>>
        /\ work[r].form \in objects
    BY <1>1, <1>3 DEF CommitImage, FlightOK
  <2>2. row.key \in objects
    BY <2>1 DEF ImageRow
  <2> HIDE DEF row
  <2>3. TablesOK'
    BY <1>1, <2>1, <2>2, PhotosWritten DEF TableInv
  <2>4. FlightSound'
    <3>1. CASE work[r].left = 1
      BY <1>3, <2>1, <3>1, FlightEnds DEF CommitImage, TableInv, Inv, CatalogInv
    <3>2. CASE work[r].left # 1
      <4> DEFINE w == [work[r] EXCEPT !.op = "upload", !.form = None, !.left = @ - 1]
      <4>1. work' = [work EXCEPT ![r] = w] /\ w.op = "upload"
        BY <1>1, <1>3, <3>2 DEF CommitImage
      <4> HIDE DEF w
      <4> QED
        BY <2>1, <4>1, FlightPut DEF TableInv, Inv, CatalogInv
    <3> QED
      BY <3>1, <3>2
  <2> QED
    BY <2>3, <2>4 DEF TableStep
<1> QED
  BY <1>2, <1>3

\* Rows of brands and categories that come, stay or are not referred to any more.
LEMMA ShelvesWritten ==
  ASSUME TableInv, Shelves', Referring',
         UNCHANGED <<products, images, objects, onHand, sales, queued>>
  PROVE  TablesOK' /\ objects \subseteq objects'
<1>1. UNCHANGED <<carts, invoiced, reserved>>
  BY DEF sales
<1> QED
  BY <1>1 DEF TableInv, TablesOK, Pictured, Stocked

LEMMA ShelvesGrow ==
  ASSUME TableInv, Shelves', UNCHANGED products,
         \A b \in Brands : brands[b] # None => brands'[b] # None,
         \A c \in Categories : categories[c] # None => categories'[c] # None
  PROVE  Referring'
<1>1. ProductsOK /\ Referring
  BY DEF TableInv, Inv, CatalogInv, TablesOK
<1>2. \A p \in Products : products'[p] # None =>
        products[p] # None /\ SameKeys(products'[p], products[p])
  BY DEF SameKeys
<1> QED
  BY <1>1, <1>2, ReferencesKept

LEMMA BrandTables ==
  ASSUME TableInv, NEW r \in Requests,
         CommitCreateBrand(r) \/ CommitRenameBrand(r) \/ CommitDropBrand(r)
  PROVE  TableStep
<1>1. UNCHANGED <<products, images, objects, categories, onHand, sales, queued>> /\ End(r)
  BY DEF CommitCreateBrand, CommitRenameBrand, CommitDropBrand
<1>2. Shelves /\ FlightOK(work[r])
  BY DEF TableInv, TablesOK, FlightSound
<1>3. None \notin BrandRows
  BY NullAssumption
<1> SUFFICES Shelves' /\ Referring'
  BY <1>1, ShelvesWritten, FlightEnds DEF TableStep, TableInv, Inv, CatalogInv
<1>4. ASSUME CommitCreateBrand(r) PROVE Shelves' /\ Referring'
  <2> DEFINE row == BrandRow(work[r].form.name)
  <2>1. PICK b \in Brands : brands[b] = None /\ brands' = [brands EXCEPT ![b] = row]
    BY <1>4 DEF CommitCreateBrand
  <2>2. row \in BrandRows
    BY <1>2, <1>4, NewRows DEF CommitCreateBrand, FlightOK, Shelves
  <2> HIDE DEF row
  <2>3. Shelves'
    BY <1>1, <1>2, <2>1, <2>2 DEF Shelves
  <2>4. \A d \in Brands : brands[d] # None => brands'[d] # None
    BY <1>2, <2>1 DEF Shelves
  <2> QED
    BY <1>1, <2>3, <2>4, ShelvesGrow
<1>5. ASSUME CommitRenameBrand(r) PROVE Shelves' /\ Referring'
  <2> DEFINE b == work[r].target
             row == [brands[b] EXCEPT !.name = work[r].form.name]
  <2>1. brands' = [brands EXCEPT ![b] = row] /\ brands[b] # None /\ work[r].form.name \in Names
    BY <1>2, <1>5 DEF CommitRenameBrand, FlightOK
  <2>2. b \in Brands => row \in BrandRows
    BY <1>2, <2>1 DEF Shelves, BrandRows
  <2> HIDE DEF row, b
  <2>3. brands' \in [Brands -> BrandRows \union {None}]
    BY <1>2, <2>1, <2>2 DEF Shelves
  <2>4. \A d \in Brands : brands[d] # None => brands'[d] # None
    BY <1>2, <1>3, <2>1, <2>2 DEF Shelves
  <2>5. Shelves'
    BY <1>1, <1>2, <2>3 DEF Shelves
  <2> QED
    BY <1>1, <2>4, <2>5, ShelvesGrow
<1>6. ASSUME CommitDropBrand(r) PROVE Shelves' /\ Referring'
  <2>1. /\ brands' = [brands EXCEPT ![work[r].target] = None]
        /\ \A p \in Products : Exists(p) => products[p].brand # work[r].target
    BY <1>6 DEF CommitDropBrand
  <2>2. Shelves'
    BY <1>1, <1>2, <2>1 DEF Shelves
  <2>3. ASSUME NEW p \in Products, products[p] # None
        PROVE  KeysExist(products[p], brands', categories)
    <3>1. /\ KeysExist(products[p], brands, categories) /\ products[p].brand # work[r].target
          /\ products[p].brand \in Brands \union {None}
      BY <2>1, <2>3 DEF TableInv, TablesOK, Referring, Exists, Inv, CatalogInv, ProductsOK, ProductRows
    <3> QED
      BY <1>2, <2>1, <3>1 DEF KeysExist, Shelves
  <2>4. Referring'
    BY <1>1, <2>3 DEF Referring, Exists
  <2> QED
    BY <2>2, <2>4
<1> QED
  BY <1>4, <1>5, <1>6

LEMMA CategoryTables ==
  ASSUME TableInv,
         \/ \E n \in CategoryNames : CreateCategory(n)
         \/ \E c \in Categories, n \in CategoryNames : RenameCategory(c, n)
         \/ \E c \in Categories, m \in Margins \union {None} : SetMargin(c, m)
         \/ \E r \in Requests : CommitDropCategory(r)
  PROVE  TableStep
<1>1. UNCHANGED <<products, images, objects, brands, onHand, sales, queued>>
  BY DEF CreateCategory, RenameCategory, SetMargin, CommitDropCategory
<1>2. Shelves
  BY DEF TableInv, TablesOK
<1>3. None \notin CategoryRows /\ CategoryNames \subseteq Names
  BY NullAssumption, NameAssumption
<1>4. FlightSound'
  BY <1>1, FlightEnds, FlightStays
     DEF CreateCategory, RenameCategory, SetMargin, CommitDropCategory, TableInv, Inv, CatalogInv
<1> SUFFICES Shelves' /\ Referring'
  BY <1>1, <1>4, ShelvesWritten DEF TableStep
<1>5. ASSUME NEW c \in Categories, NEW row \in CategoryRows,
             categories' = [categories EXCEPT ![c] = row]
      PROVE  Shelves' /\ Referring'
  <2>1. Shelves'
    BY <1>1, <1>2, <1>5 DEF Shelves
  <2>2. \A d \in Categories : categories[d] # None => categories'[d] # None
    BY <1>2, <1>3, <1>5 DEF Shelves
  <2> QED
    BY <1>1, <2>1, <2>2, ShelvesGrow
<1>6. ASSUME NEW n \in CategoryNames, CreateCategory(n) PROVE Shelves' /\ Referring'
  <2>1. PICK c \in Categories : categories' = [categories EXCEPT ![c] = CategoryRow(n)]
    BY <1>6 DEF CreateCategory
  <2>2. CategoryRow(n) \in CategoryRows
    BY <1>2, <1>3, NewRows DEF Shelves
  <2> QED
    BY <1>5, <2>1, <2>2
<1>7. ASSUME NEW c \in Categories, NEW n \in CategoryNames, RenameCategory(c, n)
      PROVE  Shelves' /\ Referring'
  <2> DEFINE row == [categories[c] EXCEPT !.name = n]
  <2>1. categories' = [categories EXCEPT ![c] = row] /\ categories[c] \in CategoryRows
    BY <1>2, <1>7 DEF RenameCategory, Shelves
  <2>2. row \in CategoryRows
    BY <1>3, <2>1 DEF CategoryRows
  <2> HIDE DEF row
  <2> QED
    BY <1>5, <2>1, <2>2
<1>8. ASSUME NEW c \in Categories, NEW m \in Margins \union {None}, SetMargin(c, m)
      PROVE  Shelves' /\ Referring'
  <2> DEFINE row == [categories[c] EXCEPT !.margin = m]
  <2>1. categories' = [categories EXCEPT ![c] = row] /\ categories[c] \in CategoryRows
    BY <1>2, <1>8 DEF SetMargin, Shelves
  <2>2. m \in Int \union {None}
    BY FormsAssumption
  <2>3. row \in CategoryRows
    BY <2>1, <2>2 DEF CategoryRows
  <2> HIDE DEF row
  <2> QED
    BY <1>5, <2>1, <2>3
<1>9. ASSUME NEW r \in Requests, CommitDropCategory(r) PROVE Shelves' /\ Referring'
  <2>1. /\ categories' = [categories EXCEPT ![work[r].target] = None]
        /\ \A p \in Products : Exists(p) => products[p].category # work[r].target
    BY <1>9 DEF CommitDropCategory
  <2>2. Shelves'
    BY <1>1, <1>2, <2>1 DEF Shelves
  <2>3. ASSUME NEW p \in Products, products[p] # None
        PROVE  KeysExist(products[p], brands, categories')
    <3>1. /\ KeysExist(products[p], brands, categories) /\ products[p].category # work[r].target
          /\ products[p].category \in Categories \union {None}
      BY <2>1, <2>3 DEF TableInv, TablesOK, Referring, Exists, Inv, CatalogInv, ProductsOK, ProductRows
    <3> QED
      BY <1>2, <2>1, <3>1 DEF KeysExist, Shelves
  <2>4. Referring'
    BY <1>1, <2>3 DEF Referring, Exists
  <2> QED
    BY <2>2, <2>4
<1> QED
  BY <1>6, <1>7, <1>8, <1>9

\* Carts and orders.
LEMMA SalesTables ==
  ASSUME TableInv,
         \/ \E r \in Requests : CommitCart(r) \/ CommitOrder(r)
         \/ \E p \in Products : RemoveFromCart(p) \/ Release(p)
  PROVE  TableStep
<1>1. UNCHANGED <<products, images, objects, brands, categories, onHand, queued>>
  BY DEF CommitCart, CommitOrder, RemoveFromCart, Release, tables
<1>2. FlightSound'
  BY <1>1, FlightEnds, FlightStays
     DEF CommitCart, CommitOrder, RemoveFromCart, Release, TableInv, Inv, CatalogInv
<1>3. carts' \subseteq Products /\ reserved' \subseteq invoiced'
  <2>1. carts \subseteq Products /\ reserved \subseteq invoiced
    BY DEF TableInv, TablesOK, Stocked
  <2>2. ASSUME NEW r \in Requests, CommitCart(r) PROVE work[r].target \in Products
    BY <2>2 DEF CommitCart, TableInv, Inv, CatalogInv, WorkSound, WorkOK
  <2> QED
    BY <2>1, <2>2 DEF CommitCart, CommitOrder, RemoveFromCart, Release
<1>4. TablesOK'
  BY <1>1, <1>3 DEF TableInv, TablesOK, Shelves, Referring, Pictured, Stocked, Exists
<1> QED
  BY <1>2, <1>4 DEF TableStep

\* Every step of the catalogue.
LEMMA CatalogTables ==
  ASSUME TableInv, CatalogNext PROVE TableStep
<1>1. ASSUME NEW r \in Requests, ProductForms(r) \/ ProductApi(r) PROVE TableStep
  BY <1>1, CreateTables, EnterSteps, StockTables
     DEF ProductForms, ProductApi, CreateSubmit, UpdateSubmit
<1>2. ASSUME NEW r \in Requests, BrandForms(r) \/ CategoryForms(r) PROVE TableStep
  <2>1. CASE BrandForms(r)
    BY <2>1, EnterSteps DEF BrandForms
  <2>2. CASE CategoryForms(r)
    BY <2>2, EnterSteps, CategoryTables DEF CategoryForms
  <2> QED
    BY <1>2, <2>1, <2>2
<1>3. ASSUME NEW r \in Requests, Customers(r) PROVE TableStep
  BY <1>3, EnterSteps, SalesTables DEF Customers
<1>4. ASSUME NEW r \in Requests, Continue(r) PROVE TableStep
  BY <1>4, CommitTables, EnterSteps, PhotoTables, BrandTables, CategoryTables, QueueSteps,
     SalesTables DEF Continue
<1>5. ASSUME SettingsForms PROVE TableStep
  BY <1>5, CategoryTables, QueueSteps DEF SettingsForms
<1> QED
  BY <1>1, <1>2, <1>3, <1>4, <1>5 DEF CatalogNext

-----------------------------------------------------------------------------
(* The imports.                                                            *)

ImportTableStep == TablesOK' /\ FlightSound' /\ CargoSound'

LEMMA ImportFields ==
  ASSUME TableInv, NEW i \in Importers
  PROVE  /\ ImportOK(imports[i]) /\ CargoOK(imports[i])
         /\ DOMAIN imports[i] = {"stage", "token", "rows", "row", "results", "target", "seen",
                                 "brand", "category", "draft", "forecast", "quiet", "alone",
                                 "again"}
BY DEF TableInv, Inv, CatalogInv, ImportSound, CargoSound, ImportOK, NoImport

LEMMA CargoStays ==
  ASSUME TableInv, NEW i \in Importers, NEW m, CargoOK(m), Stay(i, m) PROVE CargoSound'
<1>1. DOMAIN imports = Importers
  BY DEF TableInv, Inv, CatalogInv, ImportSound
<1> QED
  BY <1>1 DEF TableInv, CargoSound, Stay

LEMMA CargoDisturbed ==
  ASSUME TableInv, NEW own, \A i \in DOMAIN own : CargoOK(own[i]), Disturb(own)
  PROVE  CargoSound'
<1>1. ASSUME NEW i \in Importers PROVE CargoOK(imports'[i])
  <2>1. CASE i \in DOMAIN own
    BY <2>1 DEF Disturb
  <2>2. CASE i \notin DOMAIN own
    <3>1. imports'[i] = [imports[i] EXCEPT !.quiet = FALSE, !.alone = FALSE, !.again = FALSE]
      BY <2>2 DEF Disturb
    <3> QED
      BY <3>1, ImportFields DEF CargoOK
  <2> QED
    BY <2>1, <2>2
<1>2. ASSUME NEW t \in Tokens, staged'[t] # None PROVE FileOK(staged'[t].rows)
  <2>1. staged[t] # None /\ staged'[t] = [staged[t] EXCEPT !.quiet = FALSE]
    BY <1>2 DEF Disturb
  <2>2. "rows" \in DOMAIN staged[t] /\ FileOK(staged[t].rows)
    BY <2>1 DEF TableInv, CargoSound, Inv, CatalogInv, ImportSound, StagedOK
  <2> QED
    BY <2>1, <2>2
<1> QED
  BY <1>1, <1>2 DEF CargoSound

LEMMA CargoOwn ==
  ASSUME TableInv, NEW i \in Importers, NEW m, CargoOK(m), Disturb(Own(i, m))
  PROVE  CargoSound'
<1>1. DOMAIN Own(i, m) = {i} /\ Own(i, m)[i] = m
  BY DEF Own
<1> QED
  BY <1>1, CargoDisturbed

LEMMA NoCargo == CargoOK(NoImport)
BY DEF CargoOK, NoImport, FileOK

LEMMA CargoAdvances ==
  ASSUME TableInv, NEW i \in Importers, NEW result PROVE CargoOK(Advance(imports[i], result))
BY ImportFields DEF CargoOK, Advance

\* Steps of an import that leave the tables alone.
LEMMA TablesIdle ==
  ASSUME TableInv, UNCHANGED <<tables, sales, work, queued>>
  PROVE  TablesOK' /\ FlightSound'
<1>1. UNCHANGED <<products, images, objects, brands, categories, onHand, sales>>
      /\ queued' \in Nat
  BY DEF tables, TableInv, TablesOK, Stocked
<1> QED
  BY <1>1, TablesStay, FlightStays DEF TableInv

LEMMA LookupCargo ==
  ASSUME TableInv, NEW i \in Importers, RowLookup(i) PROVE CargoSound'
<1> DEFINE m == imports[i]
           label == Row(m).category
           cs == SessionCategories(m)
<1>1. /\ ImportOK(m) /\ CargoOK(m) /\ m.row <= Len(m.rows) /\ Valid(Row(m))
      /\ m.stage = "lookup"
  BY ImportFields DEF RowLookup
<1>2. PICK b \in BrandsFor(Row(m).brand), c \in CategoryFor(m, label) :
        LET M == IF b = None THEN {} ELSE Matches(Row(m), b)
            wrote == IF c.row = categories[c.id] THEN m.draft ELSE Put(m.draft, c.id, c.row)
            found == [m EXCEPT !.brand = b, !.category = c.id, !.draft = wrote]
        IN CASE M = {} -> Stay(i, [found EXCEPT !.stage = "create"])
             [] Cardinality(M) > 1 -> Stay(i, Advance([m EXCEPT !.draft = wrote], "error"))
             [] OTHER -> \E p \in M :
                  Stay(i, [found EXCEPT !.stage = "update", !.target = p, !.seen = products[p]])
  BY DEF RowLookup
<1> DEFINE M == IF b = None THEN {} ELSE Matches(Row(m), b)
           wrote == IF c.row = categories[c.id] THEN m.draft ELSE Put(m.draft, c.id, c.row)
           found == [m EXCEPT !.brand = b, !.category = c.id, !.draft = wrote]
<1>3. label \in Names
  BY <1>1, VocabularyAssumption DEF ImportOK, RowsOK, CargoOK, FileOK, NamesOK, Row
<1>4. \A d \in Categories : cs[d] # None => cs[d] \in CategoryRows
  BY <1>1 DEF SessionCategories, CargoOK, TableInv, TablesOK, Shelves
<1>5. c.row \in CategoryRows
  <2>1. ASSUME NEW d \in Categories, cs[d] # None PROVE [cs[d] EXCEPT !.name = label] \in CategoryRows
    BY <1>3, <1>4, <2>1 DEF CategoryRows
  <2>2. [name |-> label, slug |-> ImportSlug(label), margin |-> None] \in CategoryRows
    BY <1>3, NameAssumption DEF CategoryRows, ImportSlug, Slugs
  <2> HIDE DEF cs, label
  <2>3. \/ \E d \in Categories : cs[d] # None /\ c = [id |-> d, row |-> [cs[d] EXCEPT !.name = label]]
        \/ \E d \in Categories :
             c = [id |-> d, row |-> [name |-> label, slug |-> ImportSlug(label), margin |-> None]]
    BY DEF CategoryFor, cs
  <2> QED
    BY <2>1, <2>2, <2>3
<1> HIDE DEF label, cs
<1>6. \A d \in DOMAIN wrote : wrote[d] \in CategoryRows
  BY <1>1, <1>5 DEF Put, CargoOK
<1> HIDE DEF wrote, M
<1>7. \/ Stay(i, [found EXCEPT !.stage = "create"])
      \/ Stay(i, Advance([m EXCEPT !.draft = wrote], "error"))
      \/ \E p \in M : Stay(i, [found EXCEPT !.stage = "update", !.target = p, !.seen = products[p]])
  BY <1>2 DEF wrote, M
<1>8. CargoOK([found EXCEPT !.stage = "create"])
  BY <1>1, <1>6, ImportFields DEF CargoOK
<1>9. CargoOK(Advance([m EXCEPT !.draft = wrote], "error"))
  BY <1>1, <1>6, ImportFields DEF CargoOK, Advance
<1>10. ASSUME NEW p PROVE CargoOK([found EXCEPT !.stage = "update", !.target = p, !.seen = products[p]])
  BY <1>1, <1>6, ImportFields DEF CargoOK
<1> HIDE DEF found
<1> QED
  BY <1>7, <1>8, <1>9, <1>10, CargoStays

\* Steps that write nothing but the import itself.
LEMMA ReadingTables ==
  ASSUME TableInv, NEW i \in Importers,
         RowRefused(i) \/ RowLookup(i) \/ RowStockRefused(i) \/ PhotoRefused(i)
         \/ Finish(i) \/ Crash(i)
  PROVE  ImportTableStep
<1>1. UNCHANGED <<tables, sales, work, queued>>
  BY DEF RowRefused, RowLookup, RowStockRefused, PhotoRefused, Finish, Crash, catalogVars
<1>2. DOMAIN imports = Importers /\ DOMAIN staged = Tokens
  BY DEF TableInv, Inv, CatalogInv, ImportSound
<1> SUFFICES CargoSound'
  BY <1>1, TablesIdle DEF ImportTableStep
<1>3. CASE RowRefused(i) \/ RowStockRefused(i) \/ PhotoRefused(i)
  BY <1>3, CargoAdvances, CargoStays DEF RowRefused, RowStockRefused, PhotoRefused
<1>4. CASE RowLookup(i)
  BY <1>4, LookupCargo
<1>5. CASE Finish(i)
  <2>1. /\ imports' = [imports EXCEPT ![i] = NoImport]
        /\ staged' = [staged EXCEPT ![imports[i].token] = None]
    BY <1>5 DEF Finish
  <2> QED
    BY <1>2, <2>1, NoCargo DEF TableInv, CargoSound
<1>6. CASE Crash(i)
  BY <1>6, NoCargo, CargoStays DEF Crash
<1> QED
  BY <1>3, <1>4, <1>5, <1>6

LEMMA FormTables ==
  ASSUME TableInv, ImportForms PROVE ImportTableStep
<1>1. UNCHANGED <<tables, sales, work, queued>>
  BY DEF ImportForms, Preview, Confirm
<1>2. DOMAIN imports = Importers /\ DOMAIN staged = Tokens
  BY DEF TableInv, Inv, CatalogInv, ImportSound
<1> SUFFICES CargoSound'
  BY <1>1, TablesIdle DEF ImportTableStep
<1>3. ASSUME NEW t \in Tokens, NEW file \in Files, Preview(t, file) PROVE CargoSound'
  <2>1. PICK forecast :
          staged' = [staged EXCEPT ![t] =
                       [rows |-> ParsedRows(file), quiet |-> TRUE, forecast |-> forecast]]
    BY <1>3 DEF Preview
  <2>2. UNCHANGED imports
    BY <1>3 DEF Preview
  <2>3. FileOK(ParsedRows(file))
    BY ParsedNames DEF FileOK
  <2>4. ASSUME NEW u \in Tokens, staged'[u] # None PROVE FileOK(staged'[u].rows)
    <3>1. CASE u = t
      BY <1>2, <2>1, <2>3, <3>1
    <3>2. CASE u # t
      BY <1>2, <2>1, <2>4, <3>2 DEF TableInv, CargoSound
    <3> QED
      BY <3>1, <3>2
  <2> QED
    BY <2>2, <2>4 DEF TableInv, CargoSound
<1>4. ASSUME NEW i \in Importers, NEW t \in Tokens, Confirm(i, t) PROVE CargoSound'
  <2> DEFINE m == [NoImport EXCEPT !.stage = "lookup", !.token = t,
                     !.rows = staged[t].rows, !.forecast = staged[t].forecast,
                     !.quiet = staged[t].quiet, !.alone = TRUE,
                     !.again = (last = staged[t].rows)]
  <2>1. Stay(i, m) /\ FileOK(staged[t].rows)
    BY <1>4 DEF Confirm, TableInv, CargoSound
  <2>2. m.rows = staged[t].rows /\ m.draft = <<>> /\ m.stage = "lookup"
    BY DEF NoImport
  <2> HIDE DEF m
  <2>3. CargoOK(m)
    BY <2>1, <2>2 DEF CargoOK
  <2> QED
    BY <2>1, <2>3, CargoStays
<1> QED
  BY <1>3, <1>4 DEF ImportForms

\* The categories of an import as its commit leaves them.
LEMMA DraftRows ==
  ASSUME TableInv, NEW i \in Importers, CommitDraft(imports[i])
  PROVE  /\ categories' \in [Categories -> CategoryRows \union {None}]
         /\ \A c \in Categories : categories[c] # None => categories'[c] # None
<1> DEFINE m == imports[i]
<1>1. \A c \in DOMAIN m.draft : m.draft[c] \in CategoryRows
  BY ImportFields DEF CargoOK
<1>2. None \notin CategoryRows /\ Shelves
  BY NullAssumption DEF TableInv, TablesOK
<1>3. categories' = [c \in Categories |->
        IF c \notin DOMAIN m.draft THEN categories[c]
        ELSE IF categories[c] = None THEN m.draft[c]
        ELSE [categories[c] EXCEPT !.name = m.draft[c].name]]
  BY DEF CommitDraft
<1> HIDE DEF m
<1>4. ASSUME NEW c \in Categories
      PROVE  /\ categories'[c] \in CategoryRows \union {None}
             /\ categories[c] # None => categories'[c] # None
  <2>1. ASSUME c \in DOMAIN m.draft, categories[c] # None
        PROVE  [categories[c] EXCEPT !.name = m.draft[c].name] \in CategoryRows
    BY <1>1, <1>2, <2>1 DEF Shelves, CategoryRows
  <2> QED
    BY <1>1, <1>2, <1>3, <2>1 DEF Shelves
<1> QED
  BY <1>3, <1>4

\* A row of the file becomes a product ...
LEMMA RowCreateTables ==
  ASSUME TableInv, NEW i \in Importers, RowCreate(i) PROVE ImportTableStep
<1> DEFINE m == imports[i]
<1>1. /\ ImportOK(m) /\ CargoOK(m) /\ m.stage = "create" /\ CommitDraft(m)
      /\ UNCHANGED <<images, objects, onHand, sales, work, queued>>
  BY ImportFields DEF RowCreate
<1>2. PICK b \in Brands, p \in Products :
        /\ CommitBrand(m, b)
        /\ KeysExist(RowOf(CreateForm(Row(m), b, m.category), FALSE), brands', categories')
        /\ Insert(p, RowOf(CreateForm(Row(m), b, m.category), FALSE))
        /\ Disturb(Own(i, [Committed(m, p) EXCEPT !.stage = "created"]))
  BY <1>1, Zenon DEF RowCreate
<1>3. m.row \in DOMAIN m.rows /\ NamesOK(Row(m))
  BY <1>1 DEF ImportOK, RowsOK, CargoOK, FileOK, Row
<1>4. /\ Shelves'
      /\ \A c \in Categories : categories[c] # None => categories'[c] # None
      /\ \A d \in Brands : brands[d] # None => brands'[d] # None
  <2>1. BrandRow(Row(m).brand) \in BrandRows /\ Shelves
    BY <1>3, NewRows DEF NamesOK, TableInv, TablesOK, Shelves
  <2>2. \/ brands' = brands
        \/ brands[b] = None /\ brands' = [brands EXCEPT ![b] = BrandRow(Row(m).brand)]
    BY <1>2 DEF CommitBrand
  <2>3. brands' \in [Brands -> BrandRows \union {None}]
        /\ \A d \in Brands : brands[d] # None => brands'[d] # None
    BY <2>1, <2>2 DEF Shelves
  <2> QED
    BY <1>1, <2>3, DraftRows DEF Shelves
<1> DEFINE row == RowOf(CreateForm(Row(m), b, m.category), FALSE)
<1>5. Referring'
  <2>1. products' = [products EXCEPT ![p] = row] /\ KeysExist(row, brands', categories')
    BY <1>2 DEF Insert
  <2> HIDE DEF row
  <2>2. ProductsOK /\ Referring
    BY DEF TableInv, Inv, CatalogInv, TablesOK
  <2>3. \A q \in Products : products'[q] # None =>
          \/ KeysExist(products'[q], brands', categories')
          \/ products[q] # None /\ SameKeys(products'[q], products[q])
    BY <2>1, <2>2 DEF ProductsOK, SameKeys
  <2> QED
    BY <1>4, <2>2, <2>3, ReferencesKept
<1>6. TablesOK'
  <2>1. UNCHANGED <<carts, invoiced, reserved>>
    BY <1>1 DEF sales
  <2> QED
    BY <1>1, <1>4, <1>5, <2>1 DEF TableInv, TablesOK, Pictured, Stocked
<1>7. CargoOK([Committed(m, p) EXCEPT !.stage = "created"])
  BY <1>1, <1>3, ImportFields DEF CargoOK, Committed
<1>8. CargoSound'
  BY <1>2, <1>7, CargoOwn
<1> QED
  BY <1>1, <1>6, <1>8, FlightStays DEF ImportTableStep, TableInv

\* ... or is written into the product it has found.
LEMMA RowUpdateTables ==
  ASSUME TableInv, NEW i \in Importers, RowUpdate(i) PROVE ImportTableStep
<1> DEFINE m == imports[i]
           row == Updated(m.target, m.seen, UpdateForm(Row(m), m.seen, m.category))
           next == [Committed(m, m.target) EXCEPT !.stage = "updated"]
<1>1. /\ ImportOK(m) /\ CargoOK(m) /\ m.stage = "update" /\ CommitDraft(m)
      /\ UNCHANGED <<images, objects, brands, onHand, sales, work, queued>>
      /\ KeysExist(row, brands, categories')
      /\ products' = [products EXCEPT ![m.target] = row]
      /\ Disturb(Own(i, next))
  BY ImportFields DEF RowUpdate, Update
<1>2. m.row \in DOMAIN m.rows
  BY <1>1 DEF ImportOK, RowsOK
<1>3. CargoOK(next)
  BY <1>1, <1>2, ImportFields DEF CargoOK, Committed
<1> HIDE DEF row, next
<1>4. Shelves' /\ \A c \in Categories : categories[c] # None => categories'[c] # None
  BY <1>1, DraftRows DEF Shelves, TableInv, TablesOK
<1>5. Referring'
  <2>1. ProductsOK /\ Referring
    BY DEF TableInv, Inv, CatalogInv, TablesOK
  <2>2. \A q \in Products : products'[q] # None =>
          \/ KeysExist(products'[q], brands', categories')
          \/ products[q] # None /\ SameKeys(products'[q], products[q])
    BY <1>1, <2>1 DEF ProductsOK, SameKeys
  <2> QED
    BY <1>1, <1>4, <2>1, <2>2, ReferencesKept
<1>6. TablesOK'
  <2>1. UNCHANGED <<carts, invoiced, reserved>>
    BY <1>1 DEF sales
  <2> QED
    BY <1>1, <1>4, <1>5, <2>1 DEF TableInv, TablesOK, Pictured, Stocked
<1>7. CargoSound'
  BY <1>1, <1>3, CargoOwn
<1> QED
  BY <1>1, <1>6, <1>7, FlightStays DEF ImportTableStep, TableInv

LEMMA RowStockTables ==
  ASSUME TableInv, NEW i \in Importers, RowStock(i) PROVE ImportTableStep
<1> DEFINE m == imports[i]
           next == [m EXCEPT !.seen = None,
                      !.stage = IF m.stage = "created" THEN "create-photo" ELSE "update-photo"]
<1>1. /\ CargoOK(m) /\ m.stage \in {"created", "updated"}
      /\ SetStock(m.target, Row(m).stock) /\ Disturb(Own(i, next))
      /\ UNCHANGED <<products, images, objects, brands, categories, sales, work, queued>>
  BY ImportFields DEF RowStock
<1>2. Row(m).stock \in Int
  BY <1>1 DEF CargoOK, FileOK, NamesOK, Row
<1>3. CargoOK(next)
  BY <1>1, ImportFields DEF CargoOK
<1> HIDE DEF next
<1>4. TablesOK' /\ objects \subseteq objects'
  BY <1>1, <1>2, StockWritten DEF TableInv
<1>5. CargoSound'
  BY <1>1, <1>3, CargoOwn
<1> QED
  BY <1>1, <1>4, <1>5, FlightStays DEF ImportTableStep, TableInv

LEMMA RowPhotoTables ==
  ASSUME TableInv, NEW i \in Importers, RowPhoto(i) PROVE ImportTableStep
<1> DEFINE m == imports[i]
           done == Advance(m, IF m.stage = "create-photo" THEN "create" ELSE "update")
<1>1. /\ Disturb(Own(i, done)) \/ Stay(i, done)
      /\ UNCHANGED <<products, brands, categories, onHand, sales, work, queued>>
  BY DEF RowPhoto
<1>2. CargoOK(done)
  BY CargoAdvances
<1> HIDE DEF done
<1>3. CargoSound'
  BY <1>1, <1>2, CargoOwn, CargoStays
<1>4. objects \subseteq objects' /\ DOMAIN images' = Products
      /\ \A p \in Products : \A j \in images'[p] : j \in images[p] \/ j.key \in objects'
  <2>1. DOMAIN images = Products
    BY DEF TableInv, TablesOK, Pictured
  <2>2. CASE UNCHANGED <<objects, images>>
    BY <2>1, <2>2
  <2>3. CASE ~UNCHANGED <<objects, images>>
    <3>1. PICK k \in Keys \ objects : /\ objects' = objects \union {k}
                                      /\ images' = [images EXCEPT ![m.target] = {ImageRow(m.target, k)}]
      BY <2>3 DEF RowPhoto
    <3>2. ImageRow(m.target, k).key = k
      BY DEF ImageRow
    <3> QED
      BY <2>1, <3>1, <3>2
  <2> QED
    BY <2>2, <2>3
<1>5. TablesOK'
  BY <1>1, <1>4, PhotosWritten DEF TableInv
<1> QED
  BY <1>1, <1>3, <1>4, <1>5, FlightStays DEF ImportTableStep, TableInv

\* Every step of the composition.
LEMMA EveryTable ==
  ASSUME TableInv, ImportNext PROVE ImportTableStep
<1>1. CASE CatalogStep
  <2>1. TableStep
    BY <1>1, CatalogTables DEF CatalogStep
  <2>2. ASSUME UNCHANGED importVars PROVE CargoSound'
    BY <2>2 DEF importVars, TableInv, CargoSound
  <2>3. ASSUME Disturb(<<>>) PROVE CargoSound'
    BY <2>3, CargoDisturbed
  <2>4. CargoSound'
    BY <1>1, <2>2, <2>3 DEF CatalogStep
  <2> QED
    BY <2>1, <2>4 DEF TableStep, ImportTableStep
<1>2. CASE ImportForms
  BY <1>2, FormTables
<1>3. ASSUME NEW i \in Importers, ContinueImport(i) PROVE ImportTableStep
  BY <1>3, ReadingTables, RowCreateTables, RowUpdateTables, RowStockTables, RowPhotoTables
     DEF ContinueImport
<1> QED
  BY <1>1, <1>2, <1>3 DEF ImportNext

LEMMA InitTables == ASSUME ImportInit PROVE TableInv
<1>1. Inv
  BY InitInv
<1>2. TablesOK
  BY StartAssumption
     DEF ImportInit, Init, TablesOK, Shelves, Referring, Pictured, Stocked, Exists
<1>3. FlightSound
  BY DEF ImportInit, Init, FlightSound, FlightOK, Idle
<1>4. CargoSound
  BY NoCargo DEF ImportInit, CargoSound
<1> QED
  BY <1>1, <1>2, <1>3, <1>4 DEF TableInv

LEMMA NextTables == ASSUME TableInv, [ImportNext]_allVars PROVE TableInv'
<1>1. CASE ImportNext
  BY <1>1, NextInv, EveryTable DEF TableInv, ImportTableStep
<1>2. CASE UNCHANGED allVars
  <2>1. UNCHANGED <<tables, sales, work, queued, imports, staged>>
    BY <1>2 DEF allVars, catalogVars, importVars
  <2>2. TablesOK' /\ FlightSound'
    BY <2>1, TablesIdle
  <2>3. CargoSound'
    BY <2>1 DEF TableInv, CargoSound
  <2> QED
    BY <1>2, <2>2, <2>3, StutterInv DEF TableInv
<1> QED
  BY <1>1, <1>2

\* The rows of every table, what refers to them and what is in flight are well
\* formed, whatever overlaps.
THEOREM TableInvariant == ImportSpec => []TableInv
<1>1. ImportInit => TableInv
  BY InitTables
<1>2. TableInv /\ [ImportNext]_allVars => TableInv'
  BY NextTables
<1> QED
  BY <1>1, <1>2, PTL DEF ImportSpec

\* The brand and the category of a product exist, deleted or not, and every photo
\* belongs to a stored object, however deletions, renamings, uploads and imports
\* overlap (delete_brand, delete_category, add_product_image).
THEOREM CatalogTypes == ImportSpec => []CatalogTypeOK
<1>1. TableInv => CatalogTypeOK
  BY DEF TableInv, Inv, CatalogInv, ProductsOK, TablesOK, Referring, Pictured, Stocked,
         CatalogTypeOK
<1> QED
  BY <1>1, TableInvariant, PTL

-----------------------------------------------------------------------------
(* Repricing.                                                              *)

\* Whoever writes products ends a request of its own, or none.
LEMMA WhoWrites ==
  ASSUME ImportNext, products' # products
  PROVE  \/ UNCHANGED work
         \/ \E q \in Requests : CommitUpdate(q) \/ CommitDelete(q) \/ CommitReprice(q)
<1>1. CASE CatalogStep
  <2>1. ASSUME NEW r \in Requests, ProductForms(r) \/ ProductApi(r) PROVE UNCHANGED work
    <3>1. \/ \E f : CreateProduct(f)
          \/ \E p, f : EnterUpdate(r, p, f)
          \/ \E p : EnterDelete(r, p)
          \/ \E p, n : EnterImages(r, p, n)
          \/ \E p, n : CorrectStock(p, n)
      BY <2>1 DEF ProductForms, ProductApi, CreateSubmit, UpdateSubmit
    <3> QED
      BY <3>1 DEF CreateProduct, EnterUpdate, EnterDelete, EnterImages, CorrectStock, tables
  <2>2. ASSUME NEW r \in Requests, BrandForms(r) \/ CategoryForms(r) \/ Customers(r) PROVE FALSE
    BY <2>2 DEF BrandForms, CategoryForms, Customers, EnterCreateBrand, EnterRenameBrand,
                EnterDropBrand, CreateCategory, RenameCategory, EnterDropCategory, EnterCart,
                EnterOrder, RemoveFromCart, Release, tables
  <2>3. ASSUME NEW r \in Requests, Continue(r)
        PROVE  CommitUpdate(r) \/ CommitDelete(r) \/ CommitReprice(r)
    BY <2>3 DEF Continue, CheckDelete, PutObject, CommitImage, CommitCreateBrand,
                CommitRenameBrand, CommitDropBrand, CommitDropCategory, StartReprice,
                RestartReprice, CommitCart, CommitOrder, Abort, tables
  <2>4. ~SettingsForms
    BY DEF SettingsForms, SetMargin, EnqueueReprice, tables
  <2> QED
    BY <1>1, <2>1, <2>2, <2>3, <2>4 DEF CatalogStep, CatalogNext
<1>2. CASE ImportForms
  BY <1>2 DEF ImportForms, Preview, Confirm, tables
<1>3. ASSUME NEW i \in Importers, ContinueImport(i) PROVE UNCHANGED work
  BY <1>3 DEF ContinueImport, RowRefused, RowLookup, RowCreate, RowUpdate, RowStock,
              RowStockRefused, RowPhoto, PhotoRefused, Finish, Crash, catalogVars
<1> QED
  BY <1>1, <1>2, <1>3 DEF ImportNext

\* So a job that ends with a change of products has committed.
LEMMA JobCommits ==
  ASSUME WorkSound, ImportNext, NEW r \in Requests, work[r].op = "reprice",
         products' # products, work'[r] = Idle
  PROVE  CommitReprice(r)
<1>1. Idle.op = "idle"
  BY DEF Idle
<1>2. work'[r] # work[r]
  BY <1>1
<1>3. PICK q \in Requests : CommitUpdate(q) \/ CommitDelete(q) \/ CommitReprice(q)
  BY <1>2, WhoWrites
<1>4. work' = [work EXCEPT ![q] = Idle]
  BY <1>3 DEF CommitUpdate, CommitDelete, CommitReprice, End
<1>5. q = r
  BY <1>2, <1>4 DEF WorkSound
<1> QED
  BY <1>3, <1>5 DEF CommitUpdate, CommitDelete

\* What the commit of a job makes of a product.
LEMMA JobRow ==
  ASSUME ProductsOK, WorkSound, PriceRowConsistent, NEW r \in Requests, CommitReprice(r),
         NEW p \in Products
  PROVE  /\ p \in Undisturbed(work[r]) =>
              /\ products'[p].sale = CategoryPrice(p)
              /\ p \notin tainted =>
                   products'[p].margin = ComputeMargin(products[p].cost, CategoryPrice(p))
         /\ products'[p] # products[p] => ~work[r].seen.rows[p].deleted
<1> DEFINE w == work[r]
           seen == w.seen.rows[p]
           price == w.form.prices[p]
           new == [seen EXCEPT !.sale = price, !.margin = ComputeMargin(seen.cost, price)]
<1>1. /\ w.op = "reprice" /\ WorkOK(w)
      /\ \A q \in Changed(w) : w.form.prices[q] >= 0
      /\ products'[p] = IF p \in Changed(w) THEN Written(products[p], seen, new) ELSE products[p]
  BY DEF CommitReprice, Repriced, WorkSound
<1>2. ASSUME p \in Changed(w) PROVE seen \in ProductRows /\ ~seen.deleted
  BY <1>1, <1>2 DEF Changed, WorkOK
<1>3. ASSUME p \in Undisturbed(w)
      PROVE  /\ products'[p].sale = CategoryPrice(p)
             /\ p \notin tainted =>
                  products'[p].margin = ComputeMargin(products[p].cost, CategoryPrice(p))
  <2>1. /\ p \in DOMAIN w.seen.rows /\ products[p] = seen /\ price = CategoryPrice(p)
        /\ Exists(p)
    BY <1>3 DEF Undisturbed, ToReprice, Live
  <2>2. seen \in ProductRows /\ price \in Int
    BY <1>1, <2>1 DEF WorkOK
  <2>3. CASE p \in Changed(w)
    <3>1. price \in Nat /\ seen.cost \in Nat \union {None}
      BY <1>1, <2>2, <2>3 DEF ProductRows
    <3>2. ComputeMargin(seen.cost, price) \in Int \union {None}
      BY <3>1, MarginType
    <3>3. /\ new \in ProductRows /\ new.sale = price
          /\ new.margin = ComputeMargin(seen.cost, price)
      BY <2>2, <3>1, <3>2 DEF ProductRows
    <3> HIDE DEF new, price, seen, w
    <3>4. products'[p] = new
      BY <1>1, <2>1, <2>2, <2>3, <3>3, WrittenFresh
    <3> QED
      BY <2>1, <3>3, <3>4
  <2>4. CASE p \notin Changed(w)
    <3>1. products'[p] = products[p] /\ seen.sale = price
      BY <1>1, <2>1, <2>4 DEF Changed
    <3>2. p \notin tainted => products[p].margin = ComputeMargin(products[p].cost, products[p].sale)
      BY <2>1 DEF PriceRowConsistent
    <3> QED
      BY <2>1, <3>1, <3>2
  <2> QED
    BY <2>3, <2>4
<1>4. products'[p] # products[p] => p \in Changed(w)
  BY <1>1
<1> HIDE DEF w, seen, new, price
<1> QED
  BY <1>2, <1>3, <1>4 DEF w, seen

\* When a job commits, every product that nothing has disturbed since the job read
\* it stands at the markup of its category, and no product changes that was
\* deleted then (reprice_products_from_categories).
THEOREM RepricingApplies == ImportSpec => RepriceApplies
<1> DEFINE A == \A r \in Requests : work[r].op = "reprice" /\ products' # products
                                    /\ work'[r] = Idle =>
                  /\ \A p \in Undisturbed(work[r]) :
                       /\ products'[p].sale = CategoryPrice(p)
                       /\ p \notin tainted =>
                            products'[p].margin = ComputeMargin(products[p].cost, CategoryPrice(p))
                  /\ \A p \in Products : products'[p] # products[p] =>
                       ~work[r].seen.rows[p].deleted
<1>1. Inv /\ [ImportNext]_allVars => [A]_catalogVars
  <2>1. ASSUME Inv, ImportNext PROVE A
    <3>1. SUFFICES ASSUME NEW r \in Requests, work[r].op = "reprice", products' # products,
                          work'[r] = Idle
                   PROVE  /\ \A p \in Undisturbed(work[r]) :
                               /\ products'[p].sale = CategoryPrice(p)
                               /\ p \notin tainted =>
                                    products'[p].margin = ComputeMargin(products[p].cost, CategoryPrice(p))
                          /\ \A p \in Products : products'[p] # products[p] =>
                               ~work[r].seen.rows[p].deleted
      OBVIOUS
    <3>2. ProductsOK /\ WorkSound /\ PriceRowConsistent
      BY <2>1 DEF Inv, CatalogInv
    <3>3. CommitReprice(r)
      BY <2>1, <3>1, <3>2, JobCommits
    <3>4. \A p \in Undisturbed(work[r]) : p \in Products
      BY DEF Undisturbed, ToReprice
    <3> QED
      BY <3>2, <3>3, <3>4, JobRow
  <2>2. ASSUME UNCHANGED allVars PROVE UNCHANGED catalogVars
    BY <2>2 DEF allVars
  <2> QED
    BY <2>1, <2>2
<1>2. ImportSpec => [][A]_catalogVars
  BY <1>1, CatalogInvariant, PTL DEF ImportSpec
<1> QED
  BY <1>2 DEF RepriceApplies

-----------------------------------------------------------------------------
(* What the pages show.                                                    *)

RowsTyped ==
  /\ products \in [Products -> ProductRows \union {None}]
  /\ onHand \in [Products -> Nat]

\* ORDER BY on the rows S: the pairs of an earlier and a later one.
Ordering(sort, S) ==
  {pair \in S \X S : Before(SortKey(sort, pair[1]), SortKey(sort, pair[2]))}

SortKeys == Int \X Int \X Int

LEMMA KeyTypes ==
  ASSUME RowsTyped, NEW sort, NEW f, NEW p \in Storefront(f)
  PROVE  SortKey(sort, p) \in SortKeys /\ SortKey(sort, p)[3] = p
<1>1. p \in Products /\ products[p] \in ProductRows
  BY DEF Storefront, Live, Exists, RowsTyped
<1>2. products[p].sale \in Int /\ NameRank[products[p].name] \in Int /\ p \in Int
  BY <1>1, ViewAssumption DEF ProductRows
<1>3. Available(p) \in Int /\ -Available(p) \in Int /\ -products[p].sale \in Int
  BY <1>1, <1>2 DEF Available, ReservedOf, RowsTyped
<1> DEFINE first == CASE sort = "price_asc" -> products[p].sale
                      [] sort = "price_desc" -> -products[p].sale
                      [] sort = "stock_asc" -> Available(p)
                      [] sort = "stock_desc" -> -Available(p)
                      [] OTHER -> 0
<1>4. first \in Int
  BY <1>2, <1>3
<1>5. SortKey(sort, p) = <<first, NameRank[products[p].name], p>>
  BY DEF SortKey
<1> HIDE DEF first
<1> QED
  BY <1>2, <1>4, <1>5 DEF SortKeys

\* Rows that differ in their id have an order, whatever the columns before it.
LEMMA BeforeIsOrder ==
  /\ \A a \in SortKeys : ~Before(a, a)
  /\ \A a, b, c \in SortKeys : Before(a, b) /\ Before(b, c) => Before(a, c)
  /\ \A a, b \in SortKeys : a[3] = b[3] \/ Before(a, b) \/ Before(b, a)
<1>1. \A a \in SortKeys : a[1] \in Int /\ a[2] \in Int /\ a[3] \in Int
  BY DEF SortKeys
<1> QED
  BY <1>1 DEF Before

LEMMA OrderingIsLinear ==
  ASSUME RowsTyped, NEW sort, NEW f
  PROVE  IsLinear(Ordering(sort, Storefront(f)), Storefront(f))
<1> DEFINE S == Storefront(f)
           key(p) == SortKey(sort, p)
           R == Ordering(sort, S)
<1>1. \A p \in S : key(p) \in SortKeys /\ key(p)[3] = p
  BY KeyTypes
<1>2. \A p, q \in S : <<p, q>> \in R <=> Before(key(p), key(q))
  BY DEF Ordering
<1> HIDE DEF S, key, R
<1>3. IsOrder(R, S)
  BY <1>1, <1>2, BeforeIsOrder DEF IsOrder
<1>4. \A p, q \in S : p = q \/ <<p, q>> \in R \/ <<q, p>> \in R
  BY <1>1, <1>2, BeforeIsOrder
<1>5. IsLinear(R, S)
  BY <1>3, <1>4 DEF IsLinear
<1> QED
  BY <1>5 DEF S, R

LEMMA StorefrontFinite ==
  ASSUME NEW f PROVE IsFiniteSet(Storefront(f)) /\ Cardinality(Storefront(f)) \in Nat
<1>1. Storefront(f) \in SUBSET Products
  BY DEF Storefront
<1> QED
  BY <1>1, TableAssumption, FS_Subset, FS_CardinalityType

\* A page is what OFFSET and LIMIT leave of the ordered rows.
LEMMA PageIsSlice ==
  ASSUME RowsTyped, NEW sort, NEW f,
         NEW n \in 1..TotalPages(Total(f))
  PROVE  PageRows(sort, f, n) = PageOf(Storefront(f), Ordering(sort, Storefront(f)), PageSize, n)
<1> DEFINE S == Storefront(f)
           R == Ordering(sort, S)
<1>1. \A p \in S : Place(sort, f, p) = RankIn(S, R, p)
  <2>1. ASSUME NEW p \in S
        PROVE  {q \in S : Before(SortKey(sort, q), SortKey(sort, p))} = Predecessors(S, R, p)
    BY DEF Predecessors, Ordering
  <2> QED
    BY <2>1 DEF Place, RankIn
<1>2. \A p \in S : RankIn(S, R, p) \in Int
  BY OrderingIsLinear, StorefrontFinite, RankType DEF IsLinear
<1>3. PageSize \in Nat /\ n \in Int
  BY ViewAssumption, PagesSuffice, StorefrontFinite DEF TotalPages, Total, PagesFor
<1> DEFINE offset == (n - 1) * PageSize
<1>4. offset \in Int /\ n * PageSize = offset + PageSize
  BY <1>3
<1>5. PageRows(sort, f, n) = {p \in S : Place(sort, f, p) \in offset..(offset + PageSize - 1)}
  BY <1>3 DEF PageRows
<1> HIDE DEF S, R, offset
<1>6. ASSUME NEW p \in S
      PROVE  Place(sort, f, p) \in offset..(offset + PageSize - 1)
             <=> offset <= RankIn(S, R, p) /\ RankIn(S, R, p) < n * PageSize
  BY <1>1, <1>2, <1>3, <1>4
<1>7. PageRows(sort, f, n) = PageOf(S, R, PageSize, n)
  BY <1>5, <1>6 DEF PageOf, offset
<1> QED
  BY <1>7 DEF S, R

\* The pages of one filter and one order.
LEMMA PagesAgree ==
  ASSUME RowsTyped, NEW sort, NEW f
  PROVE  LET final == TotalPages(Total(f))
             page == [n \in 1..final + 1 |-> PageRows(sort, f, n)]
         IN /\ Storefront(f) = UNION {page[n] : n \in 1..final}
            /\ \A n \in 1..final - 1 : Cardinality(page[n]) = PageSize
            /\ Cardinality(page[final]) <= PageSize
            /\ page[final] = {} => Storefront(f) = {}
            /\ page[final + 1] = page[final]
<1> DEFINE S == Storefront(f)
           R == Ordering(sort, S)
           final == TotalPages(Total(f))
           page == [n \in 1..final + 1 |-> PageRows(sort, f, n)]
<1>1. /\ IsFiniteSet(S) /\ IsLinear(R, S) /\ PageSize \in Nat \ {0}
      /\ final = PagesFor(Cardinality(S), PageSize)
  BY StorefrontFinite, OrderingIsLinear, ViewAssumption DEF TotalPages, Total, PagesFor
<1>2. final \in Nat \ {0}
  BY <1>1, StorefrontFinite, PagesSuffice
<1>3. \A n \in 1..final : page[n] = PageOf(S, R, PageSize, n)
  BY <1>2, PageIsSlice
<1>4. page[final + 1] = page[final]
  <2>1. page[final + 1] = PageRows(sort, f, final + 1) /\ page[final] = PageRows(sort, f, final)
    BY <1>2
  <2>2. ~(final + 1 <= final) /\ final <= final
    BY <1>2
  <2> QED
    BY <2>1, <2>2 DEF PageRows
<1> HIDE DEF S, R, final, page
<1>5. /\ UNION {PageOf(S, R, PageSize, n) : n \in 1..final} = S
      /\ S # {} => PageOf(S, R, PageSize, final) # {}
  BY <1>1, PagesPartition
<1>6. /\ \A n \in 1..final - 1 : Cardinality(PageOf(S, R, PageSize, n)) = PageSize
      /\ Cardinality(PageOf(S, R, PageSize, final)) <= PageSize
  BY <1>1, PagesFull
<1>7. final \in 1..final /\ 1..final - 1 \subseteq 1..final
  BY <1>2
<1>8. S = UNION {page[n] : n \in 1..final}
  BY <1>3, <1>5
<1>9. /\ \A n \in 1..final - 1 : Cardinality(page[n]) = PageSize
      /\ Cardinality(page[final]) <= PageSize
      /\ page[final] = {} => S = {}
  BY <1>3, <1>5, <1>6, <1>7
<1> QED
  BY <1>4, <1>8, <1>9 DEF S, final, page

\* What a filter of one column lists.
LEMMA FilteredRows ==
  ASSUME NEW v, v # None
  PROVE  /\ Storefront([NoFilter EXCEPT !.category = v])
              = {p \in Storefront(NoFilter) : products[p].category = v}
         /\ Storefront([NoFilter EXCEPT !.brand = v])
              = {p \in Storefront(NoFilter) : products[p].brand = v}
         /\ Storefront([NoFilter EXCEPT !.year = v])
              = {p \in Storefront(NoFilter) : products[p].year = v}
         /\ AdminList([NoFilter EXCEPT !.category = v], None) = ProductsOfCategory(v)
         /\ AdminList([NoFilter EXCEPT !.brand = v], None) = ProductsOfBrand(v)
BY DEF Storefront, AdminList, Passes, NoFilter, ProductsOfCategory, ProductsOfBrand

LEMMA CategoryNumbers ==
  ASSUME RowsTyped, Referring, NEW c \in Categories
  PROVE  /\ Counter(CategoryStats, c) = Total([NoFilter EXCEPT !.category = c])
         /\ CategoryRowCount(c) = Cardinality(AdminList([NoFilter EXCEPT !.category = c], None))
         /\ CategoryRowCount(c) = 0 => c \notin DOMAIN CategoryStats
<1> DEFINE count(d) == Cardinality({p \in Storefront(NoFilter) : products[p].category = d})
           shown == {p \in Storefront(NoFilter) : products[p].category = c}
           listed == ProductsOfCategory(c)
<1>1. c # None
  BY NullAssumption
<1>2. /\ Storefront([NoFilter EXCEPT !.category = c]) = shown
      /\ AdminList([NoFilter EXCEPT !.category = c], None) = listed
  BY <1>1, FilteredRows
<1>3. CategoryStats = [d \in {e \in Categories : categories[e] # None /\ count(e) > 0} |-> count(d)]
  BY DEF CategoryStats
<1>4. count(c) = Cardinality(shown) /\ count(c) \in Nat
  BY <1>2, StorefrontFinite
<1>5. ASSUME categories[c] = None PROVE shown = {}
  BY <1>1, <1>5 DEF Storefront, Live, Referring, KeysExist
<1>6. categories[c] = None => count(c) = 0
  BY <1>4, <1>5, FS_EmptySet
<1>7. listed = {} => count(c) = 0
  <2>1. shown \subseteq listed
    BY DEF ProductsOfCategory, Storefront
  <2> QED
    BY <1>4, <2>1, FS_EmptySet
<1>8. Cardinality(listed) = 0 => listed = {}
  <2>1. listed \in SUBSET Products
    BY DEF ProductsOfCategory
  <2> HIDE DEF listed
  <2> QED
    BY <2>1, TableAssumption, FS_Subset, FS_EmptySet
<1>9. CategoryRowCount(c) = Cardinality(listed)
  BY DEF CategoryRowCount
<1>10. Total([NoFilter EXCEPT !.category = c]) = count(c)
  BY <1>2 DEF Total
<1> HIDE DEF count, shown, listed
<1>11. c \in DOMAIN CategoryStats <=> categories[c] # None /\ count(c) > 0
  BY <1>3
<1>12. Counter(CategoryStats, c) = count(c)
  BY <1>3, <1>4, <1>6, <1>11 DEF Counter
<1> QED
  BY <1>2, <1>4, <1>7, <1>8, <1>9, <1>10, <1>11, <1>12

LEMMA BrandNumbers ==
  ASSUME RowsTyped, Referring, NEW b \in Brands
  PROVE  /\ Counter(BrandStats, b) = Total([NoFilter EXCEPT !.brand = b])
         /\ BrandRowCount(b) = Cardinality(AdminList([NoFilter EXCEPT !.brand = b], None))
         /\ BrandRowCount(b) = 0 => b \notin DOMAIN BrandStats
<1> DEFINE count(d) == Cardinality({p \in Storefront(NoFilter) : products[p].brand = d})
           shown == {p \in Storefront(NoFilter) : products[p].brand = b}
           listed == ProductsOfBrand(b)
<1>1. b # None
  BY NullAssumption
<1>2. /\ Storefront([NoFilter EXCEPT !.brand = b]) = shown
      /\ AdminList([NoFilter EXCEPT !.brand = b], None) = listed
  BY <1>1, FilteredRows
<1>3. BrandStats = [d \in {e \in Brands : brands[e] # None /\ count(e) > 0} |-> count(d)]
  BY DEF BrandStats
<1>4. count(b) = Cardinality(shown) /\ count(b) \in Nat
  BY <1>2, StorefrontFinite
<1>5. ASSUME brands[b] = None PROVE shown = {}
  BY <1>1, <1>5 DEF Storefront, Live, Referring, KeysExist
<1>6. brands[b] = None => count(b) = 0
  BY <1>4, <1>5, FS_EmptySet
<1>7. listed = {} => count(b) = 0
  <2>1. shown \subseteq listed
    BY DEF ProductsOfBrand, Storefront
  <2> QED
    BY <1>4, <2>1, FS_EmptySet
<1>8. Cardinality(listed) = 0 => listed = {}
  <2>1. listed \in SUBSET Products
    BY DEF ProductsOfBrand
  <2> HIDE DEF listed
  <2> QED
    BY <2>1, TableAssumption, FS_Subset, FS_EmptySet
<1>9. BrandRowCount(b) = Cardinality(listed)
  BY DEF BrandRowCount
<1>10. Total([NoFilter EXCEPT !.brand = b]) = count(b)
  BY <1>2 DEF Total
<1> HIDE DEF count, shown, listed
<1>11. b \in DOMAIN BrandStats <=> brands[b] # None /\ count(b) > 0
  BY <1>3
<1>12. Counter(BrandStats, b) = count(b)
  BY <1>3, <1>4, <1>6, <1>11 DEF Counter
<1> QED
  BY <1>2, <1>4, <1>7, <1>8, <1>9, <1>10, <1>11, <1>12

LEMMA YearNumbers ==
  ASSUME NEW y \in Years PROVE Counter(YearStats, y) = Total([NoFilter EXCEPT !.year = y])
<1> DEFINE rows == Storefront(NoFilter)
           shown == {p \in rows : products[p].year = y}
<1>1. y # None
  BY NullAssumption, ViewAssumption
<1>2. Storefront([NoFilter EXCEPT !.year = y]) = shown
  BY <1>1, FilteredRows
<1>3. YearStats = [x \in {products[p].year : p \in rows} \ {None} |->
                     Cardinality({p \in rows : products[p].year = x})]
  BY DEF YearStats
<1>4. CASE y \in {products[p].year : p \in rows}
  <2>1. y \in DOMAIN YearStats /\ YearStats[y] = Cardinality(shown)
    BY <1>1, <1>3, <1>4
  <2> QED
    BY <1>2, <2>1 DEF Counter, Total
<1>5. CASE y \notin {products[p].year : p \in rows}
  <2>1. y \notin DOMAIN YearStats /\ shown = {}
    BY <1>3, <1>5
  <2> QED
    BY <1>2, <2>1, FS_EmptySet DEF Counter, Total
<1> QED
  BY <1>4, <1>5

\* The pages of the storefront show every product that passes the filter exactly
\* once, whatever the filter and the order; the counters beside them say what the
\* filter lists; and a brand or category that the administrator is shown as empty
\* has nothing on the storefront (list_products_storefront, the stats of brands,
\* categories and years). It holds of every state, with requests in flight too.
THEOREM ViewsAreRight == ImportSpec => []ViewsAgree
<1>1. ASSUME TableInv PROVE ViewsAgree
  <2>1. RowsTyped /\ Referring
    BY <1>1 DEF TableInv, Inv, CatalogInv, ProductsOK, TablesOK, Stocked, RowsTyped
  <2>3. ASSUME NEW ask \in Asked
        PROVE  LET f == ask[1]
                   final == TotalPages(Total(f))
                   page == [n \in 1..final + 1 |-> PageRows(ask[2], f, n)]
               IN /\ Storefront(f) = UNION {page[n] : n \in 1..final}
                  /\ \A n \in 1..final - 1 : Cardinality(page[n]) = PageSize
                  /\ Cardinality(page[final]) <= PageSize
                  /\ page[final] = {} => Storefront(f) = {}
                  /\ page[final + 1] = page[final]
    BY <2>1, PagesAgree
  <2> QED
    BY <2>1, <2>3, CategoryNumbers, BrandNumbers, YearNumbers, Zenon DEF ViewsAgree
<1> QED
  BY <1>1, TableInvariant, PTL
=============================================================================
