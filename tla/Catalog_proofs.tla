---------------------------- MODULE Catalog_proofs ----------------------------
(***************************************************************************)
(* Proofs about the catalogue composed with the price list import, for any *)
(* products, brands, categories, forms, files and numbers of requests and  *)
(* imports that overlap.                                                   *)
(*                                                                         *)
(* Of all steps few write a product (ProductStep). A step in flight keeps  *)
(* what it needs to be well formed (WorkSound, ImportSound), because       *)
(* products are never removed from the table.                              *)
(***************************************************************************)
EXTENDS PriceImport, TLAPS

\* What create_product and update_product accept.
FormRows ==
  [name : Names, brand : Brands \union {None}, category : Categories \union {None},
   year : Int \union {None}, cost : Nat \union {None}, sale : Nat, status : Statuses]

-----------------------------------------------------------------------------
(* Rows.                                                                   *)

\* None is no row.
LEMMA NullFacts == None \notin Int /\ None \notin ProductRows /\ None \notin Products
BY NullAssumption

LEMMA MarginType ==
  ASSUME NEW cost \in Nat \union {None}, NEW sale \in Nat
  PROVE  ComputeMargin(cost, sale) \in Int \union {None}
<1>1. CASE cost = None \/ sale <= 0
  BY <1>1 DEF ComputeMargin
<1>2. CASE ~(cost = None \/ sale <= 0)
  <2>1. cost \in Nat /\ sale \in Nat /\ sale > 0
    BY <1>2
  <2>2. (sale - cost) * 100 \in Int
    BY <2>1
  <2>3. \A x, y \in Int : y > 0 => x \div y \in Int
    OBVIOUS
  <2>4. ((sale - cost) * 100) \div sale \in Int
    BY <2>1, <2>2, <2>3
  <2> QED
    BY <1>2, <2>4 DEF ComputeMargin
<1> QED
  BY <1>1, <1>2

\* The row of a form, and its margin.
LEMMA RowOfForm ==
  ASSUME NEW f \in FormRows, NEW d \in BOOLEAN
  PROVE  /\ RowOf(f, d) \in ProductRows
         /\ RowOf(f, d).cost = f.cost /\ RowOf(f, d).sale = f.sale
         /\ RowOf(f, d).deleted = d
         /\ RowOf(f, d).margin = ComputeMargin(f.cost, f.sale)
<1>1. ComputeMargin(f.cost, f.sale) \in Int \union {None}
  BY MarginType DEF FormRows
<1> QED
  BY <1>1 DEF FormRows, RowOf, ProductRows

\* The UPDATE of a row keeps its type; of a row nobody has changed it leaves the
\* assigned values.
LEMMA WrittenType ==
  ASSUME NEW row \in ProductRows, NEW seen \in ProductRows, NEW new \in ProductRows
  PROVE  Written(row, seen, new) \in ProductRows
BY DEF Written, ProductRows

LEMMA WrittenFresh ==
  ASSUME NEW row \in ProductRows, NEW new \in ProductRows
  PROVE  Written(row, row, new) = new
BY DEF Written, ProductRows

\* A column of the UPDATE is the assigned value or what the column holds.
LEMMA WrittenColumn ==
  ASSUME NEW row \in ProductRows, NEW seen \in ProductRows, NEW new \in ProductRows,
         NEW c \in {"cost", "sale", "deleted", "margin"}
  PROVE  Written(row, seen, new)[c] = IF new[c] # seen[c] THEN new[c] ELSE row[c]
BY DEF Written, ProductRows

-----------------------------------------------------------------------------
(* What is stored and what is in flight.                                   *)

Prices == [cost : Nat \union {None}, sale : Nat]

ProductsOK ==
  /\ products \in [Products -> ProductRows \union {None}]
  /\ history \in [Products -> Seq(Prices)]
  /\ \A p \in Products : Exists(p) => history[p] # <<>>

MarginOK(row) == "margin" \in DOMAIN row /\ row.margin \in Int \union {None}

CategoriesOK ==
  /\ DOMAIN categories = Categories
  /\ \A c \in Categories : categories[c] # None => MarginOK(categories[c])

\* A request in flight, w, has loaded what it needs.
WorkOK(w) ==
  /\ DOMAIN w = {"op", "target", "form", "seen", "left"}
  /\ w.op \in {"update", "delete", "deleting", "cart", "order"} =>
       w.target \in Products /\ Exists(w.target)
  /\ w.op = "update" => w.form \in FormRows /\ w.seen \in ProductRows
  /\ w.op = "delete" => w.seen.invoice = {}
  /\ w.op = "deleting" => w.seen = [cart |-> {}, invoice |-> {}, reservation |-> {}]
  /\ w.op \in {"cart", "order"} => w.seen \in ProductRows /\ ~w.seen.deleted
  /\ w.op = "reprice" =>
       /\ DOMAIN w.seen.rows \subseteq Products
       /\ \A p \in DOMAIN w.seen.rows :
            /\ Exists(p) /\ w.seen.rows[p] \in ProductRows
            /\ w.seen.rows[p].cost # None /\ ~w.seen.rows[p].deleted
            /\ w.form.prices[p] \in Int

WorkSound == DOMAIN work = Requests /\ \A r \in Requests : WorkOK(work[r])

-----------------------------------------------------------------------------
(* Steps by what they write.                                               *)

Quiet == UNCHANGED <<products, history, repriced>> /\ tainted \subseteq tainted'

SalesShrink == carts' \subseteq carts /\ invoiced' \subseteq invoiced /\ reserved' \subseteq reserved
SalesStep == SalesShrink \/ \E r \in Requests : CommitCart(r) \/ CommitOrder(r)

Inserts ==
  /\ \E p \in Products, f \in FormRows : Insert(p, RowOf(f, FALSE))
  /\ UNCHANGED ghosts
Updates ==
  /\ \E p \in Products, seen \in ProductRows, f \in FormRows :
       Exists(p) /\ Update(p, seen, f)
  /\ UNCHANGED repriced
Deletes == \E r \in Requests : CommitDelete(r)
Reprices == \E r \in Requests : CommitReprice(r)

ProductStep ==
  \/ Quiet /\ SalesStep
  \/ UNCHANGED sales /\ (Inserts \/ Updates \/ Deletes \/ Reprices)

\* One slot of work changes at most, to something well formed.
WorkStep ==
  \/ UNCHANGED work
  \/ /\ DOMAIN work' = Requests
     /\ \E r \in Requests :
          /\ WorkOK(work'[r])
          /\ \A q \in Requests \ {r} : work'[q] = work[q]

Step == ProductStep /\ WorkStep /\ CategoriesOK'

-----------------------------------------------------------------------------
(* The actions of the catalogue.                                           *)

LEMMA IdleOK == WorkOK(Idle)
BY DEF WorkOK, Idle

LEMMA EndStep ==
  ASSUME WorkSound, NEW r \in Requests, End(r) PROVE WorkStep
<1>1. DOMAIN work' = Requests /\ work'[r] = Idle
      /\ \A q \in Requests \ {r} : work'[q] = work[q]
  BY DEF End, WorkSound
<1> QED
  BY <1>1, IdleOK DEF WorkStep

LEMMA PutStep ==
  ASSUME WorkSound, NEW r \in Requests, NEW w, WorkOK(w), work' = [work EXCEPT ![r] = w]
  PROVE  WorkStep
<1>1. DOMAIN work' = Requests /\ work'[r] = w
      /\ \A q \in Requests \ {r} : work'[q] = work[q]
  BY DEF WorkSound
<1> QED
  BY <1>1 DEF WorkStep

\* Steps that write neither products nor what holds on to them.
LEMMA QuietProducts ==
  ASSUME UNCHANGED <<products, history, sales, ghosts>> PROVE ProductStep
BY DEF ProductStep, Quiet, SalesStep, SalesShrink, sales, ghosts

LEMMA CategoriesStay ==
  ASSUME CategoriesOK, UNCHANGED categories PROVE CategoriesOK'
BY DEF CategoriesOK, MarginOK

\* A form that the handlers accept.
LEMMA ValidForms ==
  ASSUME NEW f \in Forms
  PROVE  /\ ValidInput(FormInput(f)) => FormInput(f) \in FormRows
         /\ ValidInput(ApiInput(f)) => ApiInput(f) \in FormRows
<1>1. f \in [name : Names, brand : Brands \union {None}, category : Categories \union {None},
             year : Int \union {None}, cost : Int \union {None}, sale : Int, status : STRING]
  BY FormsAssumption
<1>2. ASSUME NEW g \in [name : Names, brand : Brands \union {None},
                        category : Categories \union {None}, year : Int \union {None},
                        cost : Int \union {None}, sale : Int, status : STRING],
             ValidInput(g)
      PROVE  g \in FormRows
  <2>0. g.cost \in Int \union {None} /\ g.sale \in Int
    OBVIOUS
  <2>1. (g.cost # None => g.cost >= 0) /\ g.sale >= 0 /\ g.status \in Statuses
    BY <1>2, Zenon DEF ValidInput
  <2>2. g.cost \in Nat \union {None} /\ g.sale \in Nat
    BY <2>0, <2>1
  <2> QED
    BY <2>1, <2>2 DEF FormRows
<1>3. ApiInput(f) \in [name : Names, brand : Brands \union {None},
                       category : Categories \union {None}, year : Int \union {None},
                       cost : Int \union {None}, sale : Int, status : STRING]
  BY <1>1 DEF ApiInput
<1> QED
  BY <1>1, <1>2, <1>3 DEF FormInput

LEMMA CreateStep ==
  ASSUME ProductsOK, CategoriesOK, WorkSound, NEW f,
         ValidInput(f) => f \in FormRows, CreateProduct(f)
  PROVE  Step
<1>1. f \in FormRows
  BY DEF CreateProduct
<1>2. Inserts
  BY <1>1 DEF CreateProduct, Inserts
<1>3. UNCHANGED <<categories, sales, work>>
  BY DEF CreateProduct
<1> QED
  BY <1>2, <1>3, CategoriesStay DEF Step, ProductStep, WorkStep

LEMMA EnterUpdateStep ==
  ASSUME ProductsOK, CategoriesOK, WorkSound, NEW r \in Requests, NEW p \in Products, NEW f,
         ValidInput(f) => f \in FormRows, EnterUpdate(r, p, f)
  PROVE  Step
<1> DEFINE w == [op |-> "update", target |-> p, form |-> f, seen |-> products[p], left |-> 1]
<1>1. work' = [work EXCEPT ![r] = w] /\ f \in FormRows /\ Exists(p)
  BY DEF EnterUpdate, Begin
<1>2. WorkOK(w)
  BY <1>1 DEF WorkOK, ProductsOK, Exists
<1>3. UNCHANGED <<products, history, sales, ghosts, categories>>
  BY DEF EnterUpdate, tables
<1> QED
  BY <1>1, <1>2, <1>3, PutStep, QuietProducts, CategoriesStay DEF Step

LEMMA EnterDeleteStep ==
  ASSUME ProductsOK, CategoriesOK, WorkSound, NEW r \in Requests, NEW p \in Products,
         EnterDelete(r, p)
  PROVE  Step
<1> DEFINE w == [op |-> "delete", target |-> p, form |-> None, seen |-> Held(p), left |-> 1]
<1>1. work' = [work EXCEPT ![r] = w] /\ Exists(p) /\ p \notin invoiced
  BY DEF EnterDelete, Begin, Live
<1>2. Held(p).invoice = {}
  BY <1>1 DEF Held
<1>3. WorkOK(w)
  BY <1>1, <1>2 DEF WorkOK
<1>4. UNCHANGED <<products, history, sales, ghosts, categories>>
  BY DEF EnterDelete, tables
<1> QED
  BY <1>1, <1>3, <1>4, PutStep, QuietProducts, CategoriesStay DEF Step

LEMMA CheckDeleteStep ==
  ASSUME ProductsOK, CategoriesOK, WorkSound, NEW r \in Requests, CheckDelete(r)
  PROVE  Step
<1> DEFINE w == [work[r] EXCEPT !.op = "deleting", !.seen = Checked(r)]
<1>1. /\ work' = [work EXCEPT ![r] = w] /\ work[r].op = "delete" /\ WorkOK(work[r])
      /\ work[r].target \notin carts /\ work[r].target \notin reserved
  BY DEF CheckDelete, WorkSound
<1>2. Checked(r) = [cart |-> {}, invoice |-> {}, reservation |-> {}]
  BY <1>1 DEF Checked, Held, WorkOK
<1>3. WorkOK(w)
  BY <1>1, <1>2 DEF WorkOK
<1>4. UNCHANGED <<products, history, sales, ghosts, categories>>
  BY DEF CheckDelete, tables
<1> QED
  BY <1>1, <1>3, <1>4, PutStep, QuietProducts, CategoriesStay DEF Step

\* The first half of the operations on brands and categories.
LEMMA EnterCreateBrandStep ==
  ASSUME ProductsOK, CategoriesOK, WorkSound, NEW r \in Requests, NEW n, EnterCreateBrand(r, n)
  PROVE  Step
<1>1. work' = [work EXCEPT ![r] = [op |-> "brand", target |-> None, form |-> [name |-> n],
                                   seen |-> None, left |-> 1]]
  BY DEF EnterCreateBrand, Begin
<1>2. WorkOK([op |-> "brand", target |-> None, form |-> [name |-> n], seen |-> None, left |-> 1])
  BY DEF WorkOK
<1>3. UNCHANGED <<products, history, sales, ghosts, categories>>
  BY DEF EnterCreateBrand, tables
<1> QED
  BY <1>1, <1>2, <1>3, PutStep, QuietProducts, CategoriesStay DEF Step

LEMMA EnterRenameBrandStep ==
  ASSUME ProductsOK, CategoriesOK, WorkSound, NEW r \in Requests, NEW b, NEW n, EnterRenameBrand(r, b, n)
  PROVE  Step
<1>1. work' = [work EXCEPT ![r] = [op |-> "rename", target |-> b, form |-> [name |-> n],
                                   seen |-> None, left |-> 1]]
  BY DEF EnterRenameBrand, Begin
<1>2. WorkOK([op |-> "rename", target |-> b, form |-> [name |-> n], seen |-> None, left |-> 1])
  BY DEF WorkOK
<1>3. UNCHANGED <<products, history, sales, ghosts, categories>>
  BY DEF EnterRenameBrand, tables
<1> QED
  BY <1>1, <1>2, <1>3, PutStep, QuietProducts, CategoriesStay DEF Step

LEMMA EnterDropBrandStep ==
  ASSUME ProductsOK, CategoriesOK, WorkSound, NEW r \in Requests, NEW b, EnterDropBrand(r, b)
  PROVE  Step
<1>1. work' = [work EXCEPT ![r] = [op |-> "dropBrand", target |-> b, form |-> None,
                                   seen |-> None, left |-> 1]]
  BY DEF EnterDropBrand, Begin
<1>2. WorkOK([op |-> "dropBrand", target |-> b, form |-> None, seen |-> None, left |-> 1])
  BY DEF WorkOK
<1>3. UNCHANGED <<products, history, sales, ghosts, categories>>
  BY DEF EnterDropBrand, tables
<1> QED
  BY <1>1, <1>2, <1>3, PutStep, QuietProducts, CategoriesStay DEF Step

LEMMA EnterDropCategoryStep ==
  ASSUME ProductsOK, CategoriesOK, WorkSound, NEW r \in Requests, NEW c, EnterDropCategory(r, c)
  PROVE  Step
<1>1. work' = [work EXCEPT ![r] = [op |-> "dropCategory", target |-> c, form |-> None,
                                   seen |-> None, left |-> 1]]
  BY DEF EnterDropCategory, Begin
<1>2. WorkOK([op |-> "dropCategory", target |-> c, form |-> None, seen |-> None, left |-> 1])
  BY DEF WorkOK
<1>3. UNCHANGED <<products, history, sales, ghosts, categories>>
  BY DEF EnterDropCategory, tables
<1> QED
  BY <1>1, <1>2, <1>3, PutStep, QuietProducts, CategoriesStay DEF Step

LEMMA EnterCartStep ==
  ASSUME ProductsOK, CategoriesOK, WorkSound, NEW r \in Requests, NEW p \in Products,
         EnterCart(r, p)
  PROVE  Step
<1> DEFINE w == [op |-> "cart", target |-> p, form |-> None, seen |-> products[p], left |-> 1]
<1>1. work' = [work EXCEPT ![r] = w] /\ Exists(p) /\ ~products[p].deleted
  BY DEF EnterCart, Begin, Orderable, Live
<1>2. products[p] \in ProductRows
  BY <1>1 DEF ProductsOK, Exists
<1>3. WorkOK(w)
  BY <1>1, <1>2 DEF WorkOK
<1>4. UNCHANGED <<products, history, sales, ghosts, categories>>
  BY DEF EnterCart, tables
<1> QED
  BY <1>1, <1>3, <1>4, PutStep, QuietProducts, CategoriesStay DEF Step

LEMMA EnterOrderStep ==
  ASSUME ProductsOK, CategoriesOK, WorkSound, NEW r \in Requests, NEW p \in Products,
         EnterOrder(r, p)
  PROVE  Step
<1> DEFINE w == [op |-> "order", target |-> p, form |-> None, seen |-> products[p], left |-> 1]
<1>1. work' = [work EXCEPT ![r] = w] /\ Exists(p) /\ ~products[p].deleted
  BY DEF EnterOrder, Begin, Orderable, Live
<1>2. products[p] \in ProductRows
  BY <1>1 DEF ProductsOK, Exists
<1>3. WorkOK(w)
  BY <1>1, <1>2 DEF WorkOK
<1>4. UNCHANGED <<products, history, sales, ghosts, categories>>
  BY DEF EnterOrder, tables
<1> QED
  BY <1>1, <1>3, <1>4, PutStep, QuietProducts, CategoriesStay DEF Step

\* Photos.
LEMMA ImageSteps ==
  ASSUME ProductsOK, CategoriesOK, WorkSound, NEW r \in Requests,
         \/ \E p \in Products, n \in 1..2 : EnterImages(r, p, n)
         \/ PutObject(r) \/ CommitImage(r)
  PROVE  Step
<1>1. UNCHANGED <<products, history, sales, ghosts, categories>>
  BY DEF EnterImages, PutObject, CommitImage, tables
<1>2. ASSUME NEW p \in Products, NEW n \in 1..2, EnterImages(r, p, n) PROVE WorkStep
  <2> DEFINE w == [op |-> "upload", target |-> p, form |-> None, seen |-> None, left |-> n]
  <2>1. work' = [work EXCEPT ![r] = w]
    BY <1>2 DEF EnterImages
  <2>2. WorkOK(w)
    BY DEF WorkOK
  <2> QED
    BY <2>1, <2>2, PutStep
<1>3. ASSUME PutObject(r) PROVE WorkStep
  <2>1. PICK key \in Keys : work' = [work EXCEPT ![r].op = "uploaded", ![r].form = key]
    BY <1>3 DEF PutObject
  <2> DEFINE w == [work[r] EXCEPT !.op = "uploaded", !.form = key]
  <2>2. work' = [work EXCEPT ![r] = w]
    BY <2>1
  <2>3. WorkOK(w)
    BY DEF WorkSound, WorkOK
  <2> QED
    BY <2>2, <2>3, PutStep
<1>4. ASSUME CommitImage(r) PROVE WorkStep
  <2>1. CASE work[r].left = 1
    BY <1>4, <2>1, EndStep DEF CommitImage
  <2>2. CASE work[r].left # 1
    <3> DEFINE w == [work[r] EXCEPT !.op = "upload", !.form = None, !.left = @ - 1]
    <3>1. work' = [work EXCEPT ![r] = w]
      BY <1>4, <2>2 DEF CommitImage
    <3>2. WorkOK(w)
      BY DEF WorkSound, WorkOK
    <3> QED
      BY <3>1, <3>2, PutStep
  <2> QED
    BY <2>1, <2>2
<1> QED
  BY <1>1, <1>2, <1>3, <1>4, QuietProducts, CategoriesStay DEF Step

\* A job reads products that exist, their cost and the margin of their category.
LEMMA StartRepriceStep ==
  ASSUME ProductsOK, CategoriesOK, WorkSound, NEW r \in Requests, StartReprice(r)
  PROVE  Step
<1> DEFINE w == [op |-> "reprice", target |-> None, left |-> 1,
                 seen |-> [rows |-> [p \in ToReprice |-> products[p]]],
                 form |-> [prices |-> [p \in ToReprice |-> CategoryPrice(p)]]]
<1>1. work' = [work EXCEPT ![r] = w]
  BY DEF StartReprice
<1>2. ASSUME NEW p \in ToReprice
      PROVE  /\ p \in Products /\ Exists(p) /\ products[p] \in ProductRows
             /\ products[p].cost # None /\ ~products[p].deleted
             /\ CategoryPrice(p) \in Int
  <2>1. /\ p \in Products /\ Exists(p) /\ ~products[p].deleted /\ products[p].cost # None
        /\ products[p].category # None /\ categories[products[p].category] # None
        /\ categories[products[p].category].margin # None
    BY DEF ToReprice, Live
  <2>2. products[p] \in ProductRows
    BY <2>1 DEF ProductsOK, Exists
  <2>3. products[p].cost \in Nat /\ products[p].category \in Categories
    BY <2>1, <2>2 DEF ProductRows
  <2>5. categories[products[p].category].margin \in Int
    BY <2>1, <2>3 DEF CategoriesOK, MarginOK
  <2>6. CategoryPrice(p) \in Int
    BY <2>3, <2>5 DEF CategoryPrice, Markup
  <2> QED
    BY <2>1, <2>2, <2>6
<1>3. WorkOK(w)
  BY <1>2 DEF WorkOK
<1>4. UNCHANGED <<products, history, sales, ghosts, categories>>
  BY DEF StartReprice, tables
<1> QED
  BY <1>1, <1>3, <1>4, PutStep, QuietProducts, CategoriesStay DEF Step

\* Steps that end a request and write no product.
LEMMA QuietEnds ==
  ASSUME ProductsOK, CategoriesOK, WorkSound, NEW r \in Requests,
         \/ CommitCreateBrand(r) \/ CommitRenameBrand(r) \/ CommitDropBrand(r)
         \/ CommitDropCategory(r) \/ RestartReprice(r) \/ Abort(r)
  PROVE  Step
<1>1. UNCHANGED <<products, history, sales, ghosts>>
  BY DEF CommitCreateBrand, CommitRenameBrand, CommitDropBrand, CommitDropCategory,
         RestartReprice, Abort, tables
<1>2. End(r)
  BY DEF CommitCreateBrand, CommitRenameBrand, CommitDropBrand, CommitDropCategory,
         RestartReprice, Abort
<1>3. CategoriesOK'
  <2>1. CASE CommitDropCategory(r)
    <3>1. categories' = [categories EXCEPT ![work[r].target] = None]
      BY <2>1 DEF CommitDropCategory
    <3> QED
      BY <3>1 DEF CategoriesOK, MarginOK
  <2>2. CASE ~CommitDropCategory(r)
    <3>1. UNCHANGED categories
      BY <2>2 DEF CommitCreateBrand, CommitRenameBrand, CommitDropBrand, RestartReprice,
                  Abort, tables
    <3> QED
      BY <3>1, CategoriesStay
  <2> QED
    BY <2>1, <2>2
<1> QED
  BY <1>1, <1>2, <1>3, EndStep, QuietProducts DEF Step

\* Steps without a request in flight.
LEMMA SettingsSteps ==
  ASSUME ProductsOK, CategoriesOK, WorkSound,
         \/ \E n \in CategoryNames : CreateCategory(n)
         \/ \E c \in Categories, n \in CategoryNames : RenameCategory(c, n)
         \/ \E c \in Categories, m \in Margins \union {None} : SetMargin(c, m)
         \/ EnqueueReprice
         \/ \E p \in Products, q \in Stocks : CorrectStock(p, q)
  PROVE  Step
<1>1. UNCHANGED <<products, history, sales, ghosts, work>>
  BY DEF CreateCategory, RenameCategory, SetMargin, EnqueueReprice, CorrectStock, tables
<1>2. CategoriesOK'
  <2>1. ASSUME NEW n \in CategoryNames, CreateCategory(n) PROVE CategoriesOK'
    <3>1. PICK c \in Categories : categories' = [categories EXCEPT ![c] = CategoryRow(n)]
      BY <2>1 DEF CreateCategory
    <3>2. MarginOK(CategoryRow(n))
      BY DEF MarginOK, CategoryRow
    <3> QED
      BY <3>1, <3>2 DEF CategoriesOK, MarginOK
  <2>2. ASSUME NEW c \in Categories, NEW n \in CategoryNames, RenameCategory(c, n)
        PROVE  CategoriesOK'
    <3>1. /\ categories' = [categories EXCEPT ![c] = [categories[c] EXCEPT !.name = n]]
          /\ MarginOK(categories[c])
      BY <2>2 DEF RenameCategory, CategoriesOK
    <3>2. MarginOK([categories[c] EXCEPT !.name = n])
      BY <3>1 DEF MarginOK
    <3> QED
      BY <3>1, <3>2 DEF CategoriesOK, MarginOK
  <2>3. ASSUME NEW c \in Categories, NEW m \in Margins \union {None}, SetMargin(c, m)
        PROVE  CategoriesOK'
    <3>1. /\ categories' = [categories EXCEPT ![c] = [categories[c] EXCEPT !.margin = m]]
          /\ MarginOK(categories[c]) /\ m \in Int \union {None}
      BY <2>3, FormsAssumption DEF SetMargin, CategoriesOK
    <3>2. MarginOK([categories[c] EXCEPT !.margin = m])
      BY <3>1 DEF MarginOK
    <3> QED
      BY <3>1, <3>2 DEF CategoriesOK, MarginOK
  <2>4. CASE EnqueueReprice \/ \E p \in Products, q \in Stocks : CorrectStock(p, q)
    <3>1. UNCHANGED categories
      BY <2>4 DEF EnqueueReprice, CorrectStock, tables
    <3> QED
      BY <3>1, CategoriesStay
  <2> QED
    BY <2>1, <2>2, <2>3, <2>4
<1> QED
  BY <1>1, <1>2, QuietProducts DEF Step, WorkStep

\* Carts and orders.
LEMMA SalesSteps ==
  ASSUME ProductsOK, CategoriesOK, WorkSound,
         \/ \E r \in Requests : CommitCart(r) \/ CommitOrder(r)
         \/ \E p \in Products : RemoveFromCart(p) \/ Release(p)
  PROVE  Step
<1>1. UNCHANGED <<products, history, categories, repriced>> /\ tainted \subseteq tainted'
  BY DEF CommitCart, CommitOrder, RemoveFromCart, Release, tables, ghosts, Taint
<1>2. SalesStep
  BY DEF RemoveFromCart, Release, SalesStep, SalesShrink
<1>3. WorkStep
  BY EndStep DEF CommitCart, CommitOrder, RemoveFromCart, Release, WorkStep
<1> QED
  BY <1>1, <1>2, <1>3, CategoriesStay DEF Step, ProductStep, Quiet

\* The commits that write products.
LEMMA ProductCommits ==
  ASSUME ProductsOK, CategoriesOK, WorkSound, NEW r \in Requests,
         CommitUpdate(r) \/ CommitDelete(r) \/ CommitReprice(r)
  PROVE  Step
<1>1. UNCHANGED <<categories, sales>> /\ End(r)
  BY DEF CommitUpdate, CommitDelete, CommitReprice
<1>2. ASSUME CommitUpdate(r) PROVE Updates
  <2>1. WorkOK(work[r]) /\ work[r].op = "update" /\ UNCHANGED repriced
        /\ Update(work[r].target, work[r].seen, work[r].form)
    BY <1>2 DEF CommitUpdate, WorkSound
  <2> QED
    BY <2>1 DEF WorkOK, Updates
<1>3. Updates \/ Deletes \/ Reprices
  BY <1>2 DEF Deletes, Reprices
<1> QED
  BY <1>1, <1>3, EndStep, CategoriesStay DEF Step, ProductStep

\* Every step of the catalogue is one of these.
LEMMA CatalogSteps ==
  ASSUME ProductsOK, CategoriesOK, WorkSound, CatalogNext
  PROVE  Step
<1>1. ASSUME NEW r \in Requests, ProductForms(r) \/ ProductApi(r) PROVE Step
  <2>1. ASSUME NEW f \in Forms, CreateProduct(FormInput(f)) \/ CreateProduct(ApiInput(f))
        PROVE  Step
    BY <2>1, ValidForms, CreateStep
  <2>2. ASSUME NEW f \in Forms, NEW p \in Products,
               EnterUpdate(r, p, FormInput(f)) \/ EnterUpdate(r, p, ApiInput(f))
        PROVE  Step
    BY <2>2, ValidForms, EnterUpdateStep
  <2>3. ASSUME NEW p \in Products, EnterDelete(r, p) PROVE Step
    BY <2>3, EnterDeleteStep
  <2>4. ASSUME NEW p \in Products, NEW n \in 1..2, EnterImages(r, p, n) PROVE Step
    BY <2>4, ImageSteps
  <2>5. ASSUME NEW p \in Products, NEW q \in Stocks, CorrectStock(p, q) PROVE Step
    BY <2>5, SettingsSteps
  <2> QED
    BY <1>1, <2>1, <2>2, <2>3, <2>4, <2>5
       DEF ProductForms, ProductApi, CreateSubmit, UpdateSubmit
<1>2. ASSUME NEW r \in Requests, BrandForms(r) \/ CategoryForms(r) PROVE Step
  BY <1>2, EnterCreateBrandStep, EnterRenameBrandStep, EnterDropBrandStep,
     EnterDropCategoryStep, SettingsSteps DEF BrandForms, CategoryForms
<1>3. ASSUME NEW r \in Requests, Customers(r) PROVE Step
  BY <1>3, EnterCartStep, EnterOrderStep, SalesSteps DEF Customers
<1>4. ASSUME NEW r \in Requests, Continue(r) PROVE Step
  BY <1>4, ProductCommits, CheckDeleteStep, ImageSteps, QuietEnds, StartRepriceStep,
     SalesSteps DEF Continue
<1>5. ASSUME SettingsForms PROVE Step
  BY <1>5, SettingsSteps DEF SettingsForms
<1> QED
  BY <1>1, <1>2, <1>3, <1>4, <1>5 DEF CatalogNext

-----------------------------------------------------------------------------
(* The imports.                                                            *)

\* A parsed row has the types of a product's columns.
ParsedOK(row) ==
  /\ row.name \in Names /\ row.year \in Int \union {None} /\ row.sale \in Int
  /\ row.status \in Statuses

RowsOK(rows) ==
  /\ Len(rows) \in Nat /\ DOMAIN rows = 1..Len(rows)
  /\ \A k \in DOMAIN rows : ParsedOK(rows[k])

\* An import, m, that is about to write a product has what it needs.
ImportOK(m) ==
  /\ DOMAIN m = DOMAIN NoImport
  /\ RowsOK(m.rows)
  /\ m.row \in Nat \ {0}
  /\ \A c \in DOMAIN m.draft : MarginOK(m.draft[c])
  /\ m.stage \in {"create", "update"} =>
       m.row <= Len(m.rows) /\ Valid(Row(m)) /\ m.category \in Categories
  /\ m.stage = "update" =>
       m.target \in Products /\ Exists(m.target) /\ m.seen \in ProductRows

StagedOK(file) == file # None => "rows" \in DOMAIN file /\ RowsOK(file.rows)

ImportSound ==
  /\ DOMAIN imports = Importers /\ \A i \in Importers : ImportOK(imports[i])
  /\ DOMAIN staged = Tokens /\ \A t \in Tokens : StagedOK(staged[t])

\* What a step leaves behind is well formed with the tables it has read.
ImportStep ==
  /\ DOMAIN imports' = Importers /\ \A i \in Importers : ImportOK(imports'[i])
  /\ DOMAIN staged' = Tokens /\ \A t \in Tokens : StagedOK(staged'[t])

LEMMA NoImportOK == ImportOK(NoImport)
<1>1. RowsOK(<<>>)
  BY DEF RowsOK
<1> QED
  BY <1>1 DEF ImportOK, NoImport

LEMMA StayStep ==
  ASSUME ImportSound, NEW i \in Importers, NEW m, ImportOK(m), Stay(i, m)
  PROVE  ImportStep
BY DEF ImportSound, ImportStep, Stay

LEMMA DisturbStep ==
  ASSUME ImportSound, NEW own, \A i \in DOMAIN own : ImportOK(own[i]), Disturb(own)
  PROVE  ImportStep
<1>1. ASSUME NEW i \in Importers PROVE ImportOK(imports'[i])
  <2>1. CASE i \in DOMAIN own
    BY <2>1 DEF Disturb
  <2>2. CASE i \notin DOMAIN own
    <3>1. /\ ImportOK(imports[i])
          /\ imports'[i] = [imports[i] EXCEPT !.quiet = FALSE, !.alone = FALSE, !.again = FALSE]
      BY <2>2 DEF ImportSound, Disturb
    <3> QED
      BY <3>1 DEF ImportOK, NoImport, Row
  <2> QED
    BY <2>1, <2>2
<1>2. ASSUME NEW t \in Tokens PROVE StagedOK(staged'[t])
  BY DEF ImportSound, StagedOK, Disturb
<1>3. DOMAIN imports' = Importers /\ DOMAIN staged' = Tokens
  BY DEF Disturb
<1> QED
  BY <1>1, <1>2, <1>3 DEF ImportStep

LEMMA OwnStep ==
  ASSUME ImportSound, NEW i \in Importers, NEW m, ImportOK(m), Disturb(Own(i, m))
  PROVE  ImportStep
<1>1. DOMAIN Own(i, m) = {i} /\ Own(i, m)[i] = m
  BY DEF Own
<1> QED
  BY <1>1, DisturbStep

LEMMA AdvanceOK ==
  ASSUME NEW m, ImportOK(m), NEW result PROVE ImportOK(Advance(m, result))
BY DEF ImportOK, Advance, NoImport, Row

\* The parser's rows.
LEMMA ParsedRowsOK ==
  ASSUME NEW file \in Files PROVE RowsOK(ParsedRows(file))
<1> DEFINE n == Len(file.data)
           rows == ParsedRows(file)
           S == {Normalized(file.data[k], SheetMeta(file.sheet)) : k \in 1..n}
<1> DEFINE Raw == [name : Names, label : STRING, price : Int]
<1>1. file.data \in Seq(Raw)
  BY FilesAssumption
<1>2. n \in Nat /\ \A k \in 1..n : file.data[k] \in Raw
  <2>1. ASSUME NEW T, NEW s \in Seq(T) PROVE Len(s) \in Nat /\ \A k \in 1..Len(s) : s[k] \in T
    OBVIOUS
  <2> HIDE DEF Raw
  <2> QED
    BY <1>1, <2>1
<1>3. rows \in [1..n -> S]
  BY DEF ParsedRows
<1>4. Len(rows) = n /\ DOMAIN rows = 1..n
  BY <1>2, <1>3
<1>5. ASSUME NEW k \in 1..n PROVE ParsedOK(rows[k])
  <2>1. rows[k] = Normalized(file.data[k], SheetMeta(file.sheet))
    BY DEF ParsedRows
  <2>2. file.data[k].name \in Names /\ file.data[k].price \in Int
    BY <1>2
  <2>3. YearOf[file.data[k].name] \in Int \union {None}
    BY <2>2, ReadingAssumption
  <2> QED
    BY <2>1, <2>2, <2>3 DEF Normalized, ParsedOK, Statuses
<1> QED
  BY <1>2, <1>4, <1>5 DEF RowsOK

\* What the tables hold after the categories of an import are committed.
LEMMA DraftCommitted ==
  ASSUME CategoriesOK, NEW m, ImportOK(m), CommitDraft(m) PROVE CategoriesOK'
<1>1. DOMAIN categories' = Categories
  BY DEF CommitDraft
<1>2. ASSUME NEW c \in Categories, categories'[c] # None PROVE MarginOK(categories'[c])
  <2>1. CASE c \notin DOMAIN m.draft
    BY <1>2, <2>1 DEF CommitDraft, CategoriesOK
  <2>2. CASE c \in DOMAIN m.draft /\ categories[c] = None
    BY <2>2 DEF CommitDraft, ImportOK
  <2>3. CASE c \in DOMAIN m.draft /\ categories[c] # None
    <3>1. categories'[c] = [categories[c] EXCEPT !.name = m.draft[c].name]
      BY <2>3 DEF CommitDraft
    <3>2. MarginOK(categories[c])
      BY <2>3 DEF CategoriesOK
    <3> QED
      BY <3>1, <3>2 DEF MarginOK
  <2> QED
    BY <2>1, <2>2, <2>3
<1> QED
  BY <1>1, <1>2 DEF CategoriesOK, MarginOK

\* A row that is about to be written fits the columns.
LEMMA RowFits ==
  ASSUME NEW m, ImportOK(m), m.stage \in {"create", "update"}
  PROVE  /\ Row(m).name \in Names /\ Row(m).year \in Int \union {None}
         /\ Row(m).sale \in Nat /\ Row(m).status \in Statuses
         /\ m.category \in Categories
<1>1. m.row \in DOMAIN m.rows /\ ParsedOK(m.rows[m.row]) /\ Valid(Row(m))
  BY DEF ImportOK, RowsOK
<1>2. Row(m).sale > 0
  BY <1>1, Zenon DEF Valid
<1> QED
  BY <1>1, <1>2 DEF ParsedOK, Row, ImportOK

LEMMA LookupStep ==
  ASSUME CategoriesOK, ProductsOK, ImportSound, NEW i \in Importers, RowLookup(i)
  PROVE  ImportStep
<1> DEFINE m == imports[i]
<1>1. ImportOK(m) /\ m.row <= Len(m.rows) /\ Valid(Row(m))
  BY DEF RowLookup, ImportSound
<1>2. PICK b \in BrandsFor(Row(m).brand), c \in CategoryFor(m, Row(m).category) :
        LET M == IF b = None THEN {} ELSE Matches(Row(m), b)
            wrote == IF c.row = categories[c.id] THEN m.draft ELSE Put(m.draft, c.id, c.row)
            found == [m EXCEPT !.brand = b, !.category = c.id, !.draft = wrote]
        IN CASE M = {} -> Stay(i, [found EXCEPT !.stage = "create"])
             [] Cardinality(M) > 1 -> Stay(i, Advance([m EXCEPT !.draft = wrote], "error"))
             [] OTHER -> \E p \in M :
                  Stay(i, [found EXCEPT !.stage = "update", !.target = p, !.seen = products[p]])
  BY DEF RowLookup
<1> DEFINE M == IF b = None THEN {} ELSE Matches(Row(m), b)
           wrote == IF c.row = categories[c.id] THEN m.draft ELSE Put(m.draft, c.id, c.row)
           found == [m EXCEPT !.brand = b, !.category = c.id, !.draft = wrote]
<1>3. c.id \in Categories /\ MarginOK(c.row)
  <2> DEFINE cs == SessionCategories(m)
             label == Row(m).category
  <2>1. ASSUME NEW d \in Categories, cs[d] # None PROVE MarginOK(cs[d])
    BY <1>1, <2>1 DEF SessionCategories, CategoriesOK, ImportOK
  <2>2. \/ \E d \in Categories : cs[d] # None /\ c = [id |-> d, row |-> [cs[d] EXCEPT !.name = label]]
        \/ \E d \in Categories : c = [id |-> d, row |-> [name |-> label, slug |-> ImportSlug(label), margin |-> None]]
    BY DEF CategoryFor
  <2>3. ASSUME NEW d \in Categories, cs[d] # None, c = [id |-> d, row |-> [cs[d] EXCEPT !.name = label]]
        PROVE  c.id \in Categories /\ MarginOK(c.row)
    BY <2>1, <2>3 DEF MarginOK
  <2>4. ASSUME NEW d \in Categories,
               c = [id |-> d, row |-> [name |-> label, slug |-> ImportSlug(label), margin |-> None]]
        PROVE  c.id \in Categories /\ MarginOK(c.row)
    BY <2>4 DEF MarginOK
  <2> QED
    BY <2>2, <2>3, <2>4
<1>4. \A d \in DOMAIN wrote : MarginOK(wrote[d])
  BY <1>1, <1>3 DEF Put, ImportOK
<1> HIDE DEF wrote
<1>5. ImportOK([m EXCEPT !.draft = wrote])
  BY <1>1, <1>4 DEF ImportOK, NoImport, Row
<1>6. ImportOK([found EXCEPT !.stage = "create"])
  BY <1>1, <1>3, <1>4 DEF ImportOK, NoImport, Row
<1>7. ASSUME NEW p \in M
      PROVE  ImportOK([found EXCEPT !.stage = "update", !.target = p, !.seen = products[p]])
  <2>1. p \in Products /\ Exists(p) /\ products[p] \in ProductRows
    BY DEF Matches, Live, ProductsOK, Exists
  <2> QED
    BY <1>1, <1>3, <1>4, <2>1 DEF ImportOK, NoImport, Row
<1>8. \/ Stay(i, [found EXCEPT !.stage = "create"])
      \/ Stay(i, Advance([m EXCEPT !.draft = wrote], "error"))
      \/ \E p \in M : Stay(i, [found EXCEPT !.stage = "update", !.target = p, !.seen = products[p]])
  BY <1>2 DEF wrote
<1> QED
  BY <1>5, <1>6, <1>7, <1>8, StayStep, AdvanceOK

CatalogInv == ProductsOK /\ CategoriesOK /\ WorkSound /\ ImportSound

ImportingStep == ProductStep /\ UNCHANGED work /\ CategoriesOK' /\ ImportStep

\* Steps of an import that write none of the tables of the catalogue.
LEMMA StillSteps ==
  ASSUME CatalogInv, UNCHANGED <<products, history, sales, ghosts, categories, work>>,
         ImportStep
  PROVE  ImportingStep
BY QuietProducts, CategoriesStay DEF ImportingStep, CatalogInv

LEMMA PreviewStep ==
  ASSUME CatalogInv, NEW t \in Tokens, NEW file \in Files, Preview(t, file)
  PROVE  ImportingStep
<1>1. PICK forecast :
        staged' = [staged EXCEPT ![t] =
                     [rows |-> ParsedRows(file), quiet |-> TRUE, forecast |-> forecast]]
  BY DEF Preview
<1>2. StagedOK([rows |-> ParsedRows(file), quiet |-> TRUE, forecast |-> forecast])
  BY ParsedRowsOK DEF StagedOK
<1>3. UNCHANGED imports
  BY DEF Preview
<1>4. ImportStep
  BY <1>1, <1>2, <1>3 DEF ImportStep, ImportSound, CatalogInv
<1>5. UNCHANGED <<products, history, sales, ghosts, categories, work>>
  BY DEF Preview, tables
<1> QED
  BY <1>4, <1>5, StillSteps

LEMMA ConfirmStep ==
  ASSUME CatalogInv, NEW i \in Importers, NEW t \in Tokens, Confirm(i, t)
  PROVE  ImportingStep
<1> DEFINE m == [NoImport EXCEPT !.stage = "lookup", !.token = t,
                   !.rows = staged[t].rows, !.forecast = staged[t].forecast,
                   !.quiet = staged[t].quiet, !.alone = TRUE,
                   !.again = (last = staged[t].rows)]
<1>1. Stay(i, m) /\ RowsOK(staged[t].rows)
  BY DEF Confirm, CatalogInv, ImportSound, StagedOK
<1>2. ImportOK(m)
  BY <1>1, NoImportOK DEF ImportOK, NoImport
<1>3. UNCHANGED <<products, history, sales, ghosts, categories, work>>
  BY DEF Confirm, tables
<1>4. ImportStep
  BY <1>1, <1>2, StayStep DEF CatalogInv
<1> QED
  BY <1>3, <1>4, StillSteps

\* Steps that write nothing.
LEMMA ReadingSteps ==
  ASSUME CatalogInv, NEW i \in Importers,
         RowRefused(i) \/ RowLookup(i) \/ RowStockRefused(i) \/ PhotoRefused(i)
         \/ Finish(i) \/ Crash(i)
  PROVE  ImportingStep
<1>1. ImportOK(imports[i])
  BY DEF CatalogInv, ImportSound
<1>2. UNCHANGED <<products, history, sales, ghosts, categories, work>>
  BY DEF RowRefused, RowLookup, RowStockRefused, PhotoRefused, Finish, Crash, catalogVars, tables
<1>3. CASE RowRefused(i) \/ RowStockRefused(i) \/ PhotoRefused(i)
  <2>1. Stay(i, Advance(imports[i], "error"))
    BY <1>3 DEF RowRefused, RowStockRefused, PhotoRefused
  <2>2. ImportStep
    BY <1>1, <2>1, AdvanceOK, StayStep DEF CatalogInv
  <2> QED
    BY <1>2, <2>2, StillSteps
<1>4. CASE RowLookup(i)
  <2>1. ImportStep
    BY <1>4, LookupStep DEF CatalogInv
  <2> QED
    BY <1>2, <2>1, StillSteps
<1>5. CASE Finish(i)
  <2>1. /\ imports' = [imports EXCEPT ![i] = NoImport]
        /\ staged' = [staged EXCEPT ![imports[i].token] = None]
    BY <1>5 DEF Finish
  <2>2. StagedOK(None)
    BY DEF StagedOK
  <2>3. ImportStep
    BY <2>1, <2>2, NoImportOK DEF ImportStep, ImportSound, CatalogInv
  <2> QED
    BY <1>2, <2>3, StillSteps
<1>6. CASE Crash(i)
  <2>1. ImportStep
    BY <1>6, NoImportOK, StayStep DEF Crash, CatalogInv
  <2> QED
    BY <1>2, <2>1, StillSteps
<1> QED
  BY <1>3, <1>4, <1>5, <1>6

\* The stock and the photo of a row.
LEMMA StockStep ==
  ASSUME CatalogInv, NEW i \in Importers, RowStock(i) PROVE ImportingStep
<1> DEFINE m == [imports[i] EXCEPT !.seen = None,
                   !.stage = IF imports[i].stage = "created" THEN "create-photo"
                                                             ELSE "update-photo"]
<1>1. Disturb(Own(i, m)) /\ ImportOK(imports[i])
  BY DEF RowStock, CatalogInv, ImportSound
<1>2. ImportOK(m)
  BY <1>1 DEF ImportOK, NoImport, Row
<1>3. UNCHANGED <<products, history, sales, ghosts, categories, work>>
  BY DEF RowStock
<1>4. ImportStep
  BY <1>1, <1>2, OwnStep DEF CatalogInv
<1> QED
  BY <1>3, <1>4, StillSteps

LEMMA PhotoStep ==
  ASSUME CatalogInv, NEW i \in Importers, RowPhoto(i) PROVE ImportingStep
<1> DEFINE done == Advance(imports[i], IF imports[i].stage = "create-photo" THEN "create"
                                                                           ELSE "update")
<1>1. (Disturb(Own(i, done)) \/ Stay(i, done)) /\ ImportOK(imports[i])
  BY DEF RowPhoto, CatalogInv, ImportSound
<1>2. ImportOK(done)
  BY <1>1, AdvanceOK
<1>3. UNCHANGED <<products, history, sales, ghosts, categories, work>>
  BY DEF RowPhoto
<1>4. ImportStep
  BY <1>1, <1>2, OwnStep, StayStep DEF CatalogInv
<1> QED
  BY <1>3, <1>4, StillSteps

\* An import's row as a new product ...
LEMMA RowCreateStep ==
  ASSUME CatalogInv, NEW i \in Importers, RowCreate(i) PROVE ImportingStep
<1> DEFINE m == imports[i]
<1>1. ImportOK(m) /\ m.stage = "create" /\ CommitDraft(m)
  BY DEF RowCreate, CatalogInv, ImportSound
<1>2. PICK b \in Brands, p \in Products :
        /\ Insert(p, RowOf(CreateForm(Row(m), b, m.category), FALSE))
        /\ Disturb(Own(i, [Committed(m, p) EXCEPT !.stage = "created"]))
  BY DEF RowCreate
<1>3. CreateForm(Row(m), b, m.category) \in FormRows
  BY <1>1, RowFits DEF CreateForm, FormRows
<1>4. UNCHANGED <<sales, work, ghosts>>
  BY DEF RowCreate
<1>5. Inserts
  BY <1>2, <1>3, <1>4 DEF Inserts
<1>6. ImportOK([Committed(m, p) EXCEPT !.stage = "created"])
  BY <1>1 DEF ImportOK, NoImport, Row, Committed
<1>7. ImportStep
  BY <1>2, <1>6, OwnStep DEF CatalogInv
<1>8. CategoriesOK'
  BY <1>1, DraftCommitted DEF CatalogInv
<1> QED
  BY <1>4, <1>5, <1>7, <1>8 DEF ImportingStep, ProductStep

\* ... and as an update of the product it has found.
LEMMA RowUpdateStep ==
  ASSUME CatalogInv, NEW i \in Importers, RowUpdate(i) PROVE ImportingStep
<1> DEFINE m == imports[i]
           p == m.target
           form == UpdateForm(Row(m), m.seen, m.category)
<1>1. ImportOK(m) /\ m.stage = "update" /\ CommitDraft(m)
  BY DEF RowUpdate, CatalogInv, ImportSound
<1>2. /\ Update(p, m.seen, form)
      /\ Disturb(Own(i, [Committed(m, p) EXCEPT !.stage = "updated"]))
      /\ UNCHANGED <<sales, work, repriced>>
  BY DEF RowUpdate
<1>3. p \in Products /\ Exists(p) /\ m.seen \in ProductRows
  BY <1>1 DEF ImportOK
<1>4. form \in FormRows
  BY <1>1, <1>3, RowFits DEF UpdateForm, FormRows, ProductRows
<1>5. Updates
  BY <1>2, <1>3, <1>4 DEF Updates
<1>6. ImportOK([Committed(m, p) EXCEPT !.stage = "updated"])
  BY <1>1 DEF ImportOK, NoImport, Row, Committed
<1>7. ImportStep
  BY <1>2, <1>6, OwnStep DEF CatalogInv
<1>8. CategoriesOK'
  BY <1>1, DraftCommitted DEF CatalogInv
<1> QED
  BY <1>2, <1>5, <1>7, <1>8 DEF ImportingStep, ProductStep

\* A step of the catalogue leaves the imports alone, or marks them.
LEMMA BesideImports ==
  ASSUME ImportSound, UNCHANGED importVars \/ Disturb(<<>>) PROVE ImportStep
<1>1. CASE UNCHANGED importVars
  BY <1>1 DEF importVars, ImportSound, ImportStep
<1>2. CASE Disturb(<<>>)
  BY <1>2, DisturbStep
<1> QED
  BY <1>1, <1>2

\* Every step of the composition.
LEMMA EveryStep ==
  ASSUME CatalogInv, ImportNext PROVE Step /\ ImportStep
<1>1. CASE CatalogStep
  BY <1>1, CatalogSteps, BesideImports DEF CatalogStep, CatalogInv
<1>2. CASE ImportForms
  BY <1>2, PreviewStep, ConfirmStep DEF ImportForms, ImportingStep, Step, WorkStep
<1>3. CASE \E i \in Importers : ContinueImport(i)
  BY <1>3, ReadingSteps, RowCreateStep, RowUpdateStep, StockStep, PhotoStep
     DEF ContinueImport, ImportingStep, Step, WorkStep
<1> QED
  BY <1>1, <1>2, <1>3 DEF ImportNext

-----------------------------------------------------------------------------
(* What a step makes of the row of a product.                              *)

Consistent(p) ==
  /\ products[p].margin = ComputeMargin(products[p].cost, products[p].sale)
  /\ p \notin repriced => history[p][Len(history[p])] = Price(products[p])

Free(p) == p \notin carts /\ p \notin invoiced /\ p \notin reserved

SameRow(p) == products'[p] = products[p] /\ history'[p] = history[p]

\* A column that has changed is in the last row of the history.
OnRecord(p) ==
  \/ p \in repriced'
  \/ \A c \in {"cost", "sale"} :
       \/ products[p] # None /\ products'[p][c] = products[p][c]
       \/ history'[p][Len(history'[p])][c] = products'[p][c]

\* Every property speaks of rows that no overlap has spoilt.
NewRow(p) ==
  /\ products'[p] \in ProductRows
  /\ history'[p] \in Seq(Prices) /\ history'[p] # <<>>
  /\ p \notin tainted' =>
       /\ products'[p].margin = ComputeMargin(products'[p].cost, products'[p].sale)
       /\ p \notin repriced' => history'[p][Len(history'[p])] = Price(products'[p])
       /\ products'[p].deleted => Free(p)
  /\ OnRecord(p)

SameTables ==
  /\ products' = [p \in Products |-> products'[p]]
  /\ history' = [p \in Products |-> history'[p]]

RowsStep ==
  /\ SameTables
  /\ \A p \in Products : SameRow(p) \/ NewRow(p)
  /\ tainted \subseteq tainted' /\ repriced \subseteq repriced'

LEMMA PriceType ==
  ASSUME NEW row, row.cost \in Nat \union {None}, row.sale \in Nat
  PROVE  Price(row) \in Prices
BY DEF Price, Prices

LEMMA Appended ==
  ASSUME NEW h \in Seq(Prices), NEW price \in Prices
  PROVE  /\ Append(h, price) \in Seq(Prices) /\ Append(h, price) # <<>>
         /\ Append(h, price)[Len(Append(h, price))] = price
<1> HIDE DEF Prices
<1> QED
  OBVIOUS

LEMMA Started ==
  ASSUME NEW price \in Prices
  PROVE  <<price>> \in Seq(Prices) /\ <<price>> # <<>> /\ <<price>>[Len(<<price>>)] = price
<1> HIDE DEF Prices
<1> QED
  OBVIOUS

LEMMA InsertRows ==
  ASSUME ProductsOK, NEW p \in Products, NEW f \in FormRows, Insert(p, RowOf(f, FALSE)),
         UNCHANGED ghosts
  PROVE  RowsStep
<1> DEFINE row == RowOf(f, FALSE)
<1>1. /\ row \in ProductRows /\ row.deleted = FALSE
      /\ row.margin = ComputeMargin(row.cost, row.sale)
  BY RowOfForm
<1> HIDE DEF row
<1>2. products' = [products EXCEPT ![p] = row] /\ history' = [history EXCEPT ![p] = <<Price(row)>>]
  BY DEF Insert, row
<1>3. row.cost \in Nat \union {None} /\ row.sale \in Nat
  BY <1>1 DEF ProductRows
<1>4. Price(row) \in Prices /\ Price(row).cost = row.cost /\ Price(row).sale = row.sale
  BY <1>3, PriceType DEF Price
<1>5. products'[p] = row /\ history'[p] = <<Price(row)>>
  BY <1>2 DEF ProductsOK
<1>6. history'[p] \in Seq(Prices) /\ history'[p] # <<>> /\ history'[p][Len(history'[p])] = Price(row)
  BY <1>4, <1>5, Started
<1>7. OnRecord(p)
  BY <1>4, <1>5, <1>6 DEF OnRecord
<1>8. NewRow(p)
  BY <1>1, <1>5, <1>6, <1>7 DEF NewRow
<1>9. \A q \in Products \ {p} : SameRow(q)
  BY <1>2 DEF SameRow, ProductsOK
<1>10. SameTables
  BY <1>2 DEF ProductsOK, SameTables
<1> QED
  BY <1>8, <1>9, <1>10 DEF RowsStep, ghosts

LEMMA UpdateRows ==
  ASSUME ProductsOK, PriceRowConsistent, DeletedIsFree,
         NEW p \in Products, NEW seen \in ProductRows, NEW f \in FormRows, Exists(p),
         Update(p, seen, f), UNCHANGED repriced
  PROVE  RowsStep
<1> DEFINE new == RowOf(f, seen.deleted)
           row == Written(products[p], seen, new)
           recorded == Append(history[p], Price(f))
<1>1. /\ new \in ProductRows /\ new.cost = f.cost /\ new.sale = f.sale
      /\ new.deleted = seen.deleted /\ new.margin = ComputeMargin(new.cost, new.sale)
  <2>1. seen.deleted \in BOOLEAN
    BY DEF ProductRows
  <2> QED
    BY <2>1, RowOfForm
<1> HIDE DEF new
<1>2. products[p] \in ProductRows /\ history[p] \in Seq(Prices) /\ history[p] # <<>>
  BY DEF ProductsOK, Exists
<1>3. row \in ProductRows
  BY <1>1, <1>2, WrittenType
<1>4. \A c \in {"cost", "sale"} : row[c] = IF new[c] # seen[c] THEN new[c] ELSE products[p][c]
  BY <1>1, <1>2, WrittenColumn
<1>5. products[p] = seen => row = new
  BY <1>1, WrittenFresh
<1> HIDE DEF row
<1>6. /\ products' = [products EXCEPT ![p] = row]
      /\ history' = IF PriceChanged(seen, f) THEN [history EXCEPT ![p] = recorded] ELSE history
      /\ tainted' = tainted \union (IF products[p] # seen THEN {p} ELSE {})
  BY DEF Update, Updated, Taint, row, new
<1>7. Price(f) \in Prices /\ Price(f).cost = f.cost /\ Price(f).sale = f.sale
  BY PriceType DEF FormRows, Price
<1>8. /\ recorded \in Seq(Prices) /\ recorded # <<>>
      /\ recorded[Len(recorded)] = Price(f)
  BY <1>2, <1>7, Appended
<1> HIDE DEF recorded
<1>9. products'[p] = row /\ history'[p] = IF PriceChanged(seen, f) THEN recorded ELSE history[p]
  BY <1>6 DEF ProductsOK
<1>10. history'[p] \in Seq(Prices) /\ history'[p] # <<>>
  BY <1>2, <1>8, <1>9
<1>11. OnRecord(p)
  <2>1. CASE PriceChanged(seen, f)
    <3>1. history'[p][Len(history'[p])] = Price(f)
      BY <1>8, <1>9, <2>1
    <3>2. \A c \in {"cost", "sale"} : Price(f)[c] = new[c]
      BY <1>1, <1>7
    <3> QED
      BY <1>4, <1>9, <3>1, <3>2 DEF OnRecord, Exists
  <2>2. CASE ~PriceChanged(seen, f)
    <3>1. \A c \in {"cost", "sale"} : new[c] = seen[c]
      BY <1>1, <2>2 DEF PriceChanged
    <3> QED
      BY <1>4, <1>9, <3>1 DEF OnRecord, Exists
  <2> QED
    BY <2>1, <2>2
<1>12. ASSUME p \notin tainted'
       PROVE  /\ row.margin = ComputeMargin(row.cost, row.sale)
              /\ p \notin repriced' => history'[p][Len(history'[p])] = Price(row)
              /\ row.deleted => Free(p)
  <2>1. products[p] = seen /\ row = new /\ p \notin tainted
    BY <1>5, <1>6, <1>12
  <2>2. p \notin repriced => history[p][Len(history[p])] = Price(products[p])
    BY <2>1 DEF PriceRowConsistent
  <2>3. p \notin repriced' => history'[p][Len(history'[p])] = Price(row)
    <3>1. CASE PriceChanged(seen, f)
      BY <1>1, <1>8, <1>9, <2>1, <3>1 DEF Price
    <3>2. CASE ~PriceChanged(seen, f)
      <4>1. Price(row) = Price(products[p])
        BY <1>1, <2>1, <3>2 DEF Price, PriceChanged
      <4> QED
        BY <1>9, <2>2, <3>2, <4>1
    <3> QED
      BY <3>1, <3>2
  <2>4. row.deleted => Free(p)
    BY <1>1, <2>1 DEF DeletedIsFree, Free
  <2> QED
    BY <1>1, <2>1, <2>3, <2>4
<1>13. NewRow(p)
  BY <1>3, <1>9, <1>10, <1>11, <1>12 DEF NewRow
<1>14. \A q \in Products \ {p} : SameRow(q)
  BY <1>6 DEF SameRow, ProductsOK
<1>15. SameTables
  BY <1>6 DEF ProductsOK, SameTables
<1> QED
  BY <1>6, <1>13, <1>14, <1>15 DEF RowsStep

LEMMA DeleteRows ==
  ASSUME ProductsOK, WorkSound, PriceRowConsistent, NEW r \in Requests, CommitDelete(r)
  PROVE  RowsStep
<1> DEFINE p == work[r].target
           row == [products[p] EXCEPT !.deleted = TRUE]
<1>1. /\ p \in Products /\ Exists(p)
      /\ work[r].seen = [cart |-> {}, invoice |-> {}, reservation |-> {}]
  BY DEF CommitDelete, WorkSound, WorkOK
<1>2. /\ products' = [products EXCEPT ![p] = row] /\ history' = history
      /\ tainted' = tainted \union (IF Held(p) # work[r].seen THEN {p} ELSE {})
      /\ repriced' = repriced
  BY DEF CommitDelete, Taint
<1>3. products[p] \in ProductRows /\ history[p] \in Seq(Prices) /\ history[p] # <<>>
  BY <1>1 DEF ProductsOK, Exists
<1>4. /\ row \in ProductRows /\ row.cost = products[p].cost /\ row.sale = products[p].sale
      /\ row.margin = products[p].margin
  BY <1>3 DEF ProductRows
<1> HIDE DEF row, p
<1>5. products'[p] = row /\ history'[p] = history[p]
  BY <1>1, <1>2 DEF ProductsOK
<1>6. OnRecord(p)
  BY <1>1, <1>4, <1>5 DEF OnRecord, Exists
<1>7. ASSUME p \notin tainted'
      PROVE  /\ row.margin = ComputeMargin(row.cost, row.sale)
             /\ p \notin repriced' => history'[p][Len(history'[p])] = Price(row)
             /\ Free(p)
  <2>1. p \notin tainted /\ Held(p) = [cart |-> {}, invoice |-> {}, reservation |-> {}]
    BY <1>1, <1>2, <1>7
  <2>2. Free(p)
    BY <2>1 DEF Held, Free
  <2>3. /\ products[p].margin = ComputeMargin(products[p].cost, products[p].sale)
        /\ p \notin repriced => history[p][Len(history[p])] = Price(products[p])
    BY <1>1, <2>1 DEF PriceRowConsistent
  <2>4. Price(row) = Price(products[p])
    BY <1>4 DEF Price
  <2> QED
    BY <1>2, <1>4, <1>5, <2>2, <2>3, <2>4
<1>8. NewRow(p)
  BY <1>3, <1>4, <1>5, <1>6, <1>7 DEF NewRow
<1>9. \A q \in Products \ {p} : SameRow(q)
  BY <1>2 DEF SameRow, ProductsOK
<1>10. SameTables
  BY <1>2 DEF ProductsOK, SameTables
<1> QED
  BY <1>2, <1>8, <1>9, <1>10 DEF RowsStep

LEMMA RepriceRows ==
  ASSUME ProductsOK, WorkSound, NEW r \in Requests, CommitReprice(r)
  PROVE  RowsStep
<1> DEFINE w == work[r]
<1>1. /\ w.op = "reprice" /\ \A p \in Changed(w) : w.form.prices[p] >= 0
      /\ products' = [p \in Products |-> IF p \in Changed(w) THEN Repriced(p, w) ELSE products[p]]
      /\ tainted' = tainted \union {p \in Changed(w) : products[p] # w.seen.rows[p]}
      /\ repriced' = repriced \union Changed(w) /\ history' = history
  BY DEF CommitReprice, Taint
<1>2. ASSUME NEW p \in Products, p \in Changed(w) PROVE NewRow(p)
  <2> DEFINE seen == w.seen.rows[p]
             price == w.form.prices[p]
             new == [seen EXCEPT !.sale = price, !.margin = ComputeMargin(seen.cost, price)]
             row == Written(products[p], seen, new)
  <2>1. /\ Exists(p) /\ seen \in ProductRows /\ ~seen.deleted
        /\ price \in Int /\ price >= 0
    BY <1>1, <1>2 DEF WorkSound, WorkOK, Changed
  <2>2. seen.cost \in Nat \union {None} /\ price \in Nat
    BY <2>1 DEF ProductRows
  <2>3. ComputeMargin(seen.cost, price) \in Int \union {None}
    BY <2>2, MarginType
  <2>4. /\ new \in ProductRows /\ ~new.deleted
        /\ new.margin = ComputeMargin(new.cost, new.sale)
    BY <2>1, <2>2, <2>3 DEF ProductRows
  <2>5. products[p] \in ProductRows /\ history[p] \in Seq(Prices) /\ history[p] # <<>>
    BY <2>1 DEF ProductsOK, Exists
  <2> HIDE DEF new
  <2>6. row \in ProductRows
    BY <2>1, <2>4, <2>5, WrittenType
  <2>7. products'[p] = row
    BY <1>1, <1>2 DEF Repriced, new
  <2>8. p \notin tainted' => row = new
    BY <1>1, <1>2, <2>1, <2>4, WrittenFresh
  <2>9. p \in repriced'
    BY <1>1, <1>2
  <2>10. OnRecord(p)
    BY <2>9 DEF OnRecord
  <2> HIDE DEF row
  <2> QED
    BY <1>1, <2>4, <2>5, <2>6, <2>7, <2>8, <2>9, <2>10 DEF NewRow
<1>3. ASSUME NEW p \in Products, p \notin Changed(w) PROVE SameRow(p)
  BY <1>1, <1>3 DEF SameRow
<1>4. SameTables
  BY <1>1 DEF ProductsOK, SameTables
<1> QED
  BY <1>1, <1>2, <1>3, <1>4 DEF RowsStep

\* Whatever the step.
LEMMA AllRows ==
  ASSUME ProductsOK, WorkSound, PriceRowConsistent, DeletedIsFree, ProductStep
  PROVE  RowsStep
<1>1. CASE Quiet
  BY <1>1 DEF Quiet, RowsStep, SameRow, SameTables, ProductsOK
<1>2. CASE Inserts
  BY <1>2, InsertRows DEF Inserts
<1>3. CASE Updates
  BY <1>3, UpdateRows DEF Updates
<1>4. CASE Deletes \/ Reprices
  BY <1>4, DeleteRows, RepriceRows DEF Deletes, Reprices
<1> QED
  BY <1>1, <1>2, <1>3, <1>4 DEF ProductStep

-----------------------------------------------------------------------------
(* The invariant.                                                          *)

Inv == CatalogInv /\ PriceRowConsistent /\ DeletedIsFree

LEMMA InitInv == ASSUME ImportInit PROVE Inv
<1>1. products = FirstProducts /\ products \in [Products -> ProductRows \union {None}]
  BY StartAssumption DEF ImportInit, Init
<1>2. ASSUME NEW p \in Products, Exists(p)
      PROVE  /\ history[p] = <<Price(products[p])>> /\ Price(products[p]) \in Prices
             /\ history[p][Len(history[p])] = Price(products[p]) /\ history[p] # <<>>
  <2>1. history[p] = <<Price(products[p])>>
    BY <1>2 DEF ImportInit, Init, Exists
  <2>2. Price(products[p]) \in Prices
    BY <1>1, <1>2 DEF Exists, Price, Prices, ProductRows
  <2> QED
    BY <2>1, <2>2, Started
<1>3. ProductsOK
  <2>1. ASSUME NEW p \in Products PROVE history[p] \in Seq(Prices)
    <3>1. CASE Exists(p)
      BY <1>2, <3>1, Started
    <3>2. CASE ~Exists(p)
      BY <3>2 DEF ImportInit, Init, Exists
    <3> QED
      BY <3>1, <3>2
  <2>2. history \in [Products -> Seq(Prices)]
    BY <2>1 DEF ImportInit, Init
  <2>3. \A p \in Products : Exists(p) => history[p] # <<>>
    BY <1>2
  <2> QED
    BY <1>1, <2>2, <2>3 DEF ProductsOK
<1>4. CategoriesOK
  <2>1. categories \in [Categories -> CategoryRows \union {None}]
    BY StartAssumption DEF ImportInit, Init
  <2> QED
    BY <2>1 DEF CategoriesOK, MarginOK, CategoryRows
<1>5. WorkSound
  BY IdleOK DEF ImportInit, Init, WorkSound
<1>6. ImportSound
  BY NoImportOK DEF ImportInit, ImportSound, StagedOK
<1>7. PriceRowConsistent
  BY <1>1, <1>2, StartAssumption DEF PriceRowConsistent, Exists
<1>8. DeletedIsFree
  BY <1>1, StartAssumption DEF DeletedIsFree, Exists, ImportInit, Init
<1> QED
  BY <1>3, <1>4, <1>5, <1>6, <1>7, <1>8 DEF Inv, CatalogInv

\* Products stay in the table, so what is in flight stays well formed.
LEMMA NothingVanishes ==
  ASSUME ProductsOK, RowsStep
  PROVE  ProductsOK' /\ \A p \in Products : products[p] # None => products'[p] # None
<1>1. ASSUME NEW p \in Products
      PROVE  /\ products'[p] \in ProductRows \union {None} /\ history'[p] \in Seq(Prices)
             /\ products'[p] # None => history'[p] # <<>>
             /\ products[p] # None => products'[p] # None
  BY NullFacts DEF RowsStep, SameRow, NewRow, ProductsOK, Exists
<1>2. products' \in [Products -> ProductRows \union {None}] /\ history' \in [Products -> Seq(Prices)]
  BY <1>1 DEF RowsStep, SameTables
<1> QED
  BY <1>1, <1>2 DEF ProductsOK, Exists

LEMMA WorkStays ==
  ASSUME WorkSound, WorkStep, \A p \in Products : products[p] # None => products'[p] # None
  PROVE  WorkSound'
<1>1. DOMAIN work' = Requests
  BY DEF WorkSound, WorkStep
<1>2. ASSUME NEW r \in Requests PROVE WorkOK(work[r])'
  <2>1. WorkOK(work'[r])
    BY Zenon DEF WorkSound, WorkStep
  <2> QED
    BY <2>1 DEF WorkOK, Exists
<1> QED
  BY <1>1, <1>2 DEF WorkSound

LEMMA ImportsStay ==
  ASSUME ImportStep, \A p \in Products : products[p] # None => products'[p] # None
  PROVE  ImportSound'
<1>1. ASSUME NEW i \in Importers PROVE ImportOK(imports[i])'
  <2>1. ImportOK(imports'[i])
    BY DEF ImportStep
  <2> QED
    BY <2>1 DEF ImportOK, Exists, Row
<1>2. ASSUME NEW t \in Tokens PROVE StagedOK(staged[t])'
  BY DEF ImportStep, StagedOK
<1> QED
  BY <1>1, <1>2 DEF ImportSound, ImportStep

\* What is put into a cart or an order while its product is deleted taints it.
LEMMA SalesKeepFree ==
  ASSUME Inv, Quiet, SalesStep PROVE DeletedIsFree'
<1>1. SUFFICES ASSUME NEW p \in Products, Exists(p), products[p].deleted, p \notin tainted'
               PROVE  p \notin carts' /\ p \notin invoiced' /\ p \notin reserved'
  BY DEF DeletedIsFree, Exists, Quiet
<1>2. Free(p)
  BY <1>1 DEF Inv, DeletedIsFree, Quiet, Free
<1>3. CASE SalesShrink
  BY <1>2, <1>3 DEF SalesShrink, Free
<1>4. ASSUME NEW r \in Requests, CommitCart(r) \/ CommitOrder(r)
      PROVE  p \notin carts' /\ p \notin invoiced' /\ p \notin reserved'
  <2>1. /\ carts' \subseteq carts \union {work[r].target}
        /\ invoiced' \subseteq invoiced \union {work[r].target}
        /\ reserved' \subseteq reserved \union {work[r].target}
        /\ work[r].op \in {"cart", "order"}
        /\ products[work[r].target] # work[r].seen => work[r].target \in tainted'
    BY <1>4 DEF CommitCart, CommitOrder, Taint
  <2>2. ~work[r].seen.deleted
    BY <2>1 DEF Inv, CatalogInv, WorkSound, WorkOK
  <2>3. work[r].target # p
    BY <1>1, <2>1, <2>2
  <2> QED
    BY <1>2, <2>1, <2>3 DEF Free
<1> QED
  BY <1>3, <1>4 DEF SalesStep

\* The steps that write products keep what is said of rows.
LEMMA RowsKept ==
  ASSUME Inv, RowsStep PROVE PriceRowConsistent'
<1>1. SUFFICES ASSUME NEW p \in Products, products'[p] # None, p \notin tainted'
               PROVE  /\ products'[p].margin = ComputeMargin(products'[p].cost, products'[p].sale)
                      /\ p \notin repriced' =>
                           history'[p][Len(history'[p])] = Price(products'[p])
  BY DEF PriceRowConsistent, Exists
<1>2. CASE SameRow(p)
  BY <1>1, <1>2 DEF SameRow, Inv, PriceRowConsistent, Exists, RowsStep
<1>3. CASE NewRow(p)
  BY <1>1, <1>3 DEF NewRow
<1> QED
  BY <1>2, <1>3 DEF RowsStep

LEMMA WritesKeepFree ==
  ASSUME Inv, RowsStep, UNCHANGED sales PROVE DeletedIsFree'
<1>1. SUFFICES ASSUME NEW p \in Products, products'[p] # None, products'[p].deleted,
                      p \notin tainted'
               PROVE  Free(p)
  BY DEF DeletedIsFree, Exists, Free, sales
<1>2. CASE SameRow(p)
  BY <1>1, <1>2 DEF SameRow, Inv, DeletedIsFree, Exists, RowsStep, Free
<1>3. CASE NewRow(p)
  BY <1>1, <1>3 DEF NewRow
<1> QED
  BY <1>2, <1>3 DEF RowsStep

LEMMA NextInv == ASSUME Inv, ImportNext PROVE Inv'
<1>1. Step /\ ImportStep
  BY EveryStep DEF Inv
<1>2. RowsStep
  BY <1>1, AllRows DEF Inv, CatalogInv, Step
<1>3. ProductsOK' /\ \A p \in Products : products[p] # None => products'[p] # None
  BY <1>2, NothingVanishes DEF Inv, CatalogInv
<1>4. WorkSound' /\ ImportSound' /\ CategoriesOK'
  BY <1>1, <1>3, WorkStays, ImportsStay DEF Inv, CatalogInv, Step
<1>5. DeletedIsFree'
  BY <1>1, <1>2, SalesKeepFree, WritesKeepFree DEF Step, ProductStep
<1>6. PriceRowConsistent'
  BY <1>2, RowsKept
<1> QED
  BY <1>3, <1>4, <1>5, <1>6 DEF Inv, CatalogInv

LEMMA StutterInv == ASSUME Inv, UNCHANGED allVars PROVE Inv'
<1>1. UNCHANGED <<products, history, categories, work, imports, staged, carts, invoiced,
                  reserved, tainted, repriced>>
  BY DEF allVars, catalogVars, tables, sales, ghosts, importVars
<1>2. ProductsOK' /\ CategoriesOK'
  BY <1>1 DEF Inv, CatalogInv, ProductsOK, CategoriesOK, MarginOK, Exists
<1>3. WorkSound' /\ ImportSound'
  <2>1. WorkStep /\ ImportStep
    BY <1>1 DEF WorkStep, ImportStep, Inv, CatalogInv, ImportSound
  <2> QED
    BY <1>1, <2>1, WorkStays, ImportsStay DEF Inv, CatalogInv
<1>4. PriceRowConsistent' /\ DeletedIsFree'
  BY <1>1 DEF Inv, PriceRowConsistent, DeletedIsFree, Exists
<1> QED
  BY <1>2, <1>3, <1>4 DEF Inv, CatalogInv

\* Rows, requests in flight and imports are well formed at every step, in the
\* catalogue and its imports for any number of both.
THEOREM CatalogInvariant == ImportSpec => []Inv
<1>1. ImportInit => Inv
  BY InitInv
<1>2. Inv /\ [ImportNext]_allVars => Inv'
  BY NextInv, StutterInv
<1> QED
  BY <1>1, <1>2, PTL DEF ImportSpec

\* The stored margin is that of the stored prices, and the last row of the price
\* history shows them, however updates, jobs and imports overlap, for every
\* product that nothing was written to on the strength of an old read.
THEOREM PricesAreConsistent == ImportSpec => []PriceRowConsistent
<1>1. Inv => PriceRowConsistent
  BY DEF Inv
<1> QED
  BY <1>1, CatalogInvariant, PTL

\* A deleted product is in no cart, no invoice and no reservation, unless it was
\* put there, or deleted, on the strength of an old read.
THEOREM DeletedProductsAreFree == ImportSpec => []DeletedIsFree
<1>1. Inv => DeletedIsFree
  BY DEF Inv
<1> QED
  BY <1>1, CatalogInvariant, PTL

\* A price that reaches the table is in the history in the same commit, also when
\* the edit was based on an old read; only repricing leaves no row.
THEOREM PricesAreOnRecord == ImportSpec => PricesOnRecord
<1> DEFINE A == \A p \in Products : products'[p] # None =>
                  \/ p \in repriced'
                  \/ \A c \in {"cost", "sale"} :
                       \/ products[p] # None /\ products'[p][c] = products[p][c]
                       \/ history'[p][Len(history'[p])][c] = products'[p][c]
<1>1. Inv /\ [ImportNext]_allVars => [A]_catalogVars
  <2>1. ASSUME Inv, ImportNext PROVE A
    <3>1. RowsStep
      BY <2>1, EveryStep, AllRows DEF Inv, CatalogInv, Step
    <3> QED
      BY <3>1 DEF RowsStep, SameRow, NewRow, OnRecord
  <2>2. ASSUME UNCHANGED allVars PROVE UNCHANGED catalogVars
    BY <2>2 DEF allVars
  <2> QED
    BY <2>1, <2>2
<1>2. ImportSpec => [][A]_catalogVars
  BY <1>1, CatalogInvariant, PTL DEF ImportSpec
<1> QED
  BY <1>2 DEF PricesOnRecord

=============================================================================
