------------------------------- MODULE Catalog -------------------------------
(***************************************************************************)
(* The catalogue of catalog/service.py and catalog/router.py: products,    *)
(* brands, categories, price history, photos and the repricing job, with   *)
(* the carts and orders that hold on to a product (cart/service.py,        *)
(* invoices/service.py).                                                   *)
(*                                                                         *)
(* A handler loads its rows without a lock, decides, and commits once. An  *)
(* action Enter... is the read and the checks, an action Commit... the     *)
(* UPDATE or INSERT and the commit; other requests may commit in between.  *)
(* A handler whose outcome cannot depend on what it read is one action.    *)
(* A request refused by a check changes nothing and is no action.          *)
(*                                                                         *)
(* SQLAlchemy writes only the columns whose value differs from the loaded  *)
(* one, so an overlapping edit of another column survives (Written).       *)
(***************************************************************************)
EXTENDS Integers, FiniteSets, Sequences

CONSTANTS
  Products, Brands, Categories,  \* the ids the tables can hand out
  Names,                         \* the texts that a form or a price list may hold
  BrandNames, CategoryNames,     \* names an administrator may type
  Requests,                      \* slots for requests in flight
  Forms,                         \* product forms an administrator may submit
  Margins,                       \* category margins, in percent
  Stocks,                        \* targets of a manual stock correction
  Keys,                          \* storage keys the object storage can hand out
  SlugBase,                      \* the slug that a name gives, by name
  None,                          \* NULL
  FirstProducts, FirstBrands, FirstCategories, FirstStock, FirstCarts,  \* the start
  MaxOps                         \* bound on the number of requests

ASSUME OpsAssumption == MaxOps \in Nat

ASSUME TableAssumption ==
  /\ IsFiniteSet(Products) /\ IsFiniteSet(Brands) /\ IsFiniteSet(Categories)
  /\ Stocks \subseteq Int

\* slugify turns any text into another.
ASSUME NameAssumption ==
  /\ BrandNames \union CategoryNames \subseteq Names
  /\ SlugBase \in [Names -> STRING]

Statuses == {"active", "inactive"}

\* A slug is a base and the number behind it, which 1 leaves out.
Slugs == STRING \X (Nat \ {0})

BrandRows == [name : Names, slug : Slugs]
CategoryRows == [name : Names, slug : Slugs, margin : Int \union {None}]

ProductRows ==
  [name : Names, brand : Brands \union {None}, category : Categories \union {None},
   year : Int \union {None}, cost : Nat \union {None}, sale : Nat,
   margin : Int \union {None}, status : Statuses, deleted : BOOLEAN]

\* A form is refused by the handler when a field does not parse.
ASSUME FormsAssumption ==
  /\ Forms \subseteq
       [name : Names, brand : Brands \union {None}, category : Categories \union {None},
        year : Int \union {None}, cost : Int \union {None}, sale : Int, status : STRING]
  /\ Margins \subseteq Int

ASSUME NullAssumption ==
  /\ None \notin Products \union Brands \union Categories \union Int
  /\ None \notin ProductRows \union BrandRows \union CategoryRows

VARIABLES
  products,    \* the products table
  history,     \* price_history of each product, oldest first
  images,      \* product_images of each product
  objects,     \* keys written to the object storage
  brands,      \* the brands table
  categories,  \* the categories table
  onHand,      \* inventory.quantity_on_hand
  carts,       \* products some cart_items row refers to
  invoiced,    \* products some invoice_items row refers to
  reserved,    \* products with an active reservation, of one unit
  work,        \* the request or job in each slot
  queued,      \* reprice_products jobs in the queue
  ops,         \* requests so far
  tainted,     \* history variable: products written on the strength of an old read
  repriced     \* history variable: products a job has repriced

tables == <<products, history, images, objects, brands, categories, onHand>>
sales == <<carts, invoiced, reserved>>
ghosts == <<tainted, repriced>>
catalogVars == <<tables, sales, work, queued, ops, ghosts>>

-----------------------------------------------------------------------------
(* Rows.                                                                   *)

Exists(p) == products[p] # None
Live(p) == Exists(p) /\ ~products[p].deleted

\* _require_orderable_product
Orderable(p) == Live(p) /\ products[p].status = "active"

\* reserved_quantity
ReservedOf(p) == IF p \in reserved THEN 1 ELSE 0

\* get_availability
Available(p) == onHand[p] - ReservedOf(p)

\* compute_margin, in whole percent of the sale price.
ComputeMargin(cost, sale) ==
  IF cost = None \/ sale <= 0 THEN None ELSE ((sale - cost) * 100) \div sale

\* The price that a markup on the cost gives.
Markup(cost, margin) == (cost * (100 + margin)) \div 100

\* The checks of create_product and update_product on their input.
ValidInput(f) ==
  /\ f.name # ""
  /\ f.cost # None => f.cost >= 0
  /\ f.sale >= 0
  /\ f.status \in Statuses

\* What the HTML form hands to the service: every field.
FormInput(f) == f

\* What the JSON handlers hand to the service: model_year is left out.
ApiInput(f) == [f EXCEPT !.year = None]

\* The columns a product has after input f.
RowOf(f, deleted) ==
  [name |-> f.name, brand |-> f.brand, category |-> f.category,
   year |-> f.year, cost |-> f.cost, sale |-> f.sale,
   margin |-> ComputeMargin(f.cost, f.sale), status |-> f.status,
   deleted |-> deleted]

\* The UPDATE of a loaded row carries the columns that were assigned a new value.
Written(current, seen, new) ==
  [c \in DOMAIN current |-> IF new[c] # seen[c] THEN new[c] ELSE current[c]]

\* The foreign keys of products.
KeysExist(row, bs, cs) ==
  /\ row.brand # None => bs[row.brand] # None
  /\ row.category # None => cs[row.category] # None

Price(row) == [cost |-> row.cost, sale |-> row.sale]

\* The catalogue starts as the program could have left it.
ASSUME StartAssumption ==
  /\ FirstProducts \in [Products -> ProductRows \union {None}]
  /\ \A p \in Products : FirstProducts[p] # None =>
       /\ FirstProducts[p].margin = ComputeMargin(FirstProducts[p].cost, FirstProducts[p].sale)
       /\ FirstProducts[p].deleted => p \notin FirstCarts
       /\ KeysExist(FirstProducts[p], FirstBrands, FirstCategories)
  /\ FirstBrands \in [Brands -> BrandRows \union {None}]
  /\ FirstCategories \in [Categories -> CategoryRows \union {None}]
  /\ FirstStock \in [Products -> Nat]
  /\ FirstCarts \subseteq Products

\* What of the carts, invoice lines and reservations refers to product p.
Held(p) ==
  [cart |-> carts \intersect {p}, invoice |-> invoiced \intersect {p},
   reservation |-> reserved \intersect {p}]

-----------------------------------------------------------------------------
(* Requests.                                                               *)

Idle == [op |-> "idle", target |-> None, form |-> None, seen |-> None, left |-> 0]

Count == ops < MaxOps /\ ops' = ops + 1

Begin(r, op, target, form, seen) ==
  /\ work[r] = Idle
  /\ Count
  /\ work' = [work EXCEPT ![r] =
       [op |-> op, target |-> target, form |-> form, seen |-> seen, left |-> 1]]

End(r) == work' = [work EXCEPT ![r] = Idle]

\* Writes on the strength of a read are marked when the read is out of date.
Taint(P) == tainted' = tainted \union P

\* The session of a request is closed without a commit: an error the service
\* does not catch, a constraint of the database, a crash.
Abort(r) ==
  /\ work[r] # Idle
  /\ End(r)
  /\ UNCHANGED <<tables, sales, queued, ops, ghosts>>

-----------------------------------------------------------------------------
(* Products.                                                               *)

Insert(p, row) ==
  /\ ~Exists(p)
  /\ products' = [products EXCEPT ![p] = row]
  /\ history' = [history EXCEPT ![p] = <<Price(row)>>]

\* create_product
CreateProduct(f) ==
  /\ Count
  /\ ValidInput(f)
  /\ KeysExist(RowOf(f, FALSE), brands, categories)
  /\ \E p \in Products : Insert(p, RowOf(f, FALSE))
  /\ UNCHANGED <<images, objects, brands, categories, onHand, sales, work, queued,
                 ghosts>>

\* update_product loads the row; it does not ask whether the product is deleted.
EnterUpdate(r, p, f) ==
  /\ Exists(p)
  /\ ValidInput(f)
  /\ Begin(r, "update", p, f, products[p])
  /\ UNCHANGED <<tables, sales, queued, ghosts>>

\* Faulty variant of PriceChanged: a new cost leaves no history.
SaleChanged(seen, f) == seen.sale # f.sale

PriceChanged(seen, f) == seen.cost # f.cost \/ seen.sale # f.sale

\* Faulty variant of Updated: the margin is not computed again.
UpdatedKeepsMargin(p, seen, f) ==
  Written(products[p], seen, [RowOf(f, seen.deleted) EXCEPT !.margin = seen.margin])

\* The row after the UPDATE that form f makes of the row loaded as seen.
Updated(p, seen, f) == Written(products[p], seen, RowOf(f, seen.deleted))

Update(p, seen, f) ==
  /\ products' = [products EXCEPT ![p] = Updated(p, seen, f)]
  /\ history' = IF PriceChanged(seen, f)
                THEN [history EXCEPT ![p] = Append(@, Price(f))]
                ELSE history
  /\ Taint(IF products[p] # seen THEN {p} ELSE {})

CommitUpdate(r) ==
  /\ work[r].op = "update"
  /\ KeysExist(Updated(work[r].target, work[r].seen, work[r].form), brands, categories)
  /\ Update(work[r].target, work[r].seen, work[r].form)
  /\ End(r)
  /\ UNCHANGED <<images, objects, brands, categories, onHand, sales, queued, ops,
                 repriced>>

\* soft_delete_product: the product and its invoice lines ...
EnterDelete(r, p) ==
  /\ Live(p)
  /\ p \notin invoiced
  /\ Begin(r, "delete", p, None, Held(p))
  /\ UNCHANGED <<tables, sales, queued, ghosts>>

\* What the checks have seen of the product.
Checked(r) == [Held(work[r].target) EXCEPT !.invoice = work[r].seen.invoice]

\* Faulty variant of CheckDelete: carts are not looked at.
CheckDeleteReserved(r) ==
  /\ work[r].op = "delete"
  /\ work[r].target \notin reserved
  /\ work' = [work EXCEPT ![r].op = "deleting",
                          ![r].seen = Checked(r)]
  /\ UNCHANGED <<tables, sales, queued, ops, ghosts>>

\* ... then its cart lines and active reservations ...
CheckDelete(r) ==
  /\ work[r].op = "delete"
  /\ work[r].target \notin carts
  /\ work[r].target \notin reserved
  /\ work' = [work EXCEPT ![r].op = "deleting",
                          ![r].seen = Checked(r)]
  /\ UNCHANGED <<tables, sales, queued, ops, ghosts>>

\* ... and the UPDATE of deleted_at.
CommitDelete(r) ==
  LET p == work[r].target
  IN /\ work[r].op = "deleting"
     /\ products' = [products EXCEPT ![p].deleted = TRUE]
     /\ Taint(IF Held(p) # work[r].seen THEN {p} ELSE {})
     /\ End(r)
     /\ UNCHANGED <<history, images, objects, brands, categories, onHand, sales, queued,
                    ops, repriced>>

\* correct_inventory as one step: InvoiceStock has its interleavings.
SetStock(p, q) ==
  /\ q >= ReservedOf(p)
  /\ onHand' = [onHand EXCEPT ![p] = q]

CorrectStock(p, q) ==
  /\ Count
  /\ Exists(p)
  /\ SetStock(p, q)
  /\ UNCHANGED <<products, history, images, objects, brands, categories, sales, work,
                 queued, ghosts>>

-----------------------------------------------------------------------------
(* Photos.                                                                 *)

\* add_product_images: n uploads, saved one at a time.
EnterImages(r, p, n) ==
  /\ Exists(p)
  /\ work[r] = Idle
  /\ Count
  /\ work' = [work EXCEPT ![r] =
                [op |-> "upload", target |-> p, form |-> None, seen |-> None, left |-> n]]
  /\ UNCHANGED <<tables, sales, queued, ghosts>>

\* Faulty variant of PutObject: the row is written without the object.
SkipObject(r) ==
  /\ work[r].op = "upload"
  /\ \E k \in Keys \ objects : work' = [work EXCEPT ![r].op = "uploaded", ![r].form = k]
  /\ UNCHANGED <<tables, sales, queued, ops, ghosts>>

\* put_object_async comes before the row; a failure ends the request (Abort).
PutObject(r) ==
  /\ work[r].op = "upload"
  /\ \E k \in Keys \ objects :
       /\ objects' = objects \union {k}
       /\ work' = [work EXCEPT ![r].op = "uploaded", ![r].form = k]
  /\ UNCHANGED <<products, history, images, brands, categories, onHand, sales, queued,
                 ops, ghosts>>

\* max(sort_order) + 1, from 0
NextOrder(p) ==
  CHOOSE n \in 0..Cardinality(images[p]) :
    /\ \A i \in images[p] : i.order < n
    /\ n = 0 \/ \E i \in images[p] : i.order = n - 1

ImageRow(p, k) == [key |-> k, order |-> NextOrder(p)]

\* The product_images row of one upload is committed before the next begins.
CommitImage(r) ==
  LET p == work[r].target
  IN /\ work[r].op = "uploaded"
     /\ images' = [images EXCEPT ![p] = @ \union {ImageRow(p, work[r].form)}]
     /\ IF work[r].left = 1
        THEN End(r)
        ELSE work' = [work EXCEPT ![r].op = "upload", ![r].form = None,
                                  ![r].left = @ - 1]
     /\ UNCHANGED <<products, history, objects, brands, categories, onHand, sales,
                    queued, ops, ghosts>>

-----------------------------------------------------------------------------
(* Brands and categories.                                                  *)

\* count_products_in_brand and count_products_in_category: live products.
ProductsOfBrand(b) == {p \in Products : Live(p) /\ products[p].brand = b}
ProductsOfCategory(c) == {p \in Products : Live(p) /\ products[p].category = c}

Rows(table) == {table[i] : i \in DOMAIN table} \ {None}

\* _unique_slug: base, base-2, base-3, ...
FreeSlug(table, name) ==
  CHOOSE s \in {SlugBase[name]} \X (1..(Cardinality(Rows(table)) + 1)) :
    /\ \A row \in Rows(table) : row.slug # s
    /\ \A n \in 1..(s[2] - 1) : \E row \in Rows(table) : row.slug = <<s[1], n>>

\* The slug that the imported price list looks a category up by.
ImportSlug(name) == <<SlugBase[name], 1>>

BrandRow(n) == [name |-> n, slug |-> FreeSlug(brands, n)]
CategoryRow(n) == [name |-> n, slug |-> FreeSlug(categories, n), margin |-> None]

BrandNamed(n) == {b \in Brands : brands[b] # None /\ brands[b].name = n}

\* create_brand: no brand has the name ...
EnterCreateBrand(r, n) ==
  /\ BrandNamed(n) = {}
  /\ Begin(r, "brand", None, [name |-> n], None)
  /\ UNCHANGED <<tables, sales, queued, ghosts>>

\* ... and the INSERT under a slug nobody has.
CommitCreateBrand(r) ==
  /\ work[r].op = "brand"
  /\ \E b \in Brands :
       brands[b] = None /\ brands' = [brands EXCEPT ![b] = BrandRow(work[r].form.name)]
  /\ End(r)
  /\ UNCHANGED <<products, history, images, objects, categories, onHand, sales, queued,
                 ops, ghosts>>

\* update_brand: no other brand has the name; the slug stays.
EnterRenameBrand(r, b, n) ==
  /\ brands[b] # None
  /\ BrandNamed(n) \subseteq {b}
  /\ Begin(r, "rename", b, [name |-> n], None)
  /\ UNCHANGED <<tables, sales, queued, ghosts>>

CommitRenameBrand(r) ==
  LET b == work[r].target
  IN /\ work[r].op = "rename"
     /\ brands[b] # None
     /\ brands' = [brands EXCEPT ![b].name = work[r].form.name]
     /\ End(r)
     /\ UNCHANGED <<products, history, images, objects, categories, onHand, sales,
                    queued, ops, ghosts>>

\* delete_brand: no live product is of the brand ...
EnterDropBrand(r, b) ==
  /\ brands[b] # None
  /\ ProductsOfBrand(b) = {}
  /\ Begin(r, "dropBrand", b, None, None)
  /\ UNCHANGED <<tables, sales, queued, ghosts>>

\* ... and the DELETE, which the foreign key refuses while any row refers to it.
CommitDropBrand(r) ==
  LET b == work[r].target
  IN /\ work[r].op = "dropBrand"
     /\ \A p \in Products : Exists(p) => products[p].brand # b
     /\ brands' = [brands EXCEPT ![b] = None]
     /\ End(r)
     /\ UNCHANGED <<products, history, images, objects, categories, onHand, sales,
                    queued, ops, ghosts>>

\* create_category; the name need not be new.
CreateCategory(n) ==
  /\ Count
  /\ \E c \in Categories :
       /\ categories[c] = None
       /\ categories' = [categories EXCEPT ![c] = CategoryRow(n)]
  /\ UNCHANGED <<products, history, images, objects, brands, onHand, sales, work, queued,
                 ghosts>>

\* update_category: the slug stays.
RenameCategory(c, n) ==
  /\ Count
  /\ categories[c] # None
  /\ categories' = [categories EXCEPT ![c].name = n]
  /\ UNCHANGED <<products, history, images, objects, brands, onHand, sales, work, queued,
                 ghosts>>

\* update_category_margin: any number, or none.
SetMargin(c, m) ==
  /\ Count
  /\ categories[c] # None
  /\ categories' = [categories EXCEPT ![c].margin = m]
  /\ UNCHANGED <<products, history, images, objects, brands, onHand, sales, work, queued,
                 ghosts>>

\* delete_category: the count, then the DELETE under the foreign key.
EnterDropCategory(r, c) ==
  /\ categories[c] # None
  /\ ProductsOfCategory(c) = {}
  /\ Begin(r, "dropCategory", c, None, None)
  /\ UNCHANGED <<tables, sales, queued, ghosts>>

CommitDropCategory(r) ==
  LET c == work[r].target
  IN /\ work[r].op = "dropCategory"
     /\ \A p \in Products : Exists(p) => products[p].category # c
     /\ categories' = [categories EXCEPT ![c] = None]
     /\ End(r)
     /\ UNCHANGED <<products, history, images, objects, brands, onHand, sales, queued,
                    ops, ghosts>>

-----------------------------------------------------------------------------
(* Repricing.                                                              *)

\* enqueue_product_repricing
EnqueueReprice ==
  /\ Count
  /\ queued' = queued + 1
  /\ UNCHANGED <<tables, sales, work, ghosts>>

\* Faulty variant of ToReprice: deleted products are repriced too.
ToRepriceDeleted ==
  {p \in Products :
     /\ Exists(p)
     /\ products[p].cost # None
     /\ products[p].category # None /\ categories[products[p].category] # None
     /\ categories[products[p].category].margin # None}

\* The products a job reads: live, with a cost, joined with a category with a margin.
ToReprice ==
  {p \in Products :
     /\ Live(p)
     /\ products[p].cost # None
     /\ products[p].category # None /\ categories[products[p].category] # None
     /\ categories[products[p].category].margin # None}

CategoryPrice(p) == Markup(products[p].cost, categories[products[p].category].margin)

\* A worker takes a job and reads the products and their categories.
StartReprice(r) ==
  /\ queued > 0
  /\ queued' = queued - 1
  /\ work[r] = Idle
  /\ work' = [work EXCEPT ![r] =
       [op |-> "reprice", target |-> None, left |-> 1,
        seen |-> [rows |-> [p \in ToReprice |-> products[p]]],
        form |-> [prices |-> [p \in ToReprice |-> CategoryPrice(p)]]]]
  /\ UNCHANGED <<tables, sales, ops, ghosts>>

\* The products whose price job w has found to differ.
Changed(w) == {p \in DOMAIN w.seen.rows : w.seen.rows[p].sale # w.form.prices[p]}

Repriced(p, w) ==
  LET row == w.seen.rows[p]
      price == w.form.prices[p]
  IN Written(products[p], row,
             [row EXCEPT !.sale = price, !.margin = ComputeMargin(row.cost, price)])

\* One commit for all of them; a negative price breaks ck_products_sale_price
\* and with it the whole job (Abort).
CommitReprice(r) ==
  LET w == work[r]
  IN /\ w.op = "reprice"
     /\ \A p \in Changed(w) : w.form.prices[p] >= 0
     /\ products' = [p \in Products |->
                       IF p \in Changed(w) THEN Repriced(p, w) ELSE products[p]]
     /\ Taint({p \in Changed(w) : products[p] # w.seen.rows[p]})
     /\ repriced' = repriced \union Changed(w)
     /\ End(r)
     /\ UNCHANGED <<history, images, objects, brands, categories, onHand, sales, queued,
                    ops>>

\* The worker stops in the middle of a job and runs it again when it is back.
RestartReprice(r) ==
  /\ work[r].op = "reprice"
  /\ queued' = queued + 1
  /\ End(r)
  /\ UNCHANGED <<tables, sales, ops, ghosts>>

-----------------------------------------------------------------------------
(* Carts and orders, as far as they hold on to a product.                  *)

\* add_cart_item_delta and upsert_cart_item: the checks, then the INSERT.
EnterCart(r, p) ==
  /\ Orderable(p)
  /\ Available(p) >= 1
  /\ Begin(r, "cart", p, None, products[p])
  /\ UNCHANGED <<tables, sales, queued, ghosts>>

CommitCart(r) ==
  LET p == work[r].target
  IN /\ work[r].op = "cart"
     /\ carts' = carts \union {p}
     /\ Taint(IF products[p] # work[r].seen THEN {p} ELSE {})
     /\ End(r)
     /\ UNCHANGED <<tables, invoiced, reserved, queued, ops, repriced>>

\* remove_cart_item
RemoveFromCart(p) ==
  /\ Count
  /\ p \in carts
  /\ carts' = carts \ {p}
  /\ UNCHANGED <<tables, invoiced, reserved, work, queued, ghosts>>

\* create_invoice_from_cart: the product is read with the cart, before the locks.
EnterOrder(r, p) ==
  /\ p \in carts
  /\ Orderable(p)
  /\ Begin(r, "order", p, None, products[p])
  /\ UNCHANGED <<tables, sales, queued, ghosts>>

\* Under the stock locks: the quantity is checked, the lines are written, the
\* cart is cleared. At most one open order per product here.
CommitOrder(r) ==
  LET p == work[r].target
  IN /\ work[r].op = "order"
     /\ p \notin reserved
     /\ Available(p) >= 1
     /\ invoiced' = invoiced \union {p}
     /\ reserved' = reserved \union {p}
     /\ carts' = carts \ {p}
     /\ Taint(IF products[p] # work[r].seen THEN {p} ELSE {})
     /\ End(r)
     /\ UNCHANGED <<tables, queued, ops, repriced>>

\* The order is cancelled or expires: its reservation is released, its lines stay.
Release(p) ==
  /\ p \in reserved
  /\ reserved' = reserved \ {p}
  /\ UNCHANGED <<tables, carts, invoiced, work, queued, ops, ghosts>>

-----------------------------------------------------------------------------
(* Who may ask for what: the handlers of the routers.                      *)

CreateSubmit == \E f \in Forms : CreateProduct(FormInput(f))
UpdateSubmit(r) == \E f \in Forms, p \in Products : EnterUpdate(r, p, FormInput(f))

\* The HTML pages show no deleted product, and its forms are refused; the form of
\* the product itself is not.
ProductForms(r) ==
  \/ CreateSubmit \/ UpdateSubmit(r)
  \/ \E p \in Products :
       /\ Live(p)
       /\ \/ EnterDelete(r, p)
          \/ \E q \in Stocks : CorrectStock(p, q)
          \/ \E n \in 1..2 : EnterImages(r, p, n)

\* The JSON handlers leave the question to the services.
ProductApi(r) ==
  \/ \E f \in Forms : CreateProduct(ApiInput(f))
  \/ \E f \in Forms, p \in Products : EnterUpdate(r, p, ApiInput(f))
  \/ \E p \in Products : EnterDelete(r, p) \/ EnterImages(r, p, 1)
  \/ \E p \in Products, q \in Stocks : CorrectStock(p, q)

BrandForms(r) ==
  \/ \E n \in BrandNames : EnterCreateBrand(r, n)
  \/ \E b \in Brands, n \in BrandNames : EnterRenameBrand(r, b, n)
  \/ \E b \in Brands : EnterDropBrand(r, b)

CategoryForms(r) ==
  \/ \E n \in CategoryNames : CreateCategory(n)
  \/ \E c \in Categories, n \in CategoryNames : RenameCategory(c, n)
  \/ \E c \in Categories : EnterDropCategory(r, c)

SettingsForms ==
  \/ \E c \in Categories, m \in Margins \union {None} : SetMargin(c, m)
  \/ EnqueueReprice

Customers(r) ==
  \/ \E p \in Products : EnterCart(r, p) \/ EnterOrder(r, p)
  \/ \E p \in Products : RemoveFromCart(p) \/ Release(p)

\* What a request in flight, or a job, does next.
Continue(r) ==
  \/ CommitUpdate(r)
  \/ CheckDelete(r) \/ CommitDelete(r)
  \/ PutObject(r) \/ CommitImage(r)
  \/ CommitCreateBrand(r) \/ CommitRenameBrand(r) \/ CommitDropBrand(r)
  \/ CommitDropCategory(r)
  \/ StartReprice(r) \/ CommitReprice(r) \/ RestartReprice(r)
  \/ CommitCart(r) \/ CommitOrder(r)
  \/ Abort(r)

Init ==
  /\ products = FirstProducts
  /\ history = [p \in Products |->
                  IF FirstProducts[p] = None THEN <<>> ELSE <<Price(FirstProducts[p])>>]
  /\ images = [p \in Products |-> {}]
  /\ objects = {}
  /\ brands = FirstBrands
  /\ categories = FirstCategories
  /\ onHand = FirstStock
  /\ carts = FirstCarts /\ invoiced = {} /\ reserved = {}
  /\ work = [r \in Requests |-> Idle]
  /\ queued = 0
  /\ ops = 0
  /\ tainted = {} /\ repriced = {}

CatalogNext ==
  \/ \E r \in Requests :
       \/ ProductForms(r) \/ ProductApi(r)
       \/ BrandForms(r) \/ CategoryForms(r)
       \/ Customers(r)
       \/ Continue(r)
  \/ SettingsForms

Spec == Init /\ [][CatalogNext]_catalogVars

-----------------------------------------------------------------------------
(* Properties.                                                             *)

\* Types, and what the foreign keys of products and product_images keep: the
\* brand and the category of a product exist, deleted or not, and every photo
\* belongs to a stored object (delete_brand, delete_category, add_product_image).
CatalogTypeOK ==
  /\ products \in [Products -> ProductRows \union {None}]
  /\ \A p \in Products : Exists(p) => KeysExist(products[p], brands, categories)
  /\ \A p \in Products : \A i \in images[p] : i.key \in objects
  /\ onHand \in [Products -> Nat]
  /\ carts \subseteq Products
  /\ reserved \subseteq invoiced
  /\ queued \in Nat

\* Unless an edit was based on a row that had changed meanwhile, the stored
\* margin is that of the stored prices and, unless a job repriced the product,
\* the last row of price_history shows them (update_product,
\* reprice_products_from_categories).
PriceRowConsistent ==
  \A p \in Products : Exists(p) /\ p \notin tainted =>
    /\ products[p].margin = ComputeMargin(products[p].cost, products[p].sale)
    /\ p \notin repriced => history[p][Len(history[p])] = Price(products[p])

\* Whatever overlaps, a cost or sale price that reaches the table is in the
\* product's price_history in the same commit; only a repricing job changes a
\* price without a row (_record_price_history).
PricesOnRecord ==
  [][\A p \in Products : products'[p] # None =>
       \/ p \in repriced'
       \/ \A c \in {"cost", "sale"} :
            \/ products[p] # None /\ products'[p][c] = products[p][c]
            \/ history'[p][Len(history'[p])][c] = products'[p][c]]_catalogVars

\* A deleted product is in no cart and has no invoice line or reservation, unless
\* it was put there between the checks of soft_delete_product and its commit, or
\* deleted between the checks of the cart or the order and theirs.
DeletedIsFree ==
  \A p \in Products : Exists(p) /\ products[p].deleted /\ p \notin tainted =>
    p \notin carts /\ p \notin invoiced /\ p \notin reserved

\* The products of job w that nobody has changed since it read them, nor their
\* category's margin.
Undisturbed(w) ==
  {p \in DOMAIN w.seen.rows :
     /\ products[p] = w.seen.rows[p]
     /\ p \in ToReprice
     /\ w.form.prices[p] = CategoryPrice(p)}

\* When a job commits, however often it was started, every undisturbed product
\* stands at the markup of its category, with the margin to match unless an edit
\* based on an old read had spoilt it, and no product changes that was deleted when
\* the job read it (reprice_products_from_categories).
RepriceApplies ==
  [][\A r \in Requests : work[r].op = "reprice" /\ products' # products
                         /\ work'[r] = Idle =>
       /\ \A p \in Undisturbed(work[r]) :
            /\ products'[p].sale = CategoryPrice(p)
            /\ p \notin tainted =>
                 products'[p].margin = ComputeMargin(products[p].cost, CategoryPrice(p))
       /\ \A p \in Products : products'[p] # products[p] =>
            ~work[r].seen.rows[p].deleted]_catalogVars
=============================================================================
