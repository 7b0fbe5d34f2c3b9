---------------------------- MODULE CatalogViews ----------------------------
(***************************************************************************)
(* What the pages of the catalogue show of a state of Catalog: the         *)
(* storefront with its filters, order and pages, its counters, and the     *)
(* administrator's list. Full text search and the order by date are left   *)
(* out. A row's place in an order is the number of rows before it.         *)
(***************************************************************************)
EXTENDS Catalog

CONSTANTS
  PageSize,    \* STOREFRONT_PAGE_SIZE
  NameRank,    \* the order of the names
  Years        \* years a filter may name

ASSUME ViewAssumption ==
  /\ Products \subseteq Int
  /\ PageSize \in Nat \ {0}
  /\ NameRank \in [Names -> Int]
  /\ Years \subseteq Int

Sorts == {"name", "price_asc", "price_desc", "stock_asc", "stock_desc"}

NoFilter == [category |-> None, brand |-> None, year |-> None]

\* The filters a page is asked for, one column at a time.
Filters ==
  {NoFilter} \union {[NoFilter EXCEPT !.category = c] : c \in Categories}
             \union {[NoFilter EXCEPT !.brand = b] : b \in Brands}
             \union {[NoFilter EXCEPT !.year = y] : y \in Years}

Passes(p, f) ==
  /\ f.category = None \/ products[p].category = f.category
  /\ f.brand = None \/ products[p].brand = f.brand
  /\ f.year = None \/ products[p].year = f.year

\* _apply_storefront_filters
Storefront(f) == {p \in Products : Live(p) /\ products[p].status = "active" /\ Passes(p, f)}

\* _apply_admin_product_filters, where status may be None
AdminList(f, status) ==
  {p \in Products : /\ Live(p)
                    /\ status = None \/ products[p].status = status
                    /\ Passes(p, f)}

\* The columns of ORDER BY; the last one is the id.
SortKey(sort, p) ==
  LET first == CASE sort = "price_asc" -> products[p].sale
                 [] sort = "price_desc" -> -products[p].sale
                 [] sort = "stock_asc" -> Available(p)
                 [] sort = "stock_desc" -> -Available(p)
                 [] OTHER -> 0
  IN <<first, NameRank[products[p].name], p>>

\* Faulty variant of Before: rows that agree but for the id are not ordered.
BeforeByName(a, b) == a[1] < b[1] \/ (a[1] = b[1] /\ a[2] < b[2])

Before(a, b) ==
  \/ a[1] < b[1]
  \/ a[1] = b[1] /\ a[2] < b[2]
  \/ a[1] = b[1] /\ a[2] = b[2] /\ a[3] < b[3]

Place(sort, f, p) ==
  Cardinality({q \in Storefront(f) : Before(SortKey(sort, q), SortKey(sort, p))})

\* count_products_storefront
Total(f) == Cardinality(Storefront(f))

TotalPages(total) ==
  IF total = 0 THEN 1 ELSE (total + PageSize - 1) \div PageSize

\* The rows of catalog_list for page n: a page past the end is the last one.
PageRows(sort, f, n) ==
  LET page == IF n <= TotalPages(Total(f)) THEN n ELSE TotalPages(Total(f))
      offset == (page - 1) * PageSize
  IN {p \in Storefront(f) : Place(sort, f, p) \in offset..(offset + PageSize - 1)}

\* list_storefront_category_stats, list_storefront_brand_stats and
\* list_storefront_model_year_stats: groups that are not empty.
CategoryStats ==
  LET count(c) == Cardinality({p \in Storefront(NoFilter) : products[p].category = c})
  IN [c \in {d \in Categories : categories[d] # None /\ count(d) > 0} |-> count(c)]

BrandStats ==
  LET count(b) == Cardinality({p \in Storefront(NoFilter) : products[p].brand = b})
  IN [b \in {d \in Brands : brands[d] # None /\ count(d) > 0} |-> count(b)]

YearStats ==
  LET shown == Storefront(NoFilter)
  IN [y \in {products[p].year : p \in shown} \ {None} |->
        Cardinality({p \in shown : products[p].year = y})]

\* list_category_rows and list_brand_rows: the number that decides whether the
\* administrator is offered the deletion.
CategoryRowCount(c) == Cardinality(ProductsOfCategory(c))
BrandRowCount(b) == Cardinality(ProductsOfBrand(b))

-----------------------------------------------------------------------------

Counter(stats, key) == IF key \in DOMAIN stats THEN stats[key] ELSE 0

\* Every filter, and every order.
Asked == (Filters \X {"name"}) \union ({NoFilter} \X Sorts)

\* Whatever the filter and the order, the pages of the storefront show every
\* product that passes the filter exactly once, all but the last are full and
\* a page past the end is the last one; the counters beside them say what
\* the filter of that name would list; and a category or brand that the
\* administrator is shown as empty has nothing on the storefront. It is looked at
\* with no request in flight: Abort leads there from every state of the tables.
ViewsAgree ==
  (\A r \in Requests : work[r] = Idle) =>
  /\ \A ask \in Asked :
       LET f == ask[1]
           last == TotalPages(Total(f))
           page == [n \in 1..last + 1 |-> PageRows(ask[2], f, n)]
       IN /\ Storefront(f) = UNION {page[n] : n \in 1..last}
          /\ \A n \in 1..last - 1 : Cardinality(page[n]) = PageSize
          /\ Cardinality(page[last]) <= PageSize
          /\ page[last] = {} => Storefront(f) = {}
          /\ page[last + 1] = page[last]
  /\ \A c \in Categories :
       /\ Counter(CategoryStats, c) = Total([NoFilter EXCEPT !.category = c])
       /\ CategoryRowCount(c) = Cardinality(AdminList([NoFilter EXCEPT !.category = c], None))
       /\ CategoryRowCount(c) = 0 => c \notin DOMAIN CategoryStats
  /\ \A b \in Brands :
       /\ Counter(BrandStats, b) = Total([NoFilter EXCEPT !.brand = b])
       /\ BrandRowCount(b) = Cardinality(AdminList([NoFilter EXCEPT !.brand = b], None))
       /\ BrandRowCount(b) = 0 => b \notin DOMAIN BrandStats
  /\ \A y \in Years : Counter(YearStats, y) = Total([NoFilter EXCEPT !.year = y])
=============================================================================
