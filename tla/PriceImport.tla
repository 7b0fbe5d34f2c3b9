---------------------------- MODULE PriceImport ----------------------------
(***************************************************************************)
(* The price list import of catalog/price_import.py and                    *)
(* catalog/import_service.py, composed with the catalogue.                 *)
(*                                                                         *)
(* A file is parsed, previewed without a write and kept under a token; its *)
(* confirmation applies it row by row: each row is looked up, committed by *)
(* create_product or update_product, then corrects the stock and adds the  *)
(* photo in commits of their own. Other requests, other confirmations of   *)
(* the same token and crashes come in between.                             *)
(***************************************************************************)
EXTENDS Catalog

CONSTANTS
  Files,       \* workbooks: the price sheet and the data sheet
  Importers,   \* slots for confirmations in flight
  Tokens,      \* confirmation tokens
  YearOf,      \* the year in a name, or None
  NameBrand,   \* the brand that the name of a ball or an accessory shows, or None
  MatchText,   \* normalize_match_text: lower case, inner blanks collapsed
  SqlText      \* lower(trim(name)): inner blanks kept

\* The photo of a line: add_product_image refuses one over 5 MB and one that cannot be
\* processed.
Photos == {"none", "good", "refused"}

\* What openpyxl hands to the parser: the price is a number.
ASSUME FilesAssumption ==
  \A file \in Files :
    /\ file.data \in Seq([name : Names, label : STRING, price : Int])
    /\ file.sheet \in Seq([kind : {"header", "line"}, text : Names, stock : STRING,
                           image : Photos])

\* A name has a year and a brand in it, or has not.
ASSUME ReadingAssumption ==
  /\ YearOf \in [Names -> Int \union {None}]
  /\ NameBrand \in [Names -> Names \union {None}]

\* Blanks that are collapsed already stay as they are.
ASSUME TextAssumption ==
  \A n, m \in Names : SqlText[n] = MatchText[m] => MatchText[n] = MatchText[m]

VARIABLES
  staged,      \* uploaded files by token
  imports,     \* the import in each slot
  last         \* history variable: the rows of the last import, if nothing followed it

importVars == <<staged, imports, last>>
allVars == <<catalogVars, importVars>>

-----------------------------------------------------------------------------
(* Parsing.                                                                *)

StockOf == [Many |-> 50, Enough |-> 10, Few |-> 3, Sold_Out |-> 0]

Aliases == [Rakcets |-> "Rackets"]
ValidCategories == {"Balls", "Accessories", "Rackets"}

\* The categories of a price list have slugs of their own.
ASSUME VocabularyAssumption ==
  /\ ValidCategories \union {"Accessory", "Unknown"} \subseteq Names
  /\ \A c, d \in ValidCategories : SlugBase[c] = SlugBase[d] => c = d

\* normalize_category_name
HeaderCategory(text) == IF text \in DOMAIN Aliases THEN Aliases[text] ELSE text

Put(f, key, value) == [k \in DOMAIN f \union {key} |-> IF k = key THEN value ELSE f[k]]

\* One line of the price sheet. A header that is no category changes nothing; under
\* rackets, a line without stock and year names the brand of those that follow.
ScanLine(state, line) ==
  CASE line.kind = "header" ->
         IF HeaderCategory(line.text) \in ValidCategories
         THEN [state EXCEPT !.category = HeaderCategory(line.text), !.brand = None]
         ELSE state
    [] line.kind = "line" /\ line.stock = "" ->
         IF state.category = "Rackets" /\ YearOf[line.text] = None
         THEN [state EXCEPT !.brand = line.text]
         ELSE state
    [] OTHER ->
         [state EXCEPT !.meta = Put(@, line.text, [category |-> state.category,
                                                   brand |-> state.brand,
                                                   image |-> line.image])]

\* _parse_price_sheet_meta
SheetMeta(lines) ==
  LET scan[n \in 0..Len(lines)] ==
        IF n = 0 THEN [category |-> "", brand |-> None, meta |-> <<>>]
                 ELSE ScanLine(scan[n - 1], lines[n])
  IN scan[Len(lines)].meta

\* resolve_brand_name
ResolveBrand(name, category, sub) ==
  CASE sub # None -> sub
    [] sub = None /\ category \in {"Balls", "Accessories"} /\ NameBrand[name] # None ->
         NameBrand[name]
    [] sub = None /\ category = "Accessories" /\ NameBrand[name] = None -> "Accessory"
    [] OTHER -> "Unknown"

NoMeta == [category |-> "", brand |-> None, image |-> "none"]

\* parse_raw_rows and Normalizer.normalize
Normalized(raw, meta) ==
  LET m == IF raw.name \in DOMAIN meta THEN meta[raw.name] ELSE NoMeta
  IN [name |-> raw.name, category |-> m.category,
      brand |-> ResolveBrand(raw.name, m.category, m.brand),
      year |-> YearOf[raw.name], sale |-> raw.price, label |-> raw.label,
      stock |-> IF raw.label \in DOMAIN StockOf THEN StockOf[raw.label] ELSE 0,
      status |-> IF raw.label = "Sold_Out" THEN "inactive" ELSE "active",
      image |-> m.image]

\* Validator.validate: no errors.
Valid(row) ==
  /\ row.name # ""
  /\ row.sale > 0
  /\ row.label \in DOMAIN StockOf
  /\ row.category # ""
  /\ row.brand # "Unknown"

\* parse_excel_price_file
ParsedRows(file) ==
  [k \in 1..Len(file.data) |-> Normalized(file.data[k], SheetMeta(file.sheet))]

-----------------------------------------------------------------------------
(* Looking rows up.                                                        *)

\* Faulty variant of Matches: a missing year equals nothing, as = has it in SQL.
MatchesYear(row, b) ==
  {p \in Products :
     /\ Live(p)
     /\ SqlText[products[p].name] = MatchText[row.name]
     /\ products[p].brand = b
     /\ row.year # None /\ products[p].year = row.year}

\* _find_matching_products
Matches(row, b) ==
  {p \in Products :
     /\ Live(p)
     /\ SqlText[products[p].name] = MatchText[row.name]
     /\ products[p].brand = b
     /\ products[p].year = row.year}

\* _diff_messages finds nothing.
Unchanged(p, row) ==
  /\ products[p].sale = row.sale
  /\ onHand[p] = row.stock
  /\ products[p].status = row.status
  /\ products[p].year = row.year
  /\ products[p].category # None
  /\ categories[products[p].category].name = row.category

\* Faulty variant of Forecast: several products count as one.
ForecastFirst(row, b) ==
  CASE ~Valid(row) -> "error"
    [] Valid(row) /\ (b = None \/ Matches(row, b) = {}) -> "create"
    [] OTHER -> "update"

\* _preview_single_row, where b is the brand of the row's name or None.
Forecast(row, b) ==
  CASE ~Valid(row) -> "error"
    [] Valid(row) /\ (b = None \/ Matches(row, b) = {}) -> "create"
    [] OTHER -> LET M == Matches(row, b)
                IN IF Cardinality(M) > 1 THEN "error"
                   ELSE IF \A p \in M : Unchanged(p, row) THEN "skip" ELSE "update"

\* The brands of a name: one of them, when there are several, or None.
BrandsFor(n) == IF BrandNamed(n) = {} THEN {None} ELSE BrandNamed(n)

-----------------------------------------------------------------------------
(* Requests.                                                               *)

NoImport ==
  [stage |-> "idle", token |-> None, rows |-> <<>>, row |-> 1, results |-> <<>>,
   target |-> None, seen |-> None, brand |-> None, category |-> None,
   draft |-> <<>>, forecast |-> <<>>, quiet |-> FALSE, alone |-> FALSE,
   again |-> FALSE]

\* History: a commit by another request is noted in every other import and token.
Disturb(own) ==
  /\ imports' = [i \in Importers |->
       IF i \in DOMAIN own THEN own[i]
       ELSE [imports[i] EXCEPT !.quiet = FALSE, !.alone = FALSE, !.again = FALSE]]
  /\ staged' = [t \in Tokens |->
       IF staged[t] = None THEN None ELSE [staged[t] EXCEPT !.quiet = FALSE]]
  /\ last' = None

Own(i, m) == [j \in {i} |-> m]

Stay(i, m) ==
  /\ imports' = [imports EXCEPT ![i] = m]
  /\ UNCHANGED <<staged, last>>

Advance(m, result) ==
  [m EXCEPT !.row = @ + 1, !.stage = "lookup", !.results = Append(@, result),
            !.target = None, !.seen = None, !.brand = None, !.category = None]

\* preview_upload: the dry run, then the file is kept. A preview that another
\* commit overlaps foretells nothing and is left out.
Preview(t, file) ==
  /\ Count
  /\ staged[t] = None
  /\ \A i \in Importers : imports[i].token # t
  /\ \E pick \in [1..Len(file.data) -> Brands \union {None}] :
       /\ \A k \in DOMAIN pick : pick[k] \in BrandsFor(ParsedRows(file)[k].brand)
       /\ staged' = [staged EXCEPT ![t] =
            [rows |-> ParsedRows(file), quiet |-> TRUE,
             forecast |-> [k \in DOMAIN pick |-> Forecast(ParsedRows(file)[k], pick[k])]]]
  /\ UNCHANGED <<tables, sales, work, queued, ghosts, imports, last>>

\* apply_staged, from the file again; nothing keeps two of them apart.
Confirm(i, t) ==
  /\ imports[i].stage = "idle"
  /\ staged[t] # None
  /\ Count
  /\ Stay(i, [NoImport EXCEPT !.stage = "lookup", !.token = t,
                !.rows = staged[t].rows, !.forecast = staged[t].forecast,
                !.quiet = staged[t].quiet, !.alone = TRUE,
                !.again = (last = staged[t].rows)])
  /\ UNCHANGED <<tables, sales, work, queued, ghosts>>

Row(m) == m.rows[m.row]

RowRefused(i) ==
  LET m == imports[i]
  IN /\ m.stage = "lookup" /\ m.row <= Len(m.rows)
     /\ ~Valid(Row(m))
     /\ Stay(i, Advance(m, "error"))
     /\ UNCHANGED catalogVars

\* The categories as the session of import m sees them: with those it has written
\* and not committed.
SessionCategories(m) ==
  [c \in Categories |-> IF c \in DOMAIN m.draft THEN m.draft[c] ELSE categories[c]]

\* get_or_create_category_by_name: the id and the row it has then.
CategoryFor(m, label) ==
  LET cs == SessionCategories(m)
      found == {c \in Categories : cs[c] # None /\ cs[c].slug = ImportSlug(label)}
      new == [name |-> label, slug |-> ImportSlug(label), margin |-> None]
  IN IF found # {}
     THEN {[id |-> c, row |-> [cs[c] EXCEPT !.name = label]] : c \in found}
     ELSE {[id |-> c, row |-> new] : c \in {d \in Categories : cs[d] = None}}

\* The reads of _import_single_row; a brand and a category that are new are
\* written and wait for the commit. With several matches the row fails, and what
\* was written waits for the commit of a later row.
RowLookup(i) ==
  LET m == imports[i]
      row == Row(m)
  IN /\ m.stage = "lookup" /\ m.row <= Len(m.rows)
     /\ Valid(row)
     /\ \E b \in BrandsFor(row.brand), c \in CategoryFor(m, row.category) :
          LET M == IF b = None THEN {} ELSE Matches(row, b)
              wrote == IF c.row = categories[c.id] THEN m.draft
                       ELSE Put(m.draft, c.id, c.row)
              found == [m EXCEPT !.brand = b, !.category = c.id, !.draft = wrote]
          IN CASE M = {} -> Stay(i, [found EXCEPT !.stage = "create"])
               [] Cardinality(M) > 1 ->
                    Stay(i, Advance([m EXCEPT !.draft = wrote], "error"))
               [] OTHER -> \E p \in M :
                    Stay(i, [found EXCEPT !.stage = "update", !.target = p,
                                          !.seen = products[p]])
     /\ UNCHANGED catalogVars

\* What the import has written comes into the tables with its next commit. A row
\* that is gone, or a slug that is taken meanwhile, ends the import (Crash).
CommitDraft(m) ==
  /\ \A c \in DOMAIN m.draft :
       IF categories[c] = None
       THEN \A row \in Rows(categories) : row.slug # m.draft[c].slug
       ELSE categories[c].slug = m.draft[c].slug
  /\ categories' = [c \in Categories |->
       IF c \notin DOMAIN m.draft THEN categories[c]
       ELSE IF categories[c] = None THEN m.draft[c]
       ELSE [categories[c] EXCEPT !.name = m.draft[c].name]]

\* get_or_create_brand: b is the brand of the row, new if none had the name.
CommitBrand(m, b) ==
  IF m.brand # None
  THEN b = m.brand /\ UNCHANGED brands
  ELSE /\ brands[b] = None
       /\ brands' = [brands EXCEPT ![b] = BrandRow(Row(m).brand)]

\* _create_product: no cost.
CreateForm(row, b, c) ==
  [name |-> row.name, brand |-> b, category |-> c, year |-> row.year, cost |-> None,
   sale |-> row.sale, status |-> row.status]

\* _update_product: cost and brand stay.
UpdateForm(row, seen, c) ==
  [name |-> row.name, brand |-> seen.brand, category |-> c, year |-> row.year,
   cost |-> seen.cost, sale |-> row.sale, status |-> row.status]

Committed(m, p) == [m EXCEPT !.target = p, !.draft = <<>>]

RowCreate(i) ==
  LET m == imports[i]
  IN /\ m.stage = "create"
     /\ CommitDraft(m)
     /\ \E b \in Brands, p \in Products :
          LET row == RowOf(CreateForm(Row(m), b, m.category), FALSE)
          IN /\ CommitBrand(m, b)
             /\ KeysExist(row, brands', categories')
             /\ Insert(p, row)
             /\ Disturb(Own(i, [Committed(m, p) EXCEPT !.stage = "created"]))
     /\ UNCHANGED <<images, objects, onHand, sales, work, queued, ops, ghosts>>

RowUpdate(i) ==
  LET m == imports[i]
      p == m.target
      form == UpdateForm(Row(m), m.seen, m.category)
  IN /\ m.stage = "update"
     /\ CommitDraft(m)
     /\ KeysExist(Updated(p, m.seen, form), brands, categories')
     /\ Update(p, m.seen, form)
     /\ Disturb(Own(i, [Committed(m, p) EXCEPT !.stage = "updated"]))
     /\ UNCHANGED <<images, objects, brands, onHand, sales, work, queued, ops, repriced>>

\* correct_inventory, after the product is committed ...
RowStock(i) ==
  LET m == imports[i]
  IN /\ m.stage \in {"created", "updated"}
     /\ SetStock(m.target, Row(m).stock)
     /\ Disturb(Own(i, [m EXCEPT !.seen = None,
                          !.stage = IF m.stage = "created" THEN "create-photo"
                                                           ELSE "update-photo"]))
     /\ UNCHANGED <<products, history, images, objects, brands, categories, sales, work,
                    queued, ops, ghosts>>

\* ... which refuses less than is reserved: the row is reported as an error.
RowStockRefused(i) ==
  LET m == imports[i]
  IN /\ m.stage \in {"created", "updated"}
     /\ Row(m).stock < ReservedOf(m.target)
     /\ Stay(i, Advance(m, "error"))
     /\ UNCHANGED catalogVars

\* _sync_product_image uploads a first photo only.
Uploads(m) ==
  /\ m.stage \in {"create-photo", "update-photo"}
  /\ Row(m).image # "none" /\ images[m.target] = {}

\* add_product_image refuses the photo: the row is reported as an error, though its
\* product and its stock are committed.
PhotoRefused(i) ==
  LET m == imports[i]
  IN /\ Uploads(m) /\ Row(m).image = "refused"
     /\ Stay(i, Advance(m, "error"))
     /\ UNCHANGED catalogVars

\* The row is done, with its photo or without; the upload is one step (PutObject and
\* CommitImage have its interleavings).
RowPhoto(i) ==
  LET m == imports[i]
      p == m.target
      done == Advance(m, IF m.stage = "create-photo" THEN "create" ELSE "update")
  IN /\ m.stage \in {"create-photo", "update-photo"}
     /\ Uploads(m) => Row(m).image = "good"
     /\ IF Uploads(m)
        THEN /\ \E k \in Keys \ objects :
                  /\ objects' = objects \union {k}
                  /\ images' = [images EXCEPT ![p] = {ImageRow(p, k)}]
             /\ Disturb(Own(i, done))
        ELSE Stay(i, done) /\ UNCHANGED <<objects, images>>
     /\ UNCHANGED <<products, history, brands, categories, onHand, sales, work, queued,
                    ops, ghosts>>

\* The report is complete and the file is discarded.
Finish(i) ==
  LET m == imports[i]
  IN /\ m.stage = "lookup" /\ m.row > Len(m.rows)
     /\ imports' = [imports EXCEPT ![i] = NoImport]
     /\ staged' = [staged EXCEPT ![m.token] = None]
     /\ last' = IF m.alone THEN m.rows ELSE None
     /\ UNCHANGED catalogVars

\* An error that is no ValueError, or a crash: rows that are committed stay, the
\* rest is not applied, and the file can be confirmed again.
Crash(i) ==
  /\ imports[i].stage # "idle"
  /\ Stay(i, NoImport)
  /\ UNCHANGED catalogVars

ImportForms ==
  \/ \E t \in Tokens, file \in Files : Preview(t, file)
  \/ \E i \in Importers, t \in Tokens : Confirm(i, t)

ContinueImport(i) ==
  \/ RowRefused(i) \/ RowLookup(i)
  \/ RowCreate(i) \/ RowUpdate(i)
  \/ RowStock(i) \/ RowStockRefused(i) \/ RowPhoto(i) \/ PhotoRefused(i)
  \/ Finish(i) \/ Crash(i)

\* A step of the catalogue, and what it means for the imports.
CatalogStep ==
  /\ CatalogNext
  /\ IF UNCHANGED <<tables, sales>> THEN UNCHANGED importVars ELSE Disturb(<<>>)

ImportInit ==
  /\ Init
  /\ staged = [t \in Tokens |-> None]
  /\ imports = [i \in Importers |-> NoImport]
  /\ last = None

ImportNext ==
  \/ CatalogStep
  \/ ImportForms
  \/ \E i \in Importers : ContinueImport(i)

ImportSpec == ImportInit /\ [][ImportNext]_allVars

-----------------------------------------------------------------------------
(* Properties.                                                             *)

\* Rows that stand for the same product.
SameKey(row, other) ==
  /\ MatchText[row.name] = MatchText[other.name]
  /\ row.brand = other.brand
  /\ row.year = other.year

HasTwin(n) == Cardinality(BrandNamed(n)) > 1

\* The live products like row, however the blanks in their names are written.
ProductsLike(row) ==
  {p \in Products :
     /\ Live(p) /\ products[p].brand # None
     /\ SameKey(row, [products[p] EXCEPT !.brand = brands[@].name])}

\* The live products that row stands for.
ProductsOf(row) ==
  {p \in Products :
     /\ Live(p)
     /\ SqlText[products[p].name] = SqlText[row.name]
     /\ products[p].brand # None
     /\ brands[products[p].brand].name = row.brand
     /\ products[p].year = row.year}

\* An import that ends without another commit during it has left, for every row
\* it reports as created or updated and no later row repeats, exactly one live
\* product, with the row's price, status, stock and category - also when an
\* earlier confirmation of the file had crashed half way. Names with inner
\* blanks are the exception (ReimportCreatesNothing), and so are brands that
\* share a name.
ImportLeavesRows ==
  \A i \in Importers :
    LET m == imports[i]
    IN m.stage = "lookup" /\ m.row > Len(m.rows) /\ m.alone =>
         \A k \in 1..Len(m.rows) :
           LET row == m.rows[k]
           IN /\ m.results[k] \in {"create", "update"}
              /\ \A j \in k + 1..Len(m.rows) : ~SameKey(row, m.rows[j])
              /\ SqlText[row.name] = MatchText[row.name]
              /\ ~HasTwin(row.brand)
              => \E p \in Products :
                   /\ ProductsOf(row) = {p}
                   /\ products[p].sale = row.sale
                   /\ products[p].status = row.status
                   /\ onHand[p] = row.stock
                   /\ categories[products[p].category].name = row.category

\* The report of a confirmed import is the one its preview announced, as long as
\* nothing was committed since the preview: created rows are created, refused
\* rows refused, updated and unchanged ones updated. A row whose product an
\* earlier row of the file has and brands that share a name are left out. A row
\* announced as anything else is an error for two reasons only: a stock below the
\* reservations, and a photo that is refused; and then its product is in the
\* catalogue all the same (_preview_single_row, _import_single_row).
PreviewForetells ==
  \A i \in Importers :
    LET m == imports[i]
    IN m.stage = "lookup" /\ m.row > Len(m.rows) /\ m.quiet =>
         \A k \in 1..Len(m.rows) :
           LET row == m.rows[k]
           IN (\A j \in 1..k - 1 : ~SameKey(row, m.rows[j])) /\ ~HasTwin(row.brand) =>
                \/ m.results[k] = m.forecast[k]
                \/ m.forecast[k] = "skip" /\ m.results[k] = "update"
                \/ /\ m.forecast[k] \in {"skip", "update"} /\ m.results[k] = "error"
                   /\ \E p \in ProductsLike(row) : row.stock < ReservedOf(p)
                \/ /\ m.forecast[k] # "error" /\ m.results[k] = "error"
                   /\ row.image = "refused" /\ ProductsLike(row) # {}

\* "assert second.created == 0" of test_import_service_is_idempotent: a file that
\* is imported again, with nothing in between, creates no product.
ReimportCreatesNothing ==
  \A i \in Importers :
    imports[i].again => \A k \in 1..Len(imports[i].results) :
                          imports[i].results[k] # "create"
=============================================================================
