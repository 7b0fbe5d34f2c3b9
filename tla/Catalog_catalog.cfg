\* One product at the start; three requests.
CONSTANTS
  Products = {1, 2, 3}
  Brands = {b1, b2}
  Categories = {c1, c2}
  b1 = b1
  b2 = b2
  c1 = c1
  c2 = c2
  None = None
  Names <- Texts
  BrandNames = {"Nox", "Head"}
  CategoryNames = {"Rackets", "Balls"}
  Requests = {r1, r2, r3}
  Importers = {i1, i2}
  Tokens = {t1}
  Keys = {k1, k2}
  Forms <- SomeForms
  Margins <- SomeMargins
  Stocks = {0, 2}
  SlugBase <- Slug
  FirstProducts <- OneProduct
  FirstBrands <- OneBrand
  FirstCategories <- OneCategory
  FirstStock <- OneInStock
  FirstCarts = {1}
  Files <- SomeFiles
  YearOf <- FirstYearOf
  NameBrand <- FirstNameBrand
  MatchText <- Lowered
  SqlText <- Trimmed
  PageSize = 1
  NameRank <- Alphabet
  Years = {2024}
  MaxOps = 3
SPECIFICATION ImportSpec
SYMMETRY Symmetry
CHECK_DEADLOCK FALSE
INVARIANTS
  CatalogTypeOK
  PriceRowConsistent
  DeletedIsFree
  ViewsAgree
  ImportLeavesRows
  PreviewForetells
PROPERTIES
  PricesOnRecord
  RepriceApplies
