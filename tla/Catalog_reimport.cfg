\* Imports alone, of one file with a name that has two blanks inside.
CONSTANTS
  Products = {1, 2, 3}
  Brands = {b1, b2}
  Categories = {c1, c2}
  b1 = b1
  b2 = b2
  c1 = c1
  c2 = c2
  None = None
  Names <- Texts
  BrandNames = {}
  CategoryNames = {}
  Requests = {r1}
  Importers = {i1, i2}
  Tokens = {t1}
  Keys = {k1, k2}
  Forms = {}
  Margins = {}
  Stocks = {}
  SlugBase <- Slug
  FirstProducts <- OneProduct
  FirstBrands <- OneBrand
  FirstCategories <- OneCategory
  FirstStock <- OneInStock
  FirstCarts = {1}
  Files <- BlankFile
  YearOf <- FirstYearOf
  NameBrand <- FirstNameBrand
  MatchText <- Lowered
  SqlText <- Trimmed
  PageSize = 1
  NameRank <- Alphabet
  Years = {2024}
  MaxOps = 4
SPECIFICATION ImportSpec
SYMMETRY Symmetry
CHECK_DEADLOCK FALSE
INVARIANTS
  ReimportCreatesNothing
