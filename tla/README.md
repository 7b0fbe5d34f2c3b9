# A verification of b2b_commerce

b2b_commerce is a modular monolith (FastAPI, SQLAlchemy, PostgreSQL, Redis, one
arq worker) through which companies order padel equipment from one supplier: they fill
a cart, turn it into an invoice that reserves stock, pay it outside the system,
an administrator confirms the payment and ships. This directory holds TLA+
specifications of it, the TLC configurations that check them and TLAPS proofs.
All paths below are relative to `src/b2b_commerce/` of the repository.

## 1. The system

| Component | State it keeps | Operations | What makes it correct |
|---|---|---|---|
| Invoices (`invoices/service.py`, `models.py`) | `invoices` (status, company, `expires_at`, `create_idempotency_key`), `invoice_items`, `idempotency_keys` | create from cart, edit the lines, cancel, confirm payment, ship, expire | one way through the statuses; lines frozen once paid; one invoice per key; overdue invoices get resolved |
| Inventory (`inventory/`) | `inventory.quantity_on_hand`, `inventory_reservations`, `stock_movements` | availability, correction, reserve / release / consume (done by invoices) | reservations follow the invoices; never more reserved than in stock; stock = sum of movements |
| Payments (`payments/models.py`) | `payments` | written by confirm payment | one paid payment per invoice, for the lines that are shipped |
| Cart (`cart/`) | `carts`, `cart_items` | put, set, remove, clear at checkout | no line is invoiced twice or lost |
| Worker (`worker.py`) | none (arq on Redis) | `expire_invoices` and `sync_rapira` by cron, `reprice_products` on demand | repeats are harmless; a failed batch is done later |
| Companies (`companies/`) | `companies.status`, `company_accounts`, `billing_entities` | register, approve, reject, deactivate, activate, credentials, profile | status and account agree; only pending requests are decided, once; login, INN and e-mail unique |
| Accounts and sessions (`auth/`) | `sessions`, `admin_users`, Redis attempt counters | log in and out, change password, reset, (de)activate administrators | a revoked or suspended subject gets no further; an administrator remains |
| Catalog (`catalog/service.py`) | `products`, `brands`, `categories`, `price_history`, `product_images`, objects | create, edit, soft delete, set margins, reprice, upload, storefront and lists | a deleted product is in no cart and no invoice; margin and history explain every price; pages and counters agree |
| Price import (`catalog/import_service.py`, `price_import.py`) | a staged file per token | preview, apply row by row | applying twice or in part is harmless; the preview foretells the report |
| Support (`support/`, `notifications/`) | `support_tickets`, `support_messages` | open, answer, close, lists and badges | nothing is added to a closed ticket; every message is announced; badges agree with lists |
| Rapira (`rapira/`) | `rapira_price_history` | synchronise, prune, page through the history | the latest rate is the last answer; nothing pruned early; no page skips a row |
| Finance (`finance/`) | none | reports over invoices, read statement by statement | every shipment in one month; the parts of a report add up |
| Dashboard, audit, legal, HTTP, PDF, infrastructure | audit rows | pages, log rows, rendering | none that other parts rely on |

**Interaction.** The components are Python modules in one process that share one
PostgreSQL schema; there are no messages between them. A request opens a session
(`db.py`, `get_session`), the services call each other inside it, and the service
that ends the operation commits. `create_invoice_from_cart` works on carts,
inventory, reservations, invoices and keys in one transaction; `ship_invoice` on
invoices, reservations, inventory and movements. The worker is another process
with sessions of its own. All interaction is therefore through shared rows, at
READ COMMITTED, ordered by row locks (`SELECT ... FOR UPDATE`), by unique and
check constraints, and by nothing else. Uncommitted writes are seen by nobody.

**What is hard.** (1) Checks on rows that are not locked: another transaction
commits between the check and the write. (2) Several row locks in one
transaction: deadlock. (3) Races for one invoice between five operations and the
expiry job. (4) Repeated requests with an idempotency key. (5) A job that fails
half way and runs again, and SKIP LOCKED that leaves rows for later. (6) Absolute
writes of a value computed from an old read. (7) Operations of several commits (an
import, an upload) that stop half way. (8) Reads in several statements that see
different states. `PROJECT.json` lists each at its
line under "hazards", with the property that covers it or the reason none does.

## 2. Modules

| Module | Contents |
|---|---|
| `InvoiceStock` | carts, invoices, reservations, stock, payments and keys under concurrent transactions and expiry jobs; its properties |
| `StockPromise` | the abstract promise about stock that `InvoiceStock` implements |
| `MCInvoiceStock` | symmetry for TLC; extended by every run |
| `InvoiceStock_proofs` | type correctness and the invoice side; idempotency keys, checkout and deadlock freedom; the stock side: no overselling, stock equals its movements, the lifecycle, and the refinement of `StockPromise` |
| `CompanyAccess` | companies, their accounts and sessions under concurrent requests; its properties |
| `AccessPromise` | the abstract promise about access that `CompanyAccess` implements |
| `MCCompanyAccess` | values and symmetry for TLC |
| `CompanyAccess_proofs` | type correctness, the invariant about requests in flight, unique fields, decisions, temporary passwords and sessions, and the refinement of `AccessPromise` |
| `Catalog` | products, brands, categories, photos, price history and the repricing job, with the carts and orders that hold on to a product |
| `CatalogViews` | what the storefront and the administrator's lists show of a state of `Catalog` |
| `PriceImport` | the price list import, composed with `Catalog` |
| `MCCatalog` | values for TLC; puts `PriceImport` and `CatalogViews` together |
| `Catalog_proofs` | prices, history and deletion in the composition of `Catalog` and `PriceImport` |
| `Catalog_table_proofs` | the rest of the catalogue: foreign keys and slugs, repricing, the pages |
| `PriceImport_proofs` | what an import leaves, and what its preview foretells |
| `SupportTickets` | tickets, messages, badges and announcements |
| `SupportTickets_proofs` | types, conversations and announcements; badges and pages |
| `RapiraRates` | the exchange rate, its syncs, its history and an administrator who pages through it |
| `FinanceReports` | the financial report, read while invoices change |
| `MCReports` | values and symmetry for TLC of support, rates and reports, one of which a behaviour runs |
| `Reports_proofs` | the history of rates and the financial report |
| `Ranks` | facts about finite lists that the proofs about pages, periods and slugs share |

### InvoiceStock

*State.* One variable per column that the control depends on: `status`, `owner`,
`due` (is `expires_at` past), `createKey`, `item` (lines), `reserved` (active
reservations), `paidFor` (the lines the paid payment was written for, standing
for `payments.amount`), `moved` (shipment movements), `onHand`, `ledger` (sum of
all movements), `keyEntity`, `cart`. A transaction in flight is a slot of
`Requests`: how far it is (`pc`), what it read (`want`, `seen`), the stock rows
it still has to lock (`need`) and holds (`held`). An expiry job is a slot of
`Workers` with the `batch` it locked. Quantity 0 stands for "no row"
everywhere, as no row with quantity 0 can exist (check constraints).

*Steps.* A step ends where another transaction can come between: at an unlocked
read used later, at a row lock that may have to wait, between the checks and the
commit. Locks are not variables: who holds a row follows from `pc`, `held` and
`batch` (`CartFree`, `InvoiceFree`, `StockFree`).

| Code | Actions |
|---|---|
| `create_invoice_from_cart` | `StartCreate` (key lookup, no lock), `LockCart` (lock, read, empty cart), `LockStock` per row in id order, `CheckCreate`, `CommitCreate` (insert, clear cart, store key; or the unique violation) |
| `mutate_invoice_items` and wrappers | `StartMutate` (lock invoice, editable?), `LockStock`, `CheckMutate`, `CommitMutate` |
| `cancel_invoice` | `CancelInvoice`, one step: its only lock is taken first and its checks follow |
| `confirm_payment` | `StartConfirm` (key lookup), `ConfirmPayment` |
| `ship_invoice` | `StartShip`, `LockStock`, `CheckShip`, `CommitShip` |
| `expire_due_invoices`, worker job | `StartExpire` (SKIP LOCKED), `CommitExpire`, `FailExpire` |
| `correct_inventory` | `ReadForCorrection`, `WriteCorrection` with other transactions in between; `CorrectAlone` without |
| cart edits | `PutInCart`, `RemoveFromCart` |
| any exception, lost connection, crash | `Rollback` |
| the clock | `ComeDue` |

*Abstractions.* Prices, totals and texts are left out. The product's and the
company's state (active, not deleted, has a billing entity) is left out: a check
on it may fail at any moment, which is `Rollback`. An edit names each line once,
by quantity or by addition; naming a product twice reaches the same lines in two
edits. `payments.idempotency_key` and `idempotency_keys.key` are always written
together, so one variable stands for both. A key is one of `Keys`, any text a client
may send, or the key `expire:<id>` under which the job files an expiry
(`ExpireKey`). Both are rows of one table, and the Idempotency-Key header is stored as
it comes, so a request may bring the key of an expiry too: `SentByCreates` and
`SentByPayments` bound whose (`HeaderKeys`; the invoice must exist, as its id is a random
UUID). Inventory rows exist from the start; the code inserts them with 0 on first
use. There is one warehouse. Invoice ids are
symmetric and a create in flight always finds an unused one (bound `IdLeft`).

*Two switches.* `correct_inventory` takes no lock before it writes, and an UPDATE
of an existing cart row does not wait for a checkout. `CorrectionsOverlap` and
`CartEditsOverlap` say whether other transactions may come between. With the
first FALSE a correction is one step; that is an assumption about how the program
is used, not something the code ensures, and the run `oversell` shows what
happens without it. With the second FALSE nobody edits a cart that is being
checked out; with it TRUE such an edit is answered and then deleted with the
cart, so `CheckoutTakesCart` is claimed only without.

*Faulty variants.* Operators whose comment begins "Faulty variant of" are the
definitions with a plausible mistake put in. No action uses them: they document,
for every checked property, a mistake in the code it would reveal (PROJECT.json,
"mutants").

### StockPromise

The stock as a customer may rely on it: an invoice is opened, changed, paid,
shipped or released; a promise is only made of units not promised yet; stock is
never set below what is promised. No locks, requests, carts, keys or jobs. Under
the mapping `Promise` of `InvoiceStock` (canceled and expired are "released", the
active reservations are the promise) every commit is one abstract step and every
other step none; an expiry batch is one `Release`.

### CompanyAccess

*State.* `company` (status, tax number, has a supplier entity) and `account`
(login, password hash, `must_change_password`, `is_active`) are the rows;
`sessions` the sessions that are neither revoked nor expired; `req` the requests
in flight with the rows they have loaded. Two fields are history and decide
nothing: whether a password was generated for the account, and in a session the
password its holder last proved or set.

*Steps.* No handler here locks a row to read it. What is loaded is kept in the
request and compared at the UPDATE: the ORM writes the columns that differ from
what was loaded, so `Written(loaded, new, now)` is the new value if it differs
from the loaded one, else what the column holds by then. A step ends at each such
read, at the UPDATE if another statement of the transaction comes after it
("flushed"; the row is locked from then on), and at the commit. The unique
fields are looked up in one step, the INSERT or UPDATE is another. `current_auth`
reads session, account and company one after another; the later handler loads
its rows again, because nothing keeps those objects alive in between.

| Code | Actions |
|---|---|
| `register_company` and the session that follows | `Register`, `InsertCompany`, `FlushSession`, `CommitSession` |
| `create_company` | `CreateCompany`, `InsertCompany` |
| `approve_company`, `reject_company` | `Decide`, `CommitDecision` |
| `activate_company` | `Decide`, `DecideAccount`, `CommitActivate` |
| `deactivate_company` | `Decide`, `DecideAccount`, `Flush`, `CommitDeactivate` |
| `update_company_admin` | `EditCompany`, `CommitEdit` |
| `reset_company_password` | `Reset`, `Flush`, `CommitReset` |
| `current_auth` | `Enter`, `AuthAccount`, `AuthCompany` |
| `update_company_profile` | the same, `LoadProfile`, `CommitEdit` |
| `change_company_password` | the same, `LoadAccount`, `Flush`, `CommitChange` |
| `authenticate` | `FindLogin`, `FindLoginCompany`, `FlushSession`, `CommitSession` |
| `revoke_token`, expiry | `EndSession` |
| any exception, lost connection, crash | `Fail` |

*Abstractions.* E-mail addresses are checked and constrained like tax numbers.
Names, addresses and the rejection reason are written by the same UPDATEs and
decide nothing. Whether the password a client sends is right is an input: a login
that goes on was right for the hash it read. A hash is salted, hence new
(`FreshHash`), and sessions that ended are forgotten.

*Overlaps.* Some pairs of operations on one company are not safe together.
`Overlaps` says which of three kinds may overlap: two decisions, two writes of
the password, a login with what revokes the sessions. Nothing in the code keeps
them apart; a property that needs it is claimed on that condition. Section 6
shows what "passwords" costs. With "decisions" a later commit wins over a status
it did not read; with "logins" a session opened with the old password outlives
its reset. No text of the repository excludes either, so they are assumptions
here and not findings.

### AccessPromise

Who may enter, as an administrator may rely on it: a company is opened, judged,
suspended; its password is reset or changed; a session is entered and left. Each is
one instant. A session is opened only of a company that may be used and with its
present password. A suspension and a reset end all sessions of the company and none
of another, a change all but the one it came with; must-change is exactly that the
password was generated. No requests, rows loaded earlier, flushes or unique fields. Under
the mapping `Promise` of `CompanyAccess` (status, password and flag are read off the
two rows) every commit is one abstract step and every other step none, if nothing
overlaps. A change may come after a suspension it did not see: the promise allows it,
as it opens nothing.

### Catalog, PriceImport, CatalogViews

*State.* `products`, `history` (price_history), `images`, `brands`, `categories`
and `onHand` are the tables, `objects` the keys in the object storage. `carts`,
`invoiced` and `reserved` are the products that some cart line, invoice line or
active reservation refers to; what happens to orders besides is `InvoiceStock`'s
subject. `work` holds a request or job in each slot, with what it has read;
`queued` counts repricing jobs. `PriceImport` adds `staged` (files by token) and
`imports` (the confirmations in flight: rows, position, what was found, and
`draft`, categories written in the session and not committed).

*Steps.* A handler loads rows without a lock, decides, and commits once, so most
operations are two actions, `Enter...` (read and checks) and `Commit...` (UPDATE
or INSERT under the constraints). As in `CompanyAccess`, `Written` says which
columns an UPDATE carries. An operation whose outcome cannot depend on what it
read is one action.

| Code | Actions |
|---|---|
| `create_product` | `CreateProduct` |
| `update_product`, `_record_price_history` | `EnterUpdate`, `CommitUpdate` |
| `soft_delete_product` | `EnterDelete` (product, invoice lines), `CheckDelete` (carts, reservations), `CommitDelete` |
| `correct_inventory` | `CorrectStock`, one step: its interleavings are in `InvoiceStock` |
| `add_product_images` | `EnterImages`, then `PutObject` and `CommitImage` for each upload |
| `create_brand`, `update_brand`, `delete_brand` | `EnterCreateBrand`, `EnterRenameBrand`, `EnterDropBrand` and their commits |
| `create_category`, `update_category`, `update_category_margin`, `delete_category` | `CreateCategory`, `RenameCategory`, `SetMargin`, `EnterDropCategory`, `CommitDropCategory` |
| `reprice_products_from_categories` and its job | `EnqueueReprice`, `StartReprice`, `CommitReprice`, `RestartReprice` |
| cart and checkout, as far as they hold on to a product | `EnterCart`, `CommitCart`, `RemoveFromCart`, `EnterOrder`, `CommitOrder`, `Release` |
| any exception, constraint, crash | `Abort` |
| `parse_excel_price_file` | the operators from `ScanLine` to `ParsedRows` |
| `preview_upload` | `Preview` |
| `apply_staged`, `import_rows` | `Confirm`, `RowRefused`, `RowLookup`, `RowCreate`, `RowUpdate`, `RowStock`, `RowStockRefused`, `RowPhoto`, `PhotoRefused`, `Finish`, `Crash` |
| `get_or_create_brand`, `get_or_create_category_by_name` | `CommitBrand`, `CategoryFor`, `CommitDraft` |
| `routers` | `ProductForms`, `ProductApi`, `BrandForms`, `CategoryForms`, `SettingsForms`, `ImportForms` |

An import commits four times per row at most (product, stock, photo, and the draft
with the next of them), and other requests, other confirmations of the token and
crashes come between. A row of the file has no photo, a good one or one that
`add_product_image` refuses (too large, or no image after all): the row is then
reported as an error, with its product and stock committed.

*History variables.* `tainted` collects the products written, put into a cart or
deleted on the strength of a read that was out of date at the commit: for those
nothing is claimed, as the code takes no lock and the later commit wins. `repriced`
collects the products a job repriced, since that writes no price_history. In an
import `alone` says that nothing else was committed since it began, `quiet` since
its preview, `again` that it repeats the import before it. None of them decides
anything.

*Abstractions.* Prices are small integers and margins whole percents; a name is a
string whose normal forms (`MatchText`, `SqlText`, `SlugBase`, `YearOf`,
`NameBrand`) are given as functions. A reservation is of one unit and a product
has at most one open order. A preview that a commit overlaps foretells nothing
and is left out. Full text search and the order by date are left out of
`CatalogViews`; a place in an order is the number of rows before it, and
`ViewsAgree` is evaluated where no request is in flight, which `Abort` reaches
from every state of the tables.

### SupportTickets

A request is authenticated and its transaction starts (`Begin`), it reads the
ticket, decides and announces (`Handle`), and commits (`Commit`), or ends without
a commit (`Abort`). `create_ticket`, `add_message`, `close_ticket` and
`close_ticket_by_customer` are the `op` of the request. The time stamps matter: a
message has the start of its transaction (`created_at` by DEFAULT now()), a
ticket's `updated_at` the clock of the handler, and neither is the order of the
commits. `clock` ticks once a step. `Alerts`, `OpenTickets`, `Listed`, `Page` and
`ShownPage` are the SELECTs behind badges and pages. `SwitchAdmin` is
`set_admin_active`. History: `closedAt`, and in a message the instant of its commit
and the administrators active throughout. Texts are left out.

### RapiraRates and FinanceReports

A sync of the rate is `Fetch` (the answer and its stamp), `Compare` (with the latest
row) and `Save` (INSERT, `prune_rapira_history`, commit) or `Fail`; the job and an
administrator may do it at the same time. `Stored` rounds to the two digits of the
column, as the comparison is with the unrounded quote. Two answers have different
stamps, and no sync lasts as long as a row is kept (`Short`). An administrator opens
the history (`OpenHistory`: the newest rows of the window, a page at most) and asks for
more, which is two steps: `FindCursor` looks up the last row that was shown, `ShowMore`
selects what is older. Syncs store and prune rows between any two of them; if the row
was pruned before it was looked up, `ShowMore` selects the newest rows again, as the code
has no WHERE then. `reader` is what is on the screen, with two histories: which rows
of the window are still to come, and whether a row was shown twice.

A report takes its bounds (`StartReport`) and runs its SELECTs one by one (`ReadPart`,
`ReadMonth`), while invoices are paid, closed and shipped (`Pay`, `Close`,
`BeginShip`, `Ship`) and products change their category. A SELECT is the set of
invoices whose lines it adds up: sums agree if the sets do. The stamp of a
shipment is taken before its commit. Time is counted in units, `MonthLength` to a
month. These modules and `SupportTickets` share no table; `MCReports` lets a behaviour run one
of the three.

## 3. Runs

| Run | Instance | Question and answer |
|---|---|---|
| `core` | 1 product, quantities and stock up to 2, 2 companies, 2 invoices, 2 requests, 1 key and the keys of both expiries, 1 job | Reservations, payments, stock, keys, the lifecycle, checkout and the refinement hold |
| `overlap` | 2 products, quantities and stock up to 1, 1 company, 2 invoices, 2 requests, 1 job, no key, both switches TRUE | No deadlock; what is checked under locks holds at the commit; reservations, payments and shipments stay right with several lines, added and deleted ones too, even when corrections and cart edits interleave; only here can a shipment be refused for want of stock |
| `live` | as `overlap`, both switches FALSE, creates may bring the key of one expiry, fairness | Every overdue invoice is resolved unless the key of its expiry is stored; every request ends |
| `oversell` | 1 of everything, 2 requests, corrections overlap | `NeverOversold` is violated: see section 6 |
| `skipped` | 1 product, 2 invoices, 1 request, creates and payments may bring the key of one expiry, fairness | `OverdueExpires` is violated: see section 6 |
| `access` | 1 company, 3 hashes, 2 tokens, 2 requests, no overlaps | Status, account flag, temporary passwords and sessions stay consistent; the refinement of `AccessPromise` holds |
| `names` | 2 companies, 1 tax number, 2 spellings of a login, 3 hashes, no sessions, 2 requests | Logins and tax numbers stay unique |
| `temporary` | 1 company, 3 hashes, 1 token, 2 requests, password writes overlap | `TemporaryPasswordMustChange` is violated: see section 6 |
| `catalog` | 3 products (1 at the start), 2 brands, 2 categories, 3 slots, 3 requests in all, 2 confirmations, 1 token, 3 files | Prices, margins, history, deletion, repricing, storefront, import and preview stay consistent |
| `reimport` | imports alone of one file whose name has two blanks inside, 4 requests | `ReimportCreatesNothing` is violated: see section 6 |
| `reports` | support: 2 companies, 2 administrators, 2 tickets, 2 slots, 4 requests, 1 ticket to a page; rates: 3 quotes, 2 syncs, retention 4, window 3, 1 row to a page; finance: 2 invoices, 3 months of 2 units from the end of a year | Closed tickets stay closed, badges and pages agree, no message goes unannounced; the latest rate is right, nothing is pruned early, the pages of the history skip nothing; a report adds up |
| `rates` | rates alone, 2 quotes that need no rounding | `WrittenOnChange` is violated: see section 6 |

*Bounds.* Two invoices compete for one unit, and a quantity of 2 allows a line to
grow and to shrink, tells an increase within what is available from one beyond,
and stock left over from none. An invoice keeps at least one line, so lines are
added and deleted only with two products, in `overlap` and `live`. Two requests and a job
give every pairwise race. With two stock rows at most two
requests hold one while they wait for another, so two requests are enough for every
cycle there can be; the proof is for any number of both. One
key used twice is a retry. In `live` only creates bring the key of an expiry, since
payments that do so multiply the states; in `skipped` both do. `IdLeft`, `MaxQty`, `MaxStock` and `LedgerInRange`
are the only bounds in guards.

In `CompanyAccess` two requests give every race of two handlers; the company is
the same one in `access`, as no operation relates two companies except by their
unique fields, for which `names` has two. Three hashes are the present password,
one a request has loaded and a new one; two tokens are the session a client
changes its password in and another one to revoke.

In the catalogue three requests are an edit, a deletion or an upload that overlaps a
job and an order, or a preview, a confirmation and what disturbs them; a job or
an import that is under way counts once however many steps it takes. The three
files have a known and an unknown product, a product twice with a refused row, and
a product that is sold out; a brand, a category and a product can still be
created. Two confirmations of one token import the same rows side by side. The
margins include a negative one, with which a job breaks the price constraint.
`MaxOps`, `MaxClock` and `MaxNow` are the bounds of the new modules in guards. In
the support part of `reports` four requests give a ticket, two messages and a closure, or two tickets
and two messages, any two of them overlapping; the finance clock crosses a new
year, so that the series reaches into the year before, and units are such that
shipments fall on the boundary of a month. Rates run for longer than one retention
period; a window of three units holds more than the one row of a page, so that there
are further pages, and a reader who waits finds the last row he was shown pruned.

*Properties.* `ReservationsMatchLines`, `PaymentCoversLines` and `ShippedOnce`
tie the three side tables to the invoice: they fail if any of the five operations
and the job acts on a status another one has changed. `NeverOversold` and
`StockMatchesLedger` are the two stock invariants; both are claimed only where
corrections do not overlap anything, so what an overlapping correction loses is not
theirs to find. `ChecksStillHold` says that
what was read before the commit is still true at the commit, which is what the
locks are for. `NoDeadlock` looks for cycles in the waits-for relation;
`Lifecycle` and `CheckoutTakesCart` are action properties; `KeepsPromises` is the
refinement. `OverdueExpires` is what the comment of `expire_due_invoices` says,
`OverdueResolved` what the job does of it. Of `CompanyAccess`, `DecisionsFollowStatus` and
`AccountFollowsStatus` depend on the UPDATE being column-wise: with all columns
written (`WrittenAlways`) an edit that loaded a company before a decision brings
its old status back. `TemporaryPasswordMustChange` relates the flag to how the
password came about; `SessionsAreCurrent` says that what a reset, a change or a
deactivation revokes is all there is to revoke; `KeepsAccess`, the refinement, adds
that they take effect at one instant, revoke nobody else's sessions, and that the
flag is cleared when, and only when, the client has set a password of its own
(`CommitChangeKeepsFlag` breaks nothing else). With one company TLC cannot see the
sessions of another; the proof does. `FieldsAreUnique` is what the
early lookup cannot guarantee.

Of the catalogue, `PriceRowConsistent` relates price, margin and the last row of the
history, all written by different code; `PricesOnRecord` says the same of every
step, stale edits included. `DeletedIsFree` holds the checks of the deletion
against those of cart and order. `RepriceApplies` says that a job, even restarted,
leaves the products nobody touched at the price of their category, and touches no
deleted one. These three leave out rows written on an old read, where the later commit
wins. `ViewsAgree` compares filters, order, pages and counters, each a
SELECT of its own; it does not say whether the filter is the one the storefront should
have (section 6). `ImportLeavesRows` and `PreviewForetells` state what the import
is for, also after crashes and with rows that repeat. `CatalogTypeOK` includes the
foreign keys. `ConversationSound` and `EveryMessageAnnounced` hold for requests that
overlap; `BadgesMatchLists` compares a badge by `created_at` with the pages by
`updated_at`. `RateHistorySound` says that the latest rate is the answer of a sync that
ran alone, whatever ran before it, and that nothing is pruned early though a sync
stamps its row long before it prunes; `HistoryPagesSound` that a reader misses nothing
and sees a row twice only if one he was shown has been pruned; `WrittenOnChange` is what two
comments say of the history; `ReportAddsUp` what a report read in pieces may be off by.

*Fairness.* `Continue(s)` is strongly fair: PostgreSQL queues the waiters of a
row lock, so a lock released again and again is obtained. `StartExpire` is weakly
fair because the scheduler starts the job every 15 minutes; `CommitExpire` is
strongly fair: a job may fail, but not for ever (section `Fairness` of the
module). Nothing obliges a request to begin, a customer to pay or a transaction
to fail.

## 4. Proofs

TLAPS proves every safety property of section 3, invariants, action properties and
both refinements: what the runs show on small instances holds for every value of the
constants. The assumptions on the constants stand in the modules that declare them
and are evaluated by TLC in the runs. They say what the tables and the parsers
guarantee: tables are finite where the code counts or orders rows, NULL is no value,
a form or a file has the types the handlers parse, the catalogue starts consistent,
a page has a positive size. Three say more about the data: collapsed text stays as
it is when it is collapsed again (`TextAssumption`), the three categories of the
price list have slugs of their own (`VocabularyAssumption`), and a rate that was
rounded rounds to itself (`RateAssumption`).

*Invoices* (`InvoiceStock_proofs`), for any sets of companies, products (natural
numbers), jobs and keys, any finite sets of invoices and requests and any bounds. `TypeCorrect` is type correctness.
`InvoiceInvariant` gives `ReservationsFollowInvoices`, `PaymentsFollowInvoices` and
`ShipmentsFollowInvoices`. None of the three is inductive: a commit writes what
was decided steps before. The strengthening `InvoiceInv` adds
`InvoiceLocksExclusive` (two transactions never hold one invoice) and
`StatusStillHolds` (the status a transaction found is still there). `NoNewHold`
and `HoldsShrink` say once what most steps do to the locks.

*Stock* (the same module). The first lemmas count reserved units: the
sum over the invoices changes by the difference when one of them reserves
something else (`ReservedExcept`). `StockInv` is the inductive invariant. Its core
are, for every request, `Covered` (each stock row it depends on is locked by it or
still to be locked) and `StockHolds` (what it checked there is still so); they need
each other: a check survives because its rows are locked, and only a transaction
that has a row's lock reserves more of it or takes its stock (`StockKept`). From
it follow

* `ChecksHoldAtCommit`: what a transaction checked holds when it commits, with
  corrections that overlap too;
* `StockNeverOversold` and `LedgerAddsUp`, assuming `~CorrectionsOverlap`; section 6
  shows that the assumption is needed;
* `InvoicesFollowLifecycle`, the action property;
* `ImplementsPromise`, assuming `~CorrectionsOverlap`: every step is a step of
  `StockPromise` or leaves its variables alone. `CreateOpens`, `MutateChanges`,
  `ConfirmPays`, `ShipShips`, `CloseReleases` and `CorrectionRestocks` name which.

*Requests* (the same module).

* `KeyCreatesOneInvoice`: `OneInvoicePerKey` is inductive given types, because a
  payment stores a key only if it is not stored yet.
* `CheckoutTakesWholeCart`, assuming `~CartEditsOverlap`: cart locks are exclusive
  and the lines a checkout read are those of the cart (`CartInv`).
* `RequestsNeverDeadlock`: the rows a request still needs are above all it holds
  (`LockOrder`). If each request of a set waited for another, each would wait for
  one that itself waits for a higher row; the sets `Above` would shrink for ever,
  which well-foundedness of the subsets of a finite set excludes.

*Access* (`CompanyAccess_proofs`), for any sets of
companies, logins, hashes, tokens and requests and any `Lower`. `Base` says what a
request has loaded at each stage (`Shape`), that a row to be inserted is not there
and nobody else uses its id while one to be updated is there (`Target`), and that
operations kept apart are (`Distinct`). It is inductive and gives `AccessTypes`.
`RowSteps` and `SessionWrites` sort the steps by what they write, `LoadSteps` and
`SessionLoads` by what they load. From them follow

* `UniqueFields`, without any condition on overlaps;
* `AccountsFollow` and `StatusTransitions`, if decisions do not overlap: a decision
  in flight still sees the status it was made on and has loaded the flag the
  account has (`Undecided`), so what its UPDATE leaves out is right;
* `TemporaryPasswords`, if password writes do not overlap (`KnowsFlag`);
* `CurrentAccess`, if logins do not overlap what revokes: a login in flight has
  read the present password (`EntersCurrent`), a request that has revoked has
  revoked all but its own session and nobody else's (`RevokesCurrent`). Decisions and
  password writes may overlap here; the run `access` excludes them for the other
  properties;
* `ImplementsAccess`, if nothing overlaps: every step is a step of `AccessPromise` or
  leaves what it sees alone. The invariant is the four together (`AccessInv`); each
  says of the rows at a commit what an abstract guard asks. `InsertOpens`,
  `DecisionJudges`, `DeactivationSuspends`, `ResetResets`, `ChangeChanges`,
  `SessionEnters` and `SessionLeaves` name the abstract step.

*Support* (`SupportTickets_proofs`), for any sets of tickets, companies,
administrators and requests. `RequestSound` says what a request in flight has read:
a ticket it may reach, which, if it was found open, can have been closed only after
the request began; two creations never have one id. `MessageSound` says the same of
what was committed. Together with the types they are inductive (`SupportInvariant`)
and give `SupportTypes`, `ConversationsAreSound` and `MessagesAreAnnounced`.
`BadgesAreRight` is about lists. It needs two more facts, `StampInvariant`: no two
requests take a stamp at one instant, so the order by `updated_at` is total, and the
tables are finite, as an answer adds one row. Then the pages are the ranks of the
list cut into pieces, and each row is on exactly one.

*Catalogue and import* (`Catalog_proofs`), for any sets of products, brands,
categories, requests, importers and tokens, any forms and files. The proof is in
three layers. (1) What is in flight is well formed (`WorkOK`, `ImportOK`): an edit or
a deletion has a product that exists, a deletion about to commit has seen it free,
a cart or an order has seen it not deleted, a job has read products with costs and
margins, a row of an import fits the columns. This is kept because products are
never removed (`NothingVanishes`). (2) Every one of the forty-odd actions either
leaves products and history alone or is one of four kinds (`ProductStep`: an
insert, an update, a deletion, a job), and changes one slot to something well
formed (`CatalogSteps`, `EveryStep`). (3) For each kind, `NewRow` says what becomes of
the row (`InsertRows`, `UpdateRows`, `DeleteRows`, `RepriceRows`): an UPDATE of a row
that nobody has changed leaves exactly the assigned values (`WrittenFresh`), and one
that is out of date taints it. `PricesAreConsistent`, `DeletedProductsAreFree` and
`PricesAreOnRecord` follow.

*Tables and pages* (`Catalog_table_proofs`), for any finite tables. `TableInvariant` adds
what the rows refer to. A reference stays good because whoever writes one checks it in
the same commit and whoever removes a row checks that nothing refers to it
(`ReferencesKept`). That a written row is a row at all rests on the parser, whose
states are followed line by line (`SheetNames`), and on the search for a free slug: of
one number more than there are rows, one is free (`SlugFound`). It follows that

* `CatalogTypes`: brand, category and photo of every product exist;
* `RepricingApplies`: whoever writes products ends a request of its own, so a job that
  ends with a change of products has committed, and what the commit writes is the
  price of the category unless the row was disturbed;
* `ViewsAreRight`: the order of a page ends with the id and is total, so that OFFSET
  and LIMIT show each row once. It holds with requests in flight too; TLC evaluates it
  without.

*Imports* (`PriceImport_proofs`), for any files. The products a row of the file can mean
are its `Candidates`. Writing one row changes the candidates of no row with another key
(`OthersKept`), because it gives the product it writes that row's own name, brand and
year; so what rows
that are done have left (`Left`) is not undone by those that follow, unless one means
the same product. While no other commit comes in between (`alone`), what was read of the
current row is still so at its commit (`AtWork`), at each of its four commits. A
preview that is not overlapped has counted the candidates of every row (`Announced`);
its confirmation takes that over as `Foreseen`: rows done came out as foretold, rows
to come still have as many candidates as then. `Faithful` puts this together for one
import and is kept by its own steps (`LookupFaithful`, `CreateFaithful`, `UpdateFaithful`)
and by everybody else's (`DisturbKeeps`), since any commit ends `alone` and `quiet` of
the others. `ImportInvariant` gives `ImportsLeaveRows` and `PreviewsForetell`. Neither
excepts crashes or imports that repeat one that crashed. A refused photo
(`PhotoRefusedFaithful`) makes an error of a row that has been written, which a preview
does not foresee: `PreviewForetells` says which rows those may be. The proof corrected the
property: a file that spells one name with one blank and with two means a reserved
product by only one of the spellings, and the refusal of a stock below the reservations
has to be stated with `ProductsLike`.

*Rates and reports* (`Reports_proofs`). `RateInvariant` says that no sync in flight has
the stamp of another or of a row, that a sync that ran alone knows the latest rate, that
nothing was pruned within its retention, and that what was pruned is older than every
row that is kept (`OldestPruned`). With it `RateHistoryIsSound`. `HistoryFollowed` is
the part about the reader: whatever of the window he has not been shown and is still
there is older than his cursor and more is offered, and while every row he was shown
is still there his cursor is the oldest of them. Since the rows that are pruned are the oldest, a
lost cursor leaves nothing older to miss; so `HistoryPagesAreSound`.
`FinanceInvariant` follows a report through its SELECTs: the totals
hold what was shipped in the period, each breakdown holds what the totals hold, and
what one part has and another has not was committed since the report began
(`landed`). `ReportAlwaysAddsUp` needs besides that the periods
of the series cover the time without a gap, across a new year, for any number of months
up to twelve and any length.

*Shared facts* (`Ranks`). The library's induction needs an operator as a parameter, so
induction is put in the form of a least element of a set of naturals (`LeastNatural`) or
of a set that holds 0 and every successor (`NaturalsReached`). From these come the
existence of ranks in a finite total order and the division into pages.

Only model-checked: the liveness properties `OverdueResolved` and `RequestsEnd` (the
fairness of an action involves ENABLED, which is out of the prover's reach), and the
five violations of section 6, which are claims about one behaviour each. No module
has a RECURSIVE operator.

## 5. What could come next

1. An abstract specification of the import (a file applied row by row, once) that
   `PriceImport` implements between disturbances, with `ImportInv` as the mapping's
   invariant.
2. The attempt counters in Redis beside `CompanyAccess`, and quantities of cart
   lines that two additions change at once.
3. The payment term as an operator checked against a calendar.
4. `InvoiceStock` and `Catalog` in one composition, with the price and the state of
   a product in the lines of an invoice.

## 6. Findings

**Corrections can oversell** (`inventory/service.py:242`). `correct_inventory` refuses a
target below the reservations ("Нельзя установить остаток ...: зарезервировано
..."), and ADR-002 says that all stock invariants are kept by constraints and
transactions. The reservations are read without a lock and no constraint relates
them to the stock. The run `oversell`: a correction to 0 finds no reservation; a
create locks the stock row, reserves the unit and commits; the correction writes
0. One unit is reserved and none is there, and `ship_invoice` will fail on the
check constraint. The same gap lets a shipment in between be overwritten, so that
the stock differs from the sum of its movements.

**An overdue invoice can be passed over for ever** (`invoices/service.py:1109`).
`expire_due_invoices` is documented to expire the overdue invoices and to release their
reservations (`invoices/service.py:1093`, "Переводит просроченные awaiting_payment в
expired и снимает резервы"). It skips an invoice whose key `expire:<id>` is stored. Creates and
payments store the Idempotency-Key header without a prefix in the same table
(`invoices/router.py:615-625` and `679-687`, `invoices/service.py:598-599` and `968-969`). The run
`skipped`: a request brings the key of the expiry of another invoice and commits; that
invoice comes due; every job passes over it, and it goes on reserving its units until somebody
pays or cancels it. `OverdueResolved` holds with that exception, whatever SKIP LOCKED
leaves out and however often a batch fails.

**A reset can leave a temporary password that need not be changed**
(`companies/service.py:755`). `require_company` is documented to send a client with
a temporary password to the page where it is changed (`auth/deps.py:102`, "при
временном пароле гонит на смену"), which it does by the flag `must_change_password`.
`reset_company_password` loads the account without a lock and assigns True. If
the flag was True already, the UPDATE does not write it. The run `temporary`: an
account has a temporary password; a reset loads it; the client changes its
password, which clears the flag, and commits; the reset stores a new temporary
password and leaves the flag cleared. `TemporaryPasswords` proves that this takes
two overlapping writes of one account's password.

**An import can create a product again** (`catalog/price_import.py:105`).
`test_import_service_is_idempotent` (`tests/test_price_import.py:177`) imports a file
twice and asserts `second.created == 0` (line 186). A row is matched by
`normalize_match_text`, which collapses blanks inside a name, against
`lower(trim(name))` of the stored one (`catalog/import_service.py:343-346`), which
keeps them. The run `reimport`: the only row of a file has a name with two blanks;
its first import creates the product, its second does not find it and creates
another. `ImportLeavesRows` excepts such names.

**The history of rates repeats a rate** (`rapira/service.py:102`). The comments of
`sync_rapira_prices` (`rapira/service.py:92`) and of the job (`worker.py:30`) say that a
row is written only on a change ("только при изменении"). The run `rates`: the job
and an administrator's sync have the same answer, both find the same latest row and both
insert. There is a second way, without any overlap: a quote with more than two digits
after the point differs from its rounded column every time, so that each sync stores a row.

**Observed besides**, most of it not claimed otherwise by any text, or not about state:

* `docs/CHANGELOG.md:35` says that the catalogue shows only active products with a
  stock above 0 ("показывает только активные товары с остатком > 0"); the filter of the
  storefront does not look at the stock. This is a disagreement of text and code, stated
  here only: `CatalogViews` has the filter of the code, and `ViewsAgree` does not say
  which of the two is right.
* A photo that is refused makes an import report its row as an error although its
  product and stock are committed; the preview did not look at the photo.
* If the last row of a history page is pruned before the next page is asked for, the
  newest rows come again.
* Repricing writes no `price_history`, unlike every other change of a price.
* A job leaves a product alone whose price is right already, also if an edit based
  on an old read has left a margin that does not match.
* A shipment at the first instant of a month is counted in two months of the series,
  as both bounds of a period belong to it.
* `create_brand` and an import can make two brands of one name at the same time; the
  rows of the import then find either.
* A failed commit leaves an object in the storage that no row refers to.
* The administrator's list is ordered by a time stamp with no second column.
* A support message is announced before its commit, and is announced even if the
  commit fails.

## 7. Not modelled

* Rendering of pages, PDF and Excel, static and legal pages, configuration, health
  checks and start-up: input and output around the services.
* The audit log: rows appended inside the caller's transaction and read only by its
  own page. Notifications other than those of support: log lines.
* The Redis attempt counters: they only refuse logins, and no row depends on them.
* Sums in roubles, the value of the warehouse, the dashboard's counts: aggregates
  over rows that are modelled.
* Full text search, which PostgreSQL evaluates, and the reading of workbooks by openpyxl.
* The payment term: a function of one date, with tests of its own.
