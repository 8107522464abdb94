# OpenERP in TLA+

Specifications, model-checking configurations and machine-checked proofs for
OpenERP: a point of sale and back office with a FastAPI, SQLAlchemy and PostgreSQL
server (`src/backend/app`) and a React frontend (`src/frontend/src`) for its tills
and its administration panel. Every definition is read off the code; the table
`map` in `PROJECT.json` gives the lines. Paths of the server are relative to
`src/backend/app`, those of the screens to `src/frontend/src`.

## 1. The system

One API process serves tills and the panel; each HTTP request is one READ
COMMITTED transaction (`db/session.py`) that commits after the handler returns and
rolls back on any error. A worker process polls the e-mail outbox. All lasting state
is in PostgreSQL; components interact through its rows, row locks (`SELECT ... FOR
UPDATE`), advisory transaction locks and unique constraints, and call one another as
Python functions inside one transaction. The screens keep caches (TanStack Query),
forms, idempotency keys in refs, timers and a queue of prints; they interact with the
server by requests whose answers may be lost or come late, and learn of others'
changes only by reading again.

| component | state it keeps | operations | what makes it correct |
|---|---|---|---|
| sales | `Sale` (draft, completed, number, completed_at), `SaleLine`, `Payment`, `ZReport` | create, add/merge/remove line, cancel, validate stock, checkout, Z preview and close | gapless numbers in clock order; a final Z is complete; a completed sale is never rewritten |
| returns | `Return`, `ReturnLine`, `Refund`, two accumulators per sale line | create_return | neither capacity is exceeded; a refund lands in a day without Z |
| idempotency | `IdempotencyRecord` by (operation, key) | claim, complete | one effect per key; a retry answers the same result |
| inventory | the ledger `StockMovement`, the projection `StockBalance`, warehouses, locations | movements, adjustment, transfer, rebuild | the balance is the sum of the ledger; ordinary consumption never goes below zero |
| lots | `Lot`, balances per lot | create, edit, delete, counted stock, FEFO plan and consumption | consumption takes the earliest expiry, once; history is never erased |
| pos | `PosTerminal`, POS categories | create, update, order of the menu | a till that is off makes no sale |
| purchasing | orders, receipts, their lines | draft, place, cancel, receive, apply received costs | nothing is received twice, costs are not overwritten blindly |
| catalog | products, categories, units, pictures, the version tills poll | administration | references hold, names differ, a change reaches the tills |
| pricing | formula and tax settings, derived prices | settings, taxes, inputs, manual prices | a derived price is what the current formula gives |
| tickets | templates, one frozen `Ticket` per sale | template edits, generate | one render per sale |
| jobs, notifications | `OutboxMessage`; rules, incidents | enqueue, claim, mark, worker loop; evaluate, resolve, rule edits | every message settles; one open incident per subject |
| users, rbac, auth | users, roles, sessions, login limiter | administration, login | one recoverable administrator remains |
| settings, suppliers, audit, dashboards, reports | rows under unique constraints, an append-only log, read-only queries | administration | |
| till screen | active sale, list of drafts, charge attempt and its key, multiplier, prompts, scanner buffer, print queue, chosen terminal | scan, add, charge, retry, return, close the day, print | a retry is the same request; what is on screen is what is charged |
| panel | forms, drafts, estimates, plans, cached lists | the forms of every component above | what is shown is current; what is typed is what is saved |

Where it is hard: many locks taken in one order by four different operations; a
business day read from the clock long before the commit; stock, terminals, carts and
keys that other requests change while a statement waits; retries of requests that are
still running; a worker that can stop between the outside world and its commit;
answers that come after the screen has changed; refetches that race with answers;
timers that race with keys. The list, line by line, is `hazards` in `PROJECT.json`.

## 2. The modules of the server

### Shop: what the database promises

`Shop.tla` is the abstract specification of sales, returns, stock and Z reports:
every operation is one step. `Sell`, `GiveBack`, `CloseDay` and `Receive` are
checkout, `create_return`, the Z close and `create_goods_receipt` run alone; the
`...Effect` operators are the rows they write, and are shared with the detailed
specification. The other actions are transactions that are a single step in both
(`CreateSale`, `AddLine`, `RemoveLine`, `CancelSale`, `SwitchTerminal`,
`MoveStock`), and `NewDay` is midnight in the business timezone.

| variable | code |
|---|---|
| `status`, `number`, `soldOn` | `Sale.status`, `Sale.number` (0 is NULL), the business day of `Sale.completed_at` |
| `cart` | the base units on a sale's lines, by product (a repeated product merges into its line) |
| `refunded`, `restocked` | `SaleLine.quantity_refunded`, `quantity_physically_returned` |
| `returns` | `Return` rows with their lines and `Refund` |
| `stock`, `moved` | `stock_balance` of the sales location, summed over lots; the net of the ledger's movements other than SALE and RETURN |
| `zreports` | final `ZReport` rows, with the sales and refunds their totals were computed from |
| `active`, `today` | `PosTerminal.is_active`, the business day of `clock_timestamp()` |

### Checkout: concurrent requests

`Checkout.tla` runs requests statement by statement. `pc[r]` is the statement a
request runs next; `intent`, `day`, `picked` and `drawn` are its locals. A lock
is never a variable: under PostgreSQL a lock is held from the statement that
took it until the transaction ends, so who holds what follows from `pc`
(`HoldsKey`, `HoldsCut`, `HoldsSale`, `HoldsTerminal`, `HoldsStock`,
`HoldsNumbering`), and `Blockers(r)` are the requests the next statement of `r`
waits for. Writes are invisible until the commit, so a request's writes are all
in `Commit`; every read before it sees committed rows.

    claim -> cut -> clock -> sale -> terminal -> stock (one row a step) -> commit
                          \-> drafts -> commit                 (Z close)
    claim -> stock -> commit                                   (goods receipt)

`Refuse` is each check that fails, at the statement that makes it. `Abort` is a
rollback at any statement for any other reason: a payment that does not cover
the total, a statement timeout, a lost connection, a killed process. The one-step
transactions lock rows as well; `Draft`, `Terminal` and `Stock` wait for the
requests that hold them, and after their last row wait for nothing.

### Outbox and Alerts

`Outbox.tla` is `jobs`: `Claim` is `SELECT ... FOR UPDATE SKIP LOCKED`, `Deliver`
and `Bounce` one `send_email` with its mark, `Record` the commit of the batch,
`Crash` its loss. `delivered` and `lost` are history: what reached the recipient, and
which of that no commit records. A bounce may have been accepted by the server, since
an error after DATA looks like a refusal. `Alerts.tla` EXTENDS it with
`notifications`: an evaluation detects, reads the open incidents in a later statement,
flushes its rows (where the partial unique index and the row locks make it wait or
fail) and commits them with its mails. `matching`, what a detector would find, changes
at will. One rule stands for all, and the recipient is taken to be configured.

### LiveCatalog

How a change reaches the tills: writers, whose transactions stamp their rows with the
time they started (`updated_at` is `func.now()`), the version `count(*),
max(updated_at)` of `catalog/version.py`, and the hook `useLiveCatalog` that polls it
and refetches. One table stands for the eight watched ones, and a version for its hash.
`behind` is history: a till that stopped fetching with old rows, because its first
version was younger than them or because a fetch failed more often than it is retried.

## 3. The modules of the till

| module | what of the code | state, by its name in the code |
|---|---|---|
| `Till` | `PosHomePage`, `OpenSalesBar`, `Cart`, `Checkout` and the sale they drive: `drafts` is the query of open sales, `active` and `view` the sale on screen, `attempt` the ref with the idempotency key, `req` the mutations in flight, `late` requests of a page that is gone | `Serve`/`Fail` are the network, `Opened`, `Edited`, `Cancelled`, `Checked`, `Charged` and their errors the handlers, `Resume` and `OpenFirst` the effects, `Reload` and `Reconnect` the browser, `Others` another browser |
| `Counter` | what a till promises whatever the network does: `Open`, `Fill`, `Cancel`, `Pay` once and for what the sale holds, `Hand` over the receipt of a paid sale | abstract; `Till` implements it |
| `TillEntry` | the keypad multiplier, the surcharge, the weight and price prompts, the search and the lookup of a code | `pending`, `surcharge`, `prompt`; `edit` is the lookup or addition in flight, `lines` what the server added |
| `Scanner` | `useBarcodeScanner`: a gun is told from a person by the time between keys | `buffer`, `since` (the clock against `MAX_GAP_MS`), `idle` (the flush timer); a tick is 100 ms |
| `TillClosing` | `PosTerminalProvider`, `PosLayout`, `CloseTillDialog` and `z_reports.close`, whose reading of open sales and commit are two steps | `configured`, `listed`, `mode`, `preview`, `closed`, `closeKey` (`closeAttemptRef`); `closing`, the request each browser has in flight; `zs`, `held` (open sales with lines), `charges`, `active` on the server |
| `Refunds` | `PosReturnsPage`, `ReturnsPage` and `CreateReturnForm` around `create_return` | `shown`, `cached`, `staged`, `confirming`, `attempt`, `success`; `refunded`, `returned`, `made` on the server |
| `RefundEntry` | the two quantities of the line being added, in binary floating point with `Bits` significant bits | `refund`, `stock`, `manual` (`stockQuantityIsManual`), `staged` |
| `Printing` | `Receipt`, `TicketPrintSurface`, `qzPrinter` and the frozen ticket of a sale | `receipt`, `printed`, `attempted`, `surfaces`, `queue` and its timeout; `atQZ` and `paper` are QZ Tray, which is external |

## 4. The modules of the panel

| module | what of the code | state, by its name in the code |
|---|---|---|
| `Access` | the pages of users and roles, `users`, `rbac` and the policy of the last administrator | `users`, `roles`; `seen`, `editing`, `ticked` per administrator; a request is `Load` (which authenticates) and `Run` (under the advisory lock) |
| `Categories` | `ProductCategoriesPanel`, `UnitsPanel` and their handlers | `categories`, `units`, `product` on the server; `seenCategories`, `seenUnits`, `category`, `draft`, `request` per administrator; a save is two requests, each `CheckRequest` then `CommitRequest`, where `CategoryConstraints` are those of the database |
| `PosMenu` | `PosCategoriesPanel`, its handlers, and the till that opens at the default tab | `menu`, `placed` (where a product is); `seenMenu`, `menuDraft`, `touched`, `press` per administrator; `tabs` and `tab` at the till |
| `CategoriesPage` | `CategoriesPage.tsx`, which shows both | none of its own: `PageSpec` is the two together |
| `Pictures` | `ImagePicker` and `images.py`: addresses that carry a version, which browsers keep | `image` on the server; `versions` (the list as last read) and `cache` per screen, `request` per administrator |
| `Products` | `ProductsPage`, `CreateProductForm`, `create_product` and the request of its taxes | `newProduct` (the form), `timer` and `previews` (the estimate, 300 ms after the last key), `estimate`, `seenCategories`, `request`; `categories`, `products` on the server |
| `OrderEntry` | `PurchasingPage`, `CreateOrderForm` | `entry`, `table` (the lines of the order), `asks` (estimates being worked out), `creating`; `orders` on the server |
| `Purchasing` | `OrderDetailPanel`, `GoodsReceiptForm`, `ReceiptsList` and `purchasing/service.py`, whose handlers lock first and are one step | `order`, `receipts`, `catalog`; `values`, `form`, `attempt`, `selected` per clerk |
| `StockDesk` | the forms of adjustment and transfer, the button of the rebuild, and `inventory/service.py` statement by statement, with row locks, snapshots and the database's choice of a victim | `ledger`, `balance`, `batches` (the lots); `form`; `moves` (each request with its statement and locks), `moved` (how many) |
| `Lots` | `LotsPage`, `LotBalancesPanel` and `lots/service.py`: counts and changes of a lot in two steps, a consumption in one, since it locks what it reads | `lots`, `stock`, `executed`; `panel`, `seenLots`, `seenStock`, `stale` per clerk; `Sell` and `Receive` are the rest of the shop |

## 5. How they compose

    Shop    <- EXTENDS -  Checkout       MCCheckout           (proofs: CheckoutProofs)
    Outbox  <- EXTENDS -  Alerts         MCStock, MCAlerts    (proofs: RetryProofs)
    Counter <- INSTANCE - Till           MCTillScreen         (proofs: TillProofs)
    Refunds                              MCTillWaits          (proofs: RetryProofs)
    TillClosing                          MCCounter            (proofs: RetryProofs)
    Scanner, TillEntry, RefundEntry      MCCounter            (proofs: EntryProofs)
    Printing                             MCCounter, MCTillWaits  (proofs: EntryProofs)
    Outbox, Pictures                     MCBackOffice         (proofs: RetryProofs)
    Lots                                 MCStock              (proofs: StockProofs)
    StockDesk                            MCStock              (proofs: StockProofs)
    Purchasing, OrderEntry, Products     MCGoods              (proofs: PurchasingProofs)
    Categories, PosMenu <- EXTENDS - CategoriesPage
    Access, CategoriesPage               MCPanel              (proofs: PanelProofs)

`Checkout` implements `Shop` and `Alerts` drives `Outbox`: the abstract variables are
variables of the detailed module, and `ShopSpec` and `OutboxSpec` are properties of
the runs and theorems. `Till` implements `Counter` by `INSTANCE Counter WITH`, where
the cart, payment and status are the server's rows and the receipt is what the page
shows; `CounterSpec` is the property and the theorem.

The server's atomic steps in the modules of the screens are the transactions that
`Checkout`, `StockDesk` and `Lots` take apart: `Till` takes a checkout for one step,
which `ShopSpec` justifies.

The modules of the screens share no rows within the bounds of a run, so a run puts
several of them side by side: `MCBackOffice`, `MCTillWaits`, `MCCounter`, `MCPanel`,
`MCGoods` and `MCStock` declare the variables of their modules, instantiate each
module once per *case* with the constants of that case, and have a variable `case`,
chosen in `Init`, that says which of them a behaviour is about; the rest stays as it
began. Each EXTENDS the modules that theorems are about, so that the theorems and the
runs are about the very same definitions; the constants of those modules in a
configuration are those of one case, which a comment names, or wide enough for all of
their cases. That is why the variables and definitions of these modules have names no
other module uses. A property of such a run is that of the module, in the cases where it
is asked, and some are conjunctions of several: `EntryAsAsked`, for instance, is about
the codes, the lines, the quantities and the copies of a ticket. Each conjunct is stated
and commented in its module and named again in the MC module; where a theorem is about a
conjunct, it is about the definition in its module. `MCTillScreen` EXTENDS `Till` with a
bound on the combinations of reloads, refetches and other browsers (`Within`).

## 6. Abstractions

Of the server:

- Money, prices and tenders are left out of `Shop` and `Checkout`; a payment that
  falls short is an `Abort`. Quantities are base units of a product.
- There a warehouse has one sales location, lots are summed, and a FEFO consumption
  is the decrease of the sum; `Lots` is about the lots and `StockDesk` about the
  locations. A product without any balance row has nothing to lock in PostgreSQL;
  `Checkout` locks it all the same, which only orders two upserts that commute.
- `sales.allow_negative_stock` is a constant during a run.
- `SaleReady` looks at the sale before the terminal lock and the code after it;
  only the error a request answers depends on the order.
- The branch of `close` that consolidates a mutable report from before the final
  model (`finalized_legacy`) is left out: no operation creates such a report.
- Sale ids are never reused. The idempotency table is keyed by (operation, key); a
  model key stands for the pair, and an intent for the request fingerprint.

Of the screens:

- An answer is handled with the state of the newest render, as TanStack Query does.
  Mutations that would be paused while the browser is offline are lost instead.
- `Till`: a line is worth one, so a cart is a set of lines and a total its size; a
  product that merges into its line is another line. The till stays at one terminal.
- `TillClosing`: a terminal has one open sale, and the totals of a Z are the number of
  charges it counts. A closing whose dialog was left is served or lost before another.
- `Refunds`: quantities are whole packages, and the notes and the lot number are edited
  with the refund method, which stands for the three. `RefundEntry` is about decimals.
- `Printing`: sales are charged one after another, and tickets are told apart by sale.
- `Categories`, `PosMenu`, `Pictures`: an administrator has one request under way.
- `Access`: the credentials of the till, resets of passwords and sessions are left
  out. A request works with the roles it loaded while it authenticated, as the
  session's identity map does; `AtOnce` bounds how many do at a time (section 9).
- `OrderEntry`: an estimate is the product and cost it was worked out for. `Purchasing`:
  one product per line, and the panel of an order stays open.
- `StockDesk`: the tables, the expiry dates and the reasons are left out; the stock
  there is at first is one unit at a place, and a lost request is not served later.
- `Lots`: one product, warehouse and location are one place, and dates, supplier and
  description of a lot are folded into its expiry. Another product is not chosen while
  a row is being saved.

## 7. Runs

Each run finishes in about three minutes with two workers.

| run | instance | shows |
|---|---|---|
| `till` | `MCCheckout`: 2 requests, 2 sales of one product (one at a terminal), 2 days, 2 keys | completeness and order of the Z, days and numbers, returns, stock and terminals under races |
| `keys` | `MCCheckout`: 2 requests, 2 sales at two warehouses, 2 products, 3 keys, negative stock allowed, fairness | exactly-once keys, no gap in the numbers of two warehouses, no circular wait, every request ends, `Checkout` implements `Shop` |
| `back_office` | 3 messages, 2 workers and a crash; 3 requests for one picture at two browsers; an order form opened twice; 2 movements across a rebuild; counts and consumptions of 2 lots; 3 catalogue rows, a writer and a till; fairness | each delivery is accounted for and attempts are bounded (`DeliveriesAddUp`), an address shows one picture (`PicturesAgree`); mails settle, estimates arrive, requests are answered although they lock in opposite orders, tables and tills catch up (`WaitsEnd`) |
| `till_screen` | 2 sales, 2 lines, 2 keys, one step of another browser, one reload, one refetch (not all at once: `Within`), fairness | `Till` implements `Counter`; a key names one sale and survives retries; carts stay visible; the till comes up |
| `till_waits` | returns of 2 sales at the till and in the panel with 2 keys, 2 searches, 3 edits; a ticket printed by hand on 2 surfaces; a browser with 2 tills that the panel switches; fairness | nothing is returned or printed twice, an answered list is gone, buttons come back, jobs and closings settle, a disabled till stops |
| `counter` | 2 codes with toggles and 3 without; 3 articles of three kinds, a calm and a hasty cashier; a return of 0.30 kg less 0.10 and of a box of 2; 2 sales with tickets, 2 templates; 2 browsers, 2 days, 3 keys | codes are whole and read once, lines and quantities are what was asked, copies agree (`EntryAsAsked`); one Z per day that counts it (`DayAddsUp`), and whoever retries a closing is answered its Z (`RetryGetsItsZ`) |
| `panel` | 1 or 2 administrators, 2 or 3 requests, of roles and 3 accounts, categories and units, and the menu with a working till | somebody can recover the shop; a role that is saved has what was ticked in its card (`WorkIsKept`); references hold, names differ, screens are current (`PanelAgrees`) |
| `goods` | an order changed by 2 clerks, received in parts with 4 requests, its costs applied; a new order of 2 rows of one product with 2 costs, 3 estimates and 7 steps of its user, where answers are lost; a product with previews while its category changes, or with opening stock and a second product | receipts add up and a placed order is fixed (`GoodsAddUp`), costs are those reviewed (`NothingChangesUnseen`); a row shows its own estimate, or the one it came with, and only a removal makes that another's (`EntryShowsItsOwn`); what is created is what the form showed (`CreatedAsShown`). Who has sent the order waits here; `back_office` is about who does not |
| `stock` | lots created, counted, planned and consumed by 1 or 2 clerks while tills sell and receive; forms of stock; 3 requests that race, with and without the rebuild; 2 incidents of one subject, 2 evaluators and a worker | a consumption is executed once, first to expire first, used lots stay and plans are those shown (`LotsAgree`), a count is what was on the shelf; the balance is the ledger, and whoever races for stock is served fairly (`StockAgrees`); a subject has one open incident (`AlertsAgree`), and evaluations use the outbox as specified |
| `restart` | `MCAlerts`: 2 incidents, 2 evaluators, a worker that may crash | **violated**: one e-mail per incident |
| `stale_estimate` | `OrderEntry`: 2 rows of one product, 2 costs, nothing lost | **violated**: a row that waits for nothing shows the estimate of its own cost |
| `picture_again` | `Pictures` with removals | **violated**: the picture on screen is the one stored |

Why the bounds meet the hazards: two requests race at every lock; two products give
stock locks an order, and the three requests of `stock` can form a circle with a
rebuild; two days put midnight between any two statements; two sales let one be in
flight while the other's Z closes, and are what a key could confuse. Two keys are a
retry and what follows it. Failures are not bounded apart from the requests: any
request that is sent may be refused, lost, or served with its answer lost. The two
warehouses of `keys` share one numbering and no cut, so their charges meet there. `Offered` in `MCCheckout` names the requests clients send, chosen so that each
pair of operations that share a lock meet. Where a module has the constant `Kinds`,
`Forms`, `Others` or `Fields`, a case offers the operations that interact, and the cases
of the runs together offer all of them. Constants that begin with `Last` or `Most` bound
what would grow for ever, and `Largest` what is a quantity.

`CHECK_DEADLOCK FALSE` is there because bounded instances do end: when every sale is
completed, every key used or every request made, nothing need happen. The symmetric
sets are request and evaluator identities; runs with liveness use none.

## 8. Fairness

- `FairSpec` of `Checkout` is strong fairness of each request's own steps: PostgreSQL
  queues waiters for a row or advisory lock first come, first served, so a step that is
  enabled again and again is eventually taken. Clients and aborts are not fair.
- Workers of the outbox are weakly fair: `run_forever` polls for ever, a send ends
  after `smtp_timeout_seconds` and `SKIP LOCKED` never waits. SMTP may refuse every
  message. Crashes are bounded, or a worker might never commit.
- Of the screens only what the browser does by itself is weakly fair: a request that
  was sent settles, with an answer or an error, and the answer is handled; effects run
  after a render; invalidated queries and polls are read; timers expire. Nobody is
  assumed to press anything, except that a scanner that has begun a code ends it
  (`GunEnd`), and nothing assumes that a request succeeds.
- The specifications of the runs that put modules side by side state the fairness of
  each of their modules, in the case it is about.

## 9. Disagreements

Three have a run:

1. `restart`: `process_batch` sends up to 20 messages and `run_once` commits once. A
   worker that stops after SMTP took a message forgets it, and sends it again.
   `evaluate_rules` promises "exactly one email per incident". What does hold is
   `EveryDeliveryAccounted`: a duplicate needs a crash or an SMTP error.
2. `picture_again`: a picture put after a removal has version 1 again, so it has an
   address that browsers were told to keep for a year, and they show the old one;
   `features/images/api.ts:25` says "una URL concreta no cambia nunca de contenido".
3. `stale_estimate`: a line keeps the estimate that was on screen when it was added,
   and its row asks for its own. When a row is removed, the next one of the same product
   takes its key and its place (`CreateOrderForm.tsx:286`), starts from the estimate it
   came with, and does not ask again if its cost is that of the row that went; so it goes
   on showing a price worked out for another cost, which `CreateOrderForm.tsx:185` says it
   does not ("no enseñamos una estimación caducada"). What does hold is `EntryShowsItsOwn`.

The following were met while the modules were written. The modules behave as the code
does; no run is kept for them, and the constants or properties named keep them out of
the passing runs where they would break what is otherwise true.

- `catalog/version.py:55`: `updated_at` is the start of the writing transaction, so a
  long save that commits after a short one leaves the version as it was; and a row
  created and deleted between two polls brings the version back
  (`useLiveCatalog.ts:108`). `back_office` has one writer and no deletions.
- `rbac/policy.py:99`: roles loaded while the actor was authenticated are not read
  again under the lock, so two requests at once may leave nobody who can recover the
  shop, or permissions that nobody ticked (`rbac/service.py:80`). `AtOnce` is 1 where
  roles change in `panel`.
- `catalog/service.py:391` and `:365`: a unit that is deleted or renamed while a
  category or a product takes it leaves the old name behind, with no lock.
- `catalog/service.py:540` and `:534`: two administrators may leave the menu without a
  default category, or with a hidden one.
- `ProductCategoriesPanel.tsx:328`: a save of two requests whose second fails compares
  the next save with the category as it was before the first.
- `ProductsPage.tsx:115`: taxes sent after the creation recalculate a price that was
  typed; `CreateProductForm.tsx:239` and `:266`: a refetch of the categories replaces a
  unit chosen by hand, and previews may be answered out of order (`InOrder`).
- `ProductsPage.tsx:121`, `PosCategoriesPanel.tsx:141`: what is typed while a request
  is under way, or in another draft, goes without a question.
- `ReceiptsList.tsx:45`: after a conflict nothing is read again, though the message says so.
- `LotBalancesPanel.tsx:65`: the plan of another quantity may be listed (`Patient`), and
  `:145`: a count that is being typed is saved for the location chosen since.
- `inventory/service.py:228`: a movement that waited for a row the rebuild deleted is
  refused; `:450`: opposite transfers wait for each other until the database refuses one.
- `sales/z_reports.py:399`: a draft may get its first line after the Z has read the open
  sales; it then cannot be charged until the next day.
- `PosHomePage.tsx:108`: a list that was on its way replaces the sale just opened in the
  cache (`CartsVisible` is about behaviours without a refetch); `:309`: the multiplier
  is read when a lookup is answered (`Patient`); `:692`: a scan is taken while the cancel
  dialog is open.
- `PosReturnsPage.tsx:59`: a search drops the key of the attempt, so the same list is
  then another return; `CreateReturnForm.tsx:20`: the form refuses the maximum it offers
  when a remainder is not a binary fraction.
- `useBarcodeScanner.ts:46` and `:68`: the tail of a code begun while the screen was busy
  is given as a code, and a code without a terminator is lost to a later key.
- `qzPrinter.ts:30`: after a timeout two jobs are at QZ Tray; `Receipt.tsx:85`: a print
  that ends late dismisses the receipt of the next sale.

## 10. Proofs

TLAPS checks, for every value of the constants that satisfies the assumptions below:

- **The concurrent server implements the serial one** (`CheckoutProofs`).
  `Serializable`: `Spec => ShopSpec`. The inductive invariant `CheckoutInv` says what
  each request knows at each statement because of the locks it holds: from the clock
  on, no completed sale or Z of its warehouse has a later day than it read, and its day
  is open where it needs that; from the sale lock on, the sale is the draft, or the
  completed sale with enough left, that it looked at; from the terminal lock on, the
  terminal is on; each stock row it picked still covers its line; its number is one
  above the highest. These are the guards of `Sell`, `GiveBack`, `CloseDay` and
  `Receive`, so a commit is one of their steps and every other step stutters. They are
  inductive only together with the exclusion of each lock, which follows from
  `Blockers(r) = {}` at the step that takes it.
- **The serial server keeps its promises** (`CheckoutProofs`): `GaplessNumbers`,
  `ZIsComplete`, `ReturnsBounded`, `NumbersInOrder`, `NoSaleOversells`, `TillIsOn`,
  `NothingRewritten`. Completeness of a Z needs that no Z and no sale is dated after
  `today`; gaplessness that only completed sales are numbered, and finitely many.
  `BooksBalance` is about sums: stock is what was moved, less what was sold, plus what
  came back, the returns of a sale add up to its accumulators, and a Z is numbered after
  those before it. `BooksInv` adds that what is summed is finite and that `Return` rows
  are numbered, so that a new one is new.
- **So the concurrent server keeps them**: `NumbersNeverSkip`, `NothingMissesItsZ`,
  `NeverOverReturned`, `NumbersFollowTheClock`, `RacesNeverOversell`,
  `TillIsOnAtCommit`, `RequestsRewriteNothing` and `RequestsKeepTheBooks`; `TypesHold` is
  its type invariant.
- **Keys and locks** (`CheckoutProofs`). `KeysCountOnce` needs `KeysHold`: the request
  that claimed a key has it to itself until it ends, and the key has no record before that.
  `LockOrderHolds`: whoever is waited for is further along the order of the locks than who
  waits, and among the stock rows the next product of the holder is greater
  (`WaitingGoesUp`), so of finitely many requests that wait the furthest waits for none.
- **What is tried again** (`RetryProofs`): `DeliveriesAccounted` (batches of two workers
  are disjoint, so each delivery has one owner until its commit or its loss, and a mail is
  not tried more often than allowed), `Deduplicated` (the unique index together with what
  a flushed evaluation holds), `AlertsUseTheOutbox`. `ReturnsCountOnce` is about the two
  return screens: a list that was sent and can be sent again is the one the attempt
  remembers (`AttemptIsRemembered`), so a list has one key (`ListsHaveOneKey`), and a key
  registers one return. It holds although the screen forgets the attempt at every search,
  because a search begins another list; that is where the entry of section 9 on
  `PosReturnsPage.tsx:59` comes from. `AnsweredListsGo` needs that the form is empty
  while its sale is being read.
- **Closing the day** (`RetryProofs`): `DaysAddUp`, one Z per warehouse and day, numbered
  without a gap, that counts every charge of the day, and `RetriesGetTheirZ`. A closing
  reads the open sales in one step and commits in another, so `ClosingInv` says what
  whoever has read still knows because it holds the cut of its warehouse, that keys in
  dialogs, in flight and in Z reports were drawn before, and that a dialog tries one key
  until it is answered; so a refusal means that the Z has another key than any it tried.
- **Pictures** (`RetryProofs`): `AddressesAreForGood`. `PicturesInv` follows a version from
  the request that draws it to the address, the list and the caches of each screen. It
  assumes one picker and no removals (`OnePicker`): a removal starts the versions again,
  which is `picture_again`, and two pickers may be given one version.
- **The till implements the counter** (`TillProofs`). `TillImplementsCounter`:
  `Spec => CounterSpec`. The invariant `TillInv` has three parts: `ServerInv` (sales are
  numbered as they are opened and a claimed key names a completed sale), `MailInv` (only
  charges carry a key and a payment, also those of pages that are gone) and `AnswerInv`
  (the answer of a charge is the receipt of a paid sale), without which `Hand` would show
  something unpaid. `KeysNameOneSale` needs `KeyInv`: the keys in the ref, in flight, late
  and claimed were drawn before, and any two that are equal are for one sale.
  `RetriesKeepTheKey` follows from the form of the attempt. `TillHasTypes` needs that a
  completed sale has a payment and that each request carries what its kind carries.
  `EveryCartStays`: until the list is refetched, a sale the page was shown is listed or
  over, and the answers on their way are of such sales (`PageInv`).
- **Lots** (`StockProofs`). `LotsInv` gives `LotsHaveTypes`, `UsedLotsAreKept`,
  `NumbersStayUnique` and `ConsumptionsAreExecutedOnce`, and `LotsAlwaysAgree` puts them together: types are inductive only with
  `Numbered` and `Named`, that requests are told apart by numbers already given out and
  that what they name exists, and a lot is kept because its row of balance is, which a
  consumption bounds by what it `Takes`. `EarliestGoFirst`: what is to be taken from a lot
  is what the lots before it do not cover, and those before an earlier lot are before the
  later one too. `CountedStockHolds` adds `CountInv`, what a count has read while it holds
  its row, and assumes that nothing is received meanwhile: a lot with no row of balance
  has nothing a receipt would wait for. `PatientSeePlans` adds `PlanInv` and assumes a
  user who touches nothing while an answer is awaited; the entry of section 9 on
  `LotBalancesPanel.tsx:65` is why.
- **Stock** (`StockProofs`). `DeskAgrees`: every commit adds the same to a balance and
  to the ledger, and a rebuild, which deletes the rows it holds before it sums, writes the
  sums of a ledger nobody can have added to since (`DeskInv`). `OnlyAdjustmentsOverdraw`:
  what a loss or a transfer found enough is held until it is taken, also across a rebuild.
  `StockIsSharedFairly` says of refusals only while nothing is rebuilt that they are for
  want of stock: a movement that waited for a row the rebuild deleted is refused with stock
  at hand (section 9, `inventory/service.py:228`). `DeskAgrees` puts all of it together.
- **Orders** (`PurchasingProofs`). `OrdersAddUp`: the lines hold the sums of the receipts,
  none of which is there before the order is placed, and the status follows the lines.
  `OrdersChangeAsSeen` needs `PageInv`, that costs are proposed only for received lines
  and a request that applies them says which it was shown.
- **A new order** (`PurchasingProofs`). `RowsShowTheirOwn`: in `EntryInv` each row knows the
  last question asked for it (`RowInv`), whether its answer is awaited or came, and which
  product and cost it was about; questions of rows that went are answered to nobody
  (`Listens`). What the row shows then is its own estimate or the one it was added with,
  and every step but a removal keeps a row settled on its own. `OneOrderEachForm` assumes
  that no answer is lost (`~Losses`): the request of a new order carries no key.
- **A new product** (`PurchasingProofs`). `ProductsAreAsShown`: `ProductsInv` relates the
  form to the estimate, to the previews under way and to the timer (`PanelInv`), the
  products to their stock and barcodes (`StockedInv`), and the request, of two parts, to
  the product it made (`RequestInv`). It assumes that previews are answered in the order
  they were asked (`InOrder`); `CreateProductForm.tsx:266` in section 9 is why.
- **Administrators** (`PanelProofs`): `AccessHasTypes`. `RecoveryIsKept` and
  `RolesAreSavedAsTicked` rest on `Fresh`, that what a request loaded is still so when it
  decides. That holds when requests are served one at a time, or (for the first) when they
  do not change roles (`Calm`); `rbac/policy.py:99` in section 9 is what happens otherwise.
- **Categories and the menu** (`PanelProofs`). `PanelAlwaysAgrees`: references hold and
  names differ because a commit is checked once more against what is stored then
  (`CategoryConstraints`, `MenuConstraints`), whoever deleted or renamed since the request
  was looked at. That a screen is current when nothing is awaited is promised to those who
  work alone and lost no answer (the histories `alone` and `only`): nobody tells a panel
  what another one changed. `CategoriesInv` and `MenuInv` say why: what the page does not
  show is being read again, or will be when the request under way is answered (`KeepsUp`,
  `Owes`, `MenuKeepsUp`). The second request of a save owes the list what the first one
  wrote. Requests carry what their kind carries (`WellFormed`, `PressFits`), and no change
  of the menu takes the cashier off a tab.
- **What is keyed in** (`EntryProofs`). Lines: `LinesAreAsTaken` rests on `EntryInv`, that
  the prompt and the request under way are of the same article, with its surcharge, and that
  an article that has its line is asked for no more. `QuantitiesAreAsTaken` adds
  `QuantityInv`, that the multiplier is the one pressed since the last article, and assumes
  that none is pressed during a lookup (`Patient`) and that no code is read into a weight
  (`~GunAtHand`): the cases in which the till does otherwise. Codes: `CodesAreReadOnce`, since
  what is gathered is of a code nothing was delivered of (`GatherInv`); `CodesAreWhole`, since
  whatever is within the gap is what the gun has typed of its code (`WholeInv`), as long as
  the screen goes on taking scans (`LastToggle = 0`; the tail of a code is delivered
  otherwise, section 9). Tickets: `EveryCopyAgrees` (`TextsFit`: surfaces and paper carry the
  text the server froze), `DrawerIsForCash` and `TicketsAreAcknowledgedOnce`. That one needs
  `QueueInv`: a surface has one job in the queue at most, none while it offers a retry, and
  no ticket once its ticket was acknowledged. What a job does late at QZ Tray is paper without an
  acknowledgement. Returns: `LinesAreStagedOnce` and `StockIsWhatIsPaidBack`.
- **Sums** (`SumFacts`), which the others cite: the sum of a function over a finite set,
  the operator of the library's module `Functions`, is defined by a recursion; that one
  more term adds it, that a changed term changes the sum by the difference, that sums of
  terms that are not negative grow. Induction on a set is replaced by a set of smallest
  cardinality that would be a counterexample.

The assumptions on constants are `ShopAssumption`, `CheckoutAssumption`, `OutboxAssumption`,
`AlertsAssumption`, `TillAssumption` with `ListAssumption`, and `LotsAssumption`, which are
ASSUMEs of their modules, and `RefundsAssumption`, `StockDeskAssumption`,
`PurchasingAssumption`, `AccessAssumption`, `ClosingAssumption`, `PicturesAssumption`,
`OrderEntryAssumption`, `ProductsAssumption`, `CategoriesAssumption`,
`PosMenuAssumption`, `ScannerAssumption`, `TillEntryAssumption`, `PrintingAssumption` and
`EntryAssumption`, which are hypotheses of the theorems because runs instantiate those
modules several times, and which the MC modules assume of their instances. They say that the values that stand for nothing (`None`, `NoKey`) are not
something, that bounds are numbers, and that the requests served at one time are finitely
many, which a pool of connections is. The other hypotheses (`Calm`, `Patient`, `~GunAtHand`,
`LastToggle = 0`, `OnePicker`, `InOrder`, `~Losses`) are behaviours of users or of the network that the code does not
enforce; each is named above with what happens otherwise.

Only model-checked:

- every liveness property (`EveryRequestEnds`, `WaitsEnd`, `TillComesUp` and the part
  `EveryCodeRead` of `EntryAsAsked`), since the prover has no rules for fairness or
  `ENABLED`. The part `OneOrderPerForm` of `WaitsEnd` is safety, and proved
  (`OneOrderEachForm`);
- the part `WithinTheSale` of `EntryAsAsked`, but for `EachLineOnce`, and the types of
  `RefundEntry`: what a comparison in binary floating point lets through depends on the
  numbers, and the prover knows nothing of powers of 2.

## 11. What is not modelled

The column `status` of `components` in `PROJECT.json` lists every part.

- `pricing`: derived prices are pure functions of decimals and of a formula language with
  its own parser; the panel's estimates are the answer for what was asked, unread.
- `auth`: sessions, sliding expiry and the limiter are guarded changes of single rows;
  hashing is a library's. `settings`, `suppliers`, `audit`: rows that decide nothing in
  the protocols above.
- `dashboards`, `reports`: read-only queries and forms that choose them.
- Templates and the layout of tickets, the formatting of numbers, the appearance of the
  till, tables, filters and pagination: conversions and layout.
- Migrations, scripts, deployment, and the tests, which were read for what they promise.
- Rounding of money: refunds in parts are rounded to six decimals each, and the sum may
  differ from the whole by the last digit; decimals that small are beyond what TLC can
  enumerate together with the protocol. It is listed among neither runs nor theorems.
- More than two tills, clerks or administrators at once are beyond the instances that
  were checked; the theorems of section 10 have no such bound.
