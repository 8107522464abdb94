-------------------------------- MODULE Shop --------------------------------
(***************************************************************************)
(* What the shop's database promises: the sales, returns, stock and Z       *)
(* reports of backend/app/{sales,returns,inventory,pos}, changed one         *)
(* committed transaction at a time.  Checkout.tla shows how concurrent       *)
(* requests, row locks and advisory locks implement it.                      *)
(***************************************************************************)
EXTENDS Integers, FiniteSets, Functions

CONSTANTS
    Sales,              \* ids a sale row may take; none is ever reused
    Products,           \* product ids: integers, since locks are taken in their order
    Tracked,            \* the products under stock control (Product.tracks_stock)
    Warehouses,
    WarehouseOf,        \* [Sales -> Warehouses]: fixed when the sale is created
    Terminals,          \* POS terminals
    TerminalOf,         \* [Sales -> Terminals \cup {NoTerminal}]
    NoTerminal,
    AllowNegativeStock, \* the setting sales.allow_negative_stock
    LastDay,            \* bound: the business days are 0..LastDay
    MaxUnits,           \* bound: units of a product in a cart
    Parts,              \* bound: the quantities a return or a receipt may name
    StockLevels         \* bound: the stock other inventory operations may leave

ASSUME ShopAssumption ==
    /\ Products \subseteq Nat
    /\ Tracked \subseteq Products
    /\ WarehouseOf \in [Sales -> Warehouses]
    /\ TerminalOf \in [Sales -> Terminals \cup {NoTerminal}]
    /\ NoTerminal \notin Terminals
    /\ AllowNegativeStock \in BOOLEAN
    /\ LastDay \in Nat
    /\ MaxUnits \in Nat
    /\ Parts \subseteq [Products -> Nat]
    /\ StockLevels \subseteq Int

VARIABLES
    today,      \* the business day of clock_timestamp()
    active,     \* [Terminals -> BOOLEAN]: PosTerminal.is_active
    status,     \* [Sales -> Statuses]
    cart,       \* [Sales -> [Products -> Nat]]: units on the sale's lines
    number,     \* [Sales -> Nat]: Sale.number, 0 for NULL
    soldOn,     \* [Sales -> Days]: the business day of completed_at
    refunded,   \* [Sales -> [Products -> Nat]]: SaleLine.quantity_refunded
    restocked,  \* [Sales -> [Products -> Nat]]: quantity_physically_returned
    returns,    \* the Return rows, each with its Refund
    stock,      \* [Warehouses -> [Products -> Int]]: stock_balance
    moved,      \* [Warehouses -> [Products -> Int]]: net ledger movements
                \* other than SALE and RETURN
    zreports    \* the final ZReport rows

saleVars == <<status, cart, number, soldOn>>
returnVars == <<refunded, restocked, returns>>
stockVars == <<stock, moved>>
shopVars == <<today, active, saleVars, returnVars, stockVars, zreports>>

Days == 0..LastDay
Statuses == {"ABSENT", "DRAFT", "COMPLETED", "DELETED"}
Units == [Products -> Nat]
Nothing == [p \in Products |-> 0]

ReturnRow == [no: Nat, sale: Sales, day: Days, refund: Units, restock: Units]

ZReport == [warehouse: Warehouses, day: Days, number: Nat,
            sales: SUBSET Sales, refunds: SUBSET ReturnRow]

(* Columns have their types.  (models.py of sales, returns and inventory) *)
ShopTypeOK ==
    /\ today \in Days
    /\ active \in [Terminals -> BOOLEAN]
    /\ status \in [Sales -> Statuses]
    /\ cart \in [Sales -> Units]
    /\ number \in [Sales -> Nat]
    /\ soldOn \in [Sales -> Days]
    /\ refunded \in [Sales -> Units]
    /\ restocked \in [Sales -> Units]
    /\ returns \subseteq ReturnRow
    /\ stock \in [Warehouses -> [Products -> Int]]
    /\ moved \in [Warehouses -> [Products -> Int]]
    /\ zreports \subseteq ZReport

-----------------------------------------------------------------------------
(* What the queries of the services read.                                  *)

Completed == {s \in Sales : status[s] = "COMPLETED"}

CompletedAt(w) == {s \in Completed : WarehouseOf[s] = w}

\* _totals: the completed sales of the window, and the refunds of the window.
SalesOn(w, d) == {s \in CompletedAt(w) : soldOn[s] = d}

RefundsOn(w, d) ==
    {x \in returns : WarehouseOf[x.sale] = w /\ x.day = d /\ x.refund # Nothing}

ZReportsOf(w) == {z \in zreports : z.warehouse = w}

\* assert_business_day_open: the day has no final Z.
DayOpen(w, d) == \A z \in ZReportsOf(w) : z.day # d

\* The greatest of a non-empty finite set of numbers: SELECT max(number).
Greatest(S) == CHOOSE n \in S : \A m \in S : m <= n

HighestNumber == Greatest({0} \cup {number[s] : s \in Completed})

LastZNumber(w) == Greatest({0} \cup {z.number : z \in ZReportsOf(w)})

\* _assert_pos_terminal: a sale without a terminal is not checked.
TerminalUsable(s) ==
    TerminalOf[s] # NoTerminal => active[TerminalOf[s]]

\* Mutant: the status is not read again under the row lock.
Editable_AnyStatus(s) == TerminalUsable(s)

\* A draft whose terminal may still work on it.
Editable(s) == status[s] = "DRAFT" /\ TerminalUsable(s)

\* Mutant: a line of one unit moves no stock.
Leaving_OffByOne(s) == {p \in Tracked : cart[s][p] > 1}

\* Lines that leave the warehouse when the sale is checked out.
Leaving(s) == {p \in Tracked : cart[s][p] > 0}

\* lock_and_get_available_quantity against the line's quantity_base.
Available(s, p) ==
    AllowNegativeStock \/ cart[s][p] <= stock[WarehouseOf[s]][p]

\* Mutant: a request is held against what was sold, not against what is left.
WithinSale_AgainstSold(s, refund, restock) ==
    \A p \in Products : refund[p] <= cart[s][p] /\ restock[p] <= cart[s][p]

\* The capacities create_return validates before it writes anything.
WithinSale(s, refund, restock) ==
    \A p \in Products :
        /\ refunded[s][p] + refund[p] <= cart[s][p]
        /\ restocked[s][p] + restock[p] <= cart[s][p]

-----------------------------------------------------------------------------
(* The rows each committed transaction writes.                             *)

\* Mutant: the sign is lost.
Added_WrongSign(f, g) == [p \in Products |-> f[p] - g[p]]

\* quantity_refunded += ..., quantity_physically_returned += ...
Added(f, g) == [p \in Products |-> f[p] + g[p]]

\* The part of some quantities that is under stock control.
OfTracked(f) == [p \in Products |-> IF p \in Tracked THEN f[p] ELSE 0]

\* Balances of one warehouse after a sale's SALE movements, and after
\* movements that bring tracked units in.
Without(levels, s) ==
    [p \in Products |-> IF p \in Leaving(s) THEN levels[p] - cart[s][p] ELSE levels[p]]

With(levels, units) == [p \in Products |-> levels[p] + OfTracked(units)[p]]

\* checkout: the SALE movements, status, completed_at and number.
SellEffect(s, d, n) ==
    /\ status' = [status EXCEPT ![s] = "COMPLETED"]
    /\ number' = [number EXCEPT ![s] = n]
    /\ soldOn' = [soldOn EXCEPT ![s] = d]
    /\ stock' = [stock EXCEPT ![WarehouseOf[s]] = Without(@, s)]
    /\ UNCHANGED <<today, active, cart, returnVars, moved, zreports>>

\* create_return: the Return row, RETURN movements and both accumulators.
ReturnEffect(s, d, refund, restock) ==
    /\ returns' = returns \cup
          {[no |-> Cardinality(returns) + 1, sale |-> s, day |-> d,
            refund |-> refund, restock |-> restock]}
    /\ refunded' = [refunded EXCEPT ![s] = Added(@, refund)]
    /\ restocked' = [restocked EXCEPT ![s] = Added(@, restock)]
    /\ stock' = [stock EXCEPT ![WarehouseOf[s]] = With(@, restock)]
    /\ UNCHANGED <<today, active, saleVars, moved, zreports>>

\* close: the totals of the day, frozen under the warehouse's next number.
CloseEffect(w, d) ==
    /\ zreports' = zreports \cup
          {[warehouse |-> w, day |-> d, number |-> LastZNumber(w) + 1,
            sales |-> SalesOn(w, d), refunds |-> RefundsOn(w, d)]}
    /\ UNCHANGED <<today, active, saleVars, returnVars, stockVars>>

\* create_goods_receipt: one PURCHASE_RECEIPT movement per tracked line.
ReceiveEffect(w, units) ==
    /\ stock' = [stock EXCEPT ![w] = With(@, units)]
    /\ moved' = [moved EXCEPT ![w] = With(@, units)]
    /\ UNCHANGED <<today, active, saleVars, returnVars, zreports>>

-----------------------------------------------------------------------------
(* Transactions that are one step in Checkout.tla as well: they take at      *)
(* most one row lock after which nothing can stop them.                     *)

\* create_sale
CreateSale(s) ==
    /\ status[s] = "ABSENT"
    /\ TerminalUsable(s)
    /\ status' = [status EXCEPT ![s] = "DRAFT"]
    /\ UNCHANGED <<today, active, cart, number, soldOn, returnVars, stockVars, zreports>>

\* add_line, add_line_by_barcode: a repeated product merges into its line.
AddLine(s, p) ==
    /\ Editable(s)
    /\ cart[s][p] < MaxUnits
    /\ cart' = [cart EXCEPT ![s][p] = @ + 1]
    /\ UNCHANGED <<today, active, status, number, soldOn, returnVars, stockVars, zreports>>

\* remove_line
RemoveLine(s, p) ==
    /\ Editable(s)
    /\ cart[s][p] > 0
    /\ cart' = [cart EXCEPT ![s][p] = 0]
    /\ UNCHANGED <<today, active, status, number, soldOn, returnVars, stockVars, zreports>>

\* cancel_sale deletes the draft and its lines.
CancelSale(s) ==
    /\ Editable(s)
    /\ status' = [status EXCEPT ![s] = "DELETED"]
    /\ cart' = [cart EXCEPT ![s] = Nothing]
    /\ UNCHANGED <<today, active, number, soldOn, returnVars, stockVars, zreports>>

\* update_terminal
SwitchTerminal(t) ==
    /\ active' = [active EXCEPT ![t] = ~@]
    /\ UNCHANGED <<today, saleVars, returnVars, stockVars, zreports>>

\* record_adjustment, set_lot_stock and record_transfer: any other change of one
\* balance.  A signed ADJUSTMENT may leave it negative.
MoveStock(w, p, level) ==
    /\ level # stock[w][p]
    /\ stock' = [stock EXCEPT ![w][p] = level]
    /\ moved' = [moved EXCEPT ![w][p] = @ + (level - stock[w][p])]
    /\ UNCHANGED <<today, active, saleVars, returnVars, zreports>>

\* Midnight in the business timezone.
NewDay ==
    /\ today < LastDay
    /\ today' = today + 1
    /\ UNCHANGED <<active, saleVars, returnVars, stockVars, zreports>>

-----------------------------------------------------------------------------
(* The longer operations, as if each ran alone: a guard speaks of the state *)
(* at the instant the transaction commits.                                  *)

\* The clock was read during the operation, after every earlier sale of the
\* warehouse.
Current(w, d) ==
    /\ d <= today
    /\ \A s \in CompletedAt(w) : soldOn[s] <= d
    /\ \A z \in ZReportsOf(w) : z.day <= d

Sell(s, d) ==
    /\ Editable(s)
    /\ cart[s] # Nothing
    /\ Current(WarehouseOf[s], d)
    /\ DayOpen(WarehouseOf[s], d)
    /\ \A p \in Leaving(s) : Available(s, p)
    /\ SellEffect(s, d, HighestNumber + 1)

GiveBack(s, d, refund, restock) ==
    /\ refund # Nothing \/ restock # Nothing
    /\ status[s] = "COMPLETED"
    /\ Current(WarehouseOf[s], d)
    /\ refund # Nothing => DayOpen(WarehouseOf[s], d)
    /\ WithinSale(s, refund, restock)
    /\ ReturnEffect(s, d, refund, restock)

CloseDay(w, d) ==
    /\ Current(w, d)
    /\ DayOpen(w, d)
    /\ CloseEffect(w, d)

Receive(w, units) == ReceiveEffect(w, units)

ShopInit ==
    /\ today = 0
    /\ active = [t \in Terminals |-> TRUE]
    /\ status = [s \in Sales |-> "ABSENT"]
    /\ cart = [s \in Sales |-> Nothing]
    /\ number = [s \in Sales |-> 0]
    /\ soldOn = [s \in Sales |-> 0]
    /\ refunded = [s \in Sales |-> Nothing]
    /\ restocked = [s \in Sales |-> Nothing]
    /\ returns = {}
    /\ stock = [w \in Warehouses |-> Nothing]
    /\ moved = [w \in Warehouses |-> Nothing]
    /\ zreports = {}

ShopNext ==
    \/ \E s \in Sales : CreateSale(s) \/ CancelSale(s)
    \/ \E s \in Sales, p \in Products : AddLine(s, p) \/ RemoveLine(s, p)
    \/ \E t \in Terminals : SwitchTerminal(t)
    \/ \E w \in Warehouses, p \in Products, level \in StockLevels : MoveStock(w, p, level)
    \/ NewDay
    \/ \E s \in Sales, d \in Days : Sell(s, d)
    \/ \E s \in Sales, d \in Days, refund, restock \in Parts :
            GiveBack(s, d, refund, restock)
    \/ \E w \in Warehouses, d \in Days : CloseDay(w, d)
    \/ \E w \in Warehouses, units \in Parts : Receive(w, units)

ShopSpec == ShopInit /\ [][ShopNext]_shopVars

-----------------------------------------------------------------------------
(* Properties.                                                             *)

(* The ticket numbers of the completed sales are 1, 2, ..., n over all the  *)
(* warehouses: none is skipped by a rollback, none is given twice.          *)
(* (_next_sale_number)                                                      *)
SaleNumbersGapless ==
    /\ \A s \in Completed :
          /\ number[s] > 0
          /\ \A n \in 1..number[s] : \E t \in Completed : number[t] = n
    /\ \A s, t \in Completed : number[s] = number[t] => s = t

(* In one warehouse a later ticket never carries an earlier business day,   *)
(* although the clock is read long before the number is drawn.              *)
NumbersFollowDays ==
    \A s, t \in Completed :
        WarehouseOf[s] = WarehouseOf[t] /\ number[s] < number[t]
            => soldOn[s] <= soldOn[t]

(* A final Z holds exactly the sales and the economic refunds of its day,   *)
(* now and for ever: none was in flight when it closed, none comes later.   *)
(* (z_reports.close, assert_business_day_open)                              *)
ZCoversItsDay ==
    \A z \in zreports :
        /\ z.sales = SalesOn(z.warehouse, z.day)
        /\ z.refunds = RefundsOn(z.warehouse, z.day)

(* The Z numbers of a warehouse are consecutive and in the order of the     *)
(* days they close, one Z to a day.  (z_reports.close)                        *)
ZNumbersFollowDays ==
    \A w \in Warehouses :
        /\ {z.number : z \in ZReportsOf(w)} = 1..Cardinality(ZReportsOf(w))
        /\ \A y, z \in ZReportsOf(w) : y.number < z.number <=> y.day < z.day

(* Whatever returns race, a line is never refunded nor put back on the      *)
(* shelf beyond what was sold.  (create_return, _apply_return_line)         *)
ReturnsWithinSale ==
    \A s \in Sales, p \in Products :
        /\ refunded[s][p] <= cart[s][p]
        /\ restocked[s][p] <= cart[s][p]

ReturnsOf(s) == {x \in returns : x.sale = s}

(* The accumulators of the sale lines agree with the Return rows.           *)
ReturnsAddUp ==
    \A s \in Sales, p \in Products :
        /\ refunded[s][p] = SumFunction([x \in ReturnsOf(s) |-> x.refund[p]])
        /\ restocked[s][p] = SumFunction([x \in ReturnsOf(s) |-> x.restock[p]])

(* The balance is what the documents say: the other movements, less what    *)
(* completed sales took, plus what their returns brought back -- so no sale *)
(* or return moved stock twice, or without completing.                      *)
StockAddsUp ==
    \A w \in Warehouses, p \in Tracked :
        stock[w][p] = moved[w][p]
            - SumFunction([s \in CompletedAt(w) |-> cart[s][p] - restocked[s][p]])

(* What the documents say is what there is.                                 *)
BooksAddUp == ReturnsAddUp /\ StockAddsUp /\ ZNumbersFollowDays

Sold(s) == status[s] = "DRAFT" /\ status'[s] = "COMPLETED"

(* Unless the setting allows it, no checkout leaves a balance below zero,   *)
(* however many tills sell the same product.  (checkout, rule 5)            *)
NeverOversells ==
    [][~AllowNegativeStock =>
        \A s \in Sales : Sold(s) =>
            \A p \in Leaving(s) : stock'[WarehouseOf[s]][p] >= 0]_shopVars

(* A sale is never completed on a terminal that was switched off before.    *)
(* (_assert_pos_terminal holds the terminal row until the commit)           *)
SoldAtActiveTerminal ==
    [][\A s \in Sales : Sold(s) => TerminalUsable(s)]_shopVars

(* A completed sale, a return and a Z are never rewritten, only added to.   *)
HistoryIsFinal ==
    [][/\ \A s \in Completed :
             /\ status'[s] = "COMPLETED"
             /\ cart'[s] = cart[s] /\ number'[s] = number[s] /\ soldOn'[s] = soldOn[s]
       /\ returns \subseteq returns'
       /\ zreports \subseteq zreports']_shopVars

=============================================================================
