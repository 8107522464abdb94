--------------------------- MODULE CheckoutProofs ---------------------------
(***************************************************************************)
(* The shop and the requests that work on it, for any number of requests,    *)
(* sales, products, warehouses and days.  First what one transaction after   *)
(* another can make of the shop: proofs about ShopSpec.  Then the locks of   *)
(* Checkout.tla do their work: every concurrent execution is one of          *)
(* Shop.tla, where each transaction runs alone.                              *)
(***************************************************************************)
EXTENDS Checkout, SumFacts


-----------------------------------------------------------------------------
(* The numbers of sales and of Z reports.                                   *)

Numbers == {number[s] : s \in Completed}
ZNumbers(w) == {z.number : z \in ZReportsOf(w)}

LEMMA GreatestUpTo ==
    ASSUME NEW n \in Nat
    PROVE  Greatest({0} \cup 1..n) = n
<1> DEFINE S == {0} \cup 1..n
<1>1. n \in S /\ \A m \in S : m <= n
  OBVIOUS
<1>2. \A x \in S : (\A m \in S : m <= x) => x = n
  BY <1>1
<1>3. QED
  BY <1>1, <1>2 DEF Greatest

NumbersDense == \E n \in Nat : Numbers = 1..n
ZNumbersDense == \A w \in Warehouses : \E n \in Nat : ZNumbers(w) = 1..n

LEMMA HighestIsLength ==
    ASSUME NEW n \in Nat, Numbers = 1..n
    PROVE  HighestNumber = n
BY GreatestUpTo DEF HighestNumber, Numbers

LEMMA LastZIsLength ==
    ASSUME NEW n \in Nat, NEW w \in Warehouses, ZNumbers(w) = 1..n
    PROVE  LastZNumber(w) = n
BY GreatestUpTo DEF LastZNumber, ZNumbers

(* Goods that come in leave a balance for every product.                   *)
LEMMA BalanceTypes ==
    ASSUME NEW levels \in [Products -> Int], NEW f \in Parts
    PROVE  With(levels, f) \in [Products -> Int]
<1>1. f \in [Products -> Nat]
  BY ShopAssumption
<1>2. OfTracked(f) \in [Products -> Int]
  BY <1>1 DEF OfTracked
<1>3. QED
  BY <1>2 DEF With

LEMMA SellTypes ==
    ASSUME ShopTypeOK, NEW s \in Sales, NEW d \in Days, NEW n \in Nat, SellEffect(s, d, n)
    PROVE  ShopTypeOK'
<1>1. WarehouseOf[s] \in Warehouses
  BY ShopAssumption
<1>2. stock' \in [Warehouses -> [Products -> Int]]
  <2>1. stock[WarehouseOf[s]] \in [Products -> Int]
    BY <1>1 DEF ShopTypeOK
  <2>2. Without(stock[WarehouseOf[s]], s) \in [Products -> Int]
    <3>1. cart[s] \in [Products -> Nat]
      BY DEF ShopTypeOK, Units
    <3>2. QED
      BY <2>1, <3>1 DEF Without
  <2>3. QED
    BY <2>2 DEF SellEffect, ShopTypeOK
<1>3. QED
  BY <1>2 DEF SellEffect, ShopTypeOK, returnVars, Statuses

LEMMA ReturnTypes ==
    ASSUME ShopTypeOK, IsFiniteSet(returns), NEW s \in Sales, NEW d \in Days,
           NEW f \in Parts, NEW g \in Parts, ReturnEffect(s, d, f, g)
    PROVE  ShopTypeOK' /\ IsFiniteSet(returns)'
<1> DEFINE row == [no |-> Cardinality(returns) + 1, sale |-> s, day |-> d,
                   refund |-> f, restock |-> g]
<1>1. f \in Units /\ g \in Units
  BY ShopAssumption DEF Units
<1>2. row \in ReturnRow
  BY <1>1, FS_CardinalityType DEF ReturnRow
<1>3. returns' = returns \cup {row} /\ IsFiniteSet(returns')
  BY FS_AddElement DEF ReturnEffect
<1>4. Added(refunded[s], f) \in Units /\ Added(restocked[s], g) \in Units
  BY <1>1 DEF Added, Units, ShopTypeOK
<1>5. stock' \in [Warehouses -> [Products -> Int]]
  <2>1. stock[WarehouseOf[s]] \in [Products -> Int]
    BY ShopAssumption DEF ShopTypeOK
  <2>2. QED
    BY <2>1, BalanceTypes DEF ReturnEffect, ShopTypeOK
<1>6. refunded' \in [Sales -> Units] /\ restocked' \in [Sales -> Units]
  BY <1>4 DEF ReturnEffect, ShopTypeOK
<1>7. QED
  BY <1>2, <1>3, <1>5, <1>6 DEF ReturnEffect, ShopTypeOK, saleVars

LEMMA CloseTypes ==
    ASSUME ShopTypeOK, ZNumbersDense, NEW w \in Warehouses, NEW d \in Days, CloseEffect(w, d)
    PROVE  ShopTypeOK'
<1>1. LastZNumber(w) \in Nat
  BY LastZIsLength DEF ZNumbersDense
<1>2. SalesOn(w, d) \subseteq Sales /\ RefundsOn(w, d) \subseteq ReturnRow
  BY DEF SalesOn, CompletedAt, Completed, RefundsOn, ShopTypeOK
<1>3. QED
  BY <1>1, <1>2 DEF CloseEffect, ShopTypeOK, ZReport, saleVars, returnVars, stockVars

LEMMA ReceiveTypes ==
    ASSUME ShopTypeOK, NEW w \in Warehouses, NEW f \in Parts, ReceiveEffect(w, f)
    PROVE  ShopTypeOK'
<1>1. With(stock[w], f) \in [Products -> Int] /\ With(moved[w], f) \in [Products -> Int]
  <2>1. stock[w] \in [Products -> Int] /\ moved[w] \in [Products -> Int]
    BY DEF ShopTypeOK
  <2>2. QED
    BY <2>1, BalanceTypes
<1>2. QED
  BY <1>1 DEF ReceiveEffect, ShopTypeOK, saleVars, returnVars

LEMMA DraftTypes ==
    ASSUME ShopTypeOK, NEW s \in Sales,
           \/ CreateSale(s) \/ CancelSale(s)
           \/ \E p \in Products : AddLine(s, p) \/ RemoveLine(s, p)
    PROVE  ShopTypeOK'
<1> USE DEF ShopTypeOK, saleVars, returnVars, stockVars, Statuses, Units, Nothing
<1>1. CASE CreateSale(s)
  BY <1>1 DEF CreateSale
<1>2. CASE CancelSale(s)
  BY <1>2 DEF CancelSale
<1>3. ASSUME NEW p \in Products, AddLine(s, p) PROVE ShopTypeOK'
  BY <1>3 DEF AddLine
<1>4. ASSUME NEW p \in Products, RemoveLine(s, p) PROVE ShopTypeOK'
  BY <1>4 DEF RemoveLine
<1>5. QED
  BY <1>1, <1>2, <1>3, <1>4

-----------------------------------------------------------------------------
(* The inductive invariant.                                                *)

DistinctNumbers == \A s, t \in Completed : number[s] = number[t] => s = t

\* No document is dated in the future.
NothingAhead ==
    /\ \A s \in Completed : soldOn[s] <= today
    /\ \A z \in zreports : z.day <= today

\* Only a completed sale has returns.
ReturnsOnlyCompleted ==
    \A s \in Sales \ Completed : refunded[s] = Nothing /\ restocked[s] = Nothing

ShopInv ==
    /\ ShopTypeOK
    /\ IsFiniteSet(returns)
    /\ NumbersDense
    /\ DistinctNumbers
    /\ ZNumbersDense
    /\ NothingAhead
    /\ ReturnsOnlyCompleted
    /\ ReturnsWithinSale
    /\ ZCoversItsDay
    /\ NumbersFollowDays

LEMMA ShopInitInv == ShopInit => ShopInv
<1> SUFFICES ASSUME ShopInit PROVE ShopInv
  OBVIOUS
<1> USE DEF ShopInit
<1>1. Completed = {}
  BY DEF Completed
<1>2. Nothing \in Units
  BY DEF Nothing, Units
<1>3. ShopTypeOK
  BY <1>2, ShopAssumption DEF ShopTypeOK, Days, Statuses, Units
<1>4. IsFiniteSet(returns)
  BY FS_EmptySet
<1>5. Numbers = 1..0 /\ \A w \in Warehouses : ZNumbers(w) = 1..0
  BY <1>1 DEF Numbers, ZNumbers, ZReportsOf
<1>6. NumbersDense /\ ZNumbersDense
  BY <1>5 DEF NumbersDense, ZNumbersDense
<1>7. ReturnsWithinSale
  BY DEF ReturnsWithinSale, Nothing
<1>8. QED
  BY <1>1, <1>3, <1>4, <1>6, <1>7 DEF ShopInv, DistinctNumbers, NothingAhead,
     ReturnsOnlyCompleted, ZCoversItsDay, NumbersFollowDays

(* A step that writes no sale number, return or Z and edits only drafts.    *)
LEMMA EditKeepsInv ==
    ASSUME ShopInv, ShopTypeOK',
           UNCHANGED <<number, soldOn, returnVars, zreports>>,
           Completed' = Completed,
           \A s \in Completed : cart'[s] = cart[s],
           today <= today'
    PROVE  ShopInv'
<1> USE DEF ShopInv, returnVars
<1>1. IsFiniteSet(returns)'
  OBVIOUS
<1>2. Numbers' = Numbers /\ DistinctNumbers'
  BY DEF Numbers, DistinctNumbers
<1>3. NumbersDense' /\ ZNumbersDense'
  BY <1>2 DEF NumbersDense, ZNumbersDense, ZNumbers, ZReportsOf
<1>4. NothingAhead'
  <2>1. today \in Int /\ today' \in Int
    BY DEF ShopTypeOK, Days
  <2>2. \A s \in Completed : soldOn[s] \in Int
    BY DEF ShopTypeOK, Days, Completed
  <2>3. \A z \in zreports : z.day \in Int
    BY DEF ShopTypeOK, Days, ZReport
  <2>4. QED
    BY <2>1, <2>2, <2>3 DEF NothingAhead
<1>5. ReturnsOnlyCompleted'
  BY DEF ReturnsOnlyCompleted, Nothing
<1>6. ReturnsWithinSale'
  <2> SUFFICES ASSUME NEW s \in Sales, NEW p \in Products
               PROVE  refunded'[s][p] <= cart'[s][p] /\ restocked'[s][p] <= cart'[s][p]
    BY DEF ReturnsWithinSale
  <2>1. CASE s \in Completed
    BY <2>1 DEF ReturnsWithinSale
  <2>2. CASE s \notin Completed
    BY <2>2 DEF ReturnsOnlyCompleted, Nothing, ShopTypeOK, Units
  <2>3. QED
    BY <2>1, <2>2
<1>7. ZCoversItsDay'
  BY DEF ZCoversItsDay, SalesOn, CompletedAt, RefundsOn, Nothing
<1>8. NumbersFollowDays'
  BY DEF NumbersFollowDays
<1>9. QED
  BY <1>1, <1>2, <1>3, <1>4, <1>5, <1>6, <1>7, <1>8

LEMMA SellKeepsInv ==
    ASSUME ShopInv, NEW s \in Sales, NEW d \in Days, Sell(s, d)
    PROVE  ShopInv'
<1> USE DEF ShopInv
<1> DEFINE w == WarehouseOf[s]
<1>1. PICK n \in Nat : Numbers = 1..n
  BY DEF NumbersDense
<1>2. SellEffect(s, d, n + 1)
  BY <1>1, HighestIsLength DEF Sell
<1>3. s \notin Completed /\ Completed' = Completed \cup {s}
  BY <1>2 DEF Sell, Editable, SellEffect, Completed, ShopTypeOK
<1>4. /\ number'[s] = n + 1
      /\ soldOn'[s] = d
      /\ \A t \in Completed : number'[t] = number[t] /\ soldOn'[t] = soldOn[t]
  BY <1>2, <1>3 DEF SellEffect, ShopTypeOK, Completed
<1>5. UNCHANGED <<today, cart, refunded, restocked, returns, zreports>>
  BY <1>2 DEF SellEffect, returnVars
<1>6. ShopTypeOK' /\ IsFiniteSet(returns)'
  BY <1>2, <1>5, SellTypes
<1>7. \A t \in Completed : number[t] \in 1..n
  BY <1>1 DEF Numbers
<1>8. NumbersDense'
  <2>1. Numbers' = Numbers \cup {n + 1}
    BY <1>3, <1>4 DEF Numbers
  <2>2. Numbers' = 1..(n + 1)
    BY <1>1, <2>1
  <2>3. QED
    BY <2>2 DEF NumbersDense
<1>9. DistinctNumbers'
  <2> SUFFICES ASSUME NEW t \in Completed', NEW u \in Completed', number'[t] = number'[u]
               PROVE  t = u
    BY DEF DistinctNumbers
  <2>1. CASE t \in Completed /\ u \in Completed
    BY <1>4, <2>1 DEF DistinctNumbers
  <2>2. CASE t = s \/ u = s
    BY <1>3, <1>4, <1>7, <2>2
  <2>3. QED
    BY <1>3, <2>1, <2>2
<1>10. ZNumbersDense'
  BY <1>5 DEF ZNumbersDense, ZNumbers, ZReportsOf
<1>11. NothingAhead'
  BY <1>3, <1>4, <1>5 DEF NothingAhead, Sell, Current
<1>12. ReturnsOnlyCompleted'
  BY <1>3, <1>5 DEF ReturnsOnlyCompleted, Nothing
<1>13. ReturnsWithinSale'
  BY <1>5 DEF ReturnsWithinSale
<1>14. ZCoversItsDay'
  <2> SUFFICES ASSUME NEW z \in zreports
               PROVE  /\ z.sales = SalesOn(z.warehouse, z.day)'
                      /\ z.refunds = RefundsOn(z.warehouse, z.day)'
    BY <1>5 DEF ZCoversItsDay
  <2>1. z.warehouse # w \/ z.day # d
    BY DEF Sell, DayOpen, ZReportsOf
  <2>2. SalesOn(z.warehouse, z.day)' = SalesOn(z.warehouse, z.day)
    BY <1>3, <1>4, <2>1 DEF SalesOn, CompletedAt
  <2>3. RefundsOn(z.warehouse, z.day)' = RefundsOn(z.warehouse, z.day)
    BY <1>5 DEF RefundsOn, Nothing
  <2>4. QED
    BY <2>2, <2>3 DEF ZCoversItsDay
<1>15. NumbersFollowDays'
  <2> SUFFICES ASSUME NEW t \in Completed', NEW u \in Completed',
                      WarehouseOf[t] = WarehouseOf[u], number'[t] < number'[u]
               PROVE  soldOn'[t] <= soldOn'[u]
    BY DEF NumbersFollowDays
  <2>1. CASE t \in Completed /\ u \in Completed
    BY <1>4, <2>1 DEF NumbersFollowDays
  <2>2. CASE t = s
    BY <1>3, <1>4, <1>7, <2>2
  <2>3. CASE u = s /\ t \in Completed
    BY <1>4, <2>3 DEF Sell, Current, CompletedAt
  <2>4. QED
    BY <1>3, <2>1, <2>2, <2>3
<1>16. QED
  BY <1>6, <1>8, <1>9, <1>10, <1>11, <1>12, <1>13, <1>14, <1>15

LEMMA GiveBackKeepsInv ==
    ASSUME ShopInv, NEW s \in Sales, NEW d \in Days, NEW f \in Parts, NEW g \in Parts,
           GiveBack(s, d, f, g)
    PROVE  ShopInv'
<1> USE DEF ShopInv
<1> DEFINE row == [no |-> Cardinality(returns) + 1, sale |-> s, day |-> d,
                   refund |-> f, restock |-> g]
<1>1. ReturnEffect(s, d, f, g)
  BY DEF GiveBack
<1>2. /\ UNCHANGED <<today, status, cart, number, soldOn, zreports>>
      /\ returns' = returns \cup {row}
      /\ refunded' = [refunded EXCEPT ![s] = Added(refunded[s], f)]
      /\ restocked' = [restocked EXCEPT ![s] = Added(restocked[s], g)]
  BY <1>1 DEF ReturnEffect, saleVars
<1>3. ShopTypeOK' /\ IsFiniteSet(returns)'
  BY <1>1, ReturnTypes
<1>4. s \in Completed /\ Completed' = Completed
  BY <1>2 DEF Completed, GiveBack
<1>5. NumbersDense' /\ DistinctNumbers' /\ ZNumbersDense' /\ NothingAhead' /\ NumbersFollowDays'
  <2>1. Numbers' = Numbers /\ \A w \in Warehouses : ZNumbers(w)' = ZNumbers(w)
    BY <1>2, <1>4 DEF Numbers, ZNumbers, ZReportsOf
  <2>2. NumbersDense' /\ ZNumbersDense'
    BY <2>1 DEF NumbersDense, ZNumbersDense
  <2>3. QED
    BY <1>2, <1>4, <2>2 DEF DistinctNumbers, NothingAhead, NumbersFollowDays
<1>6. ReturnsOnlyCompleted'
  BY <1>2, <1>4 DEF ReturnsOnlyCompleted, Nothing, ShopTypeOK
<1>7. ReturnsWithinSale'
  <2> SUFFICES ASSUME NEW t \in Sales, NEW p \in Products
               PROVE  refunded'[t][p] <= cart'[t][p] /\ restocked'[t][p] <= cart'[t][p]
    BY DEF ReturnsWithinSale
  <2>1. CASE t = s
    <3>1. refunded'[s][p] = refunded[s][p] + f[p] /\ restocked'[s][p] = restocked[s][p] + g[p]
      BY <1>2 DEF Added, ShopTypeOK
    <3>2. QED
      BY <1>2, <2>1, <3>1 DEF GiveBack, WithinSale
  <2>2. CASE t # s
    BY <1>2, <2>2 DEF ReturnsWithinSale, ShopTypeOK
  <2>3. QED
    BY <2>1, <2>2
<1>8. ZCoversItsDay'
  <2> SUFFICES ASSUME NEW z \in zreports
               PROVE  /\ z.sales = SalesOn(z.warehouse, z.day)'
                      /\ z.refunds = RefundsOn(z.warehouse, z.day)'
    BY <1>2 DEF ZCoversItsDay
  <2>1. SalesOn(z.warehouse, z.day)' = SalesOn(z.warehouse, z.day)
    BY <1>2, <1>4 DEF SalesOn, CompletedAt
  <2>2. f # Nothing => z.warehouse # WarehouseOf[s] \/ z.day # d
    BY DEF GiveBack, DayOpen, ZReportsOf
  <2>3. RefundsOn(z.warehouse, z.day)' = RefundsOn(z.warehouse, z.day)
    BY <1>2, <2>2 DEF RefundsOn, Nothing
  <2>4. QED
    BY <2>1, <2>3 DEF ZCoversItsDay
<1>9. QED
  BY <1>3, <1>5, <1>6, <1>7, <1>8

LEMMA CloseKeepsInv ==
    ASSUME ShopInv, NEW w \in Warehouses, NEW d \in Days, CloseDay(w, d)
    PROVE  ShopInv'
<1> USE DEF ShopInv
<1>1. PICK n \in Nat : ZNumbers(w) = 1..n
  BY DEF ZNumbersDense
<1> DEFINE z == [warehouse |-> w, day |-> d, number |-> n + 1,
                 sales |-> SalesOn(w, d), refunds |-> RefundsOn(w, d)]
<1>2. /\ zreports' = zreports \cup {z}
      /\ UNCHANGED <<today, status, cart, number, soldOn, refunded, restocked, returns>>
  BY <1>1, LastZIsLength DEF CloseDay, CloseEffect, saleVars, returnVars
<1>3. ShopTypeOK' /\ IsFiniteSet(returns)'
  BY <1>2, CloseTypes DEF CloseDay
<1>4. Completed' = Completed
  BY <1>2 DEF Completed
<1>5. NumbersDense' /\ DistinctNumbers' /\ NumbersFollowDays'
  BY <1>2, <1>4 DEF NumbersDense, Numbers, DistinctNumbers, NumbersFollowDays
<1>6. ReturnsOnlyCompleted' /\ ReturnsWithinSale'
  BY <1>2, <1>4 DEF ReturnsOnlyCompleted, ReturnsWithinSale, Nothing
<1>7. ZNumbersDense'
  <2> SUFFICES ASSUME NEW v \in Warehouses
               PROVE  \E m \in Nat : ZNumbers(v)' = 1..m
    BY DEF ZNumbersDense
  <2>1. CASE v = w
    <3>1. z.warehouse = w /\ z.number = n + 1
      OBVIOUS
    <3>2. ZReportsOf(w)' = ZReportsOf(w) \cup {z}
      <4> HIDE DEF z
      <4> QED
        BY <1>2, <3>1 DEF ZReportsOf
    <3>3. ZNumbers(w)' = ZNumbers(w) \cup {n + 1}
      <4> HIDE DEF z
      <4> QED
        BY <3>1, <3>2 DEF ZNumbers
    <3>4. ZNumbers(w)' = 1..(n + 1)
      BY <1>1, <3>3
    <3>5. QED
      BY <2>1, <3>4
  <2>2. CASE v # w
    <3>1. ZNumbers(v)' = ZNumbers(v)
      BY <1>2, <2>2 DEF ZNumbers, ZReportsOf
    <3>2. QED
      BY <3>1 DEF ZNumbersDense
  <2>3. QED
    BY <2>1, <2>2
<1>8. NothingAhead'
  BY <1>2, <1>4 DEF NothingAhead, CloseDay, Current
<1>9. ZCoversItsDay'
  <2> SUFFICES ASSUME NEW y \in zreports'
               PROVE  /\ y.sales = SalesOn(y.warehouse, y.day)'
                      /\ y.refunds = RefundsOn(y.warehouse, y.day)'
    BY DEF ZCoversItsDay
  <2>1. \A v, e : SalesOn(v, e)' = SalesOn(v, e) /\ RefundsOn(v, e)' = RefundsOn(v, e)
    BY <1>2, <1>4 DEF SalesOn, CompletedAt, RefundsOn, Nothing
  <2>2. CASE y \in zreports
    BY <2>1, <2>2 DEF ZCoversItsDay
  <2>3. CASE y = z
    BY <2>1, <2>3
  <2>4. QED
    BY <1>2, <2>2, <2>3
<1>10. QED
  BY <1>3, <1>5, <1>6, <1>7, <1>8, <1>9

(* What an edit of a draft leaves of the completed sales.                  *)
LEMMA DraftKeepsInv ==
    ASSUME ShopInv, NEW s \in Sales,
           \/ CreateSale(s) \/ CancelSale(s)
           \/ \E p \in Products : AddLine(s, p) \/ RemoveLine(s, p)
    PROVE  ShopInv'
<1>1. ShopTypeOK
  BY DEF ShopInv
<1>2. ShopTypeOK'
  BY <1>1, DraftTypes
<1>3. UNCHANGED <<number, soldOn, returnVars, zreports, today>>
  BY DEF CreateSale, CancelSale, AddLine, RemoveLine
<1>4. /\ status[s] \in {"ABSENT", "DRAFT"}
      /\ status'[s] \in {"DRAFT", "DELETED"}
      /\ \A t \in Sales \ {s} : status'[t] = status[t] /\ cart'[t] = cart[t]
  BY <1>1 DEF CreateSale, CancelSale, AddLine, RemoveLine, Editable, ShopTypeOK, Statuses
<1>5. Completed' = Completed /\ \A t \in Completed : cart'[t] = cart[t]
  BY <1>4 DEF Completed
<1>6. today <= today'
  BY <1>1, <1>3 DEF ShopTypeOK, Days
<1>7. QED
  BY <1>2, <1>3, <1>5, <1>6, EditKeepsInv

-----------------------------------------------------------------------------
(* Every transaction keeps the invariant.                                  *)

LEMMA ShopStepKeepsInv == ShopInv /\ [ShopNext]_shopVars => ShopInv'
<1> SUFFICES ASSUME ShopInv, [ShopNext]_shopVars PROVE ShopInv'
  OBVIOUS
<1>1. ShopTypeOK /\ today \in Int
  BY DEF ShopInv, ShopTypeOK, Days
<1>2. ASSUME NEW s \in Sales, CreateSale(s) \/ CancelSale(s) PROVE ShopInv'
  BY <1>2, DraftKeepsInv
<1>3. ASSUME NEW s \in Sales, NEW p \in Products, AddLine(s, p) \/ RemoveLine(s, p)
      PROVE  ShopInv'
  BY <1>3, DraftKeepsInv
<1>4. ASSUME NEW t \in Terminals, SwitchTerminal(t) PROVE ShopInv'
  <2>1. ShopTypeOK'
    BY <1>1, <1>4 DEF SwitchTerminal, ShopTypeOK, saleVars, returnVars, stockVars
  <2>2. QED
    BY <1>1, <1>4, <2>1, EditKeepsInv DEF SwitchTerminal, saleVars, Completed
<1>5. ASSUME NEW w \in Warehouses, NEW p \in Products, NEW level \in StockLevels,
             MoveStock(w, p, level)
      PROVE  ShopInv'
  <2>1. level \in Int /\ stock[w][p] \in Int
    BY <1>1, ShopAssumption DEF ShopTypeOK
  <2>2. ShopTypeOK'
    BY <1>1, <1>5, <2>1 DEF MoveStock, ShopTypeOK, saleVars, returnVars
  <2>3. QED
    BY <1>1, <1>5, <2>2, EditKeepsInv DEF MoveStock, saleVars, Completed
<1>6. CASE NewDay
  <2>1. ShopTypeOK'
    BY <1>1, <1>6, ShopAssumption
       DEF NewDay, ShopTypeOK, Days, saleVars, returnVars, stockVars
  <2>2. QED
    BY <1>1, <1>6, <2>1, EditKeepsInv DEF NewDay, saleVars, Completed
<1>7. ASSUME NEW s \in Sales, NEW d \in Days, Sell(s, d) PROVE ShopInv'
  BY <1>7, SellKeepsInv
<1>8. ASSUME NEW s \in Sales, NEW d \in Days, NEW f \in Parts, NEW g \in Parts,
             GiveBack(s, d, f, g)
      PROVE  ShopInv'
  BY <1>8, GiveBackKeepsInv
<1>9. ASSUME NEW w \in Warehouses, NEW d \in Days, CloseDay(w, d) PROVE ShopInv'
  BY <1>9, CloseKeepsInv
<1>10. ASSUME NEW w \in Warehouses, NEW units \in Parts, Receive(w, units) PROVE ShopInv'
  <2>1. ShopTypeOK'
    BY <1>1, <1>10, ReceiveTypes DEF Receive
  <2>2. QED
    BY <1>1, <1>10, <2>1, EditKeepsInv DEF Receive, ReceiveEffect, saleVars, Completed
<1>11. CASE UNCHANGED shopVars
  <2>1. ShopTypeOK'
    BY <1>1, <1>11 DEF ShopTypeOK, shopVars, saleVars, returnVars, stockVars
  <2>2. QED
    BY <1>1, <1>11, <2>1, EditKeepsInv DEF shopVars, saleVars, Completed
<1>12. QED
  BY <1>2, <1>3, <1>4, <1>5, <1>6, <1>7, <1>8, <1>9, <1>10, <1>11 DEF ShopNext

(* The inductive invariant holds in every state of the shop.               *)
THEOREM ShopInvariant == ShopSpec => []ShopInv
<1>1. ShopInit => ShopInv
  BY ShopInitInv
<1>2. ShopInv /\ [ShopNext]_shopVars => ShopInv'
  BY ShopStepKeepsInv
<1>3. QED
  BY <1>1, <1>2, PTL DEF ShopSpec

LEMMA NumbersGapless ==
    ASSUME ShopInv
    PROVE  SaleNumbersGapless
<1>1. PICK n \in Nat : Numbers = 1..n
  BY DEF ShopInv, NumbersDense
<1>2. ASSUME NEW s \in Completed
      PROVE  number[s] > 0 /\ \A m \in 1..number[s] : \E t \in Completed : number[t] = m
  <2>1. number[s] \in 1..n
    BY <1>1 DEF Numbers
  <2>2. \A m \in 1..number[s] : m \in Numbers
    BY <1>1, <2>1
  <2>3. QED
    BY <2>1, <2>2 DEF Numbers
<1>3. QED
  BY <1>2 DEF SaleNumbersGapless, ShopInv, DistinctNumbers

(* Ticket numbers have no gap and no duplicate, for any number of sales.    *)
THEOREM GaplessNumbers == ShopSpec => []SaleNumbersGapless
BY ShopInvariant, NumbersGapless, PTL

(* A final Z holds its day's sales and refunds for ever.                    *)
THEOREM ZIsComplete == ShopSpec => []ZCoversItsDay
<1>1. ShopInv => ZCoversItsDay
  BY DEF ShopInv
<1>2. QED
  BY <1>1, ShopInvariant, PTL

(* Nothing is given back beyond what was sold.                             *)
THEOREM ReturnsBounded == ShopSpec => []ReturnsWithinSale
<1>1. ShopInv => ReturnsWithinSale
  BY DEF ShopInv
<1>2. QED
  BY <1>1, ShopInvariant, PTL

(* In one warehouse ticket numbers follow the business days.               *)
THEOREM NumbersInOrder == ShopSpec => []NumbersFollowDays
<1>1. ShopInv => NumbersFollowDays
  BY DEF ShopInv
<1>2. QED
  BY <1>1, ShopInvariant, PTL

-----------------------------------------------------------------------------
(* What a step may never do.                                               *)

(* A draft becomes a completed sale by Sell and by nothing else.            *)
LEMMA OnlySellSells ==
    ASSUME ShopTypeOK, [ShopNext]_shopVars, NEW s \in Sales, Sold(s)
    PROVE  \E d \in Days : Sell(s, d)
<1>1. status[s] = "DRAFT" /\ status'[s] = "COMPLETED" /\ status \in [Sales -> Statuses]
  BY DEF Sold, ShopTypeOK
<1>2. ASSUME NEW t \in Sales, CreateSale(t) \/ CancelSale(t) PROVE FALSE
  BY <1>1, <1>2 DEF CreateSale, CancelSale
<1>3. ASSUME NEW t \in Sales, NEW p \in Products, AddLine(t, p) \/ RemoveLine(t, p)
      PROVE  FALSE
  BY <1>1, <1>3 DEF AddLine, RemoveLine
<1>4. ASSUME NEW t \in Sales, NEW d \in Days, Sell(t, d) PROVE t = s
  BY <1>1, <1>4 DEF Sell, SellEffect
<1>5. status' # status
  BY <1>1
<1>6. ~UNCHANGED saleVars
  BY <1>5 DEF saleVars
<1>7. QED
  BY <1>2, <1>3, <1>4, <1>6
     DEF ShopNext, shopVars, SwitchTerminal, MoveStock, NewDay, GiveBack, ReturnEffect,
         CloseDay, CloseEffect, Receive, ReceiveEffect, saleVars

(* No checkout leaves a balance below zero unless the shop allows it.       *)
THEOREM NoSaleOversells == ShopSpec => NeverOversells
<1> DEFINE Kept == ~AllowNegativeStock =>
               \A s \in Sales : Sold(s) =>
                   \A p \in Leaving(s) : stock'[WarehouseOf[s]][p] >= 0
<1>1. ShopTypeOK /\ [ShopNext]_shopVars => Kept
  <2> SUFFICES ASSUME ShopTypeOK, [ShopNext]_shopVars, ~AllowNegativeStock,
                      NEW s \in Sales, Sold(s), NEW p \in Leaving(s)
               PROVE  stock'[WarehouseOf[s]][p] >= 0
    OBVIOUS
  <2>1. PICK d \in Days : Sell(s, d)
    BY OnlySellSells
  <2>2. p \in Products /\ WarehouseOf[s] \in Warehouses
    BY ShopAssumption DEF Leaving
  <2>3. stock[WarehouseOf[s]][p] \in Int /\ cart[s][p] \in Nat
    BY <2>2 DEF ShopTypeOK, Units
  <2>4. cart[s][p] <= stock[WarehouseOf[s]][p]
    BY <2>1 DEF Sell, Available
  <2>5. stock'[WarehouseOf[s]][p] = stock[WarehouseOf[s]][p] - cart[s][p]
    BY <2>1, <2>2 DEF Sell, SellEffect, Without, ShopTypeOK
  <2>6. QED
    BY <2>3, <2>4, <2>5
<1>2. ShopInv => ShopTypeOK
  BY DEF ShopInv
<1>3. QED
  BY <1>1, <1>2, ShopInvariant, PTL DEF ShopSpec, NeverOversells

(* No sale is completed on a terminal that is switched off.                 *)
THEOREM TillIsOn == ShopSpec => SoldAtActiveTerminal
<1>1. ShopTypeOK /\ [ShopNext]_shopVars => (\A s \in Sales : Sold(s) => TerminalUsable(s))
  BY OnlySellSells DEF Sell, Editable
<1>2. ShopInv => ShopTypeOK
  BY DEF ShopInv
<1>3. QED
  BY <1>1, <1>2, ShopInvariant, PTL DEF ShopSpec, SoldAtActiveTerminal

Kept(s) ==
    /\ status'[s] = "COMPLETED"
    /\ cart'[s] = cart[s]
    /\ number'[s] = number[s]
    /\ soldOn'[s] = soldOn[s]

LEMMA StepKeepsHistory ==
    ASSUME ShopTypeOK, [ShopNext]_shopVars
    PROVE  /\ \A s \in Completed : Kept(s)
           /\ returns \subseteq returns'
           /\ zreports \subseteq zreports'
<1>1. ASSUME NEW t \in Sales, CreateSale(t) \/ CancelSale(t) PROVE \A s \in Completed : Kept(s)
  BY <1>1 DEF CreateSale, CancelSale, Editable, Completed, Kept, ShopTypeOK
<1>2. ASSUME NEW t \in Sales, NEW p \in Products, AddLine(t, p) \/ RemoveLine(t, p)
      PROVE  \A s \in Completed : Kept(s)
  BY <1>2 DEF AddLine, RemoveLine, Editable, Completed, Kept, ShopTypeOK
<1>3. ASSUME NEW t \in Sales, NEW d \in Days, Sell(t, d) PROVE \A s \in Completed : Kept(s)
  BY <1>3 DEF Sell, SellEffect, Editable, Completed, Kept, ShopTypeOK
<1>4. ASSUME UNCHANGED saleVars PROVE \A s \in Completed : Kept(s)
  BY <1>4 DEF saleVars, Completed, Kept
<1>5. \A s \in Completed : Kept(s)
  BY <1>1, <1>2, <1>3, <1>4
     DEF ShopNext, shopVars, SwitchTerminal, MoveStock, NewDay, GiveBack, ReturnEffect,
         CloseDay, CloseEffect, Receive, ReceiveEffect
<1>6. returns \subseteq returns' /\ zreports \subseteq zreports'
  BY DEF ShopNext, shopVars, returnVars, CreateSale, CancelSale, AddLine, RemoveLine,
         SwitchTerminal, MoveStock, NewDay, Sell, SellEffect, GiveBack, ReturnEffect,
         CloseDay, CloseEffect, Receive, ReceiveEffect
<1>7. QED
  BY <1>5, <1>6

(* Completed sales, returns and Z reports are final.                        *)
THEOREM NothingRewritten == ShopSpec => HistoryIsFinal
<1>1. ShopTypeOK /\ [ShopNext]_shopVars =>
          /\ \A s \in Completed :
                /\ status'[s] = "COMPLETED"
                /\ cart'[s] = cart[s] /\ number'[s] = number[s] /\ soldOn'[s] = soldOn[s]
          /\ returns \subseteq returns'
          /\ zreports \subseteq zreports'
  BY StepKeepsHistory DEF Kept
<1>2. ShopInv => ShopTypeOK
  BY DEF ShopInv
<1>3. QED
  BY <1>1, <1>2, ShopInvariant, PTL DEF ShopSpec, HistoryIsFinal

-----------------------------------------------------------------------------
(* The books.  Beside them the invariant needs that what is summed is        *)
(* finite, and that Return rows and Z reports are new when they are added.   *)

RowsNumbered == \A x \in returns : x.no <= Cardinality(returns)

BooksInv ==
    /\ ShopInv
    /\ IsFiniteSet(Completed)
    /\ IsFiniteSet(zreports)
    /\ RowsNumbered
    /\ BooksAddUp

(* The terms of the sums.                                                  *)
LEMMA TermsAreIntegers ==
    ASSUME ShopTypeOK, NEW s \in Sales, NEW p \in Products
    PROVE  /\ cart[s][p] \in Nat /\ refunded[s][p] \in Nat /\ restocked[s][p] \in Nat
           /\ \A x \in returns : x.refund[p] \in Nat /\ x.restock[p] \in Nat
BY DEF ShopTypeOK, Units, ReturnRow

(* A step that adds no document and moves no stock of a completed sale.     *)
LEMMA EditKeepsBooks ==
    ASSUME BooksInv, ShopInv',
           UNCHANGED <<returnVars, zreports>>,
           Completed' = Completed,
           \A s \in Completed : cart'[s] = cart[s],
           \A w \in Warehouses, p \in Tracked :
              stock'[w][p] - moved'[w][p] = stock[w][p] - moved[w][p]
    PROVE  BooksInv'
<1> USE DEF returnVars
<1>1. ReturnsAddUp' /\ RowsNumbered'
  BY DEF BooksInv, BooksAddUp, ReturnsAddUp, ReturnsOf, RowsNumbered
<1>2. StockAddsUp'
  <2> SUFFICES ASSUME NEW w \in Warehouses, NEW p \in Tracked
               PROVE  stock'[w][p] = moved'[w][p]
                        - SumFunction([s \in CompletedAt(w)' |-> cart'[s][p] - restocked'[s][p]])
    BY DEF StockAddsUp
  <2> DEFINE f == [s \in CompletedAt(w) |-> cart[s][p] - restocked[s][p]]
  <2>1. [s \in CompletedAt(w)' |-> cart'[s][p] - restocked'[s][p]] = f
    BY DEF CompletedAt
  <2>2. stock[w][p] = moved[w][p] - SumFunction(f)
    BY DEF BooksInv, BooksAddUp, StockAddsUp
  <2>3. IsFiniteSet(CompletedAt(w)) /\ f \in [CompletedAt(w) -> Int]
    <3>1. \A s \in CompletedAt(w) : cart[s][p] - restocked[s][p] \in Int
      BY ShopAssumption, TermsAreIntegers DEF BooksInv, ShopInv, CompletedAt, Completed
    <3>2. QED
      BY <3>1, FS_Subset DEF BooksInv, CompletedAt
  <2>4. SumFunction(f) \in Int
    BY <2>3, SumAdds DEF SumFunction
  <2>5. /\ stock[w][p] \in Int /\ moved[w][p] \in Int
        /\ stock'[w][p] \in Int /\ moved'[w][p] \in Int
    BY ShopAssumption DEF BooksInv, ShopInv, ShopTypeOK
  <2> HIDE DEF f
  <2>6. stock'[w][p] = moved'[w][p] - SumFunction(f)
    BY <2>2, <2>4, <2>5
  <2>7. QED
    BY <2>1, <2>6
<1>3. ZNumbersFollowDays'
  BY DEF BooksInv, BooksAddUp, ZNumbersFollowDays, ZReportsOf
<1>4. QED
  BY <1>1, <1>2, <1>3 DEF BooksInv, BooksAddUp

LEMMA SellKeepsBooks ==
    ASSUME BooksInv, NEW s \in Sales, NEW d \in Days, Sell(s, d)
    PROVE  BooksInv'
<1>1. ShopInv /\ ShopTypeOK /\ ShopInv'
  BY SellKeepsInv DEF BooksInv, ShopInv
<1>2. s \notin Completed /\ Completed' = Completed \cup {s}
  BY <1>1 DEF Sell, Editable, SellEffect, Completed, ShopTypeOK
<1>3. UNCHANGED <<cart, returnVars, moved, zreports>>
  BY DEF Sell, SellEffect
<1>4. IsFiniteSet(Completed)' /\ IsFiniteSet(zreports)'
  BY <1>2, <1>3, FS_AddElement DEF BooksInv
<1>5. ReturnsAddUp' /\ RowsNumbered' /\ ZNumbersFollowDays'
  BY <1>3 DEF BooksInv, BooksAddUp, ReturnsAddUp, ReturnsOf, RowsNumbered, returnVars,
     ZNumbersFollowDays, ZReportsOf
<1>6. ASSUME NEW w \in Warehouses, NEW p \in Tracked
      PROVE  stock'[w][p] = moved'[w][p]
                - SumFunction([t \in CompletedAt(w)' |-> cart'[t][p] - restocked'[t][p]])
  <2> DEFINE f == [t \in CompletedAt(w) |-> cart[t][p] - restocked[t][p]]
             g == [t \in CompletedAt(w)' |-> cart'[t][p] - restocked'[t][p]]
  <2>1. stock[w][p] = moved[w][p] - SumFunction(f) /\ p \in Products
    BY ShopAssumption DEF BooksInv, BooksAddUp, StockAddsUp
  <2>2. IsFiniteSet(CompletedAt(w)) /\ f \in [CompletedAt(w) -> Int]
    <3>1. \A t \in CompletedAt(w) : cart[t][p] - restocked[t][p] \in Int
      BY <1>1, <2>1, TermsAreIntegers DEF CompletedAt, Completed
    <3>2. QED
      BY <3>1, FS_Subset DEF BooksInv, CompletedAt
  <2>3. SumFunction(f) \in Int
    BY <2>2, SumAdds DEF SumFunction
  <2>4. stock[w][p] \in Int /\ moved[w][p] \in Int /\ moved'[w][p] = moved[w][p]
    BY <1>1, <1>3, <2>1 DEF ShopTypeOK
  <2>5. CASE w = WarehouseOf[s]
    <3>1. CompletedAt(w)' = CompletedAt(w) \cup {s} /\ s \notin CompletedAt(w)
      BY <1>2, <2>5 DEF CompletedAt
    <3>2. cart[s][p] \in Nat /\ restocked[s][p] = 0
      BY <1>1, <1>2, <2>1, TermsAreIntegers DEF ShopInv, ReturnsOnlyCompleted, Nothing
    <3>3. g \in [CompletedAt(w) \cup {s} -> Int] /\ g[s] = cart[s][p]
          /\ \A t \in CompletedAt(w) : g[t] = f[t]
      BY <1>3, <2>2, <3>1, <3>2 DEF returnVars
    <3>4. SumFunction(g) = SumFunction(f) + cart[s][p]
      <4> HIDE DEF f, g
      <4>1. QED
        BY <2>2, <3>1, <3>3, SumOfMore
    <3>5. stock'[w][p] = stock[w][p] - cart[s][p]
      <4>1. stock'[w] = Without(stock[w], s)
        BY <1>1, <2>5 DEF Sell, SellEffect, ShopTypeOK
      <4>2. p \notin Leaving(s) => cart[s][p] = 0
        BY <3>2 DEF Leaving
      <4>3. QED
        BY <2>1, <2>4, <3>2, <4>1, <4>2 DEF Without
    <3> HIDE DEF f, g
    <3>6. stock'[w][p] = moved'[w][p] - SumFunction(g)
      BY <2>1, <2>3, <2>4, <3>2, <3>4, <3>5
    <3>7. QED
      BY <3>6 DEF g
  <2>6. CASE w # WarehouseOf[s]
    <3>1. CompletedAt(w)' = CompletedAt(w)
      BY <1>2, <2>6 DEF CompletedAt
    <3>2. g = f
      BY <1>3, <3>1 DEF returnVars
    <3>3. stock'[w][p] = stock[w][p]
      BY <1>1, <2>6 DEF Sell, SellEffect, ShopTypeOK
    <3> HIDE DEF f
    <3>4. QED
      BY <2>1, <2>4, <3>2, <3>3
  <2>7. QED
    BY <2>5, <2>6
<1>7. StockAddsUp'
  BY <1>6 DEF StockAddsUp
<1>8. QED
  BY <1>1, <1>4, <1>5, <1>7 DEF BooksInv, BooksAddUp

LEMMA GiveBackKeepsBooks ==
    ASSUME BooksInv, NEW s \in Sales, NEW d \in Days, NEW refund \in Parts, NEW restock \in Parts,
           GiveBack(s, d, refund, restock)
    PROVE  BooksInv'
<1> DEFINE row == [no |-> Cardinality(returns) + 1, sale |-> s, day |-> d,
                   refund |-> refund, restock |-> restock]
<1>1. ShopInv /\ ShopTypeOK /\ ShopInv'
  BY GiveBackKeepsInv DEF BooksInv, ShopInv
<1>2. /\ UNCHANGED <<cart, moved, zreports>>
      /\ returns' = returns \cup {row}
      /\ refunded' = [refunded EXCEPT ![s] = Added(refunded[s], refund)]
      /\ restocked' = [restocked EXCEPT ![s] = Added(restocked[s], restock)]
      /\ s \in Completed /\ Completed' = Completed
  BY DEF GiveBack, ReturnEffect, saleVars, Completed
<1>3. /\ row.no = Cardinality(returns) + 1 /\ row.sale = s
      /\ row.refund = refund /\ row.restock = restock
  OBVIOUS
<1> HIDE DEF row
<1>4. /\ row \notin returns
      /\ IsFiniteSet(returns) /\ Cardinality(returns) \in Nat
      /\ Cardinality(returns') = Cardinality(returns) + 1
  <2>1. IsFiniteSet(returns) /\ Cardinality(returns) \in Nat
    BY <1>1, FS_CardinalityType DEF ShopInv
  <2>2. row \notin returns
    BY <1>3, <2>1 DEF BooksInv, RowsNumbered
  <2>3. QED
    BY <1>2, <2>1, <2>2, FS_AddElement
<1>5. RowsNumbered'
  <2>1. \A x \in returns : x.no \in Nat
    BY <1>1 DEF ShopTypeOK, ReturnRow
  <2>2. QED
    BY <1>2, <1>3, <1>4, <2>1 DEF BooksInv, RowsNumbered
<1>6. ZNumbersFollowDays'
  BY <1>2 DEF BooksInv, BooksAddUp, ZNumbersFollowDays, ZReportsOf
<1>7. \A p \in Products : refund[p] \in Nat /\ restock[p] \in Nat
  BY ShopAssumption
<1>8. ReturnsAddUp'
  <2> SUFFICES ASSUME NEW t \in Sales, NEW p \in Products
               PROVE  /\ refunded'[t][p] = SumFunction([x \in ReturnsOf(t)' |-> x.refund[p]])
                      /\ restocked'[t][p] = SumFunction([x \in ReturnsOf(t)' |-> x.restock[p]])
    BY DEF ReturnsAddUp
  <2>1. /\ refunded[t][p] = SumFunction([x \in ReturnsOf(t) |-> x.refund[p]])
        /\ restocked[t][p] = SumFunction([x \in ReturnsOf(t) |-> x.restock[p]])
    BY DEF BooksInv, BooksAddUp, ReturnsAddUp
  <2>2. CASE t # s
    <3>1. ReturnsOf(t)' = ReturnsOf(t)
      BY <1>2, <1>3, <2>2 DEF ReturnsOf
    <3>2. refunded'[t][p] = refunded[t][p] /\ restocked'[t][p] = restocked[t][p]
      BY <1>1, <1>2, <2>2 DEF ShopTypeOK
    <3>3. QED
      BY <2>1, <3>1, <3>2
  <2>3. CASE t = s
    <3>1. ReturnsOf(s)' = ReturnsOf(s) \cup {row} /\ row \notin ReturnsOf(s)
      BY <1>2, <1>3, <1>4 DEF ReturnsOf
    <3>2. IsFiniteSet(ReturnsOf(s))
      BY <1>4, FS_Subset DEF ReturnsOf
    <3>3. \A x \in ReturnsOf(s) : x.refund[p] \in Int /\ x.restock[p] \in Int
      BY <1>1, TermsAreIntegers DEF ReturnsOf
    <3>4. /\ refunded'[s][p] = refunded[s][p] + refund[p]
          /\ restocked'[s][p] = restocked[s][p] + restock[p]
      BY <1>1, <1>2 DEF Added, ShopTypeOK
    <3>5. SumFunction([x \in ReturnsOf(s) \cup {row} |-> x.refund[p]])
            = SumFunction([x \in ReturnsOf(s) |-> x.refund[p]]) + refund[p]
      <4> DEFINE f == [x \in ReturnsOf(s) |-> x.refund[p]]
                 g == [x \in ReturnsOf(s) \cup {row} |-> x.refund[p]]
      <4>1. /\ f \in [ReturnsOf(s) -> Int] /\ g \in [ReturnsOf(s) \cup {row} -> Int]
            /\ g[row] = refund[p] /\ \A x \in ReturnsOf(s) : g[x] = f[x]
        BY <1>3, <1>7, <3>3
      <4> HIDE DEF f, g
      <4>2. SumFunction(g) = SumFunction(f) + refund[p]
        BY <3>1, <3>2, <4>1, SumOfMore
      <4>3. QED
        BY <4>2 DEF f, g
    <3>6. SumFunction([x \in ReturnsOf(s) \cup {row} |-> x.restock[p]])
            = SumFunction([x \in ReturnsOf(s) |-> x.restock[p]]) + restock[p]
      <4> DEFINE f == [x \in ReturnsOf(s) |-> x.restock[p]]
                 g == [x \in ReturnsOf(s) \cup {row} |-> x.restock[p]]
      <4>1. /\ f \in [ReturnsOf(s) -> Int] /\ g \in [ReturnsOf(s) \cup {row} -> Int]
            /\ g[row] = restock[p] /\ \A x \in ReturnsOf(s) : g[x] = f[x]
        BY <1>3, <1>7, <3>3
      <4> HIDE DEF f, g
      <4>2. SumFunction(g) = SumFunction(f) + restock[p]
        BY <3>1, <3>2, <4>1, SumOfMore
      <4>3. QED
        BY <4>2 DEF f, g
    <3>7. QED
      BY <2>1, <2>3, <3>1, <3>4, <3>5, <3>6
  <2>4. QED
    BY <2>2, <2>3
<1>9. ASSUME NEW w \in Warehouses, NEW p \in Tracked
      PROVE  stock'[w][p] = moved'[w][p]
                - SumFunction([t \in CompletedAt(w)' |-> cart'[t][p] - restocked'[t][p]])
  <2> DEFINE f == [t \in CompletedAt(w) |-> cart[t][p] - restocked[t][p]]
             g == [t \in CompletedAt(w) |-> cart'[t][p] - restocked'[t][p]]
  <2>1. /\ stock[w][p] = moved[w][p] - SumFunction(f) /\ p \in Products
        /\ CompletedAt(w)' = CompletedAt(w)
    BY <1>2, ShopAssumption DEF BooksInv, BooksAddUp, StockAddsUp, CompletedAt
  <2>2. IsFiniteSet(CompletedAt(w)) /\ f \in [CompletedAt(w) -> Int]
    <3>1. \A t \in CompletedAt(w) : cart[t][p] - restocked[t][p] \in Int
      BY <1>1, <2>1, TermsAreIntegers DEF CompletedAt, Completed
    <3>2. QED
      BY <3>1, FS_Subset DEF BooksInv, CompletedAt
  <2>3. SumFunction(f) \in Int
    BY <2>2, SumAdds DEF SumFunction
  <2>4. stock[w][p] \in Int /\ moved[w][p] \in Int /\ moved'[w][p] = moved[w][p]
    BY <1>1, <1>2, <2>1 DEF ShopTypeOK
  <2>5. \A t \in Sales : /\ t # s => restocked'[t][p] = restocked[t][p]
                         /\ t = s => restocked'[t][p] = restocked[t][p] + restock[p]
    BY <1>1, <1>2, <2>1 DEF Added, ShopTypeOK
  <2>6. \A t \in Sales : cart'[t][p] = cart[t][p] /\ cart[t][p] \in Int /\ restocked[t][p] \in Int
    BY <1>1, <1>2, <2>1, TermsAreIntegers
  <2>7. CompletedAt(w) \subseteq Sales
    BY DEF CompletedAt, Completed
  <2>8. CASE w = WarehouseOf[s]
    <3>1. s \in CompletedAt(w)
      BY <1>2, <2>8 DEF CompletedAt
    <3>2. g \in [CompletedAt(w) -> Int] /\ \A t \in CompletedAt(w) \ {s} : g[t] = f[t]
      BY <1>7, <2>1, <2>5, <2>6, <2>7
    <3>3. g[s] = f[s] - restock[p] /\ f[s] \in Int
      BY <1>7, <2>1, <2>5, <2>6, <3>1
    <3>4. SumFunction(g) = SumFunction(f) - f[s] + g[s]
      <4> HIDE DEF f, g
      <4>1. QED
        BY <2>2, <3>1, <3>2, SumOfChanged
    <3>5. stock'[w][p] = stock[w][p] + restock[p]
      <4>1. stock'[w] = With(stock[w], restock)
        BY <1>1, <2>8 DEF GiveBack, ReturnEffect, ShopTypeOK
      <4>2. QED
        BY <2>1, <4>1 DEF With, OfTracked
    <3> HIDE DEF f, g
    <3>6. stock'[w][p] = moved'[w][p] - SumFunction(g)
      BY <1>7, <2>1, <2>3, <2>4, <3>3, <3>4, <3>5
    <3>7. QED
      BY <2>1, <3>6 DEF g
  <2>9. CASE w # WarehouseOf[s]
    <3>1. s \notin CompletedAt(w)
      BY <2>9 DEF CompletedAt
    <3>2. g = f
      BY <2>5, <2>6, <2>7, <3>1
    <3>3. stock'[w][p] = stock[w][p]
      BY <1>1, <2>9 DEF GiveBack, ReturnEffect, ShopTypeOK
    <3> HIDE DEF f
    <3>4. QED
      BY <2>1, <2>4, <3>2, <3>3
  <2>10. QED
    BY <2>8, <2>9
<1>10. StockAddsUp'
  BY <1>9 DEF StockAddsUp
<1>11. QED
  BY <1>1, <1>2, <1>5, <1>6, <1>8, <1>10 DEF BooksInv, BooksAddUp

LEMMA CloseKeepsBooks ==
    ASSUME BooksInv, NEW w \in Warehouses, NEW d \in Days, CloseDay(w, d)
    PROVE  BooksInv'
<1> DEFINE c == Cardinality(ZReportsOf(w))
           z == [warehouse |-> w, day |-> d, number |-> c + 1,
                 sales |-> SalesOn(w, d), refunds |-> RefundsOn(w, d)]
<1>1. ShopInv /\ ShopTypeOK /\ ShopInv'
  BY CloseKeepsInv DEF BooksInv, ShopInv
<1>2. /\ IsFiniteSet(ZReportsOf(w)) /\ c \in Nat
      /\ ZNumbers(w) = 1..c
  <2>1. IsFiniteSet(ZReportsOf(w))
    BY FS_Subset DEF BooksInv, ZReportsOf
  <2>2. QED
    BY <2>1, FS_CardinalityType DEF BooksInv, BooksAddUp, ZNumbersFollowDays, ZNumbers
<1>3. /\ zreports' = zreports \cup {z}
      /\ UNCHANGED <<status, cart, returnVars, stockVars>>
  BY <1>2, LastZIsLength DEF CloseDay, CloseEffect, saleVars
<1>4. z.warehouse = w /\ z.day = d /\ z.number = c + 1
  OBVIOUS
<1> HIDE DEF z, c
<1>5. UNCHANGED <<refunded, restocked, returns, stock, moved>> /\ Completed' = Completed
  BY <1>3 DEF returnVars, stockVars, Completed
<1>6. IsFiniteSet(Completed)' /\ IsFiniteSet(zreports)' /\ RowsNumbered'
  BY <1>3, <1>5, FS_AddElement DEF BooksInv, RowsNumbered
<1>7. ReturnsAddUp' /\ StockAddsUp'
  BY <1>3, <1>5 DEF BooksInv, BooksAddUp, ReturnsAddUp, ReturnsOf, StockAddsUp, CompletedAt
<1>8. /\ \A y \in ZReportsOf(w) : y.day < d
      /\ z \notin ZReportsOf(w)
  <2>1. \A y \in ZReportsOf(w) : y.day \in Int
    BY <1>1 DEF ShopTypeOK, ZReport, Days, ZReportsOf
  <2>2. \A y \in ZReportsOf(w) : y.day <= d /\ y.day # d
    BY DEF CloseDay, Current, DayOpen
  <2>3. QED
    BY <1>4, <2>1, <2>2 DEF Days
<1>9. ASSUME NEW v \in Warehouses
      PROVE  /\ {y.number : y \in ZReportsOf(v)'} = 1..Cardinality(ZReportsOf(v)')
             /\ \A x, y \in ZReportsOf(v)' : x.number < y.number <=> x.day < y.day
  <2>1. CASE v # w
    <3>1. ZReportsOf(v)' = ZReportsOf(v)
      BY <1>3, <1>4, <2>1 DEF ZReportsOf
    <3>2. QED
      BY <3>1 DEF BooksInv, BooksAddUp, ZNumbersFollowDays
  <2>2. CASE v = w
    <3>1. ZReportsOf(w)' = ZReportsOf(w) \cup {z}
      BY <1>3, <1>4 DEF ZReportsOf
    <3>2. Cardinality(ZReportsOf(w)') = c + 1
      BY <1>2, <1>8, <3>1, FS_AddElement DEF c
    <3>3. {y.number : y \in ZReportsOf(w)'} = ZNumbers(w) \cup {c + 1}
      BY <1>4, <3>1 DEF ZNumbers
    <3>4. {y.number : y \in ZReportsOf(w)'} = 1..(c + 1)
      BY <1>2, <3>3
    <3>5. \A y \in ZReportsOf(w) : y.number \in 1..c /\ y.day \in Int
      BY <1>1, <1>2 DEF ZNumbers, ShopTypeOK, ZReport, Days, ZReportsOf
    <3>6. ASSUME NEW x \in ZReportsOf(w)', NEW y \in ZReportsOf(w)'
          PROVE  x.number < y.number <=> x.day < y.day
      <4>1. CASE x \in ZReportsOf(w) /\ y \in ZReportsOf(w)
        BY <4>1 DEF BooksInv, BooksAddUp, ZNumbersFollowDays
      <4>2. CASE x \in ZReportsOf(w) /\ y = z
        BY <1>2, <1>4, <1>8, <3>5, <4>2
      <4>3. CASE x = z /\ y \in ZReportsOf(w)
        BY <1>2, <1>4, <1>8, <3>5, <4>3 DEF Days
      <4>4. CASE x = z /\ y = z
        BY <1>2, <1>4, <4>4 DEF Days
      <4>5. QED
        BY <3>1, <4>1, <4>2, <4>3, <4>4
    <3>7. QED
      BY <2>2, <3>2, <3>4, <3>6
  <2>3. QED
    BY <2>1, <2>2
<1>10. ZNumbersFollowDays'
  BY <1>9 DEF ZNumbersFollowDays
<1>11. QED
  BY <1>1, <1>6, <1>7, <1>10 DEF BooksInv, BooksAddUp

LEMMA StepKeepsBooks ==
    ASSUME BooksInv, [ShopNext]_shopVars
    PROVE  BooksInv'
<1>1. ShopInv /\ ShopTypeOK /\ ShopInv'
  BY ShopStepKeepsInv DEF BooksInv, ShopInv
<1>2. \A w \in Warehouses, p \in Tracked :
          p \in Products /\ stock[w][p] \in Int /\ moved[w][p] \in Int
  BY <1>1, ShopAssumption DEF ShopTypeOK
<1>3. ASSUME NEW s \in Sales,
             \/ CreateSale(s) \/ CancelSale(s)
             \/ \E p \in Products : AddLine(s, p) \/ RemoveLine(s, p)
      PROVE  BooksInv'
  <2>1. UNCHANGED <<returnVars, stockVars, zreports>>
    BY <1>3 DEF CreateSale, CancelSale, AddLine, RemoveLine
  <2>2. /\ status[s] \in {"ABSENT", "DRAFT"}
        /\ status'[s] \in {"DRAFT", "DELETED"}
        /\ \A t \in Sales \ {s} : status'[t] = status[t] /\ cart'[t] = cart[t]
    BY <1>1, <1>3 DEF CreateSale, CancelSale, AddLine, RemoveLine, Editable, ShopTypeOK, Statuses
  <2>3. Completed' = Completed /\ \A t \in Completed : cart'[t] = cart[t]
    BY <2>2 DEF Completed
  <2>4. QED
    BY <1>1, <1>2, <2>1, <2>3, EditKeepsBooks DEF stockVars
<1>4. ASSUME NEW w \in Warehouses, NEW p \in Products, NEW level \in StockLevels,
             MoveStock(w, p, level)
      PROVE  BooksInv'
  <2>1. /\ level \in Int
        /\ UNCHANGED <<saleVars, returnVars, zreports>>
        /\ stock' = [stock EXCEPT ![w][p] = level]
        /\ moved' = [moved EXCEPT ![w][p] = moved[w][p] + (level - stock[w][p])]
    BY <1>4, ShopAssumption DEF MoveStock
  <2>2. ASSUME NEW v \in Warehouses, NEW q \in Tracked
        PROVE  stock'[v][q] - moved'[v][q] = stock[v][q] - moved[v][q]
    <3>1. CASE v = w /\ q = p
      BY <1>1, <1>2, <2>1, <3>1 DEF ShopTypeOK
    <3>2. CASE v # w \/ q # p
      BY <1>1, <1>2, <2>1, <3>2 DEF ShopTypeOK
    <3>3. QED
      BY <3>1, <3>2
  <2>3. QED
    BY <1>1, <2>1, <2>2, EditKeepsBooks DEF saleVars, Completed
<1>5. ASSUME NEW w \in Warehouses, NEW units \in Parts, Receive(w, units) PROVE BooksInv'
  <2>1. /\ UNCHANGED <<saleVars, returnVars, zreports>>
        /\ stock' = [stock EXCEPT ![w] = With(stock[w], units)]
        /\ moved' = [moved EXCEPT ![w] = With(moved[w], units)]
    BY <1>5 DEF Receive, ReceiveEffect
  <2>2. ASSUME NEW v \in Warehouses, NEW q \in Tracked
        PROVE  stock'[v][q] - moved'[v][q] = stock[v][q] - moved[v][q]
    <3>1. CASE v = w
      <4>1. units[q] \in Int
        BY <1>2, ShopAssumption
      <4>2. /\ stock'[w][q] = stock[w][q] + units[q]
            /\ moved'[w][q] = moved[w][q] + units[q]
        BY <1>1, <1>2, <2>1 DEF With, OfTracked, ShopTypeOK
      <4>3. QED
        BY <1>2, <3>1, <4>1, <4>2
    <3>2. CASE v # w
      BY <1>1, <1>2, <2>1, <3>2 DEF ShopTypeOK
    <3>3. QED
      BY <3>1, <3>2
  <2>3. QED
    BY <1>1, <2>1, <2>2, EditKeepsBooks DEF saleVars, Completed
<1>6. ASSUME UNCHANGED <<saleVars, returnVars, stockVars, zreports>> PROVE BooksInv'
  BY <1>1, <1>2, <1>6, EditKeepsBooks DEF saleVars, stockVars, Completed
<1>7. QED
  BY <1>3, <1>4, <1>5, <1>6, SellKeepsBooks, GiveBackKeepsBooks, CloseKeepsBooks
     DEF ShopNext, SwitchTerminal, NewDay, shopVars

(* Returns are what their sales accumulate, balances are what the documents  *)
(* say, and Z reports are numbered in the order of their days.               *)
THEOREM BooksBalance == ShopSpec => []BooksAddUp
<1>1. ShopInit => BooksInv
  <2> SUFFICES ASSUME ShopInit PROVE BooksInv
    OBVIOUS
  <2>1. ShopInv /\ ShopTypeOK
    BY ShopInitInv DEF ShopInv
  <2>2. Completed = {} /\ returns = {} /\ zreports = {}
    BY DEF ShopInit, Completed
  <2>3. ReturnsAddUp
    <3> SUFFICES ASSUME NEW s \in Sales, NEW p \in Products
                 PROVE  /\ 0 = SumFunction([x \in ReturnsOf(s) |-> x.refund[p]])
                        /\ 0 = SumFunction([x \in ReturnsOf(s) |-> x.restock[p]])
      BY DEF ReturnsAddUp, ShopInit, Nothing
    <3>1. ReturnsOf(s) = {}
      BY <2>2 DEF ReturnsOf
    <3>2. QED
      BY <3>1, SumOfNone
  <2>4. StockAddsUp
    <3> SUFFICES ASSUME NEW w \in Warehouses, NEW p \in Tracked
                 PROVE  0 = 0 - SumFunction([s \in CompletedAt(w) |-> cart[s][p] - restocked[s][p]])
      BY ShopAssumption DEF StockAddsUp, ShopInit, Nothing
    <3>1. CompletedAt(w) = {}
      BY <2>2 DEF CompletedAt
    <3>2. QED
      BY <3>1, SumOfNone
  <2>5. ZNumbersFollowDays
    BY <2>2, FS_EmptySet DEF ZNumbersFollowDays, ZReportsOf
  <2>6. QED
    BY <2>1, <2>2, <2>3, <2>4, <2>5, FS_EmptySet DEF BooksInv, BooksAddUp, RowsNumbered
<1>2. BooksInv /\ [ShopNext]_shopVars => BooksInv'
  BY StepKeepsBooks
<1>3. BooksInv => BooksAddUp
  BY DEF BooksInv
<1>4. QED
  BY <1>1, <1>2, <1>3, PTL DEF ShopSpec


-----------------------------------------------------------------------------
(* The inductive invariant: what a request has read stays true while it      *)
(* holds the lock it read it under.                                         *)

\* The statements an operation runs.
Shape(r) ==
    /\ pc[r] # "idle" => intent[r] \in Intents
    /\ pc[r] \in {"cut", "clock"} => intent[r].op # "receive"
    /\ pc[r] = "sale" => OnSale(r)
    /\ pc[r] = "terminal" => intent[r].op = "checkout"
    /\ pc[r] = "drafts" => intent[r].op = "close"
    /\ pc[r] = "stock" => intent[r].op # "close"
    /\ pc[r] \notin {"stock", "commit"} => picked[r] = {}

PastClock(r) ==
    /\ pc[r] \in {"sale", "terminal", "stock", "drafts", "commit"}
    /\ intent[r].op # "receive"

\* The clock under the cut: nothing of the warehouse is dated later, and the
\* day that must be open is open.
ClockHolds(r) ==
    PastClock(r) =>
        /\ Current(Place(r), day[r])
        /\ NeedsOpenDay(r) \/ (intent[r].op = "close" /\ pc[r] = "commit")
               => DayOpen(Place(r), day[r])

PastSale(r) == pc[r] \in {"terminal", "stock", "commit"} /\ OnSale(r)

SaleHolds(r) == PastSale(r) => SaleReady(r)

Paying(r) == pc[r] \in {"stock", "commit"} /\ intent[r].op = "checkout"

TerminalHolds(r) == Paying(r) => TerminalUsable(SaleOf(r))

StockHolds(r) ==
    Paying(r) =>
        /\ \A p \in picked[r] : Available(SaleOf(r), p)
        /\ pc[r] = "commit" => Leaving(SaleOf(r)) \subseteq picked[r]

NumberHolds(r) == HoldsNumbering(r) => drawn[r] = HighestNumber + 1

\* Stock rows are locked in product order.
InOrder(r) ==
    pc[r] = "stock" => \A p \in picked[r], x \in Remaining(r) : p < x

Holds(r) ==
    /\ Shape(r)
    /\ ClockHolds(r)
    /\ SaleHolds(r)
    /\ TerminalHolds(r)
    /\ StockHolds(r)
    /\ NumberHolds(r)
    /\ InOrder(r)

\* No two requests are inside one warehouse's cut, or number a sale, at once.
Exclusive ==
    \A r, q \in Requests : r # q =>
        /\ HoldsCut(r, Place(r)) /\ HoldsCut(q, Place(q)) => Place(r) # Place(q)
        /\ ~(HoldsNumbering(r) /\ HoldsNumbering(q))

Inv ==
    /\ TypeOK
    /\ ShopInv
    /\ Exclusive
    /\ \A r \in Requests : Holds(r)

-----------------------------------------------------------------------------
(* What one request may do to another.                                      *)

SameLocals(r) ==
    /\ pc'[r] = pc[r]
    /\ intent'[r] = intent[r]
    /\ day'[r] = day[r]
    /\ picked'[r] = picked[r]
    /\ drawn'[r] = drawn[r]

\* A step that leaves alone what r has read under its locks.
Undisturbed(r) ==
    /\ SameLocals(r)
    /\ PastClock(r) =>
          /\ today <= today'
          /\ CompletedAt(Place(r))' = CompletedAt(Place(r))
          /\ \A s \in CompletedAt(Place(r)) : soldOn'[s] = soldOn[s]
          /\ ZReportsOf(Place(r))' = ZReportsOf(Place(r))
    /\ PastSale(r) =>
          /\ status'[SaleOf(r)] = status[SaleOf(r)]
          /\ cart'[SaleOf(r)] = cart[SaleOf(r)]
          /\ refunded'[SaleOf(r)] = refunded[SaleOf(r)]
          /\ restocked'[SaleOf(r)] = restocked[SaleOf(r)]
    /\ Paying(r) =>
          /\ TerminalUsable(SaleOf(r)) => TerminalUsable(SaleOf(r))'
          /\ \A p \in picked[r] : stock[Place(r)][p] <= stock'[Place(r)][p]
    /\ HoldsNumbering(r) => HighestNumber' = HighestNumber

LEMMA PlaceOfPayment ==
    ASSUME TypeOK, NEW r \in Requests, Shape(r), PastSale(r) \/ Paying(r)
    PROVE  /\ SaleOf(r) \in Sales
           /\ Place(r) = WarehouseOf[SaleOf(r)]
           /\ Place(r) \in Warehouses
           /\ picked[r] \subseteq Products
BY ShopAssumption DEF Paying, PastSale, OnSale, Place, SaleOf, Shape, Intents, Payloads, TypeOK

(* An undisturbed request keeps what it relies on.                         *)
LEMMA OthersHold ==
    ASSUME TypeOK, TypeOK', NEW r \in Requests, Holds(r), Undisturbed(r)
    PROVE  Holds(r)'
<1> USE DEF Holds
<1>1. SameLocals(r)
  BY DEF Undisturbed
<1>2. /\ OnSale(r)' = OnSale(r) /\ SaleOf(r)' = SaleOf(r) /\ Place(r)' = Place(r)
      /\ PastClock(r)' = PastClock(r) /\ PastSale(r)' = PastSale(r) /\ Paying(r)' = Paying(r)
      /\ NeedsOpenDay(r)' = NeedsOpenDay(r)
      /\ HoldsNumbering(r)' = HoldsNumbering(r)
  BY <1>1 DEF SameLocals, OnSale, SaleOf, Place, PastClock, PastSale, Paying,
     NeedsOpenDay, HoldsNumbering, Nothing
<1>3. Shape(r)'
  BY <1>1, <1>2 DEF Shape, SameLocals
<1>4. ClockHolds(r)'
  <2> SUFFICES ASSUME PastClock(r) PROVE ClockHolds(r)'
    BY <1>2 DEF ClockHolds
  <2>1. /\ today <= today'
        /\ CompletedAt(Place(r))' = CompletedAt(Place(r))
        /\ \A s \in CompletedAt(Place(r)) : soldOn'[s] = soldOn[s]
        /\ ZReportsOf(Place(r))' = ZReportsOf(Place(r))
    BY DEF Undisturbed
  <2>2. today \in Int /\ today' \in Int /\ day[r] \in Int /\ day'[r] = day[r]
    BY <1>1 DEF TypeOK, ShopTypeOK, Days, SameLocals
  <2>3. Current(Place(r), day[r])'
    BY <2>1, <2>2, <1>2 DEF ClockHolds, Current
  <2>4. DayOpen(Place(r), day[r]) => DayOpen(Place(r), day[r])'
    BY <2>1, <2>2, <1>2 DEF DayOpen
  <2>5. QED
    BY <1>1, <1>2, <2>3, <2>4 DEF ClockHolds, SameLocals
<1>5. SaleHolds(r)'
  BY <1>1, <1>2 DEF SaleHolds, Undisturbed, SameLocals, SaleReady, WithinSale, Nothing
<1>6. TerminalHolds(r)'
  BY <1>2 DEF TerminalHolds, Undisturbed
<1>7. StockHolds(r)'
  <2> SUFFICES ASSUME Paying(r) PROVE StockHolds(r)'
    BY <1>2 DEF StockHolds
  <2>1. PastSale(r) /\ Place(r) = WarehouseOf[SaleOf(r)] /\ SaleOf(r) \in Sales
    BY PlaceOfPayment DEF Paying, PastSale, OnSale
  <2>2. cart'[SaleOf(r)] = cart[SaleOf(r)]
    BY <2>1 DEF Undisturbed
  <2>3. ASSUME NEW p \in picked[r] PROVE Available(SaleOf(r), p)'
    <3>1. p \in Products /\ WarehouseOf[SaleOf(r)] \in Warehouses
      BY <2>1, ShopAssumption DEF TypeOK
    <3>2. /\ cart[SaleOf(r)][p] \in Int
          /\ stock[WarehouseOf[SaleOf(r)]][p] \in Int
          /\ stock'[WarehouseOf[SaleOf(r)]][p] \in Int
      BY <2>1, <3>1 DEF TypeOK, ShopTypeOK, Units
    <3>3. stock[WarehouseOf[SaleOf(r)]][p] <= stock'[WarehouseOf[SaleOf(r)]][p]
      BY <2>1 DEF Undisturbed
    <3>4. Available(SaleOf(r), p)
      BY DEF StockHolds
    <3>5. QED
      BY <1>2, <2>2, <3>2, <3>3, <3>4 DEF Available
  <2>4. Leaving(SaleOf(r))' = Leaving(SaleOf(r))
    BY <1>2, <2>2 DEF Leaving
  <2>5. QED
    BY <1>1, <1>2, <2>3, <2>4 DEF StockHolds, SameLocals
<1>8. NumberHolds(r)'
  BY <1>1, <1>2 DEF NumberHolds, Undisturbed, SameLocals
<1>9. InOrder(r)'
  <2> SUFFICES ASSUME pc[r] = "stock" PROVE Remaining(r)' = Remaining(r)
    BY <1>1 DEF InOrder, SameLocals
  <2>1. intent[r].op = "checkout" => PastSale(r)
    BY DEF PastSale, OnSale
  <2>2. intent[r].op = "checkout" => Leaving(SaleOf(r))' = Leaving(SaleOf(r))
    BY <1>2, <2>1 DEF Leaving, Undisturbed
  <2>3. QED
    BY <1>1, <1>2, <2>2 DEF Remaining, Needed, SameLocals
<1>10. QED
  BY <1>3, <1>4, <1>5, <1>6, <1>7, <1>8, <1>9

-----------------------------------------------------------------------------
(* Steps that only read the shop.                                          *)

(* A request that reads disturbs nobody.                                   *)
LEMMA ReadersDisturbNobody ==
    ASSUME TypeOK, UNCHANGED shopVars, NEW r \in Requests, Shape(r), SameLocals(r)
    PROVE  Undisturbed(r)
<1> USE DEF shopVars, saleVars, returnVars, stockVars
<1>1. HighestNumber' = HighestNumber
  BY DEF HighestNumber, Completed
<1>2. today <= today'
  BY DEF TypeOK, ShopTypeOK, Days
<1>3. Paying(r) => \A p \in picked[r] : stock[Place(r)][p] <= stock'[Place(r)][p]
  <2> SUFFICES ASSUME Paying(r), NEW p \in picked[r]
               PROVE  stock[Place(r)][p] <= stock'[Place(r)][p]
    OBVIOUS
  <2>1. stock[Place(r)][p] \in Int
    BY PlaceOfPayment DEF TypeOK, ShopTypeOK
  <2>2. QED
    BY <2>1
<1>4. TerminalUsable(SaleOf(r))' = TerminalUsable(SaleOf(r))
  BY DEF TerminalUsable, SaleOf, SameLocals
<1>5. UNCHANGED <<status, cart, soldOn, refunded, restocked>>
  OBVIOUS
<1>6. CompletedAt(Place(r))' = CompletedAt(Place(r)) /\ ZReportsOf(Place(r))' = ZReportsOf(Place(r))
  <2>1. Place(r)' = Place(r)
    BY DEF SameLocals, Place, OnSale, SaleOf
  <2>2. QED
    BY <2>1 DEF CompletedAt, Completed, ZReportsOf
<1>7. QED
  <2> HIDE DEF shopVars, saleVars, returnVars, stockVars
  <2> QED
    BY <1>1, <1>2, <1>3, <1>4, <1>5, <1>6 DEF Undisturbed

\* A step of q that reads, and enters a cut or the numbering only if it is free.
Reads(q) ==
    /\ UNCHANGED shopVars
    /\ TypeOK'
    /\ Holds(q)'
    /\ \A r \in Requests \ {q} :
          /\ SameLocals(r)
          /\ HoldsCut(r, Place(r)) /\ HoldsCut(q, Place(q))' => Place(q)' # Place(r)
          /\ ~(HoldsNumbering(r) /\ HoldsNumbering(q)')

LEMMA ReadKeepsInv ==
    ASSUME Inv, NEW q \in Requests, Reads(q)
    PROVE  Inv'
<1>1. TypeOK /\ TypeOK' /\ UNCHANGED shopVars
  BY DEF Inv, Reads
<1>2. ShopInv'
  BY <1>1, ShopStepKeepsInv DEF Inv
<1>3. ASSUME NEW r \in Requests, r # q PROVE Holds(r)'
  <2>1. Holds(r) /\ SameLocals(r)
    BY <1>3 DEF Inv, Reads
  <2>2. Undisturbed(r)
    BY <1>1, <2>1, ReadersDisturbNobody DEF Holds
  <2>3. QED
    BY <1>1, <2>1, <2>2, OthersHold
<1>4. \A r \in Requests : Holds(r)'
  BY <1>3 DEF Reads
<1>5. ASSUME NEW r \in Requests, r # q
      PROVE  /\ Place(r)' = Place(r)
             /\ HoldsCut(r, Place(r))' = HoldsCut(r, Place(r))
             /\ HoldsNumbering(r)' = HoldsNumbering(r)
  BY <1>5 DEF Reads, SameLocals, HoldsCut, HoldsNumbering, Place, OnSale, SaleOf
<1>6. Exclusive'
  BY <1>5 DEF Exclusive, Inv, Reads
<1>7. QED
  BY <1>1, <1>2, <1>4, <1>6 DEF Inv

(* What a request knows of the shop while the shop stands still.            *)
LEMMA SameShop ==
    ASSUME UNCHANGED shopVars, NEW q \in Requests, intent'[q] = intent[q]
    PROVE  /\ ShopTypeOK' = ShopTypeOK
           /\ OnSale(q)' = OnSale(q)
           /\ SaleOf(q)' = SaleOf(q)
           /\ Place(q)' = Place(q)
           /\ NeedsOpenDay(q)' = NeedsOpenDay(q)
           /\ SaleReady(q)' = SaleReady(q)
           /\ TerminalUsable(SaleOf(q))' = TerminalUsable(SaleOf(q))
           /\ Leaving(SaleOf(q))' = Leaving(SaleOf(q))
           /\ HighestNumber' = HighestNumber
<1> USE DEF shopVars, saleVars, returnVars, stockVars
<1>1. OnSale(q)' = OnSale(q) /\ SaleOf(q)' = SaleOf(q) /\ Place(q)' = Place(q)
  BY DEF OnSale, SaleOf, Place
<1>2. NeedsOpenDay(q)' = NeedsOpenDay(q)
  BY DEF NeedsOpenDay, Nothing
<1>3. SaleReady(q)' = SaleReady(q)
  BY <1>1 DEF SaleReady, WithinSale, Nothing
<1>4. TerminalUsable(SaleOf(q))' = TerminalUsable(SaleOf(q)) /\ Leaving(SaleOf(q))' = Leaving(SaleOf(q))
  BY <1>1 DEF TerminalUsable, Leaving
<1>5. HighestNumber' = HighestNumber
  BY DEF HighestNumber, Completed
<1>6. ShopTypeOK' = ShopTypeOK
  BY DEF ShopTypeOK
<1>7. QED
  BY <1>1, <1>2, <1>3, <1>4, <1>5, <1>6

LEMMA SameDay ==
    ASSUME UNCHANGED shopVars, NEW q \in Requests, intent'[q] = intent[q], NEW d
    PROVE  /\ Current(Place(q), d)' = Current(Place(q), d)
           /\ DayOpen(Place(q), d)' = DayOpen(Place(q), d)
<1>1. Place(q)' = Place(q)
  BY SameShop
<1>2. UNCHANGED <<today, status, soldOn, zreports>>
  BY DEF shopVars, saleVars
<1>3. QED
  BY <1>1, <1>2 DEF Current, DayOpen, CompletedAt, Completed, ZReportsOf

LEMMA BeginReads ==
    ASSUME Inv, NEW q \in Requests, NEW v \in Offered, Begin(q, v)
    PROVE  Reads(q)
<1>1. TypeOK /\ Shape(q) /\ v \in Intents
  BY CheckoutAssumption DEF Inv, Holds
<1>2. /\ pc'[q] \in {"claim", "cut", "stock"}
      /\ pc'[q] = "cut" => v.op # "receive"
      /\ pc'[q] = "stock" => v.op = "receive"
      /\ intent'[q] = v
      /\ picked'[q] = {}
  BY <1>1 DEF Begin, Goto, AfterClaim, TypeOK, Shape
<1>3. UNCHANGED shopVars /\ TypeOK'
  <2>1. ShopTypeOK'
    BY <1>1 DEF Begin, TypeOK, ShopTypeOK, shopVars, saleVars, returnVars, stockVars
  <2>2. QED
    BY <1>1, <2>1 DEF Begin, Goto, AfterClaim, TypeOK, Steps
<1>4. Shape(q)'
  BY <1>1, <1>2 DEF Shape, OnSale
<1>5. ~PastClock(q)' /\ ~PastSale(q)' /\ ~Paying(q)' /\ ~HoldsNumbering(q)'
  BY <1>2 DEF PastClock, PastSale, Paying, HoldsNumbering, OnSale
<1>6. Holds(q)'
  BY <1>4, <1>5, <1>2 DEF Holds, ClockHolds, SaleHolds, TerminalHolds, StockHolds, NumberHolds, InOrder
<1>7. ~HoldsCut(q, Place(q))'
  BY <1>2 DEF HoldsCut
<1>8. \A r \in Requests \ {q} : SameLocals(r)
  BY <1>1 DEF Begin, Goto, SameLocals, TypeOK
<1>9. QED
  BY <1>3, <1>5, <1>6, <1>7, <1>8 DEF Reads

(* A request that goes on reading, keeping what it was asked.               *)
LEMMA ReadingTypes ==
    ASSUME TypeOK, UNCHANGED <<shopVars, claims, served, intent>>, NEW q \in Requests,
           NEW step \in Steps, Goto(q, step),
           day' \in [Requests -> Days],
           picked' \in [Requests -> SUBSET Products],
           drawn' \in [Requests -> Nat],
           \A r \in Requests \ {q} :
              day'[r] = day[r] /\ picked'[r] = picked[r] /\ drawn'[r] = drawn[r]
    PROVE  /\ TypeOK'
           /\ UNCHANGED shopVars
           /\ pc'[q] = step
           /\ intent'[q] = intent[q]
           /\ \A r \in Requests \ {q} : SameLocals(r)
<1>1. ShopTypeOK'
  BY SameShop DEF TypeOK
<1>2. QED
  BY <1>1 DEF Goto, TypeOK, SameLocals

LEMMA ClaimReads ==
    ASSUME Inv, NEW q \in Requests, Claim(q)
    PROVE  Reads(q)
<1>1. TypeOK /\ Shape(q) /\ pc[q] = "claim"
  BY DEF Inv, Holds, Claim
<1>2. AfterClaim(intent[q]) \in {"cut", "stock"} \cap Steps
  BY DEF AfterClaim, Steps
<1>3. /\ TypeOK'
      /\ UNCHANGED shopVars
      /\ pc'[q] = AfterClaim(intent[q])
      /\ intent'[q] = intent[q]
      /\ \A r \in Requests \ {q} : SameLocals(r)
  BY <1>1, <1>2, ReadingTypes DEF Claim, TypeOK
<1>4. Shape(q)'
  BY <1>1, <1>2, <1>3, SameShop DEF Shape, AfterClaim, Claim, OnSale
<1>5. ~PastClock(q)' /\ ~PastSale(q)' /\ ~Paying(q)' /\ ~HoldsNumbering(q)' /\ ~HoldsCut(q, Place(q))'
  BY <1>2, <1>3 DEF PastClock, PastSale, Paying, HoldsNumbering, HoldsCut, OnSale, AfterClaim
<1>6. Holds(q)'
  BY <1>1, <1>3, <1>4, <1>5 DEF Holds, ClockHolds, SaleHolds, TerminalHolds, StockHolds, NumberHolds,
     InOrder, Shape, Claim
<1>7. QED
  BY <1>3, <1>5, <1>6 DEF Reads

LEMMA CutReads ==
    ASSUME Inv, NEW q \in Requests, LockCut(q)
    PROVE  Reads(q)
<1>1. TypeOK /\ Shape(q) /\ pc[q] = "cut"
  BY DEF Inv, Holds, LockCut
<1>2. /\ TypeOK'
      /\ UNCHANGED shopVars
      /\ pc'[q] = "clock"
      /\ intent'[q] = intent[q]
      /\ \A r \in Requests \ {q} : SameLocals(r)
  BY <1>1, ReadingTypes DEF LockCut, TypeOK, Steps
<1>3. Shape(q)'
  BY <1>1, <1>2 DEF Shape, LockCut
<1>4. ~PastClock(q)' /\ ~PastSale(q)' /\ ~Paying(q)' /\ ~HoldsNumbering(q)'
  BY <1>2 DEF PastClock, PastSale, Paying, HoldsNumbering
<1>5. Holds(q)'
  BY <1>3, <1>4, <1>2 DEF Holds, ClockHolds, SaleHolds, TerminalHolds, StockHolds, NumberHolds, InOrder
<1>6. \A r \in Requests \ {q} : ~HoldsCut(r, Place(q))
  BY <1>1 DEF LockCut, Blockers
<1>7. Place(q)' = Place(q)
  BY <1>2, SameShop
<1>8. QED
  BY <1>2, <1>4, <1>5, <1>6, <1>7 DEF Reads

(* Inside its cut a request stays alone in its warehouse.                   *)
LEMMA InsideCut ==
    ASSUME Inv, NEW q \in Requests, UNCHANGED shopVars, TypeOK', Holds(q)',
           intent'[q] = intent[q], ~HoldsNumbering(q)',
           pc[q] \notin {"idle", "claim", "cut"},
           \A r \in Requests \ {q} : SameLocals(r)
    PROVE  Reads(q)
<1>1. Place(q)' = Place(q)
  BY SameShop
<1>2. HoldsCut(q, Place(q))' => HoldsCut(q, Place(q))
  BY <1>1 DEF HoldsCut
<1>3. QED
  BY <1>1, <1>2 DEF Reads, Inv, Exclusive

LEMMA ClockReads ==
    ASSUME Inv, NEW q \in Requests, ReadClock(q)
    PROVE  Reads(q)
<1>1. TypeOK /\ Holds(q) /\ pc[q] = "clock" /\ intent[q] \in Intents /\ today \in Days
  BY DEF Inv, Holds, Shape, ReadClock, TypeOK, ShopTypeOK
<1> DEFINE step == IF intent[q].op = "close" THEN "drafts" ELSE "sale"
<1>2. /\ TypeOK'
      /\ UNCHANGED shopVars
      /\ pc'[q] = step
      /\ intent'[q] = intent[q]
      /\ \A r \in Requests \ {q} : SameLocals(r)
  BY <1>1, ReadingTypes DEF ReadClock, TypeOK, Steps
<1>3. day'[q] = today
  BY <1>1 DEF ReadClock, TypeOK
<1>4. Shape(q)'
  BY <1>1, <1>2 DEF Holds, Shape, ReadClock, Intents, Payloads, Operations, OnSale
<1>5. ClockHolds(q)'
  <2>1. PICK d \in Days : d = today
    BY <1>1
  <2>2. Current(Place(q), d)
    BY <2>1 DEF Inv, ShopInv, NothingAhead, Current, CompletedAt, ZReportsOf, Days
  <2>3. NeedsOpenDay(q) => DayOpen(Place(q), d)
    BY <2>1 DEF ReadClock
  <2>4. Current(Place(q), d)' /\ (NeedsOpenDay(q) => DayOpen(Place(q), d)')
    BY <1>2, <2>2, <2>3, SameDay
  <2>5. pc'[q] # "commit" /\ NeedsOpenDay(q)' = NeedsOpenDay(q) /\ day'[q] = d
    BY <1>2, <1>3, <2>1, SameShop
  <2>6. QED
    BY <2>4, <2>5 DEF ClockHolds
<1>6. ~PastSale(q)' /\ ~Paying(q)' /\ ~HoldsNumbering(q)'
  BY <1>2 DEF PastSale, Paying, HoldsNumbering
<1>7. Holds(q)'
  BY <1>4, <1>5, <1>6, <1>2 DEF Holds, SaleHolds, TerminalHolds, StockHolds, NumberHolds, InOrder
<1>8. QED
  BY <1>1, <1>2, <1>6, <1>7, InsideCut

(* The clock it read stays good while the request goes on reading.          *)
LEMMA ClockStaysGood ==
    ASSUME Inv, NEW q \in Requests, UNCHANGED shopVars, PastClock(q),
           intent'[q] = intent[q], day'[q] = day[q],
           intent[q].op = "close" => DayOpen(Place(q), day[q])
    PROVE  ClockHolds(q)'
<1>1. PICK d \in Days : d = day[q]
  BY DEF Inv, TypeOK
<1>2. Current(Place(q), d) /\ (NeedsOpenDay(q) => DayOpen(Place(q), d))
  BY <1>1 DEF Inv, Holds, ClockHolds
<1>3. /\ Current(Place(q), d)' = Current(Place(q), d)
      /\ DayOpen(Place(q), d)' = DayOpen(Place(q), d)
      /\ NeedsOpenDay(q)' = NeedsOpenDay(q)
  BY SameDay, SameShop
<1>4. QED
  BY <1>1, <1>2, <1>3 DEF ClockHolds

LEMMA SaleReads ==
    ASSUME Inv, NEW q \in Requests, LockSale(q)
    PROVE  Reads(q)
<1>1. TypeOK /\ Holds(q) /\ pc[q] = "sale" /\ OnSale(q) /\ SaleReady(q)
  BY DEF Inv, Holds, Shape, LockSale
<1> DEFINE step == IF intent[q].op = "checkout" THEN "terminal" ELSE "stock"
<1>2. /\ TypeOK'
      /\ UNCHANGED shopVars
      /\ pc'[q] = step
      /\ intent'[q] = intent[q]
      /\ \A r \in Requests \ {q} : SameLocals(r)
  BY <1>1, ReadingTypes DEF LockSale, TypeOK, Steps
<1>3. day'[q] = day[q] /\ picked'[q] = picked[q]
  BY DEF LockSale
<1>4. Shape(q)'
  BY <1>1, <1>2, <1>3 DEF Holds, Shape, OnSale
<1>5. ClockHolds(q)'
  BY <1>1, <1>2, <1>3, ClockStaysGood DEF PastClock, OnSale
<1>6. SaleHolds(q)'
  BY <1>1, <1>2, SameShop DEF SaleHolds
<1>7. ~Paying(q)' /\ ~HoldsNumbering(q)'
  BY <1>2 DEF Paying, HoldsNumbering
<1>8. Holds(q)'
  BY <1>1, <1>3, <1>4, <1>5, <1>6, <1>7 DEF Holds, TerminalHolds, StockHolds, NumberHolds, InOrder, Shape
<1>9. QED
  BY <1>1, <1>2, <1>7, <1>8, InsideCut

LEMMA TerminalReads ==
    ASSUME Inv, NEW q \in Requests, LockTerminal(q)
    PROVE  Reads(q)
<1>1. /\ TypeOK /\ Holds(q) /\ pc[q] = "terminal"
      /\ intent[q].op = "checkout" /\ picked[q] = {}
  BY DEF Inv, Holds, Shape, LockTerminal
<1>2. /\ TypeOK'
      /\ UNCHANGED shopVars
      /\ pc'[q] = "stock"
      /\ intent'[q] = intent[q]
      /\ \A r \in Requests \ {q} : SameLocals(r)
  BY <1>1, ReadingTypes DEF LockTerminal, TypeOK, Steps
<1>3. day'[q] = day[q] /\ picked'[q] = {}
  BY <1>1 DEF LockTerminal
<1>4. Shape(q)'
  BY <1>1, <1>2, <1>3 DEF Holds, Shape
<1>5. ClockHolds(q)'
  BY <1>1, <1>2, <1>3, ClockStaysGood DEF PastClock
<1>6. SaleHolds(q)'
  BY <1>1, <1>2, SameShop DEF Holds, SaleHolds, PastSale, OnSale
<1>7. TerminalHolds(q)'
  BY <1>2, SameShop DEF TerminalHolds, LockTerminal
<1>8. StockHolds(q)' /\ ~HoldsNumbering(q)'
  BY <1>2, <1>3 DEF StockHolds, HoldsNumbering
<1>9. Holds(q)'
  BY <1>4, <1>5, <1>6, <1>7, <1>8, <1>3 DEF Holds, NumberHolds, InOrder
<1>10. QED
  BY <1>1, <1>2, <1>8, <1>9, InsideCut

(* The row a request locks next is one it needs.                            *)
LEMMA NextStockNeeded ==
    ASSUME TypeOK, NEW r \in Requests, Remaining(r) # {}
    PROVE  NextStock(r) \in Remaining(r)
<1>1. Remaining(r) \subseteq Nat
  BY ShopAssumption DEF Remaining, Needed, Leaving
<1>2. QED
  BY <1>1, FirstExists DEF NextStock

LEMMA StockReads ==
    ASSUME Inv, NEW q \in Requests, LockStock(q)
    PROVE  Reads(q)
<1> DEFINE p == NextStock(q)
<1>1. TypeOK /\ Holds(q) /\ pc[q] = "stock" /\ intent[q].op # "close"
  BY DEF Inv, Holds, Shape, LockStock
<1>2. p \in Products
  BY <1>1, NextStockNeeded, ShopAssumption DEF LockStock, Remaining, Needed, Leaving
<1>3. /\ picked'[q] = picked[q] \cup {p}
      /\ picked' \in [Requests -> SUBSET Products]
      /\ \A r \in Requests \ {q} : picked'[r] = picked[r]
  BY <1>1, <1>2 DEF LockStock, TypeOK
<1>4. UNCHANGED <<shopVars, claims, served, pc, intent, day, drawn>>
  BY DEF LockStock
<1>5. TypeOK' /\ \A r \in Requests \ {q} : SameLocals(r)
  BY <1>1, <1>3, <1>4, SameShop DEF TypeOK, SameLocals
<1>6. Shape(q)'
  BY <1>1, <1>4 DEF Holds, Shape, OnSale
<1>7. ClockHolds(q)'
  <2>1. CASE PastClock(q)
    BY <1>1, <1>4, <2>1, ClockStaysGood
  <2>2. CASE ~PastClock(q)
    BY <1>4, <2>2 DEF ClockHolds, PastClock
  <2>3. QED
    BY <2>1, <2>2
<1>8. SaleHolds(q)' /\ TerminalHolds(q)'
  BY <1>1, <1>4, SameShop DEF Holds, SaleHolds, PastSale, TerminalHolds, Paying
<1>9. StockHolds(q)'
  <2> SUFFICES ASSUME intent[q].op = "checkout", NEW x \in picked'[q]
               PROVE  Available(SaleOf(q), x)'
    BY <1>1, <1>4 DEF StockHolds, Paying
  <2>1. Available(SaleOf(q), x)
    BY <1>1, <1>3 DEF Holds, StockHolds, Paying, LockStock
  <2>2. QED
    BY <1>4, <2>1 DEF Available, SaleOf, shopVars, saleVars, stockVars
<1>10. ~HoldsNumbering(q)'
  BY <1>1, <1>4 DEF HoldsNumbering
<1>11. Holds(q)'
  <2>1. InOrder(q)'
    <3> SUFFICES ASSUME NEW y \in picked'[q], NEW x \in Remaining(q)' PROVE y < x
      BY DEF InOrder
    <3>1. Needed(q)' = Needed(q)
      BY <1>4, SameShop DEF Needed
    <3>2. x \in Remaining(q) /\ x # p
      BY <1>3, <3>1 DEF Remaining
    <3>3. Remaining(q) \subseteq Nat /\ p <= x /\ p \in Nat
      <4>1. Remaining(q) \subseteq Nat
        BY ShopAssumption DEF Remaining, Needed, Leaving
      <4>2. QED
        BY <3>2, <4>1, FirstExists DEF NextStock
    <3>4. QED
      BY <1>1, <1>3, <3>2, <3>3 DEF Holds, InOrder
  <2>2. QED
    BY <1>6, <1>7, <1>8, <1>9, <1>10, <2>1 DEF Holds, NumberHolds
<1>12. QED
  BY <1>1, <1>4, <1>5, <1>10, <1>11, InsideCut

LEMMA FinishReads ==
    ASSUME Inv, NEW q \in Requests, Finish(q)
    PROVE  Reads(q)
<1>1. TypeOK /\ Holds(q) /\ pc[q] = "stock" /\ intent[q].op # "close" /\ Remaining(q) = {}
  BY DEF Inv, Holds, Shape, Finish
<1>2. HighestNumber \in Nat
  BY HighestIsLength DEF Inv, ShopInv, NumbersDense
<1>3. /\ TypeOK'
      /\ UNCHANGED shopVars
      /\ pc'[q] = "commit"
      /\ intent'[q] = intent[q]
      /\ \A r \in Requests \ {q} : SameLocals(r)
  <2>1. /\ drawn' \in [Requests -> Nat]
        /\ \A r \in Requests \ {q} : drawn'[r] = drawn[r]
    BY <1>1, <1>2 DEF Finish, TypeOK
  <2>2. QED
    BY <1>1, <2>1, ReadingTypes DEF Finish, TypeOK, Steps
<1>4. day'[q] = day[q] /\ picked'[q] = picked[q]
  BY DEF Finish
<1>5. Shape(q)'
  BY <1>1, <1>3, <1>4 DEF Holds, Shape
<1>6. ClockHolds(q)'
  <2>1. CASE PastClock(q)
    BY <1>1, <1>3, <1>4, <2>1, ClockStaysGood
  <2>2. CASE ~PastClock(q)
    BY <1>1, <1>3, <2>2 DEF ClockHolds, PastClock
  <2>3. QED
    BY <2>1, <2>2
<1>7. SaleHolds(q)' /\ TerminalHolds(q)'
  BY <1>1, <1>3, SameShop DEF Holds, SaleHolds, PastSale, TerminalHolds, Paying
<1>8. StockHolds(q)'
  <2> SUFFICES ASSUME intent[q].op = "checkout"
               PROVE  /\ \A x \in picked[q] : Available(SaleOf(q), x)'
                      /\ Leaving(SaleOf(q))' \subseteq picked[q]
    BY <1>3, <1>4 DEF StockHolds, Paying
  <2>1. \A x \in picked[q] : Available(SaleOf(q), x)
    BY <1>1 DEF Holds, StockHolds, Paying
  <2>2. \A x \in picked[q] : Available(SaleOf(q), x)'
    BY <1>3, <2>1 DEF Available, SaleOf, shopVars, saleVars, stockVars
  <2>3. Leaving(SaleOf(q)) \subseteq picked[q]
    BY <1>1 DEF Remaining, Needed
  <2>4. QED
    BY <1>3, <2>2, <2>3, SameShop
<1>9. NumberHolds(q)'
  BY <1>1, <1>3, SameShop DEF NumberHolds, HoldsNumbering, Finish, TypeOK
<1>10. Holds(q)'
  BY <1>3, <1>5, <1>6, <1>7, <1>8, <1>9 DEF Holds, InOrder
<1>11. \A r \in Requests \ {q} : ~(HoldsNumbering(r) /\ HoldsNumbering(q)')
  BY <1>1, <1>3 DEF Finish, Blockers, HoldsNumbering
<1>12. HoldsCut(q, Place(q))' => HoldsCut(q, Place(q)) /\ Place(q)' = Place(q)
  BY <1>1, <1>3, SameShop DEF HoldsCut
<1>13. QED
  BY <1>3, <1>10, <1>11, <1>12 DEF Reads, Inv, Exclusive

LEMMA DraftsRead ==
    ASSUME Inv, NEW q \in Requests, CheckDrafts(q)
    PROVE  Reads(q)
<1>1. TypeOK /\ Holds(q) /\ pc[q] = "drafts" /\ intent[q].op = "close"
  BY DEF Inv, Holds, Shape, CheckDrafts
<1>2. /\ TypeOK'
      /\ UNCHANGED shopVars
      /\ pc'[q] = "commit"
      /\ intent'[q] = intent[q]
      /\ \A r \in Requests \ {q} : SameLocals(r)
  BY <1>1, ReadingTypes DEF CheckDrafts, TypeOK, Steps
<1>3. day'[q] = day[q]
  BY DEF CheckDrafts
<1>4. Shape(q)'
  BY <1>1, <1>2 DEF Holds, Shape
<1>5. ClockHolds(q)'
  BY <1>1, <1>2, <1>3, ClockStaysGood DEF PastClock, CheckDrafts
<1>6. ~PastSale(q)' /\ ~Paying(q)' /\ ~HoldsNumbering(q)'
  BY <1>1, <1>2 DEF PastSale, Paying, HoldsNumbering, OnSale
<1>7. Holds(q)'
  BY <1>4, <1>5, <1>6, <1>2 DEF Holds, SaleHolds, TerminalHolds, StockHolds, NumberHolds, InOrder
<1>8. QED
  BY <1>1, <1>2, <1>6, <1>7, InsideCut

(* A transaction that ends without writing.                                *)
LEMMA EndReads ==
    ASSUME Inv, NEW q \in Requests, End(q), UNCHANGED <<shopVars, claims, served>>
    PROVE  Reads(q)
<1>1. TypeOK
  BY DEF Inv
<1>2. pc'[q] = "idle" /\ picked'[q] = {}
  BY <1>1 DEF End, Goto, TypeOK
<1>3. ShopTypeOK'
  BY <1>1 DEF TypeOK, ShopTypeOK, shopVars, saleVars, returnVars, stockVars
<1>4. TypeOK'
  BY <1>1, <1>3, ShopAssumption DEF End, Goto, TypeOK, Steps, Days
<1>5. Shape(q)'
  BY <1>2 DEF Shape
<1>6. ~PastClock(q)' /\ ~PastSale(q)' /\ ~Paying(q)' /\ ~HoldsNumbering(q)' /\ ~HoldsCut(q, Place(q))'
  BY <1>2 DEF PastClock, PastSale, Paying, HoldsNumbering, HoldsCut
<1>7. Holds(q)'
  BY <1>5, <1>6, <1>2 DEF Holds, ClockHolds, SaleHolds, TerminalHolds, StockHolds, NumberHolds, InOrder
<1>8. \A r \in Requests \ {q} : SameLocals(r)
  BY <1>1 DEF End, Goto, SameLocals, TypeOK
<1>9. QED
  BY <1>4, <1>6, <1>7, <1>8 DEF Reads

-----------------------------------------------------------------------------
(* Steps that write.                                                       *)

(* A step of the shop under which every request is undisturbed or over.     *)
LEMMA WritesKeepInv ==
    ASSUME Inv, TypeOK', ShopNext,
           \A r \in Requests : Undisturbed(r) \/ (pc'[r] = "idle" /\ picked'[r] = {})
    PROVE  Inv'
<1>1. ShopInv'
  BY ShopStepKeepsInv DEF Inv
<1>2. ASSUME NEW r \in Requests PROVE Holds(r)'
  <2>1. CASE Undisturbed(r)
    BY <2>1, OthersHold DEF Inv
  <2>2. CASE pc'[r] = "idle" /\ picked'[r] = {}
    BY <2>2 DEF Holds, Shape, ClockHolds, SaleHolds, TerminalHolds, StockHolds, NumberHolds, InOrder,
       PastClock, PastSale, Paying, HoldsNumbering
  <2>3. QED
    BY <2>1, <2>2
<1>3. ASSUME NEW r \in Requests
      PROVE  /\ HoldsCut(r, Place(r))' => HoldsCut(r, Place(r)) /\ Place(r)' = Place(r)
             /\ HoldsNumbering(r)' => HoldsNumbering(r)
  BY DEF Undisturbed, SameLocals, HoldsCut, HoldsNumbering, Place, OnSale, SaleOf
<1>4. Exclusive'
  BY <1>3 DEF Inv, Exclusive
<1>5. QED
  BY <1>1, <1>2, <1>4 DEF Inv

(* A commit is the operation of Shop.tla it stands for.                     *)
LEMMA CommitIsShopStep ==
    ASSUME Inv, NEW q \in Requests, Commit(q)
    PROVE  \/ intent[q].op = "checkout" /\ Sell(SaleOf(q), day[q])
           \/ /\ intent[q].op = "return"
              /\ GiveBack(SaleOf(q), day[q], intent[q].refund, intent[q].restock)
           \/ intent[q].op = "close" /\ CloseDay(intent[q].warehouse, day[q])
           \/ intent[q].op = "receive" /\ Receive(intent[q].warehouse, intent[q].restock)
<1>1. TypeOK /\ Holds(q) /\ pc[q] = "commit" /\ intent[q] \in Intents
  BY DEF Inv, Holds, Shape, Commit
<1>2. CASE intent[q].op = "checkout"
  <2>1. SellEffect(SaleOf(q), day[q], HighestNumber + 1)
    BY <1>1, <1>2 DEF Commit, SaleOf, Holds, NumberHolds, HoldsNumbering
  <2>2. PastClock(q) /\ PastSale(q) /\ Paying(q) /\ NeedsOpenDay(q)
    BY <1>1, <1>2 DEF PastClock, PastSale, Paying, NeedsOpenDay, OnSale
  <2>3. Place(q) = WarehouseOf[SaleOf(q)]
    BY <1>2 DEF Place, OnSale
  <2>4. Current(WarehouseOf[SaleOf(q)], day[q]) /\ DayOpen(WarehouseOf[SaleOf(q)], day[q])
    BY <1>1, <2>2, <2>3 DEF Holds, ClockHolds
  <2>5. Editable(SaleOf(q)) /\ cart[SaleOf(q)] # Nothing
    BY <1>1, <1>2, <2>2 DEF Holds, SaleHolds, SaleReady, TerminalHolds, Editable
  <2>6. \A p \in Leaving(SaleOf(q)) : Available(SaleOf(q), p)
    BY <1>1, <2>2 DEF Holds, StockHolds
  <2>7. QED
    BY <1>2, <2>1, <2>4, <2>5, <2>6 DEF Sell
<1>3. CASE intent[q].op = "return"
  <2>1. ReturnEffect(SaleOf(q), day[q], intent[q].refund, intent[q].restock)
    BY <1>1, <1>3 DEF Commit, SaleOf
  <2>2. PastClock(q) /\ PastSale(q)
    BY <1>1, <1>3 DEF PastClock, PastSale, OnSale
  <2>3. Place(q) = WarehouseOf[SaleOf(q)]
    BY <1>3 DEF Place, OnSale
  <2>4. Current(WarehouseOf[SaleOf(q)], day[q])
    BY <1>1, <2>2, <2>3 DEF Holds, ClockHolds
  <2>5. intent[q].refund # Nothing => DayOpen(WarehouseOf[SaleOf(q)], day[q])
    BY <1>1, <1>3, <2>2, <2>3 DEF Holds, ClockHolds, NeedsOpenDay
  <2>6. /\ status[SaleOf(q)] = "COMPLETED"
        /\ WithinSale(SaleOf(q), intent[q].refund, intent[q].restock)
    BY <1>1, <1>3, <2>2 DEF Holds, SaleHolds, SaleReady
  <2>7. intent[q].refund # Nothing \/ intent[q].restock # Nothing
    BY <1>1, <1>3 DEF Intents, Payloads
  <2>8. QED
    BY <1>3, <2>1, <2>4, <2>5, <2>6, <2>7 DEF GiveBack
<1>4. CASE intent[q].op = "close"
  <2>1. CloseEffect(intent[q].warehouse, day[q])
    BY <1>1, <1>4 DEF Commit
  <2>2. Current(intent[q].warehouse, day[q]) /\ DayOpen(intent[q].warehouse, day[q])
    BY <1>1, <1>4 DEF Holds, ClockHolds, PastClock, Place, OnSale
  <2>3. QED
    BY <1>4, <2>1, <2>2 DEF CloseDay
<1>5. CASE intent[q].op = "receive"
  BY <1>1, <1>5 DEF Commit, Receive
<1>6. QED
  BY <1>1, <1>2, <1>3, <1>4, <1>5 DEF Intents, Payloads, Operations

(* The locks keep a commit away from what the others have read.             *)
LEMMA CommitDisturbsNobody ==
    ASSUME Inv, NEW q \in Requests, Commit(q), NEW r \in Requests, r # q
    PROVE  Undisturbed(r)
<1>1. TypeOK /\ ShopTypeOK /\ Holds(q) /\ Holds(r) /\ pc[q] = "commit" /\ intent[q] \in Intents
  BY DEF Inv, Holds, Shape, Commit, TypeOK
<1>2. SameLocals(r)
  BY <1>1 DEF Commit, End, Goto, SameLocals, TypeOK
<1>3. OnSale(r)' = OnSale(r) /\ SaleOf(r)' = SaleOf(r) /\ Place(r)' = Place(r)
  BY <1>2 DEF SameLocals, OnSale, SaleOf, Place
<1>4. PastSale(r) \/ Paying(r) =>
          /\ SaleOf(r) \in Sales
          /\ Place(r) = WarehouseOf[SaleOf(r)]
          /\ Place(r) \in Warehouses
          /\ picked[r] \subseteq Products
  BY <1>1, PlaceOfPayment DEF Holds
<1>5. PastSale(r) \/ Paying(r) => PastClock(r)
  BY DEF PastSale, Paying, PastClock, OnSale
<1>6. PastClock(r) => HoldsCut(r, Place(r))
  BY DEF PastClock, HoldsCut
<1>7. intent[q].op # "receive" /\ PastClock(r) => Place(q) # Place(r)
  BY <1>1, <1>6 DEF HoldsCut, Inv, Exclusive
<1>8. \A w \in Warehouses, p \in Products : stock[w][p] \in Int
  BY <1>1 DEF ShopTypeOK
<1>9. today \in Int
  BY <1>1 DEF ShopTypeOK, Days
<1>10. CASE intent[q].op = "checkout"
  <2> DEFINE s == SaleOf(q)
  <2>1. Sell(s, day[q]) /\ SellEffect(s, day[q], HighestNumber + 1)
    BY <1>10, CommitIsShopStep DEF Sell
  <2>2. s \in Sales /\ Place(q) = WarehouseOf[s] /\ Place(q) \in Warehouses
    BY <1>1, <1>10, PlaceOfPayment DEF Holds, PastSale, OnSale
  <2>3. s \notin Completed /\ Completed' = Completed \cup {s}
    BY <1>1, <2>1, <2>2 DEF Sell, Editable, SellEffect, Completed, ShopTypeOK
  <2>4. UNCHANGED <<today, active, cart, refunded, restocked, zreports>>
    BY <2>1 DEF SellEffect, returnVars
  <2>5. \A t \in Sales \ {s} : status'[t] = status[t] /\ soldOn'[t] = soldOn[t]
    BY <1>1, <2>1 DEF SellEffect, ShopTypeOK
  <2>6. \A w \in Warehouses \ {Place(q)} : stock'[w] = stock[w]
    BY <1>1, <2>1, <2>2 DEF SellEffect, ShopTypeOK
  <2>7. PastClock(r) =>
            /\ CompletedAt(Place(r))' = CompletedAt(Place(r))
            /\ \A t \in CompletedAt(Place(r)) : soldOn'[t] = soldOn[t]
            /\ ZReportsOf(Place(r))' = ZReportsOf(Place(r))
    BY <1>3, <1>7, <1>10, <2>2, <2>3, <2>4, <2>5 DEF CompletedAt, Completed, ZReportsOf
  <2>8. PastSale(r) => status'[SaleOf(r)] = status[SaleOf(r)]
    BY <1>4, <1>5, <1>7, <1>10, <2>2, <2>5
  <2>9. Paying(r) => \A p \in picked[r] : stock[Place(r)][p] <= stock'[Place(r)][p]
    BY <1>4, <1>5, <1>7, <1>8, <1>10, <2>6
  <2>10. TerminalUsable(SaleOf(r))' = TerminalUsable(SaleOf(r))
    BY <1>3, <2>4 DEF TerminalUsable
  <2>11. ~HoldsNumbering(r)
    BY <1>1, <1>10 DEF Inv, Exclusive, HoldsNumbering
  <2>12. QED
    BY <1>2, <1>9, <2>4, <2>7, <2>8, <2>9, <2>10, <2>11 DEF Undisturbed
<1>11. CASE intent[q].op = "return"
  <2> DEFINE s == SaleOf(q)
  <2>1. ReturnEffect(s, day[q], intent[q].refund, intent[q].restock)
    BY <1>11, CommitIsShopStep DEF GiveBack
  <2>2. s \in Sales /\ Place(q) = WarehouseOf[s] /\ Place(q) \in Warehouses
    BY <1>1, <1>11, PlaceOfPayment DEF Holds, PastSale, OnSale
  <2>3. UNCHANGED <<today, active, status, cart, number, soldOn, zreports>>
    BY <2>1 DEF ReturnEffect, saleVars
  <2>4. \A t \in Sales \ {s} : refunded'[t] = refunded[t] /\ restocked'[t] = restocked[t]
    BY <1>1, <2>1 DEF ReturnEffect, ShopTypeOK
  <2>5. \A w \in Warehouses \ {Place(q)} : stock'[w] = stock[w]
    BY <1>1, <2>1, <2>2 DEF ReturnEffect, ShopTypeOK
  <2>6. /\ CompletedAt(Place(r))' = CompletedAt(Place(r))
        /\ ZReportsOf(Place(r))' = ZReportsOf(Place(r))
        /\ HighestNumber' = HighestNumber
    BY <1>3, <2>3 DEF CompletedAt, Completed, ZReportsOf, HighestNumber
  <2>7. PastSale(r) =>
            /\ refunded'[SaleOf(r)] = refunded[SaleOf(r)]
            /\ restocked'[SaleOf(r)] = restocked[SaleOf(r)]
    BY <1>4, <1>5, <1>7, <1>11, <2>2, <2>4
  <2>8. Paying(r) => \A p \in picked[r] : stock[Place(r)][p] <= stock'[Place(r)][p]
    BY <1>4, <1>5, <1>7, <1>8, <1>11, <2>5
  <2>9. TerminalUsable(SaleOf(r))' = TerminalUsable(SaleOf(r))
    BY <1>3, <2>3 DEF TerminalUsable
  <2>10. QED
    BY <1>2, <1>9, <2>3, <2>6, <2>7, <2>8, <2>9 DEF Undisturbed
<1>12. CASE intent[q].op = "close"
  <2>1. CloseEffect(Place(q), day[q])
    BY <1>12, CommitIsShopStep DEF CloseDay, Place, OnSale
  <2>2. UNCHANGED <<today, active, status, cart, number, soldOn, refunded, restocked, stock>>
    BY <2>1 DEF CloseEffect, saleVars, returnVars, stockVars
  <2>3. PastClock(r) => ZReportsOf(Place(r))' = ZReportsOf(Place(r))
    <3>1. PICK z : z.warehouse = Place(q) /\ zreports' = zreports \cup {z}
      BY <2>1 DEF CloseEffect
    <3>2. QED
      BY <1>3, <1>7, <1>12, <3>1 DEF ZReportsOf
  <2>4. CompletedAt(Place(r))' = CompletedAt(Place(r)) /\ HighestNumber' = HighestNumber
    BY <1>3, <2>2 DEF CompletedAt, Completed, HighestNumber
  <2>5. Paying(r) => \A p \in picked[r] : stock[Place(r)][p] <= stock'[Place(r)][p]
    BY <1>4, <1>8, <2>2
  <2>6. TerminalUsable(SaleOf(r))' = TerminalUsable(SaleOf(r))
    BY <1>3, <2>2 DEF TerminalUsable
  <2>7. QED
    BY <1>2, <1>9, <2>2, <2>3, <2>4, <2>5, <2>6 DEF Undisturbed
<1>13. CASE intent[q].op = "receive"
  <2> DEFINE w == intent[q].warehouse
             units == intent[q].restock
  <2>1. ReceiveEffect(w, units)
    BY <1>13, CommitIsShopStep DEF Receive
  <2>2. UNCHANGED <<today, active, status, cart, number, soldOn, refunded, restocked, zreports>>
    BY <2>1 DEF ReceiveEffect, saleVars, returnVars
  <2>3. ASSUME Paying(r), NEW p \in picked[r]
        PROVE  stock[Place(r)][p] <= stock'[Place(r)][p]
    <3>1. Place(r) \in Warehouses /\ p \in Products
      BY <1>4, <2>3
    <3>2. stock[Place(r)][p] \in Int /\ OfTracked(units)[p] \in Nat
      <4>1. units[p] \in Nat
        BY <1>1, <3>1, ShopAssumption DEF Intents, Payloads
      <4>2. QED
        BY <1>8, <3>1, <4>1 DEF OfTracked
    <3>3. \/ stock'[Place(r)][p] = stock[Place(r)][p]
          \/ stock'[Place(r)][p] = stock[Place(r)][p] + OfTracked(units)[p]
      BY <1>1, <2>1, <3>1 DEF ReceiveEffect, With, ShopTypeOK
    <3>4. QED
      BY <3>2, <3>3
  <2>4. /\ CompletedAt(Place(r))' = CompletedAt(Place(r))
        /\ ZReportsOf(Place(r))' = ZReportsOf(Place(r))
        /\ HighestNumber' = HighestNumber
    BY <1>3, <2>2 DEF CompletedAt, Completed, ZReportsOf, HighestNumber
  <2>5. TerminalUsable(SaleOf(r))' = TerminalUsable(SaleOf(r))
    BY <1>3, <2>2 DEF TerminalUsable
  <2>6. QED
    BY <1>2, <1>9, <2>2, <2>3, <2>4, <2>5 DEF Undisturbed
<1>14. QED
  BY <1>1, <1>10, <1>11, <1>12, <1>13 DEF Intents, Payloads, Operations

LEMMA CommitKeepsInv ==
    ASSUME Inv, NEW q \in Requests, Commit(q)
    PROVE  Inv' /\ ShopNext
<1>1. TypeOK /\ pc[q] = "commit" /\ intent[q] \in Intents /\ day[q] \in Days
  BY DEF Inv, Holds, Shape, Commit, TypeOK
<1>2. ShopNext
  BY <1>1, CommitIsShopStep DEF ShopNext, SaleOf, Intents, Payloads
<1>3. ShopTypeOK'
  BY <1>2, ShopStepKeepsInv DEF Inv, ShopInv
<1>4. claims' \subseteq Intents /\ served' \in [Keys -> Nat]
  BY <1>1 DEF Commit, TypeOK
<1>5. TypeOK'
  BY <1>1, <1>3, <1>4, ShopAssumption DEF Commit, End, Goto, TypeOK, Steps, Days
<1>6. pc'[q] = "idle" /\ picked'[q] = {}
  BY <1>1 DEF Commit, End, Goto, TypeOK
<1>7. \A r \in Requests \ {q} : Undisturbed(r)
  BY CommitDisturbsNobody
<1>8. QED
  BY <1>2, <1>5, <1>6, <1>7, WritesKeepInv

(* The one-step transactions wait for the rows that others rely on.         *)
LEMMA EditsKeepInv ==
    ASSUME Inv, TypeOK', ShopNext, UNCHANGED requestVars,
           UNCHANGED <<soldOn, refunded, restocked, number, zreports>>,
           Completed' = Completed,
           today <= today',
           \A r \in Requests :
              /\ PastSale(r) => /\ status'[SaleOf(r)] = status[SaleOf(r)]
                                /\ cart'[SaleOf(r)] = cart[SaleOf(r)]
              /\ Paying(r) => /\ TerminalUsable(SaleOf(r)) => TerminalUsable(SaleOf(r))'
                              /\ \A p \in picked[r] : stock[Place(r)][p] <= stock'[Place(r)][p]
    PROVE  Inv'
<1>1. ASSUME NEW r \in Requests PROVE Undisturbed(r)
  <2>1. SameLocals(r)
    BY DEF SameLocals, requestVars
  <2>2. Place(r)' = Place(r)
    BY <2>1 DEF SameLocals, Place, OnSale, SaleOf
  <2>3. /\ CompletedAt(Place(r))' = CompletedAt(Place(r))
        /\ ZReportsOf(Place(r))' = ZReportsOf(Place(r))
        /\ HighestNumber' = HighestNumber
    BY <2>2 DEF CompletedAt, ZReportsOf, HighestNumber
  <2>4. QED
    BY <2>1, <2>3 DEF Undisturbed
<1>2. QED
  BY <1>1, WritesKeepInv

LEMMA StockStays ==
    ASSUME Inv, NEW r \in Requests, Paying(r), NEW p \in picked[r],
           stock'[Place(r)][p] = stock[Place(r)][p]
    PROVE  stock[Place(r)][p] <= stock'[Place(r)][p]
<1>1. Place(r) \in Warehouses /\ p \in Products
  BY PlaceOfPayment DEF Inv, Holds
<1>2. stock[Place(r)][p] \in Int
  BY <1>1 DEF Inv, ShopInv, ShopTypeOK
<1>3. QED
  BY <1>2

LEMMA DraftKeepsLocks ==
    ASSUME Inv, NEW s \in Sales, Draft(s)
    PROVE  Inv' /\ ShopNext
<1>1. TypeOK /\ ShopTypeOK /\ today \in Int
  BY DEF Inv, TypeOK, ShopTypeOK, Days
<1>2. ShopNext
  BY DEF Draft, ShopNext
<1>3. TypeOK'
  <2>1. ShopTypeOK'
    BY <1>2, ShopStepKeepsInv DEF Inv, ShopInv
  <2>2. QED
    BY <1>1, <2>1 DEF Draft, TypeOK, requestVars
<1>4. /\ UNCHANGED <<soldOn, refunded, restocked, number, zreports, today, active, stock>>
      /\ UNCHANGED requestVars
  BY DEF Draft, CreateSale, CancelSale, AddLine, RemoveLine, returnVars, stockVars
<1>5. /\ status[s] \in {"ABSENT", "DRAFT"}
      /\ status'[s] \in {"DRAFT", "DELETED"}
      /\ \A t \in Sales \ {s} : status'[t] = status[t] /\ cart'[t] = cart[t]
      /\ status[s] = "ABSENT" \/ SaleFree(s)
  BY <1>1 DEF Draft, CreateSale, CancelSale, AddLine, RemoveLine, Editable, ShopTypeOK
<1>6. Completed' = Completed
  BY <1>5 DEF Completed
<1>7. ASSUME NEW r \in Requests, PastSale(r)
      PROVE  status'[SaleOf(r)] = status[SaleOf(r)] /\ cart'[SaleOf(r)] = cart[SaleOf(r)]
  <2>1. SaleOf(r) \in Sales
    BY <1>1, <1>7, PlaceOfPayment DEF Inv, Holds
  <2>2. HoldsSale(r, SaleOf(r)) /\ status[SaleOf(r)] # "ABSENT"
    BY <1>7 DEF PastSale, HoldsSale, Inv, Holds, SaleHolds, SaleReady
  <2>3. SaleOf(r) # s
    BY <1>5, <2>2 DEF SaleFree
  <2>4. QED
    BY <1>5, <2>1, <2>3
<1>8. ASSUME NEW r \in Requests, Paying(r)
      PROVE  /\ TerminalUsable(SaleOf(r)) => TerminalUsable(SaleOf(r))'
             /\ \A p \in picked[r] : stock[Place(r)][p] <= stock'[Place(r)][p]
  <2>1. SaleOf(r)' = SaleOf(r)
    BY <1>4 DEF SaleOf, requestVars
  <2>2. QED
    BY <1>4, <1>8, <2>1, StockStays DEF TerminalUsable
<1>9. today <= today'
  BY <1>1, <1>4
<1>10. QED
  BY <1>2, <1>3, <1>4, <1>6, <1>7, <1>8, <1>9, EditsKeepInv

LEMMA TerminalKeepsLocks ==
    ASSUME Inv, NEW t \in Terminals, Terminal(t)
    PROVE  Inv' /\ ShopNext
<1>1. TypeOK /\ ShopTypeOK /\ today \in Int
  BY DEF Inv, TypeOK, ShopTypeOK, Days
<1>2. ShopNext
  BY DEF Terminal, ShopNext
<1>3. TypeOK'
  <2>1. ShopTypeOK'
    BY <1>2, ShopStepKeepsInv DEF Inv, ShopInv
  <2>2. QED
    BY <1>1, <2>1 DEF Terminal, TypeOK, requestVars
<1>4. /\ UNCHANGED <<soldOn, refunded, restocked, number, zreports, today, status, cart, stock>>
      /\ UNCHANGED requestVars
  BY DEF Terminal, SwitchTerminal, saleVars, returnVars, stockVars
<1>5. Completed' = Completed
  BY <1>4 DEF Completed
<1>6. ASSUME NEW r \in Requests, Paying(r)
      PROVE  /\ TerminalUsable(SaleOf(r)) => TerminalUsable(SaleOf(r))'
             /\ \A p \in picked[r] : stock[Place(r)][p] <= stock'[Place(r)][p]
  <2>1. TerminalOf[SaleOf(r)] = NoTerminal \/ TerminalOf[SaleOf(r)] # t
    BY <1>6 DEF Terminal, TerminalFree, HoldsTerminal, Paying
  <2>2. TerminalOf[SaleOf(r)] \in Terminals \cup {NoTerminal}
    BY <1>1, <1>6, PlaceOfPayment, ShopAssumption DEF Inv, Holds
  <2>3. SaleOf(r)' = SaleOf(r)
    BY <1>4 DEF SaleOf, requestVars
  <2>4. TerminalUsable(SaleOf(r)) => TerminalUsable(SaleOf(r))'
    BY <1>1, <2>1, <2>2, <2>3 DEF TerminalUsable, Terminal, SwitchTerminal, ShopTypeOK
  <2>5. QED
    BY <1>4, <1>6, <2>4, StockStays
<1>7. today <= today'
  BY <1>1, <1>4
<1>8. QED
  BY <1>2, <1>3, <1>4, <1>5, <1>6, <1>7, EditsKeepInv

LEMMA MovementKeepsLocks ==
    ASSUME Inv, NEW w \in Warehouses, NEW x \in Products, Stock(w, x)
    PROVE  Inv' /\ ShopNext
<1>1. TypeOK /\ ShopTypeOK /\ today \in Int
  BY DEF Inv, TypeOK, ShopTypeOK, Days
<1>2. ShopNext
  BY DEF Stock, ShopNext
<1>3. TypeOK'
  <2>1. ShopTypeOK'
    BY <1>2, ShopStepKeepsInv DEF Inv, ShopInv
  <2>2. QED
    BY <1>1, <2>1 DEF Stock, TypeOK, requestVars
<1>4. /\ UNCHANGED <<soldOn, refunded, restocked, number, zreports, today, status, cart, active>>
      /\ UNCHANGED requestVars
  BY DEF Stock, MoveStock, saleVars, returnVars
<1>5. Completed' = Completed
  BY <1>4 DEF Completed
<1>6. ASSUME NEW r \in Requests, Paying(r)
      PROVE  /\ TerminalUsable(SaleOf(r)) => TerminalUsable(SaleOf(r))'
             /\ \A p \in picked[r] : stock[Place(r)][p] <= stock'[Place(r)][p]
  <2>1. SaleOf(r)' = SaleOf(r)
    BY <1>4 DEF SaleOf, requestVars
  <2>2. ASSUME NEW p \in picked[r] PROVE stock'[Place(r)][p] = stock[Place(r)][p]
    <3>1. Place(r) # w \/ p # x
      BY <1>6 DEF Stock, HoldsStock, Paying
    <3>2. PICK level : stock' = [stock EXCEPT ![w][x] = level]
      BY DEF Stock, MoveStock
    <3>3. Place(r) \in Warehouses /\ p \in Products
      BY <1>1, <1>6, PlaceOfPayment DEF Inv, Holds
    <3>4. QED
      BY <1>1, <3>1, <3>2, <3>3 DEF ShopTypeOK
  <2>3. QED
    BY <1>4, <1>6, <2>1, <2>2, StockStays DEF TerminalUsable
<1>7. today <= today'
  BY <1>1, <1>4
<1>8. QED
  BY <1>2, <1>3, <1>4, <1>5, <1>6, <1>7, EditsKeepInv

LEMMA MidnightKeepsLocks ==
    ASSUME Inv, Midnight
    PROVE  Inv' /\ ShopNext
<1>1. TypeOK /\ ShopTypeOK /\ today \in Int
  BY DEF Inv, TypeOK, ShopTypeOK, Days
<1>2. ShopNext
  BY DEF Midnight, ShopNext
<1>3. TypeOK'
  <2>1. ShopTypeOK'
    BY <1>2, ShopStepKeepsInv DEF Inv, ShopInv
  <2>2. QED
    BY <1>1, <2>1 DEF Midnight, TypeOK, requestVars
<1>4. /\ UNCHANGED <<soldOn, refunded, restocked, number, zreports, status, cart, active, stock>>
      /\ UNCHANGED requestVars
  BY DEF Midnight, NewDay, saleVars, returnVars, stockVars
<1>5. Completed' = Completed
  BY <1>4 DEF Completed
<1>6. ASSUME NEW r \in Requests, Paying(r)
      PROVE  /\ TerminalUsable(SaleOf(r)) => TerminalUsable(SaleOf(r))'
             /\ \A p \in picked[r] : stock[Place(r)][p] <= stock'[Place(r)][p]
  <2>1. SaleOf(r)' = SaleOf(r)
    BY <1>4 DEF SaleOf, requestVars
  <2>2. QED
    BY <1>4, <1>6, <2>1, StockStays DEF TerminalUsable
<1>7. today <= today'
  BY <1>1 DEF Midnight, NewDay
<1>8. QED
  BY <1>2, <1>3, <1>4, <1>5, <1>6, <1>7, EditsKeepInv

-----------------------------------------------------------------------------
(* Every step keeps the invariant and is a step of the shop, or none.       *)

LEMMA InitInv == Init => Inv
<1> SUFFICES ASSUME Init PROVE Inv
  OBVIOUS
<1>1. ShopInv
  BY ShopInitInv DEF Init
<1>2. \A r \in Requests : pc[r] = "idle" /\ picked[r] = {}
  BY DEF Init
<1>3. TypeOK
  <2>1. 0 \in Days
    BY ShopAssumption DEF Days
  <2>2. QED
    BY <1>1, <2>1 DEF Init, TypeOK, ShopInv, Steps
<1>4. \A r \in Requests : Holds(r)
  BY <1>2 DEF Holds, Shape, ClockHolds, SaleHolds, TerminalHolds, StockHolds, NumberHolds, InOrder,
     PastClock, PastSale, Paying, HoldsNumbering
<1>5. Exclusive
  BY <1>2 DEF Exclusive, HoldsCut, HoldsNumbering
<1>6. QED
  BY <1>1, <1>3, <1>4, <1>5 DEF Inv

LEMMA StepKeepsInv ==
    ASSUME Inv, [Next]_vars
    PROVE  Inv' /\ [ShopNext]_shopVars
<1>1. ASSUME NEW q \in Requests, Reads(q) PROVE Inv' /\ [ShopNext]_shopVars
  BY <1>1, ReadKeepsInv DEF Reads
<1>2. ASSUME NEW q \in Requests, NEW v \in Offered, Begin(q, v)
      PROVE  Inv' /\ [ShopNext]_shopVars
  BY <1>1, <1>2, BeginReads
<1>3. ASSUME NEW q \in Requests, Step(q) \/ Abort(q) PROVE Inv' /\ [ShopNext]_shopVars
  <2>1. CASE Claim(q)
    BY <1>1, <2>1, ClaimReads
  <2>2. CASE LockCut(q)
    BY <1>1, <2>2, CutReads
  <2>3. CASE ReadClock(q)
    BY <1>1, <2>3, ClockReads
  <2>4. CASE LockSale(q)
    BY <1>1, <2>4, SaleReads
  <2>5. CASE LockTerminal(q)
    BY <1>1, <2>5, TerminalReads
  <2>6. CASE LockStock(q)
    BY <1>1, <2>6, StockReads
  <2>7. CASE Finish(q)
    BY <1>1, <2>7, FinishReads
  <2>8. CASE CheckDrafts(q)
    BY <1>1, <2>8, DraftsRead
  <2>9. CASE Replay(q) \/ Refuse(q) \/ Abort(q)
    BY <1>1, <2>9, EndReads DEF Replay, Refuse, Abort
  <2>10. CASE Commit(q)
    BY <2>10, CommitKeepsInv
  <2>11. QED
    BY <1>3, <2>1, <2>2, <2>3, <2>4, <2>5, <2>6, <2>7, <2>8, <2>9, <2>10 DEF Step
<1>4. ASSUME NEW s \in Sales, Draft(s) PROVE Inv' /\ [ShopNext]_shopVars
  BY <1>4, DraftKeepsLocks
<1>5. ASSUME NEW t \in Terminals, Terminal(t) PROVE Inv' /\ [ShopNext]_shopVars
  BY <1>5, TerminalKeepsLocks
<1>6. ASSUME NEW w \in Warehouses, NEW p \in Products, Stock(w, p)
      PROVE  Inv' /\ [ShopNext]_shopVars
  BY <1>6, MovementKeepsLocks
<1>7. CASE Midnight
  BY <1>7, MidnightKeepsLocks
<1>8. CASE UNCHANGED vars
  <2>1. UNCHANGED shopVars /\ UNCHANGED requestVars
    BY <1>8 DEF vars
  <2>2. ShopInv'
    BY <2>1, ShopStepKeepsInv DEF Inv
  <2>3. TypeOK'
    BY <1>8, <2>2 DEF Inv, TypeOK, ShopInv, vars, requestVars
  <2>4. ASSUME NEW r \in Requests PROVE Holds(r)' /\ SameLocals(r)
    <3>1. SameLocals(r)
      BY <2>1 DEF SameLocals, requestVars
    <3>2. QED
      BY <2>1, <2>3, <3>1, ReadersDisturbNobody, OthersHold DEF Inv, Holds
  <2>5. Exclusive'
    BY <2>4 DEF Inv, Exclusive, SameLocals, HoldsCut, HoldsNumbering, Place, OnSale, SaleOf
  <2>6. QED
    BY <2>1, <2>2, <2>3, <2>4, <2>5 DEF Inv
<1>9. QED
  BY <1>2, <1>3, <1>4, <1>5, <1>6, <1>7, <1>8 DEF Next

(* The inductive invariant holds in every reachable state.                  *)
THEOREM CheckoutInvariant == Spec => []Inv
<1>1. Init => Inv
  BY InitInv
<1>2. Inv /\ [Next]_vars => Inv'
  BY StepKeepsInv
<1>3. QED
  BY <1>1, <1>2, PTL DEF Spec

(* Rows, claims and request locals keep their types.                        *)
THEOREM TypesHold == Spec => []TypeOK
<1>1. Inv => TypeOK
  BY DEF Inv
<1>2. QED
  BY <1>1, CheckoutInvariant, PTL

(* Concurrent requests under their locks do only what the shop allows one   *)
(* transaction after another.                                               *)
THEOREM Serializable == Spec => ShopSpec
<1>1. Init => ShopInit
  BY DEF Init
<1>2. Inv /\ [Next]_vars => [ShopNext]_shopVars
  BY StepKeepsInv
<1>3. QED
  BY <1>1, <1>2, CheckoutInvariant, PTL DEF Spec, ShopSpec

(* However requests interleave, fail and retry: the ticket numbers of all   *)
(* warehouses have no gap and no duplicate.                                 *)
THEOREM NumbersNeverSkip == Spec => []SaleNumbersGapless
BY Serializable, GaplessNumbers, PTL

(* ... no sale or refund is missing from the final Z of its day.             *)
THEOREM NothingMissesItsZ == Spec => []ZCoversItsDay
BY Serializable, ZIsComplete, PTL

(* ... no line is given back beyond what was sold.                          *)
THEOREM NeverOverReturned == Spec => []ReturnsWithinSale
BY Serializable, ReturnsBounded, PTL

(* ... and the numbers of a warehouse follow its business days.             *)
THEOREM NumbersFollowTheClock == Spec => []NumbersFollowDays
BY Serializable, NumbersInOrder, PTL

(* ... and what the documents say adds up to what there is.                 *)
THEOREM RequestsKeepTheBooks == Spec => []BooksAddUp
BY Serializable, BooksBalance, PTL

(* However checkouts, adjustments and transfers race for a balance, no      *)
(* checkout overdraws it.                                                   *)
THEOREM RacesNeverOversell == Spec => NeverOversells
BY Serializable, NoSaleOversells, PTL

(* However a checkout races the switch of its terminal, it never completes   *)
(* after the switch.                                                        *)
THEOREM TillIsOnAtCommit == Spec => SoldAtActiveTerminal
BY Serializable, TillIsOn, PTL

(* No request, retried, refused or rolled back, rewrites what is completed. *)
THEOREM RequestsRewriteNothing == Spec => HistoryIsFinal
BY Serializable, NothingRewritten, PTL

-----------------------------------------------------------------------------
(* A key has its effect once.                                              *)

\* A request that claimed a key and has not ended.
Claimed(r) == pc[r] \notin {"idle", "claim"} /\ intent[r].key # NoKey

\* The key of a request in flight is its own, and has no record yet.
KeysHold ==
    \A r \in Requests : Claimed(r) =>
        /\ ~Recorded(intent[r].key)
        /\ \A q \in Requests \ {r} : Claimed(q) => intent[q].key # intent[r].key

OnceInv == Inv /\ KeysHold /\ ExactlyOnce

(* A step of one request, to a key that is free, leaves every key with one. *)
LEMMA OneMoves ==
    ASSUME KeysHold, NEW q \in Requests, claims' = claims,
           \A r \in Requests \ {q} : SameLocals(r),
           Claimed(q)' =>
              \/ Claimed(q) /\ intent'[q] = intent[q]
              \/ /\ ~Recorded(intent'[q].key)
                 /\ \A r \in Requests \ {q} : ~HoldsKey(r, intent'[q].key)
    PROVE  KeysHold'
<1>1. \A k : Recorded(k)' = Recorded(k)
  BY DEF Recorded
<1>2. \A r \in Requests \ {q} : Claimed(r)' = Claimed(r) /\ intent'[r] = intent[r]
  BY DEF Claimed, SameLocals
<1>3. \A r \in Requests : Claimed(r) => HoldsKey(r, intent[r].key)
  BY DEF Claimed, HoldsKey
<1>4. \A r \in Requests : Claimed(r)' => ~Recorded(intent'[r].key)
  BY <1>1, <1>2 DEF KeysHold
<1>5. ASSUME NEW r \in Requests \ {q}, Claimed(q)', Claimed(r)
      PROVE  intent[r].key # intent'[q].key
  BY <1>3, <1>5 DEF KeysHold, HoldsKey
<1>6. QED
  BY <1>1, <1>2, <1>4, <1>5 DEF KeysHold

(* What answers a recorded key is never taken away.                         *)
LEMMA ResultsStay ==
    ASSUME ShopInv, [ShopNext]_shopVars, NEW q \in Intents, HasResult(q)
    PROVE  HasResult(q)'
<1>1. q.sale \in Sales
  BY DEF Intents, Payloads
<1>2. /\ \A s \in Completed : status'[s] = "COMPLETED"
      /\ returns \subseteq returns'
      /\ zreports \subseteq zreports'
  BY StepKeepsHistory DEF ShopInv, Kept
<1>3. status[q.sale] = "COMPLETED" => status'[q.sale] = "COMPLETED"
  BY <1>1, <1>2 DEF Completed
<1>4. ZReportsOf(q.warehouse) \subseteq ZReportsOf(q.warehouse)'
  BY <1>2 DEF ZReportsOf
<1>5. QED
  BY <1>2, <1>3, <1>4 DEF HasResult

(* A commit leaves what its replays will answer with.                       *)
LEMMA CommitHasResult ==
    ASSUME Inv, NEW q \in Requests, Commit(q), NEW v \in Intents, v = intent[q]
    PROVE  HasResult(v)'
<1>1. TypeOK /\ ShopTypeOK
  BY DEF Inv, TypeOK
<1>2. CASE v.op = "checkout"
  <2>1. SellEffect(v.sale, day[q], drawn[q]) /\ v.sale \in Sales
    BY <1>2 DEF Commit, Intents, Payloads
  <2>2. QED
    BY <1>1, <1>2, <2>1 DEF SellEffect, HasResult, ShopTypeOK
<1>3. CASE v.op = "return"
  <2>1. ReturnEffect(v.sale, day[q], v.refund, v.restock)
    BY <1>3 DEF Commit
  <2> DEFINE x == [no |-> Cardinality(returns) + 1, sale |-> v.sale, day |-> day[q],
                   refund |-> v.refund, restock |-> v.restock]
  <2>2. x \in returns'
    BY <2>1 DEF ReturnEffect
  <2>3. x.sale = v.sale /\ x.refund = v.refund /\ x.restock = v.restock
    OBVIOUS
  <2> HIDE DEF x
  <2>4. QED
    BY <1>3, <2>2, <2>3 DEF HasResult
<1>4. CASE v.op = "close"
  <2> DEFINE w == v.warehouse
             z == [warehouse |-> w, day |-> day[q], number |-> LastZNumber(w) + 1,
                   sales |-> SalesOn(w, day[q]), refunds |-> RefundsOn(w, day[q])]
  <2>1. CloseEffect(w, day[q])
    BY <1>4 DEF Commit
  <2>2. z \in zreports' /\ z.warehouse = w
    BY <2>1 DEF CloseEffect
  <2>3. QED
    BY <1>4, <2>2 DEF HasResult, ZReportsOf
<1>5. CASE v.op = "receive"
  BY <1>5 DEF HasResult
<1>6. QED
  BY <1>2, <1>3, <1>4, <1>5 DEF Intents, Payloads, Operations

(* The commit under a key is its first.                                     *)
LEMMA OnceCommit ==
    ASSUME OnceInv, NEW q \in Requests, Commit(q), \A v \in claims : HasResult(v)'
    PROVE  OnceInv'
<1> PICK i, k : i = intent[q] /\ k = i.key
  OBVIOUS
<1>1. /\ Inv /\ Inv' /\ TypeOK /\ pc[q] = "commit" /\ intent[q] \in Intents
      /\ pc'[q] = "idle"
      /\ \A r \in Requests \ {q} : SameLocals(r)
  <2>1. Inv /\ TypeOK /\ pc[q] = "commit" /\ intent[q] \in Intents
    BY DEF OnceInv, Inv, Holds, Shape, Commit
  <2>2. Inv'
    BY <2>1, CommitKeepsInv
  <2>3. QED
    BY <2>1, <2>2 DEF Commit, End, Goto, SameLocals, TypeOK
<1>2. /\ claims' = IF k = NoKey THEN claims ELSE claims \cup {i}
      /\ served' = [x \in Keys |-> IF x = k THEN served[x] + 1 ELSE served[x]]
  BY DEF Commit
<1>3. k # NoKey => ~Recorded(k)
  BY <1>1 DEF OnceInv, KeysHold, Claimed
<1>4. \A x \in Keys : Recorded(x)' <=> Recorded(x) \/ x = k
  BY <1>2, CheckoutAssumption DEF Recorded
<1>5. ExactlyOnce'
  <2>1. ASSUME NEW x \in Keys PROVE served'[x] = IF Recorded(x)' THEN 1 ELSE 0
    BY <1>2, <1>3, <1>4, CheckoutAssumption DEF OnceInv, ExactlyOnce
  <2>2. HasResult(i)'
    BY <1>1, CommitHasResult
  <2>3. QED
    BY <1>2, <2>1, <2>2 DEF ExactlyOnce
<1>6. KeysHold'
  <2>1. ASSUME NEW r \in Requests, Claimed(r)'
        PROVE  /\ r # q /\ Claimed(r) /\ intent'[r] = intent[r]
               /\ k # NoKey => intent[r].key # k
    BY <1>1, <2>1 DEF Claimed, SameLocals, OnceInv, KeysHold
  <2>2. ASSUME NEW r \in Requests, Claimed(r)' PROVE ~Recorded(intent[r].key)'
    <3>1. PICK h : h = intent[r].key
      OBVIOUS
    <3>2. ~Recorded(h) /\ (k # NoKey => h # k) /\ intent'[r] = intent[r]
      BY <2>1, <2>2, <3>1 DEF OnceInv, KeysHold
    <3>3. ~Recorded(h)'
      BY <1>2, <3>2 DEF Recorded
    <3>4. QED
      BY <3>1, <3>2, <3>3 DEF Recorded
  <2>3. ASSUME NEW r \in Requests, NEW x \in Requests \ {r}, Claimed(r)', Claimed(x)'
        PROVE  intent'[x].key # intent'[r].key
    BY <2>1, <2>3 DEF OnceInv, KeysHold
  <2>4. QED
    BY <2>2, <2>3 DEF KeysHold
<1>7. QED
  BY <1>1, <1>5, <1>6 DEF OnceInv

LEMMA OnceStep ==
    ASSUME OnceInv, [Next]_vars
    PROVE  OnceInv'
<1>1. Inv /\ Inv' /\ [ShopNext]_shopVars /\ TypeOK
  BY StepKeepsInv DEF OnceInv, Inv
<1>2. \A q \in claims : q \in Intents /\ HasResult(q)'
  BY <1>1, ResultsStay DEF OnceInv, ExactlyOnce, Inv, TypeOK
<1>3. ASSUME UNCHANGED <<claims, served>> PROVE ExactlyOnce'
  BY <1>2, <1>3 DEF OnceInv, ExactlyOnce, Recorded
<1>4. ASSUME NEW q \in Requests, Reads(q), UNCHANGED <<claims, served>>,
             Claimed(q)' =>
                \/ Claimed(q) /\ intent'[q] = intent[q]
                \/ /\ ~Recorded(intent'[q].key)
                   /\ \A r \in Requests \ {q} : ~HoldsKey(r, intent'[q].key)
      PROVE  OnceInv'
  BY <1>1, <1>3, <1>4, OneMoves DEF OnceInv, Reads
<1>5. ASSUME NEW q \in Requests, NEW v \in Offered, Begin(q, v) PROVE OnceInv'
  <2>1. Reads(q)
    BY <1>1, <1>5, BeginReads
  <2>2. ~Claimed(q)'
    BY <1>1, <1>5 DEF Begin, Goto, Claimed, TypeOK
  <2>3. QED
    BY <1>4, <1>5, <2>1, <2>2 DEF Begin
<1>6. ASSUME NEW q \in Requests, Step(q) \/ Abort(q) PROVE OnceInv'
  <2>1. CASE Claim(q)
    <3>1. intent' = intent
      BY <2>1 DEF Claim
    <3>2. \A r \in Requests \ {q} : ~HoldsKey(r, intent[q].key)
      BY <2>1 DEF Claim, Blockers
    <3>3. QED
      BY <1>1, <1>4, <2>1, <3>1, <3>2, ClaimReads DEF Claim
  <2>2. ASSUME Reads(q), pc[q] \notin {"idle", "claim"},
               UNCHANGED <<claims, served, intent>>
        PROVE  OnceInv'
    BY <1>4, <2>2 DEF Claimed
  <2>3. CASE LockCut(q)
    BY <1>1, <2>2, <2>3, CutReads DEF LockCut
  <2>4. CASE ReadClock(q)
    BY <1>1, <2>2, <2>4, ClockReads DEF ReadClock
  <2>5. CASE LockSale(q)
    BY <1>1, <2>2, <2>5, SaleReads DEF LockSale
  <2>6. CASE LockTerminal(q)
    BY <1>1, <2>2, <2>6, TerminalReads DEF LockTerminal
  <2>7. CASE LockStock(q)
    BY <1>1, <2>2, <2>7, StockReads DEF LockStock
  <2>8. CASE Finish(q)
    BY <1>1, <2>2, <2>8, FinishReads DEF Finish
  <2>9. CASE CheckDrafts(q)
    BY <1>1, <2>2, <2>9, DraftsRead DEF CheckDrafts
  <2>10. CASE Replay(q) \/ Refuse(q) \/ Abort(q)
    <3>1. End(q) /\ UNCHANGED <<shopVars, claims, served>>
      BY <2>10 DEF Replay, Refuse, Abort
    <3>2. ~Claimed(q)'
      BY <1>1, <3>1 DEF End, Goto, Claimed, TypeOK
    <3>3. QED
      BY <1>1, <1>4, <3>1, <3>2, EndReads
  <2>11. CASE Commit(q)
    BY <1>1, <1>2, <2>11, OnceCommit
  <2>12. QED
    BY <1>6, <2>1, <2>3, <2>4, <2>5, <2>6, <2>7, <2>8, <2>9, <2>10, <2>11 DEF Step
<1>7. ASSUME UNCHANGED <<claims, served, requestVars>> PROVE OnceInv'
  BY <1>1, <1>3, <1>7 DEF OnceInv, KeysHold, Claimed, Recorded, requestVars
<1>8. QED
  BY <1>5, <1>6, <1>7 DEF Next, Draft, Terminal, Stock, Midnight, vars, requestVars

(* However often, and however concurrently, a key is sent, it has its effect *)
(* once, and its result is there for every replay.                          *)
THEOREM KeysCountOnce == Spec => []ExactlyOnce
<1>1. Init => OnceInv
  BY InitInv DEF Init, OnceInv, KeysHold, Claimed, ExactlyOnce, Recorded
<1>2. OnceInv /\ [Next]_vars => OnceInv'
  BY OnceStep
<1>3. OnceInv => ExactlyOnce
  BY DEF OnceInv
<1>4. QED
  BY <1>1, <1>2, <1>3, PTL DEF Spec

-----------------------------------------------------------------------------
(* Waiting has an end.                                                     *)

(* Among finitely many numbered things one has the greatest number.         *)
LEMMA LastExists ==
    ASSUME NEW W, W # {}, IsFiniteSet(W), NEW f \in [W -> Nat]
    PROVE  \E x \in W : \A y \in W : f[y] <= f[x]
<1> DEFINE Above(x) == {y \in W : f[x] < f[y]}
<1>1. \A x \in W : IsFiniteSet(Above(x)) /\ Cardinality(Above(x)) \in Nat
  BY FS_Subset, FS_CardinalityType
<1>2. PICK x \in W : \A y \in W : Cardinality(Above(x)) <= Cardinality(Above(y))
  <2> HIDE DEF Above
  <2> DEFINE F == {Above(x) : x \in W}
  <2>1. F # {} /\ \A s \in F : IsFiniteSet(s)
    BY <1>1
  <2>2. \E s \in F : \A t \in F : Cardinality(s) <= Cardinality(t)
    <3> HIDE DEF F
    <3>1. QED
      BY <2>1, SmallestExists
  <2>3. QED
    BY <2>2
<1>3. ASSUME NEW y \in W, f[x] < f[y] PROVE FALSE
  <2>1. f[x] \in Nat /\ f[y] \in Nat
    OBVIOUS
  <2>2. y \in Above(x) /\ y \notin Above(y)
    BY <1>3, <2>1
  <2>3. Above(y) \subseteq Above(x)
    <3>1. \A z \in W : f[z] \in Nat
      OBVIOUS
    <3>2. QED
      BY <1>3, <2>1, <3>1
  <2> HIDE DEF Above
  <2>4. /\ Cardinality(Above(y)) <= Cardinality(Above(x))
        /\ Cardinality(Above(y)) # Cardinality(Above(x))
    BY <1>1, <2>2, <2>3, FS_Subset
  <2>5. QED
    BY <1>1, <1>2, <2>4
<1>4. QED
  BY <1>3

(* A stock row is waited for by a request whose next row comes before every *)
(* row its holder still has to lock: waiting goes up in product order.      *)
LEMMA WaitingGoesUp ==
    ASSUME Inv, NEW r \in Requests, NEW q \in Blockers(r),
           pc[r] = "stock", pc[q] = "stock"
    PROVE  Remaining(r) # {} /\ (Remaining(q) # {} => NextStock(r) < NextStock(q))
<1>1. TypeOK /\ q \in Requests /\ InOrder(q)
  BY DEF Inv, Holds, Blockers
<1>2. Remaining(r) # {} /\ NextStock(r) \in picked[q]
  BY DEF Blockers, HoldsStock, HoldsNumbering
<1>3. Remaining(q) # {} => NextStock(q) \in Remaining(q)
  BY <1>1, NextStockNeeded
<1>4. QED
  BY <1>1, <1>2, <1>3 DEF InOrder

LEMMA NoCycle ==
    ASSUME Inv
    PROVE  NoCircularWait
<1> SUFFICES ASSUME NEW S \in SUBSET Requests, S # {},
                    \A r \in S : Blockers(r) \cap S # {}
             PROVE  FALSE
  BY DEF NoCircularWait
<1>1. TypeOK
  BY DEF Inv
<1>2. \A r \in S : pc[r] \in {"claim", "cut", "sale", "terminal", "stock"}
  BY DEF Blockers
<1>3. ASSUME NEW r \in S PROVE pc[r] # "stock"
  <2> SUFFICES ASSUME pc[r] = "stock" PROVE FALSE
    OBVIOUS
  <2> DEFINE W == {x \in S : pc[x] = "stock"}
             next == [x \in W |-> NextStock(x)]
  <2>1. ASSUME NEW x \in W
        PROVE  /\ Remaining(x) # {}
               /\ \E y \in W : Remaining(y) # {} => NextStock(x) < NextStock(y)
    <3>1. PICK y \in S : y \in Blockers(x)
      OBVIOUS
    <3>2. pc[y] = "stock"
      BY <1>2, <2>1, <3>1 DEF Blockers, HoldsStock, HoldsNumbering
    <3>3. QED
      BY <2>1, <3>1, <3>2, WaitingGoesUp
  <2>2. \A x \in W : NextStock(x) \in Nat
    BY <1>1, <2>1, NextStockNeeded, ShopAssumption DEF Remaining, Needed, Leaving
  <2>3. IsFiniteSet(W) /\ W # {} /\ next \in [W -> Nat]
    BY <2>2, CheckoutAssumption, FS_Subset
  <2>4. PICK x \in W : \A y \in W : next[y] <= next[x]
    <3> HIDE DEF W, next
    <3>1. QED
      BY <2>3, LastExists
  <2>5. PICK y \in W : NextStock(x) < NextStock(y)
    BY <2>1
  <2>6. NextStock(y) <= NextStock(x)
    <3>1. next[x] = NextStock(x) /\ next[y] = NextStock(y)
      OBVIOUS
    <3>2. QED
      BY <2>4, <3>1
  <2>7. NextStock(x) \in Nat /\ NextStock(y) \in Nat
    BY <2>2
  <2> HIDE DEF W, next
  <2>8. QED
    BY <2>5, <2>6, <2>7
<1>4. \A r \in S : pc[r] # "terminal"
  BY <1>2, <1>3 DEF Blockers, HoldsTerminal
<1>5. \A r \in S : pc[r] # "sale"
  BY <1>2, <1>3, <1>4 DEF Blockers, HoldsSale
<1>6. \A r \in S : pc[r] # "cut"
  BY <1>2, <1>3, <1>4, <1>5 DEF Blockers, HoldsCut
<1>7. \A r \in S : pc[r] # "claim"
  BY <1>2, <1>3, <1>4, <1>5, <1>6 DEF Blockers, HoldsKey
<1>8. QED
  BY <1>2, <1>3, <1>4, <1>5, <1>6, <1>7

(* The lock order leaves no cycle: among any requests that wait, however    *)
(* many and on whatever rows, one waits for none of the others.             *)
THEOREM LockOrderHolds == Spec => []NoCircularWait
BY NoCycle, CheckoutInvariant, PTL

=============================================================================
