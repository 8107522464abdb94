----------------------------- MODULE StockProofs -----------------------------
(***************************************************************************)
(* Proofs about the two pages of the stock.                                 *)
(*                                                                         *)
(* StockDesk.tla: the balances are the sums of the ledger however            *)
(* corrections, losses, transfers and rebuilds interleave, stock is only     *)
(* kept where it makes sense, a form is sent with the fields of the product  *)
(* that is chosen, and requests share the stock there is.  The argument:     *)
(* balances and ledger are one and the same function.  A movement is added   *)
(* to both in one commit, of rows its transaction holds; so the rows that a  *)
(* rebuild holds still have, when it inserts them, the sums it read, and the *)
(* rows it does not hold are in its way.                                    *)
(*                                                                         *)
(* Lots.tla: lots that were used stay, numbers are unique, a consumption     *)
(* takes the stock out once, and the stock that expires first first; what    *)
(* was counted is what is there, where nothing arrives; and whoever waits    *)
(* for the answers sees the plan that is confirmed.                         *)
(***************************************************************************)
EXTENDS Lots, StockDesk, SumFacts

-----------------------------------------------------------------------------
(* The forms of the stock: StockDesk.tla                                    *)

PartialSums == UNION {[S -> Int] : S \in SUBSET Coordinates}

Request ==
    [n: Nat, kind: {"adjust", "waste", "transfer", "rebuild"}, ours: BOOLEAN, fields: OrEmpty(Fields), step: RequestSteps,
     held: SUBSET Coordinates, left: SUBSET Coordinates, totals: PartialSums]

\* The fields that a request was made with
Asked(r) ==
    r.kind # "rebuild" =>
        /\ r.fields \in Fields
        /\ r.fields.product \in Products /\ r.fields.place \in Locations /\ r.fields.quantity \in Quantities
        /\ r.kind = "transfer" => r.fields.toPlace \in Locations

OfProduct(r) ==
    r.kind \in {"adjust", "waste"} =>
        /\ r.fields.cost \in {Typed, r.fields.product}
        /\ r.fields.lot = Empty \/ r.fields.lot[1] = r.fields.product

\* What was validated before a row is asked for
Validated(r) ==
    r.step \in {"locking", "writing"} =>
        /\ r.kind # "rebuild"
        /\ \A c \in Touched(r) : Sound(c)
        /\ r.kind = "transfer" => Origin(r) # Target(r)

\* The row a loss or a transfer takes from is held once it was found enough.
Covered(r) ==
    r.step = "writing" /\ MustHave(r) =>
        Origin(r) \in r.held /\ Amount(ledger, Origin(r)) + Gain(r) >= 0

\* A rebuild holds what it saw, with the sums it read.
Swept(r) ==
    /\ r.step \in {"sweeping", "summed"} => r.kind = "rebuild"
    /\ r.step = "sweeping" => r.held \cup r.left \subseteq DOMAIN ledger
    /\ r.step = "summed" => /\ r.held \subseteq DOMAIN r.totals
                            /\ DOMAIN r.totals \subseteq DOMAIN ledger
                            /\ \A c \in r.held : r.totals[c] = ledger[c]

HoldsNothing(r) == r.step \in {"sent", "done", "refused", "short"} => r.held = {}

GoodRequest(r) == r \in Request /\ Asked(r) /\ OfProduct(r) /\ Validated(r) /\ Covered(r) /\ Swept(r) /\ HoldsNothing(r)

\* What is typed next to a product is of that product.
FormInv ==
    \A k \in Forms :
        /\ form[k] \in OrEmpty(Fields)
        /\ k = "adjust" /\ form[k] # Empty =>
              /\ form[k].product = Empty \/ form[k].cost \in {Typed, form[k].product}
              /\ form[k].lot = Empty \/ form[k].lot[1] = form[k].product

DeskStock == ledger \in PartialSums /\ balance = ledger /\ DOMAIN ledger \subseteq Proper /\ batches \subseteq AllLots

Apart == \A r, other \in moves : r # other => r.n # other.n /\ r.held \cap other.held = {}

RequestsInv ==
    /\ \A r \in moves : GoodRequest(r) /\ r.n \in 1..moved
    /\ Apart

DeskInv ==
    /\ DeskStock
    /\ form = [k \in Forms |-> form[k]] /\ FormInv
    /\ loaded \subseteq Warehouses
    /\ RequestsInv
    /\ moved \in 0..MostRequests /\ typings \in 0..MostTyped

-----------------------------------------------------------------------------
(* Sums and rows *)

LEMMA AmountsAreIntegers ==
    ASSUME NEW f \in PartialSums, NEW c
    PROVE  Amount(f, c) \in Int
BY DEF PartialSums, Amount

(* What adding to one row of a sum gives.                                   *)
LEMMA RowAdded ==
    ASSUME NEW f \in PartialSums, NEW c \in Coordinates, NEW q \in Int
    PROVE  /\ Add(f, c, q) \in PartialSums
           /\ DOMAIN Add(f, c, q) = DOMAIN f \cup {c}
           /\ Amount(Add(f, c, q), c) = Amount(f, c) + q
           /\ \A x : x # c => Amount(Add(f, c, q), x) = Amount(f, x)
<1>1. \A x : Amount(f, x) \in Int
  BY AmountsAreIntegers
<1>2. DOMAIN f \subseteq Coordinates
  BY DEF PartialSums
<1>3. Add(f, c, q) \in [DOMAIN f \cup {c} -> Int]
  BY <1>1 DEF Add
<1>4. Add(f, c, q) \in PartialSums
  BY <1>2, <1>3 DEF PartialSums
<1>5. \A x : x # c => Amount(Add(f, c, q), x) = Amount(f, x)
  BY <1>1 DEF Add, Amount
<1>6. Amount(Add(f, c, q), c) = Amount(f, c) + q
  BY <1>1 DEF Add, Amount
<1>7. QED
  BY <1>3, <1>4, <1>5, <1>6

LEMMA NothingIsASum == Nothing \in PartialSums
<1>1. Nothing \in [{} -> Int]
  BY DEF Nothing
<1>2. QED
  BY <1>1 DEF PartialSums

(* The rows a request touches, and what it takes from the first of them.    *)
LEMMA RowsOfRequest ==
    ASSUME NEW r \in Request, Asked(r), r.kind # "rebuild"
    PROVE  /\ Touched(r) \subseteq Coordinates
           /\ Origin(r) \in Touched(r)
           /\ r.kind = "transfer" => Target(r) \in Touched(r)
           /\ Gain(r) \in Int
           /\ r.kind # "adjust" => Gain(r) < 0
           /\ r.fields.lot \in OrEmpty(AllLots)
<1>1. r.fields.quantity \in Int /\ r.fields.quantity # 0
  BY DEF Asked, Quantities
<1>2. r.fields.lot \in OrEmpty(AllLots) /\ r.fields.warehouse \in Warehouses /\ r.fields.toWarehouse \in Warehouses
  BY DEF Asked, Fields
<1>3. Gain(r) \in Int /\ (r.kind # "adjust" => Gain(r) < 0)
  BY <1>1 DEF Gain, Magnitude
<1>4. Origin(r) \in Coordinates
  BY <1>2 DEF Origin, Asked, Coordinates
<1>5. r.kind = "transfer" => Target(r) \in Coordinates
  BY <1>2, <1>4 DEF Origin, Target, Asked, Coordinates
<1>6. QED
  BY <1>2, <1>3, <1>4, <1>5 DEF Touched

(* What the movements of a request do to a sum.                             *)
LEMMA MovementsAdded ==
    ASSUME NEW f \in PartialSums, NEW r \in Request, Asked(r), r.kind # "rebuild",
           r.kind = "transfer" => Origin(r) # Target(r)
    PROVE  /\ Moved(r, f) \in PartialSums
           /\ DOMAIN Moved(r, f) = DOMAIN f \cup Touched(r)
           /\ Amount(Moved(r, f), Origin(r)) = Amount(f, Origin(r)) + Gain(r)
           /\ r.kind = "transfer" => Amount(Moved(r, f), Target(r)) = Amount(f, Target(r)) - Gain(r)
           /\ \A x : x \notin Touched(r) => Amount(Moved(r, f), x) = Amount(f, x)
<1>1. /\ Touched(r) \subseteq Coordinates /\ Origin(r) \in Touched(r) /\ Gain(r) \in Int
      /\ r.kind = "transfer" => Target(r) \in Touched(r)
  BY RowsOfRequest
<1>. DEFINE g == Add(f, Origin(r), Gain(r))
<1>2. /\ g \in PartialSums /\ DOMAIN g = DOMAIN f \cup {Origin(r)}
      /\ Amount(g, Origin(r)) = Amount(f, Origin(r)) + Gain(r)
      /\ \A x : x # Origin(r) => Amount(g, x) = Amount(f, x)
  BY <1>1, RowAdded
<1>3. CASE r.kind # "transfer"
  BY <1>1, <1>2, <1>3 DEF Moved, Touched
<1>4. CASE r.kind = "transfer"
  <2>. DEFINE h == Add(g, Target(r), -Gain(r))
  <2>. HIDE DEF g
  <2>1. -Gain(r) \in Int /\ Target(r) \in Coordinates /\ Touched(r) = {Origin(r), Target(r)}
    BY <1>1, <1>4 DEF Touched
  <2>2. /\ h \in PartialSums /\ DOMAIN h = DOMAIN g \cup {Target(r)}
        /\ Amount(h, Target(r)) = Amount(g, Target(r)) + (-Gain(r))
        /\ \A x : x # Target(r) => Amount(h, x) = Amount(g, x)
    BY <1>2, <2>1, RowAdded
  <2>3. Moved(r, f) = h
    BY <1>4 DEF Moved, g
  <2>4. Amount(g, Target(r)) \in Int
    BY <1>2, AmountsAreIntegers
  <2>5. QED
    BY <1>1, <1>2, <1>4, <2>1, <2>2, <2>3, <2>4
<1>5. QED
  BY <1>3, <1>4

-----------------------------------------------------------------------------
(* The start and the forms *)

LEMMA StartIsGood == ASSUME StockDeskAssumption, DeskInit PROVE DeskInv
<1>1. PICK S \in SUBSET {c \in Proper : c.place[2] = 1} : ledger = [c \in S |-> 1]
  BY DEF DeskInit
<1>2. S \subseteq Proper /\ S \subseteq Coordinates /\ DOMAIN ledger = S
  BY <1>1 DEF Proper
<1>3. ledger \in PartialSums
  <2>1. ledger \in [S -> Int]
    BY <1>1
  <2>2. QED
    BY <1>2, <2>1 DEF PartialSums
<1>4. batches \subseteq AllLots
  <2>. SUFFICES ASSUME NEW c \in S, c.lot # Empty PROVE c.lot \in AllLots
    BY <1>2 DEF DeskInit
  <2>1. c \in Coordinates
    BY <1>2
  <2>2. QED
    BY <2>1 DEF Coordinates, OrEmpty
<1>5. FormInv /\ form = [k \in Forms |-> form[k]]
  BY DEF DeskInit, FormInv, OrEmpty
<1>6. RequestsInv
  BY DEF DeskInit, RequestsInv, Apart
<1>7. QED
  BY <1>2, <1>3, <1>4, <1>5, <1>6 DEF DeskInv, DeskStock, DeskInit, StockDeskAssumption

LEMMA SettledIsAPlace ==
    ASSUME StockDeskAssumption, NEW w \in Warehouses, NEW place \in OrEmpty(Locations), NEW known
    PROVE  Settled(w, place, known) \in OrEmpty(Locations)
BY DEF Settled, OrEmpty, Locations, StockDeskAssumption

LEMMA SettledFieldsStay ==
    ASSUME StockDeskAssumption, NEW f \in Fields, NEW known
    PROVE  /\ SettledFields(f, known) \in Fields
           /\ SettledFields(f, known).product = f.product
           /\ SettledFields(f, known).lot = f.lot
           /\ SettledFields(f, known).cost = f.cost
<1>1. /\ f.warehouse \in Warehouses /\ f.toWarehouse \in Warehouses
      /\ f.place \in OrEmpty(Locations) /\ f.toPlace \in OrEmpty(Locations)
  BY DEF Fields
<1>2. /\ Settled(f.warehouse, f.place, known) \in OrEmpty(Locations)
      /\ Settled(f.toWarehouse, f.toPlace, known) \in OrEmpty(Locations)
  BY <1>1, SettledIsAPlace
<1>3. QED
  BY <1>2 DEF SettledFields, Fields

\* What FormInv says of the form k
Fits(k, f) ==
    /\ f \in OrEmpty(Fields)
    /\ k = "adjust" /\ f # Empty =>
          /\ f.product = Empty \/ f.cost \in {Typed, f.product}
          /\ f.lot = Empty \/ f.lot[1] = f.product

LEMMA OneFormChanges ==
    ASSUME DeskInv, NEW k \in Forms, NEW f, Fits(k, f), form' = [form EXCEPT ![k] = f]
    PROVE  FormInv' /\ (form = [j \in Forms |-> form[j]])'
BY DEF DeskInv, FormInv, Fits

LEMMA EditFits ==
    ASSUME StockDeskAssumption, DeskInv, NEW k \in Forms, NEW f, Fits(k, f), Edit(k, f)
    PROVE  /\ UNCHANGED <<ledger, balance, batches, loaded, moves, moved>>
           /\ typings' \in 0..MostTyped
           /\ FormInv' /\ (form = [j \in Forms |-> form[j]])'
<1>1. FormInv' /\ (form = [j \in Forms |-> form[j]])'
  BY OneFormChanges DEF Edit
<1>2. QED
  BY <1>1 DEF Edit, deskServer, DeskInv, StockDeskAssumption

LEMMA ChosenFits ==
    ASSUME NEW k, NEW f \in Fields, NEW p \in OrEmpty(Products), Fits(k, f)
    PROVE  Fits(k, Chosen(k, f, p))
<1>1. Chosen(k, f, p) \in Fields
  <2>. DEFINE cost == IF p = Empty THEN f.cost ELSE p
              lot == IF k = "adjust" THEN Empty ELSE f.lot
              g == [f EXCEPT !.product = p, !.cost = cost, !.lot = lot]
  <2>1. cost \in OrEmpty(Products \cup {Typed}) /\ lot \in OrEmpty(AllLots)
    BY DEF Fields, OrEmpty
  <2>2. Chosen(k, f, p) = g
    BY DEF Chosen, Fields
  <2>. HIDE DEF cost, lot
  <2>3. g \in Fields
    BY <2>1 DEF Fields
  <2>4. QED
    BY <2>2, <2>3
<1>2. Chosen(k, f, p).product = p /\ (p # Empty => Chosen(k, f, p).cost = p)
  BY DEF Chosen, Fields
<1>3. k = "adjust" => Chosen(k, f, p).lot = Empty
  BY DEF Chosen, Fields
<1>4. QED
  BY <1>1, <1>2, <1>3 DEF Fits, OrEmpty

(* However a form is filled in, its cost and its lot stay its product's.    *)
LEMMA EditFormKeeps ==
    ASSUME StockDeskAssumption, DeskInv, EditForm
    PROVE  /\ UNCHANGED <<ledger, balance, batches, loaded, moves, moved>>
           /\ typings' \in 0..MostTyped
           /\ FormInv' /\ (form = [j \in Forms |-> form[j]])'
<1>1. PICK k \in Forms :
        \/ \E p \in Products : Choose(k, p)
        \/ Search(k)
        \/ \E w \in Warehouses : ChooseWarehouse(k, w) \/ ChooseDestination(k, w)
        \/ \E place, toPlace \in Locations : ChoosePlaces(k, place, toPlace)
        \/ \E lot \in AllLots : TypeLot(k, lot)
        \/ \E q \in Quantities : TypeAmount(k, q)
        \/ TypeCost(k)
        \/ Waste(k)
  BY DEF EditForm
<1>2. form[k] # Empty
  BY <1>1 DEF Choose, Search, ChooseWarehouse, ChooseDestination, ChoosePlaces, TypeLot, TypeAmount, TypeCost, Waste
<1>. DEFINE f == form[k]
<1>3. f \in Fields /\ Fits(k, f)
  BY <1>2 DEF DeskInv, FormInv, Fits, OrEmpty
<1>. SUFFICES \E g : Fits(k, g) /\ Edit(k, g)
  BY EditFits
<1>4. ASSUME NEW p \in Products, Choose(k, p) PROVE \E g : Fits(k, g) /\ Edit(k, g)
  BY <1>3, <1>4, ChosenFits DEF Choose, OrEmpty
<1>5. CASE Search(k)
  BY <1>3, <1>5, ChosenFits DEF Search, OrEmpty
<1>6. ASSUME NEW w \in Warehouses, ChooseWarehouse(k, w) \/ ChooseDestination(k, w)
      PROVE  \E g : Fits(k, g) /\ Edit(k, g)
  <2>. HIDE DEF f
  <2>1. PICK g : /\ g \in {[f EXCEPT !.warehouse = w], [f EXCEPT !.toWarehouse = w]}
                 /\ Edit(k, SettledFields(g, loaded))
    BY <1>6 DEF ChooseWarehouse, ChooseDestination, f
  <2>2. g \in Fields /\ g.product = f.product /\ g.lot = f.lot /\ g.cost = f.cost
    BY <1>3, <2>1 DEF Fields
  <2>3. /\ SettledFields(g, loaded) \in Fields /\ SettledFields(g, loaded).product = g.product
        /\ SettledFields(g, loaded).lot = g.lot /\ SettledFields(g, loaded).cost = g.cost
    BY <2>2, SettledFieldsStay
  <2>4. Fits(k, SettledFields(g, loaded))
    BY <1>2, <1>3, <2>2, <2>3 DEF Fits, OrEmpty, f
  <2>5. QED
    BY <2>1, <2>4
<1>7. ASSUME NEW place \in Locations, NEW toPlace \in Locations, ChoosePlaces(k, place, toPlace)
      PROVE  \E g : Fits(k, g) /\ Edit(k, g)
  <2>. DEFINE g == [f EXCEPT !.place = place, !.toPlace = toPlace]
  <2>1. g \in Fields /\ g.product = f.product /\ g.lot = f.lot /\ g.cost = f.cost
    BY <1>3 DEF Fields, OrEmpty
  <2>2. Fits(k, g)
    BY <1>2, <1>3, <2>1 DEF Fits, OrEmpty
  <2>3. QED
    BY <1>7, <2>2 DEF ChoosePlaces
<1>8. ASSUME NEW lot \in AllLots, TypeLot(k, lot) PROVE \E g : Fits(k, g) /\ Edit(k, g)
  <2>. DEFINE g == [f EXCEPT !.lot = lot]
  <2>1. g \in Fields /\ g.product = f.product /\ g.lot = lot /\ g.cost = f.cost
    BY <1>3 DEF Fields, OrEmpty
  <2>2. Fits(k, g)
    BY <1>2, <1>3, <1>8, <2>1 DEF Fits, OrEmpty, TypeLot
  <2>3. QED
    BY <1>8, <2>2 DEF TypeLot
<1>9. ASSUME NEW q \in Quantities, TypeAmount(k, q) PROVE \E g : Fits(k, g) /\ Edit(k, g)
  <2>. DEFINE g == [f EXCEPT !.quantity = q]
  <2>1. g \in Fields /\ g.product = f.product /\ g.lot = f.lot /\ g.cost = f.cost
    BY <1>3 DEF Fields, OrEmpty
  <2>2. Fits(k, g)
    BY <1>2, <1>3, <2>1 DEF Fits, OrEmpty
  <2>3. QED
    BY <1>9, <2>2 DEF TypeAmount
<1>10. CASE TypeCost(k)
  <2>. DEFINE g == [f EXCEPT !.cost = Typed]
  <2>1. g \in Fields /\ g.product = f.product /\ g.lot = f.lot /\ g.cost = Typed
    BY <1>3 DEF Fields, OrEmpty
  <2>2. Fits(k, g)
    BY <1>2, <1>3, <2>1 DEF Fits, OrEmpty
  <2>3. QED
    BY <1>10, <2>2 DEF TypeCost
<1>11. CASE Waste(k)
  <2>. DEFINE g == [f EXCEPT !.waste = ~@]
  <2>1. g \in Fields /\ g.product = f.product /\ g.lot = f.lot /\ g.cost = f.cost
    BY <1>3 DEF Fields, OrEmpty
  <2>2. Fits(k, g)
    BY <1>2, <1>3, <2>1 DEF Fits, OrEmpty
  <2>3. QED
    BY <1>11, <2>2 DEF Waste
<1>12. QED
  BY <1>1, <1>4, <1>5, <1>6, <1>7, <1>8, <1>9, <1>10, <1>11

-----------------------------------------------------------------------------
(* The requests *)

\* Nothing of the stock changes.
Quiet == UNCHANGED <<ledger, balance, batches>>

LEMMA QuietKeeps ==
    ASSUME Quiet
    PROVE  /\ DeskStock => DeskStock'
           /\ \A r : GoodRequest(r) => GoodRequest(r)'
<1>1. ASSUME NEW r, GoodRequest(r) PROVE GoodRequest(r)'
  BY <1>1 DEF Quiet, GoodRequest, Asked, OfProduct, Validated, Covered, Swept, HoldsNothing, Request
<1>2. QED
  BY <1>1 DEF Quiet, DeskStock

(* A request is put in the place of another, and holds no row of the rest.  *)
LEMMA OneChanges ==
    ASSUME RequestsInv, NEW r \in moves, NEW s,
           moves' \subseteq (moves \ {r}) \cup {s}, moved' = moved,
           GoodRequest(s)', s.n = r.n,
           \A other \in moves \ {r} : GoodRequest(other)' /\ s.held \cap other.held = {}
    PROVE  RequestsInv'
<1>1. \A q \in moves' : GoodRequest(q)' /\ q.n \in 1..moved'
  BY DEF RequestsInv
<1>2. ASSUME NEW q \in moves', NEW other \in moves', q # other
      PROVE  q.n # other.n /\ q.held \cap other.held = {}
  <2>1. CASE q = s
    BY <1>2, <2>1 DEF RequestsInv, Apart
  <2>2. CASE other = s
    BY <1>2, <2>2 DEF RequestsInv, Apart
  <2>3. CASE q # s /\ other # s
    BY <1>2, <2>3 DEF RequestsInv, Apart
  <2>4. QED
    BY <2>1, <2>2, <2>3
<1>3. QED
  BY <1>1, <1>2 DEF RequestsInv, Apart

LEMMA SendKeeps ==
    ASSUME StockDeskAssumption, DeskInv, NEW kind \in {"adjust", "waste", "transfer", "rebuild"},
           NEW ours \in BOOLEAN, NEW f \in OrEmpty(Fields), SendRequest(kind, ours, f),
           kind # "rebuild" =>
              /\ f \in Fields
              /\ f.product \in Products /\ f.place \in Locations /\ f.quantity \in Quantities
              /\ kind = "transfer" => f.toPlace \in Locations,
           kind \in {"adjust", "waste"} =>
              f.cost \in {Typed, f.product} /\ (f.lot = Empty \/ f.lot[1] = f.product)
    PROVE  DeskInv'
<1>1. moved' = moved + 1 /\ moved \in Nat /\ moved' \in 1..MostRequests
  BY DEF SendRequest, StockDeskAssumption, DeskInv
<1>. PICK s : s = [n |-> moved', kind |-> kind, ours |-> ours, fields |-> f,
                   step |-> "sent", held |-> {}, left |-> {}, totals |-> Nothing]
  OBVIOUS
<1>2. moves' = moves \cup {s}
  BY DEF SendRequest
<1>3. Quiet /\ UNCHANGED <<form, loaded, typings>>
  BY DEF SendRequest, deskServer, deskForms, Quiet
<1>4. GoodRequest(s)'
  <2>1. s \in Request
    BY <1>1, NothingIsASum DEF Request, RequestSteps
  <2>2. /\ Asked(s) /\ OfProduct(s) /\ HoldsNothing(s)
        /\ s.step = "sent"
    BY DEF Asked, OfProduct, HoldsNothing
  <2>3. Validated(s) /\ Covered(s) /\ Swept(s)
    BY <2>2 DEF Validated, Covered, Swept
  <2>4. GoodRequest(s)
    BY <2>1, <2>2, <2>3 DEF GoodRequest
  <2>5. QED
    BY <1>3, <2>4, QuietKeeps
<1>5. \A r \in moves : GoodRequest(r)' /\ r.n \in 1..moved
  BY <1>3, QuietKeeps DEF DeskInv, RequestsInv
<1>6. s.n = moved' /\ s.held = {}
  OBVIOUS
<1>7. RequestsInv'
  <2>1. \A q \in moves' : GoodRequest(q)' /\ q.n \in 1..moved'
    <3>1. 1..moved \subseteq 1..moved' /\ moved' \in 1..moved'
      BY <1>1
    <3>2. QED
      BY <1>2, <1>4, <1>5, <1>6, <3>1
  <2>2. ASSUME NEW q \in moves', NEW other \in moves', q # other
        PROVE  q.n # other.n /\ q.held \cap other.held = {}
    <3>1. CASE q = s
      BY <1>2, <1>5, <1>6, <1>1, <2>2, <3>1
    <3>2. CASE other = s
      BY <1>2, <1>5, <1>6, <1>1, <2>2, <3>2
    <3>3. CASE q # s /\ other # s
      BY <1>2, <2>2, <3>3 DEF DeskInv, RequestsInv, Apart
    <3>4. QED
      BY <3>1, <3>2, <3>3
  <2>3. QED
    BY <2>1, <2>2 DEF RequestsInv, Apart
<1>8. DeskStock'
  BY <1>3, QuietKeeps DEF DeskInv
<1>9. QED
  BY <1>3, <1>7, <1>8, <1>1 DEF DeskInv, FormInv

LEMMA SubmitKeeps ==
    ASSUME StockDeskAssumption, DeskInv, NEW k \in Forms, Submit(k)
    PROVE  DeskInv'
<1>. DEFINE f == form[k]
            kind == IF k = "transfer" THEN k ELSE IF f.waste THEN "waste" ELSE "adjust"
<1>1. f \in Fields /\ Complete(k, f) /\ SendRequest(kind, TRUE, f)
  BY DEF Submit, DeskInv, FormInv, OrEmpty
<1>2. k \in {"adjust", "transfer"}
  BY DEF StockDeskAssumption
<1>3. f.product \in Products /\ f.place \in Locations /\ f.quantity \in Quantities
  BY <1>1 DEF Complete, Fields, OrEmpty
<1>4. k = "transfer" => f.toPlace \in Locations
  BY <1>1 DEF Complete, Fields, OrEmpty
<1>5. k = "adjust" => f.cost \in {Typed, f.product} /\ (f.lot = Empty \/ f.lot[1] = f.product)
  BY <1>1 DEF Complete, DeskInv, FormInv, Submit
<1>6. kind \in {"adjust", "waste", "transfer"} /\ (kind = "transfer" <=> k = "transfer")
  BY <1>2
<1>7. f \in OrEmpty(Fields)
  BY <1>1 DEF OrEmpty
<1>. HIDE DEF f, kind
<1>8. QED
  BY <1>1, <1>2, <1>3, <1>4, <1>5, <1>6, <1>7, SendKeeps

LEMMA RebuildSent ==
    ASSUME StockDeskAssumption, DeskInv, NEW ours \in BOOLEAN, SendRequest("rebuild", ours, Empty)
    PROVE  DeskInv'
BY SendKeeps DEF OrEmpty

LEMMA ElsewhereKeeps ==
    ASSUME StockDeskAssumption, DeskInv, NEW kind \in Others, Elsewhere(kind)
    PROVE  DeskInv'
<1>1. kind \in {"adjust", "waste", "transfer", "rebuild"}
  BY DEF StockDeskAssumption
<1>2. CASE kind = "rebuild"
  BY <1>2, RebuildSent DEF Elsewhere
<1>3. CASE kind # "rebuild"
  <2>0. PICK p \in Products, place \in Locations, toPlace \in Locations, q \in Quantities :
               \E lot \in IF p \in Tracked THEN {p} \X Printed ELSE {Empty} :
                  /\ IF kind = "transfer" THEN q > 0 ELSE toPlace = place
                  /\ SendRequest(kind, FALSE, [product |-> p, warehouse |-> place[1], place |-> place,
                         toWarehouse |-> toPlace[1], toPlace |-> toPlace, lot |-> lot,
                         waste |-> kind = "waste", quantity |-> q, cost |-> p])
    BY <1>3, Zenon DEF Elsewhere
  <2>1. PICK lot :
               /\ lot \in IF p \in Tracked THEN {p} \X Printed ELSE {Empty}
               /\ SendRequest(kind, FALSE, [product |-> p, warehouse |-> place[1], place |-> place,
                      toWarehouse |-> toPlace[1], toPlace |-> toPlace, lot |-> lot,
                      waste |-> kind = "waste", quantity |-> q, cost |-> p])
    BY <2>0, Zenon
  <2>. DEFINE f == [product |-> p, warehouse |-> place[1], place |-> place,
                    toWarehouse |-> toPlace[1], toPlace |-> toPlace, lot |-> lot,
                    waste |-> kind = "waste", quantity |-> q, cost |-> p]
  <2>2. place[1] \in Warehouses /\ toPlace[1] \in Warehouses
    BY DEF Locations
  <2>3. lot \in OrEmpty(AllLots) /\ (lot = Empty \/ lot[1] = p)
    BY <2>1 DEF OrEmpty, AllLots
  <2>4. f \in Fields
    BY <2>2, <2>3 DEF Fields, OrEmpty
  <2>5. /\ f.product = p /\ f.place = place /\ f.quantity = q /\ f.toPlace = toPlace
        /\ f.cost = p /\ f.lot = lot
    OBVIOUS
  <2>6. SendRequest(kind, FALSE, f)
    BY <2>1
  <2>. HIDE DEF f
  <2>7. QED
    BY <1>1, <2>3, <2>4, <2>5, <2>6, SendKeeps DEF OrEmpty
<1>4. QED
  BY <1>2, <1>3

LEMMA AnswerKeeps ==
    ASSUME DeskInv, NEW r \in moves, NEW lost \in BOOLEAN, AnswerDesk(r, lost)
    PROVE  DeskInv'
<1>1. Quiet /\ UNCHANGED <<loaded, moved, typings>> /\ moves' = moves \ {r}
  BY DEF AnswerDesk, deskServer, Quiet
<1>2. RequestsInv' /\ DeskStock'
  BY <1>1, QuietKeeps DEF DeskInv, RequestsInv, Apart
<1>3. FormInv' /\ (form = [k \in Forms |-> form[k]])'
  BY DEF DeskInv, FormInv, AnswerDesk, OrEmpty
<1>4. QED
  BY <1>1, <1>2, <1>3 DEF DeskInv

-----------------------------------------------------------------------------
(* The transactions *)

LEMMA SameMovements ==
    ASSUME NEW r, NEW s, s.kind = r.kind, s.fields = r.fields
    PROVE  /\ Origin(s) = Origin(r) /\ Target(s) = Target(r) /\ Touched(s) = Touched(r)
           /\ Gain(s) = Gain(r) /\ MustHave(s) = MustHave(r)
           /\ Asked(r) => Asked(s)
           /\ OfProduct(r) => OfProduct(s)
<1>1. Origin(s) = Origin(r) /\ Gain(s) = Gain(r) /\ MustHave(s) = MustHave(r)
  BY DEF Origin, Gain, MustHave
<1>2. Target(s) = Target(r)
  BY <1>1 DEF Target
<1>3. Touched(s) = Touched(r)
  BY <1>1, <1>2 DEF Touched
<1>4. (Asked(r) => Asked(s)) /\ (OfProduct(r) => OfProduct(s))
  BY DEF Asked, OfProduct
<1>5. QED
  BY <1>1, <1>2, <1>3, <1>4

(* A step that only changes the state of its own request.                   *)
LEMMA OwnStepKeeps ==
    ASSUME DeskInv, Quiet, UNCHANGED <<deskForms, moved>>, NEW r \in moves, NEW s,
           moves' = (moves \ {r}) \cup {s}, GoodRequest(s), s.n = r.n,
           \A other \in moves \ {r} : s.held \cap other.held = {}
    PROVE  DeskInv'
<1>1. GoodRequest(s)' /\ \A q \in moves : GoodRequest(q)'
  BY QuietKeeps DEF DeskInv, RequestsInv
<1>2. RequestsInv'
  BY <1>1, OneChanges DEF DeskInv
<1>3. DeskStock'
  BY QuietKeeps DEF DeskInv
<1>4. QED
  BY <1>2, <1>3 DEF DeskInv, FormInv, deskForms

\* A request that goes on to a step, or ends
Marked(r, step) == [r EXCEPT !.step = step, !.held = {}, !.left = {}, !.totals = Nothing]

LEMMA MarkedIsGood ==
    ASSUME NEW r, GoodRequest(r), NEW step \in {"locking", "writing", "done", "refused", "short"},
           step \in {"locking", "writing"} =>
              /\ r.kind # "rebuild"
              /\ \A c \in Touched(r) : Sound(c)
              /\ r.kind = "transfer" => Origin(r) # Target(r),
           step = "writing" => ~MustHave(r)
    PROVE  /\ GoodRequest(Marked(r, step)) /\ Marked(r, step).n = r.n /\ Marked(r, step).held = {}
           /\ Marked(r, step).step = step
<1>. DEFINE s == Marked(r, step)
<1>1. /\ s \in Request /\ s.n = r.n /\ s.kind = r.kind /\ s.fields = r.fields
      /\ s.step = step /\ s.held = {}
  BY NothingIsASum DEF Marked, GoodRequest, Request, RequestSteps
<1>. HIDE DEF s
<1>2. /\ Touched(s) = Touched(r) /\ Origin(s) = Origin(r) /\ Target(s) = Target(r)
      /\ MustHave(s) = MustHave(r) /\ Asked(s) /\ OfProduct(s)
  BY <1>1, SameMovements DEF GoodRequest
<1>3. Validated(s) /\ Covered(s) /\ Swept(s) /\ HoldsNothing(s)
  BY <1>1, <1>2 DEF Validated, Covered, Swept, HoldsNothing
<1>4. QED
  BY <1>1, <1>2, <1>3 DEF GoodRequest, s

LEMMA MarkKeeps ==
    ASSUME DeskInv, Quiet, UNCHANGED <<deskForms, moved>>, NEW r \in moves,
           NEW step \in {"locking", "writing", "done", "refused", "short"},
           moves' = Step(r, step),
           step \in {"locking", "writing"} =>
              /\ r.kind # "rebuild"
              /\ \A c \in Touched(r) : Sound(c)
              /\ r.kind = "transfer" => Origin(r) # Target(r),
           step = "writing" => ~MustHave(r)
    PROVE  DeskInv'
<1>1. GoodRequest(r)
  BY DEF DeskInv, RequestsInv
<1>2. moves' = (moves \ {r}) \cup {Marked(r, step)}
  BY DEF Step, Marked
<1>3. GoodRequest(Marked(r, step)) /\ Marked(r, step).n = r.n /\ Marked(r, step).held = {}
  BY <1>1, MarkedIsGood
<1>4. QED
  BY <1>2, <1>3, OwnStepKeeps

LEMMA ValidateKeeps == ASSUME DeskInv, NEW r \in moves, Validate(r) PROVE DeskInv'
<1>1. Quiet /\ UNCHANGED <<deskForms, moved>>
  BY DEF Validate, deskServer, Quiet
<1>2. PICK step \in {"locking", "writing", "refused", "short"} :
        /\ moves' = Step(r, step)
        /\ step \in {"locking", "writing"} =>
              /\ \A c \in Touched(r) : Sound(c)
              /\ ~(r.kind = "transfer" /\ Origin(r) = Target(r))
        /\ step = "writing" => ~MustHave(r)
  <2>. DEFINE bad == \/ \E c \in Touched(r) : ~Sound(c)
                     \/ ~LotKnown(r)
                     \/ r.kind = "transfer" /\ Origin(r) = Target(r)
  <2>1. moves' = Step(r, IF bad THEN "refused" ELSE IF ~MustHave(r) THEN "writing"
                           ELSE IF Origin(r) \in DOMAIN balance THEN "locking" ELSE "short")
    BY DEF Validate
  <2>2. CASE bad
    BY <2>1, <2>2
  <2>3. CASE ~bad /\ ~MustHave(r)
    BY <2>1, <2>3
  <2>4. CASE ~bad /\ MustHave(r) /\ Origin(r) \in DOMAIN balance
    BY <2>1, <2>4
  <2>5. CASE ~bad /\ MustHave(r) /\ Origin(r) \notin DOMAIN balance
    BY <2>1, <2>5
  <2>6. QED
    BY <2>2, <2>3, <2>4, <2>5
<1>3. r.kind # "rebuild"
  BY DEF Validate
<1>4. QED
  BY <1>1, <1>2, <1>3, MarkKeeps

\* A request that holds one row more
Holding(r, step, c) == [r EXCEPT !.step = step, !.held = @ \cup {c}]

LEMMA HoldingFits ==
    ASSUME NEW r \in Request, NEW c \in Coordinates
    PROVE  /\ Holding(r, "writing", c) \in Request /\ Holding(r, "writing", c).n = r.n
           /\ Holding(r, "writing", c).kind = r.kind /\ Holding(r, "writing", c).fields = r.fields
           /\ Holding(r, "writing", c).held = r.held \cup {c}
           /\ Holding(r, "writing", c).step = "writing"
BY DEF Holding, Request, RequestSteps

(* Asking for a row: the row of the origin, which has to be enough for a    *)
(* loss or a transfer, or one after it.                                     *)
LEMMA HoldKeeps ==
    ASSUME DeskInv, Quiet, UNCHANGED <<deskForms, moved>>, NEW r \in moves, NEW c \in Touched(r),
           r.step \in {"locking", "writing"}, RowFree(r, c),
           moves' = Hold(r, "writing", c),
           r.step = "locking" /\ MustHave(r) =>
              c = Origin(r) /\ Amount(ledger, Origin(r)) + Gain(r) >= 0
    PROVE  DeskInv'
<1>1. GoodRequest(r) /\ r \in Request /\ Asked(r) /\ OfProduct(r) /\ Validated(r) /\ Covered(r)
  BY DEF DeskInv, RequestsInv, GoodRequest
<1>2. r.kind # "rebuild"
  BY <1>1 DEF Validated
<1>3. c \in Coordinates
  BY <1>1, <1>2, RowsOfRequest
<1>. DEFINE s == Holding(r, "writing", c)
<1>4. /\ s \in Request /\ s.n = r.n /\ s.kind = r.kind /\ s.fields = r.fields
      /\ s.held = r.held \cup {c} /\ s.step = "writing"
  BY <1>1, <1>3, HoldingFits
<1>5. moves' = (moves \ {r}) \cup {s}
  BY DEF Hold, Holding
<1>. HIDE DEF s
<1>6. /\ Touched(s) = Touched(r) /\ Origin(s) = Origin(r) /\ Target(s) = Target(r)
      /\ Gain(s) = Gain(r) /\ MustHave(s) = MustHave(r) /\ Asked(s) /\ OfProduct(s)
  BY <1>1, <1>4, SameMovements
<1>7. Validated(s)
  BY <1>1, <1>4, <1>6 DEF Validated
<1>8. Covered(s)
  BY <1>1, <1>4, <1>6 DEF Covered
<1>9. GoodRequest(s)
  BY <1>4, <1>6, <1>7, <1>8 DEF GoodRequest, Swept, HoldsNothing
<1>10. \A other \in moves \ {r} : s.held \cap other.held = {}
  BY <1>4 DEF RowFree, DeskInv, RequestsInv, Apart
<1>11. QED
  BY <1>4, <1>5, <1>9, <1>10, OwnStepKeeps

LEMMA LockKeeps == ASSUME DeskInv, NEW r \in moves, Lock(r) PROVE DeskInv'
<1>1. Quiet /\ UNCHANGED <<deskForms, moved>>
  BY DEF Lock, deskServer, Quiet
<1>2. GoodRequest(r) /\ r \in Request /\ Asked(r) /\ r.kind # "rebuild"
  BY DEF Lock, DeskInv, RequestsInv, GoodRequest, Validated
<1>3. Origin(r) \in Touched(r) /\ Gain(r) \in Int
  BY <1>2, RowsOfRequest
<1>4. balance = ledger /\ Amount(ledger, Origin(r)) \in Int
  BY AmountsAreIntegers DEF DeskInv, DeskStock
<1>5. CASE Amount(ledger, Origin(r)) + Gain(r) < 0
  BY <1>1, <1>4, <1>5, MarkKeeps DEF Lock
<1>6. CASE Amount(ledger, Origin(r)) + Gain(r) >= 0
  BY <1>1, <1>3, <1>4, <1>6, HoldKeeps DEF Lock
<1>7. QED
  BY <1>3, <1>4, <1>5, <1>6

LEMMA UpsertKeeps == ASSUME DeskInv, NEW r \in moves, Upsert(r) PROVE DeskInv'
<1>1. Quiet /\ UNCHANGED <<deskForms, moved>>
  BY DEF Upsert, deskServer, Quiet
<1>2. PICK c \in NextRow(r) : RowFree(r, c) /\ moves' = Hold(r, "writing", c)
  BY DEF Upsert
<1>3. r \in Request /\ Asked(r) /\ r.kind # "rebuild" /\ r.step = "writing"
  BY DEF Upsert, DeskInv, RequestsInv, GoodRequest, Validated
<1>4. c \in Touched(r)
  BY <1>2, <1>3, RowsOfRequest DEF NextRow
<1>5. QED
  BY <1>1, <1>2, <1>3, <1>4, HoldKeeps

(* A commit moves the same in the ledger and in the balances, and nothing   *)
(* of what another request holds.                                           *)
LEMMA CommitKeeps == ASSUME DeskInv, NEW r \in moves, Commit(r) PROVE DeskInv'
<1>1. /\ r \in Request /\ Asked(r) /\ OfProduct(r) /\ GoodRequest(r)
      /\ r.kind # "rebuild" /\ \A c \in Touched(r) : Sound(c)
      /\ r.kind = "transfer" => Origin(r) # Target(r)
  BY DEF Commit, DeskInv, RequestsInv, GoodRequest, Validated
<1>2. ledger \in PartialSums /\ balance = ledger /\ DOMAIN ledger \subseteq Proper
  BY DEF DeskInv, DeskStock
<1>3. /\ ledger' \in PartialSums /\ balance' = ledger'
      /\ DOMAIN ledger' = DOMAIN ledger \cup Touched(r)
      /\ \A x : x \notin Touched(r) => Amount(ledger', x) = Amount(ledger, x)
  <2>1. ledger' = Moved(r, ledger) /\ balance' = Moved(r, balance)
    BY DEF Commit
  <2>2. QED
    BY <1>1, <1>2, <2>1, MovementsAdded
<1>4. Touched(r) \subseteq Coordinates /\ r.fields.lot \in OrEmpty(AllLots)
  BY <1>1, RowsOfRequest
<1>5. Touched(r) \subseteq Proper
  <2>. SUFFICES ASSUME NEW c \in Touched(r) PROVE c \in Proper
    OBVIOUS
  <2>1. c \in Coordinates /\ Sound(c)
    BY <1>1, <1>4
  <2>2. c.lot \in OrEmpty(AllLots)
    BY <2>1 DEF Coordinates
  <2>3. c.lot # Empty => c.lot \in {c.product} \X Printed
    BY <2>1, <2>2 DEF Sound, OrEmpty, AllLots
  <2>4. QED
    BY <2>1, <2>3 DEF Sound, Proper
<1>6. DeskStock'
  <2>1. batches' = batches \cup ({r.fields.lot} \ {Empty})
    BY DEF Commit
  <2>2. batches' \subseteq AllLots
    BY <1>4, <2>1 DEF OrEmpty, DeskInv, DeskStock
  <2>3. QED
    BY <1>2, <1>3, <1>5, <2>2 DEF DeskStock
<1>. DEFINE s == Marked(r, "done")
<1>7. GoodRequest(s) /\ s.n = r.n /\ s.held = {} /\ s.step = "done"
  BY <1>1, MarkedIsGood
<1>8. moves' = (moves \ {r}) \cup {s}
  BY DEF Commit, Step, Marked
<1>9. GoodRequest(s)'
  <2>. HIDE DEF s
  <2>1. Validated(s)' /\ Covered(s)' /\ Swept(s)'
    BY <1>7 DEF Validated, Covered, Swept
  <2>2. QED
    BY <1>7, <2>1 DEF GoodRequest, Asked, OfProduct, HoldsNothing, Request
<1>10. ASSUME NEW other \in moves \ {r} PROVE GoodRequest(other)'
  <2>1. GoodRequest(other) /\ other.held \cap Touched(r) = {}
    BY DEF Commit, DeskInv, RequestsInv, Apart
  <2>2. Covered(other)'
    BY <1>3, <2>1 DEF GoodRequest, Covered, MustHave, Origin, Gain
  <2>3. Swept(other)'
    <3>1. ASSUME other.step = "summed", NEW c \in other.held PROVE ledger'[c] = ledger[c]
      <4>1. c \in DOMAIN ledger /\ c \notin Touched(r)
        BY <2>1, <3>1 DEF GoodRequest, Swept
      <4>2. QED
        BY <1>3, <4>1 DEF Amount
    <3>2. QED
      BY <1>3, <2>1, <3>1 DEF GoodRequest, Swept
  <2>4. QED
    BY <2>1, <2>2, <2>3 DEF GoodRequest, Asked, OfProduct, Validated, HoldsNothing, Request
<1>11. UNCHANGED <<deskForms, moved>>
  BY DEF Commit
<1>. HIDE DEF s
<1>12. RequestsInv'
  BY <1>7, <1>8, <1>9, <1>10, <1>11, OneChanges DEF DeskInv
<1>13. QED
  BY <1>6, <1>11, <1>12 DEF DeskInv, FormInv, deskForms

\* What a rebuild sees and holds
SweepOf(r, step, held, left, totals) ==
    [r EXCEPT !.step = step, !.held = held, !.left = left, !.totals = totals]

LEMMA SweepIsGood ==
    ASSUME NEW r, GoodRequest(r), r.kind = "rebuild", NEW step \in {"sweeping", "summed"},
           NEW held \in SUBSET Coordinates, NEW left \in SUBSET Coordinates, NEW totals \in PartialSums,
           step = "sweeping" => held \cup left \subseteq DOMAIN ledger,
           step = "summed" => /\ held \subseteq DOMAIN totals
                              /\ DOMAIN totals \subseteq DOMAIN ledger
                              /\ \A c \in held : totals[c] = ledger[c]
    PROVE  /\ GoodRequest(SweepOf(r, step, held, left, totals))
           /\ SweepOf(r, step, held, left, totals).n = r.n
           /\ SweepOf(r, step, held, left, totals).held = held
<1>. DEFINE s == SweepOf(r, step, held, left, totals)
<1>1. /\ s \in Request /\ s.n = r.n /\ s.kind = r.kind /\ s.fields = r.fields
      /\ s.step = step /\ s.held = held /\ s.left = left /\ s.totals = totals
  BY DEF SweepOf, GoodRequest, Request, RequestSteps
<1>. HIDE DEF s
<1>2. Asked(s) /\ OfProduct(s)
  BY <1>1, SameMovements DEF GoodRequest
<1>3. Validated(s) /\ Covered(s) /\ Swept(s) /\ HoldsNothing(s)
  BY <1>1 DEF Validated, Covered, Swept, HoldsNothing
<1>4. QED
  BY <1>1, <1>2, <1>3 DEF GoodRequest, s

LEMMA RebuildKeeps ==
    ASSUME DeskInv, NEW r \in moves, StartSweep(r) \/ (\E c \in Coordinates : SweepRow(r, c)) \/ SumLedger(r)
    PROVE  DeskInv'
<1>1. Quiet /\ UNCHANGED <<deskForms, moved>>
  BY DEF StartSweep, SweepRow, SumLedger, deskServer, Quiet
<1>2. /\ ledger \in PartialSums /\ balance = ledger
      /\ DOMAIN ledger \in SUBSET Coordinates
      /\ DOMAIN balance = DOMAIN ledger
  BY DEF DeskInv, DeskStock, Proper
<1>3. /\ GoodRequest(r) /\ Swept(r) /\ HoldsNothing(r) /\ r.kind = "rebuild"
      /\ r.held \in SUBSET Coordinates /\ r.left \in SUBSET Coordinates /\ r.totals \in PartialSums
      /\ \A other \in moves \ {r} : r.held \cap other.held = {}
  BY DEF StartSweep, SweepRow, SumLedger, DeskInv, RequestsInv, GoodRequest, Swept, Request, Apart
<1>4. CASE StartSweep(r)
  <2>. DEFINE s == SweepOf(r, "sweeping", r.held, DOMAIN balance, r.totals)
  <2>1. r.held = {}
    BY <1>3, <1>4 DEF StartSweep, HoldsNothing
  <2>2. GoodRequest(s) /\ s.n = r.n /\ s.held = r.held
    BY <1>2, <1>3, <2>1, SweepIsGood
  <2>3. s = [r EXCEPT !.step = "sweeping", !.left = DOMAIN balance]
    BY <1>3 DEF SweepOf, GoodRequest, Request
  <2>4. moves' = (moves \ {r}) \cup {s}
    BY <1>4, <2>3 DEF StartSweep
  <2>. HIDE DEF s
  <2>5. QED
    BY <1>1, <1>3, <2>2, <2>4, OwnStepKeeps
<1>5. ASSUME NEW c \in Coordinates, SweepRow(r, c) PROVE DeskInv'
  <2>. DEFINE s == SweepOf(r, "sweeping", r.held \cup {c}, r.left \ {c}, r.totals)
  <2>1. r.step = "sweeping" /\ c \in r.left /\ RowFree(r, c)
    BY <1>5 DEF SweepRow
  <2>2. r.held \cup r.left \subseteq DOMAIN ledger
    BY <1>3, <2>1 DEF Swept
  <2>3. GoodRequest(s) /\ s.n = r.n /\ s.held = r.held \cup {c}
    BY <1>3, <2>1, <2>2, SweepIsGood
  <2>4. s = [r EXCEPT !.held = @ \cup {c}, !.left = @ \ {c}]
    BY <1>3, <2>1 DEF SweepOf, GoodRequest, Request
  <2>5. moves' = (moves \ {r}) \cup {s}
    BY <1>5, <2>4 DEF SweepRow
  <2>6. \A other \in moves \ {r} : s.held \cap other.held = {}
    BY <1>3, <2>1, <2>3 DEF RowFree
  <2>. HIDE DEF s
  <2>7. QED
    BY <1>1, <2>3, <2>5, <2>6, OwnStepKeeps
<1>6. CASE SumLedger(r)
  <2>. DEFINE s == SweepOf(r, "summed", r.held, r.left, ledger)
  <2>1. r.held \subseteq DOMAIN ledger
    BY <1>3, <1>6 DEF SumLedger, Swept
  <2>2. GoodRequest(s) /\ s.n = r.n /\ s.held = r.held
    BY <1>2, <1>3, <2>1, SweepIsGood
  <2>3. s = [r EXCEPT !.step = "summed", !.totals = ledger]
    BY <1>3 DEF SweepOf, GoodRequest, Request
  <2>4. moves' = (moves \ {r}) \cup {s}
    BY <1>6, <2>3 DEF SumLedger
  <2>. HIDE DEF s
  <2>5. QED
    BY <1>1, <1>3, <2>2, <2>4, OwnStepKeeps
<1>7. QED
  BY <1>4, <1>5, <1>6

LEMMA UnsettledIsGood ==
    ASSUME NEW other, GoodRequest(other), NEW gone
    PROVE  /\ GoodRequest(Unsettled(other, gone))
           /\ Unsettled(other, gone).n = other.n
           /\ Unsettled(other, gone).held \subseteq other.held
<1>. DEFINE s == Unsettled(other, gone)
<1>1. other \in Request /\ Swept(other) /\ Asked(other) /\ OfProduct(other)
  BY DEF GoodRequest
<1>2. CASE other.step = "sweeping"
  <2>1. /\ s \in Request /\ s.n = other.n /\ s.kind = other.kind /\ s.fields = other.fields
        /\ s.step = "sweeping" /\ s.held = other.held /\ s.left \subseteq other.left
    BY <1>1, <1>2 DEF Unsettled, Request
  <2>. HIDE DEF s
  <2>2. Asked(s) /\ OfProduct(s)
    BY <1>1, <2>1, SameMovements
  <2>3. Validated(s) /\ Covered(s) /\ Swept(s) /\ HoldsNothing(s)
    BY <1>1, <1>2, <2>1 DEF Validated, Covered, Swept, HoldsNothing
  <2>4. QED
    BY <2>1, <2>2, <2>3 DEF GoodRequest, s
<1>3. CASE other.step = "locking" /\ Origin(other) \in gone
  <2>1. /\ s \in Request /\ s.n = other.n /\ s.kind = other.kind /\ s.fields = other.fields
        /\ s.step = "short" /\ s.held = {}
    BY <1>1, <1>3 DEF Unsettled, Request, RequestSteps
  <2>. HIDE DEF s
  <2>2. Asked(s) /\ OfProduct(s)
    BY <1>1, <2>1, SameMovements
  <2>3. Validated(s) /\ Covered(s) /\ Swept(s) /\ HoldsNothing(s)
    BY <2>1 DEF Validated, Covered, Swept, HoldsNothing
  <2>4. QED
    BY <2>1, <2>2, <2>3 DEF GoodRequest, s
<1>4. CASE other.step # "sweeping" /\ ~(other.step = "locking" /\ Origin(other) \in gone)
  BY <1>4 DEF Unsettled
<1>5. QED
  BY <1>2, <1>3, <1>4

(* A rebuild that finds no row in its way inserts the balances there are:   *)
(* the rows it deleted and held since are all that it summed.               *)
LEMMA RebuiltIsLedger ==
    ASSUME DeskInv, NEW r \in moves, r.step = "summed", ~Conflicts(r)
    PROVE  Rebuilt(r) = ledger
<1>1. /\ r.held \subseteq DOMAIN r.totals /\ DOMAIN r.totals \subseteq DOMAIN ledger
      /\ \A c \in r.held : r.totals[c] = ledger[c]
  BY DEF DeskInv, RequestsInv, GoodRequest, Swept
<1>2. ledger \in PartialSums /\ balance = ledger
  BY DEF DeskInv, DeskStock
<1>3. DOMAIN r.totals = r.held
  BY <1>1, <1>2 DEF Conflicts, Added
<1>4. ledger = [c \in DOMAIN ledger |-> ledger[c]]
  BY <1>2 DEF PartialSums
<1>5. (DOMAIN balance \ r.held) \cup DOMAIN r.totals = DOMAIN ledger
  BY <1>1, <1>2, <1>3
<1>6. Rebuilt(r) = [c \in DOMAIN ledger |-> ledger[c]]
  BY <1>1, <1>2, <1>3, <1>5 DEF Rebuilt
<1>7. QED
  BY <1>4, <1>6

LEMMA InsertKeeps == ASSUME DeskInv, NEW r \in moves, InsertRows(r) PROVE DeskInv'
<1>1. UNCHANGED <<ledger, batches, deskForms, moved>> /\ r.step = "summed"
  BY DEF InsertRows
<1>2. CASE Conflicts(r)
  BY <1>1, <1>2, MarkKeeps DEF InsertRows, Quiet
<1>3. CASE ~Conflicts(r)
  <2>1. Quiet
    BY <1>1, <1>3, RebuiltIsLedger DEF InsertRows, Quiet, DeskInv, DeskStock
  <2>2. GoodRequest(r) /\ r \in Request
    BY DEF DeskInv, RequestsInv, GoodRequest
  <2>. DEFINE s == [r EXCEPT !.step = "done", !.held = {}, !.totals = Nothing]
              U(other) == Unsettled(other, r.held)
  <2>3. /\ s \in Request /\ s.n = r.n /\ s.kind = r.kind /\ s.fields = r.fields
        /\ s.step = "done" /\ s.held = {}
    BY <2>2, NothingIsASum DEF Request, RequestSteps
  <2>4. moves' = {U(other) : other \in moves \ {r}} \cup {s}
    BY <1>3 DEF InsertRows
  <2>. HIDE DEF s
  <2>5. GoodRequest(s)
    <3>1. Asked(s) /\ OfProduct(s)
      BY <2>2, <2>3, SameMovements DEF GoodRequest
    <3>2. Validated(s) /\ Covered(s) /\ Swept(s) /\ HoldsNothing(s)
      BY <2>3 DEF Validated, Covered, Swept, HoldsNothing
    <3>3. QED
      BY <2>3, <3>1, <3>2 DEF GoodRequest
  <2>6. \A other \in moves : GoodRequest(U(other)) /\ U(other).n = other.n /\ U(other).held \subseteq other.held
    BY UnsettledIsGood DEF DeskInv, RequestsInv
  <2>. HIDE DEF U
  <2>7. \A q \in moves' : GoodRequest(q)' /\ q.n \in 1..moved'
    <3>1. \A q \in moves' : GoodRequest(q) /\ q.n \in 1..moved
      BY <2>3, <2>4, <2>5, <2>6 DEF DeskInv, RequestsInv
    <3>2. QED
      BY <1>1, <2>1, <3>1, QuietKeeps
  <2>8. ASSUME NEW q \in moves', NEW other \in moves', q # other
        PROVE  q.n # other.n /\ q.held \cap other.held = {}
    <3>1. ASSUME NEW x \in moves', x # s PROVE \E y \in moves \ {r} : x = U(y)
      BY <2>4, <3>1
    <3>2. CASE q = s
      <4>1. PICK y \in moves \ {r} : other = U(y)
        BY <2>8, <3>1, <3>2
      <4>2. QED
        BY <2>3, <2>6, <3>2, <4>1 DEF DeskInv, RequestsInv, Apart
    <3>3. CASE other = s
      <4>1. PICK y \in moves \ {r} : q = U(y)
        BY <2>8, <3>1, <3>3
      <4>2. QED
        BY <2>3, <2>6, <3>3, <4>1 DEF DeskInv, RequestsInv, Apart
    <3>4. CASE q # s /\ other # s
      <4>1. PICK x \in moves \ {r}, y \in moves \ {r} : q = U(x) /\ other = U(y)
        BY <3>1, <3>4
      <4>2. x # y
        BY <2>8, <4>1
      <4>3. x.n # y.n /\ x.held \cap y.held = {}
        BY <4>2 DEF DeskInv, RequestsInv, Apart
      <4>4. QED
        BY <2>6, <4>1, <4>3
    <3>5. QED
      BY <3>2, <3>3, <3>4
  <2>9. RequestsInv' /\ DeskStock'
    BY <2>1, <2>7, <2>8, QuietKeeps DEF RequestsInv, Apart, DeskInv
  <2>10. QED
    BY <1>1, <2>9 DEF DeskInv, FormInv, deskForms
<1>4. QED
  BY <1>2, <1>3

-----------------------------------------------------------------------------
(* Every step *)

LEMMA FormsKeep ==
    ASSUME DeskInv, UNCHANGED <<ledger, balance, batches, moves, moved>>,
           loaded' \subseteq Warehouses, typings' \in 0..MostTyped,
           FormInv', (form = [j \in Forms |-> form[j]])'
    PROVE  DeskInv'
<1>1. Quiet
  BY DEF Quiet
<1>2. DeskStock' /\ RequestsInv'
  BY <1>1, QuietKeeps DEF DeskInv, RequestsInv, Apart
<1>3. QED
  BY <1>2 DEF DeskInv

LEMMA OpenKeeps ==
    ASSUME StockDeskAssumption, DeskInv, NEW k \in Forms, OpenForm(k)
    PROVE  DeskInv'
<1>. DEFINE f == [product |-> Empty, warehouse |-> 1, place |-> Empty, toWarehouse |-> 1, toPlace |-> Empty,
                  lot |-> Empty, waste |-> FALSE, quantity |-> Empty, cost |-> Empty]
<1>1. f \in Fields
  BY DEF Fields, OrEmpty, StockDeskAssumption
<1>2. f.product = Empty /\ f.lot = Empty
  OBVIOUS
<1>3. form' = [form EXCEPT ![k] = SettledFields(f, loaded)]
  BY DEF OpenForm
<1>. HIDE DEF f
<1>4. Fits(k, SettledFields(f, loaded))
  BY <1>1, <1>2, SettledFieldsStay DEF Fits, OrEmpty
<1>5. FormInv' /\ (form = [j \in Forms |-> form[j]])'
  BY <1>3, <1>4, OneFormChanges
<1>6. UNCHANGED <<ledger, balance, batches, loaded, moves, moved, typings>>
  BY DEF OpenForm, deskServer
<1>7. QED
  BY <1>5, <1>6, FormsKeep DEF DeskInv

LEMMA LoadKeeps ==
    ASSUME StockDeskAssumption, DeskInv, NEW w \in Warehouses, LoadLocations(w)
    PROVE  DeskInv'
<1>1. /\ form' = [k \in Forms |-> IF form[k] = Empty THEN Empty ELSE SettledFields(form[k], loaded')]
      /\ loaded' = loaded \cup {w}
      /\ UNCHANGED <<ledger, balance, batches, moves, moved, typings>>
  BY DEF LoadLocations, deskServer
<1>2. FormInv'
  <2>. SUFFICES ASSUME NEW k \in Forms PROVE Fits(k, form'[k])
    BY DEF FormInv, Fits
  <2>1. Fits(k, form[k])
    BY DEF DeskInv, FormInv, Fits
  <2>2. CASE form[k] = Empty
    BY <1>1, <2>2 DEF Fits, OrEmpty
  <2>3. CASE form[k] # Empty
    <3>1. form[k] \in Fields /\ form'[k] = SettledFields(form[k], loaded')
      BY <1>1, <2>1, <2>3 DEF Fits, OrEmpty
    <3>2. /\ form'[k] \in Fields /\ form'[k].product = form[k].product
          /\ form'[k].lot = form[k].lot /\ form'[k].cost = form[k].cost
      BY <3>1, SettledFieldsStay
    <3>3. QED
      BY <2>1, <2>3, <3>2 DEF Fits, OrEmpty
  <2>4. QED
    BY <2>2, <2>3
<1>3. (form = [j \in Forms |-> form[j]])'
  BY <1>1
<1>4. QED
  BY <1>1, <1>2, <1>3, FormsKeep DEF DeskInv

LEMMA ServeKeeps == ASSUME DeskInv, NEW r \in moves, ServeRequest(r) PROVE DeskInv'
<1>1. CASE Victim(r)
  BY <1>1, MarkKeeps DEF Victim, deskServer, Quiet
<1>2. QED
  BY <1>1, ValidateKeeps, LockKeeps, UpsertKeeps, CommitKeeps, RebuildKeeps, InsertKeeps DEF ServeRequest

LEMMA StepKeepsDesk ==
    ASSUME StockDeskAssumption, DeskInv, [DeskNext]_deskVars
    PROVE  DeskInv'
<1>1. CASE EditForm
  BY <1>1, EditFormKeeps, FormsKeep DEF DeskInv
<1>2. ASSUME NEW k \in Forms, OpenForm(k) \/ Submit(k) PROVE DeskInv'
  BY <1>2, OpenKeeps, SubmitKeeps
<1>3. ASSUME NEW w \in Warehouses, LoadLocations(w) PROVE DeskInv'
  BY <1>3, LoadKeeps
<1>4. CASE PressRebuild
  BY <1>4, RebuildSent DEF PressRebuild
<1>5. ASSUME NEW kind \in Others, Elsewhere(kind) PROVE DeskInv'
  BY <1>5, ElsewhereKeeps
<1>6. ASSUME NEW r \in moves, ServeRequest(r) \/ \E lost \in BOOLEAN : AnswerDesk(r, lost) PROVE DeskInv'
  BY <1>6, ServeKeeps, AnswerKeeps
<1>7. CASE UNCHANGED deskVars
  <2>1. UNCHANGED <<ledger, balance, batches, form, loaded, moves, moved, typings>>
    BY <1>7 DEF deskVars, deskServer, deskForms
  <2>2. QED
    BY <2>1, FormsKeep DEF DeskInv, FormInv
<1>8. QED
  BY <1>1, <1>2, <1>3, <1>4, <1>5, <1>6, <1>7 DEF DeskNext

LEMMA DeskInvHolds == ASSUME StockDeskAssumption PROVE DeskSpec => []DeskInv
<1>1. DeskInit => DeskInv
  BY StartIsGood
<1>2. DeskInv /\ [DeskNext]_deskVars => DeskInv'
  BY StepKeepsDesk
<1>3. QED
  BY <1>1, <1>2, PTL DEF DeskSpec

LEMMA DeskInvTypes == ASSUME DeskInv PROVE DeskTypeOK
<1>1. ledger \in PartialSums /\ balance = ledger
  BY DEF DeskInv, DeskStock
<1>2. \A f \in PartialSums : Partial(f)
  BY DEF PartialSums, Partial
<1>3. form \in [Forms -> OrEmpty(Fields)]
  BY DEF DeskInv, FormInv
<1>4. ASSUME NEW r \in moves
      PROVE  /\ r.n \in 1..moved
             /\ r.kind \in {"adjust", "waste", "transfer", "rebuild"}
             /\ r.step \in RequestSteps
             /\ r.fields \in OrEmpty(Fields)
             /\ r.held \cup r.left \subseteq Coordinates
             /\ Partial(r.totals)
             /\ r.step \in {"sent", "done", "refused", "short"} => r.held = {}
  BY <1>2 DEF DeskInv, RequestsInv, GoodRequest, Request, HoldsNothing
<1>5. QED
  BY <1>1, <1>2, <1>3, <1>4 DEF DeskTypeOK, DeskInv, DeskStock, RequestsInv, Apart

LEMMA DeskHolds ==
    ASSUME DeskInv PROVE DeskTypeOK /\ BalancesAreLedger /\ StockIsSound /\ FieldsOfProduct
<1>1. DeskTypeOK
  BY DeskInvTypes
<1>2. BalancesAreLedger /\ StockIsSound
  BY DEF DeskInv, DeskStock, BalancesAreLedger, StockIsSound
<1>3. FieldsOfProduct
  BY DEF DeskInv, RequestsInv, GoodRequest, OfProduct, FieldsOfProduct
<1>4. QED
  BY <1>1, <1>2, <1>3

-----------------------------------------------------------------------------
(* Who takes what is there *)

LEMMA SameBalances == ASSUME DeskInv, balance' = balance PROVE AdjustmentOverdraws
<1>1. \A c : Amount(balance, c) \in Int
  BY AmountsAreIntegers DEF DeskInv, DeskStock
<1>2. QED
  BY <1>1 DEF AdjustmentOverdraws, Amount

(* A commit takes from the row of the origin only, where a loss or a        *)
(* transfer found enough and held it since.                                 *)
LEMMA CommitOverdraws == ASSUME DeskInv, NEW r \in moves, Commit(r) PROVE AdjustmentOverdraws
<1>1. /\ r \in Request /\ Asked(r) /\ Covered(r) /\ r.kind # "rebuild" /\ r.step = "writing"
      /\ r.kind = "transfer" => Origin(r) # Target(r)
  BY DEF Commit, DeskInv, RequestsInv, GoodRequest, Validated
<1>2. ledger \in PartialSums /\ balance = ledger
  BY DEF DeskInv, DeskStock
<1>3. /\ Gain(r) \in Int /\ Origin(r) \in Touched(r)
      /\ r.kind # "adjust" => Gain(r) < 0
  BY <1>1, RowsOfRequest
<1>4. balance' = Moved(r, balance)
  BY DEF Commit
<1>5. /\ Amount(balance', Origin(r)) = Amount(balance, Origin(r)) + Gain(r)
      /\ r.kind = "transfer" => Amount(balance', Target(r)) = Amount(balance, Target(r)) - Gain(r)
      /\ \A x : x \notin Touched(r) => Amount(balance', x) = Amount(balance, x)
  BY <1>1, <1>2, <1>4, MovementsAdded
<1>6. \A x : Amount(balance, x) \in Int
  BY <1>2, AmountsAreIntegers
<1>. SUFFICES ASSUME NEW c \in DOMAIN balance', balance'[c] < Amount(balance, c), balance'[c] < 0
     PROVE  r.kind = "adjust" /\ Origin(r) = c
  BY <1>1 DEF AdjustmentOverdraws
<1>7. Amount(balance', c) < Amount(balance, c) /\ Amount(balance', c) < 0
  BY DEF Amount
<1>8. c \in Touched(r)
  BY <1>5, <1>6, <1>7
<1>9. c = Origin(r)
  <2>1. CASE r.kind = "transfer" /\ c = Target(r)
    BY <1>1, <1>3, <1>5, <1>6, <1>7, <2>1
  <2>2. QED
    BY <1>8, <2>1 DEF Touched
<1>10. r.kind = "adjust"
  <2>. SUFFICES ASSUME r.kind # "adjust" PROVE FALSE
    OBVIOUS
  <2>1. Amount(ledger, Origin(r)) + Gain(r) >= 0
    BY <1>1 DEF Covered, MustHave
  <2>2. Amount(balance', c) = Amount(ledger, Origin(r)) + Gain(r)
    BY <1>2, <1>5, <1>9
  <2>3. Amount(ledger, Origin(r)) \in Int
    BY <1>2, AmountsAreIntegers
  <2>4. QED
    BY <1>3, <1>7, <2>1, <2>2, <2>3
<1>11. QED
  BY <1>9, <1>10

LEMMA EditFormOnly == ASSUME EditForm PROVE UNCHANGED <<balance, moves>>
<1>1. \A k, f : Edit(k, f) => UNCHANGED <<balance, moves>>
  BY DEF Edit, deskServer
<1>2. QED
  BY <1>1 DEF EditForm, Choose, Search, ChooseWarehouse, ChooseDestination, ChoosePlaces,
     TypeLot, TypeAmount, TypeCost, Waste

LEMMA StepOverdraws == ASSUME DeskInv, [DeskNext]_deskVars PROVE AdjustmentOverdraws
<1>1. ASSUME NEW r \in moves, Commit(r) PROVE AdjustmentOverdraws
  BY <1>1, CommitOverdraws
<1>2. ASSUME NEW r \in moves, InsertRows(r) PROVE balance' = balance
  BY <1>2, RebuiltIsLedger DEF InsertRows, DeskInv, DeskStock
<1>3. ASSUME NEW r \in moves, ServeRequest(r) PROVE AdjustmentOverdraws
  <2>1. CASE Validate(r) \/ Lock(r) \/ Upsert(r) \/ StartSweep(r) \/ SumLedger(r) \/ Victim(r)
    BY <2>1, SameBalances DEF Validate, Lock, Upsert, StartSweep, SumLedger, Victim, deskServer
  <2>2. CASE \E c \in Coordinates : SweepRow(r, c)
    BY <2>2, SameBalances DEF SweepRow, deskServer
  <2>3. QED
    BY <1>1, <1>2, <1>3, <2>1, <2>2, SameBalances DEF ServeRequest
<1>4. CASE EditForm
  BY <1>4, EditFormOnly, SameBalances
<1>5. CASE \E kind \in Others : Elsewhere(kind)
  BY <1>5, SameBalances DEF Elsewhere, SendRequest, deskServer
<1>6. CASE PressRebuild \/ \E k \in Forms : OpenForm(k) \/ Submit(k)
  BY <1>6, SameBalances DEF PressRebuild, OpenForm, Submit, SendRequest, deskServer
<1>7. CASE \E w \in Warehouses : LoadLocations(w)
  BY <1>7, SameBalances DEF LoadLocations, deskServer
<1>8. CASE \E r \in moves : \E lost \in BOOLEAN : AnswerDesk(r, lost)
  BY <1>8, SameBalances DEF AnswerDesk, deskServer
<1>9. CASE UNCHANGED deskVars
  BY <1>9, SameBalances DEF deskVars, deskServer
<1>10. QED
  BY <1>3, <1>4, <1>5, <1>6, <1>7, <1>8, <1>9 DEF DeskNext

(* Losses and transfers never take more than there is, also while the       *)
(* balances are rebuilt.                                                    *)
THEOREM OnlyAdjustmentsOverdraw == ASSUME StockDeskAssumption PROVE DeskSpec => [][AdjustmentOverdraws]_deskVars
<1>1. DeskInv /\ [DeskNext]_deskVars => [AdjustmentOverdraws]_deskVars
  BY StepOverdraws
<1>2. QED
  BY <1>1, DeskInvHolds, PTL DEF DeskSpec

(* Only the step of a request itself can find that it is short.             *)
LEMMA OnlyOneChanges ==
    ASSUME DeskInv, NEW q \in moves, NEW s, moves' \subseteq (moves \ {q}) \cup {s}, s.n = q.n,
           s.step = "short" => Amount(ledger, Origin(q)) + Gain(q) < 0
    PROVE  RefusalIsFair
<1>. SUFFICES ASSUME NEW r \in moves, NEW after \in moves',
                     r.n = after.n, after.step = "short", r.step # "short"
     PROVE  Amount(ledger, Origin(r)) + Gain(r) < 0
  BY DEF RefusalIsFair
<1>1. after \in moves \ {q} => after = r
  BY DEF DeskInv, RequestsInv, Apart
<1>2. after = s
  BY <1>1
<1>3. r = q
  BY <1>2 DEF DeskInv, RequestsInv, Apart
<1>4. QED
  BY <1>2, <1>3

LEMMA NoneIsShort == ASSUME DeskInv, moves' \subseteq moves PROVE RefusalIsFair
BY DEF RefusalIsFair, DeskInv, RequestsInv, Apart

LEMMA ServeIsFair ==
    ASSUME DeskInv, NobodyRebuilds, NEW r \in moves, ServeRequest(r)
    PROVE  RefusalIsFair
<1>1. GoodRequest(r) /\ r \in Request /\ r.kind # "rebuild" /\ Asked(r) /\ r.step \notin {"sweeping", "summed"}
  BY DEF NobodyRebuilds, DeskInv, RequestsInv, GoodRequest, Swept
<1>2. /\ Gain(r) \in Int /\ (MustHave(r) => Gain(r) < 0)
      /\ balance = ledger /\ Amount(ledger, Origin(r)) \in Int
  BY <1>1, RowsOfRequest, AmountsAreIntegers DEF MustHave, DeskInv, DeskStock
<1>3. ASSUME NEW step, Step(r, step) = moves',
             step = "short" => Amount(ledger, Origin(r)) + Gain(r) < 0
      PROVE  RefusalIsFair
  <2>. DEFINE s == Marked(r, step)
  <2>1. moves' = (moves \ {r}) \cup {s}
    BY <1>3 DEF Step, Marked
  <2>2. s.n = r.n /\ s.step = step
    BY <1>1 DEF Marked, Request
  <2>. HIDE DEF s
  <2>3. QED
    BY <1>3, <2>1, <2>2, OnlyOneChanges
<1>4. ASSUME NEW c, Hold(r, "writing", c) = moves' PROVE RefusalIsFair
  <2>. DEFINE s == Holding(r, "writing", c)
  <2>1. moves' = (moves \ {r}) \cup {s}
    BY <1>4 DEF Hold, Holding
  <2>2. s.n = r.n /\ s.step = "writing"
    BY <1>1 DEF Holding, Request
  <2>. HIDE DEF s
  <2>3. QED
    BY <2>1, <2>2, OnlyOneChanges
<1>5. CASE Validate(r)
  <2>1. PICK step : /\ Step(r, step) = moves'
                    /\ step = "short" => MustHave(r) /\ Origin(r) \notin DOMAIN balance
    <3>. DEFINE bad == \/ \E c \in Touched(r) : ~Sound(c)
                       \/ ~LotKnown(r)
                       \/ r.kind = "transfer" /\ Origin(r) = Target(r)
                step == IF bad THEN "refused" ELSE IF ~MustHave(r) THEN "writing"
                        ELSE IF Origin(r) \in DOMAIN balance THEN "locking" ELSE "short"
    <3>1. moves' = Step(r, step)
      BY <1>5 DEF Validate
    <3>. HIDE DEF bad
    <3>2. step = "short" => MustHave(r) /\ Origin(r) \notin DOMAIN balance
      OBVIOUS
    <3>. HIDE DEF step
    <3>3. QED
      BY <3>1, <3>2
  <2>2. step = "short" => Amount(ledger, Origin(r)) + Gain(r) < 0
    BY <1>2, <2>1 DEF Amount
  <2>3. QED
    BY <1>3, <2>1, <2>2
<1>6. CASE Lock(r)
  <2>1. CASE Amount(ledger, Origin(r)) + Gain(r) < 0
    BY <1>2, <1>3, <1>6, <2>1 DEF Lock
  <2>2. CASE ~(Amount(ledger, Origin(r)) + Gain(r) < 0)
    BY <1>2, <1>4, <1>6, <2>2 DEF Lock
  <2>3. QED
    BY <2>1, <2>2
<1>7. CASE Upsert(r)
  BY <1>4, <1>7 DEF Upsert
<1>8. CASE Commit(r) \/ Victim(r)
  BY <1>3, <1>8 DEF Commit, Victim
<1>9. ~(StartSweep(r) \/ SumLedger(r) \/ InsertRows(r) \/ \E c \in Coordinates : SweepRow(r, c))
  BY <1>1 DEF StartSweep, SumLedger, InsertRows, SweepRow
<1>10. QED
  BY <1>5, <1>6, <1>7, <1>8, <1>9 DEF ServeRequest

LEMMA SendIsFair == ASSUME DeskInv, NEW kind, NEW ours, NEW f, SendRequest(kind, ours, f) PROVE RefusalIsFair
<1>. PICK s : s = [n |-> moved', kind |-> kind, ours |-> ours, fields |-> f,
                   step |-> "sent", held |-> {}, left |-> {}, totals |-> Nothing]
  OBVIOUS
<1>1. moves' = moves \cup {s} /\ s.step = "sent"
  BY DEF SendRequest
<1>2. QED
  BY <1>1 DEF RefusalIsFair, DeskInv, RequestsInv, Apart

LEMMA StepIsFair == ASSUME DeskInv, NobodyRebuilds, [DeskNext]_deskVars PROVE RefusalIsFair
<1>1. CASE \E r \in moves : ServeRequest(r)
  BY <1>1, ServeIsFair
<1>2. CASE \E k \in Forms : Submit(k)
  BY <1>2, SendIsFair DEF Submit
<1>3. CASE PressRebuild \/ \E kind \in Others : Elsewhere(kind)
  <2>1. ASSUME PressRebuild
        PROVE  \E kind, ours, f : SendRequest(kind, ours, f)
    BY <2>1 DEF PressRebuild
  <2>2. ASSUME NEW kind \in Others, Elsewhere(kind), kind = "rebuild"
        PROVE  \E ours, f : SendRequest(kind, ours, f)
    BY <2>2 DEF Elsewhere
  <2>3. ASSUME NEW kind \in Others, Elsewhere(kind), kind # "rebuild"
        PROVE  \E ours, f : SendRequest(kind, ours, f)
    BY <2>3 DEF Elsewhere
  <2>4. QED
    BY <1>3, <2>1, <2>2, <2>3, SendIsFair
<1>4. CASE EditForm
  BY <1>4, EditFormOnly, NoneIsShort
<1>5. CASE (\E k \in Forms : OpenForm(k)) \/ (\E w \in Warehouses : LoadLocations(w))
  BY <1>5, NoneIsShort DEF OpenForm, LoadLocations
<1>6. CASE \E r \in moves : \E lost \in BOOLEAN : AnswerDesk(r, lost)
  BY <1>6, NoneIsShort DEF AnswerDesk
<1>7. CASE UNCHANGED deskVars
  BY <1>7, NoneIsShort DEF deskVars
<1>8. QED
  BY <1>1, <1>2, <1>3, <1>4, <1>5, <1>6, <1>7 DEF DeskNext

(* Requests that race for the same stock take no more than there is, and     *)
(* while nothing rebuilds the balances they are refused only when it is      *)
(* short.  (While they are rebuilt a row is not there for those that wait    *)
(* for it, and they are told that there is nothing.)                        *)
THEOREM StockIsSharedFairly == ASSUME StockDeskAssumption PROVE DeskSpec => [][StockIsShared]_deskVars
<1>1. DeskInv /\ [DeskNext]_deskVars => [StockIsShared]_deskVars
  BY StepOverdraws, StepIsFair DEF StockIsShared
<1>2. QED
  BY <1>1, DeskInvHolds, PTL DEF DeskSpec

(* The balances are the ledger, stock is where and as it may be kept, a form *)
(* is sent with what belongs to its product, and the stock is shared fairly, *)
(* whatever is corrected, moved, lost and rebuilt at the same time.         *)
THEOREM DeskAgrees == ASSUME StockDeskAssumption PROVE DeskSpec => StockAgrees
<1>1. DeskSpec => [](DeskTypeOK /\ BalancesAreLedger /\ StockIsSound /\ FieldsOfProduct)
  BY DeskHolds, DeskInvHolds, PTL
<1>2. QED
  BY <1>1, StockIsSharedFairly DEF StockAgrees

-----------------------------------------------------------------------------
(* The lots: Lots.tla                                                       *)

(* Requests are numbered, and those that name a lot or its values have      *)
(* them.                                                                    *)
Numbered ==
    /\ \A r \in pending : r.n <= made
    /\ \A r, s \in pending : r.n = s.n => r = s

Named ==
    \A r \in pending :
        /\ r.kind \in {"create", "update"} => r.values # None
        /\ r.kind = "create" => r.lot = None
        /\ r.kind = "delete" => r.values = None
        /\ r.kind \in {"update", "delete", "count"} => r.lot \in Ids
        /\ r.kind = "count" /\ r.step = "checked" => r.before \in Int

ServerInv == UsedLotsStay /\ NumbersAreUnique /\ ConsumedOnce

LotsInv == TypeOK /\ Numbered /\ Named /\ ServerInv

-----------------------------------------------------------------------------
(* The values of the operators *)

LEMMA Constants ==
    /\ LastLot \in Nat /\ FirstLots \in Nat /\ LastRequest \in Nat /\ LastEdit \in Nat
    /\ FirstLots <= LastLot /\ Largest \in Nat /\ Largest >= 1
    /\ None \notin Nat /\ None \notin Row /\ None \notin Ids
BY LotsAssumption DEF Row, Or, Ids

LEMMA QuantityType ==
    ASSUME TypeOK, NEW p \in Places, NEW i \in Ids
    PROVE  Quantity(p, i) \in Int /\ Positive(p)[i] \in Nat
BY DEF TypeOK, Quantity, Positive, Or

LEMMA PositiveType ==
    ASSUME TypeOK, NEW p \in Places
    PROVE  Positive(p) \in Balances
BY QuantityType DEF Positive, Balances

(* Whatever the sums are, a consumption takes from a lot at most what it    *)
(* has, and nothing from one that is not there.                             *)
LEMMA TakesType ==
    ASSUME TypeOK, NEW p \in Places, NEW q, NEW i \in Ids
    PROVE  /\ Takes(p, q)[i] \in 0..Positive(p)[i]
           /\ lots[i] = None => Takes(p, q)[i] = 0
<1>1. Positive(p)[i] \in Nat
  BY QuantityType
<1>2. PICK w : Takes(p, q)[i] = IF lots[i] = None \/ w < 0 THEN 0
                                ELSE IF w \in 0..Positive(p)[i] THEN w ELSE Positive(p)[i]
  BY Zenon DEF Takes
<1>3. QED
  BY <1>1, <1>2

LEMMA TakenType ==
    ASSUME TypeOK, NEW p \in Places, NEW q
    PROVE  /\ Taken(p, Takes(p, q)) \in [Ids -> Or(Int)]
           /\ \A i \in Ids : lots[i] = None => Taken(p, Takes(p, q))[i] = stock[p][i]
           /\ \A i \in Ids : stock[p][i] = None => Taken(p, Takes(p, q))[i] = None
<1> DEFINE T == Takes(p, q)
<1>1. \A i \in Ids : T[i] \in Int /\ (lots[i] = None => T[i] = 0)
  BY TakesType, QuantityType
<1>2. \A i \in Ids : stock[p][i] = None => T[i] = 0
  BY TakesType, QuantityType DEF Positive, Quantity
<1>3. \A i \in Ids : Quantity(p, i) \in Int /\ stock[p][i] \in Or(Int)
  BY QuantityType DEF TypeOK
<1> HIDE DEF T
<1>4. QED
  BY <1>1, <1>2, <1>3 DEF Taken, Or, T

LEMMA BlankType ==
    ASSUME TypeOK, NEW c \in Clerks, made < LastRequest,
           NEW kind \in {"plan", "consume", "count", "create", "update", "delete"}
    PROVE  Blank(c, kind) \in Requests
BY Constants DEF TypeOK, Blank, Requests, Panels, Keys, Or, Steps

-----------------------------------------------------------------------------
(* The types *)

LEMMA InitType == Init => TypeOK
<1> SUFFICES ASSUME Init PROVE TypeOK
  OBVIOUS
<1> DEFINE number == CHOOSE f \in [1..FirstLots -> Numbers] :
                         \A i, j \in 1..FirstLots : f[i] = f[j] => i = j
<1>0. number \in [1..FirstLots -> Numbers]
  BY LotsAssumption
<1>1. PICK expires \in [1..FirstLots -> Or(Dates)] :
          lots = [i \in Ids |-> IF i > FirstLots THEN None
                                ELSE [number |-> number[i], expires |-> expires[i]]]
  BY DEF Init
<1> HIDE DEF number
<1>2. lots \in [Ids -> Or(Row)] /\ \A i \in Ids : i > FirstLots => lots[i] = None
  BY <1>0, <1>1, Constants DEF Ids, Or, Row
<1>3. \A c \in Clerks : panel[c] \in Panels
  BY LotsAssumption DEF Init, Fresh, Panels, Or
<1>4. panel \in [Clerks -> Panels]
  BY <1>3 DEF Init
<1>5. stock \in [Places -> [Ids -> Or(Int)]]
  BY DEF Init, Or
<1>6. born \in FirstLots..LastLot /\ made \in 0..LastRequest /\ edits \in 0..LastEdit
  BY Constants DEF Init
<1>7. /\ executed \in [Keys -> Nat] /\ seenLots \in [Clerks -> [Ids -> Or(Row)]]
      /\ seenStock \in [Clerks -> [Places -> Or(Balances)]]
      /\ stale \in [Clerks -> SUBSET (Places \cup {"lots"})] /\ pending \subseteq Requests
  BY <1>2 DEF Init, Or
<1>8. QED
  BY <1>2, <1>4, <1>5, <1>6, <1>7 DEF Init, TypeOK

LEMMA TouchType ==
    ASSUME TypeOK, NEW c \in Clerks, NEW p \in Panels, Touch(c, p)
    PROVE  TypeOK'
BY Constants DEF TypeOK, Touch, server, queries

LEMMA EditsType ==
    ASSUME TypeOK, NEW c \in Clerks, Edits(c)
    PROVE  TypeOK'
<1>1. panel[c] \in Panels
  BY DEF TypeOK
<1>2. ASSUME NEW p \in Places, ChangePlace(c, p) PROVE TypeOK'
  <2>1. [panel[c] EXCEPT !.place = p, !.plan = None] \in Panels
    BY <1>1 DEF Panels, Or
  <2>2. QED
    BY <1>2, <2>1, TouchType DEF ChangePlace
<1>3. ASSUME NEW q \in Or(1..Largest), TypeQuantity(c, q) PROVE TypeOK'
  <2>1. [panel[c] EXCEPT !.quantity = q, !.plan = None] \in Panels
    BY <1>1 DEF Panels, Or
  <2>2. QED
    BY <1>3, <2>1, TouchType DEF TypeQuantity
<1>4. ASSUME NEW i \in Ids, StartCount(c, i) PROVE TypeOK'
  <2> DEFINE q == seenStock[c][panel[c].place][i]
             new == [lot |-> i, quantity |-> IF q > Largest THEN Largest ELSE q, at |-> panel[c].place]
  <2>1. panel[c].place \in Places
    BY <1>1 DEF Panels
  <2>2. q \in Nat
    BY <1>4, <2>1 DEF StartCount, Listed, TypeOK, Or, Balances
  <2>3. new \in [lot: Ids, quantity: 0..Largest, at: Places]
    BY <2>1, <2>2, Constants
  <2>4. [panel[c] EXCEPT !.count = new] \in Panels
    BY <1>1, <2>3 DEF Panels, Or
  <2>5. QED
    BY <1>4, <2>4, TouchType DEF StartCount
<1>5. ASSUME NEW i \in Ids, EditRow(c, i) PROVE TypeOK'
  <2>1. seenLots[c][i] \in Row
    BY <1>5 DEF EditRow, TypeOK, Or
  <2>2. [panel[c] EXCEPT !.row = [lot |-> i, values |-> seenLots[c][i]]] \in Panels
    BY <1>1, <2>1 DEF Panels, Or
  <2>3. QED
    BY <1>5, <2>2, TouchType DEF EditRow
<1>6. ASSUME NEW q \in 0..Largest, TypeCount(c, q) PROVE TypeOK'
  <2>1. panel[c].count \in [lot: Ids, quantity: 0..Largest, at: Places] /\ panel[c].place \in Places
    BY <1>1, <1>6 DEF TypeCount, Counting, Panels, Or
  <2>2. [panel[c] EXCEPT !.count.quantity = q, !.count.at = panel[c].place] \in Panels
    BY <1>1, <2>1 DEF Panels, Or
  <2>3. QED
    BY <1>6, <2>2, TouchType DEF TypeCount
<1>7. ASSUME CancelCount(c) PROVE TypeOK'
  <2>1. [panel[c] EXCEPT !.count = None] \in Panels
    BY <1>1 DEF Panels, Or
  <2>2. QED
    BY <1>7, <2>1, TouchType DEF CancelCount
<1>8. ASSUME NEW values \in Row, TypeRow(c, values) PROVE TypeOK'
  <2>1. panel[c].row \in [lot: Ids, values: Row]
    BY <1>1, <1>8 DEF TypeRow, Panels, Or
  <2>2. [panel[c] EXCEPT !.row.values = values] \in Panels
    BY <1>1, <2>1 DEF Panels, Or
  <2>3. QED
    BY <1>8, <2>2, TouchType DEF TypeRow
<1>9. ASSUME CancelRow(c) PROVE TypeOK'
  <2>1. [panel[c] EXCEPT !.row = None] \in Panels
    BY <1>1 DEF Panels, Or
  <2>2. QED
    BY <1>9, <2>1, TouchType DEF CancelRow
<1>10. ASSUME Leave(c) PROVE TypeOK'
  <2>1. Fresh(panel[c].place) \in Panels
    BY <1>1 DEF Fresh, Panels, Or
  <2>2. \A r \in Requests : [r EXCEPT !.waited = "left"] \in Requests
    BY DEF Requests
  <2>3. pending' \subseteq Requests
    BY <1>10, <2>2 DEF Leave, TypeOK
  <2>4. panel' \in [Clerks -> Panels]
    BY <1>10, <2>1 DEF Leave, TypeOK
  <2>5. QED
    BY <1>10, <2>3, <2>4, Constants DEF Leave, TypeOK, server, queries
<1>11. QED
  BY <1>2, <1>3, <1>4, <1>5, <1>6, <1>7, <1>8, <1>9, <1>10 DEF Edits

LEMMA SendType ==
    ASSUME TypeOK, NEW c, NEW kind, NEW r \in Requests, Send(c, kind, r), panel' \in [Clerks -> Panels]
    PROVE  TypeOK'
BY Constants DEF TypeOK, Send, server, queries

LEMMA RequestingType ==
    ASSUME TypeOK, NEW c \in Clerks, Requesting(c)
    PROVE  TypeOK'
<1>1. panel[c] \in Panels /\ made < LastRequest
  BY DEF TypeOK, Requesting, AskPlan, Confirm, SaveCount, SaveRow, CreateLot, DeleteLot, Send
<1>2. \A kind \in {"plan", "consume", "count", "create", "update", "delete"} : Blank(c, kind) \in Requests
  BY <1>1, BlankType
<1>3. ASSUME AskPlan(c) PROVE TypeOK'
  <2>1. [Blank(c, "plan") EXCEPT !.quantity = panel[c].quantity] \in Requests
    BY <1>1, <1>2, <1>3, Constants DEF AskPlan, Panels, Or, Requests
  <2>2. QED
    BY <1>3, <2>1, SendType DEF AskPlan, TypeOK
<1>4. ASSUME Confirm(c) PROVE TypeOK'
  <2> DEFINE q == IF panel[c].quantity = None THEN 0 ELSE panel[c].quantity
             intent == [place |-> panel[c].place, quantity |-> q]
  <2>1. intent \in Intents
    BY <1>1, Constants DEF Panels, Or, Intents
  <2> HIDE DEF intent
  <2>2. KeyFor(c, intent) \in Keys
    BY <1>1, Constants DEF KeyFor, Panels, Or, Keys, TypeOK
  <2>3. [Blank(c, "consume") EXCEPT !.quantity = q, !.key = KeyFor(c, intent)] \in Requests
    <3>1. q \in 0..Largest
      BY <1>1, Constants DEF Panels, Or
    <3> HIDE DEF q
    <3>2. QED
      BY <1>2, <2>2, <3>1 DEF Requests
  <2>4. [panel[c] EXCEPT !.attempt = [intent |-> intent, key |-> KeyFor(c, intent)]] \in Panels
    BY <1>1, <2>1, <2>2 DEF Panels, Or
  <2>5. panel' \in [Clerks -> Panels]
    BY <1>4, <2>4 DEF Confirm, TypeOK, intent
  <2>6. QED
    BY <1>4, <2>3, <2>5, SendType DEF Confirm, intent
<1>5. ASSUME SaveCount(c) PROVE TypeOK'
  <2>1. panel[c].count \in [lot: Ids, quantity: 0..Largest, at: Places]
    BY <1>1, <1>5 DEF SaveCount, Counting, Panels, Or
  <2>2. [Blank(c, "count") EXCEPT !.lot = panel[c].count.lot,
             !.quantity = panel[c].count.quantity, !.at = panel[c].count.at] \in Requests
    BY <1>2, <2>1 DEF Requests, Or
  <2>3. QED
    BY <1>5, <2>2, SendType DEF SaveCount, TypeOK
<1>6. ASSUME SaveRow(c) PROVE TypeOK'
  <2>1. panel[c].row \in [lot: Ids, values: Row]
    BY <1>1, <1>6 DEF SaveRow, Panels, Or
  <2>2. [Blank(c, "update") EXCEPT !.lot = panel[c].row.lot, !.values = panel[c].row.values] \in Requests
    BY <1>2, <2>1 DEF Requests, Or
  <2>3. QED
    BY <1>6, <2>2, SendType DEF SaveRow, TypeOK
<1>7. ASSUME NEW new \in NewLots, CreateLot(c, new) PROVE TypeOK'
  <2>1. [Blank(c, "create") EXCEPT !.values = new.values, !.place = new.place,
             !.quantity = new.quantity] \in Requests
    <3>1. new.values \in Or(Row) /\ new.place \in Places /\ new.quantity \in 0..Largest
      BY Constants DEF NewLots, Or
    <3>2. QED
      BY <1>2, <3>1 DEF Requests
  <2>2. QED
    BY <1>7, <2>1, SendType DEF CreateLot, TypeOK
<1>8. ASSUME NEW i \in Ids, DeleteLot(c, i) PROVE TypeOK'
  <2>1. [Blank(c, "delete") EXCEPT !.lot = i] \in Requests
    BY <1>2 DEF Requests, Or
  <2>2. QED
    BY <1>8, <2>1, SendType DEF DeleteLot, TypeOK
<1>9. QED
  BY <1>3, <1>4, <1>5, <1>6, <1>7, <1>8 DEF Requesting

LEMMA ReadingType ==
    ASSUME TypeOK, NEW c \in Clerks, Reading(c)
    PROVE  TypeOK'
<1>1. panel[c] \in Panels /\ panel[c].place \in Places
  BY DEF TypeOK, Panels
<1>2. CASE ReadLots(c)
  <2>1. [panel[c] EXCEPT !.row = IF @ = None THEN None ELSE IF lots[@.lot] = None THEN None ELSE @] \in Panels
    BY <1>1 DEF Panels, Or
  <2>2. panel' \in [Clerks -> Panels]
    BY <1>2, <2>1 DEF ReadLots, TypeOK
  <2>3. QED
    BY <1>2, <2>2 DEF ReadLots, TypeOK, server
<1>3. CASE ReadStock(c)
  <2>1. Positive(panel[c].place) \in Balances
    BY <1>1, PositiveType
  <2> DEFINE f == Positive(panel[c].place)
  <2> HIDE DEF f
  <2>2. seenStock' \in [Clerks -> [Places -> Or(Balances)]]
    BY <1>3, <2>1 DEF ReadStock, TypeOK, Or, f
  <2>3. QED
    BY <1>3, <2>2 DEF ReadStock, TypeOK, server
<1>4. QED
  BY <1>2, <1>3 DEF Reading

LEMMA AnsweredType ==
    ASSUME NEW r \in Requests, NEW p \in Panels, NEW ok \in BOOLEAN
    PROVE  Answered(r, p, ok) \in Panels
<1>1. Intent(r) \in Intents
  BY DEF Intent, Intents, Requests
<1>2. Answered(r, p, ok) \in {[p EXCEPT !.plan = Intent(r)], [p EXCEPT !.plan = None],
                              [p EXCEPT !.plan = Intent(r), !.attempt = None],
                              [p EXCEPT !.count = None], [p EXCEPT !.row = None], p}
  BY DEF Answered, Requests
<1>3. QED
  BY <1>1, <1>2 DEF Panels, Or

LEMMA AnswerType ==
    ASSUME TypeOK, NEW r \in pending, Answer(r) \/ Lose(r)
    PROVE  TypeOK'
<1>1. r \in Requests /\ r.clerk \in Clerks /\ panel[r.clerk] \in Panels
  BY DEF TypeOK, Requests
<1>2. \A ok \in BOOLEAN : Answered(r, panel[r.clerk], ok) \in Panels
  BY <1>1, AnsweredType
<1>3. panel' \in [Clerks -> Panels]
  BY <1>2 DEF Answer, Lose, TypeOK
<1>4. Invalidated(r) \subseteq Places \cup {"lots"}
  BY DEF Invalidated
<1>5. stale' \in [Clerks -> SUBSET (Places \cup {"lots"})]
  <2>1. stale' = stale \/ stale' = [stale EXCEPT ![r.clerk] = @ \cup Invalidated(r)]
    BY DEF Answer, Lose, queries
  <2>2. QED
    BY <1>4, <2>1, SMTT(30) DEF TypeOK
<1>6. pending' \subseteq Requests
  <2>1. [r EXCEPT !.waited = "lost"] \in Requests
    BY <1>1 DEF Requests
  <2>2. QED
    BY <2>1 DEF Answer, Lose, TypeOK
<1>7. UNCHANGED <<server, seenLots, seenStock, made, edits>>
  BY DEF Answer, Lose, queries
<1>8. QED
  BY <1>3, <1>5, <1>6, <1>7 DEF TypeOK, server

(* A handler's step of a request                                            *)
LEMMA BecomesType ==
    ASSUME TypeOK, NEW r \in pending, NEW after \in Requests, Becomes(r, after),
           /\ lots' \in [Ids -> Or(Row)]
           /\ born' \in FirstLots..LastLot
           /\ \A i \in Ids : i > born' => lots'[i] = None
           /\ stock' \in [Places -> [Ids -> Or(Int)]]
           /\ executed' \in [Keys -> Nat]
    PROVE  TypeOK'
BY DEF TypeOK, Becomes, queries

LEMMA ServerStays ==
    ASSUME TypeOK, UNCHANGED server
    PROVE  /\ lots' \in [Ids -> Or(Row)]
           /\ born' \in FirstLots..LastLot
           /\ \A i \in Ids : i > born' => lots'[i] = None
           /\ stock' \in [Places -> [Ids -> Or(Int)]]
           /\ executed' \in [Keys -> Nat]
BY DEF TypeOK, server

LEMMA HandlersType ==
    ASSUME TypeOK, NEW r \in pending, Named,
           MakePlan(r) \/ Consume(r) \/ ReadCount(r) \/ WriteCount(r) \/ Check(r) \/ WriteLot(r)
    PROVE  TypeOK'
<1>1. r \in Requests /\ r.place \in Places /\ r.key \in Keys
  BY DEF TypeOK, Requests
<1>2. \A step \in Steps : [r EXCEPT !.step = step] \in Requests
  BY <1>1 DEF Requests
<1>3. CASE MakePlan(r)
  <2>1. UNCHANGED server
    BY <1>3 DEF MakePlan
  <2>2. PICK step \in {"done", "refused"} : Becomes(r, [r EXCEPT !.step = step])
    BY <1>3 DEF MakePlan
  <2>3. QED
    BY <1>2, <2>1, <2>2, ServerStays, BecomesType DEF Steps
<1>4. CASE Consume(r)
  <2>1. PICK step \in {"done", "refused"} : Becomes(r, [r EXCEPT !.step = step])
    BY <1>4 DEF Consume
  <2> DEFINE taken == Taken(r.place, Takes(r.place, r.quantity))
  <2>2. taken \in [Ids -> Or(Int)]
    BY <1>1, TakenType
  <2>3. stock' = stock \/ stock' = [stock EXCEPT ![r.place] = taken]
    BY <1>4 DEF Consume
  <2> HIDE DEF taken
  <2>4. stock' \in [Places -> [Ids -> Or(Int)]]
    BY <2>2, <2>3 DEF TypeOK
  <2>5. executed' \in [Keys -> Nat] /\ UNCHANGED <<lots, born>>
    BY <1>4 DEF Consume, TypeOK
  <2>6. QED
    BY <1>2, <2>1, <2>4, <2>5, BecomesType DEF TypeOK, Steps
<1>5. CASE ReadCount(r)
  <2>1. Quantity(r.place, r.lot) \in Int
    BY <1>1, <1>5, QuantityType DEF ReadCount, Named
  <2>2. PICK after \in Requests : Becomes(r, after)
    <3>1. [r EXCEPT !.step = "checked", !.before = Quantity(r.place, r.lot)] \in Requests
      BY <1>1, <2>1 DEF Requests, Or, Steps
    <3>2. QED
      BY <1>2, <1>5, <3>1 DEF ReadCount, Steps
  <2>3. QED
    BY <1>5, <2>2, ServerStays, BecomesType DEF ReadCount
<1>6. CASE WriteCount(r)
  <2>1. PICK step \in {"done", "refused"} : Becomes(r, [r EXCEPT !.step = step])
    BY <1>6 DEF WriteCount
  <2>2. stock' \in [Places -> [Ids -> Or(Int)]]
    <3> DEFINE counted == Quantity(r.place, r.lot) + r.quantity - r.before
    <3>1. Quantity(r.place, r.lot) \in Int /\ r.quantity \in Int /\ r.before \in Int
      BY <1>1, <1>6, QuantityType, Constants DEF WriteCount, Requests, Named
    <3>2. counted \in Int
      BY <3>1
    <3>3. stock' = stock \/ stock' = [stock EXCEPT ![r.place][r.lot] = counted]
      BY <1>6 DEF WriteCount
    <3> HIDE DEF counted
    <3>4. stock[r.place] \in [Ids -> Or(Int)] /\ counted \in Or(Int)
      BY <1>1, <3>2 DEF TypeOK, Or
    <3>5. [stock[r.place] EXCEPT ![r.lot] = counted] \in [Ids -> Or(Int)]
      BY <3>4
    <3>6. QED
      BY <3>3, <3>5 DEF TypeOK
  <2>3. QED
    BY <1>2, <1>6, <2>1, <2>2, BecomesType DEF TypeOK, Steps, WriteCount
<1>7. CASE Check(r)
  <2>1. PICK step \in {"checked", "refused"} : Becomes(r, [r EXCEPT !.step = step])
    BY <1>7 DEF Check
  <2>2. UNCHANGED server
    BY <1>7 DEF Check
  <2>3. QED
    BY <1>2, <2>1, <2>2, ServerStays, BecomesType DEF Steps
<1>8. CASE WriteLot(r)
  <2>1. PICK step \in {"done", "refused"} : Becomes(r, [r EXCEPT !.step = step])
    BY <1>8 DEF WriteLot
  <2>2. CASE Refuses(r)
    BY <1>2, <1>8, <2>1, <2>2, ServerStays, BecomesType DEF WriteLot, Steps
  <2>3. CASE ~Refuses(r)
    <3>1. r.values \in Or(Row) /\ r.quantity \in Int /\ r.kind \in {"create", "update", "delete"}
      BY <1>1, <1>8, Constants DEF Requests, WriteLot, Changes
    <3>2. /\ born' \in FirstLots..LastLot /\ born <= born'
          /\ r.kind = "create" => born' = born + 1 /\ born' \in Ids
      <4>1. born \in FirstLots..LastLot
        BY DEF TypeOK
      <4>2. born' = IF r.kind = "create" THEN born + 1 ELSE born
        BY <1>8, <2>3 DEF WriteLot
      <4>3. r.kind = "create" => born # LastLot
        BY <2>3 DEF Refuses
      <4>4. QED
        BY <4>1, <4>2, <4>3, Constants DEF Ids
    <3>3. lots' \in [Ids -> Or(Row)]
      BY <1>8, <2>3, <3>1 DEF WriteLot, TypeOK
    <3>4. \A i \in Ids : i > born' => lots'[i] = None
      <4> SUFFICES ASSUME NEW i \in Ids, i > born' PROVE lots'[i] = None
        OBVIOUS
      <4>1. lots[i] = None /\ i # born'
        BY <3>2 DEF TypeOK, Ids
      <4>2. CASE r.kind = "create"
        BY <1>8, <2>3, <4>1, <4>2 DEF WriteLot, TypeOK
      <4>3. CASE r.kind # "create"
        <5>1. lots[r.lot] # None
          BY <2>3, <3>1, <4>3 DEF Refuses
        <5>2. QED
          BY <1>8, <2>3, <4>1, <4>3, <5>1 DEF WriteLot, TypeOK
      <4>4. QED
        BY <4>2, <4>3
    <3>5. stock' \in [Places -> [Ids -> Or(Int)]]
      BY <1>8, <2>3, <3>1 DEF WriteLot, TypeOK, Or
    <3>6. executed' \in [Keys -> Nat]
      BY <1>8, <2>3 DEF WriteLot, TypeOK
    <3>7. QED
      BY <1>2, <2>1, <3>2, <3>3, <3>4, <3>5, <3>6, BecomesType DEF Steps
  <2>4. QED
    BY <2>2, <2>3
<1>9. QED
  BY <1>3, <1>4, <1>5, <1>6, <1>7, <1>8

LEMMA ElsewhereType ==
    ASSUME TypeOK, NEW p \in Places, Sell(p) \/ \E i \in Ids : Receive(p, i)
    PROVE  TypeOK'
<1>1. UNCHANGED <<lots, born, executed, panel, queries, pending, made>> /\ edits' \in 0..LastEdit
  BY Constants DEF Sell, Receive, TypeOK
<1>2. stock' \in [Places -> [Ids -> Or(Int)]]
  <2>1. CASE Sell(p)
    <3> DEFINE taken == Taken(p, Takes(p, 1))
    <3>1. taken \in [Ids -> Or(Int)]
      BY TakenType
    <3>2. stock' = [stock EXCEPT ![p] = taken]
      BY <2>1 DEF Sell
    <3> HIDE DEF taken
    <3>3. QED
      BY <3>1, <3>2 DEF TypeOK
  <2>2. CASE \E i \in Ids : Receive(p, i)
    <3>1. PICK i \in Ids : Receive(p, i)
      BY <2>2
    <3>2. Quantity(p, i) + 1 \in Or(Int)
      BY QuantityType DEF Or
    <3>3. QED
      BY <3>1, <3>2 DEF Receive, TypeOK
  <2>3. QED
    BY <2>1, <2>2
<1>3. QED
  BY <1>1, <1>2 DEF TypeOK, queries

LEMMA NextType ==
    ASSUME TypeOK, Named, Next
    PROVE  TypeOK'
<1>1. ASSUME NEW c \in Clerks, Edits(c) PROVE TypeOK'
  BY <1>1, EditsType
<1>2. ASSUME NEW c \in Clerks, Requesting(c) PROVE TypeOK'
  BY <1>2, RequestingType
<1>3. ASSUME NEW c \in Clerks, Reading(c) PROVE TypeOK'
  BY <1>3, ReadingType
<1>4. ASSUME NEW r \in pending, Serve(r) PROVE TypeOK'
  BY <1>4, HandlersType, AnswerType DEF Serve
<1>5. ASSUME NEW r \in pending, Lose(r) PROVE TypeOK'
  BY <1>5, AnswerType
<1>6. ASSUME NEW p \in Places, Sell(p) \/ \E i \in Ids : Receive(p, i) PROVE TypeOK'
  BY <1>6, ElsewhereType
<1>7. QED
  BY <1>1, <1>2, <1>3, <1>4, <1>5, <1>6 DEF Next

-----------------------------------------------------------------------------
(* The requests *)

(* What is true of a request stays true when only who waits for it changes. *)
SameRequest(r, s) ==
    /\ r.n = s.n /\ r.kind = s.kind /\ r.lot = s.lot /\ r.place = s.place /\ r.quantity = s.quantity
    /\ r.values = s.values /\ r.before = s.before /\ r.step = s.step /\ r.key = s.key

Sent(r) ==
    /\ made' = made + 1
    /\ pending' = pending \cup {r} /\ r.n = made + 1 /\ r.step = "sent"
    /\ r.kind \in {"create", "update"} => r.values # None
    /\ r.kind = "create" => r.lot = None
    /\ r.kind = "delete" => r.values = None
    /\ r.kind \in {"update", "delete", "count"} => r.lot \in Ids

(* The requests after a step: those there were, one that was sent, or one   *)
(* that a handler has moved on.                                             *)
Requested ==
    \/ /\ made' = made
       /\ \A s \in pending' : \E r \in pending : SameRequest(r, s)
       /\ \A s, t \in pending' : s.n = t.n => s = t
    \/ \E r \in Requests : Sent(r)
    \/ /\ made' = made
       /\ \E r \in pending, step \in Steps, before \in Or(Int) :
             /\ pending' = (pending \ {r}) \cup {[r EXCEPT !.step = step, !.before = before]}
             /\ r.kind = "count" /\ step = "checked" => before \in Int

LEMMA RequestedStays ==
    ASSUME TypeOK, Numbered, Named, Requested
    PROVE  Numbered' /\ Named'
<1>1. made \in Nat /\ pending \subseteq Requests /\ \A r \in pending : r.n \in Nat
  BY Constants DEF TypeOK, Requests, Keys
<1>2. CASE /\ made' = made
           /\ \A s \in pending' : \E r \in pending : SameRequest(r, s)
           /\ \A s, t \in pending' : s.n = t.n => s = t
  <2>1. Numbered'
    BY <1>1, <1>2 DEF Numbered, SameRequest
  <2>2. Named'
    BY <1>2 DEF Named, SameRequest
  <2>3. QED
    BY <2>1, <2>2
<1>3. ASSUME NEW r \in Requests, Sent(r)
      PROVE  Numbered' /\ Named'
  <2>1. Numbered'
    BY <1>1, <1>3 DEF Numbered, Sent
  <2>2. Named'
    BY <1>3 DEF Named, Sent
  <2>3. QED
    BY <2>1, <2>2
<1>4. ASSUME made' = made, NEW r \in pending, NEW step \in Steps, NEW before \in Or(Int),
             pending' = (pending \ {r}) \cup {[r EXCEPT !.step = step, !.before = before]},
             r.kind = "count" /\ step = "checked" => before \in Int
      PROVE  Numbered' /\ Named'
  <2> DEFINE after == [r EXCEPT !.step = step, !.before = before]
  <2>1. /\ after.n = r.n /\ after.kind = r.kind /\ after.lot = r.lot /\ after.values = r.values
        /\ after.step = step /\ after.before = before
    BY <1>1 DEF Requests
  <2> HIDE DEF after
  <2>2. pending' = (pending \ {r}) \cup {after}
    BY <1>4 DEF after
  <2>3. Numbered'
    BY <1>4, <2>1, <2>2 DEF Numbered
  <2>4. Named'
    BY <1>4, <2>1, <2>2 DEF Named
  <2>5. QED
    BY <2>3, <2>4
<1>5. QED
  BY <1>2, <1>3, <1>4 DEF Requested

LEMMA RequestingSends ==
    ASSUME TypeOK, NEW c \in Clerks, Requesting(c)
    PROVE  \E r \in Requests : Sent(r)
<1>1. TypeOK'
  BY RequestingType
<1>2. panel[c] \in Panels
  BY DEF TypeOK
<1>3. PICK r : Sent(r)
  <2>1. CASE AskPlan(c)
    <3>1. Sent([Blank(c, "plan") EXCEPT !.quantity = panel[c].quantity])
      BY <2>1 DEF AskPlan, Send, Sent, Blank
    <3>2. QED
      BY <3>1
  <2>2. CASE Confirm(c)
    <3>1. PICK q, key : /\ made' = made + 1
                        /\ pending' = pending \cup {[Blank(c, "consume") EXCEPT !.quantity = q, !.key = key]}
      BY <2>2, Zenon DEF Confirm, Send
    <3>2. Sent([Blank(c, "consume") EXCEPT !.quantity = q, !.key = key])
      BY <3>1 DEF Sent, Blank
    <3>3. QED
      BY <3>2
  <2>3. CASE SaveCount(c)
    <3>1. panel[c].count.lot \in Ids
      BY <1>2, <2>3 DEF SaveCount, Counting, Panels, Or
    <3>2. Sent([Blank(c, "count") EXCEPT !.lot = panel[c].count.lot,
                    !.quantity = panel[c].count.quantity, !.at = panel[c].count.at])
      BY <2>3, <3>1 DEF SaveCount, Send, Sent, Blank
    <3>3. QED
      BY <3>2
  <2>4. CASE SaveRow(c)
    <3>1. panel[c].row.lot \in Ids /\ panel[c].row.values \in Row
      BY <1>2, <2>4 DEF SaveRow, Panels, Or
    <3>2. Sent([Blank(c, "update") EXCEPT !.lot = panel[c].row.lot, !.values = panel[c].row.values])
      BY <2>4, <3>1, Constants DEF SaveRow, Send, Sent, Blank
    <3>3. QED
      BY <3>2
  <2>5. ASSUME NEW new \in NewLots, CreateLot(c, new) PROVE \E r : Sent(r)
    <3>1. new.values # None
      BY Constants DEF NewLots
    <3>2. Sent([Blank(c, "create") EXCEPT !.values = new.values, !.place = new.place,
                    !.quantity = new.quantity])
      BY <2>5, <3>1 DEF CreateLot, Send, Sent, Blank
    <3>3. QED
      BY <3>2
  <2>6. ASSUME NEW i \in Ids, DeleteLot(c, i) PROVE \E r : Sent(r)
    <3>1. Sent([Blank(c, "delete") EXCEPT !.lot = i])
      BY <2>6 DEF DeleteLot, Send, Sent, Blank
    <3>2. QED
      BY <3>1
  <2>7. QED
    BY <2>1, <2>2, <2>3, <2>4, <2>5, <2>6 DEF Requesting
<1>4. r \in Requests
  BY <1>1, <1>3 DEF TypeOK, Sent
<1>5. QED
  BY <1>3, <1>4

LEMMA NextRequested ==
    ASSUME TypeOK, Numbered, Named, Next
    PROVE  Requested
<1>1. pending \subseteq Requests
  BY DEF TypeOK
<1>2. ASSUME UNCHANGED <<pending, made>> PROVE Requested
  BY <1>2 DEF Requested, SameRequest, Numbered
<1>3. ASSUME NEW c \in Clerks, Edits(c) PROVE Requested
  <2>1. CASE Leave(c)
    <3> DEFINE Left(r) == IF r.clerk = c /\ r.waited = "here" /\ r.kind \in {"plan", "consume", "count"}
                          THEN [r EXCEPT !.waited = "left"] ELSE r
    <3>1. made' = made /\ pending' = {Left(r) : r \in pending}
      BY <2>1 DEF Leave
    <3>2. \A r \in pending : SameRequest(r, Left(r)) /\ Left(r).n = r.n
      BY <1>1 DEF SameRequest, Requests
    <3> HIDE DEF Left
    <3>3. \A s, t \in pending' : s.n = t.n => s = t
      BY <3>1, <3>2 DEF Numbered
    <3>4. \A s \in pending' : \E r \in pending : SameRequest(r, s)
      BY <3>1, <3>2
    <3>5. QED
      BY <3>1, <3>3, <3>4 DEF Requested
  <2>2. CASE ~Leave(c)
    <3>1. UNCHANGED <<pending, made>>
      BY <1>3, <2>2 DEF Edits, ChangePlace, TypeQuantity, StartCount, EditRow, TypeCount, CancelCount, TypeRow,
                        CancelRow, Touch
    <3>2. QED
      BY <1>2, <3>1
  <2>3. QED
    BY <2>1, <2>2
<1>4. ASSUME NEW c \in Clerks, Requesting(c) PROVE Requested
  BY <1>4, RequestingSends DEF Requested
<1>5. ASSUME NEW c \in Clerks, Reading(c) PROVE Requested
  BY <1>2, <1>5 DEF Reading, ReadLots, ReadStock
<1>6. ASSUME NEW r \in pending, Answer(r) \/ Lose(r) PROVE Requested
  <2> DEFINE lost == [r EXCEPT !.waited = "lost"]
  <2>1. SameRequest(r, lost)
    BY <1>1 DEF SameRequest, Requests
  <2>2. made' = made /\ (pending' = pending \ {r} \/ pending' = (pending \ {r}) \cup {lost})
    BY <1>6 DEF Answer, Lose
  <2> HIDE DEF lost
  <2>3. \A s \in pending' : \E t \in pending : SameRequest(t, s)
    BY <2>1, <2>2 DEF SameRequest
  <2>4. \A s, t \in pending' : s.n = t.n => s = t
    BY <2>1, <2>2 DEF SameRequest, Numbered
  <2>5. QED
    BY <2>2, <2>3, <2>4 DEF Requested
<1>7. ASSUME NEW r \in pending,
             MakePlan(r) \/ Consume(r) \/ ReadCount(r) \/ WriteCount(r) \/ Check(r) \/ WriteLot(r)
      PROVE  Requested
  <2>1. PICK step \in Steps, before \in Or(Int) :
            /\ Becomes(r, [r EXCEPT !.step = step, !.before = before])
            /\ r.kind = "count" /\ step = "checked" => before \in Int
    <3>1. r \in Requests /\ r.before \in Or(Int) /\ r.place \in Places
      BY <1>1 DEF Requests
    <3>2. \A step \in Steps : [r EXCEPT !.step = step] = [r EXCEPT !.step = step, !.before = r.before]
      BY <3>1 DEF Requests
    <3>3. CASE ReadCount(r)
      <4>1. Quantity(r.place, r.lot) \in Int
        BY <3>1, <3>3, QuantityType DEF ReadCount, Named
      <4>2. \/ Becomes(r, [r EXCEPT !.step = "refused"]) \/ Becomes(r, [r EXCEPT !.step = "done"])
            \/ Becomes(r, [r EXCEPT !.step = "checked", !.before = Quantity(r.place, r.lot)])
        BY <3>3 DEF ReadCount
      <4>3. QED
        BY <3>1, <3>2, <4>1, <4>2 DEF Steps, Or
    <3>4. CASE Check(r)
      <4>1. r.kind # "count"
        BY <3>4 DEF Check, Changes
      <4>2. PICK step \in {"refused", "checked"} : Becomes(r, [r EXCEPT !.step = step])
        BY <3>4 DEF Check
      <4>3. QED
        BY <3>1, <3>2, <4>1, <4>2 DEF Steps
    <3>5. CASE MakePlan(r) \/ Consume(r) \/ WriteCount(r) \/ WriteLot(r)
      <4>1. PICK step \in {"refused", "done"} : Becomes(r, [r EXCEPT !.step = step])
        BY <3>5 DEF MakePlan, Consume, WriteCount, WriteLot
      <4>2. QED
        BY <3>1, <3>2, <4>1 DEF Steps
    <3>6. QED
      BY <1>7, <3>3, <3>4, <3>5
  <2>2. QED
    BY <2>1 DEF Becomes, Requested
<1>8. ASSUME NEW p \in Places, Sell(p) \/ \E i \in Ids : Receive(p, i) PROVE Requested
  BY <1>2, <1>8 DEF Sell, Receive
<1>9. QED
  BY <1>3, <1>4, <1>5, <1>6, <1>7, <1>8 DEF Next, Serve

-----------------------------------------------------------------------------
(* The lots and the stock *)

LEMMA InitServer == Init => ServerInv
<1> SUFFICES ASSUME Init PROVE ServerInv
  OBVIOUS
<1> DEFINE number == CHOOSE f \in [1..FirstLots -> Numbers] :
                         \A i, j \in 1..FirstLots : f[i] = f[j] => i = j
<1>1. \A i, j \in 1..FirstLots : number[i] = number[j] => i = j
  BY LotsAssumption
<1>2. PICK expires \in [1..FirstLots -> Or(Dates)] :
          lots = [i \in Ids |-> IF i > FirstLots THEN None
                                ELSE [number |-> number[i], expires |-> expires[i]]]
  BY DEF Init
<1>3. number \in [1..FirstLots -> Numbers]
  BY LotsAssumption
<1> HIDE DEF number
<1>4. \A i \in Ids : i \in Nat /\ i >= 1
  BY DEF Ids
<1>5. \A i \in Ids : i <= FirstLots =>
          i \in 1..FirstLots /\ lots[i] \in Row /\ lots[i].number = number[i] /\ lots[i] # None
  BY <1>2, <1>3, <1>4, Constants DEF Row, Or
<1>6. \A i \in Ids : lots[i] # None => i <= FirstLots
  BY <1>2, <1>4, Constants
<1>7. NumbersAreUnique
  BY <1>1, <1>5, <1>6 DEF NumbersAreUnique
<1>8. UsedLotsStay
  <2>1. \A p \in Places : \A i \in Ids : i > FirstLots => stock[p][i] = None
    BY DEF Init
  <2>2. QED
    BY <1>4, <1>5, <2>1, Constants DEF UsedLotsStay
<1>9. ConsumedOnce
  BY DEF Init, ConsumedOnce
<1>10. QED
  BY <1>7, <1>8, <1>9 DEF ServerInv

LEMMA ServerStaysInv ==
    ASSUME ServerInv, UNCHANGED server
    PROVE  ServerInv'
BY DEF ServerInv, UsedLotsStay, NumbersAreUnique, ConsumedOnce, server

LEMMA WriteLotInv ==
    ASSUME TypeOK, Named, ServerInv, NEW r \in pending, WriteLot(r)
    PROVE  ServerInv'
<1>1. r.kind \in {"create", "update", "delete"} /\ r \in Requests
  BY DEF WriteLot, Changes, TypeOK
<1>2. CASE Refuses(r)
  BY <1>2, ServerStaysInv DEF WriteLot
<1>3. CASE ~Refuses(r)
  <2>1. executed' = executed
    BY <1>3 DEF WriteLot
  <2>2. CASE r.kind = "create"
    <3>1. /\ born' = born + 1 /\ lots' = [lots EXCEPT ![born + 1] = r.values]
          /\ stock' = stock \/ stock' = [stock EXCEPT ![r.place][born + 1] = r.quantity]
      BY <1>3, <2>2 DEF WriteLot
    <3>2. r.values # None /\ r.lot = None /\ born # LastLot
      BY <1>3, <2>2 DEF Named, Refuses
    <3>3. born + 1 \in Ids
      BY <3>2, Constants DEF TypeOK, Ids
    <3>4. \A i \in Ids : lots[i] # None => lots[i].number # r.values.number
      BY <1>3, <2>2, <3>2, Constants DEF Refuses, NumberTaken
    <3>5. \A i \in Ids : lots'[i] = IF i = born + 1 THEN r.values ELSE lots[i]
      BY <3>1 DEF TypeOK
    <3>6. NumbersAreUnique'
      BY <3>4, <3>5 DEF NumbersAreUnique, ServerInv
    <3>7. \A p \in Places : \A i \in Ids : i # born + 1 => stock'[p][i] = stock[p][i]
      <4> SUFFICES ASSUME stock' = [stock EXCEPT ![r.place][born + 1] = r.quantity],
                          NEW p \in Places, NEW i \in Ids, i # born + 1
                   PROVE  stock'[p][i] = stock[p][i]
        BY <3>1
      <4>1. stock'[p] = IF p = r.place THEN [stock[p] EXCEPT ![born + 1] = r.quantity] ELSE stock[p]
        BY DEF TypeOK
      <4>2. stock[p] \in [Ids -> Or(Int)]
        BY DEF TypeOK
      <4> DEFINE n == born + 1
      <4>3. i # n /\ stock'[p] = IF p = r.place THEN [stock[p] EXCEPT ![n] = r.quantity] ELSE stock[p]
        BY <4>1
      <4> HIDE DEF n
      <4>4. QED
        BY <4>2, <4>3
    <3>8. UsedLotsStay'
      BY <3>2, <3>5, <3>7 DEF UsedLotsStay, ServerInv
    <3>9. QED
      BY <2>1, <3>6, <3>8 DEF ServerInv, ConsumedOnce
  <2>3. CASE r.kind # "create"
    <3>1. lots' = [lots EXCEPT ![r.lot] = r.values] /\ stock' = stock
      BY <1>3, <2>3 DEF WriteLot
    <3>2. r.lot \in Ids
      BY <1>1, <2>3 DEF Named
    <3>3. \A i \in Ids : lots'[i] = IF i = r.lot THEN r.values ELSE lots[i]
      BY <3>1 DEF TypeOK
    <3>4. CASE r.kind = "update"
      <4>1. r.values # None /\ \A i \in Ids : i # r.lot /\ lots[i] # None => lots[i].number # r.values.number
        BY <1>3, <3>4 DEF Named, Refuses, NumberTaken
      <4>2. NumbersAreUnique' /\ UsedLotsStay'
        BY <3>1, <3>3, <4>1 DEF NumbersAreUnique, UsedLotsStay, ServerInv
      <4>3. QED
        BY <2>1, <4>2 DEF ServerInv, ConsumedOnce
    <3>5. CASE r.kind = "delete"
      <4>1. \A p \in Places : stock[p][r.lot] = None
        BY <1>3, <3>5 DEF Refuses, Referred
      <4>2. UsedLotsStay'
        BY <3>1, <3>3, <4>1 DEF UsedLotsStay, ServerInv
      <4>3. r.values = None
        BY <3>5 DEF Named
      <4>4. NumbersAreUnique'
        BY <3>3, <4>3 DEF NumbersAreUnique, ServerInv
      <4>5. QED
        BY <2>1, <4>2, <4>4 DEF ServerInv, ConsumedOnce
    <3>6. QED
      BY <1>1, <2>3, <3>4, <3>5
  <2>4. QED
    BY <2>2, <2>3
<1>4. QED
  BY <1>2, <1>3

LEMMA StockInv ==
    ASSUME TypeOK, Named, ServerInv,
           \/ \E r \in pending : Consume(r) \/ WriteCount(r)
           \/ \E p \in Places : Sell(p) \/ \E i \in Ids : Receive(p, i)
    PROVE  ServerInv'
<1>1. lots' = lots
  BY DEF Consume, WriteCount, Sell, Receive
<1>2. executed \in [Keys -> Nat] /\ stock \in [Places -> [Ids -> Or(Int)]]
  BY DEF TypeOK
<1>3. /\ \A p \in Places : \A i \in Ids : lots[i] = None => stock'[p][i] = stock[p][i]
      /\ ConsumedOnce'
  <2>1. ASSUME NEW p \in Places, NEW q, stock' = [stock EXCEPT ![p] = Taken(p, Takes(p, q))]
        PROVE  \A s \in Places : \A i \in Ids : lots[i] = None => stock'[s][i] = stock[s][i]
    <3> DEFINE taken == Taken(p, Takes(p, q))
    <3>1. \A i \in Ids : lots[i] = None => taken[i] = stock[p][i]
      BY TakenType
    <3>2. stock' = [stock EXCEPT ![p] = taken]
      BY <2>1
    <3> HIDE DEF taken
    <3>3. QED
      BY <1>2, <3>1, <3>2
  <2>2. ASSUME NEW r \in pending, Consume(r) PROVE <1>3
    <3>1. r.place \in Places /\ r.key \in Keys
      BY DEF TypeOK, Requests
    <3>2. CASE UNCHANGED <<stock, executed>>
      BY <3>2 DEF ConsumedOnce, ServerInv
    <3>3. CASE /\ stock' = [stock EXCEPT ![r.place] = Taken(r.place, Takes(r.place, r.quantity))]
               /\ executed' = [executed EXCEPT ![r.key] = @ + 1]
               /\ ~Claimed(r.key)
      <4>1. ConsumedOnce'
        BY <1>2, <3>1, <3>3 DEF Claimed, ConsumedOnce, ServerInv
      <4>2. QED
        BY <2>1, <3>1, <3>3, <4>1
    <3>4. QED
      BY <2>2, <3>2, <3>3 DEF Consume
  <2>3. ASSUME NEW r \in pending, WriteCount(r) PROVE <1>3
    <3>1. executed' = executed
      BY <2>3 DEF WriteCount
    <3> DEFINE counted == Quantity(r.place, r.lot) + r.quantity - r.before
    <3>2. \/ stock' = stock
          \/ lots[r.lot] # None /\ stock' = [stock EXCEPT ![r.place][r.lot] = counted]
      BY <2>3 DEF WriteCount
    <3> HIDE DEF counted
    <3>3. \A p \in Places : \A i \in Ids : lots[i] = None => stock'[p][i] = stock[p][i]
      BY <1>2, <3>2
    <3>4. QED
      BY <3>1, <3>3 DEF ConsumedOnce, ServerInv
  <2>4. ASSUME NEW p \in Places, Sell(p) PROVE <1>3
    <3>1. executed' = executed /\ stock' = [stock EXCEPT ![p] = Taken(p, Takes(p, 1))]
      BY <2>4 DEF Sell
    <3>2. QED
      BY <2>1, <3>1 DEF ConsumedOnce, ServerInv
  <2>5. ASSUME NEW p \in Places, NEW i \in Ids, Receive(p, i) PROVE <1>3
    BY <1>2, <2>5 DEF Receive, ConsumedOnce, ServerInv
  <2>6. QED
    BY <2>2, <2>3, <2>4, <2>5
<1>4. QED
  BY <1>1, <1>3 DEF ServerInv, UsedLotsStay, NumbersAreUnique

LEMMA NextServer ==
    ASSUME TypeOK, Named, ServerInv, Next
    PROVE  ServerInv'
<1>1. ASSUME NEW c \in Clerks, Edits(c) \/ Requesting(c) \/ Reading(c) PROVE UNCHANGED server
  BY <1>1 DEF Edits, ChangePlace, TypeQuantity, StartCount, EditRow, TypeCount, CancelCount, TypeRow, CancelRow,
              Touch, Leave, Requesting, AskPlan, Confirm, SaveCount, SaveRow, CreateLot, DeleteLot, Send,
              Reading, ReadLots, ReadStock
<1>2. ASSUME NEW r \in pending, MakePlan(r) \/ ReadCount(r) \/ Check(r) \/ Answer(r) \/ Lose(r)
      PROVE  UNCHANGED server
  BY <1>2 DEF MakePlan, ReadCount, Check, Answer, Lose
<1>3. QED
  BY <1>1, <1>2, ServerStaysInv, StockInv, WriteLotInv DEF Next, Serve

LEMMA LotsInvariant == Spec => []LotsInv
<1>1. Init => LotsInv
  BY InitType, InitServer DEF LotsInv, Init, Numbered, Named
<1>2. LotsInv /\ [Next]_vars => LotsInv'
  <2> SUFFICES ASSUME LotsInv, [Next]_vars PROVE LotsInv'
    OBVIOUS
  <2>1. CASE Next
    BY <2>1, NextType, NextRequested, RequestedStays, NextServer DEF LotsInv
  <2>2. CASE UNCHANGED vars
    BY <2>2 DEF LotsInv, vars, server, queries, TypeOK, Numbered, Named, ServerInv, UsedLotsStay, NumbersAreUnique,
                ConsumedOnce
  <2>3. QED
    BY <2>1, <2>2
<1>3. QED
  BY <1>1, <1>2, PTL DEF Spec

(* The lots, the balances, the pages and the requests keep their types      *)
(* (TypeOK).                                                                *)
THEOREM LotsHaveTypes == Spec => []TypeOK
<1>1. LotsInv => TypeOK
  BY DEF LotsInv
<1>2. QED
  BY <1>1, LotsInvariant, PTL

(* A lot with stock, or that has had some, is never deleted (delete_lot and *)
(* the foreign key of stock_balance).                                       *)
THEOREM UsedLotsAreKept == Spec => []UsedLotsStay
<1>1. LotsInv => UsedLotsStay
  BY DEF LotsInv, ServerInv
<1>2. QED
  BY <1>1, LotsInvariant, PTL

(* No two lots have the same number (the unique constraint of lots).        *)
THEOREM NumbersStayUnique == Spec => []NumbersAreUnique
<1>1. LotsInv => NumbersAreUnique
  BY DEF LotsInv, ServerInv
<1>2. QED
  BY <1>1, LotsInvariant, PTL

(* A consumption that is sent again takes the stock out once                *)
(* (execute_manual_fefo_consumption).                                       *)
THEOREM ConsumptionsAreExecutedOnce == Spec => []ConsumedOnce
<1>1. LotsInv => ConsumedOnce
  BY DEF LotsInv, ServerInv
<1>2. QED
  BY <1>1, LotsInvariant, PTL

-----------------------------------------------------------------------------
(* Counts *)

(* A count that is under way has read what is there, and nobody else counts *)
(* the same lot at the same location.                                       *)
Checked(r) == r.kind = "count" /\ r.step = "checked"

CountInv ==
    /\ \A r \in pending : Checked(r) => r.lot <= born /\ r.before = Quantity(r.place, r.lot)
    /\ \A r, s \in pending : Checked(r) /\ Checked(s) /\ r.place = s.place /\ r.lot = s.lot => r = s

(* A step that moves no count on                                            *)
OtherStep ==
    \A s \in pending' :
        \/ s.step = "sent"
        \/ \E r \in pending : r.n = s.n /\ r.kind = s.kind /\ (s.kind = "count" => SameRequest(r, s))

Counted ==
    \A r \in pending : \A after \in pending' :
        r.kind = "count" /\ r.n = after.n /\ r.step # "done" /\ after.step = "done" =>
            Quantity(r.place, r.lot)' = r.quantity

LEMMA OtherStepCounts ==
    ASSUME TypeOK, TypeOK', Numbered, Numbered', Named, CountInv, OtherStep, born' >= born,
           \A s \in pending : Checked(s) => Quantity(s.place, s.lot)' = Quantity(s.place, s.lot)
    PROVE  CountInv' /\ Counted
<1>1. \A s \in pending' : Checked(s) => \E r \in pending : SameRequest(r, s) /\ Checked(r)
  BY DEF OtherStep, SameRequest, Checked
<1>2. \A s \in pending' : Checked(s) => s.lot <= born' /\ s.before = Quantity(s.place, s.lot)'
  <2> SUFFICES ASSUME NEW s \in pending', Checked(s)
               PROVE  s.lot <= born' /\ s.before = Quantity(s.place, s.lot)'
    OBVIOUS
  <2>1. PICK r \in pending : SameRequest(r, s) /\ Checked(r)
    BY <1>1
  <2>2. r.lot <= born /\ r.before = Quantity(r.place, r.lot) /\ Quantity(r.place, r.lot)' = Quantity(r.place, r.lot)
    BY <2>1 DEF CountInv
  <2>3. r.lot \in Int /\ born \in Int /\ born' \in Int
    BY <2>1, Constants DEF TypeOK, Named, Checked, Ids
  <2>4. s.lot = r.lot /\ s.place = r.place /\ s.before = r.before
    BY <2>1 DEF SameRequest
  <2>5. r.lot <= born'
    BY <2>2, <2>3
  <2>6. QED
    BY <2>2, <2>4, <2>5
<1>3. \A s, t \in pending' : Checked(s) /\ Checked(t) /\ s.place = t.place /\ s.lot = t.lot => s = t
  <2> SUFFICES ASSUME NEW s \in pending', NEW t \in pending',
                      Checked(s), Checked(t), s.place = t.place, s.lot = t.lot
               PROVE  s.n = t.n
    BY DEF Numbered
  <2>1. PICK r \in pending : SameRequest(r, s) /\ Checked(r)
    BY <1>1
  <2>2. PICK q \in pending : SameRequest(q, t) /\ Checked(q)
    BY <1>1
  <2>3. r = q
    BY <2>1, <2>2 DEF CountInv, SameRequest
  <2>4. QED
    BY <2>1, <2>2, <2>3 DEF SameRequest
<1>4. Counted
  BY DEF Counted, OtherStep, SameRequest, Numbered
<1>5. QED
  BY <1>2, <1>3, <1>4 DEF CountInv

(* The row of a count that is under way cannot be taken from.               *)
LEMMA TakenSparesCounts ==
    ASSUME TypeOK, Named, NEW p \in Places, NEW q, \A i \in Ids : ~Held(p, i),
           stock' = [stock EXCEPT ![p] = Taken(p, Takes(p, q))],
           NEW s \in pending, Checked(s)
    PROVE  Quantity(s.place, s.lot)' = Quantity(s.place, s.lot)
<1>1. s.place \in Places /\ s.lot \in Ids
  BY DEF TypeOK, Requests, Named, Checked
<1> DEFINE taken == Taken(p, Takes(p, q))
<1>2. stock[p][s.lot] = None => taken[s.lot] = None
  BY <1>1, TakenType
<1>3. stock' = [stock EXCEPT ![p] = taken]
  OBVIOUS
<1> HIDE DEF taken
<1>4. s.place = p => stock[p][s.lot] = None
  BY <1>1 DEF Held, Checked
<1>5. stock'[s.place][s.lot] = stock[s.place][s.lot]
  BY <1>1, <1>2, <1>3, <1>4 DEF TypeOK
<1>6. QED
  BY <1>5 DEF Quantity

(* A handler that moves something else on                                   *)
LEMMA BecomesOther ==
    ASSUME TypeOK, NEW r \in pending, r.kind # "count", NEW step \in Steps,
           Becomes(r, [r EXCEPT !.step = step])
    PROVE  OtherStep
<1> DEFINE after == [r EXCEPT !.step = step]
<1>1. after.n = r.n /\ after.kind = r.kind
  BY DEF TypeOK, Requests
<1> HIDE DEF after
<1>2. pending' = (pending \ {r}) \cup {after}
  BY DEF Becomes, after
<1>3. QED
  BY <1>1, <1>2 DEF OtherStep, SameRequest

LEMMA CountsStay ==
    ASSUME TypeOK, Numbered, Named, CountInv, UNCHANGED <<pending, server>>
    PROVE  CountInv' /\ Counted
BY DEF CountInv, Counted, Numbered, server, Checked, Quantity

LEMMA ReadCountInv ==
    ASSUME TypeOK, TypeOK', Numbered, Numbered', Named, CountInv, NEW r \in pending, ReadCount(r)
    PROVE  CountInv' /\ Counted
<1>1. r \in Requests /\ r.kind = "count" /\ r.place \in Places /\ r.lot \in Ids /\ r.n \in Nat
  <2>1. r \in Requests
    BY DEF TypeOK
  <2>2. r.place \in Places /\ r.n \in Nat
    BY <2>1 DEF Requests, Keys
  <2>3. r.kind = "count"
    BY DEF ReadCount
  <2>4. r.lot \in Ids
    BY <2>3 DEF Named
  <2>5. QED
    BY <2>1, <2>2, <2>3, <2>4
<1>2. UNCHANGED server /\ born \in Nat
  <2>1. UNCHANGED server
    BY DEF ReadCount
  <2>2. QED
    BY <2>1, Constants DEF TypeOK
<1>3. PICK after : /\ Becomes(r, after) /\ after.n = r.n /\ after.kind = r.kind
                   /\ after.place = r.place /\ after.lot = r.lot
                   /\ \/ after.step = "refused"
                      \/ after.step = "done" /\ Quantity(r.place, r.lot) = r.quantity
                      \/ /\ after.step = "checked" /\ after.before = Quantity(r.place, r.lot)
                         /\ lots[r.lot] # None
  <2>1. CASE lots[r.lot] = None
    <3>1. Becomes(r, [r EXCEPT !.step = "refused"])
      BY <2>1 DEF ReadCount
    <3>2. QED
      BY <1>1, <3>1 DEF Requests
  <2>2. CASE lots[r.lot] # None /\ Quantity(r.place, r.lot) = r.quantity
    <3>1. Becomes(r, [r EXCEPT !.step = "done"])
      BY <2>2 DEF ReadCount
    <3>2. QED
      BY <1>1, <2>2, <3>1 DEF Requests
  <2>3. CASE lots[r.lot] # None /\ Quantity(r.place, r.lot) # r.quantity
    <3> DEFINE after == [r EXCEPT !.step = "checked", !.before = Quantity(r.place, r.lot)]
    <3>1. Becomes(r, after)
      BY <2>3 DEF ReadCount
    <3>2. /\ after.n = r.n /\ after.kind = r.kind /\ after.place = r.place /\ after.lot = r.lot
          /\ after.step = "checked" /\ after.before = Quantity(r.place, r.lot)
      BY <1>1 DEF Requests
    <3>3. QED
      BY <2>3, <3>1, <3>2
  <2>4. QED
    BY <2>1, <2>2, <2>3
<1>4. pending' = (pending \ {r}) \cup {after}
  BY <1>3 DEF Becomes
<1>5. \A p, i : Quantity(p, i)' = Quantity(p, i)
  BY <1>2 DEF server, Quantity
<1>6. lots[r.lot] # None => r.lot <= born
  BY <1>1, <1>2 DEF TypeOK, Ids
<1>7. \A s \in pending \ {r} : Checked(s) => s.place # r.place \/ s.lot # r.lot
  BY DEF ReadCount, CountFree, Checked
<1>8. born' = born
  BY <1>2 DEF server
<1>9. CountInv'
  BY <1>3, <1>4, <1>5, <1>6, <1>7, <1>8 DEF CountInv, Checked
<1>10. Counted
  BY <1>3, <1>4, <1>5 DEF Counted, Numbered
<1>11. QED
  BY <1>9, <1>10

LEMMA WriteCountInv ==
    ASSUME TypeOK, TypeOK', Numbered, Numbered', Named, CountInv, NEW r \in pending, WriteCount(r)
    PROVE  CountInv' /\ Counted
<1>1. /\ r \in Requests /\ r.place \in Places /\ r.lot \in Ids /\ Checked(r)
      /\ r.quantity \in Int /\ r.before = Quantity(r.place, r.lot) /\ Quantity(r.place, r.lot) \in Int
  BY QuantityType, Constants DEF WriteCount, TypeOK, Requests, Named, CountInv, Checked
<1>2. PICK step \in {"done", "refused"} :
          /\ Becomes(r, [r EXCEPT !.step = step])
          /\ IF step = "refused" THEN UNCHANGED stock
             ELSE stock' = [stock EXCEPT ![r.place][r.lot] = Quantity(r.place, r.lot) + r.quantity - r.before]
  <2>1. CASE lots[r.lot] = None
    BY <2>1 DEF WriteCount
  <2>2. CASE lots[r.lot] # None
    BY <2>2 DEF WriteCount
  <2>3. QED
    BY <2>1, <2>2
<1> DEFINE after == [r EXCEPT !.step = step]
<1>3. after.n = r.n /\ after.step = step
  BY <1>1 DEF Requests
<1> HIDE DEF after
<1>4. pending' = (pending \ {r}) \cup {after}
  BY <1>2 DEF Becomes, after
<1>5. UNCHANGED <<lots, born>>
  BY DEF WriteCount
<1>6. /\ step = "done" => stock' = [stock EXCEPT ![r.place][r.lot] = r.quantity]
      /\ step = "refused" => stock' = stock
  <2>1. Quantity(r.place, r.lot) + r.quantity - r.before = r.quantity
    BY <1>1
  <2>2. QED
    BY <1>2, <2>1
<1>7. \A p \in Places, i \in Ids : p # r.place \/ i # r.lot => Quantity(p, i)' = Quantity(p, i)
  <2> SUFFICES ASSUME NEW p \in Places, NEW i \in Ids, p # r.place \/ i # r.lot
               PROVE  stock'[p][i] = stock[p][i]
    BY DEF Quantity
  <2>1. stock[p] \in [Ids -> Or(Int)] /\ stock \in [Places -> [Ids -> Or(Int)]]
    BY DEF TypeOK
  <2>2. QED
    BY <1>2, <1>6, <2>1
<1>8. \A s \in pending \ {r} : Checked(s) => Quantity(s.place, s.lot)' = Quantity(s.place, s.lot)
  <2> SUFFICES ASSUME NEW s \in pending \ {r}, Checked(s)
               PROVE  Quantity(s.place, s.lot)' = Quantity(s.place, s.lot)
    OBVIOUS
  <2>1. s.place \in Places /\ s.lot \in Ids
    BY DEF TypeOK, Requests, Named, Checked
  <2>2. s.place # r.place \/ s.lot # r.lot
    BY <1>1 DEF CountInv
  <2>3. QED
    BY <1>7, <2>1, <2>2
<1>9. ~Checked(after)
  BY <1>2, <1>3 DEF Checked
<1>10. CountInv'
  BY <1>4, <1>5, <1>8, <1>9 DEF CountInv, Checked
<1>11. step = "done" => Quantity(r.place, r.lot)' = r.quantity
  <2> SUFFICES ASSUME stock' = [stock EXCEPT ![r.place][r.lot] = r.quantity]
               PROVE  Quantity(r.place, r.lot)' = r.quantity
    BY <1>6
  <2>1. stock'[r.place][r.lot] = r.quantity
    BY <1>1 DEF TypeOK
  <2>2. QED
    BY <1>1, <2>1, Constants DEF Quantity, Requests
<1>12. Counted
  BY <1>2, <1>3, <1>4, <1>11 DEF Counted, Numbered
<1>13. QED
  BY <1>10, <1>12

LEMMA WriteLotSparesCounts ==
    ASSUME TypeOK, Named, CountInv, NEW r \in pending, WriteLot(r)
    PROVE  /\ born' >= born
           /\ \A s \in pending : Checked(s) => Quantity(s.place, s.lot)' = Quantity(s.place, s.lot)
<1>1. born \in Nat
  BY Constants DEF TypeOK
<1>2. CASE stock' = stock /\ born' \in {born, born + 1}
  BY <1>1, <1>2 DEF Quantity
<1>3. CASE born' = born + 1 /\ stock' = [stock EXCEPT ![r.place][born + 1] = r.quantity]
  <2> SUFFICES ASSUME NEW s \in pending, Checked(s)
               PROVE  stock'[s.place][s.lot] = stock[s.place][s.lot]
    BY <1>1, <1>3 DEF Quantity
  <2> DEFINE n == born + 1
  <2>1. s.place \in Places /\ s.lot \in Ids /\ s.lot # n
    BY <1>1 DEF TypeOK, Requests, Named, CountInv, Checked, Ids
  <2>2. stock' = [stock EXCEPT ![r.place][n] = r.quantity]
    BY <1>3
  <2> HIDE DEF n
  <2>3. stock[s.place] \in [Ids -> Or(Int)] /\ stock \in [Places -> [Ids -> Or(Int)]]
    BY <2>1 DEF TypeOK
  <2>4. stock'[s.place] = IF s.place = r.place THEN [stock[s.place] EXCEPT ![n] = r.quantity] ELSE stock[s.place]
    BY <2>1, <2>2, <2>3
  <2>5. QED
    BY <2>1, <2>3, <2>4
<1>4. QED
  BY <1>2, <1>3 DEF WriteLot, server

LEMMA NextCounts ==
    ASSUME TypeOK, TypeOK', Numbered, Numbered', Named, CountInv, Next, "receive" \notin Tills
    PROVE  CountInv' /\ Counted
<1>1. born \in Nat
  BY Constants DEF TypeOK
<1>2. ASSUME OtherStep, UNCHANGED server PROVE CountInv' /\ Counted
  BY <1>1, <1>2, OtherStepCounts DEF server, Quantity
<1>3. ASSUME NEW c \in Clerks, Edits(c) \/ Requesting(c) \/ Reading(c) PROVE CountInv' /\ Counted
  <2>1. UNCHANGED server
    BY <1>3 DEF Edits, ChangePlace, TypeQuantity, StartCount, EditRow, TypeCount, CancelCount, TypeRow, CancelRow,
                Touch, Leave, Requesting, AskPlan, Confirm, SaveCount, SaveRow, CreateLot, DeleteLot, Send,
                Reading, ReadLots, ReadStock
  <2>2. CASE Leave(c)
    <3> DEFINE left(r) == [r EXCEPT !.waited = "left"]
    <3>1. \A r \in pending : SameRequest(r, left(r)) /\ SameRequest(r, r)
      BY DEF TypeOK, Requests, SameRequest
    <3>2. \A s \in pending' : \E r \in pending : s = r \/ s = left(r)
      BY <2>2 DEF Leave
    <3> HIDE DEF left
    <3>3. OtherStep
      BY <3>1, <3>2 DEF OtherStep, SameRequest
    <3>4. QED
      BY <1>2, <2>1, <3>3
  <2>3. CASE Requesting(c)
    <3>1. PICK r : pending' = pending \cup {r} /\ r.step = "sent"
      BY <2>3, RequestingSends DEF Sent
    <3>2. OtherStep
      BY <3>1 DEF OtherStep, SameRequest
    <3>3. QED
      BY <1>2, <2>1, <3>2
  <2>4. CASE ~Leave(c) /\ ~Requesting(c)
    <3>1. UNCHANGED pending
      BY <1>3, <2>4 DEF Edits, ChangePlace, TypeQuantity, StartCount, EditRow, TypeCount, CancelCount, TypeRow,
                        CancelRow, Touch, Reading, ReadLots, ReadStock
    <3>2. QED
      BY <2>1, <3>1, CountsStay
  <2>5. QED
    BY <2>2, <2>3, <2>4
<1>4. ASSUME NEW r \in pending, Answer(r) \/ Lose(r) PROVE CountInv' /\ Counted
  <2>1. UNCHANGED server
    BY <1>4 DEF Answer, Lose
  <2> DEFINE lost == [r EXCEPT !.waited = "lost"]
  <2>2. SameRequest(r, lost)
    BY DEF TypeOK, Requests, SameRequest
  <2>3. pending' \subseteq pending \cup {lost}
    BY <1>4, Zenon DEF Answer, Lose
  <2> HIDE DEF lost
  <2>4. OtherStep
    BY <2>2, <2>3 DEF OtherStep, SameRequest
  <2>5. QED
    BY <1>2, <2>1, <2>4
<1>5. ASSUME NEW r \in pending, MakePlan(r) \/ Check(r) PROVE CountInv' /\ Counted
  <2>1. UNCHANGED server /\ r.kind # "count"
    BY <1>5 DEF MakePlan, Check, Changes
  <2>2. PICK step \in Steps : Becomes(r, [r EXCEPT !.step = step])
    BY <1>5 DEF MakePlan, Check, Steps
  <2>3. QED
    BY <1>2, <2>1, <2>2, BecomesOther
<1>6. ASSUME NEW r \in pending, Consume(r) PROVE CountInv' /\ Counted
  <2>1. r.kind # "count" /\ born' = born /\ r.place \in Places
    BY <1>6 DEF Consume, TypeOK, Requests
  <2>2. PICK step \in Steps : Becomes(r, [r EXCEPT !.step = step])
    BY <1>6 DEF Consume, Steps
  <2>3. OtherStep
    BY <2>1, <2>2, BecomesOther
  <2>4. \A s \in pending : Checked(s) => Quantity(s.place, s.lot)' = Quantity(s.place, s.lot)
    <3>1. CASE stock' = stock
      BY <3>1 DEF Quantity
    <3>2. CASE stock' = [stock EXCEPT ![r.place] = Taken(r.place, Takes(r.place, r.quantity))]
      BY <1>6, <2>1, <3>2, TakenSparesCounts DEF Consume
    <3>3. QED
      BY <1>6, <3>1, <3>2 DEF Consume
  <2>5. QED
    BY <1>1, <2>1, <2>3, <2>4, OtherStepCounts
<1>7. ASSUME NEW r \in pending, WriteLot(r) PROVE CountInv' /\ Counted
  <2>1. r.kind # "count"
    BY <1>7 DEF WriteLot, Changes
  <2>2. PICK step \in Steps : Becomes(r, [r EXCEPT !.step = step])
    BY <1>7 DEF WriteLot, Steps
  <2>3. QED
    BY <1>7, <2>1, <2>2, BecomesOther, WriteLotSparesCounts, OtherStepCounts
<1>8. ASSUME NEW p \in Places, Sell(p) PROVE CountInv' /\ Counted
  <2>1. OtherStep /\ born' = born
    BY <1>8 DEF Sell, OtherStep, SameRequest
  <2>2. \A s \in pending : Checked(s) => Quantity(s.place, s.lot)' = Quantity(s.place, s.lot)
    BY <1>8, TakenSparesCounts DEF Sell
  <2>3. QED
    BY <1>1, <2>1, <2>2, OtherStepCounts
<1>9. ASSUME NEW p \in Places, NEW i \in Ids, Receive(p, i) PROVE FALSE
  BY <1>9 DEF Receive
<1>10. QED
  BY <1>3, <1>4, <1>5, <1>6, <1>7, <1>8, <1>9, ReadCountInv, WriteCountInv DEF Next, Serve

(* After a count the balance is what was counted, whoever counts and sells  *)
(* meanwhile (set_lot_stock), as long as nothing arrives: a lot without a   *)
(* row of its balance has nothing that a receipt would wait for.            *)
THEOREM CountedStockHolds ==
    ASSUME "receive" \notin Tills
    PROVE  Spec => CountHolds
<1>1. Init => CountInv
  BY DEF Init, CountInv
<1>2. LotsInv /\ LotsInv' /\ CountInv /\ [Next]_vars => CountInv'
  <2> SUFFICES ASSUME LotsInv, LotsInv', CountInv, [Next]_vars PROVE CountInv'
    OBVIOUS
  <2>1. CASE Next
    BY <2>1, NextCounts DEF LotsInv
  <2>2. CASE UNCHANGED vars
    BY <2>2, CountsStay DEF LotsInv, vars
  <2>3. QED
    BY <2>1, <2>2
<1>3. LotsInv /\ LotsInv' /\ CountInv /\ [Next]_vars =>
        [\A r \in pending : \A after \in pending' :
          r.kind = "count" /\ r.n = after.n /\ r.step # "done" /\ after.step = "done" =>
              Quantity(r.place, r.lot)' = r.quantity]_vars
  BY NextCounts DEF LotsInv, Counted
<1>4. QED
  BY <1>1, <1>2, <1>3, LotsInvariant, PTL DEF Spec, CountHolds

-----------------------------------------------------------------------------
(* Plans *)

(* What is on the screen of c, as a plan would be for it                    *)
OnScreen(c) == [place |-> panel[c].place, quantity |-> panel[c].quantity]

(* A plan, and a request for one or to take it out, is for what is on the   *)
(* screen.                                                                  *)
PlanInv ==
    /\ \A c \in Clerks : panel[c].plan # None => panel[c].quantity # None /\ panel[c].plan = OnScreen(c)
    /\ \A r \in pending : r.waited = "here" /\ r.kind \in {"plan", "consume"} =>
          panel[r.clerk].quantity # None /\ Intent(r) = OnScreen(r.clerk)

(* The requests that are waited for are ones that were                      *)
Awaited ==
    \A s \in pending' : s.waited = "here" =>
        \E r \in pending : /\ r.waited = "here" /\ r.clerk = s.clerk /\ r.kind = s.kind
                           /\ r.place = s.place /\ r.quantity = s.quantity

LEMMA SameScreenKeepsPlan ==
    ASSUME TypeOK, PlanInv, Awaited,
           \A c \in Clerks : /\ panel'[c].place = panel[c].place /\ panel'[c].quantity = panel[c].quantity
                             /\ \/ panel'[c].plan \in {panel[c].plan, None}
                                \/ panel[c].quantity # None /\ panel'[c].plan = OnScreen(c)
    PROVE  PlanInv'
<1>1. \A c \in Clerks : OnScreen(c)' = OnScreen(c)
  BY DEF OnScreen
<1>2. \A c \in Clerks : panel'[c].plan # None => panel'[c].quantity # None /\ panel'[c].plan = OnScreen(c)'
  BY <1>1 DEF PlanInv
<1>3. ASSUME NEW s \in pending', s.waited = "here", s.kind \in {"plan", "consume"}
      PROVE  panel'[s.clerk].quantity # None /\ Intent(s) = OnScreen(s.clerk)'
  <2>1. PICK r \in pending : /\ r.waited = "here" /\ r.clerk = s.clerk /\ r.kind = s.kind
                             /\ r.place = s.place /\ r.quantity = s.quantity
    BY <1>3 DEF Awaited
  <2>2. r.clerk \in Clerks
    BY DEF TypeOK, Requests
  <2>3. Intent(s) = Intent(r)
    BY <2>1 DEF Intent
  <2>4. QED
    BY <1>1, <1>3, <2>1, <2>2, <2>3 DEF PlanInv
<1>4. QED
  BY <1>2, <1>3 DEF PlanInv

(* Who waits for the answers touches nothing while a plan is on its way.    *)
LEMMA TouchKeepsPlan ==
    ASSUME TypeOK, PlanInv, Patient, NEW c \in Clerks, NEW p, Touch(c, p),
           \/ p.plan = None
           \/ p.plan = panel[c].plan /\ p.place = panel[c].place /\ p.quantity = panel[c].quantity
    PROVE  PlanInv'
<1>1. \A r \in pending : r.waited = "here" => r.clerk # c
  BY DEF Touch, Idle
<1>2. panel'[c] = p /\ \A d \in Clerks : d # c => panel'[d] = panel[d]
  BY DEF Touch, TypeOK
<1>3. pending' = pending
  BY DEF Touch
<1>4. \A r \in pending : r.clerk \in Clerks
  BY DEF TypeOK, Requests
<1>5. QED
  BY <1>1, <1>2, <1>3, <1>4 DEF PlanInv, OnScreen

LEMMA EditsKeepPlan ==
    ASSUME TypeOK, PlanInv, Patient, NEW c \in Clerks, Edits(c)
    PROVE  PlanInv'
<1>1. panel[c] \in Panels
  BY DEF TypeOK
<1>2. ASSUME NEW p \in Places, ChangePlace(c, p) PROVE PlanInv'
  <2>1. [panel[c] EXCEPT !.place = p, !.plan = None].plan = None
    BY <1>1 DEF Panels
  <2>2. QED
    BY <1>2, <2>1, TouchKeepsPlan DEF ChangePlace
<1>3. ASSUME NEW q \in Or(1..Largest), TypeQuantity(c, q) PROVE PlanInv'
  <2>1. [panel[c] EXCEPT !.quantity = q, !.plan = None].plan = None
    BY <1>1 DEF Panels
  <2>2. QED
    BY <1>3, <2>1, TouchKeepsPlan DEF TypeQuantity
<1>4. ASSUME NEW new, Touch(c, [panel[c] EXCEPT !.count = new]) PROVE PlanInv'
  BY <1>1, <1>4, TouchKeepsPlan DEF Panels
<1>5. ASSUME NEW new, Touch(c, [panel[c] EXCEPT !.row = new]) PROVE PlanInv'
  BY <1>1, <1>5, TouchKeepsPlan DEF Panels
<1>6. ASSUME NEW i \in Ids, StartCount(c, i) \/ EditRow(c, i) PROVE PlanInv'
  BY <1>4, <1>5, <1>6 DEF StartCount, EditRow
<1>7. ASSUME NEW q \in 0..Largest, TypeCount(c, q) PROVE PlanInv'
  BY <1>1, <1>7, TouchKeepsPlan DEF TypeCount, Panels
<1>8. ASSUME NEW values \in Row, TypeRow(c, values) PROVE PlanInv'
  BY <1>1, <1>8, TouchKeepsPlan DEF TypeRow, Panels
<1>9. ASSUME CancelCount(c) \/ CancelRow(c) PROVE PlanInv'
  BY <1>4, <1>5, <1>9 DEF CancelCount, CancelRow
<1>10. ASSUME Leave(c) PROVE PlanInv'
  <2>1. \A r \in pending : r.waited = "here" => r.clerk # c
    BY <1>10 DEF Leave, Idle
  <2>2. panel'[c].plan = None /\ \A d \in Clerks : d # c => panel'[d] = panel[d]
    BY <1>10 DEF Leave, TypeOK, Fresh
  <2>3. pending' = pending
    BY <1>10, <2>1 DEF Leave
  <2>4. \A r \in pending : r.clerk \in Clerks
    BY DEF TypeOK, Requests
  <2>5. QED
    BY <2>1, <2>2, <2>3, <2>4 DEF PlanInv, OnScreen
<1>11. QED
  BY <1>2, <1>3, <1>6, <1>7, <1>8, <1>9, <1>10 DEF Edits

LEMMA RequestingKeepsPlan ==
    ASSUME TypeOK, PlanInv, NEW c \in Clerks, Requesting(c)
    PROVE  PlanInv'
<1>1. panel[c] \in Panels /\ \A r \in pending : r.clerk \in Clerks
  BY DEF TypeOK, Requests
<1>2. ASSUME NEW r, pending' = pending \cup {r}, r.clerk = c, panel' = panel,
             r.kind \in {"plan", "consume"} => panel[c].quantity # None /\ Intent(r) = OnScreen(c)
      PROVE  PlanInv'
  BY <1>2 DEF PlanInv, OnScreen, Intent
<1>3. CASE AskPlan(c)
  <2> DEFINE r == [Blank(c, "plan") EXCEPT !.quantity = panel[c].quantity]
  <2>1. r.clerk = c /\ r.place = panel[c].place /\ r.quantity = panel[c].quantity
    BY DEF Blank
  <2>2. pending' = pending \cup {r} /\ panel' = panel /\ panel[c].quantity # None
    BY <1>3 DEF AskPlan, Send
  <2> HIDE DEF r
  <2>3. QED
    BY <1>2, <2>1, <2>2 DEF Intent, OnScreen
<1>4. CASE Confirm(c)
  <2>1. panel[c].quantity # None /\ panel[c].plan = OnScreen(c)
    BY <1>4 DEF Confirm, PlanInv
  <2>2. PICK r, attempt : /\ pending' = pending \cup {r}
                          /\ panel' = [panel EXCEPT ![c].attempt = attempt]
                          /\ r.clerk = c /\ r.place = panel[c].place /\ r.quantity = panel[c].quantity
    <3>1. PICK q, key, attempt :
              /\ pending' = pending \cup {[Blank(c, "consume") EXCEPT !.quantity = q, !.key = key]}
              /\ panel' = [panel EXCEPT ![c].attempt = attempt]
              /\ q = panel[c].quantity
      <4>1. /\ pending' = pending \cup {[Blank(c, "consume") EXCEPT !.quantity = panel[c].quantity,
                  !.key = KeyFor(c, [place |-> panel[c].place, quantity |-> panel[c].quantity])]}
            /\ panel' = [panel EXCEPT ![c].attempt =
                 [intent |-> [place |-> panel[c].place, quantity |-> panel[c].quantity],
                  key |-> KeyFor(c, [place |-> panel[c].place, quantity |-> panel[c].quantity])]]
        BY <1>4, <2>1 DEF Confirm, Send
      <4>2. QED
        BY <4>1
    <3> DEFINE r == [Blank(c, "consume") EXCEPT !.quantity = q, !.key = key]
    <3>2. r.clerk = c /\ r.place = panel[c].place /\ r.quantity = q
      BY DEF Blank
    <3> HIDE DEF r
    <3>3. QED
      BY <3>1, <3>2 DEF r
  <2>3. Intent(r) = OnScreen(c)
    BY <2>2 DEF Intent, OnScreen
  <2>4. /\ panel'[c].place = panel[c].place /\ panel'[c].quantity = panel[c].quantity
        /\ panel'[c].plan = panel[c].plan /\ \A d \in Clerks : d # c => panel'[d] = panel[d]
    BY <1>1, <2>2 DEF TypeOK, Panels
  <2>5. \A d \in Clerks : OnScreen(d)' = OnScreen(d) /\ panel'[d].plan = panel[d].plan
                             /\ panel'[d].quantity = panel[d].quantity
    BY <2>4 DEF OnScreen
  <2>6. QED
    BY <1>1, <2>1, <2>2, <2>3, <2>5 DEF PlanInv, Intent
<1>5. CASE SaveCount(c) \/ SaveRow(c) \/ (\E new \in NewLots : CreateLot(c, new)) \/ \E i \in Ids : DeleteLot(c, i)
  <2>1. panel' = panel
    BY <1>5 DEF SaveCount, SaveRow, CreateLot, DeleteLot
  <2>2. CASE SaveCount(c)
    <3> DEFINE r == [Blank(c, "count") EXCEPT !.lot = panel[c].count.lot,
                        !.quantity = panel[c].count.quantity, !.at = panel[c].count.at]
    <3>1. r.clerk = c /\ r.kind = "count" /\ pending' = pending \cup {r}
      BY <2>2 DEF SaveCount, Send, Blank
    <3> HIDE DEF r
    <3>2. QED
      BY <1>2, <2>1, <3>1
  <2>3. CASE SaveRow(c)
    <3> DEFINE r == [Blank(c, "update") EXCEPT !.lot = panel[c].row.lot, !.values = panel[c].row.values]
    <3>1. r.clerk = c /\ r.kind = "update" /\ pending' = pending \cup {r}
      BY <2>3 DEF SaveRow, Send, Blank
    <3> HIDE DEF r
    <3>2. QED
      BY <1>2, <2>1, <3>1
  <2>4. ASSUME NEW new \in NewLots, CreateLot(c, new) PROVE PlanInv'
    <3> DEFINE r == [Blank(c, "create") EXCEPT !.values = new.values, !.place = new.place,
                        !.quantity = new.quantity]
    <3>1. r.clerk = c /\ r.kind = "create" /\ pending' = pending \cup {r}
      BY <2>4 DEF CreateLot, Send, Blank
    <3> HIDE DEF r
    <3>2. QED
      BY <1>2, <2>1, <3>1
  <2>5. ASSUME NEW i \in Ids, DeleteLot(c, i) PROVE PlanInv'
    <3> DEFINE r == [Blank(c, "delete") EXCEPT !.lot = i]
    <3>1. r.clerk = c /\ r.kind = "delete" /\ pending' = pending \cup {r}
      BY <2>5 DEF DeleteLot, Send, Blank
    <3> HIDE DEF r
    <3>2. QED
      BY <1>2, <2>1, <3>1
  <2>6. QED
    BY <1>5, <2>2, <2>3, <2>4, <2>5
<1>6. QED
  BY <1>3, <1>4, <1>5 DEF Requesting

LEMMA AnswerKeepsPlan ==
    ASSUME TypeOK, PlanInv, NEW r \in pending, Answer(r) \/ Lose(r)
    PROVE  PlanInv'
<1> DEFINE c == r.clerk
           lost == [r EXCEPT !.waited = "lost"]
<1>1. r \in Requests /\ c \in Clerks /\ panel[c] \in Panels
  BY DEF TypeOK, Requests
<1>2. lost.waited = "lost"
  BY <1>1 DEF Requests
<1>3. pending' \subseteq pending \cup {lost}
  BY DEF Answer, Lose
<1> HIDE DEF lost
<1>4. Awaited
  BY <1>2, <1>3 DEF Awaited
<1>5. \A ok \in BOOLEAN : LET p == Answered(r, panel[c], ok) IN
          /\ p.place = panel[c].place /\ p.quantity = panel[c].quantity
          /\ \/ p.plan \in {panel[c].plan, None}
             \/ r.kind \in {"plan", "consume"} /\ p.plan = Intent(r)
  BY <1>1 DEF Answered, Panels, Requests
<1>6. r.waited = "here" /\ r.kind \in {"plan", "consume"} =>
          panel[c].quantity # None /\ Intent(r) = OnScreen(c)
  BY DEF PlanInv
<1>7. \/ panel' = panel
      \/ r.waited = "here" /\ \E ok \in BOOLEAN : panel' = [panel EXCEPT ![c] = Answered(r, panel[c], ok)]
  BY DEF Answer, Lose
<1>8. \A d \in Clerks : /\ panel'[d].place = panel[d].place /\ panel'[d].quantity = panel[d].quantity
                        /\ \/ panel'[d].plan \in {panel[d].plan, None}
                           \/ panel[d].quantity # None /\ panel'[d].plan = OnScreen(d)
  <2>1. CASE panel' = panel
    BY <2>1
  <2>2. ASSUME r.waited = "here", NEW ok \in BOOLEAN, panel' = [panel EXCEPT ![c] = Answered(r, panel[c], ok)]
        PROVE  <1>8
    <3>1. panel'[c] = Answered(r, panel[c], ok) /\ \A d \in Clerks : d # c => panel'[d] = panel[d]
      BY <1>1, <2>2 DEF TypeOK
    <3>2. QED
      BY <1>5, <1>6, <2>2, <3>1
  <2>3. QED
    BY <1>7, <2>1, <2>2
<1>9. QED
  BY <1>4, <1>8, SameScreenKeepsPlan

LEMMA HandlersKeepPlan ==
    ASSUME TypeOK, PlanInv, NEW r \in pending,
           MakePlan(r) \/ Consume(r) \/ ReadCount(r) \/ WriteCount(r) \/ Check(r) \/ WriteLot(r)
    PROVE  PlanInv'
<1>1. r \in Requests
  BY DEF TypeOK
<1>2. PICK after : /\ panel' = panel /\ pending' = (pending \ {r}) \cup {after}
                   /\ after.waited = r.waited /\ after.clerk = r.clerk /\ after.kind = r.kind
                   /\ after.place = r.place /\ after.quantity = r.quantity
  <2>1. PICK step, before : \/ Becomes(r, [r EXCEPT !.step = step])
                            \/ Becomes(r, [r EXCEPT !.step = step, !.before = before])
    BY DEF MakePlan, Consume, ReadCount, WriteCount, Check, WriteLot
  <2>2. \A x \in {[r EXCEPT !.step = step], [r EXCEPT !.step = step, !.before = before]} :
            /\ x.waited = r.waited /\ x.clerk = r.clerk /\ x.kind = r.kind
            /\ x.place = r.place /\ x.quantity = r.quantity
    BY <1>1 DEF Requests
  <2>3. QED
    BY <2>1, <2>2 DEF Becomes
<1>3. Awaited
  BY <1>2 DEF Awaited
<1>4. QED
  BY <1>2, <1>3, SameScreenKeepsPlan

LEMMA OthersKeepPlan ==
    ASSUME TypeOK, PlanInv,
           \/ \E c \in Clerks : Reading(c)
           \/ \E p \in Places : Sell(p) \/ \E i \in Ids : Receive(p, i)
    PROVE  PlanInv'
<1>1. pending' = pending
  BY DEF Reading, ReadLots, ReadStock, Sell, Receive
<1>2. Awaited
  BY <1>1 DEF Awaited
<1>3. panel' = panel \/ \E c \in Clerks : \E row : panel' = [panel EXCEPT ![c].row = row]
  BY DEF Reading, ReadLots, ReadStock, Sell, Receive
<1>4. \A d \in Clerks : /\ panel'[d].place = panel[d].place /\ panel'[d].quantity = panel[d].quantity
                        /\ panel'[d].plan = panel[d].plan
  <2> SUFFICES ASSUME NEW d \in Clerks, NEW c \in Clerks, NEW row, panel' = [panel EXCEPT ![c].row = row]
               PROVE  /\ panel'[d].place = panel[d].place /\ panel'[d].quantity = panel[d].quantity
                      /\ panel'[d].plan = panel[d].plan
    BY <1>3
  <2>1. panel[d] \in Panels
    BY DEF TypeOK
  <2>2. panel'[d] = panel[d] \/ panel'[d] = [panel[d] EXCEPT !.row = row]
    BY DEF TypeOK
  <2>3. QED
    BY <2>1, <2>2 DEF Panels
<1>5. QED
  BY <1>2, <1>4, SameScreenKeepsPlan

(* A user who waits for each answer before touching the page again confirms *)
(* the plan that is listed (LotBalancesPanel).                              *)
THEOREM PatientSeePlans ==
    ASSUME Patient
    PROVE  Spec => []PlanIsShown
<1>1. Init => PlanInv
  BY DEF Init, Fresh, PlanInv
<1>2. LotsInv /\ PlanInv /\ [Next]_vars => PlanInv'
  <2> SUFFICES ASSUME LotsInv, PlanInv, [Next]_vars PROVE PlanInv'
    OBVIOUS
  <2>1. CASE Next
    BY <2>1, EditsKeepPlan, RequestingKeepsPlan, AnswerKeepsPlan, HandlersKeepPlan, OthersKeepPlan
    DEF Next, Serve, LotsInv
  <2>2. CASE UNCHANGED vars
    BY <2>2 DEF vars, PlanInv, OnScreen
  <2>3. QED
    BY <2>1, <2>2
<1>3. PlanInv => PlanIsShown
  BY DEF PlanInv, PlanIsShown, OnScreen
<1>4. QED
  BY <1>1, <1>2, <1>3, LotsInvariant, PTL DEF Spec

(* Lots that are used stay, no two have one number, and a patient user sees  *)
(* the plan of what is on the screen (delete_lot, create_lot, update_lot,    *)
(* LotBalancesPanel).                                                       *)
THEOREM LotsAlwaysAgree == Spec => []LotsAgree
<1>1. CASE Patient
  <2>1. TypeOK /\ UsedLotsStay /\ NumbersAreUnique /\ PlanIsShown => LotsAgree
    BY DEF LotsAgree
  <2>2. Spec => []PlanIsShown
    BY <1>1, PatientSeePlans
  <2>3. QED
    BY <2>1, <2>2, LotsHaveTypes, UsedLotsAreKept, NumbersStayUnique, PTL
<1>2. CASE ~Patient
  <2>1. LotsInv => LotsAgree
    BY <1>2 DEF LotsAgree, LotsInv, ServerInv
  <2>2. QED
    BY <2>1, LotsInvariant, PTL
<1>3. QED
  BY <1>1, <1>2

-----------------------------------------------------------------------------
(* First to expire first *)

Earlier(i) == {j \in Ids : lots[j] # None /\ Before(j, i)}
EarlierStock(p, i) == SumFunctionOnSet(Positive(p), Earlier(i))

ExpiresBefore(i, j) ==
    IF lots[j].expires = None THEN lots[i].expires # None
    ELSE IF lots[i].expires = None THEN FALSE ELSE lots[i].expires < lots[j].expires

\* A consumption takes nothing from a lot before the stock of those that
\* expire before it is gone.
EarlierGoFirst ==
    \A p \in Places : \A i, j \in Ids :
        /\ lots[i] # None /\ lots[j] # None
        /\ executed' # executed
        /\ Quantity(p, j)' < Quantity(p, j)
        /\ ExpiresBefore(i, j)
        => Quantity(p, i)' <= 0

(* The lots before one that expires earlier are before the later one too,   *)
(* and the earlier one is not before itself.                                *)
LEMMA EarlierOnesAreEarlier ==
    ASSUME TypeOK, NEW i \in Ids, NEW j \in Ids, lots[i] # None, lots[j] # None, ExpiresBefore(i, j)
    PROVE  Earlier(i) \subseteq Earlier(j) /\ i \in Earlier(j) \ Earlier(i)
<1>1. \A k \in Ids : lots[k] # None => lots[k].expires = None \/ lots[k].expires \in Nat
  BY LotsAssumption DEF TypeOK, Row, Or
<1>2. None \notin Nat /\ Ids \subseteq Nat
  BY Constants DEF Ids
<1>3. i \in Earlier(j) \ Earlier(i)
  BY <1>1, <1>2 DEF Earlier, Before, ExpiresBefore
<1>4. ASSUME NEW k \in Earlier(i) PROVE k \in Earlier(j)
  <2>1. lots[k] # None /\ Before(k, i) /\ k \in Ids
    BY DEF Earlier
  <2>2. Before(k, j)
    BY <1>1, <1>2, <2>1 DEF Before, ExpiresBefore
  <2>3. QED
    BY <2>1, <2>2 DEF Earlier
<1>5. QED
  BY <1>3, <1>4

(* What is wanted of a lot is what the lots before it do not have.          *)
LEMMA TakesWhatIsLeft ==
    ASSUME NEW p \in Places, NEW q, NEW i \in Ids
    PROVE  Takes(p, q)[i] =
             IF lots[i] = None \/ q - EarlierStock(p, i) < 0 THEN 0
             ELSE IF q - EarlierStock(p, i) \in 0..Positive(p)[i] THEN q - EarlierStock(p, i)
             ELSE Positive(p)[i]
BY Zenon DEF Takes, EarlierStock, Earlier

(* What is taken from a lot leaves nothing of those that expire before it.  *)
LEMMA TakesAllOfEarlier ==
    ASSUME TypeOK, NEW p \in Places, NEW q \in Int, NEW i \in Ids, NEW j \in Ids,
           lots[i] # None, lots[j] # None, ExpiresBefore(i, j), Takes(p, q)[j] # 0
    PROVE  Takes(p, q)[i] = Positive(p)[i]
<1>1. Positive(p) \in [Ids -> Nat]
  BY PositiveType DEF Balances
<1>2. IsFiniteSet(Earlier(j)) /\ Earlier(j) \in SUBSET Ids
  <2>1. IsFiniteSet(Ids)
    BY Constants, FS_Interval DEF Ids
  <2>2. Earlier(j) \in SUBSET Ids
    BY DEF Earlier
  <2>3. QED
    BY <2>1, <2>2, FS_Subset
<1>3. Earlier(i) \in SUBSET Earlier(j) /\ i \in Earlier(j) \ Earlier(i)
  BY EarlierOnesAreEarlier
<1>4. /\ EarlierStock(p, i) \in Int /\ EarlierStock(p, j) \in Int
      /\ EarlierStock(p, i) + Positive(p)[i] <= EarlierStock(p, j)
  <2> DEFINE f == Positive(p)
             T == Earlier(j)
             S == Earlier(i)
  <2>1. /\ f \in [Ids -> Nat] /\ IsFiniteSet(T) /\ T \in SUBSET Ids
        /\ S \in SUBSET T /\ i \in T \ S
    BY <1>1, <1>2, <1>3
  <2> HIDE DEF f, S, T
  <2>2. /\ SumFunctionOnSet(f, S) \in Int /\ SumFunctionOnSet(f, T) \in Int
        /\ SumFunctionOnSet(f, S) + f[i] <= SumFunctionOnSet(f, T)
    BY <2>1, SumGrows
  <2>3. QED
    BY <2>2 DEF f, S, T, EarlierStock
<1> DEFINE wantedI == q - EarlierStock(p, i)
           wantedJ == q - EarlierStock(p, j)
<1>5. Positive(p)[i] \in Nat /\ Positive(p)[j] \in Nat
  BY <1>1
<1>6. wantedI \in Int /\ wantedJ \in Int /\ wantedI >= wantedJ + Positive(p)[i]
  BY <1>4, <1>5
<1>7. /\ Takes(p, q)[i] = IF wantedI < 0 THEN 0
                          ELSE IF wantedI \in 0..Positive(p)[i] THEN wantedI ELSE Positive(p)[i]
      /\ Takes(p, q)[j] = IF wantedJ < 0 THEN 0
                          ELSE IF wantedJ \in 0..Positive(p)[j] THEN wantedJ ELSE Positive(p)[j]
  BY TakesWhatIsLeft, Zenon
<1> HIDE DEF wantedI, wantedJ
<1>8. wantedJ >= 0
  BY <1>6, <1>7
<1>9. QED
  BY <1>5, <1>6, <1>7, <1>8

LEMMA ConsumptionTakesInOrder ==
    ASSUME TypeOK, NEW r \in pending, Consume(r)
    PROVE  EarlierGoFirst
<1> SUFFICES ASSUME NEW p \in Places, NEW i \in Ids, NEW j \in Ids, lots[i] # None, lots[j] # None,
                    executed' # executed, Quantity(p, j)' < Quantity(p, j), ExpiresBefore(i, j)
             PROVE  Quantity(p, i)' <= 0
  BY Zenon DEF EarlierGoFirst
<1> DEFINE takes == Takes(r.place, r.quantity)
<1>1. r.place \in Places /\ r.quantity \in Int
  BY DEF TypeOK, Requests
<1>2. stock' = [stock EXCEPT ![r.place] = Taken(r.place, takes)]
  BY Zenon DEF Consume
<1> HIDE DEF takes
<1>3. \A k \in Ids : stock'[r.place][k] = IF takes[k] = 0 THEN stock[r.place][k] ELSE Quantity(r.place, k) - takes[k]
  BY <1>1, <1>2 DEF TypeOK, Taken
<1>4. p = r.place
  <2>1. SUFFICES ASSUME p # r.place PROVE FALSE
    OBVIOUS
  <2>2. stock'[p] = stock[p]
    BY <1>2, <2>1 DEF TypeOK
  <2>3. Quantity(p, j)' = Quantity(p, j)
    BY <2>2 DEF Quantity
  <2>4. Quantity(p, j) \in Int
    BY QuantityType
  <2>5. QED
    BY <2>3, <2>4
<1>5. takes[j] # 0
  <2>1. SUFFICES ASSUME takes[j] = 0 PROVE FALSE
    OBVIOUS
  <2>2. stock'[p][j] = stock[p][j]
    BY <1>3, <1>4, <2>1
  <2>3. Quantity(p, j)' = Quantity(p, j)
    BY <2>2 DEF Quantity
  <2>4. Quantity(p, j) \in Int
    BY QuantityType
  <2>5. QED
    BY <2>3, <2>4
<1>6. takes[i] = Positive(p)[i]
  BY <1>1, <1>4, <1>5, TakesAllOfEarlier DEF takes
<1>7. Quantity(p, i) \in Int /\ Positive(p)[i] = IF Quantity(p, i) > 0 THEN Quantity(p, i) ELSE 0
  BY QuantityType DEF Positive
<1>8. CASE Quantity(p, i) > 0
  <2>1. stock'[p][i] = 0
    BY <1>3, <1>4, <1>6, <1>7, <1>8
  <2>2. Quantity(p, i)' = IF stock'[p][i] = None THEN 0 ELSE stock'[p][i]
    BY DEF Quantity
  <2>3. QED
    BY <2>1, <2>2
<1>9. CASE ~(Quantity(p, i) > 0)
  <2>1. stock'[p][i] = stock[p][i]
    BY <1>3, <1>4, <1>6, <1>7, <1>9
  <2>2. Quantity(p, i)' = Quantity(p, i)
    BY <2>1 DEF Quantity
  <2>3. QED
    BY <1>7, <1>9, <2>2
<1>10. QED
  BY <1>8, <1>9

(* The stock of a lot goes before that of any lot that expires later,       *)
(* whatever the lots, their dates and their stock (plan_fefo).              *)
THEOREM EarliestGoFirst == Spec => FirstToExpireFirst
<1>1. LotsInv /\ [Next]_vars => EarlierGoFirst
  <2> SUFFICES ASSUME LotsInv, [Next]_vars, executed' # executed PROVE EarlierGoFirst
    BY Zenon DEF EarlierGoFirst
  <2>1. ASSUME NEW c \in Clerks, Edits(c) \/ Requesting(c) \/ Reading(c) PROVE FALSE
    BY <2>1 DEF Edits, ChangePlace, TypeQuantity, StartCount, EditRow, TypeCount, CancelCount, TypeRow, CancelRow,
                Touch, Leave, Requesting, AskPlan, Confirm, SaveCount, SaveRow, CreateLot, DeleteLot, Send,
                Reading, ReadLots, ReadStock, server
  <2>2. ASSUME NEW r \in pending, MakePlan(r) \/ ReadCount(r) \/ Check(r) \/ Answer(r) \/ Lose(r)
        PROVE  FALSE
    BY <2>2 DEF MakePlan, ReadCount, Check, Answer, Lose, server
  <2>3. ASSUME NEW r \in pending, WriteCount(r) \/ WriteLot(r)
        PROVE  FALSE
    BY <2>3 DEF WriteCount, WriteLot, server
  <2>4. ASSUME NEW p \in Places, Sell(p) \/ \E i \in Ids : Receive(p, i)
        PROVE  FALSE
    BY <2>4 DEF Sell, Receive
  <2>5. Next
    BY DEF vars, server
  <2>6. PICK r \in pending : Consume(r)
    BY <2>1, <2>2, <2>3, <2>4, <2>5, Zenon DEF Next, Serve
  <2>7. QED
    BY <2>6, ConsumptionTakesInOrder DEF LotsInv
<1>2. QED
  BY <1>1, LotsInvariant, PTL DEF FirstToExpireFirst, EarlierGoFirst, ExpiresBefore, Spec
=============================================================================
