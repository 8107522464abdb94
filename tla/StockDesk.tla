----------------------------- MODULE StockDesk -----------------------------
(***************************************************************************)
(* Stock corrected by hand: the forms of an adjustment and of a transfer    *)
(* and the button that rebuilds the balances (frontend/src/features/         *)
(* inventory, pages/admin/InventoryBalancesPage.tsx), and the transactions  *)
(* behind them (backend/app/inventory/service.py), statement by statement   *)
(* at READ COMMITTED, with the row locks they take and the snapshots they   *)
(* read.                                                                    *)
(***************************************************************************)
EXTENDS Integers, FiniteSets

CONSTANTS
    Products,
    Tracked,    \* the products whose stock is kept by lots
    Warehouses,
    Shelves,    \* every warehouse has these locations
    Printed,    \* what may be printed on a package as its lot
    Forms,      \* bound: the forms that are used
    Rebuilds,   \* bound: the button is pressed
    Others,     \* bound: what the other pages and tills ask for
    MostMoved,  \* bound: quantities
    Losses,     \* requests and answers may be lost
    MostRequests, \* bound: requests made
    MostTyped,  \* bound: edits of the forms
    Typed,      \* a cost that was typed
    Empty

StockDeskAssumption ==
    /\ Tracked \subseteq Products
    /\ Warehouses \subseteq Nat /\ 1 \in Warehouses
    /\ Shelves \subseteq Nat /\ 1 \in Shelves
    /\ Forms \subseteq {"adjust", "transfer"}
    /\ Others \subseteq {"adjust", "waste", "transfer", "rebuild"}
    /\ MostMoved \in Nat \ {0}
    /\ {Losses, Rebuilds} \subseteq BOOLEAN
    /\ {MostRequests, MostTyped} \subseteq Nat

VARIABLES
    ledger,     \* [the coordinates with movements -> their sum]
    balance,    \* [the coordinates with a row of stock_balance -> its quantity]
    batches,    \* the lots there are
    form,       \* [Forms -> what the form says, or None]
    loaded,     \* the warehouses whose locations were read
    moves,      \* the requests that were sent and not answered
    moved,      \* Nat: requests made
    typings     \* Nat

deskServer == <<ledger, balance, batches>>
deskForms == <<form, loaded, typings>>
deskVars == <<deskServer, deskForms, moves, moved>>

OrEmpty(S) == S \cup {Empty}

\* A location belongs to a warehouse, a lot to a product.
Locations == Warehouses \X Shelves
AllLots == Products \X Printed
Coordinates == [product: Products, warehouse: Warehouses, place: Locations, lot: OrEmpty(AllLots)]
Quantities == -MostMoved..MostMoved \ {0}

Fields == [product: OrEmpty(Products), warehouse: Warehouses, place: OrEmpty(Locations),
           toWarehouse: Warehouses, toPlace: OrEmpty(Locations), lot: OrEmpty(AllLots), waste: BOOLEAN,
           quantity: OrEmpty(Quantities), cost: OrEmpty(Products \cup {Typed})]

RequestSteps == {"sent", "locking", "writing", "sweeping", "summed", "done", "refused", "short"}

Partial(f) == DOMAIN f \subseteq Coordinates /\ \A c \in DOMAIN f : f[c] \in Int

(* The stock, the forms and the requests have their types; a request that  *)
(* was served or refused holds no row.                                      *)
DeskTypeOK ==
    /\ Partial(ledger)
    /\ Partial(balance)
    /\ batches \subseteq AllLots
    /\ form \in [Forms -> OrEmpty(Fields)]
    /\ loaded \subseteq Warehouses
    /\ \A r \in moves :
          /\ r.n \in 1..moved
          /\ r.kind \in {"adjust", "waste", "transfer", "rebuild"}
          /\ r.step \in RequestSteps
          /\ r.fields \in OrEmpty(Fields)
          /\ r.held \cup r.left \subseteq Coordinates
          /\ Partial(r.totals)
          /\ r.step \in {"sent", "done", "refused", "short"} => r.held = {}
    /\ \A r, other \in moves : r # other => r.n # other.n /\ r.held \cap other.held = {}
    /\ moved \in 0..MostRequests
    /\ typings \in 0..MostTyped

Nothing == [c \in {} |-> 0]
Amount(f, c) == IF c \in DOMAIN f THEN f[c] ELSE 0
Add(f, c, q) == [x \in DOMAIN f \cup {c} |-> Amount(f, x) + IF x = c THEN q ELSE 0]

\* validate_inventory_context
Sound(c) ==
    /\ c.place[1] = c.warehouse
    /\ c.lot # Empty <=> c.product \in Tracked
    /\ c.lot # Empty => c.lot[1] = c.product

\* Where stock may be kept
Proper == {c \in Coordinates : /\ c.place[1] = c.warehouse
                               /\ IF c.product \in Tracked THEN c.lot \in {c.product} \X Printed
                                                           ELSE c.lot = Empty}

\* At first there is one unit, or none, at the first location of a warehouse.
DeskInit ==
    /\ ledger \in {[c \in S |-> 1] : S \in SUBSET {c \in Proper : c.place[2] = 1}}
    /\ balance = ledger
    /\ batches = {c.lot : c \in DOMAIN ledger} \ {Empty}
    /\ form = [k \in Forms |-> Empty]
    /\ loaded = {}
    /\ moves = {}
    /\ moved = 0
    /\ typings = 0

-----------------------------------------------------------------------------
(* The forms *)

\* useDefaultToFirstOption: a location of another warehouse gives way once
\* the locations of this one are known.
Settled(w, place, known) ==
    IF w \notin known \/ (place # Empty /\ place[1] = w) THEN place ELSE <<w, 1>>

SettledFields(f, known) ==
    [f EXCEPT !.place = Settled(f.warehouse, @, known), !.toPlace = Settled(f.toWarehouse, @, known)]

OpenForm(k) ==
    /\ form[k] = Empty
    /\ form' = [form EXCEPT ![k] = SettledFields(
          [product |-> Empty, warehouse |-> 1, place |-> Empty, toWarehouse |-> 1, toPlace |-> Empty,
           lot |-> Empty, waste |-> FALSE, quantity |-> Empty, cost |-> Empty], loaded)]
    /\ UNCHANGED <<deskServer, loaded, moves, moved, typings>>

\* locationsQuery
LoadLocations(w) ==
    /\ w \notin loaded
    /\ \E k \in Forms : form[k] # Empty /\ w \in {form[k].warehouse, form[k].toWarehouse}
    /\ loaded' = loaded \cup {w}
    /\ form' = [k \in Forms |-> IF form[k] = Empty THEN Empty ELSE SettledFields(form[k], loaded')]
    /\ UNCHANGED <<deskServer, moves, moved, typings>>

Edit(k, f) ==
    /\ form[k] # Empty
    /\ f # form[k]
    /\ typings < MostTyped
    /\ typings' = typings + 1
    /\ form' = [form EXCEPT ![k] = f]
    /\ UNCHANGED <<deskServer, loaded, moves, moved>>

\* A product chosen from the list brings its cost; a change of product, and
\* writing in the search box forgets it, clears the lot of an adjustment.
Chosen(k, f, p) ==
    [f EXCEPT !.product = p,
              !.cost = IF p = Empty THEN @ ELSE p,
              !.lot = IF k = "adjust" THEN Empty ELSE @]

Choose(k, p) ==
    /\ form[k] # Empty
    /\ form[k].product = Empty
    /\ Edit(k, Chosen(k, form[k], p))

Search(k) ==
    /\ form[k] # Empty
    /\ form[k].product # Empty
    /\ Edit(k, Chosen(k, form[k], Empty))

ChooseWarehouse(k, w) ==
    /\ form[k] # Empty
    /\ Edit(k, SettledFields([form[k] EXCEPT !.warehouse = w], loaded))

ChooseDestination(k, w) ==
    /\ form[k] # Empty
    /\ k = "transfer"
    /\ Edit(k, SettledFields([form[k] EXCEPT !.toWarehouse = w], loaded))

ChoosePlaces(k, place, toPlace) ==
    /\ form[k] # Empty
    /\ {form[k].warehouse, form[k].toWarehouse} \subseteq loaded
    /\ place[1] = form[k].warehouse
    /\ toPlace[1] = form[k].toWarehouse
    /\ k = "adjust" => toPlace = form[k].toPlace
    /\ Edit(k, [form[k] EXCEPT !.place = place, !.toPlace = toPlace])

\* The lot of an adjustment is asked for where the product keeps them; that
\* of a transfer is the number of any lot.
TypeLot(k, lot) ==
    /\ form[k] # Empty
    /\ k = "adjust" => lot[1] = form[k].product /\ lot[1] \in Tracked
    /\ Edit(k, [form[k] EXCEPT !.lot = lot])

TypeAmount(k, q) ==
    /\ form[k] # Empty
    /\ k = "transfer" => q > 0
    /\ Edit(k, [form[k] EXCEPT !.quantity = q])

TypeCost(k) == form[k] # Empty /\ Edit(k, [form[k] EXCEPT !.cost = Typed])

Waste(k) ==
    /\ form[k] # Empty
    /\ k = "adjust"
    /\ Edit(k, [form[k] EXCEPT !.waste = ~@])

-----------------------------------------------------------------------------
(* The requests *)

SendRequest(kind, ours, f) ==
    /\ moved < MostRequests
    /\ moved' = moved + 1
    /\ moves' = moves \cup {[n |-> moved', kind |-> kind, ours |-> ours, fields |-> f,
                                 step |-> "sent", held |-> {}, left |-> {}, totals |-> Nothing]}
    /\ UNCHANGED <<deskServer, deskForms>>

\* The kinds of request the two forms send, of which one is on its way
KindsOf(k) == IF k = "adjust" THEN {"adjust", "waste"} ELSE {"transfer"}
Busy(kinds) == \E r \in moves : r.ours /\ r.kind \in kinds

Complete(k, f) ==
    /\ Empty \notin {f.product, f.place, f.quantity}
    /\ k = "transfer" => f.toPlace # Empty
    /\ k = "adjust" /\ f.product \in Tracked => f.lot # Empty

Submit(k) ==
    /\ form[k] # Empty
    /\ Complete(k, form[k])
    /\ ~Busy(KindsOf(k))
    /\ SendRequest(IF k = "transfer" THEN k ELSE IF form[k].waste THEN "waste" ELSE "adjust", TRUE, form[k])

\* "Reconstruir inventario"
PressRebuild ==
    /\ Rebuilds
    /\ ~Busy({"rebuild"})
    /\ SendRequest("rebuild", TRUE, Empty)

\* The same operations from other browsers, with their forms in order
Elsewhere(kind) ==
    IF kind = "rebuild" THEN SendRequest(kind, FALSE, Empty)
    ELSE \E p \in Products, place, toPlace \in Locations, q \in Quantities :
         \E lot \in IF p \in Tracked THEN {p} \X Printed ELSE {Empty} :
            /\ IF kind = "transfer" THEN q > 0 ELSE toPlace = place
            /\ SendRequest(kind, FALSE, [product |-> p, warehouse |-> place[1], place |-> place,
                   toWarehouse |-> toPlace[1], toPlace |-> toPlace, lot |-> lot,
                   waste |-> kind = "waste", quantity |-> q, cost |-> p])

\* A form goes with the success of its request and stays with an error,
\* which an answer that is lost looks like.
AnswerDesk(r, lost) ==
    /\ IF lost THEN Losses /\ r.step \in {"sent", "done"} ELSE r.step \in {"done", "refused", "short"}
    /\ moves' = moves \ {r}
    /\ form' = IF r.ours /\ r.step = "done" /\ ~lost
               THEN [k \in Forms |-> IF r.kind \in KindsOf(k) THEN Empty ELSE form[k]]
               ELSE form
    /\ UNCHANGED <<deskServer, loaded, moved, typings>>

-----------------------------------------------------------------------------
(* record_adjustment and record_transfer *)

Origin(r) == [product |-> r.fields.product, warehouse |-> r.fields.warehouse,
              place |-> r.fields.place, lot |-> r.fields.lot]
Target(r) == [Origin(r) EXCEPT !.warehouse = r.fields.toWarehouse, !.place = r.fields.toPlace]
Touched(r) == IF r.kind = "transfer" THEN {Origin(r), Target(r)} ELSE {Origin(r)}

Magnitude(q) == IF q < 0 THEN -q ELSE q

\* What the origin gains; a loss counts as one with either sign.
Gain(r) == IF r.kind = "adjust" THEN r.fields.quantity ELSE -Magnitude(r.fields.quantity)

\* A signed adjustment may leave less than nothing.
MustHave(r) == r.kind # "adjust"

Step(r, step) == (moves \ {r}) \cup {[r EXCEPT !.step = step, !.held = {}, !.left = {}, !.totals = Nothing]}
Hold(r, step, c) == (moves \ {r}) \cup {[r EXCEPT !.step = step, !.held = @ \cup {c}]}
RowFree(r, c) == \A other \in moves \ {r} : c \notin other.held

\* get_or_create_lot: an advisory lock until the end of the transaction
LotFree(r) ==
    \A other \in moves \ {r} :
        ~(/\ other.kind \in {"adjust", "waste"}
          /\ other.step \in {"locking", "writing"}
          /\ other.fields.lot = r.fields.lot)

LotKnown(r) == r.kind = "transfer" => r.fields.lot \in OrEmpty(batches)

Validate(r) ==
    /\ r.step = "sent"
    /\ r.kind # "rebuild"
    /\ IF r.kind = "transfer" \/ r.fields.lot = Empty THEN TRUE ELSE LotFree(r)
    /\ moves' = Step(r,
          IF \/ \E c \in Touched(r) : ~Sound(c)
             \/ ~LotKnown(r)
             \/ r.kind = "transfer" /\ Origin(r) = Target(r) THEN "refused"
          ELSE IF ~MustHave(r) THEN "writing"
          ELSE IF Origin(r) \in DOMAIN balance THEN "locking" ELSE "short")
    /\ UNCHANGED <<deskServer, deskForms, moved>>

\* _lock_exact_balance_quantity: it waits for the row its snapshot has.
\* Mutant: the last of the stock cannot be moved.
Lock_NotTheLast(r) ==
    /\ r.step = "locking"
    /\ RowFree(r, Origin(r))
    /\ moves' = IF Amount(balance, Origin(r)) + Gain(r) <= 0 THEN Step(r, "short")
                  ELSE Hold(r, "writing", Origin(r))
    /\ UNCHANGED <<deskServer, deskForms, moved>>

Lock(r) ==
    /\ r.step = "locking"
    /\ RowFree(r, Origin(r))
    /\ moves' = IF Amount(balance, Origin(r)) + Gain(r) < 0 THEN Step(r, "short")
                  ELSE Hold(r, "writing", Origin(r))
    /\ UNCHANGED <<deskServer, deskForms, moved>>

\* _upsert_balance, of the origin and then of the target
NextRow(r) == IF Origin(r) \in r.held THEN Touched(r) \ r.held ELSE {Origin(r)}

Upsert(r) ==
    /\ r.step = "writing"
    /\ \E c \in NextRow(r) : RowFree(r, c) /\ moves' = Hold(r, "writing", c)
    /\ UNCHANGED <<deskServer, deskForms, moved>>

\* The movements of a request, added to a sum
Moved(r, f) ==
    IF r.kind = "transfer" THEN Add(Add(f, Origin(r), Gain(r)), Target(r), -Gain(r))
    ELSE Add(f, Origin(r), Gain(r))

Commit(r) ==
    /\ r.step = "writing"
    /\ Touched(r) \subseteq r.held
    /\ ledger' = Moved(r, ledger)
    /\ balance' = Moved(r, balance)
    /\ batches' = batches \cup ({r.fields.lot} \ {Empty})
    /\ moves' = Step(r, "done")
    /\ UNCHANGED <<deskForms, moved>>

-----------------------------------------------------------------------------
(* rebuild_stock_balance *)

StartSweep(r) ==
    /\ r.step = "sent"
    /\ r.kind = "rebuild"
    /\ moves' = (moves \ {r}) \cup {[r EXCEPT !.step = "sweeping", !.left = DOMAIN balance]}
    /\ UNCHANGED <<deskServer, deskForms, moved>>

\* The rows the statement sees are deleted as they come, each once it is free.
SweepRow(r, c) ==
    /\ r.step = "sweeping"
    /\ c \in r.left
    /\ RowFree(r, c)
    /\ moves' = (moves \ {r}) \cup {[r EXCEPT !.held = @ \cup {c}, !.left = @ \ {c}]}
    /\ UNCHANGED <<deskServer, deskForms, moved>>

\* A later statement, which sees what was committed meanwhile
SumLedger(r) ==
    /\ r.step = "sweeping"
    /\ r.left = {}
    /\ moves' = (moves \ {r}) \cup {[r EXCEPT !.step = "summed", !.totals = ledger]}
    /\ UNCHANGED <<deskServer, deskForms, moved>>

\* The rows it did not delete
Added(r) == DOMAIN r.totals \ r.held

\* Mutant: a row that is there is written over.
Conflicts_Never(r) == FALSE

Conflicts(r) == Added(r) \cap DOMAIN balance # {}

Rebuilt(r) ==
    [c \in (DOMAIN balance \ r.held) \cup DOMAIN r.totals |->
        IF c \in DOMAIN r.totals THEN r.totals[c] ELSE balance[c]]

\* For a statement that began before, a row that was deleted is gone, and the
\* one in its place is not seen.
Unsettled(other, gone) ==
    IF other.step = "sweeping" THEN [other EXCEPT !.left = @ \ gone]
    ELSE IF other.step # "locking" THEN other
    ELSE IF Origin(other) \in gone THEN [other EXCEPT !.step = "short", !.held = {}] ELSE other

InsertRows(r) ==
    /\ r.step = "summed"
    /\ \A c \in Added(r) : RowFree(r, c)
    /\ IF Conflicts(r)
       THEN moves' = Step(r, "refused") /\ UNCHANGED balance
       ELSE /\ balance' = Rebuilt(r)
            /\ moves' = {Unsettled(other, r.held) : other \in moves \ {r}}
                          \cup {[r EXCEPT !.step = "done", !.held = {}, !.totals = Nothing]}
    /\ UNCHANGED <<ledger, batches, deskForms, moved>>

-----------------------------------------------------------------------------
(* The database breaks a circle of waits by refusing one of them.          *)

Wanted(r) ==
    CASE r.step = "locking" -> {Origin(r)}
      [] r.step = "writing" -> NextRow(r)
      [] r.step = "sweeping" -> r.left
      [] r.step = "summed" -> Added(r)
      [] OTHER -> {}

Circle(S) ==
    /\ S # {}
    /\ \A r \in S : \E other \in S \ {r} : Wanted(r) \cap other.held # {}

\* Mutant: nobody is chosen.
Victim_None(r) == FALSE /\ moves' = moves /\ UNCHANGED <<deskServer, deskForms, moved>>

Victim(r) ==
    /\ \E S \in SUBSET moves : r \in S /\ Circle(S)
    /\ moves' = Step(r, "refused")
    /\ UNCHANGED <<deskServer, deskForms, moved>>

-----------------------------------------------------------------------------
EditForm ==
    \E k \in Forms :
        \/ \E p \in Products : Choose(k, p)
        \/ Search(k)
        \/ \E w \in Warehouses : ChooseWarehouse(k, w) \/ ChooseDestination(k, w)
        \/ \E place, toPlace \in Locations : ChoosePlaces(k, place, toPlace)
        \/ \E lot \in AllLots : TypeLot(k, lot)
        \/ \E q \in Quantities : TypeAmount(k, q)
        \/ TypeCost(k)
        \/ Waste(k)

ServeRequest(r) ==
    \/ Validate(r) \/ Lock(r) \/ Upsert(r) \/ Commit(r)
    \/ StartSweep(r)
    \/ \E c \in Coordinates : SweepRow(r, c)
    \/ SumLedger(r) \/ InsertRows(r) \/ Victim(r)

DeskNext ==
    \/ EditForm
    \/ \E k \in Forms : OpenForm(k) \/ Submit(k)
    \/ \E w \in Warehouses : LoadLocations(w)
    \/ PressRebuild
    \/ \E kind \in Others : Elsewhere(kind)
    \/ \E r \in moves : ServeRequest(r) \/ \E lost \in BOOLEAN : AnswerDesk(r, lost)

DeskSpec == DeskInit /\ [][DeskNext]_deskVars

\* A transaction goes on when it can, and every answer arrives.
DeskFairSpec ==
    /\ DeskSpec
    /\ \A n \in 1..MostRequests :
          WF_deskVars(\E r \in moves : r.n = n /\ (ServeRequest(r) \/ AnswerDesk(r, FALSE)))

-----------------------------------------------------------------------------
(* The balances are the sums of the ledger, whatever is moved while they   *)
(* are rebuilt (rebuild_stock_balance: "the projection must always be       *)
(* fully rebuildable from the ledger").                                     *)
BalancesAreLedger ==
    \A c \in DOMAIN ledger \cup DOMAIN balance : Amount(balance, c) = Amount(ledger, c)

(* Stock is only kept where it makes sense: at a location of the warehouse *)
(* named, by lots of the product if it keeps them (                         *)
(* validate_inventory_context), also for a form that was sent before the    *)
(* locations of its warehouse were known.                                   *)
StockIsSound == DOMAIN ledger \subseteq Proper

(* The cost and the lot of an adjustment are the chosen product's, not     *)
(* those of the one that was chosen before (useChosenProduct and the effect *)
(* of AdjustmentForm).                                                      *)
FieldsOfProduct ==
    \A r \in moves : r.kind \in {"adjust", "waste"} =>
        /\ r.fields.cost \in {Typed, r.fields.product}
        /\ r.fields.lot = Empty \/ r.fields.lot[1] = r.fields.product

(* Only a signed adjustment takes a balance below nothing: losses and      *)
(* transfers that race for the same stock do not (record_movement).         *)
AdjustmentOverdraws ==
    \A c \in DOMAIN balance' :
        balance'[c] < Amount(balance, c) /\ balance'[c] < 0 =>
            \E r \in moves : r.kind = "adjust" /\ r.step = "writing" /\ Origin(r) = c

(* A request is refused for want of stock only if there was not enough of  *)
(* it (record_movement: "only {available} available at location").          *)
RefusalIsFair ==
    \A r \in moves : \A after \in moves' :
        r.n = after.n /\ after.step = "short" /\ r.step # "short" =>
            Amount(ledger, Origin(r)) + Gain(r) < 0

NobodyRebuilds == \A r \in moves : r.kind # "rebuild"

(* Requests that race for the same stock take no more than there is, and,  *)
(* while nothing is rebuilt, are refused only when it is short.             *)
StockIsShared == AdjustmentOverdraws /\ (NobodyRebuilds => RefusalIsFair)

(* The stock agrees with its history: balances are the ledger, at places    *)
(* and in lots of their product, what a form sends is of what is chosen,    *)
(* and whoever races for the stock is served fairly (record_movement,       *)
(* rebuild_stock_balance).                                                  *)
StockAgrees ==
    /\ [](DeskTypeOK /\ BalancesAreLedger /\ StockIsSound /\ FieldsOfProduct)
    /\ [][StockIsShared]_deskVars

(* Every request is served or refused and answered.                        *)
EveryRequestIsAnswered ==
    \A n \in 1..MostRequests : (\E r \in moves : r.n = n) ~> ~\E r \in moves : r.n = n
=============================================================================
