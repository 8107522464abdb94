---------------------------- MODULE MCBackOffice ----------------------------
(***************************************************************************)
(* What the back office waits for, checked together: the mails of the       *)
(* outbox and, in the panel, the pictures, the estimates of an order, the   *)
(* movements of stock, the balances of the lots, and how a till comes to    *)
(* show what was saved.  They are models of different rows, so a behaviour  *)
(* is about one of them, under the bounds of one case.  The constants of     *)
(* Outbox and of Pictures are those of "mails" and "pictures", where         *)
(* pictures are put and replaced while a till shows them.                   *)
(***************************************************************************)
EXTENDS Outbox, Pictures

CONSTANTS pan, vino, None, NoVersion

VARIABLES
    case,                                                             \* which of them, under which bounds
    opening, openings, entry, rows, asks, asked, creating, orders, edits,      \* OrderEntry
    ledger, balance, batches, form, loaded, moves, moved, typings,    \* StockDesk
    lots, born, stock, executed, panel, seenLots, seenStock, stale,   \* Lots
    pending, made, changes,
    clock, began, item, stamp, shown, seen, due, behind               \* LiveCatalog

\* bound: the edits of the form of an order
FormEdits == 4

\* An order of at most two lines is entered, over a form that is opened twice.
OrderForm == INSTANCE OrderEntry WITH
    Articles <- {pan, vino}, CostsTyped <- {0, 1}, Losses <- FALSE, MostRows <- 2, LastAsk <- 3,
    LastStroke <- FormEdits, LastOpening <- 2, MostOrders <- 3, Unset <- None,
    table <- rows, strokes <- edits

\* Movements cross a rebuild of the balances.
Desk == INSTANCE StockDesk WITH
    Products <- {"bread"}, Tracked <- {}, Warehouses <- {1, 2}, Shelves <- {1}, Printed <- {},
    Forms <- {}, Rebuilds <- TRUE, Others <- {"adjust", "waste", "transfer"}, MostMoved <- 1, Losses <- FALSE,
    MostRequests <- 2, MostTyped <- 0, Typed <- "typed", Empty <- None

\* The balances of the lots, while stock is counted and consumed.
Balances == INSTANCE Lots WITH
    Clerks <- {"ana"}, Places <- {"shop", "store"}, Numbers <- {"n1", "n2"}, Dates <- {},
    LastLot <- 2, FirstLots <- 1, Largest <- 1, Kinds <- {"count", "plan", "consume", "create"}, Tills <- {},
    Patient <- FALSE, Failures <- FALSE, Leaves <- TRUE, LastRequest <- 2, LastEdit <- 2,
    edits <- changes

\* One till polls while one writer changes and creates rows.
Catalog == INSTANCE LiveCatalog WITH
    Items <- 1..3, Initial <- 1..2, Deletable <- {}, Contents <- {"old", "new"}, Writers <- {"w"},
    Tills <- {"t"}, LastStart <- 3, row <- item

ASSUME
    /\ PicturesAssumption
    /\ OrderForm!OrderEntryAssumption
    /\ Desk!StockDeskAssumption
    /\ Catalog!LiveCatalogAssumption

orderVars == <<opening, openings, entry, rows, asks, asked, creating, orders, edits>>
deskVars == <<ledger, balance, batches, form, loaded, moves, moved, typings>>
lotsVars == <<lots, born, stock, executed, panel, seenLots, seenStock, stale, pending, made, changes>>
catalogVars == <<clock, began, item, stamp, shown, seen, due, behind>>

\* What a behaviour is not about stays in one state.
OfficeInit ==
    /\ case \in {"mails", "pictures", "order", "desk", "lots", "catalog"}
    /\ OutboxInit
    /\ PicturesInit
    /\ OrderForm!EntryInit
    /\ Desk!DeskInit /\ (case # "desk" => ledger = << >>)
    /\ Balances!Init /\ (case # "lots" => \A p \in {"shop", "store"} : stock[p][1] = 1)
    /\ Catalog!Init /\ (case # "catalog" => \A i \in 1..2 : item[i] = "old")

MailsStep ==
    /\ case = "mails"
    /\ OutboxNext
    /\ UNCHANGED <<case, picturesVars, orderVars, deskVars, lotsVars, catalogVars>>

PicturesStep ==
    /\ case = "pictures"
    /\ PicturesNext
    /\ UNCHANGED <<case, outboxVars, orderVars, deskVars, lotsVars, catalogVars>>

OrderStep ==
    /\ case = "order"
    /\ OrderForm!EntryNext
    /\ UNCHANGED <<case, outboxVars, picturesVars, deskVars, lotsVars, catalogVars>>

DeskStep ==
    /\ case = "desk"
    /\ Desk!DeskNext
    /\ UNCHANGED <<case, outboxVars, picturesVars, orderVars, lotsVars, catalogVars>>

LotsStep ==
    /\ case = "lots"
    /\ Balances!Next
    /\ UNCHANGED <<case, outboxVars, picturesVars, orderVars, deskVars, catalogVars>>

CatalogStep ==
    /\ case = "catalog"
    /\ Catalog!Next
    /\ UNCHANGED <<case, outboxVars, picturesVars, orderVars, deskVars, lotsVars>>

OfficeNext == MailsStep \/ PicturesStep \/ OrderStep \/ DeskStep \/ LotsStep \/ CatalogStep

\* What each of the models assumes: workers poll, requests are served and answered, timers
\* run out, lists are read again after a change and a till polls.
OfficeSpec ==
    /\ OfficeInit
    /\ [][OfficeNext]_<<case, outboxVars, picturesVars, orderVars, deskVars, lotsVars, catalogVars>>
    /\ \A w \in Workers : WF_outboxVars(case = "mails" /\ WorkerStep(w))
    /\ \A b \in {"ana", "till"} :
          /\ WF_picturesVars(case = "pictures" /\ ReadList(b))
          /\ WF_picturesVars(case = "pictures" /\ Fetch(b, "bread"))
    /\ WF_picturesVars(case = "pictures" /\ Progress("ana"))
    /\ WF_orderVars(case = "order" /\ \E i \in DOMAIN rows : OrderForm!AskRow(i))
    /\ WF_orderVars(case = "order" /\ \E a \in asks : OrderForm!Answer(a))
    /\ \A n \in 1..2 :
          WF_deskVars(case = "desk" /\ \E r \in moves : r.n = n /\ (Desk!ServeRequest(r) \/ Desk!AnswerDesk(r, FALSE)))
    /\ WF_lotsVars(case = "lots" /\ Balances!Reading("ana"))
    /\ \A n \in 1..2 : WF_lotsVars(case = "lots" /\ \E r \in pending : r.n = n /\ Balances!Serve(r))
    /\ WF_catalogVars(case = "catalog" /\ Catalog!Poll("t"))
    /\ WF_catalogVars(case = "catalog" /\ Catalog!Refetch("t"))

-----------------------------------------------------------------------------
(* What is entered in one form of an order is one order, if no answer is    *)
(* lost (OrderEntry.tla; CreateOrderForm).                                  *)
OneOrderPerForm == case = "order" => OrderForm!OneOrderPerForm

(* A form that nobody touches any more ends up with its estimates           *)
(* (OrderEntry.tla; CreateOrderForm).                                       *)
EstimatesArrive == case = "order" => OrderForm!EstimatesArrive

(* No movement waits for ever, although transfers and the rebuild lock      *)
(* their balances in different orders (StockDesk.tla; record_movement).     *)
EveryRequestIsAnswered == case = "desk" => Desk!EveryRequestIsAnswered

(* When nothing more happens, the table of the lots shows their stock       *)
(* (Lots.tla; LotsPage, LotBalancesPanel).                                  *)
TableCatchesUp == case = "lots" => Balances!TableCatchesUp

(* A till comes to show what was saved, unless its first version was        *)
(* younger than its rows or the fetch failed (LiveCatalog.tla;              *)
(* useLiveCatalog).                                                         *)
TillCatchesUp == case = "catalog" => Catalog!TillCatchesUp

(* Everything that is waited for comes: messages settle, the last picture    *)
(* shows, estimates arrive, movements are answered whatever order they lock  *)
(* in, and the tables and the tills catch up.  And it comes once: an order   *)
(* that is waited for is not made twice.                                    *)
WaitsEnd ==
    /\ EveryMessageSettles
    /\ LastPictureShows
    /\ EstimatesArrive
    /\ EveryRequestIsAnswered
    /\ TableCatchesUp
    /\ TillCatchesUp
    /\ []OneOrderPerForm
=============================================================================
