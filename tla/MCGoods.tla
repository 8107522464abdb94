------------------------------ MODULE MCGoods ------------------------------
(***************************************************************************)
(* Three pages of the panel, checked together: a purchase order with its    *)
(* receipts, a new product, and a new purchase order.  They share no state, *)
(* so a behaviour opens one of them, under the bounds of one case, and      *)
(* leaves the others as they started.  The constants of Purchasing and of    *)
(* Products are wide enough for their cases, which use parts of them; those *)
(* of OrderEntry are the ones of its only case, where requests and answers  *)
(* are lost.                                                                *)
(***************************************************************************)
EXTENDS Purchasing, OrderEntry, Products

CONSTANTS ana, eva

VARIABLE case    \* which page, under which bounds

\* The price of a new product is estimated while its category changes.
Price == INSTANCE Products WITH
    Fields <- {"cat", "cost", "tax"}, LastField <- 2, LastProduct <- 1

\* Its opening stock is filled in, and a second product may take its barcode.
Stocked == INSTANCE Products WITH
    Fields <- {"unit", "margin", "price", "barcode", "stock", "lot"}, LastChange <- 0

\* Two clerks change a draft that one of them places, with two requests.
Draft == INSTANCE Purchasing WITH
    Kinds <- {"update", "add", "remove", "place", "cancel"},
    Costs <- {1, 2}, Failures <- FALSE, LastEdit <- 1

\* A clerk receives an order in parts, and answers are lost.
Receipt == INSTANCE Purchasing WITH
    Kinds <- {"place", "cancel", "receive"},
    Costs <- {1, 2}, LastEdit <- 1

\* A clerk applies the received cost of one line while the catalogue changes.
Applied == INSTANCE Purchasing WITH
    Kinds <- {"place", "receive", "apply"},
    Failures <- FALSE

ASSUME
    /\ ProductsAssumption /\ Price!ProductsAssumption /\ Stocked!ProductsAssumption
    /\ PurchasingAssumption
    /\ Draft!PurchasingAssumption /\ Receipt!PurchasingAssumption /\ Applied!PurchasingAssumption
    /\ OrderEntryAssumption

\* Bound: who has sent an order waits.  (MCBackOffice is about who does not.)
WaitsForOrder == (creating # Unset \/ orders # << >>) => strokes' = strokes

OneLine == order.lines[2] = None
OrderClosed == OneLine /\ order.lines[1].quantity = 1

\* Bound: a clerk who takes no part
Idle(c) ==
    /\ UNCHANGED <<seen[c], seenCosts[c], reading[c], values[c], selected[c], form[c], attempt[c]>>
    /\ \A r \in pending' : r.clerk # c

GoodsInit ==
    /\ case \in {"price", "stocked", "draft", "receipt", "applied", "entry"}
    /\ ProductsInit
    /\ Init
    /\ CASE case \in {"draft", "receipt"} -> TRUE
         [] case = "applied" -> OneLine
         [] OTHER -> OrderClosed
    /\ EntryInit

ProductsStep ==
    /\ \/ case = "price" /\ Price!ProductsNext
       \/ case = "stocked" /\ Stocked!ProductsNext
    /\ UNCHANGED <<case, vars, entryVars>>

PurchasingStep ==
    /\ \/ case = "draft" /\ Draft!Next /\ made' <= 2
       \/ case = "receipt" /\ Receipt!Next /\ Idle(eva)
       \/ case = "applied" /\ Applied!Next /\ Idle(eva) /\ UNCHANGED <<order.lines[2], catalog[2]>>
    /\ UNCHANGED <<case, productVars, entryVars>>

EntryStep ==
    /\ case = "entry"
    /\ EntryNext
    /\ WaitsForOrder
    /\ UNCHANGED <<case, vars, productVars>>

GoodsNext == ProductsStep \/ PurchasingStep \/ EntryStep

GoodsSpec == GoodsInit /\ [][GoodsNext]_<<case, productVars, vars, entryVars>>
=============================================================================
