------------------------------ MODULE MCStock ------------------------------
(***************************************************************************)
(* The page of the lots, that of the stock, and the rules that watch them,   *)
(* checked together.  They are models of different rows, so a behaviour is   *)
(* about one of them, under the bounds of one case, and leaves the others as *)
(* they started.  The constants of Lots are those of the case "fefo", but    *)
(* for the lots there are at first, and those of StockDesk are the widest   *)
(* of its cases.  Those of Alerts are of the case "alerts": a rule watches   *)
(* one product, which may cross its threshold twice.                        *)
(***************************************************************************)
EXTENDS Lots, StockDesk, Alerts

CONSTANTS ana, eva, milk, bread, lot, evalA, evalB

OneProduct == [i \in Incidents |-> milk]

VARIABLE case    \* which page, under which bounds

\* A clerk sees the plan of a consumption of two lots and confirms it, while
\* answers are lost and the till sells.
Fefo == INSTANCE Lots WITH FirstLots <- 2

\* Two clerks create, correct and delete lots while deliveries come in.
Table == INSTANCE Lots WITH
    Dates <- {}, Largest <- 1, Kinds <- {"create", "update", "delete"}, Tills <- {"receive"},
    Patient <- FALSE, Failures <- FALSE, LastEdit <- 2
\* bound: the requests made on the table
MostChanges == 2

\* Two clerks count a lot that the till sells.
Count == INSTANCE Lots WITH
    Dates <- {}, Kinds <- {"count"}, Patient <- FALSE

\* The form of an adjustment is filled in and sent, and its answer may be lost.
Adjust == INSTANCE StockDesk WITH Others <- {}, MostRequests <- 1

\* The form of a transfer.
Transfer == INSTANCE StockDesk WITH Others <- {}, Losses <- FALSE, MostRequests <- 1, MostTyped <- 4

\* Three requests race for the stock of a product.
Race == INSTANCE StockDesk WITH
    Products <- {bread}, Tracked <- {}, Shelves <- {1}, Printed <- {},
    Others <- {"adjust", "waste", "transfer"}, Losses <- FALSE

\* The balances are rebuilt, also twice at once, while stock is moved.
Rebuild == INSTANCE StockDesk WITH
    Products <- {bread}, Tracked <- {}, Shelves <- {1}, Printed <- {},
    Others <- {"adjust", "transfer", "rebuild"}, Losses <- FALSE

ASSUME
    /\ StockDeskAssumption
    /\ Adjust!StockDeskAssumption /\ Transfer!StockDeskAssumption
    /\ Race!StockDeskAssumption /\ Rebuild!StockDeskAssumption

\* Bound: the page of this clerk is not used.
Away(c) == UNCHANGED <<panel[c], seenLots[c], seenStock[c], stale[c]>>

\* Bound: these forms are not used.
Closed(forms) == \A k \in forms : form'[k] = Empty

\* Bound: the second evaluation starts while the first is running.  (They are alike.)
InTurn == at[evalA] = "idle" /\ at[evalB] = "idle" => at'[evalB] = "idle"

LotsClosed == Fefo!Init /\ \A p \in Places : \A i \in Ids : lots[i].expires = None /\ stock[p][i] = 1
StockClosed == Race!DeskInit /\ ledger = << >>

CasesInit ==
    /\ case \in {"fefo", "table", "count", "adjust", "transfer", "race", "rebuild", "alerts"}
    /\ CASE case = "fefo" -> Fefo!Init
         [] case = "table" -> Table!Init
         [] case = "count" -> Count!Init
         [] OTHER -> LotsClosed
    /\ CASE case = "adjust" -> Adjust!DeskInit
         [] case = "transfer" -> Transfer!DeskInit
         [] case = "race" -> Race!DeskInit
         [] case = "rebuild" -> Rebuild!DeskInit
         [] OTHER -> StockClosed
    /\ AlertsInit

LotsStep ==
    /\ \/ case = "fefo" /\ Next /\ Away(eva)
       \/ case = "table" /\ Table!Next /\ made' <= MostChanges
       \/ case = "count" /\ Count!Next
    /\ UNCHANGED <<case, deskVars, allVars>>

StockStep ==
    /\ \/ case = "adjust" /\ Adjust!DeskNext /\ Closed({"transfer"})
       \/ case = "transfer" /\ Transfer!DeskNext /\ Closed({"adjust"})
       \/ case = "race" /\ Race!DeskNext /\ Closed(Forms)
       \/ case = "rebuild" /\ Rebuild!DeskNext /\ Closed(Forms)
    /\ UNCHANGED <<case, vars, allVars>>

AlertsStep ==
    /\ case = "alerts"
    /\ AlertsNext
    /\ InTurn
    /\ UNCHANGED <<case, vars, deskVars>>

CasesNext == LotsStep \/ StockStep \/ AlertsStep

CasesSpec == CasesInit /\ [][CasesNext]_<<case, vars, deskVars, allVars>>
=============================================================================
