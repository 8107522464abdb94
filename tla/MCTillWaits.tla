---------------------------- MODULE MCTillWaits ----------------------------
(***************************************************************************)
(* What somebody at a till waits for besides the charge of a sale, checked  *)
(* together: the answer to a return, a ticket that is printed by hand, the  *)
(* Z of the day.  They are models of different rows, so a behaviour is      *)
(* about one of them, under the bounds of one case.  The constants of       *)
(* Refunds are those of the case "atTill": returns at the till, while others *)
(* return too.                                                              *)
(***************************************************************************)
EXTENDS Refunds

VARIABLES
    case,                                                                \* which of them, under which bounds
    template, rendered, sale, receipt, ready, printed, attempted, drawerError,                    \* Printing
    asking, surfaces, places, tries, queue, atQZ, paper, pulses,
    day, zs, held, charges, active, switches, configured, listed, changing,                       \* TillClosing
    mode, preview, closed, closeKey, closeError, keysDrawn, closing, tried

\* Sale 1 with two units of one line, sale 2 with one.
SaleLines == {11, 21}
SaleOfLine == [l \in SaleLines |-> IF l = 11 THEN 1 ELSE 2]
Units == [l \in SaleLines |-> IF l = 11 THEN 2 ELSE 1]

\* Returns in the panel.
AtPanel == INSTANCE Refunds WITH Page <- "panel", LastElsewhere <- 0

\* Tickets that are printed by hand, and retried.
ByHand == INSTANCE Printing WITH
    AutoPrint <- FALSE, LastSale <- 1, CashSales <- {1}, LastSurface <- 2, LastTemplate <- 1, LastTry <- 1,
    Buttons <- {"receipt", "z"}, shown <- places, Absent <- None

\* One browser closes at two tills, which the panel deactivates.
Switched == INSTANCE TillClosing WITH
    Browsers <- {"b1"}, Terminals <- {"t1", "t2"},
    WarehouseOf <- [t \in {"t1", "t2"} |-> IF t = "t1" THEN "w1" ELSE "w2"],
    LastDay <- 2, LastClosing <- 2, LastCharge <- 1, LastSwitch <- 2, Unset <- None

ASSUME
    /\ RefundsAssumption /\ AtPanel!RefundsAssumption
    /\ ByHand!PrintingAssumption
    /\ Switched!ClosingAssumption

printingVars ==
    <<template, rendered, sale, receipt, ready, printed, attempted, drawerError, asking, surfaces, places, tries,
      queue, atQZ, paper, pulses>>
closingVars ==
    <<day, zs, held, charges, active, switches, configured, listed, changing, mode, preview, closed, closeKey,
      closeError, keysDrawn, closing, tried>>

CasesInit ==
    /\ case \in {"atTill", "atPanel", "byHand", "switched"}
    /\ Init
    /\ ByHand!PrintingInit
    /\ Switched!ClosingInit

RefundsStep ==
    /\ \/ case = "atTill" /\ Next
       \/ case = "atPanel" /\ AtPanel!Next
    /\ UNCHANGED <<case, printingVars, closingVars>>

PrintingStep ==
    /\ case = "byHand"
    /\ ByHand!PrintingNext
    /\ UNCHANGED <<case, vars, closingVars>>

ClosingStep ==
    /\ case = "switched"
    /\ Switched!ClosingNext
    /\ UNCHANGED <<case, vars, printingVars>>

CasesNext == RefundsStep \/ PrintingStep \/ ClosingStep

\* Requests settle and are handled, lists are polled and read, the print queue
\* runs and its timers expire.
CasesSpec ==
    /\ CasesInit /\ [][CasesNext]_<<case, vars, printingVars, closingVars>>
    /\ WF_vars(case = "atTill" /\ (Served \/ Lose))
    /\ WF_vars(case = "atTill" /\ (Succeed \/ Fail))
    /\ WF_vars(case = "atPanel" /\ (AtPanel!Served \/ AtPanel!Lose))
    /\ WF_vars(case = "atPanel" /\ (AtPanel!Succeed \/ AtPanel!Fail))
    /\ WF_printingVars(case = "byHand" /\ ByHand!Hand)
    /\ WF_printingVars(case = "byHand" /\ ByHand!TimeOut)
    /\ WF_closingVars(case = "switched" /\ Switched!Poll("b1"))
    /\ WF_closingVars(case = "switched" /\ (Switched!ReadDay("b1") \/ Switched!Commit("b1")))
    /\ WF_closingVars(case = "switched" /\ (Switched!Closed("b1") \/ Switched!NotClosed("b1")))

-----------------------------------------------------------------------------
(* The tickets and the closings have their types.                           *)
CasesTypeOK ==
    CASE case = "byHand" -> ByHand!PrintingTypeOK
      [] case = "switched" -> Switched!ClosingTypeOK
      [] OTHER -> TRUE    \* see RetriesCountOnce

(* A surface whose ticket was acknowledged never prints it again            *)
(* (Printing.tla; TicketPrintSurface).                                      *)
PrintedOnce == case = "byHand" => ByHand!PrintedOnce

(* No print blocks the next, whatever QZ Tray does (Printing.tla;           *)
(* qzPrinter).                                                              *)
JobsSettle ==
    \A i \in 1..2 : (case = "byHand" /\ ByHand!Waits(i)) ~> ~ByHand!Waits(i)

(* A browser whose till was deactivated stops selling from it, within a poll *)
(* of the list (TillClosing.tla; PosTerminalProvider).                      *)
DisabledTillStops == Switched!DisabledTillStops

(* No closing stays in flight (TillClosing.tla; ZReportDialog).             *)
ClosingSettles == (case = "switched" /\ closing["b1"] # None) ~> (closing["b1"] = None)

(* Nobody at a till waits for ever, and nothing that came out comes again:   *)
(* buttons come back and an answered list is gone, jobs and closings settle, *)
(* a ticket is acknowledged once, and a till that was deactivated stops.     *)
WaitsEnd ==
    /\ [](CasesTypeOK /\ PrintedOnce)
    /\ AnsweredListIsGone
    /\ ButtonsComeBack
    /\ JobsSettle
    /\ DisabledTillStops
    /\ ClosingSettles
=============================================================================
