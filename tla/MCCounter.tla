----------------------------- MODULE MCCounter -----------------------------
(***************************************************************************)
(* What happens at the counter, checked together: the codes of the scanner, *)
(* the articles that are added to a sale, the quantities of a return, the   *)
(* tickets that are printed after each charge and the closing of the day.   *)
(* They are models of different rows, so a behaviour is about one of them,  *)
(* under the bounds of one case.  The constants of TillClosing are those of *)
(* the case "oneTill": two browsers close the days of one till.             *)
(***************************************************************************)
EXTENDS TillClosing

CONSTANTS drink, cheese, deli, None

VARIABLES
    case,                                                                \* which of them, under which bounds
    buffer, since, idle, enabled, typed, gunIdle, delivered, hand, toggles,      \* Scanner
    pending, surcharge, prompt, edit, searching, lines, wanted, articles,        \* TillEntry
    line, refund, stock, manual, lot, staged, refused,                           \* RefundEntry
    template, rendered, sale, receipt, ready, printed, attempted, drawerError,   \* Printing
    asking, surfaces, places, tries, queue, atQZ, paper, pulses

\* Two codes that end with Enter, while the screen takes scans or not and
\* somebody types.
Gun == INSTANCE Scanner WITH
    Scans <- 2, CodeLength <- 5, Endings <- {"key"}, LastHandKey <- 2, LastToggle <- 2

\* Three codes, with Enter or without, at a screen that goes on taking them.
Codes == INSTANCE Scanner WITH
    Scans <- 3, CodeLength <- 5, Endings <- {"key", "none"}, LastHandKey <- 2, LastToggle <- 0

\* The warehouse of the only till
Shop == [t \in Terminals |-> "w1"]

\* A drink, cheese by weight and an open-price button.
Products == {drink, cheese, deli}
Kinds == [p \in Products |-> CASE p = drink -> "unit" [] p = cheese -> "weight" [] p = deli -> "open"]

\* A cashier who chooses no multiplier while a code is looked up.
Calm == INSTANCE TillEntry WITH
    Kind <- Kinds, LastArticle <- 3, Patient <- TRUE, GunAtHand <- FALSE

\* One who does, with the scanner also at the prompt of a weight.
Hasty == INSTANCE TillEntry WITH
    Kind <- Kinds, LastArticle <- 3, Patient <- FALSE, GunAtHand <- TRUE

\* A box of 2 of which one was given back in stock only, and 0.30 kg of which
\* 0.10 kg were refunded.
SaleLines == {"box", "kilo"}
Entry == INSTANCE RefundEntry WITH
    Lines <- SaleLines,
    Bought <- [l \in SaleLines |-> IF l = "box" THEN 40 ELSE 3],
    Refunded <- [l \in SaleLines |-> IF l = "box" THEN 0 ELSE 1],
    Returned <- [l \in SaleLines |-> IF l = "box" THEN 20 ELSE 0],
    Factor <- [l \in SaleLines |-> IF l = "box" THEN 2 ELSE 1],
    Fraction <- {"kilo"}, Tracked <- {"box"}, Typed <- {0, 3, 10, 30},
    One <- 10, Bits <- 10, Fine <- 16, NoLine <- None

\* Tickets that are printed after each charge, and printed again.
Auto == INSTANCE Printing WITH
    AutoPrint <- TRUE, LastSale <- 2, CashSales <- {2}, LastSurface <- 2, LastTemplate <- 2, LastTry <- 0,
    Buttons <- {"reprint"}, shown <- places, Absent <- None

ASSUME
    /\ Gun!ScannerAssumption /\ Codes!ScannerAssumption
    /\ Calm!TillEntryAssumption /\ Hasty!TillEntryAssumption
    /\ Entry!EntryAssumption
    /\ Auto!PrintingAssumption
    /\ ClosingAssumption

scannerVars == <<buffer, since, idle, enabled, typed, gunIdle, delivered, hand, toggles>>
tillVars == <<pending, surcharge, prompt, edit, searching, lines, wanted, articles>>
refundVars == <<line, refund, stock, manual, lot, staged, refused>>
printingVars ==
    <<template, rendered, sale, receipt, ready, printed, attempted, drawerError, asking, surfaces, places, tries,
      queue, atQZ, paper, pulses>>
CounterInit ==
    /\ case \in {"gun", "codes", "calm", "hasty", "entry", "auto", "oneTill"}
    /\ Gun!ScannerInit
    /\ Calm!Init
    /\ Entry!RefundInit
    /\ Auto!PrintingInit
    /\ ClosingInit

ScannerStep ==
    /\ \/ case = "gun" /\ Gun!ScannerNext
       \/ case = "codes" /\ Codes!ScannerNext
    /\ UNCHANGED <<case, tillVars, refundVars, printingVars, closingVars>>

TillStep ==
    /\ \/ case = "calm" /\ Calm!Next
       \/ case = "hasty" /\ Hasty!Next
    /\ UNCHANGED <<case, scannerVars, refundVars, printingVars, closingVars>>

RefundStep ==
    /\ case = "entry"
    /\ Entry!RefundNext
    /\ UNCHANGED <<case, scannerVars, tillVars, printingVars, closingVars>>

PrintingStep ==
    /\ case = "auto"
    /\ Auto!PrintingNext
    /\ UNCHANGED <<case, scannerVars, tillVars, refundVars, closingVars>>

ClosingStep ==
    /\ case = "oneTill"
    /\ ClosingNext
    /\ UNCHANGED <<case, scannerVars, tillVars, refundVars, printingVars>>

CounterNext == ScannerStep \/ TillStep \/ RefundStep \/ PrintingStep \/ ClosingStep

\* Scanner.tla: time passes, and a gun ends the code it has begun.
CounterSpec ==
    /\ CounterInit /\ [][CounterNext]_<<case, scannerVars, tillVars, refundVars, printingVars, closingVars>>
    /\ WF_scannerVars(case = "gun" /\ Gun!Tick)
    /\ WF_scannerVars(case = "gun" /\ Gun!GunEnd)

-----------------------------------------------------------------------------
(* What is keyed in and the tickets have their types.                       *)
TypeOK ==
    CASE case = "gun" -> Gun!ScannerTypeOK
      [] case = "codes" -> Codes!ScannerTypeOK
      [] case = "calm" -> Calm!TypeOK
      [] case = "hasty" -> Hasty!TypeOK
      [] case = "entry" -> Entry!RefundTypeOK
      [] case = "auto" -> Auto!PrintingTypeOK
      [] OTHER -> TRUE    \* see DayAddsUp

(* A code is given to the screen once (Scanner.tla; useBarcodeScanner).     *)
ReadOnce ==
    CASE case = "gun" -> Gun!ReadOnce
      [] case = "codes" -> Codes!ReadOnce
      [] OTHER -> TRUE

(* What the screen gets is a whole code of the gun, as long as it goes on   *)
(* taking them (Scanner.tla; useBarcodeScanner).                            *)
WholeCodes == case = "codes" => Codes!WholeCodes

(* Every code that ends with Enter is read (Scanner.tla; useBarcodeScanner).*)
EveryCodeRead ==
    \A scan \in 1..2 : (case = "gun" /\ Gun!TypedOut(scan)) ~> Gun!ReadOut(scan)

(* A line has the quantity chosen before its article was taken, as long as  *)
(* nothing is chosen during a lookup (TillEntry.tla; PosHomePage).          *)
AddedAsAsked == case = "calm" => Calm!AddedAsAsked

(* A line has the surcharge that was down when its article was taken        *)
(* (TillEntry.tla; PosHomePage).                                            *)
SurchargeAsAsked ==
    CASE case = "calm" -> Calm!SurchargeAsAsked
      [] case = "hasty" -> Hasty!SurchargeAsAsked
      [] OTHER -> TRUE

(* One article is one line (TillEntry.tla; PosHomePage).                    *)
OneLineEach ==
    CASE case = "calm" -> Calm!OneLineEach
      [] case = "hasty" -> Hasty!OneLineEach
      [] OTHER -> TRUE

(* No more money or merchandise is staged than remains, each line once      *)
(* (RefundEntry.tla; CreateReturnForm).                                     *)
WithinTheSale == case = "entry" => Entry!WithinTheSale

(* Until the stock is touched, what comes back is what is paid back         *)
(* (RefundEntry.tla; CreateReturnForm).                                     *)
StockFollowsMoney == case = "entry" => Entry!StockFollowsMoney

(* Every paper of a sale says the same (Printing.tla; generate_ticket).     *)
CopiesAgree == case = "auto" => Auto!CopiesAgree

(* A receipt asks for the drawer of a cash sale only, once and then once    *)
(* per press of the retry (Printing.tla; Receipt).                          *)
DrawerOfCashSales == case = "auto" => Auto!DrawerOfCashSales

(* What the sale, the return and the paper get is what was keyed in: whole    *)
(* codes, each once, and every one that ends with Enter; one line per         *)
(* article, with its quantity and its surcharge; no more back than remains,   *)
(* in money and in merchandise; every copy of a ticket the same; and the      *)
(* drawer for cash only.                                                     *)
EntryAsAsked ==
    /\ [](/\ TypeOK
         /\ ReadOnce /\ WholeCodes
         /\ AddedAsAsked /\ SurchargeAsAsked /\ OneLineEach
         /\ WithinTheSale /\ StockFollowsMoney
         /\ CopiesAgree /\ DrawerOfCashSales)
    /\ EveryCodeRead
=============================================================================
