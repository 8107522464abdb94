----------------------------- MODULE TillClosing -----------------------------
(***************************************************************************)
(* The end of a day at the tills: the terminal each browser remembers        *)
(* (frontend/src/features/pos/PosTerminalProvider), the header that opens    *)
(* the X and Z dialogs (pages/pos/PosLayout), the dialog itself              *)
(* (features/pos/CloseTillDialog), and the closing on the server             *)
(* (backend/app/sales/z_reports.py), whose reading of the sales still open   *)
(* and whose commit are two steps: a sale may get a line between them.       *)
(*                                                                         *)
(* A terminal has one open sale; Till.tla is about that screen.  The totals  *)
(* of a report are the number of charges it counts.                         *)
(***************************************************************************)
EXTENDS Naturals, FiniteSets, Functions

CONSTANTS
    Browsers,     \* the browsers of the shop
    Terminals,    \* the tills
    WarehouseOf,  \* [Terminals -> the warehouse whose cash it counts]
    LastDay,      \* bound: business days
    LastClosing,  \* bound: idempotency keys drawn, by all browsers
    LastCharge,   \* bound: charges in a warehouse
    LastSwitch,   \* bound: activations and deactivations of tills
    Unset

VARIABLES
    \* the server
    day,        \* the business day
    zs,         \* the Z reports
    held,       \* [Terminals -> BOOLEAN]: its open sale has lines
    charges,    \* [Terminals -> charges today]
    active,     \* the active tills
    switches,   \* Nat: how often they were switched
    \* each browser
    configured, \* the terminal stored in the browser, or Unset
    listed,     \* the active tills last read, or Unset
    changing,   \* "change terminal" was pressed
    mode,       \* "X", "Z" or Unset: the dialog that is open
    preview,    \* the live summary of the dialog, or Unset
    closed,     \* the report this dialog got, or Unset
    closeKey,   \* the key of the closing being tried, or Unset
    closeError, \* the text of an error is shown
    keysDrawn,  \* Nat: keys drawn
    \* between them
    closing,    \* the closing each browser has in flight, or Unset
    tried       \* history: keys this dialog has tried

shopVars == <<day, zs, held, charges, active, switches>>
dialog == <<mode, preview, closed, closeKey, closeError, tried>>
closingVars == <<shopVars, configured, listed, changing, dialog, keysDrawn, closing>>

Warehouses == {WarehouseOf[t] : t \in Terminals}
Days == 1..LastDay
CloseKeys == 1..LastClosing
Reports == [warehouse: Warehouses, day: Days, key: CloseKeys, number: Nat, sales: Nat]
Summaries == [warehouse: Warehouses, final: Reports \cup {Unset}, open: BOOLEAN]
Stages == {"sent", "read", "done", "refused", "lost"}
Closings == [warehouse: Warehouses, key: CloseKeys, day: Days, stage: Stages, sales: Nat, got: Reports \cup {Unset}]

ClosingAssumption ==
    /\ IsFiniteSet(Terminals)
    /\ LastDay \in Nat \ {0}
    /\ {LastClosing, LastCharge, LastSwitch} \subseteq Nat
    /\ Unset \notin Terminals \cup Nat \cup Warehouses
    /\ Unset \notin Reports

(* The server, the browsers and the closings in flight have their types.   *)
ClosingTypeOK ==
    /\ day \in Days
    /\ zs \subseteq Reports
    /\ held \in [Terminals -> BOOLEAN]
    /\ charges \in [Terminals -> Nat]
    /\ active \subseteq Terminals
    /\ switches \in 0..LastSwitch
    /\ configured \in [Browsers -> Terminals \cup {Unset}]
    /\ listed \in [Browsers -> (SUBSET Terminals) \cup {Unset}]
    /\ {changing, closeError} \subseteq [Browsers -> BOOLEAN]
    /\ mode \in [Browsers -> {"X", "Z", Unset}]
    /\ preview \in [Browsers -> Summaries \cup {Unset}]
    /\ closed \in [Browsers -> Reports \cup {Unset}]
    /\ closing \in [Browsers -> Closings \cup {Unset}]
    /\ closeKey \in [Browsers -> CloseKeys \cup {Unset}]
    /\ keysDrawn \in 0..LastClosing
    /\ tried \in [Browsers -> SUBSET CloseKeys]

\* The tills are chosen at install: each browser starts with a list unread.
ClosingInit ==
    /\ day = 1
    /\ zs = {}
    /\ held = [t \in Terminals |-> FALSE]
    /\ charges = [t \in Terminals |-> 0]
    /\ active = Terminals
    /\ switches = 0
    /\ configured = [b \in Browsers |-> Unset]
    /\ listed = [b \in Browsers |-> Unset]
    /\ changing = [b \in Browsers |-> TRUE]
    /\ mode = [b \in Browsers |-> Unset]
    /\ preview = [b \in Browsers |-> Unset]
    /\ closed = [b \in Browsers |-> Unset]
    /\ closeKey = [b \in Browsers |-> Unset]
    /\ closeError = [b \in Browsers |-> FALSE]
    /\ keysDrawn = 0
    /\ closing = [b \in Browsers |-> Unset]
    /\ tried = [b \in Browsers |-> {}]

-----------------------------------------------------------------------------
(* The server *)

ReportOf(w, d) == {z \in zs : z.warehouse = w /\ z.day = d}
DayOpen(w) == ReportOf(w, day) = {}
OpenSales(w) == {t \in Terminals : WarehouseOf[t] = w /\ held[t]}
TillsOf(w) == {t \in Terminals : WarehouseOf[t] = w}
SalesOf(w) == SumFunctionOnSet(charges, TillsOf(w))

\* The accounting cut: one closing at a time in a warehouse, and no charge in it.
Cut(w) == \A b \in Browsers : closing[b] # Unset => ~(closing[b].stage = "read" /\ closing[b].warehouse = w)

Answer(b, stage, z) == closing' = [closing EXCEPT ![b].stage = stage, ![b].got = z]

\* close, until the sales still open are read
ReadDay(b) ==
    /\ closing[b] # Unset /\ closing[b].stage = "sent"
    /\ LET w == closing[b].warehouse
           claimed == {z \in zs : z.key = closing[b].key}
       IN  IF claimed # {}
           THEN \E z \in claimed : Answer(b, IF z.warehouse = w THEN "done" ELSE "refused", z)
           ELSE /\ Cut(w)
                /\ IF OpenSales(w) # {} \/ ~DayOpen(w) THEN Answer(b, "refused", Unset)
                   ELSE closing' = [closing EXCEPT ![b].stage = "read", ![b].day = day,
                                           ![b].sales = SalesOf(w)]
    /\ UNCHANGED <<shopVars, configured, listed, changing, dialog, keysDrawn>>

\* close, from the report to the commit
Commit(b) ==
    /\ closing[b] # Unset /\ closing[b].stage = "read"
    /\ LET r == closing[b]
           z == [warehouse |-> r.warehouse, day |-> r.day, key |-> r.key, sales |-> r.sales,
                 number |-> Cardinality({y \in zs : y.warehouse = r.warehouse}) + 1]
       IN  /\ zs' = zs \cup {z}
           /\ Answer(b, "done", z)
    /\ UNCHANGED <<day, held, charges, active, switches, configured, listed, changing, dialog, keysDrawn>>

\* The closing or its answer is lost on the way.
LoseClosing(b) ==
    /\ closing[b] # Unset /\ closing[b].stage \in {"sent", "done"}
    /\ Answer(b, "lost", Unset)
    /\ UNCHANGED <<shopVars, configured, listed, changing, dialog, keysDrawn>>

\* A line of a sale needs neither the cut nor the day open.
HoldLine(b) ==
    /\ configured[b] # Unset /\ ~changing[b] /\ mode[b] = Unset
    /\ configured[b] \in active
    /\ held' = [held EXCEPT ![configured[b]] = TRUE]
    /\ UNCHANGED <<day, zs, charges, active, switches, configured, listed, changing, dialog, keysDrawn, closing>>

\* Mutant: a charge does not wait for the cut.
Charge_NoCut(b) ==
    LET t == configured[b] IN
    /\ t # Unset /\ ~changing[b] /\ mode[b] = Unset
    /\ t \in active
    /\ held[t]
    /\ DayOpen(WarehouseOf[t])
    /\ SalesOf(WarehouseOf[t]) < LastCharge
    /\ held' = [held EXCEPT ![t] = FALSE]
    /\ charges' = [charges EXCEPT ![t] = @ + 1]
    /\ UNCHANGED <<day, zs, active, switches, configured, listed, changing, dialog, keysDrawn, closing>>

\* checkout: under the cut, with the day open
Charge(b) ==
    LET t == configured[b] IN
    /\ t # Unset /\ ~changing[b] /\ mode[b] = Unset
    /\ t \in active
    /\ held[t]
    /\ Cut(WarehouseOf[t])
    /\ DayOpen(WarehouseOf[t])
    /\ SalesOf(WarehouseOf[t]) < LastCharge
    /\ held' = [held EXCEPT ![t] = FALSE]
    /\ charges' = [charges EXCEPT ![t] = @ + 1]
    /\ UNCHANGED <<day, zs, active, switches, configured, listed, changing, dialog, keysDrawn, closing>>

\* Administration activates or deactivates a till.
Switch(t) ==
    /\ switches < LastSwitch
    /\ active' = IF t \in active THEN active \ {t} ELSE active \cup {t}
    /\ switches' = switches + 1
    /\ UNCHANGED <<day, zs, held, charges, configured, listed, changing, dialog, keysDrawn, closing>>

Midnight ==
    /\ day < LastDay
    /\ \A w \in Warehouses : Cut(w)
    /\ day' = day + 1
    /\ charges' = [t \in Terminals |-> 0]
    /\ UNCHANGED <<zs, held, active, switches, configured, listed, changing, dialog, keysDrawn, closing>>

-----------------------------------------------------------------------------
(* The browser *)

Selected(b) == IF listed[b] # Unset /\ configured[b] \in listed[b] THEN configured[b] ELSE Unset
SelectionOpen(b) == changing[b] \/ Selected(b) = Unset

\* The dialog is mounted while the header is: not over the choice of a till.
Dialog(b) == mode[b] # Unset /\ ~SelectionOpen(b)

\* Its own state goes with it, the mode stays with the header.
Remount(b) ==
    /\ preview' = [preview EXCEPT ![b] = Unset]
    /\ closed' = [closed EXCEPT ![b] = Unset]
    /\ closeKey' = [closeKey EXCEPT ![b] = Unset]
    /\ closeError' = [closeError EXCEPT ![b] = FALSE]
    /\ tried' = [tried EXCEPT ![b] = {}]
    /\ closing' = [closing EXCEPT ![b] = Unset]

KeepDialog(b) ==
    IF SelectionOpen(b)' /\ ~SelectionOpen(b) THEN Remount(b)
    ELSE UNCHANGED <<preview, closed, closeKey, closeError, tried, closing>>

\* A closing that left its dialog goes on: the model lets go of it between the
\* steps of the server only.
Settled(b) == IF closing[b] = Unset THEN TRUE ELSE closing[b].stage # "read"

\* The list is read again every ten seconds.
Poll(b) ==
    /\ listed[b] # active
    /\ Settled(b)
    /\ listed' = [listed EXCEPT ![b] = active]
    /\ UNCHANGED <<shopVars, configured, changing, mode, keysDrawn>>
    /\ KeepDialog(b)

SelectTerminal(b, t) ==
    /\ SelectionOpen(b)
    /\ listed[b] # Unset /\ t \in listed[b]
    /\ configured' = [configured EXCEPT ![b] = t]
    /\ changing' = [changing EXCEPT ![b] = FALSE]
    /\ UNCHANGED <<shopVars, listed, dialog, keysDrawn, closing>>

\* The name of the till in the header, and "Mantener ..."
ChangeTerminal(b) ==
    /\ Selected(b) # Unset
    /\ mode[b] = Unset
    /\ changing' = [changing EXCEPT ![b] = ~@]
    /\ UNCHANGED <<shopVars, configured, listed, dialog, keysDrawn, closing>>

\* "Resumen X" and "Cierre Z"
OpenDialog(b, m) ==
    /\ ~SelectionOpen(b)
    /\ mode[b] = Unset
    /\ mode' = [mode EXCEPT ![b] = m]
    /\ preview' = [preview EXCEPT ![b] = Unset]
    /\ closed' = [closed EXCEPT ![b] = Unset]
    /\ closeKey' = [closeKey EXCEPT ![b] = Unset]
    /\ closeError' = [closeError EXCEPT ![b] = FALSE]
    /\ tried' = [tried EXCEPT ![b] = {}]
    /\ UNCHANGED <<shopVars, configured, listed, changing, keysDrawn, closing>>

\* The live totals of the day and its final Z, if it has one
ReadPreview(b) ==
    /\ Dialog(b)
    /\ preview[b] = Unset
    /\ LET w == WarehouseOf[Selected(b)] IN
       \E final \in IF DayOpen(w) THEN {Unset} ELSE ReportOf(w, day) :
          preview' = [preview EXCEPT ![b] =
                        [warehouse |-> w, final |-> final, open |-> OpenSales(w) # {}]]
    /\ UNCHANGED <<shopVars, configured, listed, changing, mode, closed, closeKey, closeError, tried, keysDrawn, closing>>

Report(b) == IF closed[b] # Unset THEN closed[b]
             ELSE IF preview[b] = Unset THEN Unset ELSE preview[b].final

\* "Emitir Z definitiva e imprimir": the key of an attempt is kept.
\* Mutant: each press draws a key.
Finalize_Fresh(b) ==
    /\ Dialog(b) /\ mode[b] = "Z"
    /\ preview[b] # Unset /\ Report(b) = Unset /\ ~preview[b].open
    /\ closing[b] = Unset
    /\ keysDrawn < LastClosing
    /\ keysDrawn' = keysDrawn + 1
    /\ closeKey' = [closeKey EXCEPT ![b] = keysDrawn + 1]
    /\ tried' = [tried EXCEPT ![b] = @ \cup {keysDrawn + 1}]
    /\ closing' = [closing EXCEPT ![b] = [warehouse |-> WarehouseOf[Selected(b)], key |-> keysDrawn + 1,
                                  day |-> day, stage |-> "sent", sales |-> 0, got |-> Unset]]
    /\ UNCHANGED <<shopVars, configured, listed, changing, mode, preview, closed, closeError>>

Finalize(b) ==
    /\ Dialog(b) /\ mode[b] = "Z"
    /\ preview[b] # Unset /\ Report(b) = Unset /\ ~preview[b].open
    /\ closing[b] = Unset
    /\ \E key \in IF closeKey[b] # Unset THEN {closeKey[b]} ELSE {keysDrawn + 1} \cap CloseKeys :
          /\ closeKey' = [closeKey EXCEPT ![b] = key]
          /\ tried' = [tried EXCEPT ![b] = @ \cup {key}]
          /\ keysDrawn' = IF key > keysDrawn THEN key ELSE keysDrawn
          /\ closing' = [closing EXCEPT ![b] = [warehouse |-> WarehouseOf[Selected(b)], key |-> key,
                                        day |-> day, stage |-> "sent", sales |-> 0, got |-> Unset]]
    /\ UNCHANGED <<shopVars, configured, listed, changing, mode, preview, closed, closeError>>

\* The answer: the dialog shows the report and prints it.
Closed(b) ==
    /\ closing[b] # Unset /\ closing[b].stage = "done"
    /\ closeKey' = [closeKey EXCEPT ![b] = Unset]
    /\ closed' = [closed EXCEPT ![b] = closing[b].got]
    /\ closeError' = [closeError EXCEPT ![b] = FALSE]
    /\ closing' = [closing EXCEPT ![b] = Unset]
    /\ UNCHANGED <<shopVars, configured, listed, changing, mode, preview, keysDrawn, tried>>

NotClosed(b) ==
    /\ closing[b] # Unset /\ closing[b].stage \in {"refused", "lost"}
    /\ closeError' = [closeError EXCEPT ![b] = TRUE]
    /\ closing' = [closing EXCEPT ![b] = Unset]
    /\ UNCHANGED <<shopVars, configured, listed, changing, mode, preview, closed, closeKey, keysDrawn, tried>>

\* "Seguir vendiendo" and "Volver al TPV": the dialog goes, the closing goes on.
LeaveDialog(b) ==
    /\ Dialog(b)
    /\ Settled(b)
    /\ mode' = [mode EXCEPT ![b] = Unset]
    /\ Remount(b)
    /\ UNCHANGED <<shopVars, configured, listed, changing, keysDrawn>>

-----------------------------------------------------------------------------
ClosingNext ==
    \/ \E b \in Browsers :
          \/ ReadDay(b) \/ Commit(b) \/ LoseClosing(b)
          \/ HoldLine(b) \/ Charge(b)
          \/ Poll(b) \/ ChangeTerminal(b)
          \/ \E t \in Terminals : SelectTerminal(b, t)
          \/ \E m \in {"X", "Z"} : OpenDialog(b, m)
          \/ ReadPreview(b) \/ Finalize(b) \/ Closed(b) \/ NotClosed(b) \/ LeaveDialog(b)
    \/ \E t \in Terminals : Switch(t)
    \/ Midnight

ClosingSpec == ClosingInit /\ [][ClosingNext]_closingVars

\* The list is polled; a request settles and its answer is handled.
ClosingFairness ==
    \A b \in Browsers :
        /\ WF_closingVars(Poll(b))
        /\ WF_closingVars(ReadDay(b) \/ Commit(b))
        /\ WF_closingVars(Closed(b) \/ NotClosed(b))
ClosingFairSpec == ClosingSpec /\ ClosingFairness

-----------------------------------------------------------------------------
(* However many browsers close, retry and lose answers, a warehouse has one *)
(* Z per business day and their numbers have no gap (close under the cut).  *)
OneZPerDay ==
    /\ \A y, z \in zs : (y.warehouse = z.warehouse /\ y.day = z.day) => y = z
    /\ \A z \in zs : z.number \in 1..Cardinality({y \in zs : y.warehouse = z.warehouse})
    /\ \A y, z \in zs : (y.warehouse = z.warehouse /\ y.number = z.number) => y = z

(* The Z counts every charge of its day: none is committed between the      *)
(* totals and the Z, nor after it (the accounting cut of close and checkout).*)
ZCountsTheDay == \A z \in zs : z.day = day => z.sales = SalesOf(z.warehouse)

(* The days of a warehouse add up, with every row and request of its type.  *)
DayAddsUp == ClosingTypeOK /\ OneZPerDay /\ ZCountsTheDay

(* A dialog whose closing issued the Z of the day is never told that the    *)
(* day is closed, whatever answer was lost (closeAttemptRef).               *)
RefusalIsTrue ==
    \A b \in Browsers :
        (NotClosed(b) /\ closing[b].stage = "refused") => ~\E z \in zs : z.key \in tried[b] /\ z.day = day
RetryGetsItsZ == [][RefusalIsTrue]_closingVars

(* A browser whose till was deactivated stops selling from it, within a poll *)
(* of the list (PosTerminalProvider).                                       *)
DisabledTillStops ==
    \A b \in Browsers, t \in Terminals :
        (configured[b] = t /\ t \notin active) ~>
            (SelectionOpen(b) \/ t \in active \/ configured[b] # t)

(* "Emitiendo…" ends: no closing stays in flight.                           *)
ClosingSettles == \A b \in Browsers : (closing[b] # Unset) ~> (closing[b] = Unset)
=============================================================================
