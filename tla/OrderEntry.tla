---------------------------- MODULE OrderEntry ----------------------------
(***************************************************************************)
(* The form of a new purchase order (frontend/src/pages/admin/PurchasingPage *)
(* and frontend/src/features/purchasing): lines are entered one by one,      *)
(* each with an estimate of its price that the server works out a moment    *)
(* after its cost was typed, and are sent together as one order.            *)
(* An estimate is the product and the cost it was worked out for.           *)
(***************************************************************************)
EXTENDS Naturals, Sequences

CONSTANTS
    Articles,
    CostsTyped,     \* the costs that can be typed; 0 is what an empty form says
    Losses,         \* requests and answers may be lost
    MostRows,       \* bound: rows of the order
    LastAsk,        \* bound: estimates asked for
    LastStroke,     \* bound: edits
    LastOpening,    \* bound: times the form is opened
    MostOrders,     \* bound: orders created
    Unset

VARIABLES
    opening,    \* Nat: the form on screen, or 0
    openings,   \* Nat: times it was opened
    entry,      \* the line that is being entered
    table,      \* Seq: the lines of the order, as the table shows them
    asks,       \* estimates that are being worked out
    asked,      \* Nat: estimates asked for
    creating,   \* the request that creates the order, or Unset
    orders,     \* Seq: the orders that were created
    strokes     \* Nat

entryVars == <<opening, openings, entry, table, asks, asked, creating, orders, strokes>>
page == <<opening, openings, creating, orders>>

Maybe(S) == S \cup {Unset}
Estimates == [product: Articles, cost: CostsTyped]
Estimate(p, c) == [product |-> p, cost |-> c]

\* `due`: the pause after an edit runs; `ask`: the request whose answer is
\* awaited, or 0; `failed`: the last one was not answered.
Entries == [product: Maybe(Articles), cost: Maybe(CostsTyped), shown: Maybe(Estimates),
            due: BOOLEAN, ask: 0..LastAsk, failed: BOOLEAN]
StagedLines == [product: Articles, cost: Maybe(CostsTyped), estimate: Maybe(Estimates),
                shown: Maybe(Estimates), due: BOOLEAN, ask: 0..LastAsk, failed: BOOLEAN]
Contents == UNION {[1..n -> Estimates] : n \in 1..MostRows}

\* The request that creates an order, and whether it is being served.
Creations == [opening: 1..LastOpening, lines: Contents, step: {"sent", "done"}]

OrderEntryAssumption ==
    /\ {0, 1} \subseteq CostsTyped
    /\ {MostRows, LastAsk, LastStroke, LastOpening, MostOrders} \subseteq Nat
    /\ Losses \in BOOLEAN
    /\ Unset \notin CostsTyped \cup Articles /\ Unset \notin Creations

(* The form, its requests and the orders have their types.                 *)
EntryTypeOK ==
    /\ {opening, openings} \subseteq 0..LastOpening
    /\ entry \in Entries
    /\ Len(table) <= MostRows /\ \A i \in DOMAIN table : table[i] \in StagedLines
    /\ asks \subseteq [seq: 1..LastAsk, row: 0..MostRows, for: Estimates]
    /\ asked \in 0..LastAsk
    /\ creating \in Maybe(Creations)
    /\ \A i \in DOMAIN orders : orders[i] \in [opening: 1..LastOpening, lines: Contents]
    /\ strokes \in 0..LastStroke

EmptyEntry(shown, ask) == [product |-> Unset, cost |-> 0, shown |-> shown, due |-> FALSE,
                           ask |-> ask, failed |-> FALSE]

EntryInit ==
    /\ opening = 0 /\ openings = 0
    /\ entry = EmptyEntry(Unset, 0)
    /\ table = <<>>
    /\ asks = {} /\ asked = 0
    /\ creating = Unset
    /\ orders = <<>>
    /\ strokes = 0

Edit == opening # 0 /\ strokes < LastStroke /\ strokes' = strokes + 1

-----------------------------------------------------------------------------
(* The page *)

Open ==
    /\ opening = 0
    /\ openings < LastOpening
    /\ openings' = openings + 1
    /\ opening' = openings'
    /\ UNCHANGED <<entry, table, asks, asked, creating, orders, strokes>>

\* What was entered, and the answers to come, go with the form.
Leave ==
    /\ opening' = 0
    /\ entry' = EmptyEntry(Unset, 0)
    /\ table' = <<>>
    /\ asks' = {}
    /\ UNCHANGED <<openings, asked, strokes>>

Cancel ==
    /\ opening # 0
    /\ Leave
    /\ UNCHANGED <<creating, orders>>

-----------------------------------------------------------------------------
(* The line that is being entered *)

\* Its product's cost, tax and base unit come with it.
Choose(p) ==
    /\ Edit
    /\ entry.product = Unset
    /\ entry' = [entry EXCEPT !.product = p, !.cost = 1, !.due = TRUE]
    /\ UNCHANGED <<page, table, asks, asked>>

\* Typing in the search forgets the product; the cost stays.
Search ==
    /\ Edit
    /\ entry.product # Unset
    /\ entry' = [entry EXCEPT !.product = Unset, !.due = FALSE]
    /\ UNCHANGED <<page, table, asks, asked>>

TypeCost(c) ==
    /\ Edit
    /\ c # entry.cost
    /\ entry' = [entry EXCEPT !.cost = c, !.due = entry.product # Unset /\ c # Unset]
    /\ UNCHANGED <<page, table, asks, asked>>

\* The estimate on screen goes with the line, whatever it was asked for, and
\* stays in the empty form; the row asks for its own.
AddRow ==
    /\ Edit
    /\ entry.product # Unset /\ entry.cost # Unset
    /\ Len(table) < MostRows
    /\ table' = Append(table, [product |-> entry.product, cost |-> entry.cost, estimate |-> entry.shown,
                              shown |-> entry.shown, due |-> TRUE, ask |-> 0, failed |-> FALSE])
    /\ entry' = [EmptyEntry(entry.shown, entry.ask) EXCEPT !.failed = entry.failed]
    /\ UNCHANGED <<page, asks, asked>>

-----------------------------------------------------------------------------
(* The rows *)

\* Another cost drops the estimate the row came with; what the row shows is
\* dropped only if that one was still there, or the cost cannot be read.
Corrected(row, c) ==
    [row EXCEPT !.cost = c, !.estimate = Unset, !.due = c # Unset,
        !.shown = IF c = Unset \/ row.estimate # Unset THEN Unset ELSE @]

CorrectCost(i, c) ==
    /\ Edit
    /\ c # table[i].cost
    /\ table' = [table EXCEPT ![i] = Corrected(@, c)]
    /\ UNCHANGED <<page, entry, asks, asked>>

Fresh(row) == [row EXCEPT !.shown = row.estimate, !.due = row.cost # Unset, !.ask = 0, !.failed = FALSE]

\* A row is known by its product and its place: one that takes the place of
\* another of the same product takes over what that one was showing.
Moved(row, to) ==
    IF row.product # to.product THEN Fresh(row)
    ELSE [row EXCEPT
            !.shown = CASE row.cost = Unset /\ to.cost # Unset -> Unset
                        [] row.estimate # to.estimate -> row.estimate
                        [] OTHER -> to.shown,
            !.due = IF row.cost = to.cost THEN to.due ELSE row.cost # Unset,
            !.ask = to.ask, !.failed = to.failed]

RemoveRow(i) ==
    /\ Edit
    /\ table' = [j \in 1..(Len(table) - 1) |-> IF j < i THEN table[j] ELSE Moved(table[j + 1], table[j])]
    /\ UNCHANGED <<page, entry, asks, asked>>

-----------------------------------------------------------------------------
(* The estimates *)

Ask(row, product, cost) ==
    /\ asked < LastAsk
    /\ asked' = asked + 1
    /\ asks' = asks \cup {[seq |-> asked', row |-> row, for |-> Estimate(product, cost)]}

\* A new request forgets what the one before it answered, or will answer.
AskEntry ==
    /\ entry.due
    /\ Ask(0, entry.product, entry.cost)
    /\ entry' = [entry EXCEPT !.due = FALSE, !.ask = asked', !.shown = Unset, !.failed = FALSE]
    /\ UNCHANGED <<page, table, strokes>>

\* A row keeps what it shows while it asks.
AskRow(i) ==
    /\ table[i].due
    /\ Ask(i, table[i].product, table[i].cost)
    /\ table' = [table EXCEPT ![i] = [@ EXCEPT !.due = FALSE, !.ask = asked', !.failed = FALSE]]
    /\ UNCHANGED <<page, entry, strokes>>

\* Only the answer to the last request of a row is heard.
\* Mutant: every answer is heard.
Hears_Every(place, a, i) == a.row = i /\ place.product = a.for.product
Hears(place, a, i) == place.ask = a.seq

Heard(place, a, i, shown, failed) ==
    IF Hears(place, a, i) THEN [place EXCEPT !.shown = shown, !.ask = 0, !.failed = failed] ELSE place

Answer(a) ==
    /\ asks' = asks \ {a}
    /\ entry' = Heard(entry, a, 0, a.for, FALSE)
    /\ table' = [i \in DOMAIN table |-> Heard(table[i], a, i, a.for, FALSE)]
    /\ UNCHANGED <<page, asked, strokes>>

NoAnswer(a) ==
    /\ Losses
    /\ asks' = asks \ {a}
    /\ entry' = Heard(entry, a, 0, Unset, TRUE)
    /\ table' = [i \in DOMAIN table |-> Heard(table[i], a, i, table[i].shown, TRUE)]
    /\ UNCHANGED <<page, asked, strokes>>

-----------------------------------------------------------------------------
(* The order *)

CanCreate == creating = Unset

Create ==
    /\ opening # 0
    /\ CanCreate
    /\ Len(orders) < MostOrders
    /\ table # <<>>
    /\ \A i \in DOMAIN table : table[i].cost # Unset
    /\ creating' = [opening |-> opening, step |-> "sent",
                    lines |-> [i \in DOMAIN table |-> Estimate(table[i].product, table[i].cost)]]
    /\ UNCHANGED <<opening, openings, entry, table, asks, asked, orders, strokes>>

\* All the lines of the order, or no order
ServeOrder ==
    /\ creating # Unset
    /\ creating.step = "sent"
    /\ creating' = [creating EXCEPT !.step = "done"]
    /\ orders' = Append(orders, [opening |-> creating.opening, lines |-> creating.lines])
    /\ UNCHANGED <<opening, openings, entry, table, asks, asked, strokes>>

\* The form that is open is closed, whichever it is.
Created ==
    /\ creating # Unset
    /\ creating.step = "done"
    /\ creating' = Unset
    /\ Leave
    /\ UNCHANGED orders

NotCreated ==
    /\ Losses
    /\ creating # Unset
    /\ creating' = Unset
    /\ UNCHANGED <<opening, openings, entry, table, asks, asked, orders, strokes>>

-----------------------------------------------------------------------------
EntryNext ==
    \/ Open \/ Cancel
    \/ \E p \in Articles : Choose(p)
    \/ Search
    \/ \E c \in Maybe(CostsTyped) : TypeCost(c)
    \/ AddRow
    \/ \E i \in DOMAIN table :
          \/ \E c \in Maybe(CostsTyped) : CorrectCost(i, c)
          \/ RemoveRow(i)
          \/ AskRow(i)
    \/ AskEntry
    \/ \E a \in asks : Answer(a) \/ NoAnswer(a)
    \/ Create \/ ServeOrder \/ Created \/ NotCreated

EntrySpec == EntryInit /\ [][EntryNext]_entryVars

\* Timers run out and the server answers; nobody has to do anything.
EntryFairSpec ==
    /\ EntrySpec
    /\ WF_entryVars(\E i \in DOMAIN table : AskRow(i))
    /\ WF_entryVars(\E a \in asks : Answer(a))

-----------------------------------------------------------------------------
Settled(row) == ~row.due /\ row.ask = 0 /\ ~row.failed /\ row.cost # Unset

Current(row) == Estimate(row.product, row.cost)

(* A row that waits for nothing does not go on showing the estimate for      *)
(* another product or another cost: "no enseñamos una estimación caducada"   *)
(* (CreateOrderForm.tsx updateStagedLine).  The code breaks it: a row that   *)
(* takes the place of another of its product and cost takes up the estimate  *)
(* it came with, which may be for another cost, and does not ask again.      *)
SettledEstimate == \A i \in DOMAIN table :
    Settled(table[i]) => table[i].shown \in {Unset, Current(table[i])}

(* Whatever order costs are typed, rows are removed and answers arrive in, a *)
(* row that waits for nothing shows no estimate, its own, or the one it came *)
(* with and never that of a row that was removed or of an answer overtaken   *)
(* by another (CreateOrderForm.tsx StagedOrderLineRow).                      *)
EstimateIsOwn == \A i \in DOMAIN table :
    Settled(table[i]) => table[i].shown \in {Unset, Current(table[i]), table[i].estimate}

(* An estimate goes stale only when a row is removed, never by an answer, a  *)
(* correction or a new row (CreateOrderForm.tsx).                           *)
StaleOnlyByRemoval ==
    [][SettledEstimate => SettledEstimate' \/ Len(table') < Len(table)]_table

(* Whatever is typed, removed, answered or lost, what a row that waits for   *)
(* nothing shows is its own, and only a removal lets it go stale.           *)
EntryShowsItsOwn == [](EntryTypeOK /\ EstimateIsOwn) /\ StaleOnlyByRemoval

(* If every request is answered, a form that nobody touches any more ends up *)
(* waiting for no estimate (as long as the bound lets it ask).              *)
EstimatesArrive ==
    <>[](asked = LastAsk \/ \A i \in DOMAIN table : table[i].cost = Unset \/ Settled(table[i]))

(* If no answer is lost, what is entered in one form is one order.         *)
OneOrderPerForm == \A i, j \in DOMAIN orders : orders[i].opening = orders[j].opening => i = j
=============================================================================
