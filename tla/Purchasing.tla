---------------------------- MODULE Purchasing ----------------------------
(***************************************************************************)
(* A purchase order from draft to received: the panel of the order and the   *)
(* form of a receipt (frontend/src/features/purchasing) and the handlers     *)
(* (backend/app/purchasing/service.py).  A handler locks the order, or the  *)
(* receipt and the products, so it is one step; requests are served in any  *)
(* order and they, or their answers, may be lost.                           *)
(***************************************************************************)
EXTENDS Naturals, Functions

CONSTANTS
    Clerks,     \* browsers where the order is open
    Lines,      \* the lines the order may have, one product each
    Kinds,      \* bound: the requests that are made
    Largest,    \* bound: the largest quantity of a line, in packages
    Costs,      \* the costs a product may have
    Failures,   \* requests and answers may be lost
    LastRequest,\* bound: requests made
    LastEdit,   \* bound: edits
    None

PurchasingAssumption ==
    /\ Largest \in Nat \ {0}
    /\ {LastRequest, LastEdit} \subseteq Nat
    /\ {1, 2} \subseteq Costs
    /\ Failures \in BOOLEAN
    /\ None \notin Nat \cup [quantity: 1..Largest, cost: Costs, received: 0..Largest] \cup [Lines -> 0..Largest]

VARIABLES
    order,      \* the row of the order and its lines
    receipts,   \* [keys -> the quantities a receipt holds, or None]
    placedBy,   \* the clerk whose key placed the order, or None
    catalog,    \* [Lines -> the cost of the product in the catalogue]
    seen,       \* [Clerks -> the order as last read]
    seenCosts,  \* [Clerks -> the proposals as last read]
    reading,    \* [Clerks -> the queries that are being read again]
    values,     \* [Clerks -> what the rows of the lines say]
    form,       \* [Clerks -> the form of a receipt, or None]
    attempt,    \* [Clerks -> what was sent last and its key, or None]
    selected,   \* [Clerks -> the proposals that are ticked]
    pending,    \* the requests that were sent and not answered
    made,       \* Nat: requests made
    edits       \* Nat

server == <<order, receipts, placedBy, catalog>>
rows == <<seen, seenCosts, reading, values, selected>>
receiptForm == <<form, attempt>>
vars == <<server, rows, receiptForm, pending, made, edits>>

Or(S) == S \cup {None}
Keys == 1..LastRequest
Statuses == {"DRAFT", "ORDERED", "PARTIALLY_RECEIVED", "RECEIVED", "CANCELLED"}

\* What the row of a line lets type
Values == [quantity: 1..Largest, cost: Costs]
OrderLines == [quantity: 1..Largest, cost: Costs, received: 0..Largest]
Orders == [status: Statuses, lines: [Lines -> Or(OrderLines)]]
Quantities == [Lines -> 0..Largest]

AllKinds == {"update", "add", "remove", "place", "cancel", "receive", "apply"}
Requests == [kind: AllKinds, clerk: Clerks, key: Keys, line: Or(Lines), values: Or(Values),
             content: Or(Quantities), expected: Or([Lines -> Or(Costs)]),
             step: {"sent", "done", "refused", "conflict"}]

(* The order, the panels and the requests have their types.                *)
TypeOK ==
    /\ order \in Orders
    /\ receipts \in [Keys -> Or(Quantities)]
    /\ placedBy \in Or(Clerks)
    /\ catalog \in [Lines -> Costs]
    /\ seen \in [Clerks -> Orders]
    /\ seenCosts \in [Clerks -> [Lines -> Or(Costs)]]
    /\ reading \in [Clerks -> SUBSET {"orders", "receipts"}]
    /\ values \in [Clerks -> [Lines -> Or(Values)]]
    /\ form \in [Clerks -> Or([typed: Quantities, remaining: Quantities])]
    /\ attempt \in [Clerks -> Or([content: Quantities, key: Keys])]
    /\ selected \in [Clerks -> SUBSET Lines]
    /\ pending \subseteq Requests
    /\ made \in 0..LastRequest
    /\ edits \in 0..LastEdit

ValuesOf(line) == IF line = None THEN None ELSE [quantity |-> line.quantity, cost |-> line.cost]
Remaining(o, l) == IF o.lines[l] = None THEN 0 ELSE o.lines[l].quantity - o.lines[l].received
Existing(o) == {l \in Lines : o.lines[l] # None}

\* The received costs that differ from the catalogue's, with the latter
Proposals == [l \in Lines |->
    IF order.lines[l] = None THEN None
    ELSE IF order.lines[l].received > 0 /\ order.lines[l].cost # catalog[l] THEN catalog[l] ELSE None]

Init ==
    /\ \E q \in 1..Largest, other \in Or({[quantity |-> 1, cost |-> 1, received |-> 0]}) :
          order = [status |-> "DRAFT",
                   lines |-> [l \in Lines |-> IF l = 1 THEN [quantity |-> q, cost |-> 2, received |-> 0]
                                              ELSE other]]
    /\ receipts = [k \in Keys |-> None]
    /\ placedBy = None
    /\ catalog = [l \in Lines |-> 1]
    /\ seen = [c \in Clerks |-> order]
    /\ seenCosts = [c \in Clerks |-> Proposals]
    /\ reading = [c \in Clerks |-> {}]
    /\ values = [c \in Clerks |-> [l \in Lines |-> ValuesOf(order.lines[l])]]
    /\ form = [c \in Clerks |-> None]
    /\ attempt = [c \in Clerks |-> None]
    /\ selected = [c \in Clerks |-> {}]
    /\ pending = {}
    /\ made = 0
    /\ edits = 0

-----------------------------------------------------------------------------
(* The queries *)

Receivable(o) == o.status \in {"ORDERED", "PARTIALLY_RECEIVED"}

\* A row whose line has changed forgets what was typed; the form of a
\* receipt goes with an order that cannot be received.
ReadOrder(c) ==
    /\ seen' = [seen EXCEPT ![c] = order]
    /\ reading' = [reading EXCEPT ![c] = @ \ {"orders"}]
    /\ <<seen', reading'>> # <<seen, reading>>
    /\ values' = [values EXCEPT ![c] = [l \in Lines |->
          IF order.lines[l] = seen[c].lines[l] THEN @[l] ELSE ValuesOf(order.lines[l])]]
    /\ form' = [form EXCEPT ![c] = IF Receivable(order) THEN @ ELSE None]
    /\ UNCHANGED <<server, seenCosts, selected, attempt, pending, made, edits>>

\* Ticks stay on the proposals that are still there.
ReadReceipts(c) ==
    /\ seenCosts' = [seenCosts EXCEPT ![c] = Proposals]
    /\ reading' = [reading EXCEPT ![c] = @ \ {"receipts"}]
    /\ <<seenCosts', reading'>> # <<seenCosts, reading>>
    /\ selected' = [selected EXCEPT ![c] = {l \in @ : Proposals[l] # None}]
    /\ UNCHANGED <<server, seen, values, receiptForm, pending, made, edits>>

-----------------------------------------------------------------------------
(* The lines of a draft *)

Send(c, kind, l, v, content, expected, key) ==
    /\ kind \in Kinds
    /\ made < LastRequest
    /\ made' = made + 1
    /\ pending' = pending \cup {[kind |-> kind, clerk |-> c, key |-> key, line |-> l, values |-> v,
                                 content |-> content, expected |-> expected, step |-> "sent"]}
    /\ UNCHANGED <<server, rows, edits>>

Busy(c, kind) == \E r \in pending : r.clerk = c /\ r.kind = kind

TypeLine(c, l, v) ==
    /\ seen[c].status = "DRAFT"
    /\ values[c][l] # None
    /\ v # values[c][l]
    /\ edits < LastEdit
    /\ edits' = edits + 1
    /\ values' = [values EXCEPT ![c][l] = v]
    /\ UNCHANGED <<server, seen, seenCosts, reading, selected, receiptForm, pending, made>>

\* On leaving a field, if the row differs from the line as last read
Blur(c, l) ==
    /\ seen[c].status = "DRAFT"
    /\ values[c][l] # None
    /\ values[c][l] # ValuesOf(seen[c].lines[l])
    /\ Send(c, "update", l, values[c][l], None, None, made + 1)
    /\ UNCHANGED receiptForm

AddLine(c, l) ==
    /\ seen[c].status = "DRAFT"
    /\ seen[c].lines[l] = None
    /\ ~Busy(c, "add")
    /\ Send(c, "add", l, [quantity |-> 1, cost |-> 1], None, None, made + 1)
    /\ UNCHANGED receiptForm

RemoveLine(c, l) ==
    /\ seen[c].status = "DRAFT"
    /\ seen[c].lines[l] # None
    /\ ~Busy(c, "remove")
    /\ Send(c, "remove", l, None, None, None, made + 1)
    /\ UNCHANGED receiptForm

\* "Realizar pedido": the same key until it succeeds
Place(c) ==
    /\ seen[c].status = "DRAFT"
    /\ Existing(seen[c]) # {}
    /\ ~Busy(c, "place")
    /\ Send(c, "place", None, None, None, None, made + 1)
    /\ UNCHANGED receiptForm

CancelOrder(c) ==
    /\ seen[c].status \in {"DRAFT", "ORDERED"}
    /\ ~Busy(c, "cancel")
    /\ Send(c, "cancel", None, None, None, None, made + 1)
    /\ UNCHANGED receiptForm

-----------------------------------------------------------------------------
(* The form of a receipt *)

Touch(c, f, a) ==
    /\ form' = [form EXCEPT ![c] = f]
    /\ attempt' = [attempt EXCEPT ![c] = a]
    /\ UNCHANGED <<server, rows, pending, made>>

\* It proposes all that remains, as last read.
OpenReceipt(c) ==
    /\ Receivable(seen[c])
    /\ form[c] = None
    /\ LET left == [l \in Lines |-> Remaining(seen[c], l)] IN
       Touch(c, [typed |-> left, remaining |-> left], attempt[c])
    /\ UNCHANGED edits

TypeReceipt(c, l, q) ==
    /\ form[c] # None
    /\ q # form[c].typed[l]
    /\ edits < LastEdit
    /\ edits' = edits + 1
    /\ Touch(c, [form[c] EXCEPT !.typed[l] = q], attempt[c])

CloseReceipt(c) ==
    /\ form[c] # None
    /\ Touch(c, None, None)
    /\ UNCHANGED edits

\* "Registrar recepción": what was sent last goes again under its key.
Submit(c) ==
    /\ form[c] # None
    /\ ~Busy(c, "receive")
    /\ \A l \in Lines : form[c].typed[l] <= form[c].remaining[l]
    /\ \E l \in Lines : form[c].typed[l] > 0
    /\ LET content == form[c].typed
           key == IF attempt[c] = None THEN made + 1
                  ELSE IF attempt[c].content = content THEN attempt[c].key ELSE made + 1 IN
       /\ Send(c, "receive", None, None, content, None, key)
       /\ attempt' = [attempt EXCEPT ![c] = [content |-> content, key |-> key]]
    /\ UNCHANGED form

-----------------------------------------------------------------------------
(* Received costs *)

Select(c, l) ==
    /\ seenCosts[c][l] # None
    /\ edits < LastEdit
    /\ edits' = edits + 1
    /\ selected' = [selected EXCEPT ![c] = IF l \in @ THEN @ \ {l} ELSE @ \cup {l}]
    /\ UNCHANGED <<server, seen, seenCosts, reading, values, receiptForm, pending, made>>

Apply(c) ==
    /\ selected[c] # {}
    /\ ~Busy(c, "apply")
    /\ Send(c, "apply", None, None, None,
            [l \in Lines |-> IF l \in selected[c] THEN seenCosts[c][l] ELSE None], made + 1)
    /\ UNCHANGED receiptForm

\* The cost of a product is changed elsewhere.
ChangeCost(l, cost) ==
    /\ "apply" \in Kinds
    /\ edits < LastEdit
    /\ edits' = edits + 1
    /\ catalog[l] # cost
    /\ catalog' = [catalog EXCEPT ![l] = cost]
    /\ UNCHANGED <<order, receipts, placedBy, rows, receiptForm, pending, made>>

-----------------------------------------------------------------------------
(* The handlers *)

\* Mutant: the expected cost is not compared.
Accepts_AnyCost(r) ==
    IF r.kind = "apply" THEN TRUE
    ELSE CASE r.kind = "place" -> order.status = "DRAFT"
           [] r.kind = "receive" -> Receivable(order) /\ \A l \in Lines : r.content[l] <= Remaining(order, l)
           [] OTHER -> FALSE

Accepts(r) ==
    CASE r.kind = "add" -> order.status = "DRAFT" /\ order.lines[r.line] = None
      [] r.kind \in {"update", "remove"} -> order.status = "DRAFT" /\ order.lines[r.line] # None
      [] r.kind = "place" -> order.status = "DRAFT" /\ Existing(order) # {}
      [] r.kind = "cancel" -> order.status \in {"DRAFT", "ORDERED"}
      [] r.kind = "receive" -> Receivable(order) /\ \A l \in Lines : r.content[l] <= Remaining(order, l)
      [] r.kind = "apply" -> \A l \in Lines :
            r.expected[l] # None => catalog[l] \in {order.lines[l].cost, r.expected[l]}

NewLine(v) == [quantity |-> v.quantity, cost |-> v.cost, received |-> 0]

\* Quantities are added to their lines and the status follows them all.
Received(content) ==
    LET lines == [l \in Lines |-> IF order.lines[l] = None THEN None
                                  ELSE [order.lines[l] EXCEPT !.received = @ + content[l]]] IN
    [status |-> IF \A l \in Existing(order) : lines[l].received >= lines[l].quantity
                THEN "RECEIVED" ELSE "PARTIALLY_RECEIVED",
     lines |-> lines]

Written(r) ==
    CASE r.kind \in {"add", "update"} -> [order EXCEPT !.lines[r.line] = NewLine(r.values)]
      [] r.kind = "remove" -> [order EXCEPT !.lines[r.line] = None]
      [] r.kind = "place"  -> [order EXCEPT !.status = "ORDERED"]
      [] r.kind = "cancel" -> [order EXCEPT !.status = "CANCELLED"]
      [] r.kind = "receive" -> Received(r.content)
      [] r.kind = "apply"  -> order

\* Mutant: the key of a receipt is not looked up.
Replayed_NotReceipts(r) == r.kind = "place" /\ placedBy = r.clerk

\* A key that has done its work answers with what it did.
Replayed(r) ==
    \/ r.kind = "place" /\ placedBy = r.clerk
    \/ r.kind = "receive" /\ receipts[r.key] # None

Answered(r, step) == pending' = (pending \ {r}) \cup {[r EXCEPT !.step = step]}

Serve(r) ==
    /\ r.step = "sent"
    /\ IF Replayed(r)
       THEN Answered(r, "done") /\ UNCHANGED server
       ELSE IF ~Accepts(r)
       THEN Answered(r, IF r.kind = "apply" THEN "conflict" ELSE "refused") /\ UNCHANGED server
       ELSE /\ Answered(r, "done")
            /\ order' = Written(r)
            /\ receipts' = IF r.kind = "receive" THEN [receipts EXCEPT ![r.key] = r.content] ELSE receipts
            /\ placedBy' = IF r.kind = "place" THEN r.clerk ELSE placedBy
            /\ catalog' = IF r.kind # "apply" THEN catalog
                          ELSE [l \in Lines |-> IF r.expected[l] = None THEN catalog[l]
                                                ELSE order.lines[l].cost]
    /\ UNCHANGED <<rows, receiptForm, made, edits>>

-----------------------------------------------------------------------------
(* The answers *)

\* What a success reads again; a receipt closes its form and forgets its key.
Succeed(r) ==
    LET c == r.clerk IN
    /\ r.step = "done"
    /\ pending' = pending \ {r}
    /\ reading' = [reading EXCEPT ![c] = @ \cup (IF r.kind = "apply" THEN {"receipts"} ELSE {"orders"})
                                             \cup (IF r.kind = "receive" THEN {"receipts"} ELSE {})]
    /\ selected' = [selected EXCEPT ![c] = IF r.kind = "apply" THEN {} ELSE @]
    /\ form' = [form EXCEPT ![c] = IF r.kind = "receive" THEN None ELSE @]
    /\ attempt' = [attempt EXCEPT ![c] = IF r.kind \in {"receive", "cancel"} THEN None ELSE @]
    /\ UNCHANGED <<server, seen, seenCosts, values, made, edits>>

\* An error is shown, at most.
Fail(r) ==
    /\ r.step \in {"refused", "conflict"} \/ Failures
    /\ pending' = pending \ {r}
    /\ UNCHANGED <<server, rows, receiptForm, made, edits>>

-----------------------------------------------------------------------------
Next ==
    \/ \E c \in Clerks :
          \/ ReadOrder(c) \/ ReadReceipts(c)
          \/ \E l \in Lines :
                \/ \E v \in Values : TypeLine(c, l, v)
                \/ Blur(c, l) \/ AddLine(c, l) \/ RemoveLine(c, l)
                \/ \E q \in 0..Largest : TypeReceipt(c, l, q)
                \/ Select(c, l)
          \/ Place(c) \/ CancelOrder(c)
          \/ OpenReceipt(c) \/ CloseReceipt(c) \/ Submit(c)
          \/ Apply(c)
    \/ \E l \in Lines, cost \in Costs : ChangeCost(l, cost)
    \/ \E r \in pending : Serve(r) \/ Succeed(r) \/ Fail(r)

Spec == Init /\ [][Next]_vars

-----------------------------------------------------------------------------
(* However many clerks receive an order, and whatever is sent again under    *)
(* its key, each line holds what the receipts hold, each once, and never    *)
(* more than was ordered.                                                   *)
ReceiptsAddUp == \A l \in Existing(order) :
    /\ order.lines[l].received <= order.lines[l].quantity
    /\ order.lines[l].received =
           SumFunction([k \in Keys |-> IF receipts[k] = None THEN 0 ELSE receipts[k][l]])

(* The status says what was received: all, a part, or nothing, and nothing   *)
(* of an order that was cancelled.                                          *)
StatusFollowsLines ==
    LET received == {l \in Existing(order) : order.lines[l].received > 0}
        whole == {l \in Existing(order) : order.lines[l].received = order.lines[l].quantity} IN
    CASE order.status = "RECEIVED" -> whole = Existing(order) /\ received # {}
      [] order.status = "PARTIALLY_RECEIVED" -> received # {} /\ whole # Existing(order)
      [] OTHER -> received = {}

(* An order is what the supplier was told: once placed no late edit changes  *)
(* what was ordered, or its costs.                                          *)
PlacedLinesStay ==
    order.status # "DRAFT" => \A l \in Lines : ValuesOf(order'.lines[l]) = ValuesOf(order.lines[l])

(* Received costs replace only the costs the clerk saw.                     *)
ReviewedCostsOnly ==
    \A r \in pending : (r.kind = "apply" /\ r.step = "sent" /\ [r EXCEPT !.step = "done"] \in pending')
        => \A l \in Lines : catalog'[l] # catalog[l] => catalog[l] = r.expected[l]

(* An order adds up: its lines and its status are what its receipts say.    *)
GoodsAddUp == TypeOK /\ ReceiptsAddUp /\ StatusFollowsLines

(* Nothing of an order or of the catalogue changes unseen.                  *)
ChangesAreSeen == PlacedLinesStay /\ ReviewedCostsOnly
NothingChangesUnseen == [][ChangesAreSeen]_vars
=============================================================================
