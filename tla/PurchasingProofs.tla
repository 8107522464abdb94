-------------------------- MODULE PurchasingProofs --------------------------
(***************************************************************************)
(* A purchase order for any number of clerks, lines, requests and costs:     *)
(* what its lines and its status say is what its receipts hold, each once,  *)
(* and nothing of it, or of the catalogue, is changed unseen.  And the form  *)
(* that enters an order, for any number of rows, estimates and openings:     *)
(* each row shows its own estimate, and a form is one order.  And the form   *)
(* of a new product, for any number of edits, previews and products: what    *)
(* is made is what the form showed.                                          *)
(***************************************************************************)
EXTENDS Purchasing, OrderEntry, Products, SumFacts, SequenceTheorems

(* What a request carries: the form of a receipt never sends nothing.       *)
Asks(r) ==
    /\ r.kind \in {"add", "update"} => r.line \in Lines /\ r.values \in Values
    /\ r.kind = "remove" => r.line \in Lines
    /\ r.kind = "receive" => r.content \in Quantities /\ \E l \in Lines : r.content[l] > 0
    /\ r.kind = "apply" => r.expected \in [Lines -> Or(Costs)] /\ r.key <= made

Asked == \A r \in pending : Asks(r)

\* Each tick of proposals is sent under a key of its own.
AppliesDiffer == \A r, s \in pending : r.kind = "apply" /\ s.kind = "apply" /\ r.key = s.key => r = s

(* Whatever proposes a cost, on a page or in a request, is a line of which  *)
(* something was received.                                                  *)
Delivered(l) == order.lines[l] # None /\ order.lines[l].received > 0

ProposalsAreReceived ==
    /\ \A c \in Clerks : \A l \in Lines : seenCosts[c][l] # None => Delivered(l)
    /\ \A r \in pending : r.kind = "apply" => \A l \in Lines : r.expected[l] # None => Delivered(l)

(* What a clerk has seen of an order was never received beyond what was     *)
(* ordered.                                                                 *)
Fits(o) == \A l \in Lines : o.lines[l] # None => o.lines[l].received <= o.lines[l].quantity

SeenFits == \A c \in Clerks : Fits(seen[c])

(* Nothing is received before the order is placed, and once something is it *)
(* is never cancelled.                                                      *)
NoneBefore ==
    order.status \notin {"PARTIALLY_RECEIVED", "RECEIVED"} => \A k \in Keys : receipts[k] = None

PageInv == Asked /\ AppliesDiffer /\ ProposalsAreReceived /\ SeenFits

OrderInv == NoneBefore /\ ReceiptsAddUp /\ StatusFollowsLines

PurchasingInv == TypeOK /\ PageInv /\ OrderInv

-----------------------------------------------------------------------------
(* The values of the operators *)

LEMMA Bounds ==
    ASSUME PurchasingAssumption
    PROVE  /\ Largest \in Nat /\ Largest >= 1 /\ LastRequest \in Nat /\ LastEdit \in Nat
           /\ 1 \in Costs /\ 2 \in Costs
           /\ None \notin OrderLines /\ None \notin Quantities
BY DEF PurchasingAssumption, OrderLines, Quantities

LEMMA ValuesOfType ==
    ASSUME NEW line \in Or(OrderLines)
    PROVE  ValuesOf(line) \in Or(Values)
BY DEF ValuesOf, Or, OrderLines, Values

LEMMA ProposalsType ==
    ASSUME TypeOK
    PROVE  /\ Proposals \in [Lines -> Or(Costs)]
           /\ \A l \in Lines : Proposals[l] # None => Delivered(l)
BY DEF TypeOK, Proposals, Or, Delivered

LEMMA RemainingType ==
    ASSUME PurchasingAssumption, NEW o \in Orders, Fits(o), NEW l \in Lines
    PROVE  Remaining(o, l) \in 0..Largest
<1>1. o.lines[l] \in Or(OrderLines)
  BY DEF Orders
<1>2. CASE o.lines[l] = None
  BY <1>2, Bounds DEF Remaining
<1>3. CASE o.lines[l] # None
  <2>1. o.lines[l] \in OrderLines /\ o.lines[l].received <= o.lines[l].quantity
    BY <1>1, <1>3 DEF Or, Fits
  <2> DEFINE line == o.lines[l]
  <2>2. line.quantity \in 1..Largest /\ line.received \in 0..Largest
    BY <2>1 DEF OrderLines
  <2>3. Remaining(o, l) = line.quantity - line.received
    BY <1>3 DEF Remaining
  <2> HIDE DEF line
  <2>4. QED
    BY <2>1, <2>2, <2>3, Bounds DEF line
<1>4. QED
  BY <1>2, <1>3

LEMMA NewLineType ==
    ASSUME PurchasingAssumption, NEW v \in Values
    PROVE  NewLine(v) \in OrderLines /\ NewLine(v).received = 0
BY Bounds DEF NewLine, Values, OrderLines

-----------------------------------------------------------------------------
(* The beginning *)

LEMMA InitInv == ASSUME PurchasingAssumption, Init PROVE PurchasingInv
<1>1. PICK q \in 1..Largest, other \in Or({[quantity |-> 1, cost |-> 1, received |-> 0]}) :
        order = [status |-> "DRAFT",
                 lines |-> [l \in Lines |-> IF l = 1 THEN [quantity |-> q, cost |-> 2, received |-> 0]
                                            ELSE other]]
  BY DEF Init
<1>2. \A l \in Lines : order.lines[l] \in Or(OrderLines) /\ (order.lines[l] # None => order.lines[l].received = 0)
  <2>1. other \in Or(OrderLines) /\ (other # None => other.received = 0)
    BY Bounds DEF Or, OrderLines
  <2>2. [quantity |-> q, cost |-> 2, received |-> 0] \in OrderLines
    BY Bounds DEF OrderLines
  <2>3. QED
    BY <1>1, <2>1, <2>2 DEF Or
<1>3. order \in Orders /\ order.status = "DRAFT"
  BY <1>1, <1>2 DEF Orders, Statuses
<1>4. catalog \in [Lines -> Costs] /\ receipts \in [Keys -> Or(Quantities)]
  BY Bounds DEF Init, Or
<1>5. Proposals = [l \in Lines |-> None]
  BY <1>2 DEF Proposals
<1>6. TypeOK
  <2>1. \A l \in Lines : ValuesOf(order.lines[l]) \in Or(Values)
    BY <1>2, ValuesOfType
  <2>2. values \in [Clerks -> [Lines -> Or(Values)]]
    BY <2>1 DEF Init
  <2>3. seenCosts \in [Clerks -> [Lines -> Or(Costs)]]
    BY <1>5 DEF Init, Or
  <2>4. /\ placedBy \in Or(Clerks) /\ seen \in [Clerks -> Orders]
        /\ reading \in [Clerks -> SUBSET {"orders", "receipts"}] /\ selected \in [Clerks -> SUBSET Lines]
    BY <1>3 DEF Init, Or
  <2>5. /\ form \in [Clerks -> Or([typed: Quantities, remaining: Quantities])]
        /\ attempt \in [Clerks -> Or([content: Quantities, key: Keys])]
    BY DEF Init, Or
  <2>6. pending \subseteq Requests /\ made \in 0..LastRequest /\ edits \in 0..LastEdit
    BY Bounds DEF Init
  <2>7. QED
    BY <1>3, <1>4, <2>2, <2>3, <2>4, <2>5, <2>6 DEF TypeOK
<1>7. PageInv
  <2>1. Fits(order)
    BY <1>2, Bounds DEF Fits, OrderLines, Or
  <2>2. QED
    BY <1>5, <2>1 DEF Init, PageInv, Asked, AppliesDiffer, ProposalsAreReceived, SeenFits
<1>8. OrderInv
  <2>1. ASSUME NEW l \in Existing(order)
        PROVE  /\ order.lines[l].received <= order.lines[l].quantity
               /\ order.lines[l].received =
                    SumFunction([k \in Keys |-> IF receipts[k] = None THEN 0 ELSE receipts[k][l]])
    <3> DEFINE f == [k \in Keys |-> IF receipts[k] = None THEN 0 ELSE receipts[k][l]]
    <3>1. f \in [Keys -> Int] /\ \A k \in Keys : f[k] = 0
      BY DEF Init
    <3>2. IsFiniteSet(Keys)
      BY Bounds, FS_Interval DEF Keys
    <3> HIDE DEF f
    <3>3. SumFunction(f) = 0
      BY <3>1, <3>2, SumOfZeros
    <3>4. order.lines[l].received = 0 /\ order.lines[l].quantity \in Nat
      BY <1>2 DEF Existing, Or, OrderLines
    <3>5. QED
      BY <3>3, <3>4 DEF f
  <2>2. ReceiptsAddUp
    BY <2>1 DEF ReceiptsAddUp
  <2>3. StatusFollowsLines
    BY <1>2, <1>3 DEF StatusFollowsLines, Existing
  <2>4. NoneBefore
    BY DEF NoneBefore, Init
  <2>5. QED
    BY <2>2, <2>3, <2>4 DEF OrderInv
<1>9. QED
  BY <1>6, <1>7, <1>8 DEF PurchasingInv

-----------------------------------------------------------------------------
(* What the pages do *)

LEMMA OrderStays ==
    ASSUME OrderInv, UNCHANGED <<order, receipts>>
    PROVE  OrderInv'
BY DEF OrderInv, NoneBefore, ReceiptsAddUp, StatusFollowsLines, Existing

LEMMA OrderFits == ASSUME TypeOK, OrderInv PROVE Fits(order)
BY DEF OrderInv, ReceiptsAddUp, Existing, Fits, TypeOK, Orders

LEMMA ReadOrderInv ==
    ASSUME PurchasingInv, NEW c \in Clerks, ReadOrder(c)
    PROVE  PurchasingInv'
<1> USE DEF PurchasingInv
<1>1. OrderInv'
  BY OrderStays DEF ReadOrder, server
<1>2. UNCHANGED <<server, seenCosts, selected, attempt, pending, made, edits>>
  BY DEF ReadOrder
<1>3. seen' \in [Clerks -> Orders] /\ \A d \in Clerks : seen'[d] = seen[d] \/ seen'[d] = order
  BY DEF ReadOrder, TypeOK
<1>4. values' \in [Clerks -> [Lines -> Or(Values)]]
  <2>1. \A l \in Lines : ValuesOf(order.lines[l]) \in Or(Values)
    BY ValuesOfType DEF TypeOK, Orders
  <2>2. [l \in Lines |-> IF order.lines[l] = seen[c].lines[l] THEN values[c][l] ELSE ValuesOf(order.lines[l])]
            \in [Lines -> Or(Values)]
    BY <2>1 DEF TypeOK
  <2>3. QED
    BY <2>2 DEF ReadOrder, TypeOK
<1>5. reading' \in [Clerks -> SUBSET {"orders", "receipts"}]
  BY DEF ReadOrder, TypeOK
<1>6. form' \in [Clerks -> Or([typed: Quantities, remaining: Quantities])]
  BY DEF ReadOrder, TypeOK, Or
<1>7. TypeOK'
  BY <1>2, <1>3, <1>4, <1>5, <1>6 DEF TypeOK, server
<1>8. SeenFits'
  BY <1>3, OrderFits DEF SeenFits, PageInv, Fits
<1>9. Asked' /\ AppliesDiffer' /\ ProposalsAreReceived'
  BY <1>2 DEF PageInv, Asked, Asks, AppliesDiffer, ProposalsAreReceived, Delivered, server
<1>10. QED
  BY <1>1, <1>7, <1>8, <1>9 DEF PageInv

LEMMA ReadReceiptsInv ==
    ASSUME PurchasingInv, NEW c \in Clerks, ReadReceipts(c)
    PROVE  PurchasingInv'
<1> USE DEF PurchasingInv
<1>1. UNCHANGED <<server, seen, values, receiptForm, pending, made, edits>>
  BY DEF ReadReceipts
<1>2. OrderInv'
  BY <1>1, OrderStays DEF server
<1>3. seenCosts' \in [Clerks -> [Lines -> Or(Costs)]] /\ \A d \in Clerks : seenCosts'[d] = seenCosts[d] \/ seenCosts'[d] = Proposals
  BY ProposalsType DEF ReadReceipts, TypeOK
<1>4. reading' \in [Clerks -> SUBSET {"orders", "receipts"}] /\ selected' \in [Clerks -> SUBSET Lines]
  BY DEF ReadReceipts, TypeOK
<1>5. TypeOK'
  BY <1>1, <1>3, <1>4 DEF TypeOK, server, receiptForm
<1>6. ProposalsAreReceived'
  BY <1>1, <1>3, ProposalsType DEF ProposalsAreReceived, PageInv, Delivered, server
<1>7. Asked' /\ AppliesDiffer' /\ SeenFits'
  BY <1>1 DEF PageInv, Asked, Asks, AppliesDiffer, SeenFits
<1>8. QED
  BY <1>2, <1>5, <1>6, <1>7 DEF PageInv

(* What is typed, ticked, opened and closed moves nothing else.             *)
LEMMA TypedInv ==
    ASSUME PurchasingInv, UNCHANGED <<server, seen, seenCosts, reading, pending, made>>,
           edits' \in 0..LastEdit,
           values' \in [Clerks -> [Lines -> Or(Values)]],
           form' \in [Clerks -> Or([typed: Quantities, remaining: Quantities])],
           attempt' \in [Clerks -> Or([content: Quantities, key: Keys])],
           selected' \in [Clerks -> SUBSET Lines]
    PROVE  PurchasingInv'
<1> USE DEF PurchasingInv
<1>1. OrderInv'
  BY OrderStays DEF server
<1>2. TypeOK'
  BY DEF TypeOK, server
<1>3. PageInv'
  BY DEF PageInv, Asked, Asks, AppliesDiffer, ProposalsAreReceived, SeenFits, Delivered, server
<1>4. QED
  BY <1>1, <1>2, <1>3

LEMMA OneMoreEdit ==
    ASSUME PurchasingAssumption, TypeOK, edits < LastEdit
    PROVE  edits + 1 \in 0..LastEdit
BY Bounds DEF TypeOK

LEMMA TypingInv ==
    ASSUME PurchasingAssumption, PurchasingInv, NEW c \in Clerks, NEW l \in Lines,
           \/ \E v \in Values : TypeLine(c, l, v)
           \/ \E q \in 0..Largest : TypeReceipt(c, l, q)
           \/ Select(c, l)
    PROVE  PurchasingInv'
<1> USE DEF PurchasingInv
<1>1. ASSUME NEW v \in Values, TypeLine(c, l, v) PROVE PurchasingInv'
  <2>1. values' \in [Clerks -> [Lines -> Or(Values)]]
    BY <1>1 DEF TypeLine, TypeOK, Or
  <2>2. QED
    BY <1>1, <2>1, TypedInv, OneMoreEdit DEF TypeLine, TypeOK, receiptForm
<1>2. ASSUME NEW q \in 0..Largest, TypeReceipt(c, l, q) PROVE PurchasingInv'
  <2>1. form[c] \in [typed: Quantities, remaining: Quantities]
    BY <1>2 DEF TypeReceipt, TypeOK, Or
  <2> DEFINE f == [form[c] EXCEPT !.typed[l] = q]
  <2>2. f \in [typed: Quantities, remaining: Quantities]
    BY <2>1 DEF Quantities
  <2>3. form' = [form EXCEPT ![c] = f] /\ attempt' = [attempt EXCEPT ![c] = attempt[c]]
    BY <1>2 DEF TypeReceipt, Touch
  <2> HIDE DEF f
  <2>4. form' \in [Clerks -> Or([typed: Quantities, remaining: Quantities])]
    BY <2>2, <2>3 DEF TypeOK, Or
  <2>5. attempt' \in [Clerks -> Or([content: Quantities, key: Keys])]
    BY <2>3 DEF TypeOK
  <2>6. UNCHANGED <<server, rows, pending, made>> /\ edits' \in 0..LastEdit
    BY <1>2, OneMoreEdit DEF TypeReceipt, Touch
  <2>7. QED
    BY <2>4, <2>5, <2>6, TypedInv DEF rows, TypeOK
<1>3. ASSUME Select(c, l) PROVE PurchasingInv'
  <2>1. selected' \in [Clerks -> SUBSET Lines]
    BY <1>3 DEF Select, TypeOK
  <2>2. QED
    BY <1>3, <2>1, TypedInv, OneMoreEdit DEF Select, TypeOK, receiptForm
<1>4. QED
  BY <1>1, <1>2, <1>3

LEMMA OpeningInv ==
    ASSUME PurchasingAssumption, PurchasingInv, NEW c \in Clerks, OpenReceipt(c) \/ CloseReceipt(c)
    PROVE  PurchasingInv'
<1> USE DEF PurchasingInv
<1>1. CASE OpenReceipt(c)
  <2> DEFINE left == [l \in Lines |-> Remaining(seen[c], l)]
  <2>1. left \in Quantities
    BY RemainingType DEF PageInv, SeenFits, TypeOK, Quantities
  <2>2. form' = [form EXCEPT ![c] = [typed |-> left, remaining |-> left]] /\ attempt' = [attempt EXCEPT ![c] = attempt[c]]
    BY <1>1 DEF OpenReceipt, Touch
  <2>3. UNCHANGED <<server, rows, pending, made, edits>>
    BY <1>1 DEF OpenReceipt, Touch
  <2> HIDE DEF left
  <2>4. form' \in [Clerks -> Or([typed: Quantities, remaining: Quantities])]
    BY <2>1, <2>2 DEF TypeOK, Or
  <2>5. attempt' \in [Clerks -> Or([content: Quantities, key: Keys])]
    BY <2>2 DEF TypeOK
  <2>6. QED
    BY <2>3, <2>4, <2>5, TypedInv DEF rows, TypeOK
<1>2. CASE CloseReceipt(c)
  <2>1. form' = [form EXCEPT ![c] = None] /\ attempt' = [attempt EXCEPT ![c] = None]
    BY <1>2 DEF CloseReceipt, Touch
  <2>2. UNCHANGED <<server, rows, pending, made, edits>>
    BY <1>2 DEF CloseReceipt, Touch
  <2>3. form' \in [Clerks -> Or([typed: Quantities, remaining: Quantities])]
    BY <2>1 DEF TypeOK, Or
  <2>4. attempt' \in [Clerks -> Or([content: Quantities, key: Keys])]
    BY <2>1 DEF TypeOK, Or
  <2>5. QED
    BY <2>2, <2>3, <2>4, TypedInv DEF rows, TypeOK
<1>3. QED
  BY <1>1, <1>2

(* The cost of a product changes elsewhere.                                 *)
LEMMA ChangeCostInv ==
    ASSUME PurchasingInv, NEW l \in Lines, NEW cost \in Costs, ChangeCost(l, cost), PurchasingAssumption
    PROVE  PurchasingInv'
<1> USE DEF PurchasingInv
<1>1. UNCHANGED <<order, receipts, placedBy, rows, receiptForm, pending, made>>
  BY DEF ChangeCost
<1>2. OrderInv'
  BY <1>1, OrderStays
<1>3. catalog' \in [Lines -> Costs] /\ edits' \in 0..LastEdit
  BY OneMoreEdit DEF ChangeCost, TypeOK
<1>4. TypeOK'
  BY <1>1, <1>3 DEF TypeOK, rows, receiptForm
<1>5. PageInv'
  BY <1>1 DEF PageInv, Asked, Asks, AppliesDiffer, ProposalsAreReceived, SeenFits, Delivered, rows
<1>6. QED
  BY <1>2, <1>4, <1>5

-----------------------------------------------------------------------------
(* What the pages send *)

Attempts == [content: Quantities, key: Keys]
Forms == [typed: Quantities, remaining: Quantities]

LEMMA SendInv ==
    ASSUME PurchasingAssumption, PurchasingInv,
           NEW c \in Clerks, NEW kind \in AllKinds, NEW l \in Or(Lines), NEW v \in Or(Values),
           NEW content \in Or(Quantities), NEW expected \in Or([Lines -> Or(Costs)]), NEW key \in Keys,
           Send(c, kind, l, v, content, expected, key),
           kind \in {"add", "update"} => l \in Lines /\ v \in Values,
           kind = "remove" => l \in Lines,
           kind = "receive" => content \in Quantities /\ \E m \in Lines : content[m] > 0,
           kind = "apply" => /\ expected \in [Lines -> Or(Costs)]
                             /\ key = made + 1
                             /\ \A m \in Lines : expected[m] # None => Delivered(m),
           UNCHANGED form, attempt' \in [Clerks -> Or(Attempts)]
    PROVE  PurchasingInv'
<1> USE DEF PurchasingInv
<1>1. made' = made + 1 /\ made' \in 0..LastRequest /\ made \in Nat
  BY Bounds DEF Send, TypeOK
<1>2. PICK r : /\ r = [kind |-> kind, clerk |-> c, key |-> key, line |-> l, values |-> v,
                       content |-> content, expected |-> expected, step |-> "sent"]
               /\ pending' = pending \cup {r}
  BY Zenon DEF Send
<1>3. r \in Requests
  BY <1>2 DEF Requests
<1>4. /\ r.kind = kind /\ r.line = l /\ r.values = v /\ r.content = content /\ r.expected = expected
      /\ r.key = key
  BY <1>2
<1>5. UNCHANGED <<server, rows, edits>>
  BY DEF Send
<1>6. OrderInv'
  BY <1>5, OrderStays DEF server
<1>7. TypeOK'
  BY <1>1, <1>2, <1>3, <1>5 DEF TypeOK, server, rows, Attempts
<1>8. Asked'
  <2>1. ASSUME NEW s \in pending PROVE Asks(s)'
    <3>1. Asks(s)
      BY DEF PageInv, Asked
    <3>2. s.kind = "apply" => s.key \in Nat
      BY DEF TypeOK, Requests, Keys
    <3>3. QED
      BY <1>1, <3>1, <3>2 DEF Asks
  <2>2. Asks(r)'
    BY <1>1, <1>4 DEF Asks
  <2>3. QED
    BY <1>2, <2>1, <2>2 DEF Asked
<1>9. AppliesDiffer'
  <2>1. ASSUME NEW s \in pending, s.kind = "apply", r.kind = "apply" PROVE s.key # r.key
    <3>1. s.key <= made /\ s.key \in Nat
      BY <2>1 DEF PageInv, Asked, Asks, TypeOK, Requests, Keys
    <3>2. r.key = made + 1
      BY <1>4, <2>1
    <3>3. QED
      BY <1>1, <3>1, <3>2
  <2>2. QED
    BY <1>2, <2>1 DEF PageInv, AppliesDiffer
<1>10. ProposalsAreReceived' /\ SeenFits'
  BY <1>2, <1>4, <1>5 DEF PageInv, ProposalsAreReceived, SeenFits, Delivered, server, rows
<1>11. QED
  BY <1>6, <1>7, <1>8, <1>9, <1>10 DEF PageInv

LEMMA NextKey ==
    ASSUME PurchasingAssumption, TypeOK, made < LastRequest
    PROVE  made + 1 \in Keys
BY Bounds DEF TypeOK, Keys

LEMMA DraftingInv ==
    ASSUME PurchasingAssumption, PurchasingInv, NEW c \in Clerks, NEW l \in Lines,
           Blur(c, l) \/ AddLine(c, l) \/ RemoveLine(c, l)
    PROVE  PurchasingInv'
<1> USE DEF PurchasingInv
<1>1. made + 1 \in Keys
  BY NextKey DEF Blur, AddLine, RemoveLine, Send
<1>2. UNCHANGED form /\ attempt' \in [Clerks -> Or(Attempts)]
  BY DEF Blur, AddLine, RemoveLine, receiptForm, TypeOK, Attempts
<1>3. /\ l \in Or(Lines) /\ None \in Or(Values) /\ None \in Or(Quantities) /\ None \in Or([Lines -> Or(Costs)])
      /\ {"update", "add", "remove"} \subseteq AllKinds
  BY DEF Or, AllKinds
<1>4. CASE Blur(c, l)
  <2>1. values[c][l] \in Values /\ values[c][l] \in Or(Values)
    BY <1>4 DEF Blur, TypeOK, Or
  <2>2. Send(c, "update", l, values[c][l], None, None, made + 1)
    BY <1>4 DEF Blur
  <2>3. QED
    BY <1>1, <1>2, <1>3, <2>1, <2>2, SendInv
<1>5. CASE AddLine(c, l)
  <2> DEFINE v == [quantity |-> 1, cost |-> 1]
  <2>1. v \in Values /\ v \in Or(Values)
    BY Bounds DEF Values, Or
  <2>2. Send(c, "add", l, v, None, None, made + 1)
    BY <1>5 DEF AddLine
  <2> HIDE DEF v
  <2>3. QED
    BY <1>1, <1>2, <1>3, <2>1, <2>2, SendInv
<1>6. CASE RemoveLine(c, l)
  <2>1. Send(c, "remove", l, None, None, None, made + 1)
    BY <1>6 DEF RemoveLine
  <2>2. QED
    BY <1>1, <1>2, <1>3, <2>1, SendInv
<1>7. QED
  BY <1>4, <1>5, <1>6

LEMMA DecidingInv ==
    ASSUME PurchasingAssumption, PurchasingInv, NEW c \in Clerks, Place(c) \/ CancelOrder(c) \/ Apply(c)
    PROVE  PurchasingInv'
<1> USE DEF PurchasingInv
<1>1. made + 1 \in Keys
  BY NextKey DEF Place, CancelOrder, Apply, Send
<1>2. UNCHANGED form /\ attempt' \in [Clerks -> Or(Attempts)]
  BY DEF Place, CancelOrder, Apply, receiptForm, TypeOK, Attempts
<1>3. /\ None \in Or(Lines) /\ None \in Or(Values) /\ None \in Or(Quantities) /\ None \in Or([Lines -> Or(Costs)])
      /\ {"place", "cancel", "apply"} \subseteq AllKinds
  BY DEF Or, AllKinds
<1>4. CASE Place(c)
  <2>1. Send(c, "place", None, None, None, None, made + 1)
    BY <1>4 DEF Place
  <2>2. QED
    BY <1>1, <1>2, <1>3, <2>1, SendInv
<1>5. CASE CancelOrder(c)
  <2>1. Send(c, "cancel", None, None, None, None, made + 1)
    BY <1>5 DEF CancelOrder
  <2>2. QED
    BY <1>1, <1>2, <1>3, <2>1, SendInv
<1>6. CASE Apply(c)
  <2> DEFINE e == [l \in Lines |-> IF l \in selected[c] THEN seenCosts[c][l] ELSE None]
  <2>1. e \in [Lines -> Or(Costs)] /\ e \in Or([Lines -> Or(Costs)])
    BY DEF TypeOK, Or
  <2>2. \A l \in Lines : e[l] # None => Delivered(l)
    BY DEF PageInv, ProposalsAreReceived
  <2>3. Send(c, "apply", None, None, None, e, made + 1)
    BY <1>6 DEF Apply
  <2> HIDE DEF e
  <2>4. QED
    BY <1>1, <1>2, <1>3, <2>1, <2>2, <2>3, SendInv
<1>7. QED
  BY <1>4, <1>5, <1>6

LEMMA SubmitInv ==
    ASSUME PurchasingAssumption, PurchasingInv, NEW c \in Clerks, Submit(c)
    PROVE  PurchasingInv'
<1> USE DEF PurchasingInv
<1> DEFINE content == form[c].typed
           key == IF attempt[c] = None THEN made + 1
                  ELSE IF attempt[c].content = content THEN attempt[c].key ELSE made + 1
<1>1. content \in Quantities /\ \E l \in Lines : content[l] > 0
  BY DEF Submit, TypeOK, Or
<1>2. key \in Keys
  BY NextKey DEF Submit, Send, TypeOK, Or
<1>3. /\ Send(c, "receive", None, None, content, None, key)
      /\ attempt' = [attempt EXCEPT ![c] = [content |-> content, key |-> key]]
      /\ UNCHANGED form
  BY DEF Submit
<1> HIDE DEF content, key
<1>4. attempt' \in [Clerks -> Or(Attempts)]
  BY <1>1, <1>2, <1>3 DEF TypeOK, Or, Attempts
<1>5. /\ None \in Or(Lines) /\ None \in Or(Values) /\ content \in Or(Quantities) /\ None \in Or([Lines -> Or(Costs)])
      /\ "receive" \in AllKinds
  BY <1>1 DEF Or, AllKinds
<1>6. QED
  BY <1>1, <1>2, <1>3, <1>4, <1>5, SendInv

-----------------------------------------------------------------------------
(* What the handlers do *)

AnswerSteps == {"done", "refused", "conflict"}

(* An answered request is the one that was sent, and leaves the others.     *)
LEMMA AnsweredKeeps ==
    ASSUME PurchasingInv, NEW r \in pending, NEW step \in AnswerSteps, Answered(r, step),
           UNCHANGED <<made, seen, seenCosts>>, \A l \in Lines : Delivered(l) => Delivered(l)'
    PROVE  pending' \subseteq Requests /\ PageInv'
<1> USE DEF PurchasingInv
<1> DEFINE after == [r EXCEPT !.step = step]
<1>1. pending' = (pending \ {r}) \cup {after}
  BY DEF Answered
<1>2. r \in Requests
  BY DEF TypeOK
<1>3. after \in Requests
  BY <1>2 DEF Requests, AnswerSteps
<1>4. /\ after.kind = r.kind /\ after.line = r.line /\ after.values = r.values /\ after.content = r.content
      /\ after.expected = r.expected /\ after.key = r.key
  BY <1>2 DEF Requests
<1> HIDE DEF after
<1>5. pending' \subseteq Requests
  BY <1>1, <1>3 DEF TypeOK
<1>6. Asked'
  <2>1. \A s \in pending : Asks(s)'
    BY DEF PageInv, Asked, Asks
  <2>2. Asks(after)'
    BY <1>4, <2>1 DEF Asks
  <2>3. QED
    BY <1>1, <2>1, <2>2 DEF Asked
<1>7. AppliesDiffer'
  BY <1>1, <1>4 DEF PageInv, AppliesDiffer
<1>8. ProposalsAreReceived'
  <2>1. \A d \in Clerks : \A l \in Lines : seenCosts'[d][l] # None => Delivered(l)'
    BY DEF PageInv, ProposalsAreReceived
  <2>2. \A s \in pending' : s.kind = "apply" => \A l \in Lines : s.expected[l] # None => Delivered(l)'
    BY <1>1, <1>4 DEF PageInv, ProposalsAreReceived
  <2>3. QED
    BY <2>1, <2>2 DEF ProposalsAreReceived
<1>9. SeenFits'
  BY DEF PageInv, SeenFits
<1>10. QED
  BY <1>5, <1>6, <1>7, <1>8, <1>9 DEF PageInv

(* Nothing was received of an order whose status says so.                   *)
LEMMA NothingYet ==
    ASSUME TypeOK, OrderInv, order.status \notin {"PARTIALLY_RECEIVED", "RECEIVED"}
    PROVE  /\ \A k \in Keys : receipts[k] = None
           /\ \A l \in Lines : order.lines[l] # None => order.lines[l].received = 0
<1>1. order.status \in Statuses /\ order.lines \in [Lines -> Or(OrderLines)]
  BY DEF TypeOK, Orders
<1>2. \A l \in Existing(order) : ~(order.lines[l].received > 0)
  BY <1>1 DEF OrderInv, StatusFollowsLines, Statuses
<1>3. ASSUME NEW l \in Lines, order.lines[l] # None PROVE order.lines[l].received \in Nat
  BY <1>1, <1>3 DEF Or, OrderLines
<1>4. QED
  BY <1>2, <1>3 DEF OrderInv, NoneBefore, Existing

(* An order of which nothing was received adds up.                          *)
LEMMA NothingAddsUp ==
    ASSUME PurchasingAssumption, order' \in Orders, \A k \in Keys : receipts'[k] = None,
           order'.status \notin {"PARTIALLY_RECEIVED", "RECEIVED"},
           \A l \in Lines : order'.lines[l] # None => order'.lines[l].received = 0
    PROVE  OrderInv'
<1>1. ASSUME NEW l \in Lines, order'.lines[l] # None
      PROVE  /\ order'.lines[l].received <= order'.lines[l].quantity
             /\ order'.lines[l].received =
                  SumFunction([k \in Keys |-> IF receipts'[k] = None THEN 0 ELSE receipts'[k][l]])
  <2> DEFINE f == [k \in Keys |-> IF receipts'[k] = None THEN 0 ELSE receipts'[k][l]]
  <2>1. f \in [Keys -> Int] /\ \A k \in Keys : f[k] = 0
    OBVIOUS
  <2>2. IsFiniteSet(Keys)
    BY Bounds, FS_Interval DEF Keys
  <2> HIDE DEF f
  <2>3. SumFunction(f) = 0
    BY <2>1, <2>2, SumOfZeros
  <2>4. order'.lines[l].received = 0
    BY <1>1
  <2>5. order'.lines[l] \in OrderLines
    BY <1>1 DEF Orders, Or
  <2>6. order'.lines[l].quantity \in Nat
    BY <2>5, Bounds DEF OrderLines
  <2>7. QED
    BY <2>3, <2>4, <2>6 DEF f
<1>2. ReceiptsAddUp'
  BY <1>1 DEF ReceiptsAddUp, Existing
<1>3. StatusFollowsLines'
  BY DEF StatusFollowsLines, Existing
<1>4. NoneBefore'
  BY DEF NoneBefore
<1>5. QED
  BY <1>2, <1>3, <1>4 DEF OrderInv

ServerTypes ==
    /\ order \in Orders
    /\ receipts \in [Keys -> Or(Quantities)]
    /\ placedBy \in Or(Clerks)
    /\ catalog \in [Lines -> Costs]

LEMMA OneLine ==
    ASSUME NEW o \in Orders, NEW l \in Lines, NEW x \in Or(OrderLines)
    PROVE  /\ [o EXCEPT !.lines[l] = x].lines = [o.lines EXCEPT ![l] = x]
           /\ [o EXCEPT !.lines[l] = x].status = o.status
           /\ [o EXCEPT !.lines[l] = x] \in Orders
<1>1. o = [status |-> o.status, lines |-> o.lines] /\ o.status \in Statuses /\ o.lines \in [Lines -> Or(OrderLines)]
  BY DEF Orders
<1> DEFINE lines == [o.lines EXCEPT ![l] = x]
<1>2. lines \in [Lines -> Or(OrderLines)]
  BY <1>1
<1>3. [o EXCEPT !.lines[l] = x] = [o EXCEPT !.lines = lines]
  BY Zenon
<1> HIDE DEF lines
<1>4. [o EXCEPT !.lines = lines] = [status |-> o.status, lines |-> lines]
  BY <1>1
<1>5. QED
  BY <1>1, <1>2, <1>3, <1>4 DEF Orders, lines

(* Lines come, change and go, and the order is placed and cancelled, before *)
(* anything is received.                                                    *)
LEMMA WrittenBefore ==
    ASSUME PurchasingAssumption, TypeOK, OrderInv, NEW r, Asks(r), Accepts(r), order' = Written(r),
           r.kind \in {"add", "update", "remove", "place", "cancel"}, UNCHANGED <<receipts, catalog>>,
           placedBy' \in Or(Clerks)
    PROVE  ServerTypes' /\ OrderInv' /\ \A l \in Lines : Delivered(l) => Delivered(l)'
<1>1. order.status \in {"DRAFT", "ORDERED"}
  BY DEF Accepts
<1>2. /\ \A k \in Keys : receipts[k] = None
      /\ \A l \in Lines : order.lines[l] # None => order.lines[l].received = 0
  BY <1>1, NothingYet
<1>3. order' \in Orders /\ order'.status \in {"DRAFT", "ORDERED", "CANCELLED"}
      /\ \A l \in Lines : order'.lines[l] # None => order'.lines[l].received = 0
  <2>1. order = [status |-> order.status, lines |-> order.lines] /\ order.lines \in [Lines -> Or(OrderLines)]
    BY DEF TypeOK, Orders
  <2>2. CASE r.kind \in {"add", "update"}
    <3>1. order' = [order EXCEPT !.lines[r.line] = NewLine(r.values)]
      BY <2>2 DEF Written
    <3>2. NewLine(r.values) \in Or(OrderLines) /\ NewLine(r.values).received = 0 /\ r.line \in Lines
      BY <2>2, NewLineType DEF Asks, Or
    <3>3. PICK line : line = NewLine(r.values)
      OBVIOUS
    <3>4. order' = [order EXCEPT !.lines[r.line] = line] /\ line \in Or(OrderLines) /\ line.received = 0
      BY <3>1, <3>2, <3>3
    <3>5. order \in Orders
      BY DEF TypeOK
    <3>6. order'.lines = [order.lines EXCEPT ![r.line] = line] /\ order'.status = order.status /\ order' \in Orders
      BY <3>2, <3>4, <3>5, OneLine
    <3>7. QED
      BY <1>1, <1>2, <2>1, <3>2, <3>4, <3>6
  <2>3. CASE r.kind = "remove"
    <3>1. order' = [order EXCEPT !.lines[r.line] = None] /\ r.line \in Lines
      BY <2>3 DEF Written, Asks
    <3>2. order \in Orders /\ None \in Or(OrderLines)
      BY DEF TypeOK, Or
    <3>3. order'.lines = [order.lines EXCEPT ![r.line] = None] /\ order'.status = order.status /\ order' \in Orders
      BY <3>1, <3>2, OneLine
    <3>4. QED
      BY <1>1, <1>2, <2>1, <3>1, <3>3
  <2>4. CASE r.kind \in {"place", "cancel"}
    <3>1. order'.lines = order.lines /\ order'.status \in {"ORDERED", "CANCELLED"} /\ order' \in Orders
      BY <2>1, <2>4 DEF Written, Orders, Statuses
    <3>2. QED
      BY <1>2, <3>1
  <2>5. QED
    BY <2>2, <2>3, <2>4
<1>4. OrderInv'
  BY <1>2, <1>3, NothingAddsUp
<1>5. \A l \in Lines : ~Delivered(l)
  BY <1>2 DEF Delivered
<1>6. QED
  BY <1>3, <1>4, <1>5 DEF ServerTypes, TypeOK

(* The lines after a receipt hold what they held and what it brings.        *)
LEMMA ReceivedLines ==
    ASSUME PurchasingAssumption, TypeOK, OrderInv, NEW content \in Quantities,
           \A l \in Lines : content[l] <= Remaining(order, l), order' = Received(content)
    PROVE  /\ order' \in Orders
           /\ Existing(order') = Existing(order)
           /\ \A l \in Existing(order) :
                /\ order'.lines[l].quantity = order.lines[l].quantity
                /\ order'.lines[l].cost = order.lines[l].cost
                /\ order'.lines[l].received = order.lines[l].received + content[l]
                /\ order'.lines[l].received <= order'.lines[l].quantity
                /\ order.lines[l].received \in Nat /\ order.lines[l].quantity \in Nat /\ content[l] \in Nat
           /\ \A l \in Lines : l \notin Existing(order) => order.lines[l] = None /\ order'.lines[l] = None
           /\ order'.status = IF \A l \in Existing(order) : order'.lines[l].received >= order'.lines[l].quantity
                              THEN "RECEIVED" ELSE "PARTIALLY_RECEIVED"
<1> DEFINE lines == [l \in Lines |-> IF order.lines[l] = None THEN None
                                     ELSE [order.lines[l] EXCEPT !.received = @ + content[l]]]
<1>1. order' = [status |-> IF \A l \in Existing(order) : lines[l].received >= lines[l].quantity
                           THEN "RECEIVED" ELSE "PARTIALLY_RECEIVED",
                lines |-> lines]
  BY DEF Received
<1>2. ASSUME NEW l \in Lines, order.lines[l] # None
      PROVE  /\ lines[l] \in OrderLines
             /\ lines[l].quantity = order.lines[l].quantity
             /\ lines[l].cost = order.lines[l].cost
             /\ lines[l].received = order.lines[l].received + content[l]
             /\ lines[l].received <= lines[l].quantity
             /\ order.lines[l].received \in Nat /\ order.lines[l].quantity \in Nat /\ content[l] \in Nat
  <2>1. PICK line : line = order.lines[l]
    OBVIOUS
  <2>2. line \in OrderLines
    BY <1>2, <2>1 DEF TypeOK, Orders, Or
  <2>3. content[l] \in Nat /\ content[l] <= line.quantity - line.received
    BY <1>2, <2>1, Bounds DEF Quantities, Remaining
  <2>4. lines[l] = [line EXCEPT !.received = line.received + content[l]]
    BY <1>2, <2>1
  <2>5. /\ line.quantity \in 1..Largest /\ line.received \in 0..Largest /\ line.cost \in Costs
        /\ line = [quantity |-> line.quantity, cost |-> line.cost, received |-> line.received]
    BY <2>2 DEF OrderLines
  <2> HIDE DEF lines
  <2>6. /\ lines[l].quantity = line.quantity /\ lines[l].cost = line.cost
        /\ lines[l].received = line.received + content[l]
        /\ lines[l] = [quantity |-> line.quantity, cost |-> line.cost, received |-> line.received + content[l]]
    BY <2>4, <2>5
  <2>7. line.received + content[l] \in 0..Largest /\ line.received + content[l] <= line.quantity
    BY <2>3, <2>5, Bounds
  <2>8. lines[l] \in OrderLines
    BY <2>5, <2>6, <2>7 DEF OrderLines
  <2>9. line.received \in Nat /\ line.quantity \in Nat
    BY <2>5, Bounds
  <2>10. QED
    BY <2>1, <2>3, <2>6, <2>7, <2>8, <2>9
<1>3. \A l \in Lines : order.lines[l] = None => lines[l] = None
  OBVIOUS
<1>4. lines \in [Lines -> Or(OrderLines)]
  BY <1>2, <1>3 DEF Or
<1> HIDE DEF lines
<1>5. order' \in Orders /\ order'.lines = lines
  BY <1>1, <1>4 DEF Orders, Statuses
<1>6. Existing(order') = Existing(order)
  BY <1>2, <1>3, <1>5, Bounds DEF Existing
<1>7. order'.status = IF \A l \in Existing(order) : order'.lines[l].received >= order'.lines[l].quantity
                      THEN "RECEIVED" ELSE "PARTIALLY_RECEIVED"
  BY <1>1, <1>5
<1>8. QED
  BY <1>2, <1>3, <1>5, <1>6, <1>7 DEF Existing

(* A receipt is added to its lines, and to the receipts, once.              *)
LEMMA WrittenReceipt ==
    ASSUME PurchasingAssumption, TypeOK, OrderInv, NEW r \in pending, Asks(r), r.kind = "receive",
           Accepts(r), ~Replayed(r), order' = Written(r),
           receipts' = [receipts EXCEPT ![r.key] = r.content], UNCHANGED <<catalog, placedBy>>
    PROVE  ServerTypes' /\ OrderInv' /\ \A l \in Lines : Delivered(l) => Delivered(l)'
<1> DEFINE content == r.content
<1>1. /\ content \in Quantities /\ (\E l \in Lines : content[l] > 0)
      /\ (\A l \in Lines : content[l] <= Remaining(order, l)) /\ order' = Received(content)
      /\ order.status \in {"ORDERED", "PARTIALLY_RECEIVED"}
  BY DEF Asks, Accepts, Written, Receivable
<1>2. r.key \in Keys /\ receipts[r.key] = None
  BY DEF TypeOK, Requests, Replayed
<1>3. receipts' = [receipts EXCEPT ![r.key] = content]
  OBVIOUS
<1> HIDE DEF content
<1>4. /\ order' \in Orders
      /\ Existing(order') = Existing(order)
      /\ \A l \in Existing(order) :
            /\ order'.lines[l].quantity = order.lines[l].quantity
            /\ order'.lines[l].received = order.lines[l].received + content[l]
            /\ order'.lines[l].received <= order'.lines[l].quantity
            /\ order.lines[l].received \in Nat /\ order.lines[l].quantity \in Nat /\ content[l] \in Nat
      /\ order'.status = IF \A l \in Existing(order) : order'.lines[l].received >= order'.lines[l].quantity
                         THEN "RECEIVED" ELSE "PARTIALLY_RECEIVED"
  BY <1>1, ReceivedLines
<1>5. receipts' \in [Keys -> Or(Quantities)]
  BY <1>1, <1>2, <1>3 DEF TypeOK, Or
<1>6. content # None
  BY <1>1, Bounds
<1>7. ASSUME NEW l \in Existing(order)
      PROVE  order'.lines[l].received =
                SumFunction([k \in Keys |-> IF receipts'[k] = None THEN 0 ELSE receipts'[k][l]])
  <2> DEFINE f == [k \in Keys |-> IF receipts[k] = None THEN 0 ELSE receipts[k][l]]
             g == [k \in Keys |-> IF receipts'[k] = None THEN 0 ELSE receipts'[k][l]]
  <2>1. l \in Lines
    BY DEF Existing
  <2>2. f \in [Keys -> Int] /\ g \in [Keys -> Int]
    <3>1. \A q \in Quantities : q[l] \in Int
      BY <2>1 DEF Quantities
    <3>2. QED
      BY <1>5, <3>1 DEF TypeOK, Or
  <2>3. f[r.key] = 0 /\ g[r.key] = content[l] /\ \A k \in Keys \ {r.key} : g[k] = f[k]
    BY <1>2, <1>3, <1>6 DEF TypeOK
  <2>4. IsFiniteSet(Keys)
    BY Bounds, FS_Interval DEF Keys
  <2>5. order.lines[l].received = SumFunction(f)
    BY DEF OrderInv, ReceiptsAddUp
  <2> HIDE DEF f, g
  <2>6. SumFunction(g) = SumFunction(f) - f[r.key] + g[r.key]
    BY <1>2, <2>2, <2>3, <2>4, SumOfChanged
  <2>7. order'.lines[l].received = SumFunction(g)
    BY <1>4, <2>3, <2>5, <2>6
  <2>8. QED
    BY <2>7 DEF g
<1>8. ReceiptsAddUp'
  BY <1>4, <1>7 DEF ReceiptsAddUp
<1>9. PICK m \in Existing(order) : content[m] > 0
  <2>1. PICK m \in Lines : content[m] > 0
    BY <1>1
  <2>2. order.lines[m] # None
    BY <1>1, <2>1 DEF Remaining, Quantities
  <2>3. QED
    BY <2>1, <2>2 DEF Existing
<1>10. order'.lines[m].received > 0
  BY <1>4, <1>9
<1>11. StatusFollowsLines'
  <2>1. CASE \A l \in Existing(order) : order'.lines[l].received >= order'.lines[l].quantity
    <3>1. \A l \in Existing(order) : order'.lines[l].received = order'.lines[l].quantity
      BY <1>4, <2>1
    <3>2. order'.status = "RECEIVED"
      BY <1>4, <2>1
    <3>3. QED
      BY <1>4, <1>10, <3>1, <3>2 DEF StatusFollowsLines
  <2>2. CASE \E l \in Existing(order) : ~(order'.lines[l].received >= order'.lines[l].quantity)
    <3>1. PICK l \in Existing(order) : order'.lines[l].received # order'.lines[l].quantity
      BY <1>4, <2>2
    <3>2. order'.status = "PARTIALLY_RECEIVED"
      BY <1>4, <2>2
    <3>3. QED
      BY <1>4, <1>10, <3>1, <3>2 DEF StatusFollowsLines
  <2>3. QED
    BY <2>1, <2>2
<1>12. NoneBefore'
  BY <1>4 DEF NoneBefore
<1>13. ServerTypes'
  BY <1>4, <1>5 DEF ServerTypes, TypeOK
<1>14. ASSUME NEW l \in Lines, Delivered(l) PROVE Delivered(l)'
  <2>1. l \in Existing(order) /\ l \in Existing(order')
    BY <1>4, <1>14 DEF Delivered, Existing
  <2>2. order'.lines[l].received > 0
    BY <1>4, <1>14, <2>1 DEF Delivered
  <2>3. QED
    BY <2>1, <2>2 DEF Delivered, Existing
<1>15. QED
  BY <1>8, <1>11, <1>12, <1>13, <1>14 DEF OrderInv

(* Reviewed costs go to products of lines that were received.               *)
LEMMA WrittenCosts ==
    ASSUME PurchasingAssumption, TypeOK, OrderInv, ProposalsAreReceived, NEW r \in pending, Asks(r), r.kind = "apply",
           order' = Written(r), UNCHANGED <<receipts, placedBy>>,
           catalog' = [l \in Lines |-> IF r.expected[l] = None THEN catalog[l] ELSE order.lines[l].cost]
    PROVE  ServerTypes' /\ OrderInv' /\ \A l \in Lines : Delivered(l) => Delivered(l)'
<1>1. order' = order
  BY DEF Written
<1>2. OrderInv'
  BY <1>1, OrderStays
<1>3. ASSUME NEW l \in Lines, r.expected[l] # None PROVE order.lines[l].cost \in Costs
  <2>1. order.lines[l] \in OrderLines
    BY <1>3 DEF ProposalsAreReceived, Delivered, TypeOK, Orders, Or
  <2>2. QED
    BY <2>1 DEF OrderLines
<1>4. catalog' \in [Lines -> Costs]
  BY <1>3 DEF TypeOK
<1>5. QED
  BY <1>1, <1>2, <1>4 DEF ServerTypes, TypeOK, Delivered

LEMMA ServeInv ==
    ASSUME PurchasingAssumption, PurchasingInv, NEW r \in pending, Serve(r)
    PROVE  PurchasingInv'
<1> USE DEF PurchasingInv
<1>1. UNCHANGED <<rows, receiptForm, made, edits>>
  BY DEF Serve
<1>2. Asks(r) /\ r.kind \in AllKinds /\ r.clerk \in Clerks
  BY DEF PageInv, Asked, TypeOK, Requests
<1>3. /\ \E step \in AnswerSteps : Answered(r, step)
      /\ ServerTypes' /\ OrderInv' /\ \A l \in Lines : Delivered(l) => Delivered(l)'
  <2>1. CASE UNCHANGED server
    <3>1. OrderInv' /\ ServerTypes' /\ \A l \in Lines : Delivered(l) => Delivered(l)'
      BY <2>1, OrderStays DEF server, ServerTypes, TypeOK, Delivered
    <3>2. QED
      BY <3>1 DEF Serve, AnswerSteps
  <2>2. CASE ~Replayed(r) /\ Accepts(r)
    <3>1. /\ Answered(r, "done") /\ order' = Written(r)
          /\ receipts' = IF r.kind = "receive" THEN [receipts EXCEPT ![r.key] = r.content] ELSE receipts
          /\ placedBy' = IF r.kind = "place" THEN r.clerk ELSE placedBy
          /\ catalog' = IF r.kind # "apply" THEN catalog
                        ELSE [l \in Lines |-> IF r.expected[l] = None THEN catalog[l] ELSE order.lines[l].cost]
      BY <2>2 DEF Serve
    <3>2. CASE r.kind \in {"add", "update", "remove", "place", "cancel"}
      <4>1. UNCHANGED <<receipts, catalog>> /\ placedBy' \in Or(Clerks)
        BY <1>2, <3>1, <3>2 DEF TypeOK, Or
      <4>2. QED
        BY <1>2, <2>2, <3>1, <3>2, <4>1, WrittenBefore DEF AnswerSteps
    <3>3. CASE r.kind = "receive"
      BY <1>2, <2>2, <3>1, <3>3, WrittenReceipt DEF AnswerSteps
    <3>4. CASE r.kind = "apply"
      BY <1>2, <2>2, <3>1, <3>4, WrittenCosts DEF AnswerSteps, PageInv
    <3>5. QED
      BY <1>2, <3>2, <3>3, <3>4 DEF AllKinds
  <2>3. QED
    BY <2>1, <2>2 DEF Serve
<1>4. PICK step \in AnswerSteps : Answered(r, step)
  BY <1>3
<1>5. pending' \subseteq Requests /\ PageInv'
  BY <1>1, <1>3, <1>4, AnsweredKeeps DEF rows
<1>6. TypeOK'
  BY <1>1, <1>3, <1>5 DEF TypeOK, ServerTypes, rows, receiptForm
<1>7. QED
  BY <1>3, <1>5, <1>6

-----------------------------------------------------------------------------
(* The answers arrive, or do not *)

LEMMA FewerRequests ==
    ASSUME PurchasingInv, pending' \subseteq pending, UNCHANGED <<server, seen, seenCosts, made>>
    PROVE  pending' \subseteq Requests /\ PageInv' /\ OrderInv'
<1> USE DEF PurchasingInv
<1>1. OrderInv'
  BY OrderStays DEF server
<1>2. pending' \subseteq Requests
  BY DEF TypeOK
<1>3. PageInv'
  BY DEF PageInv, Asked, Asks, AppliesDiffer, ProposalsAreReceived, SeenFits, Delivered, server
<1>4. QED
  BY <1>1, <1>2, <1>3

LEMMA SucceedInv ==
    ASSUME PurchasingInv, NEW r \in pending, Succeed(r)
    PROVE  PurchasingInv'
<1> USE DEF PurchasingInv
<1>1. UNCHANGED <<server, seen, seenCosts, values, made, edits>> /\ pending' \subseteq pending
  BY DEF Succeed
<1>2. reading' \in [Clerks -> SUBSET {"orders", "receipts"}]
  BY DEF Succeed, TypeOK
<1>3. selected' \in [Clerks -> SUBSET Lines]
  BY DEF Succeed, TypeOK
<1>4. form' \in [Clerks -> Or([typed: Quantities, remaining: Quantities])]
  BY DEF Succeed, TypeOK, Or
<1>5. attempt' \in [Clerks -> Or([content: Quantities, key: Keys])]
  BY DEF Succeed, TypeOK, Or
<1>6. pending' \subseteq Requests /\ PageInv' /\ OrderInv'
  BY <1>1, FewerRequests
<1>7. TypeOK'
  BY <1>1, <1>2, <1>3, <1>4, <1>5, <1>6 DEF TypeOK, server
<1>8. QED
  BY <1>6, <1>7

LEMMA FailInv ==
    ASSUME PurchasingInv, NEW r \in pending, Fail(r)
    PROVE  PurchasingInv'
<1> USE DEF PurchasingInv
<1>1. UNCHANGED <<server, rows, receiptForm, made, edits>> /\ pending' \subseteq pending
  BY DEF Fail
<1>2. pending' \subseteq Requests /\ PageInv' /\ OrderInv'
  BY <1>1, FewerRequests DEF rows
<1>3. TypeOK'
  BY <1>1, <1>2 DEF TypeOK, server, rows, receiptForm
<1>4. QED
  BY <1>2, <1>3

LEMMA NextInv ==
    ASSUME PurchasingAssumption, PurchasingInv, Next
    PROVE  PurchasingInv'
<1>1. ASSUME NEW c \in Clerks, NEW l \in Lines,
             \/ \E v \in Values : TypeLine(c, l, v)
             \/ Blur(c, l) \/ AddLine(c, l) \/ RemoveLine(c, l)
             \/ \E q \in 0..Largest : TypeReceipt(c, l, q)
             \/ Select(c, l)
      PROVE  PurchasingInv'
  BY <1>1, TypingInv, DraftingInv
<1>2. ASSUME NEW c \in Clerks,
             \/ ReadOrder(c) \/ ReadReceipts(c) \/ Place(c) \/ CancelOrder(c)
             \/ OpenReceipt(c) \/ CloseReceipt(c) \/ Submit(c) \/ Apply(c)
      PROVE  PurchasingInv'
  BY <1>2, ReadOrderInv, ReadReceiptsInv, DecidingInv, OpeningInv, SubmitInv
<1>3. ASSUME NEW r \in pending, Serve(r) \/ Succeed(r) \/ Fail(r) PROVE PurchasingInv'
  BY <1>3, ServeInv, SucceedInv, FailInv
<1>4. QED
  BY <1>1, <1>2, <1>3, ChangeCostInv DEF Next

LEMMA PurchasingInvariant == ASSUME PurchasingAssumption PROVE Spec => []PurchasingInv
<1>1. Init => PurchasingInv
  BY InitInv
<1>2. PurchasingInv /\ [Next]_vars => PurchasingInv'
  <2> SUFFICES ASSUME PurchasingInv, [Next]_vars PROVE PurchasingInv'
    OBVIOUS
  <2>1. CASE Next
    BY <2>1, NextInv
  <2>2. CASE UNCHANGED vars
    <3>1. UNCHANGED <<server, rows, receiptForm, pending, made, edits>>
      BY <2>2 DEF vars
    <3>2. pending' \subseteq Requests /\ PageInv' /\ OrderInv'
      BY <3>1, FewerRequests DEF rows
    <3>3. TypeOK'
      BY <3>1 DEF PurchasingInv, TypeOK, server, rows, receiptForm
    <3>4. QED
      BY <3>2, <3>3 DEF PurchasingInv
  <2>3. QED
    BY <2>1, <2>2
<1>3. QED
  BY <1>1, <1>2, PTL DEF Spec

(* Whoever receives an order, and whatever is sent again under its key, its  *)
(* lines hold what its receipts hold, each once and never more than was      *)
(* ordered, and its status says what was received (receive_order).          *)
THEOREM OrdersAddUp == ASSUME PurchasingAssumption PROVE Spec => []GoodsAddUp
<1>1. PurchasingInv => GoodsAddUp
  BY DEF PurchasingInv, OrderInv, GoodsAddUp
<1>2. QED
  BY <1>1, PurchasingInvariant, PTL

-----------------------------------------------------------------------------
(* What no step does *)

(* A handler changes no line of an order that was placed: receipts leave     *)
(* what was ordered, and its costs, alone.                                  *)
LEMMA ServePlaced ==
    ASSUME PurchasingAssumption, PurchasingInv, NEW r \in pending, Serve(r)
    PROVE  PlacedLinesStay
<1> USE DEF PurchasingInv
<1> SUFFICES ASSUME order.status # "DRAFT", NEW l \in Lines
             PROVE  ValuesOf(order'.lines[l]) = ValuesOf(order.lines[l])
  BY DEF PlacedLinesStay
<1>1. CASE order' = order
  BY <1>1
<1>2. CASE order' # order
  <2>1. Accepts(r) /\ order' = Written(r)
    BY <1>2 DEF Serve, server
  <2>2. Asks(r) /\ r.kind \in AllKinds
    BY DEF PageInv, Asked, TypeOK, Requests
  <2>3. r.kind \in {"cancel", "receive", "apply"}
    BY <2>1, <2>2 DEF Accepts, AllKinds
  <2>4. CASE r.kind \in {"cancel", "apply"}
    <3>1. order'.lines = order.lines
      BY <2>1, <2>4 DEF Written, TypeOK, Orders
    <3>2. QED
      BY <3>1
  <2>5. CASE r.kind = "receive"
    <3>1. /\ r.content \in Quantities /\ (\A m \in Lines : r.content[m] <= Remaining(order, m))
          /\ order' = Received(r.content)
      BY <2>1, <2>2, <2>5 DEF Asks, Accepts, Written
    <3>2. /\ Existing(order') = Existing(order)
          /\ \A m \in Existing(order) : /\ order'.lines[m].quantity = order.lines[m].quantity
                                        /\ order'.lines[m].cost = order.lines[m].cost
          /\ \A m \in Lines : m \notin Existing(order) => order.lines[m] = None /\ order'.lines[m] = None
      BY <3>1, ReceivedLines
    <3>3. CASE l \in Existing(order)
      BY <3>2, <3>3 DEF ValuesOf, Existing
    <3>4. CASE l \notin Existing(order)
      BY <3>2, <3>4
    <3>5. QED
      BY <3>3, <3>4
  <2>6. QED
    BY <2>3, <2>4, <2>5
<1>3. QED
  BY <1>1, <1>2

(* A request that changes costs has compared them, and it is the one that    *)
(* is answered.                                                             *)
LEMMA ServeReviewed ==
    ASSUME PurchasingAssumption, PurchasingInv, NEW r \in pending, Serve(r)
    PROVE  ReviewedCostsOnly
<1> USE DEF PurchasingInv
<1> SUFFICES ASSUME NEW s \in pending, s.kind = "apply", s.step = "sent", [s EXCEPT !.step = "done"] \in pending',
                    NEW l \in Lines, catalog'[l] # catalog[l]
             PROVE  catalog[l] = s.expected[l]
  BY Zenon DEF ReviewedCostsOnly
<1>1. r \in Requests /\ s \in Requests
  BY DEF TypeOK
<1>2. /\ r.kind = "apply" /\ Accepts(r) /\ Answered(r, "done")
      /\ catalog' = [m \in Lines |-> IF r.expected[m] = None THEN catalog[m] ELSE order.lines[m].cost]
  BY DEF Serve, server
<1>3. r = s
  <2> DEFINE after == [s EXCEPT !.step = "done"]
             other == [r EXCEPT !.step = "done"]
  <2>1. after \in (pending \ {r}) \cup {other}
    BY <1>2 DEF Answered
  <2>2. /\ after.kind = s.kind /\ after.key = s.key /\ after.step = "done"
        /\ other.kind = r.kind /\ other.key = r.key
    BY <1>1 DEF Requests
  <2> HIDE DEF after, other
  <2>3. CASE after = other
    BY <1>2, <2>2, <2>3 DEF PageInv, AppliesDiffer
  <2>4. CASE after \in pending
    <3>1. after = s
      BY <2>2, <2>4 DEF PageInv, AppliesDiffer
    <3>2. QED
      BY <2>2, <3>1
  <2>5. QED
    BY <2>1, <2>3, <2>4
<1>4. r.expected[l] # None /\ catalog'[l] = order.lines[l].cost
  BY <1>2
<1>5. catalog[l] \in {order.lines[l].cost, r.expected[l]}
  BY <1>2, <1>4 DEF Accepts
<1>6. QED
  BY <1>3, <1>4, <1>5

(* Costs that change elsewhere answer no request.                           *)
LEMMA ElsewhereReviewed ==
    ASSUME PurchasingInv, UNCHANGED pending
    PROVE  ReviewedCostsOnly
<1> SUFFICES ASSUME NEW s \in pending, s.kind = "apply", s.step = "sent", [s EXCEPT !.step = "done"] \in pending
             PROVE  FALSE
  BY Zenon DEF ReviewedCostsOnly
<1> DEFINE after == [s EXCEPT !.step = "done"]
<1>1. s \in Requests
  BY DEF PurchasingInv, TypeOK
<1>2. after.kind = s.kind /\ after.key = s.key /\ after.step = "done"
  BY <1>1 DEF Requests
<1>3. after \in pending
  OBVIOUS
<1> HIDE DEF after
<1>4. after = s
  BY <1>2, <1>3 DEF PurchasingInv, PageInv, AppliesDiffer
<1>5. QED
  BY <1>2, <1>4

(* No late edit reaches an order that was placed (update_line, add_line,     *)
(* remove_line), and received costs replace only the costs that the clerk    *)
(* was shown (apply_receipt_costs).                                         *)
THEOREM OrdersChangeAsSeen == ASSUME PurchasingAssumption PROVE Spec => NothingChangesUnseen
<1>1. PurchasingInv /\ [Next]_vars => ChangesAreSeen
  <2> SUFFICES ASSUME PurchasingInv, [Next]_vars PROVE ChangesAreSeen
    OBVIOUS
  <2>1. ASSUME UNCHANGED <<order, catalog>> PROVE ChangesAreSeen
    BY <2>1 DEF ChangesAreSeen, PlacedLinesStay, ReviewedCostsOnly
  <2>2. CASE \E c \in Clerks :
                \/ ReadOrder(c) \/ ReadReceipts(c) \/ Place(c) \/ CancelOrder(c)
                \/ OpenReceipt(c) \/ CloseReceipt(c) \/ Submit(c) \/ Apply(c)
    BY <2>1, <2>2 DEF ReadOrder, ReadReceipts, Place, CancelOrder, OpenReceipt, CloseReceipt, Submit, Apply, Touch,
                      Send, server
  <2>3. CASE \E c \in Clerks : \E l \in Lines :
                \/ \E v \in Values : TypeLine(c, l, v)
                \/ Blur(c, l) \/ AddLine(c, l) \/ RemoveLine(c, l)
                \/ \E q \in 0..Largest : TypeReceipt(c, l, q)
                \/ Select(c, l)
    BY <2>1, <2>3 DEF TypeLine, Blur, AddLine, RemoveLine, TypeReceipt, Touch, Select, Send, server
  <2>4. CASE \E l \in Lines, cost \in Costs : ChangeCost(l, cost)
    <3>1. UNCHANGED <<order, pending>>
      BY <2>4 DEF ChangeCost
    <3>2. QED
      BY <3>1, ElsewhereReviewed DEF ChangesAreSeen, PlacedLinesStay
  <2>5. CASE \E r \in pending : Serve(r)
    BY <2>5, ServePlaced, ServeReviewed DEF ChangesAreSeen
  <2>6. CASE \E r \in pending : Succeed(r) \/ Fail(r)
    BY <2>1, <2>6 DEF Succeed, Fail, server
  <2>7. CASE UNCHANGED vars
    BY <2>1, <2>7 DEF vars, server
  <2>8. QED
    BY <2>2, <2>3, <2>4, <2>5, <2>6, <2>7, Zenon DEF Next
<1>2. QED
  BY <1>1, PurchasingInvariant, PTL DEF NothingChangesUnseen, Spec
-----------------------------------------------------------------------------
(* The form of a new order.                                                 *)

(* If a row asks for nothing more, the answer it waits for is its own; and  *)
(* if it does not wait, it shows nothing, its own estimate, or the one it   *)
(* came with.                                                               *)
Listens(row, S) ==
    row.cost # Unset /\ ~row.due =>
        /\ row.ask # 0 => \A a \in S : a.seq = row.ask => a.for = Current(row)
        /\ row.ask = 0 /\ ~row.failed => row.shown \in {Unset, Current(row), row.estimate}

\* `S`: the estimates that are being worked out, of `n` that were asked for
RowInv(row, S, n) ==
    /\ row \in StagedLines
    /\ row.due => row.cost # Unset
    /\ row.ask <= n
    /\ Listens(row, S)

AsksType == [seq: 1..LastAsk, row: 0..MostRows, for: Estimates]
SentOrders == [opening: 1..LastOpening, lines: Contents]

\* What is being entered
EnteringInv ==
    /\ entry \in Entries
    /\ entry.due => entry.product # Unset /\ entry.cost # Unset
    /\ table \in Seq(StagedLines) /\ Len(table) <= MostRows
    /\ asks \subseteq AsksType /\ asked \in 0..LastAsk
    /\ \A a \in asks : a.seq <= asked
    /\ \A i \in DOMAIN table : RowInv(table[i], asks, asked)
    /\ strokes \in 0..LastStroke

\* The page, and what was sent
SendingInv ==
    /\ {opening, openings} \subseteq 0..LastOpening
    /\ creating \in Maybe(Creations)
    /\ orders \in Seq(SentOrders)

EntryInv == EnteringInv /\ SendingInv

LEMMA EntryBounds ==
    ASSUME OrderEntryAssumption
    PROVE  /\ 0 \in CostsTyped /\ 1 \in CostsTyped
           /\ MostRows \in Nat /\ LastAsk \in Nat /\ LastStroke \in Nat /\ LastOpening \in Nat /\ MostOrders \in Nat
           /\ Unset \notin CostsTyped /\ Unset \notin Articles /\ Unset \notin Creations
           /\ 0 \in 0..LastAsk
BY DEF OrderEntryAssumption

-----------------------------------------------------------------------------
(* What becomes of a row                                                    *)

LEMMA CorrectedRow ==
    ASSUME NEW row, NEW S, NEW n, RowInv(row, S, n), NEW c \in Maybe(CostsTyped)
    PROVE  RowInv(Corrected(row, c), S, n) /\ ~Settled(Corrected(row, c))
<1> DEFINE new == Corrected(row, c)
<1>1. row \in StagedLines /\ row.ask <= n
  BY DEF RowInv
<1>2. new \in StagedLines /\ new.cost = c /\ new.due = (c # Unset) /\ new.ask = row.ask
  BY <1>1 DEF Corrected, StagedLines, Maybe
<1> HIDE DEF new
<1>3. RowInv(new, S, n) /\ ~Settled(new)
  BY <1>1, <1>2 DEF RowInv, Listens, Settled
<1>4. QED
  BY <1>3 DEF new

(* A row that takes the place of another is as good as the two were.        *)
LEMMA MovedRow ==
    ASSUME OrderEntryAssumption, NEW row, NEW to, NEW S, NEW n \in Nat, RowInv(row, S, n), RowInv(to, S, n)
    PROVE  RowInv(Moved(row, to), S, n)
<1> DEFINE new == Moved(row, to)
<1>1. row \in StagedLines /\ to \in StagedLines
  BY DEF RowInv
<1>2. CASE row.product # to.product
  <2>1. new = [row EXCEPT !.shown = row.estimate, !.due = row.cost # Unset, !.ask = 0, !.failed = FALSE]
    BY <1>2 DEF Moved, Fresh
  <2>2. new \in StagedLines /\ new.cost = row.cost /\ new.due = (row.cost # Unset) /\ new.ask = 0
    BY <1>1, <2>1, EntryBounds DEF StagedLines
  <2> HIDE DEF new
  <2>3. new.due <=> new.cost # Unset
    BY <2>2
  <2>4. RowInv(new, S, n)
    BY <2>2, <2>3 DEF RowInv, Listens
  <2>5. QED
    BY <2>4 DEF new
<1>3. CASE row.product = to.product
  <2> DEFINE shows == CASE row.cost = Unset /\ to.cost # Unset -> Unset
                        [] row.estimate # to.estimate -> row.estimate
                        [] OTHER -> to.shown
             due == IF row.cost = to.cost THEN to.due ELSE row.cost # Unset
  <2>1. /\ new \in StagedLines /\ new.product = row.product /\ new.cost = row.cost
        /\ new.estimate = row.estimate
        /\ new.ask = to.ask /\ new.failed = to.failed
        /\ new.due = due /\ new.shown = shows
    <3>1. new = [row EXCEPT !.shown = shows, !.due = due, !.ask = to.ask, !.failed = to.failed]
      BY <1>3 DEF Moved
    <3>2. shows \in Maybe(Estimates)
      BY <1>1 DEF StagedLines, Maybe
    <3>3. due \in BOOLEAN /\ to.ask \in 0..LastAsk /\ to.failed \in BOOLEAN
      BY <1>1 DEF StagedLines
    <3> HIDE DEF new, shows, due
    <3>4. QED
      BY <1>1, <3>1, <3>2, <3>3 DEF StagedLines
  <2> HIDE DEF new
  <2>2. new.due => new.cost # Unset
    BY <2>1 DEF RowInv
  <2>3. ASSUME new.cost # Unset, ~new.due
        PROVE  /\ to.cost = new.cost /\ ~to.due /\ Current(to) = Current(new)
               /\ new.shown \in {row.estimate, to.shown}
               /\ row.estimate # to.estimate => new.shown = row.estimate
    BY <2>1, <2>3, <1>3 DEF Current
  <2>4. Listens(new, S)
    <3> SUFFICES ASSUME new.cost # Unset, ~new.due
                 PROVE  /\ new.ask # 0 => \A a \in S : a.seq = new.ask => a.for = Current(new)
                        /\ new.ask = 0 /\ ~new.failed => new.shown \in {Unset, Current(new), new.estimate}
      BY DEF Listens
    <3>1. /\ to.ask # 0 => \A a \in S : a.seq = to.ask => a.for = Current(to)
          /\ to.ask = 0 /\ ~to.failed => to.shown \in {Unset, Current(to), to.estimate}
      BY <2>3 DEF RowInv, Listens
    <3>2. QED
      BY <3>1, <2>1, <2>3
  <2>5. RowInv(new, S, n)
    BY <2>1, <2>2, <2>4 DEF RowInv
  <2>6. QED
    BY <2>5 DEF new
<1>4. QED
  BY <1>2, <1>3

(* The last request of a row asks for its own estimate.                     *)
LEMMA AskedRow ==
    ASSUME OrderEntryAssumption, NEW row, NEW S, NEW n \in Nat, RowInv(row, S, n),
           n + 1 \in 1..LastAsk, \A a \in S : a.seq <= n,
           S \subseteq AsksType,
           NEW place \in 0..MostRows
    PROVE  LET new == [row EXCEPT !.due = FALSE, !.ask = n + 1, !.failed = FALSE]
               ask == [seq |-> n + 1, row |-> place, for |-> Estimate(row.product, row.cost)]
           IN  RowInv(new, S \cup {ask}, n + 1) /\ ~Settled(new)
<1> DEFINE new == [row EXCEPT !.due = FALSE, !.ask = n + 1, !.failed = FALSE]
           ask == [seq |-> n + 1, row |-> place, for |-> Estimate(row.product, row.cost)]
<1>1. row \in StagedLines
  BY DEF RowInv
<1>2. new \in StagedLines /\ ~new.due /\ new.ask = n + 1 /\ new.product = row.product /\ new.cost = row.cost
  <2>1. n + 1 \in 0..LastAsk
    BY EntryBounds
  <2>2. QED
    BY <1>1, <2>1 DEF StagedLines
<1>3. ask.seq = n + 1 /\ ask.for = Estimate(row.product, row.cost)
  OBVIOUS
<1> HIDE DEF new, ask
<1>4. ask.for = Current(new)
  BY <1>2, <1>3 DEF Current
<1>5. \A a \in S : a.seq # n + 1
  BY DEF AsksType
<1>6. Listens(new, S \cup {ask})
  BY <1>2, <1>4, <1>5 DEF Listens
<1>7. RowInv(new, S \cup {ask}, n + 1) /\ ~Settled(new)
  BY <1>2, <1>6 DEF RowInv, Settled
<1>8. QED
  BY <1>7 DEF new, ask

(* The requests of others are nothing to a row.                             *)
LEMMA OtherAsked ==
    ASSUME OrderEntryAssumption, NEW row, NEW S, NEW n \in Nat, RowInv(row, S, n),
           NEW ask, ask.seq = n + 1
    PROVE  RowInv(row, S \cup {ask}, n + 1)
<1>1. row.ask \in Nat /\ row.ask <= n
  BY EntryBounds DEF RowInv, StagedLines
<1>2. ask.seq # row.ask
  BY <1>1
<1>3. Listens(row, S \cup {ask})
  BY <1>2 DEF RowInv, Listens
<1>4. QED
  BY <1>1, <1>3 DEF RowInv

LEMMA FewerAsks ==
    ASSUME NEW row, NEW S, NEW n, RowInv(row, S, n), NEW T, T \subseteq S
    PROVE  RowInv(row, T, n)
BY DEF RowInv, Listens

(* A row that hears an answer shows its own estimate.                       *)
LEMMA HeardRow ==
    ASSUME OrderEntryAssumption, NEW row, NEW S, S \subseteq AsksType, NEW n \in Nat, RowInv(row, S, n),
           NEW a \in S, NEW i
    PROVE  LET new == Heard(row, a, i, a.for, FALSE)
           IN  /\ RowInv(new, S \ {a}, n)
               /\ Settled(new) => new = row \/ new.shown = Current(new)
<1> DEFINE new == Heard(row, a, i, a.for, FALSE)
<1>1. CASE row.ask = a.seq
  <2>1. row \in StagedLines /\ a.seq \in 1..LastAsk /\ a.for \in Estimates /\ row.ask <= n
    BY DEF RowInv, AsksType
  <2>2. new = [row EXCEPT !.shown = a.for, !.ask = 0, !.failed = FALSE]
    BY <1>1 DEF Heard, Hears
  <2>3. /\ new \in StagedLines /\ new.due = row.due /\ new.cost = row.cost /\ new.product = row.product
        /\ new.ask = 0 /\ new.shown = a.for
    BY <2>1, <2>2, EntryBounds DEF StagedLines, Maybe
  <2> HIDE DEF new
  <2>4. Current(new) = Current(row)
    BY <2>3 DEF Current
  <2>5. row.cost # Unset /\ ~row.due => a.for = Current(row)
    BY <1>1, <2>1 DEF RowInv, Listens
  <2>6. Listens(new, S \ {a})
    BY <2>3, <2>4, <2>5 DEF Listens
  <2>7. RowInv(new, S \ {a}, n)
    BY <2>3, <2>6 DEF RowInv
  <2>8. Settled(new) => new.shown = Current(new)
    BY <2>3, <2>4, <2>5 DEF Settled
  <2>9. QED
    BY <2>7, <2>8 DEF new
<1>2. CASE row.ask # a.seq
  <2>1. new = row
    BY <1>2 DEF Heard, Hears
  <2>2. RowInv(row, S \ {a}, n)
    BY FewerAsks
  <2>3. QED
    BY <2>1, <2>2
<1>3. QED
  BY <1>1, <1>2

LEMMA UnheardRow ==
    ASSUME OrderEntryAssumption, NEW row, NEW S, NEW n \in Nat, RowInv(row, S, n), NEW a \in S, NEW i
    PROVE  LET new == Heard(row, a, i, row.shown, TRUE)
           IN  RowInv(new, S \ {a}, n) /\ (Settled(new) => new = row)
<1> DEFINE new == Heard(row, a, i, row.shown, TRUE)
<1>1. CASE row.ask = a.seq
  <2>1. row \in StagedLines
    BY DEF RowInv
  <2>2. new = [row EXCEPT !.shown = row.shown, !.ask = 0, !.failed = TRUE]
    BY <1>1 DEF Heard, Hears
  <2>3. new \in StagedLines /\ new.due = row.due /\ new.cost = row.cost /\ new.ask = 0 /\ new.failed
    BY <2>1, <2>2, EntryBounds DEF StagedLines
  <2> HIDE DEF new
  <2>4. RowInv(new, S \ {a}, n) /\ ~Settled(new)
    BY <2>3 DEF RowInv, Listens, Settled
  <2>5. QED
    BY <2>4 DEF new
<1>2. CASE row.ask # a.seq
  <2>1. new = row
    BY <1>2 DEF Heard, Hears
  <2>2. RowInv(row, S \ {a}, n)
    BY FewerAsks
  <2>3. QED
    BY <2>1, <2>2
<1>3. QED
  BY <1>1, <1>2

-----------------------------------------------------------------------------
(* The steps *)

LEMMA FunctionIsSeq ==
    ASSUME NEW T, NEW n \in Nat, NEW f \in [1..n -> T]
    PROVE  f \in Seq(T) /\ Len(f) = n /\ DOMAIN f = 1..n
OBVIOUS

LEMMA EntryInvTypes == ASSUME EntryInv PROVE EntryTypeOK
<1>1. \A i \in DOMAIN table : table[i] \in StagedLines
  BY DEF EntryInv, EnteringInv, RowInv
<1>2. \A i \in DOMAIN orders : orders[i] \in [opening: 1..LastOpening, lines: Contents]
  <2>1. \A i \in DOMAIN orders : orders[i] \in SentOrders
    BY DEF EntryInv, SendingInv
  <2>2. QED
    BY <2>1 DEF SentOrders
<1>3. QED
  BY <1>1, <1>2 DEF EntryInv, EnteringInv, SendingInv, AsksType, EntryTypeOK

LEMMA EnteringKept ==
    ASSUME EnteringInv, UNCHANGED <<entry, table, asks, asked, strokes>>
    PROVE  EnteringInv'
BY DEF EnteringInv

LEMMA SendingKept ==
    ASSUME SendingInv, UNCHANGED page
    PROVE  SendingInv'
BY DEF SendingInv, page

LEMMA EmptyEntries ==
    ASSUME OrderEntryAssumption, NEW shown \in Maybe(Estimates), NEW ask \in 0..LastAsk
    PROVE  EmptyEntry(shown, ask) \in Entries /\ ~EmptyEntry(shown, ask).due
BY EntryBounds DEF EmptyEntry, Entries, Maybe

LEMMA EntryInitInv == ASSUME OrderEntryAssumption, EntryInit PROVE EntryInv
<1>1. entry \in Entries /\ ~entry.due
  BY EmptyEntries, EntryBounds DEF EntryInit, Maybe
<1>2. EnteringInv
  BY <1>1, EntryBounds DEF EntryInit, EnteringInv
<1>3. SendingInv
  BY EntryBounds DEF EntryInit, SendingInv, Maybe
<1>4. QED
  BY <1>2, <1>3 DEF EntryInv

LEMMA LeaveInv == ASSUME OrderEntryAssumption, EnteringInv, Leave PROVE EnteringInv' /\ table' = <<>>
<1>1. entry' \in Entries /\ ~entry'.due
  BY EmptyEntries, EntryBounds DEF Leave, Maybe
<1>2. QED
  BY <1>1, EntryBounds DEF Leave, EnteringInv

\* An edit of the line that is being entered
LEMMA LineInv ==
    ASSUME OrderEntryAssumption, EntryInv, Edit, UNCHANGED <<page, table, asks, asked>>,
           entry' \in Entries, entry'.due => entry'.product # Unset /\ entry'.cost # Unset
    PROVE  EntryInv'
<1>1. strokes' \in 0..LastStroke
  BY EntryBounds DEF Edit, EntryInv, EnteringInv
<1>2. EnteringInv'
  BY <1>1 DEF EntryInv, EnteringInv
<1>3. QED
  BY <1>2, SendingKept DEF EntryInv

LEMMA LineEditsInv ==
    ASSUME OrderEntryAssumption, EntryInv,
           (\E p \in Articles : Choose(p)) \/ Search \/ (\E c \in Maybe(CostsTyped) : TypeCost(c))
    PROVE  EntryInv' /\ UNCHANGED table
<1>0. entry \in Entries
  BY DEF EntryInv, EnteringInv
<1>1. ASSUME NEW p \in Articles, Choose(p) PROVE EntryInv' /\ UNCHANGED table
  <2>1. entry' \in Entries /\ entry'.product = p /\ entry'.cost = 1
    BY <1>0, <1>1, EntryBounds DEF Choose, Entries, Maybe
  <2>2. QED
    BY <1>1, <2>1, LineInv, EntryBounds DEF Choose
<1>2. ASSUME Search PROVE EntryInv' /\ UNCHANGED table
  <2>1. entry' \in Entries /\ ~entry'.due
    BY <1>0, <1>2 DEF Search, Entries, Maybe
  <2>2. QED
    BY <1>2, <2>1, LineInv DEF Search
<1>3. ASSUME NEW c \in Maybe(CostsTyped), TypeCost(c) PROVE EntryInv' /\ UNCHANGED table
  <2>1. entry' = [entry EXCEPT !.cost = c, !.due = entry.product # Unset /\ c # Unset]
    BY <1>3 DEF TypeCost
  <2>2. /\ entry' \in Entries /\ entry'.product = entry.product /\ entry'.cost = c
        /\ entry'.due = (entry.product # Unset /\ c # Unset)
    BY <1>0, <2>1 DEF Entries
  <2>3. entry'.due => entry'.product # Unset /\ entry'.cost # Unset
    BY <2>2
  <2>4. QED
    BY <1>3, <2>2, <2>3, LineInv DEF TypeCost
<1>4. QED
  BY <1>1, <1>2, <1>3

\* An edit of the rows
LEMMA RowsInv ==
    ASSUME OrderEntryAssumption, EntryInv, Edit, UNCHANGED <<page, asks, asked>>,
           entry' \in Entries, entry'.due => entry'.product # Unset /\ entry'.cost # Unset,
           NEW n \in 0..MostRows, table' \in [1..n -> StagedLines],
           \A i \in 1..n : RowInv(table'[i], asks, asked)
    PROVE  EntryInv' /\ Len(table') = n
<1>1. strokes' \in 0..LastStroke
  BY EntryBounds DEF Edit, EntryInv, EnteringInv
<1>2. n \in Nat /\ n <= MostRows
  BY EntryBounds
<1>3. table' \in Seq(StagedLines) /\ Len(table') = n /\ DOMAIN table' = 1..n
  BY <1>2, FunctionIsSeq
<1>4. EnteringInv'
  BY <1>1, <1>2, <1>3 DEF EntryInv, EnteringInv
<1>5. QED
  BY <1>3, <1>4, SendingKept DEF EntryInv

(* What a new row shows is being asked again.                               *)
LEMMA AddRowInv ==
    ASSUME OrderEntryAssumption, EntryInv, AddRow
    PROVE  EntryInv' /\ \A i \in DOMAIN table' : Settled(table'[i]) => i \in DOMAIN table /\ table'[i] = table[i]
<1> DEFINE n == Len(table)
           row == [product |-> entry.product, cost |-> entry.cost, estimate |-> entry.shown,
                   shown |-> entry.shown, due |-> TRUE, ask |-> 0, failed |-> FALSE]
<1>1. entry \in Entries /\ table \in Seq(StagedLines) /\ asked \in Nat /\ n \in Nat /\ n < MostRows
  BY EntryBounds DEF EntryInv, EnteringInv, AddRow
<1>2. row \in StagedLines /\ row.due /\ row.cost # Unset /\ row.ask = 0
  BY <1>1, EntryBounds DEF AddRow, StagedLines, Entries, Maybe
<1>3. table' = Append(table, row)
  BY DEF AddRow
<1> HIDE DEF row
<1>4. table' \in [1..(n + 1) -> StagedLines] /\ table'[n + 1] = row /\ \A i \in 1..n : table'[i] = table[i]
  <2>1. /\ table' \in Seq(StagedLines) /\ Len(table') = n + 1
        /\ \A i \in 1..n : table'[i] = table[i]
        /\ table'[n + 1] = row
    BY <1>1, <1>2, <1>3, AppendProperties
  <2>2. QED
    BY <1>1, <2>1
<1>5. RowInv(row, asks, asked) /\ ~Settled(row)
  BY <1>1, <1>2 DEF RowInv, Listens, Settled
<1>6. \A i \in 1..n : RowInv(table[i], asks, asked)
  BY <1>1 DEF EntryInv, EnteringInv
<1> HIDE DEF n
<1>7. \A i \in 1..(n + 1) : RowInv(table'[i], asks, asked)
  BY <1>1, <1>4, <1>5, <1>6
<1>8. entry' \in Entries /\ ~entry'.due
  <2> DEFINE empty == EmptyEntry(entry.shown, entry.ask)
  <2>1. empty \in Entries /\ ~empty.due /\ entry.failed \in BOOLEAN
    BY <1>1, EmptyEntries DEF Entries
  <2>2. entry' = [empty EXCEPT !.failed = entry.failed]
    BY DEF AddRow
  <2> HIDE DEF empty
  <2>3. QED
    BY <2>1, <2>2 DEF Entries
<1>9. n + 1 \in 0..MostRows /\ Edit /\ UNCHANGED <<page, asks, asked>>
  BY <1>1, EntryBounds DEF AddRow
<1>10. EntryInv' /\ Len(table') = n + 1
  BY <1>4, <1>7, <1>8, <1>9, RowsInv
<1>11. DOMAIN table' = 1..(n + 1) /\ DOMAIN table = 1..n
  BY <1>1, <1>4 DEF n
<1>12. QED
  BY <1>1, <1>4, <1>5, <1>10, <1>11

(* A corrected row asks again, or says nothing.                             *)
LEMMA CorrectCostInv ==
    ASSUME OrderEntryAssumption, EntryInv, NEW i \in DOMAIN table, NEW c \in Maybe(CostsTyped), CorrectCost(i, c)
    PROVE  EntryInv' /\ \A j \in DOMAIN table' : Settled(table'[j]) => j \in DOMAIN table /\ table'[j] = table[j]
<1> DEFINE n == Len(table)
           new == Corrected(table[i], c)
<1>1. table \in Seq(StagedLines) /\ n \in 0..MostRows /\ DOMAIN table = 1..n /\ table \in [1..n -> StagedLines]
  BY EntryBounds DEF EntryInv, EnteringInv
<1>2. \A j \in 1..n : RowInv(table[j], asks, asked)
  BY <1>1 DEF EntryInv, EnteringInv
<1>3. RowInv(new, asks, asked) /\ ~Settled(new)
  BY <1>1, <1>2, CorrectedRow
<1>4. new \in StagedLines
  BY <1>3 DEF RowInv
<1>5. table' = [table EXCEPT ![i] = new]
  BY DEF CorrectCost
<1> HIDE DEF new, n
<1>6. table' \in [1..n -> StagedLines] /\ table'[i] = new /\ \A j \in 1..n : j # i => table'[j] = table[j]
  BY <1>1, <1>4, <1>5
<1>7. \A j \in 1..n : RowInv(table'[j], asks, asked)
  BY <1>2, <1>3, <1>6
<1>8. Edit /\ UNCHANGED <<page, asks, asked, entry>> /\ entry \in Entries
      /\ (entry.due => entry.product # Unset /\ entry.cost # Unset)
  BY DEF CorrectCost, EntryInv, EnteringInv
<1>9. EntryInv'
  BY <1>1, <1>6, <1>7, <1>8, RowsInv
<1>10. QED
  BY <1>1, <1>3, <1>6, <1>9

LEMMA RemoveRowInv ==
    ASSUME OrderEntryAssumption, EntryInv, NEW i \in DOMAIN table, RemoveRow(i)
    PROVE  EntryInv' /\ Len(table') < Len(table)
<1> DEFINE n == Len(table)
<1>1. table \in Seq(StagedLines) /\ n \in Nat /\ n <= MostRows /\ DOMAIN table = 1..n
      /\ table \in [1..n -> StagedLines] /\ asked \in Nat
  BY EntryBounds DEF EntryInv, EnteringInv
<1>2. n >= 1
  BY <1>1
<1>3. \A j \in 1..n : RowInv(table[j], asks, asked)
  BY <1>1 DEF EntryInv, EnteringInv
<1>4. table' = [j \in 1..(n - 1) |-> IF j < i THEN table[j] ELSE Moved(table[j + 1], table[j])]
  BY DEF RemoveRow
<1> HIDE DEF n
<1>5. ASSUME NEW j \in 1..(n - 1) PROVE RowInv(table'[j], asks, asked)
  <2>1. j \in 1..n /\ j + 1 \in 1..n
    BY <1>1, <1>2
  <2>2. RowInv(table[j], asks, asked) /\ RowInv(table[j + 1], asks, asked)
    BY <1>3, <2>1
  <2>3. RowInv(Moved(table[j + 1], table[j]), asks, asked)
    BY <1>1, <2>2, MovedRow
  <2>4. table'[j] \in {table[j], Moved(table[j + 1], table[j])}
    BY <1>4
  <2>5. QED
    BY <2>2, <2>3, <2>4
<1>6. table' \in [1..(n - 1) -> StagedLines]
  <2>1. \A j \in 1..(n - 1) : table'[j] \in StagedLines
    BY <1>5 DEF RowInv
  <2>2. QED
    BY <1>4, <2>1
<1>7. Edit /\ UNCHANGED <<page, asks, asked, entry>> /\ entry \in Entries
      /\ (entry.due => entry.product # Unset /\ entry.cost # Unset)
  BY DEF RemoveRow, EntryInv, EnteringInv
<1>8. n - 1 \in 0..MostRows
  BY <1>1, <1>2, EntryBounds
<1>9. EntryInv' /\ Len(table') = n - 1
  BY <1>5, <1>6, <1>7, <1>8, RowsInv
<1>10. QED
  BY <1>1, <1>9 DEF n

LEMMA AskEntryInv == ASSUME OrderEntryAssumption, EntryInv, AskEntry PROVE EntryInv' /\ UNCHANGED table
<1> DEFINE ask == [seq |-> asked + 1, row |-> 0, for |-> Estimate(entry.product, entry.cost)]
<1>1. entry \in Entries /\ entry.due /\ entry.product # Unset /\ entry.cost # Unset /\ asked \in 0..LastAsk
      /\ asks \subseteq AsksType /\ \A a \in asks : a.seq <= asked
  BY DEF EntryInv, EnteringInv, AskEntry
<1>2. asked' = asked + 1 /\ asked' \in 1..LastAsk /\ asked \in Nat
  BY <1>1, EntryBounds DEF AskEntry, Ask
<1>3. asks' = asks \cup {ask}
  BY <1>2 DEF AskEntry, Ask
<1>4. ask \in AsksType /\ ask.seq = asked'
  BY <1>1, <1>2, EntryBounds DEF AsksType, Estimate, Estimates, Entries, Maybe
<1> HIDE DEF ask
<1>5. asks' \subseteq AsksType /\ \A a \in asks' : a.seq <= asked'
  <2>1. \A a \in asks : a.seq \in Nat
    BY <1>1, EntryBounds DEF AsksType
  <2>2. QED
    BY <1>1, <1>2, <1>3, <1>4, <2>1
<1>6. entry' \in Entries /\ ~entry'.due
  <2>1. entry' = [entry EXCEPT !.due = FALSE, !.ask = asked', !.shown = Unset, !.failed = FALSE]
    BY DEF AskEntry
  <2>2. asked' \in 0..LastAsk
    BY <1>2, EntryBounds
  <2>3. QED
    BY <1>1, <2>1, <2>2 DEF Entries, Maybe
<1>7. UNCHANGED <<page, table, strokes>>
  BY DEF AskEntry
<1>8. ASSUME NEW i \in DOMAIN table PROVE RowInv(table[i], asks', asked')
  <2>1. RowInv(table[i], asks, asked)
    BY DEF EntryInv, EnteringInv
  <2>2. QED
    BY <1>2, <1>3, <1>4, <2>1, OtherAsked
<1>9. EnteringInv'
  <2>1. asked' \in 0..LastAsk
    BY <1>2, EntryBounds
  <2>2. table \in Seq(StagedLines) /\ Len(table) <= MostRows /\ strokes \in 0..LastStroke
    BY DEF EntryInv, EnteringInv
  <2>3. QED
    BY <1>5, <1>6, <1>7, <1>8, <2>1, <2>2 DEF EnteringInv
<1>10. QED
  BY <1>7, <1>9, SendingKept DEF EntryInv

LEMMA AskRowInv ==
    ASSUME OrderEntryAssumption, EntryInv, NEW i \in DOMAIN table, AskRow(i)
    PROVE  EntryInv' /\ \A j \in DOMAIN table' : Settled(table'[j]) => j \in DOMAIN table /\ table'[j] = table[j]
<1> DEFINE row == table[i]
           new == [row EXCEPT !.due = FALSE, !.ask = asked + 1, !.failed = FALSE]
           ask == [seq |-> asked + 1, row |-> i, for |-> Estimate(row.product, row.cost)]
           n == Len(table)
<1>1. /\ RowInv(row, asks, asked) /\ row \in StagedLines /\ row.due /\ row.cost # Unset
      /\ asked \in Nat /\ asks \subseteq AsksType /\ \A a \in asks : a.seq <= asked
  BY EntryBounds DEF EntryInv, EnteringInv, AskRow, RowInv
<1>2. asked' = asked + 1 /\ asked' \in 1..LastAsk
  BY <1>1, EntryBounds DEF AskRow, Ask
<1>3. table \in Seq(StagedLines) /\ n \in Nat /\ n <= MostRows /\ i \in 1..n /\ DOMAIN table = 1..n
      /\ table \in [1..n -> StagedLines]
  BY EntryBounds DEF EntryInv, EnteringInv
<1>4. asks' = asks \cup {ask}
  BY <1>2 DEF AskRow, Ask
<1>5. RowInv(new, asks', asked') /\ ~Settled(new)
  <2>1. i \in 0..MostRows
    BY <1>3, EntryBounds
  <2>2. QED
    BY <1>1, <1>2, <1>4, <2>1, AskedRow
<1>6. ask \in AsksType /\ ask.seq = asked'
  <2>1. i \in 0..MostRows
    BY <1>3, EntryBounds
  <2>2. Estimate(row.product, row.cost) \in Estimates
    BY <1>1 DEF Estimate, Estimates, StagedLines, Maybe
  <2>3. QED
    BY <1>2, <2>1, <2>2 DEF AsksType
<1>7. table' = [table EXCEPT ![i] = new]
  BY <1>2 DEF AskRow
<1>8. new \in StagedLines
  BY <1>5 DEF RowInv
<1>9. UNCHANGED <<page, entry, strokes>>
  BY DEF AskRow
<1> HIDE DEF ask, new, row, n
<1>10. table' \in [1..n -> StagedLines] /\ table'[i] = new /\ \A j \in 1..n : j # i => table'[j] = table[j]
  BY <1>3, <1>7, <1>8
<1>11. asks' \subseteq AsksType /\ \A a \in asks' : a.seq <= asked'
  <2>1. \A a \in asks : a.seq \in Nat
    BY <1>1, EntryBounds DEF AsksType
  <2>2. QED
    BY <1>1, <1>2, <1>4, <1>6, <2>1
<1>12. \A j \in 1..n : RowInv(table'[j], asks', asked')
  <2>1. \A j \in 1..n : RowInv(table[j], asks', asked')
    BY <1>1, <1>2, <1>3, <1>4, <1>6, OtherAsked DEF EntryInv, EnteringInv
  <2>2. QED
    BY <1>5, <1>10, <2>1
<1>13. table' \in Seq(StagedLines) /\ Len(table') = n /\ DOMAIN table' = 1..n
  BY <1>3, <1>10, FunctionIsSeq
<1>14. EnteringInv'
  <2>1. asked' \in 0..LastAsk
    BY <1>2, EntryBounds
  <2>2. entry \in Entries /\ (entry.due => entry.product # Unset /\ entry.cost # Unset) /\ strokes \in 0..LastStroke
    BY DEF EntryInv, EnteringInv
  <2>3. QED
    BY <1>3, <1>9, <1>11, <1>12, <1>13, <2>1, <2>2 DEF EnteringInv
<1>15. EntryInv'
  BY <1>9, <1>14, SendingKept DEF EntryInv
<1>16. QED
  BY <1>3, <1>5, <1>10, <1>13, <1>15

\* An answer, or none: `new[i]` is what becomes of row i.
LEMMA AnsweredInv ==
    ASSUME OrderEntryAssumption, EntryInv, NEW a \in asks, asks' = asks \ {a},
           UNCHANGED <<page, asked, strokes>>,
           NEW shown \in Maybe(Estimates), NEW failed \in BOOLEAN, entry' = Heard(entry, a, 0, shown, failed),
           NEW new, table' = [i \in DOMAIN table |-> new[i]],
           \A i \in DOMAIN table : RowInv(new[i], asks', asked)
    PROVE  EntryInv' /\ DOMAIN table' = DOMAIN table
<1>1. entry' \in Entries /\ (entry'.due => entry'.product # Unset /\ entry'.cost # Unset)
  <2>1. entry \in Entries /\ (entry.due => entry.product # Unset /\ entry.cost # Unset)
    BY DEF EntryInv, EnteringInv
  <2>2. CASE entry' = entry
    BY <2>1, <2>2
  <2>3. CASE entry' = [entry EXCEPT !.shown = shown, !.ask = 0, !.failed = failed]
    <3>1. entry' \in Entries /\ entry'.due = entry.due /\ entry'.product = entry.product /\ entry'.cost = entry.cost
      BY <2>1, <2>3, EntryBounds DEF Entries
    <3>2. QED
      BY <2>1, <3>1
  <2>4. QED
    BY <2>2, <2>3 DEF Heard
<1> DEFINE n == Len(table)
<1>2. n \in Nat /\ n <= MostRows /\ DOMAIN table = 1..n
  BY EntryBounds DEF EntryInv, EnteringInv
<1>3. \A i \in 1..n : new[i] \in StagedLines
  BY <1>2 DEF RowInv
<1> HIDE DEF n
<1>4. table' \in [1..n -> StagedLines]
  BY <1>2, <1>3
<1>5. table' \in Seq(StagedLines) /\ Len(table') = n /\ DOMAIN table' = 1..n
  BY <1>2, <1>4, FunctionIsSeq
<1>6. \A i \in 1..n : RowInv(table'[i], asks', asked)
  BY <1>2
<1>7. EnteringInv'
  BY <1>1, <1>2, <1>5, <1>6 DEF EntryInv, EnteringInv
<1>8. QED
  BY <1>2, <1>5, <1>7, SendingKept DEF EntryInv

LEMMA AnswerInv ==
    ASSUME OrderEntryAssumption, EntryInv, NEW a \in asks, Answer(a)
    PROVE  /\ EntryInv' /\ DOMAIN table' = DOMAIN table
           /\ \A i \in DOMAIN table :
                 Settled(table'[i]) => table'[i] = table[i] \/ table'[i].shown = Current(table'[i])
<1> DEFINE new == [i \in DOMAIN table |-> Heard(table[i], a, i, a.for, FALSE)]
<1>1. asks \subseteq AsksType /\ asked \in Nat /\ asks' = asks \ {a}
  BY EntryBounds DEF EntryInv, EnteringInv, Answer
<1>2. ASSUME NEW i \in DOMAIN table
      PROVE  /\ RowInv(new[i], asks', asked)
             /\ Settled(new[i]) => new[i] = table[i] \/ new[i].shown = Current(new[i])
  <2>1. RowInv(table[i], asks, asked)
    BY DEF EntryInv, EnteringInv
  <2> DEFINE row == table[i]
             heard == Heard(row, a, i, a.for, FALSE)
  <2>2. new[i] = heard
    OBVIOUS
  <2> HIDE DEF row, new
  <2>3. RowInv(heard, asks \ {a}, asked) /\ (Settled(heard) => heard = row \/ heard.shown = Current(heard))
    <3>1. RowInv(row, asks, asked)
      BY <2>1 DEF row
    <3>2. QED
      BY <1>1, <3>1, HeardRow
  <2> HIDE DEF heard
  <2>4. QED
    BY <1>1, <2>2, <2>3 DEF row
<1>3. a.for \in Maybe(Estimates)
  BY <1>1 DEF AsksType, Maybe
<1>4. /\ UNCHANGED <<page, asked, strokes>> /\ entry' = Heard(entry, a, 0, a.for, FALSE)
      /\ table' = new /\ table' = [i \in DOMAIN table |-> new[i]]
  BY DEF Answer
<1> HIDE DEF new
<1>5. EntryInv' /\ DOMAIN table' = DOMAIN table
  BY <1>1, <1>2, <1>3, <1>4, AnsweredInv
<1>6. QED
  BY <1>2, <1>4, <1>5

LEMMA NoAnswerInv ==
    ASSUME OrderEntryAssumption, EntryInv, NEW a \in asks, NoAnswer(a)
    PROVE  EntryInv' /\ \A i \in DOMAIN table' : Settled(table'[i]) => i \in DOMAIN table /\ table'[i] = table[i]
<1> DEFINE new == [i \in DOMAIN table |-> Heard(table[i], a, i, table[i].shown, TRUE)]
<1>1. asked \in Nat /\ asks' = asks \ {a}
  BY EntryBounds DEF EntryInv, EnteringInv, NoAnswer
<1>2. ASSUME NEW i \in DOMAIN table
      PROVE  RowInv(new[i], asks', asked) /\ (Settled(new[i]) => new[i] = table[i])
  <2>1. RowInv(table[i], asks, asked)
    BY DEF EntryInv, EnteringInv
  <2>2. QED
    BY <1>1, <2>1, UnheardRow
<1>3. Unset \in Maybe(Estimates)
  BY DEF Maybe
<1>4. /\ UNCHANGED <<page, asked, strokes>> /\ entry' = Heard(entry, a, 0, Unset, TRUE)
      /\ table' = new /\ table' = [i \in DOMAIN table |-> new[i]]
  BY DEF NoAnswer
<1> HIDE DEF new
<1>5. EntryInv' /\ DOMAIN table' = DOMAIN table
  BY <1>1, <1>2, <1>3, <1>4, AnsweredInv
<1>6. QED
  BY <1>2, <1>4, <1>5

-----------------------------------------------------------------------------
(* The page *)

LEMMA OpenInv == ASSUME OrderEntryAssumption, EntryInv, Open PROVE EntryInv' /\ UNCHANGED table
<1>1. SendingInv'
  BY EntryBounds DEF EntryInv, SendingInv, Open
<1>2. EnteringInv'
  BY EnteringKept DEF EntryInv, Open
<1>3. QED
  BY <1>1, <1>2 DEF EntryInv, Open

LEMMA CreateInv ==
    ASSUME OrderEntryAssumption, EntryInv, Create
    PROVE  EntryInv' /\ UNCHANGED table /\ creating' \in Creations
<1> DEFINE n == Len(table)
           content == [i \in DOMAIN table |-> Estimate(table[i].product, table[i].cost)]
<1>1. n \in 1..MostRows /\ DOMAIN table = 1..n
  BY EntryBounds DEF EntryInv, EnteringInv, Create
<1>2. \A i \in DOMAIN table : Estimate(table[i].product, table[i].cost) \in Estimates
  <2> TAKE i \in DOMAIN table
  <2>1. table[i] \in StagedLines /\ table[i].cost # Unset
    BY DEF EntryInv, EnteringInv, RowInv, Create
  <2>2. QED
    BY <2>1 DEF StagedLines, Estimate, Estimates, Maybe
<1> HIDE DEF n
<1>3. content \in [1..n -> Estimates]
  BY <1>1, <1>2
<1> HIDE DEF content
<1>4. content \in Contents
  BY <1>1, <1>3 DEF Contents
<1>5. creating' = [opening |-> opening, step |-> "sent", lines |-> content] /\ opening \in 1..LastOpening
  BY EntryBounds DEF EntryInv, SendingInv, Create, content
<1>6. creating' \in Creations
  BY <1>4, <1>5 DEF Creations
<1>7. SendingInv'
  BY <1>6 DEF EntryInv, SendingInv, Create, Maybe
<1>8. EnteringInv'
  BY EnteringKept DEF EntryInv, Create
<1>9. QED
  BY <1>6, <1>7, <1>8 DEF EntryInv, Create

LEMMA ServeOrderInv ==
    ASSUME OrderEntryAssumption, EntryInv, ServeOrder
    PROVE  EntryInv' /\ UNCHANGED table /\ creating' \in Creations
<1> DEFINE sent == [opening |-> creating.opening, lines |-> creating.lines]
<1>1. creating \in Creations
  BY DEF EntryInv, SendingInv, ServeOrder, Maybe
<1>2. creating' \in Creations /\ sent \in SentOrders
  BY <1>1 DEF ServeOrder, SentOrders, Creations
<1> HIDE DEF sent
<1>3. orders' \in Seq(SentOrders)
  <2>1. orders \in Seq(SentOrders) /\ orders' = Append(orders, sent)
    BY DEF EntryInv, SendingInv, ServeOrder, sent
  <2>2. QED
    BY <1>2, <2>1, AppendProperties
<1>4. SendingInv'
  BY <1>2, <1>3 DEF EntryInv, SendingInv, ServeOrder, Maybe
<1>5. EnteringInv'
  BY EnteringKept DEF EntryInv, ServeOrder
<1>6. QED
  BY <1>2, <1>4, <1>5 DEF EntryInv, ServeOrder

LEMMA ClosedInv ==
    ASSUME OrderEntryAssumption, EntryInv, Cancel \/ Created
    PROVE  EntryInv' /\ table' = <<>>
<1>1. Leave
  BY DEF Cancel, Created
<1>2. SendingInv'
  <2>1. opening' = 0 /\ openings' = openings /\ creating' \in {creating, Unset} /\ orders' = orders
    BY DEF Cancel, Created, Leave
  <2>2. QED
    BY <2>1, EntryBounds DEF EntryInv, SendingInv, Maybe
<1>3. QED
  BY <1>1, <1>2, LeaveInv DEF EntryInv

LEMMA NotCreatedInv == ASSUME OrderEntryAssumption, EntryInv, NotCreated PROVE EntryInv' /\ UNCHANGED table
<1>1. SendingInv'
  BY DEF EntryInv, SendingInv, NotCreated, Maybe
<1>2. EnteringInv'
  BY EnteringKept DEF EntryInv, NotCreated
<1>3. QED
  BY <1>1, <1>2 DEF EntryInv, NotCreated

-----------------------------------------------------------------------------
\* What was settled stays, or shows its own, or a row was removed.
OnlyRemovalStales == SettledEstimate => SettledEstimate' \/ Len(table') < Len(table)

LEMMA SettledRowsStay ==
    ASSUME \A i \in DOMAIN table' : Settled(table'[i]) =>
              \/ i \in DOMAIN table /\ table'[i] = table[i]
              \/ table'[i].shown = Current(table'[i])
    PROVE  OnlyRemovalStales
BY DEF OnlyRemovalStales, SettledEstimate

(* Every step keeps the invariant, and lets an estimate go stale only by    *)
(* removing a row.                                                          *)
LEMMA EntryNextInv ==
    ASSUME OrderEntryAssumption, EntryInv, [EntryNext]_entryVars
    PROVE  EntryInv' /\ [OnlyRemovalStales]_table
<1>1. CASE \/ (\E p \in Articles : Choose(p)) \/ Search \/ (\E c \in Maybe(CostsTyped) : TypeCost(c))
           \/ Open \/ AskEntry \/ Create \/ ServeOrder \/ NotCreated
  BY <1>1, LineEditsInv, OpenInv, AskEntryInv, CreateInv, ServeOrderInv, NotCreatedInv
<1>2. CASE AddRow
  BY <1>2, AddRowInv, SettledRowsStay
<1>3. ASSUME NEW i \in DOMAIN table, NEW c \in Maybe(CostsTyped), CorrectCost(i, c)
      PROVE  EntryInv' /\ OnlyRemovalStales
  BY <1>3, CorrectCostInv, SettledRowsStay
<1>4. ASSUME NEW i \in DOMAIN table, RemoveRow(i) PROVE EntryInv' /\ OnlyRemovalStales
  BY <1>4, RemoveRowInv DEF OnlyRemovalStales
<1>5. ASSUME NEW i \in DOMAIN table, AskRow(i) PROVE EntryInv' /\ OnlyRemovalStales
  BY <1>5, AskRowInv, SettledRowsStay
<1>6. ASSUME NEW a \in asks, Answer(a) PROVE EntryInv' /\ OnlyRemovalStales
  BY <1>6, AnswerInv, SettledRowsStay
<1>7. ASSUME NEW a \in asks, NoAnswer(a) PROVE EntryInv' /\ OnlyRemovalStales
  BY <1>7, NoAnswerInv, SettledRowsStay
<1>8. CASE Cancel \/ Created
  <2>1. EntryInv' /\ table' = <<>>
    BY <1>8, ClosedInv
  <2>2. SettledEstimate'
    BY <2>1 DEF SettledEstimate
  <2>3. QED
    BY <2>1, <2>2 DEF OnlyRemovalStales
<1>9. CASE UNCHANGED entryVars
  <2>1. UNCHANGED <<entry, table, asks, asked, strokes, page>>
    BY <1>9 DEF entryVars, page
  <2>2. QED
    BY <2>1, EnteringKept, SendingKept DEF EntryInv
<1>10. QED
  BY <1>1, <1>2, <1>3, <1>4, <1>5, <1>6, <1>7, <1>8, <1>9 DEF EntryNext

LEMMA EntryInvariant == ASSUME OrderEntryAssumption PROVE EntrySpec => []EntryInv
<1>1. EntryInv /\ [EntryNext]_entryVars => EntryInv'
  BY EntryNextInv
<1>2. QED
  BY <1>1, EntryInitInv, PTL DEF EntrySpec

LEMMA OwnEstimates == ASSUME OrderEntryAssumption, EntryInv PROVE EntryTypeOK /\ EstimateIsOwn
<1>1. ASSUME NEW i \in DOMAIN table, Settled(table[i])
      PROVE  table[i].shown \in {Unset, Current(table[i]), table[i].estimate}
  <2>1. Listens(table[i], asks)
    BY DEF EntryInv, EnteringInv, RowInv
  <2>2. QED
    BY <1>1, <2>1 DEF Listens, Settled
<1>2. QED
  BY <1>1, EntryInvTypes DEF EstimateIsOwn

(* Whatever is typed, removed, answered or lost, for any number of rows and *)
(* of requests, what a row that waits for nothing shows is its own or the   *)
(* estimate it came with, and only a removal lets it go stale               *)
(* (CreateOrderForm.tsx).                                                   *)
THEOREM RowsShowTheirOwn == ASSUME OrderEntryAssumption PROVE EntrySpec => EntryShowsItsOwn
<1>1. EntryInv /\ [EntryNext]_entryVars => [OnlyRemovalStales]_table
  BY EntryNextInv
<1>2. EntryInv => EntryTypeOK /\ EstimateIsOwn
  BY OwnEstimates
<1>3. EntrySpec => [](EntryTypeOK /\ EstimateIsOwn)
  BY <1>2, EntryInvariant, PTL
<1>4. EntrySpec => [][OnlyRemovalStales]_table
  BY <1>1, EntryInvariant, PTL DEF EntrySpec
<1>5. QED
  BY <1>3, <1>4 DEF EntryShowsItsOwn, StaleOnlyByRemoval, OnlyRemovalStales

-----------------------------------------------------------------------------
(* An order that is waited for, or that was made, is not made again.        *)

MadeOf(n) == \E i \in DOMAIN orders : orders[i].opening = n

FormsInv ==
    /\ opening \in {0, openings}
    /\ \A i \in DOMAIN orders : orders[i].opening <= openings
    /\ creating # Unset => creating.opening <= openings
    /\ opening # 0 /\ (creating = Unset \/ creating.opening # opening) => ~MadeOf(opening)
    /\ creating # Unset /\ creating.step = "sent" => ~MadeOf(creating.opening)
    /\ OneOrderPerForm

LEMMA FormsNext ==
    ASSUME OrderEntryAssumption, ~Losses, EntryInv, FormsInv, [EntryNext]_entryVars
    PROVE  FormsInv'
<1>1. /\ opening \in Nat /\ openings \in Nat /\ orders \in Seq(SentOrders)
      /\ creating # Unset => creating \in Creations
  BY EntryBounds DEF EntryInv, SendingInv, Maybe
<1>2. \A i \in DOMAIN orders : orders[i].opening \in Nat
  <2>1. \A i \in DOMAIN orders : orders[i] \in SentOrders
    BY <1>1
  <2>2. QED
    BY <2>1, EntryBounds DEF SentOrders
<1>3. CASE UNCHANGED page
  BY <1>3 DEF FormsInv, MadeOf, OneOrderPerForm, page
<1>4. CASE Open
  <2>1. openings' = openings + 1 /\ opening' = openings' /\ UNCHANGED <<creating, orders>>
    BY <1>4 DEF Open
  <2>2. ASSUME NEW i \in DOMAIN orders PROVE orders[i].opening <= opening' /\ orders[i].opening # opening'
    BY <1>1, <1>2, <2>1 DEF FormsInv
  <2>3. ASSUME creating # Unset PROVE creating.opening <= opening'
    <3>1. creating.opening \in Nat
      BY <1>1, <2>3, EntryBounds DEF Creations
    <3>2. QED
      BY <1>1, <2>1, <2>3, <3>1 DEF FormsInv
  <2>4. QED
    BY <2>1, <2>2, <2>3 DEF FormsInv, MadeOf, OneOrderPerForm
<1>5. CASE Cancel
  <2>1. opening' = 0 /\ UNCHANGED <<openings, creating, orders>>
    BY <1>5 DEF Cancel, Leave
  <2>2. QED
    BY <2>1 DEF FormsInv, MadeOf, OneOrderPerForm
<1>6. CASE Created
  <2>1. opening' = 0 /\ creating' = Unset /\ UNCHANGED <<openings, orders>>
    BY <1>6 DEF Created, Leave
  <2>2. QED
    BY <2>1 DEF FormsInv, MadeOf, OneOrderPerForm
<1>7. CASE Create
  <2>1. /\ opening # 0 /\ creating = Unset /\ creating' # Unset /\ creating'.opening = opening
        /\ UNCHANGED <<opening, openings, orders>>
    <3>1. creating' # Unset
      BY <1>7, CreateInv, EntryBounds
    <3>2. QED
      BY <1>7, <3>1 DEF Create, CanCreate
  <2>2. opening = openings /\ ~MadeOf(opening)
    BY <2>1 DEF FormsInv
  <2>3. QED
    BY <1>1, <2>1, <2>2 DEF FormsInv, MadeOf, OneOrderPerForm
<1>8. CASE ServeOrder
  <2> DEFINE sent == [opening |-> creating.opening, lines |-> creating.lines]
             n == Len(orders)
  <2>1. /\ creating # Unset /\ creating.step = "sent" /\ creating' = [creating EXCEPT !.step = "done"]
        /\ orders' = Append(orders, sent) /\ UNCHANGED <<opening, openings>>
    BY <1>8 DEF ServeOrder
  <2>2. creating'.opening = creating.opening /\ creating'.step = "done" /\ sent \in SentOrders
    BY <1>1, <2>1 DEF SentOrders, Creations
  <2>3. sent.opening = creating.opening
    OBVIOUS
  <2> HIDE DEF sent
  <2>4. n \in Nat /\ DOMAIN orders = 1..n /\ DOMAIN orders' = 1..(n + 1) /\ orders'[n + 1] = sent
        /\ \A i \in 1..n : orders'[i] = orders[i]
    BY <1>1, <2>1, <2>2, AppendProperties
  <2> HIDE DEF n
  <2>5. \A i \in 1..(n + 1) : i \in 1..n \/ i = n + 1
    BY <2>4
  <2>6. ~MadeOf(creating.opening) /\ creating.opening <= openings
    BY <2>1 DEF FormsInv
  <2>7. \A m : MadeOf(m)' => MadeOf(m) \/ m = creating.opening
    BY <2>3, <2>4, <2>5 DEF MadeOf
  <2>8. \A i \in DOMAIN orders' : orders'[i].opening <= openings
    BY <2>3, <2>4, <2>5, <2>6 DEF FormsInv
  <2>9. OneOrderPerForm'
    BY <2>3, <2>4, <2>5, <2>6 DEF FormsInv, MadeOf, OneOrderPerForm
  <2>10. creating' # Unset
    BY <1>8, ServeOrderInv, EntryBounds
  <2>11. QED
    BY <2>1, <2>2, <2>6, <2>7, <2>8, <2>9, <2>10 DEF FormsInv
<1>9. ASSUME NotCreated PROVE FALSE
  BY <1>9 DEF NotCreated
<1>10. CASE \/ (\E p \in Articles : Choose(p)) \/ Search \/ (\E c \in Maybe(CostsTyped) : TypeCost(c)) \/ AddRow
            \/ (\E i \in DOMAIN table :
                   (\E c \in Maybe(CostsTyped) : CorrectCost(i, c)) \/ RemoveRow(i) \/ AskRow(i))
            \/ AskEntry \/ (\E a \in asks : Answer(a) \/ NoAnswer(a))
  BY <1>3, <1>10 DEF Choose, Search, TypeCost, AddRow, CorrectCost, RemoveRow, AskRow, AskEntry, Answer, NoAnswer
<1>11. CASE UNCHANGED entryVars
  BY <1>3, <1>11 DEF entryVars, page
<1>12. QED
  BY <1>4, <1>5, <1>6, <1>7, <1>8, <1>9, <1>10, <1>11 DEF EntryNext

(* If no answer is lost, what is entered in one form is one order, whoever   *)
(* cancels it and opens another while it is being made (CreateOrderForm.tsx, *)
(* PurchasingPage.tsx).                                                     *)
THEOREM OneOrderEachForm == ASSUME OrderEntryAssumption, ~Losses PROVE EntrySpec => []OneOrderPerForm
<1>1. EntryInit => FormsInv
  BY DEF EntryInit, FormsInv, MadeOf, OneOrderPerForm
<1>2. EntryInv /\ FormsInv /\ [EntryNext]_entryVars => FormsInv'
  BY FormsNext
<1>3. FormsInv => OneOrderPerForm
  BY DEF FormsInv
<1>4. QED
  BY <1>1, <1>2, <1>3, EntryInvariant, PTL DEF EntrySpec
-----------------------------------------------------------------------------
(* The form of a new product.                                               *)

LEMMA ProductBounds ==
    ASSUME ProductsAssumption
    PROVE  /\ LastField \in Nat /\ LastChange \in Nat /\ LastOpen \in Nat /\ LastProduct \in Nat
           /\ Nothing \notin Nat /\ Nothing \notin ProductForms /\ Nothing \notin ProductRequests
           /\ Nothing \notin Cats /\ Nothing \notin Units /\ Nothing \notin Taxes /\ Nothing \notin Warehouses
           /\ Nothing \notin ProductCosts /\ Nothing \notin Margins /\ Nothing \notin Barcodes
BY DEF ProductsAssumption, Cats, Units, Taxes, Warehouses, ProductCosts, Margins, Barcodes

\* What the estimate of a form depends on
SameInputs(f, g) == f.cat = g.cat /\ f.cost = g.cost /\ f.margin = g.margin /\ f.tax = g.tax

LEMMA InputsSame ==
    ASSUME NEW f, NEW g, SameInputs(f, g), NEW cs
    PROVE  InputsOf(cs, f) = InputsOf(cs, g)
BY DEF SameInputs, InputsOf, TaxOf

LEMMA InputsType ==
    ASSUME ProductsAssumption, NEW f \in ProductForms, NEW cs \in Categories, f.cost # Nothing
    PROVE  InputsOf(cs, f) \in Inputs /\ PriceOf(InputsOf(cs, f)) \in Nat
<1>1. f.cat \in Option(Cats) /\ f.tax \in Option(Taxes) /\ f.margin \in Option(Margins) /\ f.cost \in ProductCosts
  BY DEF ProductForms, Option
<1>2. TaxOf(cs, f.cat, f.tax) \in Option(Taxes)
  <2>1. f.cat # Nothing => cs[f.cat].tax \in Option(Taxes)
    BY <1>1 DEF Categories, Option
  <2>2. QED
    BY <1>1, <2>1 DEF TaxOf, Option
<1>3. InputsOf(cs, f) \in Inputs
  BY <1>1, <1>2 DEF InputsOf, Inputs
<1>4. PriceOf(InputsOf(cs, f)) \in Nat
  BY <1>3 DEF Inputs, PriceOf, Option, ProductCosts, Margins, Taxes
<1>5. QED
  BY <1>3, <1>4

LEMMA FirstOptionOffered ==
    ASSUME ProductsAssumption, NEW known, NEW current,
           NEW options, options = Warehouses \/ \E w \in Warehouses : options = LocationsOf(w)
    PROVE  Default(known, current, options) \in options \cup {current}
<1>1. \E o \in options : \A p \in options : o <= p
  BY DEF Warehouses, LocationsOf
<1>2. (CHOOSE o \in options : \A p \in options : o <= p) \in options
  BY <1>1
<1>3. QED
  BY <1>2 DEF Default

\* The defaults of the stock change nothing else.
LEMMA LocatedForm ==
    ASSUME ProductsAssumption, NEW f \in ProductForms, NEW rd
    PROVE  /\ Located(f, rd) \in ProductForms
           /\ SameInputs(f, Located(f, rd)) /\ Located(f, rd).own = f.own
<1> DEFINE g == [f EXCEPT !.wh = Default(0 \in rd, f.wh, Warehouses)]
           h == [g EXCEPT !.loc = Default(g.wh \in rd, g.loc, LocationsOf(g.wh))]
<1>1. Default(0 \in rd, f.wh, Warehouses) \in Option(Warehouses)
  <2>1. f.wh \in Option(Warehouses)
    BY DEF ProductForms
  <2>2. QED
    BY <2>1, FirstOptionOffered DEF Option
<1>2. g \in ProductForms /\ SameInputs(f, g) /\ g.own = f.own
  BY <1>1 DEF ProductForms, SameInputs
<1>3. Located(f, rd) = IF g.wh = Nothing THEN g ELSE h
  BY DEF Located
<1> HIDE DEF g
<1>4. CASE g.wh = Nothing
  BY <1>2, <1>3, <1>4
<1>5. CASE g.wh # Nothing
  <2>1. g.wh \in Warehouses /\ g.loc \in Option(Locations)
    BY <1>2, <1>5 DEF ProductForms, Option
  <2>2. Default(g.wh \in rd, g.loc, LocationsOf(g.wh)) \in Option(Locations)
    BY <2>1, FirstOptionOffered DEF Option, Locations
  <2>3. h \in ProductForms /\ SameInputs(g, h) /\ h.own = g.own
    BY <1>2, <2>2 DEF ProductForms, SameInputs
  <2>4. QED
    BY <1>2, <1>3, <1>5, <2>3 DEF SameInputs
<1>6. QED
  BY <1>4, <1>5

LEMMA WithUnitForm ==
    ASSUME ProductsAssumption, NEW f \in ProductForms, NEW cs \in Categories
    PROVE  /\ WithUnit(f, cs) \in ProductForms
           /\ SameInputs(f, WithUnit(f, cs)) /\ WithUnit(f, cs).own = f.own
<1>1. CASE f.cat # Nothing /\ cs[f.cat].unit # Nothing
  <2>1. cs[f.cat].unit \in Option(Units)
    BY <1>1 DEF ProductForms, Categories, Option
  <2>2. WithUnit(f, cs) = [f EXCEPT !.unit = cs[f.cat].unit]
    BY <1>1 DEF WithUnit
  <2>3. QED
    BY <2>1, <2>2 DEF ProductForms, SameInputs
<1>2. CASE ~(f.cat # Nothing /\ cs[f.cat].unit # Nothing)
  BY <1>2 DEF WithUnit, SameInputs
<1>3. QED
  BY <1>1, <1>2

-----------------------------------------------------------------------------
\* A tax of its own is one that was pressed.
Chosen(f) == f.tax # Nothing => f.own

\* When nothing waits to be asked, the last question is what the form says, and
\* if it was answered, the price on the screen is its price.
PreviewInv ==
    /\ timer => newProduct # Nothing /\ newProduct.cost # Nothing
    /\ InOrder /\ newProduct # Nothing /\ ~timer /\ newProduct.cost # Nothing =>
          IF previews = <<>> THEN estimate \in {Nothing, PriceOf(InputsOf(seenCategories, newProduct))}
          ELSE previews[Len(previews)] = InputsOf(seenCategories, newProduct)

PanelInv ==
    /\ seenCategories \in Categories /\ read \subseteq 0..2
    /\ newProduct \in Option(ProductForms)
    /\ newProduct # Nothing => Chosen(newProduct)
    /\ fields \in 0..LastField /\ opened \in 0..LastOpen
    /\ timer \in BOOLEAN /\ error \in BOOLEAN
    /\ previews \in Seq(Inputs) /\ estimate \in Option(Nat)
    /\ PreviewInv

StockedInv ==
    /\ categories \in Categories /\ changes \in 0..LastChange
    /\ products \in Seq(Products)
    /\ StockIsWhole /\ BarcodesDiffer

Sendable(r) ==
    /\ r \in ProductRequests
    /\ r.of.unit # Nothing /\ r.of.cost # Nothing
    /\ r.tax # Nothing => r.of.own

RequestInv == request # Nothing => Sendable(request)

ProductsInv == PanelInv /\ StockedInv /\ RequestInv

LEMMA ProductsInvTypes == ASSUME ProductsInv PROVE ProductsTypeOK
BY DEF ProductsInv, PanelInv, StockedInv, RequestInv, Sendable, ProductsTypeOK, Option

LEMMA PanelKept ==
    ASSUME PanelInv, UNCHANGED <<seenCategories, read, newProduct, fields, opened, preview, error>>
    PROVE  PanelInv'
BY DEF PanelInv, PreviewInv, preview, InputsOf, TaxOf, PriceOf, Chosen

LEMMA StockedKept == ASSUME StockedInv, UNCHANGED <<categories, changes, products>> PROVE StockedInv'
BY DEF StockedInv, StockIsWhole, BarcodesDiffer

LEMMA RequestKept == ASSUME RequestInv, UNCHANGED request PROVE RequestInv'
BY DEF RequestInv, Sendable

\* The form changes, or the categories it is read with.
LEMMA FormStep ==
    ASSUME ProductsAssumption, PanelInv, newProduct # Nothing,
           newProduct' \in ProductForms, Chosen(newProduct'),
           seenCategories' \in Categories, read' \subseteq 0..2, fields' \in 0..LastField,
           UNCHANGED <<opened, previews, error>>,
           \/ Watch(newProduct')
           \/ UNCHANGED <<timer, estimate, seenCategories>> /\ SameInputs(newProduct, newProduct')
    PROVE  PanelInv'
<1>0. newProduct' # Nothing
  BY ProductBounds
<1>1. CASE Watch(newProduct')
  <2>1. CASE newProduct'.cost = Nothing
    <3>1. timer' = FALSE /\ estimate' = Nothing
      BY <1>1, <2>1 DEF Watch
    <3>2. PreviewInv'
      BY <2>1, <3>1 DEF PreviewInv
    <3>3. QED
      BY <1>0, <3>1, <3>2 DEF PanelInv, Option, Chosen
  <2>2. CASE newProduct'.cost # Nothing
    <3>1. timer' = TRUE /\ estimate' = estimate
      BY <1>1, <2>2 DEF Watch
    <3>2. PreviewInv'
      BY <1>0, <2>2, <3>1 DEF PreviewInv
    <3>3. QED
      BY <1>0, <3>1, <3>2 DEF PanelInv, Option, Chosen
  <2>3. QED
    BY <2>1, <2>2
<1>2. CASE UNCHANGED <<timer, estimate, seenCategories>> /\ SameInputs(newProduct, newProduct')
  <2>1. InputsOf(seenCategories', newProduct') = InputsOf(seenCategories, newProduct)
    BY <1>2 DEF SameInputs, InputsOf, TaxOf
  <2>2. newProduct'.cost = newProduct.cost
    BY <1>2 DEF SameInputs
  <2>3. PreviewInv'
    BY <1>0, <1>2, <2>1, <2>2 DEF PanelInv, PreviewInv, PriceOf
  <2>4. QED
    BY <1>0, <1>2, <2>3 DEF PanelInv, Option, Chosen
<1>3. QED
  BY <1>1, <1>2

\* An edit of one field
LEMMA FieldStep ==
    ASSUME ProductsAssumption, ProductsInv, NEW field, NEW g \in ProductForms, Chosen(g), EditField(field, g),
           Watch(newProduct') \/ (Quiet /\ SameInputs(newProduct, g))
    PROVE  ProductsInv' /\ UNCHANGED products
<1>1. newProduct # Nothing /\ newProduct' = [g EXCEPT !.dirty = TRUE]
  BY DEF EditField
<1>2. newProduct' \in ProductForms /\ SameInputs(g, newProduct') /\ newProduct'.own = g.own
  BY <1>1 DEF ProductForms, SameInputs
<1>3. Chosen(newProduct')
  BY <1>2 DEF Chosen, SameInputs
<1>4. fields' \in 0..LastField
  BY ProductBounds DEF EditField, ProductsInv, PanelInv
<1>5. seenCategories' \in Categories /\ read' \subseteq 0..2 /\ UNCHANGED <<opened, previews, error, seenCategories>>
  BY DEF EditField, ProductsInv, PanelInv
<1>6. SameInputs(newProduct, g) => SameInputs(newProduct, newProduct')
  BY <1>2 DEF SameInputs
<1>7. PanelInv'
  BY <1>1, <1>2, <1>3, <1>4, <1>5, <1>6, FormStep DEF Quiet, ProductsInv
<1>8. UNCHANGED <<categories, changes, products, request>>
  BY DEF EditField, productServer
<1>9. QED
  BY <1>7, <1>8, StockedKept, RequestKept DEF ProductsInv

LEMMA QuietEdits ==
    ASSUME ProductsAssumption, ProductsInv,
           EditUnit \/ EditPrice \/ UsePrice \/ EditBarcode \/ EditStock \/ EditLot \/ Track
    PROVE  ProductsInv' /\ UNCHANGED products
<1> DEFINE f == newProduct
<1>0. newProduct # Nothing => newProduct \in ProductForms /\ Chosen(newProduct)
  BY DEF ProductsInv, PanelInv, Option
<1>1. ASSUME NEW field, NEW g \in ProductForms, SameInputs(newProduct, g), g.own = newProduct.own,
             newProduct # Nothing, EditField(field, g), Quiet
      PROVE  ProductsInv' /\ UNCHANGED products
  <2>1. Chosen(g)
    BY <1>0, <1>1 DEF Chosen, SameInputs
  <2>2. QED
    BY <1>1, <2>1, FieldStep
<1>2. newProduct # Nothing /\ newProduct \in ProductForms
  BY <1>0 DEF EditUnit, EditPrice, UsePrice, EditBarcode, EditStock, EditLot, Track, EditField
<1>3. CASE EditUnit
  <2>1. PICK u \in Units : EditField("unit", [f EXCEPT !.unit = u]) /\ Quiet
    BY <1>3 DEF EditUnit
  <2>2. [f EXCEPT !.unit = u] \in ProductForms /\ SameInputs(f, [f EXCEPT !.unit = u])
        /\ [f EXCEPT !.unit = u].own = f.own
    BY <1>2 DEF ProductForms, SameInputs, Option
  <2>3. QED
    BY <1>1, <1>2, <2>1, <2>2
<1>4. CASE EditPrice \/ UsePrice
  <2>1. PICK n \in Nat : EditField("price", [f EXCEPT !.price = n]) /\ Quiet
    BY <1>4 DEF EditPrice, UsePrice, Prices, ProductsInv, PanelInv, Option
  <2>2. [f EXCEPT !.price = n] \in ProductForms /\ SameInputs(f, [f EXCEPT !.price = n])
        /\ [f EXCEPT !.price = n].own = f.own
    BY <1>2 DEF ProductForms, SameInputs
  <2>3. QED
    BY <1>1, <1>2, <2>1, <2>2
<1>5. CASE EditBarcode
  <2>1. PICK b \in Option(Barcodes) : EditField("barcode", [f EXCEPT !.barcode = b]) /\ Quiet
    BY <1>5 DEF EditBarcode
  <2>2. [f EXCEPT !.barcode = b] \in ProductForms /\ SameInputs(f, [f EXCEPT !.barcode = b])
        /\ [f EXCEPT !.barcode = b].own = f.own
    BY <1>2 DEF ProductForms, SameInputs
  <2>3. QED
    BY <1>1, <1>2, <2>1, <2>2
<1>6. CASE EditStock
  <2>1. CASE EditField("stock", [f EXCEPT !.stocked = TRUE])
    <3>1. [f EXCEPT !.stocked = TRUE] \in ProductForms /\ SameInputs(f, [f EXCEPT !.stocked = TRUE])
          /\ [f EXCEPT !.stocked = TRUE].own = f.own
      BY <1>2 DEF ProductForms, SameInputs
    <3>2. QED
      BY <1>1, <1>2, <1>6, <2>1, <3>1 DEF EditStock
  <2>2. ASSUME NEW w \in Warehouses,
               EditField("stock", IF f.stocked THEN Located([f EXCEPT !.wh = w], read) ELSE f)
        PROVE  ProductsInv' /\ UNCHANGED products
    <3> DEFINE g == [f EXCEPT !.wh = w]
    <3>1. g \in ProductForms /\ SameInputs(f, g) /\ g.own = f.own
      BY <1>2 DEF ProductForms, SameInputs, Option
    <3> HIDE DEF g
    <3>2. Located(g, read) \in ProductForms /\ SameInputs(f, Located(g, read)) /\ Located(g, read).own = f.own
      BY <3>1, LocatedForm DEF SameInputs
    <3>3. SameInputs(f, f)
      BY DEF SameInputs
    <3>4. CASE f.stocked
      BY <1>1, <1>2, <1>6, <2>2, <3>2, <3>4 DEF EditStock, g
    <3>5. CASE ~f.stocked
      BY <1>1, <1>2, <1>6, <2>2, <3>3, <3>5 DEF EditStock
    <3>6. QED
      BY <3>4, <3>5
  <2>3. QED
    BY <1>6, <2>1, <2>2 DEF EditStock
<1>7. CASE EditLot
  <2>1. [f EXCEPT !.lot = TRUE] \in ProductForms /\ SameInputs(f, [f EXCEPT !.lot = TRUE])
        /\ [f EXCEPT !.lot = TRUE].own = f.own /\ SameInputs(f, f)
    BY <1>2 DEF ProductForms, SameInputs
  <2>2. CASE f.tracked /\ f.stocked
    BY <1>1, <1>2, <1>7, <2>1, <2>2 DEF EditLot
  <2>3. CASE ~(f.tracked /\ f.stocked)
    BY <1>1, <1>2, <1>7, <2>1, <2>3 DEF EditLot
  <2>4. QED
    BY <2>2, <2>3
<1>8. CASE Track
  <2> DEFINE g == [f EXCEPT !.tracked = ~f.tracked]
  <2>1. g \in ProductForms /\ SameInputs(f, g) /\ g.own = f.own
    BY <1>2 DEF ProductForms, SameInputs
  <2>2. EditField("lot", g) /\ Quiet
    BY <1>8 DEF Track
  <2>3. QED
    BY <1>1, <1>2, <2>1, <2>2
<1>9. QED
  BY <1>3, <1>4, <1>5, <1>6, <1>7, <1>8

LEMMA WatchedEdits ==
    ASSUME ProductsAssumption, ProductsInv, EditCategory \/ EditCost \/ EditMargin \/ PressTax
    PROVE  ProductsInv' /\ UNCHANGED products
<1> DEFINE f == newProduct
<1>1. newProduct # Nothing /\ newProduct \in ProductForms /\ Chosen(newProduct)
  BY DEF ProductsInv, PanelInv, Option, EditCategory, EditCost, EditMargin, PressTax, EditField
<1>2. CASE EditCategory
  <2>1. PICK c \in Option(Cats) :
          EditField("cat", WithUnit([f EXCEPT !.cat = c], seenCategories)) /\ Watch(newProduct')
    BY <1>2 DEF EditCategory
  <2> DEFINE g == [f EXCEPT !.cat = c]
  <2>2. g \in ProductForms /\ g.tax = f.tax /\ g.own = f.own
    BY <1>1 DEF ProductForms
  <2>3. EditField("cat", WithUnit(g, seenCategories)) /\ Watch(newProduct')
    BY <2>1
  <2> HIDE DEF g
  <2>4. WithUnit(g, seenCategories) \in ProductForms /\ Chosen(WithUnit(g, seenCategories))
    BY <1>1, <2>2, WithUnitForm DEF ProductsInv, PanelInv, Chosen, SameInputs
  <2>5. QED
    BY <2>3, <2>4, FieldStep
<1>3. CASE EditCost
  <2>1. PICK n \in Option(ProductCosts) : EditField("cost", [f EXCEPT !.cost = n]) /\ Watch(newProduct')
    BY <1>3 DEF EditCost
  <2>2. [f EXCEPT !.cost = n] \in ProductForms /\ Chosen([f EXCEPT !.cost = n])
    BY <1>1 DEF ProductForms, Chosen
  <2>3. QED
    BY <2>1, <2>2, FieldStep
<1>4. CASE EditMargin
  <2>1. PICK n \in Option(Margins) : EditField("margin", [f EXCEPT !.margin = n]) /\ Watch(newProduct')
    BY <1>4 DEF EditMargin
  <2>2. [f EXCEPT !.margin = n] \in ProductForms /\ Chosen([f EXCEPT !.margin = n])
    BY <1>1 DEF ProductForms, Chosen
  <2>3. QED
    BY <2>1, <2>2, FieldStep
<1>5. CASE PressTax
  <2>1. PICK t \in Taxes :
          /\ EditField("tax", [f EXCEPT !.own = TRUE, !.tax = IF Shown = t THEN Nothing ELSE t])
          /\ Watch(newProduct')
    BY <1>5 DEF PressTax
  <2> DEFINE tax == IF Shown = t THEN Nothing ELSE t
             g == [f EXCEPT !.own = TRUE, !.tax = tax]
  <2>2. tax \in Option(Taxes)
    BY DEF Option
  <2> HIDE DEF tax
  <2>3. g \in ProductForms /\ Chosen(g)
    BY <1>1, <2>2 DEF ProductForms, Chosen
  <2>4. EditField("tax", g) /\ Watch(newProduct')
    BY <2>1 DEF tax
  <2>5. QED
    BY <2>3, <2>4, FieldStep
<1>6. QED
  BY <1>2, <1>3, <1>4, <1>5

-----------------------------------------------------------------------------
(* Categories and warehouses, the form and its previews                     *)

LEMMA ChangeCategoryInv ==
    ASSUME ProductsAssumption, ProductsInv, ChangeCategory
    PROVE  ProductsInv' /\ UNCHANGED products
<1>1. PICK c \in Cats, u \in Units, t \in Taxes :
        categories' = [categories EXCEPT ![c] = [unit |-> u, tax |-> t]]
  BY DEF ChangeCategory
<1>2. categories' \in Categories
  <2>1. [unit |-> u, tax |-> t] \in [unit: Option(Units), tax: Option(Taxes)]
    BY DEF Option
  <2>2. QED
    BY <1>1, <2>1 DEF ProductsInv, StockedInv, Categories
<1>3. changes' \in 0..LastChange
  BY ProductBounds DEF ChangeCategory, ProductsInv, StockedInv
<1>4. UNCHANGED <<products, seenCategories, read, newProduct, fields, opened, preview, request, error>>
  BY DEF ChangeCategory
<1>5. StockedInv'
  BY <1>2, <1>3, <1>4 DEF ProductsInv, StockedInv, StockIsWhole, BarcodesDiffer
<1>6. QED
  BY <1>4, <1>5, PanelKept, RequestKept DEF ProductsInv

LEMMA RefetchInv ==
    ASSUME ProductsAssumption, ProductsInv, Refetch
    PROVE  ProductsInv' /\ UNCHANGED products
<1>1. /\ seenCategories' = categories /\ seenCategories' \in Categories
      /\ UNCHANGED <<categories, products, changes, read, fields, opened, previews, request, error>>
  BY DEF Refetch, productServer, ProductsInv, StockedInv
<1>2. CASE newProduct = Nothing
  <2>1. UNCHANGED <<newProduct, timer, estimate>>
    BY <1>2 DEF Refetch
  <2>2. PanelInv'
    BY <1>1, <1>2, <2>1 DEF ProductsInv, PanelInv, PreviewInv
  <2>3. QED
    BY <1>1, <2>2, StockedKept, RequestKept DEF ProductsInv
<1>3. CASE newProduct # Nothing
  <2>1. newProduct' = WithUnit(newProduct, categories) /\ Watch(newProduct')
    BY <1>3 DEF Refetch
  <2>2. newProduct \in ProductForms /\ Chosen(newProduct) /\ categories \in Categories
    BY <1>3 DEF ProductsInv, PanelInv, StockedInv, Option
  <2>3. newProduct' \in ProductForms /\ Chosen(newProduct')
    BY <2>1, <2>2, WithUnitForm DEF Chosen, SameInputs
  <2>4. PanelInv /\ read' \subseteq 0..2 /\ fields' \in 0..LastField
    BY <1>1 DEF ProductsInv, PanelInv
  <2>5. PanelInv'
    BY <1>1, <1>3, <2>1, <2>3, <2>4, FormStep
  <2>6. QED
    BY <1>1, <2>5, StockedKept, RequestKept DEF ProductsInv
<1>4. QED
  BY <1>2, <1>3

LEMMA ReadWarehousesInv ==
    ASSUME ProductsAssumption, ProductsInv, ReadWarehouses
    PROVE  ProductsInv' /\ UNCHANGED products
<1>1. /\ newProduct # Nothing /\ newProduct' = Located(newProduct, read') /\ read' \subseteq 0..2
      /\ UNCHANGED <<categories, products, changes, seenCategories, fields, opened, timer, previews, estimate,
                     request, error>>
  BY DEF ReadWarehouses, productServer, preview, ProductsInv, PanelInv
<1>2. newProduct \in ProductForms /\ Chosen(newProduct)
  BY <1>1 DEF ProductsInv, PanelInv, Option
<1>3. newProduct' \in ProductForms /\ Chosen(newProduct') /\ SameInputs(newProduct, newProduct')
  BY <1>1, <1>2, LocatedForm DEF Chosen, SameInputs
<1>4. PanelInv /\ seenCategories' \in Categories /\ fields' \in 0..LastField
  BY <1>1 DEF ProductsInv, PanelInv
<1>5. PanelInv'
  BY <1>1, <1>3, <1>4, FormStep
<1>6. QED
  BY <1>1, <1>5, StockedKept, RequestKept DEF ProductsInv

LEMMA OpenProductInv ==
    ASSUME ProductsAssumption, ProductsInv, OpenProduct
    PROVE  ProductsInv' /\ UNCHANGED products
<1>1. opened' \in 1..LastOpen /\ opened' = opened + 1
  BY ProductBounds DEF OpenProduct, ProductsInv, PanelInv
<1>2. Blank \in ProductForms /\ Blank.cost = 0 /\ Chosen(Blank)
  BY <1>1 DEF Blank, ProductForms, Option, ProductCosts, Chosen
<1>3. newProduct' = Located(Blank, read)
  BY DEF OpenProduct
<1>4. newProduct' \in ProductForms /\ newProduct'.cost # Nothing /\ Chosen(newProduct')
  BY <1>2, <1>3, LocatedForm, ProductBounds DEF SameInputs, Chosen
<1>5. /\ timer' = TRUE /\ previews' = <<>> /\ estimate' = Nothing
      /\ UNCHANGED <<categories, products, changes, seenCategories, read, fields, request, error>>
  BY DEF OpenProduct, productServer
<1>6. PanelInv'
  <2>1. newProduct' # Nothing /\ opened' \in 0..LastOpen
    BY <1>1, <1>4, ProductBounds
  <2>2. PreviewInv'
    BY <1>4, <1>5, <2>1 DEF PreviewInv
  <2>3. QED
    BY <1>4, <1>5, <2>1, <2>2 DEF ProductsInv, PanelInv, Option, Chosen
<1>7. QED
  BY <1>5, <1>6, StockedKept, RequestKept DEF ProductsInv

\* The form goes, and what it was waiting to ask.
LEMMA FormGoes ==
    ASSUME PanelInv, newProduct' = Nothing, timer' = FALSE, error' = FALSE,
           UNCHANGED <<seenCategories, read, fields, opened, previews, estimate>>
    PROVE  PanelInv'
BY DEF PanelInv, PreviewInv, Option

LEMMA CancelProductInv ==
    ASSUME ProductsInv, CancelProduct
    PROVE  ProductsInv' /\ UNCHANGED products
<1>1. UNCHANGED <<categories, products, changes, request>>
  BY DEF CancelProduct, productServer
<1>2. QED
  BY <1>1, FormGoes, StockedKept, RequestKept DEF ProductsInv, CancelProduct

LEMMA AskPreviewInv ==
    ASSUME ProductsAssumption, ProductsInv, AskPreview
    PROVE  ProductsInv' /\ UNCHANGED products
<1> DEFINE in == InputsOf(seenCategories, newProduct)
<1>1. newProduct # Nothing /\ newProduct \in ProductForms /\ newProduct.cost # Nothing
      /\ seenCategories \in Categories /\ previews \in Seq(Inputs)
  BY DEF AskPreview, ProductsInv, PanelInv, PreviewInv, Option
<1>2. in \in Inputs
  BY <1>1, InputsType
<1>3. /\ timer' = FALSE /\ previews' = Append(previews, in)
      /\ UNCHANGED <<categories, products, changes, seenCategories, read, newProduct, fields, opened, estimate,
                     request, error>>
  BY DEF AskPreview, productServer
<1>4. InputsOf(seenCategories', newProduct') = in
  BY <1>3 DEF InputsOf, TaxOf
<1> HIDE DEF in
<1>5. previews' \in Seq(Inputs) /\ previews' # <<>> /\ previews'[Len(previews')] = in
  BY <1>1, <1>2, <1>3, AppendProperties
<1>6. PreviewInv'
  BY <1>3, <1>4, <1>5 DEF PreviewInv
<1>7. PanelInv'
  BY <1>3, <1>5, <1>6 DEF ProductsInv, PanelInv, Chosen
<1>8. QED
  BY <1>3, <1>7, StockedKept, RequestKept DEF ProductsInv

LEMMA AnswerPreviewInv ==
    ASSUME ProductsAssumption, ProductsInv, AnswerPreview
    PROVE  ProductsInv' /\ UNCHANGED products
<1>1. PICK k \in DOMAIN previews :
        /\ InOrder => k = 1
        /\ previews' = SubSeq(previews, 1, k - 1) \o SubSeq(previews, k + 1, Len(previews))
        /\ estimate' \in {PriceOf(previews[k]), Nothing}
  BY DEF AnswerPreview
<1> DEFINE n == Len(previews)
           before == SubSeq(previews, 1, k - 1)
           after == SubSeq(previews, k + 1, n)
<1>2. previews \in Seq(Inputs) /\ n \in Nat /\ k \in 1..n
  BY DEF ProductsInv, PanelInv
<1>3. before \in Seq(Inputs) /\ Len(before) = k - 1
  BY <1>2, SubSeqProperties
<1>4. /\ after \in Seq(Inputs) /\ Len(after) = n - k
      /\ \A i \in 1..(n - k) : after[i] = previews[k + i]
  BY <1>2, SubSeqProperties
<1>5. previews[k] \in Inputs
  BY <1>2
<1>6. PriceOf(previews[k]) \in Nat
  BY <1>5 DEF Inputs, PriceOf, Option, ProductCosts, Margins, Taxes
<1>7. previews' = before \o after
  BY <1>1
<1>8. /\ UNCHANGED <<categories, products, changes, seenCategories, read, newProduct, fields, opened, timer,
                     request, error>>
  BY DEF AnswerPreview, productServer
<1> HIDE DEF before, after, n
<1>9. previews' \in Seq(Inputs) /\ Len(previews') = n - 1
  <2>1. previews' \in Seq(Inputs) /\ Len(previews') = Len(before) + Len(after)
    BY <1>3, <1>4, <1>7, ConcatProperties
  <2>2. QED
    BY <1>2, <1>3, <1>4, <2>1
<1>10. k = 1 => previews' = after
  BY <1>3, <1>4, <1>7, ConcatEmptySeq, EmptySeq
<1>11. PreviewInv'
  <2> SUFFICES ASSUME InOrder, newProduct # Nothing, ~timer, newProduct.cost # Nothing
               PROVE  IF previews' = <<>>
                      THEN estimate' \in {Nothing, PriceOf(InputsOf(seenCategories, newProduct))}
                      ELSE previews'[Len(previews')] = InputsOf(seenCategories, newProduct)
    BY <1>8 DEF ProductsInv, PanelInv, PreviewInv, InputsOf, TaxOf, PriceOf
  <2>1. previews # <<>> /\ previews[n] = InputsOf(seenCategories, newProduct)
    BY <1>2 DEF ProductsInv, PanelInv, PreviewInv, n
  <2>2. k = 1 /\ previews' = after
    BY <1>1, <1>10
  <2>3. CASE n = 1
    BY <1>1, <1>4, <2>1, <2>2, <2>3
  <2>4. CASE n # 1
    BY <1>2, <1>4, <2>1, <2>2, <2>4
  <2>5. QED
    BY <2>3, <2>4
<1>12. estimate' \in Option(Nat)
  BY <1>1, <1>6 DEF Option
<1>13. PanelInv'
  BY <1>8, <1>9, <1>11, <1>12 DEF ProductsInv, PanelInv, Chosen
<1>14. QED
  BY <1>8, <1>13, StockedKept, RequestKept DEF ProductsInv

-----------------------------------------------------------------------------
(* The creation                                                             *)

LEMMA SubmitProductInv ==
    ASSUME ProductsAssumption, ProductsInv, SubmitProduct
    PROVE  ProductsInv' /\ UNCHANGED products
<1>1. newProduct \in ProductForms /\ Chosen(newProduct) /\ Valid(newProduct)
  BY DEF SubmitProduct, ProductsInv, PanelInv, Option
<1>2. /\ request' = [of |-> newProduct, tax |-> newProduct.tax, call |-> "create", stage |-> "sent", id |-> 0]
      /\ UNCHANGED <<categories, products, changes, seenCategories, read, newProduct, fields, opened, preview, error>>
  BY DEF SubmitProduct, productServer
<1>3. request' \in ProductRequests
  <2>1. newProduct.tax \in Option(Taxes)
    BY <1>1 DEF ProductForms
  <2>2. QED
    BY <1>1, <1>2, <2>1 DEF ProductRequests
<1>4. Sendable(request')
  BY <1>1, <1>2, <1>3 DEF Sendable, Valid, Chosen
<1>5. RequestInv'
  BY <1>4 DEF RequestInv, Sendable
<1>6. QED
  BY <1>2, <1>5, PanelKept, StockedKept DEF ProductsInv

\* The request goes on: what it was sent with stays.
LEMMA RequestGoesOn ==
    ASSUME RequestInv, request # Nothing, NEW r \in ProductRequests,
           r.of = request.of, r.tax = request.tax, request' = r
    PROVE  RequestInv'
BY DEF RequestInv, Sendable

LEMMA RefusedRequest ==
    ASSUME RequestInv, request # Nothing, Refused
    PROVE  RequestInv'
<1>1. request \in ProductRequests
  BY DEF RequestInv, Sendable
<1> DEFINE r == [request EXCEPT !.stage = "refused"]
<1>2. r \in ProductRequests /\ r.of = request.of /\ r.tax = request.tax
  BY <1>1 DEF ProductRequests
<1>3. request' = r
  BY DEF Refused
<1> HIDE DEF r
<1>4. QED
  BY <1>2, <1>3, RequestGoesOn

\* A product that is made has no tax yet, stock that fits and a barcode of its own.
LEMMA MadeProduct ==
    ASSUME ProductsAssumption, StockedInv, UNCHANGED <<categories, changes>>,
           NEW p \in Products, p.tax = Nothing, BarcodeFree(p.barcode), StockFits(p),
           products' = Append(products, p)
    PROVE  /\ StockedInv'
           /\ \A i \in DOMAIN products' :
                 products'[i].tax # Nothing => i \in DOMAIN products /\ products[i] = products'[i]
<1> DEFINE n == Len(products)
<1>1. products \in Seq(Products) /\ n \in Nat /\ DOMAIN products = 1..n
  BY DEF StockedInv
<1>2. /\ products' \in Seq(Products) /\ DOMAIN products' = 1..(n + 1) /\ products'[n + 1] = p
      /\ \A i \in 1..n : products'[i] = products[i]
  BY <1>1, AppendProperties
<1> HIDE DEF n
<1>3. \A i \in 1..(n + 1) : i \in 1..n \/ i = n + 1
  BY <1>1
<1>4. StockIsWhole'
  BY <1>1, <1>2, <1>3 DEF StockedInv, StockIsWhole, StockFits, LocationsOf
<1>5. BarcodesDiffer'
  <2> SUFFICES ASSUME NEW i \in 1..(n + 1), NEW j \in 1..(n + 1), i # j, products'[i].barcode # Nothing
               PROVE  products'[i].barcode # products'[j].barcode
    <3>1. DOMAIN products' = 1..(n + 1)
      BY <1>2
    <3>2. \A i, j \in 1..(n + 1) :
             (i # j /\ products'[i].barcode # Nothing) => products'[i].barcode # products'[j].barcode
      OBVIOUS
    <3>3. QED
      BY <3>1, <3>2, Zenon DEF BarcodesDiffer
  <2>1. CASE i \in 1..n /\ j \in 1..n
    BY <1>1, <1>2, <2>1 DEF StockedInv, BarcodesDiffer
  <2>2. CASE i \in 1..n /\ j = n + 1
    BY <1>1, <1>2, <2>2 DEF BarcodeFree
  <2>3. CASE i = n + 1 /\ j \in 1..n
    BY <1>1, <1>2, <2>3 DEF BarcodeFree
  <2>4. QED
    BY <1>3, <2>1, <2>2, <2>3
<1>6. StockedInv'
  BY <1>2, <1>4, <1>5 DEF StockedInv
<1>7. QED
  BY <1>1, <1>2, <1>3, <1>6

\* A product has a tax of its own only if the chips of its form were pressed.
TaxesAreChosen ==
    \A i \in DOMAIN products' :
       (products'[i].tax # Nothing /\ (i \notin DOMAIN products \/ products[i].tax = Nothing)) => request.of.own

LEMMA CreateProductInv ==
    ASSUME ProductsAssumption, ProductsInv, CreateProduct
    PROVE  ProductsInv' /\ TaxesAreChosen
<1> DEFINE f == request.of
           p == [cat |-> f.cat, unit |-> f.unit, tax |-> Nothing,
                 price |-> f.price, barcode |-> f.barcode, stocked |-> f.stocked,
                 wh |-> f.wh, loc |-> f.loc, tracked |-> f.tracked, lot |-> f.lot]
           r == [request EXCEPT !.stage = "answered", !.id = Len(products) + 1]
<1>1. request # Nothing /\ request \in ProductRequests /\ f \in ProductForms /\ f.unit # Nothing
  BY DEF CreateProduct, ProductsInv, RequestInv, Sendable, ProductRequests
<1>2. UNCHANGED <<categories, changes, seenCategories, read, newProduct, fields, opened, preview, error>>
  BY DEF CreateProduct
<1>3. CASE BarcodeFree(f.barcode) /\ StockFits(f)
  <2>1. products' = Append(products, p) /\ request' = r
    BY <1>3 DEF CreateProduct
  <2>2. p \in Products
    BY <1>1 DEF ProductForms, Products, Option
  <2>3. p.tax = Nothing /\ BarcodeFree(p.barcode) /\ StockFits(p)
    BY <1>3 DEF StockFits
  <2> HIDE DEF p
  <2>4. StockedInv' /\ TaxesAreChosen
    BY <1>2, <2>1, <2>2, <2>3, MadeProduct DEF ProductsInv, TaxesAreChosen
  <2>5. Len(products) + 1 \in Nat
    BY DEF ProductsInv, StockedInv
  <2>6. r \in ProductRequests /\ r.of = request.of /\ r.tax = request.tax
    BY <1>1, <2>5 DEF ProductRequests
  <2> HIDE DEF r
  <2>7. RequestInv'
    BY <1>1, <2>1, <2>6, RequestGoesOn DEF ProductsInv
  <2>8. QED
    BY <1>2, <2>4, <2>7, PanelKept DEF ProductsInv
<1>4. CASE ~(BarcodeFree(f.barcode) /\ StockFits(f))
  <2>1. Refused
    BY <1>4 DEF CreateProduct
  <2>2. UNCHANGED products
    BY <2>1 DEF Refused
  <2>3. RequestInv'
    BY <1>1, <2>1, RefusedRequest DEF ProductsInv
  <2>4. QED
    BY <1>2, <2>2, <2>3, PanelKept, StockedKept DEF ProductsInv, TaxesAreChosen
<1>5. QED
  BY <1>3, <1>4

LEMMA SetTaxesInv ==
    ASSUME ProductsAssumption, ProductsInv, SetTaxes
    PROVE  ProductsInv' /\ TaxesAreChosen
<1> DEFINE f == request.of
           price == PriceOf([cost |-> f.cost, margin |-> f.margin, tax |-> request.tax])
           r == [request EXCEPT !.stage = "answered"]
<1>1. /\ request # Nothing /\ request \in ProductRequests /\ f \in ProductForms /\ f.cost # Nothing
      /\ request.tax \in Option(Taxes) /\ (request.tax # Nothing => f.own)
  BY DEF SetTaxes, ProductsInv, RequestInv, Sendable, ProductRequests
<1>2. UNCHANGED <<categories, changes, seenCategories, read, newProduct, fields, opened, preview, error>>
  BY DEF SetTaxes
<1>3. price \in Nat
  BY <1>1 DEF ProductForms, PriceOf, Option, ProductCosts, Margins, Taxes
<1>4. products \in Seq(Products)
  BY DEF ProductsInv, StockedInv
<1>5. products' = [products EXCEPT ![request.id].tax = request.tax, ![request.id].price = price] /\ request' = r
  BY DEF SetTaxes
<1> HIDE DEF price
<1>6. /\ DOMAIN products' = DOMAIN products
      /\ \A i \in DOMAIN products :
            products'[i] = IF i = request.id THEN [products[i] EXCEPT !.tax = request.tax, !.price = price]
                           ELSE products[i]
  BY <1>4, <1>5
<1>7. ASSUME NEW i \in DOMAIN products
      PROVE  /\ products'[i] \in Products
             /\ products'[i].barcode = products[i].barcode /\ products'[i].stocked = products[i].stocked
             /\ products'[i].loc = products[i].loc /\ products'[i].wh = products[i].wh
             /\ products'[i].tracked = products[i].tracked /\ products'[i].lot = products[i].lot
             /\ products'[i].tax \in {products[i].tax, request.tax}
  <2>1. products[i] \in Products
    BY <1>4
  <2>2. CASE i = request.id
    <3>1. products'[i] = [products[i] EXCEPT !.tax = request.tax, !.price = price]
      BY <1>6, <2>2
    <3>2. QED
      BY <1>1, <1>3, <2>1, <3>1 DEF Products
  <2>3. CASE i # request.id
    BY <1>6, <2>1, <2>3
  <2>4. QED
    BY <2>2, <2>3
<1>8. products' \in Seq(Products)
  <2> DEFINE n == Len(products)
  <2>1. n \in Nat /\ DOMAIN products = 1..n
    BY <1>4
  <2>2. products' = [i \in 1..n |-> products'[i]]
    BY <1>4, <1>5, <1>6, <2>1
  <2> HIDE DEF n
  <2>3. products' \in [1..n -> Products]
    BY <1>7, <2>1, <2>2
  <2>4. QED
    BY <2>1, <2>3, FunctionIsSeq
<1>9. StockedInv'
  <2>1. StockIsWhole'
    BY <1>6, <1>7 DEF ProductsInv, StockedInv, StockIsWhole, LocationsOf
  <2>2. BarcodesDiffer'
    <3>1. \A i \in DOMAIN products : products'[i].barcode = products[i].barcode
      BY <1>7
    <3>2. DOMAIN products' = DOMAIN products /\ BarcodesDiffer
      BY <1>6 DEF ProductsInv, StockedInv
    <3>3. QED
      BY <3>1, <3>2 DEF BarcodesDiffer
  <2>3. QED
    BY <1>2, <1>8, <2>1, <2>2 DEF ProductsInv, StockedInv
<1>10. TaxesAreChosen
  BY <1>1, <1>6, <1>7 DEF TaxesAreChosen
<1>11. r \in ProductRequests /\ r.of = request.of /\ r.tax = request.tax
  BY <1>1 DEF ProductRequests
<1> HIDE DEF r
<1>12. RequestInv'
  BY <1>1, <1>5, <1>11, RequestGoesOn DEF ProductsInv
<1>13. QED
  BY <1>2, <1>9, <1>10, <1>12, PanelKept DEF ProductsInv

LEMMA ProductCreatedInv ==
    ASSUME ProductsAssumption, ProductsInv, ProductCreated
    PROVE  ProductsInv' /\ UNCHANGED products
<1>1. UNCHANGED <<categories, products, changes, seenCategories, read, fields, opened, previews, estimate>>
  BY DEF ProductCreated, productServer
<1>2. CASE request.call = "create" /\ request.tax # Nothing
  <2> DEFINE r == [request EXCEPT !.call = "pricing", !.stage = "sent"]
  <2>1. request # Nothing /\ request \in ProductRequests
    BY DEF ProductCreated, ProductsInv, RequestInv, Sendable
  <2>2. r \in ProductRequests /\ r.of = request.of /\ r.tax = request.tax
    BY <2>1 DEF ProductRequests
  <2>3. request' = r /\ UNCHANGED <<newProduct, error, timer>>
    BY <1>2 DEF ProductCreated
  <2> HIDE DEF r
  <2>4. RequestInv'
    BY <2>1, <2>2, <2>3, RequestGoesOn DEF ProductsInv
  <2>5. QED
    BY <1>1, <2>3, <2>4, PanelKept, StockedKept DEF ProductsInv, preview
<1>3. CASE ~(request.call = "create" /\ request.tax # Nothing)
  <2>1. request' = Nothing /\ newProduct' = Nothing /\ error' = FALSE /\ timer' = FALSE
    BY <1>3 DEF ProductCreated
  <2>2. QED
    BY <1>1, <2>1, FormGoes, StockedKept DEF ProductsInv, RequestInv
<1>4. QED
  BY <1>2, <1>3

LEMMA FailedInv ==
    ASSUME ProductsInv, Failed
    PROVE  ProductsInv' /\ UNCHANGED products
<1>1. /\ request' = Nothing /\ error' = TRUE
      /\ UNCHANGED <<categories, products, changes, seenCategories, read, newProduct, fields, opened, timer,
                     previews, estimate>>
  BY DEF Failed, productServer, preview
<1>2. PanelInv'
  BY <1>1 DEF ProductsInv, PanelInv, PreviewInv, InputsOf, TaxOf, PriceOf, Chosen
<1>3. QED
  BY <1>1, <1>2, StockedKept DEF ProductsInv, RequestInv

-----------------------------------------------------------------------------
LEMMA ProductsInitInv == ASSUME ProductsAssumption, ProductsInit PROVE ProductsInv
<1>1. categories \in Categories
  <2>1. \A c \in Cats : [unit |-> IF c = 1 THEN 1 ELSE Nothing, tax |-> c] \in [unit: Option(Units), tax: Option(Taxes)]
    BY DEF Option, Cats, Units, Taxes
  <2>2. QED
    BY <2>1 DEF ProductsInit, Categories
<1>2. PanelInv
  <2>1. seenCategories \in Categories /\ previews \in Seq(Inputs) /\ PreviewInv
    BY <1>1 DEF ProductsInit, PreviewInv
  <2>2. fields \in 0..LastField /\ opened \in 0..LastOpen
    BY ProductBounds DEF ProductsInit
  <2>3. newProduct \in Option(ProductForms) /\ estimate \in Option(Nat) /\ newProduct = Nothing
        /\ read \subseteq 0..2 /\ timer \in BOOLEAN /\ error \in BOOLEAN
    BY DEF ProductsInit, Option
  <2>4. QED
    BY <2>1, <2>2, <2>3 DEF PanelInv
<1>3. StockedInv
  BY <1>1, ProductBounds DEF ProductsInit, StockedInv, StockIsWhole, BarcodesDiffer
<1>4. QED
  BY <1>2, <1>3 DEF ProductsInv, RequestInv, ProductsInit

LEMMA ProductsNextInv ==
    ASSUME ProductsAssumption, ProductsInv, [ProductsNext]_productVars
    PROVE  ProductsInv' /\ [TaxesAreChosen]_productVars
<1>1. UNCHANGED products => TaxesAreChosen
  BY DEF TaxesAreChosen
<1>2. CASE ChangeCategory \/ Refetch \/ ReadWarehouses \/ OpenProduct \/ CancelProduct
  BY <1>1, <1>2, ChangeCategoryInv, RefetchInv, ReadWarehousesInv, OpenProductInv, CancelProductInv
<1>3. CASE \/ EditUnit \/ EditPrice \/ UsePrice \/ EditBarcode \/ EditStock \/ EditLot \/ Track
           \/ EditCategory \/ EditCost \/ EditMargin \/ PressTax
  BY <1>1, <1>3, QuietEdits, WatchedEdits
<1>4. CASE AskPreview \/ AnswerPreview \/ SubmitProduct \/ ProductCreated
  BY <1>1, <1>4, AskPreviewInv, AnswerPreviewInv, SubmitProductInv, ProductCreatedInv
<1>5. CASE CreateProduct \/ SetTaxes
  BY <1>5, CreateProductInv, SetTaxesInv
<1>6. CASE ProductNotCreated \/ Lost
  BY <1>1, <1>6, FailedInv DEF ProductNotCreated, Lost
<1>7. CASE UNCHANGED productVars
  <2>1. UNCHANGED <<categories, products, changes, seenCategories, read, newProduct, fields, opened, preview,
                    request, error>>
    BY <1>7 DEF productVars, productServer
  <2>2. QED
    BY <1>7, <2>1, PanelKept, StockedKept, RequestKept DEF ProductsInv
<1>8. QED
  BY <1>2, <1>3, <1>4, <1>5, <1>6, <1>7 DEF ProductsNext

LEMMA CurrentEstimate == ASSUME ProductsInv, InOrder PROVE EstimateIsCurrent
BY DEF ProductsInv, PanelInv, PreviewInv, EstimateIsCurrent

(* A product is created as its form showed it, for any number of edits,      *)
(* forms and products, if the answers to the previews come in the order      *)
(* asked: the estimate is that of what the form says, opening stock is       *)
(* whole, no two products have one barcode, and only a chip that was pressed *)
(* gives a tax of its own (CreateProductForm.tsx, create_product).           *)
THEOREM ProductsAreAsShown == ASSUME ProductsAssumption, InOrder PROVE ProductsSpec => CreatedAsShown
<1>1. ProductsInv /\ [ProductsNext]_productVars => ProductsInv' /\ [TaxesAreChosen]_productVars
  BY ProductsNextInv
<1>2. ProductsSpec => []ProductsInv
  BY <1>1, ProductsInitInv, PTL DEF ProductsSpec
<1>3. ProductsInv => ProductsTypeOK /\ EstimateIsCurrent /\ StockIsWhole /\ BarcodesDiffer
  BY ProductsInvTypes, CurrentEstimate DEF ProductsInv, StockedInv
<1>4. ProductsSpec => [](ProductsTypeOK /\ EstimateIsCurrent /\ StockIsWhole /\ BarcodesDiffer)
  BY <1>2, <1>3, PTL
<1>5. ProductsSpec => [][TaxesAreChosen]_productVars
  BY <1>1, <1>2, PTL DEF ProductsSpec
<1>6. QED
  BY <1>4, <1>5 DEF CreatedAsShown, UntouchedInherits, TaxesAreChosen
=============================================================================
