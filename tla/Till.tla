-------------------------------- MODULE Till --------------------------------
(***************************************************************************)
(* The till screen (frontend/src/pages/pos/PosHomePage.tsx) of one terminal  *)
(* and the sales it drives on the server (backend/app/sales/service.py):     *)
(* which sale is active, the cached list of open sales, the requests in      *)
(* flight with their retries, and the charge with its idempotency key.       *)
(*                                                                         *)
(* A request is served in one step: Checkout.tla is about what happens       *)
(* inside it.  A line is worth one.  An answer is handled with the state of  *)
(* the newest render, as TanStack Query does.                                *)
(***************************************************************************)
EXTENDS Naturals, Sequences, FiniteSets

CONSTANTS
    LastSale,       \* bound: sales ever opened at the terminal
    LastLine,       \* bound: lines ever added
    LastKey,        \* bound: idempotency keys the till draws
    LastElsewhere,  \* bound: steps of other browsers at the terminal
    LastRefetch,    \* bound: refetches of the list after a reconnection
    LastReload,     \* bound: page reloads
    None

ASSUME TillAssumption ==
    /\ {LastSale, LastLine, LastKey, LastElsewhere, LastRefetch, LastReload} \subseteq Nat
    /\ None \notin Nat

Sales == 1..LastSale
Lines == 1..LastLine
Keys == 1..LastKey
Methods == {"CASH", "CARD"}
Amounts == 0..(LastLine + 1)
Statuses == {"unborn", "DRAFT", "COMPLETED", "CANCELLED"}
Slots == {"open", "edit", "cancel", "check", "charge"}

VARIABLES
    \* the server
    status,      \* [Sales -> Statuses]; a cancelled sale is deleted
    cart,        \* [Sales -> SUBSET Lines]
    paid,        \* [Sales -> Payment, or None]
    claims,      \* [Keys -> <<sale, payment>> answered under the key, or None]
    lastLine,    \* Nat: line ids given out
    \* the till
    drafts,      \* the cached list of open sales, or None while it loads
    active,      \* the sale on the screen, as last answered, or None
    view,        \* "cart" or "checkout"
    receipt,     \* the sale just charged, or None
    attempt,     \* [sale, key] of the charge being tried, or None
    drawn,       \* Nat: keys drawn
    dialog,      \* the cancel dialog is open
    failedOpen,  \* the last attempt to open a sale failed
    \* between them
    req,         \* [Slots -> Request, or None]: at most one of each mutation
    listing,     \* [stage, got]: a fetch of that list
    late,        \* requests of a page that is gone
    known,       \* history: sales this page has been shown
    spent        \* [elsewhere, refetch, reload]: steps used of the bounds

serverVars == <<status, cart, paid, claims, lastLine>>
pageVars == <<drafts, active, view, receipt, attempt, dialog, failedOpen>>
vars == <<serverVars, pageVars, drawn, req, listing, late, known, spent>>

Payments == [method: Methods, amount: Amounts]
Snapshots == [id: Sales, lines: SUBSET Lines]
Receipts == [id: Sales, lines: SUBSET Lines, paid: Payments]
Requests ==
    [do: {"open", "find", "add", "remove", "cancel", "check", "charge"},
     sale: Sales \cup {None}, line: Lines \cup {None},
     payment: Payments \cup {None}, key: Keys \cup {None},
     stage: {"sent", "answered", "short", "failed"},
     got: Snapshots \cup Receipts \cup {None}]

\* A list that is not loaded is not taken for one.
ASSUME ListAssumption == None \notin Seq(Snapshots)

(* Sales, screens and messages have their types.                           *)
TypeOK ==
    /\ status \in [Sales -> Statuses]
    /\ cart \in [Sales -> SUBSET Lines]
    /\ paid \in [Sales -> Payments \cup {None}]
    /\ claims \in [Keys -> (Sales \X Payments) \cup {None}]
    /\ lastLine \in 0..LastLine
    /\ drafts \in Seq(Snapshots) \cup {None}
    /\ active \in Snapshots \cup {None}
    /\ view \in {"cart", "checkout"}
    /\ receipt \in Receipts \cup {None}
    /\ attempt \in [sale: Sales, key: Keys] \cup {None}
    /\ drawn \in 0..LastKey
    /\ dialog \in BOOLEAN
    /\ failedOpen \in BOOLEAN
    /\ req \in [Slots -> Requests \cup {None}]
    /\ listing \in [stage: {"none", "sent", "answered"}, got: Seq(Snapshots)]
    /\ late \subseteq Requests
    /\ known \subseteq Sales
    /\ spent \in [elsewhere: Nat, refetch: Nat, reload: Nat]

-----------------------------------------------------------------------------
(* Lists of sales.                                                         *)

\* The members of a finite set of numbers, in ascending order
InOrder(S) == [j \in 1..Cardinality(S) |-> CHOOSE x \in S : Cardinality({y \in S : y <= x}) = j]

IdsOf(list) == {list[i].id : i \in DOMAIN list}

-----------------------------------------------------------------------------
(* The server.                                                             *)

Born == {s \in Sales : status[s] # "unborn"}

Fresh == Cardinality(Born) + 1

Total(s) == Cardinality(cart[s])

Sale(s) == [id |-> s, lines |-> cart[s]]

\* list_sales: the drafts of the terminal, newest first.
OpenSales ==
    LET ids == InOrder({s \in Sales : status[s] = "DRAFT"})
    IN  [i \in 1..Len(ids) |-> Sale(ids[Len(ids) + 1 - i])]

\* Mutant: an overpayment by card is taken.
Covers_AnyTender(s, payment) == payment.amount >= Total(s)

\* checkout: the tender covers the total, and only cash gives change.
Covers(s, payment) ==
    /\ payment.amount >= Total(s)
    /\ payment.amount > Total(s) => payment.method = "CASH"

\* A sale that is there, and still open
IsDraft(s) == s \in Sales /\ status[s] = "DRAFT"

Chargeable(s) == IsDraft(s) /\ cart[s] # {}

\* The same key with the same sale and payments is answered from its record.
Replayed(m) == claims[m.key] # None /\ claims[m.key] = <<m.sale, m.payment>>

Accepted(m) ==
    CASE m.do = "open" -> Fresh \in Sales
      [] m.do = "find" -> TRUE
      [] m.do = "add" -> IsDraft(m.sale) /\ lastLine < LastLine
      [] m.do = "remove" -> IsDraft(m.sale) /\ m.line \in cart[m.sale]
      [] m.do = "cancel" -> IsDraft(m.sale)
      [] m.do = "check" -> Chargeable(m.sale)
      [] m.do = "charge" ->
            \/ Replayed(m)
            \/ claims[m.key] = None /\ Chargeable(m.sale) /\ Covers(m.sale, m.payment)

OpenSale(m) ==
    /\ m.do = "open"
    /\ status' = [status EXCEPT ![Fresh] = "DRAFT"]
    /\ UNCHANGED <<cart, paid, claims, lastLine>>

NextLine == lastLine + 1

AddLine(m) ==
    /\ m.do = "add"
    /\ lastLine' = lastLine + 1
    /\ cart' = [cart EXCEPT ![m.sale] = @ \cup {NextLine}]
    /\ UNCHANGED <<status, paid, claims>>

RemoveLine(m) ==
    /\ m.do = "remove"
    /\ cart' = [cart EXCEPT ![m.sale] = @ \ {m.line}]
    /\ UNCHANGED <<status, paid, claims, lastLine>>

CancelSale(m) ==
    /\ m.do = "cancel"
    /\ status' = [status EXCEPT ![m.sale] = "CANCELLED"]
    /\ UNCHANGED <<cart, paid, claims, lastLine>>

Charge(m) ==
    /\ m.do = "charge"
    /\ ~Replayed(m)
    /\ status' = [status EXCEPT ![m.sale] = "COMPLETED"]
    /\ paid' = [paid EXCEPT ![m.sale] = m.payment]
    /\ claims' = [claims EXCEPT ![m.key] = <<m.sale, m.payment>>]
    /\ UNCHANGED <<cart, lastLine>>

\* validate_sale_stock, the barcode lookup, and a replayed charge.
ReadOnly(m) ==
    /\ m.do = "charge" => Replayed(m)
    /\ m.do \in {"find", "check", "charge"}
    /\ UNCHANGED serverVars

Effect(m) ==
    OpenSale(m) \/ AddLine(m) \/ RemoveLine(m) \/ CancelSale(m) \/ Charge(m) \/ ReadOnly(m)

\* What the answer carries: get_sale at the end of the request.
Answer(m) ==
    CASE m.do = "open" -> [id |-> Fresh, lines |-> {}]
      [] m.do \in {"add", "remove"} -> [id |-> m.sale, lines |-> cart'[m.sale]]
      [] m.do = "charge" -> [id |-> m.sale, lines |-> cart[m.sale], paid |-> paid'[m.sale]]
      [] OTHER -> None

-----------------------------------------------------------------------------
(* The network: a request is served and answered, refused, or lost before    *)
(* or after it was served.                                                   *)

Sent(k) == req[k] # None /\ req[k].stage = "sent"

Serve(k) ==
    /\ Sent(k)
    /\ Accepted(req[k])
    /\ Effect(req[k])
    /\ \E answer \in {[stage |-> "answered", got |-> Answer(req[k])],
                      [stage |-> "failed", got |-> None]} :
          req' = [req EXCEPT ![k].stage = answer.stage, ![k].got = answer.got]
    /\ UNCHANGED <<pageVars, drawn, listing, late, known, spent>>

\* The stock does not suffice, or the request is refused or lost: the till
\* tells these two apart by their text alone.
Fail(k, stage) ==
    /\ Sent(k)
    /\ stage = "short" => k = "charge" /\ claims[req[k].key] = None
    /\ req' = [req EXCEPT ![k].stage = stage]
    /\ UNCHANGED <<serverVars, pageVars, drawn, listing, late, known, spent>>

ServeLate(m) ==
    /\ late' = late \ {m}
    /\ IF Accepted(m) THEN Effect(m) ELSE UNCHANGED serverVars
    /\ UNCHANGED <<pageVars, drawn, req, listing, known, spent>>

ServeList ==
    /\ listing.stage = "sent"
    /\ listing' = [stage |-> "answered", got |-> OpenSales]
    /\ UNCHANGED <<serverVars, pageVars, drawn, req, late, known, spent>>

\* Another browser at the same terminal.
Elsewhere(m) ==
    /\ spent.elsewhere < LastElsewhere
    /\ Accepted(m)
    /\ Effect(m)
    /\ spent' = [spent EXCEPT !.elsewhere = @ + 1]
    /\ UNCHANGED <<pageVars, drawn, req, listing, late, known>>

ChargedElsewhere(s, payment) ==
    /\ spent.elsewhere < LastElsewhere
    /\ Chargeable(s)
    /\ Covers(s, payment)
    /\ status' = [status EXCEPT ![s] = "COMPLETED"]
    /\ paid' = [paid EXCEPT ![s] = payment]
    /\ spent' = [spent EXCEPT !.elsewhere = @ + 1]
    /\ UNCHANGED <<cart, claims, lastLine, pageVars, drawn, req, listing, late, known>>

-----------------------------------------------------------------------------
(* The screen.                                                             *)

Busy == \E k \in {"edit", "cancel", "check"} : req[k] # None

Ask(do, s, line, payment, key) ==
    [do |-> do, sale |-> s, line |-> line, payment |-> payment, key |-> key,
     stage |-> "sent", got |-> None]

Send(k, m) == req' = [req EXCEPT ![k] = m]

\* The list of open sales is loaded, and the receipt is not in its way.
AtCounter == drafts # None /\ receipt = None

InCart == AtCounter /\ active # None /\ view = "cart"

\* The effect that resumes the newest draft ...
Resume ==
    /\ active = None
    /\ drafts # None
    /\ drafts # << >>
    /\ active' = Head(drafts)
    /\ known' = known \cup {active'.id}
    /\ UNCHANGED <<serverVars, drafts, view, receipt, attempt, dialog, failedOpen,
                   drawn, req, listing, late, spent>>

\* ... or opens a sale when there is none.
OpenFirst ==
    /\ active = None
    /\ drafts = << >>
    /\ req["open"] = None
    /\ ~failedOpen
    /\ Send("open", Ask("open", None, None, None, None))
    /\ UNCHANGED <<serverVars, pageVars, drawn, listing, late, known, spent>>

\* "Reintentar".
RetryOpen ==
    /\ AtCounter
    /\ active = None
    /\ failedOpen
    /\ req["open"] = None
    /\ failedOpen' = FALSE
    /\ Send("open", Ask("open", None, None, None, None))
    /\ UNCHANGED <<serverVars, drafts, active, view, receipt, attempt, dialog,
                   drawn, listing, late, known, spent>>

\* "Nueva venta" in the header.
NewSale ==
    /\ InCart
    /\ ~dialog
    /\ ~Busy
    /\ req["open"] = None
    /\ failedOpen' = FALSE
    /\ Send("open", Ask("open", None, None, None, None))
    /\ UNCHANGED <<serverVars, drafts, active, view, receipt, attempt, dialog,
                   drawn, listing, late, known, spent>>

\* The bar of open sales, there from two on and never disabled.
Select(i) ==
    /\ InCart
    /\ ~dialog
    /\ Len(drafts) > 1
    /\ i \in DOMAIN drafts
    /\ active' = drafts[i]
    /\ attempt' = None
    /\ known' = known \cup {active'.id}
    /\ UNCHANGED <<serverVars, drafts, view, receipt, dialog, failedOpen,
                   drawn, req, listing, late, spent>>

\* The scanner reads over the cancel dialog too.
Scan ==
    /\ InCart
    /\ ~Busy
    /\ Send("edit", Ask("find", None, None, None, None))
    /\ UNCHANGED <<serverVars, pageVars, drawn, listing, late, known, spent>>

\* A product is tapped; weight and open price only delay the request.
Tap ==
    /\ InCart
    /\ ~dialog
    /\ ~Busy
    /\ Send("edit", Ask("add", active.id, None, None, None))
    /\ UNCHANGED <<serverVars, pageVars, drawn, listing, late, known, spent>>

RemoveShown(line) ==
    /\ InCart
    /\ ~dialog
    /\ ~Busy
    /\ line \in active.lines
    /\ Send("edit", Ask("remove", active.id, line, None, None))
    /\ UNCHANGED <<serverVars, pageVars, drawn, listing, late, known, spent>>

AskToCancel ==
    /\ InCart
    /\ ~dialog
    /\ ~Busy
    /\ dialog' = TRUE
    /\ UNCHANGED <<serverVars, drafts, active, view, receipt, attempt, failedOpen,
                   drawn, req, listing, late, known, spent>>

\* "Seguir editando".
KeepEditing ==
    /\ dialog
    /\ active # None
    /\ req["cancel"] = None
    /\ dialog' = FALSE
    /\ UNCHANGED <<serverVars, drafts, active, view, receipt, attempt, failedOpen,
                   drawn, req, listing, late, known, spent>>

\* "Si, cancelar venta": waits for no other request.
ConfirmCancel ==
    /\ dialog
    /\ active # None
    /\ req["cancel"] = None
    /\ Send("cancel", Ask("cancel", active.id, None, None, None))
    /\ UNCHANGED <<serverVars, pageVars, drawn, listing, late, known, spent>>

\* "Cobrar" starts a new intention with a stock check.
Cobrar ==
    /\ InCart
    /\ ~dialog
    /\ ~Busy
    /\ active.lines # {}
    /\ attempt' = None
    /\ Send("check", Ask("check", active.id, None, None, None))
    /\ UNCHANGED <<serverVars, drafts, active, view, receipt, dialog, failedOpen,
                   drawn, listing, late, known, spent>>

InCheckout == AtCounter /\ active # None /\ view = "checkout"

\* Card pays the total shown; cash the total shown or more.
Tenders ==
    LET shown == Cardinality(active.lines)
    IN  {[method |-> "CARD", amount |-> shown], [method |-> "CASH", amount |-> shown],
         [method |-> "CASH", amount |-> shown + 1]} \cap Payments

\* Mutant: a key drawn for another sale is used.
AttemptNow_AnySale ==
    IF attempt # None THEN attempt.key ELSE drawn + 1

\* The key of the attempt, or a new one.
AttemptNow ==
    IF attempt # None /\ attempt.sale = active.id THEN attempt.key ELSE drawn + 1

Confirm(payment) ==
    /\ InCheckout
    /\ req["charge"] = None
    /\ AttemptNow \in Keys
    /\ attempt' = [sale |-> active.id, key |-> AttemptNow]
    /\ drawn' = IF AttemptNow > drawn THEN AttemptNow ELSE drawn
    /\ Send("charge", Ask("charge", active.id, None, payment, AttemptNow))
    /\ UNCHANGED <<serverVars, drafts, active, view, receipt, dialog, failedOpen,
                   listing, late, known, spent>>

\* "Volver".
Leave ==
    /\ InCheckout
    /\ req["charge"] = None
    /\ attempt' = None
    /\ view' = "cart"
    /\ UNCHANGED <<serverVars, drafts, active, receipt, dialog, failedOpen,
                   drawn, req, listing, late, known, spent>>

Dismiss ==
    /\ receipt # None
    /\ receipt' = None
    /\ UNCHANGED <<serverVars, drafts, active, view, attempt, dialog, failedOpen,
                   drawn, req, listing, late, known, spent>>

-----------------------------------------------------------------------------
(* Answers.                                                                *)

Done(k) == req[k] # None /\ req[k].stage = "answered"

Failed(k) == req[k] # None /\ req[k].stage \in {"short", "failed"}

Cleared(k) == req' = [req EXCEPT ![k] = None]

Listed == IF drafts = None THEN << >> ELSE drafts

\* syncSale: the answer replaces its entry in the list.
Synced(sale) == [i \in DOMAIN Listed |-> IF Listed[i].id = sale.id THEN sale ELSE Listed[i]]

\* closeSale: its entry leaves the list.
Without(id) ==
    LET kept == InOrder({i \in DOMAIN Listed : Listed[i].id # id})
    IN  [j \in 1..Len(kept) |-> Listed[kept[j]]]

First(list) == IF list = << >> THEN None ELSE list[1]

\* Mutant: the new sale replaces the open ones.
Joined_Alone(sale) == <<sale>>

\* "Se anade a las que ya hay, no se sustituyen".
Joined(sale) == Append(Listed, sale)

Opened ==
    /\ Done("open")
    /\ Cleared("open")
    /\ drafts' = Joined(req["open"].got)
    /\ active' = req["open"].got
    /\ known' = known \cup {active'.id}
    /\ UNCHANGED <<serverVars, view, receipt, attempt, dialog, failedOpen,
                   drawn, listing, late, spent>>

\* Mutant: the effect does not learn that it failed.
OpenFailed_Silent ==
    /\ Failed("open")
    /\ Cleared("open")
    /\ UNCHANGED <<serverVars, pageVars, drawn, listing, late, known, spent>>

OpenFailed ==
    /\ Failed("open")
    /\ Cleared("open")
    /\ failedOpen' = TRUE
    /\ UNCHANGED <<serverVars, drafts, active, view, receipt, attempt, dialog,
                   drawn, listing, late, known, spent>>

\* The lookup is answered: the line goes to the sale on the screen by now.
Found ==
    /\ Done("edit")
    /\ req["edit"].do = "find"
    /\ IF active = None THEN Cleared("edit")
                        ELSE Send("edit", Ask("add", active.id, None, None, None))
    /\ UNCHANGED <<serverVars, pageVars, drawn, listing, late, known, spent>>

\* A line was added or removed: the answer becomes the active sale.
Edited ==
    /\ Done("edit")
    /\ req["edit"].do # "find"
    /\ Cleared("edit")
    /\ active' = req["edit"].got
    /\ drafts' = Synced(active')
    /\ known' = known \cup {active'.id}
    /\ UNCHANGED <<serverVars, view, receipt, attempt, dialog, failedOpen,
                   drawn, listing, late, spent>>

\* The error is shown and nothing else changes.
Failure(k) ==
    /\ k \in {"edit", "cancel", "check"}
    /\ Failed(k)
    /\ Cleared(k)
    /\ UNCHANGED <<serverVars, pageVars, drawn, listing, late, known, spent>>

Cancelled ==
    /\ Done("cancel")
    /\ Cleared("cancel")
    /\ dialog' = FALSE
    /\ drafts' = Without(req["cancel"].sale)
    /\ active' = First(drafts')
    /\ known' = known \cup IdsOf(drafts')
    /\ UNCHANGED <<serverVars, view, receipt, attempt, failedOpen,
                   drawn, listing, late, spent>>

\* The stock suffices: whatever sale is active is charged next.
Checked ==
    /\ Done("check")
    /\ Cleared("check")
    /\ view' = "checkout"
    /\ UNCHANGED <<serverVars, drafts, active, receipt, attempt, dialog, failedOpen,
                   drawn, listing, late, known, spent>>

Charged ==
    /\ Done("charge")
    /\ Cleared("charge")
    /\ attempt' = None
    /\ receipt' = req["charge"].got
    /\ drafts' = Without(receipt'.id)
    /\ active' = First(drafts')
    /\ view' = "cart"
    /\ known' = known \cup IdsOf(drafts')
    /\ UNCHANGED <<serverVars, dialog, failedOpen, drawn, listing, late, spent>>

\* Mutant: any error ends the intention.
Kept_Never(stage) == None

\* The key outlives every error except the lack of stock.
Kept(stage) == IF stage = "short" THEN None ELSE attempt

ChargeFailed ==
    /\ Failed("charge")
    /\ Cleared("charge")
    /\ attempt' = Kept(req["charge"].stage)
    /\ view' = IF req["charge"].stage = "short" THEN "cart" ELSE view
    /\ UNCHANGED <<serverVars, drafts, active, receipt, dialog, failedOpen,
                   drawn, listing, late, known, spent>>

-----------------------------------------------------------------------------
(* The list and the page.                                                  *)

NoFetch == [stage |-> "none", got |-> << >>]

Fetching == [stage |-> "sent", got |-> << >>]

ListArrives ==
    /\ listing.stage = "answered"
    /\ drafts' = listing.got
    /\ listing' = NoFetch
    /\ known' = known \cup IdsOf(drafts')
    /\ UNCHANGED <<serverVars, active, view, receipt, attempt, dialog, failedOpen,
                   drawn, req, late, spent>>

\* The network is back: stale queries are fetched again.
Reconnect ==
    /\ listing = NoFetch
    /\ spent.refetch < LastRefetch
    /\ listing' = Fetching
    /\ spent' = [spent EXCEPT !.refetch = @ + 1]
    /\ UNCHANGED <<serverVars, pageVars, drawn, req, late, known>>

\* The page is reloaded, or the browser closed and opened again: what it had
\* sent may still arrive.
Reload ==
    /\ spent.reload < LastReload
    /\ spent' = [spent EXCEPT !.reload = @ + 1]
    /\ late' \in {late \cup lost : lost \in SUBSET {req[k] : k \in {k \in Slots : Sent(k)}}}
    /\ req' = [k \in Slots |-> None]
    /\ drafts' = None
    /\ active' = None
    /\ view' = "cart"
    /\ receipt' = None
    /\ attempt' = None
    /\ dialog' = FALSE
    /\ failedOpen' = FALSE
    /\ listing' = Fetching
    /\ known' = {}
    /\ UNCHANGED <<serverVars, drawn>>

Init ==
    /\ status = [s \in Sales |-> "unborn"]
    /\ cart = [s \in Sales |-> {}]
    /\ paid = [s \in Sales |-> None]
    /\ claims = [k \in Keys |-> None]
    /\ lastLine = 0
    /\ drafts = None
    /\ active = None
    /\ view = "cart"
    /\ receipt = None
    /\ attempt = None
    /\ drawn = 0
    /\ dialog = FALSE
    /\ failedOpen = FALSE
    /\ req = [k \in Slots |-> None]
    /\ listing = Fetching
    /\ late = {}
    /\ known = {}
    /\ spent = [elsewhere |-> 0, refetch |-> 0, reload |-> 0]

Network ==
    \/ \E k \in Slots : Serve(k) \/ \E stage \in {"short", "failed"} : Fail(k, stage)
    \/ \E m \in late : ServeLate(m)
    \/ ServeList

Others ==
    \/ \E s \in Sales, do \in {"add", "cancel"} : Elsewhere(Ask(do, s, None, None, None))
    \/ \E s \in Sales, payment \in Payments : ChargedElsewhere(s, payment)

Cashier ==
    \/ RetryOpen \/ NewSale \/ Scan \/ Tap \/ AskToCancel \/ KeepEditing \/ ConfirmCancel
    \/ Cobrar \/ Leave \/ Dismiss
    \/ \E i \in 1..LastSale : Select(i)
    \/ \E line \in Lines : RemoveShown(line)
    \/ \E payment \in Payments : active # None /\ payment \in Tenders /\ Confirm(payment)

Answers ==
    \/ Opened \/ OpenFailed \/ Found \/ Edited \/ Cancelled \/ Checked \/ Charged
    \/ ChargeFailed \/ ListArrives
    \/ \E k \in Slots : Failure(k)

Effects == Resume \/ OpenFirst

Next == Network \/ Others \/ Cashier \/ Answers \/ Effects \/ Reconnect \/ Reload

Spec == Init /\ [][Next]_vars

\* Requests end, answers are handled, effects run.
FairSpec ==
    /\ Spec
    /\ WF_vars(Effects)
    /\ WF_vars(Serve("open") \/ Fail("open", "failed"))
    /\ WF_vars(Opened \/ OpenFailed)

-----------------------------------------------------------------------------
(* A key is drawn for one sale: no two charges, in flight, on their way from *)
(* a page that is gone, or answered, share a key and differ in the sale.     *)
ChargesOf(k) ==
    {m.sale : m \in {m \in late \cup {req["charge"]} : m # None /\ m.key = k}}
    \cup {c[1] : c \in {claims[k]} \ {None}}

KeyNamesOneSale == \A k \in Keys : Cardinality(ChargesOf(k)) <= 1

(* Seen from the counter: a sale is filled while open, paid once and for     *)
(* what it holds, and every receipt on the screen is that of a paid sale     *)
(* with the lines and the payment the server keeps, however many answers    *)
(* were lost, charges retried and pages reloaded.                            *)
Counter == INSTANCE Counter WITH
    receipt <- receipt

CounterSpec == Counter!Spec

AttemptKept ==
    /\ attempt # None /\ active # None
    /\ InCheckout /\ InCheckout' /\ active' = active
    /\ attempt.sale = active.id
    => attempt' = attempt

(* The key of a charge survives a lost answer and every error but the lack   *)
(* of stock, as long as the checkout of that sale stays on the screen.       *)
KeySurvivesRetry == [][AttemptKept]_vars

(* A till without an active sale resumes one or opens one, or says that it   *)
(* could not.                                                                *)
TillComesUp ==
    (active = None /\ drafts # None) ~> (active # None \/ failedOpen \/ drafts = None)

(* "keeps every other cart from the same terminal visible in OpenSalesBar":  *)
(* a draft the page has been shown is the active sale or in the bar, unless  *)
(* the list was read again (PosHomePage, OpenSalesBar).                     *)
EveryCartVisible ==
    \A s \in known : status[s] = "DRAFT" => (active # None /\ active.id = s) \/ s \in IdsOf(Listed)

CartsVisible == spent.refetch = 0 => EveryCartVisible
=============================================================================
