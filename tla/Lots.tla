------------------------------- MODULE Lots -------------------------------
(***************************************************************************)
(* The lots of a product: the page where they are created, corrected and    *)
(* deleted, counted, and taken out first to expire first                    *)
(* (frontend/src/pages/admin/LotsPage.tsx, frontend/src/features/lots), and *)
(* the handlers (backend/app/lots/service.py).  A count and a change of a   *)
(* lot are two steps each, what they read and what they write; a            *)
(* consumption locks every row it reads and is one.                         *)
(***************************************************************************)
EXTENDS Integers, Functions

CONSTANTS
    Clerks,     \* browsers with the page open
    Places,     \* locations
    Numbers,    \* what a package may say its lot is
    Dates,      \* when a lot may expire
    LastLot,    \* bound: the lots there may be
    FirstLots,  \* the lots there are at first
    Largest,    \* bound: quantities
    Kinds,      \* bound: the requests that are made
    Tills,      \* bound: "receive", "sell": what happens elsewhere
    Patient,    \* bound: nothing is touched while a request is on its way
    Failures,   \* answers may be lost
    Leaves,     \* bound: another product is chosen and then this one again
    LastRequest,\* bound: requests made
    LastEdit,   \* bound: edits
    None

ASSUME LotsAssumption ==
    /\ {LastLot, FirstLots, LastRequest, LastEdit} \subseteq Nat /\ FirstLots <= LastLot
    /\ Largest \in Nat \ {0}
    /\ Dates \subseteq Nat
    /\ \E f \in [1..FirstLots -> Numbers] : \A i, j \in 1..FirstLots : f[i] = f[j] => i = j
    /\ {Patient, Failures, Leaves} \subseteq BOOLEAN
    /\ Tills \subseteq {"receive", "sell"}
    /\ Places # {}
    /\ None \notin Nat \cup Places \cup Numbers \cup [number: Numbers, expires: Dates \cup {None}]

VARIABLES
    lots,       \* [Ids -> the row of a lot, or None]
    born,       \* Nat: the lots there have been
    stock,      \* [Places -> [Ids -> the row of stock_balance, or None]]
    executed,   \* [Keys -> the times a consumption was executed]
    panel,      \* [Clerks -> what the page holds]
    seenLots,   \* [Clerks -> the lots as last read]
    seenStock,  \* [Clerks -> [Places -> the balances as last read, or None]]
    stale,      \* [Clerks -> the queries that must be read again]
    pending,    \* the requests
    made,       \* Nat: requests made
    edits       \* Nat

server == <<lots, born, stock, executed>>
queries == <<seenLots, seenStock, stale>>
vars == <<server, panel, queries, pending, made, edits>>

Or(S) == S \cup {None}
Ids == 1..LastLot
Keys == 1..LastRequest
Row == [number: Numbers, expires: Or(Dates)]
Intents == [place: Places, quantity: 0..Largest]
\* What the form of a new lot may hold
\* bound: an opening stock of one
NewLots == [values: Row, place: Places, quantity: 0..1]
Balances == [Ids -> Nat]

\* plan: what the allocations listed under the quantity are for; attempt: consumeAttemptRef;
\* count and row: the lines that are being edited
Panels == [place: Places, quantity: Or(1..Largest), plan: Or(Intents),
           attempt: Or([intent: Intents, key: Keys]),
           count: Or([lot: Ids, quantity: 0..Largest, at: Places]),
           row: Or([lot: Ids, values: Row])]

Steps == {"sent", "checked", "done", "refused"}
Requests == [n: Keys, clerk: Clerks, kind: {"plan", "consume", "count", "create", "update", "delete"},
             waited: {"here", "left", "lost"}, key: Keys, lot: Or(Ids), place: Places, quantity: 0..Largest,
             at: Places, values: Or(Row), before: Or(Int), step: Steps]

(* The lots, the stock, the pages and the requests have their types.       *)
TypeOK ==
    /\ lots \in [Ids -> Or(Row)]
    /\ born \in FirstLots..LastLot
    /\ \A i \in Ids : i > born => lots[i] = None
    /\ stock \in [Places -> [Ids -> Or(Int)]]
    /\ executed \in [Keys -> Nat]
    /\ panel \in [Clerks -> Panels]
    /\ seenLots \in [Clerks -> [Ids -> Or(Row)]]
    /\ seenStock \in [Clerks -> [Places -> Or(Balances)]]
    /\ stale \in [Clerks -> SUBSET (Places \cup {"lots"})]
    /\ pending \subseteq Requests
    /\ made \in 0..LastRequest
    /\ edits \in 0..LastEdit

-----------------------------------------------------------------------------
(* First to expire first: lot_balances and plan_fefo *)

\* Mutant: the lots without a date come first.
Before_UndatedFirst(i, j) ==
    LET a == lots[i].expires
        b == lots[j].expires
    IN IF a = b THEN i < j ELSE IF a = None THEN TRUE ELSE b # None /\ a < b

Before(i, j) ==
    LET a == lots[i].expires
        b == lots[j].expires
    IN IF a = b THEN i < j ELSE IF b = None THEN TRUE ELSE a # None /\ a < b

Quantity(p, i) == IF stock[p][i] = None THEN 0 ELSE stock[p][i]
Positive(p) == [i \in Ids |-> IF Quantity(p, i) > 0 THEN Quantity(p, i) ELSE 0]
Available(p) == SumFunction(Positive(p))

Takes(p, q) ==
    LET first(i) == {j \in Ids : lots[j] # None /\ Before(j, i)}
        wanted(i) == q - SumFunctionOnSet(Positive(p), first(i))
    IN [i \in Ids |->
          IF lots[i] = None \/ wanted(i) < 0 THEN 0
          ELSE IF wanted(i) \in 0..Positive(p)[i] THEN wanted(i) ELSE Positive(p)[i]]

\* The form as it opens, at a location
Fresh(p) == [place |-> p, quantity |-> None, plan |-> None, attempt |-> None, count |-> None, row |-> None]

Init ==
    /\ \E expires \in [1..FirstLots -> Or(Dates)] :
          LET number == CHOOSE f \in [1..FirstLots -> Numbers] :
                            \A i, j \in 1..FirstLots : f[i] = f[j] => i = j
          IN lots = [i \in Ids |-> IF i > FirstLots THEN None
                                   ELSE [number |-> number[i], expires |-> expires[i]]]
    /\ born = FirstLots
    /\ stock \in [Places -> {f \in [Ids -> {1, None}] : \A i \in Ids : i > FirstLots => f[i] = None}]
    /\ executed = [k \in Keys |-> 0]
    /\ LET first == CHOOSE p \in Places : TRUE IN panel = [c \in Clerks |-> Fresh(first)]
    /\ seenLots = [c \in Clerks |-> lots]
    /\ seenStock = [c \in Clerks |-> [p \in Places |-> None]]
    /\ stale = [c \in Clerks |-> {}]
    /\ pending = {}
    /\ made = 0
    /\ edits = 0

-----------------------------------------------------------------------------
(* The queries *)

ReadLots(c) ==
    /\ "lots" \in stale[c]
    /\ seenLots' = [seenLots EXCEPT ![c] = lots]
    /\ stale' = [stale EXCEPT ![c] = @ \ {"lots"}]
    \* A row that is gone takes what was typed in it along.
    /\ panel' = [panel EXCEPT ![c].row = IF @ = None THEN None ELSE IF lots[@.lot] = None THEN None ELSE @]
    /\ UNCHANGED <<server, seenStock, pending, made, edits>>

\* The balances of the location that is shown
ReadStock(c) ==
    LET p == panel[c].place IN
    /\ p \in stale[c] \/ seenStock[c][p] = None
    /\ seenStock' = [seenStock EXCEPT ![c][p] = Positive(p)]
    /\ stale' = [stale EXCEPT ![c] = @ \ {p}]
    /\ UNCHANGED <<server, seenLots, panel, pending, made, edits>>

-----------------------------------------------------------------------------
(* The page *)

Waiting(c, kind) == \E r \in pending : r.clerk = c /\ r.kind = kind /\ r.waited = "here"
Idle(c) == Patient => ~\E r \in pending : r.clerk = c /\ r.waited = "here"

Touch(c, p) ==
    /\ Idle(c)
    /\ p # panel[c]
    /\ edits < LastEdit
    /\ edits' = edits + 1
    /\ panel' = [panel EXCEPT ![c] = p]
    /\ UNCHANGED <<server, queries, pending, made>>

ChangePlace(c, p) == p # panel[c].place /\ Touch(c, [panel[c] EXCEPT !.place = p, !.plan = None])

TypeQuantity(c, q) == q # panel[c].quantity /\ Touch(c, [panel[c] EXCEPT !.quantity = q, !.plan = None])

\* The lots with stock in the table of balances
Listed(c) ==
    {i \in Ids : seenStock[c][panel[c].place] # None /\ seenStock[c][panel[c].place][i] > 0}

\* "Corregir cantidad"
StartCount(c, i) ==
    /\ "count" \in Kinds
    /\ i \in Listed(c)
    /\ IF panel[c].count = None THEN TRUE ELSE panel[c].count.lot # i
    /\ ~Waiting(c, "count")
    /\ LET q == seenStock[c][panel[c].place][i] IN
       Touch(c, [panel[c] EXCEPT !.count =
          [lot |-> i, quantity |-> IF q > Largest THEN Largest ELSE q, at |-> panel[c].place]])

Counting(c) == panel[c].count # None /\ panel[c].count.lot \in Listed(c)

TypeCount(c, q) ==
    /\ Counting(c)
    /\ Touch(c, [panel[c] EXCEPT !.count.quantity = q, !.count.at = panel[c].place])

CancelCount(c) ==
    /\ Counting(c)
    /\ ~Waiting(c, "count")
    /\ Touch(c, [panel[c] EXCEPT !.count = None])

\* The row of a lot with its four fields
EditRow(c, i) ==
    /\ "update" \in Kinds
    /\ seenLots[c][i] # None
    /\ ~Waiting(c, "delete")
    /\ Touch(c, [panel[c] EXCEPT !.row = [lot |-> i, values |-> seenLots[c][i]]])

TypeRow(c, values) ==
    /\ panel[c].row # None
    /\ Touch(c, [panel[c] EXCEPT !.row.values = values])

CancelRow(c) ==
    /\ panel[c].row # None
    /\ ~Waiting(c, "update")
    /\ Touch(c, [panel[c] EXCEPT !.row = None])

\* Another product is chosen, and then this one again: the panels begin anew
\* and no longer wait for what they asked.
Leave(c) ==
    /\ Leaves
    /\ panel[c] # Fresh(panel[c].place)
    /\ Idle(c)
    /\ ~Waiting(c, "update")    \* bound: not while a row is being saved
    /\ edits < LastEdit
    /\ edits' = edits + 1
    /\ panel' = [panel EXCEPT ![c] = Fresh(@.place)]
    /\ pending' = {IF r.clerk = c /\ r.waited = "here" /\ r.kind \in {"plan", "consume", "count"}
                   THEN [r EXCEPT !.waited = "left"] ELSE r : r \in pending}
    /\ UNCHANGED <<server, queries, made>>

-----------------------------------------------------------------------------
(* The requests *)

Send(c, kind, r) ==
    /\ kind \in Kinds
    /\ ~Waiting(c, kind)
    /\ Idle(c)
    /\ made < LastRequest
    /\ made' = made + 1
    /\ pending' = pending \cup {r}
    /\ UNCHANGED <<server, queries, edits>>

Blank(c, kind) ==
    [n |-> made + 1, clerk |-> c, kind |-> kind, waited |-> "here", key |-> made + 1, lot |-> None,
     place |-> panel[c].place, quantity |-> 0, at |-> panel[c].place, values |-> None, before |-> None,
     step |-> "sent"]

\* "Ver plan"
AskPlan(c) ==
    /\ panel[c].quantity # None
    /\ Send(c, "plan", [Blank(c, "plan") EXCEPT !.quantity = panel[c].quantity])
    /\ UNCHANGED panel

\* "Confirmar salida": the key of the last attempt if it was for the same
KeyFor(c, intent) ==
    IF panel[c].attempt = None THEN made + 1
    ELSE IF panel[c].attempt.intent = intent THEN panel[c].attempt.key ELSE made + 1

Confirm(c) ==
    LET q == IF panel[c].quantity = None THEN 0 ELSE panel[c].quantity
        intent == [place |-> panel[c].place, quantity |-> q]
    IN
    /\ panel[c].plan # None
    /\ Send(c, "consume", [Blank(c, "consume") EXCEPT !.quantity = q, !.key = KeyFor(c, intent)])
    /\ panel' = [panel EXCEPT ![c].attempt = [intent |-> intent, key |-> KeyFor(c, intent)]]

\* "Guardar" of a count, at the location that is shown
SaveCount(c) ==
    /\ Counting(c)
    /\ Send(c, "count", [Blank(c, "count") EXCEPT !.lot = panel[c].count.lot,
                             !.quantity = panel[c].count.quantity, !.at = panel[c].count.at])
    /\ UNCHANGED panel

\* The form is emptied at once.
CreateLot(c, new) ==
    /\ Send(c, "create", [Blank(c, "create") EXCEPT !.values = new.values, !.place = new.place,
                              !.quantity = new.quantity])
    /\ UNCHANGED panel

SaveRow(c) ==
    /\ panel[c].row # None
    /\ Send(c, "update", [Blank(c, "update") EXCEPT !.lot = panel[c].row.lot, !.values = panel[c].row.values])
    /\ UNCHANGED panel

DeleteLot(c, i) ==
    /\ seenLots[c][i] # None
    /\ IF panel[c].row = None THEN TRUE ELSE panel[c].row.lot # i
    /\ Send(c, "delete", [Blank(c, "delete") EXCEPT !.lot = i])
    /\ UNCHANGED panel

-----------------------------------------------------------------------------
(* The answers *)

Intent(r) == [place |-> r.place, quantity |-> r.quantity]

\* What an answer, or an error, leaves on the page
Answered(r, p, ok) ==
    CASE r.kind = "plan" -> [p EXCEPT !.plan = IF ok THEN Intent(r) ELSE None]
      [] r.kind = "consume" /\ ok -> [p EXCEPT !.plan = Intent(r), !.attempt = None]
      [] r.kind = "count" /\ ok -> [p EXCEPT !.count = None]
      [] r.kind = "update" /\ ok -> [p EXCEPT !.row = None]
      [] OTHER -> p

\* The queries a success makes read again
Invalidated(r) ==
    CASE r.kind = "plan" -> {}
      [] r.kind \in {"consume", "count"} -> Places
      [] OTHER -> Places \cup {"lots"}

Answer(r) ==
    /\ r.step \in {"done", "refused"}
    /\ pending' = pending \ {r}
    /\ panel' = IF r.waited = "here" THEN [panel EXCEPT ![r.clerk] = Answered(r, @, r.step = "done")] ELSE panel
    /\ stale' = IF r.waited # "lost" /\ r.step = "done" THEN [stale EXCEPT ![r.clerk] = @ \cup Invalidated(r)]
                ELSE stale
    /\ UNCHANGED <<server, seenLots, seenStock, made, edits>>

\* The connection is lost, before or after the request is served.
Lose(r) ==
    /\ Failures
    /\ r.waited = "here"
    /\ pending' = (pending \ {r}) \cup {[r EXCEPT !.waited = "lost"]}
    /\ panel' = [panel EXCEPT ![r.clerk] = Answered(r, @, FALSE)]
    /\ UNCHANGED <<server, queries, made, edits>>

-----------------------------------------------------------------------------
(* The handlers *)

Becomes(r, after) ==
    /\ pending' = (pending \ {r}) \cup {after}
    /\ UNCHANGED <<panel, queries, made, edits>>

\* A count that has locked the row keeps everybody else from it.
Held(p, i) ==
    \E r \in pending : r.kind = "count" /\ r.step = "checked" /\ r.place = p /\ r.lot = i /\ stock[p][i] # None

\* plan_fefo
MakePlan(r) ==
    /\ r.kind = "plan"
    /\ r.step = "sent"
    /\ Becomes(r, [r EXCEPT !.step = IF Available(r.place) >= r.quantity THEN "done" ELSE "refused"])
    /\ UNCHANGED server

Taken(p, takes) == [i \in Ids |-> IF takes[i] = 0 THEN stock[p][i] ELSE Quantity(p, i) - takes[i]]

\* Mutant: a key that was used is not looked for.
Claimed_Never(k) == FALSE

Claimed(k) == executed[k] > 0

\* execute_manual_fefo_consumption, once the rows are free
Consume(r) ==
    /\ r.kind = "consume"
    /\ r.step = "sent"
    /\ \A i \in Ids : ~Held(r.place, i)
    /\ LET ok == r.quantity > 0 /\ Available(r.place) >= r.quantity
       IN IF Claimed(r.key)
          THEN Becomes(r, [r EXCEPT !.step = "done"]) /\ UNCHANGED <<stock, executed>>
          ELSE IF ok
          THEN /\ Becomes(r, [r EXCEPT !.step = "done"])
               /\ stock' = [stock EXCEPT ![r.place] = Taken(r.place, Takes(r.place, r.quantity))]
               /\ executed' = [executed EXCEPT ![r.key] = @ + 1]
          ELSE Becomes(r, [r EXCEPT !.step = "refused"]) /\ UNCHANGED <<stock, executed>>
    /\ UNCHANGED <<lots, born>>

\* The advisory lock of a count, for the rows that are not there yet
\* Mutant: neither this lock nor that of the row is taken.
CountFree_Always(r) == TRUE

CountFree(r) ==
    ~\E other \in pending \ {r} :
        other.kind = "count" /\ other.step = "checked" /\ other.place = r.place /\ other.lot = r.lot

\* set_lot_stock: the balance is read, and locked if there is a row of it.
ReadCount(r) ==
    /\ r.kind = "count"
    /\ r.step = "sent"
    /\ CountFree(r)
    /\ Becomes(r, IF lots[r.lot] = None THEN [r EXCEPT !.step = "refused"]
                  ELSE IF Quantity(r.place, r.lot) = r.quantity THEN [r EXCEPT !.step = "done"]
                  ELSE [r EXCEPT !.step = "checked", !.before = Quantity(r.place, r.lot)])
    /\ UNCHANGED server

\* The difference is recorded; a lot that has gone refuses it.
WriteCount(r) ==
    /\ r.kind = "count"
    /\ r.step = "checked"
    /\ IF lots[r.lot] = None
       THEN Becomes(r, [r EXCEPT !.step = "refused"]) /\ UNCHANGED stock
       ELSE /\ Becomes(r, [r EXCEPT !.step = "done"])
            /\ stock' = [stock EXCEPT ![r.place][r.lot] = Quantity(r.place, r.lot) + r.quantity - r.before]
    /\ UNCHANGED <<lots, born, executed>>

\* What create_lot, update_lot and delete_lot look for before they write, and
\* what the constraints of the tables see when they do
\* Mutant: the number of a lot is not unique.
NumberTaken_Never(r) == FALSE

NumberTaken(r) == \E i \in Ids : i # r.lot /\ lots[i] # None /\ lots[i].number = r.values.number

Referred(i) == \E p \in Places : stock[p][i] # None

Refuses(r) ==
    CASE r.kind = "create" -> NumberTaken(r) \/ born = LastLot
      [] r.kind = "update" -> lots[r.lot] = None \/ NumberTaken(r)
      [] r.kind = "delete" -> lots[r.lot] = None \/ Referred(r.lot)

Changes(r) == r.kind \in {"create", "update", "delete"}

Check(r) ==
    /\ Changes(r)
    /\ r.step = "sent"
    /\ Becomes(r, [r EXCEPT !.step = IF Refuses(r) THEN "refused" ELSE "checked"])
    /\ UNCHANGED server

\* A lot is created with its opening stock.
WriteLot(r) ==
    /\ Changes(r)
    /\ r.step = "checked"
    /\ Becomes(r, [r EXCEPT !.step = IF Refuses(r) THEN "refused" ELSE "done"])
    /\ IF Refuses(r) THEN UNCHANGED server
       ELSE /\ born' = IF r.kind = "create" THEN born + 1 ELSE born
            /\ lots' = IF r.kind = "create" THEN [lots EXCEPT ![born'] = r.values]
                       ELSE [lots EXCEPT ![r.lot] = r.values]
            /\ stock' = IF r.kind = "create" /\ r.quantity > 0 THEN [stock EXCEPT ![r.place][born'] = r.quantity]
                        ELSE stock
            /\ UNCHANGED executed

\* Goods of a lot arrive, which may be its first at a location.
Receive(p, i) ==
    /\ "receive" \in Tills
    /\ lots[i] # None
    /\ ~Held(p, i)
    /\ Quantity(p, i) < Largest
    /\ edits < LastEdit
    /\ edits' = edits + 1
    /\ stock' = [stock EXCEPT ![p][i] = Quantity(p, i) + 1]
    /\ UNCHANGED <<lots, born, executed, panel, queries, pending, made>>

\* A till sells one.
Sell(p) ==
    /\ "sell" \in Tills
    /\ \A i \in Ids : ~Held(p, i)
    /\ Available(p) > 0
    /\ edits < LastEdit
    /\ edits' = edits + 1
    /\ stock' = [stock EXCEPT ![p] = Taken(p, Takes(p, 1))]
    /\ UNCHANGED <<lots, born, executed, panel, queries, pending, made>>

-----------------------------------------------------------------------------
Edits(c) ==
    \/ \E p \in Places : ChangePlace(c, p)
    \/ \E q \in Or(1..Largest) : TypeQuantity(c, q)
    \/ \E i \in Ids : StartCount(c, i) \/ EditRow(c, i)
    \/ \E q \in 0..Largest : TypeCount(c, q)
    \/ CancelCount(c)
    \/ \E values \in Row : TypeRow(c, values)
    \/ CancelRow(c)
    \/ Leave(c)

Requesting(c) ==
    \/ AskPlan(c) \/ Confirm(c) \/ SaveCount(c) \/ SaveRow(c)
    \/ \E new \in NewLots : CreateLot(c, new)
    \/ \E i \in Ids : DeleteLot(c, i)

Serve(r) ==
    \/ MakePlan(r) \/ Consume(r) \/ ReadCount(r) \/ WriteCount(r) \/ Check(r) \/ WriteLot(r) \/ Answer(r)

Reading(c) == ReadLots(c) \/ ReadStock(c)

Next ==
    \/ \E c \in Clerks : Edits(c) \/ Requesting(c) \/ Reading(c)
    \/ \E r \in pending : Serve(r) \/ Lose(r)
    \/ \E p \in Places : Sell(p) \/ \E i \in Ids : Receive(p, i)

Spec == Init /\ [][Next]_vars

\* Queries are read and requests are served and answered.
FairSpec ==
    /\ Spec
    /\ \A c \in Clerks : WF_vars(Reading(c))
    /\ \A n \in Keys : WF_vars(\E r \in pending : r.n = n /\ Serve(r))

-----------------------------------------------------------------------------
(* What is listed as the plan is that of the quantity and the location on  *)
(* the screen, which "Confirmar salida" takes out (LotBalancesPanel:        *)
(* "previsualizar qué lotes consumiría una salida de X unidades ... y, si se *)
(* confirma, ejecutarla de verdad").                                        *)
PlanIsShown ==
    \A c \in Clerks : panel[c].plan # None =>
        panel[c].plan = [place |-> panel[c].place, quantity |-> panel[c].quantity]

(* However often a consumption is sent again under its key, and while the   *)
(* first request is still on its way, it takes the stock out once           *)
(* (docs/ARCHITECTURE.md: "Las claves idempotentes protegen reintentos de   *)
(* checkout, salidas FEFO").                                                *)
ConsumedOnce == \A k \in Keys : executed[k] <= 1

(* The stock of a lot goes before that of any lot that expires later       *)
(* (plan_fefo, lot_balances).                                               *)
FirstToExpireFirst ==
    [][\A p \in Places : \A i, j \in Ids :
          /\ lots[i] # None /\ lots[j] # None
          /\ executed' # executed
          /\ Quantity(p, j)' < Quantity(p, j)
          /\ IF lots[j].expires = None THEN lots[i].expires # None
             ELSE IF lots[i].expires = None THEN FALSE ELSE lots[i].expires < lots[j].expires
          => Quantity(p, i)' <= 0]_vars

(* After a count the balance is what was counted, whoever else counts the  *)
(* same lot, also the first time (set_lot_stock: "The transaction advisory  *)
(* lock is needed for the zero-stock case").                                *)
CountHolds ==
    [][\A r \in pending : \A after \in pending' :
          r.kind = "count" /\ r.n = after.n /\ r.step # "done" /\ after.step = "done" =>
              Quantity(r.place, r.lot)' = r.quantity]_vars

(* A lot with stock, or that has had some, is never deleted, whatever      *)
(* arrives while it is being deleted (delete_lot).                          *)
UsedLotsStay == \A p \in Places : \A i \in Ids : stock[p][i] # None => lots[i] # None

(* No two lots of the product have the same number, however they are       *)
(* created and renamed at the same time (create_lot, update_lot).           *)
NumbersAreUnique ==
    \A i, j \in Ids : lots[i] # None /\ lots[j] # None /\ lots[i].number = lots[j].number => i = j

(* Rows have their types, lots stay while they are used, are told apart by   *)
(* their numbers, and are planned as the screen says, for a user who touches *)
(* nothing while an answer is awaited (lots/service.py, LotBalancesPanel).  *)
LotsAgree == TypeOK /\ UsedLotsStay /\ NumbersAreUnique /\ (Patient => PlanIsShown)

(* When nothing more happens, the table of balances shows the stock there  *)
(* is (the invalidations of LotsPage and LotBalancesPanel).                 *)
TableCatchesUp ==
    \A c \in Clerks : <>[](pending = {} /\ seenStock[c][panel[c].place] = Positive(panel[c].place))
=============================================================================
