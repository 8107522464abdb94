------------------------------ MODULE Checkout ------------------------------
(***************************************************************************)
(* Concurrent requests against the shop: checkout (sales/service.py),        *)
(* create_return (returns/service.py), the Z close (sales/z_reports.py) and  *)
(* create_goods_receipt (purchasing/service.py, its stock side), statement   *)
(* by statement, beside the draft edits, terminal switches and other stock   *)
(* movements of Shop.tla.                                                    *)
(*                                                                         *)
(* A request is one READ COMMITTED transaction (db/session.py).  Its writes  *)
(* are invisible until it commits, so they are all in its commit step; its   *)
(* locks last until it ends, so what it holds follows from how far it got:   *)
(*                                                                         *)
(*   idempotency key -> warehouse cut -> sale row -> terminal row            *)
(*     -> stock rows by product id -> sale numbering                         *)
(***************************************************************************)
EXTENDS Shop

CONSTANTS
    Requests,   \* the server's concurrent transactions
    Keys,       \* values of (operation, Idempotency-Key)
    NoKey,      \* the header is absent
    NoIntent,   \* the transaction serves no request
    Offered     \* bound: what clients may ask for

Operations == {"checkout", "return", "close", "receive"}

Payloads == [op: Operations, key: Keys \cup {NoKey}, sale: Sales,
             warehouse: Warehouses, refund: Parts, restock: Parts]

\* A return without any effect is not accepted (ReturnLineCreate).
Intents ==
    {q \in Payloads : q.op = "return" => q.refund # Nothing \/ q.restock # Nothing}

ASSUME CheckoutAssumption ==
    /\ IsFiniteSet(Requests)
    /\ NoKey \notin Keys
    /\ NoIntent \notin Intents
    /\ Offered \subseteq Intents

VARIABLES
    claims,  \* the committed idempotency records, by the intent they answer
    pc,      \* [Requests -> Steps]: the statement a request runs next
    intent,  \* [Requests -> Intents \cup {NoIntent}]: what it was asked
    day,     \* [Requests -> Days]: the business day of the clock it read
    picked,  \* [Requests -> SUBSET Products]: the stock rows it has locked
    drawn,   \* [Requests -> Nat]: the sale number it computed
    served   \* history: [Keys -> Nat], commits made under each key

requestVars == <<pc, intent, day, picked, drawn>>
vars == <<shopVars, claims, served, requestVars>>

Steps == {"idle", "claim", "cut", "clock", "sale", "terminal", "stock",
          "drafts", "commit"}

(* Rows, claims and request locals have their types.                       *)
TypeOK ==
    /\ ShopTypeOK
    /\ claims \subseteq Intents
    /\ pc \in [Requests -> Steps]
    /\ intent \in [Requests -> Intents \cup {NoIntent}]
    /\ day \in [Requests -> Days]
    /\ picked \in [Requests -> SUBSET Products]
    /\ drawn \in [Requests -> Nat]
    /\ served \in [Keys -> Nat]

-----------------------------------------------------------------------------
(* The locks a request holds, and those in the way of its next statement.  *)

OnSale(r) == intent[r].op \in {"checkout", "return"}

SaleOf(r) == intent[r].sale

Place(r) == IF OnSale(r) THEN WarehouseOf[SaleOf(r)] ELSE intent[r].warehouse

\* Mutant: the insert does not wait for one in flight.
HoldsKey_None(r, k) == FALSE

HoldsKey(r, k) ==
    /\ pc[r] \notin {"idle", "claim"}
    /\ intent[r].key = k

\* Mutant: a statement-level lock, gone once the sale is locked.
HoldsCut_ReleasedEarly(r, w) ==
    /\ pc[r] \in {"clock", "sale", "drafts"}
    /\ intent[r].op # "receive"
    /\ Place(r) = w

HoldsCut(r, w) ==
    /\ pc[r] \notin {"idle", "claim", "cut"}
    /\ intent[r].op # "receive"
    /\ Place(r) = w

HoldsSale(r, s) ==
    /\ pc[r] \in {"terminal", "stock", "commit"}
    /\ OnSale(r)
    /\ SaleOf(r) = s

\* Mutant: the terminal is read without FOR UPDATE.
HoldsTerminal_None(r, t) == FALSE

HoldsTerminal(r, t) ==
    /\ pc[r] \in {"stock", "commit"}
    /\ intent[r].op = "checkout"
    /\ TerminalOf[SaleOf(r)] = t
    /\ t # NoTerminal

\* Mutant: the advisory read of get_available_quantity.
HoldsStock_None(r, w, p) == FALSE

HoldsStock(r, w, p) ==
    /\ pc[r] \in {"stock", "commit"}
    /\ Place(r) = w
    /\ p \in picked[r]

\* Mutant: max(number) is read without the advisory lock.
HoldsNumbering_None(r) == FALSE

HoldsNumbering(r) == pc[r] = "commit" /\ intent[r].op = "checkout"

\* The stock rows the operation needs, and the next one in product order.
Needed(r) ==
    IF intent[r].op = "checkout"
    THEN Leaving(SaleOf(r))
    ELSE {p \in Tracked : intent[r].restock[p] > 0}

Remaining(r) == Needed(r) \ picked[r]

\* Mutant: a delivery locks its rows in the opposite order.
NextStock_Delivered(r) ==
    CHOOSE p \in Remaining(r) : \A q \in Remaining(r) :
        IF intent[r].op = "receive" THEN p >= q ELSE p <= q

NextStock(r) == CHOOSE p \in Remaining(r) : \A q \in Remaining(r) : p <= q

\* The requests whose locks the next statement of r must wait for.
Blockers(r) ==
    {q \in Requests \ {r} :
        \/ pc[r] = "claim" /\ HoldsKey(q, intent[r].key)
        \/ pc[r] = "cut" /\ HoldsCut(q, Place(r))
        \/ pc[r] = "sale" /\ HoldsSale(q, SaleOf(r))
        \/ pc[r] = "terminal" /\ HoldsTerminal(q, TerminalOf[SaleOf(r)])
        \/ /\ pc[r] = "stock"
           /\ Remaining(r) # {}
           /\ HoldsStock(q, Place(r), NextStock(r))
        \/ /\ pc[r] = "stock"
           /\ Remaining(r) = {}
           /\ intent[r].op = "checkout"
           /\ HoldsNumbering(q)}

-----------------------------------------------------------------------------
(* Requests.                                                               *)

Goto(r, step) == pc' = [pc EXCEPT ![r] = step]

\* A goods receipt takes no warehouse cut; its order row is in no one's way here.
AfterClaim(q) == IF q.op = "receive" THEN "stock" ELSE "cut"

\* The transaction is over: its locks and locals are gone.
End(r) ==
    /\ Goto(r, "idle")
    /\ intent' = [intent EXCEPT ![r] = NoIntent]
    /\ day' = [day EXCEPT ![r] = 0]
    /\ picked' = [picked EXCEPT ![r] = {}]
    /\ drawn' = [drawn EXCEPT ![r] = 0]

\* A client sends a request, for the first time or as a retry.
Begin(r, q) ==
    /\ pc[r] = "idle"
    /\ Goto(r, IF q.key = NoKey THEN AfterClaim(q) ELSE "claim")
    /\ intent' = [intent EXCEPT ![r] = q]
    /\ UNCHANGED <<shopVars, claims, served, day, picked, drawn>>

Recorded(k) == \E q \in claims : q.key = k

\* idempotency claim: the insert waits for a concurrent one of the same key.
Claim(r) ==
    /\ pc[r] = "claim"
    /\ Blockers(r) = {}
    /\ ~Recorded(intent[r].key)
    /\ Goto(r, AfterClaim(intent[r]))
    /\ UNCHANGED <<shopVars, claims, served, intent, day, picked, drawn>>

\* The key is taken: answer the recorded result, or a conflict.
Replay(r) ==
    /\ pc[r] = "claim"
    /\ Blockers(r) = {}
    /\ Recorded(intent[r].key)
    /\ End(r)
    /\ UNCHANGED <<shopVars, claims, served>>

\* lock_warehouse_cut, once the sale's warehouse is known.
LockCut(r) ==
    /\ pc[r] = "cut"
    /\ OnSale(r) => status[SaleOf(r)] \notin {"ABSENT", "DELETED"}
    /\ Blockers(r) = {}
    /\ Goto(r, "clock")
    /\ UNCHANGED <<shopVars, claims, served, intent, day, picked, drawn>>

\* Mutant: only a checkout looks for the final Z.
NeedsOpenDay_SalesOnly(r) == intent[r].op = "checkout"

\* Does the operation need a day without a final Z?
NeedsOpenDay(r) ==
    \/ intent[r].op = "checkout"
    \/ intent[r].op = "return" /\ intent[r].refund # Nothing

\* database_clock and assert_business_day_open.
ReadClock(r) ==
    /\ pc[r] = "clock"
    /\ NeedsOpenDay(r) => DayOpen(Place(r), today)
    /\ day' = [day EXCEPT ![r] = today]
    /\ Goto(r, IF intent[r].op = "close" THEN "drafts" ELSE "sale")
    /\ UNCHANGED <<shopVars, claims, served, intent, picked, drawn>>

\* What the locked sale row must look like.  The code looks after it has locked
\* the terminal too, which only decides which error a request answers.
SaleReady(r) ==
    IF intent[r].op = "checkout"
    THEN status[SaleOf(r)] = "DRAFT" /\ cart[SaleOf(r)] # Nothing
    ELSE /\ status[SaleOf(r)] = "COMPLETED"
         /\ WithinSale(SaleOf(r), intent[r].refund, intent[r].restock)

\* _get_sale_for_update, _get_sale_for_return and the checks on the sale.
LockSale(r) ==
    /\ pc[r] = "sale"
    /\ Blockers(r) = {}
    /\ SaleReady(r)
    /\ Goto(r, IF intent[r].op = "checkout" THEN "terminal" ELSE "stock")
    /\ UNCHANGED <<shopVars, claims, served, intent, day, picked, drawn>>

\* _assert_pos_terminal
LockTerminal(r) ==
    /\ pc[r] = "terminal"
    /\ Blockers(r) = {}
    /\ TerminalUsable(SaleOf(r))
    /\ Goto(r, "stock")
    /\ UNCHANGED <<shopVars, claims, served, intent, day, picked, drawn>>

\* lock_and_get_available_quantity, product by product.
LockStock(r) ==
    /\ pc[r] = "stock"
    /\ Remaining(r) # {}
    /\ Blockers(r) = {}
    /\ intent[r].op = "checkout" => Available(SaleOf(r), NextStock(r))
    /\ picked' = [picked EXCEPT ![r] = @ \cup {NextStock(r)}]
    /\ UNCHANGED <<shopVars, claims, served, pc, intent, day, drawn>>

\* _next_sale_number for a checkout; a return has nothing left to read.
Finish(r) ==
    /\ pc[r] = "stock"
    /\ Remaining(r) = {}
    /\ Blockers(r) = {}
    /\ drawn' = IF intent[r].op = "checkout"
                THEN [drawn EXCEPT ![r] = HighestNumber + 1]
                ELSE drawn
    /\ Goto(r, "commit")
    /\ UNCHANGED <<shopVars, claims, served, intent, day, picked>>

OpenDrafts(w) ==
    {s \in Sales : /\ WarehouseOf[s] = w
                   /\ status[s] = "DRAFT"
                   /\ cart[s] # Nothing}

\* open_sales: the drafts are read without their row locks.
CheckDrafts(r) ==
    /\ pc[r] = "drafts"
    /\ OpenDrafts(Place(r)) = {}
    /\ DayOpen(Place(r), day[r])
    /\ Goto(r, "commit")
    /\ UNCHANGED <<shopVars, claims, served, intent, day, picked, drawn>>

\* The writes of the whole request, with its idempotency record.
Commit(r) ==
    /\ pc[r] = "commit"
    /\ LET q == intent[r]
       IN  /\ CASE q.op = "checkout" -> SellEffect(q.sale, day[r], drawn[r])
                [] q.op = "return" -> ReturnEffect(q.sale, day[r], q.refund, q.restock)
                [] q.op = "close" -> CloseEffect(q.warehouse, day[r])
                [] q.op = "receive" -> ReceiveEffect(q.warehouse, q.restock)
           /\ claims' = IF q.key = NoKey THEN claims ELSE claims \cup {q}
           /\ served' = [k \in Keys |-> IF k = q.key THEN served[k] + 1 ELSE served[k]]
    /\ End(r)

\* A check fails: the request answers an error and rolls back.
Refuse(r) ==
    /\ \/ /\ pc[r] = "cut"
          /\ OnSale(r)
          /\ status[SaleOf(r)] \in {"ABSENT", "DELETED"}
       \/ pc[r] = "clock" /\ NeedsOpenDay(r) /\ ~DayOpen(Place(r), today)
       \/ pc[r] = "sale" /\ Blockers(r) = {} /\ ~SaleReady(r)
       \/ pc[r] = "terminal" /\ Blockers(r) = {} /\ ~TerminalUsable(SaleOf(r))
       \/ /\ pc[r] = "stock"
          /\ Remaining(r) # {}
          /\ Blockers(r) = {}
          /\ intent[r].op = "checkout"
          /\ ~Available(SaleOf(r), NextStock(r))
       \/ /\ pc[r] = "drafts"
          /\ OpenDrafts(Place(r)) # {} \/ ~DayOpen(Place(r), day[r])
    /\ End(r)
    /\ UNCHANGED <<shopVars, claims, served>>

\* Rollback at any statement: a short payment, statement_timeout, a lost
\* connection, a crash of the server or a failed commit.
Abort(r) ==
    /\ pc[r] # "idle"
    /\ End(r)
    /\ UNCHANGED <<shopVars, claims, served>>

-----------------------------------------------------------------------------
(* The one-step transactions of Shop.tla wait for the rows they touch.      *)

\* Mutant: the cart is edited without locking its row.
SaleFree_Unlocked(s) == TRUE

SaleFree(s) == \A r \in Requests : ~HoldsSale(r, s)

TerminalFree(t) == \A r \in Requests : ~HoldsTerminal(r, t)

Draft(s) ==
    /\ TerminalFree(TerminalOf[s])
    /\ \/ CreateSale(s)
       \/ /\ SaleFree(s)
          /\ \/ CancelSale(s)
             \/ \E p \in Products : AddLine(s, p) \/ RemoveLine(s, p)
    /\ UNCHANGED <<claims, served, requestVars>>

Terminal(t) ==
    /\ TerminalFree(t)
    /\ SwitchTerminal(t)
    /\ UNCHANGED <<claims, served, requestVars>>

Stock(w, p) ==
    /\ \A r \in Requests : ~HoldsStock(r, w, p)
    /\ \E level \in StockLevels : MoveStock(w, p, level)
    /\ UNCHANGED <<claims, served, requestVars>>

Midnight == NewDay /\ UNCHANGED <<claims, served, requestVars>>

Init ==
    /\ ShopInit
    /\ claims = {}
    /\ pc = [r \in Requests |-> "idle"]
    /\ intent = [r \in Requests |-> NoIntent]
    /\ day = [r \in Requests |-> 0]
    /\ picked = [r \in Requests |-> {}]
    /\ drawn = [r \in Requests |-> 0]
    /\ served = [k \in Keys |-> 0]

Step(r) ==
    \/ Claim(r)
    \/ Replay(r)
    \/ LockCut(r)
    \/ ReadClock(r)
    \/ LockSale(r)
    \/ LockTerminal(r)
    \/ LockStock(r)
    \/ Finish(r)
    \/ CheckDrafts(r)
    \/ Commit(r)
    \/ Refuse(r)

Next ==
    \/ \E r \in Requests : Step(r) \/ Abort(r)
    \/ \E r \in Requests, q \in Offered : Begin(r, q)
    \/ \E s \in Sales : Draft(s)
    \/ \E t \in Terminals : Terminal(t)
    \/ \E w \in Warehouses, p \in Products : Stock(w, p)
    \/ Midnight

Spec == Init /\ [][Next]_vars

\* A waiting statement is queued first come, first served by PostgreSQL, and a
\* request that is not waiting runs on: nothing postpones its step for ever.
FairSpec == Spec /\ \A r \in Requests : SF_vars(Step(r))

-----------------------------------------------------------------------------
(* Properties.                                                             *)

\* What a replay of the intent answers with is there.
HasResult(q) ==
    CASE q.op = "checkout" -> status[q.sale] = "COMPLETED"
      [] q.op = "return" -> \E x \in returns :
            /\ x.sale = q.sale
            /\ x.refund = q.refund
            /\ x.restock = q.restock
      [] q.op = "close" -> ZReportsOf(q.warehouse) # {}
      [] OTHER -> TRUE

(* An idempotency key has its effect once, however often and however        *)
(* concurrently it is sent, and a replay finds the result it answers with.  *)
(* (idempotency/service.py claim; the replay branch of each operation)      *)
ExactlyOnce ==
    /\ \A k \in Keys : served[k] = IF Recorded(k) THEN 1 ELSE 0
    /\ \A q \in claims : HasResult(q)

(* No set of requests can wait only for one another: the lock order of      *)
(* checkout, create_return, close and create_goods_receipt has no cycle.    *)
(* (sales/accounting.py, "The global acquisition order")                    *)
NoCircularWait ==
    \A S \in (SUBSET Requests) \ {{}} : \E r \in S : Blockers(r) \cap S = {}

(* Every request is answered: it commits, is refused or rolls back.         *)
EveryRequestEnds ==
    \A r \in Requests : pc[r] # "idle" ~> pc[r] = "idle"

=============================================================================
