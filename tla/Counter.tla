------------------------------- MODULE Counter -------------------------------
(***************************************************************************)
(* What a till promises at the counter, whatever the network does: a sale    *)
(* is filled while it is a draft, it is paid once and for what it holds, and *)
(* the receipt on the screen is always that of a sale that has been paid.    *)
(* Till.tla implements it with requests, retries and keys.                   *)
(***************************************************************************)
EXTENDS Naturals, FiniteSets

CONSTANTS Sales, Lines, Methods, Amounts, None

VARIABLES
    status,   \* [Sales -> {"unborn", "DRAFT", "COMPLETED", "CANCELLED"}]
    cart,     \* [Sales -> SUBSET Lines], each line worth one
    paid,     \* [Sales -> [method, amount], or None]
    receipt   \* [id, lines, paid] of the sale on the receipt screen, or None

vars == <<status, cart, paid, receipt>>

Init ==
    /\ status = [s \in Sales |-> "unborn"]
    /\ cart = [s \in Sales |-> {}]
    /\ paid = [s \in Sales |-> None]
    /\ receipt = None

Open(s) ==
    /\ status[s] = "unborn"
    /\ status' = [status EXCEPT ![s] = "DRAFT"]
    /\ UNCHANGED <<cart, paid, receipt>>

Fill(s, lines) ==
    /\ status[s] = "DRAFT"
    /\ cart' = [cart EXCEPT ![s] = lines]
    /\ UNCHANGED <<status, paid, receipt>>

Cancel(s) ==
    /\ status[s] = "DRAFT"
    /\ status' = [status EXCEPT ![s] = "CANCELLED"]
    /\ UNCHANGED <<cart, paid, receipt>>

\* Only cash gives change.
Pay(s, method, amount) ==
    /\ status[s] = "DRAFT"
    /\ cart[s] # {}
    /\ IF method = "CASH" THEN amount >= Cardinality(cart[s])
                          ELSE amount = Cardinality(cart[s])
    /\ status' = [status EXCEPT ![s] = "COMPLETED"]
    /\ paid' = [paid EXCEPT ![s] = [method |-> method, amount |-> amount]]
    /\ UNCHANGED <<cart, receipt>>

Hand(s) ==
    /\ status[s] = "COMPLETED"
    /\ receipt' = [id |-> s, lines |-> cart[s], paid |-> paid[s]]
    /\ UNCHANGED <<status, cart, paid>>

PutAway ==
    /\ receipt' = None
    /\ UNCHANGED <<status, cart, paid>>

Next ==
    \/ \E s \in Sales : Open(s) \/ Cancel(s) \/ Hand(s)
    \/ \E s \in Sales, lines \in SUBSET Lines : Fill(s, lines)
    \/ \E s \in Sales, m \in Methods, a \in Amounts : Pay(s, m, a)
    \/ PutAway

Spec == Init /\ [][Next]_vars
=============================================================================
