----------------------------- MODULE MCCheckout -----------------------------
(* Small shops for model-checking Checkout.tla.                            *)
EXTENDS Checkout, TLC

CONSTANTS
    s1, s2, s3,   \* sales
    k1, k2, k3,   \* idempotency keys
    w1, w2,       \* warehouses
    t1            \* a POS terminal

\* Quantities of the products 1 and 2, and of product 1 alone.
Of(a, b) == [p \in Products |-> IF p = 1 THEN a ELSE IF p = 2 THEN b ELSE 0]

Zero == Of(0, 0)

Ask(op, key, sale, warehouse, refund, restock) ==
    [op |-> op, key |-> key, sale |-> sale, warehouse |-> warehouse,
     refund |-> refund, restock |-> restock]

Pay(key, s) == Ask("checkout", key, s, w1, Zero, Zero)
Refund(key, s, refund, restock) == Ask("return", key, s, w1, refund, restock)
Close(key, w) == Ask("close", key, s1, w, Zero, Zero)
Deliver(key, w, units) == Ask("receive", key, s1, w, Zero, units)

OneWarehouse == [s \in Sales |-> w1]
Alike == Permutations(Requests)

NoTerminals == [s \in Sales |-> NoTerminal]

-----------------------------------------------------------------------------
(* One till: two sales of one product, returns and the Z, over midnight.    *)
TillParts == {Of(0, 0), Of(1, 0), Of(1, 1)}
TillOffers == {Pay(NoKey, s1), Pay(k1, s2), Close(NoKey, w1),
               Refund(k2, s1, Of(1, 0), Of(0, 0)), Refund(NoKey, s1, Of(0, 0), Of(1, 0))}
TillTerminals == [s \in Sales |-> IF s = s1 THEN t1 ELSE NoTerminal]

(* Retried keys: one sent for two different sales, a return sent again,      *)
(* checkouts of two warehouses that draw numbers of one series, a delivery   *)
(* of the products they lock, and the Z that a new draft holds up.          *)
KeysWarehouses == [s \in Sales |-> IF s = s2 THEN w2 ELSE w1]
KeysParts == {Of(0, 0), Of(1, 0), Of(1, 1)}
KeysOffers == {Pay(k1, s1), Pay(k1, s2), Pay(NoKey, s2), Close(NoKey, w1),
               Deliver(k3, w1, Of(1, 1)), Refund(k2, s1, Of(1, 0), Of(0, 0))}
=============================================================================
