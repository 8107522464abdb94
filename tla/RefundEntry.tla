----------------------------- MODULE RefundEntry -----------------------------
(***************************************************************************)
(* The line entry of the return form                                         *)
(* (frontend/src/features/returns/CreateReturnForm.tsx): the two quantities  *)
(* of the line being added, the steppers that change them, and the checks    *)
(* against what is left of the line.                                         *)
(*                                                                         *)
(* What is typed is an exact decimal; what is left is computed in binary     *)
(* floating point.  A decimal counts the finest decimals (One of them make   *)
(* 1); a float counts 2^-Fine, rounded to Bits significant bits (53 in the   *)
(* program).                                                                *)
(***************************************************************************)
EXTENDS Naturals, FiniteSets, FiniteSetsExt

CONSTANTS
    Lines,      \* the lines of the sale
    Bought,     \* [Lines -> decimals of a base unit sold]
    Refunded,   \* [Lines -> decimals already refunded]
    Returned,   \* [Lines -> decimals already back in stock]
    Factor,     \* [Lines -> base units of one package]
    Fraction,   \* the lines that are sold by weight or volume
    Tracked,    \* the lines that are kept by lot
    Typed,      \* the decimals the supervisor types
    One,        \* finest decimals in 1 (10^6 in the program)
    Bits,       \* significant bits of a float
    Fine,       \* exponent of the finest float
    NoLine

EntryAssumption ==
    /\ {Bought, Refunded, Returned} \subseteq [Lines -> Nat]
    /\ One \in Nat \ {0}
    /\ Factor \in [Lines -> Nat \ {0}]
    /\ Fraction \cup Tracked \subseteq Lines
    /\ Typed \cup {Bits, Fine} \subseteq Nat
    /\ NoLine \notin Lines

VARIABLES
    line,     \* the line chosen, or NoLine
    refund,   \* the quantity to refund, as typed
    stock,    \* the quantity back to stock, as typed
    manual,   \* stockQuantityIsManual
    lot,      \* a lot number is written
    staged,   \* the lines of the return being prepared
    refused   \* the field whose maximum the last addition exceeded, or NoLine

refundVars == <<line, refund, stock, manual, lot, staged, refused>>

Fields == {"refund", "stock"}
Ulp == 2 ^ Fine

(* num/den to Bits significant bits, ties to even, in units of 2^-Fine.     *)
Nearest(num, den) ==
    LET x == num \div den
        e == Max({0} \cup {i \in 0..Fine + 1 : 2 ^ i <= x})
        q == IF e < Bits THEN 1 ELSE 2 ^ (e - Bits + 1)
        low == num \div (den * q)
        rest == 2 * (num - low * den * q)
    IN  q * IF rest > den * q \/ (rest = den * q /\ low % 2 = 1) THEN low + 1 ELSE low

\* decimalNumber: the float nearest to what is typed.
Float(amount) == Nearest(amount * Ulp, One)

\* decimalForInput: the decimal nearest to a float.
ForInput(float) == (2 * float * One + Ulp) \div (2 * Ulp)

Used(l, field) == IF field = "refund" THEN Refunded[l] ELSE Returned[l]

\* remainingPackages
Remaining(l, field) ==
    Nearest(Nearest(Float(Bought[l]) - Float(Used(l, field)), 1), Factor[l])

Maximum(field) == IF line = NoLine THEN 0 ELSE Remaining(line, field)

\* quantityStep: whole packages one by one, fractions by the finest decimal.
Step == IF line # NoLine /\ (line \in Fraction \/ Bought[line] % (Factor[line] * One) # 0)
        THEN 1 ELSE One

Least(a, b) == IF a <= b THEN a ELSE b

\* pendingLines: neither staged yet nor used up.
Pending ==
    {l \in Lines : /\ \A s \in staged : s.line # l
                   /\ \E field \in Fields : Remaining(l, field) > 0}

RefundInit ==
    /\ line = NoLine
    /\ refund = One
    /\ stock = One
    /\ manual = FALSE
    /\ lot = FALSE
    /\ staged = {}
    /\ refused = NoLine

PickLine(l) ==
    /\ l \in Pending
    /\ line' = l
    /\ refund' = ForInput(Least(Float(One), Remaining(l, "refund")))
    /\ stock' = ForInput(Least(Float(One), Remaining(l, "stock")))
    /\ manual' = FALSE
    /\ refused' = NoLine
    /\ UNCHANGED <<lot, staged>>

\* The money stepper carries the stock with it until the stock is touched.
ChangeRefund(amount) ==
    /\ refund' = amount
    /\ stock' = IF manual THEN stock ELSE amount
    /\ refused' = NoLine
    /\ UNCHANGED <<line, manual, lot, staged>>

ChangeStock(amount) ==
    /\ manual' = TRUE
    /\ stock' = amount
    /\ refused' = NoLine
    /\ UNCHANGED <<line, refund, lot, staged>>

\* What the buttons "-" and "+" of a stepper set.
Presses(amount, field) ==
    LET current == Least(Maximum(field), Float(amount)) IN
    {ForInput(Least(Maximum(field), Nearest(current + Float(Step), 1))) :
        unused \in IF current < Maximum(field) THEN {1} ELSE {}}
    \cup {ForInput(IF current > Float(Step) THEN Nearest(current - Float(Step), 1) ELSE 0) :
        unused \in IF current > 0 THEN {1} ELSE {}}

WriteLot ==
    /\ line \in Tracked
    /\ stock > 0
    /\ lot' = ~lot
    /\ UNCHANGED <<line, refund, stock, manual, staged, refused>>

\* addLineSchema: a line, and some quantity.
Valid == line # NoLine /\ (refund > 0 \/ stock > 0)

Exceeded ==
    {field \in Fields :
        Float(IF field = "refund" THEN refund ELSE stock) > Maximum(field)}

\* addLine: an excess is reported, otherwise the line is staged and the entry reset.
AddLine ==
    /\ Valid
    /\ line \in Pending
    /\ \/ /\ Exceeded # {}
          /\ refused' = IF "refund" \in Exceeded THEN "refund" ELSE "stock"
          /\ UNCHANGED <<line, refund, stock, manual, lot, staged>>
       \/ /\ Exceeded = {}
          /\ staged' = staged \cup
                {[line |-> line, refund |-> refund, stock |-> stock, lot |-> lot /\ stock > 0]}
          /\ line' = NoLine
          /\ refund' = One
          /\ stock' = One
          /\ manual' = FALSE
          /\ lot' = FALSE
          /\ refused' = NoLine

\* "Quitar"
Unstage(s) ==
    /\ staged' = staged \ {s}
    /\ UNCHANGED <<line, refund, stock, manual, lot, refused>>

RefundNext ==
    \/ \E l \in Lines : PickLine(l)
    \/ \E amount \in Typed \cup Presses(refund, "refund") : ChangeRefund(amount)
    \/ \E amount \in Typed \cup Presses(stock, "stock") : ChangeStock(amount)
    \/ WriteLot
    \/ AddLine
    \/ \E s \in staged : Unstage(s)

RefundSpec == RefundInit /\ [][RefundNext]_refundVars

-----------------------------------------------------------------------------
(* The entry holds decimals, and a staged line is a line of the sale.       *)
RefundTypeOK ==
    /\ line \in Lines \cup {NoLine}
    /\ {refund, stock} \subseteq Nat
    /\ {manual, lot} \subseteq BOOLEAN
    /\ staged \subseteq [line: Lines, refund: Nat, stock: Nat, lot: BOOLEAN]
    /\ refused \in Fields \cup {NoLine}

EachLineOnce == \A s, t \in staged : s.line = t.line => s = t

(* The comparison in floating point never lets through more than the exact  *)
(* remainder, of money or of stock, and never stages a line twice           *)
(* (CreateReturnForm.addLine).                                              *)
WithinTheSale ==
    /\ \A s \in staged :
          /\ Refunded[s.line] + s.refund * Factor[s.line] <= Bought[s.line]
          /\ Returned[s.line] + s.stock * Factor[s.line] <= Bought[s.line]
    /\ EachLineOnce

(* Until somebody touches the stock, what comes back is what is paid back:  *)
(* the two fields differ only as the choice of the line left them, each at  *)
(* one package or at what remains (stockQuantityIsManual).                  *)
StockFollowsMoney ==
    (line # NoLine /\ ~manual) =>
        \/ stock = refund
        \/ /\ refund = ForInput(Least(Float(One), Remaining(line, "refund")))
           /\ stock = ForInput(Least(Float(One), Remaining(line, "stock")))
=============================================================================
