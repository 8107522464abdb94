------------------------------ MODULE TillProofs ------------------------------
(***************************************************************************)
(* The till keeps its promise to the counter for any number of sales, lines, *)
(* keys, lost answers, retries, reloads and other browsers: TillImplements-  *)
(* Counter, by an invariant about the server, one about the requests on      *)
(* their way, and one about the answer of a charge.  Then what the keys      *)
(* name, which key a retry carries, the types of screens and requests, and   *)
(* that no cart that was shown leaves the screen while it is open.           *)
(***************************************************************************)
EXTENDS Till, TLAPS, FiniteSetTheorems, SequenceTheorems

(* Sales are numbered in the order they are opened, and a key answers for a  *)
(* sale that has been paid.                                                  *)
ServerInv ==
    /\ status \in [Sales -> Statuses]
    /\ cart \in [Sales -> SUBSET Lines]
    /\ paid \in [Sales -> Payments \cup {None}]
    /\ claims \in [Keys -> (Sales \X Payments) \cup {None}]
    /\ lastLine \in 0..LastLine
    /\ \E n \in Nat : Born = 1..n
    /\ \A k \in Keys : claims[k] # None => status[claims[k][1]] = "COMPLETED"

(* A charge carries its payment and its key, and nothing else has a key.     *)
Good(m) ==
    /\ m = [do |-> m.do, sale |-> m.sale, line |-> m.line, payment |-> m.payment,
            key |-> m.key, stage |-> m.stage, got |-> m.got]
    /\ m.do = "charge" => m.payment \in Payments /\ m.key \in Keys
    /\ m.do # "charge" => m.key = None

MailInv ==
    /\ req = [k \in Slots |-> req[k]]
    /\ \A k \in Slots : req[k] # None =>
          Good(req[k]) /\ (k = "charge" <=> req[k].do = "charge")
    /\ \A m \in late : Good(m)

(* The receipt of a sale, once it is paid *)
ReceiptOf(got, s) ==
    /\ status[s] = "COMPLETED"
    /\ got = [id |-> s, lines |-> cart[s], paid |-> paid[s]]

(* The answer of a charge is the receipt of a paid sale.                     *)
AnswerInv ==
    Done("charge") => \E s \in Sales : ReceiptOf(req["charge"].got, s)

TillInv == ServerInv /\ MailInv /\ AnswerInv

-----------------------------------------------------------------------------
(* The server *)

LEMMA Bounds ==
    /\ LastSale \in Nat /\ LastLine \in Nat /\ LastKey \in Nat
    /\ Lines \subseteq Nat /\ Sales \subseteq Nat /\ IsFiniteSet(Lines)
<1>1. LastSale \in Nat /\ LastLine \in Nat /\ LastKey \in Nat
  BY TillAssumption
<1>2. IsFiniteSet(Lines)
  BY <1>1, FS_Interval DEF Lines
<1>3. QED
  BY <1>1, <1>2 DEF Lines, Sales

(* The counter counts as the till does.                                      *)
LEMMA SameCardinality ==
    ASSUME NEW S
    PROVE  Counter!Cardinality(S) = Cardinality(S)
BY Zenon DEF Counter!Cardinality, Cardinality

LEMMA TotalIsNat ==
    ASSUME ServerInv, NEW s \in Sales
    PROVE  Total(s) \in Nat
<1>1. cart[s] \subseteq Lines
  BY DEF ServerInv
<1>2. IsFiniteSet(cart[s])
  BY <1>1, Bounds, FS_Subset
<1>3. QED
  BY <1>2, FS_CardinalityType DEF Total

(* The next sale has not been opened, and with it the numbers stay dense.    *)
LEMMA FreshIsNew ==
    ASSUME ServerInv, Fresh \in Sales
    PROVE  /\ status[Fresh] = "unborn"
           /\ \E n \in Nat : Born \cup {Fresh} = 1..n
<1>1. PICK n \in Nat : Born = 1..n
  BY DEF ServerInv
<1>2. Cardinality(1..n) = n
  BY FS_Interval, <1>1
<1>3. Fresh = n + 1
  BY <1>1, <1>2 DEF Fresh
<1>4. Fresh \notin Born
  BY <1>1, <1>3
<1>5. Born \cup {Fresh} = 1..(n + 1)
  BY <1>1, <1>3
<1>6. QED
  BY <1>1, <1>4, <1>5 DEF Born

(* What has been paid stays as it is.                                        *)
Settled ==
    \A s \in Sales : status[s] = "COMPLETED" =>
        status'[s] = "COMPLETED" /\ cart'[s] = cart[s] /\ paid'[s] = paid[s]

LEMMA OpenSaleStep ==
    ASSUME ServerInv, NEW m, Accepted(m), OpenSale(m), receipt' = receipt
    PROVE  ServerInv' /\ Settled /\ \E s \in Sales : Counter!Open(s)
<1>1. Fresh \in Sales
  BY DEF Accepted, OpenSale
<1>2. status[Fresh] = "unborn" /\ \E n \in Nat : Born \cup {Fresh} = 1..n
  BY <1>1, FreshIsNew
<1>3. status \in [Sales -> Statuses]
  BY DEF ServerInv
<1> DEFINE f == Fresh
<1>4. /\ f \in Sales /\ status[f] = "unborn"
      /\ status' = [status EXCEPT ![f] = "DRAFT"]
      /\ UNCHANGED <<cart, paid, claims, lastLine>>
  BY <1>1, <1>2 DEF OpenSale
<1>5. \E n \in Nat : Born \cup {f} = 1..n
  BY <1>2
<1> HIDE DEF f
<1>6. status' \in [Sales -> Statuses]
  BY <1>3, <1>4 DEF Statuses
<1>7. Born' = Born \cup {f}
  BY <1>3, <1>4 DEF Born
<1>8. \A s \in Sales : status[s] = "COMPLETED" => status'[s] = "COMPLETED"
  BY <1>3, <1>4
<1>9. \A k \in Keys : claims[k] # None => claims[k][1] \in Sales
  BY DEF ServerInv
<1>10. ServerInv'
  BY <1>4, <1>5, <1>6, <1>7, <1>8, <1>9 DEF ServerInv
<1>11. QED
  BY <1>4, <1>8, <1>10 DEF Settled, Counter!Open

LEMMA AddLineStep ==
    ASSUME ServerInv, NEW m, Accepted(m), AddLine(m), receipt' = receipt
    PROVE  /\ ServerInv' /\ Settled
           /\ \E s \in Sales, lines \in SUBSET Lines : Counter!Fill(s, lines)
<1>1. /\ m.sale \in Sales /\ status[m.sale] = "DRAFT" /\ lastLine < LastLine
      /\ lastLine' = lastLine + 1
      /\ cart' = [cart EXCEPT ![m.sale] = @ \cup {lastLine + 1}]
      /\ UNCHANGED <<status, paid, claims>>
  BY DEF Accepted, AddLine, IsDraft, NextLine
<1>2. cart \in [Sales -> SUBSET Lines] /\ lastLine \in 0..LastLine /\ LastLine \in Nat
  BY Bounds DEF ServerInv
<1> DEFINE lines == cart[m.sale] \cup {lastLine + 1}
<1>3. lines \in SUBSET Lines
  BY <1>1, <1>2 DEF Lines
<1>4. cart' = [cart EXCEPT ![m.sale] = lines]
  BY <1>1
<1> HIDE DEF lines
<1>5. cart' \in [Sales -> SUBSET Lines]
  BY <1>1, <1>2, <1>3, <1>4
<1>6. lastLine' \in 0..LastLine
  BY <1>1, <1>2
<1>7. Born' = Born
  BY <1>1 DEF Born
<1>8. ServerInv'
  BY <1>1, <1>5, <1>6, <1>7 DEF ServerInv
<1>9. \A s \in Sales : status[s] = "COMPLETED" => cart'[s] = cart[s]
  BY <1>1, <1>2, <1>4
<1>10. QED
  BY <1>1, <1>3, <1>4, <1>8, <1>9 DEF Settled, Counter!Fill

LEMMA RemoveLineStep ==
    ASSUME ServerInv, NEW m, Accepted(m), RemoveLine(m), receipt' = receipt
    PROVE  /\ ServerInv' /\ Settled
           /\ \E s \in Sales, lines \in SUBSET Lines : Counter!Fill(s, lines)
<1>1. /\ m.sale \in Sales /\ status[m.sale] = "DRAFT"
      /\ cart' = [cart EXCEPT ![m.sale] = @ \ {m.line}]
      /\ UNCHANGED <<status, paid, claims, lastLine>>
  BY DEF Accepted, RemoveLine, IsDraft
<1>2. cart \in [Sales -> SUBSET Lines]
  BY DEF ServerInv
<1> DEFINE lines == cart[m.sale] \ {m.line}
<1>3. lines \in SUBSET Lines
  BY <1>1, <1>2
<1>4. cart' = [cart EXCEPT ![m.sale] = lines]
  BY <1>1
<1> HIDE DEF lines
<1>5. cart' \in [Sales -> SUBSET Lines]
  BY <1>1, <1>2, <1>3, <1>4
<1>6. Born' = Born
  BY <1>1 DEF Born
<1>7. ServerInv'
  BY <1>1, <1>5, <1>6 DEF ServerInv
<1>8. \A s \in Sales : status[s] = "COMPLETED" => cart'[s] = cart[s]
  BY <1>1, <1>2, <1>4
<1>9. QED
  BY <1>1, <1>3, <1>4, <1>7, <1>8 DEF Settled, Counter!Fill

LEMMA CancelSaleStep ==
    ASSUME ServerInv, NEW m, Accepted(m), CancelSale(m), receipt' = receipt
    PROVE  ServerInv' /\ Settled /\ \E s \in Sales : Counter!Cancel(s)
<1>1. /\ m.sale \in Sales /\ status[m.sale] = "DRAFT"
      /\ status' = [status EXCEPT ![m.sale] = "CANCELLED"]
      /\ UNCHANGED <<cart, paid, claims, lastLine>>
  BY DEF Accepted, CancelSale, IsDraft
<1>2. status \in [Sales -> Statuses]
  BY DEF ServerInv
<1>3. status' \in [Sales -> Statuses]
  BY <1>1, <1>2 DEF Statuses
<1>4. Born' = Born
  BY <1>1, <1>2 DEF Born
<1>5. \A s \in Sales : status[s] = "COMPLETED" => status'[s] = "COMPLETED"
  BY <1>1, <1>2
<1>6. \A k \in Keys : claims[k] # None => claims[k][1] \in Sales
  BY DEF ServerInv
<1>7. ServerInv'
  BY <1>1, <1>3, <1>4, <1>5, <1>6 DEF ServerInv
<1>8. QED
  BY <1>1, <1>5, <1>7 DEF Settled, Counter!Cancel

(* A sale that may be charged with this payment is paid for what it holds.   *)
LEMMA PaymentStep ==
    ASSUME ServerInv, NEW s, Chargeable(s), NEW payment \in Payments, Covers(s, payment),
           status' = [status EXCEPT ![s] = "COMPLETED"],
           paid' = [paid EXCEPT ![s] = payment],
           UNCHANGED <<cart, receipt>>
    PROVE  /\ s \in Sales /\ Settled
           /\ status' \in [Sales -> Statuses]
           /\ paid' \in [Sales -> Payments \cup {None}]
           /\ Born' = Born
           /\ status'[s] = "COMPLETED"
           /\ \E method \in Methods, amount \in Amounts :
                 Counter!Pay(s, method, amount)
<1>1. s \in Sales /\ status[s] = "DRAFT" /\ cart[s] # {}
  BY DEF Chargeable, IsDraft
<1>2. status \in [Sales -> Statuses] /\ paid \in [Sales -> Payments \cup {None}]
  BY DEF ServerInv
<1>3. status' \in [Sales -> Statuses] /\ paid' \in [Sales -> Payments \cup {None}]
  BY <1>1, <1>2 DEF Statuses
<1>4. Born' = Born
  BY <1>1, <1>2 DEF Born
<1>5. Settled
  BY <1>1, <1>2 DEF Settled
<1>6. /\ payment.method \in Methods /\ payment.amount \in Amounts
      /\ payment = [method |-> payment.method, amount |-> payment.amount]
  BY DEF Payments
<1>7. Cardinality(cart[s]) \in Nat /\ payment.amount \in Nat
  BY <1>1, <1>6, TotalIsNat, Bounds DEF Total, Amounts
<1>8. IF payment.method = "CASH" THEN payment.amount >= Cardinality(cart[s])
                                 ELSE payment.amount = Cardinality(cart[s])
  BY <1>7 DEF Covers, Total
<1>9. Counter!Pay(s, payment.method, payment.amount)
  <2> DEFINE method == payment.method
             amount == payment.amount
  <2>1. /\ IF method = "CASH" THEN amount >= Cardinality(cart[s])
                               ELSE amount = Cardinality(cart[s])
        /\ payment = [method |-> method, amount |-> amount]
    BY <1>6, <1>8
  <2> HIDE DEF method, amount
  <2>2. paid' = [paid EXCEPT ![s] = [method |-> method, amount |-> amount]]
    BY <2>1
  <2>3. Counter!Pay(s, method, amount)
    BY <1>1, <2>1, <2>2, SameCardinality DEF Counter!Pay
  <2>4. QED
    BY <2>3 DEF method, amount
<1>10. status'[s] = "COMPLETED"
  BY <1>1, <1>2
<1>11. QED
  BY <1>1, <1>3, <1>4, <1>5, <1>6, <1>9, <1>10

LEMMA ChargeStep ==
    ASSUME ServerInv, NEW m, Good(m), Accepted(m), Charge(m), receipt' = receipt
    PROVE  /\ ServerInv' /\ Settled
           /\ m.sale \in Sales /\ status'[m.sale] = "COMPLETED"
           /\ \E s \in Sales, method \in Methods, amount \in Amounts :
                 Counter!Pay(s, method, amount)
<1>1. /\ m.payment \in Payments /\ m.key \in Keys
      /\ Chargeable(m.sale) /\ Covers(m.sale, m.payment)
      /\ status' = [status EXCEPT ![m.sale] = "COMPLETED"]
      /\ paid' = [paid EXCEPT ![m.sale] = m.payment]
      /\ claims' = [claims EXCEPT ![m.key] = <<m.sale, m.payment>>]
      /\ UNCHANGED <<cart, lastLine>>
  BY DEF Good, Accepted, Charge
<1>2. /\ m.sale \in Sales /\ Settled
      /\ status' \in [Sales -> Statuses]
      /\ paid' \in [Sales -> Payments \cup {None}]
      /\ Born' = Born
      /\ status'[m.sale] = "COMPLETED"
      /\ \E method \in Methods, amount \in Amounts :
            Counter!Pay(m.sale, method, amount)
  BY <1>1, PaymentStep
<1>3. claims \in [Keys -> (Sales \X Payments) \cup {None}]
  BY DEF ServerInv
<1>4. <<m.sale, m.payment>> \in Sales \X Payments
  BY <1>1, <1>2
<1>5. claims' \in [Keys -> (Sales \X Payments) \cup {None}]
  BY <1>1, <1>3, <1>4
<1>6. ASSUME NEW k \in Keys, claims'[k] # None
      PROVE  status'[claims'[k][1]] = "COMPLETED"
  <2>1. CASE k = m.key
    BY <2>1, <1>1, <1>2, <1>3
  <2>2. CASE k # m.key
    <3>1. claims'[k] = claims[k]
      BY <2>2, <1>1, <1>3
    <3>2. claims[k][1] \in Sales /\ status[claims[k][1]] = "COMPLETED"
      BY <3>1, <1>6, <1>3 DEF ServerInv
    <3>3. QED
      BY <3>1, <3>2, <1>2 DEF Settled
  <2>3. QED
    BY <2>1, <2>2
<1>7. ServerInv'
  BY <1>1, <1>2, <1>5, <1>6 DEF ServerInv
<1>8. QED
  BY <1>2, <1>7

(* Whatever a request does on the server is a step of the counter.           *)
LEMMA EffectStep ==
    ASSUME ServerInv, NEW m, Good(m), Accepted(m), Effect(m), receipt' = receipt
    PROVE  ServerInv' /\ Settled /\ [Counter!Next]_Counter!vars
<1>1. CASE OpenSale(m)
  BY <1>1, OpenSaleStep DEF Counter!Next
<1>2. CASE AddLine(m)
  BY <1>2, AddLineStep DEF Counter!Next
<1>3. CASE RemoveLine(m)
  BY <1>3, RemoveLineStep DEF Counter!Next
<1>4. CASE CancelSale(m)
  BY <1>4, CancelSaleStep DEF Counter!Next
<1>5. CASE Charge(m)
  BY <1>5, ChargeStep DEF Counter!Next
<1>6. CASE ReadOnly(m)
  <2>1. UNCHANGED <<status, cart, paid, claims, lastLine, receipt>>
    BY <1>6 DEF ReadOnly, serverVars
  <2>2. ServerInv'
    BY <2>1 DEF ServerInv, Born
  <2>3. QED
    BY <2>1, <2>2 DEF Settled, Counter!vars
<1>7. QED
  BY <1>1, <1>2, <1>3, <1>4, <1>5, <1>6 DEF Effect

(* A charge that is taken, or taken before, is answered with the receipt.    *)
LEMMA ChargeAnswers ==
    ASSUME ServerInv, NEW m, Good(m), Accepted(m), Effect(m), m.do = "charge",
           receipt' = receipt
    PROVE  \E s \in Sales :
               /\ status'[s] = "COMPLETED"
               /\ Answer(m) = [id |-> s, lines |-> cart'[s], paid |-> paid'[s]]
<1>1. /\ Answer(m) = [id |-> m.sale, lines |-> cart[m.sale], paid |-> paid'[m.sale]]
      /\ m.key \in Keys
  BY DEF Answer, Good
<1>2. CASE Charge(m)
  <2>1. cart' = cart
    BY <1>2 DEF Charge
  <2>2. QED
    BY <1>1, <1>2, <2>1, ChargeStep
<1>3. CASE ReadOnly(m)
  <2>1. Replayed(m) /\ UNCHANGED <<status, cart>>
    BY <1>3 DEF ReadOnly, serverVars
  <2>2. claims[m.key] \in Sales \X Payments /\ status[claims[m.key][1]] = "COMPLETED"
    BY <2>1, <1>1 DEF ServerInv, Replayed
  <2>3. m.sale \in Sales /\ status[m.sale] = "COMPLETED"
    BY <2>1, <2>2 DEF Replayed
  <2>4. QED
    BY <1>1, <2>1, <2>3
<1>4. QED
  BY <1>2, <1>3 DEF Effect, OpenSale, AddLine, RemoveLine, CancelSale

-----------------------------------------------------------------------------
(* The requests on their way *)

LEMMA AskIsGood ==
    ASSUME NEW do, NEW sale, NEW line, NEW payment, NEW key,
           do = "charge" => payment \in Payments /\ key \in Keys,
           do # "charge" => key = None
    PROVE  LET m == Ask(do, sale, line, payment, key)
           IN  Good(m) /\ m.do = do /\ m.stage = "sent"
BY DEF Ask, Good

(* A request takes a slot, or changes its stage in it.                       *)
Posted(k, m) ==
    /\ Good(m)
    /\ k = "charge" <=> m.do = "charge"
    /\ req' = [req EXCEPT ![k] = m]

LEMMA PostedMail ==
    ASSUME MailInv, NEW k \in Slots, NEW m, Posted(k, m), late' = late
    PROVE  /\ MailInv'
           /\ req'[k] = m
           /\ k # "charge" => req'["charge"] = req["charge"]
<1> DEFINE r == [j \in Slots |-> IF j = k THEN m ELSE req[j]]
<1>1. req' = r
  BY DEF MailInv, Posted
<1>2. \A j \in Slots : r[j] = IF j = k THEN m ELSE req[j]
  OBVIOUS
<1>3. "charge" \in Slots
  BY DEF Slots
<1> HIDE DEF r
<1>4. req' = [j \in Slots |-> req'[j]]
  BY <1>1 DEF r
<1>5. QED
  BY <1>1, <1>2, <1>3, <1>4 DEF MailInv, Posted

LEMMA ClearedMail ==
    ASSUME MailInv, NEW k \in Slots, Cleared(k), late' = late
    PROVE  /\ MailInv'
           /\ req'[k] = None
           /\ k # "charge" => req'["charge"] = req["charge"]
<1> DEFINE r == [j \in Slots |-> IF j = k THEN None ELSE req[j]]
<1>1. req' = r
  BY DEF MailInv, Cleared
<1>2. \A j \in Slots : r[j] = IF j = k THEN None ELSE req[j]
  OBVIOUS
<1>3. "charge" \in Slots
  BY DEF Slots
<1> HIDE DEF r
<1>4. req' = [j \in Slots |-> req'[j]]
  BY <1>1 DEF r
<1>5. QED
  BY <1>1, <1>2, <1>3, <1>4 DEF MailInv

(* The answer of a charge stands while it waits to be handled.               *)
LEMMA AnswerStands ==
    ASSUME AnswerInv, Settled,
           req'["charge"] = req["charge"] \/ req'["charge"] = None
                                          \/ req'["charge"].stage # "answered"
    PROVE  AnswerInv'
BY DEF AnswerInv, Settled, Done, ReceiptOf

(* A step that leaves the server alone, and at most asks, gives up or clears *)
(* one request.                                                              *)
Quiet ==
    /\ UNCHANGED <<serverVars, late>>
    /\ \/ req' = req
       \/ \E k \in Slots : Cleared(k)
       \/ \E k \in Slots : \E m : Posted(k, m) /\ m.stage # "answered"

LEMMA QuietStep ==
    ASSUME TillInv, Quiet
    PROVE  TillInv'
<1>1. UNCHANGED <<status, cart, paid, claims, lastLine, late>>
  BY DEF Quiet, serverVars
<1>2. ServerInv'
  BY <1>1 DEF TillInv, ServerInv, Born
<1>3. Settled
  BY <1>1 DEF Settled
<1>4. CASE req' = req
  BY <1>1, <1>2, <1>3, <1>4, AnswerStands DEF TillInv, MailInv
<1>5. ASSUME NEW k \in Slots, Cleared(k)
      PROVE  TillInv'
  BY <1>1, <1>2, <1>3, <1>5, ClearedMail, AnswerStands DEF TillInv
<1>6. ASSUME NEW k \in Slots, NEW m, Posted(k, m), m.stage # "answered"
      PROVE  TillInv'
  BY <1>1, <1>2, <1>3, <1>6, PostedMail, AnswerStands DEF TillInv
<1>7. QED
  BY <1>4, <1>5, <1>6 DEF Quiet

LEMMA SendIsQuiet ==
    ASSUME NEW k \in Slots \ {"charge"}, NEW do, do # "charge", NEW sale, NEW line,
           Send(k, Ask(do, sale, line, None, None)), UNCHANGED <<serverVars, late>>
    PROVE  Quiet
<1> DEFINE m == Ask(do, sale, line, None, None)
<1>1. Good(m) /\ m.do = do /\ m.stage = "sent"
  BY AskIsGood
<1>2. req' = [req EXCEPT ![k] = m]
  BY DEF Send
<1> HIDE DEF m
<1>3. Posted(k, m) /\ m.stage # "answered"
  BY <1>1, <1>2 DEF Posted
<1>4. QED
  BY <1>3 DEF Quiet

LEMMA FailIsQuiet ==
    ASSUME MailInv, NEW k \in Slots, NEW stage \in {"short", "failed"}, Fail(k, stage)
    PROVE  Quiet
<1> DEFINE m == [req[k] EXCEPT !.stage = stage]
<1>1. Good(req[k]) /\ (k = "charge" <=> req[k].do = "charge")
  BY DEF Fail, Sent, MailInv
<1>2. /\ Good(m) /\ m.do = req[k].do /\ m.stage = stage
  BY <1>1 DEF Good
<1>3. req' = [req EXCEPT ![k] = m] /\ UNCHANGED <<serverVars, late>>
  BY DEF Fail
<1> HIDE DEF m
<1>4. Posted(k, m) /\ m.stage # "answered"
  BY <1>1, <1>2, <1>3 DEF Posted
<1>5. QED
  BY <1>3, <1>4 DEF Quiet

LEMMA ConfirmIsQuiet ==
    ASSUME NEW payment \in Payments, Confirm(payment)
    PROVE  Quiet
<1> DEFINE m == Ask("charge", active.id, None, payment, AttemptNow)
<1>1. AttemptNow \in Keys /\ req' = [req EXCEPT !["charge"] = m] /\ UNCHANGED <<serverVars, late>>
  BY DEF Confirm, Send
<1>2. Good(m) /\ m.do = "charge" /\ m.stage = "sent"
  BY <1>1, AskIsGood
<1>3. "charge" \in Slots
  BY DEF Slots
<1> HIDE DEF m
<1>4. Posted("charge", m) /\ m.stage # "answered"
  BY <1>1, <1>2 DEF Posted
<1>5. QED
  BY <1>1, <1>3, <1>4 DEF Quiet

-----------------------------------------------------------------------------
(* The steps of the network *)

Staged(m, stage, got) == [m EXCEPT !.stage = stage, !.got = got]

LEMMA StagedIsGood ==
    ASSUME NEW m, Good(m), NEW stage, NEW got
    PROVE  LET r == Staged(m, stage, got)
           IN  Good(r) /\ r.do = m.do /\ r.stage = stage /\ r.got = got
<1> DEFINE r == [m EXCEPT !.stage = stage, !.got = got]
<1> DEFINE do == m.do
           sale == m.sale
           line == m.line
           payment == m.payment
           key == m.key
<1>0. PICK before, none : m = [do |-> do, sale |-> sale, line |-> line, payment |-> payment,
                               key |-> key, stage |-> before, got |-> none]
  BY DEF Good
<1>1. r = [do |-> do, sale |-> sale, line |-> line, payment |-> payment,
           key |-> key, stage |-> stage, got |-> got]
  <2> HIDE DEF do, sale, line, payment, key
  <2>1. [m EXCEPT !.stage = stage] =
            [do |-> do, sale |-> sale, line |-> line, payment |-> payment,
             key |-> key, stage |-> stage, got |-> none]
    BY <1>0
  <2> DEFINE n == [m EXCEPT !.stage = stage]
  <2>2. r = [n EXCEPT !.got = got]
    OBVIOUS
  <2> HIDE DEF n, r
  <2>3. QED
    BY <2>1, <2>2 DEF n
<1> HIDE DEF r
<1>2. /\ r.do = m.do /\ r.sale = m.sale /\ r.line = m.line /\ r.payment = m.payment
      /\ r.key = m.key /\ r.stage = stage /\ r.got = got
  BY <1>1
<1>3. Good(r)
  BY <1>1, <1>2 DEF Good
<1>4. QED
  BY <1>2, <1>3 DEF r, Staged

LEMMA ServeStep ==
    ASSUME TillInv, NEW k \in Slots, Serve(k)
    PROVE  TillInv' /\ [Counter!Next]_Counter!vars
<1>1. PICK m : m = req[k]
  OBVIOUS
<1>2. /\ Good(m) /\ (k = "charge" <=> m.do = "charge")
      /\ Accepted(m) /\ Effect(m) /\ receipt' = receipt /\ late' = late
  BY <1>1 DEF TillInv, MailInv, Serve, Sent, pageVars
<1>3. ServerInv' /\ Settled /\ [Counter!Next]_Counter!vars
  BY <1>2, EffectStep DEF TillInv
<1>4. PICK answer \in {[stage |-> "answered", got |-> Answer(m)],
                       [stage |-> "failed", got |-> None]} :
          req' = [req EXCEPT ![k].stage = answer.stage, ![k].got = answer.got]
  BY <1>1 DEF Serve
<1> DEFINE r == Staged(m, answer.stage, answer.got)
<1>5. /\ Good(r) /\ r.do = m.do /\ r.stage = answer.stage /\ r.got = answer.got
  BY <1>2, StagedIsGood
<1>6. req' = [req EXCEPT ![k] = r]
  <2>1. req = [j \in Slots |-> req[j]]
    BY DEF TillInv, MailInv
  <2>2. QED
    BY <1>1, <1>4, <2>1 DEF Staged
<1> HIDE DEF r
<1>7. Posted(k, r)
  BY <1>2, <1>5, <1>6 DEF Posted
<1>8. /\ MailInv' /\ req'[k] = r
      /\ k # "charge" => req'["charge"] = req["charge"]
  BY <1>2, <1>7, PostedMail DEF TillInv
<1>9. AnswerInv'
  <2>1. CASE k = "charge" /\ r.stage = "answered"
    <3>1. r.got = Answer(m)
      BY <2>1, <1>4, <1>5
    <3>2. PICK s \in Sales : /\ status'[s] = "COMPLETED"
                             /\ r.got = [id |-> s, lines |-> cart'[s], paid |-> paid'[s]]
      BY <2>1, <3>1, <1>2, ChargeAnswers DEF TillInv
    <3>3. req'["charge"].got = r.got
      BY <2>1, <1>8
    <3>4. QED
      BY <3>2, <3>3 DEF AnswerInv, ReceiptOf
  <2>2. CASE k = "charge" /\ r.stage # "answered"
    BY <2>2, <1>3, <1>8, AnswerStands DEF TillInv
  <2>3. CASE k # "charge"
    BY <2>3, <1>3, <1>8, AnswerStands DEF TillInv
  <2>4. QED
    BY <2>1, <2>2, <2>3
<1>10. QED
  BY <1>3, <1>8, <1>9 DEF TillInv

LEMMA ServeLateStep ==
    ASSUME TillInv, NEW m \in late, ServeLate(m)
    PROVE  TillInv' /\ [Counter!Next]_Counter!vars
<1>1. Good(m) /\ receipt' = receipt /\ req' = req /\ late' = late \ {m}
  BY DEF TillInv, MailInv, ServeLate, pageVars
<1>2. MailInv'
  BY <1>1 DEF TillInv, MailInv
<1>3. CASE Accepted(m)
  <2>1. Effect(m)
    BY <1>3 DEF ServeLate
  <2>2. ServerInv' /\ Settled /\ [Counter!Next]_Counter!vars
    BY <1>1, <1>3, <2>1, EffectStep DEF TillInv
  <2>3. QED
    BY <1>1, <1>2, <2>2, AnswerStands DEF TillInv
<1>4. CASE ~Accepted(m)
  <2>1. UNCHANGED <<status, cart, paid, claims, lastLine>>
    BY <1>4 DEF ServeLate, serverVars
  <2>2. ServerInv' /\ Settled
    BY <2>1 DEF TillInv, ServerInv, Born, Settled
  <2>3. UNCHANGED Counter!vars
    BY <1>1, <2>1 DEF Counter!vars
  <2>4. QED
    BY <1>1, <1>2, <2>2, <2>3, AnswerStands DEF TillInv
<1>5. QED
  BY <1>3, <1>4

LEMMA ElsewhereStep ==
    ASSUME TillInv, NEW s \in Sales, NEW do \in {"add", "cancel"},
           Elsewhere(Ask(do, s, None, None, None))
    PROVE  TillInv' /\ [Counter!Next]_Counter!vars
<1>1. PICK m : m = Ask(do, s, None, None, None)
  OBVIOUS
<1>2. Good(m)
  BY <1>1, AskIsGood
<1>3. Accepted(m) /\ Effect(m) /\ receipt' = receipt /\ req' = req /\ late' = late
  BY <1>1 DEF Elsewhere, pageVars
<1>4. ServerInv' /\ Settled /\ [Counter!Next]_Counter!vars
  BY <1>2, <1>3, EffectStep DEF TillInv
<1>5. MailInv'
  BY <1>3 DEF TillInv, MailInv
<1>6. QED
  BY <1>3, <1>4, <1>5, AnswerStands DEF TillInv

LEMMA ChargedElsewhereStep ==
    ASSUME TillInv, NEW s \in Sales, NEW payment \in Payments, ChargedElsewhere(s, payment)
    PROVE  TillInv' /\ [Counter!Next]_Counter!vars
<1>1. /\ Chargeable(s) /\ Covers(s, payment)
      /\ status' = [status EXCEPT ![s] = "COMPLETED"]
      /\ paid' = [paid EXCEPT ![s] = payment]
      /\ UNCHANGED <<cart, claims, lastLine, receipt, req, late>>
  BY DEF ChargedElsewhere, pageVars
<1>2. /\ Settled /\ Born' = Born
      /\ status' \in [Sales -> Statuses]
      /\ paid' \in [Sales -> Payments \cup {None}]
      /\ \E method \in Methods, amount \in Amounts : Counter!Pay(s, method, amount)
  BY <1>1, PaymentStep DEF TillInv
<1>3. \A k \in Keys : claims[k] # None => claims[k][1] \in Sales
  BY DEF TillInv, ServerInv
<1>4. ServerInv'
  BY <1>1, <1>2, <1>3 DEF TillInv, ServerInv, Settled
<1>5. MailInv'
  BY <1>1 DEF TillInv, MailInv
<1>6. Counter!Next
  BY <1>2 DEF Counter!Next
<1>7. QED
  BY <1>1, <1>2, <1>4, <1>5, <1>6, AnswerStands DEF TillInv

-----------------------------------------------------------------------------
(* The steps of the page that the counter sees *)

LEMMA DismissStep ==
    ASSUME TillInv, Dismiss
    PROVE  TillInv' /\ [Counter!Next]_Counter!vars
<1>1. Quiet
  BY DEF Dismiss, Quiet
<1>2. Counter!PutAway
  BY DEF Dismiss, Counter!PutAway, serverVars
<1>3. QED
  BY <1>1, <1>2, QuietStep DEF Counter!Next

LEMMA ChargedStep ==
    ASSUME TillInv, Charged
    PROVE  TillInv' /\ [Counter!Next]_Counter!vars
<1>1. "charge" \in Slots
  BY DEF Slots
<1>2. Quiet
  BY <1>1 DEF Charged, Quiet
<1>3. PICK s \in Sales : ReceiptOf(req["charge"].got, s)
  BY DEF TillInv, AnswerInv, Charged
<1>4. Counter!Hand(s)
  BY <1>3 DEF Charged, Counter!Hand, ReceiptOf, serverVars
<1>5. QED
  BY <1>2, <1>4, QuietStep DEF Counter!Next

LEMMA ReloadStep ==
    ASSUME TillInv, Reload
    PROVE  TillInv' /\ [Counter!Next]_Counter!vars
<1>1. /\ UNCHANGED <<status, cart, paid, claims, lastLine>>
      /\ req' = [k \in Slots |-> None]
      /\ receipt' = None
  BY DEF Reload, serverVars
<1>2. ServerInv' /\ Settled
  BY <1>1 DEF TillInv, ServerInv, Born, Settled
<1>3. "charge" \in Slots
  BY DEF Slots
<1>4. \A m \in late' : Good(m)
  <2>1. PICK lost \in SUBSET {req[k] : k \in {k \in Slots : Sent(k)}} : late' = late \cup lost
    BY DEF Reload
  <2>2. \A m \in lost : Good(m)
    BY <2>1 DEF TillInv, MailInv, Sent
  <2>3. QED
    BY <2>1, <2>2 DEF TillInv, MailInv
<1>5. /\ \A k \in Slots : req'[k] = None
      /\ req' = [k \in Slots |-> req'[k]]
  BY <1>1
<1>6. MailInv'
  BY <1>3, <1>4, <1>5 DEF MailInv
<1>7. AnswerInv'
  BY <1>2, <1>3, <1>5, AnswerStands DEF TillInv
<1>8. Counter!PutAway
  BY <1>1 DEF Counter!PutAway
<1>9. QED
  BY <1>2, <1>6, <1>7, <1>8 DEF TillInv, Counter!Next

(* Every other step is quiet, and the receipt stays on the screen.           *)
LEMMA CashierStep ==
    ASSUME TillInv, Cashier
    PROVE  Dismiss \/ (Quiet /\ receipt' = receipt)
<1>1. Slots \ {"charge"} = {"open", "edit", "cancel", "check"}
  BY DEF Slots
<1>2. CASE RetryOpen
  BY <1>1, <1>2, SendIsQuiet DEF RetryOpen
<1>3. CASE NewSale
  BY <1>1, <1>3, SendIsQuiet DEF NewSale
<1>4. CASE Scan
  BY <1>1, <1>4, SendIsQuiet DEF Scan, pageVars
<1>5. CASE Tap
  BY <1>1, <1>5, SendIsQuiet DEF Tap, pageVars
<1>6. CASE AskToCancel \/ KeepEditing \/ Leave
  BY <1>6 DEF AskToCancel, KeepEditing, Leave, Quiet
<1>7. CASE ConfirmCancel
  BY <1>1, <1>7, SendIsQuiet DEF ConfirmCancel, pageVars
<1>8. CASE Cobrar
  BY <1>1, <1>8, SendIsQuiet DEF Cobrar
<1>9. CASE Dismiss
  BY <1>9
<1>10. ASSUME NEW i \in 1..LastSale, Select(i)
       PROVE  Quiet /\ receipt' = receipt
  BY <1>10 DEF Select, Quiet
<1>11. ASSUME NEW line \in Lines, RemoveShown(line)
       PROVE  Quiet /\ receipt' = receipt
  BY <1>1, <1>11, SendIsQuiet DEF RemoveShown, pageVars
<1>12. ASSUME NEW payment \in Payments, Confirm(payment)
       PROVE  Quiet /\ receipt' = receipt
  BY <1>12, ConfirmIsQuiet DEF Confirm
<1>13. QED
  BY <1>2, <1>3, <1>4, <1>5, <1>6, <1>7, <1>8, <1>9, <1>10, <1>11, <1>12 DEF Cashier

LEMMA AnswersStep ==
    ASSUME TillInv, Answers
    PROVE  Charged \/ (Quiet /\ receipt' = receipt)
<1>1. {"open", "edit", "cancel", "check", "charge"} = Slots
  BY DEF Slots
<1>2. CASE Opened
  BY <1>1, <1>2 DEF Opened, Quiet
<1>3. CASE OpenFailed
  BY <1>1, <1>3 DEF OpenFailed, Quiet
<1>4. CASE Found
  <2>1. CASE active = None
    BY <1>1, <1>4, <2>1 DEF Found, Quiet, pageVars
  <2>2. CASE active # None
    <3>1. "edit" \in Slots \ {"charge"}
      BY DEF Slots
    <3>2. QED
      BY <1>4, <2>2, <3>1, SendIsQuiet DEF Found, pageVars
  <2>3. QED
    BY <2>1, <2>2
<1>5. CASE Edited
  BY <1>1, <1>5 DEF Edited, Quiet
<1>6. CASE Cancelled
  BY <1>1, <1>6 DEF Cancelled, Quiet
<1>7. CASE Checked
  BY <1>1, <1>7 DEF Checked, Quiet
<1>8. CASE Charged
  BY <1>8
<1>9. CASE ChargeFailed
  BY <1>1, <1>9 DEF ChargeFailed, Quiet
<1>10. CASE ListArrives
  BY <1>10 DEF ListArrives, Quiet
<1>11. ASSUME NEW k \in Slots, Failure(k)
       PROVE  Quiet /\ receipt' = receipt
  BY <1>11 DEF Failure, Quiet, pageVars
<1>12. QED
  BY <1>2, <1>3, <1>4, <1>5, <1>6, <1>7, <1>8, <1>9, <1>10, <1>11 DEF Answers

-----------------------------------------------------------------------------
LEMMA TillInit ==
    ASSUME Init
    PROVE  TillInv /\ Counter!Init
<1>1. Born = {} /\ "charge" \in Slots
  BY DEF Init, Born, Slots
<1>2. 1..0 = {} /\ 0 \in Nat
  OBVIOUS
<1>3. ServerInv
  BY <1>1, <1>2, Bounds DEF Init, ServerInv, Statuses
<1>4. MailInv /\ AnswerInv
  BY <1>1 DEF Init, MailInv, AnswerInv, Done
<1>5. QED
  BY <1>3, <1>4 DEF TillInv, Init, Counter!Init

LEMMA QuietCounter ==
    ASSUME TillInv, Quiet, receipt' = receipt
    PROVE  TillInv' /\ [Counter!Next]_Counter!vars
BY QuietStep DEF Quiet, serverVars, Counter!vars

LEMMA TillStep ==
    ASSUME TillInv, [Next]_vars
    PROVE  TillInv' /\ [Counter!Next]_Counter!vars
<1>1. CASE Network
  <2>1. ASSUME NEW k \in Slots, Serve(k)
        PROVE  TillInv' /\ [Counter!Next]_Counter!vars
    BY <2>1, ServeStep
  <2>2. ASSUME NEW k \in Slots, NEW stage \in {"short", "failed"}, Fail(k, stage)
        PROVE  TillInv' /\ [Counter!Next]_Counter!vars
    <3>1. receipt' = receipt
      BY <2>2 DEF Fail, pageVars
    <3>2. QED
      BY <2>2, <3>1, FailIsQuiet, QuietCounter DEF TillInv
  <2>3. ASSUME NEW m \in late, ServeLate(m)
        PROVE  TillInv' /\ [Counter!Next]_Counter!vars
    BY <2>3, ServeLateStep
  <2>4. CASE ServeList
    BY <2>4, QuietCounter DEF ServeList, Quiet, pageVars
  <2>5. QED
    BY <1>1, <2>1, <2>2, <2>3, <2>4 DEF Network
<1>2. CASE Others
  BY <1>2, ElsewhereStep, ChargedElsewhereStep DEF Others
<1>3. CASE Cashier
  BY <1>3, CashierStep, DismissStep, QuietCounter
<1>4. CASE Answers
  BY <1>4, AnswersStep, ChargedStep, QuietCounter
<1>5. CASE Effects
  <2>1. CASE Resume
    BY <2>1, QuietCounter DEF Resume, Quiet
  <2>2. CASE OpenFirst
    <3>1. "open" \in Slots \ {"charge"} /\ receipt' = receipt
      BY <2>2 DEF Slots, OpenFirst, pageVars
    <3>2. QED
      BY <2>2, <3>1, SendIsQuiet, QuietCounter DEF OpenFirst
  <2>3. QED
    BY <1>5, <2>1, <2>2 DEF Effects
<1>6. CASE Reconnect
  BY <1>6, QuietCounter DEF Reconnect, Quiet, pageVars
<1>7. CASE Reload
  BY <1>7, ReloadStep
<1>8. CASE UNCHANGED vars
  BY <1>8, QuietCounter DEF vars, Quiet, pageVars
<1>9. QED
  BY <1>1, <1>2, <1>3, <1>4, <1>5, <1>6, <1>7, <1>8 DEF Next

(* The till implements the counter: whatever is lost, sent again, reloaded   *)
(* or done by another browser, a sale is paid once and for what it holds,    *)
(* and a receipt on the screen is that of a paid sale (confirmCheckout, its  *)
(* answers and errors, and checkout on the server).                          *)
THEOREM TillImplementsCounter == Spec => CounterSpec
<1>1. Init => TillInv /\ Counter!Init
  BY TillInit
<1>2. TillInv /\ [Next]_vars => TillInv' /\ [Counter!Next]_Counter!vars
  BY TillStep
<1>3. QED
  BY <1>1, <1>2, PTL DEF Spec, CounterSpec, Counter!Spec

-----------------------------------------------------------------------------
(* Keys *)

(* Sale x is charged under key k: on its way, or answered.                   *)
InUse(k, x) ==
    \/ \E m \in late : m.key = k /\ m.sale = x
    \/ req["charge"] # None /\ req["charge"].key = k /\ req["charge"].sale = x
    \/ claims[k] # None /\ claims[k][1] = x

(* Keys are used in the order they are drawn, each for one sale, which is    *)
(* that of the attempt as long as the attempt is kept.                       *)
KeyInv ==
    /\ drawn \in Nat
    /\ \A k \in Keys : \A x : InUse(k, x) => k <= drawn
    /\ \A k \in Keys : \A x, y : InUse(k, x) /\ InUse(k, y) => x = y
    /\ attempt # None =>
          /\ attempt.key \in Keys /\ attempt.key <= drawn
          /\ \A x : InUse(attempt.key, x) => x = attempt.sale

(* No key comes into use, and the attempt is kept or given up.               *)
NoNewUse ==
    /\ drawn' = drawn
    /\ attempt' \in {attempt, None}
    /\ \A k \in Keys : \A x : InUse(k, x)' => InUse(k, x)

LEMMA NoNewUseStep ==
    ASSUME KeyInv, NoNewUse
    PROVE  KeyInv'
BY DEF KeyInv, NoNewUse

LEMMA SameUse ==
    ASSUME UNCHANGED <<claims, late, drawn>>, attempt' \in {attempt, None},
           req'["charge"] = req["charge"] \/ req'["charge"] = None
    PROVE  NoNewUse
BY DEF NoNewUse, InUse

LEMMA OtherSlot ==
    ASSUME MailInv, NEW k \in Slots \ {"charge"},
           Cleared(k) \/ \E m : Send(k, m)
    PROVE  req'["charge"] = req["charge"]
<1>1. "charge" \in Slots
  BY DEF Slots
<1>2. QED
  BY <1>1 DEF MailInv, Cleared, Send

(* A request that is served answers under its own key.                       *)
LEMMA EffectUse ==
    ASSUME ServerInv, NEW m, Good(m), Effect(m), NEW k \in Keys, NEW x,
           claims'[k] # None, claims'[k][1] = x
    PROVE  \/ claims[k] # None /\ claims[k][1] = x
           \/ m.do = "charge" /\ m.key = k /\ m.sale = x
<1>1. CASE Charge(m)
  <2>1. claims \in [Keys -> (Sales \X Payments) \cup {None}]
    BY DEF ServerInv
  <2>2. m.do = "charge" /\ m.key \in Keys /\ claims' = [claims EXCEPT ![m.key] = <<m.sale, m.payment>>]
    BY <1>1 DEF Charge, Good
  <2>3. QED
    BY <2>1, <2>2
<1>2. CASE ~Charge(m)
  <2>1. claims' = claims
    BY <1>2 DEF Effect, OpenSale, AddLine, RemoveLine, CancelSale, ReadOnly, serverVars
  <2>2. QED
    BY <2>1
<1>3. QED
  BY <1>1, <1>2

LEMMA ServeUse ==
    ASSUME TillInv, NEW k \in Slots, Serve(k)
    PROVE  NoNewUse
<1>1. PICK m : m = req[k]
  OBVIOUS
<1>2. /\ Good(m) /\ (k = "charge" <=> m.do = "charge") /\ m # None
      /\ Effect(m) /\ UNCHANGED <<attempt, late, drawn>>
  BY <1>1 DEF TillInv, MailInv, Serve, Sent, pageVars
<1>3. PICK stage, got : req' = [req EXCEPT ![k].stage = stage, ![k].got = got]
  BY DEF Serve
<1> DEFINE r == Staged(m, stage, got)
<1>4. m = [do |-> m.do, sale |-> m.sale, line |-> m.line, payment |-> m.payment,
           key |-> m.key, stage |-> m.stage, got |-> m.got]
  BY <1>2 DEF Good
<1>5. r.key = m.key /\ r.sale = m.sale
  BY <1>4 DEF Staged
<1>6. "charge" \in Slots /\ req = [j \in Slots |-> req[j]]
  BY DEF Slots, TillInv, MailInv
<1>7. req' = [req EXCEPT ![k] = r]
  BY <1>1, <1>3, <1>6 DEF Staged
<1> HIDE DEF r
<1>8. req'["charge"] = IF k = "charge" THEN r ELSE req["charge"]
  BY <1>6, <1>7
<1>9. ASSUME NEW key \in Keys, NEW x, InUse(key, x)'
      PROVE  InUse(key, x)
  <2>1. CASE \E n \in late' : n.key = key /\ n.sale = x
    BY <2>1, <1>2 DEF InUse
  <2>2. CASE req'["charge"] # None /\ req'["charge"].key = key /\ req'["charge"].sale = x
    BY <2>2, <1>1, <1>2, <1>5, <1>8 DEF InUse
  <2>3. CASE claims'[key] # None /\ claims'[key][1] = x
    BY <2>3, <1>1, <1>2, EffectUse DEF InUse, TillInv
  <2>4. QED
    BY <1>9, <2>1, <2>2, <2>3 DEF InUse
<1>10. QED
  BY <1>2, <1>9 DEF NoNewUse

LEMMA FailUse ==
    ASSUME TillInv, NEW k \in Slots, NEW stage, Fail(k, stage)
    PROVE  NoNewUse
<1> DEFINE r == [req[k] EXCEPT !.stage = stage]
<1>1. /\ req[k] # None /\ Good(req[k])
      /\ UNCHANGED <<claims, attempt, late, drawn>>
  BY DEF TillInv, MailInv, Fail, Sent, pageVars, serverVars
<1>2. r.key = req[k].key /\ r.sale = req[k].sale
  BY <1>1 DEF Good
<1>3. "charge" \in Slots /\ req = [j \in Slots |-> req[j]]
  BY DEF Slots, TillInv, MailInv
<1>4. req' = [req EXCEPT ![k] = r]
  BY DEF Fail
<1> HIDE DEF r
<1>5. req'["charge"] = IF k = "charge" THEN r ELSE req["charge"]
  BY <1>3, <1>4
<1>6. QED
  BY <1>1, <1>2, <1>5 DEF NoNewUse, InUse

LEMMA ServeLateUse ==
    ASSUME TillInv, NEW m \in late, ServeLate(m)
    PROVE  NoNewUse
<1>1. /\ Good(m) /\ late' = late \ {m}
      /\ UNCHANGED <<attempt, req, drawn>>
      /\ Effect(m) \/ claims' = claims
  BY DEF TillInv, MailInv, ServeLate, pageVars, serverVars
<1>2. ASSUME NEW key \in Keys, NEW x, claims'[key] # None, claims'[key][1] = x
      PROVE  InUse(key, x)
  <2>1. CASE claims' = claims
    BY <1>2, <2>1 DEF InUse
  <2>2. CASE Effect(m)
    BY <1>1, <1>2, <2>2, EffectUse DEF InUse, TillInv
  <2>3. QED
    BY <1>1, <2>1, <2>2
<1>3. QED
  BY <1>1, <1>2 DEF NoNewUse, InUse

LEMMA ReloadUse ==
    ASSUME TillInv, Reload
    PROVE  NoNewUse
<1>1. /\ UNCHANGED <<claims, drawn>> /\ attempt' = None
      /\ req' = [k \in Slots |-> None]
  BY DEF Reload, serverVars
<1>2. PICK lost \in SUBSET {req[k] : k \in {k \in Slots : Sent(k)}} : late' = late \cup lost
  BY DEF Reload
<1>3. req'["charge"] = None
  BY <1>1 DEF Slots
<1>4. ASSUME NEW key \in Keys, NEW x, NEW m \in lost, m.key = key, m.sale = x
      PROVE  InUse(key, x)
  <2>1. PICK k \in Slots : Sent(k) /\ m = req[k]
    BY <1>2
  <2>2. m # None /\ Good(m) /\ (k = "charge" <=> m.do = "charge")
    BY <2>1 DEF Sent, TillInv, MailInv
  <2>3. key # None
    BY TillAssumption DEF Keys
  <2>4. k = "charge"
    BY <1>4, <2>2, <2>3 DEF Good
  <2>5. QED
    BY <1>4, <2>1, <2>2, <2>4 DEF InUse
<1>5. QED
  BY <1>1, <1>2, <1>3, <1>4 DEF NoNewUse, InUse

(* The key of a charge: the one of the attempt for the same sale, or a new   *)
(* one.                                                                      *)
LEMMA ConfirmKey ==
    ASSUME TillInv, KeyInv, NEW payment, Confirm(payment)
    PROVE  KeyInv'
<1>1. /\ AttemptNow \in Keys
      /\ attempt' = [sale |-> active.id, key |-> AttemptNow]
      /\ drawn' = IF AttemptNow > drawn THEN AttemptNow ELSE drawn
      /\ req' = [req EXCEPT !["charge"] = Ask("charge", active.id, None, payment, AttemptNow)]
      /\ UNCHANGED <<claims, late>>
  BY DEF Confirm, Send, serverVars
<1>0. PICK key, sale : key = AttemptNow /\ sale = active.id
  OBVIOUS
<1> DEFINE m == Ask("charge", sale, None, payment, key)
<1>2. m.key = key /\ m.sale = sale
  BY DEF Ask
<1>3. key \in Nat /\ drawn \in Nat
  BY <1>0, <1>1, Bounds DEF Keys, KeyInv
<1>4. /\ \A x : InUse(key, x) => x = sale
      /\ key <= drawn \/ key = drawn + 1
  <2>1. CASE attempt # None /\ attempt.sale = active.id
    BY <1>0, <2>1 DEF AttemptNow, KeyInv
  <2>2. CASE ~(attempt # None /\ attempt.sale = active.id)
    <3>1. key = drawn + 1
      BY <1>0, <2>2 DEF AttemptNow
    <3>2. \A x : ~InUse(key, x)
      BY <3>1, <1>0, <1>1, <1>3 DEF KeyInv
    <3>3. QED
      BY <3>1, <3>2
  <2>3. QED
    BY <2>1, <2>2
<1>5. "charge" \in Slots /\ req = [j \in Slots |-> req[j]]
  BY DEF Slots, TillInv, MailInv
<1> HIDE DEF m
<1>6. req'["charge"] = m
  BY <1>0, <1>1, <1>5 DEF m
<1>7. /\ attempt'.key = key /\ attempt'.sale = sale
      /\ drawn' = IF key > drawn THEN key ELSE drawn
      /\ key \in Keys
  BY <1>0, <1>1
<1>8. ASSUME NEW k \in Keys, NEW x, InUse(k, x)'
      PROVE  InUse(k, x) \/ (k = key /\ x = sale)
  BY <1>1, <1>2, <1>6, <1>8 DEF InUse
<1>9. drawn' \in Nat /\ drawn <= drawn' /\ key <= drawn'
  BY <1>3, <1>7
<1>10. \A k \in Keys : k \in Nat
  BY Bounds DEF Keys
<1>11. \A k \in Keys : \A x : InUse(k, x)' => k <= drawn'
  BY <1>3, <1>8, <1>9, <1>10 DEF KeyInv
<1>12. \A k \in Keys : \A x, y : InUse(k, x)' /\ InUse(k, y)' => x = y
  BY <1>4, <1>8 DEF KeyInv
<1>13. \A x : InUse(key, x)' => x = sale
  BY <1>4, <1>7, <1>8
<1>14. QED
  BY <1>7, <1>9, <1>11, <1>12, <1>13 DEF KeyInv

LEMMA CashierUse ==
    ASSUME TillInv, KeyInv, Cashier
    PROVE  KeyInv'
<1>1. Slots \ {"charge"} = {"open", "edit", "cancel", "check"}
  BY DEF Slots
<1>2. CASE RetryOpen \/ NewSale
  BY <1>1, <1>2, OtherSlot, SameUse, NoNewUseStep DEF RetryOpen, NewSale, TillInv, serverVars
<1>3. CASE Scan \/ Tap \/ ConfirmCancel
  BY <1>1, <1>3, OtherSlot, SameUse, NoNewUseStep
     DEF Scan, Tap, ConfirmCancel, TillInv, serverVars, pageVars
<1>4. CASE AskToCancel \/ KeepEditing \/ Leave \/ Dismiss
  BY <1>4, SameUse, NoNewUseStep DEF AskToCancel, KeepEditing, Leave, Dismiss, serverVars
<1>5. CASE Cobrar
  BY <1>1, <1>5, OtherSlot, SameUse, NoNewUseStep DEF Cobrar, TillInv, serverVars
<1>6. ASSUME NEW i \in 1..LastSale, Select(i)
      PROVE  KeyInv'
  BY <1>6, SameUse, NoNewUseStep DEF Select, serverVars
<1>7. ASSUME NEW line \in Lines, RemoveShown(line)
      PROVE  KeyInv'
  BY <1>1, <1>7, OtherSlot, SameUse, NoNewUseStep DEF RemoveShown, TillInv, serverVars, pageVars
<1>8. ASSUME NEW payment \in Payments, Confirm(payment)
      PROVE  KeyInv'
  BY <1>8, ConfirmKey
<1>9. QED
  BY <1>2, <1>3, <1>4, <1>5, <1>6, <1>7, <1>8 DEF Cashier

LEMMA AnswersUse ==
    ASSUME TillInv, KeyInv, Answers
    PROVE  KeyInv'
<1>1. Slots \ {"charge"} = {"open", "edit", "cancel", "check"} /\ "charge" \in Slots
  BY DEF Slots
<1>2. CASE Opened \/ OpenFailed
  BY <1>1, <1>2, OtherSlot, SameUse, NoNewUseStep DEF Opened, OpenFailed, TillInv, serverVars
<1>3. CASE Found
  <2>1. req'["charge"] = req["charge"]
    BY <1>1, <1>3, OtherSlot DEF Found, TillInv
  <2>2. QED
    BY <1>3, <2>1, SameUse, NoNewUseStep DEF Found, serverVars, pageVars
<1>4. CASE Edited \/ Cancelled \/ Checked
  BY <1>1, <1>4, OtherSlot, SameUse, NoNewUseStep DEF Edited, Cancelled, Checked, TillInv, serverVars
<1>5. CASE Charged \/ ChargeFailed
  <2>1. req'["charge"] = None
    BY <1>1, <1>5 DEF Charged, ChargeFailed, Cleared, TillInv, MailInv
  <2>2. QED
    BY <1>5, <2>1, SameUse, NoNewUseStep DEF Charged, ChargeFailed, Kept, serverVars
<1>6. CASE ListArrives
  BY <1>6, SameUse, NoNewUseStep DEF ListArrives, serverVars
<1>7. ASSUME NEW k \in Slots, Failure(k)
      PROVE  KeyInv'
  BY <1>1, <1>7, OtherSlot, SameUse, NoNewUseStep DEF Failure, TillInv, serverVars, pageVars
<1>8. QED
  BY <1>2, <1>3, <1>4, <1>5, <1>6, <1>7 DEF Answers

LEMMA KeyStep ==
    ASSUME TillInv, KeyInv, [Next]_vars
    PROVE  KeyInv'
<1>1. CASE Network
  <2>1. ASSUME NEW k \in Slots, Serve(k)
        PROVE  KeyInv'
    BY <2>1, ServeUse, NoNewUseStep
  <2>2. ASSUME NEW k \in Slots, NEW stage \in {"short", "failed"}, Fail(k, stage)
        PROVE  KeyInv'
    BY <2>2, FailUse, NoNewUseStep
  <2>3. ASSUME NEW m \in late, ServeLate(m)
        PROVE  KeyInv'
    BY <2>3, ServeLateUse, NoNewUseStep
  <2>4. CASE ServeList
    BY <2>4, SameUse, NoNewUseStep DEF ServeList, serverVars, pageVars
  <2>5. QED
    BY <1>1, <2>1, <2>2, <2>3, <2>4 DEF Network
<1>2. CASE Others
  <2>1. ASSUME NEW s \in Sales, NEW do \in {"add", "cancel"},
               Elsewhere(Ask(do, s, None, None, None))
        PROVE  KeyInv'
    <3>1. claims' = claims
      BY <2>1 DEF Elsewhere, Ask, Effect, OpenSale, AddLine, RemoveLine, CancelSale, Charge,
                  ReadOnly, serverVars
    <3>2. QED
      BY <2>1, <3>1, SameUse, NoNewUseStep DEF Elsewhere, pageVars
  <2>2. ASSUME NEW s \in Sales, NEW payment \in Payments, ChargedElsewhere(s, payment)
        PROVE  KeyInv'
    BY <2>2, SameUse, NoNewUseStep DEF ChargedElsewhere, pageVars
  <2>3. QED
    BY <1>2, <2>1, <2>2 DEF Others
<1>3. CASE Cashier
  BY <1>3, CashierUse
<1>4. CASE Answers
  BY <1>4, AnswersUse
<1>5. CASE Effects
  <2>1. CASE Resume
    BY <2>1, SameUse, NoNewUseStep DEF Resume, serverVars
  <2>2. CASE OpenFirst
    <3>1. "open" \in Slots \ {"charge"}
      BY DEF Slots
    <3>2. QED
      BY <2>2, <3>1, OtherSlot, SameUse, NoNewUseStep DEF OpenFirst, TillInv, serverVars, pageVars
  <2>3. QED
    BY <1>5, <2>1, <2>2 DEF Effects
<1>6. CASE Reconnect
  BY <1>6, SameUse, NoNewUseStep DEF Reconnect, serverVars, pageVars
<1>7. CASE Reload
  BY <1>7, ReloadUse, NoNewUseStep
<1>8. CASE UNCHANGED vars
  BY <1>8, SameUse, NoNewUseStep DEF vars, serverVars, pageVars
<1>9. QED
  BY <1>1, <1>2, <1>3, <1>4, <1>5, <1>6, <1>7, <1>8 DEF Next

LEMMA OneUse ==
    ASSUME KeyInv
    PROVE  KeyNamesOneSale
<1> SUFFICES ASSUME NEW k \in Keys
             PROVE  Cardinality(ChargesOf(k)) <= 1
  BY DEF KeyNamesOneSale
<1>1. \A x \in ChargesOf(k) : InUse(k, x)
  BY DEF ChargesOf, InUse
<1>2. CASE ChargesOf(k) = {}
  BY <1>2, FS_EmptySet
<1>3. ASSUME NEW x \in ChargesOf(k)
      PROVE  Cardinality(ChargesOf(k)) <= 1
  <2>1. ChargesOf(k) = {x}
    BY <1>1, <1>3 DEF KeyInv
  <2>2. Cardinality({x}) = 1
    BY FS_Singleton
  <2>3. QED
    BY <2>1, <2>2
<1>4. QED
  BY <1>2, <1>3

LEMMA KeyInit ==
    ASSUME Init
    PROVE  KeyInv
<1>1. "charge" \in Slots
  BY DEF Slots
<1>2. QED
  BY <1>1 DEF Init, KeyInv, InUse

(* However often a charge is tried again, whatever sale is selected or opened *)
(* in between, and whatever a page that is gone left on its way, a key names *)
(* one sale (confirmCheckout and its errors).                                *)
THEOREM KeysNameOneSale == Spec => []KeyNamesOneSale
<1>1. Init => TillInv /\ KeyInv
  BY TillInit, KeyInit
<1>2. TillInv /\ KeyInv /\ [Next]_vars => (TillInv /\ KeyInv)'
  BY TillStep, KeyStep
<1>3. TillInv /\ KeyInv => KeyNamesOneSale
  BY OneUse
<1>4. QED
  BY <1>1, <1>2, <1>3, PTL DEF Spec

-----------------------------------------------------------------------------
(* The key of a retry *)

(* An attempt is a sale and a key, and nothing else.                         *)
AttemptInv == attempt # None => attempt = [sale |-> attempt.sale, key |-> attempt.key]

LEMMA AttemptStep ==
    ASSUME AttemptInv, [Next]_vars
    PROVE  AttemptInv' /\ AttemptKept
<1> USE DEF AttemptInv, AttemptKept, InCheckout, AtCounter, InCart
<1>1. CASE attempt' = attempt
  BY <1>1
<1>2. CASE attempt' = None /\ (view # "checkout" \/ view' # "checkout")
  BY <1>2
<1>3. CASE Network \/ Others \/ Effects \/ Reconnect \/ UNCHANGED vars
  <2>1. attempt' = attempt
    BY <1>3 DEF Network, Serve, Fail, ServeLate, ServeList, Others, Elsewhere, ChargedElsewhere,
                Effects, Resume, OpenFirst, Reconnect, pageVars, vars
  <2>2. QED
    BY <2>1, <1>1
<1>4. CASE Reload
  <2>1. attempt' = None /\ view' = "cart"
    BY <1>4 DEF Reload
  <2>2. QED
    BY <2>1, <1>2
<1>5. CASE Answers
  <2>1. CASE Charged
    BY <2>1, <1>2 DEF Charged
  <2>2. CASE ChargeFailed
    BY <2>2, <1>1, <1>2 DEF ChargeFailed, Kept
  <2>3. CASE ~Charged /\ ~ChargeFailed
    <3>1. attempt' = attempt
      BY <1>5, <2>3 DEF Answers, Opened, OpenFailed, Found, Edited, Cancelled, Checked,
                        ListArrives, Failure, pageVars
    <3>2. QED
      BY <3>1, <1>1
  <2>4. QED
    BY <2>1, <2>2, <2>3
<1>6. CASE Cashier
  <2>1. ASSUME NEW i, Select(i)
        PROVE  attempt' = None /\ view # "checkout"
    BY <2>1 DEF Select
  <2>2. CASE Cobrar
    BY <2>2, <1>2 DEF Cobrar
  <2>3. CASE Leave
    BY <2>3, <1>2 DEF Leave
  <2>4. ASSUME NEW payment, Confirm(payment)
        PROVE  AttemptInv' /\ AttemptKept
    <3>1. attempt' = [sale |-> active.id, key |-> AttemptNow]
      BY <2>4 DEF Confirm
    <3>2. AttemptInv'
      BY <3>1
    <3>3. ASSUME attempt # None, attempt.sale = active.id
          PROVE  attempt' = attempt
      BY <3>1, <3>3 DEF AttemptNow
    <3>4. QED
      BY <3>2, <3>3
  <2>5. CASE attempt' = attempt
    BY <2>5, <1>1
  <2>6. QED
    BY <1>2, <1>6, <2>1, <2>2, <2>3, <2>4, <2>5
       DEF Cashier, RetryOpen, NewSale, Scan, Tap, AskToCancel, KeepEditing, ConfirmCancel,
           Dismiss, RemoveShown, pageVars
<1>7. QED
  BY <1>3, <1>4, <1>5, <1>6 DEF Next

(* A charge that is tried again from the checkout it failed in carries the   *)
(* key it carried before, so the server can tell that it is the same         *)
(* (checkoutAttempt in confirmCheckout and its errors).                      *)
THEOREM RetriesKeepTheKey == Spec => KeySurvivesRetry
<1>1. Init => AttemptInv
  BY DEF Init, AttemptInv
<1>2. AttemptInv /\ [Next]_vars => AttemptInv' /\ AttemptKept
  BY AttemptStep
<1>3. AttemptKept => [AttemptKept]_vars
  OBVIOUS
<1>4. QED
  BY <1>1, <1>2, <1>3, PTL DEF Spec, KeySurvivesRetry

-----------------------------------------------------------------------------
(* Lists of sales *)

(* A set of numbers in order: every member stands at its rank, and every     *)
(* rank is taken.                                                            *)
LEMMA Ranked ==
    ASSUME NEW S \in SUBSET Nat, IsFiniteSet(S)
    PROVE  /\ InOrder(S) \in Seq(S) /\ Len(InOrder(S)) \in Nat
           /\ \A x \in S : \E j \in 1..Len(InOrder(S)) : InOrder(S)[j] = x
<1> DEFINE n == Cardinality(S)
           UpTo(x) == {y \in S : y <= x}
           rank == [x \in S |-> Cardinality(UpTo(x))]
           pick == [j \in 1..n |-> CHOOSE x \in S : Cardinality(UpTo(x)) = j]
<1>1. n \in Nat /\ IsFiniteSet(1..n) /\ Cardinality(1..n) = n
  BY FS_CardinalityType, FS_Interval
<1>2. InOrder(S) = pick
  BY DEF InOrder
<1>3. \A x \in S : Cardinality(UpTo(x)) \in 1..n
  <2> SUFFICES ASSUME NEW x \in S
               PROVE  Cardinality(UpTo(x)) \in 1..n
    OBVIOUS
  <2>1. UpTo(x) \in SUBSET S /\ x \in UpTo(x)
    OBVIOUS
  <2> HIDE DEF UpTo
  <2>2. IsFiniteSet(UpTo(x)) /\ Cardinality(UpTo(x)) <= n
    BY <2>1, FS_Subset
  <2>3. Cardinality(UpTo(x)) \in Nat /\ Cardinality(UpTo(x)) # 0
    BY <2>1, <2>2, FS_CardinalityType, FS_EmptySet
  <2>4. QED
    BY <1>1, <2>2, <2>3
<1>4. \A x, z \in S : x <= z /\ Cardinality(UpTo(x)) = Cardinality(UpTo(z)) => x = z
  <2> SUFFICES ASSUME NEW x \in S, NEW z \in S, x <= z,
                      Cardinality(UpTo(x)) = Cardinality(UpTo(z))
               PROVE  x = z
    OBVIOUS
  <2>1. \A y \in S : y <= x => y <= z
    OBVIOUS
  <2>2. UpTo(x) \in SUBSET UpTo(z) /\ UpTo(z) \in SUBSET S
    BY <2>1
  <2>3. z \in UpTo(z)
    OBVIOUS
  <2>4. IsFiniteSet(UpTo(z))
    BY <2>2, FS_Subset
  <2>5. UpTo(x) = UpTo(z)
    <3> HIDE DEF UpTo
    <3>1. QED
      BY <2>2, <2>4, FS_Subset
  <2>6. z <= x
    BY <2>3, <2>5
  <2>7. QED
    BY <2>6
<1>5. rank \in Injection(S, 1..n)
  <2>1. \A x \in S : rank[x] = Cardinality(UpTo(x))
    OBVIOUS
  <2>2. \A x, z \in S : rank[x] = rank[z] => x = z
    <3> SUFFICES ASSUME NEW x \in S, NEW z \in S, rank[x] = rank[z]
                 PROVE  x = z
      OBVIOUS
    <3>1. x <= z \/ z <= x
      OBVIOUS
    <3>2. QED
      BY <1>4, <2>1, <3>1
  <2>3. rank \in [S -> 1..n]
    BY <1>3
  <2> HIDE DEF rank
  <2>4. QED
    BY <2>2, <2>3 DEF Injection, IsInjective
<1>6. \A j \in 1..n : \E x \in S : Cardinality(UpTo(x)) = j
  <2>1. rank \in Surjection(S, 1..n)
    <3> HIDE DEF rank
    <3>1. QED
      BY <1>1, <1>5, FS_Injection
  <2>2. \A j \in 1..n : \E x \in S : rank[x] = j
    <3> HIDE DEF rank
    <3>1. QED
      BY <2>1 DEF Surjection
  <2>3. QED
    BY <2>2
<1>7. \A j \in 1..n : pick[j] \in S /\ Cardinality(UpTo(pick[j])) = j
  <2> HIDE DEF UpTo
  <2>1. QED
    BY <1>6
<1>8. \A x \in S : pick[Cardinality(UpTo(x))] = x
  <2> SUFFICES ASSUME NEW x \in S
               PROVE  pick[Cardinality(UpTo(x))] = x
    OBVIOUS
  <2> DEFINE z == pick[Cardinality(UpTo(x))]
  <2>1. z \in S /\ Cardinality(UpTo(z)) = Cardinality(UpTo(x))
    <3> HIDE DEF pick, UpTo
    <3>1. QED
      BY <1>3, <1>7
  <2> HIDE DEF z
  <2>2. x <= z \/ z <= x
    BY <2>1
  <2>3. z = x
    BY <1>4, <2>1, <2>2
  <2>4. QED
    BY <2>3 DEF z
<1>9. pick \in Seq(S)
  <2>1. pick \in [1..n -> S]
    BY <1>7
  <2> HIDE DEF pick
  <2>2. QED
    BY <1>1, <2>1
<1>10. Len(pick) = n
  <2>1. DOMAIN pick = 1..n
    OBVIOUS
  <2> HIDE DEF pick
  <2>2. QED
    BY <1>1, <1>9, <2>1
<1>11. QED
  <2> HIDE DEF pick, UpTo
  <2>1. QED
    BY <1>1, <1>2, <1>3, <1>8, <1>9, <1>10

Lists == Seq(Snapshots)

LEMMA ListsHaveIds ==
    /\ << >> \in Lists /\ IdsOf(<< >>) = {}
    /\ \A d \in Lists : IdsOf(d) \subseteq Sales
    /\ None \notin Lists
<1>1. \A d \in Lists : \A i \in DOMAIN d : d[i] \in Snapshots
  BY DEF Lists
<1>2. \A x \in Snapshots : x.id \in Sales
  BY DEF Snapshots
<1>3. DOMAIN << >> = {}
  OBVIOUS
<1>4. QED
  BY <1>1, <1>2, <1>3, ListAssumption DEF Lists, IdsOf

LEMMA OpenSalesAreListed ==
    ASSUME ServerInv
    PROVE  OpenSales \in Lists
<1> DEFINE S == {s \in Sales : status[s] = "DRAFT"}
           ids == InOrder(S)
           n == Len(ids)
<1>1. S \in SUBSET Sales
  OBVIOUS
<1>2. \A s \in Sales : Sale(s) \in Snapshots
  BY DEF ServerInv, Sale, Snapshots
<1> HIDE DEF S
<1>3. S \in SUBSET Nat
  BY <1>1, Bounds
<1>4. IsFiniteSet(S)
  <2>1. IsFiniteSet(Sales)
    BY Bounds, FS_Interval DEF Sales
  <2>2. QED
    BY <1>1, <2>1, FS_Subset
<1>5. ids \in Seq(S) /\ n \in Nat
  BY <1>3, <1>4, Ranked
<1> HIDE DEF ids
<1>6. \A i \in 1..n : ids[n + 1 - i] \in S
  BY <1>5
<1> HIDE DEF n
<1>7. [i \in 1..n |-> Sale(ids[n + 1 - i])] \in Lists
  BY <1>1, <1>2, <1>5, <1>6 DEF Lists
<1>8. QED
  BY <1>7 DEF OpenSales, ids, S, n

(* The bar after a sale has left it                                          *)
LEMMA WithoutKeeps ==
    ASSUME Listed \in Lists, NEW id
    PROVE  /\ Without(id) \in Lists
           /\ \A s \in IdsOf(Listed) : s # id => s \in IdsOf(Without(id))
<1> DEFINE S == {i \in DOMAIN Listed : Listed[i].id # id}
           kept == InOrder(S)
           n == Len(kept)
<1>1. /\ Len(Listed) \in Nat /\ DOMAIN Listed = 1..Len(Listed)
      /\ \A i \in DOMAIN Listed : Listed[i] \in Snapshots
  BY DEF Lists
<1>2. S \in SUBSET (1..Len(Listed))
  BY <1>1
<1>3. \A s \in IdsOf(Listed) : s # id => \E i \in S : Listed[i].id = s
  BY DEF IdsOf
<1>4. IsFiniteSet(1..Len(Listed))
  BY <1>1, FS_Interval
<1> HIDE DEF S
<1>5. S \in SUBSET Nat
  BY <1>1, <1>2
<1>6. IsFiniteSet(S)
  BY <1>2, <1>4, FS_Subset
<1>7. kept \in Seq(S) /\ n \in Nat /\ \A i \in S : \E j \in 1..n : kept[j] = i
  BY <1>5, <1>6, Ranked
<1>8. Without(id) = [j \in 1..n |-> Listed[kept[j]]]
  BY DEF Without, S
<1> HIDE DEF kept
<1>9. \A j \in 1..n : kept[j] \in S
  BY <1>7
<1> HIDE DEF n
<1> DEFINE w == [j \in 1..n |-> Listed[kept[j]]]
<1>10. \A j \in 1..n : Listed[kept[j]] \in Snapshots
  BY <1>1, <1>2, <1>9
<1>11. w \in Lists
  BY <1>7, <1>10 DEF Lists
<1>12. \A i \in S : Listed[i].id \in IdsOf(w)
  BY <1>7 DEF IdsOf
<1> HIDE DEF w
<1>13. QED
  BY <1>3, <1>8, <1>11, <1>12 DEF w

(* The bar after an answer has taken its place                               *)
LEMMA SyncedKeeps ==
    ASSUME Listed \in Lists, NEW sale \in Snapshots
    PROVE  Synced(sale) \in Lists /\ IdsOf(Synced(sale)) = IdsOf(Listed)
<1> DEFINE n == Len(Listed)
           w == [i \in 1..n |-> IF Listed[i].id = sale.id THEN sale ELSE Listed[i]]
<1>1. /\ n \in Nat /\ DOMAIN Listed = 1..n
      /\ \A i \in 1..n : Listed[i] \in Snapshots
  BY DEF Lists
<1> HIDE DEF n
<1>2. w \in Lists
  BY <1>1 DEF Lists
<1>3. DOMAIN w = DOMAIN Listed /\ \A i \in DOMAIN Listed : w[i].id = Listed[i].id
  BY <1>1
<1>4. Synced(sale) = w
  BY <1>1 DEF Synced
<1> HIDE DEF w
<1>5. IdsOf(w) = IdsOf(Listed)
  BY <1>3 DEF IdsOf
<1>6. QED
  BY <1>2, <1>4, <1>5

(* The bar after a sale has joined it                                        *)
LEMMA JoinedKeeps ==
    ASSUME Listed \in Lists, NEW sale \in Snapshots
    PROVE  /\ Joined(sale) \in Lists
           /\ IdsOf(Joined(sale)) = IdsOf(Listed) \cup {sale.id}
<1> DEFINE n == Len(Listed)
           w == Append(Listed, sale)
<1>1. /\ n \in Nat /\ DOMAIN Listed = 1..n
      /\ 1..(n + 1) = (1..n) \cup {n + 1}
  BY DEF Lists
<1>2. /\ w \in Lists /\ Len(w) = n + 1
      /\ \A i \in 1..n : w[i] = Listed[i]
      /\ w[n + 1] = sale
  BY AppendProperties DEF Lists
<1> HIDE DEF w, n
<1>3. DOMAIN w = 1..(n + 1)
  BY <1>2 DEF Lists
<1>4. IdsOf(w) = {w[i].id : i \in 1..n} \cup {w[n + 1].id}
  BY <1>1, <1>3 DEF IdsOf
<1>5. {w[i].id : i \in 1..n} = {Listed[i].id : i \in 1..n}
  BY <1>2
<1>6. IdsOf(Listed) = {Listed[i].id : i \in 1..n}
  BY <1>1 DEF IdsOf
<1>7. QED
  BY <1>2, <1>4, <1>5, <1>6 DEF Joined, w

(* The sale that is shown first                                              *)
LEMMA FirstIsListed ==
    ASSUME NEW d \in Lists
    PROVE  /\ First(d) \in Snapshots \cup {None}
           /\ First(d) # None => First(d).id \in IdsOf(d)
           /\ d # << >> => Head(d) \in Snapshots /\ Head(d).id \in IdsOf(d)
<1>1. CASE d = << >>
  BY <1>1 DEF First
<1>2. CASE d # << >>
  <2>1. 1 \in DOMAIN d /\ Head(d) = d[1] /\ d[1] \in Snapshots
    BY <1>2 DEF Lists
  <2>2. First(d) = d[1]
    BY <1>2 DEF First
  <2>3. QED
    BY <2>1, <2>2 DEF IdsOf
<1>3. QED
  BY <1>1, <1>2

-----------------------------------------------------------------------------
(* Types *)

ScreenTypes ==
    /\ drafts \in Lists \cup {None}
    /\ active \in Snapshots \cup {None}
    /\ view \in {"cart", "checkout"}
    /\ receipt \in Receipts \cup {None}
    /\ attempt \in [sale: Sales, key: Keys] \cup {None}
    /\ drawn \in 0..LastKey
    /\ dialog \in BOOLEAN
    /\ failedOpen \in BOOLEAN
    /\ listing \in [stage: {"none", "sent", "answered"}, got: Lists]
    /\ known \subseteq Sales

(* What a slot is for                                                        *)
Suits(k, m) ==
    /\ k = "edit" => m.do \in {"find", "add", "remove"}
    /\ k # "edit" => m.do = k

(* What an answer carries                                                    *)
Rightly(m) ==
    m.stage = "answered" =>
        /\ m.do \in {"open", "add", "remove"} => m.got \in Snapshots
        /\ m.do = "charge" => m.got \in Receipts

MailTypes ==
    /\ req \in [Slots -> Requests \cup {None}]
    /\ \A k \in Slots : req[k] # None => Suits(k, req[k]) /\ Rightly(req[k])

(* A completed sale has been paid.                                           *)
PaidInv == \A s \in Sales : status[s] = "COMPLETED" => paid[s] \in Payments

SpentTypes == spent \in [elsewhere: Nat, refetch: Nat, reload: Nat]

TypeInv == ScreenTypes /\ MailTypes /\ late \subseteq Requests /\ PaidInv /\ SpentTypes

(* The sales that are over                                                   *)
Closed == {s \in Sales : status[s] \in {"COMPLETED", "CANCELLED"}}

LEMMA EffectMoves ==
    ASSUME ServerInv, PaidInv, NEW m, Good(m), Accepted(m), Effect(m)
    PROVE  PaidInv' /\ Closed \subseteq Closed'
<1>0. status \in [Sales -> Statuses] /\ paid \in [Sales -> Payments \cup {None}]
  BY DEF ServerInv
<1>1. CASE OpenSale(m)
  <2>1. /\ Fresh \in Sales /\ paid' = paid
        /\ status' = [status EXCEPT ![Fresh] = "DRAFT"]
    BY <1>1 DEF OpenSale, Accepted
  <2>2. status[Fresh] = "unborn"
    BY <2>1, FreshIsNew
  <2>3. \A s \in Sales : status'[s] = status[s] \/ (s = Fresh /\ status'[s] = "DRAFT")
    BY <1>0, <2>1
  <2>4. QED
    BY <2>1, <2>2, <2>3 DEF PaidInv, Closed
<1>2. CASE AddLine(m) \/ RemoveLine(m) \/ ReadOnly(m)
  <2>1. status' = status /\ paid' = paid
    BY <1>2 DEF AddLine, RemoveLine, ReadOnly, serverVars
  <2>2. QED
    BY <2>1 DEF PaidInv, Closed
<1>3. CASE CancelSale(m)
  <2>1. /\ m.sale \in Sales /\ paid' = paid
        /\ status' = [status EXCEPT ![m.sale] = "CANCELLED"]
    BY <1>3 DEF CancelSale, Accepted, IsDraft
  <2>2. \A s \in Sales : status'[s] = IF s = m.sale THEN "CANCELLED" ELSE status[s]
    BY <1>0, <2>1
  <2>3. QED
    BY <2>1, <2>2 DEF PaidInv, Closed
<1>4. CASE Charge(m)
  <2>1. /\ m.sale \in Sales /\ m.payment \in Payments
        /\ status' = [status EXCEPT ![m.sale] = "COMPLETED"]
        /\ paid' = [paid EXCEPT ![m.sale] = m.payment]
    BY <1>4 DEF Charge, Accepted, Chargeable, IsDraft, Good
  <2>2. \A s \in Sales : /\ status'[s] = IF s = m.sale THEN "COMPLETED" ELSE status[s]
                         /\ paid'[s] = IF s = m.sale THEN m.payment ELSE paid[s]
    BY <1>0, <2>1
  <2>3. QED
    BY <2>1, <2>2 DEF PaidInv, Closed
<1>5. QED
  BY <1>1, <1>2, <1>3, <1>4 DEF Effect

LEMMA ElsewhereMoves ==
    ASSUME ServerInv, PaidInv, NEW s \in Sales, NEW payment \in Payments,
           ChargedElsewhere(s, payment)
    PROVE  PaidInv' /\ Closed \subseteq Closed'
<1>1. status \in [Sales -> Statuses] /\ paid \in [Sales -> Payments \cup {None}]
  BY DEF ServerInv
<1>2. \A x \in Sales : /\ status'[x] = IF x = s THEN "COMPLETED" ELSE status[x]
                       /\ paid'[x] = IF x = s THEN payment ELSE paid[x]
  BY <1>1 DEF ChargedElsewhere
<1>3. QED
  BY <1>2 DEF PaidInv, Closed

Deeds == {"open", "find", "add", "remove", "cancel", "check", "charge"}
SaleOrNone == Sales \cup {None}
LineOrNone == Lines \cup {None}
PaymentOrNone == Payments \cup {None}
KeyOrNone == Keys \cup {None}

LEMMA AskTypes ==
    ASSUME NEW do \in Deeds, NEW sale \in SaleOrNone, NEW line \in LineOrNone, NEW payment \in PaymentOrNone,
           NEW key \in KeyOrNone
    PROVE  /\ Ask(do, sale, line, payment, key) \in Requests
           /\ Rightly(Ask(do, sale, line, payment, key))
           /\ Ask(do, sale, line, payment, key).do = do
BY DEF Ask, Requests, Rightly, Deeds, SaleOrNone, LineOrNone, PaymentOrNone, KeyOrNone

LEMMA PostedTypes ==
    ASSUME MailTypes, NEW k \in Slots, NEW m \in Requests, Suits(k, m), Rightly(m),
           req' = [req EXCEPT ![k] = m]
    PROVE  MailTypes' /\ \A j \in Slots : req'[j] = IF j = k THEN m ELSE req[j]
<1>1. req' \in [Slots -> Requests \cup {None}]
  BY DEF MailTypes
<1>2. \A j \in Slots : req'[j] = IF j = k THEN m ELSE req[j]
  BY DEF MailTypes
<1>3. QED
  BY <1>1, <1>2 DEF MailTypes

LEMMA ClearedTypes ==
    ASSUME MailTypes, NEW k \in Slots, Cleared(k)
    PROVE  MailTypes' /\ \A j \in Slots : req'[j] = IF j = k THEN None ELSE req[j]
<1>1. req' \in [Slots -> Requests \cup {None}]
  BY DEF MailTypes, Cleared
<1>2. \A j \in Slots : req'[j] = IF j = k THEN None ELSE req[j]
  BY DEF MailTypes, Cleared
<1>3. QED
  BY <1>1, <1>2 DEF MailTypes

Contents == Snapshots \cup Receipts \cup {None}

LEMMA StagedTypes ==
    ASSUME NEW m \in Requests, NEW stage, stage \in {"answered", "failed"},
           NEW got \in Contents
    PROVE  /\ Staged(m, stage, got) \in Requests
           /\ Staged(m, stage, got).stage = stage
           /\ Staged(m, stage, got).got = got
           /\ Staged(m, stage, got).do = m.do
           /\ Staged(m, stage, got).sale = m.sale
BY DEF Staged, Requests, Contents

(* What the server answers a request it has served                           *)
LEMMA AnswerTypes ==
    ASSUME ServerInv, PaidInv, NEW m \in Requests, Good(m), Accepted(m), Effect(m),
           receipt' = receipt
    PROVE  /\ Answer(m) \in Snapshots \cup Receipts \cup {None}
           /\ m.do \in {"open", "add", "remove"} => Answer(m) \in Snapshots
           /\ m.do = "charge" => Answer(m) \in Receipts
           /\ m.do \in {"add", "remove"} => Answer(m).id = m.sale
           /\ m.do = "cancel" => m.sale \in Closed'
<1>1. ServerInv' /\ PaidInv'
  BY EffectStep, EffectMoves
<1>2. CASE m.do = "open"
  <2>1. Fresh \in Sales
    BY <1>2 DEF Accepted
  <2>2. Answer(m) = [id |-> Fresh, lines |-> {}]
    BY <1>2 DEF Answer
  <2>3. QED
    BY <1>2, <2>1, <2>2 DEF Snapshots
<1>3. CASE m.do \in {"add", "remove"}
  <2>1. m.sale \in Sales
    BY <1>3 DEF Accepted, IsDraft
  <2>2. Answer(m) = [id |-> m.sale, lines |-> cart'[m.sale]]
    BY <1>3 DEF Answer
  <2>3. cart'[m.sale] \in SUBSET Lines
    BY <1>1, <2>1 DEF ServerInv
  <2>4. QED
    BY <1>3, <2>1, <2>2, <2>3 DEF Snapshots
<1>4. CASE m.do = "charge"
  <2>1. PICK s \in Sales : /\ status'[s] = "COMPLETED"
                           /\ Answer(m) = [id |-> s, lines |-> cart'[s], paid |-> paid'[s]]
    BY <1>4, ChargeAnswers
  <2>2. cart'[s] \in SUBSET Lines /\ paid'[s] \in Payments
    BY <1>1, <2>1 DEF ServerInv, PaidInv
  <2>3. QED
    BY <1>4, <2>1, <2>2 DEF Receipts
<1>5. CASE m.do \in {"find", "check"}
  BY <1>5 DEF Answer
<1>6. CASE m.do = "cancel"
  <2>1. /\ m.sale \in Sales /\ Answer(m) = None
        /\ status' = [status EXCEPT ![m.sale] = "CANCELLED"]
    BY <1>6 DEF Answer, Accepted, IsDraft, Effect, OpenSale, AddLine, RemoveLine, CancelSale,
                Charge, ReadOnly
  <2>2. status'[m.sale] = "CANCELLED"
    BY <2>1 DEF ServerInv
  <2>3. QED
    BY <1>6, <2>1, <2>2 DEF Closed
<1>7. QED
  BY <1>2, <1>3, <1>4, <1>5, <1>6 DEF Requests

(* A request that is served is the one that was sent, with an answer that is *)
(* about its sale.                                                           *)
Answered(k, r) ==
    /\ r \in Requests /\ Suits(k, r) /\ Rightly(r)
    /\ r.do = req[k].do /\ r.sale = req[k].sale
    /\ req' = [req EXCEPT ![k] = r]
    /\ r.stage = "answered" =>
          /\ r.do \in {"add", "remove"} => r.got.id = r.sale
          /\ r.do = "cancel" => r.sale \in Closed'

LEMMA ServeAnswers ==
    ASSUME TillInv, TypeInv, NEW k \in Slots, Serve(k)
    PROVE  /\ PaidInv' /\ Closed \subseteq Closed'
           /\ \E r : Answered(k, r)
<1>1. PICK m : m = req[k]
  OBVIOUS
<1>2. m \in Requests /\ Suits(k, m)
  BY <1>1 DEF TypeInv, MailTypes, Serve, Sent
<1>3. /\ Good(m) /\ Accepted(m) /\ Effect(m) /\ receipt' = receipt
      /\ ServerInv /\ PaidInv
  BY <1>1 DEF TillInv, TypeInv, MailInv, Serve, Sent, pageVars
<1>4. PICK answer \in {[stage |-> "answered", got |-> Answer(m)],
                       [stage |-> "failed", got |-> None]} :
          req' = [req EXCEPT ![k].stage = answer.stage, ![k].got = answer.got]
  BY <1>1 DEF Serve
<1>5. PICK stage, got :
          /\ stage = answer.stage /\ got = answer.got
          /\ \/ stage = "failed" /\ got = None
             \/ stage = "answered" /\ got = Answer(m)
  <2>1. CASE answer = [stage |-> "answered", got |-> Answer(m)]
    BY <2>1
  <2>2. CASE answer = [stage |-> "failed", got |-> None]
    BY <2>2
  <2>3. QED
    BY <1>4, <2>1, <2>2
<1> DEFINE r == Staged(m, stage, got)
<1>6. req' = [req EXCEPT ![k] = r]
  <2>1. req = [j \in Slots |-> req[j]]
    BY DEF TillInv, MailInv
  <2>2. QED
    BY <1>1, <1>4, <1>5, <2>1 DEF Staged
<1>7. /\ r \in Requests /\ r.stage = stage /\ r.got = got
      /\ r.do = m.do /\ r.sale = m.sale
  <2>1. stage \in {"answered", "failed"} /\ got \in Contents
    BY <1>2, <1>3, <1>5, AnswerTypes DEF Contents
  <2>2. QED
    BY <1>2, <2>1, StagedTypes
<1> HIDE DEF r
<1>8. Suits(k, r) /\ Rightly(r)
  BY <1>2, <1>3, <1>5, <1>7, AnswerTypes DEF Suits, Rightly
<1>9. r.stage = "answered" =>
          /\ r.do \in {"add", "remove"} => r.got.id = r.sale
          /\ r.do = "cancel" => r.sale \in Closed'
  BY <1>2, <1>3, <1>5, <1>7, AnswerTypes
<1>10. Answered(k, r)
  BY <1>1, <1>6, <1>7, <1>8, <1>9 DEF Answered
<1>11. QED
  BY <1>3, <1>10, EffectMoves

LEMMA FailAnswers ==
    ASSUME TillInv, TypeInv, NEW k \in Slots, NEW stage \in {"short", "failed"}, Fail(k, stage)
    PROVE  \E r : Answered(k, r)
<1>1. PICK m : m = req[k]
  OBVIOUS
<1>2. m \in Requests /\ Suits(k, m)
  BY <1>1 DEF TypeInv, MailTypes, Fail, Sent
<1> DEFINE r == [m EXCEPT !.stage = stage]
<1>3. r \in Requests /\ r.stage = stage /\ r.do = m.do /\ r.sale = m.sale
  BY <1>2 DEF Requests
<1>4. req' = [req EXCEPT ![k] = r]
  BY <1>1 DEF Fail
<1> HIDE DEF r
<1>5. Suits(k, r) /\ Rightly(r)
  BY <1>2, <1>3 DEF Suits, Rightly
<1>6. Answered(k, r)
  BY <1>1, <1>3, <1>4, <1>5 DEF Answered
<1>7. QED
  BY <1>6

LEMMA AnsweredTypes ==
    ASSUME MailTypes, NEW k \in Slots, NEW r, Answered(k, r)
    PROVE  MailTypes' /\ \A j \in Slots : req'[j] = IF j = k THEN r ELSE req[j]
BY PostedTypes DEF Answered

LEMMA SendTypes ==
    ASSUME MailTypes, NEW k \in Slots,
           NEW do, (k = "edit" /\ do \in {"find", "add", "remove"}) \/ (k # "edit" /\ do = k),
           NEW sale \in Sales \cup {None}, NEW line \in Lines \cup {None},
           NEW payment \in Payments \cup {None}, NEW key \in Keys \cup {None},
           Send(k, Ask(do, sale, line, payment, key))
    PROVE  MailTypes'
<1> DEFINE m == Ask(do, sale, line, payment, key)
<1>1. do \in Deeds
  BY DEF Slots, Deeds
<1>2. m \in Requests /\ Rightly(m) /\ m.do = do
  <2>1. sale \in SaleOrNone /\ line \in LineOrNone /\ payment \in PaymentOrNone /\ key \in KeyOrNone
    BY DEF SaleOrNone, LineOrNone, PaymentOrNone, KeyOrNone
  <2>2. QED
    BY <1>1, <2>1, AskTypes
<1>3. req' = [req EXCEPT ![k] = m]
  BY DEF Send
<1> HIDE DEF m
<1>4. Suits(k, m)
  BY <1>2 DEF Suits
<1>5. QED
  BY <1>2, <1>3, <1>4, PostedTypes

(* The slots hold what they are for, and an answer what it should carry.     *)
LEMMA MailStep ==
    ASSUME TillInv, TypeInv, [Next]_vars
    PROVE  MailTypes'
<1>0. /\ MailTypes /\ Slots = {"open", "edit", "cancel", "check", "charge"}
      /\ active # None => active.id \in Sales
  BY DEF TypeInv, ScreenTypes, Snapshots, Slots
<1>1. CASE req' = req
  BY <1>0, <1>1 DEF MailTypes
<1>2. ASSUME NEW k \in Slots, Cleared(k)
      PROVE  MailTypes'
  BY <1>0, <1>2, ClearedTypes
<1>3. CASE Network
  <2>1. ASSUME NEW k \in Slots, Serve(k)
        PROVE  MailTypes'
    BY <1>0, <2>1, ServeAnswers, AnsweredTypes
  <2>2. ASSUME NEW k \in Slots, NEW stage \in {"short", "failed"}, Fail(k, stage)
        PROVE  MailTypes'
    BY <1>0, <2>2, FailAnswers, AnsweredTypes
  <2>3. QED
    BY <1>1, <1>3, <2>1, <2>2 DEF Network, ServeLate, ServeList
<1>4. CASE Others \/ Reconnect \/ UNCHANGED vars
  BY <1>1, <1>4 DEF Others, Elsewhere, ChargedElsewhere, Reconnect, vars
<1>5. CASE Reload
  BY <1>5 DEF Reload, MailTypes
<1>6. CASE Effects
  <2>1. CASE Resume
    BY <1>1, <2>1 DEF Resume
  <2>2. CASE OpenFirst
    BY <1>0, <2>2, SendTypes DEF OpenFirst
  <2>3. QED
    BY <1>6, <2>1, <2>2 DEF Effects
<1>7. CASE Answers
  <2>1. CASE Found /\ active # None
    BY <1>0, <2>1, SendTypes DEF Found
  <2>2. CASE Found /\ active = None
    BY <1>0, <1>2, <2>2 DEF Found
  <2>3. CASE Opened \/ OpenFailed \/ Edited \/ Cancelled \/ Checked \/ Charged \/ ChargeFailed
    BY <1>0, <1>2, <2>3
       DEF Opened, OpenFailed, Edited, Cancelled, Checked, Charged, ChargeFailed
  <2>4. CASE ListArrives
    BY <1>1, <2>4 DEF ListArrives
  <2>5. QED
    BY <1>2, <1>7, <2>1, <2>2, <2>3, <2>4 DEF Answers, Failure
<1>8. CASE Cashier
  <2>1. CASE AskToCancel \/ KeepEditing \/ Leave \/ Dismiss \/ \E i \in 1..LastSale : Select(i)
    BY <1>1, <2>1 DEF AskToCancel, KeepEditing, Leave, Dismiss, Select
  <2>2. CASE RetryOpen \/ NewSale
    BY <1>0, <2>2, SendTypes DEF RetryOpen, NewSale
  <2>3. CASE Scan
    BY <1>0, <2>3, SendTypes DEF Scan
  <2>4. CASE Tap
    BY <1>0, <2>4, SendTypes DEF Tap, InCart
  <2>5. CASE ConfirmCancel
    BY <1>0, <2>5, SendTypes DEF ConfirmCancel
  <2>6. CASE Cobrar
    BY <1>0, <2>6, SendTypes DEF Cobrar, InCart
  <2>7. ASSUME NEW line \in Lines, RemoveShown(line)
        PROVE  MailTypes'
    BY <1>0, <2>7, SendTypes DEF RemoveShown, InCart
  <2>8. ASSUME NEW payment \in Payments, Confirm(payment)
        PROVE  MailTypes'
    <3>1. /\ Send("charge", Ask("charge", active.id, None, payment, AttemptNow))
          /\ active.id \in Sales /\ AttemptNow \in Keys
      BY <1>0, <2>8 DEF Confirm, InCheckout
    <3>2. QED
      BY <1>0, <3>1, SendTypes
  <2>9. QED
    BY <1>8, <2>1, <2>2, <2>3, <2>4, <2>5, <2>6, <2>7, <2>8 DEF Cashier
<1>9. QED
  BY <1>3, <1>4, <1>5, <1>6, <1>7, <1>8 DEF Next

(* The screen shows what it should.                                          *)
LEMMA ScreenStep ==
    ASSUME TillInv, TypeInv, [Next]_vars
    PROVE  ScreenTypes'
<1>0. /\ ScreenTypes /\ Listed \in Lists
      /\ \A k \in Slots : req[k] # None => Suits(k, req[k]) /\ Rightly(req[k])
      /\ \A x \in Snapshots : x.id \in Sales
      /\ \A x \in Receipts : x.id \in Sales
      /\ \A d \in Lists : IdsOf(d) \subseteq Sales
      /\ Slots = {"open", "edit", "cancel", "check", "charge"}
  BY ListsHaveIds DEF TypeInv, ScreenTypes, MailTypes, Listed, Snapshots, Receipts, Slots
<1>1. CASE UNCHANGED <<pageVars, drawn, listing, known>>
  BY <1>0, <1>1 DEF ScreenTypes, pageVars
<1>2. CASE Network
  <2>1. CASE ServeList
    <3>1. listing' = [stage |-> "answered", got |-> OpenSales] /\ OpenSales \in Lists
      BY <2>1, OpenSalesAreListed DEF ServeList, TillInv
    <3>2. QED
      BY <1>0, <2>1, <3>1 DEF ServeList, ScreenTypes, pageVars
  <2>2. QED
    BY <1>1, <1>2, <2>1 DEF Network, Serve, Fail, ServeLate
<1>3. CASE Others \/ UNCHANGED vars
  BY <1>1, <1>3 DEF Others, Elsewhere, ChargedElsewhere, vars
<1>4. CASE Reconnect
  BY <1>0, <1>4, ListsHaveIds DEF Reconnect, ScreenTypes, Fetching, pageVars
<1>5. CASE Reload
  BY <1>0, <1>5, ListsHaveIds DEF Reload, ScreenTypes, Fetching
<1>6. CASE Effects
  <2>1. CASE Resume
    <3>1. drafts \in Lists /\ drafts # << >>
      BY <1>0, <2>1 DEF Resume, ScreenTypes
    <3>2. active' \in Snapshots /\ active'.id \in Sales
      BY <1>0, <2>1, <3>1, FirstIsListed DEF Resume
    <3>3. QED
      BY <1>0, <2>1, <3>2 DEF Resume, ScreenTypes
  <2>2. QED
    BY <1>1, <1>6, <2>1 DEF Effects, OpenFirst
<1>7. CASE Answers
  <2>1. CASE Opened
    <3>1. req["open"].got \in Snapshots
      BY <1>0, <2>1 DEF Opened, Done, Suits, Rightly
    <3>2. drafts' \in Lists /\ active' \in Snapshots /\ active'.id \in Sales
      BY <1>0, <2>1, <3>1, JoinedKeeps DEF Opened
    <3>3. QED
      BY <1>0, <2>1, <3>2 DEF Opened, ScreenTypes
  <2>2. CASE Edited
    <3>1. req["edit"].got \in Snapshots
      BY <1>0, <2>2 DEF Edited, Done, Suits, Rightly
    <3>2. drafts' \in Lists /\ active' \in Snapshots /\ active'.id \in Sales
      BY <1>0, <2>2, <3>1, SyncedKeeps DEF Edited
    <3>3. QED
      BY <1>0, <2>2, <3>2 DEF Edited, ScreenTypes
  <2>3. CASE Cancelled
    <3>1. drafts' \in Lists
      BY <1>0, <2>3, WithoutKeeps DEF Cancelled
    <3>2. active' \in Snapshots \cup {None} /\ IdsOf(drafts') \subseteq Sales
      BY <1>0, <2>3, <3>1, FirstIsListed DEF Cancelled
    <3>3. QED
      BY <1>0, <2>3, <3>1, <3>2 DEF Cancelled, ScreenTypes
  <2>4. CASE Charged
    <3>1. receipt' \in Receipts
      BY <1>0, <2>4 DEF Charged, Done, Suits, Rightly
    <3>2. drafts' \in Lists
      BY <1>0, <2>4, WithoutKeeps DEF Charged
    <3>3. active' \in Snapshots \cup {None} /\ IdsOf(drafts') \subseteq Sales
      BY <1>0, <2>4, <3>2, FirstIsListed DEF Charged
    <3>4. QED
      BY <1>0, <2>4, <3>1, <3>2, <3>3 DEF Charged, ScreenTypes
  <2>5. CASE ListArrives
    <3>1. listing.got \in Lists /\ << >> \in Lists
      BY <1>0, ListsHaveIds DEF ScreenTypes
    <3>2. drafts' \in Lists /\ IdsOf(drafts') \subseteq Sales
      BY <1>0, <2>5, <3>1 DEF ListArrives
    <3>3. QED
      BY <1>0, <2>5, <3>1, <3>2 DEF ListArrives, ScreenTypes, NoFetch
  <2>6. CASE OpenFailed \/ Checked \/ ChargeFailed
    BY <1>0, <2>6 DEF OpenFailed, Checked, ChargeFailed, Kept, ScreenTypes
  <2>7. QED
    BY <1>1, <1>7, <2>1, <2>2, <2>3, <2>4, <2>5, <2>6 DEF Answers, Found, Failure
<1>8. CASE Cashier
  <2>1. CASE RetryOpen \/ NewSale \/ AskToCancel \/ KeepEditing \/ Cobrar \/ Leave \/ Dismiss
    BY <1>0, <2>1 DEF RetryOpen, NewSale, AskToCancel, KeepEditing, Cobrar, Leave, Dismiss,
                      ScreenTypes
  <2>2. ASSUME NEW i \in 1..LastSale, Select(i)
        PROVE  ScreenTypes'
    <3>1. drafts \in Lists
      BY <1>0, <2>2 DEF Select, InCart, AtCounter, ScreenTypes
    <3>2. active' \in Snapshots
      BY <2>2, <3>1 DEF Select, Lists
    <3>3. QED
      BY <1>0, <2>2, <3>2 DEF Select, ScreenTypes
  <2>3. ASSUME NEW payment \in Payments, Confirm(payment)
        PROVE  ScreenTypes'
    <3>1. active.id \in Sales /\ AttemptNow \in Keys
      BY <1>0, <2>3 DEF Confirm, InCheckout, ScreenTypes
    <3>2. AttemptNow \in 0..LastKey /\ drawn \in 0..LastKey
      BY <1>0, <3>1, Bounds DEF Keys, ScreenTypes
    <3>3. drawn' \in 0..LastKey
      BY <2>3, <3>2 DEF Confirm
    <3>4. attempt' \in [sale: Sales, key: Keys]
      BY <2>3, <3>1 DEF Confirm
    <3>5. QED
      BY <1>0, <2>3, <3>3, <3>4 DEF Confirm, ScreenTypes
  <2>4. QED
    BY <1>1, <1>8, <2>1, <2>2, <2>3
       DEF Cashier, Scan, Tap, ConfirmCancel, RemoveShown
<1>9. QED
  BY <1>2, <1>3, <1>4, <1>5, <1>6, <1>7, <1>8 DEF Next

(* What the rest of the types, and the sales that are over, need             *)
LEMMA RestStep ==
    ASSUME TillInv, TypeInv, [Next]_vars
    PROVE  /\ late' \subseteq Requests /\ PaidInv' /\ SpentTypes'
           /\ Closed \subseteq Closed'
           /\ ~Reconnect => spent'.refetch = spent.refetch
           /\ Reconnect => spent'.refetch # 0
<1>1. /\ late' \subseteq Requests
  <2>1. CASE Reload
    <3>1. {req[k] : k \in {k \in Slots : Sent(k)}} \subseteq Requests
      BY DEF TypeInv, MailTypes, Sent
    <3>2. QED
      BY <2>1, <3>1 DEF Reload, TypeInv
  <2>2. CASE ~Reload
    <3>1. late' \subseteq late
      BY <2>2 DEF Next, Network, Serve, Fail, ServeLate, ServeList, Others, Elsewhere,
                  ChargedElsewhere, Cashier, RetryOpen, NewSale, Scan, Tap, AskToCancel,
                  KeepEditing, ConfirmCancel, Cobrar, Leave, Dismiss, Select, RemoveShown,
                  Confirm, Answers, Opened, OpenFailed, Found, Edited, Cancelled, Checked,
                  Charged, ChargeFailed, ListArrives, Failure, Effects, Resume, OpenFirst,
                  Reconnect, vars
    <3>2. QED
      BY <3>1 DEF TypeInv
  <2>3. QED
    BY <2>1, <2>2
<1>2. PaidInv' /\ Closed \subseteq Closed'
  <2>1. CASE UNCHANGED serverVars
    BY <2>1 DEF TypeInv, PaidInv, Closed, serverVars
  <2>2. ASSUME NEW k \in Slots, Serve(k)
        PROVE  PaidInv' /\ Closed \subseteq Closed'
    BY <2>2, ServeAnswers
  <2>3. ASSUME NEW m \in late, ServeLate(m)
        PROVE  PaidInv' /\ Closed \subseteq Closed'
    BY <2>1, <2>3, EffectMoves DEF ServeLate, TillInv, TypeInv, MailInv
  <2>4. ASSUME NEW s \in Sales, NEW do \in {"add", "cancel"},
               Elsewhere(Ask(do, s, None, None, None))
        PROVE  PaidInv' /\ Closed \subseteq Closed'
    <3>1. Good(Ask(do, s, None, None, None))
      BY AskIsGood
    <3>2. QED
      BY <2>4, <3>1, EffectMoves DEF Elsewhere, TillInv, TypeInv
  <2>5. ASSUME NEW s \in Sales, NEW payment \in Payments, ChargedElsewhere(s, payment)
        PROVE  PaidInv' /\ Closed \subseteq Closed'
    BY <2>5, ElsewhereMoves DEF TillInv, TypeInv
  <2>6. CASE Network \/ Others
    BY <2>1, <2>2, <2>3, <2>4, <2>5, <2>6 DEF Network, Fail, ServeList, Others
  <2>7. CASE Effects \/ Reconnect \/ Reload \/ UNCHANGED vars
    BY <2>1, <2>7 DEF Effects, Resume, OpenFirst, Reconnect, Reload, vars
  <2>8. CASE Cashier
    BY <2>1, <2>8 DEF Cashier, RetryOpen, NewSale, Scan, Tap, AskToCancel, KeepEditing,
                      ConfirmCancel, Cobrar, Leave, Dismiss, Select, RemoveShown, Confirm
  <2>9. CASE Answers
    BY <2>1, <2>9 DEF Answers, Opened, OpenFailed, Found, Edited, Cancelled, Checked, Charged,
                      ChargeFailed, ListArrives, Failure
  <2>10. QED
    BY <2>6, <2>7, <2>8, <2>9 DEF Next
<1>3. /\ SpentTypes'
      /\ ~Reconnect => spent'.refetch = spent.refetch
      /\ Reconnect => spent'.refetch # 0
  <2>0. SpentTypes
    BY DEF TypeInv
  <2>1. CASE spent' = spent /\ ~Reconnect
    BY <2>0, <2>1 DEF SpentTypes
  <2>2. CASE Reconnect
    BY <2>0, <2>2 DEF SpentTypes, Reconnect
  <2>3. CASE spent' = [spent EXCEPT !.elsewhere = @ + 1] \/ spent' = [spent EXCEPT !.reload = @ + 1]
    BY <2>0, <2>2, <2>3 DEF SpentTypes
  <2>4. CASE ~Reconnect
    BY <2>1, <2>3, <2>4 DEF Next, Network, Serve, Fail, ServeLate, ServeList, Others, Elsewhere,
                  ChargedElsewhere, Cashier, RetryOpen, NewSale, Scan, Tap, AskToCancel,
                  KeepEditing, ConfirmCancel, Cobrar, Leave, Dismiss, Select, RemoveShown,
                  Confirm, Answers, Opened, OpenFailed, Found, Edited, Cancelled, Checked,
                  Charged, ChargeFailed, ListArrives, Failure, Effects, Resume, OpenFirst,
                  Reload, vars
  <2>5. QED
    BY <2>2, <2>4
<1>4. QED
  BY <1>1, <1>2, <1>3

LEMMA TypeStep ==
    ASSUME TillInv, TypeInv, [Next]_vars
    PROVE  TypeInv'
BY MailStep, ScreenStep, RestStep DEF TypeInv

LEMMA TypeInit ==
    ASSUME Init
    PROVE  TypeInv
<1>1. ScreenTypes
  <2>1. Fetching \in [stage: {"none", "sent", "answered"}, got: Lists]
    BY ListsHaveIds DEF Fetching
  <2>2. drawn \in 0..LastKey
    BY Bounds DEF Init
  <2>3. QED
    BY <2>1, <2>2 DEF Init, ScreenTypes
<1>2. MailTypes /\ late \subseteq Requests /\ PaidInv /\ SpentTypes
  BY DEF Init, MailTypes, PaidInv, SpentTypes
<1>3. QED
  BY <1>1, <1>2 DEF TypeInv

(* Sales, screens and messages have their types (PosHomePage.tsx, and the    *)
(* sales and payments of the server).                                        *)
THEOREM TillHasTypes == Spec => []TypeOK
<1>1. Init => TillInv /\ TypeInv
  BY TillInit, TypeInit
<1>2. TillInv /\ TypeInv /\ [Next]_vars => (TillInv /\ TypeInv)'
  BY TillStep, TypeStep
<1>3. TillInv /\ TypeInv => TypeOK
  BY DEF TillInv, TypeInv, TypeOK, ServerInv, ScreenTypes, MailTypes, SpentTypes, Lists
<1>4. QED
  BY <1>1, <1>2, <1>3, PTL DEF Spec

-----------------------------------------------------------------------------
(* The carts that are shown *)

(* A request about a line names a sale the page has been shown, and a sale   *)
(* whose cancellation was answered is over.                                  *)
EditRight(m) ==
    m # None /\ m.do # "find" =>
        m.sale \in known /\ (m.stage = "answered" => m.got.id = m.sale)

CancelRight(m) == m # None /\ m.stage = "answered" => m.sale \in Closed

(* While the list is read nothing is shown and nothing asked for; after that *)
(* a sale that was shown is in the list, or over.                            *)
PageInv ==
    /\ listing # NoFetch =>
          drafts = None /\ active = None /\ known = {} /\ \A k \in Slots : req[k] = None
    /\ active # None => active.id \in known
    /\ EditRight(req["edit"])
    /\ CancelRight(req["cancel"])
    /\ \A s \in known : s \in Closed \/ s \in IdsOf(Listed)

FirstPageInv == spent.refetch = 0 => PageInv

(* A step that shows nothing new, and asks in accordance with what is shown. *)
Unseen ==
    /\ UNCHANGED <<drafts, active, listing, known>>
    /\ Closed \subseteq Closed'
    /\ \/ \A k \in Slots : req'[k] \in {req[k], None}
       \/ listing = NoFetch
    /\ EditRight(req'["edit"]) \/ req'["edit"] \in {req["edit"], None}
    /\ req'["cancel"] # None /\ req'["cancel"].stage = "answered"
          => req'["cancel"].sale \in Closed' \/ req'["cancel"] = req["cancel"]

LEMMA UnseenStep ==
    ASSUME PageInv, Unseen
    PROVE  PageInv'
<1>1. "edit" \in Slots /\ "cancel" \in Slots
  BY DEF Slots
<1>2. listing' # NoFetch =>
          drafts' = None /\ active' = None /\ known' = {} /\ \A k \in Slots : req'[k] = None
  BY DEF PageInv, Unseen
<1>3. active' # None => active'.id \in known'
  BY DEF PageInv, Unseen
<1>4. EditRight(req["edit"])'
  BY DEF PageInv, Unseen, EditRight
<1>5. CancelRight(req["cancel"])'
  BY DEF PageInv, Unseen, CancelRight
<1>6. Listed' = Listed
  BY DEF Unseen, Listed
<1>7. \A s \in known' : s \in Closed' \/ s \in IdsOf(Listed')
  BY <1>6 DEF PageInv, Unseen
<1>8. NoFetch' = NoFetch
  BY DEF NoFetch
<1>9. QED
  BY <1>2, <1>3, <1>4, <1>5, <1>7, <1>8 DEF PageInv

(* The steps of the network: what is answered is about the sale it was asked *)
(* for.                                                                      *)
LEMMA NetworkPage ==
    ASSUME TillInv, TypeInv, PageInv, Network, Closed \subseteq Closed'
    PROVE  PageInv'
<1>0. /\ MailTypes /\ "edit" \in Slots /\ "cancel" \in Slots
      /\ EditRight(req["edit"]) /\ CancelRight(req["cancel"])
  BY DEF TypeInv, PageInv, Slots
<1>1. ASSUME NEW k \in Slots, NEW r, Answered(k, r), req[k] # None,
             UNCHANGED <<drafts, active, listing, known>>
      PROVE  PageInv'
  <2>1. \A j \in Slots : req'[j] = IF j = k THEN r ELSE req[j]
    BY <1>0, <1>1, AnsweredTypes
  <2>2. listing = NoFetch
    BY <1>1 DEF PageInv
  <2>3. /\ r.do = req[k].do /\ r.sale = req[k].sale /\ Suits(k, r)
        /\ r.stage = "answered" =>
              /\ r.do \in {"add", "remove"} => r.got.id = r.sale
              /\ r.do = "cancel" => r.sale \in Closed'
    BY <1>1 DEF Answered
  <2>4. EditRight(req'["edit"])
    <3>1. CASE k = "edit"
      BY <1>0, <1>1, <2>1, <2>3, <3>1 DEF EditRight, Suits
    <3>2. CASE k # "edit"
      BY <1>0, <2>1, <3>2
    <3>3. QED
      BY <3>1, <3>2
  <2>5. req'["cancel"] # None /\ req'["cancel"].stage = "answered"
            => req'["cancel"].sale \in Closed' \/ req'["cancel"] = req["cancel"]
    BY <1>0, <1>1, <2>1, <2>3 DEF Suits
  <2>6. QED
    BY <1>1, <2>2, <2>4, <2>5, UnseenStep DEF Unseen
<1>2. CASE UNCHANGED <<drafts, active, req, known>> /\ listing' = listing
  BY <1>2, UnseenStep DEF Unseen
<1>3. CASE ServeList
  <2>1. UNCHANGED <<drafts, active, req, known>> /\ listing # NoFetch
    BY <1>3 DEF ServeList, pageVars, NoFetch
  <2>2. /\ EditRight(req["edit"])' /\ CancelRight(req["cancel"])'
        /\ Listed' = Listed /\ NoFetch' = NoFetch
    BY <1>0, <2>1 DEF EditRight, CancelRight, Listed, NoFetch
  <2>3. QED
    BY <2>1, <2>2 DEF PageInv
<1>4. ASSUME NEW k \in Slots, Serve(k)
      PROVE  PageInv'
  <2>1. UNCHANGED <<drafts, active, listing, known>> /\ req[k] # None
    BY <1>4 DEF Serve, Sent, pageVars
  <2>2. QED
    BY <1>1, <1>4, <2>1, ServeAnswers
<1>5. ASSUME NEW k \in Slots, NEW stage \in {"short", "failed"}, Fail(k, stage)
      PROVE  PageInv'
  <2>1. UNCHANGED <<drafts, active, listing, known>> /\ req[k] # None
    BY <1>5 DEF Fail, Sent, pageVars
  <2>2. QED
    BY <1>1, <1>5, <2>1, FailAnswers
<1>6. ASSUME NEW m \in late, ServeLate(m)
      PROVE  PageInv'
  BY <1>2, <1>6 DEF ServeLate, pageVars
<1>7. QED
  BY <1>3, <1>4, <1>5, <1>6 DEF Network

(* A request is sent from a screen that is loaded.                           *)
LEMMA SendPage ==
    ASSUME PageInv, MailTypes, NEW k \in Slots, NEW do, NEW sale, NEW line, NEW payment, NEW key,
           Send(k, Ask(do, sale, line, payment, key)),
           UNCHANGED <<drafts, active, listing, known>>, Closed \subseteq Closed',
           listing = NoFetch,
           k = "edit" => do = "find" \/ sale \in known
    PROVE  PageInv'
<1>1. PICK m : m = Ask(do, sale, line, payment, key)
  OBVIOUS
<1>2. m.do = do /\ m.sale = sale /\ m.stage = "sent"
  BY <1>1 DEF Ask
<1>3. \A j \in Slots : req'[j] = IF j = k THEN m ELSE req[j]
  BY <1>1 DEF Send, MailTypes
<1>4. "edit" \in Slots /\ "cancel" \in Slots
  BY DEF Slots
<1>5. EditRight(req'["edit"]) \/ req'["edit"] = req["edit"]
  BY <1>2, <1>3, <1>4 DEF EditRight
<1>6. req'["cancel"] = req["cancel"] \/ req'["cancel"].stage # "answered"
  BY <1>2, <1>3, <1>4
<1>7. QED
  BY <1>5, <1>6, UnseenStep DEF Unseen

LEMMA ClearPage ==
    ASSUME PageInv, MailTypes, NEW k \in Slots, Cleared(k),
           UNCHANGED <<drafts, active, listing, known>>, Closed \subseteq Closed'
    PROVE  PageInv'
<1>1. \A j \in Slots : req'[j] \in {req[j], None}
  BY ClearedTypes
<1>2. "edit" \in Slots /\ "cancel" \in Slots
  BY DEF Slots
<1>3. QED
  BY <1>1, <1>2, UnseenStep DEF Unseen

LEMMA CashierPage ==
    ASSUME TypeInv, PageInv, Cashier, Closed \subseteq Closed'
    PROVE  PageInv'
<1>0. /\ MailTypes /\ Slots = {"open", "edit", "cancel", "check", "charge"}
      /\ drafts # None => listing = NoFetch
      /\ active # None => listing = NoFetch /\ active.id \in known
  BY DEF TypeInv, PageInv, Slots
<1>1. CASE AskToCancel \/ KeepEditing \/ Leave \/ Dismiss
  BY <1>1, UnseenStep DEF AskToCancel, KeepEditing, Leave, Dismiss, Unseen
<1>2. CASE RetryOpen \/ NewSale
  BY <1>0, <1>2, SendPage DEF RetryOpen, NewSale, InCart, AtCounter
<1>3. CASE Scan
  BY <1>0, <1>3, SendPage DEF Scan, InCart, AtCounter, pageVars
<1>4. CASE Tap
  BY <1>0, <1>4, SendPage DEF Tap, InCart, pageVars
<1>5. CASE ConfirmCancel
  BY <1>0, <1>5, SendPage DEF ConfirmCancel, pageVars
<1>6. CASE Cobrar
  BY <1>0, <1>6, SendPage DEF Cobrar, InCart
<1>7. ASSUME NEW line \in Lines, RemoveShown(line)
      PROVE  PageInv'
  BY <1>0, <1>7, SendPage DEF RemoveShown, InCart, pageVars
<1>8. ASSUME NEW payment \in Payments, Confirm(payment)
      PROVE  PageInv'
  BY <1>0, <1>8, SendPage DEF Confirm, InCheckout
<1>9. ASSUME NEW i \in 1..LastSale, Select(i)
      PROVE  PageInv'
  <2>1. /\ drafts # None /\ i \in DOMAIN drafts /\ active' = drafts[i]
        /\ known' = known \cup {active'.id}
        /\ UNCHANGED <<status, drafts, listing, req>>
    BY <1>9 DEF Select, InCart, AtCounter, serverVars
  <2>2. active'.id \in IdsOf(Listed) /\ Listed' = Listed /\ NoFetch' = NoFetch
    BY <2>1 DEF IdsOf, Listed, NoFetch
  <2>3. EditRight(req["edit"])' /\ CancelRight(req["cancel"])'
    BY <2>1 DEF PageInv, EditRight, CancelRight, Closed
  <2>4. \A s \in known' : s \in Closed' \/ s \in IdsOf(Listed')
    BY <2>1, <2>2 DEF PageInv
  <2>5. listing' = NoFetch
    BY <1>0, <2>1
  <2>6. QED
    BY <2>1, <2>2, <2>3, <2>4, <2>5 DEF PageInv
<1>10. QED
  BY <1>1, <1>2, <1>3, <1>4, <1>5, <1>6, <1>7, <1>8, <1>9 DEF Cashier

(* A step that changes the list: what was shown stays in it, or is over, and *)
(* what is shown next is in it.                                              *)
LEMMA ShownPage ==
    ASSUME TypeInv, PageInv, Closed \subseteq Closed',
           \A k \in Slots : req'[k] \in {req[k], None},
           listing' = NoFetch,
           known \subseteq known',
           active' # None => active'.id \in known',
           \A s \in known' : s \in Closed' \/ s \in IdsOf(Listed')
    PROVE  PageInv'
<1>1. "edit" \in Slots /\ "cancel" \in Slots /\ NoFetch' = NoFetch
  BY DEF Slots, NoFetch
<1>2. EditRight(req["edit"])' /\ CancelRight(req["cancel"])'
  BY <1>1 DEF PageInv, EditRight, CancelRight
<1>3. QED
  BY <1>1, <1>2 DEF PageInv

LEMMA AnswersPage ==
    ASSUME TillInv, TypeInv, PageInv, Answers, Closed \subseteq Closed'
    PROVE  PageInv'
<1>0. /\ MailTypes /\ Slots = {"open", "edit", "cancel", "check", "charge"}
      /\ \A k \in Slots : req[k] # None => listing = NoFetch /\ Suits(k, req[k]) /\ Rightly(req[k])
      /\ active # None => listing = NoFetch /\ active.id \in known
      /\ \A s \in known : s \in Closed \/ s \in IdsOf(Listed)
      /\ Listed \in Lists
  BY ListsHaveIds DEF TypeInv, MailTypes, ScreenTypes, PageInv, Slots, Listed
<1>1. ASSUME NEW k \in Slots, Cleared(k)
      PROVE  \A j \in Slots : req'[j] \in {req[j], None}
  BY <1>0, <1>1, ClearedTypes
<1>2. CASE OpenFailed \/ Checked \/ ChargeFailed \/ \E k \in Slots : Failure(k)
  BY <1>0, <1>2, ClearPage DEF OpenFailed, Checked, ChargeFailed, Failure, pageVars
<1>3. CASE Found
  BY <1>0, <1>3, ClearPage, SendPage DEF Found, pageVars
<1>4. CASE Opened
  <2>1. req["open"] # None /\ req["open"].got \in Snapshots
    BY <1>0, <1>4 DEF Opened, Done, Suits, Rightly
  <2>2. /\ drafts' \in Lists /\ active' = req["open"].got
        /\ IdsOf(drafts') = IdsOf(Listed) \cup {active'.id}
    BY <1>0, <1>4, <2>1, JoinedKeeps DEF Opened
  <2>3. Listed' = drafts' /\ listing' = NoFetch
    BY <1>0, <1>4, <2>1, <2>2, ListsHaveIds DEF Opened, Listed
  <2>4. /\ \A k \in Slots : req'[k] \in {req[k], None}
        /\ known' = known \cup {active'.id}
    BY <1>0, <1>1, <1>4 DEF Opened
  <2>5. QED
    BY <1>0, <2>2, <2>3, <2>4, ShownPage
<1>5. CASE Edited
  <2>1. /\ req["edit"] # None /\ req["edit"].got \in Snapshots
        /\ req["edit"].got.id \in known
    BY <1>0, <1>5 DEF Edited, Done, Suits, Rightly, PageInv, EditRight
  <2>2. /\ drafts' \in Lists /\ active' = req["edit"].got
        /\ IdsOf(drafts') = IdsOf(Listed)
    BY <1>0, <1>5, <2>1, SyncedKeeps DEF Edited
  <2>3. Listed' = drafts' /\ listing' = NoFetch
    BY <1>0, <1>5, <2>1, <2>2, ListsHaveIds DEF Edited, Listed
  <2>4. /\ \A k \in Slots : req'[k] \in {req[k], None}
        /\ known' = known
    BY <1>0, <1>1, <1>5, <2>1, <2>2 DEF Edited
  <2>5. QED
    BY <1>0, <2>1, <2>2, <2>3, <2>4, ShownPage
<1>6. ASSUME NEW k \in Slots, NEW id \in Closed, req[k] # None, Cleared(k),
             drafts' = Without(id), active' = First(drafts'), listing' = listing,
             known' = known \cup IdsOf(drafts')
      PROVE  PageInv'
  <2>1. /\ drafts' \in Lists
        /\ \A s \in IdsOf(Listed) : s # id => s \in IdsOf(drafts')
    BY <1>0, <1>6, WithoutKeeps
  <2>2. Listed' = drafts' /\ listing' = NoFetch
    BY <1>0, <1>6, <2>1, ListsHaveIds DEF Listed
  <2>3. active' # None => active'.id \in IdsOf(drafts')
    BY <1>6, <2>1, FirstIsListed
  <2>4. \A j \in Slots : req'[j] \in {req[j], None}
    BY <1>1, <1>6
  <2>5. \A s \in known' : s \in Closed' \/ s \in IdsOf(Listed')
    BY <1>0, <1>6, <2>1, <2>2
  <2>6. QED
    BY <1>6, <2>2, <2>3, <2>4, <2>5, ShownPage
<1>7. CASE Cancelled
  <2>1. req["cancel"] # None /\ req["cancel"].sale \in Closed
    BY <1>0, <1>7 DEF Cancelled, Done, PageInv, CancelRight
  <2>2. QED
    BY <1>0, <1>6, <1>7, <2>1 DEF Cancelled
<1>8. CASE Charged
  <2>1. PICK s \in Sales : ReceiptOf(req["charge"].got, s)
    BY <1>8 DEF Charged, TillInv, AnswerInv
  <2>2. req["charge"] # None /\ req["charge"].got.id \in Closed
    BY <1>8, <2>1 DEF Charged, Done, ReceiptOf, Closed
  <2>3. QED
    BY <1>0, <1>6, <1>8, <2>2 DEF Charged
<1>9. CASE ListArrives
  <2>1. /\ listing # NoFetch /\ drafts' = listing.got /\ listing' = NoFetch
        /\ known' = known \cup IdsOf(drafts')
        /\ UNCHANGED <<active, req>>
    BY <1>9 DEF ListArrives, NoFetch
  <2>2. drafts' \in Lists /\ known = {} /\ active = None
    BY <2>1 DEF TypeInv, ScreenTypes, PageInv
  <2>3. Listed' = drafts'
    BY <2>2, ListsHaveIds DEF Listed
  <2>4. QED
    BY <2>1, <2>2, <2>3, ShownPage
<1>10. QED
  BY <1>2, <1>3, <1>4, <1>5, <1>7, <1>8, <1>9 DEF Answers

LEMMA EffectsPage ==
    ASSUME TypeInv, PageInv, Effects, Closed \subseteq Closed'
    PROVE  PageInv'
<1>0. /\ MailTypes /\ "open" \in Slots
      /\ drafts # None => listing = NoFetch
      /\ None # << >>
  BY ListsHaveIds DEF TypeInv, PageInv, Slots
<1>1. CASE Resume
  <2>1. drafts \in Lists /\ drafts # << >> /\ drafts # None
    BY <1>1 DEF Resume, TypeInv, ScreenTypes
  <2>2. active'.id \in IdsOf(drafts)
    BY <1>1, <2>1, FirstIsListed DEF Resume
  <2>3. Listed' = drafts /\ Listed = drafts
    BY <1>1, <2>1 DEF Resume, Listed
  <2>4. listing' = NoFetch /\ known' = known \cup {active'.id} /\ req' = req
    BY <1>0, <1>1, <2>1 DEF Resume
  <2>5. \A s \in known' : s \in Closed' \/ s \in IdsOf(Listed')
    BY <2>2, <2>3, <2>4 DEF PageInv
  <2>6. QED
    BY <2>4, <2>5, ShownPage
<1>2. CASE OpenFirst
  BY <1>0, <1>2, SendPage DEF OpenFirst, pageVars
<1>3. QED
  BY <1>1, <1>2 DEF Effects

LEMMA PageStep ==
    ASSUME TillInv, TypeInv, FirstPageInv, [Next]_vars
    PROVE  FirstPageInv'
<1> SUFFICES ASSUME spent'.refetch = 0
             PROVE  PageInv'
  BY DEF FirstPageInv
<1>1. PageInv /\ Closed \subseteq Closed' /\ ~Reconnect
  BY RestStep DEF FirstPageInv
<1>2. CASE Network
  BY <1>1, <1>2, NetworkPage
<1>3. CASE Others
  <2>1. UNCHANGED <<drafts, active, listing, known, req>>
    BY <1>3 DEF Others, Elsewhere, ChargedElsewhere, pageVars
  <2>2. QED
    BY <1>1, <2>1, UnseenStep DEF Unseen
<1>4. CASE Cashier
  BY <1>1, <1>4, CashierPage
<1>5. CASE Answers
  BY <1>1, <1>5, AnswersPage
<1>6. CASE Effects
  BY <1>1, <1>6, EffectsPage
<1>7. CASE Reload
  <2>1. "edit" \in Slots /\ "cancel" \in Slots
    BY DEF Slots
  <2>2. /\ drafts' = None /\ active' = None /\ known' = {}
        /\ \A k \in Slots : req'[k] = None
    BY <1>7 DEF Reload
  <2>3. QED
    BY <2>1, <2>2 DEF PageInv, EditRight, CancelRight
<1>8. CASE UNCHANGED vars
  BY <1>1, <1>8, UnseenStep DEF vars, pageVars, Unseen
<1>9. QED
  BY <1>1, <1>2, <1>3, <1>4, <1>5, <1>6, <1>7, <1>8 DEF Next

(* Whatever is opened, cancelled, charged, lost, answered late or done by    *)
(* another browser, no cart that was shown disappears from the screen while  *)
(* it is open, as long as the list is not read again (syncSale, closeSale    *)
(* and the cached list of open sales).                                       *)
THEOREM EveryCartStays == Spec => []CartsVisible
<1>1. Init => TillInv /\ TypeInv /\ FirstPageInv
  <2>1. ASSUME Init
        PROVE  FirstPageInv
    BY <2>1 DEF Init, FirstPageInv, PageInv, EditRight, CancelRight, Slots
  <2>2. QED
    BY <2>1, TillInit, TypeInit
<1>2. TillInv /\ TypeInv /\ FirstPageInv /\ [Next]_vars => (TillInv /\ TypeInv /\ FirstPageInv)'
  BY TillStep, TypeStep, PageStep
<1>3. TillInv /\ TypeInv /\ FirstPageInv => CartsVisible
  BY DEF FirstPageInv, PageInv, Closed, CartsVisible, EveryCartVisible
<1>4. QED
  BY <1>1, <1>2, <1>3, PTL DEF Spec
=============================================================================
