----------------------------- MODULE EntryProofs -----------------------------
(***************************************************************************)
(* Proofs about what is keyed in at the counter.                            *)
(*                                                                         *)
(* TillEntry.tla: what a line is added with was fixed when its article was   *)
(* taken, and the lookup, the prompt and the addition hand it on.            *)
(*                                                                         *)
(* Scanner.tla: what the hook has gathered is of one code, because a gun     *)
(* pauses before a code and not within it.                                  *)
(*                                                                         *)
(* Printing.tla: a surface has one job in the queue at most, and the text    *)
(* the server froze.                                                        *)
(*                                                                         *)
(* RefundEntry.tla: the two quantities of a return, but for what their       *)
(* comparison in floating point lets through.                               *)
(***************************************************************************)
EXTENDS TillEntry, Scanner, Printing, RefundEntry, SumFacts, TLAPS

-----------------------------------------------------------------------------
(* TillEntry: articles and lines *)

HasLine(a) == \E i \in DOMAIN lines : lines[i].article = a

TakenSoFar == 1..Len(articles)

\* A line, and a prompt, is of an article that was taken.
LinesAreOfArticles == \A i \in DOMAIN lines : lines[i].article \in TakenSoFar

PromptInv ==
    prompt # None =>
        /\ prompt.article \in TakenSoFar
        /\ prompt.surcharge = articles[prompt.article].surcharge
        /\ HasLine(prompt.article) => edit # None /\ edit.article = prompt.article
        /\ edit # None => edit.do = "add" /\ edit.article = prompt.article

\* A lookup leaves the surcharge where it was: it is read when it is answered.
EditInv ==
    edit # None =>
        /\ edit.article \in TakenSoFar
        /\ edit.do = "add" => edit.surcharge = articles[edit.article].surcharge
        /\ edit.do = "find" => surcharge = articles[edit.article].surcharge
        /\ HasLine(edit.article) => edit.do = "add" /\ edit.stage = "answered"

EntryInv ==
    /\ TypeOK
    /\ LinesAreOfArticles
    /\ PromptInv
    /\ EditInv
    /\ SurchargeAsAsked
    /\ OneLineEach

LEMMA EntryStarts == ASSUME TillEntryAssumption, Init PROVE EntryInv
<1>1. TypeOK
  <2>1. lines = << >> /\ articles = << >> /\ prompt = None /\ edit = None
    BY DEF Init
  <2>2. pending \in Quantities /\ wanted \in Quantities /\ surcharge \in BOOLEAN /\ searching \in BOOLEAN
    BY DEF Init, Quantities
  <2>3. QED
    BY <2>1, <2>2 DEF TypeOK
<1>2. LinesAreOfArticles /\ SurchargeAsAsked /\ OneLineEach
  BY DEF Init, LinesAreOfArticles, SurchargeAsAsked, OneLineEach
<1>3. QED
  BY <1>1, <1>2 DEF Init, EntryInv, PromptInv, EditInv

LEMMA EntryKeepsTypes ==
    ASSUME TillEntryAssumption, TypeOK, [Next]_vars
    PROVE  TypeOK'
<1>1. \A p \in Products : QuantityOf(p) \in Quantities \cup {"grams", "digits"}
  BY DEF TillEntryAssumption, TypeOK, QuantityOf, Quantities
<1>2. Len(articles) \in Nat
  BY DEF TypeOK
<1>. USE DEF TypeOK
<1>3. CASE UNCHANGED vars
  BY <1>3 DEF vars
<1>4. ASSUME NEW q \in Quantities, ChooseQuantity(q) PROVE TypeOK'
  BY <1>4 DEF ChooseQuantity
<1>5. CASE ToggleSurcharge
  BY <1>5 DEF ToggleSurcharge
<1>6. CASE OpenSearch \/ CloseSearch
  BY <1>6 DEF OpenSearch, CloseSearch
<1>7. ASSUME NEW p \in Products, Pick(p) PROVE TypeOK'
  <2>1. [product |-> p, quantity |-> QuantityOf(p), surcharge |-> surcharge] \in Articles
    BY <1>1 DEF Articles
  <2>2. Request("add", This, p, FALSE, pending, surcharge, FALSE) \in Edits
    BY <1>2 DEF Request, Edits, This
  <2>3. Prompt(This, p, FALSE) \in Prompts
    BY <1>2 DEF Prompt, Prompts, This
  <2>4. prompt' \in Prompts \cup {None} /\ edit' \in Edits \cup {None}
    BY <1>7, <2>2, <2>3 DEF Pick
  <2>5. articles' \in Seq(Articles)
    BY <1>7, <2>1 DEF Pick, Take
  <2>6. QED
    BY <1>7, <2>4, <2>5 DEF Pick, Take, Consumed, Quantities
<1>8. ASSUME NEW p \in Products, Scan(p) PROVE TypeOK'
  <2>1. [product |-> p, quantity |-> QuantityOf(p), surcharge |-> surcharge] \in Articles
    BY <1>1 DEF Articles
  <2>2. Request("find", This, p, TRUE, "1", FALSE, FALSE) \in Edits
    BY <1>2 DEF Request, Edits, This, Quantities
  <2>3. articles' \in Seq(Articles)
    BY <1>8, <2>1 DEF Scan, Take
  <2>4. QED
    BY <1>8, <2>2, <2>3 DEF Scan, Take, Quantities
<1>9. ASSUME NEW valid \in BOOLEAN, Type(valid) PROVE TypeOK'
  <2>1. prompt' \in Prompts
    BY <1>9 DEF Type, Prompts
  <2>2. QED
    BY <1>9, <2>1 DEF Type
<1>10. CASE ConfirmWeight \/ ConfirmPrice \/ ScanIntoWeight
  <2>1. prompt \in Prompts
    BY <1>10 DEF ConfirmWeight, ConfirmPrice, ScanIntoWeight
  <2>2. PICK quantity \in {"grams", "1", "digits"} : Add(quantity)
    BY <1>10 DEF ConfirmWeight, ConfirmPrice, ScanIntoWeight
  <2>3. edit' \in Edits
    BY <2>1, <2>2 DEF Add, Request, Prompts, Edits, Quantities
  <2>4. QED
    BY <1>10, <2>3 DEF ConfirmWeight, ConfirmPrice, ScanIntoWeight
<1>11. CASE CancelPrompt
  BY <1>11 DEF CancelPrompt
<1>12. CASE Serve
  <2>1. edit \in Edits
    BY <1>12 DEF Serve
  <2>2. edit' \in Edits
    BY <1>12, <2>1 DEF Serve, Edits
  <2>. DEFINE Known == [article: Nat, product: Products, surcharge: BOOLEAN,
                        quantity: Quantities \cup {"grams", "digits"}]
              new == [article |-> edit.article, product |-> edit.product, quantity |-> edit.quantity,
                      surcharge |-> edit.surcharge]
  <2>3. new \in Known
    BY <2>1 DEF Edits
  <2>4. lines' = lines \/ lines' = Append(lines, new)
    BY <1>12 DEF Serve
  <2>5. lines' \in Seq(Known)
    <3>. HIDE DEF Known, new
    <3>1. lines \in Seq(Known)
      BY DEF Known
    <3>2. Append(lines, new) \in Seq(Known)
      BY <2>3, <3>1
    <3>3. QED
      BY <2>4, <3>1, <3>2
  <2>6. QED
    BY <1>12, <2>2, <2>5 DEF Serve
<1>13. CASE Fail
  <2>1. edit' \in Edits
    BY <1>13 DEF Fail, Edits
  <2>2. QED
    BY <1>13, <2>1 DEF Fail
<1>14. CASE Found
  <2>1. edit \in Edits
    BY <1>14 DEF Found
  <2>2. /\ Prompt(edit.article, edit.product, TRUE) \in Prompts
        /\ Request("add", edit.article, edit.product, TRUE, pending, surcharge, FALSE) \in Edits
    BY <2>1 DEF Prompt, Prompts, Request, Edits
  <2>3. QED
    BY <1>14, <2>2 DEF Found, Quantities
<1>15. CASE Added
  BY <1>15 DEF Added
<1>16. CASE Failed
  BY <1>16 DEF Failed
<1>17. QED
  BY <1>3, <1>4, <1>5, <1>6, <1>7, <1>8, <1>9, <1>10, <1>11, <1>12, <1>13, <1>14, <1>15, <1>16 DEF Next

\* Articles are only added.
LEMMA ArticlesStay ==
    ASSUME TypeOK, NEW p \in Products, Take(p)
    PROVE  /\ Len(articles') = This
           /\ This \in Nat
           /\ articles'[This] = [product |-> p, quantity |-> QuantityOf(p), surcharge |-> surcharge]
           /\ \A a \in TakenSoFar : a \in TakenSoFar' /\ articles'[a] = articles[a]
           /\ This \in TakenSoFar' /\ This \notin TakenSoFar
<1>1. articles \in Seq(Articles) /\ Len(articles) \in Nat
  BY DEF TypeOK
<1>2. articles' = Append(articles, [product |-> p, quantity |-> QuantityOf(p), surcharge |-> surcharge])
  BY DEF Take
<1>3. QED
  BY <1>1, <1>2 DEF This, TakenSoFar

LEMMA EntryStep ==
    ASSUME TillEntryAssumption, EntryInv, [Next]_vars
    PROVE  EntryInv'
<1>1. TypeOK'
  BY EntryKeepsTypes DEF EntryInv
<1>. DEFINE Facts == LinesAreOfArticles /\ PromptInv /\ EditInv /\ SurchargeAsAsked /\ OneLineEach
<1>2. SUFFICES Facts'
  BY <1>1 DEF EntryInv
<1>3. Facts
  BY DEF EntryInv
<1>. USE DEF LinesAreOfArticles, PromptInv, EditInv, SurchargeAsAsked, OneLineEach, HasLine, Of, TakenSoFar
<1>4. CASE UNCHANGED <<lines, articles, prompt, edit, surcharge>>
  BY <1>3, <1>4
<1>5. CASE ToggleSurcharge
  BY <1>3, <1>5 DEF ToggleSurcharge, SurchargeEnabled, Busy
<1>6. ASSUME NEW p \in Products, Pick(p) PROVE Facts'
  <2>. USE DEF EntryInv
  <2>1. edit = None /\ prompt = None /\ Take(p) /\ lines' = lines
    BY <1>6 DEF Pick, Busy
  <2>2. LinesAreOfArticles' /\ SurchargeAsAsked' /\ OneLineEach'
    BY <1>3, <2>1, ArticlesStay
  <2>3. \A i \in DOMAIN lines : lines[i].article # This
    BY <1>3, <2>1, ArticlesStay
  <2>4. \/ /\ edit' = Request("add", This, p, FALSE, pending, surcharge, FALSE)
           /\ prompt' = None
        \/ /\ prompt' = Prompt(This, p, FALSE)
           /\ edit' = None
    BY <1>6, <2>1 DEF Pick
  <2>5. This \in 1..Len(articles') /\ articles'[This].surcharge = surcharge
    <3>. HIDE DEF LinesAreOfArticles, PromptInv, EditInv, SurchargeAsAsked, OneLineEach, HasLine, Of, TakenSoFar
    <3>1. /\ This \in TakenSoFar'
          /\ articles'[This] = [product |-> p, quantity |-> QuantityOf(p), surcharge |-> surcharge]
      BY <2>1, ArticlesStay
    <3>2. QED
      BY <3>1 DEF TakenSoFar
  <2>6. PromptInv' /\ EditInv'
    BY <2>1, <2>3, <2>4, <2>5 DEF Request, Prompt
  <2>7. QED
    BY <2>2, <2>6
<1>7. ASSUME NEW p \in Products, Scan(p) PROVE Facts'
  <2>. USE DEF EntryInv
  <2>1. edit = None /\ prompt = None /\ Take(p) /\ lines' = lines /\ prompt' = None
    BY <1>7 DEF Scan, AtGrid, Busy
  <2>2. LinesAreOfArticles' /\ SurchargeAsAsked' /\ OneLineEach'
    BY <1>3, <2>1, ArticlesStay
  <2>3. \A i \in DOMAIN lines : lines[i].article # This
    BY <1>3, <2>1, ArticlesStay
  <2>4. edit' = Request("find", This, p, TRUE, "1", FALSE, FALSE) /\ surcharge' = surcharge
    BY <1>7 DEF Scan
  <2>5. This \in 1..Len(articles') /\ articles'[This].surcharge = surcharge
    <3>. HIDE DEF LinesAreOfArticles, PromptInv, EditInv, SurchargeAsAsked, OneLineEach, HasLine, Of, TakenSoFar
    <3>1. /\ This \in TakenSoFar'
          /\ articles'[This] = [product |-> p, quantity |-> QuantityOf(p), surcharge |-> surcharge]
      BY <2>1, ArticlesStay
    <3>2. QED
      BY <3>1 DEF TakenSoFar
  <2>6. PromptInv' /\ EditInv'
    BY <2>1, <2>3, <2>4, <2>5 DEF Request
  <2>7. QED
    BY <2>2, <2>6
<1>8. ASSUME NEW valid \in BOOLEAN, Type(valid) PROVE Facts'
  <2>1. prompt \in Prompts
    BY <1>8 DEF Type, EntryInv, TypeOK
  <2>2. prompt'.article = prompt.article /\ prompt'.surcharge = prompt.surcharge
    BY <1>8, <2>1 DEF Type, Prompts
  <2>3. UNCHANGED <<lines, articles, edit, surcharge>> /\ prompt # None
    BY <1>8 DEF Type
  <2>4. QED
    BY <1>3, <2>2, <2>3
<1>9. CASE ConfirmWeight \/ ConfirmPrice \/ ScanIntoWeight
  <2>1. UNCHANGED <<lines, articles, prompt, surcharge>> /\ prompt # None /\ edit = None
    BY <1>9 DEF ConfirmWeight, ConfirmPrice, ScanIntoWeight, CanConfirm, Busy
  <2>2. PICK quantity \in {"grams", "1", "digits"} : Add(quantity)
    BY <1>9 DEF ConfirmWeight, ConfirmPrice, ScanIntoWeight
  <2>3. QED
    BY <1>3, <2>1, <2>2 DEF Add, Request
<1>10. CASE CancelPrompt
  BY <1>3, <1>10 DEF CancelPrompt
<1>11. CASE Serve
  <2>1. edit \in Edits /\ edit # None /\ edit.stage = "sent"
    BY <1>11 DEF Serve, EntryInv, TypeOK
  <2>2. /\ edit' = [edit EXCEPT !.stage = "answered"]
        /\ UNCHANGED <<articles, prompt, surcharge>>
    BY <1>11 DEF Serve
  <2>3. /\ edit'.do = edit.do /\ edit'.article = edit.article
        /\ edit'.surcharge = edit.surcharge /\ edit'.stage = "answered"
        /\ edit' # None
    BY <2>1, <2>2 DEF Edits, TillEntryAssumption
  <2>4. ~HasLine(edit.article)
    BY <1>3, <2>1
  <2>5. CASE edit.do = "find" /\ lines' = lines
    BY <1>3, <2>1, <2>2, <2>3, <2>5
  <2>6. CASE edit.do = "add" /\ lines' # lines
    <3>. DEFINE new == [article |-> edit.article, product |-> edit.product,
                        quantity |-> edit.quantity, surcharge |-> edit.surcharge]
    <3>1. lines' = Append(lines, new)
      BY <1>11, <2>6 DEF Serve
    <3>2. /\ DOMAIN lines' = 1..(Len(lines) + 1) /\ DOMAIN lines = 1..Len(lines) /\ Len(lines) \in Nat
          /\ \A i \in DOMAIN lines : lines'[i] = lines[i]
          /\ lines'[Len(lines) + 1] = new
      <4>. HIDE DEF new
      <4>. QED
        BY <3>1 DEF EntryInv, TypeOK
    <3>3. /\ new.article = edit.article /\ new.surcharge = edit.surcharge
          /\ edit.surcharge = articles[edit.article].surcharge /\ edit.article \in TakenSoFar
      BY <1>3, <2>1, <2>6
    <3>. HIDE DEF new
    <3>4. \A i \in DOMAIN lines' : i \in DOMAIN lines \/ i = Len(lines) + 1
      <4>1. \A i \in 1..(Len(lines) + 1) : i \in 1..Len(lines) \/ i = Len(lines) + 1
        BY <3>2
      <4>2. QED
        BY <3>2, <4>1
    <3>5. LinesAreOfArticles' /\ SurchargeAsAsked'
      BY <1>3, <2>2, <3>2, <3>3, <3>4
    <3>6. OneLineEach'
      BY <1>3, <2>4, <3>2, <3>3, <3>4
    <3>7. PromptInv'
      BY <1>3, <2>1, <2>2, <2>3
    <3>8. EditInv'
      BY <1>3, <2>1, <2>2, <2>3, <2>6
    <3>9. QED
      BY <3>5, <3>6, <3>7, <3>8
  <2>7. CASE edit.do = "add" /\ lines' = lines
    BY <1>3, <2>1, <2>2, <2>3, <2>7
  <2>8. QED
    BY <1>11, <2>5, <2>6, <2>7 DEF Serve
<1>12. CASE Fail
  <2>1. edit \in Edits /\ edit # None /\ edit.stage = "sent"
    BY <1>12 DEF Fail, EntryInv, TypeOK
  <2>2. /\ edit' = [edit EXCEPT !.stage = "failed"]
        /\ UNCHANGED <<lines, articles, prompt, surcharge>>
    BY <1>12 DEF Fail
  <2>3. /\ edit'.do = edit.do /\ edit'.article = edit.article
        /\ edit'.surcharge = edit.surcharge
        /\ edit' # None
    BY <2>1, <2>2 DEF Edits, TillEntryAssumption
  <2>4. QED
    BY <1>3, <2>1, <2>2, <2>3
<1>13. CASE Found
  <2>1. /\ edit # None /\ edit.do = "find" /\ prompt = None
        /\ UNCHANGED <<lines, articles>>
        /\ edit.article \in TakenSoFar /\ surcharge = articles[edit.article].surcharge
        /\ ~HasLine(edit.article)
    BY <1>3, <1>13 DEF Found
  <2>2. \/ prompt' = Prompt(edit.article, edit.product, TRUE) /\ edit' = None
        \/ /\ edit' = Request("add", edit.article, edit.product, TRUE, pending, surcharge, FALSE)
           /\ prompt' = None
    BY <1>13, <2>1 DEF Found
  <2>3. QED
    BY <1>3, <2>1, <2>2 DEF Prompt, Request
<1>14. CASE Added
  BY <1>3, <1>14 DEF Added
<1>15. CASE Failed
  BY <1>3, <1>15 DEF Failed
<1>16. QED
  BY <1>4, <1>5, <1>6, <1>7, <1>8, <1>9, <1>10, <1>11, <1>12, <1>13, <1>14, <1>15
     DEF Next, vars, ChooseQuantity, OpenSearch, CloseSearch

(* Of whoever counts articles and lines, in whatever order things are        *)
(* touched and answers come.                                                *)
LEMMA EntryInvHolds == ASSUME TillEntryAssumption PROVE Spec => []EntryInv
<1>1. QED
  BY EntryStarts, EntryStep, PTL DEF Spec

(* Prompts, requests and lines have their types (PosHomePage).              *)
THEOREM EntryHasTypes == ASSUME TillEntryAssumption PROVE Spec => []TypeOK
<1>1. EntryInv => TypeOK
  BY DEF EntryInv
<1>2. QED
  BY <1>1, EntryInvHolds, PTL

(* A line carries the surcharge that was down when its article was taken,    *)
(* and one article is one line, however hasty the cashier is and wherever    *)
(* the gun is pointed (PosHomePage).                                        *)
THEOREM LinesAreAsTaken ==
    ASSUME TillEntryAssumption
    PROVE  Spec => [](SurchargeAsAsked /\ OneLineEach)
<1>1. EntryInv => SurchargeAsAsked /\ OneLineEach
  BY DEF EntryInv
<1>2. QED
  BY <1>1, EntryInvHolds, PTL

-----------------------------------------------------------------------------
(* TillEntry: the multiplier *)

\* The quantity of an article taken when the multiplier chosen was this one.
Meant(p, chosen) ==
    CASE Kind[p] = "unit" -> chosen [] Kind[p] = "weight" -> "grams" [] Kind[p] = "open" -> "1"

LookedUp == edit # None /\ edit.do = "find"

\* The server adds it: an open price is entered, and no other.
Acceptable == Kind[edit.product] = "open" <=> edit.priced

QuantityInv ==
    /\ ~LookedUp => pending = wanted
    /\ LookedUp =>
          /\ wanted = "1"
          /\ articles[edit.article].quantity = Meant(edit.product, pending)
    /\ edit # None /\ edit.do = "add" /\ Acceptable => edit.quantity = articles[edit.article].quantity
    /\ prompt # None =>
          /\ Kind[prompt.product] # "unit"
          /\ articles[prompt.article].quantity = Meant(prompt.product, "1")
    /\ AddedAsAsked

LEMMA QuantityStarts == ASSUME Init PROVE QuantityInv
BY DEF Init, QuantityInv, LookedUp, AddedAsAsked

LEMMA QuantityStep ==
    ASSUME TillEntryAssumption, Patient, ~GunAtHand, EntryInv, EntryInv', QuantityInv, [Next]_vars
    PROVE  QuantityInv'
<1>. USE DEF QuantityInv, LookedUp, Acceptable, AddedAsAsked, Of
<1>1. /\ prompt # None => prompt \in Prompts /\ prompt.article \in TakenSoFar /\ Kind[prompt.product] \in {"unit", "weight", "open"}
      /\ edit # None => edit \in Edits /\ edit.article \in TakenSoFar /\ Kind[edit.product] \in {"unit", "weight", "open"}
                        /\ edit.do \in {"add", "find"}
      /\ \A i \in DOMAIN lines : lines[i].article \in TakenSoFar
      /\ prompt # None /\ edit # None => edit.do = "add"
  BY DEF EntryInv, PromptInv, EditInv, LinesAreOfArticles, TypeOK, Prompts, Edits, TillEntryAssumption
<1>2. CASE UNCHANGED <<lines, articles, prompt, edit, pending, wanted>>
  BY <1>2
<1>3. ASSUME NEW q \in Quantities, ChooseQuantity(q) PROVE QuantityInv'
  BY <1>3 DEF ChooseQuantity, Busy
<1>4. ASSUME NEW p \in Products, Pick(p) PROVE QuantityInv'
  <2>1. edit = None /\ prompt = None /\ Take(p) /\ lines' = lines /\ pending = wanted
    BY <1>4 DEF Pick, Busy
  <2>2. pending' = "1" /\ wanted' = "1"
    BY <1>4 DEF Pick, Take, Consumed
  <2>3. \/ /\ edit' = Request("add", This, p, FALSE, pending, surcharge, FALSE)
           /\ prompt' = None
           /\ Kind[p] = "unit"
        \/ /\ prompt' = Prompt(This, p, FALSE)
           /\ edit' = None
           /\ Kind[p] # "unit"
    BY <1>4, <2>1 DEF Pick
  <2>4. Kind[p] \in {"unit", "weight", "open"}
    BY DEF TillEntryAssumption
  <2>5. /\ articles'[This].quantity = Meant(p, pending)
        /\ \A a \in TakenSoFar : articles'[a] = articles[a]
    <3>1. /\ articles'[This] = [product |-> p, quantity |-> QuantityOf(p), surcharge |-> surcharge]
          /\ \A a \in TakenSoFar : articles'[a] = articles[a]
      BY <2>1, ArticlesStay DEF EntryInv
    <3>2. Kind[p] \in {"unit", "weight", "open"}
      BY DEF TillEntryAssumption
    <3>3. QuantityOf(p) = Meant(p, pending)
      BY <2>1, <3>2 DEF QuantityOf, Meant
    <3>4. articles'[This].quantity = QuantityOf(p)
      BY <3>1
    <3>5. QED
      BY <3>1, <3>3, <3>4
  <2>6. AddedAsAsked'
    BY <1>1, <2>1, <2>5
  <2>7. CASE Kind[p] = "unit"
    BY <2>1, <2>2, <2>3, <2>5, <2>6, <2>7 DEF Request, Meant
  <2>8. CASE Kind[p] # "unit"
    <3>1. articles'[This].quantity = IF Kind[p] = "weight" THEN "grams" ELSE "1"
      BY <2>4, <2>5, <2>8 DEF Meant
    <3>2. /\ prompt'.article = This /\ prompt'.product = p /\ edit' = None
      <4>1. prompt' = Prompt(This, p, FALSE) /\ edit' = None
        BY <2>3, <2>8
      <4>2. QED
        BY <4>1 DEF Prompt
    <3>3. prompt' # None => Kind[prompt'.product] # "unit" /\ articles'[prompt'.article].quantity = Meant(prompt'.product, "1")
      BY <2>4, <2>8, <3>1, <3>2 DEF Meant
    <3>4. QED
      BY <2>2, <2>6, <3>2, <3>3 DEF Meant
  <2>9. QED
    BY <2>7, <2>8
<1>5. ASSUME NEW p \in Products, Scan(p) PROVE QuantityInv'
  <2>1. edit = None /\ prompt = None /\ Take(p) /\ lines' = lines /\ prompt' = None /\ pending' = pending
    BY <1>5 DEF Scan, AtGrid, Busy
  <2>2. pending = wanted /\ wanted' = "1" /\ edit' = Request("find", This, p, TRUE, "1", FALSE, FALSE)
    BY <1>5, <2>1 DEF Scan, Take
  <2>3. /\ articles'[This].quantity = Meant(p, pending)
        /\ \A a \in TakenSoFar : articles'[a] = articles[a]
    <3>1. /\ articles'[This] = [product |-> p, quantity |-> QuantityOf(p), surcharge |-> surcharge]
          /\ \A a \in TakenSoFar : articles'[a] = articles[a]
      BY <2>1, ArticlesStay DEF EntryInv
    <3>2. Kind[p] \in {"unit", "weight", "open"}
      BY DEF TillEntryAssumption
    <3>3. QuantityOf(p) = Meant(p, pending)
      BY <2>2, <3>2 DEF QuantityOf, Meant
    <3>4. articles'[This].quantity = QuantityOf(p)
      BY <3>1
    <3>5. QED
      BY <3>1, <3>3, <3>4
  <2>4. AddedAsAsked'
    BY <1>1, <2>1, <2>3
  <2>5. QED
    <3>1. edit'.do = "find" /\ edit'.article = This /\ edit'.product = p /\ prompt' = None
      BY <2>1, <2>2 DEF Request
    <3>2. articles'[edit'.article].quantity = Meant(edit'.product, pending')
      BY <2>1, <2>3, <3>1 DEF Meant
    <3>3. edit' # None
      <4>1. This \in Nat
        BY <2>1, ArticlesStay DEF EntryInv
      <4>2. Request("find", This, p, TRUE, "1", FALSE, FALSE) \in Edits
        BY <4>1 DEF Request, Edits, Quantities
      <4>3. QED
        BY <2>2, <4>2 DEF TillEntryAssumption
    <3>4. QED
      BY <2>2, <2>4, <3>1, <3>2, <3>3 DEF Meant
<1>6. ASSUME NEW valid \in BOOLEAN, Type(valid) PROVE QuantityInv'
  <2>1. /\ prompt'.article = prompt.article /\ prompt'.product = prompt.product /\ prompt # None
        /\ UNCHANGED <<lines, articles, edit, pending, wanted>>
    BY <1>1, <1>6 DEF Type, Prompts
  <2>2. QED
    BY <2>1
<1>7. CASE ConfirmWeight \/ ConfirmPrice
  <2>1. /\ UNCHANGED <<lines, articles, prompt, pending, wanted>> /\ prompt # None /\ edit = None
        /\ \/ Kind[prompt.product] = "weight" /\ Add("grams")
           \/ Kind[prompt.product] = "open" /\ Add("1")
    BY <1>7 DEF ConfirmWeight, ConfirmPrice, CanConfirm, Busy
  <2>2. QED
    BY <2>1 DEF Add, Request, Meant
<1>8. CASE CancelPrompt
  BY <1>8 DEF CancelPrompt
<1>9. CASE Serve \/ Fail
  <2>1. /\ edit # None
        /\ edit'.do = edit.do /\ edit'.article = edit.article /\ edit'.product = edit.product
        /\ edit'.quantity = edit.quantity /\ edit'.priced = edit.priced
        /\ UNCHANGED <<articles, prompt, pending, wanted>>
        /\ edit' # None
    BY <1>1, <1>9 DEF Serve, Fail, Edits, TillEntryAssumption
  <2>2. CASE lines' = lines
    BY <2>1, <2>2 DEF Meant
  <2>3. CASE lines' # lines
    <3>. DEFINE new == [article |-> edit.article, product |-> edit.product,
                        quantity |-> edit.quantity, surcharge |-> edit.surcharge]
    <3>1. lines' = Append(lines, new) /\ edit.do = "add" /\ Acceptable
      BY <1>9, <2>3 DEF Serve, Fail
    <3>2. /\ DOMAIN lines' = 1..(Len(lines) + 1) /\ DOMAIN lines = 1..Len(lines) /\ Len(lines) \in Nat
          /\ \A i \in DOMAIN lines : lines'[i] = lines[i]
          /\ lines'[Len(lines) + 1] = new
      <4>. HIDE DEF new
      <4>. QED
        BY <3>1 DEF EntryInv, TypeOK
    <3>3. new.article = edit.article /\ new.quantity = articles[edit.article].quantity
      BY <2>1, <3>1
    <3>. HIDE DEF new
    <3>4. \A i \in DOMAIN lines' : i \in DOMAIN lines \/ i = Len(lines) + 1
      <4>1. \A i \in 1..(Len(lines) + 1) : i \in 1..Len(lines) \/ i = Len(lines) + 1
        BY <3>2
      <4>2. QED
        BY <3>2, <4>1
    <3>5. AddedAsAsked'
      BY <2>1, <3>2, <3>3, <3>4
    <3>6. QED
      BY <2>1, <3>1, <3>5
  <2>4. QED
    BY <2>2, <2>3
<1>10. CASE Found
  <2>1. /\ edit # None /\ edit.do = "find" /\ prompt = None
        /\ UNCHANGED <<lines, articles, wanted>> /\ pending' = "1" /\ wanted = "1"
    BY <1>1, <1>10 DEF Found
  <2>2. CASE Kind[edit.product] = "weight"
    BY <1>10, <2>1, <2>2 DEF Found, Prompt, Meant
  <2>3. CASE Kind[edit.product] # "weight"
    <3>1. /\ edit' = Request("add", edit.article, edit.product, TRUE, pending, surcharge, FALSE)
          /\ prompt' = None
      BY <1>10, <2>1, <2>3 DEF Found
    <3>2. articles[edit.article].quantity = Meant(edit.product, pending)
      BY <2>1
    <3>3. QED
      BY <1>1, <2>1, <2>3, <3>1, <3>2 DEF Request, Meant
  <2>4. QED
    BY <2>2, <2>3
<1>11. CASE Added
  BY <1>11 DEF Added
<1>12. CASE Failed
  BY <1>12 DEF Failed
<1>13. QED
  BY <1>2, <1>3, <1>4, <1>5, <1>6, <1>7, <1>8, <1>9, <1>10, <1>11, <1>12
     DEF Next, vars, OpenSearch, CloseSearch, ToggleSurcharge, ScanIntoWeight

(* "es para el siguiente producto": a line has the quantity that was chosen  *)
(* before its article was taken, if the cashier leaves the multiplier alone  *)
(* while a code is looked up, and a scanner the prompt of a weight           *)
(* (PosHomePage).                                                           *)
THEOREM QuantitiesAreAsTaken ==
    ASSUME TillEntryAssumption, Patient, ~GunAtHand
    PROVE  Spec => []AddedAsAsked
<1>1. QuantityInv => AddedAsAsked
  BY DEF QuantityInv
<1>2. QED
  BY <1>1, QuantityStarts, QuantityStep, EntryInvHolds, PTL DEF Spec

-----------------------------------------------------------------------------
(* Scanner: keys and timers *)

HeardKeys == {HandKey} \cup ((1..Scans) \X (1..CodeLength))

LEMMA ScannerStarts == ASSUME ScannerAssumption, ScannerInit PROVE ScannerTypeOK
<1>1. buffer = << >> /\ delivered = << >>
  BY DEF ScannerInit
<1>2. typed \in (1..(Scans + 1)) \X (0..CodeLength)
  BY DEF ScannerInit, ScannerAssumption
<1>3. QED
  BY <1>1, <1>2 DEF ScannerInit, ScannerTypeOK, ScannerAssumption, IDLE_FLUSH

\* How far the gun is, after a key and after the end of a code.
LEMMA GunMoves ==
    ASSUME ScannerAssumption, typed \in (1..(Scans + 1)) \X (0..CodeLength)
    PROVE  /\ typed = <<typed[1], typed[2]>>
           /\ typed[1] \in 1..(Scans + 1) /\ typed[2] \in 0..CodeLength
           /\ [typed EXCEPT ![2] = @ + 1] = <<typed[1], typed[2] + 1>>
<1>1. PICK a \in 1..(Scans + 1), b \in 0..CodeLength : typed = <<a, b>>
  OBVIOUS
<1>2. QED
  BY <1>1

LEMMA FlushKeepsTypes ==
    ASSUME NEW keys \in Seq(HeardKeys), delivered \in Seq(Seq(HeardKeys)), Flush(keys)
    PROVE  buffer' \in Seq(HeardKeys) /\ delivered' \in Seq(Seq(HeardKeys)) /\ idle' = 0
BY DEF Flush

LEMMA KeptIsHeard ==
    ASSUME buffer \in Seq(HeardKeys)
    PROVE  Kept \in Seq(HeardKeys)
BY DEF Kept

LEMMA ScannerKeepsTypes ==
    ASSUME ScannerAssumption, ScannerTypeOK, [ScannerNext]_scannerVars
    PROVE  ScannerTypeOK'
<1>1. /\ buffer \in Seq(HeardKeys) /\ delivered \in Seq(Seq(HeardKeys))
      /\ typed[1] \in 1..(Scans + 1) /\ typed[2] \in 0..CodeLength
  BY GunMoves DEF ScannerTypeOK, HeardKeys
<1>. DEFINE Heard == buffer' \in Seq(HeardKeys) /\ delivered' \in Seq(Seq(HeardKeys)) /\ idle' \in 0..IDLE_FLUSH
                     /\ since' \in 0..(IDLE_FLUSH + 1)
            Others == /\ enabled' \in BOOLEAN
                      /\ typed' \in (1..(Scans + 1)) \X (0..CodeLength)
                      /\ gunIdle' \in 0..(IDLE_FLUSH + 1)
                      /\ hand' \in 0..LastHandKey
                      /\ toggles' \in 0..LastToggle
<1>2. SUFFICES Heard /\ Others
  BY DEF ScannerTypeOK, HeardKeys
<1>3. CASE UNCHANGED scannerVars
  BY <1>1, <1>3 DEF ScannerTypeOK, scannerVars
<1>4. Unheard => Heard
  BY <1>1 DEF Unheard, ScannerTypeOK
<1>5. ASSUME NEW key \in HeardKeys, Press(key) PROVE Heard
  BY <1>1, <1>5, KeptIsHeard DEF Press, IDLE_FLUSH
<1>6. Terminator => Heard
  BY <1>1, KeptIsHeard, FlushKeepsTypes DEF Terminator, IDLE_FLUSH
<1>7. HandKey \in HeardKeys /\ (typed[1] <= Scans /\ typed[2] < CodeLength => Code(typed[1])[typed[2] + 1] \in HeardKeys)
  BY <1>1, SMTT(30) DEF HeardKeys, Code, ScannerAssumption
<1>8. CASE GunKey
  <2>1. typed' = <<typed[1], typed[2] + 1>>
    BY <1>8, GunMoves DEF GunKey, ScannerTypeOK
  <2>2. Others
    BY <1>1, <1>8, <2>1 DEF GunKey, ScannerTypeOK, ScannerAssumption, IDLE_FLUSH
  <2>3. QED
    BY <1>4, <1>5, <1>7, <1>8, <2>2 DEF GunKey
<1>9. CASE GunEnd
  <2>1. Others
    BY <1>1, <1>9 DEF GunEnd, ScannerTypeOK, ScannerAssumption, IDLE_FLUSH
  <2>2. QED
    BY <1>4, <1>6, <1>9, <2>1 DEF GunEnd
<1>10. CASE HandPress
  <2>1. Others
    BY <1>10, SMTT(30) DEF HandPress, ScannerTypeOK, ScannerAssumption
  <2>2. QED
    BY <1>4, <1>5, <1>6, <1>7, <1>10, <2>1 DEF HandPress
<1>11. CASE Tick
  <2>1. Others /\ since' \in 0..(IDLE_FLUSH + 1)
    BY <1>11 DEF Tick, ScannerTypeOK, UpTo, IDLE_FLUSH
  <2>2. CASE idle = 1
    BY <1>1, <1>11, <2>1, <2>2, FlushKeepsTypes DEF Tick, IDLE_FLUSH
  <2>3. CASE idle # 1
    BY <1>1, <1>11, <2>1, <2>3, SMTT(30) DEF Tick, ScannerTypeOK, IDLE_FLUSH
  <2>4. QED
    BY <2>2, <2>3
<1>12. CASE Toggle
  BY <1>1, <1>12 DEF Toggle, ScannerTypeOK, ScannerAssumption, IDLE_FLUSH
<1>13. QED
  BY <1>3, <1>8, <1>9, <1>10, <1>11, <1>12 DEF ScannerNext

-----------------------------------------------------------------------------
(* Scanner: what has been gathered is of one code *)

OfScan(s, keys) == \A i \in DOMAIN keys : keys[i][1] = s

Untold(s) == \A i \in DOMAIN delivered : delivered[i][1][1] # s

\* Within a code the hook and the gun count the same time.
Together == since = gunIdle /\ since <= MAX_GAP /\ idle = IDLE_FLUSH - since

GatherInv ==
    /\ ~enabled => buffer = << >>
    /\ MidCode /\ buffer # << >> => Together /\ OfScan(typed[1], buffer)
    /\ ~MidCode =>
          \/ Len(buffer) < MIN_LENGTH
          \/ \E s \in 1..(typed[1] - 1) : OfScan(s, buffer) /\ Untold(s)
    /\ \A i \in DOMAIN delivered : delivered[i][1][1] \in 0..(typed[1] - 1)
    /\ \A i, j \in DOMAIN delivered : delivered[i][1][1] = delivered[j][1][1] => i = j

LEMMA GatherStarts == ASSUME ScannerInit PROVE GatherInv
BY DEF ScannerInit, GatherInv, MidCode, MIN_LENGTH

\* The keys of a code nobody was told about are given to the screen.
LEMMA FlushTellsOnce ==
    ASSUME NEW keys \in Seq(HeardKeys), delivered \in Seq(Seq(HeardKeys)), Flush(keys),
           NEW s \in Nat, OfScan(s, keys), Untold(s),
           \A i, j \in DOMAIN delivered : delivered[i][1][1] = delivered[j][1][1] => i = j
    PROVE  /\ buffer' = << >>
           /\ \A i \in DOMAIN delivered' :
                 \/ i \in DOMAIN delivered /\ delivered'[i] = delivered[i]
                 \/ delivered'[i][1][1] = s
           /\ \A i, j \in DOMAIN delivered' : delivered'[i][1][1] = delivered'[j][1][1] => i = j
<1>1. CASE ~Taken(keys)
  BY <1>1 DEF Flush
<1>2. CASE Taken(keys)
  <2>1. delivered' = Append(delivered, keys) /\ buffer' = << >>
    BY <1>2 DEF Flush
  <2>2. keys[1][1] = s
    BY <1>2 DEF Taken, OfScan, MIN_LENGTH
  <2>3. /\ DOMAIN delivered' = 1..(Len(delivered) + 1) /\ DOMAIN delivered = 1..Len(delivered)
        /\ Len(delivered) \in Nat
        /\ \A i \in DOMAIN delivered : delivered'[i] = delivered[i]
        /\ delivered'[Len(delivered) + 1] = keys
    BY <2>1
  <2>4. \A i \in DOMAIN delivered' : i \in DOMAIN delivered \/ i = Len(delivered) + 1
    <3>1. \A i \in 1..(Len(delivered) + 1) : i \in 1..Len(delivered) \/ i = Len(delivered) + 1
      BY <2>3
    <3>2. QED
      BY <2>3, <3>1
  <2>5. \A i \in DOMAIN delivered' :
           \/ i \in DOMAIN delivered /\ delivered'[i] = delivered[i]
           \/ i = Len(delivered) + 1 /\ delivered'[i][1][1] = s
    BY <2>2, <2>3, <2>4
  <2>6. \A i \in DOMAIN delivered : delivered[i][1][1] # s
    BY DEF Untold
  <2>7. \A i, j \in DOMAIN delivered' : delivered'[i][1][1] = delivered'[j][1][1] => i = j
    BY <2>5, <2>6
  <2>8. QED
    BY <2>1, <2>5, <2>7
<1>3. QED
  BY <1>1, <1>2

LEMMA GatherStep ==
    ASSUME ScannerAssumption, ScannerTypeOK, GatherInv, [ScannerNext]_scannerVars
    PROVE  GatherInv'
<1>1. /\ buffer \in Seq(HeardKeys) /\ delivered \in Seq(Seq(HeardKeys))
      /\ typed[1] \in 1..(Scans + 1) /\ typed[2] \in 0..CodeLength
      /\ Scans \in Nat /\ CodeLength \in Nat /\ CodeLength >= MIN_LENGTH
      /\ since \in 0..5 /\ gunIdle \in 0..5 /\ idle \in 0..4
  BY GunMoves DEF ScannerTypeOK, HeardKeys, ScannerAssumption, IDLE_FLUSH
<1>. DEFINE Distinct == \A i, j \in DOMAIN delivered : delivered[i][1][1] = delivered[j][1][1] => i = j
            Past == \A i \in DOMAIN delivered : delivered[i][1][1] \in 0..(typed[1] - 1)
<1>2. Distinct /\ Past /\ Untold(typed[1])
  BY <1>1 DEF GatherInv, Untold
<1>3. CASE UNCHANGED scannerVars
  BY <1>3 DEF GatherInv, scannerVars, MidCode, Together, OfScan, Untold
<1>4. CASE GunKey
  <2>. DEFINE key == Code(typed[1])[typed[2] + 1]
  <2>1. /\ typed' = <<typed[1], typed[2] + 1>> /\ typed[2] < CodeLength
        /\ delivered' = delivered /\ gunIdle' = 0 /\ enabled' = enabled
        /\ MidCode \/ Apart
    BY <1>4, GunMoves DEF GunKey, ScannerTypeOK, Press, Unheard
  <2>2. typed'[1] = typed[1] /\ typed'[2] = typed[2] + 1 /\ MidCode'
    BY <1>1, <2>1 DEF MidCode
  <2>3. CASE ~enabled
    BY <1>1, <1>2, <1>4, <2>1, <2>2, <2>3 DEF GatherInv, GunKey, Unheard
  <2>4. CASE enabled
    <3>1. Press(key)
      BY <1>4, <2>4 DEF GunKey
    <3>2. Kept = << >> \/ (Kept = buffer /\ buffer # << >> /\ MidCode)
      <4>1. CASE MidCode
        BY <4>1 DEF Kept
      <4>2. CASE since > MAX_GAP
        BY <4>2 DEF Kept
      <4>3. QED
        BY <2>1, <4>1, <4>2 DEF Apart
    <3>3. Kept \in Seq(HeardKeys) /\ OfScan(typed[1], Kept)
      <4>1. CASE Kept = << >>
        BY <4>1 DEF OfScan
      <4>2. CASE Kept = buffer /\ buffer # << >> /\ MidCode
        BY <1>1, <4>2 DEF GatherInv
      <4>3. QED
        BY <3>2, <4>1, <4>2
    <3>4. key[1] = typed[1]
      BY <1>1, <2>1 DEF Code
    <3>5. OfScan(typed[1], buffer')
      <4>. HIDE DEF key
      <4>1. buffer' = Append(Kept, key)
        BY <3>1 DEF Press
      <4>2. QED
        BY <3>3, <3>4, <4>1 DEF OfScan
    <3>6. Together'
      BY <2>1, <3>1 DEF Press, Together, MAX_GAP, IDLE_FLUSH
    <3>7. QED
      BY <1>2, <2>1, <2>2, <2>4, <3>5, <3>6 DEF GatherInv, OfScan
  <2>5. QED
    BY <2>3, <2>4
<1>5. CASE GunEnd
  <2>1. /\ typed' = <<typed[1] + 1, 0>> /\ enabled' = enabled /\ typed[1] <= Scans /\ MidCode
    BY <1>1, <1>5 DEF GunEnd, MidCode, MIN_LENGTH
  <2>2. typed'[1] = typed[1] + 1 /\ ~MidCode'
    BY <2>1 DEF MidCode
  <2>3. CASE Unheard
    <3>1. buffer = << >> \/ OfScan(typed[1], buffer)
      BY <2>1 DEF GatherInv
    <3>2. buffer' = buffer /\ delivered' = delivered
      BY <2>3 DEF Unheard
    <3>3. Past' /\ Distinct'
      <4>1. \A n \in 0..(typed[1] - 1) : n \in 0..(typed'[1] - 1)
        BY <1>1, <2>2
      <4>2. QED
        BY <1>2, <3>2, <4>1
    <3>4. typed[1] \in 1..(typed'[1] - 1)
      BY <1>1, <2>2
    <3>5. Len(buffer') < MIN_LENGTH \/ (OfScan(typed[1], buffer') /\ (\A i \in DOMAIN delivered' : delivered'[i][1][1] # typed[1]))
      BY <3>1, <3>2, <1>2 DEF MIN_LENGTH, Untold
    <3>6. QED
      BY <2>1, <2>2, <3>2, <3>3, <3>4, <3>5 DEF GatherInv, Untold, OfScan
  <2>4. CASE enabled /\ Terminator
    <3>1. Kept = << >> \/ Kept = buffer
      BY DEF Kept
    <3>2. OfScan(typed[1], Kept) /\ Kept \in Seq(HeardKeys)
      <4>1. CASE Kept = << >>
        BY <4>1 DEF OfScan
      <4>2. CASE Kept = buffer /\ buffer # << >>
        BY <1>1, <2>1, <4>2 DEF GatherInv
      <4>3. QED
        BY <3>1, <4>1, <4>2
    <3>3. Flush(Kept)
      BY <2>4 DEF Terminator
    <3>4. /\ buffer' = << >> /\ Distinct'
          /\ \A i \in DOMAIN delivered' :
                 \/ i \in DOMAIN delivered /\ delivered'[i] = delivered[i]
                 \/ delivered'[i][1][1] = typed[1]
      BY <1>1, <1>2, <3>2, <3>3, FlushTellsOnce
    <3>5. Past'
      <4>1. \A n \in 0..(typed[1] - 1) \cup {typed[1]} : n \in 0..(typed'[1] - 1)
        BY <1>1, <2>2
      <4>2. QED
        BY <1>2, <3>4, <4>1
    <3>6. QED
      BY <2>2, <3>4, <3>5 DEF GatherInv, MIN_LENGTH
  <2>5. QED
    BY <1>5, <2>3, <2>4 DEF GunEnd
<1>6. CASE HandPress
  <2>1. UNCHANGED <<typed, enabled, gunIdle>> /\ ~MidCode /\ Kept = << >>
    BY <1>6 DEF HandPress, Apart, Kept
  <2>2. CASE Unheard
    BY <2>1, <2>2, <1>1 DEF GatherInv, Unheard, MidCode, OfScan, Untold
  <2>3. CASE enabled /\ Press(HandKey)
    <3>1. buffer' = <<HandKey>> /\ delivered' = delivered
      BY <2>1, <2>3 DEF Press
    <3>2. Len(buffer') < MIN_LENGTH
      BY <3>1 DEF MIN_LENGTH
    <3>3. QED
      BY <2>1, <2>3, <3>1, <3>2 DEF GatherInv, MidCode
  <2>4. CASE enabled /\ Terminator
    <3>1. buffer' = << >> /\ delivered' = delivered
      BY <2>1, <2>4 DEF Terminator, Flush, Taken, MIN_LENGTH
    <3>2. QED
      BY <2>1, <3>1 DEF GatherInv, MidCode, MIN_LENGTH
  <2>5. QED
    BY <1>6, <2>2, <2>3, <2>4 DEF HandPress
<1>7. CASE Tick
  <2>1. UNCHANGED <<typed, enabled>> /\ MidCode' = MidCode /\ (MidCode => gunIdle < MAX_GAP)
        /\ gunIdle' = UpTo(gunIdle, IDLE_FLUSH + 1) /\ since' = UpTo(since, IDLE_FLUSH + 1)
    BY <1>7 DEF Tick, MidCode
  <2>2. CASE idle # 1
    <3>1. buffer' = buffer /\ delivered' = delivered /\ idle' = IF idle = 0 THEN 0 ELSE idle - 1
      BY <1>7, <2>2 DEF Tick
    <3>2. MidCode /\ buffer # << >> => Together'
      BY <1>1, <2>1, <3>1 DEF GatherInv, Together, UpTo, MAX_GAP, IDLE_FLUSH
    <3>3. QED
      BY <2>1, <3>1, <3>2 DEF GatherInv, OfScan, Untold
  <2>3. CASE idle = 1
    <3>1. Flush(buffer)
      BY <1>7, <2>3 DEF Tick
    <3>2. CASE MidCode
      <4>1. buffer = << >>
        BY <1>1, <2>1, <2>3, <3>2 DEF GatherInv, Together, MAX_GAP, IDLE_FLUSH
      <4>2. buffer' = << >> /\ delivered' = delivered
        BY <3>1, <4>1 DEF Flush, Taken, MIN_LENGTH
      <4>3. QED
        BY <2>1, <3>2, <4>2 DEF GatherInv
    <3>3. CASE ~MidCode
      <4>1. CASE Len(buffer) < MIN_LENGTH
        <5>1. buffer' = << >> /\ delivered' = delivered
          BY <1>1, <3>1, <4>1 DEF Flush, Taken, MIN_LENGTH
        <5>2. QED
          BY <2>1, <3>3, <5>1 DEF GatherInv, MIN_LENGTH
      <4>2. ASSUME NEW s \in 1..(typed[1] - 1), OfScan(s, buffer), Untold(s) PROVE GatherInv'
        <5>1. /\ buffer' = << >> /\ Distinct'
              /\ \A i \in DOMAIN delivered' :
                   \/ i \in DOMAIN delivered /\ delivered'[i] = delivered[i]
                   \/ delivered'[i][1][1] = s
          BY <1>1, <1>2, <3>1, <4>2, FlushTellsOnce
        <5>2. Past'
          <6>1. typed[1] \in Nat /\ typed' = typed /\ s \in 0..(typed[1] - 1)
            BY <1>1, <2>1, <4>2
          <6>2. ASSUME NEW i \in DOMAIN delivered' PROVE delivered'[i][1][1] \in 0..(typed[1] - 1)
            <7>1. CASE i \in DOMAIN delivered /\ delivered'[i] = delivered[i]
              BY <1>2, <7>1
            <7>2. CASE delivered'[i][1][1] = s
              BY <6>1, <7>2
            <7>3. QED
              BY <5>1, <7>1, <7>2
          <6>3. QED
            BY <6>1, <6>2
        <5>3. QED
          BY <2>1, <3>3, <5>1, <5>2 DEF GatherInv, MIN_LENGTH
      <4>3. QED
        BY <3>3, <4>1, <4>2 DEF GatherInv
    <3>4. QED
      BY <3>2, <3>3
  <2>4. QED
    BY <2>2, <2>3
<1>8. CASE Toggle
  <2>1. buffer' = << >> /\ UNCHANGED <<typed, delivered>>
    BY <1>8 DEF Toggle
  <2>2. QED
    BY <2>1 DEF GatherInv, MidCode, MIN_LENGTH
<1>9. QED
  BY <1>3, <1>4, <1>5, <1>6, <1>7, <1>8 DEF ScannerNext

LEMMA ScannerTypesHold == ASSUME ScannerAssumption PROVE ScannerSpec => []ScannerTypeOK
BY ScannerStarts, ScannerKeepsTypes, PTL DEF ScannerSpec

(* Buffers, timers and the gun have their types (useBarcodeScanner).        *)
THEOREM ScannerHasTypes == ASSUME ScannerAssumption PROVE ScannerSpec => []ScannerTypeOK
BY ScannerTypesHold

(* A code is given to the screen once, whoever presses keys and however       *)
(* often the hook is disabled in the middle of a code (useBarcodeScanner).   *)
THEOREM CodesAreReadOnce == ASSUME ScannerAssumption PROVE ScannerSpec => []ReadOnce
<1>1. GatherInv => ReadOnce
  BY DEF GatherInv, ReadOnce
<1>2. QED
  BY <1>1, GatherStarts, GatherStep, ScannerTypesHold, PTL DEF ScannerSpec

-----------------------------------------------------------------------------
(* Scanner: whole codes *)

\* The keys of a code up to one of them.
Part(s, n) == [i \in 1..n |-> <<s, i>>]

WholeInv ==
    /\ enabled /\ toggles = 0
    /\ MidCode => Together /\ buffer = Part(typed[1], typed[2])
    /\ ~MidCode =>
          \/ Len(buffer) < MIN_LENGTH
          \/ \E s \in 1..Scans : buffer = Code(s)
    /\ WholeCodes

LEMMA WholeStarts == ASSUME ScannerInit PROVE WholeInv
BY DEF ScannerInit, WholeInv, MidCode, MIN_LENGTH, WholeCodes

LEMMA PartGrows ==
    ASSUME NEW s, NEW n \in Nat
    PROVE  /\ Len(Part(s, n)) = n
           /\ Append(Part(s, n), <<s, n + 1>>) = Part(s, n + 1)
BY DEF Part

LEMMA FlushTellsWhole ==
    ASSUME NEW keys \in Seq(HeardKeys), delivered \in Seq(Seq(HeardKeys)), Flush(keys),
           WholeCodes, Len(keys) < MIN_LENGTH \/ \E s \in 1..Scans : keys = Code(s)
    PROVE  WholeCodes' /\ buffer' = << >>
<1>1. CASE ~Taken(keys)
  BY <1>1 DEF Flush, WholeCodes
<1>2. CASE Taken(keys)
  <2>1. delivered' = Append(delivered, keys) /\ buffer' = << >>
    BY <1>2 DEF Flush
  <2>2. PICK s \in 1..Scans : keys = Code(s)
    BY <1>2 DEF Taken, MIN_LENGTH
  <2>3. \A i \in DOMAIN delivered' :
           \/ i \in DOMAIN delivered /\ delivered'[i] = delivered[i]
           \/ delivered'[i] = keys
    BY <2>1
  <2>4. WholeCodes'
    <3>1. \A i \in DOMAIN delivered' : \E scan \in 1..Scans : delivered'[i] = Code(scan)
      BY <2>2, <2>3 DEF WholeCodes
    <3>2. QED
      BY <3>1 DEF WholeCodes, Code
  <2>5. QED
    BY <2>1, <2>4
<1>3. QED
  BY <1>1, <1>2

LEMMA WholeStep ==
    ASSUME ScannerAssumption, LastToggle = 0, ScannerTypeOK, WholeInv, [ScannerNext]_scannerVars
    PROVE  WholeInv'
<1>1. /\ buffer \in Seq(HeardKeys) /\ delivered \in Seq(Seq(HeardKeys))
      /\ typed[1] \in 1..(Scans + 1) /\ typed[2] \in 0..CodeLength
      /\ Scans \in Nat /\ CodeLength \in Nat /\ CodeLength >= MIN_LENGTH
      /\ since \in 0..5 /\ gunIdle \in 0..5 /\ idle \in 0..4
  BY GunMoves DEF ScannerTypeOK, HeardKeys, ScannerAssumption, IDLE_FLUSH
<1>2. CASE UNCHANGED scannerVars
  BY <1>2 DEF WholeInv, scannerVars, MidCode, Together, WholeCodes
<1>3. CASE GunKey
  <2>. DEFINE key == Code(typed[1])[typed[2] + 1]
  <2>1. /\ typed' = <<typed[1], typed[2] + 1>> /\ typed[2] < CodeLength
        /\ gunIdle' = 0 /\ UNCHANGED <<enabled, toggles>>
        /\ MidCode \/ Apart
        /\ Press(key)
    BY <1>3, GunMoves DEF GunKey, ScannerTypeOK, WholeInv
  <2>2. typed'[1] = typed[1] /\ typed'[2] = typed[2] + 1 /\ MidCode'
    BY <1>1, <2>1 DEF MidCode
  <2>3. Kept = Part(typed[1], typed[2])
    <3>1. CASE MidCode
      BY <1>1, <3>1 DEF WholeInv, Together, Kept, MAX_GAP
    <3>2. CASE ~MidCode
      <4>1. Kept = << >> /\ typed[2] = 0
        BY <1>1, <2>1, <3>2 DEF Kept, Apart, MidCode
      <4>2. QED
        BY <4>1 DEF Part
    <3>3. QED
      BY <3>1, <3>2
  <2>4. key = <<typed[1], typed[2] + 1>>
    BY <1>1, <2>1 DEF Code
  <2>5. buffer' = Part(typed[1], typed[2] + 1)
    <3>. HIDE DEF key
    <3>1. buffer' = Append(Kept, key)
      BY <2>1 DEF Press
    <3>2. typed[2] \in Nat
      BY <1>1
    <3>3. Append(Part(typed[1], typed[2]), <<typed[1], typed[2] + 1>>) = Part(typed[1], typed[2] + 1)
      BY <3>2, PartGrows
    <3>4. QED
      BY <2>3, <2>4, <3>1, <3>3
  <2>6. Together' /\ delivered' = delivered
    BY <2>1 DEF Press, Together, MAX_GAP, IDLE_FLUSH
  <2>7. QED
    BY <2>1, <2>2, <2>5, <2>6 DEF WholeInv, WholeCodes, Code, Part
<1>4. CASE GunEnd
  <2>1. /\ typed' = <<typed[1] + 1, 0>> /\ UNCHANGED <<enabled, toggles>>
        /\ typed[1] \in 1..Scans /\ typed[2] = CodeLength /\ MidCode
    BY <1>1, <1>4 DEF GunEnd, MidCode, MIN_LENGTH
  <2>2. ~MidCode'
    BY <2>1 DEF MidCode
  <2>3. buffer = Code(typed[1]) /\ Kept = buffer
    BY <1>1, <2>1 DEF WholeInv, Together, Kept, MAX_GAP, Part, Code
  <2>4. CASE Unheard
    <3>1. buffer' = Code(typed[1]) /\ delivered' = delivered
      BY <2>3, <2>4 DEF Unheard
    <3>2. QED
      BY <2>1, <2>2, <3>1 DEF WholeInv, WholeCodes, Code
  <2>5. CASE Terminator
    <3>1. WholeCodes' /\ buffer' = << >>
      BY <1>1, <2>1, <2>3, <2>5, FlushTellsWhole DEF Terminator, WholeInv
    <3>2. QED
      BY <2>1, <2>2, <3>1 DEF WholeInv, MIN_LENGTH
  <2>6. QED
    BY <1>4, <2>4, <2>5 DEF GunEnd, WholeInv
<1>5. CASE HandPress
  <2>1. UNCHANGED <<typed, enabled, gunIdle, toggles>> /\ ~MidCode /\ Kept = << >> /\ enabled
    BY <1>5 DEF HandPress, Apart, Kept, WholeInv
  <2>2. CASE Press(HandKey)
    <3>1. buffer' = <<HandKey>> /\ delivered' = delivered
      BY <2>1, <2>2 DEF Press
    <3>2. Len(buffer') < MIN_LENGTH
      BY <3>1 DEF MIN_LENGTH
    <3>3. QED
      BY <2>1, <3>1, <3>2 DEF WholeInv, MidCode, WholeCodes
  <2>3. CASE Terminator
    <3>1. buffer' = << >> /\ delivered' = delivered
      BY <2>1, <2>3 DEF Terminator, Flush, Taken, MIN_LENGTH
    <3>2. QED
      BY <2>1, <3>1 DEF WholeInv, MidCode, MIN_LENGTH, WholeCodes
  <2>4. QED
    BY <1>5, <2>1, <2>2, <2>3 DEF HandPress
<1>6. CASE Tick
  <2>1. /\ UNCHANGED <<typed, enabled, toggles>> /\ MidCode' = MidCode
        /\ MidCode => gunIdle < MAX_GAP
        /\ gunIdle' = UpTo(gunIdle, IDLE_FLUSH + 1) /\ since' = UpTo(since, IDLE_FLUSH + 1)
    BY <1>6 DEF Tick, MidCode
  <2>2. CASE idle # 1
    <3>1. buffer' = buffer /\ delivered' = delivered /\ idle' = IF idle = 0 THEN 0 ELSE idle - 1
      BY <1>6, <2>2 DEF Tick
    <3>2. MidCode => Together'
      BY <1>1, <2>1, <3>1 DEF WholeInv, Together, UpTo, MAX_GAP, IDLE_FLUSH
    <3>3. QED
      BY <2>1, <3>1, <3>2 DEF WholeInv, WholeCodes
  <2>3. CASE idle = 1
    <3>1. ~MidCode
      BY <1>1, <2>1, <2>3 DEF WholeInv, Together, MAX_GAP, IDLE_FLUSH
    <3>2. Flush(buffer)
      BY <1>6, <2>3 DEF Tick
    <3>3. WholeCodes' /\ buffer' = << >>
      BY <1>1, <3>1, <3>2, FlushTellsWhole DEF WholeInv
    <3>4. QED
      BY <2>1, <3>1, <3>3 DEF WholeInv, MIN_LENGTH
  <2>4. QED
    BY <2>2, <2>3
<1>7. CASE Toggle
  BY <1>7 DEF Toggle, WholeInv
<1>8. QED
  BY <1>2, <1>3, <1>4, <1>5, <1>6, <1>7 DEF ScannerNext

(* "para no cortar un código por la mitad": the screen gets whole codes and  *)
(* nothing else, with a terminator or without, while it goes on taking them  *)
(* (useBarcodeScanner).                                                     *)
THEOREM CodesAreWhole ==
    ASSUME ScannerAssumption, LastToggle = 0
    PROVE  ScannerSpec => []WholeCodes
<1>1. WholeInv => WholeCodes
  BY DEF WholeInv
<1>2. QED
  BY <1>1, WholeStarts, WholeStep, ScannerTypesHold, PTL DEF ScannerSpec

-----------------------------------------------------------------------------
(* Printing: jobs are numbered *)

\* Of finitely many numbers one that comes next is not among them.
LEMMA SomeNumberIsFree ==
    ASSUME NEW taken, IsFiniteSet(taken)
    PROVE  /\ Min((1..Cardinality(taken) + 1) \ taken) \in Nat
           /\ Min((1..Cardinality(taken) + 1) \ taken) \notin taken
<1>. DEFINE n == Cardinality(taken)
            free == (1..n + 1) \ taken
<1>1. n \in Nat
  BY FS_CardinalityType
<1>2. free # {}
  <2>1. SUFFICES ASSUME 1..n + 1 \subseteq taken PROVE FALSE
    OBVIOUS
  <2>2. Cardinality(1..n + 1) = n + 1
    BY <1>1, FS_Interval
  <2>3. Cardinality(1..n + 1) <= n
    BY <2>1, FS_Subset
  <2>4. QED
    BY <1>1, <2>2, <2>3
<1>3. free \subseteq Nat
  BY <1>1
<1>4. PICK m \in free : \A k \in free : m <= k
  <2>. HIDE DEF free
  <2>. QED
    BY <1>2, <1>3, FirstExists
<1>5. Min(free) \in free
  <2>. HIDE DEF free
  <2>. QED
    BY <1>4 DEF Min
<1>6. QED
  BY <1>3, <1>5

LEMMA NumbersAreFinite ==
    ASSUME NEW S, IsFiniteSet(S)
    PROVE  IsFiniteSet({job.no : job \in S})
<1>. DEFINE T == {job.no : job \in S}
            f == [job \in S |-> job.no]
<1>1. f \in Surjection(S, T)
  BY DEF Surjection
<1>2. QED
  BY <1>1, FS_Surjection

LEMMA ElementsAreFinite ==
    ASSUME NEW S, NEW q \in Seq(S)
    PROVE  IsFiniteSet(ToSet(q))
<1>1. q \in Surjection(1..Len(q), ToSet(q))
  BY DEF Surjection, ToSet
<1>2. IsFiniteSet(1..Len(q))
  BY FS_Interval
<1>3. QED
  BY <1>1, <1>2, FS_Surjection

PrintTypes == PrintingTypeOK /\ IsFiniteSet(atQZ) /\ Len(surfaces) <= LastSurface

LEMMA JobIsOne ==
    ASSUME PrintTypes, NEW does \in {"ticket", "drawer"}, NEW i \in 0..LastSurface, NEW s \in SaleIds
    PROVE  /\ Job(does, i, s) \in Jobs
           /\ Job(does, i, s).does = does /\ Job(does, i, s).for = i /\ Job(does, i, s).sale = s
<1>. DEFINE taken == {job.no : job \in ToSet(queue) \cup atQZ}
<1>1. IsFiniteSet(ToSet(queue) \cup atQZ)
  BY ElementsAreFinite, FS_Union DEF PrintTypes, PrintingTypeOK
<1>2. IsFiniteSet(taken)
  BY <1>1, NumbersAreFinite
<1>3. Job(does, i, s) = [does |-> does, for |-> i, sale |-> s, no |-> Min((1..Cardinality(taken) + 1) \ taken)]
  BY DEF Job
<1>4. Min((1..Cardinality(taken) + 1) \ taken) \in Nat
  <2>. HIDE DEF taken
  <2>. QED
    BY <1>2, SomeNumberIsFree
<1>. HIDE DEF taken
<1>5. QED
  BY <1>3, <1>4 DEF Jobs

-----------------------------------------------------------------------------
(* Printing: types *)

\* What becomes of the jobs, the surfaces and the papers.
Fits(job, all) ==
    IF job.for = 0 THEN job.does = "drawer" /\ job.sale \in CashSales
    ELSE job.for \in DOMAIN all /\ job.sale = all[job.for].sale

JobFits(job) == Fits(job, surfaces)

JobsFit ==
    /\ \A i \in DOMAIN queue : JobFits(queue[i])
    /\ \A job \in atQZ : JobFits(job)

LEMMA PrintingStarts == ASSUME PrintingAssumption, PrintingInit PROVE PrintTypes
<1>1. IsFiniteSet(atQZ)
  BY FS_EmptySet DEF PrintingInit
<1>2. surfaces = << >> /\ queue = << >> /\ paper = {} /\ atQZ = {}
  BY DEF PrintingInit
<1>3. /\ template \in Templates /\ rendered \in [SaleIds -> Templates \cup {Absent}]
      /\ sale \in 0..LastSale /\ receipt \in SaleIds \cup {Absent}
      /\ {ready, printed, attempted, drawerError} \subseteq BOOLEAN
      /\ shown \in [Places -> 1..LastSurface \cup {Absent}]
      /\ tries \in 0..LastTry /\ pulses \in [SaleIds -> Nat] /\ asking = Absent
  <2>1. {ready, printed, attempted, drawerError} \subseteq BOOLEAN
    BY DEF PrintingInit
  <2>2. /\ template \in Templates /\ sale \in 0..LastSale /\ tries \in 0..LastTry
    BY DEF PrintingInit, PrintingAssumption, Templates
  <2>3. QED
    BY <2>1, <2>2 DEF PrintingInit
<1>4. Len(surfaces) <= LastSurface
  BY <1>2 DEF PrintingAssumption
<1>5. QED
  BY <1>1, <1>2, <1>3, <1>4 DEF PrintTypes, PrintingTypeOK

\* What the queue becomes is of jobs.
LEMMA FirstAndRest ==
    ASSUME NEW S, NEW q \in Seq(S), q # << >>
    PROVE  /\ Head(q) \in S /\ Tail(q) \in Seq(S) /\ Head(q) = q[1]
           /\ Len(Tail(q)) = Len(q) - 1 /\ Len(q) \in Nat \ {0}
           /\ \A i \in DOMAIN Tail(q) : i + 1 \in DOMAIN q /\ Tail(q)[i] = q[i + 1]
OBVIOUS

LEMMA OneMore ==
    ASSUME NEW S, NEW q \in Seq(S), NEW x \in S
    PROVE  /\ Append(q, x) \in Seq(S)
           /\ Len(Append(q, x)) = Len(q) + 1 /\ Len(q) \in Nat
           /\ DOMAIN q \subseteq DOMAIN Append(q, x) /\ Len(q) + 1 \in DOMAIN Append(q, x)
           /\ Append(q, x)[Len(q) + 1] = x
           /\ \A i \in DOMAIN q : Append(q, x)[i] = q[i] /\ i # Len(q) + 1
           /\ \A i \in DOMAIN Append(q, x) : i \in DOMAIN q \/ i = Len(q) + 1
<1>1. DOMAIN q = 1..Len(q) /\ Len(q) \in Nat /\ DOMAIN Append(q, x) = 1..(Len(q) + 1)
  OBVIOUS
<1>2. \A i \in 1..(Len(q) + 1) : i \in 1..Len(q) \/ i = Len(q) + 1
  BY <1>1
<1>3. QED
  BY <1>1, <1>2

LEMMA OutHasTypes ==
    ASSUME PrintTypes, NEW job \in Jobs, JobFits(job)
    PROVE  Out(job) \subseteq [sale: SaleIds, text: Templates]
<1>1. CASE job.does = "ticket" /\ surfaces[job.for].place # "z"
  <2>1. job.for \in DOMAIN surfaces
    BY <1>1 DEF JobFits, Fits
  <2>2. surfaces[job.for] \in Surfaces
    BY <2>1 DEF PrintTypes, PrintingTypeOK
  <2>3. [sale |-> job.sale, text |-> surfaces[job.for].text] \in [sale: SaleIds, text: Templates]
    BY <2>2 DEF Surfaces, Jobs
  <2>4. QED
    BY <1>1, <2>3 DEF Out, PrintTypes, PrintingTypeOK
<1>2. CASE ~(job.does = "ticket" /\ surfaces[job.for].place # "z")
  BY <1>2 DEF Out, PrintTypes, PrintingTypeOK
<1>3. QED
  BY <1>1, <1>2

\* A surface as it is after its job is settled.
After(s, does, ok) ==
    [s EXCEPT !.status = IF ~ok THEN "error" ELSE IF does = "ticket" /\ s.place = "z" THEN "drawer" ELSE @,
              !.sent = @ \/ (ok /\ does = "ticket"),
              !.acks = IF ok /\ does = "ticket" THEN @ + 1 ELSE @]

LEMMA AfterFields ==
    ASSUME NEW s \in Surfaces, NEW does, NEW ok \in BOOLEAN
    PROVE  /\ After(s, does, ok) \in Surfaces
           /\ After(s, does, ok).place = s.place /\ After(s, does, ok).sale = s.sale
           /\ After(s, does, ok).text = s.text
           /\ After(s, does, ok).sent = (s.sent \/ (ok /\ does = "ticket"))
           /\ After(s, does, ok).acks = IF ok /\ does = "ticket" THEN s.acks + 1 ELSE s.acks
           /\ After(s, does, ok).status = IF ~ok THEN "error" ELSE IF does = "ticket" /\ s.place = "z" THEN "drawer" ELSE s.status
<1>. DEFINE status == IF ~ok THEN "error" ELSE IF does = "ticket" /\ s.place = "z" THEN "drawer" ELSE s.status
            sent == s.sent \/ (ok /\ does = "ticket")
            acks == IF ok /\ does = "ticket" THEN s.acks + 1 ELSE s.acks
<1>1. s \in [place: Places, sale: SaleIds, text: Templates, status: {"printing", "drawer", "error"},
             sent: BOOLEAN, acks: Nat]
  BY DEF Surfaces
<1>2. status \in {"printing", "drawer", "error"} /\ sent \in BOOLEAN /\ acks \in Nat
  <2>1. s.status \in {"printing", "drawer", "error"} /\ s.sent \in BOOLEAN /\ s.acks \in Nat
    BY <1>1
  <2>2. status \in {"printing", "drawer", "error"}
    BY <2>1
  <2>3. sent \in BOOLEAN
    OBVIOUS
  <2>4. acks \in Nat
    BY <2>1
  <2>5. QED
    BY <2>2, <2>3, <2>4
<1>3. PICK a \in {"printing", "drawer", "error"}, c \in Nat : a = status /\ c = acks
  BY <1>2
<1>4. CASE sent
  <2>1. After(s, does, ok) = [s EXCEPT !.status = a, !.sent = TRUE, !.acks = c]
    BY <1>1, <1>3, <1>4 DEF After
  <2>2. /\ After(s, does, ok) \in Surfaces
        /\ After(s, does, ok).place = s.place /\ After(s, does, ok).sale = s.sale
        /\ After(s, does, ok).text = s.text
        /\ After(s, does, ok).status = a /\ After(s, does, ok).sent = TRUE /\ After(s, does, ok).acks = c
    BY <2>1 DEF Surfaces
  <2>3. QED
    BY <1>3, <1>4, <2>2
<1>5. CASE ~sent
  <2>1. After(s, does, ok) = [s EXCEPT !.status = a, !.sent = FALSE, !.acks = c]
    BY <1>1, <1>3, <1>5 DEF After
  <2>2. /\ After(s, does, ok) \in Surfaces
        /\ After(s, does, ok).place = s.place /\ After(s, does, ok).sale = s.sale
        /\ After(s, does, ok).text = s.text
        /\ After(s, does, ok).status = a /\ After(s, does, ok).sent = FALSE /\ After(s, does, ok).acks = c
    BY <2>1 DEF Surfaces
  <2>3. QED
    BY <1>3, <1>5, <2>2
<1>6. QED
  BY <1>4, <1>5

LEMMA SettleChanges ==
    ASSUME PrintTypes, JobsFit, queue # << >>, NEW ok \in BOOLEAN, Settle(ok)
    PROVE  /\ Head(queue) \in Jobs /\ JobFits(Head(queue))
           /\ queue' \in Seq(Jobs)
           /\ \/ queue' = Tail(queue)
              \/ /\ Head(queue).for # 0 /\ ok /\ Head(queue).does = "ticket"
                 /\ surfaces[Head(queue).for].place = "z"
                 /\ queue' = Append(Tail(queue), Job("drawer", Head(queue).for, Head(queue).sale))
           /\ \/ /\ Head(queue).for = 0
                 /\ UNCHANGED <<surfaces, shown, receipt>>
                 /\ drawerError' = (drawerError \/ (~ok /\ receipt = Head(queue).sale))
              \/ /\ Head(queue).for \in DOMAIN surfaces
                 /\ surfaces' = [surfaces EXCEPT ![Head(queue).for] = After(@, Head(queue).does, ok)]
                 /\ receipt' \in {receipt, Absent}
                 /\ shown' \in [Places -> 1..LastSurface \cup {Absent}]
                 /\ drawerError' = drawerError
<1>. DEFINE job == Head(queue)
            i == job.for
<1>1. /\ queue \in Seq(Jobs) /\ surfaces \in Seq(Surfaces) /\ shown \in [Places -> 1..LastSurface \cup {Absent}]
      /\ drawerError \in BOOLEAN
  BY DEF PrintTypes, PrintingTypeOK
<1>2. job \in Jobs /\ job = queue[1] /\ Tail(queue) \in Seq(Jobs)
  BY <1>1, FirstAndRest
<1>3. JobFits(job)
  BY <1>1, <1>2 DEF JobsFit
<1>4. i \in 0..LastSurface /\ job.sale \in SaleIds
  BY <1>2 DEF Jobs
<1>5. \/ queue' = Tail(queue)
      \/ /\ i # 0 /\ ok /\ job.does = "ticket"
         /\ surfaces[i].place = "z"
         /\ queue' = Append(Tail(queue), Job("drawer", i, job.sale))
  BY <1>3 DEF Settle, JobFits, Fits
<1>6. queue' \in Seq(Jobs)
  <2>1. Job("drawer", i, job.sale) \in Jobs
    BY <1>4, JobIsOne
  <2>. HIDE DEF job
  <2>2. QED
    BY <1>2, <1>5, <2>1
<1>7. CASE i = 0
  BY <1>1, <1>2, <1>3, <1>5, <1>6, <1>7 DEF Settle
<1>8. CASE i # 0
  <2>1. i \in DOMAIN surfaces
    BY <1>3, <1>8 DEF JobFits, Fits
  <2>2. surfaces' = [surfaces EXCEPT ![i] = After(@, job.does, ok)]
    BY <1>1, <1>8, <2>1 DEF Settle, After, Surfaces
  <2>3. UNCHANGED <<shown, receipt>> \/ Printed(i)
    BY <1>8 DEF Settle
  <2>4. receipt' \in {receipt, Absent} /\ shown' \in [Places -> 1..LastSurface \cup {Absent}]
    BY <1>1, <2>3 DEF Printed
  <2>5. drawerError' = drawerError
    BY <1>8 DEF Settle
  <2>6. QED
    BY <1>2, <1>3, <1>5, <1>6, <1>8, <2>1, <2>2, <2>4, <2>5
<1>9. QED
  BY <1>7, <1>8

\* A till that asks for the drawer.
LEMMA DrawerIsAsked ==
    ASSUME PrintingAssumption, PrintTypes, receipt \in SaleIds, AskForDrawer
    PROVE  /\ Job("drawer", 0, receipt) \in Jobs
           /\ Job("drawer", 0, receipt).for = 0 /\ Job("drawer", 0, receipt).does = "drawer"
           /\ Job("drawer", 0, receipt).sale = receipt
           /\ queue' = Append(queue, Job("drawer", 0, receipt)) /\ queue' \in Seq(Jobs)
           /\ pulses' = [pulses EXCEPT ![receipt] = @ + 1] /\ pulses' \in [SaleIds -> Nat]
           /\ attempted' = TRUE /\ drawerError' = FALSE
<1>1. queue \in Seq(Jobs) /\ pulses \in [SaleIds -> Nat] /\ 0 \in 0..LastSurface
  BY DEF PrintTypes, PrintingTypeOK, PrintingAssumption
<1>2. /\ Job("drawer", 0, receipt) \in Jobs
      /\ Job("drawer", 0, receipt).for = 0 /\ Job("drawer", 0, receipt).does = "drawer"
      /\ Job("drawer", 0, receipt).sale = receipt
  BY <1>1, JobIsOne
<1>3. queue' = Append(queue, Job("drawer", 0, receipt)) /\ pulses' = [pulses EXCEPT ![receipt] = @ + 1]
      /\ attempted' = TRUE /\ drawerError' = FALSE
  BY DEF AskForDrawer
<1>4. queue' \in Seq(Jobs)
  BY <1>1, <1>2, <1>3, OneMore
<1>5. pulses' \in [SaleIds -> Nat]
  BY <1>1, <1>3
<1>6. QED
  BY <1>2, <1>3, <1>4, <1>5

LEMMA PrintingKeepsTypes ==
    ASSUME PrintingAssumption, PrintTypes, JobsFit, [PrintingNext]_printVars
    PROVE  PrintTypes'
<1>. USE DEF PrintTypes, PrintingTypeOK
<1>1. CASE UNCHANGED printVars
  BY <1>1 DEF printVars, server, till, qz
<1>2. CASE EditTemplate
  <2>1. template' \in Templates /\ Templates = 1..LastTemplate
    BY <1>2 DEF EditTemplate, Templates, PrintingAssumption
  <2>2. QED
    BY <1>2, <2>1 DEF EditTemplate, till, qz
<1>3. CASE Charge
  <2>1. sale' \in 0..LastSale /\ receipt' \in SaleIds
    BY <1>3 DEF Charge, SaleIds, PrintingAssumption
  <2>2. QED
    BY <1>3, <2>1 DEF Charge, server, qz
<1>4. CASE ReadSettings
  BY <1>4 DEF ReadSettings, server, qz
<1>5. CASE OpenDrawer \/ RetryDrawer
  <2>1. receipt \in SaleIds /\ AskForDrawer
    BY <1>5 DEF OpenDrawer, RetryDrawer, PrintingAssumption, SaleIds
  <2>2. tries' \in 0..LastTry
    BY <1>5 DEF OpenDrawer, RetryDrawer, PrintingAssumption
  <2>3. UNCHANGED <<server, sale, receipt, ready, printed, asking, surfaces, shown, qz>>
    BY <1>5 DEF OpenDrawer, RetryDrawer
  <2>4. queue' \in Seq(Jobs) /\ pulses' \in [SaleIds -> Nat] /\ attempted' \in BOOLEAN /\ drawerError' \in BOOLEAN
    BY <2>1, DrawerIsAsked
  <2>5. QED
    BY <2>2, <2>3, <2>4 DEF server, qz
<1>6. CASE AutoTicket
  <2>1. asking' \in [sale: SaleIds, place: Places, open: BOOLEAN]
    BY <1>6 DEF AutoTicket, Places
  <2>2. QED
    BY <1>6, <2>1 DEF AutoTicket, server, qz
<1>7. ASSUME NEW place \in Buttons, PressPrint(place) PROVE PrintTypes'
  <2>1. asking' \in [sale: SaleIds, place: Places, open: BOOLEAN]
    <3>1. sale \in SaleIds
      BY <1>7 DEF PressPrint, SaleIds, PrintingAssumption
    <3>2. place \in Places
      BY DEF Places, PrintingAssumption
    <3>3. QED
      BY <1>7, <3>1, <3>2 DEF PressPrint
  <2>2. QED
    BY <1>7, <2>1 DEF PressPrint, server, till, qz
<1>8. CASE NewSale
  <2>1. asking' = Absent \/ asking' \in [sale: SaleIds, place: Places, open: BOOLEAN]
    BY <1>8 DEF NewSale
  <2>2. QED
    BY <1>8, <2>1 DEF NewSale, server, qz
<1>9. CASE Ticket
  <2>1. asking \in [sale: SaleIds, place: Places, open: BOOLEAN] /\ asking' = Absent
    BY <1>9 DEF Ticket
  <2>2. Rendered(asking.sale) \in Templates
    BY <2>1 DEF Rendered
  <2>3. rendered' \in [SaleIds -> Templates \cup {Absent}]
    BY <1>9, <2>1, <2>2 DEF Ticket
  <2>4. CASE UNCHANGED <<surfaces, shown, queue>>
    BY <1>9, <2>1, <2>3, <2>4 DEF Ticket, till, qz
  <2>5. CASE asking.open /\ Len(surfaces) < LastSurface
    <3>. DEFINE new == [place |-> asking.place, sale |-> asking.sale, text |-> Rendered(asking.sale),
                        status |-> "printing", sent |-> FALSE, acks |-> 0]
                job == Job("ticket", Len(surfaces) + 1, asking.sale)
    <3>1. surfaces' = Append(surfaces, new) /\ queue' = Append(queue, job)
          /\ shown' = [shown EXCEPT ![asking.place] = Len(surfaces) + 1]
      BY <1>9, <2>5 DEF Ticket
    <3>2. new \in Surfaces
      BY <2>1, <2>2 DEF Surfaces
    <3>3. Len(surfaces) + 1 \in 1..LastSurface
      BY <2>5 DEF PrintingAssumption
    <3>4. job \in Jobs
      BY <2>1, <3>3, JobIsOne
    <3>. HIDE DEF new, job
    <3>5. surfaces' \in Seq(Surfaces) /\ Len(surfaces') <= LastSurface
      BY <3>1, <3>2, <3>3, OneMore
    <3>6. queue' \in Seq(Jobs)
      BY <3>1, <3>4, OneMore
    <3>7. shown' \in [Places -> 1..LastSurface \cup {Absent}]
      BY <3>1, <3>3
    <3>8. QED
      BY <1>9, <2>1, <2>3, <3>5, <3>6, <3>7 DEF Ticket, till, qz
  <2>6. QED
    BY <1>9, <2>4, <2>5 DEF Ticket
<1>10. CASE NoTicket
  BY <1>10 DEF NoTicket, server, till, qz
<1>11. ASSUME NEW i \in DOMAIN surfaces, Close(i) PROVE PrintTypes'
  BY <1>11 DEF Close, server, till, qz
<1>12. ASSUME NEW i \in DOMAIN surfaces, Retry(i) PROVE PrintTypes'
  <2>. DEFINE does == IF surfaces[i].sent THEN "drawer" ELSE "ticket"
  <2>1. surfaces[i] \in Surfaces /\ i \in 0..LastSurface
    BY DEF PrintingAssumption
  <2>2. Job(does, i, surfaces[i].sale) \in Jobs
    BY <2>1, JobIsOne DEF Surfaces
  <2>3. queue' = Append(queue, Job(does, i, surfaces[i].sale))
    BY <1>12 DEF Retry
  <2>4. queue' \in Seq(Jobs)
    <3>. HIDE DEF does
    <3>. QED
      BY <2>2, <2>3, OneMore
  <2>5. surfaces' = [surfaces EXCEPT ![i] = [@ EXCEPT !.status = IF surfaces[i].sent THEN "drawer" ELSE "printing"]]
    BY <1>12 DEF Retry
  <2>6. [surfaces[i] EXCEPT !.status = IF surfaces[i].sent THEN "drawer" ELSE "printing"] \in Surfaces
    BY <2>1 DEF Surfaces
  <2>7. surfaces' \in Seq(Surfaces) /\ Len(surfaces') = Len(surfaces)
    BY <2>5, <2>6
  <2>8. tries' \in 0..LastTry
    BY <1>12 DEF Retry, PrintingAssumption
  <2>9. QED
    BY <1>12, <2>4, <2>7, <2>8 DEF Retry, server, till, qz
<1>13. CASE Hand
  <2>1. Head(queue) \in Jobs
    BY <1>13, FirstAndRest DEF Hand
  <2>2. IsFiniteSet(atQZ')
    BY <1>13, FS_AddElement DEF Hand
  <2>3. QED
    BY <1>13, <2>1, <2>2 DEF Hand, server, till
<1>14. ASSUME NEW ok \in BOOLEAN, queue # << >>, Settle(ok),
              UNCHANGED <<server, sale, ready, printed, attempted, asking, tries, pulses>>,
              atQZ' \subseteq atQZ, paper' \subseteq [sale: SaleIds, text: Templates]
       PROVE  PrintTypes'
  <2>1. queue' \in Seq(Jobs)
    BY <1>14, SettleChanges
  <2>2. IsFiniteSet(atQZ') /\ atQZ' \subseteq Jobs
    BY <1>14, FS_Subset
  <2>3. CASE UNCHANGED <<surfaces, shown, receipt>> /\ drawerError' \in BOOLEAN
    BY <1>14, <2>1, <2>2, <2>3 DEF server
  <2>4. CASE /\ Head(queue).for \in DOMAIN surfaces
             /\ surfaces' = [surfaces EXCEPT ![Head(queue).for] = After(@, Head(queue).does, ok)]
             /\ receipt' \in {receipt, Absent}
             /\ shown' \in [Places -> 1..LastSurface \cup {Absent}]
             /\ drawerError' = drawerError
    <3>1. surfaces[Head(queue).for] \in Surfaces
      BY <2>4
    <3>2. After(surfaces[Head(queue).for], Head(queue).does, ok) \in Surfaces
      BY <3>1, AfterFields DEF Surfaces
    <3>3. surfaces' \in Seq(Surfaces) /\ Len(surfaces') = Len(surfaces)
      BY <2>4, <3>2
    <3>4. QED
      BY <1>14, <2>1, <2>2, <2>4, <3>3 DEF server
  <2>5. QED
    BY <1>14, <2>3, <2>4, SettleChanges
<1>15. ASSUME NEW ok \in BOOLEAN, Answered(ok) PROVE PrintTypes'
  <2>1. Out(Head(queue)) \subseteq [sale: SaleIds, text: Templates]
    BY <1>15, SettleChanges, OutHasTypes DEF Answered
  <2>2. QED
    BY <1>14, <1>15, <2>1 DEF Answered
<1>16. CASE TimeOut
  BY <1>14, <1>16 DEF TimeOut, qz
<1>17. ASSUME NEW job \in atQZ, Afterwards(job) PROVE PrintTypes'
  <2>1. Out(job) \subseteq [sale: SaleIds, text: Templates]
    BY OutHasTypes DEF JobsFit
  <2>2. IsFiniteSet(atQZ')
    BY <1>17, FS_Subset DEF Afterwards
  <2>3. QED
    BY <1>17, <2>1, <2>2 DEF Afterwards, server, till
<1>18. QED
  BY <1>1, <1>2, <1>3, <1>4, <1>5, <1>6, <1>7, <1>8, <1>9, <1>10, <1>11, <1>12, <1>13, <1>15, <1>16, <1>17
     DEF PrintingNext

-----------------------------------------------------------------------------
(* Printing: the text the server froze *)

Same(s, t) == s.place = t.place /\ s.sale = t.sale /\ s.text = t.text

\* A surface never shows another ticket.
LEMMA SurfacesStay ==
    ASSUME PrintingAssumption, PrintTypes, JobsFit, [PrintingNext]_printVars
    PROVE  /\ DOMAIN surfaces \subseteq DOMAIN surfaces'
           /\ \A i \in DOMAIN surfaces : Same(surfaces[i], surfaces'[i])
<1>1. surfaces \in Seq(Surfaces)
  BY DEF PrintTypes, PrintingTypeOK
<1>2. CASE surfaces' = surfaces
  BY <1>2 DEF Same
<1>3. CASE Ticket /\ surfaces' # surfaces
  <2>. DEFINE new == [place |-> asking.place, sale |-> asking.sale, text |-> Rendered(asking.sale),
                      status |-> "printing", sent |-> FALSE, acks |-> 0]
  <2>1. surfaces' = Append(surfaces, new)
    BY <1>3 DEF Ticket
  <2>2. \A i \in DOMAIN surfaces : surfaces'[i] = surfaces[i] /\ i \in DOMAIN surfaces'
    <3>. HIDE DEF new
    <3>. QED
      BY <1>1, <2>1
  <2>3. QED
    BY <2>2 DEF Same
<1>4. ASSUME NEW i \in DOMAIN surfaces, Retry(i)
      PROVE  /\ DOMAIN surfaces \subseteq DOMAIN surfaces'
             /\ \A k \in DOMAIN surfaces : Same(surfaces[k], surfaces'[k])
  <2>1. surfaces' = [surfaces EXCEPT ![i] = [@ EXCEPT !.status = IF surfaces[i].sent THEN "drawer" ELSE "printing"]]
    BY <1>4 DEF Retry
  <2>2. Same(surfaces[i], [surfaces[i] EXCEPT !.status = IF surfaces[i].sent THEN "drawer" ELSE "printing"])
    BY <1>1 DEF Same, Surfaces
  <2>3. QED
    BY <1>1, <2>1, <2>2 DEF Same
<1>5. ASSUME NEW ok \in BOOLEAN, queue # << >>, Settle(ok)
      PROVE  /\ DOMAIN surfaces \subseteq DOMAIN surfaces'
             /\ \A k \in DOMAIN surfaces : Same(surfaces[k], surfaces'[k])
  <2>1. CASE surfaces' = surfaces
    BY <2>1 DEF Same
  <2>2. CASE /\ Head(queue).for \in DOMAIN surfaces
             /\ surfaces' = [surfaces EXCEPT ![Head(queue).for] = After(@, Head(queue).does, ok)]
    <3>1. Same(surfaces[Head(queue).for], After(surfaces[Head(queue).for], Head(queue).does, ok))
      BY <1>1, <2>2, AfterFields DEF Same
    <3>2. QED
      BY <1>1, <2>2, <3>1 DEF Same
  <2>3. QED
    BY <1>5, <2>1, <2>2, SettleChanges
<1>6. QED
  BY <1>2, <1>3, <1>4, <1>5
     DEF PrintingNext, printVars, EditTemplate, Charge, ReadSettings, OpenDrawer, RetryDrawer, AutoTicket, PressPrint,
         NewSale, NoTicket, Close, Hand, Answered, TimeOut, Afterwards

\* The receipt offers the drawer of a cash sale.
DrawerInv ==
    /\ receipt # Absent /\ drawerError => receipt \in CashSales
    /\ receipt # Absent => receipt <= sale
    /\ receipt # Absent /\ ~attempted => pulses[receipt] = 0
    /\ \A s \in SaleIds : s > sale => pulses[s] = 0
    /\ DrawerOfCashSales

LEMMA FittingJobsStay ==
    ASSUME PrintingAssumption, PrintTypes, JobsFit, [PrintingNext]_printVars, NEW job, JobFits(job)
    PROVE  Fits(job, surfaces')
BY SurfacesStay DEF JobFits, Fits, Same

LEMMA JobsKeepFitting ==
    ASSUME PrintingAssumption, PrintTypes, JobsFit, DrawerInv, [PrintingNext]_printVars
    PROVE  JobsFit'
<1>1. queue \in Seq(Jobs) /\ surfaces \in Seq(Surfaces)
  BY DEF PrintTypes, PrintingTypeOK
<1>. DEFINE AtQZ == \A job \in atQZ' : Fits(job, surfaces')
            Queued == \A i \in DOMAIN queue' : Fits(queue'[i], surfaces')
<1>2. SUFFICES AtQZ /\ Queued
  BY DEF JobsFit, JobFits, Fits
<1>3. queue' = queue => Queued
  BY FittingJobsStay DEF JobsFit
<1>4. atQZ' \subseteq atQZ => AtQZ
  BY FittingJobsStay DEF JobsFit
<1>5. ASSUME NEW job \in Jobs, queue' = Append(queue, job), Fits(job, surfaces') PROVE Queued
  <2>1. \A i \in DOMAIN queue' : (i \in DOMAIN queue /\ queue'[i] = queue[i]) \/ queue'[i] = job
    BY <1>1, <1>5, OneMore
  <2>2. \A i \in DOMAIN queue : Fits(queue[i], surfaces')
    BY FittingJobsStay DEF JobsFit
  <2>3. QED
    BY <1>5, <2>1, <2>2
<1>6. CASE OpenDrawer \/ RetryDrawer
  <2>1. receipt \in CashSales /\ receipt \in SaleIds /\ AskForDrawer
    BY <1>6 DEF OpenDrawer, RetryDrawer, DrawerInv, PrintingAssumption, SaleIds
  <2>2. Fits(Job("drawer", 0, receipt), surfaces')
    BY <2>1, DrawerIsAsked DEF Fits
  <2>3. Queued
    BY <1>5, <2>1, <2>2, DrawerIsAsked
  <2>4. atQZ' = atQZ
    BY <1>6 DEF OpenDrawer, RetryDrawer, qz
  <2>5. QED
    BY <1>4, <2>3, <2>4
<1>7. CASE Ticket
  <2>1. CASE queue' = queue
    BY <1>3, <1>4, <1>7, <2>1 DEF Ticket, qz
  <2>2. CASE asking.open /\ Len(surfaces) < LastSurface
    <3>. DEFINE job == Job("ticket", Len(surfaces) + 1, asking.sale)
                new == [place |-> asking.place, sale |-> asking.sale, text |-> Rendered(asking.sale),
                        status |-> "printing", sent |-> FALSE, acks |-> 0]
    <3>1. queue' = Append(queue, job) /\ surfaces' = Append(surfaces, new) /\ atQZ' = atQZ
      BY <1>7, <2>2 DEF Ticket, qz
    <3>2. asking \in [sale: SaleIds, place: Places, open: BOOLEAN]
      BY <1>7 DEF Ticket, PrintTypes, PrintingTypeOK
    <3>3. Len(surfaces) + 1 \in 0..LastSurface /\ Len(surfaces) + 1 # 0
      BY <1>1, <2>2 DEF PrintingAssumption
    <3>4. job \in Jobs /\ job.for = Len(surfaces) + 1 /\ job.sale = asking.sale
      BY <3>2, <3>3, JobIsOne
    <3>5. /\ Len(surfaces) + 1 \in DOMAIN surfaces' /\ surfaces'[Len(surfaces) + 1].sale = asking.sale
      BY <1>1, <3>1
    <3>. HIDE DEF job, new
    <3>6. Fits(job, surfaces')
      BY <3>3, <3>4, <3>5 DEF Fits
    <3>7. QED
      BY <1>4, <1>5, <3>1, <3>4, <3>6
  <2>3. QED
    BY <1>7, <2>1, <2>2 DEF Ticket
<1>8. ASSUME NEW i \in DOMAIN surfaces, Retry(i) PROVE AtQZ /\ Queued
  <2>. DEFINE does == IF surfaces[i].sent THEN "drawer" ELSE "ticket"
              job == Job(does, i, surfaces[i].sale)
  <2>1. queue' = Append(queue, job) /\ atQZ' = atQZ
    BY <1>8 DEF Retry, qz
  <2>2. surfaces[i] \in Surfaces /\ i \in 0..LastSurface /\ i # 0
    BY <1>1 DEF PrintingAssumption, PrintTypes
  <2>3. job \in Jobs /\ job.for = i /\ job.sale = surfaces[i].sale
    BY <2>2, JobIsOne DEF Surfaces
  <2>4. i \in DOMAIN surfaces' /\ surfaces'[i].sale = surfaces[i].sale
    BY SurfacesStay DEF Same
  <2>. HIDE DEF job
  <2>5. Fits(job, surfaces')
    BY <2>2, <2>3, <2>4 DEF Fits
  <2>6. QED
    BY <1>4, <1>5, <2>1, <2>3, <2>5
<1>9. CASE Hand
  <2>1. JobFits(Head(queue))
    BY <1>1, <1>9, FirstAndRest DEF Hand, JobsFit
  <2>2. Fits(Head(queue), surfaces')
    BY <2>1, FittingJobsStay
  <2>3. atQZ' = atQZ \cup {Head(queue)} /\ queue' = queue
    BY <1>9 DEF Hand
  <2>4. \A job \in atQZ : Fits(job, surfaces')
    BY FittingJobsStay DEF JobsFit
  <2>5. QED
    BY <1>3, <2>2, <2>3, <2>4
<1>10. ASSUME NEW ok \in BOOLEAN, queue # << >>, Settle(ok) PROVE Queued
  <2>1. \A i \in DOMAIN queue : Fits(queue[i], surfaces')
    BY FittingJobsStay DEF JobsFit
  <2>2. \A i \in DOMAIN Tail(queue) : Fits(Tail(queue)[i], surfaces')
    BY <1>1, <1>10, <2>1, FirstAndRest
  <2>3. CASE queue' = Tail(queue)
    BY <2>2, <2>3
  <2>4. CASE /\ Head(queue).for # 0
             /\ queue' = Append(Tail(queue), Job("drawer", Head(queue).for, Head(queue).sale))
    <3>. DEFINE job == Job("drawer", Head(queue).for, Head(queue).sale)
    <3>1. Head(queue) \in Jobs /\ JobFits(Head(queue)) /\ Tail(queue) \in Seq(Jobs)
      BY <1>1, <1>10, FirstAndRest, SettleChanges
    <3>2. job \in Jobs /\ job.for = Head(queue).for /\ job.sale = Head(queue).sale
      BY <3>1, JobIsOne DEF Jobs
    <3>3. Fits(Head(queue), surfaces')
      BY <3>1, FittingJobsStay
    <3>4. Fits(job, surfaces')
      BY <2>4, <3>2, <3>3 DEF Fits
    <3>. HIDE DEF job
    <3>5. \A i \in DOMAIN queue' : (i \in DOMAIN Tail(queue) /\ queue'[i] = Tail(queue)[i]) \/ queue'[i] = job
      BY <2>4, <3>1, <3>2, OneMore DEF job
    <3>6. QED
      BY <2>2, <3>4, <3>5
  <2>5. QED
    BY <1>10, <2>3, <2>4, SettleChanges
<1>11. QED
  BY <1>3, <1>4, <1>6, <1>7, <1>8, <1>9, <1>10
     DEF PrintingNext, printVars, server, till, qz, EditTemplate, Charge, ReadSettings, AutoTicket, PressPrint,
         NewSale, NoTicket, Close, Answered, TimeOut, Afterwards

LEMMA DrawerStep ==
    ASSUME PrintingAssumption, PrintTypes, JobsFit, DrawerInv, [PrintingNext]_printVars
    PROVE  DrawerInv'
<1>. USE DEF DrawerInv, DrawerOfCashSales
<1>1. /\ pulses \in [SaleIds -> Nat] /\ receipt \in SaleIds \cup {Absent} /\ sale \in 0..LastSale /\ tries \in Nat
      /\ CashSales \subseteq SaleIds /\ Absent \notin SaleIds
  BY DEF PrintTypes, PrintingTypeOK, PrintingAssumption, SaleIds
<1>2. CASE UNCHANGED <<sale, receipt, attempted, drawerError, tries, pulses>>
  BY <1>2
<1>3. CASE Charge
  <2>1. /\ sale' = sale + 1 /\ receipt' = sale + 1 /\ attempted' = FALSE /\ drawerError' = FALSE
        /\ UNCHANGED <<tries, pulses>> /\ sale + 1 \in SaleIds
    BY <1>1, <1>3 DEF Charge, SaleIds, PrintingAssumption
  <2>2. pulses[sale + 1] = 0
    BY <1>1, <2>1
  <2>3. \A s \in SaleIds : s > sale + 1 => s > sale
    BY <1>1 DEF SaleIds
  <2>4. QED
    BY <1>1, <2>1, <2>2, <2>3
<1>4. CASE OpenDrawer
  <2>1. receipt \in CashSales /\ ~attempted /\ AskForDrawer /\ UNCHANGED <<sale, receipt, tries>>
    BY <1>4 DEF OpenDrawer
  <2>2. /\ receipt \in SaleIds /\ pulses' = [pulses EXCEPT ![receipt] = @ + 1]
        /\ attempted' = TRUE /\ drawerError' = FALSE
    BY <1>1, <2>1, DrawerIsAsked
  <2>3. receipt # Absent /\ pulses[receipt] = 0
    BY <1>1, <2>1
  <2>4. pulses'[receipt] = 1 /\ \A s \in SaleIds : s # receipt => pulses'[s] = pulses[s]
    BY <1>1, <2>2, <2>3
  <2>5. receipt <= sale /\ \A s \in SaleIds : s > sale => s # receipt
    BY <1>1, <2>3 DEF SaleIds
  <2>6. QED
    BY <1>1, <2>1, <2>2, <2>4, <2>5
<1>5. CASE RetryDrawer
  <2>1. receipt # Absent /\ drawerError /\ AskForDrawer /\ UNCHANGED <<sale, receipt>> /\ tries' = tries + 1
    BY <1>5 DEF RetryDrawer
  <2>2. /\ receipt \in CashSales /\ receipt \in SaleIds /\ pulses' = [pulses EXCEPT ![receipt] = @ + 1]
        /\ attempted' = TRUE /\ drawerError' = FALSE
    BY <1>1, <2>1, DrawerIsAsked
  <2>3. pulses'[receipt] = pulses[receipt] + 1 /\ \A s \in SaleIds : s # receipt => pulses'[s] = pulses[s]
    BY <1>1, <2>2
  <2>4. receipt <= sale /\ \A s \in SaleIds : s > sale => s # receipt
    BY <1>1, <2>1 DEF SaleIds
  <2>5. \A s \in SaleIds : pulses'[s] <= tries + 2
    BY <1>1, <2>2, <2>3
  <2>6. QED
    BY <1>1, <2>1, <2>2, <2>3, <2>4, <2>5
<1>6. CASE UNCHANGED <<sale, pulses>> /\ receipt' = Absent /\ drawerError' = drawerError /\ tries' \in {tries, tries + 1}
  BY <1>1, <1>6
<1>7. ASSUME NEW i \in DOMAIN surfaces, Retry(i) PROVE DrawerInv'
  BY <1>1, <1>7 DEF Retry, till
<1>8. ASSUME NEW ok \in BOOLEAN, queue # << >>, Settle(ok), UNCHANGED <<sale, attempted, tries, pulses>>
      PROVE  DrawerInv'
  <2>1. CASE /\ Head(queue).for = 0
             /\ UNCHANGED <<surfaces, shown, receipt>>
             /\ drawerError' = (drawerError \/ (~ok /\ receipt = Head(queue).sale))
    <3>1. Head(queue).sale \in CashSales
      BY <1>8, <2>1, SettleChanges DEF JobFits, Fits
    <3>2. QED
      BY <1>8, <2>1, <3>1
  <2>2. CASE receipt' \in {receipt, Absent} /\ drawerError' = drawerError
    BY <1>1, <1>8, <2>2
  <2>3. QED
    BY <1>8, <2>1, <2>2, SettleChanges
<1>9. QED
  BY <1>2, <1>3, <1>4, <1>5, <1>6, <1>7, <1>8
     DEF PrintingNext, printVars, server, till, qz, EditTemplate, ReadSettings, AutoTicket, PressPrint,
         NewSale, Ticket, NoTicket, Close, Hand, Answered, TimeOut, Afterwards

TextsFit ==
    /\ \A i \in DOMAIN surfaces :
          surfaces[i].place # "z" => rendered[surfaces[i].sale] = surfaces[i].text
    /\ \A p \in paper : rendered[p.sale] = p.text

\* What is frozen stays frozen.
LEMMA TextsStay ==
    ASSUME PrintingAssumption, PrintTypes, [PrintingNext]_printVars, NEW s \in SaleIds, rendered[s] # Absent
    PROVE  rendered'[s] = rendered[s]
<1>1. CASE Ticket
  BY <1>1 DEF Ticket, Rendered, PrintTypes, PrintingTypeOK
<1>2. CASE ~Ticket
  BY <1>2 DEF PrintingNext, printVars, server, till, qz, EditTemplate, Charge, ReadSettings, OpenDrawer, RetryDrawer,
         AutoTicket, PressPrint, NewSale, NoTicket, Close, Retry, Hand, Answered, TimeOut, Afterwards
<1>3. QED
  BY <1>1, <1>2

LEMMA TextsStep ==
    ASSUME PrintingAssumption, PrintTypes, JobsFit, TextsFit, [PrintingNext]_printVars
    PROVE  TextsFit'
<1>1. /\ surfaces \in Seq(Surfaces) /\ paper \subseteq [sale: SaleIds, text: Templates]
      /\ rendered \in [SaleIds -> Templates \cup {Absent}] /\ Absent \notin Templates
      /\ \A s \in Surfaces : s.sale \in SaleIds /\ s.text \in Templates
  BY DEF PrintTypes, PrintingTypeOK, Surfaces, PrintingAssumption, Templates
<1>2. \A i \in DOMAIN surfaces :
         surfaces'[i].place # "z" => rendered'[surfaces'[i].sale] = surfaces'[i].text
  BY <1>1, SurfacesStay, TextsStay DEF TextsFit, Same
<1>3. \A p \in paper : rendered'[p.sale] = p.text
  BY <1>1, TextsStay DEF TextsFit
<1>4. ASSUME NEW job \in Jobs, JobFits(job), NEW p \in Out(job) PROVE rendered'[p.sale] = p.text
  <2>1. CASE p \in paper
    BY <1>3, <2>1
  <2>2. CASE p \notin paper
    <3>1. job.does = "ticket" /\ surfaces[job.for].place # "z" /\ p = [sale |-> job.sale, text |-> surfaces[job.for].text]
      BY <1>4, <2>2 DEF Out
    <3>2. job.for \in DOMAIN surfaces /\ job.sale = surfaces[job.for].sale
      BY <1>4, <3>1 DEF JobFits, Fits
    <3>3. rendered[surfaces[job.for].sale] = surfaces[job.for].text /\ surfaces[job.for] \in Surfaces
      BY <1>1, <3>1, <3>2 DEF TextsFit
    <3>4. rendered'[surfaces[job.for].sale] = surfaces[job.for].text
      BY <1>1, <3>3, TextsStay
    <3>5. QED
      BY <3>1, <3>2, <3>4
  <2>3. QED
    BY <2>1, <2>2
<1>5. \A p \in paper' : rendered'[p.sale] = p.text
  <2>1. CASE paper' = paper
    BY <1>3, <2>1
  <2>2. ASSUME NEW ok \in BOOLEAN, Answered(ok) PROVE \A p \in paper' : rendered'[p.sale] = p.text
    <3>1. Head(queue) \in Jobs /\ JobFits(Head(queue))
      BY <2>2, SettleChanges DEF Answered
    <3>2. QED
      BY <1>3, <1>4, <2>2, <3>1 DEF Answered
  <2>3. ASSUME NEW job \in atQZ, Afterwards(job) PROVE \A p \in paper' : rendered'[p.sale] = p.text
    <3>1. job \in Jobs /\ JobFits(job)
      BY DEF JobsFit, PrintTypes, PrintingTypeOK
    <3>2. QED
      BY <1>3, <1>4, <2>3, <3>1 DEF Afterwards
  <2>4. QED
    BY <2>1, <2>2, <2>3
       DEF PrintingNext, printVars, server, till, qz, EditTemplate, Charge, ReadSettings, OpenDrawer, RetryDrawer,
           AutoTicket, PressPrint, NewSale, Ticket, NoTicket, Close, Retry, Hand, TimeOut
<1>6. \A i \in DOMAIN surfaces' :
         i \notin DOMAIN surfaces => (surfaces'[i].place # "z" => rendered'[surfaces'[i].sale] = surfaces'[i].text)
  <2>1. CASE DOMAIN surfaces' = DOMAIN surfaces
    BY <2>1
  <2>2. CASE Ticket /\ surfaces' # surfaces
    <3>. DEFINE new == [place |-> asking.place, sale |-> asking.sale, text |-> Rendered(asking.sale),
                        status |-> "printing", sent |-> FALSE, acks |-> 0]
    <3>1. surfaces' = Append(surfaces, new)
      BY <2>2 DEF Ticket
    <3>2. asking \in [sale: SaleIds, place: Places, open: BOOLEAN]
      BY <2>2 DEF Ticket, PrintTypes, PrintingTypeOK
    <3>3. new.place # "z" => rendered'[new.sale] = new.text
      BY <1>1, <2>2, <3>2 DEF Ticket
    <3>4. \A i \in DOMAIN surfaces' : i \in DOMAIN surfaces \/ surfaces'[i] = new
      <4>. HIDE DEF new
      <4>. QED
        BY <1>1, <3>1
    <3>5. QED
      BY <3>3, <3>4
  <2>3. ASSUME NEW ok \in BOOLEAN, queue # << >>, Settle(ok) PROVE DOMAIN surfaces' = DOMAIN surfaces
    BY <1>1, <2>3, SettleChanges
  <2>4. ASSUME NEW i \in DOMAIN surfaces, Retry(i) PROVE DOMAIN surfaces' = DOMAIN surfaces
    BY <1>1, <2>4 DEF Retry
  <2>5. QED
    BY <2>1, <2>2, <2>3, <2>4
       DEF PrintingNext, printVars, server, till, qz, EditTemplate, Charge, ReadSettings, OpenDrawer, RetryDrawer,
           AutoTicket, PressPrint, NewSale, NoTicket, Close, Hand, Answered, TimeOut, Afterwards
<1>7. QED
  BY <1>2, <1>5, <1>6 DEF TextsFit

LEMMA PrintingStartsRight ==
    ASSUME PrintingAssumption, PrintingInit
    PROVE  JobsFit /\ DrawerInv /\ TextsFit
BY DEF PrintingInit, JobsFit, DrawerInv, TextsFit, DrawerOfCashSales

PrintInv == PrintTypes /\ JobsFit /\ DrawerInv /\ TextsFit

LEMMA PrintInvHolds == ASSUME PrintingAssumption PROVE PrintingSpec => []PrintInv
<1>1. PrintingInit => PrintInv
  BY PrintingStarts, PrintingStartsRight DEF PrintInv
<1>2. PrintInv /\ [PrintingNext]_printVars => PrintInv'
  BY PrintingKeepsTypes, JobsKeepFitting, DrawerStep, TextsStep DEF PrintInv
<1>3. QED
  BY <1>1, <1>2, PTL DEF PrintingSpec

(* The server, the screens and the jobs have their types; in particular a    *)
(* job can always be told from those that wait (Receipt, qzPrinter).         *)
THEOREM PrintingHasTypes == ASSUME PrintingAssumption PROVE PrintingSpec => []PrintingTypeOK
<1>1. PrintInv => PrintingTypeOK
  BY DEF PrintInv, PrintTypes
<1>2. QED
  BY <1>1, PrintInvHolds, PTL

(* Every paper of a sale says the same, also what QZ Tray prints long after  *)
(* its timeout and whatever template is active by then (generate_ticket).    *)
THEOREM EveryCopyAgrees == ASSUME PrintingAssumption PROVE PrintingSpec => []CopiesAgree
<1>1. PrintInv => CopiesAgree
  BY DEF PrintInv, TextsFit, CopiesAgree
<1>2. QED
  BY <1>1, PrintInvHolds, PTL

(* A receipt asks for the drawer of a cash sale only, once by itself and     *)
(* then once per press of the retry (Receipt).                              *)
THEOREM DrawerIsForCash == ASSUME PrintingAssumption PROVE PrintingSpec => []DrawerOfCashSales
<1>1. PrintInv => DrawerOfCashSales
  BY DEF PrintInv, DrawerInv
<1>2. QED
  BY <1>1, PrintInvHolds, PTL

-----------------------------------------------------------------------------
(* Printing: a surface waits for one job *)

Queued(i) == \E k \in DOMAIN queue : queue[k].for = i

QueueInv ==
    /\ \A k, l \in DOMAIN queue : queue[k].for # 0 /\ queue[k].for = queue[l].for => k = l
    /\ \A k \in DOMAIN queue : queue[k].does = "ticket" => ~surfaces[queue[k].for].sent
    /\ \A i \in DOMAIN surfaces : surfaces[i].status = "error" => ~Queued(i)
    /\ \A i \in DOMAIN surfaces : surfaces[i].acks = IF surfaces[i].sent THEN 1 ELSE 0

\* A job of a surface that has none is added.
LEMMA QueueGrows ==
    ASSUME PrintTypes, QueueInv, NEW job \in Jobs, queue' = Append(queue, job),
           job.for # 0 => ~Queued(job.for)
    PROVE  /\ \A k, l \in DOMAIN queue' : queue'[k].for # 0 /\ queue'[k].for = queue'[l].for => k = l
           /\ \A k \in DOMAIN queue' : (k \in DOMAIN queue /\ queue'[k] = queue[k]) \/ queue'[k] = job
<1>1. queue \in Seq(Jobs)
  BY DEF PrintTypes, PrintingTypeOK
<1>2. \A k \in DOMAIN queue' : (k \in DOMAIN queue /\ queue'[k] = queue[k]) \/ (k = Len(queue) + 1 /\ queue'[k] = job)
  BY <1>1, OneMore
<1>3. QED
  BY <1>2 DEF QueueInv, Queued

LEMMA QueueStep ==
    ASSUME PrintingAssumption, PrintTypes, JobsFit, QueueInv, [PrintingNext]_printVars
    PROVE  QueueInv'
<1>1. /\ queue \in Seq(Jobs) /\ surfaces \in Seq(Surfaces)
      /\ \A k \in DOMAIN queue : queue[k] \in Jobs /\ JobFits(queue[k])
  BY DEF PrintTypes, PrintingTypeOK, JobsFit
<1>2. CASE UNCHANGED <<queue, surfaces>>
  BY <1>2 DEF QueueInv, Queued
<1>3. CASE OpenDrawer \/ RetryDrawer
  <2>1. receipt \in SaleIds /\ AskForDrawer /\ surfaces' = surfaces
    BY <1>3 DEF OpenDrawer, RetryDrawer, PrintTypes, PrintingTypeOK, PrintingAssumption, SaleIds
  <2>. DEFINE job == Job("drawer", 0, receipt)
  <2>2. job \in Jobs /\ job.for = 0 /\ job.does = "drawer" /\ queue' = Append(queue, job)
    BY <2>1, DrawerIsAsked
  <2>. HIDE DEF job
  <2>3. /\ \A k, l \in DOMAIN queue' : queue'[k].for # 0 /\ queue'[k].for = queue'[l].for => k = l
        /\ \A k \in DOMAIN queue' : (k \in DOMAIN queue /\ queue'[k] = queue[k]) \/ queue'[k] = job
    BY <2>2, QueueGrows
  <2>4. \A i \in DOMAIN surfaces : i # 0
    BY <1>1
  <2>5. QED
    BY <2>1, <2>2, <2>3, <2>4 DEF QueueInv, Queued
<1>4. CASE Ticket /\ ~UNCHANGED <<queue, surfaces>>
  <2>. DEFINE job == Job("ticket", Len(surfaces) + 1, asking.sale)
              new == [place |-> asking.place, sale |-> asking.sale, text |-> Rendered(asking.sale),
                      status |-> "printing", sent |-> FALSE, acks |-> 0]
  <2>1. queue' = Append(queue, job) /\ surfaces' = Append(surfaces, new) /\ Len(surfaces) < LastSurface
    BY <1>4 DEF Ticket
  <2>2. asking \in [sale: SaleIds, place: Places, open: BOOLEAN]
    BY <1>4 DEF Ticket, PrintTypes, PrintingTypeOK
  <2>3. Len(surfaces) + 1 \in 0..LastSurface /\ Len(surfaces) + 1 # 0 /\ Len(surfaces) + 1 \notin DOMAIN surfaces
    BY <1>1, <2>1 DEF PrintingAssumption
  <2>4. job \in Jobs /\ job.for = Len(surfaces) + 1
    BY <2>2, <2>3, JobIsOne
  <2>5. ~Queued(Len(surfaces) + 1)
    BY <1>1, <2>3 DEF Queued, JobFits, Fits
  <2>6. ~new.sent /\ new.acks = 0 /\ new.status = "printing"
    OBVIOUS
  <2>. HIDE DEF job, new
  <2>7. /\ \A k, l \in DOMAIN queue' : queue'[k].for # 0 /\ queue'[k].for = queue'[l].for => k = l
        /\ \A k \in DOMAIN queue' : (k \in DOMAIN queue /\ queue'[k] = queue[k]) \/ queue'[k] = job
    BY <2>1, <2>4, <2>5, QueueGrows
  <2>8. /\ \A i \in DOMAIN surfaces' :
              \/ i \in DOMAIN surfaces /\ i # Len(surfaces) + 1 /\ surfaces'[i] = surfaces[i]
              \/ i = Len(surfaces) + 1 /\ surfaces'[i] = new
        /\ \A i \in DOMAIN surfaces : surfaces'[i] = surfaces[i]
        /\ surfaces'[Len(surfaces) + 1] = new
    BY <1>1, <2>1, <2>3
  <2>9. \A k \in DOMAIN queue' : queue'[k].does = "ticket" => ~surfaces'[queue'[k].for].sent
    <3>1. \A k \in DOMAIN queue : queue[k].does = "ticket" => queue[k].for \in DOMAIN surfaces /\ ~surfaces[queue[k].for].sent
      BY <1>1 DEF QueueInv, JobFits, Fits
    <3>2. QED
      BY <2>4, <2>6, <2>7, <2>8, <3>1
  <2>10. \A i \in DOMAIN surfaces' : surfaces'[i].status = "error" =>
            ~\E k \in DOMAIN queue' : queue'[k].for = i
    BY <2>4, <2>6, <2>7, <2>8 DEF QueueInv, Queued
  <2>11. \A i \in DOMAIN surfaces' : surfaces'[i].acks = IF surfaces'[i].sent THEN 1 ELSE 0
    BY <2>6, <2>8 DEF QueueInv
  <2>12. QED
    BY <2>7, <2>9, <2>10, <2>11 DEF QueueInv, Queued
<1>5. ASSUME NEW i \in DOMAIN surfaces, Retry(i) PROVE QueueInv'
  <2>. DEFINE does == IF surfaces[i].sent THEN "drawer" ELSE "ticket"
              job == Job(does, i, surfaces[i].sale)
              again == [surfaces[i] EXCEPT !.status = IF surfaces[i].sent THEN "drawer" ELSE "printing"]
  <2>1. queue' = Append(queue, job) /\ surfaces' = [surfaces EXCEPT ![i] = again] /\ surfaces[i].status = "error"
    BY <1>5 DEF Retry
  <2>2. surfaces[i] \in Surfaces /\ i \in 0..LastSurface /\ i # 0
    BY <1>1 DEF PrintingAssumption, PrintTypes
  <2>3. job \in Jobs /\ job.for = i /\ (job.does = "ticket" => ~surfaces[i].sent)
    BY <2>2, JobIsOne DEF Surfaces
  <2>4. again.sent = surfaces[i].sent /\ again.acks = surfaces[i].acks /\ again.status # "error"
    BY <2>2 DEF Surfaces
  <2>5. ~Queued(i)
    BY <2>1 DEF QueueInv
  <2>. HIDE DEF job, again
  <2>6. /\ \A k, l \in DOMAIN queue' : queue'[k].for # 0 /\ queue'[k].for = queue'[l].for => k = l
        /\ \A k \in DOMAIN queue' : (k \in DOMAIN queue /\ queue'[k] = queue[k]) \/ queue'[k] = job
    BY <2>1, <2>3, <2>5, QueueGrows
  <2>7. DOMAIN surfaces' = DOMAIN surfaces /\ surfaces'[i] = again
        /\ \A j \in DOMAIN surfaces : j # i => surfaces'[j] = surfaces[j]
    BY <1>1, <2>1
  <2>8. \A k \in DOMAIN queue' : queue'[k].does = "ticket" => ~surfaces'[queue'[k].for].sent
    <3>1. \A k \in DOMAIN queue : queue[k].does = "ticket" => queue[k].for \in DOMAIN surfaces /\ ~surfaces[queue[k].for].sent
      BY <1>1 DEF QueueInv, JobFits, Fits
    <3>2. QED
      BY <2>3, <2>4, <2>6, <2>7, <3>1
  <2>9. \A j \in DOMAIN surfaces' : surfaces'[j].status = "error" =>
            ~\E k \in DOMAIN queue' : queue'[k].for = j
    BY <2>3, <2>4, <2>6, <2>7 DEF QueueInv, Queued
  <2>10. \A j \in DOMAIN surfaces' : surfaces'[j].acks = IF surfaces'[j].sent THEN 1 ELSE 0
    BY <2>4, <2>7 DEF QueueInv
  <2>11. QED
    BY <2>6, <2>8, <2>9, <2>10 DEF QueueInv, Queued
<1>6. ASSUME NEW ok \in BOOLEAN, queue # << >>, Settle(ok) PROVE QueueInv'
  <2>. DEFINE first == Head(queue)
              i == first.for
              rest == Tail(queue)
  <2>1. /\ first \in Jobs /\ JobFits(first) /\ first = queue[1] /\ 1 \in DOMAIN queue
        /\ rest \in Seq(Jobs)
        /\ \A k \in DOMAIN rest : k + 1 \in DOMAIN queue /\ rest[k] = queue[k + 1] /\ k \in Nat /\ k # 0
    BY <1>1, <1>6, FirstAndRest
  <2>2. \A k \in DOMAIN rest : i # 0 => rest[k].for # i
    <3>. HIDE DEF rest
    <3>1. ASSUME NEW k \in DOMAIN rest, first.for # 0, rest[k].for = first.for PROVE FALSE
      <4>1. k + 1 \in DOMAIN queue /\ queue[k + 1].for = queue[1].for /\ queue[1].for # 0
        BY <2>1, <3>1
      <4>2. k + 1 = 1
        BY <2>1, <4>1 DEF QueueInv
      <4>3. QED
        BY <2>1, <4>2
    <3>2. QED
      BY <3>1
  <2>3. /\ \A k, l \in DOMAIN rest : rest[k].for # 0 /\ rest[k].for = rest[l].for => k = l
        /\ \A k \in DOMAIN rest : rest[k].does = "ticket" => ~surfaces[rest[k].for].sent /\ rest[k].for \in DOMAIN surfaces
        /\ \A k \in DOMAIN rest, j \in DOMAIN surfaces : surfaces[j].status = "error" => rest[k].for # j
    <3>. HIDE DEF rest
    <3>1. \A k, l \in DOMAIN rest : k + 1 = l + 1 => k = l
      BY <2>1
    <3>2. QED
      BY <1>1, <2>1, <3>1 DEF QueueInv, Queued, JobFits, Fits
  <2>4. CASE i = 0
    <3>1. surfaces' = surfaces /\ queue' = rest
      BY <1>6, <2>4, SettleChanges, SMTT(30)
    <3>2. QED
      BY <2>3, <3>1 DEF QueueInv, Queued
  <2>5. CASE i # 0
    <3>1. i \in DOMAIN surfaces /\ surfaces[i] \in Surfaces
      BY <1>1, <2>1, <2>5 DEF JobFits, Fits
    <3>2. surfaces' = [surfaces EXCEPT ![i] = After(@, first.does, ok)]
      BY <1>6, <2>5, SettleChanges
    <3>. DEFINE next == After(surfaces[i], first.does, ok)
    <3>3. /\ next.sent = (surfaces[i].sent \/ (ok /\ first.does = "ticket"))
          /\ next.acks = IF ok /\ first.does = "ticket" THEN surfaces[i].acks + 1 ELSE surfaces[i].acks
          /\ next.status = IF ~ok THEN "error" ELSE
                IF first.does = "ticket" /\ surfaces[i].place = "z" THEN "drawer" ELSE surfaces[i].status
      BY <3>1, AfterFields
    <3>4. DOMAIN surfaces' = DOMAIN surfaces /\ surfaces'[i] = next
          /\ \A j \in DOMAIN surfaces : j # i => surfaces'[j] = surfaces[j]
      BY <1>1, <3>1, <3>2
    <3>. HIDE DEF next
    <3>5. /\ surfaces[i].acks = IF surfaces[i].sent THEN 1 ELSE 0
          /\ first.does = "ticket" => ~surfaces[i].sent
          /\ surfaces[i].status # "error"
      BY <2>1, <3>1 DEF QueueInv, Queued
    <3>6. next.acks = IF next.sent THEN 1 ELSE 0
      <4>1. CASE ok /\ first.does = "ticket"
        <5>1. next.acks = surfaces[i].acks + 1 /\ next.sent
          BY <3>3, <4>1
        <5>2. surfaces[i].acks = 0
          BY <3>5, <4>1
        <5>3. QED
          BY <5>1, <5>2
      <4>2. CASE ~(ok /\ first.does = "ticket")
        <5>1. next.acks = surfaces[i].acks /\ (next.sent <=> surfaces[i].sent)
          BY <3>3, <4>2
        <5>2. QED
          BY <3>5, <5>1
      <4>3. QED
        BY <4>1, <4>2
    <3>7. \A j \in DOMAIN surfaces' : surfaces'[j].acks = IF surfaces'[j].sent THEN 1 ELSE 0
      BY <3>4, <3>6 DEF QueueInv
    <3>8. CASE queue' = rest
      <4>. HIDE DEF rest, first, i
      <4>1. \A k \in DOMAIN queue' : queue'[k].does = "ticket" => ~surfaces'[queue'[k].for].sent
        BY <2>2, <2>3, <2>5, <3>4, <3>8
      <4>2. \A j \in DOMAIN surfaces' : surfaces'[j].status = "error" =>
                ~\E k \in DOMAIN queue' : queue'[k].for = j
        BY <2>2, <2>3, <2>5, <3>4, <3>8
      <4>3. QED
        BY <2>3, <3>7, <3>8, <4>1, <4>2 DEF QueueInv, Queued
    <3>9. CASE /\ ok /\ first.does = "ticket" /\ surfaces[i].place = "z"
               /\ queue' = Append(rest, Job("drawer", i, first.sale))
      <4>. DEFINE job == Job("drawer", i, first.sale)
      <4>1. job \in Jobs /\ job.for = i /\ job.does = "drawer"
        BY <2>1, JobIsOne DEF Jobs
      <4>2. next.status = "drawer"
        BY <3>3, <3>9
      <4>. HIDE DEF job, rest, first, i
      <4>3. \A k \in DOMAIN queue' : \/ k \in DOMAIN rest /\ queue'[k] = rest[k]
                                     \/ k = Len(rest) + 1 /\ queue'[k] = job
        BY <2>1, <3>9, <4>1, OneMore DEF job
      <4>4. \A k, l \in DOMAIN queue' : queue'[k].for # 0 /\ queue'[k].for = queue'[l].for => k = l
        BY <2>2, <2>3, <2>5, <4>1, <4>3
      <4>5. \A k \in DOMAIN queue' : queue'[k].does = "ticket" => ~surfaces'[queue'[k].for].sent
        BY <2>2, <2>3, <2>5, <3>4, <4>1, <4>3
      <4>6. \A j \in DOMAIN surfaces' : surfaces'[j].status = "error" =>
                ~\E k \in DOMAIN queue' : queue'[k].for = j
        BY <2>2, <2>3, <2>5, <3>4, <4>1, <4>2, <4>3
      <4>7. QED
        BY <3>7, <4>4, <4>5, <4>6 DEF QueueInv, Queued
    <3>10. QED
      BY <1>6, <3>8, <3>9, SettleChanges
  <2>6. QED
    BY <2>4, <2>5
<1>7. QED
  BY <1>2, <1>3, <1>4, <1>5, <1>6
     DEF PrintingNext, printVars, server, till, qz, EditTemplate, Charge, ReadSettings, AutoTicket, PressPrint,
         NewSale, NoTicket, Close, Hand, Answered, TimeOut, Afterwards

(* A surface whose ticket was acknowledged never prints it again: while a    *)
(* job of its is queued there is no other, and none is for a ticket that     *)
(* came out (TicketPrintSurface).                                           *)
THEOREM TicketsAreAcknowledgedOnce == ASSUME PrintingAssumption PROVE PrintingSpec => []PrintedOnce
<1>1. PrintingInit => QueueInv
  BY DEF PrintingInit, QueueInv
<1>2. PrintInv /\ QueueInv /\ [PrintingNext]_printVars => QueueInv'
  BY QueueStep DEF PrintInv
<1>3. QueueInv => PrintedOnce
  BY DEF QueueInv, PrintedOnce
<1>4. QED
  BY <1>1, <1>2, <1>3, PrintInvHolds, PTL DEF PrintingSpec

-----------------------------------------------------------------------------
(* RefundEntry: lines and quantities *)

\* A staged line is a line of the sale, once, and the entry is of one that is not.
StagedInv ==
    /\ line \in Lines \cup {NoLine}
    /\ \A s \in staged : s.line \in Lines
    /\ EachLineOnce

LEMMA StagedStep ==
    ASSUME EntryAssumption, StagedInv, [RefundNext]_refundVars
    PROVE  StagedInv'
<1>1. ASSUME NEW l \in Lines, PickLine(l) PROVE StagedInv'
  BY <1>1 DEF PickLine, StagedInv, EachLineOnce
<1>2. ASSUME NEW amount, ChangeRefund(amount) \/ ChangeStock(amount) PROVE StagedInv'
  BY <1>2 DEF ChangeRefund, ChangeStock, StagedInv, EachLineOnce
<1>3. CASE AddLine
  <2>1. line \in Lines /\ \A s \in staged : s.line # line
    BY <1>3 DEF AddLine, Pending
  <2>2. CASE staged' = staged /\ line' = line
    BY <2>2 DEF StagedInv, EachLineOnce
  <2>. DEFINE new == [line |-> line, refund |-> refund, stock |-> stock, lot |-> lot /\ stock > 0]
  <2>3. CASE staged' = staged \cup {new} /\ line' = NoLine
    <3>1. new.line = line
      OBVIOUS
    <3>. HIDE DEF new
    <3>2. QED
      BY <2>1, <2>3, <3>1 DEF StagedInv, EachLineOnce
  <2>4. QED
    BY <1>3, <2>2, <2>3 DEF AddLine
<1>4. ASSUME NEW s \in staged, Unstage(s) PROVE StagedInv'
  BY <1>4 DEF Unstage, StagedInv, EachLineOnce
<1>5. CASE WriteLot \/ UNCHANGED refundVars
  BY <1>5 DEF WriteLot, refundVars, StagedInv, EachLineOnce
<1>6. QED
  BY <1>1, <1>2, <1>3, <1>4, <1>5 DEF RefundNext

(* No line of a sale is staged twice, however often it is chosen again while  *)
(* others are staged and taken away (CreateReturnForm.pendingLines).         *)
THEOREM LinesAreStagedOnce == ASSUME EntryAssumption PROVE RefundSpec => []EachLineOnce
<1>1. RefundInit => StagedInv
  BY DEF RefundInit, StagedInv, EachLineOnce
<1>2. StagedInv /\ [RefundNext]_refundVars => StagedInv'
  BY StagedStep
<1>3. StagedInv => EachLineOnce
  BY DEF StagedInv
<1>4. QED
  BY <1>1, <1>2, <1>3, PTL DEF RefundSpec

LEMMA StockFollowsStep ==
    ASSUME StockFollowsMoney, [RefundNext]_refundVars
    PROVE  StockFollowsMoney'
<1>1. ASSUME NEW l \in Lines, PickLine(l) PROVE StockFollowsMoney'
  <2>1. Remaining(line, "refund")' = Remaining(l, "refund") /\ Remaining(line, "stock")' = Remaining(l, "stock")
    BY <1>1 DEF PickLine, Remaining, Used
  <2>2. QED
    BY <1>1, <2>1 DEF PickLine, StockFollowsMoney
<1>2. ASSUME NEW amount, ChangeRefund(amount) \/ ChangeStock(amount) PROVE StockFollowsMoney'
  BY <1>2 DEF ChangeRefund, ChangeStock, StockFollowsMoney
<1>3. CASE line' = line /\ refund' = refund /\ stock' = stock /\ manual' = manual
  <2>1. Remaining(line, "refund")' = Remaining(line, "refund") /\ Remaining(line, "stock")' = Remaining(line, "stock")
    BY <1>3 DEF Remaining, Used
  <2>2. QED
    BY <1>3, <2>1 DEF StockFollowsMoney
<1>4. CASE line' = NoLine
  BY <1>4 DEF StockFollowsMoney
<1>5. QED
  BY <1>1, <1>2, <1>3, <1>4 DEF RefundNext, WriteLot, AddLine, Unstage, refundVars

(* Until the stock is touched, what comes back is what is paid back, or the   *)
(* two are what choosing the line left (stockQuantityIsManual).              *)
THEOREM StockIsWhatIsPaidBack == RefundSpec => []StockFollowsMoney
<1>1. RefundInit => StockFollowsMoney
  BY DEF RefundInit, StockFollowsMoney
<1>2. StockFollowsMoney /\ [RefundNext]_refundVars => StockFollowsMoney'
  BY StockFollowsStep
<1>3. QED
  BY <1>1, <1>2, PTL DEF RefundSpec
=============================================================================
