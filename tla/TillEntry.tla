------------------------------ MODULE TillEntry ------------------------------
(***************************************************************************)
(* How an article gets into the sale: the product grid, the search dialog,   *)
(* the multiplier, the cold-drink surcharge, the weight and open-price       *)
(* prompts, and the lookup of a scanned code (frontend PosHomePage.tsx and   *)
(* features/pos).  Till.tla is about the sale these lines go to; here there  *)
(* is one.                                                                   *)
(***************************************************************************)
EXTENDS Naturals, Sequences, FiniteSets

CONSTANTS
    Products,
    Kind,       \* [Products -> {"unit", "weight", "open"}]
    LastArticle,\* bound: articles taken
    Patient,    \* the multiplier is only chosen while no lookup is in flight
    GunAtHand,  \* a code may be read while the weight prompt has the focus
    None

VARIABLES
    pending,     \* the multiplier chosen, 1 when it is not
    surcharge,   \* the surcharge button is down
    prompt,      \* [article, scanned, surcharge, valid] of the open prompt, or None
    edit,        \* the lookup or the addition in flight, or None
    searching,   \* the search dialog is open
    lines,       \* the lines the server has added, in order
    wanted,      \* history: the multiplier pressed since the last article
    articles     \* history: what the cashier asked for, article by article

vars == <<pending, surcharge, prompt, edit, searching, lines, wanted, articles>>

Quantities == {"1", "2"}

\* What a line or an article comes to; the number of grams is "grams", digits
\* that are no weight "digits".
Articles ==
    [product: Products, quantity: Quantities \cup {"grams", "digits"}, surcharge: BOOLEAN]

Prompts == [article: Nat, product: Products, scanned: BOOLEAN, surcharge: BOOLEAN, valid: BOOLEAN]

Edits ==
    [do: {"find", "add"}, article: Nat, scanned: BOOLEAN, product: Products,
     quantity: Quantities \cup {"grams", "digits"}, surcharge: BOOLEAN, priced: BOOLEAN,
     stage: {"sent", "answered", "failed"}]

TillEntryAssumption ==
    /\ Kind \in [Products -> {"unit", "weight", "open"}]
    /\ LastArticle \in Nat
    /\ {Patient, GunAtHand} \subseteq BOOLEAN
    /\ None \notin Prompts \cup Edits

(* Prompts, requests and lines have their types.                           *)
TypeOK ==
    /\ pending \in Quantities
    /\ surcharge \in BOOLEAN
    /\ prompt \in Prompts \cup {None}
    /\ edit \in Edits \cup {None}
    /\ searching \in BOOLEAN
    /\ lines \in Seq([article: Nat, product: Products, surcharge: BOOLEAN,
                      quantity: Quantities \cup {"grams", "digits"}])
    /\ wanted \in Quantities
    /\ articles \in Seq(Articles)

Busy == edit # None

\* The grid, the pad and the gun are within reach.
AtGrid == prompt = None /\ ~searching

-----------------------------------------------------------------------------
(* The pad and the buttons.                                                *)

\* QuantityPad is never disabled; "x1" clears it.
ChooseQuantity(q) ==
    /\ AtGrid
    /\ Patient => ~Busy
    /\ pending # q
    /\ pending' = q
    /\ wanted' = q
    /\ UNCHANGED <<surcharge, prompt, edit, searching, lines, articles>>

SurchargeEnabled == AtGrid /\ ~Busy

ToggleSurcharge ==
    /\ SurchargeEnabled
    /\ surcharge' = ~surcharge
    /\ UNCHANGED <<pending, prompt, edit, searching, lines, wanted, articles>>

OpenSearch ==
    /\ AtGrid
    /\ ~Busy
    /\ searching' = TRUE
    /\ UNCHANGED <<pending, surcharge, prompt, edit, lines, wanted, articles>>

CloseSearch ==
    /\ searching
    /\ searching' = FALSE
    /\ UNCHANGED <<pending, surcharge, prompt, edit, lines, wanted, articles>>

-----------------------------------------------------------------------------
(* An article is taken.                                                    *)

This == Len(articles) + 1

QuantityOf(p) ==
    CASE Kind[p] = "unit" -> wanted [] Kind[p] = "weight" -> "grams" [] Kind[p] = "open" -> "1"

Take(p) ==
    /\ Len(articles) < LastArticle
    /\ articles' = Append(articles, [product |-> p, quantity |-> QuantityOf(p), surcharge |-> surcharge])
    /\ wanted' = "1"

Request(do, article, p, scanned, quantity, sur, priced) ==
    [do |-> do, article |-> article, scanned |-> scanned, product |-> p, quantity |-> quantity,
     surcharge |-> sur, priced |-> priced, stage |-> "sent"]

Prompt(article, p, scanned) ==
    [article |-> article, product |-> p, scanned |-> scanned, surcharge |-> surcharge, valid |-> FALSE]

\* "Se consume incluso si el articulo abre el dialogo".
Consumed(p) == "1"

\* pickProduct, from the grid or from the search dialog.
Pick(p) ==
    /\ prompt = None
    /\ ~Busy
    /\ Take(p)
    /\ pending' = Consumed(p)
    /\ surcharge' = FALSE
    /\ searching' = FALSE
    /\ IF Kind[p] = "unit"
       THEN /\ edit' = Request("add", This, p, FALSE, pending, surcharge, FALSE)
            /\ UNCHANGED prompt
       ELSE /\ prompt' = Prompt(This, p, FALSE)
            /\ UNCHANGED edit
    /\ UNCHANGED lines

\* A code is read, or typed and submitted: first it is only looked up.
Scan(p) ==
    /\ AtGrid
    /\ ~Busy
    /\ Take(p)
    /\ edit' = Request("find", This, p, TRUE, "1", FALSE, FALSE)
    /\ UNCHANGED <<pending, surcharge, prompt, searching, lines>>

-----------------------------------------------------------------------------
(* The prompts.                                                            *)

\* Digits from the keypad or the keyboard; zero is no weight and no price.
Type(valid) ==
    /\ prompt # None
    /\ prompt.valid # valid
    /\ prompt' = [prompt EXCEPT !.valid = valid]
    /\ UNCHANGED <<pending, surcharge, edit, searching, lines, wanted, articles>>

\* The prompt stays open until the line is answered.
Add(quantity) ==
    edit' = Request("add", prompt.article, prompt.product, prompt.scanned, quantity,
                    prompt.surcharge, Kind[prompt.product] = "open")

\* Mutant: the prompt does not wait for the line it has asked for.
CanConfirm_Always == prompt.valid

CanConfirm == prompt.valid /\ ~Busy

ConfirmWeight ==
    /\ prompt # None
    /\ Kind[prompt.product] = "weight"
    /\ CanConfirm
    /\ Add("grams")
    /\ UNCHANGED <<pending, surcharge, prompt, searching, lines, wanted, articles>>

ConfirmPrice ==
    /\ prompt # None
    /\ Kind[prompt.product] = "open"
    /\ CanConfirm
    /\ Add("1")
    /\ UNCHANGED <<pending, surcharge, prompt, searching, lines, wanted, articles>>

\* The gun types into the field that has the focus, and its Enter confirms.
ScanIntoWeight ==
    /\ GunAtHand
    /\ prompt # None
    /\ Kind[prompt.product] = "weight"
    /\ ~Busy
    /\ Add("digits")
    /\ UNCHANGED <<pending, surcharge, prompt, searching, lines, wanted, articles>>

\* The weight can be given up while its line is on the way, the price cannot.
CancelPrompt ==
    /\ prompt # None
    /\ Kind[prompt.product] = "open" => ~Busy
    /\ prompt' = None
    /\ UNCHANGED <<pending, surcharge, edit, searching, lines, wanted, articles>>

-----------------------------------------------------------------------------
(* The server and its answers.                                             *)

\* add_line, add_line_by_barcode: an open price takes an entered total.
Serve ==
    /\ edit # None
    /\ edit.stage = "sent"
    /\ \/ /\ edit.do = "find"
          /\ UNCHANGED lines
       \/ /\ edit.do = "add"
          /\ Kind[edit.product] = "open" <=> edit.priced
          /\ lines' = Append(lines, [article |-> edit.article, product |-> edit.product,
                                     quantity |-> edit.quantity, surcharge |-> edit.surcharge])
    /\ edit' = [edit EXCEPT !.stage = "answered"]
    /\ UNCHANGED <<pending, surcharge, prompt, searching, wanted, articles>>

\* Refused, unknown code, or lost on its way to the server.
Fail ==
    /\ edit # None
    /\ edit.stage = "sent"
    /\ edit' = [edit EXCEPT !.stage = "failed"]
    /\ UNCHANGED <<pending, surcharge, prompt, searching, lines, wanted, articles>>

\* The lookup is answered: the multiplier and the surcharge of this moment.
Found ==
    /\ edit # None
    /\ edit.do = "find"
    /\ edit.stage = "answered"
    /\ pending' = "1"
    /\ surcharge' = FALSE
    /\ IF Kind[edit.product] = "weight"
       THEN /\ prompt' = Prompt(edit.article, edit.product, TRUE)
            /\ edit' = None
       ELSE /\ edit' = Request("add", edit.article, edit.product, TRUE, pending, surcharge, FALSE)
            /\ UNCHANGED prompt
    /\ UNCHANGED <<searching, lines, wanted, articles>>

Added ==
    /\ edit # None
    /\ edit.do = "add"
    /\ edit.stage = "answered"
    /\ prompt' = None
    /\ edit' = None
    /\ UNCHANGED <<pending, surcharge, searching, lines, wanted, articles>>

\* The error is shown; a scanned weight is dropped, a tapped one stays, and
\* the pad still shows the multiplier of a code that was not found.
Failed ==
    /\ edit # None
    /\ edit.stage = "failed"
    /\ edit' = None
    /\ prompt' = IF edit.do = "add" /\ edit.scanned THEN None ELSE prompt
    /\ wanted' = IF edit.do = "find" THEN pending ELSE wanted
    /\ UNCHANGED <<pending, surcharge, searching, lines, articles>>

Init ==
    /\ pending = "1"
    /\ surcharge = FALSE
    /\ prompt = None
    /\ edit = None
    /\ searching = FALSE
    /\ lines = << >>
    /\ wanted = "1"
    /\ articles = << >>

Next ==
    \/ \E q \in Quantities : ChooseQuantity(q)
    \/ \E p \in Products : Pick(p) \/ Scan(p)
    \/ \E valid \in BOOLEAN : Type(valid)
    \/ ToggleSurcharge \/ OpenSearch \/ CloseSearch \/ ConfirmWeight \/ ConfirmPrice
    \/ ScanIntoWeight \/ CancelPrompt \/ Serve \/ Fail \/ Found \/ Added \/ Failed

Spec == Init /\ [][Next]_vars

-----------------------------------------------------------------------------
Of(added) == articles[added.article]

(* A line carries the surcharge that was down when its article was taken,    *)
(* through the lookup, the prompt and whatever is touched meanwhile.         *)
SurchargeAsAsked ==
    \A i \in DOMAIN lines : lines[i].surcharge = Of(lines[i]).surcharge

(* "es para el siguiente producto, no un modo en el que quedarse": a line     *)
(* has the quantity chosen before its article was taken.                     *)
AddedAsAsked ==
    \A i \in DOMAIN lines : lines[i].quantity = Of(lines[i]).quantity

(* One article is one line, as long as answers arrive.                      *)
OneLineEach ==
    \A i, j \in DOMAIN lines : lines[i].article = lines[j].article => i = j
=============================================================================
