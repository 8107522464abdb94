------------------------------- MODULE Refunds -------------------------------
(***************************************************************************)
(* The return screens, at the till (frontend/src/pages/pos/PosReturnsPage)   *)
(* and in the panel (frontend/src/pages/admin/ReturnsPage), with the form    *)
(* they show (features/returns/CreateReturnForm) and the server they call    *)
(* (backend/app/returns/service.py): the sale looked up, its cached lines,   *)
(* the lines staged, the attempt with its idempotency key, and the answer.   *)
(*                                                                         *)
(* Quantities are whole packages; RefundEntry.tla is about their decimals.   *)
(* The notes and the lot number are data the supervisor edits with the       *)
(* refund method: the method stands for the three.  A number that names no   *)
(* sale shows no form, as before any search.                                *)
(***************************************************************************)
EXTENDS Naturals, Sequences, Functions

CONSTANTS
    Page,          \* "pos" or "panel": which of the two screens
    Sales,         \* completed sales
    Lines,         \* their lines
    SaleOf,        \* [Lines -> Sales]
    Bought,        \* [Lines -> packages sold]
    LastKey,       \* bound: idempotency keys drawn
    LastSearch,    \* bound: searches
    LastEdit,      \* bound: changes of the staged lines or of the method
    LastElsewhere, \* bound: returns registered by another supervisor
    None

VARIABLES
    \* the server
    refunded,   \* [Lines -> packages whose money was given back]
    returned,   \* [Lines -> packages back in stock]
    made,       \* the returns registered here, each with its key
    dayOpen,    \* no final Z yet today
    elsewhere,  \* Nat: returns registered by others
    \* the screen
    shown,      \* the sale looked up, or None
    cached,     \* [Sales -> what the screen last read of its lines, or None]
    stale,      \* sales whose cached lines are to be read again
    staged,     \* stagedLines, in order
    method,     \* the refund method (and the notes)
    confirming, \* the confirmation dialog is open
    attempt,    \* the payload last submitted, with its key, or None
    success,    \* the banner "Devolución registrada correctamente."
    error,      \* the text of the last error is shown
    drawn,      \* Nat: keys drawn
    \* between them
    req,        \* the request in flight, or None
    late,       \* requests whose screen is gone
    edits,      \* history: version of the staged list
    searches    \* history: searches done

server == <<refunded, returned, made, dayOpen, elsewhere>>
form == <<staged, method, confirming>>
screen == <<shown, cached, stale, attempt, success, error>>
vars == <<server, form, screen, drawn, req, late, edits, searches>>

Keys == 1..LastKey
Methods == {"CASH", "CARD"}
Packages == 0..2
StagedLines == [line: Lines, refund: Packages, stock: Packages]
Payloads == [lines: Seq(StagedLines), method: Methods \cup {None}]
Requests ==
    [sale: Sales, payload: Payloads, key: Keys, edit: Nat, search: Nat,
     stage: {"sent", "answered", "refused", "lost"}]

\* What the screen reads of a sale, and what it remembers of a submission
Reads == [refunded: [Lines -> Nat], returned: [Lines -> Nat]]
Submissions == [payload: Payloads, key: Keys]

RefundsAssumption ==
    /\ Page \in {"pos", "panel"}
    /\ SaleOf \in [Lines -> Sales]
    /\ Bought \in [Lines -> Nat]
    /\ {LastKey, LastSearch, LastEdit, LastElsewhere} \subseteq Nat
    /\ None \notin Sales \cup Nat \cup Reads \cup Submissions

(* The server, the screen and the messages have their types.               *)
TypeOK ==
    /\ {refunded, returned} \subseteq [Lines -> Nat]
    /\ made \subseteq [sale: Sales, payload: Payloads, key: Keys, edit: Nat, search: Nat]
    /\ dayOpen \in BOOLEAN
    /\ shown \in Sales \cup {None}
    /\ cached \in [Sales -> Reads \cup {None}]
    /\ stale \subseteq Sales
    /\ staged \in Seq(StagedLines)
    /\ method \in Methods
    /\ {confirming, success, error} \subseteq BOOLEAN
    /\ attempt \in Submissions \cup {None}
    /\ drawn \in 0..LastKey
    /\ req = None \/ req \in Requests
    /\ late \subseteq Requests
    /\ {edits, searches, elsewhere} \subseteq Nat

Init ==
    /\ refunded = [l \in Lines |-> 0]
    /\ returned = [l \in Lines |-> 0]
    /\ made = {}
    /\ dayOpen = TRUE
    /\ elsewhere = 0
    /\ shown = None
    /\ cached = [s \in Sales |-> None]
    /\ stale = {}
    /\ staged = <<>>
    /\ method = "CASH"
    /\ confirming = FALSE
    /\ attempt = None
    /\ success = FALSE
    /\ error = FALSE
    /\ drawn = 0
    /\ req = None
    /\ late = {}
    /\ edits = 0
    /\ searches = 0

-----------------------------------------------------------------------------
(* The server *)

Amount(lines, l, field) ==
    SumFunction([i \in {j \in DOMAIN lines : lines[j].line = l} |-> lines[i][field]])

\* The lines are of the sale and no capacity is exceeded, neither of money nor
\* of merchandise; money needs the day open.
Accepts(r) ==
    /\ \A i \in DOMAIN r.payload.lines : SaleOf[r.payload.lines[i].line] = r.sale
    /\ \A l \in Lines :
          /\ refunded[l] + Amount(r.payload.lines, l, "refund") <= Bought[l]
          /\ returned[l] + Amount(r.payload.lines, l, "stock") <= Bought[l]
    /\ (\E i \in DOMAIN r.payload.lines : r.payload.lines[i].refund > 0) => dayOpen

\* The return already registered under the key, if it is the same request.
Claimed(r) == {m \in made : m.key = r.key}
Same(m, r) == m.sale = r.sale /\ m.payload = r.payload

\* The Return row and both accumulators of each line.
Register(r) ==
    /\ made' = made \cup {[sale |-> r.sale, payload |-> r.payload, key |-> r.key,
                           edit |-> r.edit, search |-> r.search]}
    /\ refunded' = [l \in Lines |-> refunded[l] + Amount(r.payload.lines, l, "refund")]
    /\ returned' = [l \in Lines |-> returned[l] + Amount(r.payload.lines, l, "stock")]

\* create_return: replay a claimed key, refuse, or register; answered says which.
Serve(r, answered) ==
    \/ /\ Claimed(r) # {}
       /\ answered = \E m \in Claimed(r) : Same(m, r)
       /\ UNCHANGED <<made, refunded, returned>>
    \/ /\ Claimed(r) = {}
       /\ answered = Accepts(r)
       /\ IF answered THEN Register(r) ELSE UNCHANGED <<made, refunded, returned>>

\* The same handler, called by another supervisor.
Elsewhere(l) ==
    /\ elsewhere < LastElsewhere
    /\ dayOpen
    /\ refunded[l] < Bought[l]
    /\ refunded' = [refunded EXCEPT ![l] = @ + 1]
    /\ elsewhere' = elsewhere + 1
    /\ UNCHANGED <<returned, made, dayOpen, form, screen, drawn, req, late, edits, searches>>

\* The final Z of the day, until which money is given back.
CloseDay ==
    /\ dayOpen
    /\ dayOpen' = FALSE
    /\ UNCHANGED <<refunded, returned, made, elsewhere, form, screen, drawn, req, late, edits, searches>>

-----------------------------------------------------------------------------
(* The screen *)

\* The form is mounted while the lines of the sale looked up are in the cache.
Mounted(s, lines) == s # None /\ lines[s] # None

EmptyForm == staged' = <<>> /\ method' = "CASH" /\ confirming' = FALSE /\ edits' = edits + 1
KeepForm == UNCHANGED <<form, edits>>

\* What the two screens forget when another number is searched.
Look(s) ==
    /\ searches < LastSearch
    /\ attempt' = None
    /\ success' = FALSE
    /\ shown' = s
    /\ searches' = searches + 1
    /\ \E old \in BOOLEAN : stale' = IF s # None /\ old THEN stale \cup {s} ELSE stale
    /\ IF Mounted(s, cached) THEN KeepForm ELSE EmptyForm
    /\ UNCHANGED <<server, cached, drawn, req, late>>

\* search() at the till, also of the number already shown
SearchAtTill(s) == Page = "pos" /\ error' = FALSE /\ Look(s)

\* search() in the panel, which leaves the text of the error
SearchInPanel(s) == Page = "panel" /\ error' = error /\ Look(s)

\* "Volver al panel de devoluciones"
BackToPanel ==
    /\ success
    /\ shown # None
    /\ error' = FALSE
    /\ Look(None)

\* The sale is read: the first time, or again when it is stale.
ReadSale ==
    /\ shown # None
    /\ cached[shown] = None \/ shown \in stale
    /\ cached' = [cached EXCEPT ![shown] = [refunded |-> refunded, returned |-> returned]]
    /\ stale' = stale \ {shown}
    /\ UNCHANGED <<server, form, shown, attempt, success, error, drawn, req, late, edits, searches>>

Remaining(l) ==
    [refund |-> Bought[l] - cached[shown].refunded[l],
     stock |-> Bought[l] - cached[shown].returned[l]]

StagedIds == {staged[i].line : i \in DOMAIN staged}

\* "Añadir a la devolución": within what the cached sale has left.
AddLine(l, refund, stock) ==
    /\ Mounted(shown, cached)
    /\ edits < LastEdit
    /\ SaleOf[l] = shown
    /\ l \notin StagedIds
    /\ refund + stock > 0
    /\ refund <= Remaining(l).refund
    /\ stock <= Remaining(l).stock
    /\ staged' = Append(staged, [line |-> l, refund |-> refund, stock |-> stock])
    /\ edits' = edits + 1
    /\ UNCHANGED <<server, method, confirming, screen, drawn, req, late, searches>>

\* "Quitar"
Unstage(i) ==
    /\ Mounted(shown, cached)
    /\ edits < LastEdit
    /\ staged' = SubSeq(staged, 1, i - 1) \o SubSeq(staged, i + 1, Len(staged))
    /\ edits' = edits + 1
    /\ UNCHANGED <<server, method, confirming, screen, drawn, req, late, searches>>

HasEconomicEffect == \E i \in DOMAIN staged : staged[i].refund > 0

ChooseMethod(m) ==
    /\ Mounted(shown, cached)
    /\ HasEconomicEffect
    /\ edits < LastEdit
    /\ m # method
    /\ method' = m
    /\ edits' = edits + 1
    /\ UNCHANGED <<server, staged, confirming, screen, drawn, req, late, searches>>

\* "Registrar devolución", and "Cancelar" of its dialog
AskToConfirm ==
    /\ Mounted(shown, cached)
    /\ confirming \/ (req = None /\ staged # <<>>)
    /\ confirming' = ~confirming
    /\ UNCHANGED <<server, staged, method, screen, drawn, req, late, edits, searches>>

Payload == [lines |-> staged, method |-> IF HasEconomicEffect THEN method ELSE None]

\* Mutant: every submission draws a key.
Attempts_Fresh(payload) ==
    {[payload |-> payload, key |-> k] : k \in {drawn + 1} \cap Keys}

\* The same payload keeps its key, another one draws one.
Attempts(payload) ==
    IF attempt # None /\ attempt.payload = payload THEN {attempt}
    ELSE {[payload |-> payload, key |-> k] : k \in {drawn + 1} \cap Keys}

\* submit and onSubmit: a request of the sale shown
Submit ==
    /\ Mounted(shown, cached)
    /\ confirming
    /\ staged # <<>>
    /\ req = None
    /\ confirming' = FALSE
    /\ success' = FALSE
    /\ \E a \in Attempts(Payload) :
          /\ attempt' = a
          /\ drawn' = IF a.key > drawn THEN a.key ELSE drawn
          /\ req' = [sale |-> shown, payload |-> Payload, key |-> a.key,
                     edit |-> edits, search |-> searches, stage |-> "sent"]
    /\ UNCHANGED <<server, staged, method, shown, cached, stale, error, late, edits, searches>>

Served ==
    /\ req # None /\ req.stage = "sent"
    /\ \E answered \in BOOLEAN :
          /\ Serve(req, answered)
          /\ req' = [req EXCEPT !.stage = IF answered THEN "answered" ELSE "refused"]
    /\ UNCHANGED <<dayOpen, elsewhere, form, screen, drawn, late, edits, searches>>

\* The request or its answer is lost.
Lose ==
    /\ req # None /\ req.stage \in {"sent", "answered"}
    /\ req' = [req EXCEPT !.stage = "lost"]
    /\ UNCHANGED <<server, form, screen, drawn, late, edits, searches>>

\* onSuccess runs with the sale shown now; the form empties itself.
Succeed ==
    /\ req # None /\ req.stage = "answered"
    /\ req' = None
    /\ attempt' = None
    /\ error' = FALSE
    /\ success' = TRUE
    /\ stale' = IF shown # None THEN stale \cup {shown} ELSE stale
    /\ IF Mounted(shown, cached)
       THEN staged' = <<>> /\ confirming' = FALSE /\ edits' = edits + 1 /\ UNCHANGED method
       ELSE KeepForm
    /\ UNCHANGED <<server, shown, cached, drawn, late, searches>>

\* onError: the till also takes the banner away.
Fail ==
    /\ req # None /\ req.stage \in {"refused", "lost"}
    /\ req' = None
    /\ error' = TRUE
    /\ success' = IF Page = "pos" THEN FALSE ELSE success
    /\ KeepForm
    /\ UNCHANGED <<server, shown, cached, stale, attempt, drawn, late, searches>>

\* Another screen is opened: only the cache and the request survive.
Leave ==
    /\ searches < LastSearch
    /\ shown # None
    /\ shown' = None
    /\ attempt' = None
    /\ success' = FALSE
    /\ error' = FALSE
    /\ req' = None
    /\ late' = IF req = None THEN late ELSE late \cup {req}
    /\ searches' = searches + 1
    /\ EmptyForm
    /\ UNCHANGED <<server, cached, stale, drawn>>

ServedLate(r) ==
    /\ r \in late
    /\ late' = late \ {r}
    /\ \/ r.stage = "sent" /\ \E answered \in BOOLEAN : Serve(r, answered)
       \/ UNCHANGED <<made, refunded, returned>>
    /\ stale' = stale \cup {r.sale}
    /\ UNCHANGED <<dayOpen, elsewhere, form, shown, cached, attempt, success, error, drawn, req, edits, searches>>

-----------------------------------------------------------------------------
Next ==
    \/ \E s \in Sales \cup {None} : SearchAtTill(s) \/ SearchInPanel(s)
    \/ BackToPanel
    \/ ReadSale
    \/ \E l \in Lines, refund, stock \in Packages : AddLine(l, refund, stock)
    \/ \E i \in DOMAIN staged : Unstage(i)
    \/ \E m \in Methods : ChooseMethod(m)
    \/ AskToConfirm
    \/ Submit
    \/ Served
    \/ Lose
    \/ Succeed
    \/ Fail
    \/ Leave
    \/ \E r \in late : ServedLate(r)
    \/ \E l \in Lines : Elsewhere(l)
    \/ CloseDay

Spec == Init /\ [][Next]_vars

\* The request settles, the lost answer after its time, and is handled.
Fairness == WF_vars(Served \/ Lose) /\ WF_vars(Succeed \/ Fail) /\ WF_vars(ReadSale)
FairSpec == Spec /\ Fairness

-----------------------------------------------------------------------------
(* However stale the lines on the screen are, whoever else returns lines of *)
(* the sale, and however often a request is repeated, no more money or      *)
(* merchandise goes back than was sold (the two capacities of               *)
(* create_return).                                                          *)
NeverMoreThanSold ==
    \A l \in Lines : refunded[l] <= Bought[l] /\ returned[l] <= Bought[l]

(* Submitting again the list on the screen, with no search in between,      *)
(* never registers it twice, whatever was lost on the way (the attempt kept *)
(* across errors in PosReturnsPage and ReturnsPage).                        *)
RetryRegistersOnce ==
    \A a, b \in made : (a.edit = b.edit /\ a.search = b.search) => a = b

(* What is tried again counts once.                                         *)
RetriesCountOnce == TypeOK /\ NeverMoreThanSold /\ RetryRegistersOnce

(* A list that was registered and answered is gone from the form: what can  *)
(* be submitted next is another list (submissionSucceeded).                 *)
ListGone == Succeed => ~\E m \in made' : m.edit = edits' /\ staged' # <<>>
AnsweredListIsGone == [][ListGone]_vars

(* A request never stays in flight: the buttons come back                   *)
(* (isPending of the mutation).                                             *)
ButtonsComeBack == (req # None) ~> (req = None)
=============================================================================
