------------------------------ MODULE PosMenu ------------------------------
(***************************************************************************)
(* The tabs of the till: the panel that edits the POS categories            *)
(* (frontend/src/features/catalog/PosCategoriesPanel.tsx), its handlers      *)
(* (backend/app/catalog/service.py) and the till that opens at the default   *)
(* one (pages/pos/PosHomePage.tsx, features/pos/CategoryTabs.tsx).           *)
(*                                                                         *)
(* A request loads and checks, then commits; others commit in between.  An  *)
(* administrator has one request under way.                                 *)
(***************************************************************************)
EXTENDS Naturals, FiniteSets

CONSTANTS
    Tabs,           \* the categories there may be
    MenuEditors,    \* who has the panel open
    MenuButtons,    \* bound: the requests that are made
    TillOpen,       \* there is a till
    MenuLosses,     \* requests and answers may be lost
    MostPresses,    \* bound: requests made
    MostStrokes,    \* bound: edits of a draft
    Nowhere

VARIABLES
    menu,       \* [Tabs -> a row of pos_categories, or Nowhere]
    placed,     \* the category of a product, or Nowhere
    seenMenu,   \* [MenuEditors -> the list as last read]
    stale,      \* the administrators whose list is to be read again
    menuDraft,  \* [MenuEditors -> the category being edited as typed, or Nowhere]
    touched,    \* the administrators who have typed in their draft
    press,      \* [MenuEditors -> what is pressed and not answered, or Nowhere]
    tabs,       \* the till's categories as last read, or Nowhere
    tab,        \* the tab the till shows, Nowhere for all products
    presses,    \* Nat: requests made
    strokes,    \* Nat
    only        \* history: those but for whom nobody made a request, if they lost none

menuPanel == <<seenMenu, stale, menuDraft, touched>>
menuTill == <<tabs, tab>>
menuVars == <<menu, placed, menuPanel, menuTill, press, presses, strokes, only>>

OrNowhere(S) == S \cup {Nowhere}

\* "look" stands for the name, the colour and the order.
MenuRows == [look: {0, 1}, default: BOOLEAN, active: BOOLEAN]
MenuDrafts == [id: Tabs, look: {0, 1}, default: BOOLEAN]
AllMenuButtons == {"create", "update", "show", "hide", "delete"}
MenuRequests == [kind: AllMenuButtons, cat: Tabs, body: OrNowhere(MenuDrafts), loaded: OrNowhere(MenuRows),
             step: {"sent", "checked", "done", "refused"}]

PosMenuAssumption ==
    /\ Tabs # {}
    /\ {TillOpen, MenuLosses} \subseteq BOOLEAN
    /\ {MostPresses, MostStrokes} \subseteq Nat
    /\ Nowhere \notin Tabs \cup MenuRows \cup MenuDrafts \cup MenuRequests \cup [Tabs -> OrNowhere(MenuRows)]

(* The rows, the panels, the requests and the till have their types.       *)
MenuTypeOK ==
    /\ menu \in [Tabs -> OrNowhere(MenuRows)]
    /\ placed \in OrNowhere(Tabs)
    /\ seenMenu \in [MenuEditors -> [Tabs -> OrNowhere(MenuRows)]]
    /\ stale \subseteq MenuEditors
    /\ menuDraft \in [MenuEditors -> OrNowhere(MenuDrafts)]
    /\ touched \subseteq {a \in MenuEditors : menuDraft[a] # Nowhere}
    /\ press \in [MenuEditors -> OrNowhere(MenuRequests)]
    /\ tabs \in OrNowhere([Tabs -> OrNowhere(MenuRows)])
    /\ tab \in OrNowhere(Tabs)
    /\ presses \in 0..MostPresses
    /\ strokes \in 0..MostStrokes
    /\ only \subseteq MenuEditors

NewTab(look, default) == [look |-> look, default |-> default, active |-> TRUE]

MenuInit ==
    /\ LET first == CHOOSE c \in Tabs : TRUE IN
       \/ \E d \in BOOLEAN : menu = [c \in Tabs |-> NewTab(0, d /\ c = first)]
       \/ menu = [c \in Tabs |-> IF c = first THEN NewTab(0, TRUE) ELSE Nowhere]
    /\ placed = Nowhere
    /\ seenMenu = [a \in MenuEditors |-> menu]
    /\ stale = {}
    /\ menuDraft = [a \in MenuEditors |-> Nowhere]
    /\ touched = {}
    /\ press = [a \in MenuEditors |-> Nowhere]
    /\ tabs = Nowhere
    /\ tab = Nowhere
    /\ presses = 0
    /\ strokes = 0
    /\ only = MenuEditors

-----------------------------------------------------------------------------
(* The panel *)

\* The list is read again: after an invalidation, or because it is old.
ReadMenu(a) ==
    /\ seenMenu' = [seenMenu EXCEPT ![a] = menu]
    /\ stale' = stale \ {a}
    /\ <<seenMenu', stale'>> # <<seenMenu, stale>>
    /\ UNCHANGED <<menu, placed, menuDraft, touched, menuTill, press, presses, strokes, only>>

MenuDraftOf(c, row) == [id |-> c, look |-> row.look, default |-> row.default]

SetDraft(a, d) ==
    /\ menuDraft' = [menuDraft EXCEPT ![a] = d]
    /\ touched' = touched \ {a}
    /\ UNCHANGED <<menu, placed, seenMenu, stale, menuTill, press, presses, strokes, only>>

\* "Editar" takes a copy of the row; on the one being edited it closes.
EditTab(a, c) ==
    /\ seenMenu[a][c] # Nowhere
    /\ SetDraft(a, IF menuDraft[a] # Nowhere /\ menuDraft[a].id = c THEN Nowhere
                   ELSE MenuDraftOf(c, seenMenu[a][c]))

\* The editor is shown under the row of its category.
Editing(a) == menuDraft[a] # Nowhere /\ seenMenu[a][menuDraft[a].id] # Nowhere

CancelTab(a) == Editing(a) /\ SetDraft(a, Nowhere)

TypeTab(a) ==
    /\ Editing(a)
    /\ strokes < MostStrokes
    /\ strokes' = strokes + 1
    /\ \E look \in {0, 1}, default \in BOOLEAN :
          menuDraft' = [menuDraft EXCEPT ![a] = [@ EXCEPT !.look = look, !.default = default]]
    /\ menuDraft' # menuDraft
    /\ touched' = touched \cup {a}
    /\ UNCHANGED <<menu, placed, seenMenu, stale, menuTill, press, presses, only>>

PressTab(a, kind, c, body) ==
    /\ kind \in MenuButtons
    /\ press[a] = Nowhere
    /\ presses < MostPresses
    /\ presses' = presses + 1
    /\ press' = [press EXCEPT ![a] = [kind |-> kind, cat |-> c, body |-> body,
                                      loaded |-> Nowhere, step |-> "sent"]]
    /\ only' = only \cap {a}
    /\ UNCHANGED <<menu, placed, menuPanel, menuTill, strokes>>

\* "Añadir": the panel sends no default.
CreateTab(a) == \E c \in Tabs, look \in {0, 1} :
    menu[c] = Nowhere /\ PressTab(a, "create", c, [id |-> c, look |-> look, default |-> FALSE])

SaveTab(a) == Editing(a) /\ PressTab(a, "update", menuDraft[a].id, menuDraft[a])

\* "Ocultar" or "Mostrar", by the row as last read
SwitchTab(a) == Editing(a) /\ LET c == menuDraft[a].id IN
    PressTab(a, IF seenMenu[a][c].active THEN "hide" ELSE "show", c, Nowhere)

DeleteTab(a) == Editing(a) /\ PressTab(a, "delete", menuDraft[a].id, Nowhere)

-----------------------------------------------------------------------------
(* The handlers *)

CheckTab(a) ==
    /\ press[a] # Nowhere
    /\ press[a].step = "sent"
    /\ LET r == press[a] IN
       press' = [press EXCEPT ![a] =
           IF \/ r.kind # "create" /\ menu[r.cat] = Nowhere
              \/ r.kind = "delete" /\ placed = r.cat
           THEN [r EXCEPT !.step = "refused"]
           ELSE [r EXCEPT !.step = "checked", !.loaded = menu[r.cat]]]
    /\ UNCHANGED <<menu, placed, menuPanel, menuTill, presses, strokes, only>>

\* The session writes the columns that differ from what it loaded.
Differs(new, loaded, now) == IF new # loaded THEN new ELSE now

\* One default: choosing another clears it in the same transaction.
Updated(r) ==
    LET now == menu[r.cat]
        own == [now EXCEPT !.look = Differs(r.body.look, r.loaded.look, @),
                           !.default = Differs(r.body.default, r.loaded.default, @)] IN
    [c \in Tabs |-> IF c = r.cat THEN own
                    ELSE IF menu[c] # Nowhere /\ r.body.default THEN [menu[c] EXCEPT !.default = FALSE]
                    ELSE menu[c]]

WrittenMenu(r) ==
    CASE r.kind = "create" -> [menu EXCEPT ![r.cat] = NewTab(r.body.look, r.body.default)]
      [] r.kind = "update" -> Updated(r)
      [] r.kind = "show"   -> [menu EXCEPT ![r.cat].active = TRUE]
      [] r.kind = "hide"   -> [menu EXCEPT ![r.cat].active = FALSE,
                                    ![r.cat].default =
                                        IF r.loaded.active THEN Differs(FALSE, r.loaded.default, @) ELSE @]
      [] r.kind = "delete" -> [menu EXCEPT ![r.cat] = Nowhere]

\* The row is still there; a product keeps its category by a foreign key.
MenuConstraints(r) ==
    /\ IF r.kind = "create" THEN menu[r.cat] = Nowhere ELSE menu[r.cat] # Nowhere
    /\ r.kind = "delete" => placed # r.cat

CommitTab(a) ==
    /\ press[a] # Nowhere
    /\ press[a].step = "checked"
    /\ LET r == press[a] IN
       IF MenuConstraints(r)
       THEN menu' = WrittenMenu(r) /\ press' = [press EXCEPT ![a].step = "done"]
       ELSE press' = [press EXCEPT ![a].step = "refused"] /\ UNCHANGED menu
    /\ UNCHANGED <<placed, menuPanel, menuTill, presses, strokes, only>>

\* A product is put into a category elsewhere.
Place(c) ==
    /\ placed = Nowhere
    /\ menu[c] # Nowhere
    /\ placed' = c
    /\ UNCHANGED <<menu, menuPanel, menuTill, press, presses, strokes, only>>

-----------------------------------------------------------------------------
(* The answers *)

\* Every success reads the list again; a saved draft closes.
AnswerTab(a) ==
    /\ press[a] # Nowhere
    /\ press[a].step = "done"
    /\ press' = [press EXCEPT ![a] = Nowhere]
    /\ stale' = stale \cup {a}
    /\ IF press[a].kind = "update"
       THEN menuDraft' = [menuDraft EXCEPT ![a] = Nowhere] /\ touched' = touched \ {a}
       ELSE UNCHANGED <<menuDraft, touched>>
    /\ UNCHANGED <<menu, placed, seenMenu, menuTill, presses, strokes, only>>

\* Refused, or lost: an error is shown.
FailTab(a) ==
    /\ press[a] # Nowhere
    /\ \/ press[a].step = "refused" /\ UNCHANGED only
       \/ MenuLosses /\ press[a].step \in {"sent", "done"} /\ only' = only \ {a}
    /\ press' = [press EXCEPT ![a] = Nowhere]
    /\ UNCHANGED <<menu, placed, menuPanel, menuTill, presses, strokes>>

-----------------------------------------------------------------------------
(* The till *)

ActiveTabs == [c \in Tabs |-> IF menu[c] # Nowhere /\ menu[c].active THEN menu[c] ELSE Nowhere]

\* The categories are read, the first time to open at the default one.
ReadTabs ==
    /\ TillOpen
    /\ tabs' = ActiveTabs
    /\ tabs' # tabs
    /\ tab' = IF tabs # Nowhere THEN tab
              ELSE IF \E c \in Tabs : tabs'[c] # Nowhere /\ tabs'[c].default
              THEN CHOOSE c \in Tabs : tabs'[c] # Nowhere /\ tabs'[c].default ELSE Nowhere
    /\ UNCHANGED <<menu, placed, menuPanel, press, presses, strokes, only>>

ChooseTab(c) ==
    /\ tabs # Nowhere
    /\ IF c = Nowhere THEN TRUE ELSE tabs[c] # Nowhere
    /\ tab' = c
    /\ tab' # tab
    /\ UNCHANGED <<menu, placed, menuPanel, tabs, press, presses, strokes, only>>

-----------------------------------------------------------------------------
MenuNext ==
    \/ \E c \in Tabs : Place(c)
    \/ ReadTabs
    \/ ChooseTab(Nowhere)
    \/ \E c \in Tabs : ChooseTab(c)
    \/ \E a \in MenuEditors :
          \/ \E c \in Tabs : EditTab(a, c)
          \/ ReadMenu(a) \/ CancelTab(a) \/ TypeTab(a)
          \/ CreateTab(a) \/ SaveTab(a) \/ SwitchTab(a) \/ DeleteTab(a)
          \/ CheckTab(a) \/ CommitTab(a) \/ AnswerTab(a) \/ FailTab(a)

MenuSpec == MenuInit /\ [][MenuNext]_menuVars

-----------------------------------------------------------------------------
(* Deleting a category while a product is put into it: the category of a    *)
(* product exists.                                                          *)
ProductsPlaced == placed # Nowhere => menu[placed] # Nowhere

(* An administrator who works alone, awaits nothing and lost no answer sees   *)
(* what is stored, the category that lost the default included.             *)
MenuIsCurrent == \A a \in only : (press[a] = Nowhere /\ a \notin stale) => seenMenu[a] = menu

(* Nobody moves the cashier from a tab: after the first read another        *)
(* default changes nothing at a till that is working.                       *)
TabStays == (tabs # Nowhere /\ tabs' # tabs) => tab' = tab
=============================================================================
