----------------------------- MODULE Categories -----------------------------
(***************************************************************************)
(* Product categories and units: the panel that edits them (frontend/src/    *)
(* features/catalog/ProductCategoriesPanel.tsx, UnitsPanel.tsx) and the      *)
(* handlers behind it (backend/app/catalog/service.py, pricing/service.py).  *)
(*                                                                         *)
(* Several administrators work at once.  A request reads, checks and then    *)
(* commits; under READ COMMITTED others may commit in between, and the       *)
(* constraints of the database are checked at the commit.  Each has at most  *)
(* one request under way, a step of a save included.                        *)
(***************************************************************************)
EXTENDS Naturals, FiniteSets

CONSTANTS
    Cats,           \* the categories there may be
    CategoryNames,
    UnitNames,
    Editors,        \* who has the panels open
    Buttons,        \* bound: the requests that are made
    Losses,         \* requests and answers may be lost
    MostRequests,   \* bound: requests made
    MostTyped,      \* bound: edits of an editor
    Unset

VARIABLES
    \* the server
    categories,     \* [Cats -> a category, or Unset]
    units,          \* the names of the custom units
    product,        \* a product, or Unset
    \* each administrator's panel
    seenCategories, \* the categories as last read
    seenUnits,      \* the units as last read
    reading,        \* the queries that are being read again
    category,       \* the category whose editor is open, or Unset
    draft,          \* what the editor says, or Unset
    request,        \* what has been pressed and not answered, or Unset
    requests,       \* Nat: requests made
    typings,        \* Nat
    alone           \* history: those but for whom nobody made a request, if they lost none

catalogServer == <<categories, units, product>>
catalogPanel == <<seenCategories, seenUnits, reading, category, draft>>
categoriesVars == <<catalogServer, catalogPanel, request, requests, typings, alone>>

Pricings == {0, 1}
OrUnset(S) == S \cup {Unset}

\* What the form of a category says: its name and default unit go to one
\* endpoint, its margins, formula and taxes to another.
CategoryDrafts == [name: CategoryNames, unit: OrUnset(UnitNames), pricing: Pricings]
CategoryRows == [name: CategoryNames, unit: OrUnset(UnitNames), pricing: Pricings, active: BOOLEAN]

AllButtons == {"create", "basics", "pricing", "show", "hide", "delete", "newUnit", "rename", "dropUnit"}
Queries == {"categories", "units"}
CategoryRequests ==
    [kind: AllButtons, cat: OrUnset(Cats), body: OrUnset(CategoryDrafts),
     unit: OrUnset(UnitNames), to: OrUnset(UnitNames),
     loaded: OrUnset(CategoryRows), step: {"sent", "checked", "done", "refused"}]
Classified == [cat: Cats, unit: UnitNames]

CategoriesAssumption ==
    /\ {} \notin {Cats, CategoryNames, UnitNames}
    /\ Losses \in BOOLEAN
    /\ {MostRequests, MostTyped} \subseteq Nat
    /\ Unset \notin Cats \cup UnitNames \cup CategoryDrafts \cup CategoryRows \cup CategoryRequests \cup Classified

(* The rows, the panels and the requests have their types.                 *)
CategoriesTypeOK ==
    /\ categories \in [Cats -> OrUnset(CategoryRows)]
    /\ units \subseteq UnitNames
    /\ product \in OrUnset(Classified)
    /\ seenCategories \in [Editors -> [Cats -> OrUnset(CategoryRows)]]
    /\ seenUnits \in [Editors -> SUBSET UnitNames]
    /\ reading \in [Editors -> SUBSET Queries]
    /\ category \in [Editors -> OrUnset(Cats)]
    /\ draft \in [Editors -> OrUnset(CategoryDrafts)]
    /\ request \in [Editors -> OrUnset(CategoryRequests)]
    /\ requests \in 0..MostRequests
    /\ typings \in 0..MostTyped
    /\ alone \subseteq Editors

Some(S) == CHOOSE x \in S : TRUE
FirstCategory == [name |-> Some(CategoryNames), unit |-> Unset, pricing |-> 0, active |-> TRUE]

CategoriesInit ==
    /\ categories = [c \in Cats |-> IF c = Some(Cats) THEN FirstCategory ELSE Unset]
    /\ units = {Some(UnitNames)}
    /\ product = Unset
    /\ seenCategories = [a \in Editors |-> categories]
    /\ seenUnits = [a \in Editors |-> units]
    /\ reading = [a \in Editors |-> {}]
    /\ category = [a \in Editors |-> Unset]
    /\ draft = [a \in Editors |-> Unset]
    /\ request = [a \in Editors |-> Unset]
    /\ requests = 0
    /\ typings = 0
    /\ alone = Editors

-----------------------------------------------------------------------------
(* The queries *)

\* A query is read again: after an invalidation, or because it is stale.
ReadQuery(a, q) ==
    /\ reading' = [reading EXCEPT ![a] = @ \ {q}]
    /\ IF q = "categories"
       THEN seenCategories' = [seenCategories EXCEPT ![a] = categories] /\ UNCHANGED seenUnits
       ELSE seenUnits' = [seenUnits EXCEPT ![a] = units] /\ UNCHANGED seenCategories
    /\ <<seenCategories', seenUnits', reading'>> # <<seenCategories, seenUnits, reading>>
    /\ category' = [category EXCEPT ![a] = IF @ # Unset /\ seenCategories'[a][@] = Unset THEN Unset ELSE @]
    /\ draft' = [draft EXCEPT ![a] = IF category'[a] = Unset THEN Unset ELSE @]
    /\ UNCHANGED <<catalogServer, request, requests, typings, alone>>

-----------------------------------------------------------------------------
(* The panel *)

DraftOf(row) == [name |-> row.name, unit |-> row.unit, pricing |-> row.pricing]

\* "Editar" and "Cerrar": what was typed in another editor goes, if confirmed.
OpenEditor(a, c) ==
    /\ seenCategories[a][c] # Unset
    /\ category' = [category EXCEPT ![a] = IF @ = c THEN Unset ELSE c]
    /\ draft' = [draft EXCEPT ![a] = IF category[a] = c THEN Unset ELSE DraftOf(seenCategories[a][c])]
    /\ UNCHANGED <<catalogServer, seenCategories, seenUnits, reading, request, requests, typings, alone>>

TypeDraft(a, d) ==
    /\ category[a] # Unset
    /\ d # draft[a]
    /\ d.unit = Unset \/ d.unit \in seenUnits[a] \cup {draft[a].unit}
    /\ typings < MostTyped
    /\ typings' = typings + 1
    /\ draft' = [draft EXCEPT ![a] = d]
    /\ UNCHANGED <<catalogServer, seenCategories, seenUnits, reading, category, request, requests, alone>>

PressButton(a, r) ==
    /\ r.kind \in Buttons
    /\ request[a] = Unset
    /\ requests < MostRequests
    /\ requests' = requests + 1
    /\ request' = [request EXCEPT ![a] = r]
    /\ alone' = alone \cap {a}
    /\ UNCHANGED <<catalogServer, catalogPanel, typings>>

Req(kind, c, body) ==
    [kind |-> kind, cat |-> c, body |-> body, unit |-> Unset, to |-> Unset, loaded |-> Unset, step |-> "sent"]

\* The form for a new category, offered while no editor is open
NewForms(a) == {d \in CategoryDrafts : category[a] = Unset /\ d.unit \in OrUnset(seenUnits[a])}

CreateCategory(a) == \E c \in Cats, d \in NewForms(a) :
    categories[c] = Unset /\ PressButton(a, Req("create", c, d))

Basics(d) == [name |-> d.name, unit |-> d.unit]

\* "Guardar": the first request only when the category, as last read, differs.
SaveCategory(a) ==
    /\ category[a] # Unset
    /\ LET old == seenCategories[a][category[a]] IN
       PressButton(a, Req(IF Basics(draft[a]) # Basics(old) THEN "basics" ELSE "pricing",
                    category[a], draft[a]))

\* "Ocultar" or "Mostrar", by the category as last read
SwitchActive(a) ==
    /\ category[a] # Unset
    /\ LET kind == IF seenCategories[a][category[a]].active THEN "hide" ELSE "show" IN
       PressButton(a, Req(kind, category[a], Unset))

DeleteCategory(a) == category[a] # Unset /\ PressButton(a, Req("delete", category[a], Unset))

AddUnit(a) == \E u \in UnitNames : PressButton(a, [Req("newUnit", Unset, Unset) EXCEPT !.unit = u])

RenameUnit(a) == \E u \in seenUnits[a], v \in UnitNames :
    u # v /\ PressButton(a, [Req("rename", Unset, Unset) EXCEPT !.unit = u, !.to = v])

DropUnit(a) == \E u \in seenUnits[a] : PressButton(a, [Req("dropUnit", Unset, Unset) EXCEPT !.unit = u])

-----------------------------------------------------------------------------
(* The handlers *)

NameFree(name, c) == \A d \in Cats \ {c} : categories[d] = Unset \/ categories[d].name # name
Used(c) == product # Unset /\ product.cat = c

\* What a handler reads and checks before it writes
Accepts(r) ==
    CASE r.kind = "create" -> NameFree(r.body.name, r.cat) /\ r.body.unit \in OrUnset(units)
      [] r.kind = "basics" -> /\ categories[r.cat] # Unset
                              /\ \/ Basics(categories[r.cat]) = Basics(r.body)
                                 \/ /\ NameFree(r.body.name, r.cat)
                                    /\ r.body.unit \in OrUnset(units)
      [] r.kind \in {"pricing", "show", "hide"} -> categories[r.cat] # Unset
      [] r.kind = "delete" -> categories[r.cat] # Unset /\ ~Used(r.cat)
      [] r.kind = "newUnit" -> r.unit \notin units
      [] r.kind = "rename" -> /\ r.unit \in units
                              /\ r.to \notin units
                              /\ product = Unset \/ product.unit # r.unit
                              /\ \A c \in Cats : categories[c] = Unset \/ categories[c].unit # r.unit
      [] r.kind = "dropUnit" -> r.unit \in units

CheckRequest(a) ==
    /\ request[a] # Unset
    /\ request[a].step = "sent"
    /\ LET r == request[a] IN
       request' = [request EXCEPT ![a] = IF Accepts(r)
              THEN [r EXCEPT !.step = "checked",
                             !.loaded = IF r.cat = Unset THEN Unset ELSE categories[r.cat]]
              ELSE [r EXCEPT !.step = "refused"]]
    /\ UNCHANGED <<catalogServer, catalogPanel, requests, typings, alone>>

\* Only the columns that differ from what was loaded are written.
Merged(r) ==
    LET now == categories[r.cat] IN
    CASE r.kind = "create"  -> [name |-> r.body.name, unit |-> r.body.unit, pricing |-> r.body.pricing,
                                active |-> TRUE]
      [] r.kind = "basics"  -> [now EXCEPT
                                  !.name = IF r.body.name # r.loaded.name THEN r.body.name ELSE @,
                                  !.unit = IF r.body.unit # r.loaded.unit THEN r.body.unit ELSE @]
      [] r.kind = "pricing" -> [now EXCEPT !.pricing = IF r.body.pricing # r.loaded.pricing
                                                       THEN r.body.pricing ELSE @]
      [] r.kind \in {"show", "hide"} -> [now EXCEPT !.active = r.kind = "show"]
      [] r.kind = "delete"  -> Unset

\* Mutant: no unique index.
CategoryConstraints_Names(r) ==
    /\ r.kind \in {"basics", "pricing", "show", "hide", "delete"} => categories[r.cat] # Unset
    /\ r.kind = "delete" => ~Used(r.cat)

\* unique (name), and the key by which a product refers to its category
CategoryConstraints(r) ==
    /\ r.kind = "create" => categories[r.cat] = Unset
    /\ r.kind \in {"basics", "pricing", "show", "hide", "delete"} => categories[r.cat] # Unset
    /\ r.kind \in {"create", "basics"} => NameFree(Merged(r).name, r.cat)
    /\ r.kind = "delete" => ~Used(r.cat)
    /\ r.kind = "newUnit" => r.unit \notin units
    /\ r.kind = "rename" => r.to \notin units /\ r.unit \in units
    /\ r.kind = "dropUnit" => r.unit \in units

WriteUnits(r) ==
    /\ units' = CASE r.kind = "newUnit" -> units \cup {r.unit}
                  [] r.kind = "rename" -> (units \ {r.unit}) \cup {r.to}
                  [] r.kind = "dropUnit" -> units \ {r.unit}
    /\ categories' = IF r.kind # "dropUnit" THEN categories
                     ELSE [c \in Cats |-> IF categories[c] # Unset /\ categories[c].unit = r.unit
                                          THEN [categories[c] EXCEPT !.unit = Unset] ELSE categories[c]]

CommitRequest(a) ==
    /\ request[a] # Unset
    /\ request[a].step = "checked"
    /\ LET r == request[a] IN
       IF ~CategoryConstraints(r)
       THEN request' = [request EXCEPT ![a].step = "refused"] /\ UNCHANGED <<categories, units>>
       ELSE /\ request' = [request EXCEPT ![a].step = "done"]
            /\ IF r.cat = Unset THEN WriteUnits(r)
               ELSE categories' = [categories EXCEPT ![r.cat] = Merged(r)] /\ UNCHANGED units
    /\ UNCHANGED <<product, catalogPanel, requests, typings, alone>>

\* A product is created elsewhere.
NewProduct ==
    /\ product = Unset
    /\ \E c \in Cats, u \in units :
          categories[c] # Unset /\ product' = [cat |-> c, unit |-> u]
    /\ UNCHANGED <<categories, units, catalogPanel, request, requests, typings, alone>>

-----------------------------------------------------------------------------
(* The answers *)

\* What a success invalidates
Invalidated(kind) ==
    CASE kind \in {"newUnit", "rename"} -> {"units"}
      [] kind = "dropUnit" -> Queries
      [] OTHER -> {"categories"}

\* Saved in part: the rest follows.  Saved, or deleted: the editor closes.
AnswerRequest(a) ==
    /\ request[a] # Unset
    /\ request[a].step = "done"
    /\ LET r == request[a] IN
       IF r.kind = "basics"
       THEN /\ request' = [request EXCEPT ![a] = [r EXCEPT !.kind = "pricing", !.step = "sent"]]
            /\ UNCHANGED <<reading, category, draft>>
       ELSE /\ request' = [request EXCEPT ![a] = Unset]
            /\ reading' = [reading EXCEPT ![a] = @ \cup Invalidated(r.kind)]
            /\ IF r.kind \in {"pricing", "delete"}
               THEN /\ category' = [category EXCEPT ![a] = Unset]
                    /\ draft' = [draft EXCEPT ![a] = Unset]
               ELSE UNCHANGED <<category, draft>>
    /\ UNCHANGED <<catalogServer, seenCategories, seenUnits, requests, typings, alone>>

\* An error is shown and nothing else happens.
RefuseRequest(a) ==
    /\ request[a] # Unset
    /\ \/ request[a].step = "refused" /\ UNCHANGED alone
       \/ Losses /\ request[a].step \in {"sent", "done"} /\ alone' = alone \ {a}
    /\ request' = [request EXCEPT ![a] = Unset]
    /\ UNCHANGED <<catalogServer, catalogPanel, requests, typings>>

-----------------------------------------------------------------------------
CategoriesNext ==
    \/ NewProduct
    \/ \E a \in Editors :
          \/ \E q \in Queries : ReadQuery(a, q)
          \/ \E c \in Cats : OpenEditor(a, c)
          \/ \E d \in CategoryDrafts : TypeDraft(a, d)
          \/ CreateCategory(a) \/ SaveCategory(a) \/ SwitchActive(a) \/ DeleteCategory(a)
          \/ AddUnit(a) \/ RenameUnit(a) \/ DropUnit(a)
          \/ CheckRequest(a) \/ CommitRequest(a) \/ AnswerRequest(a) \/ RefuseRequest(a)

CategoriesSpec == CategoriesInit /\ [][CategoriesNext]_categoriesVars

-----------------------------------------------------------------------------
(* Deleting a category while a product is being put into it: a product's    *)
(* category exists.                                                         *)
ProductsClassified == product # Unset => categories[product.cat] # Unset

(* Two administrators give one name to two categories: one is refused.      *)
NamesDiffer == \A c, d \in Cats :
    (c # d /\ categories[c] # Unset /\ categories[d] # Unset) => categories[c].name # categories[d].name

(* When an administrator who works alone awaits no answer, and lost none,   *)
(* the screen shows what is stored (invalidate, and UnitsPanel's refresh of  *)
(* the categories that proposed a unit).                                    *)
CatalogIsCurrent == \A a \in alone :
    (request[a] = Unset /\ reading[a] = {}) => (seenCategories[a] = categories /\ seenUnits[a] = units)
=============================================================================
