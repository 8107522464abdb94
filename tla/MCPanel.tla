------------------------------ MODULE MCPanel ------------------------------
(***************************************************************************)
(* Pages of the panel, checked together: the accounts and their roles, the   *)
(* categories with their units, and the menu of the tills.  They share no    *)
(* state, so a behaviour is about one of them, under the bounds of one case, *)
(* and leaves the others as they started.  The constants of Access are those *)
(* of the case "cards": one administrator at a time saves what the cards say. *)
(* Those of CategoriesPage are wide enough for its cases, which use parts.   *)
(***************************************************************************)
EXTENDS Access, CategoriesPage

CONSTANTS ana, eva, leo, boss, clerk

VARIABLE case    \* which page, under which bounds

\* Two administrators take each other's account away.
Purge == INSTANCE Access WITH
    Kinds <- {"edit", "activate", "deactivate"}, AtOnce <- 3, LastEdit <- 1

\* One administrator uses every button of the categories and the units.
Alone == INSTANCE Categories WITH Losses <- FALSE

\* Two administrators create, rename and delete categories, and answers are lost.
Names == INSTANCE Categories WITH Buttons <- {"create", "basics", "delete"}

\* One administrator changes the menu of a till that is working.
Menu == INSTANCE PosMenu WITH MenuLosses <- FALSE

\* Two administrators change one menu, and answers are lost.
Menus == INSTANCE PosMenu WITH
    MenuButtons <- {"create", "update", "delete"}, TillOpen <- FALSE, MostStrokes <- 0

ASSUME
    /\ AccessAssumption /\ Purge!AccessAssumption
    /\ CategoriesAssumption /\ Alone!CategoriesAssumption /\ Names!CategoriesAssumption
    /\ PosMenuAssumption /\ Menu!PosMenuAssumption /\ Menus!PosMenuAssumption

caseVars == <<case, vars, categoriesVars, menuVars>>

\* Bounds: an administrator who does not open the page
NotManaging(a) == UNCHANGED <<seen[a], editing[a], ticked[a], saving[a]>> /\ \A r \in pending' : r.actor # a
NotEditing(a) == UNCHANGED <<seenCategories[a], seenUnits[a], category[a], request[a]>>
NotOrdering(a) == UNCHANGED <<seenMenu[a], menuDraft[a], press[a]>>

\* Bound: names and units are not changed at once.
NoUnits == \A a \in Editors :
    /\ draft'[a] # Unset => draft'[a].unit = Unset
    /\ request'[a] # Unset /\ request'[a].body # Unset => request'[a].body.unit = Unset

AccountsClosed == Init /\ users = [u \in Users |-> [role |-> boss, active |-> TRUE]]
    /\ roles = [r \in Roles |-> Permissions]
MenuClosed == MenuInit /\ Cardinality({c \in Tabs : menu[c] # Nowhere}) = 1

CasesInit ==
    /\ case \in {"cards", "purge", "units", "names", "menu", "menus"}
    /\ CASE case \in {"cards", "purge"} -> Init /\ users[leo] = None [] OTHER -> AccountsClosed
    /\ CategoriesInit
    /\ CASE case \in {"menu", "menus"} -> MenuInit [] OTHER -> MenuClosed

AccessStep ==
    /\ \/ case = "cards" /\ Next /\ NotManaging(eva)
       \/ case = "purge" /\ Purge!Next
    /\ UNCHANGED <<case, categoriesVars, menuVars>>

CategoriesStep ==
    /\ \/ case = "units" /\ Alone!CategoriesNext /\ NotEditing(eva)
       \/ case = "names" /\ Names!CategoriesNext /\ NoUnits
    /\ UNCHANGED <<case, vars, menuVars>>

MenuStep ==
    /\ \/ case = "menu" /\ Menu!MenuNext /\ NotOrdering(eva)
       \/ case = "menus" /\ Menus!MenuNext
    /\ UNCHANGED <<case, vars, categoriesVars>>

CasesNext == AccessStep \/ CategoriesStep \/ MenuStep

CasesSpec == CasesInit /\ [][CasesNext]_caseVars

=============================================================================
