--------------------------- MODULE CategoriesPage ---------------------------
(***************************************************************************)
(* The page of the categories (frontend/src/pages/admin/CategoriesPage.tsx): *)
(* the product categories with the units, and the menu of the tills.  They   *)
(* are different rows behind different endpoints, so the page does what      *)
(* either of them does.                                                     *)
(***************************************************************************)
EXTENDS Categories, PosMenu

PageSpec == CategoriesSpec /\ MenuSpec

(* What refers to something finds it, names tell things apart, whatever      *)
(* administrators delete, create and rename at once; what a page shows when  *)
(* nothing is awaited is what is stored; and a change of the menu leaves the *)
(* cashier at the tab that was chosen (delete_category, update_category,     *)
(* delete_pos_category, PosHomePage).                                       *)
PanelAgrees ==
    /\ [](CategoriesTypeOK /\ ProductsClassified /\ NamesDiffer /\ CatalogIsCurrent)
    /\ [](MenuTypeOK /\ ProductsPlaced /\ MenuIsCurrent)
    /\ [][TabStays]_menuVars
=============================================================================
