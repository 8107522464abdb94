------------------------------ MODULE LiveCatalog ------------------------------
(***************************************************************************)
(* How a price reaches the tills: the panel saves rows in transactions of    *)
(* any length, every till polls a version of the catalogue                  *)
(* (backend/app/catalog/version.py) and fetches the rows again when it has    *)
(* changed (frontend/src/features/pos/useLiveCatalog.ts).  One table stands  *)
(* for the watched ones, a version for its hash.                            *)
(***************************************************************************)
EXTENDS Naturals, FiniteSets

LOCAL INSTANCE FiniteSetsExt

CONSTANTS
    Items,      \* ids a row of the table may take; none is ever reused
    Initial,    \* SUBSET Items: the rows at the start
    Deletable,  \* SUBSET Items: a product is deactivated, an image is deleted
    Contents,   \* what a row may hold
    Writers,    \* concurrent transactions
    Tills,
    LastStart,  \* bound: transactions that write
    NoVersion   \* a till has seen none yet

LiveCatalogAssumption ==
    /\ Initial \subseteq Items
    /\ Deletable \subseteq Items
    /\ LastStart \in Nat
    /\ {"unborn", "deleted"} \cap Contents = {}
    /\ NoVersion \notin Nat \X Nat

VARIABLES
    clock,   \* Nat: the start of the youngest transaction
    began,   \* [Writers -> Nat]: the start of a writer's transaction, 0 for none
    row,     \* [Items -> Contents \cup {"unborn", "deleted"}]
    stamp,   \* [Items -> Nat]: updated_at
    shown,   \* [Tills -> the Listing a till has fetched]
    seen,    \* [Tills -> versions, or NoVersion]: the last one it acted upon
    due,     \* [Tills -> BOOLEAN]: the rows are being fetched
    behind   \* history: [Tills -> BOOLEAN], it stopped fetching with old rows

writerVars == <<clock, began, row, stamp>>
tillVars == <<shown, seen, due, behind>>
vars == <<writerVars, tillVars>>

Existing == {i \in Items : row[i] \in Contents}

\* What a till gets when it fetches now.
Listing == [i \in Existing |-> row[i]]

Latest == Max({0} \cup {stamp[i] : i \in Existing})

\* catalog_version: count(*), max(updated_at).
Version == <<Cardinality(Existing), Latest>>

-----------------------------------------------------------------------------
(* The panel.                                                              *)

\* A transaction starts: now() stands still until it ends.
Start(w) ==
    /\ began[w] = 0
    /\ clock < LastStart
    /\ clock' = clock + 1
    /\ began' = [began EXCEPT ![w] = clock + 1]
    /\ UNCHANGED <<row, stamp, tillVars>>

\* It changes, creates or deletes a row and commits.
Save(w, i, content) ==
    /\ began[w] # 0
    /\ row[i] # content
    /\ row[i] # "deleted"
    /\ content = "deleted" => i \in Deletable /\ row[i] # "unborn"
    /\ row' = [row EXCEPT ![i] = content]
    /\ stamp' = [stamp EXCEPT ![i] = began[w]]
    /\ began' = [began EXCEPT ![w] = 0]
    /\ UNCHANGED <<clock, tillVars>>

\* It ends without a change.
Drop(w) ==
    /\ began[w] # 0
    /\ began' = [began EXCEPT ![w] = 0]
    /\ UNCHANGED <<clock, row, stamp, tillVars>>

-----------------------------------------------------------------------------
(* The tills.                                                              *)

\* A version arrives.  The first one starts no fetch: "la primera que llega no
\* refresca nada".
Poll(t) ==
    /\ seen[t] # Version
    /\ seen' = [seen EXCEPT ![t] = Version]
    /\ IF seen[t] = NoVersion
       THEN /\ behind' = [behind EXCEPT ![t] = ~due[t] /\ shown[t] # Listing]
            /\ UNCHANGED due
       ELSE /\ due' = [due EXCEPT ![t] = TRUE]
            /\ UNCHANGED behind
    /\ UNCHANGED <<shown, writerVars>>

Fetch(t) ==
    /\ shown' = [shown EXCEPT ![t] = Listing]
    /\ due' = [due EXCEPT ![t] = FALSE]
    /\ behind' = [behind EXCEPT ![t] = FALSE]
    /\ UNCHANGED <<seen, writerVars>>

\* The fetch failed more often than it is retried; the version stays seen.
GiveUp(t) ==
    /\ due[t]
    /\ due' = [due EXCEPT ![t] = FALSE]
    /\ behind' = [behind EXCEPT ![t] = shown[t] # Listing]
    /\ UNCHANGED <<shown, seen, writerVars>>

\* The rows asked for on the first display or after a new version.
Refetch(t) == due[t] /\ (Fetch(t) \/ GiveUp(t))

\* Another list of the till is opened with rows older than staleTime.
Reopen(t) == ~due[t] /\ Fetch(t)

\* The page is loaded again.
Reload(t) ==
    /\ seen' = [seen EXCEPT ![t] = NoVersion]
    /\ due' = [due EXCEPT ![t] = TRUE]
    /\ UNCHANGED <<shown, behind, writerVars>>

Init ==
    /\ clock = 0
    /\ began = [w \in Writers |-> 0]
    /\ \E f \in [Items -> Contents] :
          row = [i \in Items |-> IF i \in Initial THEN f[i] ELSE "unborn"]
    /\ stamp = [i \in Items |-> 0]
    /\ shown = [t \in Tills |-> Listing]
    /\ seen = [t \in Tills |-> NoVersion]
    /\ due = [t \in Tills |-> TRUE]
    /\ behind = [t \in Tills |-> FALSE]

Next ==
    \/ \E w \in Writers : Start(w) \/ Drop(w)
    \/ \E w \in Writers, i \in Items, content \in Contents \cup {"deleted"} :
            Save(w, i, content)
    \/ \E t \in Tills : Poll(t) \/ Refetch(t) \/ Reopen(t) \/ Reload(t)

Spec == Init /\ [][Next]_vars

\* A till polls every few seconds and a fetch ends.  Nobody need open a list or
\* load the page.
FairSpec == Spec /\ \A t \in Tills : WF_vars(Poll(t)) /\ WF_vars(Refetch(t))

-----------------------------------------------------------------------------
(* Properties.                                                             *)

(* A till comes to show what the panel has saved, unless it stopped with old *)
(* rows: its first version was younger than they were, or the fetch failed.  *)
(* (useLiveCatalog)                                                         *)
TillCatchesUp == \A t \in Tills : []<>(shown[t] = Listing \/ behind[t])
=============================================================================
