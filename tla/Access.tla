------------------------------ MODULE Access ------------------------------
(***************************************************************************)
(* Accounts, roles and who may change them: the pages of users and of roles  *)
(* (frontend/src/pages/admin, features/users, features/roles), the handlers *)
(* (backend/app/users, backend/app/rbac) and the rule that somebody can      *)
(* always administer the installation.                                      *)
(*                                                                          *)
(* A request first loads its actor, with the role and its permissions; then, *)
(* under an advisory lock, it does its work.  What it has loaded it does not *)
(* read again: the session of the database keeps one object per row.        *)
(***************************************************************************)
EXTENDS Naturals, FiniteSets

CONSTANTS
    Admins,      \* the accounts that have the pages open
    Users,       \* the accounts there are or may be
    Roles,
    Permissions, \* "manage" is what the pages ask for
    Kinds,       \* bound: the requests that are made
    AtOnce,      \* bound: requests under way
    LastRequest, \* bound: requests made
    LastEdit,    \* bound: edits
    None

AccessAssumption ==
    /\ Admins \subseteq Users
    /\ "manage" \in Permissions
    /\ {AtOnce, LastRequest, LastEdit} \subseteq Nat
    /\ None \notin Users \cup Roles \cup [role: Roles, active: BOOLEAN]

VARIABLES
    users,    \* [Users -> the account, or None]
    roles,    \* [Roles -> SUBSET Permissions]
    seen,     \* [Admins -> users, roles and own permissions as last read]
    editing,  \* [Admins -> the form of an account, or None]
    ticked,   \* [Admins -> what the cards of the roles say]
    saving,   \* [Admins -> the role whose card is being saved, or None]
    pending,  \* requests that were sent and not answered
    made,     \* Nat: requests made
    edits     \* Nat

vars == <<users, roles, seen, editing, ticked, saving, pending, made, edits>>
server == <<users, roles>>
pages == <<seen, editing, ticked, saving>>

Or(S) == S \cup {None}
Accounts == [role: Roles, active: BOOLEAN]
Requests == [kind: {"create", "role", "edit", "activate", "deactivate", "permissions"},
             actor: Admins, user: Or(Users), role: Roles, keys: SUBSET Permissions, nr: 1..LastRequest,
             step: {"sent", "loaded", "done", "refused"},
             view: Or([role: Roles, keys: SUBSET Permissions])]

(* Accounts, roles, pages and requests have their types.                   *)
TypeOK ==
    /\ users \in [Users -> Or(Accounts)]
    /\ roles \in [Roles -> SUBSET Permissions]
    /\ seen \in [Admins -> [users: [Users -> Or(Accounts)], roles: [Roles -> SUBSET Permissions],
                            me: SUBSET Permissions]]
    /\ editing \in [Admins -> Or([user: Users, role: Roles])]
    /\ ticked \in [Admins -> [Roles -> SUBSET Permissions]]
    /\ saving \in [Admins -> Or(Roles)]
    /\ pending \subseteq Requests
    /\ made \in 0..LastRequest
    /\ edits \in 0..LastEdit

\* Those who could give anybody anything back
Recoverers == {u \in Users : IF users[u] = None THEN FALSE
                             ELSE users[u].active /\ roles[users[u].role] = Permissions}

Granted(u) == IF users[u] = None THEN {} ELSE roles[users[u].role]

Init ==
    /\ roles \in [Roles -> {Permissions, {"manage"}}]
    /\ users \in [Users -> Or({[role |-> r, active |-> TRUE] : r \in Roles})]
    /\ \A a \in Admins : users[a] # None
    /\ Recoverers # {}
    /\ seen = [a \in Admins |-> [users |-> users, roles |-> roles, me |-> Granted(a)]]
    /\ editing = [a \in Admins |-> None]
    /\ ticked = [a \in Admins |-> roles]
    /\ saving = [a \in Admins |-> None]
    /\ pending = {}
    /\ made = 0
    /\ edits = 0

-----------------------------------------------------------------------------
(* The pages *)

\* Each list is read again on its own; the cards keep what is ticked.
Read(a, part) ==
    /\ LET now == CASE part = "users" -> users [] part = "roles" -> roles [] OTHER -> Granted(a) IN
       /\ seen[a][part] # now
       /\ seen' = [seen EXCEPT ![a][part] = now]
    /\ UNCHANGED <<server, editing, ticked, saving, pending, made, edits>>

\* Roles with nothing the administrator does not have
Assignable(a) == {r \in Roles : seen[a].roles[r] \subseteq seen[a].me}

\* The row of an account offers its actions.
Manageable(a, u) == IF seen[a].users[u] = None THEN FALSE ELSE seen[a].users[u].role \in Assignable(a)

Busy(a, kind) == \E r \in pending : r.actor = a /\ r.kind = kind

Send(a, kind, u, r, keys) ==
    /\ kind \in Kinds
    /\ made < LastRequest
    /\ Cardinality(pending) < AtOnce
    /\ made' = made + 1
    /\ pending' = pending \cup {[kind |-> kind, actor |-> a, user |-> u, role |-> r, keys |-> keys,
                                 nr |-> made', step |-> "sent", view |-> None]}
    /\ UNCHANGED <<server, seen, editing, ticked, edits>>

Create(a, u, r) ==
    /\ seen[a].users[u] = None
    /\ r \in Assignable(a)
    /\ ~Busy(a, "create")
    /\ Send(a, "create", u, r, {})
    /\ UNCHANGED saving

\* The list of roles in the row, one's own row too
ChangeRole(a, u, r) ==
    /\ Manageable(a, u)
    /\ seen[a].users[u].active
    /\ r \in Assignable(a) \ {seen[a].users[u].role}
    /\ ~Busy(a, "role")
    /\ Send(a, "role", u, r, {})
    /\ UNCHANGED saving

SetActive(a, u) ==
    /\ u # a
    /\ Manageable(a, u)
    /\ LET kind == IF seen[a].users[u].active THEN "deactivate" ELSE "activate" IN
       /\ ~Busy(a, kind)
       /\ Send(a, kind, u, seen[a].users[u].role, {})
    /\ UNCHANGED saving

Edit(a) ==
    /\ edits < LastEdit
    /\ edits' = edits + 1
    /\ UNCHANGED <<server, seen, pending, made>>

\* The form keeps the role of the account as it was read.
OpenEdit(a, u) ==
    /\ "edit" \in Kinds
    /\ Edit(a)
    /\ u # a
    /\ Manageable(a, u)
    /\ editing' = [editing EXCEPT ![a] = [user |-> u, role |-> seen[a].users[u].role]]
    /\ UNCHANGED <<ticked, saving>>

EditRole(a, r) ==
    /\ Edit(a)
    /\ editing[a] # None
    /\ r \in Assignable(a) \ {editing[a].role}
    /\ editing' = [editing EXCEPT ![a].role = r]
    /\ UNCHANGED <<ticked, saving>>

SaveEdit(a) ==
    /\ editing[a] # None
    /\ ~Busy(a, "edit")
    /\ Send(a, "edit", editing[a].user, editing[a].role, {})
    /\ UNCHANGED saving

Tick(a, r, key) ==
    /\ "permissions" \in Kinds
    /\ Edit(a)
    /\ ticked' = [ticked EXCEPT ![a][r] = IF key \in @ THEN @ \ {key} ELSE @ \cup {key}]
    /\ UNCHANGED <<editing, saving>>

\* "Guardar cambios" is there when the card differs from the role as read.
SaveRole(a, r) ==
    /\ ticked[a][r] # seen[a].roles[r]
    /\ saving[a] # r
    /\ Send(a, "permissions", None, r, ticked[a][r])
    /\ saving' = [saving EXCEPT ![a] = r]

Undo(a, r) ==
    /\ ticked[a][r] # seen[a].roles[r]
    /\ saving[a] # r
    /\ ticked' = [ticked EXCEPT ![a][r] = seen[a].roles[r]]
    /\ UNCHANGED <<server, seen, editing, saving, pending, made, edits>>

-----------------------------------------------------------------------------
(* The handlers *)

Step(r, new) == pending' = (pending \ {r}) \cup {new}

\* The session's account, with its role and permissions
Load(r) ==
    /\ r.step = "sent"
    /\ IF users[r.actor].active /\ "manage" \in Granted(r.actor)
       THEN Step(r, [r EXCEPT !.step = "loaded",
                              !.view = [role |-> users[r.actor].role, keys |-> Granted(r.actor)]])
       ELSE Step(r, [r EXCEPT !.step = "refused"])
    /\ UNCHANGED <<server, pages, made, edits>>

\* What the request knows of a role or an account: what it has loaded, if it
\* has, or what is there.
RoleKnown(r, role) == IF role = r.view.role THEN r.view.keys ELSE roles[role]
UserKnown(r, u) == IF u = r.actor THEN [role |-> r.view.role, active |-> TRUE] ELSE users[u]
KeysKnown(r, u) == RoleKnown(r, UserKnown(r, u).role)

\* Mutant: the account itself is counted among the others.
OthersRecover_All(S) == Recoverers # {}
OthersRecover(S) == Recoverers \ S # {}

\* An account that can recover stays so, or there are others.
UserKeepsRecovery(r, keys, active) ==
    \/ KeysKnown(r, r.user) # Permissions \/ ~UserKnown(r, r.user).active
    \/ keys = Permissions /\ active
    \/ OthersRecover({r.user})

RoleKeepsRecovery(r) ==
    \/ RoleKnown(r, r.role) # Permissions
    \/ r.keys = Permissions
    \/ OthersRecover({u \in Users : IF users[u] = None THEN FALSE ELSE users[u].role = r.role})

\* Permissions are written as the difference with those that were loaded: rows
\* that are there already, or no more, are an error.
Added(r) == r.keys \ RoleKnown(r, r.role)
Removed(r) == RoleKnown(r, r.role) \ r.keys

Allowed(r) ==
    CASE r.kind = "create" -> users[r.user] = None /\ RoleKnown(r, r.role) \subseteq r.view.keys
      [] r.kind = "permissions" -> /\ r.keys \subseteq r.view.keys
                                   /\ RoleKeepsRecovery(r)
                                   /\ Added(r) \cap roles[r.role] = {} /\ Removed(r) \subseteq roles[r.role]
      [] OTHER -> /\ users[r.user] # None
                  /\ KeysKnown(r, r.user) \subseteq r.view.keys
                  /\ r.kind \in {"role", "edit"} =>
                        /\ RoleKnown(r, r.role) \subseteq r.view.keys
                        /\ UserKeepsRecovery(r, RoleKnown(r, r.role), UserKnown(r, r.user).active)
                  /\ r.kind = "deactivate" => UserKeepsRecovery(r, KeysKnown(r, r.user), FALSE)

WrittenUsers(r) ==
    CASE r.kind = "create" -> [users EXCEPT ![r.user] = [role |-> r.role, active |-> TRUE]]
      [] r.kind = "activate" -> [users EXCEPT ![r.user].active = TRUE]
      [] r.kind = "deactivate" -> [users EXCEPT ![r.user].active = FALSE]
      [] r.kind \in {"role", "edit"} -> IF r.role = UserKnown(r, r.user).role THEN users
                                        ELSE [users EXCEPT ![r.user].role = r.role]
      [] OTHER -> users

\* Mutant: permissions are added and never taken away.
WrittenRoles_Added(r) ==
    IF r.kind = "permissions" THEN [roles EXCEPT ![r.role] = @ \cup Added(r)] ELSE roles

WrittenRoles(r) ==
    IF r.kind = "permissions" THEN [roles EXCEPT ![r.role] = (@ \ Removed(r)) \cup Added(r)] ELSE roles

Run(r) ==
    /\ r.step = "loaded"
    /\ IF Allowed(r)
       THEN /\ Step(r, [r EXCEPT !.step = "done"])
            /\ users' = WrittenUsers(r)
            /\ roles' = WrittenRoles(r)
       ELSE Step(r, [r EXCEPT !.step = "refused"]) /\ UNCHANGED server
    /\ UNCHANGED <<pages, made, edits>>

\* A success closes the form of an account, whichever it is of; the card
\* is no longer being saved, whichever it is.
Answer(r) ==
    /\ r.step \in {"done", "refused"}
    /\ pending' = pending \ {r}
    /\ editing' = [editing EXCEPT ![r.actor] = IF r.kind = "edit" /\ r.step = "done" THEN None ELSE @]
    /\ saving' = [saving EXCEPT ![r.actor] = IF r.kind = "permissions" THEN None ELSE @]
    /\ UNCHANGED <<server, seen, ticked, made, edits>>

-----------------------------------------------------------------------------
Next ==
    \/ \E a \in Admins :
          \/ \E part \in {"users", "roles", "me"} : Read(a, part)
          \/ \E u \in Users :
                \/ \E r \in Roles : Create(a, u, r) \/ ChangeRole(a, u, r)
                \/ SetActive(a, u) \/ OpenEdit(a, u)
          \/ \E r \in Roles :
                \/ EditRole(a, r) \/ SaveRole(a, r) \/ Undo(a, r)
                \/ \E key \in Permissions : Tick(a, r, key)
          \/ SaveEdit(a)
    \/ \E r \in pending : Load(r) \/ Run(r) \/ Answer(r)

Spec == Init /\ [][Next]_vars

-----------------------------------------------------------------------------
(* docs/ARCHITECTURE.md: the policies keep the last active administrator who  *)
(* could give everything back from being removed.                           *)
SomeoneCanRecover == Recoverers # {}

(* RoleCard.tsx: saving a card replaces the whole set of permissions of the   *)
(* role, so a role never ends up with a set that nobody ticked, as long as   *)
(* one request is served at a time; the rows, the pages and the requests     *)
(* have their types.                                                        *)
SetAsTicked ==
    \A r \in pending : (r.kind = "permissions" /\ r.step = "loaded" /\ [r EXCEPT !.step = "done"] \in pending')
        => roles'[r.role] = r.keys
WorkIsKept == []TypeOK /\ [][SetAsTicked]_vars
=============================================================================
