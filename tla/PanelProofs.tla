----------------------------- MODULE PanelProofs -----------------------------
(***************************************************************************)
(* Proofs about pages of the panel.                                         *)
(*                                                                         *)
(* Access.tla: somebody can always administer the installation, and a role   *)
(* is saved with what was ticked.  The argument is that a request decides on *)
(* what is: what its session has loaded of its actor and of the actor's role *)
(* is still so when it runs.  That is the case when requests are served one  *)
(* at a time, and, for the rule of recovery, when the requests change        *)
(* neither the permissions of a role nor the role of who makes them.  In     *)
(* every other case it is not (the README tells how), and there is no        *)
(* theorem.                                                                 *)
(*                                                                         *)
(* CategoriesPage.tla: what is referred to exists and names differ, because  *)
(* a commit is checked against what is stored then; and who works alone and  *)
(* lost no answer sees what is stored, because what the page does not show   *)
(* yet is being read again or will be when the request under way is answered.*)
(***************************************************************************)
EXTENDS Access, CategoriesPage, FiniteSetTheorems, TLAPS

Lists == [users: [Users -> Or(Accounts)], roles: [Roles -> SUBSET Permissions], me: SUBSET Permissions]
Form == [user: Users, role: Roles]
View == [role: Roles, keys: SUBSET Permissions]

ServerTypes ==
    /\ users \in [Users -> Or(Accounts)]
    /\ \A a \in Admins : users[a] \in Accounts
    /\ roles \in [Roles -> SUBSET Permissions]

PagesTypes ==
    /\ seen \in [Admins -> Lists]
    /\ editing \in [Admins -> Or(Form)]
    /\ \A a \in Admins : editing[a] # None => editing[a].user # a
    /\ ticked \in [Admins -> [Roles -> SUBSET Permissions]]
    /\ saving \in [Admins -> Or(Roles)]
    /\ edits \in 0..LastEdit

\* Only the role of an account is changed from one's own row.
Made(r) ==
    /\ r \in Requests
    /\ r.kind \in Kinds
    /\ r.kind # "permissions" => r.user \in Users
    /\ r.kind \in {"edit", "activate", "deactivate"} => r.user # r.actor
    /\ r.step = "loaded" => r.view \in View

PendingTypes ==
    /\ IsFiniteSet(pending)
    /\ \A r \in pending : Made(r)
    /\ made \in 0..LastRequest

AccessInv == ServerTypes /\ PagesTypes /\ PendingTypes

LEMMA StartHasTypes == ASSUME AccessAssumption, Init PROVE AccessInv
<1>1. ServerTypes
  <2>1. \A r \in Roles : [role |-> r, active |-> TRUE] \in Accounts
    BY DEF Accounts
  <2>2. users \in [Users -> Or(Accounts)]
    BY <2>1 DEF Init, Or
  <2>3. \A a \in Admins : users[a] \in Accounts
    BY <2>2 DEF Init, Or, AccessAssumption
  <2>4. roles \in [Roles -> SUBSET Permissions]
    BY DEF Init, AccessAssumption
  <2>5. QED
    BY <2>2, <2>3, <2>4 DEF ServerTypes
<1>2. \A a \in Admins : Granted(a) \in SUBSET Permissions
  BY <1>1 DEF ServerTypes, Granted, Accounts, AccessAssumption, Or
<1>3. PagesTypes
  BY <1>1, <1>2 DEF Init, PagesTypes, ServerTypes, Lists, Or, AccessAssumption
<1>4. PendingTypes
  BY FS_EmptySet DEF Init, PendingTypes, AccessAssumption
<1>5. QED
  BY <1>1, <1>3, <1>4 DEF AccessInv

LEMMA SendHasTypes ==
    ASSUME AccessAssumption, AccessInv, NEW a \in Admins, NEW r \in Roles, NEW keys \in SUBSET Permissions,
           NEW kind \in {"create", "role", "edit", "activate", "deactivate", "permissions"}, NEW u \in Or(Users),
           kind # "permissions" => u \in Users,
           kind \in {"edit", "activate", "deactivate"} => u # a,
           Send(a, kind, u, r, keys), saving' \in [Admins -> Or(Roles)]
    PROVE  AccessInv'
<1>1. made' = made + 1 /\ made' \in 1..LastRequest
  BY DEF Send, AccessInv, PendingTypes, AccessAssumption
<1>. PICK s : s = [kind |-> kind, actor |-> a, user |-> u, role |-> r, keys |-> keys,
                   nr |-> made', step |-> "sent", view |-> None]
  OBVIOUS
<1>2. pending' = pending \cup {s}
  BY DEF Send
<1>3. Made(s)
  BY <1>1 DEF Made, Send, Requests, Or
<1>4. IsFiniteSet(pending')
  BY <1>2, FS_AddElement DEF AccessInv, PendingTypes
<1>5. PendingTypes'
  BY <1>1, <1>2, <1>3, <1>4 DEF AccessInv, PendingTypes, Made
<1>6. QED
  BY <1>5 DEF AccessInv, ServerTypes, PagesTypes, Send, server

LEMMA PagesHaveTypes ==
    ASSUME AccessAssumption, AccessInv, UNCHANGED <<users, roles, pending, made>>,
           PagesTypes'
    PROVE  AccessInv'
BY DEF AccessInv, ServerTypes, PendingTypes, Made

LEMMA ReadHasTypes ==
    ASSUME AccessAssumption, AccessInv, NEW a \in Admins, NEW part \in {"users", "roles", "me"}, Read(a, part)
    PROVE  AccessInv'
<1>1. Granted(a) \in SUBSET Permissions
  BY DEF Granted, AccessInv, ServerTypes, Accounts
<1>2. seen' \in [Admins -> Lists]
  <2>1. seen \in [Admins -> Lists] /\ seen[a] \in Lists
    BY DEF AccessInv, PagesTypes
  <2>2. users \in [Users -> Or(Accounts)] /\ roles \in [Roles -> SUBSET Permissions]
    BY DEF AccessInv, ServerTypes
  <2>3. \/ part = "users" /\ seen' = [seen EXCEPT ![a] = [@ EXCEPT !.users = users]]
        \/ part = "roles" /\ seen' = [seen EXCEPT ![a] = [@ EXCEPT !.roles = roles]]
        \/ part = "me" /\ seen' = [seen EXCEPT ![a] = [@ EXCEPT !.me = Granted(a)]]
    BY DEF Read
  <2>4. /\ [seen[a] EXCEPT !.users = users] \in Lists
        /\ [seen[a] EXCEPT !.roles = roles] \in Lists
        /\ [seen[a] EXCEPT !.me = Granted(a)] \in Lists
    BY <1>1, <2>1, <2>2 DEF Lists
  <2>5. QED
    BY <2>1, <2>3, <2>4
<1>3. UNCHANGED <<users, roles, pending, made>>
  BY DEF Read, server
<1>4. PagesTypes'
  BY <1>2 DEF Read, AccessInv, PagesTypes
<1>5. QED
  BY <1>3, <1>4, PagesHaveTypes

LEMMA RolesOnPage ==
    ASSUME AccessInv, NEW a \in Admins, NEW u \in Users, Manageable(a, u)
    PROVE  seen[a].users[u].role \in Roles
BY DEF AccessInv, PagesTypes, Lists, Manageable, Accounts, Or

LEMMA ButtonHasTypes ==
    ASSUME AccessAssumption, AccessInv, NEW a \in Admins, NEW u \in Users, NEW r \in Roles,
           Create(a, u, r) \/ ChangeRole(a, u, r) \/ SetActive(a, u) \/ SaveEdit(a) \/ SaveRole(a, r)
    PROVE  AccessInv'
<1>1. saving \in [Admins -> Or(Roles)] /\ {} \in SUBSET Permissions /\ u \in Or(Users)
  BY DEF AccessInv, PagesTypes, Or
<1>2. CASE Create(a, u, r) \/ ChangeRole(a, u, r)
  BY <1>1, <1>2, SendHasTypes DEF Create, ChangeRole
<1>3. CASE SetActive(a, u)
  <2>1. seen[a].users[u].role \in Roles
    BY <1>3, RolesOnPage DEF SetActive
  <2>2. QED
    BY <1>1, <1>3, <2>1, SendHasTypes DEF SetActive
<1>4. CASE SaveEdit(a)
  <2>1. editing[a] \in Form /\ editing[a].user # a
    BY <1>4 DEF SaveEdit, AccessInv, PagesTypes, Or
  <2>2. editing[a].user \in Users /\ editing[a].role \in Roles
    BY <2>1 DEF Form
  <2>3. QED
    BY <1>1, <1>4, <2>1, <2>2, SendHasTypes DEF SaveEdit, Or
<1>5. CASE SaveRole(a, r)
  <2>1. ticked[a][r] \in SUBSET Permissions /\ saving' \in [Admins -> Or(Roles)]
    BY <1>5 DEF SaveRole, AccessInv, PagesTypes, Or
  <2>2. QED
    BY <1>5, <2>1, SendHasTypes DEF SaveRole, Or
<1>6. QED
  BY <1>2, <1>3, <1>4, <1>5

LEMMA FormHasTypes ==
    ASSUME AccessAssumption, AccessInv, NEW a \in Admins, NEW u \in Users, NEW r \in Roles, NEW key \in Permissions,
           OpenEdit(a, u) \/ EditRole(a, r) \/ Tick(a, r, key) \/ Undo(a, r)
    PROVE  AccessInv'
<1>1. UNCHANGED <<users, roles, pending, made, seen, saving>> /\ edits' \in 0..LastEdit
  BY DEF OpenEdit, EditRole, Tick, Undo, Edit, server, AccessInv, PagesTypes, AccessAssumption
<1>2. /\ editing' \in [Admins -> Or(Form)]
      /\ \A b \in Admins : editing'[b] # None => editing'[b].user # b
  <2>1. CASE OpenEdit(a, u)
    <3>1. seen[a].users[u].role \in Roles
      BY <2>1, RolesOnPage DEF OpenEdit
    <3>2. QED
      BY <2>1, <3>1 DEF OpenEdit, AccessInv, PagesTypes, Form, Or
  <2>2. CASE EditRole(a, r)
    <3>1. editing[a] \in Form /\ editing[a].user # a
      BY <2>2 DEF EditRole, AccessInv, PagesTypes, Or
    <3>. DEFINE f == [editing[a] EXCEPT !.role = r]
    <3>2. f \in Form /\ f.user # a
      BY <3>1 DEF Form
    <3>3. editing' = [editing EXCEPT ![a] = f]
      BY <2>2 DEF EditRole
    <3>. HIDE DEF f
    <3>4. QED
      BY <3>2, <3>3 DEF AccessInv, PagesTypes, Or
  <2>3. CASE Tick(a, r, key) \/ Undo(a, r)
    BY <2>3 DEF Tick, Undo, AccessInv, PagesTypes
  <2>4. QED
    BY <2>1, <2>2, <2>3
<1>3. ticked' \in [Admins -> [Roles -> SUBSET Permissions]]
  <2>1. ticked \in [Admins -> [Roles -> SUBSET Permissions]]
    BY DEF AccessInv, PagesTypes
  <2>2. CASE Tick(a, r, key)
    <3>1. PICK keys \in SUBSET Permissions : ticked' = [ticked EXCEPT ![a][r] = keys]
      <4>1. (IF key \in ticked[a][r] THEN ticked[a][r] \ {key} ELSE ticked[a][r] \cup {key}) \in SUBSET Permissions
        BY <2>1
      <4>2. QED
        BY <2>1, <2>2, <4>1 DEF Tick
    <3>2. QED
      BY <2>1, <3>1
  <2>3. CASE Undo(a, r)
    <3>1. seen[a].roles[r] \in SUBSET Permissions
      BY DEF AccessInv, PagesTypes, Lists
    <3>2. QED
      BY <2>1, <2>3, <3>1 DEF Undo
  <2>4. CASE OpenEdit(a, u) \/ EditRole(a, r)
    BY <2>1, <2>4 DEF OpenEdit, EditRole
  <2>5. QED
    BY <2>2, <2>3, <2>4
<1>4. QED
  BY <1>1, <1>2, <1>3, PagesHaveTypes DEF AccessInv, PagesTypes

-----------------------------------------------------------------------------
(* The handlers *)

LEMMA HandlerHasTypes ==
    ASSUME AccessInv, NEW r \in pending, NEW new, Made(new), Step(r, new), ServerTypes',
           UNCHANGED <<pages, made, edits>>
    PROVE  AccessInv'
<1>1. IsFiniteSet(pending')
  <2>1. IsFiniteSet(pending \ {r})
    BY FS_RemoveElement DEF AccessInv, PendingTypes
  <2>2. QED
    BY <2>1, FS_AddElement DEF Step
<1>2. PendingTypes'
  BY <1>1 DEF Step, AccessInv, PendingTypes, Made
<1>3. PagesTypes'
  BY DEF AccessInv, PagesTypes, pages
<1>4. QED
  BY <1>2, <1>3 DEF AccessInv

LEMMA EndedIsMade ==
    ASSUME NEW r, Made(r), NEW step \in {"done", "refused"}
    PROVE  Made([r EXCEPT !.step = step])
BY DEF Made, Requests

LEMMA LoadHasTypes == ASSUME AccessInv, NEW r \in pending, Load(r) PROVE AccessInv'
<1>1. ServerTypes' /\ UNCHANGED <<pages, made, edits>>
  BY DEF Load, server, AccessInv, ServerTypes
<1>2. Made(r) /\ r.actor \in Admins
  BY DEF AccessInv, PendingTypes, Made, Requests
<1>. DEFINE view == [role |-> users[r.actor].role, keys |-> Granted(r.actor)]
<1>3. view \in View
  BY <1>2 DEF View, Granted, AccessInv, ServerTypes, Accounts
<1>. HIDE DEF view
<1>4. Made([r EXCEPT !.step = "loaded", !.view = view])
  BY <1>2, <1>3 DEF Made, Requests, View, Or
<1>5. PICK new : Made(new) /\ Step(r, new)
  BY <1>2, <1>4, EndedIsMade DEF Load, view
<1>6. QED
  BY <1>1, <1>5, HandlerHasTypes

LEMMA WrittenHasTypes ==
    ASSUME AccessAssumption, AccessInv, NEW r \in pending, Allowed(r)
    PROVE  /\ WrittenUsers(r) \in [Users -> Or(Accounts)]
           /\ \A a \in Admins : WrittenUsers(r)[a] \in Accounts
           /\ WrittenRoles(r) \in [Roles -> SUBSET Permissions]
<1>1. /\ r.role \in Roles /\ r.keys \in SUBSET Permissions
      /\ r.kind \in {"create", "role", "edit", "activate", "deactivate", "permissions"}
      /\ r.kind # "permissions" => r.user \in Users
  BY DEF AccessInv, PendingTypes, Made, Requests
<1>2. /\ users \in [Users -> Or(Accounts)] /\ roles \in [Roles -> SUBSET Permissions]
      /\ \A a \in Admins : users[a] \in Accounts
  BY DEF AccessInv, ServerTypes
<1>3. WrittenRoles(r) \in [Roles -> SUBSET Permissions]
  BY <1>1, <1>2 DEF WrittenRoles, Added
<1>4. PICK account \in Accounts :
         WrittenUsers(r) \in {users, [users EXCEPT ![r.user] = account]} /\ (r.kind = "permissions" => WrittenUsers(r) = users)
  <2>1. CASE r.kind = "permissions"
    <3>1. [role |-> r.role, active |-> TRUE] \in Accounts
      BY <1>1 DEF Accounts
    <3>2. QED
      BY <2>1, <3>1 DEF WrittenUsers
  <2>2. CASE r.kind = "create"
    <3>1. [role |-> r.role, active |-> TRUE] \in Accounts
      BY <1>1 DEF Accounts
    <3>2. QED
      BY <2>2, <3>1 DEF WrittenUsers
  <2>3. CASE r.kind \in {"role", "edit", "activate", "deactivate"}
    <3>1. users[r.user] \in Accounts
      BY <1>1, <1>2, <2>3 DEF Allowed, Or
    <3>2. /\ [users[r.user] EXCEPT !.active = TRUE] \in Accounts
          /\ [users[r.user] EXCEPT !.active = FALSE] \in Accounts
          /\ [users[r.user] EXCEPT !.role = r.role] \in Accounts
      BY <1>1, <3>1 DEF Accounts
    <3>3. CASE r.kind = "activate"
      BY <3>2, <3>3 DEF WrittenUsers
    <3>4. CASE r.kind = "deactivate"
      BY <3>2, <3>4 DEF WrittenUsers
    <3>5. CASE r.kind \in {"role", "edit"}
      BY <3>1, <3>2, <3>5 DEF WrittenUsers
    <3>6. QED
      BY <2>3, <3>3, <3>4, <3>5
  <2>4. QED
    BY <1>1, <2>1, <2>2, <2>3
<1>5. WrittenUsers(r) \in [Users -> Or(Accounts)] /\ \A a \in Admins : WrittenUsers(r)[a] \in Accounts
  <2>1. CASE WrittenUsers(r) = users
    BY <1>2, <2>1
  <2>2. CASE WrittenUsers(r) # users
    <3>1. r.user \in Users /\ WrittenUsers(r) = [users EXCEPT ![r.user] = account]
      BY <1>1, <1>4, <2>2
    <3>2. account \in Or(Accounts)
      BY DEF Or
    <3>3. WrittenUsers(r) \in [Users -> Or(Accounts)]
      BY <1>2, <3>1, <3>2
    <3>4. \A u \in Users : WrittenUsers(r)[u] = IF u = r.user THEN account ELSE users[u]
      BY <1>2, <3>1
    <3>5. \A a \in Admins : a \in Users
      BY DEF AccessAssumption
    <3>6. QED
      BY <1>2, <3>3, <3>4, <3>5
  <2>3. QED
    BY <2>1, <2>2
<1>6. QED
  BY <1>3, <1>5

LEMMA RunHasTypes == ASSUME AccessAssumption, AccessInv, NEW r \in pending, Run(r) PROVE AccessInv'
<1>1. PICK step \in {"done", "refused"} : Step(r, [r EXCEPT !.step = step])
  BY DEF Run
<1>2. Made([r EXCEPT !.step = step])
  BY EndedIsMade DEF AccessInv, PendingTypes
<1>3. ServerTypes'
  BY WrittenHasTypes DEF Run, AccessInv, ServerTypes, server
<1>4. QED
  BY <1>1, <1>2, <1>3, HandlerHasTypes DEF Run

LEMMA AnswerHasTypes == ASSUME AccessInv, NEW r \in pending, Answer(r) PROVE AccessInv'
<1>1. UNCHANGED <<users, roles, seen, ticked, made, edits>> /\ pending' = pending \ {r}
  BY DEF Answer, server
<1>2. PendingTypes'
  BY <1>1, FS_RemoveElement DEF AccessInv, PendingTypes, Made
<1>3. r.actor \in Admins
  BY DEF AccessInv, PendingTypes, Made, Requests
<1>4. PagesTypes'
  BY <1>1, <1>3 DEF Answer, AccessInv, PagesTypes, Or
<1>5. QED
  BY <1>1, <1>2, <1>4 DEF AccessInv, ServerTypes

LEMMA StepHasTypes ==
    ASSUME AccessAssumption, AccessInv, [Next]_vars
    PROVE  AccessInv'
<1>1. ASSUME NEW a \in Admins, NEW part \in {"users", "roles", "me"}, Read(a, part) PROVE AccessInv'
  BY <1>1, ReadHasTypes
<1>2. Users # {} /\ Roles # {} => \A a \in Admins : SaveEdit(a) => AccessInv'
  BY ButtonHasTypes
<1>3. \A a \in Admins : a \in Users /\ users[a] \in Accounts
  BY DEF AccessInv, ServerTypes, AccessAssumption
<1>4. ASSUME NEW a \in Admins, SaveEdit(a) PROVE AccessInv'
  BY <1>2, <1>3, <1>4 DEF Accounts
<1>5. ASSUME NEW a \in Admins, NEW u \in Users,
             (\E r \in Roles : Create(a, u, r) \/ ChangeRole(a, u, r)) \/ SetActive(a, u) \/ OpenEdit(a, u)
      PROVE  AccessInv'
  <2>1. \E r \in Roles : TRUE
    BY <1>3 DEF Accounts
  <2>2. \E key \in Permissions : TRUE
    BY DEF AccessAssumption
  <2>3. QED
    BY <1>5, <2>1, <2>2, ButtonHasTypes, FormHasTypes
<1>6. ASSUME NEW a \in Admins, NEW r \in Roles,
             EditRole(a, r) \/ SaveRole(a, r) \/ Undo(a, r) \/ \E key \in Permissions : Tick(a, r, key)
      PROVE  AccessInv'
  <2>1. a \in Users /\ \E key \in Permissions : TRUE
    BY <1>3 DEF AccessAssumption
  <2>2. QED
    BY <1>6, <2>1, ButtonHasTypes, FormHasTypes
<1>7. ASSUME NEW r \in pending, Load(r) \/ Run(r) \/ Answer(r) PROVE AccessInv'
  BY <1>7, LoadHasTypes, RunHasTypes, AnswerHasTypes
<1>8. CASE UNCHANGED vars
  BY <1>8 DEF vars, AccessInv, ServerTypes, PagesTypes, PendingTypes, Made
<1>9. QED
  BY <1>1, <1>4, <1>5, <1>6, <1>7, <1>8 DEF Next

LEMMA AccessInvHolds == ASSUME AccessAssumption PROVE Spec => []AccessInv
<1>1. Init => AccessInv
  BY StartHasTypes
<1>2. AccessInv /\ [Next]_vars => AccessInv'
  BY StepHasTypes
<1>3. QED
  BY <1>1, <1>2, PTL DEF Spec

(* Accounts, roles, pages and requests have their types.                   *)
THEOREM AccessHasTypes == ASSUME AccessAssumption PROVE Spec => []TypeOK
<1>1. AccessInv => TypeOK
  BY DEF AccessInv, ServerTypes, PagesTypes, PendingTypes, Made, Lists, Form, TypeOK
<1>2. QED
  BY <1>1, AccessInvHolds, PTL

-----------------------------------------------------------------------------
(* What a request knows *)

\* The requests for which what was loaded decides
Decides(r) == r.step = "loaded" /\ r.kind \in {"role", "edit", "activate", "deactivate"}

\* What was loaded is what is.
Knows(r) ==
    r.step = "loaded" =>
        /\ r.view.keys = roles[r.view.role]
        /\ Decides(r) /\ r.user = r.actor => users[r.actor] = [role |-> r.view.role, active |-> TRUE]

Fresh == \A r \in pending : Knows(r)
Alone == \A r, other \in pending : r = other

\* One request at a time, or requests that change neither the permissions of
\* a role nor, from its own row, the role of an account
Calm == AtOnce <= 1 \/ Kinds \cap {"role", "permissions"} = {}

LEMMA AloneWhenSent ==
    ASSUME AccessAssumption, AtOnce <= 1, AccessInv, NEW a, NEW kind, NEW u, NEW r, NEW keys,
           Send(a, kind, u, r, keys)
    PROVE  pending = {}
<1>1. IsFiniteSet(pending) /\ Cardinality(pending) < AtOnce
  BY DEF Send, AccessInv, PendingTypes
<1>2. Cardinality(pending) \in Nat
  BY <1>1, FS_CardinalityType
<1>3. Cardinality(pending) = 0
  BY <1>1, <1>2 DEF AccessAssumption
<1>4. QED
  BY <1>1, <1>3, FS_EmptySet

\* The steps of a page: something is sent, or nothing changes on the server.
LEMMA PageStep ==
    ASSUME NEW a \in Admins,
           \/ \E part \in {"users", "roles", "me"} : Read(a, part)
           \/ \E u \in Users :
                 \/ \E r \in Roles : Create(a, u, r) \/ ChangeRole(a, u, r)
                 \/ SetActive(a, u) \/ OpenEdit(a, u)
           \/ \E r \in Roles :
                 \/ EditRole(a, r) \/ SaveRole(a, r) \/ Undo(a, r)
                 \/ \E key \in Permissions : Tick(a, r, key)
           \/ SaveEdit(a)
    PROVE  /\ UNCHANGED <<users, roles>>
           /\ \/ UNCHANGED pending
              \/ \E kind, u, r, keys : Send(a, kind, u, r, keys)
<1>1. \A kind, u, r, keys : Send(a, kind, u, r, keys) => UNCHANGED <<users, roles>>
  BY DEF Send, server
<1>2. ASSUME NEW part, Read(a, part) PROVE UNCHANGED <<users, roles, pending>>
  BY <1>2 DEF Read, server
<1>3. ASSUME NEW u, OpenEdit(a, u) PROVE UNCHANGED <<users, roles, pending>>
  BY <1>3 DEF OpenEdit, Edit, server
<1>4. ASSUME NEW r, EditRole(a, r) \/ Undo(a, r) \/ \E key \in Permissions : Tick(a, r, key)
      PROVE  UNCHANGED <<users, roles, pending>>
  BY <1>4 DEF EditRole, Undo, Tick, Edit, server
<1>5. ASSUME NEW u, NEW r, Create(a, u, r) \/ ChangeRole(a, u, r) \/ SetActive(a, u) \/ SaveRole(a, r) \/ SaveEdit(a)
      PROVE  \E kind, v, s, keys : Send(a, kind, v, s, keys)
  BY <1>5 DEF Create, ChangeRole, SetActive, SaveRole, SaveEdit
<1>6. QED
  BY <1>1, <1>2, <1>3, <1>4, <1>5

LEMMA StepsAlone ==
    ASSUME AccessAssumption, AtOnce <= 1, AccessInv, Alone, [Next]_vars
    PROVE  Alone'
<1>1. ASSUME NEW a, NEW kind, NEW u, NEW r, NEW keys, Send(a, kind, u, r, keys) PROVE Alone'
  <2>1. pending = {}
    BY <1>1, AloneWhenSent
  <2>2. QED
    BY <1>1, <2>1 DEF Send, Alone
<1>2. ASSUME NEW r \in pending, NEW new, Step(r, new) PROVE Alone'
  BY <1>2 DEF Step, Alone
<1>3. ASSUME NEW r \in pending, Load(r) \/ Run(r) \/ Answer(r) PROVE Alone'
  BY <1>2, <1>3 DEF Load, Run, Answer, Alone
<1>4. CASE UNCHANGED pending
  BY <1>4 DEF Alone
<1>5. CASE UNCHANGED vars
  BY <1>4, <1>5 DEF vars
<1>6. QED
  BY <1>1, <1>3, <1>4, <1>5, PageStep DEF Next

(* What one request has loaded stays so while nobody else changes it.       *)
LEMMA StepsFresh ==
    ASSUME AccessAssumption, Calm, AccessInv, Fresh, AtOnce <= 1 => Alone, [Next]_vars
    PROVE  Fresh'
<1>1. ASSUME NEW a, NEW kind, NEW u, NEW r, NEW keys, Send(a, kind, u, r, keys) PROVE Fresh'
  <2>. PICK s : s = [kind |-> kind, actor |-> a, user |-> u, role |-> r, keys |-> keys,
                     nr |-> made', step |-> "sent", view |-> None]
    OBVIOUS
  <2>1. pending' = pending \cup {s} /\ s.step = "sent" /\ UNCHANGED <<users, roles>>
    BY <1>1 DEF Send, server
  <2>2. QED
    BY <2>1 DEF Fresh, Knows, Decides
<1>2. ASSUME NEW r \in pending, Load(r) PROVE Fresh'
  <2>0. UNCHANGED <<users, roles>> /\ r \in Requests /\ Made(r)
    <3>1. r \in Requests /\ Made(r)
      BY <1>2 DEF AccessInv, PendingTypes, Made
    <3>2. QED
      BY <1>2, <3>1 DEF Load, server
  <2>1. /\ UNCHANGED <<users, roles>> /\ r \in Requests /\ users[r.actor] \in Accounts
        /\ Made(r) /\ users[r.actor] # None
    BY <2>0 DEF AccessInv, ServerTypes, Requests, AccessAssumption, Accounts
  <2>2. ASSUME NEW q \in pending PROVE Knows(q)'
    BY <2>1 DEF Fresh, Knows, Decides
  <2>. DEFINE view == [role |-> users[r.actor].role, keys |-> Granted(r.actor)]
              new == [r EXCEPT !.step = "loaded", !.view = view]
  <2>3. CASE Step(r, [r EXCEPT !.step = "refused"])
    <3>1. [r EXCEPT !.step = "refused"].step = "refused"
      BY <2>1 DEF Requests
    <3>2. QED
      BY <2>2, <2>3, <3>1 DEF Step, Fresh, Knows
  <2>4. CASE Step(r, new) /\ users[r.actor].active
    <3>1. /\ new.step = "loaded" /\ new.view.keys = roles[users[r.actor].role] /\ new.view.role = users[r.actor].role
          /\ new.user = r.user /\ new.actor = r.actor
      BY <2>1 DEF Requests, Granted
    <3>2. users[r.actor] = [role |-> users[r.actor].role, active |-> TRUE]
      BY <2>1, <2>4 DEF Accounts
    <3>3. PICK n : n = new
      OBVIOUS
    <3>. HIDE DEF new
    <3>4. Knows(n)'
      BY <2>1, <3>1, <3>2, <3>3 DEF Knows, Decides
    <3>5. QED
      BY <2>2, <2>4, <3>3, <3>4 DEF Step, Fresh
  <2>5. QED
    BY <1>2, <2>3, <2>4 DEF Load
<1>3. ASSUME NEW r \in pending, Run(r) PROVE Fresh'
  <2>1. PICK step \in {"done", "refused"} : Step(r, [r EXCEPT !.step = step])
    BY <1>3 DEF Run
  <2>2. [r EXCEPT !.step = step].step = step
    BY DEF AccessInv, PendingTypes, Made, Requests
  <2>3. CASE Alone
    BY <2>1, <2>2, <2>3 DEF Alone, Step, Fresh, Knows
  <2>4. CASE Kinds \cap {"role", "permissions"} = {}
    <3>1. roles' = roles
      BY <1>3, <2>4 DEF Run, WrittenRoles, server, AccessInv, PendingTypes, Made
    <3>2. ASSUME NEW q \in pending, Knows(q) PROVE Knows(q)'
      <4>1. Decides(q) => q.user # q.actor
        BY <2>4 DEF Decides, AccessInv, PendingTypes, Made
      <4>2. QED
        BY <3>1, <3>2, <4>1 DEF Knows, Decides
    <3>3. QED
      BY <2>1, <2>2, <3>2 DEF Step, Fresh, Knows
  <2>5. QED
    BY <2>3, <2>4 DEF Calm
<1>4. ASSUME NEW r \in pending, Answer(r) PROVE Fresh'
  BY <1>4 DEF Answer, server, Fresh, Knows, Decides
<1>5. CASE UNCHANGED <<users, roles, pending>>
  BY <1>5 DEF Fresh, Knows, Decides
<1>6. CASE UNCHANGED vars
  BY <1>5, <1>6 DEF vars
<1>7. QED
  BY <1>1, <1>2, <1>3, <1>4, <1>5, <1>6, PageStep DEF Next

KnowsInv == Fresh /\ (AtOnce <= 1 => Alone)

LEMMA RequestsKnow ==
    ASSUME AccessAssumption, Calm
    PROVE  Spec => []KnowsInv
<1>1. Init => KnowsInv
  BY DEF Init, KnowsInv, Fresh, Alone
<1>2. AccessInv /\ KnowsInv /\ [Next]_vars => KnowsInv'
  BY StepsFresh, StepsAlone DEF KnowsInv
<1>3. QED
  BY <1>1, <1>2, AccessInvHolds, PTL DEF Spec

-----------------------------------------------------------------------------
(* Somebody can recover *)

LEMMA StaysRecoverer ==
    ASSUME NEW u \in Recoverers, users'[u] = users[u], roles'[users[u].role] = roles[users[u].role]
    PROVE  u \in Recoverers'
BY DEF Recoverers

(* A request that writes one account keeps somebody who can recover.        *)
LEMMA AccountWritten ==
    ASSUME AccessAssumption, AccessInv, KnowsInv, Recoverers # {}, NEW r \in pending,
           r.step = "loaded", r.kind \in {"role", "edit", "activate", "deactivate"}, Allowed(r),
           users' = WrittenUsers(r), roles' = roles
    PROVE  Recoverers' # {}
<1>1. /\ r.user \in Users /\ r.role \in Roles /\ r.user # None /\ users[r.user] # None
      /\ users[r.user] \in Accounts
      /\ users \in [Users -> Or(Accounts)]
  BY DEF AccessInv, ServerTypes, PendingTypes, Made, Requests, Allowed, AccessAssumption, Or
<1>2. UserKnown(r, r.user) = users[r.user]
  BY DEF UserKnown, KnowsInv, Fresh, Knows, Decides
<1>3. \A role : RoleKnown(r, role) = roles[role]
  BY DEF RoleKnown, KnowsInv, Fresh, Knows
<1>4. KeysKnown(r, r.user) = roles[users[r.user].role]
  BY <1>2, <1>3 DEF KeysKnown
<1>5. \A u \in Users \ {r.user} : users'[u] = users[u]
  <2>1. PICK account : WrittenUsers(r) \in {users, [users EXCEPT ![r.user] = account]}
    BY DEF WrittenUsers
  <2>2. QED
    BY <1>1, <2>1
<1>6. ASSUME NEW u \in Recoverers \ {r.user} PROVE u \in Recoverers'
  <2>1. u \in Users \ {r.user}
    BY DEF Recoverers
  <2>2. QED
    BY <1>5, <2>1, StaysRecoverer
<1>7. CASE OthersRecover({r.user})
  BY <1>6, <1>7 DEF OthersRecover
<1>8. CASE r.user \notin Recoverers
  <2>1. PICK u \in Recoverers : TRUE
    OBVIOUS
  <2>2. QED
    BY <1>6, <1>8, <2>1
<1>9. CASE r.kind = "activate" /\ r.user \in Recoverers
  <2>1. users[r.user].active
    BY <1>9 DEF Recoverers
  <2>2. [users[r.user] EXCEPT !.active = TRUE] = users[r.user]
    BY <1>1, <2>1 DEF Accounts
  <2>3. users' = [users EXCEPT ![r.user] = [users[r.user] EXCEPT !.active = TRUE]]
    BY <1>9 DEF WrittenUsers
  <2>4. users'[r.user] = users[r.user]
    BY <1>1, <2>2, <2>3
  <2>5. QED
    BY <1>9, <2>4, StaysRecoverer
<1>10. CASE r.kind \in {"role", "edit"} /\ r.user \in Recoverers /\ ~OthersRecover({r.user})
  <2>1. users[r.user].active /\ roles[users[r.user].role] = Permissions
    BY <1>1, <1>10 DEF Recoverers
  <2>2. roles[r.role] = Permissions
    BY <1>2, <1>3, <1>4, <1>10, <2>1 DEF Allowed, UserKeepsRecovery
  <2>3. CASE r.role = users[r.user].role
    BY <1>2, <1>10, <2>3, StaysRecoverer DEF WrittenUsers
  <2>4. CASE r.role # users[r.user].role
    <3>. DEFINE account == [users[r.user] EXCEPT !.role = r.role]
    <3>1. account \in Accounts /\ account.role = r.role /\ account.active
      BY <1>1, <2>1 DEF Accounts
    <3>2. users' = [users EXCEPT ![r.user] = account]
      BY <1>2, <1>10, <2>4 DEF WrittenUsers
    <3>. HIDE DEF account
    <3>3. users'[r.user] = account /\ account # None
      BY <1>1, <3>1, <3>2 DEF AccessAssumption, Accounts
    <3>4. r.user \in Recoverers'
      BY <1>1, <2>2, <3>1, <3>3 DEF Recoverers
    <3>5. QED
      BY <3>4
  <2>5. QED
    BY <2>3, <2>4
<1>11. CASE r.kind = "deactivate" /\ r.user \in Recoverers /\ ~OthersRecover({r.user})
  <2>1. users[r.user].active /\ roles[users[r.user].role] = Permissions
    BY <1>1, <1>11 DEF Recoverers
  <2>2. QED
    BY <1>2, <1>4, <1>11, <2>1 DEF Allowed, UserKeepsRecovery
<1>12. QED
  BY <1>7, <1>8, <1>9, <1>10, <1>11

(* Permissions that are saved one request at a time are those that were sent. *)
LEMMA KeysWritten ==
    ASSUME AccessInv, KnowsInv, NEW r \in pending, r.step = "loaded", r.kind = "permissions",
           roles' = WrittenRoles(r)
    PROVE  /\ roles'[r.role] = r.keys
           /\ \A role \in Roles \ {r.role} : roles'[role] = roles[role]
<1>1. r.role \in Roles /\ roles \in [Roles -> SUBSET Permissions]
  BY DEF AccessInv, ServerTypes, PendingTypes, Made, Requests
<1>2. RoleKnown(r, r.role) = roles[r.role]
  BY DEF RoleKnown, KnowsInv, Fresh, Knows
<1>3. (roles[r.role] \ Removed(r)) \cup Added(r) = r.keys
  BY <1>2 DEF Removed, Added
<1>4. roles' = [roles EXCEPT ![r.role] = r.keys]
  BY <1>3 DEF WrittenRoles
<1>5. QED
  BY <1>1, <1>4

LEMMA RoleWritten ==
    ASSUME AccessAssumption, AccessInv, KnowsInv, Recoverers # {}, NEW r \in pending,
           r.step = "loaded", r.kind = "permissions", Allowed(r),
           users' = users, roles' = WrittenRoles(r)
    PROVE  Recoverers' # {}
<1>1. r.role \in Roles /\ users \in [Users -> Or(Accounts)]
  BY DEF AccessInv, ServerTypes, PendingTypes, Made, Requests
<1>2. roles'[r.role] = r.keys /\ \A role \in Roles \ {r.role} : roles'[role] = roles[role]
  BY KeysWritten
<1>3. \A u \in Recoverers : u \in Users /\ users[u] # None /\ users[u] \in Accounts
  BY <1>1 DEF Recoverers, Or
<1>4. \A u \in Recoverers : users[u].role \in Roles
  BY <1>3 DEF Accounts
<1>5. \A u \in Recoverers : users[u].role # r.role => u \in Recoverers'
  BY <1>2, <1>4, StaysRecoverer
<1>6. CASE RoleKnown(r, r.role) # Permissions
  <2>1. roles[r.role] # Permissions
    BY <1>6 DEF RoleKnown, KnowsInv, Fresh, Knows
  <2>2. \A u \in Recoverers : users[u].role # r.role
    BY <1>3, <2>1 DEF Recoverers
  <2>3. QED
    BY <1>5, <2>2
<1>7. CASE r.keys = Permissions
  <2>1. \A u \in Recoverers : users[u].role = r.role => u \in Recoverers'
    BY <1>2, <1>3, <1>7 DEF Recoverers
  <2>2. QED
    BY <1>5, <2>1
<1>8. CASE OthersRecover({u \in Users : IF users[u] = None THEN FALSE ELSE users[u].role = r.role})
  <2>1. PICK u \in Recoverers : ~(IF users[u] = None THEN FALSE ELSE users[u].role = r.role)
    BY <1>3, <1>8 DEF OthersRecover
  <2>2. QED
    BY <1>3, <1>5, <2>1
<1>9. QED
  BY <1>6, <1>7, <1>8 DEF Allowed, RoleKeepsRecovery

LEMMA RunKeepsRecovery ==
    ASSUME AccessAssumption, AccessInv, KnowsInv, SomeoneCanRecover, NEW r \in pending, Run(r)
    PROVE  SomeoneCanRecover'
<1>1. CASE UNCHANGED server
  BY <1>1 DEF server, SomeoneCanRecover, Recoverers
<1>2. CASE Allowed(r) /\ users' = WrittenUsers(r) /\ roles' = WrittenRoles(r)
  <2>1. r.kind \in {"create", "role", "edit", "activate", "deactivate", "permissions"} /\ r.step = "loaded"
    BY DEF Run, AccessInv, PendingTypes, Made, Requests
  <2>2. CASE r.kind = "permissions"
    BY <1>2, <2>1, <2>2, RoleWritten DEF SomeoneCanRecover, WrittenUsers
  <2>3. CASE r.kind = "create"
    <3>1. /\ users[r.user] = None /\ roles' = roles
          /\ users' = [users EXCEPT ![r.user] = [role |-> r.role, active |-> TRUE]]
      BY <1>2, <2>3 DEF Allowed, WrittenUsers, WrittenRoles
    <3>2. \A u \in Users : u # r.user => users'[u] = users[u]
      BY <3>1 DEF AccessInv, ServerTypes
    <3>3. \A u \in Recoverers : u \in Users /\ u # r.user
      BY <3>1 DEF Recoverers
    <3>4. QED
      BY <3>1, <3>2, <3>3, StaysRecoverer DEF SomeoneCanRecover
  <2>4. CASE r.kind \in {"role", "edit", "activate", "deactivate"}
    BY <1>2, <2>1, <2>4, AccountWritten DEF SomeoneCanRecover, WrittenRoles
  <2>5. QED
    BY <2>1, <2>2, <2>3, <2>4
<1>3. QED
  BY <1>1, <1>2 DEF Run

(* Somebody can always give everything back, for any accounts, roles and      *)
(* administrators: while requests are served one at a time, or while the    *)
(* accounts that requests change are those of others.                      *)
THEOREM RecoveryIsKept ==
    ASSUME AccessAssumption, Calm
    PROVE  Spec => []SomeoneCanRecover
<1>1. Init => SomeoneCanRecover
  BY DEF Init, SomeoneCanRecover
<1>2. ASSUME AccessInv, KnowsInv, SomeoneCanRecover, [Next]_vars PROVE SomeoneCanRecover'
  <2>1. CASE UNCHANGED <<users, roles>>
    BY <1>2, <2>1 DEF SomeoneCanRecover, Recoverers
  <2>2. ASSUME NEW r \in pending, Load(r) \/ Run(r) \/ Answer(r) PROVE SomeoneCanRecover'
    BY <1>2, <2>1, <2>2, RunKeepsRecovery DEF Load, Answer, server
  <2>3. CASE UNCHANGED vars
    BY <2>1, <2>3 DEF vars
  <2>4. QED
    BY <1>2, <2>1, <2>2, <2>3, PageStep DEF Next
<1>3. QED
  BY <1>1, <1>2, AccessInvHolds, RequestsKnow, PTL DEF Spec

(* A role that is saved has what was ticked in its card, while requests are  *)
(* served one at a time.                                                    *)
THEOREM RolesAreSavedAsTicked ==
    ASSUME AccessAssumption, AtOnce <= 1
    PROVE  Spec => WorkIsKept
<1>1. ASSUME AccessInv, KnowsInv, [Next]_vars PROVE [SetAsTicked]_vars
  <2>. SUFFICES ASSUME NEW r \in pending, r.kind = "permissions", r.step = "loaded",
                       [r EXCEPT !.step = "done"] \in pending', ~UNCHANGED vars
       PROVE  roles'[r.role] = r.keys
    BY DEF SetAsTicked
  <2>1. /\ \A q \in pending : q = r
        /\ [r EXCEPT !.step = "done"].step = "done"
        /\ [r EXCEPT !.step = "refused"].step = "refused"
    BY <1>1 DEF KnowsInv, Alone, AccessInv, PendingTypes, Made, Requests
  <2>2. pending' # pending
    BY <2>1
  <2>3. ASSUME NEW a, NEW kind, NEW u, NEW s, NEW keys PROVE ~Send(a, kind, u, s, keys)
    <3>1. ASSUME Send(a, kind, u, s, keys) PROVE pending = {}
      BY <1>1, <3>1, AloneWhenSent
    <3>2. QED
      BY <3>1
  <2>4. Load(r) \/ Run(r) \/ Answer(r)
    BY <1>1, <2>1, <2>2, <2>3, PageStep DEF Next
  <2>5. Run(r)
    BY <2>1, <2>4 DEF Load, Answer
  <2>6. ~Step(r, [r EXCEPT !.step = "refused"])
    BY <2>1 DEF Step
  <2>7. roles' = WrittenRoles(r)
    BY <2>5, <2>6 DEF Run
  <2>8. QED
    BY <1>1, <2>7, KeysWritten
<1>2. Spec => []TypeOK
  BY AccessHasTypes
<1>3. Spec => [][SetAsTicked]_vars
  BY <1>1, AccessInvHolds, RequestsKnow, PTL DEF Spec, Calm
<1>4. QED
  BY <1>2, <1>3 DEF WorkIsKept

(***************************************************************************)
(* The categories and the units                                             *)
(***************************************************************************)

AboutCategory == {"create", "basics", "pricing", "show", "hide", "delete"}
AboutUnit == {"newUnit", "rename", "dropUnit"}

\* A request carries what its kind needs.
WellFormed(r) ==
    /\ r.kind \in AboutCategory => r.cat \in Cats
    /\ r.kind \in AboutUnit => r.cat = Unset /\ r.unit \in UnitNames
    /\ r.kind = "rename" => r.to \in UnitNames
    /\ r.kind \in {"create", "basics", "pricing"} => r.body \in CategoryDrafts
    /\ r.kind \in {"basics", "pricing"} /\ r.step = "checked" => r.loaded \in CategoryRows

\* The answer of a request will have `q` read again; that of the second part
\* of a save too, since its category is still there.
Owes(r, q) ==
    /\ r # Unset
    /\ \/ r.step = "done" /\ q \in Invalidated(r.kind)
       \/ /\ q = "categories"
          /\ r.kind = "pricing" /\ r.step \in {"sent", "checked"} /\ categories[r.cat] # Unset

\* What is known of who works alone
KeepsUp(a) ==
    /\ \A b \in Editors \ {a} : request[b] = Unset
    /\ seenCategories[a] = categories \/ "categories" \in reading[a] \/ Owes(request[a], "categories")
    /\ seenUnits[a] = units \/ "units" \in reading[a] \/ Owes(request[a], "units")
    /\ request[a] # Unset /\ request[a].kind = "basics" /\ request[a].step = "done"
          => categories[request[a].cat] # Unset

CategoriesInv ==
    /\ CategoriesTypeOK
    /\ \A a \in Editors : category[a] # Unset => draft[a] # Unset
    /\ \A a \in Editors : request[a] # Unset => WellFormed(request[a])
    /\ ProductsClassified
    /\ NamesDiffer
    /\ \A a \in alone : KeepsUp(a)

LEMMA SomethingSet ==
    ASSUME CategoriesAssumption
    PROVE  /\ \A r \in CategoryRequests : r # Unset
           /\ \A c \in CategoryRows : c # Unset
           /\ \A d \in CategoryDrafts : d # Unset
           /\ \A c \in Cats : c # Unset
           /\ \A u \in UnitNames : u # Unset
           /\ \A p \in Classified : p # Unset
BY DEF CategoriesAssumption

LEMMA CategoriesStart == ASSUME CategoriesAssumption, CategoriesInit PROVE CategoriesInv
<1>1. Some(Cats) \in Cats /\ Some(CategoryNames) \in CategoryNames /\ Some(UnitNames) \in UnitNames
  BY DEF CategoriesAssumption, Some
<1>2. FirstCategory \in CategoryRows
  BY <1>1 DEF FirstCategory, CategoryRows, OrUnset, Pricings
<1>3. CategoriesTypeOK
  BY <1>1, <1>2 DEF CategoriesInit, CategoriesTypeOK, OrUnset, CategoriesAssumption
<1>4. ProductsClassified /\ NamesDiffer
  BY DEF CategoriesInit, ProductsClassified, NamesDiffer
<1>5. \A a \in Editors : category[a] = Unset /\ request[a] = Unset /\ seenCategories[a] = categories /\ seenUnits[a] = units
  BY DEF CategoriesInit
<1>6. \A a \in alone : KeepsUp(a)
  BY <1>3, <1>5 DEF KeepsUp, CategoriesTypeOK
<1>7. QED
  BY <1>3, <1>4, <1>5, <1>6 DEF CategoriesInv

(* The panel *)

LEMMA ReadingKeeps ==
    ASSUME CategoriesAssumption, CategoriesInv, NEW a \in Editors, NEW q \in Queries, ReadQuery(a, q)
    PROVE  CategoriesInv'
<1>1. seenCategories' \in [Editors -> [Cats -> OrUnset(CategoryRows)]] /\ seenUnits' \in [Editors -> SUBSET UnitNames]
  BY DEF CategoriesInv, CategoriesTypeOK, ReadQuery, catalogServer
<1>2. category' \in [Editors -> OrUnset(Cats)]
  BY DEF CategoriesInv, CategoriesTypeOK, ReadQuery, OrUnset
<1>3. draft' \in [Editors -> OrUnset(CategoryDrafts)]
  BY DEF CategoriesInv, CategoriesTypeOK, ReadQuery, OrUnset
<1>4. \A b \in Editors : category'[b] # Unset => draft'[b] # Unset
  BY DEF CategoriesInv, CategoriesTypeOK, ReadQuery
<1>5. CategoriesTypeOK'
  BY <1>1, <1>2, <1>3 DEF CategoriesInv, CategoriesTypeOK, ReadQuery, catalogServer
<1>6. \A b \in Editors : KeepsUp(b) => KeepsUp(b)'
  BY DEF CategoriesInv, CategoriesTypeOK, ReadQuery, catalogServer, KeepsUp, Owes, Queries
<1>7. QED
  BY <1>4, <1>5, <1>6 DEF CategoriesInv, CategoriesTypeOK, ReadQuery, catalogServer, ProductsClassified, NamesDiffer, WellFormed

LEMMA EditingKeeps ==
    ASSUME CategoriesAssumption, CategoriesInv, NEW a \in Editors,
           \/ \E c \in Cats : OpenEditor(a, c)
           \/ \E d \in CategoryDrafts : TypeDraft(a, d)
    PROVE  CategoriesInv'
<1>1. \A c \in CategoryRows : DraftOf(c) \in CategoryDrafts
  BY DEF CategoryRows, CategoryDrafts, DraftOf
<1>2. category' \in [Editors -> OrUnset(Cats)]
  BY DEF CategoriesInv, CategoriesTypeOK, OpenEditor, TypeDraft, OrUnset
<1>3. /\ draft' \in [Editors -> OrUnset(CategoryDrafts)]
      /\ \A b \in Editors : category'[b] # Unset => draft'[b] # Unset
  <2>1. CASE \E c \in Cats : OpenEditor(a, c)
    BY <1>1, <2>1, SomethingSet DEF CategoriesInv, CategoriesTypeOK, OpenEditor, OrUnset
  <2>2. CASE \E d \in CategoryDrafts : TypeDraft(a, d)
    BY <2>2, SomethingSet DEF CategoriesInv, CategoriesTypeOK, TypeDraft, OrUnset
  <2>3. QED
    BY <2>1, <2>2
<1>4. typings' \in 0..MostTyped
  BY DEF CategoriesInv, CategoriesTypeOK, OpenEditor, TypeDraft, CategoriesAssumption
<1>5. UNCHANGED <<categories, units, product, seenCategories, seenUnits, reading, request, requests, alone>>
  BY DEF OpenEditor, TypeDraft, catalogServer
<1>6. CategoriesTypeOK'
  BY <1>2, <1>3, <1>4, <1>5 DEF CategoriesInv, CategoriesTypeOK
<1>7. QED
  BY <1>3, <1>5, <1>6 DEF CategoriesInv, ProductsClassified, NamesDiffer, WellFormed, KeepsUp, Owes

LEMMA PressKeeps ==
    ASSUME CategoriesAssumption, CategoriesInv, NEW a \in Editors,
           NEW r \in CategoryRequests, WellFormed(r), r.step = "sent", PressButton(a, r)
    PROVE  CategoriesInv'
<1>1. /\ request' = [request EXCEPT ![a] = r] /\ request[a] = Unset
      /\ UNCHANGED <<categories, units, product, seenCategories, seenUnits, reading, category, draft, typings>>
      /\ alone' = alone \cap {a}
  BY DEF PressButton, catalogServer, catalogPanel
<1>2. CategoriesTypeOK'
  BY <1>1 DEF CategoriesInv, CategoriesTypeOK, PressButton, OrUnset, CategoriesAssumption
<1>3. \A b \in Editors : request'[b] # Unset => WellFormed(request'[b])
  BY <1>1 DEF CategoriesInv, CategoriesTypeOK
<1>4. \A b \in alone' : KeepsUp(b)'
  <2>1. SUFFICES ASSUME a \in alone PROVE KeepsUp(a)'
    BY <1>1
  <2>2. KeepsUp(a) /\ request'[a] = r /\ \A b \in Editors \ {a} : request'[b] = request[b]
    BY <1>1, <2>1 DEF CategoriesInv, CategoriesTypeOK
  <2>3. QED
    BY <1>1, <2>2 DEF KeepsUp, Owes
<1>5. QED
  BY <1>1, <1>2, <1>3, <1>4 DEF CategoriesInv, ProductsClassified, NamesDiffer, WellFormed


LEMMA ButtonsKeep ==
    ASSUME CategoriesAssumption, CategoriesInv, NEW a \in Editors,
           \/ CreateCategory(a) \/ SaveCategory(a) \/ SwitchActive(a) \/ DeleteCategory(a)
           \/ AddUnit(a) \/ RenameUnit(a) \/ DropUnit(a)
    PROVE  CategoriesInv'
<1>1. CASE CreateCategory(a)
  <2>1. PICK c \in Cats, d \in NewForms(a) : PressButton(a, Req("create", c, d))
    BY <1>1 DEF CreateCategory
  <2>2. Req("create", c, d) \in CategoryRequests /\ WellFormed(Req("create", c, d)) /\ Req("create", c, d).step = "sent"
    BY <2>1 DEF NewForms, Req, CategoryRequests, OrUnset, AllButtons, WellFormed, AboutUnit
  <2>3. QED
    BY <2>1, <2>2, PressKeeps
<1>2. CASE SaveCategory(a)
  <2>1. PICK kind \in {"basics", "pricing"} : PressButton(a, Req(kind, category[a], draft[a]))
    BY <1>2 DEF SaveCategory
  <2>2. category[a] \in Cats /\ draft[a] \in CategoryDrafts
    BY <1>2, SomethingSet DEF SaveCategory, CategoriesInv, CategoriesTypeOK, OrUnset
  <2>3. /\ Req(kind, category[a], draft[a]) \in CategoryRequests
        /\ WellFormed(Req(kind, category[a], draft[a])) /\ Req(kind, category[a], draft[a]).step = "sent"
    BY <2>2 DEF Req, CategoryRequests, OrUnset, AllButtons, WellFormed, AboutUnit
  <2>4. QED
    BY <2>1, <2>3, PressKeeps
<1>3. CASE SwitchActive(a) \/ DeleteCategory(a)
  <2>1. PICK kind \in {"show", "hide", "delete"} : PressButton(a, Req(kind, category[a], Unset))
    BY <1>3 DEF SwitchActive, DeleteCategory
  <2>2. category[a] \in Cats
    BY <1>3, SomethingSet DEF SwitchActive, DeleteCategory, CategoriesInv, CategoriesTypeOK, OrUnset
  <2>3. /\ Req(kind, category[a], Unset) \in CategoryRequests
        /\ WellFormed(Req(kind, category[a], Unset)) /\ Req(kind, category[a], Unset).step = "sent"
    BY <2>2 DEF Req, CategoryRequests, OrUnset, AllButtons, WellFormed, AboutUnit
  <2>4. QED
    BY <2>1, <2>3, PressKeeps
<1>4. CASE AddUnit(a) \/ RenameUnit(a) \/ DropUnit(a)
  <2>1. PICK r : /\ PressButton(a, r)
                 /\ \/ \E u \in UnitNames : r = [Req("newUnit", Unset, Unset) EXCEPT !.unit = u]
                    \/ \E u \in UnitNames, v \in UnitNames :
                          r = [Req("rename", Unset, Unset) EXCEPT !.unit = u, !.to = v]
                    \/ \E u \in UnitNames : r = [Req("dropUnit", Unset, Unset) EXCEPT !.unit = u]
    <3>1. seenUnits[a] \subseteq UnitNames
      BY DEF CategoriesInv, CategoriesTypeOK
    <3>2. QED
      BY <1>4, <3>1, Zenon DEF AddUnit, RenameUnit, DropUnit
  <2>2. r \in CategoryRequests /\ WellFormed(r) /\ r.step = "sent"
    <3>1. CASE \E u \in UnitNames : r = [Req("newUnit", Unset, Unset) EXCEPT !.unit = u]
      BY <3>1 DEF Req, CategoryRequests, OrUnset, AllButtons, WellFormed, AboutUnit, AboutCategory
    <3>2. CASE \E u \in UnitNames, v \in UnitNames :
                  r = [Req("rename", Unset, Unset) EXCEPT !.unit = u, !.to = v]
      BY <3>2 DEF Req, CategoryRequests, OrUnset, AllButtons, WellFormed, AboutUnit, AboutCategory
    <3>3. CASE \E u \in UnitNames : r = [Req("dropUnit", Unset, Unset) EXCEPT !.unit = u]
      BY <3>3 DEF Req, CategoryRequests, OrUnset, AllButtons, WellFormed, AboutUnit, AboutCategory
    <3>4. QED
      BY <2>1, <3>1, <3>2, <3>3
  <2>3. QED
    BY <2>1, <2>2, PressKeeps
<1>5. QED
  BY <1>1, <1>2, <1>3, <1>4

(* The handlers *)

LEMMA UnderWay ==
    ASSUME CategoriesAssumption, CategoriesInv, NEW a \in Editors, request[a] # Unset
    PROVE  /\ request[a] \in CategoryRequests
           /\ WellFormed(request[a])
           /\ alone \subseteq {a}
           /\ request[a].cat = Unset \/ request[a].cat \in Cats
           /\ request[a].kind \in AboutCategory <=> request[a].cat \in Cats
           /\ request[a].kind \in AboutCategory \cup AboutUnit
<1>1. request[a] \in CategoryRequests
  BY DEF CategoriesInv, CategoriesTypeOK, OrUnset
<1>2. alone \subseteq {a}
  BY DEF CategoriesInv, CategoriesTypeOK, KeepsUp
<1>3. /\ request[a].cat \in OrUnset(Cats)
      /\ request[a].kind \in AboutCategory \cup AboutUnit
  BY <1>1 DEF CategoryRequests, AllButtons, AboutCategory, AboutUnit
<1>4. QED
  BY <1>1, <1>2, <1>3, SomethingSet DEF CategoriesInv, WellFormed, OrUnset, AboutCategory, AboutUnit

LEMMA CheckKeeps ==
    ASSUME CategoriesAssumption, CategoriesInv, NEW a \in Editors, CheckRequest(a)
    PROVE  CategoriesInv'
<1> DEFINE r == request[a]
           checked == [r EXCEPT !.step = "checked", !.loaded = IF r.cat = Unset THEN Unset ELSE categories[r.cat]]
           refused == [r EXCEPT !.step = "refused"]
<1>1. /\ r # Unset /\ r.step = "sent"
      /\ request' = [request EXCEPT ![a] = IF Accepts(r) THEN checked ELSE refused]
      /\ UNCHANGED <<categories, units, product, seenCategories, seenUnits, reading, category, draft,
                     requests, typings, alone>>
  BY Zenon DEF CheckRequest, catalogServer, catalogPanel
<1>2. /\ r \in CategoryRequests /\ WellFormed(r) /\ alone \subseteq {a}
      /\ r.cat # Unset => r.cat \in Cats
      /\ r.kind \in {"basics", "pricing"} => r.cat \in Cats
  BY <1>1, UnderWay DEF AboutCategory
<1>3. r.cat # Unset => categories[r.cat] \in OrUnset(CategoryRows)
  BY <1>2 DEF CategoriesInv, CategoriesTypeOK
<1>4. /\ r.kind = "basics" /\ Accepts(r) => categories[r.cat] # Unset
      /\ r.kind = "pricing" => (Accepts(r) <=> categories[r.cat] # Unset)
  BY DEF Accepts
<1>5. checked \in CategoryRequests /\ refused \in CategoryRequests
  BY <1>2, <1>3 DEF CategoryRequests, OrUnset
<1>6. /\ checked.kind = r.kind /\ checked.cat = r.cat /\ checked.body = r.body /\ checked.unit = r.unit
      /\ checked.to = r.to /\ checked.step = "checked"
      /\ checked.loaded = IF r.cat = Unset THEN Unset ELSE categories[r.cat]
      /\ refused.kind = r.kind /\ refused.cat = r.cat /\ refused.body = r.body /\ refused.unit = r.unit
      /\ refused.to = r.to /\ refused.step = "refused"
  BY <1>2 DEF CategoryRequests
<1>7. (Accepts(r) => WellFormed(checked)) /\ WellFormed(refused)
  BY <1>2, <1>3, <1>4, <1>6, SomethingSet DEF WellFormed, OrUnset
<1>8. CategoriesTypeOK'
  BY <1>1, <1>5 DEF CategoriesInv, CategoriesTypeOK, OrUnset
<1>9. \A b \in Editors : request'[b] # Unset => WellFormed(request'[b])
  BY <1>1, <1>7 DEF CategoriesInv, CategoriesTypeOK
<1>10. \A b \in alone' : KeepsUp(b)'
  <2>1. SUFFICES ASSUME a \in alone PROVE KeepsUp(a)'
    BY <1>1, <1>2
  <2>2. KeepsUp(a) /\ \A b \in Editors \ {a} : request'[b] = request[b]
    BY <1>1, <2>1 DEF CategoriesInv, CategoriesTypeOK
  <2>3. request'[a] = IF Accepts(r) THEN checked ELSE refused
    BY <1>1 DEF CategoriesInv, CategoriesTypeOK
  <2>4. request'[a] # Unset
    BY <1>5, <2>3, SomethingSet
  <2>5. request'[a].step \in {"checked", "refused"}
    BY <1>6, <2>3
  <2>6. Owes(r, "categories") => Owes(request[a], "categories")'
    BY <1>1, <1>4, <1>6, <2>3, <2>4 DEF Owes
  <2>7. ~Owes(r, "units")
    BY <1>1 DEF Owes
  <2>8. QED
    BY <1>1, <2>2, <2>5, <2>6, <2>7 DEF KeepsUp
<1>11. QED
  BY <1>1, <1>8, <1>9, <1>10 DEF CategoriesInv, ProductsClassified, NamesDiffer, WellFormed

LEMMA AnswerKeeps ==
    ASSUME CategoriesAssumption, CategoriesInv, NEW a \in Editors, AnswerRequest(a)
    PROVE  CategoriesInv'
<1> DEFINE r == request[a]
           rest == [r EXCEPT !.kind = "pricing", !.step = "sent"]
<1>1. /\ r # Unset /\ r.step = "done"
      /\ UNCHANGED <<categories, units, product, seenCategories, seenUnits, requests, typings, alone>>
  BY DEF AnswerRequest, catalogServer
<1>2. r \in CategoryRequests /\ WellFormed(r) /\ alone \subseteq {a}
  BY <1>1, UnderWay
<1>3. Invalidated("basics") = {"categories"} /\ Invalidated(r.kind) \subseteq Queries
  BY DEF Invalidated, Queries
<1>4. CASE r.kind = "basics"
  <2>1. request' = [request EXCEPT ![a] = rest] /\ UNCHANGED <<reading, category, draft>>
    BY <1>4, Zenon DEF AnswerRequest
  <2>2. /\ rest \in CategoryRequests /\ rest.kind = "pricing" /\ rest.step = "sent" /\ rest.cat = r.cat
        /\ rest.body = r.body
    BY <1>2 DEF CategoryRequests, AllButtons
  <2>3. WellFormed(rest) /\ rest # Unset
    BY <1>2, <1>4, <2>2, SomethingSet DEF WellFormed, AboutCategory, AboutUnit
  <2>4. CategoriesTypeOK'
    BY <1>1, <2>1, <2>2 DEF CategoriesInv, CategoriesTypeOK, OrUnset
  <2>5. \A b \in Editors : request'[b] # Unset => WellFormed(request'[b])
    BY <2>1, <2>3 DEF CategoriesInv, CategoriesTypeOK
  <2>6. \A b \in alone' : KeepsUp(b)'
    <3>1. SUFFICES ASSUME a \in alone PROVE KeepsUp(a)'
      BY <1>1, <1>2
    <3>2. KeepsUp(a) /\ request'[a] = rest /\ \A b \in Editors \ {a} : request'[b] = request[b]
      BY <1>1, <2>1, <3>1 DEF CategoriesInv, CategoriesTypeOK
    <3>3. Owes(request[a], "categories")'
      BY <1>1, <1>4, <2>2, <2>3, <3>2 DEF KeepsUp, Owes
    <3>4. ~Owes(r, "units")
      BY <1>1, <1>3, <1>4 DEF Owes
    <3>5. QED
      BY <1>1, <2>1, <2>2, <3>2, <3>3, <3>4 DEF KeepsUp
  <2>7. QED
    BY <1>1, <2>1, <2>4, <2>5, <2>6 DEF CategoriesInv, ProductsClassified, NamesDiffer, WellFormed
<1>5. CASE r.kind # "basics"
  <2>1. /\ request' = [request EXCEPT ![a] = Unset]
        /\ reading' = [reading EXCEPT ![a] = @ \cup Invalidated(r.kind)]
        /\ \/ /\ category' = [category EXCEPT ![a] = Unset]
              /\ draft' = [draft EXCEPT ![a] = Unset]
           \/ UNCHANGED <<category, draft>>
    BY <1>5, Zenon DEF AnswerRequest
  <2>2. /\ category' \in [Editors -> OrUnset(Cats)]
        /\ draft' \in [Editors -> OrUnset(CategoryDrafts)]
        /\ \A b \in Editors : category'[b] # Unset => draft'[b] # Unset
    BY <2>1 DEF CategoriesInv, CategoriesTypeOK, OrUnset
  <2>3. CategoriesTypeOK'
    BY <1>1, <1>3, <2>1, <2>2 DEF CategoriesInv, CategoriesTypeOK, OrUnset
  <2>4. \A b \in Editors : request'[b] # Unset => WellFormed(request'[b])
    BY <2>1 DEF CategoriesInv, CategoriesTypeOK
  <2>5. \A b \in alone' : KeepsUp(b)'
    <3>1. SUFFICES ASSUME a \in alone PROVE KeepsUp(a)'
      BY <1>1, <1>2
    <3>2. /\ KeepsUp(a) /\ request'[a] = Unset /\ \A b \in Editors \ {a} : request'[b] = request[b]
          /\ reading'[a] = reading[a] \cup Invalidated(r.kind)
      BY <1>1, <2>1, <3>1 DEF CategoriesInv, CategoriesTypeOK
    <3>3. QED
      BY <1>1, <3>2 DEF KeepsUp, Owes
  <2>6. QED
    BY <1>1, <2>2, <2>3, <2>4, <2>5 DEF CategoriesInv, ProductsClassified, NamesDiffer, WellFormed
<1>6. QED
  BY <1>4, <1>5

LEMMA RefuseKeeps ==
    ASSUME CategoriesAssumption, CategoriesInv, NEW a \in Editors, RefuseRequest(a)
    PROVE  CategoriesInv'
<1>1. /\ request[a] # Unset
      /\ request' = [request EXCEPT ![a] = Unset]
      /\ (request[a].step = "refused" /\ alone' = alone) \/ alone' = alone \ {a}
      /\ UNCHANGED <<categories, units, product, seenCategories, seenUnits, reading, category, draft,
                     requests, typings>>
  BY DEF RefuseRequest, catalogServer, catalogPanel
<1>2. alone \subseteq {a}
  BY <1>1, UnderWay
<1>3. CategoriesTypeOK'
  BY <1>1 DEF CategoriesInv, CategoriesTypeOK, OrUnset
<1>4. \A b \in Editors : request'[b] # Unset => WellFormed(request'[b])
  BY <1>1 DEF CategoriesInv, CategoriesTypeOK
<1>5. \A b \in alone' : KeepsUp(b)'
  <2>1. SUFFICES ASSUME a \in alone, request[a].step = "refused" PROVE KeepsUp(a)'
    BY <1>1, <1>2
  <2>2. KeepsUp(a) /\ request'[a] = Unset /\ \A b \in Editors \ {a} : request'[b] = request[b]
    BY <1>1, <2>1 DEF CategoriesInv, CategoriesTypeOK
  <2>3. QED
    BY <1>1, <2>1, <2>2 DEF KeepsUp, Owes
<1>6. QED
  BY <1>1, <1>3, <1>4, <1>5 DEF CategoriesInv, ProductsClassified, NamesDiffer, WellFormed

LEMMA ProductKeeps == ASSUME CategoriesAssumption, CategoriesInv, NewProduct PROVE CategoriesInv'
<1>1. PICK c \in Cats, u \in units : categories[c] # Unset /\ product' = [cat |-> c, unit |-> u]
  BY DEF NewProduct
<1>2. UNCHANGED <<categories, units, seenCategories, seenUnits, reading, category, draft, request, requests,
                  typings, alone>>
  BY DEF NewProduct, catalogPanel
<1>3. product' \in Classified /\ product'.cat = c
  BY <1>1 DEF CategoriesInv, CategoriesTypeOK, Classified
<1>4. CategoriesTypeOK'
  BY <1>2, <1>3 DEF CategoriesInv, CategoriesTypeOK, OrUnset
<1>5. ProductsClassified'
  BY <1>1, <1>2, <1>3 DEF ProductsClassified
<1>6. QED
  BY <1>2, <1>4, <1>5 DEF CategoriesInv, NamesDiffer, WellFormed, KeepsUp, Owes

(* The write of a category, and what it leaves true *)
LEMMA MergedIs ==
    ASSUME CategoriesAssumption, CategoriesInv, NEW a \in Editors,
           request[a] # Unset, request[a].step = "checked", request[a].cat \in Cats,
           CategoryConstraints(request[a])
    PROVE  LET r == request[a] IN
           /\ Merged(r) \in OrUnset(CategoryRows)
           /\ Merged(r) = Unset <=> r.kind = "delete"
           /\ r.kind \in {"pricing", "show", "hide"} => Merged(r).name = categories[r.cat].name
           /\ r.kind \in {"create", "basics"} => NameFree(Merged(r).name, r.cat)
           /\ r.kind = "delete" => ~Used(r.cat)
<1> DEFINE r == request[a]
           now == categories[r.cat]
<1>1. r \in CategoryRequests /\ WellFormed(r) /\ r.kind \in AboutCategory
  BY UnderWay
<1>2. /\ r.kind # "create" => now \in CategoryRows
      /\ r.kind \in {"create", "basics"} => NameFree(Merged(r).name, r.cat)
      /\ r.kind = "delete" => ~Used(r.cat)
  BY <1>1, Zenon DEF CategoryConstraints, CategoriesInv, CategoriesTypeOK, OrUnset, AboutCategory
<1>3. /\ r.kind \in {"create", "basics", "pricing"} => r.body \in CategoryDrafts
      /\ r.kind \in {"basics", "pricing"} => r.loaded \in CategoryRows
  BY <1>1 DEF WellFormed
<1>4. CASE r.kind = "create"
  <2>1. Merged(r) = [name |-> r.body.name, unit |-> r.body.unit, pricing |-> r.body.pricing, active |-> TRUE]
    BY <1>4 DEF Merged
  <2>2. Merged(r) \in CategoryRows
    BY <1>3, <1>4, <2>1 DEF CategoryRows, CategoryDrafts
  <2>3. QED
    BY <1>2, <1>4, <2>2, SomethingSet DEF OrUnset
<1>5. CASE r.kind = "basics"
  <2>1. Merged(r) = [now EXCEPT !.name = IF r.body.name # r.loaded.name THEN r.body.name ELSE @,
                                !.unit = IF r.body.unit # r.loaded.unit THEN r.body.unit ELSE @]
    BY <1>5 DEF Merged
  <2>2. Merged(r) \in CategoryRows
    BY <1>2, <1>3, <1>5, <2>1 DEF CategoryRows, CategoryDrafts
  <2>3. QED
    BY <1>2, <1>5, <2>2, SomethingSet DEF OrUnset
<1>6. CASE r.kind = "pricing"
  <2>1. Merged(r) = [now EXCEPT !.pricing = IF r.body.pricing # r.loaded.pricing THEN r.body.pricing ELSE @]
    BY <1>6 DEF Merged
  <2>2. Merged(r) \in CategoryRows /\ Merged(r).name = now.name
    BY <1>2, <1>3, <1>6, <2>1 DEF CategoryRows, CategoryDrafts
  <2>3. QED
    BY <1>2, <1>6, <2>2, SomethingSet DEF OrUnset
<1>7. CASE r.kind \in {"show", "hide"}
  <2>1. Merged(r) = [now EXCEPT !.active = r.kind = "show"]
    BY <1>7, Zenon DEF Merged
  <2>2. Merged(r) \in CategoryRows /\ Merged(r).name = now.name
    BY <1>2, <1>7, <2>1 DEF CategoryRows
  <2>3. QED
    BY <1>2, <1>7, <2>2, SomethingSet DEF OrUnset
<1>8. CASE r.kind = "delete"
  <2>1. Merged(r) = Unset
    BY <1>8 DEF Merged
  <2>2. QED
    BY <1>2, <1>8, <2>1 DEF OrUnset
<1>9. QED
  BY <1>1, <1>4, <1>5, <1>6, <1>7, <1>8 DEF AboutCategory

(* What a commit leaves true besides the rows *)
LEMMA DoneKeeps ==
    ASSUME CategoriesAssumption, CategoriesInv, NEW a \in Editors, NEW step \in {"done", "refused"},
           request[a] # Unset, request[a].step = "checked",
           request' = [request EXCEPT ![a].step = step],
           UNCHANGED <<product, seenCategories, seenUnits, reading, category, draft, requests, typings, alone>>,
           categories' \in [Cats -> OrUnset(CategoryRows)], units' \subseteq UnitNames,
           ProductsClassified', NamesDiffer',
           categories' # categories => step = "done" /\ request[a].kind \in AboutCategory \cup {"dropUnit"},
           units' # units => step = "done" /\ request[a].kind \in AboutUnit,
           step = "refused" => ~CategoryConstraints(request[a]),
           request[a].kind = "basics" /\ step = "done" => categories'[request[a].cat] # Unset
    PROVE  CategoriesInv'
<1> DEFINE r == request[a]
           answered == [r EXCEPT !.step = step]
<1>1. /\ r \in CategoryRequests /\ WellFormed(r) /\ alone \subseteq {a}
      /\ r.kind \in AboutCategory \cup AboutUnit
  BY UnderWay
<1>2. /\ answered \in CategoryRequests
      /\ answered.kind = r.kind /\ answered.cat = r.cat /\ answered.body = r.body /\ answered.unit = r.unit
      /\ answered.to = r.to /\ answered.step = step
  BY <1>1 DEF CategoryRequests
<1>3. WellFormed(answered) /\ answered # Unset
  BY <1>1, <1>2, SomethingSet DEF WellFormed
<1>4. /\ request'[a] = answered /\ \A b \in Editors \ {a} : request'[b] = request[b]
      /\ request' \in [Editors -> OrUnset(CategoryRequests)]
  BY <1>2 DEF CategoriesInv, CategoriesTypeOK, OrUnset
<1>5. CategoriesTypeOK'
  BY <1>4 DEF CategoriesInv, CategoriesTypeOK
<1>6. \A b \in Editors : request'[b] # Unset => WellFormed(request'[b])
  BY <1>3, <1>4 DEF CategoriesInv
<1>7. /\ r.kind \in AboutCategory \cup {"dropUnit"} => "categories" \in Invalidated(r.kind)
      /\ r.kind \in AboutUnit => "units" \in Invalidated(r.kind)
  BY DEF Invalidated, AboutCategory, AboutUnit, Queries
<1>8. ASSUME a \in alone PROVE KeepsUp(a)'
  <2>1. KeepsUp(a)
    BY <1>8 DEF CategoriesInv
  <2>2. ~Owes(r, "units") /\ (Owes(r, "categories") => r.kind = "pricing" /\ categories[r.cat] # Unset)
    BY DEF Owes
  <2>3. Owes(r, "categories") => step = "done"
    BY <2>2 DEF CategoryConstraints
  <2>4. step = "done" => /\ r.kind \in AboutCategory \cup {"dropUnit"} => Owes(request[a], "categories")'
                         /\ r.kind \in AboutUnit => Owes(request[a], "units")'
    BY <1>2, <1>3, <1>4, <1>7 DEF Owes
  <2>5. seenCategories[a] = categories \/ "categories" \in reading[a] \/ Owes(request[a], "categories")'
    BY <2>1, <2>2, <2>3, <2>4 DEF KeepsUp, AboutCategory
  <2>6. (seenCategories[a] = categories \/ "categories" \in reading[a] \/ Owes(request[a], "categories"))'
    BY <2>4, <2>5
  <2>7. (seenUnits[a] = units \/ "units" \in reading[a] \/ Owes(request[a], "units"))'
    BY <2>1, <2>2, <2>4 DEF KeepsUp
  <2>8. QED
    BY <1>2, <1>4, <2>1, <2>6, <2>7 DEF KeepsUp
<1>9. QED
  BY <1>1, <1>5, <1>6, <1>8 DEF CategoriesInv, WellFormed

LEMMA CommitKeeps ==
    ASSUME CategoriesAssumption, CategoriesInv, NEW a \in Editors, CommitRequest(a)
    PROVE  CategoriesInv'
<1> DEFINE r == request[a]
<1>1. /\ r # Unset /\ r.step = "checked"
      /\ UNCHANGED <<product, seenCategories, seenUnits, reading, category, draft, requests, typings, alone>>
  BY DEF CommitRequest, catalogPanel
<1>2. /\ r \in CategoryRequests /\ WellFormed(r)
      /\ r.cat = Unset \/ r.cat \in Cats
      /\ r.kind \in AboutCategory <=> r.cat \in Cats
      /\ r.kind \in AboutCategory \cup AboutUnit
      /\ Unset \notin Cats
  BY <1>1, UnderWay, SomethingSet
<1>3. CASE ~CategoryConstraints(r)
  <2>1. request' = [request EXCEPT ![a].step = "refused"] /\ UNCHANGED <<categories, units>>
    BY <1>3, Zenon DEF CommitRequest
  <2>2. ProductsClassified' /\ NamesDiffer' /\ CategoriesTypeOK
    BY <1>1, <2>1 DEF CategoriesInv, ProductsClassified, NamesDiffer
  <2>3. QED
    BY <1>1, <1>3, <2>1, <2>2, DoneKeeps DEF CategoriesTypeOK
<1>4. CASE CategoryConstraints(r) /\ r.cat = Unset
  <2>1. request' = [request EXCEPT ![a].step = "done"] /\ WriteUnits(r)
    BY <1>4, Zenon DEF CommitRequest
  <2>2. r.kind \in AboutUnit /\ r.unit \in UnitNames /\ (r.kind = "rename" => r.to \in UnitNames)
    BY <1>2, <1>4 DEF WellFormed
  <2>3. units' \subseteq UnitNames
    <3>1. units \subseteq UnitNames
      BY DEF CategoriesInv, CategoriesTypeOK
    <3>2. QED
      BY <2>1, <2>2, <3>1 DEF WriteUnits, AboutUnit
  <2>4. /\ \A c \in Cats : /\ categories'[c] = Unset <=> categories[c] = Unset
                           /\ categories'[c] # Unset => categories'[c].name = categories[c].name
        /\ categories' \in [Cats -> OrUnset(CategoryRows)]
        /\ categories' # categories => r.kind = "dropUnit"
    <3>1. CASE r.kind # "dropUnit"
      BY <2>1, <3>1 DEF WriteUnits, CategoriesInv, CategoriesTypeOK
    <3>2. CASE r.kind = "dropUnit"
      <4> DEFINE new(c) == IF categories[c] # Unset /\ categories[c].unit = r.unit
                           THEN [categories[c] EXCEPT !.unit = Unset] ELSE categories[c]
      <4>1. categories' = [c \in Cats |-> new(c)]
        BY <2>1, <3>2 DEF WriteUnits
      <4>2. ASSUME NEW c \in Cats
            PROVE  /\ new(c) \in OrUnset(CategoryRows)
                   /\ new(c) = Unset <=> categories[c] = Unset
                   /\ new(c) # Unset => new(c).name = categories[c].name
        <5>1. categories[c] \in OrUnset(CategoryRows)
          BY DEF CategoriesInv, CategoriesTypeOK
        <5>2. ASSUME categories[c] # Unset
              PROVE  /\ [categories[c] EXCEPT !.unit = Unset] \in CategoryRows
                     /\ [categories[c] EXCEPT !.unit = Unset].name = categories[c].name
          BY <5>1, <5>2 DEF OrUnset, CategoryRows
        <5>3. QED
          BY <5>1, <5>2, SomethingSet DEF OrUnset
      <4>3. QED
        BY <3>2, <4>1, <4>2
    <3>3. QED
      BY <3>1, <3>2
  <2>5. ProductsClassified'
    BY <1>1, <2>4, SomethingSet DEF CategoriesInv, CategoriesTypeOK, OrUnset, Classified, ProductsClassified
  <2>6. NamesDiffer'
    BY <2>4 DEF CategoriesInv, NamesDiffer
  <2>7. r.kind # "basics"
    BY <2>2 DEF AboutUnit
  <2>8. QED
    BY <1>1, <1>4, <2>1, <2>2, <2>3, <2>4, <2>5, <2>6, <2>7, DoneKeeps
<1>5. CASE CategoryConstraints(r) /\ r.cat \in Cats
  <2>1. /\ request' = [request EXCEPT ![a].step = "done"]
        /\ categories' = [categories EXCEPT ![r.cat] = Merged(r)] /\ UNCHANGED units
    BY <1>2, <1>5, Zenon DEF CommitRequest
  <2>2. /\ Merged(r) \in OrUnset(CategoryRows)
        /\ Merged(r) = Unset <=> r.kind = "delete"
        /\ r.kind \in {"pricing", "show", "hide"} => Merged(r).name = categories[r.cat].name
        /\ r.kind \in {"create", "basics"} => NameFree(Merged(r).name, r.cat)
        /\ r.kind = "delete" => ~Used(r.cat)
    BY <1>1, <1>5, MergedIs
  <2>3. /\ r.kind \in AboutCategory
        /\ r.kind # "create" => categories[r.cat] # Unset
    BY <1>2, <1>5 DEF CategoryConstraints, AboutCategory
  <2>4. /\ categories' \in [Cats -> OrUnset(CategoryRows)]
        /\ categories'[r.cat] = Merged(r)
        /\ \A c \in Cats \ {r.cat} : categories'[c] = categories[c]
    BY <1>5, <2>1, <2>2 DEF CategoriesInv, CategoriesTypeOK
  <2>5. ProductsClassified'
    BY <1>1, <1>5, <2>2, <2>4, SomethingSet
       DEF CategoriesInv, CategoriesTypeOK, OrUnset, Classified, ProductsClassified, Used
  <2>6. NamesDiffer'
    <3>1. ASSUME NEW c \in Cats, c # r.cat, categories[c] # Unset, Merged(r) # Unset
          PROVE  categories[c].name # Merged(r).name
      <4>1. CASE r.kind \in {"create", "basics"}
        BY <2>2, <3>1, <4>1 DEF NameFree
      <4>2. CASE r.kind \in {"pricing", "show", "hide"}
        BY <1>5, <2>2, <2>3, <3>1, <4>2 DEF CategoriesInv, NamesDiffer
      <4>3. QED
        BY <2>2, <2>3, <3>1, <4>1, <4>2 DEF AboutCategory
    <3>2. SUFFICES ASSUME NEW c \in Cats, NEW d \in Cats, c # d,
                          categories'[c] # Unset, categories'[d] # Unset
                   PROVE  categories'[c].name # categories'[d].name
      BY DEF NamesDiffer
    <3>3. QED
      BY <1>5, <2>4, <3>1, <3>2 DEF CategoriesInv, NamesDiffer
  <2>7. units' \subseteq UnitNames
    BY <2>1 DEF CategoriesInv, CategoriesTypeOK
  <2>8. r.kind = "basics" => categories'[r.cat] # Unset
    BY <2>2, <2>4
  <2>9. QED
    BY <1>1, <1>5, <2>1, <2>3, <2>4, <2>5, <2>6, <2>7, <2>8, DoneKeeps
<1>6. QED
  BY <1>2, <1>3, <1>4, <1>5

LEMMA CategoriesKeep ==
    ASSUME CategoriesAssumption, CategoriesInv, [CategoriesNext]_categoriesVars PROVE CategoriesInv'
<1>1. CASE NewProduct
  BY <1>1, ProductKeeps
<1>2. CASE \E a \in Editors, q \in Queries : ReadQuery(a, q)
  BY <1>2, ReadingKeeps
<1>3. CASE \E a \in Editors : (\E c \in Cats : OpenEditor(a, c)) \/ (\E d \in CategoryDrafts : TypeDraft(a, d))
  BY <1>3, EditingKeeps
<1>4. CASE \E a \in Editors : \/ CreateCategory(a) \/ SaveCategory(a) \/ SwitchActive(a) \/ DeleteCategory(a)
                              \/ AddUnit(a) \/ RenameUnit(a) \/ DropUnit(a)
  BY <1>4, ButtonsKeep
<1>5. CASE \E a \in Editors : CheckRequest(a) \/ CommitRequest(a) \/ AnswerRequest(a) \/ RefuseRequest(a)
  BY <1>5, CheckKeeps, CommitKeeps, AnswerKeeps, RefuseKeeps
<1>6. CASE UNCHANGED categoriesVars
  BY <1>6 DEF categoriesVars, catalogServer, catalogPanel, CategoriesInv, CategoriesTypeOK, ProductsClassified,
              NamesDiffer, WellFormed, KeepsUp, Owes
<1>7. QED
  BY <1>1, <1>2, <1>3, <1>4, <1>5, <1>6, Zenon DEF CategoriesNext

(* What the page of the categories shows is what is stored, and what is      *)
(* stored holds together.                                                   *)
LEMMA CategoriesAgree ==
    ASSUME CategoriesAssumption
    PROVE  CategoriesSpec => [](CategoriesTypeOK /\ ProductsClassified /\ NamesDiffer /\ CatalogIsCurrent)
<1>1. CategoriesInv => CategoriesTypeOK /\ ProductsClassified /\ NamesDiffer /\ CatalogIsCurrent
  BY DEF CategoriesInv, KeepsUp, Owes, CatalogIsCurrent
<1>2. QED
  BY <1>1, CategoriesStart, CategoriesKeep, PTL DEF CategoriesSpec

(***************************************************************************)
(* The menu of the tills                                                    *)
(***************************************************************************)

PressFits(r) ==
    /\ r.kind \in {"create", "update"} => r.body \in MenuDrafts
    /\ r.kind # "create" /\ r.step = "checked" => r.loaded \in MenuRows

\* What is known of who works alone
MenuKeepsUp(a) ==
    /\ \A b \in MenuEditors \ {a} : press[b] = Nowhere
    /\ seenMenu[a] = menu \/ a \in stale \/ (press[a] # Nowhere /\ press[a].step = "done")

MenuInv ==
    /\ MenuTypeOK
    /\ \A a \in MenuEditors : press[a] # Nowhere => PressFits(press[a])
    /\ ProductsPlaced
    /\ \A a \in only : MenuKeepsUp(a)

LEMMA SomewhereSet ==
    ASSUME PosMenuAssumption
    PROVE  /\ \A c \in Tabs : c # Nowhere
           /\ \A r \in MenuRows : r # Nowhere
           /\ \A d \in MenuDrafts : d # Nowhere
           /\ \A r \in MenuRequests : r # Nowhere
           /\ \A t \in [Tabs -> OrNowhere(MenuRows)] : t # Nowhere
BY DEF PosMenuAssumption

LEMMA MenuStart == ASSUME PosMenuAssumption, MenuInit PROVE MenuInv
<1>1. \A d \in BOOLEAN : NewTab(0, d) \in MenuRows
  BY DEF NewTab, MenuRows
<1>2. menu \in [Tabs -> OrNowhere(MenuRows)]
  BY <1>1 DEF MenuInit, OrNowhere
<1>3. MenuTypeOK
  BY <1>2 DEF MenuInit, MenuTypeOK, OrNowhere, PosMenuAssumption
<1>4. /\ \A a \in MenuEditors : press[a] = Nowhere /\ seenMenu[a] = menu
      /\ placed = Nowhere
  BY DEF MenuInit
<1>5. QED
  BY <1>3, <1>4 DEF MenuInv, MenuKeepsUp, ProductsPlaced, MenuTypeOK

(* The panel *)

LEMMA DraftingKeeps ==
    ASSUME PosMenuAssumption, MenuInv, NEW a \in MenuEditors,
           (\E c \in Tabs : EditTab(a, c)) \/ CancelTab(a) \/ TypeTab(a)
    PROVE  MenuInv'
<1>1. UNCHANGED <<menu, placed, seenMenu, stale, tabs, tab, press, presses, only>>
  BY DEF EditTab, CancelTab, TypeTab, SetDraft, menuTill
<1>2. /\ menuDraft' \in [MenuEditors -> OrNowhere(MenuDrafts)]
      /\ touched' \subseteq {b \in MenuEditors : menuDraft'[b] # Nowhere}
      /\ strokes' \in 0..MostStrokes
  <2>1. ASSUME NEW d \in OrNowhere(MenuDrafts), SetDraft(a, d)
        PROVE  /\ menuDraft' \in [MenuEditors -> OrNowhere(MenuDrafts)]
               /\ touched' \subseteq {b \in MenuEditors : menuDraft'[b] # Nowhere}
               /\ strokes' \in 0..MostStrokes
    BY <2>1 DEF SetDraft, MenuInv, MenuTypeOK
  <2>2. CASE \E c \in Tabs : EditTab(a, c)
    <3>1. PICK c \in Tabs : EditTab(a, c)
      BY <2>2
    <3>2. seenMenu[a][c] \in MenuRows
      BY <3>1 DEF EditTab, MenuInv, MenuTypeOK, OrNowhere
    <3>3. MenuDraftOf(c, seenMenu[a][c]) \in MenuDrafts
      BY <3>2 DEF MenuDraftOf, MenuDrafts, MenuRows
    <3>4. QED
      BY <2>1, <3>1, <3>3 DEF EditTab, OrNowhere
  <2>3. CASE CancelTab(a)
    BY <2>1, <2>3 DEF CancelTab, OrNowhere
  <2>4. CASE TypeTab(a)
    <3>1. PICK look \in {0, 1}, default \in BOOLEAN :
              menuDraft' = [menuDraft EXCEPT ![a] = [@ EXCEPT !.look = look, !.default = default]]
      BY <2>4 DEF TypeTab
    <3>2. menuDraft[a] \in MenuDrafts
      BY <2>4 DEF TypeTab, Editing, MenuInv, MenuTypeOK, OrNowhere
    <3>3. [menuDraft[a] EXCEPT !.look = look, !.default = default] \in MenuDrafts
      BY <3>2 DEF MenuDrafts
    <3>4. touched' = touched \cup {a} /\ strokes' \in 0..MostStrokes
      <4>1. /\ strokes < MostStrokes /\ strokes' = strokes + 1 /\ touched' = touched \cup {a}
            /\ strokes \in 0..MostStrokes /\ MostStrokes \in Nat
        BY <2>4 DEF TypeTab, MenuInv, MenuTypeOK, PosMenuAssumption
      <4>2. QED
        BY <4>1
    <3>5. QED
      BY <3>1, <3>3, <3>4, SomewhereSet DEF MenuInv, MenuTypeOK, OrNowhere
  <2>5. QED
    BY <2>2, <2>3, <2>4
<1>3. MenuTypeOK'
  BY <1>1, <1>2 DEF MenuInv, MenuTypeOK
<1>4. QED
  BY <1>1, <1>3 DEF MenuInv, PressFits, ProductsPlaced, MenuKeepsUp

LEMMA PressTabKeeps ==
    ASSUME PosMenuAssumption, MenuInv, NEW a \in MenuEditors,
           NEW kind \in AllMenuButtons, NEW c \in Tabs, NEW body \in OrNowhere(MenuDrafts),
           kind \in {"create", "update"} => body \in MenuDrafts, PressTab(a, kind, c, body)
    PROVE  MenuInv'
<1> DEFINE r == [kind |-> kind, cat |-> c, body |-> body, loaded |-> Nowhere, step |-> "sent"]
<1>1. /\ press' = [press EXCEPT ![a] = r] /\ press[a] = Nowhere
      /\ UNCHANGED <<menu, placed, seenMenu, stale, menuDraft, touched, tabs, tab, strokes>>
      /\ only' = only \cap {a}
      /\ presses' \in 0..MostPresses
  BY DEF PressTab, menuPanel, menuTill, MenuInv, MenuTypeOK, PosMenuAssumption
<1>2. r \in MenuRequests /\ PressFits(r)
  BY DEF MenuRequests, OrNowhere, PressFits
<1>3. MenuTypeOK'
  BY <1>1, <1>2 DEF MenuInv, MenuTypeOK, OrNowhere
<1>4. \A b \in MenuEditors : press'[b] # Nowhere => PressFits(press'[b])
  BY <1>1, <1>2 DEF MenuInv, MenuTypeOK
<1>5. \A b \in only' : MenuKeepsUp(b)'
  BY <1>1 DEF MenuInv, MenuTypeOK, MenuKeepsUp
<1>6. QED
  BY <1>1, <1>3, <1>4, <1>5 DEF MenuInv, PressFits, ProductsPlaced

LEMMA MenuButtonsKeep ==
    ASSUME PosMenuAssumption, MenuInv, NEW a \in MenuEditors,
           CreateTab(a) \/ SaveTab(a) \/ SwitchTab(a) \/ DeleteTab(a)
    PROVE  MenuInv'
<1>1. CASE CreateTab(a)
  <2>1. PICK c \in Tabs, look \in {0, 1} : PressTab(a, "create", c, [id |-> c, look |-> look, default |-> FALSE])
    BY <1>1 DEF CreateTab
  <2>2. [id |-> c, look |-> look, default |-> FALSE] \in MenuDrafts
    BY DEF MenuDrafts
  <2>3. QED
    BY <2>1, <2>2, PressTabKeeps DEF AllMenuButtons, OrNowhere
<1>2. CASE SaveTab(a) \/ SwitchTab(a) \/ DeleteTab(a)
  <2>1. menuDraft[a] \in MenuDrafts /\ menuDraft[a].id \in Tabs
    BY <1>2 DEF SaveTab, SwitchTab, DeleteTab, Editing, MenuInv, MenuTypeOK, OrNowhere, MenuDrafts
  <2>2. CASE SaveTab(a)
    BY <2>1, <2>2, PressTabKeeps DEF SaveTab, AllMenuButtons, OrNowhere
  <2>3. CASE SwitchTab(a) \/ DeleteTab(a)
    <3>1. PICK kind \in {"show", "hide", "delete"} : PressTab(a, kind, menuDraft[a].id, Nowhere)
      BY <2>3 DEF SwitchTab, DeleteTab
    <3>2. QED
      BY <2>1, <3>1, PressTabKeeps DEF AllMenuButtons, OrNowhere
  <2>4. QED
    BY <1>2, <2>2, <2>3
<1>3. QED
  BY <1>1, <1>2

LEMMA ReadMenuKeeps ==
    ASSUME PosMenuAssumption, MenuInv, NEW a \in MenuEditors, ReadMenu(a) PROVE MenuInv'
<1>1. UNCHANGED <<menu, placed, menuDraft, touched, tabs, tab, press, presses, strokes, only>>
  BY DEF ReadMenu, menuTill
<1>2. MenuTypeOK'
  BY <1>1 DEF MenuInv, MenuTypeOK, ReadMenu
<1>3. \A b \in only' : MenuKeepsUp(b)'
  BY <1>1 DEF MenuInv, MenuTypeOK, ReadMenu, MenuKeepsUp
<1>4. QED
  BY <1>1, <1>2, <1>3 DEF MenuInv, PressFits, ProductsPlaced

(* The handlers *)

LEMMA PressedIs ==
    ASSUME PosMenuAssumption, MenuInv, NEW a \in MenuEditors, press[a] # Nowhere
    PROVE  /\ press[a] \in MenuRequests /\ PressFits(press[a]) /\ press[a].cat \in Tabs
           /\ press[a].kind \in AllMenuButtons
           /\ only \subseteq {a}
<1>1. press[a] \in MenuRequests
  BY DEF MenuInv, MenuTypeOK, OrNowhere
<1>2. QED
  BY <1>1 DEF MenuInv, MenuTypeOK, MenuKeepsUp, MenuRequests

LEMMA CheckTabKeeps ==
    ASSUME PosMenuAssumption, MenuInv, NEW a \in MenuEditors, CheckTab(a) PROVE MenuInv'
<1> DEFINE r == press[a]
           refused == [r EXCEPT !.step = "refused"]
           checked == [r EXCEPT !.step = "checked", !.loaded = menu[r.cat]]
           refuses == (r.kind # "create" /\ menu[r.cat] = Nowhere) \/ (r.kind = "delete" /\ placed = r.cat)
<1>1. /\ r # Nowhere /\ r.step = "sent"
      /\ press' = [press EXCEPT ![a] = IF refuses THEN refused ELSE checked]
      /\ UNCHANGED <<menu, placed, seenMenu, stale, menuDraft, touched, tabs, tab, presses, strokes, only>>
  BY Zenon DEF CheckTab, menuPanel, menuTill
<1>2. r \in MenuRequests /\ PressFits(r) /\ r.cat \in Tabs /\ only \subseteq {a}
  BY <1>1, PressedIs
<1>3. menu[r.cat] \in OrNowhere(MenuRows)
  BY <1>2 DEF MenuInv, MenuTypeOK
<1>4. /\ refused \in MenuRequests /\ checked \in MenuRequests
      /\ refused.kind = r.kind /\ refused.body = r.body /\ refused.step = "refused"
      /\ checked.kind = r.kind /\ checked.body = r.body /\ checked.step = "checked" /\ checked.loaded = menu[r.cat]
  BY <1>2, <1>3 DEF MenuRequests
<1>5. PressFits(refused) /\ (~refuses => PressFits(checked))
  BY <1>2, <1>3, <1>4 DEF PressFits, OrNowhere
<1>6. MenuTypeOK'
  BY <1>1, <1>4 DEF MenuInv, MenuTypeOK, OrNowhere
<1>7. \A b \in MenuEditors : press'[b] # Nowhere => PressFits(press'[b])
  BY <1>1, <1>5 DEF MenuInv, MenuTypeOK
<1>8. \A b \in only' : MenuKeepsUp(b)'
  BY <1>1, <1>2 DEF MenuInv, MenuTypeOK, MenuKeepsUp
<1>9. QED
  BY <1>1, <1>6, <1>7, <1>8 DEF MenuInv, PressFits, ProductsPlaced

LEMMA WrittenIs ==
    ASSUME PosMenuAssumption, MenuInv, NEW a \in MenuEditors,
           press[a] # Nowhere, press[a].step = "checked", MenuConstraints(press[a])
    PROVE  /\ WrittenMenu(press[a]) \in [Tabs -> OrNowhere(MenuRows)]
           /\ placed # Nowhere => WrittenMenu(press[a])[placed] # Nowhere
<1> DEFINE r == press[a]
           now == menu[r.cat]
<1>1. r \in MenuRequests /\ PressFits(r) /\ r.cat \in Tabs /\ r.kind \in AllMenuButtons
  BY PressedIs
<1>2. /\ menu \in [Tabs -> OrNowhere(MenuRows)]
      /\ r.kind # "create" => now \in MenuRows
      /\ placed # Nowhere => placed \in Tabs /\ menu[placed] \in MenuRows
  BY <1>1 DEF MenuConstraints, MenuInv, MenuTypeOK, OrNowhere, ProductsPlaced
<1>3. /\ r.kind \in {"create", "update"} => r.body \in MenuDrafts
      /\ r.kind # "create" => r.loaded \in MenuRows
  BY <1>1 DEF PressFits
<1>4. ASSUME NEW row \in MenuRows, WrittenMenu(r) = [menu EXCEPT ![r.cat] = row]
      PROVE  /\ WrittenMenu(press[a]) \in [Tabs -> OrNowhere(MenuRows)]
             /\ placed # Nowhere => WrittenMenu(press[a])[placed] # Nowhere
  BY <1>1, <1>2, <1>4, SomewhereSet DEF OrNowhere
<1>5. CASE r.kind = "create"
  <2>1. NewTab(r.body.look, r.body.default) \in MenuRows
    BY <1>3, <1>5 DEF NewTab, MenuRows, MenuDrafts
  <2>2. WrittenMenu(r) = [menu EXCEPT ![r.cat] = NewTab(r.body.look, r.body.default)]
    BY <1>5 DEF WrittenMenu
  <2>3. QED
    BY <1>4, <2>1, <2>2
<1>6. CASE r.kind = "update"
  <2> DEFINE own == [now EXCEPT !.look = Differs(r.body.look, r.loaded.look, @),
                                !.default = Differs(r.body.default, r.loaded.default, @)]
             other(c) == IF menu[c] # Nowhere /\ r.body.default THEN [menu[c] EXCEPT !.default = FALSE] ELSE menu[c]
  <2>1. WrittenMenu(r) = [c \in Tabs |-> IF c = r.cat THEN own ELSE other(c)]
    BY <1>6 DEF WrittenMenu, Updated
  <2>2. own \in MenuRows
    BY <1>2, <1>3, <1>6 DEF MenuRows, MenuDrafts, Differs
  <2>3. ASSUME NEW c \in Tabs PROVE other(c) \in OrNowhere(MenuRows) /\ (menu[c] # Nowhere => other(c) # Nowhere)
    <3>1. menu[c] \in OrNowhere(MenuRows)
      BY <1>2
    <3>2. menu[c] # Nowhere => [menu[c] EXCEPT !.default = FALSE] \in MenuRows
      BY <3>1 DEF OrNowhere, MenuRows
    <3>3. QED
      BY <3>1, <3>2, SomewhereSet DEF OrNowhere
  <2> DEFINE written(c) == IF c = r.cat THEN own ELSE other(c)
  <2>4. own # Nowhere
    BY <2>2, SomewhereSet
  <2> HIDE DEF own, other
  <2>5. \A c \in Tabs : written(c) \in OrNowhere(MenuRows) /\ (menu[c] # Nowhere => written(c) # Nowhere)
    BY <2>2, <2>3, <2>4 DEF OrNowhere
  <2>6. WrittenMenu(r) = [c \in Tabs |-> written(c)]
    BY <2>1
  <2>7. placed # Nowhere => placed \in Tabs /\ menu[placed] # Nowhere
    BY <1>2, SomewhereSet
  <2> HIDE DEF written
  <2>8. QED
    BY <2>5, <2>6, <2>7
<1>7. CASE r.kind = "show"
  <2>1. WrittenMenu(r) = [menu EXCEPT ![r.cat].active = TRUE]
    BY <1>7 DEF WrittenMenu
  <2>2. [now EXCEPT !.active = TRUE] \in MenuRows
    BY <1>2, <1>7 DEF MenuRows
  <2>3. WrittenMenu(r) = [menu EXCEPT ![r.cat] = [now EXCEPT !.active = TRUE]]
    BY <2>1
  <2>4. QED
    BY <1>4, <2>2, <2>3
<1>8. CASE r.kind = "hide"
  <2> DEFINE cleared(d) == IF r.loaded.active THEN Differs(FALSE, r.loaded.default, d) ELSE d
             row == [now EXCEPT !.active = FALSE, !.default = cleared(@)]
  <2>1. WrittenMenu(r) = [menu EXCEPT ![r.cat].active = FALSE,
                                ![r.cat].default =
                                    IF r.loaded.active THEN Differs(FALSE, r.loaded.default, @) ELSE @]
    BY <1>8 DEF WrittenMenu
  <2>2. row \in MenuRows
    BY <1>2, <1>3, <1>8 DEF MenuRows, Differs
  <2>3. WrittenMenu(r) = [menu EXCEPT ![r.cat] = row]
    BY <1>1, <1>2, <1>8, <2>1 DEF MenuRows
  <2>4. QED
    BY <1>4, <2>2, <2>3
<1>9. CASE r.kind = "delete"
  <2>1. WrittenMenu(r) = [menu EXCEPT ![r.cat] = Nowhere] /\ placed # r.cat
    BY <1>9 DEF WrittenMenu, MenuConstraints
  <2>2. QED
    BY <1>1, <1>2, <2>1, SomewhereSet DEF OrNowhere
<1>10. QED
  BY <1>1, <1>5, <1>6, <1>7, <1>8, <1>9 DEF AllMenuButtons

LEMMA CommitTabKeeps ==
    ASSUME PosMenuAssumption, MenuInv, NEW a \in MenuEditors, CommitTab(a) PROVE MenuInv'
<1> DEFINE r == press[a]
<1>1. /\ r # Nowhere /\ r.step = "checked"
      /\ UNCHANGED <<placed, seenMenu, stale, menuDraft, touched, tabs, tab, presses, strokes, only>>
  BY DEF CommitTab, menuPanel, menuTill
<1>2. r \in MenuRequests /\ PressFits(r) /\ only \subseteq {a}
  BY <1>1, PressedIs
<1>3. PICK step \in {"done", "refused"} :
          /\ press' = [press EXCEPT ![a].step = step]
          /\ step = "done" => MenuConstraints(r) /\ menu' = WrittenMenu(r)
          /\ step = "refused" => menu' = menu
  BY DEF CommitTab
<1>4. menu' \in [Tabs -> OrNowhere(MenuRows)] /\ ProductsPlaced'
  BY <1>1, <1>3, WrittenIs DEF MenuInv, MenuTypeOK, ProductsPlaced
<1>5. /\ [r EXCEPT !.step = step] \in MenuRequests /\ PressFits([r EXCEPT !.step = step])
      /\ [r EXCEPT !.step = step].step = step
  BY <1>2 DEF MenuRequests, PressFits
<1>6. /\ press'[a] = [r EXCEPT !.step = step]
      /\ \A b \in MenuEditors \ {a} : press'[b] = press[b]
      /\ press' \in [MenuEditors -> OrNowhere(MenuRequests)]
  BY <1>3, <1>5 DEF MenuInv, MenuTypeOK, OrNowhere
<1>7. MenuTypeOK'
  BY <1>1, <1>4, <1>6 DEF MenuInv, MenuTypeOK
<1>8. \A b \in MenuEditors : press'[b] # Nowhere => PressFits(press'[b])
  BY <1>5, <1>6 DEF MenuInv
<1>9. ASSUME a \in only PROVE MenuKeepsUp(a)'
  <2>1. MenuKeepsUp(a) /\ press'[a] # Nowhere /\ press'[a].step = step
    BY <1>5, <1>6, <1>9, SomewhereSet DEF MenuInv
  <2>2. step = "refused" => menu' = menu
    BY <1>3
  <2>3. QED
    BY <1>1, <1>6, <2>1, <2>2 DEF MenuKeepsUp
<1>10. QED
  BY <1>1, <1>2, <1>4, <1>7, <1>8, <1>9 DEF MenuInv, PressFits

LEMMA EndTabKeeps ==
    ASSUME PosMenuAssumption, MenuInv, NEW a \in MenuEditors, AnswerTab(a) \/ FailTab(a) PROVE MenuInv'
<1>1. /\ press[a] # Nowhere
      /\ press' = [press EXCEPT ![a] = Nowhere]
      /\ UNCHANGED <<menu, placed, seenMenu, tabs, tab, presses, strokes>>
      /\ \/ /\ stale' = stale \cup {a} /\ only' = only
            /\ \/ menuDraft' = [menuDraft EXCEPT ![a] = Nowhere] /\ touched' = touched \ {a}
               \/ UNCHANGED <<menuDraft, touched>>
         \/ /\ UNCHANGED <<stale, menuDraft, touched>>
            /\ (press[a].step = "refused" /\ only' = only) \/ only' = only \ {a}
  BY DEF AnswerTab, FailTab, menuPanel, menuTill
<1>2. only \subseteq {a}
  BY <1>1, PressedIs
<1>3. /\ menuDraft' \in [MenuEditors -> OrNowhere(MenuDrafts)]
      /\ touched' \subseteq {b \in MenuEditors : menuDraft'[b] # Nowhere}
  BY <1>1 DEF MenuInv, MenuTypeOK, OrNowhere
<1>4. MenuTypeOK'
  BY <1>1, <1>3 DEF MenuInv, MenuTypeOK, OrNowhere
<1>5. \A b \in MenuEditors : press'[b] # Nowhere => PressFits(press'[b])
  BY <1>1 DEF MenuInv, MenuTypeOK
<1>6. \A b \in only' : MenuKeepsUp(b)'
  BY <1>1, <1>2 DEF MenuInv, MenuTypeOK, MenuKeepsUp
<1>7. QED
  BY <1>1, <1>4, <1>5, <1>6 DEF MenuInv, PressFits, ProductsPlaced

LEMMA PlaceKeeps == ASSUME PosMenuAssumption, MenuInv, NEW c \in Tabs, Place(c) PROVE MenuInv'
<1>1. /\ placed' = c /\ menu[c] # Nowhere
      /\ UNCHANGED <<menu, seenMenu, stale, menuDraft, touched, tabs, tab, press, presses, strokes, only>>
  BY DEF Place, menuPanel, menuTill
<1>2. MenuTypeOK'
  BY <1>1 DEF MenuInv, MenuTypeOK, OrNowhere
<1>3. QED
  BY <1>1, <1>2 DEF MenuInv, PressFits, ProductsPlaced, MenuKeepsUp

(* The till *)

LEMMA TillKeeps ==
    ASSUME PosMenuAssumption, MenuInv,
           ReadTabs \/ ChooseTab(Nowhere) \/ \E c \in Tabs : ChooseTab(c)
    PROVE  MenuInv' /\ TabStays
<1>1. UNCHANGED <<menu, placed, seenMenu, stale, menuDraft, touched, press, presses, strokes, only>>
  BY DEF ReadTabs, ChooseTab, menuPanel
<1>2. ActiveTabs \in [Tabs -> OrNowhere(MenuRows)]
  BY DEF ActiveTabs, MenuInv, MenuTypeOK, OrNowhere
<1>3. tabs' \in OrNowhere([Tabs -> OrNowhere(MenuRows)])
  BY <1>2 DEF ReadTabs, ChooseTab, MenuInv, MenuTypeOK, OrNowhere
<1>4. tab' \in OrNowhere(Tabs)
  <2>1. CASE ReadTabs
    BY <2>1 DEF ReadTabs, MenuInv, MenuTypeOK, OrNowhere
  <2>2. CASE ChooseTab(Nowhere) \/ \E c \in Tabs : ChooseTab(c)
    BY <2>2 DEF ChooseTab, OrNowhere
  <2>3. QED
    BY <2>1, <2>2
<1>5. MenuTypeOK'
  BY <1>1, <1>3, <1>4 DEF MenuInv, MenuTypeOK
<1>6. MenuInv'
  BY <1>1, <1>5 DEF MenuInv, PressFits, ProductsPlaced, MenuKeepsUp
<1>7. TabStays
  BY DEF ReadTabs, ChooseTab, TabStays
<1>8. QED
  BY <1>6, <1>7

LEMMA MenuKeeps == ASSUME PosMenuAssumption, MenuInv, [MenuNext]_menuVars PROVE MenuInv' /\ TabStays
<1>1. CASE \E c \in Tabs : Place(c)
  BY <1>1, PlaceKeeps DEF Place, menuTill, TabStays
<1>2. CASE ReadTabs \/ ChooseTab(Nowhere) \/ \E c \in Tabs : ChooseTab(c)
  BY <1>2, TillKeeps
<1>3. CASE \E a \in MenuEditors : (\E c \in Tabs : EditTab(a, c)) \/ CancelTab(a) \/ TypeTab(a)
  <2>1. MenuInv'
    BY <1>3, DraftingKeeps
  <2>2. tabs' = tabs
    BY <1>3 DEF EditTab, CancelTab, TypeTab, SetDraft, menuTill
  <2>3. QED
    BY <2>1, <2>2 DEF TabStays
<1>4. CASE \E a \in MenuEditors : CreateTab(a) \/ SaveTab(a) \/ SwitchTab(a) \/ DeleteTab(a)
  <2>1. MenuInv'
    BY <1>4, MenuButtonsKeep
  <2>2. tabs' = tabs
    BY <1>4 DEF CreateTab, SaveTab, SwitchTab, DeleteTab, PressTab, menuTill
  <2>3. QED
    BY <2>1, <2>2 DEF TabStays
<1>5. CASE \E a \in MenuEditors : ReadMenu(a) \/ CheckTab(a) \/ CommitTab(a) \/ AnswerTab(a) \/ FailTab(a)
  <2>1. MenuInv'
    BY <1>5, ReadMenuKeeps, CheckTabKeeps, CommitTabKeeps, EndTabKeeps
  <2>2. tabs' = tabs
    BY <1>5 DEF ReadMenu, CheckTab, CommitTab, AnswerTab, FailTab, menuTill
  <2>3. QED
    BY <2>1, <2>2 DEF TabStays
<1>6. CASE UNCHANGED menuVars
  BY <1>6 DEF menuVars, menuPanel, menuTill, MenuInv, MenuTypeOK, PressFits, ProductsPlaced, MenuKeepsUp, TabStays
<1>7. QED
  BY <1>1, <1>2, <1>3, <1>4, <1>5, <1>6, Zenon DEF MenuNext

(* What a menu panel shows is what is stored, and nothing moves a cashier.   *)
LEMMA MenuAgrees ==
    ASSUME PosMenuAssumption
    PROVE  MenuSpec => [](MenuTypeOK /\ ProductsPlaced /\ MenuIsCurrent) /\ [][TabStays]_menuVars
<1>1. MenuInv => MenuTypeOK /\ ProductsPlaced /\ MenuIsCurrent
  BY DEF MenuInv, MenuTypeOK, MenuKeepsUp, MenuIsCurrent
<1>2. QED
  BY <1>1, MenuStart, MenuKeeps, PTL DEF MenuSpec

(* The page of the categories (delete_category, create_category,             *)
(* update_category, delete_pos_category and the panels that call them): the  *)
(* category of a product exists, names differ, who works alone sees what is   *)
(* stored once nothing is awaited, and a change of the menu moves no cashier, *)
(* for any number of administrators, rows and requests.                     *)
THEOREM PanelAlwaysAgrees ==
    ASSUME CategoriesAssumption, PosMenuAssumption
    PROVE  PageSpec => PanelAgrees
BY CategoriesAgree, MenuAgrees DEF PageSpec, PanelAgrees
=============================================================================
