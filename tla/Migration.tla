------------------------------- MODULE Migration -------------------------------
(* The database migration auth runs at every start, before it serves           *)
(* (auth/pkg/bootstrap/migrate.go), over the permission names of               *)
(* shared/pkg/permissions.  Each statement commits by itself, a start may stop *)
(* between two of them and begin again, and two instances may start at once,   *)
(* or one start while another serves requests that change the rows.            *)
(*                                                                             *)
(* A database of an earlier version holds role names, in a column roles or     *)
(* already in permissions.                                                     *)
EXTENDS FiniteSets

CONSTANTS User,         \* user ids
          Address,      \* email addresses, without regard to case
          Instance,     \* auth processes
          Held          \* the sets of role names that rows hold

VARIABLES users,        \* the rows
          hasRoles,     \* the column roles exists
          index,        \* the unique index on LOWER(email) exists
          pc,           \* per instance: where its start is, or "serving"
          found,        \* per instance: the rows its last SELECT found
          operators,    \* history: rows that held user_manager, not changed since
          alone         \* history: the instance whose start no other has run beside

vars == <<users, hasRoles, index, pc, found, operators, alone>>

-----------------------------------------------------------------------------
(* Permission names *)

Catalog == {"user.create", "user.update", "order.ship"}
Wildcard == {"*", "admin.*"}
Fine == Catalog \cup Wildcard
Role == {"owner", "admin", "user_manager", "customer_registrar", "order_manager", "customer"}

MigrationAssumption == Held \subseteq SUBSET Role

\* Whether a set of names grants a permission: by name, admin.* for those of
\* users, * for all.
Grants(held, want) ==
    \/ want \in held
    \/ "admin.*" \in held /\ want \in {"user.create", "user.update"}
    \/ "*" \in held

RolePermissions(role) ==
    CASE role = "owner" -> {"*"}
      [] role = "admin" -> {"admin.*", "user.create", "user.update", "order.ship"}
      [] role = "user_manager" -> {"user.update"}
      [] role = "customer_registrar" -> {"user.create"}
      [] role = "order_manager" -> {"order.ship"}
      [] OTHER -> {}

\* Gone wrong: only one of a row's roles is expanded.
ExpandOne(stored) ==
    RolePermissions(CHOOSE role \in stored : role \in Role)

\* ExpandLegacyRoles: the union; a name that is no role is ignored.
ExpandLegacyRoles(stored) == UNION {RolePermissions(role) : role \in stored \cap Role}

NeedsExpansion(stored) == stored \cap Role # {}

-----------------------------------------------------------------------------
(* The table *)

AccountType == {"customer", "manager", "service", "admin"}
Mail == [address : Address, lower : BOOLEAN]
Row == [roles : SUBSET Role, permissions : SUBSET (Role \cup Fine),
        type : AccountType, mail : Mail]

Collide(u, v) == users[u].mail.address = users[v].mail.address

Steps == {"columns", "copy", "drop", "list", "expand", "mails", "lower", "index",
          "create", "admins", "managers", "services", "serving"}

TypeOK ==
    /\ \E known \in SUBSET User : users \in [known -> Row]
    /\ \A u, v \in DOMAIN users :
            u # v => /\ users[u].mail # users[v].mail
                     /\ index => ~Collide(u, v)
    /\ hasRoles \in BOOLEAN /\ index \in BOOLEAN
    /\ pc \in [Instance -> Steps \cup {"down", "failed"}]
    /\ \A i \in Instance :
        /\ DOMAIN found[i] \subseteq User
        /\ \A u \in DOMAIN found[i] : found[i][u] \subseteq Fine

NothingFound == [u \in {} |-> {}]

\* A database of an earlier version: two rows with roles, in one of the two
\* columns.
Init ==
    /\ hasRoles \in BOOLEAN
    /\ \E known \in SUBSET User, held \in [User -> Held],
          type \in [User -> {"customer", "admin"}], mail \in [User -> Mail] :
        /\ \A u, v \in known : u # v => mail[u] # mail[v]
        /\ Cardinality(known) = 2
        /\ users = [u \in known |->
             [roles |-> IF hasRoles THEN held[u] ELSE {},
              permissions |-> IF hasRoles THEN {} ELSE held[u],
              type |-> type[u], mail |-> mail[u]]]
    /\ index = FALSE
    /\ pc = [i \in Instance |-> "down"]
    /\ found = [i \in Instance |-> NothingFound]
    /\ operators = {u \in DOMAIN users :
                        "user_manager" \in users[u].roles \cup users[u].permissions}
    /\ alone = {}

-----------------------------------------------------------------------------
(* One start *)

Go(i, from, to) == pc[i] = from /\ pc' = [pc EXCEPT ![i] = to]

Find(i, rows) == found' = [found EXCEPT ![i] = rows]

Start(i) ==
    /\ \/ Go(i, "down", "columns")
       \/ Go(i, "failed", "columns")
    /\ alone' = {j \in {i} : \A k \in Instance \ {i} : pc[k] \in {"down", "failed"}}
    /\ UNCHANGED <<users, hasRoles, index, found>>

\* The process stops, in the middle of a start or while it serves.
Stop(i) ==
    /\ pc[i] \notin {"down", "failed"}
    /\ pc' = [pc EXCEPT ![i] = "down"]
    /\ Find(i, NothingFound)
    /\ UNCHANGED <<users, hasRoles, index>>

\* renameRolesColumn looks whether the column is still there.
AfterColumns == IF hasRoles THEN "copy" ELSE "list"

\* The tables and columns are created where they are missing.
Columns(i) ==
    /\ Go(i, "columns", AfterColumns)
    /\ UNCHANGED <<users, hasRoles, index, found>>

\* UPDATE ... SET permissions = roles WHERE permissions is empty and roles not.
CopyRows ==
    users' = [u \in DOMAIN users |->
        IF users[u].permissions = {} /\ users[u].roles # {}
        THEN [users[u] EXCEPT !.permissions = users[u].roles] ELSE users[u]]

\* The statements of renameRolesColumn; they are errors once another instance
\* has dropped the column.
Copy(i) ==
    /\ Go(i, "copy", IF hasRoles THEN "drop" ELSE "failed")
    /\ IF hasRoles THEN CopyRows ELSE UNCHANGED users
    /\ UNCHANGED <<hasRoles, index, found>>

Drop(i) ==
    /\ Go(i, "drop", IF hasRoles THEN "list" ELSE "failed")
    /\ hasRoles' = FALSE
    /\ users' = [u \in DOMAIN users |-> [users[u] EXCEPT !.roles = {}]]
    /\ UNCHANGED <<index, found>>

\* Gone wrong: the roles are taken over as they are.
ListOnce(i) ==
    /\ Go(i, "list", "mails")
    /\ Find(i, NothingFound)
    /\ UNCHANGED <<users, hasRoles, index>>

\* expandLegacyPermissionValues reads the rows first ...
List(i) ==
    /\ Go(i, "list", "expand")
    /\ Find(i, [u \in {v \in DOMAIN users : NeedsExpansion(users[v].permissions)} |->
                    ExpandLegacyRoles(users[u].permissions)])
    /\ UNCHANGED <<users, hasRoles, index>>

Done(i, u) == Find(i, [v \in DOMAIN found[i] \ {u} |-> found[i][v]])

\* ... and writes them one at a time, as computed from what was read.
Expand(i, u) ==
    /\ pc[i] = "expand" /\ u \in DOMAIN found[i]
    /\ users' = [users EXCEPT ![u].permissions = found[i][u]]
    /\ Done(i, u)
    /\ UNCHANGED <<hasRoles, index, pc>>

Expanded(i) ==
    /\ DOMAIN found[i] = {}
    /\ Go(i, "expand", "mails")
    /\ UNCHANGED <<users, hasRoles, index, found>>

\* normalizeUserEmailCase likewise: first the rows that are not in lower case ...
Mails(i) ==
    /\ Go(i, "mails", "lower")
    /\ Find(i, [u \in {v \in DOMAIN users : ~users[v].mail.lower} |-> {}])
    /\ UNCHANGED <<users, hasRoles, index>>

\* LOWER(email), unless another row has that email already: then the row is
\* left for someone to look at.
LowerRow(u) ==
    IF \E v \in DOMAIN users \ {u} : Collide(u, v) /\ users[v].mail.lower
    THEN UNCHANGED users
    ELSE users' = [users EXCEPT ![u].mail.lower = TRUE]

Lower(i, u) ==
    /\ pc[i] = "lower" /\ u \in DOMAIN found[i]
    /\ LowerRow(u)
    /\ Done(i, u)
    /\ UNCHANGED <<hasRoles, index, pc>>

Lowered(i) ==
    /\ DOMAIN found[i] = {}
    /\ Go(i, "lower", "index")
    /\ UNCHANGED <<users, hasRoles, index, found>>

Collisions == \E u, v \in DOMAIN users : u # v /\ Collide(u, v)

\* Gone wrong: collisions are not looked for.
CheckNothing(i) ==
    /\ Go(i, "index", "create")
    /\ UNCHANGED <<users, hasRoles, index, found>>

\* createEmailLowerUniqueIndex looks for collisions, and leaves the index out
\* while there are any ...
CheckCollisions(i) ==
    /\ Go(i, "index", IF Collisions THEN "admins" ELSE "create")
    /\ UNCHANGED <<users, hasRoles, index, found>>

\* ... and creates it, which is an error if one has come up in between.
CreateIndex(i) ==
    /\ Go(i, "create", IF Collisions THEN "failed" ELSE "admins")
    /\ index' = (index \/ ~Collisions)
    /\ UNCHANGED <<users, hasRoles, found>>

SetType(wanted, type) ==
    users' = [u \in DOMAIN users |->
                IF wanted[u] THEN [users[u] EXCEPT !.type = type] ELSE users[u]]

\* account_type "admin" is now called "manager".
Admins(i) ==
    /\ Go(i, "admins", "managers")
    /\ SetType([u \in DOMAIN users |-> users[u].type = "admin"], "manager")
    /\ UNCHANGED <<hasRoles, index, found>>

\* Customers who hold one of the names become managers, and services.
Backfill(names, type) ==
    SetType([u \in DOMAIN users |-> /\ users[u].type = "customer"
                                    /\ users[u].permissions \cap names # {}], type)

Managers(i) ==
    /\ Go(i, "managers", "services")
    /\ Backfill({"owner", "admin", "user_manager", "*", "admin.*"}, "manager")
    /\ UNCHANGED <<hasRoles, index, found>>

Services(i) ==
    /\ Go(i, "services", "serving")
    /\ Backfill({"customer_registrar", "order_manager", "user.create"}, "service")
    /\ UNCHANGED <<hasRoles, index, found>>

-----------------------------------------------------------------------------
(* Requests that an instance serves *)

Serving == \E i \in Instance : pc[i] = "serving"

\* SetUserPermissions validates the names, so that no role gets in.
SetUserPermissions(u, permissions, type) ==
    /\ Serving /\ u \in DOMAIN users
    /\ users' = [users EXCEPT ![u].permissions = permissions, ![u].type = type]
    /\ operators' = operators \ {u}
    /\ UNCHANGED <<hasRoles, index, pc, found, alone>>

\* Register: no permissions, the email in lower case.
Register(u, address) ==
    /\ Serving /\ u \in User \ DOMAIN users
    /\ ~\E v \in DOMAIN users : /\ users[v].mail.address = address
                                /\ index \/ users[v].mail.lower
    /\ users' = [v \in DOMAIN users \cup {u} |->
          IF v # u THEN users[v]
          ELSE [roles |-> {}, permissions |-> {}, type |-> "customer",
                mail |-> [address |-> address, lower |-> TRUE]]]
    /\ UNCHANGED <<hasRoles, index, pc, found, operators, alone>>

\* What staff are given: nothing, a right of their own, or a tier.
Given == {{}, {"order.ship"}, {"admin.*"}}

Migrate(i) ==
    \/ Stop(i) \/ Columns(i) \/ Copy(i) \/ Drop(i) \/ List(i)
    \/ \E u \in User : Expand(i, u) \/ Lower(i, u)
    \/ Expanded(i) \/ Mails(i) \/ Lowered(i) \/ CheckCollisions(i) \/ CreateIndex(i)
    \/ Admins(i) \/ Managers(i) \/ Services(i)

Next ==
    \/ \E i \in Instance : Start(i) /\ UNCHANGED operators
    \/ \E i \in Instance : Migrate(i) /\ UNCHANGED <<operators, alone>>
    \/ \E u \in User, given \in Given, type \in {"customer", "manager"} :
            SetUserPermissions(u, given, type)
    \/ \E u \in User, address \in Address : Register(u, address)

Spec == Init /\ [][Next]_vars

-----------------------------------------------------------------------------
(* Properties *)

\* What a row lets its user do, whether it is written in roles or in permissions.
Rights(u) ==
    LET stored == IF users[u].permissions = {} THEN users[u].roles ELSE users[u].permissions
        held == (stored \cap Fine) \cup UNION {RolePermissions(r) : r \in stored \cap Role}
    IN  {want \in Catalog : Grants(held, want)}

\* However starts are interrupted, repeated and run beside each other, none
\* gives a user a right or takes one away, except over a request that changed
\* the row after a start had read its roles.
RightsSurviveStep ==
    \A u \in DOMAIN users :
        Rights(u)' # Rights(u)
        => \/ pc' = pc /\ found' = found
           \/ ~hasRoles /\ ~NeedsExpansion(users[u].permissions)

RightsSurvive == [][RightsSurviveStep]_vars

\* An instance serves only once no row holds a role name any more: the checks
\* of the requests know none.
NoRoleIsServed ==
    Serving => ~hasRoles /\ \A u \in DOMAIN users : ~NeedsExpansion(users[u].permissions)

\* Rows that the migration cannot put right never keep auth from starting: a
\* start that no other instance has run beside does not fail.
AloneAStartSucceeds == \A i \in alone : pc[i] # "failed"

\* What the backfill and docs/permissions.md say of human operators: who was a
\* user_manager has the account type manager once the migration has run.
UserManagersAreManagers == Serving => \A u \in operators : users[u].type = "manager"

-----------------------------------------------------------------------------
(* The inductive invariant of the proofs, in parts. *)

\* A row holds the names of roles, or those of permissions, and only in one column once
\* the other is gone.
RowsOK ==
    \A u \in DOMAIN users :
        /\ users[u].permissions \subseteq Role \/ users[u].permissions \subseteq Fine
        /\ ~hasRoles => users[u].roles = {}

\* How far the table is when a start has come so far.  A row that still holds roles is
\* as the start has read it.
StartOK(i) ==
    /\ pc[i] \notin {"down", "failed", "columns", "copy", "drop"} => ~hasRoles
    /\ pc[i] = "drop" /\ hasRoles =>
          \A u \in DOMAIN users : users[u].permissions = {} => users[u].roles = {}
    /\ pc[i] = "expand" =>
          \A u \in DOMAIN users : NeedsExpansion(users[u].permissions) =>
             /\ u \in DOMAIN found[i]
             /\ found[i][u] = ExpandLegacyRoles(users[u].permissions)
    /\ pc[i] \notin {"down", "failed", "columns", "copy", "drop", "list", "expand"} =>
          \A u \in DOMAIN users : ~NeedsExpansion(users[u].permissions)
    /\ DOMAIN found[i] \subseteq DOMAIN users

AloneOK ==
    \A i \in alone :
        /\ \A k \in Instance \ {i} : pc[k] \in {"down", "failed"}
        /\ pc[i] \in {"copy", "drop"} => hasRoles
        /\ pc[i] = "create" => ~Collisions

MigrationInv ==
    /\ TypeOK /\ RowsOK /\ AloneOK /\ AloneAStartSucceeds
    /\ alone \subseteq Instance /\ DOMAIN found = Instance
    /\ \A i \in Instance : StartOK(i)
=============================================================================
