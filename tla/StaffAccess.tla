------------------------------ MODULE StaffAccess ------------------------------
(***************************************************************************)
(* Staff users, their memberships and the requests that change them.  Each *)
(* statement against staff_users or staff_memberships is a step of its     *)
(* own: no request of this part opens a transaction.  A request may fail   *)
(* between any two of them, and what it has written then stays.            *)
(***************************************************************************)
EXTENDS Naturals, FiniteSets

CONSTANTS
  User,       \* staff users, named by their OIDC subject
  Org, Store,
  OrgOf,      \* Store -> Org
  None,
  Request,
  Ops,        \* what requests may ask for
  Opened,     \* the organisations and stores there are at the start
  Granted,    \* the memberships there may be at the start
  MaxFaults   \* bound: failed statements, abandoned requests, users disabled by hand

\* Where a membership holds: in a whole organisation, or in one of its stores.
Place == Org \cup Store
OrgAt(p) == IF p \in Org THEN p ELSE OrgOf[p]

Role == {"platform_admin", "retailer_admin", "store_manager", "support_viewer"}
Status == {"active", "disabled"}
Membership == [role: Role, status: Status]

\* rbac.go: the permissions the modelled requests ask for.
RolePermissions ==
  [platform_admin |-> {"organizations.manage", "stores.manage", "staff.manage",
                       "loyalty_config.write", "api_keys.rotate"},
   retailer_admin |-> {"stores.manage", "staff.manage", "loyalty_config.write", "api_keys.rotate"},
   store_manager  |-> {"loyalty_config.write"},
   support_viewer |-> {}]

ASSUME StaffAssumption ==
  /\ OrgOf \in [Store -> Org] /\ Org \cap Store = {}
  /\ Opened \subseteq Place /\ \A p \in Opened : OrgAt(p) \in Opened
  /\ None \notin User \cup Place \cup Role \cup Status \cup Membership
  /\ Granted \subseteq [User -> [Place -> Membership \cup {None}]]
  /\ \A m \in Granted, u \in User, p \in Place : m[u][p] # None => p \in Opened
  /\ MaxFaults \in Nat

VARIABLES
  places,   \* the rows of organizations and stores
  staff,    \* staff_users.status, or "none"
  member,   \* staff_memberships: the row of a user at a place, or None
  call,     \* per request: phase, caller, op, what its principal holds, rows it read
  faults

staffTables == <<places, staff, member>>
staffVars == <<staffTables, call, faults>>

Idle == [phase |-> "idle", caller |-> None, op |-> None, held |-> {}, read |-> None]
Over == {"done", "refused", "failed"}

Asks(r) == call[r].op
At(r, phase) == call[r].phase = phase
\* A request that is over keeps nothing of what it read.
Goes(r, phase) ==
  call' = [call EXCEPT ![r] =
    IF phase \in Over THEN [@ EXCEPT !.phase = phase, !.held = {}, !.read = None]
                      ELSE [@ EXCEPT !.phase = phase]]
Reads(r, phase, row) == call' = [call EXCEPT ![r].phase = phase, ![r].read = row]
Fault == faults < MaxFaults /\ faults' = faults + 1

\* The active memberships of a user, as loadPrincipal keeps them.
Active(u) ==
  {[place |-> p, role |-> member[u][p].role] :
     p \in {q \in Place : member[u][q] # None /\ member[u][q].status = "active"}}

IsPlatformAdmin(held) == \E h \in held : h.role = "platform_admin"

\* StaffPrincipal.HasPermission; store is None for an organisation's resource.
HasPermission(held, perm, org, store) ==
  \/ IsPlatformAdmin(held)
  \/ \E h \in held :
       /\ OrgAt(h.place) = org /\ perm \in RolePermissions[h.role]
       /\ h.place \in Org \/ h.place = store

Administrators(o) == {u \in User : HasPermission(Active(u), "staff.manage", o, None)}

-------------------------------------------------------------------------------
\* RequireStaff

PermissionOf(op) ==
  CASE op.kind \in {"add member", "change member"}  -> "staff.manage"
    [] op.kind \in {"save config", "roll back"}     -> "loyalty_config.write"
    [] op.kind \in {"create store", "edit store"}   -> "stores.manage"
    [] op.kind \in {"create key", "revoke key"}     -> "api_keys.rotate"
    [] op.kind = "create org"                       -> "organizations.manage"

FirstPhase(kind) ==
  CASE kind = "add member"    -> "find user"
    [] kind = "change member" -> "load member"
    [] kind = "login"         -> "done"
    [] kind = "create org"    -> "insert org"
    [] kind = "create store"  -> "insert store"
    [] OTHER                  -> "load store"

\* A token names its user and nothing else; ResolvePrincipal reads the user first.
Authenticate(r, u, op) ==
  /\ At(r, "idle") /\ op.kind \notin {"login", "bootstrap"} /\ staff[u] # "none"
  /\ call' = [call EXCEPT ![r] =
       [Idle EXCEPT !.caller = u, !.op = op,
                    !.phase = IF staff[u] = "active" THEN "load principal" ELSE "refused"]]
  /\ UNCHANGED <<staffTables, faults>>

\* Login and bootstrap start with the user's own row, bootstrap after it has found
\* the organisation.
BeginWithUser(r, op) ==
  /\ At(r, "idle") /\ op.kind \in {"login", "bootstrap"}
  /\ op.kind = "bootstrap" => op.org \in places
  /\ call' = [call EXCEPT ![r] = [Idle EXCEPT !.caller = op.user, !.op = op, !.phase = "find user"]]
  /\ UNCHANGED <<staffTables, faults>>

\* Any membership will do for a login; RequireGlobalStaffPermission asks for one that
\* has the permission, wherever it holds.
Allowed(held, op) ==
  CASE op.kind = "login"      -> held # {}
    [] op.kind = "create org" -> \E h \in held : PermissionOf(op) \in RolePermissions[h.role]
    [] OTHER                  -> HasPermission(held, PermissionOf(op), op.org, op.store)

LoadPrincipal(r) ==
  /\ At(r, "load principal")
  /\ LET held == Active(call[r].caller)
     IN  call' = [call EXCEPT ![r].held = held, ![r].phase =
           IF Allowed(held, Asks(r)) THEN FirstPhase(Asks(r).kind) ELSE "refused"]
  /\ UNCHANGED <<staffTables, faults>>

-------------------------------------------------------------------------------
\* Staff users: handleCreateStaffMembership, AuthenticateOIDC, BootstrapPlatformAdmin

\* Where each of the three goes on once the user exists.
WithUser(kind) ==
  CASE kind = "add member" -> "insert member"
    [] kind = "login"      -> "load principal"
    [] kind = "bootstrap"  -> "list members"

GrantsInScope(r) ==
  /\ Asks(r).role = "platform_admin" => IsPlatformAdmin(call[r].held)
  /\ OrgAt(Asks(r).place) = Asks(r).org
  /\ Asks(r).place \in Store => Asks(r).place \in places

FindUser(r) ==
  LET op == Asks(r)
  IN  /\ At(r, "find user")
      /\ Goes(r, IF op.kind = "add member" /\ ~GrantsInScope(r) THEN "refused"
                 ELSE IF staff[op.user] = "none" THEN "create user"
                 ELSE IF op.kind = "login" /\ staff[op.user] = "disabled" THEN "refused"
                 ELSE WithUser(op.kind))
      /\ UNCHANGED <<staffTables, faults>>

\* The loser of a race for one subject reads the winner's row, except in the
\* handler that adds members, which answers 500.
CreateUser(r) ==
  LET op == Asks(r)
  IN  /\ At(r, "create user")
      /\ IF staff[op.user] = "none"
         THEN staff' = [staff EXCEPT ![op.user] = "active"] /\ Goes(r, WithUser(op.kind))
         ELSE /\ Goes(r, IF op.kind = "add member" THEN "failed" ELSE "find user")
              /\ UNCHANGED staff
      /\ UNCHANGED <<places, member, faults>>

-------------------------------------------------------------------------------
\* Memberships

\* A platform administrator may have named an organisation that does not exist.
InsertMember(r) ==
  LET op == Asks(r)
  IN  /\ At(r, "insert member")
      /\ IF op.org \in places /\ member[op.user][op.place] = None
         THEN /\ member' = [member EXCEPT ![op.user][op.place] =
                              [role |-> op.role, status |-> "active"]]
              /\ Goes(r, "done")
         ELSE Goes(r, IF op.org \in places THEN "refused" ELSE "failed") /\ UNCHANGED member
      /\ UNCHANGED <<places, staff, faults>>

\* Mutant: whose membership it is goes unchecked.
OwnUnchecked(r) == TRUE
NotOwn(r) == call[r].caller # Asks(r).user

MayChange(r, row) ==
  /\ OrgAt(Asks(r).place) = Asks(r).org
  /\ NotOwn(r)
  /\ "platform_admin" \in {Asks(r).role, row.role} => IsPlatformAdmin(call[r].held)

AfterRole(op) == IF op.status = None THEN "done" ELSE "set status"

\* handleUpdateStaffMembership decides on the row as it is now ...
LoadMember(r) ==
  LET op == Asks(r)
      row == member[op.user][op.place]
  IN  /\ At(r, "load member")
      /\ IF row # None /\ MayChange(r, row)
         THEN Reads(r, IF op.role = None THEN "set status" ELSE "set role", row)
         ELSE Goes(r, "refused")
      /\ UNCHANGED <<staffTables, faults>>

\* ... and updates it by its id, whatever it has become.
SetRole(r) ==
  /\ At(r, "set role")
  /\ member' = [member EXCEPT ![Asks(r).user][Asks(r).place].role = Asks(r).role]
  /\ Goes(r, AfterRole(Asks(r)))
  /\ UNCHANGED <<places, staff, faults>>

SetStatus(r) ==
  /\ At(r, "set status")
  /\ member' = [member EXCEPT ![Asks(r).user][Asks(r).place].status = Asks(r).status]
  /\ Goes(r, "done")
  /\ UNCHANGED <<places, staff, faults>>

-------------------------------------------------------------------------------
\* resolveOrCreatePlatformAdminMembership: an existing row is promoted, and its
\* status left as it is.

ListMembers(r) ==
  LET op == Asks(r)
      row == member[op.user][op.org]
  IN  /\ At(r, "list members")
      /\ Goes(r, CASE row = None -> "grant"
                   [] row # None /\ row.role # "platform_admin" -> "promote"
                   [] OTHER -> "done")
      /\ UNCHANGED <<staffTables, faults>>

Promote(r) ==
  /\ At(r, "promote")
  /\ member' = [member EXCEPT ![Asks(r).user][Asks(r).org].role = "platform_admin"]
  /\ Goes(r, "done")
  /\ UNCHANGED <<places, staff, faults>>

Grant(r) ==
  LET op == Asks(r)
  IN  /\ At(r, "grant")
      /\ IF member[op.user][op.org] = None
         THEN /\ member' = [member EXCEPT ![op.user][op.org] =
                              [role |-> "platform_admin", status |-> "active"]]
              /\ Goes(r, "done")
         ELSE Goes(r, "list members") /\ UNCHANGED member
      /\ UNCHANGED <<places, staff, faults>>

-------------------------------------------------------------------------------
\* No code disables a staff user: an operator does, in the database.
DisableUser(u) ==
  /\ staff[u] = "active" /\ Fault
  /\ staff' = [staff EXCEPT ![u] = "disabled"]
  /\ UNCHANGED <<places, member, call>>

StaffInit ==
  /\ places = Opened
  /\ member \in Granted
  /\ staff = [u \in User |->
       IF \E p \in Place : member[u][p] # None THEN "active" ELSE "none"]
  /\ call = [r \in Request |-> Idle]
  /\ faults = 0

StaffStep(r) ==
  \/ \E op \in Ops : BeginWithUser(r, op) \/ \E u \in User : Authenticate(r, u, op)
  \/ LoadPrincipal(r) \/ FindUser(r) \/ CreateUser(r) \/ InsertMember(r)
  \/ LoadMember(r) \/ SetRole(r) \/ SetStatus(r)
  \/ ListMembers(r) \/ Promote(r) \/ Grant(r)
===============================================================================
