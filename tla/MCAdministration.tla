---------------------------- MODULE MCAdministration ----------------------------
(***************************************************************************)
(* Small instances of Administration: two organisations with a store each, *)
(* a platform administrator in the first, a retailer administrator in      *)
(* each, and a user who is not known yet.                                  *)
(***************************************************************************)
EXTENDS Administration, TLC

CONSTANTS o1, o2, o3, s1, s2, s3, root, ann, bob, new, k1

StoresOrg == (s1 :> o1 @@ s2 :> o2 @@ s3 :> o2)

Row(role) == [role |-> role, status |-> "active"]
With(rows) ==
  [u \in User |-> [p \in Place |-> IF <<u, p>> \in DOMAIN rows THEN rows[<<u, p>>] ELSE None]]

Team == {With(<<root, o1>> :> Row("platform_admin") @@ <<ann, o2>> :> Row("retailer_admin")
              @@ <<bob, s2>> :> Row("store_manager"))}
\* Two administrators of the only organisation with staff.
Pair == {With(<<ann, o2>> :> Row("retailer_admin") @@ <<bob, o2>> :> Row("retailer_admin")
              @@ <<root, o1>> :> Row("retailer_admin"))}

Add(o, u, p, role) ==
  [kind |-> "add member", org |-> o, store |-> None, user |-> u, place |-> p, role |-> role]
Change(o, u, p, role, status) ==
  [kind |-> "change member", org |-> o, store |-> None, user |-> u, place |-> p,
   role |-> role, status |-> status]
Save(o, s, values, expected) ==
  [kind |-> "save config", org |-> o, store |-> s, values |-> values, expected |-> expected]
RollBack(o, s, version, expected) ==
  [kind |-> "roll back", org |-> o, store |-> s, version |-> version, expected |-> expected]
Edit(o, s, text, code, invites) ==
  [kind |-> "edit store", org |-> o, store |-> s, text |-> text, code |-> code, invites |-> invites]
Create(o, s, text, code) ==
  [kind |-> "create store", org |-> o, store |-> s, text |-> text, code |-> code, invites |-> None]
ForKey(kind, o, s, k) == [kind |-> kind, org |-> o, store |-> s, key |-> k]
ForUser(kind, u, o) == [kind |-> kind, user |-> u, org |-> o, store |-> None]

\* Every kind of request; paths that mix one organisation with a store or a
\* membership of the other are among them.
AllOps ==
  { Add(o2, new, s2, "store_manager"), Add(o2, new, s1, "store_manager"),
    Add(o2, new, o2, "platform_admin"),
    Change(o2, ann, o2, None, "disabled"), Change(o2, bob, s2, "retailer_admin", "disabled"),
    Change(o2, root, o1, "support_viewer", None), Change(o1, root, o1, None, "disabled"),
    Save(o2, s2, "a", 0), Save(o2, s2, "b", None), Save(o2, s1, "a", None),
    RollBack(o2, s2, 1, 1),
    Edit(o2, s2, "t2", None, None), Edit(o2, s2, None, "code", "on"), Edit(o2, s2, None, "", None),
    Create(o2, s3, "t1", "code"), [kind |-> "create org", org |-> o3, store |-> None],
    Add(o3, new, o3, "retailer_admin"),
    ForKey("create key", o2, s2, k1), ForKey("revoke key", o2, s2, k1),
    ForKey("revoke key", o1, s1, k1),
    ForUser("login", new, None), ForUser("bootstrap", new, o2), ForUser("bootstrap", bob, o2) }

StaffOps ==
  { Change(o2, ann, o2, None, "disabled"), Change(o2, bob, o2, "support_viewer", None) }

Symmetry == Permutations(Request)
===============================================================================
