SPECIFICATION Spec
CONSTANTS
  o1 = o1
  o2 = o2
  o3 = o3
  s1 = s1
  s2 = s2
  s3 = s3
  root = root
  ann = ann
  bob = bob
  new = new
  k1 = k1
  Org = {o1, o2, o3}
  Store = {s1, s2, s3}
  User = {root, ann, bob, new}
  OrgOf <- StoresOrg
  None = None
  Request = {r1, r2}
  Ops <- StaffOps
  Opened = {o1, o2, s1, s2}
  Granted <- Pair
  Values = {"a", "b"}
  Text = {"t1", "t2"}
  Code = {"code"}
  Key = {k1}
  MaxVersions = 3
  MaxFaults = 0
SYMMETRY Symmetry
CHECK_DEADLOCK FALSE
INVARIANTS
  EveryOrgAdministered
