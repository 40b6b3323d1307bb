\* Two requests revoke the two owners of one workspace at once.
SPECIFICATION Spec
CONSTANTS
  None = None
  Tenant = {t1}
  User = {u1, u2}
  Server = {p1, p2}
INVARIANTS
  OwnerRemains
