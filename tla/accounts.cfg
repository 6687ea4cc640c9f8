\* Three accounts for two addresses, one invite of each role; one failure.
SPECIFICATION Spec
CONSTANTS
  i1 = i1
  i2 = i2
  Emails = {ann, bob}
  Names = {n1, n2}
  MaxUsers = 3
  Invites = {i1, i2}
  RoleOf <- OneOfEach
  MaxUses = 1
  Requests = {r1, r2}
  MaxJobs = 1
  MaxFailures = 1
INVARIANTS
  TypeOK
  NothingIsInherited
  OneWorkspaceEach
  AnAdminRemains
  
SYMMETRY Sym
CHECK_DEADLOCK FALSE
