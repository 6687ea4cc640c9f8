\* A dashboard and a preview of one workspace, two ports, two requests at a time.
SPECIFICATION Spec
CONSTANTS
  dash = dash
  web = web
  w1 = w1
  Dashboards = {dash}
  Previews = {web}
  Home <- OneHome
  Ports = {p1, p2}
  Processes = {c1, c2}
  Requests = {r1, r2}
  None = None
INVARIANTS
  TypeOK
  PortsExclusive
  PreviewsTracked
  ClosedStaysClosed
  ClashNeedsEarlyRelease
  LockHolders
SYMMETRY Sym
