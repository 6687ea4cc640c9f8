\* One node, one workspace, two jobs, two worker requests on their way: every
\* way a lease, a late answer, a completion and its retries can cross.
SPECIFICATION Spec
CONSTANTS
  n1 = n1
  w1 = w1
  None = None
  Nodes = {n1}
  Workspaces = {w1}
  MaxJobs = 2
  MaxReports = 2
  MaxDrafts = 1
  RequestKinds = {"start"}
  Silent = {}
  NodeOrders = {}
  Capacity <- Unlimited
  Demand <- OneUnit
  WorkerStates <- RemovedState
INVARIANTS
  AtMostOnceExecution
PROPERTIES
  TerminalIsFinal
  ImplementsJobQueue
