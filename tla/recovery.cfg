\* Two nodes and one workspace that is recovered from either to the other while
\* its jobs are requested, claimed, run and completed; at most two job rows.
SPECIFICATION Spec
CONSTANTS
  n1 = n1
  n2 = n2
  w1 = w1
  None = None
  Nodes = {n1, n2}
  Workspaces = {w1}
  MaxJobs = 2
  MaxReports = 1
  MaxDrafts = 1
  RequestKinds = {"start"}
  NodeOrders = {}
  Silent = {}
  Capacity <- Unlimited
  Demand <- OneUnit
  WorkerStates <- LiveState
INVARIANTS
  OneActiveJobPerWorkspace
  TypeOK
  
SYMMETRY NodeSymmetry
