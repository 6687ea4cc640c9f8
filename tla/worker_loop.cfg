\* One workspace; every request and every accident at any time.
SPECIFICATION FairSpec
CONSTANTS
  Workspaces = {w1}
  Kinds = {"start", "suspend", "remove"}
  Requests = {"ask", "command", "delete", "chat", "shutdown"}
  MaxQueued = 1
  Faults = {"vm", "step", "chat", "worker"}
INVARIANTS
  TypeOK
  AtMostOneLateJob
  
PROPERTIES
  ShutdownEnds
  JobsAreClaimed
  
