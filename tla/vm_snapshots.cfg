\* Everything that is done to a VM, with and without the lock.
SPECIFICATION Spec
CONSTANTS
  Jobs <- AllJobs
  Openings = {"message", "start"}
INVARIANTS
  FrozenInv
PROPERTIES
  ResumesCurrent
