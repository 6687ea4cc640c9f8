\* Everything done to a VM under the lock, and chat messages that resume it.
SPECIFICATION Spec
CONSTANTS
  Jobs <- AllJobs
  Openings = {"message"}
INVARIANTS
  TypeOK
  StoppedIsGone
PROPERTIES
  BeginsQuiet
  ImplementsSuspendableVm
