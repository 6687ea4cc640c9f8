\* One workspace directory, two backups restored in any order, an attempt cut
\* short at any file operation.
SPECIFICATION Spec
CONSTANTS
  b1 = b1
  b2 = b2
  None = None
  Backups = {b1, b2}
INVARIANTS
  MissingIsRecoverable
  SwapInv
PROPERTIES
  NonDestructive
  RestoreDelivers
SYMMETRY BackupSymmetry
