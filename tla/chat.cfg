\* Two tabs, two connections, pauses and stops, every accident.
SPECIFICATION FairSpec
CONSTANTS
  Chats = {p1, p2}
  MaxConns = 2
  MaxQueued = 1
  Sleeps = {"paused", "off"}
  Accidents = {"refused", "start", "exit", "dashboard"}
INVARIANTS
  TypeOK
  NewReplacesOld
  EntryIsServed
PROPERTIES
  DropIsExplained
  Settles
CHECK_DEADLOCK FALSE
