SPECIFICATION FairSpec
CONSTANTS
  Txns = {0, 1}
  Rids = {r1, r2}
  Isolation <- RepeatableRead
  Ops = {"S", "X", "U"}
  MaxRequests = 4
INVARIANTS
  NoLostWakeup
PROPERTIES
  VictimsWait
  StateDiagram
  EveryRequestAnswered
