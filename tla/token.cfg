SPECIFICATION Spec
CONSTANTS
  u1 = u1  u2 = u2  u3 = u3
  Null = Null
  Users <- MCUsers
  Amounts <- MCAmounts
  MaxApprovals = 1
SYMMETRY Symmetry
INVARIANTS SupplyConserved BooksTidy
PROPERTY KeepsLedger
CHECK_DEADLOCK FALSE
