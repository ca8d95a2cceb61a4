\* Two miners, five faults.
SPECIFICATION Spec
CONSTANTS
  m1 = m1
  m2 = m2
  Logins = {m1, m2}
  Threshold = 1
  Credits = {1, 2}
  MaxCredit = 5
  MaxFaults = 5
INVARIANTS
  Conserved
  FinancesAgree
  OnePending
