SPECIFICATION VaultFairSpec
CONSTANTS
  w1 = w1
  w2 = w2
  Workers = {w1, w2}
  MaxVaultFaults = 2
  MaxExpiries = 1
  MaxWrites = 1
INVARIANTS NeverNilClient RenewalGoesOn
PROPERTIES EventuallyReads
CHECK_DEADLOCK FALSE
