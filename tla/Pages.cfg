\* Walks through every list, with pages of 0 to 2 items and counts of 3 bits.
CONSTANTS
  n1 = n1
  n2 = n2
  n3 = n3
  n4 = n4
  Names = {n1, n2, n3, n4}
  Lists = {"txs", "contractTxs", "tokens", "balances", "delegators", "rewards", "totals"}
  Limits = {0, 1, 2}
  Width = 8
  Values = {1, 2}
  Groups = {1, 2}
  Starts = {{}, {n1}, {n1, n2}, {n1, n2, n3}}
  MaxChanges = 2
SPECIFICATION Spec
CHECK_DEADLOCK FALSE
INVARIANTS TypeOK  NoneSkipped  PageFits FailsOnlyByWrap
 
