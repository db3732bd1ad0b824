\* Walks through the totals of an epoch, in a table that holds two.
CONSTANTS
  n1 = n1
  n2 = n2
  n3 = n3
  n4 = n4
  Names = {n1, n2, n3, n4}
  Lists = {"totals"}
  Limits = {1, 2}
  Width = 8
  Values = {1, 2}
  Groups = {1, 2}
  Starts = {{}, {n1}, {n1, n2}, {n1, n2, n3}}
  MaxChanges = 0
SPECIFICATION Spec
CHECK_DEADLOCK FALSE
INVARIANTS OfTheEpoch
