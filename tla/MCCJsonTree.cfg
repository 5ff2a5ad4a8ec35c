CONSTANTS
  Node = {1, 2, 3, 4, 5, 6}
  NoNode = 0
  Key = {2, 3}
  Number = {v1, v2}
  Text = {t1}
  Fuel = {0, 1, 2, 8}
  MaxCalls = 4
SYMMETRY Symmetry
SPECIFICATION Spec
INVARIANTS
  HeapIsSound
  EverythingIsOwned
  ListsAreSequences
  DuplicateIsFaithful
  CompareIsEquality
CHECK_DEADLOCK FALSE
