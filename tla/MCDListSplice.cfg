CONSTANTS
  l1 = l1
  l2 = l2
  n1 = n1
  n2 = n2
  n3 = n3
  n4 = n4
  u = u
  v = v
  NULL = NULL
  MovesNothing = TRUE
  List <- MCList
  Node <- MCNode
  Value <- MCValue
SPECIFICATION Spec
SYMMETRY Symmetry
INVARIANT EndsAtTail
