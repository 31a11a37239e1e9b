CONSTANTS
  l1 = l1
  l2 = l2
  n1 = n1
  n2 = n2
  n3 = n3
  n4 = n4
  u = u
  v = v
  NULL = NULL
  MovesNothing = FALSE
  List <- MCList
  Node <- MCNode
  Value <- MCValue
SPECIFICATION Spec
SYMMETRY Symmetry
INVARIANT TypeOK
INVARIANT Mirrored
INVARIANT NodesAreOwned
PROPERTY IsLists
PROPERTY CallsDoAsTheySay
INVARIANT EndsAtTail
