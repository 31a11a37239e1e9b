CONSTANTS
  l1 = l1
  l2 = l2
  n1 = n1
  n2 = n2
  n3 = n3
  n4 = n4
  n5 = n5
  n6 = n6
  u = u
  v = v
  NULL = NULL
  List <- MCList
  Node <- MCNode
  Value <- MCValue
  AppendsEmpty = FALSE
SPECIFICATION Spec
SYMMETRY Symmetry
INVARIANT TypeOK
INVARIANT TailIsLast
INVARIANT NodesAreOwned
PROPERTY CallsDoAsTheySay
