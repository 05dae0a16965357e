CONSTANTS
  Places = {p1, p2, p3}
  Objects = {o1, o2, o3}
  Kinds <- SomeKinds
  Nothing = Nothing
SPECIFICATION Spec
INVARIANTS
  TypeOK
  OneOwner
PROPERTIES
  Implements
