SPECIFICATION Spec
CONSTANTS
  ann = ann  bob = bob
  Requests = {r1, r2, r3, r4}
  Lists = {dev, ops}
  People = {ann, bob}
  Bulks <- MCBulks
  Kinds <- AllKinds
SYMMETRY MCSymmetry
INVARIANTS
  TypeOK
  CountIsExact
  NoStrayMembers
  OptOutStands
CHECK_DEADLOCK FALSE
