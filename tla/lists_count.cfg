SPECIFICATION Spec
CONSTANTS
  ann = ann  bob = bob
  Requests = {r1, r2, r3, r4}
  Lists = {dev, ops}
  People = {ann}
  Bulks = {}
  Kinds = {"CreateList", "AddMember", "DeleteList"}
SYMMETRY MCSymmetry
INVARIANTS
  CountIsMembers
CHECK_DEADLOCK FALSE
