CONSTANTS
  g1 = g1
  g2 = g2
  a = a
  b = b
  x = x
  v1 = v1
  v2 = v2
  s1 = s1
  Graphs = {g1, g2}
  Ids = {a, b, x}
  BoundaryIds = {x}
  Contents = {v1, v2}
  Kinds <- MCKinds
  Sites = {s1}
  Confidences = {1, 2}
  Full = 2
  Thresholds = {1, 3}
  Depths = {0, 1, 2}
  Unset = Unset
  Absent = Absent
  NodePool <- MCNodes
  RelationPool <- MCRelations
  MaxRelations = 5
SPECIFICATION MCSpec
INVARIANTS TypeOK StatusCoversRecorded IndexCoherent
PROPERTIES LinkContract DedupeContract FactsPersist NodesPersist SliceClosed NeighborsContract Implements ImplementsFacts
