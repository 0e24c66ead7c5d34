SPECIFICATION Spec
CONSTANTS
  Keys = {1, 2}
  Objs = {o1, o2}
  Vals = {v1, v2}
  Absent = Absent
  MaxLoad = 2
SYMMETRY Symmetry
INVARIANTS
  TypeOK
  ArrayMirrorsMap
PROPERTIES
  ImplementsStore
