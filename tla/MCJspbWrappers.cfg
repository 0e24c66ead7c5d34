SPECIFICATION Spec
CONSTANTS
  p = p
  q = q
  Parents = {p, q}
  PerArray = 2
  Arrays = {a1, a2, a3}
  Empty = Empty
  Vals = {Empty, v}
  Unset = Unset
  NoMap = NoMap
  NoObj = NoObj
  Singular = {6}
  Oneof = {1, 2}
  Repeated = {3}
  Extensions = {4}
  RepeatedExtensions = {5}
  ReadsIntoLists = FALSE
  Touched <- MCTouched
  MaxChildren = 2
SYMMETRY Symmetry
INVARIANTS
  TypeOK
  WrappersOverData
  OneWrapperPerArray
  CloneShowsTheSame
PROPERTIES
  ImplementsTree

