SPECIFICATION Spec
CONSTANTS
  Kernels = {k1, k2}
  Vals = {v1, v2}
  Contents = {e, c}
  Empty = e
  v1 = v1
  v2 = v2
  e = e
  c = c
  Scalars = {1}
  Packables = {2}
  Messages = {3}
  Groups = {4}
  ReadOnly = {4}
  RepeatedMessages = {5}
  Buffers <- MCBuffers
  MaxSize = 4
  Null = Null
  Undefined = Undefined
  None = None
  NoField = NoField
  NoObj = NoObj
  Unset = Unset
  Unreadable = Unreadable
INVARIANTS
  TypeOK
  SerializesWhatItShows
PROPERTY
  ImplementsView
SYMMETRY Swaps
