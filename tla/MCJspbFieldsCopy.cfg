SPECIFICATION Spec
CONSTANTS
  a = a
  Msgs = {m1, m2}
  Refs = {r1, r2, r3}
  Vals = {a}
  Default = Default
  Unset = Unset
  NoExt = NoExt
  Sentinel = Sentinel
  Singular = {4}
  Repeated = {2}
  Oneof <- MCOneof
  Extensions = {6}
  SuggestedPivot = 5
  Infinity = 9
  Loads <- MCLoads
  CopyAcrossPivots = TRUE
  MaxList = 1
PROPERTIES
  CopyIntoCopies
