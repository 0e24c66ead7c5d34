SPECIFICATION Spec
CONSTANTS
  IntField = 4
  MsgField = 2
  GroupField = 3
  MapField = 5
  MaxShort = 4
  MaxLong = 5
  Buffers <- MCBuffers
  Reused <- MCReused
  ResetAfterError = TRUE
PROPERTIES
  ResetRestoresEnd
