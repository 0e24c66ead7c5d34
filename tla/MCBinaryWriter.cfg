SPECIFICATION Spec
CONSTANTS
  IntField = 4
  MsgField = 2
  GroupField = 3
  MapField = 5
  BytesField = 16
  Ints <- MCInts
  Payloads <- MCPayloads
  Raw <- MCRaw
  MaxCalls = 4
INVARIANTS
  TypeOK
  ResultSaysWhatWasSaid
  LengthsAgree
  NothingUnsealedIsReturned
