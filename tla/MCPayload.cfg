SPECIFICATION Spec
CONSTANTS
  ByteBase = 4
  Capacity = 5
  Fields <- McFields
  MaxFields = 3
  Lengths <- McLengths
  MaxReads = 4
INVARIANTS
  TypeOK
  FieldsWhole
  WrittenIsPrefix
  ReadsBack
  AtTheNextField
CHECK_DEADLOCK FALSE
