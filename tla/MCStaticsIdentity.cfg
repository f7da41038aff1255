CONSTANTS
  Schemas <- Identity
  Column <- MCColumn
  Value <- MCValue
  Null = "null"
  Default = "default"
  Sequence <- MCSequence
  Wheres <- MCWheres
  Filters <- MCFilters
  Nil = Nil
  MaxBatch = 2
  MaxRows = 2
SPECIFICATION Spec
PROPERTIES InsertListsAccepted
