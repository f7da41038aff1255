CONSTANTS
  Schemas <- Tables
  Column <- MCColumn
  Value <- MCValue
  Null = "null"
  Default = "default"
  Sequence <- MCSequence
  Wheres <- MCWheres
  Filters <- MCFilters
  Nil = Nil
  MaxBatch = 2
  MaxRows = 2
SPECIFICATION Spec
INVARIANTS TypeOK NoWriteUndone
PROPERTIES NeverPatched SingleRow BulkStaysInWhere NotFoundIsAbsent BatchIsAtomic
