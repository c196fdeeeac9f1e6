SPECIFICATION Spec
CONSTANTS
  First = 8
  Last = 32
  ItemSize = 5
  PageSize = 8
  IdMod = 5
  Capacity = 2
  MaxUnsaved = 1
INVARIANTS NewestRecordsIntact FlagsFollowMarks
