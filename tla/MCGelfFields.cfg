SPECIFICATION MCSpec
CONSTANTS
  Rows <- MCRows
  Order <- MCOrder
  Keys <- MCKeys
  MaxEntries = 2
INVARIANT OwnFieldsPreserved
