SPECIFICATION Spec
CONSTANTS
  Kobo = {0, 1, 2, 3}
  MaxVersion = 6
  Exact = 4
  OnlyCovered = TRUE
INVARIANTS
  TypeOK
  BalanceIsPosted
  SaveKindMatchesTable
