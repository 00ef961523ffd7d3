SPECIFICATION Spec
CONSTANTS
  Kobo = {0, 1, 2, 3}
  MaxVersion = 4
  Exact = 4
  OnlyCovered = FALSE
INVARIANT BalanceIsPosted
