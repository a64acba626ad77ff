SPECIFICATION Spec
CONSTANTS
  Jobs = {j1}
  Undeletable = {}
  MaxRetries = 1
PROPERTY DeletesOnlyFinalized
