SPECIFICATION Spec
CONSTANTS
  Sizes = {1, 2}
  MaxMessages = 2
INVARIANTS
  HeardIsMessage
