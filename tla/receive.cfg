SPECIFICATION Spec
CONSTANTS
  Sizes = {0, 1, 2, 4}
  MaxMessages = 5
INVARIANTS
  HeardEndsWithMessage
  OneAfterStop
PROPERTIES
  PrefixIsCut
