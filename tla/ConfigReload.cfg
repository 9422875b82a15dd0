SPECIFICATION Spec
CONSTANTS
  c1 = c1
  c2 = c2
  h1 = h1
  h2 = h2
  Configs = {c1, c2}
  Invalid = Invalid
  Handlers = {h1, h2}
  MaxTime = 2
  MaxEdits = 2
  MaxPutFailures = 1
CHECK_DEADLOCK FALSE
INVARIANTS TypeOK HalvesAgree CopyIsWhole NoEditSkipped
PROPERTIES AppliedInOrder
