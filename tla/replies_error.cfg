CONSTANTS
  Payloads = {0, 6, 11, 20, 50}
  Extras = {0, 3}
SPECIFICATION Spec
INVARIANT ServerErrorReported
CHECK_DEADLOCK FALSE
