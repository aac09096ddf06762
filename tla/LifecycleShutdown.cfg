CONSTANTS
  Requests = {1}
  MaxEdits = 1
SPECIFICATION Spec
INVARIANT InFlightGetTheirWindow
