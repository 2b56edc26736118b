CONSTANTS
  Settings = {c1, c2, c3}
  Blank = blank
  Torn = torn
SPECIFICATION Spec
INVARIANT SaveActivates
