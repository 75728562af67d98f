SPECIFICATION Spec
CONSTANTS
  N = 3
  B = 2
  Settings <- MCDefault
INVARIANT
  NoTear
