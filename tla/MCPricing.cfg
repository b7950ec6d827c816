SPECIFICATION Spec
CONSTANTS
  h1 = h1
  r1 = r1
  r2 = r2
  Handlers = {h1}
  Reloaders = {r1, r2}
  Files <- MCFiles
  OverrideSets <- MCOverrideSets
  None = None
  Text = Text
  Refused = Refused
  KeyError = KeyError
  Idle = Idle
SYMMETRY Symmetry
INVARIANTS TypeOK PriceIsReference Configured
