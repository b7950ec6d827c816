SPECIFICATION Spec
CONSTANTS
  a1 = a1
  la = la
  lb = lb
  Apis = {a1}
  Workers = {}
  Loaders = {la, lb}
  Owner <- MCOwner
  Files = {1, 2}
  Ids = {"m1", "m2"}
  Modes <- MCModes
  MaxEdits = 2
  None = None
  Broken = Broken
SYMMETRY Symmetry
INVARIANTS TypeOK LoadApplies UntouchedServed
