SPECIFICATION Spec
CONSTANTS
  a = a
  b = b
  c = c
  d = d
  v = v
  w = w
  Keys = {a, b, c, d}
  Values = {v, w}
  NoKey = NoKey
  NoValue = NoValue
  Hashes <- MCHashes
  Lengths <- MCLengths
  MaxCapacity = 16
SYMMETRY Symmetry
INVARIANTS
  TableConsistent
PROPERTY
  ImplementsDictionary
