SPECIFICATION Spec
SYMMETRY Symmetry
CONSTANTS
    N = 1
    Maps = {p, q}
    Heap = {1, 2, 3}
    Keys = {k1, k2, k3}
    Vals = {x, d}
    Default = d
    Flats = {f, g}
    FlatKeys = {1, 2, 3}
    FlatVals = {u, z}
    FlatZero = z
    Slots = 3
    IndexBits = 2
    MaxGen = 5
    Garbage = {0, 5, 14}
    Lists = {l1, l2}
    Items = {i1, i2, i3}
    Null = null
    Results = {r1, r2}
    ResultOrs = {o1, o2}
    Reps = {1, 2, 3, 4}
    Codes = {kError, kNotFound}
    kOk = kOk
INVARIANTS
  MapSound
  FlatAgrees
  HandlesSound
  RingsIntact
  ResultsSound
CHECK_DEADLOCK FALSE
