SPECIFICATION ControlSpec
CONSTANTS
  i1 = i1  i2 = i2  k1 = k1  k2 = k2  k3 = k3  k4 = k4
  Instruments = {i1, i2}
  Keys = {k1, k2, k3, k4}
SYMMETRY Symmetry
CHECK_DEADLOCK FALSE
INVARIANT
  PlatformHaltDenies
