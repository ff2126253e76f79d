SPECIFICATION Spec
CONSTANTS
  VolumeNames = {v1, v2}
  nb_objects = 10
  Base = 2
  MAXOIDLEN = 7
  TimeLen = 3
  CounterLen = 4
  TEST_NB_OBJECTS = 10
  TEST_DP_NODES = 3
  Touched = {2, 9}
  MaxTime = 2
  conf = "/cache"
SYMMETRY VolumeSymmetry
INVARIANTS
  VolumesTypeOK
  NoSharedFile
  AddsToCounter
  EveryObjectPlaced
