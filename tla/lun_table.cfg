SPECIFICATION Spec
CONSTANTS
  NB_MAX_LUN = 2
  Volumes = {v1, v2, v3}
  NoVolume = NoVolume
  Fds = {4, 5}
  NBMAXOBJECTS = 2
  Sizes = {1, 3}
  Garbage = {0, 4, 5}
  MdsReplies = {"error", "zero", "geometry"}
SYMMETRY VolumeSymmetry
INVARIANTS
  TypeOK
  HandlesOwnSlots
  FormattedByOwnWrite
  GarbageClosedOnce
