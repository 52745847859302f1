SPECIFICATION MirrorSpec
CONSTANTS
  Sub = {s1}
  MaxVersion = 4
CHECK_DEADLOCK FALSE
INVARIANTS
  MirrorTracksStripe
