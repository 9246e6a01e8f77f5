CONSTANTS
  Slots = {0, 1}
  Certificates <- MCCertificates
  Shapes <- MCShapes
  Versions = {17, 19}
  MaxPortion = 10
  SigBytes = 6
  MaxLost = 1
  Budget = 5
SPECIFICATION ChallengeSpec
INVARIANTS JudgedRightly ChainIsTheSlots PlacedAsSent
CHECK_DEADLOCK FALSE
