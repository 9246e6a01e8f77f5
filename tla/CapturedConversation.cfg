SPECIFICATION Spec
CONSTANTS
  None = None
  Dts = 42
  Slots = {0, 1}
  ChainBytes <- MCChainBytes
  MaxPortion = 40
  Answers = {42, 57}
  MaxCertChain = 60
  Budget = 5
  MaxLost = 2
  MaxRestarts = 1
INVARIANTS
  RecoveredIsWhole
  ChainsAreThoseFetched
  RoundtripsReproduced
  ReadersAgree
