CONSTANTS
  Half = 2
  Devices <- MCDevices
  Exchanges <- MCExchanges
  Ecdsa <- MCEcdsa
  SigBytes = 12
  MaxMessages = 2
  Budget = 4
SPECIFICATION Spec
INVARIANTS PlacedIsWritten PassMeansReference GoodDevicePasses FailIsOfTheDevice
CHECK_DEADLOCK FALSE
