CONSTANTS
  None = None
  Publishers = {p1, p2}
  Retries = 2
  MaxFaults = 2
SPECIFICATION Spec
INVARIANTS
  BusIInv
  OneConnection
  ExchangeBeforePublish
  HealthyBusPublishes
PROPERTIES
  StartupEnds
