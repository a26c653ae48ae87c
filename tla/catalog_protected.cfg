\* One board on one port, without entries in espbrew.toml.
CONSTANTS
  NBoards = 1
  NNames = 0
  Ports = {p1}
  NoPort = NoPort
  Aliases = {}
  Mappings = {}
  MaxRequests = 3
SPECIFICATION CatSpec
INVARIANTS ProtectedIsRefused
CHECK_DEADLOCK FALSE
