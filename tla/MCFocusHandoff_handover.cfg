SPECIFICATION Spec
CONSTANTS
  Modifiers = {}
  Zones <- MCTwoZones
  Activators = {"grab", "cmd"}
  Releases = {"tray"}
  NetCap = 2
  BackCap = 1
CONSTRAINT ReceiverRelaysAtRest
INVARIANTS
  NoSwallowedInput
