SPECIFICATION Spec
CONSTANTS
  Modifiers = {"shift"}
  Zones <- MCTwoZones
  Activators = {"grab"}
  Releases = {"escape", "hotkey"}
  NetCap = 2
  BackCap = 1
INVARIANTS
  HeldCoversReceiver
  NothingStuckAfterSession
