SPECIFICATION Spec
CONSTANTS
  Modifiers = {}
  Zones <- MCTwoZones
  Activators = {"grab"}
  Releases = {"escape"}
  NetCap = 3
  BackCap = 2
PROPERTIES
  StopEndsControl
