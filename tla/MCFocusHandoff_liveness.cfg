SPECIFICATION FairSpec
CONSTANTS
  Modifiers = {}
  Zones <- MCTwoZones
  Activators = {"grab"}
  Releases = {"command"}
  NetCap = 2
  BackCap = 1
PROPERTIES
  HandBackCompletes
  ReleaseArrives
  LossFreesMouse
