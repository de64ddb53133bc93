SPECIFICATION EdgeSpec
CONSTANTS
  Width = 12
  EntryBand = 2
  ReturnBand = 3
  DepartBand = 5
  Reach = 6
  Entries <- MCEntries
  Deltas <- MCDeltas
PROPERTIES
  PushingBackReturns
