SPECIFICATION Spec
CONSTANTS
  Width = 12
  EntryBand = 2
  ReturnBand = 3
  DepartBand = 5
  Reach = 6
  Entries <- MCEntries
  Deltas <- MCDeltas
  Desktops <- MCDesktops
  EdgeBand = 1
  NameBand = 3
  Inset = 2
  Takers = {"edge"}
  Releasers = {"network"}
  Captures = {c1, c2}
  Faulty = {c2}
  HideCap = 2
  Creators = {s1, s2}
  Joiners = {j1, j2}
  Codes = {k1, k2}
  MaxChunks = 2
  Servers = {v1, v2}
  Phones = {p1, p2}
  Wrap = 4
  Prompts = {h1, h2}
  Clicks = {d1, d2}
  CtrMax = 4
  MaxSends = 6
  Pulls = {l1, l2}
  MaxSession = 2
INVARIANTS
  PartsTypeOK
  CaptureHasGuard
  QuitReachesLoop
  CursorComesBack
  NoOrphanRoom
  DoneIsWhole
  ConsentFirst
  OneServer
  PairedOnYes
  DecisionHonoured
  PendingHasPrompt
  NonceOnce
  OpensInOrder
  SharedWithConsent
  SlotsHaveOwners
  CrossingIsNamed
PROPERTIES
  HandBackNeedsExcursion
  RefinesZones
  EvictionNeedsCollision
  EveryRoomAnswered
CHECK_DEADLOCK FALSE
