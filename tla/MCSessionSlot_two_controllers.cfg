SPECIFICATION SlotSpec
CONSTANTS
  Peers = {p, q}
  Ins = {s1, s2}
  Outs = {}
  Closers = {"tray"}
  ShakeCap = 2
INVARIANTS
  OneController
