SPECIFICATION Spec
CONSTANTS
  Bots = {b1, b2}
  Services = {s1}
  First = {s1}
  Gestures = {g1, g2}
  Reloads = {r1}
  Kinds = {"switch", "close", "add", "pick", "tabs"}
  NoPath = NoPath
  NoOp = NoOp
SYMMETRY Symmetry
INVARIANTS WatcherFollowsPath  
