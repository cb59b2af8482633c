SPECIFICATION FairSpec
CONSTANTS
  Bots = {b1}
  Services = {s1, s2}
  First = {s1}
  Gestures = {g1}
  Reloads = {r1}
  Kinds = {"switch", "open", "create", "close", "add", "remove", "link", "forget", "edit"}
  NoPath = NoPath
  NoOp = NoOp
ACTION_CONSTRAINT Scope
INVARIANTS TypeOK ServicesKept
PROPERTY FlowsEnd
