SPECIFICATION Spec
CONSTANTS
  Bots = {b1, b2}
  Services = {s1}
  Gestures = {g1}
  Reloads = {r1}
  Kinds = {"switch", "open", "tabs"}
  NoPath = NoPath
  NoOp = NoOp
PROPERTY TabsClosedOnConsent
