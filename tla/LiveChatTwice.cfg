SPECIFICATION Spec
CONSTANTS
  Docs = {d1, d2}
  Urls = {u1}
  MaxConvs = 2
  Gestures = {"url", "keyboard"}
  Speech = FALSE
  None = None
INVARIANT OneChatPerConversation
CHECK_DEADLOCK FALSE
