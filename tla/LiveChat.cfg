SPECIFICATION FairSpec
CONSTANTS
  Docs = {d1, d2}
  Urls = {u1, u2}
  MaxConvs = 2
  Gestures = {"endpoint", "url", "close", "startOver", "reconnect", "bot"}
  Speech = TRUE
  None = None
INVARIANTS TypeOK OneChatPerConversation
PROPERTY EveryChatConnects
CHECK_DEADLOCK FALSE
