SPECIFICATION FairSpec
CONSTANTS
  MaxSpawns = 2
  Retries = 1
  Callers = {c1}
  Paths = {p1}
  NoPath = NoPath
  Local = Local
  Bypass = Bypass
  None = None
INVARIANTS TypeOK OneRecycle ServiceUrlIsCurrent NoStrayChild
PROPERTIES AnswersAreLatest ExpiryWatched ExpiryIsGenuine ExpiryAnnounced EveryCallAnswered
