SPECIFICATION FairSpec
CONSTANTS
  Handlers = {h1}
  Sagas = {s1}
  MaxChecks = 1
  Unheard = Unheard
  NoOne = NoOne
PROPERTY EveryShowAnswered
