SPECIFICATION FairSpec
CONSTANTS
  Handlers = {h1, h2}
  Sagas = {s1}
  MaxChecks = 2
  Unheard = Unheard
  NoOne = NoOne
INVARIANTS TypeOK AnswersItsDialog
PROPERTIES InstallsOnlyAsked EveryFlowEnds
