SPECIFICATION Spec
CONSTANTS
  f1 = f1
  f2 = f2
  g1 = g1
  g2 = g2
  Files = {f1, f2}
  Globals = {g1, g2}
  Null = Null
SYMMETRY Symmetry
INVARIANTS TypeOK TabsMatchDocuments OneGroupPerDocument ActiveIsRecent FocusOnTabs
PROPERTIES TabsSurvive
