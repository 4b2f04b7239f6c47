SPECIFICATION Spec
CONSTANTS
  Actors = {a1, a2, a3}
  Base = Base
  Texts <- MCTexts
  None = None
SYMMETRY Alike
INVARIANTS
  TypeOK
  PomIsSerial
  TornIsExplained
  MavenSeesOwn
  LibFollowsPom
