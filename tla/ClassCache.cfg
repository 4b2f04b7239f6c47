SPECIFICATION Spec
CONSTANTS
  Reloaders = {startup, h1}
  Startup = startup
  Pages = {p1, p2}
  MaxVersion = 2
  Declares <- MCDeclares
  None = None
INVARIANTS
  TypeOK
  ReloadCompletes
  ReloadIsFresh
  KeysResolve
SYMMETRY PagesAreAlike
