SPECIFICATION Spec
CONSTANTS
  app = app
  hosted = hosted
  l1 = l1
  p1 = p1
  Checkouts <- OneApp
  Launches = {l1}
  Passes = {p1}
  NoOne = NoOne
  Gates <- OneLaunchOfIt
  PassOrder <- JustTheApp
  Home = NoOne
  MayBeKept = {}
  MaxVersion = 1
  Pins <- PinsByVersion
  Pyproject <- PyprojectByVersion
  MaxFailures = 0
  MaxDeaths = 0
  MaxCopies = 2
PROPERTY
  NothingMovesUnderItself
