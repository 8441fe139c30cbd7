SPECIFICATION FairSpec
CONSTANTS
  app = app
  hosted = hosted
  l1 = l1
  p1 = p1
  Checkouts <- OneApp
  Launches = {l1}
  Passes = {p1}
  NoOne = NoOne
  Gates <- OneLaunchOfIt
  PassOrder <- JustTheApp
  Home = NoOne
  MayBeKept = {app}
  MaxVersion = 1
  Pins <- PinsByVersion
  Pyproject <- PyprojectByVersion
  MaxFailures = 1
  MaxDeaths = 0
  MaxCopies = 1
PROPERTIES
  ShippedCodeArrives
  ANeverClosedAppTakesIt
  NothingMovesUnderAnApp
  LibrariesBeforeCode
