SPECIFICATION Spec
CONSTANTS
  app = app
  hosted = hosted
  l1 = l1
  p1 = p1
  Checkouts <- HostAndHosted
  Launches = {l1}
  Passes = {p1}
  NoOne = NoOne
  Gates <- AHostLaunch
  PassOrder <- JustTheHosted
  Home = NoOne
  MayBeKept = {}
  MaxVersion = 1
  Pins <- PinsByVersion
  Pyproject <- PyprojectByVersion
  MaxFailures = 0
  MaxDeaths = 1
  MaxCopies = 2
PROPERTIES
  NothingMovesUnderAnApp
  LibrariesBeforeCode
  NoStartHalfWayThrough
