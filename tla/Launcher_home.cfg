SPECIFICATION Spec
CONSTANTS
  app = app
  hosted = hosted
  l1 = l1
  p1 = p1
  Checkouts <- HostAndHosted
  Launches = {l1}
  Passes = {p1}
  NoOne = NoOne
  Gates <- OneLaunchOfIt
  PassOrder <- HostThenHosted
  Home = hosted
  MayBeKept = {}
  MaxVersion = 1
  Pins <- PinsByVersion
  Pyproject <- PyprojectByVersion
  MaxFailures = 0
  MaxDeaths = 0
  MaxCopies = 1
PROPERTY
  NothingMovesUnderAnUpdater
