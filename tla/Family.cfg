\* Each part of the family beside the updater on a small instance.
SPECIFICATION FamilySafety
CONSTANTS
  hotfix1 = hotfix1
  hotfix2 = hotfix2
  opening1 = opening1
  opening2 = opening2
  landing1 = landing1
  landing2 = landing2
  library = library
  helper1 = helper1
  helper2 = helper2
  player = player
  broker = broker
  copy1 = copy1
  copy2 = copy2
  app1 = app1
  app2 = app2
  main = main
  portrait = portrait
  tool = tool
  double = double
  fixture = fixture
  shared_ui = shared_ui
  voice_core = voice_core
  funestra = funestra
  player_core = player_core
  program = program
  NoCheckout = NoCheckout
  FamilySiblings <- ThreeSiblings
  RenamedSiblings <- OneWasRenamed
  Gated <- OneOfThemAndAnApp
  Updater = Updater
  NoCommit = NoCommit
  Gone = Gone
  NoBranch = NoBranch
  NoCopy = NoCopy
  NoOffer = NoOffer
  Pin = Pin
  Menu = Menu
  Task = Task
  Nobodys = Nobodys
  Routes <- TwoRoutes
  Openings <- TwoOpenings
  Pids <- ThreePids
  Landings <- TwoLandings
  Libraries <- OneLibrary
  Helpers <- TwoHelpers
  Apps <- TwoApps
  AppCopies <- TwoCopies
  CopyPids <- TwoPids
  Checkouts <- TwoCheckouts
  Writers <- AllWriters
  Tools <- TheTool
  Nobody = Nobody
  Parts <- EveryPart
  OldTests <- OneOld
  NewTests <- TwoNew
  Definitions <- TwoDefinitions
  Undefined = Undefined
  Repeats = 2
  Cap = 7
  FirstChunk = 1
  PerCommand = 2
  MaxCommits = 2
  Keys <- ThreeFiles
  AtFirst <- TwoAreOver
  Most = 2
  MaxWork = 2
  MaxVerbs = 2
  MaxFaults = 1
  Cells = 2
  MaxFrames = 3
  MaxOpenings = 2
  MaxStarts = 2
  MaxEvents = 3
  Shell = 1
  MaxBirths = 4
  MaxReleases = 3
  Swept = 3
  MaxWait = 1
  MaxTrouble = 2
  MaxTakeovers = 3
  MaxCopyBirths = 3
  MaxChanges = 3
INVARIANTS VersionsAreKept ACancelIsHeeded ALandingMends EachIsBlamedForItself NothingIsLeftOfAHang WhatHeClosedStaysClosed TakeoversArrive ARunSettles VerbsArriveInOrder NoVerbIsLost EachIsRepeatedOrNamed PinsAreWhatImportsReach
PROPERTIES FixesStay NoneOfHisIsAnAgents AgentsAreTold PinsNeverGoBack FramesAreWhole FramesComeOnce TheChangedAreNamed NothingRisesOnMain
CHECK_DEADLOCK FALSE
