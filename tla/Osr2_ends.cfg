\* One sender that dials twice, changes its wish and is closed; the broker ends.
SPECIFICATION FairSpec
CONSTANTS
  portrait = portrait
  main = main
  Senders <- OneSender
  NoOne = NoOne
  Hold = Hold
  Stop = Stop
  Dials <- TwoDials
  MaxFailures = 1
  MaxKicks = 1
  MaxWants = 2
  Room = 1
  MayEnd = {portrait, Stop}
PROPERTIES NoRelayIsLeftBehind AWishIsAnswered
CHECK_DEADLOCK FALSE
