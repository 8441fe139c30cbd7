\* An older sender that may dial twice and change its wish, a newer one that stays.
SPECIFICATION Spec
CONSTANTS
  portrait = portrait
  main = main
  Senders <- TwoSenders
  NoOne = NoOne
  Hold = Hold
  Stop = Stop
  Dials <- DialsOfTwo
  MaxFailures = 1
  MaxKicks = 1
  MaxWants = 2
  Room = 1
  MayEnd = {portrait}
INVARIANTS HolderIsServed NobodyLosesItForNothing OneLineLate
PROPERTIES OlderStaysAway
CHECK_DEADLOCK FALSE
