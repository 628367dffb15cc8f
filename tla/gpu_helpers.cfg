\* Two NVIDIA cards with two sensors each, or one Intel card of either driver.
\* The daemon may quit; once its clients are gone nothing happens any more.
SPECIFICATION FairSpec
CONSTANTS
  card1 = card1
  card2 = card2
  usage = usage
  power = power
  video = video
  Cards = {card1, card2}
  RefSensors = {usage, power}
  MaxLines = 2
  MaxTime = 3
  Wrap = 8
  XeSensors = {usage, video}
CHECK_DEADLOCK FALSE
INVARIANTS
  ProcessHeld
  SamplesRouted
  HelpersWanted
  UsageWithinTime
PROPERTIES
  IdleProcessesEnd
  SampleArrives

