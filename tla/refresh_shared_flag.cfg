\* Two devices share the static flag.
SPECIFICATION RateSpec
CONSTANTS
  eth0 = eth0
  wlan0 = wlan0
  Watched = {eth0, wlan0}
  Rates = {500, 1000}
  UpdateRate = 500
  MaxSignals = 2
INVARIANTS
  RestoresOutsideRate
\* Once every device is destroyed nothing is left to happen.
CHECK_DEADLOCK FALSE
