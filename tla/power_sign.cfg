\* Two batteries, on a system that follows the documented signs or does not.
SPECIFICATION PowerSpec
CONSTANTS
  bat1 = bat1
  bat2 = bat2
  serial1 = serial1
  serial2 = serial2
  Batteries = {bat1, bat2}
  Serials = {serial1, serial2}
  SerialOf <- OwnSerials
  MaxPower = 1
INVARIANTS
  ChargeRateSign
