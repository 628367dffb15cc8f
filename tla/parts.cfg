\* Every part with the smallest instance in which its interesting cases happen:
\* see the comments of MCParts and the README.  Parts that do something once, such
\* as reading the topology, stop.
SPECIFICATION PartsSpec
CONSTANTS
  eth0 = eth0
  wlan0 = wlan0
  download = download
  upload = upload
  link1 = link1
  link2 = link2
  rate = rate
  addr = addr
  em0 = em0
  em1 = em1
  crypt = crypt
  clear = clear
  stick = stick
  clone = clone
  block1 = block1
  block2 = block2
  uuid1 = uuid1
  uuid2 = uuid2
  home = home
  media = media
  bat1 = bat1
  bat2 = bat2
  serial1 = serial1
  cpu0 = cpu0
  cpu1 = cpu1
  vol1 = vol1
  vol2 = vol2
  sensor1 = sensor1
  sensor2 = sensor2
  object = object
  typo = typo
  Devices = {eth0}
  Stats = {download, upload}
  MaxBytes = 3
  MaxCount = 2
  Links = {link1, link2}
  Pluggable = {link1}
  RtSensors = {rate, addr}
  RtStats = {rate}
  RtMoving = {link1}
  RtAsked <- RtAskedSensors
  NoLink = NoLink
  Interfaces = {em0, em1}
  SysStats = {download, upload}
  Watched = {eth0, wlan0}
  Rates = {500, 1000}
  UpdateRate = 500
  MaxSignals = 2
  Volumes = {crypt, clear, stick, clone}
  Blocks = {block1, block2}
  BlockOf <- DisksBlockOf
  Ids = {uuid1, uuid2}
  IdOf <- DisksIdOf
  Usage <- DisksUsage
  Ignored = {crypt}
  NotHard = {}
  Holds <- DisksHolds
  Diskstats = TRUE
  Points = {home, media}
  NoPoint = NoPoint
  NoEntry = NoEntry
  SpaceObjects = {vol1, vol2}
  MaxJobs = 2
  Batteries = {bat1, bat2}
  Serials = {serial1}
  SerialOf <- PowerSerialOf
  MaxPower = 1
  MaxMemory = 2
  MaxSwap = 1
  Contents <- PressureContents
  Cpus = {cpu0, cpu1}
  Wavering = {cpu0}
  MaxTicks = 2
  Threads = {0, 1, 2}
  Packages = {0, 1}
  Cores = {0, 1}
  Gts = {0, 1}
  Instances = {0, 1}
  EngineSets <- XeEngineSets
  MaxXeTicks = 2
  Sensors = {sensor1, sensor2}
  Objects = {object}
  Typos = {typo}
CHECK_DEADLOCK FALSE
INVARIANTS
  TypeOK
  RegisteredIffConnected
  SubscribedIsSampled
  NoRateAcrossGap
  RtReadings
  SysSampling
  RateShared
  VolumesAgree
  RatesCoverTheirTime
  BatteriesRight
  ValuesAgree
  FoundAtStart
  LeavesComplete
PROPERTIES
  DisconnectedLeaves
  AnswersArrive
  UsagesAreShares
  SensorsEnd
