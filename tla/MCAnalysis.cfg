SPECIFICATION Spec
CONSTANTS
  None = None
  Base = 4
  Tolerance = 3
  NamedLimit = 10
  Profiles <- MCProfiles
  Bssids <- MCBssids
  Senders <- MCSenders
  Counts <- MCCounts
  Hysteresis = 3
  Rotation = 2
  MaxAge = 1
  MaxSecond = 3
  Shapes <- MCShapes
  Targets = {None, 36}
  Groups = {99}
  MaxHosts = 1
  DefinitionAge = 3
  Ticks = 2
  MaxFrames = 4
  MaxTime = 6
  Interval = 3
  Start = 5
  End = 11
  MaxBeacons = 4
  Requests <- MCRequests
  Adapters <- MCAdapters
  Channels <- MCChannels
  Stations = {s1, s2}
  Retention = 1
  MaxSeconds = 2
INVARIANTS ChoicesJustified CadenceFree RadiosSound StreamIsWhole HostsHonest ReceptionSound TuningKept CoverageHonest
CHECK_DEADLOCK FALSE
