\* Two CAN identifiers, frames of one and two bytes; clocks of three units to a
\* second; messages of two bytes; three descriptors, clients and datagrams.
CONSTANTS
  Drivers = {"SocketCAN", "CANMessage", "SoftingCAN", "Realtime", "Priority", "AVR",
             "Serial", "MQTT", "TCPClient", "UDPWindows", "TCPServerWindows", "Keyboard",
             "Joystick", "SpaceMouse", "LCM", "MinimalPackager", "AVRPeripherals", "LCD",
             "STM32"}
  Ids = {i1, i2}
  Dlcs = {1, 2}
  MaxFrames = 2
  QueueSize = 2
  Fields <- MCFields
  IntSize = 10
  Ints <- MCInts
  Patterns <- MCPatterns
  Platforms = {"linux", "windows"}
  NSEC = 3
  Starts = {2, 4}
  Scalings = {0, 1, 2}
  MaxRun = 7
  MaxSim = 3
  MaxSets = 3
  Cycles = {1, 2, 3}
  UINT16 = 6
  MaxInterrupts = 12
  MessageLength = 2
  MaxBytes = 5
  BufferSize = 2
  MaxMessages = 3
  Descriptors = {1, 2, 3}
  Addresses = 2
  DataSizes = {0, 3}
  MaxCalls = 2
  Lengths = {0, 1, 2, 3}
  MaxDatagrams = 3
  Clients = {c1, c2, c3}
  maxClients = 2
  Invalid = Invalid
  Keys = {13, 38, 116, 117}
  AskedKeys = {13, 38, 116}
  AxisNumbers = {1}
  ButtonNumbers = {0, 2}
  OutAxes = 3
  OutButtons = 1
  MaxEvents = 3
  MAX_DEVICES = 2
  MaxAttached = 2
  ButtonSets = {{}, {0, 8, 20}, {7}}
  LinuxButtons = {1, 17}
  MaxReports = 3
  Packages = {p1, p2}
  maxQueueSize = 2
  MaxLcmMessages = 4
  Sizes = {2, 4}
  RealSize = 2
  IntegerSize = 1
  Integers = {1}
  Strings <- MCStrings
  MaxItems = 2
  Clocks = {2, 5}
  PwmTimers = {1, 2}
  AvrPorts = {2}
  AvrPins = {1, 3}
  AnalogPorts = {3, 6}
  References = {2}
  Divisions = {3}
  Bauds = {5}
  MaxSetUps = 3
  Chars = {"a", "b"}
  LineLength = 2
  Memory = 5
  MaxUpdates = 4
  Ports = {1, 3}
  Pins = {6}
  Leds = {2}
  Periods = {0, 3}
  UINT32 = 5
  MaxTicks = 6
  MaxSteps = 3
  MaxBlocks = 2
SPECIFICATION DevicesSpec
INVARIANTS
  DevicesTypeOK ReadIsLatest MessageRoundTrip ReadsItsMessage InputsAreCurrent
  PeripheralsAsSet NeverAhead CatchesUpOnLinux PriorityRestored StepsOnTime
  SocketIsConnected SendsEverything DatagramsAccounted NoLostConnection
  ThreadsEndInOrder
PROPERTIES CallsReturn FramesDrained
