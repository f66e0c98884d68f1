----------------------------- MODULE MCDevices ------------------------------
(***************************************************************************)
(* The device drivers for TLC: in each behaviour one of them is at work,   *)
(* the others stay as they begin.  The SocketCAN driver, with its          *)
(* fairness, is extended; the others are instances, with a prefix where    *)
(* two of them use a name.                                                 *)
(***************************************************************************)
EXTENDS SocketCan

CONSTANTS
  Drivers,       \* those that are looked at, by the names in DevicesNext
  Fields, IntSize, Ints, Patterns, Platforms, NSEC, Starts, Scalings, MaxRun, MaxSim, MaxSets, MessageLength,
  MaxBytes, MaxMessages, Descriptors, Addresses, DataSizes, MaxCalls, BufferSize, Lengths,
  MaxDatagrams, Clients, maxClients, Invalid, Cycles, UINT16, MaxInterrupts,
  \* Keyboard, Joystick, SpaceMouse, Lcm, MinimalPackager
  Keys, AskedKeys, AxisNumbers, ButtonNumbers, OutAxes, OutButtons, MaxEvents,
  MAX_DEVICES, MaxAttached, ButtonSets, LinuxButtons, MaxReports,
  Packages, maxQueueSize, MaxLcmMessages, Sizes, RealSize, IntegerSize, Integers, Strings, MaxItems,
  \* AvrPeripherals, Hd44780, Stm32
  Clocks, PwmTimers, AvrPorts, AvrPins, AnalogPorts, References, Divisions, Bauds, MaxSetUps,
  Chars, LineLength, Memory, MaxUpdates,
  Ports, Pins, Leds, Periods, UINT32, MaxTicks, MaxSteps, MaxBlocks

VARIABLES
  driver,
  \* CanMessage, SoftingCan
  msg, packed, dirty,
  chip, objectList, objectNumber, rcv, overrun, pkg, received, softingSim,
  \* RealtimeSynchronize, ProcessPriority, AvrRealTime
  rtPlatform, clock, began, rtSync, rtCall, owed,
  prioPlatform, nice, policy, locked, prio, prioPc, sets, refused,
  numInterruptTriggeredPerCycle, numInterruptTriggered, interruptTriggered, initialized,
  avrPc, total, steps, late,
  \* SerialPort
  serialPlatform, serialArrived, consumed, msgInternal, counter, msgLastComplete,
  serialBytes, serialRunReceive, messageMutex, serialRx, n, serialSim, serialAt,
  serialCopy, serialResult, serialLatest, purged,
  \* Mqtt
  receiver, client, callbacks, mutex, sslErrorMsg, mqttBuffer, mqttBytes, allocated,
  mqttArrived, handler, length, mqttSim, mqttAt, mqttCopy, mqttResult, mqttLatest,
  \* TcpClient, UdpWindows, TcpServerWindows
  tcpPlatform, tcpOpen, connected, winsock, tcpObject, sfd, tcpPc, left, dataSize, stream,
  calls,
  queue, udpArrived, useReceiveThread, udpOpen, receiveBuffer, nReceivedBytes,
  nRecvbufOverwrites, receiving, receiveLock, udpRx, udpSim, udpResult, taken, delivered,
  backlog, connection, nonblocking, listening, clientSockets, runAcceptingThread, tcpipLock,
  acc, slots, i, serverSim, index, clientSocket,
  \* Keyboard, Joystick, SpaceMouse
  kbPlatform, down, since, displays, w2lKey, kbRead,
  joyPlatform, stick, joyUnread, events, js, joySim, out,
  smPlatform, attached, mouse, reports, smUnread, missed, smRx, allDOFs, smGot, smAxes,
  smButtons, smSim, smCopy, settled,
  \* Lcm, MinimalPackager
  lcmReceiver, lcm, library, subscribed, lcmPkg, lcmQueue, lcmSent, accepted, lcmContents,
  lcmSim, argument, results,
  from, to, added, mspSent, mspGot,
  \* AvrPeripherals, Hd44780, Stm32
  cpu, reg, pwm, avrBlocks, outputs, reads, adc, halted,
  lcdPc, lcdBuffer, lcd, shown, updates,
  stmPc, rcc, pins, line, enabled, leds, stmBlocks, period, uwTick, tick, stmSteps, called,
  ended

\* All bits clear, all set, and every third one set
MCPatterns == {[b \in 0 .. 63 |-> 0], [b \in 0 .. 63 |-> 1],
               [b \in 0 .. 63 |-> IF b % 3 = 0 THEN 1 ELSE 0]}

\* Integers inside a byte and across one, a float at a byte and a shifted one, a double
MCFields ==
  {[kind |-> "integer", start |-> 0, width |-> 3], [kind |-> "integer", start |-> 3, width |-> 10],
   [kind |-> "float", start |-> 24, width |-> 32], [kind |-> "float", start |-> 18, width |-> 32],
   [kind |-> "double", start |-> 0, width |-> 64]}

\* The integers that are packed
MCInts == {-379, 0, 5, 511}

\* The empty string and one of one character
MCStrings == {<<>>, <<65>>}

Blocks == [ident : Ids, transType : {1}] \cup [ident : Ids, transType : {4}]

Message == INSTANCE CanMessage
Softing == INSTANCE SoftingCan WITH MaxReceived <- MaxFrames, sim <- softingSim
Realtime == INSTANCE RealtimeSynchronize WITH platform <- rtPlatform, call <- rtCall
Priority == INSTANCE ProcessPriority WITH platform <- prioPlatform, pc <- prioPc
Avr == INSTANCE AvrRealTime WITH pc <- avrPc
Serial == INSTANCE SerialPort WITH
  platform <- serialPlatform, arrived <- serialArrived, nReceivedBytes <- serialBytes,
  runReceive <- serialRunReceive, rx <- serialRx, sim <- serialSim, at <- serialAt,
  copy <- serialCopy, result <- serialResult, latest <- serialLatest
MqttClient == INSTANCE Mqtt WITH
  receiveBuffer <- mqttBuffer, nReceivedBytes <- mqttBytes, arrived <- mqttArrived,
  sim <- mqttSim, at <- mqttAt, copy <- mqttCopy, result <- mqttResult, latest <- mqttLatest
Tcp == INSTANCE TcpClient WITH
  platform <- tcpPlatform, open <- tcpOpen, object <- tcpObject, pc <- tcpPc
Udp == INSTANCE UdpWindows WITH
  arrived <- udpArrived, open <- udpOpen, rx <- udpRx, sim <- udpSim, result <- udpResult
Server == INSTANCE TcpServerWindows WITH copy <- slots, sim <- serverSim
Keyboards == INSTANCE Keyboard WITH platform <- kbPlatform, read <- kbRead
Joysticks == INSTANCE Joystick WITH
  Axes <- AxisNumbers, Buttons <- ButtonNumbers,
  platform <- joyPlatform, unread <- joyUnread, sim <- joySim
Mouse == INSTANCE SpaceMouse WITH
  platform <- smPlatform, unread <- smUnread, rx <- smRx, got <- smGot, Axes <- smAxes,
  Buttons <- smButtons, sim <- smSim, copy <- smCopy
Channel == INSTANCE Lcm WITH
  MaxMessages <- MaxLcmMessages, receiver <- lcmReceiver, pkg <- lcmPkg, queue <- lcmQueue,
  sent <- lcmSent, contents <- lcmContents, sim <- lcmSim
Packager == INSTANCE MinimalPackager WITH sent <- mspSent, got <- mspGot
Peripherals == INSTANCE AvrPeripherals WITH
  Ports <- AvrPorts, Pins <- AvrPins, blocks <- avrBlocks
Display == INSTANCE Hd44780 WITH pc <- lcdPc, buffer <- lcdBuffer
Stm == INSTANCE Stm32 WITH pc <- stmPc, blocks <- stmBlocks, steps <- stmSteps

ASSUME DevicesAssumption ==
  /\ Message!CanMessageAssumption /\ Softing!SoftingAssumption
  /\ Realtime!RealtimeAssumption /\ Priority!PriorityAssumption /\ Avr!AvrAssumption
  /\ Serial!SerialAssumption /\ MqttClient!MqttAssumption /\ Tcp!ClientAssumption
  /\ Udp!UdpWindowsAssumption /\ Server!TcpWindowsAssumption
  /\ Keyboards!KeyboardAssumption /\ Joysticks!JoystickAssumption
  /\ Mouse!SpaceMouseAssumption /\ Channel!LcmAssumption /\ Packager!PackagerAssumption
  /\ Peripherals!PeripheralsAssumption /\ Display!DisplayAssumption /\ Stm!StmAssumption

MessageVars == <<msg, packed, dirty>>
SoftingVars == <<chip, objectList, objectNumber, rcv, overrun, pkg, received, softingSim>>
RealtimeVars == <<rtPlatform, clock, began, rtSync, rtCall, owed>>
PriorityVars == <<prioPlatform, nice, policy, locked, prio, prioPc, sets, refused>>
AvrVars == <<numInterruptTriggeredPerCycle, numInterruptTriggered, interruptTriggered,
             initialized, avrPc, total, steps, late>>
SerialVars == <<serialPlatform, serialArrived, consumed, msgInternal, counter,
                msgLastComplete, serialBytes, serialRunReceive, messageMutex, serialRx, n,
                serialSim, serialAt, serialCopy, serialResult, serialLatest, purged>>
MqttVars == <<receiver, client, callbacks, mutex, sslErrorMsg, mqttBuffer, mqttBytes,
              allocated, mqttArrived, handler, length, mqttSim, mqttAt, mqttCopy, mqttResult,
              mqttLatest>>
TcpVars == <<tcpPlatform, tcpOpen, connected, winsock, tcpObject, sfd, tcpPc, left, dataSize,
             stream, calls>>
UdpVars == <<queue, udpArrived, useReceiveThread, udpOpen, receiveBuffer, nReceivedBytes,
             nRecvbufOverwrites, receiving, receiveLock, udpRx, udpSim, udpResult, taken,
             delivered>>
ServerVars == <<backlog, connection, nonblocking, listening, clientSockets,
                runAcceptingThread, tcpipLock, acc, slots, i, serverSim, index, clientSocket>>
KeyboardVars == <<kbPlatform, down, since, displays, w2lKey, kbRead>>
JoystickVars == <<joyPlatform, stick, joyUnread, events, js, joySim, out>>
MouseVars == <<smPlatform, attached, mouse, reports, smUnread, missed, smRx, allDOFs, smGot,
               smAxes, smButtons, smSim, smCopy, settled>>
LcmVars == <<lcmReceiver, lcm, library, subscribed, lcmPkg, lcmQueue, lcmSent, accepted,
             lcmContents, lcmSim, argument, results>>
PackagerVars == <<from, to, added, mspSent, mspGot>>
PeripheralVars == <<cpu, reg, pwm, avrBlocks, outputs, reads, adc, halted>>
DisplayVars == <<lcdPc, lcdBuffer, lcd, shown, updates>>
StmVars == <<stmPc, rcc, pins, line, enabled, leds, stmBlocks, period, uwTick, tick, stmSteps,
             called, ended>>
DeviceVars == <<driver, vars, MessageVars, SoftingVars, RealtimeVars, PriorityVars, AvrVars,
                SerialVars, MqttVars, TcpVars, UdpVars, ServerVars, KeyboardVars, JoystickVars,
                MouseVars, LcmVars, PackagerVars, PeripheralVars, DisplayVars, StmVars>>

\* Of a driver that is not at work one initial state is enough.
DevicesInit ==
  /\ driver \in Drivers
  /\ Init /\ Message!Init /\ Softing!Init
  /\ Realtime!Init
  /\ driver # "Realtime" =>
       rtPlatform = "linux" /\ rtSync.kind = "RTSync" /\ rtSync.shouldCatchupTime /\ began = 2
  /\ Priority!Init
  /\ driver # "Priority" => prioPlatform = "linux" /\ nice = 0 /\ policy = "SCHED_OTHER"
  /\ Avr!Init
  /\ driver # "AVR" => numInterruptTriggeredPerCycle = 1 /\ avrPc = "exit"
  /\ Serial!Init /\ (driver # "Serial" => serialPlatform = "linux")
  /\ MqttClient!Init /\ (driver # "MQTT" => receiver)
  /\ Tcp!Init /\ (driver # "TCPClient" => tcpPlatform = "linux")
  /\ Udp!Init /\ (driver # "UDPWindows" => useReceiveThread)
  /\ Server!Init /\ (driver # "TCPServerWindows" => nonblocking)
  /\ Keyboards!Init /\ (driver # "Keyboard" => kbPlatform = "linux")
  /\ Joysticks!Init
  /\ driver # "Joystick" => joyPlatform = "linux" /\ DOMAIN stick.buttons = {}
  /\ Mouse!Init /\ (driver # "SpaceMouse" => smPlatform = "linux" /\ attached = <<>>)
  /\ Channel!Init /\ (driver # "LCM" => lcmReceiver)
  /\ Packager!Init /\ (driver # "MinimalPackager" => from = to /\ from.bufferSize = 2)
  /\ Peripherals!Init /\ (driver # "AVRPeripherals" => cpu = "ATmega328P")
  /\ Display!Init
  /\ Stm!Init /\ (driver # "STM32" => period = 0)

\* The drivers that are not at work
OthersRest ==
  /\ IF driver = "SocketCAN" THEN TRUE ELSE UNCHANGED vars
  /\ IF driver = "CANMessage" THEN TRUE ELSE UNCHANGED MessageVars
  /\ IF driver = "SoftingCAN" THEN TRUE ELSE UNCHANGED SoftingVars
  /\ IF driver = "Realtime" THEN TRUE ELSE UNCHANGED RealtimeVars
  /\ IF driver = "Priority" THEN TRUE ELSE UNCHANGED PriorityVars
  /\ IF driver = "AVR" THEN TRUE ELSE UNCHANGED AvrVars
  /\ IF driver = "Serial" THEN TRUE ELSE UNCHANGED SerialVars
  /\ IF driver = "MQTT" THEN TRUE ELSE UNCHANGED MqttVars
  /\ IF driver = "TCPClient" THEN TRUE ELSE UNCHANGED TcpVars
  /\ IF driver = "UDPWindows" THEN TRUE ELSE UNCHANGED UdpVars
  /\ IF driver = "TCPServerWindows" THEN TRUE ELSE UNCHANGED ServerVars
  /\ IF driver = "Keyboard" THEN TRUE ELSE UNCHANGED KeyboardVars
  /\ IF driver = "Joystick" THEN TRUE ELSE UNCHANGED JoystickVars
  /\ IF driver = "SpaceMouse" THEN TRUE ELSE UNCHANGED MouseVars
  /\ IF driver = "LCM" THEN TRUE ELSE UNCHANGED LcmVars
  /\ IF driver = "MinimalPackager" THEN TRUE ELSE UNCHANGED PackagerVars
  /\ IF driver = "AVRPeripherals" THEN TRUE ELSE UNCHANGED PeripheralVars
  /\ IF driver = "LCD" THEN TRUE ELSE UNCHANGED DisplayVars
  /\ IF driver = "STM32" THEN TRUE ELSE UNCHANGED StmVars

DevicesNext ==
  /\ \/ driver = "SocketCAN" /\ Next
     \/ driver = "CANMessage" /\ Message!Next
     \/ driver = "SoftingCAN" /\ Softing!Next
     \/ driver = "Realtime" /\ Realtime!Next
     \/ driver = "Priority" /\ Priority!Next
     \/ driver = "AVR" /\ Avr!Next
     \/ driver = "Serial" /\ Serial!Next
     \/ driver = "MQTT" /\ MqttClient!Next
     \/ driver = "TCPClient" /\ Tcp!Next
     \/ driver = "UDPWindows" /\ Udp!Next
     \/ driver = "TCPServerWindows" /\ Server!Next
     \/ driver = "Keyboard" /\ Keyboards!Next
     \/ driver = "Joystick" /\ Joysticks!Next
     \/ driver = "SpaceMouse" /\ Mouse!Next
     \/ driver = "LCM" /\ Channel!Next
     \/ driver = "MinimalPackager" /\ Packager!Next
     \/ driver = "AVRPeripherals" /\ Peripherals!Next
     \/ driver = "LCD" /\ Display!Next
     \/ driver = "STM32" /\ Stm!Next
  /\ OthersRest
  /\ UNCHANGED driver

\* Only the threads of SocketCAN are assumed to be scheduled.
DevicesSpec == DevicesInit /\ [][DevicesNext]_DeviceVars /\ WF_vars(Rx) /\ WF_vars(Within)

\* Every variable of the driver at work has its type.
DevicesTypeOK ==
  /\ driver = "SocketCAN" => TypeOK
  /\ driver = "CANMessage" => Message!TypeOK
  /\ driver = "SoftingCAN" => Softing!TypeOK
  /\ driver = "Realtime" => Realtime!TypeOK
  /\ driver = "Priority" => Priority!TypeOK
  /\ driver = "AVR" => Avr!TypeOK
  /\ driver = "Serial" => Serial!TypeOK
  /\ driver = "MQTT" => MqttClient!TypeOK
  /\ driver = "TCPClient" => Tcp!TypeOK
  /\ driver = "UDPWindows" => Udp!TypeOK
  /\ driver = "TCPServerWindows" => Server!TypeOK
  /\ driver = "Keyboard" => Keyboards!TypeOK
  /\ driver = "Joystick" => Joysticks!TypeOK
  /\ driver = "SpaceMouse" => Mouse!TypeOK
  /\ driver = "LCM" => Channel!TypeOK
  /\ driver = "MinimalPackager" => Packager!TypeOK
  /\ driver = "AVRPeripherals" => Peripherals!TypeOK
  /\ driver = "LCD" => Display!TypeOK
  /\ driver = "STM32" => Stm!TypeOK

\* Fields of CAN messages read back what was packed, and minimal packages what was added
\* (CanMessage, MinimalPackager).
MessageRoundTrip == Message!MessageRoundTrip /\ Packager!RoundTrip

\* A shifted float replaces what was in its place (CanMessage).
FloatOverwritten == Message!FloatOverwritten

\* What a serial port, an MQTT client, a Softing message block and an LCM channel read is one
\* message, all of it, the right one and in its order (SerialPort, Mqtt, SoftingCan, Lcm).
ReadsItsMessage ==
  /\ Serial!ReadsWholeMessage /\ MqttClient!ReadsWholeMessage
  /\ Softing!ReadsOwnMessage /\ Channel!ReadsInOrder

\* Input devices are shown as they are (Keyboard, Joystick, SpaceMouse).
InputsAreCurrent ==
  Keyboards!KeysAreShown /\ Joysticks!EventsAddUp /\ Mouse!ReadIsCurrent

\* The peripherals of microcontrollers stay as their blocks asked for them, whatever others set
\* up in the same registers - but the inversion of PWM pin 2 (AVR) and edges other than
\* falling ones (STM32F4), which the code never sets -, the converter takes the input that is
\* read, up to the bits ADLAR is mistaken for, and from the first update on the display shows
\* the latest text, its first line only after that (AvrPeripherals, Hd44780, Stm32).
PeripheralsAsSet == Peripherals!SetUpStands /\ Display!TextIsShown /\ Stm!PinsStand

\* The simulation is never ahead of real time (RealtimeSynchronize).
NeverAhead == Realtime!NeverAhead

\* With catch-up, a simulation on Linux makes up for overruns (RealtimeSynchronize).
CatchesUpOnLinux == Realtime!CatchesUpOnLinux

\* With catch-up, a simulation makes up for overruns (RealtimeSynchronize).
CatchesUp == Realtime!CatchesUp

\* The process leaves with the priority it came with, unless a change was refused, or it came
\* with the one class of Windows that the object has no name for (ProcessPriority).
PriorityRestored == Priority!PriorityRestored

\* A microcontroller's steps end at their interrupt or tick (AvrRealTime, Stm32).
StepsOnTime == Avr!StepsOnTime /\ Stm!StepsOnTime

\* A client sends on the connection it made (TcpClient).
SocketIsConnected == Tcp!SocketIsConnected

\* A send that returns has sent everything (TcpClient).
SendsEverything == Tcp!SendsEverything

\* On Windows, every datagram is read or counted (UdpWindows).
DatagramsAccounted == Udp!DatagramsAccounted

\* On Windows, every accepted client has one slot (TcpServerWindows).
NoLostConnection == Server!NoLostConnection

\* Threads, handlers and the destructors that end them: who waits for a lock waits for one
\* that exists and that its holder gives back, with threads that end by an error or are
\* terminated; on Linux the thread of a serial port is over before its mutex is freed; and
\* the buffer of an MQTT client is there when it is copied, or written to, but for a message
\* between two steps of its destructor (UdpWindows, SerialPort, Mqtt).
ThreadsEndInOrder ==
  /\ Udp!LockComesFree /\ Serial!LockComesFree /\ MqttClient!LockComesFree
  /\ Serial!ThreadEndsFirst /\ MqttClient!BufferExists
=============================================================================
