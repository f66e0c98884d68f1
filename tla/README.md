# Modelica_DeviceDrivers in TLA+

Modelica_DeviceDrivers gives Modelica simulations access to devices and networks. This
directory holds TLA+ models of its core, the configurations that check them with TLC, and
theorems about them proved with TLAPS.

Paths are relative to `Modelica_DeviceDrivers/`; a bare `MDD*.h` is a file of
`Resources/Include/`.

## The system

A driver is a Modelica external object: C functions `MDD_<driver>Constructor`, operations,
and `MDD_<driver>Destructor`, called by the **simulation thread**, one at a time. Several
drivers start **a thread of their own** (UDP, TCP/IP server, serial port, SocketCAN; the
MQTT library has one that calls back), which shares the object with the simulation under a
mutex, at least most of the time. `ModelicaError` and `ModelicaFormatError` do not return:
the tool abandons the simulation, with whatever was locked or half done. On top of the
drivers, Modelica **blocks** pack values into a byte buffer, send it, receive one and unpack
it, on triggers.

### Inventory

| Component (source) | State | Operations | Hard behaviour | What makes it correct | Modules |
|---|---|---|---|---|---|
| SerialPackager (`MDDSerialPackager.h`) | byte buffer, size, byte and bit position, byte order | new, clear, set position, set data, add and get of arrays and strings, pack and unpack of integers | bits inside a byte, byte orders, overflow at the last byte | nothing beyond the buffer; a get returns what the add put there | `SerialPackager` |
| Packaging blocks (`Blocks/Packaging/SerialPackager.mo`) | size of the package, propagated backwards; the package | initial equations, then one call per block on each trigger | forward alignment against backward sizes; package lost or read twice | automatic size exact; round trip | `PackageExchange` |
| Minimal packager (`MDDMinimalSerialPackager.h`) | buffer, position | add and get of reals, integers, strings; clear, reset, set package | most ends are unchecked | round trip | `MinimalPackager` |
| UDP socket (`MDDUDPSocket.h`) | message buffer, counts of bytes and of overwritten messages, run flag, mutex, address | constructor, read (3 variants), received bytes, send, destructor; receiving thread | thread against reads and destructor; error while locked; full queue | a read is the latest message, once, undamaged; losses counted; safe end | `UdpSocket`, `LatestMessage`, `UdpWindows` |
| UDP blocks (`Blocks/Communication.mo`) | the packager | `UDPSend`, `UDPReceive` | no new message at a trigger | as above | `PackageExchange` |
| TCP/IP server (`MDDTCPIPSocketServer.h`) | array of client slots, run flag, lock, listening socket | constructor, read, send, destructor; accepting thread | accepting from a stale copy; slots read without the lock; clients that leave; the destructor closing what the thread accepts | each client in one slot till it leaves; a free slot serves; the destructor returns | `TcpServer`, `ConnectionPool`, `TcpServerWindows` |
| TCP/IP client (`MDDTCPIPSocket.h`) | one socket | connect over a list of addresses, read, send | a failed connect closes a socket whose number is taken by others; partial writes | the socket in use is its own and connected; a send sends all | `TcpClient` |
| SocketCAN (`MDDSocketCAN.h`, `src/include/MDDMapIntpVoid.h`) | map from frame ids to data, mutex | define, write, read; receiving thread | frames defined, replaced and read while others arrive; error raised with the mutex held | a read returns a whole frame, the latest | `SocketCan` |
| CAN messages (`MDDCANMessage.h`) | 8 bytes | pack and unpack of integers, floats, doubles | fields that share bytes, packed again and again | round trip | `CanMessage` |
| Softing CAN (`MDDSoftingCAN.h`) | list of objects | define, start, read, write | blocks define in any order before one starts the chip | a block reads its own frames | `SoftingCan` |
| Shared memory (`MDDSharedMemory.h`) | named memory and semaphore, shared by processes | open, read, write, unlink | processes that end or crash anywhere; unlinking between two opens | reads and writes are atomic; no lock is lost but by a crash; no names left behind | `SharedMemory` |
| Serial port (`MDDSerialPort.h`) | message buffer, byte count, mutex | read, send, destructor; receiving thread | a byte stream cut into pieces; thread against reads | a read is one message | `SerialPort` |
| MQTT (`MDDMQTT.h`) | latest message, connection, mutex | constructor, send, read, disconnect, destructor; handlers | handlers before the mutex exists and after the buffer is freed | locks come free; the buffer is there but between two steps of the destructor; a read is one message | `Mqtt` |
| LCM (`MDDLCM.h`) | a subscription, a pointer for the handler | read, send | the handler writes where the latest read pointed | each message is read once, in order, into the right place | `Lcm` |
| Real-time synchronisation (`MDDRealtimeSynchronize.h`) | start, last and ideal time; priority to restore | synchronise (3 variants), set and restore priority | borrow and carry of nanoseconds; overruns; refused changes | never ahead of real time; overruns made up for; priority restored | `RealtimeSynchronize`, `ProcessPriority` |
| Input devices (`MDDKeyboard.h`, `MDDJoystick.h`, `src/SpaceMouse/MDDSpaceMouse.c`) | key table, axes and buttons; a thread for the space mouse | read | queued events, several devices, half reports | what is read is what the device is at | `Keyboard`, `Joystick`, `SpaceMouse` |
| AVR target (`MDDAVR*.h`) | registers; flag and counter set by an interrupt; display text | set up, wait, write | interrupt between test and reset; blocks that share registers | no interrupt lost; a setting stands | `AvrRealTime`, `AvrPeripherals`, `Hd44780` |
| STM32F4 target (`MDDSTM32F4*.h`) | clock, pins, interrupts, LEDs, tick | set up, wait, write | tick counter against the interrupt; pins that share a line | steps end at their tick; a setting stands | `Stm32` |
| Comedi; utilities (`MDDComedi.h`, `MDDBeep.h`, `MDDUtilities*.h`, `MDDOperatingSystem.h`) | none | one call of the system each | | | none: I/O without state |
| Clocked and incubating blocks (`ClockedBlocks/`, `Incubate/`) | as the blocks above | as above, on clocks | | | none: the same drivers and chains |

Interactions: a block calls one or more drivers on a trigger and passes the package (an
external object) to the next block of its chain; `UDPSend` and the packet modes of the other
drivers read the packager's buffer, `UDPReceive` and its like overwrite it. Two simulations
interact through the network only, except with shared memory.

## Modules

    LatestMessage <---implements--- UdpSocket <---- UdpSocketProofs, MCUdpSocket
    ConnectionPool <--implements--- TcpServer <---- TcpServerProofs, MCTcpServer
    SerialPackager <---extends----- PackageExchange <---- PackageExchangeProofs,
                                                          MCPackageExchange
    SharedMemory <---- SharedMemoryProofs
    SocketCan <------- SocketCanProofs
        ^------------- MCDevices -----instances----> CanMessage, SoftingCan, SerialPort,
                       Mqtt, Lcm, TcpClient, UdpWindows, TcpServerWindows, Keyboard, Joystick,
                       SpaceMouse, MinimalPackager, RealtimeSynchronize, ProcessPriority,
                       AvrRealTime, AvrPeripherals, Hd44780, Stm32
                  ^
                  |--- CommunicationProofs <---.
                  |--- TargetProofs <----------|--- DevicesProofs

Where a header has a Linux and a Windows half of the same shape, one module has both and a
variable `platform`; where they differ (UDP socket, TCP/IP server) the Windows half is a
module of its own.

### UdpSocket

One object of `MDDUDPSocket.h`. Variables carry the field names of `struct MDDUDPSocket_s`.
The receiving thread and the simulation thread each have a control point (`rx`, `sim`), and
one action per stretch of code between two points at which the other thread can intervene:
the thread tests `runReceive`, polls, locks, counts an overwritten message, receives,
unlocks (`RxTest` ... `RxRecv`); a read locks, copies, and reports and resets the counters
while unlocking (`Lock`, `Copy`, `Take`); without a thread it receives first
(`BlockingReceive`). A send fills in the address (`Send`), then calls `sendto` (`SendTo`).
The destructor clears the flag, joins, and frees (`Destroy`, `Join`, `Free`).

Data: a datagram is its number, length and sender, and a byte is the number of the datagram
that wrote it. That tells apart all that the properties speak of: old and new bytes, empty
datagrams, ones longer than the buffer (cut off by `recvfrom`), and packagers that are too
small for the buffer (the read is an error). Every call of the system may fail at every
point, and ends the simulation (`sim = "error"`).

`LatestMessage` is the promise: a mailbox for one message, in which an arriving message
replaces one not yet taken, and each message is taken at most once.

### SerialPackager and PackageExchange

`SerialPackager` has the operations of `MDDSerialPackager.h` as operators from a package
record to a package record; the buffer is a function on its bits, so that aligned bytes and
packed bits live in one space. `Place` is the byte swapping between hosts.

`PackageExchange` runs a chain of packaging blocks on a sending host, its mirror image on a
receiving one (or both in one simulation with a `ResetPointer` block between them).
Initialisation propagates the sizes backwards block by block (`Propagate`) and builds the
packager (`Build`); a trigger then runs the blocks one by one, on both hosts independently.
A datagram may be lost, and a receiver may be triggered without a new one. A bit written is
marked with its cycle, its block and its place in the value, so the round trip is checked
for all values at once. An error stops the simulation it occurs in: `overflow`, `refused`
(an assertion of a block), or `undefined` where the C code leaves its scratch array.

### TcpServer

One object of `MDDTCPIPSocketServer.h`. `acc` is the control point of the accepting thread:
test the run flag and step the index `i`, copy the slots under the lock, look at slot `i` of
the copy and poll, accept, store the client under the lock. `sim` is that of the simulation:
a call takes the socket from its slot without the lock (`Begin`), transfers, would block, or
finds the client gone; then it locks and closes (`Drop`) and frees the slot (`Reset`). The
destructor closes slot by slot without the lock, closes the listening socket and joins. A
connection is a number in the order of connecting. What is transferred is left out, so that
the receive buffers of the object are left out too; that a call has to wait for its client
is not: `Transfer` has no fairness.

The element behind the copy of the slots, which the thread reads when all slots are in use,
is `Behind`: undefined, but not -1 with the allocator of glibc, which the library is built
with on Linux.

`ConnectionPool` is the promise: clients are accepted in the order of connecting, each into
a free slot, and stay there until dropped.

### SocketCan

One object of `MDDSocketCAN.h`. The thread tests its flag, polls, receives a frame and
stores it under the mutex (`RxTest` ... `RxStore`); a define, a read or a write of the
simulation locks, works and unlocks in steps of their own. The map from identifiers to data
is a function; a byte is the number of the frame that wrote it. A second define of an
identifier replaces its slot: what was received is lost, and the old buffer is leaked. A
lookup that fails raises its error with the mutex held. A frame, or a read, longer than the
slot runs behind it: the behaviour ends there (`"behind"`).

### SharedMemory

Several processes and the kernel: names for a memory and a semaphore, memories with their
size and bytes, semaphores with their value. Each process opens the semaphore, takes it,
opens and maps the memory, sets its size, posts; reads and writes byte by byte under the
semaphore; unlinks in two steps. A process crashes at any of these points, and so does one
whose call fails, since `ModelicaError` leaves with the semaphore taken; it may start again.
`mixed` remembers memories that came under two semaphores. On Windows a name lives as long
as a handle, and a second constructor in one process keeps its own handles (`keptShm`,
`keptSem`). `Memories` and `Semaphores` bound how many there are. A constructor with a
smaller size cuts the memory under the others, who crash when they touch it.

### SerialPort, Mqtt, SoftingCan, Lcm: messages

`SerialPort`: the thread collects `bufferSize` bytes and stores them under the mutex; a read
copies byte by byte. On Windows a read of the port is synchronous, and an error purges what
has arrived, in the middle of a message. `Mqtt`: handlers of the library against
constructor, reads, disconnect and destructor; it is assumed that the library runs no
handler after `MQTTClient_disconnect` or `MQTTClient_destroy` returned. A handler that runs
after the destructor freed the buffer (301) and before it disconnected (304) is
`HandlerUndefined`. `SoftingCan`: objects
defined in initial equations in any order. `Lcm`: one message per read, written by a handler
through the pointer `pkg`; a read that fails ends the simulation, and its message may be gone.

### TcpClient, UdpWindows, TcpServerWindows: sockets

`TcpClient` has the descriptors of the process, which others open and close as well, since
the kernel reuses the lowest number: after a failed `connect` the object keeps a number that
is closed. The socket the Linux constructor opens is leaked by `Connect`. A send goes on
until all bytes are written, and stops on an error. `UdpWindows`: a thread that ends at the
first error, and a datagram longer than the buffer is one (the -1 is then taken for a length
by `MDD_udpRead`, where the behaviour ends). `TcpServerWindows`: the thread waits in
`accept`, for any time, with its copy of the slots. Windows destructors wait a second and
then terminate the thread wherever it is, with the lock if it has it; then they delete the lock
(`UdpWindows!Join`, `Free`).

### RealtimeSynchronize, ProcessPriority

One synchronisation object from constructor to destructor and the three functions that use
it, with the arithmetic of `timespec` (borrow and carry) on seconds of `NSEC` units on Linux
and plain ticks on Windows. The truncation of ticks to microseconds and the output
`computingTime`, which an integer division cuts to seconds (992), are left out.
`ProcessPriority`: one object; each change may be refused. On Windows the process may come with
any of the six classes; the object has a name for five, and `Original` is what its destructor
makes of the sixth, above normal: the normal one (83-88), if another was set in between.

### Keyboard, Joystick, SpaceMouse

From what the device is at, over the events or reports of the system, to what a read
returns. Deviations of the code are in the model and named by the properties that leave them
out: on Linux `GetKey` shows F5 to F12 as the next key or none, and writes nothing without a
display; the first axis a joystick lacks is read behind its array (`nAxis >= i`, 210); the
space mouse drops queued motion events on Linux (463), and on Windows a button byte with bit
7 set is negative (169).

### AvrRealTime, AvrPeripherals, Hd44780, Stm32, MinimalPackager, CanMessage

`AvrRealTime`: the interrupt against the main loop, with counters of 16 bits (`UINT16`).
`AvrPeripherals`: registers as sets of bits, blocks that set them up in any order; the bits a
block asks for (`PwmAsked`, from the comments of the header) are apart from those the code sets
(`PwmMode`). `Hd44780`: nibbles on the port, the display's memory. `Stm32`: pins, interrupt
lines with the three modes a block may ask for, the tick of 32 bits (`UINT32`); the HAL is
external. `MinimalPackager`: two packagers; strings
are not checked against the end (`"behind"`). `CanMessage`: 64 bits, with the shifts of the
code; integers of an `int` of `IntSize` bits in two's complement, whose unpacking adds up
bits in an `int` that wraps round, so that a field as wide as an `int` is signed and every
narrower one is not; a shifted float that is packed again is the finding of `can_float`. The
fields, integers, floats, strings and sizes of both are constants.

`MCDevices` extends `SocketCan` and instantiates the others. One driver (`driver`) is at
work in a behaviour and the rest do nothing; it is a union of state machines that share
nothing, not a product.

## Runs

| Run | Expected | Shows |
|---|---|---|
| `udp_socket` | pass | Reads return the latest datagram whole (`ReadIsLatest`), every datagram is read, counted as lost or waiting (`OverwritesAccounted`), nothing is used after it is freed (`NoUseAfterFree`), the destructor and reads return (`DestructorReturns`, `ReadReturns`), the kernel's queue is drained without the help of reads (`QueueDrained`), and the socket implements `LatestMessage` (`ImplementsMailbox`). |
| `udp_send_race` | violation of `SendGoesToTarget` | `MDD_udpSend` leaves its destination in `udp->sa`, which the receiving thread's `recvfrom` overwrites before `sendto` reads it. |
| `package_exchange` | pass | Automatic sizes are exact (`AutoSizeExact`), operations stay in the buffer (`CursorInBounds`), and a reader gets what the writer of its block wrote, all from one package (`RoundTrip`). |
| `bitunpack_scratch` | violation of `ScratchSuffices` | An integer of 32 bits behind 3 bits spans five bytes; unpacking expands them into an array for four. |
| `tcp_server` | pass | No accepted client is lost or overwritten (`NoLostConnection`), a call works on the client of its slot all along (`CallUsesItsClient`), at most one socket outlives the destructor (`AtMostOneLeft`), a client is not left waiting beside a free slot (`FreeSlotServes`), the destructor returns (`DestructorReturns`), and the server implements `ConnectionPool` (`ImplementsPool`). |
| `shared_memory` | pass | Two processes that open, use, unlink, crash and start again: reads and writes are atomic (`Undisturbed`), orderly ends leave no names (`CleanedUp`), a semaphore some process waits for is passed on unless its holder crashed (`LockIsPassedOn`). |
| `devices` | pass | Nineteen drivers, one at a time; see below. |
| `tcp_server_slot` | violation of `SlotInBounds` | With all slots in use the accepting thread reads one element behind its array. |
| `tcp_nonblocking` | violation of `NonblockingReturns` | In non-blocking mode a read of a silent client waits: the flag is set for the listening socket, and on Linux `accept` does not pass it on. |
| `can_float` | violation of `FloatOverwritten` | The bits of a byte that a shifted float begins in are meant to be overwritten and are or-ed: packed a second time, the float is a mixture. |
| `shared_memory_unlink` | violation of `ExclusiveAccess` | The two names are unlinked one after the other while another process is between opening the one and the other: later two processes are in one memory under two semaphores. |
| `realtime_catchup` | violation of `CatchesUp` | On Windows the wait loop computes the time left again without the delay it was to make up for. |

The seven expected violations are the disagreements met while modelling; PROJECT.json
quotes, for each, the comment the code contradicts. Most sit in branches the shipped blocks
and examples rarely reach: one socket that listens and sends, a wide integer in the middle
of a byte, full slots, a connected but silent client, a process that starts while another
ends.

The properties of `devices`:

| Property | Of the modules | Says |
|---|---|---|
| `ReadIsLatest`, `CallsReturn`, `FramesDrained` | `SocketCan` | a read is the latest frame of its identifier, untorn; calls return; the socket is drained without the help of reads |
| `MessageRoundTrip` | `CanMessage`, `MinimalPackager` | what was packed is unpacked, whatever its neighbours |
| `ReadsItsMessage` | `SerialPort`, `Mqtt`, `SoftingCan`, `Lcm` | a read is one whole message, the right one |
| `ThreadsEndInOrder` | `UdpWindows`, `SerialPort`, `Mqtt` | who waits for a lock finds it free or with one that is about to give it back, with threads that end by errors or are terminated and handlers registered early; on Linux the serial port's thread is over before its mutex goes; MQTT's buffer exists when it is copied, and a message finds none only between two steps of the destructor |
| `DatagramsAccounted` | `UdpWindows` | every datagram is read once, counted or waiting |
| `NoLostConnection` | `TcpServerWindows` | every accepted client has one slot |
| `SocketIsConnected`, `SendsEverything` | `TcpClient` | the socket in use is connected and the client's own; a send sends all, once |
| `NeverAhead`, `CatchesUpOnLinux` | `RealtimeSynchronize` | time of the simulation against the clock over any sequence of calls |
| `PriorityRestored` | `ProcessPriority` | unless a change was refused, the process leaves with the priority it came with, or with the normal class if it came with the one the object has no name for |
| `StepsOnTime` | `AvrRealTime`, `Stm32` | steps end at their interrupt or tick |
| `InputsAreCurrent` | `Keyboard`, `Joystick`, `SpaceMouse` | reads return what the device is at |
| `PeripheralsAsSet` | `AvrPeripherals`, `Hd44780`, `Stm32` | no block undoes what another set up: bits are as asked for, but for the inversion of PWM pin 2; the converter takes the input that is read, up to the bits of ADLAR; an external interrupt is one at falling edges; the display shows the latest text, in its first line that of the first update |
| `DevicesTypeOK` | all | types |

Divergences without a run of their own, met in the same modules, are in the models as the code
has them, and the properties say what holds in spite of them:
- ADLAR, the number of a bit, is used as a mask: a conversion of 8 bits selects another channel
  and a later one of 10 bits keeps its bits (`MDDAVRAnalog.h`, 31 and 43), where the comment
  says that it "also clears ADLAR". `ChannelSelected` is about the other bits, and about all of
  them for conversions of 10 bits only.
- PWM on pin 2 is never inverted: line 128 of `MDDAVRTimer.h` sets COM1B1 only, its comment
  says "COM1X1=1, COM1X0=1 = Inverting". `NotInverted` is that bit.
- The external interrupt of an STM32 pin is always one at falling edges
  (`MDDSTM32F4Digital.h`, 121-122), whatever mode is asked for: `Stands` speaks of the edge for
  blocks that ask for falling ones.
- The display takes the clear command for a character from the second update on
  (`MDDAVRHD44780.h`, 89): its first line is stated for the first one.
- A Windows process with the class above normal ends with the normal one
  (`MDDRealtimeSynchronize.h`, 83-88).
- The destructor of the MQTT client frees the buffer of its handler before it disconnects
  (`MDDMQTT.h`, 301-304).
- STM32 steps are off time once the tick has wrapped round.

`AtMostOneLeft` is a bound and not zero because the destructor walks over the slots while
the thread may hold an accepted client that it stores in a slot already passed.
`DestructorReturns` of the server allows an end in an error: if the thread is between `poll`
and `accept` when the listening socket is closed, `accept` fails with `EBADF`, which the
code does not count among the orderly ends (lines 589-603).

### Bounds

- `udp_socket`: a buffer of 2 bytes, datagrams of 0 to 3 bytes: empty, shorter, equal and
  longer. Packagers of 1 and 3 bytes: too small and large enough. Three datagrams: one read,
  one overwritten, one that overwrites. Two fit into the kernel's queue, so it can be full.
  The theorems remove these bounds.
- `package_exchange`: chains of up to three of six blocks (elements of 2 and 4 bytes, in
  both byte orders, strings, packed integers of 3, 10 and 32 bits behind 0, 5 and 1 bits).
  Three blocks have one in front of and one behind every boundary between bits and bytes.
  Two triggers: a package and its successor, so old bits show. A buffer size of 6 bytes is
  too small for some chains and too large for others. The theorems hold for all blocks and
  lengths.
- `tcp_server`: two slots, so that one is behind the index and one in front, and three
  clients, so that one waits while both slots are in use, and a freed slot is used again.
  `Inherits` has both values: on Linux a socket from `accept` is blocking, on other systems
  with the same interface (the header is also built for Cygwin) it may not be.
- `shared_memory`: two processes, two memories and two semaphores: one in use and one that
  was unlinked and is still held. Sizes of one and two bytes, so that one is cut. The
  theorems hold for any number of each.
- `devices`: CAN messages with five fields, integers inside a byte and across one, a float at
  a byte and a shifted one, and a double, which shares its bits with all of them; an `int` of
  10 bits, so that the wider integer is as wide as an `int`; negative and positive integers, and
  floats with no bit set, all, and some. Minimal packages of two items in buffers of two
  and four bytes, with reals of two bytes, so that the second may not fit; strings of none and
  of one character. Two CAN identifiers and two frames, one of each or two of one, in messages
  of one and two bytes; clocks of three units to a second, so borrow and carry happen; a serial
  message of two bytes in a stream of five, so that messages are cut; `UINT16` = 6 and
  `UINT32` = 5, so counters wrap; three descriptors, which others take as well; two
  addresses, each of which may fail; one axis where three are read, no button or two where one
  is; analog inputs 3 and 6, one with the bits of ADLAR and one without; all six Windows classes.
- The violations use the smallest instance that shows them.

### Fairness

Weak fairness is assumed of the thread of a driver (`Rx`, `Acc`) and of the simulation
*within* a call it has begun (`Within`): both are scheduled by the system, and what they
wait for is a `poll` with a time-out (100 ms), a mutex, a thread to end, or nothing. No
fairness is assumed of beginning a call, of the network, of clients, of failures, nor of a
call that waits for a client (`Transfer`). A mutex is not fair between threads: with an
unbounded stream of datagrams a read could be overtaken for ever, and weak fairness of a
lock that is released infinitely often would not exclude it. In `SocketCan` fairness is that
of the thread and of the simulation within a call. In `SharedMemory` it is that of a
semaphore: of the processes that use it one is scheduled, and which of those that wait gets
it `sem_wait` does not say. A single process may wait for ever, and nobody has to begin a
call or to crash. The liveness properties of the runs hold for the bounded number of
datagrams and clients; `QueueDrained` is stated for a simulation that is between two calls.

## Proofs

All from the named assumptions on the constants (`UdpAssumption`, `ExchangeAssumption`,
`ServerAssumption`, `CanAssumption`, `SharedMemoryAssumption`, and `DevicesAssumption`, which
is the conjunction of those of the drivers). They say little more than that numbers are
natural numbers and that model values of two kinds differ; what comes from the code or the
hardware is that a line fits into what the display remembers (`DisplayAssumption`), that a
space mouse reports three bytes of buttons (`SpaceMouseAssumption`), that a port has at most
eight pins (`PeripheralsAssumption`), and that the fields of a CAN message have the positions
and widths the parameters of their blocks allow and end within its 64 bits
(`CanMessageAssumption`). That an integer does so nothing in the code checks: it is a demand on
the modeller.

**UdpSocketProofs** (`TypeCorrect`, `ReadsAreLatest`, `EveryLossIsCounted`,
`FreedObjectIsUnused`, `Implementation`). `ReadIsLatest` speaks of what a read returned and
so is preserved only if the copy was right when made, which takes: the buffer holds the
latest datagram, as far as the count says, and so does the copy in the package while the
counters are still to be read (`BufferInv`); the thread does not receive between the copy
and the counters, because the mutex is held by whose control point says so (`MutexInv`).
`OverwritesAccounted` needs that counting and receiving happen under one lock, and that
without a thread data waits in the buffer only within the read that received it
(`BlockingInv`). `NoUseAfterFree` follows from the life of the thread (`ThreadInv`): it
exists only with `useReceiveThread`, and the run flag is set while it and the simulation
live. Their conjunction `IInv` is inductive; TLC checked it on the instance of `udp_socket`
before the proof. One lemma per group of conjuncts, one step per action. For
`Implementation` a step of the socket is shown to be a step of the mailbox or to leave it
alone (`MailboxStep`). A receive is the only step that replaces the message, and it replaces
it with a later one: the datagrams in the kernel's queue are numbered without a gap behind
those taken from it (`OrderInv`).

**TcpServerProofs** (`TypeCorrect`, `NoConnectionIsLost`, `CallKeepsItsClient`,
`OneSocketLeft`, `Implementation`). Storing a client on the word of an old copy is safe
because only the accepting thread fills slots: a slot that is free in the copy it is looking
at is free in the object (`ThreadInv`). A call may read its slot without the lock because
the thread does not touch slots in use, and the simulation is in one call at a time
(`ControlInv`). The client accepted is none of those served before: the waiting ones are
numbered in order, all above those accepted (`QueueInv`). Once the run flag is cleared the
thread passes the test no more, so it stores at most the client it is already about to
accept: what the destructor has left behind has at most one element, and none while such a
client is on its way (`LeftInv`). The lemmas `SlotFilled` and `SlotFreed` say what an
assignment to one slot does to the set of clients in use and to their being distinct.

**PackageExchangeProofs** (`TypeCorrect`, `SizesAreExact`, `CursorStaysInBounds`,
`PackagesRoundTrip`). A size
that was added up backwards meets a cursor that runs forwards. What links them is `RoomInv`:
at each block, the cursor plus what the block and those behind it need, rounded up to bytes,
is the size of the buffer. It is preserved because rounding up commutes with adding whole
bytes (`AlignSum`), and because the sizes satisfy the
blocks' equations (`SizesInv`), the buffer was built from them (`BuiltInv`), the reader's
chain is a beginning of the writer's (`ChainInv`), and in one simulation readers and writers
take turns (`LoopbackInv`). The lemmas `Aligned`, `Moved`, `MovedBits` say where each
operation of the packager leaves the cursor.

`PackagesRoundTrip` needs to know what every cell of a buffer holds. Writers and readers
reach a block at the same bit, whatever their hosts and the sizes of their buffers, because
the bit follows from the blocks alone (`Layout`); from there on the buffer has the value of
the block as far as it reaches, and behind a string only zeros (`InPlace`). That holds of the
writer's package up to the block it has come to (`WriteInv`), of the datagram in the socket,
cut off or not (`InboxInv`), and of the package the readers work on (`ReadInv`); `DataInv` is
their conjunction with `RoundTrip`, inductive with `IInv`. A writer does not touch the cells
in front of its block (`ArrayPut`, `StringPut`, `BitsPut`, `StaysContained`), and a reader
whose check of the size succeeds has all of its block (`RoomOf`, `ReadBlock`). Where a byte
of an element goes does not depend on the host (`PlaceTurned`), and turning the bytes round
twice changes nothing (`TurnedTwice`), for elements of any length.

**SocketCanProofs** (`TypeCorrect`, `ReadsAreLatest`, `MutualExclusion`). A read copies what
the thread stored, so every slot must hold, byte by byte, the latest frame of its identifier
that reached that byte since it was defined (`SlotInv`); frames are numbered in order of
arrival and the one in the hand of the thread is later than all that are stored
(`OrderInv`); thread and simulation do not hold the mutex at once (`MutexInv`), and the
control points agree with the life of the thread (`ControlInv`).

**SharedMemoryProofs** (`TypeCorrect`, `AccessIsAtomic`, `NamesAreCleanedUp`,
`ExclusiveUnlessMixed`). Of each semaphore at most one process is inside, and only while its
value is 0 (`LockInv`); two processes of one memory that is not `mixed` have the same
semaphore (`MixedInv`); what a process holds fits its control point (`PointInv`); what the
two platforms have of their own (`PlatformInv`) and who still has the names (`NameInv`) give
`CleanedUp`. `ExclusiveUnlessMixed` says that the finding of `shared_memory_unlink` is the
only way to be two in one memory.

**The drivers of `devices`.** `CommunicationProofs`, `TargetProofs` and `DevicesProofs`
extend `MCDevices` and prove `DevicesSpec => []P` for the properties the run checks, so what
TLC checks and what is proved is one formula. A step of `DevicesNext` is a step of one driver
and leaves the variables of the others alone. For each driver `X` there is an inductive
invariant `XIInv`, the lemmas `InitXIInv` (it holds initially) and `XIInvStep` (a step of the
driver, or one that leaves it alone, keeps it, action by action), `XSteps` (what a step of all
drivers is to this one), and `XInvariance`, `DevicesSpec => []XIInv`. TLC checked every
`XIInv` on the instance of `devices` before it was proved.

**CommunicationProofs.**
- `UsesItsConnection`, `EverythingIsSent`: the descriptor of the object is open as its own
  from `socket` to `close` (`SocketKept`); bytes left and bytes sent make up the data
  (`StreamKept`).
- `WindowsAccountsForDatagrams`: a read and the thread take turns under the lock
  (`UdpLocked`); datagrams are numbered, and those received, overwritten and in the buffer
  make up what has left the queue (`UdpCounted`).
- `WindowsServesEveryClient`: the copy of the slots the thread searches is old, but the
  simulation only gives slots up, so what is free in the copy is free (`CopyHolds`); each
  client has one slot (`SlotsApart`), and what the destructor no longer comes to is at most
  one client (`OneMissed`). The counting is done with the facts of `FiniteSetTheorems`.
- Serial port: the bytes collected are in the order of the stream, and as long as nothing was
  purged they begin at a multiple of the message length (`Collected`, `Completed`, `Copied`).
- MQTT, Softing CAN: the buffer holds the latest message and its end (`MessageStored`); an
  object holds frames of the identifier it was defined for (`ObjectsHoldOwn`).
- LCM: the handler writes where the latest read told it (`HandlerAimed`), and what was read
  and what is queued make up what was accepted, in order (`LcmOrdered`).

**TargetProofs.**
- `SimulationIsNeverAhead`, `LinuxMakesUpForOverruns`: `Units` turns a `timespec` into a number;
  borrow and carry keep it (`BorrowUnits`, `CarryUnits`, for every `NSEC`), and the end of a
  wait is at least the start plus what the simulation owes (`TimesKept`).
- `PriorityIsRestored`: the original values in the object are those of the process wherever
  the object changed nothing, on both systems (`PriorityAsSet`); the class without a name goes
  back to normal.
- `StepsEndOnTime`: on an AVR interrupts counted, steps taken and the flag add up to all there
  were; on an STM32 the block's tick is that of its step until one of the two wraps
  (`TicksCounted`). The proof needed the second guard of `Stm32!StepsOnTime`: when the block's
  tick is the first to wrap, the block waits for none of the next steps.
- `PeripheralsStand`: a bit of a register is 1 exactly as some block asked for it, but for
  `NotInverted`, or an output, a conversion or the serial port set it (`BitsAskedFor`), and no two blocks ask for one pin or
  resource (`AvrBlocksApart`). The bytes of a text go to consecutive places of the display.

**DevicesProofs.**
- `EachReadsItsMessage`, `LocksComeFree`: the invariants of the drivers each of the two
  properties speaks of. For the second, a lock that is taken is with one that is between taking
  and giving it back, or the simulation or the thread ended with it when nobody could wait
  (`UdpHolder`, `SerialLocked`, `MqttHolder`), and a buffer is there exactly for a receiver
  between constructor and destructor (`BufferKept`).
- `InputsAreRead`: keyboard: the table of key codes holds the symbol of a key or nothing
  (`CodesOfKeys`). Joystick: what the object knows, with the latest of the events that wait, is
  what the joystick is at (`EventsAddUp`). Space mouse: that holds for each half of the axes and
  each button, through the queue (`HalvesFollow`, `WindowsButtonsFollow`, `LinuxButtonsFollow`),
  the thread's variables (`AxesFollow`) and the copy (`CopyFollows`). That a report
  in which no byte is negative decodes to the buttons held is `DecodedButtons`.
- `MessagesRoundTrip`, CAN messages: every field whose value was not lost holds it, bit by bit
  (`FieldsHold`). Packing a field changes none of the bits of others (`PackedBits`, with
  `ShiftedFloat` for the four turns of a float that does not begin at a byte), and a field
  holds its value while its bits stay (`HoldsOn`). An integer whose bits are in their places is
  read back (`Unpacked`): after j turns the sum of the loop is the value modulo 2^j, or, after
  as many turns as an `int` has bits, the value itself, since the last factor is negative. 2^j
  is a recursive function: the lemma `Recursion` gives its equations, and those of the loop.
- `MessagesRoundTrip`, minimal packages: the items lie in the buffer one behind the other, from
  positions that the sizes of their bytes add up to (`Lie`), up to the position of the packager
  that is filled (`AddedLies`) and, in the other one, up to that of the next item to be read and
  on to the end of the package (`SentLies`). A string is found again because its only zero is
  its last byte (`BytesOfItem`, `StringRead`).
- `TypesCorrect`: the types of all nineteen drivers, from the invariants of all of them; that of
  `SocketCan` is taken over from `SocketCanProofs`.

Only model-checked:
- liveness, and with it `CallsReturn`, `FramesDrained` and the other liveness properties of
  the runs: the prover has no rule for fairness.

Every invariant that a passing run checks is the statement of a theorem.

The theorems of the library on induction take an operator as a parameter, which cannot be
instantiated. The lemma `Induction` is about a set of numbers instead (one without a least
counterexample has none), which is enough for the recursive function `NoMotion` of the space
mouse, for 2^j and for the loops of `CanMessage`.

## Not modelled

- Comedi and the utilities pass each call on and keep nothing. The clocked and incubating
  blocks call the same drivers; so do the blocks of `Communication.mo` other than UDP and
  Softing CAN.
- `MDD_udpNonBlockingRead` and `MDD_udpNonBlockingReadP`, which no Modelica function
  declares; the branch of the UDP thread for `POLLHUP`, which only prints a message.
- In the server, the events of `poll` that only print a message and poll again, what is
  transferred and the receive buffers, and `AcceptedClients` and `HasAcceptedClient`, which
  read the slots under the lock and change nothing. A constructor that fails calls the
  destructor, which joins a thread handle that is undefined (Linux 796, Windows 120): the
  models end the simulation there.
- Conversions between double, float and integer, and their rounding; printing.
- A buffer size of the packager other than that of the sending block, which the user may set
  separately.
- What happens after the code left an array, used a freed buffer or a negative length: the
  models stop there.
- The queue of LCM, the CANL2 and MQTT libraries, the HAL and the kernels are external: they
  are modelled as far as the code relies on them.
- The frequency the clock of an STM32 runs at, and the calibration field of its oscillator,
  which the code leaves uninitialised; timer 3 of an ATmega16, for which the program exits;
  the characters a serial port of an AVR prints.
- Several priority objects in one process.
