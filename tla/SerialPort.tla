----------------------------- MODULE SerialPort -----------------------------
(***************************************************************************)
(* MDDSerialPort.h: one serial port, its receiving thread, which collects  *)
(* messages of bufferSize bytes, and the simulation thread, on Linux or on *)
(* Windows.  The bytes that arrive are numbered from 1.                    *)
(***************************************************************************)
EXTENDS Integers

CONSTANTS
  Platforms,      \* "linux", "windows"
  MessageLength,  \* bufferSize of the constructor
  MaxBytes        \* bound: bytes that arrive

SerialAssumption == MessageLength \in Nat \ {0} /\ MaxBytes \in Nat

VARIABLES
  platform,
  arrived, consumed,           \* bytes that came, and those read or purged
  msgInternal, counter,        \* the message the thread collects, and its bytes so far
  msgLastComplete, nReceivedBytes, runReceive, messageMutex,
  rx, n,                       \* the thread, and the bytes of its latest read
  sim, at, copy, result,       \* the simulation thread, and what its reads return
  latest, purged               \* history: last byte of the last message; bytes were purged

port == <<msgInternal, counter, msgLastComplete, nReceivedBytes, runReceive, messageMutex>>
reader == <<sim, at, copy, result>>
vars == <<platform, arrived, consumed, port, rx, n, reader, latest, purged>>

Linux == platform = "linux"
Bytes == 1 .. MessageLength
Zeros == [i \in Bytes |-> 0]
Buffers == [Bytes -> 0 .. MaxBytes]
NoResult == [length |-> 0, bytes |-> Zeros, end |-> 0]

TypeOK ==
  /\ platform \in Platforms
  /\ arrived \in 0 .. MaxBytes /\ consumed \in 0 .. arrived
  /\ msgInternal \in Buffers /\ msgLastComplete \in Buffers /\ copy \in Buffers
  /\ counter \in 0 .. MessageLength /\ nReceivedBytes \in 0 .. MessageLength
  /\ n \in 0 .. MessageLength /\ at \in 0 .. MessageLength
  /\ runReceive \in BOOLEAN /\ messageMutex \in {"nobody", "rx", "sim"}
  /\ rx \in {"none", "test", "poll", "read", "lock", "store", "wipe", "erase", "done"}
  /\ sim \in {"new", "idle", "lock", "copy", "count", "join", "destroyed", "error"}
  /\ result \in [length : 0 .. MessageLength, bytes : Buffers, end : 0 .. MaxBytes]
  /\ latest \in 0 .. MaxBytes /\ purged \in BOOLEAN

Init ==
  /\ platform \in Platforms
  /\ arrived = 0 /\ consumed = 0
  /\ msgInternal = Zeros /\ counter = 0
  /\ msgLastComplete = Zeros /\ nReceivedBytes = 0
  /\ runReceive = FALSE /\ messageMutex = "nobody"
  /\ rx = "none" /\ n = 0
  /\ sim = "new" /\ at = 0 /\ copy = Zeros /\ result = NoResult
  /\ latest = 0 /\ purged = FALSE

Running == sim # "error"

\* The device sends a byte.
Arrive ==
  /\ Running /\ sim \notin {"new", "destroyed"}
  /\ arrived < MaxBytes /\ arrived' = arrived + 1
  /\ UNCHANGED <<platform, consumed, port, rx, n, reader, latest, purged>>

----------------------------------------------------------------------------
(* MDD_serialPortReceivingThread *)

RxTest ==
  /\ Running /\ rx = "test"
  /\ rx' = IF runReceive THEN "poll" ELSE "done"
  /\ UNCHANGED <<platform, arrived, consumed, port, n, reader, latest, purged>>

\* poll waits 100 ms; WaitCommEvent and GetOverlappedResult wait until there is an event.
RxPoll ==
  /\ Running /\ rx = "poll"
  /\ \/ arrived > consumed /\ rx' = "read"
     \/ Linux /\ arrived = consumed /\ rx' = "test"
  /\ UNCHANGED <<platform, arrived, consumed, port, n, reader, latest, purged>>

\* A read of bytes that are there, as far as there is room behind those collected.  Linux
\* begins a new message here, Windows when the last one is stored.
RxRead(k) ==
  LET start == IF counter = MessageLength THEN 0 ELSE counter
  IN  /\ Running /\ rx = "read"
      /\ k \in 1 .. arrived - consumed /\ start + k <= MessageLength
      /\ msgInternal' = [i \in Bytes |-> IF i \in start + 1 .. start + k
                                         THEN consumed + i - start ELSE msgInternal[i]]
      /\ counter' = start + k
      /\ consumed' = consumed + k
      /\ n' = k
      /\ rx' = IF Linux \/ counter' = MessageLength THEN "lock" ELSE "test"
      /\ UNCHANGED <<platform, arrived, msgLastComplete, nReceivedBytes, runReceive,
                     messageMutex, reader, latest, purged>>

RxLock ==
  /\ Running /\ rx \in {"lock", "wipe"} /\ messageMutex = "nobody"
  /\ messageMutex' = "rx"
  /\ rx' = IF rx = "lock" THEN "store" ELSE "erase"
  /\ UNCHANGED <<platform, arrived, consumed, msgInternal, counter, msgLastComplete,
                 nReceivedBytes, runReceive, n, reader, latest, purged>>

Store(complete) ==
  /\ Running /\ rx = "store"
  /\ nReceivedBytes' = IF Linux THEN n ELSE MessageLength
  /\ msgLastComplete' = IF complete THEN msgInternal ELSE msgLastComplete
  /\ latest' = IF complete THEN consumed ELSE latest
  /\ counter' = IF Linux THEN counter ELSE 0
  /\ messageMutex' = "nobody"
  /\ n' = 0 /\ rx' = "test"
  /\ UNCHANGED <<platform, arrived, consumed, msgInternal, runReceive, reader, purged>>

StoreAnyway == Store(TRUE)

\* A complete message replaces the last one.
RxStore == Store(counter = MessageLength)

\* Windows: the driver reports an error and what has arrived is purged, after an overrun
\* or a parity or framing error with the last message; the bytes collected stay.
RxPurge ==
  /\ Running /\ ~Linux /\ rx = "read"
  /\ consumed' = arrived /\ purged' = TRUE
  /\ rx' \in {"test", "wipe"}
  /\ UNCHANGED <<platform, arrived, port, n, reader, latest>>

RxErase ==
  /\ Running /\ rx = "erase"
  /\ msgLastComplete' = Zeros /\ nReceivedBytes' = 0 /\ latest' = 0
  /\ messageMutex' = "nobody" /\ rx' = "test"
  /\ UNCHANGED <<platform, arrived, consumed, msgInternal, counter, runReceive, n, reader,
                 purged>>

\* WaitCommEvent fails: on Windows the thread ends.  Where poll or read fails on Linux the
\* error ends the simulation.
RxFails ==
  /\ Running /\ rx \in {"poll", "read"}
  /\ IF Linux THEN sim' = "error" /\ UNCHANGED rx
              ELSE rx = "poll" /\ rx' = "done" /\ UNCHANGED sim
  /\ UNCHANGED <<platform, arrived, consumed, port, n, at, copy, result, latest, purged>>

----------------------------------------------------------------------------
(* The simulation thread *)

\* MDD_serialPortConstructor: with receiver # 0 it starts the thread.
Construct(receiver) ==
  /\ sim = "new" /\ sim' = "idle"
  /\ runReceive' = receiver
  /\ rx' = IF receiver THEN "test" ELSE "none"
  /\ UNCHANGED <<platform, arrived, consumed, msgInternal, counter, msgLastComplete,
                 nReceivedBytes, messageMutex, n, at, copy, result, latest, purged>>

\* The device cannot be opened, it refuses its attributes, there is no thread.
ConstructFails ==
  /\ sim = "new" /\ sim' = "error"
  /\ UNCHANGED <<platform, arrived, consumed, port, rx, n, at, copy, result, latest, purged>>

\* Linux: write takes less than it should.
SendFails ==
  /\ Linux /\ sim = "idle" /\ sim' = "error"
  /\ UNCHANGED <<platform, arrived, consumed, port, rx, n, at, copy, result, latest, purged>>

\* MDD_serialPortRead, ReadP and GetReceivedBytes; on Windows not without the thread
Begin ==
  /\ sim = "idle" /\ (Linux \/ rx # "none")
  /\ sim' = "lock" /\ result' = NoResult
  /\ UNCHANGED <<platform, arrived, consumed, port, rx, n, at, copy, latest, purged>>

EnterUnguarded ==
  /\ sim = "lock"
  /\ messageMutex' = "sim"
  /\ sim' \in {"copy", "count"}
  /\ UNCHANGED <<platform, arrived, consumed, msgInternal, counter, msgLastComplete,
                 nReceivedBytes, runReceive, rx, n, at, copy, result, latest, purged>>

Lock == messageMutex = "nobody" /\ EnterUnguarded

\* Linux copies the last complete message, Windows the bytes not yet read.
Length == IF Linux THEN MessageLength ELSE nReceivedBytes

CopyByte ==
  /\ sim = "copy" /\ at < Length
  /\ copy' = [copy EXCEPT ![at + 1] = msgLastComplete[at + 1]]
  /\ at' = at + 1
  /\ UNCHANGED <<platform, arrived, consumed, port, rx, n, sim, result, latest, purged>>

\* MDD_serialPortRead and ReadP: the mutex is released; Windows has taken the bytes.
Return ==
  /\ sim = "copy" /\ at >= Length
  /\ messageMutex' = "nobody" /\ sim' = "idle"
  /\ nReceivedBytes' = IF Linux THEN nReceivedBytes ELSE 0
  /\ result' = [length |-> at, bytes |-> copy, end |-> latest]
  /\ copy' = Zeros /\ at' = 0
  /\ UNCHANGED <<platform, arrived, consumed, msgInternal, counter, msgLastComplete,
                 runReceive, rx, n, latest, purged>>

\* The package of a MDD_serialPortReadP is too small: an error once the mutex is released
PackageTooSmall ==
  /\ sim = "copy" /\ at = 0 /\ Length > 0
  /\ messageMutex' = "nobody" /\ sim' = "error"
  /\ nReceivedBytes' = IF Linux THEN nReceivedBytes ELSE 0
  /\ UNCHANGED <<platform, arrived, consumed, msgInternal, counter, msgLastComplete,
                 runReceive, rx, n, at, copy, result, latest, purged>>

\* MDD_serialPortGetReceivedBytes
CountReturns ==
  /\ sim = "count" /\ sim' = "idle"
  /\ messageMutex' = "nobody"
  /\ UNCHANGED <<platform, arrived, consumed, msgInternal, counter, msgLastComplete,
                 nReceivedBytes, runReceive, rx, n, at, copy, result, latest, purged>>

\* MDD_serialPortDestructor
Destroy ==
  /\ sim = "idle"
  /\ runReceive' = FALSE /\ result' = NoResult
  /\ sim' = IF rx # "none" THEN "join" ELSE "destroyed"
  /\ UNCHANGED <<platform, arrived, consumed, msgInternal, counter, msgLastComplete,
                 nReceivedBytes, messageMutex, rx, n, at, copy, latest, purged>>

\* pthread_join; WaitForSingleObject for a second, then TerminateThread, with the
\* mutex if the thread has it.
Join ==
  /\ sim = "join"
  /\ rx = "done" \/ ~Linux
  /\ rx' = "done" /\ sim' = "destroyed"
  /\ UNCHANGED <<platform, arrived, consumed, port, n, at, copy, result, latest, purged>>

Ended == sim \in {"destroyed", "error"} /\ UNCHANGED vars

Next ==
  \/ Arrive
  \/ RxTest \/ RxPoll \/ (\E k \in Bytes : RxRead(k)) \/ RxLock \/ RxStore
  \/ RxPurge \/ RxErase \/ RxFails
  \/ (\E receiver \in BOOLEAN : Construct(receiver)) \/ ConstructFails \/ SendFails
  \/ Begin \/ Lock \/ CopyByte \/ Return \/ PackageTooSmall \/ CountReturns
  \/ Destroy \/ Join \/ Ended

Spec == Init /\ [][Next]_vars

----------------------------------------------------------------------------
(* Properties *)

\* A read returns one message, "Last *complete* received message" (365): all its bytes and
\* of no other, the latest the thread has completed, at a message boundary of the stream,
\* however its bytes came in and whenever the thread stores the next (611-633, 649-687).
\* After a purge on Windows the boundaries are lost, the order of bytes is not.
ReadsWholeMessage ==
  \A i \in 1 .. result.length :
    IF purged
    THEN \A j \in 1 .. i - 1 : result.bytes[j] < result.bytes[i]
    ELSE /\ result.end % MessageLength = 0
         /\ result.bytes[i] = IF result.end = 0 THEN 0 ELSE result.end - MessageLength + i

\* Who waits for the mutex finds it free, or with one that is about to give it back, never
\* with a thread that ended or was terminated with it (91-94, 114-117, 319-324, 626-633).
LockComesFree ==
  /\ sim = "lock" => messageMutex = "nobody" \/ (messageMutex = "rx" /\ rx \in {"store", "erase"})
  /\ Running /\ rx \in {"lock", "wipe"} =>
       messageMutex = "nobody" \/ (messageMutex = "sim" /\ sim \in {"copy", "count"})

\* On Linux the thread is at its end and the mutex is free when the two are freed (725-742).
ThreadEndsFirst == Linux /\ sim = "destroyed" => rx \in {"none", "done"} /\ messageMutex = "nobody"
=============================================================================
