-------------------------------- MODULE Mqtt --------------------------------
(***************************************************************************)
(* MDDMQTT.h: one MQTT client object, used by the simulation thread and by *)
(* the thread of the client library that calls the handlers.  Messages are *)
(* numbered as they arrive; a byte of a buffer is the number of its        *)
(* message, 0 the end of a string or a byte never written.                 *)
(***************************************************************************)
EXTENDS Integers

CONSTANTS
  BufferSize,    \* bufferSize of the constructor
  MaxMessages    \* bound: messages that arrive

MqttAssumption == BufferSize \in Nat \ {0} /\ MaxMessages \in Nat

VARIABLES
  receiver, client, callbacks,   \* what the library knows: the client and its handlers
  mutex, sslErrorMsg,
  receiveBuffer, nReceivedBytes, allocated,
  arrived, handler, length,      \* the library's thread and the message it delivers
  sim, at, copy, result,         \* the simulation thread and what it read
  latest                         \* history: the latest message that was stored

mqtt == <<client, callbacks, mutex, sslErrorMsg, receiveBuffer, nReceivedBytes, allocated>>
thread == <<arrived, handler, length>>
reader == <<at, copy, result>>
vars == <<receiver, mqtt, thread, sim, reader, latest>>

Bytes == 1 .. BufferSize
Zeros == [i \in Bytes |-> 0]
Buffers == [Bytes -> 0 .. MaxMessages]
Nothing == [id |-> 0, length |-> 0]
Stored == [id : 0 .. MaxMessages, length : 0 .. BufferSize]
NoResult == [of |-> Nothing, bytes |-> Zeros]

TypeOK ==
  /\ receiver \in BOOLEAN /\ callbacks \in BOOLEAN /\ allocated \in BOOLEAN
  /\ client \in {"none", "created", "connected", "destroyed"}
  /\ mutex \in {"none", "free", "handler", "sim", "destroyed"}
  /\ sslErrorMsg \in BOOLEAN
  /\ receiveBuffer \in Buffers /\ copy \in Buffers
  /\ nReceivedBytes \in 0 .. BufferSize /\ length \in 0 .. BufferSize + 1
  /\ arrived \in 0 .. MaxMessages /\ at \in 0 .. BufferSize
  /\ handler \in {"idle", "lock", "store", "undefined"}
  /\ sim \in {"new", "callbacks", "mutex", "connect", "subscribe", "idle", "lock",
              "copy", "package", "unsubscribe", "disconnect", "destroy", "ended"}
  /\ result \in [of : Stored, bytes : Buffers] /\ latest \in Stored

Init ==
  /\ receiver \in BOOLEAN
  /\ client = "none" /\ callbacks = FALSE
  /\ mutex = "none" /\ sslErrorMsg = FALSE
  /\ receiveBuffer = Zeros /\ nReceivedBytes = 0 /\ allocated = FALSE
  /\ arrived = 0 /\ handler = "idle" /\ length = 0
  /\ sim = "new" /\ at = 0 /\ copy = Zeros /\ result = NoResult
  /\ latest = Nothing

Locks == {"free", "none", "destroyed"}   \* states in which pthread_mutex_lock goes on

----------------------------------------------------------------------------
(* The library *)

\* A message of a topic of this client arrives: by a subscription, or from a session that
\* is not clean as soon as it is connected.
Arrive(n) ==
  /\ client = "connected" /\ callbacks /\ handler = "idle"
  /\ arrived < MaxMessages /\ arrived' = arrived + 1
  /\ handler' = "lock" /\ length' = n
  /\ UNCHANGED <<receiver, mqtt, sim, reader, latest>>

\* MDD_mqttMsgArrivedHandler
HandlerLock ==
  /\ handler = "lock" /\ mutex \in Locks
  /\ mutex' = "handler" /\ handler' = "store"
  /\ UNCHANGED <<receiver, client, callbacks, sslErrorMsg, receiveBuffer, nReceivedBytes,
                 allocated, arrived, length, sim, reader, latest>>

\* A message that fits replaces what is in the buffer and ends there; what is behind stays,
\* and so does everything when it does not fit.
HandlerStore ==
  /\ handler = "store" /\ allocated
  /\ IF length > BufferSize
     THEN UNCHANGED <<receiveBuffer, nReceivedBytes, latest>>
     ELSE /\ receiveBuffer' = [i \in Bytes |-> CASE i <= length -> arrived
                                                 [] i = length + 1 -> 0
                                                 [] OTHER -> receiveBuffer[i]]
          /\ nReceivedBytes' = length
          /\ latest' = [id |-> arrived, length |-> length]
  /\ mutex' = "free" /\ handler' = "idle" /\ length' = 0
  /\ UNCHANGED <<receiver, client, callbacks, sslErrorMsg, allocated, arrived, sim, reader>>

\* The destructor has freed the buffer: what the handler does then is not defined.
HandlerUndefined ==
  /\ handler = "store" /\ ~allocated
  /\ handler' = "undefined"
  /\ UNCHANGED <<receiver, mqtt, arrived, length, sim, reader, latest>>

\* MDD_mqttSSLErrorHandler, while the client connects
SslError ==
  /\ sim = "connect" /\ mutex \in Locks
  /\ sslErrorMsg' = TRUE
  /\ UNCHANGED <<receiver, client, callbacks, mutex, receiveBuffer, nReceivedBytes, allocated,
                 thread, sim, reader, latest>>

----------------------------------------------------------------------------
(* MDD_mqttConstructor *)

Create ==
  /\ sim = "new"
  /\ client' = "created" /\ allocated' = receiver
  /\ sim' = "callbacks"
  /\ UNCHANGED <<receiver, callbacks, mutex, sslErrorMsg, receiveBuffer, nReceivedBytes,
                 thread, reader, latest>>

\* No memory, or MQTTClient_create fails.
CreateFails ==
  /\ sim = "new" /\ sim' = "ended"
  /\ UNCHANGED <<receiver, mqtt, thread, reader, latest>>

SetCallbacks ==
  /\ sim = "callbacks"
  /\ callbacks' = receiver
  /\ sim' = "mutex"
  /\ UNCHANGED <<receiver, client, mutex, sslErrorMsg, receiveBuffer, nReceivedBytes,
                 allocated, thread, reader, latest>>

MutexInit ==
  /\ sim = "mutex"
  /\ mutex' = "free" /\ sim' = "connect"
  /\ UNCHANGED <<receiver, client, callbacks, sslErrorMsg, receiveBuffer, nReceivedBytes,
                 allocated, thread, reader, latest>>

Connect ==
  /\ sim = "connect"
  /\ client' = "connected"
  /\ sim' = IF receiver THEN "subscribe" ELSE "idle"
  /\ UNCHANGED <<receiver, callbacks, mutex, sslErrorMsg, receiveBuffer, nReceivedBytes,
                 allocated, thread, reader, latest>>

\* The message of the handler is copied under the mutex, then everything is given up.
ConnectFails ==
  /\ sim = "connect" /\ mutex \in Locks
  /\ mutex' = "destroyed" /\ client' = "destroyed" /\ allocated' = FALSE
  /\ sim' = "ended"
  /\ UNCHANGED <<receiver, callbacks, sslErrorMsg, receiveBuffer, nReceivedBytes, thread,
                 reader, latest>>

\* The result of MQTTClient_subscribe is not looked at.
Subscribe ==
  /\ sim = "subscribe" /\ sim' = "idle"
  /\ UNCHANGED <<receiver, mqtt, thread, reader, latest>>

----------------------------------------------------------------------------
(* MDD_mqttRead, ReadP and Send *)

Begin ==
  /\ sim = "idle" /\ receiver
  /\ sim' = "lock" /\ result' = NoResult
  /\ UNCHANGED <<receiver, mqtt, thread, at, copy, latest>>

LockUnguarded ==
  /\ sim = "lock"
  /\ mutex' = "sim" /\ sim' \in {"copy", "package"}
  /\ UNCHANGED <<receiver, client, callbacks, sslErrorMsg, receiveBuffer, nReceivedBytes,
                 allocated, thread, reader, latest>>

Lock ==
  /\ sim = "lock" /\ mutex \in Locks
  /\ mutex' = "sim" /\ sim' \in {"copy", "package"}
  /\ UNCHANGED <<receiver, client, callbacks, sslErrorMsg, receiveBuffer, nReceivedBytes,
                 allocated, thread, reader, latest>>

\* Read copies the whole buffer, so that it returns the previous values when there are no
\* new ones, ReadP the bytes received.
Length == IF sim = "copy" THEN BufferSize ELSE nReceivedBytes

CopyByte ==
  /\ sim \in {"copy", "package"} /\ at < Length
  /\ copy' = [copy EXCEPT ![at + 1] = receiveBuffer[at + 1]]
  /\ at' = at + 1
  /\ UNCHANGED <<receiver, mqtt, thread, sim, result, latest>>

\* The mutex is released; a package that is too small is an error after that.
Return ==
  /\ sim \in {"copy", "package"} /\ at >= Length
  /\ result' = [of |-> IF at > 0 THEN latest ELSE Nothing, bytes |-> copy]
  /\ nReceivedBytes' = 0 /\ mutex' = "free"
  /\ copy' = Zeros /\ at' = 0
  /\ sim' \in IF sim = "package" THEN {"idle", "ended"} ELSE {"idle"}
  /\ UNCHANGED <<receiver, client, callbacks, sslErrorMsg, receiveBuffer, allocated, thread,
                 latest>>

\* MQTTClient_publishMessage fails.
SendFails ==
  /\ sim = "idle" /\ sim' = "ended"
  /\ UNCHANGED <<receiver, mqtt, thread, reader, latest>>

----------------------------------------------------------------------------
(* MDD_mqttDestructor *)

Destroy ==
  /\ sim = "idle"
  /\ sim' = IF receiver THEN "unsubscribe" ELSE "disconnect"
  /\ result' = NoResult
  /\ UNCHANGED <<receiver, mqtt, thread, at, copy, latest>>

\* A failure to unsubscribe is only reported.
Unsubscribe ==
  /\ sim = "unsubscribe" /\ sim' = "disconnect"
  /\ allocated' = FALSE
  /\ UNCHANGED <<receiver, client, callbacks, mutex, sslErrorMsg, receiveBuffer,
                 nReceivedBytes, thread, reader, latest>>

\* MQTTClient_disconnect and MQTTClient_destroy end the library's thread.
Disconnect ==
  /\ sim = "disconnect" /\ handler \in {"idle", "undefined"}
  /\ client' = "destroyed"
  /\ sim' = "destroy"
  /\ UNCHANGED <<receiver, callbacks, mutex, sslErrorMsg, receiveBuffer, nReceivedBytes,
                 allocated, thread, reader, latest>>

MutexDestroy ==
  /\ sim = "destroy"
  /\ mutex' = "destroyed" /\ sim' = "ended"
  /\ UNCHANGED <<receiver, client, callbacks, sslErrorMsg, receiveBuffer, nReceivedBytes,
                 allocated, thread, reader, latest>>

Ended == (sim = "ended" \/ handler = "undefined") /\ UNCHANGED vars

Next ==
  \/ (\E n \in 0 .. BufferSize + 1 : Arrive(n))
  \/ HandlerLock \/ HandlerStore \/ HandlerUndefined \/ SslError
  \/ Create \/ CreateFails \/ SetCallbacks \/ MutexInit \/ Connect \/ ConnectFails \/ Subscribe
  \/ Begin \/ Lock \/ CopyByte \/ Return \/ SendFails
  \/ Destroy \/ Unsubscribe \/ Disconnect \/ MutexDestroy \/ Ended

Spec == Init /\ [][Next]_vars

----------------------------------------------------------------------------
(* Properties *)

\* What a read returns begins with the whole latest message that fitted into the buffer,
\* and with nothing of any other in it (85-92, 362-368, 397-398).
ReadsWholeMessage ==
  result.of.id # 0 =>
    /\ \A i \in 1 .. result.of.length : result.bytes[i] = result.of.id
    /\ result.of.length < BufferSize => result.bytes[result.of.length + 1] = 0

\* Who waits for the mutex, a handler registered before it exists (214, 219) included, finds
\* one that is there, and free or with one that is about to give it back (83-95, 241-247, 358-402).
LockComesFree ==
  /\ handler = "lock" => mutex = "free" \/ (mutex = "sim" /\ sim \in {"copy", "package"})
  /\ sim \in {"connect", "lock"} => mutex = "free" \/ (mutex = "handler" /\ handler = "store")

\* The buffer that is copied is there, and a handler that has none to store in came between
\* its being freed and the end of the connection (301-304), at no other time.
BufferExists ==
  /\ sim \in {"copy", "package"} => allocated
  /\ handler = "store" /\ ~allocated => sim = "disconnect"
=============================================================================
