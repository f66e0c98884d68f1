--------------------------------- MODULE Lcm ---------------------------------
(***************************************************************************)
(* MDDLCM.h: a receiver subscribes to a channel; the library queues what   *)
(* arrives, and each read lets it handle one message, which calls back     *)
(* MDD_lcmHandler in the thread of the simulation.  The handler writes     *)
(* where the read left a pointer: to its package, or nothing, and then the *)
(* handler leaves a string.                                                *)
(***************************************************************************)
EXTENDS Integers, Sequences

CONSTANTS
  Packages,      \* serial packagers of the simulation that messages are read into
  maxQueueSize,  \* capacity of the subscription's queue
  MaxMessages    \* bound: messages sent to the channel

LcmAssumption ==
  /\ maxQueueSize \in Nat \ {0} /\ MaxMessages \in Nat
  /\ Packages \cap {"NULL", "string"} = {}

VARIABLES
  receiver,   \* whether the object subscribes
  lcm,        \* the object: "none", "created", "subscribed", "freed"
  library,    \* open LCM instances of the library
  subscribed, \* the library calls back
  pkg,        \* where the handler writes: "NULL", a package, or the "string" it left
  queue,      \* the library's queue for the channel, by the numbers of messages
  sent,       \* messages sent to the channel so far
  accepted,   \* those that went into the queue, in order
  contents,   \* of each package: the message in it, 0 for none
  sim,        \* the simulation
  argument,   \* the package of the ReadP under way, "NULL" of a Read
  results     \* what reads have returned or written, in order: [message, to]

vars == <<receiver, lcm, library, subscribed, pkg, queue, sent, accepted, contents, sim,
          argument, results>>

TypeOK ==
  /\ receiver \in BOOLEAN
  /\ lcm \in {"none", "created", "subscribed", "freed"}
  /\ library \in 0 .. 1 /\ subscribed \in BOOLEAN
  /\ pkg \in Packages \cup {"NULL", "string"}
  /\ queue \in Seq(1 .. sent) /\ Len(queue) <= maxQueueSize
  /\ sent \in 0 .. MaxMessages /\ accepted \in Seq(1 .. sent)
  /\ contents \in [Packages -> 0 .. sent]
  /\ sim \in {"new", "configure", "run", "read", "destroyed", "error"}
  /\ argument \in Packages \cup {"NULL"}
  /\ results \in Seq([message : 1 .. sent, to : Packages \cup {"NULL"}])

Init ==
  /\ receiver \in BOOLEAN
  /\ lcm = "none" /\ library = 0 /\ subscribed = FALSE /\ pkg = "NULL"
  /\ queue = <<>> /\ sent = 0 /\ accepted = <<>>
  /\ contents = [p \in Packages |-> 0]
  /\ sim = "new" /\ argument = "NULL" /\ results = <<>>

Messages == <<sent, accepted, contents, argument, results>>

\* A message on the channel: the library queues it for a subscription with room.
Arrive ==
  /\ sent < MaxMessages /\ sent' = sent + 1
  /\ IF subscribed /\ Len(queue) < maxQueueSize
       THEN queue' = Append(queue, sent') /\ accepted' = Append(accepted, sent')
       ELSE UNCHANGED <<queue, accepted>>
  /\ UNCHANGED <<receiver, lcm, library, subscribed, pkg, contents, sim, argument, results>>

\* lcm_create with the URL of the provider: an unknown provider frees the object before the
\* library has been called, a failure of lcm_create after it.
Create ==
  /\ sim = "new"
  /\ \/ lcm' = "created" /\ library' = 1 /\ sim' = IF receiver THEN "configure" ELSE "run"
     \/ lcm' = "freed" /\ sim' = "error" /\ UNCHANGED library
  /\ UNCHANGED <<receiver, subscribed, pkg, queue, Messages>>

\* lcm_subscribe of a receiver; a channel name that is too long, or a subscription that
\* fails, destroys the library's instance and frees the object.
Subscribe ==
  /\ sim = "configure"
  /\ \/ lcm' = "subscribed" /\ subscribed' = TRUE /\ sim' = "run" /\ UNCHANGED library
     \/ lcm' = "freed" /\ library' = 0 /\ sim' = "error" /\ UNCHANGED subscribed
  /\ UNCHANGED <<receiver, pkg, queue, Messages>>

\* MDD_lcmSend: a channel name that is too long, or an error of lcm_publish, is raised.
SendFails ==
  /\ sim = "run" /\ ~receiver
  /\ sim' = "error"
  /\ UNCHANGED <<receiver, lcm, library, subscribed, pkg, queue, Messages>>

\* MDD_lcmRead before lcm_handle_timeout
Read ==
  /\ sim = "run" /\ receiver
  /\ pkg' = "NULL"
  /\ argument' = "NULL" /\ sim' = "read"
  /\ UNCHANGED <<receiver, lcm, library, subscribed, queue, sent, accepted, contents, results>>

\* MDD_lcmReadP before lcm_handle_timeout
ReadP(p) ==
  /\ sim = "run" /\ receiver
  /\ pkg' = p
  /\ argument' = p /\ sim' = "read"
  /\ UNCHANGED <<receiver, lcm, library, subscribed, queue, sent, accepted, contents, results>>

\* MDD_lcmHandler for the message that is first in the queue, and the end of the read: the
\* message is in the package or is returned as a string.
Handle ==
  /\ sim = "read" /\ queue # <<>>
  /\ queue' = Tail(queue)
  /\ IF pkg \in Packages
       THEN contents' = [contents EXCEPT ![pkg] = Head(queue)] /\ UNCHANGED pkg
       ELSE pkg' = "string" /\ UNCHANGED contents
  /\ results' = Append(results, [message |-> Head(queue),
                                 to |-> IF pkg \in Packages THEN pkg ELSE "NULL"])
  /\ sim' = "run"
  /\ UNCHANGED <<receiver, lcm, library, subscribed, sent, accepted, argument>>

\* Without a message the timeout of 0 expires: the package stays as it is, and a Read
\* returns the empty string.
NoMessage ==
  /\ sim = "read" /\ queue = <<>>
  /\ sim' = "run"
  /\ UNCHANGED <<receiver, lcm, library, subscribed, pkg, queue, Messages>>

\* lcm_handle_timeout fails, or the message does not fit into the package and is gone then.
ReadFails ==
  /\ sim = "read"
  /\ sim' = "error"
  /\ queue' = queue \/ (queue # <<>> /\ queue' = Tail(queue))
  /\ UNCHANGED <<receiver, lcm, library, subscribed, pkg, Messages>>

\* MDD_lcmDestructor: lcm_unsubscribe of a receiver, lcm_destroy, free
Destroy ==
  /\ sim = "run"
  /\ subscribed' = (subscribed /\ lcm # "subscribed")
  /\ library' = 0 /\ lcm' = "freed"
  /\ queue' = <<>> /\ sim' = "destroyed"
  /\ UNCHANGED <<receiver, pkg, Messages>>

Ended == sim \in {"destroyed", "error"} /\ UNCHANGED vars

Next ==
  \/ Arrive \/ Create \/ Subscribe \/ SendFails \/ Read \/ Handle \/ NoMessage \/ ReadFails
  \/ Destroy \/ Ended
  \/ \E p \in Packages : ReadP(p)

Spec == Init /\ [][Next]_vars

----------------------------------------------------------------------------
(* Properties *)

\* "handler subscription (only relevant for read lcm)", "pointer to SerialPackager" (27-28):
\* reads take the messages the queue accepted one by one and in order, none twice, each goes
\* to the package or the string of the read that took it, and a package keeps the last one
\* that was read into it; an object that is gone leaves nothing behind in the library.
ReadsInOrder ==
  /\ sim \notin {"error", "destroyed"} =>
       accepted = [i \in 1 .. Len(results) |-> results[i].message] \o queue
  /\ \A p \in Packages :
       LET into == {i \in 1 .. Len(results) : results[i].to = p}
       IN  \/ into = {} /\ contents[p] = 0
           \/ \E i \in into : (\A j \in into : j <= i) /\ contents[p] = results[i].message
  /\ sim = "run" /\ pkg = "string" => argument = "NULL"
  /\ sim = "run" /\ pkg \in Packages => argument = pkg
  /\ lcm = "freed" => library = 0 /\ ~subscribed
=============================================================================
