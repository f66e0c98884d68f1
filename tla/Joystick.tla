------------------------------ MODULE Joystick -------------------------------
(***************************************************************************)
(* MDDJoystick.h: on Linux the kernel queues an event for every change of  *)
(* an axis or button, and MDD_joystickGetData reads the queue, which may   *)
(* grow meanwhile, until it is empty; the object keeps the latest values.  *)
(* On Windows every call asks for the position.                            *)
(***************************************************************************)
EXTENDS Integers, Sequences, FiniteSets

CONSTANTS
  Axes, Buttons,        \* numbers of axes and buttons a joystick may have
  OutAxes, OutButtons,  \* elements of the results: 6 and 32 (MDD_MAX_BUTTONS)
  MaxEvents             \* bound: changes of the joystick

JoystickAssumption ==
  /\ Axes \subseteq Nat /\ Buttons \subseteq Nat
  /\ OutAxes \in Nat /\ OutButtons \in Nat /\ MaxEvents \in Nat

Positions == {0, 1}     \* of an axis or button, 0 where it is at first

VARIABLES
  platform,  \* "windows" or "linux"
  stick,     \* the joystick: [axes, buttons], what they are at
  unread,    \* the kernel's queue: [type, init, number, value]
  events,    \* changes so far
  js,        \* the object of Linux: what it knows of axes and buttons
  sim,       \* the simulation
  out        \* the results of the latest GetData

vars == <<platform, stick, unread, events, js, sim, out>>

\* A value nobody wrote, or from behind an array
Undefined == -1

Results(values) ==
  [axes : [0 .. OutAxes - 1 -> values], buttons : [0 .. OutButtons - 1 -> values]]

TypeOK ==
  /\ platform \in {"windows", "linux"}
  /\ \E a \in Axes, b \in Buttons :
       stick \in [axes : [0 .. a - 1 -> Positions], buttons : [0 .. b - 1 -> Positions]]
  /\ \A i \in DOMAIN unread :
       unread[i] \in [type : {"axis", "button"}, init : BOOLEAN, number : Nat,
                      value : Positions]
  /\ events \in 0 .. MaxEvents
  /\ DOMAIN js.axes \subseteq DOMAIN stick.axes
  /\ DOMAIN js.buttons \subseteq DOMAIN stick.buttons
  /\ sim \in {"new", "run", "drain", "returned", "destroyed", "error"}
  /\ out \in Results(Positions \cup {Undefined})

Nothing == [axes |-> <<>>, buttons |-> <<>>]

Init ==
  /\ platform \in {"windows", "linux"}
  /\ \E a \in Axes, b \in Buttons :
       stick = [axes |-> [i \in 0 .. a - 1 |-> 0], buttons |-> [i \in 0 .. b - 1 |-> 0]]
  /\ unread = <<>> /\ events = 0
  /\ js = Nothing
  /\ sim = "new"
  /\ out = [axes |-> [i \in 0 .. OutAxes - 1 |-> Undefined],
            buttons |-> [i \in 0 .. OutButtons - 1 |-> Undefined]]

Event(type, initial, number, value) ==
  [type |-> type, init |-> initial, number |-> number, value |-> value]

\* Somebody moves an axis or a button; whoever has the device open gets an event.
Move(type, number) ==
  /\ events < MaxEvents /\ events' = events + 1
  /\ LET to == 1 - IF type = "axis" THEN stick.axes[number] ELSE stick.buttons[number]
     IN  /\ stick' = IF type = "axis" THEN [stick EXCEPT !.axes[number] = to]
                                      ELSE [stick EXCEPT !.buttons[number] = to]
         /\ unread' = IF platform = "linux" /\ sim \in {"run", "drain", "returned"}
                        THEN Append(unread, Event(type, FALSE, number, to)) ELSE unread
  /\ UNCHANGED <<platform, js, sim, out>>

\* open: the queue begins with the state of all axes and buttons as initial events.
InitialEvents ==
  [i \in 1 .. Cardinality(DOMAIN stick.axes) |->
     Event("axis", TRUE, i - 1, stick.axes[i - 1])]
  \o [i \in 1 .. Cardinality(DOMAIN stick.buttons) |->
       Event("button", TRUE, i - 1, stick.buttons[i - 1])]

\* MDD_joystickConstructor: the arrays are as long as the joystick says, and zero.
Construct ==
  /\ sim = "new" /\ sim' = "run"
  /\ IF platform = "linux"
       THEN /\ unread' = InitialEvents
            /\ js' = [axes |-> [i \in DOMAIN stick.axes |-> 0],
                      buttons |-> [i \in DOMAIN stick.buttons |-> 0]]
       ELSE UNCHANGED <<unread, js>>
  /\ UNCHANGED <<platform, stick, events, out>>

\* Neither device file can be opened.
ConstructFails ==
  /\ sim = "new" /\ platform = "linux" /\ sim' = "error"
  /\ UNCHANGED <<platform, stick, unread, events, js, out>>

GetData ==
  /\ platform = "linux" /\ sim \in {"run", "returned"}
  /\ sim' = "drain"
  /\ UNCHANGED <<platform, stick, unread, events, js, out>>

\* What an event does to the values; whether it is an initial one does not matter.
Apply(values, e) ==
  IF e.type = "axis" THEN [values EXCEPT !.axes[e.number] = e.value]
                     ELSE [values EXCEPT !.buttons[e.number] = e.value]

\* One round of the loop
ReadEvent ==
  /\ sim = "drain" /\ unread # <<>>
  /\ js' = Apply(js, Head(unread))
  /\ unread' = Tail(unread)
  /\ UNCHANGED <<platform, stick, events, sim, out>>

\* The queue is empty (EAGAIN).  An axis is read as long as the number of axes is not
\* smaller than its index: also the one behind the array.
Drained ==
  /\ sim = "drain" /\ unread = <<>>
  /\ LET nAxis == Cardinality(DOMAIN js.axes)
     IN  out' = [axes |-> [i \in 0 .. OutAxes - 1 |->
                             CASE nAxis > i -> js.axes[i]
                               [] nAxis = i -> Undefined
                               [] nAxis < i -> 0],
                 buttons |-> [i \in 0 .. OutButtons - 1 |->
                                IF i \in DOMAIN js.buttons THEN js.buttons[i] ELSE 0]]
  /\ sim' = "returned"
  /\ UNCHANGED <<platform, stick, unread, events, js>>

\* The joystick is unplugged: read fails with another error than EAGAIN.
DrainFails ==
  /\ sim = "drain" /\ sim' = "error"
  /\ UNCHANGED <<platform, stick, unread, events, js, out>>

\* joyGetPosEx gives what the joystick has; its error is ignored and leaves zeros.
WindowsGetData ==
  /\ platform = "windows" /\ sim \in {"run", "returned"}
  /\ sim' = "returned"
  /\ out' = [axes |-> [i \in 0 .. OutAxes - 1 |->
                         IF i \in DOMAIN stick.axes THEN stick.axes[i] ELSE 0],
             buttons |-> [i \in 0 .. OutButtons - 1 |->
                            IF i \in DOMAIN stick.buttons THEN stick.buttons[i] ELSE 0]]
  /\ UNCHANGED <<platform, stick, unread, events, js>>

\* MDD_joystickDestructor, which does not close the device file.
Destroy ==
  /\ sim \in {"run", "returned"} /\ sim' = "destroyed"
  /\ js' = Nothing
  /\ UNCHANGED <<platform, stick, unread, events, out>>

Ended == sim \in {"destroyed", "error"} /\ UNCHANGED vars

Next ==
  \/ \E i \in DOMAIN stick.axes : Move("axis", i)
  \/ \E i \in DOMAIN stick.buttons : Move("button", i)
  \/ Construct \/ ConstructFails \/ GetData \/ ReadEvent \/ Drained \/ DrainFails
  \/ WindowsGetData \/ Destroy \/ Ended

Spec == Init /\ [][Next]_vars

----------------------------------------------------------------------------
(* Properties *)

Outputs(values) ==
  /\ \A i \in DOMAIN out.axes :
       /\ i \in DOMAIN values.axes => out.axes[i] = values.axes[i]
       /\ i > Cardinality(DOMAIN values.axes) => out.axes[i] = 0
  /\ \A i \in DOMAIN out.buttons :
       out.buttons[i] = IF i \in DOMAIN values.buttons THEN values.buttons[i] ELSE 0

\* What the object knows and the events that wait make of an axis or button: the latest of its
\* events that wait, or else what is known.
AddsUp(type, number, known, now) ==
  LET about == {k \in DOMAIN unread : unread[k].type = type /\ unread[k].number = number}
  IN  \/ about = {} /\ now = known
      \/ \E k \in about : now = unread[k].value /\ \A j \in about : j <= k

\* On Linux the object and the events the kernel still holds add up to the joystick, and
\* what a call gave out is what the object knows, that is, the joystick as it was when the
\* call found the queue empty; the axes a joystick does not have are 0, but for the first
\* of them, and so are such buttons ("default to 0", 208, 213).
EventsAddUp ==
  platform = "linux" /\ sim \in {"run", "drain", "returned"} =>
    /\ \A a \in DOMAIN stick.axes : AddsUp("axis", a, js.axes[a], stick.axes[a])
    /\ \A b \in DOMAIN stick.buttons : AddsUp("button", b, js.buttons[b], stick.buttons[b])
    /\ sim = "returned" => Outputs(js)
=============================================================================
