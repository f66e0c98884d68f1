--------------------------- MODULE DevicesProofs ----------------------------
(***************************************************************************)
(* Proofs about the input devices, the fields of CAN messages and the      *)
(* minimal packager, as MCDevices looks at them, for any keys, axes,       *)
(* buttons, fields, values and sizes and any number of events, reports and *)
(* calls; and about the properties that several drivers share.             *)
(***************************************************************************)
EXTENDS CommunicationProofs, TargetProofs, SocketCanProofs

----------------------------------------------------------------------------
(* The keyboard (Keyboard) *)

\* On Linux no key press is remembered, and the table of key codes has the symbol of a key or
\* nothing.
CodesOfKeys ==
  kbPlatform = "linux" => since = {} /\ \A k \in Keyboards!ReadKeys : w2lKey[k] \in {0, Keyboards!Symbol(k)}

\* A result has a state and the truth for each key it was asked for.
ReadComplete ==
  DOMAIN kbRead.state = DOMAIN kbRead.keys /\ DOMAIN kbRead.pressed = DOMAIN kbRead.keys

KeyboardIInv == Keyboards!TypeOK /\ CodesOfKeys /\ ReadComplete /\ Keyboards!KeysAreShown

\* A key that a block reads is one of the table, and no key has the code 0.
LEMMA KeyCodes ==
  ASSUME Keyboards!KeyboardAssumption
  PROVE  /\ Keyboards!ReadKeys \subseteq 9 .. 123
         /\ \A k \in Keys : k # 0
         /\ \A k \in Keyboards!ReadKeys : Keyboards!Symbol(k) \in Nat /\ (k \notin 116 .. 122 => Keyboards!Symbol(k) \in {0, k})
<1>1. {Keyboards!DataKeys[j] : j \in DOMAIN Keyboards!DataKeys} \subseteq 9 .. 123
  BY DEF Keyboards!DataKeys
<1>2. Keyboards!ReadKeys \subseteq 9 .. 123
  BY <1>1 DEF Keyboards!ReadKeys, Keyboards!KeyboardAssumption
<1>3. \A k \in 9 .. 123 : Keyboards!Symbol(k) \in Nat /\ (k \notin 116 .. 122 => Keyboards!Symbol(k) \in {0, k})
  BY DEF Keyboards!Symbol
<1>4. \A k \in Keys : k \in 9 .. 123
  BY DEF Keyboards!KeyboardAssumption
<1>5. \A k \in 9 .. 123 : k # 0
  OBVIOUS
<1>6. \A k \in Keys : k # 0
  BY <1>4, <1>5
<1>7. QED
  BY <1>2, <1>3, <1>6

\* The answer to a call that looks at keys by codes, each that of the key or 0
LEMMA AnswerOK ==
  ASSUME Keyboards!KeyboardAssumption, Keyboards!TypeOK, NEW keys \in Seq(Keyboards!ReadKeys), NEW state,
         state \in [DOMAIN keys -> {0, 1, Keyboards!Unwritten}],
         kbRead' = [keys |-> keys, state |-> state,
                    pressed |-> [j \in DOMAIN keys |-> Keyboards!Bit(keys[j] \in down \cup since)]]
  PROVE  /\ kbRead' \in [keys : Seq(Keyboards!ReadKeys), state : Seq({0, 1, Keyboards!Unwritten}), pressed : Seq({0, 1})]
         /\ ReadComplete'
<1>1. PICK len \in Nat : DOMAIN keys = 1 .. len
  OBVIOUS
<1>2. [j \in DOMAIN keys |-> Keyboards!Bit(keys[j] \in down \cup since)] \in [1 .. len -> {0, 1}]
  BY <1>1 DEF Keyboards!Bit
<1>3. \A S, f : f \in [1 .. len -> S] => f \in Seq(S)
  OBVIOUS
<1>4. /\ state \in Seq({0, 1, Keyboards!Unwritten})
      /\ [j \in DOMAIN keys |-> Keyboards!Bit(keys[j] \in down \cup since)] \in Seq({0, 1})
  BY <1>1, <1>2, <1>3
<1>5. QED
  BY <1>4 DEF ReadComplete

\* The invariant holds in the initial states.
LEMMA InitKeyboardIInv == ASSUME Keyboards!KeyboardAssumption, Keyboards!Init PROVE KeyboardIInv
<1>1. Keyboards!NoRead \in [keys : Seq(Keyboards!ReadKeys), state : Seq({0, 1, Keyboards!Unwritten}), pressed : Seq({0, 1})]
  BY DEF Keyboards!NoRead
<1>2. Keyboards!TypeOK
  BY <1>1 DEF Keyboards!Init, Keyboards!TypeOK
<1>3. Keyboards!KeysAreShown
  BY DEF Keyboards!Init, Keyboards!NoRead, Keyboards!KeysAreShown
<1>4. QED
  BY <1>2, <1>3 DEF Keyboards!Init, KeyboardIInv, CodesOfKeys, Keyboards!NoRead, ReadComplete

\* Every step keeps the invariant.
LEMMA KeyboardIInvStep ==
  ASSUME Keyboards!KeyboardAssumption, KeyboardIInv, [Keyboards!Next]_Keyboards!vars
  PROVE  KeyboardIInv'
<1>0. Keyboards!TypeOK /\ CodesOfKeys /\ ReadComplete /\ Keyboards!KeysAreShown
  BY DEF KeyboardIInv
<1>1. ASSUME NEW k \in Keys, Keyboards!Press(k) \/ Keyboards!Release(k) PROVE KeyboardIInv'
  <2>1. Keyboards!TypeOK'
    BY <1>0, <1>1 DEF Keyboards!TypeOK, Keyboards!Press, Keyboards!Release
  <2>2. CodesOfKeys'
    BY <1>0, <1>1 DEF CodesOfKeys, Keyboards!Press, Keyboards!Release
  <2>3. ReadComplete' /\ Keyboards!KeysAreShown'
    BY <1>0, <1>1
    DEF ReadComplete, Keyboards!KeysAreShown, Keyboards!Misplaced, Keyboards!Press,
        Keyboards!Release
  <2>4. QED
    BY <2>1, <2>2, <2>3 DEF KeyboardIInv
<1>2. ASSUME NEW keys \in Seq(Keyboards!ReadKeys), kbPlatform = "windows",
             kbRead' = Keyboards!Answer(keys, Keyboards!AsyncKeyState), since' \subseteq since,
             UNCHANGED <<kbPlatform, down, displays, w2lKey>>
      PROVE  KeyboardIInv'
  <2> DEFINE state == [j \in DOMAIN keys |-> Keyboards!Bit(keys[j] \in down \cup since)]
  <2>1. kbRead' = [keys |-> keys, state |-> state, pressed |-> state]
    BY <1>2 DEF Keyboards!Answer, Keyboards!AsyncKeyState
  <2>2. state \in [DOMAIN keys -> {0, 1, Keyboards!Unwritten}]
    BY DEF Keyboards!Bit
  <2>3. /\ kbRead' \in [keys : Seq(Keyboards!ReadKeys), state : Seq({0, 1, Keyboards!Unwritten}), pressed : Seq({0, 1})]
        /\ ReadComplete'
    BY <1>0, <2>1, <2>2, AnswerOK
  <2>4. Keyboards!KeysAreShown'
    BY <1>2, <2>1 DEF Keyboards!KeysAreShown
  <2>5. QED
    BY <1>0, <1>2, <2>3, <2>4 DEF KeyboardIInv, Keyboards!TypeOK, CodesOfKeys
<1>3. \A k \in AskedKeys : <<k>> \in Seq(Keyboards!ReadKeys)
  BY DEF Keyboards!ReadKeys
<1>4. Keyboards!DataKeys \in Seq(Keyboards!ReadKeys) /\ Len(Keyboards!DataKeys) = 10
  <2>1. Keyboards!DataKeys \in [1 .. 10 -> Keyboards!ReadKeys] /\ Len(Keyboards!DataKeys) = 10
    <3>1. Keyboards!DataKeys \in Seq(9 .. 123) /\ Len(Keyboards!DataKeys) = 10
      BY DEF Keyboards!DataKeys
    <3>2. DOMAIN Keyboards!DataKeys = 1 .. 10
      BY <3>1
    <3>3. QED
      BY <3>1, <3>2 DEF Keyboards!ReadKeys
  <2>2. \A len \in Nat : \A S, f : f \in [1 .. len -> S] => f \in Seq(S)
    OBVIOUS
  <2>3. QED
    BY <2>1, <2>2
<1>5. ASSUME NEW k \in AskedKeys, Keyboards!WindowsGetKey(k) PROVE KeyboardIInv'
  BY <1>2, <1>3, <1>5 DEF Keyboards!WindowsGetKey
<1>6. CASE Keyboards!WindowsGetData
  BY <1>2, <1>4, <1>6 DEF Keyboards!WindowsGetData
<1>7. ASSUME NEW k \in AskedKeys, Keyboards!LinuxGetKey(k) PROVE KeyboardIInv'
  <2>1. PICK opened, filled \in BOOLEAN :
          /\ w2lKey' = IF "GetKey" \in displays THEN w2lKey ELSE Keyboards!Table(filled)
          /\ IF "GetKey" \in displays \/ opened
               THEN /\ displays' = displays \cup {"GetKey"}
                    /\ kbRead' = Keyboards!Answer(<<k>>, LAMBDA key : Keyboards!InKeymap(w2lKey'[key]))
               ELSE /\ kbRead' = Keyboards!Answer(<<k>>, LAMBDA key : Keyboards!Unwritten)
                    /\ UNCHANGED displays
    BY <1>7 DEF Keyboards!LinuxGetKey
  <2>2. kbPlatform = "linux" /\ UNCHANGED <<kbPlatform, down, since>>
    BY <1>7 DEF Keyboards!LinuxGetKey
  <2>3. /\ w2lKey' \in [Keyboards!ReadKeys -> Nat]
        /\ \A key \in Keyboards!ReadKeys : w2lKey'[key] \in {0, Keyboards!Symbol(key)}
    BY <1>0, <2>1, <2>2, KeyCodes DEF Keyboards!TypeOK, CodesOfKeys, Keyboards!Table
  <2>4. k \in Keyboards!ReadKeys /\ k \in Nat /\ <<k>> \in Seq(Keyboards!ReadKeys) /\ DOMAIN <<k>> = {1} /\ <<k>>[1] = k
        /\ Len(<<k>>) = 1
    BY KeyCodes DEF Keyboards!ReadKeys, Keyboards!KeyboardAssumption
  <2>5. PICK state \in [DOMAIN <<k>> -> {0, 1, Keyboards!Unwritten}] :
          /\ kbRead' = [keys |-> <<k>>, state |-> state,
                        pressed |-> [j \in DOMAIN <<k>> |-> Keyboards!Bit(<<k>>[j] \in down \cup since)]]
          /\ \/ state[1] = Keyboards!Bit(w2lKey'[k] \in down)
             \/ state[1] = Keyboards!Unwritten /\ "GetKey" \notin displays'
    <3>1. CASE "GetKey" \in displays \/ opened
      <4> DEFINE codes == [j \in DOMAIN <<k>> |-> Keyboards!Bit(w2lKey'[<<k>>[j]] \in down)]
      <4>1. codes \in [DOMAIN <<k>> -> {0, 1, Keyboards!Unwritten}] /\ codes[1] = Keyboards!Bit(w2lKey'[k] \in down)
        BY <2>4 DEF Keyboards!Bit
      <4>2. kbRead' = [keys |-> <<k>>, state |-> codes,
                       pressed |-> [j \in DOMAIN <<k>> |-> Keyboards!Bit(<<k>>[j] \in down \cup since)]]
        BY <2>1, <3>1 DEF Keyboards!Answer, Keyboards!InKeymap
      <4>3. QED
        BY <4>1, <4>2
    <3>2. CASE ~("GetKey" \in displays \/ opened)
      <4> DEFINE none == [j \in DOMAIN <<k>> |-> Keyboards!Unwritten]
      <4>1. none \in [DOMAIN <<k>> -> {0, 1, Keyboards!Unwritten}] /\ none[1] = Keyboards!Unwritten
        BY <2>4
      <4>2. kbRead' = [keys |-> <<k>>, state |-> none,
                       pressed |-> [j \in DOMAIN <<k>> |-> Keyboards!Bit(<<k>>[j] \in down \cup since)]]
        BY <2>1, <3>2 DEF Keyboards!Answer
      <4>3. QED
        BY <2>1, <3>2, <4>1, <4>2
    <3>3. QED
      BY <3>1, <3>2
  <2>6. /\ kbRead' \in [keys : Seq(Keyboards!ReadKeys), state : Seq({0, 1, Keyboards!Unwritten}), pressed : Seq({0, 1})]
        /\ ReadComplete'
    BY <1>0, <2>4, <2>5, AnswerOK
  <2>7. Keyboards!TypeOK'
    <3>1. displays' \subseteq {"GetKey", "GetData"}
      BY <1>0, <2>1 DEF Keyboards!TypeOK
    <3>2. QED
      BY <1>0, <2>2, <2>3, <2>6, <3>1 DEF Keyboards!TypeOK
  <2>8. Keyboards!KeysAreShown'
    <3>1. /\ kbRead'.keys = <<k>> /\ kbRead'.state[1] = state[1]
          /\ kbRead'.pressed[1] = Keyboards!Bit(k \in down)
      BY <1>0, <2>2, <2>4, <2>5 DEF CodesOfKeys
    <3>2. k \notin 116 .. 123 => w2lKey'[k] \in {0, k}
      BY <2>3, <2>4, KeyCodes
    <3>3. 0 \notin down
      BY <1>0, KeyCodes DEF Keyboards!TypeOK
    <3>4. ASSUME k \notin 116 .. 123
          PROVE  /\ state[1] = 1 => k \in down
                 /\ "GetKey" \in displays' /\ w2lKey'[k] # 0 /\ k \in down => state[1] = 1
      BY <2>5, <3>2, <3>3, <3>4 DEF Keyboards!Bit, Keyboards!Unwritten
    <3>5. kbPlatform' = "linux"
      BY <2>2
    <3>6. QED
      BY <2>4, <3>1, <3>4, <3>5 DEF Keyboards!KeysAreShown, Keyboards!Misplaced, Keyboards!Bit
  <2>9. QED
    BY <1>0, <2>2, <2>3, <2>6, <2>7, <2>8 DEF KeyboardIInv, CodesOfKeys
<1>8. CASE Keyboards!LinuxGetData
  <2>1. kbPlatform = "linux" /\ UNCHANGED <<kbPlatform, down, since, w2lKey>>
    BY <1>8 DEF Keyboards!LinuxGetData
  <2> DEFINE truth == [j \in DOMAIN Keyboards!DataKeys |-> Keyboards!Bit(Keyboards!DataKeys[j] \in down \cup since)]
             answered == [j \in DOMAIN Keyboards!DataKeys |-> Keyboards!Bit(Keyboards!DataKeys[j] \in down)]
             none == [j \in DOMAIN Keyboards!DataKeys |-> 0]
  <2>2. /\ displays' \in {displays, displays \cup {"GetData"}}
        /\ \/ kbRead' = [keys |-> Keyboards!DataKeys, state |-> answered, pressed |-> truth]
           \/ /\ kbRead' = [keys |-> Keyboards!DataKeys, state |-> none, pressed |-> truth]
              /\ "GetData" \notin displays'
    BY <1>8 DEF Keyboards!LinuxGetData, Keyboards!Answer, Keyboards!InKeymap
  <2>3. answered \in [DOMAIN Keyboards!DataKeys -> {0, 1, Keyboards!Unwritten}] /\ none \in [DOMAIN Keyboards!DataKeys -> {0, 1, Keyboards!Unwritten}]
    BY DEF Keyboards!Bit
  <2>4. /\ kbRead' \in [keys : Seq(Keyboards!ReadKeys), state : Seq({0, 1, Keyboards!Unwritten}), pressed : Seq({0, 1})]
        /\ ReadComplete'
    BY <1>0, <1>4, <2>2, <2>3, AnswerOK
  <2>5. answered = truth
    BY <1>0, <2>1 DEF CodesOfKeys
  <2>6. Keyboards!KeysAreShown'
    <3>1. kbRead'.keys = Keyboards!DataKeys /\ Len(kbRead'.keys) = 10
      BY <1>4, <2>2
    <3>2. CASE kbRead' = [keys |-> Keyboards!DataKeys, state |-> answered, pressed |-> truth]
      BY <2>5, <3>2 DEF Keyboards!KeysAreShown
    <3>3. CASE /\ kbRead' = [keys |-> Keyboards!DataKeys, state |-> none, pressed |-> truth]
               /\ "GetData" \notin displays'
      BY <2>1, <3>1, <3>3 DEF Keyboards!KeysAreShown
    <3>4. QED
      BY <2>2, <3>2, <3>3
  <2>7. QED
    BY <1>0, <2>1, <2>2, <2>4, <2>6 DEF KeyboardIInv, Keyboards!TypeOK, CodesOfKeys
<1>9. CASE UNCHANGED Keyboards!vars
  BY <1>0, <1>9
  DEF Keyboards!vars, KeyboardIInv, Keyboards!TypeOK, CodesOfKeys, ReadComplete,
      Keyboards!KeysAreShown, Keyboards!Misplaced
<1>10. QED
  BY <1>1, <1>5, <1>6, <1>7, <1>8, <1>9 DEF Keyboards!Next

\* A step of the drivers is one of this driver, or leaves it alone.
LEMMA KeyboardSteps == ASSUME [DevicesNext]_DeviceVars PROVE [Keyboards!Next]_Keyboards!vars
  BY DEF DevicesNext, OthersRest, DeviceVars, KeyboardVars, Keyboards!vars

\* In every state of the drivers its invariant holds.
LEMMA KeyboardInvariance == DevicesSpec => []KeyboardIInv
<1>1. DevicesInit => KeyboardIInv
  BY InitKeyboardIInv, DevicesAssumption DEF DevicesAssumption, DevicesInit
<1>2. KeyboardIInv /\ [DevicesNext]_DeviceVars => KeyboardIInv'
  <2> SUFFICES ASSUME KeyboardIInv, [DevicesNext]_DeviceVars PROVE KeyboardIInv'
    OBVIOUS
  <2>1. [Keyboards!Next]_Keyboards!vars
    BY KeyboardSteps
  <2>2. QED
    BY <2>1, KeyboardIInvStep, DevicesAssumption DEF DevicesAssumption
<1>3. QED
  BY <1>1, <1>2, PTL DEF DevicesSpec

----------------------------------------------------------------------------
(* The joystick (Joystick) *)

WaitingEvents == [type : {"axis", "button"}, init : BOOLEAN, number : Nat, value : Joysticks!Positions]

\* The axes and buttons are numbered from 0, and the object has as many of them as the
\* joystick.
AsMany ==
  \E a \in Nat, b \in Nat :
    /\ DOMAIN stick.axes = 0 .. a - 1 /\ DOMAIN stick.buttons = 0 .. b - 1
    /\ joyPlatform = "linux" /\ joySim \in {"run", "drain", "returned"} =>
         /\ js.axes \in [0 .. a - 1 -> Joysticks!Positions] /\ js.buttons \in [0 .. b - 1 -> Joysticks!Positions]
         /\ js = [axes |-> js.axes, buttons |-> js.buttons]

JoystickIInv ==
  /\ Joysticks!TypeOK /\ joyUnread \in Seq(WaitingEvents) /\ AsMany /\ Joysticks!EventsAddUp
  /\ joySim = "drain" => joyPlatform = "linux"

\* The cardinality that the joystick's module counts with is the one of the library's facts.
LEMMA JoysticksCardinality == \A S : Joysticks!Cardinality(S) = Cardinality(S)
  BY DEF Joysticks!Cardinality, Cardinality

\* There are as many numbers from 0 to below n.
LEMMA Numbered == ASSUME NEW size \in Nat PROVE Cardinality(0 .. size - 1) = size
<1>1. Cardinality(0 .. size - 1) = IF 0 > size - 1 THEN 0 ELSE size - 1 - 0 + 1
  BY FS_Interval
<1>2. QED
  BY <1>1

\* The invariant holds in the initial states.
LEMMA InitJoystickIInv == ASSUME Joysticks!JoystickAssumption, Joysticks!Init PROVE JoystickIInv
<1>1. PICK a \in AxisNumbers, b \in ButtonNumbers :
        stick = [axes |-> [j \in 0 .. a - 1 |-> 0], buttons |-> [j \in 0 .. b - 1 |-> 0]]
  BY DEF Joysticks!Init
<1>2. a \in Nat /\ b \in Nat
  BY DEF Joysticks!JoystickAssumption
<1>3. stick \in [axes : [0 .. a - 1 -> Joysticks!Positions], buttons : [0 .. b - 1 -> Joysticks!Positions]]
  BY <1>1 DEF Joysticks!Positions
<1>4. AsMany
  BY <1>1, <1>2 DEF AsMany, Joysticks!Init
<1>5. out \in Joysticks!Results(Joysticks!Positions \cup {Joysticks!Undefined})
  BY DEF Joysticks!Init, Joysticks!Results
<1>6. Joysticks!TypeOK
  <2>1. js.axes = <<>> /\ js.buttons = <<>> /\ DOMAIN <<>> = {} /\ DOMAIN joyUnread = {}
    BY DEF Joysticks!Init, Joysticks!Nothing
  <2>2. events \in 0 .. MaxEvents
    BY DEF Joysticks!Init, Joysticks!JoystickAssumption
  <2>3. QED
    BY <1>3, <1>5, <2>1, <2>2 DEF Joysticks!Init, Joysticks!TypeOK
<1>7. QED
  BY <1>4, <1>6 DEF Joysticks!Init, JoystickIInv, Joysticks!EventsAddUp, Joysticks!Nothing

\* Every step keeps the invariant.
LEMMA JoystickIInvStep ==
  ASSUME Joysticks!JoystickAssumption, JoystickIInv, [Joysticks!Next]_Joysticks!vars
  PROVE  JoystickIInv'
<1>0. /\ Joysticks!TypeOK /\ joyUnread \in Seq(WaitingEvents) /\ AsMany /\ Joysticks!EventsAddUp
      /\ joySim = "drain" => joyPlatform = "linux"
  BY DEF JoystickIInv
<1>1. PICK a \in AxisNumbers, b \in ButtonNumbers :
        stick \in [axes : [0 .. a - 1 -> Joysticks!Positions], buttons : [0 .. b - 1 -> Joysticks!Positions]]
  BY <1>0 DEF Joysticks!TypeOK
<1>2. /\ a \in Nat /\ b \in Nat
      /\ DOMAIN stick.axes = 0 .. a - 1 /\ DOMAIN stick.buttons = 0 .. b - 1
  BY <1>1 DEF Joysticks!JoystickAssumption
<1> DEFINE open == joyPlatform = "linux" /\ joySim \in {"run", "drain", "returned"}
<1>3. open => /\ js.axes \in [0 .. a - 1 -> Joysticks!Positions] /\ js.buttons \in [0 .. b - 1 -> Joysticks!Positions]
              /\ js = [axes |-> js.axes, buttons |-> js.buttons]
  BY <1>0, <1>2 DEF AsMany
<1>4. ASSUME NEW type \in {"axis", "button"}, NEW number \in Nat, Joysticks!Move(type, number),
             number \in IF type = "axis" THEN DOMAIN stick.axes ELSE DOMAIN stick.buttons
      PROVE  JoystickIInv'
  <2> DEFINE goes == 1 - IF type = "axis" THEN stick.axes[number] ELSE stick.buttons[number]
             e == Joysticks!Event(type, FALSE, number, goes)
  <2>1. /\ events < MaxEvents /\ events' = events + 1
        /\ stick' = IF type = "axis" THEN [stick EXCEPT !.axes[number] = goes]
                                     ELSE [stick EXCEPT !.buttons[number] = goes]
        /\ joyUnread' = IF open THEN Append(joyUnread, e) ELSE joyUnread
        /\ UNCHANGED <<joyPlatform, js, joySim, out>>
    BY <1>4 DEF Joysticks!Move
  <2>2. goes \in Joysticks!Positions
    BY <1>1, <1>2, <1>4 DEF Joysticks!Positions
  <2>3. e \in WaitingEvents
    BY <1>4, <2>2 DEF Joysticks!Event, WaitingEvents
  <2>4. e.type = type /\ e.number = number /\ e.value = goes
    BY DEF Joysticks!Event
  <2> HIDE DEF goes, e
  <2>5. /\ stick' \in [axes : [0 .. a - 1 -> Joysticks!Positions], buttons : [0 .. b - 1 -> Joysticks!Positions]]
        /\ stick'.axes = IF type = "axis" THEN [stick.axes EXCEPT ![number] = goes] ELSE stick.axes
        /\ stick'.buttons = IF type = "axis" THEN stick.buttons
                                             ELSE [stick.buttons EXCEPT ![number] = goes]
    BY <1>1, <1>4, <2>1, <2>2
  <2>6. DOMAIN stick'.axes = 0 .. a - 1 /\ DOMAIN stick'.buttons = 0 .. b - 1
    BY <2>5
  <2>7. joyUnread' \in Seq(WaitingEvents)
    BY <1>0, <2>1, <2>3
  <2>8. Joysticks!TypeOK'
    <3>1. events' \in 0 .. MaxEvents
      BY SMTT(30), <1>0, <2>1 DEF Joysticks!TypeOK, Joysticks!JoystickAssumption
    <3>2. \A k \in DOMAIN joyUnread' : joyUnread'[k] \in WaitingEvents
      BY <2>7
    <3>3. DOMAIN js'.axes \subseteq DOMAIN stick'.axes /\ DOMAIN js'.buttons \subseteq DOMAIN stick'.buttons
      BY <1>0, <1>2, <2>1, <2>6 DEF Joysticks!TypeOK
    <3>4. QED
      BY <1>0, <2>1, <2>5, <3>1, <3>2, <3>3 DEF Joysticks!TypeOK, WaitingEvents
  <2>9. AsMany'
    BY <1>2, <1>3, <2>1, <2>6 DEF AsMany
  <2>10. Joysticks!EventsAddUp'
    <3> SUFFICES ASSUME open PROVE Joysticks!EventsAddUp'
      BY <2>1 DEF Joysticks!EventsAddUp
    <3>1. /\ joyUnread' = Append(joyUnread, e) /\ DOMAIN joyUnread' = 1 .. Len(joyUnread) + 1
          /\ DOMAIN joyUnread = 1 .. Len(joyUnread) /\ Len(joyUnread) \in Nat
          /\ joyUnread'[Len(joyUnread) + 1] = e /\ \A k \in 1 .. Len(joyUnread) : joyUnread'[k] = joyUnread[k]
      BY <1>0, <2>1, <2>3
    <3>2. ASSUME NEW t, NEW m, NEW known, NEW now, NEW was,
                 Joysticks!AddsUp(t, m, known, was), now = IF t = type /\ m = number THEN goes ELSE was
          PROVE  Joysticks!AddsUp(t, m, known, now)'
      <4> DEFINE about == {k \in DOMAIN joyUnread : joyUnread[k].type = t /\ joyUnread[k].number = m}
                 next == {k \in DOMAIN joyUnread' : joyUnread'[k].type = t /\ joyUnread'[k].number = m}
      <4>1. CASE t = type /\ m = number
        <5>1. Len(joyUnread) + 1 \in next /\ \A k \in next : k <= Len(joyUnread) + 1
          BY <2>4, <3>1, <4>1
        <5>2. QED
          BY <2>4, <3>1, <3>2, <4>1, <5>1 DEF Joysticks!AddsUp
      <4>2. CASE ~(t = type /\ m = number)
        <5>1. next = about /\ \A k \in about : joyUnread'[k] = joyUnread[k]
          BY <2>4, <3>1, <4>2
        <5>2. QED
          BY <3>2, <4>2, <5>1 DEF Joysticks!AddsUp
      <4>3. QED
        BY <4>1, <4>2
    <3>3. ASSUME NEW m \in 0 .. a - 1 PROVE Joysticks!AddsUp("axis", m, js.axes[m], stick.axes[m])'
      <4>1. Joysticks!AddsUp("axis", m, js.axes[m], stick.axes[m])
        BY <1>0, <1>2 DEF Joysticks!EventsAddUp
      <4>2. stick'.axes[m] = IF "axis" = type /\ m = number THEN goes ELSE stick.axes[m]
        BY <1>1, <1>2, <1>4, <2>5
      <4>3. QED
        BY <2>1, <3>2, <4>1, <4>2
    <3>4. ASSUME NEW m \in 0 .. b - 1 PROVE Joysticks!AddsUp("button", m, js.buttons[m], stick.buttons[m])'
      <4>1. Joysticks!AddsUp("button", m, js.buttons[m], stick.buttons[m])
        BY <1>0, <1>2 DEF Joysticks!EventsAddUp
      <4>2. stick'.buttons[m] = IF "button" = type /\ m = number THEN goes ELSE stick.buttons[m]
        BY <1>1, <1>2, <1>4, <2>5
      <4>3. QED
        BY <2>1, <3>2, <4>1, <4>2
    <3>5. joySim' = "returned" => Joysticks!Outputs(js)'
      BY <1>0, <2>1 DEF Joysticks!EventsAddUp, Joysticks!Outputs
    <3>6. QED
      BY <2>6, <3>3, <3>4, <3>5 DEF Joysticks!EventsAddUp
  <2>11. QED
    BY <1>0, <2>1, <2>7, <2>8, <2>9, <2>10 DEF JoystickIInv
<1>5. CASE Joysticks!Construct
  <2>1. CASE joyPlatform = "linux"
    <3>1. /\ joyUnread' = Joysticks!InitialEvents
          /\ js' = [axes |-> [k \in DOMAIN stick.axes |-> 0], buttons |-> [k \in DOMAIN stick.buttons |-> 0]]
          /\ joySim' = "run" /\ UNCHANGED <<joyPlatform, stick, events, out>>
      BY <1>5, <2>1 DEF Joysticks!Construct
    <3>2. /\ js'.axes \in [0 .. a - 1 -> Joysticks!Positions] /\ js'.buttons \in [0 .. b - 1 -> Joysticks!Positions]
          /\ js' = [axes |-> js'.axes, buttons |-> js'.buttons]
      BY <1>2, <3>1 DEF Joysticks!Positions
    <3> DEFINE axes == [k \in 1 .. a |-> Joysticks!Event("axis", TRUE, k - 1, stick.axes[k - 1])]
               buttons == [k \in 1 .. b |-> Joysticks!Event("button", TRUE, k - 1, stick.buttons[k - 1])]
    <3>3. Cardinality(0 .. a - 1) = a /\ Cardinality(0 .. b - 1) = b
      BY <1>2, Numbered
    <3>4. joyUnread' = axes \o buttons
      BY <1>2, <3>1, <3>3, JoysticksCardinality DEF Joysticks!InitialEvents
    <3>5. /\ \A k \in 1 .. a : k - 1 \in 0 .. a - 1 /\ stick.axes[k - 1] \in Joysticks!Positions
          /\ \A k \in 1 .. b : k - 1 \in 0 .. b - 1 /\ stick.buttons[k - 1] \in Joysticks!Positions
      BY <1>1, <1>2
    <3>6. axes \in [1 .. a -> WaitingEvents] /\ buttons \in [1 .. b -> WaitingEvents]
      BY <1>2, <3>5 DEF Joysticks!Event, WaitingEvents
    <3>7. /\ \A k \in 1 .. a : axes[k].type = "axis" /\ axes[k].number = k - 1 /\ axes[k].value = stick.axes[k - 1]
          /\ \A k \in 1 .. b : /\ buttons[k].type = "button" /\ buttons[k].number = k - 1
                               /\ buttons[k].value = stick.buttons[k - 1]
      BY DEF Joysticks!Event
    <3> HIDE DEF axes, buttons
    <3>8. /\ axes \in Seq(WaitingEvents) /\ Len(axes) = a
          /\ buttons \in Seq(WaitingEvents) /\ Len(buttons) = b
      BY <1>2, <3>6
    <3>9. /\ joyUnread' \in Seq(WaitingEvents) /\ DOMAIN joyUnread' = 1 .. a + b
          /\ \A k \in 1 .. a : joyUnread'[k] = axes[k]
          /\ \A k \in a + 1 .. a + b : joyUnread'[k] = buttons[k - a]
      <4>1. joyUnread' \in Seq(WaitingEvents) /\ Len(joyUnread') = a + b
        BY <3>4, <3>8, ConcatProperties
      <4>2. /\ \A k \in 1 .. a : joyUnread'[k] = axes[k]
            /\ \A k \in a + 1 .. a + b : joyUnread'[k] = buttons[k - a]
        BY <1>2, <3>4, <3>8, ConcatProperties
      <4>3. DOMAIN joyUnread' = 1 .. a + b
        BY <4>1
      <4>4. QED
        BY <4>1, <4>2, <4>3
    <3>10. Joysticks!TypeOK'
      <4>1. \A k \in DOMAIN joyUnread' : joyUnread'[k] \in WaitingEvents
        <5>1. \A q \in Seq(WaitingEvents) : \A k \in DOMAIN q : q[k] \in WaitingEvents
          OBVIOUS
        <5>2. QED
          BY <3>9, <5>1
      <4>2. stick' \in [axes : [0 .. a - 1 -> Joysticks!Positions], buttons : [0 .. b - 1 -> Joysticks!Positions]]
        BY <1>1, <3>1
      <4>3. DOMAIN js'.axes = DOMAIN stick'.axes /\ DOMAIN js'.buttons = DOMAIN stick'.buttons
        BY <3>1
      <4>4. QED
        BY <1>0, <3>1, <4>1, <4>2, <4>3 DEF Joysticks!TypeOK, WaitingEvents
    <3>11. AsMany'
      BY <1>2, <3>1, <3>2 DEF AsMany
    <3>12. ASSUME NEW m \in 0 .. a - 1 PROVE Joysticks!AddsUp("axis", m, js.axes[m], stick.axes[m])'
      <4> DEFINE next == {k \in DOMAIN joyUnread' : joyUnread'[k].type = "axis" /\ joyUnread'[k].number = m}
      <4>1. m + 1 \in 1 .. a /\ m + 1 \in 1 .. a + b
        BY <1>2
      <4>2. m + 1 \in next /\ joyUnread'[m + 1].value = stick.axes[m]
        BY <3>7, <3>9, <4>1
      <4>3. ASSUME NEW k \in next PROVE k <= m + 1
        <5>1. CASE k \in 1 .. a
          BY <3>7, <3>9, <5>1
        <5>2. CASE k \in a + 1 .. a + b
          <6>1. k - a \in 1 .. b
            BY <1>2, <5>2
          <6>2. QED
            BY <3>7, <3>9, <5>2, <6>1
        <5>3. QED
          BY <1>2, <3>9, <5>1, <5>2
      <4>4. QED
        BY <3>1, <4>2, <4>3 DEF Joysticks!AddsUp
    <3>13. ASSUME NEW m \in 0 .. b - 1 PROVE Joysticks!AddsUp("button", m, js.buttons[m], stick.buttons[m])'
      <4> DEFINE next == {k \in DOMAIN joyUnread' : joyUnread'[k].type = "button" /\ joyUnread'[k].number = m}
      <4>1. m + 1 \in 1 .. b /\ a + m + 1 \in a + 1 .. a + b /\ a + m + 1 \in 1 .. a + b
            /\ a + m + 1 - a = m + 1
        BY <1>2
      <4>2. a + m + 1 \in next /\ joyUnread'[a + m + 1].value = stick.buttons[m]
        <5>1. joyUnread'[a + m + 1] = buttons[m + 1]
          <6>1. PICK k \in a + 1 .. a + b : k = a + m + 1
            BY <4>1
          <6>2. k - a = m + 1
            BY <1>2, <6>1
          <6>3. joyUnread'[k] = buttons[m + 1]
            BY <3>9, <6>2
          <6>4. QED
            BY <6>1, <6>3
        <5>2. buttons[m + 1].type = "button" /\ buttons[m + 1].number = m
              /\ buttons[m + 1].value = stick.buttons[m]
          <6>1. PICK k \in 1 .. b : k = m + 1 /\ k - 1 = m
            BY <1>2, <4>1
          <6>2. buttons[k].type = "button" /\ buttons[k].number = k - 1 /\ buttons[k].value = stick.buttons[k - 1]
            BY <3>7
          <6>3. QED
            BY <6>1, <6>2
        <5>3. QED
          BY <3>9, <4>1, <5>1, <5>2
      <4>3. ASSUME NEW k \in next PROVE k <= a + m + 1
        <5>1. CASE k \in 1 .. a
          BY <3>7, <3>9, <5>1
        <5>2. CASE k \in a + 1 .. a + b
          <6>1. k - a \in 1 .. b
            BY <1>2, <5>2
          <6>2. k - a - 1 = m
            BY <3>7, <3>9, <5>2, <6>1
          <6>3. QED
            BY <1>2, <5>2, <6>2
        <5>3. QED
          BY <1>2, <3>9, <5>1, <5>2
      <4>4. QED
        BY <3>1, <4>2, <4>3 DEF Joysticks!AddsUp
    <3>14. Joysticks!EventsAddUp'
      BY <1>2, <3>1, <3>12, <3>13 DEF Joysticks!EventsAddUp
    <3>15. QED
      BY <3>1, <3>9, <3>10, <3>11, <3>14 DEF JoystickIInv
  <2>2. CASE joyPlatform # "linux"
    BY <1>0, <1>5, <2>2
    DEF Joysticks!Construct, JoystickIInv, Joysticks!TypeOK, AsMany, Joysticks!EventsAddUp
  <2>3. QED
    BY <2>1, <2>2
<1>6. CASE Joysticks!ConstructFails \/ Joysticks!DrainFails \/ Joysticks!Destroy
  <2>1. /\ joySim' \in {"error", "destroyed"} /\ js' \in {js, Joysticks!Nothing}
        /\ UNCHANGED <<joyPlatform, stick, joyUnread, events, out>>
    BY <1>6 DEF Joysticks!ConstructFails, Joysticks!DrainFails, Joysticks!Destroy
  <2>2. DOMAIN Joysticks!Nothing.axes = {} /\ DOMAIN Joysticks!Nothing.buttons = {}
    BY DEF Joysticks!Nothing
  <2>3. Joysticks!TypeOK'
    BY <1>0, <2>1, <2>2 DEF Joysticks!TypeOK
  <2>4. AsMany'
    BY <1>2, <2>1 DEF AsMany
  <2>5. QED
    BY <1>0, <2>1, <2>3, <2>4 DEF JoystickIInv, Joysticks!EventsAddUp
<1>7. CASE Joysticks!GetData
  <2>1. open /\ joySim' = "drain" /\ UNCHANGED <<joyPlatform, stick, joyUnread, events, js, out>>
    BY <1>7 DEF Joysticks!GetData
  <2>2. Joysticks!TypeOK'
    BY <1>0, <2>1 DEF Joysticks!TypeOK
  <2>3. AsMany'
    BY <1>2, <1>3, <2>1 DEF AsMany
  <2>4. Joysticks!EventsAddUp'
    BY <1>0, <2>1 DEF Joysticks!EventsAddUp, Joysticks!AddsUp
  <2>5. QED
    BY <1>0, <2>1, <2>2, <2>3, <2>4 DEF JoystickIInv
<1>8. CASE Joysticks!ReadEvent
  <2>1. /\ open => js' = Joysticks!Apply(js, Head(joyUnread))
        /\ js' = Joysticks!Apply(js, Head(joyUnread))
        /\ joyUnread # <<>> /\ joyUnread' = Tail(joyUnread) /\ joySim = "drain"
        /\ UNCHANGED <<joyPlatform, stick, events, joySim, out>>
    BY <1>8 DEF Joysticks!ReadEvent
  <2>2. /\ Head(joyUnread) = joyUnread[1] /\ joyUnread[1] \in WaitingEvents /\ joyUnread' \in Seq(WaitingEvents)
        /\ DOMAIN joyUnread = 1 .. Len(joyUnread) /\ Len(joyUnread) \in Nat \ {0}
        /\ DOMAIN joyUnread' = 1 .. Len(joyUnread) - 1
        /\ \A k \in 1 .. Len(joyUnread) - 1 : joyUnread'[k] = joyUnread[k + 1]
    BY <1>0, <2>1
  <2>3. DOMAIN js'.axes = DOMAIN js.axes /\ DOMAIN js'.buttons = DOMAIN js.buttons
    BY <2>1 DEF Joysticks!Apply
  <2>4. Joysticks!TypeOK'
    <3>1. \A k \in DOMAIN joyUnread' : joyUnread'[k] \in WaitingEvents
      BY <2>2
    <3>2. QED
      BY <1>0, <2>1, <2>3, <3>1 DEF Joysticks!TypeOK, WaitingEvents
  <2>5. CASE joyPlatform = "linux"
    <3> DEFINE e == joyUnread[1]
    <3>1. open
      BY <2>1, <2>5
    <3>2. e.type \in {"axis", "button"} /\ e.number \in Nat /\ e.value \in Joysticks!Positions
      BY <2>2 DEF WaitingEvents
    <3>3. /\ js'.axes = IF e.type = "axis" THEN [js.axes EXCEPT ![e.number] = e.value] ELSE js.axes
          /\ js'.buttons = IF e.type = "axis" THEN js.buttons ELSE [js.buttons EXCEPT ![e.number] = e.value]
          /\ js' = [axes |-> js'.axes, buttons |-> js'.buttons]
      BY <1>3, <2>1, <2>2, <3>1 DEF Joysticks!Apply
    <3>4. js'.axes \in [0 .. a - 1 -> Joysticks!Positions] /\ js'.buttons \in [0 .. b - 1 -> Joysticks!Positions]
      BY <1>3, <3>1, <3>2, <3>3
    <3>5. AsMany'
      BY <1>2, <2>1, <3>3, <3>4 DEF AsMany
    <3>6. ASSUME NEW t, NEW m, NEW known, NEW knows, NEW now,
                 Joysticks!AddsUp(t, m, known, now),
                 knows = IF t = e.type /\ m = e.number THEN e.value ELSE known
          PROVE  Joysticks!AddsUp(t, m, knows, now)'
      <4> DEFINE about == {k \in DOMAIN joyUnread : joyUnread[k].type = t /\ joyUnread[k].number = m}
                 next == {k \in DOMAIN joyUnread' : joyUnread'[k].type = t /\ joyUnread'[k].number = m}
      <4>1. \A k \in next : k + 1 \in about
        BY <2>2
      <4>2. \A k \in about : k # 1 => k - 1 \in next /\ joyUnread'[k - 1].value = joyUnread[k].value
        BY <2>2
      <4>3. 1 \in about <=> t = e.type /\ m = e.number
        BY <2>2
      <4> HIDE DEF next
      <4>4. CASE about = {}
        <5>1. next = {} /\ knows = now
          BY <3>6, <4>1, <4>3, <4>4 DEF Joysticks!AddsUp
        <5>2. QED
          BY <5>1 DEF Joysticks!AddsUp, next
      <4>5. CASE about # {}
        <5>1. PICK k \in about : now = joyUnread[k].value /\ \A j \in about : j <= k
          BY <3>6, <4>5 DEF Joysticks!AddsUp
        <5>2. CASE k = 1
          <6>1. next = {}
            BY <2>2, <4>1, <5>1, <5>2 DEF next
          <6>2. knows = now
            BY <3>6, <4>3, <5>1, <5>2
          <6>3. QED
            BY <6>1, <6>2 DEF Joysticks!AddsUp, next
        <5>3. CASE k # 1
          <6>1. k - 1 \in next /\ joyUnread'[k - 1].value = now
            BY <4>2, <5>1, <5>3
          <6>2. \A j \in next : j <= k - 1
            BY <2>2, <4>1, <5>1 DEF next
          <6>3. QED
            BY <6>1, <6>2 DEF Joysticks!AddsUp, next
        <5>4. QED
          BY <5>2, <5>3
      <4>6. QED
        BY <4>4, <4>5
    <3>7. ASSUME NEW m \in 0 .. a - 1 PROVE Joysticks!AddsUp("axis", m, js.axes[m], stick.axes[m])'
      <4>1. Joysticks!AddsUp("axis", m, js.axes[m], stick.axes[m])
        BY <1>0, <1>2, <3>1 DEF Joysticks!EventsAddUp
      <4>2. js'.axes[m] = IF "axis" = e.type /\ m = e.number THEN e.value ELSE js.axes[m]
        BY <1>3, <3>1, <3>3
      <4>3. QED
        BY <2>1, <3>6, <4>1, <4>2
    <3>8. ASSUME NEW m \in 0 .. b - 1 PROVE Joysticks!AddsUp("button", m, js.buttons[m], stick.buttons[m])'
      <4>1. Joysticks!AddsUp("button", m, js.buttons[m], stick.buttons[m])
        BY <1>0, <1>2, <3>1 DEF Joysticks!EventsAddUp
      <4>2. js'.buttons[m] = IF "button" = e.type /\ m = e.number THEN e.value ELSE js.buttons[m]
        BY <1>3, <3>1, <3>2, <3>3
      <4>3. QED
        BY <2>1, <3>6, <4>1, <4>2
    <3>9. Joysticks!EventsAddUp'
      BY <1>2, <2>1, <3>7, <3>8 DEF Joysticks!EventsAddUp
    <3>10. QED
      BY <2>1, <2>2, <2>4, <2>5, <3>5, <3>9 DEF JoystickIInv
  <2>6. CASE joyPlatform # "linux"
    BY <1>2, <2>1, <2>2, <2>4, <2>6 DEF JoystickIInv, AsMany, Joysticks!EventsAddUp
  <2>7. QED
    BY <2>5, <2>6
<1>9. CASE Joysticks!Drained
  <2> DEFINE nAxis == Joysticks!Cardinality(DOMAIN js.axes)
             axis(k) == CASE nAxis > k -> js.axes[k]
                          [] nAxis = k -> Joysticks!Undefined
                          [] nAxis < k -> 0
             axes == [k \in 0 .. OutAxes - 1 |-> axis(k)]
             buttons == [k \in 0 .. OutButtons - 1 |-> IF k \in DOMAIN js.buttons THEN js.buttons[k] ELSE 0]
  <2>1. /\ out' = [axes |-> axes, buttons |-> buttons] /\ joySim = "drain" /\ joySim' = "returned"
        /\ UNCHANGED <<joyPlatform, stick, joyUnread, events, js>>
    BY <1>9 DEF Joysticks!Drained
  <2>2. CASE joyPlatform = "linux"
    <3>1. open
      BY <2>1, <2>2
    <3>2. DOMAIN js.axes = 0 .. a - 1 /\ nAxis = a
      <4>1. DOMAIN js.axes = 0 .. a - 1
        BY <1>3, <3>1
      <4>2. QED
        BY <1>2, <4>1, Numbered, JoysticksCardinality
    <3>3. /\ axes \in [0 .. OutAxes - 1 -> Joysticks!Positions \cup {Joysticks!Undefined}]
          /\ \A k \in 0 .. OutAxes - 1 : /\ k \in 0 .. a - 1 => axes[k] = js.axes[k]
                                         /\ k > a => axes[k] = 0
      <4>1. ASSUME NEW k \in 0 .. OutAxes - 1
            PROVE  /\ axis(k) \in Joysticks!Positions \cup {Joysticks!Undefined}
                   /\ k \in 0 .. a - 1 => axis(k) = js.axes[k]
                   /\ k > a => axis(k) = 0
        <5>1. k \in Nat
          BY DEF Joysticks!JoystickAssumption
        <5>2. /\ k < a => axis(k) = js.axes[k]
              /\ k = a => axis(k) = Joysticks!Undefined
              /\ k > a => axis(k) = 0
          BY <1>2, <3>2, <5>1
        <5> HIDE DEF axis, nAxis
        <5>3. k < a => k \in 0 .. a - 1 /\ js.axes[k] \in Joysticks!Positions
          BY <1>2, <1>3, <3>1, <5>1
        <5>4. k \in 0 .. a - 1 => k < a
          BY <1>2, <5>1
        <5>5. k < a \/ k = a \/ k > a
          BY <1>2, <5>1
        <5>6. QED
          BY <5>2, <5>3, <5>4, <5>5 DEF Joysticks!Positions
      <4> HIDE DEF axis
      <4>2. QED
        BY <4>1
    <3>4. buttons \in [0 .. OutButtons - 1 -> Joysticks!Positions \cup {Joysticks!Undefined}]
      BY <1>3, <3>1 DEF Joysticks!Positions
    <3> HIDE DEF axis, axes, nAxis
    <3>5. /\ out'.axes = axes /\ out'.buttons = buttons
          /\ out' \in Joysticks!Results(Joysticks!Positions \cup {Joysticks!Undefined})
      BY <2>1, <3>3, <3>4 DEF Joysticks!Results
    <3>6. Joysticks!TypeOK'
      BY <1>0, <2>1, <3>5 DEF Joysticks!TypeOK
    <3>7. AsMany'
      BY <1>2, <1>3, <2>1, <3>1 DEF AsMany
    <3>8. Joysticks!Outputs(js)'
      <4>1. DOMAIN out'.axes = 0 .. OutAxes - 1 /\ DOMAIN out'.buttons = 0 .. OutButtons - 1
        BY <3>3, <3>5
      <4>2. Cardinality(DOMAIN js'.axes) = a /\ DOMAIN js'.axes = 0 .. a - 1
        BY <2>1, <3>2, JoysticksCardinality DEF nAxis
      <4>3. QED
        BY <2>1, <3>3, <3>5, <4>1, <4>2, JoysticksCardinality DEF Joysticks!Outputs
    <3>9. Joysticks!EventsAddUp'
      BY <1>0, <2>1, <3>1, <3>8 DEF Joysticks!EventsAddUp, Joysticks!AddsUp
    <3>10. QED
      BY <1>0, <2>1, <3>6, <3>7, <3>9 DEF JoystickIInv
  <2>3. QED
    BY <1>0, <2>1, <2>2
<1>10. CASE Joysticks!WindowsGetData
  <2> DEFINE axes == [k \in 0 .. OutAxes - 1 |-> IF k \in DOMAIN stick.axes THEN stick.axes[k] ELSE 0]
             buttons == [k \in 0 .. OutButtons - 1 |->
                           IF k \in DOMAIN stick.buttons THEN stick.buttons[k] ELSE 0]
  <2>1. /\ out' = [axes |-> axes, buttons |-> buttons] /\ joyPlatform = "windows" /\ joySim' = "returned"
        /\ UNCHANGED <<joyPlatform, stick, joyUnread, events, js>>
    BY <1>10 DEF Joysticks!WindowsGetData
  <2>2. /\ axes \in [0 .. OutAxes - 1 -> Joysticks!Positions \cup {Joysticks!Undefined}]
        /\ buttons \in [0 .. OutButtons - 1 -> Joysticks!Positions \cup {Joysticks!Undefined}]
    BY <1>1, <1>2 DEF Joysticks!Positions
  <2> HIDE DEF axes, buttons
  <2>3. out' \in Joysticks!Results(Joysticks!Positions \cup {Joysticks!Undefined})
    BY <2>1, <2>2 DEF Joysticks!Results
  <2>4. Joysticks!TypeOK'
    BY <1>0, <2>1, <2>3 DEF Joysticks!TypeOK
  <2>5. QED
    BY <1>0, <1>2, <2>1, <2>4 DEF JoystickIInv, AsMany, Joysticks!EventsAddUp
<1>11. CASE Joysticks!Ended \/ UNCHANGED Joysticks!vars
  <2>1. UNCHANGED Joysticks!vars
    BY <1>11 DEF Joysticks!Ended
  <2>2. Joysticks!TypeOK' /\ AsMany'
    BY <1>0, <2>1 DEF Joysticks!vars, Joysticks!TypeOK, AsMany
  <2>3. Joysticks!EventsAddUp'
    BY <1>0, <2>1 DEF Joysticks!vars, Joysticks!EventsAddUp, Joysticks!AddsUp, Joysticks!Outputs
  <2>4. QED
    BY <1>0, <2>1, <2>2, <2>3 DEF Joysticks!vars, JoystickIInv
<1>12. QED
  <2>1. ASSUME NEW k \in DOMAIN stick.axes, Joysticks!Move("axis", k) PROVE JoystickIInv'
    BY <1>2, <1>4, <2>1
  <2>2. ASSUME NEW k \in DOMAIN stick.buttons, Joysticks!Move("button", k) PROVE JoystickIInv'
    BY <1>2, <1>4, <2>2
  <2>3. QED
    BY <1>5, <1>6, <1>7, <1>8, <1>9, <1>10, <1>11, <2>1, <2>2 DEF Joysticks!Next

\* A step of the drivers is one of this driver, or leaves it alone.
LEMMA JoystickSteps == ASSUME [DevicesNext]_DeviceVars PROVE [Joysticks!Next]_Joysticks!vars
  BY DEF DevicesNext, OthersRest, DeviceVars, JoystickVars, Joysticks!vars

\* In every state of the drivers its invariant holds.
LEMMA JoystickInvariance == DevicesSpec => []JoystickIInv
<1>1. DevicesInit => JoystickIInv
  BY InitJoystickIInv, DevicesAssumption DEF DevicesAssumption, DevicesInit
<1>2. JoystickIInv /\ [DevicesNext]_DeviceVars => JoystickIInv'
  <2> SUFFICES ASSUME JoystickIInv, [DevicesNext]_DeviceVars PROVE JoystickIInv'
    OBVIOUS
  <2>1. [Joysticks!Next]_Joysticks!vars
    BY JoystickSteps
  <2>2. QED
    BY <2>1, JoystickIInvStep, DevicesAssumption DEF DevicesAssumption
<1>3. QED
  BY <1>1, <1>2, PTL DEF DevicesSpec

----------------------------------------------------------------------------
(* The space mouse (SpaceMouse) *)

\* The kinds of reports of a system, with their values.
Reported ==
  IF smPlatform = "windows"
    THEN [kind : Mouse!Halves, value : Mouse!Number] \cup [kind : {"buttons"}, value : ButtonSets]
    ELSE [kind : {"motion"}, value : Mouse!Number] \cup [kind : {"press", "release"}, value : LinuxButtons]

MouseTyped ==
  /\ mouse = [translation |-> mouse.translation, rotation |-> mouse.rotation, buttons |-> mouse.buttons]
  /\ IF smPlatform = "windows" THEN mouse.buttons \in ButtonSets \cup {{}}
                               ELSE mouse.buttons \subseteq Nat
  /\ smUnread \in Seq(Reported)
  /\ smCopy = [translation |-> smCopy.translation, rotation |-> smCopy.rotation, buttons |-> smCopy.buttons]

\* No report of the kinds waits; the latest of those that wait is of the value now.
Silent(told, kinds) == \A k \in DOMAIN told : told[k].kind \notin kinds
Latest(told, kinds, now) ==
  \E k \in DOMAIN told :
    /\ told[k].kind \in kinds /\ told[k].value = now
    /\ \A j \in DOMAIN told : told[j].kind \in kinds => j <= k

\* The reports that wait, or else the thread, know the parts whose reports were not missed.
HalvesFollow ==
  \A h \in Mouse!Halves \ missed :
    \/ Silent(smUnread, {h, "motion"}) /\ allDOFs[h] = mouse[h]
    \/ Latest(smUnread, {h, "motion"}, mouse[h])

WindowsButtonsFollow ==
  smPlatform = "windows" /\ "buttons" \notin missed =>
    \/ Silent(smUnread, {"buttons"}) /\ smButtons = Mouse!Decoded(mouse.buttons)
    \/ Latest(smUnread, {"buttons"}, mouse.buttons)

\* What the queue says last of button b makes of the buttons held those held now.
Presses(told, k, b) == told[k].kind \in {"press", "release"} /\ told[k].value = b + 1
Says(told, b, held, now) ==
  LET about == {k \in DOMAIN told : Presses(told, k, b)}
  IN  IF about = {} THEN b \in held <=> b \in now
      ELSE \E k \in about : /\ \A j \in about : j <= k
                            /\ b \in now <=> told[k].kind = "press"

LinuxButtonsFollow ==
  smPlatform = "linux" /\ "buttons" \notin missed /\ smSim # "error" =>
    \A b \in Nat : Says(smUnread, b, smButtons, mouse.buttons)

\* What the thread knows it has written, or writes next; on Windows once both halves came.
AxesFollow ==
  /\ smPlatform = "linux" \/ smRx \in Mouse!Halves => smGot = {}
  /\ smRx \notin Mouse!Halves => \A h \in Mouse!Halves \ smGot : smAxes[h] = allDOFs[h]
  /\ smRx = "rotation" => smAxes["translation"] = allDOFs["translation"]

\* While all is settled a read copies what the thread has written.
CopyFollows ==
  settled =>
    /\ smRx = "wait" /\ smUnread = <<>>
    /\ smSim \in {"rotation", "buttons", "idle"} => smCopy.translation = smAxes["translation"]
    /\ smSim \in {"buttons", "idle"} => smCopy.rotation = smAxes["rotation"]
    /\ smSim = "idle" => smCopy.buttons = smButtons

MouseIInv ==
  /\ Mouse!TypeOK /\ MouseTyped /\ HalvesFollow /\ WindowsButtonsFollow /\ LinuxButtonsFollow
  /\ AxesFollow /\ CopyFollows

\* The quotient and the rest of a number that is written as its last bit and the others
LEMMA Halved ==
  ASSUME NEW m \in Nat, NEW c \in 0 .. 1, NEW j \in Nat, j = c + 2 * m
  PROVE  j \div 2 = m /\ j % 2 = c
  OBVIOUS

\* The buttons of a report come out as they are when no byte of it has bit 7.
LEMMA DecodedButtons ==
  ASSUME NEW held \in SUBSET (0 .. 23), \A b \in held : b % 8 # 7
  PROVE  Mouse!Decoded(held) = held \cap 0 .. Mouse!MDD_N_BUTTONS - 1
<1> DEFINE x(b) == IF b \in held THEN 1 ELSE 0
           iButton == Mouse!Byte(held, 0) + 2 ^ 8 * Mouse!Byte(held, 1) + 2 ^ 16 * Mouse!Byte(held, 2)
<1>1. x(7) = 0 /\ x(15) = 0 /\ x(23) = 0
  OBVIOUS
<1>2. /\ Mouse!Byte(held, 0) = x(0) + 2 * x(1) + 4 * x(2) + 8 * x(3)
                                   + 16 * x(4) + 32 * x(5) + 64 * x(6)
      /\ Mouse!Byte(held, 1) = x(8) + 2 * x(9) + 4 * x(10) + 8 * x(11)
                                   + 16 * x(12) + 32 * x(13) + 64 * x(14)
      /\ Mouse!Byte(held, 2) = x(16) + 2 * x(17) + 4 * x(18) + 8 * x(19)
                                   + 16 * x(20) + 32 * x(21) + 64 * x(22)
  <2>1. 8 * 0 + 7 \notin held /\ 8 * 1 + 7 \notin held /\ 8 * 2 + 7 \notin held
    OBVIOUS
  <2>2. QED
    BY <2>1 DEF Mouse!Byte
<1>3. \A b : x(b) \in 0 .. 1 /\ (x(b) = 1 <=> b \in held)
  OBVIOUS

<1> DEFINE i16 == x(16) + 2 * x(17) + 4 * x(18) + 8 * x(19) + 16 * x(20) + 32 * x(21) + 64 * x(22)
           i15 == x(15) + 2 * i16
           i14 == x(14) + 2 * i15
           i13 == x(13) + 2 * i14
           i12 == x(12) + 2 * i13
           i11 == x(11) + 2 * i12
           i10 == x(10) + 2 * i11
           i9 == x(9) + 2 * i10
           i8 == x(8) + 2 * i9
           i7 == x(7) + 2 * i8
           i6 == x(6) + 2 * i7
           i5 == x(5) + 2 * i6
           i4 == x(4) + 2 * i5
           i3 == x(3) + 2 * i4
           i2 == x(2) + 2 * i3
           i1 == x(1) + 2 * i2
           i0 == x(0) + 2 * i1
<1> HIDE DEF x
<1>4. iButton = i0
  <2>1. x(0) \in Int /\ x(1) \in Int /\ x(2) \in Int /\ x(3) \in Int /\ x(4) \in Int /\ x(5) \in Int /\ x(6) \in Int /\ x(7) \in Int
        /\ x(8) \in Int /\ x(9) \in Int /\ x(10) \in Int /\ x(11) \in Int /\ x(12) \in Int /\ x(13) \in Int /\ x(14) \in Int /\ x(15) \in Int
        /\ x(16) \in Int /\ x(17) \in Int /\ x(18) \in Int /\ x(19) \in Int /\ x(20) \in Int /\ x(21) \in Int /\ x(22) \in Int
    BY <1>3
  <2>2. i16 = Mouse!Byte(held, 2) /\ i16 \in Int
    BY <1>2, <2>1
  <2> HIDE DEF i16
  <2>3. i12 = x(12) + 2 * x(13) + 4 * x(14) + 16 * Mouse!Byte(held, 2) /\ i12 \in Int
    BY <1>1, <2>1, <2>2
  <2> HIDE DEF i12
  <2>4. i8 = x(8) + 2 * x(9) + 4 * x(10) + 8 * x(11) + 16 * i12 /\ i8 \in Int
    BY <2>1, <2>3
  <2> HIDE DEF i8
  <2>5. Mouse!Byte(held, 2) \in Int
    BY <2>2
  <2>6. i8 = Mouse!Byte(held, 1) + 256 * Mouse!Byte(held, 2)
    BY <1>2, <2>1, <2>3, <2>4, <2>5
  <2>7. i4 = x(4) + 2 * x(5) + 4 * x(6) + 16 * i8 /\ i4 \in Int
    BY <1>1, <2>1, <2>4
  <2> HIDE DEF i4
  <2>8. i0 = Mouse!Byte(held, 0) + 256 * i8 /\ Mouse!Byte(held, 0) \in Int
    BY <1>2, <2>1, <2>4, <2>7
  <2> HIDE DEF i0
  <2>9. Mouse!Byte(held, 1) \in Int /\ Mouse!Byte(held, 2) \in Int
    BY <1>2, <2>1
  <2>10. QED
    BY <2>6, <2>8, <2>9
<1>5. i16 \in Nat
  BY <1>3
<1> HIDE DEF i16
<1>6. i15 \in Nat /\ i15 \div 2 = i16 /\ i15 % 2 = x(15)
  BY <1>3, <1>5, Halved
<1> HIDE DEF i15
<1>7. i14 \in Nat /\ i14 \div 2 = i15 /\ i14 % 2 = x(14)
  BY <1>3, <1>6, Halved
<1> HIDE DEF i14
<1>8. i13 \in Nat /\ i13 \div 2 = i14 /\ i13 % 2 = x(13)
  BY <1>3, <1>7, Halved
<1> HIDE DEF i13
<1>9. i12 \in Nat /\ i12 \div 2 = i13 /\ i12 % 2 = x(12)
  BY <1>3, <1>8, Halved
<1> HIDE DEF i12
<1>10. i11 \in Nat /\ i11 \div 2 = i12 /\ i11 % 2 = x(11)
  BY <1>3, <1>9, Halved
<1> HIDE DEF i11
<1>11. i10 \in Nat /\ i10 \div 2 = i11 /\ i10 % 2 = x(10)
  BY <1>3, <1>10, Halved
<1> HIDE DEF i10
<1>12. i9 \in Nat /\ i9 \div 2 = i10 /\ i9 % 2 = x(9)
  BY <1>3, <1>11, Halved
<1> HIDE DEF i9
<1>13. i8 \in Nat /\ i8 \div 2 = i9 /\ i8 % 2 = x(8)
  BY <1>3, <1>12, Halved
<1> HIDE DEF i8
<1>14. i7 \in Nat /\ i7 \div 2 = i8 /\ i7 % 2 = x(7)
  BY <1>3, <1>13, Halved
<1> HIDE DEF i7
<1>15. i6 \in Nat /\ i6 \div 2 = i7 /\ i6 % 2 = x(6)
  BY <1>3, <1>14, Halved
<1> HIDE DEF i6
<1>16. i5 \in Nat /\ i5 \div 2 = i6 /\ i5 % 2 = x(5)
  BY <1>3, <1>15, Halved
<1> HIDE DEF i5
<1>17. i4 \in Nat /\ i4 \div 2 = i5 /\ i4 % 2 = x(4)
  BY <1>3, <1>16, Halved
<1> HIDE DEF i4
<1>18. i3 \in Nat /\ i3 \div 2 = i4 /\ i3 % 2 = x(3)
  BY <1>3, <1>17, Halved
<1> HIDE DEF i3
<1>19. i2 \in Nat /\ i2 \div 2 = i3 /\ i2 % 2 = x(2)
  BY <1>3, <1>18, Halved
<1> HIDE DEF i2
<1>20. i1 \in Nat /\ i1 \div 2 = i2 /\ i1 % 2 = x(1)
  BY <1>3, <1>19, Halved
<1> HIDE DEF i1
<1>21. i0 \in Nat /\ i0 \div 2 = i1 /\ i0 % 2 = x(0)
  BY <1>3, <1>20, Halved
<1> HIDE DEF i0
<1>22. i0 \div 2 ^ 0 = i0 /\ (i0 \div 2 ^ 0) % 2 = x(0)
  BY <1>21
<1>23. i0 \div 2 ^ 1 = i1 /\ (i0 \div 2 ^ 1) % 2 = x(1)
  <2>1. i0 \div 2 ^ 1 = (i0 \div 2 ^ 0) \div 2
    BY <1>21
  <2>2. QED
    BY <1>20, <1>21, <1>22, <2>1
<1>24. i0 \div 2 ^ 2 = i2 /\ (i0 \div 2 ^ 2) % 2 = x(2)
  <2>1. i0 \div 2 ^ 2 = (i0 \div 2 ^ 1) \div 2
    BY <1>21
  <2>2. QED
    BY <1>19, <1>20, <1>23, <2>1
<1>25. i0 \div 2 ^ 3 = i3 /\ (i0 \div 2 ^ 3) % 2 = x(3)
  <2>1. i0 \div 2 ^ 3 = (i0 \div 2 ^ 2) \div 2
    BY <1>21
  <2>2. QED
    BY <1>18, <1>19, <1>24, <2>1
<1>26. i0 \div 2 ^ 4 = i4 /\ (i0 \div 2 ^ 4) % 2 = x(4)
  <2>1. i0 \div 2 ^ 4 = (i0 \div 2 ^ 3) \div 2
    BY <1>21
  <2>2. QED
    BY <1>17, <1>18, <1>25, <2>1
<1>27. i0 \div 2 ^ 5 = i5 /\ (i0 \div 2 ^ 5) % 2 = x(5)
  <2>1. i0 \div 2 ^ 5 = (i0 \div 2 ^ 4) \div 2
    BY <1>21
  <2>2. QED
    BY <1>16, <1>17, <1>26, <2>1
<1>28. i0 \div 2 ^ 6 = i6 /\ (i0 \div 2 ^ 6) % 2 = x(6)
  <2>1. i0 \div 2 ^ 6 = (i0 \div 2 ^ 5) \div 2
    BY <1>21
  <2>2. QED
    BY <1>15, <1>16, <1>27, <2>1
<1>29. i0 \div 2 ^ 7 = i7 /\ (i0 \div 2 ^ 7) % 2 = x(7)
  <2>1. i0 \div 2 ^ 7 = (i0 \div 2 ^ 6) \div 2
    BY <1>21
  <2>2. QED
    BY <1>14, <1>15, <1>28, <2>1
<1>30. i0 \div 2 ^ 8 = i8 /\ (i0 \div 2 ^ 8) % 2 = x(8)
  <2>1. i0 \div 2 ^ 8 = (i0 \div 2 ^ 7) \div 2
    BY <1>21
  <2>2. QED
    BY <1>13, <1>14, <1>29, <2>1
<1>31. i0 \div 2 ^ 9 = i9 /\ (i0 \div 2 ^ 9) % 2 = x(9)
  <2>1. i0 \div 2 ^ 9 = (i0 \div 2 ^ 8) \div 2
    BY <1>21
  <2>2. QED
    BY <1>12, <1>13, <1>30, <2>1
<1>32. i0 \div 2 ^ 10 = i10 /\ (i0 \div 2 ^ 10) % 2 = x(10)
  <2>1. i0 \div 2 ^ 10 = (i0 \div 2 ^ 9) \div 2
    BY <1>21
  <2>2. QED
    BY <1>11, <1>12, <1>31, <2>1
<1>33. i0 \div 2 ^ 11 = i11 /\ (i0 \div 2 ^ 11) % 2 = x(11)
  <2>1. i0 \div 2 ^ 11 = (i0 \div 2 ^ 10) \div 2
    BY <1>21
  <2>2. QED
    BY <1>10, <1>11, <1>32, <2>1
<1>34. i0 \div 2 ^ 12 = i12 /\ (i0 \div 2 ^ 12) % 2 = x(12)
  <2>1. i0 \div 2 ^ 12 = (i0 \div 2 ^ 11) \div 2
    BY <1>21
  <2>2. QED
    BY <1>9, <1>10, <1>33, <2>1
<1>35. i0 \div 2 ^ 13 = i13 /\ (i0 \div 2 ^ 13) % 2 = x(13)
  <2>1. i0 \div 2 ^ 13 = (i0 \div 2 ^ 12) \div 2
    BY <1>21
  <2>2. QED
    BY <1>8, <1>9, <1>34, <2>1
<1>36. i0 \div 2 ^ 14 = i14 /\ (i0 \div 2 ^ 14) % 2 = x(14)
  <2>1. i0 \div 2 ^ 14 = (i0 \div 2 ^ 13) \div 2
    BY <1>21
  <2>2. QED
    BY <1>7, <1>8, <1>35, <2>1
<1>37. i0 \div 2 ^ 15 = i15 /\ (i0 \div 2 ^ 15) % 2 = x(15)
  <2>1. i0 \div 2 ^ 15 = (i0 \div 2 ^ 14) \div 2
    BY <1>21
  <2>2. QED
    BY <1>6, <1>7, <1>36, <2>1
<1>38. \A b \in 0 .. 15 : (iButton \div 2 ^ b) % 2 = x(b)
  <2> SUFFICES ASSUME NEW b \in 0 .. 15 PROVE (i0 \div 2 ^ b) % 2 = x(b)
    BY <1>4
  <2>1. \/ b = 0 \/ b = 1 \/ b = 2 \/ b = 3 \/ b = 4 \/ b = 5 \/ b = 6 \/ b = 7
        \/ b = 8 \/ b = 9 \/ b = 10 \/ b = 11 \/ b = 12 \/ b = 13 \/ b = 14 \/ b = 15
    OBVIOUS
  <2>2. QED
    BY <2>1, <1>22, <1>23, <1>24, <1>25, <1>26, <1>27, <1>28, <1>29, <1>30, <1>31, <1>32, <1>33,
       <1>34, <1>35, <1>36, <1>37
<1>39. Mouse!Decoded(held) = {b \in 0 .. 15 : (iButton \div 2 ^ b) % 2 = 1}
  BY DEF Mouse!Decoded, Mouse!MDD_N_BUTTONS, iButton
<1>40. \A b \in 0 .. 15 : (iButton \div 2 ^ b) % 2 = 1 <=> b \in held
  BY <1>3, <1>38
<1> HIDE DEF iButton
<1>41. Mouse!Decoded(held) = held \cap 0 .. 15
  BY <1>39, <1>40
<1>42. Mouse!MDD_N_BUTTONS - 1 = 15
  BY DEF Mouse!MDD_N_BUTTONS
<1>43. QED
  BY <1>41, <1>42

\* Some numbers have a least one.
LEMMA LeastNumber ==
  ASSUME NEW T, T \subseteq Nat, T # {}
  PROVE  \E least \in T : \A k \in T : least <= k
<1>1. PICK least \in T : \A k \in T : <<k, least>> \notin OpToRel(<, Nat)
  BY NatLessThanWellFounded, WFMin
<1>2. \A k \in T : ~(k < least)
  BY <1>1 DEF OpToRel
<1>3. QED
  BY <1>2

\* A set with 0, and with every number the next, has all numbers.
LEMMA Induction ==
  ASSUME NEW S, 0 \in S, \A k \in Nat : k \in S => k + 1 \in S
  PROVE  \A k \in Nat : k \in S
<1> SUFFICES ASSUME NEW j \in Nat, j \notin S PROVE FALSE
  OBVIOUS
<1>1. PICK least \in Nat \ S : \A k \in Nat \ S : least <= k
  BY LeastNumber
<1>2. least - 1 \in Nat /\ least - 1 < least
  BY <1>1
<1>3. least - 1 \in S
  BY <1>1, <1>2
<1>4. QED
  BY <1>1, <1>2, <1>3

\* NoMotion by its rounds.
LEMMA Rounds ==
  ASSUME NEW R, NEW trace \in Seq(R)
  PROVE  \E rest : /\ Mouse!NoMotion(trace) = rest[Len(trace)] /\ rest[0] = <<>>
                   /\ \A k \in 1 .. Len(trace) :
                        rest[k] = IF trace[k].kind = "motion" THEN rest[k - 1]
                                                              ELSE Append(rest[k - 1], trace[k])
<1> DEFINE Round(g, k) == IF k = 0 THEN <<>>
                          ELSE IF trace[k].kind = "motion" THEN g[k - 1] ELSE Append(g[k - 1], trace[k])
           S == {m \in Nat : \E g : g = [k \in 0 .. m |-> Round(g, k)]}
<1>1. 0 \in S
  <2> DEFINE g == [k \in {0} |-> <<>>]
  <2>1. g = [k \in 0 .. 0 |-> Round(g, k)]
    OBVIOUS
  <2>2. QED
    BY <2>1
<1>2. ASSUME NEW m \in Nat, m \in S PROVE m + 1 \in S
  <2>1. PICK g : g = [k \in 0 .. m |-> Round(g, k)]
    BY <1>2
  <2> DEFINE h == [k \in 0 .. m + 1 |-> IF k = m + 1 THEN Round(g, k) ELSE g[k]]
  <2>2. \A k \in 0 .. m : h[k] = g[k]
    OBVIOUS
  <2>3. ASSUME NEW k \in 0 .. m + 1 PROVE h[k] = Round(h, k)
    <3>1. h[k] = Round(g, k)
      <4>1. CASE k = m + 1
        BY <4>1
      <4>2. CASE k # m + 1
        <5>1. k \in 0 .. m
          BY <4>2
        <5> HIDE DEF Round
        <5>2. g[k] = Round(g, k)
          BY <2>1, <5>1
        <5>3. QED
          BY <2>2, <5>1, <5>2
      <4>3. QED
        BY <4>1, <4>2
    <3>2. k # 0 => k - 1 \in 0 .. m
      OBVIOUS
    <3> HIDE DEF h
    <3>3. QED
      BY <2>2, <3>1, <3>2
  <2>4. h = [k \in 0 .. m + 1 |-> h[k]]
    OBVIOUS
  <2> HIDE DEF h, Round
  <2>5. h = [k \in 0 .. m + 1 |-> Round(h, k)]
    BY <2>3, <2>4
  <2>6. QED
    BY <2>5
<1> DEFINE rest == CHOOSE g : g = [k \in 0 .. Len(trace) |-> Round(g, k)]
<1>3. Mouse!NoMotion(trace) = rest[Len(trace)]
  BY DEF Mouse!NoMotion
<1>4. rest = [k \in 0 .. Len(trace) |-> Round(rest, k)]
  <2>1. Len(trace) \in S
    <3> HIDE DEF S
    <3>1. QED
      BY <1>1, <1>2, Induction
  <2> HIDE DEF Round
  <2>2. \E g : g = [k \in 0 .. Len(trace) |-> Round(g, k)]
    BY <2>1
  <2>3. QED
    BY <2>2
<1>5. \A k \in 0 .. Len(trace) : rest[k] = Round(rest, k)
  <2> HIDE DEF Round, rest
  <2>1. QED
    BY <1>4
<1>6. 0 \in 0 .. Len(trace) /\ \A k \in 1 .. Len(trace) : k \in 0 .. Len(trace) /\ k # 0
  OBVIOUS
<1> HIDE DEF rest
<1>7. QED
  BY <1>3, <1>5, <1>6

\* NoMotion leaves no motion, and of each button what the queue says of it last.
LEMMA NoMotionKeeps ==
  ASSUME NEW R, NEW trace \in Seq(R)
  PROVE  /\ Mouse!NoMotion(trace) \in Seq(R) /\ Len(Mouse!NoMotion(trace)) <= Len(trace)
         /\ \A k \in DOMAIN Mouse!NoMotion(trace) : Mouse!NoMotion(trace)[k].kind # "motion"
         /\ \A b, held, now : Says(trace, b, held, now) => Says(Mouse!NoMotion(trace), b, held, now)
<1>1. PICK rest : /\ Mouse!NoMotion(trace) = rest[Len(trace)] /\ rest[0] = <<>>
                  /\ \A k \in 1 .. Len(trace) :
                       rest[k] = IF trace[k].kind = "motion" THEN rest[k - 1]
                                                             ELSE Append(rest[k - 1], trace[k])
  BY Rounds
<1> DEFINE Told(k, b, held, now) ==
             LET about == {j \in 1 .. k : Presses(trace, j, b)}
             IN  IF about = {} THEN b \in held <=> b \in now
                 ELSE \E j \in about : (\A m \in about : m <= j) /\ (b \in now <=> trace[j].kind = "press")
           Kept(k) ==
             /\ rest[k] \in Seq(R) /\ Len(rest[k]) <= k
             /\ \A j \in DOMAIN rest[k] : rest[k][j].kind # "motion"
             /\ \A b, held, now : Told(k, b, held, now) => Says(rest[k], b, held, now)
           S == {k \in Nat : k <= Len(trace) => Kept(k)}
<1>2. Kept(0)
  BY <1>1 DEF Says
<1>3. ASSUME NEW k \in Nat, k + 1 <= Len(trace), Kept(k) PROVE Kept(k + 1)
  <2>1. /\ k + 1 \in 1 .. Len(trace) /\ trace[k + 1] \in R
        /\ rest[k + 1] = IF trace[k + 1].kind = "motion" THEN rest[k] ELSE Append(rest[k], trace[k + 1])
    BY SMTT(30), <1>1, <1>3
  <2>2. CASE trace[k + 1].kind = "motion"
    <3>1. ASSUME NEW b, NEW held, NEW now, Told(k + 1, b, held, now) PROVE Told(k, b, held, now)
      <4>1. {j \in 1 .. k + 1 : Presses(trace, j, b)} = {j \in 1 .. k : Presses(trace, j, b)}
        BY <2>2 DEF Presses
      <4>2. QED
        BY <3>1, <4>1
    <3> HIDE DEF Told
    <3>2. QED
      BY <1>3, <2>1, <2>2, <3>1
  <2>3. CASE trace[k + 1].kind # "motion"
    <3> DEFINE q == rest[k]
               last == trace[k + 1]
    <3>1. rest[k + 1] = Append(q, last) /\ q \in Seq(R) /\ last \in R /\ Len(q) \in Nat /\ Len(q) <= k
      BY <1>3, <2>1, <2>3
    <3> HIDE DEF q, last
    <3>2. /\ rest[k + 1] \in Seq(R) /\ DOMAIN rest[k + 1] = 1 .. Len(q) + 1 /\ Len(rest[k + 1]) = Len(q) + 1
          /\ rest[k + 1][Len(q) + 1] = last /\ \A j \in 1 .. Len(q) : rest[k + 1][j] = q[j]
          /\ DOMAIN q = 1 .. Len(q)
      BY <3>1
    <3>3. \A j \in DOMAIN rest[k + 1] : rest[k + 1][j].kind # "motion"
      <4>1. \A j \in 1 .. Len(q) : q[j].kind # "motion"
        BY <1>3, <3>2 DEF q
      <4>2. QED
        BY <2>3, <3>1, <3>2, <4>1 DEF last
    <3>4. ASSUME NEW b, NEW held, NEW now, Told(k + 1, b, held, now)
          PROVE  Says(rest[k + 1], b, held, now)
      <4> DEFINE about == {j \in 1 .. k + 1 : Presses(trace, j, b)}
                 next == {j \in DOMAIN rest[k + 1] : Presses(rest[k + 1], j, b)}
      <4>1. CASE Presses(trace, k + 1, b)
        <5>1. b \in now <=> last.kind = "press"
          BY <3>4, <4>1 DEF last
        <5>2. Len(q) + 1 \in next /\ \A j \in next : j <= Len(q) + 1
          BY <3>1, <3>2, <4>1 DEF Presses, last
        <5>3. QED
          BY <3>2, <5>1, <5>2 DEF Says
      <4>2. CASE ~Presses(trace, k + 1, b)
        <5>1. about = {j \in 1 .. k : Presses(trace, j, b)}
          BY <4>2
        <5>2. Told(k, b, held, now)
          BY <3>4, <5>1
        <5>3. Says(q, b, held, now)
          BY <1>3, <5>2 DEF q
        <5>4. next = {j \in DOMAIN q : Presses(q, j, b)}
          BY <3>1, <3>2, <4>2 DEF Presses, last
        <5>5. \A j \in next : rest[k + 1][j] = q[j]
          BY <3>2, <5>4
        <5>6. QED
          BY <5>3, <5>4, <5>5 DEF Says
      <4>3. QED
        BY <4>1, <4>2
    <3> HIDE DEF Told
    <3>5. Len(q) + 1 <= k + 1
      BY <3>1
    <3>6. QED
      BY <3>2, <3>3, <3>4, <3>5
  <2>4. QED
    BY <2>2, <2>3
<1>4. Kept(Len(trace))
  <2> HIDE DEF Kept
  <2>1. 0 \in S /\ \A k \in Nat : k \in S => k + 1 \in S
    BY <1>2, <1>3
  <2> HIDE DEF S
  <2>2. Len(trace) \in Nat /\ Len(trace) \in S
    BY <2>1, Induction
  <2>3. QED
    BY <2>2 DEF S
<1>5. ASSUME NEW b, NEW held, NEW now, Says(trace, b, held, now) PROVE Told(Len(trace), b, held, now)
  BY <1>5 DEF Says
<1> HIDE DEF Told
<1>6. QED
  BY <1>1, <1>4, <1>5

\* What taking the first report away does to what the queue says.
LEMMA TakeReport ==
  ASSUME NEW R, NEW trace \in Seq(R), trace # <<>>
  PROVE  /\ \A kinds : Silent(trace, kinds) => Silent(Tail(trace), kinds)
         /\ \A kinds, now : Latest(trace, kinds, now) =>
              \/ Latest(Tail(trace), kinds, now)
              \/ Silent(Tail(trace), kinds) /\ Head(trace).kind \in kinds /\ Head(trace).value = now
         /\ \A b, held, now, then :
              /\ Says(trace, b, held, now)
              /\ IF Presses(trace, 1, b) THEN b \in then <=> Head(trace).kind = "press"
                                         ELSE b \in then <=> b \in held
              => Says(Tail(trace), b, then, now)
<1>1. /\ Head(trace) = trace[1] /\ Len(trace) \in Nat \ {0} /\ DOMAIN trace = 1 .. Len(trace)
      /\ DOMAIN Tail(trace) = 1 .. Len(trace) - 1
      /\ \A k \in 1 .. Len(trace) - 1 : Tail(trace)[k] = trace[k + 1]
  OBVIOUS
<1> DEFINE q == Tail(trace)
<1> HIDE DEF q
<1>2. /\ DOMAIN q = 1 .. Len(trace) - 1 /\ \A k \in 1 .. Len(trace) - 1 : q[k] = trace[k + 1]
  BY <1>1 DEF q
<1>3. \A k \in DOMAIN q : k + 1 \in DOMAIN trace /\ k + 1 # 1 /\ q[k] = trace[k + 1]
  BY <1>1, <1>2
<1>4. \A k \in DOMAIN trace : k # 1 => k - 1 \in DOMAIN q /\ q[k - 1] = trace[k]
  BY <1>1, <1>2
<1>5. \A k, j \in DOMAIN trace : k <= j => k - 1 <= j - 1
  BY <1>1
<1>6. 1 \in DOMAIN trace /\ DOMAIN trace \subseteq Int /\ \A k \in DOMAIN trace : k >= 1
  BY <1>1
<1>7. ASSUME NEW kinds, Silent(trace, kinds) PROVE Silent(q, kinds)
  BY <1>3, <1>7 DEF Silent
<1>8. ASSUME NEW kinds, NEW now, Latest(trace, kinds, now)
      PROVE  \/ Latest(q, kinds, now)
             \/ Silent(q, kinds) /\ Head(trace).kind \in kinds /\ Head(trace).value = now
  <2>1. PICK k \in DOMAIN trace : /\ trace[k].kind \in kinds /\ trace[k].value = now
                                  /\ \A j \in DOMAIN trace : trace[j].kind \in kinds => j <= k
    BY <1>8 DEF Latest
  <2>2. CASE k = 1
    <3>1. \A j \in DOMAIN q : q[j].kind \notin kinds
      <4> SUFFICES ASSUME NEW j \in DOMAIN q, q[j].kind \in kinds PROVE FALSE
        OBVIOUS
      <4>1. j + 1 <= 1 /\ j + 1 # 1 /\ j + 1 >= 1
        BY <1>3, <1>6, <2>1, <2>2
      <4>2. QED
        BY <1>2, <4>1
    <3>2. QED
      BY <1>1, <2>1, <2>2, <3>1 DEF Silent
  <2>3. CASE k # 1
    <3>1. k - 1 \in DOMAIN q /\ q[k - 1].kind \in kinds /\ q[k - 1].value = now
      BY <1>4, <2>1, <2>3
    <3>2. ASSUME NEW j \in DOMAIN q, q[j].kind \in kinds PROVE j <= k - 1
      <4>1. j + 1 <= k
        BY <1>3, <2>1, <3>2
      <4>2. QED
        BY <1>2, <1>6, <4>1
    <3>3. QED
      BY <3>1, <3>2 DEF Latest
  <2>4. QED
    BY <2>2, <2>3
<1>9. ASSUME NEW b, NEW held, NEW now, NEW then, Says(trace, b, held, now),
             IF Presses(trace, 1, b) THEN b \in then <=> Head(trace).kind = "press"
                                     ELSE b \in then <=> b \in held
      PROVE  Says(q, b, then, now)
  <2> DEFINE about == {k \in DOMAIN trace : Presses(trace, k, b)}
             next == {k \in DOMAIN q : Presses(q, k, b)}
  <2>1. \A k \in next : k + 1 \in about /\ k + 1 # 1
    BY <1>3 DEF Presses
  <2>2. \A k \in about : k # 1 => k - 1 \in next /\ q[k - 1] = trace[k]
    BY <1>4 DEF Presses
  <2>3. 1 \in about <=> Presses(trace, 1, b)
    BY <1>6
  <2>4. next \subseteq Int /\ about \subseteq Int /\ \A k \in about : k >= 1
    BY <1>2, <1>6
  <2>5. next # {} => Says(q, b, then, now) \/ about # {}
    BY <2>1
  <2>6. CASE about = {}
    <3>1. next = {} /\ (b \in held <=> b \in now) /\ (b \in then <=> b \in held)
      BY <1>9, <2>1, <2>3, <2>6 DEF Says
    <3>2. QED
      BY <3>1 DEF Says
  <2>7. CASE about # {}
    <3>1. PICK k \in about : /\ \A j \in about : j <= k
                             /\ b \in now <=> trace[k].kind = "press"
      BY <1>9, <2>7 DEF Says
    <3>2. CASE k = 1
      <4>1. next = {}
        <5> SUFFICES ASSUME NEW j \in next PROVE FALSE
          OBVIOUS
        <5>1. j + 1 <= 1 /\ j + 1 # 1 /\ j + 1 >= 1
          BY <2>1, <2>4, <3>1, <3>2
        <5>2. QED
          BY <2>4, <5>1
      <4>2. b \in then <=> b \in now
        BY <1>1, <1>9, <2>3, <3>1, <3>2
      <4>3. QED
        BY <4>1, <4>2 DEF Says
    <3>3. CASE k # 1
      <4>1. k - 1 \in next /\ (b \in now <=> q[k - 1].kind = "press")
        BY <2>2, <3>1, <3>3
      <4>2. ASSUME NEW j \in next PROVE j <= k - 1
        <5>1. j + 1 <= k
          BY <2>1, <3>1
        <5>2. QED
          BY <2>4, <5>1
      <4> HIDE DEF next
      <4>3. \E m \in next : /\ \A j \in next : j <= m
                            /\ b \in now <=> q[m].kind = "press"
        BY <4>1, <4>2
      <4>4. QED
        BY <4>1, <4>3 DEF Says, next
    <3>4. QED
      BY <3>2, <3>3
  <2>8. QED
    BY <2>6, <2>7
<1>10. QED
  BY <1>7, <1>8, <1>9 DEF q

\* What a report at the end does to what the queue says.
LEMMA AddReport ==
  ASSUME NEW R, NEW trace \in Seq(R), NEW r \in R
  PROVE  /\ \A kinds : r.kind \in kinds => Latest(Append(trace, r), kinds, r.value)
         /\ \A kinds : r.kind \notin kinds /\ Silent(trace, kinds) => Silent(Append(trace, r), kinds)
         /\ \A kinds, now : r.kind \notin kinds /\ Latest(trace, kinds, now) =>
              Latest(Append(trace, r), kinds, now)
         /\ \A b, held, now, then :
              /\ Says(trace, b, held, now)
              /\ IF r.kind \in {"press", "release"} /\ r.value = b + 1
                   THEN b \in then <=> r.kind = "press"
                   ELSE b \in then <=> b \in now
              => Says(Append(trace, r), b, held, then)
<1> DEFINE q == Append(trace, r)
           lines == Len(trace) + 1
<1>1. /\ DOMAIN q = 1 .. lines /\ q[lines] = r /\ DOMAIN trace = 1 .. lines - 1 /\ lines \in Nat \ {0}
      /\ \A k \in 1 .. lines - 1 : q[k] = trace[k]
  OBVIOUS
<1> HIDE DEF q, lines
<1>2. lines \in DOMAIN q /\ \A k \in DOMAIN q : k <= lines
  BY <1>1
<1>3. \A k \in DOMAIN trace : k \in DOMAIN q /\ q[k] = trace[k] /\ k # lines
  BY <1>1
<1>4. \A k \in DOMAIN q : k = lines \/ k \in DOMAIN trace
  BY <1>1
<1>5. ASSUME NEW kinds, r.kind \in kinds PROVE Latest(q, kinds, r.value)
  BY <1>1, <1>2, <1>5 DEF Latest
<1>6. ASSUME NEW kinds, r.kind \notin kinds, Silent(trace, kinds) PROVE Silent(q, kinds)
  BY <1>1, <1>3, <1>4, <1>6 DEF Silent
<1>7. ASSUME NEW kinds, NEW now, r.kind \notin kinds, Latest(trace, kinds, now)
      PROVE  Latest(q, kinds, now)
  <2>1. PICK k \in DOMAIN trace : /\ trace[k].kind \in kinds /\ trace[k].value = now
                                  /\ \A j \in DOMAIN trace : trace[j].kind \in kinds => j <= k
    BY <1>7 DEF Latest
  <2>2. \A j \in DOMAIN q : q[j].kind \in kinds => j \in DOMAIN trace /\ trace[j].kind \in kinds
    BY <1>1, <1>3, <1>4, <1>7
  <2>3. k \in DOMAIN q /\ q[k] = trace[k]
    BY <1>3
  <2>4. QED
    BY <2>1, <2>2, <2>3 DEF Latest
<1>8. ASSUME NEW b, NEW held, NEW now, NEW then, Says(trace, b, held, now),
             IF r.kind \in {"press", "release"} /\ r.value = b + 1
               THEN b \in then <=> r.kind = "press"
               ELSE b \in then <=> b \in now
      PROVE  Says(q, b, held, then)
  <2> DEFINE about == {k \in DOMAIN trace : Presses(trace, k, b)}
             next == {k \in DOMAIN q : Presses(q, k, b)}
  <2>1. CASE Presses(q, lines, b)
    <3>1. lines \in next /\ \A k \in next : k <= lines
      BY <1>2, <2>1
    <3>2. b \in then <=> q[lines].kind = "press"
      BY <1>1, <1>8, <2>1 DEF Presses
    <3>3. QED
      BY <3>1, <3>2 DEF Says
  <2>2. CASE ~Presses(q, lines, b)
    <3>1. next = about
      BY <1>3, <1>4, <2>2 DEF Presses
    <3>2. b \in then <=> b \in now
      BY <1>1, <1>8, <2>2 DEF Presses
    <3>3. \A k \in about : q[k] = trace[k]
      BY <1>3
    <3>4. CASE about = {}
      BY <1>8, <3>1, <3>2, <3>4 DEF Says
    <3>5. CASE about # {}
      <4>1. PICK k \in about : /\ \A j \in about : j <= k
                               /\ b \in now <=> trace[k].kind = "press"
        BY <1>8, <3>5 DEF Says
      <4>2. k \in next /\ (\A j \in next : j <= k) /\ (b \in then <=> q[k].kind = "press")
        BY <3>1, <3>2, <3>3, <4>1
      <4>3. QED
        BY <4>2 DEF Says
    <3>6. QED
      BY <3>4, <3>5
  <2>3. QED
    BY <2>1, <2>2
<1>9. QED
  BY <1>5, <1>6, <1>7, <1>8 DEF q

\* The invariant holds in the initial states.
LEMMA InitMouseIInv == ASSUME Mouse!SpaceMouseAssumption, Mouse!Init PROVE MouseIInv
<1>1. MaxAttached \in Nat /\ MaxReports \in Nat /\ 0 \in Mouse!Number
  BY DEF Mouse!SpaceMouseAssumption, Mouse!Number
<1>2. attached \in Seq({"mouse", "other"}) /\ Len(attached) <= MaxAttached
  <2>1. PICK size \in 0 .. MaxAttached : attached \in [1 .. size -> {"mouse", "other"}]
    BY DEF Mouse!Init
  <2>2. size \in Nat /\ size <= MaxAttached
    BY <1>1
  <2>3. QED
    BY <2>1, <2>2
<1>3. Mouse!TypeOK
  <2>1. /\ DOMAIN mouse = Mouse!Parts /\ mouse.translation \in Mouse!Number /\ mouse.rotation \in Mouse!Number
        /\ DOMAIN smCopy = Mouse!Parts
    BY <1>1 DEF Mouse!Init, Mouse!AtRest, Mouse!Parts
  <2>2. allDOFs \in [Mouse!Halves -> Mouse!Number] /\ smAxes \in [Mouse!Halves -> Mouse!Number]
    BY <1>1 DEF Mouse!Init
  <2>3. Len(smUnread) <= reports /\ reports \in Mouse!Number
    <3>1. Len(smUnread) = 0 /\ reports = 0
      BY DEF Mouse!Init
    <3>2. QED
      BY <1>1, <3>1
  <2>4. /\ smPlatform \in {"windows", "linux"} /\ missed \subseteq Mouse!Parts /\ smGot \subseteq Mouse!Halves
        /\ smRx \in {"none", "start", "wait", "translation", "rotation", "ended", "error"}
        /\ smSim \in {"idle", "translation", "rotation", "buttons", "error"} /\ settled \in BOOLEAN
        /\ smButtons \subseteq 0 .. Mouse!MDD_N_BUTTONS - 1
    BY DEF Mouse!Init
    <2>5. QED
    BY <1>2, <2>1, <2>2, <2>3, <2>4 DEF Mouse!TypeOK
<1>4. MouseTyped
  BY DEF Mouse!Init, MouseTyped, Mouse!AtRest
<1>5. HalvesFollow /\ AxesFollow /\ CopyFollows
  BY DEF Mouse!Init, HalvesFollow, AxesFollow, CopyFollows, Mouse!AtRest, Mouse!Halves, Silent
<1>6. WindowsButtonsFollow
  <2>1. Mouse!Decoded({}) = {}
    <3>1. Mouse!Decoded({}) = {} \cap 0 .. Mouse!MDD_N_BUTTONS - 1
      BY DecodedButtons
    <3>2. QED
      BY <3>1
  <2>2. QED
    BY <2>1 DEF Mouse!Init, WindowsButtonsFollow, Mouse!AtRest, Silent
<1>7. LinuxButtonsFollow
  BY DEF Mouse!Init, LinuxButtonsFollow, Mouse!AtRest, Says
<1>8. QED
  BY <1>3, <1>4, <1>5, <1>6, <1>7 DEF MouseIInv

\* A report keeps the invariant: it changes the parts it is about, and only those.
LEMMA ReportStep ==
  ASSUME Mouse!SpaceMouseAssumption, MouseIInv,
         NEW kind, NEW value, NEW parts \in SUBSET Mouse!Parts, NEW goes, Mouse!Report(kind, value, parts, goes),
         [kind |-> kind, value |-> value] \in Reported,
         goes = [translation |-> goes.translation, rotation |-> goes.rotation, buttons |-> goes.buttons],
         goes.translation \in Mouse!Number, goes.rotation \in Mouse!Number,
         IF smPlatform = "windows" THEN goes.buttons \in ButtonSets \cup {{}}
                                   ELSE goes.buttons \subseteq Nat,
         \A h \in Mouse!Halves : IF kind \in {h, "motion"} THEN h \in parts /\ goes[h] = value
                                                           ELSE h \notin parts /\ goes[h] = mouse[h],
         IF kind \in {"buttons", "press", "release"}
           THEN "buttons" \in parts ELSE "buttons" \notin parts /\ goes.buttons = mouse.buttons,
         kind = "buttons" => goes.buttons = value,
         kind \in {"press", "release"} =>
           \A b \in Nat : b \in goes.buttons <=> IF value = b + 1 THEN kind = "press"
                                                                  ELSE b \in mouse.buttons,
         smPlatform = "windows" => kind \notin {"press", "release"}
  PROVE  MouseIInv'
<1> DEFINE r == [kind |-> kind, value |-> value]
           listens == smRx \in {"wait", "translation", "rotation"}
<1>0. /\ Mouse!TypeOK /\ MouseTyped /\ HalvesFollow /\ WindowsButtonsFollow /\ LinuxButtonsFollow
      /\ AxesFollow /\ CopyFollows /\ smUnread \in Seq(Reported)
  BY DEF MouseIInv, MouseTyped
<1>1. /\ reports < MaxReports /\ reports' = reports + 1 /\ mouse' = goes /\ settled' = FALSE
      /\ IF listens
           THEN /\ smUnread' = Append(smUnread, r)
                /\ missed' = IF kind \in {"press", "release"} THEN missed ELSE missed \ parts
           ELSE missed' = missed \cup parts /\ smUnread' = smUnread
      /\ UNCHANGED <<smPlatform, attached, smRx, allDOFs, smGot, smAxes, smButtons, smSim, smCopy>>
  BY DEF Mouse!Report, Mouse!Shown, Mouse!Sim
<1>2. r.kind = kind /\ r.value = value
  OBVIOUS
<1> HIDE DEF r
<1>3. smUnread' \in Seq(Reported) /\ Len(smUnread') <= reports' /\ reports' \in Mouse!Number
  <2>1. Len(smUnread) \in Nat /\ reports \in Mouse!Number /\ Len(smUnread) <= reports
    BY <1>0 DEF Mouse!TypeOK
  <2>2. reports + 1 \in Mouse!Number /\ reports \in Nat
    BY <1>1, <2>1 DEF Mouse!Number, Mouse!SpaceMouseAssumption
  <2>3. CASE listens
    BY SMTT(30), <1>0, <1>1, <2>1, <2>2, <2>3 DEF r
  <2>4. CASE ~listens
    BY <1>0, <1>1, <2>1, <2>2, <2>4
  <2>5. QED
    BY <2>3, <2>4
<1>4. Mouse!TypeOK'
  <2>1. DOMAIN goes = Mouse!Parts /\ missed' \subseteq Mouse!Parts
    <3>1. DOMAIN goes = Mouse!Parts
      BY DEF Mouse!Parts
    <3>2. QED
      BY <1>0, <1>1, <3>1 DEF Mouse!TypeOK
  <2>2. QED
    BY <1>0, <1>1, <1>3, <2>1 DEF Mouse!TypeOK
<1>5. MouseTyped'
  BY <1>0, <1>1, <1>3 DEF MouseTyped, Reported
<1>6. ASSUME NEW h \in Mouse!Halves \ missed'
      PROVE  \/ Silent(smUnread', {h, "motion"}) /\ allDOFs'[h] = mouse'[h]
             \/ Latest(smUnread', {h, "motion"}, mouse'[h])
  <2>1. CASE kind \in {h, "motion"}
    <3>1. listens /\ goes[h] = value
      BY <1>1, <1>6, <2>1
    <3>2. Latest(Append(smUnread, r), {h, "motion"}, r.value)
      BY <1>0, <1>2, <2>1, AddReport DEF r
    <3>3. QED
      BY <1>1, <1>2, <3>1, <3>2
  <2>2. CASE kind \notin {h, "motion"}
    <3>1. h \notin missed /\ goes[h] = mouse[h]
      BY <1>1, <1>6, <2>2
    <3>2. \/ Silent(smUnread, {h, "motion"}) /\ allDOFs[h] = mouse[h]
          \/ Latest(smUnread, {h, "motion"}, mouse[h])
      BY <1>0, <1>6, <3>1 DEF HalvesFollow
    <3>3. CASE listens
      <4>1. r \in Reported /\ r.kind \notin {h, "motion"} /\ smUnread' = Append(smUnread, r)
        BY <1>1, <1>2, <2>2, <3>3 DEF r
      <4>2. /\ Silent(smUnread, {h, "motion"}) => Silent(Append(smUnread, r), {h, "motion"})
            /\ Latest(smUnread, {h, "motion"}, mouse[h]) => Latest(Append(smUnread, r), {h, "motion"}, mouse[h])
        BY <1>0, <4>1, AddReport
      <4>3. QED
        BY <1>1, <3>1, <3>2, <4>1, <4>2
    <3>4. CASE ~listens
      BY <1>1, <3>1, <3>2, <3>4
    <3>5. QED
      BY <3>3, <3>4
  <2>3. QED
    BY <2>1, <2>2
<1>7. WindowsButtonsFollow'
  <2> SUFFICES ASSUME smPlatform = "windows", "buttons" \notin missed'
               PROVE  \/ Silent(smUnread', {"buttons"}) /\ smButtons = Mouse!Decoded(goes.buttons)
                      \/ Latest(smUnread', {"buttons"}, goes.buttons)
    BY <1>1 DEF WindowsButtonsFollow
  <2>1. CASE kind = "buttons"
    <3>1. listens /\ goes.buttons = value
      BY <1>1, <2>1
    <3>2. Latest(Append(smUnread, r), {"buttons"}, r.value)
      BY <1>0, <1>2, <2>1, AddReport DEF r
    <3>3. QED
      BY <1>1, <1>2, <3>1, <3>2
  <2>2. CASE kind # "buttons"
    <3>1. "buttons" \notin missed /\ goes.buttons = mouse.buttons
      BY <1>1, <2>2
    <3>2. \/ Silent(smUnread, {"buttons"}) /\ smButtons = Mouse!Decoded(mouse.buttons)
          \/ Latest(smUnread, {"buttons"}, mouse.buttons)
      BY <1>0, <3>1 DEF WindowsButtonsFollow
    <3>3. CASE listens
      <4>1. r \in Reported /\ r.kind \notin {"buttons"} /\ smUnread' = Append(smUnread, r)
        BY <1>1, <1>2, <2>2, <3>3 DEF r
      <4>2. /\ Silent(smUnread, {"buttons"}) => Silent(Append(smUnread, r), {"buttons"})
            /\ Latest(smUnread, {"buttons"}, mouse.buttons) => Latest(Append(smUnread, r), {"buttons"}, mouse.buttons)
        BY <1>0, <4>1, AddReport
      <4>3. QED
        BY <3>1, <3>2, <4>1, <4>2
    <3>4. CASE ~listens
      BY <1>1, <3>1, <3>2, <3>4
    <3>5. QED
      BY <3>3, <3>4
  <2>3. QED
    BY <2>1, <2>2
<1>8. LinuxButtonsFollow'
  <2> SUFFICES ASSUME smPlatform = "linux", "buttons" \notin missed', smSim # "error", NEW b \in Nat
               PROVE  Says(smUnread', b, smButtons, goes.buttons)
    BY <1>1 DEF LinuxButtonsFollow
  <2>1. kind # "buttons"
    <3>1. r \in [kind : {"motion"}, value : Mouse!Number] \cup [kind : {"press", "release"}, value : LinuxButtons]
      BY DEF Reported, r
    <3>2. QED
      BY <1>2, <3>1
  <2>2. "buttons" \notin missed
    BY <1>1, <2>1
  <2>3. Says(smUnread, b, smButtons, mouse.buttons)
    BY <1>0, <2>2 DEF LinuxButtonsFollow
  <2>4. CASE listens
    <3>1. IF r.kind \in {"press", "release"} /\ r.value = b + 1
            THEN b \in goes.buttons <=> r.kind = "press"
            ELSE b \in goes.buttons <=> b \in mouse.buttons
      BY <1>2, <2>1
    <3>2. Says(Append(smUnread, r), b, smButtons, goes.buttons)
      BY <1>0, <2>3, <3>1, AddReport DEF r
    <3>3. QED
      BY <1>1, <2>4, <3>2
  <2>5. CASE ~listens
    <3>1. goes.buttons = mouse.buttons /\ smUnread' = smUnread
      BY <1>1, <2>1, <2>5
    <3>2. QED
      BY <2>3, <3>1
  <2>6. QED
    BY <2>4, <2>5
<1>9. AxesFollow' /\ CopyFollows'
  BY <1>0, <1>1 DEF AxesFollow, CopyFollows
<1>10. QED
  BY <1>4, <1>5, <1>6, <1>7, <1>8, <1>9 DEF MouseIInv, HalvesFollow

\* The thread takes a report.
LEMMA TakeStep ==
  ASSUME Mouse!SpaceMouseAssumption, MouseIInv, Mouse!WindowsRead \/ Mouse!LinuxRead
  PROVE  MouseIInv'
<1> DEFINE r == Head(smUnread)
           rest == Tail(smUnread)
<1>0. /\ Mouse!TypeOK /\ MouseTyped /\ HalvesFollow /\ WindowsButtonsFollow /\ LinuxButtonsFollow
      /\ AxesFollow /\ CopyFollows /\ smUnread \in Seq(Reported)
  BY DEF MouseIInv, MouseTyped
<1>1. /\ smRx = "wait" /\ smUnread # <<>>
      /\ UNCHANGED <<smPlatform, attached, mouse, reports, smAxes, smCopy, settled>>
  BY DEF Mouse!WindowsRead, Mouse!LinuxRead, Mouse!Sim
<1>2. /\ r \in Reported /\ rest \in Seq(Reported) /\ Len(rest) <= reports /\ r = smUnread[1]
      /\ 1 \in DOMAIN smUnread
  <2>1. Len(smUnread) <= reports /\ reports \in Nat
    BY <1>0 DEF Mouse!TypeOK, Mouse!Number, Mouse!SpaceMouseAssumption
  <2>2. QED
    BY <1>0, <1>1, <2>1
<1>3. ASSUME NEW h \in Mouse!Halves \ missed
      PROVE  \/ Silent(rest, {h, "motion"})
                /\ IF r.kind \in {h, "motion"} THEN r.value = mouse[h] ELSE allDOFs[h] = mouse[h]
             \/ Latest(rest, {h, "motion"}, mouse[h])
  <2>1. CASE Silent(smUnread, {h, "motion"}) /\ allDOFs[h] = mouse[h]
    <3>1. r.kind \notin {h, "motion"}
      BY <1>2, <2>1 DEF Silent
    <3>2. Silent(rest, {h, "motion"})
      BY <1>0, <1>1, <2>1, TakeReport
    <3>3. QED
      BY <2>1, <3>1, <3>2
  <2>2. CASE Latest(smUnread, {h, "motion"}, mouse[h])
    <3>1. \/ Latest(rest, {h, "motion"}, mouse[h])
          \/ Silent(rest, {h, "motion"}) /\ r.kind \in {h, "motion"} /\ r.value = mouse[h]
      BY <1>0, <1>1, <2>2, TakeReport
    <3>2. QED
      BY <3>1
  <2>3. QED
    BY <1>0, <1>3, <2>1, <2>2 DEF HalvesFollow
<1>4. ASSUME smPlatform = "windows", "buttons" \notin missed
      PROVE  \/ Silent(rest, {"buttons"})
                /\ IF r.kind = "buttons" THEN r.value = mouse.buttons ELSE smButtons = Mouse!Decoded(mouse.buttons)
             \/ Latest(rest, {"buttons"}, mouse.buttons)
  <2>1. CASE Silent(smUnread, {"buttons"}) /\ smButtons = Mouse!Decoded(mouse.buttons)
    <3>1. r.kind # "buttons"
      BY <1>2, <2>1 DEF Silent
    <3>2. Silent(rest, {"buttons"})
      BY <1>0, <1>1, <2>1, TakeReport
    <3>3. QED
      BY <2>1, <3>1, <3>2
  <2>2. CASE Latest(smUnread, {"buttons"}, mouse.buttons)
    <3>1. \/ Latest(rest, {"buttons"}, mouse.buttons)
          \/ Silent(rest, {"buttons"}) /\ r.kind \in {"buttons"} /\ r.value = mouse.buttons
      BY <1>0, <1>1, <2>2, TakeReport
    <3>2. QED
      BY <3>1
  <2>3. QED
    BY <1>0, <1>4, <2>1, <2>2 DEF WindowsButtonsFollow
<1>5. ASSUME smPlatform = "linux", "buttons" \notin missed, smSim # "error", NEW b \in Nat, NEW then,
             IF Presses(smUnread, 1, b) THEN b \in then <=> r.kind = "press"
                                        ELSE b \in then <=> b \in smButtons
      PROVE  Says(rest, b, then, mouse.buttons)
  <2>1. Says(smUnread, b, smButtons, mouse.buttons)
    BY <1>0, <1>5 DEF LinuxButtonsFollow
  <2>2. QED
    BY <1>0, <1>1, <1>5, <2>1, TakeReport
<1>6. settled = FALSE
  BY <1>0, <1>1 DEF CopyFollows, Mouse!TypeOK
<1>7. \A h \in Mouse!Halves \ smGot : smAxes[h] = allDOFs[h]
  BY <1>0, <1>1 DEF AxesFollow, Mouse!Halves
<1>8. CASE Mouse!WindowsRead
  <2>1. smPlatform = "windows" /\ smUnread' = rest /\ UNCHANGED <<missed, smSim>>
    BY <1>8 DEF Mouse!WindowsRead, Mouse!Sim
  <2>2. \/ r.kind \in Mouse!Halves /\ r.value \in Mouse!Number
        \/ r.kind = "buttons" /\ r.value \in ButtonSets /\ r.kind \notin Mouse!Halves
    BY <1>2, <2>1 DEF Reported, Mouse!Halves
  <2>3. MouseTyped'
    BY <1>0, <1>1, <1>2, <2>1 DEF MouseTyped, Reported
  <2>4. LinuxButtonsFollow' /\ CopyFollows'
    BY <1>1, <1>6, <2>1 DEF LinuxButtonsFollow, CopyFollows
  <2>5. CASE r.kind = "buttons"
    <3>1. smButtons' = Mouse!Decoded(r.value) /\ UNCHANGED <<allDOFs, smGot, smRx>>
      BY <1>8, <2>5 DEF Mouse!WindowsRead
    <3>2. smButtons' \subseteq 0 .. Mouse!MDD_N_BUTTONS - 1
      BY <3>1 DEF Mouse!Decoded
    <3>3. Mouse!TypeOK'
      BY <1>0, <1>1, <1>2, <2>1, <3>1, <3>2 DEF Mouse!TypeOK
    <3>4. HalvesFollow'
      <4> SUFFICES ASSUME NEW h \in Mouse!Halves \ missed
                   PROVE  \/ Silent(rest, {h, "motion"}) /\ allDOFs[h] = mouse[h]
                          \/ Latest(rest, {h, "motion"}, mouse[h])
        BY <1>1, <2>1, <3>1 DEF HalvesFollow
      <4>1. r.kind \notin {h, "motion"}
        BY <2>5 DEF Mouse!Halves
      <4>2. QED
        BY <1>3, <4>1
    <3>5. WindowsButtonsFollow'
      BY <1>1, <1>4, <2>1, <2>5, <3>1 DEF WindowsButtonsFollow
    <3>6. AxesFollow'
      BY <1>0, <1>1, <3>1 DEF AxesFollow
    <3>7. QED
      BY <2>3, <2>4, <3>3, <3>4, <3>5, <3>6 DEF MouseIInv
  <2>6. CASE r.kind \in Mouse!Halves
    <3>1. /\ allDOFs' = [allDOFs EXCEPT ![r.kind] = r.value] /\ smButtons' = smButtons
          /\ \/ smGot' = {} /\ smRx' = "translation"
             \/ smGot' = smGot \cup {r.kind} /\ smRx' = smRx
      BY <1>8, <2>6 DEF Mouse!WindowsRead, Mouse!Halves
    <3>2. allDOFs' \in [Mouse!Halves -> Mouse!Number] /\ r.value \in Mouse!Number
      BY <1>0, <2>2, <2>6, <3>1 DEF Mouse!TypeOK, Mouse!Halves
    <3>3. \A h \in Mouse!Halves : allDOFs'[h] = IF h = r.kind THEN r.value ELSE allDOFs[h]
      BY <1>0, <3>1 DEF Mouse!TypeOK
    <3>4. Mouse!TypeOK'
      BY <1>0, <1>1, <1>2, <2>1, <2>6, <3>1, <3>2 DEF Mouse!TypeOK
    <3>5. HalvesFollow'
      <4> SUFFICES ASSUME NEW h \in Mouse!Halves \ missed
                   PROVE  \/ Silent(rest, {h, "motion"}) /\ allDOFs'[h] = mouse[h]
                          \/ Latest(rest, {h, "motion"}, mouse[h])
        BY <1>1, <2>1 DEF HalvesFollow
      <4>1. r.kind \in {h, "motion"} <=> r.kind = h
        BY <2>6 DEF Mouse!Halves
      <4>2. QED
        BY <1>3, <3>3, <4>1
    <3>6. WindowsButtonsFollow'
      <4>1. r.kind # "buttons"
        BY <2>6 DEF Mouse!Halves
      <4>2. QED
        BY <1>1, <1>4, <2>1, <3>1, <4>1 DEF WindowsButtonsFollow
    <3>7. AxesFollow'
      <4>1. CASE smGot' = {} /\ smRx' = "translation"
        BY <4>1 DEF AxesFollow, Mouse!Halves
      <4>2. CASE smGot' = smGot \cup {r.kind} /\ smRx' = smRx
        BY <1>1, <1>7, <2>1, <3>3, <4>2 DEF AxesFollow, Mouse!Halves
      <4>3. QED
        BY <3>1, <4>1, <4>2
    <3>8. QED
      BY <2>3, <2>4, <3>4, <3>5, <3>6, <3>7 DEF MouseIInv
  <2>7. QED
    BY <2>2, <2>5, <2>6
<1>9. CASE Mouse!LinuxRead
  <2>1. smPlatform = "linux" /\ UNCHANGED smGot
    BY <1>9 DEF Mouse!LinuxRead
  <2>2. \/ r.kind = "motion" /\ r.value \in Mouse!Number
        \/ r.kind \in {"press", "release"} /\ r.value \in Nat \ {0}
    BY <1>2, <2>1 DEF Reported, Mouse!SpaceMouseAssumption
  <2>3. WindowsButtonsFollow' /\ CopyFollows'
    BY <1>1, <1>6, <2>1 DEF WindowsButtonsFollow, CopyFollows
  <2>4. \A q \in Seq(Reported), h \in Mouse!Halves : \A k \in DOMAIN q : q[k].kind # h
    BY <2>1 DEF Reported, Mouse!Halves
  <2>5. CASE r.kind = "motion"
    <3>1. /\ smUnread' = Mouse!NoMotion(rest)
          /\ missed' = IF smUnread' # rest THEN missed \cup Mouse!Halves ELSE missed
          /\ allDOFs' = [h \in Mouse!Halves |-> r.value] /\ smRx' = "translation"
          /\ UNCHANGED <<smButtons, smSim>>
      BY <1>9, <2>5 DEF Mouse!LinuxRead
    <3>2. /\ smUnread' \in Seq(Reported) /\ Len(smUnread') <= Len(rest)
          /\ \A k \in DOMAIN smUnread' : smUnread'[k].kind # "motion"
          /\ \A b, held, now : Says(rest, b, held, now) => Says(smUnread', b, held, now)
      BY <1>2, <3>1, NoMotionKeeps
    <3>3. r.value \in Mouse!Number
      BY <2>2, <2>5
    <3>4. Mouse!TypeOK'
      <4>1. Len(smUnread') <= reports
        <5>1. Len(smUnread') \in Int /\ Len(rest) \in Int /\ reports \in Int
          BY <1>0, <1>2, <3>2 DEF Mouse!TypeOK, Mouse!Number
        <5>2. QED
          BY <1>2, <3>2, <5>1
      <4>2. missed' \subseteq Mouse!Parts /\ allDOFs' \in [Mouse!Halves -> Mouse!Number]
        BY <1>0, <3>1, <3>3 DEF Mouse!TypeOK, Mouse!Parts, Mouse!Halves
      <4>3. QED
        BY <1>0, <1>1, <2>1, <3>1, <4>1, <4>2 DEF Mouse!TypeOK
    <3>5. MouseTyped'
      BY <1>0, <1>1, <3>2 DEF MouseTyped, Reported
    <3>6. HalvesFollow'
      <4> SUFFICES ASSUME NEW h \in Mouse!Halves, h \notin missed'
                   PROVE  Silent(smUnread', {h, "motion"}) /\ allDOFs'[h] = mouse[h]
        BY <1>1 DEF HalvesFollow
      <4>1. smUnread' = rest /\ h \notin missed
        BY <3>1
      <4>2. Silent(smUnread', {h, "motion"})
        BY <2>4, <3>2 DEF Silent
      <4>3. ~Latest(rest, {h, "motion"}, mouse[h])
        BY <4>1, <4>2 DEF Latest, Silent
      <4>4. r.value = mouse[h]
        BY <1>3, <2>5, <4>1, <4>3
      <4>5. QED
        BY <3>1, <4>2, <4>4
    <3>7. LinuxButtonsFollow'
      <4> SUFFICES ASSUME "buttons" \notin missed', smSim # "error", NEW b \in Nat
                   PROVE  Says(smUnread', b, smButtons, mouse.buttons)
        BY <1>1, <3>1 DEF LinuxButtonsFollow
      <4>1. "buttons" \notin missed /\ ~Presses(smUnread, 1, b)
        BY <1>2, <2>5, <3>1 DEF Presses
      <4>2. Says(rest, b, smButtons, mouse.buttons)
        BY <1>5, <2>1, <4>1
      <4>3. QED
        BY <3>2, <4>2
    <3>8. AxesFollow'
      BY <1>0, <2>1, <3>1 DEF AxesFollow, Mouse!Halves
    <3>9. QED
      BY <2>3, <3>4, <3>5, <3>6, <3>7, <3>8 DEF MouseIInv
  <2>6. CASE r.kind # "motion"
    <3>1. /\ smUnread' = rest /\ missed' = missed /\ allDOFs' = allDOFs
          /\ \/ /\ r.value - 1 < Mouse!MDD_N_BUTTONS /\ smRx' = smRx /\ smSim' = smSim
                /\ smButtons' = IF r.kind = "press" THEN smButtons \cup {r.value - 1}
                                                    ELSE smButtons \ {r.value - 1}
             \/ smRx' = "error" /\ smSim' = "error" /\ smButtons' = smButtons
      BY <1>9, <2>6 DEF Mouse!LinuxRead
    <3>2. r.kind \in {"press", "release"} /\ r.value \in Nat \ {0}
      BY <2>2, <2>6
    <3>3. MouseTyped'
      BY <1>0, <1>1, <1>2, <3>1 DEF MouseTyped, Reported
    <3>4. HalvesFollow'
      <4> SUFFICES ASSUME NEW h \in Mouse!Halves \ missed
                   PROVE  \/ Silent(rest, {h, "motion"}) /\ allDOFs[h] = mouse[h]
                          \/ Latest(rest, {h, "motion"}, mouse[h])
        BY <1>1, <3>1 DEF HalvesFollow
      <4>1. r.kind \notin {h, "motion"}
        BY <3>2 DEF Mouse!Halves
      <4>2. QED
        BY <1>3, <4>1
    <3>5. smButtons' \subseteq 0 .. Mouse!MDD_N_BUTTONS - 1
      <4>1. r.value - 1 < Mouse!MDD_N_BUTTONS => r.value - 1 \in 0 .. Mouse!MDD_N_BUTTONS - 1
        BY <3>2 DEF Mouse!MDD_N_BUTTONS
      <4>2. QED
        BY <1>0, <3>1, <4>1 DEF Mouse!TypeOK
    <3>6. CASE smRx' = smRx /\ smSim' = smSim /\ r.value - 1 < Mouse!MDD_N_BUTTONS
               /\ smButtons' = IF r.kind = "press" THEN smButtons \cup {r.value - 1}
                                                   ELSE smButtons \ {r.value - 1}
      <4>1. Mouse!TypeOK'
        BY <1>0, <1>1, <1>2, <2>1, <3>1, <3>5, <3>6 DEF Mouse!TypeOK
      <4>2. LinuxButtonsFollow'
        <5> SUFFICES ASSUME "buttons" \notin missed, smSim # "error", NEW b \in Nat
                     PROVE  Says(rest, b, smButtons', mouse.buttons)
          BY <1>1, <3>1, <3>6 DEF LinuxButtonsFollow
        <5>1. Presses(smUnread, 1, b) <=> r.value - 1 = b
          BY <1>2, <3>2 DEF Presses
        <5>2. IF Presses(smUnread, 1, b) THEN b \in smButtons' <=> r.kind = "press"
                                         ELSE b \in smButtons' <=> b \in smButtons
          BY <3>2, <3>6, <5>1
        <5>3. QED
          BY <1>5, <2>1, <5>2
      <4>3. AxesFollow'
        BY <1>0, <1>1, <2>1, <3>1, <3>6 DEF AxesFollow
      <4>4. QED
        BY <2>3, <3>3, <3>4, <4>1, <4>2, <4>3 DEF MouseIInv
    <3>7. CASE smRx' = "error" /\ smSim' = "error" /\ smButtons' = smButtons
      <4>1. Mouse!TypeOK'
        BY <1>0, <1>1, <1>2, <2>1, <3>1, <3>7 DEF Mouse!TypeOK
      <4>2. LinuxButtonsFollow'
        BY <3>7 DEF LinuxButtonsFollow
      <4>3. AxesFollow'
        BY <1>0, <1>1, <1>7, <2>1, <3>1, <3>7 DEF AxesFollow, Mouse!Halves
      <4>4. QED
        BY <2>3, <3>3, <3>4, <4>1, <4>2, <4>3 DEF MouseIInv
    <3>8. QED
      BY <3>1, <3>6, <3>7
  <2>7. QED
    BY <2>5, <2>6
<1>10. QED
  BY <1>8, <1>9

\* The space mouse changes in one half.
LEMMA HalfMoves ==
  ASSUME NEW a, NEW b, NEW c, NEW x
  PROVE  /\ [[translation |-> a, rotation |-> b, buttons |-> c] EXCEPT !.translation = x]
              = [translation |-> x, rotation |-> b, buttons |-> c]
         /\ [[translation |-> a, rotation |-> b, buttons |-> c] EXCEPT !.rotation = x]
              = [translation |-> a, rotation |-> x, buttons |-> c]
  OBVIOUS

\* Every step keeps the invariant.
LEMMA MouseIInvStep ==
  ASSUME Mouse!SpaceMouseAssumption, MouseIInv, [Mouse!Next]_Mouse!vars
  PROVE  MouseIInv'
<1>0. /\ Mouse!TypeOK /\ MouseTyped /\ HalvesFollow /\ WindowsButtonsFollow /\ LinuxButtonsFollow
      /\ AxesFollow /\ CopyFollows
  BY DEF MouseIInv
<1>1. mouse = [translation |-> mouse.translation, rotation |-> mouse.rotation, buttons |-> mouse.buttons]
      /\ mouse.translation \in Mouse!Number /\ mouse.rotation \in Mouse!Number
  BY <1>0 DEF MouseTyped, Mouse!TypeOK
<1>2. ASSUME reports < MaxReports PROVE reports + 1 \in Mouse!Number
  BY <1>0, <1>2 DEF Mouse!TypeOK, Mouse!Number, Mouse!SpaceMouseAssumption
<1>3. ASSUME UNCHANGED <<smPlatform, attached, mouse, reports, smUnread, missed, allDOFs, smGot, smAxes, smButtons>>,
             Mouse!TypeOK', smCopy' = [translation |-> smCopy'.translation, rotation |-> smCopy'.rotation, buttons |-> smCopy'.buttons],
             smSim' = "error" \/ smSim # "error", AxesFollow', CopyFollows'
      PROVE  MouseIInv'
  BY <1>0, <1>3
  DEF MouseIInv, MouseTyped, Reported, HalvesFollow, WindowsButtonsFollow, LinuxButtonsFollow
<1>4. CASE Mouse!WindowsReport
  <2>1. smPlatform = "windows"
    BY <1>4 DEF Mouse!WindowsReport
  <2>2. ASSUME NEW h \in Mouse!Halves, Mouse!Report(h, reports + 1, {h}, [mouse EXCEPT ![h] = reports + 1])
        PROVE  MouseIInv'
    <3> DEFINE goes == [mouse EXCEPT ![h] = reports + 1]
    <3>1. reports + 1 \in Mouse!Number
      BY <1>2, <2>2 DEF Mouse!Report
    <3>2. /\ goes = [translation |-> goes.translation, rotation |-> goes.rotation, buttons |-> goes.buttons]
          /\ goes.translation \in Mouse!Number /\ goes.rotation \in Mouse!Number /\ goes.buttons = mouse.buttons
          /\ \A g \in Mouse!Halves : goes[g] = IF g = h THEN reports + 1 ELSE mouse[g]
      <4>2. CASE h = "translation"
        <5>1. goes = [translation |-> reports + 1, rotation |-> mouse.rotation, buttons |-> mouse.buttons]
          <6>1. goes = [mouse EXCEPT !.translation = reports + 1]
            BY <4>2
          <6>2. QED
            BY <1>1, <6>1, HalfMoves
        <5>2. QED
          BY <1>1, <3>1, <4>2, <5>1 DEF Mouse!Halves
      <4>3. CASE h = "rotation"
        <5>1. goes = [translation |-> mouse.translation, rotation |-> reports + 1, buttons |-> mouse.buttons]
          <6>1. goes = [mouse EXCEPT !.rotation = reports + 1]
            BY <4>3
          <6>2. QED
            BY <1>1, <6>1, HalfMoves
        <5>2. QED
          BY <1>1, <3>1, <4>3, <5>1 DEF Mouse!Halves
      <4>4. QED
        BY <4>2, <4>3 DEF Mouse!Halves
    <3>3. [kind |-> h, value |-> reports + 1] \in Reported
      BY <2>1, <3>1 DEF Reported
    <3>4. {h} \in SUBSET Mouse!Parts /\ h \notin {"buttons", "press", "release", "motion"}
      BY DEF Mouse!Parts, Mouse!Halves
    <3>5. goes.buttons \in ButtonSets \cup {{}}
      BY <1>0, <2>1, <3>2 DEF MouseTyped
    <3>6. \A g \in Mouse!Halves : IF h \in {g, "motion"} THEN g \in {h} /\ goes[g] = reports + 1
                                                         ELSE g \notin {h} /\ goes[g] = mouse[g]
      BY <3>2, <3>4
    <3>7. Mouse!Report(h, reports + 1, {h}, goes)
      BY <2>2
    <3> HIDE DEF goes
    <3>8. h \notin {"buttons", "press", "release"} /\ "buttons" \notin {h} /\ h # "buttons"
      BY DEF Mouse!Halves
    <3> HIDE DEF Mouse!Halves
    <3>9. QED
      BY <2>1, <3>2, <3>3, <3>4, <3>5, <3>6, <3>7, <3>8, ReportStep
  <2>3. ASSUME NEW s \in ButtonSets, Mouse!Report("buttons", s, {"buttons"}, [mouse EXCEPT !.buttons = s])
        PROVE  MouseIInv'
    <3> DEFINE goes == [mouse EXCEPT !.buttons = s]
    <3>1. /\ goes = [translation |-> goes.translation, rotation |-> goes.rotation, buttons |-> goes.buttons]
          /\ goes.translation \in Mouse!Number /\ goes.rotation \in Mouse!Number /\ goes.buttons = s
          /\ \A g \in Mouse!Halves : goes[g] = mouse[g]
      BY <1>1 DEF Mouse!Halves
    <3>2. [kind |-> "buttons", value |-> s] \in Reported
      BY <2>1 DEF Reported
    <3>3. {"buttons"} \in SUBSET Mouse!Parts /\ \A g \in Mouse!Halves : "buttons" \notin {g, "motion"} /\ g \notin {"buttons"}
      BY DEF Mouse!Parts, Mouse!Halves
    <3>4. Mouse!Report("buttons", s, {"buttons"}, goes)
      BY <2>3
    <3> HIDE DEF goes
    <3>5. QED
      BY <2>1, <3>1, <3>2, <3>3, <3>4, ReportStep
  <2>4. QED
    BY <1>4, <2>2, <2>3 DEF Mouse!WindowsReport
<1>5. CASE Mouse!LinuxReport
  <2>1. smPlatform = "linux" /\ smPlatform # "windows" /\ mouse.buttons \subseteq Nat
    BY <1>0, <1>5 DEF Mouse!LinuxReport, MouseTyped
  <2>2. ASSUME Mouse!Report("motion", reports + 1, Mouse!Halves, [mouse EXCEPT !.translation = reports + 1, !.rotation = reports + 1])
        PROVE  MouseIInv'
    <3> DEFINE goes == [mouse EXCEPT !.translation = reports + 1, !.rotation = reports + 1]
    <3>1. reports + 1 \in Mouse!Number
      BY <1>2, <2>2 DEF Mouse!Report
    <3>2. /\ goes = [translation |-> goes.translation, rotation |-> goes.rotation, buttons |-> goes.buttons]
          /\ goes.translation \in Mouse!Number /\ goes.rotation \in Mouse!Number /\ goes.buttons = mouse.buttons
          /\ \A g \in Mouse!Halves : goes[g] = reports + 1
      <4>1. goes = [translation |-> reports + 1, rotation |-> reports + 1, buttons |-> mouse.buttons]
        <5> DEFINE moved == [mouse EXCEPT !.translation = reports + 1]
        <5>1. moved = [translation |-> reports + 1, rotation |-> mouse.rotation, buttons |-> mouse.buttons]
          BY <1>1, HalfMoves
        <5>2. goes = [moved EXCEPT !.rotation = reports + 1]
          OBVIOUS
        <5> HIDE DEF moved, goes
        <5>3. QED
          BY <5>1, <5>2, HalfMoves
      <4>2. QED
        BY <3>1, <4>1 DEF Mouse!Halves
    <3>3. [kind |-> "motion", value |-> reports + 1] \in Reported
      BY <2>1, <3>1 DEF Reported
    <3>4. Mouse!Halves \in SUBSET Mouse!Parts /\ "buttons" \notin Mouse!Halves
      BY DEF Mouse!Parts, Mouse!Halves
    <3>5. Mouse!Report("motion", reports + 1, Mouse!Halves, goes)
      BY <2>2
    <3> HIDE DEF goes
    <3>6. QED
      BY <2>1, <3>2, <3>3, <3>4, <3>5, ReportStep
  <2>3. ASSUME NEW b \in LinuxButtons, NEW kind \in {"press", "release"},
               NEW held, held = IF kind = "press" THEN mouse.buttons \cup {b - 1} ELSE mouse.buttons \ {b - 1},
               Mouse!Report(kind, b, {"buttons"}, [mouse EXCEPT !.buttons = held])
        PROVE  MouseIInv'
    <3> DEFINE goes == [mouse EXCEPT !.buttons = held]
    <3>1. /\ goes = [translation |-> goes.translation, rotation |-> goes.rotation, buttons |-> goes.buttons]
          /\ goes.translation \in Mouse!Number /\ goes.rotation \in Mouse!Number /\ goes.buttons = held
          /\ \A g \in Mouse!Halves : goes[g] = mouse[g]
      BY <1>1 DEF Mouse!Halves
    <3>2. [kind |-> kind, value |-> b] \in Reported
      BY <2>1 DEF Reported
    <3>3. {"buttons"} \in SUBSET Mouse!Parts /\ \A g \in Mouse!Halves : kind \notin {g, "motion"} /\ g \notin {"buttons"}
      BY DEF Mouse!Parts, Mouse!Halves
    <3>4. b \in Nat \ {0}
      BY DEF Mouse!SpaceMouseAssumption
    <3>5. held \subseteq Nat
      BY <2>1, <2>3, <3>4
    <3>6. \A c \in Nat : c \in goes.buttons <=> IF b = c + 1 THEN kind = "press" ELSE c \in mouse.buttons
      BY <2>3, <3>1, <3>4
    <3>7. Mouse!Report(kind, b, {"buttons"}, goes)
      BY <2>3
    <3>8. kind \in {"buttons", "press", "release"} /\ kind # "buttons"
      OBVIOUS
    <3> HIDE DEF goes
    <3>9. QED
      BY <2>1, <3>1, <3>2, <3>3, <3>5, <3>6, <3>7, <3>8, ReportStep
  <2>4. ASSUME NEW b \in LinuxButtons,
               IF b - 1 \in mouse.buttons
                 THEN Mouse!Report("release", b, {"buttons"}, [mouse EXCEPT !.buttons = @ \ {b - 1}])
                 ELSE Mouse!Report("press", b, {"buttons"}, [mouse EXCEPT !.buttons = @ \cup {b - 1}])
        PROVE  MouseIInv'
    <3>1. CASE b - 1 \in mouse.buttons
      <4> DEFINE held == mouse.buttons \ {b - 1}
      <4>1. Mouse!Report("release", b, {"buttons"}, [mouse EXCEPT !.buttons = held])
        BY <2>4, <3>1
      <4>2. QED
        BY <2>3, <4>1
    <3>2. CASE b - 1 \notin mouse.buttons
      <4> DEFINE held == mouse.buttons \cup {b - 1}
      <4>1. Mouse!Report("press", b, {"buttons"}, [mouse EXCEPT !.buttons = held])
        BY <2>4, <3>2
      <4>2. QED
        BY <2>3, <4>1
    <3>3. QED
      BY <3>1, <3>2
  <2>5. QED
    BY <1>5, <2>2, <2>4 DEF Mouse!LinuxReport
<1>6. CASE Mouse!WindowsStart \/ Mouse!LinuxStart
  <2>1. /\ smRx = "start" /\ smRx' \in {"wait", "ended", "error"} /\ smSim' \in {smSim, "error"}
        /\ UNCHANGED <<smPlatform, attached, mouse, reports, smUnread, missed, allDOFs, smGot, smAxes, smButtons, smCopy, settled>>
        /\ smSim' = "error" \/ smSim' = smSim
    BY <1>6 DEF Mouse!WindowsStart, Mouse!LinuxStart, Mouse!Shown, Mouse!Sim
  <2>2. Mouse!TypeOK'
    BY <1>0, <2>1 DEF Mouse!TypeOK
  <2>3. AxesFollow' /\ CopyFollows'
    BY <1>0, <2>1 DEF AxesFollow, CopyFollows, Mouse!Halves
  <2>4. smCopy' = [translation |-> smCopy'.translation, rotation |-> smCopy'.rotation, buttons |-> smCopy'.buttons]
    BY <1>0, <2>1 DEF MouseTyped
  <2>5. LinuxButtonsFollow'
    BY <1>0, <2>1 DEF LinuxButtonsFollow
  <2>6. QED
    BY <1>0, <2>1, <2>2, <2>3, <2>4, <2>5
    DEF MouseIInv, MouseTyped, Reported, HalvesFollow, WindowsButtonsFollow
<1>7. CASE Mouse!WindowsRead \/ Mouse!LinuxRead
  BY <1>7, TakeStep
<1>8. CASE Mouse!WriteAxes
  <2>1. /\ smRx \in Mouse!Halves /\ smAxes' = [smAxes EXCEPT ![smRx] = allDOFs[smRx]]
        /\ smRx' = IF smRx = "translation" THEN "rotation" ELSE "wait"
        /\ UNCHANGED <<smPlatform, attached, mouse, reports, smUnread, missed, allDOFs, smGot, smButtons, smSim, smCopy, settled>>
    BY <1>8 DEF Mouse!WriteAxes, Mouse!Sim
  <2>2. smAxes' \in [Mouse!Halves -> Mouse!Number] /\ \A h \in Mouse!Halves : smAxes'[h] = IF h = smRx THEN allDOFs[h] ELSE smAxes[h]
    BY <1>0, <2>1 DEF Mouse!TypeOK
  <2>3. Mouse!TypeOK'
    BY <1>0, <2>1, <2>2 DEF Mouse!TypeOK
  <2>4. AxesFollow'
    BY <1>0, <2>1, <2>2 DEF AxesFollow, Mouse!Halves
  <2>5. CopyFollows'
    BY <1>0, <2>1 DEF CopyFollows, Mouse!Halves
  <2>6. QED
    BY <1>0, <2>1, <2>3, <2>4, <2>5
    DEF MouseIInv, MouseTyped, Reported, HalvesFollow, WindowsButtonsFollow, LinuxButtonsFollow
<1>9. CASE Mouse!GetData
  <2>1. /\ smSim = "idle" /\ smSim' \in {"translation", "error"} /\ smRx' \in {smRx, "start"}
        /\ settled' = (smRx = "wait" /\ smUnread = <<>>) /\ (smRx' # smRx => smRx = "none")
        /\ UNCHANGED <<smPlatform, attached, mouse, reports, smUnread, missed, allDOFs, smGot, smAxes, smButtons, smCopy>>
    BY <1>9 DEF Mouse!GetData, Mouse!Shown
  <2>2. Mouse!TypeOK'
    BY <1>0, <2>1 DEF Mouse!TypeOK
  <2>3. AxesFollow' /\ CopyFollows'
    BY <1>0, <2>1 DEF AxesFollow, CopyFollows, Mouse!Halves
  <2>4. smCopy' = [translation |-> smCopy'.translation, rotation |-> smCopy'.rotation, buttons |-> smCopy'.buttons]
    BY <1>0, <2>1 DEF MouseTyped
  <2>5. QED
    BY <1>3, <2>1, <2>2, <2>3, <2>4
<1>10. CASE Mouse!CopyAxes \/ Mouse!CopyButtons
  <2>1. /\ smSim # "error" /\ smSim' \in {"rotation", "buttons", "idle"} /\ DOMAIN smCopy' = Mouse!Parts
        /\ smCopy' = [translation |-> smCopy'.translation, rotation |-> smCopy'.rotation, buttons |-> smCopy'.buttons]
        /\ UNCHANGED <<smPlatform, attached, mouse, reports, smUnread, missed, smRx, allDOFs, smGot, smAxes, smButtons, settled>>
    BY <1>0, <1>10
    DEF Mouse!CopyAxes, Mouse!CopyButtons, Mouse!Shown, MouseTyped, Mouse!Halves, Mouse!Parts
  <2>2. Mouse!TypeOK'
    BY <1>0, <2>1 DEF Mouse!TypeOK
  <2>3. AxesFollow'
    BY <1>0, <2>1 DEF AxesFollow
  <2>4. CopyFollows'
    BY <1>0, <1>10
    DEF CopyFollows, MouseTyped, Mouse!CopyAxes, Mouse!CopyButtons, Mouse!Shown, Mouse!Halves
  <2>5. QED
    BY <1>3, <2>1, <2>2, <2>3, <2>4
<1>11. CASE Mouse!Ended \/ UNCHANGED Mouse!vars
  <2>1. UNCHANGED Mouse!vars
    BY <1>11 DEF Mouse!Ended
  <2>2. /\ UNCHANGED <<smPlatform, attached, mouse, reports, smUnread, missed, smRx, allDOFs, smGot>>
        /\ UNCHANGED <<smAxes, smButtons, smSim, smCopy, settled>>
    BY <2>1 DEF Mouse!vars
  <2>3. Mouse!TypeOK' /\ MouseTyped'
    BY <1>0, <2>2 DEF Mouse!TypeOK, MouseTyped, Reported
  <2>4. HalvesFollow' /\ WindowsButtonsFollow' /\ LinuxButtonsFollow'
    BY <1>0, <2>2 DEF HalvesFollow, WindowsButtonsFollow, LinuxButtonsFollow
  <2>5. AxesFollow' /\ CopyFollows'
    BY <1>0, <2>2 DEF AxesFollow, CopyFollows
  <2>6. QED
    BY <2>3, <2>4, <2>5 DEF MouseIInv
<1>12. QED
  BY <1>4, <1>5, <1>6, <1>7, <1>8, <1>9, <1>10, <1>11 DEF Mouse!Next

\* The invariant says what a read returns that nothing disturbed.
LEMMA MouseIInvReads == ASSUME Mouse!SpaceMouseAssumption, MouseIInv PROVE Mouse!ReadIsCurrent
<1> SUFFICES ASSUME smSim = "idle", settled, NEW p \in Mouse!Reliable PROVE smCopy[p] = Mouse!Room(p)
  BY DEF Mouse!ReadIsCurrent
<1>1. /\ Mouse!TypeOK /\ MouseTyped /\ HalvesFollow /\ WindowsButtonsFollow /\ LinuxButtonsFollow
      /\ AxesFollow /\ CopyFollows
  BY DEF MouseIInv
<1>2. /\ smRx = "wait" /\ smUnread = <<>> /\ smCopy.buttons = smButtons
      /\ smCopy.translation = smAxes["translation"] /\ smCopy.rotation = smAxes["rotation"]
  BY <1>1 DEF CopyFollows
<1>3. p \in Mouse!Parts /\ p \notin missed /\ p \notin smGot
  BY DEF Mouse!Reliable
<1>4. CASE p \in Mouse!Halves
  <2>1. smCopy[p] = smAxes[p] /\ smAxes[p] = allDOFs[p]
    BY <1>1, <1>2, <1>3, <1>4 DEF AxesFollow, Mouse!Halves
  <2>2. allDOFs[p] = mouse[p]
    <3>1. DOMAIN smUnread = {}
      BY <1>2
    <3>2. ~Latest(smUnread, {p, "motion"}, mouse[p])
      BY <3>1 DEF Latest
    <3>3. QED
      BY <1>1, <1>3, <1>4, <3>2 DEF HalvesFollow
  <2>3. Mouse!Room(p) = mouse[p]
    BY <1>4 DEF Mouse!Room, Mouse!Halves
  <2>4. QED
    BY <2>1, <2>2, <2>3
<1>5. CASE p = "buttons"
  <2>1. Mouse!Room(p) = mouse.buttons \cap 0 .. Mouse!MDD_N_BUTTONS - 1
    BY <1>5 DEF Mouse!Room
  <2>2. CASE smPlatform = "windows"
    <3>1. smButtons = Mouse!Decoded(mouse.buttons)
      BY <1>1, <1>2, <1>3, <1>5, <2>2 DEF WindowsButtonsFollow, Latest
    <3>2. \A b \in mouse.buttons : b % 8 # 7
      BY <1>5, <2>2 DEF Mouse!Reliable
    <3>3. mouse.buttons \in SUBSET (0 .. 23)
      BY <1>1, <2>2 DEF MouseTyped, Mouse!SpaceMouseAssumption
    <3>4. Mouse!Decoded(mouse.buttons) = mouse.buttons \cap 0 .. Mouse!MDD_N_BUTTONS - 1
      BY <3>2, <3>3, DecodedButtons
    <3>5. QED
      BY <1>2, <1>5, <2>1, <3>1, <3>4
  <2>3. CASE smPlatform = "linux"
    <3>1. \A b \in Nat : b \in smButtons <=> b \in mouse.buttons
      BY <1>1, <1>2, <1>3, <1>5, <2>3 DEF LinuxButtonsFollow, Says
    <3>2. mouse.buttons \subseteq Nat /\ smButtons \subseteq 0 .. Mouse!MDD_N_BUTTONS - 1
      BY <1>1, <2>3 DEF MouseTyped, Mouse!TypeOK
    <3>3. smButtons \subseteq Nat
      BY <3>2 DEF Mouse!MDD_N_BUTTONS
    <3>4. smButtons = mouse.buttons
      BY <3>1, <3>2, <3>3
    <3>5. QED
      BY <1>2, <1>5, <2>1, <3>2, <3>4
  <2>4. QED
    BY <1>1, <2>2, <2>3 DEF Mouse!TypeOK
<1>6. QED
  BY <1>3, <1>4, <1>5 DEF Mouse!Parts, Mouse!Halves

\* A step of the drivers is one of this driver, or leaves it alone.
LEMMA MouseSteps == ASSUME [DevicesNext]_DeviceVars PROVE [Mouse!Next]_Mouse!vars
  BY DEF DevicesNext, OthersRest, DeviceVars, MouseVars, Mouse!vars

\* In every state of the drivers its invariant holds.
LEMMA MouseInvariance == DevicesSpec => []MouseIInv
<1>1. DevicesInit => MouseIInv
  BY InitMouseIInv, DevicesAssumption DEF DevicesAssumption, DevicesInit
<1>2. MouseIInv /\ [DevicesNext]_DeviceVars => MouseIInv'
  <2> SUFFICES ASSUME MouseIInv, [DevicesNext]_DeviceVars PROVE MouseIInv'
    OBVIOUS
  <2>1. [Mouse!Next]_Mouse!vars
    BY MouseSteps
  <2>2. QED
    BY <2>1, MouseIInvStep, DevicesAssumption DEF DevicesAssumption
<1>3. QED
  BY <1>1, <1>2, PTL DEF DevicesSpec

----------------------------------------------------------------------------
(* The fields of CAN messages (CanMessage) *)

\* Quotient and rest are determined by what they make up.
LEMMA QuotientAndRest ==
  ASSUME NEW d \in Nat \ {0}, NEW q \in Int, NEW r \in 0 .. d - 1
  PROVE  (q * d + r) \div d = q /\ (q * d + r) % d = r
<1> DEFINE number == q * d + r
           a == number \div d
           b == number % d
<1>1. q * d \in Int
  BY SMT
<1>2. number \in Int
  BY <1>1
<1>3. a \in Int /\ b \in 0 .. d - 1 /\ number = a * d + b
  BY <1>2, SMTT(30)
<1> HIDE DEF a, b
<1>4. a = q
  <2>1. CASE a > q
    <3>1. a * d >= (q + 1) * d
      BY <1>3, <2>1, SMTT(30)
    <3>2. (q + 1) * d = q * d + d
      BY SMTT(30)
    <3>3. a * d \in Int /\ (q + 1) * d \in Int
      BY <1>3
    <3>4. QED
      BY <1>1, <1>3, <3>1, <3>2, <3>3
  <2>2. CASE a < q
    <3>1. q * d >= (a + 1) * d
      BY <1>3, <2>2, SMTT(30)
    <3>2. (a + 1) * d = a * d + d
      BY <1>3, SMTT(30)
    <3>3. a * d \in Int /\ (a + 1) * d \in Int
      BY <1>3
    <3>4. QED
      BY <1>1, <1>3, <3>1, <3>2, <3>3
  <2>3. QED
    BY <1>3, <2>1, <2>2
<1>5. a * d = q * d
  BY <1>4
<1>6. b = r
  BY <1>1, <1>3, <1>5
<1>7. QED
  BY <1>4, <1>6 DEF a, b

\* One more bit of a number: the rest modulo twice as much.
LEMMA NextBit ==
  ASSUME NEW v \in Int, NEW p \in Nat \ {0}
  PROVE  /\ v \div p \in Int /\ v % p \in 0 .. p - 1 /\ (v \div p) % 2 \in {0, 1}
         /\ v % (2 * p) = (v % p) + ((v \div p) % 2) * p
<1> DEFINE a == v \div p
           r == v % p
           h == a \div 2
           c == a % 2
<1>1. a \in Int /\ r \in 0 .. p - 1 /\ v = a * p + r
  BY SMTT(30)
<1> HIDE DEF a, r
<1>2. h \in Int /\ c \in {0, 1} /\ a = h * 2 + c
  BY <1>1
<1> HIDE DEF h, c
<1>3. a * p = h * (2 * p) + c * p
  BY <1>1, <1>2, SMTT(30)
<1>4. c * p \in {0, p}
  BY <1>2
<1>5. c * p + r \in 0 .. (2 * p) - 1 /\ 2 * p \in Nat \ {0} /\ h * (2 * p) \in Int
  BY <1>1, <1>2, <1>4
<1>6. v = h * (2 * p) + (c * p + r)
  BY <1>1, <1>3, <1>4, <1>5
<1>7. (h * (2 * p) + (c * p + r)) % (2 * p) = c * p + r
  BY <1>2, <1>5, QuotientAndRest, Zenon
<1>8. v % (2 * p) = r + c * p
  BY <1>1, <1>4, <1>6, <1>7
<1>9. QED
  BY <1>1, <1>2, <1>8 DEF a, r, h, c

\* Function g begins with first and goes on in len rounds, each of which makes of its number
\* and the value before what e says.
Goes(g, len, T, first, e) ==
  /\ g \in [0 .. len -> T] /\ g[0] = first
  /\ \A k \in 1 .. len : g[k] = e[<<k, g[k - 1]>>]

\* Such a function exists, whatever its rounds do.
LEMMA Recursion ==
  ASSUME NEW len \in Nat, NEW T, NEW first \in T, NEW e \in [(1 .. len) \X T -> T]
  PROVE  \E g : Goes(g, len, T, first, e)
<1> DEFINE Good(m, g) == g[0] = first /\ \A k \in 1 .. m : g[k] = e[<<k, g[k - 1]>>]
           S == {m \in Nat : m <= len => \E g \in [0 .. m -> T] : Good(m, g)}
<1>1. 0 \in S
  <2> DEFINE g == [k \in 0 .. 0 |-> first]
  <2>1. g \in [0 .. 0 -> T] /\ Good(0, g)
    OBVIOUS
  <2>2. QED
    BY <2>1
<1>2. ASSUME NEW m \in Nat, m \in S PROVE m + 1 \in S
  <2> SUFFICES ASSUME m + 1 <= len PROVE \E g \in [0 .. m + 1 -> T] : Good(m + 1, g)
    OBVIOUS
  <2>1. PICK g \in [0 .. m -> T] : Good(m, g)
    BY <1>2
  <2> DEFINE last == e[<<m + 1, g[m]>>]
             h == [k \in 0 .. m + 1 |-> IF k = m + 1 THEN last ELSE g[k]]
  <2>2. last \in T
    <3>1. m \in 0 .. m /\ m + 1 \in 1 .. len
      OBVIOUS
    <3>2. <<m + 1, g[m]>> \in (1 .. len) \X T
      BY <2>1, <3>1
    <3>3. QED
      BY <3>2
  <2>3. h \in [0 .. m + 1 -> T] /\ h[m + 1] = last /\ \A k \in 0 .. m : h[k] = g[k]
    BY <2>1, <2>2
  <2> HIDE DEF h
  <2>4. h[0] = first
    BY <2>1, <2>3
  <2>5. ASSUME NEW k \in 1 .. m + 1 PROVE h[k] = e[<<k, h[k - 1]>>]
    <3>1. k - 1 \in 0 .. m
      OBVIOUS
    <3>2. CASE k = m + 1
      BY <2>3, <3>1, <3>2
    <3>3. CASE k # m + 1
      <4>1. k \in 1 .. m /\ k \in 0 .. m
        BY <3>3
      <4>2. QED
        BY <2>1, <2>3, <3>1, <4>1
    <3>4. QED
      BY <3>2, <3>3
  <2>6. QED
    BY <2>3, <2>4, <2>5
<1>3. len \in S
  <2> HIDE DEF S
  <2>1. QED
    BY <1>1, <1>2, Induction
<1>4. QED
  BY <1>3 DEF Goes

\* PowerOfTwo(len) by its rounds
LEMMA PowerRounds ==
  ASSUME NEW len \in Nat
  PROVE  \E p : /\ Message!PowerOfTwo(len) = p[len] /\ p[0] = 1
                /\ \A k \in 1 .. len : p[k] = 2 * p[k - 1]
<1> DEFINE Doubles(g) == [k \in 0 .. len |-> IF k = 0 THEN 1 ELSE 2 * g[k - 1]]
           e == [r \in (1 .. len) \X Nat |-> 2 * r[2]]
<1>0. 1 \in Nat /\ e \in [(1 .. len) \X Nat -> Nat]
  OBVIOUS
<1>1. \A k \in 1 .. len : \A t \in Nat : e[<<k, t>>] = 2 * t
  OBVIOUS
<1> HIDE DEF e
<1>2. PICK g \in [0 .. len -> Nat] : g[0] = 1 /\ \A k \in 1 .. len : g[k] = e[<<k, g[k - 1]>>]
  <2>1. \E g : Goes(g, len, Nat, 1, e)
    BY <1>0, Recursion, Zenon
  <2>2. QED
    BY <2>1 DEF Goes
<1>3. ASSUME NEW k \in 1 .. len PROVE g[k] = 2 * g[k - 1]
  <2>1. k - 1 \in 0 .. len
    OBVIOUS
  <2>2. QED
    BY <1>1, <1>2, <2>1
<1>4. g = Doubles(g)
  BY <1>2, <1>3
<1> DEFINE p == CHOOSE h : h = Doubles(h)
<1>5. Message!PowerOfTwo(len) = p[len]
  BY DEF Message!PowerOfTwo
<1>6. p = Doubles(p)
  <2> HIDE DEF Doubles
  <2>1. QED
    BY <1>4
<1> HIDE DEF p
<1>7. p[0] = 1 /\ \A k \in 1 .. len : p[k] = 2 * p[k - 1]
  BY <1>6
<1>8. QED
  BY <1>5, <1>7

\* Powers of two are positive, and each is twice the one before.
LEMMA Powers ==
  ASSUME NEW len \in Nat
  PROVE  /\ Message!PowerOfTwo(len) \in Nat \ {0} /\ Message!PowerOfTwo(0) = 1
         /\ Message!PowerOfTwo(len + 1) = 2 * Message!PowerOfTwo(len)
<1>1. PICK p : /\ Message!PowerOfTwo(len) = p[len] /\ p[0] = 1
               /\ \A k \in 1 .. len : p[k] = 2 * p[k - 1]
  BY PowerRounds
<1>2. PICK q : /\ Message!PowerOfTwo(len + 1) = q[len + 1] /\ q[0] = 1
               /\ \A k \in 1 .. len + 1 : q[k] = 2 * q[k - 1]
  BY PowerRounds
<1>3. PICK o : Message!PowerOfTwo(0) = o[0] /\ o[0] = 1
  BY PowerRounds
<1> DEFINE S == {k \in Nat : k <= len => p[k] = q[k] /\ p[k] \in Nat \ {0}}
<1>4. 0 \in S
  BY <1>1, <1>2
<1>5. ASSUME NEW k \in Nat, k \in S PROVE k + 1 \in S
  <2> SUFFICES ASSUME k + 1 <= len PROVE p[k + 1] = q[k + 1] /\ p[k + 1] \in Nat \ {0}
    OBVIOUS
  <2>1. p[k] = q[k] /\ p[k] \in Nat \ {0}
    BY <1>5
  <2>2. k + 1 \in 1 .. len /\ k + 1 \in 1 .. len + 1 /\ (k + 1) - 1 = k
    OBVIOUS
  <2>3. p[k + 1] = 2 * p[k] /\ q[k + 1] = 2 * q[k]
    BY <1>1, <1>2, <2>2
  <2>4. QED
    BY <2>1, <2>3
<1>6. len \in S
  <2> HIDE DEF S
  <2>1. QED
    BY <1>4, <1>5, Induction
<1>7. len + 1 \in 1 .. len + 1 /\ (len + 1) - 1 = len
  OBVIOUS
<1>8. QED
  BY <1>1, <1>2, <1>3, <1>6, <1>7

\* Of two powers the one of the greater number is the greater.
LEMMA PowersGrow ==
  ASSUME NEW len \in Nat, NEW k \in 0 .. len
  PROVE  /\ Message!PowerOfTwo(k) \in Nat \ {0} /\ Message!PowerOfTwo(len) \in Nat \ {0}
         /\ Message!PowerOfTwo(k) <= Message!PowerOfTwo(len)
<1> DEFINE S == {m \in Nat : Message!PowerOfTwo(k) <= Message!PowerOfTwo(k + m)}
<1>1. k \in Nat /\ len - k \in Nat /\ k + (len - k) = len
  OBVIOUS
<1>2. \A m \in Nat : Message!PowerOfTwo(m) \in Nat \ {0}
  BY Powers
<1>3. 0 \in S
  BY <1>1, <1>2
<1>4. ASSUME NEW m \in Nat, m \in S PROVE m + 1 \in S
  <2>1. k + m \in Nat /\ (k + m) + 1 = k + (m + 1)
    BY <1>1
  <2>2. Message!PowerOfTwo((k + m) + 1) = 2 * Message!PowerOfTwo(k + m)
    BY <2>1, Powers
  <2>3. QED
    BY <1>1, <1>2, <1>4, <2>1, <2>2
<1>5. len - k \in S
  <2> HIDE DEF S
  <2>1. QED
    BY <1>1, <1>3, <1>4, Induction
<1>6. QED
  BY <1>1, <1>2, <1>5

\* A number that an int can hold is kept, and the first behind the greatest becomes the least.
LEMMA WrappedInt ==
  ASSUME Message!SignBit \in Nat \ {0}
  PROVE  /\ \A x \in Int : Message!Wrapped(x) \in Int
         /\ \A x \in -Message!SignBit .. Message!SignBit - 1 : Message!Wrapped(x) = x
         /\ Message!Wrapped(Message!SignBit) = -Message!SignBit
<1> DEFINE b == Message!SignBit
<1>1. b \in Nat \ {0} /\ 2 * b \in Nat \ {0}
  OBVIOUS
<1> HIDE DEF b
<1>2. \A y \in Int : y % (2 * b) \in Int
  BY <1>1, SMTT(30)
<1>3. ASSUME NEW x \in -b .. b - 1 PROVE (x + b) % (2 * b) = x + b
  <2>1. x + b \in 0 .. (2 * b) - 1 /\ 0 \in Int
    BY <1>1
  <2>2. (0 * (2 * b) + (x + b)) % (2 * b) = x + b
    BY <1>1, <2>1, QuotientAndRest, Zenon
  <2>3. 0 * (2 * b) + (x + b) = x + b
    BY <1>1, <2>1
  <2>4. QED
    BY <2>2, <2>3
<1>4. (b + b) % (2 * b) = 0
  <2>1. 0 \in 0 .. (2 * b) - 1 /\ 1 \in Int
    BY <1>1
  <2>2. (1 * (2 * b) + 0) % (2 * b) = 0
    BY <1>1, <2>1, QuotientAndRest, Zenon
  <2>3. 1 * (2 * b) + 0 = b + b
    BY <1>1
  <2>4. QED
    BY <2>2, <2>3
<1>5. \A x \in Int : x + b \in Int
  BY <1>1
<1>6. \A x \in -b .. b - 1 : x \in Int /\ (x + b) - b = x
  BY <1>1
<1>7. 0 - b = -b
  BY <1>1
<1>8. \A x \in Int : ((x + b) % (2 * b)) - b \in Int
  BY <1>1, <1>2, <1>5
<1>9. QED
  BY <1>3, <1>4, <1>6, <1>7, <1>8 DEF b, Message!Wrapped

\* The loop of IntegerBitunpacking by its turns
LEMMA UnpackTurns ==
  ASSUME NEW m \in [Message!Bits -> {0, 1}], NEW start \in Message!Bits, NEW width \in Nat,
         start + width <= 64, Message!SignBit \in Nat \ {0}
  PROVE  \E turn :
           /\ Message!IntegerBitunpacking(m, start, width) = turn[width].data
           /\ turn[0] = [data |-> 0, factor |-> 1]
           /\ \A j \in 1 .. width :
                turn[j] = [data |-> Message!Wrapped(turn[j - 1].data + m[start + j - 1] * turn[j - 1].factor),
                           factor |-> Message!Wrapped(Message!PowerOfTwo(j))]
<1> DEFINE Turn(j, t) == [data |-> Message!Wrapped(t.data + m[start + j - 1] * t.factor),
                          factor |-> Message!Wrapped(Message!PowerOfTwo(j))]
           first == [data |-> 0, factor |-> 1]
           Turns(g) == [j \in 0 .. width |-> IF j = 0 THEN first ELSE Turn(j, g[j - 1])]
           T == [data : Int, factor : Int]
           e == [r \in (1 .. width) \X T |-> Turn(r[1], r[2])]
<1>1. first \in T
  OBVIOUS
<1>2. ASSUME NEW j \in 1 .. width, NEW t \in T PROVE Turn(j, t) \in T
  <2>1. start + j - 1 \in Message!Bits
    BY DEF Message!Bits
  <2>2. t.data \in Int /\ m[start + j - 1] * t.factor \in Int
    BY <2>1
  <2>3. t.data + m[start + j - 1] * t.factor \in Int
    BY <2>2
  <2>4. Message!PowerOfTwo(j) \in Int
    BY Powers
  <2>5. QED
    BY <2>3, <2>4, WrappedInt
<1>3. \A j \in 1 .. width : \A t \in T : e[<<j, t>>] = Turn(j, t)
  OBVIOUS
<1> HIDE DEF Turn, T, first
<1>4. e \in [(1 .. width) \X T -> T]
  BY <1>2
<1> HIDE DEF e
<1>5. PICK g \in [0 .. width -> T] : g[0] = first /\ \A j \in 1 .. width : g[j] = e[<<j, g[j - 1]>>]
  <2>1. \E g : Goes(g, width, T, first, e)
    BY <1>1, <1>4, Recursion, Zenon
  <2>2. QED
    BY <2>1 DEF Goes
<1>6. ASSUME NEW j \in 1 .. width PROVE g[j] = Turn(j, g[j - 1])
  <2>1. j - 1 \in 0 .. width
    OBVIOUS
  <2>2. QED
    BY <1>3, <1>5, <2>1
<1>7. g = Turns(g)
  BY <1>5, <1>6
<1> DEFINE turn == CHOOSE h : h = Turns(h)
<1>8. Message!IntegerBitunpacking(m, start, width) = turn[width].data
  BY DEF Message!IntegerBitunpacking, first, Turn
<1>9. turn = Turns(turn)
  <2> HIDE DEF Turns
  <2>1. QED
    BY <1>7
<1> HIDE DEF turn
<1>10. turn[0] = first /\ \A j \in 1 .. width : turn[j] = Turn(j, turn[j - 1])
  BY <1>9
<1>11. QED
  BY <1>8, <1>10 DEF first, Turn

\* Bit j of a number as it is read from the field it was packed into, turn by turn.
LEMMA Unpacked ==
  ASSUME Message!CanMessageAssumption, NEW m \in [Message!Bits -> {0, 1}],
         NEW start \in Message!Bits, NEW width \in 0 .. IntSize, start + width <= 64,
         NEW v \in -Message!SignBit .. Message!SignBit - 1,
         \A j \in 0 .. width - 1 : m[start + j] = Message!BitOf(v, j)
  PROVE  Message!IntegerBitunpacking(m, start, width) =
           IF width = IntSize THEN v ELSE v % Message!PowerOfTwo(width)
<1> DEFINE P(j) == Message!PowerOfTwo(j)
           b == Message!SignBit
           last == IntSize - 1
<1>1. last \in Nat \ {0} /\ IntSize = last + 1 /\ width \in Nat
  BY DEF Message!CanMessageAssumption
<1>2. b = P(last) /\ b \in Nat \ {0}
  BY <1>1, Powers DEF Message!SignBit
<1>3. v \in Int /\ v \in -b .. b - 1
  BY <1>2
<1>4. PICK turn :
        /\ Message!IntegerBitunpacking(m, start, width) = turn[width].data
        /\ turn[0] = [data |-> 0, factor |-> 1]
        /\ \A j \in 1 .. width :
             turn[j] = [data |-> Message!Wrapped(turn[j - 1].data + m[start + j - 1] * turn[j - 1].factor),
                        factor |-> Message!Wrapped(P(j))]
  BY <1>1, <1>2, UnpackTurns
<1>5. /\ \A x \in -b .. b - 1 : Message!Wrapped(x) = x
      /\ Message!Wrapped(b) = -b
  BY <1>2, WrappedInt
<1>6. \A k \in Nat : P(k) \in Nat \ {0} /\ P(k + 1) = 2 * P(k)
  BY Powers
<1>7. \A k \in 0 .. last : P(k) <= b
  BY <1>1, <1>2, PowersGrow
<1>8. P(0) = 1
  BY Powers
<1>9. \A k \in Nat : Message!BitOf(v, k) = (v \div P(k)) % 2
  BY DEF Message!BitOf
<1> HIDE DEF P, b, last
<1>10. ASSUME NEW k \in Nat, k + 1 <= width, k < last,
              turn[k].data = v % P(k), turn[k].factor = P(k)
       PROVE  /\ turn[k + 1].data = v % P(k + 1)
              /\ turn[k + 1].factor = IF k + 1 = last THEN -b ELSE P(k + 1)
  <2>1. k \in 0 .. width - 1 /\ k + 1 \in 1 .. width /\ (k + 1) - 1 = k /\ start + (k + 1) - 1 = start + k
    BY <1>1, <1>10 DEF Message!Bits
  <2>2. m[start + k] = (v \div P(k)) % 2
    BY <1>9, <2>1
  <2>3. turn[k + 1] = [data |-> Message!Wrapped((v % P(k)) + m[start + k] * P(k)),
                       factor |-> Message!Wrapped(P(k + 1))]
    BY <1>4, <1>10, <2>1
  <2>4. /\ (v % P(k)) + ((v \div P(k)) % 2) * P(k) = v % P(k + 1)
        /\ v % P(k + 1) \in 0 .. P(k + 1) - 1
    <3>1. P(k) \in Nat \ {0} /\ P(k + 1) \in Nat \ {0} /\ P(k + 1) = 2 * P(k)
      BY <1>6
    <3>2. v % (2 * P(k)) = (v % P(k)) + ((v \div P(k)) % 2) * P(k)
      BY <1>3, <3>1, NextBit, Zenon
    <3>3. v % P(k + 1) \in 0 .. P(k + 1) - 1
      BY <1>3, <3>1, NextBit, Zenon
    <3>4. QED
      BY <3>1, <3>2, <3>3
  <2>5. k + 1 \in 0 .. last /\ P(k + 1) <= b
    BY <1>1, <1>7, <1>10
  <2>6. v % P(k + 1) \in -b .. b - 1
    BY <1>2, <1>6, <2>4, <2>5
  <2>7. turn[k + 1].data = v % P(k + 1)
    BY <1>5, <2>2, <2>3, <2>4, <2>6
  <2>8. CASE k + 1 = last
    BY <1>2, <1>5, <2>3, <2>7, <2>8
  <2>9. CASE k + 1 # last
    <3>1. k + 2 \in 0 .. last /\ k + 2 = (k + 1) + 1
      BY <1>1, <2>5, <2>9
    <3>2. P(k + 2) <= b /\ P(k + 2) = 2 * P(k + 1)
      BY <1>6, <1>7, <3>1
    <3>3. P(k + 1) \in -b .. b - 1
      BY <1>2, <1>6, <3>2
    <3>4. QED
      BY <1>5, <2>3, <2>7, <2>9, <3>3
  <2>10. QED
    BY <2>8, <2>9
<1>11. ASSUME last + 1 <= width, turn[last].data = v % P(last), turn[last].factor = -b
       PROVE  turn[last + 1].data = v
  <2>1. /\ last \in 0 .. width - 1 /\ last + 1 \in 1 .. width /\ (last + 1) - 1 = last
        /\ start + (last + 1) - 1 = start + last
    BY <1>1, <1>11 DEF Message!Bits
  <2>2. m[start + last] = (v \div b) % 2
    BY <1>1, <1>2, <1>9, <2>1
  <2>3. turn[last + 1].data = Message!Wrapped((v % b) + m[start + last] * (-b))
    <3>1. turn[last + 1] = [data |-> Message!Wrapped(turn[last].data + m[start + last] * turn[last].factor),
                            factor |-> Message!Wrapped(P(last + 1))]
      BY <1>4, <2>1
    <3>2. QED
      BY <1>2, <1>11, <3>1
  <2>4. (v % b) + ((v \div b) % 2) * (-b) = v
    <3>1. CASE v >= 0
      <4>1. v \in 0 .. b - 1 /\ 0 * b + v = v
        BY <1>2, <1>3, <3>1
      <4>2. (0 * b + v) \div b = 0 /\ (0 * b + v) % b = v
        BY <1>2, <4>1, QuotientAndRest
      <4>3. v \div b = 0 /\ v % b = v
        BY <4>1, <4>2
      <4>4. QED
        BY <1>2, <1>3, <4>3
    <3>2. CASE v < 0
      <4>1. v + b \in 0 .. b - 1 /\ (-1) * b + (v + b) = v /\ -1 \in Int
        BY <1>2, <1>3, <3>2
      <4>2. ((-1) * b + (v + b)) \div b = -1 /\ ((-1) * b + (v + b)) % b = v + b
        BY <1>2, <4>1, QuotientAndRest
      <4>3. v \div b = -1 /\ v % b = v + b
        BY <4>1, <4>2
      <4>4. (-1) % 2 = 1
        <5>1. 1 \in 0 .. 2 - 1 /\ 2 \in Nat \ {0} /\ -1 \in Int /\ (-1) * 2 + 1 = -1
          OBVIOUS
        <5>2. ((-1) * 2 + 1) % 2 = 1
          BY <5>1, QuotientAndRest, Zenon
        <5>3. QED
          BY <5>1, <5>2
      <4>5. QED
        BY <1>2, <1>3, <4>3, <4>4
    <3>3. QED
      BY <1>3, <3>1, <3>2
  <2>5. QED
    BY <1>3, <1>5, <2>2, <2>3, <2>4
<1> DEFINE Good(k) == IF k <= last
                      THEN /\ turn[k].data = v % P(k)
                           /\ turn[k].factor = IF k = last THEN -b ELSE P(k)
                      ELSE turn[k].data = v
           S == {k \in Nat : k <= width => Good(k)}
<1>12. 0 \in S
  <2>1. v % 1 = 0
    BY <1>3
  <2>2. QED
    BY <1>1, <1>4, <1>8, <2>1
<1>13. ASSUME NEW k \in Nat, k \in S PROVE k + 1 \in S
  <2> SUFFICES ASSUME k + 1 <= width PROVE Good(k + 1)
    OBVIOUS
  <2>1. k <= last /\ Good(k)
    BY <1>1, <1>13
  <2>2. CASE k < last
    <3>1. k + 1 <= last
      BY <1>1, <2>2
    <3>2. QED
      BY <1>1, <1>10, <2>1, <2>2, <3>1
  <2>3. CASE k = last
    BY <1>1, <1>11, <2>1, <2>3
  <2>4. QED
    BY <1>1, <2>1, <2>2, <2>3
<1>14. width \in S
  <2> HIDE DEF S
  <2>1. QED
    BY <1>1, <1>12, <1>13, Induction
<1>15. Good(width)
  BY <1>1, <1>14
<1>16. QED
  BY <1>1, <1>4, <1>15 DEF P

\* Bit k, from the most significant one, of byte b, and the number a byte and a bit make up
LEMMA BytesAndBits ==
  /\ \A b \in Int : \A k \in 0 .. 7 :
       /\ Message!Place(b, k) = 8 * b + (7 - k)
       /\ Message!Place(b, k) \div 8 = b /\ Message!Place(b, k) % 8 = 7 - k
       /\ (8 * b + k) \div 8 = b /\ (8 * b + k) % 8 = k
  /\ \A x \in Int : x \div 8 \in Int /\ x % 8 \in 0 .. 7 /\ x = 8 * (x \div 8) + (x % 8)
<1>1. ASSUME NEW b \in Int, NEW k \in 0 .. 7
      PROVE  (8 * b + k) \div 8 = b /\ (8 * b + k) % 8 = k
  OBVIOUS
<1>2. ASSUME NEW b \in Int, NEW k \in 0 .. 7
      PROVE  /\ Message!Place(b, k) = 8 * b + (7 - k)
             /\ Message!Place(b, k) \div 8 = b /\ Message!Place(b, k) % 8 = 7 - k
  BY DEF Message!Place
<1>3. \A x \in Int : x \div 8 \in Int /\ x % 8 \in 0 .. 7 /\ x = 8 * (x \div 8) + (x % 8)
  OBVIOUS
<1>4. QED
  BY <1>1, <1>2, <1>3

\* What the four turns of FloatBitpacking leave at bit i of a message: a bit of the float from
\* the first byte on, or-ed in the second part of each byte, what was there outside.
LEMMA ShiftedBits ==
  ASSUME NEW m \in [Message!Bits -> {0, 1}], NEW start \in 0 .. 32, start % 8 # 0,
         NEW data \in [Message!Bits -> {0, 1}], NEW i0 \in Message!Bits
  PROVE  LET b == start \div 8
             off == start % 8
             c == i0 \div 8
             k == 7 - (i0 % 8)
             float == Message!FloatBitpacking(m, start, data)
         IN  float[i0] =
               IF c - b \in 0 .. 3 /\ k >= off THEN data[Message!Place(c - b, k - off)]
               ELSE IF c - b \in 1 .. 4 /\ k < off
                    THEN Message!Or(m[i0], data[Message!Place(c - b - 1, 8 - off + k)])
                    ELSE m[i0]
<1> DEFINE b == start \div 8
           off == start % 8
           c == i0 \div 8
           k == 7 - (i0 % 8)
           new(j) == data[Message!Place(j, k - off)]
           rest(j) == data[Message!Place(j, 8 - off + k)]
           t1 == Message!PackByte(m, b + 0, off, data, 0)
           t2 == Message!PackByte(t1, b + 1, off, data, 1)
           t3 == Message!PackByte(t2, b + 2, off, data, 2)
           t4 == Message!PackByte(t3, b + 3, off, data, 3)
<1>1. Message!FloatBitpacking(m, start, data) = t4
  BY DEF Message!FloatBitpacking
<1>2. b \in Int /\ off \in 1 .. 7 /\ c \in Int /\ k \in 0 .. 7
  <2>1. start \in Int /\ i0 \in Int
    BY DEF Message!Bits
  <2>2. b \in Int /\ off \in 0 .. 7 /\ c \in Int /\ i0 % 8 \in 0 .. 7
    BY <2>1, BytesAndBits, Zenon
  <2>3. QED
    BY <2>2
<1>3. ASSUME NEW o, NEW d, NEW j
      PROVE  Message!PackByte(o, d, off, data, j)[i0] =
               IF c = d /\ k >= off THEN new(j)
               ELSE IF c = d + 1 /\ k < off THEN Message!Or(o[i0], rest(j)) ELSE o[i0]
  <2> HIDE DEF b, off, new, rest
  <2>1. Message!PackByte(o, d, off, data, j)[i0] =
          CASE c = d /\ k >= off -> data[Message!Place(j, k - off)]
            [] c = d + 1 /\ k < off -> Message!Or(o[i0], data[Message!Place(j, 8 - off + k)])
            [] OTHER -> o[i0]
    BY DEF Message!PackByte
  <2> HIDE DEF k, c
  <2>2. ~(k >= off /\ k < off)
    BY <1>2
  <2>3. QED
    BY <2>1, <2>2 DEF new, rest
<1> HIDE DEF b, off, c, k, new, rest
<1>4. /\ t1[i0] = IF c = b + 0 /\ k >= off THEN new(0)
                  ELSE IF c = (b + 0) + 1 /\ k < off THEN Message!Or(m[i0], rest(0)) ELSE m[i0]
      /\ t2[i0] = IF c = b + 1 /\ k >= off THEN new(1)
                  ELSE IF c = (b + 1) + 1 /\ k < off THEN Message!Or(t1[i0], rest(1)) ELSE t1[i0]
      /\ t3[i0] = IF c = b + 2 /\ k >= off THEN new(2)
                  ELSE IF c = (b + 2) + 1 /\ k < off THEN Message!Or(t2[i0], rest(2)) ELSE t2[i0]
      /\ t4[i0] = IF c = b + 3 /\ k >= off THEN new(3)
                  ELSE IF c = (b + 3) + 1 /\ k < off THEN Message!Or(t3[i0], rest(3)) ELSE t3[i0]
  BY <1>3
<1> HIDE DEF t1, t2, t3, t4
<1>5. t4[i0] = IF c - b \in 0 .. 3 /\ k >= off THEN new(c - b)
               ELSE IF c - b \in 1 .. 4 /\ k < off THEN Message!Or(m[i0], rest(c - b - 1))
                    ELSE m[i0]
  <2>1. CASE c - b \in 0 .. 3 /\ k >= off
    <3>1. k < off <=> FALSE
      BY <1>2, <2>1
    <3>2. c - b = 0 \/ c - b = 1 \/ c - b = 2 \/ c - b = 3
      BY <1>2, <2>1
    <3>3. t4[i0] = new(c - b)
      BY <1>2, <1>4, <2>1, <3>1, <3>2
    <3>4. QED
      BY <2>1, <3>3
  <2>2. CASE c - b \in 1 .. 4 /\ k < off
    <3>1. k >= off <=> FALSE
      BY <1>2, <2>2
    <3>2. c - b = 1 \/ c - b = 2 \/ c - b = 3 \/ c - b = 4
      BY <1>2, <2>2
    <3>3. t4[i0] = Message!Or(m[i0], rest(c - b - 1))
      BY <1>2, <1>4, <2>2, <3>1, <3>2
    <3>4. QED
      BY <2>2, <3>1, <3>3
  <2>3. CASE ~(c - b \in 0 .. 3 /\ k >= off) /\ ~(c - b \in 1 .. 4 /\ k < off)
    BY <1>2, <1>4, <2>3
  <2>4. QED
    BY <2>1, <2>2, <2>3
<1>6. QED
  BY <1>1, <1>5 DEF b, off, c, k, new, rest

\* Of a message m, the bits of field f hold the value v.
Holds(m, f, v) ==
  CASE f.kind = "integer" -> \A j \in 0 .. f.width - 1 : m[f.start + j] = Message!BitOf(v, j)
    [] f.kind = "float" ->
         IF f.start % 8 = 0 THEN \A j \in 0 .. 31 : m[f.start + j] = v[j]
         ELSE \A j \in 0 .. 31 :
                m[Message!Place((f.start + j) \div 8, (f.start + j) % 8)] = v[Message!Place(j \div 8, j % 8)]
    [] f.kind = "double" -> m = v

\* The three kinds of fields, by what is assumed of them
LEMMA FieldTypes ==
  ASSUME Message!CanMessageAssumption, NEW f \in Fields
  PROVE  \/ /\ f.kind = "integer" /\ f.start \in Message!Bits /\ f.width \in 0 .. IntSize
            /\ f.start + f.width <= 64 /\ ~Message!Shifted(f)
            /\ Message!BitsOf(f) = f.start .. f.start + f.width - 1 /\ Message!Values(f) = Ints
         \/ /\ f.kind = "float" /\ f.start \in 0 .. 32 /\ f.start % 8 = 0 /\ ~Message!Shifted(f)
            /\ Message!BitsOf(f) = f.start .. f.start + 31 /\ Message!Values(f) = Patterns
         \/ /\ f.kind = "float" /\ f.start \in 0 .. 32 /\ f.start % 8 # 0 /\ Message!Shifted(f)
            /\ Message!BitsOf(f) = {Message!Place((x \div 8), (x % 8)) : x \in f.start .. f.start + 31}
            /\ Message!Values(f) = Patterns
         \/ /\ f.kind = "double" /\ Message!BitsOf(f) = Message!Bits /\ ~Message!Shifted(f)
            /\ Message!Values(f) = Patterns
<1>1. \/ /\ f.kind = "integer" /\ f.start \in Message!Bits /\ f.width \in 0 .. IntSize
         /\ f.start + f.width <= 64
      \/ f.kind = "float" /\ f.start \in 0 .. 32 /\ f.width = 32
      \/ f.kind = "double" /\ f.start = 0 /\ f.width = 64
  BY DEF Message!CanMessageAssumption
<1>2. CASE f.kind = "integer"
  BY <1>1, <1>2 DEF Message!Shifted, Message!BitsOf, Message!Values
<1>3. CASE f.kind = "float"
  <2>1. f.start \in 0 .. 32 /\ f.width = 32 /\ f.start + f.width - 1 = f.start + 31
    BY <1>1, <1>3
  <2>2. Message!Values(f) = Patterns
    BY <1>3 DEF Message!Values
  <2>3. CASE f.start % 8 = 0
    BY <1>3, <2>1, <2>2, <2>3 DEF Message!Shifted, Message!BitsOf
  <2>4. CASE f.start % 8 # 0
    <3>1. Message!Shifted(f)
      BY <1>3, <2>4 DEF Message!Shifted
    <3>2. QED
      BY <1>3, <2>1, <2>2, <2>4, <3>1 DEF Message!BitsOf
  <2>5. QED
    BY <2>3, <2>4
<1>4. CASE f.kind = "double"
  <2>1. f.start .. f.start + f.width - 1 = 0 .. 63
    BY <1>1, <1>4
  <2>2. QED
    BY <1>1, <1>4, <2>1 DEF Message!Shifted, Message!BitsOf, Message!Values, Message!Bits
<1>5. QED
  BY <1>1, <1>2, <1>3, <1>4

\* A bit of a shifted float is in a byte from its first on, behind the shift in that byte, and
\* before it in the last.
LEMMA ShiftedPlaces ==
  ASSUME NEW start \in 0 .. 31, start % 8 # 0
  PROVE  LET b == start \div 8
             off == start % 8
             In(i0) == \/ (i0 \div 8) - b \in 0 .. 3 /\ 7 - (i0 % 8) >= off
                       \/ (i0 \div 8) - b \in 1 .. 4 /\ 7 - (i0 % 8) < off
             S == {Message!Place((x \div 8), (x % 8)) : x \in start .. start + 31}
         IN  S \subseteq Message!Bits /\ \A i0 \in Message!Bits : In(i0) => i0 \in S
<1> DEFINE b == start \div 8
           off == start % 8
           S == {Message!Place((x \div 8), (x % 8)) : x \in start .. start + 31}
<1>1. b \in Int /\ off \in 0 .. 7 /\ start = 8 * b + off
  <2>1. start \in Int
    OBVIOUS
  <2>2. QED
    BY <2>1, BytesAndBits, Zenon
<1>2. S \subseteq Message!Bits
  <2> SUFFICES ASSUME NEW x \in start .. start + 31
               PROVE  Message!Place((x \div 8), (x % 8)) \in Message!Bits
    OBVIOUS
  <2> DEFINE c == x \div 8
             k == x % 8
  <2>1. c \in Int /\ k \in 0 .. 7 /\ x = 8 * c + k
    <3>1. x \in Int
      OBVIOUS
    <3>2. QED
      BY <3>1, BytesAndBits, Zenon
  <2>2. Message!Place(c, k) = 8 * c + (7 - k)
    BY DEF Message!Place
  <2> HIDE DEF c, k
  <2>3. 0 <= x /\ x <= 62
    OBVIOUS
  <2>4. c >= 0 /\ c <= 7
    BY <2>1, <2>3
  <2>5. Message!Place(c, k) \in 0 .. 63
    BY <2>1, <2>2, <2>4
  <2>6. QED
    BY <2>5 DEF c, k, Message!Bits
<1>3. ASSUME NEW i0 \in Message!Bits,
             \/ (i0 \div 8) - b \in 0 .. 3 /\ 7 - (i0 % 8) >= off
             \/ (i0 \div 8) - b \in 1 .. 4 /\ 7 - (i0 % 8) < off
      PROVE  i0 \in S
  <2> DEFINE c == i0 \div 8
             r == i0 % 8
             k == 7 - r
             x == 8 * c + k
  <2>1. c \in Int /\ r \in 0 .. 7 /\ i0 = 8 * c + r
    <3>1. i0 \in Int
      BY DEF Message!Bits
    <3>2. QED
      BY <3>1, BytesAndBits, Zenon
  <2>2. (c - b \in 0 .. 3 /\ k >= off) \/ (c - b \in 1 .. 4 /\ k < off)
    BY <1>3
  <2> HIDE DEF c, r, b, off
  <2>3. k \in 0 .. 7 /\ x \in start .. start + 31
    BY <1>1, <2>1, <2>2
  <2>4. x \div 8 = c /\ x % 8 = k
    BY <2>1, <2>3
  <2>5. Message!Place(c, k) = i0
    BY <2>1 DEF Message!Place
  <2> HIDE DEF x, k
  <2>6. Message!Place((x \div 8), (x % 8)) = i0
    BY <2>4, <2>5
  <2>7. QED
    BY <2>3, <2>6
<1>4. QED
  BY <1>2, <1>3

\* A shifted float changes no bit of other fields, and is there when its place was clear.
LEMMA ShiftedFloat ==
  ASSUME NEW m \in [Message!Bits -> {0, 1}], NEW start \in 0 .. 32, start % 8 # 0,
         NEW data \in [Message!Bits -> {0, 1}]
  PROVE  LET S == {Message!Place((x \div 8), (x % 8)) : x \in start .. start + 31}
             float == Message!FloatBitpacking(m, start, data)
         IN  /\ float \in [Message!Bits -> {0, 1}]
             /\ \A i0 \in Message!Bits \ S : float[i0] = m[i0]
             /\ (\A i0 \in S : m[i0] # 1) =>
                  \A j \in 0 .. 31 :
                    float[Message!Place((start + j) \div 8, (start + j) % 8)] = data[Message!Place(j \div 8, j % 8)]
<1> DEFINE b == start \div 8
           off == start % 8
           S == {Message!Place((x \div 8), (x % 8)) : x \in start .. start + 31}
           float == Message!FloatBitpacking(m, start, data)
<1>1. start \in 0 .. 31 /\ b \in Int /\ off \in 1 .. 7 /\ start = 8 * b + off
  <2>1. start \in Int
    OBVIOUS
  <2>2. b \in Int /\ off \in 0 .. 7 /\ start = 8 * b + off
    BY <2>1, BytesAndBits, Zenon
  <2>3. QED
    BY <2>2
<1>2. S \subseteq Message!Bits
  BY <1>1, ShiftedPlaces
<1>3. \A i0 \in Message!Bits :
        \/ (i0 \div 8) - b \in 0 .. 3 /\ 7 - (i0 % 8) >= off
        \/ (i0 \div 8) - b \in 1 .. 4 /\ 7 - (i0 % 8) < off
        => i0 \in S
  BY <1>1, ShiftedPlaces
<1>4. ASSUME NEW i0 \in Message!Bits
      PROVE  float[i0] =
               IF (i0 \div 8) - b \in 0 .. 3 /\ 7 - (i0 % 8) >= off
               THEN data[Message!Place((i0 \div 8) - b, (7 - (i0 % 8)) - off)]
               ELSE IF (i0 \div 8) - b \in 1 .. 4 /\ 7 - (i0 % 8) < off
                    THEN Message!Or(m[i0], data[Message!Place((i0 \div 8) - b - 1, 8 - off + (7 - (i0 % 8)))])
                    ELSE m[i0]
  BY ShiftedBits
<1>5. \A c \in 0 .. 7 : \A k \in 0 .. 7 : Message!Place(c, k) \in Message!Bits
  BY DEF Message!Place, Message!Bits
<1>6. ASSUME NEW i0 \in Message!Bits
      PROVE  float[i0] \in {0, 1} /\ (i0 \notin S => float[i0] = m[i0])
  <2> DEFINE c == i0 \div 8
             r == i0 % 8
             k == 7 - r
  <2>1. c \in 0 .. 7 /\ r \in 0 .. 7
    <3>1. i0 \in Int /\ 0 <= i0 /\ i0 <= 63
      BY DEF Message!Bits
    <3>2. c \in Int /\ r \in 0 .. 7 /\ i0 = 8 * c + r
      BY <3>1, BytesAndBits, Zenon
    <3>3. QED
      BY <3>1, <3>2
  <2>2. float[i0] =
          IF c - b \in 0 .. 3 /\ k >= off THEN data[Message!Place(c - b, k - off)]
          ELSE IF c - b \in 1 .. 4 /\ k < off
               THEN Message!Or(m[i0], data[Message!Place(c - b - 1, 8 - off + k)])
               ELSE m[i0]
    BY <1>4
  <2>3. (c - b \in 0 .. 3 /\ k >= off) \/ (c - b \in 1 .. 4 /\ k < off) => i0 \in S
    BY <1>3
  <2> HIDE DEF c, r, b, off, S, float
  <2>4. k \in 0 .. 7
    BY <2>1
  <2>5. CASE c - b \in 0 .. 3 /\ k >= off
    <3>1. c - b \in 0 .. 7 /\ k - off \in 0 .. 7
      BY <1>1, <2>1, <2>4, <2>5
    <3>2. Message!Place(c - b, k - off) \in Message!Bits
      BY <1>5, <3>1
    <3>3. QED
      BY <2>2, <2>3, <2>5, <3>2
  <2>6. CASE ~(c - b \in 0 .. 3 /\ k >= off) /\ c - b \in 1 .. 4 /\ k < off
    BY <2>2, <2>3, <2>6 DEF Message!Or
  <2>7. CASE ~(c - b \in 0 .. 3 /\ k >= off) /\ ~(c - b \in 1 .. 4 /\ k < off)
    BY <2>2, <2>7
  <2>8. QED
    BY <2>5, <2>6, <2>7
<1>7. float \in [Message!Bits -> {0, 1}]
  <2>1. float = [i0 \in Message!Bits |-> float[i0]]
    <3>1. float = Message!PackByte(Message!PackByte(Message!PackByte(Message!PackByte(m,
                    b + 0, off, data, 0), b + 1, off, data, 1), b + 2, off, data, 2), b + 3, off, data, 3)
      BY DEF Message!FloatBitpacking
    <3> HIDE DEF b, off, float
    <3>2. \A o : Message!PackByte(o, b + 3, off, data, 3) =
                  [i0 \in Message!Bits |-> Message!PackByte(o, b + 3, off, data, 3)[i0]]
      BY DEF Message!PackByte
    <3>3. QED
      BY <3>1, <3>2, Zenon
  <2> HIDE DEF float
  <2>2. QED
    BY <1>6, <2>1
<1>8. ASSUME \A i0 \in S : m[i0] # 1, NEW j \in 0 .. 31
      PROVE  float[Message!Place((start + j) \div 8, (start + j) % 8)] = data[Message!Place(j \div 8, j % 8)]
  <2> DEFINE x == start + j
             c == x \div 8
             k == x % 8
             d == j \div 8
             t == j % 8
             i0 == Message!Place(c, k)
  <2>1. i0 \in S
    <3>1. x \in start .. start + 31
      BY <1>1
    <3> HIDE DEF x
    <3>2. QED
      BY <3>1, Zenon
  <2>2. i0 \in Message!Bits
    BY <1>2, <2>1
  <2>3. /\ c \in Int /\ k \in 0 .. 7 /\ x = 8 * c + k
        /\ d \in Int /\ t \in 0 .. 7 /\ j = 8 * d + t
    <3>1. x \in Int /\ j \in Int
      BY <1>1
    <3>2. QED
      BY <3>1, BytesAndBits, Zenon
  <2> HIDE DEF c, k
  <2>4. i0 \div 8 = c /\ i0 % 8 = 7 - k
    BY <2>3, BytesAndBits, Zenon
  <2>5. 7 - (i0 % 8) = k
    BY <2>3, <2>4
  <2>6. float[i0] =
          IF c - b \in 0 .. 3 /\ k >= off THEN data[Message!Place(c - b, k - off)]
          ELSE IF c - b \in 1 .. 4 /\ k < off
               THEN Message!Or(m[i0], data[Message!Place(c - b - 1, 8 - off + k)])
               ELSE m[i0]
    BY <1>4, <2>2, <2>4, <2>5
  <2>7. m[i0] = 0
    BY <1>8, <2>1, <2>2
  <2> HIDE DEF i0, d, t, b, off, S, float
  <2>8. x = start + j /\ d \in 0 .. 3
    BY <2>3
  <2> HIDE DEF x
  <2>9. CASE t + off < 8
    <3>1. c - b = d /\ k - off = t
      BY <1>1, <2>3, <2>8, <2>9
    <3>2. c - b \in 0 .. 3 /\ k >= off
      BY <1>1, <2>3, <2>8, <3>1
    <3>3. QED
      BY <2>6, <3>1, <3>2 DEF i0, c, k, x, d, t
  <2>10. CASE t + off >= 8
    <3>1. c - b = d + 1 /\ 8 - off + k = t
      BY <1>1, <2>3, <2>8, <2>10
    <3>2. c - b \in 1 .. 4 /\ k < off /\ ~(k >= off) /\ c - b - 1 = d
      BY <1>1, <2>3, <2>8, <3>1
    <3>3. d \in 0 .. 7
      BY <2>8
    <3>4. Message!Place(d, t) \in Message!Bits
      BY <1>5, <2>3, <3>3
    <3>5. data[Message!Place(d, t)] \in {0, 1}
      BY <3>4
    <3>6. float[i0] = Message!Or(m[i0], data[Message!Place(d, t)])
      BY <2>6, <3>1, <3>2
    <3>7. float[i0] = data[Message!Place(d, t)]
      BY <2>7, <3>5, <3>6 DEF Message!Or
    <3>8. QED
      BY <3>7 DEF i0, c, k, x, d, t
  <2>11. QED
    BY <1>1, <2>3, <2>9, <2>10
<1>9. QED
  BY <1>6, <1>7, <1>8

\* What is packed are values of an int.
LEMMA IntTypes ==
  ASSUME Message!CanMessageAssumption
  PROVE  /\ IntSize \in Nat /\ Message!SignBit \in Nat \ {0} /\ Ints \subseteq Int
         /\ Ints \subseteq -Message!SignBit .. Message!SignBit - 1
<1>1. IntSize \in Nat /\ IntSize - 1 \in Nat /\ Ints \subseteq -Message!SignBit .. Message!SignBit - 1
  BY DEF Message!CanMessageAssumption
<1>2. Message!SignBit \in Nat \ {0}
  BY <1>1, Powers DEF Message!SignBit
<1>3. QED
  BY <1>1, <1>2

\* A message, with the value v packed into field f
PackedInto(m, f, v) ==
  CASE f.kind = "integer" -> Message!IntegerBitpacking(m, f.start, f.width, v)
    [] f.kind = "float"   -> Message!FloatBitpacking(m, f.start, v)
    [] f.kind = "double"  -> Message!DoubleBitpacking(v)

\* Packing changes the bits of the field only, and they hold the value, unless it is a shifted
\* float and one of them was set.
LEMMA PackedBits ==
  ASSUME Message!CanMessageAssumption, NEW m \in [Message!Bits -> {0, 1}], NEW f \in Fields,
         NEW v \in Message!Values(f)
  PROVE  /\ PackedInto(m, f, v) \in [Message!Bits -> {0, 1}]
         /\ \A i0 \in Message!Bits \ Message!BitsOf(f) : PackedInto(m, f, v)[i0] = m[i0]
         /\ Holds(PackedInto(m, f, v), f, v) \/ (Message!Shifted(f) /\ \E i0 \in Message!BitsOf(f) : m[i0] = 1)
<1>1. CASE f.kind = "integer"
  <2> DEFINE start == f.start
             width == f.width
             new == Message!IntegerBitpacking(m, start, width, v)
  <2>1. /\ start \in Message!Bits /\ width \in 0 .. IntSize /\ start + width <= 64
        /\ Message!BitsOf(f) = start .. start + width - 1 /\ v \in Ints
    BY <1>1, FieldTypes
  <2>2. PackedInto(m, f, v) = new
    BY <1>1 DEF PackedInto
  <2>3. Holds(new, f, v) <=> \A j \in 0 .. width - 1 : new[start + j] = Message!BitOf(v, j)
    BY <1>1 DEF Holds
  <2> HIDE DEF start, width
  <2>4. start \in 0 .. 63 /\ width \in Nat /\ start + width <= 64 /\ v \in Int
    BY <2>1, IntTypes DEF Message!Bits
  <2>5. \A j \in Nat : Message!BitOf(v, j) \in {0, 1}
    BY <2>4, Powers, NextBit DEF Message!BitOf
  <2>6. \A i0 \in Message!Bits :
          new[i0] = IF i0 \in start .. start + width - 1 THEN Message!BitOf(v, i0 - start) ELSE m[i0]
    BY DEF Message!IntegerBitpacking
  <2>7. new = [i0 \in Message!Bits |-> new[i0]]
    BY DEF Message!IntegerBitpacking
  <2> HIDE DEF new
  <2>8. ASSUME NEW i0 \in Message!Bits PROVE new[i0] \in {0, 1}
    <3>1. i0 \in start .. start + width - 1 => i0 - start \in Nat
      BY <2>4
    <3>2. QED
      BY <2>5, <2>6, <3>1
  <2>9. ASSUME NEW j \in 0 .. width - 1 PROVE new[start + j] = Message!BitOf(v, j)
    <3>1. /\ start + j \in 0 .. 63 /\ start + j \in start .. start + width - 1
          /\ (start + j) - start = j
      BY <2>4
    <3>2. start + j \in Message!Bits
      BY <3>1 DEF Message!Bits
    <3>3. QED
      BY <2>6, <3>1, <3>2
  <2>10. QED
    BY <2>1, <2>2, <2>3, <2>6, <2>7, <2>8, <2>9
<1>2. CASE f.kind = "float" /\ f.start % 8 = 0
  <2> DEFINE start == f.start
             new == [i0 \in Message!Bits |-> IF i0 \in start .. start + 31 THEN v[i0 - start] ELSE m[i0]]
  <2>1. /\ start \in 0 .. 32 /\ Message!BitsOf(f) = start .. start + 31
        /\ v \in [Message!Bits -> {0, 1}]
    BY <1>2, FieldTypes DEF Message!CanMessageAssumption
  <2>2. PackedInto(m, f, v) = new
    BY <1>2, SMTT(30) DEF PackedInto, Message!FloatBitpacking
  <2>3. Holds(new, f, v) <=> \A j \in 0 .. 31 : new[start + j] = v[j]
    BY <1>2 DEF Holds
  <2> HIDE DEF start
  <2>4. ASSUME NEW i0 \in Message!Bits
        PROVE  new[i0] \in {0, 1} /\ (i0 \notin start .. start + 31 => new[i0] = m[i0])
    <3>1. i0 \in start .. start + 31 => i0 - start \in Message!Bits
      BY <2>1 DEF Message!Bits
    <3>2. QED
      BY <2>1, <3>1
  <2>5. ASSUME NEW j \in 0 .. 31 PROVE new[start + j] = v[j]
    <3>1. start + j \in 0 .. 63 /\ start + j \in start .. start + 31 /\ (start + j) - start = j
      BY <2>1
    <3>2. start + j \in Message!Bits
      BY <3>1 DEF Message!Bits
    <3>3. QED
      BY <3>1, <3>2
  <2>6. new = [i0 \in Message!Bits |-> new[i0]]
    OBVIOUS
  <2> HIDE DEF new
  <2>7. QED
    BY <2>1, <2>2, <2>3, <2>4, <2>5, <2>6
<1>3. CASE f.kind = "float" /\ f.start % 8 # 0
  <2>1. /\ f.start \in 0 .. 32 /\ Message!Shifted(f) /\ v \in [Message!Bits -> {0, 1}]
        /\ Message!BitsOf(f) = {Message!Place((x \div 8), (x % 8)) : x \in f.start .. f.start + 31}
    BY <1>3, FieldTypes DEF Message!CanMessageAssumption
  <2> DEFINE new == Message!FloatBitpacking(m, f.start, v)
             S == {Message!Place((x \div 8), (x % 8)) : x \in f.start .. f.start + 31}
  <2>2. PackedInto(m, f, v) = new
    BY <1>3, SMTT(30) DEF PackedInto
  <2>3. /\ new \in [Message!Bits -> {0, 1}]
        /\ \A i0 \in Message!Bits \ S : new[i0] = m[i0]
        /\ (\A i0 \in S : m[i0] # 1) =>
             \A j \in 0 .. 31 :
               new[Message!Place((f.start + j) \div 8, (f.start + j) % 8)] = v[Message!Place(j \div 8, j % 8)]
    BY <1>3, <2>1, ShiftedFloat
  <2>4. Message!BitsOf(f) = S
    BY <2>1
  <2> HIDE DEF S, new
  <2>5. CASE \A i0 \in S : m[i0] # 1
    <3>1. Holds(new, f, v)
      BY <1>3, <2>3, <2>5 DEF Holds
    <3>2. QED
      BY <2>2, <2>3, <2>4, <3>1
  <2>6. CASE \E i0 \in S : m[i0] = 1
    BY <2>1, <2>2, <2>3, <2>4, <2>6
  <2>7. QED
    BY <2>5, <2>6
<1>4. CASE f.kind = "double"
  <2>1. Message!BitsOf(f) = Message!Bits /\ v \in [Message!Bits -> {0, 1}]
    BY <1>4, FieldTypes DEF Message!CanMessageAssumption
  <2>2. PackedInto(m, f, v) = v
    BY <1>4 DEF PackedInto, Message!DoubleBitpacking
  <2>3. QED
    BY <1>4, <2>1, <2>2 DEF Holds
<1>5. QED
  BY <1>1, <1>2, <1>3, <1>4, FieldTypes

\* A field holds what it held while its bits stay.
LEMMA HoldsOn ==
  ASSUME Message!CanMessageAssumption, NEW m \in [Message!Bits -> {0, 1}],
         NEW o \in [Message!Bits -> {0, 1}], NEW f \in Fields, NEW v, Holds(m, f, v),
         \A i0 \in Message!BitsOf(f) : o[i0] = m[i0]
  PROVE  Holds(o, f, v)
<1>1. CASE f.kind = "integer"
  <2> DEFINE start == f.start
             width == f.width
  <2>1. /\ start \in Message!Bits /\ width \in 0 .. IntSize
        /\ Message!BitsOf(f) = start .. start + width - 1
    BY <1>1, FieldTypes
  <2> HIDE DEF start, width
  <2>2. \A j \in 0 .. width - 1 : start + j \in start .. start + width - 1
    BY <2>1, IntTypes, SMTT(30) DEF Message!Bits
  <2> USE DEF start, width
  <2>3. QED
    BY <1>1, <2>1, <2>2 DEF Holds
<1>2. CASE f.kind = "float" /\ f.start % 8 = 0
  <2> DEFINE start == f.start
  <2>1. start \in 0 .. 32 /\ Message!BitsOf(f) = start .. start + 31
    BY <1>2, FieldTypes
  <2> HIDE DEF start
  <2>2. \A j \in 0 .. 31 : start + j \in start .. start + 31
    BY <2>1
  <2> USE DEF start
  <2>3. QED
    BY <1>2, <2>1, <2>2 DEF Holds
<1>3. CASE f.kind = "float" /\ f.start % 8 # 0
  <2>1. /\ f.start \in 0 .. 32
        /\ Message!BitsOf(f) = {Message!Place((x \div 8), (x % 8)) : x \in f.start .. f.start + 31}
    BY <1>3, FieldTypes
  <2>2. ASSUME NEW j \in 0 .. 31
        PROVE  Message!Place((f.start + j) \div 8, (f.start + j) % 8) \in Message!BitsOf(f)
    <3> DEFINE x == f.start + j
    <3>1. x \in f.start .. f.start + 31
      BY <2>1
    <3> HIDE DEF x
    <3>2. Message!Place((x \div 8), (x % 8)) \in Message!BitsOf(f)
      BY <2>1, <3>1, Zenon
    <3>3. QED
      BY <3>2 DEF x
  <2>3. QED
    BY <1>3, <2>2 DEF Holds
<1>4. CASE f.kind = "double"
  <2>1. Message!BitsOf(f) = Message!Bits
    BY <1>4, FieldTypes
  <2>2. o = m
    BY <2>1
  <2>3. QED
    BY <1>4, <2>2
<1>5. QED
  BY <1>1, <1>2, <1>3, <1>4, FieldTypes

\* A field that holds a value unpacks to it.
LEMMA HoldsReads ==
  ASSUME Message!CanMessageAssumption, Message!TypeOK, NEW f \in DOMAIN packed,
         Holds(msg, f, packed[f])
  PROVE  Message!Unpacks(f)
<1>1. f \in Fields /\ packed[f] \in Message!Values(f) /\ msg \in [Message!Bits -> {0, 1}]
  BY DEF Message!TypeOK
<1>2. CASE f.kind = "integer"
  <2>1. /\ f.start \in Message!Bits /\ f.width \in 0 .. IntSize /\ f.start + f.width <= 64
        /\ packed[f] \in -Message!SignBit .. Message!SignBit - 1
    BY <1>1, <1>2, FieldTypes DEF Message!CanMessageAssumption
  <2>2. \A j \in 0 .. f.width - 1 : msg[f.start + j] = Message!BitOf(packed[f], j)
    BY <1>2 DEF Holds
  <2>3. Message!IntegerBitunpacking(msg, f.start, f.width) =
          IF f.width = IntSize THEN packed[f] ELSE packed[f] % Message!PowerOfTwo(f.width)
    BY <1>1, <2>1, <2>2, Unpacked
  <2>4. QED
    BY <1>2, <2>3 DEF Message!Unpacks
<1>3. CASE f.kind = "float" /\ f.start % 8 = 0
  <2>1. \A j \in 0 .. 31 : msg[f.start + j] = packed[f][j]
    BY <1>3 DEF Holds
  <2>2. Message!FloatBitunpacking(msg, f.start) = [j \in 0 .. 31 |-> msg[f.start + j]]
    BY <1>3 DEF Message!FloatBitunpacking
  <2>3. QED
    BY <1>3, <2>1, <2>2 DEF Message!Unpacks
<1>4. CASE f.kind = "float" /\ f.start % 8 # 0
  <2> DEFINE b == f.start \div 8
             off == f.start % 8
             float == Message!FloatBitunpacking(msg, f.start)
  <2>1. f.start \in 0 .. 32
    BY <1>1, <1>4, FieldTypes
  <2>2. \A j \in 0 .. 31 :
          msg[Message!Place((f.start + j) \div 8, (f.start + j) % 8)] = packed[f][Message!Place(j \div 8, j % 8)]
    BY <1>4 DEF Holds
  <2>3. b \in Int /\ off \in 1 .. 7 /\ f.start = 8 * b + off
    <3>1. f.start \in Int
      BY <2>1
    <3>2. b \in Int /\ off \in 0 .. 7 /\ f.start = 8 * b + off
      BY <3>1, BytesAndBits, Zenon
    <3>3. QED
      BY <1>4, <3>2
  <2>4. float = [i0 \in 0 .. 31 |->
                   IF (7 - (i0 % 8)) + off < 8
                   THEN msg[Message!Place(b + (i0 \div 8), (7 - (i0 % 8)) + off)]
                   ELSE msg[Message!Place(b + (i0 \div 8) + 1, (7 - (i0 % 8)) + off - 8)]]
    BY <1>4 DEF Message!FloatBitunpacking
  <2>5. ASSUME NEW i0 \in 0 .. 31 PROVE float[i0] = packed[f][i0]
    <3> DEFINE d == i0 \div 8
               r == i0 % 8
               k == 7 - r
               j == 8 * d + k
               x == f.start + j
    <3>1. d \in Int /\ r \in 0 .. 7 /\ i0 = 8 * d + r
      <4>1. i0 \in Int
        OBVIOUS
      <4>2. QED
        BY <4>1, BytesAndBits, Zenon
    <3>2. float[i0] = IF k + off < 8 THEN msg[Message!Place(b + d, k + off)]
                      ELSE msg[Message!Place(b + d + 1, k + off - 8)]
      BY <2>4
    <3> HIDE DEF d, r, b, off, float
    <3>3. k \in 0 .. 7 /\ d \in 0 .. 3 /\ j \in 0 .. 31
      BY <3>1
    <3>4. j \div 8 = d /\ j % 8 = k
      <4>1. d \in Int
        BY <3>1
      <4>2. QED
        BY <3>3, <4>1, BytesAndBits, Zenon
    <3>5. Message!Place(d, k) = i0
      BY <3>1, <3>3 DEF Message!Place
    <3>6. msg[Message!Place(x \div 8, x % 8)] = packed[f][i0]
      BY <2>2, <3>3, <3>4, <3>5
    <3>7. CASE k + off < 8
      <4>1. x = 8 * (b + d) + (k + off) /\ b + d \in Int /\ k + off \in 0 .. 7
        BY <2>3, <3>3, <3>7
      <4>2. (8 * (b + d) + (k + off)) \div 8 = b + d /\ (8 * (b + d) + (k + off)) % 8 = k + off
        BY <4>1, BytesAndBits, Zenon
      <4>3. x \div 8 = b + d /\ x % 8 = k + off
        BY <4>1, <4>2
      <4> HIDE DEF x, j
      <4>4. QED
        BY <3>2, <3>6, <3>7, <4>3
    <3>8. CASE k + off >= 8
      <4>1. /\ x = 8 * (b + d + 1) + (k + off - 8) /\ b + d + 1 \in Int /\ k + off - 8 \in 0 .. 7
            /\ ~(k + off < 8)
        BY <2>3, <3>3, <3>8
      <4>2. /\ (8 * (b + d + 1) + (k + off - 8)) \div 8 = b + d + 1
            /\ (8 * (b + d + 1) + (k + off - 8)) % 8 = k + off - 8
        BY <4>1, BytesAndBits, Zenon
      <4>3. x \div 8 = b + d + 1 /\ x % 8 = k + off - 8
        BY <4>1, <4>2
      <4> HIDE DEF x, j
      <4>4. QED
        BY <3>2, <3>6, <4>1, <4>3
    <3>9. QED
      BY <2>3, <3>3, <3>7, <3>8
  <2>6. float = [i0 \in 0 .. 31 |-> packed[f][i0]]
    <3>1. float = [i0 \in 0 .. 31 |-> float[i0]]
      BY <2>4
    <3> HIDE DEF float
    <3>2. QED
      BY <2>5, <3>1
  <2>7. QED
    BY <1>4, <2>6 DEF Message!Unpacks
<1>5. CASE f.kind = "double"
  BY <1>5 DEF Holds, Message!Unpacks, Message!DoubleBitunpacking
<1>6. QED
  BY <1>1, <1>2, <1>3, <1>4, <1>5, FieldTypes

\* The bits of a field are bits of the message.
LEMMA BitsOfMessage ==
  ASSUME Message!CanMessageAssumption, NEW f \in Fields
  PROVE  Message!BitsOf(f) \subseteq Message!Bits
<1>1. CASE f.kind = "integer"
  <2> DEFINE start == f.start
             width == f.width
  <2>1. /\ start \in Message!Bits /\ width \in 0 .. IntSize /\ start + width <= 64
        /\ Message!BitsOf(f) = start .. start + width - 1
    BY <1>1, FieldTypes
  <2> HIDE DEF start, width
  <2>2. start .. start + width - 1 \subseteq 0 .. 63
    BY <2>1, IntTypes DEF Message!Bits
  <2>3. QED
    BY <2>1, <2>2 DEF Message!Bits
<1>2. CASE f.kind = "float" /\ f.start % 8 = 0
  <2> DEFINE start == f.start
  <2>1. start \in 0 .. 32 /\ Message!BitsOf(f) = start .. start + 31
    BY <1>2, FieldTypes
  <2> HIDE DEF start
  <2>2. start .. start + 31 \subseteq 0 .. 63
    BY <2>1
  <2>3. QED
    BY <2>1, <2>2 DEF Message!Bits
<1>3. CASE f.kind = "float" /\ f.start % 8 # 0
  <2> DEFINE start == f.start
  <2>1. /\ start \in 0 .. 32 /\ start % 8 # 0
        /\ Message!BitsOf(f) = {Message!Place((x \div 8), (x % 8)) : x \in start .. start + 31}
    BY <1>3, FieldTypes
  <2> HIDE DEF start
  <2>2. start \in 0 .. 31
    BY <2>1
  <2>3. QED
    BY <2>1, <2>2, ShiftedPlaces
<1>4. CASE f.kind = "double"
  BY <1>4, FieldTypes
<1>5. QED
  BY <1>1, <1>2, <1>3, <1>4, FieldTypes

\* Every field whose value was not lost holds it.
FieldsHold == \A f \in DOMAIN packed \ dirty : Holds(msg, f, packed[f])

MessageIInv == Message!TypeOK /\ FieldsHold

\* The invariant holds in the initial states.
LEMMA InitMessageIInv == ASSUME Message!Init PROVE MessageIInv
<1>1. DOMAIN packed = {} /\ dirty = {} /\ msg \in [Message!Bits -> {0, 1}]
  BY DEF Message!Init
<1>2. QED
  BY <1>1 DEF MessageIInv, FieldsHold, Message!TypeOK

\* Every step keeps the invariant.
LEMMA MessageIInvStep ==
  ASSUME Message!CanMessageAssumption, MessageIInv, [Message!Next]_Message!vars
  PROVE  MessageIInv'
<1>1. Message!TypeOK /\ FieldsHold
  BY DEF MessageIInv
<1>2. ASSUME NEW f \in Fields, NEW v \in Message!Values(f), Message!Pack(f, v) PROVE MessageIInv'
  <2>1. msg \in [Message!Bits -> {0, 1}]
    BY <1>1 DEF Message!TypeOK
  <2>2. msg' = PackedInto(msg, f, v)
    BY <1>2 DEF Message!Pack, PackedInto
  <2>3. /\ msg' \in [Message!Bits -> {0, 1}]
        /\ \A i0 \in Message!Bits \ Message!BitsOf(f) : msg'[i0] = msg[i0]
        /\ Holds(msg', f, v) \/ (Message!Shifted(f) /\ \E i0 \in Message!BitsOf(f) : msg[i0] = 1)
    BY <2>1, <2>2, PackedBits
  <2>4. /\ packed' = [g \in {h \in DOMAIN packed : ~Message!Overlap(f, h)} \cup {f} |->
                        IF g = f THEN v ELSE packed[g]]
        /\ dirty' = IF Message!Shifted(f) /\ \E i0 \in Message!BitsOf(f) : msg[i0] = 1
                    THEN dirty \cup {f} ELSE dirty \ {f}
    BY <1>2 DEF Message!Pack
  <2>5. /\ DOMAIN packed' = {h \in DOMAIN packed : ~Message!Overlap(f, h)} \cup {f}
        /\ packed'[f] = v
        /\ \A g \in DOMAIN packed' : g # f => g \in DOMAIN packed /\ packed'[g] = packed[g] /\ ~Message!Overlap(f, g)
    BY <2>4
  <2>6. DOMAIN packed \subseteq Fields /\ dirty \subseteq Fields
        /\ \A g \in DOMAIN packed : packed[g] \in Message!Values(g)
    BY <1>1 DEF Message!TypeOK
  <2>7. dirty' \subseteq Fields
    BY <2>4, <2>6
  <2>8. Message!TypeOK'
    BY <2>3, <2>5, <2>6, <2>7 DEF Message!TypeOK
  <2>9. ASSUME NEW g \in DOMAIN packed' \ dirty' PROVE Holds(msg', g, packed'[g])
    <3>1. CASE g = f
      BY <2>3, <2>4, <2>5, <2>9, <3>1
    <3>2. CASE g # f
      <4>1. g \in DOMAIN packed \ dirty /\ g \in Fields /\ packed'[g] = packed[g] /\ ~Message!Overlap(f, g)
        BY <2>4, <2>5, <2>6, <3>2
      <4>2. Holds(msg, g, packed[g])
        BY <1>1, <4>1 DEF FieldsHold
      <4>3. \A i0 \in Message!BitsOf(g) : i0 \in Message!Bits \ Message!BitsOf(f)
        BY <4>1, BitsOfMessage DEF Message!Overlap
      <4>4. \A i0 \in Message!BitsOf(g) : msg'[i0] = msg[i0]
        BY <2>3, <4>3
      <4>5. QED
        BY <2>1, <2>3, <4>1, <4>2, <4>4, HoldsOn
    <3>3. QED
      BY <3>1, <3>2
  <2>10. QED
    BY <2>8, <2>9 DEF MessageIInv, FieldsHold
<1>3. CASE UNCHANGED Message!vars
  BY <1>1, <1>3 DEF MessageIInv, FieldsHold, Message!TypeOK, Message!vars
<1>4. QED
  BY <1>2, <1>3 DEF Message!Next

\* A step of the drivers is one of this driver, or leaves it alone.
LEMMA MessageSteps == ASSUME [DevicesNext]_DeviceVars PROVE [Message!Next]_Message!vars
  BY DEF DevicesNext, OthersRest, DeviceVars, MessageVars, Message!vars

\* In every state of the drivers its invariant holds.
LEMMA MessageInvariance == DevicesSpec => []MessageIInv
<1>1. DevicesInit => MessageIInv
  BY InitMessageIInv DEF DevicesInit
<1>2. MessageIInv /\ [DevicesNext]_DeviceVars => MessageIInv'
  <2> SUFFICES ASSUME MessageIInv, [DevicesNext]_DeviceVars PROVE MessageIInv'
    OBVIOUS
  <2>1. [Message!Next]_Message!vars
    BY MessageSteps
  <2>2. QED
    BY <2>1, MessageIInvStep, DevicesAssumption DEF DevicesAssumption
<1>3. QED
  BY <1>1, <1>2, PTL DEF DevicesSpec

\* The invariant says that fields read back.
LEMMA MessageIInvReads ==
  ASSUME Message!CanMessageAssumption, MessageIInv
  PROVE  Message!MessageRoundTrip
<1>1. Message!TypeOK /\ FieldsHold
  BY DEF MessageIInv
<1>2. ASSUME NEW f \in Fields \ dirty, f \in DOMAIN packed PROVE Message!Unpacks(f)
  BY <1>1, <1>2, HoldsReads DEF FieldsHold
<1>3. ASSUME NEW f \in Fields \ dirty, f \notin DOMAIN packed PROVE Message!Unpacks(f)
  BY <1>3 DEF Message!Unpacks
<1>4. QED
  BY <1>2, <1>3 DEF Message!MessageRoundTrip

----------------------------------------------------------------------------
(* The minimal packager (MinimalPackager) *)

\* The bytes of the items lie in the buffer one behind the other, each from where starts says.
Lie(buffer, items, starts) ==
  /\ starts \in [0 .. Len(items) -> Nat] /\ starts[0] = 0
  /\ \A k \in 1 .. Len(items) :
       /\ starts[k] = starts[k - 1] + Len(Packager!Bytes(items[k]))
       /\ starts[k] <= starts[Len(items)]
       /\ \A j \in 1 .. Len(Packager!Bytes(items[k])) :
            buffer[starts[k - 1] + j] = Packager!Bytes(items[k])[j]

Packagers ==
  [buffer : Seq(Nat), bufferSize : Sizes, pos : Nat, state : {"fine", "behind", "overflow"}]

PackagerTyped ==
  /\ from \in Packagers /\ to \in Packagers
  /\ Len(from.buffer) \in Sizes /\ Len(to.buffer) \in Sizes
  /\ added \in Seq(Packager!Items) /\ mspSent \in Seq(Packager!Items) /\ mspGot \in Seq(Seq(Nat))
  /\ Len(added) <= MaxItems /\ Len(mspGot) <= Len(mspSent)

\* A packager that is filled has the size it was created with, one that is set to a package not
\* more.
SizesKept == from.bufferSize = Len(from.buffer) /\ to.bufferSize <= Len(to.buffer)

\* What was added lies before the position of the one.
AddedLies ==
  \E starts : /\ Lie(from.buffer, added, starts)
              /\ from.pos = starts[Len(added)] /\ from.pos <= from.bufferSize

\* What was sent lies in the other, whose position is behind what it returned of it.
SentLies ==
  to.state = "fine" =>
    \E starts : /\ Lie(to.buffer, mspSent, starts)
                /\ to.pos = starts[Len(mspGot)] /\ starts[Len(mspSent)] <= to.bufferSize

PackagerIInv == PackagerTyped /\ SizesKept /\ AddedLies /\ SentLies /\ Packager!RoundTrip

\* The bytes of a number are as many as its type has; those of a string end with its only zero.
LEMMA BytesOfItem ==
  ASSUME Packager!PackagerAssumption, NEW item \in Packager!Items
  PROVE  /\ Packager!Bytes(item) \in Seq(Nat)
         /\ item.kind \in {"real", "integer", "string"}
         /\ item.kind = "real" => Len(Packager!Bytes(item)) = RealSize
         /\ item.kind = "integer" => Len(Packager!Bytes(item)) = IntegerSize
         /\ item.kind = "string" =>
              LET len == Len(Packager!Bytes(item))
              IN  /\ len >= 1 /\ Packager!Bytes(item)[len] = 0
                  /\ \A j \in 1 .. len - 1 : Packager!Bytes(item)[j] # 0
<1>1. /\ RealSize \in Nat \ {0} /\ IntegerSize \in Nat \ {0} /\ Integers \subseteq Nat
      /\ Strings \subseteq Seq(Nat \ {0})
  BY DEF Packager!PackagerAssumption
<1>2. \A len \in Nat : Packager!Zeros(len) \in Seq(Nat) /\ Len(Packager!Zeros(len)) = len
  <2> SUFFICES ASSUME NEW len \in Nat
               PROVE  Packager!Zeros(len) \in Seq(Nat) /\ Len(Packager!Zeros(len)) = len
    OBVIOUS
  <2>1. Packager!Zeros(len) \in [1 .. len -> Nat]
    BY DEF Packager!Zeros
  <2>2. QED
    BY <2>1
<1>3. CASE item.kind = "real" /\ item.value \in {<<v>> : v \in Integers}
  <2>1. PICK v \in Integers : item.value = <<v>>
    BY <1>3
  <2>2. v \in Nat /\ RealSize - 1 \in Nat /\ <<v>> \in Seq(Nat) /\ Len(<<v>>) = 1
    BY <1>1
  <2>3. Packager!Bytes(item) = Packager!Zeros(RealSize - 1) \o <<v>>
    BY <1>3, <2>1 DEF Packager!Bytes
  <2>4. QED
    BY <1>1, <1>2, <1>3, <2>2, <2>3
<1>4. CASE item.kind = "integer" /\ item.value \in {<<v>> : v \in Integers}
  <2>1. PICK v \in Integers : item.value = <<v>>
    BY <1>4
  <2>2. v \in Nat /\ IntegerSize - 1 \in Nat /\ <<v>> \in Seq(Nat) /\ Len(<<v>>) = 1
    BY <1>1
  <2>3. Packager!Bytes(item) = <<v>> \o Packager!Zeros(IntegerSize - 1)
    BY <1>4, <2>1 DEF Packager!Bytes
  <2>4. QED
    BY <1>1, <1>2, <1>4, <2>2, <2>3
<1>5. CASE item.kind = "string" /\ item.value \in Strings
  <2>1. PICK s \in Seq(Nat \ {0}) : item.value = s
    BY <1>1, <1>5
  <2>2. Packager!Bytes(item) = Append(s, 0)
    BY <1>5, <2>1 DEF Packager!Bytes
  <2>3. /\ Append(s, 0) \in Seq(Nat) /\ Len(Append(s, 0)) = Len(s) + 1 /\ Append(s, 0)[Len(s) + 1] = 0
        /\ \A j \in 1 .. Len(s) : Append(s, 0)[j] = s[j]
    <3>1. s \in Seq(Nat)
      OBVIOUS
    <3>2. QED
      BY <3>1
  <2>4. \A j \in 1 .. Len(s) : s[j] # 0
    OBVIOUS
  <2>5. (Len(s) + 1) - 1 = Len(s) /\ Len(s) + 1 >= 1
    OBVIOUS
  <2>6. QED
    BY <1>5, <2>2, <2>3, <2>4, <2>5
<1>6. QED
  BY <1>3, <1>4, <1>5 DEF Packager!Items

\* No bytes lie in any buffer.
LEMMA NothingLies ==
  ASSUME NEW buffer
  PROVE  \E starts : Lie(buffer, <<>>, starts) /\ starts[0] = 0 /\ starts[Len(<<>>)] = 0
<1> DEFINE starts == [k \in 0 .. 0 |-> 0]
<1>1. Len(<<>>) = 0 /\ 1 .. 0 = {}
  OBVIOUS
<1>2. starts \in [0 .. Len(<<>>) -> Nat] /\ starts[0] = 0
  BY <1>1
<1>3. Lie(buffer, <<>>, starts)
  BY <1>1, <1>2 DEF Lie
<1>4. QED
  BY <1>1, <1>2, <1>3

\* What lies in a buffer lies in every one that is the same up to its end.
LEMMA LiesOn ==
  ASSUME NEW items \in Seq(Packager!Items), NEW buffer, NEW other, NEW starts,
         Packager!PackagerAssumption, Lie(buffer, items, starts),
         \A k \in 1 .. starts[Len(items)] : other[k] = buffer[k]
  PROVE  Lie(other, items, starts)
<1>1. /\ starts \in [0 .. Len(items) -> Nat] /\ starts[0] = 0
      /\ \A k \in 1 .. Len(items) :
           /\ starts[k] = starts[k - 1] + Len(Packager!Bytes(items[k]))
           /\ starts[k] <= starts[Len(items)]
           /\ \A j \in 1 .. Len(Packager!Bytes(items[k])) :
                buffer[starts[k - 1] + j] = Packager!Bytes(items[k])[j]
  BY DEF Lie
<1>2. ASSUME NEW k \in 1 .. Len(items), NEW j \in 1 .. Len(Packager!Bytes(items[k]))
      PROVE  starts[k - 1] + j \in 1 .. starts[Len(items)]
  <2>1. /\ Len(items) \in Nat /\ k - 1 \in 0 .. Len(items) /\ k \in 0 .. Len(items)
        /\ Len(items) \in 0 .. Len(items)
    OBVIOUS
  <2>2. starts[k - 1] \in Nat /\ starts[k] \in Nat /\ starts[Len(items)] \in Nat
    BY <1>1, <2>1
  <2>3. Len(Packager!Bytes(items[k])) \in Nat
    BY BytesOfItem
  <2>4. QED
    BY <1>1, <2>2, <2>3
<1>3. \A k \in 1 .. Len(items) : \A j \in 1 .. Len(Packager!Bytes(items[k])) :
        other[starts[k - 1] + j] = Packager!Bytes(items[k])[j]
  BY <1>1, <1>2
<1>4. QED
  BY <1>1, <1>3 DEF Lie

\* A buffer is as it was up to a position, and has the bytes of an item behind it.
PutBehind(buffer, pos, item, new) ==
  /\ \A k \in 1 .. pos : new[k] = buffer[k]
  /\ \A j \in 1 .. Len(Packager!Bytes(item)) : new[pos + j] = Packager!Bytes(item)[j]

\* The bytes of the items lie in the buffer up to a position.
LieTo(buffer, items, starts, pos) == Lie(buffer, items, starts) /\ starts[Len(items)] = pos

\* One more item lies behind the others.
LEMMA LiesBehind ==
  ASSUME NEW items \in Seq(Packager!Items), NEW item \in Packager!Items, NEW buffer, NEW other,
         NEW starts, NEW pos, Packager!PackagerAssumption, LieTo(buffer, items, starts, pos),
         PutBehind(buffer, pos, item, other)
  PROVE  \E more : LieTo(other, Append(items, item), more, pos + Len(Packager!Bytes(item)))
<1> DEFINE len == Len(items)
           all == Append(items, item)
           size == Len(Packager!Bytes(item))
           last == starts[len] + size
           more == [k \in 0 .. len + 1 |-> IF k = len + 1 THEN last ELSE starts[k]]
<1>1. /\ len \in Nat /\ Len(all) = len + 1 /\ all[len + 1] = item
      /\ \A k \in 1 .. len : all[k] = items[k]
  OBVIOUS
<1>2. /\ Lie(other, items, starts)
      /\ \A j \in 1 .. Len(Packager!Bytes(item)) : other[starts[Len(items)] + j] = Packager!Bytes(item)[j]
  <2>1. /\ \A k \in 1 .. starts[Len(items)] : other[k] = buffer[k]
        /\ \A j \in 1 .. Len(Packager!Bytes(item)) : other[starts[Len(items)] + j] = Packager!Bytes(item)[j]
    BY DEF PutBehind, LieTo
  <2>2. QED
    BY <2>1, LiesOn DEF LieTo
<1>3. size \in Nat
  BY BytesOfItem
<1>4. /\ starts \in [0 .. len -> Nat] /\ starts[0] = 0
      /\ \A k \in 1 .. len :
           /\ starts[k] = starts[k - 1] + Len(Packager!Bytes(items[k]))
           /\ starts[k] <= starts[len]
           /\ \A j \in 1 .. Len(Packager!Bytes(items[k])) :
                other[starts[k - 1] + j] = Packager!Bytes(items[k])[j]
  BY <1>2 DEF Lie
<1>5. starts[len] \in Nat /\ last \in Nat /\ starts[len] <= last
  BY <1>1, <1>3, <1>4
<1> HIDE DEF last, all, len, size
<1>6. /\ more \in [0 .. len + 1 -> Nat] /\ more[len + 1] = last
      /\ \A k \in 0 .. len : more[k] = starts[k]
  BY <1>1, <1>4, <1>5
<1> HIDE DEF more
<1>7. more[0] = 0
  BY <1>1, <1>4, <1>6
<1>8. ASSUME NEW k \in 1 .. len + 1
      PROVE  /\ more[k] = more[k - 1] + Len(Packager!Bytes(all[k]))
             /\ more[k] <= more[len + 1]
             /\ \A j \in 1 .. Len(Packager!Bytes(all[k])) :
                  other[more[k - 1] + j] = Packager!Bytes(all[k])[j]
  <2>1. CASE k = len + 1
    <3>1. k - 1 = len /\ len \in 0 .. len
      BY <1>1, <2>1
    <3>2. more[k - 1] = starts[len] /\ more[k] = last /\ all[k] = item
      BY <1>1, <1>6, <2>1, <3>1
    <3>3. last <= last
      BY <1>5
    <3>4. QED
      BY <1>2, <1>6, <2>1, <3>2, <3>3 DEF last, size, len
  <2>2. CASE k # len + 1
    <3>1. k \in 1 .. len /\ k \in 0 .. len /\ k - 1 \in 0 .. len
      BY <1>1, <2>2
    <3>2. more[k - 1] = starts[k - 1] /\ more[k] = starts[k] /\ all[k] = items[k]
      BY <1>1, <1>6, <3>1
    <3>3. starts[k] \in Nat /\ starts[k] <= starts[len]
      BY <1>4, <3>1
    <3>4. more[k] <= more[len + 1]
      BY <1>5, <1>6, <3>2, <3>3
    <3>5. QED
      BY <1>4, <3>1, <3>2, <3>4
  <2>3. QED
    BY <2>1, <2>2
<1>9. Lie(other, all, more)
  BY <1>1, <1>6, <1>7, <1>8 DEF Lie
<1>10. starts[len] = pos
  BY DEF LieTo, len
<1>11. LieTo(other, all, more, last)
  BY <1>1, <1>6, <1>9 DEF LieTo
<1>12. QED
  BY <1>10, <1>11 DEF last, all, len, size

\* A packager is the record of its fields.
LEMMA PackagerFields ==
  ASSUME NEW p \in Packagers
  PROVE  /\ p.buffer \in Seq(Nat) /\ p.bufferSize \in Sizes /\ p.pos \in Nat
         /\ p.state \in {"fine", "behind", "overflow"}
         /\ p.buffer \in [1 .. Len(p.buffer) -> Nat] /\ Len(p.buffer) \in Nat
         /\ DOMAIN p.buffer = 1 .. Len(p.buffer)
  BY DEF Packagers

\* Bytes copied behind a position leave what is before it.
LEMMA CopiedBytes ==
  ASSUME NEW p \in Packagers, NEW pos \in Nat, NEW bytes \in Seq(Nat),
         pos + Len(bytes) <= Len(p.buffer)
  PROVE  /\ Packager!Copied(p, pos, bytes) \in Seq(Nat)
         /\ Len(Packager!Copied(p, pos, bytes)) = Len(p.buffer)
         /\ \A k \in 1 .. pos : Packager!Copied(p, pos, bytes)[k] = p.buffer[k]
         /\ \A j \in 1 .. Len(bytes) : Packager!Copied(p, pos, bytes)[pos + j] = bytes[j]
<1> DEFINE len == Len(p.buffer)
           size == Len(bytes)
           new == Packager!Copied(p, pos, bytes)
<1>1. /\ len \in Nat /\ size \in Nat /\ DOMAIN p.buffer = 1 .. len /\ DOMAIN bytes = 1 .. size
      /\ p.buffer \in [1 .. len -> Nat] /\ bytes \in [1 .. size -> Nat]
  BY PackagerFields
<1>2. new = [k \in 1 .. len |-> IF k - pos \in 1 .. size THEN bytes[k - pos] ELSE p.buffer[k]]
  BY <1>1 DEF Packager!Copied
<1>3. pos + size <= len
  OBVIOUS
<1> HIDE DEF new, len, size
<1>4. new \in [1 .. len -> Nat]
  BY <1>1, <1>2
<1>5. new \in Seq(Nat) /\ Len(new) = len
  BY <1>1, <1>4
<1>6. ASSUME NEW k \in 1 .. pos PROVE new[k] = p.buffer[k]
  <2>1. k \in 1 .. len /\ k - pos \notin 1 .. size
    BY <1>1, <1>3
  <2>2. QED
    BY <1>2, <2>1
<1>7. ASSUME NEW j \in 1 .. size PROVE new[pos + j] = bytes[j]
  <2>1. pos + j \in 1 .. len /\ (pos + j) - pos = j
    BY <1>1, <1>3
  <2>2. QED
    BY <1>2, <2>1
<1>8. QED
  BY <1>5, <1>6, <1>7 DEF new, len, size

\* The invariant holds in the initial states.
LEMMA InitPackagerIInv == ASSUME Packager!PackagerAssumption, Packager!Init PROVE PackagerIInv
<1>1. PICK l, m \in Sizes : from = Packager!Created(l) /\ to = Packager!Created(m)
  BY DEF Packager!Init
<1>2. \A len \in Sizes : /\ Packager!Created(len) \in Packagers /\ Len(Packager!Created(len).buffer) = len
                         /\ Packager!Created(len).bufferSize = len /\ Packager!Created(len).pos = 0
  <2> SUFFICES ASSUME NEW len \in Sizes
               PROVE  /\ Packager!Created(len) \in Packagers /\ Len(Packager!Created(len).buffer) = len
                      /\ Packager!Created(len).bufferSize = len /\ Packager!Created(len).pos = 0
    OBVIOUS
  <2>1. len \in Nat
    BY DEF Packager!PackagerAssumption
  <2>2. Packager!Zeros(len) \in [1 .. len -> Nat]
    BY <2>1 DEF Packager!Zeros
  <2>3. Packager!Zeros(len) \in Seq(Nat) /\ Len(Packager!Zeros(len)) = len
    BY <2>1, <2>2
  <2>4. QED
    BY <2>1, <2>3 DEF Packager!Created, Packagers
<1>3. added = <<>> /\ mspSent = <<>> /\ mspGot = <<>>
  BY DEF Packager!Init
<1>4. Sizes \subseteq Nat /\ MaxItems \in Nat
  BY DEF Packager!PackagerAssumption
<1>5. Len(<<>>) = 0
  OBVIOUS
<1>6. PackagerTyped
  BY <1>1, <1>2, <1>3, <1>4, <1>5 DEF PackagerTyped
<1>7. SizesKept
  BY <1>1, <1>2, <1>4 DEF SizesKept
<1>8. AddedLies
  <2>1. PICK starts : Lie(from.buffer, <<>>, starts) /\ starts[Len(<<>>)] = 0
    BY NothingLies
  <2>2. from.pos = 0 /\ 0 <= from.bufferSize
    BY <1>1, <1>2, <1>4
  <2>3. QED
    BY <1>3, <2>1, <2>2 DEF AddedLies
<1>9. SentLies
  <2>1. PICK starts : Lie(to.buffer, <<>>, starts) /\ starts[Len(<<>>)] = 0
    BY NothingLies
  <2>2. to.pos = 0 /\ 0 <= to.bufferSize
    BY <1>1, <1>2, <1>4
  <2>3. QED
    BY <1>3, <2>1, <2>2 DEF SentLies
<1>10. Packager!RoundTrip
  BY <1>3 DEF Packager!RoundTrip
<1>11. QED
  BY <1>6, <1>7, <1>8, <1>9, <1>10 DEF PackagerIInv

\* An item that is added lies behind the others, or nothing is.
LEMMA AddStep ==
  ASSUME Packager!PackagerAssumption, PackagerIInv, NEW item \in Packager!Items, Packager!Add(item)
  PROVE  PackagerIInv'
<1> DEFINE bytes == Packager!Bytes(item)
           len == Len(from.buffer)
<1>1. PackagerTyped /\ SizesKept /\ AddedLies /\ SentLies /\ Packager!RoundTrip
  BY DEF PackagerIInv
<1>2. /\ from \in Packagers /\ len \in Sizes /\ added \in Seq(Packager!Items) /\ from.state = "fine"
      /\ Len(added) < MaxItems /\ MaxItems \in Nat
  BY <1>1 DEF PackagerTyped, Packager!Add, Packager!Running, Packager!PackagerAssumption
<1>3. UNCHANGED <<to, mspSent, mspGot>>
  BY DEF Packager!Add
<1>4. bytes \in Seq(Nat) /\ Len(bytes) \in Nat
  BY BytesOfItem
<1>5. /\ from.buffer \in Seq(Nat) /\ from.bufferSize = len /\ from.pos \in Nat /\ len \in Nat
      /\ from = [buffer |-> from.buffer, bufferSize |-> from.bufferSize, pos |-> from.pos, state |-> from.state]
  BY <1>1, <1>2 DEF SizesKept, Packagers
<1>6. \/ /\ from' = [from EXCEPT !.state = "overflow"] \/ from' = [from EXCEPT !.state = "behind"]
         /\ UNCHANGED added
      \/ /\ from' = [from EXCEPT !.buffer = Packager!Copied(from, from.pos, bytes), !.pos = from.pos + Len(bytes)]
         /\ from.pos + Len(bytes) <= len /\ added' = Append(added, item)
  <2>1. /\ \/ from' = [from EXCEPT !.state = "overflow"]
           \/ from' = Packager!Put(from, bytes)
        /\ added' = IF from'.state = "fine" THEN Append(added, item) ELSE added
    BY DEF Packager!Add, Packager!AddNumber, Packager!AddString
  <2>2. CASE from' = [from EXCEPT !.state = "overflow"]
    BY <1>5, <2>1, <2>2
  <2>3. CASE from' = Packager!Put(from, bytes) /\ from.pos + Len(bytes) <= len
    <3>1. from' = [from EXCEPT !.buffer = Packager!Copied(from, from.pos, bytes), !.pos = from.pos + Len(bytes)]
      BY <2>3 DEF Packager!Put
    <3>2. from'.state = "fine"
      BY <1>2, <1>5, <3>1
    <3>3. QED
      BY <2>1, <2>3, <3>1, <3>2
  <2>4. CASE from' = Packager!Put(from, bytes) /\ ~(from.pos + Len(bytes) <= len)
    <3>1. from' = [from EXCEPT !.state = "behind"]
      BY <2>4 DEF Packager!Put
    <3>2. QED
      BY <1>5, <2>1, <3>1
  <2>5. QED
    BY <2>1, <2>2, <2>3, <2>4
<1>7. SentLies' /\ Packager!RoundTrip'
  BY <1>1, <1>3 DEF SentLies, Packager!RoundTrip
<1>8. CASE /\ from' = [from EXCEPT !.state = "overflow"] \/ from' = [from EXCEPT !.state = "behind"]
           /\ UNCHANGED added
  <2>1. /\ from' \in Packagers /\ from'.buffer = from.buffer /\ from'.pos = from.pos
        /\ from'.bufferSize = from.bufferSize
    BY <1>2, <1>5, <1>8 DEF Packagers
  <2>2. PackagerTyped' /\ SizesKept' /\ AddedLies'
    BY <1>1, <1>3, <1>8, <2>1 DEF PackagerTyped, SizesKept, AddedLies
  <2>3. QED
    BY <1>7, <2>2 DEF PackagerIInv
<1>9. CASE /\ from' = [from EXCEPT !.buffer = Packager!Copied(from, from.pos, bytes), !.pos = from.pos + Len(bytes)]
           /\ from.pos + Len(bytes) <= len /\ added' = Append(added, item)
  <2> DEFINE new == Packager!Copied(from, from.pos, bytes)
  <2>1. /\ new \in Seq(Nat) /\ Len(new) = len
        /\ \A k \in 1 .. from.pos : new[k] = from.buffer[k]
        /\ \A j \in 1 .. Len(bytes) : new[from.pos + j] = bytes[j]
    BY <1>2, <1>4, <1>5, <1>9, CopiedBytes
  <2> HIDE DEF new, bytes
  <2>2. from' = [buffer |-> new, bufferSize |-> len, pos |-> from.pos + Len(bytes), state |-> "fine"]
    BY <1>2, <1>5, <1>9 DEF new
  <2>3. from' \in Packagers
    BY <1>2, <1>4, <1>5, <2>1, <2>2 DEF Packagers
  <2>4. from'.buffer = new /\ from'.bufferSize = len /\ from'.pos = from.pos + Len(bytes)
    BY <2>2
  <2>5. /\ Append(added, item) \in Seq(Packager!Items) /\ Len(Append(added, item)) = Len(added) + 1
        /\ Len(added) \in Nat
    BY <1>2
  <2>6. PackagerTyped'
    <3>1. Len(from'.buffer) \in Sizes
      BY <1>2, <2>1, <2>4
    <3>2. Len(added') <= MaxItems /\ added' \in Seq(Packager!Items)
      BY <1>2, <1>9, <2>5
    <3>3. QED
      BY <1>1, <1>3, <2>3, <3>1, <3>2 DEF PackagerTyped
  <2>7. SizesKept'
    BY <1>1, <1>3, <2>1, <2>2 DEF SizesKept
  <2>8. PICK starts : Lie(from.buffer, added, starts) /\ from.pos = starts[Len(added)]
    BY <1>1 DEF AddedLies
  <2>9. PICK more : LieTo(new, Append(added, item), more, from.pos + Len(bytes))
    <3>1. PutBehind(from.buffer, from.pos, item, new)
      BY <2>1 DEF PutBehind, bytes
    <3>2. LieTo(from.buffer, added, starts, from.pos) /\ added \in Seq(Packager!Items)
      BY <1>2, <2>8 DEF LieTo
    <3>3. QED
      BY <3>1, <3>2, LiesBehind DEF bytes
  <2>10. AddedLies'
    <3>1. Lie(from'.buffer, added', more)
      BY <1>9, <2>4, <2>9 DEF LieTo
    <3>2. from'.pos = more[Len(added')]
      BY <1>9, <2>4, <2>9 DEF LieTo
    <3>3. from'.pos <= from'.bufferSize
      BY <1>9, <2>4
    <3>4. QED
      BY <3>1, <3>2, <3>3 DEF AddedLies
  <2>11. QED
    BY <1>7, <2>6, <2>7, <2>10 DEF PackagerIInv
<1>10. QED
  BY <1>6, <1>8, <1>9

\* A packager that begins again holds nothing.
LEMMA AgainStep ==
  ASSUME Packager!PackagerAssumption, PackagerIInv, Packager!ResetPointer \/ Packager!Clear
  PROVE  PackagerIInv'
<1>1. PackagerTyped /\ SizesKept /\ AddedLies /\ SentLies /\ Packager!RoundTrip
  BY DEF PackagerIInv
<1>2. from \in Packagers /\ Sizes \subseteq Nat /\ MaxItems \in Nat
  BY <1>1 DEF PackagerTyped, Packager!PackagerAssumption
<1>3. /\ from.buffer \in Seq(Nat) /\ Len(from.buffer) \in Nat /\ DOMAIN from.buffer = 1 .. Len(from.buffer)
      /\ from.bufferSize \in Sizes /\ from.bufferSize \in Nat
      /\ from = [buffer |-> from.buffer, bufferSize |-> from.bufferSize, pos |-> from.pos, state |-> from.state]
      /\ from.state \in {"fine", "behind", "overflow"}
  <2>1. from = [buffer |-> from.buffer, bufferSize |-> from.bufferSize, pos |-> from.pos, state |-> from.state]
    BY <1>2 DEF Packagers
  <2>2. QED
    BY <1>2, <2>1, PackagerFields
<1>4. added' = <<>> /\ UNCHANGED <<to, mspSent, mspGot>>
  BY DEF Packager!ResetPointer, Packager!Clear
<1> DEFINE clear == [k \in 1 .. Len(from.buffer) |-> IF k <= from.bufferSize THEN 0 ELSE from.buffer[k]]
<1>5. clear \in Seq(Nat) /\ Len(clear) = Len(from.buffer)
  <2>1. clear \in [1 .. Len(from.buffer) -> Nat]
    BY <1>3
  <2>2. QED
    BY <1>3, <2>1
<1>6. \/ from' = [from EXCEPT !.pos = 0]
      \/ from' = [from EXCEPT !.pos = 0, !.buffer = clear]
  BY <1>3 DEF Packager!ResetPointer, Packager!Clear
<1> HIDE DEF clear
<1>7. /\ from' \in Packagers /\ Len(from'.buffer) = Len(from.buffer)
      /\ from'.bufferSize = from.bufferSize /\ from'.pos = 0
  <2>1. PICK buffer \in {from.buffer, clear} :
          from' = [buffer |-> buffer, bufferSize |-> from.bufferSize, pos |-> 0, state |-> from.state]
    BY <1>3, <1>6
  <2>2. buffer \in Seq(Nat) /\ Len(buffer) = Len(from.buffer)
    BY <1>3, <1>5
  <2>3. QED
    BY <1>3, <2>1, <2>2 DEF Packagers
<1>8. <<>> \in Seq(Packager!Items) /\ Len(<<>>) = 0
  OBVIOUS
<1>9. PackagerTyped' /\ SizesKept'
  BY <1>1, <1>2, <1>4, <1>7, <1>8 DEF PackagerTyped, SizesKept
<1>10. AddedLies'
  <2>1. PICK starts : Lie(from'.buffer, <<>>, starts) /\ starts[Len(<<>>)] = 0
    BY NothingLies
  <2>2. QED
    BY <1>3, <1>4, <1>7, <2>1 DEF AddedLies
<1>11. SentLies' /\ Packager!RoundTrip'
  BY <1>1, <1>4 DEF SentLies, Packager!RoundTrip
<1>12. QED
  BY <1>9, <1>10, <1>11 DEF PackagerIInv

\* The other packager is set to the package, or its buffer is too small.
LEMMA SetPackageStep ==
  ASSUME Packager!PackagerAssumption, PackagerIInv, Packager!SetPackage
  PROVE  PackagerIInv'
<1>1. PackagerTyped /\ SizesKept /\ AddedLies /\ SentLies /\ Packager!RoundTrip
  BY DEF PackagerIInv
<1>2. from \in Packagers /\ to \in Packagers /\ Sizes \subseteq Nat /\ added \in Seq(Packager!Items)
  BY <1>1 DEF PackagerTyped, Packager!PackagerAssumption
<1> DEFINE size == from.bufferSize
           package == SubSeq(from.buffer, 1, size)
           new == Packager!Copied(to, 0, package)
<1>3. /\ to.buffer \in Seq(Nat) /\ Len(to.buffer) \in Nat /\ to.state \in {"fine", "behind", "overflow"}
      /\ to = [buffer |-> to.buffer, bufferSize |-> to.bufferSize, pos |-> to.pos, state |-> to.state]
      /\ size \in Sizes /\ size \in Nat /\ from.buffer \in Seq(Nat) /\ size = Len(from.buffer)
  BY <1>1, <1>2 DEF Packagers, SizesKept
<1>4. package \in Seq(Nat) /\ Len(package) = size /\ \A k \in 1 .. size : package[k] = from.buffer[k]
  BY <1>3
<1>5. to' = IF size > Len(to.buffer) THEN [to EXCEPT !.state = "behind"]
            ELSE [to EXCEPT !.buffer = new, !.bufferSize = size, !.pos = 0]
  BY DEF Packager!SetPackage
<1>6. mspSent' = added /\ mspGot' = <<>> /\ UNCHANGED <<from, added>>
  BY DEF Packager!SetPackage
<1>7. <<>> \in Seq(Seq(Nat)) /\ Len(<<>>) = 0 /\ DOMAIN <<>> = {}
  OBVIOUS
<1>8. AddedLies' /\ Packager!RoundTrip'
  BY <1>1, <1>6, <1>7 DEF AddedLies, Packager!RoundTrip
<1>9. Len(added) \in Nat /\ 0 <= Len(added)
  BY <1>2
<1>10. CASE size > Len(to.buffer)
  <2>1. /\ to' \in Packagers /\ to'.buffer = to.buffer /\ to'.bufferSize = to.bufferSize
        /\ to'.state = "behind"
    BY <1>2, <1>3, <1>5, <1>10 DEF Packagers
  <2>2. PackagerTyped' /\ SizesKept'
    BY <1>1, <1>6, <1>7, <1>9, <2>1 DEF PackagerTyped, SizesKept
  <2>3. SentLies'
    BY <2>1 DEF SentLies
  <2>4. QED
    BY <1>8, <2>2, <2>3 DEF PackagerIInv
<1>11. CASE ~(size > Len(to.buffer))
  <2>1. 0 + Len(package) <= Len(to.buffer) /\ 0 \in Nat
    BY <1>3, <1>4, <1>11
  <2>2. /\ new \in Seq(Nat) /\ Len(new) = Len(to.buffer)
        /\ \A j \in 1 .. Len(package) : new[0 + j] = package[j]
    BY <1>2, <1>4, <2>1, CopiedBytes
  <2>3. \A j \in 1 .. size : new[j] = from.buffer[j]
    BY <1>3, <1>4, <2>2
  <2> HIDE DEF new, package
  <2>4. to' = [buffer |-> new, bufferSize |-> size, pos |-> 0, state |-> to.state]
    BY <1>3, <1>5, <1>11
  <2>5. /\ to' \in Packagers /\ to'.buffer = new /\ to'.bufferSize = size /\ to'.pos = 0
    BY <1>3, <2>2, <2>4 DEF Packagers
  <2>6. PackagerTyped' /\ SizesKept'
    BY <1>1, <1>3, <1>6, <1>7, <1>9, <1>11, <2>2, <2>5 DEF PackagerTyped, SizesKept
  <2>7. PICK starts : /\ Lie(from.buffer, added, starts)
                      /\ from.pos = starts[Len(added)] /\ from.pos <= size
    BY <1>1 DEF AddedLies
  <2>8. from.pos \in Nat
    BY <1>2 DEF Packagers
  <2>9. \A k \in 1 .. starts[Len(added)] : new[k] = from.buffer[k]
    BY <1>3, <2>3, <2>7, <2>8
  <2>10. Lie(new, added, starts)
    BY <1>2, <2>7, <2>9, LiesOn
  <2>11. starts[0] = 0
    BY <2>7 DEF Lie
  <2>12. SentLies'
    <3>1. /\ Lie(to'.buffer, mspSent', starts) /\ to'.pos = starts[Len(mspGot')]
          /\ starts[Len(mspSent')] <= to'.bufferSize
      BY <1>6, <1>7, <2>5, <2>7, <2>10, <2>11
    <3>2. QED
      BY <3>1 DEF SentLies
  <2>13. QED
    BY <1>8, <2>6, <2>12 DEF PackagerIInv
<1>12. QED
  BY <1>10, <1>11

\* Bytes that lie in a buffer are read back.
LEMMA BytesRead ==
  ASSUME NEW buffer \in Seq(Nat), NEW pos \in Nat, NEW bytes \in Seq(Nat),
         pos + Len(bytes) <= Len(buffer),
         \A j \in 1 .. Len(bytes) : buffer[pos + j] = bytes[j]
  PROVE  SubSeq(buffer, pos + 1, pos + Len(bytes)) = bytes
<1> DEFINE size == Len(bytes)
           read == SubSeq(buffer, pos + 1, pos + size)
<1>1. size \in Nat /\ bytes = [j \in 1 .. size |-> bytes[j]]
  OBVIOUS
<1>2. /\ read \in Seq(Nat) /\ Len(read) = size
      /\ \A j \in 1 .. size : read[j] = buffer[pos + j]
  <2>1. pos + 1 \in 1 .. Len(buffer) + 1 /\ pos + size \in 0 .. Len(buffer) /\ Len(buffer) \in Nat
    BY <1>1
  <2>2. (pos + size) - (pos + 1) + 1 = size
    BY <1>1
  <2>3. \A j \in 1 .. size : (pos + 1) + j - 1 = pos + j
    OBVIOUS
  <2>4. /\ read \in Seq(Nat) /\ Len(read) = (IF pos + 1 <= pos + size THEN (pos + size) - (pos + 1) + 1 ELSE 0)
        /\ \A j \in 1 .. size : read[j] = buffer[(pos + 1) + j - 1]
    <3>1. \A k \in pos + 1 .. pos + size : buffer[k] \in Nat
      BY <2>1
    <3>2. pos + 1 \in Int /\ pos + size \in Int
      BY <1>1
    <3> HIDE DEF size
    <3>3. QED
      BY <2>2, <3>1, <3>2, SubSeqProperties
  <2>5. size = 0 \/ pos + 1 <= pos + size
    BY <1>1
  <2>6. QED
    BY <1>1, <2>2, <2>3, <2>4, <2>5
<1> HIDE DEF read, size
<1>3. read = [j \in 1 .. size |-> read[j]]
  BY <1>1, <1>2
<1>4. QED
  BY <1>1, <1>2, <1>3 DEF read, size

\* Where a string ends that begins at a position of a buffer
StringEnd(buffer, pos, end) ==
  CHOOSE k \in pos + 1 .. end + 1 :
    /\ k > end \/ buffer[k] = 0
    /\ \A j \in pos + 1 .. k - 1 : buffer[j] # 0

\* A string is read up to its zero, the first behind its position.
LEMMA StringRead ==
  ASSUME NEW buffer \in Seq(Nat), NEW pos \in Nat, NEW end \in Nat, NEW size \in Nat \ {0},
         pos + size <= end, buffer[pos + size] = 0,
         \A j \in 1 .. size - 1 : buffer[pos + j] # 0
  PROVE  StringEnd(buffer, pos, end) = pos + size
<1> DEFINE Ends(k) == /\ k > end \/ buffer[k] = 0
                      /\ \A j \in pos + 1 .. k - 1 : buffer[j] # 0
           whole == pos + size
<1>1. whole \in pos + 1 .. end + 1 /\ whole \in Nat /\ whole <= end
  OBVIOUS
<1>2. ASSUME NEW j \in pos + 1 .. whole - 1 PROVE buffer[j] # 0
  <2>1. j - pos \in 1 .. size - 1 /\ pos + (j - pos) = j
    OBVIOUS
  <2>2. QED
    BY <2>1
<1> HIDE DEF whole
<1>3. buffer[whole] = 0
  BY DEF whole
<1>4. Ends(whole)
  BY <1>2, <1>3
<1>5. ASSUME NEW k \in pos + 1 .. end + 1, Ends(k) PROVE k = whole
  <2>1. ~(k < whole)
    <3>1. SUFFICES ASSUME k < whole PROVE FALSE
      OBVIOUS
    <3>2. k \in pos + 1 .. whole - 1 /\ ~(k > end)
      BY <1>1, <3>1
    <3>3. QED
      BY <1>2, <1>5, <3>2
  <2>2. ~(k > whole)
    <3>1. SUFFICES ASSUME k > whole PROVE FALSE
      OBVIOUS
    <3>2. whole \in pos + 1 .. k - 1
      BY <1>1, <3>1
    <3>3. QED
      BY <1>3, <1>5, <3>2
  <2>3. QED
    BY <1>1, <2>1, <2>2
<1> HIDE DEF Ends
<1>6. (CHOOSE k \in pos + 1 .. end + 1 : Ends(k)) = whole
  BY <1>1, <1>4, <1>5
<1>7. QED
  BY <1>6 DEF StringEnd, Ends, whole

\* The next item that was sent is read as it was added: a number by its size, a string up to its
\* zero.
LEMMA GetStep ==
  ASSUME Packager!PackagerAssumption, PackagerIInv, Packager!Get
  PROVE  PackagerIInv'
<1>1. PackagerTyped /\ SizesKept /\ AddedLies /\ SentLies /\ Packager!RoundTrip
  BY DEF PackagerIInv
<1> DEFINE g == Len(mspGot)
           item == mspSent[g + 1]
           bytes == Packager!Bytes(item)
           size == Len(bytes)
           buffer == to.buffer
           pos == to.pos
           end == to.bufferSize
<1>2. /\ to \in Packagers /\ mspSent \in Seq(Packager!Items) /\ mspGot \in Seq(Seq(Nat)) /\ g \in Nat
      /\ g < Len(mspSent) /\ to.state = "fine" /\ Sizes \subseteq Nat
  BY <1>1 DEF PackagerTyped, Packager!Get, Packager!Running, Packager!PackagerAssumption
<1>3. /\ buffer \in Seq(Nat) /\ Len(buffer) \in Nat /\ pos \in Nat /\ end \in Nat /\ end <= Len(buffer)
      /\ to = [buffer |-> buffer, bufferSize |-> end, pos |-> pos, state |-> "fine"]
      /\ end \in Sizes
  <2>1. to = [buffer |-> to.buffer, bufferSize |-> to.bufferSize, pos |-> to.pos, state |-> to.state]
    BY <1>2 DEF Packagers
  <2>2. QED
    BY <1>1, <1>2, <2>1, PackagerFields DEF SizesKept
<1>4. g + 1 \in 1 .. Len(mspSent) /\ g + 1 \in Nat /\ (g + 1) - 1 = g /\ item \in Packager!Items
  BY <1>2
<1>5. PICK starts : /\ Lie(buffer, mspSent, starts)
                    /\ pos = starts[g] /\ starts[Len(mspSent)] <= end
  BY <1>1, <1>2 DEF SentLies
<1>6. /\ bytes \in Seq(Nat) /\ size \in Nat
      /\ item.kind \in {"real", "integer", "string"}
      /\ item.kind = "real" => size = RealSize
      /\ item.kind = "integer" => size = IntegerSize
      /\ item.kind = "string" => /\ size >= 1 /\ bytes[size] = 0
                                 /\ \A j \in 1 .. size - 1 : bytes[j] # 0
  <2>1. bytes \in Seq(Nat) /\ size \in Nat
    BY <1>4, BytesOfItem
  <2>2. QED
    BY <1>4, <2>1, BytesOfItem
<1>7. /\ starts[g + 1] = pos + size /\ starts[g + 1] <= starts[Len(mspSent)]
      /\ \A j \in 1 .. size : buffer[pos + j] = bytes[j]
      /\ starts[Len(mspSent)] \in Nat
  BY <1>2, <1>4, <1>5, SMTT(30) DEF Lie
<1>8. Packager!Get =>
        /\ to' = [to EXCEPT !.pos = @ + Len(mspGot'[g + 1])]
        /\ mspGot' = Append(mspGot, CASE item.kind = "real" -> Packager!Number(RealSize)
                                      [] item.kind = "integer" -> Packager!Number(IntegerSize)
                                      [] item.kind = "string" -> Packager!String)
        /\ UNCHANGED <<from, added, mspSent>>
  <2> DEFINE read == CASE item.kind = "real" -> Packager!Number(RealSize)
                       [] item.kind = "integer" -> Packager!Number(IntegerSize)
                       [] item.kind = "string" -> Packager!String
  <2>1. Len(mspGot) \in Nat /\ mspGot \in Seq(Seq(Nat))
    BY <1>2
  <2> HIDE DEF read
  <2>2. Append(mspGot, read)[Len(mspGot) + 1] = read
    BY <2>1
  <2>3. QED
    BY <2>2 DEF Packager!Get, read
<1> HIDE DEF bytes, size, item, g, pos, end, buffer
<1>9. pos + size <= end
  BY <1>3, <1>5, <1>6, <1>7
<1>10. SubSeq(buffer, pos + 1, pos + size) = bytes
  <2>1. pos + size <= Len(buffer)
    BY <1>3, <1>6, <1>9
  <2>2. QED
    BY <1>3, <1>6, <1>7, <2>1, BytesRead DEF size
<1>11. item.kind = "string" => Packager!String = bytes
  <2> SUFFICES ASSUME item.kind = "string" PROVE Packager!String = bytes
    OBVIOUS
  <2>1. size \in Nat \ {0} /\ bytes[size] = 0 /\ \A j \in 1 .. size - 1 : bytes[j] # 0
    BY <1>6
  <2>2. size \in 1 .. size /\ \A j \in 1 .. size - 1 : j \in 1 .. size
    BY <1>6, <2>1
  <2>3. buffer[pos + size] = 0 /\ \A j \in 1 .. size - 1 : buffer[pos + j] # 0
    BY <1>7, <2>1, <2>2
  <2>4. StringEnd(buffer, pos, end) = pos + size
    BY <1>3, <1>9, <2>1, <2>3, StringRead
  <2>5. Packager!String = SubSeq(buffer, pos + 1, StringEnd(buffer, pos, end))
    BY DEF Packager!String, StringEnd, pos, end, buffer
  <2>6. QED
    BY <1>10, <2>4, <2>5
<1>12. item.kind = "real" => Packager!Number(RealSize) = bytes
  BY <1>6, <1>10 DEF Packager!Number, pos, buffer
<1>13. item.kind = "integer" => Packager!Number(IntegerSize) = bytes
  BY <1>6, <1>10 DEF Packager!Number, pos, buffer
<1>14. mspGot' = Append(mspGot, bytes) /\ UNCHANGED <<from, added, mspSent>>
  BY <1>6, <1>8, <1>11, <1>12, <1>13
<1>15. /\ mspGot' \in Seq(Seq(Nat)) /\ Len(mspGot') = g + 1 /\ mspGot'[g + 1] = bytes
       /\ DOMAIN mspGot' = 1 .. g + 1 /\ DOMAIN mspGot = 1 .. g
       /\ \A k \in 1 .. g : mspGot'[k] = mspGot[k]
  BY <1>2, <1>6, <1>14 DEF g
<1>16. to' = [buffer |-> buffer, bufferSize |-> end, pos |-> pos + size, state |-> "fine"]
  BY <1>3, <1>8, <1>15 DEF size, buffer, end, pos
<1>17. /\ to' \in Packagers /\ to'.buffer = buffer /\ to'.bufferSize = end /\ to'.pos = pos + size
  <2>1. pos + size \in Nat
    BY <1>3, <1>6
  <2> DEFINE next == pos + size
  <2> HIDE DEF next
  <2>2. to' = [buffer |-> buffer, bufferSize |-> end, pos |-> next, state |-> "fine"] /\ next \in Nat
    BY <1>16, <2>1 DEF next
  <2>3. to' \in Packagers /\ to'.buffer = buffer /\ to'.bufferSize = end /\ to'.pos = next
    BY <1>3, <2>2 DEF Packagers
  <2>4. QED
    BY <2>3 DEF next
<1>18. PackagerTyped'
  <2>1. Len(to'.buffer) \in Sizes
    BY <1>1, <1>17 DEF PackagerTyped, buffer
  <2>2. Len(mspGot') <= Len(mspSent')
    <3>1. g + 1 <= Len(mspSent)
      BY <1>2
    <3>2. QED
      BY <1>14, <1>15, <3>1
  <2>3. QED
    BY <1>1, <1>14, <1>15, <1>17, <2>1, <2>2 DEF PackagerTyped
<1>19. SizesKept' /\ AddedLies'
  <2>1. SizesKept'
    BY <1>1, <1>3, <1>14, <1>17 DEF SizesKept
  <2>2. QED
    BY <1>1, <1>14, <2>1 DEF AddedLies
<1>20. SentLies'
  <2>1. /\ Lie(to'.buffer, mspSent', starts) /\ to'.pos = starts[Len(mspGot')]
        /\ starts[Len(mspSent')] <= to'.bufferSize
    BY <1>5, <1>7, <1>14, <1>15, <1>17
  <2>2. QED
    BY <2>1 DEF SentLies
<1>21. Packager!RoundTrip'
  <2> SUFFICES ASSUME NEW k \in 1 .. g + 1 PROVE mspGot'[k] = Packager!Bytes(mspSent[k])
    BY <1>14, <1>15 DEF Packager!RoundTrip
  <2>1. CASE k = g + 1
    BY <1>15, <2>1 DEF bytes, item
  <2>2. CASE k # g + 1
    <3>1. k \in 1 .. g
      BY <1>2, <2>2
    <3>2. QED
      BY <1>1, <1>2, <1>15, <3>1 DEF Packager!RoundTrip
  <2>3. QED
    BY <2>1, <2>2
<1>22. QED
  BY <1>18, <1>19, <1>20, <1>21 DEF PackagerIInv

\* Every step keeps the invariant.
LEMMA PackagerIInvStep ==
  ASSUME Packager!PackagerAssumption, PackagerIInv, [Packager!Next]_Packager!vars
  PROVE  PackagerIInv'
<1>1. ASSUME NEW item \in Packager!Items, Packager!Add(item) PROVE PackagerIInv'
  BY <1>1, AddStep
<1>2. CASE Packager!ResetPointer \/ Packager!Clear
  BY <1>2, AgainStep
<1>3. CASE Packager!SetPackage
  BY <1>3, SetPackageStep
<1>4. CASE Packager!Get
  BY <1>4, GetStep
<1>5. CASE Packager!Ended \/ UNCHANGED Packager!vars
  <2>1. UNCHANGED Packager!vars
    BY <1>5 DEF Packager!Ended
  <2>2. QED
    BY <2>1
    DEF PackagerIInv, PackagerTyped, SizesKept, AddedLies, SentLies, Packager!RoundTrip, Packager!vars
<1>6. QED
  BY <1>1, <1>2, <1>3, <1>4, <1>5 DEF Packager!Next

\* A step of the drivers is one of this driver, or leaves it alone.
LEMMA PackagerSteps == ASSUME [DevicesNext]_DeviceVars PROVE [Packager!Next]_Packager!vars
  BY DEF DevicesNext, OthersRest, DeviceVars, PackagerVars, Packager!vars

\* In every state of the drivers its invariant holds.
LEMMA PackagerInvariance == DevicesSpec => []PackagerIInv
<1>1. DevicesInit => PackagerIInv
  BY InitPackagerIInv, DevicesAssumption DEF DevicesAssumption, DevicesInit
<1>2. PackagerIInv /\ [DevicesNext]_DeviceVars => PackagerIInv'
  <2> SUFFICES ASSUME PackagerIInv, [DevicesNext]_DeviceVars PROVE PackagerIInv'
    OBVIOUS
  <2>1. [Packager!Next]_Packager!vars
    BY PackagerSteps
  <2>2. QED
    BY <2>1, PackagerIInvStep, DevicesAssumption DEF DevicesAssumption
<1>3. QED
  BY <1>1, <1>2, PTL DEF DevicesSpec

\* The invariant says that the packagers have their types.
LEMMA PackagerIInvTypes == ASSUME Packager!PackagerAssumption, PackagerIInv PROVE Packager!TypeOK
<1>1. PackagerTyped
  BY DEF PackagerIInv
<1>2. ASSUME NEW p \in Packagers, Len(p.buffer) \in Sizes
      PROVE  /\ DOMAIN p.buffer \in {1 .. len : len \in Sizes} /\ p.bufferSize \in Sizes
             /\ p.pos \in Nat /\ p.state \in {"fine", "behind", "overflow"}
  BY <1>2, PackagerFields
<1>3. QED
  BY <1>1, <1>2 DEF PackagerTyped, Packager!TypeOK

----------------------------------------------------------------------------
(* SocketCAN, which has its own proofs (SocketCanProofs) *)

\* A step of the drivers is one of SocketCAN, or leaves it alone.
LEMMA SocketCanSteps == ASSUME [DevicesNext]_DeviceVars PROVE [Next]_vars
  BY DEF DevicesNext, OthersRest, DeviceVars

\* In every state of the drivers its invariant holds (SocketCanProofs).
LEMMA SocketCanInvariance == DevicesSpec => []IInv
<1>1. DevicesInit => IInv
  BY InitIInv DEF DevicesInit
<1>2. IInv /\ [DevicesNext]_DeviceVars => IInv'
  BY SocketCanSteps, IInvStep
<1>3. QED
  BY <1>1, <1>2, PTL DEF DevicesSpec

----------------------------------------------------------------------------
(* The properties of several drivers *)

\* What a serial port, an MQTT client, a Softing message block and an LCM channel read is one
\* message, all of it, the right one and in its order, however bytes, callbacks and reads take
\* turns.
THEOREM EachReadsItsMessage == DevicesSpec => []ReadsItsMessage
<1>1. SerialIInv /\ MqttIInv /\ SoftingIInv /\ LcmIInv => ReadsItsMessage
  BY LcmIInvReads, DevicesAssumption
  DEF DevicesAssumption, SerialIInv, MqttIInv, SoftingIInv, ReadsItsMessage
<1>2. QED
  BY <1>1, SerialInvariance, MqttInvariance, SoftingInvariance, LcmInvariance, PTL

\* Who waits for the lock of a UDP socket on Windows, of a serial port or of an MQTT client finds
\* it free or with one that is about to give it back, never with a thread that has ended or was
\* terminated; on Linux the thread of a serial port is over and its mutex free when the two are
\* freed; the buffer of an MQTT client is there when it is copied, and a message comes without
\* one only between two steps of the destructor.
THEOREM LocksComeFree == DevicesSpec => []ThreadsEndInOrder
<1>1. MqttIInv /\ SerialIInv /\ UdpIInv => ThreadsEndInOrder
  <2> SUFFICES ASSUME MqttIInv, SerialIInv, UdpIInv PROVE ThreadsEndInOrder
    OBVIOUS
  <2>1. Udp!LockComesFree /\ Serial!LockComesFree /\ MqttClient!LockComesFree
    BY UdpLockComesFree, SerialLockComesFree, MqttLockComesFree
  <2>2. Serial!ThreadEndsFirst /\ MqttClient!BufferExists
    BY MqttBufferExists DEF SerialIInv
  <2>3. QED
    BY <2>1, <2>2 DEF ThreadsEndInOrder
<1>2. QED
  BY <1>1, MqttInvariance, SerialInvariance, UdpInvariance, PTL

\* A keyboard's keys, a joystick's axes and buttons and a space mouse's translation, rotation
\* and buttons are read as they are, as far as the drivers can know them.
THEOREM InputsAreRead == DevicesSpec => []InputsAreCurrent
<1>1. KeyboardIInv /\ JoystickIInv /\ MouseIInv => InputsAreCurrent
  BY MouseIInvReads, DevicesAssumption
  DEF DevicesAssumption, KeyboardIInv, JoystickIInv, InputsAreCurrent
<1>2. QED
  BY <1>1, KeyboardInvariance, JoystickInvariance, MouseInvariance, PTL

\* The fields of a CAN message read back what was packed into them, as long as no field that shares
\* bits with them is packed, and the items of a package what was added, whatever the fields, the
\* items and the sizes are (MDDCANMessage.h, MDDMinimalSerialPackager.h).
THEOREM MessagesRoundTrip == DevicesSpec => []MessageRoundTrip
<1>1. MessageIInv /\ PackagerIInv => MessageRoundTrip
  BY MessageIInvReads, DevicesAssumption DEF DevicesAssumption, PackagerIInv, MessageRoundTrip
<1>2. QED
  BY <1>1, MessageInvariance, PackagerInvariance, PTL

\* The drivers keep their types: no step of any of them leaves a variable with a value that the
\* code has no place for.
THEOREM TypesCorrect == DevicesSpec => []DevicesTypeOK
<1>1. TcpIInv /\ UdpIInv /\ ServerIInv /\ SerialIInv /\ SoftingIInv /\ MqttIInv /\ LcmIInv =>
        /\ Tcp!TypeOK /\ Udp!TypeOK /\ Server!TypeOK /\ Serial!TypeOK /\ Softing!TypeOK
        /\ MqttClient!TypeOK /\ Channel!TypeOK
  BY DEF TcpIInv, UdpIInv, ServerIInv, SerialIInv, SoftingIInv, MqttIInv, LcmIInv
<1>2. RealtimeIInv /\ PriorityIInv /\ AvrIInv /\ StmIInv /\ PeripheralsIInv /\ DisplayIInv =>
        /\ Realtime!TypeOK /\ Priority!TypeOK /\ Avr!TypeOK /\ Stm!TypeOK /\ Peripherals!TypeOK
        /\ Display!TypeOK
  BY DEF RealtimeIInv, PriorityIInv, AvrIInv, StmIInv, PeripheralsIInv, DisplayIInv
<1>3. KeyboardIInv /\ JoystickIInv /\ MouseIInv /\ IInv =>
        Keyboards!TypeOK /\ Joysticks!TypeOK /\ Mouse!TypeOK /\ TypeOK
  BY DEF KeyboardIInv, JoystickIInv, MouseIInv, IInv
<1>4. MessageIInv /\ PackagerIInv => Message!TypeOK /\ Packager!TypeOK
  BY PackagerIInvTypes, DevicesAssumption DEF DevicesAssumption, MessageIInv
<1>5. /\ Tcp!TypeOK /\ Udp!TypeOK /\ Server!TypeOK /\ Serial!TypeOK /\ Softing!TypeOK
      /\ MqttClient!TypeOK /\ Channel!TypeOK
      /\ Realtime!TypeOK /\ Priority!TypeOK /\ Avr!TypeOK /\ Stm!TypeOK /\ Peripherals!TypeOK
      /\ Display!TypeOK
      /\ Keyboards!TypeOK /\ Joysticks!TypeOK /\ Mouse!TypeOK /\ TypeOK
      /\ Message!TypeOK /\ Packager!TypeOK
      => DevicesTypeOK
  BY DEF DevicesTypeOK
<1>6. QED
  BY <1>1, <1>2, <1>3, <1>4, <1>5, TcpInvariance, UdpInvariance, ServerInvariance, SerialInvariance,
     SoftingInvariance, MqttInvariance, LcmInvariance, RealtimeInvariance, PriorityInvariance,
     AvrInvariance, StmInvariance, PeripheralsInvariance, DisplayInvariance, KeyboardInvariance,
     JoystickInvariance, MouseInvariance, SocketCanInvariance, MessageInvariance,
     PackagerInvariance, PTL
=============================================================================
