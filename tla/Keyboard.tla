------------------------------ MODULE Keyboard -------------------------------
(***************************************************************************)
(* MDDKeyboard.h: the simulation asks for one key (MDD_keyboardGetKey) or  *)
(* for the ten of the block KeyboardInput (MDD_keyboardGetData).  Keys are *)
(* named by their Windows codes, also where an X11 key symbol stands in    *)
(* the code; 0 is the key code X11 gives a symbol it does not know, of a   *)
(* key that is never down.                                                 *)
(***************************************************************************)
EXTENDS Integers, Sequences

CONSTANTS
  Keys,        \* keys of the keyboard somebody presses
  AskedKeys    \* keys the blocks KeyboardKeyInput ask for

KeyboardAssumption == Keys \cup AskedKeys \subseteq 9 .. 123

VARIABLES
  platform,  \* "windows" or "linux"
  down,      \* keys that are down
  since,     \* on Windows: keys pressed since somebody asked for them last
  displays,  \* on Linux: the functions that have opened their display
  w2lKey,    \* on Linux: from Windows codes to X11 key codes
  read       \* the latest call: the keys it asked for, what it wrote, what was true

vars == <<platform, down, since, displays, w2lKey, read>>

\* The keys of MDD_keyboardGetData, in the order of its result.
DataKeys == <<38, 40, 39, 37, 13, 32, 120, 121, 122, 123>>

ReadKeys == AskedKeys \cup {DataKeys[i] : i \in DOMAIN DataKeys}

\* A result the call leaves as it is
Unwritten == -1

NoRead == [keys |-> <<>>, state |-> <<>>, pressed |-> <<>>]

TypeOK ==
  /\ platform \in {"windows", "linux"}
  /\ down \subseteq Keys /\ since \subseteq Keys
  /\ displays \subseteq {"GetKey", "GetData"}
  /\ w2lKey \in [ReadKeys -> Nat]
  /\ read \in [keys : Seq(ReadKeys), state : Seq({0, 1, Unwritten}), pressed : Seq({0, 1})]

Init ==
  /\ platform \in {"windows", "linux"}
  /\ down = {} /\ since = {} /\ displays = {}
  /\ w2lKey = [k \in ReadKeys |-> 0]
  /\ read = NoRead

Press(k) ==
  /\ k \notin down
  /\ down' = down \cup {k}
  /\ since' = IF platform = "windows" THEN since \cup {k} ELSE since
  /\ UNCHANGED <<platform, displays, w2lKey, read>>

Release(k) ==
  /\ k \in down
  /\ down' = down \ {k}
  /\ UNCHANGED <<platform, since, displays, w2lKey, read>>

Bit(b) == IF b THEN 1 ELSE 0

\* What a call writes for its keys, beside what was true of them.
Answer(keys, State(_)) ==
  [keys |-> keys, state |-> [i \in DOMAIN keys |-> State(keys[i])],
   pressed |-> [i \in DOMAIN keys |-> Bit(keys[i] \in down \cup since)]]

\* GetAsyncKeyState: the key is down, or was pressed since the last such call for it.
AsyncKeyState(k) == Bit(k \in down \cup since)

WindowsGetKey(k) ==
  /\ platform = "windows"
  /\ read' = Answer(<<k>>, AsyncKeyState)
  /\ since' = since \ {k}
  /\ UNCHANGED <<platform, down, displays, w2lKey>>

WindowsGetData ==
  /\ platform = "windows"
  /\ read' = Answer(DataKeys, AsyncKeyState)
  /\ since' = since \ {DataKeys[i] : i \in DOMAIN DataKeys}
  /\ UNCHANGED <<platform, down, displays, w2lKey>>

\* The key symbols MDD_keyboardInitialize puts into its table: F5 is missing, and from
\* there each function key has the symbol of the next.
Symbol(k) ==
  CASE k \in (65 .. 90) \cup (48 .. 57) \cup {13, 17, 32, 18, 9} \cup (33 .. 40) -> k
    [] k \in (96 .. 107) \cup {109, 111} \cup (112 .. 115) -> k
    [] k \in 116 .. 122 -> k + 1
    [] OTHER -> 0

\* MDD_keyboardInitialize opens a display of its own.
Table(opened) == [k \in ReadKeys |-> IF opened THEN Symbol(k) ELSE 0]

\* XQueryKeymap and the bit of the key code
InKeymap(code) == Bit(code \in down)

\* Opening a display may fail at any time (XOpenDisplay).  GetKey then leaves its result
\* unwritten and tries again, table and all, at the next call; the table is not filled
\* again once the display is open.
LinuxGetKey(k) ==
  /\ platform = "linux"
  /\ \E opened, filled \in BOOLEAN :
       /\ w2lKey' = IF "GetKey" \in displays THEN w2lKey ELSE Table(filled)
       /\ IF "GetKey" \in displays \/ opened
            THEN /\ displays' = displays \cup {"GetKey"}
                 /\ read' = Answer(<<k>>, LAMBDA key : InKeymap(w2lKey'[key]))
            ELSE /\ read' = Answer(<<k>>, LAMBDA key : Unwritten)
                 /\ UNCHANGED displays
  /\ UNCHANGED <<platform, down, since>>

\* GetData has its own display, and no table; without a display all keys are up.
LinuxGetData ==
  /\ platform = "linux"
  /\ \E opened \in BOOLEAN :
       IF "GetData" \in displays \/ opened
         THEN /\ displays' = displays \cup {"GetData"}
              /\ read' = Answer(DataKeys, InKeymap)
         ELSE /\ read' = Answer(DataKeys, LAMBDA key : 0)
              /\ UNCHANGED displays
  /\ UNCHANGED <<platform, down, since, w2lKey>>

Next ==
  \/ \E k \in Keys : Press(k) \/ Release(k)
  \/ \E k \in AskedKeys : WindowsGetKey(k) \/ LinuxGetKey(k)
  \/ WindowsGetData \/ LinuxGetData

Spec == Init /\ [][Next]_vars

----------------------------------------------------------------------------
(* Properties *)

\* F5 to F12 of the block KeyboardKeyInput on Linux show the next key or none.
Misplaced(k) == platform = "linux" /\ Len(read.keys) = 1 /\ k \in 116 .. 123

\* "Get state of the specified key" (MDDKeyboard.h:239): no key is shown as pressed that
\* is not, and one that is pressed is shown whenever the display was opened in time - by
\* GetData always, by GetKey if the table was filled as well.
KeysAreShown ==
  \A i \in DOMAIN read.keys :
    LET k == read.keys[i]
        s == read.state[i]
        ready == \/ platform = "windows"
                 \/ Len(read.keys) > 1 /\ "GetData" \in displays
                 \/ Len(read.keys) = 1 /\ "GetKey" \in displays /\ w2lKey[k] # 0
    IN  ~Misplaced(k) =>
          /\ s = 1 => read.pressed[i] = 1
          /\ ready /\ read.pressed[i] = 1 => s = 1
=============================================================================
