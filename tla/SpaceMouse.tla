----------------------------- MODULE SpaceMouse ------------------------------
(***************************************************************************)
(* src/SpaceMouse/MDDSpaceMouse.c: a thread, created by the first read,    *)
(* follows the space mouse and writes what it reports into arrays the      *)
(* simulation copies, without a lock.  On Windows the thread reads reports *)
(* of translation, rotation and buttons from the device, on Linux events   *)
(* of an X11 driver.  Three axes that are reported together count as one   *)
(* value, the number of the report they come from, and the buttons are     *)
(* copied at once.  No more than one space mouse is attached.              *)
(***************************************************************************)
EXTENDS Integers, Sequences, FiniteSets

CONSTANTS
  MAX_DEVICES,  \* 50 in the code
  MaxAttached,  \* bound: HID devices attached
  ButtonSets,   \* buttons that are held down together, on Windows
  LinuxButtons, \* buttons by the numbers of the X11 driver, from 1
  MaxReports    \* bound: reports of the space mouse

\* A report on Windows has three bytes for buttons.
SpaceMouseAssumption ==
  /\ MAX_DEVICES \in Nat \ {0} /\ MaxAttached \in Nat /\ MaxReports \in Nat
  /\ ButtonSets \subseteq SUBSET (0 .. 23) /\ LinuxButtons \subseteq Nat \ {0}

MDD_N_BUTTONS == 16

VARIABLES
  platform,  \* "windows" or "linux"
  attached,  \* on Windows: the HID devices, in the order the system lists them
  mouse,     \* what the space mouse is at: [translation, rotation, buttons]
  reports,   \* reports so far
  unread,    \* those the thread has not taken: [kind, value]
  missed,    \* parts of mouse whose latest report the thread never sees
  rx,        \* the thread
  allDOFs,   \* the thread's translation and rotation
  got,       \* on Windows: which of them are new, bGotTranslationVector ...
  Axes,      \* SPC_Axes, mDDSpaceMouse->axes: [translation, rotation]
  Buttons,   \* SPC_Buttons, mDDSpaceMouse->buttons: those that are 1
  sim,       \* the simulation
  copy,      \* the results of its read: [translation, rotation, buttons]
  settled    \* nothing was reported or under way since the read began

vars == <<platform, attached, mouse, reports, unread, missed, rx, allDOFs, got, Axes, Buttons,
          sim, copy, settled>>

Parts == {"translation", "rotation", "buttons"}
Halves == {"translation", "rotation"}
Number == 0 .. MaxReports

TypeOK ==
  /\ platform \in {"windows", "linux"}
  /\ attached \in Seq({"mouse", "other"}) /\ Len(attached) <= MaxAttached
  /\ DOMAIN mouse = Parts /\ mouse.translation \in Number /\ mouse.rotation \in Number
  /\ reports \in Number
  /\ Len(unread) <= reports
  /\ missed \subseteq Parts
  /\ rx \in {"none", "start", "wait", "translation", "rotation", "ended", "error"}
  /\ allDOFs \in [Halves -> Number] /\ got \subseteq Halves
  /\ Axes \in [Halves -> Number] /\ Buttons \subseteq 0 .. MDD_N_BUTTONS - 1
  /\ sim \in {"idle", "translation", "rotation", "buttons", "error"}
  /\ DOMAIN copy = Parts
  /\ settled \in BOOLEAN

AtRest == [translation |-> 0, rotation |-> 0, buttons |-> {}]

Init ==
  /\ platform \in {"windows", "linux"}
  /\ attached \in UNION {[1 .. n -> {"mouse", "other"}] : n \in 0 .. MaxAttached}
  /\ Cardinality({d \in DOMAIN attached : attached[d] = "mouse"}) <= 1
  /\ mouse = AtRest /\ reports = 0 /\ unread = <<>> /\ missed = {}
  /\ rx = "none" /\ allDOFs = [h \in Halves |-> 0] /\ got = {}
  /\ Axes = [h \in Halves |-> 0] /\ Buttons = {}
  /\ sim = "idle" /\ copy = AtRest /\ settled = FALSE

Sim == <<sim, copy>>
Shown == <<Axes, Buttons>>

\* The space mouse changes in some parts and reports it to whoever listens: a report makes
\* up for earlier ones of its parts, but that of one button not for those of others.
Report(kind, value, parts, to) ==
  /\ reports < MaxReports /\ reports' = reports + 1
  /\ mouse' = to
  /\ settled' = FALSE
  /\ IF rx \in {"wait", "translation", "rotation"}
       THEN /\ unread' = Append(unread, [kind |-> kind, value |-> value])
            /\ missed' = IF kind \in {"press", "release"} THEN missed ELSE missed \ parts
       ELSE /\ missed' = missed \cup parts
            /\ UNCHANGED unread
  /\ UNCHANGED <<platform, attached, rx, allDOFs, got, Shown, Sim>>

WindowsReport ==
  /\ platform = "windows"
  /\ \/ \E h \in Halves : Report(h, reports + 1, {h}, [mouse EXCEPT ![h] = reports + 1])
     \/ \E s \in ButtonSets : Report("buttons", s, {"buttons"}, [mouse EXCEPT !.buttons = s])

LinuxReport ==
  /\ platform = "linux"
  /\ \/ Report("motion", reports + 1, Halves,
               [mouse EXCEPT !.translation = reports + 1, !.rotation = reports + 1])
     \/ \E b \in LinuxButtons :
          IF b - 1 \in mouse.buttons
            THEN Report("release", b, {"buttons"}, [mouse EXCEPT !.buttons = @ \ {b - 1}])
            ELSE Report("press", b, {"buttons"}, [mouse EXCEPT !.buttons = @ \cup {b - 1}])

\* The devices the thread looks at: it enters each into the next element of SPC_Devices and
\* stays at the last element when there is no other; that one is never looked at.
Listed == {d \in DOMAIN attached : d < MAX_DEVICES}

\* The thread searches the devices for space mice and ends if there is none.
WindowsStart ==
  /\ platform = "windows" /\ rx = "start"
  /\ rx' = IF \E d \in Listed : attached[d] = "mouse" THEN "wait" ELSE "ended"
  /\ UNCHANGED <<platform, attached, mouse, reports, unread, missed, allDOFs, got, Shown, Sim,
                 settled>>

\* The thread opens a display and a window and registers it with the X11 driver; an error
\* of one of them is raised in the thread.
LinuxStart ==
  /\ platform = "linux" /\ rx = "start"
  /\ \/ rx' = "wait" /\ UNCHANGED sim
     \/ rx' = "error" /\ sim' = "error"
  /\ UNCHANGED <<platform, attached, mouse, reports, unread, missed, allDOFs, got, Shown, copy,
                 settled>>

\* A byte of a report is of type char: bit 7 makes it negative.
Byte(held, k) ==
  LET bit(b) == IF 8 * k + b \in held THEN 2 ^ b ELSE 0
  IN  bit(0) + bit(1) + bit(2) + bit(3) + bit(4) + bit(5) + bit(6) - bit(7)

\* The buttons a report of the set held sets to 1
Decoded(held) ==
  LET iButton == Byte(held, 0) + 2 ^ 8 * Byte(held, 1) + 2 ^ 16 * Byte(held, 2)
  IN  {b \in 0 .. MDD_N_BUTTONS - 1 : (iButton \div 2 ^ b) % 2 = 1}

WindowsReadWithoutRotation ==
  /\ platform = "windows" /\ rx = "wait" /\ unread # <<>>
  /\ unread' = Tail(unread)
  /\ LET r == Head(unread)
     IN  IF r.kind = "buttons"
           THEN /\ Buttons' = Decoded(r.value)
                /\ UNCHANGED <<allDOFs, got, rx>>
           ELSE /\ allDOFs' = [allDOFs EXCEPT ![r.kind] = r.value]
                /\ got' = {}
                /\ rx' = IF r.kind = "translation" THEN "translation" ELSE rx
                /\ UNCHANGED Buttons
  /\ UNCHANGED <<platform, attached, mouse, reports, missed, Axes, Sim, settled>>

\* A report is read; translation and rotation are passed on when both have come.
WindowsRead ==
  /\ platform = "windows" /\ rx = "wait" /\ unread # <<>>
  /\ unread' = Tail(unread)
  /\ LET r == Head(unread)
     IN  IF r.kind = "buttons"
           THEN /\ Buttons' = Decoded(r.value)
                /\ UNCHANGED <<allDOFs, got, rx>>
           ELSE /\ allDOFs' = [allDOFs EXCEPT ![r.kind] = r.value]
                /\ IF got \cup {r.kind} = Halves
                     THEN got' = {} /\ rx' = "translation"
                     ELSE got' = got \cup {r.kind} /\ UNCHANGED rx
                /\ UNCHANGED Buttons
  /\ UNCHANGED <<platform, attached, mouse, reports, missed, Axes, Sim, settled>>

\* Motion events behind the one that is handled are taken from the queue unread
\* (MagellanRemoveMotionEvents).
NoMotion(queue) ==
  LET rest[k \in 0 .. Len(queue)] ==
        IF k = 0 THEN <<>>
        ELSE IF queue[k].kind = "motion" THEN rest[k - 1] ELSE Append(rest[k - 1], queue[k])
  IN  rest[Len(queue)]

LinuxRead ==
  /\ platform = "linux" /\ rx = "wait" /\ unread # <<>>
  /\ LET r == Head(unread)
     IN  CASE r.kind = "motion" ->
                /\ unread' = NoMotion(Tail(unread))
                /\ missed' = IF unread' # Tail(unread) THEN missed \cup Halves ELSE missed
                /\ allDOFs' = [h \in Halves |-> r.value]
                /\ rx' = "translation"
                /\ UNCHANGED <<Buttons, sim>>
           [] r.kind # "motion" /\ r.value - 1 < MDD_N_BUTTONS ->
                /\ unread' = Tail(unread)
                /\ Buttons' = IF r.kind = "press" THEN Buttons \cup {r.value - 1}
                                                  ELSE Buttons \ {r.value - 1}
                /\ UNCHANGED <<missed, allDOFs, rx, sim>>
           [] OTHER ->  \* the button is out of range
                /\ unread' = Tail(unread)
                /\ rx' = "error" /\ sim' = "error"
                /\ UNCHANGED <<missed, allDOFs, Buttons>>
  /\ UNCHANGED <<platform, attached, mouse, reports, got, Axes, copy, settled>>

\* The axes are written one after the other.
WriteAxes ==
  /\ rx \in Halves
  /\ Axes' = [Axes EXCEPT ![rx] = allDOFs[rx]]
  /\ rx' = IF rx = "translation" THEN "rotation" ELSE "wait"
  /\ UNCHANGED <<platform, attached, mouse, reports, unread, missed, allDOFs, got, Buttons,
                 Sim, settled>>

\* MDD_spaceMouseGetData: the first call creates the thread.  When that fails, Linux raises
\* an error, and Windows tries again at the next call.
GetData ==
  /\ sim = "idle"
  /\ \/ rx = "none" /\ rx' = "start" /\ sim' = "translation"
     \/ rx = "none" /\ platform = "windows" /\ UNCHANGED rx /\ sim' = "translation"
     \/ rx = "none" /\ platform = "linux" /\ UNCHANGED rx /\ sim' = "error"
     \/ rx # "none" /\ UNCHANGED rx /\ sim' = "translation"
  /\ settled' = (rx = "wait" /\ unread = <<>>)
  /\ UNCHANGED <<platform, attached, mouse, reports, unread, missed, allDOFs, got, Shown,
                 copy>>

\* The arrays are copied one element after the other.
CopyAxes ==
  /\ sim \in Halves
  /\ copy' = [copy EXCEPT ![sim] = Axes[sim]]
  /\ sim' = IF sim = "translation" THEN "rotation" ELSE "buttons"
  /\ UNCHANGED <<platform, attached, mouse, reports, unread, missed, rx, allDOFs, got, Shown,
                 settled>>

CopyButtons ==
  /\ sim = "buttons" /\ sim' = "idle"
  /\ copy' = [copy EXCEPT !.buttons = Buttons]
  /\ UNCHANGED <<platform, attached, mouse, reports, unread, missed, rx, allDOFs, got, Shown,
                 settled>>

Ended == sim = "error" /\ UNCHANGED vars

Next ==
  \/ WindowsReport \/ LinuxReport \/ WindowsStart \/ LinuxStart \/ WindowsRead \/ LinuxRead
  \/ WriteAxes \/ GetData \/ CopyAxes \/ CopyButtons \/ Ended

Spec == Init /\ [][Next]_vars

----------------------------------------------------------------------------
(* Properties *)

\* Parts a read shows as they are: what the thread never saw is excepted, on Windows a half
\* whose other half has not followed, and buttons whose number sets bit 7 of a byte.
Reliable ==
  (Parts \ missed) \ (got \cup IF \E b \in mouse.buttons : b % 8 = 7 /\ platform = "windows"
                                 THEN {"buttons"} ELSE {})

\* What the results have room for: no more buttons than MDD_N_BUTTONS
Room(part) ==
  IF part = "buttons" THEN mouse.buttons \cap 0 .. MDD_N_BUTTONS - 1 ELSE mouse[part]

\* "Get space mouse data" (306): a read during which nothing was reported or under way
\* returns what the space mouse is at, translation and rotation of the same moment.
ReadIsCurrent ==
  sim = "idle" /\ settled => \A p \in Reliable : copy[p] = Room(p)
=============================================================================
