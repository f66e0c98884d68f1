------------------------------ MODULE Hd44780 --------------------------------
(***************************************************************************)
(* MDDAVRHD44780.h: a program for an AVR writes text on a display of two   *)
(* lines.  The four data lines, E and RS are pins of one port; a byte goes *)
(* over as two nibbles, and RS says whether it is a character or a         *)
(* command.  The display is taken to expect four-bit nibbles, as it does   *)
(* once it was set up.                                                     *)
(***************************************************************************)
EXTENDS Naturals, Sequences

CONSTANTS
  Chars,      \* characters
  LineLength, \* characters of a line (16 in the code)
  Memory,     \* what the display remembers of a line (40 in the display)
  MaxUpdates  \* bound: updates of the display

DisplayAssumption ==
  LineLength \in Nat \ {0} /\ Memory \in Nat /\ LineLength <= Memory /\ MaxUpdates \in Nat \ {0}

VARIABLES
  pc,      \* "off", "run", "exit" (assert(0))
  buffer,  \* the text, both lines
  lcd,     \* RS of the port; of the display, the memory of its lines and the next place
  shown,   \* the text at the latest update
  updates  \* how often the display was updated

vars == <<pc, buffer, lcd, shown, updates>>

Commands == {"clear", "line 2", "function set", "display on", "entry mode"}
Blank == " "

\* Places 0 .. Memory - 1 are the first line, those from Memory on the second.
Places == 0 .. 2 * Memory - 1
Texts == [1 .. 2 * LineLength -> Chars \cup {Blank}]

TypeOK ==
  /\ pc \in {"off", "run", "exit"}
  /\ buffer \in Texts /\ shown \in Texts
  /\ lcd.rs \in BOOLEAN /\ lcd.place \in Places
  /\ lcd.memory \in [Places -> Chars \cup Commands \cup {Blank}]
  /\ updates \in 0 .. MaxUpdates

\* Where the display is before it is set up makes no difference to what follows.
Init ==
  /\ pc = "off"
  /\ buffer = [k \in 1 .. 2 * LineLength |-> Blank] /\ shown = buffer
  /\ lcd = [rs |-> FALSE, memory |-> [p \in Places |-> Blank], place |-> 0]
  /\ updates = 0

\* The display takes a byte: with RS a character, for its next place; else a command.
Take(l, byte) ==
  CASE l.rs -> [l EXCEPT !.memory[l.place] = byte, !.place = (l.place + 1) % (2 * Memory)]
    [] ~l.rs /\ byte = "clear" -> [l EXCEPT !.memory = [p \in Places |-> Blank], !.place = 0]
    [] ~l.rs /\ byte = "line 2" -> [l EXCEPT !.place = Memory]
    [] OTHER -> l

\* data_transfer: RS is as it was.
DataTransfer(l, byte) == Take(l, byte)

\* lcd_data_transfer of the characters of a text, one after the other: RS is set, and they go
\* to the next places.
LcdDataTransfer(l, text) ==
  LET place(k) == (l.place + k) % (2 * Memory)
  IN  [rs |-> TRUE,
       place |-> place(Len(text)),
       memory |-> [p \in Places |->
                     IF \E k \in DOMAIN text : p = place(k - 1)
                       THEN text[CHOOSE k \in DOMAIN text : p = place(k - 1)] ELSE l.memory[p]]]

\* goto_nextline
GotoNextline(l) == DataTransfer([l EXCEPT !.rs = FALSE], "line 2")

\* refresh_lcd
RefreshLcd(l) == DataTransfer(l, "clear")

\* update_lcd
UpdateLcd(l, text) ==
  LET First == SubSeq(text, 1, LineLength)
      Second == SubSeq(text, LineLength + 1, 2 * LineLength)
  IN  LcdDataTransfer(GotoNextline(LcdDataTransfer(RefreshLcd(l), First)), Second)

\* The display is set up.
SetUpLcd(l) ==
  DataTransfer(DataTransfer(DataTransfer(l, "function set"), "display on"), "entry mode")

\* MDD_avr_digitial_HD44780_init; the ports are numbered from 1, and there are three.
Construct(port, text) ==
  /\ pc = "off"
  /\ IF port \in 1 .. 3
       THEN /\ pc' = "run" /\ buffer' = text /\ shown' = text /\ updates' = 1
            /\ lcd' = UpdateLcd(SetUpLcd([lcd EXCEPT !.rs = FALSE]), text)
       ELSE pc' = "exit" /\ UNCHANGED <<buffer, lcd, shown, updates>>

\* MDD_avr_digitial_HD44780_updateTextBufferByte
UpdateTextBufferByte(index, char) ==
  /\ pc = "run"
  /\ buffer' = [buffer EXCEPT ![index] = char]
  /\ UNCHANGED <<pc, lcd, shown, updates>>

\* MDD_avr_digitial_HD44780_updateDisplay
UpdateDisplay ==
  /\ pc = "run" /\ updates < MaxUpdates
  /\ lcd' = UpdateLcd(lcd, buffer)
  /\ shown' = buffer /\ updates' = updates + 1
  /\ UNCHANGED <<pc, buffer>>

Off == pc = "exit" /\ UNCHANGED vars

Next ==
  \/ \E port \in {3, 4}, c \in Chars : Construct(port, [k \in 1 .. 2 * LineLength |-> c])
  \/ \E index \in 1 .. 2 * LineLength, c \in Chars : UpdateTextBufferByte(index, c)
  \/ UpdateDisplay \/ Off

Spec == Init /\ [][Next]_vars

----------------------------------------------------------------------------
(* Properties *)

\* The second line of the display is that of the latest update ("Updates the displayed text of
\* the LCD from the buffer", LCD.mo:16), and so is the first line after the first update.  At
\* later ones RS is still that of the last character and the command that clears the display
\* is taken for a character of the second line.
TextIsShown ==
  pc = "run" =>
    \A k \in 1 .. LineLength :
      /\ lcd.memory[Memory + k - 1] = shown[LineLength + k]
      /\ updates = 1 => lcd.memory[k - 1] = shown[k]
=============================================================================
