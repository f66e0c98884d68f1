--------------------------- MODULE AvrPeripherals ----------------------------
(***************************************************************************)
(* MDDAVRTimer.h, MDDAVRDigital.h, MDDAVRAnalog.h, MDDAVRSerial.h and      *)
(* MDDAVRSerialStdio.h: blocks of an AVR program set up its peripherals in *)
(* any order and then use them, all in the main loop.  Each timer, pin and *)
(* the converter belong to one block.                                      *)
(***************************************************************************)
EXTENDS Integers, FiniteSets

CONSTANTS
  Clocks, PwmTimers, \* clock selections 1 .. 7 and timers (of pwm_init) that are tried
  Ports, Pins,       \* digital pins: ports 1 .. 4, pins 1 .. 8
  AnalogPorts,       \* analog inputs, 1 .. 16
  References,        \* reference voltages 1 .. 4 and
  Divisions,         \*   division factors 1 .. 7 of the converter
  Bauds,             \* baud rates 1 .. 7
  MaxSetUps          \* bound: blocks that are set up

\* The enumerations of the blocks
PeripheralsAssumption ==
  /\ Clocks \subseteq 1 .. 7 /\ Ports \subseteq 1 .. 4 /\ Pins \subseteq 1 .. 8
  /\ AnalogPorts \subseteq 1 .. 16 /\ References \subseteq 1 .. 4 /\ Divisions \subseteq 1 .. 7
  /\ Bauds \subseteq 1 .. 7 /\ MaxSetUps \in Nat

VARIABLES
  cpu,     \* "ATmega16" or "ATmega328P"
  reg,     \* the registers: the bits that are 1, <<register, bit>>
  pwm,     \* OCR1A and OCR1B
  blocks,  \* blocks that are set up: [kind, at, ones, zeros], with the bits they ask for
  outputs, \* of each digital output: the value it was given last, FALSE before
  reads,   \* conversions so far: <<analog port, resolution>>
  adc,     \* the latest conversion: [port, channel]
  halted   \* exit(1)

vars == <<cpu, reg, pwm, blocks, outputs, reads, adc, halted>>

DDR == <<"DDRA", "DDRB", "DDRC", "DDRD">>
PORT == <<"PORTA", "PORTB", "PORTC", "PORTD">>
Registers ==
  {"TCCR0", "TCCR0A", "TCCR0B", "TCCR1A", "TCCR1B", "TCCR2A", "TCCR2B", "ADMUX", "ADCSRA",
   "UBRR", "UCSRB", "UCSRC"} \cup {DDR[p] : p \in 1 .. 4} \cup {PORT[p] : p \in 1 .. 4}

Bits(r, bits) == {r} \X bits

TypeOK ==
  /\ cpu \in {"ATmega16", "ATmega328P"}
  /\ reg \subseteq Registers \X (0 .. 15)
  /\ pwm \in [1 .. 2 -> 0 .. 255]
  /\ Cardinality(blocks) <= MaxSetUps
  /\ outputs \in [Ports \X Pins -> BOOLEAN]
  /\ reads \subseteq AnalogPorts \X {8, 16}
  /\ adc.channel \subseteq 0 .. 3
  /\ halted \in BOOLEAN

Init ==
  /\ cpu \in {"ATmega16", "ATmega328P"}
  /\ reg = {} /\ pwm = [p \in 1 .. 2 |-> 0]
  /\ blocks = {} /\ outputs = [p \in Ports \X Pins |-> FALSE]
  /\ reads = {} /\ adc = [port |-> 0, channel |-> {}]
  /\ halted = FALSE

\* A block is set up; there is no other with the same resource.
SetUp(kind, at, ones, zeros) ==
  /\ ~halted /\ Cardinality(blocks) < MaxSetUps
  /\ \A b \in blocks : <<b.kind, b.at>> # <<kind, at>>
  /\ blocks' = blocks \cup {[kind |-> kind, at |-> at, ones |-> ones, zeros |-> zeros]}

IsSetUp(kind, at) == ~halted /\ \E b \in blocks : b.kind = kind /\ b.at = at

Exit == ~halted /\ halted' = TRUE /\ UNCHANGED <<cpu, reg, pwm, blocks, outputs, reads, adc>>

\* clockSelectTable0, 1 and 2: the bits CSn2 .. CSn0 of the clock selections, none for those
\* a timer does not have
ClockBits(timer, clock) ==
  IF timer = 3 THEN <<{0}, {1}, {0, 1}, {2}, {0, 2}, {1, 2}, {0, 1, 2}>>[clock]
               ELSE <<{0}, {1}, {}, {0, 1}, {}, {2}, {0, 2}>>[clock]

\* The register of the clock of a timer; the ATmega16 has no TCCR2B.
ClockRegister(timer) ==
  CASE timer = 1 -> IF cpu = "ATmega16" THEN "TCCR0" ELSE "TCCR0B"
    [] timer = 2 -> "TCCR1B"
    [] timer = 3 -> "TCCR2B"

\* The bit that makes a timer clear on match
ClearBit(timer) ==
  CASE timer = 1 -> IF cpu = "ATmega16" THEN <<"TCCR0", 3>> ELSE <<"TCCR0A", 1>>
    [] timer = 2 -> <<"TCCR1B", 3>>
    [] timer = 3 -> <<"TCCR2A", 1>>

\* MDD_avr_timer_init
TimerInit(timer, clock, clear) ==
  LET clocks == Bits(ClockRegister(timer), ClockBits(timer, clock))
      match == IF clear THEN {ClearBit(timer)} ELSE {}
  IN  IF ClockBits(timer, clock) = {} \/ (timer = 3 /\ cpu = "ATmega16")
        THEN Exit
        ELSE /\ SetUp("timer", timer, clocks \cup match,
                      (Bits(ClockRegister(timer), 0 .. 2) \cup {ClearBit(timer)})
                        \ (clocks \cup match))
             /\ reg' = reg \cup clocks \cup match
             /\ UNCHANGED <<cpu, pwm, outputs, reads, adc, halted>>

\* The data direction bit MDD_avr_pwm_init sets for a PWM pin
PwmDirection(pin) == IF cpu = "ATmega16" THEN <<"DDRD", 3 + pin>> ELSE <<"DDRB", pin>>

\* The mode a block asks for: WGM10, COM1x1 and, inverted, COM1x0 ("COM1X1=1, COM1X0=1 =
\* Inverting", MDDAVRTimer.h:128)
PwmAsked(pin, inverted) ==
  Bits("TCCR1A", {0} \cup CASE pin = 1 -> IF inverted THEN {7, 6} ELSE {7}
                            [] pin = 2 -> IF inverted THEN {5, 4} ELSE {5})

\* The bit that is not set, whatever is asked: COM1B0
NotInverted == {<<"TCCR1A", 4>>}

\* The mode that is set
PwmMode(pin, inverted) == PwmAsked(pin, inverted) \ NotInverted

\* MDD_avr_pwm_init: only timer 1 has PWM pins.
PwmInit(timer, pin, value, inverted) ==
  LET ones == {PwmDirection(pin)} \cup PwmAsked(pin, inverted)
  IN  IF timer # 2
        THEN Exit
        ELSE /\ \A b \in blocks : b.kind = "digital" =>
                  PwmDirection(pin) \notin b.ones \cup b.zeros
             /\ SetUp("pwm", pin, ones, PwmAsked(pin, TRUE) \ ones)
             /\ reg' = reg \cup {PwmDirection(pin)} \cup PwmMode(pin, inverted)
             /\ pwm' = [pwm EXCEPT ![pin] = value]
             /\ UNCHANGED <<cpu, outputs, reads, adc, halted>>

\* MDD_avr_pwm_set
PwmSet(pin, value) ==
  /\ IsSetUp("pwm", pin)
  /\ pwm' = [pwm EXCEPT ![pin] = value]
  /\ UNCHANGED <<cpu, reg, blocks, outputs, reads, adc, halted>>

DirectionAssigned(bit, isOutput) ==
  IF isOutput THEN {b \in reg : b[1] # bit[1]} \cup {bit} ELSE reg \ {bit}

\* The registers after a bit of data direction was set or cleared
Direction(bit, isOutput) == IF isOutput THEN reg \cup {bit} ELSE reg \ {bit}

\* MDD_avr_digital_pin_init; what it returns is the port of an output, the inputs of an
\* input.
DigitalInit(port, pin, isOutput) ==
  LET bit == <<DDR[port], pin - 1>>
  IN  /\ \A b \in blocks : b.kind = "pwm" => bit \notin b.ones
      /\ SetUp("digital", 8 * port + pin, IF isOutput THEN {bit} ELSE {},
               IF isOutput THEN {} ELSE {bit})
      /\ reg' = Direction(bit, isOutput)
      /\ UNCHANGED <<cpu, pwm, outputs, reads, adc, halted>>

\* MDD_avr_digital_pin_write of an output; a read leaves no trace.
DigitalWrite(port, pin, value) ==
  LET bit == <<PORT[port], pin - 1>>
  IN  /\ IsSetUp("digital", 8 * port + pin) /\ <<DDR[port], pin - 1>> \in reg
      /\ reg' = IF value THEN reg \cup {bit} ELSE reg \ {bit}
      /\ outputs' = [outputs EXCEPT ![<<port, pin>>] = value]
      /\ UNCHANGED <<cpu, pwm, blocks, reads, adc, halted>>

\* The bits of a number up to 15
BitsOf(n) == {b \in 0 .. 3 : (n \div 2 ^ b) % 2 = 1}

\* ADLAR is the number of a bit, 5; the code uses it as a mask.
ADLAR == BitsOf(5)

\* MDD_avr_analog_init: reference voltage, prescaler and enable
AnalogInit(division, reference) ==
  LET ones == Bits("ADMUX", {6 + b : b \in BitsOf(reference - 1)})
                \cup Bits("ADCSRA", {7} \cup BitsOf(division))
  IN  /\ SetUp("analog", 1, ones, (Bits("ADMUX", 6 .. 7) \cup Bits("ADCSRA", 0 .. 2)) \ ones)
      /\ reg' = reg \cup ones
      /\ UNCHANGED <<cpu, pwm, outputs, reads, adc, halted>>

\* ADMUX keeps the bits of keep and gets those of set, and the channel it selects is
\* converted.
Convert(port, bits, keep, set) ==
  /\ IsSetUp("analog", 1)
  /\ reg' = {b \in reg : b[1] = "ADMUX" => b[2] \in keep}
              \cup Bits("ADMUX", set \cup BitsOf(port - 1))
  /\ reads' = reads \cup {<<port, bits>>}
  /\ adc' = [port |-> port, channel |-> {b \in 0 .. 3 : <<"ADMUX", b>> \in reg'}]
  /\ UNCHANGED <<cpu, pwm, blocks, outputs, halted>>

\* MDD_avr_analog_read_8bit
AnalogRead8(port) == Convert(port, 8, 5 .. 7, ADLAR)

\* read_adc_16bit, with the mask 0xE0 ^ ADLAR
AnalogRead16(port) == Convert(port, 16, (5 .. 7) \cup ADLAR, {})

\* MDD_avr_uart_init: the divider of the baud rate, 8 data bits, receiver and transmitter.
\* The standard streams (uart_putchar, uart_getchar) wait for the data register and leave
\* no trace.
UartInit(baud) ==
  LET bits == Bits("UBRR", {baud}) \cup Bits("UCSRC", {2, 1}) \cup Bits("UCSRB", {4, 3})
      others == {b \in reg : b[1] \notin {"UBRR", "UCSRB", "UCSRC"}}
  IN  /\ SetUp("uart", 1, bits, {})
      /\ reg' = IF cpu = "ATmega16" THEN reg \cup bits \cup {<<"UCSRC", 7>>} ELSE others \cup bits
      /\ UNCHANGED <<cpu, pwm, outputs, reads, adc, halted>>

Halted == halted /\ UNCHANGED vars

Next ==
  \/ Halted
  \/ \E timer \in 1 .. 3, clock \in Clocks, clear \in BOOLEAN : TimerInit(timer, clock, clear)
  \/ \E timer \in PwmTimers, pin \in 1 .. 2, inverted \in BOOLEAN :
       PwmInit(timer, pin, 0, inverted)
  \/ \E pin \in 1 .. 2 : PwmSet(pin, 255)
  \/ \E port \in Ports, pin \in Pins, b \in BOOLEAN :
       DigitalInit(port, pin, b) \/ DigitalWrite(port, pin, b)
  \/ \E d \in Divisions, r \in References : AnalogInit(d, r)
  \/ \E port \in AnalogPorts : AnalogRead8(port) \/ AnalogRead16(port)
  \/ \E baud \in Bauds : UartInit(baud)

Spec == Init /\ [][Next]_vars

----------------------------------------------------------------------------
(* Properties *)

\* The conversions are of the input that is read, up to the bits of ADLAR, which the code
\* takes for a mask: those are right while every read is with full resolution and none is of
\* an input that has a bit of them which the present one does not have ("also clears ADLAR",
\* MDDAVRAnalog.h:43).
ChannelSelected ==
  LET asked == BitsOf(adc.port - 1)
  IN  reads # {} =>
        /\ adc.channel \ ADLAR = asked \ ADLAR
        /\ (\A r \in reads : r[2] = 16 /\ BitsOf(r[1] - 1) \cap ADLAR \subseteq asked) =>
             adc.channel = asked

\* What a block set up stands, whatever was set up before and after it ("Trust the user calls
\* the following functions correctly", MDDAVRDigital.h:12): the bits of its own are as it
\* asked, but for the inversion of PWM pin 2, which the code never sets; an output has the
\* value it was given; and the converter converts what is read as far as ChannelSelected says.
SetUpStands ==
  /\ \A b \in blocks : b.ones \ NotInverted \subseteq reg /\ b.zeros \cap reg = {}
  /\ \A p \in Ports \X Pins : outputs[p] <=> <<PORT[p[1]], p[2] - 1>> \in reg
  /\ ChannelSelected
=============================================================================
