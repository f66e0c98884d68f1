------------------------------- MODULE Stm32 ---------------------------------
(***************************************************************************)
(* MDDSTM32F4RealTime.h, MDDSTM32F4Digital.h and the block                 *)
(* SynchronizeRealtime: blocks of a program for an STM32F4 set up its      *)
(* clock, pins, interrupts of pins and LEDs; each step of the simulation   *)
(* then waits for its tick, which the SysTick interrupt counts.  The HAL   *)
(* is external.                                                            *)
(***************************************************************************)
EXTENDS Naturals, FiniteSets

CONSTANTS
  Ports, Pins, \* ports 1 .. 9 and pins 1 .. 16 that blocks use; pin 17 is all of a port
  Leds,        \* LEDs 1 .. 4 that blocks use
  Periods,     \* periods of the simulation in ticks
  UINT32,      \* values of a uint32_t (2^32 in the code)
  MaxTicks,    \* bound: ticks and
  MaxSteps,    \*   steps of the simulation
  MaxBlocks    \* bound: pins and LEDs that are set up

StmAssumption ==
  /\ Periods \subseteq Nat /\ UINT32 \in Nat \ {0}
  /\ MaxTicks \in Nat /\ MaxSteps \in Nat /\ MaxBlocks \in Nat

VARIABLES
  pc,       \* "init", "run", "wait", "exit"
  rcc,      \* the clock: [source, pll], source "none" until it is set up
  pins,     \* mode and output of the pins
  line,     \* the port of the interrupt of each pin number, 0: none
  enabled,  \* pin numbers whose interrupt is enabled
  leds,     \* what the LEDs show
  blocks,   \* blocks that are set up: [kind, port, pin, value], kind the mode of a pin that
            \*   was asked for or "led", value the latest
  period,
  uwTick,   \* ticks since HAL_Init
  tick,     \* the block's
  steps,    \* steps that are over,
  called,   \*   when the latest of them was called
  ended     \*   and ended

gpio == <<pins, line, enabled, leds, blocks>>
time == <<period, uwTick, tick, steps, called, ended>>
vars == <<pc, rcc, gpio, time>>

Modes == {"reset", "output", "input", "falling"}

\* MOD2BSP_Mode: the edges a block of an interrupt can ask for
ExtiModes == <<"rising", "falling", "both">>
IsExti(b) == \E mode \in 1 .. 3 : b.kind = ExtiModes[mode]

TypeOK ==
  /\ pc \in {"init", "run", "wait", "exit"}
  /\ rcc \in [source : {"none", "HSI", "HSE"}, pll : BOOLEAN]
  /\ pins \in [Ports \X Pins -> [mode : Modes, output : BOOLEAN]]
  /\ line \in [Pins -> Ports \cup {0}] /\ enabled \subseteq Pins
  /\ leds \in [Leds -> BOOLEAN]
  /\ Cardinality(blocks) <= MaxBlocks
  /\ period \in Periods /\ uwTick \in 0 .. MaxTicks /\ tick \in 0 .. UINT32 - 1
  /\ steps \in 0 .. MaxSteps /\ {called, ended} \subseteq 0 .. MaxTicks

Init ==
  /\ pc = "init" /\ rcc = [source |-> "none", pll |-> FALSE]
  /\ pins = [p \in Ports \X Pins |-> [mode |-> "reset", output |-> FALSE]]
  /\ line = [n \in Pins |-> 0] /\ enabled = {}
  /\ leds = [l \in Leds |-> FALSE] /\ blocks = {}
  /\ period \in Periods
  /\ uwTick = 0 /\ tick = 0 /\ steps = 0 /\ called = 0 /\ ended = 0

\* The SysTick interrupt; a loop that waits for a tick sees it before the next one.
SysTick ==
  /\ uwTick < MaxTicks /\ pc # "exit"
  /\ pc = "wait" => uwTick % UINT32 <= tick
  /\ uwTick' = uwTick + 1
  /\ UNCHANGED <<pc, rcc, gpio, period, tick, steps, called, ended>>

\* MDD_stm32f4_rt_init: with clock 1 and 2 the oscillator is the clock, with 3 and 4 the PLL.
RtInit(clock) ==
  /\ pc = "init" /\ pc' = "run"
  /\ rcc' = [source |-> IF clock \in {1, 3} THEN "HSI" ELSE "HSE", pll |-> clock \in {3, 4}]
  /\ UNCHANGED <<gpio, time>>

\* The HAL refuses the clock.
RtInitFails == pc = "init" /\ pc' = "exit" /\ UNCHANGED <<rcc, gpio, time>>

\* A block of its own for each pin and LED, before the first step
SetUp(kind, port, pin) ==
  /\ pc \in {"init", "run"} /\ steps = 0 /\ Cardinality(blocks) < MaxBlocks
  /\ \A b \in blocks : (b.kind = "led") = (kind = "led") => <<b.port, b.pin>> # <<port, pin>>
  /\ blocks' = blocks \cup {[kind |-> kind, port |-> port, pin |-> pin, value |-> FALSE]}
  /\ UNCHANGED <<pc, rcc, time>>

\* HAL_GPIO_Init and HAL_GPIO_WritePin of one pin
GpioInit(port, pin, mode) == pins' = [pins EXCEPT ![<<port, pin>>].mode = mode]

\* MDD_stm32f4_digital_pin_init; the output register of a pin is reset with it.
DigitalInit(port, pin, isOutput) ==
  /\ SetUp(IF isOutput THEN "output" ELSE "input", port, pin)
  /\ pins' = [pins EXCEPT ![<<port, pin>>] =
                [mode |-> IF isOutput THEN "output" ELSE "input",
                 output |-> IF isOutput THEN FALSE ELSE @.output]]
  /\ UNCHANGED <<line, enabled, leds>>

\* MDD_stm32f4_exti_pin_init, for falling edges whatever the mode that is asked for (the line
\* that selects it is a comment); pins of one number share the interrupt, and the port it is
\* for.
ExtiInit(port, pin, mode) ==
  /\ SetUp(ExtiModes[mode], port, pin)
  /\ GpioInit(port, pin, "falling")
  /\ line' = [line EXCEPT ![pin] = port] /\ enabled' = enabled \cup {pin}
  /\ UNCHANGED leds

\* The block of kind at (port, pin) sets its value.
Set(kind, port, pin, value) ==
  /\ pc = "run"
  /\ \E b \in blocks :
       /\ <<b.kind, b.port, b.pin>> = <<kind, port, pin>>
       /\ blocks' = (blocks \ {b}) \cup {[b EXCEPT !.value = value]}
  /\ UNCHANGED <<pc, rcc, line, enabled, time>>

\* MDD_stm32f4_digital_pin_write
DigitalWrite(port, pin, value) ==
  /\ Set("output", port, pin, value)
  /\ pins' = [pins EXCEPT ![<<port, pin>>].output = value]
  /\ UNCHANGED leds

\* MDD_stm32f4_led_init; BSP_LED_Init switches the LED off.
LedInit(led) ==
  /\ SetUp("led", 0, led)
  /\ leds' = [leds EXCEPT ![led] = FALSE] /\ UNCHANGED <<pins, line, enabled>>

\* MDD_stm32f4_led_out
LedOut(led, value) ==
  /\ Set("led", 0, led, value)
  /\ leds' = [leds EXCEPT ![led] = value] /\ UNCHANGED pins

\* The block SynchronizeRealtime calls MDD_stm32f4_rt_wait with its next tick.
Call ==
  /\ pc = "run" /\ pc' = "wait" /\ steps < MaxSteps
  /\ tick' = (tick + period) % UINT32
  /\ called' = uwTick
  /\ UNCHANGED <<rcc, gpio, period, uwTick, steps, ended>>

\* MDD_stm32f4_rt_wait: its loop is over.
WaitOver ==
  /\ pc = "wait" /\ pc' = "run"
  /\ uwTick % UINT32 > tick
  /\ steps' = steps + 1 /\ ended' = uwTick
  /\ UNCHANGED <<rcc, gpio, period, uwTick, tick, called>>

\* A bound is reached, or the wait is for a tick that does not come: after the last value
\* of a uint32_t the count begins again, and none is greater than the last.
Stopped ==
  /\ pc = "exit" \/ uwTick = MaxTicks \/ steps = MaxSteps
  /\ UNCHANGED vars

Next ==
  \/ SysTick \/ Call \/ WaitOver \/ Stopped
  \/ \E clock \in 1 .. 4 : RtInit(clock)
  \/ RtInitFails
  \/ \E port \in Ports, pin \in Pins, b \in BOOLEAN :
       DigitalInit(port, pin, b) \/ DigitalWrite(port, pin, b)
  \/ \E port \in Ports, pin \in Pins, mode \in 1 .. 3 : ExtiInit(port, pin, mode)
  \/ \E led \in Leds, b \in BOOLEAN : LedInit(led) \/ LedOut(led, b)

Spec == Init /\ [][Next]_vars

----------------------------------------------------------------------------
(* Properties *)

\* Until the count or the block's tick begins again (the tick does so first, and steps are not
\* waited for from then on), a step ends with the tick after its own, or at once when it was
\* called later: overruns do not add up ("while (HAL_GetTick() <= tick)",
\* MDDSTM32F4RealTime.h:121).
StepsOnTime ==
  pc = "run" /\ steps > 0 /\ uwTick < UINT32 /\ steps * period < UINT32 =>
    LET due == steps * period + 1
    IN  ended = IF called > due THEN called ELSE due

\* Whether the pin or LED of a block is as it set it up; an interrupt is that of its block
\* when no other block uses its number on another port.  Which edges interrupt is said of the
\* blocks that ask for falling ones only: those that ask for others get falling ones, too.
Stands(b) ==
  CASE b.kind = "led" -> leds[b.pin] = b.value
    [] IsExti(b) ->
         /\ b.kind = "falling" => pins[<<b.port, b.pin>>].mode = "falling"
         /\ b.pin \in enabled
         /\ line[b.pin] = b.port
              \/ \E c \in blocks : IsExti(c) /\ c.pin = b.pin /\ c.port # b.port
    [] OTHER -> /\ pins[<<b.port, b.pin>>].mode = b.kind
                /\ b.kind = "output" => pins[<<b.port, b.pin>>].output = b.value

\* Pins and LEDs are as their blocks set them up, whatever others do.
PinsStand == \A b \in blocks : Stands(b)
=============================================================================
