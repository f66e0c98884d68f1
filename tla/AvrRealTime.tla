----------------------------- MODULE AvrRealTime -----------------------------
(***************************************************************************)
(* MDDAVRRealTime.h: on a microcontroller the program waits at the end of  *)
(* a step for the interrupt routine of a timer, which counts interrupts    *)
(* and raises a flag every numPerCycle of them.  The routine may run       *)
(* between any two instructions of the program.                            *)
(***************************************************************************)
EXTENDS Integers

CONSTANTS
  Cycles,         \* values of numPerCycle
  UINT16,         \* 2^16: the values of the counter
  MaxInterrupts   \* bound: interrupts in a behaviour

AvrAssumption ==
  Cycles \subseteq 1 .. UINT16 - 1 /\ UINT16 \in Nat /\ MaxInterrupts \in Nat

VARIABLES
  numInterruptTriggeredPerCycle, numInterruptTriggered, interruptTriggered,
  initialized,        \* the first wait starts the timer
  pc,
  total, steps, late  \* history: interrupts, waits that returned, one was missed

counters == <<numInterruptTriggeredPerCycle, numInterruptTriggered, interruptTriggered>>
vars == <<counters, initialized, pc, total, steps, late>>

TypeOK ==
  /\ numInterruptTriggeredPerCycle \in Cycles
  /\ numInterruptTriggered \in 0 .. UINT16 - 1 /\ interruptTriggered \in {0, 1}
  /\ initialized \in BOOLEAN /\ pc \in {"compute", "wait", "clear", "exit"}
  /\ total \in 0 .. MaxInterrupts /\ steps \in 0 .. total /\ late \in BOOLEAN

\* MDD_avr_rt_init
Init ==
  /\ numInterruptTriggeredPerCycle \in Cycles
  /\ numInterruptTriggered = 0 /\ interruptTriggered = 0
  /\ initialized = FALSE
  /\ pc \in {"compute", "exit"}   \* exit(1): the chip has no such timer
  /\ total = 0 /\ steps = 0 /\ late = FALSE

\* MDD_avr_rt_wait, up to its loop
Wait ==
  /\ pc = "compute" /\ pc' = "wait"
  /\ initialized' = TRUE
  /\ UNCHANGED <<counters, total, steps, late>>

LoopEnds ==
  /\ pc = "wait" /\ interruptTriggered # 0
  /\ pc' = "clear"
  /\ UNCHANGED <<counters, initialized, total, steps, late>>

ClearBoth ==
  /\ pc = "clear" /\ pc' = "compute"
  /\ interruptTriggered' = 0 /\ numInterruptTriggered' = 0
  /\ steps' = steps + 1
  /\ UNCHANGED <<numInterruptTriggeredPerCycle, initialized, total, late>>

Clear ==
  /\ pc = "clear" /\ pc' = "compute"
  /\ interruptTriggered' = 0
  /\ steps' = steps + 1
  /\ UNCHANGED <<numInterruptTriggeredPerCycle, numInterruptTriggered, initialized, total, late>>

\* MDD_ISR_REALTIME: with the flag still raised it only counts.
ISR ==
  LET n == (numInterruptTriggered + 1) % UINT16
      due == interruptTriggered # 1 /\ n >= numInterruptTriggeredPerCycle
  IN  /\ initialized /\ total < MaxInterrupts
      /\ interruptTriggered' = IF due THEN 1 ELSE interruptTriggered
      /\ numInterruptTriggered' = IF due THEN 0 ELSE n
      /\ total' = total + 1
      /\ late' = (late \/ (interruptTriggered = 1 /\ n >= numInterruptTriggeredPerCycle))
      /\ UNCHANGED <<numInterruptTriggeredPerCycle, initialized, pc, steps>>

\* A program that ended, and the bound on interrupts
Ended == (pc = "exit" \/ total = MaxInterrupts) /\ UNCHANGED vars

Next == Wait \/ LoopEnds \/ Clear \/ ISR \/ Ended

Spec == Init /\ [][Next]_vars

\* No step ends before its cycles have passed; and as long as every step ends within the
\* cycle it belongs to, none ends later either: no interrupt is lost, whether it comes
\* while the program computes, tests the flag (115) or is about to clear it (116).
StepsOnTime ==
  LET counted == numInterruptTriggeredPerCycle * (steps + interruptTriggered)
                 + numInterruptTriggered
  IN  /\ counted <= total
      /\ ~late => counted = total
=============================================================================
