------------------------- MODULE RealtimeSynchronize -------------------------
(***************************************************************************)
(* MDDRealtimeSynchronize.h: one synchronisation object and the calls that *)
(* slow the simulation down to real time: MDD_RTSyncSynchronize and the    *)
(* two functions it replaces, on Linux and on Windows.                     *)
(*                                                                         *)
(* The monotonic clock counts units; on Linux a time is a timespec of      *)
(* seconds of NSEC units, with the arithmetic of the code, on Windows a    *)
(* number of units.  Simulation time has the same unit, starts at 0, and   *)
(* may go back when a solver rejects a step.                               *)
(***************************************************************************)
EXTENDS Integers

CONSTANTS
  Platforms,   \* "linux", "windows"
  NSEC,        \* NSEC_PER_SEC: units of the clock in a second
  Starts,      \* what the clock may show at first
  Scalings,    \* values of scaling; 0 stands for enableScaling = false
  MaxRun,      \* bound: units of real time in a behaviour
  MaxSim       \* bound: simulation time

RealtimeAssumption ==
  /\ NSEC \in Nat \ {0} /\ MaxRun \in Nat /\ MaxSim \in Nat
  /\ Starts \subseteq Nat /\ Scalings \subseteq Nat

VARIABLES
  platform, clock, began,
  rtSync,      \* MDD_RTSync or RTSync; kind is the function it is used with
  call,        \* the call at work
  owed         \* history: real time the simulation time of the finished calls stands for

vars == <<platform, clock, began, rtSync, call, owed>>

Linux == platform = "linux"
Kinds == {"RTSync", "realtime", "sampled"}
Timespecs == [sec : Int, nsec : Int]
Times == IF Linux THEN Timespecs ELSE Int

NoCall == [pc |-> "idle", sim |-> 0, due |-> rtSync.last, sync |-> 0, owes |-> 0, left |-> -1, wall |-> 0]

TypeOK ==
  /\ platform \in Platforms /\ clock \in Nat /\ began \in Starts /\ owed \in Nat
  /\ rtSync \in [kind : Kinds, start : Times, last : Times, ideal : Times,
                 lastSimTime : Nat, lastSyncTime : Nat, shouldCatchupTime : BOOLEAN]
  /\ call \in [pc : {"new", "idle", "wait", "destroyed", "error"}, sim : Nat, due : Times, sync : Nat,
               owes : Nat, left : Int, wall : Int]
  /\ Linux => rtSync.last.nsec \in 0 .. NSEC - 1 /\ call.due.nsec \in 0 .. NSEC - 1

----------------------------------------------------------------------------
(* Time on both platforms *)

\* clock_gettime and QueryPerformanceCounter
Now == IF Linux THEN [sec |-> clock \div NSEC, nsec |-> clock % NSEC] ELSE clock

Zero == IF Linux THEN [sec |-> 0, nsec |-> 0] ELSE 0

Units(t) == IF Linux THEN t.sec * NSEC + t.nsec ELSE t

\* while (tv_nsec >= NSEC_PER_SEC)
Carry(t) == IF t.nsec >= NSEC
            THEN [sec |-> t.sec + t.nsec \div NSEC, nsec |-> t.nsec % NSEC]
            ELSE t

\* modf into whole seconds and the rest, added to t
Add(t, d) ==
  IF Linux THEN Carry([sec |-> t.sec + d \div NSEC, nsec |-> t.nsec + (d % NSEC)]) ELSE t + d

\* timespec_subtract: what it makes of its second argument
Borrow(x, y) ==
  LET less == IF x.nsec < y.nsec THEN (y.nsec - x.nsec) \div NSEC + 1 ELSE 0
      z == [sec |-> y.sec + less, nsec |-> y.nsec - NSEC * less]
      more == IF x.nsec - z.nsec > NSEC THEN (x.nsec - z.nsec) \div NSEC ELSE 0
  IN  [sec |-> z.sec - more, nsec |-> z.nsec + NSEC * more]

\* and its result, a timespec again
Difference(x, y) ==
  IF Linux THEN [sec |-> x.sec - Borrow(x, y).sec, nsec |-> x.nsec - Borrow(x, y).nsec]
           ELSE x - y

Negative(x, y) == Linux /\ x.sec < Borrow(x, y).sec

----------------------------------------------------------------------------
(* The object *)

\* Before the constructor of the function it is used with
Init ==
  /\ platform \in Platforms
  /\ clock \in Starts /\ began = clock
  /\ owed = 0
  /\ \E kind \in Kinds, catchup \in BOOLEAN :
       /\ catchup => kind = "RTSync"
       /\ rtSync = [kind |-> kind, start |-> Zero, last |-> Zero, ideal |-> Zero,
                    lastSimTime |-> 0, lastSyncTime |-> 0, shouldCatchupTime |-> catchup]
  /\ call = [NoCall EXCEPT !.pc = "new"]

\* MDD_RTSyncConstructor; MDD_realtimeSynchronizeConstructor alike
Construct ==
  /\ call.pc = "new" /\ call' = [call EXCEPT !.pc = "idle", !.due = Now]
  /\ rtSync' = [rtSync EXCEPT !.start = Now, !.last = Now, !.ideal = Now]
  /\ UNCHANGED <<platform, clock, began, owed>>

\* There is no performance counter, or clock_gettime fails.
ConstructFails ==
  /\ call.pc = "new" /\ call' = [call EXCEPT !.pc = "error"]
  /\ UNCHANGED <<platform, clock, began, rtSync, owed>>

\* MDD_RTSyncDestructor, MDD_realtimeSynchronizeDestructor
Destroy ==
  /\ call.pc = "idle" /\ call' = [call EXCEPT !.pc = "destroyed"]
  /\ UNCHANGED <<platform, clock, began, rtSync, owed>>

\* Time passes: the simulation computes, a call waits, or neither is scheduled.
Tick ==
  /\ call.pc \in {"idle", "wait"}
  /\ clock < began + MaxRun
  /\ clock' = clock + 1
  /\ UNCHANGED <<platform, began, rtSync, call, owed>>

Wait(sim, due, sync, owes, left) ==
  call' = [NoCall EXCEPT !.pc = "wait", !.sim = sim, !.due = due, !.sync = sync,
                         !.owes = owes, !.left = left]

\* A call of a function for samples; the first sample is skipped, and by
\* MDD_RTSyncSynchronize one before the last.
Called(kind, sim, scaling) ==
  /\ call.pc = "idle" /\ rtSync.kind = kind /\ scaling > 0 /\ sim > 0
  /\ UNCHANGED <<platform, clock, began, owed>>

LinuxFromLast(sim, scaling) ==
  LET d == (sim - rtSync.lastSimTime) * scaling
  IN  /\ Linux /\ Called("RTSync", sim, scaling) /\ sim >= rtSync.lastSimTime
      /\ rtSync' = [rtSync EXCEPT !.ideal = Add(rtSync.ideal, d)]
      /\ Wait(sim, Add(rtSync.last, d), 0, owed + d, Units(Add(rtSync.last, d)) - clock)

\* The ideal time is kept with catch-up only, and waited for.
LinuxSynchronize(sim, scaling) ==
  LET d == (sim - rtSync.lastSimTime) * scaling
      ideal == Add(rtSync.ideal, d)
      due == IF rtSync.shouldCatchupTime THEN ideal ELSE Add(rtSync.last, d)
  IN  /\ Linux /\ Called("RTSync", sim, scaling) /\ sim >= rtSync.lastSimTime
      /\ IF Negative(Now, rtSync.last)
         THEN call' = [call EXCEPT !.pc = "error"] /\ UNCHANGED rtSync
         ELSE /\ rtSync' = IF rtSync.shouldCatchupTime
                           THEN [rtSync EXCEPT !.ideal = ideal] ELSE rtSync
              /\ Wait(sim, due, 0, owed + d, Units(due) - clock)

\* With catch-up the time left is made shorter by the delay; the loop is entered while it
\* is not negative.
WindowsSynchronize(sim, scaling) ==
  LET d == (sim - rtSync.lastSimTime) * scaling
      ideal == rtSync.ideal + d
      due == rtSync.last + d
      delay == due - ideal
      timeLeft == due - clock
  IN  /\ ~Linux /\ Called("RTSync", sim, scaling) /\ sim >= rtSync.lastSimTime
      /\ rtSync' = [rtSync EXCEPT !.ideal = ideal]
      /\ Wait(sim, due, 0, owed + d,
              IF rtSync.shouldCatchupTime /\ delay > 0
              THEN IF delay > timeLeft THEN 0 ELSE timeLeft - delay
              ELSE timeLeft)

\* MDD_realtimeSynchronize: against the start; Windows skips a repeated simulation time.
RealtimeSynchronize(sim, scaling) ==
  LET sync == IF scaling > 0
              THEN rtSync.lastSyncTime + (sim - rtSync.lastSimTime) * scaling ELSE sim
      due == Add(rtSync.start, sync)
  IN  /\ call.pc = "idle" /\ rtSync.kind = "realtime"
      /\ Linux \/ sim # rtSync.lastSimTime
      /\ sync >= 0
      /\ rtSync' = IF Linux THEN [rtSync EXCEPT !.last = Now] ELSE rtSync
      /\ Wait(sim, due, sync,
              IF scaling > 0 THEN owed + (sim - rtSync.lastSimTime) * scaling ELSE sim,
              Units(due) - clock)
      /\ UNCHANGED <<platform, clock, began, owed>>

\* MDD_sampledRealtimeSynchronize: against the last return; the caller passes the last
\* simulation time, and an earlier one is an error.
SampledTooEarly(sim, scaling) ==
  /\ Called("sampled", sim, scaling) /\ sim < rtSync.lastSimTime
  /\ call' = [call EXCEPT !.pc = "error"]
  /\ UNCHANGED rtSync

WaitSample(sim, scaling) ==
  LET d == (sim - rtSync.lastSimTime) * scaling
      due == Add(rtSync.last, d)
  IN  Wait(sim, due, 0, owed + d, Units(due) - clock)

WindowsSample(sim, scaling) ==
  /\ ~Linux /\ Called("sampled", sim, scaling) /\ sim >= rtSync.lastSimTime
  /\ WaitSample(sim, scaling) /\ UNCHANGED rtSync

LinuxSample(sim, scaling) ==
  /\ Linux /\ Called("sampled", sim, scaling) /\ sim >= rtSync.lastSimTime
  /\ WaitSample(sim, scaling) /\ rtSync' = [rtSync EXCEPT !.last = Now]

\* clock_nanosleep with an absolute time is over; the Windows loop, which asks the clock
\* each time it is run, ends, or it was not entered.
WaitOver ==
  IF Linux THEN clock >= Units(call.due) ELSE clock > call.due \/ call.left < 0

\* The end of the call: the clock is read, and what was written by timespec_subtract into
\* t_start stays there in the sampled function.
Finish(sync) ==
  /\ call.pc = "wait" /\ WaitOver
  /\ rtSync' = [rtSync EXCEPT
       !.last = Now, !.lastSimTime = call.sim, !.lastSyncTime = sync,
       !.start = IF Linux /\ rtSync.kind = "sampled" THEN Borrow(Now, @) ELSE @]
  /\ call' = IF Negative(Now, rtSync.start) /\ rtSync.kind # "realtime"
             THEN [call EXCEPT !.pc = "error"]
             ELSE [pc |-> "idle", sim |-> 0, due |-> Now, sync |-> 0, owes |-> 0, left |-> -1,
                   wall |-> Units(Difference(Now, rtSync.start))]
  /\ owed' = call.owes
  /\ UNCHANGED <<platform, clock, began>>

ReturnForgetsSync == Finish(rtSync.lastSyncTime)
Return == Finish(call.sync)

\* clock_nanosleep reports an error, as it does when a signal arrives.
SleepFails ==
  /\ Linux /\ call.pc = "wait"
  /\ call' = [call EXCEPT !.pc = "error"]
  /\ UNCHANGED <<platform, clock, began, rtSync, owed>>

\* A bound is reached, or there is no object any more.
Ended == call.pc # "new" /\ UNCHANGED vars

Next ==
  \/ Construct \/ ConstructFails \/ Destroy
  \/ Tick \/ Return \/ SleepFails \/ Ended
  \/ \E sim \in 0 .. MaxSim, scaling \in Scalings :
       \/ LinuxSynchronize(sim, scaling) \/ WindowsSynchronize(sim, scaling)
       \/ RealtimeSynchronize(sim, scaling)
       \/ SampledTooEarly(sim, scaling) \/ WindowsSample(sim, scaling)
       \/ LinuxSample(sim, scaling)

Spec == Init /\ [][Next]_vars

----------------------------------------------------------------------------
(* Properties *)

\* The simulation is never ahead of real time: when a call returns, at least the scaled
\* simulation time has passed since the constructor, over any sequence of calls, rejected
\* steps and overruns, and the wall clock time it reports is what has passed (419-503,
\* 947-1038 and the functions before them).
NeverAhead ==
  call.pc = "idle" =>
    /\ Units(rtSync.last) - Units(rtSync.start) >= owed
    /\ call.wall = Units(rtSync.last) - began

\* "if catchupTime != 0 then try to catch up delays from missed dead-lines by progressing
\* faster than real-time" (369, 900): when the time a call stands for has passed since the
\* constructor, the call does not go on waiting.
CatchesUp ==
  (call.pc = "wait" /\ rtSync.shouldCatchupTime /\ clock > began + call.owes) => WaitOver

\* So it is on Linux (997-1005).
CatchesUpOnLinux == Linux => CatchesUp
=============================================================================
