--------------------------- MODULE ProcessPriority ---------------------------
(***************************************************************************)
(* MDDRealtimeSynchronize.h: the object that sets the priority of the      *)
(* process and restores it.  On Linux a priority is a nice value or the    *)
(* real-time scheduler with locked memory, on Windows a class.  The system *)
(* may refuse each change.  On Windows the process may come with any       *)
(* class, also with the one that the object has no name for.               *)
(***************************************************************************)
EXTENDS Integers

CONSTANTS Platforms, MaxSets   \* bound: calls of MDD_setPriority

PriorityAssumption == MaxSets \in Nat

VARIABLES
  platform,
  nice, policy, locked,   \* of the process: nice value or class; scheduler; memory
  prio,                   \* the object ProcPrio
  pc, sets,
  refused                 \* history: the system refused a change

vars == <<platform, nice, policy, locked, prio, pc, sets, refused>>

Linux == platform = "linux"
Policies == {"SCHED_OTHER", "SCHED_BATCH", "SCHED_FIFO"}
Priorities == -2 .. 3         \* 3: not a priority of the block

\* setpriority(19, 10, 0, -10); the classes idle, below normal, normal, high, real time
NiceOf(priority) ==
  CASE priority = -2 -> 19 [] priority = -1 -> 10 [] priority = 1 -> -10 [] OTHER -> 0
ClassOf(priority) ==
  CASE priority \in -2 .. 2 -> priority [] OTHER -> 0

\* The classes a process can have: 3 is ABOVE_NORMAL_PRIORITY_CLASS, in no switch of the object
Classes == -2 .. 3

TypeOK ==
  /\ platform \in Platforms
  /\ nice \in -20 .. 19 /\ policy \in Policies /\ locked \in BOOLEAN
  /\ prio \in [originalPriority : -20 .. 19, originalSchedPolicy : Policies,
               isSet : BOOLEAN, useRealtime : BOOLEAN]
  /\ pc \in {"new", "set", "failed", "destroyed"} /\ sets \in 0 .. MaxSets /\ refused \in BOOLEAN

Init ==
  /\ platform \in Platforms
  /\ nice \in IF Linux THEN {0, 5} ELSE Classes
  /\ policy \in IF Linux THEN {"SCHED_OTHER", "SCHED_BATCH"} ELSE {"SCHED_OTHER"}
  /\ locked = FALSE
  /\ prio = [originalPriority |-> 0, originalSchedPolicy |-> "SCHED_OTHER",
             isSet |-> FALSE, useRealtime |-> FALSE]
  /\ pc = "new" /\ sets = 0 /\ refused = FALSE

\* MDD_ProcessPriorityConstructor
Construct ==
  /\ pc = "new" /\ pc' = "set"
  /\ prio' = [prio EXCEPT !.originalPriority = nice, !.originalSchedPolicy = policy]
  /\ UNCHANGED <<platform, nice, policy, locked, sets, refused>>

\* What the object sets the nice value or class back to: a class that its switch does not
\* name, if the process has another one now, to normal.
Original ==
  IF Linux \/ nice = prio.originalPriority THEN prio.originalPriority
                                           ELSE ClassOf(prio.originalPriority)

RestoredButMemory ==
  IF prio.useRealtime
  THEN {[nice |-> nice, policy |-> p, locked |-> locked] : p \in {prio.originalSchedPolicy, policy}}
  ELSE {[nice |-> n, policy |-> policy, locked |-> locked] : n \in {Original, nice}}

\* The process as it was: each of the two changes may be refused.  munlockall is not.
Restored ==
  IF prio.useRealtime
  THEN {[nice |-> nice, policy |-> p, locked |-> FALSE] : p \in {prio.originalSchedPolicy, policy}}
  ELSE {[nice |-> n, policy |-> policy, locked |-> locked] : n \in {Original, nice}}

SetTo(process) ==
  nice' = process.nice /\ policy' = process.policy /\ locked' = process.locked

\* Linux sets back what was set before, then sets the nice value or the scheduler.
Reset == IF prio.isSet THEN Restored
         ELSE {[nice |-> nice, policy |-> policy, locked |-> locked]}

WasRefused(process) ==
  IF prio.useRealtime THEN process.policy # prio.originalSchedPolicy
                      ELSE process.nice # Original

\* MDD_setPriority on Linux: nice value, or no priority at all; an error ends the
\* simulation, and only the destructor follows.
SetNice(priority) ==
  /\ Linux /\ pc = "set" /\ sets < MaxSets /\ priority # 2
  /\ \E process \in Reset :
       \E n \in IF priority = 3 THEN {process.nice} ELSE {NiceOf(priority), process.nice} :
         /\ SetTo([process EXCEPT !.nice = n])
         /\ refused' = (refused \/ (prio.isSet /\ WasRefused(process))
                                \/ (priority # 3 /\ n # NiceOf(priority)))
         /\ pc' = IF priority # 3 /\ n # NiceOf(priority) THEN "failed" ELSE "set"
  /\ prio' = [prio EXCEPT !.isSet = (priority # 3), !.useRealtime = FALSE]
  /\ sets' = sets + 1
  /\ UNCHANGED platform

\* Priority 2: the memory is locked, then the scheduler is set; both may be refused.
SetRealtime ==
  /\ Linux /\ pc = "set" /\ sets < MaxSets
  /\ \E process \in Reset, locks, schedules \in BOOLEAN :
       /\ schedules => locks
       /\ SetTo([process EXCEPT !.locked = locks \/ @,
                                !.policy = IF schedules THEN "SCHED_FIFO" ELSE @])
       /\ prio' = [prio EXCEPT !.isSet = TRUE, !.useRealtime = schedules]
       /\ refused' = (refused \/ ~schedules \/ (prio.isSet /\ WasRefused(process)))
       /\ pc' = IF schedules THEN "set" ELSE "failed"
  /\ sets' = sets + 1
  /\ UNCHANGED platform

\* MDD_setPriority on Windows: the priority class, unless it is that already
SetClass(priority) ==
  /\ ~Linux /\ pc = "set" /\ sets < MaxSets
  /\ nice' \in {ClassOf(priority), nice}
  /\ refused' = (refused \/ nice' # ClassOf(priority))
  /\ sets' = sets + 1
  /\ UNCHANGED <<platform, policy, locked, prio, pc>>

\* MDD_ProcessPriorityDestructor
Destroy ==
  /\ pc \in {"set", "failed"} /\ pc' = "destroyed"
  /\ \E process \in IF Linux THEN Reset ELSE Restored :
       /\ SetTo(process)
       /\ refused' = (refused \/ ((~Linux \/ prio.isSet) /\ WasRefused(process)))
  /\ UNCHANGED <<platform, prio, sets>>

Ended == pc = "destroyed" /\ UNCHANGED vars

Next ==
  \/ Construct \/ SetRealtime \/ Destroy \/ Ended
  \/ \E priority \in Priorities : SetNice(priority) \/ SetClass(priority)

Spec == Init /\ [][Next]_vars

\* Whatever priorities were set, in any order, the process leaves the destructor with the
\* nice value or class, the scheduler and the memory locks it came with, unless the system
\* refused a change (47-101, 567-590, 610-619).  One class is not restored: a process that
\* came as above normal and was given another class leaves as normal (83-88).
PriorityRestored ==
  (pc = "destroyed" /\ ~refused) =>
    /\ policy = prio.originalSchedPolicy /\ ~locked
    /\ \/ nice = prio.originalPriority
       \/ ~Linux /\ prio.originalPriority \notin -2 .. 2 /\ nice = ClassOf(0)
=============================================================================
