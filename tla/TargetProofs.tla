---------------------------- MODULE TargetProofs ----------------------------
(***************************************************************************)
(* Proofs about time and the targets, as MCDevices looks at them: real-    *)
(* time synchronisation and the priority of the process, the timers, the   *)
(* peripherals and the display of an AVR, and the ticks and pins of an     *)
(* STM32F4, for any clocks, periods, wrap-arounds and pins and any number  *)
(* of steps. Each has an inductive invariant; a step of the drivers is a   *)
(* step of it or leaves it alone.                                          *)
(***************************************************************************)
EXTENDS MCDevices, TLAPS, SequenceTheorems, FiniteSetTheorems

----------------------------------------------------------------------------
(* Real-time synchronisation (RealtimeSynchronize) *)

\* A timespec as the code keeps it
NormalTime(t) == t \in Realtime!Timespecs /\ t.nsec \in 0 .. NSEC - 1

\* Seconds and nanoseconds are added separately.
LEMMA Regroup ==
  ASSUME NSEC \in Nat \ {0}, NEW s \in Int, NEW nanos \in Int, NEW q \in Int, NEW r \in Int
  PROVE  /\ (s + q) * NSEC + (nanos + r) = (s * NSEC + nanos) + (q * NSEC + r)
         /\ (s - q) * NSEC + (nanos - r) = (s * NSEC + nanos) - (q * NSEC + r)
         /\ (s + q - r) * NSEC + (nanos - NSEC * q + NSEC * r) = s * NSEC + nanos
         /\ s * NSEC \in Int /\ NSEC * s \in Int
OBVIOUS

\* Whole seconds and the rest
LEMMA Division ==
  ASSUME NSEC \in Nat \ {0}, NEW k \in Nat
  PROVE  k \div NSEC \in Nat /\ k % NSEC \in 0 .. NSEC - 1 /\ (k \div NSEC) * NSEC + (k % NSEC) = k
<1>1. k \div NSEC \in Nat /\ k % NSEC \in 0 .. NSEC - 1
  OBVIOUS
<1>2. (k \div NSEC) * NSEC + (k % NSEC) = k
  OBVIOUS
<1>3. QED
  BY <1>1, <1>2

\* Carrying nanoseconds into seconds keeps the time and leaves it normal.
LEMMA CarryUnits ==
  ASSUME NSEC \in Nat \ {0}, NEW s \in Int, NEW k \in Nat
  PROVE  LET t == Realtime!Carry([sec |-> s, nsec |-> k])
         IN  NormalTime(t) /\ t.sec * NSEC + t.nsec = s * NSEC + k
<1> DEFINE q == k \div NSEC
           r == k % NSEC
           t == Realtime!Carry([sec |-> s, nsec |-> k])
<1>1. CASE k >= NSEC
  <2>1. q \in Nat /\ r \in 0 .. NSEC - 1 /\ q * NSEC + r = k
    BY Division
  <2>2. t = [sec |-> s + q, nsec |-> r]
    BY <1>1 DEF Realtime!Carry
  <2> HIDE DEF q, r
  <2>3. q \in Int /\ r \in Int /\ 0 \in Int
    BY <2>1
  <2>4. (s + q) * NSEC + (0 + r) = (s * NSEC + 0) + (q * NSEC + r)
    BY <2>3, Regroup
  <2>5. s * NSEC \in Int
    BY Regroup, <2>3
  <2>6. (s + q) * NSEC + r = s * NSEC + k
    BY <2>1, <2>3, <2>4, <2>5
  <2>7. t.sec = s + q /\ t.nsec = r /\ t \in Realtime!Timespecs
    BY <2>2, <2>3 DEF Realtime!Timespecs
  <2> HIDE DEF t
  <2>8. NormalTime(t) /\ t.sec * NSEC + t.nsec = s * NSEC + k
    BY <2>1, <2>6, <2>7 DEF NormalTime
  <2>9. QED
    BY <2>8 DEF t
<1>2. CASE ~(k >= NSEC)
  BY <1>2 DEF Realtime!Carry, NormalTime, Realtime!Timespecs
<1>3. QED
  BY <1>1, <1>2

\* The sum of a time and a duration
LEMMA AddUnits ==
  ASSUME NSEC \in Nat \ {0}, NEW d \in Nat, NEW t \in Realtime!Times, Realtime!Linux => NormalTime(t)
  PROVE  /\ Realtime!Add(t, d) \in Realtime!Times /\ (Realtime!Linux => NormalTime(Realtime!Add(t, d)))
         /\ Realtime!Units(Realtime!Add(t, d)) = Realtime!Units(t) + d
<1>1. CASE Realtime!Linux
  <2> DEFINE q == d \div NSEC
             r == d % NSEC
             u == Realtime!Add(t, d)
  <2>1. q \in Nat /\ r \in 0 .. NSEC - 1 /\ q * NSEC + r = d
    BY Division
  <2>2. t.sec \in Int /\ t.nsec \in Nat
    BY <1>1 DEF NormalTime, Realtime!Timespecs
  <2>3. u = Realtime!Carry([sec |-> t.sec + q, nsec |-> t.nsec + r])
    BY <1>1 DEF Realtime!Add
  <2> HIDE DEF q, r, u
  <2>4. t.sec + q \in Int /\ t.nsec + r \in Nat
    BY <2>1, <2>2
  <2>5. NormalTime(u) /\ u.sec * NSEC + u.nsec = (t.sec + q) * NSEC + (t.nsec + r)
    BY <2>3, <2>4, CarryUnits
  <2>6. t.sec \in Int /\ t.nsec \in Int /\ q \in Int /\ r \in Int
    BY <2>1, <2>2
  <2>7. (t.sec + q) * NSEC + (t.nsec + r) = (t.sec * NSEC + t.nsec) + (q * NSEC + r)
    BY <2>6, Regroup
  <2>8. QED
    BY <1>1, <2>1, <2>5, <2>7 DEF u, Realtime!Units, Realtime!Times, NormalTime
<1>2. CASE ~Realtime!Linux
  BY <1>2 DEF Realtime!Add, Realtime!Units, Realtime!Times
<1>3. QED
  BY <1>1, <1>2

\* The clock's reading is the time.
LEMMA NowUnits ==
  ASSUME NSEC \in Nat \ {0}, clock \in Nat
  PROVE  Realtime!Now \in Realtime!Times /\ (Realtime!Linux => NormalTime(Realtime!Now)) /\ Realtime!Units(Realtime!Now) = clock
<1>1. CASE Realtime!Linux
  <2>1. clock \div NSEC \in Nat /\ clock % NSEC \in 0 .. NSEC - 1
        /\ (clock \div NSEC) * NSEC + (clock % NSEC) = clock
    BY Division
  <2>2. Realtime!Now = [sec |-> clock \div NSEC, nsec |-> clock % NSEC]
    BY <1>1 DEF Realtime!Now
  <2>3. NormalTime(Realtime!Now)
    BY <2>1, <2>2 DEF NormalTime, Realtime!Timespecs
  <2>4. QED
    BY <1>1, <2>1, <2>2, <2>3 DEF Realtime!Units, Realtime!Times, NormalTime
<1>2. CASE ~Realtime!Linux
  BY <1>2 DEF Realtime!Now, Realtime!Times, Realtime!Units
<1>3. QED
  BY <1>1, <1>2

\* timespec_subtract changes how its second argument is written, not the time it stands for.
LEMMA BorrowUnits ==
  ASSUME NSEC \in Nat \ {0}, NEW x \in Realtime!Timespecs, NEW y \in Realtime!Timespecs
  PROVE  /\ Realtime!Borrow(x, y) \in Realtime!Timespecs
         /\ Realtime!Borrow(x, y).sec * NSEC + Realtime!Borrow(x, y).nsec = y.sec * NSEC + y.nsec
<1> DEFINE less == IF x.nsec < y.nsec THEN (y.nsec - x.nsec) \div NSEC + 1 ELSE 0
           z == [sec |-> y.sec + less, nsec |-> y.nsec - NSEC * less]
           more == IF x.nsec - z.nsec > NSEC THEN (x.nsec - z.nsec) \div NSEC ELSE 0
<1>1. x.nsec \in Int /\ y.nsec \in Int /\ y.sec \in Int
  BY DEF Realtime!Timespecs
<1>2. less \in Int
  BY <1>1
<1>3. Realtime!Borrow(x, y) = [sec |-> z.sec - more, nsec |-> z.nsec + NSEC * more]
  BY DEF Realtime!Borrow
<1> HIDE DEF less
<1>4. z.sec = y.sec + less /\ z.nsec = y.nsec - NSEC * less
  OBVIOUS
<1>5. NSEC * less \in Int /\ z.nsec \in Int /\ z.sec \in Int
  BY <1>1, <1>2, <1>4
<1> HIDE DEF z
<1>6. more \in Int
  BY <1>1, <1>5
<1> HIDE DEF more
<1>7. NSEC * more \in Int /\ y.sec * NSEC \in Int
  BY <1>1, <1>6
<1>8. (y.sec + less - more) * NSEC + (y.nsec - NSEC * less + NSEC * more)
      = y.sec * NSEC + y.nsec
  BY <1>1, <1>2, <1>6, Regroup
<1>9. z.sec - more = y.sec + less - more
      /\ z.nsec + NSEC * more = y.nsec - NSEC * less + NSEC * more
  BY <1>1, <1>2, <1>4, <1>5, <1>6, <1>7
<1>10. z.sec - more \in Int /\ z.nsec + NSEC * more \in Int
  BY <1>5, <1>6, <1>7
<1> DEFINE b == Realtime!Borrow(x, y)
<1>11. b.sec = z.sec - more /\ b.nsec = z.nsec + NSEC * more /\ b \in Realtime!Timespecs
  BY <1>3, <1>10 DEF Realtime!Timespecs
<1> HIDE DEF b
<1>12. b \in Realtime!Timespecs /\ b.sec * NSEC + b.nsec = y.sec * NSEC + y.nsec
  BY <1>8, <1>9, <1>11
<1>13. QED
  BY <1>12 DEF b

\* The difference of two times is the time between them.
LEMMA DifferenceUnits ==
  ASSUME NSEC \in Nat \ {0}, NEW x \in Realtime!Times, NEW y \in Realtime!Times
  PROVE  Realtime!Units(Realtime!Difference(x, y)) = Realtime!Units(x) - Realtime!Units(y)
<1>1. CASE Realtime!Linux
  <2> DEFINE b == Realtime!Borrow(x, y)
  <2>1. x \in Realtime!Timespecs /\ y \in Realtime!Timespecs
    BY <1>1 DEF Realtime!Times
  <2>2. b \in Realtime!Timespecs /\ b.sec * NSEC + b.nsec = y.sec * NSEC + y.nsec
    BY <2>1, BorrowUnits
  <2>3. Realtime!Difference(x, y) = [sec |-> x.sec - b.sec, nsec |-> x.nsec - b.nsec]
    BY <1>1 DEF Realtime!Difference
  <2> HIDE DEF b
  <2>4. x.sec \in Int /\ x.nsec \in Int /\ y.sec \in Int /\ y.nsec \in Int
        /\ b.sec \in Int /\ b.nsec \in Int
    BY <2>1, <2>2 DEF Realtime!Timespecs
  <2>5. (x.sec - b.sec) * NSEC + (x.nsec - b.nsec)
        = (x.sec * NSEC + x.nsec) - (b.sec * NSEC + b.nsec)
    BY <2>4, Regroup
  <2>6. QED
    BY <1>1, <2>2, <2>3, <2>5 DEF Realtime!Units
<1>2. CASE ~Realtime!Linux
  BY <1>2 DEF Realtime!Difference, Realtime!Units
<1>3. QED
  BY <1>1, <1>2

\* The object adds up the times a wait should end at.
KeepsIdeal == rtSync.kind = "RTSync" /\ (rtSync.shouldCatchupTime \/ ~Realtime!Linux)

\* The times in the object, as units since the start: the last wait ended no earlier than what
\* the simulation owes, and so will the one under way; with KeepsIdeal the ideal is exact.
TimesKept ==
  /\ Realtime!Linux => /\ rtSync.ideal.nsec \in 0 .. NSEC - 1
                       /\ rtSync.kind # "sampled" => rtSync.start.nsec \in 0 .. NSEC - 1
  /\ rtSync.shouldCatchupTime => rtSync.kind = "RTSync"
  /\ rtCall.pc = "new" =>
       clock = began /\ owed = 0 /\ rtSync.lastSyncTime = 0 /\ rtCall.wall = 0
  /\ rtCall.pc \in {"idle", "wait"} => Realtime!Units(rtSync.start) = began
  /\ rtCall.pc = "idle" =>
       /\ Realtime!Units(rtSync.last) >= began + owed
       /\ rtCall.wall = Realtime!Units(rtSync.last) - began
       /\ rtSync.lastSyncTime = IF rtSync.kind = "realtime" THEN owed ELSE 0
       /\ KeepsIdeal => Realtime!Units(rtSync.ideal) = began + owed
  /\ rtCall.pc = "wait" =>
       /\ Realtime!Units(rtCall.due) >= began + rtCall.owes
       /\ ~Realtime!Linux /\ rtCall.left < 0 => clock > rtCall.due
       /\ IF rtSync.kind = "realtime" THEN rtCall.owes = rtCall.sync ELSE rtCall.sync = 0
       /\ KeepsIdeal => Realtime!Units(rtSync.ideal) = began + rtCall.owes
       /\ Realtime!Linux /\ rtSync.shouldCatchupTime => rtCall.due = rtSync.ideal

RealtimeIInv == Realtime!TypeOK /\ TimesKept

\* A time has a number of units.
LEMMA UnitsInt ==
  ASSUME NSEC \in Nat \ {0}, NEW t \in Realtime!Times
  PROVE  Realtime!Units(t) \in Int
BY DEF Realtime!Units, Realtime!Times, Realtime!Timespecs

\* The records of the object and of its call
Syncs == [kind : Realtime!Kinds, start : Realtime!Times, last : Realtime!Times, ideal : Realtime!Times,
          lastSimTime : Nat, lastSyncTime : Nat, shouldCatchupTime : BOOLEAN]
SyncCalls == [pc : {"new", "idle", "wait", "destroyed", "error"}, sim : Nat, due : Realtime!Times, sync : Nat,
              owes : Nat, left : Int, wall : Int]

\* The types that arithmetic needs
LEMMA RealtimeTypes ==
  ASSUME Realtime!RealtimeAssumption, RealtimeIInv
  PROVE  /\ NSEC \in Nat \ {0} /\ MaxSim \in Nat /\ MaxRun \in Nat
         /\ clock \in Nat /\ began \in Nat /\ owed \in Nat /\ began \in Starts /\ rtPlatform \in Platforms
         /\ rtSync \in Syncs /\ rtCall \in SyncCalls
         /\ Realtime!Linux => /\ NormalTime(rtSync.last) /\ NormalTime(rtSync.ideal) /\ NormalTime(rtCall.due)
                              /\ rtSync.kind # "sampled" => NormalTime(rtSync.start)
<1>1. NSEC \in Nat \ {0} /\ MaxSim \in Nat /\ MaxRun \in Nat /\ Starts \subseteq Nat
  BY DEF Realtime!RealtimeAssumption
<1>2. clock \in Nat /\ began \in Starts /\ owed \in Nat /\ rtPlatform \in Platforms
  BY DEF RealtimeIInv, Realtime!TypeOK
<1>3. rtSync \in Syncs /\ rtCall \in SyncCalls
  BY DEF RealtimeIInv, Realtime!TypeOK, Syncs, SyncCalls
<1>4. ASSUME Realtime!Linux
      PROVE /\ NormalTime(rtSync.last) /\ NormalTime(rtSync.ideal) /\ NormalTime(rtCall.due)
            /\ rtSync.kind # "sampled" => NormalTime(rtSync.start)
  <2>1. Realtime!Times = Realtime!Timespecs
    BY <1>4 DEF Realtime!Times
  <2>2. rtSync.last \in Realtime!Timespecs /\ rtSync.ideal \in Realtime!Timespecs /\ rtSync.start \in Realtime!Timespecs
        /\ rtCall.due \in Realtime!Timespecs
    BY <1>3, <2>1 DEF Syncs, SyncCalls
  <2>3. /\ rtSync.last.nsec \in 0 .. NSEC - 1 /\ rtSync.ideal.nsec \in 0 .. NSEC - 1
        /\ rtCall.due.nsec \in 0 .. NSEC - 1
        /\ rtSync.kind # "sampled" => rtSync.start.nsec \in 0 .. NSEC - 1
    BY <1>4 DEF RealtimeIInv, Realtime!TypeOK, TimesKept
  <2>4. QED
    BY <2>2, <2>3 DEF NormalTime
<1>5. QED
  BY <1>1, <1>2, <1>3, <1>4

\* The invariant holds in the initial states.
LEMMA InitRealtimeIInv == ASSUME Realtime!RealtimeAssumption, Realtime!Init PROVE RealtimeIInv
<1>1. NSEC \in Nat \ {0} /\ Starts \subseteq Nat
  BY DEF Realtime!RealtimeAssumption
<1>2. PICK kind \in Realtime!Kinds, catchup \in BOOLEAN :
        /\ catchup => kind = "RTSync"
        /\ rtSync = [kind |-> kind, start |-> Realtime!Zero, last |-> Realtime!Zero, ideal |-> Realtime!Zero,
                     lastSimTime |-> 0, lastSyncTime |-> 0, shouldCatchupTime |-> catchup]
  BY DEF Realtime!Init
<1>3. Realtime!Zero \in Realtime!Times /\ (Realtime!Linux => Realtime!Zero.nsec \in 0 .. NSEC - 1)
  <2>1. CASE Realtime!Linux
    BY <1>1, <2>1 DEF Realtime!Zero, Realtime!Times, Realtime!Timespecs
  <2>2. CASE ~Realtime!Linux
    BY <2>2 DEF Realtime!Zero, Realtime!Times
  <2>3. QED
    BY <2>1, <2>2
<1>4. rtSync \in Syncs /\ rtSync.last = Realtime!Zero /\ rtSync.ideal = Realtime!Zero /\ rtSync.start = Realtime!Zero
      /\ (rtSync.shouldCatchupTime => rtSync.kind = "RTSync") /\ rtSync.lastSyncTime = 0
  BY <1>2, <1>3 DEF Syncs
<1>5. rtCall = [pc |-> "new", sim |-> 0, due |-> Realtime!Zero, sync |-> 0, owes |-> 0, left |-> -1, wall |-> 0]
  BY <1>4 DEF Realtime!Init, Realtime!NoCall
<1>6. rtCall \in SyncCalls /\ rtCall.pc = "new" /\ rtCall.due = Realtime!Zero /\ rtCall.wall = 0
  BY <1>3, <1>5 DEF SyncCalls
<1>7. rtPlatform \in Platforms /\ clock \in Nat /\ began \in Starts /\ owed \in Nat /\ clock = began
      /\ owed = 0
  BY <1>1 DEF Realtime!Init
<1>8. Realtime!TypeOK
  BY <1>3, <1>4, <1>6, <1>7 DEF Realtime!TypeOK, Syncs, SyncCalls
<1>9. TimesKept
  BY <1>3, <1>4, <1>6, <1>7 DEF TimesKept
<1>10. QED
  BY <1>8, <1>9 DEF RealtimeIInv

\* A call that fails, and the end of the object
LEMMA SyncErrorStep ==
  ASSUME Realtime!RealtimeAssumption, RealtimeIInv, NEW pc \in {"destroyed", "error"},
         rtCall' = [rtCall EXCEPT !.pc = pc], UNCHANGED <<rtPlatform, clock, began, owed, rtSync>>
  PROVE  RealtimeIInv'
<1>1. rtSync \in Syncs /\ rtCall \in SyncCalls
  BY RealtimeTypes
<1>2. rtCall' \in SyncCalls /\ rtCall'.pc = pc /\ rtCall'.due = rtCall.due
  BY <1>1 DEF SyncCalls
<1>3. Realtime!Linux' = Realtime!Linux /\ Realtime!Times' = Realtime!Times /\ Syncs' = Syncs /\ SyncCalls' = SyncCalls
  BY DEF Realtime!Linux, Realtime!Times, Syncs, SyncCalls
<1>4. Realtime!TypeOK'
  BY <1>1, <1>2, <1>3 DEF RealtimeIInv, Realtime!TypeOK
<1>5. TimesKept'
  BY <1>2, <1>3 DEF RealtimeIInv, TimesKept
<1>6. QED
  BY <1>4, <1>5 DEF RealtimeIInv

\* What the calls have in common: they leave the object and the time they wait for.
LEMMA SyncWaitStep ==
  ASSUME Realtime!RealtimeAssumption, RealtimeIInv, rtCall.pc = "idle",
         NEW simTime \in Nat, NEW due \in Realtime!Times, NEW sync \in Nat, NEW owes \in Nat, NEW ahead \in Int,
         Realtime!Wait(simTime, due, sync, owes, ahead), UNCHANGED <<rtPlatform, clock, began, owed>>,
         rtSync' \in Syncs, rtSync'.kind = rtSync.kind, rtSync'.start = rtSync.start,
         rtSync'.shouldCatchupTime = rtSync.shouldCatchupTime,
         Realtime!Linux => NormalTime(due) /\ NormalTime(rtSync'.last) /\ NormalTime(rtSync'.ideal),
         Realtime!Units(due) >= began + owes,
         ~Realtime!Linux /\ ahead < 0 => clock > due,
         IF rtSync.kind = "realtime" THEN owes = sync ELSE sync = 0,
         KeepsIdeal => Realtime!Units(rtSync'.ideal) = began + owes,
         Realtime!Linux /\ rtSync.shouldCatchupTime => due = rtSync'.ideal
  PROVE  RealtimeIInv'
<1>1. /\ NSEC \in Nat \ {0} /\ clock \in Nat /\ began \in Nat /\ owed \in Nat /\ began \in Starts
      /\ rtPlatform \in Platforms /\ rtSync \in Syncs /\ rtCall \in SyncCalls
  BY RealtimeTypes
<1>2. rtCall' = [pc |-> "wait", sim |-> simTime, due |-> due, sync |-> sync, owes |-> owes,
                 left |-> ahead, wall |-> 0]
  BY DEF Realtime!Wait, Realtime!NoCall
<1>3. rtCall' \in SyncCalls
  BY <1>2 DEF SyncCalls
<1>4. Realtime!Linux' = Realtime!Linux /\ Realtime!Times' = Realtime!Times /\ Syncs' = Syncs /\ SyncCalls' = SyncCalls
  BY DEF Realtime!Linux, Realtime!Times, Syncs, SyncCalls
<1>5. /\ rtCall'.pc = "wait" /\ rtCall'.due = due /\ rtCall'.sync = sync /\ rtCall'.owes = owes
      /\ rtCall'.left = ahead
  BY <1>2
<1>6. Realtime!TypeOK'
  <2>1. rtPlatform' \in Platforms /\ clock' \in Nat /\ began' \in Starts /\ owed' \in Nat
    BY <1>1
  <2>2. rtSync' \in Syncs' /\ rtCall' \in SyncCalls'
    BY <1>3, <1>4
  <2>3. Realtime!Linux' => rtSync'.last.nsec \in 0 .. NSEC - 1 /\ rtCall'.due.nsec \in 0 .. NSEC - 1
    BY <1>4, <1>5 DEF NormalTime
  <2>4. QED
    BY <2>1, <2>2, <2>3 DEF Realtime!TypeOK, Syncs, SyncCalls
<1>7. TimesKept'
  <2>1. Realtime!Linux' => /\ rtSync'.ideal.nsec \in 0 .. NSEC - 1
                           /\ rtSync'.kind # "sampled" => rtSync'.start.nsec \in 0 .. NSEC - 1
    BY <1>4, RealtimeTypes DEF NormalTime
  <2>2. rtSync'.shouldCatchupTime => rtSync'.kind = "RTSync"
    BY DEF RealtimeIInv, TimesKept
  <2>3. Realtime!Units(rtSync.start)' = began'
    BY <1>1, <1>4 DEF RealtimeIInv, TimesKept, Realtime!Units
  <2>4. Realtime!Units(rtCall.due)' >= began' + rtCall'.owes
    BY <1>4, <1>5 DEF Realtime!Units
  <2>5. KeepsIdeal' = KeepsIdeal
    BY <1>4 DEF KeepsIdeal
  <2>6. KeepsIdeal' => Realtime!Units(rtSync.ideal)' = began' + rtCall'.owes
    BY <1>4, <1>5, <2>5 DEF Realtime!Units
  <2>7. /\ ~Realtime!Linux' /\ rtCall'.left < 0 => clock' > rtCall'.due
        /\ IF rtSync'.kind = "realtime" THEN rtCall'.owes = rtCall'.sync ELSE rtCall'.sync = 0
        /\ Realtime!Linux' /\ rtSync'.shouldCatchupTime => rtCall'.due = rtSync'.ideal
    BY <1>4, <1>5
  <2>8. QED
    BY <1>5, <2>1, <2>2, <2>3, <2>4, <2>6, <2>7 DEF TimesKept
<1>8. QED
  BY <1>6, <1>7 DEF RealtimeIInv

\* The scaled time since the last call
LEMMA Elapsed ==
  ASSUME NEW s \in Nat, NEW l \in Nat, NEW k \in Nat, s >= l
  PROVE  (s - l) * k \in Nat
<1>1. s - l \in Nat
  OBVIOUS
<1>2. QED
  BY <1>1

\* MDD_realtimeSynchronize on Linux
LEMMA LinuxSynchronizeStep ==
  ASSUME Realtime!RealtimeAssumption, RealtimeIInv, NEW simTime \in 0 .. MaxSim, NEW scaling \in Scalings,
         Realtime!LinuxSynchronize(simTime, scaling)
  PROVE  RealtimeIInv'
<1> DEFINE d == (simTime - rtSync.lastSimTime) * scaling
           ideal == Realtime!Add(rtSync.ideal, d)
           due == IF rtSync.shouldCatchupTime THEN ideal ELSE Realtime!Add(rtSync.last, d)
<1>1. /\ NSEC \in Nat \ {0} /\ clock \in Nat /\ began \in Nat /\ owed \in Nat
      /\ rtSync \in Syncs /\ rtCall \in SyncCalls /\ MaxSim \in Nat
      /\ Realtime!Linux => NormalTime(rtSync.last) /\ NormalTime(rtSync.ideal) /\ NormalTime(rtCall.due)
  BY RealtimeTypes
<1>2. /\ Realtime!Linux /\ rtCall.pc = "idle" /\ rtSync.kind = "RTSync" /\ simTime >= rtSync.lastSimTime
      /\ UNCHANGED <<rtPlatform, clock, began, owed>>
      /\ IF Realtime!Negative(Realtime!Now, rtSync.last)
         THEN rtCall' = [rtCall EXCEPT !.pc = "error"] /\ UNCHANGED rtSync
         ELSE /\ rtSync' = IF rtSync.shouldCatchupTime
                           THEN [rtSync EXCEPT !.ideal = ideal] ELSE rtSync
              /\ Realtime!Wait(simTime, due, 0, owed + d, Realtime!Units(due) - clock)
  BY DEF Realtime!LinuxSynchronize, Realtime!Called
<1>3. d \in Nat
  <2>1. simTime \in Nat /\ rtSync.lastSimTime \in Nat /\ scaling \in Nat
    BY <1>1 DEF Syncs, Realtime!RealtimeAssumption
  <2>2. QED
    BY <1>2, <2>1, Elapsed
<1> HIDE DEF d
<1>4. rtSync.ideal \in Realtime!Times /\ rtSync.last \in Realtime!Times
  BY <1>1 DEF Syncs
<1>5. /\ ideal \in Realtime!Times /\ NormalTime(ideal) /\ Realtime!Units(ideal) = Realtime!Units(rtSync.ideal) + d
      /\ Realtime!Add(rtSync.last, d) \in Realtime!Times /\ NormalTime(Realtime!Add(rtSync.last, d))
      /\ Realtime!Units(Realtime!Add(rtSync.last, d)) = Realtime!Units(rtSync.last) + d
  <2>1. NormalTime(rtSync.ideal) /\ NormalTime(rtSync.last)
    BY <1>1, <1>2
  <2>2. ideal \in Realtime!Times /\ NormalTime(ideal) /\ Realtime!Units(ideal) = Realtime!Units(rtSync.ideal) + d
    BY <1>1, <1>2, <1>3, <1>4, <2>1, AddUnits
  <2>3. /\ Realtime!Add(rtSync.last, d) \in Realtime!Times /\ NormalTime(Realtime!Add(rtSync.last, d))
        /\ Realtime!Units(Realtime!Add(rtSync.last, d)) = Realtime!Units(rtSync.last) + d
    BY <1>1, <1>2, <1>3, <1>4, <2>1, AddUnits
  <2>4. QED
    BY <2>2, <2>3
<1>6. /\ Realtime!Units(rtSync.last) >= began + owed
      /\ rtSync.shouldCatchupTime => Realtime!Units(rtSync.ideal) = began + owed
  BY <1>2 DEF RealtimeIInv, TimesKept, KeepsIdeal
<1>7. Realtime!Units(rtSync.ideal) \in Int /\ Realtime!Units(rtSync.last) \in Int
  BY <1>1, <1>4, UnitsInt
<1> HIDE DEF ideal
<1>8. due \in Realtime!Times /\ NormalTime(due) /\ Realtime!Units(due) >= began + (owed + d) /\ Realtime!Units(due) \in Int
  <2>1. CASE rtSync.shouldCatchupTime
    BY <1>1, <1>3, <1>5, <1>6, <1>7, <2>1
  <2>2. CASE ~rtSync.shouldCatchupTime
    BY <1>1, <1>3, <1>5, <1>6, <1>7, <2>2
  <2>3. QED
    BY <2>1, <2>2
<1>9. CASE Realtime!Negative(Realtime!Now, rtSync.last)
  <2>1. rtCall' = [rtCall EXCEPT !.pc = "error"] /\ UNCHANGED <<rtPlatform, clock, began, owed, rtSync>>
    BY <1>2, <1>9
  <2>2. QED
    BY <2>1, SyncErrorStep
<1>10. CASE ~Realtime!Negative(Realtime!Now, rtSync.last)
  <2>1. /\ rtSync' = IF rtSync.shouldCatchupTime
                     THEN [rtSync EXCEPT !.ideal = ideal] ELSE rtSync
        /\ Realtime!Wait(simTime, due, 0, owed + d, Realtime!Units(due) - clock)
    BY <1>2, <1>10
  <2>2. /\ rtSync' \in Syncs /\ rtSync'.kind = rtSync.kind /\ rtSync'.start = rtSync.start
        /\ rtSync'.shouldCatchupTime = rtSync.shouldCatchupTime /\ rtSync'.last = rtSync.last
        /\ rtSync'.ideal = IF rtSync.shouldCatchupTime THEN ideal ELSE rtSync.ideal
    BY <1>1, <1>5, <2>1 DEF Syncs
  <2>3. NormalTime(rtSync'.last) /\ NormalTime(rtSync'.ideal)
    BY <1>1, <1>2, <1>5, <2>2
  <2>4. KeepsIdeal => rtSync.shouldCatchupTime
    BY <1>2 DEF KeepsIdeal
  <2>5. KeepsIdeal => Realtime!Units(rtSync'.ideal) = began + (owed + d)
    BY <1>1, <1>3, <1>5, <1>6, <1>7, <2>2, <2>4
  <2>6. simTime \in Nat /\ 0 \in Nat /\ owed + d \in Nat /\ Realtime!Units(due) - clock \in Int
    BY <1>1, <1>3, <1>8
  <2>7. rtSync.shouldCatchupTime => due = rtSync'.ideal
    BY <2>2
  <2> HIDE DEF due
  <2>8. QED
    BY <1>2, <1>8, <2>1, <2>2, <2>3, <2>5, <2>6, <2>7, SyncWaitStep
<1>11. QED
  BY <1>9, <1>10

\* MDD_realtimeSynchronize on Windows
LEMMA WindowsSynchronizeStep ==
  ASSUME Realtime!RealtimeAssumption, RealtimeIInv, NEW simTime \in 0 .. MaxSim, NEW scaling \in Scalings,
         Realtime!WindowsSynchronize(simTime, scaling)
  PROVE  RealtimeIInv'
<1> DEFINE d == (simTime - rtSync.lastSimTime) * scaling
           ideal == rtSync.ideal + d
           due == rtSync.last + d
           delay == due - ideal
           timeLeft == due - clock
           ahead == IF rtSync.shouldCatchupTime /\ delay > 0
                    THEN IF delay > timeLeft THEN 0 ELSE timeLeft - delay
                    ELSE timeLeft
<1>1. /\ NSEC \in Nat \ {0} /\ clock \in Nat /\ began \in Nat /\ owed \in Nat
      /\ rtSync \in Syncs /\ MaxSim \in Nat
  BY RealtimeTypes
<1>2. /\ ~Realtime!Linux /\ rtCall.pc = "idle" /\ rtSync.kind = "RTSync" /\ simTime >= rtSync.lastSimTime
      /\ UNCHANGED <<rtPlatform, clock, began, owed>>
      /\ rtSync' = [rtSync EXCEPT !.ideal = ideal]
      /\ Realtime!Wait(simTime, due, 0, owed + d, ahead)
  BY DEF Realtime!WindowsSynchronize, Realtime!Called
<1>3. d \in Nat
  <2>1. simTime \in Nat /\ rtSync.lastSimTime \in Nat /\ scaling \in Nat
    BY <1>1 DEF Syncs, Realtime!RealtimeAssumption
  <2>2. QED
    BY <1>2, <2>1, Elapsed
<1> HIDE DEF d
<1>4. rtSync.ideal \in Int /\ rtSync.last \in Int
  BY <1>1, <1>2 DEF Syncs, Realtime!Times
<1>5. rtSync.last >= began + owed /\ rtSync.ideal = began + owed
  BY <1>2 DEF RealtimeIInv, TimesKept, KeepsIdeal, Realtime!Units
<1>6. ideal \in Int /\ due \in Int /\ due >= began + (owed + d) /\ ideal = began + (owed + d)
  BY <1>1, <1>3, <1>4, <1>5
<1>7. ahead \in Int
  BY <1>1, <1>6
<1>8. ahead < 0 => clock > due
  <2>1. delay \in Int /\ timeLeft \in Int
    BY <1>1, <1>6
  <2> HIDE DEF delay, due, ideal
  <2>2. ahead < 0 => timeLeft < 0
    BY <2>1
  <2>3. QED
    BY <1>1, <1>6, <2>2
<1>9. /\ rtSync' \in Syncs /\ rtSync'.kind = rtSync.kind /\ rtSync'.start = rtSync.start
      /\ rtSync'.shouldCatchupTime = rtSync.shouldCatchupTime /\ rtSync'.ideal = ideal
  BY <1>1, <1>2, <1>6 DEF Syncs, Realtime!Times
<1> HIDE DEF ahead, due, ideal
<1>10. Realtime!Units(due) >= began + (owed + d) /\ Realtime!Units(rtSync'.ideal) = began + (owed + d)
  BY <1>2, <1>6, <1>9 DEF Realtime!Units
<1>11. simTime \in Nat /\ 0 \in Nat /\ owed + d \in Nat /\ due \in Realtime!Times
  BY <1>1, <1>2, <1>3, <1>6 DEF Realtime!Times
<1>12. QED
  BY <1>2, <1>7, <1>8, <1>9, <1>10, <1>11, SyncWaitStep

\* The older realtimeSynchronize block, which counts from when it was made
LEMMA RealtimeSynchronizeStep ==
  ASSUME Realtime!RealtimeAssumption, RealtimeIInv, NEW simTime \in 0 .. MaxSim, NEW scaling \in Scalings,
         Realtime!RealtimeSynchronize(simTime, scaling)
  PROVE  RealtimeIInv'
<1> DEFINE d == (simTime - rtSync.lastSimTime) * scaling
           sync == IF scaling > 0 THEN rtSync.lastSyncTime + d ELSE simTime
           owes == IF scaling > 0 THEN owed + d ELSE simTime
           due == Realtime!Add(rtSync.start, sync)
<1>1. /\ NSEC \in Nat \ {0} /\ clock \in Nat /\ began \in Nat /\ owed \in Nat
      /\ rtSync \in Syncs /\ MaxSim \in Nat
      /\ Realtime!Linux => /\ NormalTime(rtSync.last) /\ NormalTime(rtSync.ideal)
                           /\ rtSync.kind # "sampled" => NormalTime(rtSync.start)
  BY RealtimeTypes
<1>2. /\ rtCall.pc = "idle" /\ rtSync.kind = "realtime" /\ sync >= 0
      /\ UNCHANGED <<rtPlatform, clock, began, owed>>
      /\ rtSync' = IF Realtime!Linux THEN [rtSync EXCEPT !.last = Realtime!Now] ELSE rtSync
      /\ Realtime!Wait(simTime, due, sync, owes, Realtime!Units(due) - clock)
  BY DEF Realtime!RealtimeSynchronize
<1>3. sync \in Nat /\ owes = sync
  <2>1. rtSync.lastSyncTime = owed
    BY <1>2 DEF RealtimeIInv, TimesKept
  <2>2. simTime \in Nat /\ rtSync.lastSimTime \in Nat /\ scaling \in Nat
    BY <1>1 DEF Syncs, Realtime!RealtimeAssumption
  <2>3. d \in Int
    BY <2>2
  <2> HIDE DEF d
  <2>4. QED
    BY <1>1, <1>2, <2>1, <2>2, <2>3
<1> HIDE DEF sync, owes
<1>4. /\ due \in Realtime!Times /\ (Realtime!Linux => NormalTime(due)) /\ Realtime!Units(due) = Realtime!Units(rtSync.start) + sync
  <2>1. rtSync.start \in Realtime!Times /\ (Realtime!Linux => NormalTime(rtSync.start))
    BY <1>1, <1>2 DEF Syncs
  <2>2. QED
    BY <1>1, <1>3, <2>1, AddUnits
<1> HIDE DEF due
<1>5. Realtime!Units(rtSync.start) = began /\ Realtime!Units(due) \in Int
  BY <1>1, <1>2, <1>4, UnitsInt DEF RealtimeIInv, TimesKept
<1>6. Realtime!Now \in Realtime!Times /\ (Realtime!Linux => NormalTime(Realtime!Now))
  BY <1>1, NowUnits
<1>7. /\ rtSync' \in Syncs /\ rtSync'.kind = rtSync.kind /\ rtSync'.start = rtSync.start
      /\ rtSync'.shouldCatchupTime = rtSync.shouldCatchupTime /\ rtSync'.ideal = rtSync.ideal
      /\ Realtime!Linux => NormalTime(rtSync'.last)
  <2>1. CASE Realtime!Linux
    BY <1>1, <1>2, <1>6, <2>1 DEF Syncs
  <2>2. CASE ~Realtime!Linux
    BY <1>1, <1>2, <2>2 DEF Syncs
  <2>3. QED
    BY <2>1, <2>2
<1>8. simTime \in Nat /\ owes \in Nat /\ Realtime!Units(due) - clock \in Int /\ Realtime!Units(due) >= began + owes
  BY <1>1, <1>3, <1>4, <1>5
<1>9. ~Realtime!Linux /\ Realtime!Units(due) - clock < 0 => clock > due
  BY <1>1, <1>5 DEF Realtime!Units
<1>10. ~KeepsIdeal /\ ~rtSync.shouldCatchupTime
  BY <1>2 DEF KeepsIdeal, RealtimeIInv, TimesKept
<1>11. QED
  BY <1>1, <1>2, <1>3, <1>4, <1>7, <1>8, <1>9, <1>10, SyncWaitStep

\* The sampled block of either system
LEMMA SampledStep ==
  ASSUME Realtime!RealtimeAssumption, RealtimeIInv, NEW simTime \in 0 .. MaxSim, NEW scaling \in Scalings,
         Realtime!WindowsSample(simTime, scaling) \/ Realtime!LinuxSample(simTime, scaling)
  PROVE  RealtimeIInv'
<1> DEFINE d == (simTime - rtSync.lastSimTime) * scaling
           due == Realtime!Add(rtSync.last, d)
<1>1. /\ NSEC \in Nat \ {0} /\ clock \in Nat /\ began \in Nat /\ owed \in Nat
      /\ rtSync \in Syncs /\ MaxSim \in Nat
      /\ Realtime!Linux => NormalTime(rtSync.last) /\ NormalTime(rtSync.ideal)
  BY RealtimeTypes
<1>2. /\ rtCall.pc = "idle" /\ rtSync.kind = "sampled" /\ simTime >= rtSync.lastSimTime
      /\ UNCHANGED <<rtPlatform, clock, began, owed>>
      /\ rtSync' = IF Realtime!Linux THEN [rtSync EXCEPT !.last = Realtime!Now] ELSE rtSync
      /\ Realtime!Wait(simTime, due, 0, owed + d, Realtime!Units(due) - clock)
  BY DEF Realtime!WindowsSample, Realtime!LinuxSample, Realtime!WaitSample, Realtime!Called
<1>3. d \in Nat
  <2>1. simTime \in Nat /\ rtSync.lastSimTime \in Nat /\ scaling \in Nat
    BY <1>1 DEF Syncs, Realtime!RealtimeAssumption
  <2>2. QED
    BY <1>2, <2>1, Elapsed
<1> HIDE DEF d
<1>4. /\ due \in Realtime!Times /\ (Realtime!Linux => NormalTime(due)) /\ Realtime!Units(due) = Realtime!Units(rtSync.last) + d
      /\ Realtime!Units(rtSync.last) \in Int
  <2>1. rtSync.last \in Realtime!Times
    BY <1>1 DEF Syncs
  <2>2. QED
    BY <1>1, <1>3, <2>1, AddUnits, UnitsInt
<1> HIDE DEF due
<1>5. Realtime!Units(rtSync.last) >= began + owed /\ Realtime!Units(due) \in Int
  BY <1>1, <1>2, <1>4, UnitsInt DEF RealtimeIInv, TimesKept
<1>6. Realtime!Now \in Realtime!Times /\ (Realtime!Linux => NormalTime(Realtime!Now))
  BY <1>1, NowUnits
<1>7. /\ rtSync' \in Syncs /\ rtSync'.kind = rtSync.kind /\ rtSync'.start = rtSync.start
      /\ rtSync'.shouldCatchupTime = rtSync.shouldCatchupTime /\ rtSync'.ideal = rtSync.ideal
      /\ Realtime!Linux => NormalTime(rtSync'.last)
  <2>1. CASE Realtime!Linux
    BY <1>1, <1>2, <1>6, <2>1 DEF Syncs
  <2>2. CASE ~Realtime!Linux
    BY <1>1, <1>2, <2>2 DEF Syncs
  <2>3. QED
    BY <2>1, <2>2
<1>8. simTime \in Nat /\ 0 \in Nat /\ owed + d \in Nat /\ Realtime!Units(due) - clock \in Int
      /\ Realtime!Units(due) >= began + (owed + d)
  BY <1>1, <1>3, <1>4, <1>5
<1>9. ~Realtime!Linux /\ Realtime!Units(due) - clock < 0 => clock > due
  BY <1>1, <1>5 DEF Realtime!Units
<1>10. ~KeepsIdeal /\ ~rtSync.shouldCatchupTime
  BY <1>2 DEF KeepsIdeal, RealtimeIInv, TimesKept
<1>11. QED
  BY <1>1, <1>2, <1>4, <1>7, <1>8, <1>9, <1>10, SyncWaitStep

\* A wait ends.
LEMMA SyncReturnStep ==
  ASSUME Realtime!RealtimeAssumption, RealtimeIInv, Realtime!Return
  PROVE  RealtimeIInv'
<1> DEFINE start == IF Realtime!Linux /\ rtSync.kind = "sampled" THEN Realtime!Borrow(Realtime!Now, rtSync.start)
                    ELSE rtSync.start
           wall == Realtime!Units(Realtime!Difference(Realtime!Now, rtSync.start))
<1>1. /\ NSEC \in Nat \ {0} /\ clock \in Nat /\ began \in Nat /\ owed \in Nat /\ began \in Starts
      /\ rtPlatform \in Platforms /\ rtSync \in Syncs /\ rtCall \in SyncCalls
      /\ Realtime!Linux => /\ NormalTime(rtSync.last) /\ NormalTime(rtSync.ideal)
                           /\ rtSync.kind # "sampled" => NormalTime(rtSync.start)
  BY RealtimeTypes
<1>2. /\ rtCall.pc = "wait" /\ Realtime!WaitOver /\ owed' = rtCall.owes /\ UNCHANGED <<rtPlatform, clock, began>>
      /\ rtSync' = [rtSync EXCEPT !.last = Realtime!Now, !.lastSimTime = rtCall.sim,
                                  !.lastSyncTime = rtCall.sync, !.start = start]
      /\ rtCall' = IF Realtime!Negative(Realtime!Now, rtSync.start) /\ rtSync.kind # "realtime"
                   THEN [rtCall EXCEPT !.pc = "error"]
                   ELSE [pc |-> "idle", sim |-> 0, due |-> Realtime!Now, sync |-> 0, owes |-> 0,
                         left |-> -1, wall |-> wall]
  BY DEF Realtime!Return, Realtime!Finish
<1>3. Realtime!Now \in Realtime!Times /\ (Realtime!Linux => NormalTime(Realtime!Now)) /\ Realtime!Units(Realtime!Now) = clock
  BY <1>1, NowUnits
<1>4. rtSync.start \in Realtime!Times /\ rtCall.due \in Realtime!Times /\ rtCall.sim \in Nat /\ rtCall.sync \in Nat
      /\ rtCall.owes \in Nat /\ rtCall.left \in Int
  BY <1>1 DEF Syncs, SyncCalls
<1>5. Realtime!Units(rtSync.start) = began
  BY <1>2 DEF RealtimeIInv, TimesKept
<1>6. wall = clock - began
  BY <1>1, <1>3, <1>4, <1>5, DifferenceUnits
<1>7. start \in Realtime!Times /\ Realtime!Units(start) = began
      /\ (Realtime!Linux /\ rtSync.kind # "sampled" => NormalTime(start))
  <2>1. CASE Realtime!Linux /\ rtSync.kind = "sampled"
    <3>1. Realtime!Now \in Realtime!Timespecs /\ rtSync.start \in Realtime!Timespecs
      BY <1>3, <1>4, <2>1 DEF Realtime!Times
    <3>2. Realtime!Borrow(Realtime!Now, rtSync.start) \in Realtime!Timespecs
          /\ Realtime!Borrow(Realtime!Now, rtSync.start).sec * NSEC + Realtime!Borrow(Realtime!Now, rtSync.start).nsec
             = rtSync.start.sec * NSEC + rtSync.start.nsec
      BY <1>1, <3>1, BorrowUnits
    <3>3. QED
      BY <1>5, <2>1, <3>2 DEF Realtime!Units, Realtime!Times
  <2>2. CASE ~(Realtime!Linux /\ rtSync.kind = "sampled")
    BY <1>1, <1>4, <1>5, <2>2
  <2>3. QED
    BY <2>1, <2>2
<1>8. clock >= began + rtCall.owes
  <2>1. Realtime!Units(rtCall.due) >= began + rtCall.owes /\ (~Realtime!Linux /\ rtCall.left < 0 => clock > rtCall.due)
    BY <1>2 DEF RealtimeIInv, TimesKept
  <2>2. Realtime!Units(rtCall.due) \in Int
    BY <1>1, <1>4, UnitsInt
  <2>3. clock >= Realtime!Units(rtCall.due)
    <3>1. CASE Realtime!Linux
      BY <1>2, <3>1 DEF Realtime!WaitOver
    <3>2. CASE ~Realtime!Linux
      <4>1. clock > rtCall.due /\ rtCall.due \in Int
        BY <1>2, <1>4, <2>1, <3>2 DEF Realtime!WaitOver, Realtime!Times
      <4>2. QED
        BY <1>1, <3>2, <4>1 DEF Realtime!Units
    <3>3. QED
      BY <3>1, <3>2
  <2>4. QED
    BY <1>1, <1>4, <2>1, <2>2, <2>3
<1> HIDE DEF start, wall
<1>9. /\ rtSync' \in Syncs /\ rtSync'.kind = rtSync.kind /\ rtSync'.start = start
      /\ rtSync'.last = Realtime!Now /\ rtSync'.ideal = rtSync.ideal
      /\ rtSync'.lastSyncTime = rtCall.sync
      /\ rtSync'.shouldCatchupTime = rtSync.shouldCatchupTime
  BY <1>1, <1>2, <1>3, <1>4, <1>7 DEF Syncs
<1>10. rtCall' \in SyncCalls
  BY <1>1, <1>2, <1>3, <1>6 DEF SyncCalls
<1>11. Realtime!Linux' = Realtime!Linux /\ Realtime!Times' = Realtime!Times /\ Syncs' = Syncs /\ SyncCalls' = SyncCalls
  BY <1>2 DEF Realtime!Linux, Realtime!Times, Syncs, SyncCalls
<1>12. Realtime!TypeOK'
  <2>1. rtPlatform' \in Platforms /\ clock' \in Nat /\ began' \in Starts /\ owed' \in Nat
    BY <1>1, <1>2, <1>4
  <2>2. rtSync' \in Syncs' /\ rtCall' \in SyncCalls'
    BY <1>9, <1>10, <1>11
  <2>3. Realtime!Linux => rtSync'.last.nsec \in 0 .. NSEC - 1
    BY <1>3, <1>9 DEF NormalTime
  <2>4. Realtime!Linux => rtCall'.due.nsec \in 0 .. NSEC - 1
    <3>1. rtCall'.due = rtCall.due \/ rtCall'.due = Realtime!Now
      BY <1>1, <1>2 DEF SyncCalls
    <3>2. QED
      BY <1>3, <3>1 DEF NormalTime, RealtimeIInv, Realtime!TypeOK
  <2>5. QED
    BY <1>11, <2>1, <2>2, <2>3, <2>4 DEF Realtime!TypeOK, Syncs, SyncCalls
<1>13. TimesKept'
  <2>1. Realtime!Linux' => /\ rtSync'.ideal.nsec \in 0 .. NSEC - 1
                           /\ rtSync'.kind # "sampled" => rtSync'.start.nsec \in 0 .. NSEC - 1
    BY <1>1, <1>7, <1>9, <1>11 DEF NormalTime
  <2>2. rtSync'.shouldCatchupTime => rtSync'.kind = "RTSync"
    BY <1>9 DEF RealtimeIInv, TimesKept
  <2>3. Realtime!Units(rtSync.start)' = began'
    BY <1>2, <1>7, <1>9, <1>11 DEF Realtime!Units
  <2>4. Realtime!Units(rtSync.last)' = clock'
    BY <1>2, <1>3, <1>9, <1>11 DEF Realtime!Units
  <2>5. KeepsIdeal' => Realtime!Units(rtSync.ideal)' = began' + owed'
    <3>1. KeepsIdeal' = KeepsIdeal
      BY <1>9, <1>11 DEF KeepsIdeal
    <3>2. KeepsIdeal => Realtime!Units(rtSync.ideal) = began + rtCall.owes
      BY <1>2 DEF RealtimeIInv, TimesKept
    <3>3. QED
      BY <1>2, <1>9, <1>11, <3>1, <3>2 DEF Realtime!Units
  <2>6. rtSync'.lastSyncTime = IF rtSync'.kind = "realtime" THEN owed' ELSE 0
    BY <1>2, <1>9 DEF RealtimeIInv, TimesKept
  <2>7. rtCall'.pc = "error" \/ (rtCall'.pc = "idle" /\ rtCall'.wall = wall)
    BY <1>1, <1>2 DEF SyncCalls
  <2>8. clock' >= began' + owed'
    BY <1>2, <1>8
  <2>9. rtCall'.pc = "idle" => rtCall'.wall = Realtime!Units(rtSync.last)' - began'
    BY <1>2, <1>6, <2>4, <2>7
  <2>10. QED
    BY <2>1, <2>2, <2>3, <2>4, <2>5, <2>6, <2>7, <2>8, <2>9 DEF TimesKept
<1>14. QED
  BY <1>12, <1>13 DEF RealtimeIInv

\* The object is made.
LEMMA SyncConstructStep ==
  ASSUME Realtime!RealtimeAssumption, RealtimeIInv, Realtime!Construct
  PROVE  RealtimeIInv'
<1>1. /\ NSEC \in Nat \ {0} /\ clock \in Nat /\ began \in Nat /\ owed \in Nat /\ began \in Starts
      /\ rtPlatform \in Platforms /\ rtSync \in Syncs /\ rtCall \in SyncCalls
  BY RealtimeTypes
<1>2. /\ rtCall.pc = "new" /\ rtCall' = [rtCall EXCEPT !.pc = "idle", !.due = Realtime!Now]
      /\ rtSync' = [rtSync EXCEPT !.start = Realtime!Now, !.last = Realtime!Now, !.ideal = Realtime!Now]
      /\ UNCHANGED <<rtPlatform, clock, began, owed>>
  BY DEF Realtime!Construct
<1>3. Realtime!Now \in Realtime!Times /\ (Realtime!Linux => NormalTime(Realtime!Now)) /\ Realtime!Units(Realtime!Now) = clock
  BY <1>1, NowUnits
<1>4. /\ rtSync' \in Syncs /\ rtSync'.kind = rtSync.kind /\ rtSync'.start = Realtime!Now
      /\ rtSync'.last = Realtime!Now /\ rtSync'.ideal = Realtime!Now
      /\ rtSync'.lastSyncTime = rtSync.lastSyncTime
      /\ rtSync'.shouldCatchupTime = rtSync.shouldCatchupTime
  BY <1>1, <1>2, <1>3 DEF Syncs
<1>5. rtCall' \in SyncCalls /\ rtCall'.pc = "idle" /\ rtCall'.due = Realtime!Now /\ rtCall'.wall = rtCall.wall
  BY <1>1, <1>2, <1>3 DEF SyncCalls
<1>6. Realtime!Linux' = Realtime!Linux /\ Realtime!Times' = Realtime!Times /\ Syncs' = Syncs /\ SyncCalls' = SyncCalls
  BY <1>2 DEF Realtime!Linux, Realtime!Times, Syncs, SyncCalls
<1>7. clock = began /\ owed = 0 /\ rtSync.lastSyncTime = 0 /\ rtCall.wall = 0
      /\ (rtSync.shouldCatchupTime => rtSync.kind = "RTSync")
  BY <1>2 DEF RealtimeIInv, TimesKept
<1>8. Realtime!TypeOK'
  <2>1. rtSync' \in Syncs' /\ rtCall' \in SyncCalls'
    BY <1>4, <1>5, <1>6
  <2>2. Realtime!Linux => rtSync'.last.nsec \in 0 .. NSEC - 1 /\ rtCall'.due.nsec \in 0 .. NSEC - 1
    BY <1>3, <1>4, <1>5 DEF NormalTime
  <2>3. QED
    BY <1>1, <1>2, <1>6, <2>1, <2>2 DEF Realtime!TypeOK, Syncs, SyncCalls
<1>9. TimesKept'
  <2>1. Realtime!Linux => rtSync'.ideal.nsec \in 0 .. NSEC - 1 /\ rtSync'.start.nsec \in 0 .. NSEC - 1
    BY <1>3, <1>4 DEF NormalTime
  <2>2. Realtime!Units(rtSync.start)' = clock /\ Realtime!Units(rtSync.last)' = clock /\ Realtime!Units(rtSync.ideal)' = clock
    BY <1>3, <1>4, <1>6 DEF Realtime!Units
  <2>3. clock = began + owed /\ 0 = clock - began
    BY <1>1, <1>7
  <2>4. began' = began /\ owed' = owed
    BY <1>2
  <2>5. QED
    BY <1>1, <1>4, <1>5, <1>6, <1>7, <2>1, <2>2, <2>3, <2>4 DEF TimesKept
<1>10. QED
  BY <1>8, <1>9 DEF RealtimeIInv

\* Time passes.
LEMMA ClockTickStep ==
  ASSUME Realtime!RealtimeAssumption, RealtimeIInv, Realtime!Tick
  PROVE  RealtimeIInv'
<1>1. clock \in Nat /\ began \in Nat /\ rtCall \in SyncCalls /\ rtSync \in Syncs
  BY RealtimeTypes
<1>2. rtCall.pc \in {"idle", "wait"} /\ clock' = clock + 1 /\ UNCHANGED <<rtPlatform, began, rtSync, rtCall, owed>>
  BY DEF Realtime!Tick
<1>3. Realtime!TypeOK'
  <2>1. clock' \in Nat
    BY <1>1, <1>2
  <2>2. Realtime!Linux' = Realtime!Linux /\ Realtime!Times' = Realtime!Times
    BY <1>2 DEF Realtime!Linux, Realtime!Times
  <2>3. QED
    BY <1>2, <2>1, <2>2 DEF RealtimeIInv, Realtime!TypeOK
<1>4. TimesKept'
  <2>1. Realtime!Linux' = Realtime!Linux
    BY <1>2 DEF Realtime!Linux
  <2>2. /\ Realtime!Units(rtSync.start)' = Realtime!Units(rtSync.start) /\ Realtime!Units(rtSync.last)' = Realtime!Units(rtSync.last)
        /\ Realtime!Units(rtSync.ideal)' = Realtime!Units(rtSync.ideal) /\ Realtime!Units(rtCall.due)' = Realtime!Units(rtCall.due)
    BY <1>2, <2>1 DEF Realtime!Units
  <2>3. KeepsIdeal' = KeepsIdeal
    BY <1>2, <2>1 DEF KeepsIdeal
  <2>4. ~Realtime!Linux /\ rtCall.pc = "wait" /\ rtCall.left < 0 => clock + 1 > rtCall.due
    <3>1. ~Realtime!Linux => rtCall.due \in Int
      BY <1>1 DEF SyncCalls, Realtime!Times
    <3>2. ~Realtime!Linux /\ rtCall.pc = "wait" /\ rtCall.left < 0 => clock > rtCall.due
      BY DEF RealtimeIInv, TimesKept
    <3>3. QED
      BY <1>1, <3>1, <3>2
  <2>5. QED
    BY <1>2, <2>1, <2>2, <2>3, <2>4 DEF RealtimeIInv, TimesKept
<1>5. QED
  BY <1>3, <1>4 DEF RealtimeIInv

\* Every step keeps the invariant.
LEMMA RealtimeIInvStep ==
  ASSUME Realtime!RealtimeAssumption, RealtimeIInv, [Realtime!Next]_Realtime!vars PROVE RealtimeIInv'
<1>1. CASE Realtime!Construct
  BY <1>1, SyncConstructStep
<1>2. CASE Realtime!ConstructFails \/ Realtime!Destroy \/ Realtime!SleepFails
  BY <1>2, SyncErrorStep DEF Realtime!ConstructFails, Realtime!Destroy, Realtime!SleepFails
<1>3. CASE Realtime!Tick
  BY <1>3, ClockTickStep
<1>4. CASE Realtime!Return
  BY <1>4, SyncReturnStep
<1>5. ASSUME NEW simTime \in 0 .. MaxSim, NEW scaling \in Scalings,
             \/ Realtime!LinuxSynchronize(simTime, scaling) \/ Realtime!WindowsSynchronize(simTime, scaling)
             \/ Realtime!RealtimeSynchronize(simTime, scaling)
             \/ Realtime!SampledTooEarly(simTime, scaling) \/ Realtime!WindowsSample(simTime, scaling)
             \/ Realtime!LinuxSample(simTime, scaling)
      PROVE  RealtimeIInv'
  <2>1. CASE Realtime!SampledTooEarly(simTime, scaling)
    BY <2>1, SyncErrorStep DEF Realtime!SampledTooEarly, Realtime!Called
  <2>2. QED
    BY <1>5, <2>1, LinuxSynchronizeStep, WindowsSynchronizeStep, RealtimeSynchronizeStep,
       SampledStep
<1>6. CASE UNCHANGED Realtime!vars
  BY <1>6
  DEF Realtime!vars, RealtimeIInv, Realtime!TypeOK, TimesKept, Realtime!Linux, Realtime!Times,
      Realtime!Units, KeepsIdeal
<1>7. QED
  BY <1>1, <1>2, <1>3, <1>4, <1>5, <1>6 DEF Realtime!Next, Realtime!Ended

\* The invariant says what the properties claim.
LEMMA RealtimeIInvKeeps ==
  ASSUME Realtime!RealtimeAssumption, RealtimeIInv PROVE Realtime!NeverAhead /\ Realtime!CatchesUpOnLinux
<1>1. clock \in Nat /\ began \in Nat /\ owed \in Nat /\ rtCall \in SyncCalls /\ rtSync \in Syncs
      /\ NSEC \in Nat \ {0}
  BY RealtimeTypes
<1>2. Realtime!Units(rtSync.last) \in Int
  BY <1>1, UnitsInt DEF Syncs
<1>3. Realtime!NeverAhead
  BY <1>1, <1>2 DEF RealtimeIInv, TimesKept, Realtime!NeverAhead
<1>4. Realtime!CatchesUpOnLinux
  <2> SUFFICES ASSUME Realtime!Linux, rtCall.pc = "wait", rtSync.shouldCatchupTime, clock > began + rtCall.owes
               PROVE  clock >= Realtime!Units(rtCall.due)
    BY DEF Realtime!CatchesUpOnLinux, Realtime!CatchesUp, Realtime!WaitOver
  <2>1. Realtime!Units(rtCall.due) = began + rtCall.owes
    BY DEF RealtimeIInv, TimesKept, KeepsIdeal
  <2>2. rtCall.owes \in Nat
    BY <1>1 DEF SyncCalls
  <2>3. QED
    BY <1>1, <2>1, <2>2
<1>5. QED
  BY <1>3, <1>4

\* A step of the drivers is one of this driver, or leaves it alone.
LEMMA RealtimeSteps == ASSUME [DevicesNext]_DeviceVars PROVE [Realtime!Next]_Realtime!vars
  BY DEF DevicesNext, OthersRest, DeviceVars, RealtimeVars, Realtime!vars

\* In every state of the drivers its invariant holds.
LEMMA RealtimeInvariance == DevicesSpec => []RealtimeIInv
<1>1. DevicesInit => RealtimeIInv
  BY InitRealtimeIInv, DevicesAssumption DEF DevicesAssumption, DevicesInit
<1>2. RealtimeIInv /\ [DevicesNext]_DeviceVars => RealtimeIInv'
  <2> SUFFICES ASSUME RealtimeIInv, [DevicesNext]_DeviceVars PROVE RealtimeIInv'
    OBVIOUS
  <2>1. [Realtime!Next]_Realtime!vars
    BY RealtimeSteps
  <2>2. QED
    BY <2>1, RealtimeIInvStep, DevicesAssumption DEF DevicesAssumption
<1>3. QED
  BY <1>1, <1>2, PTL DEF DevicesSpec

\* However the calls of the simulation and the ticks of the clock take turns, with whatever
\* scaling, a call returns no earlier than the simulation time it was asked for; and a
\* simulation that was late catches up, on Linux, as far as the object allows
\* (MDDRealtimeSynchronize.h, 154-268).
THEOREM SimulationIsNeverAhead == DevicesSpec => []NeverAhead
<1>1. RealtimeIInv => NeverAhead
  BY RealtimeIInvKeeps, DevicesAssumption DEF DevicesAssumption, NeverAhead
<1>2. QED
  BY <1>1, RealtimeInvariance, PTL

\* With catch-up the waits on Linux end at the times counted from the start, whatever was
\* overrun before (MDDRealtimeSynchronize.h, 154-268).
THEOREM LinuxMakesUpForOverruns == DevicesSpec => []CatchesUpOnLinux
<1>1. RealtimeIInv => CatchesUpOnLinux
  BY RealtimeIInvKeeps, DevicesAssumption DEF DevicesAssumption, CatchesUpOnLinux
<1>2. QED
  BY <1>1, RealtimeInvariance, PTL

----------------------------------------------------------------------------
(* The priority of the process (ProcessPriority) *)

\* Where the object changed nothing, the process has what it came with; where it did, the
\* object says so.
PriorityAsSet ==
  /\ prioPc = "failed" => refused
  /\ prioPc = "new" => prio.useRealtime = FALSE /\ prio.isSet = FALSE /\ ~locked
  /\ Priority!Linux /\ prioPc = "set" /\ ~refused =>
       /\ prio.useRealtime => prio.isSet /\ policy = "SCHED_FIFO"
       /\ ~prio.useRealtime => policy = prio.originalSchedPolicy /\ ~locked
       /\ (prio.isSet /\ ~prio.useRealtime) \/ nice = prio.originalPriority
  /\ ~Priority!Linux =>
       /\ prio.isSet = FALSE /\ prio.useRealtime = FALSE /\ ~locked
       /\ prioPc # "new" => policy = prio.originalSchedPolicy

PriorityIInv == Priority!TypeOK /\ PriorityAsSet /\ Priority!PriorityRestored

\* The process as a record
Processes == [nice : -20 .. 19, policy : Priority!Policies, locked : BOOLEAN]

\* The invariant holds in the initial states.
LEMMA InitPriorityIInv == ASSUME MaxSets \in Nat, Priority!Init PROVE PriorityIInv
<1>1. Priority!TypeOK
  <2>1. nice \in -20 .. 19 /\ policy \in Priority!Policies
    BY DEF Priority!Init, Priority!Classes, Priority!Policies
  <2>2. prio \in [originalPriority : -20 .. 19, originalSchedPolicy : Priority!Policies,
               isSet : BOOLEAN, useRealtime : BOOLEAN]
    BY DEF Priority!Init, Priority!Policies
  <2>3. sets \in 0 .. MaxSets
    BY DEF Priority!Init
  <2>4. locked \in BOOLEAN /\ refused \in BOOLEAN
    BY DEF Priority!Init
  <2>5. QED
    BY <2>1, <2>2, <2>3, <2>4 DEF Priority!Init, Priority!TypeOK
<1>2. QED
  BY <1>1 DEF Priority!Init, PriorityIInv, PriorityAsSet, Priority!PriorityRestored

\* What the object sets back to: on Linux what the process came with, and a class or nice
\* value in any case.
LEMMA OriginalIsOne ==
  ASSUME PriorityIInv
  PROVE  /\ Priority!Original \in -20 .. 19
         /\ Priority!Linux => Priority!Original = prio.originalPriority
<1>1. prio.originalPriority \in -20 .. 19 /\ Priority!ClassOf(prio.originalPriority) \in -20 .. 19
  BY DEF PriorityIInv, Priority!TypeOK, Priority!ClassOf
<1>2. QED
  BY <1>1 DEF Priority!Original

\* Resetting gives the process the priority it came with, or is refused.
LEMMA ResetProcess ==
  ASSUME PriorityIInv, NEW process \in Priority!Reset
  PROVE  /\ process \in Processes
         /\ Priority!Linux /\ prioPc = "set" /\ ~refused /\ (prio.isSet => ~Priority!WasRefused(process)) =>
              /\ process.nice = prio.originalPriority
              /\ process.policy = prio.originalSchedPolicy /\ ~process.locked
<1>1. CASE prio.isSet /\ prio.useRealtime
  <2>1. PICK p \in {prio.originalSchedPolicy, policy} :
          process = [nice |-> nice, policy |-> p, locked |-> FALSE]
    BY <1>1 DEF Priority!Reset, Priority!Restored
  <2>2. process.nice = nice /\ process.policy = p /\ process.locked = FALSE
    BY <2>1
  <2>3. p \in Priority!Policies /\ nice \in -20 .. 19
    BY DEF PriorityIInv, Priority!TypeOK
  <2>4. process \in Processes
    BY <2>1, <2>3 DEF Processes
  <2>5. QED
    BY <1>1, <2>2, <2>4 DEF Priority!WasRefused, PriorityIInv, PriorityAsSet
<1>2. CASE prio.isSet /\ ~prio.useRealtime
  BY <1>2, OriginalIsOne
  DEF Priority!Reset, Priority!Restored, Processes, Priority!WasRefused, PriorityIInv,
      PriorityAsSet, Priority!TypeOK
<1>3. CASE ~prio.isSet
  BY <1>3
  DEF Priority!Reset, Priority!Restored, Processes, Priority!WasRefused, PriorityIInv,
      PriorityAsSet, Priority!TypeOK
<1>4. QED
  BY <1>1, <1>2, <1>3

\* Every step keeps the invariant.
LEMMA PriorityIInvStep ==
  ASSUME MaxSets \in Nat, PriorityIInv, [Priority!Next]_Priority!vars
  PROVE  PriorityIInv'
<1>1. CASE Priority!Construct
  BY <1>1
  DEF Priority!Construct, PriorityIInv, Priority!TypeOK, PriorityAsSet, Priority!PriorityRestored,
      Priority!Linux, Priority!Policies
<1>2. CASE Priority!SetRealtime
  <2>1. PICK process \in Priority!Reset, locks \in BOOLEAN, schedules \in BOOLEAN :
       /\ schedules => locks
       /\ Priority!SetTo([process EXCEPT !.locked = locks \/ @,
                                         !.policy = IF schedules THEN "SCHED_FIFO" ELSE @])
       /\ prio' = [prio EXCEPT !.isSet = TRUE, !.useRealtime = schedules]
       /\ refused' = (refused \/ ~schedules \/ (prio.isSet /\ Priority!WasRefused(process)))
       /\ prioPc' = IF schedules THEN "set" ELSE "failed"
    BY <1>2, ZenonT(40) DEF Priority!SetRealtime
  <2> process \in Processes
    BY ResetProcess
  <2>2. Priority!Linux /\ prioPc = "set" /\ ~refused /\ (prio.isSet => ~Priority!WasRefused(process)) =>
                       /\ process.nice = prio.originalPriority
                       /\ process.policy = prio.originalSchedPolicy /\ ~process.locked
    BY ResetProcess
  <2>3. /\ nice' = process.nice /\ policy' = (IF schedules THEN "SCHED_FIFO" ELSE process.policy)
        /\ locked' = (locks \/ process.locked)
    BY <2>1, <2>2 DEF Priority!SetTo, Processes
  <2>4. Priority!TypeOK'
    <3>1. nice' \in -20 .. 19 /\ policy' \in Priority!Policies
      BY <2>3 DEF Processes, Priority!Policies
    <3>2. locked' \in BOOLEAN /\ refused' \in BOOLEAN
      BY <2>1, <2>3 DEF Processes
    <3>3. sets' \in 0 .. MaxSets /\ prioPlatform' \in Platforms
      BY <1>2 DEF Priority!SetRealtime, PriorityIInv, Priority!TypeOK
    <3>4. prio' \in [originalPriority : -20 .. 19, originalSchedPolicy : Priority!Policies,
                    isSet : BOOLEAN, useRealtime : BOOLEAN]
      BY <2>1 DEF PriorityIInv, Priority!TypeOK
    <3>5. QED
      BY <2>1, <3>1, <3>2, <3>3, <3>4 DEF Priority!TypeOK
  <2>5. PriorityAsSet'
    BY <1>2, <2>1, <2>2, <2>3
    DEF Priority!SetRealtime, PriorityIInv, PriorityAsSet, Priority!TypeOK, Priority!Linux
  <2>6. QED
    BY <2>1, <2>4, <2>5 DEF PriorityIInv, Priority!PriorityRestored
<1>3. CASE Priority!Destroy
  <2>1. CASE Priority!Linux
    <3>1. PICK process \in Priority!Reset :
       /\ Priority!SetTo(process)
       /\ refused' = (refused \/ (prio.isSet /\ Priority!WasRefused(process)))
      BY <1>3, <2>1 DEF Priority!Destroy
    <3> process \in Processes
      BY ResetProcess
    <3>2. Priority!Linux /\ prioPc = "set" /\ ~refused /\ (prio.isSet => ~Priority!WasRefused(process)) =>
              /\ process.nice = prio.originalPriority
              /\ process.policy = prio.originalSchedPolicy /\ ~process.locked
      BY ResetProcess
    <3>3. Priority!TypeOK'
      <4>1. nice' \in -20 .. 19 /\ policy' \in Priority!Policies /\ locked' \in BOOLEAN
        BY <3>1 DEF Priority!SetTo, Processes
      <4>2. refused' \in BOOLEAN
        BY <3>1 DEF PriorityIInv, Priority!TypeOK
      <4>3. QED
        BY <1>3, <4>1, <4>2 DEF Priority!Destroy, PriorityIInv, Priority!TypeOK
    <3>4. PriorityAsSet' /\ Priority!PriorityRestored'
      BY <1>3, <2>1, <3>1, <3>2
      DEF Priority!Destroy, Priority!SetTo, PriorityIInv, PriorityAsSet,
          Priority!PriorityRestored, Priority!Linux
    <3>5. QED
      BY <3>3, <3>4 DEF PriorityIInv
  <2>2. CASE ~Priority!Linux
    <3>1. PICK niceness \in {Priority!Original, nice} :
       /\ nice' = niceness /\ policy' = policy /\ locked' = locked
       /\ refused' = (refused \/ niceness # Priority!Original)
      BY <1>3, <2>2
      DEF Priority!Destroy, Priority!Restored, Priority!SetTo, Priority!WasRefused, PriorityIInv,
          PriorityAsSet
    <3>2. Priority!TypeOK'
      BY <1>3, <3>1, OriginalIsOne DEF Priority!Destroy, PriorityIInv, Priority!TypeOK
    <3>3. \/ Priority!Original = prio.originalPriority
          \/ prio.originalPriority \notin -2 .. 2 /\ Priority!Original = Priority!ClassOf(0)
      BY DEF Priority!Original, Priority!ClassOf
    <3>4. Priority!PriorityRestored'
      BY <1>3, <2>2, <3>1, <3>3
      DEF Priority!Destroy, PriorityIInv, PriorityAsSet, Priority!PriorityRestored, Priority!Linux
    <3>5. PriorityAsSet'
      BY <1>3, <2>2, <3>1
      DEF Priority!Destroy, PriorityIInv, PriorityAsSet, Priority!Linux
    <3>6. QED
      BY <3>2, <3>4, <3>5 DEF PriorityIInv
  <2>3. QED
    BY <2>1, <2>2
<1>4. ASSUME NEW priority \in Priority!Priorities, Priority!SetNice(priority) PROVE PriorityIInv'
  <2> DEFINE asked == IF priority = 3 THEN 0 ELSE Priority!NiceOf(priority)
  <2>1. PICK process \in Priority!Reset :
       \E niceness \in IF priority = 3 THEN {process.nice} ELSE {asked, process.nice} :
         /\ Priority!SetTo([process EXCEPT !.nice = niceness])
         /\ refused' = (refused \/ (prio.isSet /\ Priority!WasRefused(process))
                                \/ (priority # 3 /\ niceness # asked))
         /\ prioPc' = IF priority # 3 /\ niceness # asked THEN "failed" ELSE "set"
    BY <1>4 DEF Priority!SetNice
  <2>2. asked \in -20 .. 19
    BY DEF Priority!NiceOf, Priority!Priorities
  <2> HIDE DEF asked
  <2> process \in Processes
    BY ResetProcess
  <2>3. Priority!Linux /\ prioPc = "set" /\ ~refused /\ (prio.isSet => ~Priority!WasRefused(process)) =>
                       /\ process.nice = prio.originalPriority
                       /\ process.policy = prio.originalSchedPolicy /\ ~process.locked
    BY ResetProcess
  <2>4. PICK niceness \in {asked, process.nice} :
         /\ priority = 3 => niceness = process.nice
         /\ nice' = niceness /\ policy' = process.policy /\ locked' = process.locked
         /\ refused' = (refused \/ (prio.isSet /\ Priority!WasRefused(process))
                                \/ (priority # 3 /\ niceness # asked))
         /\ prioPc' = IF priority # 3 /\ niceness # asked THEN "failed" ELSE "set"
    BY <2>1, <2>3 DEF Priority!SetTo, Processes
  <2>5. Priority!TypeOK'
    <3>1. nice' \in -20 .. 19 /\ policy' \in Priority!Policies
      BY <2>2, <2>4 DEF Processes
    <3>2. locked' \in BOOLEAN /\ refused' \in BOOLEAN
      BY <2>4 DEF Processes
    <3>3. sets' \in 0 .. MaxSets /\ prioPlatform' \in Platforms
      BY <1>4 DEF Priority!SetNice, PriorityIInv, Priority!TypeOK
    <3>4. prio' \in [originalPriority : -20 .. 19, originalSchedPolicy : Priority!Policies,
                    isSet : BOOLEAN, useRealtime : BOOLEAN]
      BY <1>4 DEF Priority!SetNice, PriorityIInv, Priority!TypeOK
    <3>5. QED
      BY <2>4, <3>1, <3>2, <3>3, <3>4 DEF Priority!TypeOK
  <2>6. PriorityAsSet'
    BY <1>4, <2>3, <2>4
    DEF Priority!SetNice, PriorityIInv, PriorityAsSet, Priority!TypeOK, Priority!Linux
  <2>7. QED
    BY <2>4, <2>5, <2>6 DEF PriorityIInv, Priority!PriorityRestored
<1>5. ASSUME NEW priority \in Priority!Priorities, Priority!SetClass(priority) PROVE PriorityIInv'
  BY <1>5
  DEF Priority!SetClass, Priority!ClassOf, Priority!Priorities, PriorityIInv, Priority!TypeOK,
      PriorityAsSet, Priority!PriorityRestored, Priority!Linux, Priority!Policies
<1>6. CASE UNCHANGED Priority!vars
  BY <1>6
  DEF Priority!vars, PriorityIInv, Priority!TypeOK, PriorityAsSet, Priority!PriorityRestored,
      Priority!Linux
<1>7. QED
  BY <1>1, <1>2, <1>3, <1>4, <1>5, <1>6 DEF Priority!Next, Priority!Ended

\* A step of the drivers is one of this driver, or leaves it alone.
LEMMA PrioritySteps == ASSUME [DevicesNext]_DeviceVars PROVE [Priority!Next]_Priority!vars
  BY DEF DevicesNext, OthersRest, DeviceVars, PriorityVars, Priority!vars

\* In every state of the drivers its invariant holds.
LEMMA PriorityInvariance == DevicesSpec => []PriorityIInv
<1>1. DevicesInit => PriorityIInv
  BY InitPriorityIInv, DevicesAssumption DEF DevicesAssumption, DevicesInit,
     Priority!PriorityAssumption
<1>2. PriorityIInv /\ [DevicesNext]_DeviceVars => PriorityIInv'
  <2> SUFFICES ASSUME PriorityIInv, [DevicesNext]_DeviceVars PROVE PriorityIInv'
    OBVIOUS
  <2>1. [Priority!Next]_Priority!vars
    BY PrioritySteps
  <2>2. QED
    BY <2>1, PriorityIInvStep, DevicesAssumption DEF DevicesAssumption, Priority!PriorityAssumption
<1>3. QED
  BY <1>1, <1>2, PTL DEF DevicesSpec

\* Unless the system refused a change, the process has the policy, and the nice value or class
\* it came with when the object is destroyed, after any number of changes - but normal, if it
\* came with a class that the object has no name for and was given another
\* (MDDRealtimeSynchronize.h:47-101, 567-619).
THEOREM PriorityIsRestored == DevicesSpec => []PriorityRestored
<1>1. PriorityIInv => PriorityRestored
  BY DEF PriorityIInv, PriorityRestored
<1>2. QED
  BY <1>1, PriorityInvariance, PTL

----------------------------------------------------------------------------
(* The timer interrupt of an AVR (AvrRealTime) *)

\* The counter stays below the cycle while no step was late, and the flag is raised when
\* the loop has ended.
AvrIInv ==
  /\ Avr!TypeOK
  /\ ~late => numInterruptTriggered < numInterruptTriggeredPerCycle
  /\ avrPc = "clear" => interruptTriggered = 1
  /\ Avr!StepsOnTime

\* A product grows by a factor with the other.
LEMMA Product == \A factor, k \in Nat : factor * (k + 1) = factor * k + factor /\ factor * k \in Nat
  OBVIOUS

\* The invariant holds in the initial states.
LEMMA InitAvrIInv == Avr!AvrAssumption /\ Avr!Init => AvrIInv
<1> SUFFICES ASSUME Avr!AvrAssumption, Avr!Init PROVE AvrIInv
  OBVIOUS
<1> DEFINE per == numInterruptTriggeredPerCycle
<1>1. per \in Nat /\ per >= 1 /\ per \in Cycles /\ UINT16 \in Nat /\ UINT16 >= 1
      /\ MaxInterrupts \in Nat
  BY DEF Avr!AvrAssumption, Avr!Init
<1>2. Avr!TypeOK
  <2>1. 0 \in 0 .. UINT16 - 1 /\ 0 \in 0 .. MaxInterrupts /\ 0 \in 0 .. 0
    BY <1>1
  <2> HIDE DEF per
  <2>2. QED
    BY <2>1 DEF Avr!Init, Avr!TypeOK
<1>3. per * (steps + interruptTriggered) + numInterruptTriggered = total
  BY <1>1 DEF Avr!Init
<1>4. QED
  BY <1>1, <1>2, <1>3 DEF Avr!Init, AvrIInv, Avr!StepsOnTime

\* An interrupt adds one to the count, or more is counted than is due only by less.
LEMMA AvrInterruptStep == ASSUME Avr!AvrAssumption, AvrIInv, Avr!ISR PROVE AvrIInv'
<1> DEFINE per == numInterruptTriggeredPerCycle
           num == numInterruptTriggered
           factor == (num + 1) % UINT16
           due == interruptTriggered # 1 /\ factor >= per
<1>1. /\ per \in Nat /\ per \in 1 .. UINT16 - 1 /\ UINT16 \in Nat
      /\ num \in 0 .. UINT16 - 1 /\ interruptTriggered \in {0, 1}
      /\ steps \in Nat /\ total \in Nat
  BY DEF Avr!AvrAssumption, AvrIInv, Avr!TypeOK
<1>2. /\ factor \in 0 .. UINT16 - 1
      /\ factor = IF num + 1 = UINT16 THEN 0 ELSE num + 1
  BY <1>1
<1>3. /\ per' = per /\ steps' = steps /\ total' = total + 1 /\ avrPc' = avrPc
      /\ initialized' = initialized /\ total < MaxInterrupts
      /\ interruptTriggered' = IF due THEN 1 ELSE interruptTriggered
      /\ num' = IF due THEN 0 ELSE factor
      /\ late' = (late \/ (interruptTriggered = 1 /\ factor >= per))
  BY DEF Avr!ISR
<1>4. /\ late \in BOOLEAN /\ initialized \in BOOLEAN /\ avrPc \in {"compute", "wait", "clear", "exit"}
      /\ total \in 0 .. MaxInterrupts /\ steps \in 0 .. total /\ MaxInterrupts \in Nat
      /\ per \in Cycles
  BY DEF Avr!AvrAssumption, AvrIInv, Avr!TypeOK
<1>5. /\ per * (steps + interruptTriggered) + num <= total
      /\ ~late => /\ per * (steps + interruptTriggered) + num = total
                  /\ num < per
  BY DEF AvrIInv, Avr!StepsOnTime
<1>6. avrPc = "clear" => interruptTriggered = 1
  BY DEF AvrIInv
<1> HIDE DEF factor
<1>7. per * (steps + 1) = per * steps + per /\ per * steps \in Nat
  BY <1>1, Product
<1>8. Avr!TypeOK'
  <2>1. per' \in Cycles /\ num' \in 0 .. UINT16 - 1 /\ interruptTriggered' \in {0, 1}
    BY <1>1, <1>2, <1>3, <1>4
  <2>2. total' \in 0 .. MaxInterrupts /\ steps' \in 0 .. total'
    BY <1>1, <1>3, <1>4
  <2>3. late' \in BOOLEAN
    BY <1>3, <1>4
  <2>4. QED
    BY <1>3, <1>4, <2>1, <2>2, <2>3 DEF Avr!TypeOK
<1>9. ASSUME ~late' PROVE num' < per'
  <2>1. interruptTriggered = 1 => ~(factor >= per)
    BY <1>3, <1>9
  <2>2. num' = IF due THEN 0 ELSE factor
    BY <1>3
  <2>3. due \/ ~(factor >= per)
    BY <2>1
  <2>4. factor \in Nat /\ per \in Nat /\ per > 0
    BY <1>1, <1>2
  <2>5. QED
    BY <1>3, <2>2, <2>3, <2>4
<1>10. avrPc' = "clear" => interruptTriggered' = 1
  BY <1>3, <1>6
<1>11. /\ per' * (steps' + interruptTriggered') + num' <= total'
       /\ ~late' => per' * (steps' + interruptTriggered') + num' = total'
  <2>1. CASE due
    <3>1. interruptTriggered = 0
      BY <1>1, <2>1
    <3>2. per * (steps + 0) = per * steps
      BY <1>1
    <3>3. per * (steps + 1) + 0 = per * steps + per
      BY <1>1, <1>7
    <3>4. per' * (steps' + interruptTriggered') + num' = per * steps + per
      BY <1>3, <2>1, <3>3
    <3>5. per * steps + num <= total /\ (~late => per * steps + num = total /\ num < per)
      BY <1>5, <3>1, <3>2
    <3>6. factor >= per /\ num + 1 >= per
      BY <1>1, <1>2, <2>1
    <3>7. late' = late
      BY <1>3, <1>4, <3>1
    <3>8. QED
      BY <1>1, <1>3, <1>7, <3>4, <3>5, <3>6, <3>7
  <2>2. CASE ~due
    <3> DEFINE c == per * (steps + interruptTriggered)
    <3>1. c \in Nat /\ c' = c /\ num' = factor
      BY <1>1, <1>3, <2>2, Product
    <3> HIDE DEF c
    <3>2. c + num <= total /\ (~late => c + num = total /\ num < per)
      BY <1>5 DEF c
    <3>3. ~late' => ~late
      BY <1>3
    <3>4. c' + num' <= total' /\ (~late' => c' + num' = total')
      BY <1>1, <1>2, <1>3, <3>1, <3>2, <3>3
    <3>5. QED
      BY <3>4 DEF c
  <2>3. QED
    BY <2>1, <2>2
<1>12. QED
  BY <1>8, <1>9, <1>10, <1>11 DEF AvrIInv, Avr!StepsOnTime

\* Every step keeps the invariant.
LEMMA AvrIInvStep == ASSUME Avr!AvrAssumption, AvrIInv, [Avr!Next]_Avr!vars PROVE AvrIInv'
<1>1. CASE Avr!Wait
  BY <1>1 DEF Avr!Wait, Avr!counters, AvrIInv, Avr!TypeOK, Avr!StepsOnTime
<1>2. CASE Avr!LoopEnds
  BY <1>2 DEF Avr!LoopEnds, Avr!counters, AvrIInv, Avr!TypeOK, Avr!StepsOnTime
<1>3. CASE Avr!Clear
  <2>1. interruptTriggered = 1 /\ steps \in Nat /\ total \in Nat
        /\ steps < total /\ numInterruptTriggeredPerCycle \in Nat
    BY <1>3 DEF Avr!Clear, AvrIInv, Avr!TypeOK, Avr!StepsOnTime, Avr!AvrAssumption
  <2>2. QED
    BY <1>3, <2>1 DEF Avr!Clear, AvrIInv, Avr!TypeOK, Avr!StepsOnTime
<1>4. CASE UNCHANGED Avr!vars
  BY <1>4 DEF Avr!vars, Avr!counters, AvrIInv, Avr!TypeOK, Avr!StepsOnTime
<1>5. QED
  BY <1>1, <1>2, <1>3, <1>4, AvrInterruptStep DEF Avr!Next, Avr!Ended

\* A step of the drivers is one of this driver, or leaves it alone.
LEMMA AvrSteps == ASSUME [DevicesNext]_DeviceVars PROVE [Avr!Next]_Avr!vars
  BY DEF DevicesNext, OthersRest, DeviceVars, AvrVars, Avr!vars, Avr!counters

\* In every state of the drivers its invariant holds.
LEMMA AvrInvariance == DevicesSpec => []AvrIInv
<1>1. DevicesInit => AvrIInv
  BY InitAvrIInv, DevicesAssumption DEF DevicesAssumption, DevicesInit
<1>2. AvrIInv /\ [DevicesNext]_DeviceVars => AvrIInv'
  <2> SUFFICES ASSUME AvrIInv, [DevicesNext]_DeviceVars PROVE AvrIInv'
    OBVIOUS
  <2>1. [Avr!Next]_Avr!vars
    BY AvrSteps
  <2>2. QED
    BY <2>1, AvrIInvStep, DevicesAssumption DEF DevicesAssumption
<1>3. QED
  BY <1>1, <1>2, PTL DEF DevicesSpec

----------------------------------------------------------------------------
(* An STM32F4 (Stm32) *)

\* The cardinality of this instance is the one of the library's facts.
LEMMA StmCardinality == \A S : Stm!Cardinality(S) = Cardinality(S)
  BY DEF Stm!Cardinality, Cardinality

\* The edges that an interrupt can be asked for
Edges == {"rising", "falling", "both"}

\* The kinds of blocks
StmKinds == {"led", "output", "input"} \cup Edges

\* A block of an interrupt has one of the modes as its kind.
LEMMA ExtiEdges ==
  /\ \A mode \in 1 .. 3 : Stm!ExtiModes[mode] \in Edges
  /\ \A b : Stm!IsExti(b) <=> b.kind \in Edges
<1>1. Stm!ExtiModes[1] = "rising" /\ Stm!ExtiModes[2] = "falling" /\ Stm!ExtiModes[3] = "both"
  BY DEF Stm!ExtiModes
<1>2. \A mode \in 1 .. 3 : mode = 1 \/ mode = 2 \/ mode = 3
  OBVIOUS
<1>3. 1 \in 1 .. 3 /\ 2 \in 1 .. 3 /\ 3 \in 1 .. 3
  OBVIOUS
<1>4. \A mode \in 1 .. 3 : Stm!ExtiModes[mode] \in Edges
  BY <1>1, <1>2 DEF Edges
<1>5. ASSUME NEW b PROVE Stm!IsExti(b) <=> b.kind \in Edges
  BY <1>1, <1>2, <1>3 DEF Edges, Stm!IsExti
<1>6. QED
  BY <1>4, <1>5

\* The step the block's tick is for
StepOfTick == IF stmPc = "wait" THEN stmSteps + 1 ELSE stmSteps

\* What a block is for: a pin, or an LED
StmPlace(b) == <<b.kind = "led", b.port, b.pin>>

\* The tick of the block is that of its step until it wraps, and a wait ends with the tick
\* behind it or did so when it was called.
TicksCounted ==
  /\ StepOfTick * period < UINT32 => tick = StepOfTick * period
  /\ stmPc = "wait" /\ uwTick < UINT32 /\ StepOfTick * period < UINT32 =>
       called <= uwTick /\ (uwTick = called \/ uwTick <= tick + 1)
  /\ stmPc = "wait" => stmSteps < MaxSteps
  /\ stmPc = "init" => stmSteps = 0

\* What a block is set up with
StmRecords == [kind : StmKinds, port : Ports \cup {0}, pin : Pins \cup Leds, value : BOOLEAN]

\* Blocks are for different pins and LEDs.
StmBlocksApart ==
  /\ IsFiniteSet(stmBlocks)
  /\ \A b \in stmBlocks :
       /\ b \in StmRecords
       /\ IF b.kind = "led" THEN b.port = 0 /\ b.pin \in Leds ELSE b.port \in Ports /\ b.pin \in Pins
  /\ \A b, c \in stmBlocks : StmPlace(b) = StmPlace(c) => b = c

StmIInv == Stm!TypeOK /\ TicksCounted /\ StmBlocksApart /\ Stm!StepsOnTime /\ Stm!PinsStand

\* The types that arithmetic needs
LEMMA StmTypes ==
  ASSUME Stm!StmAssumption, Stm!TypeOK
  PROVE  /\ period \in Nat /\ uwTick \in Nat /\ tick \in 0 .. UINT32 - 1 /\ stmSteps \in Nat
         /\ called \in Nat /\ ended \in Nat /\ uwTick <= MaxTicks /\ stmSteps <= MaxSteps
         /\ UINT32 \in Nat \ {0} /\ MaxTicks \in Nat /\ MaxSteps \in Nat /\ MaxBlocks \in Nat
         /\ called <= MaxTicks /\ ended <= MaxTicks
BY DEF Stm!StmAssumption, Stm!TypeOK

\* One step more is one period more.
LEMMA Multiple == ASSUME NEW k \in Nat, NEW p \in Nat
                  PROVE  k * p \in Nat /\ (k + 1) * p = k * p + p /\ 0 * p = 0
OBVIOUS

\* The invariant holds in the initial states.
LEMMA InitStmIInv == ASSUME Stm!StmAssumption, Stm!Init PROVE StmIInv
<1>1. period \in Nat /\ UINT32 \in Nat \ {0} /\ MaxTicks \in Nat /\ MaxSteps \in Nat /\ MaxBlocks \in Nat
  BY DEF Stm!StmAssumption, Stm!Init
<1>2. IsFiniteSet(stmBlocks) /\ Stm!Cardinality(stmBlocks) = 0 /\ stmBlocks = {}
  BY FS_EmptySet, StmCardinality DEF Stm!Init
<1>3. Stm!TypeOK
  <2>1. uwTick \in 0 .. MaxTicks /\ tick \in 0 .. UINT32 - 1 /\ stmSteps \in 0 .. MaxSteps
        /\ called \in 0 .. MaxTicks /\ ended \in 0 .. MaxTicks /\ Stm!Cardinality(stmBlocks) <= MaxBlocks
    BY <1>1, <1>2 DEF Stm!Init
  <2>2. rcc \in [source : {"none", "HSI", "HSE"}, pll : BOOLEAN]
        /\ pins \in [Ports \X Pins -> [mode : Stm!Modes, output : BOOLEAN]]
    BY DEF Stm!Init, Stm!Modes
  <2>3. line \in [Pins -> Ports \cup {0}] /\ enabled \subseteq Pins
        /\ leds \in [Leds -> BOOLEAN] /\ period \in Periods
    BY DEF Stm!Init
  <2>4. stmPc \in {"init", "run", "wait", "exit"}
    BY DEF Stm!Init
  <2>5. QED
    BY <2>1, <2>2, <2>3, <2>4 DEF Stm!TypeOK
<1>4. TicksCounted
  BY <1>1, Multiple DEF Stm!Init, TicksCounted, StepOfTick
<1>5. QED
  BY <1>2, <1>3, <1>4 DEF Stm!Init, StmIInv, StmBlocksApart, Stm!StepsOnTime, Stm!PinsStand

\* What the time of the steps depends on
LEMMA StmTimeStep ==
  ASSUME Stm!StmAssumption, StmIInv, Stm!SysTick \/ Stm!Call \/ Stm!WaitOver
  PROVE  TicksCounted' /\ Stm!StepsOnTime'
<1>1. /\ period \in Nat /\ uwTick \in Nat /\ tick \in 0 .. UINT32 - 1 /\ stmSteps \in Nat
      /\ called \in Nat /\ ended \in Nat /\ UINT32 \in Nat \ {0} /\ MaxSteps \in Nat
  BY StmTypes DEF StmIInv
<1>2. /\ StepOfTick * period < UINT32 => tick = StepOfTick * period
      /\ stmPc = "wait" /\ uwTick < UINT32 /\ StepOfTick * period < UINT32 =>
           called <= uwTick /\ (uwTick = called \/ uwTick <= tick + 1)
      /\ stmPc = "wait" => stmSteps < MaxSteps
      /\ stmPc = "init" => stmSteps = 0
  BY DEF StmIInv, TicksCounted
<1>3. StepOfTick \in Nat /\ StepOfTick * period \in Nat
  BY <1>1, Multiple DEF StepOfTick
<1> DEFINE due == stmSteps * period + 1
<1>4. stmPc = "run" /\ stmSteps > 0 /\ uwTick < UINT32 /\ stmSteps * period < UINT32 =>
        ended = IF called > due THEN called ELSE due
  BY DEF StmIInv, Stm!StepsOnTime
<1>5. CASE Stm!SysTick
  <2>1. /\ stmPc = "wait" => uwTick % UINT32 <= tick
        /\ uwTick' = uwTick + 1
        /\ UNCHANGED <<stmPc, period, tick, stmSteps, called, ended>>
    BY <1>5 DEF Stm!SysTick
  <2>2. StepOfTick' = StepOfTick
    BY <2>1 DEF StepOfTick
  <2>3. uwTick < UINT32 => uwTick % UINT32 = uwTick
    BY <1>1
  <2>4. stmPc' = "wait" /\ uwTick' < UINT32 /\ StepOfTick' * period' < UINT32 =>
             called' <= uwTick' /\ (uwTick' = called' \/ uwTick' <= tick' + 1)
    <3> HIDE DEF due
    <3>1. uwTick' < UINT32 => uwTick < UINT32
      BY <1>1, <2>1
    <3>2. QED
      BY <1>1, <1>2, <2>1, <2>2, <2>3, <3>1
  <2>5. TicksCounted'
    BY <1>2, <2>1, <2>2, <2>4 DEF TicksCounted
  <2>6. Stm!StepsOnTime'
    <3>1. uwTick' < UINT32 => uwTick < UINT32
      BY <1>1, <2>1
    <3>2. QED
      BY <1>4, <2>1, <3>1 DEF Stm!StepsOnTime
  <2>7. QED
    BY <2>5, <2>6
<1>6. CASE Stm!Call
  <2>1. /\ stmPc = "run" /\ stmPc' = "wait" /\ stmSteps < MaxSteps
        /\ tick' = (tick + period) % UINT32
        /\ called' = uwTick
        /\ UNCHANGED <<period, uwTick, stmSteps, ended>>
    BY <1>6 DEF Stm!Call
  <2>2. StepOfTick = stmSteps /\ StepOfTick' = stmSteps + 1
    BY <2>1 DEF StepOfTick
  <2>3. (stmSteps + 1) * period = stmSteps * period + period /\ stmSteps * period \in Nat
    BY <1>1, Multiple
  <2>4. StepOfTick' * period' < UINT32 => tick' = StepOfTick' * period'
    <3>1. SUFFICES ASSUME (stmSteps + 1) * period < UINT32 PROVE tick' = (stmSteps + 1) * period
      BY <2>1, <2>2
    <3>2. tick = stmSteps * period
      BY <1>1, <1>2, <2>2, <2>3, <3>1
    <3>3. tick + period = (stmSteps + 1) * period
      BY <2>3, <3>2
    <3>4. tick + period \in 0 .. UINT32 - 1
      BY <1>1, <2>3, <3>1, <3>2
    <3>5. (tick + period) % UINT32 = tick + period
      BY <1>1, <3>4
    <3>6. QED
      BY <2>1, <3>3, <3>5
  <2>5. TicksCounted'
    BY <1>1, <2>1, <2>4 DEF TicksCounted
  <2>6. QED
    BY <2>1, <2>5 DEF Stm!StepsOnTime
<1>7. CASE Stm!WaitOver
  <2>1. /\ stmPc = "wait" /\ stmPc' = "run" /\ uwTick % UINT32 > tick
        /\ stmSteps' = stmSteps + 1 /\ ended' = uwTick
        /\ UNCHANGED <<period, uwTick, tick, called>>
    BY <1>7 DEF Stm!WaitOver
  <2>2. StepOfTick = stmSteps + 1 /\ StepOfTick' = stmSteps + 1
    BY <2>1 DEF StepOfTick
  <2>3. TicksCounted'
    BY <1>2, <2>1, <2>2 DEF TicksCounted
  <2>4. SUFFICES ASSUME uwTick < UINT32, (stmSteps + 1) * period < UINT32
                 PROVE  ended' = IF called > (stmSteps + 1) * period + 1 THEN called
                                 ELSE (stmSteps + 1) * period + 1
    BY <2>1, <2>3 DEF Stm!StepsOnTime
  <2>5. uwTick % UINT32 = uwTick
    BY <1>1, <2>4
  <2>6. tick = (stmSteps + 1) * period /\ called <= uwTick /\ (uwTick = called \/ uwTick <= tick + 1)
    BY <1>2, <2>1, <2>2, <2>4
  <2>7. tick < uwTick
    BY <1>1, <2>1, <2>5
  <2>8. ended' = IF called > tick + 1 THEN called ELSE tick + 1
    BY <1>1, <2>1, <2>6, <2>7
  <2>9. QED
    BY <2>6, <2>8
<1>8. QED
  BY <1>5, <1>6, <1>7

\* A step that is not about time leaves the steps as they are, unless it begins the first.
LEMMA StmTimeStands ==
  ASSUME Stm!StmAssumption, StmIInv, UNCHANGED Stm!time, stmPc' = stmPc \/ (stmPc = "init" /\ stmPc' \in {"run", "exit"})
  PROVE  TicksCounted' /\ Stm!StepsOnTime'
<1>1. UNCHANGED <<period, uwTick, tick, stmSteps, called, ended>>
  BY DEF Stm!time
<1>2. CASE stmPc' = stmPc
  <2>1. StepOfTick' = StepOfTick
    BY <1>1, <1>2 DEF StepOfTick
  <2>2. QED
    BY <1>1, <1>2, <2>1 DEF StmIInv, TicksCounted, Stm!StepsOnTime
<1>3. CASE stmPc = "init" /\ stmPc' \in {"run", "exit"}
  <2>1. StepOfTick' = StepOfTick /\ stmSteps = 0
    BY <1>1, <1>3 DEF StepOfTick, StmIInv, TicksCounted
  <2>2. QED
    BY <1>1, <1>3, <2>1 DEF StmIInv, TicksCounted, Stm!StepsOnTime
<1>4. QED
  BY <1>2, <1>3

\* What the pins, lines and LEDs are to the blocks, and their types
GpioOK ==
  /\ pins \in [Ports \X Pins -> [mode : Stm!Modes, output : BOOLEAN]]
  /\ line \in [Pins -> Ports \cup {0}] /\ enabled \subseteq Pins
  /\ leds \in [Leds -> BOOLEAN]
  /\ Stm!Cardinality(stmBlocks) <= MaxBlocks
  /\ StmBlocksApart /\ Stm!PinsStand

\* What leaves the pins alone keeps what is known of them.
LEMMA GpioStands == ASSUME StmIInv, UNCHANGED Stm!gpio PROVE GpioOK'
BY DEF StmIInv, Stm!TypeOK, Stm!gpio, GpioOK, StmBlocksApart, StmPlace, Stm!PinsStand, Stm!Stands,
       Stm!IsExti

\* What it says that a block of an interrupt stands
LEMMA ExtiStands ==
  ASSUME NEW b, b.kind \in Edges
  PROVE  /\ Stm!Stands(b) <=>
              /\ b.kind = "falling" => pins[<<b.port, b.pin>>].mode = "falling"
              /\ b.pin \in enabled
              /\ line[b.pin] = b.port
                   \/ \E c \in stmBlocks : c.kind \in Edges /\ c.pin = b.pin /\ c.port # b.port
         /\ Stm!Stands(b)' <=>
              /\ b.kind = "falling" => pins'[<<b.port, b.pin>>].mode = "falling"
              /\ b.pin \in enabled'
              /\ line'[b.pin] = b.port
                   \/ \E c \in stmBlocks' : c.kind \in Edges /\ c.pin = b.pin /\ c.port # b.port
<1>1. b.kind # "led"
  BY DEF Edges
<1>2. \A c : Stm!IsExti(c) <=> c.kind \in Edges
  BY ExtiEdges
<1>3. QED
  BY <1>1, <1>2 DEF Stm!Stands

\* What it says that the block of an LED stands
LEMMA LedStands ==
  ASSUME NEW b, b.kind = "led"
  PROVE  /\ Stm!Stands(b) <=> leds[b.pin] = b.value
         /\ Stm!Stands(b)' <=> leds'[b.pin] = b.value
<1>1. ~Stm!IsExti(b)
  BY ExtiEdges DEF Edges
<1>2. QED
  BY <1>1 DEF Stm!Stands

\* A block stands as long as nothing of its own is changed.
LEMMA OtherPinsStand ==
  ASSUME StmIInv, NEW b \in stmBlocks,
         b.kind = "led" => leds'[b.pin] = leds[b.pin],
         b.kind # "led" => pins'[<<b.port, b.pin>>] = pins[<<b.port, b.pin>>],
         enabled \subseteq enabled',
         b.kind \in Edges =>
           \/ line'[b.pin] = line[b.pin]
           \/ \E c \in stmBlocks' : c.kind \in Edges /\ c.pin = b.pin /\ c.port # b.port,
         {c \in stmBlocks : c.kind \in Edges} \subseteq stmBlocks'
  PROVE  Stm!Stands(b)'
<1>1. Stm!Stands(b)
  BY DEF StmIInv, Stm!PinsStand
<1>2. CASE b.kind = "led"
  BY <1>1, <1>2, LedStands
<1>3. CASE b.kind \in Edges
  <2>1. b.kind # "led"
    BY <1>3 DEF Edges
  <2>2. (\E c \in stmBlocks : c.kind \in Edges /\ c.pin = b.pin /\ c.port # b.port) =>
          \E c \in stmBlocks' : c.kind \in Edges /\ c.pin = b.pin /\ c.port # b.port
    OBVIOUS
  <2>3. QED
    BY <1>1, <1>3, <2>1, <2>2, ExtiStands
<1>4. CASE b.kind # "led" /\ b.kind \notin Edges
  BY <1>1, <1>4, ExtiEdges DEF Stm!Stands
<1>5. QED
  BY <1>2, <1>3, <1>4

StmOutputs == [mode : Stm!Modes, output : BOOLEAN]

\* A block that is set up is apart from the others.
LEMMA SetUpBlocks ==
  ASSUME Stm!StmAssumption, StmIInv, NEW kind \in StmKinds, NEW port, NEW pin, Stm!SetUp(kind, port, pin),
         IF kind = "led" THEN port = 0 /\ pin \in Leds ELSE port \in Ports /\ pin \in Pins
  PROVE  LET new == [kind |-> kind, port |-> port, pin |-> pin, value |-> FALSE]
         IN  /\ stmBlocks' = stmBlocks \cup {new}
             /\ \A b \in stmBlocks : StmPlace(b) # StmPlace(new)
             /\ Stm!Cardinality(stmBlocks') <= MaxBlocks
             /\ StmBlocksApart'
<1> DEFINE new == [kind |-> kind, port |-> port, pin |-> pin, value |-> FALSE]
<1>1. /\ stmSteps = 0 /\ Stm!Cardinality(stmBlocks) < MaxBlocks
      /\ \A b \in stmBlocks : (b.kind = "led") = (kind = "led") => <<b.port, b.pin>> # <<port, pin>>
      /\ stmBlocks' = stmBlocks \cup {new}
  BY DEF Stm!SetUp
<1>2. IsFiniteSet(stmBlocks) /\ MaxBlocks \in Nat /\ Stm!Cardinality(stmBlocks) \in Nat
  BY FS_CardinalityType, StmCardinality DEF StmIInv, StmBlocksApart, Stm!StmAssumption
<1>3. new \in StmRecords
  BY DEF StmRecords
<1>4. new.kind = kind /\ new.port = port /\ new.pin = pin
  OBVIOUS
<1> HIDE DEF new
<1>5. \A b \in stmBlocks : StmPlace(b) # StmPlace(new)
  BY <1>1, <1>4 DEF StmPlace
<1>6. IsFiniteSet(stmBlocks') /\ Stm!Cardinality(stmBlocks') <= MaxBlocks
  <2>1. /\ IsFiniteSet(stmBlocks \cup {new})
        /\ Stm!Cardinality(stmBlocks \cup {new}) = IF new \in stmBlocks THEN Stm!Cardinality(stmBlocks)
                                               ELSE Stm!Cardinality(stmBlocks) + 1
    BY <1>2, FS_AddElement, StmCardinality
  <2>2. QED
    BY <1>1, <1>2, <2>1
<1>7. \A b \in stmBlocks' :
        /\ b \in StmRecords
        /\ IF b.kind = "led" THEN b.port = 0 /\ b.pin \in Leds ELSE b.port \in Ports /\ b.pin \in Pins
  <2>1. IF new.kind = "led" THEN new.port = 0 /\ new.pin \in Leds ELSE new.port \in Ports /\ new.pin \in Pins
    BY <1>4
  <2>2. QED
    BY <1>1, <1>3, <2>1 DEF StmIInv, StmBlocksApart
<1>8. \A b, c \in stmBlocks' : StmPlace(b) = StmPlace(c) => b = c
  BY <1>1, <1>5 DEF StmIInv, StmBlocksApart
<1>9. StmBlocksApart'
  BY <1>6, <1>7, <1>8 DEF StmBlocksApart, StmPlace
<1>10. QED
  BY <1>1, <1>5, <1>6, <1>9 DEF new

\* A digital pin is set up.
LEMMA DigitalInitStep ==
  ASSUME Stm!StmAssumption, StmIInv, NEW port \in Ports, NEW pin \in Pins, NEW isOutput \in BOOLEAN,
         Stm!DigitalInit(port, pin, isOutput)
  PROVE  GpioOK'
<1> DEFINE kind == IF isOutput THEN "output" ELSE "input"
           new == [kind |-> kind, port |-> port, pin |-> pin, value |-> FALSE]
           at == <<port, pin>>
           pinNow == [mode |-> kind, output |-> IF isOutput THEN FALSE ELSE pins[at].output]
<1>1. Stm!SetUp(kind, port, pin) /\ pins' = [pins EXCEPT ![at] = pinNow] /\ UNCHANGED <<line, enabled, leds>>
  BY DEF Stm!DigitalInit
<1>2. kind \in StmKinds /\ kind # "led" /\ kind \notin Edges /\ kind \in Stm!Modes
  BY DEF StmKinds, Edges, Stm!Modes
<1>3. /\ pins \in [Ports \X Pins -> StmOutputs]
      /\ line \in [Pins -> Ports \cup {0}] /\ enabled \subseteq Pins /\ leds \in [Leds -> BOOLEAN]
  BY DEF StmIInv, Stm!TypeOK, StmOutputs
<1>4. at \in Ports \X Pins /\ pins[at] \in StmOutputs
  BY <1>3
<1>5. /\ pinNow \in StmOutputs /\ pinNow.mode = kind /\ (kind = "output" => pinNow.output = FALSE)
  BY <1>2, <1>4 DEF StmOutputs
<1> HIDE DEF kind, pinNow
<1>6. /\ stmBlocks' = stmBlocks \cup {new} /\ \A b \in stmBlocks : StmPlace(b) # StmPlace(new)
      /\ Stm!Cardinality(stmBlocks') <= MaxBlocks /\ StmBlocksApart'
  BY <1>1, <1>2, SetUpBlocks
<1>7. new.kind = kind /\ new.port = port /\ new.pin = pin /\ new.value = FALSE
  OBVIOUS
<1> HIDE DEF new
<1>8. pins' \in [Ports \X Pins -> StmOutputs] /\ pins'[at] = pinNow
      /\ \A p \in Ports \X Pins : p # at => pins'[p] = pins[p]
  BY <1>1, <1>3, <1>4, <1>5
<1>9. Stm!PinsStand'
  <2>1. ASSUME NEW b \in stmBlocks PROVE Stm!Stands(b)'
    <3>1. b.kind # "led" => <<b.port, b.pin>> \in Ports \X Pins /\ <<b.port, b.pin>> # at
      <4>1. b.kind # "led" => b.port \in Ports /\ b.pin \in Pins
        BY DEF StmIInv, StmBlocksApart
      <4>2. StmPlace(b) # StmPlace(new)
        BY <1>6
      <4>3. QED
        BY <1>2, <1>7, <4>1, <4>2 DEF StmPlace
    <3>2. b.kind # "led" => pins'[<<b.port, b.pin>>] = pins[<<b.port, b.pin>>]
      BY <1>8, <3>1
    <3>3. QED
      BY <1>1, <1>6, <3>2, OtherPinsStand
  <2>2. Stm!Stands(new)'
    BY <1>2, <1>5, <1>7, <1>8, ExtiEdges DEF Stm!Stands
  <2>3. QED
    BY <1>6, <2>1, <2>2 DEF Stm!PinsStand
<1>10. QED
  BY <1>1, <1>3, <1>6, <1>8, <1>9 DEF GpioOK, StmOutputs

\* An interrupt pin is set up.
LEMMA ExtiInitStep ==
  ASSUME Stm!StmAssumption, StmIInv, NEW port \in Ports, NEW pin \in Pins, NEW mode \in 1 .. 3,
         Stm!ExtiInit(port, pin, mode)
  PROVE  GpioOK'
<1> DEFINE kind == Stm!ExtiModes[mode]
           new == [kind |-> kind, port |-> port, pin |-> pin, value |-> FALSE]
           at == <<port, pin>>
<1>1. /\ Stm!SetUp(kind, port, pin) /\ pins' = [pins EXCEPT ![at].mode = "falling"]
      /\ line' = [line EXCEPT ![pin] = port] /\ enabled' = enabled \cup {pin} /\ UNCHANGED leds
  BY DEF Stm!ExtiInit, Stm!GpioInit
<1>2. /\ pins \in [Ports \X Pins -> StmOutputs]
      /\ line \in [Pins -> Ports \cup {0}] /\ enabled \subseteq Pins /\ leds \in [Leds -> BOOLEAN]
  BY DEF StmIInv, Stm!TypeOK, StmOutputs
<1>3. kind \in Edges
  BY ExtiEdges
<1> HIDE DEF kind
<1>11. kind \in StmKinds /\ kind # "led" /\ "falling" \in Stm!Modes /\ at \in Ports \X Pins
  BY <1>3 DEF StmKinds, Edges, Stm!Modes
<1>4. /\ stmBlocks' = stmBlocks \cup {new} /\ \A b \in stmBlocks : StmPlace(b) # StmPlace(new)
      /\ Stm!Cardinality(stmBlocks') <= MaxBlocks /\ StmBlocksApart'
  BY <1>1, <1>11, SetUpBlocks
<1>5. new.kind = kind /\ new.port = port /\ new.pin = pin
  OBVIOUS
<1> HIDE DEF new
<1>6. pins' \in [Ports \X Pins -> StmOutputs] /\ pins'[at].mode = "falling"
      /\ \A p \in Ports \X Pins : p # at => pins'[p] = pins[p]
  BY <1>1, <1>2, <1>11 DEF StmOutputs
<1>7. line' \in [Pins -> Ports \cup {0}] /\ line'[pin] = port
      /\ \A number \in Pins : number # pin => line'[number] = line[number]
  BY <1>1, <1>2
<1>8. Stm!PinsStand'
  <2>1. ASSUME NEW b \in stmBlocks PROVE Stm!Stands(b)'
    <3>1. b.kind # "led" => b.port \in Ports /\ b.pin \in Pins
      BY DEF StmIInv, StmBlocksApart
    <3>2. b.kind # "led" => <<b.port, b.pin>> # at
      <4>1. StmPlace(b) # StmPlace(new)
        BY <1>4
      <4>2. QED
        BY <1>5, <1>11, <4>1 DEF StmPlace
    <3>3. b.kind # "led" => pins'[<<b.port, b.pin>>] = pins[<<b.port, b.pin>>]
      BY <1>6, <3>1, <3>2
    <3>4. b.kind \in Edges =>
            \/ line'[b.pin] = line[b.pin]
            \/ \E c \in stmBlocks' : c.kind \in Edges /\ c.pin = b.pin /\ c.port # b.port
      <4>1. SUFFICES ASSUME b.kind \in Edges, b.pin = pin
                     PROVE  new \in stmBlocks' /\ new.kind \in Edges /\ new.pin = b.pin /\ new.port # b.port
        BY <1>7, <3>1 DEF Edges
      <4>2. b.kind # "led"
        BY <4>1 DEF Edges
      <4>3. QED
        BY <1>3, <1>4, <1>5, <3>2, <4>1, <4>2
    <3>5. QED
      BY <1>1, <1>4, <3>3, <3>4, OtherPinsStand
  <2>2. Stm!Stands(new)'
    BY <1>1, <1>3, <1>5, <1>6, <1>7, ExtiStands
  <2>3. QED
    BY <1>4, <2>1, <2>2 DEF Stm!PinsStand
<1>9. enabled' \subseteq Pins
  BY <1>1, <1>2
<1>10. QED
  BY <1>1, <1>2, <1>4, <1>6, <1>7, <1>8, <1>9 DEF GpioOK, StmOutputs

\* An LED is set up.
LEMMA LedInitStep ==
  ASSUME Stm!StmAssumption, StmIInv, NEW led \in Leds, Stm!LedInit(led) PROVE GpioOK'
<1> DEFINE new == [kind |-> "led", port |-> 0, pin |-> led, value |-> FALSE]
<1>1. /\ Stm!SetUp("led", 0, led) /\ leds' = [leds EXCEPT ![led] = FALSE]
      /\ UNCHANGED <<pins, line, enabled>>
  BY DEF Stm!LedInit
<1>2. /\ pins \in [Ports \X Pins -> StmOutputs]
      /\ line \in [Pins -> Ports \cup {0}] /\ enabled \subseteq Pins /\ leds \in [Leds -> BOOLEAN]
  BY DEF StmIInv, Stm!TypeOK, StmOutputs
<1>3. /\ stmBlocks' = stmBlocks \cup {new} /\ \A b \in stmBlocks : StmPlace(b) # StmPlace(new)
      /\ Stm!Cardinality(stmBlocks') <= MaxBlocks /\ StmBlocksApart'
  <2>1. "led" \in StmKinds
    BY DEF StmKinds
  <2>2. QED
    BY <1>1, <2>1, SetUpBlocks
<1>4. new.kind = "led" /\ new.port = 0 /\ new.pin = led /\ new.value = FALSE
  OBVIOUS
<1> HIDE DEF new
<1>5. leds' \in [Leds -> BOOLEAN] /\ leds'[led] = FALSE /\ \A l \in Leds : l # led => leds'[l] = leds[l]
  BY <1>1, <1>2
<1>6. Stm!PinsStand'
  <2>1. ASSUME NEW b \in stmBlocks PROVE Stm!Stands(b)'
    <3>1. b.kind = "led" => b.pin \in Leds /\ b.pin # led
      <4>1. CASE b.kind = "led"
        <5>1. b.pin \in Leds /\ b.port = 0
          BY <4>1 DEF StmIInv, StmBlocksApart
        <5>2. StmPlace(b) # StmPlace(new)
          BY <1>3
        <5>3. QED
          BY <1>4, <4>1, <5>1, <5>2 DEF StmPlace
      <4>2. QED
        BY <4>1
    <3>2. QED
      BY <1>1, <1>3, <1>5, <3>1, OtherPinsStand
  <2>2. Stm!Stands(new)'
    BY <1>4, <1>5, LedStands
  <2>3. QED
    BY <1>3, <2>1, <2>2 DEF Stm!PinsStand
<1>7. QED
  BY <1>1, <1>2, <1>3, <1>5, <1>6 DEF GpioOK, StmOutputs

\* A value that is set changes the value of one block.
LEMMA SetBlocks ==
  ASSUME Stm!StmAssumption, StmIInv, NEW kind, NEW port, NEW pin, NEW value \in BOOLEAN,
         Stm!Set(kind, port, pin, value)
  PROVE  \E b \in stmBlocks, set \in StmRecords :
               /\ b.kind = kind /\ b.port = port /\ b.pin = pin
               /\ stmBlocks' = (stmBlocks \ {b}) \cup {set}
               /\ set.kind = kind /\ set.port = port /\ set.pin = pin /\ set.value = value
               /\ \A c \in stmBlocks \ {b} : StmPlace(c) # StmPlace(set)
               /\ Stm!Cardinality(stmBlocks') <= MaxBlocks /\ StmBlocksApart'
<1>1. PICK b \in stmBlocks : /\ <<b.kind, b.port, b.pin>> = <<kind, port, pin>>
                             /\ stmBlocks' = (stmBlocks \ {b}) \cup {[b EXCEPT !.value = value]}
  BY DEF Stm!Set
<1> DEFINE set == [b EXCEPT !.value = value]
<1>2. b.kind = kind /\ b.port = port /\ b.pin = pin
  BY <1>1
<1>3. b \in StmRecords
      /\ IF b.kind = "led" THEN b.port = 0 /\ b.pin \in Leds ELSE b.port \in Ports /\ b.pin \in Pins
  BY DEF StmIInv, StmBlocksApart
<1>4. /\ set \in StmRecords
      /\ set.kind = b.kind /\ set.port = b.port /\ set.pin = b.pin /\ set.value = value
  BY <1>3 DEF StmRecords
<1>5. stmBlocks' = (stmBlocks \ {b}) \cup {set}
  BY <1>1
<1> HIDE DEF set
<1>6. \A c \in stmBlocks \ {b} : StmPlace(c) # StmPlace(set)
  BY <1>4 DEF StmIInv, StmBlocksApart, StmPlace
<1>7. IsFiniteSet(stmBlocks') /\ Stm!Cardinality(stmBlocks') <= MaxBlocks
  <2>1. IsFiniteSet(stmBlocks) /\ Stm!Cardinality(stmBlocks) <= MaxBlocks /\ MaxBlocks \in Nat
    BY DEF StmIInv, StmBlocksApart, Stm!TypeOK, Stm!StmAssumption
  <2>2. IsFiniteSet(stmBlocks \ {b}) /\ Stm!Cardinality(stmBlocks \ {b}) = Stm!Cardinality(stmBlocks) - 1
    BY <2>1, FS_RemoveElement, StmCardinality
  <2>3. /\ IsFiniteSet((stmBlocks \ {b}) \cup {set})
        /\ Stm!Cardinality((stmBlocks \ {b}) \cup {set}) =
             IF set \in stmBlocks \ {b} THEN Stm!Cardinality(stmBlocks \ {b}) ELSE Stm!Cardinality(stmBlocks \ {b}) + 1
    BY <2>2, FS_AddElement, StmCardinality
  <2>4. Stm!Cardinality(stmBlocks) \in Nat
    BY <2>1, FS_CardinalityType, StmCardinality
  <2>5. QED
    BY <1>5, <2>1, <2>2, <2>3, <2>4
<1>8. \A c \in stmBlocks' :
        /\ c \in StmRecords
        /\ IF c.kind = "led" THEN c.port = 0 /\ c.pin \in Leds ELSE c.port \in Ports /\ c.pin \in Pins
  BY <1>3, <1>4, <1>5 DEF StmIInv, StmBlocksApart
<1>9. \A c, e \in stmBlocks' : StmPlace(c) = StmPlace(e) => c = e
  BY <1>5, <1>6 DEF StmIInv, StmBlocksApart
<1>10. StmBlocksApart'
  BY <1>7, <1>8, <1>9 DEF StmBlocksApart, StmPlace
<1>11. QED
  BY <1>2, <1>4, <1>5, <1>6, <1>7, <1>10

\* A digital pin is written.
LEMMA DigitalWriteStep ==
  ASSUME Stm!StmAssumption, StmIInv, NEW port \in Ports, NEW pin \in Pins, NEW value \in BOOLEAN,
         Stm!DigitalWrite(port, pin, value)
  PROVE  GpioOK'
<1> DEFINE at == <<port, pin>>
<1>1. /\ Stm!Set("output", port, pin, value) /\ pins' = [pins EXCEPT ![at].output = value]
      /\ UNCHANGED leds
  BY DEF Stm!DigitalWrite
<1>2. UNCHANGED <<line, enabled>>
  BY <1>1 DEF Stm!Set
<1>3. /\ pins \in [Ports \X Pins -> StmOutputs]
      /\ line \in [Pins -> Ports \cup {0}] /\ enabled \subseteq Pins /\ leds \in [Leds -> BOOLEAN]
  BY DEF StmIInv, Stm!TypeOK, StmOutputs
<1>4. PICK b \in stmBlocks, set \in StmRecords :
               /\ b.kind = "output" /\ b.port = port /\ b.pin = pin
               /\ stmBlocks' = (stmBlocks \ {b}) \cup {set}
               /\ set.kind = "output" /\ set.port = port /\ set.pin = pin /\ set.value = value
               /\ \A c \in stmBlocks \ {b} : StmPlace(c) # StmPlace(set)
               /\ Stm!Cardinality(stmBlocks') <= MaxBlocks /\ StmBlocksApart'
  BY <1>1, SetBlocks
<1>5. /\ stmBlocks' = (stmBlocks \ {b}) \cup {set}
      /\ set.kind = "output" /\ set.port = port /\ set.pin = pin /\ set.value = value
      /\ \A c \in stmBlocks \ {b} : StmPlace(c) # StmPlace(set)
      /\ Stm!Cardinality(stmBlocks') <= MaxBlocks /\ StmBlocksApart'
  BY <1>4
<1>6. at \in Ports \X Pins /\ pins[at].mode = "output"
  <2>1. ~Stm!IsExti(b) /\ b.kind # "led"
    BY <1>4, ExtiEdges DEF Edges
  <2>2. QED
    BY <1>4, <2>1 DEF StmIInv, Stm!PinsStand, Stm!Stands
<1>7. /\ pins' \in [Ports \X Pins -> StmOutputs] /\ pins'[at].mode = "output" /\ pins'[at].output = value
      /\ \A p \in Ports \X Pins : p # at => pins'[p] = pins[p]
  BY <1>1, <1>3, <1>6 DEF StmOutputs
<1>8. Stm!PinsStand'
  <2>1. ASSUME NEW c \in stmBlocks \ {b} PROVE Stm!Stands(c)'
    <3>1. c.kind # "led" => c.port \in Ports /\ c.pin \in Pins
      BY DEF StmIInv, StmBlocksApart
    <3>2. c.kind # "led" => <<c.port, c.pin>> # at
      <4>1. StmPlace(c) # StmPlace(set)
        BY <1>5
      <4>2. QED
        BY <1>5, <4>1 DEF StmPlace
    <3>3. c.kind # "led" => pins'[<<c.port, c.pin>>] = pins[<<c.port, c.pin>>]
      BY <1>7, <3>1, <3>2
    <3>4. {e \in stmBlocks : e.kind \in Edges} \subseteq stmBlocks'
      BY <1>4, <1>5 DEF Edges
    <3>5. QED
      BY <1>1, <1>2, <3>3, <3>4, OtherPinsStand
  <2>2. Stm!Stands(set)'
    <3>1. ~Stm!IsExti(set)
      BY <1>5, ExtiEdges DEF Edges
    <3>2. QED
      BY <1>5, <1>7, <3>1 DEF Stm!Stands
  <2>3. QED
    BY <1>5, <2>1, <2>2 DEF Stm!PinsStand
<1>9. QED
  BY <1>1, <1>2, <1>3, <1>5, <1>7, <1>8 DEF GpioOK, StmOutputs

\* An LED is switched.
LEMMA LedOutStep ==
  ASSUME Stm!StmAssumption, StmIInv, NEW led \in Leds, NEW value \in BOOLEAN, Stm!LedOut(led, value)
  PROVE  GpioOK'
<1>1. /\ Stm!Set("led", 0, led, value) /\ leds' = [leds EXCEPT ![led] = value] /\ UNCHANGED pins
  BY DEF Stm!LedOut
<1>2. UNCHANGED <<line, enabled>>
  BY <1>1 DEF Stm!Set
<1>3. /\ pins \in [Ports \X Pins -> StmOutputs]
      /\ line \in [Pins -> Ports \cup {0}] /\ enabled \subseteq Pins /\ leds \in [Leds -> BOOLEAN]
  BY DEF StmIInv, Stm!TypeOK, StmOutputs
<1>4. PICK b \in stmBlocks, set \in StmRecords :
               /\ b.kind = "led" /\ b.port = 0 /\ b.pin = led
               /\ stmBlocks' = (stmBlocks \ {b}) \cup {set}
               /\ set.kind = "led" /\ set.port = 0 /\ set.pin = led /\ set.value = value
               /\ \A c \in stmBlocks \ {b} : StmPlace(c) # StmPlace(set)
               /\ Stm!Cardinality(stmBlocks') <= MaxBlocks /\ StmBlocksApart'
  BY <1>1, SetBlocks
<1>5. /\ stmBlocks' = (stmBlocks \ {b}) \cup {set}
      /\ set.kind = "led" /\ set.port = 0 /\ set.pin = led /\ set.value = value
      /\ \A c \in stmBlocks \ {b} : StmPlace(c) # StmPlace(set)
      /\ Stm!Cardinality(stmBlocks') <= MaxBlocks /\ StmBlocksApart'
  BY <1>4
<1>6. leds' \in [Leds -> BOOLEAN] /\ leds'[led] = value /\ \A l \in Leds : l # led => leds'[l] = leds[l]
  BY <1>1, <1>3
<1>7. Stm!PinsStand'
  <2>1. ASSUME NEW c \in stmBlocks \ {b} PROVE Stm!Stands(c)'
    <3>1. c.kind = "led" => c.port = 0 /\ c.pin \in Leds
      BY DEF StmIInv, StmBlocksApart
    <3>2. c.kind = "led" => c.pin # led
      <4>1. StmPlace(c) # StmPlace(set)
        BY <1>5
      <4>2. QED
        BY <1>5, <3>1, <4>1 DEF StmPlace
    <3>3. {e \in stmBlocks : e.kind \in Edges} \subseteq stmBlocks'
      BY <1>4, <1>5 DEF Edges
    <3>4. c.kind = "led" => leds'[c.pin] = leds[c.pin]
      BY <1>6, <3>1, <3>2
    <3>5. QED
      BY <1>1, <1>2, <3>3, <3>4, OtherPinsStand
  <2>2. Stm!Stands(set)'
    BY <1>5, <1>6, LedStands
  <2>3. QED
    BY <1>5, <2>1, <2>2 DEF Stm!PinsStand
<1>8. QED
  BY <1>1, <1>2, <1>3, <1>5, <1>6, <1>7 DEF GpioOK, StmOutputs

\* Every step keeps the invariant.
LEMMA StmIInvStep == ASSUME Stm!StmAssumption, StmIInv, [Stm!Next]_Stm!vars PROVE StmIInv'
<1> DEFINE ClockOK ==
      /\ stmPc \in {"init", "run", "wait", "exit"}
      /\ rcc \in [source : {"none", "HSI", "HSE"}, pll : BOOLEAN]
      /\ period \in Periods /\ uwTick \in 0 .. MaxTicks /\ tick \in 0 .. UINT32 - 1
      /\ stmSteps \in 0 .. MaxSteps /\ {called, ended} \subseteq 0 .. MaxTicks
<1>1. ASSUME GpioOK', TicksCounted', Stm!StepsOnTime', ClockOK' PROVE StmIInv'
  BY <1>1 DEF GpioOK, StmIInv, Stm!TypeOK
<1>2. ClockOK
  BY DEF StmIInv, Stm!TypeOK
<1>3. CASE Stm!SysTick \/ Stm!Call \/ Stm!WaitOver
  <2>1. TicksCounted' /\ Stm!StepsOnTime'
    BY <1>3, StmTimeStep
  <2>2. GpioOK'
    BY <1>3, GpioStands DEF Stm!SysTick, Stm!Call, Stm!WaitOver
  <2>3. ClockOK'
    <3>1. /\ uwTick \in Nat /\ tick \in 0 .. UINT32 - 1 /\ stmSteps \in Nat /\ period \in Nat
          /\ MaxTicks \in Nat /\ MaxSteps \in Nat /\ UINT32 \in Nat \ {0}
      BY StmTypes DEF StmIInv
    <3>2. CASE Stm!SysTick
      <4>1. uwTick' \in 0 .. MaxTicks
        BY <1>2, <3>1, <3>2 DEF Stm!SysTick
      <4>2. QED
        BY <1>2, <3>2, <4>1 DEF Stm!SysTick
    <3>3. CASE Stm!Call
      <4>1. tick' \in 0 .. UINT32 - 1
        BY <3>1, <3>3 DEF Stm!Call
      <4>2. QED
        BY <1>2, <3>3, <4>1 DEF Stm!Call
    <3>4. CASE Stm!WaitOver
      <4>1. stmSteps' \in 0 .. MaxSteps
        BY <3>1, <3>4 DEF Stm!WaitOver, StmIInv, TicksCounted
      <4>2. QED
        BY <1>2, <3>4, <4>1 DEF Stm!WaitOver
    <3>5. QED
      BY <1>3, <3>2, <3>3, <3>4
  <2>4. QED
    BY <1>1, <2>1, <2>2, <2>3
<1>4. CASE Stm!RtInitFails \/ \E rate \in 1 .. 4 : Stm!RtInit(rate)
  <2>1. UNCHANGED <<Stm!gpio, Stm!time>> /\ stmPc = "init" /\ stmPc' \in {"run", "exit"}
        /\ rcc' \in [source : {"none", "HSI", "HSE"}, pll : BOOLEAN]
    <3>1. CASE Stm!RtInitFails
      BY <1>2, <3>1 DEF Stm!RtInitFails
    <3>2. ASSUME NEW rate \in 1 .. 4, Stm!RtInit(rate)
          PROVE  UNCHANGED <<Stm!gpio, Stm!time>> /\ stmPc = "init" /\ stmPc' \in {"run", "exit"}
                 /\ rcc' \in [source : {"none", "HSI", "HSE"}, pll : BOOLEAN]
      BY <3>2 DEF Stm!RtInit
    <3>3. QED
      BY <1>4, <3>1, <3>2
  <2>2. GpioOK' /\ TicksCounted' /\ Stm!StepsOnTime'
    BY <2>1, GpioStands, StmTimeStands
  <2>3. ClockOK'
    BY <1>2, <2>1 DEF Stm!time
  <2>4. QED
    BY <1>1, <2>2, <2>3
<1>5. ASSUME GpioOK', UNCHANGED <<stmPc, rcc, Stm!time>> PROVE StmIInv'
  <2>1. TicksCounted' /\ Stm!StepsOnTime'
    BY <1>5, StmTimeStands
  <2>2. ClockOK'
    BY <1>2, <1>5 DEF Stm!time
  <2>3. QED
    BY <1>1, <1>5, <2>1, <2>2
<1>6. ASSUME NEW port \in Ports, NEW pin \in Pins, NEW b \in BOOLEAN,
             Stm!DigitalInit(port, pin, b) \/ Stm!DigitalWrite(port, pin, b)
      PROVE  StmIInv'
  <2>1. UNCHANGED <<stmPc, rcc, Stm!time>>
    BY <1>6 DEF Stm!DigitalInit, Stm!DigitalWrite, Stm!SetUp, Stm!Set
  <2>2. GpioOK'
    BY <1>6, DigitalInitStep, DigitalWriteStep
  <2>3. QED
    BY <1>5, <2>1, <2>2
<1>7. ASSUME NEW port \in Ports, NEW pin \in Pins, NEW mode \in 1 .. 3, Stm!ExtiInit(port, pin, mode)
      PROVE  StmIInv'
  <2>1. UNCHANGED <<stmPc, rcc, Stm!time>>
    BY <1>7 DEF Stm!ExtiInit, Stm!SetUp
  <2>2. QED
    BY <1>5, <1>7, <2>1, ExtiInitStep
<1>8. ASSUME NEW led \in Leds, NEW b \in BOOLEAN, Stm!LedInit(led) \/ Stm!LedOut(led, b) PROVE StmIInv'
  BY <1>5, <1>8, LedInitStep, LedOutStep DEF Stm!LedInit, Stm!LedOut, Stm!SetUp, Stm!Set
<1>9. CASE UNCHANGED Stm!vars
  BY <1>5, <1>9, GpioStands DEF Stm!vars
<1>10. QED
  BY <1>3, <1>4, <1>6, <1>7, <1>8, <1>9 DEF Stm!Next, Stm!Stopped

\* A step of the drivers is one of this driver, or leaves it alone.
LEMMA StmSteps == ASSUME [DevicesNext]_DeviceVars PROVE [Stm!Next]_Stm!vars
  BY DEF DevicesNext, OthersRest, DeviceVars, StmVars, Stm!vars, Stm!gpio, Stm!time

\* In every state of the drivers its invariant holds.
LEMMA StmInvariance == DevicesSpec => []StmIInv
<1>1. DevicesInit => StmIInv
  BY InitStmIInv, DevicesAssumption DEF DevicesAssumption, DevicesInit
<1>2. StmIInv /\ [DevicesNext]_DeviceVars => StmIInv'
  <2> SUFFICES ASSUME StmIInv, [DevicesNext]_DeviceVars PROVE StmIInv'
    OBVIOUS
  <2>1. [Stm!Next]_Stm!vars
    BY StmSteps
  <2>2. QED
    BY <2>1, StmIInvStep, DevicesAssumption DEF DevicesAssumption
<1>3. QED
  BY <1>1, <1>2, PTL DEF DevicesSpec

\* However interrupts and ticks fall into a step of a microcontroller, a step that was not
\* late ends at its own interrupt or tick, before the counters wrap (AVR: the ISR and
\* MDD_avr_rt_wait; STM32F4: MDD_stm32f4_rt_wait).
THEOREM StepsEndOnTime == DevicesSpec => []StepsOnTime
<1>1. AvrIInv /\ StmIInv => StepsOnTime
  BY DEF AvrIInv, StmIInv, StepsOnTime
<1>2. QED
  BY <1>1, AvrInvariance, StmInvariance, PTL

----------------------------------------------------------------------------
(* The peripherals of an AVR (AvrPeripherals) *)

\* The cardinality of this instance is the one of the library's facts.
LEMMA PeripheralsCardinality == \A S : Peripherals!Cardinality(S) = Cardinality(S)
  BY DEF Peripherals!Cardinality, Cardinality

\* The kinds of blocks
AvrKinds == {"timer", "pwm", "digital", "analog", "uart"}

\* The registers of the clock and the mode of a timer
TimerRegisters(timer) ==
  CASE timer = 1 -> {"TCCR0", "TCCR0A", "TCCR0B"}
    [] timer = 2 -> {"TCCR1B"}
    [] timer = 3 -> {"TCCR2A", "TCCR2B"}

\* The bits that a block may ask for
OwnBits(kind, at) ==
  CASE kind = "timer" -> TimerRegisters(at) \X (0 .. 15)
    [] kind = "pwm" -> {Peripherals!PwmDirection(at)} \cup Peripherals!Bits("TCCR1A", IF at = 1 THEN {0, 6, 7} ELSE {0, 4, 5})
    [] kind = "digital" -> {<<Peripherals!DDR[q \div 8], q % 8>> : q \in {at - 1}}
    [] kind = "analog" -> Peripherals!Bits("ADMUX", {6, 7}) \cup Peripherals!Bits("ADCSRA", 0 .. 15)
    [] kind = "uart" -> {"UBRR", "UCSRB", "UCSRC"} \X (0 .. 15)

ResourcesOf(kind) ==
  CASE kind = "timer" -> 1 .. 3
    [] kind = "pwm" -> 1 .. 2
    [] kind = "digital" -> 9 .. 40
    [] kind \in {"analog", "uart"} -> {1}

\* The registers that no block asks for but that outputs, conversions and the serial port use
PortRegisters == {Peripherals!PORT[p] : p \in 1 .. 4}

\* The bits that invert a PWM pin
Inversion == {<<"TCCR1A", 6>>, <<"TCCR1A", 4>>}

\* A block asks for bits of its own, for none both ways, and for no bit that others share to be
\* clear.
AsksForOwn ==
  \A b \in avrBlocks :
    /\ b.kind \in AvrKinds /\ b.at \in ResourcesOf(b.kind)
    /\ b.ones \cup b.zeros \subseteq OwnBits(b.kind, b.at)
    /\ b.ones \cap b.zeros = {}
    /\ b.kind = "pwm" => b.zeros \subseteq Inversion /\ Peripherals!PwmDirection(b.at) \in b.ones
    /\ b.kind = "uart" => b.zeros = {}

\* One block has a resource, and a pin is not used by two blocks.
AvrBlocksApart ==
  /\ \A b, c \in avrBlocks : b.kind = c.kind /\ b.at = c.at => b = c
  /\ \A b, c \in avrBlocks : b.kind = "pwm" /\ c.kind = "digital" =>
       Peripherals!PwmDirection(b.at) \notin c.ones \cup c.zeros

\* A bit is 1 as some block asks for it, or as an output, a conversion or the serial port sets
\* it.
BitsAskedFor ==
  \A x \in reg :
    \/ \E b \in avrBlocks : x \in b.ones
    \/ x[1] \in PortRegisters
    \/ x[1] = "ADMUX" /\ x[2] \in 0 .. 3
    \/ x = <<"UCSRC", 7>>

\* The channel in the register is the input that is read and, of the bits taken for a mask,
\* what conversions with 8 bits set or other inputs left.
ChannelKept ==
  /\ reads = {} => \A b \in 0 .. 3 : <<"ADMUX", b>> \notin reg
  /\ reads # {} =>
       /\ adc.channel = {b \in 0 .. 3 : <<"ADMUX", b>> \in reg}
       /\ \E r \in reads : r[1] = adc.port
       /\ \A b \in 0 .. 3 : b \in Peripherals!BitsOf(adc.port - 1) => <<"ADMUX", b>> \in reg
       /\ \A b \in 0 .. 3 : <<"ADMUX", b>> \in reg =>
            \/ b \in Peripherals!BitsOf(adc.port - 1)
            \/ /\ b \in Peripherals!ADLAR
               /\ \E r \in reads : r[2] = 8 \/ b \in Peripherals!BitsOf(r[1] - 1)

\* The bits of blocks, and outputs
BitsStand ==
  /\ \A b \in avrBlocks : b.ones \ Peripherals!NotInverted \subseteq reg /\ b.zeros \cap reg = {}
  /\ \A p \in AvrPorts \X AvrPins : outputs[p] <=> <<Peripherals!PORT[p[1]], p[2] - 1>> \in reg

PeripheralsIInv ==
  /\ Peripherals!TypeOK /\ IsFiniteSet(avrBlocks) /\ AsksForOwn /\ AvrBlocksApart /\ BitsAskedFor /\ ChannelKept
  /\ BitsStand

\* The mask has bits of the channel.
LEMMA MaskBits == Peripherals!ADLAR \subseteq 0 .. 3
  BY DEF Peripherals!ADLAR, Peripherals!BitsOf

\* The conversions are of the input that is read, as far as the mask lets them.
LEMMA ChannelIsSelected == ASSUME ChannelKept PROVE Peripherals!ChannelSelected
<1> DEFINE asked == Peripherals!BitsOf(adc.port - 1)
<1>1. asked \subseteq 0 .. 3
  BY DEF Peripherals!BitsOf
<1> HIDE DEF asked
<1>2. SUFFICES ASSUME reads # {}
      PROVE  /\ adc.channel \ Peripherals!ADLAR = asked \ Peripherals!ADLAR
             /\ (\A r \in reads : /\ r[2] = 16
                                  /\ Peripherals!BitsOf(r[1] - 1) \cap Peripherals!ADLAR \subseteq asked)
                  => adc.channel = asked
  BY DEF Peripherals!ChannelSelected, asked
<1>3. /\ adc.channel \subseteq 0 .. 3
      /\ \A b \in 0 .. 3 : b \in asked => b \in adc.channel
      /\ \A b \in 0 .. 3 : b \in adc.channel =>
           \/ b \in asked
           \/ /\ b \in Peripherals!ADLAR
              /\ \E r \in reads : r[2] = 8 \/ b \in Peripherals!BitsOf(r[1] - 1)
  BY <1>2 DEF ChannelKept, asked
<1>4. adc.channel \ Peripherals!ADLAR = asked \ Peripherals!ADLAR
  BY <1>1, <1>3
<1>5. ASSUME \A r \in reads : r[2] = 16 /\ Peripherals!BitsOf(r[1] - 1) \cap Peripherals!ADLAR \subseteq asked
      PROVE  adc.channel = asked
  <2>1. ASSUME NEW b \in adc.channel PROVE b \in asked
    <3>1. SUFFICES ASSUME b \in Peripherals!ADLAR, NEW r \in reads, r[2] = 8 \/ b \in Peripherals!BitsOf(r[1] - 1)
                   PROVE  b \in asked
      BY <1>3
    <3>2. r[2] # 8
      BY <1>5
    <3>3. QED
      BY <1>5, <3>1, <3>2
  <2>2. QED
    BY <1>1, <1>3, <2>1
<1>6. QED
  BY <1>4, <1>5

\* The registers of a block's bits tell its kind.
LEMMA OwnRegisters ==
  ASSUME NEW k \in AvrKinds, NEW a \in ResourcesOf(k), NEW x, x \in OwnBits(k, a)
  PROVE  /\ k = "timer" => x[1] \in TimerRegisters(a) /\ x[1] \in TimerRegisters(1) \cup TimerRegisters(2) \cup TimerRegisters(3)
         /\ k = "pwm" => x = Peripherals!PwmDirection(a) \/ x[1] = "TCCR1A"
         /\ k = "pwm" /\ x[1] = "TCCR1A" => x \in Peripherals!Bits("TCCR1A", IF a = 1 THEN {0, 6, 7} ELSE {0, 4, 5})
         /\ k = "digital" => x = <<Peripherals!DDR[(a - 1) \div 8], (a - 1) % 8>> /\ x[1] \in {Peripherals!DDR[p] : p \in 1 .. 4}
         /\ k = "analog" => x[1] \in {"ADMUX", "ADCSRA"}
         /\ k = "uart" => x[1] \in {"UBRR", "UCSRB", "UCSRC"}
         /\ x[1] \notin PortRegisters
<1>1. CASE k = "timer"
  <2>1. a \in {1, 2, 3}
    BY <1>1 DEF ResourcesOf
  <2>2. x \in TimerRegisters(a) \X (0 .. 15)
    BY <1>1 DEF OwnBits
  <2>3. QED
    BY <1>1, <2>1, <2>2 DEF TimerRegisters, PortRegisters, Peripherals!PORT
<1>2. CASE k = "pwm"
  <2>1. x = Peripherals!PwmDirection(a) \/ x \in Peripherals!Bits("TCCR1A", IF a = 1 THEN {0, 6, 7} ELSE {0, 4, 5})
    BY <1>2 DEF OwnBits
  <2>2. QED
    BY <1>2, <2>1 DEF Peripherals!Bits, Peripherals!PwmDirection, PortRegisters, Peripherals!PORT
<1>3. CASE k = "digital"
  <2>1. x = <<Peripherals!DDR[(a - 1) \div 8], (a - 1) % 8>>
    BY <1>3 DEF OwnBits
  <2>2. (a - 1) \div 8 \in 1 .. 4
    BY <1>3 DEF ResourcesOf
  <2>3. QED
    BY <1>3, <2>1, <2>2 DEF PortRegisters, Peripherals!PORT, Peripherals!DDR
<1>4. CASE k = "analog"
  BY <1>4 DEF OwnBits, Peripherals!Bits, PortRegisters, Peripherals!PORT
<1>5. CASE k = "uart"
  BY <1>5 DEF OwnBits, PortRegisters, Peripherals!PORT
<1>6. QED
  BY <1>1, <1>2, <1>3, <1>4, <1>5 DEF AvrKinds

\* Two blocks ask for the same bit only if it is the mode that PWM pins share, or their pin.
LEMMA OwnApart ==
  ASSUME NEW k \in AvrKinds, NEW a \in ResourcesOf(k), NEW l \in AvrKinds, NEW c \in ResourcesOf(l),
         k # l \/ a # c, NEW x, x \in OwnBits(k, a), x \in OwnBits(l, c)
  PROVE  \/ k = "pwm" /\ l = "pwm" /\ x = <<"TCCR1A", 0>>
         \/ k = "pwm" /\ l = "digital" /\ x = Peripherals!PwmDirection(a)
         \/ k = "digital" /\ l = "pwm" /\ x = Peripherals!PwmDirection(c)
<1> USE OwnRegisters
<1>1. CASE k = "timer"
  BY <1>1 DEF AvrKinds, ResourcesOf, TimerRegisters, Peripherals!DDR, Peripherals!PwmDirection
<1>2. CASE k = "pwm"
  <2>1. CASE l = "pwm"
    BY <1>2, <2>1 DEF Peripherals!Bits, ResourcesOf, Peripherals!PwmDirection
  <2>2. CASE l # "pwm"
    BY <1>2, <2>2
    DEF AvrKinds, ResourcesOf, TimerRegisters, Peripherals!DDR, Peripherals!PwmDirection
  <2>3. QED
    BY <2>1, <2>2
<1>3. CASE k = "digital"
  <2>1. CASE l = "digital"
    <3>1. /\ Peripherals!DDR[(a - 1) \div 8] = Peripherals!DDR[(c - 1) \div 8] /\ (a - 1) % 8 = (c - 1) % 8
      BY <1>3, <2>1
    <3>2. a \in 9 .. 40 /\ c \in 9 .. 40
      BY <1>3, <2>1 DEF ResourcesOf
    <3>3. (a - 1) \div 8 = (c - 1) \div 8
      BY <3>1, <3>2 DEF Peripherals!DDR
    <3>4. QED
      BY <1>3, <2>1, <3>1, <3>2, <3>3
  <2>2. CASE l # "digital"
    BY <1>3, <2>2
    DEF AvrKinds, ResourcesOf, TimerRegisters, Peripherals!DDR, Peripherals!PwmDirection
  <2>3. QED
    BY <2>1, <2>2
<1>4. CASE k = "analog"
  BY <1>4 DEF AvrKinds, ResourcesOf, TimerRegisters, Peripherals!DDR, Peripherals!PwmDirection
<1>5. CASE k = "uart"
  BY <1>5 DEF AvrKinds, ResourcesOf, TimerRegisters, Peripherals!DDR, Peripherals!PwmDirection
<1>6. QED
  BY <1>1, <1>2, <1>3, <1>4, <1>5 DEF AvrKinds

\* No block asks for a bit of the channel, and the bits of a number up to 3 are 0 and 1.
LEMMA OwnChannel ==
  ASSUME NEW k \in AvrKinds, NEW a \in ResourcesOf(k), NEW b \in 0 .. 3
  PROVE  <<"ADMUX", b>> \notin OwnBits(k, a)
<1> SUFFICES ASSUME <<"ADMUX", b>> \in OwnBits(k, a) PROVE FALSE
  OBVIOUS
<1>1. k = "analog"
  BY OwnRegisters DEF AvrKinds, TimerRegisters, Peripherals!DDR, Peripherals!PwmDirection
<1>2. QED
  BY <1>1 DEF OwnBits, Peripherals!Bits

\* The references are numbers of two bits.
LEMMA BitsOfReference == \A r \in 1 .. 4 : Peripherals!BitsOf(r - 1) \subseteq {0, 1}
<1> SUFFICES ASSUME NEW r \in 1 .. 4, NEW b \in Peripherals!BitsOf(r - 1) PROVE b \in {0, 1}
  OBVIOUS
<1>1. b \in 0 .. 3 /\ ((r - 1) \div 2 ^ b) % 2 = 1
  BY DEF Peripherals!BitsOf
<1>2. b # 2
  <2> SUFFICES ASSUME b = 2 PROVE FALSE
    OBVIOUS
  <2>1. ((r - 1) \div 4) % 2 = 1
    <3>1. ((r - 1) \div 2 ^ 2) % 2 = 1
      BY <1>1
    <3>2. 2 ^ 2 = 4
      OBVIOUS
    <3>3. QED
      BY <3>1, <3>2
  <2>2. QED
    BY <2>1
<1>3. b # 3
  <2> SUFFICES ASSUME b = 3 PROVE FALSE
    OBVIOUS
  <2>1. ((r - 1) \div 8) % 2 = 1
    <3>1. ((r - 1) \div 2 ^ 3) % 2 = 1
      BY <1>1
    <3>2. 2 ^ 3 = 8
      OBVIOUS
    <3>3. QED
      BY <3>1, <3>2
  <2>2. QED
    BY <2>1
<1>4. QED
  BY <1>1, <1>2, <1>3

\* The bits that blocks ask for stand when another block is set up that sets its own bits, and
\* clears no others but its own.
LEMMA AvrSetUpStep ==
  ASSUME Peripherals!PeripheralsAssumption, PeripheralsIInv,
         NEW kind \in AvrKinds, NEW at \in ResourcesOf(kind), NEW ones, NEW zeros,
         ones \cup zeros \subseteq OwnBits(kind, at), ones \cap zeros = {},
         kind = "pwm" => zeros \subseteq Inversion /\ Peripherals!PwmDirection(at) \in ones,
         kind = "digital" => ones \cup zeros = OwnBits(kind, at),
         kind = "uart" => zeros = {},
         Peripherals!SetUp(kind, at, ones, zeros),
         kind = "pwm" => \A b \in avrBlocks : b.kind = "digital" =>
                           Peripherals!PwmDirection(at) \notin b.ones \cup b.zeros,
         kind = "digital" => \A b \in avrBlocks : b.kind = "pwm" =>
                               Peripherals!PwmDirection(b.at) \notin ones \cup zeros,
         ones \ Peripherals!NotInverted \subseteq reg', reg' \subseteq reg \cup ones \cup {<<"UCSRC", 7>>},
         reg \ OwnBits(kind, at) \subseteq reg', kind = "pwm" => reg \subseteq reg',
         ones \subseteq Peripherals!Registers \X (0 .. 15), pwm' \in [1 .. 2 -> 0 .. 255],
         UNCHANGED <<cpu, outputs, reads, adc, halted>>
  PROVE  PeripheralsIInv'
<1>0. /\ Peripherals!TypeOK /\ IsFiniteSet(avrBlocks) /\ AsksForOwn /\ AvrBlocksApart /\ BitsAskedFor /\ ChannelKept
      /\ BitsStand
  BY DEF PeripheralsIInv
<1> DEFINE new == [kind |-> kind, at |-> at, ones |-> ones, zeros |-> zeros]
<1>1. /\ avrBlocks' = avrBlocks \cup {new} /\ Peripherals!Cardinality(avrBlocks) < MaxSetUps
      /\ \A b \in avrBlocks : b.kind # kind \/ b.at # at
  BY DEF Peripherals!SetUp
<1>2. /\ new.kind = kind /\ new.at = at /\ new.ones = ones /\ new.zeros = zeros
  OBVIOUS
<1> HIDE DEF new
<1>3. Peripherals!TypeOK' /\ IsFiniteSet(avrBlocks)'
  <2>1. IsFiniteSet(avrBlocks') /\ Peripherals!Cardinality(avrBlocks') \in Nat /\ Peripherals!Cardinality(avrBlocks) \in Nat
        /\ Peripherals!Cardinality(avrBlocks') <= Peripherals!Cardinality(avrBlocks) + 1
    <3>1. IsFiniteSet(avrBlocks) /\ IsFiniteSet(avrBlocks') /\ Peripherals!Cardinality(avrBlocks) \in Nat
      BY <1>0, <1>1, FS_AddElement, FS_CardinalityType, PeripheralsCardinality
    <3>2. Peripherals!Cardinality(avrBlocks') = IF new \in avrBlocks THEN Peripherals!Cardinality(avrBlocks) ELSE Peripherals!Cardinality(avrBlocks) + 1
      BY <1>1, <3>1, FS_AddElement, PeripheralsCardinality
    <3>3. QED
      BY <3>1, <3>2
  <2>2. Peripherals!Cardinality(avrBlocks') <= MaxSetUps
    BY <1>1, <2>1 DEF Peripherals!PeripheralsAssumption
  <2>3. reg' \subseteq Peripherals!Registers \X (0 .. 15)
    BY <1>0 DEF Peripherals!TypeOK, Peripherals!Registers
  <2>4. QED
    BY <1>0, <2>1, <2>2, <2>3 DEF Peripherals!TypeOK
<1>4. \A k, a : OwnBits(k, a)' = OwnBits(k, a) /\ Peripherals!PwmDirection(a)' = Peripherals!PwmDirection(a)
  BY DEF OwnBits, Peripherals!PwmDirection
<1>5. AsksForOwn'
  BY <1>0, <1>1, <1>2, <1>4 DEF AsksForOwn
<1>6. AvrBlocksApart'
  <2>1. \A b, c \in avrBlocks' : b.kind = c.kind /\ b.at = c.at => b = c
    BY <1>0, <1>1, <1>2 DEF AvrBlocksApart
  <2>2. \A b, c \in avrBlocks' : b.kind = "pwm" /\ c.kind = "digital" =>
          Peripherals!PwmDirection(b.at) \notin c.ones \cup c.zeros
    BY <1>0, <1>1, <1>2 DEF AvrBlocksApart
  <2>3. QED
    BY <1>4, <2>1, <2>2 DEF AvrBlocksApart
<1>7. BitsAskedFor'
  BY <1>0, <1>1, <1>2 DEF BitsAskedFor
<1>8. \A b \in 0 .. 3 : <<"ADMUX", b>> \in reg' <=> <<"ADMUX", b>> \in reg
  BY OwnChannel
<1>9. ChannelKept'
  BY <1>0, <1>8 DEF ChannelKept
<1>10. BitsStand'
  <2>1. ASSUME NEW b \in avrBlocks PROVE b.ones \ Peripherals!NotInverted \subseteq reg'
    <3> SUFFICES ASSUME NEW x \in b.ones \ Peripherals!NotInverted PROVE x \in reg'
      OBVIOUS
    <3>1. x \in reg /\ b.kind \in AvrKinds /\ b.at \in ResourcesOf(b.kind) /\ x \in OwnBits(b.kind, b.at)
      BY <1>0 DEF BitsStand, AsksForOwn
    <3>2. CASE x \in OwnBits(kind, at)
      <4>1. b.kind # kind \/ b.at # at
        BY <1>1
      <4>2. CASE kind = "pwm"
        BY <3>1, <4>2
      <4>3. CASE kind # "pwm"
        <5>1. kind = "digital" /\ b.kind = "pwm" /\ x = Peripherals!PwmDirection(b.at)
          BY <3>1, <3>2, <4>1, <4>3, OwnApart
        <5>2. QED
          BY <3>2, <5>1
      <4>4. QED
        BY <4>2, <4>3
    <3>3. QED
      BY <3>1, <3>2
  <2>2. ASSUME NEW b \in avrBlocks PROVE b.zeros \cap reg' = {}
    <3> SUFFICES ASSUME NEW x \in b.zeros, x \in reg' PROVE FALSE
      OBVIOUS
    <3>1. x \notin reg /\ b.kind \in AvrKinds /\ b.at \in ResourcesOf(b.kind) /\ x \in OwnBits(b.kind, b.at)
      BY <1>0 DEF BitsStand, AsksForOwn
    <3>2. x # <<"UCSRC", 7>>
      <4> SUFFICES ASSUME x = <<"UCSRC", 7>> PROVE FALSE
        OBVIOUS
      <4>1. b.kind = "uart"
        BY <3>1, OwnRegisters
        DEF AvrKinds, TimerRegisters, Peripherals!DDR, Peripherals!PwmDirection
      <4>2. QED
        BY <1>0, <4>1 DEF AsksForOwn
    <3>3. x \in ones /\ x \in OwnBits(kind, at) /\ (b.kind # kind \/ b.at # at)
      BY <1>1, <3>1, <3>2
    <3>4. \/ b.kind = "pwm" /\ x = <<"TCCR1A", 0>>
          \/ b.kind = "pwm" /\ x = Peripherals!PwmDirection(b.at)
          \/ kind = "pwm" /\ b.kind = "digital" /\ x = Peripherals!PwmDirection(at)
      BY <3>1, <3>3, OwnApart
    <3>5. b.kind # "pwm"
      <4>1. b.kind = "pwm" => x \in Inversion
        BY <1>0 DEF AsksForOwn
      <4>2. \A a : Peripherals!PwmDirection(a) \notin Inversion
        BY DEF Peripherals!PwmDirection, Inversion
      <4>3. <<"TCCR1A", 0>> \notin Inversion
        BY DEF Inversion
      <4>4. QED
        BY <3>3, <3>4, <4>1, <4>2, <4>3
    <3>6. QED
      BY <3>4, <3>5
  <2>3. zeros \cap reg' = {}
    <3> SUFFICES ASSUME NEW x \in zeros, x \in reg' PROVE FALSE
      OBVIOUS
    <3>1. x \in OwnBits(kind, at) /\ x \notin ones
      OBVIOUS
    <3>2. x # <<"UCSRC", 7>>
      <4> SUFFICES ASSUME x = <<"UCSRC", 7>> PROVE FALSE
        OBVIOUS
      <4>1. kind = "uart"
        BY <3>1, OwnRegisters
        DEF AvrKinds, TimerRegisters, Peripherals!DDR, Peripherals!PwmDirection
      <4>2. QED
        BY <4>1
    <3>3. x \in reg /\ x[1] \notin PortRegisters /\ ~(x[1] = "ADMUX" /\ x[2] \in 0 .. 3)
      <4>1. x \in reg /\ x[1] \notin PortRegisters
        BY <3>1, <3>2, OwnRegisters
      <4>2. x = <<x[1], x[2]>>
        BY <1>0, <4>1 DEF Peripherals!TypeOK
      <4>3. QED
        BY <3>1, <4>1, <4>2, OwnChannel
    <3>4. PICK b \in avrBlocks : x \in b.ones
      BY <1>0, <3>2, <3>3 DEF BitsAskedFor
    <3>5. b.kind \in AvrKinds /\ b.at \in ResourcesOf(b.kind) /\ x \in OwnBits(b.kind, b.at)
          /\ (kind # b.kind \/ at # b.at)
      BY <1>0, <1>1, <3>4 DEF AsksForOwn
    <3>6. \/ kind = "pwm" /\ x = <<"TCCR1A", 0>>
          \/ kind = "pwm" /\ x = Peripherals!PwmDirection(at)
          \/ kind = "digital" /\ b.kind = "pwm" /\ x = Peripherals!PwmDirection(b.at)
      BY <3>1, <3>5, OwnApart
    <3>7. kind # "pwm"
      BY <3>6 DEF Peripherals!PwmDirection, Inversion
    <3>8. QED
      BY <3>6, <3>7
  <2>4. \A b \in avrBlocks' : b.ones \ Peripherals!NotInverted \subseteq reg' /\ b.zeros \cap reg' = {}
    BY <1>1, <1>2, <2>1, <2>2, <2>3
  <2>5. \A p \in AvrPorts \X AvrPins : outputs[p] <=> <<Peripherals!PORT[p[1]], p[2] - 1>> \in reg'
    <3> SUFFICES ASSUME NEW p \in AvrPorts \X AvrPins
                 PROVE  <<Peripherals!PORT[p[1]], p[2] - 1>> \in reg' <=> <<Peripherals!PORT[p[1]], p[2] - 1>> \in reg
      BY <1>0 DEF BitsStand
    <3> DEFINE x == <<Peripherals!PORT[p[1]], p[2] - 1>>
    <3>1. x[1] \in PortRegisters
      BY DEF PortRegisters, Peripherals!PeripheralsAssumption
    <3>2. x \notin OwnBits(kind, at)
      BY <3>1, OwnRegisters
    <3>3. x # <<"UCSRC", 7>>
      BY <3>1 DEF PortRegisters, Peripherals!PORT
    <3>4. QED
      BY <3>2, <3>3
  <2>6. QED
    BY <2>4, <2>5 DEF BitsStand
<1>11. QED
  BY <1>3, <1>5, <1>6, <1>7, <1>9, <1>10 DEF PeripheralsIInv

\* The invariant holds in the initial states.
LEMMA InitPeripheralsIInv ==
  ASSUME Peripherals!PeripheralsAssumption, Peripherals!Init
  PROVE  PeripheralsIInv
<1>1. IsFiniteSet(avrBlocks) /\ Peripherals!Cardinality(avrBlocks) = 0
  BY FS_EmptySet, PeripheralsCardinality DEF Peripherals!Init
<1>2. Peripherals!TypeOK
  <2>1. /\ pwm \in [1 .. 2 -> 0 .. 255] /\ outputs \in [AvrPorts \X AvrPins -> BOOLEAN]
        /\ Peripherals!Cardinality(avrBlocks) <= MaxSetUps
    BY <1>1 DEF Peripherals!Init, Peripherals!PeripheralsAssumption
  <2>2. reg \subseteq Peripherals!Registers \X (0 .. 15) /\ adc.channel \subseteq 0 .. 3
    BY DEF Peripherals!Init
  <2>3. QED
    BY <2>1, <2>2 DEF Peripherals!Init, Peripherals!TypeOK
<1>3. ChannelKept
  BY DEF Peripherals!Init, ChannelKept
<1>4. BitsStand
  BY DEF Peripherals!Init, BitsStand
<1>5. QED
  BY <1>1, <1>2, <1>3, <1>4
  DEF Peripherals!Init, PeripheralsIInv, AsksForOwn, AvrBlocksApart, BitsAskedFor

\* A conversion sets bits of the channel and keeps those of the reference voltage.
LEMMA AvrConvertStep ==
  ASSUME Peripherals!PeripheralsAssumption, PeripheralsIInv, NEW port \in AnalogPorts, NEW bits \in {8, 16},
         NEW keep, NEW set, set \subseteq Peripherals!ADLAR, {6, 7} \subseteq keep,
         keep \cap (0 .. 3) \subseteq Peripherals!ADLAR,
         bits = 16 => set = {}, Peripherals!Convert(port, bits, keep, set)
  PROVE  PeripheralsIInv'
<1>0. /\ Peripherals!TypeOK /\ IsFiniteSet(avrBlocks) /\ AsksForOwn /\ AvrBlocksApart /\ BitsAskedFor /\ ChannelKept
      /\ BitsStand
  BY DEF PeripheralsIInv
<1> DEFINE channel == set \cup Peripherals!BitsOf(port - 1)
<1>1. /\ reg' = {b \in reg : b[1] = "ADMUX" => b[2] \in keep} \cup Peripherals!Bits("ADMUX", channel)
      /\ reads' = reads \cup {<<port, bits>>}
      /\ adc' = [port |-> port, channel |-> {b \in 0 .. 3 : <<"ADMUX", b>> \in reg'}]
      /\ UNCHANGED <<cpu, pwm, avrBlocks, outputs, halted>>
  BY DEF Peripherals!Convert
<1>2. Peripherals!BitsOf(port - 1) \subseteq 0 .. 3
  BY DEF Peripherals!BitsOf
<1>3. channel \subseteq 0 .. 3
  BY <1>2, MaskBits
<1> HIDE DEF channel
<1>4. Peripherals!Bits("ADMUX", channel) \subseteq Peripherals!Registers \X (0 .. 15)
  <2>1. "ADMUX" \in Peripherals!Registers /\ channel \subseteq 0 .. 15
    BY <1>3 DEF Peripherals!Registers
  <2>2. QED
    BY <2>1 DEF Peripherals!Bits
<1>5. adc'.port = port /\ adc'.channel = {b \in 0 .. 3 : <<"ADMUX", b>> \in reg'}
  BY <1>1
<1>6. Peripherals!TypeOK'
  <2>1. reads' \subseteq AnalogPorts \X {8, 16}
    BY <1>0, <1>1 DEF Peripherals!TypeOK
  <2>2. reg' \subseteq Peripherals!Registers \X (0 .. 15)
    BY <1>0, <1>1, <1>4 DEF Peripherals!TypeOK
  <2>3. adc'.channel \subseteq 0 .. 3
    BY <1>5
  <2>4. QED
    BY <1>0, <1>1, <2>1, <2>2, <2>3 DEF Peripherals!TypeOK
<1>7. AsksForOwn' /\ AvrBlocksApart' /\ IsFiniteSet(avrBlocks)'
  BY <1>0, <1>1 DEF AsksForOwn, AvrBlocksApart, OwnBits, Peripherals!PwmDirection
<1>8. BitsAskedFor'
  BY <1>0, <1>1, <1>3 DEF BitsAskedFor, Peripherals!Bits
<1>9. ASSUME NEW b \in 0 .. 3
      PROVE  <<"ADMUX", b>> \in reg' <=> b \in channel \/ (<<"ADMUX", b>> \in reg /\ b \in keep)
  BY <1>1 DEF Peripherals!Bits
<1>10. ChannelKept'
  <2>1. /\ adc'.channel = {b \in 0 .. 3 : <<"ADMUX", b>> \in reg'} /\ adc'.port = port
        /\ <<port, bits>> \in reads' /\ reads \subseteq reads' /\ <<port, bits>>[1] = port /\ <<port, bits>>[2] = bits
    BY <1>1, <1>5
  <2>2. \A b \in 0 .. 3 : b \in Peripherals!BitsOf(port - 1) => <<"ADMUX", b>> \in reg'
    BY <1>9 DEF channel
  <2>3. ASSUME NEW b \in 0 .. 3, <<"ADMUX", b>> \in reg', b \notin Peripherals!BitsOf(port - 1)
        PROVE  b \in Peripherals!ADLAR /\ \E r \in reads' : r[2] = 8 \/ b \in Peripherals!BitsOf(r[1] - 1)
    <3>1. CASE b \in set
      <4>1. bits = 8
        BY <3>1
      <4>2. QED
        BY <2>1, <3>1, <4>1
    <3>2. CASE <<"ADMUX", b>> \in reg /\ b \in keep
      <4>1. b \in Peripherals!ADLAR /\ reads # {}
        BY <1>0, <3>2 DEF ChannelKept
      <4>2. PICK r \in reads : r[2] = 8 \/ b \in Peripherals!BitsOf(r[1] - 1)
        <5>1. CASE b \in Peripherals!BitsOf(adc.port - 1)
          BY <1>0, <4>1, <5>1 DEF ChannelKept
        <5>2. CASE b \notin Peripherals!BitsOf(adc.port - 1)
          BY <1>0, <3>2, <4>1, <5>2 DEF ChannelKept
        <5>3. QED
          BY <5>1, <5>2
      <4>3. QED
        BY <2>1, <4>1, <4>2
    <3>3. QED
      BY <1>9, <2>3, <3>1, <3>2 DEF channel
  <2>4. reads' # {} /\ \E r \in reads' : r[1] = port
    BY <2>1
  <2>5. QED
    BY <2>1, <2>2, <2>3, <2>4 DEF ChannelKept
<1>11. BitsStand'
  <2>1. ASSUME NEW b \in avrBlocks, NEW x \in b.ones \cup b.zeros
        PROVE  x \in reg' <=> x \in reg
    <3>1. b.kind \in AvrKinds /\ b.at \in ResourcesOf(b.kind) /\ x \in OwnBits(b.kind, b.at)
      BY <1>0 DEF AsksForOwn
    <3>2. CASE x[1] = "ADMUX"
      <4>1. b.kind = "analog"
        BY <3>1, <3>2, OwnRegisters
        DEF AvrKinds, TimerRegisters, Peripherals!DDR, Peripherals!PwmDirection
      <4>2. x = <<"ADMUX", 6>> \/ x = <<"ADMUX", 7>>
        BY <3>1, <3>2, <4>1 DEF OwnBits, Peripherals!Bits
      <4>3. QED
        BY <1>1, <1>3, <4>2 DEF Peripherals!Bits
    <3>3. CASE x[1] # "ADMUX"
      BY <1>1, <3>3 DEF Peripherals!Bits
    <3>4. QED
      BY <3>2, <3>3
  <2>2. \A b \in avrBlocks : b.ones \ Peripherals!NotInverted \subseteq reg' /\ b.zeros \cap reg' = {}
    BY <1>0, <2>1 DEF BitsStand
  <2>3. \A p \in AvrPorts \X AvrPins : outputs[p] <=> <<Peripherals!PORT[p[1]], p[2] - 1>> \in reg'
    <3> SUFFICES ASSUME NEW p \in AvrPorts \X AvrPins
                 PROVE  <<Peripherals!PORT[p[1]], p[2] - 1>> \in reg' <=> <<Peripherals!PORT[p[1]], p[2] - 1>> \in reg
      BY <1>0 DEF BitsStand
    <3>1. Peripherals!PORT[p[1]] # "ADMUX"
      <4>1. p[1] \in 1 .. 4
        BY DEF Peripherals!PeripheralsAssumption
      <4>2. QED
        BY <4>1 DEF Peripherals!PORT
    <3>2. QED
      BY <1>1, <3>1 DEF Peripherals!Bits
  <2>4. QED
    BY <1>1, <2>2, <2>3 DEF BitsStand
<1>12. QED
  BY <1>0, <1>6, <1>7, <1>8, <1>10, <1>11 DEF PeripheralsIInv

\* Every step keeps the invariant.
LEMMA PeripheralsIInvStep ==
  ASSUME Peripherals!PeripheralsAssumption, PeripheralsIInv, [Peripherals!Next]_Peripherals!vars
  PROVE  PeripheralsIInv'
<1>0. /\ Peripherals!TypeOK /\ IsFiniteSet(avrBlocks) /\ AsksForOwn /\ AvrBlocksApart /\ BitsAskedFor /\ ChannelKept
      /\ BitsStand
  BY DEF PeripheralsIInv
<1>1. ASSUME UNCHANGED <<cpu, reg, avrBlocks, outputs, reads, adc>>,
             pwm' \in [1 .. 2 -> 0 .. 255], halted' \in BOOLEAN
      PROVE  PeripheralsIInv'
  <2>1. Peripherals!TypeOK' /\ IsFiniteSet(avrBlocks)'
    BY <1>0, <1>1 DEF Peripherals!TypeOK
  <2>2. AsksForOwn'
    <3>1. \A b : Peripherals!PwmDirection(b.at)' = Peripherals!PwmDirection(b.at)
      BY <1>1 DEF Peripherals!PwmDirection
    <3>2. \A b : OwnBits(b.kind, b.at)' = OwnBits(b.kind, b.at)
      BY <1>1 DEF OwnBits, Peripherals!PwmDirection
    <3>3. ASSUME NEW b \in avrBlocks'
          PROVE  (/\ b.kind \in AvrKinds /\ b.at \in ResourcesOf(b.kind)
                  /\ b.ones \cup b.zeros \subseteq OwnBits(b.kind, b.at)
                  /\ b.ones \cap b.zeros = {}
                  /\ b.kind = "pwm" => b.zeros \subseteq Inversion /\ Peripherals!PwmDirection(b.at) \in b.ones
                  /\ b.kind = "uart" => b.zeros = {})'
      <4>1. b \in avrBlocks
        BY <1>1, <3>3
      <4>2. QED
        BY <1>0, <3>1, <3>2, <4>1 DEF AsksForOwn
    <3>4. QED
      BY <3>3 DEF AsksForOwn
  <2>3. AvrBlocksApart'
    BY <1>0, <1>1 DEF AvrBlocksApart, Peripherals!PwmDirection
  <2>4. BitsAskedFor'
    BY <1>0, <1>1 DEF BitsAskedFor
  <2>5. ChannelKept'
    BY <1>0, <1>1 DEF ChannelKept
  <2>6. BitsStand'
    BY <1>0, <1>1 DEF BitsStand
  <2>7. QED
    BY <2>1, <2>2, <2>3, <2>4, <2>5, <2>6 DEF PeripheralsIInv
<1>2. CASE Peripherals!Exit
  BY <1>0, <1>1, <1>2 DEF Peripherals!Exit, Peripherals!TypeOK
<1>3. ASSUME NEW timer \in 1 .. 3, NEW rate \in Clocks, NEW clear \in BOOLEAN,
             Peripherals!TimerInit(timer, rate, clear)
      PROVE  PeripheralsIInv'
  <2> DEFINE clocks == Peripherals!Bits(Peripherals!ClockRegister(timer), Peripherals!ClockBits(timer, rate))
             match == IF clear THEN {Peripherals!ClearBit(timer)} ELSE {}
             ones == clocks \cup match
             zeros == (Peripherals!Bits(Peripherals!ClockRegister(timer), 0 .. 2) \cup {Peripherals!ClearBit(timer)}) \ ones
  <2>1. CASE Peripherals!Exit
    BY <1>2, <2>1
  <2>2. CASE ~(Peripherals!ClockBits(timer, rate) = {} \/ (timer = 3 /\ cpu = "ATmega16"))
    <3>1. /\ Peripherals!SetUp("timer", timer, ones, zeros) /\ reg' = reg \cup ones
          /\ UNCHANGED <<cpu, pwm, outputs, reads, adc, halted>>
      BY <1>3, <2>2 DEF Peripherals!TimerInit
    <3>2. /\ Peripherals!ClockBits(timer, rate) \subseteq 0 .. 2
          /\ Peripherals!ClockRegister(timer) \in TimerRegisters(timer) \cap Peripherals!Registers
          /\ Peripherals!ClearBit(timer) \in (TimerRegisters(timer) \cap Peripherals!Registers) \X (0 .. 15)
      <4>1. Peripherals!ClockBits(timer, rate) \subseteq 0 .. 2
        BY DEF Peripherals!ClockBits, Peripherals!PeripheralsAssumption
      <4>2. QED
        BY <4>1
        DEF Peripherals!ClockRegister, Peripherals!ClearBit, TimerRegisters, Peripherals!Registers
    <3>3. ones \cup zeros \subseteq (TimerRegisters(timer) \cap Peripherals!Registers) \X (0 .. 15)
      BY <3>2 DEF Peripherals!Bits
    <3>4. timer \in ResourcesOf("timer") /\ "timer" \in AvrKinds /\ ones \cap zeros = {}
          /\ ones \cup zeros \subseteq OwnBits("timer", timer)
      BY <3>3 DEF ResourcesOf, AvrKinds, OwnBits
    <3>5. ones \subseteq Peripherals!Registers \X (0 .. 15) /\ pwm' \in [1 .. 2 -> 0 .. 255]
      BY <1>0, <3>1, <3>3 DEF Peripherals!TypeOK
    <3> HIDE DEF ones, zeros
    <3>6. QED
      BY <3>1, <3>4, <3>5, AvrSetUpStep
  <2>3. QED
    BY <1>3, <2>1, <2>2 DEF Peripherals!TimerInit
<1>4. ASSUME NEW timer \in PwmTimers, NEW pin \in 1 .. 2, NEW inverted \in BOOLEAN,
             Peripherals!PwmInit(timer, pin, 0, inverted)
      PROVE  PeripheralsIInv'
  <2> DEFINE asked == Peripherals!PwmAsked(pin, inverted)
             ones == {Peripherals!PwmDirection(pin)} \cup asked
             zeros == Peripherals!PwmAsked(pin, TRUE) \ ones
  <2>1. CASE Peripherals!Exit
    BY <1>2, <2>1
  <2>2. CASE timer = 2
    <3>1. /\ Peripherals!SetUp("pwm", pin, ones, zeros)
          /\ reg' = reg \cup {Peripherals!PwmDirection(pin)} \cup (asked \ Peripherals!NotInverted)
          /\ \A b \in avrBlocks : b.kind = "digital" => Peripherals!PwmDirection(pin) \notin b.ones \cup b.zeros
          /\ pwm' = [pwm EXCEPT ![pin] = 0]
          /\ UNCHANGED <<cpu, outputs, reads, adc, halted>>
      BY <1>4, <2>2 DEF Peripherals!PwmInit, Peripherals!PwmMode
    <3>2. /\ asked \cup Peripherals!PwmAsked(pin, TRUE)
               \subseteq Peripherals!Bits("TCCR1A", IF pin = 1 THEN {0, 6, 7} ELSE {0, 4, 5})
          /\ Peripherals!PwmAsked(pin, TRUE) \ asked \subseteq Inversion
      BY DEF Peripherals!PwmAsked, Peripherals!Bits, Inversion
    <3>3. pin \in ResourcesOf("pwm") /\ "pwm" \in AvrKinds /\ ones \cap zeros = {}
          /\ ones \cup zeros \subseteq OwnBits("pwm", pin) /\ zeros \subseteq Inversion
          /\ Peripherals!PwmDirection(pin) \in ones
      BY <3>2 DEF ResourcesOf, AvrKinds, OwnBits
    <3>4. Peripherals!PwmDirection(pin) \in Peripherals!Registers \X (0 .. 15)
      BY DEF Peripherals!PwmDirection, Peripherals!Registers, Peripherals!DDR
    <3>5. ones \subseteq Peripherals!Registers \X (0 .. 15)
      <4>1. \A s \in SUBSET (0 .. 15) : Peripherals!Bits("TCCR1A", s) \subseteq Peripherals!Registers \X (0 .. 15)
        BY DEF Peripherals!Bits, Peripherals!Registers
      <4>2. (IF pin = 1 THEN {0, 6, 7} ELSE {0, 4, 5}) \in SUBSET (0 .. 15)
        OBVIOUS
      <4>3. QED
        BY <3>2, <3>4, <4>1, <4>2
    <3>6. pwm' \in [1 .. 2 -> 0 .. 255]
      BY <1>0, <3>1 DEF Peripherals!TypeOK
    <3>7. ones \ Peripherals!NotInverted \subseteq reg' /\ reg \subseteq reg' /\ reg' \subseteq reg \cup ones
      BY <3>1
    <3> HIDE DEF ones, zeros, asked
    <3>8. QED
      BY <3>1, <3>3, <3>5, <3>6, <3>7, AvrSetUpStep
  <2>3. QED
    BY <1>4, <2>1, <2>2 DEF Peripherals!PwmInit
<1>5. ASSUME NEW pin \in 1 .. 2, Peripherals!PwmSet(pin, 255) PROVE PeripheralsIInv'
  BY <1>0, <1>1, <1>5 DEF Peripherals!PwmSet, Peripherals!TypeOK
<1>6. ASSUME NEW port \in AvrPorts, NEW pin \in AvrPins, NEW b \in BOOLEAN, Peripherals!DigitalInit(port, pin, b)
      PROVE  PeripheralsIInv'
  <2> DEFINE bit == <<Peripherals!DDR[port], pin - 1>>
             at == 8 * port + pin
             ones == IF b THEN {bit} ELSE {}
             zeros == IF b THEN {} ELSE {bit}
  <2>1. /\ Peripherals!SetUp("digital", at, ones, zeros) /\ reg' = Peripherals!Direction(bit, b)
        /\ \A c \in avrBlocks : c.kind = "pwm" => bit \notin c.ones
        /\ UNCHANGED <<cpu, pwm, outputs, reads, adc, halted>>
    BY <1>6 DEF Peripherals!DigitalInit
  <2>2. port \in 1 .. 4 /\ pin \in 1 .. 8
    BY DEF Peripherals!PeripheralsAssumption
  <2>3. at \in 9 .. 40 /\ (at - 1) \div 8 = port /\ (at - 1) % 8 = pin - 1
    BY <2>2
  <2>4. OwnBits("digital", at) = {bit}
    BY <2>3 DEF OwnBits
  <2>5. at \in ResourcesOf("digital") /\ "digital" \in AvrKinds /\ ones \cap zeros = {}
        /\ ones \cup zeros = OwnBits("digital", at)
    BY <2>3, <2>4 DEF ResourcesOf, AvrKinds
  <2>6. /\ ones \subseteq reg' /\ reg' \subseteq reg \cup ones
        /\ reg \ OwnBits("digital", at) \subseteq reg'
    BY <2>1, <2>4 DEF Peripherals!Direction
  <2>7. \A c \in avrBlocks : c.kind = "pwm" => Peripherals!PwmDirection(c.at) \notin ones \cup zeros
    BY <1>0, <2>1 DEF AsksForOwn
  <2>8. bit \in Peripherals!Registers \X (0 .. 15)
    BY <2>2 DEF Peripherals!Registers
  <2>9. ones \subseteq Peripherals!Registers \X (0 .. 15) /\ pwm' \in [1 .. 2 -> 0 .. 255]
    BY <1>0, <2>1, <2>8 DEF Peripherals!TypeOK
  <2> HIDE DEF ones, zeros, at, bit
  <2>10. QED
    BY <2>1, <2>5, <2>6, <2>7, <2>9, AvrSetUpStep
<1>7. ASSUME NEW port \in AvrPorts, NEW pin \in AvrPins, NEW b \in BOOLEAN, Peripherals!DigitalWrite(port, pin, b)
      PROVE  PeripheralsIInv'
  <2> DEFINE bit == <<Peripherals!PORT[port], pin - 1>>
  <2>1. /\ reg' = IF b THEN reg \cup {bit} ELSE reg \ {bit}
        /\ outputs' = [outputs EXCEPT ![<<port, pin>>] = b]
        /\ UNCHANGED <<cpu, pwm, avrBlocks, reads, adc, halted>>
    BY <1>7 DEF Peripherals!DigitalWrite
  <2>2. port \in 1 .. 4 /\ pin \in 1 .. 8
    BY DEF Peripherals!PeripheralsAssumption
  <2>3. Peripherals!PORT[port] \in PortRegisters /\ Peripherals!PORT[port] \in Peripherals!Registers /\ Peripherals!PORT[port] # "ADMUX" /\ pin - 1 \in 0 .. 15
    BY <2>2 DEF PortRegisters, Peripherals!Registers, Peripherals!PORT
  <2>4. bit[1] \in PortRegisters /\ bit[1] # "ADMUX" /\ bit \in Peripherals!Registers \X (0 .. 15)
    BY <2>3
  <2>5. ASSUME NEW p \in AvrPorts \X AvrPins, p # <<port, pin>> PROVE <<Peripherals!PORT[p[1]], p[2] - 1>> # bit
    <3>1. p[1] \in 1 .. 4 /\ p[2] \in 1 .. 8 /\ p = <<p[1], p[2]>>
      <4>1. p[1] \in AvrPorts /\ p[2] \in AvrPins /\ p = <<p[1], p[2]>>
        OBVIOUS
      <4>2. QED
        BY <4>1 DEF Peripherals!PeripheralsAssumption
    <3>2. p[1] # port \/ p[2] # pin
      BY <2>5, <3>1
    <3>3. \A q \in 1 .. 4 : Peripherals!PORT[q] = Peripherals!PORT[port] => q = port
      BY <2>2 DEF Peripherals!PORT
    <3>4. QED
      BY <2>2, <3>1, <3>2, <3>3
  <2>6. bit = <<Peripherals!PORT[<<port, pin>>[1]], <<port, pin>>[2] - 1>>
    OBVIOUS
  <2> HIDE DEF bit
  <2>7. Peripherals!TypeOK'
    BY <1>0, <2>1, <2>4 DEF Peripherals!TypeOK
  <2>8. AsksForOwn' /\ AvrBlocksApart' /\ IsFiniteSet(avrBlocks)'
    BY <1>0, <2>1 DEF AsksForOwn, AvrBlocksApart, OwnBits, Peripherals!PwmDirection
  <2>9. BitsAskedFor'
    BY <1>0, <2>1, <2>4 DEF BitsAskedFor
  <2>10. ChannelKept'
    <3>1. \A x : x # bit => (x \in reg' <=> x \in reg)
      BY <2>1
    <3>2. \A a \in 0 .. 3 : <<"ADMUX", a>> \in reg' <=> <<"ADMUX", a>> \in reg
      BY <2>4, <3>1
    <3>3. QED
      BY <1>0, <2>1, <3>2 DEF ChannelKept
  <2>11. BitsStand'
    <3>1. ASSUME NEW c \in avrBlocks PROVE bit \notin c.ones \cup c.zeros
      BY <1>0, <2>4, OwnRegisters DEF AsksForOwn
    <3>2. \A c \in avrBlocks : c.ones \ Peripherals!NotInverted \subseteq reg' /\ c.zeros \cap reg' = {}
      BY <1>0, <2>1, <3>1 DEF BitsStand
    <3>3. ASSUME NEW p \in AvrPorts \X AvrPins PROVE outputs'[p] <=> <<Peripherals!PORT[p[1]], p[2] - 1>> \in reg'
      <4>1. CASE p = <<port, pin>>
        <5>1. outputs'[p] = b /\ <<Peripherals!PORT[p[1]], p[2] - 1>> = bit
          BY <1>0, <2>1, <2>6, <4>1 DEF Peripherals!TypeOK
        <5>2. QED
          BY <2>1, <5>1
      <4>2. CASE p # <<port, pin>>
        BY <1>0, <2>1, <2>5, <4>2 DEF Peripherals!TypeOK, BitsStand
      <4>3. QED
        BY <4>1, <4>2
    <3>4. QED
      BY <1>0, <2>1, <3>2, <3>3 DEF BitsStand
  <2>12. QED
    BY <2>7, <2>8, <2>9, <2>10, <2>11 DEF PeripheralsIInv
<1>8. ASSUME NEW d \in Divisions, NEW r \in References, Peripherals!AnalogInit(d, r) PROVE PeripheralsIInv'
  <2> DEFINE ones == Peripherals!Bits("ADMUX", {6 + b : b \in Peripherals!BitsOf(r - 1)})
                       \cup Peripherals!Bits("ADCSRA", {7} \cup Peripherals!BitsOf(d))
             zeros == (Peripherals!Bits("ADMUX", 6 .. 7) \cup Peripherals!Bits("ADCSRA", 0 .. 2)) \ ones
  <2>1. /\ Peripherals!SetUp("analog", 1, ones, zeros) /\ reg' = reg \cup ones
        /\ UNCHANGED <<cpu, pwm, outputs, reads, adc, halted>>
    BY <1>8 DEF Peripherals!AnalogInit
  <2>2. {6 + b : b \in Peripherals!BitsOf(r - 1)} \subseteq {6, 7} /\ Peripherals!BitsOf(d) \subseteq 0 .. 3
    <3>1. Peripherals!BitsOf(r - 1) \subseteq {0, 1}
      BY BitsOfReference DEF Peripherals!PeripheralsAssumption
    <3>2. Peripherals!BitsOf(d) \subseteq 0 .. 3
      BY DEF Peripherals!BitsOf
    <3>3. QED
      BY <3>1, <3>2
  <2>3. ones \cup zeros \subseteq Peripherals!Bits("ADMUX", {6, 7}) \cup Peripherals!Bits("ADCSRA", 0 .. 15)
    BY <2>2 DEF Peripherals!Bits
  <2>4. 1 \in ResourcesOf("analog") /\ "analog" \in AvrKinds /\ ones \cap zeros = {}
        /\ ones \cup zeros \subseteq OwnBits("analog", 1)
    BY <2>3 DEF ResourcesOf, AvrKinds, OwnBits
  <2>5. ones \subseteq Peripherals!Registers \X (0 .. 15) /\ pwm' \in [1 .. 2 -> 0 .. 255]
    <3>1. {"ADMUX", "ADCSRA"} \subseteq Peripherals!Registers
      BY DEF Peripherals!Registers
    <3> HIDE DEF ones, zeros
    <3>2. QED
      BY <1>0, <2>1, <2>3, <3>1 DEF Peripherals!TypeOK, Peripherals!Bits
  <2> HIDE DEF ones, zeros
  <2>6. QED
    BY <2>1, <2>4, <2>5, AvrSetUpStep
<1>9. ASSUME NEW port \in AnalogPorts, Peripherals!AnalogRead8(port) PROVE PeripheralsIInv'
  <2>1. Peripherals!Convert(port, 8, 5 .. 7, Peripherals!ADLAR) /\ {6, 7} \subseteq 5 .. 7
        /\ (5 .. 7) \cap (0 .. 3) \subseteq Peripherals!ADLAR
    BY <1>9 DEF Peripherals!AnalogRead8
  <2>2. 8 \in {8, 16} /\ ~(8 = 16)
    OBVIOUS
  <2>3. QED
    BY <2>1, <2>2, AvrConvertStep
<1>10. ASSUME NEW port \in AnalogPorts, Peripherals!AnalogRead16(port) PROVE PeripheralsIInv'
  <2>1. Peripherals!Convert(port, 16, (5 .. 7) \cup Peripherals!ADLAR, {}) /\ {6, 7} \subseteq (5 .. 7) \cup Peripherals!ADLAR
        /\ ((5 .. 7) \cup Peripherals!ADLAR) \cap (0 .. 3) \subseteq Peripherals!ADLAR
    BY <1>10 DEF Peripherals!AnalogRead16
  <2>2. QED
    BY <2>1, AvrConvertStep
<1>11. ASSUME NEW baud \in Bauds, Peripherals!UartInit(baud) PROVE PeripheralsIInv'
  <2> DEFINE bits == Peripherals!Bits("UBRR", {baud}) \cup Peripherals!Bits("UCSRC", {2, 1}) \cup Peripherals!Bits("UCSRB", {4, 3})
             others == {b \in reg : b[1] \notin {"UBRR", "UCSRB", "UCSRC"}}
  <2>1. /\ Peripherals!SetUp("uart", 1, bits, {})
        /\ reg' = IF cpu = "ATmega16" THEN reg \cup bits \cup {<<"UCSRC", 7>>} ELSE others \cup bits
        /\ UNCHANGED <<cpu, pwm, outputs, reads, adc, halted>>
    BY <1>11 DEF Peripherals!UartInit
  <2>2. bits \subseteq {"UBRR", "UCSRB", "UCSRC"} \X (0 .. 15)
    <3>1. {baud} \subseteq 0 .. 15 /\ {2, 1} \subseteq 0 .. 15 /\ {4, 3} \subseteq 0 .. 15
      BY DEF Peripherals!PeripheralsAssumption
    <3>2. /\ Peripherals!Bits("UBRR", {baud}) \subseteq {"UBRR"} \X (0 .. 15)
          /\ Peripherals!Bits("UCSRC", {2, 1}) \subseteq {"UCSRC"} \X (0 .. 15)
          /\ Peripherals!Bits("UCSRB", {4, 3}) \subseteq {"UCSRB"} \X (0 .. 15)
      BY <3>1 DEF Peripherals!Bits
    <3>3. QED
      BY <3>2
  <2>3. 1 \in ResourcesOf("uart") /\ "uart" \in AvrKinds /\ bits \cup {} \subseteq OwnBits("uart", 1)
    BY <2>2 DEF ResourcesOf, AvrKinds, OwnBits
  <2>4. reg \ OwnBits("uart", 1) \subseteq others
    BY <1>0 DEF OwnBits, Peripherals!TypeOK
  <2>5. bits \subseteq Peripherals!Registers \X (0 .. 15) /\ pwm' \in [1 .. 2 -> 0 .. 255]
    <3>1. {"UBRR", "UCSRB", "UCSRC"} \subseteq Peripherals!Registers
      BY DEF Peripherals!Registers
    <3> HIDE DEF bits
    <3>2. QED
      BY <1>0, <2>1, <2>2, <3>1 DEF Peripherals!TypeOK
  <2>6. /\ bits \subseteq reg' /\ reg' \subseteq reg \cup bits \cup {<<"UCSRC", 7>>}
        /\ reg \ OwnBits("uart", 1) \subseteq reg'
    BY <2>1, <2>4
  <2> HIDE DEF bits, others
  <2>7. QED
    BY <2>1, <2>3, <2>5, <2>6, AvrSetUpStep
<1>12. CASE UNCHANGED Peripherals!vars
  BY <1>0, <1>1, <1>12 DEF Peripherals!vars, Peripherals!TypeOK
<1>13. QED
  BY <1>3, <1>4, <1>5, <1>6, <1>7, <1>8, <1>9, <1>10, <1>11, <1>12 DEF Peripherals!Next,
     Peripherals!Halted

\* A step of the drivers is one of this driver, or leaves it alone.
LEMMA PeripheralsSteps == ASSUME [DevicesNext]_DeviceVars PROVE [Peripherals!Next]_Peripherals!vars
  BY DEF DevicesNext, OthersRest, DeviceVars, PeripheralVars, Peripherals!vars

\* In every state of the drivers its invariant holds.
LEMMA PeripheralsInvariance == DevicesSpec => []PeripheralsIInv
<1>1. DevicesInit => PeripheralsIInv
  BY InitPeripheralsIInv, DevicesAssumption DEF DevicesAssumption, DevicesInit
<1>2. PeripheralsIInv /\ [DevicesNext]_DeviceVars => PeripheralsIInv'
  <2> SUFFICES ASSUME PeripheralsIInv, [DevicesNext]_DeviceVars PROVE PeripheralsIInv'
    OBVIOUS
  <2>1. [Peripherals!Next]_Peripherals!vars
    BY PeripheralsSteps
  <2>2. QED
    BY <2>1, PeripheralsIInvStep, DevicesAssumption DEF DevicesAssumption
<1>3. QED
  BY <1>1, <1>2, PTL DEF DevicesSpec

----------------------------------------------------------------------------
(* The display of an AVR (Hd44780) *)

\* What the display may remember at a place
Remembered == Chars \cup Display!Commands \cup {Display!Blank}

\* The display as a record, with RS, the next place and what it remembers
Displays == [rs : BOOLEAN, place : Display!Places, memory : [Display!Places -> Remembered]]

DisplayIInv == Display!TypeOK /\ lcd \in Displays /\ (lcdPc = "run" => updates >= 1) /\ Display!TextIsShown

\* A byte the display takes leaves a display.
LEMMA TakeDisplay ==
  ASSUME Display!DisplayAssumption, NEW l \in Displays, NEW byte \in Display!Commands
  PROVE  Display!Take(l, byte) \in Displays
<1>1. 0 \in Display!Places /\ Memory \in Display!Places /\ (l.place + 1) % (2 * Memory) \in Display!Places
  BY DEF Display!DisplayAssumption, Display!Places, Displays
<1>2. CASE l.rs
  <2>1. [l.memory EXCEPT ![l.place] = byte] \in [Display!Places -> Remembered]
    BY DEF Displays, Remembered
  <2>2. QED
    BY <1>1, <1>2, <2>1 DEF Display!Take, Displays
<1>3. CASE ~l.rs /\ byte = "clear"
  <2>1. [p \in Display!Places |-> Display!Blank] \in [Display!Places -> Remembered]
    BY DEF Remembered
  <2>2. QED
    BY <1>1, <1>3, <2>1 DEF Display!Take, Displays
<1>4. CASE ~l.rs /\ byte # "clear"
  BY <1>1, <1>4 DEF Display!Take, Displays
<1>5. QED
  BY <1>2, <1>3, <1>4

\* A text whose places do not wrap stands where it was written, and what was elsewhere stays.
LEMMA TextWritten ==
  ASSUME Display!DisplayAssumption, NEW l \in Displays, NEW size \in Nat, NEW text \in [1 .. size -> Remembered],
         NEW start \in Display!Places, l.place = start
  PROVE  LET w == Display!LcdDataTransfer(l, text)
         IN  /\ w \in Displays /\ w.rs
             /\ start + size <= 2 * Memory =>
                  /\ \A k \in 1 .. size : w.memory[start + k - 1] = text[k]
                  /\ \A p \in Display!Places : p < start \/ p >= start + size => w.memory[p] = l.memory[p]
<1> DEFINE w == Display!LcdDataTransfer(l, text)
           place(k) == (l.place + k) % (2 * Memory)
           wrote == [p \in Display!Places |->
                       IF \E k \in DOMAIN text : p = place(k - 1)
                         THEN text[CHOOSE k \in DOMAIN text : p = place(k - 1)] ELSE l.memory[p]]
<1>1. Len(text) = size /\ DOMAIN text = 1 .. size
  OBVIOUS
<1>2. w = [rs |-> TRUE, place |-> place(size), memory |-> wrote]
  BY <1>1 DEF Display!LcdDataTransfer
<1>3. \A k \in Nat : place(k) \in Display!Places
  BY DEF Display!DisplayAssumption, Display!Places
<1>4. \A p \in Display!Places : wrote[p] \in Remembered
  BY <1>1 DEF Displays
<1>5. w \in Displays /\ w.rs
  BY <1>2, <1>3, <1>4 DEF Displays
<1>6. ASSUME start + size <= 2 * Memory
      PROVE  \A k \in 1 .. size : place(k - 1) = start + k - 1 /\ place(k - 1) \in Display!Places
  <2> SUFFICES ASSUME NEW k \in 1 .. size
               PROVE  place(k - 1) = start + k - 1 /\ place(k - 1) \in Display!Places
    OBVIOUS
  <2>1. start + (k - 1) \in Nat /\ start + (k - 1) < 2 * Memory /\ 2 * Memory \in Nat
    BY <1>6 DEF Display!DisplayAssumption, Display!Places
  <2>2. \A x, y \in Nat : x < y => x % y = x
    OBVIOUS
  <2>3. place(k - 1) = start + (k - 1)
    BY <2>1, <2>2
  <2>4. QED
    BY <1>3, <2>1, <2>3
<1> HIDE DEF place
<1>7. ASSUME start + size <= 2 * Memory, NEW k \in 1 .. size PROVE w.memory[start + k - 1] = text[k]
  <2>1. start + k - 1 \in Display!Places /\ start + k - 1 = place(k - 1)
    BY <1>6, <1>7
  <2>2. \A j \in 1 .. size : start + k - 1 = place(j - 1) => j = k
    BY <1>6, <1>7 DEF Display!Places
  <2>3. (CHOOSE j \in DOMAIN text : start + k - 1 = place(j - 1)) = k
    BY <1>1, <2>1, <2>2
  <2>4. wrote[start + k - 1] = text[k]
    BY <1>1, <2>1, <2>3
  <2>5. QED
    BY <1>2, <2>4
<1>8. ASSUME start + size <= 2 * Memory, NEW p \in Display!Places, p < start \/ p >= start + size
      PROVE  w.memory[p] = l.memory[p]
  <2>1. \A k \in DOMAIN text : p # place(k - 1)
    BY <1>1, <1>6, <1>8 DEF Display!Places
  <2>2. QED
    BY <1>2, <2>1
<1>9. QED
  BY <1>5, <1>7, <1>8

\* An update writes the second line, and the first if RS says that the command to clear is one.
LEMMA UpdateShows ==
  ASSUME Display!DisplayAssumption, NEW l \in Displays, NEW text \in Display!Texts
  PROVE  /\ Display!UpdateLcd(l, text) \in Displays
         /\ \A k \in 1 .. LineLength :
              /\ Display!UpdateLcd(l, text).memory[Memory + k - 1] = text[LineLength + k]
              /\ ~l.rs => Display!UpdateLcd(l, text).memory[k - 1] = text[k]
<1> DEFINE First == SubSeq(text, 1, LineLength)
           Second == SubSeq(text, LineLength + 1, 2 * LineLength)
           cleared == Display!RefreshLcd(l)
           half == Display!LcdDataTransfer(cleared, First)
           next == Display!GotoNextline(half)
           full == Display!LcdDataTransfer(next, Second)
<1>1. Display!UpdateLcd(l, text) = full
  BY DEF Display!UpdateLcd
<1>2. /\ First \in [1 .. LineLength -> Remembered] /\ Second \in [1 .. LineLength -> Remembered]
      /\ \A k \in 1 .. LineLength : First[k] = text[k] /\ Second[k] = text[LineLength + k]
  <2>1. text \in [1 .. 2 * LineLength -> Remembered] /\ LineLength \in Nat
    BY DEF Display!DisplayAssumption, Display!Texts, Remembered
  <2>2. text \in Seq(Remembered) /\ Len(text) = 2 * LineLength
    BY <2>1
  <2>3. /\ First \in Seq(Remembered) /\ Len(First) = LineLength
        /\ \A k \in 1 .. LineLength : First[k] = text[k]
    BY <2>1, <2>2, SubSeqProperties DEF Display!DisplayAssumption
  <2>4. /\ Second \in Seq(Remembered) /\ Len(Second) = LineLength
        /\ \A k \in 1 .. LineLength : Second[k] = text[LineLength + k]
    BY <2>1, <2>2, SubSeqProperties DEF Display!DisplayAssumption
  <2> HIDE DEF First, Second
  <2>5. \A s \in Seq(Remembered) : Len(s) = LineLength => s \in [1 .. LineLength -> Remembered]
    OBVIOUS
  <2>6. QED
    BY <2>3, <2>4, <2>5
<1>3. cleared \in Displays /\ (~l.rs => cleared.place = 0)
  BY TakeDisplay
  DEF Display!RefreshLcd, Display!DataTransfer, Display!Commands, Display!Take, Displays
<1> HIDE DEF First, Second, cleared
<1>4. half \in Displays /\ half.rs
  BY <1>2, <1>3, TextWritten DEF Display!DisplayAssumption, Displays
<1>5. ASSUME ~l.rs, NEW k \in 1 .. LineLength PROVE half.memory[k - 1] = text[k]
  <2>1. 0 \in Display!Places /\ 0 + LineLength <= 2 * Memory /\ LineLength \in Nat
    BY DEF Display!DisplayAssumption, Display!Places
  <2>2. half.memory[0 + k - 1] = First[k]
    <3>1. cleared \in Displays /\ cleared.place = 0 /\ First \in [1 .. LineLength -> Remembered]
      BY <1>2, <1>3, <1>5
    <3>2. QED
      BY <2>1, <3>1, TextWritten
  <2>3. QED
    BY <1>2, <2>2
<1> HIDE DEF half
<1>6. next \in Displays /\ next.place = Memory /\ next.memory = half.memory
  <2>1. [half EXCEPT !.rs = FALSE] \in Displays
    BY <1>4 DEF Displays
  <2>2. QED
    <3>1. next \in Displays
      BY <2>1, TakeDisplay DEF Display!GotoNextline, Display!DataTransfer, Display!Commands
    <3>2. next = [[half EXCEPT !.rs = FALSE] EXCEPT !.place = Memory]
      BY <1>4, <2>1 DEF Display!GotoNextline, Display!DataTransfer, Display!Take, Displays
    <3>3. QED
      BY <1>4, <3>1, <3>2 DEF Displays
<1> HIDE DEF next
<1>7. Memory \in Display!Places /\ Memory + LineLength <= 2 * Memory /\ LineLength \in Nat
  BY DEF Display!DisplayAssumption, Display!Places
<1>8. /\ full \in Displays
      /\ \A k \in 1 .. LineLength : full.memory[Memory + k - 1] = Second[k]
      /\ \A p \in Display!Places : p < Memory => full.memory[p] = half.memory[p]
  <2> DEFINE w == Display!LcdDataTransfer(next, Second)
  <2>1. /\ w \in Displays
        /\ \A k \in 1 .. LineLength : w.memory[Memory + k - 1] = Second[k]
        /\ \A p \in Display!Places : p < Memory \/ p >= Memory + LineLength => w.memory[p] = next.memory[p]
    BY <1>2, <1>6, <1>7, TextWritten
  <2>2. QED
    BY <1>6, <2>1
<1>9. \A k \in 1 .. LineLength : k - 1 \in Display!Places /\ k - 1 < Memory
  BY DEF Display!DisplayAssumption, Display!Places
<1> HIDE DEF full
<1>10. QED
  BY <1>1, <1>2, <1>5, <1>8, <1>9

\* The invariant holds in the initial states.
LEMMA InitDisplayIInv == ASSUME Display!DisplayAssumption, Display!Init PROVE DisplayIInv
<1>1. 0 \in Display!Places /\ 0 \in 0 .. MaxUpdates
  BY DEF Display!DisplayAssumption, Display!Places
<1>2. lcdBuffer \in Display!Texts /\ shown \in Display!Texts
  BY DEF Display!Init, Display!Texts
<1>3. [p \in Display!Places |-> Display!Blank] \in [Display!Places -> Remembered]
  BY DEF Remembered
<1>4. lcd \in Displays
  BY <1>1, <1>3 DEF Display!Init, Displays
<1>5. QED
  BY <1>1, <1>2, <1>4
  DEF Display!Init, DisplayIInv, Display!TypeOK, Display!TextIsShown, Displays, Remembered

\* Every step keeps the invariant.
LEMMA DisplayIInvStep ==
  ASSUME Display!DisplayAssumption, DisplayIInv, [Display!Next]_Display!vars
  PROVE  DisplayIInv'
<1>0. Display!TypeOK /\ lcd \in Displays /\ (lcdPc = "run" => updates >= 1) /\ Display!TextIsShown
  BY DEF DisplayIInv
<1>1. ASSUME lcd' \in Displays, lcdBuffer' \in Display!Texts, shown' \in Display!Texts,
             lcdPc' \in {"off", "run", "exit"}, updates' \in 0 .. MaxUpdates,
             lcdPc' = "run" => updates' >= 1, Display!TextIsShown'
      PROVE  DisplayIInv'
  BY <1>1 DEF DisplayIInv, Display!TypeOK, Displays, Remembered
<1>2. ASSUME NEW port \in {3, 4}, NEW c \in Chars, NEW text,
             text = [k \in 1 .. 2 * LineLength |-> c], Display!Construct(port, text)
      PROVE  DisplayIInv'
  <2>1. CASE port \in 1 .. 3
    <3> DEFINE off == [lcd EXCEPT !.rs = FALSE]
    <3>1. off \in Displays /\ ~off.rs
      BY <1>0 DEF Displays
    <3>2. Display!SetUpLcd(off) = off
      BY <3>1 DEF Display!SetUpLcd, Display!DataTransfer, Display!Take
    <3>3. text \in Display!Texts
      BY <1>2 DEF Display!Texts
    <3>4. /\ lcdPc' = "run" /\ lcdBuffer' = text /\ shown' = text /\ updates' = 1
          /\ lcd' = Display!UpdateLcd(off, text)
      BY <1>2, <2>1, <3>2 DEF Display!Construct
    <3> HIDE DEF off
    <3>5. /\ lcd' \in Displays
          /\ \A k \in 1 .. LineLength : /\ lcd'.memory[Memory + k - 1] = text[LineLength + k]
                                        /\ lcd'.memory[k - 1] = text[k]
      BY <3>1, <3>3, <3>4, UpdateShows
    <3>6. 1 \in 0 .. MaxUpdates
      BY DEF Display!DisplayAssumption
    <3>7. Display!TextIsShown'
      BY <3>4, <3>5 DEF Display!TextIsShown
    <3>8. QED
      BY <1>1, <3>3, <3>4, <3>5, <3>6, <3>7
  <2>2. CASE port \notin 1 .. 3
    BY <1>0, <1>1, <1>2, <2>2 DEF Display!Construct, Display!TypeOK, Display!TextIsShown
  <2>3. QED
    BY <2>1, <2>2
<1>3. ASSUME NEW at \in 1 .. 2 * LineLength, NEW c \in Chars, Display!UpdateTextBufferByte(at, c)
      PROVE  DisplayIInv'
  <2>1. lcdBuffer' \in Display!Texts
    BY <1>0, <1>3 DEF Display!UpdateTextBufferByte, Display!TypeOK, Display!Texts
  <2>2. QED
    BY <1>0, <1>1, <1>3, <2>1 DEF Display!UpdateTextBufferByte, Display!TypeOK, Display!TextIsShown
<1>4. CASE Display!UpdateDisplay
  <2>1. /\ lcdPc' = "run" /\ lcd' = Display!UpdateLcd(lcd, lcdBuffer) /\ shown' = lcdBuffer /\ lcdBuffer' = lcdBuffer
        /\ updates' = updates + 1 /\ updates >= 1 /\ updates' \in 0 .. MaxUpdates
    BY <1>0, <1>4 DEF Display!UpdateDisplay, Display!TypeOK, Display!DisplayAssumption
  <2>2. /\ lcd' \in Displays
        /\ \A k \in 1 .. LineLength : lcd'.memory[Memory + k - 1] = lcdBuffer[LineLength + k]
    BY <1>0, <2>1, UpdateShows DEF Display!TypeOK
  <2>3. updates' # 1 /\ updates' >= 1
    BY <1>0, <2>1 DEF Display!TypeOK
  <2>4. Display!TextIsShown'
    BY <2>1, <2>2, <2>3 DEF Display!TextIsShown
  <2>5. QED
    BY <1>0, <1>1, <2>1, <2>2, <2>3, <2>4 DEF Display!TypeOK
<1>5. CASE UNCHANGED Display!vars
  BY <1>0, <1>1, <1>5 DEF Display!vars, Display!TypeOK, Display!TextIsShown
<1>6. QED
  BY <1>2, <1>3, <1>4, <1>5 DEF Display!Next, Display!Off

\* A step of the drivers is one of this driver, or leaves it alone.
LEMMA DisplaySteps == ASSUME [DevicesNext]_DeviceVars PROVE [Display!Next]_Display!vars
  BY DEF DevicesNext, OthersRest, DeviceVars, DisplayVars, Display!vars

\* In every state of the drivers its invariant holds.
LEMMA DisplayInvariance == DevicesSpec => []DisplayIInv
<1>1. DevicesInit => DisplayIInv
  BY InitDisplayIInv, DevicesAssumption DEF DevicesAssumption, DevicesInit
<1>2. DisplayIInv /\ [DevicesNext]_DeviceVars => DisplayIInv'
  <2> SUFFICES ASSUME DisplayIInv, [DevicesNext]_DeviceVars PROVE DisplayIInv'
    OBVIOUS
  <2>1. [Display!Next]_Display!vars
    BY DisplaySteps
  <2>2. QED
    BY <2>1, DisplayIInvStep, DevicesAssumption DEF DevicesAssumption
<1>3. QED
  BY <1>1, <1>2, PTL DEF DevicesSpec

\* Whatever blocks are set up and used, in whatever order, no block undoes what another asked
\* for: the bits of registers stay as asked, but the inversion of PWM pin 2, outputs and LEDs
\* have the value they were given, interrupts of pins come at falling edges (said of those that
\* ask for them), the converter takes the input that is read up to the bits of ADLAR, and the
\* second line of the display is that of the latest update, the first that of the first
\* (MDDAVRTimer.h, MDDAVRDigital.h, MDDAVRAnalog.h, MDDAVRHD44780.h,
\* MDDSTM32F4Digital.h).
THEOREM PeripheralsStand == DevicesSpec => []PeripheralsAsSet
<1>1. PeripheralsIInv => Peripherals!SetUpStands
  BY ChannelIsSelected DEF PeripheralsIInv, BitsStand, Peripherals!SetUpStands
<1>2. PeripheralsIInv /\ DisplayIInv /\ StmIInv => PeripheralsAsSet
  BY <1>1 DEF DisplayIInv, StmIInv, PeripheralsAsSet
<1>3. QED
  BY <1>2, PeripheralsInvariance, DisplayInvariance, StmInvariance, PTL
=============================================================================
