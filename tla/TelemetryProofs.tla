-------------------------- MODULE TelemetryProofs --------------------------
(***************************************************************************)
(* Theorems about Telemetry, for every valid configuration, every default  *)
(* and every bound on what a step awaits and on restarts.                  *)
(***************************************************************************)
EXTENDS Telemetry, TLAPS

\* The next tick is due a period after the last, which up to four steps have
\* been spent on since.
DueInTime ==
  /\ phase = "probing"    => due >= pace.tick - busy
  /\ phase = "collecting" => due >= pace.tick - MaxBusy - busy
  /\ phase = "inspecting" => due >= pace.tick - 2 * MaxBusy - busy
  /\ phase = "saving"     => due >= pace.tick - 3 * MaxBusy - busy

Typed == TypeOK /\ DueInTime

\* From the last probe of a window to its snapshot's being saved.
Handover == {"collecting", "inspecting", "saving"}

\* How long a window has lasted, phase by phase.  Until the next tick it can
\* still grow by what is left of the period.
WindowLasts ==
  sincePersist # Never =>
    /\ phase \in {"waiting", "probing"} =>
         sincePersist <= pace.base + pace.tick \div 2 + late
    /\ phase = "waiting" =>
         sincePersist + due <= pace.base + pace.tick \div 2 + late
    /\ phase \in Handover => sincePersist = late

\* Time since the last snapshot brings a new second: two halves for certain,
\* one if the current second has just begun.
SecondsPass ==
  sincePersist # Never =>
    /\ sincePersist >= 2 => newSecond
    /\ sincePersist = 1 /\ half = 0 => newSecond

\* In its first run, and with more than one second between snapshots, the
\* agent keeps no snapshot of the second it is about to save one of.
NoneInTheWay ==
  pace.base > 2 /\ restarts = 0 =>
    /\ sample # "overwritten"
    /\ sample = "kept" => phase \notin Handover
    /\ sincePersist = Never =>
         sample \in {"none", "window"} /\ phase \notin Handover

-----------------------------------------------------------------------------
(* Pace: what config.rs makes of a configuration.                          *)

\* The interval is a whole number of seconds, and so is the tick, which is not
\* longer than it.
LEMMA PaceFacts ==
  ASSUME NEW p \in {Pace(c) : c \in Loaded}
  PROVE  /\ p.base \in Nat /\ p.tick \in 2 .. p.base
         /\ p.tick \div 2 \in Nat \ {0} /\ p.tick = 2 * (p.tick \div 2)
         /\ p.base > 2 => p.base - p.tick \div 2 >= 2
<1>1. PICK c \in Loaded : p = Pace(c)
  OBVIOUS
<1>2. c.interval \in Nat /\ c.sample \in Nat
  BY TelemetryAssumption DEF Loaded
<1> DEFINE b == IF c.interval > 0 THEN c.interval ELSE DefaultInterval
           k == Min2(Max2(c.sample, 1), b)
<1>3. b \in Nat \ {0}
  BY <1>2, TelemetryAssumption
<1>4. p.base = 2 * b /\ p.tick = Min2(2 * Max2(c.sample, 1), 2 * b)
  BY <1>1 DEF Pace
<1> HIDE DEF b
<1>5. k \in Nat \ {0} /\ k <= b /\ p.tick = 2 * k
  BY <1>2, <1>3, <1>4 DEF Min2, Max2
<1> HIDE DEF k
<1>6. p.tick \div 2 = k
  BY <1>5
<1> QED
  BY <1>3, <1>4, <1>5, <1>6

LEMMA ReachesFacts ==
  ASSUME NEW t \in Nat \cup {Never}, NEW d \in Int
  PROVE  /\ Reaches(t, d) \subseteq BOOLEAN
         /\ FALSE \in Reaches(t, d) => t # Never /\ t <= d
         /\ TRUE \in Reaches(t, d) /\ t # Never => t >= d
<1>1. CASE t = Never
  BY <1>1 DEF Reaches
<1>2. CASE t # Never /\ t = d
  BY <1>2 DEF Reaches
<1>3. CASE t # Never /\ t # d
  <2>1. Reaches(t, d) = {t > d}
    BY <1>3 DEF Reaches
  <2>2. FALSE \in Reaches(t, d) => ~ (t > d)
    BY <2>1
  <2>3. TRUE \in Reaches(t, d) => t > d
    BY <2>1
  <2>4. t \in Nat
    BY <1>3
  <2>5. (t > d) \in BOOLEAN
    BY <2>4
  <2>6. Reaches(t, d) \subseteq BOOLEAN
    BY <2>1, <2>5
  <2>7. (~ (t > d) => t <= d) /\ (t > d => t >= d)
    BY <2>4
  <2> QED
    BY <1>3, <2>2, <2>3, <2>6, <2>7, Zenon
<1> QED
  BY <1>1, <1>2, <1>3

-----------------------------------------------------------------------------
(* Steps that differ for no invariant are taken together.                  *)

LEMMA MoveTypes ==
  ASSUME sample \in Places, event \in Places, NEW f,
         \A p \in DOMAIN f : f[p] \in Places, Move(f)
  PROVE  sample' \in Places /\ event' \in Places
BY DEF Move

LEMMA JoinTypes ==
  ASSUME sample \in Places, event \in Places, Join
  PROVE  sample' \in Places /\ event' \in Places
BY DEF Join, Places, marks

LEMMA MarksTypes ==
  ASSUME sample \in Places, event \in Places, [Next]_vars
  PROVE  sample' \in Places /\ event' \in Places
<1>1. CASE UNCHANGED vars \/ Pass \/ GpuChanges \/ Wake
  BY <1>1 DEF vars, marks, Pass, GpuChanges, Wake
<1>2. CASE Probe
  BY <1>2, JoinTypes DEF Probe
<1>3. CASE LastProbe
  BY <1>3, JoinTypes, MoveTypes DEF LastProbe, WindowEnds, Places
<1>4. CASE TakeSamples \/ TakeEvents
  BY <1>4 DEF TakeSamples, TakeEvents, Places
<1>5. CASE Save \/ SaveFails
  BY <1>5, MoveTypes DEF Save, SaveFails, Saved, Places
<1>6. CASE Restart
  BY <1>6, MoveTypes DEF Restart, Places
<1> QED
  BY <1>1, <1>2, <1>3, <1>4, <1>5, <1>6 DEF Next, Loop

-----------------------------------------------------------------------------
(* Types.                                                                  *)

LEMMA TypeInit == Init => Typed
<1> SUFFICES ASSUME Init PROVE Typed
  OBVIOUS
<1>1. pace.tick \in 2 .. pace.base /\ pace.base \in Nat
  BY PaceFacts DEF Init
<1>2. 0 \in -4 * MaxBusy .. pace.tick /\ 0 \in 0 .. MaxBusy
      /\ 0 \in 0 .. MaxRestarts
  BY <1>1, TelemetryAssumption
<1> QED
  BY <1>1, <1>2 DEF Init, Typed, TypeOK, DueInTime, Places

LEMMA TypeStep ==
  ASSUME Typed, [Next]_vars
  PROVE  Typed'
<1> USE TelemetryAssumption DEF Typed, DueInTime, gpuVars, hostVars
<1>0. /\ pace.base \in Nat /\ pace.tick \in Nat /\ pace.tick >= 2
      /\ due \in Int /\ busy \in Nat
  BY PaceFacts DEF TypeOK
<1>1. sample' \in Places /\ event' \in Places
  BY MarksTypes DEF TypeOK
<1>2. CASE UNCHANGED vars
  BY <1>2 DEF vars, TypeOK, marks
<1>3. CASE Pass
  <2>1. sincePersist' \in Nat \cup {Never}
    BY <1>3 DEF Pass, TypeOK
  <2>2. sinceSlow' \in 0 .. 2 * SlowProbe + 1 \cup {Never}
        /\ (sinceSlow # Never => sinceSlow' # Never)
    BY <1>3 DEF Pass, TypeOK, Min2
  <2>3. half' \in {0, 1} /\ newSecond' \in BOOLEAN
    BY <1>3 DEF Pass, TypeOK
  <2>4. CASE phase = "waiting"
    BY <1>0, <1>1, <1>3, <2>1, <2>2, <2>3, <2>4 DEF Pass, TypeOK
  <2>5. CASE phase # "waiting"
    <3>1. busy' \in 0 .. MaxBusy /\ late' \in Nat /\ busy' = busy + 1
      BY <1>0, <1>3, <2>5 DEF Pass, TypeOK
    <3>2. due' = due - 1 /\ phase' = phase /\ pace' = pace
      BY <1>3 DEF Pass
    <3>3. due' \in -4 * MaxBusy .. pace.tick /\ DueInTime'
      BY <1>0, <2>5, <3>1, <3>2 DEF TypeOK
    <3> QED
      BY <1>1, <1>3, <2>1, <2>2, <2>3, <2>5, <3>1, <3>2, <3>3 DEF Pass, TypeOK
  <2> QED
    BY <2>4, <2>5
<1>4. CASE GpuChanges
  BY <1>1, <1>4 DEF GpuChanges, TypeOK
<1>5. CASE Wake
  <2>1. slow' \in BOOLEAN
    <3>1. sinceSlow \in Nat \cup {Never} /\ 2 * SlowProbe \in Int
      BY DEF TypeOK
    <3>2. Reaches(sinceSlow, 2 * SlowProbe) \subseteq BOOLEAN
      BY <3>1, ReachesFacts
    <3> QED
      BY <1>5, <3>2 DEF Wake
  <2>2. pace.tick \in -4 * MaxBusy .. pace.tick /\ 0 \in 0 .. MaxBusy
    BY <1>0
  <2> QED
    BY <1>0, <1>1, <1>5, <2>1, <2>2 DEF Wake, Goto, TypeOK
<1>6. ASSUME ProbeEnds PROVE gpu' \in BOOLEAN
  BY <1>6 DEF ProbeEnds, TypeOK
<1>7. 0 \in 0 .. MaxBusy /\ busy <= MaxBusy
  BY DEF TypeOK
<1>8. CASE Probe
  <2>1. DueInTime' /\ ProbeEnds
    BY <1>8 DEF Probe, Goto
  <2> QED
    BY <1>1, <1>6, <1>7, <1>8, <2>1 DEF Probe, ProbeEnds, Goto, TypeOK
<1>9. CASE LastProbe
  <2>1. DueInTime' /\ ProbeEnds
    BY <1>0, <1>7, <1>9 DEF LastProbe, WindowEnds, ProbeEnds, Goto
  <2> QED
    BY <1>1, <1>6, <1>7, <1>9, <2>1
    DEF LastProbe, WindowEnds, ProbeEnds, Goto, TypeOK
<1>10. CASE TakeSamples \/ TakeEvents
  <2>1. Found \in BOOLEAN
    BY DEF Found, TypeOK
  <2>2. DueInTime'
    BY <1>0, <1>7, <1>10 DEF TakeSamples, TakeEvents, untouched, Goto
  <2>3. hasGpu' \in BOOLEAN
    BY <1>10, <2>1 DEF TakeSamples, TakeEvents, TypeOK
  <2> QED
    BY <1>1, <1>7, <1>10, <2>2, <2>3
    DEF TakeSamples, TakeEvents, untouched, Goto, TypeOK
<1>11. CASE Save \/ SaveFails
  <2>1. DueInTime'
    BY <1>11 DEF Save, SaveFails, Saved, Goto
  <2> QED
    BY <1>1, <1>7, <1>11, <2>1 DEF Save, SaveFails, Saved, Goto, TypeOK
<1>12. CASE Restart
  <2>1. pace' \in {Pace(c) : c \in Loaded} /\ pace'.tick \in 2 .. pace'.base
        /\ pace'.base \in Nat
    BY <1>12, PaceFacts DEF Restart
  <2>2. restarts' \in 0 .. MaxRestarts
    BY <1>12 DEF Restart, TypeOK
  <2> QED
    <3>1. DueInTime'
      BY <1>12 DEF Restart, Goto
    <3>2. 0 \in -4 * MaxBusy .. pace'.tick
      BY <2>1
    <3> QED
      BY <1>1, <1>7, <1>12, <2>1, <2>2, <3>1, <3>2 DEF Restart, Goto, TypeOK
<1> QED
  BY <1>2, <1>3, <1>4, <1>5, <1>8, <1>9, <1>10, <1>11, <1>12
  DEF Next, Loop

\* The loop is never more than four steps behind a tick, and its timers stay
\* within their ranges, whatever it awaits and for how long.
THEOREM TypeCorrect == Spec => []TypeOK
<1>1. Typed => TypeOK
  BY DEF Typed
<1> QED
  BY <1>1, TypeInit, TypeStep, PTL DEF Spec

-----------------------------------------------------------------------------
(* Windows.                                                                *)

LEMMA WindowInit == Init => WindowLasts
BY DEF Init, WindowLasts

LEMMA WindowStep ==
  ASSUME Typed, WindowLasts, [Next]_vars
  PROVE  WindowLasts'
<1> USE TelemetryAssumption DEF Handover
<1> DEFINE half_tick == pace.tick \div 2
<1>0. /\ pace.base \in Nat /\ pace.tick \in Nat /\ half_tick \in Nat
      /\ pace.tick = 2 * half_tick /\ pace.tick <= pace.base
      /\ due \in Int /\ due <= pace.tick /\ late \in Nat
      /\ (sincePersist # Never => sincePersist \in Nat)
      /\ phase \in {"waiting", "probing"} \cup Handover
  BY PaceFacts DEF Typed, TypeOK
<1> HIDE DEF half_tick
<1>1. CASE UNCHANGED vars \/ GpuChanges
  BY <1>1 DEF vars, GpuChanges, WindowLasts
<1>2. CASE Pass
  <2>1. due' = due - 1 /\ phase' = phase /\ pace' = pace
    BY <1>2 DEF Pass
  <2>2. CASE phase = "waiting"
    BY <1>0, <1>2, <2>1, <2>2 DEF Pass, WindowLasts, half_tick
  <2>3. CASE phase # "waiting"
    BY <1>0, <1>2, <2>1, <2>3 DEF Pass, WindowLasts, half_tick
  <2> QED
    BY <2>2, <2>3
<1>3. CASE Wake
  BY <1>0, <1>3 DEF Wake, Goto, WindowLasts
<1>4. CASE Probe
  <2>1. sincePersist # Never /\ sincePersist <= pace.base - half_tick
    <3>1. FALSE \in Reaches(sincePersist, pace.base - half_tick)
      BY <1>4 DEF Probe, PersistAfter, half_tick
    <3>2. pace.base - half_tick \in Int /\ sincePersist \in Nat \cup {Never}
      BY <1>0
    <3> QED
      BY <3>1, <3>2, ReachesFacts
  <2>2. UNCHANGED <<pace, due, sincePersist, late>> /\ phase' = "waiting"
    BY <1>4 DEF Probe, ProbeEnds, Goto
  <2>3. sincePersist <= pace.base + half_tick + late
        /\ sincePersist + due <= pace.base + half_tick + late
    BY <1>0, <2>1
  <2> QED
    BY <2>2, <2>3 DEF WindowLasts, half_tick
<1>5. CASE LastProbe
  BY <1>5 DEF LastProbe, WindowEnds, Goto, WindowLasts
<1>6. CASE TakeSamples \/ TakeEvents
  BY <1>6 DEF TakeSamples, TakeEvents, untouched, Goto, WindowLasts
<1>7. CASE Save \/ SaveFails
  <2>1. UNCHANGED <<pace, due, sincePersist, late>> /\ phase' = "waiting"
        /\ phase = "saving"
    BY <1>7 DEF Save, SaveFails, Saved, Goto
  <2>2. sincePersist # Never =>
          /\ sincePersist <= pace.base + half_tick + late
          /\ sincePersist + due <= pace.base + half_tick + late
    BY <1>0, <2>1 DEF WindowLasts
  <2> QED
    BY <2>1, <2>2 DEF WindowLasts, half_tick
<1>8. CASE Restart
  BY <1>8 DEF Restart, WindowLasts
<1> QED
  BY <1>1, <1>2, <1>3, <1>4, <1>5, <1>6, <1>7, <1>8 DEF Next, Loop

\* A window is never longer than the interval and half a tick, but for what
\* was awaited during it: lateness does not add up over windows.
THEOREM WindowsEndInTime == Spec => []WindowEndsInTime
<1>1. Typed /\ WindowLasts => WindowEndsInTime
  <2> SUFFICES ASSUME Typed, WindowLasts, sincePersist # Never
               PROVE  sincePersist <= pace.base + pace.tick \div 2 + late
    BY DEF WindowEndsInTime
  <2>1. /\ pace.base \in Nat /\ pace.tick \div 2 \in Nat /\ late \in Nat
        /\ phase \in {"waiting", "probing"} \cup Handover
    BY PaceFacts DEF Typed, TypeOK, Handover
  <2> QED
    BY <2>1 DEF WindowLasts
<1> QED
  BY <1>1, TypeInit, TypeStep, WindowInit, WindowStep, PTL DEF Spec

-----------------------------------------------------------------------------
(* Snapshots.                                                              *)

Snapshots == SecondsPass /\ NoneInTheWay

LEMMA SnapshotsInit == Init => Snapshots
BY DEF Init, Snapshots, SecondsPass, NoneInTheWay, Handover

LEMMA SecondsStep ==
  ASSUME Typed, SecondsPass, [Next]_vars
  PROVE  SecondsPass'
<1> USE TelemetryAssumption DEF SecondsPass, hostVars
<1>0. (sincePersist # Never => sincePersist \in Nat) /\ half \in {0, 1}
      /\ newSecond \in BOOLEAN
  BY DEF Typed, TypeOK
<1>1. CASE Pass
  <2>1. sincePersist # Never =>
          sincePersist' = sincePersist + 1 /\ sincePersist \in Nat
    BY <1>0, <1>1 DEF Pass
  <2>2. sincePersist = Never => sincePersist' = Never
    BY <1>1 DEF Pass
  <2>3. half' = 1 - half
    BY <1>1 DEF Pass
  <2>4. newSecond \/ half = 1 => newSecond'
    BY <1>1 DEF Pass
  <2> QED
    BY <1>0, <2>1, <2>2, <2>3, <2>4
<1>2. CASE LastProbe \/ Restart
  <2>1. sincePersist' \in {0, Never}
    BY <1>2 DEF LastProbe, WindowEnds, Restart
  <2> QED
    BY <2>1
<1>3. CASE UNCHANGED <<sincePersist, half, newSecond>>
  BY <1>3
<1> QED
  BY <1>1, <1>2, <1>3
  DEF Next, Loop, vars, GpuChanges, Wake, Probe, ProbeEnds, TakeSamples,
      TakeEvents, untouched, Save, SaveFails, Saved

LEMMA NoneInTheWayStep ==
  ASSUME Typed, SecondsPass, NoneInTheWay, [Next]_vars
  PROVE  NoneInTheWay'
<1> USE TelemetryAssumption DEF NoneInTheWay, Handover, hostVars, marks
<1>1. CASE UNCHANGED vars \/ GpuChanges \/ Wake
  BY <1>1 DEF vars, GpuChanges, Wake, Goto
<1>2. CASE Pass
  BY <1>2 DEF Pass, Typed, TypeOK
<1>3. CASE Probe
  BY <1>3 DEF Probe, ProbeEnds, Goto, Join
<1>4. CASE LastProbe
  <2> SUFFICES ASSUME pace.base > 2, restarts = 0
               PROVE  sample' \notin {"overwritten", "kept"}
    BY <1>4 DEF LastProbe, WindowEnds, ProbeEnds, Goto
  <2>1. sample = "kept" => newSecond
    <3> SUFFICES ASSUME sample = "kept" PROVE newSecond
      OBVIOUS
    <3>1. sincePersist # Never /\ sincePersist \in Nat
      BY DEF Typed, TypeOK
    <3>2. /\ pace.base - pace.tick \div 2 \in Nat
          /\ pace.base - pace.tick \div 2 >= 2
      BY PaceFacts DEF Typed, TypeOK
    <3>3. sincePersist >= pace.base - pace.tick \div 2
      <4>1. TRUE \in Reaches(sincePersist, pace.base - pace.tick \div 2)
        BY <1>4 DEF LastProbe, WindowEnds, PersistAfter
      <4> DEFINE d == pace.base - pace.tick \div 2
      <4>2. sincePersist \in Nat \cup {Never} /\ d \in Int
        BY <3>1, <3>2
      <4>3. TRUE \in Reaches(sincePersist, d)
        BY <4>1
      <4> HIDE DEF d
      <4>4. sincePersist >= d
        BY <3>1, <4>2, <4>3, ReachesFacts
      <4> QED
        BY <4>4 DEF d
    <3> QED
      BY <3>1, <3>2, <3>3 DEF SecondsPass
  <2> QED
    BY <1>4, <2>1 DEF LastProbe, WindowEnds, Move, Join
<1>5. CASE TakeSamples \/ TakeEvents
  <2>1. sample' \in {sample, "taken"}
    BY <1>5 DEF TakeSamples, TakeEvents
  <2>2. phase \in Handover /\ UNCHANGED <<pace, restarts, sincePersist>>
    BY <1>5 DEF TakeSamples, TakeEvents, untouched
  <2> QED
    BY <2>1, <2>2
<1>6. CASE Save \/ SaveFails
  BY <1>6 DEF Save, SaveFails, Saved, Goto, Move
<1>7. CASE Restart
  BY <1>7 DEF Restart, Typed, TypeOK
<1> QED
  BY <1>1, <1>2, <1>3, <1>4, <1>5, <1>6, <1>7 DEF Next, Loop

\* However early a window ends and however late its probes come, no snapshot
\* replaces another, unless they are one second apart or the agent has been
\* restarted.
THEOREM NoneIsOverwritten == Spec => []NoSnapshotOverwritten
<1>1. Typed /\ NoneInTheWay => NoSnapshotOverwritten
  <2> SUFFICES ASSUME Typed, NoneInTheWay, sample = "overwritten",
                      restarts = 0
               PROVE  pace.base <= 2
    BY DEF Typed, TypeOK, NoSnapshotOverwritten
  <2>1. pace.base \in Nat
    BY PaceFacts DEF Typed, TypeOK
  <2> QED
    BY <2>1 DEF NoneInTheWay
<1> QED
  BY <1>1, TypeInit, TypeStep, SnapshotsInit, SecondsStep, NoneInTheWayStep, PTL
  DEF Spec, Snapshots

-----------------------------------------------------------------------------
(* Readings and their events.                                              *)

\* Once the samples are taken none is left in the window, so what the events
\* follow is this snapshot's reading; and only one of the two is ever ahead.
Following ==
  /\ EventsWithReadings
  /\ phase = "inspecting" => sample # "window"

LEMMA FollowingStep ==
  ASSUME Following, [Next]_vars
  PROVE  Following'
<1> USE DEF Following, EventsWithReadings
<1>1. CASE UNCHANGED <<phase, marks>>
  BY <1>1 DEF marks
<1>2. CASE Wake
  BY <1>2 DEF Wake, Goto, marks
<1>3. CASE Probe
  BY <1>3 DEF Probe, ProbeEnds, Join, Goto, marks
<1>4. CASE LastProbe
  BY <1>4 DEF LastProbe, WindowEnds, ProbeEnds, Join, Move, Goto, marks
<1>5. CASE TakeSamples
  BY <1>5 DEF TakeSamples, Goto
<1>6. CASE TakeEvents
  BY <1>6 DEF TakeEvents, Goto
<1>7. CASE Save \/ SaveFails
  BY <1>7 DEF Save, SaveFails, Saved, Move, Goto
<1>8. CASE Restart
  BY <1>8 DEF Restart, Move, Goto
<1> QED
  BY <1>1, <1>2, <1>3, <1>4, <1>5, <1>6, <1>7, <1>8
  DEF Next, Loop, Pass, GpuChanges, vars

\* An event is in the snapshot that has its reading, and lost only with it,
\* although a snapshot takes its readings before it asks docker and its events
\* after, and a restart may come between: while it asks, nothing else moves.
THEOREM EventsStayWithReadings == Spec => []EventsWithReadings
<1>1. Init => Following
  BY DEF Init, Following, EventsWithReadings
<1>2. Following => EventsWithReadings
  BY DEF Following
<1> QED
  BY <1>1, <1>2, FollowingStep, PTL DEF Spec
=============================================================================
