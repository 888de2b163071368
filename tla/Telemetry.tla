----------------------------- MODULE Telemetry -----------------------------
(***************************************************************************)
(* The telemetry loop (src/src/main.rs), with the collector it probes      *)
(* (telemetry.rs) and the part of the pacer that ends a window (pacer.rs). *)
(* It wakes up every tick, reads the host, and when a window is over       *)
(* collects a snapshot of all its readings and saves it.  Each of these    *)
(* steps awaits something (nvidia-smi, docker, the disk), and while it     *)
(* does the clock goes on.                                                 *)
(*                                                                         *)
(* Time is in half seconds, so that half a tick is a whole number.  A      *)
(* duration that is exactly as long as the one it is compared with may be  *)
(* taken for a little longer or a little shorter: a timer fires up to a    *)
(* few milliseconds late.                                                  *)
(***************************************************************************)
EXTENDS Integers

CONSTANTS
  Configs,          \* [interval, sample]: the seconds in a valid config.toml
  DefaultInterval,  \* TelemetryConfig::default, in seconds
  DefaultSample,
  SlowProbe,        \* SLOW_PROBE, in seconds
  MaxBusy,          \* bound on the half seconds a step awaits
  MaxRestarts,      \* bound on restarts of the agent
  Never

ASSUME TelemetryAssumption ==
  /\ Configs \subseteq [interval : Nat, sample : Nat]
  /\ DefaultInterval \in Nat \ {0} /\ DefaultSample \in Nat
  /\ SlowProbe \in Nat \ {0}
  /\ MaxBusy \in Nat /\ MaxRestarts \in Nat
  /\ Never \notin Nat

VARIABLES
  pace,          \* its base and tick: TelemetryConfig, within bounds
  phase,         \* what the loop is at
  busy,          \* for how long
  due,           \* time until the next tick, negative once it is late
  sincePersist,  \* since Pacer::last_persist
  sinceSlow,     \* since TelemetryCollector::last_slow
  slow,          \* this probe refreshes what is cached
  hasGpu,        \* TelemetryCollector::has_gpu
  gpu,           \* TelemetryCollector::gpu is not empty
  readable,      \* nvidia-smi or rocm-smi would find a GPU
  half,          \* of the current Unix second
  restarts,
  \* History for the properties; no action reads it.
  newSecond,     \* one began since the timestamp of the last snapshot
  late,          \* time spent awaiting since the last window ended
  sample,        \* where the reading of one probe is ...
  event          \* ... and the event that came with it, if any

gpuVars  == <<hasGpu, gpu>>
hostVars == <<readable, half, restarts>>
marks    == <<sample, event>>
vars == <<pace, phase, busy, due, sincePersist, sinceSlow, slow, gpuVars,
          hostVars, newSecond, late, marks>>

Min2(a, b) == IF a < b THEN a ELSE b
Max2(a, b) == IF a > b THEN a ELSE b

\* Mutant of Pace: the tick is not cut down to the interval.
PaceUncut(c) ==
  [base |-> 2 * (IF c.interval > 0 THEN c.interval ELSE DefaultInterval),
   tick |-> 2 * Max2(c.sample, 1)]

\* The interval and the tick of a configuration, in half seconds.
Pace(c) ==
  LET base == 2 * (IF c.interval > 0 THEN c.interval ELSE DefaultInterval)
  IN  [base |-> base, tick |-> Min2(2 * Max2(c.sample, 1), base)]

\* A config.toml that is missing or cannot be read gives the defaults; one that
\* cannot be parsed ends the process before there is a telemetry loop.
Loaded ==
  Configs \cup {[interval |-> DefaultInterval, sample |-> DefaultSample]}

Places == {"none", "window", "taken", "kept", "older", "dropped", "overwritten"}

TypeOK ==
  /\ pace \in {Pace(c) : c \in Loaded} /\ pace.tick \in 2 .. pace.base
  /\ phase \in {"waiting", "probing", "collecting", "inspecting", "saving"}
  /\ busy \in 0 .. MaxBusy /\ (phase = "waiting" => busy = 0)
  /\ due \in -4 * MaxBusy .. pace.tick
  /\ sincePersist \in Nat \cup {Never}
  /\ sinceSlow \in 0 .. 2 * SlowProbe + 1 \cup {Never}
  /\ slow \in BOOLEAN /\ (slow => phase = "probing" /\ sinceSlow # Never)
  /\ hasGpu \in BOOLEAN /\ gpu \in BOOLEAN
  /\ readable \in BOOLEAN
  /\ half \in {0, 1}
  /\ restarts \in 0 .. MaxRestarts
  /\ newSecond \in BOOLEAN
  /\ late \in Nat
  /\ sample \in Places /\ event \in Places

Init ==
  /\ pace \in {Pace(c) : c \in Loaded}
  /\ phase = "waiting" /\ busy = 0 /\ due = 0
  /\ sincePersist = Never /\ sinceSlow = Never
  /\ slow = FALSE /\ hasGpu = FALSE /\ gpu = FALSE
  /\ readable \in BOOLEAN
  /\ half = 0
  /\ restarts = 0
  /\ newSecond = TRUE
  /\ late = 0
  /\ sample = "none" /\ event = "none"

-----------------------------------------------------------------------------
(* The clock, and the host.                                                *)

\* Half a second passes.  The loop does not sleep past a tick.
Pass ==
  /\ IF phase = "waiting" THEN due > 0 ELSE busy < MaxBusy
  /\ due' = due - 1
  /\ sincePersist' = IF sincePersist = Never THEN Never ELSE sincePersist + 1
  /\ sinceSlow' = IF sinceSlow = Never THEN Never
                  ELSE Min2(sinceSlow + 1, 2 * SlowProbe + 1)
  /\ half' = 1 - half
  /\ newSecond' = (newSecond \/ half = 1)
  /\ IF phase = "waiting"
       THEN UNCHANGED <<busy, late>>
       ELSE busy' = busy + 1 /\ late' = late + 1
  /\ UNCHANGED <<pace, phase, slow, gpuVars, readable, restarts, marks>>

GpuChanges ==
  /\ readable' = ~readable
  /\ UNCHANGED <<pace, phase, busy, due, sincePersist, sinceSlow, slow,
                 gpuVars, half, restarts, newSecond, late, marks>>

Goto(p) == phase' = p /\ busy' = 0

-----------------------------------------------------------------------------
(* probe                                                                   *)

\* Whether the time since t makes up d.
Reaches(t, d) ==
  IF t = Never THEN {TRUE} ELSE IF t = d THEN BOOLEAN ELSE {t > d}

\* A tick, which came late, is followed by the next one a full period later.
\* Every SLOW_PROBE the cached readings are refreshed as well.
Wake ==
  /\ phase = "waiting" /\ due <= 0
  /\ due' = pace.tick
  /\ slow' \in Reaches(sinceSlow, 2 * SlowProbe)
  /\ sinceSlow' = IF slow' THEN 0 ELSE sinceSlow
  /\ Goto("probing")
  /\ UNCHANGED <<pace, sincePersist, gpuVars, hostVars, newSecond, late,
                 marks>>

\* Mutant of PersistAfter: the whole interval has to be over.
PersistAfterBase == pace.base

\* A window may end half a tick early, so that it does not end a tick late.
PersistAfter == pace.base - pace.tick \div 2

\* Wherever f is defined, what was marked is moved on.
Move(f) ==
  /\ sample' = IF sample \in DOMAIN f THEN f[sample] ELSE sample
  /\ event' = IF event \in DOMAIN f THEN f[event] ELSE event

\* The reading joins the samples of the window, its events are kept for the
\* snapshot.  The properties follow one reading, with an event or without.
Join ==
  \/ UNCHANGED marks
  \/ sample = "none" /\ sample' = "window" /\ event' \in {"none", "window"}

ProbeEnds ==
  /\ phase = "probing"
  /\ gpu' = IF slow /\ hasGpu THEN readable ELSE gpu
  /\ slow' = FALSE
  /\ UNCHANGED <<pace, due, sinceSlow, hasGpu, hostVars>>

\* The window goes on ...
Probe ==
  /\ ProbeEnds
  /\ FALSE \in Reaches(sincePersist, PersistAfter)
  /\ Join
  /\ Goto("waiting")
  /\ UNCHANGED <<sincePersist, newSecond, late>>

\* ... or this probe is its last, and its timestamp that of the snapshot.
WindowEnds(persisted) ==
  /\ ProbeEnds
  /\ TRUE \in Reaches(sincePersist, PersistAfter)
  /\ IF sample = "kept" /\ newSecond THEN Move([kept |-> "older"]) ELSE Join
  /\ Goto("collecting")
  /\ sincePersist' = persisted
  /\ newSecond' = FALSE
  /\ late' = 0

\* Mutant of LastProbe: last_persist is not set.
LastProbeUnset == WindowEnds(sincePersist)

LastProbe == WindowEnds(0)

-----------------------------------------------------------------------------
(* collect, save                                                           *)

\* What taking the samples or the events leaves alone.
untouched == <<pace, due, sincePersist, sinceSlow, slow, gpu, hostVars, newSecond,
              late>>

\* Mutant of Found: nobody looks for a GPU that is not known.
FoundCached == gpu

\* A GPU that is known is taken from the last slow probe, another is looked for.
Found == IF hasGpu THEN gpu ELSE readable

\* Mutant of TakeSamples: the samples are copied, not taken.
CopySamples ==
  /\ phase = "collecting"
  /\ hasGpu' = Found
  /\ Goto("inspecting")
  /\ UNCHANGED <<untouched, marks>>

\* The GPU is read; the samples of the window are the snapshot's.
TakeSamples ==
  /\ phase = "collecting"
  /\ hasGpu' = Found
  /\ sample' = IF sample = "window" THEN "taken" ELSE sample
  /\ Goto("inspecting")
  /\ UNCHANGED <<untouched, event>>

\* Mutant of TakeEvents: the events are left for the next snapshot.
LeaveEvents ==
  /\ phase = "inspecting"
  /\ Goto("saving")
  /\ UNCHANGED <<untouched, hasGpu, marks>>

\* The containers are inspected; the events that are there by then follow.
TakeEvents ==
  /\ phase = "inspecting"
  /\ event' = IF event = "window" THEN "taken" ELSE event
  /\ Goto("saving")
  /\ UNCHANGED <<untouched, hasGpu, sample>>

\* The file is named after the second: one that is there is replaced.
Saved(taken) ==
  /\ phase = "saving"
  /\ Move([taken |-> taken, kept |-> "overwritten"])
  /\ Goto("waiting")
  /\ UNCHANGED <<pace, due, sincePersist, sinceSlow, slow, gpuVars, hostVars,
                 newSecond, late>>

Save == Saved("kept")

\* The error is logged; the readings are gone with the snapshot.
SaveFails == Saved("dropped")

\* The process ends, and the service is started again.
Restart ==
  /\ restarts < MaxRestarts
  /\ restarts' = restarts + 1
  /\ pace' \in {Pace(c) : c \in Loaded}
  /\ Goto("waiting") /\ due' = 0
  /\ sincePersist' = Never /\ sinceSlow' = Never
  /\ slow' = FALSE /\ hasGpu' = FALSE /\ gpu' = FALSE
  /\ late' = 0
  /\ Move([window |-> "dropped", taken |-> "dropped"])
  /\ UNCHANGED <<readable, half, newSecond>>

Loop ==
  \/ Wake \/ Probe \/ LastProbe
  \/ TakeSamples \/ TakeEvents \/ Save \/ SaveFails

Next == Pass \/ GpuChanges \/ Loop \/ Restart

Spec == Init /\ [][Next]_vars

-----------------------------------------------------------------------------
(* Safety.                                                                 *)

\* README.md:101, "Base collection interval": a window is never longer than
\* the interval and half a tick, but for the time spent awaiting during it,
\* however late the ticks and windows before it were.
WindowEndsInTime ==
  sincePersist # Never => sincePersist <= pace.base + pace.tick \div 2 + late

\* README.md:102, "every reading is kept": no snapshot replaces another one,
\* whose name is of the same second, unless snapshots are taken every second
\* or by an agent that has just been restarted.
NoSnapshotOverwritten ==
  sample = "overwritten" => pace.base <= 2 \/ restarts > 0

\* README.md:121, events "on the snapshot": an event is in the snapshot that
\* has the reading it belongs to, and lost with it or not at all.  A snapshot
\* takes its readings and its events one after the other, with docker being
\* asked in between; only then may the two be apart, and no restart, failed save
\* or later window ever finds an event whose reading has gone ahead of it.
EventsWithReadings ==
  event # "none" =>
    \/ event = sample
    \/ phase = "inspecting" /\ sample = "taken" /\ event = "window"

-----------------------------------------------------------------------------
(* Liveness.  Whatever a step awaits comes or times out; time goes on.     *)

FairSpec == Spec /\ WF_vars(Pass) /\ WF_vars(Loop)

\* README.md:121, "every probe reading": each gets out of its window.
ReadingsAreSaved == sample = "window" ~> sample \notin {"window", "taken"}

\* A refresh comes round within every window.
RefreshedInWindow ==
  pace.base >= 2 * SlowProbe + 2 * pace.tick \/ pace.tick > 2 * SlowProbe

\* A GPU that can be read from some time on is in every reading in the end,
\* although a refresh, which depends on what the last snapshot has found, and
\* a snapshot, which takes what the last refresh has found, can each have
\* missed it.
GpuComesBack == <>[](readable /\ RefreshedInWindow) => <>[](hasGpu /\ gpu)
=============================================================================
