------------------------------- MODULE Pacer -------------------------------
(***************************************************************************)
(* How load events are detected (src/src/pacer.rs): every probe of the     *)
(* telemetry loop is compared with a moving average per signal, a kind of  *)
(* event starts after CONFIRM_PROBES probes that stand out and ends with   *)
(* one that does not, and some averages stand still while an event lasts.  *)
(*                                                                         *)
(* Readings and averages are on a grid.  An average moves 1/Window of the  *)
(* way to each reading, rounded up: as in the code, it neither stops short *)
(* of a steady reading nor overshoots it.  Window is EMA_WINDOW_SECS in    *)
(* ticks, 1/alpha.                                                         *)
(***************************************************************************)
EXTENDS Integers

CONSTANTS
  Window,
  ConfirmProbes,  \* CONFIRM_PROBES
  Jump,           \* CPU_JUMP, MEM_JUMP, GPU_JUMP, on the grid
  Least,          \* NET_SPIKE_MIN, CONN_SURGE_MIN, PPS_FLOOD_MIN
  Hosts,          \* kinds of host: what the signals of one may be at
  SinceBoot,      \* connections accepted since the boot, read as one rate
  NoReading, NoAverage

Percent == {"cpu", "mem", "gpu"}
Rate    == {"net", "conn", "pps"}
Average == Percent \cup Rate
Signal  == Average \cup {"syn"}
Kind    == Percent \cup {"net", "conn", "ddos"}

ASSUME PacerAssumption ==
  /\ Window \in Nat \ {0} /\ ConfirmProbes \in Nat \ {0, 1}
  /\ Jump \in [Percent -> Nat \ {0}]
  /\ Least \in [Rate -> Nat \ {0}]
  /\ \A i \in DOMAIN Hosts : \A h \in Hosts[i] :
       /\ h \in [Signal -> Nat \cup {NoReading}]
       /\ \A s \in Signal \ {"gpu", "conn"} : h[s] # NoReading
  /\ SinceBoot \in Nat
  /\ NoReading \notin Nat /\ NoAverage \notin Nat

\* The constants of pacer.rs that have no unit, and SYN_FLOOD.
NetSpikeMult == 4
PpsFloodMult == 5
CalmMult     == 2
SynFlood     == 100
SynCalm      == 50

VARIABLES
  kind,       \* of host, chosen once
  host,       \* what its signals are at; NoReading if that cannot be read
  reading,    \* what the last probe has read of them
  average,
  condition,
  \* History for the properties; no action reads it.
  jumped,     \* signals of which the last reading was a clear jump
  since       \* readings an event began with, if they did not fall since

vars == <<kind, host, reading, average, condition, jumped, since>>

\* The signals an event of each kind is about.
Of(k) == IF k = "ddos" THEN {"net", "conn", "pps", "syn"} ELSE {k}

\* The kind of event a jump of a signal alone should start.
KindOf(s) == IF s \in {"pps", "syn"} THEN "ddos" ELSE s

Active(k) == condition[k].active

TypeOK ==
  /\ kind \in DOMAIN Hosts /\ host \in Hosts[kind]
  /\ reading \in [Signal -> Nat \cup {NoReading}]
  /\ average \in [Average -> Nat \cup {NoAverage}]
  /\ condition \in [Kind -> [active : BOOLEAN, streak : 0 .. ConfirmProbes - 1]]
  /\ \A k \in Kind : Active(k) => condition[k].streak = 0
  /\ jumped \subseteq Signal
  /\ \A k \in Kind : since[k] # NoReading => DOMAIN since[k] = Of(k)

Init ==
  /\ kind \in DOMAIN Hosts /\ host \in Hosts[kind]
  /\ reading = [s \in Signal |-> NoReading]
  /\ average = [s \in Average |-> NoAverage]
  /\ condition = [k \in Kind |-> [active |-> FALSE, streak |-> 0]]
  /\ jumped = {}
  /\ since = [k \in Kind |-> NoReading]

-----------------------------------------------------------------------------
(* probe: rates are differences to the counters of the probe before.       *)

First == average["net"] = NoAverage

\* What a probe reads of the host h.  There is nothing to subtract from at
\* first; /proc/net/snmp counts as no connections if it cannot be read, and
\* the next time it can as all those since the boot.
Probed(h) ==
  [s \in Signal |->
     IF (s \in Rate /\ First) \/ (s = "conn" /\ h[s] = NoReading) THEN 0
     ELSE IF s = "conn" /\ host[s] = NoReading THEN SinceBoot
     ELSE h[s]]

-----------------------------------------------------------------------------
(* Ema, Condition                                                          *)

CeilDiv(a, b) == (a + b - 1) \div b

\* Mutant of Toward: alpha is exp(-tick / window), not 1 minus it.
TowardFast(v, x) ==
  IF x >= v THEN x - (x - v) \div Window ELSE x + (v - x) \div Window

Toward(v, x) ==
  IF x >= v THEN v + CeilDiv(x - v, Window) ELSE v - CeilDiv(v - x, Window)

Mult(s) == IF s = "pps" THEN PpsFloodMult ELSE NetSpikeMult

Spikes(s, x) ==
  x >= Least[s] /\ average[s] # NoAverage /\ x >= Mult(s) * average[s]

\* Mutant of Calm: both limits must be met, not the higher one.
CalmBelowBoth(s, x) ==
  x < Least[s] /\ average[s] # NoAverage /\ x < CalmMult * average[s]

Calm(s, x) ==
  \/ x < Least[s]
  \/ average[s] # NoAverage /\ x < CalmMult * average[s]

\* Mutant of Update: a probe that does not stand out leaves the streak alone.
UpdateKeepsStreak(c, start, end) ==
  CASE c.active -> [c EXCEPT !.active = ~end]
    [] ~c.active /\ ~start -> c
    [] OTHER -> [active |-> c.streak + 1 >= ConfirmProbes,
                 streak |-> (c.streak + 1) % ConfirmProbes]

\* Mutant of Update: the streak is not reset by the start of an event.
UpdateKeepsCounting(c, start, end) ==
  CASE c.active -> [c EXCEPT !.active = ~end]
    [] ~c.active /\ ~start -> [c EXCEPT !.streak = 0]
    [] OTHER -> [active |-> c.streak + 1 >= ConfirmProbes,
                 streak |-> c.streak + 1]

Update(c, start, end) ==
  CASE c.active -> [c EXCEPT !.active = ~end]
    [] ~c.active /\ ~start -> [c EXCEPT !.streak = 0]
    [] OTHER -> [active |-> c.streak + 1 >= ConfirmProbes,
                 streak |-> (c.streak + 1) % ConfirmProbes]

\* A jump above the average, not a level.
Spike(s, x) ==
  LET known == average[s] # NoAverage
  IN  Update(condition[s],
             known /\ x - average[s] >= Jump[s],
             known => 2 * (x - average[s]) < Jump[s])

-----------------------------------------------------------------------------
(* observe: detect, then update_baselines.                                 *)

Detect(p) ==
  LET percent(s) == IF p[s] = NoReading THEN condition[s] ELSE Spike(s, p[s])
      rate(s) == Update(condition[s], Spikes(s, p[s]), Calm(s, p[s]))
      both == rate("net").active /\ rate("conn").active
      ddos == Update(condition["ddos"],
                     p["syn"] >= SynFlood \/ Spikes("pps", p["pps"]) \/ both,
                     p["syn"] < SynCalm /\ Calm("pps", p["pps"]) /\ ~both)
  IN  condition' = [k \in Kind |-> IF k = "ddos" THEN ddos
                                   ELSE IF k \in Rate THEN rate(k)
                                   ELSE percent(k)]

\* Mutant of Frozen: a flood does not stop the averages of its own signals.
FrozenByOwnKind(s) == s \in {"net", "conn"} /\ condition'[s].active

\* Mutant of Frozen: the averages of CPU, memory and GPU stand still, too.
FrozenAll(s) == condition'["ddos"].active \/ (s \in Kind /\ condition'[s].active)

\* An active condition stops the averages it depends on.
Frozen(s) ==
  /\ s \in Rate
  /\ condition'["ddos"].active \/ (s \in Kind /\ condition'[s].active)

UpdateBaselines(p) ==
  average' = [s \in Average |->
    IF Frozen(s) \/ p[s] = NoReading THEN average[s]
    ELSE IF average[s] = NoAverage THEN p[s]
    ELSE Toward(average[s], p[s])]

\* Twice what it takes for an event to start.
ClearJump(s, x) ==
  /\ x # NoReading
  /\ IF s = "syn" THEN x >= SynFlood
     ELSE /\ average[s] # NoAverage
          /\ IF s \in Percent THEN x - average[s] >= 2 * Jump[s]
             ELSE x >= Least[s] /\ x >= 2 * Mult(s) * average[s]

Began(k) == ~Active(k) /\ condition'[k].active

Remember(p) ==
  /\ jumped' = {s \in Signal : ClearJump(s, p[s])}
  /\ since' = [k \in Kind |->
       IF Began(k) THEN [s \in Of(k) |-> p[s]]
       ELSE IF /\ since[k] # NoReading
               /\ \A s \in Of(k) : p[s] # NoReading /\ p[s] >= since[k][s]
              THEN since[k] ELSE NoReading]

Observe ==
  \E h \in Hosts[kind] :
    /\ host' = h
    /\ reading' = Probed(h)
    /\ Detect(reading')
    /\ UpdateBaselines(reading')
    /\ Remember(reading')
    /\ UNCHANGED kind

Next == Observe

Spec == Init /\ [][Next]_vars

-----------------------------------------------------------------------------
(* Safety.                                                                 *)

\* README.md:121, sudden jumps are recorded: a signal that jumps to twice
\* what it takes and stays there for one more probe has its event, although
\* the first of the two has moved the average already.
JumpIsReported ==
  [][\A s \in jumped :
       reading'[s] # NoReading /\ reading'[s] >= reading[s]
         => condition'[KindOf(s)].active]_vars

\* pacer.rs:170, "a long attack never becomes normal": an event of traffic,
\* connections or a flood goes on for as long as all its signals stay as high
\* as they were when it began, whatever other events begin and end meanwhile.
AttackStaysReported ==
  \A k \in {"net", "conn", "ddos"} : since[k] # NoReading => Active(k)

\* A surge of connections never begins with a reading that stands for a file
\* that could not be read before.
GlitchStartsNothing ==
  [][Began("conn") => host'["conn"] # NoReading /\ host["conn"] # NoReading]_vars

\* README.md:121, "not a steady high level": a signal that never changes has
\* no event.
SteadyLevelIsNoEvent ==
  \A k \in Kind \ {"ddos"} :
    Active(k) => \E h \in Hosts[kind] : h[k] # host[k]

-----------------------------------------------------------------------------
(* Liveness.  The telemetry loop probes every tick.                        *)

FairSpec == Spec /\ WF_vars(Observe)

\* pacer.rs:137, "a steady high load becomes the average and ends the spike".
SpikeEnds ==
  \A s \in Percent :
    (<>[](reading[s] # NoReading) /\ <>[][reading'[s] = reading[s]]_vars)
      => []<>~Active(s)

\* Once a host is calm, so are its events: none of them keeps another one, or
\* the average it is compared with, from coming to rest.
Quiet(k) ==
  \A s \in Of(k) : IF s = "syn" THEN reading[s] \in 0 .. SynCalm - 1
                   ELSE reading[s] \in 0 .. Least[s] - 1

CalmEndsEvents ==
  \A k \in {"net", "conn", "ddos"} : <>[]Quiet(k) => <>[]~Active(k)
=============================================================================
