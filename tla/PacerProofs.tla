---------------------------- MODULE PacerProofs ----------------------------
(***************************************************************************)
(* Theorems about Pacer, for every kind of host, every level its signals   *)
(* can be at and all thresholds.  What has to be known of an event that    *)
(* lasts is that the reading it began with still stands out from averages  *)
(* that stand still (Lasting); of a jump, that it still does from the      *)
(* average it has itself moved (Confirmable).                              *)
(***************************************************************************)
EXTENDS Pacer, TLAPS

\* A reading that a proof can calculate with: only the GPU's may be missing.
Readings ==
  /\ reading \in [Signal -> Nat \cup {NoReading}]
  /\ \A s \in Signal \ {"gpu"} : reading[s] \in Nat

SinceTyped ==
  \A k \in Kind : since[k] # NoReading => since[k] \in [Of(k) -> Nat]

Typed == TypeOK /\ SinceTyped

-----------------------------------------------------------------------------
(* The averages.                                                           *)

LEMMA CeilDivFacts ==
  ASSUME NEW a \in Nat
  PROVE  /\ CeilDiv(a, Window) \in Nat
         /\ Window * CeilDiv(a, Window) <= a + Window - 1
         /\ CeilDiv(a, Window) <= a
<1> DEFINE n == a + Window - 1
           q == n \div Window
<1>1. Window \in Nat /\ Window >= 1 /\ n \in Nat
  BY PacerAssumption
<1>2. q \in Nat /\ Window * q <= n
  BY <1>1
<1>3. CeilDiv(a, Window) = q
  BY DEF CeilDiv
<1> HIDE DEF q
<1>4. q <= a
  <2>1. CASE q = 0
    BY <2>1
  <2>2. CASE q # 0
    <3> DEFINE r == q - 1
    <3>1. r \in Nat
      BY <1>2, <2>2
    <3>2. Window * r >= r
      BY <1>1, <3>1
    <3>3. Window * r <= a - 1
      BY <1>1, <1>2
    <3> QED
      BY <1>1, <1>2, <3>1, <3>2, <3>3
  <2> QED
    BY <2>1, <2>2
<1> QED
  BY <1>2, <1>3, <1>4

\* An average moves towards a reading and not past it.
LEMMA TowardFacts ==
  ASSUME NEW v \in Nat, NEW x \in Nat
  PROVE  /\ Toward(v, x) \in Nat
         /\ v <= x => Toward(v, x) = v + CeilDiv(x - v, Window)
                      /\ Toward(v, x) <= x
         /\ x < v  => Toward(v, x) <= v
<1>1. CASE v <= x
  <2>1. x - v \in Nat
    BY <1>1
  <2>2. CeilDiv(x - v, Window) \in Nat /\ CeilDiv(x - v, Window) <= x - v
    BY <2>1, CeilDivFacts
  <2> QED
    BY <1>1, <2>2 DEF Toward
<1>2. CASE x < v
  <2>1. v - x \in Nat
    BY <1>2
  <2>2. CeilDiv(v - x, Window) \in Nat /\ CeilDiv(v - x, Window) <= v - x
    BY <2>1, CeilDivFacts
  <2> QED
    BY <1>2, <2>2 DEF Toward
<1> QED
  BY <1>1, <1>2

-----------------------------------------------------------------------------
(* A probe.                                                                *)

LEMMA ProbedTypes ==
  ASSUME TypeOK, Observe
  PROVE  Readings'
<1>1. PICK h \in Hosts[kind] : reading' = Probed(h)
  BY DEF Observe
<1>2. h \in [Signal -> Nat \cup {NoReading}]
      /\ \A s \in Signal \ {"gpu", "conn"} : h[s] # NoReading
  BY PacerAssumption DEF TypeOK
<1>3. SinceBoot \in Nat
  BY PacerAssumption
<1> QED
  BY <1>1, <1>2, <1>3 DEF Probed, Readings

\* What Update makes of the condition of k, said without cases of the streak.
Outcome(k, start, end) ==
  /\ condition'[k] \in [active : BOOLEAN, streak : 0 .. ConfirmProbes - 1]
  /\ condition'[k].active => condition'[k].streak = 0
  /\ Active(k) => /\ condition'[k].active <=> ~ end
                  /\ condition'[k].streak = condition[k].streak
  /\ ~ Active(k) /\ ~ start =>
       ~ condition'[k].active /\ condition'[k].streak = 0
  /\ ~ Active(k) /\ start =>
       IF condition[k].streak + 1 = ConfirmProbes
         THEN condition'[k].active /\ condition'[k].streak = 0
         ELSE /\ ~ condition'[k].active
              /\ condition'[k].streak = condition[k].streak + 1

LEMMA StreakFacts ==
  ASSUME NEW n \in 0 .. ConfirmProbes - 1
  PROVE  /\ n + 1 >= ConfirmProbes <=> n + 1 = ConfirmProbes
         /\ (n + 1) % ConfirmProbes = IF n + 1 = ConfirmProbes THEN 0 ELSE n + 1
<1>1. CASE n + 1 = ConfirmProbes
  BY <1>1, PacerAssumption
<1>2. CASE n + 1 < ConfirmProbes
  BY <1>2, PacerAssumption
<1> QED
  BY <1>1, <1>2, PacerAssumption

LEMMA UpdateOutcome ==
  ASSUME TypeOK, NEW k \in Kind, NEW start \in BOOLEAN, NEW end \in BOOLEAN,
         condition'[k] = Update(condition[k], start, end)
  PROVE  Outcome(k, start, end)
<1>1. condition[k] \in [active : BOOLEAN, streak : 0 .. ConfirmProbes - 1]
  BY DEF TypeOK
<1>2. CASE Active(k)
  <2>1. condition'[k] = [condition[k] EXCEPT !.active = ~ end]
        /\ condition[k].streak = 0
    BY <1>2 DEF Update, Active, TypeOK
  <2> QED
    BY <1>1, <1>2, <2>1 DEF Outcome, Active
<1>3. CASE ~ Active(k) /\ ~ start
  <2>1. condition'[k] = [condition[k] EXCEPT !.streak = 0]
    BY <1>3 DEF Update, Active
  <2>2. 0 \in 0 .. ConfirmProbes - 1
    BY PacerAssumption
  <2> QED
    BY <1>1, <1>3, <2>1, <2>2 DEF Outcome, Active
<1>4. CASE ~ Active(k) /\ start
  <2> DEFINE n == condition[k].streak
  <2>1. n \in 0 .. ConfirmProbes - 1
    BY <1>1
  <2>2. condition'[k] = [active |-> n + 1 >= ConfirmProbes,
                         streak |-> (n + 1) % ConfirmProbes]
    BY <1>4 DEF Update, Active
  <2> HIDE DEF n
  <2>3. CASE n + 1 = ConfirmProbes
    <3>1. (n + 1 >= ConfirmProbes) = TRUE /\ (n + 1) % ConfirmProbes = 0
      BY <2>1, <2>3, StreakFacts
    <3>2. condition'[k] = [active |-> TRUE, streak |-> 0]
      BY <2>2, <3>1
    <3>3. 0 \in 0 .. ConfirmProbes - 1
      BY PacerAssumption
    <3>4. condition'[k].active = TRUE /\ condition'[k].streak = 0
      BY <3>2
    <3>5. condition'[k] \in [active : BOOLEAN, streak : 0 .. ConfirmProbes - 1]
      BY <3>2, <3>3
    <3> QED
      BY <1>4, <2>3, <3>4, <3>5 DEF Outcome, n
  <2>4. CASE n + 1 # ConfirmProbes
    <3>1. (n + 1 >= ConfirmProbes) = FALSE /\ (n + 1) % ConfirmProbes = n + 1
      BY <2>1, <2>4, StreakFacts
    <3>2. condition'[k] = [active |-> FALSE, streak |-> n + 1]
      BY <2>2, <3>1
    <3>3. n + 1 \in 0 .. ConfirmProbes - 1
      BY <2>1, <2>4, PacerAssumption
    <3>4. condition'[k].active = FALSE /\ condition'[k].streak = n + 1
      BY <3>2
    <3>5. condition'[k] \in [active : BOOLEAN, streak : 0 .. ConfirmProbes - 1]
      BY <3>2, <3>3
    <3> QED
      BY <1>4, <2>4, <3>4, <3>5 DEF Outcome, n
  <2> QED
    BY <2>3, <2>4
<1> QED
  BY <1>2, <1>3, <1>4

LEMMA RateOutcome ==
  ASSUME TypeOK, Observe, NEW k \in {"net", "conn"}
  PROVE  Outcome(k, Spikes(k, reading'[k]), Calm(k, reading'[k]))
<1>1. condition'[k] =
        Update(condition[k], Spikes(k, reading'[k]), Calm(k, reading'[k]))
  BY DEF Observe, Detect, Kind, Percent, Rate
<1>2. Spikes(k, reading'[k]) \in BOOLEAN /\ Calm(k, reading'[k]) \in BOOLEAN
  BY DEF Spikes, Calm
<1>3. k \in Kind
  BY DEF Kind
<1> QED
  BY <1>1, <1>2, <1>3, UpdateOutcome

\* Both: traffic and connections at once.
Both == condition'["net"].active /\ condition'["conn"].active

FloodStarts ==
  reading'["syn"] >= SynFlood \/ Spikes("pps", reading'["pps"]) \/ Both

FloodEnds ==
  reading'["syn"] < SynCalm /\ Calm("pps", reading'["pps"]) /\ ~ Both

LEMMA FloodOutcome ==
  ASSUME TypeOK, Observe
  PROVE  Outcome("ddos", FloodStarts, FloodEnds)
<1>1. condition'["ddos"] = Update(condition["ddos"], FloodStarts, FloodEnds)
  BY DEF Observe, Detect, Kind, Percent, Rate, FloodStarts, FloodEnds, Both
<1>2. FloodStarts \in BOOLEAN /\ FloodEnds \in BOOLEAN
  BY DEF FloodStarts, FloodEnds
<1>3. "ddos" \in Kind
  BY DEF Kind
<1> QED
  BY <1>1, <1>2, <1>3, UpdateOutcome

\* A percentage stands out by Jump, and no more by less than half of it.
Jumps(k) == average[k] # NoAverage /\ reading'[k] - average[k] >= Jump[k]
Settles(k) ==
  average[k] # NoAverage => 2 * (reading'[k] - average[k]) < Jump[k]

LEMMA PercentOutcome ==
  ASSUME TypeOK, Observe, NEW k \in Percent
  PROVE  IF reading'[k] = NoReading THEN condition'[k] = condition[k]
                                    ELSE Outcome(k, Jumps(k), Settles(k))
<1>0. k \in Kind /\ k # "ddos" /\ k \notin Rate
  BY DEF Kind, Percent, Rate
<1>1. CASE reading'[k] = NoReading
  BY <1>0, <1>1 DEF Observe, Detect
<1>2. CASE reading'[k] # NoReading
  <2>1. condition'[k] = Update(condition[k], Jumps(k), Settles(k))
    BY <1>0, <1>2 DEF Observe, Detect, Spike, Jumps, Settles
  <2>2. Jumps(k) \in BOOLEAN /\ Settles(k) \in BOOLEAN
    BY DEF Jumps, Settles
  <2> QED
    BY <1>0, <1>2, <2>1, <2>2, UpdateOutcome
<1> QED
  BY <1>1, <1>2

-----------------------------------------------------------------------------
(* Types.                                                                  *)

LEMMA ConditionTypes ==
  ASSUME TypeOK, Observe
  PROVE  /\ condition' \in [Kind -> [active : BOOLEAN,
                                    streak : 0 .. ConfirmProbes - 1]]
         /\ \A k \in Kind : condition'[k].active => condition'[k].streak = 0
<1>1. ASSUME NEW k \in Kind
      PROVE  /\ condition'[k] \in [active : BOOLEAN,
                                   streak : 0 .. ConfirmProbes - 1]
             /\ condition'[k].active => condition'[k].streak = 0
  <2>1. CASE k = "ddos"
    BY <2>1, FloodOutcome DEF Outcome
  <2>2. CASE k \in {"net", "conn"}
    BY <2>2, RateOutcome DEF Outcome
  <2>3. CASE k \in Percent
    <3>1. CASE reading'[k] = NoReading
      BY <2>3, <3>1, PercentOutcome DEF TypeOK, Active
    <3>2. CASE reading'[k] # NoReading
      BY <2>3, <3>2, PercentOutcome DEF Outcome
    <3> QED
      BY <3>1, <3>2
  <2> QED
    BY <2>1, <2>2, <2>3 DEF Kind
<1>2. \E f : condition' = [k \in Kind |-> f[k]]
  BY DEF Observe, Detect
<1> QED
  BY <1>1, <1>2

LEMMA AverageTypes ==
  ASSUME TypeOK, Observe
  PROVE  average' \in [Average -> Nat \cup {NoAverage}]
<1>1. average' = [s \in Average |->
        IF Frozen(s) \/ reading'[s] = NoReading THEN average[s]
        ELSE IF average[s] = NoAverage THEN reading'[s]
        ELSE Toward(average[s], reading'[s])]
  BY DEF Observe, UpdateBaselines
<1>2. ASSUME NEW s \in Average, reading'[s] # NoReading
      PROVE  reading'[s] \in Nat
  BY <1>2, ProbedTypes DEF Readings, Average, Signal
<1>3. ASSUME NEW s \in Average, reading'[s] # NoReading,
             average[s] # NoAverage
      PROVE  Toward(average[s], reading'[s]) \in Nat
  BY <1>2, <1>3, TowardFacts DEF TypeOK
<1> QED
  BY <1>1, <1>2, <1>3 DEF TypeOK

LEMMA SinceTypes ==
  ASSUME Typed, Observe
  PROVE  SinceTyped'
<1> SUFFICES ASSUME NEW k \in Kind, since'[k] # NoReading
             PROVE  since'[k] \in [Of(k) -> Nat]
  BY DEF SinceTyped
<1>1. since'[k] = IF Began(k) THEN [s \in Of(k) |-> reading'[s]]
                  ELSE IF /\ since[k] # NoReading
                          /\ \A s \in Of(k) : /\ reading'[s] # NoReading
                                              /\ reading'[s] >= since[k][s]
                         THEN since[k] ELSE NoReading
  BY DEF Observe, Remember
<1>2. CASE Began(k)
  <2>1. \A s \in Of(k) : reading'[s] \in Nat
    <3>1. CASE k # "gpu"
      BY <3>1, ProbedTypes
      DEF Readings, Of, Kind, Signal, Average, Percent, Rate, Typed
    <3>2. CASE k = "gpu"
      <4>1. reading'["gpu"] # NoReading
        <5> SUFFICES ASSUME reading'["gpu"] = NoReading PROVE FALSE
          OBVIOUS
        <5>1. condition'[k] = condition[k]
          BY <3>2, PercentOutcome DEF Percent, Typed
        <5> QED
          BY <1>2, <5>1 DEF Began, Active
      <4>2. reading'["gpu"] \in Nat
        BY <4>1, ProbedTypes
        DEF Readings, Signal, Average, Percent, Typed
      <4> QED
        BY <3>2, <4>2 DEF Of
    <3> QED
      BY <3>1, <3>2
  <2> QED
    BY <1>1, <1>2, <2>1
<1>3. CASE ~ Began(k)
  BY <1>1, <1>3 DEF Typed, SinceTyped
<1> QED
  BY <1>2, <1>3

LEMMA TypeInit == Init => Typed
<1> SUFFICES ASSUME Init PROVE Typed
  OBVIOUS
<1>1. 0 \in 0 .. ConfirmProbes - 1
  BY PacerAssumption
<1> QED
  BY <1>1 DEF Init, Typed, TypeOK, SinceTyped, Active

LEMMA TypeStep ==
  ASSUME Typed, [Next]_vars
  PROVE  Typed'
<1>1. CASE Observe
  <2>1. TypeOK
    BY DEF Typed
  <2>2. SinceTyped'
    BY <1>1, SinceTypes
  <2>3. Readings'
    BY <1>1, <2>1, ProbedTypes
  <2>4. kind' \in DOMAIN Hosts /\ host' \in Hosts[kind'] /\ jumped' \subseteq Signal
    BY <1>1 DEF Observe, Remember, Typed, TypeOK
  <2>5. \A k \in Kind : since'[k] # NoReading => DOMAIN since'[k] = Of(k)
    BY <2>2 DEF SinceTyped
  <2> QED
    BY <1>1, <2>1, <2>2, <2>3, <2>4, <2>5, ConditionTypes, AverageTypes
    DEF Readings, Typed, TypeOK, Active
<1>2. CASE UNCHANGED vars
  BY <1>2 DEF vars, Typed, TypeOK, SinceTyped, Active
<1> QED
  BY <1>1, <1>2 DEF Next

\* Averages stay on the grid and do not fall below nothing, a streak never
\* gets as far as the probe that confirms it, and an event has none.
THEOREM TypeCorrect == Spec => []TypeOK
<1>1. Typed => TypeOK
  BY DEF Typed
<1> QED
  BY <1>1, TypeInit, TypeStep, PTL DEF Spec

-----------------------------------------------------------------------------
(* Events last.                                                            *)

\* x still stands out from the average of s.
NotCalm(s, x) == ~ Calm(s, x)

\* The readings r, with which an event of kind k began, still keep it up.
Holds(k, r) ==
  IF k = "ddos"
    THEN \/ r["syn"] >= SynCalm
         \/ NotCalm("pps", r["pps"])
         \/ /\ Active("net") /\ NotCalm("net", r["net"])
            /\ Active("conn") /\ NotCalm("conn", r["conn"])
    ELSE NotCalm(k, r[k])

Lasting ==
  \A k \in {"net", "conn", "ddos"} : since[k] # NoReading =>
    Active(k) /\ Holds(k, since[k])

\* More than what is not calm is not calm either, nor is what spikes.
LEMMA NotCalmFacts ==
  ASSUME TypeOK, NEW s \in Rate, NEW x \in Nat
  PROVE  /\ \A y \in Nat : y >= x /\ NotCalm(s, x) => NotCalm(s, y)
         /\ Spikes(s, x) => NotCalm(s, x)
<1>1. Least[s] \in Nat
  BY PacerAssumption
<1>2. average[s] # NoAverage => average[s] \in Nat
  BY DEF TypeOK, Average
<1>3. Mult(s) \in {4, 5}
  BY DEF Mult, PpsFloodMult, NetSpikeMult
<1> QED
  BY <1>1, <1>2, <1>3 DEF NotCalm, Calm, Spikes, CalmMult

\* An event in progress stops the averages of its own signals.
LEMMA AverageStands ==
  ASSUME Observe, NEW s \in Rate,
         \/ condition'["ddos"].active
         \/ s \in {"net", "conn"} /\ condition'[s].active
  PROVE  average'[s] = average[s]
BY DEF Observe, UpdateBaselines, Frozen, Average, Kind, Rate

\* An event of traffic or connections is there as long as its signal is high.
LEMMA RateLasts ==
  ASSUME TypeOK, Observe, NEW k \in {"net", "conn"}
  PROVE  /\ condition'[k].active => NotCalm(k, reading'[k])
         /\ Active(k) /\ NotCalm(k, reading'[k]) => condition'[k].active
<1>1. Outcome(k, Spikes(k, reading'[k]), Calm(k, reading'[k]))
  BY RateOutcome
<1>2. reading'[k] \in Nat /\ k \in Rate
  BY ProbedTypes DEF Readings, Signal, Average, Rate
<1>3. Spikes(k, reading'[k]) => NotCalm(k, reading'[k])
  BY <1>2, NotCalmFacts
<1> QED
  BY <1>1, <1>3 DEF Outcome, NotCalm

LEMMA LastingStep ==
  ASSUME Typed, Lasting, Observe
  PROVE  Lasting'
<1> SUFFICES ASSUME NEW k \in {"net", "conn", "ddos"}, since'[k] # NoReading
             PROVE  Active(k)' /\ Holds(k, since[k])'
  BY DEF Lasting
<1>1. TypeOK /\ k \in Kind
  BY DEF Typed, Kind
<1>2. \A s \in Of(k) : reading'[s] \in Nat
  BY <1>1, ProbedTypes
  DEF Readings, Of, Signal, Average, Percent, Rate
<1>3. since'[k] = IF Began(k) THEN [s \in Of(k) |-> reading'[s]]
                  ELSE IF /\ since[k] # NoReading
                          /\ \A s \in Of(k) : /\ reading'[s] # NoReading
                                              /\ reading'[s] >= since[k][s]
                         THEN since[k] ELSE NoReading
  BY <1>1 DEF Observe, Remember
\* The readings of the event are now no higher than the signals.
<1>4. since'[k] \in [Of(k) -> Nat] /\ \A s \in Of(k) : since'[k][s] <= reading'[s]
  <2>1. since'[k] \in [Of(k) -> Nat]
    BY <1>1, SinceTypes DEF SinceTyped
  <2>2. CASE Began(k)
    BY <1>2, <1>3, <2>1, <2>2
  <2>3. CASE ~ Began(k)
    BY <1>2, <1>3, <2>1, <2>3
  <2> QED
    BY <2>1, <2>2, <2>3
<1>5. CASE k \in {"net", "conn"}
  <2>1. k \in Of(k) /\ k \in Rate
    BY <1>5 DEF Of, Rate
  <2>2. Active(k)' /\ NotCalm(k, since'[k][k])
    <3>1. CASE Began(k)
      <4>1. since'[k][k] = reading'[k]
        BY <1>3, <2>1, <3>1
      <4> QED
        BY <1>1, <1>5, <3>1, <4>1, RateLasts DEF Began, Active
    <3>2. CASE ~ Began(k)
      <4>1. since'[k] = since[k] /\ since[k] # NoReading
        BY <1>3, <3>2
      <4>2. Active(k) /\ NotCalm(k, since[k][k])
        BY <1>5, <4>1 DEF Lasting, Holds
      <4>3. NotCalm(k, reading'[k])
        BY <1>1, <1>2, <1>4, <2>1, <4>1, <4>2, NotCalmFacts
      <4> QED
        BY <1>1, <1>5, <4>1, <4>2, <4>3, RateLasts DEF Active
    <3> QED
      BY <3>1, <3>2
  <2>3. average'[k] = average[k]
    BY <1>5, <2>1, <2>2, AverageStands DEF Active
  <2> QED
    BY <1>5, <2>2, <2>3 DEF Holds, NotCalm, Calm
<1>6. CASE k = "ddos"
  <2>1. {"net", "conn", "pps", "syn"} = Of(k) /\ {"net", "conn", "pps"} = Rate
    BY <1>6 DEF Of, Rate
  <2>2. Outcome("ddos", FloodStarts, FloodEnds)
    BY <1>1, FloodOutcome
  <2> DEFINE r == since'[k]
             Still == \/ r["syn"] >= SynCalm
                      \/ NotCalm("pps", r["pps"])
                      \/ /\ condition'["net"].active /\ NotCalm("net", r["net"])
                         /\ condition'["conn"].active /\ NotCalm("conn", r["conn"])
  <2>3. condition'["ddos"].active /\ Still
    <3>1. CASE Began(k)
      <4>1. \A s \in Of(k) : r[s] = reading'[s]
        BY <1>3, <3>1
      <4>2. condition'["ddos"].active /\ FloodStarts
        BY <1>6, <2>2, <3>1 DEF Began, Outcome
      <4>3. CASE reading'["syn"] >= SynFlood
        BY <1>2, <2>1, <4>1, <4>2, <4>3 DEF SynFlood, SynCalm
      <4>4. CASE Spikes("pps", reading'["pps"])
        BY <1>1, <1>2, <2>1, <4>1, <4>2, <4>4, NotCalmFacts
      <4>5. CASE Both
        BY <1>1, <2>1, <4>1, <4>2, <4>5, RateLasts DEF Both
      <4> QED
        BY <4>2, <4>3, <4>4, <4>5 DEF FloodStarts
    <3>2. CASE ~ Began(k)
      <4>1. r = since[k] /\ since[k] # NoReading
        BY <1>3, <3>2
      <4>2. Active("ddos") /\ Holds("ddos", r)
        BY <1>6, <4>1 DEF Lasting
      <4>3. Still /\ ~ FloodEnds
        <5> HIDE DEF r
        <5>1. CASE r["syn"] >= SynCalm
          BY <1>2, <1>4, <2>1, <5>1 DEF r, SynCalm, FloodEnds
        <5>2. CASE NotCalm("pps", r["pps"])
          <6>1. NotCalm("pps", reading'["pps"])
            BY <1>1, <1>2, <1>4, <2>1, <5>2, NotCalmFacts DEF r
          <6> QED
            BY <5>2, <6>1 DEF FloodEnds, NotCalm
        <5>3. ASSUME NEW s \in {"net", "conn"}, Active(s), NotCalm(s, r[s])
              PROVE  condition'[s].active
          <6>1. NotCalm(s, reading'[s])
            BY <1>1, <1>2, <1>4, <2>1, <5>3, NotCalmFacts DEF r
          <6> QED
            BY <1>1, <5>3, <6>1, RateLasts
        <5> QED
          BY <4>2, <5>1, <5>2, <5>3 DEF Holds, FloodEnds, Both
      <4> QED
        BY <2>2, <4>2, <4>3 DEF Outcome
    <3> QED
      BY <3>1, <3>2
  <2>4. \A s \in Rate : average'[s] = average[s]
    BY <2>3, AverageStands
  <2> HIDE DEF r
  <2>5. \A s \in Rate : NotCalm(s, r[s]) => ~ (\/ r[s] < Least[s]
                                              \/ /\ average'[s] # NoAverage
                                                 /\ r[s] < CalmMult * average'[s])
    BY <2>4 DEF NotCalm, Calm
  <2> QED
    BY <1>6, <2>1, <2>3, <2>5 DEF Holds, NotCalm, Calm, Active, r
<1> QED
  BY <1>5, <1>6

\* An event of traffic, of connections or a flood goes on for as long as its
\* signals are as high as when it began, whatever other events begin and end.
THEOREM AttacksStayReported == Spec => []AttackStaysReported
<1>1. Init => Lasting
  BY DEF Init, Lasting, Kind
<1>2. Typed /\ Lasting /\ [Next]_vars => Lasting'
  <2>1. CASE UNCHANGED vars
    BY <2>1 DEF vars, Lasting, Holds, NotCalm, Calm, Active
  <2> QED
    BY <2>1, LastingStep DEF Next
<1>3. Lasting => AttackStaysReported
  BY DEF Lasting, AttackStaysReported
<1> QED
  BY <1>1, <1>2, <1>3, TypeInit, TypeStep, PTL DEF Spec

-----------------------------------------------------------------------------
(* Connections that could not be counted.                                  *)

\* A reading that could not be taken counts as none and breaks a streak.
Broken ==
  host["conn"] = NoReading /\ ~ Active("conn") => condition["conn"].streak = 0

LEMMA NoReadingIsNone ==
  ASSUME TypeOK, Observe, host'["conn"] = NoReading
  PROVE  ~ Spikes("conn", reading'["conn"])
<1>1. reading'["conn"] = 0
  BY DEF Observe, Probed, Signal, Average, Rate
<1>2. Least["conn"] \in Nat /\ Least["conn"] > 0
  BY PacerAssumption DEF Rate
<1> QED
  BY <1>1, <1>2 DEF Spikes

LEMMA BrokenStep ==
  ASSUME TypeOK, Broken, [Next]_vars
  PROVE  Broken'
<1>1. CASE Observe
  <2> SUFFICES ASSUME host'["conn"] = NoReading, ~ condition'["conn"].active
               PROVE  condition'["conn"].streak = 0
    BY DEF Broken, Active
  <2>1. ~ Spikes("conn", reading'["conn"])
    BY <1>1, NoReadingIsNone
  <2>2. Active("conn") => condition["conn"].streak = 0
    BY DEF TypeOK, Kind
  <2> QED
    BY <1>1, <2>1, <2>2, RateOutcome DEF Outcome
<1>2. CASE UNCHANGED vars
  BY <1>2 DEF vars, Broken, Active
<1> QED
  BY <1>1, <1>2 DEF Next

\* Connections counted since the boot, as a probe sees them after one that
\* could not count any, never start a surge.
THEOREM GlitchesStartNothing == Spec => GlitchStartsNothing
<1>1. Init => Broken
  BY DEF Init, Broken, Kind
<1>2. TypeOK /\ Broken /\ [Next]_vars =>
        [Began("conn") => host'["conn"] # NoReading /\ host["conn"] # NoReading]_vars
  <2> SUFFICES ASSUME TypeOK, Broken, Observe, Began("conn")
               PROVE  host'["conn"] # NoReading /\ host["conn"] # NoReading
    BY DEF Next
  <2>1. /\ Spikes("conn", reading'["conn"])
        /\ condition["conn"].streak + 1 = ConfirmProbes
    BY RateOutcome DEF Outcome, Began
  <2>2. condition["conn"].streak # 0
    BY <2>1, PacerAssumption
  <2> QED
    BY <2>1, <2>2, NoReadingIsNone DEF Broken, Began
<1>3. Typed => TypeOK
  BY DEF Typed
<1> QED
  BY <1>1, <1>2, <1>3, TypeInit, TypeStep, BrokenStep, PTL
  DEF Spec, GlitchStartsNothing

-----------------------------------------------------------------------------
(* Jumps.                                                                  *)

\* Two probes confirm an event; the averages are slow enough (see README.md:
\* ticks of up to some three seconds) and a step of the grid is not more than
\* what a multiple of one step would be a spike of.
Confirming ==
  /\ ConfirmProbes = 2
  /\ Window >= 15
  /\ \A s \in Rate : Least[s] >= Mult(s)

\* x starts an event of its signal, were it to be confirmed.
StandsOut(s, x) ==
  IF s = "syn" THEN x >= SynFlood
  ELSE IF s \in Percent THEN average[s] # NoAverage /\ x - average[s] >= Jump[s]
  ELSE Spikes(s, x)

\* A clear jump has its event, or is one probe short of it, and stands out
\* from what the average has become by it.
Confirmable ==
  \A s \in jumped :
    /\ reading[s] # NoReading
    /\ Active(KindOf(s)) \/ condition[KindOf(s)].streak = 1
    /\ StandsOut(s, reading[s])

\* The average a spike of twice the multiple leaves is one it still spikes
\* above: by how much it is rounded up matters only for small readings, and
\* those move it by one or two steps.
LEMMA SpikeSurvives ==
  ASSUME Confirming, NEW m \in {4, 5}, NEW v \in Nat, NEW x \in Nat,
         x >= m, x >= 2 * m * v
  PROVE  x >= m * Toward(v, x)
<1>1. v <= x /\ x - v \in Nat
  OBVIOUS
<1> DEFINE q == CeilDiv(x - v, Window)
<1>2. q \in Nat /\ Window * q <= (x - v) + Window - 1 /\ Window \in Nat
  BY <1>1, CeilDivFacts, PacerAssumption
<1>3. Toward(v, x) = v + q
  BY <1>1, TowardFacts
<1> HIDE DEF q
<1>4. CASE q <= 1
  BY <1>2, <1>3, <1>4
<1>5. CASE q > 1
  <2> DEFINE r == q - 1
  <2>1. r \in Nat /\ r >= 1
    BY <1>2, <1>5
  <2>2. Window * r <= x - v - 1
    BY <1>2
  <2>3. 15 * r <= Window * r
    BY <1>2, <2>1 DEF Confirming
  <2>4. 15 * r <= x - v - 1 /\ q = r + 1
    BY <1>2, <2>1, <2>2, <2>3
  <2> HIDE DEF r
  <2>5. CASE m = 4
    BY <1>2, <1>3, <2>1, <2>4, <2>5
  <2>6. CASE m = 5
    BY <1>2, <1>3, <2>1, <2>4, <2>6
  <2> QED
    BY <2>5, <2>6
<1> QED
  BY <1>2, <1>4, <1>5

LEMMA JumpSurvives ==
  ASSUME Confirming, NEW j \in Nat, NEW v \in Nat, NEW x \in Nat,
         x - v >= 2 * j
  PROVE  x - Toward(v, x) >= j
<1>1. v <= x /\ x - v \in Nat
  OBVIOUS
<1> DEFINE q == CeilDiv(x - v, Window)
<1>2. q \in Nat /\ Window * q <= (x - v) + Window - 1 /\ Window \in Nat
  BY <1>1, CeilDivFacts, PacerAssumption
<1>3. Toward(v, x) = v + q /\ q <= x - v
  BY <1>1, TowardFacts, CeilDivFacts
<1> HIDE DEF q
<1>4. CASE q = 0
  BY <1>1, <1>3, <1>4
<1>5. CASE q # 0
  <2> DEFINE r == q - 1
  <2>1. r \in Nat
    BY <1>2, <1>5
  <2>2. Window * r <= x - v - 1
    BY <1>2
  <2>3. 2 * r <= Window * r
    BY <1>2, <2>1 DEF Confirming
  <2>4. 2 * r <= x - v - 1 /\ q = r + 1
    BY <1>2, <2>1, <2>2, <2>3
  <2> HIDE DEF r
  <2> QED
    BY <1>2, <1>3, <2>1, <2>4
<1> QED
  BY <1>4, <1>5

\* Rates are never negative, other signals only if they can be read.
LEMMA ReadingTypes ==
  ASSUME TypeOK, Observe, NEW s \in Signal, reading'[s] # NoReading
  PROVE  reading'[s] \in Nat
BY ProbedTypes DEF Readings

\* What stands out keeps an event up, or brings one on.
LEMMA StandingOutCounts ==
  ASSUME TypeOK, Observe, NEW s \in Signal, reading'[s] # NoReading,
         StandsOut(s, reading'[s])
  PROVE  /\ Active(KindOf(s)) => condition'[KindOf(s)].active
         /\ ~ Active(KindOf(s)) =>
              IF condition[KindOf(s)].streak + 1 = ConfirmProbes
                THEN condition'[KindOf(s)].active
                ELSE condition'[KindOf(s)].streak =
                       condition[KindOf(s)].streak + 1
<1>1. reading'[s] \in Nat
  BY ReadingTypes
<1>2. CASE s \in Percent
  <2>1. KindOf(s) = s /\ s # "syn"
    BY <1>2 DEF KindOf, Percent
  <2>2. Outcome(s, Jumps(s), Settles(s))
    BY <1>2, PercentOutcome
  <2>3. average[s] \in Nat /\ Jump[s] \in Nat /\ Jump[s] > 0
    BY <1>2, <2>1, PacerAssumption DEF StandsOut, TypeOK, Average
  <2>4. Jumps(s) /\ ~ Settles(s)
    BY <1>1, <1>2, <2>1, <2>3 DEF StandsOut, Jumps, Settles
  <2> QED
    BY <2>1, <2>2, <2>4 DEF Outcome
<1>3. CASE s \in {"net", "conn"}
  <2>1. KindOf(s) = s /\ s # "syn" /\ s \notin Percent /\ s \in Rate
    BY <1>3 DEF KindOf, Percent, Rate
  <2>2. Outcome(s, Spikes(s, reading'[s]), Calm(s, reading'[s]))
    BY <1>3, RateOutcome
  <2>3. Spikes(s, reading'[s]) /\ ~ Calm(s, reading'[s])
    BY <1>1, <2>1, NotCalmFacts DEF StandsOut, NotCalm
  <2> QED
    BY <2>1, <2>2, <2>3 DEF Outcome
<1>4. CASE s \in {"pps", "syn"}
  <2>1. KindOf(s) = "ddos" /\ s \notin Percent /\ "pps" \in Rate
    BY <1>4 DEF KindOf, Percent, Rate
  <2>2. Outcome("ddos", FloodStarts, FloodEnds)
    BY FloodOutcome
  <2>3. FloodStarts /\ ~ FloodEnds
    <3>1. CASE s = "syn"
      BY <1>1, <3>1 DEF StandsOut, FloodStarts, FloodEnds, SynFlood, SynCalm
    <3>2. CASE s = "pps"
      <4>1. Spikes("pps", reading'["pps"]) /\ ~ Calm("pps", reading'["pps"])
        BY <1>1, <2>1, <3>2, NotCalmFacts DEF StandsOut, NotCalm
      <4> QED
        BY <4>1 DEF FloodStarts, FloodEnds
    <3> QED
      BY <1>4, <3>1, <3>2
  <2> QED
    BY <2>1, <2>2, <2>3 DEF Outcome
<1> QED
  BY <1>2, <1>3, <1>4 DEF Signal, Average, Rate

\* A clear jump stands out, before and after it has moved the average.
LEMMA ClearJumpStandsOut ==
  ASSUME Confirming, TypeOK, Observe, NEW s \in Signal,
         ClearJump(s, reading'[s])
  PROVE  StandsOut(s, reading'[s]) /\ StandsOut(s, reading[s])'
<1>1. reading'[s] \in Nat
  BY ReadingTypes DEF ClearJump
<1> DEFINE x == reading'[s]
           v == average[s]
<1>2. CASE s = "syn"
  BY <1>2 DEF ClearJump, StandsOut
<1>3. CASE s # "syn"
  <2>1. s \in Average /\ v # NoAverage /\ v \in Nat
    BY <1>3 DEF ClearJump, Signal, TypeOK
  <2>2. average'[s] = v \/ average'[s] = Toward(v, x)
    BY <1>1, <2>1 DEF Observe, UpdateBaselines
  <2>3. Toward(v, x) \in Nat /\ Toward(v, x) # NoAverage
    BY <1>1, <2>1, TowardFacts, PacerAssumption
  <2>4. CASE s \in Percent
    <3>1. Jump[s] \in Nat /\ x - v >= 2 * Jump[s]
      BY <1>3, <2>4, PacerAssumption DEF ClearJump
    <3>2. x - Toward(v, x) >= Jump[s]
      BY <1>1, <2>1, <3>1, JumpSurvives
    <3>3. x - v >= Jump[s]
      BY <1>1, <2>1, <3>1
    <3> QED
      BY <1>3, <2>1, <2>2, <2>3, <2>4, <3>2, <3>3 DEF StandsOut
  <2>5. CASE s \in Rate
    <3>1. s \notin Percent
      BY <2>5 DEF Rate, Percent
    <3>2. Mult(s) \in {4, 5} /\ Least[s] \in Nat /\ Least[s] >= Mult(s)
      BY <2>5, PacerAssumption DEF Confirming, Mult, PpsFloodMult, NetSpikeMult
    <3>3. x >= Least[s] /\ x >= 2 * Mult(s) * v
      BY <1>3, <3>1 DEF ClearJump
    <3>4. x >= Mult(s) * Toward(v, x)
      BY <1>1, <2>1, <3>2, <3>3, SpikeSurvives
    <3>5. x >= Mult(s) * v
      BY <1>1, <2>1, <3>2, <3>3
    <3> QED
      BY <1>3, <2>1, <2>2, <2>3, <3>1, <3>3, <3>4, <3>5 DEF StandsOut, Spikes
  <2> QED
    BY <2>1, <2>4, <2>5 DEF Average
<1> QED
  BY <1>2, <1>3

LEMMA ConfirmableStep ==
  ASSUME Confirming, TypeOK, Confirmable, [Next]_vars
  PROVE  Confirmable'
<1>1. CASE Observe
  <2> SUFFICES ASSUME NEW s \in jumped'
               PROVE  /\ reading'[s] # NoReading
                      /\ \/ condition'[KindOf(s)].active
                         \/ condition'[KindOf(s)].streak = 1
                      /\ StandsOut(s, reading[s])'
    BY DEF Confirmable, Active
  <2>1. s \in Signal /\ ClearJump(s, reading'[s])
    BY <1>1 DEF Observe, Remember
  <2>2. reading'[s] # NoReading
    BY <2>1 DEF ClearJump
  <2>3. StandsOut(s, reading'[s]) /\ StandsOut(s, reading[s])'
    BY <1>1, <2>1, ClearJumpStandsOut
  <2>4. KindOf(s) \in Kind
    BY <2>1 DEF KindOf, Signal, Average, Percent, Rate, Kind
  <2>5. condition[KindOf(s)].streak \in 0 .. 1
    BY <2>4 DEF TypeOK, Confirming
  <2> QED
    BY <1>1, <2>1, <2>2, <2>3, <2>5, StandingOutCounts DEF Confirming
<1>2. CASE UNCHANGED vars
  BY <1>2 DEF vars, Confirmable, StandsOut, Spikes, Active
<1> QED
  BY <1>1, <1>2 DEF Next

\* A signal that jumps to twice what it takes, and stays there for one more
\* probe, has its event, although the first has moved the average already.
THEOREM JumpsAreReported ==
  ASSUME Confirming
  PROVE  Spec => JumpIsReported
<1>1. Init => Confirmable
  BY DEF Init, Confirmable
<1>2. TypeOK /\ Confirmable /\ [Next]_vars =>
        [\A s \in jumped :
           reading'[s] # NoReading /\ reading'[s] >= reading[s]
             => condition'[KindOf(s)].active]_vars
  <2> SUFFICES ASSUME TypeOK, Confirmable, Observe, NEW s \in jumped,
                      reading'[s] # NoReading, reading'[s] >= reading[s]
               PROVE  condition'[KindOf(s)].active
    BY DEF Next
  <2>1. s \in Signal
    BY DEF TypeOK
  <2>2. reading[s] \in Nat /\ reading'[s] \in Nat
    BY <2>1, ReadingTypes DEF Confirmable, TypeOK
  <2>3. StandsOut(s, reading'[s])
    <3>1. StandsOut(s, reading[s])
      BY DEF Confirmable
    <3>2. CASE s = "syn"
      BY <2>2, <3>1, <3>2 DEF StandsOut, SynFlood
    <3>3. CASE s \in Percent /\ s # "syn"
      <4>1. average[s] \in Nat /\ Jump[s] \in Nat
        BY <3>1, <3>3, PacerAssumption DEF StandsOut, TypeOK, Average
      <4> QED
        BY <2>2, <3>1, <3>3, <4>1 DEF StandsOut
    <3>4. CASE s \in Rate /\ s # "syn" /\ s \notin Percent
      <4>1. Least[s] \in Nat /\ Mult(s) \in {4, 5}
        BY <3>4, PacerAssumption DEF Mult, PpsFloodMult, NetSpikeMult
      <4>2. average[s] \in Nat
        BY <3>1, <3>4 DEF StandsOut, Spikes, TypeOK, Average
      <4> QED
        BY <2>2, <3>1, <3>4, <4>1, <4>2 DEF StandsOut, Spikes
    <3> QED
      BY <2>1, <3>2, <3>3, <3>4 DEF Signal, Average
  <2> QED
    BY <2>1, <2>3, StandingOutCounts DEF Confirmable, Confirming
<1>3. Typed => TypeOK
  BY DEF Typed
<1> QED
  BY <1>1, <1>2, <1>3, TypeInit, TypeStep, ConfirmableStep, PTL
  DEF Spec, JumpIsReported
=============================================================================
