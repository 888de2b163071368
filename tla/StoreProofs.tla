---------------------------- MODULE StoreProofs ----------------------------
(***************************************************************************)
(* Theorems about Store, for every length of time, retention and number of *)
(* readers.  FilesInv is about the writer and the rotation, ReaderInv      *)
(* about what a query in progress has made of the directory so far.        *)
(***************************************************************************)
EXTENDS Store, FiniteSetTheorems, WellFoundedInduction, TLAPS

-----------------------------------------------------------------------------
(* The operators.                                                          *)

LEMMA TimesFinite ==
  ASSUME NEW S \in SUBSET Time
  PROVE  IsFiniteSet(S) /\ Cardinality(S) \in Nat
<1>1. IsFiniteSet(Time)
  BY StoreAssumption, FS_Interval DEF Time
<1> QED
  BY <1>1, FS_Subset, FS_CardinalityType

\* A set of timestamps that is not empty has a latest one: of the sets of
\* elements above an element, one is minimal, and that one is empty.
LEMMA LatestExists ==
  ASSUME NEW S \in SUBSET Time, S # {}
  PROVE  \E t \in S : \A u \in S : u <= t
<1> DEFINE above(t) == {u \in S : u > t}
           T == {above(t) : t \in S}
<1>1. T \subseteq FiniteSubsetsOf(S)
  <2> SUFFICES ASSUME NEW t \in S PROVE above(t) \in FiniteSubsetsOf(S)
    OBVIOUS
  <2>1. above(t) \in SUBSET Time
    OBVIOUS
  <2>2. IsFiniteSet(above(t))
    BY <2>1, TimesFinite
  <2> QED
    BY <2>2 DEF FiniteSubsetsOf
<1>2. T # {}
  OBVIOUS
<1>3. PICK A \in T : \A B \in T : ~ (<<B, A>> \in StrictSubsetOrdering(S))
  <2> HIDE DEF T
  <2> QED
    BY <1>1, <1>2, WFMin, FS_StrictSubsetOrderingWellFounded
<1>4. PICK t \in S : A = above(t)
  OBVIOUS
<1>5. above(t) = {}
  <2> SUFFICES ASSUME NEW u \in above(t) PROVE FALSE
    OBVIOUS
  <2>1. u \in S /\ u > t /\ u \in Nat /\ t \in Nat
    BY DEF Time
  <2>2. above(u) \subseteq above(t) /\ u \notin above(u)
    <3>1. ASSUME NEW v \in above(u) PROVE v \in above(t)
      <4>1. v \in Nat /\ v > u
        BY DEF Time
      <4> QED
        BY <2>1, <4>1
    <3>2. ~ (u > u)
      BY <2>1
    <3> QED
      BY <3>1, <3>2
  <2>3. above(u) \in T
    BY <2>1
  <2>4. <<above(u), above(t)>> \in StrictSubsetOrdering(S)
    <3>1. above(u) # above(t)
      BY <2>2
    <3> HIDE DEF above
    <3>2. above(u) \subseteq S /\ above(t) \subseteq S
      BY DEF above
    <3> QED
      BY <2>2, <3>1, <3>2 DEF StrictSubsetOrdering
  <2> QED
    BY <1>3, <1>4, <2>3, <2>4
<1> QED
  BY <1>5 DEF Time

\* get_latest: Latest is well defined on what a scan has seen.
LEMMA LatestIsLatest ==
  ASSUME NEW S \in SUBSET Time, S # {}
  PROVE  Latest(S) \in S /\ \A u \in S : u <= Latest(S)
BY LatestExists DEF Latest

LEMMA LastIsSubset ==
  ASSUME NEW S, NEW n
  PROVE  Last(S, n) \subseteq S
BY DEF Last

\* get_range: a snapshot the limit leaves out is older than all it keeps, and
\* the limit is used up.
LEMMA LastIsLatest ==
  ASSUME NEW S \in SUBSET Time, NEW n \in Limits \cup {NoLimit},
         NEW t \in S \ Last(S, n)
  PROVE  /\ n # NoLimit
         /\ Cardinality(Last(S, n)) >= n
         /\ \A u \in Last(S, n) : u > t
<1> DEFINE above(x) == {u \in S : u > x}
<1>1. n # NoLimit /\ n \in Nat
  BY StoreAssumption DEF Last
<1>2. Last(S, n) = {x \in S : Cardinality(above(x)) < n}
  BY <1>1 DEF Last
<1>3. \A x \in S : above(x) \in SUBSET Time /\ IsFiniteSet(above(x))
                   /\ Cardinality(above(x)) \in Nat
  BY TimesFinite
<1>4. \A x \in S \ Last(S, n) : Cardinality(above(x)) >= n
  <2> HIDE DEF above
  <2> QED
    BY <1>1, <1>2, <1>3
<1>5. ASSUME NEW x \in S \ Last(S, n), NEW y \in Last(S, n)
      PROVE  y > x
  <2> SUFFICES ASSUME ~ (y > x) PROVE FALSE
    OBVIOUS
  <2>1. x \in Nat /\ y \in Nat /\ y \in S
    <3>1. y \in S
      BY <1>2
    <3> QED
      BY <3>1 DEF Time
  <2>2. above(x) \subseteq above(y)
    <3>1. ASSUME NEW v \in above(x) PROVE v \in above(y)
      <4>1. v \in Nat /\ v > x
        BY DEF Time
      <4> QED
        BY <2>1, <4>1
    <3> QED
      BY <3>1
  <2>3. Cardinality(above(x)) <= Cardinality(above(y))
    BY <1>3, <2>1, <2>2, FS_Subset
  <2>4. Cardinality(above(y)) < n
    BY <1>2
  <2> HIDE DEF above
  <2> QED
    BY <1>1, <1>3, <1>4, <2>1, <2>3, <2>4
<1>6. S \ Last(S, n) \in SUBSET Time /\ S \ Last(S, n) # {}
  OBVIOUS
<1>7. PICK m \in S \ Last(S, n) : \A u \in S \ Last(S, n) : u <= m
  BY <1>6, LatestExists
<1>8. above(m) \subseteq Last(S, n)
  <2>1. ASSUME NEW v \in above(m), v \notin Last(S, n) PROVE FALSE
    <3>1. v \in Nat /\ m \in Nat /\ v > m
      BY DEF Time
    <3>2. v <= m
      BY <1>7, <2>1
    <3> QED
      BY <3>1, <3>2
  <2> QED
    BY <2>1
<1>9. Last(S, n) \in SUBSET Time
  BY LastIsSubset
<1>10. Cardinality(above(m)) <= Cardinality(Last(S, n))
  BY <1>8, <1>9, TimesFinite, FS_Subset
<1>11. Cardinality(Last(S, n)) \in Nat
  BY <1>9, TimesFinite
<1> HIDE DEF above
<1> QED
  BY <1>1, <1>3, <1>4, <1>5, <1>10, <1>11

LEMMA MonusFacts ==
  ASSUME NEW a \in Nat, NEW b \in Nat
  PROVE  /\ Monus(a, b) \in Nat
         /\ Monus(a, b) <= Monus(a + 1, b)
         /\ \A t \in Nat : t < Monus(a, b) => t + b < a
BY DEF Monus
-----------------------------------------------------------------------------
(* Types.                                                                  *)

\* get_latest reads a file its scan has found.
ReadsWhatItFound ==
  \A r \in Reader : scan[r].phase = "reading" =>
    scan[r].query = "get_latest" /\ scan[r].seen # {}

Typed == TypeOK /\ ReadsWhatItFound

\* The actions that differ for no invariant are taken together.
RotatePasses(t) == RotateKeeps(t) \/ RotateFails(t)

\* What Put and the removal of a file leave behind.
LEMMA PutTypes ==
  ASSUME Typed, NEW t \in Time, NEW f \in {"absent", "torn", "whole"}, Put(t, f)
  PROVE  /\ file' \in [Time -> {"absent", "torn", "whole"}]
         /\ stable' \in [Reader -> SUBSET Time]
         /\ ever' \in [Reader -> SUBSET Time]
BY DEF Typed, TypeOK, Put, Whole

LEMMA IdleIsScan == Idle \in Scan /\ Idle.phase = "idle"
BY StoreAssumption DEF Idle, Scan

LEMMA EntryIsTime ==
  ASSUME Typed, NEW s \in Scanner, NEW t, Entry(s, t)
  PROVE  t \in Time
BY DEF Typed, TypeOK, Entry, Present, Scan

LEMMA StepCases ==
  ASSUME [Next]_vars
  PROVE
    \/ UNCHANGED vars \/ Tick \/ Collect \/ SaveOpens \/ SaveEnds \/ SaveFails
    \/ RotateOpens \/ RotateEnds \/ Crash
    \/ \E t \in Time : RotatePasses(t) \/ RotateRemoves(t)
    \/ \E r \in Reader :
         \/ \E q \in {"get_latest", "get_info", "get_range"}, w \in SUBSET Time,
               n \in Limits \cup {NoLimit} : Ask(r, q, w, n)
         \/ \E t \in Time : Meet(r, t)
         \/ Answered(r) \/ Found(r) \/ ReadLatest(r) \/ Forget(r)
<1>1. ASSUME NEW r \in Reader, Query(r)
      PROVE
        \/ \E q \in {"get_latest", "get_info", "get_range"}, w \in SUBSET Time,
              n \in Limits \cup {NoLimit} : Ask(r, q, w, n)
        \/ \E t \in Time : Meet(r, t)
        \/ Answered(r) \/ Found(r) \/ ReadLatest(r) \/ Forget(r)
  <2>1. CASE AskLatest(r)
    BY <2>1 DEF AskLatest
  <2>2. CASE AskInfo(r)
    BY <2>2 DEF AskInfo
  <2>3. ASSUME NEW n \in Limits, NEW range, AskRange(r, range, n)
        PROVE  \E w \in SUBSET Time : Ask(r, "get_range", w, n)
    BY <2>3 DEF AskRange
  <2>4. ASSUME NEW n \in Limits, NEW hours, AskBulk(r, hours, n)
        PROVE  \E range : AskRange(r, range, n)
    BY <2>4 DEF AskBulk
  <2> QED
    BY <1>1, <2>1, <2>2, <2>3, <2>4 DEF Query
<1> QED
  BY <1>1 DEF Next, Writer, Rotate, RotatePasses

LEMMA TypeStep ==
  ASSUME Typed, [Next]_vars
  PROVE  Typed'
<1> USE StoreAssumption DEF saveVars, history, Scanner
<1>0. Rotation \in Scanner /\ Reader \subseteq Scanner
  OBVIOUS
<1>1. CASE UNCHANGED vars
  BY <1>1 DEF vars, Typed, TypeOK, ReadsWhatItFound
<1>2. CASE Tick
  BY <1>2 DEF Tick, Typed, TypeOK, ReadsWhatItFound, Time
<1>3. CASE Collect
  BY <1>3 DEF Collect, Typed, TypeOK, ReadsWhatItFound
<1>4. CASE SaveOpens
  <2>1. stamp \in Time
    BY <1>4 DEF SaveOpens, Typed, TypeOK
  <2> QED
    BY <1>4, <2>1, PutTypes DEF SaveOpens, Typed, TypeOK, ReadsWhatItFound
<1>5. CASE SaveEnds
  <2>1. stamp \in Time
    BY <1>5 DEF SaveEnds, Typed, TypeOK
  <2> QED
    BY <1>5, <2>1, PutTypes DEF SaveEnds, Typed, TypeOK, ReadsWhatItFound
<1>6. CASE SaveFails
  BY <1>6 DEF SaveFails, Typed, TypeOK, ReadsWhatItFound
<1>7. CASE RotateOpens
  <2>1. RetentionSeconds \in Nat
    BY DEF RetentionSeconds
  <2>2. now \in Nat
    BY DEF Typed, TypeOK, Time
  <2>3. Monus(now, RetentionSeconds) \in Nat
    BY <2>1, <2>2, MonusFacts
  <2>4. [[Idle EXCEPT !.cutoff = Monus(now, RetentionSeconds)]
            EXCEPT !.phase = "scanning", !.must = Present] \in Scan
    BY <2>3 DEF Idle, Scan, Present
  <2> QED
    BY <1>7, <2>4 DEF RotateOpens, Open, Typed, TypeOK, ReadsWhatItFound
<1>8. CASE RotateEnds
  BY <1>8, IdleIsScan DEF RotateEnds, Typed, TypeOK, ReadsWhatItFound
<1>9. CASE Crash
  <2>1. scan' \in [Scanner -> Scan]
        /\ \A r \in Reader : scan'[r].phase = "idle"
    BY <1>9, IdleIsScan DEF Crash, NoScans
  <2>2. crashes' \in 0 .. MaxCrashes
    BY <1>9 DEF Crash, Typed, TypeOK
  <2> QED
    BY <1>9, <2>1, <2>2 DEF Crash, NoHistory, Typed, TypeOK, ReadsWhatItFound
<1>10. ASSUME NEW t \in Time, RotatePasses(t) \/ RotateRemoves(t)
       PROVE  Typed'
  <2>1. scan' \in [Scanner -> Scan] /\ \A r \in Reader : scan'[r] = scan[r]
    BY <1>10 DEF RotatePasses, RotateKeeps, RotateFails, RotateRemoves,
                 RemovesIf, Sees, Typed, TypeOK, Scan
  <2>2. CASE RotatePasses(t)
    BY <2>1, <2>2 DEF RotatePasses, RotateKeeps, RotateFails, Typed, TypeOK,
                      ReadsWhatItFound
  <2>3. CASE RotateRemoves(t)
    BY <2>1, <2>3, PutTypes DEF RotateRemoves, RemovesIf, Typed, TypeOK,
                                ReadsWhatItFound
  <2> QED
    BY <1>10, <2>2, <2>3
<1>11. ASSUME NEW r \in Reader,
              NEW q \in {"get_latest", "get_info", "get_range"},
              NEW w \in SUBSET Time, NEW n \in Limits \cup {NoLimit},
              Ask(r, q, w, n)
       PROVE  Typed'
  <2> DEFINE new == [[Idle EXCEPT !.query = q, !.window = w, !.limit = n]
                       EXCEPT !.phase = "scanning", !.must = Present]
  <2>1. new \in Scan /\ new.phase = "scanning"
    BY DEF Idle, Scan, Present
  <2>2. scan' = [scan EXCEPT ![r] = new]
    BY <1>11 DEF Ask, Open
  <2>3. stable' \in [Reader -> SUBSET Time] /\ ever' \in [Reader -> SUBSET Time]
    BY <1>11 DEF Ask, Typed, TypeOK, Whole
  <2> HIDE DEF new
  <2> QED
    BY <1>11, <2>1, <2>2, <2>3 DEF Ask, Typed, TypeOK, ReadsWhatItFound
<1>12. ASSUME NEW r \in Reader, NEW t \in Time, Meet(r, t) PROVE Typed'
  <2> DEFINE got == IF Reads(r, t) THEN scan[r].got \cup {t} ELSE scan[r].got
  <2>1. scan[r] \in Scan /\ scan[r].seen \cup {t} \in SUBSET Time
        /\ got \in SUBSET Time
    BY DEF Typed, TypeOK, Scan
  <2>2. scan' = [scan EXCEPT ![r].seen = scan[r].seen \cup {t}, ![r].got = got]
    BY <1>12 DEF Meet, Typed, TypeOK
  <2> HIDE DEF got
  <2>3. scan' \in [Scanner -> Scan]
    BY <2>1, <2>2 DEF Typed, TypeOK, Scan
  <2> QED
    BY <1>12, <2>2, <2>3 DEF Meet, Entry, Typed, TypeOK, ReadsWhatItFound
<1>13. ASSUME NEW r \in Reader, Answered(r) PROVE Typed'
  <2>1. scan[r] \in Scan
    BY DEF Typed, TypeOK
  <2>2. Last(scan[r].got, scan[r].limit) \subseteq scan[r].got
    BY LastIsSubset
  <2> DEFINE got == IF scan[r].query = "get_info"
                      THEN scan[r].seen ELSE Last(scan[r].got, scan[r].limit)
  <2>3. got \in SUBSET Time
    BY <2>1, <2>2 DEF Scan
  <2>4. scan' = [scan EXCEPT ![r].phase = "done", ![r].got = got]
    BY <1>13 DEF Answered
  <2> HIDE DEF got
  <2>5. scan' \in [Scanner -> Scan] /\ scan'[r].phase = "done"
    BY <2>1, <2>3, <2>4 DEF Typed, TypeOK, Scan
  <2> QED
    BY <1>13, <2>4, <2>5 DEF Answered, Typed, TypeOK, ReadsWhatItFound
<1>14. ASSUME NEW r \in Reader, Found(r) PROVE Typed'
  BY <1>14 DEF Found, Typed, TypeOK, ReadsWhatItFound, Scan
<1>15. ASSUME NEW r \in Reader, ReadLatest(r) PROVE Typed'
  <2>1. scan[r].seen \in SUBSET Time /\ scan[r].seen # {}
    BY <1>15 DEF ReadLatest, Typed, TypeOK, ReadsWhatItFound, Scan
  <2>2. Latest(scan[r].seen) \in Time
    BY <2>1, LatestIsLatest
  <2> DEFINE got == IF file[Latest(scan[r].seen)] = "whole"
                      THEN {Latest(scan[r].seen)} ELSE {}
             failed == file[Latest(scan[r].seen)] # "whole"
  <2>3. got \in SUBSET Time /\ failed \in BOOLEAN
    BY <2>2
  <2>4. scan' = [scan EXCEPT ![r].phase = "done", ![r].failed = failed,
                             ![r].got = got]
    BY <1>15 DEF ReadLatest
  <2> HIDE DEF got, failed
  <2>5. scan[r] \in Scan
    BY DEF Typed, TypeOK
  <2>6. [scan[r] EXCEPT !.phase = "done", !.failed = failed, !.got = got] \in Scan
    BY <2>3, <2>5 DEF Scan
  <2>7. scan' = [scan EXCEPT ![r] =
          [scan[r] EXCEPT !.phase = "done", !.failed = failed, !.got = got]]
    BY <2>4 DEF Typed, TypeOK
  <2>8. scan' \in [Scanner -> Scan] /\ scan'[r].phase = "done"
        /\ \A x \in Reader \ {r} : scan'[x] = scan[x]
    BY <2>5, <2>6, <2>7 DEF Scan, Typed, TypeOK
  <2> QED
    BY <1>15, <2>8 DEF ReadLatest, Typed, TypeOK, ReadsWhatItFound
<1>16. ASSUME NEW r \in Reader, Forget(r) PROVE Typed'
  BY <1>16 DEF Forget, Typed, TypeOK, ReadsWhatItFound, Scan, Idle
<1> QED
  BY <1>1, <1>2, <1>3, <1>4, <1>5, <1>6, <1>7, <1>8, <1>9, <1>10, <1>11, <1>12,
     <1>13, <1>14, <1>15, <1>16, StepCases

LEMMA TypeInit == Init => Typed
<1> SUFFICES ASSUME Init PROVE Typed
  OBVIOUS
<1>1. scan \in [Scanner -> Scan] /\ \A r \in Reader : scan[r].phase = "idle"
  BY IdleIsScan DEF Init, NoScans, Scanner
<1>2. 1 \in Time /\ 0 \in 0 .. MaxCrashes
  BY StoreAssumption DEF Time
<1> QED
  BY <1>1, <1>2 DEF Init, Typed, TypeOK, ReadsWhatItFound, NoHistory

\* A snapshot file, a scan and the writer's progress are always of the kinds
\* the store knows: no crash, failed write or interrupted scan leaves a query
\* without the file it was about to read.
THEOREM TypeCorrect == Spec => []TypeOK
<1>1. Typed => TypeOK
  BY DEF Typed
<1> QED
  BY <1>1, TypeInit, TypeStep, PTL DEF Spec
-----------------------------------------------------------------------------
(* The files and the log of snapshots.                                     *)

\* The configured retention, in seconds, fits into 64 bits: with more days
\* than that, some 2 * 10^14, the product wraps and the rotation prunes early.
RetentionFits == RetentionDays * Day < Word

\* A file that is being written cannot be read.
OpenedIsTorn == opened => file[stamp] # "whole"

\* What a rotation takes for expired has expired.
CutoffHasPassed == scan[Rotation].cutoff <= Monus(now, RetentionSeconds)

Files == Typed /\ OpenedIsTorn /\ CutoffHasPassed

LEMMA RetentionType == RetentionSeconds \in Nat
BY StoreAssumption DEF RetentionSeconds

LEMMA FilesInit == Init => Files
<1> SUFFICES ASSUME Init PROVE Files
  OBVIOUS
<1>1. scan[Rotation].cutoff = 0 /\ now \in Nat
  BY DEF Init, NoScans, Scanner, Idle
<1>2. Monus(now, RetentionSeconds) \in Nat
  BY <1>1, RetentionType, MonusFacts
<1> QED
  BY <1>1, <1>2, TypeInit DEF Init, Files, OpenedIsTorn, CutoffHasPassed

LEMMA PutFile ==
  ASSUME Typed, NEW t \in Time, NEW f, Put(t, f)
  PROVE  file'[t] = f /\ \A u \in Time \ {t} : file'[u] = file[u]
BY DEF Typed, TypeOK, Put

LEMMA FilesStep ==
  ASSUME Files, [Next]_vars
  PROVE  Files'
<1> USE DEF Files, saveVars, history
<1>1. Typed'
  BY TypeStep
<1>2. OpenedIsTorn'
  <2>1. CASE SaveOpens
    <3>1. stamp \in Time
      BY <2>1 DEF SaveOpens, Typed, TypeOK
    <3> QED
      BY <2>1, <3>1, PutFile DEF SaveOpens, OpenedIsTorn
  <2>2. ASSUME NEW t \in Time, RotateRemoves(t) PROVE OpenedIsTorn'
    BY <2>2, PutFile DEF RotateRemoves, RemovesIf, OpenedIsTorn, Typed, TypeOK
  <2>3. CASE Collect
    BY <2>3 DEF Collect, OpenedIsTorn, Typed, TypeOK
  <2> QED
    BY <2>1, <2>2, <2>3, StepCases
    DEF OpenedIsTorn, vars, Tick, SaveEnds, SaveFails, RotateOpens,
        RotateEnds, RotatePasses, RotateKeeps, RotateFails, Crash, Ask, Meet,
        Answered, Found, ReadLatest, Forget
<1>3. CutoffHasPassed'
  <2>1. now \in Nat /\ scan[Rotation].cutoff \in Nat
        /\ Rotation \in Scanner /\ Rotation \notin Reader
    BY StoreAssumption DEF Typed, TypeOK, Scan, Scanner, Time
  <2>2. /\ Monus(now, RetentionSeconds) \in Nat
        /\ Monus(now + 1, RetentionSeconds) \in Nat
        /\ Monus(now, RetentionSeconds) <= Monus(now + 1, RetentionSeconds)
    <3>1. now + 1 \in Nat
      BY <2>1
    <3> QED
      BY <2>1, <3>1, RetentionType, MonusFacts
  <2>3. Idle.cutoff = 0
    BY DEF Idle
  <2>4. CASE Tick
    BY <2>1, <2>2, <2>4 DEF Tick, CutoffHasPassed
  <2>5. CASE RotateOpens
    <3>1. scan'[Rotation].cutoff = Monus(now, RetentionSeconds)
      BY <2>1, <2>5 DEF RotateOpens, Open, Idle, Typed, TypeOK
    <3> QED
      BY <2>2, <2>5, <3>1 DEF RotateOpens, CutoffHasPassed
  <2>6. CASE RotateEnds \/ Crash
    <3>1. scan'[Rotation].cutoff = 0 /\ now' = now
      BY <2>1, <2>3, <2>6 DEF RotateEnds, Crash, NoScans, Typed, TypeOK
    <3> QED
      BY <2>2, <3>1 DEF CutoffHasPassed
  <2>7. ASSUME NEW t \in Time, RotatePasses(t) \/ RotateRemoves(t)
        PROVE  CutoffHasPassed'
    <3>1. Sees(Rotation, t) /\ now' = now
      BY <2>7 DEF RotatePasses, RotateKeeps, RotateFails, RotateRemoves,
                  RemovesIf
    <3>2. scan'[Rotation].cutoff = scan[Rotation].cutoff
      BY <2>1, <3>1 DEF Sees, Typed, TypeOK, Scan
    <3> QED
      BY <3>1, <3>2 DEF CutoffHasPassed
  <2>8. ASSUME scan'[Rotation] = scan[Rotation], now' = now
        PROVE  CutoffHasPassed'
    BY <2>8 DEF CutoffHasPassed
  <2>9. ASSUME NEW r \in Reader,
               \/ \E q, w, n : Ask(r, q, w, n)
               \/ \E t : Meet(r, t)
               \/ Answered(r) \/ Found(r) \/ ReadLatest(r) \/ Forget(r)
        PROVE  scan'[Rotation] = scan[Rotation] /\ now' = now
    BY <2>1, <2>9 DEF Ask, Open, Meet, Answered, Found, ReadLatest, Forget,
                      Typed, TypeOK
  <2> QED
    BY <2>4, <2>5, <2>6, <2>7, <2>8, <2>9, StepCases
    DEF vars, Collect, SaveOpens, SaveEnds, SaveFails
<1> QED
  BY <1>1, <1>2, <1>3

\* Every step of the store is one of the log's, or changes nothing of it.
LEMMA StepImplementsLog ==
  ASSUME RetentionFits, Files, [Next]_vars
  PROVE  [Log!Next]_<<now, stamp, Whole>>
<1> USE DEF Files, saveVars, history
<1>1. now \in Nat /\ Whole \in SUBSET Time /\ Time \subseteq Nat
      /\ NoTime \notin Time
  BY StoreAssumption DEF Typed, TypeOK, Whole, Time
<1>2. CASE Tick
  <2>1. now' \in Time /\ now' > now
    BY <1>1, <1>2, StoreAssumption DEF Tick, Typed, TypeOK, Time
  <2> QED
    BY <1>2, <2>1 DEF Tick, Whole, Log!Next, Log!Advance
<1>3. CASE Collect
  BY <1>3 DEF Collect, Whole, Log!Next, Log!Take
<1>4. CASE SaveOpens
  <2>1. stamp \in Time /\ stamp # NoTime
    BY <1>4 DEF SaveOpens, Typed, TypeOK
  <2>2. Whole' = Whole \ {stamp}
    BY <1>4, <2>1, PutFile DEF SaveOpens, Whole
  <2> QED
    BY <1>4, <2>1, <2>2 DEF SaveOpens, Log!Next, Log!Replace
<1>5. CASE SaveEnds
  <2>1. stamp \in Time /\ stamp # NoTime /\ stamp \notin Whole
    BY <1>5 DEF SaveEnds, Typed, TypeOK, OpenedIsTorn, Whole
  <2>2. CASE file[stamp] = "torn"
    <3>1. Put(stamp, "whole")
      BY <1>5, <2>2 DEF SaveEnds
    <3>2. Whole' = Whole \cup {stamp}
      BY <2>1, <3>1, PutFile DEF Whole
    <3> QED
      BY <1>5, <2>1, <3>2 DEF SaveEnds, Log!Next, Log!Record
  <2>3. CASE file[stamp] # "torn"
    <3>1. Put(stamp, "absent")
      BY <1>5, <2>3 DEF SaveEnds
    <3>2. Whole' = Whole
      BY <2>1, <3>1, PutFile DEF Whole
    <3> QED
      BY <1>5, <2>1, <3>2 DEF SaveEnds, Log!Next, Log!Discard
  <2> QED
    BY <2>2, <2>3
<1>6. CASE SaveFails
  BY <1>6 DEF SaveFails, Whole, Log!Next, Log!Discard
<1>7. ASSUME NEW t \in Time, RotateRemoves(t)
      PROVE  [Log!Next]_<<now, stamp, Whole>>
  <2>1. Whole' = Whole \ {t} /\ UNCHANGED <<now, stamp>>
    BY <1>7, PutFile DEF RotateRemoves, RemovesIf, Whole
  <2>2. t + RetentionDays * Day < now
    <3>1. RetentionSeconds = RetentionDays * Day
      BY StoreAssumption DEF RetentionFits, RetentionSeconds
    <3>2. t < Monus(now, RetentionSeconds)
      <4>1. t < scan[Rotation].cutoff
        BY <1>7 DEF RotateRemoves, RemovesIf
      <4>2. scan[Rotation].cutoff \in Nat
        BY DEF Typed, TypeOK, Scan, Scanner
      <4>3. Monus(now, RetentionSeconds) \in Nat
        BY <1>1, RetentionType, MonusFacts
      <4> QED
        BY <1>1, <4>1, <4>2, <4>3 DEF CutoffHasPassed
    <3>3. t + RetentionSeconds < now
      BY <1>1, <3>2, RetentionType, MonusFacts
    <3> QED
      BY <3>1, <3>3
  <2>3. CASE t \in Whole
    BY <2>1, <2>2, <2>3 DEF Log!Next, Log!Drop
  <2>4. CASE t \notin Whole
    BY <2>1, <2>4
  <2> QED
    BY <2>3, <2>4
<1>8. CASE Crash
  <2>1. UNCHANGED <<now, Whole>> /\ stamp' = NoTime
    BY <1>8 DEF Crash, Whole
  <2> QED
    BY <2>1 DEF Log!Next, Log!Discard
<1>9. ASSUME UNCHANGED <<now, stamp, file>>
      PROVE  [Log!Next]_<<now, stamp, Whole>>
  BY <1>9 DEF Whole
<1> QED
  BY <1>2, <1>3, <1>4, <1>5, <1>6, <1>7, <1>8, <1>9, StepCases
  DEF vars, RotateOpens, RotateEnds, RotatePasses, RotateKeeps, RotateFails,
      Ask, Meet, Answered, Found, ReadLatest, Forget

\* The files implement the log: whatever is crashed, torn or pruned in the
\* middle, a snapshot that can be read is lost only to a new one of the same
\* second, or to its age.
THEOREM StoreImplementsLog ==
  ASSUME RetentionFits
  PROVE  Spec => ImplementsLog
<1>1. Init => Log!Init
  BY TypeInit DEF Init, Whole, Log!Init, Typed, TypeOK
<1>2. Files /\ [Next]_vars => [Log!Next]_<<now, stamp, Whole>>
  BY StepImplementsLog
<1> QED
  BY <1>1, <1>2, FilesInit, FilesStep, PTL
  DEF Spec, ImplementsLog, Log!Spec, Log!logVars
-----------------------------------------------------------------------------
(* Queries.                                                                *)

\* Reading the directory never fails: a scan that breaks off is taken for one
\* that has ended, and what it has not met is missing from the answer.
NoIoErrors == IoErrors = FALSE

\* What reader r has of the directory, while it is at it: it has been promised
\* all that is stable, and get_range has got what of that it has met.
Progress(r) ==
  /\ scan[r].phase # "done" => ~ scan[r].failed
  /\ scan[r].phase \in {"scanning", "reading"} =>
       stable[r] \subseteq Whole /\ Whole \subseteq ever[r]
  /\ scan[r].phase = "scanning" => stable[r] \subseteq scan[r].must
  /\ scan[r].phase = "scanning" /\ scan[r].query = "get_range" =>
       /\ scan[r].got \subseteq ever[r] \cap scan[r].window
       /\ stable[r] \cap scan[r].window \cap scan[r].seen \subseteq scan[r].got
  /\ scan[r].phase = "reading" => stable[r] \subseteq scan[r].seen

Queries == \A r \in Reader : Progress(r)

\* A step in which reader r has no part shrinks what is stable to what is
\* still whole, and adds to what has been whole what becomes so.
Aside(r) ==
  /\ scan'[r] = scan[r]
  /\ stable'[r] \subseteq stable[r] /\ ever[r] \subseteq ever'[r]
  /\ scan[r].phase \in {"scanning", "reading"} /\ stable[r] \subseteq Whole
     /\ Whole \subseteq ever[r]
       => stable'[r] \subseteq Whole' /\ Whole' \subseteq ever'[r]
  /\ scan[r].phase = "done" => stable'[r] = stable[r] /\ ever'[r] = ever[r]

LEMMA PutIsAside ==
  ASSUME Typed, NEW r \in Reader, NEW t \in Time,
         NEW f \in {"absent", "torn", "whole"}, Put(t, f), scan'[r] = scan[r]
  PROVE  Aside(r)
<1>1. stable'[r] = IF scan[r].phase = "done" THEN stable[r]
                                             ELSE stable[r] \cap Whole'
  BY DEF Put
<1>2. ever'[r] = IF scan[r].phase \in {"scanning", "reading"}
                   THEN ever[r] \cup Whole' ELSE ever[r]
  BY DEF Put
<1> QED
  BY <1>1, <1>2 DEF Aside

LEMMA NothingIsAside ==
  ASSUME NEW r \in Reader,
         UNCHANGED file, scan'[r] = scan[r],
         stable'[r] = stable[r], ever'[r] = ever[r]
  PROVE  Aside(r)
BY DEF Aside, Whole

\* What a step is to reader r.
LEMMA ReaderCases ==
  ASSUME Typed, [Next]_vars, NEW r \in Reader
  PROVE
    \/ Aside(r) \/ scan'[r] = Idle
    \/ \E q, w, n : Ask(r, q, w, n)
    \/ \E t : Meet(r, t)
    \/ Answered(r) \/ Found(r) \/ ReadLatest(r)
<1> USE DEF saveVars, history
<1>1. r \in Scanner /\ Rotation # r /\ Reader \subseteq Scanner
  BY StoreAssumption DEF Scanner
<1>2. CASE SaveOpens \/ SaveEnds
  <2>1. stamp \in Time /\ scan' = scan
    BY <1>2 DEF SaveOpens, SaveEnds, Typed, TypeOK
  <2>2. \E f \in {"absent", "torn", "whole"} : Put(stamp, f)
    BY <1>2 DEF SaveOpens, SaveEnds
  <2> QED
    BY <2>1, <2>2, PutIsAside
<1>3. ASSUME NEW t \in Time, RotateRemoves(t) PROVE Aside(r)
  <2>1. scan'[r] = scan[r] /\ Put(t, "absent")
    BY <1>1, <1>3 DEF RotateRemoves, RemovesIf, Sees, Typed, TypeOK
  <2> QED
    BY <2>1, PutIsAside
<1>4. CASE Crash
  BY <1>1, <1>4 DEF Crash, NoScans
<1>5. CASE RotateOpens \/ RotateEnds \/ \E t \in Time : RotatePasses(t)
  <2>1. scan'[r] = scan[r] /\ UNCHANGED <<file, stable, ever>>
    BY <1>1, <1>5 DEF RotateOpens, Open, RotateEnds, RotatePasses, RotateKeeps,
                      RotateFails, Sees, Typed, TypeOK
  <2> QED
    BY <2>1, NothingIsAside
<1>6. CASE UNCHANGED vars \/ Tick \/ Collect \/ SaveFails
  <2>1. UNCHANGED <<scan, file, stable, ever>>
    BY <1>6 DEF vars, Tick, Collect, SaveFails
  <2> QED
    BY <2>1, NothingIsAside
<1>7. ASSUME NEW x \in Reader \ {r},
             \/ \E q, w, n : Ask(x, q, w, n)
             \/ \E t : Meet(x, t)
             \/ Answered(x) \/ Found(x) \/ ReadLatest(x) \/ Forget(x)
      PROVE  Aside(r)
  <2>1. UNCHANGED file /\ scan'[r] = scan[r]
    BY <1>1, <1>7 DEF Ask, Open, Meet, Answered, Found, ReadLatest, Forget,
                      Typed, TypeOK
  <2>2. stable'[r] = stable[r] /\ ever'[r] = ever[r]
    BY <1>1, <1>7 DEF Ask, Open, Meet, Answered, Found, ReadLatest, Forget,
                      Typed, TypeOK
  <2> QED
    BY <2>1, <2>2, NothingIsAside
<1>8. CASE Forget(r)
  BY <1>1, <1>8 DEF Forget, Typed, TypeOK
<1> QED
  BY <1>2, <1>3, <1>4, <1>5, <1>6, <1>7, <1>8, StepCases

LEMMA QueriesInit == Init => Queries
BY DEF Init, NoScans, Scanner, Idle, Queries, Progress

\* A scan that ends has met all that is stable.
LEMMA EndSeesStable ==
  ASSUME NoIoErrors, Typed, NEW r \in Reader, Progress(r), EndOfScan(r)
  PROVE  stable[r] \subseteq scan[r].seen
<1>1. stable[r] \subseteq Present
  BY DEF EndOfScan, Progress, Whole, Present
<1>2. stable[r] \subseteq scan[r].must
  BY DEF EndOfScan, Progress
<1> QED
  BY <1>1, <1>2 DEF EndOfScan, NoIoErrors

LEMMA QueriesStep ==
  ASSUME NoIoErrors, Typed, Queries, [Next]_vars
  PROVE  Queries'
<1> SUFFICES ASSUME NEW r \in Reader PROVE Progress(r)'
  BY DEF Queries
<1> USE DEF saveVars, history
<1>1. Progress(r) /\ r \in Scanner /\ scan[r] \in Scan
  BY DEF Queries, Scanner, Typed, TypeOK
<1>2. CASE Aside(r)
  BY <1>1, <1>2 DEF Aside, Progress
<1>3. CASE scan'[r] = Idle
  BY <1>3 DEF Idle, Progress
<1>4. ASSUME NEW q, NEW w, NEW n, Ask(r, q, w, n) PROVE Progress(r)'
  <2>1. scan'[r].phase = "scanning" /\ scan'[r].failed = FALSE
        /\ scan'[r].must = Present /\ scan'[r].got = {} /\ scan'[r].seen = {}
    BY <1>1, <1>4 DEF Ask, Open, Idle, Typed, TypeOK
  <2>2. stable'[r] = Whole /\ ever'[r] = Whole /\ Whole' = Whole
    BY <1>4 DEF Ask, Whole, Typed, TypeOK
  <2>3. Whole \subseteq Present
    BY DEF Whole, Present
  <2> QED
    BY <2>1, <2>2, <2>3 DEF Progress
<1>5. ASSUME NEW t, Meet(r, t) PROVE Progress(r)'
  <2>1. scan[r].phase = "scanning" /\ UNCHANGED <<file, stable, ever>>
    BY <1>5 DEF Meet, Entry
  <2>2. /\ scan'[r].phase = "scanning" /\ scan'[r].failed = scan[r].failed
        /\ scan'[r].must = scan[r].must /\ scan'[r].query = scan[r].query
        /\ scan'[r].window = scan[r].window
        /\ scan'[r].seen = scan[r].seen \cup {t}
        /\ scan'[r].got = IF Reads(r, t) THEN scan[r].got \cup {t}
                                         ELSE scan[r].got
    BY <1>1, <1>5, <2>1 DEF Meet, Typed, TypeOK, Scan
  <2>3. t \in Time
    BY <1>1, <1>5, EntryIsTime DEF Meet
  <2>4. ASSUME scan[r].query = "get_range"
        PROVE  /\ scan'[r].got \subseteq ever[r] \cap scan[r].window
               /\ stable[r] \cap scan[r].window \cap scan'[r].seen
                    \subseteq scan'[r].got
    <3>1. Reads(r, t) => t \in ever[r] \cap scan[r].window
      BY <1>1, <2>1, <2>3 DEF Reads, Progress, Whole
    <3>2. t \in stable[r] \cap scan[r].window => Reads(r, t)
      BY <1>1, <2>1, <2>4 DEF Reads, Progress, Whole
    <3> QED
      BY <1>1, <2>1, <2>2, <2>4, <3>1, <3>2 DEF Progress
  <2>5. Whole' = Whole
    BY <2>1 DEF Whole
  <2> QED
    BY <1>1, <2>1, <2>2, <2>4, <2>5 DEF Progress
<1>6. CASE Answered(r) \/ ReadLatest(r)
  <2>1. scan'[r].phase = "done"
    BY <1>1, <1>6 DEF Answered, ReadLatest, Typed, TypeOK, Scan
  <2> QED
    BY <2>1 DEF Progress
<1>7. CASE Found(r)
  <2>1. scan'[r] = [scan[r] EXCEPT !.phase = "reading"]
        /\ UNCHANGED <<file, stable, ever>>
    BY <1>1, <1>7 DEF Found, Typed, TypeOK
  <2>2. stable[r] \subseteq scan[r].seen
    BY <1>1, <1>7, EndSeesStable DEF Found
  <2> QED
    BY <1>1, <1>7, <2>1, <2>2 DEF Found, EndOfScan, Progress, Whole, Scan
<1> QED
  BY <1>2, <1>3, <1>4, <1>5, <1>6, <1>7, ReaderCases

\* An answer is given in one of two steps, and stands.
LEMMA DoneCases ==
  ASSUME Typed, [Next]_vars, NEW r \in Reader, NEW q, Done(r, q)'
  PROVE
    \/ Answered(r) /\ scan[r].query = q
    \/ ReadLatest(r) /\ scan[r].query = q
    \/ Done(r, q) /\ scan'[r] = scan[r]
       /\ stable'[r] = stable[r] /\ ever'[r] = ever[r]
<1>1. r \in Scanner /\ scan[r] \in Scan
  BY DEF Scanner, Typed, TypeOK
<1>2. CASE Aside(r)
  BY <1>2 DEF Aside, Done
<1>3. CASE scan'[r] = Idle
  BY <1>3 DEF Idle, Done
<1>4. CASE (\E c, w, n : Ask(r, c, w, n)) \/ (\E t : Meet(r, t)) \/ Found(r)
  <2>1. ASSUME NEW c, NEW w, NEW n, Ask(r, c, w, n)
        PROVE  scan'[r].phase = "scanning"
    BY <1>1, <2>1 DEF Ask, Open, Idle, Typed, TypeOK
  <2>2. ASSUME NEW t, Meet(r, t) PROVE scan'[r].phase = "scanning"
    BY <1>1, <2>2 DEF Meet, Entry, Typed, TypeOK, Scan
  <2>3. Found(r) => scan'[r].phase = "reading"
    BY <1>1 DEF Found, Typed, TypeOK, Scan
  <2> QED
    BY <1>4, <2>1, <2>2, <2>3 DEF Done
<1>5. CASE Answered(r) \/ ReadLatest(r)
  <2>1. scan'[r].query = scan[r].query
    BY <1>1, <1>5 DEF Answered, ReadLatest, Typed, TypeOK, Scan
  <2> QED
    BY <1>5, <2>1 DEF Done
<1> QED
  BY <1>2, <1>3, <1>4, <1>5, ReaderCases

\* get_range's answers, as RangeComplete states them.
LEMMA RangeStep ==
  ASSUME NoIoErrors, Typed, Queries, RangeComplete, [Next]_vars
  PROVE  RangeComplete'
<1> SUFFICES ASSUME NEW r \in Reader, Done(r, "get_range")'
             PROVE
               /\ scan'[r].got \subseteq ever'[r] \cap scan'[r].window
               /\ \A t \in (stable'[r] \cap scan'[r].window) \ scan'[r].got :
                    /\ scan'[r].limit # NoLimit
                    /\ Cardinality(scan'[r].got) >= scan'[r].limit
                    /\ \A u \in scan'[r].got : u > t
  BY DEF RangeComplete
<1>1. r \in Scanner /\ scan[r] \in Scan /\ Progress(r)
  BY DEF Scanner, Typed, TypeOK, Queries
<1>2. CASE Answered(r) /\ scan[r].query = "get_range"
  <2> DEFINE got == scan[r].got
             limit == scan[r].limit
  <2>1. scan[r].phase = "scanning" /\ stable[r] \subseteq scan[r].seen
    BY <1>1, <1>2, EndSeesStable DEF Answered, EndOfScan
  <2>2. got \subseteq ever[r] \cap scan[r].window
        /\ stable[r] \cap scan[r].window \subseteq got
    BY <1>1, <1>2, <2>1 DEF Progress
  <2>3. /\ scan'[r].got = Last(got, limit) /\ scan'[r].limit = limit
        /\ scan'[r].window = scan[r].window
        /\ stable'[r] = stable[r] /\ ever'[r] = ever[r]
    BY <1>1, <1>2 DEF Answered, history, Typed, TypeOK, Scan
  <2>4. got \in SUBSET Time /\ limit \in Limits \cup {NoLimit}
    BY <1>1 DEF Scan
  <2>5. ASSUME NEW t \in got \ Last(got, limit)
        PROVE  /\ limit # NoLimit
               /\ Cardinality(Last(got, limit)) >= limit
               /\ \A u \in Last(got, limit) : u > t
    BY <2>4, LastIsLatest
  <2>6. Last(got, limit) \subseteq got
    BY LastIsSubset
  <2> HIDE DEF got, limit
  <2> QED
    BY <2>2, <2>3, <2>5, <2>6
<1>3. CASE ReadLatest(r) /\ scan[r].query = "get_range"
  BY <1>3 DEF ReadLatest, Typed, ReadsWhatItFound
<1>4. CASE Done(r, "get_range") /\ scan'[r] = scan[r]
           /\ stable'[r] = stable[r] /\ ever'[r] = ever[r]
  BY <1>4 DEF RangeComplete
<1> QED
  BY <1>2, <1>3, <1>4, DoneCases

\* get_latest's.
LEMMA LatestStep ==
  ASSUME NoIoErrors, Typed, Queries, LatestNotStale, [Next]_vars
  PROVE  LatestNotStale'
<1> SUFFICES ASSUME NEW r \in Reader, Done(r, "get_latest")'
             PROVE  IF scan'[r].failed
                      THEN Latest(scan'[r].seen) \notin stable'[r]
                      ELSE \A t \in stable'[r] : \E u \in scan'[r].got : u >= t
  BY DEF LatestNotStale, Latest
<1>1. r \in Scanner /\ scan[r] \in Scan /\ Progress(r)
  BY DEF Scanner, Typed, TypeOK, Queries
<1>2. CASE Answered(r) /\ scan[r].query = "get_latest"
  <2>1. stable[r] \subseteq scan[r].seen /\ scan[r].seen = {}
    BY <1>1, <1>2, EndSeesStable DEF Answered
  <2>2. stable'[r] = stable[r]
    BY <1>2 DEF Answered, history
  <2> QED
    BY <2>1, <2>2
<1>3. CASE ReadLatest(r)
  <2> DEFINE latest == Latest(scan[r].seen)
             whole == file[latest] = "whole"
  <2>1. stable[r] \subseteq Whole /\ stable[r] \subseteq scan[r].seen
    BY <1>1, <1>3 DEF ReadLatest, Progress
  <2>2. scan[r].seen \in SUBSET Time /\ scan[r].seen # {}
    BY <1>1, <1>3 DEF ReadLatest, Typed, ReadsWhatItFound, Scan
  <2>3. \A u \in scan[r].seen : u <= latest
    BY <2>2, LatestIsLatest
  <2>4. latest \in Time
    BY <2>2, LatestIsLatest
  <2>5. scan'[r].seen = scan[r].seen /\ scan'[r].failed = ~whole
        /\ scan'[r].got = (IF whole THEN {latest} ELSE {})
        /\ stable'[r] = stable[r]
    BY <1>1, <1>3 DEF ReadLatest, history, Typed, TypeOK, Scan
  <2>6. CASE whole
    <3>1. scan'[r].failed = FALSE /\ scan'[r].got = {latest}
      BY <2>5, <2>6
    <3> HIDE DEF latest
    <3>2. \A t \in stable[r] : t \in Nat /\ latest \in Nat /\ t <= latest
      BY <2>1, <2>2, <2>3, <2>4 DEF Time
    <3>3. \A t \in stable[r] : latest >= t
      BY <3>2
    <3> QED
      BY <2>5, <3>1, <3>3
  <2>7. CASE ~ whole
    <3>1. latest \notin stable[r]
      BY <2>1, <2>7 DEF Whole
    <3> QED
      BY <2>5, <2>7, <3>1
  <2> QED
    BY <2>6, <2>7
<1>4. CASE Done(r, "get_latest") /\ scan'[r] = scan[r]
           /\ stable'[r] = stable[r]
  BY <1>4 DEF LatestNotStale
<1> QED
  BY <1>2, <1>3, <1>4, DoneCases

\* get_bounds'.
LEMMA BoundsStep ==
  ASSUME NoIoErrors, Typed, Queries, BoundsCover, [Next]_vars
  PROVE  BoundsCover'
<1> SUFFICES ASSUME NEW r \in Reader, Done(r, "get_info")'
             PROVE  stable'[r] \subseteq scan'[r].got
  BY DEF BoundsCover
<1>1. r \in Scanner /\ scan[r] \in Scan /\ Progress(r)
  BY DEF Scanner, Typed, TypeOK, Queries
<1>2. CASE Answered(r) /\ scan[r].query = "get_info"
  <2>1. stable[r] \subseteq scan[r].seen
    BY <1>1, <1>2, EndSeesStable DEF Answered
  <2>2. scan'[r].got = scan[r].seen /\ stable'[r] = stable[r]
    BY <1>1, <1>2 DEF Answered, history, Typed, TypeOK, Scan
  <2> QED
    BY <2>1, <2>2
<1>3. CASE ReadLatest(r) /\ scan[r].query = "get_info"
  BY <1>3 DEF ReadLatest, Typed, ReadsWhatItFound
<1>4. CASE Done(r, "get_info") /\ scan'[r] = scan[r]
           /\ stable'[r] = stable[r]
  BY <1>4 DEF BoundsCover
<1> QED
  BY <1>2, <1>3, <1>4, DoneCases

LEMMA AnswersInit == Init => RangeComplete /\ LatestNotStale /\ BoundsCover
BY DEF Init, NoScans, Scanner, Idle, Done, RangeComplete, LatestNotStale,
       BoundsCover

\* Whatever is saved and pruned while it runs, and whatever is left torn, a
\* range query returns what could be read all the while and was asked for, up
\* to its limit from the latest on, and nothing else.
THEOREM RangesAreComplete ==
  ASSUME NoIoErrors
  PROVE  Spec => []RangeComplete
BY TypeInit, TypeStep, QueriesInit, QueriesStep, AnswersInit, RangeStep, PTL
DEF Spec

\* get_latest never answers with a snapshot, or with none, while a later one
\* could be read all along; when it fails, the file it chose could not.
THEOREM LatestIsNotStale ==
  ASSUME NoIoErrors
  PROVE  Spec => []LatestNotStale
BY TypeInit, TypeStep, QueriesInit, QueriesStep, AnswersInit, LatestStep, PTL
DEF Spec

\* get_info misses no snapshot that could be read while it was counting.
THEOREM BoundsAreCovered ==
  ASSUME NoIoErrors
  PROVE  Spec => []BoundsCover
BY TypeInit, TypeStep, QueriesInit, QueriesStep, AnswersInit, BoundsStep, PTL
DEF Spec
=============================================================================
