------------------------------- MODULE Store -------------------------------
(***************************************************************************)
(* The snapshot store (src/src/storage.rs) as its three users drive it at  *)
(* once: the telemetry loop saves a snapshot, the rotation loop prunes old *)
(* ones, the connection handlers query (src/src/main.rs, transport.rs).    *)
(* There is no lock: all they share is a directory of <timestamp>.json     *)
(* files, so every await is a point where the others may step in.          *)
(*                                                                         *)
(* A file is absent, torn (created or truncated, its text not all there)   *)
(* or whole.  A directory scan returns every entry that is there from the  *)
(* time it is opened until it ends; of the others it may return any that   *)
(* is there at some time in between, even one already removed again.       *)
(***************************************************************************)
EXTENDS Naturals, FiniteSets

CONSTANTS
  MaxTime,        \* bound on the clock, in Unix seconds from 1
  RetentionDays,  \* config.agent.retention_days
  Day, Hour,      \* in seconds
  Word,           \* 2^64: unsigned arithmetic wraps at it
  Reader,         \* connection handlers with a query
  Ranges,         \* <<since, until>> of the range queries asked
  Hours,          \* "hours" of the bulk queries
  Limits,         \* values of their optional "limit"
  IoErrors,       \* reading the directory may fail
  MaxCrashes,     \* bound on crashes
  NoTime, NoLimit

Time == 1 .. MaxTime

Rotation == "rotation"
Scanner  == Reader \cup {Rotation}

ASSUME StoreAssumption ==
  /\ MaxTime \in Nat \ {0}
  /\ RetentionDays \in Nat /\ Day \in Nat /\ Hour \in Nat /\ Word \in Nat \ {0}
  /\ Ranges \subseteq Nat \X Nat /\ Hours \subseteq Nat
  /\ Limits \subseteq Nat \cup {NoLimit} /\ NoLimit \notin Nat
  /\ IoErrors \in BOOLEAN
  /\ MaxCrashes \in Nat
  /\ NoTime \notin Nat
  /\ Rotation \notin Reader

VARIABLES
  now,     \* the clock
  file,    \* what <t>.json is
  stamp,   \* the timestamp of the snapshot the telemetry loop is saving
  opened,  \* its file has been created or truncated
  scan,    \* what a scanner knows: see Scan
  crashes,
  \* History for the properties; no action reads it.
  stable,  \* snapshots that were whole throughout a reader's query
  ever     \* snapshots that were whole at some time during it

saveVars == <<stamp, opened>>
history  == <<stable, ever>>
vars == <<now, file, saveVars, scan, crashes, history>>

\* A scan returns the entries "seen" of the directory; those in "must" were
\* there when it was opened.  The rotation has a cutoff; a reader a command,
\* the timestamps and the limit of a range query, the snapshots it has got,
\* and whether get_latest gave up.
Scan == [phase : {"idle", "scanning", "reading", "done"},
         must : SUBSET Time, seen : SUBSET Time, cutoff : Nat,
         query : {"none", "get_latest", "get_range", "get_info"},
         window : SUBSET Time, limit : Limits \cup {NoLimit},
         got : SUBSET Time, failed : BOOLEAN]

Idle == [phase |-> "idle", must |-> {}, seen |-> {}, cutoff |-> 0,
         query |-> "none", window |-> {}, limit |-> NoLimit, got |-> {},
         failed |-> FALSE]

-----------------------------------------------------------------------------
Present == {t \in Time : file[t] # "absent"}
Whole   == {t \in Time : file[t] = "whole"}

\* Mutant of Latest: the comparison is the wrong way round.
Earliest(S) == CHOOSE t \in S : \A u \in S : u >= t

Latest(S) == CHOOSE t \in S : \A u \in S : u <= t

\* Mutant of Last: the limit keeps the oldest.
First(S, n) ==
  IF n = NoLimit THEN S ELSE {t \in S : Cardinality({u \in S : u < t}) < n}

\* The n greatest elements of S, all of them if n is NoLimit.
Last(S, n) ==
  IF n = NoLimit THEN S ELSE {t \in S : Cardinality({u \in S : u > t}) < n}

TypeOK ==
  /\ now \in Time
  /\ file \in [Time -> {"absent", "torn", "whole"}]
  /\ stamp \in Time \cup {NoTime}
  /\ opened \in BOOLEAN /\ (opened => stamp # NoTime)
  /\ scan \in [Scanner -> Scan]
  /\ crashes \in 0 .. MaxCrashes
  /\ stable \in [Reader -> SUBSET Time] /\ ever \in [Reader -> SUBSET Time]

NoScans   == [s \in Scanner |-> Idle]
NoHistory == [r \in Reader |-> {}]

Init ==
  /\ now = 1
  /\ file = [t \in Time |-> "absent"]
  /\ stamp = NoTime /\ opened = FALSE
  /\ scan = NoScans /\ stable = NoHistory /\ ever = NoHistory
  /\ crashes = 0

\* The file of t becomes f; queries in progress may have seen it either way.
Put(t, f) ==
  /\ file' = [file EXCEPT ![t] = f]
  /\ stable' = [r \in Reader |->
       IF scan[r].phase = "done" THEN stable[r] ELSE stable[r] \cap Whole']
  /\ ever' = [r \in Reader |->
       IF scan[r].phase \in {"scanning", "reading"} THEN ever[r] \cup Whole'
                                                    ELSE ever[r]]

Tick ==
  /\ now < MaxTime
  /\ now' = now + 1
  /\ UNCHANGED <<file, saveVars, scan, crashes, history>>

-----------------------------------------------------------------------------
(* The telemetry loop: one snapshot after another.                         *)

\* The window closes: the snapshot carries the time of its last probe.
Collect ==
  /\ stamp = NoTime
  /\ stamp' = now
  /\ UNCHANGED <<now, file, opened, scan, crashes, history>>

\* fs::write creates the file, or truncates the one of the same second ...
SaveOpens ==
  /\ stamp # NoTime /\ ~opened
  /\ Put(stamp, "torn")
  /\ opened' = TRUE
  /\ UNCHANGED <<now, stamp, scan, crashes>>

\* ... and writes its text, in vain if a rotation has removed the file.
SaveEnds ==
  /\ opened
  /\ Put(stamp, IF file[stamp] = "torn" THEN "whole" ELSE "absent")
  /\ opened' = FALSE /\ stamp' = NoTime
  /\ UNCHANGED <<now, scan, crashes>>

\* Mutant of SaveFails: the file is left open for the next snapshot.
SaveFailsOpen ==
  /\ stamp # NoTime
  /\ stamp' = NoTime
  /\ UNCHANGED <<now, file, opened, scan, crashes, history>>

\* The error is logged; what has been written stays.
SaveFails ==
  /\ stamp # NoTime
  /\ opened' = FALSE /\ stamp' = NoTime
  /\ UNCHANGED <<now, file, scan, crashes, history>>

-----------------------------------------------------------------------------
(* Directory scans.                                                        *)

\* Scanner s opens the directory, with what it knows so far.
Open(s, known) ==
  /\ scan[s].phase = "idle"
  /\ scan' = [scan EXCEPT ![s] =
       [known EXCEPT !.phase = "scanning", !.must = Present]]

\* next_entry() returns the entry of t.
Entry(s, t) ==
  /\ scan[s].phase = "scanning"
  /\ t \in (scan[s].must \cup Present) \ scan[s].seen

Sees(s, t) == scan' = [scan EXCEPT ![s].seen = @ \cup {t}]

\* Mutant of EndOfScan: the scan ends with the first entry it has seen.
EndOfScanEarly(s) ==
  /\ scan[s].phase = "scanning"
  /\ scan[s].must \cap Present = {} \/ scan[s].seen # {}

\* It returns no more entries.  An error ends a scan like its end does.
EndOfScan(s) ==
  /\ scan[s].phase = "scanning"
  /\ (scan[s].must \cap Present \subseteq scan[s].seen) \/ IoErrors

-----------------------------------------------------------------------------
(* rotate                                                                  *)

Monus(a, b) == IF a > b THEN a - b ELSE 0

\* retention_days * 24 * 60 * 60, as a release build multiplies.
RetentionSeconds == (RetentionDays * Day) % Word

RotateOpens ==
  /\ Open(Rotation, [Idle EXCEPT !.cutoff = Monus(now, RetentionSeconds)])
  /\ UNCHANGED <<now, file, saveVars, crashes, history>>

RotateKeeps(t) ==
  /\ Entry(Rotation, t) /\ Sees(Rotation, t)
  /\ t >= scan[Rotation].cutoff
  /\ UNCHANGED <<now, file, saveVars, crashes, history>>

RemovesIf(t, expired) ==
  /\ Entry(Rotation, t) /\ Sees(Rotation, t)
  /\ expired
  /\ Put(t, "absent")
  /\ UNCHANGED <<now, saveVars, crashes>>

\* Mutant of RotateRemoves: the snapshot at the cutoff goes, too.
RotateRemovesAtCutoff(t) == RemovesIf(t, t <= scan[Rotation].cutoff)

\* Mutant of RotateRemoves: only snapshots that can be parsed are removed.
RotateRemovesWhole(t) ==
  RemovesIf(t, t < scan[Rotation].cutoff /\ file[t] = "whole")

RotateRemoves(t) == RemovesIf(t, t < scan[Rotation].cutoff)

\* The file cannot be removed: the next rotation will try again.
RotateFails(t) ==
  /\ Entry(Rotation, t) /\ Sees(Rotation, t)
  /\ t < scan[Rotation].cutoff
  /\ UNCHANGED <<now, file, saveVars, crashes, history>>

RotateEnds ==
  /\ EndOfScan(Rotation)
  /\ scan' = [scan EXCEPT ![Rotation] = Idle]
  /\ UNCHANGED <<now, file, saveVars, crashes, history>>

-----------------------------------------------------------------------------
(* get_latest, get_range and get_bounds (for get_info), each one query of  *)
(* a reader.                                                               *)

Ask(r, q, w, n) ==
  /\ Open(r, [Idle EXCEPT !.query = q, !.window = w, !.limit = n])
  /\ stable' = [stable EXCEPT ![r] = Whole]
  /\ ever' = [ever EXCEPT ![r] = Whole]
  /\ UNCHANGED <<now, file, saveVars, crashes>>

AskLatest(r) == Ask(r, "get_latest", {}, NoLimit)
AskInfo(r)   == Ask(r, "get_info", {}, NoLimit)
AskRange(r, range, n) ==
  Ask(r, "get_range", Time \cap (range[1] .. range[2]), n)

\* get_bulk: the range that ends now; its length is multiplied unchecked.
AskBulk(r, hours, n) ==
  AskRange(r, <<Monus(now, (hours * Hour) % Word), now>>, n)

\* get_range reads a snapshot as it meets it, and passes over what it cannot
\* read or parse.
Reads(r, t) ==
  scan[r].query = "get_range" /\ t \in scan[r].window /\ file[t] = "whole"

Meet(r, t) ==
  /\ Entry(r, t)
  /\ scan' = [scan EXCEPT ![r].seen = @ \cup {t},
                          ![r].got = IF Reads(r, t) THEN @ \cup {t} ELSE @]
  /\ UNCHANGED <<now, file, saveVars, crashes, history>>

\* get_range and get_bounds have their answer, get_latest if it found nothing.
Answered(r) ==
  /\ EndOfScan(r)
  /\ scan[r].query = "get_latest" => scan[r].seen = {}
  /\ scan' = [scan EXCEPT
       ![r].phase = "done",
       ![r].got = IF scan[r].query = "get_info" THEN scan[r].seen
                                                ELSE Last(@, scan[r].limit)]
  /\ UNCHANGED <<now, file, saveVars, crashes, history>>

\* get_latest has found its file and goes on to read it ...
Found(r) ==
  /\ EndOfScan(r)
  /\ scan[r].query = "get_latest" /\ scan[r].seen # {}
  /\ scan' = [scan EXCEPT ![r].phase = "reading"]
  /\ UNCHANGED <<now, file, saveVars, crashes, history>>

\* ... which fails if it is torn, or gone, by then.
ReadLatest(r) ==
  LET latest == Latest(scan[r].seen)
      whole  == file[latest] = "whole"
  IN  /\ scan[r].phase = "reading"
      /\ scan' = [scan EXCEPT ![r].phase = "done", ![r].failed = ~whole,
                              ![r].got = IF whole THEN {latest} ELSE {}]
      /\ UNCHANGED <<now, file, saveVars, crashes, history>>

\* The response is on its way; the handler takes the next request.
Forget(r) ==
  /\ scan[r].phase = "done"
  /\ scan' = [scan EXCEPT ![r] = Idle]
  /\ stable' = [stable EXCEPT ![r] = {}]
  /\ ever' = [ever EXCEPT ![r] = {}]
  /\ UNCHANGED <<now, file, saveVars, crashes>>

-----------------------------------------------------------------------------
\* The agent stops, at any point of what it does, and is started again: the
\* files are all that is left.
Crash ==
  /\ crashes < MaxCrashes
  /\ crashes' = crashes + 1
  /\ stamp' = NoTime /\ opened' = FALSE
  /\ scan' = NoScans /\ stable' = NoHistory /\ ever' = NoHistory
  /\ UNCHANGED <<now, file>>

Writer == Collect \/ SaveOpens \/ SaveEnds \/ SaveFails

Rotate ==
  \/ RotateOpens \/ RotateEnds
  \/ \E t \in Time : RotateKeeps(t) \/ RotateRemoves(t) \/ RotateFails(t)

Query(r) ==
  \/ AskLatest(r) \/ AskInfo(r)
  \/ \E n \in Limits : \/ \E range \in Ranges : AskRange(r, range, n)
                       \/ \E hours \in Hours : AskBulk(r, hours, n)
  \/ \E t \in Time : Meet(r, t)
  \/ Answered(r) \/ Found(r) \/ ReadLatest(r) \/ Forget(r)

Next == Tick \/ Writer \/ Rotate \/ Crash \/ \E r \in Reader : Query(r)

Spec == Init /\ [][Next]_vars

-----------------------------------------------------------------------------
(* Safety.                                                                 *)

Done(r, q) == scan[r].phase = "done" /\ scan[r].query = q

\* A range query returns no snapshot it was not asked for, none that could not
\* be read at some time while it ran, and leaves out none that could be read
\* all the while, unless the limit is used up by later ones: neither a save,
\* a rotation nor a torn file can make it skip or cut off the wrong snapshot.
RangeComplete ==
  \A r \in Reader : Done(r, "get_range") =>
    /\ scan[r].got \subseteq ever[r] \cap scan[r].window
    /\ \A t \in (stable[r] \cap scan[r].window) \ scan[r].got :
         /\ scan[r].limit # NoLimit
         /\ Cardinality(scan[r].got) >= scan[r].limit
         /\ \A u \in scan[r].got : u > t

\* get_latest never answers with a snapshot, or with none, while there was a
\* later one all along; if it gives up, its file was torn or was removed.
LatestNotStale ==
  \A r \in Reader : Done(r, "get_latest") =>
    IF scan[r].failed
      THEN Latest(scan[r].seen) \notin stable[r]
      ELSE \A t \in stable[r] : \E u \in scan[r].got : u >= t

\* get_info counts, and spans, at least the snapshots that are there.
BoundsCover ==
  \A r \in Reader : Done(r, "get_info") => stable[r] \subseteq scan[r].got

\* The files implement the log of snapshots: torn files, crashes at any point
\* and rotations that take their time lose nothing that is not expired.
Log == INSTANCE SnapshotLog WITH
  Time <- Time, Retention <- RetentionDays * Day, NoTime <- NoTime,
  now <- now, fresh <- stamp, kept <- Whole

ImplementsLog == Log!Spec

-----------------------------------------------------------------------------
(* Liveness.  The clock advances, the rotation loop sleeps an hour and     *)
(* starts again for ever, and a file that is tried every hour is removed   *)
(* in the end.                                                             *)

FairSpec ==
  /\ Spec
  /\ WF_vars(Tick) /\ WF_vars(Rotate)
  /\ \A t \in Time : SF_vars(RotateRemoves(t))

\* Snapshots past their retention are removed, even those torn by a crash.
ExpiredArePruned ==
  \A t \in Time :
    file[t] # "absent" /\ t + RetentionDays * Day < now ~> file[t] = "absent"
=============================================================================
