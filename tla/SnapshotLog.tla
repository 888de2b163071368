---------------------------- MODULE SnapshotLog ----------------------------
(***************************************************************************)
(* What the snapshot store promises, whatever files it is made of: the     *)
(* agent takes snapshots, one after another, and each is recorded or       *)
(* dropped before the next; a recorded one can be read back until it is    *)
(* older than the retention.  Nothing else takes it away, but a new        *)
(* snapshot of the same second, which replaces it.                         *)
(***************************************************************************)
EXTENDS Naturals

CONSTANTS
  Time,       \* Unix seconds
  Retention,  \* how long a snapshot is kept
  NoTime

VARIABLES
  now,   \* the clock
  fresh, \* the timestamp of the snapshot taken last, until it is dealt with
  kept   \* the timestamps of the snapshots that can be read back

logVars == <<now, fresh, kept>>

Init == now \in Time /\ fresh = NoTime /\ kept = {}

Advance == now' \in Time /\ now' > now /\ UNCHANGED <<fresh, kept>>

Take == fresh = NoTime /\ fresh' = now /\ UNCHANGED <<now, kept>>

Record ==
  /\ fresh # NoTime
  /\ kept' = kept \cup {fresh} /\ fresh' = NoTime
  /\ UNCHANGED now

Replace == fresh # NoTime /\ kept' = kept \ {fresh} /\ UNCHANGED <<now, fresh>>

Discard == fresh # NoTime /\ fresh' = NoTime /\ UNCHANGED <<now, kept>>

Drop ==
  \E t \in kept :
    /\ t + Retention < now
    /\ kept' = kept \ {t}
    /\ UNCHANGED <<now, fresh>>

Next == Advance \/ Take \/ Record \/ Replace \/ Discard \/ Drop

Spec == Init /\ [][Next]_logVars
=============================================================================
