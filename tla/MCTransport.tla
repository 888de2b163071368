---------------------------- MODULE MCTransport ----------------------------
(* Small instances of Transport for TLC.                                   *)
EXTENDS Transport, TLC

CONSTANTS c1, c2, n1, n2

\* A configured key, another one, a configured string that decodes to no key
\* and a key that is not configured.
MCKeyString   == {"admin", "backup", "garbled", "stranger"}
MCAllowedKeys == {"admin", "backup", "garbled"}
MCVKey        == {"A", "B", "S"}
MCDecode == [s \in MCKeyString |->
  CASE s = "admin" -> "A" [] s = "backup" -> "B"
    [] s = "stranger" -> "S" [] OTHER -> NoKey]

\* A single configured key, where which key is used does not matter.
OneKeyString == {"admin"}
OneVKey      == {"A"}
OneDecode    == [s \in OneKeyString |-> "A"]

Slots == {c1, c2}

\* Connection slots and nonces are interchangeable in every safety property.
Symmetry == Permutations(Slots) \cup Permutations({n1, n2})
=============================================================================
