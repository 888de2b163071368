------------------------------ MODULE MCUpdate ------------------------------
(* Small instances of Update for TLC.                                      *)
EXTENDS Update, TLC

CONSTANTS t1, t2

\* A release that replaces the server's files together, or one by one.
Together == {ServerFiles}
OneByOne == {{f} : f \in ServerFiles}

Symmetry == Permutations({t1, t2})
=============================================================================
