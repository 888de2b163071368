------------------------------ MODULE MCStore ------------------------------
(* Small instances of Store for TLC.                                       *)
EXTENDS Store

\* All there can be, and a window that leaves some out.
MCRanges == {<<0, MaxTime>>, <<2, MaxTime>>}

\* An hour, and a number of hours whose seconds wrap.
MCHours == {1, 20}

\* No limit, and fewer than there can be.
MCLimits == {NoLimit, 1}
=============================================================================
