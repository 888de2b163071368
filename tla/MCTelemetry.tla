---------------------------- MODULE MCTelemetry ----------------------------
EXTENDS Telemetry

\* The interval is a single tick, several, no multiple of the tick, shorter
\* than it, and 0, which stands for the default.
MCConfigs ==
  {[interval |-> 1, sample |-> 0], [interval |-> 2, sample |-> 1],
   [interval |-> 3, sample |-> 2], [interval |-> 3, sample |-> 9],
   [interval |-> 0, sample |-> 1]}
=============================================================================
