------------------------------ MODULE MCPacer ------------------------------
EXTENDS Pacer

\* A grid of five percent for the levels, a quarter of the least spike for the
\* rates (a fifth for packets): nothing below a multiple of one unit is a spike.
MCJump  == [cpu |-> 4, mem |-> 2, gpu |-> 4]
MCLeast == [net |-> 4, conn |-> 4, pps |-> 5]

\* A host of which the signals in m change.
Moving(m) ==
  {[s \in Signal |-> IF s \in DOMAIN m THEN h[s] ELSE 1] :
     h \in {f \in [DOMAIN m -> UNION {m[s] : s \in DOMAIN m}] :
            \A s \in DOMAIN m : f[s] \in m[s]}}

MCHosts ==
  [percent |-> Moving([cpu |-> {0, 4, 8, 20}, mem |-> {3, 8}]),
   gpu     |-> Moving([gpu |-> {0, 5, 20, NoReading}]),
   traffic |-> Moving([net |-> {1, 8, 30}, conn |-> {0, 8, 30, NoReading}]),
   packets |-> Moving([pps |-> {1, 3, 10, 40}, syn |-> {0, 50, 100}]),
   flood   |-> Moving([net |-> {1, 8}, conn |-> {1, 8}, syn |-> {0, 50, 100}])]

\* A host with a steady flow of traffic.
SteadyHosts == [traffic |-> Moving([net |-> {8}, cpu |-> {0, 8}])]
=============================================================================
