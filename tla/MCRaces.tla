------------------------------ MODULE MCRaces ------------------------------
EXTENDS Races

CONSTANTS s1, r1

MCPorts == 1..4

\* One active slave with one port.
RaceSlaves ==
    {[rangeBegin |-> 1, rangeEnd |-> 2, persistent |-> TRUE, state |-> "active",
      riskGroup |-> NULL, error |-> FALSE]}
RaceCounts  == {[p \in BOOLEAN |-> IF p THEN 1 ELSE 0]}
RaceReports == {<<>>}
=============================================================================
