------------------------------ MODULE MCMaster ------------------------------
EXTENDS Master, TLC

CONSTANTS s1, r1, r2, g1

\* Slaves with persistent storage and the port range [1, n + 1).
SlaveRow(n, state, group) ==
    [rangeBegin |-> 1, rangeEnd |-> n + 1, persistent |-> TRUE,
     state |-> state, riskGroup |-> group, error |-> FALSE]
Persistent(n) == [p \in BOOLEAN |-> IF p THEN n ELSE 0]
ReportsOf(ports, entries) == UNION {[ps -> entries] : ps \in SUBSET ports}

MCPorts == 1..4

\* One slave with three ports, two replica sets, one risk group.
PortsSlaves  == {SlaveRow(3, st, NULL) : st \in {"active", "disabled"}}
PortsCounts  == {Persistent(2)}
PortsReports == ReportsOf({1}, [name : {r1, r2}, state : {"running"}]
                               \cup {[name |-> NULL, state |-> "status_error"]})
NameSymmetry == Permutations({r1, r2})
=============================================================================
