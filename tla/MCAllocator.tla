---------------------------- MODULE MCAllocator ----------------------------
(* The allocator on its own, from every database of three slaves with two   *)
(* ports, one replica set and at most one member on each slave, and from one *)
(* with a doubly used port.                                                  *)
EXTENDS ClusterAllocator, TLC

CONSTANTS s1, s2, s3, r1, g1

MCPorts == 1..4
Host(i) == <<s1, s2, s3>>[i]

\* s3 has volatile storage and stays active; a slave is in no risk group or in g1,
\* and disabled slaves do not answer the monitor.
MCSlave(i, state, group) ==
    [rangeBegin |-> 1, rangeEnd |-> 3, persistent |-> i # 3, state |-> state,
     riskGroup |-> group, error |-> state = "disabled"]

MCMember(i, desired, observed) ==
    [slave |-> Host(i), port |-> 1, name |-> r1, replicaSet |-> r1,
     desired |-> desired, observed |-> observed, error |-> FALSE]

\* A member's states: none, or freshly spawned, serving, lost, or on its way out.
MemberStates == {<<>>, <<"running", NULL>>, <<"running", "running">>,
                 <<"running", "destroyed">>, <<"destroyed", "running">>}

MCDatabases ==
    {[slaves |-> [s \in Hostnames |->
                     LET i == CHOOSE i \in 1..3 : Host(i) = s
                     IN  MCSlave(i, st[i], g[i])],
      replicaSets |-> (r1 :> [memberCount |-> c]),
      mongods |-> [i \in {i \in 1..3 : ms[i] # <<>>} |->
                     MCMember(i, ms[i][1], ms[i][2])],
      riskGroups |-> {g1}] :
        st \in {<<a, b, "active">> : a, b \in SlaveStates}, g \in {<<a, g1, b>> : a, b \in {NULL, g1}},
        ms \in [1..3 -> MemberStates],
        c \in {[p \in BOOLEAN |-> IF p THEN x ELSE y] : <<x, y>> \in {<<0, 1>>, <<1, 0>>, <<1, 1>>, <<2, 0>>, <<2, 1>>}}}

\* A slave with a free port and two unknown Mongods, reported on the same port.
MCConflict ==
    [slaves |-> (s1 :> [MCSlave(1, "active", NULL) EXCEPT !.rangeEnd = 4]),
     replicaSets |-> (r1 :> [memberCount |-> [p \in BOOLEAN |-> IF p THEN 1 ELSE 0]]),
     mongods |-> [i \in 1..2 |->
                     [slave |-> s1, port |-> 1, name |-> <<NULL, r1>>[i],
                      replicaSet |-> NULL, desired |-> "force_destroyed",
                      observed |-> "running", error |-> FALSE]],
     riskGroups |-> {}]

MCInit == db \in MCDatabases \cup {MCConflict} /\ AllocatorInit
MCSpec == MCInit /\ [][AllocatorNext]_allocatorVars /\ WF_allocatorVars(CompileStep)
=============================================================================
