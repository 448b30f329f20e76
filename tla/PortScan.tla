------------------------------ MODULE PortScan ------------------------------
(***************************************************************************)
(* findUnusedPort (master/cluster_allocator.go): the merge-join-like loop  *)
(* by which the cluster allocator picks the port of a new Mongod.  Its     *)
(* input is the list of ports in use on a slave, in ascending order, and   *)
(* the slave's port range [minPort, maxPort).                              *)
(*                                                                         *)
(* The table "mongods" has no UNIQUE constraint on (slave, port), so the   *)
(* list may hold a port more than once: sorted means non-decreasing.       *)
(* Definitions marked "Mutant" are plausible slips that the checks of this *)
(* module must notice; no specification uses them.                         *)
(***************************************************************************)
EXTENDS Integers, Sequences

CONSTANTS
    PortNumbers,  \* the values of the type PortNumber
    MaxUsed       \* bound on the number of rows a slave has

ASSUME PortNumbersAssumption == PortNumbers \subseteq Nat
ASSUME MaxUsedAssumption == MaxUsed \in Nat

VARIABLES
    usedPorts, minPort, maxPort,      \* the arguments
    usedPortIndex, currentPort,       \* the loop's variables, 0-based as in Go
    pc,                               \* "skip", "scan" or "done"
    unusedPort, found                 \* the named results

input == <<usedPorts, minPort, maxPort>>
vars  == <<usedPorts, minPort, maxPort, usedPortIndex, currentPort, pc,
           unusedPort, found>>

Sorted(s) == \A i, j \in DOMAIN s : i < j => s[i] <= s[j]

\* What SELECT m.port ... ORDER BY m.port ASC may return.
UsedPortLists ==
    {s \in UNION {[1..n -> PortNumbers] : n \in 0..MaxUsed} : Sorted(s)}

Init ==
    /\ usedPorts \in UsedPortLists
    /\ minPort \in PortNumbers
    /\ maxPort \in PortNumbers
    /\ minPort <= maxPort           \* validated by ProjectSlaveToModelSlave
    /\ usedPortIndex = 0
    /\ currentPort = minPort
    /\ pc = "skip"
    /\ unusedPort = 0
    /\ found = FALSE

PassedAll == usedPortIndex >= Len(usedPorts)
NextUsed  == usedPorts[usedPortIndex + 1]

\* Mutant: the skipping loop runs past the end of the list.
SkipBelowRangeNoBound ==
    /\ pc = "skip"
    /\ PassedAll \/ (~PassedAll /\ NextUsed < minPort)
    /\ usedPortIndex' = usedPortIndex + 1
    /\ UNCHANGED <<input, currentPort, pc, unusedPort, found>>

\* The first loop: skip the used ports below the range.
SkipBelowRange ==
    /\ pc = "skip"
    /\ ~PassedAll /\ NextUsed < minPort
    /\ usedPortIndex' = usedPortIndex + 1
    /\ UNCHANGED <<input, currentPort, pc, unusedPort, found>>

\* Mutant: the scan starts without skipping the ports below the range.
StartScanNoSkip ==
    /\ pc = "skip"
    /\ pc' = "scan"
    /\ UNCHANGED <<input, usedPortIndex, currentPort, unusedPort, found>>

StartScan ==
    /\ pc = "skip"
    /\ ~(~PassedAll /\ NextUsed < minPort)
    /\ pc' = "scan"
    /\ UNCHANGED <<input, usedPortIndex, currentPort, unusedPort, found>>

\* The current port is free: every used port was passed, or the next one is
\* above it.
ReturnFree ==
    /\ pc = "scan" /\ currentPort < maxPort
    /\ PassedAll \/ (~PassedAll /\ NextUsed > currentPort)
    /\ unusedPort' = currentPort
    /\ found' = TRUE
    /\ pc' = "done"
    /\ UNCHANGED <<input, usedPortIndex, currentPort>>

\* The current port is used: advance both cursors.
PassUsed ==
    /\ pc = "scan" /\ currentPort < maxPort
    /\ ~PassedAll /\ NextUsed = currentPort
    /\ usedPortIndex' = usedPortIndex + 1
    /\ currentPort' = currentPort + 1
    /\ UNCHANGED <<input, pc, unusedPort, found>>

\* Mutant: `continue' is taken before the counter advances.
FallBehindStuck ==
    /\ pc = "scan" /\ currentPort < maxPort
    /\ ~PassedAll /\ NextUsed < currentPort
    /\ UNCHANGED vars

\* Neither branch of the loop's body applies: the next used port is below the
\* current one, and only the loop's counter advances.
FallBehind ==
    /\ pc = "scan" /\ currentPort < maxPort
    /\ ~PassedAll /\ NextUsed < currentPort
    /\ currentPort' = currentPort + 1
    /\ UNCHANGED <<input, usedPortIndex, pc, unusedPort, found>>

\* Mutant: off by one at the end of the range.
ReturnNoneEarly ==
    /\ pc = "scan" /\ currentPort >= maxPort - 1
    /\ pc' = "done"
    /\ UNCHANGED <<input, usedPortIndex, currentPort, unusedPort, found>>

ReturnNone ==
    /\ pc = "scan" /\ currentPort >= maxPort
    /\ pc' = "done"
    /\ UNCHANGED <<input, usedPortIndex, currentPort, unusedPort, found>>

Next ==
    \/ SkipBelowRange \/ StartScan
    \/ ReturnFree \/ PassUsed \/ FallBehind \/ ReturnNone

Spec     == Init /\ [][Next]_vars
FairSpec == Spec /\ WF_vars(Next)

-----------------------------------------------------------------------------
(* What the loop computes, stated without the loop.                        *)

Used(p)     == \E i \in DOMAIN usedPorts : usedPorts[i] = p
UsedOnce(p) == \E i \in DOMAIN usedPorts :
                  /\ usedPorts[i] = p
                  /\ \A j \in DOMAIN usedPorts : usedPorts[j] = p => j = i

\* The lowest free port of the range, provided no port below it is used twice.
\* The set has at most one element.
Reachable == {p \in minPort .. maxPort - 1 :
                 /\ ~Used(p)
                 /\ \A q \in minPort .. p - 1 : UsedOnce(q)}

\* The variables have their types.
TypeOK ==
    /\ usedPorts \in UsedPortLists
    /\ minPort \in PortNumbers /\ maxPort \in PortNumbers
    /\ usedPortIndex \in 0 .. Len(usedPorts)
    /\ currentPort \in Nat
    /\ pc \in {"skip", "scan", "done"}
    /\ unusedPort \in Nat
    /\ found \in BOOLEAN

\* findUnusedPort answers with the lowest free port of the range exactly when
\* every port below it is used once; a port that two rows use makes the loop
\* fall behind for good, and it then reports that no port is free whatever the
\* rest of the range looks like.
ResultCorrect ==
    pc = "done" => IF found THEN unusedPort \in Reachable ELSE Reachable = {}

\* When no two rows use the same port, "not found" means what its caller
\* spawnMongodOnSlave takes it to mean: no free port on the slave.
NotFoundMeansFull ==
    /\ pc = "done" /\ ~found
    /\ \A p \in PortNumbers : Used(p) => UsedOnce(p)
    => \A p \in minPort .. maxPort - 1 : Used(p)

\* The scan ends for every input.
Terminates == <>(pc = "done")

=============================================================================
