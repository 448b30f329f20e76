-------------------------- MODULE PortScan_proofs --------------------------
(***************************************************************************)
(* findUnusedPort is correct for every list of used ports and every range: *)
(* type correctness, the result, and what "not found" means.               *)
(***************************************************************************)
EXTENDS PortScan, TLAPS

\* The scan has fallen behind: the next used port is below the current one.
Behind == usedPortIndex < Len(usedPorts) /\ NextUsed < currentPort

\* A port below the current one is used twice, and every port of the range up
\* to it is used.
Blocked ==
    \E q \in minPort .. currentPort - 1 :
        /\ Used(q) /\ ~UsedOnce(q)
        /\ \A p \in minPort .. q : Used(p)

\* What holds at the head of each loop.
ScanInv ==
    /\ currentPort >= minPort
    /\ pc = "skip" => currentPort = minPort
    /\ \A i \in 1 .. usedPortIndex : usedPorts[i] < currentPort
    /\ pc = "scan" => IF Behind THEN Blocked
                      ELSE \A q \in minPort .. currentPort - 1 : UsedOnce(q)

\* The result is not written before the scan returns.
Inv ==
    /\ TypeOK /\ ScanInv /\ ResultCorrect /\ NotFoundMeansFull
    /\ pc # "done" => ~found

LEMMA UsedPortListsType ==
    ASSUME usedPorts \in UsedPortLists
    PROVE  /\ usedPorts \in Seq(PortNumbers)
           /\ DOMAIN usedPorts = 1 .. Len(usedPorts)
           /\ Len(usedPorts) \in Nat
           /\ \A i \in 1 .. Len(usedPorts) : usedPorts[i] \in Nat
           /\ Sorted(usedPorts)
<1>1. PICK n \in 0 .. MaxUsed : usedPorts \in [1..n -> PortNumbers]
    BY DEF UsedPortLists
<1>2. n \in Nat
    BY <1>1, MaxUsedAssumption
<1>3. usedPorts \in Seq(PortNumbers) /\ Len(usedPorts) = n /\ DOMAIN usedPorts = 1..n
    BY <1>1, <1>2
<1>4. \A i \in 1..n : usedPorts[i] \in Nat
    BY <1>1, PortNumbersAssumption
<1> QED
    BY <1>2, <1>3, <1>4 DEF UsedPortLists

\* The lists a slave's rows yield are well typed throughout the scan.
THEOREM TypeCorrect == Spec => []TypeOK
<1>1. Init => TypeOK
  <2> SUFFICES ASSUME Init PROVE TypeOK
    OBVIOUS
  <2>1. Len(usedPorts) \in Nat
    BY UsedPortListsType DEF Init
  <2>2. usedPortIndex \in 0 .. Len(usedPorts) /\ currentPort \in Nat
    BY <2>1, PortNumbersAssumption DEF Init
  <2>3. unusedPort \in Nat
    BY DEF Init
  <2> QED
    BY <2>2, <2>3 DEF Init, TypeOK
<1>2. TypeOK /\ [Next]_vars => TypeOK'
  <2> SUFFICES ASSUME TypeOK, [Next]_vars PROVE TypeOK'
    OBVIOUS
  <2>1. Len(usedPorts) \in Nat /\ minPort \in Nat
    BY UsedPortListsType, PortNumbersAssumption DEF TypeOK
  <2>2. CASE SkipBelowRange
    BY <2>1, <2>2 DEF TypeOK, SkipBelowRange, PassedAll, input
  <2>3. CASE StartScan
    BY <2>1, <2>3 DEF TypeOK, StartScan, input
  <2>4. CASE ReturnFree
    BY <2>1, <2>4 DEF TypeOK, ReturnFree, input
  <2>5. CASE PassUsed
    BY <2>1, <2>5 DEF TypeOK, PassUsed, PassedAll, input
  <2>6. CASE FallBehind
    BY <2>1, <2>6 DEF TypeOK, FallBehind, input
  <2>7. CASE ReturnNone
    BY <2>1, <2>7 DEF TypeOK, ReturnNone, input
  <2>8. CASE UNCHANGED vars
    BY <2>8 DEF TypeOK, vars
  <2> QED
    BY <2>2, <2>3, <2>4, <2>5, <2>6, <2>7, <2>8 DEF Next
<1> QED
    BY <1>1, <1>2, PTL DEF Spec

\* The facts about types that every step below uses.
LEMMA TypeFacts ==
    ASSUME TypeOK
    PROVE  /\ DOMAIN usedPorts = 1 .. Len(usedPorts)
           /\ Len(usedPorts) \in Nat
           /\ \A i \in 1 .. Len(usedPorts) : usedPorts[i] \in Nat
           /\ \A i, j \in 1 .. Len(usedPorts) : i < j => usedPorts[i] <= usedPorts[j]
           /\ minPort \in Nat /\ maxPort \in Nat /\ currentPort \in Nat
           /\ usedPortIndex \in Nat /\ usedPortIndex <= Len(usedPorts)
BY UsedPortListsType, PortNumbersAssumption DEF TypeOK, Sorted

\* A scan that has not fallen behind and finds the current port above every
\* passed port and below the next one may return it.
LEMMA FreeIsReachable ==
    ASSUME TypeOK, ScanInv, ReturnFree
    PROVE  currentPort \in Reachable
<1> USE TypeFacts
<1>1. ~Behind
    BY DEF ReturnFree, Behind, PassedAll, NextUsed
<1>2. \A q \in minPort .. currentPort - 1 : UsedOnce(q)
    BY <1>1 DEF ScanInv, ReturnFree
<1>3. ~Used(currentPort)
  <2> SUFFICES ASSUME NEW i \in 1 .. Len(usedPorts), usedPorts[i] = currentPort
               PROVE  FALSE
    BY DEF Used
  <2>1. i > usedPortIndex
    BY DEF ScanInv
  <2>2. usedPortIndex < Len(usedPorts) /\ NextUsed > currentPort
    BY <2>1 DEF ReturnFree, PassedAll
  <2>3. usedPorts[usedPortIndex + 1] <= usedPorts[i]
    BY <2>1, <2>2
  <2> QED
    BY <2>2, <2>3 DEF NextUsed
<1> QED
    BY <1>2, <1>3 DEF ReturnFree, Reachable, ScanInv

\* A port used twice below the current one keeps every port out of reach.
LEMMA BlockedIsUnreachable ==
    ASSUME TypeOK, Blocked
    PROVE  Reachable = {}
<1> USE TypeFacts
<1>1. PICK q \in minPort .. currentPort - 1 :
          Used(q) /\ ~UsedOnce(q) /\ \A p \in minPort .. q : Used(p)
    BY DEF Blocked
<1>2. ASSUME NEW f \in Reachable PROVE FALSE
  <2>1. f \in minPort .. maxPort - 1 /\ ~Used(f) /\ \A p \in minPort .. f - 1 : UsedOnce(p)
    BY DEF Reachable
  <2>2. CASE f <= q
    BY <1>1, <2>1, <2>2
  <2>3. CASE q < f
    BY <1>1, <2>1, <2>3
  <2> QED
    BY <1>1, <2>1, <2>2, <2>3
<1> QED
    BY <1>2

\* Passing a used port keeps the scan in step, or leaves it blocked when the
\* port is used twice.
LEMMA PassUsedKeepsScanInv ==
    ASSUME TypeOK, ScanInv, PassUsed, TypeOK'
    PROVE  ScanInv'
<1> USE TypeFacts
<1> DEFINE k == usedPortIndex + 1
<1>0. PICK c \in Nat : c = currentPort
    OBVIOUS
<1>1. /\ k \in 1 .. Len(usedPorts) /\ usedPorts[k] = c
      /\ usedPortIndex' = k /\ currentPort' = c + 1
      /\ UNCHANGED <<usedPorts, minPort, maxPort, pc>> /\ pc = "scan"
      /\ c = currentPort
    BY <1>0 DEF PassUsed, PassedAll, NextUsed, input
<1>2. \A i \in 1 .. usedPortIndex' : usedPorts'[i] < currentPort'
    BY <1>1 DEF ScanInv
<1>3. ~Behind
    BY <1>1 DEF Behind, NextUsed
<1>4. \A q \in minPort .. c - 1 : UsedOnce(q)
    BY <1>1, <1>3 DEF ScanInv
<1>5. \A q \in minPort .. c - 1 : Used(q)
    BY <1>4 DEF Used, UsedOnce
<1>6. Used(c)
    BY <1>1 DEF Used
<1>7. CASE Behind'
  <2>1. k + 1 \in 1 .. Len(usedPorts) /\ usedPorts[k + 1] < c + 1
    BY <1>1, <1>7 DEF Behind, NextUsed
  <2>2. usedPorts[k] <= usedPorts[k + 1]
    BY <1>1, <2>1
  <2>3. usedPorts[k + 1] = c
    BY <1>1, <2>1, <2>2
  <2>4. ~UsedOnce(c)
    <3> SUFFICES ASSUME UsedOnce(c) PROVE FALSE
      OBVIOUS
    <3>1. PICK i \in DOMAIN usedPorts :
             \A j \in DOMAIN usedPorts : usedPorts[j] = c => j = i
      BY DEF UsedOnce
    <3>2. k = i /\ k + 1 = i
      BY <1>1, <2>1, <2>3, <3>1
    <3> QED
      BY <3>2
  <2>5. c \in minPort .. currentPort' - 1
    BY <1>1 DEF ScanInv
  <2>6. \A p \in minPort .. c : Used(p)
    BY <1>5, <1>6
  <2>7. Used(c)' /\ ~UsedOnce(c)' /\ \A p \in minPort .. c : Used(p)'
    BY <1>1, <1>6, <2>4, <2>6 DEF Used, UsedOnce
  <2>8. Blocked'
    BY <1>1, <2>5, <2>7 DEF Blocked
  <2> QED
    BY <1>1, <1>2, <1>7, <2>8 DEF ScanInv
<1>8. CASE ~Behind'
  <2>1. \A j \in 1 .. Len(usedPorts) : usedPorts[j] = c => j = k
    <3> SUFFICES ASSUME NEW j \in 1 .. Len(usedPorts), usedPorts[j] = c, j # k
                 PROVE  FALSE
      OBVIOUS
    <3>1. j > k
      BY <1>1 DEF ScanInv
    <3>2. k < Len(usedPorts) /\ usedPorts[k + 1] <= usedPorts[j]
      BY <1>1, <3>1
    <3> QED
      BY <1>1, <1>8, <3>2 DEF Behind, NextUsed
  <2>2. UsedOnce(c)
    BY <1>1, <2>1 DEF UsedOnce
  <2>3. \A q \in minPort .. currentPort' - 1 : UsedOnce(q)
    <3> SUFFICES ASSUME NEW q \in minPort .. currentPort' - 1 PROVE UsedOnce(q)
      OBVIOUS
    <3>1. q = c \/ q \in minPort .. c - 1
      BY <1>1
    <3> QED
      BY <1>4, <2>2, <3>1
  <2>4. \A q \in minPort' .. currentPort' - 1 : UsedOnce(q)'
    BY <1>1, <2>3 DEF UsedOnce
  <2> QED
    BY <1>1, <1>2, <1>8, <2>4 DEF ScanInv
<1> QED
    BY <1>7, <1>8

LEMMA InvInductive ==
    ASSUME Inv, [Next]_vars, TypeOK'
    PROVE  Inv'
<1> USE TypeFacts DEF Inv
<1>1. CASE SkipBelowRange
  <2>1. /\ UNCHANGED <<usedPorts, minPort, maxPort, currentPort, pc, found>>
        /\ usedPortIndex' = usedPortIndex + 1 /\ pc = "skip"
        /\ usedPortIndex < Len(usedPorts) /\ NextUsed < minPort
    BY <1>1 DEF SkipBelowRange, PassedAll, input
  <2>2. ScanInv'
    BY <2>1 DEF ScanInv, NextUsed
  <2> QED
    BY <2>1, <2>2 DEF ResultCorrect, NotFoundMeansFull
<1>2. CASE StartScan
  <2>1. /\ UNCHANGED <<usedPorts, minPort, maxPort, usedPortIndex, currentPort, found>>
        /\ pc = "skip" /\ pc' = "scan"
        /\ ~(usedPortIndex < Len(usedPorts) /\ NextUsed < minPort)
    BY <1>2 DEF StartScan, PassedAll, input
  <2>2. currentPort = minPort
    BY <2>1 DEF ScanInv
  <2>3. ~Behind'
    BY <2>1, <2>2 DEF Behind, NextUsed
  <2>4. ScanInv'
    BY <2>1, <2>2, <2>3 DEF ScanInv
  <2> QED
    BY <2>1, <2>4 DEF ResultCorrect, NotFoundMeansFull
<1>3. CASE ReturnFree
  <2>1. currentPort \in Reachable
    BY <1>3, FreeIsReachable
  <2>2. /\ UNCHANGED <<usedPorts, minPort, maxPort, usedPortIndex, currentPort>>
        /\ unusedPort' = currentPort /\ found' = TRUE /\ pc' = "done"
    BY <1>3 DEF ReturnFree, input
  <2>3. Reachable' = Reachable
    BY <2>2 DEF Reachable, Used, UsedOnce
  <2>4. ScanInv'
    BY <2>2 DEF ScanInv
  <2> QED
    BY <2>1, <2>2, <2>3, <2>4 DEF ResultCorrect, NotFoundMeansFull
<1>4. CASE PassUsed
  <2>1. ScanInv'
    BY <1>4, PassUsedKeepsScanInv
  <2> QED
    BY <1>4, <2>1 DEF PassUsed, ResultCorrect, NotFoundMeansFull
<1>5. CASE FallBehind
  <2>1. /\ UNCHANGED <<usedPorts, minPort, maxPort, usedPortIndex, pc, found>>
        /\ pc = "scan" /\ currentPort' = currentPort + 1
        /\ usedPortIndex < Len(usedPorts) /\ NextUsed < currentPort
    BY <1>5 DEF FallBehind, PassedAll, input
  <2>2. Blocked
    BY <2>1 DEF ScanInv, Behind
  <2>3. PICK q \in minPort .. currentPort - 1 :
            Used(q) /\ ~UsedOnce(q) /\ \A p \in minPort .. q : Used(p)
    BY <2>2 DEF Blocked
  <2>4. q \in minPort' .. currentPort' - 1
    BY <2>1, <2>3
  <2>5. Used(q)' /\ ~UsedOnce(q)' /\ \A p \in minPort' .. q : Used(p)'
    BY <2>1, <2>3 DEF Used, UsedOnce
  <2>6. Blocked' /\ Behind'
    BY <2>1, <2>4, <2>5 DEF Blocked, Behind, NextUsed
  <2>7. ScanInv'
    BY <2>1, <2>6 DEF ScanInv
  <2> QED
    BY <2>1, <2>7 DEF ResultCorrect, NotFoundMeansFull
<1>6. CASE ReturnNone
  <2>1. /\ UNCHANGED <<usedPorts, minPort, maxPort, usedPortIndex, currentPort, found>>
        /\ pc = "scan" /\ pc' = "done" /\ currentPort >= maxPort
    BY <1>6 DEF ReturnNone, input
  <2>2. Reachable = {}
    <3>1. CASE Behind
      BY <2>1, <3>1, BlockedIsUnreachable DEF ScanInv
    <3>2. CASE ~Behind
      <4>1. \A q \in minPort .. maxPort - 1 : UsedOnce(q)
        BY <2>1, <3>2 DEF ScanInv
      <4> QED
        BY <4>1 DEF Reachable, UsedOnce, Used
    <3> QED
      BY <3>1, <3>2
  <2>3. Reachable' = Reachable
    BY <2>1 DEF Reachable, Used, UsedOnce
  <2>4. ScanInv'
    BY <2>1 DEF ScanInv
  <2>5. NotFoundMeansFull'
    <3>1. SUFFICES ASSUME \A p \in PortNumbers : Used(p) => UsedOnce(p)
                   PROVE  \A p \in minPort .. maxPort - 1 : Used(p)
      BY <2>1 DEF NotFoundMeansFull, Used, UsedOnce
    <3>2. \A p : Used(p) => p \in PortNumbers
      BY UsedPortListsType DEF Used, TypeOK
    <3>3. ~Behind
      BY <2>1, <3>1, <3>2 DEF ScanInv, Blocked
    <3> QED
      BY <2>1, <3>3 DEF ScanInv, UsedOnce, Used
  <2> QED
    BY <2>1, <2>2, <2>3, <2>4, <2>5 DEF ResultCorrect
<1>7. CASE UNCHANGED vars
  <2>1. ScanInv'
    BY <1>7 DEF vars, ScanInv, Behind, NextUsed, Blocked, Used, UsedOnce
  <2>2. ResultCorrect' /\ NotFoundMeansFull'
    <3>1. Reachable' = Reachable /\ \A p : Used(p)' = Used(p) /\ UsedOnce(p)' = UsedOnce(p)
      BY <1>7 DEF vars, Reachable, Used, UsedOnce
    <3> QED
      BY <1>7, <3>1 DEF vars, ResultCorrect, NotFoundMeansFull
  <2> QED
    BY <1>7, <2>1, <2>2 DEF vars
<1> QED
    BY <1>1, <1>2, <1>3, <1>4, <1>5, <1>6, <1>7 DEF Next

\* The inductive invariant holds throughout every scan.
THEOREM InvHolds == Spec => []Inv
<1>1. Init => Inv
  <2> SUFFICES ASSUME Init PROVE Inv
    OBVIOUS
  <2>1. TypeOK
    <3>1. Len(usedPorts) \in Nat
      BY UsedPortListsType DEF Init
    <3>2. usedPortIndex \in 0 .. Len(usedPorts) /\ currentPort \in Nat
      BY <3>1, PortNumbersAssumption DEF Init
    <3>3. unusedPort \in Nat
      BY DEF Init
    <3> QED
      BY <3>2, <3>3 DEF Init, TypeOK
  <2>2. ScanInv
    BY <2>1, TypeFacts DEF Init, ScanInv
  <2> QED
    BY <2>1, <2>2 DEF Init, Inv, ResultCorrect, NotFoundMeansFull
<1>2. TypeOK' /\ Inv /\ [Next]_vars => Inv'
    BY InvInductive
<1> QED
    BY <1>1, <1>2, TypeCorrect, PTL DEF Spec

\* findUnusedPort returns the lowest free port of the slave's range whenever no
\* port below it is used twice, and nothing otherwise, for every range and
\* every sorted list of used ports.
THEOREM FindUnusedPortCorrect == Spec => []ResultCorrect
<1>1. Inv => ResultCorrect
    BY DEF Inv
<1> QED
    BY <1>1, InvHolds, PTL

\* When no two rows of a slave use the same port, findUnusedPort reports "not
\* found" only for a slave whose whole range is in use.
THEOREM NotFoundOnlyWhenFull == Spec => []NotFoundMeansFull
<1>1. Inv => NotFoundMeansFull
    BY DEF Inv
<1> QED
    BY <1>1, InvHolds, PTL
=============================================================================
