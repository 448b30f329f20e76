-------------------------- MODULE Allocator_proofs --------------------------
(***************************************************************************)
(* Proofs about what one run of the cluster allocator tells its operator   *)
(* and takes from the replica sets, for every layout that requests,        *)
(* monitor and earlier runs can bring about.                               *)
(*                                                                         *)
(* Both results speak of one state of the transaction, but are owed to     *)
(* what it did several statements before, so each needs an invariant that  *)
(* follows the run: Explained for the replica sets that were set aside     *)
(* while slaves still filled up, KInv for the members that were marked     *)
(* while the counts of the remaining rows had been read already.           *)
(***************************************************************************)
EXTENDS Master_proofs

-----------------------------------------------------------------------------
(* Why a replica set is reported unsatisfied.                               *)

\* No slave can take the missing member, or the query cannot see it.
NoSlaveFor(d, r, p) ==
    \/ IntendedSlaves(d, r, p) = {}
    \/ \E h \in HostsOf(d, r) : d.slaves[h].riskGroup = NULL

\* The replica sets set aside have no slave to put a member on, and still have none
\* while the repair goes on with the others.
Explained ==
    /\ pc = "repair" =>
          /\ \A r \in unsatisfiable : NoSlaveFor(work, r, pass)
          /\ ~pass => \A r \in DOMAIN work.replicaSets :
                         Lacks(work, r, TRUE) => NoSlaveFor(work, r, TRUE)
    /\ UnsatisfiedExplained

\* The query for suitable slaves misses a slave it is meant to find only because
\* of a host in no risk group.
LEMMA QueryMisses ==
    ASSUME NEW d, NEW r, NEW p, Suitable(d, r, p) = {}
    PROVE  NoSlaveFor(d, r, p)
PROOF
  <1> SUFFICES ASSUME \A h \in HostsOf(d, r) : d.slaves[h].riskGroup # NULL,
                      NEW s \in IntendedSlaves(d, r, p)
               PROVE  s \in Suitable(d, r, p)
    BY DEF NoSlaveFor
  <1> DEFINE g == d.slaves[s].riskGroup
             groups == {d.slaves[h].riskGroup : h \in HostsOf(d, r)}
  <1>1. g = NULL \/ g \notin groups
    BY DEF IntendedSlaves, SameRisk
  <1>2. NULL \notin groups
    OBVIOUS
  <1>3. SQLNotIn(g, groups) \/ g = NULL
    BY <1>1, <1>2 DEF SQLNotIn
  <1> QED BY <1>3 DEF IntendedSlaves, Suitable

\* A spawned Mongod makes no slave suitable again for anyone.
LEMMA SpawnFreesNoSlave ==
    ASSUME Sound(work), NEW r \in ReplicaSetNames, NEW s \in Hostnames, SpawnMongod(r, s),
           NEW q, NEW p, NoSlaveFor(work, q, p)
    PROVE  NoSlaveFor(work', q, p)
PROOF
  <1>1. PICK id \in MongodIds \ DOMAIN work.mongods :
              /\ DOMAIN work'.mongods = DOMAIN work.mongods \cup {id}
              /\ \A m \in DOMAIN work.mongods : work'.mongods[m] = work.mongods[m]
              /\ work'.slaves = work.slaves
    BY SpawnedRow
  <1>2. HostsOf(work, q) \subseteq HostsOf(work', q)
    BY <1>1 DEF HostsOf, MongodsOf
  <1>3. ASSUME NEW x \in DOMAIN work.slaves, FreeMongods(work', x) > 0
        PROVE  FreeMongods(work, x) > 0
    <2> DEFINE old == MongodsOnSlave(work, x)
               new == MongodsOnSlave(work', x)
               max == MaxMongods(work, x)
    <2>1. old \subseteq new /\ new \subseteq MongodIds
      <3>1. DOMAIN work.mongods \subseteq MongodIds
        BY DEF Sound, Database
      <3> QED BY <1>1, <3>1 DEF MongodsOnSlave
    <2>2. IsFiniteSet(new)
      BY <2>1, MongodIdsAssumption, FS_Subset
    <2>3. /\ Cardinality(old) \in Nat /\ Cardinality(new) \in Nat
          /\ Cardinality(old) <= Cardinality(new)
      BY <2>1, <2>2, FS_Subset, FS_CardinalityType
    <2>4. max \in Int
      <3>1. work.slaves[x] \in Slave
        BY DEF Sound, Database
      <3>2. work.slaves[x].rangeBegin \in Nat /\ work.slaves[x].rangeEnd \in Nat
        BY <3>1, DBPortsAssumption DEF Slave
      <3> QED BY <3>2 DEF MaxMongods
    <2>5. MaxMongods(work', x) = max
      BY <1>1 DEF MaxMongods
    <2> HIDE DEF old, new, max
    <2>6. max - Cardinality(new) > 0
      BY <1>3, <2>5 DEF FreeMongods, new
    <2>7. max - Cardinality(old) > 0
      BY <2>3, <2>4, <2>6
    <2> QED BY <2>7 DEF FreeMongods, old, max
  <1>4. IntendedSlaves(work', q, p) \subseteq IntendedSlaves(work, q, p)
    BY <1>1, <1>2, <1>3 DEF IntendedSlaves, SameRisk
  <1> QED BY <1>1, <1>2, <1>4 DEF NoSlaveFor

\* Spawning a Mongod leaves the replica sets that were set aside without a slave.
LEMMA SpawnKeepsExplained ==
    ASSUME IInv, Aside, Explained, NEW r \in ReplicaSetNames, NEW s \in Hostnames,
           SpawnMongod(r, s)
    PROVE  Explained'
PROOF
  <1>1. /\ pc = "repair" /\ pc' = "repair"
        /\ UNCHANGED <<pass, unsatisfiable, unsatisfiableIds, statuses>>
    BY DEF SpawnMongod, loop
  <1>2. Sound(work) /\ DOMAIN work.replicaSets \subseteq ReplicaSetNames /\ pass \in BOOLEAN
    BY DEF IInv, Sound, Database, Locals
  <1>3. work'.replicaSets = work.replicaSets
    BY <1>2, SpawnedRow
  <1>4. \A q \in unsatisfiable : NoSlaveFor(work', q, pass)
    BY <1>1, <1>2, SpawnFreesNoSlave DEF Explained
  <1>5. ASSUME ~pass, NEW q \in DOMAIN work.replicaSets, Lacks(work', q, TRUE)
        PROVE  NoSlaveFor(work', q, TRUE)
    <2>1. Lacks(work, q, TRUE)
      BY <1>2, <1>5, SpawnLeavesOthers
    <2>2. NoSlaveFor(work, q, TRUE)
      BY <1>1, <1>5, <2>1 DEF Explained
    <2> QED BY <1>2, <2>2, SpawnFreesNoSlave
  <1> QED BY <1>1, <1>3, <1>4, <1>5 DEF Explained, UnsatisfiedExplained

\* What is sent at the end of the second pass was explained in the pass that found
\* it.
LEMMA FinishPassKeepsExplained ==
    ASSUME IInv, Aside, Explained, FinishPass
    PROVE  Explained'
PROOF
  <1>1. /\ pc = "repair" /\ UNCHANGED <<work, unsatisfiableIds>> /\ unsatisfiable' = {}
        /\ Degraded(work, pass, unsatisfiable) = {}
    BY DEF FinishPass
  <1>2. Sound(work) /\ pass \in BOOLEAN
    BY DEF IInv, Locals
  <1>3. \A r \in DOMAIN work.replicaSets : r \in unsatisfiable <=> Lacks(work, r, pass)
    BY <1>1, <1>2, NoneDegraded DEF Aside
  <1>4. CASE pass
    <2>1. pc' = "repair" /\ pass' = FALSE /\ pass = TRUE
      BY <1>1, <1>2, <1>4 DEF FinishPass
    <2> QED BY <1>1, <1>3, <2>1 DEF Explained, UnsatisfiedExplained
  <1>5. CASE ~pass
    <2>1. pc' = "commit" /\ statuses' = [r \in DOMAIN work.replicaSets |-> ConstraintStatus(work, r)]
      BY <1>5 DEF FinishPass
    <2>2. pass = FALSE
      BY <1>2, <1>5
    <2>3. \A r \in DOMAIN work.replicaSets :
             ConstraintStatus(work, r).unsatisfied <=> r \in unsatisfiableIds
      BY DEF ConstraintStatus
    <2>4. \A r \in DOMAIN work.replicaSets :
             r \in unsatisfiableIds => \E p \in BOOLEAN : Lacks(work, r, p) /\ NoSlaveFor(work, r, p)
      BY <1>1, <1>3, <2>2 DEF Aside, Explained
    <2>5. \A r \in DOMAIN work.replicaSets :
             statuses'[r].unsatisfied =>
                \E p \in BOOLEAN : Lacks(work, r, p) /\ NoSlaveFor(work, r, p)
      BY <2>1, <2>3, <2>4
    <2>6. UnsatisfiedExplained'
      BY <1>1, <2>1, <2>5 DEF UnsatisfiedExplained, Lacks, NoSlaveFor
    <2> QED BY <2>1, <2>6 DEF Explained
  <1> QED BY <1>4, <1>5

\* A request commits at once or leaves its changes to the allocator.
LEMMA RequestsBegin ==
    ASSUME PeriodicRun \/ APIStep
    PROVE  pc' \in {"idle", "compile"}
PROOF
  BY DEF PeriodicRun, APIStep, SlavePut, SlaveUpdate, SlaveDelete, ReplicaSetPut,
     ReplicaSetUpdate, ReplicaSetDelete, RiskGroupPut, RiskGroupUpdate,
     RiskGroupDelete, RiskGroupRemoveSlave, RiskGroupAssignSlave, BeginWith

\* Who else takes a step opens a transaction, ends one or works on one of the
\* monitor's.
LEMMA OtherSteps ==
    ASSUME [Next]_vars, ~CompileStep
    PROVE  \/ PeriodicRun \/ APIStep
           \/ pc' \in {"idle", "observe"}
           \/ UNCHANGED allocatorVars
PROOF
  <1>1. CASE MonitorStep /\ ~MonitorTick
    <2>1. pc' \in {"idle", "observe"}
      BY <1>1 DEF MonitorStep, HandleSlaveError, UpdateObserved,
         CreateObserved, CommitObservation, CommitObservationFails, CloseObservation
    <2> QED BY <2>1
  <1>2. CASE \E s \in Hostnames, report \in Reports : HandleObservation(s, report)
    <2>1. pc' = "observe"
      BY <1>2 DEF HandleObservation
    <2> QED BY <2>1
  <1>3. CASE MonitorTick \/ UNCHANGED vars
    BY <1>3 DEF MonitorTick, vars
  <1> QED BY <1>1, <1>2, <1>3 DEF Next

\* Every step keeps the explanations.
LEMMA NextKeepsExplained == IInv /\ Aside /\ Explained /\ [Next]_vars => Explained'
PROOF
  <1> SUFFICES ASSUME IInv, Aside, Explained, [Next]_vars PROVE Explained'
    OBVIOUS
  <1>1. CASE CompileStep
    <2>1. CASE StartRepair
      BY <2>1 DEF StartRepair, Explained, UnsatisfiedExplained
    <2>2. CASE \E r \in ReplicaSetNames : FlagUnsatisfiable(r)
      <3>1. PICK r \in ReplicaSetNames : FlagUnsatisfiable(r)
        BY <2>2
      <3>2. NoSlaveFor(work, r, pass)
        BY <3>1, QueryMisses DEF FlagUnsatisfiable
      <3> QED BY <3>1, <3>2 DEF FlagUnsatisfiable, Explained, UnsatisfiedExplained
    <2>3. CASE \E r \in ReplicaSetNames, s \in Hostnames : SpawnMongod(r, s)
      BY <2>3, SpawnKeepsExplained
    <2>4. CASE FinishPass
      BY <2>4, FinishPassKeepsExplained
    <2>5. CASE pc' \notin {"repair", "commit"}
      BY <2>5 DEF Explained, UnsatisfiedExplained
    <2> QED BY <1>1, <2>1, <2>2, <2>3, <2>4, <2>5 DEF CompileStep, Cleanup, RemoveExcess,
          SpawnPanics, Commit, CommitFails, AfterPanic, Close
  <1>2. CASE PeriodicRun \/ APIStep \/ pc' \in {"idle", "observe"}
    <2>1. pc' \notin {"repair", "commit"}
      BY <1>2, RequestsBegin
    <2> QED BY <2>1 DEF Explained, UnsatisfiedExplained
  <1>3. CASE UNCHANGED allocatorVars
    <2>1. UNCHANGED <<work, pc, pass, unsatisfiable, statuses>>
      BY <1>3 DEF allocatorVars, loop
    <2> QED BY <2>1, Zenon DEF Explained, UnsatisfiedExplained
  <1> QED BY <1>1, <1>2, <1>3, OtherSteps

\* The constraint status that reaches the operator names the cause: a replica set is
\* unsatisfied when no slave qualifies for the member it lacks, or when NOT IN over a
\* host without risk group hides those that do.
THEOREM UnsatisfiedHasCause == Spec => []UnsatisfiedExplained
PROOF
  <1>1. Init => Aside /\ Explained
    BY DEF Init, AllocatorInit, Aside, DegradedIsReported, Explained, UnsatisfiedExplained
  <1>2. Explained => UnsatisfiedExplained
    BY DEF Explained
  <1> QED BY <1>1, <1>2, NextKeepsAside, NextKeepsExplained, InvariantHolds, PTL DEF Spec

-----------------------------------------------------------------------------
(* What the removal of excess members takes.                                *)

\* The run has condemned a member that served r when it began.
TakenFrom(r, p) ==
    \E m \in EffectiveMembers(db, r, p) \cap DOMAIN work.mongods :
        work.mongods[m].desired = "destroyed"

Enough(d, r, p) ==
    Cardinality(EffectiveMembers(d, r, p)) >= d.replicaSets[r].memberCount[p]

\* The rows of e's table mongods are rows of d, which serve the same replica set or
\* none any more, on the same kind of storage.
Inherits(d, e) ==
    \A m \in DOMAIN e.mongods :
        /\ m \in DOMAIN d.mongods
        /\ e.mongods[m].replicaSet \in {d.mongods[m].replicaSet, NULL}
        /\ SlaveOf(e, m).persistent = SlaveOf(d, m).persistent

SameDesired(d, e) ==
    \A m \in DOMAIN e.mongods : e.mongods[m].desired = d.mongods[m].desired

\* The counts of the excess rows that are left are those of the transaction's view,
\* although they were read before it marked members for the rows already handled.
KInv ==
    /\ pc = "compile" => Inherits(db, work) /\ SameDesired(db, work)
    /\ pc = "excess" =>
          /\ Inherits(db, work)
          /\ excess \subseteq ExcessRows(work)
          /\ \A r \in DOMAIN work.replicaSets, p \in BOOLEAN :
                TakenFrom(r, p) => Enough(work, r, p)
    /\ ExcessKeepsEnough

\* A slave may be added, and changed as long as its storage stays the same.
LEMMA UpsertSlaveInherits ==
    ASSUME NEW d, Database(d), NEW s, NEW row,
           s \in DOMAIN d.slaves => row.persistent = d.slaves[s].persistent
    PROVE  LET e == [d EXCEPT !.slaves = Upsert(@, s, row)]
           IN  Inherits(d, e) /\ SameDesired(d, e)
PROOF
  <1> DEFINE rows == Upsert(d.slaves, s, row)
             e == [d EXCEPT !.slaves = Upsert(@, s, row)]
  <1>1. e = [slaves |-> rows, replicaSets |-> d.replicaSets,
             mongods |-> d.mongods, riskGroups |-> d.riskGroups]
    BY TableReplaced DEF Database, Tables
  <1>2. rows[s] = row /\ \A x \in DOMAIN d.slaves \ {s} : rows[x] = d.slaves[x]
    BY DEF Upsert
  <1> HIDE DEF rows
  <1>3. e.slaves = rows /\ e.mongods = d.mongods
    BY <1>1
  <1> HIDE DEF e
  <1>4. \A m \in DOMAIN d.mongods : d.mongods[m].slave \in DOMAIN d.slaves
    BY DEF Database
  <1>5. \A x \in DOMAIN d.slaves : rows[x].persistent = d.slaves[x].persistent
    BY <1>2
  <1>6. Inherits(d, e) /\ SameDesired(d, e)
    BY <1>3, <1>4, <1>5 DEF Inherits, SameDesired, SlaveOf
  <1> QED BY <1>6 DEF e

\* A deleted slave takes its Mongods along and leaves the others alone.
LEMMA DeleteSlaveInherits ==
    ASSUME NEW d, Database(d), NEW s
    PROVE  Inherits(d, DeleteSlave(d, s)) /\ SameDesired(d, DeleteSlave(d, s))
PROOF
  <1> DEFINE slaves == Delete(d.slaves, {s})
             rows == Delete(d.mongods, MongodsOnSlave(d, s))
             e == DeleteSlave(d, s)
  <1>1. e = [slaves |-> slaves, replicaSets |-> d.replicaSets,
             mongods |-> rows, riskGroups |-> d.riskGroups]
    BY TwoTablesReplaced DEF Database, Tables, DeleteSlave
  <1>2. /\ DOMAIN slaves = DOMAIN d.slaves \ {s}
        /\ \A x \in DOMAIN slaves : slaves[x] = d.slaves[x]
    BY DEF Delete
  <1>3. /\ DOMAIN rows = {m \in DOMAIN d.mongods : d.mongods[m].slave # s}
        /\ \A m \in DOMAIN rows : rows[m] = d.mongods[m]
    BY DEF Delete, MongodsOnSlave
  <1> HIDE DEF rows, slaves
  <1>4. e.slaves = slaves /\ e.mongods = rows
    BY <1>1
  <1> HIDE DEF e
  <1>5. \A m \in DOMAIN d.mongods : d.mongods[m].slave \in DOMAIN d.slaves
    BY DEF Database
  <1>6. Inherits(d, e) /\ SameDesired(d, e)
    BY <1>2, <1>3, <1>4, <1>5 DEF Inherits, SameDesired, SlaveOf
  <1> QED BY <1>6 DEF e

\* A slave with Mongods is replaced by one of the same storage.
LEMMA ReplaceSlaveInherits ==
    ASSUME NEW d, Database(d), NEW s \in DOMAIN d.slaves, NEW hostname,
           hostname = s \/ hostname \notin DOMAIN d.slaves, NEW row,
           MongodsOnSlave(d, s) = {} \/ row.persistent = d.slaves[s].persistent
    PROVE  /\ Inherits(d, ReplaceSlave(d, s, hostname, row))
           /\ SameDesired(d, ReplaceSlave(d, s, hostname, row))
PROOF
  <1> DEFINE slaves == Upsert(Delete(d.slaves, {s}), hostname, row)
             rows == [m \in DOMAIN d.mongods |->
               [d.mongods[m] EXCEPT !.slave = IF @ = s THEN hostname ELSE @]]
             e == ReplaceSlave(d, s, hostname, row)
  <1>1. e = [slaves |-> slaves, replicaSets |-> d.replicaSets,
             mongods |-> rows, riskGroups |-> d.riskGroups]
    BY TwoTablesReplaced DEF Database, Tables, ReplaceSlave
  <1>2. /\ DOMAIN slaves = (DOMAIN d.slaves \ {s}) \cup {hostname}
        /\ slaves[hostname] = row
        /\ \A x \in DOMAIN slaves \ {hostname} : slaves[x] = d.slaves[x]
    BY DEF Delete, Upsert
  <1>3. DOMAIN rows = DOMAIN d.mongods
    OBVIOUS
  <1>4. \A m \in DOMAIN d.mongods :
           /\ rows[m].slave = IF d.mongods[m].slave = s THEN hostname ELSE d.mongods[m].slave
           /\ rows[m].replicaSet = d.mongods[m].replicaSet
           /\ rows[m].desired = d.mongods[m].desired
    BY DEF Database, Mongod
  <1> HIDE DEF rows, slaves
  <1>5. e.slaves = slaves /\ e.mongods = rows
    BY <1>1
  <1> HIDE DEF e
  <1>6. \A m \in DOMAIN d.mongods : d.mongods[m].slave \in DOMAIN d.slaves
    BY DEF Database
  <1>7. \A m \in DOMAIN d.mongods :
           slaves[rows[m].slave].persistent = d.slaves[d.mongods[m].slave].persistent
    BY <1>2, <1>4, <1>6 DEF MongodsOnSlave
  <1>8. Inherits(d, e) /\ SameDesired(d, e)
    BY <1>3, <1>4, <1>5, <1>7 DEF Inherits, SameDesired, SlaveOf
  <1> QED BY <1>8 DEF e

\* Deleting a replica set takes its members from it and gives them to nobody.
LEMMA DeleteReplicaSetInherits ==
    ASSUME NEW d, Database(d), NEW r
    PROVE  Inherits(d, DeleteReplicaSet(d, r)) /\ SameDesired(d, DeleteReplicaSet(d, r))
PROOF
  <1> DEFINE sets == Delete(d.replicaSets, {r})
             rows == [m \in DOMAIN d.mongods |->
               [d.mongods[m] EXCEPT !.replicaSet = IF @ = r THEN NULL ELSE @]]
             e == DeleteReplicaSet(d, r)
  <1>1. e = [slaves |-> d.slaves, replicaSets |-> sets,
             mongods |-> rows, riskGroups |-> d.riskGroups]
    BY TwoTablesReplaced DEF Database, Tables, DeleteReplicaSet
  <1>2. DOMAIN rows = DOMAIN d.mongods
    OBVIOUS
  <1>3. \A m \in DOMAIN d.mongods :
           /\ rows[m].slave = d.mongods[m].slave
           /\ rows[m].replicaSet \in {d.mongods[m].replicaSet, NULL}
           /\ rows[m].desired = d.mongods[m].desired
    BY DEF Database, Mongod
  <1> HIDE DEF rows
  <1>4. e.slaves = d.slaves /\ e.mongods = rows
    BY <1>1
  <1> HIDE DEF e
  <1>5. Inherits(d, e) /\ SameDesired(d, e)
    BY <1>2, <1>3, <1>4 DEF Inherits, SameDesired, SlaveOf
  <1> QED BY <1>5 DEF e

\* The tables replica_sets and risk_groups say nothing about a Mongod's row.
LEMMA OtherTablesInherit ==
    ASSUME NEW d, Database(d), NEW x
    PROVE  /\ Inherits(d, [d EXCEPT !.replicaSets = x])
           /\ SameDesired(d, [d EXCEPT !.replicaSets = x])
           /\ Inherits(d, [d EXCEPT !.riskGroups = x])
           /\ SameDesired(d, [d EXCEPT !.riskGroups = x])
PROOF
  <1> DEFINE e == [d EXCEPT !.replicaSets = x]
             f == [d EXCEPT !.riskGroups = x]
  <1>1. /\ e.mongods = d.mongods /\ e.slaves = d.slaves
        /\ f.mongods = d.mongods /\ f.slaves = d.slaves
    BY TableReplaced DEF Database, Tables
  <1> HIDE DEF e, f
  <1>2. Inherits(d, e) /\ SameDesired(d, e) /\ Inherits(d, f) /\ SameDesired(d, f)
    BY <1>1 DEF Inherits, SameDesired, SlaveOf
  <1> QED BY <1>2 DEF e, f

\* What a request finds when it opens the transaction, it changes only in columns
\* that do not make a Mongod serve someone else: changeToSlaveAllowed holds a slave
\* with Mongods to its storage.
LEMMA RequestInherits ==
    ASSUME IInv, PeriodicRun \/ APIStep
    PROVE  \/ pc' = "idle"
           \/ pc' = "compile" /\ db' = db /\ Inherits(db, work') /\ SameDesired(db, work')
PROOF
  <1>0. Database(db)
    BY DEF IInv, Sound
  <1>1. ASSUME NEW d, BeginWith(d), Inherits(db, d), SameDesired(db, d)
        PROVE  pc' = "compile" /\ db' = db /\ Inherits(db, work') /\ SameDesired(db, work')
    BY <1>1 DEF BeginWith
  <1>2. Inherits(db, db) /\ SameDesired(db, db)
    BY DEF Inherits, SameDesired
  <1>3. CASE PeriodicRun
    BY <1>1, <1>2, <1>3 DEF PeriodicRun
  <1>4. ASSUME NEW s \in Hostnames, NEW row \in PostedSlaves, SlavePut(s, row)
        PROVE  pc' = "compile" /\ db' = db /\ Inherits(db, work') /\ SameDesired(db, work')
    <2>1. /\ s \notin DOMAIN db.slaves
          /\ BeginWith([db EXCEPT !.slaves = Upsert(@, s, ProjectSlave(row))])
      BY <1>4 DEF SlavePut
    <2> QED BY <1>0, <1>1, <2>1, UpsertSlaveInherits
  <1>5. ASSUME NEW s \in Hostnames, NEW hostname \in Hostnames, NEW row \in PostedSlaves,
               SlaveUpdate(s, hostname, row)
        PROVE  pc' = "compile" /\ db' = db /\ Inherits(db, work') /\ SameDesired(db, work')
    <2>1. /\ s \in DOMAIN db.slaves
          /\ hostname = s \/ hostname \notin DOMAIN db.slaves
          /\ ChangeToSlaveAllowed(db, s, hostname, row)
          /\ BeginWith(ReplaceSlave(db, s, hostname, ProjectSlave(row)))
      BY <1>5 DEF SlaveUpdate
    <2>2. db.slaves[s] \in Slave /\ row \in Slave
      BY <1>0, <2>1, PostedSlavesAssumption DEF Database
    <2>3. MongodsOnSlave(db, s) = {} \/ row.persistent = db.slaves[s].persistent
      BY <2>1, <2>2 DEF ChangeToSlaveAllowed, Slave
    <2>4. ProjectSlave(row).persistent = row.persistent
      BY <2>2 DEF ProjectSlave, Slave
    <2> QED BY <1>0, <1>1, <2>1, <2>3, <2>4, ReplaceSlaveInherits
  <1>6. ASSUME NEW s \in Hostnames, SlaveDelete(s)
        PROVE  pc' = "compile" /\ db' = db /\ Inherits(db, work') /\ SameDesired(db, work')
    <2>1. BeginWith(DeleteSlave(db, s))
      BY <1>6 DEF SlaveDelete
    <2> QED BY <1>0, <1>1, <2>1, DeleteSlaveInherits
  <1>7. ASSUME NEW s \in Hostnames, NEW g \in RiskGroups, RiskGroupRemoveSlave(g, s)
        PROVE  pc' = "compile" /\ db' = db /\ Inherits(db, work') /\ SameDesired(db, work')
    <2> DEFINE row == [db.slaves[s] EXCEPT !.riskGroup = NULL]
    <2>1. /\ s \in DOMAIN db.slaves
          /\ BeginWith([db EXCEPT !.slaves = Upsert(@, s, row)])
      BY <1>7 DEF RiskGroupRemoveSlave
    <2>2. row.persistent = db.slaves[s].persistent
      <3>1. db.slaves[s] \in Slave
        BY <1>0, <2>1 DEF Database
      <3> QED BY <3>1 DEF Slave
    <2> HIDE DEF row
    <2> QED BY <1>0, <1>1, <2>1, <2>2, UpsertSlaveInherits
  <1>8. ASSUME NEW r \in ReplicaSetNames,
               \/ \E count \in PostedCounts : ReplicaSetPut(r, count) \/ ReplicaSetUpdate(r, count)
               \/ ReplicaSetDelete(r)
        PROVE  pc' = "compile" /\ db' = db /\ Inherits(db, work') /\ SameDesired(db, work')
    <2>1. \/ \E x : BeginWith([db EXCEPT !.replicaSets = x])
          \/ BeginWith(DeleteReplicaSet(db, r))
      BY <1>8 DEF ReplicaSetPut, ReplicaSetUpdate, ReplicaSetDelete
    <2> QED BY <1>0, <1>1, <2>1, OtherTablesInherit, DeleteReplicaSetInherits
  <1>9. ASSUME NEW g \in RiskGroups, RiskGroupPut(g) \/ RiskGroupUpdate(g) \/ RiskGroupDelete(g)
        PROVE  pc' = "compile" /\ db' = db /\ Inherits(db, work') /\ SameDesired(db, work')
    <2>1. BeginWith(db) \/ \E x : BeginWith([db EXCEPT !.riskGroups = x])
      BY <1>9 DEF RiskGroupPut, RiskGroupUpdate, RiskGroupDelete
    <2> QED BY <1>0, <1>1, <1>2, <2>1, OtherTablesInherit
  <1>10. ASSUME NEW s \in Hostnames, NEW g \in RiskGroups, RiskGroupAssignSlave(g, s)
         PROVE  pc' = "idle"
    BY <1>10 DEF RiskGroupAssignSlave
  <1> QED BY <1>3, <1>4, <1>5, <1>6, <1>7, <1>8, <1>9, <1>10 DEF APIStep

\* The rows that are left after the first statements, and what is desired of them.
LEMMA CleanedRows ==
    ASSUME NEW d, Database(d)
    PROVE  LET e == RemoveDestroyed(MarkOrphans(d))
           IN  /\ e.slaves = d.slaves
               /\ DOMAIN e.mongods \subseteq DOMAIN d.mongods
               /\ \A m \in DOMAIN e.mongods :
                     /\ e.mongods[m].slave = d.mongods[m].slave
                     /\ e.mongods[m].replicaSet = d.mongods[m].replicaSet
                     /\ e.mongods[m].desired \in {d.mongods[m].desired, "force_destroyed"}
PROOF
  <1> DEFINE f == MarkOrphans(d)
             e == RemoveDestroyed(f)
             marked == [m \in DOMAIN d.mongods |->
               [d.mongods[m] EXCEPT !.desired =
                   IF d.mongods[m].replicaSet = NULL THEN "force_destroyed" ELSE @]]
             rows == Delete(marked, Destroyed(f))
  <1>1. f = [slaves |-> d.slaves, replicaSets |-> d.replicaSets,
             mongods |-> marked, riskGroups |-> d.riskGroups]
    BY TableReplaced DEF Database, Tables, MarkOrphans
  <1>2. \A m \in DOMAIN d.mongods :
           /\ marked[m].slave = d.mongods[m].slave
           /\ marked[m].replicaSet = d.mongods[m].replicaSet
           /\ marked[m].desired \in {d.mongods[m].desired, "force_destroyed"}
    BY DEF Database, Mongod
  <1>3. DOMAIN marked = DOMAIN d.mongods
    OBVIOUS
  <1>4. /\ DOMAIN rows \subseteq DOMAIN marked
        /\ \A m \in DOMAIN rows : rows[m] = marked[m]
    BY DEF Delete
  <1> HIDE DEF marked
  <1>5. f.slaves = d.slaves /\ f.mongods = marked /\ Tables(f)
    BY <1>1 DEF Tables
  <1> HIDE DEF f
  <1>6. e = [f EXCEPT !.mongods = rows]
    BY <1>5 DEF RemoveDestroyed
  <1> HIDE DEF rows, e
  <1>7. e.slaves = d.slaves /\ e.mongods = rows
    BY <1>5, <1>6, TableReplaced
  <1>8. /\ DOMAIN e.mongods \subseteq DOMAIN d.mongods
        /\ \A m \in DOMAIN e.mongods :
              /\ e.mongods[m].slave = d.mongods[m].slave
              /\ e.mongods[m].replicaSet = d.mongods[m].replicaSet
              /\ e.mongods[m].desired \in {d.mongods[m].desired, "force_destroyed"}
    BY <1>2, <1>3, <1>4, <1>7
  <1> QED BY <1>7, <1>8 DEF e, f

\* Nothing is taken before the excess is counted.
LEMMA CleanupKeepsKInv ==
    ASSUME IInv, KInv, Cleanup
    PROVE  KInv'
PROOF
  <1>1. /\ pc = "compile" /\ pc' = "excess" /\ db' = db
        /\ work' = RemoveDestroyed(MarkOrphans(work))
        /\ excess' = ExcessRows(work')
    BY DEF Cleanup
  <1>2. Database(work) /\ Inherits(db, work) /\ SameDesired(db, work)
    BY <1>1 DEF IInv, Sound, KInv
  <1>3. /\ work'.slaves = work.slaves
        /\ DOMAIN work'.mongods \subseteq DOMAIN work.mongods
        /\ \A m \in DOMAIN work'.mongods :
              /\ work'.mongods[m].slave = work.mongods[m].slave
              /\ work'.mongods[m].replicaSet = work.mongods[m].replicaSet
              /\ work'.mongods[m].desired \in {work.mongods[m].desired, "force_destroyed"}
    BY <1>1, <1>2, CleanedRows
  <1>4. Inherits(db, work')
    BY <1>2, <1>3 DEF Inherits, SlaveOf
  <1>5. \A r, p : ~\E m \in EffectiveMembers(db, r, p) \cap DOMAIN work'.mongods :
                      work'.mongods[m].desired = "destroyed"
    BY <1>2, <1>3 DEF EffectiveMembers, SameDesired
  <1> QED BY <1>1, <1>4, <1>5 DEF KInv, TakenFrom, ExcessKeepsEnough

\* The members marked for one row of the excess.
LEMMA MarkedRows ==
    ASSUME NEW d, Database(d), NEW sel
    PROVE  LET e == MarkDestroyed(d, sel)
           IN  /\ e.slaves = d.slaves /\ e.replicaSets = d.replicaSets
               /\ DOMAIN e.mongods = DOMAIN d.mongods
               /\ \A m \in DOMAIN d.mongods :
                     /\ e.mongods[m].slave = d.mongods[m].slave
                     /\ e.mongods[m].replicaSet = d.mongods[m].replicaSet
                     /\ e.mongods[m].observed = d.mongods[m].observed
                     /\ e.mongods[m].desired = IF m \in sel THEN "destroyed"
                                               ELSE d.mongods[m].desired
PROOF
  <1> DEFINE rows == [m \in DOMAIN d.mongods |->
        [d.mongods[m] EXCEPT !.desired = IF m \in sel THEN "destroyed" ELSE @]]
  <1>1. MarkDestroyed(d, sel) = [slaves |-> d.slaves, replicaSets |-> d.replicaSets,
                                 mongods |-> rows, riskGroups |-> d.riskGroups]
    BY TableReplaced DEF Database, Tables, MarkDestroyed
  <1>2. \A m \in DOMAIN d.mongods :
           /\ rows[m].slave = d.mongods[m].slave
           /\ rows[m].replicaSet = d.mongods[m].replicaSet
           /\ rows[m].observed = d.mongods[m].observed
           /\ rows[m].desired = IF m \in sel THEN "destroyed" ELSE d.mongods[m].desired
    BY DEF Database, Mongod
  <1>3. DOMAIN rows = DOMAIN d.mongods
    OBVIOUS
  <1> HIDE DEF rows
  <1> QED BY <1>1, <1>2, <1>3

\* Sets of Mongods are finite, so they can be counted.
LEMMA MembersFinite ==
    ASSUME NEW d, Database(d), NEW S \in SUBSET DOMAIN d.mongods
    PROVE  IsFiniteSet(S) /\ Cardinality(S) \in Nat
PROOF
  <1>1. S \in SUBSET MongodIds
    BY DEF Database
  <1> QED BY <1>1, MongodIdsAssumption, FS_Subset, FS_CardinalityType

\* Taking no more members than were counted too many leaves enough of them.
LEMMA TakingExcess ==
    ASSUME NEW E, IsFiniteSet(E), NEW sel, IsFiniteSet(sel), NEW k \in Nat,
           Cardinality(sel) <= Cardinality(E) - k
    PROVE  Cardinality(E \ sel) >= k
PROOF
  <1>1. Cardinality(E \ sel) = Cardinality(E) - Cardinality(E \cap sel)
    BY FS_Difference
  <1>2. Cardinality(E \cap sel) <= Cardinality(sel) /\ IsFiniteSet(E \cap sel)
    BY FS_Intersection
  <1>3. Cardinality(E) \in Nat /\ Cardinality(sel) \in Nat /\ Cardinality(E \cap sel) \in Nat
    BY <1>2, FS_CardinalityType
  <1> QED BY <1>1, <1>2, <1>3

\* One row of the excess is handled: its replica set keeps the members it needs, and
\* the counts of all other rows remain right.
LEMMA RemoveExcessKeepsKInv ==
    ASSUME IInv, KInv, NEW row, RemoveExcess(row)
    PROVE  KInv'
PROOF
  <1>1. /\ pc = "excess" /\ pc' = "excess" /\ db' = db
        /\ row \in excess /\ excess' = excess \ {row}
    BY DEF RemoveExcess
  <1>2. /\ Database(work) /\ Inherits(db, work) /\ excess \subseteq ExcessRows(work)
        /\ DOMAIN work.replicaSets \subseteq ReplicaSetNames
        /\ \A r \in DOMAIN work.replicaSets, p \in BOOLEAN : TakenFrom(r, p) => Enough(work, r, p)
    BY <1>1 DEF IInv, Sound, Database, KInv
  <1> DEFINE E(r, p) == EffectiveMembers(work, r, p)
             k(r, p) == work.replicaSets[r].memberCount[p]
  <1>3. PICK r0 \in DOMAIN work.replicaSets, p0 \in BOOLEAN :
           /\ row = <<r0, p0, Cardinality(E(r0, p0)) - k(r0, p0)>>
           /\ row[3] > 0
    BY <1>1, <1>2 DEF ExcessRows
  <1>4. PICK sel \in FirstDeletable(work, r0, p0, row[3]) : work' = MarkDestroyed(work, sel)
    BY <1>3 DEF RemoveExcess
  <1>5. sel \in SUBSET Deletable(work, r0, p0)
    BY <1>4 DEF FirstDeletable
  <1>6. \A m \in sel : /\ m \in DOMAIN work.mongods
                       /\ work.mongods[m].replicaSet = r0
                       /\ SlaveOf(work, m).persistent = p0
    BY <1>5 DEF Deletable, MongodsOf
  <1>7. /\ work'.slaves = work.slaves /\ work'.replicaSets = work.replicaSets
        /\ DOMAIN work'.mongods = DOMAIN work.mongods
        /\ \A m \in DOMAIN work.mongods :
              /\ work'.mongods[m].slave = work.mongods[m].slave
              /\ work'.mongods[m].replicaSet = work.mongods[m].replicaSet
              /\ work'.mongods[m].observed = work.mongods[m].observed
              /\ work'.mongods[m].desired = IF m \in sel THEN "destroyed"
                                            ELSE work.mongods[m].desired
    BY <1>2, <1>4, MarkedRows
  <1>8. \A r, p : EffectiveMembers(work', r, p) = E(r, p) \ sel
    BY <1>7 DEF EffectiveMembers, MongodsOf, SlaveOf
  <1>9. ASSUME NEW r, NEW p, r # r0 \/ p # p0
        PROVE  EffectiveMembers(work', r, p) = E(r, p)
    <2>1. E(r, p) \cap sel = {}
      BY <1>6, <1>9 DEF EffectiveMembers, MongodsOf
    <2> QED BY <1>8, <2>1
  <1>10. Inherits(db, work')
    BY <1>2, <1>7 DEF Inherits, SlaveOf
  <1>11. excess' \subseteq ExcessRows(work')
    <2> SUFFICES ASSUME NEW x \in excess, x # row PROVE x \in ExcessRows(work')
      BY <1>1
    <2>1. PICK r \in DOMAIN work.replicaSets, p \in BOOLEAN :
             x = <<r, p, Cardinality(E(r, p)) - k(r, p)>> /\ x[3] > 0
      BY <1>2 DEF ExcessRows
    <2>2. r # r0 \/ p # p0
      BY <1>3, <2>1
    <2>3. Cardinality(EffectiveMembers(work', r, p)) = Cardinality(E(r, p))
      BY <1>9, <2>2
    <2> QED BY <1>7, <2>1, <2>3 DEF ExcessRows
  <1>12. Enough(work', r0, p0)
    <2>1. IsFiniteSet(E(r0, p0)) /\ Cardinality(E(r0, p0)) \in Nat
      <3>1. E(r0, p0) \in SUBSET DOMAIN work.mongods
        BY DEF EffectiveMembers, MongodsOf
      <3> QED BY <1>2, <3>1, MembersFinite
    <2>2. IsFiniteSet(sel) /\ Cardinality(sel) \in Nat
      <3>1. sel \in SUBSET DOMAIN work.mongods
        BY <1>6
      <3> QED BY <1>2, <3>1, MembersFinite
    <2>3. k(r0, p0) \in Nat
      <3>1. work.replicaSets[r0] \in ReplicaSet
        BY <1>2 DEF Database
      <3> QED BY <3>1, MaxMembersAssumption DEF ReplicaSet
    <2>4. Cardinality(Deletable(work, r0, p0)) \in Nat
      <3>1. Deletable(work, r0, p0) \in SUBSET DOMAIN work.mongods
        BY DEF Deletable, MongodsOf
      <3> QED BY <1>2, <3>1, MembersFinite
    <2>5. row[3] = Cardinality(E(r0, p0)) - k(r0, p0)
      BY <1>3
    <2>6. Cardinality(sel) = (IF row[3] < Cardinality(Deletable(work, r0, p0)) THEN row[3]
                              ELSE Cardinality(Deletable(work, r0, p0)))
      BY <1>4 DEF FirstDeletable
    <2> HIDE DEF E, k
    <2>7. Cardinality(sel) <= Cardinality(E(r0, p0)) - k(r0, p0)
      BY <2>1, <2>2, <2>3, <2>4, <2>5, <2>6
    <2>8. Cardinality(E(r0, p0) \ sel) >= k(r0, p0)
      BY <2>1, <2>2, <2>3, <2>7, TakingExcess
    <2> QED BY <1>7, <1>8, <2>8 DEF Enough, k
  <1>13. ASSUME NEW r \in DOMAIN work.replicaSets, NEW p \in BOOLEAN, TakenFrom(r, p)'
         PROVE  Enough(work', r, p)
    <2>1. CASE r = r0 /\ p = p0
      BY <1>12, <2>1
    <2>2. CASE r # r0 \/ p # p0
      <3>1. PICK m \in EffectiveMembers(db, r, p) \cap DOMAIN work'.mongods :
               work'.mongods[m].desired = "destroyed"
        BY <1>1, <1>13 DEF TakenFrom
      <3>2. m \in DOMAIN work.mongods /\ db.mongods[m].replicaSet = r /\ SlaveOf(db, m).persistent = p
        BY <1>7, <3>1 DEF EffectiveMembers, MongodsOf
      <3>3. m \notin sel
        <4> SUFFICES ASSUME m \in sel PROVE FALSE
          OBVIOUS
        <4>1. work.mongods[m].replicaSet = r0 /\ SlaveOf(work, m).persistent = p0 /\ r0 # NULL
          BY <1>2, <1>6, NamesAssumption
        <4> QED BY <1>2, <2>2, <3>2, <4>1 DEF Inherits
      <3>4. TakenFrom(r, p)
        BY <1>7, <3>1, <3>2, <3>3 DEF TakenFrom
      <3>5. Enough(work, r, p)
        BY <1>2, <3>4
      <3>6. EffectiveMembers(work', r, p) = E(r, p)
        BY <1>9, <2>2
      <3> QED BY <1>7, <3>5, <3>6 DEF Enough
    <2> QED BY <2>1, <2>2
  <1> QED BY <1>1, <1>7, <1>10, <1>11, <1>13 DEF KInv, ExcessKeepsEnough

\* Members that are spawned take nothing from anyone, even if their ids are those of
\* rows that a deleted slave took along.
LEMMA SpawnKeepsKInv ==
    ASSUME IInv, IInv', KInv, NEW r \in ReplicaSetNames, NEW s \in Hostnames,
           SpawnMongod(r, s)
    PROVE  KInv'
PROOF
  <1>1. pc = "repair" /\ pc' = "repair" /\ db' = db
    BY DEF SpawnMongod
  <1>2. Sound(work) /\ Sound(work')
    BY DEF IInv
  <1>3. PICK id \in MongodIds \ DOMAIN work.mongods :
              /\ DOMAIN work'.mongods = DOMAIN work.mongods \cup {id}
              /\ work'.mongods[id].desired = "running"
              /\ \A m \in DOMAIN work.mongods : work'.mongods[m] = work.mongods[m]
              /\ work'.slaves = work.slaves
              /\ work'.replicaSets = work.replicaSets
    BY <1>2, SpawnedRow
  <1>4. ASSUME NEW q \in DOMAIN work.replicaSets, NEW p \in BOOLEAN, TakenFrom(q, p)'
        PROVE  Enough(work', q, p)
    <2>1. TakenFrom(q, p)
      BY <1>1, <1>3, <1>4 DEF TakenFrom
    <2>2. Enough(work, q, p)
      BY <1>1, <2>1 DEF KInv, ExcessKeepsEnough, TakenFrom, Enough
    <2> DEFINE old == EffectiveMembers(work, q, p)
               new == EffectiveMembers(work', q, p)
               k == work.replicaSets[q].memberCount[p]
    <2>3. old \subseteq new /\ new \subseteq DOMAIN work'.mongods
      BY <1>3 DEF EffectiveMembers, MongodsOf, SlaveOf
    <2>4. /\ Cardinality(old) \in Nat /\ Cardinality(new) \in Nat
          /\ Cardinality(old) <= Cardinality(new)
      <3>1. IsFiniteSet(new) /\ Cardinality(new) \in Nat
        BY <1>2, <2>3, MembersFinite DEF Sound
      <3> QED BY <2>3, <3>1, FS_Subset, FS_CardinalityType
    <2>5. k \in Nat
      <3>1. work.replicaSets[q] \in ReplicaSet
        BY <1>2 DEF Sound, Database
      <3> QED BY <3>1, MaxMembersAssumption DEF ReplicaSet
    <2>6. Cardinality(old) >= k
      BY <2>2 DEF Enough
    <2> HIDE DEF old, new, k
    <2>7. Cardinality(new) >= k
      BY <2>4, <2>5, <2>6
    <2> QED BY <1>3, <2>7 DEF Enough, new, k
  <1> QED BY <1>1, <1>3, <1>4 DEF KInv, ExcessKeepsEnough, TakenFrom, Enough

\* Every step keeps this invariant.
LEMMA NextKeepsKInv == IInv /\ IInv' /\ KInv /\ [Next]_vars => KInv'
PROOF
  <1> SUFFICES ASSUME IInv, IInv', KInv, [Next]_vars PROVE KInv'
    OBVIOUS
  <1>1. CASE CompileStep
    <2>1. CASE Cleanup
      BY <2>1, CleanupKeepsKInv
    <2>2. CASE \E row \in excess : RemoveExcess(row)
      BY <2>2, RemoveExcessKeepsKInv
    <2>3. CASE StartRepair
      <3>1. pc = "excess" /\ pc' = "repair" /\ UNCHANGED <<db, work>>
        BY <2>3 DEF StartRepair
      <3> QED BY <3>1 DEF KInv, ExcessKeepsEnough, TakenFrom, Enough
    <2>4. CASE \E r \in ReplicaSetNames, s \in Hostnames : SpawnMongod(r, s)
      BY <2>4, SpawnKeepsKInv
    <2>5. CASE FinishPass \/ \E r \in ReplicaSetNames : FlagUnsatisfiable(r)
      <3>1. pc = "repair" /\ pc' \in {"repair", "commit"} /\ UNCHANGED <<db, work>>
        BY <2>5 DEF FinishPass, FlagUnsatisfiable
      <3> QED BY <3>1 DEF KInv, ExcessKeepsEnough
    <2>6. CASE pc' \in {"idle", "panic"}
      BY <2>6 DEF KInv, ExcessKeepsEnough
    <2> QED BY <1>1, <2>1, <2>2, <2>3, <2>4, <2>5, <2>6 DEF CompileStep,
          SpawnPanics, Commit, CommitFails, AfterPanic, Close
  <1>2. CASE PeriodicRun \/ APIStep
    <2>1. CASE pc' = "idle"
      BY <2>1 DEF KInv, ExcessKeepsEnough
    <2>2. CASE pc' = "compile" /\ db' = db /\ Inherits(db, work') /\ SameDesired(db, work')
      BY <2>2 DEF KInv, ExcessKeepsEnough
    <2> QED BY <1>2, <2>1, <2>2, RequestInherits
  <1>3. CASE UNCHANGED allocatorVars
    <2>1. UNCHANGED <<db, work, pc, excess>>
      BY <1>3 DEF allocatorVars, loop
    <2> QED BY <2>1 DEF KInv, ExcessKeepsEnough, TakenFrom
  <1>4. CASE pc' \in {"idle", "observe"}
    BY <1>4 DEF KInv, ExcessKeepsEnough
  <1> QED BY <1>1, <1>2, <1>3, <1>4, OtherSteps

\* However the excess of several replica sets is counted and removed, a run of the
\* allocator never takes a serving member from a replica set without leaving it as
\* many as it needs.
THEOREM EnoughMembersAreKept == Spec => []ExcessKeepsEnough
PROOF
  <1>1. Init => KInv
    BY DEF Init, AllocatorInit, KInv, ExcessKeepsEnough
  <1>2. KInv => ExcessKeepsEnough
    BY DEF KInv
  <1> QED BY <1>1, <1>2, NextKeepsKInv, InvariantHolds, PTL DEF Spec

-----------------------------------------------------------------------------
(* findUnusedPort, by its result and by its statements.                     *)

\* PortScan for a list of used ports and a range, with its loop in any state.
Scan(ports, lo, hi, index, current, at, port, ok) ==
    INSTANCE PortScan WITH MaxUsed <- Cardinality(MongodIds),
        usedPorts <- ports, minPort <- lo, maxPort <- hi, usedPortIndex <- index,
        currentPort <- current, pc <- at, unusedPort <- port, found <- ok

\* What the query for the ports in use on slave s returns: its row i is that of the
\* Mongod row[i], and every Mongod of the slave has one row.
PortsQuery(d, s, ports, row) ==
    /\ \A i \in DOMAIN ports : /\ row[i] \in MongodsOnSlave(d, s)
                               /\ ports[i] = d.mongods[row[i]].port
    /\ \A i, j \in DOMAIN ports : row[i] = row[j] => i = j
    /\ \A m \in MongodsOnSlave(d, s) : \E i \in DOMAIN ports : row[i] = m

\* spawnMongodOnSlave gets from findUnusedPort, called with the ports in use on the
\* slave, what ClusterAllocator's FindUnusedPort says: FindUnusedPortCorrect of
\* PortScan_proofs, which is about ResultCorrect, carries over to the allocator.
THEOREM PortScanFindsUnusedPort ==
    ASSUME NEW d, NEW s, NEW ports, NEW row, PortsQuery(d, s, ports, row),
           NEW index, NEW current, NEW port, NEW ok \in BOOLEAN,
           Scan(ports, d.slaves[s].rangeBegin, d.slaves[s].rangeEnd,
                index, current, "done", port, ok)!ResultCorrect
    PROVE  IF ok THEN port \in FindUnusedPort(d, s) ELSE FindUnusedPort(d, s) = {}
PROOF
  <1> DEFINE Used(q) == \E i \in DOMAIN ports : ports[i] = q
             UsedOnce(q) == \E i \in DOMAIN ports :
                               /\ ports[i] = q
                               /\ \A j \in DOMAIN ports : ports[j] = q => j = i
             reachable == {p \in d.slaves[s].rangeBegin .. d.slaves[s].rangeEnd - 1 :
                              /\ ~Used(p)
                              /\ \A q \in d.slaves[s].rangeBegin .. p - 1 : UsedOnce(q)}
  <1>1. \A q : Used(q) <=> UsersOf(d, s, q) # {}
    BY DEF PortsQuery, UsersOf
  <1>2. \A q : UsedOnce(q) <=> \E m \in UsersOf(d, s, q) : UsersOf(d, s, q) = {m}
    <2> TAKE q
    <2>1. ASSUME UsedOnce(q) PROVE \E m \in UsersOf(d, s, q) : UsersOf(d, s, q) = {m}
      BY <2>1 DEF PortsQuery, UsersOf
    <2>2. ASSUME NEW m \in UsersOf(d, s, q), UsersOf(d, s, q) = {m} PROVE UsedOnce(q)
      <3>1. PICK i \in DOMAIN ports : row[i] = m
        BY <2>2 DEF PortsQuery, UsersOf
      <3> QED BY <2>2, <3>1 DEF PortsQuery, UsersOf
    <2> QED BY <2>1, <2>2
  <1>3. IF ok THEN port \in reachable ELSE reachable = {}
    BY DEF Scan!ResultCorrect, Scan!Reachable, Scan!Used, Scan!UsedOnce
  <1> HIDE DEF Used, UsedOnce
  <1>4. reachable = FindUnusedPort(d, s)
    BY <1>1, <1>2 DEF FindUnusedPort
  <1> QED BY <1>3, <1>4
=============================================================================
