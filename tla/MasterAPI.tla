----------------------------- MODULE MasterAPI -----------------------------
(***************************************************************************)
(* The handlers of the master's HTTP API that change the database          *)
(* (master/masterapi).  A handler opens a transaction, validates, writes,  *)
(* runs the cluster allocator in the same transaction and commits.  A      *)
(* request that is refused rolls back and changes nothing; it is no step.  *)
(***************************************************************************)
EXTENDS ClusterAllocator

CONSTANTS
    PostedSlaves,    \* slaves a client may send; their error is FALSE
    PostedCounts     \* member counts a client may send

ASSUME PostedSlavesAssumption == PostedSlaves \subseteq Slave
ASSUME PostedCountsAssumption == PostedCounts \subseteq [BOOLEAN -> 0 .. MaxMembers]

\* ProjectSlaveToModelSlave: the range is checked, and no observation error is
\* carried over from the row that is replaced.
ProjectSlave(row) == [row EXCEPT !.error = FALSE]
ValidSlave(row)   == row.rangeBegin <= row.rangeEnd

\* The deferred foreign key slaves.risk_group_id, checked by COMMIT.
RiskGroupExists(d, row) == row.riskGroup \in d.riskGroups \cup {NULL}

SlavePut(s, row) ==
    /\ ValidSlave(row)
    /\ s \notin DOMAIN db.slaves                 \* hostname is UNIQUE
    /\ RiskGroupExists(db, row)
    /\ BeginWith([db EXCEPT !.slaves = Upsert(@, s, ProjectSlave(row))])

\* A change of nothing but the state is always allowed; any other change needs
\* the state maintenance or disabled, and while the slave has Mongods it must
\* neither cut the port range nor change the storage.
ChangeToSlaveAllowed(d, s, hostname, row) ==
    LET cur == d.slaves[s]
    IN  \/ /\ hostname = s
           /\ row = [cur EXCEPT !.state = row.state, !.error = row.error]
        \/ /\ cur.state \in {"disabled", "maintenance"}
           /\ \/ MongodsOnSlave(d, s) = {}
              \/ /\ row.rangeBegin <= cur.rangeBegin
                 /\ row.rangeEnd >= cur.rangeEnd
                 /\ row.persistent = cur.persistent

\* The row of slave s, now named hostname; its Mongods refer to it by its id.
ReplaceSlave(d, s, hostname, row) ==
    [d EXCEPT !.slaves  = Upsert(Delete(@, {s}), hostname, row),
              !.mongods = [m \in DOMAIN d.mongods |->
                  [d.mongods[m] EXCEPT !.slave = IF @ = s THEN hostname ELSE @]]]

\* Save writes every column, observation_error_id included.
SlaveUpdate(s, hostname, row) ==
    /\ ValidSlave(row)
    /\ s \in DOMAIN db.slaves
    /\ hostname = s \/ hostname \notin DOMAIN db.slaves
    /\ ChangeToSlaveAllowed(db, s, hostname, row)
    /\ RiskGroupExists(db, row)
    /\ BeginWith(ReplaceSlave(db, s, hostname, ProjectSlave(row)))

\* Refused for a slave that is not disabled and has Mongods.
SlaveDelete(s) ==
    /\ s \in DOMAIN db.slaves
    /\ MongodsOnSlave(db, s) = {} \/ db.slaves[s].state = "disabled"
    /\ BeginWith(DeleteSlave(db, s))

\* changeToReplicaSetAllowed: name, sharding role and initiation status do not
\* change, and there is at least one member.
ChangeToReplicaSetAllowed(count) == count[TRUE] + count[FALSE] >= 1

ReplicaSetPut(r, count) ==
    /\ r \notin DOMAIN db.replicaSets            \* name is UNIQUE
    /\ ChangeToReplicaSetAllowed(count)
    /\ BeginWith([db EXCEPT !.replicaSets = Upsert(@, r, [memberCount |-> count])])

ReplicaSetUpdate(r, count) ==
    /\ r \in DOMAIN db.replicaSets
    /\ ChangeToReplicaSetAllowed(count)
    /\ BeginWith([db EXCEPT !.replicaSets = Upsert(@, r, [memberCount |-> count])])

ReplicaSetDelete(r) ==
    /\ r \in DOMAIN db.replicaSets
    /\ BeginWith(DeleteReplicaSet(db, r))

RiskGroupPut(g) ==
    /\ g \notin db.riskGroups
    /\ BeginWith([db EXCEPT !.riskGroups = @ \cup {g}])

\* Changes the name, which nothing here depends on.
RiskGroupUpdate(g) == g \in db.riskGroups /\ BeginWith(db)

\* Only risk groups without slaves can be deleted.
RiskGroupDelete(g) ==
    /\ g \in db.riskGroups
    /\ \A s \in DOMAIN db.slaves : db.slaves[s].riskGroup # g
    /\ BeginWith([db EXCEPT !.riskGroups = @ \ {g}])

\* Commits without running the allocator; keeps the observation error.
RiskGroupAssignSlave(g, s) ==
    LET row == [db.slaves[s] EXCEPT !.riskGroup = g]
    IN  /\ pc = "idle"
        /\ g \in db.riskGroups
        /\ s \in DOMAIN db.slaves
        /\ ChangeToSlaveAllowed(db, s, s, row)
        /\ db' = [db EXCEPT !.slaves = Upsert(@, s, row)]
        /\ work' = db'
        /\ UNCHANGED <<pc, loop>>

RiskGroupRemoveSlave(g, s) ==
    LET row == [db.slaves[s] EXCEPT !.riskGroup = NULL]
    IN  /\ g \in db.riskGroups
        /\ s \in DOMAIN db.slaves
        /\ db.slaves[s].riskGroup = g
        /\ ChangeToSlaveAllowed(db, s, s, row)
        /\ BeginWith([db EXCEPT !.slaves = Upsert(@, s, row)])

APIStep ==
    \/ \E s \in Hostnames :
          \/ \E row \in PostedSlaves :
                \/ SlavePut(s, row)
                \/ \E hostname \in Hostnames : SlaveUpdate(s, hostname, row)
          \/ SlaveDelete(s)
          \/ \E g \in RiskGroups : RiskGroupAssignSlave(g, s) \/ RiskGroupRemoveSlave(g, s)
    \/ \E r \in ReplicaSetNames :
          \/ \E count \in PostedCounts : ReplicaSetPut(r, count) \/ ReplicaSetUpdate(r, count)
          \/ ReplicaSetDelete(r)
    \/ \E g \in RiskGroups : RiskGroupPut(g) \/ RiskGroupUpdate(g) \/ RiskGroupDelete(g)
=============================================================================
