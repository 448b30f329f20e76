------------------------------ MODULE MamidDB ------------------------------
(***************************************************************************)
(* The master's database: its tables, views and referential actions        *)
(* (model/sql/mamid_postgresql.sql, model/db.go).                          *)
(*                                                                         *)
(* A database is a record of tables; a table is a function from the keys   *)
(* of its rows to the rows.  Slaves are keyed by their (UNIQUE) hostname,  *)
(* replica sets by their (UNIQUE) name: a row that is deleted and created  *)
(* again finds no row that still refers to it, because a deletion cascades *)
(* to the slave's Mongods and sets replica_set_id to NULL.  Mongods are    *)
(* keyed by id.  A MongodState row belongs to one Mongod and is folded     *)
(* into it (desired, observed), and so is an msp_errors row, of which only *)
(* the presence matters (error).                                           *)
(*                                                                         *)
(* Every operator takes the database as a parameter, so that it can be     *)
(* applied to the committed tables and to a transaction's view of them.    *)
(***************************************************************************)
EXTENDS Integers, FiniteSets

CONSTANTS
    Hostnames, ReplicaSetNames, RiskGroups,
    MongodIds,      \* ids of Mongod rows; its size bounds the table
    PortNumbers,
    MaxMembers,     \* bound on a replica set's member counts
    NULL            \* SQL's NULL; as a repl_set_name, the empty string

ASSUME HostnamesAssumption   == NULL \notin Hostnames
ASSUME NamesAssumption       == NULL \notin ReplicaSetNames
ASSUME RiskGroupsAssumption  == NULL \notin RiskGroups
ASSUME MongodIdsAssumption   == IsFiniteSet(MongodIds) /\ MongodIds \subseteq Nat
ASSUME DBPortsAssumption     == /\ PortNumbers \subseteq Nat
                                /\ \A p, q \in PortNumbers : p .. q \subseteq PortNumbers
ASSUME MaxMembersAssumption  == MaxMembers \in Nat

-----------------------------------------------------------------------------
(* Rows and tables.                                                         *)

SlaveStates == {"active", "maintenance", "disabled"}

\* MongodExecutionState; "none" is the value 0 that
\* MspMongodStateToModelExecutionState yields for a state it does not know.
ExecutionStates == {"force_destroyed", "destroyed", "not_running",
                    "uninitiated", "recovering", "running", "none"}
DesiredStates   == {"force_destroyed", "destroyed", "running"}

Slave == [rangeBegin : PortNumbers, rangeEnd : PortNumbers,
          persistent : BOOLEAN, state : SlaveStates,
          riskGroup : RiskGroups \cup {NULL}, error : BOOLEAN]

\* PersistentMemberCount is memberCount[TRUE], VolatileMemberCount
\* memberCount[FALSE].
ReplicaSet == [memberCount : [BOOLEAN -> 0 .. MaxMembers]]

Mongod == [slave : Hostnames, port : PortNumbers,
           name : ReplicaSetNames \cup {NULL},
           replicaSet : ReplicaSetNames \cup {NULL},
           desired : DesiredStates,
           observed : ExecutionStates \cup {NULL}, error : BOOLEAN]

\* Column types and foreign keys.
Database(d) ==
    /\ d = [slaves |-> d.slaves, replicaSets |-> d.replicaSets,
            mongods |-> d.mongods, riskGroups |-> d.riskGroups]
    /\ DOMAIN d.slaves \subseteq Hostnames
    /\ \A s \in DOMAIN d.slaves : d.slaves[s] \in Slave
    /\ DOMAIN d.replicaSets \subseteq ReplicaSetNames
    /\ \A r \in DOMAIN d.replicaSets : d.replicaSets[r] \in ReplicaSet
    /\ DOMAIN d.mongods \subseteq MongodIds
    /\ \A m \in DOMAIN d.mongods :
          /\ d.mongods[m] \in Mongod
          /\ d.mongods[m].slave \in DOMAIN d.slaves
          /\ d.mongods[m].replicaSet \in DOMAIN d.replicaSets \cup {NULL}
    /\ d.riskGroups \subseteq RiskGroups
    /\ \A s \in DOMAIN d.slaves : d.slaves[s].riskGroup \in d.riskGroups \cup {NULL}

EmptyDatabase == [slaves |-> <<>>, replicaSets |-> <<>>, mongods |-> <<>>,
                  riskGroups |-> {}]

\* Insert or overwrite the row of key k, delete the rows of keys ks.
Upsert(t, k, row) == [x \in DOMAIN t \cup {k} |-> IF x = k THEN row ELSE t[x]]
Delete(t, ks)     == [x \in DOMAIN t \ ks |-> t[x]]

\* BIGSERIAL: the key of the next row.  Ids of deleted rows are used again to
\* keep the table bounded; no row outlives the row it refers to.
NextIds(d) == LET free == MongodIds \ DOMAIN d.mongods
              IN  {i \in free : \A j \in free : i <= j}

-----------------------------------------------------------------------------
(* Queries and views.                                                       *)

MongodsOnSlave(d, s) == {m \in DOMAIN d.mongods : d.mongods[m].slave = s}
MongodsOf(d, r)      == {m \in DOMAIN d.mongods : d.mongods[m].replicaSet = r}
SlaveOf(d, m)        == d.slaves[d.mongods[m].slave]

\* View replica_set_effective_members, restricted to one replica set and one
\* kind of storage.
EffectiveMembers(d, r, p) ==
    {m \in MongodsOf(d, r) : /\ d.mongods[m].desired = "running"
                             /\ d.mongods[m].observed = "running"
                             /\ SlaveOf(d, m).persistent = p}

\* View replica_set_configured_members, restricted likewise.
ConfiguredMembers(d, r, p) ==
    {m \in MongodsOf(d, r) :
        /\ d.mongods[m].desired \notin {"force_destroyed", "destroyed", "not_running"}
        /\ SlaveOf(d, m).state # "disabled"
        /\ SlaveOf(d, m).persistent = p}

\* Mutant: the end of the range taken as inclusive.
MaxMongodsInclusive(d, s) == d.slaves[s].rangeEnd - d.slaves[s].rangeBegin + 1

\* View slave_utilization.
MaxMongods(d, s)  == d.slaves[s].rangeEnd - d.slaves[s].rangeBegin
FreeMongods(d, s) == MaxMongods(d, s) - Cardinality(MongodsOnSlave(d, s))

\* utilization(s) < utilization(t), where utilization is current/max, and 1 for
\* an empty range.
LessUtilized(d, s, t) ==
    LET num(x) == IF MaxMongods(d, x) = 0 THEN 1 ELSE Cardinality(MongodsOnSlave(d, x))
        den(x) == IF MaxMongods(d, x) = 0 THEN 1 ELSE MaxMongods(d, x)
    IN  num(s) * den(t) < num(t) * den(s)

\* SQL's x NOT IN (set): unknown, hence not selected, when x or an element of a
\* non-empty set is NULL.
SQLNotIn(x, set) == set = {} \/ (x # NULL /\ NULL \notin set /\ x \notin set)

-----------------------------------------------------------------------------
(* Referential actions.                                                     *)

\* Mutant: no ON DELETE CASCADE.
DeleteSlaveOnly(d, s) == [d EXCEPT !.slaves = Delete(@, {s})]

\* DELETE FROM slaves: ON DELETE CASCADE of mongods.parent_slave_id.
DeleteSlave(d, s) ==
    [d EXCEPT !.slaves  = Delete(@, {s}),
              !.mongods = Delete(@, MongodsOnSlave(d, s))]

\* DELETE FROM replica_sets: ON DELETE SET NULL of mongods.replica_set_id.
DeleteReplicaSet(d, r) ==
    [d EXCEPT !.replicaSets = Delete(@, {r}),
              !.mongods = [m \in DOMAIN d.mongods |->
                  [d.mongods[m] EXCEPT !.replicaSet = IF @ = r THEN NULL ELSE @]]]
=============================================================================
