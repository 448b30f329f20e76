-------------------------- MODULE ClusterAllocator --------------------------
(***************************************************************************)
(* CompileMongodLayout (master/cluster_allocator.go): the transaction that *)
(* derives the desired Mongods from slaves and replica sets.  It runs every*)
(* 11 seconds on its own (Run) and at the end of almost every change made  *)
(* through the master API, inside the API's transaction.                   *)
(*                                                                         *)
(* One transaction is open at a time: "db" holds the committed tables and  *)
(* "work" what the open transaction sees.  Only the monitor takes care of  *)
(* that ("prevent concurrent database access", monitor.go); the module     *)
(* shows what the statements of one run guarantee when no other run        *)
(* interleaves with them.                                                  *)
(***************************************************************************)
EXTENDS MamidDB

VARIABLES
    db,              \* the committed database
    work,            \* the open transaction's view of it
    pc,              \* where the open transaction is
    excess,          \* excessMongodsRows still to be handled: <<r, p, count>>
    pass,            \* p of the repair loop: persistent_storage TRUE, then FALSE
    unsatisfiable,   \* unsatisfiable_replica_set_ids_by_persistance
    unsatisfiableIds,\* unsatisfiable_replica_set_ids
    statuses         \* DesiredReplicaSetConstraintStatus sent on the bus

loop == <<excess, pass, unsatisfiable, unsatisfiableIds, statuses>>
allocatorVars == <<db, work, pc, loop>>

AllocatorInit ==
    /\ work = db
    /\ pc = "idle"
    /\ excess = {}
    /\ pass = TRUE
    /\ unsatisfiable = {}
    /\ unsatisfiableIds = {}
    /\ statuses = <<>>

-----------------------------------------------------------------------------
(* Orphans and destroyed Mongods.                                           *)

\* Mongods without a replica set are to be force_destroyed.
MarkOrphans(d) ==
    [d EXCEPT !.mongods = [m \in DOMAIN d.mongods |->
        [d.mongods[m] EXCEPT !.desired =
            IF d.mongods[m].replicaSet = NULL THEN "force_destroyed" ELSE @]]]

\* Mutant: the observation's validity is not looked at.
DestroyedIgnoringError(d) ==
    {m \in DOMAIN d.mongods :
        /\ d.mongods[m].desired \in {"destroyed", "force_destroyed"}
        /\ d.mongods[m].observed = "destroyed"}

\* Mutant: AND binds tighter than the OR of "no observed state".
DestroyedPrecedence(d) ==
    {m \in DOMAIN d.mongods :
        \/ /\ d.mongods[m].desired \in {"destroyed", "force_destroyed"}
           /\ d.mongods[m].observed = "destroyed"
        \/ d.mongods[m].observed = NULL}

\* Destroyed: desired so, and seen so in a valid observation.
Destroyed(d) ==
    {m \in DOMAIN d.mongods :
        /\ d.mongods[m].desired \in {"destroyed", "force_destroyed"}
        /\ d.mongods[m].observed = "destroyed"
        /\ ~d.mongods[m].error}

RemoveDestroyed(d) == [d EXCEPT !.mongods = Delete(@, Destroyed(d))]

-----------------------------------------------------------------------------
(* Excess members.                                                          *)

\* Mutant: counts configured members, which need not be running yet.
ExcessRowsConfigured(d) ==
    {row \in {<<r, p, Cardinality(ConfiguredMembers(d, r, p))
                        - d.replicaSets[r].memberCount[p]>> :
                 r \in DOMAIN d.replicaSets, p \in BOOLEAN} : row[3] > 0}

\* deletable_persistent and deletable_volatile, read once for all replica sets;
\* rows with a count <= 0 are skipped by the loop.
ExcessRows(d) ==
    {row \in {<<r, p, Cardinality(EffectiveMembers(d, r, p))
                        - d.replicaSets[r].memberCount[p]>> :
                 r \in DOMAIN d.replicaSets, p \in BOOLEAN} : row[3] > 0}

\* Members on slaves in maintenance are not touched.  Members that are already
\* to be destroyed are not left out.
Deletable(d, r, p) ==
    {m \in MongodsOf(d, r) : /\ SlaveOf(d, m).persistent = p
                             /\ SlaveOf(d, m).state # "maintenance"}

\* ORDER BY: disabled slaves first, then slaves with an observation error,
\* then the more utilized slave.
DeletedBefore(d, m, n) ==
    LET s == SlaveOf(d, m)
        t == SlaveOf(d, n)
    IN  \/ s.state = "disabled" /\ t.state # "disabled"
        \/ /\ s.state = "disabled" <=> t.state = "disabled"
           /\ \/ s.error /\ ~t.error
              \/ /\ s.error = t.error
                 /\ LessUtilized(d, d.mongods[n].slave, d.mongods[m].slave)

\* The results LIMIT n may return: the order leaves ties open.
FirstDeletable(d, r, p, n) ==
    LET all == Deletable(d, r, p)
    IN  {sel \in SUBSET all :
            /\ Cardinality(sel) = (IF n < Cardinality(all) THEN n ELSE Cardinality(all))
            /\ \A m \in sel, o \in all \ sel : ~DeletedBefore(d, o, m)}

MarkDestroyed(d, sel) ==
    [d EXCEPT !.mongods = [m \in DOMAIN d.mongods |->
        [d.mongods[m] EXCEPT !.desired = IF m \in sel THEN "destroyed" ELSE @]]]

-----------------------------------------------------------------------------
(* Missing members.                                                         *)

\* The degraded replica sets.  They are ordered by
\* COUNT(DISTINCT members.mongod_id) / count, an integer division that is 0 for
\* every one of them, so LIMIT 1 may return any.
Degraded(d, p, skip) ==
    {r \in DOMAIN d.replicaSets \ skip :
        /\ d.replicaSets[r].memberCount[p] # 0
        /\ Cardinality(ConfiguredMembers(d, r, p)) < d.replicaSets[r].memberCount[p]}

HostsOf(d, r) == {d.mongods[m].slave : m \in MongodsOf(d, r)}

\* Mutant: slaves already hosting a Mongod of the replica set are not left out.
SuitableSameSlave(d, r, p) ==
    {s \in DOMAIN d.slaves :
        /\ d.slaves[s].persistent = p
        /\ FreeMongods(d, s) > 0
        /\ d.slaves[s].state = "active"
        /\ \/ SQLNotIn(d.slaves[s].riskGroup,
                       {d.slaves[h].riskGroup : h \in HostsOf(d, r)})
           \/ d.slaves[s].riskGroup = NULL}

\* Mutant: slaves in no risk group are forgotten.
SuitableGrouped(d, r, p) ==
    {s \in DOMAIN d.slaves :
        /\ d.slaves[s].persistent = p
        /\ FreeMongods(d, s) > 0
        /\ d.slaves[s].state = "active"
        /\ SQLNotIn(d.slaves[s].riskGroup,
                    {d.slaves[h].riskGroup : h \in HostsOf(d, r)})
        /\ s \notin HostsOf(d, r)}

\* Mutant: only members that are to run count for the risk groups.
SuitableConfiguredRisk(d, r, p) ==
    {s \in DOMAIN d.slaves :
        /\ d.slaves[s].persistent = p
        /\ FreeMongods(d, s) > 0
        /\ d.slaves[s].state = "active"
        /\ \/ SQLNotIn(d.slaves[s].riskGroup,
                       {SlaveOf(d, m).riskGroup : m \in ConfiguredMembers(d, r, p)})
           \/ d.slaves[s].riskGroup = NULL
        /\ s \notin HostsOf(d, r)}

\* Slaves a new member of r may be put on.
Suitable(d, r, p) ==
    {s \in DOMAIN d.slaves :
        /\ d.slaves[s].persistent = p
        /\ FreeMongods(d, s) > 0
        /\ d.slaves[s].state = "active"
        /\ \/ SQLNotIn(d.slaves[s].riskGroup,
                       {d.slaves[h].riskGroup : h \in HostsOf(d, r)})
           \/ d.slaves[s].riskGroup = NULL
        /\ s \notin HostsOf(d, r)}

\* ORDER BY: slaves without observation error first, then the less utilized.
PreferredTo(d, s, t) ==
    \/ ~d.slaves[s].error /\ d.slaves[t].error
    \/ d.slaves[s].error = d.slaves[t].error /\ LessUtilized(d, s, t)

LeastBusySuitable(d, r, p) ==
    LET all == Suitable(d, r, p)
    IN  {s \in all : \A t \in all : ~PreferredTo(d, t, s)}

UsersOf(d, s, port) == {m \in MongodsOnSlave(d, s) : d.mongods[m].port = port}

\* findUnusedPort, by its result (module PortScan): the lowest port of the range
\* that no row uses, provided one row uses each port below it; else none.
FindUnusedPort(d, s) ==
    {f \in d.slaves[s].rangeBegin .. d.slaves[s].rangeEnd - 1 :
        /\ UsersOf(d, s, f) = {}
        /\ \A q \in d.slaves[s].rangeBegin .. f - 1 :
              \E m \in UsersOf(d, s, q) : UsersOf(d, s, q) = {m}}

NewMongod(s, r, port) ==
    [slave |-> s, port |-> port, name |-> r, replicaSet |-> r,
     desired |-> "running", observed |-> NULL, error |-> FALSE]

\* The message sent for a replica set once the layout is compiled.
ConstraintStatus(d, r) ==
    [unsatisfied |-> r \in unsatisfiableIds,
     configured  |-> [p \in BOOLEAN |-> Cardinality(ConfiguredMembers(d, r, p))]]

-----------------------------------------------------------------------------
(* The transaction.                                                         *)

\* Begin a transaction that has changed the database to d and will now compile
\* the layout.
BeginWith(d) ==
    /\ pc = "idle"
    /\ work' = d
    /\ pc' = "compile"
    /\ UNCHANGED <<db, loop>>

PeriodicRun == BeginWith(db)

\* The statements up to the list of excess Mongods, none of which has a choice.
Cleanup ==
    /\ pc = "compile"
    /\ work' = RemoveDestroyed(MarkOrphans(work))
    /\ excess' = ExcessRows(RemoveDestroyed(MarkOrphans(work)))
    /\ pc' = "excess"
    /\ UNCHANGED <<db, pass, unsatisfiable, unsatisfiableIds, statuses>>

RemoveExcess(row) ==
    /\ pc = "excess" /\ row \in excess
    /\ \E sel \in FirstDeletable(work, row[1], row[2], row[3]) :
          work' = MarkDestroyed(work, sel)
    /\ excess' = excess \ {row}
    /\ UNCHANGED <<db, pc, pass, unsatisfiable, unsatisfiableIds, statuses>>

StartRepair ==
    /\ pc = "excess" /\ excess = {}
    /\ pc' = "repair"
    /\ pass' = TRUE
    /\ unsatisfiable' = {}
    /\ unsatisfiableIds' = {}
    /\ UNCHANGED <<db, work, excess, statuses>>

\* Mutant: the id is appended to the list of all persistences only.
FlagUnsatisfiableOnce(r) ==
    /\ pc = "repair"
    /\ r \in Degraded(work, pass, unsatisfiable)
    /\ Suitable(work, r, pass) = {}
    /\ unsatisfiableIds' = unsatisfiableIds \cup {r}
    /\ UNCHANGED <<db, work, pc, excess, pass, unsatisfiable, statuses>>

FlagUnsatisfiable(r) ==
    /\ pc = "repair"
    /\ r \in Degraded(work, pass, unsatisfiable)
    /\ Suitable(work, r, pass) = {}
    /\ unsatisfiable' = unsatisfiable \cup {r}
    /\ unsatisfiableIds' = unsatisfiableIds \cup {r}
    /\ UNCHANGED <<db, work, pc, excess, pass, statuses>>

\* spawnMongodOnSlave.
SpawnMongod(r, s) ==
    /\ pc = "repair"
    /\ r \in Degraded(work, pass, unsatisfiable)
    /\ s \in LeastBusySuitable(work, r, pass)
    /\ \E port \in FindUnusedPort(work, s), id \in NextIds(work) :
          work' = [work EXCEPT !.mongods = Upsert(@, id, NewMongod(s, r, port))]
    /\ UNCHANGED <<db, pc, loop>>

\* The chosen slave has no port left: panic(err).  The deferred function
\* re-panics, nothing is committed.
SpawnPanics(r, s) ==
    /\ pc = "repair"
    /\ r \in Degraded(work, pass, unsatisfiable)
    /\ s \in LeastBusySuitable(work, r, pass)
    /\ FindUnusedPort(work, s) = {}
    /\ pc' = "panic"
    /\ UNCHANGED <<db, work, loop>>

\* Mutant: the list of unsatisfiable replica sets is reset in every pass.
FinishPassForgets ==
    /\ pc = "repair"
    /\ Degraded(work, pass, unsatisfiable) = {}
    /\ unsatisfiable' = {}
    /\ unsatisfiableIds' = {}
    /\ IF pass THEN pass' = FALSE /\ UNCHANGED <<pc, statuses>>
               ELSE /\ pass' = TRUE
                    /\ pc' = "commit"
                    /\ statuses' = [r \in DOMAIN work.replicaSets |->
                                       ConstraintStatus(work, r)]
    /\ UNCHANGED <<db, work, excess>>

FinishPass ==
    /\ pc = "repair"
    /\ Degraded(work, pass, unsatisfiable) = {}
    /\ unsatisfiable' = {}
    /\ IF pass THEN pass' = FALSE /\ UNCHANGED <<pc, statuses>>
               ELSE /\ pass' = TRUE
                    /\ pc' = "commit"
                    /\ statuses' = [r \in DOMAIN work.replicaSets |->
                                       ConstraintStatus(work, r)]
    /\ UNCHANGED <<db, work, excess, unsatisfiableIds>>

\* Back to no open transaction, with "work" as the committed tables.
Close(d) ==
    /\ db' = d /\ work' = d
    /\ pc' = "idle"
    /\ statuses' = <<>>
    /\ unsatisfiableIds' = {}
    /\ unsatisfiable' = {}
    /\ pass' = TRUE
    /\ excess' = {}

Commit       == pc = "commit" /\ Close(work)
CommitFails  == pc = "commit" /\ Close(db)

\* A panic in Run's goroutine ends the master, which is started again; one in a
\* handler is recovered by net/http.  Either way the transaction is lost.
AfterPanic   == pc = "panic" /\ Close(db)

CompileStep ==
    \/ Cleanup
    \/ \E row \in excess : RemoveExcess(row)
    \/ StartRepair
    \/ \E r \in ReplicaSetNames : FlagUnsatisfiable(r)
    \/ \E r \in ReplicaSetNames, s \in Hostnames : SpawnMongod(r, s) \/ SpawnPanics(r, s)
    \/ FinishPass
    \/ Commit \/ CommitFails
    \/ AfterPanic

AllocatorNext == PeriodicRun \/ CompileStep

-----------------------------------------------------------------------------
(* Properties.                                                              *)

\* The allocator panics only when two rows share a port of one slave: its
\* queries never return a slave without free ports otherwise.
PortConflict(d) ==
    \E m, n \in DOMAIN d.mongods :
        /\ m # n
        /\ d.mongods[m].slave = d.mongods[n].slave
        /\ d.mongods[m].port = d.mongods[n].port
PanicMeansPortConflict == pc = "panic" => PortConflict(work)

\* Removing excess members never takes a serving member (desired and observed
\* running) from a replica set that is not left with enough of them.
ExcessKeepsEnough ==
    pc \in {"repair", "commit"} =>
        \A r \in DOMAIN work.replicaSets, p \in BOOLEAN :
            (\E m \in EffectiveMembers(db, r, p) \cap DOMAIN work.mongods :
                 work.mongods[m].desired = "destroyed")
            => Cardinality(EffectiveMembers(work, r, p))
                  >= work.replicaSets[r].memberCount[p]

\* The status the allocator sends before it commits is right: a replica set is
\* reported unsatisfied exactly when the layout that will be committed lacks
\* members of one kind of storage.
DegradedIsReported ==
    pc = "commit" =>
        \A r \in DOMAIN work.replicaSets :
            statuses[r].unsatisfied <=>
                \E p \in BOOLEAN : Cardinality(ConfiguredMembers(work, r, p))
                                      < work.replicaSets[r].memberCount[p]

\* Two slaves of one risk group are at the same risk.
SameRisk(d, s, t) ==
    d.slaves[s].riskGroup # NULL /\ d.slaves[s].riskGroup = d.slaves[t].riskGroup

\* A step of the repair that gives a replica set a new member puts it on a slave
\* that shares neither itself nor its risk group with another member, even with
\* one that is already to be destroyed or on a disabled slave.
NewMembersSeparated ==
    [][pc = "repair" /\ pc' = "repair" =>
       \A m \in DOMAIN work'.mongods \ DOMAIN work.mongods :
          \A n \in MongodsOf(work', work'.mongods[m].replicaSet) \ {m} :
             work'.mongods[m].replicaSet # NULL =>
                /\ work'.mongods[m].slave # work'.mongods[n].slave
                /\ ~SameRisk(work', work'.mongods[m].slave, work'.mongods[n].slave)
      ]_allocatorVars

\* Every run of the allocator comes to an end: the loop over degraded replica
\* sets has no bound of its own.
RunTerminates == pc = "compile" ~> pc = "idle"

\* While nothing else changes, the runs of the allocator stop changing the
\* layout.
LayoutStabilises == <>[][db' = db]_db

\* What the query for suitable slaves is meant to find for a replica set, by its
\* comments: being in no risk group puts a slave at no risk, "multiple slaves can
\* be allocated for the same replica set".
IntendedSlaves(d, r, p) ==
    {s \in DOMAIN d.slaves \ HostsOf(d, r) :
        /\ d.slaves[s].persistent = p /\ d.slaves[s].state = "active"
        /\ FreeMongods(d, s) > 0
        /\ \A h \in HostsOf(d, r) : ~SameRisk(d, s, h)}

\* A replica set is reported unsatisfied only when no slave can take the member it
\* lacks, or when it has a member on a slave without risk group: NOT IN over NULL then
\* hides every slave with one.
UnsatisfiedExplained ==
    pc = "commit" =>
        \A r \in DOMAIN work.replicaSets :
            statuses[r].unsatisfied =>
                \/ \E p \in BOOLEAN :
                      /\ Cardinality(ConfiguredMembers(work, r, p))
                            < work.replicaSets[r].memberCount[p]
                      /\ IntendedSlaves(work, r, p) = {}
                \/ \E h \in HostsOf(work, r) : work.slaves[h].riskGroup = NULL

\* "the queries should have not returned a slave without free ports".
NoPanic == pc # "panic"
=============================================================================
