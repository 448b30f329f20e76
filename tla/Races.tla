-------------------------------- MODULE Races --------------------------------
(***************************************************************************)
(* Master with two transactions open at once.  The periodic run of the     *)
(* cluster allocator, the handlers of the API and the monitor have their   *)
(* own goroutines and connections, and PostgreSQL's READ COMMITTED lets    *)
(* each see the database without what the others have not committed.       *)
(*                                                                         *)
(* The transaction that lingers here has only inserted rows, so it holds   *)
(* no lock that the others wait for, unless they insert the same name.     *)
(***************************************************************************)
EXTENDS Master, Functions

VARIABLE lingering     \* the rows that a transaction has inserted and not committed

raceVars == <<vars, lingering>>

Nothing == [slaves |-> <<>>, replicaSets |-> <<>>, riskGroups |-> {}, mongods |-> {}]

NewRows(table, committed) == Restrict(table, DOMAIN table \ DOMAIN committed)

Inserted == [slaves      |-> NewRows(work.slaves, db.slaves),
             replicaSets |-> NewRows(work.replicaSets, db.replicaSets),
             riskGroups  |-> work.riskGroups \ db.riskGroups,
             mongods     |-> Range(NewRows(work.mongods, db.mongods))]

Keeps(table, committed) ==
    DOMAIN committed \subseteq DOMAIN table /\ Restrict(table, DOMAIN committed) = committed

OnlyInserted == /\ Keeps(work.slaves, db.slaves) /\ Keeps(work.replicaSets, db.replicaSets)
                /\ Keeps(work.mongods, db.mongods) /\ db.riskGroups \subseteq work.riskGroups

\* A transaction is about to be committed; everybody else goes on.
Linger ==
    /\ pc = "commit" /\ lingering = Nothing /\ OnlyInserted
    /\ lingering' = Inserted
    /\ Close(db)
    /\ UNCHANGED monitorVars

\* Names are UNIQUE; the foreign keys are looked at now.
Consistent ==
    /\ DOMAIN lingering.slaves \cap DOMAIN db.slaves = {}
    /\ DOMAIN lingering.replicaSets \cap DOMAIN db.replicaSets = {}
    /\ lingering.riskGroups \cap db.riskGroups = {}
    /\ \A s \in DOMAIN lingering.slaves : RiskGroupExists(db, lingering.slaves[s])
    /\ \A row \in lingering.mongods :
          /\ row.slave \in DOMAIN db.slaves \cup DOMAIN lingering.slaves
          /\ row.replicaSet \in DOMAIN db.replicaSets \cup DOMAIN lingering.replicaSets

Joined(table, new) == [x \in DOMAIN table \cup DOMAIN new |->
                          IF x \in DOMAIN table THEN table[x] ELSE new[x]]

\* The sequence of the table mongods has given the rows ids of their own.
LateCommit ==
    /\ pc = "idle" /\ lingering # Nothing
    /\ lingering' = Nothing
    /\ \/ ~Consistent /\ Close(db)
       \/ /\ Consistent
          /\ \E ids \in SUBSET (MongodIds \ DOMAIN db.mongods) :
                /\ Cardinality(ids) = Cardinality(lingering.mongods)
                /\ \E rows \in Bijection(ids, lingering.mongods) :
                      Close([slaves      |-> Joined(db.slaves, lingering.slaves),
                             replicaSets |-> Joined(db.replicaSets, lingering.replicaSets),
                             riskGroups  |-> db.riskGroups \cup lingering.riskGroups,
                             mongods     |-> Joined(db.mongods, rows)])
    /\ UNCHANGED monitorVars

RaceInit == Init /\ lingering = Nothing

RaceNext == \/ Next /\ UNCHANGED lingering
            \/ Linger
            \/ LateCommit

RaceSpec == RaceInit /\ [][RaceNext]_raceVars
=============================================================================
