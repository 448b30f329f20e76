--------------------------- MODULE Master_proofs ---------------------------
(***************************************************************************)
(* Proofs about the master, for every set of slaves, replica sets, risk    *)
(* groups, ports and reports.                                              *)
(*                                                                         *)
(* The committed tables and the open transaction's view of them are Sound: *)
(* foreign keys hold, no two rows of mongods describe the same Mongod, and *)
(* no two of one replica set are on one slave.  None of this is inductive  *)
(* for the committed tables alone, because a commit replaces them by the   *)
(* transaction's, so the invariant IInv asks it of both and says what the  *)
(* transaction may have removed.                                           *)
(***************************************************************************)
EXTENDS Master, TLAPS, FiniteSetTheorems, WellFoundedInduction

-----------------------------------------------------------------------------
(* The shape of a database after one of its tables is replaced.             *)

Tables(d) == d = [slaves |-> d.slaves, replicaSets |-> d.replicaSets,
                  mongods |-> d.mongods, riskGroups |-> d.riskGroups]

\* A record of four tables with one of them replaced, field by field.
LEMMA TableReplaced ==
    ASSUME NEW d, Tables(d), NEW x
    PROVE  /\ [d EXCEPT !.mongods = x] =
                 [slaves |-> d.slaves, replicaSets |-> d.replicaSets,
                  mongods |-> x, riskGroups |-> d.riskGroups]
           /\ [d EXCEPT !.slaves = x] =
                 [slaves |-> x, replicaSets |-> d.replicaSets,
                  mongods |-> d.mongods, riskGroups |-> d.riskGroups]
           /\ [d EXCEPT !.replicaSets = x] =
                 [slaves |-> d.slaves, replicaSets |-> x,
                  mongods |-> d.mongods, riskGroups |-> d.riskGroups]
           /\ [d EXCEPT !.riskGroups = x] =
                 [slaves |-> d.slaves, replicaSets |-> d.replicaSets,
                  mongods |-> d.mongods, riskGroups |-> x]
PROOF
  BY DEF Tables

\* The same for the statements whose referential actions reach a second table.
LEMMA TwoTablesReplaced ==
    ASSUME NEW d, Tables(d), NEW x, NEW y
    PROVE  /\ [d EXCEPT !.slaves = x, !.mongods = y] =
                 [slaves |-> x, replicaSets |-> d.replicaSets,
                  mongods |-> y, riskGroups |-> d.riskGroups]
           /\ [d EXCEPT !.replicaSets = x, !.mongods = y] =
                 [slaves |-> d.slaves, replicaSets |-> x,
                  mongods |-> y, riskGroups |-> d.riskGroups]
PROOF
  <1>1. ASSUME NEW e, Tables(e)
        PROVE  [e EXCEPT !.mongods = y] =
                  [slaves |-> e.slaves, replicaSets |-> e.replicaSets,
                   mongods |-> y, riskGroups |-> e.riskGroups]
    BY <1>1, TableReplaced
  <1>2. /\ [d EXCEPT !.slaves = x, !.mongods = y] = [[d EXCEPT !.slaves = x] EXCEPT !.mongods = y]
        /\ [d EXCEPT !.replicaSets = x, !.mongods = y]
              = [[d EXCEPT !.replicaSets = x] EXCEPT !.mongods = y]
    OBVIOUS
  <1> DEFINE d1 == [d EXCEPT !.slaves = x]
             d2 == [d EXCEPT !.replicaSets = x]
  <1>3. d1 = [slaves |-> x, replicaSets |-> d.replicaSets,
              mongods |-> d.mongods, riskGroups |-> d.riskGroups]
    BY TableReplaced
  <1>4. d2 = [slaves |-> d.slaves, replicaSets |-> x,
              mongods |-> d.mongods, riskGroups |-> d.riskGroups]
    BY TableReplaced
  <1> HIDE DEF d1, d2
  <1>5. Tables(d1) /\ Tables(d2)
    BY <1>3, <1>4 DEF Tables
  <1>6. [d1 EXCEPT !.mongods = y] = [slaves |-> x, replicaSets |-> d.replicaSets,
                                     mongods |-> y, riskGroups |-> d.riskGroups]
    BY <1>1, <1>3, <1>5
  <1>7. [d2 EXCEPT !.mongods = y] = [slaves |-> d.slaves, replicaSets |-> x,
                                     mongods |-> y, riskGroups |-> d.riskGroups]
    BY <1>1, <1>4, <1>5
  <1> QED BY <1>2, <1>6, <1>7, Zenon DEF d1, d2

\* A non-empty set of numbers has a least element.
LEMMA Least ==
    ASSUME NEW T \in SUBSET Nat, T # {}
    PROVE  \E x \in T : \A y \in T : x <= y
PROOF
  <1>1. IsWellFoundedOn(OpToRel(<, Nat), Nat)
    BY NatLessThanWellFounded
  <1>2. PICK x \in T : \A y \in T : ~(<<y, x>> \in OpToRel(<, Nat))
    BY <1>1, WFMin
  <1>3. \A y \in T : ~(y < x)
    BY <1>2 DEF OpToRel
  <1> QED BY <1>3

-----------------------------------------------------------------------------
(* What every transaction preserves.                                        *)

Sound(d) == Database(d) /\ IdentityUnique(d) /\ OneMember(d)

\* e has some of the rows of d's table mongods, changed in no other columns than
\* desired, observed and error.
Restates(d, e) ==
    /\ e = [slaves |-> d.slaves, replicaSets |-> d.replicaSets,
            mongods |-> e.mongods, riskGroups |-> d.riskGroups]
    /\ DOMAIN e.mongods \subseteq DOMAIN d.mongods
    /\ \A m \in DOMAIN e.mongods :
          /\ e.mongods[m] \in Mongod
          /\ e.mongods[m].slave = d.mongods[m].slave
          /\ e.mongods[m].port = d.mongods[m].port
          /\ e.mongods[m].name = d.mongods[m].name
          /\ e.mongods[m].replicaSet = d.mongods[m].replicaSet

\* Changing the states of Mongods, or removing some, breaks no key.
LEMMA RestatesKeepsSound ==
    ASSUME NEW d, NEW e, Sound(d), Restates(d, e)
    PROVE  Sound(e)
PROOF
  <1>1. /\ e.slaves = d.slaves /\ e.replicaSets = d.replicaSets
        /\ e.riskGroups = d.riskGroups
    BY DEF Restates
  <1>2. Database(e)
    BY <1>1 DEF Sound, Restates, Database
  <1>3. IdentityUnique(e)
    BY DEF Sound, Restates, IdentityUnique
  <1>4. OneMember(e)
    BY DEF Sound, Restates, OneMember
  <1> QED BY <1>2, <1>3, <1>4 DEF Sound

\* Orphans are marked and nothing else: no row goes, nothing observed changes.
LEMMA MarkOrphansRestates ==
    ASSUME NEW d, Database(d)
    PROVE  /\ Restates(d, MarkOrphans(d))
           /\ DOMAIN MarkOrphans(d).mongods = DOMAIN d.mongods
           /\ \A m \in DOMAIN d.mongods :
                 /\ MarkOrphans(d).mongods[m].observed = d.mongods[m].observed
                 /\ MarkOrphans(d).mongods[m].error = d.mongods[m].error
PROOF
  <1> DEFINE rows == [m \in DOMAIN d.mongods |->
        [d.mongods[m] EXCEPT !.desired =
            IF d.mongods[m].replicaSet = NULL THEN "force_destroyed" ELSE @]]
  <1>1. MarkOrphans(d) = [slaves |-> d.slaves, replicaSets |-> d.replicaSets,
                          mongods |-> rows, riskGroups |-> d.riskGroups]
    BY TableReplaced DEF Database, Tables, MarkOrphans
  <1>2. \A m \in DOMAIN d.mongods :
           /\ rows[m] \in Mongod
           /\ rows[m].slave = d.mongods[m].slave
           /\ rows[m].port = d.mongods[m].port
           /\ rows[m].name = d.mongods[m].name
           /\ rows[m].replicaSet = d.mongods[m].replicaSet
           /\ rows[m].observed = d.mongods[m].observed
           /\ rows[m].error = d.mongods[m].error
    BY DEF Database, Mongod, DesiredStates
  <1>3. DOMAIN rows = DOMAIN d.mongods
    OBVIOUS
  <1> HIDE DEF rows
  <1> QED BY <1>1, <1>2, <1>3 DEF Restates

\* The allocator removes rows of Mongods that are observed destroyed, without an
\* observation error, and no others.
LEMMA RemoveDestroyedRestates ==
    ASSUME NEW d, Database(d)
    PROVE  /\ Restates(d, RemoveDestroyed(d))
           /\ \A m \in DOMAIN d.mongods \ DOMAIN RemoveDestroyed(d).mongods :
                 d.mongods[m].observed = "destroyed" /\ ~d.mongods[m].error
PROOF
  <1> DEFINE rows == Delete(d.mongods, Destroyed(d))
  <1>1. RemoveDestroyed(d) = [slaves |-> d.slaves, replicaSets |-> d.replicaSets,
                              mongods |-> rows, riskGroups |-> d.riskGroups]
    BY TableReplaced DEF Database, Tables, RemoveDestroyed
  <1>2. /\ DOMAIN rows = DOMAIN d.mongods \ Destroyed(d)
        /\ \A m \in DOMAIN rows : rows[m] = d.mongods[m]
    BY DEF Delete
  <1>3. \A m \in DOMAIN d.mongods : d.mongods[m] \in Mongod
    BY DEF Database
  <1>4. \A m \in Destroyed(d) : d.mongods[m].observed = "destroyed" /\ ~d.mongods[m].error
    BY DEF Destroyed
  <1> HIDE DEF rows
  <1> QED BY <1>1, <1>2, <1>3, <1>4 DEF Restates

\* Marking excess members changes no column but the desired state.
LEMMA MarkDestroyedRestates ==
    ASSUME NEW d, Database(d), NEW sel
    PROVE  /\ Restates(d, MarkDestroyed(d, sel))
           /\ DOMAIN MarkDestroyed(d, sel).mongods = DOMAIN d.mongods
PROOF
  <1> DEFINE rows == [m \in DOMAIN d.mongods |->
        [d.mongods[m] EXCEPT !.desired = IF m \in sel THEN "destroyed" ELSE @]]
  <1>1. MarkDestroyed(d, sel) = [slaves |-> d.slaves, replicaSets |-> d.replicaSets,
                                 mongods |-> rows, riskGroups |-> d.riskGroups]
    BY TableReplaced DEF Database, Tables, MarkDestroyed
  <1>2. \A m \in DOMAIN d.mongods :
           /\ rows[m] \in Mongod
           /\ rows[m].slave = d.mongods[m].slave
           /\ rows[m].port = d.mongods[m].port
           /\ rows[m].name = d.mongods[m].name
           /\ rows[m].replicaSet = d.mongods[m].replicaSet
    BY DEF Database, Mongod, DesiredStates
  <1>3. DOMAIN rows = DOMAIN d.mongods
    OBVIOUS
  <1> HIDE DEF rows
  <1> QED BY <1>1, <1>2, <1>3 DEF Restates

\* Declaring unreported Mongods destroyed changes what is observed of them only.
LEMMA SetUnobservedRestates ==
    ASSUME NEW d, Database(d), NEW s, NEW report
    PROVE  /\ Restates(d, SetUnobservedDestroyed(d, s, report))
           /\ DOMAIN SetUnobservedDestroyed(d, s, report).mongods = DOMAIN d.mongods
PROOF
  <1> DEFINE rows == [m \in DOMAIN d.mongods |->
        IF d.mongods[m].slave = s /\ ~Reported(d.mongods[m], report)
        THEN [d.mongods[m] EXCEPT !.observed = "destroyed", !.error = FALSE]
        ELSE d.mongods[m]]
  <1>1. SetUnobservedDestroyed(d, s, report) =
           [slaves |-> d.slaves, replicaSets |-> d.replicaSets,
            mongods |-> rows, riskGroups |-> d.riskGroups]
    BY TableReplaced DEF Database, Tables, SetUnobservedDestroyed
  <1>2. \A m \in DOMAIN d.mongods :
           /\ rows[m] \in Mongod
           /\ rows[m].slave = d.mongods[m].slave
           /\ rows[m].port = d.mongods[m].port
           /\ rows[m].name = d.mongods[m].name
           /\ rows[m].replicaSet = d.mongods[m].replicaSet
    BY DEF Database, Mongod, ExecutionStates
  <1>3. DOMAIN rows = DOMAIN d.mongods
    OBVIOUS
  <1> HIDE DEF rows
  <1> QED BY <1>1, <1>2, <1>3 DEF Restates

\* The row that Observe yields.
LEMMA ObserveRow ==
    ASSUME NEW row \in Mongod, NEW entry \in ReportEntries
    PROVE  /\ Observe(row, entry) \in Mongod
           /\ Observe(row, entry).slave = row.slave
           /\ Observe(row, entry).port = row.port
           /\ Observe(row, entry).name = row.name
           /\ Observe(row, entry).replicaSet = row.replicaSet
PROOF
  <1>1. \/ entry.state = "status_error"
        \/ ExecutionState(entry.state) \in ExecutionStates
    BY DEF ReportEntries, ExecutionState, ExecutionStates
  <1> QED BY <1>1 DEF Observe, Mongod

\* Storing an entry of a report for a known Mongod changes no key.
LEMMA ObserveRestates ==
    ASSUME NEW d, Database(d), NEW m \in DOMAIN d.mongods, NEW entry \in ReportEntries
    PROVE  LET e == [d EXCEPT !.mongods[m] = Observe(@, entry)]
           IN  Restates(d, e) /\ DOMAIN e.mongods = DOMAIN d.mongods
PROOF
  <1> DEFINE rows == [d.mongods EXCEPT ![m] = Observe(@, entry)]
  <1> DEFINE e == [d EXCEPT !.mongods[m] = Observe(@, entry)]
  <1>1. e = [d EXCEPT !.mongods = rows]
    BY DEF Database
  <1>2. e = [slaves |-> d.slaves, replicaSets |-> d.replicaSets,
             mongods |-> rows, riskGroups |-> d.riskGroups]
    BY <1>1, TableReplaced DEF Database, Tables
  <1>3. /\ DOMAIN rows = DOMAIN d.mongods
        /\ rows[m] = Observe(d.mongods[m], entry)
        /\ \A n \in DOMAIN d.mongods \ {m} : rows[n] = d.mongods[n]
    OBVIOUS
  <1>4. \A n \in DOMAIN d.mongods : d.mongods[n] \in Mongod
    BY DEF Database
  <1>5. \A n \in DOMAIN rows :
           /\ rows[n] \in Mongod
           /\ rows[n].slave = d.mongods[n].slave
           /\ rows[n].port = d.mongods[n].port
           /\ rows[n].name = d.mongods[n].name
           /\ rows[n].replicaSet = d.mongods[n].replicaSet
    BY <1>3, <1>4, ObserveRow
  <1> HIDE DEF rows
  <1>6. e.mongods = rows
    BY <1>2
  <1> QED BY <1>2, <1>3, <1>5, <1>6 DEF Restates

\* A row that may be added: it describes no Mongod that is there already, and is
\* no second member of its replica set on its slave.
Insertable(d, row) ==
    /\ row \in Mongod
    /\ row.slave \in DOMAIN d.slaves
    /\ row.replicaSet \in DOMAIN d.replicaSets \cup {NULL}
    /\ \A m \in DOMAIN d.mongods :
          /\ ~(/\ d.mongods[m].slave = row.slave
               /\ d.mongods[m].port = row.port
               /\ d.mongods[m].name = row.name)
          /\ ~(/\ row.replicaSet # NULL
               /\ d.mongods[m].replicaSet = row.replicaSet
               /\ d.mongods[m].slave = row.slave)

Inserted(d, e, id, row) == e = [d EXCEPT !.mongods = Upsert(@, id, row)]

\* Adding such a row breaks no key.
LEMMA InsertKeepsSound ==
    ASSUME NEW d, NEW e, Sound(d), NEW id \in MongodIds \ DOMAIN d.mongods,
           NEW row, Insertable(d, row), Inserted(d, e, id, row)
    PROVE  /\ Sound(e)
           /\ e.slaves = d.slaves
           /\ DOMAIN e.mongods = DOMAIN d.mongods \cup {id}
           /\ e.mongods[id] = row
           /\ \A m \in DOMAIN d.mongods : e.mongods[m] = d.mongods[m]
PROOF
  <1> DEFINE rows == Upsert(d.mongods, id, row)
  <1>1. e = [slaves |-> d.slaves, replicaSets |-> d.replicaSets,
             mongods |-> rows, riskGroups |-> d.riskGroups]
    BY TableReplaced DEF Inserted, Sound, Database, Tables
  <1>2. /\ DOMAIN rows = DOMAIN d.mongods \cup {id}
        /\ rows[id] = row
        /\ \A m \in DOMAIN d.mongods : rows[m] = d.mongods[m]
    BY DEF Upsert
  <1> HIDE DEF rows
  <1>3. /\ e.slaves = d.slaves /\ e.replicaSets = d.replicaSets
        /\ e.mongods = rows /\ e.riskGroups = d.riskGroups
    BY <1>1
  <1>4. Database(e)
    BY <1>1, <1>2, <1>3 DEF Sound, Database, Insertable
  <1>5. IdentityUnique(e)
    BY <1>2, <1>3 DEF Sound, IdentityUnique, Insertable
  <1>6. OneMember(e)
    BY <1>2, <1>3 DEF Sound, OneMember, Insertable
  <1>7. Sound(e)
    BY <1>4, <1>5, <1>6 DEF Sound
  <1> QED BY <1>2, <1>3, <1>7

-----------------------------------------------------------------------------
(* The changes a request makes before the allocator runs.                   *)

\* e is what such a change makes of d: rows of mongods disappear only with their
\* slave, which was disabled, and keep what was observed of them.
Begun(d, e) ==
    /\ \A m \in DOMAIN e.mongods :
          /\ m \in DOMAIN d.mongods
          /\ e.mongods[m].observed = d.mongods[m].observed
          /\ e.mongods[m].error = d.mongods[m].error
    /\ \A m \in DOMAIN d.mongods \ DOMAIN e.mongods :
          /\ d.mongods[m].slave \notin DOMAIN e.slaves
          /\ d.slaves[d.mongods[m].slave].state = "disabled"

\* A slave is added, or changed in place.
LEMMA UpsertSlaveSound ==
    ASSUME NEW d, Sound(d), NEW s \in Hostnames, NEW row \in Slave,
           row.riskGroup \in d.riskGroups \cup {NULL}
    PROVE  LET e == [d EXCEPT !.slaves = Upsert(@, s, row)]
           IN  Sound(e) /\ Begun(d, e) /\ DOMAIN e.slaves = DOMAIN d.slaves \cup {s}
PROOF
  <1> DEFINE rows == Upsert(d.slaves, s, row)
  <1> DEFINE e == [d EXCEPT !.slaves = Upsert(@, s, row)]
  <1>1. e = [slaves |-> rows, replicaSets |-> d.replicaSets,
             mongods |-> d.mongods, riskGroups |-> d.riskGroups]
    BY TableReplaced DEF Sound, Database, Tables
  <1>2. /\ DOMAIN rows = DOMAIN d.slaves \cup {s}
        /\ rows[s] = row
        /\ \A x \in DOMAIN d.slaves \ {s} : rows[x] = d.slaves[x]
    BY DEF Upsert
  <1> HIDE DEF rows
  <1>3. /\ e.slaves = rows /\ e.replicaSets = d.replicaSets
        /\ e.mongods = d.mongods /\ e.riskGroups = d.riskGroups
    BY <1>1
  <1> HIDE DEF e
  <1>4. Database(e)
    BY <1>1, <1>2, <1>3 DEF Sound, Database
  <1>5. Sound(e)
    BY <1>3, <1>4 DEF Sound, IdentityUnique, OneMember
  <1>6. Begun(d, e)
    BY <1>3 DEF Begun
  <1> QED BY <1>2, <1>3, <1>5, <1>6 DEF e

\* Deleting a slave cascades to its Mongods, so that no row refers to it.
LEMMA DeleteSlaveSound ==
    ASSUME NEW d, Sound(d), NEW s, MongodsOnSlave(d, s) = {} \/ d.slaves[s].state = "disabled"
    PROVE  Sound(DeleteSlave(d, s)) /\ Begun(d, DeleteSlave(d, s))
PROOF
  <1> DEFINE slaves == Delete(d.slaves, {s})
  <1> DEFINE rows == Delete(d.mongods, MongodsOnSlave(d, s))
  <1> DEFINE e == DeleteSlave(d, s)
  <1>1. e = [slaves |-> slaves, replicaSets |-> d.replicaSets,
             mongods |-> rows, riskGroups |-> d.riskGroups]
    BY TwoTablesReplaced DEF Sound, Database, Tables, DeleteSlave
  <1>2. /\ DOMAIN slaves = DOMAIN d.slaves \ {s}
        /\ \A x \in DOMAIN slaves : slaves[x] = d.slaves[x]
    BY DEF Delete
  <1>3. /\ DOMAIN rows = {m \in DOMAIN d.mongods : d.mongods[m].slave # s}
        /\ \A m \in DOMAIN rows : rows[m] = d.mongods[m]
    BY DEF Delete, MongodsOnSlave
  <1> HIDE DEF rows, slaves
  <1>4. /\ e.slaves = slaves /\ e.replicaSets = d.replicaSets
        /\ e.mongods = rows /\ e.riskGroups = d.riskGroups
    BY <1>1
  <1> HIDE DEF e
  <1>5. Database(e)
    BY <1>1, <1>2, <1>3, <1>4 DEF Sound, Database
  <1>6. IdentityUnique(e) /\ OneMember(e)
    BY <1>3, <1>4 DEF Sound, IdentityUnique, OneMember
  <1>7. Begun(d, e)
    BY <1>2, <1>3, <1>4 DEF Begun, MongodsOnSlave
  <1> QED BY <1>5, <1>6, <1>7 DEF Sound, e

\* A renamed slave keeps its Mongods: the new name is free, so no two rows become
\* the same.
LEMMA ReplaceSlaveSound ==
    ASSUME NEW d, Sound(d), NEW s \in DOMAIN d.slaves, NEW hostname \in Hostnames,
           hostname = s \/ hostname \notin DOMAIN d.slaves,
           NEW row \in Slave, row.riskGroup \in d.riskGroups \cup {NULL}
    PROVE  Sound(ReplaceSlave(d, s, hostname, row)) /\ Begun(d, ReplaceSlave(d, s, hostname, row))
PROOF
  <1> DEFINE slaves == Upsert(Delete(d.slaves, {s}), hostname, row)
  <1> DEFINE rows == [m \in DOMAIN d.mongods |->
        [d.mongods[m] EXCEPT !.slave = IF @ = s THEN hostname ELSE @]]
  <1> DEFINE e == ReplaceSlave(d, s, hostname, row)
  <1>1. e = [slaves |-> slaves, replicaSets |-> d.replicaSets,
             mongods |-> rows, riskGroups |-> d.riskGroups]
    BY TwoTablesReplaced DEF Sound, Database, Tables, ReplaceSlave
  <1>2. /\ DOMAIN slaves = (DOMAIN d.slaves \ {s}) \cup {hostname}
        /\ slaves[hostname] = row
        /\ \A x \in DOMAIN slaves \ {hostname} : slaves[x] = d.slaves[x]
    BY DEF Delete, Upsert
  <1>3. DOMAIN rows = DOMAIN d.mongods
    OBVIOUS
  <1>4. \A m \in DOMAIN d.mongods :
           /\ rows[m] \in Mongod
           /\ rows[m].slave = IF d.mongods[m].slave = s THEN hostname ELSE d.mongods[m].slave
           /\ rows[m].port = d.mongods[m].port
           /\ rows[m].name = d.mongods[m].name
           /\ rows[m].replicaSet = d.mongods[m].replicaSet
           /\ rows[m].observed = d.mongods[m].observed
           /\ rows[m].error = d.mongods[m].error
    BY DEF Sound, Database, Mongod
  <1> HIDE DEF rows, slaves
  <1>5. /\ e.slaves = slaves /\ e.replicaSets = d.replicaSets
        /\ e.mongods = rows /\ e.riskGroups = d.riskGroups
    BY <1>1
  <1> HIDE DEF e
  <1>6. \A m \in DOMAIN d.mongods : d.mongods[m].slave \in DOMAIN d.slaves
    BY DEF Sound, Database
  <1>7. Database(e)
    <2>1. \A x \in DOMAIN slaves : /\ x \in Hostnames
                                   /\ slaves[x] \in Slave
                                   /\ slaves[x].riskGroup \in d.riskGroups \cup {NULL}
      BY <1>2 DEF Sound, Database
    <2>2. \A m \in DOMAIN rows : /\ rows[m].slave \in DOMAIN slaves
                                 /\ rows[m].replicaSet \in DOMAIN d.replicaSets \cup {NULL}
      BY <1>2, <1>3, <1>4, <1>6 DEF Sound, Database
    <2> QED BY <1>1, <1>3, <1>4, <1>5, <2>1, <2>2 DEF Sound, Database
  <1>8. \A m, n \in DOMAIN d.mongods :
           rows[m].slave = rows[n].slave => d.mongods[m].slave = d.mongods[n].slave
    BY <1>4, <1>6
  <1>9. IdentityUnique(e) /\ OneMember(e)
    BY <1>3, <1>4, <1>5, <1>8 DEF Sound, IdentityUnique, OneMember
  <1>10. Begun(d, e)
    BY <1>3, <1>4, <1>5 DEF Begun
  <1> QED BY <1>7, <1>9, <1>10 DEF Sound, e

\* A replica set is added, or its member counts change.
LEMMA UpsertReplicaSetSound ==
    ASSUME NEW d, Sound(d), NEW r \in ReplicaSetNames, NEW row \in ReplicaSet
    PROVE  LET e == [d EXCEPT !.replicaSets = Upsert(@, r, row)]
           IN  Sound(e) /\ Begun(d, e)
PROOF
  <1> DEFINE rows == Upsert(d.replicaSets, r, row)
  <1> DEFINE e == [d EXCEPT !.replicaSets = Upsert(@, r, row)]
  <1>1. e = [slaves |-> d.slaves, replicaSets |-> rows,
             mongods |-> d.mongods, riskGroups |-> d.riskGroups]
    BY TableReplaced DEF Sound, Database, Tables
  <1>2. /\ DOMAIN rows = DOMAIN d.replicaSets \cup {r}
        /\ rows[r] = row
        /\ \A x \in DOMAIN d.replicaSets \ {r} : rows[x] = d.replicaSets[x]
    BY DEF Upsert
  <1> HIDE DEF rows
  <1>3. /\ e.slaves = d.slaves /\ e.replicaSets = rows
        /\ e.mongods = d.mongods /\ e.riskGroups = d.riskGroups
    BY <1>1
  <1> HIDE DEF e
  <1>4. Database(e)
    BY <1>1, <1>2, <1>3 DEF Sound, Database
  <1>5. Sound(e)
    BY <1>3, <1>4 DEF Sound, IdentityUnique, OneMember
  <1>6. Begun(d, e)
    BY <1>3 DEF Begun
  <1> QED BY <1>5, <1>6 DEF e

\* Deleting a replica set leaves its Mongods as orphans with their names.
LEMMA DeleteReplicaSetSound ==
    ASSUME NEW d, Sound(d), NEW r
    PROVE  Sound(DeleteReplicaSet(d, r)) /\ Begun(d, DeleteReplicaSet(d, r))
PROOF
  <1> DEFINE sets == Delete(d.replicaSets, {r})
  <1> DEFINE rows == [m \in DOMAIN d.mongods |->
        [d.mongods[m] EXCEPT !.replicaSet = IF @ = r THEN NULL ELSE @]]
  <1> DEFINE e == DeleteReplicaSet(d, r)
  <1>1. e = [slaves |-> d.slaves, replicaSets |-> sets,
             mongods |-> rows, riskGroups |-> d.riskGroups]
    BY TwoTablesReplaced DEF Sound, Database, Tables, DeleteReplicaSet
  <1>2. /\ DOMAIN sets = DOMAIN d.replicaSets \ {r}
        /\ \A x \in DOMAIN sets : sets[x] = d.replicaSets[x]
    BY DEF Delete
  <1>3. DOMAIN rows = DOMAIN d.mongods
    OBVIOUS
  <1>4. \A m \in DOMAIN d.mongods :
           /\ rows[m] \in Mongod
           /\ rows[m].slave = d.mongods[m].slave
           /\ rows[m].port = d.mongods[m].port
           /\ rows[m].name = d.mongods[m].name
           /\ rows[m].replicaSet = IF d.mongods[m].replicaSet = r THEN NULL
                                   ELSE d.mongods[m].replicaSet
           /\ rows[m].observed = d.mongods[m].observed
           /\ rows[m].error = d.mongods[m].error
    BY DEF Sound, Database, Mongod
  <1> HIDE DEF rows, sets
  <1>5. /\ e.slaves = d.slaves /\ e.replicaSets = sets
        /\ e.mongods = rows /\ e.riskGroups = d.riskGroups
    BY <1>1
  <1> HIDE DEF e
  <1>6. Database(e)
    <2>1. \A m \in DOMAIN rows : /\ rows[m].slave \in DOMAIN d.slaves
                                 /\ rows[m].replicaSet \in DOMAIN sets \cup {NULL}
      BY <1>2, <1>3, <1>4 DEF Sound, Database
    <2> QED BY <1>1, <1>2, <1>3, <1>4, <1>5, <2>1 DEF Sound, Database
  <1>7. IdentityUnique(e) /\ OneMember(e)
    BY <1>3, <1>4, <1>5 DEF Sound, IdentityUnique, OneMember
  <1>8. Begun(d, e)
    BY <1>3, <1>4, <1>5 DEF Begun
  <1> QED BY <1>6, <1>7, <1>8 DEF Sound, e

\* Risk groups may change as long as every slave's group remains.
LEMMA RiskGroupsSound ==
    ASSUME NEW d, Sound(d), NEW groups \in SUBSET RiskGroups,
           \A s \in DOMAIN d.slaves : d.slaves[s].riskGroup \in groups \cup {NULL}
    PROVE  LET e == [d EXCEPT !.riskGroups = groups]
           IN  Sound(e) /\ Begun(d, e)
PROOF
  <1> DEFINE e == [d EXCEPT !.riskGroups = groups]
  <1>1. e = [slaves |-> d.slaves, replicaSets |-> d.replicaSets,
             mongods |-> d.mongods, riskGroups |-> groups]
    BY TableReplaced DEF Sound, Database, Tables
  <1>2. /\ e.slaves = d.slaves /\ e.replicaSets = d.replicaSets
        /\ e.mongods = d.mongods /\ e.riskGroups = groups
    BY <1>1
  <1> HIDE DEF e
  <1>3. Database(e)
    BY <1>1, <1>2 DEF Sound, Database
  <1>4. Sound(e) /\ Begun(d, e)
    BY <1>2, <1>3 DEF Sound, IdentityUnique, OneMember, Begun
  <1> QED BY <1>4 DEF e

\* Setting or clearing a slave's observation error.
ErrorSet(d, e, s, b) == e = [d EXCEPT !.slaves[s].error = b]

\* It concerns no other column.
LEMMA SlaveErrorSound ==
    ASSUME NEW d, NEW f, Sound(d), NEW s \in DOMAIN d.slaves, NEW b \in BOOLEAN,
           ErrorSet(d, f, s, b)
    PROVE  /\ Sound(f)
           /\ f.mongods = d.mongods
           /\ DOMAIN f.slaves = DOMAIN d.slaves
PROOF
  <1> DEFINE row == [d.slaves[s] EXCEPT !.error = b]
  <1> DEFINE slaves == [d.slaves EXCEPT ![s] = row]
  <1> DEFINE e == [d EXCEPT !.slaves = slaves]
  <1>1. f = e
    BY DEF ErrorSet
  <1>2. e = [slaves |-> slaves, replicaSets |-> d.replicaSets,
             mongods |-> d.mongods, riskGroups |-> d.riskGroups]
    BY TableReplaced DEF Sound, Database, Tables
  <1>3. d.slaves[s] \in Slave
    BY DEF Sound, Database
  <1>4. row \in Slave /\ row.riskGroup = d.slaves[s].riskGroup
    BY <1>3 DEF Slave
  <1>5. /\ DOMAIN slaves = DOMAIN d.slaves
        /\ slaves[s] = row
        /\ \A x \in DOMAIN d.slaves \ {s} : slaves[x] = d.slaves[x]
    OBVIOUS
  <1> HIDE DEF slaves, row
  <1>6. /\ e.slaves = slaves /\ e.replicaSets = d.replicaSets
        /\ e.mongods = d.mongods /\ e.riskGroups = d.riskGroups
    BY <1>2
  <1> HIDE DEF e
  <1>7. \A x \in DOMAIN slaves : /\ slaves[x] \in Slave
                                 /\ slaves[x].riskGroup \in d.riskGroups \cup {NULL}
    BY <1>4, <1>5 DEF Sound, Database
  <1>8. Database(e)
    BY <1>2, <1>5, <1>6, <1>7 DEF Sound, Database
  <1>9. Sound(e)
    BY <1>6, <1>8 DEF Sound, IdentityUnique, OneMember
  <1> QED BY <1>1, <1>5, <1>6, <1>9

-----------------------------------------------------------------------------
(* The allocator's query and findUnusedPort agree.                          *)

\* Unless two rows share a port, a slave with fewer rows than ports has a port that
\* findUnusedPort finds: the view slave_utilization does not promise too much.
LEMMA FreePortFound ==
    ASSUME NEW d, Database(d), NEW s \in DOMAIN d.slaves,
           FreeMongods(d, s) > 0, ~PortConflict(d)
    PROVE  FindUnusedPort(d, s) # {}
PROOF
  <1> DEFINE begin == d.slaves[s].rangeBegin
             end == d.slaves[s].rangeEnd
             range == begin .. end - 1
             rows == MongodsOnSlave(d, s)
  <1>1. begin \in Nat /\ end \in Nat
    <2>1. d.slaves[s] \in Slave
      BY DEF Database
    <2> QED BY <2>1, DBPortsAssumption DEF Slave
  <1>2. IsFiniteSet(rows) /\ Cardinality(rows) \in Nat
    <2>1. rows \in SUBSET MongodIds
      BY DEF Database, MongodsOnSlave
    <2>2. IsFiniteSet(rows)
      BY <2>1, MongodIdsAssumption, FS_Subset
    <2> QED BY <2>2, FS_CardinalityType
  <1> HIDE DEF begin, end, rows
  <1>3. Cardinality(rows) < end - begin
    BY <1>1, <1>2 DEF FreeMongods, MaxMongods, begin, end, rows
  <1>4. IsFiniteSet(range) /\ Cardinality(range) = end - begin
    <2>1. begin \in Int /\ end - 1 \in Int /\ ~(begin > end - 1)
          /\ (end - 1) - begin + 1 = end - begin
      BY <1>1, <1>2, <1>3
    <2> QED BY <2>1, FS_Interval
  <1>5. \E f \in range : UsersOf(d, s, f) = {}
    <2>1. SUFFICES ASSUME \A f \in range : UsersOf(d, s, f) # {}
                   PROVE  FALSE
      OBVIOUS
    <2> DEFINE user == [f \in range |-> CHOOSE m \in UsersOf(d, s, f) : TRUE]
    <2>2. \A f \in range : user[f] \in UsersOf(d, s, f)
      BY <2>1
    <2>3. \A f \in range : user[f] \in rows /\ d.mongods[user[f]].port = f
      BY <2>2 DEF UsersOf, rows
    <2>4. user \in [range -> rows]
      BY <2>3
    <2>5. Cardinality(rows) < Cardinality(range)
      BY <1>3, <1>4
    <2> HIDE DEF user, range
    <2>6. \E x, y \in range : x # y /\ user[x] = user[y]
      BY <1>2, <1>4, <2>4, <2>5, FS_PigeonHole
    <2> QED BY <2>3, <2>6
  <1> DEFINE free == {f \in range : UsersOf(d, s, f) = {}}
  <1>6. PICK f \in free : \A g \in free : f <= g
    <2>1. free \in SUBSET Nat /\ free # {}
      BY <1>1, <1>5
    <2> QED BY <2>1, Least
  <1>7. ASSUME NEW q \in begin .. f - 1
        PROVE  \E m \in UsersOf(d, s, q) : UsersOf(d, s, q) = {m}
    <2>1. q \in range /\ q \notin free
      BY <1>1, <1>6
    <2>2. PICK m \in UsersOf(d, s, q) : TRUE
      BY <2>1
    <2>3. \A n \in UsersOf(d, s, q) : n = m
      BY <2>2 DEF UsersOf, MongodsOnSlave, PortConflict
    <2> QED BY <2>2, <2>3
  <1>8. f \in FindUnusedPort(d, s)
    BY <1>6, <1>7 DEF FindUnusedPort, begin, end
  <1> QED BY <1>8

-----------------------------------------------------------------------------
(* The inductive invariant.                                                 *)

\* What a transaction may have removed from the table mongods.
Vanished(d, e) ==
    \A m \in DOMAIN d.mongods \ DOMAIN e.mongods :
        \/ /\ d.mongods[m].slave \notin DOMAIN e.slaves
           /\ d.slaves[d.mongods[m].slave].state = "disabled"
        \/ d.mongods[m].observed = "destroyed" /\ ~d.mongods[m].error

Locals ==
    /\ pass \in BOOLEAN
    /\ unsatisfiable \subseteq ReplicaSetNames
    /\ unsatisfiableIds \subseteq ReplicaSetNames

Observing ==
    /\ DOMAIN observing \subseteq DOMAIN db.slaves
    /\ \A s \in DOMAIN observing : observing[s] \in BOOLEAN
    /\ subject \in Hostnames \cup {NULL}
    /\ pc = "observe" => /\ subject \in DOMAIN work.slaves
                         /\ DOMAIN work.slaves = DOMAIN db.slaves
    /\ DOMAIN left \subseteq PortNumbers
    /\ \A p \in DOMAIN left : left[p] \in ReportEntries

Transaction ==
    /\ pc \in {"idle", "compile", "excess", "repair", "commit", "panic", "observe"}
    /\ pc = "idle" => work = db
    /\ pc = "compile" => Begun(db, work)
    /\ Vanished(db, work)
    /\ PanicMeansPortConflict

IInv == Sound(db) /\ Sound(work) /\ Locals /\ Observing /\ Transaction

\* The inductive invariant implies type correctness.
LEMMA IInvImpliesTypeOK == IInv => TypeOK
PROOF
  BY DEF IInv, Sound, Locals, Observing, Transaction, TypeOK

\* It holds of the empty database the master creates.
LEMMA InitIInv == Init => IInv
PROOF
  <1> SUFFICES ASSUME Init PROVE IInv
    OBVIOUS
  <1>1. /\ db = EmptyDatabase /\ work = db /\ pc = "idle" /\ pass = TRUE
        /\ unsatisfiable = {} /\ unsatisfiableIds = {}
        /\ observing = <<>> /\ subject = NULL /\ left = <<>>
    BY DEF Init, AllocatorInit, MonitorInit
  <1>2. DOMAIN <<>> = {}
    OBVIOUS
  <1>3. /\ EmptyDatabase = [slaves |-> EmptyDatabase.slaves,
                            replicaSets |-> EmptyDatabase.replicaSets,
                            mongods |-> EmptyDatabase.mongods,
                            riskGroups |-> EmptyDatabase.riskGroups]
        /\ EmptyDatabase.slaves = <<>> /\ EmptyDatabase.replicaSets = <<>>
        /\ EmptyDatabase.mongods = <<>> /\ EmptyDatabase.riskGroups = {}
    BY DEF EmptyDatabase
  <1>4. Sound(EmptyDatabase)
    BY <1>2, <1>3 DEF Sound, Database, IdentityUnique, OneMember
  <1>5. Locals /\ Observing
    BY <1>1, <1>2, <1>3 DEF Locals, Observing
  <1>6. Transaction
    BY <1>1 DEF Transaction, Vanished, PanicMeansPortConflict
  <1> QED BY <1>1, <1>4, <1>5, <1>6 DEF IInv

-----------------------------------------------------------------------------
(* The steps.                                                               *)

\* Opening a transaction that changes the database as Begun allows.
LEMMA BeginKeepsIInv ==
    ASSUME IInv, pc = "idle", pc' = "compile", Sound(work'), Begun(db, work'),
           UNCHANGED <<db, loop>>, UNCHANGED monitorVars
    PROVE  IInv'
PROOF
  <1>1. UNCHANGED <<db, pass, unsatisfiable, unsatisfiableIds, observing, subject, left>>
    BY DEF loop, monitorVars
  <1>2. Sound(db)' /\ Sound(work)'
    BY <1>1 DEF IInv
  <1>3. Locals'
    BY <1>1 DEF IInv, Locals
  <1>4. Observing'
    BY <1>1 DEF IInv, Observing
  <1>5. Begun(db, work)'
    BY <1>1
  <1>6. Vanished(db, work)'
    BY <1>5 DEF Begun, Vanished
  <1>7. Transaction'
    BY <1>5, <1>6 DEF Transaction, PanicMeansPortConflict
  <1> QED BY <1>2, <1>3, <1>4, <1>7 DEF IInv

\* The allocator's periodic run opens a transaction without changes of its own.
LEMMA PeriodicRunKeepsIInv == IInv /\ PeriodicRun /\ UNCHANGED monitorVars => IInv'
PROOF
  <1> SUFFICES ASSUME IInv, PeriodicRun, UNCHANGED monitorVars PROVE IInv'
    OBVIOUS
  <1>1. pc = "idle" /\ pc' = "compile" /\ work' = db /\ UNCHANGED <<db, loop>>
    BY DEF PeriodicRun, BeginWith
  <1>2. Sound(work') /\ Begun(db, work')
    BY <1>1 DEF IInv, Begun
  <1> QED BY <1>1, <1>2, BeginKeepsIInv

\* ProjectSlaveToModelSlave yields a row of the table slaves.
LEMMA PostedSlaveRow ==
    ASSUME NEW row \in PostedSlaves
    PROVE  ProjectSlave(row) \in Slave /\ ProjectSlave(row).riskGroup = row.riskGroup
PROOF
  BY PostedSlavesAssumption DEF ProjectSlave, Slave

\* The handlers for slaves keep it.
LEMMA SlaveStepKeepsIInv ==
    ASSUME IInv, UNCHANGED monitorVars, NEW s \in Hostnames,
           \/ \E row \in PostedSlaves :
                 \/ SlavePut(s, row)
                 \/ \E hostname \in Hostnames : SlaveUpdate(s, hostname, row)
           \/ SlaveDelete(s)
    PROVE  IInv'
PROOF
  <1>0. Sound(db)
    BY DEF IInv
  <1>1. CASE \E row \in PostedSlaves : SlavePut(s, row)
    <2>1. PICK row \in PostedSlaves : SlavePut(s, row)
      BY <1>1
    <2>2. /\ pc = "idle" /\ pc' = "compile" /\ UNCHANGED <<db, loop>>
          /\ work' = [db EXCEPT !.slaves = Upsert(@, s, ProjectSlave(row))]
          /\ row.riskGroup \in db.riskGroups \cup {NULL}
      BY <2>1 DEF SlavePut, BeginWith, RiskGroupExists
    <2>3. Sound(work') /\ Begun(db, work')
      BY <1>0, <2>2, PostedSlaveRow, UpsertSlaveSound
    <2> QED BY <2>2, <2>3, BeginKeepsIInv
  <1>2. CASE \E row \in PostedSlaves, hostname \in Hostnames : SlaveUpdate(s, hostname, row)
    <2>1. PICK row \in PostedSlaves, hostname \in Hostnames : SlaveUpdate(s, hostname, row)
      BY <1>2
    <2>2. /\ pc = "idle" /\ pc' = "compile" /\ UNCHANGED <<db, loop>>
          /\ s \in DOMAIN db.slaves
          /\ hostname = s \/ hostname \notin DOMAIN db.slaves
          /\ work' = ReplaceSlave(db, s, hostname, ProjectSlave(row))
          /\ row.riskGroup \in db.riskGroups \cup {NULL}
      BY <2>1 DEF SlaveUpdate, BeginWith, RiskGroupExists
    <2>3. Sound(work') /\ Begun(db, work')
      BY <1>0, <2>2, PostedSlaveRow, ReplaceSlaveSound
    <2> QED BY <2>2, <2>3, BeginKeepsIInv
  <1>3. CASE SlaveDelete(s)
    <2>1. /\ pc = "idle" /\ pc' = "compile" /\ UNCHANGED <<db, loop>>
          /\ work' = DeleteSlave(db, s)
          /\ MongodsOnSlave(db, s) = {} \/ db.slaves[s].state = "disabled"
      BY <1>3 DEF SlaveDelete, BeginWith
    <2>2. Sound(work') /\ Begun(db, work')
      BY <1>0, <2>1, DeleteSlaveSound
    <2> QED BY <2>1, <2>2, BeginKeepsIInv
  <1> QED BY <1>1, <1>2, <1>3

\* The handlers for replica sets keep it.
LEMMA ReplicaSetStepKeepsIInv ==
    ASSUME IInv, UNCHANGED monitorVars, NEW r \in ReplicaSetNames,
           \/ \E count \in PostedCounts : ReplicaSetPut(r, count) \/ ReplicaSetUpdate(r, count)
           \/ ReplicaSetDelete(r)
    PROVE  IInv'
PROOF
  <1>0. Sound(db)
    BY DEF IInv
  <1>1. CASE \E count \in PostedCounts : ReplicaSetPut(r, count) \/ ReplicaSetUpdate(r, count)
    <2>1. PICK count \in PostedCounts : ReplicaSetPut(r, count) \/ ReplicaSetUpdate(r, count)
      BY <1>1
    <2>2. /\ pc = "idle" /\ pc' = "compile" /\ UNCHANGED <<db, loop>>
          /\ work' = [db EXCEPT !.replicaSets = Upsert(@, r, [memberCount |-> count])]
      BY <2>1 DEF ReplicaSetPut, ReplicaSetUpdate, BeginWith
    <2>3. [memberCount |-> count] \in ReplicaSet
      BY PostedCountsAssumption DEF ReplicaSet
    <2>4. Sound(work') /\ Begun(db, work')
      BY <1>0, <2>2, <2>3, UpsertReplicaSetSound
    <2> QED BY <2>2, <2>4, BeginKeepsIInv
  <1>2. CASE ReplicaSetDelete(r)
    <2>1. /\ pc = "idle" /\ pc' = "compile" /\ UNCHANGED <<db, loop>>
          /\ work' = DeleteReplicaSet(db, r)
      BY <1>2 DEF ReplicaSetDelete, BeginWith
    <2>2. Sound(work') /\ Begun(db, work')
      BY <1>0, <2>1, DeleteReplicaSetSound
    <2> QED BY <2>1, <2>2, BeginKeepsIInv
  <1> QED BY <1>1, <1>2

\* The handlers for risk groups keep it.
LEMMA RiskGroupStepKeepsIInv ==
    ASSUME IInv, UNCHANGED monitorVars, NEW g \in RiskGroups,
           RiskGroupPut(g) \/ RiskGroupUpdate(g) \/ RiskGroupDelete(g)
    PROVE  IInv'
PROOF
  <1>0. /\ Sound(db) /\ db.riskGroups \subseteq RiskGroups
        /\ \A s \in DOMAIN db.slaves : db.slaves[s].riskGroup \in db.riskGroups \cup {NULL}
    BY DEF IInv, Sound, Database
  <1>1. CASE RiskGroupPut(g)
    <2>1. /\ pc = "idle" /\ pc' = "compile" /\ UNCHANGED <<db, loop>>
          /\ work' = [db EXCEPT !.riskGroups = db.riskGroups \cup {g}]
      BY <1>1 DEF RiskGroupPut, BeginWith
    <2>2. Sound(work') /\ Begun(db, work')
      BY <1>0, <2>1, RiskGroupsSound
    <2> QED BY <2>1, <2>2, BeginKeepsIInv
  <1>2. CASE RiskGroupUpdate(g)
    <2>1. pc = "idle" /\ pc' = "compile" /\ work' = db /\ UNCHANGED <<db, loop>>
      BY <1>2 DEF RiskGroupUpdate, BeginWith
    <2>2. Sound(work') /\ Begun(db, work')
      BY <1>0, <2>1 DEF Begun
    <2> QED BY <2>1, <2>2, BeginKeepsIInv
  <1>3. CASE RiskGroupDelete(g)
    <2>1. /\ pc = "idle" /\ pc' = "compile" /\ UNCHANGED <<db, loop>>
          /\ work' = [db EXCEPT !.riskGroups = db.riskGroups \ {g}]
          /\ \A s \in DOMAIN db.slaves : db.slaves[s].riskGroup # g
      BY <1>3 DEF RiskGroupDelete, BeginWith
    <2>2. Sound(work') /\ Begun(db, work')
      BY <1>0, <2>1, RiskGroupsSound
    <2> QED BY <2>1, <2>2, BeginKeepsIInv
  <1> QED BY <1>1, <1>2, <1>3

\* A slave's row keeps its type when only its risk group changes.
LEMMA RiskGroupColumn ==
    ASSUME NEW d, Sound(d), NEW s \in DOMAIN d.slaves, NEW g \in d.riskGroups \cup {NULL}
    PROVE  LET row == [d.slaves[s] EXCEPT !.riskGroup = g]
           IN  s \in Hostnames /\ row \in Slave /\ row.riskGroup = g
PROOF
  <1>1. d.slaves[s] \in Slave /\ s \in Hostnames /\ g \in RiskGroups \cup {NULL}
    BY DEF Sound, Database
  <1> QED BY <1>1 DEF Slave

\* Assigning slaves to risk groups and removing them keeps it, although the first
\* commits without a run of the allocator.
LEMMA RiskGroupSlavesKeepIInv ==
    ASSUME IInv, UNCHANGED monitorVars, NEW g \in RiskGroups, NEW s \in Hostnames,
           RiskGroupAssignSlave(g, s) \/ RiskGroupRemoveSlave(g, s)
    PROVE  IInv'
PROOF
  <1>0. Sound(db)
    BY DEF IInv
  <1>1. CASE RiskGroupAssignSlave(g, s)
    <2> DEFINE row == [db.slaves[s] EXCEPT !.riskGroup = g]
    <2>1. /\ pc = "idle" /\ pc' = pc /\ UNCHANGED loop
          /\ g \in db.riskGroups /\ s \in DOMAIN db.slaves
          /\ db' = [db EXCEPT !.slaves = Upsert(@, s, row)] /\ work' = db'
      BY <1>1 DEF RiskGroupAssignSlave
    <2>2. row \in Slave /\ row.riskGroup \in db.riskGroups \cup {NULL}
      BY <1>0, <2>1, RiskGroupColumn
    <2> HIDE DEF row
    <2>3. Sound(db') /\ DOMAIN db'.slaves = DOMAIN db.slaves \cup {s}
      BY <1>0, <2>1, <2>2, UpsertSlaveSound
    <2>4. UNCHANGED <<pass, unsatisfiable, unsatisfiableIds, observing, subject, left>>
      BY <2>1 DEF loop, monitorVars
    <2>5. Locals'
      BY <2>4 DEF IInv, Locals
    <2>6. Observing'
      BY <2>1, <2>3, <2>4 DEF IInv, Observing
    <2>7. Transaction'
      BY <2>1 DEF Transaction, Vanished, PanicMeansPortConflict
    <2> QED BY <2>1, <2>3, <2>5, <2>6, <2>7 DEF IInv
  <1>2. CASE RiskGroupRemoveSlave(g, s)
    <2> DEFINE row == [db.slaves[s] EXCEPT !.riskGroup = NULL]
    <2>1. /\ pc = "idle" /\ pc' = "compile" /\ UNCHANGED <<db, loop>>
          /\ s \in DOMAIN db.slaves
          /\ work' = [db EXCEPT !.slaves = Upsert(@, s, row)]
      BY <1>2 DEF RiskGroupRemoveSlave, BeginWith
    <2>2. row \in Slave /\ row.riskGroup \in db.riskGroups \cup {NULL}
      BY <1>0, <2>1, RiskGroupColumn
    <2> HIDE DEF row
    <2>3. Sound(work') /\ Begun(db, work')
      BY <1>0, <2>1, <2>2, UpsertSlaveSound
    <2> QED BY <2>1, <2>3, BeginKeepsIInv
  <1> QED BY <1>1, <1>2

\* Every request that changes the database keeps it.
LEMMA APIStepKeepsIInv == IInv /\ APIStep /\ UNCHANGED monitorVars => IInv'
PROOF
  BY SlaveStepKeepsIInv, ReplicaSetStepKeepsIInv, RiskGroupStepKeepsIInv,
     RiskGroupSlavesKeepIInv DEF APIStep

-----------------------------------------------------------------------------
(* The allocator's steps.                                                   *)

\* The answers still to be stored belong to slaves that exist.
LEMMA FollowSlavesTyped ==
    ASSUME FollowSlaves
    PROVE  /\ DOMAIN observing' \subseteq DOMAIN db'.slaves
           /\ \A s \in DOMAIN observing' : observing'[s] \in BOOLEAN
PROOF
  <1> DEFINE S == {s \in DOMAIN db'.slaves : NamedBefore(s) \cap DOMAIN observing # {}}
             B(s) == \E n \in NamedBefore(s) \cap DOMAIN observing : observing[n]
  <1>1. observing' = [s \in S |-> B(s)]
    BY DEF FollowSlaves
  <1>2. \A s : B(s) \in BOOLEAN
    BY Zenon
  <1> HIDE DEF B
  <1>3. DOMAIN observing' = S /\ \A s \in S : observing'[s] = B(s)
    BY <1>1
  <1> QED BY <1>2, <1>3

\* A step of the allocator that leaves the committed tables alone.
LEMMA CompilingKeepsIInv ==
    ASSUME IInv, FollowSlaves, UNCHANGED <<subject, left>>, UNCHANGED db,
           Sound(work'), Locals',
           pc' \in {"excess", "repair", "commit", "panic"},
           Vanished(db, work'), PanicMeansPortConflict'
    PROVE  IInv'
PROOF
  <1>1. Sound(db)'
    BY DEF IInv
  <1>2. Observing'
    BY FollowSlavesTyped DEF IInv, Observing
  <1>3. Transaction'
    BY DEF Transaction
  <1> QED BY <1>1, <1>2, <1>3 DEF IInv

\* The first statements of CompileMongodLayout.  A row they remove was observed
\* destroyed in the committed tables already.
LEMMA CleanupKeepsIInv ==
    ASSUME IInv, Cleanup, FollowSlaves, UNCHANGED <<subject, left>>
    PROVE  IInv'
PROOF
  <1> DEFINE d == MarkOrphans(work)
             e == RemoveDestroyed(d)
  <1>1. /\ pc = "compile" /\ pc' = "excess" /\ work' = e
        /\ UNCHANGED <<db, pass, unsatisfiable, unsatisfiableIds>>
    BY DEF Cleanup
  <1>2. Sound(work) /\ Begun(db, work)
    BY <1>1 DEF IInv, Transaction
  <1>3. /\ Restates(work, d) /\ DOMAIN d.mongods = DOMAIN work.mongods
        /\ \A m \in DOMAIN d.mongods :
              /\ d.mongods[m].observed = work.mongods[m].observed
              /\ d.mongods[m].error = work.mongods[m].error
    BY <1>2, MarkOrphansRestates DEF Sound
  <1> HIDE DEF d
  <1>4. Sound(d)
    BY <1>2, <1>3, RestatesKeepsSound
  <1>5. /\ Restates(d, e)
        /\ \A m \in DOMAIN d.mongods \ DOMAIN e.mongods :
              d.mongods[m].observed = "destroyed" /\ ~d.mongods[m].error
    BY <1>4, RemoveDestroyedRestates DEF Sound
  <1> HIDE DEF e
  <1>6. Sound(e)
    BY <1>4, <1>5, RestatesKeepsSound
  <1>7. e.slaves = work.slaves
    BY <1>3, <1>5 DEF Restates
  <1>8. Vanished(db, e)
    BY <1>2, <1>3, <1>5, <1>7 DEF Begun, Vanished
  <1>9. Locals'
    BY <1>1 DEF IInv, Locals
  <1> QED BY <1>1, <1>6, <1>8, <1>9, CompilingKeepsIInv DEF PanicMeansPortConflict

\* Removing excess members only marks them.
LEMMA RemoveExcessKeepsIInv ==
    ASSUME IInv, NEW row, RemoveExcess(row), FollowSlaves, UNCHANGED <<subject, left>>
    PROVE  IInv'
PROOF
  <1>1. /\ pc = "excess" /\ pc' = pc
        /\ UNCHANGED <<db, pass, unsatisfiable, unsatisfiableIds>>
    BY DEF RemoveExcess
  <1>2. PICK sel : work' = MarkDestroyed(work, sel)
    BY DEF RemoveExcess
  <1>3. Sound(work) /\ Vanished(db, work)
    BY DEF IInv, Transaction
  <1>4. Restates(work, work') /\ DOMAIN work'.mongods = DOMAIN work.mongods
    BY <1>2, <1>3, MarkDestroyedRestates DEF Sound
  <1>5. Sound(work')
    BY <1>3, <1>4, RestatesKeepsSound
  <1>6. work'.slaves = work.slaves
    BY <1>4 DEF Restates
  <1>7. Vanished(db, work')
    BY <1>3, <1>4, <1>6 DEF Vanished
  <1>8. Locals'
    BY <1>1 DEF IInv, Locals
  <1> QED BY <1>1, <1>5, <1>7, <1>8, CompilingKeepsIInv DEF PanicMeansPortConflict

\* The steps of the repair that add no row.
LEMMA BookkeepingKeepsIInv ==
    ASSUME IInv, FollowSlaves, UNCHANGED <<subject, left>>,
           \/ StartRepair
           \/ \E r \in ReplicaSetNames : FlagUnsatisfiable(r)
           \/ FinishPass
    PROVE  IInv'
PROOF
  <1>1. UNCHANGED <<db, work>> /\ pc' \in {"repair", "commit"}
    BY DEF StartRepair, FlagUnsatisfiable, FinishPass
  <1>2. Locals'
    <2>1. CASE StartRepair
      BY <2>1 DEF StartRepair, Locals
    <2>2. CASE \E r \in ReplicaSetNames : FlagUnsatisfiable(r)
      BY <2>2 DEF IInv, FlagUnsatisfiable, Locals
    <2>3. CASE FinishPass
      BY <2>3 DEF IInv, FinishPass, Locals
    <2> QED BY <2>1, <2>2, <2>3
  <1>3. Sound(work') /\ Vanished(db, work')
    BY <1>1 DEF IInv, Transaction
  <1> QED BY <1>1, <1>2, <1>3, CompilingKeepsIInv DEF PanicMeansPortConflict

\* A spawned Mongod has a port of its own on a slave that hosts no other Mongod of
\* its replica set.
LEMMA SpawnMongodKeepsIInv ==
    ASSUME IInv, NEW r \in ReplicaSetNames, NEW s \in Hostnames, SpawnMongod(r, s),
           FollowSlaves, UNCHANGED <<subject, left>>
    PROVE  IInv'
PROOF
  <1>1. /\ pc = "repair" /\ pc' = pc /\ UNCHANGED <<db, loop>>
        /\ r \in DOMAIN work.replicaSets
        /\ s \in DOMAIN work.slaves /\ s \notin HostsOf(work, r)
    BY DEF SpawnMongod, Degraded, LeastBusySuitable, Suitable
  <1>2. PICK port \in FindUnusedPort(work, s), id \in NextIds(work) :
           work' = [work EXCEPT !.mongods = Upsert(@, id, NewMongod(s, r, port))]
    BY DEF SpawnMongod
  <1>3. Sound(work) /\ Vanished(db, work)
    BY DEF IInv, Transaction
  <1> DEFINE row == NewMongod(s, r, port)
  <1>4. port \in PortNumbers
    <2>1. work.slaves[s].rangeBegin \in PortNumbers /\ work.slaves[s].rangeEnd \in PortNumbers
      BY <1>1, <1>3 DEF Sound, Database, Slave
    <2>2. port \in work.slaves[s].rangeBegin .. work.slaves[s].rangeEnd
      BY <1>2, <2>1, DBPortsAssumption DEF FindUnusedPort
    <2> QED BY <2>1, <2>2, DBPortsAssumption
  <1>5. row \in Mongod /\ row.slave = s /\ row.port = port /\ row.replicaSet = r
    BY <1>4 DEF NewMongod, Mongod, DesiredStates
  <1>a. Inserted(work, work', id, row)
    BY <1>2 DEF Inserted
  <1> HIDE DEF row
  <1>6. id \in MongodIds \ DOMAIN work.mongods
    BY <1>2 DEF NextIds
  <1>7. \A m \in DOMAIN work.mongods :
           ~(work.mongods[m].slave = s /\ work.mongods[m].port = port)
    BY <1>2 DEF FindUnusedPort, UsersOf, MongodsOnSlave
  <1>8. \A m \in DOMAIN work.mongods :
           ~(work.mongods[m].replicaSet = r /\ work.mongods[m].slave = s)
    BY <1>1 DEF HostsOf, MongodsOf
  <1>9. /\ Sound(work') /\ work'.slaves = work.slaves
        /\ DOMAIN work'.mongods = DOMAIN work.mongods \cup {id}
    <2>1. Insertable(work, row)
      BY <1>1, <1>5, <1>7, <1>8 DEF Insertable
    <2> QED BY <1>a, <1>3, <1>6, <2>1, InsertKeepsSound
  <1>10. Vanished(db, work')
    BY <1>3, <1>9 DEF Vanished
  <1>11. Locals'
    BY <1>1 DEF IInv, Locals, loop
  <1> QED BY <1>1, <1>9, <1>10, <1>11, CompilingKeepsIInv DEF PanicMeansPortConflict

\* The panic of the repair loop is due to a doubly used port.
LEMMA SpawnPanicsKeepsIInv ==
    ASSUME IInv, NEW r \in ReplicaSetNames, NEW s \in Hostnames, SpawnPanics(r, s),
           FollowSlaves, UNCHANGED <<subject, left>>
    PROVE  IInv'
PROOF
  <1>1. /\ pc' = "panic" /\ UNCHANGED <<db, work, loop>>
        /\ s \in DOMAIN work.slaves /\ FreeMongods(work, s) > 0
        /\ FindUnusedPort(work, s) = {}
    BY DEF SpawnPanics, LeastBusySuitable, Suitable
  <1>2. Sound(work) /\ Vanished(db, work)
    BY DEF IInv, Transaction
  <1>3. PortConflict(work)
    BY <1>1, <1>2, FreePortFound DEF Sound
  <1>4. Sound(work') /\ Vanished(db, work')
    BY <1>1, <1>2
  <1>5. PanicMeansPortConflict'
    BY <1>1, <1>3 DEF PanicMeansPortConflict
  <1>6. Locals'
    BY <1>1 DEF IInv, Locals, loop
  <1> QED BY <1>1, <1>4, <1>5, <1>6, CompilingKeepsIInv

\* The end of the transaction.
LEMMA CloseKeepsIInv ==
    ASSUME IInv, Commit \/ CommitFails \/ AfterPanic,
           FollowSlaves, UNCHANGED <<subject, left>>
    PROVE  IInv'
PROOF
  <1>1. /\ pc' = "idle" /\ work' = db' /\ db' \in {db, work}
        /\ pass' = TRUE /\ unsatisfiable' = {} /\ unsatisfiableIds' = {}
    BY DEF Commit, CommitFails, AfterPanic, Close
  <1>2. Sound(db)' /\ Sound(work)'
    BY <1>1 DEF IInv
  <1>3. Locals'
    BY <1>1 DEF Locals
  <1>4. Observing'
    BY <1>1, FollowSlavesTyped DEF IInv, Observing
  <1>5. Transaction'
    BY <1>1 DEF Transaction, Vanished, PanicMeansPortConflict
  <1> QED BY <1>2, <1>3, <1>4, <1>5 DEF IInv

\* Every step of the allocator keeps the invariant.
LEMMA CompileStepKeepsIInv ==
    IInv /\ CompileStep /\ FollowSlaves /\ UNCHANGED <<subject, left>> => IInv'
PROOF
  BY CleanupKeepsIInv, RemoveExcessKeepsIInv, BookkeepingKeepsIInv,
     SpawnMongodKeepsIInv, SpawnPanicsKeepsIInv, CloseKeepsIInv DEF CompileStep

-----------------------------------------------------------------------------
(* The monitor's steps.                                                     *)

\* A tick reads the slaves only.
LEMMA MonitorTickKeepsIInv == IInv /\ MonitorTick => IInv'
PROOF
  <1> SUFFICES ASSUME IInv, MonitorTick PROVE IInv'
    OBVIOUS
  <1>1. /\ observing' = [s \in DOMAIN db.slaves |-> db.slaves[s].error]
        /\ UNCHANGED <<db, work, pc, pass, unsatisfiable, unsatisfiableIds, subject, left>>
    BY DEF MonitorTick, allocatorVars, loop
  <1>2. \A s \in DOMAIN db.slaves : db.slaves[s].error \in BOOLEAN
    BY DEF IInv, Sound, Database, Slave
  <1>3. Observing'
    BY <1>1, <1>2 DEF IInv, Observing
  <1>4. Sound(db)' /\ Sound(work)' /\ Locals' /\ Transaction'
    BY <1>1 DEF IInv, Locals, Transaction, PanicMeansPortConflict
  <1> QED BY <1>3, <1>4 DEF IInv

\* The answers that are left once one is handled.
LEMMA HandledTyped ==
    ASSUME Observing, NEW s, Handled(s)
    PROVE  /\ DOMAIN observing' \subseteq DOMAIN db.slaves
           /\ \A t \in DOMAIN observing' : observing'[t] \in BOOLEAN
PROOF
  <1>1. DOMAIN observing' = DOMAIN observing \ {s}
        /\ \A t \in DOMAIN observing' : observing'[t] = observing[t]
    BY DEF Handled, Delete
  <1> QED BY <1>1 DEF Observing

\* An answer that is an error touches the slave's row only.
LEMMA HandleSlaveErrorKeepsIInv ==
    ASSUME IInv, NEW s \in Hostnames, HandleSlaveError(s)
    PROVE  IInv'
PROOF
  <1>1. /\ pc = "idle" /\ pc' = pc /\ s \in DOMAIN observing /\ s \in DOMAIN db.slaves
        /\ work' = db' /\ Handled(s)
        /\ UNCHANGED <<pass, unsatisfiable, unsatisfiableIds, subject, left>>
    BY DEF HandleSlaveError, loop, IInv, Observing
  <1>2. Sound(db') /\ DOMAIN db'.slaves = DOMAIN db.slaves
    <2>1. db' = db \/ ErrorSet(db, db', s, TRUE)
      BY DEF HandleSlaveError, RecordSlaveError, ErrorSet
    <2> QED BY <1>1, <2>1, SlaveErrorSound DEF IInv
  <1>3. Locals'
    BY <1>1 DEF IInv, Locals
  <1>4. Observing'
    BY <1>1, <1>2, HandledTyped DEF IInv, Observing
  <1>5. Transaction'
    BY <1>1 DEF Transaction, Vanished, PanicMeansPortConflict
  <1> QED BY <1>1, <1>2, <1>3, <1>4, <1>5 DEF IInv

\* A report begins with the Mongods that it does not name.
LEMMA HandleObservationKeepsIInv ==
    ASSUME IInv, NEW s \in Hostnames, NEW report \in Reports, HandleObservation(s, report)
    PROVE  IInv'
PROOF
  <1> DEFINE d == ClearSlaveError(db, s)
  <1>1. /\ pc' = "observe" /\ s \in DOMAIN observing /\ s \in DOMAIN db.slaves
        /\ work' = SetUnobservedDestroyed(d, s, report) /\ Handled(s)
        /\ subject' = s /\ left' = report
        /\ UNCHANGED <<db, pass, unsatisfiable, unsatisfiableIds>>
    BY DEF HandleObservation, loop, IInv, Observing
  <1>2. Sound(db)
    BY DEF IInv
  <1>3. Sound(d) /\ d.mongods = db.mongods /\ DOMAIN d.slaves = DOMAIN db.slaves
    <2>1. d = db \/ ErrorSet(db, d, s, FALSE)
      BY DEF ClearSlaveError, ErrorSet
    <2> HIDE DEF d
    <2> QED BY <1>1, <1>2, <2>1, SlaveErrorSound
  <1> HIDE DEF d
  <1>4. Restates(d, work') /\ DOMAIN work'.mongods = DOMAIN d.mongods
    BY <1>1, <1>3, SetUnobservedRestates DEF Sound
  <1>5. Sound(work')
    BY <1>3, <1>4, RestatesKeepsSound
  <1>6. DOMAIN work'.slaves = DOMAIN db.slaves
    BY <1>3, <1>4 DEF Restates
  <1>7. Locals'
    BY <1>1 DEF IInv, Locals
  <1>8. Observing'
    BY <1>1, <1>6, HandledTyped, ReportsAssumption DEF IInv, Observing
  <1>9. Transaction'
    BY <1>1, <1>3, <1>4 DEF Transaction, Vanished, PanicMeansPortConflict
  <1> QED BY <1>1, <1>2, <1>5, <1>7, <1>8, <1>9 DEF IInv

\* A step that stores one entry of a report.
LEMMA StoringKeepsIInv ==
    ASSUME IInv, pc = "observe", NEW port \in DOMAIN left, left' = Delete(left, {port}),
           UNCHANGED <<db, pc, loop, observing, subject>>,
           Sound(work'), work'.slaves = work.slaves,
           DOMAIN work.mongods \subseteq DOMAIN work'.mongods
    PROVE  IInv'
PROOF
  <1>1. DOMAIN left' = DOMAIN left \ {port} /\ \A p \in DOMAIN left' : left'[p] = left[p]
    BY DEF Delete
  <1>2. Sound(db)' /\ Locals'
    BY DEF IInv, Locals, loop
  <1>3. Observing'
    BY <1>1 DEF IInv, Observing
  <1>4. Transaction'
    BY DEF IInv, Transaction, Vanished, PanicMeansPortConflict
  <1> QED BY <1>2, <1>3, <1>4 DEF IInv

\* An entry of the report for a known Mongod.
LEMMA UpdateObservedKeepsIInv ==
    ASSUME IInv, NEW port, UpdateObserved(port)
    PROVE  IInv'
PROOF
  <1>1. /\ pc = "observe" /\ port \in DOMAIN left /\ left' = Delete(left, {port})
        /\ UNCHANGED <<db, pc, loop, observing, subject>>
    BY DEF UpdateObserved
  <1>2. PICK m \in DOMAIN work.mongods :
           work' = [work EXCEPT !.mongods[m] = Observe(@, left[port])]
    BY DEF UpdateObserved, FirstMatch, Matches, MongodsOnSlave
  <1>3. Sound(work) /\ left[port] \in ReportEntries
    BY <1>1 DEF IInv, Observing
  <1>4. Restates(work, work') /\ DOMAIN work'.mongods = DOMAIN work.mongods
    BY <1>2, <1>3, ObserveRestates DEF Sound
  <1>5. Sound(work') /\ work'.slaves = work.slaves
    BY <1>3, <1>4, RestatesKeepsSound DEF Restates
  <1> QED BY <1>1, <1>4, <1>5, StoringKeepsIInv

\* An entry that matches no row: the row that is created is not there yet, although
\* no constraint of the table says so.
LEMMA CreateObservedKeepsIInv ==
    ASSUME IInv, NEW port, CreateObserved(port)
    PROVE  IInv'
PROOF
  <1> DEFINE entry == left[port]
             new == UnknownMongod(subject, port, entry)
             row == Observe(new, entry)
  <1>1. /\ pc = "observe" /\ port \in DOMAIN left /\ left' = Delete(left, {port})
        /\ UNCHANGED <<db, pc, loop, observing, subject>>
        /\ Matches(work, subject, port, entry) = {}
    BY DEF CreateObserved
  <1>2. PICK id \in NextIds(work) : Inserted(work, work', id, row)
    BY DEF CreateObserved, Inserted
  <1>3. /\ Sound(work) /\ entry \in ReportEntries /\ port \in PortNumbers
        /\ subject \in DOMAIN work.slaves /\ subject \in Hostnames
    BY <1>1 DEF IInv, Observing, Sound, Database
  <1> HIDE DEF entry
  <1>4. /\ new \in Mongod /\ new.slave = subject /\ new.port = port
        /\ new.name = entry.name /\ new.replicaSet = NULL
    <2>1. entry.name \in ReplicaSetNames \cup {NULL}
      BY <1>3 DEF ReportEntries
    <2> QED BY <1>3, <2>1 DEF UnknownMongod, Mongod, DesiredStates
  <1> HIDE DEF new
  <1>5. /\ row \in Mongod /\ row.slave = subject /\ row.port = port
        /\ row.name = entry.name /\ row.replicaSet = NULL
    BY <1>3, <1>4, ObserveRow
  <1> HIDE DEF row
  <1>6. \A m \in DOMAIN work.mongods :
           ~(/\ work.mongods[m].slave = subject
             /\ work.mongods[m].port = port
             /\ work.mongods[m].name = entry.name)
    BY <1>1 DEF Matches, MongodsOnSlave
  <1>7. Insertable(work, row)
    BY <1>3, <1>5, <1>6 DEF Insertable
  <1>8. id \in MongodIds \ DOMAIN work.mongods
    BY <1>2 DEF NextIds
  <1>9. /\ Sound(work') /\ work'.slaves = work.slaves
        /\ DOMAIN work'.mongods = DOMAIN work.mongods \cup {id}
    BY <1>2, <1>3, <1>7, <1>8, InsertKeepsSound
  <1> QED BY <1>1, <1>9, StoringKeepsIInv

\* The end of the monitor's transaction.
LEMMA CloseObservationKeepsIInv ==
    ASSUME IInv, CommitObservation \/ CommitObservationFails
    PROVE  IInv'
PROOF
  <1>1. /\ pc = "observe" /\ pc' = "idle" /\ work' = db' /\ db' \in {db, work}
        /\ subject' = NULL
        /\ UNCHANGED <<pass, unsatisfiable, unsatisfiableIds, observing, left>>
    BY DEF CommitObservation, CommitObservationFails, CloseObservation, loop
  <1>2. DOMAIN db'.slaves = DOMAIN db.slaves
    BY <1>1 DEF IInv, Observing
  <1>3. Sound(db)' /\ Sound(work)'
    BY <1>1 DEF IInv
  <1>4. Locals'
    BY <1>1 DEF IInv, Locals
  <1>5. Observing'
    BY <1>1, <1>2 DEF IInv, Observing
  <1>6. Transaction'
    BY <1>1 DEF Transaction, Vanished, PanicMeansPortConflict
  <1> QED BY <1>3, <1>4, <1>5, <1>6 DEF IInv

\* Every step of the master keeps the invariant.
LEMMA NextKeepsIInv == IInv /\ [Next]_vars => IInv'
PROOF
  <1> SUFFICES ASSUME IInv, [Next]_vars PROVE IInv'
    OBVIOUS
  <1>1. CASE PeriodicRun /\ UNCHANGED monitorVars
    BY <1>1, PeriodicRunKeepsIInv
  <1>2. CASE APIStep /\ UNCHANGED monitorVars
    BY <1>2, APIStepKeepsIInv
  <1>3. CASE CompileStep /\ FollowSlaves /\ UNCHANGED <<subject, left>>
    BY <1>3, CompileStepKeepsIInv
  <1>4. CASE MonitorStep
    BY <1>4, MonitorTickKeepsIInv, HandleSlaveErrorKeepsIInv, UpdateObservedKeepsIInv,
       CreateObservedKeepsIInv, CloseObservationKeepsIInv DEF MonitorStep
  <1>5. CASE \E s \in Hostnames, report \in Reports : HandleObservation(s, report)
    BY <1>5, HandleObservationKeepsIInv
  <1>6. CASE UNCHANGED vars
    BY <1>6 DEF vars, allocatorVars, loop, monitorVars, IInv, Locals, Observing,
       Transaction, PanicMeansPortConflict
  <1> QED BY <1>1, <1>2, <1>3, <1>4, <1>5, <1>6 DEF Next

-----------------------------------------------------------------------------
(* The theorems.                                                            *)

\* The inductive invariant holds throughout: the tables and the open transaction's
\* view of them are sound.
THEOREM InvariantHolds == Spec => []IInv
PROOF
  BY InitIInv, NextKeepsIInv, PTL DEF Spec

\* The tables stay well typed and no foreign key is ever broken, in the database and
\* inside the transactions of API, allocator and monitor.
THEOREM TypeCorrect == Spec => []TypeOK
PROOF
  BY InvariantHolds, IInvImpliesTypeOK, PTL

\* API, allocator and monitor keep the rows of mongods unique without the UNIQUE
\* constraint that model/db.go misses.
THEOREM MongodsIdentified == Spec => []MongodIdentityUnique
PROOF
  <1>1. IInv => MongodIdentityUnique
    BY DEF IInv, Sound, MongodIdentityUnique
  <1> QED BY <1>1, InvariantHolds, PTL

\* The allocator and everything around it never leave two Mongods of one replica set
\* on one slave.
THEOREM MembersOnDifferentSlaves == Spec => []OneMemberPerSlave
PROOF
  <1>1. IInv => OneMemberPerSlave
    BY DEF IInv, Sound, OneMemberPerSlave
  <1> QED BY <1>1, InvariantHolds, PTL

\* spawnMongodOnSlave fails, and CompileMongodLayout panics, only over two rows with
\* one port on one slave.
THEOREM PanicNeedsPortConflict == Spec => []PanicMeansPortConflict
PROOF
  <1>1. IInv => PanicMeansPortConflict
    BY DEF IInv, Transaction
  <1> QED BY <1>1, InvariantHolds, PTL

-----------------------------------------------------------------------------
(* What no step does.                                                       *)

\* The committed tables are replaced by the open transaction's, or change in no
\* row of mongods.
LEMMA CommittedChanges ==
    ASSUME IInv, [Next]_vars
    PROVE  db' = db \/ db' = work \/ db'.mongods = db.mongods
PROOF
  <1>1. CASE PeriodicRun
    BY <1>1 DEF PeriodicRun, BeginWith
  <1>2. CASE APIStep
    <2>1. ASSUME NEW g \in RiskGroups, NEW s \in Hostnames, RiskGroupAssignSlave(g, s)
          PROVE  db'.mongods = db.mongods
      <3> DEFINE row == [db.slaves[s] EXCEPT !.riskGroup = g]
                 rows == Upsert(db.slaves, s, row)
      <3>1. db' = [db EXCEPT !.slaves = rows]
        BY <2>1 DEF RiskGroupAssignSlave
      <3> HIDE DEF rows
      <3>2. Tables(db)
        BY DEF IInv, Sound, Database, Tables
      <3> QED BY <3>1, <3>2, TableReplaced
    <2>2. CASE \E g \in RiskGroups, s \in Hostnames : RiskGroupAssignSlave(g, s)
      BY <2>1, <2>2
    <2>3. CASE ~\E g \in RiskGroups, s \in Hostnames : RiskGroupAssignSlave(g, s)
      BY <1>2, <2>3 DEF APIStep, SlavePut, SlaveUpdate, SlaveDelete, ReplicaSetPut,
         ReplicaSetUpdate, ReplicaSetDelete, RiskGroupPut, RiskGroupUpdate,
         RiskGroupDelete, RiskGroupRemoveSlave, BeginWith
    <2> QED BY <2>2, <2>3
  <1>3. CASE CompileStep
    BY <1>3 DEF CompileStep, Cleanup, RemoveExcess, StartRepair, FlagUnsatisfiable,
       SpawnMongod, SpawnPanics, FinishPass, Commit, CommitFails, AfterPanic, Close
  <1>4. CASE MonitorStep
    <2>1. ASSUME NEW s \in Hostnames, HandleSlaveError(s)
          PROVE  db'.mongods = db.mongods
      <3>1. s \in DOMAIN db.slaves /\ Sound(db)
        BY <2>1 DEF HandleSlaveError, IInv, Observing
      <3>2. db' = db \/ ErrorSet(db, db', s, TRUE)
        BY <2>1 DEF HandleSlaveError, RecordSlaveError, ErrorSet
      <3> QED BY <3>1, <3>2, SlaveErrorSound
    <2>2. CASE \E s \in Hostnames : HandleSlaveError(s)
      BY <2>1, <2>2
    <2>3. CASE ~\E s \in Hostnames : HandleSlaveError(s)
      BY <1>4, <2>3 DEF MonitorStep, MonitorTick, allocatorVars, UpdateObserved,
         CreateObserved, CommitObservation, CommitObservationFails, CloseObservation
    <2> QED BY <2>2, <2>3
  <1>5. CASE \E s \in Hostnames, report \in Reports : HandleObservation(s, report)
    BY <1>5 DEF HandleObservation
  <1>6. CASE UNCHANGED vars
    BY <1>6 DEF vars, allocatorVars
  <1> QED BY <1>1, <1>2, <1>3, <1>4, <1>5, <1>6 DEF Next

\* Whatever commits, a row of mongods goes only with its slave, which was disabled, or
\* after a valid observation that the Mongod is destroyed.
THEOREM MongodsAreNotForgotten == Spec => RowsDoNotVanish
PROOF
  <1>1. IInv /\ [Next]_vars =>
           [\A m \in DOMAIN db.mongods \ DOMAIN db'.mongods :
               \/ /\ db.mongods[m].slave \notin DOMAIN db'.slaves
                  /\ db.slaves[db.mongods[m].slave].state = "disabled"
               \/ db.mongods[m].observed = "destroyed" /\ ~db.mongods[m].error]_vars
    <2> SUFFICES ASSUME IInv, [Next]_vars PROVE Vanished(db, db')
      BY DEF Vanished
    <2>1. Vanished(db, work)
      BY DEF IInv, Transaction
    <2>2. CASE db' = db \/ db'.mongods = db.mongods
      BY <2>2 DEF Vanished
    <2>3. CASE db' = work
      BY <2>1, <2>3
    <2> QED BY <2>2, <2>3, CommittedChanges
  <1> QED BY <1>1, InvariantHolds, PTL DEF Spec, RowsDoNotVanish

\* The tables that the repair works on change only when it spawns a Mongod.
LEMMA RepairChanges ==
    ASSUME [Next]_vars, pc = "repair", pc' = "repair"
    PROVE  \/ work' = work
           \/ \E r \in ReplicaSetNames, s \in Hostnames : SpawnMongod(r, s)
PROOF
  <1>1. CASE CompileStep
    BY <1>1 DEF CompileStep, Cleanup, RemoveExcess, StartRepair, FlagUnsatisfiable,
       SpawnPanics, FinishPass, Commit, CommitFails, AfterPanic
  <1>2. CASE PeriodicRun \/ APIStep
    BY <1>2 DEF PeriodicRun, APIStep, SlavePut, SlaveUpdate, SlaveDelete, ReplicaSetPut,
       ReplicaSetUpdate, ReplicaSetDelete, RiskGroupPut, RiskGroupUpdate,
       RiskGroupDelete, RiskGroupRemoveSlave, RiskGroupAssignSlave, BeginWith
  <1>3. CASE MonitorStep
    BY <1>3 DEF MonitorStep, MonitorTick, allocatorVars, HandleSlaveError, UpdateObserved,
       CreateObserved, CommitObservation, CommitObservationFails, CloseObservation
  <1>4. CASE \E s \in Hostnames, report \in Reports : HandleObservation(s, report)
    BY <1>4 DEF HandleObservation
  <1>5. CASE UNCHANGED vars
    BY <1>5 DEF vars, allocatorVars
  <1> QED BY <1>1, <1>2, <1>3, <1>4, <1>5 DEF Next

\* What spawnMongodOnSlave adds.
LEMMA SpawnedRow ==
    ASSUME Sound(work), NEW r \in ReplicaSetNames, NEW s \in Hostnames, SpawnMongod(r, s)
    PROVE  \E id \in MongodIds \ DOMAIN work.mongods :
              /\ DOMAIN work'.mongods = DOMAIN work.mongods \cup {id}
              /\ work'.mongods[id].slave = s
              /\ work'.mongods[id].replicaSet = r
              /\ work'.mongods[id].desired = "running"
              /\ \A m \in DOMAIN work.mongods : work'.mongods[m] = work.mongods[m]
              /\ work'.slaves = work.slaves
              /\ work'.replicaSets = work.replicaSets
PROOF
  <1>1. PICK port \in FindUnusedPort(work, s), id \in NextIds(work) :
           work' = [work EXCEPT !.mongods = Upsert(@, id, NewMongod(s, r, port))]
    BY DEF SpawnMongod
  <1> DEFINE row == NewMongod(s, r, port)
             rows == Upsert(work.mongods, id, row)
  <1>2. work' = [slaves |-> work.slaves, replicaSets |-> work.replicaSets,
                 mongods |-> rows, riskGroups |-> work.riskGroups]
    BY <1>1, TableReplaced DEF Sound, Database, Tables
  <1>3. id \in MongodIds \ DOMAIN work.mongods
    BY <1>1 DEF NextIds
  <1>4. row.slave = s /\ row.replicaSet = r /\ row.desired = "running"
    BY DEF NewMongod
  <1> HIDE DEF row
  <1>5. /\ DOMAIN rows = DOMAIN work.mongods \cup {id}
        /\ rows[id] = row
        /\ \A m \in DOMAIN work.mongods : rows[m] = work.mongods[m]
    BY <1>3 DEF Upsert
  <1> HIDE DEF rows
  <1> QED BY <1>2, <1>3, <1>4, <1>5

\* The repair never puts a new member on a slave, or into a risk group, that holds a
\* Mongod of the same replica set.
THEOREM RepairSeparatesMembers == Spec => NewMembersSeparated
PROOF
  <1> DEFINE Separated ==
        pc = "repair" /\ pc' = "repair" =>
          \A m \in DOMAIN work'.mongods \ DOMAIN work.mongods :
            \A n \in MongodsOf(work', work'.mongods[m].replicaSet) \ {m} :
              work'.mongods[m].replicaSet # NULL =>
                /\ work'.mongods[m].slave # work'.mongods[n].slave
                /\ ~SameRisk(work', work'.mongods[m].slave, work'.mongods[n].slave)
  <1>1. IInv /\ [Next]_vars => Separated
    <2> SUFFICES ASSUME IInv, [Next]_vars, pc = "repair", pc' = "repair",
                        NEW m \in DOMAIN work'.mongods \ DOMAIN work.mongods,
                        NEW n \in MongodsOf(work', work'.mongods[m].replicaSet) \ {m}
                 PROVE  /\ work'.mongods[m].slave # work'.mongods[n].slave
                        /\ ~SameRisk(work', work'.mongods[m].slave, work'.mongods[n].slave)
      OBVIOUS
    <2>1. PICK r \in ReplicaSetNames, s \in Hostnames : SpawnMongod(r, s)
      BY RepairChanges
    <2>2. Sound(work)
      BY DEF IInv
    <2>3. /\ work'.mongods[m].slave = s
          /\ work'.mongods[m].replicaSet = r
          /\ n \in DOMAIN work.mongods
          /\ work'.mongods[n] = work.mongods[n]
          /\ work'.slaves = work.slaves
          /\ work.mongods[n].replicaSet = r
      BY <2>1, <2>2, SpawnedRow DEF MongodsOf
    <2> DEFINE h == work.mongods[n].slave
    <2>4. h \in HostsOf(work, r)
      BY <2>3 DEF HostsOf, MongodsOf
    <2>5. s \in Suitable(work, r, pass)
      BY <2>1 DEF SpawnMongod, LeastBusySuitable
    <2>6. s # h
      BY <2>4, <2>5 DEF Suitable
    <2>7. ~SameRisk(work, s, h)
      BY <2>4, <2>5 DEF Suitable, SQLNotIn, SameRisk
    <2> QED BY <2>3, <2>6, <2>7 DEF SameRisk
  <1>2. IInv /\ [Next]_vars => [Separated]_allocatorVars
    BY <1>1
  <1> QED BY <1>2, InvariantHolds, PTL DEF Spec, NewMembersSeparated

-----------------------------------------------------------------------------
(* The status sent on the bus.                                              *)

Lacks(d, r, p) == Cardinality(ConfiguredMembers(d, r, p)) < d.replicaSets[r].memberCount[p]

\* While the repair runs, the replica sets it has set aside lack members of the
\* storage at hand, and after the first pass the list of all of them is exact for
\* persistent storage.
Aside ==
    /\ pc = "repair" =>
          /\ unsatisfiable \subseteq DOMAIN work.replicaSets
          /\ \A r \in unsatisfiable : Lacks(work, r, pass)
          /\ pass => unsatisfiableIds = unsatisfiable
          /\ ~pass => \A r \in DOMAIN work.replicaSets :
                         r \in unsatisfiableIds <=> Lacks(work, r, TRUE) \/ r \in unsatisfiable
    /\ DegradedIsReported

\* A degraded replica set that is not set aside would have been found.
LEMMA NoneDegraded ==
    ASSUME NEW d, Sound(d), NEW p \in BOOLEAN, NEW skip, Degraded(d, p, skip) = {},
           NEW r \in DOMAIN d.replicaSets, Lacks(d, r, p)
    PROVE  r \in skip
PROOF
  <1> DEFINE c == Cardinality(ConfiguredMembers(d, r, p))
             k == d.replicaSets[r].memberCount[p]
  <1>1. c \in Nat
    <2>1. ConfiguredMembers(d, r, p) \in SUBSET MongodIds
      BY DEF ConfiguredMembers, MongodsOf, Sound, Database
    <2> QED BY <2>1, MongodIdsAssumption, FS_Subset, FS_CardinalityType
  <1>2. k \in Nat
    <2>1. d.replicaSets[r] \in ReplicaSet
      BY DEF Sound, Database
    <2> QED BY <2>1, MaxMembersAssumption DEF ReplicaSet
  <1>3. c < k
    BY DEF Lacks
  <1> HIDE DEF c, k
  <1>4. k # 0
    BY <1>1, <1>2, <1>3
  <1> QED BY <1>3, <1>4 DEF Degraded, c, k

\* A new Mongod counts for its own replica set and storage only.
LEMMA SpawnLeavesOthers ==
    ASSUME Sound(work), NEW r \in ReplicaSetNames, NEW s \in Hostnames, SpawnMongod(r, s),
           NEW q \in ReplicaSetNames, NEW p, q # r \/ p # pass
    PROVE  Lacks(work', q, p) = Lacks(work, q, p)
PROOF
  <1>1. PICK id \in MongodIds \ DOMAIN work.mongods :
              /\ DOMAIN work'.mongods = DOMAIN work.mongods \cup {id}
              /\ work'.mongods[id].slave = s
              /\ work'.mongods[id].replicaSet = r
              /\ \A m \in DOMAIN work.mongods : work'.mongods[m] = work.mongods[m]
              /\ work'.slaves = work.slaves
              /\ work'.replicaSets = work.replicaSets
    BY SpawnedRow
  <1>2. work.slaves[s].persistent = pass
    BY DEF SpawnMongod, LeastBusySuitable, Suitable
  <1>3. id \notin ConfiguredMembers(work', q, p)
    BY <1>1, <1>2 DEF ConfiguredMembers, MongodsOf, SlaveOf
  <1>4. ConfiguredMembers(work', q, p) = ConfiguredMembers(work, q, p)
    BY <1>1, <1>3 DEF ConfiguredMembers, MongodsOf, SlaveOf
  <1> QED BY <1>1, <1>4 DEF Lacks

\* Spawning a Mongod changes nothing for replica sets that are set aside.
LEMMA SpawnKeepsAside ==
    ASSUME IInv, Aside, NEW r \in ReplicaSetNames, NEW s \in Hostnames, SpawnMongod(r, s)
    PROVE  Aside'
PROOF
  <1>1. /\ pc = "repair" /\ pc' = "repair"
        /\ UNCHANGED <<pass, unsatisfiable, unsatisfiableIds, statuses>>
        /\ r \notin unsatisfiable
    BY DEF SpawnMongod, loop, Degraded
  <1>2. Sound(work) /\ DOMAIN work.replicaSets \subseteq ReplicaSetNames /\ pass \in BOOLEAN
    BY DEF IInv, Sound, Database, Locals
  <1>3. work'.replicaSets = work.replicaSets
    BY <1>2, SpawnedRow
  <1>4. \A q \in unsatisfiable : Lacks(work', q, pass)
    BY <1>1, <1>2, SpawnLeavesOthers DEF Aside
  <1>5. ~pass => \A q \in DOMAIN work.replicaSets : Lacks(work', q, TRUE) = Lacks(work, q, TRUE)
    BY <1>2, SpawnLeavesOthers
  <1> QED BY <1>1, <1>3, <1>4, <1>5 DEF Aside, DegradedIsReported

\* At the end of a pass exactly the replica sets set aside lack members.
LEMMA FinishPassKeepsAside ==
    ASSUME IInv, Aside, FinishPass
    PROVE  Aside'
PROOF
  <1>1. /\ pc = "repair" /\ UNCHANGED <<work, unsatisfiableIds>> /\ unsatisfiable' = {}
        /\ Degraded(work, pass, unsatisfiable) = {}
    BY DEF FinishPass
  <1>2. Sound(work) /\ pass \in BOOLEAN
    BY DEF IInv, Locals
  <1>3. \A r \in DOMAIN work.replicaSets : r \in unsatisfiable <=> Lacks(work, r, pass)
    BY <1>1, <1>2, NoneDegraded DEF Aside
  <1>4. CASE pass
    <2>1. pc' = "repair" /\ pass' = FALSE
      BY <1>1, <1>4 DEF FinishPass
    <2>2. pass = TRUE
      BY <1>2, <1>4
    <2> QED BY <1>1, <1>3, <1>4, <2>1, <2>2 DEF Aside, DegradedIsReported
  <1>5. CASE ~pass
    <2>1. pc' = "commit" /\ statuses' = [r \in DOMAIN work.replicaSets |-> ConstraintStatus(work, r)]
      BY <1>5 DEF FinishPass
    <2>2. pass = FALSE
      BY <1>2, <1>5
    <2>3. \A r \in DOMAIN work.replicaSets :
             ConstraintStatus(work, r).unsatisfied <=> r \in unsatisfiableIds
      BY DEF ConstraintStatus
    <2>4. \A r \in DOMAIN work.replicaSets :
             r \in unsatisfiableIds <=> \E p \in BOOLEAN : Lacks(work, r, p)
      BY <1>1, <1>3, <2>2 DEF Aside
    <2>5. \A r \in DOMAIN work.replicaSets :
             statuses'[r].unsatisfied <=> \E p \in BOOLEAN : Lacks(work, r, p)
      BY <2>1, <2>3, <2>4
    <2> QED BY <1>1, <2>1, <2>5 DEF Aside, DegradedIsReported, Lacks
  <1> QED BY <1>4, <1>5

\* Every step keeps this invariant.
LEMMA NextKeepsAside == IInv /\ Aside /\ [Next]_vars => Aside'
PROOF
  <1> SUFFICES ASSUME IInv, Aside, [Next]_vars PROVE Aside'
    OBVIOUS
  <1> USE DEF DegradedIsReported
  <1>1. CASE CompileStep
    <2>1. CASE StartRepair
      BY <2>1 DEF StartRepair, Aside
    <2>2. CASE \E r \in ReplicaSetNames : FlagUnsatisfiable(r)
      <3>1. PICK r \in ReplicaSetNames : FlagUnsatisfiable(r)
        BY <2>2
      <3>2. r \in DOMAIN work.replicaSets /\ Lacks(work, r, pass)
        BY <3>1 DEF FlagUnsatisfiable, Degraded, Lacks
      <3> QED BY <3>1, <3>2 DEF FlagUnsatisfiable, Aside
    <2>3. CASE \E r \in ReplicaSetNames, s \in Hostnames : SpawnMongod(r, s)
      BY <2>3, SpawnKeepsAside
    <2>4. CASE FinishPass
      BY <2>4, FinishPassKeepsAside
    <2>5. CASE pc' \notin {"repair", "commit"}
      BY <2>5 DEF Aside
    <2> QED BY <1>1, <2>1, <2>2, <2>3, <2>4, <2>5 DEF CompileStep, Cleanup, RemoveExcess,
          SpawnPanics, Commit, CommitFails, AfterPanic, Close
  <1>2. CASE PeriodicRun \/ APIStep
    <2>1. pc' \notin {"repair", "commit"}
      BY <1>2 DEF PeriodicRun, APIStep, SlavePut, SlaveUpdate, SlaveDelete, ReplicaSetPut,
         ReplicaSetUpdate, ReplicaSetDelete, RiskGroupPut, RiskGroupUpdate,
         RiskGroupDelete, RiskGroupRemoveSlave, RiskGroupAssignSlave, BeginWith
    <2> QED BY <2>1 DEF Aside
  <1>3. CASE MonitorStep /\ ~MonitorTick
    <2>1. pc' \notin {"repair", "commit"}
      BY <1>3 DEF MonitorStep, HandleSlaveError, UpdateObserved,
         CreateObserved, CommitObservation, CommitObservationFails, CloseObservation
    <2> QED BY <2>1 DEF Aside
  <1>4. CASE \E s \in Hostnames, report \in Reports : HandleObservation(s, report)
    <2>1. pc' = "observe"
      BY <1>4 DEF HandleObservation
    <2> QED BY <2>1 DEF Aside
  <1>5. CASE MonitorTick \/ UNCHANGED vars
    <2>1. UNCHANGED <<work, pc, pass, unsatisfiable, unsatisfiableIds, statuses>>
      BY <1>5 DEF MonitorTick, vars, allocatorVars, loop
    <2> QED BY <2>1, Zenon DEF Aside
  <1> QED BY <1>1, <1>2, <1>3, <1>4, <1>5 DEF Next

\* The DesiredReplicaSetConstraintStatus sent before the commit tells exactly the
\* replica sets that the committed layout leaves without enough members.
THEOREM StatusIsRight == Spec => []DegradedIsReported
PROOF
  <1>1. Init => Aside
    BY DEF Init, AllocatorInit, Aside, DegradedIsReported
  <1>2. Aside => DegradedIsReported
    BY DEF Aside
  <1> QED BY <1>1, <1>2, NextKeepsAside, InvariantHolds, PTL DEF Spec
=============================================================================
