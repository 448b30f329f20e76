------------------------------- MODULE Master -------------------------------
(***************************************************************************)
(* The master's database under everything that changes it: the API, the    *)
(* periodic cluster allocator and the monitor.  The slaves are the         *)
(* environment; what they answer is unconstrained within Reports.          *)
(***************************************************************************)
EXTENDS MasterAPI, Monitor

CONSTANTS
    Reports,         \* the reports slaves may send
    MaxObserved      \* bound on the Mongod rows a report may bring the table to

ASSUME ReportsAssumption ==
    \A report \in Reports : /\ DOMAIN report \subseteq PortNumbers
                            /\ \A p \in DOMAIN report : report[p] \in ReportEntries

ASSUME MaxObservedAssumption == MaxObserved \in Nat

vars == <<allocatorVars, monitorVars>>

Init == db = EmptyDatabase /\ AllocatorInit /\ MonitorInit

\* A tick refers to the slaves by id.  An answer of a slave that is renamed in the
\* meantime is stored under the new name; that of a slave that is deleted is
\* stored nowhere: its id matches no row, and rows created for it are refused by
\* the foreign key when the monitor commits.
NamedBefore(s) == IF s \in DOMAIN db.slaves THEN {s}
                  ELSE DOMAIN db.slaves \ DOMAIN db'.slaves
FollowSlaves ==
    observing' = [s \in {s \in DOMAIN db'.slaves :
                            NamedBefore(s) \cap DOMAIN observing # {}} |->
                     \E n \in NamedBefore(s) \cap DOMAIN observing : observing[n]]

\* The ports of a report for which the monitor will create a row.
Unknown(s, report) == {p \in DOMAIN report : Matches(db, s, p, report[p]) = {}}

Next ==
    \/ PeriodicRun /\ UNCHANGED monitorVars
    \/ APIStep /\ UNCHANGED monitorVars
    \/ CompileStep /\ FollowSlaves /\ UNCHANGED <<subject, left>>
    \/ MonitorStep
    \/ \E s \in Hostnames, report \in Reports :
          /\ Unknown(s, report) = {} \/
             Cardinality(DOMAIN db.mongods) + Cardinality(Unknown(s, report)) <= MaxObserved
          /\ HandleObservation(s, report)

Spec == Init /\ [][Next]_vars

-----------------------------------------------------------------------------
(* Properties.                                                              *)

\* The tables and the open transaction's view of them are well typed and their
\* foreign keys hold; the transaction's local variables have their types.
TypeOK ==
    /\ Database(db) /\ Database(work)
    /\ pc \in {"idle", "compile", "excess", "repair", "commit", "panic", "observe"}
    /\ pass \in BOOLEAN
    /\ unsatisfiable \subseteq ReplicaSetNames
    /\ unsatisfiableIds \subseteq ReplicaSetNames
    /\ DOMAIN observing \subseteq DOMAIN db.slaves
    /\ \A s \in DOMAIN observing : observing[s] \in BOOLEAN
    /\ subject \in Hostnames \cup {NULL}
    /\ pc = "observe" => subject \in DOMAIN work.slaves
    /\ pc = "idle" => work = db
    /\ DOMAIN left \subseteq PortNumbers
    /\ \A p \in DOMAIN left : left[p] \in ReportEntries

\* The UNIQUE constraint that the table mongods misses ("TODO missing UNIQUE
\* constraint", model/db.go): no two rows describe the Mongod of the same
\* replica set on the same port of the same slave.
IdentityUnique(d) ==
    \A m, n \in DOMAIN d.mongods :
        /\ d.mongods[m].slave = d.mongods[n].slave
        /\ d.mongods[m].port = d.mongods[n].port
        /\ d.mongods[m].name = d.mongods[n].name
        => m = n
MongodIdentityUnique == IdentityUnique(db)

\* No slave hosts two Mongods of one replica set, whatever state they are in:
\* losing a slave costs a replica set at most one member.
OneMember(d) ==
    \A m, n \in DOMAIN d.mongods :
        /\ d.mongods[m].replicaSet = d.mongods[n].replicaSet
        /\ d.mongods[m].replicaSet # NULL
        /\ d.mongods[m].slave = d.mongods[n].slave
        => m = n
OneMemberPerSlave == OneMember(db)

\* A row disappears only with its slave, and then the slave was disabled ("Can only
\* delete disabled slaves", masterapi/slaves.go), or after a valid observation that the
\* Mongod is destroyed; no other step of anyone forgets a Mongod.  In particular, a row
\* without an observed state stays: the statement of the allocator wants an observed
\* state, although the comment above it says "OR no observed state".
RowsDoNotVanish ==
    [][\A m \in DOMAIN db.mongods \ DOMAIN db'.mongods :
          \/ /\ db.mongods[m].slave \notin DOMAIN db'.slaves
             /\ db.slaves[db.mongods[m].slave].state = "disabled"
          \/ db.mongods[m].observed = "destroyed" /\ ~db.mongods[m].error]_vars
=============================================================================
