------------------------------ MODULE Monitor ------------------------------
(***************************************************************************)
(* The master's monitor (master/monitor.go): every tick it reads the       *)
(* slaves, asks all of them for their status at once, and then stores the  *)
(* answers one transaction after the other (handleObservation).            *)
(*                                                                         *)
(* An answer is an error, or a report: a function from the ports for which *)
(* the slave has a data directory to what it says about the Mongod there.  *)
(***************************************************************************)
EXTENDS ClusterAllocator

VARIABLES
    observing,  \* slaves of this tick not handled yet, with the observation
                \* error their row had when the tick read it
    subject,    \* the slave whose answer the open transaction stores
    left        \* the part of its report that is not stored yet

monitorVars == <<observing, subject, left>>

\* What a slave says about one Mongod.  A Mongod whose status cannot be read, one
\* that is in no replica set yet and one that was removed from it have no name; one
\* that copies data (STARTUP2), say, has a name and no state.
ReportEntries ==
    [name : ReplicaSetNames, state : {"not_running", "recovering", "running", "unknown"}]
    \cup [name : {NULL}, state : {"status_error", "uninitiated", "removed"}]

MonitorInit ==
    /\ observing = <<>>
    /\ subject = NULL
    /\ left = <<>>

\* MspMongodStateToModelExecutionState.
ExecutionState(state) == IF state \in {"removed", "unknown"} THEN "none" ELSE state

-----------------------------------------------------------------------------
(* updateSlaveObservationError, with the slave as the tick read it.         *)

\* An error replaces the text of a known error row; only a new one is linked.
RecordSlaveError(d, s) ==
    IF observing[s] THEN d ELSE [d EXCEPT !.slaves[s].error = TRUE]

\* Deleting the known error row sets slaves.observation_error_id to NULL.
ClearSlaveError(d, s) ==
    IF observing[s] THEN [d EXCEPT !.slaves[s].error = FALSE] ELSE d

-----------------------------------------------------------------------------
(* The Mongods of one slave.                                                *)

Reported(row, report) ==
    row.port \in DOMAIN report /\ report[row.port].name = row.name

\* updateMongodStatesNotObservedOnSlave.
SetUnobservedDestroyed(d, s, report) ==
    [d EXCEPT !.mongods = [m \in DOMAIN d.mongods |->
        IF d.mongods[m].slave = s /\ ~Reported(d.mongods[m], report)
        THEN [d.mongods[m] EXCEPT !.observed = "destroyed", !.error = FALSE]
        ELSE d.mongods[m]]]

\* Mutant: looks among the Mongods of replica sets only.
MatchesManaged(d, s, port, entry) ==
    {m \in MongodsOnSlave(d, s) : /\ d.mongods[m].port = port
                                  /\ d.mongods[m].replicaSet # NULL
                                  /\ entry.name \in {NULL, d.mongods[m].name}}

\* tx.First(&dbMongod, &model.Mongod{...}): gorm leaves zero values out of the
\* condition, so an entry without a name matches on the port alone.
Matches(d, s, port, entry) ==
    {m \in MongodsOnSlave(d, s) : /\ d.mongods[m].port = port
                                  /\ entry.name \in {NULL, d.mongods[m].name}}

\* ... ORDER BY id LIMIT 1.
FirstMatch(d, s, port, entry) ==
    LET all == Matches(d, s, port, entry) IN {m \in all : \A n \in all : m <= n}

\* updateObservedState and the Save that follows: an error is linked to the row;
\* a valid observation overwrites the observed state, but the blank
\* ObservationError it assigns is no change to gorm and an old error stays.
Observe(row, entry) ==
    IF entry.state = "status_error" THEN [row EXCEPT !.error = TRUE]
    ELSE [row EXCEPT !.observed = ExecutionState(entry.state)]

\* The row for a Mongod that is not in the database.
UnknownMongod(s, port, entry) ==
    [slave |-> s, port |-> port, name |-> entry.name, replicaSet |-> NULL,
     desired |-> "force_destroyed", observed |-> NULL, error |-> FALSE]

-----------------------------------------------------------------------------

\* All answers of the last tick are stored; read the slaves and ask them.
MonitorTick ==
    /\ DOMAIN observing = {}
    /\ observing' = [s \in DOMAIN db.slaves |-> db.slaves[s].error]
    /\ UNCHANGED <<allocatorVars, subject, left>>

Handled(s) == observing' = Delete(observing, {s})

\* The slave did not answer, or answered with an error.
HandleSlaveError(s) ==
    /\ pc = "idle" /\ s \in DOMAIN observing
    /\ db' = RecordSlaveError(db, s) /\ work' = db'
    /\ Handled(s)
    /\ UNCHANGED <<pc, loop, subject, left>>

HandleObservation(s, report) ==
    /\ pc = "idle" /\ s \in DOMAIN observing
    /\ work' = SetUnobservedDestroyed(ClearSlaveError(db, s), s, report)
    /\ pc' = "observe"
    /\ subject' = s
    /\ left' = report
    /\ Handled(s)
    /\ UNCHANGED <<db, loop>>

\* One turn of updateOrCreateObservedMongodStates; the order of the entries is
\* the order in which the slave's goroutines answered.
UpdateObserved(port) ==
    /\ pc = "observe" /\ port \in DOMAIN left
    /\ \E m \in FirstMatch(work, subject, port, left[port]) :
          work' = [work EXCEPT !.mongods[m] = Observe(@, left[port])]
    /\ left' = Delete(left, {port})
    /\ UNCHANGED <<db, pc, loop, observing, subject>>

CreateObserved(port) ==
    /\ pc = "observe" /\ port \in DOMAIN left
    /\ Matches(work, subject, port, left[port]) = {}
    /\ \E id \in NextIds(work) :
          work' = [work EXCEPT !.mongods =
              Upsert(@, id, Observe(UnknownMongod(subject, port, left[port]), left[port]))]
    /\ left' = Delete(left, {port})
    /\ UNCHANGED <<db, pc, loop, observing, subject>>

CloseObservation(d) ==
    /\ pc = "observe" /\ DOMAIN left = {}
    /\ db' = d /\ work' = d
    /\ pc' = "idle"
    /\ subject' = NULL
    /\ UNCHANGED <<loop, observing, left>>

CommitObservation      == CloseObservation(work)
CommitObservationFails == CloseObservation(db)

\* The steps that do not depend on what the slaves answer.
MonitorStep ==
    \/ MonitorTick
    \/ \E s \in Hostnames : HandleSlaveError(s)
    \/ \E port \in PortNumbers : UpdateObserved(port) \/ CreateObserved(port)
    \/ CommitObservation \/ CommitObservationFails
=============================================================================
