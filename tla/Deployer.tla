------------------------------ MODULE Deployer ------------------------------
(***************************************************************************)
(* The control loop around one replica set: the monitor asks for the       *)
(* states of Mongods and sends mismatches over the bus, the deployer       *)
(* (master/deployer.go) pushes desired states and initiates the replica    *)
(* set, each in a goroutine of its own, and the slaves establish what they *)
(* are told (MongodConfigurator).  The cluster allocator, which decides on *)
(* desired states, is the environment here; ClusterAllocator models it.    *)
(***************************************************************************)
EXTENDS MongodConfigurator

CONSTANTS
    Initiations,    \* initiations that may be at work at once
    MaxChanges      \* bound on the decisions of the allocator

ASSUME MaxChangesAssumption == MaxChanges \in Nat

VARIABLES
    desired,       \* desired state of the row of each Mongod, NULL without a row
    observed,      \* its observed state, NULL before the first observation
    initiated,     \* replica_sets.initiated
    answer,        \* a slave's answer on its way to the monitor
    initiations,   \* initiations at work, and where they are
    changes

masterVars == <<desired, observed, initiated, answer, initiations, changes>>
vars == <<worldVars, pushes, faults, masterVars>>

\* Rows of Mongods nobody asked for have the desired state "force_destroyed" and
\* belong to no replica set.  An observed state "error" is "destroyed" with an
\* observation error: an entry with an error has no replica set name, so the row counts
\* as not reported before the error is stored.  "other" is any state that nobody
\* desires: not running, recovering, uninitiated, removed or unknown.
States == {"running", "other", "error", "destroyed"}

Initiation == [mongod : Mongods \cup {NULL}, members : SUBSET Mongods,
               at : {"begun", "sent", "done"}]

ASSUME NullAssumption == NULL \notin Goals \cup States

Init ==
    /\ WorldInit
    /\ desired = [m \in Mongods |-> NULL]
    /\ observed = [m \in Mongods |-> NULL]
    /\ initiated = FALSE
    /\ answer = NULL
    /\ initiations = <<>>
    /\ changes = 0

\* DesiredMSPReplicaSetMembersForReplicaSetID
DesiredMembers == {m \in Mongods : desired[m] = "running"}

-----------------------------------------------------------------------------
(* The cluster allocator.                                                   *)

Change == /\ changes < MaxChanges
          /\ changes' = changes + 1
          /\ UNCHANGED <<worldVars, pushes, faults, initiated, answer, initiations>>

\* A new row: its port is on no other row of the slave.
Spawn(m) ==
    /\ Change
    /\ desired[m] = NULL
    /\ desired' = [desired EXCEPT ![m] = "running"]
    /\ UNCHANGED observed

\* An excess member.  Members are counted per kind of storage, and only the sum of the
\* counts has to be positive: one effective member, be it the last, is enough, and
\* the row that is taken need not be its.
Condemn(m) ==
    /\ Change
    /\ desired[m] = "running"
    /\ \E n \in DesiredMembers : observed[n] = "running"
    /\ desired' = [desired EXCEPT ![m] = "destroyed"]
    /\ UNCHANGED observed

\* A Mongod that was observed destroyed.  Pushes that have not read its row yet will
\* not find it.
RemoveRow(m) ==
    /\ desired[m] \in {"destroyed", "force_destroyed"} /\ observed[m] = "destroyed"
    /\ desired' = [desired EXCEPT ![m] = NULL]
    /\ observed' = [observed EXCEPT ![m] = NULL]
    /\ pushes' = [p \in {q \in DOMAIN pushes : ~(pushes[q].mongod = m /\ pushes[q].at = "read")}
                    |-> pushes[p]]
    /\ UNCHANGED <<worldVars, faults, initiated, answer, initiations, changes>>

-----------------------------------------------------------------------------
(* The monitor.                                                             *)

\* RequestStatus and fetchConfiguration, for one Mongod.  A removed one does not know
\* the members any more.
Report(m) ==
    LET answers == HasProcess(m) /\ m \in processes
        member  == answers /\ data[m] \in Sets /\ ~Removed(m)
    IN  [mongod  |-> m,
         state   |-> CASE data[m] = "none" -> "destroyed"
                       [] data[m] # "none" /\ HasProcess(m) /\ ~answers -> "error"
                       [] member -> "running"
                       [] OTHER  -> "other",
         members |-> IF member THEN DOMAIN config[data[m]] ELSE {}]

\* The monitor starts a round only once it is through with the one before; that a
\* push can be started then is a bound.
Ask(m) ==
    /\ answer = NULL /\ DOMAIN pushes # Pushes
    /\ answer' = Report(m)
    /\ UNCHANGED <<worldVars, pushes, faults, desired, observed, initiated, initiations, changes>>

\* The Mongod does not answer the slave, or copies data (STARTUP2) or recovers; or the
\* slave cannot read its directories, and the listener answers with an empty list
\* instead of the error.
AskFails(m) ==
    /\ Fault
    /\ answer = NULL /\ DOMAIN pushes # Pushes
    /\ answer' \in {[Report(m) EXCEPT !.state = s] :
                       s \in IF Report(m).state = "running" THEN {"other"} ELSE {}}
                   \cup {[mongod |-> m, state |-> s, members |-> {}] :
                       s \in {"destroyed"} \cup IF m \in processes THEN {"error"} ELSE {}}
    /\ UNCHANGED <<worldVars, pushes, desired, observed, initiated, initiations, changes>>

\* compareStates, with the row as it was just written.  Rows without a replica set
\* never match.
Mismatch(m) ==
    ~ /\ desired'[m] # "force_destroyed"
      /\ desired'[m] = IF observed'[m] = "error" THEN "destroyed" ELSE observed'[m]
      /\ answer.members = {n \in Mongods : desired'[n] = "running"}

NewPush(m) == [mongod |-> m, goal |-> NULL, members |-> {}, at |-> "read", seen |-> NULL,
               config |-> NULL]

\* handleObservation, and the deployer's start of a push for a mismatch.
Store(p) ==
    LET m == answer.mongod
    IN  /\ answer # NULL
        /\ IF desired[m] = NULL /\ answer.state = "destroyed"
           THEN UNCHANGED <<desired, observed, pushes>>
           ELSE /\ desired' = [desired EXCEPT ![m] = IF @ = NULL THEN "force_destroyed" ELSE @]
                /\ observed' = [observed EXCEPT ![m] = answer.state]
                /\ p \in Pushes \ DOMAIN pushes
                /\ pushes' = IF Mismatch(m)
                             THEN [q \in DOMAIN pushes \cup {p} |->
                                      IF q = p THEN NewPush(m) ELSE pushes[q]]
                             ELSE pushes
        /\ answer' = NULL
        /\ UNCHANGED <<worldVars, faults, initiated, initiations, changes>>

-----------------------------------------------------------------------------
(* The deployer.                                                            *)

\* mspMongodStateRepresentation reads the desired state and the members with two
\* statements.  Only a Mongod that is to run looks at the members.
ReadState(p) ==
    LET m == pushes[p].mongod
    IN  /\ At(p, "read")
        /\ pushes' = [pushes EXCEPT ![p].goal = desired[m], ![p].at = "members"]
        /\ UNCHANGED <<worldVars, faults, masterVars>>

ReadMembers(p) ==
    /\ At(p, "members")
    /\ pushes' = [pushes EXCEPT ![p].at = "sent",
                    ![p].members = IF pushes[p].goal = "running" THEN DesiredMembers ELSE {}]
    /\ UNCHANGED <<worldVars, faults, masterVars>>

\* The bus drops the message, or the request is lost.
PushLost(p) ==
    /\ Fault
    /\ At(p, "sent")
    /\ End(p)
    /\ UNCHANGED <<worldVars, masterVars>>

\* handleReplicaSetInitiationStatus, for a status that says that the replica set is not
\* initiated; the status may have been on the bus for long.
InitiationAt(i, place) == i \in DOMAIN initiations /\ initiations[i].at = place

SetInitiation(i, r) ==
    initiations' = [j \in DOMAIN initiations \cup {i} |-> IF j = i THEN r ELSE initiations[j]]

EndInitiation(i) == initiations' = [j \in DOMAIN initiations \ {i} |-> initiations[j]]

BeginInitiation(i) ==
    /\ ~initiated
    /\ i \in Initiations \ DOMAIN initiations
    /\ SetInitiation(i, [mongod |-> NULL, members |-> {}, at |-> "begun"])
    /\ UNCHANGED <<worldVars, pushes, faults, desired, observed, initiated, answer, changes>>

\* The initiator, which is the first of the members, and the members are read with two
\* statements; one step is enough, since MongoDB does not initiate a list without the
\* initiator.  Who is first depends on ids and on the slaves, and is left open.
ReadInitiation(i) ==
    /\ InitiationAt(i, "begun")
    /\ \/ \E m \in DesiredMembers :
             SetInitiation(i, [mongod |-> m, members |-> DesiredMembers, at |-> "sent"])
       \/ DesiredMembers = {} /\ EndInitiation(i)
    /\ UNCHANGED <<worldVars, pushes, faults, desired, observed, initiated, answer, changes>>

\* The slave has the mutex of the port.
InitiationSent(i) == InitiationAt(i, "sent") /\ Handlers(initiations[i].mongod) = {}

Initiated(i) ==
    /\ InitiationSent(i)
    /\ \/ Initiate(initiations[i].mongod, initiations[i].members)
       \/ AlreadyInitiated(initiations[i].mongod) /\ UNCHANGED worldVars
    /\ SetInitiation(i, [mongod |-> NULL, members |-> {}, at |-> "done"])
    /\ UNCHANGED <<pushes, faults, desired, observed, initiated, answer, changes>>

InitiationFails(i) ==
    /\ InitiationSent(i)
    /\ ~Initiable(initiations[i].mongod, initiations[i].members)
    /\ ~AlreadyInitiated(initiations[i].mongod)
    /\ EndInitiation(i)
    /\ UNCHANGED <<worldVars, pushes, faults, desired, observed, initiated, answer, changes>>

StoreInitiated(i) ==
    /\ InitiationAt(i, "done")
    /\ initiated' = TRUE
    /\ EndInitiation(i)
    /\ UNCHANGED <<worldVars, pushes, faults, desired, observed, answer, changes>>

\* The request or its answer is lost, or the transaction fails.
InitiationLost(i) ==
    /\ Fault
    /\ InitiationAt(i, "sent") \/ InitiationAt(i, "done")
    /\ EndInitiation(i)
    /\ UNCHANGED <<worldVars, pushes, desired, observed, initiated, answer, changes>>

InitiationStep(i) == \/ ReadInitiation(i) \/ Initiated(i) \/ InitiationFails(i)
                     \/ StoreInitiated(i)

DeployerStep(p) == ReadState(p) \/ ReadMembers(p)

-----------------------------------------------------------------------------

Next ==
    \/ \E m \in Mongods : Spawn(m) \/ Condemn(m) \/ RemoveRow(m)
    \/ \E m \in Mongods : Ask(m) \/ AskFails(m)
    \/ \E p \in Pushes : Store(p)
    \/ \E p \in Pushes : DeployerStep(p) \/ PushLost(p)
    \/ \E p \in Pushes : (HandlerStep(p) \/ HandlerFault(p)) /\ UNCHANGED masterVars
    \/ \E i \in Initiations : BeginInitiation(i) \/ InitiationStep(i) \/ InitiationLost(i)
    \/ \E m \in Mongods : (ExitNoticed(m) \/ Crash(m) \/ Restart(m)) /\ UNCHANGED masterVars
    \/ MongoDBStep /\ UNCHANGED masterVars

\* Goroutines and Mongods that can go on do go on, and every round of the monitor has
\* every slave's turn.  A mutex that is free again and again is got by who waits for it.
Fairness ==
    /\ \A p \in Pushes : /\ SF_vars(HandlerStep(p) /\ UNCHANGED masterVars)
                        /\ WF_vars(DeployerStep(p))
    /\ \A m \in Mongods : /\ SF_vars(Ask(m)) /\ WF_vars(RemoveRow(m))
                         /\ WF_vars(ExitNoticed(m) /\ UNCHANGED masterVars)
                         /\ WF_vars((\E s \in Sets : Learn(s, m)) /\ UNCHANGED masterVars)
                         /\ WF_vars((Thaw(m) \/ Starve(m)) /\ UNCHANGED masterVars)
    /\ WF_vars(\E p \in Pushes : Store(p))
    /\ \A i \in Initiations : WF_vars(BeginInitiation(i)) /\ SF_vars(InitiationStep(i))
    /\ \A s \in Sets : /\ WF_vars((\E m \in Mongods : Elect(s, m)) /\ UNCHANGED masterVars)
                       /\ WF_vars(LoseMajority(s) /\ UNCHANGED masterVars)

Spec == Init /\ [][Next]_vars /\ Fairness

-----------------------------------------------------------------------------
(* Properties.                                                              *)

\* Handlers, messages and rows have their types; no member has an _id beyond the last
\* one.
TypeOK ==
    /\ processes \subseteq Mongods
    /\ entry \in [Mongods -> {"child", "ended", NULL}]
    /\ data \in [Mongods -> {"none", "fresh"} \cup Sets]
    /\ config \in [Sets -> Configs]
    /\ primary \in [Sets -> Mongods \cup {NULL}]
    /\ frozen \subseteq Mongods
    /\ DOMAIN pushes \subseteq Pushes /\ \A p \in DOMAIN pushes : pushes[p] \in Push
    /\ faults \in 0 .. MaxFaults
    /\ desired \in [Mongods -> Goals \cup {NULL}]
    /\ observed \in [Mongods -> States \cup {NULL}]
    /\ initiated \in BOOLEAN
    /\ answer \in [mongod : Mongods, state : States, members : SUBSET Mongods] \cup {NULL}
    /\ DOMAIN initiations \subseteq Initiations
    /\ \A i \in DOMAIN initiations : initiations[i] \in Initiation
    /\ changes \in 0 .. MaxChanges

\* A replica set is there for as long as somebody has its data.
Exists(s) == \E m \in Mongods : data[m] = s

\* However pushes and initiations overtake each other, whatever is lost, crashes or is
\* restarted on the way, every replica set that is initiated is reconfigured by its
\* primary only, and within the rules of MongoDB for the ids of members.
RS == INSTANCE ReplicaSetContract
        WITH config  <- [s \in Sets |-> IF Exists(s) THEN config[s] ELSE <<>>],
             primary <- [s \in Sets |-> IF Exists(s) THEN primary[s] ELSE NULL]
ImplementsContract == RS!Spec

\* No handler, however stale its request, removes the primary from the configuration
\* or removes its data while it serves; unless the slave was restarted since, and does
\* not know the process any more: then "Destroy data when process is not running
\* anymore" (controller.go) takes the files of the primary.
PrimaryServes ==
    \A s \in Sets : primary[s] # NULL =>
        /\ primary[s] \in DOMAIN config[s] \cap processes
        /\ \/ data[primary[s]] = s
           \/ data[primary[s]] = "none" /\ entry[primary[s]] # "child"

\* "Mongod was removed by the primary so it can be shut down" (mongodconfigurator.go): a
\* handler that has shut its Mongod down, and is about to destroy the data, does not
\* take a member from the replica set.
ShutDownWasRemoved ==
    \A p \in DOMAIN pushes, s \in Sets :
        /\ At(p, "destroy") /\ pushes[p].seen = "removed"
        /\ data[pushes[p].mongod] = s
        => pushes[p].mongod \notin DOMAIN config[s]

\* A Mongod that is to be destroyed and was never in the replica set: replSetGetStatus
\* fails on it, and nothing shuts it down.
NeverJoined(m) == desired[m] = "destroyed" /\ data[m] = "fresh"

\* The desired members, and no others, are the members of one replica set, and all else
\* is cleared away.
Converged ==
    /\ DesiredMembers # {} => initiated
    /\ \A m \in Mongods :
          \/ /\ desired[m] = "running"
             /\ \E s \in Sets : m \in Voters(s) /\ DOMAIN config[s] = DesiredMembers
          \/ desired[m] = NULL /\ data[m] = "none" /\ m \notin processes
          \/ NeverJoined(m)

\* The replica set counts as initiated and is so no more: nothing initiates it again.
AllDataLost == initiated /\ \A s \in Sets : ~Exists(s)

\* There can be no primary, and nobody but a primary is asked to reconfigure.
MajorityLost == \E s \in Sets : Exists(s) /\ ~Majority(Voters(s), DOMAIN config[s])

\* The only member with data is to be destroyed, as when the counts of a replica set
\* are changed from (1, 0) to (0, 1).  It is the primary and cannot step down, and
\* whoever is to replace it is not primary and hence does not add itself.
NobodyTakesOver ==
    \E s \in Sets : /\ primary[s] # NULL /\ Voters(s) = {primary[s]}
                     /\ desired[primary[s]] = "destroyed"

\* Two initiations have made two replica sets of one; neither takes a member of the
\* other.
Split ==
    \E m, n \in DesiredMembers :
        data[m] \in Sets /\ data[n] \in Sets /\ data[m] # data[n]

\* Once decisions and faults end, stale pushes and initiations included, the deployer
\* and the slaves bring the replica set to what is desired, by way of rounds of the
\* monitor, elections, and members that step down and wait to be removed; or it has
\* got into one of four states for which the code has no way out.
Converges ==
    \/ <>[]Converged
    \/ <>[]AllDataLost \/ <>[]MajorityLost \/ <>[]NobodyTakesOver \/ <>[]Split
=============================================================================
