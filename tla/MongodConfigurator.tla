------------------------- MODULE MongodConfigurator -------------------------
(***************************************************************************)
(* What the slaves do to the Mongods of one replica set when the master    *)
(* pushes desired states (slave/controller.go, mongodconfigurator.go,      *)
(* mongodb.go), and what MongoDB, which is not part of the repository,     *)
(* does by itself.                                                         *)
(*                                                                         *)
(* Every Mongod is on a slave of its own.  A push is a goroutine of the    *)
(* deployer and the slave's handler of its request in one; a handler holds *)
(* the mutex of its Mongod's port from its first step to its last.  A list *)
(* of members is a set here, because its order only decides who gets which *)
(* new _id.  Votes, priorities, users and sharding roles are left out.     *)
(*                                                                         *)
(* Nothing keeps a Mongod from being initiated although there is a replica *)
(* set of that name already: replSetInitiate makes another one.  Sets are  *)
(* the replica sets that come into being this way.  The configuration of   *)
(* one is known to all its members at once.  Its version is not modelled:  *)
(* a push that has read a configuration remembers whether it is the latest *)
(* still, which is what MongoDB finds out by comparing versions.           *)
(***************************************************************************)
EXTENDS Integers, FiniteSets

CONSTANTS
    Mongods,
    Sets,          \* replica sets made by replSetInitiate
    MemberIds,     \* the ids of members; 0 .. 255 in the code
    Pushes,        \* pushes that may be at work at once
    MaxFaults,     \* bound on what goes wrong
    NULL

ASSUME MongodsAssumption   == NULL \notin Mongods \cup {"child", "ended"}
ASSUME SetsAssumption      == Sets \cap {"none", "fresh", NULL} = {}
ASSUME MemberIdsAssumption == MemberIds \subseteq Nat
ASSUME MaxFaultsAssumption == MaxFaults \in Nat

VARIABLES
    processes,     \* Mongods that run
    entry,         \* ProcessManager.runningProcesses: the process that runs, one
                   \* that has ended, or NULL
    data,          \* data directory: none, fresh, or that of a member of a set
    config,        \* the configuration of each set: the _id of each member
    primary,       \* the primary of each set, or NULL
    frozen,        \* Mongods that stepped down and may not be elected yet
    pushes,        \* pushes at work: what they ask for and where they are
    faults

setVars   == <<config, primary>>
worldVars == <<processes, entry, data, setVars, frozen>>

Goals  == {"running", "destroyed", "force_destroyed"}
Places == {"read", "members", "sent", "apply", "config", "reconfig", "status", "act", "destroy"}

Configs == UNION {[members -> MemberIds] : members \in SUBSET Mongods}

\* What a push is to establish, what it has seen of its Mongod, and the configuration
\* it has read, NULL when that is not the latest any more.
Push == [mongod : Mongods, goal : Goals \cup {NULL}, members : SUBSET Mongods, at : Places,
         seen : {"removed", "primary", "secondary", NULL}, config : Configs \cup {NULL}]

WorldInit ==
    /\ processes = {}
    /\ entry = [m \in Mongods |-> NULL]
    /\ data = [m \in Mongods |-> "none"]
    /\ config = [s \in Sets |-> <<>>]
    /\ primary = [s \in Sets |-> NULL]
    /\ frozen = {}
    /\ pushes = <<>>
    /\ faults = 0

Fault == /\ faults < MaxFaults
         /\ faults' = faults + 1

At(p, place) == p \in DOMAIN pushes /\ pushes[p].at = place
GoTo(p, place) == pushes' = [pushes EXCEPT ![p].at = place]
GiveUp(p) == pushes' = [pushes EXCEPT ![p].at = "destroy", ![p].seen = NULL]
Without(ps) == [q \in DOMAIN pushes \ ps |-> pushes[q]]
End(p) == pushes' = Without({p})

\* Handlers that have the mutex of the port of m.
Handlers(m) == {p \in DOMAIN pushes : /\ pushes[p].mongod = m
                                      /\ pushes[p].at \notin {"read", "members", "sent"}}

\* The handler of p gets the mutex.
Handles(p, goal) == /\ At(p, "sent") /\ pushes[p].goal = goal
                    /\ Handlers(pushes[p].mongod) = {}

HasProcess(m) == entry[m] # NULL

-----------------------------------------------------------------------------
(* MongoDB.                                                                 *)

IsPrimary(m) == \E s \in Sets : primary[s] = m
Removed(m)   == data[m] \in Sets /\ m \notin DOMAIN config[data[m]]

Voters(s) == {m \in DOMAIN config[s] \cap processes : data[m] = s}
Majority(voters, members) == 2 * Cardinality(voters) > Cardinality(members)

\* Who answers a member of s: everybody but the members of another set of that name.
Reached(s, members) == {n \in members \cap processes : data[n] \notin Sets \ {s}}

NoPrimary(m) == [s \in Sets |-> IF primary[s] = m THEN NULL ELSE primary[s]]

\* An election.  Who stepped down leaves it to the others.
Elect(s, m) ==
    /\ primary[s] = NULL
    /\ m \in Voters(s) \ frozen /\ Majority(Voters(s), DOMAIN config[s])
    /\ primary' = [primary EXCEPT ![s] = m] /\ frozen' = frozen \ Voters(s)
    /\ UNCHANGED <<processes, entry, data, config, pushes, faults>>

\* The 120 seconds of replSetStepDown are over before there was another candidate.
Thaw(m) ==
    /\ m \in frozen /\ \A s \in Sets : m \in Voters(s) => Voters(s) \subseteq frozen
    /\ frozen' = frozen \ {m}
    /\ UNCHANGED <<processes, entry, data, setVars, pushes, faults>>

LoseMajority(s) ==
    /\ primary[s] # NULL
    /\ ~Majority(Reached(s, DOMAIN config[s]), DOMAIN config[s])
    /\ primary' = [primary EXCEPT ![s] = NULL]
    /\ UNCHANGED <<processes, entry, data, config, frozen, pushes, faults>>

\* A heartbeat: a new member hears of the configuration and copies the data.
Learn(s, m) ==
    /\ m \in DOMAIN config[s] \cap processes /\ data[m] = "fresh"
    /\ Voters(s) # {}
    /\ data' = [data EXCEPT ![m] = s]
    /\ UNCHANGED <<processes, entry, setVars, frozen, pushes, faults>>

ProcessEnds(m) ==
    /\ processes' = processes \ {m}
    /\ entry' = [entry EXCEPT ![m] = IF @ = "child" THEN "ended" ELSE @]
    /\ primary' = NoPrimary(m)

Crash(m) ==
    /\ Fault
    /\ m \in processes
    /\ ProcessEnds(m)
    /\ UNCHANGED <<data, config, frozen, pushes>>

\* A Mongod notices that its files are gone.
Starve(m) ==
    /\ m \in processes /\ data[m] = "none"
    /\ ProcessEnds(m)
    /\ UNCHANGED <<data, config, frozen, pushes, faults>>

MongoDBStep ==
    \/ \E m \in Mongods, s \in Sets : Elect(s, m) \/ Learn(s, m)
    \/ \E s \in Sets : LoseMajority(s)
    \/ \E m \in Mongods : Thaw(m) \/ Starve(m)

-----------------------------------------------------------------------------
(* The configurator.                                                        *)

\* Mutant: new members get the lowest ids, whoever has them.
UpdateMembersListReuses(current, members) ==
    LET new == members \ DOMAIN current
    IN  {f \in [members -> MemberIds] :
            /\ \A m \in members \cap DOMAIN current : f[m] = current[m]
            /\ \A m, n \in new : f[m] = f[n] => m = n
            /\ \A m \in new, i \in MemberIds : i < f[m] => \E n \in new : f[n] = i}

\* Mutant: the search starts and ends one too late.
UpdateMembersListFromOne(current, members) ==
    LET new  == members \ DOMAIN current
        ids  == {i + 1 : i \in MemberIds}
        free == ids \ {current[m] : m \in DOMAIN current}
    IN  {f \in [members -> ids] :
            /\ \A m \in members \cap DOMAIN current : f[m] = current[m]
            /\ \A m \in new : f[m] \in free
            /\ \A m, n \in new : f[m] = f[n] => m = n
            /\ \A m \in new, i \in free : i < f[m] => \E n \in new : f[n] = i}

\* The member lists that may come out, one for each order of the new members: they
\* get the lowest ids that are free, one after the other.  There is none
\* (SlaveReplicaSetConfigError) when the ids do not suffice.
UpdateMembersList(current, members) ==
    LET new  == members \ DOMAIN current
        free == MemberIds \ {current[m] : m \in DOMAIN current}
    IN  {f \in [members -> MemberIds] :
            /\ \A m \in members \cap DOMAIN current : f[m] = current[m]
            /\ \A m \in new : f[m] \in free
            /\ \A m, n \in new : f[m] = f[n] => m = n
            /\ \A m \in new, i \in free : i < f[m] => \E n \in new : f[n] = i}

\* connect and isMaster, for a Mongod that is to run: only a primary is configured.
IsMaster(p) ==
    LET m == pushes[p].mongod
    IN  /\ At(p, "apply")
        /\ IF m \in processes /\ IsPrimary(m) THEN GoTo(p, "config") ELSE End(p)
        /\ UNCHANGED <<worldVars, faults>>

ReplSetGetConfig(p) ==
    LET m == pushes[p].mongod
    IN  /\ At(p, "config")
        /\ IF m \in processes /\ data[m] \in Sets
           THEN pushes' = [pushes EXCEPT ![p].at = "reconfig", ![p].config = config[data[m]]]
           ELSE End(p)
        /\ UNCHANGED <<worldVars, faults>>

\* replSetReconfig takes a version greater than the latest, hence one more than the
\* latest, from a primary that is in the new list and reaches a majority of it.
Accepts(m, s, p) ==
    /\ primary[s] = m /\ data[m] = s
    /\ pushes[p].config # NULL
    /\ m \in pushes[p].members
    /\ Majority(Reached(s, pushes[p].members), pushes[p].members)

\* What others have read of the configuration of s is outdated.
Outdate(p, s) ==
    pushes' = [q \in DOMAIN pushes \ {p} |->
                 IF data[pushes[q].mongod] = s THEN [pushes[q] EXCEPT !.config = NULL]
                 ELSE pushes[q]]

\* Mutant: with "force", MongoDB asks only for a member that is in the new list.
ReplSetReconfigForced(p) ==
    LET m      == pushes[p].mongod
        takers == {s \in Sets : m \in Voters(s) \cap pushes[p].members}
        new    == IF takers = {} THEN {}
                  ELSE UpdateMembersList(pushes[p].config, pushes[p].members)
    IN  /\ At(p, "reconfig")
        /\ IF new = {} THEN UNCHANGED config
           ELSE \E s \in takers, c \in new : config' = [config EXCEPT ![s] = c]
        /\ End(p)
        /\ UNCHANGED <<processes, entry, data, primary, frozen, faults>>

\* updateConfig, and replSetReconfig, whose error is ignored.
ReplSetReconfig(p) ==
    LET takers == {s \in Sets : Accepts(pushes[p].mongod, s, p)}
        new    == IF takers = {} THEN {}
                  ELSE UpdateMembersList(pushes[p].config, pushes[p].members)
    IN  /\ At(p, "reconfig")
        /\ IF new = {} THEN UNCHANGED config /\ End(p)
           ELSE \E s \in takers, c \in new : /\ config' = [config EXCEPT ![s] = c]
                                             /\ Outdate(p, s)
        /\ UNCHANGED <<processes, entry, data, primary, frozen, faults>>

\* The Mongod does not answer in time, or refuses.
ApplyFails(p) ==
    /\ Fault
    /\ p \in DOMAIN pushes /\ pushes[p].at \in {"apply", "config", "reconfig"}
    /\ End(p)
    /\ UNCHANGED worldVars

\* ApplyMongodConfiguration for "destroyed" up to isMaster.
ReadMaster(p) ==
    LET m == pushes[p].mongod
    IN  /\ Handles(p, "destroyed")
        /\ pushes' = IF m \in processes
                     THEN [pushes EXCEPT ![p].at = "status",
                             ![p].seen = IF IsPrimary(m) THEN "primary" ELSE "secondary"]
                     ELSE [pushes EXCEPT ![p].at = "destroy"]
        /\ UNCHANGED <<worldVars, faults>>

\* replSetGetStatus fails on a Mongod that is in no replica set yet.
ReadStatus(p) ==
    LET m == pushes[p].mongod
    IN  /\ At(p, "status")
        /\ IF m \in processes /\ data[m] \in Sets
           THEN pushes' = [pushes EXCEPT ![p].at = "act",
                             ![p].seen = IF Removed(m) THEN "removed" ELSE @]
           ELSE GiveUp(p)
        /\ UNCHANGED <<worldVars, faults>>

\* "Mongod was removed by the primary so it can be shut down"
Shutdown(p) ==
    /\ At(p, "act") /\ pushes[p].seen = "removed"
    /\ ProcessEnds(pushes[p].mongod)
    /\ GoTo(p, "destroy")
    /\ UNCHANGED <<data, config, frozen, faults>>

\* Mutant: a primary waits for somebody to remove it.
StepDownNot(p) ==
    /\ At(p, "act") /\ pushes[p].seen = "primary"
    /\ GiveUp(p)
    /\ UNCHANGED <<worldVars, faults>>

\* "Cant remove ourselves so somebody else has to become master and remove us"; MongoDB
\* agrees when there is somebody else.
StepDown(p) ==
    LET m == pushes[p].mongod
    IN  /\ At(p, "act") /\ pushes[p].seen = "primary"
        /\ IF \E s \in Sets : primary[s] = m /\ Voters(s) \ {m} # {}
           THEN primary' = NoPrimary(m) /\ frozen' = frozen \cup {m}
           ELSE UNCHANGED <<primary, frozen>>
        /\ GiveUp(p)
        /\ UNCHANGED <<processes, entry, data, config, faults>>

\* "Wait for this Mongod to be removed by the primary"
AwaitRemoval(p) ==
    /\ At(p, "act") /\ pushes[p].seen = "secondary"
    /\ GiveUp(p)
    /\ UNCHANGED <<worldVars, faults>>

-----------------------------------------------------------------------------
(* The controller and its process manager.                                  *)

\* A Mongod that the slave does not know of, because the slave was restarted, keeps
\* the port, and the new process ends at once; one without files has ended by then.
SpawnProcess(p) ==
    LET m     == pushes[p].mongod
        alive == m \in processes /\ data[m] # "none"
    IN  /\ Handles(p, "running")
        /\ IF HasProcess(m) THEN UNCHANGED <<processes, entry, data, primary>>
           ELSE /\ processes' = processes \cup {m}
                /\ entry' = [entry EXCEPT ![m] = IF alive THEN "ended" ELSE "child"]
                /\ data' = [data EXCEPT ![m] = IF @ = "none" THEN "fresh" ELSE @]
                /\ primary' = IF alive THEN primary ELSE NoPrimary(m)
        /\ GoTo(p, "apply")
        /\ UNCHANGED <<config, frozen, faults>>

SpawnFails(p) ==
    /\ Fault
    /\ Handles(p, "running") /\ ~HasProcess(pushes[p].mongod)
    /\ End(p)
    /\ UNCHANGED worldVars

\* The goroutine that waits for the process, and ProcessManager.Run.
ExitNoticed(m) ==
    /\ entry[m] = "ended"
    /\ entry' = [entry EXCEPT ![m] = NULL]
    /\ UNCHANGED <<processes, data, setVars, frozen, pushes, faults>>

\* Nothing to kill without an entry; to kill a process that has ended is an error.
KillProcess(p) ==
    LET m == pushes[p].mongod
    IN  /\ Handles(p, "force_destroyed")
        /\ IF entry[m] = "child" THEN ProcessEnds(m)
           ELSE UNCHANGED <<processes, entry, primary>>
        /\ IF entry[m] = "ended" THEN End(p) ELSE GoTo(p, "destroy")
        /\ UNCHANGED <<data, config, frozen, faults>>

\* Mutant: the directory goes without a look at the process.
DestroyUnchecked(p) ==
    /\ At(p, "destroy")
    /\ data' = [data EXCEPT ![pushes[p].mongod] = "none"]
    /\ End(p)
    /\ UNCHANGED <<processes, entry, setVars, frozen, faults>>

\* "Destroy data when process is not running anymore", as far as the slave knows.
Destroy(p) ==
    LET m == pushes[p].mongod
    IN  /\ At(p, "destroy")
        /\ data' = IF HasProcess(m) THEN data ELSE [data EXCEPT ![m] = "none"]
        /\ End(p)
        /\ UNCHANGED <<processes, entry, setVars, frozen, faults>>

\* os.RemoveAll fails.
DestroyFails(p) ==
    /\ Fault
    /\ At(p, "destroy") /\ ~HasProcess(pushes[p].mongod)
    /\ End(p)
    /\ UNCHANGED worldVars

\* The slave of m is restarted: its handlers end, requests it has not begun with may be
\* lost, and it forgets its processes, which go on.
Restart(m) ==
    /\ Fault
    /\ entry' = [entry EXCEPT ![m] = NULL]
    /\ \E lost \in SUBSET {p \in DOMAIN pushes : At(p, "sent") /\ pushes[p].mongod = m} :
          pushes' = Without(Handlers(m) \cup lost)
    /\ UNCHANGED <<processes, data, setVars, frozen>>

\* The steps of a handler.
HandlerStep(p) ==
    \/ SpawnProcess(p) \/ IsMaster(p) \/ ReplSetGetConfig(p) \/ ReplSetReconfig(p)
    \/ ReadMaster(p) \/ ReadStatus(p) \/ Shutdown(p) \/ StepDown(p) \/ AwaitRemoval(p)
    \/ KillProcess(p) \/ Destroy(p)

HandlerFault(p) == SpawnFails(p) \/ ApplyFails(p) \/ DestroyFails(p)

\* RsInitiate.  "Replica Set is already initalized" counts as success; MongoDB
\* initiates only Mongods that it can reach and that are new.
Initiable(m, members) ==
    /\ m \in members
    /\ \A n \in members : n \in processes /\ data[n] = "fresh"

Initiate(m, members) ==
    /\ Initiable(m, members)
    /\ \E s \in Sets, c \in UpdateMembersList(<<>>, members) :
          /\ \A n \in Mongods : data[n] # s
          /\ config' = [config EXCEPT ![s] = c]
          /\ primary' = [primary EXCEPT ![s] = NULL]
          /\ data' = [data EXCEPT ![m] = s]
    /\ UNCHANGED <<processes, entry, frozen>>

AlreadyInitiated(m) == m \in processes /\ data[m] \in Sets
=============================================================================
