--------------------------- MODULE SlaveController ---------------------------
(***************************************************************************)
(* The slave: its controller (slave/controller.go), the busy table         *)
(* (controller_synchronization.go) and the process manager                 *)
(* (processmanager.go, procmgr_fs.go).                                     *)
(*                                                                         *)
(* Every request of the master runs in a goroutine of its own; the busy    *)
(* table has a mutex for each port.  Processes end whenever they like; a   *)
(* goroutine waits for each and tells the goroutine of Run, which takes it *)
(* off the map of running processes.  What the configurator says to a      *)
(* Mongod is left out; that a Mongod shuts down on its word is one of the  *)
(* ways for a process to end.                                              *)
(***************************************************************************)
EXTENDS Integers, FiniteSets

CONSTANTS
    Requests,      \* handlers that may be at work at once
    Ports, Names,
    ProcessIds,    \* bound on the processes the slave knows at once
    MaxRestarts,   \* bound on the restarts of the slave
    NULL

ASSUME RequestsAssumption    == NULL \notin Requests
ASSUME MaxRestartsAssumption == MaxRestarts \in Nat

VARIABLES
    requests,      \* requests at work: what they ask for and where they are
    lock,          \* busyTable: who holds the mutex of each port
    running,       \* runningProcesses: the process of some ports
    processes,     \* processes that live, or whose end Run does not know of yet
    dirs,          \* process root directories <<port, name>>
    credentials,   \* ports in mongodCredentials
    restarts

vars == <<requests, lock, running, processes, dirs, credentials, restarts>>

\* What a request may ask for: a state to establish (one the controller does not
\* know is "other"), or to initiate a replica set.
Goals == {"running", "not_running", "destroyed", "force_destroyed", "other", "initiate"}

\* Where it may be.  From "credentials" on it holds its port's mutex.
Places == {"waiting", "credentials", "spawn", "enter", "configure", "kill", "destroy",
           "return"}

Init ==
    /\ requests = <<>>
    /\ lock = [p \in Ports |-> NULL]
    /\ running = <<>>
    /\ processes = <<>>
    /\ dirs = {}
    /\ credentials = {}
    /\ restarts = 0

Without(f, xs) == [x \in DOMAIN f \ xs |-> f[x]]
With(f, x, y)  == [z \in DOMAIN f \cup {x} |-> IF z = x THEN y ELSE f[z]]

HasProcess(port) == port \in DOMAIN running

\* A process no entry of the map, present or to come, stands for.
Fresh(id) == /\ id \notin DOMAIN processes
             /\ \A p \in DOMAIN running : running[p] # id
             /\ \A r \in DOMAIN requests : requests[r].process # id

At(r, place) == r \in DOMAIN requests /\ requests[r].at = place
GoTo(r, place) == requests' = [requests EXCEPT ![r].at = place]
Port(r) == requests[r].port
Dir(r)  == <<requests[r].port, requests[r].name>>

-----------------------------------------------------------------------------
(* The handlers.                                                            *)

Receive(r, port, name, goal) ==
    /\ r \notin DOMAIN requests
    /\ requests' = With(requests, r, [port |-> port, name |-> name, goal |-> goal,
                                      at |-> "waiting", process |-> NULL])
    /\ UNCHANGED <<lock, running, processes, dirs, credentials, restarts>>

\* Mutant: the mutex is looked up, but not locked.
AcquireNoLock(r) ==
    /\ At(r, "waiting")
    /\ lock' = [lock EXCEPT ![Port(r)] = r]
    /\ GoTo(r, IF requests[r].goal = "initiate" THEN "configure" ELSE "credentials")
    /\ UNCHANGED <<running, processes, dirs, credentials, restarts>>

AcquireLock(r) ==
    /\ At(r, "waiting")
    /\ lock[Port(r)] = NULL
    /\ lock' = [lock EXCEPT ![Port(r)] = r]
    /\ GoTo(r, IF requests[r].goal = "initiate" THEN "configure" ELSE "credentials")
    /\ UNCHANGED <<running, processes, dirs, credentials, restarts>>

\* Mutant: the credentials are not kept.
SetCredentialsForgets(r) ==
    /\ At(r, "credentials")
    /\ GoTo(r, CASE requests[r].goal = "running" -> "spawn"
                 [] requests[r].goal \in {"not_running", "destroyed"} -> "configure"
                 [] requests[r].goal = "force_destroyed" -> "kill"
                 [] requests[r].goal = "other" -> "return")
    /\ UNCHANGED <<lock, running, processes, dirs, credentials, restarts>>

\* The write to mongodCredentials, and the switch over the desired state.
SetCredentials(r) ==
    /\ At(r, "credentials")
    /\ credentials' = credentials \cup {Port(r)}
    /\ GoTo(r, CASE requests[r].goal = "running" -> "spawn"
                 [] requests[r].goal \in {"not_running", "destroyed"} -> "configure"
                 [] requests[r].goal = "force_destroyed" -> "kill"
                 [] requests[r].goal = "other" -> "return")
    /\ UNCHANGED <<lock, running, processes, dirs, restarts>>

AlreadyRunning(r) ==
    /\ At(r, "spawn") /\ HasProcess(Port(r))
    /\ GoTo(r, "configure")
    /\ UNCHANGED <<lock, running, processes, dirs, credentials, restarts>>

\* Mutant: the process that was started is not remembered.
StartProcessUnknown(r, id) ==
    /\ At(r, "spawn") /\ ~HasProcess(Port(r))
    /\ Fresh(id)
    /\ dirs' = dirs \cup {Dir(r)}
    /\ processes' = With(processes, id, [port |-> Port(r), name |-> requests[r].name,
                                         state |-> "alive", child |-> TRUE])
    /\ GoTo(r, "enter")
    /\ UNCHANGED <<lock, running, credentials, restarts>>

\* SpawnProcess up to the start of the process and of the goroutine that waits
\* for it.
StartProcess(r, id) ==
    /\ At(r, "spawn") /\ ~HasProcess(Port(r))
    /\ Fresh(id)
    /\ dirs' = dirs \cup {Dir(r)}
    /\ processes' = With(processes, id, [port |-> Port(r), name |-> requests[r].name,
                                         state |-> "alive", child |-> TRUE])
    /\ requests' = [requests EXCEPT ![r].at = "enter", ![r].process = id]
    /\ UNCHANGED <<lock, running, credentials, restarts>>

\* The version, the directories, the keyfile or the start is at fault.
SpawnFails(r) ==
    /\ At(r, "spawn") /\ ~HasProcess(Port(r))
    /\ dirs' \in {dirs, dirs \cup {Dir(r)}}
    /\ GoTo(r, "return")
    /\ UNCHANGED <<lock, running, processes, credentials, restarts>>

EnterProcess(r) ==
    /\ At(r, "enter")
    /\ running' = With(running, Port(r), requests[r].process)
    /\ requests' = [requests EXCEPT ![r].at = "configure", ![r].process = NULL]
    /\ UNCHANGED <<lock, processes, dirs, credentials, restarts>>

\* ApplyMongodConfiguration or InitiateReplicaSet.  Errors end in a return as
\* well, except that a failed soft shutdown is only logged.
Configure(r) ==
    /\ At(r, "configure")
    /\ GoTo(r, IF requests[r].goal = "destroyed" THEN "destroy" ELSE "return")
    /\ UNCHANGED <<lock, running, processes, dirs, credentials, restarts>>

\* Nothing to kill, or killed.
KillProcess(r) ==
    /\ At(r, "kill")
    /\ \/ ~HasProcess(Port(r)) /\ UNCHANGED processes
       \/ /\ HasProcess(Port(r))
          /\ running[Port(r)] \in DOMAIN processes
          /\ processes[running[Port(r)]].state # "waited"
          /\ processes' = [processes EXCEPT ![running[Port(r)]].state = "exited"]
    /\ GoTo(r, "destroy")
    /\ UNCHANGED <<lock, running, dirs, credentials, restarts>>

\* os.Process.Kill refuses a process that has been waited for.
KillFails(r) ==
    /\ At(r, "kill") /\ HasProcess(Port(r))
    /\ running[Port(r)] \in DOMAIN processes =>
          processes[running[Port(r)]].state = "waited"
    /\ GoTo(r, "return")
    /\ UNCHANGED <<lock, running, processes, dirs, credentials, restarts>>

\* Mutant: the directory goes without another look at the process.
DestroyUnchecked(r) ==
    /\ At(r, "destroy")
    /\ dirs' = dirs \ {Dir(r)}
    /\ GoTo(r, "return")
    /\ UNCHANGED <<lock, running, processes, credentials, restarts>>

\* os.RemoveAll may fail; its error is ignored.
Destroy(r) ==
    /\ At(r, "destroy")
    /\ \/ dirs' = dirs
       \/ ~HasProcess(Port(r)) /\ dirs' = dirs \ {Dir(r)}
    /\ GoTo(r, "return")
    /\ UNCHANGED <<lock, running, processes, credentials, restarts>>

\* Mutant: no deferred Unlock.
ReturnLocked(r) ==
    /\ At(r, "return")
    /\ requests' = Without(requests, {r})
    /\ UNCHANGED <<lock, running, processes, dirs, credentials, restarts>>

Return(r) ==
    /\ At(r, "return")
    /\ requests' = Without(requests, {r})
    /\ lock' = [lock EXCEPT ![Port(r)] = NULL]
    /\ UNCHANGED <<running, processes, dirs, credentials, restarts>>

-----------------------------------------------------------------------------
(* Processes.                                                               *)

\* A process ends: it is a zombie until it is waited for, unless its parent died.
ProcessExits(id) ==
    /\ processes[id].state = "alive"
    /\ processes' = IF processes[id].child
                    THEN [processes EXCEPT ![id].state = "exited"]
                    ELSE Without(processes, {id})
    /\ UNCHANGED <<requests, lock, running, dirs, credentials, restarts>>

WaitReturns(id) ==
    /\ processes[id].state = "exited"
    /\ processes' = [processes EXCEPT ![id].state = "waited"]
    /\ UNCHANGED <<requests, lock, running, dirs, credentials, restarts>>

\* The goroutine of Run takes the port from killChan.
HandleKillChan(id) ==
    /\ processes[id].state = "waited"
    /\ processes' = Without(processes, {id})
    /\ running' = Without(running, {processes[id].port})
    /\ UNCHANGED <<requests, lock, dirs, credentials, restarts>>

\* The slave ends and is started again; its Mongods live on.
Restart ==
    /\ restarts < MaxRestarts
    /\ restarts' = restarts + 1
    /\ requests' = <<>>
    /\ lock' = [p \in Ports |-> NULL]
    /\ running' = <<>>
    /\ credentials' = {}
    /\ processes' = [id \in {i \in DOMAIN processes : processes[i].state = "alive"} |->
                        [processes[id] EXCEPT !.child = FALSE]]
    /\ UNCHANGED dirs

-----------------------------------------------------------------------------

\* The steps of a handler that holds the mutex.
HandlerStep(r) ==
    \/ SetCredentials(r)
    \/ AlreadyRunning(r)
    \/ \E id \in ProcessIds : StartProcess(r, id)
    \/ SpawnFails(r)
    \/ EnterProcess(r)
    \/ Configure(r)
    \/ KillProcess(r) \/ KillFails(r)
    \/ Destroy(r)
    \/ Return(r)

Reaping == \E id \in DOMAIN processes : WaitReturns(id) \/ HandleKillChan(id)

Next ==
    \/ \E r \in Requests, port \in Ports, name \in Names, goal \in Goals :
          Receive(r, port, name, goal)
    \/ \E r \in Requests : AcquireLock(r) \/ HandlerStep(r)
    \/ \E id \in DOMAIN processes : ProcessExits(id)
    \/ Reaping
    \/ Restart

\* Goroutines that can go on do go on, and so does the configurator, which has
\* timeouts.  Which of the waiting goroutines gets a mutex is left open.
Spec == /\ Init /\ [][Next]_vars
        /\ \A r \in Requests : WF_vars(HandlerStep(r))
        /\ WF_vars(Reaping)

-----------------------------------------------------------------------------
(* Properties.                                                              *)

Live(id) == processes[id].state = "alive"

\* The slave's maps and the handlers' local variables have their types.
TypeOK ==
    /\ DOMAIN requests \subseteq Requests
    /\ \A r \in DOMAIN requests :
          requests[r] \in [port : Ports, name : Names, goal : Goals, at : Places,
                           process : ProcessIds \cup {NULL}]
    /\ lock \in [Ports -> Requests \cup {NULL}]
    /\ DOMAIN running \subseteq Ports
    /\ \A p \in DOMAIN running : running[p] \in ProcessIds
    /\ DOMAIN processes \subseteq ProcessIds
    /\ \A id \in DOMAIN processes :
          processes[id] \in [port : Ports, name : Names,
                             state : {"alive", "exited", "waited"}, child : BOOLEAN]
    /\ dirs \subseteq Ports \X Names
    /\ credentials \subseteq Ports
    /\ restarts \in 0 .. MaxRestarts

\* "possible race condition: process might have been in destruction phase while we
\* were waiting for the lock" (controller.go): however requests and exits
\* interleave, at most one of the slave's running children is on a port.
OneProcessPerPort ==
    \A i, j \in DOMAIN processes :
        /\ Live(i) /\ processes[i].child
        /\ Live(j) /\ processes[j].child
        /\ processes[i].port = processes[j].port
        => i = j

RemovesDirOf(id) ==
    <<processes[id].port, processes[id].name>> \in dirs \ dirs'

\* However requests, exits and restarts interleave, no step removes the directory
\* of a running Mongod that this instance of the slave has started.
ChildrenKeepData ==
    [][\A id \in DOMAIN processes : Live(id) /\ processes[id].child => ~RemovesDirOf(id)]_vars

\* No "consistency problem": the slave has the credentials of every process that
\* RequestStatus will ask for its configuration.
CredentialsKnown == DOMAIN running \subseteq credentials

\* Every mutex that is taken is given back, whatever the desired state and
\* whatever fails.
MutexesAreReleased == \A p \in Ports : lock[p] # NULL ~> lock[p] = NULL

\* A port whose process has ended, and whose goroutines have cleaned up, is not
\* among the running ones ("give goroutines a chance to cleanup",
\* processmanager_test.go).
ExitedProcessesAreForgotten == \A p \in DOMAIN running : running[p] \in DOMAIN processes
=============================================================================
