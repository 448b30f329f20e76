----------------------- MODULE SlaveController_proofs -----------------------
(***************************************************************************)
(* Proofs about the slave, for any number of requests, ports and processes *)
(* and across restarts.                                                    *)
(*                                                                         *)
(* The argument is in Owned: a child that is alive, or whose end is not    *)
(* noticed yet, is the entry of its port in the map, or the handler that   *)
(* started it is about to enter it and holds the port's mutex.             *)
(***************************************************************************)
EXTENDS SlaveController, TLAPS

Entering(r, id) == At(r, "enter") /\ requests[r].process = id

\* A handler past AcquireLock holds its port's mutex.
Locked == \A r \in DOMAIN requests : requests[r].at # "waiting" => lock[Port(r)] = r

Owned ==
    \A id \in DOMAIN processes :
        processes[id].child =>
            \/ processes[id].port \in DOMAIN running /\ running[processes[id].port] = id
            \/ \E r \in DOMAIN requests : Entering(r, id) /\ Port(r) = processes[id].port

\* Where a handler is about to enter a process, the map has no entry.
EnterIsFree == \A r \in DOMAIN requests : At(r, "enter") => Port(r) \notin DOMAIN running

\* It has the process at hand.
Named == \A r \in DOMAIN requests : requests[r].at = "enter" => requests[r].process \in ProcessIds

\* To initiate a replica set takes no credentials.
Asked == \A r \in DOMAIN requests : requests[r].at = "credentials" => requests[r].goal # "initiate"

\* Mongods that a former instance of the slave has started are in no entry.
Orphans ==
    /\ \A id \in DOMAIN processes : ~processes[id].child => processes[id].state = "alive"
    /\ \A p \in DOMAIN running :
          running[p] \in DOMAIN processes => processes[running[p]].child
    /\ \A r \in DOMAIN requests :
          requests[r].at = "enter" /\ requests[r].process \in DOMAIN processes
             => processes[requests[r].process].child

Credited ==
    /\ CredentialsKnown
    /\ \A r \in DOMAIN requests : requests[r].at \in {"spawn", "enter"} => Port(r) \in credentials

IInv == TypeOK /\ Locked /\ Owned /\ EnterIsFree /\ Named /\ Asked /\ Orphans /\ Credited

\* The slave starts with empty maps.
LEMMA InitIInv == Init => IInv
PROOF
  <1> SUFFICES ASSUME Init PROVE IInv
    OBVIOUS
  <1>1. DOMAIN <<>> = {}
    OBVIOUS
  <1>2. /\ DOMAIN requests = {} /\ DOMAIN running = {} /\ DOMAIN processes = {}
        /\ lock = [p \in Ports |-> NULL] /\ dirs = {} /\ credentials = {} /\ restarts = 0
    BY <1>1 DEF Init
  <1>3. TypeOK
    BY <1>2, MaxRestartsAssumption DEF TypeOK
  <1>4. Locked /\ Owned /\ EnterIsFree /\ Named /\ Asked /\ Orphans /\ Credited
    BY <1>2 DEF Locked, Owned, EnterIsFree, Named, Asked, Orphans, Credited, CredentialsKnown
  <1> QED BY <1>3, <1>4 DEF IInv

Request == [port : Ports, name : Names, goal : Goals, at : Places,
            process : ProcessIds \cup {NULL}]

Process == [port : Ports, name : Names, state : {"alive", "exited", "waited"}, child : BOOLEAN]

\* A process may have ended; nothing else about processes has changed.
SameProcesses ==
    /\ DOMAIN processes' = DOMAIN processes
    /\ \A i \in DOMAIN processes :
          /\ processes'[i] \in Process
          /\ processes'[i].port = processes[i].port
          /\ processes'[i].child <=> processes[i].child
          /\ ~processes[i].child => processes'[i].state = processes[i].state

\* A handler that goes on within EstablishMongodState or RsInitiate without
\* touching mutexes or the map of processes.
LEMMA MovesOn ==
    ASSUME IInv, NEW r \in DOMAIN requests, NEW place \in Places, GoTo(r, place),
           requests[r].at \notin {"waiting", "enter"},
           place \notin {"waiting", "credentials", "enter"},
           UNCHANGED <<lock, running, restarts>>, SameProcesses,
           dirs' \subseteq Ports \X Names,
           credentials' \subseteq Ports, credentials \subseteq credentials',
           place = "spawn" => Port(r) \in credentials'
    PROVE  IInv'
PROOF
  <1>1. /\ DOMAIN requests' = DOMAIN requests
        /\ requests[r] \in Request
        /\ requests'[r] = [requests[r] EXCEPT !.at = place]
        /\ \A q \in DOMAIN requests \ {r} : requests'[q] = requests[q]
    BY DEF IInv, TypeOK, GoTo, Request
  <1>2. /\ requests'[r] \in Request /\ requests'[r].at = place
        /\ requests'[r].port = requests[r].port
    BY <1>1 DEF Request
  <1>3. TypeOK'
    BY <1>1, <1>2 DEF IInv, TypeOK, Request, SameProcesses, Process
  <1>4. Locked' /\ Named' /\ Asked'
    BY <1>1, <1>2 DEF IInv, Locked, Named, Asked, Port
  <1>5. ASSUME NEW q \in DOMAIN requests, NEW id
        PROVE  Entering(q, id)' <=> Entering(q, id)
    <2>1. CASE q = r
      BY <1>1, <1>2, <2>1 DEF Entering, At
    <2>2. CASE q # r
      BY <1>1, <2>2 DEF Entering, At
    <2> QED BY <2>1, <2>2
  <1>6. Owned'
    <2> SUFFICES ASSUME NEW id \in DOMAIN processes, processes[id].child,
                        ~(/\ processes[id].port \in DOMAIN running
                          /\ running[processes[id].port] = id)
                 PROVE  \E q \in DOMAIN requests :
                           Entering(q, id)' /\ Port(q)' = processes[id].port
      BY <1>1 DEF Owned, SameProcesses
    <2>1. PICK q \in DOMAIN requests : Entering(q, id) /\ Port(q) = processes[id].port
      BY DEF IInv, Owned
    <2>2. Entering(q, id)'
      BY <1>5, <2>1
    <2>3. Port(q)' = Port(q)
      BY <1>1, <1>2 DEF Port
    <2> QED BY <2>1, <2>2, <2>3
  <1>7. EnterIsFree'
    BY <1>1, <1>2 DEF IInv, EnterIsFree, At, Port
  <1>8. Orphans'
    BY <1>1, <1>2 DEF IInv, Orphans, SameProcesses
  <1>9. Credited'
    BY <1>1, <1>2 DEF IInv, Credited, CredentialsKnown, Port
  <1> QED BY <1>3, <1>4, <1>6, <1>7, <1>8, <1>9 DEF IInv

\* Two requests with one port that are past AcquireLock are the same.
LEMMA Exclusive ==
    ASSUME IInv, NEW r \in DOMAIN requests, NEW q \in DOMAIN requests,
           requests[r].at # "waiting", requests[q].at # "waiting", Port(r) = Port(q)
    PROVE  r = q
PROOF
  BY DEF IInv, Locked

\* At most one child of the slave has a given port, and it is known.
LEMMA OneChild ==
    ASSUME IInv, NEW i \in DOMAIN processes, NEW j \in DOMAIN processes,
           processes[i].child, processes[j].child, processes[i].port = processes[j].port
    PROVE  i = j
PROOF
  <1> DEFINE p == processes[i].port
  <1>1. CASE p \in DOMAIN running
    <2>1. ASSUME NEW id \in DOMAIN processes, processes[id].child, processes[id].port = p
          PROVE  running[p] = id
      BY <1>1, <2>1 DEF IInv, Owned, EnterIsFree, Entering
    <2> QED BY <2>1
  <1>2. CASE p \notin DOMAIN running
    <2>1. PICK r \in DOMAIN requests : Entering(r, i) /\ Port(r) = p
      BY <1>2 DEF IInv, Owned
    <2>2. PICK q \in DOMAIN requests : Entering(q, j) /\ Port(q) = p
      BY <1>2 DEF IInv, Owned
    <2>3. r = q
      BY <2>1, <2>2, Exclusive DEF Entering, At
    <2> QED BY <2>1, <2>2, <2>3 DEF Entering
  <1> QED BY <1>1, <1>2

\* A request arrives and waits.
LEMMA ReceiveKeepsIInv ==
    ASSUME IInv, NEW r \in Requests, NEW port \in Ports, NEW name \in Names,
           NEW goal \in Goals, Receive(r, port, name, goal)
    PROVE  IInv'
PROOF
  <1> DEFINE row == [port |-> port, name |-> name, goal |-> goal,
                     at |-> "waiting", process |-> NULL]
  <1>1. /\ r \notin DOMAIN requests
        /\ requests' = With(requests, r, row)
        /\ UNCHANGED <<lock, running, processes, dirs, credentials, restarts>>
    BY DEF Receive
  <1>2. row \in Request /\ row.at = "waiting"
    BY DEF Request, Places
  <1> HIDE DEF row
  <1>3. /\ DOMAIN requests' = DOMAIN requests \cup {r} /\ requests'[r] = row
        /\ \A q \in DOMAIN requests : requests'[q] = requests[q]
    BY <1>1 DEF With
  <1>4. TypeOK'
    BY <1>1, <1>2, <1>3 DEF IInv, TypeOK, Request
  <1>5. Locked' /\ Named' /\ Asked'
    BY <1>1, <1>2, <1>3 DEF IInv, Locked, Named, Asked, Port
  <1>6. Owned'
    <2>1. \A q \in DOMAIN requests, id \in DOMAIN processes :
             Entering(q, id) => Entering(q, id)' /\ Port(q)' = Port(q)
      BY <1>3 DEF Entering, At, Port
    <2> QED BY <1>1, <1>3, <2>1 DEF IInv, Owned
  <1>7. EnterIsFree' /\ Orphans' /\ Credited'
    BY <1>1, <1>2, <1>3 DEF IInv, EnterIsFree, Orphans, Credited, CredentialsKnown, At, Port
  <1> QED BY <1>4, <1>5, <1>6, <1>7 DEF IInv

\* A free mutex has no handler past AcquireLock.
LEMMA AcquireLockKeepsIInv ==
    ASSUME IInv, NEW r \in Requests, AcquireLock(r)
    PROVE  IInv'
PROOF
  <1> DEFINE place == IF requests[r].goal = "initiate" THEN "configure" ELSE "credentials"
  <1>1. /\ r \in DOMAIN requests /\ requests[r].at = "waiting" /\ lock[Port(r)] = NULL
        /\ lock' = [lock EXCEPT ![Port(r)] = r]
        /\ requests' = [requests EXCEPT ![r].at = place]
        /\ UNCHANGED <<running, processes, dirs, credentials, restarts>>
    BY DEF AcquireLock, At, GoTo
  <1>2. /\ place \in Places /\ place \notin {"spawn", "enter"}
        /\ place = "credentials" => requests[r].goal # "initiate"
    BY DEF Places
  <1> HIDE DEF place
  <1>3. /\ DOMAIN requests' = DOMAIN requests
        /\ requests[r] \in Request /\ requests'[r] = [requests[r] EXCEPT !.at = place]
        /\ \A q \in DOMAIN requests \ {r} : requests'[q] = requests[q]
    BY <1>1 DEF IInv, TypeOK, Request
  <1>4. /\ requests'[r] \in Request /\ requests'[r].at = place
        /\ requests'[r].port = requests[r].port /\ requests'[r].goal = requests[r].goal
    BY <1>2, <1>3 DEF Request
  <1>5. TypeOK'
    BY <1>1, <1>3, <1>4 DEF IInv, TypeOK, Request
  <1>6. Locked'
    <2>1. \A q \in DOMAIN requests : lock[Port(q)] # NULL =>
             lock'[Port(q)] = lock[Port(q)]
      BY <1>1 DEF IInv, TypeOK
    <2>2. lock'[Port(r)] = r
      BY <1>1 DEF IInv, TypeOK, Port
    <2>3. \A q \in DOMAIN requests : q # NULL
      BY RequestsAssumption DEF IInv, TypeOK
    <2>4. \A q \in DOMAIN requests : Port(q)' = Port(q)
      BY <1>3, <1>4 DEF Port
    <2>5. ASSUME NEW q \in DOMAIN requests, requests'[q].at # "waiting"
          PROVE  lock'[Port(q)] = q
      <3>1. CASE q = r
        BY <2>2, <3>1
      <3>2. CASE q # r
        <4>1. lock[Port(q)] = q
          BY <1>3, <2>5, <3>2 DEF IInv, Locked
        <4> QED BY <2>1, <2>3, <4>1
      <3> QED BY <3>1, <3>2
    <2> QED BY <1>3, <2>4, <2>5 DEF Locked
  <1>7. Owned'
    <2>1. \A q \in DOMAIN requests, id \in DOMAIN processes :
             Entering(q, id) => Entering(q, id)' /\ Port(q)' = Port(q)
      BY <1>1, <1>3 DEF Entering, At, Port
    <2> QED BY <1>1, <1>3, <2>1 DEF IInv, Owned
  <1>8. EnterIsFree' /\ Named' /\ Asked' /\ Orphans' /\ Credited'
    BY <1>1, <1>2, <1>3, <1>4
       DEF IInv, EnterIsFree, Named, Asked, Orphans, Credited, CredentialsKnown, At, Port
  <1> QED BY <1>5, <1>6, <1>7, <1>8 DEF IInv

\* A handler starts a process; it will enter it next.
LEMMA StartProcessKeepsIInv ==
    ASSUME IInv, NEW r \in Requests, NEW id \in ProcessIds, StartProcess(r, id)
    PROVE  IInv'
PROOF
  <1> DEFINE row == [port |-> Port(r), name |-> requests[r].name,
                     state |-> "alive", child |-> TRUE]
  <1>1. /\ r \in DOMAIN requests /\ requests[r].at = "spawn"
        /\ Port(r) \notin DOMAIN running
        /\ id \notin DOMAIN processes /\ \A p \in DOMAIN running : running[p] # id
        /\ dirs' = dirs \cup {Dir(r)}
        /\ processes' = With(processes, id, row)
        /\ requests' = [requests EXCEPT ![r].at = "enter", ![r].process = id]
        /\ UNCHANGED <<lock, running, credentials, restarts>>
    BY DEF StartProcess, At, HasProcess, Fresh
  <1>2. requests[r] \in Request
    BY <1>1 DEF IInv, TypeOK, Request
  <1>3. row \in Process /\ row.port = Port(r) /\ row.state = "alive" /\ row.child
    BY <1>2 DEF Request, Process, Port
  <1> HIDE DEF row
  <1>4. /\ DOMAIN processes' = DOMAIN processes \cup {id} /\ processes'[id] = row
        /\ \A i \in DOMAIN processes : processes'[i] = processes[i]
    BY <1>1 DEF With
  <1>5. /\ DOMAIN requests' = DOMAIN requests
        /\ requests'[r] = [requests[r] EXCEPT !.at = "enter", !.process = id]
        /\ \A q \in DOMAIN requests \ {r} : requests'[q] = requests[q]
    BY <1>1
  <1>6. /\ requests'[r] \in Request /\ requests'[r].at = "enter"
        /\ requests'[r].process = id /\ requests'[r].port = requests[r].port
    BY <1>2, <1>5 DEF Request, Places
  <1>7. TypeOK'
    <2>1. Dir(r) \in Ports \X Names
      BY <1>2 DEF Dir, Request
    <2> QED BY <1>1, <1>3, <1>4, <1>5, <1>6, <2>1 DEF IInv, TypeOK, Request, Process
  <1>8. Locked' /\ Named' /\ Asked'
    BY <1>1, <1>5, <1>6 DEF IInv, Locked, Named, Asked, Port
  <1>9. Owned'
    <2>1. \A q \in DOMAIN requests, i \in DOMAIN processes :
             Entering(q, i) => Entering(q, i)' /\ Port(q)' = Port(q)
      BY <1>1, <1>5 DEF Entering, At, Port
    <2>2. Entering(r, id)' /\ Port(r)' = processes'[id].port
      BY <1>1, <1>3, <1>4, <1>5, <1>6 DEF Entering, At, Port
    <2>3. ASSUME NEW i \in DOMAIN processes, processes[i].child
          PROVE  \/ processes[i].port \in DOMAIN running /\ running[processes[i].port] = i
                 \/ \E q \in DOMAIN requests' : Entering(q, i)' /\ Port(q)' = processes[i].port
      BY <1>5, <2>1, <2>3 DEF IInv, Owned
    <2> QED BY <1>1, <1>4, <1>5, <2>2, <2>3 DEF Owned
  <1>10. EnterIsFree'
    BY <1>1, <1>5, <1>6 DEF IInv, EnterIsFree, At, Port
  <1>11. Orphans' /\ Credited'
    BY <1>1, <1>3, <1>4, <1>5, <1>6 DEF IInv, Orphans, Credited, CredentialsKnown, Port
  <1> QED BY <1>7, <1>8, <1>9, <1>10, <1>11 DEF IInv

\* The handler enters the process it has started.
LEMMA EnterProcessKeepsIInv ==
    ASSUME IInv, NEW r \in Requests, EnterProcess(r)
    PROVE  IInv'
PROOF
  <1> DEFINE id == requests[r].process
  <1>1. /\ r \in DOMAIN requests /\ requests[r].at = "enter"
        /\ running' = With(running, Port(r), id)
        /\ requests' = [requests EXCEPT ![r].at = "configure", ![r].process = NULL]
        /\ UNCHANGED <<lock, processes, dirs, credentials, restarts>>
    BY DEF EnterProcess, At
  <1>2. requests[r] \in Request
    BY <1>1 DEF IInv, TypeOK, Request
  <1>3. /\ DOMAIN requests' = DOMAIN requests
        /\ requests'[r] = [requests[r] EXCEPT !.at = "configure", !.process = NULL]
        /\ \A q \in DOMAIN requests \ {r} : requests'[q] = requests[q]
    BY <1>1
  <1>4. /\ requests'[r] \in Request /\ requests'[r].at = "configure"
        /\ requests'[r].port = requests[r].port
    BY <1>2, <1>3 DEF Request, Places
  <1>5. /\ DOMAIN running' = DOMAIN running \cup {Port(r)} /\ running'[Port(r)] = id
        /\ \A p \in DOMAIN running : p # Port(r) => running'[p] = running[p]
    BY <1>1 DEF With
  <1>6. \A q \in DOMAIN requests : At(q, "enter") /\ Port(q) = Port(r) => q = r
    BY <1>1, Exclusive DEF At
  <1>7. TypeOK'
    <2>1. id \in ProcessIds
      BY <1>1 DEF IInv, Named
    <2>2. Port(r) \in Ports
      BY <1>2 DEF Port, Request
    <2> QED BY <1>1, <1>3, <1>4, <1>5, <2>1, <2>2 DEF IInv, TypeOK, Request
  <1>8. Locked' /\ Named' /\ Asked'
    BY <1>1, <1>3, <1>4 DEF IInv, Locked, Named, Asked, Port
  <1>9. Owned'
    <2> SUFFICES ASSUME NEW i \in DOMAIN processes, processes[i].child
                 PROVE  \/ /\ processes[i].port \in DOMAIN running'
                           /\ running'[processes[i].port] = i
                        \/ \E q \in DOMAIN requests' :
                              Entering(q, i)' /\ Port(q)' = processes[i].port
      BY <1>1 DEF Owned
    <2>1. CASE processes[i].port \in DOMAIN running /\ running[processes[i].port] = i
      <3>1. Port(r) \notin DOMAIN running
        BY <1>1 DEF IInv, EnterIsFree, At
      <3> QED BY <1>5, <2>1, <3>1
    <2>2. CASE \E q \in DOMAIN requests : Entering(q, i) /\ Port(q) = processes[i].port
      <3>1. PICK q \in DOMAIN requests : Entering(q, i) /\ Port(q) = processes[i].port
        BY <2>2
      <3>2. CASE q = r
        BY <1>5, <3>1, <3>2 DEF Entering
      <3>3. CASE q # r
        BY <1>3, <3>1, <3>3 DEF Entering, At, Port
      <3> QED BY <3>2, <3>3
    <2> QED BY <2>1, <2>2 DEF IInv, Owned
  <1>10. EnterIsFree'
    BY <1>3, <1>4, <1>5, <1>6 DEF IInv, EnterIsFree, At, Port
  <1>11. Orphans' /\ Credited'
    BY <1>1, <1>3, <1>4, <1>5 DEF IInv, Orphans, Credited, CredentialsKnown, Port
  <1> QED BY <1>7, <1>8, <1>9, <1>10, <1>11 DEF IInv

\* The deferred Unlock: the handler's mutex is its own.
LEMMA ReturnKeepsIInv ==
    ASSUME IInv, NEW r \in Requests, Return(r)
    PROVE  IInv'
PROOF
  <1>1. /\ r \in DOMAIN requests /\ requests[r].at = "return"
        /\ requests' = Without(requests, {r})
        /\ lock' = [lock EXCEPT ![Port(r)] = NULL]
        /\ UNCHANGED <<running, processes, dirs, credentials, restarts>>
    BY DEF Return, At
  <1>2. /\ DOMAIN requests' = DOMAIN requests \ {r}
        /\ \A q \in DOMAIN requests' : requests'[q] = requests[q]
    BY <1>1 DEF Without
  <1>3. TypeOK'
    BY <1>1, <1>2 DEF IInv, TypeOK
  <1>4. Locked'
    <2> SUFFICES ASSUME NEW q \in DOMAIN requests', requests'[q].at # "waiting"
                 PROVE  lock'[Port(q)'] = q
      BY DEF Locked
    <2>1. q \in DOMAIN requests /\ q # r /\ requests[q].at # "waiting" /\ Port(q)' = Port(q)
      BY <1>2 DEF Port
    <2>2. lock[Port(q)] = q /\ Port(q) # Port(r)
      BY <1>1, <2>1, Exclusive DEF IInv, Locked
    <2> QED BY <1>1, <2>1, <2>2 DEF IInv, TypeOK
  <1>5. Owned'
    <2>1. \A q \in DOMAIN requests, id \in DOMAIN processes :
             Entering(q, id) => q \in DOMAIN requests' /\ Entering(q, id)' /\ Port(q)' = Port(q)
      BY <1>1, <1>2 DEF Entering, At, Port
    <2> QED BY <1>1, <2>1 DEF IInv, Owned
  <1>6. EnterIsFree' /\ Named' /\ Asked' /\ Orphans' /\ Credited'
    BY <1>1, <1>2 DEF IInv, EnterIsFree, Named, Asked, Orphans, Credited, CredentialsKnown, At, Port
  <1> QED BY <1>3, <1>4, <1>5, <1>6 DEF IInv

\* Processes go on to another state and stay what they are.
LEMMA StateChangeKeepsIInv ==
    ASSUME IInv, NEW id \in DOMAIN processes, processes[id].child,
           NEW state \in {"exited", "waited"},
           processes' = [processes EXCEPT ![id].state = state],
           UNCHANGED <<requests, lock, running, dirs, credentials, restarts>>
    PROVE  IInv'
PROOF
  <1>1. /\ DOMAIN processes' = DOMAIN processes
        /\ processes[id] \in Process
        /\ processes'[id] = [processes[id] EXCEPT !.state = state]
        /\ \A i \in DOMAIN processes \ {id} : processes'[i] = processes[i]
    BY DEF IInv, TypeOK, Process
  <1>2. /\ processes'[id] \in Process
        /\ processes'[id].port = processes[id].port
        /\ processes'[id].child = processes[id].child
    BY <1>1 DEF Process
  <1>3. TypeOK'
    BY <1>1, <1>2 DEF IInv, TypeOK, Process
  <1>4. Owned'
    <2>1. \A q, i : Entering(q, i)' <=> Entering(q, i)
      BY Zenon DEF Entering, At
    <2>2. \A q : Port(q)' = Port(q)
      BY DEF Port
    <2> QED BY <1>1, <1>2, <2>1, <2>2 DEF IInv, Owned
  <1>5. Locked' /\ EnterIsFree' /\ Named' /\ Asked' /\ Credited'
    BY DEF IInv, Locked, EnterIsFree, Named, Asked, Credited, CredentialsKnown, At, Port
  <1>6. Orphans'
    BY <1>1, <1>2 DEF IInv, Orphans
  <1> QED BY <1>3, <1>4, <1>5, <1>6 DEF IInv

\* A process disappears that no map entry stands for any more.
LEMMA ProcessGoneKeepsIInv ==
    ASSUME IInv, NEW id \in DOMAIN processes,
           processes' = Without(processes, {id}),
           \/ ~processes[id].child /\ running' = running
           \/ processes[id].child /\ running' = Without(running, {processes[id].port}),
           UNCHANGED <<requests, lock, dirs, credentials, restarts>>
    PROVE  IInv'
PROOF
  <1>1. /\ DOMAIN processes' = DOMAIN processes \ {id}
        /\ \A i \in DOMAIN processes' : processes'[i] = processes[i]
    BY DEF Without
  <1>2. /\ DOMAIN running' \subseteq DOMAIN running
        /\ \A p \in DOMAIN running' : running'[p] = running[p]
    BY DEF Without
  <1>3. TypeOK'
    BY <1>1, <1>2 DEF IInv, TypeOK
  <1>4. Owned'
    <2>1. \A q, i : Entering(q, i)' <=> Entering(q, i)
      BY Zenon DEF Entering, At
    <2>2. \A q : Port(q)' = Port(q)
      BY DEF Port
    <2>3. ASSUME NEW i \in DOMAIN processes', processes'[i].child
          PROVE  \/ /\ processes'[i].port \in DOMAIN running'
                    /\ running'[processes'[i].port] = i
                 \/ \E q \in DOMAIN requests : Entering(q, i)' /\ Port(q)' = processes'[i].port
      <3>1. i \in DOMAIN processes /\ i # id /\ processes'[i] = processes[i]
        BY <1>1
      <3>2. processes[id].child => processes[i].port # processes[id].port
        BY <2>3, <3>1, OneChild
      <3>3. CASE processes[i].port \in DOMAIN running /\ running[processes[i].port] = i
        BY <3>1, <3>2, <3>3 DEF Without
      <3>4. CASE \E q \in DOMAIN requests : Entering(q, i) /\ Port(q) = processes[i].port
        BY <2>1, <2>2, <3>1, <3>4
      <3> QED BY <2>3, <3>1, <3>3, <3>4 DEF IInv, Owned
    <2> QED BY <2>3 DEF Owned
  <1>5. Locked' /\ EnterIsFree' /\ Named' /\ Asked' /\ Credited'
    BY <1>2 DEF IInv, Locked, EnterIsFree, Named, Asked, Credited, CredentialsKnown, At, Port
  <1>6. Orphans'
    BY <1>1, <1>2 DEF IInv, Orphans
  <1> QED BY <1>3, <1>4, <1>5, <1>6 DEF IInv

\* Processes end, are waited for and are taken off the map.
LEMMA ProcessStepKeepsIInv ==
    ASSUME IInv, NEW id \in DOMAIN processes,
           ProcessExits(id) \/ WaitReturns(id) \/ HandleKillChan(id)
    PROVE  IInv'
PROOF
  <1>1. CASE ProcessExits(id) /\ processes[id].child
    BY <1>1, StateChangeKeepsIInv DEF ProcessExits
  <1>2. CASE ProcessExits(id) /\ ~processes[id].child
    BY <1>2, ProcessGoneKeepsIInv DEF ProcessExits
  <1>3. processes[id].state # "alive" => processes[id].child
    BY DEF IInv, Orphans
  <1>4. CASE WaitReturns(id)
    BY <1>3, <1>4, StateChangeKeepsIInv DEF WaitReturns
  <1>5. CASE HandleKillChan(id)
    BY <1>3, <1>5, ProcessGoneKeepsIInv DEF HandleKillChan
  <1> QED BY <1>1, <1>2, <1>4, <1>5

\* A handler kills the process of its port, which is a child of the slave.
LEMMA KillProcessKeepsIInv ==
    ASSUME IInv, NEW r \in Requests, KillProcess(r)
    PROVE  IInv'
PROOF
  <1>1. /\ r \in DOMAIN requests /\ requests[r].at = "kill" /\ GoTo(r, "destroy")
        /\ UNCHANGED <<lock, running, dirs, credentials, restarts>>
    BY DEF KillProcess, At
  <1>2. \A i \in DOMAIN processes : processes[i] \in Process
    BY DEF IInv, TypeOK, Process
  <1>3. SameProcesses
    <2>1. CASE UNCHANGED processes
      BY <1>2, <2>1 DEF SameProcesses
    <2>2. CASE /\ HasProcess(Port(r)) /\ running[Port(r)] \in DOMAIN processes
               /\ processes' = [processes EXCEPT ![running[Port(r)]].state = "exited"]
      <3> DEFINE id == running[Port(r)]
      <3>1. processes[id].child
        BY <2>2 DEF HasProcess, IInv, Orphans
      <3>2. /\ DOMAIN processes' = DOMAIN processes
            /\ processes'[id] = [processes[id] EXCEPT !.state = "exited"]
            /\ \A i \in DOMAIN processes \ {id} : processes'[i] = processes[i]
        BY <2>2
      <3>3. /\ processes'[id] \in Process
            /\ processes'[id].port = processes[id].port
            /\ processes'[id].child = processes[id].child
        BY <1>2, <2>2, <3>2 DEF Process
      <3> QED BY <1>2, <3>1, <3>2, <3>3 DEF SameProcesses
    <2> QED BY <2>1, <2>2 DEF KillProcess
  <1>4. "destroy" \in Places /\ dirs' \subseteq Ports \X Names /\ credentials' \subseteq Ports
    BY <1>1 DEF IInv, TypeOK, Places
  <1> QED BY <1>1, <1>3, <1>4, MovesOn

\* The handlers' other steps.
LEMMA MovesKeepIInv ==
    ASSUME IInv, NEW r \in Requests,
           \/ SetCredentials(r) \/ AlreadyRunning(r) \/ SpawnFails(r)
           \/ Configure(r) \/ KillFails(r) \/ Destroy(r)
    PROVE  IInv'
PROOF
  <1>1. r \in DOMAIN requests /\ requests[r].at \notin {"waiting", "enter"}
    BY DEF SetCredentials, AlreadyRunning, SpawnFails, Configure, KillFails, Destroy, At
  <1>2. UNCHANGED <<lock, running, processes, restarts>>
    BY DEF SetCredentials, AlreadyRunning, SpawnFails, Configure, KillFails, Destroy
  <1>3. SameProcesses
    BY <1>2 DEF SameProcesses, IInv, TypeOK, Process
  <1>4. requests[r] \in Request
    BY <1>1 DEF IInv, TypeOK, Request
  <1>5. Dir(r) \in Ports \X Names /\ Port(r) \in Ports
    BY <1>4 DEF Request, Dir, Port
  <1>6. /\ dirs' \subseteq Ports \X Names
        /\ credentials' \subseteq Ports /\ credentials \subseteq credentials'
    BY <1>5 DEF SetCredentials, AlreadyRunning, SpawnFails, Configure, KillFails, Destroy,
                IInv, TypeOK
  <1>7. CASE SetCredentials(r)
    <2> DEFINE place == CASE requests[r].goal = "running" -> "spawn"
                          [] requests[r].goal \in {"not_running", "destroyed"} -> "configure"
                          [] requests[r].goal = "force_destroyed" -> "kill"
                          [] requests[r].goal = "other" -> "return"
    <2>1. GoTo(r, place) /\ Port(r) \in credentials'
      BY <1>7 DEF SetCredentials
    <2>2. requests[r].goal # "initiate"
      BY <1>1, <1>7 DEF IInv, Asked, SetCredentials, At
    <2>3. place \in Places \ {"waiting", "credentials", "enter"}
      BY <1>4, <2>2 DEF Request, Goals, Places
    <2> HIDE DEF place
    <2> QED BY <1>1, <1>2, <1>3, <1>6, <2>1, <2>3, MovesOn
  <1>8. CASE ~SetCredentials(r)
    <2>1. PICK place \in {"configure", "return", "destroy"} : GoTo(r, place)
      BY <1>8 DEF AlreadyRunning, SpawnFails, Configure, KillFails, Destroy
    <2>2. place \in Places \ {"waiting", "credentials", "enter", "spawn"}
      BY DEF Places
    <2> QED BY <1>1, <1>2, <1>3, <1>6, <2>1, <2>2, MovesOn
  <1> QED BY <1>7, <1>8

\* After a restart nothing is left but orphans and directories.
LEMMA RestartKeepsIInv ==
    ASSUME IInv, Restart
    PROVE  IInv'
PROOF
  <1>1. DOMAIN <<>> = {}
    OBVIOUS
  <1>2. /\ DOMAIN requests' = {} /\ DOMAIN running' = {} /\ credentials' = {}
        /\ lock' = [p \in Ports |-> NULL] /\ dirs' = dirs
    BY <1>1 DEF Restart
  <1>3. restarts' \in 0 .. MaxRestarts
    BY MaxRestartsAssumption DEF Restart, IInv, TypeOK
  <1>4. /\ DOMAIN processes' \subseteq DOMAIN processes
        /\ \A id \in DOMAIN processes' :
              /\ processes[id].state = "alive"
              /\ processes'[id] = [processes[id] EXCEPT !.child = FALSE]
    BY DEF Restart
  <1>5. \A id \in DOMAIN processes' :
           processes'[id] \in Process /\ ~processes'[id].child /\ processes'[id].state = "alive"
    <2> SUFFICES ASSUME NEW id \in DOMAIN processes'
                 PROVE  /\ processes'[id] \in Process /\ ~processes'[id].child
                        /\ processes'[id].state = "alive"
      OBVIOUS
    <2>1. processes[id] \in Process
      BY <1>4 DEF IInv, TypeOK, Process
    <2> QED BY <1>4, <2>1 DEF Process
  <1>6. TypeOK'
    BY <1>2, <1>3, <1>4, <1>5 DEF IInv, TypeOK, Process
  <1>7. Locked' /\ Owned' /\ EnterIsFree' /\ Named' /\ Asked' /\ Orphans' /\ Credited'
    BY <1>2, <1>5 DEF Locked, Owned, EnterIsFree, Named, Asked, Orphans, Credited, CredentialsKnown
  <1> QED BY <1>6, <1>7 DEF IInv

\* Every step keeps the invariant.
LEMMA NextKeepsIInv == IInv /\ [Next]_vars => IInv'
PROOF
  <1> SUFFICES ASSUME IInv, [Next]_vars PROVE IInv'
    OBVIOUS
  <1>1. ASSUME NEW r \in Requests, NEW port \in Ports, NEW name \in Names, NEW goal \in Goals,
               Receive(r, port, name, goal)
        PROVE  IInv'
    BY <1>1, ReceiveKeepsIInv
  <1>2. ASSUME NEW r \in Requests, AcquireLock(r) PROVE IInv'
    BY <1>2, AcquireLockKeepsIInv
  <1>3. ASSUME NEW r \in Requests, HandlerStep(r) PROVE IInv'
    <2>1. CASE \E id \in ProcessIds : StartProcess(r, id)
      BY <2>1, StartProcessKeepsIInv
    <2>2. CASE EnterProcess(r)
      BY <2>2, EnterProcessKeepsIInv
    <2>3. CASE KillProcess(r)
      BY <2>3, KillProcessKeepsIInv
    <2>4. CASE Return(r)
      BY <2>4, ReturnKeepsIInv
    <2>5. CASE \/ SetCredentials(r) \/ AlreadyRunning(r) \/ SpawnFails(r)
               \/ Configure(r) \/ KillFails(r) \/ Destroy(r)
      BY <2>5, MovesKeepIInv
    <2> QED BY <1>3, <2>1, <2>2, <2>3, <2>4, <2>5 DEF HandlerStep
  <1>4. ASSUME NEW id \in DOMAIN processes,
               ProcessExits(id) \/ WaitReturns(id) \/ HandleKillChan(id)
        PROVE  IInv'
    BY <1>4, ProcessStepKeepsIInv
  <1>5. CASE Restart
    BY <1>5, RestartKeepsIInv
  <1>6. CASE UNCHANGED vars
    <2>1. UNCHANGED <<requests, lock, running, processes, dirs, credentials, restarts>>
      BY <1>6 DEF vars
    <2>2. \A q, i : Entering(q, i)' <=> Entering(q, i)
      BY <2>1, Zenon DEF Entering, At
    <2> QED BY <2>1, <2>2 DEF IInv, TypeOK, Locked, Owned, EnterIsFree, Named, Asked, Orphans,
                              Credited, CredentialsKnown, At, Port
  <1> QED BY <1>1, <1>2, <1>3, <1>4, <1>5, <1>6 DEF Next, Reaping

\* The invariant holds in every state the slave can reach.
THEOREM SlaveInvariantHolds == Spec => []IInv
PROOF
  BY InitIInv, NextKeepsIInv, PTL DEF Spec

\* The maps of the slave and the local variables of its handlers keep their types.
THEOREM SlaveTypeCorrect == Spec => []TypeOK
PROOF
  <1>1. IInv => TypeOK
    BY DEF IInv
  <1> QED BY <1>1, SlaveInvariantHolds, PTL

\* However the handlers and the ends of processes interleave, no port has two
\* running children of the slave: between StartProcess and EnterProcess the map does
\* not know of the process, but the port's mutex keeps other handlers out.
THEOREM PortsAreNotShared == Spec => []OneProcessPerPort
PROOF
  <1>1. IInv => OneProcessPerPort
    BY OneChild DEF OneProcessPerPort
  <1> QED BY <1>1, SlaveInvariantHolds, PTL

\* The credentials of every process in the map are known.
THEOREM RunningProcessesHaveCredentials == Spec => []CredentialsKnown
PROOF
  <1>1. IInv => CredentialsKnown
    BY DEF IInv, Credited
  <1> QED BY <1>1, SlaveInvariantHolds, PTL

\* A directory is only removed under the port's mutex and after a look at the map;
\* a live child of that port would be in the map, or its handler would hold the mutex.
LEMMA StepsKeepChildrensData ==
    ASSUME IInv, [Next]_vars, NEW id \in DOMAIN processes, Live(id), processes[id].child
    PROVE  ~RemovesDirOf(id)
PROOF
  <1> SUFFICES ASSUME RemovesDirOf(id) PROVE FALSE
    OBVIOUS
  <1> DEFINE dir == <<processes[id].port, processes[id].name>>
  <1>1. dir \in dirs /\ dir \notin dirs'
    BY DEF RemovesDirOf
  <1>2. PICK r \in Requests : Destroy(r)
    <2>1. ~(UNCHANGED dirs) /\ ~(dirs \subseteq dirs')
      BY <1>1
    <2> HIDE DEF dir
    <2>2. ASSUME NEW r \in Requests, NEW port \in Ports, NEW name \in Names,
                 NEW goal \in Goals, Receive(r, port, name, goal)
          PROVE  FALSE
      BY <2>1, <2>2 DEF Receive
    <2>3. ASSUME NEW r \in Requests, AcquireLock(r) PROVE FALSE
      BY <2>1, <2>3 DEF AcquireLock
    <2>4. ASSUME NEW r \in Requests, HandlerStep(r) PROVE Destroy(r)
      <3>1. ASSUME NEW i \in ProcessIds, StartProcess(r, i) PROVE FALSE
        BY <2>1, <3>1 DEF StartProcess
      <3> QED BY <2>1, <2>4, <3>1
                 DEF HandlerStep, SetCredentials, AlreadyRunning, SpawnFails,
                     EnterProcess, Configure, KillProcess, KillFails, Return
    <2>5. ASSUME NEW i \in DOMAIN processes,
                 ProcessExits(i) \/ WaitReturns(i) \/ HandleKillChan(i)
          PROVE  FALSE
      BY <2>1, <2>5 DEF ProcessExits, WaitReturns, HandleKillChan
    <2>6. ~Restart /\ ~(UNCHANGED vars)
      BY <2>1 DEF Restart, vars
    <2> QED BY <2>2, <2>3, <2>4, <2>5, <2>6 DEF Next, Reaping
  <1>3. /\ r \in DOMAIN requests /\ requests[r].at = "destroy"
        /\ Port(r) \notin DOMAIN running /\ dirs' = dirs \ {Dir(r)}
    BY <1>1, <1>2 DEF Destroy, At, HasProcess
  <1>4. processes[id].port = Port(r)
    BY <1>1, <1>3 DEF Dir, Port
  <1>5. PICK q \in DOMAIN requests : Entering(q, id) /\ Port(q) = Port(r)
    BY <1>3, <1>4 DEF IInv, Owned
  <1>6. q = r
    BY <1>3, <1>5, Exclusive DEF Entering, At
  <1> QED BY <1>3, <1>5, <1>6 DEF Entering, At

\* No interleaving of requests, ends of processes and restarts makes the slave remove
\* the directory of a running Mongod that it has started itself.
THEOREM ChildrensDataIsKept == Spec => ChildrenKeepData
PROOF
  <1>1. IInv /\ [Next]_vars =>
           [\A id \in DOMAIN processes : Live(id) /\ processes[id].child => ~RemovesDirOf(id)]_vars
    BY StepsKeepChildrensData
  <1> QED BY <1>1, SlaveInvariantHolds, PTL DEF Spec, ChildrenKeepData
=============================================================================
