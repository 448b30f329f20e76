# MAMID: a verification project

MAMID manages MongoDB replica sets. A **master** keeps slaves, replica sets, risk groups and Mongods in a
PostgreSQL database, decides which slave hosts which Mongod, and watches what really runs; a **slave** on
every machine starts, configures and destroys Mongod processes on the master's word. A **notifier** mails
problems. This directory holds TLA+ modules translated from that code, TLC configurations that check them
on small instances, and proofs that TLAPS checks for instances of every size.

## 1. The system

| Part | State it keeps | Operations | What is hard | What makes it correct |
|---|---|---|---|---|
| Database (`model/`, `model/sql/`) | slaves, replica sets, risk groups, Mongods with desired and observed states; three views | rows inserted, saved, deleted; referential actions | `mongods` has no UNIQUE constraint; `NOT IN` with NULL; cascades | no two rows for one Mongod, foreign keys |
| Cluster allocator (`master/cluster_allocator.go`) | none of its own; locals of one run | `CompileMongodLayout`, on a timer and inside API requests; `findUnusedPort` | an unbounded loop; counts read once; a panic outside of any `recover`; concurrent runs | members on different slaves and risk groups, no serving member lost, the status it sends is right, runs end and reach a fixed point |
| Master API (`master/masterapi/`) | none | put, update and delete of slaves, replica sets, risk groups; assignments | each handler ends in an allocator run and a commit that may fail | no request breaks the tables or forgets a Mongod |
| Monitor (`master/monitor.go`) | slaves it has asked | a tick asks every slave; answers are stored one transaction each | answers refer to rows read earlier; failed commits; entries without name | an observation changes the row it is about and no other |
| Bus, problem manager (`master/bus.go`, `problem_manager.go`) | reader channels; table of problems | broadcast; open and close problems | a full channel drops messages | an open problem is eventually closed |
| Deployer (`master/deployer.go`) | none; `replica_sets.initiated` | pushes desired states, one goroutine each; initiates replica sets | old pushes overtake new ones; requests and answers get lost | desired states are established in the end; nothing reconfigures a replica set but its primary, or takes the primary's data |
| Slave controller (`slave/controller.go`, `controller_synchronization.go`) | a mutex per port, credentials | establish a Mongod's state, initiate a replica set, report status | handlers race with each other and with ends of processes | one process per port, no data removed under a running Mongod, mutexes given back |
| Process manager (`slave/processmanager.go`, `procmgr_*.go`) | map of running processes, directories | spawn, kill, reap | a process may end before it is entered; the map is lost on a restart | the map tells what runs |
| Configurator (`slave/mongodconfigurator.go`, `mongodb.go`) | none; the replica set's configuration is in MongoDB | reconfigures from the primary, lets a primary step down, shuts removed members down, initiates | what it reads of a Mongod is old when it acts on it; members and primary wait for each other | it keeps MongoDB's rules for ids of members and harms no serving member |
| MSP (`msp/`) | none | status, establish state, initiate | errors that become empty answers | a status tells what is there |
| Notifier (`notifier/`) | the problems it has notified, in memory | polls problems, mails new ones to every contact | failed polls and mails, restarts | everyone is told of every problem, once |
| Web interface (`gui/`) | none | shows and edits over the API | | not modelled |

How they interact: API handlers, the allocator's timer and the monitor change the database, each in a
transaction. API handlers call the allocator inside their transaction. The allocator and the monitor send
statuses and mismatches on the bus; the deployer reads mismatches and sends requests to slaves (MSP, JSON over
HTTPS); the problem manager reads statuses; the monitor asks slaves for their status. On the slave, each
request is a goroutine; the busy table serialises those of one port; a goroutine per process waits for
its end and tells the goroutine of `Run` through a channel.

## 2. Modules

| Module | Models | Uses |
|---|---|---|
| `PortScan` | `findUnusedPort`, statement by statement | |
| `MamidDB` | tables, views, referential actions, as operators over a record of tables | |
| `ClusterAllocator` | `CompileMongodLayout` and its periodic run | `MamidDB` |
| `MasterAPI` | the handlers that change the database | `ClusterAllocator` |
| `Monitor` | the tick and all that `handleObservation` writes | `ClusterAllocator` |
| `Master` | API, allocator and monitor on one database | `MasterAPI`, `Monitor` |
| `Bus` | the message bus | |
| `ProblemManager` | the table of problems and the statuses that open and close them | `Bus` |
| `SlaveController` | controller, busy table and process manager of a slave | |
| `Races` | two transactions of the master open at once | `Master` |
| `ReplicaSetContract` | abstract: what may happen to a replica set's configuration and primary | |
| `MongodConfigurator` | what slaves do to the Mongods of a replica set, and MongoDB itself | |
| `Deployer` | the loop of monitor, deployer and slaves around one replica set of the master; implements `ReplicaSetContract` | `MongodConfigurator`, `ReplicaSetContract` |
| `Notifier` | the notifier | |
| `PortScan_proofs`, `Master_proofs`, `SlaveController_proofs`, `ProblemManager_proofs`, `Deployer_proofs`, `Notifier_proofs` | theorems | the module named |
| `Allocator_proofs` | theorems about one run of the allocator within `Master` | `Master_proofs`, `PortScan` |
| `MCPortScan`, `MCAllocator`, `MCMaster`, `MCRaces`, `MCSlaveController`, `MCProblemManager`, `MCDeployer` | instances for TLC | the module named |

Definitions marked "Mutant" are copies of a definition with a plausible bug. No specification uses them; each
shows that a property is able to fail.

**PortScan.** Variables are those of the function, `pc` tells the loop. Used ports are any sorted
list, duplicates included: the query orders them, and nothing makes them distinct.

**MamidDB.** A database is a record of four tables; rows are keyed by what identifies them in the code
(hostname, replica set name, id of a Mongod). A Mongod and its two states are one row: `desired`,
`observed` (NULL: never observed) and `error` (an observation error is linked). `EffectiveMembers`,
`ConfiguredMembers`, `FreeMongods` and `LessUtilized` are the views; `SQLNotIn` has SQL's three-valued
meaning. Ids of deleted rows are used again, which keeps the table bounded; no reference outlives its row.

**ClusterAllocator.** `db` is the committed database, `work` the open transaction's view. `BeginWith` opens
a transaction, `Cleanup` marks orphans and removes destroyed Mongods, `RemoveExcess` handles one row of the
excess query, `SpawnMongod`, `FlagUnsatisfiable`, `SpawnPanics` and `FinishPass` are the turns of the repair
loop, `Commit` and `CommitFails` end it. Queries that leave their order open are nondeterministic choices.
`FindUnusedPort` states what `PortScan` computes (proved in `PortScan_proofs`: the lowest free port if no
port below it is used twice, else none; that the two definitions agree is proved in `Allocator_proofs`).

**MasterAPI, Monitor, Master.** One action per handler, guards from its checks; each handler that
calls the allocator continues with the allocator's steps in the same transaction. The monitor reads the
slaves at `MonitorTick`, and answers arrive in any order and interleave with everything else; a slave may have been changed,
renamed or deleted since. What a slave reports is any member of `Reports`. gorm's behaviour is modelled
where it matters: zero values drop out of conditions, and saving a blank association changes nothing.

*One abstraction to know about:* in `Master`, transactions run one at a time. The code uses PostgreSQL's READ
COMMITTED, and only the monitor's own transactions follow each other, so allocator runs may overlap. What is shown about
`Master` holds for one transaction at a time; `Races` shows what is lost without that.

**Races.** Any transaction of `Master` that has only inserted rows may linger before its commit (`Linger`) while
everybody else goes on without seeing its rows, and be committed later (`LateCommit`) if names are still free and the
rows it refers to are still there. Transactions that update or delete rows hold locks for which others wait, and are
not split here; this makes `Races` an under-approximation of READ COMMITTED, good for showing what can go wrong only.

**Bus, ProblemManager.** A channel is a sequence of at most `Capacity` messages. `selects` is what `Run` has
collected for its `select`; a channel registered later is not in it until an interrupt (`Interrupt`) makes `Run` collect again.
`Receive` is one turn of `Run`: it hands a message to all readers and drops it for those that are full.
`Setup` registers the components in the order of `main`, while the senders already run. `world` stands for what is wrong with a
slave or replica set; `Observe` reads it for one status, `SendStatus` sends it later, `Handle` opens or closes
the problem. The allocator sends before it commits, so `ObserveUncommitted` sends what may never be true. Descriptions and times
of problems are left out, and so are the messages that only the deployer uses: all they do here is to take room in channels.

**SlaveController.** `requests` holds the handlers at work and where they are, `lock` the busy table, `running`
the map of the process manager, `processes` the processes themselves: alive, exited (a zombie, or
`Wait` has not returned), or waited for (the port is on its way through `killChan`). `child` tells whether
this instance of the slave has started the process. `StartProcess` and `EnterProcess` are separate steps,
because the goroutine that waits for the process runs in between. `Restart` empties what is in memory; Mongods
and directories stay. What the configurator does is left out here: it may make a Mongod end, as anything else may.

**MongodConfigurator, Deployer.** One replica set of the master, each Mongod on a slave of its own.

- *The world.* `processes` are the Mongods that run, `entry` is what the slave's process manager has in its map about each: the process that runs, one that has
  ended and is not reaped, or nothing; `HasProcess` asks the map, as the code does, and `Restart` of a slave empties it while the Mongods go on. `data` is what a
  directory holds: nothing, a fresh Mongod's files, or the data of a member of one of `Sets`. These are the replica sets that `replSetInitiate` makes: nothing in the code
  keeps a second initiation from making another one of the same name, so there may be several at once, each with its configuration (the `_id` of each member) and its primary. A name in
  `Sets` may be used again once nobody has its data.
- *MongoDB* (`Elect`, `Learn`, `Thaw`, `LoseMajority`, `Starve`, what it accepts and refuses) is external and modelled from how the configurator uses it. All members of a set know
  its configuration at once; a reconfiguration is accepted from a primary whose read of the configuration is still the latest and that reaches a majority
  of the new list. A member of another set of that name does not count as reached. A Mongod whose files were removed goes on for a while, as primary too (`Starve` ends it).
- *Versions.* A version is one more than the one that was read, and MongoDB refuses it unless it is higher than the latest. A push therefore keeps the configuration it
  has read, and a reconfiguration by anybody else makes that read outdated (`Outdate`); a number would say no more.
- *A push* is a goroutine of the deployer and, once sent, the slave's handler: it reads the row (`ReadState`), then the members (`ReadMembers`), may be lost (`PushLost`), and waits for the
  mutex of its port. For a Mongod that is to run the handler spawns it, asks `isMaster`, reads the configuration and reconfigures in four steps; for one that is to be destroyed it asks `isMaster`
  and `replSetGetStatus` and then acts on what it has read (`Shutdown`, `StepDown`, `AwaitRemoval`), and destroys. Other handlers, MongoDB and the end of the process come in between.
- *Initiations* are goroutines too, one for each status message, several at once (`Initiations`); a status may be old. `BeginInitiation` to `StoreInitiated` are `handleReplicaSetInitiationStatus`.
- *Monitor and allocator.* `Ask` and `Store` are the monitor; a status error, which the listener turns into an empty list, is one outcome of `AskFails`. `Spawn`, `Condemn` and `RemoveRow` are the
  decisions of the allocator that matter here. `Condemn` asks for some effective member and may take any: excess is counted per kind of storage and the API checks
  the sum of the counts only, so changing a replica set from (1, 0) to (0, 1) condemns the only serving member at once.

Names of replica sets are left out: an unknown Mongod that is reported without name takes a second row before its directory goes, here it takes one. The master's replica set is not deleted and made anew here.

**Notifier.** `lastProblems` is the map of that name, `toNotify` what is left of the slice that `diffProblems` returns, `contact`
the index of `sendMailToContacts`. `mailed`, `failed`, `again` and `forgotten` record what happened; no guard reads them.

## 3. Runs

| Run | Instance | Shows |
|---|---|---|
| `port_scan` | every sorted list of at most 4 of 5 ports, every range | the result, for full, empty and doubly used ranges, and termination |
| `master_ports` | 1 slave, 3 ports, 2 replica sets | uniqueness of rows, one member per slave, panics only over a doubly used port, rows go only for a reason |
| `allocator` | 22500 databases of 3 slaves, both kinds of storage, and one with a doubly used port | shrinking costs no needed serving member, new members are separated, statuses are exact and explained, runs end, the layout becomes stable |
| `problems` | 1 replica set with statuses of allocator and monitor, channels of capacity 1, 1 disturbance | no registration is missed by the bus, senders are not blocked for good, problems have subjects and settle |
| `slave` | 2 requests, 1 port, 2 names, 3 processes, 1 restart | one child per port, data kept, credentials known, mutexes given back |
| `deployment` | 2 Mongods, 2 ids, 2 pushes and 2 initiations at once, 2 sets, 3 decisions | the contract of a replica set, its primary, while pushes and initiations overtake each other |
| `convergence` | 2 Mongods, 1 push and 1 initiation at a time, 3 decisions, 1 fault (a restart of a slave among them) | the primary under faults; desired states are established for good, or the code has no way out |
| `notifier` | 3 problems, 2 contacts, 2 faults | who is told, and how often |
| `no_panic` | as `master_ports` | a disagreement between master and comments, section 6 |
| `races` | 1 slave with 1 port, 1 replica set, 2 transactions | two rows for one Mongod, section 6 |
| `stale_push` | as `deployment`, without faults | a member that is shut down, section 6 |
| `slave_forgets` | as `slave`, with one name | a disagreement between slave and test, section 6 |

**Bounds.** `MongodIds`, `MaxObserved`, `MaxMembers`, `MaxUsed`, `ProcessIds`, `MaxRestarts`, `Capacity`, `MaxDisturbances`, `Pushes`, `Initiations`, `Sets`, `MaxFaults`, `MaxChanges`, `MaxProblems` and the sets of posted slaves,
counts and reports are the bounds. They are chosen so that the
interesting cases happen: three ports let two replica sets, an unknown Mongod and a free port meet on a
slave; three slaves are needed where a choice of the removal and
a choice of the repair could undo each other. For the slave, two requests are enough for every race of two
handlers, one name more than ports makes them fight over directories, and a third process lets an old
end meet a newer process. For the bus, a capacity of one makes every channel full at once; one disturbance is a change, a
deletion, a rolled back run or a failed commit, at any moment between the statuses. For the deployer, two Mongods are enough for a member
that is removed by another, a primary that has to step down first, and a member that comes back under the same port; three decisions let a member come,
go and come again, or a replica set change its storage; two pushes overtake each other, two initiations make two sets. A fault is a lost request or answer, a crash, a restart of a slave, a failed
start or a wrong report at any moment. In `master_ports` a report names a running Mongod or is an error; its other states, all of them neither running nor destroyed, are
left to the theorems, as no property tells them apart. Three problems and two contacts let a problem be closed
while another is mailed, and two faults let a failed mail meet a failed poll or a restart. The theorems of section 5 do not depend on the bounds;
`ImplementsContract` with faults is left to them. Mongods, sets, pushes and
initiations are interchangeable in `deployment` (`Symmetry`); no liveness is checked there.

**Fairness.** `CompileStep` is weakly fair in `MCAllocator`: a run is sequential code without waiting. `Next` is
weakly fair in `PortScan` for the same reason. In `SlaveController` every handler that holds its mutex, and the
goroutines that reap processes, are weakly fair: goroutines that can go on do go on, and the configurator has
timeouts. Nothing is assumed about who gets a mutex, about requests, or about processes ending.
In `Bus`, receiving from a channel is strongly fair, because `reflect.Select` chooses at random among the channels that are ready. In
`ProblemManager` the observation of each subject is strongly fair (every round of monitor and allocator comes to every
row), and sending, handling and setting up are weakly fair; nothing is assumed of the deployer.
In `Deployer` goroutines, the reaping of processes, MongoDB's heartbeats and elections are weakly fair, and what waits for a mutex or for the monitor's next round is
strongly fair: mutexes of Go are handed over in order, and every round asks every slave. Faults and decisions are not fair, and end with their bounds.
That every end of a process is noticed is what `slave_forgets` denies for one that ends before it is entered; `Deployer` leaves that case to `SlaveController`.
In `Notifier` the loop of `main` is weakly fair. Deadlock checking is off for
`port_scan`, because the function returns, and for `problems`, because nothing is left to report once every subject is deleted.

## 4. Properties and the hazards they are for

`PROJECT.json` lists hazards line by line. In short: the *missing UNIQUE constraint* (`MongodIdentityUnique`,
`PanicMeansPortConflict`, `NoPanic`, `ResultCorrect`, `NotFoundMeansFull`); *counts and lists read once and used later* (`ExcessKeepsEnough`,
`DegradedIsReported`, `UnsatisfiedExplained`); *queries that must not forget members on their way out* (`NewMembersSeparated`,
`OneMemberPerSlave`); *forgetting a Mongod that may run* (`RowsDoNotVanish`);
*loops without bounds* (`RunTerminates`, `LayoutStabilises`, `Terminates`); *handlers racing with ends of processes and with each other*
(`OneProcessPerPort`, `ChildrenKeepData`, `CredentialsKnown`, `ExitedProcessesAreForgotten`); *error paths
under a mutex* (`MutexesAreReleased`); *late, stale and dropped messages* (`ProblemsSettle`,
`ProblemsHaveSubjects`, `SendersAreNotBlocked`, `WritersAreHeard`); *concurrent transactions* (`MongodIdentityUnique` in `races`); *pushes and initiations that overtake each other, and act on what they read
earlier* (`ImplementsContract`, `PrimaryServes`, `ShutDownWasRemoved`); *a slave that has forgotten its processes* (`PrimaryServes`, `ChildrenKeepData`); *members and primary that wait for each other* (`Converges`);
*failed polls and mails* (`NotifiedOnce`, `RememberedWereMailed`, `EveryoneIsTold`).

`Converges` names the states for which the code has no way out, each an allowed end of a behaviour:

- `NobodyTakesOver`: the only member with data is to be destroyed. It is primary and nobody else could be, so it does not step down; the Mongod that is to replace it is told its members, but is no
  primary and adds nobody. This is where (1, 0) to (0, 1) leads.
- `MajorityLost`: a member that is to be destroyed and crashes loses its data while it still counts.
- `AllDataLost`: the replica set counts as initiated, its last data is gone (a restart and a stale or an intended destruction), and nothing initiates it again.
- `Split`: two initiations at once have made two sets. It takes two `Initiations`, hence it is reached in `deployment` and not in `convergence`.

Within `Converged`, `NeverJoined` is a Mongod that is to be destroyed before it has ever joined: `replSetGetStatus` fails on it, nothing shuts it down, and its data is kept.
TLC reaches the first three in `convergence`. `PrimaryServes` has the exception of section 6 for slaves that were restarted. `ProblemsSettle` excludes behaviours in which the problem manager loses messages forever:
the code cannot promise anything then, as a status may be the one that is dropped every time.

## 5. Proofs

All theorems hold for every value of the constants that satisfies the named assumptions (NULL is none of the
names, ports are an interval of numbers, ids a finite set of numbers, reports well typed).

**`PortScan_proofs`.** `TypeCorrect`, `FindUnusedPortCorrect` (`ResultCorrect`) and `NotFoundOnlyWhenFull`
(`NotFoundMeansFull`). The invariant says that either every port passed so far is used exactly once, or the
scan has fallen behind a doubly used port and will never find one.

**`Master_proofs`.** `IInv` asks of both `db` and `work` that they are `Sound` (types and foreign keys, unique
identity, one member per slave), types the locals, and says in `Transaction` what the open
transaction may have removed. The properties are not inductive for `db` alone, because a commit replaces it
by `work`. From `IInv`: `TypeCorrect`, `MongodsIdentified`, `MembersOnDifferentSlaves`,
`MongodsAreNotForgotten` (`RowsDoNotVanish`) and `RepairSeparatesMembers` (`NewMembersSeparated`).
`PanicNeedsPortConflict` adds a pigeonhole argument: without doubly used ports, a positive `free_mongods`
leaves a port that the scan finds. `StatusIsRight` (`DegradedIsReported`) adds the invariant `Aside`: what
the two lists of unsatisfiable replica sets mean during either pass of the repair.

**`SlaveController_proofs`.** The core of its `IInv` is `Owned`: a child that has not been reaped is the
map's entry for its port, or the handler that started it is about to enter it, and holds the mutex
(`Locked`). Hence `PortsAreNotShared` (`OneProcessPerPort`) and `ChildrensDataIsKept` (`ChildrenKeepData`): the one
handler that may remove a directory sees every child of its port in the map. `EnterIsFree`, `Named`, `Asked`,
`Orphans` and `Credited` make it inductive; the last gives `RunningProcessesHaveCredentials`. `SlaveTypeCorrect` is
the type invariant.

**`Allocator_proofs`.** Two results about one run of the allocator, from every database that API, monitor and earlier runs can bring about, and one about its helper.

- `EnoughMembersAreKept` (`ExcessKeepsEnough`). The excess of all replica sets is counted by one query, and members are marked row by row afterwards. The invariant `KInv`
  says that the counts of the rows that are left are still right in the transaction's view, that a replica set from which a member was taken has enough, and (`Inherits`) that a
  row of `mongods` still serves the replica set and the storage it had when the transaction began, or none. The last is owed to the API: `RequestInherits` goes through its handlers,
  and `changeToSlaveAllowed` is needed, since a slave whose storage changes under its Mongods would move members from one count to the other.
- `UnsatisfiedHasCause` (`UnsatisfiedExplained`). A replica set is set aside when the query finds no slave; what is sent is sent later, after slaves were filled for others and in the
  other pass. `QueryMisses` says what an empty answer of the query means, `SpawnFreesNoSlave` that a spawned Mongod makes no slave suitable again, and `Explained`, together with
  `Aside`, carries the reason to the end of the run.
- `PortScanFindsUnusedPort`: if the answer of the ports query has one row for every Mongod of the slave, the loop's result (`ResultCorrect` of `PortScan`, which `PortScan_proofs` proves) is the result
  that `ClusterAllocator` takes.

**`ProblemManager_proofs`.** `NoProblemWithoutSubject` (`ProblemsHaveSubjects`), which is inductive by itself: a
deletion cascades to problems, and a foreign key refuses late ones. `NoLostInterrupt` (`WritersAreHeard`): whenever the bus waits in a `select` that misses a registered
channel, the writer has still to send its interrupt or the interrupt is in the internal channel. `ProblemManagerTypeCorrect` is the type invariant, with the capacities of channels.

**`Deployer_proofs`.** `DeployerImplementsContract` (`ImplementsContract`): initial states map to initial states, and every step of allocator, monitor,
deployer, slaves or MongoDB is a step of `ReplicaSetContract` for one of the sets or leaves configurations and primaries alone. `PrimaryIsServing` (`PrimaryServes`) and
`DeployerTypeCorrect` come from the same invariant `Inv`, for any number of Mongods, sets, pushes, initiations, faults and restarts:

- `PrimaryServes`, `IdsDiffer` (members have different ids) and `OnePrimary` (a Mongod is primary of one set at most). The last is needed because `ProcessEnds` and
  `StepDown` are about a Mongod while a reconfiguration is about a set.
- `OneHandler`: the mutex of a port has one holder. A handler that has read the configuration of its Mongod's set relies on no other handler having removed that Mongod's data since.
- `FreshReads`: a configuration that a push holds is that of its Mongod's set now, or counts as outdated. Between `replSetGetConfig` and `replSetReconfig` other pushes reconfigure, other members
  are elected, and processes crash; the ids that the handler computes from its read are right for the present configuration only because of this.

A reconfiguration needs all of them: the primary, which is a member, stays in the list, and new ids differ from those that are kept because those differed before.
`MembersListCorrect` states what `updateMembersList` returns for every configuration and every list.

**`Notifier_proofs`.** `SecondMailNeedsForgetting` (`NotifiedOnce`), `MissingMailNeedsFailure` (`RememberedWereMailed`) and
`NotifierTypeCorrect`. The invariant adds that a problem somebody was mailed about is remembered, forgotten or closed for good (`MailedAreKnown`; ids are not used
again), and that of the last poll's problems nobody was mailed, except about the first the contacts before the current one (`InOrder`).

**Only model-checked.** The liveness properties (`RunTerminates`, `LayoutStabilises`, `Terminates`, `MutexesAreReleased`,
`SendersAreNotBlocked`, `ProblemsSettle`, `Converges`, `EveryoneIsTold`), which are out of the prover's reach. Every invariant and every action property
of the passing runs is proved.

## 6. Where the code and its words disagree

- `no_panic`: two rows with one port make the allocator panic ("the queries should have not returned a slave
  without free ports"). The rows arise when a slave reports a Mongod of another replica set on a port in use. The
  loop invariant written in `findUnusedPort` fails for the same lists.
- `races`: the periodic run of the allocator and one inside an API request, in concurrent transactions, spawn the same
  member; the table gets two rows for one Mongod ("TODO missing UNIQUE constraint"), of which only the first is ever observed, and
  the list of members names its host twice. The monitor's care that "all transactions happen after eachother" is the monitor's only.
- `stale_push`: the handler of a member reads that it was removed; an older push, overtaken by a newer one, reaches the primary and
  adds it again; the handler shuts it down and destroys its data ("Mongod was removed by the primary so it can be shut down").
- `slave_forgets`: a process that ends before it is entered in the map stays there, and its Mongod is not
  spawned again.

Seen on the way and not checked by a run of its own:

- The comment on the allocator's clean-up says that Mongods to be destroyed go when they are observed destroyed "OR no observed state" (`cluster_allocator.go:159`);
  its statement (`161-177`) joins the observed states and takes the former only. `RowsDoNotVanish` says what the statement does: a row that was never observed stays.
- Two initiations at once, or a second one after the answer to the first was lost and its members have been replaced, make two replica sets of one name; `deployer.go:30` starts a goroutine for
  every status. The two take no members of each other (`Split`). For this reason the contract does not say that there is one replica set.
- A replica set that changes its storage kind with one member, (1, 0) to (0, 1), loses its way (`NobodyTakesOver`): the allocator counts excess per kind (`cluster_allocator.go:186-252`) and the API
  asks for a positive sum only (`replicaSets.go:353`).
- A disabled slave is deleted with its Mongods (`slaves.go:282`), which a comment of the allocator excludes ("only slaves without
  Monogds can be deleted from the DB"). They may run on, and nobody knows of them; `RowsDoNotVanish` says that this needs a slave that was disabled.
- One member on a slave without risk group makes all slaves with a risk group unsuitable: `NOT IN` with NULL. `UnsatisfiedExplained`
  states what the code means by unsatisfiable, with this exception.
- After a restart, a slave removes the data of Mongods that its former instance started and that still run ("Destroy data when process is not running anymore", `controller.go:144`),
  a primary's too; `HasProcess` looks into a map that the restart has emptied. `ChildrenKeepData` is therefore about children of the present instance, and `PrimaryServes` allows a primary without
  files if the slave does not hold it for its child.
- A Mongod that was never a member is not shut down when it is to be destroyed, and a member that crashes after the decision to destroy it loses
  its data before it is removed, which may cost the majority; both are named where `Converges` is stated.
- A failed mail is not tried again, and contacts after the failing one are not told.
- The maps of credentials and processes are shared by all ports while the mutexes are per port ("protected by busyTable"), a data race
  below the grain of the model; `changeToSlaveAllowed` allows more than "changes to both observed and desired disabled slaves"; the first desired
  member may be asked to initiate although others are not reachable yet, which fails and is tried again with every round.

## 7. Not modelled

Reading handlers of the API; sharding roles, votes and priorities of members; the global secrets, the administrative user and
certificates; `KillProcesses` (called by tests only); command lines, keyfiles and the version check (I/O without state of interest); the shutdown for maintenance
(`not_running` is never desired); JSON and HTTPS; files of the notifier and the wording of mails; the migration of the database; the web interface
(presentation). HTTP and SMTP clients that hang for good: the notifier's have no timeout, and `EveryoneIsTold` takes every
poll and mail to end, with success or failure. `problems` has keys of replica sets only; problems of connections to slaves are handled by the same code. The monitor's `Save` of columns read earlier (`monitor.go:292`) may undo a decision of the allocator that was committed in between; the code says
so itself, the next run of the allocator decides again, and the modules store an observation in one step. Heartbeats that lag behind (a member that has not heard of its removal yet) are not told apart.
The migration commits the schema and then writes its version (`db.go:274`); a master that stops in between refuses the database from then on ("Idempotently migrate",
`db.go:253`). The modules start after it.

## 8. Plan

1. Proofs: the safety core of `RunTerminates` (every turn of the repair adds a member or sets a replica set aside), and of `LayoutStabilises` (a run on a layout without excess and without lack changes nothing).
2. `Races` with transactions that update and delete, and the locks they wait for; the `Save` of the monitor.
3. Names of replica sets in `Deployer`, so that replica sets of the master are deleted and made anew under the same name while old requests are on their way.
