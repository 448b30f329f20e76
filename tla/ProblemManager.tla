--------------------------- MODULE ProblemManager ---------------------------
(***************************************************************************)
(* Problems (master/problem_manager.go), opened and closed by the statuses *)
(* that the monitor and the cluster allocator send over the bus again and  *)
(* again.  A status is about a subject, a slave or a replica set, and says *)
(* whether something is wrong with it; world tells what is wrong in the    *)
(* database and at the slaves while the messages are on their way.         *)
(* Messages that only the deployer uses are left out; all they do here is  *)
(* to take room in the channels.                                           *)
(***************************************************************************)
EXTENDS Bus

CONSTANTS
    Slaves, ReplicaSets,
    MaxDisturbances,     \* bound on all that happens beside the statuses
    NULL

ASSUME MaxDisturbancesAssumption == MaxDisturbances \in Nat
ASSUME WritersAssumption == Writers = {"allocator", "monitor"}
ASSUME ReadersAssumption == Readers = {"deployer", "problems"}

VARIABLES
    world,               \* for each type and subject that exists: is there a problem?
    problems,            \* the table: type and subject of the open ones
    held,                \* the status that a writer is about to send
    disturbances

vars == <<busVars, world, problems, held, disturbances>>

\* ProblemType and the subject's id.
Keys == ({"connection"} \X Slaves) \cup ({"desired", "observed"} \X ReplicaSets)

KeysOf(subject) == {key \in Keys : key[2] = subject}

\* Who sends the statuses of a type.
SenderOf(key) == IF key[1] = "desired" THEN "allocator" ELSE "monitor"

Status == [key : Keys, wrong : BOOLEAN]

Init ==
    /\ BusInit
    /\ \E subjects \in SUBSET (Slaves \cup ReplicaSets) :
          world \in [UNION {KeysOf(s) : s \in subjects} -> BOOLEAN]
    /\ problems = {}
    /\ held = [w \in Writers |-> NULL]
    /\ disturbances = 0

Disturb == /\ disturbances < MaxDisturbances
           /\ disturbances' = disturbances + 1

\* The order in which main sets the components up; the senders start at once.
Setup ==
    /\ \/ GetNewWriteChannel("allocator")
       \/ Registered("allocator") /\ GetNewWriteChannel("monitor")
       \/ \E w \in Writers : Interrupt(w)
       \/ Registered("monitor") /\ GetNewReadChannel("deployer")
       \/ "deployer" \in DOMAIN readChannels /\ GetNewReadChannel("problems")
    /\ UNCHANGED <<world, problems, held, disturbances>>

-----------------------------------------------------------------------------
(* The senders.                                                             *)

\* In its turn, a subject's row is read and its state is found out.
Observe(key) ==
    /\ key \in DOMAIN world
    /\ Registered(SenderOf(key)) /\ held[SenderOf(key)] = NULL
    /\ held' = [held EXCEPT ![SenderOf(key)] = [key |-> key, wrong |-> world[key]]]
    /\ UNCHANGED <<busVars, world, problems, disturbances>>

\* The allocator sends before its transaction is committed: when the commit fails,
\* the status is about a layout, perhaps a replica set, that never came to be.
ObserveUncommitted(key, wrong) ==
    /\ Disturb
    /\ SenderOf(key) = "allocator"
    /\ Registered("allocator") /\ held["allocator"] = NULL
    /\ held' = [held EXCEPT !["allocator"] = [key |-> key, wrong |-> wrong]]
    /\ UNCHANGED <<busVars, world, problems>>

SendStatus(w) ==
    /\ held[w] # NULL
    /\ Send(w, held[w])
    /\ held' = [held EXCEPT ![w] = NULL]
    /\ UNCHANGED <<world, problems, disturbances>>

-----------------------------------------------------------------------------
(* The readers.                                                             *)

\* Mutant: nothing closes a problem.
HandleNeverCloses ==
    /\ Take("problems")
    /\ LET status == Head(readChannels["problems"])
       IN  problems' = IF status.wrong /\ status.key \in DOMAIN world
                       THEN problems \cup {status.key}
                       ELSE problems
    /\ UNCHANGED <<world, held, disturbances>>

\* Mutant: the table problems has no foreign keys.
HandleNoKeys ==
    /\ Take("problems")
    /\ LET status == Head(readChannels["problems"])
       IN  problems' = IF status.wrong THEN problems \cup {status.key}
                       ELSE problems \ {status.key}
    /\ UNCHANGED <<world, held, disturbances>>

\* FirstOrCreate, whose row a foreign key refuses at the commit when the subject is
\* gone, or Delete.
Handle ==
    /\ Take("problems")
    /\ LET status == Head(readChannels["problems"])
       IN  problems' = CASE status.wrong /\ status.key \in DOMAIN world
                               -> problems \cup {status.key}
                         [] status.wrong /\ status.key \notin DOMAIN world -> problems
                         [] ~status.wrong -> problems \ {status.key}
    /\ UNCHANGED <<world, held, disturbances>>

\* The error of the commit is ignored.
HandleFails ==
    /\ Disturb
    /\ Take("problems")
    /\ UNCHANGED <<world, problems, held>>

\* The deployer has its own use for statuses.  It may be slow.
DeployerReads ==
    /\ Take("deployer")
    /\ UNCHANGED <<world, problems, held, disturbances>>

-----------------------------------------------------------------------------
(* The world.                                                               *)

WorldChanges(key) ==
    /\ Disturb
    /\ key \in DOMAIN world
    /\ world' = [world EXCEPT ![key] = ~@]
    /\ UNCHANGED <<busVars, problems, held>>

\* ON DELETE CASCADE.
SubjectDeleted(subject) ==
    /\ Disturb
    /\ KeysOf(subject) \cap DOMAIN world # {}
    /\ world' = [key \in DOMAIN world \ KeysOf(subject) |-> world[key]]
    /\ problems' = problems \ KeysOf(subject)
    /\ UNCHANGED <<busVars, held>>

-----------------------------------------------------------------------------

Next ==
    \/ Setup
    \/ BusStep /\ UNCHANGED <<world, problems, held, disturbances>>
    \/ \E key \in Keys : Observe(key)
    \/ \E key \in Keys, wrong \in BOOLEAN : ObserveUncommitted(key, wrong)
    \/ \E w \in Writers : SendStatus(w)
    \/ Handle \/ HandleFails
    \/ DeployerReads
    \/ \E key \in Keys : WorldChanges(key)
    \/ \E subject \in Slaves \cup ReplicaSets : SubjectDeleted(subject)

\* Every round of the monitor and of the allocator has every subject's turn, and
\* the problem manager reads on.  Nothing is assumed of the deployer.
Spec == /\ Init /\ [][Next]_vars
        /\ BusFairness /\ WF_vars(Setup)
        /\ \A key \in Keys : SF_vars(Observe(key))
        /\ \A w \in Writers : WF_vars(SendStatus(w))
        /\ WF_vars(Handle)

-----------------------------------------------------------------------------
(* Properties.                                                              *)

\* Readers are sent statuses and nothing else, not the interrupts by which the bus hears
\* of new channels; tables and channels have their types.
TypeOK ==
    /\ DOMAIN writeChannels \subseteq Writers /\ DOMAIN readChannels \subseteq Readers
    /\ \A w \in DOMAIN writeChannels :
          /\ Len(writeChannels[w]) <= Capacity
          /\ \A i \in 1 .. Len(writeChannels[w]) : writeChannels[w][i] \in Status
    /\ \A r \in DOMAIN readChannels :
          /\ Len(readChannels[r]) <= Capacity
          /\ \A i \in 1 .. Len(readChannels[r]) : readChannels[r][i] \in Status
    /\ registering \subseteq DOMAIN writeChannels
    /\ selects \subseteq DOMAIN writeChannels
    /\ internalChannel \in 0 .. Capacity
    /\ selecting \in BOOLEAN
    /\ DOMAIN world \subseteq Keys /\ \A key \in DOMAIN world : world[key] \in BOOLEAN
    /\ problems \subseteq Keys
    /\ held \in [Writers -> Status \cup {NULL}]
    /\ disturbances \in 0 .. MaxDisturbances

\* A status that arrives after its subject was deleted, or that is about a subject
\* whose creation was rolled back, leaves no problem behind.
ProblemsHaveSubjects == problems \subseteq DOMAIN world

\* A component that sends on the bus, the allocator within a transaction, is not
\* blocked for good: the bus hears of every write channel, and no reader stops it.
SendersAreNotBlocked == \A w \in Writers : held[w] # NULL ~> held[w] = NULL

\* A message is dropped for the problem manager.
Drops ==
    /\ "problems" \in DOMAIN readChannels
    /\ \E w \in DOMAIN writeChannels : Len(writeChannels'[w]) < Len(writeChannels[w])
    /\ UNCHANGED readChannels["problems"]

Settled == \A key \in DOMAIN world : key \in problems <=> world[key]

\* However late, stale, rolled back or lost single statuses are, the open problems
\* end up being the real ones, unless the problem manager never stops losing
\* messages.
ProblemsSettle == []<><<Drops>>_vars \/ <>[]Settled
=============================================================================
