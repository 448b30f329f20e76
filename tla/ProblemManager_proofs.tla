----------------------- MODULE ProblemManager_proofs -----------------------
(***************************************************************************)
(* For any number of slaves and replica sets, any capacity of the channels *)
(* and whatever is on its way: no problem is about a deleted subject, no   *)
(* channel of the bus holds more than it can, and no writer goes unheard.  *)
(*                                                                         *)
(* TypeOK speaks of the length and of the elements of a channel.  What is  *)
(* inductive is ChannelsTyped, that channels are sequences of statuses, and *)
(* the rest of TypeOK.                                                     *)
(***************************************************************************)
EXTENDS ProblemManager, SequenceTheorems, TLAPS

\* The table is empty at first; a deletion takes the subject's problems with it, and
\* a late status opens none.
THEOREM NoProblemWithoutSubject == Spec => []ProblemsHaveSubjects
PROOF
  <1>1. Init => ProblemsHaveSubjects
    BY DEF Init, ProblemsHaveSubjects
  <1>2. ProblemsHaveSubjects /\ [Next]_vars => ProblemsHaveSubjects'
    <2> SUFFICES ASSUME ProblemsHaveSubjects, [Next]_vars
                 PROVE  ProblemsHaveSubjects'
      OBVIOUS
    <2>1. ASSUME NEW key \in Keys, WorldChanges(key) PROVE ProblemsHaveSubjects'
      BY <2>1 DEF WorldChanges, ProblemsHaveSubjects
    <2>2. ASSUME NEW s, SubjectDeleted(s) PROVE ProblemsHaveSubjects'
      BY <2>2 DEF SubjectDeleted, ProblemsHaveSubjects
    <2>3. CASE Handle
      BY <2>3 DEF Handle, ProblemsHaveSubjects
    <2>4. ASSUME UNCHANGED <<world, problems>> PROVE ProblemsHaveSubjects'
      BY <2>4 DEF ProblemsHaveSubjects
    <2>5. ASSUME NEW key \in Keys, Observe(key) PROVE UNCHANGED <<world, problems>>
      BY <2>5 DEF Observe
    <2>6. ASSUME NEW key \in Keys, NEW wrong \in BOOLEAN, ObserveUncommitted(key, wrong)
          PROVE  UNCHANGED <<world, problems>>
      BY <2>6 DEF ObserveUncommitted
    <2>7. ASSUME NEW w \in Writers, SendStatus(w) PROVE UNCHANGED <<world, problems>>
      BY <2>7 DEF SendStatus
    <2>8. CASE Setup \/ HandleFails \/ DeployerReads
      BY <2>4, <2>8 DEF Setup, HandleFails, DeployerReads
    <2>9. CASE UNCHANGED <<world, problems, held, disturbances>> \/ UNCHANGED vars
      BY <2>4, <2>9 DEF vars
    <2> QED BY <2>1, <2>2, <2>3, <2>4, <2>5, <2>6, <2>7, <2>8, <2>9 DEF Next
  <1> QED BY <1>1, <1>2, PTL DEF Spec

-----------------------------------------------------------------------------
(* Channels.                                                                *)

Channel == {c \in Seq(Status) : Len(c) <= Capacity}

ChannelsTyped ==
    /\ DOMAIN writeChannels \subseteq Writers /\ DOMAIN readChannels \subseteq Readers
    /\ \A w \in DOMAIN writeChannels : writeChannels[w] \in Channel
    /\ \A r \in DOMAIN readChannels : readChannels[r] \in Channel

BusTyped ==
    /\ registering \subseteq DOMAIN writeChannels
    /\ selects \subseteq DOMAIN writeChannels
    /\ internalChannel \in 0 .. Capacity
    /\ selecting \in BOOLEAN

TablesTyped ==
    /\ DOMAIN world \subseteq Keys /\ \A key \in DOMAIN world : world[key] \in BOOLEAN
    /\ problems \subseteq Keys
    /\ held \in [Writers -> Status \cup {NULL}]
    /\ disturbances \in 0 .. MaxDisturbances

IInv == ChannelsTyped /\ BusTyped /\ TablesTyped /\ WritersAreHeard

\* A message that is appended where there is room, and a first message that is taken.
LEMMA ChannelSteps ==
    ASSUME NEW c \in Channel
    PROVE  /\ \A message \in Status : ~Full(c) => Append(c, message) \in Channel
           /\ c # <<>> => Tail(c) \in Channel /\ Head(c) \in Status
<1>1. c \in Seq(Status) /\ Len(c) \in Nat /\ Len(c) <= Capacity
  BY LenProperties DEF Channel
<1>2. ASSUME NEW message \in Status, ~Full(c)
      PROVE  Append(c, message) \in Channel
  <2>1. Append(c, message) \in Seq(Status) /\ Len(Append(c, message)) = Len(c) + 1
    BY <1>1, AppendProperties
  <2> QED BY <1>1, <1>2, <2>1, CapacityAssumption DEF Channel, Full
<1>3. ASSUME c # <<>>
      PROVE  Tail(c) \in Channel /\ Head(c) \in Status
  <2>1. Head(c) \in Status /\ Tail(c) \in Seq(Status) /\ Len(Tail(c)) = Len(c) - 1
    BY <1>1, <1>3, HeadTailProperties
  <2> QED BY <1>1, <2>1, CapacityAssumption DEF Channel
<1> QED BY <1>2, <1>3

LEMMA EmptyChannel == <<>> \in Channel
BY EmptySeq, CapacityAssumption DEF Channel

\* A reader takes a message: its channel stays one, and the message is a status.
LEMMA TakeTyped ==
    ASSUME IInv, NEW r \in Readers, Take(r)
    PROVE  /\ (ChannelsTyped /\ BusTyped /\ WritersAreHeard)'
           /\ Head(readChannels[r]) \in Status
<1> USE DEF IInv
<1>1. /\ r \in DOMAIN readChannels /\ readChannels[r] # <<>>
      /\ readChannels' = [readChannels EXCEPT ![r] = Tail(@)]
      /\ UNCHANGED <<writeChannels, registering, internalChannel, selects, selecting>>
  BY DEF Take
<1>2. readChannels[r] \in Channel
  BY <1>1 DEF ChannelsTyped
<1>3. Tail(readChannels[r]) \in Channel /\ Head(readChannels[r]) \in Status
  BY <1>1, <1>2, ChannelSteps
<1>4. ChannelsTyped'
  BY <1>1, <1>3 DEF ChannelsTyped
<1>5. BusTyped' /\ WritersAreHeard'
  BY <1>1 DEF BusTyped, WritersAreHeard
<1> QED BY <1>3, <1>4, <1>5

\* A component registers.
LEMMA SetupKeeps ==
    ASSUME IInv, Setup
    PROVE  IInv'
<1> USE DEF IInv
<1>1. TablesTyped'
  BY DEF Setup, TablesTyped
<1>2. ASSUME NEW w \in Writers, GetNewWriteChannel(w)
      PROVE  (ChannelsTyped /\ BusTyped /\ WritersAreHeard)'
  <2>1. /\ writeChannels' = NewChannel(writeChannels, w) /\ registering' = registering \cup {w}
        /\ UNCHANGED <<readChannels, internalChannel, selects, selecting>>
    BY <1>2 DEF GetNewWriteChannel
  <2>2. /\ DOMAIN writeChannels' = DOMAIN writeChannels \cup {w}
        /\ \A v \in DOMAIN writeChannels' : writeChannels'[v] = IF v = w THEN <<>> ELSE writeChannels[v]
    BY <2>1 DEF NewChannel
  <2>3. ChannelsTyped'
    BY <2>1, <2>2, EmptyChannel DEF ChannelsTyped
  <2>4. BusTyped' /\ WritersAreHeard'
    BY <2>1, <2>2 DEF BusTyped, WritersAreHeard
  <2> QED BY <2>3, <2>4
<1>3. ASSUME NEW w \in Writers, Interrupt(w)
      PROVE  (ChannelsTyped /\ BusTyped /\ WritersAreHeard)'
  <2>1. ChannelsTyped'
    BY <1>3 DEF Interrupt, ChannelsTyped
  <2>2. BusTyped'
    BY <1>3, CapacityAssumption DEF Interrupt, BusTyped
  <2>3. WritersAreHeard'
    BY <1>3 DEF Interrupt, WritersAreHeard, BusTyped
  <2> QED BY <2>1, <2>2, <2>3
<1>4. ASSUME NEW r \in Readers, GetNewReadChannel(r)
      PROVE  (ChannelsTyped /\ BusTyped /\ WritersAreHeard)'
  <2>1. /\ readChannels' = NewChannel(readChannels, r)
        /\ UNCHANGED <<writeChannels, registering, internalChannel, selects, selecting>>
    BY <1>4 DEF GetNewReadChannel
  <2>2. /\ DOMAIN readChannels' = DOMAIN readChannels \cup {r}
        /\ \A q \in DOMAIN readChannels' : readChannels'[q] = IF q = r THEN <<>> ELSE readChannels[q]
    BY <2>1 DEF NewChannel
  <2>3. ChannelsTyped'
    BY <2>1, <2>2, EmptyChannel DEF ChannelsTyped
  <2>4. BusTyped' /\ WritersAreHeard'
    BY <2>1 DEF BusTyped, WritersAreHeard
  <2> QED BY <2>3, <2>4
<1> QED BY <1>1, <1>2, <1>3, <1>4, WritersAssumption, ReadersAssumption DEF Setup

\* Run: a message goes to every reader that has room for it.
LEMMA BusStepKeeps ==
    ASSUME IInv, BusStep, UNCHANGED <<world, problems, held, disturbances>>
    PROVE  IInv'
<1> USE DEF IInv
<1>1. TablesTyped'
  BY DEF TablesTyped
<1>2. CASE BuildSelect
  <2>1. ChannelsTyped' /\ BusTyped' /\ WritersAreHeard'
    BY <1>2 DEF BuildSelect, ChannelsTyped, BusTyped, WritersAreHeard
  <2> QED BY <1>1, <2>1
<1>3. CASE ReceiveInterrupt
  <2>1. ChannelsTyped' /\ WritersAreHeard'
    BY <1>3 DEF ReceiveInterrupt, ChannelsTyped, WritersAreHeard
  <2>2. internalChannel' \in 0 .. Capacity
    <3>1. internalChannel \in 0 .. Capacity /\ internalChannel > 0
      BY <1>3 DEF ReceiveInterrupt, BusTyped
    <3>2. internalChannel' = internalChannel - 1
      BY <1>3 DEF ReceiveInterrupt
    <3> QED BY <3>1, <3>2, CapacityAssumption
  <2>3. selecting' = FALSE /\ UNCHANGED <<registering, selects, writeChannels>>
    BY <1>3 DEF ReceiveInterrupt
  <2>4. BusTyped'
    BY <2>2, <2>3 DEF BusTyped
  <2> QED BY <1>1, <2>1, <2>4
<1>4. ASSUME NEW w \in Writers, Receive(w)
      PROVE  IInv'
  <2>1. /\ w \in selects /\ writeChannels[w] # <<>> /\ selecting' = FALSE
        /\ writeChannels' = [writeChannels EXCEPT ![w] = Tail(@)]
        /\ readChannels' = [r \in DOMAIN readChannels |->
                               IF Full(readChannels[r]) THEN readChannels[r]
                               ELSE Append(readChannels[r], Head(writeChannels[w]))]
        /\ UNCHANGED <<registering, internalChannel, selects>>
    BY <1>4 DEF Receive
  <2>2. w \in DOMAIN writeChannels /\ writeChannels[w] \in Channel
    BY <2>1 DEF BusTyped, ChannelsTyped
  <2>3. Tail(writeChannels[w]) \in Channel /\ Head(writeChannels[w]) \in Status
    BY <2>1, <2>2, ChannelSteps
  <2>4. \A v \in DOMAIN writeChannels' : writeChannels'[v] \in Channel
    BY <2>1, <2>2, <2>3 DEF ChannelsTyped
  <2>5. ASSUME NEW r \in DOMAIN readChannels
        PROVE  readChannels'[r] \in Channel
    <3>1. readChannels[r] \in Channel
      BY DEF ChannelsTyped
    <3> QED BY <2>1, <2>3, <3>1, ChannelSteps
  <2>6. ChannelsTyped'
    BY <2>1, <2>2, <2>4, <2>5 DEF ChannelsTyped
  <2>7. BusTyped' /\ WritersAreHeard'
    BY <2>1, <2>2 DEF BusTyped, WritersAreHeard
  <2> QED BY <1>1, <2>6, <2>7
<1> QED BY <1>2, <1>3, <1>4 DEF BusStep

\* The senders.
LEMMA SendersKeep ==
    ASSUME IInv, \/ \E key \in Keys : Observe(key)
                 \/ \E key \in Keys, wrong \in BOOLEAN : ObserveUncommitted(key, wrong)
                 \/ \E w \in Writers : SendStatus(w)
    PROVE  IInv'
<1> USE DEF IInv
<1>1. ASSUME UNCHANGED busVars
      PROVE  (ChannelsTyped /\ BusTyped /\ WritersAreHeard)'
  BY <1>1 DEF busVars, ChannelsTyped, BusTyped, WritersAreHeard
<1>2. ASSUME NEW key \in Keys, Observe(key) PROVE IInv'
  <2>1. [key |-> key, wrong |-> world[key]] \in Status
    BY <1>2 DEF Observe, TablesTyped, Status
  <2>2. TablesTyped'
    BY <1>2, <2>1, WritersAssumption DEF Observe, TablesTyped
  <2> QED BY <1>1, <1>2, <2>2 DEF Observe
<1>3. ASSUME NEW key \in Keys, NEW wrong \in BOOLEAN, ObserveUncommitted(key, wrong) PROVE IInv'
  <2>1. [key |-> key, wrong |-> wrong] \in Status
    BY DEF Status
  <2>2. TablesTyped'
    BY <1>3, <2>1, WritersAssumption, MaxDisturbancesAssumption
       DEF ObserveUncommitted, Disturb, TablesTyped
  <2> QED BY <1>1, <1>3, <2>2 DEF ObserveUncommitted
<1>4. ASSUME NEW w \in Writers, SendStatus(w) PROVE IInv'
  <2>1. /\ held[w] # NULL /\ w \in DOMAIN writeChannels /\ ~Full(writeChannels[w])
        /\ writeChannels' = [writeChannels EXCEPT ![w] = Append(@, held[w])]
        /\ held' = [held EXCEPT ![w] = NULL]
        /\ UNCHANGED <<readChannels, registering, internalChannel, selects, selecting>>
        /\ UNCHANGED <<world, problems, disturbances>>
    BY <1>4 DEF SendStatus, Send, Registered
  <2>2. held[w] \in Status /\ writeChannels[w] \in Channel
    BY <2>1 DEF TablesTyped, ChannelsTyped
  <2>3. Append(writeChannels[w], held[w]) \in Channel
    BY <2>1, <2>2, ChannelSteps
  <2>4. ChannelsTyped'
    BY <2>1, <2>3 DEF ChannelsTyped
  <2>5. TablesTyped'
    BY <2>1 DEF TablesTyped
  <2>6. BusTyped' /\ WritersAreHeard'
    BY <2>1 DEF BusTyped, WritersAreHeard
  <2> QED BY <2>4, <2>5, <2>6
<1> QED BY <1>2, <1>3, <1>4

\* The readers, and the world.
LEMMA OthersKeep ==
    ASSUME IInv, \/ Handle \/ HandleFails \/ DeployerReads
                 \/ \E key \in Keys : WorldChanges(key)
                 \/ \E subject \in Slaves \cup ReplicaSets : SubjectDeleted(subject)
    PROVE  IInv'
<1>1. CASE Handle
  <2>1. /\ (ChannelsTyped /\ BusTyped /\ WritersAreHeard)'
        /\ Head(readChannels["problems"]) \in Status
    BY <1>1, TakeTyped, ReadersAssumption DEF Handle
  <2>2. Head(readChannels["problems"]).key \in Keys
    BY <2>1 DEF Status
  <2>3. problems' \subseteq Keys
    BY <1>1, <2>2 DEF Handle, IInv, TablesTyped
  <2> QED BY <1>1, <2>1, <2>3 DEF Handle, IInv, TablesTyped
<1>2. CASE HandleFails
  <2>1. (ChannelsTyped /\ BusTyped /\ WritersAreHeard)'
    BY <1>2, TakeTyped, ReadersAssumption DEF HandleFails
  <2> QED BY <1>2, <2>1, MaxDisturbancesAssumption DEF HandleFails, Disturb, IInv, TablesTyped
<1>3. CASE DeployerReads
  <2>1. (ChannelsTyped /\ BusTyped /\ WritersAreHeard)'
    BY <1>3, TakeTyped, ReadersAssumption DEF DeployerReads
  <2> QED BY <1>3, <2>1 DEF DeployerReads, IInv, TablesTyped
<1>4. ASSUME NEW key \in Keys, WorldChanges(key) PROVE IInv'
  <2>1. (ChannelsTyped /\ BusTyped /\ WritersAreHeard)'
    BY <1>4 DEF WorldChanges, IInv, busVars, ChannelsTyped, BusTyped, WritersAreHeard
  <2>2. disturbances' \in 0 .. MaxDisturbances
    BY <1>4, MaxDisturbancesAssumption DEF WorldChanges, Disturb, IInv, TablesTyped
  <2>3. world' = [world EXCEPT ![key] = ~@] /\ UNCHANGED <<problems, held>>
    BY <1>4 DEF WorldChanges
  <2>4. DOMAIN world' = DOMAIN world /\ \A k \in DOMAIN world' : world'[k] \in BOOLEAN
    BY <2>3, Zenon DEF IInv, TablesTyped
  <2> QED BY <2>1, <2>2, <2>3, <2>4 DEF IInv, TablesTyped
<1>5. ASSUME NEW subject, SubjectDeleted(subject) PROVE IInv'
  <2>1. (ChannelsTyped /\ BusTyped /\ WritersAreHeard)'
    BY <1>5 DEF SubjectDeleted, IInv, busVars, ChannelsTyped, BusTyped, WritersAreHeard
  <2> QED BY <1>5, <2>1, MaxDisturbancesAssumption DEF SubjectDeleted, Disturb, IInv, TablesTyped
<1> QED BY <1>1, <1>2, <1>3, <1>4, <1>5

-----------------------------------------------------------------------------
(* The theorems.                                                            *)

LEMMA IInvHolds == Spec => []IInv
<1>1. Init => IInv
  <2> SUFFICES ASSUME Init PROVE IInv
    OBVIOUS
  <2>1. ChannelsTyped /\ BusTyped /\ WritersAreHeard
    <3>1. DOMAIN writeChannels = {} /\ DOMAIN readChannels = {}
      BY DEF Init, BusInit
    <3>2. internalChannel \in 0 .. Capacity
      BY CapacityAssumption DEF Init, BusInit
    <3>3. registering = {} /\ selects = {} /\ selecting = FALSE
      BY DEF Init, BusInit
    <3> QED BY <3>1, <3>2, <3>3 DEF ChannelsTyped, BusTyped, WritersAreHeard
  <2>2. PICK subjects \in SUBSET (Slaves \cup ReplicaSets) :
           world \in [UNION {KeysOf(s) : s \in subjects} -> BOOLEAN]
    BY DEF Init
  <2>3. UNION {KeysOf(s) : s \in subjects} \subseteq Keys
    BY DEF KeysOf
  <2>4. TablesTyped
    BY <2>2, <2>3, MaxDisturbancesAssumption DEF Init, TablesTyped
  <2> QED BY <2>1, <2>4 DEF IInv
<1>2. IInv /\ [Next]_vars => IInv'
  <2> SUFFICES ASSUME IInv, [Next]_vars PROVE IInv'
    OBVIOUS
  <2>1. CASE UNCHANGED vars
    BY <2>1 DEF vars, busVars, IInv, ChannelsTyped, BusTyped, TablesTyped, WritersAreHeard
  <2> QED BY <2>1, SetupKeeps, BusStepKeeps, SendersKeep, OthersKeep DEF Next
<1> QED BY <1>1, <1>2, PTL DEF Spec

\* TypeOK: for any capacity, whoever sends and however slow the readers are, no channel
\* of the bus exceeds it, and tables and messages keep their types.
THEOREM ProblemManagerTypeCorrect == Spec => []TypeOK
<1>1. IInv => TypeOK
  <2> SUFFICES ASSUME IInv PROVE TypeOK
    OBVIOUS
  <2>1. ASSUME NEW c \in Channel
        PROVE  Len(c) <= Capacity /\ \A i \in 1 .. Len(c) : c[i] \in Status
    BY ElementOfSeq DEF Channel
  <2>2. /\ DOMAIN writeChannels \subseteq Writers /\ DOMAIN readChannels \subseteq Readers
        /\ \A w \in DOMAIN writeChannels :
              /\ Len(writeChannels[w]) <= Capacity
              /\ \A i \in 1 .. Len(writeChannels[w]) : writeChannels[w][i] \in Status
        /\ \A r \in DOMAIN readChannels :
              /\ Len(readChannels[r]) <= Capacity
              /\ \A i \in 1 .. Len(readChannels[r]) : readChannels[r][i] \in Status
    BY <2>1 DEF IInv, ChannelsTyped
  <2> QED BY <2>2 DEF IInv, BusTyped, TablesTyped, TypeOK
<1> QED BY <1>1, IInvHolds, PTL

\* WritersAreHeard: however registrations and the rounds of Run interleave, Run never
\* waits in a select that misses a writer without an interrupt on its way.  This is what
\* the liveness of the senders rests on.
THEOREM NoLostInterrupt == Spec => []WritersAreHeard
<1>1. IInv => WritersAreHeard
  BY DEF IInv
<1> QED BY <1>1, IInvHolds, PTL
=============================================================================
