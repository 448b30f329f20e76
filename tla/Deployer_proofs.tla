--------------------------- MODULE Deployer_proofs ---------------------------
(***************************************************************************)
(* Proofs about Deployer for any number of Mongods, replica sets, ids,     *)
(* pushes, initiations and faults.                                         *)
(*                                                                         *)
(* TypeOK and PrimaryServes are not inductive.  A reconfiguration computes *)
(* the new ids from a configuration that was read some steps before, so it *)
(* needs FreshReads: what a push has read and MongoDB will accept is the   *)
(* configuration that MongoDB has.  That in turn needs OneHandler, or else *)
(* another handler could give the Mongod a new directory in between, and   *)
(* IdsDiffer, since ids that are kept differ because they did before.  And *)
(* a step that ends a process is one step of the contract only if no       *)
(* Mongod is the primary of two replica sets (OnePrimary).                 *)
(***************************************************************************)
EXTENDS Deployer, TLAPS

\* Different members have different ids.
IdsDiffer == \A s \in Sets : \A m, n \in DOMAIN config[s] : config[s][m] = config[s][n] => m = n

\* No Mongod is the primary of two replica sets.
OnePrimary == \A s, t \in Sets : primary[s] = primary[t] /\ primary[s] # NULL => s = t

\* The handler of a push has not begun.
Outside == {"read", "members", "sent"}

\* A port has one handler at a time.
OneHandler ==
    \A p, q \in DOMAIN pushes :
        /\ pushes[p].mongod = pushes[q].mongod
        /\ pushes[p].at \notin Outside /\ pushes[q].at \notin Outside
        => p = q

\* A configuration that is about to be changed was read from the Mongod's replica set,
\* and is still the one of that replica set, or known to be outdated.
FreshReads ==
    \A p \in DOMAIN pushes : pushes[p].at = "reconfig" =>
        /\ data[pushes[p].mongod] \in Sets
        /\ pushes[p].config \in {NULL, config[data[pushes[p].mongod]]}

PushesOK == DOMAIN pushes \subseteq Pushes /\ \A p \in DOMAIN pushes : pushes[p] \in Push

SetInv  == PrimaryServes /\ OnePrimary /\ IdsDiffer
PushInv == OneHandler /\ FreshReads

Inv == TypeOK /\ SetInv /\ PushInv

\* The replica sets as the contract sees them.
Shown(s)        == IF Exists(s) THEN config[s] ELSE <<>>
ShownPrimary(s) == IF Exists(s) THEN primary[s] ELSE NULL

\* A step of the contract, or none.
ContractStep == [RS!Next]_(RS!contractVars)

-----------------------------------------------------------------------------
(* The list of members.                                                     *)

\* updateMembersList: every member gets an id of its own, a member that stays keeps
\* the one it has, and a new one gets none that is in use.
LEMMA MembersListCorrect ==
    ASSUME NEW current, NEW members, NEW f \in UpdateMembersList(current, members),
           \A m, n \in DOMAIN current : current[m] = current[n] => m = n
    PROVE  /\ f \in [members -> MemberIds]
           /\ \A m, n \in members : f[m] = f[n] => m = n
           /\ \A m \in members \cap DOMAIN current : f[m] = current[m]
           /\ \A m \in members \ DOMAIN current, n \in DOMAIN current : f[m] # current[n]
<1> DEFINE new  == members \ DOMAIN current
           free == MemberIds \ {current[m] : m \in DOMAIN current}
<1>1. /\ f \in [members -> MemberIds]
      /\ \A m \in members \cap DOMAIN current : f[m] = current[m]
      /\ \A m \in new : f[m] \in free
      /\ \A m, n \in new : f[m] = f[n] => m = n
  BY DEF UpdateMembersList
<1>2. \A m \in new, n \in DOMAIN current : f[m] # current[n]
  BY <1>1
<1>3. ASSUME NEW m \in members, NEW n \in members, f[m] = f[n]
      PROVE  m = n
  <2>1. CASE m \in new /\ n \in new
    BY <1>1, <1>3, <2>1
  <2>2. CASE m \in new /\ n \notin new
    <3>1. n \in DOMAIN current /\ f[n] = current[n]
      BY <1>1, <2>2
    <3> QED BY <1>2, <1>3, <2>2, <3>1
  <2>3. CASE m \notin new /\ n \in new
    <3>1. m \in DOMAIN current /\ f[m] = current[m]
      BY <1>1, <2>3
    <3> QED BY <1>2, <1>3, <2>3, <3>1
  <2>4. CASE m \notin new /\ n \notin new
    BY <1>1, <1>3, <2>4
  <2> QED BY <2>1, <2>2, <2>3, <2>4
<1> QED BY <1>1, <1>2, <1>3

-----------------------------------------------------------------------------
(* The contract.                                                            *)

\* A step that changes one replica set, or none, the way the contract allows.
LEMMA OneSetChanges ==
    ASSUME NEW t \in Sets,
           \A s \in Sets \ {t} : Shown(s)' = Shown(s) /\ ShownPrimary(s)' = ShownPrimary(s),
           \/ Shown(t)' = Shown(t) /\ ShownPrimary(t)' = ShownPrimary(t)
           \/ Shown(t)' = Shown(t) /\ ShownPrimary(t)' = NULL
           \/ Shown(t)' = <<>> /\ ShownPrimary(t)' = NULL
           \/ /\ Shown(t)' = Shown(t) /\ ShownPrimary(t) = NULL
              /\ ShownPrimary(t)' \in DOMAIN Shown(t)
    PROVE  ContractStep
<1> DEFINE cs == [s \in Sets |-> Shown(s)]
           ps == [s \in Sets |-> ShownPrimary(s)]
<1>1. ContractStep <=> (\E s \in Sets :
                           RS!Initiate(s) \/ RS!Reconfigure(s) \/ RS!Elect(s) \/ RS!StepDown(s)
                              \/ RS!Vanish(s))
                        \/ (cs' = cs /\ ps' = ps)
  BY DEF ContractStep, RS!Next, RS!contractVars, Shown, ShownPrimary
<1>2. CASE Shown(t)' = Shown(t) /\ ShownPrimary(t)' = ShownPrimary(t)
  <2>1. cs' = cs /\ ps' = ps
    BY <1>2
  <2> QED BY <1>1, <2>1
<1>3. CASE Shown(t)' = Shown(t) /\ ShownPrimary(t)' = NULL
  <2>1. cs' = cs /\ ps' = [ps EXCEPT ![t] = NULL]
    BY <1>3
  <2>2. RS!StepDown(t)
    BY <2>1 DEF RS!StepDown, Shown, ShownPrimary
  <2> QED BY <1>1, <2>2
<1>4. CASE Shown(t)' = <<>> /\ ShownPrimary(t)' = NULL
  <2>1. cs' = [cs EXCEPT ![t] = <<>>] /\ ps' = [ps EXCEPT ![t] = NULL]
    BY <1>4
  <2>2. RS!Vanish(t)
    BY <2>1 DEF RS!Vanish, Shown, ShownPrimary
  <2> QED BY <1>1, <2>2
<1>5. CASE /\ Shown(t)' = Shown(t) /\ ShownPrimary(t) = NULL
           /\ ShownPrimary(t)' \in DOMAIN Shown(t)
  <2> DEFINE m == ShownPrimary(t)'
  <2>1. cs' = cs /\ ps' = [ps EXCEPT ![t] = m] /\ ps[t] = NULL /\ m \in DOMAIN cs[t]
    BY <1>5
  <2> HIDE DEF m
  <2>2. RS!Elect(t)
    BY <2>1 DEF RS!Elect, Shown, ShownPrimary
  <2> QED BY <1>1, <2>2
<1> QED BY <1>2, <1>3, <1>4, <1>5

\* A step that changes none.
LEMMA NoSetChanges ==
    ASSUME \A s \in Sets : Shown(s)' = Shown(s) /\ ShownPrimary(s)' = ShownPrimary(s)
    PROVE  ContractStep
<1>1. /\ [s \in Sets |-> Shown(s)]' = [s \in Sets |-> Shown(s)]
      /\ [s \in Sets |-> ShownPrimary(s)]' = [s \in Sets |-> ShownPrimary(s)]
  OBVIOUS
<1> QED BY <1>1 DEF ContractStep, RS!contractVars, Shown, ShownPrimary

\* A step that gives a replica set another configuration.
LEMMA ConfigChanges ==
    ASSUME NEW t \in Sets, NEW c,
           Exists(t)', config' = [config EXCEPT ![t] = c], config \in [Sets -> Configs],
           \A s \in Sets \ {t} : Shown(s)' = Shown(s) /\ ShownPrimary(s)' = ShownPrimary(s),
           ShownPrimary(t)' = ShownPrimary(t),
           RS!WellFormed(c),
           \/ Shown(t) = <<>> /\ \E m \in Mongods : m \in DOMAIN c
           \/ /\ ShownPrimary(t) \in DOMAIN Shown(t) \cap DOMAIN c
              /\ \A m \in DOMAIN Shown(t) \cap DOMAIN c : c[m] = Shown(t)[m]
              /\ \A m \in DOMAIN c \ DOMAIN Shown(t), n \in DOMAIN Shown(t) : c[m] # Shown(t)[n]
    PROVE  ContractStep
<1> DEFINE cs == [s \in Sets |-> Shown(s)]
           ps == [s \in Sets |-> ShownPrimary(s)]
<1>1. RS!Initiate(t) \/ RS!Reconfigure(t) => ContractStep
  BY DEF ContractStep, RS!Next
<1>2. Shown(t)' = c
  BY DEF Shown
<1>3. /\ cs' = [cs EXCEPT ![t] = c] /\ ps' = ps
      /\ cs'[t] = c /\ cs[t] = Shown(t) /\ ps[t] = ShownPrimary(t)
  BY <1>2
<1>4. cs' = [cs EXCEPT ![t] = cs'[t]]
  BY <1>3
<1>5. CASE Shown(t) = <<>> /\ \E m \in Mongods : m \in DOMAIN c
  <2>1. cs[t] = <<>> /\ (\E m \in Mongods : m \in DOMAIN cs'[t]) /\ RS!WellFormed(cs'[t])
    BY <1>3, <1>5
  <2>2. RS!Initiate(t)
    BY <1>3, <1>4, <2>1 DEF RS!Initiate, Shown, ShownPrimary
  <2> QED BY <1>1, <2>2
<1>6. CASE /\ ShownPrimary(t) \in DOMAIN Shown(t) \cap DOMAIN c
           /\ \A m \in DOMAIN Shown(t) \cap DOMAIN c : c[m] = Shown(t)[m]
           /\ \A m \in DOMAIN c \ DOMAIN Shown(t), n \in DOMAIN Shown(t) : c[m] # Shown(t)[n]
  <2>1. /\ ps[t] \in DOMAIN cs[t] /\ ps[t] \in DOMAIN cs'[t]
        /\ RS!WellFormed(cs'[t])
        /\ \A m \in DOMAIN cs[t] \cap DOMAIN cs'[t] : cs'[t][m] = cs[t][m]
        /\ \A m \in DOMAIN cs'[t] \ DOMAIN cs[t], n \in DOMAIN cs[t] : cs'[t][m] # cs[t][n]
    BY <1>3, <1>6
  <2>2. RS!Reconfigure(t)
    BY <1>3, <1>4, <2>1 DEF RS!Reconfigure, Shown, ShownPrimary
  <2> QED BY <1>1, <2>2
<1> QED BY <1>5, <1>6

-----------------------------------------------------------------------------
(* Pushes.                                                                  *)

\* No other handler is at work on the Mongod of a push that is, or that may begin.
LEMMA Alone ==
    ASSUME OneHandler, NEW p \in DOMAIN pushes,
           pushes[p].at \notin Outside \/ Handlers(pushes[p].mongod) = {}
    PROVE  \A q \in DOMAIN pushes \ {p} :
              pushes[q].at \notin Outside => pushes[q].mongod # pushes[p].mongod
BY DEF OneHandler, Handlers, Outside

\* Pushes end, and what the others have read has not changed.
LEMMA FewerPushes ==
    ASSUME PushesOK, PushInv,
           \A q \in DOMAIN pushes' : q \in DOMAIN pushes /\ pushes'[q] = pushes[q],
           \A q \in DOMAIN pushes' : pushes[q].at = "reconfig" =>
              LET s == data[pushes[q].mongod]
              IN  data'[pushes[q].mongod] = s /\ config'[s] = config[s]
    PROVE  PushesOK' /\ PushInv'
<1>1. PushesOK'
  BY DEF PushesOK
<1>2. OneHandler'
  BY DEF PushInv, OneHandler
<1>3. FreshReads'
  BY DEF PushInv, FreshReads
<1> QED BY <1>1, <1>2, <1>3 DEF PushInv

\* A push goes on, and what the others have read has not changed.
LEMMA PushMoves ==
    ASSUME PushesOK, PushInv, NEW p \in Pushes, NEW r \in Push,
           DOMAIN pushes' = DOMAIN pushes \cup {p}, pushes'[p] = r,
           \A q \in DOMAIN pushes \ {p} : pushes'[q] = pushes[q],
           r.at # "reconfig",
           r.at \in Outside \/ \A q \in DOMAIN pushes \ {p} :
                                  pushes[q].at \notin Outside => pushes[q].mongod # r.mongod,
           \A q \in DOMAIN pushes \ {p} : pushes[q].at = "reconfig" =>
              LET s == data[pushes[q].mongod]
              IN  data'[pushes[q].mongod] = s /\ config'[s] = config[s]
    PROVE  PushesOK' /\ PushInv'
<1>1. PushesOK'
  BY DEF PushesOK
<1>2. OneHandler'
  BY DEF PushInv, OneHandler
<1>3. FreshReads'
  BY DEF PushInv, FreshReads
<1> QED BY <1>1, <1>2, <1>3 DEF PushInv

\* A fault is counted.
LEMMA FaultCounted ==
    ASSUME TypeOK, Fault
    PROVE  faults' \in 0 .. MaxFaults
BY MaxFaultsAssumption DEF TypeOK, Fault

\* Without a change to Mongods and replica sets, only pushes can go wrong.
LEMMA WorldUnchanged ==
    ASSUME SetInv, UNCHANGED worldVars
    PROVE  SetInv' /\ ContractStep
<1>1. SetInv'
  BY DEF SetInv, PrimaryServes, OnePrimary, IdsDiffer, worldVars, setVars
<1>2. ContractStep
  BY NoSetChanges DEF Shown, ShownPrimary, Exists, worldVars, setVars
<1> QED BY <1>1, <1>2

-----------------------------------------------------------------------------
(* The allocator and the monitor.                                           *)

LEMMA AllocatorInv ==
    ASSUME Inv, NEW m \in Mongods, Spawn(m) \/ Condemn(m) \/ RemoveRow(m)
    PROVE  Inv' /\ ContractStep
<1> USE DEF Inv
<1>1. UNCHANGED worldVars /\ UNCHANGED <<data, config>>
  BY DEF Spawn, Condemn, RemoveRow, Change, worldVars, setVars
<1>2. \A q \in DOMAIN pushes' : q \in DOMAIN pushes /\ pushes'[q] = pushes[q]
  BY DEF Spawn, Condemn, RemoveRow, Change
<1>3. PushesOK' /\ PushInv'
  BY <1>1, <1>2, FewerPushes DEF TypeOK, PushesOK
<1>4. TypeOK'
  <2>1. CASE Spawn(m)
    BY <2>1, MaxChangesAssumption DEF Spawn, Change, TypeOK, worldVars, setVars, Goals
  <2>2. CASE Condemn(m)
    BY <2>2, MaxChangesAssumption DEF Condemn, Change, TypeOK, worldVars, setVars, Goals
  <2>3. CASE RemoveRow(m)
    BY <1>3, <2>3 DEF RemoveRow, TypeOK, PushesOK, worldVars, setVars
  <2> QED BY <2>1, <2>2, <2>3
<1> QED BY <1>1, <1>3, <1>4, WorldUnchanged

LEMMA MonitorInv ==
    ASSUME Inv, NEW m \in Mongods, Ask(m) \/ AskFails(m)
    PROVE  Inv' /\ ContractStep
<1> USE DEF Inv
<1>1. UNCHANGED worldVars /\ UNCHANGED <<data, config, pushes>>
  BY DEF Ask, AskFails, worldVars, setVars
<1>2. PushInv'
  BY <1>1, FewerPushes DEF TypeOK, PushesOK
<1>3. /\ Report(m) \in [mongod : Mongods, state : States, members : SUBSET Mongods]
      /\ Report(m).members \in SUBSET Mongods
  <2>1. Report(m).state \in States
    BY DEF Report, States
  <2>2. data[m] \in Sets => DOMAIN config[data[m]] \in SUBSET Mongods
    BY DEF TypeOK, Configs
  <2>3. Report(m).members \in SUBSET Mongods
    BY <2>2 DEF Report
  <2>4. Report(m) = [mongod |-> m, state |-> Report(m).state, members |-> Report(m).members]
    BY DEF Report
  <2> QED BY <2>1, <2>3, <2>4
<1>4. TypeOK'
  <2>1. CASE Ask(m)
    BY <1>3, <2>1 DEF Ask, TypeOK, worldVars, setVars
  <2>2. CASE AskFails(m)
    <3>1. answer' \in [mongod : Mongods, state : States, members : SUBSET Mongods]
      BY <1>3, <2>2 DEF AskFails, States
    <3> QED BY <2>2, <3>1, FaultCounted DEF AskFails, TypeOK, worldVars, setVars
  <2> QED BY <2>1, <2>2
<1> QED BY <1>1, <1>2, <1>4, WorldUnchanged

LEMMA StoreInv ==
    ASSUME Inv, NEW p \in Pushes, Store(p)
    PROVE  Inv' /\ ContractStep
<1> USE DEF Inv
<1>1. UNCHANGED worldVars /\ UNCHANGED <<data, config>>
  BY DEF Store, worldVars, setVars
<1>2. answer.mongod \in Mongods /\ answer.state \in States
  BY DEF Store, TypeOK
<1>3. NewPush(answer.mongod) \in Push /\ NewPush(answer.mongod).at = "read"
  BY <1>2 DEF NewPush, Push, Goals, Places
<1>4. PushesOK' /\ PushInv'
  <2>1. CASE pushes' = pushes
    BY <1>1, <2>1, FewerPushes DEF TypeOK, PushesOK
  <2>2. CASE /\ p \notin DOMAIN pushes
             /\ pushes' = [q \in DOMAIN pushes \cup {p} |->
                              IF q = p THEN NewPush(answer.mongod) ELSE pushes[q]]
    BY <1>1, <1>3, <2>2, PushMoves DEF TypeOK, PushesOK, Outside
  <2> QED BY <2>1, <2>2 DEF Store
<1>5. /\ desired' \in [Mongods -> Goals \cup {NULL}]
      /\ observed' \in [Mongods -> States \cup {NULL}]
  BY <1>2 DEF Store, TypeOK, Goals
<1>6. TypeOK'
  BY <1>4, <1>5 DEF Store, TypeOK, PushesOK, worldVars, setVars
<1> QED BY <1>1, <1>4, <1>6, WorldUnchanged

-----------------------------------------------------------------------------
(* The deployer.                                                            *)

LEMMA DeployerInv ==
    ASSUME Inv, NEW p \in Pushes, DeployerStep(p) \/ PushLost(p)
    PROVE  Inv' /\ ContractStep
<1> USE DEF Inv
<1>1. UNCHANGED worldVars /\ UNCHANGED <<data, config>> /\ p \in DOMAIN pushes
  BY DEF DeployerStep, ReadState, ReadMembers, PushLost, worldVars, setVars, At
<1>2. pushes[p] \in Push /\ pushes[p].mongod \in Mongods
  BY <1>1 DEF TypeOK, Push
<1>3. PushesOK' /\ PushInv'
  <2>1. CASE ReadState(p)
    <3> DEFINE goal == desired[pushes[p].mongod]
               next == [pushes[p] EXCEPT !.goal = goal, !.at = "members"]
    <3>1. pushes' = [pushes EXCEPT ![p] = next]
      BY <1>1, <2>1 DEF ReadState
    <3>2. goal \in Goals \cup {NULL}
      BY <1>2 DEF TypeOK
    <3> HIDE DEF goal
    <3>3. next \in Push /\ next.at = "members"
      BY <1>2, <3>2 DEF Push, Places
    <3> HIDE DEF next
    <3> QED BY <1>1, <3>1, <3>3, PushMoves DEF TypeOK, PushesOK, Outside
  <2>2. CASE ReadMembers(p)
    <3> DEFINE members == IF pushes[p].goal = "running" THEN DesiredMembers ELSE {}
               next == [pushes[p] EXCEPT !.at = "sent", !.members = members]
    <3>1. pushes' = [pushes EXCEPT ![p] = next]
      BY <1>1, <2>2 DEF ReadMembers
    <3>2. members \in SUBSET Mongods
      BY DEF DesiredMembers
    <3> HIDE DEF members
    <3>3. next \in Push /\ next.at = "sent"
      BY <1>2, <3>2 DEF Push, Places
    <3> HIDE DEF next
    <3> QED BY <1>1, <3>1, <3>3, PushMoves DEF TypeOK, PushesOK, Outside
  <2>3. CASE PushLost(p)
    BY <1>1, <2>3, FewerPushes DEF PushLost, End, Without, TypeOK, PushesOK
  <2> QED BY <2>1, <2>2, <2>3 DEF DeployerStep
<1>4. faults' \in 0 .. MaxFaults /\ UNCHANGED masterVars
  BY FaultCounted DEF DeployerStep, ReadState, ReadMembers, PushLost, TypeOK
<1>5. TypeOK'
  BY <1>1, <1>3, <1>4 DEF TypeOK, PushesOK, worldVars, setVars, masterVars
<1> QED BY <1>1, <1>3, <1>5, WorldUnchanged

\* A new replica set: nobody has data of it yet, and the Mongod is in no other.
LEMMA InitiateInv ==
    ASSUME Inv, NEW m \in Mongods, NEW members \in SUBSET Mongods, Initiate(m, members),
           UNCHANGED pushes
    PROVE  /\ config' \in [Sets -> Configs] /\ primary' \in [Sets -> Mongods \cup {NULL}]
           /\ data' \in [Mongods -> {"none", "fresh"} \cup Sets]
           /\ SetInv' /\ PushInv' /\ ContractStep
<1> USE DEF Inv
<1>1. /\ m \in members /\ data[m] = "fresh" /\ UNCHANGED <<processes, entry, frozen>>
      /\ \A s \in Sets : s # "fresh" /\ s # "none" /\ s # NULL
  BY SetsAssumption DEF Initiate, Initiable
<1>2. PICK t \in Sets, c \in UpdateMembersList(<<>>, members) :
         /\ \A n \in Mongods : data[n] # t
         /\ config' = [config EXCEPT ![t] = c]
         /\ primary' = [primary EXCEPT ![t] = NULL]
         /\ data' = [data EXCEPT ![m] = t]
  BY DEF Initiate
<1>3. c \in [members -> MemberIds] /\ \A i, j \in members : c[i] = c[j] => i = j
  BY <1>2, MembersListCorrect
<1>4. DOMAIN c = members /\ c \in Configs
  BY <1>3 DEF Configs
<1>5. /\ config' \in [Sets -> Configs] /\ primary' \in [Sets -> Mongods \cup {NULL}]
      /\ data' \in [Mongods -> {"none", "fresh"} \cup Sets]
  BY <1>2, <1>4 DEF TypeOK
<1>6. \A s \in Sets : primary[s] # m
  BY <1>1, MongodsAssumption DEF SetInv, PrimaryServes
<1>7. SetInv'
  <2>1. PrimaryServes'
    BY <1>1, <1>2, <1>6 DEF SetInv, PrimaryServes, TypeOK
  <2>2. OnePrimary'
    BY <1>2 DEF SetInv, OnePrimary, TypeOK
  <2>3. IdsDiffer'
    BY <1>2, <1>3, <1>4 DEF SetInv, IdsDiffer, TypeOK
  <2> QED BY <2>1, <2>2, <2>3 DEF SetInv
<1>8. PushInv'
  <2>1. \A q \in DOMAIN pushes : pushes[q].at = "reconfig" =>
           LET s == data[pushes[q].mongod]
           IN  data'[pushes[q].mongod] = s /\ config'[s] = config[s]
    <3> SUFFICES ASSUME NEW q \in DOMAIN pushes, pushes[q].at = "reconfig"
                 PROVE  LET s == data[pushes[q].mongod]
                        IN  data'[pushes[q].mongod] = s /\ config'[s] = config[s]
      OBVIOUS
    <3>1. pushes[q].mongod \in Mongods /\ data[pushes[q].mongod] \in Sets
      BY DEF TypeOK, Push, PushInv, FreshReads
    <3> QED BY <1>1, <1>2, <3>1 DEF TypeOK
  <2> QED BY <2>1, FewerPushes DEF TypeOK, PushesOK
<1>9. ContractStep
  <2>1. ~Exists(t) /\ Exists(t)'
    BY <1>2 DEF Exists, TypeOK
  <2>2. \A s \in Sets \ {t} : Exists(s)' <=> Exists(s)
    BY <1>1, <1>2 DEF Exists, TypeOK
  <2>3. /\ \A s \in Sets \ {t} : Shown(s)' = Shown(s) /\ ShownPrimary(s)' = ShownPrimary(s)
        /\ Shown(t) = <<>> /\ ShownPrimary(t)' = ShownPrimary(t)
    BY <1>2, <2>1, <2>2 DEF Shown, ShownPrimary, TypeOK
  <2>4. RS!WellFormed(c)
    BY <1>3, <1>4 DEF RS!WellFormed
  <2>5. \E n \in Mongods : n \in DOMAIN c
    BY <1>1, <1>4
  <2>6. config \in [Sets -> Configs]
    BY DEF TypeOK
  <2>7. config' = [config EXCEPT ![t] = c]
    BY <1>2
  <2> QED BY <2>1, <2>3, <2>4, <2>5, <2>6, <2>7, ConfigChanges
<1> QED BY <1>5, <1>7, <1>8, <1>9

\* The bookkeeping of initiations.
LEMMA InitiationMoves ==
    ASSUME TypeOK, NEW i \in Initiations
    PROVE  /\ \A r \in Initiation : SetInitiation(i, r) =>
                 /\ DOMAIN initiations' \subseteq Initiations
                 /\ \A j \in DOMAIN initiations' : initiations'[j] \in Initiation
           /\ EndInitiation(i) =>
                 /\ DOMAIN initiations' \subseteq Initiations
                 /\ \A j \in DOMAIN initiations' : initiations'[j] \in Initiation
BY DEF TypeOK, SetInitiation, EndInitiation

LEMMA InitiationInv ==
    ASSUME Inv, NEW i \in Initiations,
           BeginInitiation(i) \/ InitiationStep(i) \/ InitiationLost(i)
    PROVE  Inv' /\ ContractStep
<1> USE DEF Inv
<1> DEFINE blank(place) == [mongod |-> NULL, members |-> {}, at |-> place]
<1>1. blank("begun") \in Initiation /\ blank("done") \in Initiation
  BY DEF Initiation
<1>2. /\ DOMAIN initiations' \subseteq Initiations
      /\ \A j \in DOMAIN initiations' : initiations'[j] \in Initiation
  <2>1. CASE ReadInitiation(i)
    <3>1. \A m \in DesiredMembers :
             [mongod |-> m, members |-> DesiredMembers, at |-> "sent"] \in Initiation
      BY DEF Initiation, DesiredMembers
    <3> QED BY <2>1, <3>1, InitiationMoves DEF ReadInitiation
  <2>2. CASE BeginInitiation(i)
    BY <1>1, <2>2, InitiationMoves DEF BeginInitiation
  <2>3. CASE Initiated(i)
    BY <1>1, <2>3, InitiationMoves DEF Initiated
  <2>4. CASE InitiationFails(i) \/ StoreInitiated(i) \/ InitiationLost(i)
    BY <2>4, InitiationMoves DEF InitiationFails, StoreInitiated, InitiationLost
  <2> QED BY <2>1, <2>2, <2>3, <2>4 DEF InitiationStep
<1>3. CASE UNCHANGED worldVars
  <2>1. UNCHANGED <<data, config, pushes, desired, observed, answer, changes>>
    BY <1>3 DEF worldVars, setVars, BeginInitiation, InitiationStep, ReadInitiation, Initiated,
                InitiationFails, StoreInitiated, InitiationLost
  <2>2. PushInv'
    BY <2>1, FewerPushes DEF TypeOK, PushesOK
  <2>3. faults' \in 0 .. MaxFaults /\ initiated' \in BOOLEAN
    BY FaultCounted DEF TypeOK, BeginInitiation, InitiationStep, ReadInitiation, Initiated,
                        InitiationFails, StoreInitiated, InitiationLost
  <2>4. TypeOK'
    BY <1>2, <1>3, <2>1, <2>3 DEF TypeOK, worldVars, setVars
  <2> QED BY <1>3, <2>2, <2>4, WorldUnchanged
<1>4. CASE Initiated(i) /\ Initiate(initiations[i].mongod, initiations[i].members)
  <2> DEFINE m == initiations[i].mongod
             members == initiations[i].members
  <2>1. m \in members /\ members \in SUBSET Mongods /\ UNCHANGED pushes
    BY <1>4 DEF Initiated, InitiationSent, InitiationAt, Initiate, Initiable, TypeOK, Initiation
  <2>2. m \in Mongods /\ Initiate(m, members)
    BY <1>4, <2>1
  <2>3. /\ config' \in [Sets -> Configs] /\ primary' \in [Sets -> Mongods \cup {NULL}]
        /\ data' \in [Mongods -> {"none", "fresh"} \cup Sets]
        /\ SetInv' /\ PushInv' /\ ContractStep
    BY <2>1, <2>2, InitiateInv
  <2>4. UNCHANGED <<processes, entry, frozen, pushes, faults, desired, observed, initiated,
                    answer, changes>>
    BY <1>4 DEF Initiated, Initiate
  <2>5. TypeOK'
    BY <1>2, <2>3, <2>4 DEF TypeOK
  <2> QED BY <2>3, <2>5
<1> QED BY <1>3, <1>4 DEF BeginInitiation, InitiationStep, ReadInitiation, Initiated,
                          InitiationFails, StoreInitiated, InitiationLost

-----------------------------------------------------------------------------
(* MongoDB and the slaves.                                                  *)

\* A Mongod that ceases to be primary, of the one replica set of which it was.
LEMMA NoPrimaryInv ==
    ASSUME Inv, NEW m \in Mongods, primary' = NoPrimary(m),
           \A s \in Sets : Exists(s)' <=> Exists(s), UNCHANGED config
    PROVE  /\ primary' \in [Sets -> Mongods \cup {NULL}]
           /\ OnePrimary' /\ IdsDiffer' /\ ContractStep
<1> USE DEF Inv, SetInv
<1>1. primary' \in [Sets -> Mongods \cup {NULL}]
  BY DEF TypeOK, NoPrimary
<1>2. OnePrimary' /\ IdsDiffer'
  BY DEF OnePrimary, IdsDiffer, NoPrimary
<1>3. ContractStep
  <2>1. \A s \in Sets : Shown(s)' = Shown(s)
    BY DEF Shown
  <2>2. CASE \A s \in Sets : primary[s] # m
    <3>1. \A s \in Sets : ShownPrimary(s)' = ShownPrimary(s)
      BY <2>2 DEF ShownPrimary, NoPrimary
    <3> QED BY <2>1, <3>1, NoSetChanges
  <2>3. ASSUME NEW t \in Sets, primary[t] = m
        PROVE  ContractStep
    <3>1. \A s \in Sets \ {t} : primary[s] # m
      BY <2>3, MongodsAssumption DEF OnePrimary
    <3>2. \A s \in Sets \ {t} : ShownPrimary(s)' = ShownPrimary(s)
      BY <3>1 DEF ShownPrimary, NoPrimary
    <3>3. ShownPrimary(t)' = NULL
      BY <2>3 DEF ShownPrimary, NoPrimary
    <3> QED BY <2>1, <3>2, <3>3, OneSetChanges
  <2> QED BY <2>2, <2>3
<1> QED BY <1>1, <1>2, <1>3

\* A process ends.
LEMMA ProcessEndsInv ==
    ASSUME Inv, NEW m \in Mongods, ProcessEnds(m), UNCHANGED <<data, config>>
    PROVE  /\ processes' \subseteq Mongods /\ primary' \in [Sets -> Mongods \cup {NULL}]
           /\ entry' \in [Mongods -> {"child", "ended", NULL}]
           /\ SetInv' /\ ContractStep
<1> USE DEF Inv, SetInv
<1>1. primary' = NoPrimary(m)
  BY DEF ProcessEnds
<1>2. \A s \in Sets : Exists(s)' <=> Exists(s)
  BY DEF Exists
<1>3. /\ primary' \in [Sets -> Mongods \cup {NULL}]
      /\ OnePrimary' /\ IdsDiffer' /\ ContractStep
  BY <1>1, <1>2, NoPrimaryInv
<1>4. processes' \subseteq Mongods /\ entry' \in [Mongods -> {"child", "ended", NULL}]
  BY DEF TypeOK, ProcessEnds
<1>5. PrimaryServes'
  <2>1. \A s \in Sets : primary'[s] # NULL => primary'[s] = primary[s] /\ primary[s] # m
    BY <1>1 DEF NoPrimary
  <2>2. \A n \in Mongods \ {m} : entry'[n] = entry[n] /\ (n \in processes' <=> n \in processes)
    BY DEF TypeOK, ProcessEnds
  <2> QED BY <2>1, <2>2 DEF PrimaryServes, TypeOK
<1> QED BY <1>3, <1>4, <1>5

\* Elections and heartbeats, and Mongods that end by themselves.
LEMMA MongoDBInv ==
    ASSUME Inv, MongoDBStep, UNCHANGED masterVars
    PROVE  Inv' /\ ContractStep
<1> USE DEF Inv
<1>1. /\ \A s \in Sets : s # "none" /\ s # "fresh" /\ s # NULL
      /\ pushes' = pushes /\ config' = config /\ faults' = faults
  BY SetsAssumption DEF MongoDBStep, Elect, Learn, LoseMajority, Thaw, Starve, ProcessEnds, setVars
<1>2. ASSUME NEW s \in Sets, NEW m \in Mongods, Elect(s, m)
      PROVE  Inv' /\ ContractStep
  <2>1. /\ primary[s] = NULL /\ primary' = [primary EXCEPT ![s] = m]
        /\ m \in processes /\ m \in DOMAIN config[s] /\ data[m] = s
        /\ UNCHANGED <<processes, entry, data, config>>
    BY <1>2 DEF Elect, Voters
  <2>2. TypeOK'
    BY <1>2 DEF Elect, TypeOK, masterVars
  <2>3. \A t \in Sets \ {s} : primary[t] # m
    BY <1>1, <2>1, MongodsAssumption DEF SetInv, PrimaryServes
  <2>4. PrimaryServes' /\ OnePrimary' /\ IdsDiffer'
    BY <2>1, <2>3 DEF SetInv, PrimaryServes, OnePrimary, IdsDiffer, TypeOK
  <2>5. \A t \in Sets : Exists(t)' <=> Exists(t)
    BY <2>1 DEF Exists
  <2>6. Exists(s)
    BY <2>1 DEF Exists
  <2>7. ContractStep
    <3>1. /\ \A t \in Sets \ {s} : Shown(t)' = Shown(t) /\ ShownPrimary(t)' = ShownPrimary(t)
          /\ Shown(s)' = Shown(s) /\ ShownPrimary(s) = NULL
          /\ ShownPrimary(s)' \in DOMAIN Shown(s)
      BY <2>1, <2>5, <2>6 DEF Shown, ShownPrimary, TypeOK
    <3> QED BY <3>1, OneSetChanges
  <2>8. PushInv'
    BY <1>1, <2>1, FewerPushes DEF TypeOK, PushesOK
  <2> QED BY <2>2, <2>4, <2>7, <2>8 DEF SetInv
<1>3. ASSUME NEW s \in Sets, NEW m \in Mongods, Learn(s, m)
      PROVE  Inv' /\ ContractStep
  <2>1. /\ data[m] = "fresh" /\ data' = [data EXCEPT ![m] = s]
        /\ UNCHANGED <<processes, entry, config, primary>>
    BY <1>3 DEF Learn, setVars
  <2>2. Exists(s)
    BY <1>3 DEF Learn, Voters, Exists, TypeOK, Configs
  <2>3. TypeOK'
    BY <1>3 DEF Learn, TypeOK, masterVars, setVars
  <2>4. \A t \in Sets : primary[t] # m
    BY <1>1, <2>1, MongodsAssumption DEF SetInv, PrimaryServes
  <2>5. PrimaryServes' /\ OnePrimary' /\ IdsDiffer'
    BY <2>1, <2>4 DEF SetInv, PrimaryServes, OnePrimary, IdsDiffer, TypeOK
  <2>6. \A t \in Sets : Exists(t)' <=> Exists(t)
    BY <1>1, <2>1, <2>2 DEF Exists, TypeOK
  <2>7. ContractStep
    BY <2>1, <2>6, NoSetChanges DEF Shown, ShownPrimary
  <2>8. \A q \in DOMAIN pushes : pushes[q].at = "reconfig" =>
           data'[pushes[q].mongod] = data[pushes[q].mongod]
    BY <1>1, <2>1 DEF PushInv, FreshReads, TypeOK
  <2>9. PushInv'
    BY <1>1, <2>8, FewerPushes DEF TypeOK, PushesOK
  <2> QED BY <2>3, <2>5, <2>7, <2>9 DEF SetInv
<1>4. ASSUME NEW s \in Sets, LoseMajority(s)
      PROVE  Inv' /\ ContractStep
  <2>1. /\ primary' = [primary EXCEPT ![s] = NULL]
        /\ UNCHANGED <<processes, entry, data, config>>
    BY <1>4 DEF LoseMajority
  <2>2. TypeOK'
    BY <1>4 DEF LoseMajority, TypeOK, masterVars
  <2>3. PrimaryServes' /\ OnePrimary' /\ IdsDiffer'
    BY <2>1 DEF SetInv, PrimaryServes, OnePrimary, IdsDiffer, TypeOK
  <2>4. /\ \A t \in Sets \ {s} : Shown(t)' = Shown(t) /\ ShownPrimary(t)' = ShownPrimary(t)
        /\ Shown(s)' = Shown(s) /\ ShownPrimary(s)' = NULL
    BY <2>1 DEF Shown, ShownPrimary, Exists, TypeOK
  <2>5. ContractStep
    BY <2>4, OneSetChanges
  <2>6. PushInv'
    BY <1>1, <2>1, FewerPushes DEF TypeOK, PushesOK
  <2> QED BY <2>2, <2>3, <2>5, <2>6 DEF SetInv
<1>5. ASSUME NEW m \in Mongods, Thaw(m)
      PROVE  Inv' /\ ContractStep
  <2>1. UNCHANGED <<processes, entry, data, config, primary>>
    BY <1>5 DEF Thaw, setVars
  <2>2. TypeOK'
    BY <1>5 DEF Thaw, TypeOK, masterVars, setVars
  <2>3. PrimaryServes' /\ OnePrimary' /\ IdsDiffer'
    BY <2>1 DEF SetInv, PrimaryServes, OnePrimary, IdsDiffer
  <2>4. ContractStep
    BY <2>1, NoSetChanges DEF Shown, ShownPrimary, Exists
  <2>5. PushInv'
    BY <1>1, <2>1, FewerPushes DEF TypeOK, PushesOK
  <2> QED BY <2>2, <2>3, <2>4, <2>5 DEF SetInv
<1>6. ASSUME NEW m \in Mongods, Starve(m)
      PROVE  Inv' /\ ContractStep
  <2>1. ProcessEnds(m) /\ UNCHANGED <<data, config, frozen, pushes, faults>>
    BY <1>6 DEF Starve
  <2>2. /\ processes' \subseteq Mongods /\ primary' \in [Sets -> Mongods \cup {NULL}]
        /\ entry' \in [Mongods -> {"child", "ended", NULL}]
        /\ SetInv' /\ ContractStep
    BY <2>1, ProcessEndsInv
  <2>3. PushInv'
    BY <2>1, FewerPushes DEF TypeOK, PushesOK
  <2>4. TypeOK'
    BY <2>1, <2>2 DEF TypeOK, masterVars
  <2> QED BY <2>2, <2>3, <2>4
<1> QED BY <1>2, <1>3, <1>4, <1>5, <1>6 DEF MongoDBStep

\* Slaves that are restarted, processes that crash, and exits that are noticed.
LEMMA SlaveInv ==
    ASSUME Inv, NEW m \in Mongods, ExitNoticed(m) \/ Crash(m) \/ Restart(m), UNCHANGED masterVars
    PROVE  Inv' /\ ContractStep
<1> USE DEF Inv
<1>1. UNCHANGED <<data, config, frozen>>
  BY DEF ExitNoticed, Crash, Restart, setVars
<1>2. \A q \in DOMAIN pushes' : q \in DOMAIN pushes /\ pushes'[q] = pushes[q]
  BY DEF ExitNoticed, Crash, Restart, Without
<1>3. PushesOK' /\ PushInv'
  BY <1>1, <1>2, FewerPushes DEF TypeOK, PushesOK
<1>4. faults' \in 0 .. MaxFaults
  BY FaultCounted DEF ExitNoticed, Crash, Restart, TypeOK
<1>5. CASE ProcessEnds(m)
  <2>1. /\ processes' \subseteq Mongods /\ primary' \in [Sets -> Mongods \cup {NULL}]
        /\ entry' \in [Mongods -> {"child", "ended", NULL}]
        /\ SetInv' /\ ContractStep
    BY <1>1, <1>5, ProcessEndsInv
  <2>2. TypeOK'
    BY <1>1, <1>3, <1>4, <2>1 DEF TypeOK, PushesOK, masterVars
  <2> QED BY <1>3, <2>1, <2>2
<1>6. CASE entry' = [entry EXCEPT ![m] = NULL] /\ UNCHANGED <<processes, primary>>
  <2>1. TypeOK'
    BY <1>1, <1>3, <1>4, <1>6 DEF TypeOK, PushesOK, masterVars
  <2>2. PrimaryServes' /\ OnePrimary' /\ IdsDiffer'
    BY <1>1, <1>6, MongodsAssumption DEF SetInv, PrimaryServes, OnePrimary, IdsDiffer, TypeOK
  <2>3. ContractStep
    BY <1>1, <1>6, NoSetChanges DEF Shown, ShownPrimary, Exists
  <2> QED BY <1>3, <2>1, <2>2, <2>3 DEF SetInv
<1> QED BY <1>5, <1>6 DEF ExitNoticed, Crash, Restart, setVars

\* Reconfiguration: what was read is what is replaced, the primary stays a member, and
\* the ids stay different.
LEMMA ReplSetReconfigInv ==
    ASSUME Inv, NEW p \in Pushes, ReplSetReconfig(p), UNCHANGED masterVars
    PROVE  Inv' /\ ContractStep
<1> USE DEF Inv
<1> DEFINE m       == pushes[p].mongod
           members == pushes[p].members
<1>1. /\ p \in DOMAIN pushes /\ pushes[p].at = "reconfig"
      /\ UNCHANGED <<processes, entry, data, primary, frozen, faults>>
  BY DEF ReplSetReconfig, At
<1>2. m \in Mongods /\ members \in SUBSET Mongods
  BY <1>1 DEF TypeOK, Push
<1>3. CASE config' = config /\ End(p)
  <2>1. PushesOK' /\ PushInv'
    BY <1>1, <1>3, FewerPushes DEF End, Without, TypeOK, PushesOK
  <2>2. TypeOK'
    BY <1>1, <1>3, <2>1 DEF TypeOK, PushesOK, masterVars
  <2>3. UNCHANGED worldVars
    BY <1>1, <1>3 DEF worldVars, setVars
  <2> QED BY <2>1, <2>2, <2>3, WorldUnchanged
<1>4. ASSUME NEW s \in Sets, Accepts(m, s, p),
             NEW c \in UpdateMembersList(pushes[p].config, members),
             config' = [config EXCEPT ![s] = c], Outdate(p, s)
      PROVE  Inv' /\ ContractStep
  <2>1. primary[s] = m /\ data[m] = s /\ m \in members /\ pushes[p].config # NULL
    BY <1>4 DEF Accepts
  <2>2. pushes[p].config = config[s]
    BY <1>1, <2>1 DEF PushInv, FreshReads
  <2>3. \A i, j \in DOMAIN config[s] : config[s][i] = config[s][j] => i = j
    BY DEF SetInv, IdsDiffer
  <2>4. /\ c \in [members -> MemberIds]
        /\ \A i, j \in members : c[i] = c[j] => i = j
        /\ \A i \in members \cap DOMAIN config[s] : c[i] = config[s][i]
        /\ \A i \in members \ DOMAIN config[s], j \in DOMAIN config[s] : c[i] # config[s][j]
    BY <2>2, <2>3, MembersListCorrect
  <2>5. DOMAIN c = members /\ c \in Configs
    BY <1>2, <2>4 DEF Configs
  <2>6. config' \in [Sets -> Configs]
    BY <1>4, <2>5 DEF TypeOK
  <2>7. m \in DOMAIN config[s]
    BY <1>2, <2>1, MongodsAssumption DEF SetInv, PrimaryServes
  <2>8. SetInv'
    <3>1. PrimaryServes'
      BY <1>1, <1>4, <2>1, <2>5 DEF SetInv, PrimaryServes, TypeOK
    <3>2. OnePrimary'
      BY <1>1 DEF SetInv, OnePrimary
    <3>3. IdsDiffer'
      BY <1>4, <2>4, <2>5 DEF SetInv, IdsDiffer, TypeOK
    <3> QED BY <3>1, <3>2, <3>3 DEF SetInv
  <2>9. ContractStep
    <3>1. Exists(s) /\ \A t \in Sets : Exists(t)' <=> Exists(t)
      BY <1>1, <1>2, <2>1 DEF Exists
    <3>2. /\ \A t \in Sets \ {s} : Shown(t)' = Shown(t) /\ ShownPrimary(t)' = ShownPrimary(t)
          /\ Shown(s) = config[s]
          /\ ShownPrimary(s) = m /\ ShownPrimary(s)' = ShownPrimary(s)
      BY <1>1, <1>4, <2>1, <3>1 DEF Shown, ShownPrimary, TypeOK
    <3>3. RS!WellFormed(c)
      BY <1>2, <2>4, <2>5 DEF RS!WellFormed
    <3>4. /\ ShownPrimary(s) \in DOMAIN Shown(s) \cap DOMAIN c
          /\ \A i \in DOMAIN Shown(s) \cap DOMAIN c : c[i] = Shown(s)[i]
          /\ \A i \in DOMAIN c \ DOMAIN Shown(s), j \in DOMAIN Shown(s) : c[i] # Shown(s)[j]
      BY <2>1, <2>4, <2>5, <2>7, <3>2
    <3>5. config \in [Sets -> Configs] /\ Exists(s)'
      BY <3>1 DEF TypeOK
    <3> QED BY <1>4, <3>2, <3>3, <3>4, <3>5, ConfigChanges
  <2>10. /\ DOMAIN pushes' = DOMAIN pushes \ {p}
         /\ \A q \in DOMAIN pushes' :
               pushes'[q] = IF data[pushes[q].mongod] = s
                            THEN [pushes[q] EXCEPT !.config = NULL] ELSE pushes[q]
    BY <1>4 DEF Outdate
  <2>11. \A q \in DOMAIN pushes' :
            /\ pushes'[q] \in Push
            /\ pushes'[q].mongod = pushes[q].mongod /\ pushes'[q].at = pushes[q].at
            /\ data[pushes[q].mongod] = s => pushes'[q].config = NULL
    BY <2>10 DEF TypeOK, Push
  <2>12. PushesOK' /\ OneHandler'
    BY <2>10, <2>11 DEF PushesOK, TypeOK, PushInv, OneHandler
  <2>13. FreshReads'
    <3> SUFFICES ASSUME NEW q \in DOMAIN pushes', pushes'[q].at = "reconfig"
                 PROVE  /\ data'[pushes'[q].mongod] \in Sets
                        /\ pushes'[q].config \in {NULL, config'[data'[pushes'[q].mongod]]}
      BY DEF FreshReads
    <3>1. /\ pushes'[q].mongod = pushes[q].mongod /\ data' = data
          /\ data[pushes[q].mongod] \in Sets
          /\ pushes[q].config \in {NULL, config[data[pushes[q].mongod]]}
      BY <1>1, <2>10, <2>11 DEF PushInv, FreshReads
    <3>2. CASE data[pushes[q].mongod] = s
      BY <2>11, <3>1, <3>2
    <3>3. CASE data[pushes[q].mongod] # s
      <4>1. pushes'[q] = pushes[q]
        BY <2>10, <3>3
      <4>2. config'[data[pushes[q].mongod]] = config[data[pushes[q].mongod]]
        BY <1>4, <3>1, <3>3 DEF TypeOK
      <4> QED BY <3>1, <4>1, <4>2
    <3> QED BY <3>2, <3>3
  <2>14. TypeOK'
    BY <1>1, <2>6, <2>12 DEF TypeOK, PushesOK, masterVars
  <2> QED BY <2>8, <2>9, <2>12, <2>13, <2>14 DEF PushInv
<1>5. \/ config' = config /\ End(p)
      \/ \E s \in Sets : /\ Accepts(m, s, p)
                         /\ \E c \in UpdateMembersList(pushes[p].config, members) :
                               config' = [config EXCEPT ![s] = c] /\ Outdate(p, s)
  BY DEF ReplSetReconfig
<1> QED BY <1>3, <1>4, <1>5

\* The slave asks, and does nothing to its Mongod.
LEMMA ReadingInv ==
    ASSUME Inv, NEW p \in Pushes, UNCHANGED masterVars,
           \/ IsMaster(p) \/ ReplSetGetConfig(p) \/ ReadMaster(p) \/ ReadStatus(p)
           \/ AwaitRemoval(p)
    PROVE  Inv' /\ ContractStep
<1> USE DEF Inv
<1> DEFINE m == pushes[p].mongod
<1>1. /\ UNCHANGED worldVars /\ UNCHANGED <<data, config, faults>>
      /\ p \in DOMAIN pushes
      /\ pushes[p].at \notin Outside \/ Handlers(m) = {}
  BY DEF IsMaster, ReplSetGetConfig, ReadMaster, ReadStatus, AwaitRemoval, Handles, At, worldVars,
         setVars, Outside
<1>2. pushes[p] \in Push /\ m \in Mongods
  BY <1>1 DEF TypeOK, Push
<1>3. \A q \in DOMAIN pushes \ {p} : pushes[q].at \notin Outside => pushes[q].mongod # m
  BY <1>1, Alone DEF PushInv
<1>4. PushesOK' /\ PushInv'
  <2>1. ASSUME NEW next \in Push, pushes' = [pushes EXCEPT ![p] = next],
               next.mongod = m, next.at # "reconfig"
        PROVE  PushesOK' /\ PushInv'
    BY <1>1, <1>3, <2>1, PushMoves DEF TypeOK, PushesOK
  <2>2. CASE End(p)
    BY <1>1, <2>2, FewerPushes DEF End, Without, TypeOK, PushesOK
  <2>3. CASE IsMaster(p) /\ GoTo(p, "config")
    <3> DEFINE next == [pushes[p] EXCEPT !.at = "config"]
    <3>1. next \in Push /\ next.mongod = m /\ next.at = "config"
      BY <1>2 DEF Push, Places
    <3>2. pushes' = [pushes EXCEPT ![p] = next]
      BY <1>1, <2>3 DEF GoTo
    <3> HIDE DEF next
    <3> QED BY <2>1, <3>1, <3>2
  <2>4. CASE GiveUp(p)
    <3> DEFINE next == [pushes[p] EXCEPT !.at = "destroy", !.seen = NULL]
    <3>1. next \in Push /\ next.mongod = m /\ next.at = "destroy"
      BY <1>2 DEF Push, Places
    <3>2. pushes' = [pushes EXCEPT ![p] = next]
      BY <1>1, <2>4 DEF GiveUp
    <3> HIDE DEF next
    <3> QED BY <2>1, <3>1, <3>2
  <2>5. CASE ReadMaster(p)
    <3> DEFINE seen == IF IsPrimary(m) THEN "primary" ELSE "secondary"
               next == IF m \in processes
                       THEN [pushes[p] EXCEPT !.at = "status", !.seen = seen]
                       ELSE [pushes[p] EXCEPT !.at = "destroy"]
    <3>1. seen \in {"primary", "secondary"}
      OBVIOUS
    <3>2. pushes' = [pushes EXCEPT ![p] = next]
      BY <1>1, <2>5 DEF ReadMaster
    <3> HIDE DEF seen
    <3>3. next \in Push /\ next.mongod = m /\ next.at # "reconfig"
      BY <1>2, <3>1 DEF Push, Places
    <3> HIDE DEF next
    <3> QED BY <2>1, <3>2, <3>3
  <2>6. CASE /\ ReadStatus(p)
             /\ pushes' = [pushes EXCEPT ![p].at = "act",
                             ![p].seen = IF Removed(m) THEN "removed" ELSE @]
    <3> DEFINE seen == IF Removed(m) THEN "removed" ELSE pushes[p].seen
               next == [pushes[p] EXCEPT !.at = "act", !.seen = seen]
    <3>1. seen \in {"removed", "primary", "secondary", NULL}
      BY <1>2 DEF Push
    <3>2. pushes' = [pushes EXCEPT ![p] = next]
      BY <1>1, <2>6
    <3> HIDE DEF seen
    <3>3. next \in Push /\ next.mongod = m /\ next.at = "act"
      BY <1>2, <3>1 DEF Push, Places
    <3> HIDE DEF next
    <3> QED BY <2>1, <3>2, <3>3
  <2>7. CASE /\ ReplSetGetConfig(p) /\ data[m] \in Sets
              /\ pushes' = [pushes EXCEPT ![p].at = "reconfig", ![p].config = config[data[m]]]
    <3> DEFINE c    == config[data[m]]
               next == [pushes[p] EXCEPT !.at = "reconfig", !.config = c]
    <3>1. c \in Configs
      BY <2>7 DEF TypeOK
    <3>2. pushes' = [pushes EXCEPT ![p] = next]
      BY <1>1, <2>7
    <3>3. next \in Push /\ next.mongod = m /\ next.at = "reconfig" /\ next.config = c
      BY <1>2, <3>1 DEF Push, Places
    <3> HIDE DEF next
    <3>4. /\ DOMAIN pushes' = DOMAIN pushes /\ pushes'[p] = next
          /\ \A q \in DOMAIN pushes \ {p} : pushes'[q] = pushes[q]
      BY <1>1, <3>2
    <3>5. PushesOK'
      BY <3>3, <3>4 DEF TypeOK, PushesOK
    <3>6. OneHandler'
      BY <1>3, <3>3, <3>4 DEF PushInv, OneHandler
    <3>7. FreshReads'
      BY <1>1, <2>7, <3>3, <3>4 DEF PushInv, FreshReads
    <3> QED BY <3>5, <3>6, <3>7 DEF PushInv
  <2> QED BY <2>2, <2>3, <2>4, <2>5, <2>6, <2>7
          DEF IsMaster, ReplSetGetConfig, ReadStatus, AwaitRemoval
<1>5. TypeOK'
  BY <1>1, <1>4 DEF TypeOK, PushesOK, worldVars, setVars, masterVars
<1> QED BY <1>1, <1>4, <1>5, WorldUnchanged

\* The steps that do something to processes and directories.
LEMMA ActingInv ==
    ASSUME Inv, NEW p \in Pushes, UNCHANGED masterVars,
           \/ SpawnProcess(p) \/ Shutdown(p) \/ StepDown(p) \/ KillProcess(p) \/ Destroy(p)
    PROVE  Inv' /\ ContractStep
<1> USE DEF Inv
<1> DEFINE m == pushes[p].mongod
<1>1. /\ UNCHANGED <<config, faults>> /\ p \in DOMAIN pushes
      /\ pushes[p].at \notin Outside \/ Handlers(m) = {}
  BY DEF SpawnProcess, Shutdown, StepDown, KillProcess, Destroy, Handles, At, setVars, Outside
<1>2. /\ pushes[p] \in Push /\ m \in Mongods
      /\ \A s \in Sets : s # "none" /\ s # "fresh" /\ s # NULL
  BY <1>1, SetsAssumption DEF TypeOK, Push
<1>3. \A q \in DOMAIN pushes \ {p} : pushes[q].at \notin Outside => pushes[q].mongod # m
  BY <1>1, Alone DEF PushInv
<1>4. \A q \in DOMAIN pushes : pushes[q].mongod \in Mongods
  BY DEF TypeOK, Push
<1>5. \A n \in Mongods \ {m} : data'[n] = data[n]
  BY <1>2 DEF SpawnProcess, Shutdown, StepDown, KillProcess, Destroy, TypeOK
<1>6. \A q \in DOMAIN pushes \ {p} : pushes[q].at = "reconfig" =>
         data'[pushes[q].mongod] = data[pushes[q].mongod]
  BY <1>3, <1>4, <1>5 DEF Outside
<1>7. PushesOK' /\ PushInv'
  <2>1. CASE End(p)
    BY <1>1, <1>6, <2>1, FewerPushes DEF End, Without, TypeOK, PushesOK
  <2>2. ASSUME NEW place \in {"apply", "destroy"}, GoTo(p, place)
        PROVE  PushesOK' /\ PushInv'
    <3> DEFINE next == [pushes[p] EXCEPT !.at = place]
    <3>1. next \in Push /\ next.mongod = m /\ next.at # "reconfig"
      BY <1>2, <2>2 DEF Push, Places
    <3>2. pushes' = [pushes EXCEPT ![p] = next]
      BY <1>1, <2>2 DEF GoTo
    <3> HIDE DEF next
    <3> QED BY <1>1, <1>3, <1>6, <3>1, <3>2, PushMoves DEF TypeOK, PushesOK
  <2>3. CASE GiveUp(p)
    <3> DEFINE next == [pushes[p] EXCEPT !.at = "destroy", !.seen = NULL]
    <3>1. next \in Push /\ next.mongod = m /\ next.at # "reconfig"
      BY <1>2 DEF Push, Places
    <3>2. pushes' = [pushes EXCEPT ![p] = next]
      BY <1>1, <2>3 DEF GiveUp
    <3> HIDE DEF next
    <3> QED BY <1>1, <1>3, <1>6, <3>1, <3>2, PushMoves DEF TypeOK, PushesOK
  <2> QED BY <2>1, <2>2, <2>3 DEF SpawnProcess, Shutdown, StepDown, KillProcess, Destroy
<1>8. CASE ProcessEnds(m) /\ UNCHANGED <<data, frozen>>
  <2>1. /\ processes' \subseteq Mongods /\ primary' \in [Sets -> Mongods \cup {NULL}]
        /\ entry' \in [Mongods -> {"child", "ended", NULL}]
        /\ SetInv' /\ ContractStep
    BY <1>1, <1>2, <1>8, ProcessEndsInv
  <2>2. TypeOK'
    BY <1>1, <1>7, <1>8, <2>1 DEF TypeOK, PushesOK, masterVars
  <2> QED BY <1>7, <2>1, <2>2
<1>9. CASE UNCHANGED worldVars
  <2>1. TypeOK'
    BY <1>1, <1>7, <1>9 DEF TypeOK, PushesOK, worldVars, setVars, masterVars
  <2> QED BY <1>7, <1>9, <2>1, WorldUnchanged
<1>10. CASE SpawnProcess(p) /\ ~HasProcess(m)
  <2> DEFINE alive == m \in processes /\ data[m] # "none"
  <2>1. /\ processes' = processes \cup {m}
        /\ entry' = [entry EXCEPT ![m] = IF alive THEN "ended" ELSE "child"]
        /\ data' = [data EXCEPT ![m] = IF @ = "none" THEN "fresh" ELSE @]
        /\ primary' = IF alive THEN primary ELSE NoPrimary(m)
        /\ UNCHANGED frozen
    BY <1>10 DEF SpawnProcess
  <2>2. /\ processes' \subseteq Mongods /\ entry' \in [Mongods -> {"child", "ended", NULL}]
        /\ data' \in [Mongods -> {"none", "fresh"} \cup Sets]
    BY <1>2, <2>1 DEF TypeOK
  <2>3. \A s \in Sets : Exists(s)' <=> Exists(s)
    BY <1>2, <2>1 DEF Exists, TypeOK
  <2>4. /\ primary' \in [Sets -> Mongods \cup {NULL}]
        /\ OnePrimary' /\ IdsDiffer' /\ ContractStep
    <3>1. CASE alive
      <4>1. UNCHANGED <<primary, config>>
        BY <1>1, <2>1, <3>1
      <4>2. ContractStep
        BY <2>3, <4>1, NoSetChanges DEF Shown, ShownPrimary
      <4> QED BY <4>1, <4>2 DEF TypeOK, SetInv, OnePrimary, IdsDiffer
    <3>2. CASE ~alive
      BY <1>1, <1>2, <2>1, <2>3, <3>2, NoPrimaryInv
    <3> QED BY <3>1, <3>2
  <2>5. PrimaryServes'
    <3>1. \A s \in Sets : primary'[s] # NULL => /\ primary'[s] = primary[s]
                                                /\ primary[s] = m => alive
      BY <2>1 DEF NoPrimary
    <3>2. alive => data'[m] = data[m] /\ entry'[m] = "ended"
      BY <1>2, <2>1 DEF TypeOK
    <3>3. \A n \in Mongods \ {m} : entry'[n] = entry[n] /\ data'[n] = data[n]
      BY <2>1 DEF TypeOK
    <3> QED BY <1>1, <2>1, <3>1, <3>2, <3>3 DEF SetInv, PrimaryServes, TypeOK
  <2>6. TypeOK'
    BY <1>1, <1>7, <2>1, <2>2, <2>4 DEF TypeOK, PushesOK, masterVars
  <2> QED BY <1>7, <2>4, <2>5, <2>6 DEF SetInv
<1>11. CASE StepDown(p) /\ primary' = NoPrimary(m) /\ frozen' = frozen \cup {m}
  <2>1. UNCHANGED <<processes, entry, data, config>>
    BY <1>11 DEF StepDown
  <2>2. /\ primary' \in [Sets -> Mongods \cup {NULL}]
        /\ OnePrimary' /\ IdsDiffer' /\ ContractStep
    <3>1. \A s \in Sets : Exists(s)' <=> Exists(s)
      BY <2>1 DEF Exists
    <3> QED BY <1>2, <1>11, <2>1, <3>1, NoPrimaryInv
  <2>3. PrimaryServes'
    BY <1>11, <2>1 DEF SetInv, PrimaryServes, NoPrimary
  <2>4. TypeOK'
    BY <1>1, <1>2, <1>7, <1>11, <2>1, <2>2 DEF TypeOK, PushesOK, masterVars
  <2> QED BY <1>7, <2>2, <2>3, <2>4 DEF SetInv
<1>12. CASE /\ Destroy(p) /\ ~HasProcess(m)
            /\ data' = [data EXCEPT ![m] = "none"]
  <2>1. UNCHANGED <<processes, entry, primary, config, frozen>> /\ entry[m] # "child"
    BY <1>12, MongodsAssumption DEF Destroy, HasProcess, setVars
  <2>2. TypeOK'
    BY <1>1, <1>7, <1>12, <2>1 DEF TypeOK, PushesOK, masterVars
  <2>3. PrimaryServes' /\ OnePrimary' /\ IdsDiffer'
    BY <1>2, <1>12, <2>1 DEF SetInv, PrimaryServes, OnePrimary, IdsDiffer, TypeOK
  <2>4. \A s \in Sets : s # data[m] => (Exists(s)' <=> Exists(s))
    BY <1>2, <1>12 DEF Exists, TypeOK
  <2>5. \A s \in Sets : (Exists(s)' <=> Exists(s)) =>
           Shown(s)' = Shown(s) /\ ShownPrimary(s)' = ShownPrimary(s)
    BY <2>1 DEF Shown, ShownPrimary
  <2>6. \A s \in Sets : ~Exists(s)' => Shown(s)' = <<>> /\ ShownPrimary(s)' = NULL
    BY DEF Shown, ShownPrimary
  <2>7. ContractStep
    <3>1. CASE \A s \in Sets : Exists(s)' <=> Exists(s)
      BY <2>5, <3>1, NoSetChanges
    <3>2. ASSUME NEW t \in Sets, ~(Exists(t)' <=> Exists(t))
          PROVE  ContractStep
      <4>1. t = data[m]
        BY <2>4, <3>2
      <4>2. ~Exists(t)'
        BY <1>2, <1>12, <3>2 DEF Exists, TypeOK
      <4>3. \A s \in Sets \ {t} : Shown(s)' = Shown(s) /\ ShownPrimary(s)' = ShownPrimary(s)
        BY <2>4, <2>5, <4>1
      <4>4. Shown(t)' = <<>> /\ ShownPrimary(t)' = NULL
        BY <2>6, <4>2
      <4> QED BY <4>3, <4>4, OneSetChanges
    <3> QED BY <3>1, <3>2
  <2> QED BY <1>7, <2>2, <2>3, <2>7 DEF SetInv
<1>13. \/ ProcessEnds(m) /\ UNCHANGED <<data, frozen>>
       \/ UNCHANGED worldVars
       \/ SpawnProcess(p) /\ ~HasProcess(m)
       \/ StepDown(p) /\ primary' = NoPrimary(m) /\ frozen' = frozen \cup {m}
       \/ Destroy(p) /\ ~HasProcess(m) /\ data' = [data EXCEPT ![m] = "none"]
  BY DEF SpawnProcess, Shutdown, StepDown, KillProcess, Destroy, worldVars, setVars
<1> QED BY <1>8, <1>9, <1>10, <1>11, <1>12, <1>13

LEMMA HandlerInv ==
    ASSUME Inv, NEW p \in Pushes, HandlerStep(p) \/ HandlerFault(p), UNCHANGED masterVars
    PROVE  Inv' /\ ContractStep
<1> USE DEF Inv
<1>1. CASE HandlerFault(p)
  <2>1. UNCHANGED worldVars /\ UNCHANGED <<data, config>> /\ End(p) /\ Fault
    BY <1>1 DEF HandlerFault, SpawnFails, ApplyFails, DestroyFails, worldVars, setVars
  <2>2. PushesOK' /\ PushInv'
    BY <2>1, FewerPushes DEF End, Without, TypeOK, PushesOK
  <2>3. TypeOK'
    BY <2>1, <2>2, FaultCounted DEF TypeOK, PushesOK, worldVars, setVars, masterVars
  <2> QED BY <2>1, <2>2, <2>3, WorldUnchanged
<1> QED BY <1>1, ReplSetReconfigInv, ReadingInv, ActingInv DEF HandlerStep

-----------------------------------------------------------------------------
(* The theorems.                                                            *)

LEMMA InitInv == Init => Inv /\ RS!Init
<1> SUFFICES ASSUME Init PROVE Inv /\ RS!Init
  OBVIOUS
<1>1. \A s \in Sets : s # "none" /\ s # "fresh" /\ s # NULL
  BY SetsAssumption
<1>2. TypeOK
  <2>1. DOMAIN pushes = {} /\ DOMAIN initiations = {}
    BY DEF Init, WorldInit
  <2>2. <<>> \in Configs
    <3>1. <<>> \in [{} -> MemberIds]
      OBVIOUS
    <3> QED BY <3>1 DEF Configs
  <2>3. config \in [Sets -> Configs]
    BY <2>2 DEF Init, WorldInit
  <2>4. /\ processes \subseteq Mongods /\ frozen \subseteq Mongods
        /\ entry \in [Mongods -> {"child", "ended", NULL}]
        /\ data \in [Mongods -> {"none", "fresh"} \cup Sets]
        /\ primary \in [Sets -> Mongods \cup {NULL}]
        /\ DOMAIN pushes \subseteq Pushes /\ \A p \in DOMAIN pushes : pushes[p] \in Push
    BY <2>1 DEF Init, WorldInit
  <2>5. /\ desired \in [Mongods -> Goals \cup {NULL}]
        /\ observed \in [Mongods -> States \cup {NULL}]
        /\ initiated \in BOOLEAN
        /\ answer \in [mongod : Mongods, state : States, members : SUBSET Mongods] \cup {NULL}
        /\ DOMAIN initiations \subseteq Initiations
        /\ \A i \in DOMAIN initiations : initiations[i] \in Initiation
    BY <2>1 DEF Init
  <2>6. faults \in 0 .. MaxFaults /\ changes \in 0 .. MaxChanges
    BY MaxFaultsAssumption, MaxChangesAssumption DEF Init, WorldInit
  <2> QED BY <2>3, <2>4, <2>5, <2>6 DEF TypeOK
<1>3. SetInv
  BY DEF Init, WorldInit, SetInv, PrimaryServes, OnePrimary, IdsDiffer
<1>4. PushInv
  BY DEF Init, WorldInit, PushInv, OneHandler, FreshReads
<1>5. RS!Init
  <2>1. \A s \in Sets : ~Exists(s)
    BY <1>1 DEF Init, WorldInit, Exists
  <2> QED BY <2>1 DEF RS!Init
<1> QED BY <1>2, <1>3, <1>4, <1>5 DEF Inv

LEMMA NextInv == Inv /\ [Next]_vars => Inv' /\ ContractStep
<1> SUFFICES ASSUME Inv, [Next]_vars PROVE Inv' /\ ContractStep
  OBVIOUS
<1>1. CASE UNCHANGED vars
  <2>1. TypeOK' /\ PushInv'
    BY <1>1 DEF Inv, TypeOK, PushInv, OneHandler, FreshReads, vars, worldVars, setVars, masterVars
  <2> QED BY <1>1, <2>1, WorldUnchanged DEF Inv, vars
<1> QED BY <1>1, AllocatorInv, MonitorInv, StoreInv, DeployerInv, HandlerInv, InitiationInv,
           SlaveInv, MongoDBInv DEF Next

\* TypeOK is an invariant for every number of Mongods, ids, pushes, initiations and
\* faults: no interleaving of deployer, monitor and slaves leaves the types, or the
\* range of ids.
THEOREM DeployerTypeCorrect == Spec => []TypeOK
<1>1. Init => Inv
  BY InitInv
<1>2. Inv /\ [Next]_vars => Inv'
  BY NextInv
<1>3. Inv => TypeOK
  BY DEF Inv
<1> QED BY <1>1, <1>2, <1>3, PTL DEF Spec

\* PrimaryServes: no handler takes a serving primary's membership, and none takes its
\* data while the slave knows its process; slaves may be restarted at any time.
THEOREM PrimaryIsServing == Spec => []PrimaryServes
<1>1. Init => Inv
  BY InitInv
<1>2. Inv /\ [Next]_vars => Inv'
  BY NextInv
<1>3. Inv => PrimaryServes
  BY DEF Inv, SetInv
<1> QED BY <1>1, <1>2, <1>3, PTL DEF Spec

\* ImplementsContract: deployer and slaves together keep MongoDB's rules for
\* configuring replica sets, however many there are, although a reconfiguration
\* reads the configuration, and writes the new one some steps later.
THEOREM DeployerImplementsContract == Spec => ImplementsContract
<1>1. Init => Inv /\ RS!Init
  BY InitInv
<1>2. Inv /\ [Next]_vars => Inv' /\ [RS!Next]_(RS!contractVars)
  BY NextInv DEF ContractStep
<1> QED BY <1>1, <1>2, PTL DEF Spec, ImplementsContract, RS!Spec
=============================================================================
