------------------------- MODULE ReplicaSetContract -------------------------
(***************************************************************************)
(* What MongoDB asks of whoever configures replica sets ("members[n]._id"  *)
(* of its manual, to which slave/mongodconfigurator.go refers), and what a *)
(* primary is: the abstract specification that the deployer and the        *)
(* configurators of the slaves implement together.  That there is only one *)
(* replica set of a name is not part of it: nothing sees to that.          *)
(***************************************************************************)
CONSTANTS Mongods, Sets, MemberIds, NULL

VARIABLES
    config,     \* per replica set, its members with their _id; <<>>: there is none
    primary     \* per replica set, the member that is primary, or NULL

contractVars == <<config, primary>>

\* Different members have different ids.
WellFormed(c) ==
    /\ DOMAIN c \subseteq Mongods
    /\ \A m \in DOMAIN c : c[m] \in MemberIds
    /\ \A m, n \in DOMAIN c : c[m] = c[n] => m = n

Init == config = [s \in Sets |-> <<>>] /\ primary = [s \in Sets |-> NULL]

\* A first configuration.
Initiate(s) ==
    /\ config[s] = <<>>
    /\ \E m \in Mongods : m \in DOMAIN config'[s]
    /\ WellFormed(config'[s])
    /\ config' = [config EXCEPT ![s] = config'[s]]
    /\ UNCHANGED primary

\* A member keeps its _id for as long as it is one, a new member does not take one
\* that was in use, and the primary does not remove itself.
Reconfigure(s) ==
    /\ primary[s] \in DOMAIN config[s] /\ primary[s] \in DOMAIN config'[s]
    /\ WellFormed(config'[s])
    /\ \A m \in DOMAIN config[s] \cap DOMAIN config'[s] : config'[s][m] = config[s][m]
    /\ \A m \in DOMAIN config'[s] \ DOMAIN config[s], n \in DOMAIN config[s] :
          config'[s][m] # config[s][n]
    /\ config' = [config EXCEPT ![s] = config'[s]]
    /\ UNCHANGED primary

\* Only members are elected, and one has to step down before another is.
Elect(s) ==
    /\ primary[s] = NULL
    /\ \E m \in DOMAIN config[s] : primary' = [primary EXCEPT ![s] = m]
    /\ UNCHANGED config

StepDown(s) == primary' = [primary EXCEPT ![s] = NULL] /\ UNCHANGED config

\* The last data of a replica set is destroyed.
Vanish(s) ==
    /\ config' = [config EXCEPT ![s] = <<>>]
    /\ primary' = [primary EXCEPT ![s] = NULL]

Next == \E s \in Sets : Initiate(s) \/ Reconfigure(s) \/ Elect(s) \/ StepDown(s) \/ Vanish(s)

Spec == Init /\ [][Next]_contractVars
=============================================================================
