--------------------------- MODULE Notifier_proofs ---------------------------
(***************************************************************************)
(* Proofs about Notifier for any number of contacts, problems and faults.  *)
(*                                                                         *)
(* The inductive invariant adds two facts to the properties.  A problem    *)
(* that somebody was mailed about is remembered, forgotten, or closed for  *)
(* good, because ids are not used again; and about the problems of the     *)
(* last poll nobody was mailed, except about the first of them the         *)
(* contacts before the current one.                                        *)
(***************************************************************************)
EXTENDS Notifier, WellFoundedInduction, TLAPS

\* A problem that somebody was mailed about will not look new.
MailedAreKnown ==
    \A c \in 1 .. Contacts, p \in Ids :
        <<c, p>> \in mailed => p \in lastProblems \cup forgotten \/ p \notin problems

\* How far the mails about the last poll have come.
InOrder ==
    /\ \A p \in toNotify, c \in 1 .. Contacts :
          <<c, p>> \in mailed => p \in forgotten \/ (p = Current /\ c < contact)
    /\ toNotify # {} => \A c \in 1 .. contact - 1 : <<c, Current>> \in mailed

Inv == TypeOK /\ NotifiedOnce /\ RememberedWereMailed /\ MailedAreKnown /\ InOrder

-----------------------------------------------------------------------------
(* Lemmas.                                                                  *)

\* The first of the problems is one of them.
LEMMA CurrentIsFirst ==
    ASSUME TypeOK, toNotify # {}
    PROVE  Current \in toNotify
<1>1. toNotify \in SUBSET Nat
  BY MaxProblemsAssumption DEF TypeOK, Ids
<1>2. \E p \in toNotify : \A q \in toNotify : p <= q
  <2> DEFINE less == OpToRel(<, Nat)
  <2>1. IsWellFoundedOn(less, Nat)
    BY NatLessThanWellFounded
  <2> HIDE DEF less
  <2>2. PICK p \in toNotify : \A q \in toNotify : ~(<<q, p>> \in less)
    BY <1>1, <2>1, WFMin
  <2>3. \A q \in toNotify : ~(q < p)
    BY <1>1, <2>2 DEF less, OpToRel
  <2> QED BY <1>1, <2>3
<1> QED BY <1>2 DEF Current

LEMMA FaultCounted == ASSUME faults \in 0 .. MaxFaults, Fault PROVE faults' \in 0 .. MaxFaults
BY MaxFaultsAssumption DEF Fault

LEMMA InitInv == Init => Inv
<1> SUFFICES ASSUME Init PROVE Inv
  OBVIOUS
<1>1. TypeOK
  BY ContactsAssumption, MaxProblemsAssumption, MaxFaultsAssumption DEF Init, TypeOK, Ids
<1>2. NotifiedOnce /\ RememberedWereMailed /\ MailedAreKnown /\ InOrder
  BY DEF Init, NotifiedOnce, RememberedWereMailed, MailedAreKnown, InOrder
<1> QED BY <1>1, <1>2 DEF Inv

-----------------------------------------------------------------------------
(* The steps.                                                               *)

LEMMA OpenedInv == Inv /\ ProblemOpened => Inv'
<1> SUFFICES ASSUME Inv, ProblemOpened PROVE Inv'
  OBVIOUS
<1> USE DEF Inv, ProblemOpened, mailVars
<1>1. lastId \in Nat /\ lastId' = lastId + 1 /\ lastId' \in 0 .. MaxProblems
  BY MaxProblemsAssumption DEF TypeOK
<1>2. Ids \subseteq Ids' /\ lastId' \notin Ids /\ lastId' \in Ids'
  BY <1>1 DEF Ids
<1>3. TypeOK'
  <2>1. (1 .. Contacts) \X Ids \subseteq (1 .. Contacts) \X Ids'
    BY <1>2
  <2> QED BY <1>1, <1>2, <2>1 DEF TypeOK
<1>4. \A c \in 1 .. Contacts, p \in Ids' : <<c, p>> \in mailed => p \in Ids
  BY DEF TypeOK
<1>5. NotifiedOnce'
  BY <1>4 DEF NotifiedOnce, TypeOK
<1>6. MailedAreKnown'
  BY <1>1, <1>2, <1>4 DEF MailedAreKnown
<1>7. RememberedWereMailed' /\ InOrder'
  BY DEF RememberedWereMailed, InOrder, Current
<1> QED BY <1>3, <1>5, <1>6, <1>7

LEMMA ClosedInv == ASSUME Inv, NEW q \in 1 .. MaxProblems, ProblemClosed(q) PROVE Inv'
<1> USE DEF Inv, ProblemClosed, mailVars
<1>1. TypeOK'
  BY DEF TypeOK, Ids
<1>2. NotifiedOnce' /\ RememberedWereMailed' /\ InOrder'
  BY DEF NotifiedOnce, RememberedWereMailed, InOrder, Current, Ids
<1>3. MailedAreKnown'
  BY DEF MailedAreKnown, Ids
<1> QED BY <1>1, <1>2, <1>3

LEMMA PollInv == Inv /\ Poll => Inv'
<1> SUFFICES ASSUME Inv, Poll PROVE Inv'
  OBVIOUS
<1>1. /\ toNotify = {} /\ lastProblems' = problems /\ toNotify' = problems \ lastProblems
      /\ contact' = 1 /\ UNCHANGED <<tableVars, mailVars, forgotten, faults>>
  BY DEF Poll, Diff, Cleaned
<1> USE <1>1 DEF Inv, tableVars, mailVars
<1>2. TypeOK'
  BY ContactsAssumption DEF TypeOK, Ids
<1>3. NotifiedOnce'
  BY DEF NotifiedOnce, Ids
<1>4. RememberedWereMailed'
  <2>1. lastProblems' \ toNotify' \subseteq lastProblems \ toNotify
    OBVIOUS
  <2> QED BY <2>1 DEF RememberedWereMailed
<1>5. MailedAreKnown'
  BY DEF MailedAreKnown, Ids
<1>6. InOrder'
  <2>1. \A p \in toNotify', c \in 1 .. Contacts : <<c, p>> \in mailed => p \in forgotten
    BY DEF MailedAreKnown, TypeOK
  <2>2. 1 .. contact' - 1 = {}
    OBVIOUS
  <2> QED BY <2>1, <2>2 DEF InOrder
<1> QED BY <1>2, <1>3, <1>4, <1>5, <1>6

\* A failed poll and a restart.
LEMMA ForgetInv == Inv /\ (PollFails \/ Restart) => Inv'
<1> SUFFICES ASSUME Inv, PollFails \/ Restart PROVE Inv'
  OBVIOUS
<1>1. /\ lastProblems' = {} /\ toNotify' = {} /\ contact' = 1
      /\ forgotten' = forgotten \cup lastProblems
      /\ Fault /\ UNCHANGED <<tableVars, mailVars>>
  BY DEF PollFails, Restart, Diff, Cleaned
<1> USE <1>1 DEF Inv, tableVars, mailVars
<1>2. TypeOK'
  BY ContactsAssumption, FaultCounted DEF TypeOK, Ids
<1>3. NotifiedOnce'
  BY DEF NotifiedOnce, Ids
<1>4. MailedAreKnown'
  BY DEF MailedAreKnown, Ids
<1>5. RememberedWereMailed' /\ InOrder'
  BY DEF RememberedWereMailed, InOrder
<1> QED BY <1>2, <1>3, <1>4, <1>5

LEMMA SendMailInv == Inv /\ SendMail => Inv'
<1> SUFFICES ASSUME Inv, SendMail PROVE Inv'
  OBVIOUS
<1> DEFINE mail == <<contact, Current>>
<1>1. /\ toNotify # {} /\ contact <= Contacts
      /\ mailed' = mailed \cup {mail} /\ again' = again \cup ({mail} \cap mailed)
      /\ contact' = contact + 1
      /\ UNCHANGED <<tableVars, lastProblems, toNotify, failed, forgotten, faults>>
  BY DEF SendMail
<1>2. Current \in toNotify /\ Current \in Ids /\ Current' = Current
  BY <1>1, CurrentIsFirst DEF Inv, TypeOK, Current
<1>3. contact \in 1 .. Contacts /\ contact' \in 1 .. Contacts + 1
  BY <1>1, ContactsAssumption DEF Inv, TypeOK
<1>4. mail \in (1 .. Contacts) \X Ids
  BY <1>2, <1>3
<1>5. TypeOK'
  <2>1. Ids' = Ids
    BY <1>1 DEF Ids, tableVars
  <2> QED BY <1>1, <1>3, <1>4, <2>1 DEF Inv, TypeOK, tableVars
<1>6. mail \in mailed => Current \in forgotten
  BY <1>2, <1>3, ContactsAssumption DEF Inv, InOrder
<1>7. NotifiedOnce'
  BY <1>1, <1>6 DEF Inv, NotifiedOnce, Ids, tableVars
<1>8. RememberedWereMailed'
  BY <1>1 DEF Inv, RememberedWereMailed
<1>9. MailedAreKnown'
  BY <1>1, <1>2 DEF Inv, TypeOK, MailedAreKnown, Ids, tableVars
<1>10. InOrder'
  <2>1. ASSUME NEW p \in toNotify, NEW c \in 1 .. Contacts, <<c, p>> \in mailed'
        PROVE  p \in forgotten \/ (p = Current /\ c < contact')
    <3>1. CASE <<c, p>> = mail
      BY <1>1, <1>3, <3>1, ContactsAssumption
    <3>2. CASE <<c, p>> \in mailed
      BY <1>1, <1>3, <3>2, ContactsAssumption DEF Inv, InOrder
    <3> QED BY <1>1, <2>1, <3>1, <3>2
  <2>2. ASSUME NEW c \in 1 .. contact' - 1
        PROVE  <<c, Current>> \in mailed'
    <3>1. c = contact \/ c \in 1 .. contact - 1
      BY <1>1, <1>3, ContactsAssumption
    <3> QED BY <1>1, <3>1 DEF Inv, InOrder
  <2> QED BY <1>1, <1>2, <2>1, <2>2 DEF InOrder
<1> QED BY <1>5, <1>7, <1>8, <1>9, <1>10 DEF Inv

\* The mails about a problem are over, after the last contact or a failure.
LEMMA DoneInv == Inv /\ (Notified \/ SendMailFails) => Inv'
<1> SUFFICES ASSUME Inv, Notified \/ SendMailFails PROVE Inv'
  OBVIOUS
<1>1. /\ toNotify # {} /\ toNotify' = toNotify \ {Current} /\ contact' = 1
      /\ UNCHANGED <<tableVars, lastProblems, mailed, again, forgotten>>
  BY DEF Notified, SendMailFails, NextProblem, mailVars
<1>2. Current \in toNotify /\ Current \in Ids
  BY <1>1, CurrentIsFirst DEF Inv, TypeOK
<1>3. contact \in 1 .. Contacts + 1
  BY DEF Inv, TypeOK
<1>4. /\ failed \subseteq failed' /\ failed' \subseteq (1 .. Contacts) \X Ids
      /\ faults' \in 0 .. MaxFaults
  <2>1. CASE Notified
    BY <2>1 DEF Notified, Inv, TypeOK, mailVars
  <2>2. CASE SendMailFails
    <3>1. contact \in 1 .. Contacts
      BY <1>3, <2>2, ContactsAssumption DEF SendMailFails
    <3>2. <<contact, Current>> \in (1 .. Contacts) \X Ids
      BY <1>2, <3>1
    <3> QED BY <2>2, <3>2, FaultCounted DEF SendMailFails, Inv, TypeOK
  <2> QED BY <2>1, <2>2
<1>5. \A c \in 1 .. Contacts : <<c, Current>> \in mailed \/ \E b \in 1 .. c : <<b, Current>> \in failed'
  <2> SUFFICES ASSUME NEW c \in 1 .. Contacts, <<c, Current>> \notin mailed
               PROVE  \E b \in 1 .. c : <<b, Current>> \in failed'
    OBVIOUS
  <2>1. c \notin 1 .. contact - 1
    BY <1>1 DEF Inv, InOrder
  <2>2. contact \in 1 .. c
    BY <1>3, <2>1, ContactsAssumption
  <2>3. CASE Notified
    BY <1>3, <2>2, <2>3, ContactsAssumption DEF Notified
  <2>4. CASE SendMailFails
    BY <2>2, <2>4 DEF SendMailFails
  <2> QED BY <2>3, <2>4
<1>6. TypeOK'
  <2>1. Ids' = Ids
    BY <1>1 DEF Ids, tableVars
  <2>2. contact' \in 1 .. Contacts + 1
    BY <1>1, ContactsAssumption
  <2> QED BY <1>1, <1>4, <2>1, <2>2 DEF Inv, TypeOK, tableVars
<1>7. NotifiedOnce' /\ MailedAreKnown'
  BY <1>1 DEF Inv, NotifiedOnce, MailedAreKnown, Ids, tableVars
<1>8. RememberedWereMailed'
  BY <1>1, <1>4, <1>5 DEF Inv, RememberedWereMailed
<1>9. InOrder'
  <2>1. \A p \in toNotify', c \in 1 .. Contacts : <<c, p>> \in mailed' => p \in forgotten'
    BY <1>1 DEF Inv, InOrder
  <2>2. 1 .. contact' - 1 = {}
    BY <1>1
  <2> QED BY <2>1, <2>2 DEF InOrder
<1> QED BY <1>6, <1>7, <1>8, <1>9 DEF Inv

LEMMA NextInv == Inv /\ [Next]_vars => Inv'
<1> SUFFICES ASSUME Inv, [Next]_vars PROVE Inv'
  OBVIOUS
<1>1. CASE UNCHANGED vars
  <2>1. TypeOK'
    BY <1>1 DEF Inv, TypeOK, Ids, vars, tableVars, mailVars
  <2>2. NotifiedOnce' /\ RememberedWereMailed' /\ MailedAreKnown' /\ InOrder'
    BY <1>1 DEF Inv, NotifiedOnce, RememberedWereMailed, MailedAreKnown, InOrder, Current, Ids,
                vars, tableVars, mailVars
  <2> QED BY <2>1, <2>2 DEF Inv
<1>2. ASSUME NEW p \in 1 .. MaxProblems, ProblemClosed(p) PROVE Inv'
  BY <1>2, ClosedInv
<1> QED BY <1>1, <1>2, OpenedInv, PollInv, ForgetInv, SendMailInv, DoneInv DEF Next, NotifierStep

-----------------------------------------------------------------------------
(* The theorems.                                                            *)

\* TypeOK: no list of contacts or problems makes the notifier leave its ranges.
THEOREM NotifierTypeCorrect == Spec => []TypeOK
<1>1. Inv => TypeOK
  BY DEF Inv
<1> QED BY <1>1, InitInv, NextInv, PTL DEF Spec

\* NotifiedOnce: for any number of contacts and problems, a second mail needs a failed
\* poll or a restart.
THEOREM SecondMailNeedsForgetting == Spec => []NotifiedOnce
<1>1. Inv => NotifiedOnce
  BY DEF Inv
<1> QED BY <1>1, InitInv, NextInv, PTL DEF Spec

\* RememberedWereMailed: a missing mail needs a failed one.
THEOREM MissingMailNeedsFailure == Spec => []RememberedWereMailed
<1>1. Inv => RememberedWereMailed
  BY DEF Inv
<1> QED BY <1>1, InitInv, NextInv, PTL DEF Spec
=============================================================================
