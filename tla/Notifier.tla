------------------------------ MODULE Notifier ------------------------------
(***************************************************************************)
(* The notifier (notifier/controller.go, notifiers.go): a process of its   *)
(* own that polls the open problems over the API of the master and mails   *)
(* each to its contacts once.  What it has notified is only in memory.     *)
(* Problems are known by their ids; the problem manager, which opens and   *)
(* closes them, is the environment here.                                   *)
(***************************************************************************)
EXTENDS Integers

CONSTANTS
    Contacts,       \* number of contacts, in the order of the mails
    MaxProblems,    \* bound on the problems that are ever opened
    MaxFaults       \* bound on what goes wrong

ASSUME ContactsAssumption == Contacts \in Nat
ASSUME MaxProblemsAssumption == MaxProblems \in Nat
ASSUME MaxFaultsAssumption == MaxFaults \in Nat

VARIABLES
    problems,       \* the table of the master: ids of the open problems
    lastId,         \* the sequence of its ids
    lastProblems,   \* the problems that the notifier remembers
    toNotify,       \* those of the last poll that it is not through with
    contact,        \* who gets the next mail about the first of them
    mailed, failed, \* <<contact, problem>>: a mail was sent, a mail could not be sent
    again,          \* <<contact, problem>>: a mail was sent more than once
    forgotten,      \* problems that a failed poll or a restart made it forget
    faults

tableVars == <<problems, lastId>>
mailVars  == <<mailed, failed, again>>
vars == <<tableVars, lastProblems, toNotify, contact, mailVars, forgotten, faults>>

Init ==
    /\ problems = {} /\ lastId = 0
    /\ lastProblems = {} /\ toNotify = {} /\ contact = 1
    /\ mailed = {} /\ failed = {} /\ again = {}
    /\ forgotten = {}
    /\ faults = 0

Fault == /\ faults < MaxFaults
         /\ faults' = faults + 1

-----------------------------------------------------------------------------
(* The problem manager: a problem keeps its row while it is open, and gets a *)
(* new one when it is opened again.                                          *)

ProblemOpened ==
    /\ lastId < MaxProblems
    /\ lastId' = lastId + 1
    /\ problems' = problems \cup {lastId'}
    /\ UNCHANGED <<lastProblems, toNotify, contact, mailVars, forgotten, faults>>

ProblemClosed(p) ==
    /\ p \in problems
    /\ problems' = problems \ {p}
    /\ UNCHANGED <<lastId, lastProblems, toNotify, contact, mailVars, forgotten, faults>>

-----------------------------------------------------------------------------
(* The notifier.                                                            *)

\* Mutant: the inner loop is not left when it has found the problem.
CleanedUnbroken(received) ==
    {p \in lastProblems \cap received : \A q \in received : q <= p}

\* "Clean old problems"
Cleaned(received) == lastProblems \cap received

\* diffProblems.
Diff(received) ==
    /\ toNotify = {}
    /\ lastProblems' = Cleaned(received) \cup received
    /\ toNotify' = received \ Cleaned(received)
    /\ contact' = 1
    /\ UNCHANGED <<tableVars, mailVars>>

\* Mutant: the master answers with the first problem only.
PollFirst ==
    /\ Diff({p \in problems : \A q \in problems : p <= q})
    /\ UNCHANGED <<forgotten, faults>>

\* Receive, from ProblemIndex.
Poll == Diff(problems) /\ UNCHANGED <<forgotten, faults>>

\* The master does not answer, or its answer cannot be read: the error is logged and
\* the loop goes on with no problems.
PollFails ==
    /\ Fault
    /\ Diff({})
    /\ forgotten' = forgotten \cup lastProblems

\* Problems come in the order of their ids.
Current == CHOOSE p \in toNotify : \A q \in toNotify : p <= q

NextProblem == /\ toNotify' = toNotify \ {Current}
               /\ contact' = 1

\* Mutant: runs past the last contact.
SendMailOverrun ==
    /\ toNotify # {} /\ contact <= Contacts + 1
    /\ mailed' = mailed \cup {<<contact, Current>>}
    /\ again' = again \cup ({<<contact, Current>>} \cap mailed)
    /\ contact' = contact + 1
    /\ UNCHANGED <<tableVars, lastProblems, toNotify, failed, forgotten, faults>>

\* Mutant: nobody but the first contact gets a mail.
SendMailFirst ==
    /\ toNotify # {} /\ contact <= Contacts
    /\ mailed' = mailed \cup {<<contact, Current>>}
    /\ again' = again \cup ({<<contact, Current>>} \cap mailed)
    /\ NextProblem
    /\ UNCHANGED <<tableVars, lastProblems, failed, forgotten, faults>>

SendMail ==
    /\ toNotify # {} /\ contact <= Contacts
    /\ mailed' = mailed \cup {<<contact, Current>>}
    /\ again' = again \cup ({<<contact, Current>>} \cap mailed)
    /\ contact' = contact + 1
    /\ UNCHANGED <<tableVars, lastProblems, toNotify, failed, forgotten, faults>>

\* The relay refuses a mail: the contacts that follow get none, and nobody tries again.
SendMailFails ==
    /\ Fault
    /\ toNotify # {} /\ contact <= Contacts
    /\ failed' = failed \cup {<<contact, Current>>}
    /\ NextProblem
    /\ UNCHANGED <<tableVars, lastProblems, mailed, again, forgotten>>

Notified ==
    /\ toNotify # {} /\ contact > Contacts
    /\ NextProblem
    /\ UNCHANGED <<tableVars, lastProblems, mailVars, forgotten, faults>>

Restart ==
    /\ Fault
    /\ lastProblems' = {} /\ toNotify' = {} /\ contact' = 1
    /\ forgotten' = forgotten \cup lastProblems
    /\ UNCHANGED <<tableVars, mailVars>>

NotifierStep == Poll \/ SendMail \/ Notified

Next ==
    \/ ProblemOpened
    \/ \E p \in 1 .. MaxProblems : ProblemClosed(p)
    \/ NotifierStep \/ PollFails \/ SendMailFails \/ Restart

\* The loop of main goes on.
Spec == Init /\ [][Next]_vars /\ WF_vars(NotifierStep)

-----------------------------------------------------------------------------
(* Properties.                                                              *)

Ids == 1 .. lastId

\* The index of the contact stays in its range, and only problems that the notifier
\* remembers are being notified.
TypeOK ==
    /\ lastId \in 0 .. MaxProblems
    /\ problems \subseteq Ids
    /\ lastProblems \subseteq Ids /\ toNotify \subseteq lastProblems
    /\ contact \in 1 .. Contacts + 1
    /\ mailed \subseteq (1 .. Contacts) \X Ids
    /\ failed \subseteq (1 .. Contacts) \X Ids
    /\ again \subseteq mailed
    /\ forgotten \subseteq Ids
    /\ faults \in 0 .. MaxFaults

\* "remove already notified problems": nobody gets a second mail about a problem,
\* however it comes and goes between polls and mails, unless a poll failed or the
\* notifier was restarted while it knew the problem.
NotifiedOnce == \A c \in 1 .. Contacts, p \in Ids : <<c, p>> \in again => p \in forgotten

\* The notifier gives up a mail only over an error: of a problem that it takes for
\* notified, every contact was mailed, except the one whose mail failed and those that
\* follow.
RememberedWereMailed ==
    \A p \in lastProblems \ toNotify, c \in 1 .. Contacts :
        <<c, p>> \in mailed \/ \E b \in 1 .. c : <<b, p>> \in failed

\* A problem that stays open reaches every contact, whatever polls fail and however
\* often the notifier is restarted, unless a mail about it fails.
EveryoneIsTold ==
    \A p \in 1 .. MaxProblems, c \in 1 .. Contacts :
        p \in problems ~> \/ p \notin problems
                          \/ <<c, p>> \in mailed
                          \/ \E b \in 1 .. c : <<b, p>> \in failed
=============================================================================
