-------------------------------- MODULE Bus --------------------------------
(***************************************************************************)
(* The message bus of the master (master/bus.go).  Components write to     *)
(* bounded channels of their own; the goroutine of Run selects one that    *)
(* has a message and passes the message on to the channel of every reader, *)
(* or drops it where that channel is full.  A component that registers to  *)
(* write interrupts the select, which does not know its channel yet.       *)
(***************************************************************************)
EXTENDS Naturals, Sequences

CONSTANTS
    Writers, Readers,
    Capacity           \* of every channel; 1000 in the code

ASSUME CapacityAssumption == Capacity \in Nat \ {0}

VARIABLES
    writeChannels,     \* the channels of the registered writers
    readChannels,      \* the channels of the registered readers
    registering,       \* writers that have not interrupted the bus yet
    internalChannel,   \* the number of interrupts in it
    selects,           \* the writers that the select knows
    selecting          \* Run waits in select

busVars == <<writeChannels, readChannels, registering, internalChannel, selects, selecting>>

BusInit ==
    /\ writeChannels = <<>>
    /\ readChannels = <<>>
    /\ registering = {}
    /\ internalChannel = 0
    /\ selects = {}
    /\ selecting = FALSE

NewChannel(channels, x) ==
    [y \in DOMAIN channels \cup {x} |-> IF y = x THEN <<>> ELSE channels[y]]

Full(channel) == Len(channel) >= Capacity

-----------------------------------------------------------------------------
(* The components' side.                                                    *)

GetNewReadChannel(r) ==
    /\ r \notin DOMAIN readChannels
    /\ readChannels' = NewChannel(readChannels, r)
    /\ UNCHANGED <<writeChannels, registering, internalChannel, selects, selecting>>

GetNewWriteChannel(w) ==
    /\ w \notin DOMAIN writeChannels
    /\ writeChannels' = NewChannel(writeChannels, w)
    /\ registering' = registering \cup {w}
    /\ UNCHANGED <<readChannels, internalChannel, selects, selecting>>

\* Mutant: the bus is not interrupted.
InterruptNot(w) ==
    /\ w \in registering
    /\ registering' = registering \ {w}
    /\ UNCHANGED <<writeChannels, readChannels, internalChannel, selects, selecting>>

\* The rest of GetNewWriteChannel.
Interrupt(w) ==
    /\ w \in registering
    /\ internalChannel < Capacity
    /\ internalChannel' = internalChannel + 1
    /\ registering' = registering \ {w}
    /\ UNCHANGED <<writeChannels, readChannels, selects, selecting>>

\* GetNewWriteChannel has returned.
Registered(w) == w \in DOMAIN writeChannels \ registering

\* A full channel blocks its writer.
Send(w, message) ==
    /\ Registered(w)
    /\ ~Full(writeChannels[w])
    /\ writeChannels' = [writeChannels EXCEPT ![w] = Append(@, message)]
    /\ UNCHANGED <<readChannels, registering, internalChannel, selects, selecting>>

\* The channel of r without its first message.
Take(r) ==
    /\ r \in DOMAIN readChannels
    /\ readChannels[r] # <<>>
    /\ readChannels' = [readChannels EXCEPT ![r] = Tail(@)]
    /\ UNCHANGED <<writeChannels, registering, internalChannel, selects, selecting>>

-----------------------------------------------------------------------------
(* Run.                                                                     *)

BuildSelect ==
    /\ ~selecting
    /\ selects' = DOMAIN writeChannels
    /\ selecting' = TRUE
    /\ UNCHANGED <<writeChannels, readChannels, registering, internalChannel>>

\* Mutant: without the "continue", the interrupt is passed on as well.
ReceiveInterruptPasses ==
    /\ selecting
    /\ internalChannel > 0
    /\ internalChannel' = internalChannel - 1
    /\ readChannels' = [r \in DOMAIN readChannels |->
                           IF Full(readChannels[r]) THEN readChannels[r]
                           ELSE Append(readChannels[r], [interrupt |-> TRUE])]
    /\ selecting' = FALSE
    /\ UNCHANGED <<writeChannels, registering, selects>>

\* "continue with new select so that new channels are included in select"
ReceiveInterrupt ==
    /\ selecting
    /\ internalChannel > 0
    /\ internalChannel' = internalChannel - 1
    /\ selecting' = FALSE
    /\ UNCHANGED <<writeChannels, readChannels, registering, selects>>

\* Every reader gets the message, unless its channel is full.
Receive(w) ==
    /\ selecting
    /\ w \in selects /\ writeChannels[w] # <<>>
    /\ writeChannels' = [writeChannels EXCEPT ![w] = Tail(@)]
    /\ readChannels' = [r \in DOMAIN readChannels |->
                           IF Full(readChannels[r]) THEN readChannels[r]
                           ELSE Append(readChannels[r], Head(writeChannels[w]))]
    /\ selecting' = FALSE
    /\ UNCHANGED <<registering, internalChannel, selects>>

BusStep == BuildSelect \/ ReceiveInterrupt \/ \E w \in Writers : Receive(w)

\* Run goes on, and select is random.
BusFairness ==
    /\ WF_busVars(BuildSelect)
    /\ SF_busVars(ReceiveInterrupt)
    /\ \A w \in Writers : SF_busVars(Receive(w))
-----------------------------------------------------------------------------
(* Property.                                                                *)

\* "interrupt" of GetNewWriteChannel is not lost: when the select that waits was built
\* without the channel of a writer, the interrupt that ends it is still to come.
WritersAreHeard ==
    \A w \in DOMAIN writeChannels :
        selecting => w \in selects \/ w \in registering \/ internalChannel > 0
=============================================================================
