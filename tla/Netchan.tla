---------------------------- MODULE Netchan ----------------------------
(***************************************************************************)
(* The network channel from the server to one client.                      *)
(*                                                                         *)
(* Sender: netchan_t of the client's slot and the queue of whole messages  *)
(* in front of it (client_t.netchan_start_queue).  A message of            *)
(* FRAGMENT_SIZE or more leaves in fragments, the first at once and the    *)
(* others from SV_SendQueuedMessages; a message handed over meanwhile      *)
(* waits, unencoded, in the queue.  Receiver: the netchan_t of the other   *)
(* end, running Netchan_Process on whatever packets the wire delivers.     *)
(*                                                                         *)
(* A message is a sequence of units; a unit stands for a run of bytes.     *)
(* Its first unit is the number of the last client command the server had  *)
(* executed (the long every server message starts with).  The XOR of       *)
(* SV_Netchan_Encode is kept as the key each unit was combined with: a     *)
(* unit decodes only under the key it was encoded with.                    *)
(***************************************************************************)
EXTENDS Integers, Sequences

CONSTANTS
    Bodies,         \* message contents behind the first unit
    FRAGMENT_SIZE,
    MAX_MSGLEN,
    SHORT_RANGE,    \* number of values of a short on the wire (65536)
    ReliableWire,   \* TRUE: every packet arrives, once, in order
    MaxMessages,    \* bound: messages accepted for this client
    MaxCommands     \* bound: client commands executed

ASSUME NetchanAssumption ==
    /\ FRAGMENT_SIZE \in Nat \ {0}
    /\ MAX_MSGLEN \in Nat
    /\ SHORT_RANGE \in Nat
    /\ MAX_MSGLEN < SHORT_RANGE
    /\ Bodies \subseteq Seq(Nat)
    /\ \A b \in Bodies : Len(b) < MAX_MSGLEN
    /\ ReliableWire \in BOOLEAN
    /\ MaxMessages \in Nat
    /\ MaxCommands \in Nat

VARIABLES
    outgoingSequence, unsentFragments, unsentFragmentStart, unsentBuffer,
    netchan_queue,      \* [msg, clientCommandString] records, oldest first
    lastClientCommand,  \* the text of command n is n itself
    finalRound,         \* rounds of SV_FinalMessage done; 2 = server gone
    wire,
    incomingSequence, fragmentSequence,
    fragmentBuffer,     \* its first fragmentLength units
    transmitted,        \* history: message sent under each sequence number
    received            \* history: what Netchan_Process returned qtrue for

sender == <<outgoingSequence, unsentFragments, unsentFragmentStart,
            unsentBuffer>>
receiver == <<incomingSequence, fragmentSequence, fragmentBuffer>>
vars == <<sender, netchan_queue, lastClientCommand, finalRound, wire,
          receiver, transmitted, received>>

-----------------------------------------------------------------------------
(* Data *)

SV_ENCODE_START == 1                 \* the four bytes of the first long

\* What the server builds: the last client command executed, then a body.
Build(command, body) == <<command>> \o body

Message == {Build(c, b) : c \in 0..MaxCommands, b \in Bodies}

Key(sequence, string) == <<sequence, string>>

Unit == [byte : Nat, key : Nat \X Nat]

\* The key of unit i of a message sent as number sequence.
UnitKey(i, sequence, string) ==
    IF i <= SV_ENCODE_START THEN Key(0, 0) ELSE Key(sequence, string)

SV_Netchan_Encode(msg, sequence, string) ==
    [i \in 1..Len(msg) |->
        [byte |-> msg[i], key |-> UnitKey(i, sequence, string)]]

Garbled == -1

\* The other end's inverse of SV_Netchan_Encode: the key is made from the
\* sequence number of the packet and from the client's own copy of the
\* command the message acknowledges.
Decode(data, sequence) ==
    [i \in 1..Len(data) |->
        IF data[i].key = UnitKey(i, sequence, data[1].byte)
        THEN data[i].byte ELSE Garbled]

MSG_WriteShort(i) == i % SHORT_RANGE

MSG_ReadShort(w) == IF 2 * w >= SHORT_RANGE THEN w - SHORT_RANGE ELSE w

-----------------------------------------------------------------------------
(* Sender *)

FragmentLength(buffer, start) ==
    IF start + FRAGMENT_SIZE > Len(buffer)
    THEN Len(buffer) - start ELSE FRAGMENT_SIZE

\* Mutation: no empty fragment after a last one of full size.
LastFragmentAnySize(buffer, start) ==
    start + FragmentLength(buffer, start) = Len(buffer)

\* A fragment of full size is never the last one: the other end could not
\* tell that no more follow.
LastFragment(buffer, start) ==
    /\ start + FragmentLength(buffer, start) = Len(buffer)
    /\ FragmentLength(buffer, start) # FRAGMENT_SIZE

\* Netchan_TransmitNextFragment on a buffer of which start units are sent.
SendFragment(buffer, start) ==
    LET len  == FragmentLength(buffer, start)
        done == LastFragment(buffer, start)
    IN  /\ wire' = wire \cup
                   {[fragmented |-> TRUE, sequence |-> outgoingSequence,
                     start |-> MSG_WriteShort(start),
                     data |-> SubSeq(buffer, start + 1, start + len)]}
        /\ unsentBuffer' = buffer
        /\ unsentFragmentStart' = start + len
        /\ unsentFragments' = ~done
        /\ outgoingSequence' = outgoingSequence + IF done THEN 1 ELSE 0

\* Netchan_Transmit of a message that fits in one packet.
SendWhole(data) ==
    /\ wire' = wire \cup {[fragmented |-> FALSE, start |-> 0,
                           sequence |-> outgoingSequence, data |-> data]}
    /\ unsentFragmentStart' = 0
    /\ outgoingSequence' = outgoingSequence + 1
    /\ UNCHANGED <<unsentFragments, unsentBuffer>>

\* SV_Netchan_Encode followed by Netchan_Transmit.
Netchan_Transmit(msg, string) ==
    LET data == SV_Netchan_Encode(msg, outgoingSequence, string)
    IN  /\ IF Len(data) >= FRAGMENT_SIZE
           THEN SendFragment(data, 0) ELSE SendWhole(data)
        /\ transmitted' = Append(transmitted, msg)

\* Something is still to leave before the next message may be transmitted.
Pending == unsentFragments \/ netchan_queue # <<>>

\* Mutation: no queue.
TransmitAtOnce(msg) ==
    /\ Netchan_Transmit(msg, lastClientCommand)
    /\ UNCHANGED netchan_queue

SV_Netchan_Transmit(msg) ==
    \/ /\ Pending
       /\ netchan_queue' =
            Append(netchan_queue,
                   [msg |-> msg, clientCommandString |-> lastClientCommand])
       /\ UNCHANGED <<sender, wire, transmitted>>
    \/ /\ ~Pending
       /\ Netchan_Transmit(msg, lastClientCommand)
       /\ UNCHANGED netchan_queue

\* Mutation: the newest message of the queue first.
TransmitLastInQueue ==
    LET n == Len(netchan_queue)
    IN  /\ Netchan_Transmit(netchan_queue[n].msg,
                            netchan_queue[n].clientCommandString)
        /\ netchan_queue' = SubSeq(netchan_queue, 1, n - 1)

TransmitNextInQueue ==
    /\ Netchan_Transmit(Head(netchan_queue).msg,
                        Head(netchan_queue).clientCommandString)
    /\ netchan_queue' = Tail(netchan_queue)

-----------------------------------------------------------------------------
(* Server actions *)

Running == finalRound = 0

\* A message is built (it acknowledges the last client command) and sent.
SendMessage(body) ==
    /\ Running
    /\ Len(transmitted) + Len(netchan_queue) < MaxMessages
    /\ SV_Netchan_Transmit(Build(lastClientCommand, body))
    /\ UNCHANGED <<lastClientCommand, finalRound, receiver, received>>

\* SV_SendQueuedMessages found SV_RateMsec at zero for this client.
SV_Netchan_TransmitNextFragment ==
    /\ Running
    /\ \/ /\ unsentFragments
          /\ SendFragment(unsentBuffer, unsentFragmentStart)
          /\ UNCHANGED <<netchan_queue, transmitted>>
       \/ /\ ~unsentFragments /\ netchan_queue # <<>>
          /\ TransmitNextInQueue
    /\ UNCHANGED <<lastClientCommand, finalRound, receiver, received>>

\* SV_DropClient frees the queue; the slot stays a zombie and fragments
\* already begun still leave.
SV_Netchan_FreeQueue ==
    /\ Running
    /\ netchan_queue # <<>>
    /\ netchan_queue' = <<>>
    /\ UNCHANGED <<sender, lastClientCommand, finalRound, wire, receiver,
                   transmitted, received>>

SV_ClientCommand ==
    /\ Running
    /\ lastClientCommand < MaxCommands
    /\ lastClientCommand' = lastClientCommand + 1
    /\ UNCHANGED <<sender, netchan_queue, finalRound, wire, receiver,
                   transmitted, received>>

\* One of the two rounds of SV_FinalMessage; nothing else of the server runs
\* between them, and the server is gone after the second.
SV_FinalMessage(body) ==
    /\ finalRound < 2
    /\ finalRound' = finalRound + 1
    /\ SV_Netchan_Transmit(Build(lastClientCommand, body))
    /\ UNCHANGED <<lastClientCommand, receiver, received>>

-----------------------------------------------------------------------------
(* Wire and receiver *)

Take(sequence, data) ==
    /\ incomingSequence' = sequence
    /\ received' = Append(received, [sequence |-> sequence,
                                     message |-> Decode(data, sequence)])

\* Mutation: a duplicate of the last packet is processed.
OlderThanLast(p) == p.sequence < incomingSequence

OutOfOrder(p) == p.sequence <= incomingSequence

\* Mutation: a fragment of another message does not restart the buffer.
AssembledAnyMessage(p) == fragmentBuffer

\* The part already assembled of the message p is a fragment of.
Assembled(p) ==
    IF p.sequence = fragmentSequence THEN fragmentBuffer ELSE <<>>

Netchan_Process(p) ==
    \/ /\ OutOfOrder(p)
       /\ UNCHANGED <<receiver, received>>
    \/ /\ ~OutOfOrder(p)
       /\ ~p.fragmented
       /\ Take(p.sequence, p.data)
       /\ UNCHANGED <<fragmentSequence, fragmentBuffer>>
    \/ /\ ~OutOfOrder(p)
       /\ p.fragmented
       /\ LET have == Assembled(p)
              fits == /\ MSG_ReadShort(p.start) = Len(have)
                      /\ Len(have) + Len(p.data) <= MAX_MSGLEN
          IN  /\ fragmentSequence' = p.sequence
              /\ \/ /\ ~fits
                    /\ fragmentBuffer' = have
                    /\ UNCHANGED <<incomingSequence, received>>
                 \/ /\ fits /\ Len(p.data) = FRAGMENT_SIZE
                    /\ fragmentBuffer' = have \o p.data
                    /\ UNCHANGED <<incomingSequence, received>>
                 \/ /\ fits /\ Len(p.data) # FRAGMENT_SIZE
                    /\ fragmentBuffer' = <<>>
                    /\ Take(p.sequence, have \o p.data)

Oldest(p) ==
    \A q \in wire : \/ p.sequence < q.sequence
                    \/ p.sequence = q.sequence /\ p.start <= q.start

\* A packet arrives.  On an unreliable wire it stays, to arrive again later;
\* packets arrive in any order, and one that never does is lost.
Receive(p) ==
    /\ ReliableWire => Oldest(p)
    /\ wire' = IF ReliableWire THEN wire \ {p} ELSE wire
    /\ Netchan_Process(p)
    /\ UNCHANGED <<sender, netchan_queue, lastClientCommand, finalRound,
                   transmitted>>

-----------------------------------------------------------------------------
\* Mutation: both directions start at zero.
Netchan_SetupZero ==
    /\ outgoingSequence = 0 /\ incomingSequence = 0
    /\ unsentFragments = FALSE /\ unsentFragmentStart = 0
    /\ unsentBuffer = <<>>
    /\ fragmentSequence = 0 /\ fragmentBuffer = <<>>

\* Both ends.
Netchan_Setup ==
    /\ outgoingSequence = 1 /\ incomingSequence = 0
    /\ unsentFragments = FALSE /\ unsentFragmentStart = 0
    /\ unsentBuffer = <<>>
    /\ fragmentSequence = 0 /\ fragmentBuffer = <<>>

Init ==
    /\ Netchan_Setup
    /\ netchan_queue = <<>>
    /\ lastClientCommand = 0
    /\ finalRound = 0
    /\ wire = {}
    /\ transmitted = <<>>
    /\ received = <<>>

Server ==
    \/ \E body \in Bodies : SendMessage(body)
    \/ SV_Netchan_TransmitNextFragment
    \/ SV_Netchan_FreeQueue
    \/ SV_ClientCommand
    \/ \E body \in Bodies : SV_FinalMessage(body)

Network == \E p \in wire : Receive(p)

Next == Server \/ Network

Spec == Init /\ [][Next]_vars

\* The main loop calls SV_SendQueuedPackets in every idle slice, and a wire
\* that loses nothing delivers.
Fairness ==
    /\ WF_vars(SV_Netchan_TransmitNextFragment)
    /\ WF_vars(Network)

FairSpec == Spec /\ Fairness

-----------------------------------------------------------------------------
(* Properties *)

Packet ==
    [fragmented : BOOLEAN, sequence : Nat, start : Nat, data : Seq(Unit)]

QueueEntry == [msg : Message, clientCommandString : Nat]

Arrival == [sequence : Nat, message : Seq(Int)]

\* Types; the part of a message already sent is a part of it.
TypeOK ==
    /\ outgoingSequence \in Nat \ {0}
    /\ unsentFragments \in BOOLEAN
    /\ unsentBuffer \in Seq(Unit)
    /\ unsentFragmentStart \in 0..Len(unsentBuffer)
    /\ netchan_queue \in Seq(QueueEntry)
    /\ lastClientCommand \in 0..MaxCommands
    /\ finalRound \in 0..2
    /\ wire \subseteq Packet
    /\ incomingSequence \in Nat
    /\ fragmentSequence \in Nat
    /\ fragmentBuffer \in Seq(Unit)
    /\ transmitted \in Seq(Message)
    /\ received \in Seq(Arrival)

\* Whatever the wire does, what Netchan_Process hands up is, whole and
\* decoded, the message the server transmitted under that number: fragments
\* of two messages are never joined and no message is read with the key of
\* another (what the queue and the late encoding of sv_net_chan.c are for).
DeliveredIntact ==
    \A k \in 1..Len(received) :
        /\ received[k].sequence \in 1..Len(transmitted)
        /\ received[k].message = transmitted[received[k].sequence]

\* No message is handed up twice or after a newer one.
DeliveredInOrder ==
    \A j, k \in 1..Len(received) :
        j < k => received[j].sequence < received[k].sequence

-----------------------------------------------------------------------------
(* The inductive invariant behind DeliveredIntact and DeliveredInOrder. *)

\* What the message sent as number n looks like on the wire.
Encoded(n) == SV_Netchan_Encode(transmitted[n], n, transmitted[n][1])

\* The number in use belongs to the message being fragmented, or is free.
SenderInv ==
    /\ outgoingSequence =
         Len(transmitted) + IF unsentFragments THEN 0 ELSE 1
    /\ unsentFragments => /\ transmitted # <<>>
                          /\ unsentBuffer = Encoded(outgoingSequence)

\* A queued message will be encoded with the command it acknowledges.
QueueInv ==
    \A i \in 1..Len(netchan_queue) :
        netchan_queue[i].clientCommandString = netchan_queue[i].msg[1]

\* Every packet on the wire is a piece of the message it is numbered for.
PacketInv(p) ==
    /\ p.sequence \in 1..Len(transmitted)
    /\ p.fragmented =>
         /\ p.start \in 0..Len(Encoded(p.sequence))
         /\ p.data = SubSeq(Encoded(p.sequence), p.start + 1,
               p.start + FragmentLength(Encoded(p.sequence), p.start))
    /\ ~p.fragmented => p.data = Encoded(p.sequence)

WireInv == \A p \in wire : PacketInv(p)

\* The reassembly buffer is a beginning of the message it is numbered for.
ReceiverInv ==
    fragmentBuffer # <<>> =>
        /\ fragmentSequence \in 1..Len(transmitted)
        /\ Len(fragmentBuffer) <= Len(Encoded(fragmentSequence))
        /\ fragmentBuffer =
             SubSeq(Encoded(fragmentSequence), 1, Len(fragmentBuffer))

\* Nothing newer than incomingSequence was received.
ReceivedInv ==
    /\ incomingSequence <= Len(transmitted)
    /\ \A k \in 1..Len(received) : received[k].sequence <= incomingSequence
    /\ DeliveredIntact
    /\ DeliveredInOrder

IInv == /\ TypeOK /\ SenderInv /\ QueueInv /\ WireInv /\ ReceiverInv
        /\ ReceivedInv

-----------------------------------------------------------------------------
\* The messages accepted for the client and not discarded, by the number
\* each was or will be transmitted under.
MessagesOf(q) == [i \in 1..Len(q) |-> q[i].msg]
Queued == MessagesOf(netchan_queue)
Accepted == transmitted \o Queued

Channel == INSTANCE MessageChannel
    WITH accepted <- Accepted, last <- incomingSequence

\* The fragmenting, queueing, encoding channel is a channel that numbers
\* messages in the order the server handed them over, whatever it queued.
ImplementsChannel == Channel!Spec

\* On a wire that loses nothing every message the server accepts is
\* received, unless the client is dropped or the server shuts down: also one
\* of an exact multiple of FRAGMENT_SIZE, and one queued behind others.
EveryMessageArrives ==
    \A n \in 1..MaxMessages :
        Len(Accepted) >= n ~>
            \/ \E k \in 1..Len(received) : received[k].sequence = n
            \/ Len(Accepted) < n
            \/ ~Running

\* "The messages are sent immediately, not just stuck on the outgoing message
\* list" (comment of SV_FinalMessage): when the server is gone no message
\* is left in a client's queue.
FinalMessagesLeave == finalRound = 2 => netchan_queue = <<>>
=============================================================================
