------------------------- MODULE NetchanProofs -------------------------
(***************************************************************************)
(* Proofs about Netchan, for every set of bodies, every fragment size and  *)
(* every bound.                                                            *)
(***************************************************************************)
EXTENDS Netchan, SequenceTheorems, TLAPS

-----------------------------------------------------------------------------
(* Data *)

\* What the server builds is a nonempty sequence of at most MAX_MSGLEN
\* naturals that starts with the command it acknowledges.
LEMMA BuildType ==
    ASSUME NEW c \in 0..MaxCommands, NEW b \in Bodies
    PROVE  /\ Build(c, b) \in Message
           /\ Build(c, b) \in Seq(Nat)
           /\ Len(Build(c, b)) = Len(b) + 1
           /\ Build(c, b)[1] = c
  <1>1. /\ b \in Seq(Nat) /\ c \in Nat /\ <<c>> \in Seq(Nat)
        /\ Len(<<c>>) = 1 /\ <<c>>[1] = c
    BY NetchanAssumption
  <1>2. /\ <<c>> \o b \in Seq(Nat)
        /\ Len(<<c>> \o b) = Len(<<c>>) + Len(b)
        /\ \A i \in 1 .. Len(<<c>>) + Len(b) : (<<c>> \o b)[i] =
                IF i <= Len(<<c>>) THEN <<c>>[i] ELSE b[i - Len(<<c>>)]
    BY <1>1, ConcatProperties
  <1>. QED  BY <1>1, <1>2 DEF Build, Message

\* A message of the model is a sequence of units that starts with the number of
\* a client command.
LEMMA MessageType ==
    ASSUME NEW m \in Message
    PROVE  m \in Seq(Nat) /\ Len(m) \in 1..MAX_MSGLEN /\ m[1] \in Nat
  <1>1. PICK c \in 0..MaxCommands, b \in Bodies : m = Build(c, b)
    BY DEF Message
  <1>2. /\ Len(b) \in Nat /\ Len(b) < MAX_MSGLEN /\ c \in Nat
    BY NetchanAssumption
  <1>. QED  BY <1>1, <1>2, BuildType, NetchanAssumption

\* Encoding keeps length and order.
LEMMA EncodeType ==
    ASSUME NEW m \in Seq(Nat), NEW n \in Nat, NEW s \in Nat
    PROVE  /\ SV_Netchan_Encode(m, n, s) \in Seq(Unit)
           /\ Len(SV_Netchan_Encode(m, n, s)) = Len(m)
           /\ \A i \in 1..Len(m) : SV_Netchan_Encode(m, n, s)[i] =
                [byte |-> m[i], key |-> UnitKey(i, n, s)]
  <1>1. \A i \in 1..Len(m) : m[i] \in Nat
    OBVIOUS
  <1>2. \A i \in 1..Len(m) :
            [byte |-> m[i], key |-> UnitKey(i, n, s)] \in Unit
    BY <1>1 DEF Unit, UnitKey, Key
  <1>3. Len(m) \in Nat
    OBVIOUS
  <1>. QED  BY <1>2, <1>3 DEF SV_Netchan_Encode

\* A message decodes to itself under the number it was sent with.
LEMMA DecodeEncode ==
    ASSUME NEW m \in Message, NEW n \in Nat
    PROVE  Decode(SV_Netchan_Encode(m, n, m[1]), n) = m
  <1>. DEFINE e == SV_Netchan_Encode(m, n, m[1])
  <1>1. m \in Seq(Nat) /\ 1 \in 1..Len(m) /\ m[1] \in Nat /\ Len(m) \in Nat
    BY MessageType, NetchanAssumption
  <1>2. /\ Len(e) = Len(m)
        /\ \A i \in 1..Len(m) :
             e[i] = [byte |-> m[i], key |-> UnitKey(i, n, m[1])]
    BY <1>1, EncodeType
  <1>3. e[1].byte = m[1]
    <2>1. e[1] = [byte |-> m[1], key |-> UnitKey(1, n, m[1])]
      BY <1>1, <1>2
    <2>. HIDE DEF e
    <2>. QED  BY <2>1
  <1>4. Decode(e, n) = [i \in 1..Len(m) |-> m[i]]
    <2>. HIDE DEF e
    <2>1. ASSUME NEW i \in 1..Len(m)
          PROVE  e[i].key = UnitKey(i, n, e[1].byte) /\ e[i].byte = m[i]
      <3>1. e[i] = [byte |-> m[i], key |-> UnitKey(i, n, m[1])]
        BY <1>2
      <3>2. e[i].key = UnitKey(i, n, m[1]) /\ e[i].byte = m[i]
        BY <3>1
      <3>. QED  BY <3>2, <1>3
    <2>2. ASSUME NEW i \in 1..Len(m)
          PROVE  (IF e[i].key = UnitKey(i, n, e[1].byte)
                  THEN e[i].byte ELSE Garbled) = m[i]
      BY <2>1
    <2>. QED  BY <1>1, <1>2, <2>2, Zenon DEF Decode
  <1>5. [i \in 1..Len(m) |-> m[i]] = m
    BY <1>1
  <1>. QED  BY <1>4, <1>5

\* A fragment start survives the trip through a short unless it is read
\* negative, and then it equals no length.
LEMMA ShortRoundTrip ==
    ASSUME NEW start \in 0..MAX_MSGLEN
    PROVE  /\ MSG_WriteShort(start) = start
           /\ \A len \in Nat : MSG_ReadShort(start) = len => start = len
  BY NetchanAssumption DEF MSG_WriteShort, MSG_ReadShort

-----------------------------------------------------------------------------
(* Messages in transit *)

\* The wire image of a transmitted message, and its inverse.
LEMMA EncodedType ==
    ASSUME TypeOK, NEW n \in 1..Len(transmitted)
    PROVE  /\ transmitted[n] \in Message
           /\ n \in Nat
           /\ Encoded(n) \in Seq(Unit)
           /\ Len(Encoded(n)) = Len(transmitted[n])
           /\ Len(Encoded(n)) \in 1..MAX_MSGLEN
           /\ Decode(Encoded(n), n) = transmitted[n]
  <1>1. transmitted[n] \in Message /\ n \in Nat
    BY DEF TypeOK
  <1>2. /\ transmitted[n] \in Seq(Nat) /\ transmitted[n][1] \in Nat
        /\ Len(transmitted[n]) \in 1..MAX_MSGLEN
    BY <1>1, MessageType
  <1>. QED  BY <1>1, <1>2, EncodeType, DecodeEncode DEF Encoded

\* Transmitting one more message does not change the images of the others.
LEMMA Grow ==
    ASSUME TypeOK, NEW m \in Message, transmitted' = Append(transmitted, m)
    PROVE  /\ transmitted' \in Seq(Message)
           /\ Len(transmitted') = Len(transmitted) + 1
           /\ \A n \in 1..Len(transmitted) :
                /\ n \in 1..Len(transmitted')
                /\ transmitted'[n] = transmitted[n]
                /\ Encoded(n)' = Encoded(n)
           /\ \A n \in Nat : n = Len(transmitted) + 1 =>
                /\ n \in 1..Len(transmitted')
                /\ transmitted'[n] = m
                /\ Encoded(n)' = SV_Netchan_Encode(m, n, m[1])
  <1>1. transmitted \in Seq(Message) /\ Len(transmitted) \in Nat
    BY DEF TypeOK
  <1>2. /\ transmitted' \in Seq(Message)
        /\ Len(transmitted') = Len(transmitted) + 1
        /\ \A n \in 1..Len(transmitted) : transmitted'[n] = transmitted[n]
        /\ transmitted'[Len(transmitted) + 1] = m
    BY <1>1, AppendProperties
  <1>3. ASSUME NEW n \in 1..Len(transmitted)
        PROVE  n \in 1..Len(transmitted') /\ Encoded(n)' = Encoded(n)
    BY <1>1, <1>2 DEF Encoded
  <1>4. ASSUME NEW n \in Nat, n = Len(transmitted) + 1
        PROVE  /\ n \in 1..Len(transmitted')
               /\ transmitted'[n] = m
               /\ Encoded(n)' = SV_Netchan_Encode(m, n, m[1])
    BY <1>1, <1>2, <1>4 DEF Encoded
  <1>. QED  BY <1>2, <1>3, <1>4

\* A fragment that leaves is the next piece of the buffer, and the number in
\* use is given up with the last piece only.
LEMMA FragmentSent ==
    ASSUME NEW buffer \in Seq(Unit), NEW start \in 0..Len(buffer),
           Len(buffer) <= MAX_MSGLEN, outgoingSequence \in Nat,
           SendFragment(buffer, start)
    PROVE  /\ unsentBuffer' = buffer
           /\ unsentFragmentStart' \in 0..Len(buffer)
           /\ unsentFragments' \in BOOLEAN
           /\ outgoingSequence' =
                outgoingSequence + IF unsentFragments' THEN 0 ELSE 1
           /\ \E p \in Packet :
                /\ wire' = wire \cup {p}
                /\ p.fragmented
                /\ p.sequence = outgoingSequence
                /\ p.start = start
                /\ p.data = SubSeq(buffer, start + 1,
                                   start + FragmentLength(buffer, start))
  <1>. DEFINE len == FragmentLength(buffer, start)
              p == [fragmented |-> TRUE, sequence |-> outgoingSequence,
                    start |-> MSG_WriteShort(start),
                    data |-> SubSeq(buffer, start + 1, start + len)]
  <1>1. Len(buffer) \in Nat /\ start \in Nat
    OBVIOUS
  <1>2. len \in Nat /\ start + len <= Len(buffer)
    BY <1>1, NetchanAssumption DEF FragmentLength
  <1>3. MSG_WriteShort(start) = start
    BY <1>1, ShortRoundTrip, NetchanAssumption
  <1>4. SubSeq(buffer, start + 1, start + len) \in Seq(Unit)
    <2>1. \A i \in start + 1 .. start + len : buffer[i] \in Unit
      BY <1>1, <1>2
    <2>. QED  BY <1>1, <1>2, <2>1, SubSeqProperties
  <1>5. p \in Packet
    BY <1>1, <1>3, <1>4 DEF Packet
  <1>6. /\ wire' = wire \cup {p}
        /\ unsentBuffer' = buffer
        /\ unsentFragmentStart' = start + len
        /\ unsentFragments' = ~LastFragment(buffer, start)
        /\ outgoingSequence' = outgoingSequence +
             IF LastFragment(buffer, start) THEN 1 ELSE 0
    BY DEF SendFragment
  <1>7. LastFragment(buffer, start) \in BOOLEAN
    BY DEF LastFragment
  <1>8. /\ unsentFragments' \in BOOLEAN
        /\ outgoingSequence' =
             outgoingSequence + IF unsentFragments' THEN 0 ELSE 1
    BY <1>6, <1>7
  <1>9. /\ p.fragmented /\ p.sequence = outgoingSequence
        /\ p.start = start
        /\ p.data = SubSeq(buffer, start + 1, start + len)
    BY <1>3
  <1>10. unsentFragmentStart' \in 0..Len(buffer)
    BY <1>1, <1>2, <1>6
  <1>11. \E q \in Packet :
           /\ wire' = wire \cup {q}
           /\ q.fragmented
           /\ q.sequence = outgoingSequence
           /\ q.start = start
           /\ q.data = SubSeq(buffer, start + 1, start + len)
    <2>. HIDE DEF p, len
    <2>. QED  BY <1>5, <1>6, <1>9, Zenon
  <1>. QED  BY <1>6, <1>8, <1>10, <1>11

-----------------------------------------------------------------------------
(* The sender's steps *)

SenderTypeOK ==
    /\ outgoingSequence \in Nat \ {0}
    /\ unsentFragments \in BOOLEAN
    /\ unsentBuffer \in Seq(Unit)
    /\ unsentFragmentStart \in 0..Len(unsentBuffer)
    /\ wire \subseteq Packet
    /\ transmitted \in Seq(Message)

\* A packet on the wire stays a piece of its message when another message
\* is transmitted.
LEMMA PacketKept ==
    ASSUME TypeOK, WireInv, NEW m \in Message,
           transmitted' = Append(transmitted, m), NEW p \in wire
    PROVE  PacketInv(p)'
  <1>1. PacketInv(p) /\ p.sequence \in 1..Len(transmitted)
    BY DEF WireInv, PacketInv
  <1>2. /\ p.sequence \in 1..Len(transmitted')
        /\ \A n \in 1..Len(transmitted) : Encoded(n)' = Encoded(n)
    BY <1>1, Grow
  <1>3. Encoded(p.sequence)' = Encoded(p.sequence)
    BY <1>1, <1>2
  <1>. QED  BY <1>1, <1>2, <1>3 DEF PacketInv

\* Transmitting a message gives it the number in use.
LEMMA MessageSent ==
    ASSUME TypeOK, SenderInv, WireInv, ~unsentFragments,
           NEW m \in Message, Netchan_Transmit(m, m[1])
    PROVE  SenderTypeOK' /\ SenderInv' /\ WireInv'
  <1>1. PICK k \in Nat : k = outgoingSequence
    BY DEF TypeOK
  <1>. DEFINE data == SV_Netchan_Encode(m, k, m[1])
  <1>2. k = Len(transmitted) + 1 /\ Len(transmitted) \in Nat
    BY <1>1 DEF SenderInv, TypeOK
  <1>3. /\ transmitted' = Append(transmitted, m)
        /\ IF Len(data) >= FRAGMENT_SIZE
           THEN SendFragment(data, 0) ELSE SendWhole(data)
    BY <1>1 DEF Netchan_Transmit
  <1>4. data \in Seq(Unit) /\ Len(data) \in 1..MAX_MSGLEN
    BY MessageType, EncodeType
  <1>5. /\ transmitted' \in Seq(Message)
        /\ Len(transmitted') = k
        /\ k \in 1..Len(transmitted')
        /\ transmitted'[k] = m
        /\ Encoded(k)' = data
    BY <1>2, <1>3, Grow
  <1>6. \A p \in wire : PacketInv(p)'
    BY <1>3, PacketKept
  <1>. HIDE DEF data
  <1>7. CASE Len(data) >= FRAGMENT_SIZE
    <2>1. SendFragment(data, 0) /\ 0 \in 0..Len(data)
      BY <1>3, <1>4, <1>7
    <2>2. /\ unsentBuffer' = data
          /\ unsentFragmentStart' \in 0..Len(data)
          /\ unsentFragments' \in BOOLEAN
          /\ outgoingSequence' = k + IF unsentFragments' THEN 0 ELSE 1
          /\ \E p \in Packet :
               /\ wire' = wire \cup {p}
               /\ p.fragmented
               /\ p.sequence = k
               /\ p.start = 0
               /\ p.data = SubSeq(data, 0 + 1,
                                  0 + FragmentLength(data, 0))
      BY <1>1, <1>4, <2>1, FragmentSent
    <2>3. SenderInv'
      BY <1>5, <2>2 DEF SenderInv, Encoded
    <2>4. PICK p \in Packet :
            /\ wire' = wire \cup {p}
            /\ p.fragmented
            /\ p.sequence = k
            /\ p.start = 0
            /\ p.data = SubSeq(data, 0 + 1, 0 + FragmentLength(data, 0))
      BY <2>2
    <2>5. PacketInv(p)'
      <3>1. Encoded(p.sequence)' = data /\ p.sequence \in 1..Len(transmitted')
        BY <1>5, <2>4
      <3>2. /\ p.start \in 0..Len(data)
            /\ p.data = SubSeq(data, p.start + 1,
                               p.start + FragmentLength(data, p.start))
        BY <1>4, <2>4
      <3>. QED  BY <2>4, <3>1, <3>2 DEF PacketInv, FragmentLength
    <2>6. WireInv'
      BY <1>6, <2>4, <2>5 DEF WireInv
    <2>7. SenderTypeOK'
      BY <1>2, <1>4, <1>5, <2>2, <2>4 DEF SenderTypeOK, TypeOK
    <2>. QED  BY <2>3, <2>6, <2>7
  <1>8. CASE ~(Len(data) >= FRAGMENT_SIZE)
    <2>. DEFINE p == [fragmented |-> FALSE, start |-> 0,
                      sequence |-> k, data |-> data]
    <2>1. /\ wire' = wire \cup {p}
          /\ unsentFragmentStart' = 0
          /\ outgoingSequence' = k + 1
          /\ unsentFragments' = unsentFragments
          /\ unsentBuffer' = unsentBuffer
      BY <1>1, <1>3, <1>8 DEF SendWhole
    <2>2. p \in Packet
      BY <1>4 DEF Packet
    <2>3. PacketInv(p)'
      BY <1>5 DEF PacketInv
    <2>. HIDE DEF p
    <2>4. WireInv'
      BY <1>6, <2>1, <2>3 DEF WireInv
    <2>5. SenderInv'
      BY <1>5, <2>1 DEF SenderInv
    <2>6. SenderTypeOK'
      BY <1>5, <2>1, <2>2 DEF SenderTypeOK, TypeOK
    <2>. QED  BY <2>4, <2>5, <2>6
  <1>. QED  BY <1>7, <1>8

\* The receiver's part of the invariant survives a transmission.
LEMMA ReceiverKept ==
    ASSUME TypeOK, ReceiverInv, ReceivedInv,
           UNCHANGED <<receiver, received>>,
           \/ UNCHANGED transmitted
           \/ \E m \in Message : transmitted' = Append(transmitted, m)
    PROVE  ReceiverInv' /\ ReceivedInv'
  <1>1. UNCHANGED <<incomingSequence, fragmentSequence, fragmentBuffer,
                    received>>
    BY DEF receiver
  <1>2. Len(transmitted) \in Nat /\ incomingSequence \in Nat
    BY DEF TypeOK
  <1>3. /\ Len(transmitted') \in Nat
        /\ Len(transmitted) <= Len(transmitted')
        /\ \A n \in 1..Len(transmitted) :
             /\ n \in 1..Len(transmitted')
             /\ transmitted'[n] = transmitted[n]
             /\ Encoded(n)' = Encoded(n)
    <2>1. CASE UNCHANGED transmitted
      BY <1>2, <2>1 DEF Encoded
    <2>2. ASSUME NEW m \in Message, transmitted' = Append(transmitted, m)
          PROVE  <1>3!1 /\ <1>3!2 /\ <1>3!3
      BY <1>2, <2>2, Grow
    <2>. QED  BY <2>1, <2>2
  <1>4. ReceiverInv'
    <2>. SUFFICES ASSUME fragmentBuffer # <<>>
                  PROVE  ReceiverInv'
      BY <1>1 DEF ReceiverInv
    <2>1. /\ fragmentSequence \in 1..Len(transmitted)
          /\ Encoded(fragmentSequence)' = Encoded(fragmentSequence)
      <3>1. PICK n \in 1..Len(transmitted) : n = fragmentSequence
        BY DEF ReceiverInv
      <3>2. Encoded(n)' = Encoded(n)
        BY <1>3
      <3>. QED  BY <1>1, <3>1, <3>2 DEF Encoded
    <2>. QED  BY <1>1, <1>3, <2>1 DEF ReceiverInv
  <1>5. ReceivedInv'
    BY <1>1, <1>2, <1>3 DEF ReceivedInv, DeliveredIntact, DeliveredInOrder
  <1>. QED  BY <1>4, <1>5

-----------------------------------------------------------------------------
(* The receiver's steps *)

ReceiverTypeOK ==
    /\ incomingSequence \in Nat
    /\ fragmentSequence \in Nat
    /\ fragmentBuffer \in Seq(Unit)
    /\ received \in Seq(Arrival)

\* Message n, newer than all received, is handed up.
HandedUp(n) ==
    /\ incomingSequence < n
    /\ incomingSequence' = n
    /\ received' = Append(received, [sequence |-> n,
                                     message |-> transmitted[n]])

\* Taking the whole image of a newer message hands that message up and
\* leaves the history intact and in order.
LEMMA WholeTaken ==
    ASSUME TypeOK, ReceivedInv, UNCHANGED transmitted,
           NEW n \in 1..Len(transmitted), incomingSequence < n,
           Take(n, Encoded(n))
    PROVE  /\ HandedUp(n)
           /\ received' \in Seq(Arrival)
           /\ ReceivedInv'
  <1>. DEFINE r == [sequence |-> n, message |-> transmitted[n]]
  <1>1. /\ incomingSequence' = n
        /\ received' = Append(received, r)
    BY EncodedType DEF Take
  <1>2. r \in Arrival
    <2>1. transmitted[n] \in Seq(Nat) /\ n \in Nat
      BY EncodedType, MessageType
    <2>2. transmitted[n] \in Seq(Int)
      BY <2>1
    <2>. QED  BY <2>1, <2>2 DEF Arrival
  <1>3. r.sequence = n /\ r.message = transmitted[n]
    OBVIOUS
  <1>. HIDE DEF r
  <1>4. /\ received \in Seq(Arrival)
        /\ Len(received) \in Nat /\ incomingSequence \in Nat
        /\ Len(transmitted) \in Nat /\ n \in Nat
        /\ \A k \in 1..Len(received) : received[k].sequence \in Nat
    <2>1. ASSUME NEW k \in 1..Len(received)
          PROVE  received[k].sequence \in Nat
      <3>1. received[k] \in Arrival
        BY ElementOfSeq DEF TypeOK
      <3>. QED  BY <3>1 DEF Arrival
    <2>. QED  BY <2>1 DEF TypeOK
  <1>5. /\ received' \in Seq(Arrival)
        /\ Len(received') = Len(received) + 1
        /\ \A k \in 1..Len(received) : received'[k] = received[k]
        /\ received'[Len(received) + 1] = r
    BY <1>1, <1>2, <1>4, AppendProperties
  <1>6. ASSUME NEW k \in 1..Len(received')
        PROVE  \/ k \in 1..Len(received) /\ received'[k] = received[k]
               \/ k = Len(received) + 1 /\ received'[k] = r
    BY <1>4, <1>5
  <1>7. DeliveredIntact'
    <2>1. ASSUME NEW k \in 1..Len(received')
          PROVE  /\ received'[k].sequence \in 1..Len(transmitted)
                 /\ received'[k].message = transmitted[received'[k].sequence]
      BY <1>3, <1>6 DEF ReceivedInv, DeliveredIntact
    <2>. QED  BY <2>1 DEF DeliveredIntact
  <1>8. /\ \A k \in 1..Len(received') : received'[k].sequence <= n
        /\ DeliveredInOrder'
    <2>1. \A k \in 1..Len(received) : received[k].sequence < n
      BY <1>4 DEF ReceivedInv
    <2>2. ASSUME NEW k \in 1..Len(received')
          PROVE  received'[k].sequence <= n
      BY <1>3, <1>4, <1>6, <2>1
    <2>3. ASSUME NEW j \in 1..Len(received'), NEW k \in 1..Len(received'),
                 j < k
          PROVE  received'[j].sequence < received'[k].sequence
      <3>1. j \in 1..Len(received) /\ received'[j] = received[j]
        BY <1>4, <1>5, <2>3
      <3>2. CASE k \in 1..Len(received)
        BY <1>5, <2>3, <3>1, <3>2 DEF ReceivedInv, DeliveredInOrder
      <3>3. CASE k = Len(received) + 1
        BY <1>3, <1>5, <2>1, <3>1, <3>3
      <3>. QED  BY <1>6, <3>2, <3>3
    <2>. QED  BY <2>2, <2>3 DEF DeliveredInOrder
  <1>9. ReceivedInv'
    BY <1>1, <1>4, <1>7, <1>8 DEF ReceivedInv
  <1>. QED  BY <1>1, <1>5, <1>9 DEF HandedUp, r

\* A fragment that fits extends the assembled beginning of its message, and
\* one that is not of full size completes it.
LEMMA FragmentFits ==
    ASSUME TypeOK, WireInv, ReceiverInv, NEW p \in wire, p.fragmented
    PROVE  LET have == Assembled(p)
               E    == Encoded(p.sequence)
           IN  /\ have \in Seq(Unit)
               /\ Len(have) <= Len(E)
               /\ have = SubSeq(E, 1, Len(have))
               /\ MSG_ReadShort(p.start) = Len(have) =>
                    /\ have \o p.data \in Seq(Unit)
                    /\ Len(have \o p.data) <= Len(E)
                    /\ have \o p.data = SubSeq(E, 1, Len(have \o p.data))
                    /\ Len(p.data) # FRAGMENT_SIZE => have \o p.data = E
  <1>1. PICK n \in 1..Len(transmitted) : n = p.sequence
    BY DEF WireInv, PacketInv
  <1>. DEFINE have == Assembled(p)
              E    == Encoded(n)
              len  == FragmentLength(E, p.start)
  <1>2. E \in Seq(Unit) /\ Len(E) \in 1..MAX_MSGLEN /\ n \in Nat
    BY EncodedType
  <1>3. /\ p.start \in 0..Len(E)
        /\ p.data = SubSeq(E, p.start + 1, p.start + len)
    BY <1>1 DEF WireInv, PacketInv
  <1>4. /\ have \in Seq(Unit)
        /\ Len(have) <= Len(E)
        /\ have = SubSeq(E, 1, Len(have))
    <2>1. CASE fragmentBuffer # <<>> /\ p.sequence = fragmentSequence
      BY <1>1, <2>1 DEF Assembled, ReceiverInv, TypeOK
    <2>2. CASE ~(fragmentBuffer # <<>> /\ p.sequence = fragmentSequence)
      <3>1. have = <<>>
        BY <2>2 DEF Assembled
      <3>2. SubSeq(E, 1, 0) = <<>>
        BY SubSeqEmpty
      <3>. QED  BY <1>2, <3>1, <3>2
    <2>. QED  BY <2>1, <2>2
  <1>. HIDE DEF have, E
  <1>5. ASSUME MSG_ReadShort(p.start) = Len(have)
        PROVE  /\ have \o p.data \in Seq(Unit)
               /\ Len(have \o p.data) <= Len(E)
               /\ have \o p.data = SubSeq(E, 1, Len(have \o p.data))
               /\ Len(p.data) # FRAGMENT_SIZE => have \o p.data = E
    <2>1. p.start \in 0..MAX_MSGLEN /\ Len(have) \in Nat
      BY <1>2, <1>3, <1>4, NetchanAssumption
    <2>2. p.start = Len(have)
      BY <1>5, <2>1, ShortRoundTrip
    <2>3. /\ len \in Nat /\ p.start \in Nat
          /\ p.start + len <= Len(E)
          /\ len # FRAGMENT_SIZE => p.start + len = Len(E)
      BY <1>2, <1>3, NetchanAssumption DEF FragmentLength
    <2>. DEFINE end == p.start + len
    <2>4. end \in Nat /\ end <= Len(E) /\ p.start <= end
      BY <2>3
    <2>5. have \o p.data = SubSeq(E, 1, end)
      <3>1. SubSeq(E, 1, p.start) \o SubSeq(E, p.start + 1, end)
              = SubSeq(E, 1, end)
        <4>1. /\ 1 \in 1..Len(E) + 1 /\ p.start \in 1 - 1..Len(E)
              /\ end \in p.start..Len(E)
          BY <1>2, <2>3, <2>4
        <4>. HIDE DEF end
        <4>. QED  BY <1>2, <4>1, ConcatAdjacentSubSeq
      <3>. QED  BY <1>3, <1>4, <2>2, <3>1
    <2>6. /\ \A i \in 1..end : E[i] \in Unit
          /\ \A i \in p.start + 1..end : E[i] \in Unit
      BY <1>2, <2>3, <2>4
    <2>7. SubSeq(E, 1, end) \in Seq(Unit) /\ Len(SubSeq(E, 1, end)) = end
      BY <2>4, <2>6, SubSeqProperties
    <2>8. Len(p.data) = len
      <3>. DEFINE from == p.start + 1
      <3>1. from \in Int /\ end \in Int /\ p.data = SubSeq(E, from, end)
        BY <1>3, <2>3
      <3>2. \A i \in from..end : E[i] \in Unit
        BY <2>6
      <3>3. IF from <= end THEN end - from + 1 = len ELSE len = 0
        BY <2>3
      <3>. HIDE DEF from, end, len
      <3>4. Len(p.data) = IF from <= end THEN end - from + 1 ELSE 0
        BY <3>1, <3>2, SubSeqProperties
      <3>. QED  BY <3>3, <3>4
    <2>9. ASSUME Len(p.data) # FRAGMENT_SIZE
          PROVE  end = Len(E)
      BY <2>3, <2>8, <2>9
    <2>10. SubSeq(E, 1, Len(E)) = E
      BY <1>2, SubSeqFull
    <2>. HIDE DEF end, len
    <2>. QED  BY <2>4, <2>5, <2>7, <2>9, <2>10
  <1>. QED  BY <1>1, <1>4, <1>5 DEF have, E

\* Whatever packet is processed, the receiver's part of the invariant is
\* kept, and either nothing is handed up or the next message is.
LEMMA PacketProcessed ==
    ASSUME IInv, NEW p \in wire, Netchan_Process(p), UNCHANGED transmitted
    PROVE  /\ ReceiverTypeOK'
           /\ ReceiverInv'
           /\ ReceivedInv'
           /\ \/ UNCHANGED <<incomingSequence, received>>
              \/ \E n \in 1..Len(transmitted) : HandedUp(n)
  <1>. USE DEF IInv
  <1>1. PICK n \in 1..Len(transmitted) : n = p.sequence
    BY DEF WireInv, PacketInv
  <1>2. /\ n \in Nat /\ incomingSequence \in Nat
        /\ Encoded(n) \in Seq(Unit)
    BY EncodedType DEF TypeOK
  <1>3. ASSUME UNCHANGED <<receiver, received>>
        PROVE  /\ ReceiverTypeOK' /\ ReceiverInv' /\ ReceivedInv'
               /\ UNCHANGED <<incomingSequence, received>>
    BY <1>3, ReceiverKept DEF ReceiverTypeOK, TypeOK, receiver
  <1>4. ASSUME ~OutOfOrder(p), ~p.fragmented, Take(p.sequence, p.data),
               UNCHANGED <<fragmentSequence, fragmentBuffer>>
        PROVE  /\ ReceiverTypeOK' /\ ReceiverInv' /\ ReceivedInv'
               /\ HandedUp(n)
    <2>1. incomingSequence < n /\ Take(n, Encoded(n))
      BY <1>1, <1>2, <1>4 DEF OutOfOrder, WireInv, PacketInv
    <2>2. HandedUp(n) /\ received' \in Seq(Arrival) /\ ReceivedInv'
      BY <2>1, WholeTaken
    <2>3. ReceiverTypeOK'
      BY <1>2, <1>4, <2>2 DEF ReceiverTypeOK, TypeOK, HandedUp
    <2>4. ReceiverInv'
      BY <1>4 DEF ReceiverInv, Encoded
    <2>. QED  BY <2>2, <2>3, <2>4
  <1>5. ASSUME ~OutOfOrder(p), p.fragmented, fragmentSequence' = p.sequence
        PROVE  LET have == Assembled(p)
                   fits == /\ MSG_ReadShort(p.start) = Len(have)
                           /\ Len(have) + Len(p.data) <= MAX_MSGLEN
               IN  /\ ~fits /\ fragmentBuffer' = have
                   /\ UNCHANGED <<incomingSequence, received>>
                   => ReceiverTypeOK' /\ ReceiverInv' /\ ReceivedInv'
    <2>. DEFINE have == Assembled(p)
    <2>. SUFFICES ASSUME fragmentBuffer' = have,
                         UNCHANGED <<incomingSequence, received>>
                  PROVE  ReceiverTypeOK' /\ ReceiverInv' /\ ReceivedInv'
      OBVIOUS
    <2>1. /\ have \in Seq(Unit)
          /\ Len(have) <= Len(Encoded(n))
          /\ have = SubSeq(Encoded(n), 1, Len(have))
      BY <1>1, <1>5, FragmentFits
    <2>2. ReceiverTypeOK'
      BY <1>1, <1>2, <1>5, <2>1 DEF ReceiverTypeOK, TypeOK
    <2>3. Encoded(fragmentSequence)' = Encoded(n)
      BY <1>1, <1>5 DEF Encoded
    <2>. HIDE DEF have
    <2>4. ReceiverInv'
      BY <1>1, <1>5, <2>1, <2>3 DEF ReceiverInv
    <2>5. ReceivedInv'
      BY DEF ReceivedInv, DeliveredIntact, DeliveredInOrder
    <2>. QED  BY <2>2, <2>4, <2>5
  <1>6. ASSUME ~OutOfOrder(p), p.fragmented, fragmentSequence' = p.sequence,
               MSG_ReadShort(p.start) = Len(Assembled(p)),
               Len(p.data) = FRAGMENT_SIZE,
               fragmentBuffer' = Assembled(p) \o p.data,
               UNCHANGED <<incomingSequence, received>>
        PROVE  ReceiverTypeOK' /\ ReceiverInv' /\ ReceivedInv'
    <2>1. /\ fragmentBuffer' \in Seq(Unit)
          /\ Len(fragmentBuffer') <= Len(Encoded(n))
          /\ fragmentBuffer' = SubSeq(Encoded(n), 1, Len(fragmentBuffer'))
      BY <1>1, <1>6, FragmentFits
    <2>2. ReceiverTypeOK'
      BY <1>1, <1>2, <1>6, <2>1 DEF ReceiverTypeOK, TypeOK
    <2>3. Encoded(fragmentSequence)' = Encoded(n)
      BY <1>1, <1>6 DEF Encoded
    <2>4. ReceiverInv'
      BY <1>1, <1>6, <2>1, <2>3 DEF ReceiverInv
    <2>5. ReceivedInv'
      BY <1>6 DEF ReceivedInv, DeliveredIntact, DeliveredInOrder
    <2>. QED  BY <2>2, <2>4, <2>5
  <1>7. ASSUME ~OutOfOrder(p), p.fragmented, fragmentSequence' = p.sequence,
               MSG_ReadShort(p.start) = Len(Assembled(p)),
               Len(p.data) # FRAGMENT_SIZE, fragmentBuffer' = <<>>,
               Take(p.sequence, Assembled(p) \o p.data)
        PROVE  /\ ReceiverTypeOK' /\ ReceiverInv' /\ ReceivedInv'
               /\ HandedUp(n)
    <2>1. Assembled(p) \o p.data = Encoded(n)
      BY <1>1, <1>7, FragmentFits
    <2>2. incomingSequence < n /\ Take(n, Encoded(n))
      BY <1>1, <1>2, <1>7, <2>1 DEF OutOfOrder
    <2>3. HandedUp(n) /\ received' \in Seq(Arrival) /\ ReceivedInv'
      BY <2>2, WholeTaken
    <2>4. ReceiverTypeOK'
      BY <1>1, <1>2, <1>7, <2>3 DEF ReceiverTypeOK, HandedUp
    <2>5. ReceiverInv'
      BY <1>7 DEF ReceiverInv
    <2>. QED  BY <2>3, <2>4, <2>5
  <1>8. CASE OutOfOrder(p)
    BY <1>3, <1>8 DEF Netchan_Process
  <1>9. CASE ~OutOfOrder(p) /\ ~p.fragmented
    BY <1>4, <1>9 DEF Netchan_Process
  <1>10. CASE ~OutOfOrder(p) /\ p.fragmented
    BY <1>5, <1>6, <1>7, <1>10 DEF Netchan_Process
  <1>. QED  BY <1>8, <1>9, <1>10

-----------------------------------------------------------------------------
(* The invariant *)

\* The channel starts empty: nothing is on the wire, queued or received.
LEMMA InvInit == Init => IInv
  <1>. SUFFICES ASSUME Init PROVE IInv
    OBVIOUS
  <1>. USE NetchanAssumption DEF Init, Netchan_Setup
  <1>1. TypeOK
    <2>1. \A S : <<>> \in Seq(S) /\ Len(<<>>) = 0
      BY EmptySeq
    <2>2. netchan_queue \in Seq(QueueEntry)
      BY <2>1
    <2>3. wire \subseteq Packet
      OBVIOUS
    <2>4. /\ unsentBuffer \in Seq(Unit) /\ fragmentBuffer \in Seq(Unit)
          /\ unsentFragmentStart \in 0..Len(unsentBuffer)
          /\ transmitted \in Seq(Message) /\ received \in Seq(Arrival)
      BY <2>1
    <2>5. unsentFragments \in BOOLEAN
      BY Zenon
    <2>6. /\ outgoingSequence \in Nat \ {0}
          /\ lastClientCommand \in 0..MaxCommands /\ finalRound \in 0..2
          /\ incomingSequence \in Nat /\ fragmentSequence \in Nat
      OBVIOUS
    <2>. QED  BY <2>2, <2>3, <2>4, <2>5, <2>6, Zenon DEF TypeOK
  <1>2. SenderInv /\ QueueInv /\ WireInv /\ ReceiverInv /\ ReceivedInv
    BY DEF SenderInv, QueueInv, WireInv, ReceiverInv, ReceivedInv,
           DeliveredIntact, DeliveredInOrder
  <1>. QED  BY <1>1, <1>2 DEF IInv

\* Handing over a message keeps the sender's part of the invariant, whether
\* it is queued or transmitted.
LEMMA MessageAccepted ==
    ASSUME IInv, NEW m \in Message, m[1] = lastClientCommand,
           SV_Netchan_Transmit(m)
    PROVE  /\ SenderTypeOK' /\ SenderInv' /\ WireInv'
           /\ netchan_queue' \in Seq(QueueEntry)
           /\ QueueInv'
           /\ \/ UNCHANGED transmitted
              \/ transmitted' = Append(transmitted, m)
  <1>. USE DEF IInv
  <1>1. netchan_queue \in Seq(QueueEntry) /\ lastClientCommand \in Nat
    BY NetchanAssumption DEF TypeOK
  <1>2. CASE Pending
    <2>. DEFINE e == [msg |-> m, clientCommandString |-> lastClientCommand]
    <2>1. /\ netchan_queue' = Append(netchan_queue, e)
          /\ UNCHANGED <<sender, wire, transmitted>>
      BY <1>2 DEF SV_Netchan_Transmit
    <2>2. e \in QueueEntry /\ e.clientCommandString = e.msg[1]
      BY <1>1 DEF QueueEntry
    <2>3. SenderTypeOK' /\ SenderInv' /\ WireInv'
      BY <2>1 DEF SenderTypeOK, TypeOK, SenderInv, WireInv, PacketInv,
                  Encoded, sender
    <2>. HIDE DEF e
    <2>4. netchan_queue' \in Seq(QueueEntry) /\ QueueInv'
      BY <1>1, <2>1, <2>2, AppendProperties DEF QueueInv
    <2>. QED  BY <2>1, <2>3, <2>4
  <1>3. CASE ~Pending
    <2>1. ~unsentFragments /\ Netchan_Transmit(m, m[1])
      BY <1>3 DEF SV_Netchan_Transmit, Pending
    <2>2. SenderTypeOK' /\ SenderInv' /\ WireInv'
      BY <2>1, MessageSent
    <2>3. UNCHANGED netchan_queue /\ transmitted' = Append(transmitted, m)
      BY <1>3 DEF SV_Netchan_Transmit, Netchan_Transmit
    <2>. QED  BY <1>1, <2>2, <2>3 DEF QueueInv
  <1>. QED  BY <1>2, <1>3

\* Every step keeps the invariant; one case per action.
LEMMA InvNext == IInv /\ [Next]_vars => IInv'
  <1>. SUFFICES ASSUME IInv, [Next]_vars PROVE IInv'
    OBVIOUS
  <1>. USE DEF IInv
  <1>1. TypeOK' <=> /\ SenderTypeOK' /\ ReceiverTypeOK'
                    /\ netchan_queue' \in Seq(QueueEntry)
                    /\ lastClientCommand' \in 0..MaxCommands
                    /\ finalRound' \in 0..2
    BY DEF TypeOK, SenderTypeOK, ReceiverTypeOK
  <1>2. ASSUME UNCHANGED <<receiver, received>>, SenderTypeOK',
               \/ UNCHANGED transmitted
               \/ \E m \in Message : transmitted' = Append(transmitted, m)
        PROVE  ReceiverTypeOK' /\ ReceiverInv' /\ ReceivedInv'
    BY <1>2, ReceiverKept DEF ReceiverTypeOK, TypeOK, receiver
  <1>3. ASSUME NEW body \in Bodies,
               SV_Netchan_Transmit(Build(lastClientCommand, body)),
               UNCHANGED <<lastClientCommand, receiver, received>>,
               finalRound' \in 0..2
        PROVE  IInv'
    <2>. DEFINE m == Build(lastClientCommand, body)
    <2>1. m \in Message /\ m[1] = lastClientCommand
      BY BuildType DEF TypeOK
    <2>. HIDE DEF m
    <2>2. SV_Netchan_Transmit(m)
      BY <1>3 DEF m
    <2>3. /\ SenderTypeOK' /\ SenderInv' /\ WireInv' /\ QueueInv'
          /\ netchan_queue' \in Seq(QueueEntry)
          /\ \/ UNCHANGED transmitted
             \/ transmitted' = Append(transmitted, m)
      BY <2>1, <2>2, MessageAccepted
    <2>4. ReceiverTypeOK' /\ ReceiverInv' /\ ReceivedInv'
      BY <1>2, <1>3, <2>1, <2>3
    <2>5. lastClientCommand' \in 0..MaxCommands
      BY <1>3 DEF TypeOK
    <2>. QED  BY <1>1, <1>3, <2>3, <2>4, <2>5
  <1>4. CASE \E body \in Bodies : SendMessage(body)
    BY <1>3, <1>4 DEF SendMessage, TypeOK
  <1>5. CASE \E body \in Bodies : SV_FinalMessage(body)
    <2>1. PICK body \in Bodies : SV_FinalMessage(body)
      BY <1>5
    <2>2. finalRound' \in 0..2
      BY <2>1 DEF SV_FinalMessage, TypeOK
    <2>. QED  BY <1>3, <2>1, <2>2 DEF SV_FinalMessage
  <1>6. CASE SV_Netchan_TransmitNextFragment
    <2>1. UNCHANGED <<lastClientCommand, finalRound, receiver, received>>
      BY <1>6 DEF SV_Netchan_TransmitNextFragment
    <2>2. CASE unsentFragments
      <3>1. /\ SendFragment(unsentBuffer, unsentFragmentStart)
            /\ UNCHANGED <<netchan_queue, transmitted>>
        BY <1>6, <2>2 DEF SV_Netchan_TransmitNextFragment
      <3>2. PICK n \in 1..Len(transmitted) : n = outgoingSequence
        BY <2>2 DEF SenderInv, TypeOK
      <3>3. /\ unsentBuffer = Encoded(n) /\ unsentBuffer \in Seq(Unit)
            /\ unsentFragmentStart \in 0..Len(unsentBuffer)
            /\ Len(unsentBuffer) <= MAX_MSGLEN
            /\ outgoingSequence = Len(transmitted)
            /\ n \in Nat
        BY <2>2, <3>2, EncodedType, NetchanAssumption DEF SenderInv, TypeOK
      <3>4. /\ unsentBuffer' = unsentBuffer
            /\ unsentFragmentStart' \in 0..Len(unsentBuffer)
            /\ unsentFragments' \in BOOLEAN
            /\ outgoingSequence' = n + IF unsentFragments' THEN 0 ELSE 1
            /\ \E p \in Packet :
                 /\ wire' = wire \cup {p}
                 /\ p.fragmented
                 /\ p.sequence = n
                 /\ p.start = unsentFragmentStart
                 /\ p.data = SubSeq(unsentBuffer, unsentFragmentStart + 1,
                      unsentFragmentStart
                        + FragmentLength(unsentBuffer, unsentFragmentStart))
        BY <3>1, <3>2, <3>3, FragmentSent
      <3>5. SenderTypeOK'
        BY <3>1, <3>3, <3>4 DEF SenderTypeOK, TypeOK
      <3>6. SenderInv'
        BY <2>2, <3>1, <3>2, <3>3, <3>4 DEF SenderInv, Encoded
      <3>7. WireInv'
        <4>1. \A p : PacketInv(p) => PacketInv(p)'
          BY <3>1 DEF PacketInv, Encoded
        <4>2. PICK p \in Packet :
                 /\ wire' = wire \cup {p}
                 /\ p.fragmented
                 /\ p.sequence = n
                 /\ p.start = unsentFragmentStart
                 /\ p.data = SubSeq(unsentBuffer, unsentFragmentStart + 1,
                      unsentFragmentStart
                        + FragmentLength(unsentBuffer, unsentFragmentStart))
          BY <3>4
        <4>3. PacketInv(p)
          BY <3>2, <3>3, <4>2 DEF PacketInv
        <4>. QED  BY <4>1, <4>2, <4>3 DEF WireInv
      <3>8. QueueInv'
        BY <3>1 DEF QueueInv
      <3>9. ReceiverTypeOK' /\ ReceiverInv' /\ ReceivedInv'
        BY <1>2, <2>1, <3>1, <3>5
      <3>. QED
        BY <1>1, <2>1, <3>1, <3>5, <3>6, <3>7, <3>8, <3>9 DEF TypeOK
    <2>3. CASE ~unsentFragments /\ netchan_queue # <<>>
      <3>1. TransmitNextInQueue
        BY <1>6, <2>3 DEF SV_Netchan_TransmitNextFragment
      <3>. DEFINE m == Head(netchan_queue).msg
      <3>2. /\ netchan_queue \in Seq(QueueEntry)
            /\ Head(netchan_queue) = netchan_queue[1]
            /\ 1 \in 1..Len(netchan_queue)
        BY <2>3 DEF TypeOK
      <3>3. netchan_queue[1] \in QueueEntry
        <4>. QED  BY <3>2, ElementOfSeq
      <3>4. /\ m \in Message
            /\ Netchan_Transmit(m, m[1])
            /\ netchan_queue' = Tail(netchan_queue)
        BY <3>1, <3>2, <3>3 DEF TransmitNextInQueue, QueueInv, QueueEntry
      <3>5. transmitted' = Append(transmitted, m)
        BY <3>4 DEF Netchan_Transmit
      <3>. HIDE DEF m
      <3>6. SenderTypeOK' /\ SenderInv' /\ WireInv'
        BY <2>3, <3>4, MessageSent
      <3>7. netchan_queue' \in Seq(QueueEntry) /\ QueueInv'
        <4>1. /\ Tail(netchan_queue) \in Seq(QueueEntry)
              /\ Len(Tail(netchan_queue)) = Len(netchan_queue) - 1
              /\ Len(netchan_queue) \in Nat
              /\ \A i \in 1..Len(Tail(netchan_queue)) :
                    Tail(netchan_queue)[i] = netchan_queue[i + 1]
          BY <2>3, <3>2, HeadTailProperties
        <4>2. ASSUME NEW i \in 1..Len(netchan_queue')
              PROVE  netchan_queue'[i].clientCommandString
                       = netchan_queue'[i].msg[1]
          <5>1. /\ i + 1 \in 1..Len(netchan_queue)
                /\ netchan_queue'[i] = netchan_queue[i + 1]
            BY <3>4, <4>1
          <5>. QED  BY <5>1 DEF QueueInv
        <4>. QED  BY <3>4, <4>1, <4>2 DEF QueueInv
      <3>8. ReceiverTypeOK' /\ ReceiverInv' /\ ReceivedInv'
        BY <1>2, <2>1, <3>4, <3>5, <3>6
      <3>. QED  BY <1>1, <2>1, <3>6, <3>7, <3>8 DEF TypeOK
    <2>. QED  BY <1>6, <2>2, <2>3 DEF SV_Netchan_TransmitNextFragment
  <1>7. ASSUME UNCHANGED <<sender, wire, transmitted, receiver, received>>,
               netchan_queue' \in Seq(QueueEntry),
               QueueInv',
               lastClientCommand' \in 0..MaxCommands, finalRound' \in 0..2
        PROVE  IInv'
    <2>1. SenderTypeOK' /\ SenderInv' /\ WireInv'
      BY <1>7 DEF SenderTypeOK, TypeOK, SenderInv, WireInv, PacketInv,
                  Encoded, sender
    <2>2. ReceiverTypeOK' /\ ReceiverInv' /\ ReceivedInv'
      BY <1>2, <1>7, <2>1
    <2>. QED  BY <1>1, <1>7, <2>1, <2>2
  <1>8. CASE SV_Netchan_FreeQueue
    BY <1>7, <1>8 DEF SV_Netchan_FreeQueue, QueueInv, TypeOK
  <1>9. CASE SV_ClientCommand
    <2>1. lastClientCommand' \in 0..MaxCommands
      BY <1>9, NetchanAssumption DEF SV_ClientCommand, TypeOK
    <2>. QED  BY <1>7, <1>9, <2>1 DEF SV_ClientCommand, QueueInv, TypeOK
  <1>10. CASE Network
    <2>1. PICK p \in wire : Receive(p)
      BY <1>10 DEF Network
    <2>2. /\ Netchan_Process(p)
          /\ wire' \subseteq wire
          /\ UNCHANGED <<sender, netchan_queue, lastClientCommand,
                         finalRound, transmitted>>
      BY <2>1 DEF Receive
    <2>3. ReceiverTypeOK' /\ ReceiverInv' /\ ReceivedInv'
      BY <2>2, PacketProcessed
    <2>4. SenderTypeOK' /\ SenderInv' /\ WireInv' /\ QueueInv'
      BY <2>2 DEF SenderTypeOK, TypeOK, SenderInv, WireInv, PacketInv,
                  Encoded, QueueInv, sender
    <2>. QED  BY <1>1, <2>2, <2>3, <2>4 DEF TypeOK
  <1>11. CASE UNCHANGED vars
    BY <1>7, <1>11 DEF vars, TypeOK, QueueInv
  <1>. QED
    BY <1>4, <1>5, <1>6, <1>8, <1>9, <1>10, <1>11 DEF Next, Server

\* The sender's number, the queue, each packet on the wire, the receiver's
\* buffer and its deliveries always agree on which message a number stands for:
\* the inductive invariant of net_chan.c's two ends and of the server's queue
\* (SV_Netchan_Transmit) together.
THEOREM Invariance == Spec => []IInv
  BY InvInit, InvNext, PTL DEF Spec

\* Every value of the channel's state has its type.
THEOREM TypeCorrect == Spec => []TypeOK
  <1>1. IInv => TypeOK
    BY DEF IInv
  <1>. QED  BY <1>1, Invariance, PTL

\* Whatever is lost, repeated or reordered, what is handed up is the message
\* transmitted under that number, whole and decoded.
THEOREM Intact == Spec => []DeliveredIntact
  <1>1. IInv => DeliveredIntact
    BY DEF IInv, ReceivedInv
  <1>. QED  BY <1>1, Invariance, PTL

\* Nothing is handed up twice or after a newer message.
THEOREM InOrder == Spec => []DeliveredInOrder
  <1>1. IInv => DeliveredInOrder
    BY DEF IInv, ReceivedInv
  <1>. QED  BY <1>1, Invariance, PTL

-----------------------------------------------------------------------------
(* Refinement *)

\* Three facts about a sequence in two parts: appending to the whole is
\* appending to the second part, the head of the second part may move to the
\* first, and cutting at the end of the first part leaves the first part.
LEMMA AppendToSecond ==
    ASSUME NEW S, NEW s \in Seq(S), NEW t \in Seq(S), NEW e \in S
    PROVE  s \o Append(t, e) = Append(s \o t, e)
  <1>1. <<e>> \in Seq(S) /\ s \o t \in Seq(S)
    BY ConcatProperties
  <1>2. Append(t, e) = t \o <<e>> /\ Append(s \o t, e) = (s \o t) \o <<e>>
    BY <1>1, AppendIsConcat
  <1>. QED  BY <1>1, <1>2, ConcatAssociative

\* Moving the first of the queued messages to the transmitted ones leaves their
\* concatenation as it was.
LEMMA HeadToFirst ==
    ASSUME NEW S, NEW s \in Seq(S), NEW t \in Seq(S), t # <<>>
    PROVE  Append(s, Head(t)) \o Tail(t) = s \o t
  <1>1. Head(t) \in S /\ Tail(t) \in Seq(S) /\ <<Head(t)>> \in Seq(S)
    BY HeadTailProperties
  <1>2. Append(s, Head(t)) = s \o <<Head(t)>>
    BY <1>1, AppendIsConcat
  <1>3. (s \o <<Head(t)>>) \o Tail(t) = s \o (<<Head(t)>> \o Tail(t))
    BY <1>1, ConcatAssociative
  <1>4. <<Head(t)>> \o Tail(t) = t
    <2>1. Len(t) \in Nat /\ Len(t) # 0 /\ Head(t) = t[1]
      OBVIOUS
    <2>2. 1 \in 1..Len(t) /\ Len(t) \in 1..Len(t)
      BY <2>1
    <2>3. SubSeq(t, 1, Len(t)) = <<t[1]>> \o SubSeq(t, 1 + 1, Len(t))
      BY <2>2, SubSeqRecursiveFirst
    <2>4. SubSeq(t, 1, Len(t)) = t
      BY SubSeqFull
    <2>5. Tail(t) = SubSeq(t, 2, Len(t))
      BY TailIsSubSeq
    <2>. QED  BY <2>1, <2>3, <2>4, <2>5
  <1>. QED  BY <1>2, <1>3, <1>4

\* The beginning of a concatenation is its first part: what remains accepted
\* when the queue is freed.
LEMMA CutAfterFirst ==
    ASSUME NEW S, NEW s \in Seq(S), NEW t \in Seq(S)
    PROVE  SubSeq(s \o t, 1, Len(s)) = s
  <1>1. Len(s) \in Nat
    OBVIOUS
  <1>2. CASE Len(s) = 0
    BY <1>2, SubSeqEmpty
  <1>3. CASE Len(s) # 0
    <2>1. 1 \in 1..Len(s) /\ Len(s) \in 1..Len(s)
      BY <1>1, <1>3
    <2>. QED  BY <2>1, SubSeqOfConcat1, SubSeqFull
  <1>. QED  BY <1>2, <1>3

\* The queued messages are the entries' messages, in order.
LEMMA MessagesOfType ==
    ASSUME NEW q \in Seq(QueueEntry)
    PROVE  /\ MessagesOf(q) \in Seq(Message)
           /\ Len(MessagesOf(q)) = Len(q)
           /\ \A i \in 1..Len(q) : MessagesOf(q)[i] = q[i].msg
  <1>1. ASSUME NEW i \in 1..Len(q)
        PROVE  q[i].msg \in Message
    <2>1. q[i] \in QueueEntry
      BY ElementOfSeq
    <2>. QED  BY <2>1 DEF QueueEntry
  <1>2. Len(q) \in Nat
    OBVIOUS
  <1>. QED  BY <1>1, <1>2 DEF MessagesOf

\* What the promise calls accepted is what was transmitted, then what is
\* queued.
LEMMA AcceptedType ==
    ASSUME TypeOK
    PROVE  /\ transmitted \in Seq(Message) /\ Len(transmitted) \in Nat
           /\ netchan_queue \in Seq(QueueEntry)
           /\ Len(netchan_queue) \in Nat
           /\ Queued \in Seq(Message)
           /\ Len(Queued) = Len(netchan_queue)
           /\ \A i \in 1..Len(netchan_queue) :
                Queued[i] = netchan_queue[i].msg
           /\ Len(Accepted) = Len(transmitted) + Len(netchan_queue)
           /\ \A n \in 1..Len(transmitted) :
                n \in 1..Len(Accepted) /\ Accepted[n] = transmitted[n]
  <1>1. /\ transmitted \in Seq(Message) /\ Len(transmitted) \in Nat
        /\ netchan_queue \in Seq(QueueEntry) /\ Len(netchan_queue) \in Nat
    BY DEF TypeOK
  <1>2. /\ Queued \in Seq(Message)
        /\ Len(Queued) = Len(netchan_queue)
        /\ \A i \in 1..Len(netchan_queue) : Queued[i] = netchan_queue[i].msg
    BY <1>1, MessagesOfType DEF Queued
  <1>3. /\ Len(Accepted) = Len(transmitted) + Len(Queued)
        /\ \A i \in 1..Len(transmitted) + Len(Queued) : Accepted[i] =
              IF i <= Len(transmitted) THEN transmitted[i]
              ELSE Queued[i - Len(transmitted)]
    BY <1>1, <1>2, ConcatProperties DEF Accepted
  <1>4. ASSUME NEW n \in 1..Len(transmitted)
        PROVE  n \in 1..Len(Accepted) /\ Accepted[n] = transmitted[n]
    BY <1>1, <1>2, <1>3
  <1>. QED  BY <1>1, <1>2, <1>3, <1>4

\* The channel's initial states are the promise's.
LEMMA ChannelInit == Init => Channel!Init
  <1>. SUFFICES ASSUME Init PROVE Channel!Init
    OBVIOUS
  <1>1. transmitted = <<>> /\ netchan_queue = <<>>
    BY DEF Init
  <1>2. TypeOK
    BY InvInit DEF IInv
  <1>3. Queued = <<>>
    BY <1>1, <1>2, AcceptedType, EmptySeq
  <1>4. Accepted = <<>>
    BY <1>1, <1>3 DEF Accepted
  <1>. QED  BY <1>4 DEF Init, Netchan_Setup, Channel!Init

\* Handing over a message is Accept.
LEMMA ChannelAccept ==
    ASSUME IInv, IInv', NEW m \in Message, SV_Netchan_Transmit(m)
    PROVE  Accepted' = Append(Accepted, m)
  <1>1. /\ TypeOK /\ TypeOK'
        /\ transmitted \in Seq(Message) /\ Queued \in Seq(Message)
    BY AcceptedType DEF IInv
  <1>2. /\ Queued' \in Seq(Message)
        /\ Len(Queued') = Len(netchan_queue')
        /\ \A i \in 1..Len(netchan_queue') :
              Queued'[i] = netchan_queue'[i].msg
    BY <1>1, MessagesOfType DEF TypeOK, Queued
  <1>3. CASE Pending
    <2>. DEFINE e == [msg |-> m, clientCommandString |-> lastClientCommand]
    <2>1. netchan_queue' = Append(netchan_queue, e) /\ UNCHANGED transmitted
      BY <1>3 DEF SV_Netchan_Transmit
    <2>2. e \in QueueEntry /\ netchan_queue \in Seq(QueueEntry) /\ e.msg = m
      BY <1>1, NetchanAssumption DEF TypeOK, QueueEntry
    <2>. HIDE DEF e
    <2>3. /\ Len(netchan_queue') = Len(netchan_queue) + 1
          /\ \A i \in 1..Len(netchan_queue) :
               netchan_queue'[i] = netchan_queue[i]
          /\ netchan_queue'[Len(netchan_queue) + 1] = e
          /\ Len(netchan_queue) \in Nat
      BY <2>1, <2>2, AppendProperties
    <2>4. /\ Append(Queued, m) \in Seq(Message)
          /\ Len(Append(Queued, m)) = Len(netchan_queue) + 1
          /\ \A i \in 1..Len(netchan_queue) :
               Append(Queued, m)[i] = netchan_queue[i].msg
          /\ Append(Queued, m)[Len(netchan_queue) + 1] = m
      BY <1>1, AcceptedType, AppendProperties
    <2>5. \A i \in 1..Len(Queued') : Queued'[i] = Append(Queued, m)[i]
      <3>1. ASSUME NEW i \in 1..Len(Queued')
            PROVE  Queued'[i] = Append(Queued, m)[i]
        <4>1. CASE i \in 1..Len(netchan_queue)
          BY <1>2, <2>3, <2>4, <4>1
        <4>2. CASE i = Len(netchan_queue) + 1
          BY <1>2, <2>2, <2>3, <2>4, <4>2
        <4>3. /\ i \in 1..(Len(netchan_queue) + 1)
              /\ Len(netchan_queue) \in Nat
          <5>1. Len(Queued') = Len(netchan_queue')
            BY <1>2
          <5>. QED  BY <2>3, <5>1
        <4>4. i \in 1..Len(netchan_queue) \/ i = Len(netchan_queue) + 1
          BY <4>3
        <4>. QED  BY <4>1, <4>2, <4>4
      <3>. QED  BY <3>1
    <2>6. Queued' = Append(Queued, m)
      BY <1>2, <2>3, <2>4, <2>5, SeqEqual
    <2>. QED  BY <1>1, <2>1, <2>6, AppendToSecond DEF Accepted
  <1>4. CASE ~Pending
    <2>1. /\ netchan_queue = <<>> /\ netchan_queue' = <<>>
          /\ transmitted' = Append(transmitted, m)
      BY <1>4 DEF SV_Netchan_Transmit, Netchan_Transmit, Pending
    <2>2. Queued = <<>> /\ Queued' = <<>>
      BY <1>1, <1>2, <2>1, AcceptedType, EmptySeq
    <2>3. Append(transmitted, m) \in Seq(Message)
      BY <1>1, AppendProperties
    <2>. QED  BY <1>1, <2>1, <2>2, <2>3, ConcatEmptySeq DEF Accepted
  <1>. QED  BY <1>3, <1>4

\* Every step of Netchan is a step of the channel or leaves it alone.
LEMMA ChannelNext ==
    ASSUME IInv, IInv', [Next]_vars
    PROVE  [Channel!Next]_Channel!vars
  <1>1. /\ TypeOK /\ TypeOK'
        /\ transmitted \in Seq(Message) /\ Len(transmitted) \in Nat
        /\ Queued \in Seq(Message) /\ incomingSequence \in Nat
        /\ Len(Accepted) = Len(transmitted) + Len(netchan_queue)
        /\ Len(netchan_queue) \in Nat
    <2>1. TypeOK /\ TypeOK' /\ incomingSequence \in Nat
      BY DEF IInv, TypeOK
    <2>. QED  BY <2>1, AcceptedType
  <1>2. ASSUME NEW body \in Bodies,
               SV_Netchan_Transmit(Build(lastClientCommand, body)),
               UNCHANGED <<receiver, received>>
        PROVE  Channel!Next
    <2>1. PICK m \in Message : m = Build(lastClientCommand, body)
      BY <1>1, BuildType DEF TypeOK
    <2>2. Accepted' = Append(Accepted, m)
      BY <1>2, <2>1, ChannelAccept
    <2>3. Channel!Accept(m)
      BY <1>2, <2>2 DEF Channel!Accept, receiver
    <2>. QED  BY <2>3 DEF Channel!Next
  <1>3. CASE \E body \in Bodies : SendMessage(body)
    BY <1>2, <1>3 DEF SendMessage
  <1>4. CASE \E body \in Bodies : SV_FinalMessage(body)
    BY <1>2, <1>4 DEF SV_FinalMessage
  <1>5. CASE SV_Netchan_TransmitNextFragment
    <2>1. UNCHANGED <<incomingSequence, received>>
      BY <1>5 DEF SV_Netchan_TransmitNextFragment, receiver
    <2>2. CASE unsentFragments
      <3>1. UNCHANGED <<netchan_queue, transmitted>>
        BY <1>5, <2>2 DEF SV_Netchan_TransmitNextFragment
      <3>. QED  BY <2>1, <3>1 DEF Accepted, Queued, Channel!vars
    <2>3. CASE ~unsentFragments /\ netchan_queue # <<>>
      <3>1. /\ netchan_queue' = Tail(netchan_queue)
            /\ transmitted' = Append(transmitted, Head(netchan_queue).msg)
        BY <1>5, <2>3 DEF SV_Netchan_TransmitNextFragment,
                          TransmitNextInQueue, Netchan_Transmit
      <3>2. /\ Len(Tail(netchan_queue)) = Len(netchan_queue) - 1
            /\ Len(netchan_queue) # 0
            /\ Head(netchan_queue) = netchan_queue[1]
            /\ \A i \in 1..Len(netchan_queue) - 1 :
                 Tail(netchan_queue)[i] = netchan_queue[i + 1]
        <4>1. netchan_queue \in Seq(QueueEntry)
          BY <1>1 DEF TypeOK
        <4>. QED  BY <2>3, <4>1
      <3>3. /\ Queued' \in Seq(Message)
            /\ Len(Queued') = Len(netchan_queue')
            /\ \A i \in 1..Len(netchan_queue') :
                 Queued'[i] = netchan_queue'[i].msg
        BY <1>1, MessagesOfType DEF TypeOK, Queued
      <3>4. /\ Queued # <<>> /\ Len(Queued) = Len(netchan_queue)
            /\ Head(Queued) = netchan_queue[1].msg
            /\ \A i \in 1..Len(netchan_queue) :
                 Queued[i] = netchan_queue[i].msg
        BY <1>1, <3>2, AcceptedType
      <3>5. /\ Tail(Queued) \in Seq(Message)
            /\ Len(Tail(Queued)) = Len(Queued) - 1
            /\ \A i \in 1..Len(Tail(Queued)) : Tail(Queued)[i] = Queued[i + 1]
        BY <1>1, <3>4, HeadTailProperties
      <3>6. ASSUME NEW i \in 1..Len(Queued')
            PROVE  Queued'[i] = Tail(Queued)[i]
        <4>1. /\ i \in 1..Len(netchan_queue') /\ i \in 1..Len(Tail(Queued))
              /\ i \in 1..Len(netchan_queue) - 1
              /\ i + 1 \in 1..Len(netchan_queue)
          BY <1>1, <3>1, <3>2, <3>3, <3>4, <3>5
        <4>. QED  BY <3>1, <3>2, <3>3, <3>4, <3>5, <4>1
      <3>7. Queued' = Tail(Queued)
        <4>1. Len(Queued') = Len(Tail(Queued))
          BY <3>1, <3>2, <3>3, <3>4, <3>5
        <4>. QED  BY <3>3, <3>5, <3>6, <4>1, SeqEqual
      <3>8. Accepted' = Append(transmitted, Head(Queued)) \o Tail(Queued)
        BY <3>1, <3>2, <3>4, <3>7 DEF Accepted
      <3>9. Accepted' = Accepted
        BY <1>1, <3>4, <3>8, HeadToFirst DEF Accepted
      <3>. QED  BY <2>1, <3>9 DEF Channel!vars
    <2>. QED  BY <1>5, <2>2, <2>3 DEF SV_Netchan_TransmitNextFragment
  <1>6. CASE SV_Netchan_FreeQueue
    <2>1. /\ netchan_queue' = <<>>
          /\ UNCHANGED <<transmitted, incomingSequence, received>>
      BY <1>6 DEF SV_Netchan_FreeQueue, receiver
    <2>2. Len(Queued') = Len(netchan_queue') /\ Queued' \in Seq(Message)
      BY <1>1, MessagesOfType DEF TypeOK, Queued
    <2>3. Queued' = <<>>
      BY <2>1, <2>2, EmptySeq
    <2>4. Accepted' = transmitted
      BY <1>1, <2>1, <2>3, ConcatEmptySeq DEF Accepted
    <2>5. SubSeq(Accepted, 1, Len(transmitted)) = transmitted
      BY <1>1, CutAfterFirst DEF Accepted
    <2>6. incomingSequence <= Len(transmitted)
      BY DEF IInv, ReceivedInv
    <2>7. Channel!Discard(Len(transmitted))
      BY <2>1, <2>4, <2>5, <2>6 DEF Channel!Discard
    <2>. QED  BY <1>1, <2>7 DEF Channel!Next
  <1>7. CASE SV_ClientCommand
    BY <1>7 DEF SV_ClientCommand, receiver, Accepted, Queued, Channel!vars
  <1>8. CASE Network
    <2>1. PICK p \in wire : Receive(p)
      BY <1>8 DEF Network
    <2>2. UNCHANGED <<netchan_queue, transmitted>> /\ Netchan_Process(p)
      BY <2>1 DEF Receive
    <2>3. Accepted' = Accepted
      BY <2>2 DEF Accepted, Queued
    <2>4. \/ UNCHANGED <<incomingSequence, received>>
          \/ \E n \in 1..Len(transmitted) : HandedUp(n)
      BY <2>2, PacketProcessed
    <2>5. CASE UNCHANGED <<incomingSequence, received>>
      BY <2>3, <2>5 DEF Channel!vars
    <2>6. ASSUME NEW n \in 1..Len(transmitted), HandedUp(n)
          PROVE  Channel!Next
      <3>1. n \in 1..Len(Accepted) /\ Accepted[n] = transmitted[n]
        BY <1>1, AcceptedType
      <3>2. Channel!Deliver(n)
        BY <2>3, <2>6, <3>1 DEF HandedUp, Channel!Deliver
      <3>. QED  BY <3>1, <3>2 DEF Channel!Next
    <2>. QED  BY <2>4, <2>5, <2>6
  <1>9. CASE UNCHANGED vars
    BY <1>9 DEF vars, receiver, Accepted, Queued, Channel!vars
  <1>. QED
    BY <1>3, <1>4, <1>5, <1>6, <1>7, <1>8, <1>9 DEF Next, Server

\* The fragmenting, queueing and encoding channel implements the abstract
\* one: messages are numbered in the order the server handed them over.
THEOREM Refinement == Spec => ImplementsChannel
  <1>1. Spec => []IInv
    BY Invariance
  <1>2. IInv /\ IInv' /\ [Next]_vars => [Channel!Next]_Channel!vars
    BY ChannelNext
  <1>. QED  BY <1>1, <1>2, ChannelInit, PTL
            DEF Spec, ImplementsChannel, Channel!Spec
=============================================================================
