--------------------- MODULE ReliableCommandsProofs ---------------------
(***************************************************************************)
(* Proofs about ReliableCommands, for any number of clients, any size of   *)
(* the ring and of messages, and any number of commands.                   *)
(***************************************************************************)
EXTENDS ReliableCommands, FiniteSetTheorems, SequenceTheorems, TLAPS

-----------------------------------------------------------------------------
(* The inductive invariant *)

\* What a command is in the ring under its number; 0 is that of none.
TextAt(c, n) == IF n = 0 THEN NoText ELSE added[c][n]

\* The ring holds the last commands added, each in the slot of its number.
RingOK ==
    \A c \in Clients \ overflowed :
        /\ Unacknowledged(c) <= MAX_RELIABLE_COMMANDS
        /\ \A n \in 0..reliableSequence[c] :
              n > reliableSequence[c] - MAX_RELIABLE_COMMANDS
              => reliableCommands[c][Index(n)] = TextAt(c, n)

\* What a client acknowledges it has, and it has no more than was added.
NumbersOK ==
    \A c \in Clients :
        /\ c \notin overflowed => reliableAcknowledge[c] <= packet[c]
        /\ reliableAcknowledge[c] <= reliableSequence[c]
        /\ packet[c] <= Len(received[c])
        /\ Len(received[c]) <= reliableSequence[c]
        /\ Last(message[c]) <= reliableSequence[c]

\* A message goes on from what the client has, or repeats it.
MessageOK ==
    \A c \in Clients \ overflowed :
        /\ message[c].first <= Len(received[c]) + 1
        /\ \A k \in 1..Len(message[c].texts) :
              message[c].texts[k] = added[c][message[c].first + k - 1]

WindowInv == TypeOK /\ RingOK /\ NumbersOK /\ MessageOK /\ ReceivedAsAdded

-----------------------------------------------------------------------------
(* Remainders *)

\* A multiple of a greater number is greater by at least the factor.
LEMMA MultiplesApart ==
    ASSUME NEW n \in Nat \ {0}, NEW k \in Int, NEW l \in Int, k < l
    PROVE  n * k + n <= n * l
  <1>1. PICK d \in Nat : l = k + 1 + d
    <2>1. l - k - 1 \in Nat
      OBVIOUS
    <2>2. l = k + 1 + (l - k - 1)
      OBVIOUS
    <2>. QED  BY <2>1, <2>2
  <1>2. n * l = n * k + n + n * d
    BY <1>1
  <1>3. n * d >= 0
    OBVIOUS
  <1>. QED  BY <1>2, <1>3

\* A remainder is below the modulus.
LEMMA RemainderRange ==
    ASSUME NEW n \in Nat \ {0}, NEW a \in Int
    PROVE  a % n \in 0..(n - 1)
  OBVIOUS

\* The remainders of two numbers closer than the divisor differ.
LEMMA RemaindersDiffer ==
    ASSUME NEW n \in Nat \ {0}, NEW a \in Int, NEW b \in Int, a < b, b < a + n
    PROVE  a % n # b % n
  <1>. DEFINE q == a \div n
              r == b \div n
  <1>1. /\ a % n \in 0..(n - 1) /\ a = n * q + (a % n) /\ q \in Int
        /\ b % n \in 0..(n - 1) /\ b = n * r + (b % n) /\ r \in Int
    OBVIOUS
  <1>. HIDE DEF q, r
  <1>2. SUFFICES ASSUME a % n = b % n
                 PROVE  FALSE
    OBVIOUS
  <1>3. n * q \in Int /\ n * r \in Int
    BY <1>1
  <1>4. n * q < n * r /\ n * r < n * q + n
    BY <1>1, <1>2, <1>3
  <1>5. q < r
    <2>1. ~(r < q)
      BY <1>1, <1>3, <1>4, MultiplesApart
    <2>2. r # q
      BY <1>1, <1>3, <1>4
    <2>. QED  BY <1>1, <2>1, <2>2
  <1>. QED  BY <1>1, <1>3, <1>4, <1>5, MultiplesApart

-----------------------------------------------------------------------------
(* Types *)

Message == [first : Nat \ {0}, gamestate : BOOLEAN, texts : Seq(Text)]

\* A command's index is one of the ring's.
LEMMA IndexRange ==
    ASSUME NEW n \in Int
    PROVE  Index(n) \in 0..(MAX_RELIABLE_COMMANDS - 1)
  BY ReliableAssumption, RemainderRange DEF Index

\* Two different commands less than a ring apart have different indices.
LEMMA IndexDiffers ==
    ASSUME NEW m \in Int, NEW n \in Int, m # n,
           m < n + MAX_RELIABLE_COMMANDS, n < m + MAX_RELIABLE_COMMANDS
    PROVE  Index(m) # Index(n)
  <1>1. CASE m < n
    BY <1>1, ReliableAssumption, RemaindersDiffer DEF Index
  <1>2. CASE n < m
    BY <1>2, ReliableAssumption, RemaindersDiffer DEF Index
  <1>. QED  BY <1>1, <1>2

\* The ring has room for at least one command.
LEMMA RingSize == MAX_RELIABLE_COMMANDS \in Nat \ {0}
  BY ReliableAssumption

\* The texts of the model: what the game says, prints, the disconnect and none.
LEMMA TextType ==
    /\ NoText \in Text /\ DisconnectText \in Text
    /\ \A n \in Nat : GameText(n) \in Text /\ PrintText(n) \in Text
  BY DEF NoText, DisconnectText, GameText, PrintText, Text

\* A message holds the ring's commands that follow the acknowledged one, as
\* SV_UpdateServerCommandsToClient writes them.
LEMMA CommandsType ==
    ASSUME TypeOK, NEW c \in Clients, NEW ack \in Nat, NEW count \in Nat
    PROVE  LET m == Commands(c, ack, count)
           IN  /\ m \in Message /\ m.first = ack + 1 /\ ~m.gamestate
               /\ Len(m.texts) = count
               /\ \A k \in 1..count :
                     m.texts[k] = reliableCommands[c][Index(ack + k)]
  <1>1. ASSUME NEW k \in 1..count
        PROVE  reliableCommands[c][Index(ack + k)] \in Text
    <2>1. Index(ack + k) \in 0..(MAX_RELIABLE_COMMANDS - 1)
      BY IndexRange
    <2>2. reliableCommands[c] \in Ring
      BY DEF TypeOK
    <2>. QED  BY <2>1, <2>2 DEF Ring
  <1>. DEFINE texts == [k \in 1..count |-> reliableCommands[c][Index(ack + k)]]
  <1>2. texts \in Seq(Text) /\ Len(texts) = count
    BY <1>1
  <1>3. \A k \in 1..count : texts[k] = reliableCommands[c][Index(ack + k)]
    OBVIOUS
  <1>. HIDE DEF texts
  <1>. QED  BY <1>2, <1>3 DEF Commands, Message, texts

\* The empty message holds no commands.
LEMMA NoMessageType ==
    NoMessage \in Message /\ NoMessage.first = 1 /\ Len(NoMessage.texts) = 0
  BY DEF NoMessage, Message

\* The number of a message's last command.
LEMMA LastType ==
    ASSUME NEW m \in Message
    PROVE  /\ Last(m) \in Nat /\ Last(m) = m.first + Len(m.texts) - 1
           /\ m.first \in Nat \ {0} /\ Len(m.texts) \in Nat
           /\ \A k \in 1..Len(m.texts) : m.texts[k] \in Text
  <1>1. m.texts \in Seq(Text) /\ m.first \in Nat \ {0}
    BY DEF Message
  <1>. QED  BY <1>1 DEF Last

\* The types of one client's counters and commands, taken apart for the
\* provers.
LEMMA ClientTypes ==
    ASSUME TypeOK, NEW c \in Clients
    PROVE  /\ reliableSequence[c] \in Nat /\ reliableAcknowledge[c] \in Nat
           /\ Unacknowledged(c) \in Int
           /\ Unacknowledged(c) = reliableSequence[c] - reliableAcknowledge[c]
           /\ added[c] \in Seq(Text) /\ Len(added[c]) = reliableSequence[c]
           /\ packet[c] \in Nat
           /\ received[c] \in Seq(Text) /\ Len(received[c]) \in Nat
           /\ message[c] \in Message /\ Last(message[c]) \in Nat
  <1>1. message[c] \in Message
    BY DEF TypeOK, Message
  <1>2. /\ reliableSequence[c] \in Nat /\ reliableAcknowledge[c] \in Nat
        /\ added[c] \in Seq(Text) /\ Len(added[c]) = reliableSequence[c]
        /\ packet[c] \in Nat /\ received[c] \in Seq(Text)
    BY DEF TypeOK
  <1>. QED  BY <1>1, <1>2, LastType DEF Unacknowledged

\* What a client has after it took the new commands of a message.
LEMMA TakenType ==
    ASSUME NEW texts \in Seq(Text), NEW m \in Message
    PROVE  /\ Taken(texts, m) \in Seq(Text) /\ Len(Taken(texts, m)) = Last(m)
           /\ \A i \in 1..Last(m) : Taken(texts, m)[i] =
                 IF i <= Len(texts) THEN texts[i]
                 ELSE IF i >= m.first THEN m.texts[i - m.first + 1] ELSE NoText
  <1>1. ASSUME NEW i \in 1..Last(m)
        PROVE  (IF i <= Len(texts) THEN texts[i]
                ELSE IF i >= m.first THEN m.texts[i - m.first + 1] ELSE NoText)
                  \in Text
    <2>1. i >= m.first => i - m.first + 1 \in 1..Len(m.texts)
      BY LastType
    <2>2. i <= Len(texts) => i \in 1..Len(texts) /\ texts[i] \in Text
      OBVIOUS
    <2>. QED  BY <2>1, <2>2, LastType, TextType
  <1>2. Last(m) \in Nat
    BY LastType
  <1>. QED  BY <1>1, <1>2 DEF Taken

-----------------------------------------------------------------------------
(* Steps that do not touch the windows, and those that add a command *)

\* The types of what the calls in progress change besides.
CallsType ==
    /\ state \in [Clients -> {"free", "zombie", "connected", "primed", "active"}]
    /\ gamestateSent \in [Clients -> BOOLEAN]
    /\ stack \in Seq(Frame)
    /\ inGame \subseteq Clients
    /\ issued \in Nat
    /\ restarts \in 0..MaxRestarts

\* A step that leaves the ring, the acknowledgement and the network alone keeps
\* the window.
LEMMA WindowKept ==
    ASSUME WindowInv, CallsType',
           UNCHANGED <<window, reliableAcknowledge, network>>
    PROVE  WindowInv'
  BY DEF WindowInv, TypeOK, CallsType, RingOK, NumbersOK, MessageOK,
         ReceivedAsAdded, Unacknowledged, TextAt, window, network

\* SV_AddServerCommand keeps the window of commands in the ring the last that
\* were added: it writes one, in the slot of the oldest.
LEMMA AddKeepsWindow ==
    ASSUME WindowInv, NEW c \in Clients, NEW text \in Text, NEW caller,
           SV_AddServerCommand(c, text, caller), CallsType',
           UNCHANGED <<reliableAcknowledge, network>>
    PROVE  WindowInv'
  <1>1. CASE UNCHANGED window
    BY <1>1, WindowKept
  <1>2. CASE /\ reliableSequence' = [reliableSequence EXCEPT ![c] = @ + 1]
             /\ added' = [added EXCEPT ![c] = Append(@, text)]
             /\ overflowed' = IF Unacknowledged(c) + 1 > MAX_RELIABLE_COMMANDS
                              THEN overflowed \cup {c} ELSE overflowed
             /\ \/ Overrun(c) /\ UNCHANGED reliableCommands
                \/ ~Overrun(c) /\ Store(c, text)
    <2>. DEFINE n == reliableSequence[c] + 1
    <2>1. /\ n \in Nat \ {0} /\ n = reliableSequence[c] + 1
          /\ reliableSequence[c] \in Nat
          /\ reliableAcknowledge[c] \in Nat
          /\ added \in [Clients -> Seq(Text)] /\ Len(added[c]) = reliableSequence[c]
          /\ Unacknowledged(c) = reliableSequence[c] - reliableAcknowledge[c]
          /\ MAX_RELIABLE_COMMANDS \in Nat \ {0}
      <3>1. TypeOK /\ added \in [Clients -> Seq(Text)]
        BY DEF WindowInv, TypeOK
      <3>2. /\ reliableSequence[c] \in Nat /\ reliableAcknowledge[c] \in Nat
            /\ Len(added[c]) = reliableSequence[c]
            /\ Unacknowledged(c) = reliableSequence[c] - reliableAcknowledge[c]
        BY <3>1, ClientTypes
      <3>. QED  BY <3>1, <3>2, RingSize
    <2>. HIDE DEF n
    <2>i. Index(n) \in 0..(MAX_RELIABLE_COMMANDS - 1)
      <3>1. n \in Int
        BY <2>1
      <3>. QED  BY <3>1, IndexRange
    <2>2. /\ Append(added[c], text) \in Seq(Text)
          /\ Len(Append(added[c], text)) = n
          /\ Append(added[c], text)[n] = text
          /\ \A i \in 1..reliableSequence[c] :
                Append(added[c], text)[i] = added[c][i]
      <3>1. PICK s \in Seq(Text) : s = added[c]
        BY <2>1
      <3>2. /\ Append(s, text) \in Seq(Text) /\ Len(Append(s, text)) = Len(s) + 1
            /\ Append(s, text)[Len(s) + 1] = text
            /\ \A i \in 1..Len(s) : Append(s, text)[i] = s[i]
        BY AppendProperties
      <3>. QED  BY <2>1, <3>1, <3>2
    <2>3. /\ added' \in [Clients -> Seq(Text)]
          /\ \A d \in Clients \ {c} : added'[d] = added[d]
          /\ added'[c] = Append(added[c], text)
          /\ reliableSequence' \in [Clients -> Nat]
          /\ \A d \in Clients \ {c} : reliableSequence'[d] = reliableSequence[d]
          /\ reliableSequence'[c] = n
      BY <1>2, <2>1, <2>2 DEF WindowInv, TypeOK, n
    <2>4. /\ overflowed \subseteq overflowed' /\ overflowed' \subseteq Clients
          /\ overflowed' \subseteq overflowed \cup {c}
          /\ c \notin overflowed' => Unacknowledged(c) + 1 <= MAX_RELIABLE_COMMANDS
      BY <1>2, <2>1 DEF WindowInv, TypeOK
    <2>a. reliableCommands \in [Clients -> Ring] /\ reliableCommands[c] \in Ring
      BY DEF WindowInv, TypeOK
    <2>b. /\ Overrun(c) \/ reliableCommands' =
               [reliableCommands EXCEPT ![c] = [@ EXCEPT ![Index(n)] = text]]
          /\ ~Overrun(c) \/ UNCHANGED reliableCommands
      BY <1>2 DEF Store, n
    <2>c. [reliableCommands[c] EXCEPT ![Index(n)] = text] \in Ring
      BY <2>i, <2>a DEF Ring
    <2>d. \A i \in 0..(MAX_RELIABLE_COMMANDS - 1) :
            [reliableCommands[c] EXCEPT ![Index(n)] = text][i] =
                IF i = Index(n) THEN text ELSE reliableCommands[c][i]
      BY <2>a DEF Ring
    <2>5. reliableCommands' \in [Clients -> Ring]
      BY <2>a, <2>b, <2>c
    <2>6. /\ \A d \in Clients \ {c} : reliableCommands'[d] = reliableCommands[d]
          /\ ~Overrun(c) =>
                \A i \in 0..(MAX_RELIABLE_COMMANDS - 1) : reliableCommands'[c][i] =
                    IF i = Index(n) THEN text ELSE reliableCommands[c][i]
      BY <2>a, <2>b, <2>d
    <2>7. TypeOK'
      <3>1. /\ message' = message /\ packet' = packet /\ received' = received
            /\ loaded' = loaded /\ reliableAcknowledge' = reliableAcknowledge
        BY DEF network
      <3>2. \A d \in Clients : reliableSequence'[d] = Len(added'[d])
        BY <2>2, <2>3 DEF WindowInv, TypeOK
      <3>. QED  BY <2>3, <2>4, <2>5, <3>1, <3>2 DEF WindowInv, TypeOK, CallsType
    <2>8. RingOK'
      <3>1. ASSUME NEW d \in Clients \ overflowed', d # c
            PROVE  /\ Unacknowledged(d)' <= MAX_RELIABLE_COMMANDS
                   /\ \A i \in 0..reliableSequence'[d] :
                         i > reliableSequence'[d] - MAX_RELIABLE_COMMANDS
                         => reliableCommands'[d][Index(i)] = TextAt(d, i)'
        <4>1. d \in Clients \ overflowed /\ UNCHANGED <<reliableSequence[d],
                    reliableAcknowledge[d], added[d], reliableCommands[d]>>
          BY <2>3, <2>4, <2>6, <3>1
        <4>2. /\ Unacknowledged(d) <= MAX_RELIABLE_COMMANDS
              /\ \A i \in 0..reliableSequence[d] :
                    i > reliableSequence[d] - MAX_RELIABLE_COMMANDS
                    => reliableCommands[d][Index(i)] = TextAt(d, i)
          BY <4>1 DEF WindowInv, RingOK
        <4>. QED  BY <4>1, <4>2 DEF Unacknowledged, TextAt
      <3>2. ASSUME c \notin overflowed'
            PROVE  Unacknowledged(c)' <= MAX_RELIABLE_COMMANDS /\ ~Overrun(c)
        BY <2>1, <2>3, <2>4, <3>2 DEF WindowInv, TypeOK, Unacknowledged, Overrun
      <3>3. ASSUME c \notin overflowed', NEW i \in 0..reliableSequence'[c],
                   i > reliableSequence'[c] - MAX_RELIABLE_COMMANDS
            PROVE  reliableCommands'[c][Index(i)] = TextAt(c, i)'
        <4>1. CASE i = n
          <5>1. reliableCommands'[c][Index(i)] = text
            BY <2>i, <2>6, <3>2, <3>3, <4>1
          <5>2. TextAt(c, i)' = text
            BY <2>1, <2>2, <2>3, <4>1 DEF TextAt
          <5>. QED  BY <5>1, <5>2
        <4>2. CASE i # n
          <5>1. /\ i \in 0..reliableSequence[c]
                /\ i > reliableSequence[c] - MAX_RELIABLE_COMMANDS
                /\ i < n + MAX_RELIABLE_COMMANDS /\ n < i + MAX_RELIABLE_COMMANDS
            BY <2>1, <2>3, <3>3, <4>2
          <5>n. i \in Int /\ n \in Int
            BY <2>1, <5>1
          <5>2. Index(i) # Index(n) /\ Index(i) \in 0..(MAX_RELIABLE_COMMANDS - 1)
            BY <4>2, <5>1, <5>n, IndexDiffers, IndexRange
          <5>3. reliableCommands[c][Index(i)] = TextAt(c, i)
            BY <2>4, <3>3, <5>1 DEF WindowInv, RingOK
          <5>4. TextAt(c, i)' = TextAt(c, i)
            BY <2>2, <2>3, <5>1 DEF TextAt
          <5>. QED  BY <2>6, <3>2, <3>3, <5>2, <5>3, <5>4
        <4>. QED  BY <4>1, <4>2
      <3>. QED  BY <3>1, <3>2, <3>3 DEF RingOK
    <2>9. NumbersOK'
      <3>1. /\ message' = message /\ packet' = packet /\ received' = received
            /\ reliableAcknowledge' = reliableAcknowledge
        BY DEF network
      <3>2. ASSUME NEW d \in Clients
            PROVE  reliableSequence[d] <= reliableSequence'[d]
                   /\ reliableSequence'[d] \in Nat
        <4>1. reliableSequence[d] \in Nat
          BY ClientTypes DEF WindowInv
        <4>2. CASE d = c
          BY <2>1, <2>3, <4>2
        <4>3. CASE d # c
          BY <2>3, <4>1, <4>3
        <4>. QED  BY <4>2, <4>3
      <3>3. \A d \in Clients : d \notin overflowed' => d \notin overflowed
        BY <2>4
      <3>4. ASSUME NEW d \in Clients
            PROVE  /\ d \notin overflowed' => reliableAcknowledge[d] <= packet[d]
                   /\ reliableAcknowledge[d] <= reliableSequence'[d]
                   /\ packet[d] <= Len(received[d])
                   /\ Len(received[d]) <= reliableSequence'[d]
                   /\ Last(message[d]) <= reliableSequence'[d]
        <4>1. /\ d \notin overflowed => reliableAcknowledge[d] <= packet[d]
              /\ reliableAcknowledge[d] <= reliableSequence[d]
              /\ packet[d] <= Len(received[d])
              /\ Len(received[d]) <= reliableSequence[d]
              /\ Last(message[d]) <= reliableSequence[d]
          BY DEF WindowInv, NumbersOK
        <4>2. /\ reliableSequence[d] \in Nat /\ reliableAcknowledge[d] \in Nat
              /\ Len(received[d]) \in Nat /\ Last(message[d]) \in Nat
          BY ClientTypes DEF WindowInv
        <4>. QED  BY <3>2, <3>3, <4>1, <4>2
      <3>. QED  BY <3>1, <3>4 DEF NumbersOK, Last
    <2>10. MessageOK' /\ ReceivedAsAdded'
      <3>1. \A d \in Clients : \A i \in 1..reliableSequence[d] :
               added'[d][i] = added[d][i]
        BY <2>1, <2>2, <2>3
      <3>2. \A d \in Clients : Len(added[d]) <= Len(added'[d])
        <4>. SUFFICES ASSUME NEW d \in Clients
                      PROVE  Len(added[d]) <= Len(added'[d])
          OBVIOUS
        <4>1. Len(added[d]) \in Nat
          BY ClientTypes DEF WindowInv
        <4>2. CASE d = c
          BY <2>1, <2>2, <2>3, <4>2
        <4>3. CASE d # c
          BY <2>3, <4>1, <4>3
        <4>. QED  BY <4>2, <4>3
      <3>3. ASSUME NEW d \in Clients \ overflowed', NEW k \in 1..Len(message[d].texts)
            PROVE  message[d].texts[k] = added'[d][message[d].first + k - 1]
        <4>1. message[d] \in Message
          BY DEF WindowInv, TypeOK, Message
        <4>2. message[d].first + k - 1 \in 1..reliableSequence[d]
          <5>1. Last(message[d]) <= reliableSequence[d]
            BY DEF WindowInv, NumbersOK
          <5>2. reliableSequence[d] \in Nat
            BY ClientTypes DEF WindowInv
          <5>3. /\ Last(message[d]) = message[d].first + Len(message[d].texts) - 1
                /\ message[d].first \in Nat \ {0} /\ Len(message[d].texts) \in Nat
            BY <4>1, LastType
          <5>4. k <= Len(message[d].texts) /\ k >= 1 /\ k \in Nat
            BY <5>3
          <5>. QED  BY <5>1, <5>2, <5>3, <5>4
        <4>. QED  BY <2>4, <3>1, <3>3, <4>2 DEF WindowInv, MessageOK
      <3>4. MessageOK'
        <4>1. message' = message /\ received' = received
          BY DEF network
        <4>2. \A d \in Clients \ overflowed' :
                 message[d].first <= Len(received[d]) + 1
          BY <2>4 DEF WindowInv, MessageOK
        <4>. QED  BY <3>3, <4>1, <4>2 DEF MessageOK
      <3>5. ReceivedAsAdded'
        <4>1. received' = received
          BY DEF network
        <4>2. ASSUME NEW d \in Clients \ overflowed'
              PROVE  /\ Len(received[d]) <= Len(added'[d])
                     /\ \A i \in 1..Len(received[d]) :
                           received[d][i] = added'[d][i]
          <5>1. /\ Len(received[d]) <= Len(added[d])
                /\ \A i \in 1..Len(received[d]) : received[d][i] = added[d][i]
            BY <2>4 DEF WindowInv, ReceivedAsAdded
          <5>2. /\ Len(received[d]) \in Nat /\ Len(added[d]) \in Nat
                /\ reliableSequence[d] = Len(added[d])
            BY ClientTypes DEF WindowInv
          <5>3. Len(added[d]) <= Len(added'[d]) /\ Len(added'[d]) \in Nat
            BY <2>3, <3>2
          <5>. QED  BY <3>1, <5>1, <5>2, <5>3
        <4>. QED  BY <4>1, <4>2 DEF ReceivedAsAdded
      <3>. QED  BY <3>4, <3>5
    <2>. QED  BY <2>7, <2>8, <2>9, <2>10 DEF WindowInv
  <1>. QED  BY <1>1, <1>2 DEF SV_AddServerCommand
-----------------------------------------------------------------------------
(* Steps that send or take a message, or a packet *)

\* What MessageOK and NumbersOK say of the message m to c.
GoodMessage(m, c) ==
    /\ m \in Message
    /\ Last(m) <= reliableSequence[c]
    /\ c \notin overflowed =>
          /\ m.first <= Len(received[c]) + 1
          /\ \A k \in 1..Len(m.texts) : m.texts[k] = added[c][m.first + k - 1]

\* What RingOK and NumbersOK say of the acknowledgement ack of c.
GoodAck(ack, c) ==
    /\ ack \in Nat
    /\ ack <= reliableSequence[c]
    /\ c \notin overflowed =>
          ack <= packet[c] /\ reliableSequence[c] - ack <= MAX_RELIABLE_COMMANDS

\* The message under way to a client, and what it has acknowledged, agree with
\* what was added.
LEMMA MessagesGood ==
    ASSUME WindowInv, NEW c \in Clients
    PROVE  /\ GoodMessage(message[c], c)
           /\ GoodAck(reliableAcknowledge[c], c)
  <1>1. message[c] \in Message /\ Unacknowledged(c) =
          reliableSequence[c] - reliableAcknowledge[c]
        /\ reliableAcknowledge[c] \in Nat
    BY ClientTypes DEF WindowInv
  <1>. QED  BY <1>1 DEF WindowInv, NumbersOK, MessageOK, RingOK, GoodMessage, GoodAck

\* No message agrees with anything.
LEMMA NoMessageGood ==
    ASSUME WindowInv, NEW c \in Clients
    PROVE  GoodMessage(NoMessage, c)
  <1>1. /\ reliableSequence[c] \in Nat /\ Len(received[c]) \in Nat
    BY ClientTypes DEF WindowInv
  <1>. QED  BY <1>1, NoMessageType, LastType DEF GoodMessage

\* The commands in a message are those added after the acknowledged one.
LEMMA CommandsGood ==
    ASSUME WindowInv, NEW c \in Clients, NEW ack \in Nat, NEW count \in Nat,
           ack + count <= reliableSequence[c],
           c \notin overflowed =>
              /\ ack <= Len(received[c])
              /\ reliableSequence[c] - ack <= MAX_RELIABLE_COMMANDS,
           NEW m, m \in {Commands(c, ack, count),
                         [Commands(c, ack, count) EXCEPT !.gamestate = TRUE]}
    PROVE  GoodMessage(m, c)
  <1>1. /\ m \in Message /\ m.first = ack + 1 /\ Len(m.texts) = count
        /\ \A k \in 1..count :
              m.texts[k] = reliableCommands[c][Index(ack + k)]
    <2>. DEFINE p == Commands(c, ack, count)
    <2>1. /\ p \in Message /\ p.first = ack + 1 /\ Len(p.texts) = count
          /\ \A k \in 1..count :
                p.texts[k] = reliableCommands[c][Index(ack + k)]
      BY CommandsType DEF WindowInv
    <2>. HIDE DEF p
    <2>2. DEFINE q == [p EXCEPT !.gamestate = TRUE]
    <2>3. q \in Message /\ q.first = p.first /\ q.texts = p.texts
      BY <2>1 DEF Message
    <2>. HIDE DEF q
    <2>4. m = p \/ m = q
      BY DEF p, q
    <2>. QED  BY <2>1, <2>3, <2>4
  <1>2. /\ reliableSequence[c] \in Nat /\ Len(received[c]) \in Nat
        /\ MAX_RELIABLE_COMMANDS \in Nat \ {0}
    BY ClientTypes, RingSize DEF WindowInv
  <1>3. Last(m) = ack + count
    <2>1. m \in Message /\ m.first = ack + 1 /\ Len(m.texts) = count
      BY <1>1
    <2>2. Last(m) = m.first + Len(m.texts) - 1
      BY DEF Last
    <2>. QED  BY <2>1, <2>2
  <1>4. ASSUME c \notin overflowed, NEW k \in 1..count
        PROVE  m.texts[k] = added[c][m.first + k - 1]
    <2>1. /\ ack + k \in 0..reliableSequence[c] /\ ack + k # 0
          /\ ack + k > reliableSequence[c] - MAX_RELIABLE_COMMANDS
      BY <1>2, <1>4
    <2>2. reliableCommands[c][Index(ack + k)] = TextAt(c, ack + k)
      BY <1>4, <2>1 DEF WindowInv, RingOK
    <2>3. m.first + k - 1 = ack + k
      BY <1>1
    <2>. QED  BY <1>1, <2>1, <2>2, <2>3 DEF TextAt
  <1>5. c \notin overflowed => m.first <= Len(received[c]) + 1
    BY <1>1, <1>2
  <1>. QED  BY <1>1, <1>3, <1>4, <1>5 DEF GoodMessage

\* A message or an acknowledgement that is as it should be keeps the window.
LEMMA SentKeepsWindow ==
    ASSUME WindowInv, CallsType',
           reliableAcknowledge' \in [Clients -> Nat],
           message' \in [Clients -> Message],
           \A c \in Clients : /\ GoodMessage(message'[c], c)
                              /\ GoodAck(reliableAcknowledge'[c], c),
           UNCHANGED <<window, packet, received, loaded>>
    PROVE  WindowInv'
  <1>1. TypeOK'
    BY DEF WindowInv, TypeOK, CallsType, window, Message
  <1>2. RingOK'
    <2>1. ASSUME NEW c \in Clients \ overflowed'
          PROVE  Unacknowledged(c)' <= MAX_RELIABLE_COMMANDS
      BY DEF GoodAck, Unacknowledged, window
    <2>. QED  BY <2>1 DEF WindowInv, RingOK, TextAt, window
  <1>3. NumbersOK'
    <2>1. ASSUME NEW c \in Clients
          PROVE  /\ packet[c] <= Len(received[c])
                 /\ Len(received[c]) <= reliableSequence[c]
      BY DEF WindowInv, NumbersOK
    <2>2. ASSUME NEW c \in Clients
          PROVE  /\ c \notin overflowed => reliableAcknowledge'[c] <= packet[c]
                 /\ reliableAcknowledge'[c] <= reliableSequence[c]
                 /\ Last(message'[c]) <= reliableSequence[c]
      BY DEF GoodMessage, GoodAck
    <2>3. \A c \in Clients : Last(message[c])' = Last(message'[c])
      BY DEF Last
    <2>. QED  BY <2>1, <2>2, <2>3 DEF NumbersOK, window
  <1>4. MessageOK' /\ ReceivedAsAdded'
    BY DEF WindowInv, MessageOK, ReceivedAsAdded, GoodMessage, window
  <1>. QED  BY <1>1, <1>2, <1>3, <1>4 DEF WindowInv

\* A message that agrees with what was added may take the place of another.
LEMMA MessageKeepsWindow ==
    ASSUME WindowInv, CallsType', NEW c \in Clients, NEW m, GoodMessage(m, c),
           message' = [message EXCEPT ![c] = m],
           UNCHANGED <<window, reliableAcknowledge, packet, received, loaded>>
    PROVE  WindowInv'
  <1>1. message \in [Clients -> Message]
    BY DEF WindowInv, TypeOK, Message
  <1>2. m \in Message
    BY DEF GoodMessage
  <1>3. message' \in [Clients -> Message]
    BY <1>1, <1>2
  <1>4. ASSUME NEW d \in Clients
        PROVE  /\ GoodMessage(message'[d], d)
               /\ GoodAck(reliableAcknowledge'[d], d)
    <2>1. message'[d] = IF d = c THEN m ELSE message[d]
      BY <1>1
    <2>2. reliableAcknowledge'[d] = reliableAcknowledge[d]
      OBVIOUS
    <2>. QED  BY <2>1, <2>2, MessagesGood
  <1>5. reliableAcknowledge' \in [Clients -> Nat]
    BY DEF WindowInv, TypeOK
  <1>. QED  BY <1>3, <1>4, <1>5, SentKeepsWindow
\* Empty rings are windows of no commands.
LEMMA InitWindow == Init => WindowInv
  <1>. SUFFICES ASSUME Init  PROVE  WindowInv
    OBVIOUS
  <1>1. TypeOK
    <2>1. /\ state \in [Clients ->
                         {"free", "zombie", "connected", "primed", "active"}]
          /\ gamestateSent \in [Clients -> BOOLEAN]
          /\ reliableSequence \in [Clients -> Nat]
          /\ reliableAcknowledge \in [Clients -> Nat]
          /\ inGame \subseteq Clients /\ issued \in Nat
          /\ packet \in [Clients -> Nat]
          /\ loaded \subseteq Clients /\ overflowed \subseteq Clients
      BY DEF Init
    <2>2. restarts \in 0..MaxRestarts
      BY ReliableAssumption DEF Init
    <2>3. reliableCommands \in [Clients -> Ring]
      BY TextType DEF Init, Ring
    <2>4. message \in [Clients -> [first : Nat \ {0}, gamestate : BOOLEAN,
                                   texts : Seq(Text)]]
      BY NoMessageType DEF Init, Message
    <2>5. /\ received \in [Clients -> Seq(Text)]
          /\ added \in [Clients -> Seq(Text)]
          /\ \A c \in Clients : reliableSequence[c] = Len(added[c])
      BY EmptySeq DEF Init
    <2>6. stack \in Seq(Frame)
      BY EmptySeq DEF Init
    <2>. QED  BY <2>1, <2>2, <2>3, <2>4, <2>5, <2>6 DEF TypeOK
  <1>2. ASSUME NEW c \in Clients
        PROVE  /\ reliableSequence[c] = 0 /\ reliableAcknowledge[c] = 0
               /\ Unacknowledged(c) = 0
               /\ \A i \in 0..(MAX_RELIABLE_COMMANDS - 1) :
                    reliableCommands[c][i] = NoText
               /\ message[c] = NoMessage /\ packet[c] = 0
               /\ received[c] = <<>> /\ added[c] = <<>>
    BY DEF Init, Unacknowledged
  <1>3. RingOK
    <2>1. Index(0) \in 0..(MAX_RELIABLE_COMMANDS - 1)
      BY IndexRange
    <2>2. ASSUME NEW c \in Clients, NEW n \in 0..reliableSequence[c]
          PROVE  reliableCommands[c][Index(n)] = TextAt(c, n)
      <3>1. n = 0
        BY <1>2
      <3>. QED  BY <1>2, <2>1, <3>1 DEF TextAt
    <2>. QED  BY <1>2, <2>2, RingSize DEF RingOK
  <1>4. Last(NoMessage) = 0
    BY NoMessageType DEF Last
  <1>5. NumbersOK
    BY <1>2, <1>4 DEF NumbersOK
  <1>6. MessageOK /\ ReceivedAsAdded
    BY <1>2, NoMessageType DEF MessageOK, ReceivedAsAdded
  <1>. QED  BY <1>1, <1>3, <1>5, <1>6 DEF WindowInv

\* The snapshot goes on from what was acknowledged, or is empty.
LEMMA SnapshotKeepsWindow ==
    ASSUME WindowInv, NEW c \in Clients, SV_SendClientSnapshot(c)
    PROVE  WindowInv'
  <1>. DEFINE ack == reliableAcknowledge[c]
              count == reliableSequence[c] - ack
              m == UnacknowledgedCommands(c, ack)
  <1>1. /\ ack \in Nat /\ reliableSequence[c] \in Nat /\ packet[c] \in Nat
        /\ Len(received[c]) \in Nat
    BY ClientTypes DEF WindowInv
  <1>2. GoodAck(ack, c)
    BY MessagesGood
  <1>3. packet[c] <= Len(received[c])
    BY DEF WindowInv, NumbersOK
  <1>4. count \in Nat
    BY <1>1, <1>2 DEF GoodAck
  <1>5. GoodMessage(Commands(c, ack, count), c)
    <2>1. c \notin overflowed =>
            ack <= Len(received[c]) /\ count <= MAX_RELIABLE_COMMANDS
      BY <1>1, <1>2, <1>3 DEF GoodAck
    <2>2. ack + count <= reliableSequence[c]
      BY <1>1
    <2>. HIDE DEF ack
    <2>. QED  BY <1>1, <1>4, <2>1, <2>2, CommandsGood
  <1>6. GoodMessage(m, c)
    BY <1>5, NoMessageGood DEF UnacknowledgedCommands
  <1>7. CallsType'
    BY DEF SV_SendClientSnapshot, WindowInv, TypeOK, CallsType
  <1>8. /\ message' = [message EXCEPT ![c] = m]
        /\ UNCHANGED <<window, reliableAcknowledge, packet, received, loaded>>
    BY DEF SV_SendClientSnapshot
  <1>. HIDE DEF m
  <1>. QED  BY <1>6, <1>7, <1>8, MessageKeepsWindow

\* External: what the client takes from a message follows what it has.
LEMMA ParseKeepsWindow ==
    ASSUME WindowInv, NEW c \in Clients, CL_ParseServerMessage(c)
    PROVE  WindowInv'
  <1>. DEFINE m == message[c]
              n == Len(received[c])
  <1>1. /\ m \in Message /\ received[c] \in Seq(Text) /\ n \in Nat
        /\ Last(m) \in Nat /\ reliableSequence[c] \in Nat
        /\ added[c] \in Seq(Text) /\ Len(added[c]) = reliableSequence[c]
        /\ packet[c] \in Nat
    BY ClientTypes DEF WindowInv
  <1>2. /\ packet[c] <= n /\ n <= reliableSequence[c]
        /\ Last(m) <= reliableSequence[c]
    BY DEF WindowInv, NumbersOK
  <1>3. /\ received \in [Clients -> Seq(Text)]
        /\ message \in [Clients -> Message]
        /\ loaded \subseteq Clients
    BY DEF WindowInv, TypeOK, Message
  <1>. HIDE DEF m, n
  <1>4. /\ received' \in [Clients -> Seq(Text)]
        /\ \A d \in Clients \ {c} : received'[d] = received[d]
        /\ \/ received'[c] = received[c]
           \/ received'[c] = Taken(received[c], m) /\ Last(m) > n
    BY <1>1, <1>3, TakenType DEF CL_ParseServerMessage, m, n
  <1>5. /\ message' \in [Clients -> Message]
        /\ \A d \in Clients \ {c} : message'[d] = message[d]
        /\ message'[c] = NoMessage
    BY <1>3, NoMessageType DEF CL_ParseServerMessage
  <1>6. loaded' \subseteq Clients
    BY <1>3 DEF CL_ParseServerMessage
  <1>7. /\ UNCHANGED <<state, gamestateSent, window, reliableAcknowledge,
                       stack, inGame, issued, restarts, packet>>
    BY DEF CL_ParseServerMessage
  <1>8. n <= Len(received'[c]) /\ Len(received'[c]) <= reliableSequence[c]
        /\ Len(received'[c]) \in Nat
    <2>1. CASE received'[c] = received[c]
      BY <1>1, <1>2, <2>1 DEF n
    <2>2. CASE received'[c] = Taken(received[c], m) /\ Last(m) > n
      <3>1. Len(received'[c]) = Last(m)
        BY <1>1, <2>2, TakenType
      <3>. QED  BY <1>1, <1>2, <2>2, <3>1
    <2>. QED  BY <1>4, <2>1, <2>2
  <1>9. ASSUME c \notin overflowed, NEW i \in 1..Len(received'[c])
        PROVE  received'[c][i] = added[c][i]
    <2>1. /\ m.first <= n + 1
          /\ \A k \in 1..Len(m.texts) : m.texts[k] = added[c][m.first + k - 1]
          /\ \A j \in 1..n : received[c][j] = added[c][j]
      BY <1>9 DEF WindowInv, MessageOK, ReceivedAsAdded, m, n
    <2>2. CASE i <= n
      <3>1. received'[c][i] = received[c][i]
        BY <1>1, <1>4, <1>8, <1>9, <2>2, TakenType DEF n
      <3>. QED  BY <2>1, <2>2, <3>1, <1>1, <1>8
    <2>3. CASE i > n
      <3>1. received'[c] = Taken(received[c], m)
        BY <1>1, <1>4, <2>3, <1>9 DEF n
      <3>2. i \in 1..Last(m) /\ i >= m.first /\ ~(i <= n)
        BY <1>1, <1>8, <2>1, <2>3, <3>1, <1>9, TakenType, LastType
      <3>3. Taken(received[c], m)[i] = m.texts[i - m.first + 1]
        BY <1>1, <3>2, TakenType DEF n
      <3>4. /\ i - m.first + 1 \in 1..Len(m.texts)
            /\ m.first + (i - m.first + 1) - 1 = i
        BY <1>1, <3>2, LastType
      <3>5. m.texts[i - m.first + 1] = added[c][m.first + (i - m.first + 1) - 1]
        BY <2>1, <3>4
      <3>. QED  BY <3>1, <3>3, <3>4, <3>5
    <2>. QED  BY <1>1, <1>8, <2>2, <2>3
  <1>10. TypeOK'
    BY <1>4, <1>5, <1>6, <1>7 DEF WindowInv, TypeOK, window, Message
  <1>11. RingOK'
    BY <1>7 DEF WindowInv, RingOK, TextAt, Unacknowledged, window
  <1>12. NumbersOK'
    <2>1. Last(NoMessage) = 0
      BY NoMessageType DEF Last
    <2>2. ASSUME NEW d \in Clients
          PROVE  /\ d \notin overflowed => reliableAcknowledge[d] <= packet[d]
                 /\ reliableAcknowledge[d] <= reliableSequence[d]
                 /\ packet[d] <= Len(received'[d])
                 /\ Len(received'[d]) <= reliableSequence[d]
                 /\ Last(message'[d]) <= reliableSequence[d]
      <3>1. /\ d \notin overflowed => reliableAcknowledge[d] <= packet[d]
            /\ reliableAcknowledge[d] <= reliableSequence[d]
            /\ packet[d] <= Len(received[d])
            /\ Len(received[d]) <= reliableSequence[d]
            /\ Last(message[d]) <= reliableSequence[d]
        BY DEF WindowInv, NumbersOK
      <3>2. CASE d = c
        BY <1>1, <1>2, <1>5, <1>8, <2>1, <3>1, <3>2
      <3>3. CASE d # c
        BY <1>4, <1>5, <3>1, <3>3
      <3>. QED  BY <3>2, <3>3
    <2>. QED  BY <1>7, <2>2 DEF NumbersOK, Last, window
  <1>13. MessageOK'
    <2>1. ASSUME NEW d \in Clients \ overflowed
          PROVE  /\ message'[d].first <= Len(received'[d]) + 1
                 /\ \A k \in 1..Len(message'[d].texts) :
                      message'[d].texts[k] = added[d][message'[d].first + k - 1]
      <3>1. CASE d = c
        BY <1>5, <1>8, <3>1, NoMessageType
      <3>2. CASE d # c
        BY <1>4, <1>5, <3>2 DEF WindowInv, MessageOK
      <3>. QED  BY <3>1, <3>2
    <2>. QED  BY <1>7, <2>1 DEF MessageOK, window
  <1>14. ReceivedAsAdded'
    <2>1. ASSUME NEW d \in Clients \ overflowed
          PROVE  /\ Len(received'[d]) <= Len(added[d])
                 /\ \A i \in 1..Len(received'[d]) :
                      received'[d][i] = added[d][i]
      <3>1. CASE d = c
        BY <1>1, <1>8, <1>9, <3>1
      <3>2. CASE d # c
        BY <1>4, <3>2 DEF WindowInv, ReceivedAsAdded
      <3>. QED  BY <3>1, <3>2
    <2>. QED  BY <1>7, <2>1 DEF ReceivedAsAdded, window
  <1>. QED  BY <1>10, <1>11, <1>12, <1>13, <1>14 DEF WindowInv

\* External: a packet acknowledges all the client has.
LEMMA PacketKeepsWindow ==
    ASSUME WindowInv, NEW c \in Clients, CL_WritePacket(c)
    PROVE  WindowInv'
  <1>1. /\ Len(received[c]) \in Nat /\ packet[c] \in Nat
        /\ reliableAcknowledge[c] \in Nat
    BY ClientTypes DEF WindowInv
  <1>2. /\ packet' \in [Clients -> Nat]
        /\ \A d \in Clients \ {c} : packet'[d] = packet[d]
        /\ packet'[c] = Len(received[c])
    BY <1>1 DEF CL_WritePacket, WindowInv, TypeOK
  <1>3. UNCHANGED <<state, gamestateSent, window, reliableAcknowledge, stack,
                    inGame, issued, restarts, message, received, loaded>>
    BY DEF CL_WritePacket
  <1>4. TypeOK' /\ RingOK' /\ MessageOK' /\ ReceivedAsAdded'
    BY <1>2, <1>3 DEF WindowInv, TypeOK, RingOK, MessageOK, ReceivedAsAdded,
         Unacknowledged, TextAt, window
  <1>5. NumbersOK'
    <2>1. ASSUME NEW d \in Clients
          PROVE  /\ d \notin overflowed => reliableAcknowledge[d] <= packet'[d]
                 /\ packet'[d] <= Len(received[d])
      <3>1. /\ d \notin overflowed => reliableAcknowledge[d] <= packet[d]
            /\ packet[d] <= Len(received[d])
        BY DEF WindowInv, NumbersOK
      <3>2. CASE d = c
        BY <1>1, <1>2, <3>1, <3>2
      <3>3. CASE d # c
        BY <1>2, <3>1, <3>3
      <3>. QED  BY <3>2, <3>3
    <2>. QED  BY <1>3, <2>1 DEF WindowInv, NumbersOK, Last, window
  <1>. QED  BY <1>4, <1>5 DEF WindowInv
-----------------------------------------------------------------------------
(* The calls in progress *)

\* The fields of a call on the stack, by the function it is a call of, and its
\* next frame.
LEMMA FrameTypes ==
    ASSUME NEW f \in Frame
    PROVE  /\ f.call \in {"SV_SendServerCommand", "SV_DropClient",
                          "SV_ClientEnterWorld", "SV_MapRestart_f"}
           /\ f.call = "SV_SendServerCommand" =>
                 /\ f.text \in Text /\ f.next \in Clients
                 /\ [f EXCEPT !.next = @ + 1].call = "SV_SendServerCommand"
                 /\ f.next # N => [f EXCEPT !.next = @ + 1] \in Frame
           /\ f.call = "SV_DropClient" =>
                 /\ f.client \in Clients /\ f.then \in {"zombie", "free"}
                 /\ f.pc \in {"game", "command", "state"}
                 /\ \A pc \in {"game", "command", "state"} :
                       /\ [f EXCEPT !.pc = pc] \in Frame
                       /\ [f EXCEPT !.pc = pc] =
                            [call |-> "SV_DropClient", client |-> f.client,
                             pc |-> pc, then |-> f.then]
           /\ f.call = "SV_ClientEnterWorld" =>
                 f.client \in Clients /\ f.left \in Nat
           /\ f.call = "SV_MapRestart_f" =>
                 /\ f.client \in Clients /\ f.pc \in {"command", "enter"}
                 /\ [f EXCEPT !.pc = "enter"] \in Frame
                 /\ [f EXCEPT !.pc = "enter"].call = "SV_MapRestart_f"
                 /\ f.client # N => MapRestart(f.client + 1) \in Frame
  <1>. DEFINE SendFrame ==
                [call : {"SV_SendServerCommand"}, text : Text, next : Clients]
              DropFrame ==
                [call : {"SV_DropClient"}, client : Clients,
                 pc : {"game", "command", "state"}, then : {"zombie", "free"}]
              EnterFrame ==
                [call : {"SV_ClientEnterWorld"}, client : Clients, left : Nat]
              RestartFrame ==
                [call : {"SV_MapRestart_f"}, client : Clients,
                 pc : {"command", "enter"}]
  <1>1. \A k \in Clients : k # N => k + 1 \in Clients
    BY ReliableAssumption DEF Clients
  <1>2. Frame = SendFrame \cup DropFrame \cup EnterFrame \cup RestartFrame
    BY DEF Frame
  <1>3. CASE f \in SendFrame
    BY <1>1, <1>2, <1>3
  <1>4. CASE f \in DropFrame
    BY <1>2, <1>4
  <1>5. CASE f \in EnterFrame
    BY <1>2, <1>5
  <1>6. CASE f \in RestartFrame
    BY <1>1, <1>2, <1>6 DEF MapRestart
  <1>. QED  BY <1>2, <1>3, <1>4, <1>5, <1>6

\* The frames the functions start with.
LEMMA NewFrames ==
    /\ \A text \in Text : Broadcast(text) \in Frame
    /\ \A c \in Clients, then \in {"zombie", "free"} : Drop(c, then) \in Frame
    /\ \A c \in Clients, left \in Nat : EnterWorld(c, left) \in Frame
    /\ MapRestart(1) \in Frame
  <1>. 1 \in Clients
    BY ReliableAssumption DEF Clients
  <1>. QED  BY DEF Broadcast, Drop, EnterWorld, MapRestart, Frame

\* A call on a stack is a stack.
LEMMA PushType ==
    ASSUME NEW f \in Frame, NEW s \in Seq(Frame)
    PROVE  <<f>> \o s \in Seq(Frame)
  BY ConcatProperties

\* A drop, which does nothing for a zombie, leaves a stack.
LEMMA DropCallType ==
    ASSUME NEW c \in Clients, NEW then \in {"zombie", "free"},
           NEW s \in Seq(Frame)
    PROVE  DropCall(c, then, s) \in Seq(Frame)
  <1>1. PrintText(c) \in Text
    BY TextType DEF Clients
  <1>2. Broadcast(PrintText(c)) \in Frame /\ Drop(c, then) \in Frame
    BY <1>1, NewFrames
  <1>3. <<Broadcast(PrintText(c)), Drop(c, then)>> \in Seq(Frame)
    BY <1>2
  <1>. HIDE DEF Broadcast, Drop
  <1>4. <<Broadcast(PrintText(c)), Drop(c, then)>> \o s \in Seq(Frame)
    BY <1>3, ConcatProperties
  <1>. QED  BY <1>4 DEF DropCall

\* After a command was added the stack is the caller's, or one that drops the
\* client before it returns there.
LEMMA AddStackType ==
    ASSUME NEW c \in Clients, NEW text, NEW caller \in Seq(Frame),
           SV_AddServerCommand(c, text, caller)
    PROVE  stack' \in Seq(Frame)
  BY DropCallType DEF SV_AddServerCommand

\* The innermost call and those below it.
LEMMA StackTop ==
    ASSUME TypeOK, stack # <<>>
    PROVE  /\ Head(stack) \in Frame /\ Tail(stack) \in Seq(Frame)
           /\ stack = <<Head(stack)>> \o Tail(stack)
  <1>1. stack \in Seq(Frame)
    BY DEF TypeOK
  <1>. QED  BY <1>1, HeadTailProperties DEF TypeOK

\* The types of the state the calls change.
LEMMA CallsTypes ==
    ASSUME TypeOK
    PROVE  /\ CallsType
           /\ \A c \in Clients, s \in {"free", "zombie", "connected", "primed", "active"} :
                 [state EXCEPT ![c] = s] \in
                   [Clients -> {"free", "zombie", "connected", "primed", "active"}]
  BY DEF TypeOK, CallsType

\* One turn of SV_SendServerCommand's loop keeps the windows.
LEMMA SendStepKeepsWindow ==
    ASSUME WindowInv, stack # <<>>,
           Head(stack).call = "SV_SendServerCommand", SendServerCommandStep,
           UNCHANGED <<reliableAcknowledge, restarts, network>>
    PROVE  WindowInv'
  <1>. DEFINE f    == Head(stack)
              rest == IF f.next = N THEN Tail(stack)
                      ELSE <<[f EXCEPT !.next = @ + 1]>> \o Tail(stack)
  <1>1. /\ f \in Frame /\ Tail(stack) \in Seq(Frame)
        /\ f.call = "SV_SendServerCommand"
    BY StackTop DEF WindowInv
  <1>2. /\ SV_AddServerCommand(f.next, f.text, rest)
        /\ UNCHANGED <<state, gamestateSent, inGame, issued>>
    BY DEF SendServerCommandStep
  <1>. HIDE DEF f
  <1>3. /\ f.next \in Clients /\ f.text \in Text
        /\ f.next # N => [f EXCEPT !.next = @ + 1] \in Frame
    BY <1>1, FrameTypes
  <1>4. rest \in Seq(Frame)
    BY <1>1, <1>3, PushType
  <1>. HIDE DEF rest
  <1>5. stack' \in Seq(Frame)
    BY <1>2, <1>3, <1>4, AddStackType
  <1>6. CallsType'
    BY <1>2, <1>5 DEF WindowInv, TypeOK, CallsType
  <1>. QED  BY <1>2, <1>3, <1>6, AddKeepsWindow

\* One part of SV_DropClient, between two commands it adds, keeps the windows.
LEMMA DropStepKeepsWindow ==
    ASSUME WindowInv, stack # <<>>,
           Head(stack).call = "SV_DropClient", DropClientStep,
           UNCHANGED <<reliableAcknowledge, restarts, network>>
    PROVE  WindowInv'
  <1>. DEFINE f      == Head(stack)
              at(pc) == <<[f EXCEPT !.pc = pc]>> \o Tail(stack)
  <1>1. /\ f \in Frame /\ Tail(stack) \in Seq(Frame)
        /\ f.call = "SV_DropClient"
    BY StackTop DEF WindowInv
  <1>2. \/ /\ f.pc = "game"
           /\ inGame' = inGame \ {f.client}
           /\ \/ /\ stack' = at("command")
                 /\ UNCHANGED issued
              \/ /\ issued' = issued + 1
                 /\ stack' = <<Broadcast(GameText(issued'))>> \o at("command")
           /\ UNCHANGED <<window, state, gamestateSent>>
        \/ /\ f.pc = "command"
           /\ SV_AddServerCommand(f.client, DisconnectText, at("state"))
           /\ UNCHANGED <<state, gamestateSent, inGame, issued>>
        \/ /\ f.pc = "state"
           /\ state' = [state EXCEPT ![f.client] = f.then]
           /\ stack' = Tail(stack)
           /\ UNCHANGED <<window, gamestateSent, inGame, issued>>
    BY DEF DropClientStep
  <1>. HIDE DEF f
  <1>3. /\ f.client \in Clients /\ f.then \in {"zombie", "free"}
        /\ \A pc \in {"game", "command", "state"} :
              [f EXCEPT !.pc = pc] \in Frame
    BY <1>1, FrameTypes
  <1>4. at("command") \in Seq(Frame) /\ at("state") \in Seq(Frame)
    BY <1>1, <1>3, PushType
  <1>. HIDE DEF at
  <1>5. CallsType
    BY CallsTypes DEF WindowInv
  <1>6. CASE f.pc = "game"
    <2>1. /\ inGame' = inGame \ {f.client}
          /\ UNCHANGED <<window, state, gamestateSent>>
          /\ \/ stack' = at("command") /\ UNCHANGED issued
             \/ /\ issued' = issued + 1
                /\ stack' = <<Broadcast(GameText(issued'))>> \o at("command")
      BY <1>2, <1>6
    <2>2. issued' \in Nat
      BY <1>5, <2>1 DEF CallsType
    <2>3. stack' \in Seq(Frame)
      <3>1. Broadcast(GameText(issued')) \in Frame
        BY <2>2, TextType, NewFrames
      <3>. QED  BY <1>4, <2>1, <3>1, PushType
    <2>4. CallsType'
      BY <1>5, <2>1, <2>2, <2>3 DEF CallsType
    <2>. QED  BY <2>1, <2>4, WindowKept
  <1>7. CASE f.pc = "command"
    <2>1. /\ SV_AddServerCommand(f.client, DisconnectText, at("state"))
          /\ UNCHANGED <<state, gamestateSent, inGame, issued>>
      BY <1>2, <1>7
    <2>2. stack' \in Seq(Frame)
      BY <1>3, <1>4, <2>1, AddStackType
    <2>3. CallsType'
      BY <1>5, <2>1, <2>2 DEF CallsType
    <2>. QED  BY <1>3, <2>1, <2>3, TextType, AddKeepsWindow
  <1>8. CASE f.pc = "state"
    <2>1. /\ state' = [state EXCEPT ![f.client] = f.then]
          /\ stack' = Tail(stack)
          /\ UNCHANGED <<window, gamestateSent, inGame, issued>>
      BY <1>2, <1>8
    <2>2. CallsType'
      BY <1>1, <1>3, <1>5, <2>1 DEF CallsType
    <2>. QED  BY <2>1, <2>2, WindowKept
  <1>. QED  BY <1>2, <1>6, <1>7, <1>8

\* One part of SV_ClientEnterWorld keeps the windows.
LEMMA EnterStepKeepsWindow ==
    ASSUME WindowInv, stack # <<>>,
           Head(stack).call = "SV_ClientEnterWorld", EnterWorldStep,
           UNCHANGED <<reliableAcknowledge, restarts, network>>
    PROVE  WindowInv'
  <1>. DEFINE f == Head(stack)
  <1>1. /\ f \in Frame /\ Tail(stack) \in Seq(Frame)
        /\ f.call = "SV_ClientEnterWorld"
    BY StackTop DEF WindowInv
  <1>2. \/ /\ f.left > 0
           /\ issued' = issued + 1
           /\ SV_AddServerCommand(f.client, GameText(issued'),
                <<EnterWorld(f.client, f.left - 1)>> \o Tail(stack))
           /\ UNCHANGED <<state, gamestateSent, inGame>>
        \/ /\ f.left = 0
           /\ inGame' = inGame \cup {f.client}
           /\ stack' = Tail(stack)
           /\ UNCHANGED <<window, state, gamestateSent, issued>>
    BY DEF EnterWorldStep
  <1>. HIDE DEF f
  <1>3. f.client \in Clients /\ f.left \in Nat
    BY <1>1, FrameTypes
  <1>4. CallsType
    BY CallsTypes DEF WindowInv
  <1>5. CASE f.left > 0
    <2>. DEFINE caller == <<EnterWorld(f.client, f.left - 1)>> \o Tail(stack)
    <2>1. /\ issued' = issued + 1
          /\ SV_AddServerCommand(f.client, GameText(issued'), caller)
          /\ UNCHANGED <<state, gamestateSent, inGame>>
      BY <1>2, <1>5
    <2>2. issued' \in Nat /\ GameText(issued') \in Text
      BY <1>4, <2>1, TextType DEF CallsType
    <2>3. EnterWorld(f.client, f.left - 1) \in Frame
      <3>1. f.left - 1 \in Nat
        BY <1>3, <1>5
      <3>. QED  BY <1>3, <3>1, NewFrames
    <2>4. caller \in Seq(Frame)
      BY <1>1, <2>3, PushType
    <2>. HIDE DEF caller
    <2>5. stack' \in Seq(Frame)
      BY <1>3, <2>1, <2>4, AddStackType
    <2>6. CallsType'
      BY <1>4, <2>1, <2>2, <2>5 DEF CallsType
    <2>. QED  BY <1>3, <2>1, <2>2, <2>6, AddKeepsWindow
  <1>6. CASE f.left = 0
    <2>1. /\ inGame' = inGame \cup {f.client}
          /\ stack' = Tail(stack)
          /\ UNCHANGED <<window, state, gamestateSent, issued>>
      BY <1>2, <1>6
    <2>2. CallsType'
      BY <1>1, <1>3, <1>4, <2>1 DEF CallsType
    <2>. QED  BY <2>1, <2>2, WindowKept
  <1>. QED  BY <1>2, <1>5, <1>6

\* One turn of SV_MapRestart_f's loop keeps the windows.
LEMMA RestartStepKeepsWindow ==
    ASSUME WindowInv, stack # <<>>,
           Head(stack).call = "SV_MapRestart_f", MapRestartStep,
           UNCHANGED <<gamestateSent, inGame>>,
           UNCHANGED <<reliableAcknowledge, restarts, network>>
    PROVE  WindowInv'
  <1>. DEFINE f    == Head(stack)
              rest == IF f.client = N THEN Tail(stack)
                      ELSE <<MapRestart(f.client + 1)>> \o Tail(stack)
              at   == <<[f EXCEPT !.pc = "enter"]>> \o Tail(stack)
  <1>1. /\ f \in Frame /\ Tail(stack) \in Seq(Frame)
        /\ f.call = "SV_MapRestart_f"
    BY StackTop DEF WindowInv
  <1>2. \/ /\ stack' = rest
           /\ UNCHANGED <<window, state, issued>>
        \/ /\ SV_AddServerCommand(f.client, GameText(issued), at)
           /\ UNCHANGED <<state, issued>>
        \/ /\ state' = [state EXCEPT ![f.client] = "active"]
           /\ \E left \in Updates(f.client) :
                stack' = <<EnterWorld(f.client, left)>> \o rest
           /\ UNCHANGED <<window, issued>>
        \/ /\ stack' = DropCall(f.client, "zombie", rest)
           /\ UNCHANGED <<window, state, issued>>
    BY DEF MapRestartStep
  <1>. HIDE DEF f
  <1>3. /\ f.client \in Clients
        /\ [f EXCEPT !.pc = "enter"] \in Frame
        /\ f.client # N => MapRestart(f.client + 1) \in Frame
    BY <1>1, FrameTypes
  <1>4. rest \in Seq(Frame) /\ at \in Seq(Frame)
    BY <1>1, <1>3, PushType
  <1>. HIDE DEF rest, at
  <1>5. CallsType
    BY CallsTypes DEF WindowInv
  <1>6. CASE /\ stack' = rest
             /\ UNCHANGED <<window, state, issued>>
    <2>1. CallsType'
      BY <1>4, <1>5, <1>6 DEF CallsType
    <2>. QED  BY <1>6, <2>1, WindowKept
  <1>7. CASE /\ SV_AddServerCommand(f.client, GameText(issued), at)
             /\ UNCHANGED <<state, issued>>
    <2>1. stack' \in Seq(Frame)
      BY <1>3, <1>4, <1>7, AddStackType
    <2>2. CallsType'
      BY <1>5, <1>7, <2>1 DEF CallsType
    <2>3. GameText(issued) \in Text
      BY <1>5, TextType DEF CallsType
    <2>. QED  BY <1>3, <1>7, <2>2, <2>3, AddKeepsWindow
  <1>8. CASE /\ state' = [state EXCEPT ![f.client] = "active"]
             /\ \E left \in Updates(f.client) :
                  stack' = <<EnterWorld(f.client, left)>> \o rest
             /\ UNCHANGED <<window, issued>>
    <2>1. PICK left \in Updates(f.client) :
                  stack' = <<EnterWorld(f.client, left)>> \o rest
      BY <1>8
    <2>2. EnterWorld(f.client, left) \in Frame
      <3>1. left \in Nat
        BY ReliableAssumption DEF Updates
      <3>. QED  BY <1>3, <3>1, NewFrames
    <2>3. stack' \in Seq(Frame)
      BY <1>4, <2>1, <2>2, PushType
    <2>4. CallsType'
      BY <1>3, <1>5, <1>8, <2>3 DEF CallsType
    <2>. QED  BY <1>8, <2>4, WindowKept
  <1>9. CASE /\ stack' = DropCall(f.client, "zombie", rest)
             /\ UNCHANGED <<window, state, issued>>
    <2>1. stack' \in Seq(Frame)
      BY <1>3, <1>4, <1>9, DropCallType
    <2>2. CallsType'
      BY <1>5, <1>9, <2>1 DEF CallsType
    <2>. QED  BY <1>9, <2>2, WindowKept
  <1>. QED  BY <1>2, <1>6, <1>7, <1>8, <1>9

-----------------------------------------------------------------------------
(* The packets of a client *)

\* A packet's acknowledgement, corrected when it is out of range, and what
\* follows it, keep the windows.
LEMMA ExecuteKeepsWindow ==
    ASSUME WindowInv, NEW c \in Clients, SV_ExecuteClientMessage(c)
    PROVE  WindowInv'
  <1>. DEFINE tooOld ==
                packet[c] < reliableSequence[c] - MAX_RELIABLE_COMMANDS
              ack == IF tooOld THEN reliableSequence[c] ELSE packet[c]
              p == packet[c]
  <1>1. /\ reliableAcknowledge' = [reliableAcknowledge EXCEPT ![c] = ack]
        /\ \/ UNCHANGED <<state, gamestateSent, stack, message>>
           \/ /\ ~tooOld
              /\ SV_SendClientGameState(c)
           \/ /\ ~tooOld
              /\ state' = [state EXCEPT ![c] = "active"]
              /\ \E left \in Updates(c) :
                   stack' = <<EnterWorld(c, left)>>
              /\ UNCHANGED <<gamestateSent, message>>
           \/ /\ stack' = DropCall(c, "zombie", <<>>)
              /\ UNCHANGED <<state, gamestateSent, message>>
        /\ UNCHANGED <<window, inGame, issued, restarts, packet, received, loaded>>
    BY DEF SV_ExecuteClientMessage
  <1>2. /\ reliableSequence[c] \in Nat /\ p \in Nat
        /\ Len(received[c]) \in Nat /\ MAX_RELIABLE_COMMANDS \in Nat \ {0}
        /\ p <= Len(received[c]) /\ Len(received[c]) <= reliableSequence[c]
    BY ClientTypes, RingSize DEF WindowInv, NumbersOK
  <1>3. c \notin overflowed => reliableSequence[c] - p <= MAX_RELIABLE_COMMANDS
    <2>1. GoodAck(reliableAcknowledge[c], c)
      BY MessagesGood
    <2>. QED  BY <1>2, <2>1 DEF GoodAck
  <1>4. GoodAck(ack, c)
    BY <1>2, <1>3 DEF GoodAck
  <1>. HIDE DEF ack
  <1>5. /\ reliableAcknowledge \in [Clients -> Nat]
        /\ message \in [Clients -> Message]
        /\ ack \in Nat
    BY <1>4 DEF WindowInv, TypeOK, Message, GoodAck
  <1>6. /\ reliableAcknowledge' \in [Clients -> Nat]
        /\ reliableAcknowledge'[c] = ack
        /\ \A d \in Clients \ {c} :
              reliableAcknowledge'[d] = reliableAcknowledge[d]
    BY <1>1, <1>5
  <1>7. CallsType
    BY CallsTypes DEF WindowInv
  <1>8. /\ message' \in [Clients -> Message]
        /\ \A d \in Clients : GoodMessage(message'[d], d)
    <2>1. CASE UNCHANGED message
      BY <1>5, <2>1, MessagesGood
    <2>2. CASE ~tooOld /\ SV_SendClientGameState(c)
      <3>. DEFINE count == reliableSequence[c] - p
                  m == GamestateMessage(c, p)
      <3>1. ack = p
        BY <2>2 DEF ack
      <3>2. message' = [message EXCEPT ![c] = m]
        BY <1>6, <2>2, <3>1 DEF SV_SendClientGameState
      <3>3. /\ count \in Nat /\ p + count <= reliableSequence[c]
            /\ count > MessageCapacity => p + MessageCapacity <= reliableSequence[c]
            /\ MessageCapacity \in Nat
        BY <1>2, ReliableAssumption
      <3>. HIDE DEF tooOld, p
      <3>4. GoodMessage(m, c)
        <4>. DEFINE n == IF count <= MessageCapacity THEN count ELSE MessageCapacity
        <4>1. n \in Nat /\ p + n <= reliableSequence[c]
          BY <3>3
        <4>2. m \in {Commands(c, p, n),
                     [Commands(c, p, n) EXCEPT !.gamestate = TRUE]}
          BY DEF GamestateMessage
        <4>. HIDE DEF n, m
        <4>. QED  BY <1>2, <1>3, <4>1, <4>2, CommandsGood
      <3>. HIDE DEF m
      <3>5. m \in Message
        BY <3>4 DEF GoodMessage
      <3>6. message' \in [Clients -> Message]
        BY <1>5, <3>2, <3>5
      <3>7. ASSUME NEW d \in Clients  PROVE  GoodMessage(message'[d], d)
        <4>1. message'[d] = IF d = c THEN m ELSE message[d]
          BY <1>5, <3>2
        <4>. QED  BY <3>4, <4>1, MessagesGood
      <3>. QED  BY <3>6, <3>7
    <2>. QED  BY <1>1, <2>1, <2>2
  <1>9. ASSUME NEW d \in Clients  PROVE  GoodAck(reliableAcknowledge'[d], d)
    BY <1>4, <1>6, MessagesGood
  <1>10. state' \in [Clients -> {"free", "zombie", "connected", "primed", "active"}]
         /\ gamestateSent' \in [Clients -> BOOLEAN]
    BY <1>1, <1>7 DEF CallsType, SV_SendClientGameState
  <1>11. stack' \in Seq(Frame)
    <2>1. <<>> \in Seq(Frame)
      BY EmptySeq
    <2>2. CASE UNCHANGED stack
      BY <1>7, <2>2 DEF CallsType
    <2>3. CASE stack' = DropCall(c, "zombie", <<>>)
      BY <2>1, <2>3, DropCallType
    <2>4. CASE \E left \in Updates(c) : stack' = <<EnterWorld(c, left)>>
      <3>1. PICK left \in Updates(c) : stack' = <<EnterWorld(c, left)>>
        BY <2>4
      <3>2. left \in Nat
        BY ReliableAssumption DEF Updates
      <3>3. EnterWorld(c, left) \in Frame
        BY <3>2, NewFrames
      <3>. QED  BY <3>1, <3>3
    <2>. QED  BY <1>1, <2>2, <2>3, <2>4 DEF SV_SendClientGameState
  <1>12. CallsType'
    BY <1>1, <1>7, <1>10, <1>11 DEF CallsType
  <1>. QED  BY <1>1, <1>6, <1>8, <1>9, <1>12, SentKeepsWindow

-----------------------------------------------------------------------------
(* The other actions, and the invariant of the windows *)

\* The next part of whatever call is innermost keeps the windows.
LEMMA ContinueKeepsWindow ==
    ASSUME WindowInv, Continue
    PROVE  WindowInv'
  <1>1. CASE Head(stack).call = "SV_SendServerCommand" /\ SendServerCommandStep
    BY <1>1, SendStepKeepsWindow DEF Continue
  <1>2. CASE Head(stack).call = "SV_DropClient" /\ DropClientStep
    BY <1>2, DropStepKeepsWindow DEF Continue
  <1>3. CASE Head(stack).call = "SV_ClientEnterWorld" /\ EnterWorldStep
    BY <1>3, EnterStepKeepsWindow DEF Continue
  <1>4. CASE /\ Head(stack).call = "SV_MapRestart_f" /\ MapRestartStep
             /\ UNCHANGED <<gamestateSent, inGame>>
    BY <1>4, RestartStepKeepsWindow DEF Continue
  <1>. QED  BY <1>1, <1>2, <1>3, <1>4 DEF Continue

\* A broadcast, or a command to one client, keeps the windows.
LEMMA CommandKeepsWindow ==
    ASSUME WindowInv, SV_SendServerCommand
    PROVE  WindowInv'
  <1>1. CallsType
    BY CallsTypes DEF WindowInv
  <1>2. /\ issued' = issued + 1
        /\ UNCHANGED <<state, gamestateSent, reliableAcknowledge, inGame,
                       restarts, network>>
    BY DEF SV_SendServerCommand
  <1>3. issued' \in Nat /\ GameText(issued') \in Text
    BY <1>1, <1>2, TextType DEF CallsType
  <1>4. CASE /\ stack' = <<Broadcast(GameText(issued'))>>
             /\ UNCHANGED window
    <2>1. Broadcast(GameText(issued')) \in Frame
      BY <1>3, NewFrames
    <2>2. stack' \in Seq(Frame)
      BY <1>4, <2>1
    <2>3. CallsType'
      BY <1>1, <1>2, <1>3, <2>2 DEF CallsType
    <2>. QED  BY <1>2, <1>4, <2>3, WindowKept
  <1>5. ASSUME NEW c \in Clients,
               SV_AddServerCommand(c, GameText(issued'), <<>>)
        PROVE  WindowInv'
    <2>1. stack' \in Seq(Frame)
      <3>1. <<>> \in Seq(Frame)
        BY EmptySeq
      <3>. QED  BY <1>5, <3>1, AddStackType
    <2>2. CallsType'
      BY <1>1, <1>2, <1>3, <2>1 DEF CallsType
    <2>. QED  BY <1>2, <1>3, <1>5, <2>2, AddKeepsWindow
  <1>. QED  BY <1>4, <1>5 DEF SV_SendServerCommand

\* The start of a restart keeps the windows.
LEMMA RestartKeepsWindow ==
    ASSUME WindowInv, SV_MapRestart_f
    PROVE  WindowInv'
  <1>1. CallsType
    BY CallsTypes DEF WindowInv
  <1>2. stack' \in Seq(Frame)
    BY NewFrames DEF SV_MapRestart_f
  <1>3. restarts' \in 0..MaxRestarts
    BY <1>1, ReliableAssumption DEF SV_MapRestart_f, CallsType
  <1>4. CallsType'
    BY <1>1, <1>2, <1>3 DEF SV_MapRestart_f, CallsType
  <1>. QED  BY <1>4, WindowKept DEF SV_MapRestart_f

\* The start of a drop or a timeout keeps the windows.
LEMMA DropKeepsWindow ==
    ASSUME WindowInv, NEW c \in Clients,
           SV_DropClient(c) \/ SV_CheckTimeouts(c)
    PROVE  WindowInv'
  <1>1. CallsType
    BY CallsTypes DEF WindowInv
  <1>2. /\ UNCHANGED <<gamestateSent, inGame, issued, restarts>>
        /\ UNCHANGED <<window, reliableAcknowledge, network>>
        /\ state' = state \/ state' = [state EXCEPT ![c] = "free"]
        /\ \/ stack' = stack
           \/ \E then \in {"zombie", "free"} : stack' = DropCall(c, then, <<>>)
    BY DEF SV_DropClient, SV_CheckTimeouts
  <1>3. stack' \in Seq(Frame)
    <2>1. <<>> \in Seq(Frame)
      BY EmptySeq
    <2>. QED  BY <1>1, <1>2, <2>1, DropCallType DEF CallsType
  <1>4. CallsType'
    BY <1>1, <1>2, <1>3 DEF CallsType
  <1>. QED  BY <1>2, <1>4, WindowKept

\* Every step keeps the windows; one case per action.
LEMMA WindowInductive == WindowInv /\ [Next]_vars => WindowInv'
  <1>. SUFFICES ASSUME WindowInv, [Next]_vars  PROVE  WindowInv'
    OBVIOUS
  <1>1. CASE Continue
    BY <1>1, ContinueKeepsWindow
  <1>2. CASE SV_SendServerCommand
    BY <1>2, CommandKeepsWindow
  <1>3. CASE SV_MapRestart_f
    BY <1>3, RestartKeepsWindow
  <1>4. ASSUME NEW c \in Clients, SV_DropClient(c) \/ SV_CheckTimeouts(c)
        PROVE  WindowInv'
    BY <1>4, DropKeepsWindow
  <1>5. ASSUME NEW c \in Clients, SV_SendClientSnapshot(c)
        PROVE  WindowInv'
    BY <1>5, SnapshotKeepsWindow
  <1>6. ASSUME NEW c \in Clients, SV_ExecuteClientMessage(c)
        PROVE  WindowInv'
    BY <1>6, ExecuteKeepsWindow
  <1>7. ASSUME NEW c \in Clients, CL_ParseServerMessage(c)
        PROVE  WindowInv'
    BY <1>7, ParseKeepsWindow
  <1>8. ASSUME NEW c \in Clients, CL_WritePacket(c)
        PROVE  WindowInv'
    BY <1>8, PacketKeepsWindow
  <1>9. CASE UNCHANGED vars
    <2>1. CallsType'
      BY <1>9, CallsTypes DEF WindowInv, vars, CallsType
    <2>2. UNCHANGED <<window, reliableAcknowledge, network>>
      BY <1>9 DEF vars
    <2>. QED  BY <2>1, <2>2, WindowKept
  <1>. QED  BY <1>1, <1>2, <1>3, <1>4, <1>5, <1>6, <1>7, <1>8, <1>9 DEF Next

\* The variables of the server and the clients keep their types, and the last
\* number given is that of the last command added.
THEOREM TypeCorrect == Spec => []TypeOK
  <1>. QED  BY InitWindow, WindowInductive, PTL DEF Spec, WindowInv

\* A client that never overran its ring has received the commands added for it,
\* each under its number, for every size of ring and message.
THEOREM CommandsArriveAsAdded == Spec => []ReceivedAsAdded
  <1>. QED  BY InitWindow, WindowInductive, PTL DEF Spec, WindowInv

\* A packet of a client whose ring is not full is read with the command it was
\* encoded with.
THEOREM PacketsAreUnderstood == Spec => []KeyKept
  <1>1. WindowInv => KeyKept
    <2>. SUFFICES ASSUME WindowInv, NEW c \in Clients \ overflowed,
                         packet[c] >= reliableAcknowledge[c],
                         Unacknowledged(c) < MAX_RELIABLE_COMMANDS
                  PROVE  reliableCommands[c][Index(packet[c])] = PacketKey(c)
      BY DEF KeyKept
    <2>1. /\ reliableSequence[c] \in Nat /\ reliableAcknowledge[c] \in Nat
          /\ packet[c] \in Nat /\ Len(received[c]) \in Nat
          /\ Unacknowledged(c) = reliableSequence[c] - reliableAcknowledge[c]
          /\ MAX_RELIABLE_COMMANDS \in Nat \ {0}
      BY ClientTypes, RingSize DEF WindowInv
    <2>2. packet[c] <= Len(received[c]) /\ Len(received[c]) <= reliableSequence[c]
      BY DEF WindowInv, NumbersOK
    <2>3. /\ packet[c] \in 0..reliableSequence[c]
          /\ packet[c] > reliableSequence[c] - MAX_RELIABLE_COMMANDS
      BY <2>1, <2>2
    <2>4. reliableCommands[c][Index(packet[c])] = TextAt(c, packet[c])
      BY <2>3 DEF WindowInv, RingOK
    <2>5. packet[c] # 0 => received[c][packet[c]] = added[c][packet[c]]
      <3>1. packet[c] # 0 => packet[c] \in 1..Len(received[c])
        BY <2>1, <2>2
      <3>. QED  BY <3>1 DEF WindowInv, ReceivedAsAdded
    <2>. QED  BY <2>4, <2>5 DEF TextAt, PacketKey
  <1>. QED  BY <1>1, InitWindow, WindowInductive, PTL DEF Spec
-----------------------------------------------------------------------------
(* A ring that was overrun has a drop on its way *)

Calls(s) == {s[i] : i \in 1..Len(s)}

\* Until the first map_restart a client gets commands only after a gamestate,
\* and one with more of them unacknowledged than the ring holds is dropped by
\* a call that is still to return.
DropPending(c) ==
    \E f \in Calls(stack) : f.call = "SV_DropClient" /\ f.client = c

StackInv ==
    restarts = 0 =>
        /\ \A c \in Clients : Primed(c) => gamestateSent[c]
        /\ \A f \in Calls(stack) : f.call # "SV_MapRestart_f"
        /\ \A c \in Clients :
              Connected(c) /\ Unacknowledged(c) > MAX_RELIABLE_COMMANDS
              => DropPending(c)

\* The calls of a stack with one more call.
LEMMA CallsPush ==
    ASSUME NEW f \in Frame, NEW s \in Seq(Frame)
    PROVE  Calls(<<f>> \o s) = {f} \cup Calls(s)
  <1>1. <<f>> \in Seq(Frame) /\ Len(<<f>>) = 1 /\ <<f>>[1] = f
    OBVIOUS
  <1>. DEFINE t == <<f>> \o s
  <1>2. /\ Len(t) = 1 + Len(s) /\ Len(s) \in Nat
        /\ t[1] = f
        /\ \A i \in 1..Len(s) : t[i + 1] = s[i]
    OBVIOUS
  <1>. HIDE DEF t
  <1>3. ASSUME NEW g \in Calls(t)  PROVE  g \in {f} \cup Calls(s)
    <2>1. PICK i \in 1..Len(t) : g = t[i]
      BY DEF Calls
    <2>2. CASE i = 1
      BY <1>2, <2>1, <2>2
    <2>3. CASE i # 1
      <3>1. i - 1 \in 1..Len(s) /\ (i - 1) + 1 = i
        BY <1>2, <2>3
      <3>2. t[i] = s[i - 1]
        BY <1>2, <3>1
      <3>. QED  BY <2>1, <3>1, <3>2 DEF Calls
    <2>. QED  BY <2>2, <2>3
  <1>4. f \in Calls(t)
    <2>1. 1 \in 1..Len(t)
      BY <1>2
    <2>. QED  BY <1>2, <2>1 DEF Calls
  <1>5. ASSUME NEW g \in Calls(s)  PROVE  g \in Calls(t)
    <2>1. PICK i \in 1..Len(s) : g = s[i]
      BY DEF Calls
    <2>2. i + 1 \in 1..Len(t) /\ t[i + 1] = g
      BY <1>2, <2>1
    <2>. QED  BY <2>2 DEF Calls
  <1>. QED  BY <1>3, <1>4, <1>5 DEF t

\* A pair is one element before another.
LEMMA PairIsConcat ==
    ASSUME NEW S, NEW a \in S, NEW b \in S
    PROVE  <<a, b>> = <<a>> \o <<b>>
  <1>. DEFINE s == <<a, b>>
              t == <<a>> \o <<b>>
  <1>1. s \in Seq(S) /\ Len(s) = 2 /\ s[1] = a /\ s[2] = b
    OBVIOUS
  <1>2. t \in Seq(S) /\ Len(t) = 2 /\ t[1] = a /\ t[2] = b
    OBVIOUS
  <1>. HIDE DEF s, t
  <1>3. \A i \in 1..Len(s) : s[i] = t[i]
    BY <1>1, <1>2
  <1>4. s = t
    BY <1>1, <1>2, <1>3, SeqEqual
  <1>. QED  BY <1>4 DEF s, t

\* An empty stack has no calls.
LEMMA CallsEmpty == Calls(<<>>) = {}
  BY DEF Calls

\* The calls below the innermost one, and the innermost one itself.
LEMMA CallsTop ==
    ASSUME TypeOK, stack # <<>>
    PROVE  Calls(stack) = {Head(stack)} \cup Calls(Tail(stack))
  BY StackTop, CallsPush

\* The calls of a stack after a drop: those before, the drop itself unless the
\* client was a zombie, and no restart.
LEMMA CallsDrop ==
    ASSUME NEW c \in Clients, NEW then \in {"zombie", "free"},
           NEW s \in Seq(Frame)
    PROVE  /\ Calls(s) \subseteq Calls(DropCall(c, then, s))
           /\ \A f \in Calls(DropCall(c, then, s)) :
                 f \in Calls(s) \/ f.call # "SV_MapRestart_f"
           /\ state[c] # "zombie" =>
                 \E f \in Calls(DropCall(c, then, s)) :
                    f.call = "SV_DropClient" /\ f.client = c
  <1>. DEFINE p == Broadcast(PrintText(c))
              d == Drop(c, then)
  <1>1. p \in Frame /\ d \in Frame
    <2>1. PrintText(c) \in Text
      BY TextType DEF Clients
    <2>. QED  BY <2>1, NewFrames
  <1>2. /\ p.call = "SV_SendServerCommand"
        /\ d.call = "SV_DropClient" /\ d.client = c
    BY DEF Broadcast, Drop
  <1>3. DropCall(c, then, s) = IF state[c] = "zombie" THEN s ELSE <<p, d>> \o s
    BY DEF DropCall
  <1>. HIDE DEF p, d
  <1>4. <<p, d>> \o s = <<p>> \o (<<d>> \o s)
    <2>1. <<p, d>> = <<p>> \o <<d>>
      BY <1>1, PairIsConcat
    <2>2. <<p>> \in Seq(Frame) /\ <<d>> \in Seq(Frame)
      BY <1>1
    <2>. QED  BY <2>1, <2>2, ConcatAssociative
  <1>5. <<d>> \o s \in Seq(Frame)
    BY <1>1, PushType
  <1>6. Calls(<<p, d>> \o s) = {p, d} \cup Calls(s)
    <2>. DEFINE t == <<d>> \o s
    <2>1. Calls(t) = {d} \cup Calls(s)
      BY <1>1, CallsPush
    <2>2. t \in Seq(Frame)
      BY <1>5
    <2>. HIDE DEF t
    <2>3. Calls(<<p>> \o t) = {p} \cup Calls(t)
      BY <1>1, <2>2, CallsPush
    <2>4. <<p, d>> \o s = <<p>> \o t
      BY <1>4 DEF t
    <2>. QED  BY <2>1, <2>3, <2>4
  <1>. QED  BY <1>2, <1>3, <1>6

\* What adding a command means for the calls in progress and the client.
LEMMA AddKeepsStack ==
    ASSUME WindowInv, NEW c \in Clients, NEW text, NEW caller \in Seq(Frame),
           SV_AddServerCommand(c, text, caller), restarts = 0, StackInv,
           UNCHANGED <<state, gamestateSent, reliableAcknowledge>>,
           \A f \in Calls(caller) : f.call # "SV_MapRestart_f",
           \A d \in Clients : DropPending(d) =>
               \E f \in Calls(caller) :
                   f.call = "SV_DropClient" /\ f.client = d
    PROVE  StackInv'
  <1>1. \A f \in Calls(stack') : f \in Calls(caller) \/ f.call # "SV_MapRestart_f"
    BY CallsDrop DEF SV_AddServerCommand
  <1>2. Calls(caller) \subseteq Calls(stack')
    BY CallsDrop DEF SV_AddServerCommand
  <1>3. \A d \in Clients : DropPending(d) => DropPending(d)'
    BY <1>2 DEF DropPending
  <1>4. ASSUME NEW d \in Clients, Connected(d)',
               Unacknowledged(d)' > MAX_RELIABLE_COMMANDS
        PROVE  DropPending(d)'
    <2>1. Connected(d)
      BY <1>4 DEF Connected, Primed
    <2>2. /\ reliableSequence[d] \in Nat /\ reliableAcknowledge[d] \in Nat
          /\ Unacknowledged(d) = reliableSequence[d] - reliableAcknowledge[d]
          /\ MAX_RELIABLE_COMMANDS \in Nat \ {0}
      BY ClientTypes, RingSize DEF WindowInv
    <2>3. reliableSequence \in [Clients -> Nat]
      BY DEF WindowInv, TypeOK
    <2>4. CASE Unacknowledged(d) > MAX_RELIABLE_COMMANDS
      BY <1>3, <2>1, <2>4 DEF StackInv
    <2>5. CASE ~(Unacknowledged(d) > MAX_RELIABLE_COMMANDS)
      <3>1. Unacknowledged(d)' = reliableSequence'[d] - reliableAcknowledge[d]
        BY DEF Unacknowledged
      <3>2. reliableSequence'[d] # reliableSequence[d]
        BY <1>4, <2>2, <2>5, <3>1
      <3>3. /\ d = c /\ Primed(c)
            /\ reliableSequence'[c] = reliableSequence[c] + 1
        BY <2>3, <3>2 DEF SV_AddServerCommand, window
      <3>4. Overrun(c)
        BY <1>4, <2>2, <2>5, <3>1, <3>3 DEF Overrun
      <3>5. gamestateSent[c]
        BY <3>3 DEF StackInv
      <3>6. stack' = DropCall(c, "zombie", caller)
        BY <3>3, <3>4, <3>5 DEF SV_AddServerCommand
      <3>7. state[c] # "zombie"
        BY <3>3 DEF Primed
      <3>. QED  BY <3>3, <3>6, <3>7, CallsDrop DEF DropPending
    <2>. QED  BY <2>4, <2>5
  <1>5. \A d \in Clients : Primed(d)' => gamestateSent'[d]
    BY DEF StackInv, Primed
  <1>. QED  BY <1>1, <1>4, <1>5 DEF StackInv
\* Steps that add no command: who is connected, what is unacknowledged and
\* which drops are pending say it all.
LEMMA StackKept ==
    ASSUME StackInv, restarts = 0,
           \A c \in Clients : Primed(c)' => gamestateSent'[c],
           \A f \in Calls(stack') : f \in Calls(stack) \/ f.call # "SV_MapRestart_f",
           \A c \in Clients :
              Connected(c)' /\ Unacknowledged(c)' > MAX_RELIABLE_COMMANDS
              => DropPending(c)'
    PROVE  StackInv'
  BY DEF StackInv

\* The next part of the innermost call keeps the stack's invariant: a client
\* that overran has its drop on the stack until it is a zombie.
LEMMA ContinueKeepsStack ==
    ASSUME WindowInv, StackInv, restarts = 0, Continue
    PROVE  StackInv'
  <1>. DEFINE f == Head(stack)
  <1>1. /\ f \in Frame /\ Tail(stack) \in Seq(Frame)
        /\ Calls(stack) = {f} \cup Calls(Tail(stack))
        /\ UNCHANGED reliableAcknowledge
    BY StackTop, CallsTop DEF WindowInv, Continue
  <1>2. CASE f.call = "SV_SendServerCommand" /\ SendServerCommandStep
    <2>. DEFINE rest == IF f.next = N THEN Tail(stack)
                        ELSE <<[f EXCEPT !.next = @ + 1]>> \o Tail(stack)
    <2>1. /\ SV_AddServerCommand(f.next, f.text, rest)
          /\ UNCHANGED <<state, gamestateSent, inGame, issued>>
      BY <1>2 DEF SendServerCommandStep
    <2>. HIDE DEF f
    <2>2. /\ f.next \in Clients /\ f.text \in Text
          /\ f.next # N =>
                /\ [f EXCEPT !.next = @ + 1] \in Frame
                /\ [f EXCEPT !.next = @ + 1].call = "SV_SendServerCommand"
      BY <1>1, <1>2, FrameTypes
    <2>3. rest \in Seq(Frame)
      BY <1>1, <2>2, PushType
    <2>4. /\ Calls(Tail(stack)) \subseteq Calls(rest)
          /\ \A g \in Calls(rest) :
                g \in Calls(Tail(stack)) \/ g.call = "SV_SendServerCommand"
      BY <1>1, <2>2, CallsPush
    <2>. HIDE DEF rest
    <2>5. \A d \in Clients : DropPending(d) =>
             \E g \in Calls(rest) : g.call = "SV_DropClient" /\ g.client = d
      BY <1>1, <1>2, <2>4 DEF DropPending
    <2>6. \A g \in Calls(rest) : g.call # "SV_MapRestart_f"
      BY <1>1, <2>4 DEF StackInv
    <2>. QED  BY <1>1, <2>1, <2>2, <2>3, <2>5, <2>6, AddKeepsStack
  <1>3. CASE f.call = "SV_DropClient" /\ DropClientStep
    <2>. DEFINE at(pc) == <<[f EXCEPT !.pc = pc]>> \o Tail(stack)
                d == f.client
    <2>1. \/ /\ \/ stack' = at("command") /\ UNCHANGED issued
                \/ /\ issued' = issued + 1
                   /\ stack' = <<Broadcast(GameText(issued'))>> \o at("command")
             /\ UNCHANGED <<window, state, gamestateSent>>
          \/ /\ SV_AddServerCommand(d, DisconnectText, at("state"))
             /\ UNCHANGED <<state, gamestateSent, inGame, issued>>
          \/ /\ state' = [state EXCEPT ![d] = f.then]
             /\ stack' = Tail(stack)
             /\ UNCHANGED <<window, gamestateSent, inGame, issued>>
      BY <1>3 DEF DropClientStep
    <2>. HIDE DEF f
    <2>2. /\ d \in Clients /\ f.then \in {"zombie", "free"}
          /\ \A pc \in {"game", "command", "state"} :
                /\ [f EXCEPT !.pc = pc] \in Frame
                /\ [f EXCEPT !.pc = pc].call = "SV_DropClient"
                /\ [f EXCEPT !.pc = pc].client = d
      <3>1. f \in Frame /\ f.call = "SV_DropClient"
        BY <1>1, <1>3
      <3>2. /\ d \in Clients /\ f.then \in {"zombie", "free"}
            /\ \A pc \in {"game", "command", "state"} :
                  /\ [f EXCEPT !.pc = pc] \in Frame
                  /\ [f EXCEPT !.pc = pc] =
                        [call |-> "SV_DropClient", client |-> d,
                         pc |-> pc, then |-> f.then]
        BY <3>1, FrameTypes
      <3>. HIDE DEF d
      <3>. QED  BY <3>2
    <2>3. ASSUME NEW pc \in {"game", "command", "state"}
          PROVE  /\ at(pc) \in Seq(Frame)
                 /\ Calls(at(pc)) = {[f EXCEPT !.pc = pc]} \cup Calls(Tail(stack))
      BY <1>1, <2>2, PushType, CallsPush
    <2>. HIDE DEF at, d
    <2>4. ASSUME NEW pc \in {"game", "command", "state"}
          PROVE  /\ \A g \in Calls(at(pc)) : g.call # "SV_MapRestart_f"
                 /\ \A c \in Clients : DropPending(c) =>
                      \E g \in Calls(at(pc)) :
                         g.call = "SV_DropClient" /\ g.client = c
      <3>1. ASSUME NEW g \in Calls(at(pc))  PROVE  g.call # "SV_MapRestart_f"
        BY <1>1, <2>2, <2>3, <3>1 DEF StackInv
      <3>2. ASSUME NEW c \in Clients, DropPending(c)
            PROVE  \E g \in Calls(at(pc)) :
                      g.call = "SV_DropClient" /\ g.client = c
        <4>1. PICK g \in Calls(stack) : g.call = "SV_DropClient" /\ g.client = c
          BY <3>2 DEF DropPending
        <4>2. CASE g = f
          BY <2>2, <2>3, <4>1, <4>2 DEF d
        <4>3. CASE g # f
          BY <1>1, <2>3, <4>1, <4>3
        <4>. QED  BY <4>2, <4>3
      <3>. QED  BY <3>1, <3>2
    <2>5. CASE /\ \/ stack' = at("command") /\ UNCHANGED issued
                  \/ /\ issued' = issued + 1
                     /\ stack' = <<Broadcast(GameText(issued'))>> \o at("command")
               /\ UNCHANGED <<window, state, gamestateSent>>
      <3>1. Calls(at("command")) \subseteq Calls(stack')
            /\ \A g \in Calls(stack') :
                  g \in Calls(at("command")) \/ g.call = "SV_SendServerCommand"
        <4>1. CASE stack' = at("command")
          BY <4>1
        <4>2. CASE /\ issued' = issued + 1
                   /\ stack' = <<Broadcast(GameText(issued'))>> \o at("command")
          <5>1. issued' \in Nat
            BY <4>2 DEF WindowInv, TypeOK
          <5>2. /\ Broadcast(GameText(issued')) \in Frame
                /\ Broadcast(GameText(issued')).call = "SV_SendServerCommand"
            BY <5>1, TextType, NewFrames DEF Broadcast
          <5>. QED  BY <2>3, <4>2, <5>2, CallsPush
        <4>. QED  BY <2>5, <4>1, <4>2
      <3>2. ASSUME NEW c \in Clients
            PROVE  /\ Primed(c)' = Primed(c) /\ Connected(c)' = Connected(c)
                   /\ Unacknowledged(c)' = Unacknowledged(c)
                   /\ gamestateSent'[c] = gamestateSent[c]
        BY <1>1, <2>5 DEF Primed, Connected, Unacknowledged, window
      <3>3. ASSUME NEW c \in Clients, DropPending(c)  PROVE  DropPending(c)'
        BY <2>4, <3>1, <3>3 DEF DropPending
      <3>4. \A g \in Calls(stack') : g.call # "SV_MapRestart_f"
        BY <2>4, <3>1
      <3>. QED  BY <3>2, <3>3, <3>4, StackKept DEF StackInv
    <2>6. CASE /\ SV_AddServerCommand(d, DisconnectText, at("state"))
               /\ UNCHANGED <<state, gamestateSent, inGame, issued>>
      BY <1>1, <2>2, <2>3, <2>4, <2>6, AddKeepsStack
    <2>7. CASE /\ state' = [state EXCEPT ![d] = f.then]
               /\ stack' = Tail(stack)
               /\ UNCHANGED <<window, gamestateSent, inGame, issued>>
      <3>. PICK e \in Clients : e = d
        BY <2>2
      <3>1. /\ ~Connected(e)' /\ ~Primed(e)'
            /\ \A c \in Clients \ {e} :
                 Primed(c)' = Primed(c) /\ Connected(c)' = Connected(c)
        <4>1. state \in [Clients ->
                           {"free", "zombie", "connected", "primed", "active"}]
          BY DEF WindowInv, TypeOK
        <4>2. state'[e] = f.then /\ \A c \in Clients \ {e} : state'[c] = state[c]
          BY <2>2, <2>7, <4>1
        <4>. QED  BY <2>2, <4>2 DEF Connected, Primed
      <3>2. \A c \in Clients : Unacknowledged(c)' = Unacknowledged(c)
        BY <1>1, <2>7 DEF Unacknowledged, window
      <3>3. \A c \in Clients \ {e} : DropPending(c) => DropPending(c)'
        BY <1>1, <2>7 DEF DropPending, d
      <3>4. \A g \in Calls(stack') : g \in Calls(stack)
        BY <1>1, <2>7
      <3>5. ASSUME NEW c \in Clients, Connected(c)',
                   Unacknowledged(c)' > MAX_RELIABLE_COMMANDS
            PROVE  DropPending(c)'
        <4>1. c # e
          BY <3>1, <3>5
        <4>2. Connected(c) /\ Unacknowledged(c) > MAX_RELIABLE_COMMANDS
          BY <3>1, <3>2, <3>5, <4>1
        <4>3. DropPending(c)
          BY <4>2 DEF StackInv
        <4>. QED  BY <3>3, <4>1, <4>3
      <3>6. ASSUME NEW c \in Clients, Primed(c)'  PROVE  gamestateSent'[c]
        <4>1. Primed(c)
          BY <3>1, <3>6
        <4>. QED  BY <2>7, <4>1 DEF StackInv
      <3>. QED  BY <3>4, <3>5, <3>6, StackKept
    <2>. QED  BY <2>1, <2>5, <2>6, <2>7
  <1>4. CASE f.call = "SV_ClientEnterWorld" /\ EnterWorldStep
    <2>1. \/ /\ f.left > 0
             /\ SV_AddServerCommand(f.client, GameText(issued'),
                  <<EnterWorld(f.client, f.left - 1)>> \o Tail(stack))
             /\ UNCHANGED <<state, gamestateSent, inGame>>
          \/ /\ stack' = Tail(stack)
             /\ UNCHANGED <<window, state, gamestateSent, issued>>
      BY <1>4 DEF EnterWorldStep
    <2>. HIDE DEF f
    <2>2. f.client \in Clients /\ f.left \in Nat
      BY <1>1, <1>4, FrameTypes
    <2>3. ASSUME NEW c \in Clients
          PROVE  DropPending(c) =>
                   \E g \in Calls(Tail(stack)) :
                      g.call = "SV_DropClient" /\ g.client = c
      BY <1>1, <1>4 DEF DropPending
    <2>4. CASE /\ f.left > 0
               /\ SV_AddServerCommand(f.client, GameText(issued'),
                    <<EnterWorld(f.client, f.left - 1)>> \o Tail(stack))
               /\ UNCHANGED <<state, gamestateSent, inGame>>
      <3>. DEFINE e == EnterWorld(f.client, f.left - 1)
                  caller == <<e>> \o Tail(stack)
      <3>1. f.left - 1 \in Nat
        BY <2>2, <2>4
      <3>2. e \in Frame /\ e.call = "SV_ClientEnterWorld"
        BY <2>2, <3>1, NewFrames DEF EnterWorld
      <3>. HIDE DEF e
      <3>3. caller \in Seq(Frame) /\ Calls(caller) = {e} \cup Calls(Tail(stack))
        BY <1>1, <3>2, PushType, CallsPush
      <3>4. SV_AddServerCommand(f.client, GameText(issued'), caller)
        BY <2>4 DEF e
      <3>. HIDE DEF caller
      <3>5. \A g \in Calls(caller) : g.call # "SV_MapRestart_f"
        BY <1>1, <3>2, <3>3 DEF StackInv
      <3>6. \A c \in Clients : DropPending(c) =>
               \E g \in Calls(caller) : g.call = "SV_DropClient" /\ g.client = c
        BY <2>3, <3>3
      <3>. QED  BY <1>1, <2>2, <2>4, <3>3, <3>4, <3>5, <3>6, AddKeepsStack
    <2>5. CASE /\ stack' = Tail(stack)
               /\ UNCHANGED <<window, state, gamestateSent, issued>>
      <3>1. ASSUME NEW c \in Clients
            PROVE  /\ Primed(c)' = Primed(c) /\ Connected(c)' = Connected(c)
                   /\ Unacknowledged(c)' = Unacknowledged(c)
                   /\ gamestateSent'[c] = gamestateSent[c]
        BY <1>1, <2>5 DEF Primed, Connected, Unacknowledged, window
      <3>2. \A c \in Clients : DropPending(c) => DropPending(c)'
        BY <2>3, <2>5 DEF DropPending
      <3>3. \A g \in Calls(stack') : g \in Calls(stack)
        BY <1>1, <2>5
      <3>. QED  BY <3>1, <3>2, <3>3, StackKept DEF StackInv
    <2>. QED  BY <2>1, <2>4, <2>5
  <1>5. f.call # "SV_MapRestart_f"
    BY <1>1 DEF StackInv
  <1>. QED  BY <1>2, <1>3, <1>4, <1>5 DEF Continue
\* A packet keeps the stack's invariant.
LEMMA ExecuteKeepsStack ==
    ASSUME WindowInv, StackInv, restarts = 0, NEW c \in Clients,
           SV_ExecuteClientMessage(c)
    PROVE  StackInv'
  <1>. DEFINE tooOld ==
                packet[c] < reliableSequence[c] - MAX_RELIABLE_COMMANDS
              ack == IF tooOld THEN reliableSequence[c] ELSE packet[c]
  <1>1. /\ stack = <<>> /\ Connected(c)
        /\ reliableAcknowledge' = [reliableAcknowledge EXCEPT ![c] = ack]
        /\ \/ UNCHANGED <<state, gamestateSent, stack>>
           \/ /\ state' = [state EXCEPT ![c] = "primed"]
              /\ gamestateSent' = [gamestateSent EXCEPT ![c] = TRUE]
              /\ UNCHANGED stack
           \/ /\ state[c] = "primed"
              /\ state' = [state EXCEPT ![c] = "active"]
              /\ \E left \in Updates(c) : stack' = <<EnterWorld(c, left)>>
              /\ UNCHANGED gamestateSent
           \/ /\ stack' = DropCall(c, "zombie", <<>>)
              /\ UNCHANGED <<state, gamestateSent>>
        /\ UNCHANGED <<window, restarts>>
    BY DEF SV_ExecuteClientMessage, SV_SendClientGameState, Idle
  <1>2. /\ reliableSequence[c] \in Nat /\ packet[c] \in Nat
        /\ MAX_RELIABLE_COMMANDS \in Nat \ {0}
        /\ reliableAcknowledge \in [Clients -> Nat]
        /\ state \in [Clients ->
                        {"free", "zombie", "connected", "primed", "active"}]
        /\ gamestateSent \in [Clients -> BOOLEAN]
    BY ClientTypes, RingSize DEF WindowInv, TypeOK
  <1>3. Calls(stack) = {}
    BY <1>1, CallsEmpty
  <1>4. ASSUME NEW d \in Clients, Connected(d)'
        PROVE  ~(Unacknowledged(d)' > MAX_RELIABLE_COMMANDS)
    <2>1. Unacknowledged(d)' = reliableSequence[d] - reliableAcknowledge'[d]
      BY <1>1 DEF Unacknowledged, window
    <2>2. CASE d = c
      <3>1. reliableAcknowledge'[c] = ack
        BY <1>1, <1>2
      <3>. QED  BY <1>2, <2>1, <2>2, <3>1
    <2>3. CASE d # c
      <3>1. reliableAcknowledge'[d] = reliableAcknowledge[d]
        BY <1>1, <1>2, <2>3
      <3>2. state'[d] = state[d]
        BY <1>1, <1>2, <2>3
      <3>3. Connected(d)
        BY <1>4, <3>2 DEF Connected, Primed
      <3>4. ~DropPending(d)
        BY <1>3 DEF DropPending
      <3>. QED  BY <2>1, <3>1, <3>3, <3>4 DEF StackInv, Unacknowledged
    <2>. QED  BY <2>2, <2>3
  <1>5. ASSUME NEW d \in Clients, Primed(d)'  PROVE  gamestateSent'[d]
    <2>1. Primed(d) => gamestateSent[d]
      BY DEF StackInv
    <2>2. CASE UNCHANGED <<state, gamestateSent>>
      BY <1>5, <2>1, <2>2 DEF Primed
    <2>3. CASE /\ state' = [state EXCEPT ![c] = "primed"]
               /\ gamestateSent' = [gamestateSent EXCEPT ![c] = TRUE]
      <3>1. CASE d = c
        BY <1>2, <2>3, <3>1
      <3>2. CASE d # c
        <4>1. state'[d] = state[d] /\ gamestateSent'[d] = gamestateSent[d]
          BY <1>2, <2>3, <3>2
        <4>. QED  BY <1>5, <2>1, <4>1 DEF Primed
      <3>. QED  BY <3>1, <3>2
    <2>4. CASE /\ state[c] = "primed"
               /\ state' = [state EXCEPT ![c] = "active"]
               /\ UNCHANGED gamestateSent
      <3>1. Primed(d)
        BY <1>2, <1>5, <2>4 DEF Primed
      <3>. QED  BY <2>1, <2>4, <3>1
    <2>. QED  BY <1>1, <2>2, <2>3, <2>4
  <1>6. ASSUME NEW f \in Calls(stack')  PROVE  f.call # "SV_MapRestart_f"
    <2>1. CASE UNCHANGED stack
      BY <1>3, <1>6, <2>1
    <2>2. CASE \E left \in Updates(c) : stack' = <<EnterWorld(c, left)>>
      BY <1>6, <2>2 DEF Calls, EnterWorld
    <2>3. CASE stack' = DropCall(c, "zombie", <<>>)
      <3>1. <<>> \in Seq(Frame)
        BY EmptySeq
      <3>2. \A g \in Calls(DropCall(c, "zombie", <<>>)) :
               g \in Calls(<<>>) \/ g.call # "SV_MapRestart_f"
        BY <3>1, CallsDrop
      <3>. QED  BY <1>6, <2>3, <3>2, CallsEmpty
    <2>. QED  BY <1>1, <2>1, <2>2, <2>3
  <1>. QED  BY <1>4, <1>5, <1>6, StackKept

\* A drop or a timeout keeps the stack's invariant.
LEMMA DropKeepsStack ==
    ASSUME WindowInv, StackInv, restarts = 0, NEW c \in Clients,
           SV_DropClient(c) \/ SV_CheckTimeouts(c)
    PROVE  StackInv'
  <1>1. /\ stack = <<>>
        /\ UNCHANGED <<gamestateSent, window, reliableAcknowledge>>
        /\ state' = state \/ state' = [state EXCEPT ![c] = "free"]
        /\ \/ stack' = stack
           \/ \E then \in {"zombie", "free"} : stack' = DropCall(c, then, <<>>)
    BY DEF SV_DropClient, SV_CheckTimeouts, Idle
  <1>2. Calls(stack) = {}
    BY <1>1, CallsEmpty
  <1>3. ASSUME NEW d \in Clients
        PROVE  /\ Primed(d)' => Primed(d)
               /\ Connected(d)' => Connected(d)
               /\ Unacknowledged(d)' = Unacknowledged(d)
    <2>1. state \in [Clients ->
                       {"free", "zombie", "connected", "primed", "active"}]
      BY DEF WindowInv, TypeOK
    <2>2. state'[d] = state[d] \/ state'[d] = "free"
      BY <1>1, <2>1
    <2>. QED  BY <1>1, <2>2 DEF Primed, Connected, Unacknowledged, window
  <1>4. \A d \in Clients : ~DropPending(d)
    BY <1>2 DEF DropPending
  <1>5. ASSUME NEW f \in Calls(stack')  PROVE  f.call # "SV_MapRestart_f"
    <2>1. <<>> \in Seq(Frame)
      BY EmptySeq
    <2>2. \A g \in Calls(DropCall(c, "zombie", <<>>)) :
             g \in Calls(<<>>) \/ g.call # "SV_MapRestart_f"
      BY <2>1, CallsDrop
    <2>3. \A g \in Calls(DropCall(c, "free", <<>>)) :
             g \in Calls(<<>>) \/ g.call # "SV_MapRestart_f"
      BY <2>1, CallsDrop
    <2>. QED  BY <1>1, <1>2, <1>5, <2>2, <2>3, CallsEmpty
  <1>6. \A d \in Clients : Primed(d)' => gamestateSent'[d]
    BY <1>1, <1>3 DEF StackInv
  <1>7. ASSUME NEW d \in Clients, Connected(d)',
               Unacknowledged(d)' > MAX_RELIABLE_COMMANDS
        PROVE  DropPending(d)'
    BY <1>3, <1>4, <1>7 DEF StackInv
  <1>. QED  BY <1>5, <1>6, <1>7, StackKept

\* A broadcast, or a command to one client, keeps the stack's invariant.
LEMMA CommandKeepsStack ==
    ASSUME WindowInv, StackInv, restarts = 0, SV_SendServerCommand
    PROVE  StackInv'
  <1>1. /\ stack = <<>> /\ issued' = issued + 1
        /\ UNCHANGED <<state, gamestateSent, reliableAcknowledge, inGame,
                       restarts, network>>
    BY DEF SV_SendServerCommand, Idle
  <1>2. Calls(stack) = {}
    BY <1>1, CallsEmpty
  <1>3. \A d \in Clients : ~DropPending(d)
    BY <1>2 DEF DropPending
  <1>4. CASE stack' = <<Broadcast(GameText(issued'))>> /\ UNCHANGED window
    <2>1. \A f \in Calls(stack') : f.call # "SV_MapRestart_f"
      BY <1>4 DEF Calls, Broadcast
    <2>2. ASSUME NEW d \in Clients
          PROVE  /\ Primed(d)' = Primed(d) /\ Connected(d)' = Connected(d)
                 /\ Unacknowledged(d)' = Unacknowledged(d)
                 /\ gamestateSent'[d] = gamestateSent[d]
      BY <1>1, <1>4 DEF Primed, Connected, Unacknowledged, window
    <2>. QED  BY <1>3, <2>1, <2>2, StackKept DEF StackInv
  <1>5. ASSUME NEW c \in Clients,
               SV_AddServerCommand(c, GameText(issued'), <<>>)
        PROVE  StackInv'
    <2>1. <<>> \in Seq(Frame)
      BY EmptySeq
    <2>. QED  BY <1>1, <1>3, <1>5, <2>1, CallsEmpty, AddKeepsStack
  <1>. QED  BY <1>4, <1>5 DEF SV_SendServerCommand

IInv == WindowInv /\ StackInv

\* A server without calls in progress satisfies the invariant.
LEMMA InitOK == Init => IInv
  <1>. SUFFICES ASSUME Init  PROVE  IInv
    OBVIOUS
  <1>1. ASSUME NEW c \in Clients
        PROVE  ~Primed(c) /\ Unacknowledged(c) = 0
    BY DEF Init, Primed, Unacknowledged
  <1>2. StackInv
    BY <1>1, CallsEmpty, RingSize DEF Init, StackInv
  <1>. QED  BY <1>2, InitWindow DEF IInv

\* Every step keeps the invariant.
LEMMA InductiveOK == IInv /\ [Next]_vars => IInv'
  <1>. SUFFICES ASSUME WindowInv, StackInv, [Next]_vars  PROVE  StackInv'
    BY WindowInductive DEF IInv
  <1>1. CASE restarts' # 0
    BY <1>1 DEF StackInv
  <1>2. CASE restarts' = 0
    <2>1. CASE SV_MapRestart_f
      BY <1>2, <2>1 DEF SV_MapRestart_f, WindowInv, TypeOK
    <2>2. CASE Continue
      BY <1>2, <2>2, ContinueKeepsStack DEF Continue
    <2>3. CASE SV_SendServerCommand
      BY <1>2, <2>3, CommandKeepsStack DEF SV_SendServerCommand
    <2>4. ASSUME NEW c \in Clients, SV_DropClient(c) \/ SV_CheckTimeouts(c)
          PROVE  StackInv'
      BY <1>2, <2>4, DropKeepsStack DEF SV_DropClient, SV_CheckTimeouts
    <2>5. ASSUME NEW c \in Clients, SV_ExecuteClientMessage(c)
          PROVE  StackInv'
      BY <1>2, <2>5, ExecuteKeepsStack DEF SV_ExecuteClientMessage
    <2>6. CASE UNCHANGED <<state, gamestateSent, reliableSequence,
                           reliableAcknowledge, stack, restarts>>
      BY <2>6 DEF StackInv, DropPending, Connected, Primed, Unacknowledged
    <2>7. CASE UNCHANGED vars
      BY <2>6, <2>7 DEF vars, window
    <2>8. ASSUME NEW c \in Clients,
                 \/ SV_SendClientSnapshot(c)
                 \/ CL_ParseServerMessage(c)
                 \/ CL_WritePacket(c)
          PROVE  StackInv'
      BY <2>6, <2>8 DEF SV_SendClientSnapshot, CL_ParseServerMessage,
           CL_WritePacket, window
    <2>. QED  BY <2>1, <2>2, <2>3, <2>4, <2>5, <2>7, <2>8 DEF Next
  <1>. QED  BY <1>1, <1>2

\* When all calls have returned no connected client has more commands
\* unacknowledged than its ring holds, until the first map_restart.
THEOREM OverrunDrops == Spec => []OverrunIsDropped
  <1>1. IInv => OverrunIsDropped
    BY CallsEmpty DEF IInv, StackInv, DropPending, OverrunIsDropped, Idle
  <1>. QED  BY <1>1, InitOK, InductiveOK, PTL DEF Spec
-----------------------------------------------------------------------------
(* A drop is complete *)

IsDrop(f, c) == f.call = "SV_DropClient" /\ f.client = c

\* Those SV_SendClientGameState has answered, and whose slot is not given up.
Alive(c) == Primed(c) /\ gamestateSent[c]

\* The innermost drop of c has added its disconnect command.
Exposed(s, c) ==
    \E i \in 1..Len(s) :
        /\ IsDrop(s[i], c) /\ s[i].pc = "state"
        /\ \A j \in 1..(i - 1) : ~IsDrop(s[j], c)

Told(c) ==
    reliableCommands[c][Index(reliableSequence[c])] = DisconnectText

\* Only an innermost drop may be about to give up its client's slot, and then
\* the disconnect command is the client's last; the drops below are covered by
\* another one of the same client, which comes first.
ToldOK ==
    \A c \in Clients :
        Alive(c) /\ Exposed(stack, c) => IsDrop(Head(stack), c) /\ Told(c)

\* map_restart is called by no other call, SV_ClientEnterWorld by nothing else
\* than map_restart.
Nested(s) ==
    \A i \in 1..Len(s) :
        /\ s[i].call = "SV_MapRestart_f" => i = Len(s)
        /\ s[i].call = "SV_ClientEnterWorld" =>
              \A j \in (i + 1)..Len(s) : s[j].call = "SV_MapRestart_f"

\* Those whose ring is overrun now.
Overran == {c \in Clients : Unacknowledged(c) > MAX_RELIABLE_COMMANDS}

\* Nobody is dropped on his way in, unless he overran his ring.
EnterOK(s) ==
    \A f \in Calls(s) :
        f.call = "SV_ClientEnterWorld" /\ f.client \notin Overran
        => Connected(f.client) /\ \A g \in Calls(s) : ~IsDrop(g, f.client)

\* The game was told of a drop in progress and has not taken the client back.
LeftOK(s) ==
    \A f \in Calls(s) :
        f.call = "SV_DropClient" /\ f.pc # "game"
        => f.client \notin inGame

CallsOK(s) == Nested(s) /\ EnterOK(s) /\ LeftOK(s)

DropInv == ToldOK /\ CallsOK(stack)

\* One more call: the calls below it keep their places, one further down.
LEMMA PushAt ==
    ASSUME NEW f \in Frame, NEW s \in Seq(Frame)
    PROVE  /\ <<f>> \o s \in Seq(Frame)
           /\ Len(<<f>> \o s) = 1 + Len(s) /\ Len(s) \in Nat
           /\ (<<f>> \o s)[1] = f
           /\ \A i \in 1..Len(s) : (<<f>> \o s)[i + 1] = s[i]
           /\ \A k \in 2..Len(<<f>> \o s) :
                 k - 1 \in 1..Len(s) /\ (<<f>> \o s)[k] = s[k - 1]
           /\ Head(<<f>> \o s) = f /\ <<f>> \o s # <<>>
           /\ (Len(s) = 0) <=> (s = <<>>)
  <1>1. <<f>> \in Seq(Frame) /\ Len(<<f>>) = 1 /\ <<f>>[1] = f
    OBVIOUS
  <1>. DEFINE t == <<f>> \o s
  <1>2. /\ t \in Seq(Frame)
        /\ Len(t) = 1 + Len(s) /\ Len(s) \in Nat
        /\ t[1] = f
        /\ \A i \in 1..Len(s) : t[i + 1] = s[i]
        /\ (Len(s) = 0) <=> (s = <<>>)
    BY ConcatProperties, EmptySeq
  <1>. HIDE DEF t
  <1>3. ASSUME NEW k \in 2..Len(t)  PROVE  k - 1 \in 1..Len(s) /\ t[k] = s[k - 1]
    <2>1. k - 1 \in 1..Len(s) /\ (k - 1) + 1 = k
      BY <1>2
    <2>. QED  BY <1>2, <2>1
  <1>4. Head(t) = f /\ t # <<>>
    BY <1>2
  <1>. QED  BY <1>2, <1>3, <1>4 DEF t

\* A drop covers those of the same client below it; any other call covers none.
LEMMA ExposedPush ==
    ASSUME NEW f \in Frame, NEW s \in Seq(Frame), NEW c
    PROVE  Exposed(<<f>> \o s, c) <=>
             IF IsDrop(f, c) THEN f.pc = "state" ELSE Exposed(s, c)
  <1>. DEFINE t == <<f>> \o s
  <1>1. /\ Len(t) = 1 + Len(s) /\ Len(s) \in Nat /\ t[1] = f
        /\ \A i \in 1..Len(s) : t[i + 1] = s[i]
        /\ \A k \in 2..Len(t) : k - 1 \in 1..Len(s) /\ t[k] = s[k - 1]
    BY PushAt
  <1>. HIDE DEF t
  <1>2. CASE IsDrop(f, c)
    <2>1. ASSUME f.pc = "state"  PROVE  Exposed(t, c)
      <3>1. 1 \in 1..Len(t) /\ \A j \in 1..(1 - 1) : ~IsDrop(t[j], c)
        BY <1>1
      <3>. QED  BY <1>1, <1>2, <2>1, <3>1 DEF Exposed
    <2>2. ASSUME Exposed(t, c)  PROVE  f.pc = "state"
      <3>1. PICK i \in 1..Len(t) :
               /\ IsDrop(t[i], c) /\ t[i].pc = "state"
               /\ \A j \in 1..(i - 1) : ~IsDrop(t[j], c)
        BY <2>2 DEF Exposed
      <3>2. CASE i = 1
        BY <1>1, <3>1, <3>2
      <3>3. CASE i # 1
        <4>1. 1 \in 1..(i - 1)
          BY <1>1, <3>3
        <4>. QED  BY <1>1, <1>2, <3>1, <4>1
      <3>. QED  BY <3>2, <3>3
    <2>. QED  BY <1>2, <2>1, <2>2 DEF t
  <1>3. CASE ~IsDrop(f, c)
    <2>1. ASSUME Exposed(s, c)  PROVE  Exposed(t, c)
      <3>1. PICK i \in 1..Len(s) :
               /\ IsDrop(s[i], c) /\ s[i].pc = "state"
               /\ \A j \in 1..(i - 1) : ~IsDrop(s[j], c)
        BY <2>1 DEF Exposed
      <3>2. i + 1 \in 1..Len(t) /\ t[i + 1] = s[i]
        BY <1>1
      <3>3. ASSUME NEW j \in 1..((i + 1) - 1)  PROVE  ~IsDrop(t[j], c)
        <4>1. CASE j = 1
          BY <1>1, <1>3, <4>1
        <4>2. CASE j # 1
          <5>1. j \in 2..Len(t) /\ j - 1 \in 1..(i - 1)
            BY <1>1, <4>2
          <5>. QED  BY <1>1, <3>1, <5>1
        <4>. QED  BY <4>1, <4>2
      <3>. QED  BY <3>1, <3>2, <3>3 DEF Exposed
    <2>2. ASSUME Exposed(t, c)  PROVE  Exposed(s, c)
      <3>1. PICK i \in 1..Len(t) :
               /\ IsDrop(t[i], c) /\ t[i].pc = "state"
               /\ \A j \in 1..(i - 1) : ~IsDrop(t[j], c)
        BY <2>2 DEF Exposed
      <3>2. i \in 2..Len(t)
        BY <1>1, <1>3, <3>1
      <3>3. i - 1 \in 1..Len(s) /\ t[i] = s[i - 1]
        BY <1>1, <3>2
      <3>4. ASSUME NEW j \in 1..((i - 1) - 1)  PROVE  ~IsDrop(s[j], c)
        <4>1. j \in 1..Len(s) /\ j + 1 \in 1..(i - 1)
          BY <1>1, <3>2
        <4>. QED  BY <1>1, <3>1, <4>1
      <3>. QED  BY <3>1, <3>3, <3>4 DEF Exposed
    <2>. QED  BY <1>3, <2>1, <2>2 DEF t
  <1>. QED  BY <1>2, <1>3

\* map_restart goes on an empty stack only, SV_ClientEnterWorld on map_restart,
\* any other call on top of any stack.
LEMMA NestedPush ==
    ASSUME NEW f \in Frame, NEW s \in Seq(Frame)
    PROVE  Nested(<<f>> \o s) <=>
             /\ Nested(s)
             /\ f.call = "SV_MapRestart_f" => s = <<>>
             /\ f.call = "SV_ClientEnterWorld" =>
                   \A g \in Calls(s) : g.call = "SV_MapRestart_f"
  <1>. DEFINE t == <<f>> \o s
  <1>1. /\ Len(t) = 1 + Len(s) /\ Len(s) \in Nat /\ t[1] = f
        /\ \A i \in 1..Len(s) : t[i + 1] = s[i]
        /\ \A k \in 2..Len(t) : k - 1 \in 1..Len(s) /\ t[k] = s[k - 1]
        /\ (Len(s) = 0) <=> (s = <<>>)
    BY PushAt
  <1>. HIDE DEF t
  <1>2. ASSUME Nested(t)
        PROVE  /\ Nested(s)
               /\ f.call = "SV_MapRestart_f" => s = <<>>
               /\ f.call = "SV_ClientEnterWorld" =>
                     \A g \in Calls(s) : g.call = "SV_MapRestart_f"
    <2>1. ASSUME NEW i \in 1..Len(s)
          PROVE  /\ s[i].call = "SV_MapRestart_f" => i = Len(s)
                 /\ s[i].call = "SV_ClientEnterWorld" =>
                       \A j \in (i + 1)..Len(s) : s[j].call = "SV_MapRestart_f"
      <3>1. i + 1 \in 1..Len(t) /\ t[i + 1] = s[i]
        BY <1>1
      <3>2. /\ s[i].call = "SV_MapRestart_f" => i + 1 = Len(t)
            /\ s[i].call = "SV_ClientEnterWorld" =>
                  \A j \in ((i + 1) + 1)..Len(t) : t[j].call = "SV_MapRestart_f"
        BY <1>2, <3>1 DEF Nested
      <3>3. ASSUME NEW j \in (i + 1)..Len(s)
            PROVE  j + 1 \in ((i + 1) + 1)..Len(t) /\ t[j + 1] = s[j]
        <4>1. j \in 1..Len(s) /\ j + 1 \in ((i + 1) + 1)..Len(t)
          BY <1>1
        <4>. QED  BY <1>1, <4>1
      <3>. QED  BY <1>1, <3>2, <3>3
    <2>2. 1 \in 1..Len(t)
      BY <1>1
    <2>3. /\ f.call = "SV_MapRestart_f" => 1 = Len(t)
          /\ f.call = "SV_ClientEnterWorld" =>
                \A j \in (1 + 1)..Len(t) : t[j].call = "SV_MapRestart_f"
      BY <1>1, <1>2, <2>2 DEF Nested
    <2>4. ASSUME NEW g \in Calls(s)
          PROVE  \E j \in (1 + 1)..Len(t) : t[j] = g
      <3>1. PICK i \in 1..Len(s) : s[i] = g
        BY DEF Calls
      <3>2. i + 1 \in (1 + 1)..Len(t) /\ t[i + 1] = g
        BY <1>1, <3>1
      <3>. QED  BY <3>2
    <2>5. f.call = "SV_MapRestart_f" => s = <<>>
      BY <1>1, <2>3
    <2>6. Nested(s)
      BY <2>1 DEF Nested
    <2>. QED  BY <2>3, <2>4, <2>5, <2>6
  <1>3. ASSUME Nested(s), f.call = "SV_MapRestart_f" => s = <<>>,
               f.call = "SV_ClientEnterWorld" =>
                   \A g \in Calls(s) : g.call = "SV_MapRestart_f"
        PROVE  Nested(t)
    <2>1. ASSUME NEW i \in 1..Len(t)
          PROVE  /\ t[i].call = "SV_MapRestart_f" => i = Len(t)
                 /\ t[i].call = "SV_ClientEnterWorld" =>
                       \A j \in (i + 1)..Len(t) : t[j].call = "SV_MapRestart_f"
      <3>1. CASE i = 1
        <4>1. t[i].call = "SV_MapRestart_f" => i = Len(t)
          BY <1>1, <1>3, <3>1
        <4>2. ASSUME NEW j \in (i + 1)..Len(t)  PROVE  t[j] \in Calls(s)
          <5>1. j \in 2..Len(t)
            BY <1>1, <3>1
          <5>. QED  BY <1>1, <5>1 DEF Calls
        <4>. QED  BY <1>1, <1>3, <3>1, <4>1, <4>2
      <3>2. CASE i # 1
        <4>1. i \in 2..Len(t)
          BY <1>1, <3>2
        <4>2. i - 1 \in 1..Len(s) /\ s[i - 1] = t[i]
          BY <1>1, <4>1
        <4>3. /\ t[i].call = "SV_MapRestart_f" => i - 1 = Len(s)
              /\ t[i].call = "SV_ClientEnterWorld" =>
                    \A j \in ((i - 1) + 1)..Len(s) :
                        s[j].call = "SV_MapRestart_f"
          BY <1>3, <4>2 DEF Nested
        <4>4. ASSUME NEW j \in (i + 1)..Len(t)
              PROVE  j - 1 \in ((i - 1) + 1)..Len(s) /\ t[j] = s[j - 1]
          <5>1. j \in 2..Len(t) /\ j - 1 \in ((i - 1) + 1)..Len(s)
            BY <1>1, <4>1
          <5>. QED  BY <1>1, <5>1
        <4>. QED  BY <1>1, <4>3, <4>4
      <3>. QED  BY <3>1, <3>2
    <2>. QED  BY <2>1 DEF Nested
  <1>. QED  BY <1>2, <1>3 DEF t

\* Nothing is said of no calls.
LEMMA NoCallsOK ==
    /\ CallsOK(<<>>)
    /\ \A c : ~Exposed(<<>>, c)
  BY CallsEmpty DEF CallsOK, Nested, EnterOK, LeftOK, Exposed

\* SV_DropClient puts its print and the drop itself on the stack, unless the
\* client is a zombie; then its client's drop is not exposed.
LEMMA DropCallPushes ==
    ASSUME NEW c \in Clients, NEW then \in {"zombie", "free"},
           NEW s \in Seq(Frame), state[c] # "zombie"
    PROVE  /\ \A d : Exposed(DropCall(c, then, s), d) <=>
                       d # c /\ Exposed(s, d)
           /\ Nested(DropCall(c, then, s)) <=> Nested(s)
           /\ \A f \in Calls(DropCall(c, then, s)) :
                 \/ f \in Calls(s)
                 \/ f.call = "SV_SendServerCommand"
                 \/ IsDrop(f, c) /\ f.pc = "game"
           /\ DropCall(c, then, s) # <<>>
           /\ \A d : ~IsDrop(Head(DropCall(c, then, s)), d)
  <1>. DEFINE p == Broadcast(PrintText(c))
              g == Drop(c, then)
  <1>1. p \in Frame /\ g \in Frame
    <2>1. PrintText(c) \in Text
      BY TextType DEF Clients
    <2>. QED  BY <2>1, NewFrames
  <1>2. /\ p.call = "SV_SendServerCommand"
        /\ g.call = "SV_DropClient" /\ g.client = c /\ g.pc = "game"
    BY DEF Broadcast, Drop
  <1>3. DropCall(c, then, s) = <<p, g>> \o s
    BY DEF DropCall
  <1>. HIDE DEF p, g
  <1>4. DropCall(c, then, s) = <<p>> \o (<<g>> \o s)
    <2>1. <<p, g>> = <<p>> \o <<g>>
      BY <1>1, PairIsConcat
    <2>2. <<p>> \in Seq(Frame) /\ <<g>> \in Seq(Frame)
      BY <1>1
    <2>. QED  BY <1>3, <2>1, <2>2, ConcatAssociative
  <1>. DEFINE t == <<g>> \o s
  <1>5. /\ t \in Seq(Frame) /\ t # <<>>
        /\ Calls(t) = {g} \cup Calls(s)
        /\ Nested(t) <=> Nested(s)
        /\ \A d : Exposed(t, d) <=> d # c /\ Exposed(s, d)
    <2>1. t \in Seq(Frame) /\ t # <<>>
      BY <1>1, PushAt
    <2>2. Calls(t) = {g} \cup Calls(s)
      BY <1>1, CallsPush
    <2>3. Nested(t) <=> Nested(s)
      BY <1>1, <1>2, NestedPush
    <2>4. \A d : Exposed(t, d) <=> d # c /\ Exposed(s, d)
      BY <1>1, <1>2, ExposedPush DEF IsDrop
    <2>. QED  BY <2>1, <2>2, <2>3, <2>4
  <1>. HIDE DEF t
  <1>6. /\ Calls(<<p>> \o t) = {p} \cup Calls(t)
        /\ Nested(<<p>> \o t) <=> Nested(t)
        /\ \A d : Exposed(<<p>> \o t, d) <=> Exposed(t, d)
        /\ <<p>> \o t # <<>> /\ Head(<<p>> \o t) = p
    <2>1. Calls(<<p>> \o t) = {p} \cup Calls(t)
      BY <1>1, <1>5, CallsPush
    <2>2. Nested(<<p>> \o t) <=> Nested(t)
      BY <1>1, <1>2, <1>5, NestedPush
    <2>3. \A d : Exposed(<<p>> \o t, d) <=> Exposed(t, d)
      BY <1>1, <1>2, <1>5, ExposedPush DEF IsDrop
    <2>4. <<p>> \o t # <<>> /\ Head(<<p>> \o t) = p
      BY <1>1, <1>5, PushAt
    <2>. QED  BY <2>1, <2>2, <2>3, <2>4
  <1>7. DropCall(c, then, s) = <<p>> \o t
    BY <1>4 DEF t
  <1>. QED  BY <1>2, <1>5, <1>6, <1>7 DEF IsDrop

\* A stored command is the last one in its client's ring.
LEMMA StoredIsLast ==
    ASSUME TypeOK, NEW c \in Clients, NEW text, Store(c, text),
           reliableSequence' = [reliableSequence EXCEPT ![c] = @ + 1]
    PROVE  reliableCommands'[c][Index(reliableSequence'[c])] = text
  <1>1. /\ reliableSequence[c] + 1 \in Nat
        /\ reliableSequence'[c] = reliableSequence[c] + 1
    BY DEF TypeOK
  <1>2. Index(reliableSequence[c] + 1) \in 0..(MAX_RELIABLE_COMMANDS - 1)
    BY <1>1, IndexRange
  <1>3. reliableCommands[c] \in Ring /\ reliableCommands \in [Clients -> Ring]
    BY DEF TypeOK
  <1>. HIDE DEF Index
  <1>4. reliableCommands'[c] =
          [reliableCommands[c] EXCEPT ![Index(reliableSequence[c] + 1)] = text]
    BY <1>3 DEF Store
  <1>. QED  BY <1>1, <1>2, <1>3, <1>4 DEF Ring

\* Adding a command to c, to return to a caller that may only be about to give
\* up the slot of c after the disconnect command, keeps what is said of drops.
LEMMA AddKeepsDrops ==
    ASSUME WindowInv, DropInv, NEW c \in Clients, NEW text,
           NEW caller \in Seq(Frame), SV_AddServerCommand(c, text, caller),
           UNCHANGED <<state, gamestateSent, inGame, reliableAcknowledge>>,
           CallsOK(caller),
           \A d \in Clients : Alive(d) /\ Exposed(caller, d) =>
               IsDrop(Head(caller), d) /\ d = c /\ text = DisconnectText
    PROVE  DropInv'
  <1>1. /\ Overran \subseteq Overran'
        /\ Primed(c) /\ Overrun(c) => c \in Overran'
    <2>1. /\ reliableSequence \in [Clients -> Nat]
          /\ reliableAcknowledge \in [Clients -> Nat]
      BY DEF WindowInv, TypeOK
    <2>2. /\ ~Primed(c) => reliableSequence' = reliableSequence
          /\ Primed(c) =>
                reliableSequence' = [reliableSequence EXCEPT ![c] = @ + 1]
      BY DEF SV_AddServerCommand, window
    <2>3. /\ \A d \in Clients : reliableSequence'[d] >= reliableSequence[d]
          /\ Primed(c) => reliableSequence'[c] = reliableSequence[c] + 1
      BY <2>1, <2>2
    <2>. QED  BY <2>1, <2>2, <2>3, RingSize DEF Overran, Overrun, Unacknowledged
  <1>2. \A d \in Clients : Alive(d)' = Alive(d) /\ Connected(d)' = Connected(d)
    BY DEF Alive, Connected, Primed
  <1>4. \A f \in Calls(caller) : f \in Frame
    BY DEF Calls
  <1>5. CASE stack' = caller
    <2>1. EnterOK(caller)'
      <3>1. ASSUME NEW f \in Calls(caller), f.call = "SV_ClientEnterWorld",
                   f.client \notin Overran'
            PROVE  /\ Connected(f.client)'
                   /\ \A g \in Calls(caller) : ~IsDrop(g, f.client)
        <4>1. f.client \in Clients
          BY <1>4, <3>1, FrameTypes
        <4>. QED  BY <1>1, <1>2, <3>1, <4>1 DEF CallsOK, EnterOK
      <3>. QED  BY <1>5, <3>1 DEF EnterOK
    <2>2. CallsOK(stack)'
      BY <1>1, <1>5, <2>1 DEF CallsOK, LeftOK, EnterOK
    <2>3. ToldOK'
      <3>1. ASSUME NEW d \in Clients, Alive(d), Exposed(caller, d)
            PROVE  IsDrop(Head(caller), d) /\ Told(d)'
        <4>1. IsDrop(Head(caller), d) /\ d = c /\ text = DisconnectText
          BY <3>1
        <4>2. Primed(c) /\ gamestateSent[c]
          BY <3>1, <4>1 DEF Alive
        <4>3. ~Overrun(c)
          <5>1. SUFFICES ASSUME Overrun(c)  PROVE FALSE
            OBVIOUS
          <5>2. stack' = DropCall(c, "zombie", caller)
            BY <4>2, <5>1 DEF SV_AddServerCommand
          <5>3. state[c] # "zombie"
            BY <4>2 DEF Primed
          <5>. QED  BY <1>5, <3>1, <4>1, <5>2, <5>3, DropCallPushes
        <4>4. /\ Store(c, text)
              /\ reliableSequence' = [reliableSequence EXCEPT ![c] = @ + 1]
          BY <4>2, <4>3 DEF SV_AddServerCommand
        <4>. QED  BY <4>1, <4>4, StoredIsLast DEF WindowInv, Told
      <3>. QED  BY <1>2, <1>5, <3>1 DEF ToldOK
    <2>. QED  BY <2>2, <2>3 DEF DropInv
  <1>6. CASE /\ Primed(c) /\ Overrun(c) /\ gamestateSent[c]
             /\ stack' = DropCall(c, "zombie", caller)
    <2>1. state[c] # "zombie"
      BY <1>6 DEF Primed
    <2>2. c \in Overran'
      BY <1>1, <1>6
    <2>3. /\ \A d : Exposed(stack', d) <=> d # c /\ Exposed(caller, d)
          /\ Nested(stack') <=> Nested(caller)
          /\ \A f \in Calls(stack') :
                \/ f \in Calls(caller)
                \/ f.call = "SV_SendServerCommand"
                \/ IsDrop(f, c) /\ f.pc = "game"
      BY <1>6, <2>1, DropCallPushes
    <2>4. ToldOK'
      BY <1>2, <2>3 DEF ToldOK
    <2>5. ASSUME NEW f \in Calls(stack'), f.call = "SV_ClientEnterWorld",
                 f.client \notin Overran'
          PROVE  /\ Connected(f.client)'
                 /\ \A g \in Calls(stack') : ~IsDrop(g, f.client)
      <3>1. f \in Calls(caller)
        BY <2>3, <2>5 DEF IsDrop
      <3>2. f.client \in Clients
        BY <1>4, <2>5, <3>1, FrameTypes
      <3>3. /\ Connected(f.client)
            /\ \A g \in Calls(caller) : ~IsDrop(g, f.client)
        BY <1>1, <2>5, <3>1 DEF CallsOK, EnterOK
      <3>4. f.client # c
        BY <2>2, <2>5
      <3>5. \A g \in Calls(stack') : ~IsDrop(g, f.client)
        BY <2>3, <3>3, <3>4 DEF IsDrop
      <3>. QED  BY <1>2, <3>2, <3>3, <3>5
    <2>6. LeftOK(stack)'
      <3>1. ASSUME NEW f \in Calls(stack'), f.call = "SV_DropClient",
                   f.pc # "game"
            PROVE  f.client \notin inGame'
        <4>1. f \in Calls(caller)
          BY <2>3, <3>1
        <4>. QED  BY <1>1, <3>1, <4>1 DEF CallsOK, LeftOK
      <3>. QED  BY <3>1 DEF LeftOK
    <2>. QED  BY <2>3, <2>4, <2>5, <2>6 DEF DropInv, CallsOK, EnterOK
  <1>. QED  BY <1>5, <1>6 DEF SV_AddServerCommand
\* What the calls below the innermost one inherit.
LEMMA TopOK ==
    ASSUME TypeOK, stack # <<>>, CallsOK(stack)
    PROVE  /\ CallsOK(Tail(stack))
           /\ Head(stack).call = "SV_MapRestart_f" => Tail(stack) = <<>>
           /\ Head(stack).call = "SV_ClientEnterWorld" =>
                 \A g \in Calls(Tail(stack)) : g.call = "SV_MapRestart_f"
           /\ Calls(stack) = {Head(stack)} \cup Calls(Tail(stack))
           /\ \A d : Exposed(stack, d) <=>
                       IF IsDrop(Head(stack), d) THEN Head(stack).pc = "state"
                       ELSE Exposed(Tail(stack), d)
  <1>1. /\ Head(stack) \in Frame /\ Tail(stack) \in Seq(Frame)
        /\ stack = <<Head(stack)>> \o Tail(stack)
        /\ Calls(stack) = {Head(stack)} \cup Calls(Tail(stack))
    BY StackTop, CallsTop
  <1>2. /\ Nested(Tail(stack))
        /\ Head(stack).call = "SV_MapRestart_f" => Tail(stack) = <<>>
        /\ Head(stack).call = "SV_ClientEnterWorld" =>
              \A g \in Calls(Tail(stack)) : g.call = "SV_MapRestart_f"
    BY <1>1, NestedPush DEF CallsOK
  <1>3. EnterOK(Tail(stack)) /\ LeftOK(Tail(stack))
    BY <1>1 DEF CallsOK, EnterOK, LeftOK
  <1>4. ASSUME NEW h \in Frame, NEW t \in Seq(Frame), stack = <<h>> \o t
        PROVE  \A d : Exposed(stack, d) <=>
                        IF IsDrop(h, d) THEN h.pc = "state" ELSE Exposed(t, d)
    BY <1>4, ExposedPush
  <1>. QED  BY <1>1, <1>2, <1>3, <1>4 DEF CallsOK

\* When one more call goes on top.
LEMMA PushOK ==
    ASSUME NEW f \in Frame, NEW s \in Seq(Frame), CallsOK(s),
           f.call = "SV_MapRestart_f" => s = <<>>,
           f.call = "SV_ClientEnterWorld" =>
               \A g \in Calls(s) : g.call = "SV_MapRestart_f",
           f.call = "SV_ClientEnterWorld" /\ f.client \notin Overran =>
               Connected(f.client) /\ \A g \in Calls(s) : ~IsDrop(g, f.client),
           f.call = "SV_DropClient" =>
               /\ f.pc # "game" => f.client \notin inGame
               /\ \A g \in Calls(s) :
                     g.call = "SV_ClientEnterWorld" /\ g.client \notin Overran
                     => g.client # f.client
    PROVE  CallsOK(<<f>> \o s)
  <1>. DEFINE t == <<f>> \o s
  <1>1. Calls(t) = {f} \cup Calls(s)
    BY CallsPush
  <1>2. Nested(t)
    BY NestedPush DEF CallsOK
  <1>. HIDE DEF t
  <1>3. EnterOK(t)
    <2>1. ASSUME NEW h \in Calls(t), h.call = "SV_ClientEnterWorld",
                 h.client \notin Overran
          PROVE  Connected(h.client) /\ \A g \in Calls(t) : ~IsDrop(g, h.client)
      <3>1. CASE h = f
        BY <1>1, <2>1, <3>1 DEF IsDrop
      <3>2. CASE h # f
        <4>1. h \in Calls(s)
          BY <1>1, <3>2
        <4>2. /\ Connected(h.client)
              /\ \A g \in Calls(s) : ~IsDrop(g, h.client)
          BY <2>1, <4>1 DEF CallsOK, EnterOK
        <4>3. ~IsDrop(f, h.client)
          BY <2>1, <4>1 DEF IsDrop
        <4>. QED  BY <1>1, <4>2, <4>3
      <3>. QED  BY <3>1, <3>2
    <2>. QED  BY <2>1 DEF EnterOK
  <1>4. LeftOK(t)
    BY <1>1 DEF CallsOK, LeftOK
  <1>. QED  BY <1>2, <1>3, <1>4 DEF CallsOK, t

\* A stack whose drops have all just begun.
LEMMA FreshStack ==
    ASSUME Nested(stack'),
           \A d \in Clients : ~Exposed(stack', d),
           \A f \in Calls(stack') : f.call = "SV_DropClient" => f.pc = "game",
           \A f \in Calls(stack') :
               f.call = "SV_ClientEnterWorld" =>
                   /\ Connected(f.client)'
                   /\ \A g \in Calls(stack') : ~IsDrop(g, f.client)
    PROVE  DropInv'
  BY DEF DropInv, ToldOK, CallsOK, EnterOK, LeftOK

\* A drop called by nobody, or by the loop of map_restart, has just begun.
LEMMA FreshDrop ==
    ASSUME NEW c \in Clients, NEW then \in {"zombie", "free"},
           NEW s \in Seq(Frame), stack' = DropCall(c, then, s),
           Nested(s), \A f \in Calls(s) : f.call = "SV_MapRestart_f"
    PROVE  DropInv'
  <1>1. \A d : ~Exposed(s, d)
    <2>1. ASSUME NEW d, Exposed(s, d)  PROVE  FALSE
      <3>1. PICK i \in 1..Len(s) : IsDrop(s[i], d)
        BY <2>1 DEF Exposed
      <3>2. s[i] \in Calls(s)
        BY DEF Calls
      <3>. QED  BY <3>1, <3>2 DEF IsDrop
    <2>. QED  BY <2>1
  <1>2. CASE state[c] = "zombie"
    <2>1. stack' = s
      BY <1>2 DEF DropCall
    <2>. QED  BY <1>1, <2>1, FreshStack
  <1>3. CASE state[c] # "zombie"
    <2>1. /\ \A d : ~Exposed(stack', d)
          /\ Nested(stack')
          /\ \A f \in Calls(stack') :
                \/ f.call = "SV_MapRestart_f"
                \/ f.call = "SV_SendServerCommand"
                \/ IsDrop(f, c) /\ f.pc = "game"
      BY <1>1, <1>3, DropCallPushes
    <2>. QED  BY <2>1, FreshStack DEF IsDrop
  <1>. QED  BY <1>2, <1>3

\* One turn of SV_SendServerCommand's loop.
LEMMA SendStepKeepsDrops ==
    ASSUME WindowInv, DropInv, stack # <<>>,
           Head(stack).call = "SV_SendServerCommand", SendServerCommandStep,
           UNCHANGED reliableAcknowledge
    PROVE  DropInv'
  <1>. DEFINE f    == Head(stack)
              g    == [f EXCEPT !.next = @ + 1]
              rest == IF f.next = N THEN Tail(stack) ELSE <<g>> \o Tail(stack)
  <1>1. /\ f \in Frame /\ Tail(stack) \in Seq(Frame)
        /\ f.call = "SV_SendServerCommand"
    BY StackTop DEF WindowInv
  <1>2. /\ SV_AddServerCommand(f.next, f.text, rest)
        /\ UNCHANGED <<state, gamestateSent, inGame, issued>>
    BY DEF SendServerCommandStep
  <1>3. /\ CallsOK(Tail(stack))
        /\ \A d : Exposed(stack, d) <=>
                    IF IsDrop(f, d) THEN f.pc = "state" ELSE Exposed(Tail(stack), d)
    BY TopOK DEF WindowInv, DropInv
  <1>. HIDE DEF f
  <1>4. /\ f.next \in Clients
        /\ f.next # N => g \in Frame
        /\ g.call = "SV_SendServerCommand"
    BY <1>1, FrameTypes
  <1>. HIDE DEF g
  <1>5. rest \in Seq(Frame) /\ CallsOK(rest)
    BY <1>1, <1>3, <1>4, PushType, PushOK
  <1>6. ASSUME NEW d \in Clients, Alive(d)  PROVE  ~Exposed(rest, d)
    <2>1. ~IsDrop(f, d) /\ ~IsDrop(g, d)
      BY <1>1, <1>4 DEF IsDrop
    <2>2. ~Exposed(stack, d)
      BY <1>6, <2>1 DEF DropInv, ToldOK, f
    <2>3. ~Exposed(Tail(stack), d)
      BY <1>3, <2>1, <2>2
    <2>4. f.next # N => ~Exposed(<<g>> \o Tail(stack), d)
      BY <1>1, <1>4, <2>1, <2>3, ExposedPush
    <2>. QED  BY <2>3, <2>4
  <1>. HIDE DEF rest
  <1>. QED  BY <1>2, <1>4, <1>5, <1>6, AddKeepsDrops
\* One part of SV_DropClient: the game forgets the client, the client is told,
\* its slot is given up.
LEMMA DropStepKeepsDrops ==
    ASSUME WindowInv, DropInv, stack # <<>>,
           Head(stack).call = "SV_DropClient", DropClientStep,
           UNCHANGED reliableAcknowledge
    PROVE  DropInv'
  <1>. DEFINE f      == Head(stack)
              g(pc)  == [f EXCEPT !.pc = pc]
              at(pc) == <<g(pc)>> \o Tail(stack)
              d      == f.client
  <1>1. /\ f \in Frame /\ Tail(stack) \in Seq(Frame)
        /\ f.call = "SV_DropClient"
    BY StackTop DEF WindowInv
  <1>2. \/ /\ f.pc = "game"
           /\ inGame' = inGame \ {d}
           /\ \/ /\ stack' = at("command")
                 /\ UNCHANGED issued
              \/ /\ issued' = issued + 1
                 /\ stack' = <<Broadcast(GameText(issued'))>> \o at("command")
           /\ UNCHANGED <<window, state, gamestateSent>>
        \/ /\ f.pc = "command"
           /\ SV_AddServerCommand(d, DisconnectText, at("state"))
           /\ UNCHANGED <<state, gamestateSent, inGame, issued>>
        \/ /\ f.pc = "state"
           /\ state' = [state EXCEPT ![d] = f.then]
           /\ stack' = Tail(stack)
           /\ UNCHANGED <<window, gamestateSent, inGame, issued>>
    BY DEF DropClientStep
  <1>3. /\ CallsOK(Tail(stack)) /\ CallsOK(stack)
        /\ Calls(stack) = {f} \cup Calls(Tail(stack))
        /\ \A e : Exposed(stack, e) <=>
                    IF IsDrop(f, e) THEN f.pc = "state" ELSE Exposed(Tail(stack), e)
        /\ \A e \in Clients : Alive(e) /\ Exposed(stack, e) => IsDrop(f, e)
    BY TopOK DEF WindowInv, DropInv, ToldOK
  <1>. HIDE DEF f
  <1>4. /\ d \in Clients /\ f.then \in {"zombie", "free"}
        /\ \A pc \in {"game", "command", "state"} :
              /\ g(pc) \in Frame /\ g(pc).call = "SV_DropClient"
              /\ g(pc).client = d /\ g(pc).pc = pc
    <2>1. /\ d \in Clients /\ f.then \in {"zombie", "free"}
          /\ \A pc \in {"game", "command", "state"} :
                /\ g(pc) \in Frame
                /\ g(pc) = [call |-> "SV_DropClient", client |-> d,
                            pc |-> pc, then |-> f.then]
      BY <1>1, FrameTypes
    <2>. HIDE DEF g, d
    <2>. QED  BY <2>1
  <1>. HIDE DEF g
  <1>5. \A e : IsDrop(f, e) <=> e = d
    BY <1>1 DEF IsDrop
  <1>6. ASSUME NEW e \in Clients \ {d}, Alive(e)  PROVE  ~Exposed(Tail(stack), e)
    BY <1>3, <1>5, <1>6
  <1>7. ASSUME NEW pc \in {"command", "state"}
        PROVE  /\ at(pc) \in Seq(Frame) /\ at(pc) # <<>>
               /\ Head(at(pc)) = g(pc)
               /\ Calls(at(pc)) = {g(pc)} \cup Calls(Tail(stack))
               /\ Nested(at(pc))
               /\ \A e : Exposed(at(pc), e) <=>
                           IF e = d THEN pc = "state" ELSE Exposed(Tail(stack), e)
    <2>. DEFINE t == Tail(stack)
                h == g(pc)
    <2>1. /\ t \in Seq(Frame) /\ h \in Frame /\ h.call = "SV_DropClient"
          /\ h.client = d /\ h.pc = pc /\ Nested(t)
      BY <1>1, <1>3, <1>4 DEF CallsOK
    <2>. HIDE DEF t, h, d
    <2>2. <<h>> \o t \in Seq(Frame) /\ <<h>> \o t # <<>> /\ Head(<<h>> \o t) = h
      BY <2>1, PushAt
    <2>3. Calls(<<h>> \o t) = {h} \cup Calls(t)
      BY <2>1, CallsPush
    <2>4. Nested(<<h>> \o t)
      BY <2>1, NestedPush
    <2>5. \A e : Exposed(<<h>> \o t, e) <=>
                   IF e = d THEN pc = "state" ELSE Exposed(t, e)
      BY <2>1, ExposedPush DEF IsDrop
    <2>. QED  BY <2>2, <2>3, <2>4, <2>5 DEF h, t
  <1>. HIDE DEF at
  <1>8. CASE f.pc = "game"
    <2>1. /\ inGame' = inGame \ {d}
          /\ \/ stack' = at("command")
             \/ /\ issued' = issued + 1
                /\ stack' = <<Broadcast(GameText(issued'))>> \o at("command")
          /\ UNCHANGED <<window, state, gamestateSent>>
      BY <1>2, <1>8
    <2>2. /\ \A h \in Calls(stack') :
                h \in Calls(at("command")) \/ h.call = "SV_SendServerCommand"
          /\ \A e : Exposed(stack', e) <=> Exposed(at("command"), e)
          /\ Nested(stack')
      <3>1. CASE stack' = at("command")
        BY <1>7, <3>1
      <3>2. CASE /\ issued' = issued + 1
                 /\ stack' = <<Broadcast(GameText(issued'))>> \o at("command")
        <4>1. issued' \in Nat
          BY <3>2 DEF WindowInv, TypeOK
        <4>2. PICK b \in Frame :
                 /\ b = Broadcast(GameText(issued'))
                 /\ b.call = "SV_SendServerCommand"
          BY <4>1, TextType, NewFrames DEF Broadcast
        <4>3. stack' = <<b>> \o at("command") /\ at("command") \in Seq(Frame)
          BY <1>7, <3>2, <4>2
        <4>4. Calls(stack') = {b} \cup Calls(at("command"))
          BY <4>3, CallsPush
        <4>5. Nested(stack')
          BY <1>7, <4>2, <4>3, NestedPush
        <4>6. \A e : Exposed(stack', e) <=> Exposed(at("command"), e)
          BY <4>2, <4>3, ExposedPush DEF IsDrop
        <4>. QED  BY <4>2, <4>4, <4>5, <4>6
      <3>. QED  BY <2>1, <3>1, <3>2
    <2>3. \A e \in Clients : Alive(e)' = Alive(e) /\ Connected(e)' = Connected(e)
      BY <2>1 DEF Alive, Connected, Primed
    <2>4. ToldOK'
      BY <1>6, <1>7, <2>2, <2>3 DEF ToldOK
    <2>5. \A h \in Calls(stack') :
             h \in Calls(Tail(stack)) \/ h = g("command")
             \/ h.call = "SV_SendServerCommand"
      BY <1>7, <2>2
    <2>6. Overran' = Overran
      BY <2>1 DEF window, Overran, Unacknowledged
    <2>7. EnterOK(stack)'
      <3>1. ASSUME NEW h \in Calls(stack'), h.call = "SV_ClientEnterWorld",
                   h.client \notin Overran
            PROVE  /\ Connected(h.client)'
                   /\ \A k \in Calls(stack') : ~IsDrop(k, h.client)
        <4>1. h \in Calls(Tail(stack))
          BY <1>4, <2>5, <3>1
        <4>2. /\ Connected(h.client)
              /\ \A k \in Calls(stack) : ~IsDrop(k, h.client)
          BY <1>3, <3>1, <4>1 DEF CallsOK, EnterOK
        <4>3. h.client \in Clients
          <5>1. h \in Frame
            BY <1>1, <4>1 DEF Calls
          <5>. QED  BY <3>1, <5>1, FrameTypes
        <4>4. h.client # d
          BY <1>3, <1>5, <4>2
        <4>5. \A k \in Calls(stack') : ~IsDrop(k, h.client)
          BY <1>3, <1>4, <2>5, <4>2, <4>4 DEF IsDrop
        <4>. QED  BY <2>3, <4>2, <4>3, <4>5
      <3>. QED  BY <2>6, <3>1 DEF EnterOK
    <2>8. LeftOK(stack)'
      <3>1. ASSUME NEW h \in Calls(stack'), h.call = "SV_DropClient",
                   h.pc # "game"
            PROVE  h.client \notin inGame'
        <4>1. CASE h = g("command")
          BY <1>4, <2>1, <4>1
        <4>2. CASE h \in Calls(Tail(stack))
          BY <1>3, <2>1, <3>1, <4>2 DEF CallsOK, LeftOK
        <4>. QED  BY <2>5, <3>1, <4>1, <4>2
      <3>. QED  BY <2>6, <3>1 DEF LeftOK
    <2>. QED  BY <2>2, <2>4, <2>7, <2>8 DEF DropInv, CallsOK, EnterOK
  <1>9. CASE f.pc = "command"
    <2>1. /\ SV_AddServerCommand(d, DisconnectText, at("state"))
          /\ UNCHANGED <<state, gamestateSent, inGame, issued>>
      BY <1>2, <1>9
    <2>2. d \in Clients /\ d \notin inGame
      BY <1>1, <1>3, <1>4, <1>9 DEF CallsOK, LeftOK
    <2>3. CallsOK(at("state"))
      <3>1. ASSUME NEW h \in Calls(Tail(stack)), h.call = "SV_ClientEnterWorld",
                   h.client \notin Overran
            PROVE  h.client # d
        BY <1>3, <1>5, <3>1 DEF CallsOK, EnterOK
      <3>2. /\ g("state") \in Frame /\ g("state").call = "SV_DropClient"
            /\ g("state").client = d
        BY <1>4
      <3>3. CallsOK(<<g("state")>> \o Tail(stack))
        BY <1>1, <1>3, <2>2, <3>1, <3>2, PushOK
      <3>. QED  BY <3>3 DEF at
    <2>4. ASSUME NEW e \in Clients, Alive(e), Exposed(at("state"), e)
          PROVE  IsDrop(Head(at("state")), e) /\ e = d
      <3>1. e = d
        BY <1>6, <1>7, <2>4
      <3>2. IsDrop(g("state"), d)
        BY <1>4 DEF IsDrop
      <3>. QED  BY <1>7, <3>1, <3>2
    <2>. HIDE DEF d
    <2>. QED  BY <1>7, <2>1, <2>2, <2>3, <2>4, AddKeepsDrops
  <1>10. CASE f.pc = "state"
    <2>1. /\ state' = [state EXCEPT ![d] = f.then]
          /\ stack' = Tail(stack)
          /\ UNCHANGED <<window, gamestateSent, inGame, issued>>
      BY <1>2, <1>10
    <2>2. PICK q \in Clients : q = d
      BY <1>4
    <2>3. /\ ~Alive(q)'
          /\ \A e \in Clients \ {q} :
                /\ state'[e] = state[e]
                /\ Alive(e)' = Alive(e) /\ Connected(e)' = Connected(e)
      <3>1. state \in [Clients ->
                         {"free", "zombie", "connected", "primed", "active"}]
        BY DEF WindowInv, TypeOK
      <3>2. /\ state'[q] \in {"zombie", "free"}
            /\ \A e \in Clients \ {q} : state'[e] = state[e]
        BY <1>4, <2>1, <2>2, <3>1
      <3>. QED  BY <2>1, <3>2 DEF Alive, Connected, Primed
    <2>4. ToldOK'
      BY <1>6, <2>1, <2>2, <2>3 DEF ToldOK
    <2>5. Overran' = Overran
      BY <2>1 DEF window, Overran, Unacknowledged
    <2>6. q \notin inGame
      BY <1>1, <1>3, <1>10, <2>2 DEF CallsOK, LeftOK
    <2>7. EnterOK(stack)'
      <3>1. ASSUME NEW h \in Calls(Tail(stack)), h.call = "SV_ClientEnterWorld",
                   h.client \notin Overran
            PROVE  /\ Connected(h.client)'
                   /\ \A k \in Calls(Tail(stack)) : ~IsDrop(k, h.client)
        <4>1. /\ Connected(h.client)
              /\ \A k \in Calls(stack) : ~IsDrop(k, h.client)
          BY <1>3, <3>1 DEF CallsOK, EnterOK
        <4>2. h.client \in Clients
          <5>1. h \in Frame
            BY <1>1 DEF Calls
          <5>. QED  BY <3>1, <5>1, FrameTypes
        <4>3. h.client # q
          BY <1>3, <1>5, <2>2, <4>1
        <4>. QED  BY <1>3, <2>3, <4>1, <4>2, <4>3
      <3>. QED  BY <2>1, <2>5, <3>1 DEF EnterOK
    <2>8. Nested(stack)' /\ LeftOK(stack)'
      BY <1>3, <2>1, <2>5 DEF CallsOK, LeftOK
    <2>. QED  BY <2>4, <2>7, <2>8 DEF DropInv, CallsOK
  <1>. QED  BY <1>2, <1>8, <1>9, <1>10
\* One part of SV_ClientEnterWorld: a configstring, or the game takes the
\* client, who was not dropped unless he overran his ring.
LEMMA EnterStepKeepsDrops ==
    ASSUME WindowInv, DropInv, stack # <<>>,
           Head(stack).call = "SV_ClientEnterWorld", EnterWorldStep,
           UNCHANGED reliableAcknowledge
    PROVE  DropInv'
  <1>. DEFINE f == Head(stack)
  <1>1. /\ f \in Frame /\ Tail(stack) \in Seq(Frame)
        /\ f.call = "SV_ClientEnterWorld"
    BY StackTop DEF WindowInv
  <1>2. \/ /\ f.left > 0
           /\ SV_AddServerCommand(f.client, GameText(issued'),
                <<EnterWorld(f.client, f.left - 1)>> \o Tail(stack))
           /\ UNCHANGED <<state, gamestateSent, inGame>>
        \/ /\ inGame' = inGame \cup {f.client}
           /\ stack' = Tail(stack)
           /\ UNCHANGED <<window, state, gamestateSent, issued>>
    BY DEF EnterWorldStep
  <1>3. /\ CallsOK(Tail(stack)) /\ CallsOK(stack)
        /\ Calls(stack) = {f} \cup Calls(Tail(stack))
        /\ \A e : Exposed(stack, e) <=>
                    IF IsDrop(f, e) THEN f.pc = "state" ELSE Exposed(Tail(stack), e)
        /\ \A e \in Clients : Alive(e) /\ Exposed(stack, e) => IsDrop(f, e)
        /\ \A g \in Calls(Tail(stack)) : g.call = "SV_MapRestart_f"
    BY <1>1, TopOK DEF WindowInv, DropInv, ToldOK
  <1>. HIDE DEF f
  <1>4. f.client \in Clients /\ f.left \in Nat
    BY <1>1, FrameTypes
  <1>5. ASSUME NEW e \in Clients, Alive(e)  PROVE  ~Exposed(Tail(stack), e)
    BY <1>1, <1>3, <1>5 DEF IsDrop
  <1>6. f.client \notin Overran =>
           Connected(f.client) /\ \A g \in Calls(stack) : ~IsDrop(g, f.client)
    BY <1>1, <1>3 DEF CallsOK, EnterOK
  <1>7. CASE /\ f.left > 0
             /\ SV_AddServerCommand(f.client, GameText(issued'),
                  <<EnterWorld(f.client, f.left - 1)>> \o Tail(stack))
             /\ UNCHANGED <<state, gamestateSent, inGame>>
    <2>. DEFINE e == EnterWorld(f.client, f.left - 1)
                caller == <<e>> \o Tail(stack)
    <2>1. f.left - 1 \in Nat
      BY <1>4, <1>7
    <2>2. /\ e \in Frame /\ e.call = "SV_ClientEnterWorld"
          /\ e.client = f.client
      BY <1>4, <2>1, NewFrames DEF EnterWorld
    <2>3. SV_AddServerCommand(f.client, GameText(issued'), caller)
      BY <1>7
    <2>. HIDE DEF e
    <2>4. caller \in Seq(Frame) /\ CallsOK(caller)
      BY <1>1, <1>3, <1>6, <2>2, PushType, PushOK
    <2>5. ASSUME NEW d \in Clients, Alive(d)  PROVE  ~Exposed(caller, d)
      BY <1>1, <1>5, <2>2, <2>5, ExposedPush DEF IsDrop
    <2>. HIDE DEF caller
    <2>. QED  BY <1>4, <1>7, <2>3, <2>4, <2>5, AddKeepsDrops
  <1>8. CASE /\ inGame' = inGame \cup {f.client}
             /\ stack' = Tail(stack)
             /\ UNCHANGED <<window, state, gamestateSent, issued>>
    <2>1. PICK q \in Clients : q = f.client
      BY <1>4
    <2>2. /\ Overran' = Overran
          /\ \A e \in Clients : Alive(e)' = Alive(e) /\ Connected(e)' = Connected(e)
      BY <1>8 DEF window, Overran, Unacknowledged, Alive, Connected, Primed
    <2>3. ToldOK'
      BY <1>5, <1>8, <2>2 DEF ToldOK
    <2>4. EnterOK(stack)'
      <3>1. ASSUME NEW h \in Calls(Tail(stack)), h.call = "SV_ClientEnterWorld"
            PROVE  h.client \in Clients
        <4>1. h \in Frame
          BY <1>1 DEF Calls
        <4>. QED  BY <3>1, <4>1, FrameTypes
      <3>. QED  BY <1>3, <1>8, <2>2, <3>1 DEF CallsOK, EnterOK
    <2>5. LeftOK(stack)'
      <3>1. ASSUME NEW h \in Calls(Tail(stack)), h.call = "SV_DropClient",
                   h.pc # "game"
            PROVE  h.client \notin inGame'
        BY <1>3, <3>1
      <3>. QED  BY <1>8, <2>2, <3>1 DEF LeftOK
    <2>. QED  BY <1>3, <1>8, <2>3, <2>4, <2>5 DEF DropInv, CallsOK
  <1>. QED  BY <1>2, <1>7, <1>8

\* One turn of SV_MapRestart_f's loop: it is called by nobody, so no drop is
\* in progress.
LEMMA RestartStepKeepsDrops ==
    ASSUME WindowInv, DropInv, stack # <<>>,
           Head(stack).call = "SV_MapRestart_f", MapRestartStep,
           UNCHANGED <<gamestateSent, inGame, reliableAcknowledge>>
    PROVE  DropInv'
  <1>. DEFINE f    == Head(stack)
              g    == [f EXCEPT !.pc = "enter"]
              m    == MapRestart(f.client + 1)
              rest == IF f.client = N THEN Tail(stack) ELSE <<m>> \o Tail(stack)
  <1>1. /\ f \in Frame /\ f.call = "SV_MapRestart_f" /\ Tail(stack) = <<>>
    BY StackTop, TopOK DEF WindowInv, DropInv
  <1>2. \/ /\ stack' = rest
           /\ UNCHANGED <<window, state, issued>>
        \/ /\ SV_AddServerCommand(f.client, GameText(issued), <<g>> \o <<>>)
           /\ UNCHANGED <<state, issued>>
        \/ /\ state' = [state EXCEPT ![f.client] = "active"]
           /\ \E left \in Updates(f.client) :
                stack' = <<EnterWorld(f.client, left)>> \o rest
           /\ UNCHANGED <<window, issued>>
        \/ /\ stack' = DropCall(f.client, "zombie", rest)
           /\ UNCHANGED <<window, state, issued>>
    BY <1>1 DEF MapRestartStep
  <1>. HIDE DEF f
  <1>3. /\ f.client \in Clients
        /\ g \in Frame /\ g.call = "SV_MapRestart_f"
        /\ f.client # N => m \in Frame
        /\ m.call = "SV_MapRestart_f"
    BY <1>1, FrameTypes DEF MapRestart
  <1>. HIDE DEF g, m
  <1>4. <<>> \in Seq(Frame) /\ Calls(<<>>) = {}
    BY EmptySeq, CallsEmpty
  <1>5. /\ rest \in Seq(Frame) /\ Nested(rest)
        /\ \A h \in Calls(rest) : h.call = "SV_MapRestart_f"
        /\ \A d : ~Exposed(rest, d)
    <2>1. CASE f.client = N
      BY <1>1, <1>4, <2>1, NoCallsOK DEF CallsOK
    <2>2. CASE f.client # N
      <3>1. rest = <<m>> \o <<>>
        BY <1>1, <2>2
      <3>2. rest \in Seq(Frame) /\ Calls(rest) = {m}
        BY <1>3, <1>4, <2>2, <3>1, PushType, CallsPush
      <3>3. Nested(rest)
        BY <1>3, <1>4, <2>2, <3>1, NestedPush, NoCallsOK DEF CallsOK
      <3>4. \A d : ~Exposed(rest, d)
        BY <1>3, <1>4, <2>2, <3>1, ExposedPush, NoCallsOK DEF IsDrop
      <3>. QED  BY <1>3, <3>2, <3>3, <3>4
    <2>. QED  BY <2>1, <2>2
  <1>. HIDE DEF rest
  <1>6. inGame \subseteq Clients
    BY DEF WindowInv, TypeOK
  <1>8. CASE /\ stack' = rest
             /\ UNCHANGED <<window, state, issued>>
    BY <1>5, <1>8, FreshStack
  <1>9. CASE /\ SV_AddServerCommand(f.client, GameText(issued), <<g>> \o <<>>)
             /\ UNCHANGED <<state, issued>>
    <2>. DEFINE caller == <<g>> \o <<>>
    <2>1. caller \in Seq(Frame) /\ CallsOK(caller)
      BY <1>3, <1>4, PushType, PushOK, NoCallsOK
    <2>2. \A d : ~Exposed(caller, d)
      BY <1>3, <1>4, ExposedPush, NoCallsOK DEF IsDrop
    <2>3. SV_AddServerCommand(f.client, GameText(issued), caller)
      BY <1>9
    <2>. HIDE DEF caller
    <2>. QED  BY <1>3, <1>9, <2>1, <2>2, <2>3, AddKeepsDrops
  <1>10. CASE /\ state' = [state EXCEPT ![f.client] = "active"]
              /\ \E left \in Updates(f.client) :
                   stack' = <<EnterWorld(f.client, left)>> \o rest
              /\ UNCHANGED <<window, issued>>
    <2>1. PICK q \in Clients : q = f.client
      BY <1>3
    <2>2. /\ Connected(q)'
          /\ \A e \in Clients : Connected(e) => Connected(e)'
      <3>1. state \in [Clients ->
                         {"free", "zombie", "connected", "primed", "active"}]
        BY DEF WindowInv, TypeOK
      <3>2. /\ state'[q] = "active"
            /\ \A e \in Clients \ {q} : state'[e] = state[e]
        BY <1>10, <2>1, <3>1
      <3>. QED  BY <3>2 DEF Connected, Primed
    <2>4. PICK left \in Updates(q) : stack' = <<EnterWorld(q, left)>> \o rest
      BY <1>10, <2>1
    <2>5. PICK e \in Frame :
             /\ e = EnterWorld(q, left)
             /\ e.call = "SV_ClientEnterWorld" /\ e.client = q
      <3>1. left \in Nat
        BY ReliableAssumption DEF Updates
      <3>. QED  BY <3>1, NewFrames DEF EnterWorld
    <2>6. stack' = <<e>> \o rest
      BY <2>4, <2>5
    <2>7. Calls(stack') = {e} \cup Calls(rest)
      BY <1>5, <2>6, CallsPush
    <2>8. Nested(stack')
      BY <1>5, <2>5, <2>6, NestedPush
    <2>9. \A d : ~Exposed(stack', d)
      BY <1>5, <2>5, <2>6, ExposedPush DEF IsDrop
    <2>10. \A h \in Calls(stack') :
              \/ h.call = "SV_MapRestart_f"
              \/ h.call = "SV_ClientEnterWorld" /\ h.client = q
      BY <1>5, <2>5, <2>7
    <2>. QED  BY <2>2, <2>8, <2>9, <2>10, FreshStack DEF IsDrop
  <1>11. CASE /\ stack' = DropCall(f.client, "zombie", rest)
              /\ UNCHANGED <<window, state, issued>>
    BY <1>3, <1>5, <1>11, FreshDrop
  <1>. QED  BY <1>2, <1>8, <1>9, <1>10, <1>11

\* The next part of the innermost call.
LEMMA ContinueKeepsDrops ==
    ASSUME WindowInv, DropInv, Continue
    PROVE  DropInv'
  BY SendStepKeepsDrops, DropStepKeepsDrops, EnterStepKeepsDrops,
     RestartStepKeepsDrops DEF Continue

\* A packet: a new gamestate, the way into the world, or a drop.
LEMMA ExecuteKeepsDrops ==
    ASSUME WindowInv, DropInv, NEW c \in Clients, SV_ExecuteClientMessage(c)
    PROVE  DropInv'
  <1>1. /\ stack = <<>> /\ Connected(c)
        /\ \/ UNCHANGED <<state, gamestateSent, stack>>
           \/ /\ state' = [state EXCEPT ![c] = "primed"]
              /\ UNCHANGED stack
           \/ /\ state' = [state EXCEPT ![c] = "active"]
              /\ \E left \in Updates(c) : stack' = <<EnterWorld(c, left)>>
           \/ /\ stack' = DropCall(c, "zombie", <<>>)
              /\ UNCHANGED <<state, gamestateSent>>
        /\ UNCHANGED <<window, inGame>>
    BY DEF SV_ExecuteClientMessage, SV_SendClientGameState, Idle
  <1>2. \A e \in Clients : Connected(e) => Connected(e)'
    <2>1. state \in [Clients ->
                       {"free", "zombie", "connected", "primed", "active"}]
      BY DEF WindowInv, TypeOK
    <2>2. \A e \in Clients :
             state'[e] = state[e] \/ state'[e] \in {"primed", "active"}
      BY <1>1, <2>1
    <2>. QED  BY <2>2 DEF Connected, Primed
  <1>4. <<>> \in Seq(Frame) /\ Calls(<<>>) = {}
    BY EmptySeq, CallsEmpty
  <1>5. CASE UNCHANGED stack
    BY <1>1, <1>4, <1>5, NoCallsOK, FreshStack DEF CallsOK
  <1>6. CASE \E left \in Updates(c) : stack' = <<EnterWorld(c, left)>>
    <2>1. PICK left \in Updates(c) : stack' = <<EnterWorld(c, left)>>
      BY <1>6
    <2>2. left \in Nat
      BY ReliableAssumption DEF Updates
    <2>3. PICK e \in Frame :
             /\ e = EnterWorld(c, left)
             /\ e.call = "SV_ClientEnterWorld" /\ e.client = c
      BY <2>2, NewFrames DEF EnterWorld
    <2>4. stack' = <<e>>
      BY <2>1, <2>3
    <2>5. Calls(stack') = {e} /\ Nested(stack')
      BY <2>4 DEF Calls, Nested
    <2>6. \A d : ~Exposed(stack', d)
      BY <2>3, <2>4 DEF Exposed, IsDrop
    <2>. QED  BY <1>1, <1>2, <2>3, <2>5, <2>6, FreshStack DEF IsDrop
  <1>7. CASE stack' = DropCall(c, "zombie", <<>>)
    BY <1>4, <1>7, NoCallsOK, FreshDrop DEF CallsOK
  <1>. QED  BY <1>1, <1>5, <1>6, <1>7

\* A drop or a timeout: whoever is a zombie has left the game.
LEMMA DropKeepsDrops ==
    ASSUME WindowInv, DropInv, NEW c \in Clients,
           SV_DropClient(c) \/ SV_CheckTimeouts(c)
    PROVE  DropInv'
  <1>1. /\ stack = <<>>
        /\ UNCHANGED <<gamestateSent, window, inGame>>
        /\ \/ state' = state
           \/ state[c] = "zombie" /\ state' = [state EXCEPT ![c] = "free"]
        /\ \/ stack' = stack
           \/ \E then \in {"zombie", "free"} : stack' = DropCall(c, then, <<>>)
    BY DEF SV_DropClient, SV_CheckTimeouts, Idle
  <1>2. \A e \in Clients : Connected(e) => Connected(e)'
    <2>1. state \in [Clients ->
                       {"free", "zombie", "connected", "primed", "active"}]
      BY DEF WindowInv, TypeOK
    <2>2. \A e \in Clients : state'[e] = state[e] \/ state[e] = "zombie"
      BY <1>1, <2>1
    <2>. QED  BY <2>2 DEF Connected, Primed
  <1>4. <<>> \in Seq(Frame) /\ Calls(<<>>) = {} /\ Nested(<<>>)
    BY EmptySeq, CallsEmpty, NoCallsOK DEF CallsOK
  <1>5. CASE stack' = stack
    BY <1>1, <1>4, <1>5, NoCallsOK, FreshStack
  <1>6. CASE \E then \in {"zombie", "free"} : stack' = DropCall(c, then, <<>>)
    BY <1>4, <1>6, FreshDrop
  <1>. QED  BY <1>1, <1>5, <1>6

\* A broadcast, or a command to one client.
LEMMA CommandKeepsDrops ==
    ASSUME WindowInv, DropInv, SV_SendServerCommand
    PROVE  DropInv'
  <1>1. /\ stack = <<>> /\ issued' = issued + 1
        /\ UNCHANGED <<state, gamestateSent, inGame, reliableAcknowledge>>
    BY DEF SV_SendServerCommand, Idle
  <1>2. CASE stack' = <<Broadcast(GameText(issued'))>> /\ UNCHANGED window
    <2>1. issued' \in Nat
      BY <1>1 DEF WindowInv, TypeOK
    <2>2. PICK b \in Frame :
             b = Broadcast(GameText(issued')) /\ b.call = "SV_SendServerCommand"
      BY <2>1, TextType, NewFrames DEF Broadcast
    <2>3. stack' = <<b>>
      BY <1>2, <2>2
    <2>4. Calls(stack') = {b} /\ Nested(stack')
      BY <2>3 DEF Calls, Nested
    <2>5. \A d : ~Exposed(stack', d)
      BY <2>2, <2>3 DEF Exposed, IsDrop
    <2>. QED  BY <2>2, <2>4, <2>5, FreshStack
  <1>3. ASSUME NEW c \in Clients,
               SV_AddServerCommand(c, GameText(issued'), <<>>)
        PROVE  DropInv'
    <2>1. <<>> \in Seq(Frame)
      BY EmptySeq
    <2>. QED  BY <1>1, <1>3, <2>1, NoCallsOK, AddKeepsDrops
  <1>. QED  BY <1>2, <1>3 DEF SV_SendServerCommand

\* map_restart empties the game, and puts its loop on the stack.
LEMMA RestartKeepsDrops ==
    ASSUME SV_MapRestart_f  PROVE  DropInv'
  <1>1. stack' = <<MapRestart(1)>> /\ inGame' = {}
    BY DEF SV_MapRestart_f
  <1>2. PICK m \in Frame : m = MapRestart(1) /\ m.call = "SV_MapRestart_f"
    BY NewFrames DEF MapRestart
  <1>3. stack' = <<m>>
    BY <1>1, <1>2
  <1>4. Calls(stack') = {m} /\ Nested(stack')
    BY <1>3 DEF Calls, Nested
  <1>5. \A d : ~Exposed(stack', d)
    BY <1>2, <1>3 DEF Exposed, IsDrop
  <1>. QED  BY <1>2, <1>4, <1>5, FreshStack

\* Every step keeps the invariant of the drops in progress.
LEMMA DropsInductive == WindowInv /\ DropInv /\ [Next]_vars => DropInv'
  <1>. SUFFICES ASSUME WindowInv, DropInv, [Next]_vars  PROVE  DropInv'
    OBVIOUS
  <1>1. CASE UNCHANGED <<state, gamestateSent, window, stack, inGame,
                       reliableAcknowledge>>
    BY <1>1 DEF DropInv, ToldOK, CallsOK, EnterOK, LeftOK, Overran,
         Unacknowledged, Alive, Told, Connected, Primed, window
  <1>2. CASE UNCHANGED vars
    BY <1>1, <1>2 DEF vars
  <1>3. ASSUME NEW c \in Clients,
               \/ SV_SendClientSnapshot(c)
               \/ CL_ParseServerMessage(c)
               \/ CL_WritePacket(c)
        PROVE  DropInv'
    BY <1>1, <1>3 DEF SV_SendClientSnapshot, CL_ParseServerMessage,
         CL_WritePacket
  <1>. QED  BY <1>2, <1>3, ContinueKeepsDrops, ExecuteKeepsDrops,
         DropKeepsDrops, CommandKeepsDrops, RestartKeepsDrops DEF Next

\* A server without calls in progress has no drops in progress either.
LEMMA InitDrops == Init => DropInv
  <1>. SUFFICES ASSUME Init  PROVE  DropInv
    OBVIOUS
  <1>1. stack = <<>> /\ inGame = {}
    BY DEF Init
  <1>. QED  BY <1>1, NoCallsOK DEF DropInv, ToldOK

\* Only the last part of SV_DropClient makes a zombie of a client that has a
\* gamestate, and then its drop is exposed and it was told.
LEMMA ToldLast ==
    ASSUME WindowInv, DropInv, Next, NEW c \in Clients,
           Primed(c), gamestateSent[c], state'[c] = "zombie"
    PROVE  Told(c)'
  <1>1. state \in [Clients -> {"free", "zombie", "connected", "primed", "active"}]
    BY DEF WindowInv, TypeOK
  <1>2. state[c] # "zombie"
    BY DEF Primed
  <1>3. Continue
    <2>1. ASSUME NEW d \in Clients, SV_CheckTimeouts(d)  PROVE  FALSE
      <3>1. state' = state \/ state' = [state EXCEPT ![d] = "free"]
        BY <2>1 DEF SV_CheckTimeouts
      <3>. QED  BY <1>1, <1>2, <3>1
    <2>2. ASSUME NEW d \in Clients, SV_ExecuteClientMessage(d)  PROVE  FALSE
      <3>1. \/ state' = state
            \/ \E s \in {"primed", "active"} : state' = [state EXCEPT ![d] = s]
        BY <2>2 DEF SV_ExecuteClientMessage, SV_SendClientGameState
      <3>. QED  BY <1>1, <1>2, <3>1
    <2>. QED  BY <1>2, <2>1, <2>2 DEF Next, SV_SendServerCommand,
           SV_MapRestart_f, SV_DropClient, SV_SendClientSnapshot,
           CL_ParseServerMessage, CL_WritePacket
  <1>. DEFINE f == Head(stack)
  <1>4. /\ stack # <<>> /\ f \in Frame
        /\ f.call \in {"SV_DropClient", "SV_MapRestart_f"}
        /\ f.call = "SV_DropClient" =>
              /\ f.pc = "state" /\ state' = [state EXCEPT ![f.client] = f.then]
              /\ UNCHANGED window
        /\ f.call = "SV_MapRestart_f" =>
              state' = [state EXCEPT ![f.client] = "active"]
    <2>1. stack # <<>> /\ f \in Frame
      BY <1>3, StackTop DEF Continue, WindowInv
    <2>2. state' # state
      BY <1>2
    <2>3. f.call = "SV_SendServerCommand" => FALSE
      BY <1>3, <2>2 DEF Continue, SendServerCommandStep
    <2>4. f.call = "SV_ClientEnterWorld" => FALSE
      BY <1>3, <2>2 DEF Continue, EnterWorldStep
    <2>5. f.call = "SV_DropClient" =>
             /\ f.pc = "state" /\ state' = [state EXCEPT ![f.client] = f.then]
             /\ UNCHANGED window
      BY <1>3, <2>2 DEF Continue, DropClientStep
    <2>6. f.call = "SV_MapRestart_f" =>
             state' = [state EXCEPT ![f.client] = "active"]
      BY <1>3, <2>2 DEF Continue, MapRestartStep
    <2>. QED  BY <2>1, <2>3, <2>4, <2>5, <2>6, FrameTypes
  <1>. HIDE DEF f
  <1>5. f.call = "SV_DropClient"
    BY <1>1, <1>2, <1>4
  <1>6. f.client = c
    BY <1>1, <1>2, <1>4, <1>5
  <1>7. Exposed(stack, c)
    BY <1>4, <1>5, <1>6, TopOK DEF IsDrop, WindowInv, DropInv, f
  <1>8. Told(c)
    BY <1>7 DEF DropInv, ToldOK, Alive
  <1>. QED  BY <1>4, <1>5, <1>8 DEF Told, window

\* Only the last part of SV_DropClient gives up a slot in use, and the game was
\* told before.
LEMMA LeavesGame ==
    ASSUME WindowInv, DropInv, Next, NEW c \in Clients,
           Connected(c), ~Connected(c)'
    PROVE  c \notin inGame'
  <1>1. state \in [Clients -> {"free", "zombie", "connected", "primed", "active"}]
    BY DEF WindowInv, TypeOK
  <1>2. /\ state[c] # "zombie" /\ state'[c] # state[c]
        /\ state'[c] \notin {"connected", "primed", "active"}
    BY DEF Connected, Primed
  <1>3. Continue
    <2>1. ASSUME NEW d \in Clients, SV_CheckTimeouts(d)  PROVE  FALSE
      <3>1. \/ state' = state
            \/ state[d] = "zombie" /\ state' = [state EXCEPT ![d] = "free"]
        BY <2>1 DEF SV_CheckTimeouts
      <3>. QED  BY <1>1, <1>2, <3>1
    <2>2. ASSUME NEW d \in Clients, SV_ExecuteClientMessage(d)  PROVE  FALSE
      <3>1. \/ state' = state
            \/ \E s \in {"primed", "active"} : state' = [state EXCEPT ![d] = s]
        BY <2>2 DEF SV_ExecuteClientMessage, SV_SendClientGameState
      <3>. QED  BY <1>1, <1>2, <3>1
    <2>. QED  BY <1>2, <2>1, <2>2 DEF Next, SV_SendServerCommand,
           SV_MapRestart_f, SV_DropClient, SV_SendClientSnapshot,
           CL_ParseServerMessage, CL_WritePacket
  <1>. DEFINE f == Head(stack)
  <1>4. stack # <<>> /\ f \in Frame /\ f \in Calls(stack)
    BY <1>3, StackTop, CallsTop DEF Continue, WindowInv
  <1>5. \/ /\ f.call = "SV_DropClient" /\ f.pc = "state"
           /\ state' = [state EXCEPT ![f.client] = f.then]
           /\ inGame' = inGame
        \/ state' = [state EXCEPT ![f.client] = "active"]
    <2>1. state' # state
      BY <1>2
    <2>. QED  BY <1>3, <2>1 DEF Continue, SendServerCommandStep, DropClientStep,
           EnterWorldStep, MapRestartStep
  <1>. HIDE DEF f
  <1>6. /\ f.call = "SV_DropClient" /\ f.pc = "state"
        /\ f.client = c /\ inGame' = inGame
    BY <1>1, <1>2, <1>5
  <1>. QED  BY <1>4, <1>6 DEF DropInv, CallsOK, LeftOK

\* Only the last part of SV_ClientEnterWorld puts a client into the game, and
\* it has its slot or its ring is overrun.
LEMMA JoinsGame ==
    ASSUME WindowInv, DropInv, Next, NEW c \in inGame' \ inGame
    PROVE  Connected(c)' \/ Unacknowledged(c)' > MAX_RELIABLE_COMMANDS
  <1>1. Continue
    BY DEF Next, SV_SendServerCommand, SV_MapRestart_f, SV_DropClient,
         SV_CheckTimeouts, SV_SendClientSnapshot, SV_ExecuteClientMessage,
         CL_ParseServerMessage, CL_WritePacket
  <1>. DEFINE f == Head(stack)
  <1>2. stack # <<>> /\ f \in Frame /\ f \in Calls(stack)
    BY <1>1, StackTop, CallsTop DEF Continue, WindowInv
  <1>3. /\ f.call = "SV_ClientEnterWorld" /\ f.client = c
        /\ UNCHANGED <<state, window, reliableAcknowledge>>
    BY <1>1 DEF Continue, SendServerCommandStep, DropClientStep, EnterWorldStep
  <1>. HIDE DEF f
  <1>4. c \in Clients
    BY <1>2, <1>3, FrameTypes
  <1>5. Connected(c) \/ c \in Overran
    BY <1>2, <1>3 DEF DropInv, CallsOK, EnterOK
  <1>6. Connected(c)' = Connected(c) /\ Unacknowledged(c)' = Unacknowledged(c)
    BY <1>3 DEF Connected, Primed, Unacknowledged, window
  <1>. QED  BY <1>4, <1>5, <1>6 DEF Overran

\* A client with a gamestate that loses its slot to SV_DropClient is told last
\* that it is disconnected, whatever other commands and drops the call caused;
\* and a slot is given up only after the game has removed its client, of
\* overrun rings too, and nobody without one enters the game, unless the
\* configstrings of its own SV_ClientEnterWorld overran its ring.  Map restarts
\* included.
THEOREM DropsAreComplete == Spec => DropIsComplete
  <1>. DEFINE A ==
         /\ \A c \in Clients :
               Primed(c) /\ gamestateSent[c] /\ state'[c] = "zombie"
               => reliableCommands'[c][Index(reliableSequence'[c])]
                    = DisconnectText
         /\ \A c \in Clients : Connected(c) /\ ~Connected(c)' => c \notin inGame'
         /\ \A c \in inGame' \ inGame :
               Connected(c)' \/ Unacknowledged(c)' > MAX_RELIABLE_COMMANDS
  <1>1. Init => WindowInv /\ DropInv
    BY InitWindow, InitDrops
  <1>2. WindowInv /\ DropInv /\ [Next]_vars => (WindowInv /\ DropInv)'
    BY WindowInductive, DropsInductive
  <1>3. WindowInv /\ DropInv /\ [Next]_vars => [A]_vars
    BY ToldLast, LeavesGame, JoinsGame DEF Told
  <1>. QED  BY <1>1, <1>2, <1>3, PTL DEF Spec, DropIsComplete
=============================================================================
