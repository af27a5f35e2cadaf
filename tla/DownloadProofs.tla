------------------------- MODULE DownloadProofs -------------------------
(***************************************************************************)
(* Proofs about Download, for any files, any size of the window and any    *)
(* number of messages under way.                                           *)
(***************************************************************************)
EXTENDS Download, FiniteSetTheorems, SequenceTheorems, TLAPS

-----------------------------------------------------------------------------
(* The inductive invariant.  It speaks of downloads that do not overlap:   *)
(* once they do, blocks and acknowledgements of one are taken for those of *)
(* the next, and none of it holds.                                         *)

\* Acknowledgements come first among the commands, and follow one another from
\* the block the server waits for to what was read of the file.
CommandsOK ==
    /\ \A i, j \in 1..Len(commands) :
          i < j /\ commands[j].name = "nextdl" => commands[i].name = "nextdl"
    /\ \A i \in 1..Len(commands) :
          commands[i].name = "nextdl" =>
             /\ download
             /\ commands[i].block = downloadClientBlock + i - 1
             /\ commands[i].block < downloadCurrentBlock

\* The window holds what was read and is not acknowledged.
WindowOK ==
    download =>
       /\ downloadClientBlock <= downloadCurrentBlock
       /\ downloadCurrentBlock <= downloadClientBlock + MAX_DOWNLOAD_WINDOW
       /\ downloadCurrentBlock <= Blocks[downloadName] + 1
       /\ \A b \in downloadClientBlock..(downloadCurrentBlock - 1) :
             downloadBlocks[Slot(b)] = BlockOf(downloadName, b)

\* Nothing is under way to a client whose request is: it is the last command,
\* or the client has stopped.
RequestOK ==
    RequestUnderWay =>
       /\ messages = <<>>
       /\ status # "stopped" =>
             /\ commands[Len(commands)].name = "download"
             /\ commands[Len(commands)].file = wanted
             /\ status = "loading" /\ got = <<>>

\* The server has executed the last request, and the client has not stopped.
UpToDate == ~RequestUnderWay /\ status # "stopped"

\* Then the server and the client speak of the same file, and what the client
\* has was acknowledged or is by a command under way.
CurrentOK ==
    UpToDate =>
       /\ \A i \in 1..Len(commands) : commands[i].name = "nextdl"
       /\ download =>
             /\ downloadName = wanted
             /\ downloadClientBlock + Len(commands) =
                  Len(got) + (IF status = "complete" THEN 1 ELSE 0)
       /\ ~download /\ downloadName # NoFile =>
             /\ messages = <<>> /\ got = <<>> /\ status = "loading"
             /\ downloadName = wanted

\* And a block under way is one the client has, or the one its number says.
\* (A block resent after its slot was given to a later one is the former.)
MessagesOK ==
    UpToDate /\ status = "loading" =>
       \A i \in 1..Len(messages) :
          ~messages[i].refused =>
             /\ download
             /\ messages[i].block < downloadCurrentBlock
             /\ \/ messages[i].block < Len(got)
                \/ messages[i].data = BlockOf(wanted, messages[i].block)

InTime ==
    /\ CommandsOK /\ WindowOK /\ RequestOK /\ CurrentOK /\ MessagesOK
    /\ FileIntact /\ ~dropped

IInv == TypeOK /\ (~late => InTime)

-----------------------------------------------------------------------------
(* Naturals and remainders *)

\* A set of naturals that is not empty has a least element: the intervals up
\* to its elements have one that no other is strictly included in.
LEMMA LeastNatural ==
    ASSUME NEW T, T \subseteq Nat, T # {}
    PROVE  \E x \in T : \A y \in T : x <= y
  <1>. DEFINE I == {0..x : x \in T}
  <1>1. I \subseteq FiniteSubsetsOf(Nat)
    <2>1. \A x \in T : IsFiniteSet(0..x) /\ 0..x \subseteq Nat
      BY FS_Interval
    <2>. QED  BY <2>1 DEF FiniteSubsetsOf
  <1>2. I # {}
    OBVIOUS
  <1>3. PICK s \in I : \A t \in I : <<t, s>> \notin StrictSubsetOrdering(Nat)
    <2>. HIDE DEF I
    <2>. QED  BY <1>1, <1>2, FS_StrictSubsetOrderingWellFounded, WFMin
  <1>4. PICK x \in T : s = 0..x
    BY <1>3
  <1>5. ASSUME NEW y \in T
        PROVE  x <= y
    <2>1. <<0..y, 0..x>> \notin StrictSubsetOrdering(Nat)
      BY <1>3, <1>4
    <2>2. ~(0..y \subseteq 0..x /\ 0..y # 0..x)
      BY <2>1 DEF StrictSubsetOrdering
    <2>3. y < x => 0..y \subseteq 0..x /\ x \in 0..x /\ x \notin 0..y
      OBVIOUS
    <2>4. y < x => 0..y # 0..x
      BY <2>3, Zenon
    <2>. QED  BY <2>2, <2>3, <2>4
  <1>. QED  BY <1>5

\* And one that is bounded has a greatest.
LEMMA GreatestNatural ==
    ASSUME NEW T, T \subseteq Nat, T # {}, NEW n \in Nat, \A x \in T : x <= n
    PROVE  \E x \in T : \A y \in T : x >= y
  <1>. DEFINE U == {n - x : x \in T}
  <1>1. U \subseteq Nat /\ U # {}
    <2>1. \A x \in T : n - x \in Nat
      OBVIOUS
    <2>. QED  BY <2>1
  <1>2. PICK u \in U : \A v \in U : u <= v
    <2>. HIDE DEF U
    <2>. QED  BY <1>1, LeastNatural
  <1>3. PICK x \in T : u = n - x
    BY <1>2
  <1>4. ASSUME NEW y \in T
        PROVE  x >= y
    <2>1. n - x <= n - y
      BY <1>2, <1>3
    <2>. QED  BY <2>1
  <1>. QED  BY <1>4

\* A multiple of a greater number is greater by at least the factor.
LEMMA MultiplesApart ==
    ASSUME NEW n \in Nat \ {0}, NEW k \in Int, NEW l \in Int, k < l
    PROVE  n * k + n <= n * l
  <1>1. PICK d \in Nat : l = k + 1 + d
    <2>1. l - k - 1 \in Nat
      OBVIOUS
    <2>2. l = k + 1 + (l - k - 1)
      OBVIOUS
    <2>. QED  BY <2>1, <2>2
  <1>2. n * l = n * k + n + n * d
    BY <1>1
  <1>3. n * d >= 0
    OBVIOUS
  <1>. QED  BY <1>2, <1>3

\* A remainder is below the modulus.
LEMMA RemainderRange ==
    ASSUME NEW n \in Nat \ {0}, NEW a \in Int
    PROVE  a % n \in 0..(n - 1)
  OBVIOUS

\* The remainders of two numbers closer than the divisor differ.
LEMMA RemaindersDiffer ==
    ASSUME NEW n \in Nat \ {0}, NEW a \in Int, NEW b \in Int, a < b, b < a + n
    PROVE  a % n # b % n
  <1>. DEFINE q == a \div n
              r == b \div n
  <1>1. /\ a % n \in 0..(n - 1) /\ a = n * q + (a % n) /\ q \in Int
        /\ b % n \in 0..(n - 1) /\ b = n * r + (b % n) /\ r \in Int
    OBVIOUS
  <1>. HIDE DEF q, r
  <1>2. SUFFICES ASSUME a % n = b % n
                 PROVE  FALSE
    OBVIOUS
  <1>3. n * q \in Int /\ n * r \in Int
    BY <1>1
  <1>4. n * q < n * r /\ n * r < n * q + n
    BY <1>1, <1>2, <1>3
  <1>5. q < r
    <2>1. ~(r < q)
      BY <1>1, <1>3, <1>4, MultiplesApart
    <2>2. r # q
      BY <1>1, <1>3, <1>4
    <2>. QED  BY <1>1, <2>1, <2>2
  <1>. QED  BY <1>1, <1>3, <1>4, <1>5, MultiplesApart

-----------------------------------------------------------------------------
(* Types *)

Message == [block : Nat, refused : BOOLEAN, data : Data]
ClientCommand == [name : {"download", "stopdl", "nextdl"},
                  file : Files \cup {NoFile}, block : Nat]

\* The window has room for at least one block.
LEMMA WindowSize == MAX_DOWNLOAD_WINDOW \in Nat \ {0}
  BY DownloadAssumption

\* A block's slot is one of the window's.
LEMMA SlotRange ==
    ASSUME NEW b \in Int
    PROVE  Slot(b) \in 0..(MAX_DOWNLOAD_WINDOW - 1)
  BY WindowSize, RemainderRange DEF Slot

\* Two different blocks less than a window apart have different slots, so that
\* the one is not overwritten by the other.
LEMMA SlotsDiffer ==
    ASSUME NEW b \in Int, NEW c \in Int, b # c,
           b < c + MAX_DOWNLOAD_WINDOW, c < b + MAX_DOWNLOAD_WINDOW
    PROVE  Slot(b) # Slot(c)
  <1>1. CASE b < c
    BY <1>1, WindowSize, RemaindersDiffer DEF Slot
  <1>2. CASE c < b
    BY <1>2, WindowSize, RemaindersDiffer DEF Slot
  <1>. QED  BY <1>1, <1>2

\* A block is empty exactly at the end of the file.
LEMMA BlockTypes ==
    ASSUME NEW f \in Files, NEW b \in Nat
    PROVE  /\ Blocks[f] \in Nat
           /\ BlockOf(f, b) \in Data
           /\ BlockOf(f, b) = Eof <=> b >= Blocks[f]
  <1>1. Blocks[f] \in Nat /\ f # NoFile
    BY DownloadAssumption
  <1>2. CASE b < Blocks[f]
    <2>1. b \in 0..Blocks[f]
      BY <1>1, <1>2
    <2>2. BlockOf(f, b) \in Data
      BY <2>1 DEF Data
    <2>3. BlockOf(f, b) # Eof
      BY <1>1, <1>2 DEF BlockOf, Eof
    <2>. QED  BY <1>1, <1>2, <2>2, <2>3
  <1>3. CASE ~(b < Blocks[f])
    <2>1. BlockOf(f, b) = Eof
      BY <1>3 DEF BlockOf
    <2>. QED  BY <1>1, <1>3, <2>1 DEF Data
  <1>. QED  BY <1>2, <1>3

\* The empty block is block data.
LEMMA EofType == Eof \in Data
  BY DEF Data

\* What is left when the first of a queue is taken.
LEMMA TailElements ==
    ASSUME NEW S, NEW s \in Seq(S), s # <<>>
    PROVE  /\ Head(s) = s[1] /\ Head(s) \in S /\ 1 \in 1..Len(s)
           /\ Len(s) \in Nat \ {0}
           /\ Tail(s) \in Seq(S) /\ Len(Tail(s)) = Len(s) - 1
           /\ \A i \in 1..(Len(s) - 1) : Tail(s)[i] = s[i + 1]
  OBVIOUS

\* What a queue is when one more is put behind it.
LEMMA AppendElements ==
    ASSUME NEW S, NEW s \in Seq(S), NEW e \in S
    PROVE  /\ Append(s, e) \in Seq(S) /\ Len(Append(s, e)) = Len(s) + 1
           /\ Len(s) \in Nat
           /\ \A i \in 1..Len(s) : Append(s, e)[i] = s[i]
           /\ Append(s, e)[Len(s) + 1] = e
  OBVIOUS

\* The types used most.
LEMMA BasicTypes ==
    ASSUME TypeOK
    PROVE  /\ downloadName \in Files \cup {NoFile} /\ download \in BOOLEAN
           /\ download => downloadName \in Files
           /\ downloadClientBlock \in Nat /\ downloadCurrentBlock \in Nat
           /\ downloadXmitBlock \in Nat
           /\ messages \in Seq(Message) /\ commands \in Seq(ClientCommand)
           /\ got \in Seq(Data) /\ Len(got) \in Nat
  <1>1. got \in Seq(Data)
    BY DEF TypeOK
  <1>. QED  BY <1>1 DEF TypeOK, Message, ClientCommand

-----------------------------------------------------------------------------
(* The window *)

\* Each slot has the block it had, or the last one read into it.
LEMMA FilledSlots ==
    ASSUME TypeOK, NEW f \in Files, NEW first \in Nat, NEW last \in Nat
    PROVE  /\ Filled(f, first, last) \in [0..(MAX_DOWNLOAD_WINDOW - 1) -> Data]
           /\ \A i \in 0..(MAX_DOWNLOAD_WINDOW - 1) :
                \/ /\ \A b \in first..(last - 1) : Slot(b) # i
                   /\ Filled(f, first, last)[i] = downloadBlocks[i]
                \/ \E b \in first..(last - 1) :
                      /\ Slot(b) = i
                      /\ Filled(f, first, last)[i] = BlockOf(f, b)
  <1>1. downloadBlocks \in [0..(MAX_DOWNLOAD_WINDOW - 1) -> Data]
    BY DEF TypeOK
  <1>. DEFINE Read(i) == {b \in first..(last - 1) : Slot(b) = i}
              Newest(i) == CHOOSE b \in Read(i) : \A c \in Read(i) : c <= b
              F == Filled(f, first, last)
              D == 0..(MAX_DOWNLOAD_WINDOW - 1)
  <1>2. F = [i \in D |-> IF Read(i) = {} THEN downloadBlocks[i]
                         ELSE BlockOf(f, Newest(i))]
    BY <1>1 DEF Filled
  <1>3. ASSUME NEW i \in D, Read(i) # {}
        PROVE  Newest(i) \in Read(i)
    <2>. DEFINE T == Read(i)
    <2>1. T \subseteq Nat /\ T # {} /\ \A x \in T : x <= last
      BY <1>3
    <2>. HIDE DEF T
    <2>2. \E x \in T : \A y \in T : x >= y
      BY <2>1, GreatestNatural
    <2>3. \E b \in T : \A c \in T : c <= b
      BY <2>1, <2>2
    <2>. QED  BY <2>3 DEF T
  <1>4. ASSUME NEW i \in D
        PROVE  /\ F[i] \in Data
               /\ \/ /\ \A b \in first..(last - 1) : Slot(b) # i
                     /\ F[i] = downloadBlocks[i]
                  \/ \E b \in first..(last - 1) :
                        Slot(b) = i /\ F[i] = BlockOf(f, b)
    <2>1. CASE Read(i) = {}
      <3>1. F[i] = downloadBlocks[i]
        BY <1>2, <2>1
      <3>. QED  BY <1>1, <2>1, <3>1
    <2>2. CASE Read(i) # {}
      <3>1. F[i] = BlockOf(f, Newest(i))
        BY <1>2, <2>2
      <3>2. Newest(i) \in Read(i)
        BY <1>3, <2>2
      <3>. HIDE DEF Newest
      <3>3. /\ Newest(i) \in first..(last - 1) /\ Slot(Newest(i)) = i
            /\ Newest(i) \in Nat
        BY <3>2
      <3>. QED  BY <3>1, <3>3, BlockTypes
    <2>. QED  BY <2>1, <2>2
  <1>5. F \in [D -> Data]
    <2>1. F = [i \in D |-> F[i]]
      BY <1>2
    <2>. HIDE DEF F
    <2>. QED  BY <1>4, <2>1
  <1>. QED  BY <1>4, <1>5

-----------------------------------------------------------------------------
(* The server executes a command *)

\* Whatever command is executed, it was the client's oldest, and the server's
\* window and the client's side are as before.
LEMMA ExecuteCommon ==
    ASSUME TypeOK, NEW name, Execute(name)
    PROVE  /\ commands[1] = Head(commands) /\ commands[1] \in ClientCommand
           /\ commands[1].name = name
           /\ Len(commands) \in Nat \ {0} /\ Len(commands') = Len(commands) - 1
           /\ commands' \in Seq(ClientCommand)
           /\ \A i \in 1..Len(commands') : commands'[i] = commands[i + 1]
           /\ RequestUnderWay' => RequestUnderWay
           /\ name # "download" /\ RequestUnderWay => RequestUnderWay'
           /\ RequestUnderWay' => /\ Len(commands') > 0
                                  /\ commands'[Len(commands')] = commands[Len(commands)]
           /\ UNCHANGED <<downloadCurrentBlock, downloadXmitBlock,
                downloadBlocks, messages, wanted, status, got, requests, late>>
  <1>1. /\ commands # <<>> /\ commands' = Tail(commands)
        /\ Head(commands).name = name
        /\ UNCHANGED <<downloadCurrentBlock, downloadXmitBlock,
             downloadBlocks, messages, wanted, status, got, requests, late>>
    BY DEF Execute, client
  <1>2. commands \in Seq(ClientCommand)
    BY BasicTypes
  <1>. DEFINE n == Len(commands)
  <1>3. /\ commands[1] = Head(commands) /\ commands[1] \in ClientCommand
        /\ n \in Nat \ {0} /\ Len(commands') = n - 1
        /\ commands' \in Seq(ClientCommand)
        /\ \A i \in 1..(n - 1) : commands'[i] = commands[i + 1]
    BY <1>1, <1>2, TailElements
  <1>4. RequestUnderWay' => RequestUnderWay
    <2>1. ASSUME NEW i \in 1..Len(commands'), commands'[i].name = "download"
          PROVE  \E j \in 1..n : commands[j].name = "download"
      <3>1. i + 1 \in 1..n /\ commands[i + 1].name = "download"
        BY <1>3, <2>1
      <3>. QED  BY <3>1
    <2>. QED  BY <2>1 DEF RequestUnderWay
  <1>5. ASSUME name # "download", RequestUnderWay  PROVE  RequestUnderWay'
    <2>1. PICK j \in 1..n : commands[j].name = "download"
      BY <1>5 DEF RequestUnderWay
    <2>2. j # 1
      BY <1>1, <1>3, <1>5, <2>1
    <2>3. j - 1 \in 1..(n - 1) /\ (j - 1) + 1 = j
      BY <1>3, <2>2
    <2>4. commands'[j - 1].name = "download"
      BY <1>3, <2>1, <2>3
    <2>. QED  BY <1>3, <2>3, <2>4 DEF RequestUnderWay
  <1>6. ASSUME RequestUnderWay'
        PROVE  Len(commands') > 0 /\ commands'[Len(commands')] = commands[n]
    <2>1. PICK i \in 1..Len(commands') : TRUE
      BY <1>6 DEF RequestUnderWay
    <2>2. n - 1 \in 1..(n - 1) /\ (n - 1) + 1 = n
      BY <1>3, <2>1
    <2>. QED  BY <1>3, <2>2
  <1>. QED  BY <1>1, <1>3, <1>4, <1>5, <1>6

\* The types a command of the client leaves.
LEMMA ExecuteTypes ==
    ASSUME TypeOK, NEW name, Execute(name),
           downloadName' \in Files \cup {NoFile}, download' \in BOOLEAN,
           download' => downloadName' # NoFile,
           downloadClientBlock' \in Nat, dropped' \in BOOLEAN
    PROVE  TypeOK'
  BY ExecuteCommon DEF TypeOK, ClientCommand

\* A download command, which names the file and starts with no window, keeps
\* the invariant.
LEMMA BeginKeepsInv ==
    ASSUME IInv, SV_BeginDownload_f
    PROVE  IInv'
  <1>1. Execute("download") /\ TypeOK
    BY DEF SV_BeginDownload_f, IInv
  <1>2. /\ downloadName' = commands[1].file /\ download' = FALSE
        /\ UNCHANGED <<downloadClientBlock, dropped>>
        /\ commands[1].file \in Files \cup {NoFile}
    BY <1>1, ExecuteCommon DEF SV_BeginDownload_f, ClientCommand
  <1>3. TypeOK'
    BY <1>1, <1>2, BasicTypes, ExecuteTypes DEF TypeOK
  <1>. SUFFICES ASSUME ~late, InTime  PROVE  InTime'
    BY <1>1, <1>3, ExecuteCommon DEF IInv
  <1>4. \A i \in 1..Len(commands) : commands[i].name # "nextdl"
    <2>1. commands[1].name = "download" /\ Len(commands) \in Nat \ {0}
          /\ 1 \in 1..Len(commands)
      BY <1>1, ExecuteCommon
    <2>2. \A i \in 1..Len(commands) : i # 1 => 1 < i
      BY <2>1
    <2>. QED  BY <2>1, <2>2 DEF InTime, CommandsOK
  <1>5. CommandsOK'
    <2>1. ASSUME NEW i \in 1..Len(commands')  PROVE  commands'[i].name # "nextdl"
      <3>1. i + 1 \in 1..Len(commands) /\ commands'[i] = commands[i + 1]
        BY <1>1, ExecuteCommon
      <3>. QED  BY <1>4, <3>1
    <2>. QED  BY <2>1 DEF CommandsOK
  <1>6. WindowOK'
    BY <1>2 DEF WindowOK
  <1>7. RequestOK'
    BY <1>1, ExecuteCommon DEF InTime, RequestOK
  <1>8. RequestUnderWay
    <2>1. 1 \in 1..Len(commands) /\ commands[1].name = "download"
      BY <1>1, ExecuteCommon
    <2>. QED  BY <2>1 DEF RequestUnderWay
  <1>9. CurrentOK'
    <2>. SUFFICES ASSUME UpToDate'  PROVE  CurrentOK'
      BY DEF CurrentOK
    <2>1. /\ messages = <<>> /\ commands[Len(commands)].name = "download"
          /\ commands[Len(commands)].file = wanted
          /\ status = "loading" /\ got = <<>>
      BY <1>1, <1>8, ExecuteCommon DEF UpToDate, InTime, RequestOK
    <2>2. Len(commands) = 1
      <3>1. SUFFICES ASSUME Len(commands) # 1  PROVE  FALSE
        OBVIOUS
      <3>2. /\ Len(commands') \in 1..Len(commands')
            /\ commands'[Len(commands')] = commands[Len(commands')  + 1]
            /\ Len(commands') + 1 = Len(commands)
        BY <1>1, <3>1, ExecuteCommon
      <3>3. commands'[Len(commands')].name = "download"
        BY <2>1, <3>2
      <3>. QED  BY <3>2, <3>3 DEF UpToDate, RequestUnderWay
    <2>3. Len(commands') = 0
      BY <1>1, <2>2, ExecuteCommon
    <2>. QED  BY <1>1, <1>2, <2>1, <2>2, <2>3, ExecuteCommon DEF CurrentOK
  <1>10. MessagesOK'
    <2>1. messages' = <<>>
      BY <1>1, <1>8, ExecuteCommon DEF InTime, RequestOK
    <2>. QED  BY <2>1 DEF MessagesOK
  <1>11. FileIntact' /\ ~dropped'
    BY <1>1, <1>2, ExecuteCommon DEF InTime, FileIntact
  <1>. QED  BY <1>5, <1>6, <1>7, <1>9, <1>10, <1>11 DEF InTime

\* A stopdl command keeps the invariant: the counters survive, and the name is
\* cleared.
LEMMA StopKeepsInv ==
    ASSUME IInv, SV_StopDownload_f
    PROVE  IInv'
  <1>1. Execute("stopdl") /\ TypeOK
    BY DEF SV_StopDownload_f, IInv
  <1>2. /\ downloadName' = NoFile /\ download' = FALSE
        /\ UNCHANGED <<downloadClientBlock, dropped>>
    BY DEF SV_StopDownload_f, SV_CloseDownload
  <1>3. TypeOK'
    BY <1>1, <1>2, BasicTypes, ExecuteTypes DEF TypeOK
  <1>. SUFFICES ASSUME ~late, InTime  PROVE  InTime'
    BY <1>1, <1>3, ExecuteCommon DEF IInv
  <1>4. commands[1].name = "stopdl" /\ Len(commands) \in Nat \ {0}
        /\ 1 \in 1..Len(commands)
    BY <1>1, ExecuteCommon
  <1>5. CommandsOK'
    <2>1. ASSUME NEW i \in 1..Len(commands')  PROVE  commands'[i].name # "nextdl"
      <3>1. i + 1 \in 1..Len(commands) /\ commands'[i] = commands[i + 1] /\ 1 < i + 1
        BY <1>1, ExecuteCommon
      <3>. QED  BY <1>4, <3>1 DEF InTime, CommandsOK
    <2>. QED  BY <2>1 DEF CommandsOK
  <1>6. WindowOK'
    BY <1>2 DEF WindowOK
  <1>7. RequestOK'
    BY <1>1, ExecuteCommon DEF InTime, RequestOK
  <1>8. ~UpToDate'
    <2>1. ~UpToDate
      BY <1>4 DEF InTime, CurrentOK
    <2>. QED  BY <1>1, <2>1, ExecuteCommon DEF UpToDate
  <1>9. CurrentOK' /\ MessagesOK'
    BY <1>8 DEF CurrentOK, MessagesOK
  <1>10. FileIntact' /\ ~dropped'
    BY <1>1, <1>2, ExecuteCommon DEF InTime, FileIntact
  <1>. QED  BY <1>5, <1>6, <1>7, <1>9, <1>10 DEF InTime

\* The acknowledgement of a block: of the last one, and only then, the slot is
\* empty.
LEMMA NextKeepsInv ==
    ASSUME IInv, SV_NextDownload_f
    PROVE  IInv'
  <1>1. Execute("nextdl") /\ TypeOK
    BY DEF SV_NextDownload_f, IInv
  <1>. DEFINE b == commands[1].block
  <1>2. /\ NextDownload(b)
        /\ b \in Nat
    BY <1>1, ExecuteCommon DEF SV_NextDownload_f, ClientCommand
  <1>3. TypeOK'
    <2>1. /\ downloadName' \in Files \cup {NoFile} /\ download' \in BOOLEAN
          /\ download' => downloadName' # NoFile
          /\ downloadClientBlock' \in Nat /\ dropped' \in BOOLEAN
      <3>1. /\ downloadName \in Files \cup {NoFile} /\ download \in BOOLEAN
            /\ download => downloadName # NoFile
            /\ downloadClientBlock \in Nat /\ dropped \in BOOLEAN
        BY <1>1 DEF TypeOK
      <3>2. /\ \/ downloadName' = NoFile /\ download' = FALSE
               \/ UNCHANGED <<downloadName, download>>
            /\ downloadClientBlock' \in {downloadClientBlock, downloadClientBlock + 1}
            /\ dropped' \in {dropped, TRUE}
        BY <1>2 DEF NextDownload, SV_CloseDownload
      <3>3. download' \in BOOLEAN /\ dropped' \in BOOLEAN
        BY <3>1, <3>2, Zenon
      <3>4. download' => downloadName' # NoFile
        BY <3>1, <3>2
      <3>5. downloadName' \in Files \cup {NoFile} /\ downloadClientBlock' \in Nat
        BY <3>1, <3>2
      <3>. QED  BY <3>3, <3>4, <3>5
    <2>. QED  BY <1>1, <2>1, ExecuteTypes
  <1>. SUFFICES ASSUME ~late, InTime  PROVE  InTime'
    BY <1>1, <1>3, ExecuteCommon DEF IInv
  <1>4. /\ commands[1].name = "nextdl" /\ Len(commands) \in Nat \ {0}
        /\ 1 \in 1..Len(commands)
    BY <1>1, ExecuteCommon
  <1>5. /\ download /\ b = downloadClientBlock /\ b < downloadCurrentBlock
        /\ downloadName \in Files /\ downloadClientBlock \in Nat
        /\ downloadCurrentBlock \in Nat /\ Len(got) \in Nat
    BY <1>1, <1>4, BasicTypes DEF InTime, CommandsOK
  <1>6. /\ downloadCurrentBlock <= Blocks[downloadName] + 1
        /\ downloadCurrentBlock <= downloadClientBlock + MAX_DOWNLOAD_WINDOW
        /\ downloadBlocks[Slot(b)] = BlockOf(downloadName, b)
        /\ Blocks[downloadName] \in Nat
        /\ BlockOf(downloadName, b) = Eof <=> b >= Blocks[downloadName]
    <2>1. b \in downloadClientBlock..(downloadCurrentBlock - 1)
      BY <1>5
    <2>. QED  BY <1>2, <1>5, <2>1, BlockTypes DEF InTime, WindowOK
  <1>7. RequestOK' /\ (UpToDate' => UpToDate)
    BY <1>1, ExecuteCommon DEF InTime, RequestOK, UpToDate
  <1>8. CASE /\ downloadBlocks[Slot(b)] = Eof
             /\ SV_CloseDownload
             /\ UNCHANGED <<downloadClientBlock, dropped>>
    <2>1. b = Blocks[downloadName] /\ downloadCurrentBlock = b + 1
      BY <1>2, <1>5, <1>6, <1>8
    <2>2. download' = FALSE /\ downloadName' = NoFile
      BY <1>8 DEF SV_CloseDownload
    <2>3. ASSUME NEW i \in 1..Len(commands')  PROVE  commands'[i].name # "nextdl"
      <3>1. i + 1 \in 1..Len(commands) /\ commands'[i] = commands[i + 1]
        BY <1>1, ExecuteCommon
      <3>2. SUFFICES ASSUME commands[i + 1].name = "nextdl"  PROVE  FALSE
        BY <3>1
      <3>3. /\ commands[i + 1].block = downloadClientBlock + (i + 1) - 1
            /\ commands[i + 1].block < downloadCurrentBlock
        BY <3>1, <3>2 DEF InTime, CommandsOK
      <3>4. i \in Nat \ {0}
        BY <1>4, <3>1
      <3>. HIDE DEF b
      <3>5. downloadCurrentBlock = downloadClientBlock + 1
        BY <1>5, <2>1
      <3>6. downloadClientBlock + (i + 1) - 1 >= downloadCurrentBlock
        BY <1>5, <3>4, <3>5
      <3>. QED  BY <1>5, <3>3, <3>4, <3>6
    <2>4. CommandsOK' /\ WindowOK'
      BY <2>2, <2>3 DEF CommandsOK, WindowOK
    <2>5. ASSUME UpToDate'
          PROVE  Len(commands') = 0 /\ Len(commands) = 1 /\ status # "loading"
      <3>1. /\ \A i \in 1..Len(commands) : commands[i].name = "nextdl"
            /\ downloadName = wanted
            /\ downloadClientBlock + Len(commands) =
                 Len(got) + (IF status = "complete" THEN 1 ELSE 0)
        BY <1>5, <1>7, <2>5 DEF InTime, CurrentOK
      <3>2. Len(commands') = 0
        <4>1. SUFFICES ASSUME Len(commands') # 0  PROVE  FALSE
          OBVIOUS
        <4>2. 1 \in 1..Len(commands') /\ commands'[1] = commands[1 + 1]
              /\ 1 + 1 \in 1..Len(commands)
          BY <1>1, <1>4, <4>1, ExecuteCommon
        <4>. QED  BY <2>3, <3>1, <4>2
      <3>3. Len(commands) = 1
        BY <1>1, <1>4, <3>2, ExecuteCommon
      <3>4. ASSUME status = "loading"  PROVE  FALSE
        <4>1. Len(got) = Blocks[wanted] + 1
          BY <1>5, <2>1, <3>1, <3>3, <3>4
        <4>2. got # <<>>
          BY <1>6, <3>1, <4>1
        <4>3. Len(got) <= Blocks[wanted]
          BY <4>2 DEF InTime, FileIntact
        <4>. QED  BY <1>6, <3>1, <4>1, <4>3
      <3>. QED  BY <3>2, <3>3, <3>4
    <2>6. CurrentOK' /\ MessagesOK'
      <3>1. status' = status
        BY <1>1, ExecuteCommon
      <3>. QED  BY <2>2, <2>5, <3>1 DEF CurrentOK, MessagesOK
    <2>7. FileIntact' /\ ~dropped'
      BY <1>1, <1>8, ExecuteCommon DEF InTime, FileIntact
    <2>. QED  BY <1>7, <2>4, <2>6, <2>7 DEF InTime
  <1>9. CASE /\ downloadBlocks[Slot(b)] # Eof
             /\ downloadClientBlock' = downloadClientBlock + 1
             /\ UNCHANGED <<downloadName, download, dropped>>
    <2>1. UNCHANGED <<downloadCurrentBlock, downloadBlocks, messages, wanted,
                      status, got, late>>
      BY <1>1, ExecuteCommon
    <2>2. ASSUME NEW i \in 1..Len(commands')
          PROVE  i + 1 \in 1..Len(commands) /\ commands'[i] = commands[i + 1]
      BY <1>1, ExecuteCommon
    <2>3. CommandsOK'
      <3>1. ASSUME NEW i \in 1..Len(commands'), NEW j \in 1..Len(commands'),
                   i < j, commands'[j].name = "nextdl"
            PROVE  commands'[i].name = "nextdl"
        <4>1. i + 1 < j + 1
          BY <3>1
        <4>. QED  BY <2>2, <3>1, <4>1 DEF InTime, CommandsOK
      <3>2. ASSUME NEW i \in 1..Len(commands'), commands'[i].name = "nextdl"
            PROVE  /\ commands'[i].block = downloadClientBlock' + i - 1
                   /\ commands'[i].block < downloadCurrentBlock
        <4>1. /\ commands'[i].block = downloadClientBlock + (i + 1) - 1
              /\ commands'[i].block < downloadCurrentBlock
          BY <2>2, <3>2 DEF InTime, CommandsOK
        <4>. QED  BY <1>5, <1>9, <4>1
      <3>. QED  BY <1>5, <1>9, <2>1, <3>1, <3>2 DEF CommandsOK
    <2>4. WindowOK'
      <3>1. /\ downloadClientBlock' <= downloadCurrentBlock
            /\ downloadCurrentBlock <= downloadClientBlock' + MAX_DOWNLOAD_WINDOW
        BY <1>5, <1>6, <1>9, WindowSize
      <3>2. ASSUME NEW c \in downloadClientBlock'..(downloadCurrentBlock - 1)
            PROVE  downloadBlocks[Slot(c)] = BlockOf(downloadName, c)
        <4>1. c \in downloadClientBlock..(downloadCurrentBlock - 1)
          BY <1>5, <1>9, <3>2
        <4>. QED  BY <1>5, <4>1 DEF InTime, WindowOK
      <3>. QED  BY <1>6, <1>9, <2>1, <3>1, <3>2 DEF WindowOK
    <2>5. CurrentOK'
      <3>. SUFFICES ASSUME UpToDate'  PROVE  CurrentOK'
        BY DEF CurrentOK
      <3>1. /\ \A i \in 1..Len(commands) : commands[i].name = "nextdl"
            /\ downloadName = wanted
            /\ downloadClientBlock + Len(commands) =
                 Len(got) + (IF status = "complete" THEN 1 ELSE 0)
        BY <1>5, <1>7 DEF InTime, CurrentOK
      <3>2. downloadClientBlock' + Len(commands') =
                 Len(got) + (IF status = "complete" THEN 1 ELSE 0)
        <4>1. Len(commands') = Len(commands) - 1
          BY <1>1, ExecuteCommon
        <4>. QED  BY <1>4, <1>5, <1>9, <3>1, <4>1
      <3>. QED  BY <1>5, <1>9, <2>1, <2>2, <3>1, <3>2 DEF CurrentOK
    <2>6. MessagesOK'
      BY <1>7, <1>9, <2>1 DEF InTime, MessagesOK
    <2>7. FileIntact' /\ ~dropped'
      BY <1>9, <2>1 DEF InTime, FileIntact
    <2>. QED  BY <1>7, <2>3, <2>4, <2>5, <2>6, <2>7 DEF InTime
  <1>. QED  BY <1>2, <1>5, <1>8, <1>9 DEF NextDownload
-----------------------------------------------------------------------------
(* The server sends a block *)

\* A message sent goes behind the others; it is not late unless a request for
\* another file is under way.
LEMMA SendFacts ==
    ASSUME TypeOK, NEW m \in Message, Send(m)
    PROVE  /\ messages' \in Seq(Message) /\ Len(messages') = Len(messages) + 1
           /\ Len(messages) \in Nat
           /\ \A i \in 1..Len(messages) : messages'[i] = messages[i]
           /\ messages'[Len(messages) + 1] = m
           /\ late' \in BOOLEAN
           /\ ~late' => ~late /\ ~RequestUnderWay
  <1>1. messages \in Seq(Message) /\ late \in BOOLEAN
    BY BasicTypes DEF TypeOK
  <1>2. messages' = Append(messages, m) /\ late' = (late \/ RequestUnderWay)
    BY DEF Send
  <1>3. late' \in BOOLEAN /\ (~late' => ~late /\ ~RequestUnderWay)
    BY <1>2, Zenon
  <1>. HIDE DEF Message
  <1>. QED  BY <1>1, <1>2, <1>3, AppendElements

\* A refusal, which is sent once and ends the download, keeps the invariant.
LEMMA RefuseKeepsInv ==
    ASSUME IInv, Refuse, UNCHANGED <<dropped, commands, client>>
    PROVE  IInv'
  <1>1. /\ TypeOK /\ ~download /\ Send(RefusalMessage)
        /\ downloadName' = NoFile
        /\ UNCHANGED <<download, downloadClientBlock, downloadCurrentBlock,
                       downloadXmitBlock, downloadBlocks>>
        /\ UNCHANGED <<dropped, commands, wanted, status, got, requests>>
    BY DEF IInv, Refuse, client
  <1>2. RefusalMessage \in Message /\ RefusalMessage.refused
    BY EofType DEF RefusalMessage, Message
  <1>3. /\ messages' \in Seq(Message) /\ Len(messages') = Len(messages) + 1
        /\ Len(messages) \in Nat
        /\ \A i \in 1..Len(messages) : messages'[i] = messages[i]
        /\ messages'[Len(messages) + 1] = RefusalMessage
        /\ late' \in BOOLEAN
        /\ ~late' => ~late /\ ~RequestUnderWay
    BY <1>1, <1>2, SendFacts
  <1>4. TypeOK'
    BY <1>1, <1>3 DEF TypeOK, Message
  <1>. SUFFICES ASSUME ~late', ~late, InTime, ~RequestUnderWay  PROVE  InTime'
    BY <1>3, <1>4 DEF IInv
  <1>5. RequestUnderWay' = RequestUnderWay /\ UpToDate' = UpToDate
    BY <1>1 DEF RequestUnderWay, UpToDate
  <1>6. CommandsOK' /\ WindowOK' /\ RequestOK'
    BY <1>1, <1>5 DEF InTime, CommandsOK, WindowOK, RequestOK
  <1>7. CurrentOK'
    BY <1>1, <1>5 DEF InTime, CurrentOK
  <1>8. MessagesOK'
    <2>1. ASSUME UpToDate, status = "loading", NEW i \in 1..Len(messages')
          PROVE  messages'[i].refused
      <3>1. CASE i = Len(messages) + 1
        BY <1>2, <1>3, <3>1
      <3>2. CASE i # Len(messages) + 1
        <4>1. i \in 1..Len(messages) /\ messages'[i] = messages[i]
          BY <1>3, <3>2
        <4>. QED  BY <1>1, <2>1, <4>1 DEF InTime, MessagesOK
      <3>. QED  BY <3>1, <3>2
    <2>. QED  BY <1>1, <1>5, <2>1 DEF MessagesOK
  <1>9. FileIntact' /\ ~dropped'
    BY <1>1 DEF InTime, FileIntact
  <1>. QED  BY <1>6, <1>7, <1>8, <1>9 DEF InTime

\* The counters a call works on, and what of the window it finds.
LEMMA StartFacts ==
    ASSUME TypeOK, downloadName # NoFile
    PROVE  /\ downloadName \in Files /\ Blocks[downloadName] \in Nat
           /\ Client \in Nat /\ Start(downloadCurrentBlock) \in Nat
           /\ Start(downloadXmitBlock) \in Nat
           /\ ReadTo \in Nat /\ ReadTo <= Client + MAX_DOWNLOAD_WINDOW
           /\ ReadTo <= Blocks[downloadName] + 1
           /\ ReadTo >= Client \/ ReadTo = Blocks[downloadName] + 1
           /\ ~late /\ InTime =>
                /\ Client <= Start(downloadCurrentBlock)
                /\ Start(downloadCurrentBlock) <= Client + MAX_DOWNLOAD_WINDOW
                /\ Start(downloadCurrentBlock) <= Blocks[downloadName] + 1
                /\ Start(downloadXmitBlock) <= Start(downloadCurrentBlock)
                /\ \A b \in Client..(Start(downloadCurrentBlock) - 1) :
                      downloadBlocks[Slot(b)] = BlockOf(downloadName, b)
  <1>1. /\ downloadName \in Files /\ Blocks[downloadName] \in Nat
        /\ downloadClientBlock \in Nat /\ downloadCurrentBlock \in Nat
        /\ downloadXmitBlock \in Nat
    BY BasicTypes, BlockTypes
  <1>2. /\ Client \in Nat /\ Start(downloadCurrentBlock) \in Nat
        /\ Start(downloadXmitBlock) \in Nat
    BY <1>1 DEF Client, Start
  <1>3. /\ ReadTo \in Nat /\ ReadTo <= Client + MAX_DOWNLOAD_WINDOW
        /\ ReadTo <= Blocks[downloadName] + 1
        /\ ReadTo >= Client \/ ReadTo = Blocks[downloadName] + 1
    BY <1>1, <1>2, WindowSize DEF ReadTo, ReadLimit
  <1>4. ASSUME ~late, InTime
        PROVE  /\ Client <= Start(downloadCurrentBlock)
               /\ Start(downloadCurrentBlock) <= Client + MAX_DOWNLOAD_WINDOW
               /\ Start(downloadCurrentBlock) <= Blocks[downloadName] + 1
               /\ Start(downloadXmitBlock) <= Start(downloadCurrentBlock)
               /\ \A b \in Client..(Start(downloadCurrentBlock) - 1) :
                     downloadBlocks[Slot(b)] = BlockOf(downloadName, b)
    <2>1. CASE download
      BY <1>4, <2>1 DEF InTime, WindowOK, Client, Start, TypeOK
    <2>2. CASE ~download
      BY <1>1, <2>2, WindowSize DEF Client, Start
    <2>. QED  BY <2>1, <2>2
  <1>. QED  BY <1>1, <1>2, <1>3, <1>4

\* Reading up to the window and sending one block, the body of
\* SV_WriteDownloadToClient, keeps the invariant: a slot is written only when
\* its old block was acknowledged.
LEMMA ReadKeepsInv ==
    ASSUME IInv, downloadName # NoFile, NEW resend \in BOOLEAN,
           ReadAndSend(resend), UNCHANGED <<dropped, commands, client>>
    PROVE  IInv'
  <1>. DEFINE first   == Start(downloadCurrentBlock)
              current == IF ReadTo > first THEN ReadTo ELSE first
              xmit    == BlockToSend(Start(downloadXmitBlock), current, resend)
              blocks  == Filled(downloadName, first, current)
              f       == downloadName
              m       == BlockMessage(xmit, blocks[Slot(xmit)])
  <1>1. /\ TypeOK /\ f \in Files /\ Blocks[f] \in Nat
        /\ Client \in Nat /\ first \in Nat /\ Start(downloadXmitBlock) \in Nat
        /\ ReadTo \in Nat /\ MAX_DOWNLOAD_WINDOW \in Nat \ {0}
    BY StartFacts, WindowSize DEF IInv
  <1>2. /\ download' = TRUE /\ downloadName' = f
        /\ downloadClientBlock' = Client
        /\ downloadCurrentBlock' = current
        /\ downloadBlocks' = blocks
        /\ UNCHANGED <<dropped, commands, wanted, status, got, requests>>
    BY DEF ReadAndSend, client
  <1>3. \/ /\ xmit # current /\ Client # current
           /\ Send(m)
           /\ downloadXmitBlock' = xmit + 1
        \/ /\ downloadXmitBlock' = Start(downloadXmitBlock)
           /\ UNCHANGED <<messages, late>>
    BY DEF ReadAndSend
  <1>4. /\ current \in Nat /\ current >= first
        /\ xmit \in Nat
        /\ xmit = Start(downloadXmitBlock) \/ xmit = Client
    BY <1>1 DEF BlockToSend
  <1>. HIDE DEF first, current, xmit, f
  <1>5. /\ blocks \in [0..(MAX_DOWNLOAD_WINDOW - 1) -> Data]
        /\ \A i \in 0..(MAX_DOWNLOAD_WINDOW - 1) :
              \/ /\ \A b \in first..(current - 1) : Slot(b) # i
                 /\ blocks[i] = downloadBlocks[i]
              \/ \E b \in first..(current - 1) :
                    Slot(b) = i /\ blocks[i] = BlockOf(f, b)
    BY <1>1, <1>4, FilledSlots DEF f
  <1>. HIDE DEF blocks
  <1>6. m \in Message /\ m.block = xmit /\ ~m.refused
        /\ m.data = blocks[Slot(xmit)]
    <2>1. Slot(xmit) \in 0..(MAX_DOWNLOAD_WINDOW - 1)
      BY <1>4, SlotRange
    <2>2. blocks[Slot(xmit)] \in Data
      BY <1>5, <2>1
    <2>. QED  BY <1>4, <2>2 DEF BlockMessage, Message
  <1>. HIDE DEF m
  <1>7. messages' \in Seq(Message) /\ late' \in BOOLEAN /\ (~late' => ~late)
        /\ downloadXmitBlock' \in Nat
    <2>1. messages \in Seq(Message) /\ late \in BOOLEAN
      BY <1>1, BasicTypes DEF TypeOK
    <2>2. CASE Send(m) /\ downloadXmitBlock' = xmit + 1
      BY <1>1, <1>4, <1>6, <2>2, SendFacts
    <2>3. CASE /\ downloadXmitBlock' = Start(downloadXmitBlock)
               /\ UNCHANGED <<messages, late>>
      BY <1>1, <2>1, <2>3
    <2>. QED  BY <1>3, <2>2, <2>3
  <1>8. ASSUME ~late, InTime
        PROVE  /\ Client <= first /\ Client <= current
               /\ current <= Client + MAX_DOWNLOAD_WINDOW
               /\ current <= Blocks[f] + 1
               /\ xmit <= current /\ downloadXmitBlock' <= current
               /\ \A b \in Client..(first - 1) :
                     downloadBlocks[Slot(b)] = BlockOf(f, b)
    <2>1. /\ Client <= first /\ first <= Client + MAX_DOWNLOAD_WINDOW
          /\ first <= Blocks[f] + 1
          /\ Start(downloadXmitBlock) <= first
          /\ ReadTo <= Client + MAX_DOWNLOAD_WINDOW /\ ReadTo <= Blocks[f] + 1
          /\ \A b \in Client..(first - 1) :
                downloadBlocks[Slot(b)] = BlockOf(f, b)
      BY <1>1, <1>8, StartFacts DEF first, f
    <2>2. /\ current <= Client + MAX_DOWNLOAD_WINDOW /\ current <= Blocks[f] + 1
          /\ Client <= current /\ xmit <= current
      BY <1>1, <1>4, <2>1 DEF current
    <2>3. downloadXmitBlock' <= current
      BY <1>1, <1>3, <1>4, <2>1, <2>2
    <2>. QED  BY <2>1, <2>2, <2>3
  <1>9. TypeOK'
    <2>1. ~late' => downloadXmitBlock' <= downloadCurrentBlock'
      BY <1>2, <1>7, <1>8 DEF IInv
    <2>2. f \in Files \cup {NoFile} /\ f # NoFile
      BY <1>1, DownloadAssumption
    <2>3. /\ downloadName' \in Files \cup {NoFile} /\ download' \in BOOLEAN
          /\ download' => downloadName' # NoFile
          /\ downloadClientBlock' \in Nat /\ downloadCurrentBlock' \in Nat
          /\ downloadBlocks' \in [0..(MAX_DOWNLOAD_WINDOW - 1) -> Data]
      BY <1>1, <1>2, <1>4, <1>5, <2>2
    <2>4. messages' \in Seq([block : Nat, refused : BOOLEAN, data : Data])
      BY <1>7 DEF Message
    <2>. QED  BY <1>1, <1>2, <1>7, <2>1, <2>3, <2>4 DEF TypeOK
  <1>. SUFFICES ASSUME ~late', ~late, InTime  PROVE  InTime'
    BY <1>7, <1>9 DEF IInv
  <1>10. ASSUME NEW b \in Client..(current - 1)
         PROVE  blocks[Slot(b)] = BlockOf(f, b)
    <2>1. Slot(b) \in 0..(MAX_DOWNLOAD_WINDOW - 1) /\ b \in Int
      BY <1>1, <1>4, SlotRange
    <2>2. CASE /\ \A c \in first..(current - 1) : Slot(c) # Slot(b)
               /\ blocks[Slot(b)] = downloadBlocks[Slot(b)]
      <3>1. b \in Client..(first - 1)
        BY <1>1, <1>4, <2>1, <2>2
      <3>. QED  BY <1>8, <2>2, <3>1
    <2>3. CASE \E c \in first..(current - 1) :
                  Slot(c) = Slot(b) /\ blocks[Slot(b)] = BlockOf(f, c)
      <3>1. PICK c \in first..(current - 1) :
                  Slot(c) = Slot(b) /\ blocks[Slot(b)] = BlockOf(f, c)
        BY <2>3
      <3>2. /\ c \in Int /\ b < c + MAX_DOWNLOAD_WINDOW
            /\ c < b + MAX_DOWNLOAD_WINDOW
        BY <1>1, <1>4, <1>8, <2>1
      <3>3. b = c
        BY <2>1, <3>1, <3>2, SlotsDiffer
      <3>. QED  BY <3>1, <3>3
    <2>. QED  BY <1>5, <2>1, <2>2, <2>3
  <1>11. WindowOK'
    BY <1>2, <1>8, <1>10 DEF WindowOK
  <1>12. /\ RequestUnderWay' = RequestUnderWay /\ UpToDate' = UpToDate
         /\ download => /\ Client = downloadClientBlock
                        /\ downloadCurrentBlock <= current
         /\ downloadCurrentBlock \in Nat
    BY <1>1, <1>2, <1>4, BasicTypes
       DEF RequestUnderWay, UpToDate, Client, Start, first
  <1>13. CommandsOK'
    <2>1. ASSUME NEW i \in 1..Len(commands), commands[i].name = "nextdl"
          PROVE  /\ commands[i].block = Client + i - 1
                 /\ commands[i].block < current
      <3>1. /\ download
            /\ commands[i].block = downloadClientBlock + i - 1
            /\ commands[i].block < downloadCurrentBlock
        BY <2>1 DEF InTime, CommandsOK
      <3>2. i \in Int /\ downloadClientBlock \in Nat
        BY <1>1, BasicTypes
      <3>. QED  BY <1>4, <1>12, <3>1, <3>2
    <2>. QED  BY <1>2, <2>1 DEF InTime, CommandsOK
  <1>14. RequestOK'
    <2>1. RequestUnderWay => messages' = messages
      BY <1>1, <1>3, <1>6, SendFacts
    <2>. QED  BY <1>2, <1>12, <2>1 DEF InTime, RequestOK
  <1>15. ASSUME UpToDate
         PROVE  /\ \A i \in 1..Len(commands) : commands[i].name = "nextdl"
                /\ f = wanted
                /\ Client + Len(commands) =
                     Len(got) + (IF status = "complete" THEN 1 ELSE 0)
    <2>1. \A i \in 1..Len(commands) : commands[i].name = "nextdl"
      BY <1>15 DEF InTime, CurrentOK
    <2>2. CASE download
      BY <1>12, <1>15, <2>1, <2>2 DEF InTime, CurrentOK, f
    <2>3. CASE ~download
      <3>1. got = <<>> /\ status = "loading" /\ f = wanted
        BY <1>15, <2>3 DEF InTime, CurrentOK, f
      <3>2. Len(commands) = 0
        <4>1. Len(commands) \in Nat
          BY <1>1, BasicTypes
        <4>2. Len(commands) # 0 => 1 \in 1..Len(commands)
          BY <4>1
        <4>. QED  BY <2>1, <2>3, <4>2 DEF InTime, CommandsOK
      <3>3. Client = 0
        BY <2>3 DEF Client, Start
      <3>. QED  BY <2>1, <3>1, <3>2, <3>3
    <2>. QED  BY <2>2, <2>3
  <1>16. CurrentOK'
    BY <1>2, <1>12, <1>15 DEF CurrentOK
  <1>17. MessagesOK'
    <2>. SUFFICES ASSUME UpToDate, status = "loading",
                         NEW i \in 1..Len(messages'), ~messages'[i].refused
                  PROVE  /\ messages'[i].block < current
                         /\ \/ messages'[i].block < Len(got)
                            \/ messages'[i].data = BlockOf(wanted, messages'[i].block)
      BY <1>2, <1>12 DEF MessagesOK
    <2>1. ASSUME i \in 1..Len(messages), messages'[i] = messages[i]
          PROVE  /\ messages'[i].block < current
                 /\ \/ messages'[i].block < Len(got)
                    \/ messages'[i].data = BlockOf(wanted, messages'[i].block)
      <3>1. /\ download /\ messages[i].block < downloadCurrentBlock
            /\ \/ messages[i].block < Len(got)
               \/ messages[i].data = BlockOf(wanted, messages[i].block)
        BY <2>1 DEF InTime, MessagesOK
      <3>2. messages[i].block \in Nat
        <4>1. messages \in Seq(Message)
          BY <1>1, BasicTypes
        <4>2. messages[i] \in Message
          BY <2>1, <4>1
        <4>. QED  BY <4>2 DEF Message
      <3>. QED  BY <1>4, <1>12, <2>1, <3>1, <3>2
    <2>2. ASSUME xmit # current, messages'[i] = m
          PROVE  /\ messages'[i].block < current
                 /\ \/ messages'[i].block < Len(got)
                    \/ messages'[i].data = BlockOf(wanted, messages'[i].block)
      <3>1. xmit < current /\ m.block = xmit /\ m.data = blocks[Slot(xmit)]
        BY <1>4, <1>6, <1>8, <2>2
      <3>2. f = wanted /\ Client + Len(commands) = Len(got)
        BY <1>15
      <3>3. Client <= Len(got)
        <4>1. Len(commands) \in Nat /\ Len(got) \in Nat
          BY <1>1, BasicTypes
        <4>. QED  BY <1>1, <3>2, <4>1
      <3>4. CASE xmit < Client
        <4>1. Len(got) \in Nat
          BY <1>1, BasicTypes
        <4>. QED  BY <1>1, <1>4, <2>2, <3>1, <3>3, <3>4, <4>1
      <3>5. CASE ~(xmit < Client)
        <4>1. xmit \in Client..(current - 1)
          BY <1>1, <1>4, <3>1, <3>5
        <4>. QED  BY <1>10, <2>2, <3>1, <3>2, <4>1
      <3>. QED  BY <3>4, <3>5
    <2>3. CASE Send(m) /\ xmit # current
      <3>1. \/ i \in 1..Len(messages) /\ messages'[i] = messages[i]
            \/ messages'[i] = m
        <4>1. /\ Len(messages') = Len(messages) + 1 /\ Len(messages) \in Nat
              /\ \A j \in 1..Len(messages) : messages'[j] = messages[j]
              /\ messages'[Len(messages) + 1] = m
          BY <1>1, <1>6, <2>3, SendFacts
        <4>. QED  BY <4>1
      <3>. QED  BY <2>1, <2>2, <2>3, <3>1
    <2>4. CASE UNCHANGED messages
      BY <2>1, <2>4
    <2>. QED  BY <1>3, <2>3, <2>4
  <1>18. FileIntact' /\ ~dropped'
    BY <1>2 DEF InTime, FileIntact
  <1>. QED  BY <1>11, <1>13, <1>14, <1>16, <1>17, <1>18 DEF InTime
-----------------------------------------------------------------------------
(* The client and the network *)

\* A command appended to those under way.
LEMMA CommandFacts ==
    ASSUME TypeOK, NEW k \in ClientCommand, commands' = Append(commands, k)
    PROVE  /\ commands' \in Seq(ClientCommand)
           /\ Len(commands') = Len(commands) + 1 /\ Len(commands) \in Nat
           /\ \A i \in 1..Len(commands) : commands'[i] = commands[i]
           /\ commands'[Len(commands) + 1] = k
           /\ RequestUnderWay' <=> RequestUnderWay \/ k.name = "download"
  <1>1. commands \in Seq(ClientCommand)
    BY BasicTypes
  <1>. HIDE DEF ClientCommand
  <1>2. /\ commands' \in Seq(ClientCommand)
        /\ Len(commands') = Len(commands) + 1 /\ Len(commands) \in Nat
        /\ \A i \in 1..Len(commands) : commands'[i] = commands[i]
        /\ commands'[Len(commands) + 1] = k
    BY <1>1, AppendElements
  <1>3. ASSUME RequestUnderWay  PROVE  RequestUnderWay'
    <2>1. PICK i \in 1..Len(commands) : commands[i].name = "download"
      BY <1>3 DEF RequestUnderWay
    <2>2. i \in 1..Len(commands') /\ commands'[i].name = "download"
      BY <1>2, <2>1
    <2>. QED  BY <2>2 DEF RequestUnderWay
  <1>4. ASSUME k.name = "download"  PROVE  RequestUnderWay'
    <2>1. Len(commands) + 1 \in 1..Len(commands')
      BY <1>2
    <2>. QED  BY <1>2, <1>4, <2>1 DEF RequestUnderWay
  <1>5. ASSUME RequestUnderWay', k.name # "download"  PROVE  RequestUnderWay
    <2>1. PICK i \in 1..Len(commands') : commands'[i].name = "download"
      BY <1>5 DEF RequestUnderWay
    <2>2. i \in 1..Len(commands) /\ commands'[i] = commands[i]
      BY <1>2, <1>5, <2>1
    <2>. QED  BY <2>1, <2>2 DEF RequestUnderWay
  <1>. QED  BY <1>2, <1>3, <1>4, <1>5

\* A request or a stop goes behind the acknowledgements.
LEMMA CommandBehind ==
    ASSUME TypeOK, CommandsOK, NEW k \in ClientCommand, k.name # "nextdl",
           commands' = Append(commands, k),
           UNCHANGED <<download, downloadClientBlock, downloadCurrentBlock>>
    PROVE  CommandsOK'
  <1>1. /\ Len(commands') = Len(commands) + 1 /\ Len(commands) \in Nat
        /\ \A i \in 1..Len(commands) : commands'[i] = commands[i]
        /\ commands'[Len(commands) + 1] = k
    BY CommandFacts
  <1>2. ASSUME NEW i \in 1..Len(commands'), commands'[i].name = "nextdl"
        PROVE  i \in 1..Len(commands) /\ commands'[i] = commands[i]
    <2>1. i # Len(commands) + 1
      BY <1>1, <1>2
    <2>. QED  BY <1>1, <2>1
  <1>3. ASSUME NEW i \in 1..Len(commands'), NEW j \in 1..Len(commands'),
               i < j, commands'[j].name = "nextdl"
        PROVE  commands'[i].name = "nextdl"
    <2>1. /\ j \in 1..Len(commands) /\ commands[j].name = "nextdl"
      BY <1>2, <1>3
    <2>2. i \in 1..Len(commands) /\ commands'[i] = commands[i]
      BY <1>1, <1>3, <2>1
    <2>. QED  BY <1>3, <2>1, <2>2 DEF CommandsOK
  <1>4. ASSUME NEW i \in 1..Len(commands'), commands'[i].name = "nextdl"
        PROVE  /\ download
               /\ commands'[i].block = downloadClientBlock + i - 1
               /\ commands'[i].block < downloadCurrentBlock
    BY <1>2, <1>4 DEF CommandsOK
  <1>. QED  BY <1>3, <1>4 DEF CommandsOK

\* The client's request for a file keeps the invariant.
LEMMA AskKeepsInv ==
    ASSUME IInv, NEW f \in Files, CL_BeginDownload(f)
    PROVE  IInv'
  <1>. DEFINE k == Command("download", f, 0)
  <1>1. /\ TypeOK /\ requests' = requests + 1 /\ requests < MaxRequests
        /\ wanted' = f /\ status' = "loading" /\ got' = <<>>
        /\ commands' = Append(commands, k)
        /\ late' = (late \/ messages # <<>>)
        /\ UNCHANGED <<downloadName, download, downloadClientBlock,
             downloadCurrentBlock, downloadXmitBlock, downloadBlocks, dropped,
             messages>>
    BY DEF CL_BeginDownload, IInv, server
  <1>2. k \in ClientCommand /\ k.name = "download" /\ k.file = f
    BY DEF ClientCommand, Command
  <1>. HIDE DEF k
  <1>3. late' \in BOOLEAN /\ (~late' => ~late /\ messages = <<>>)
    <2>1. late \in BOOLEAN
      BY <1>1 DEF TypeOK
    <2>. QED  BY <1>1, <2>1, Zenon
  <1>4. /\ commands' \in Seq(ClientCommand)
        /\ Len(commands') = Len(commands) + 1 /\ Len(commands) \in Nat
        /\ commands'[Len(commands) + 1] = k
        /\ RequestUnderWay'
    BY <1>1, <1>2, CommandFacts
  <1>5. TypeOK'
    <2>1. requests' \in 0..MaxRequests
      BY <1>1, DownloadAssumption DEF TypeOK
    <2>2. got' \in Seq(Data)
      BY <1>1, EmptySeq
    <2>3. commands' \in Seq([name : {"download", "stopdl", "nextdl"},
                             file : Files \cup {NoFile}, block : Nat])
      BY <1>4 DEF ClientCommand
    <2>. QED  BY <1>1, <1>3, <2>1, <2>2, <2>3 DEF TypeOK
  <1>. SUFFICES ASSUME ~late', ~late, messages = <<>>, InTime  PROVE  InTime'
    BY <1>3, <1>5 DEF IInv
  <1>6. CommandsOK'
    BY <1>1, <1>2, CommandBehind DEF InTime
  <1>7. WindowOK'
    BY <1>1 DEF InTime, WindowOK
  <1>8. RequestOK'
    BY <1>1, <1>2, <1>4 DEF RequestOK
  <1>9. CurrentOK' /\ MessagesOK'
    BY <1>4 DEF CurrentOK, MessagesOK, UpToDate
  <1>10. FileIntact' /\ ~dropped'
    <2>1. FileIntact'
      BY <1>1 DEF FileIntact
    <2>. QED  BY <1>1, <2>1 DEF InTime
  <1>. QED  BY <1>6, <1>7, <1>8, <1>9, <1>10 DEF InTime

\* A client that gives its download up keeps the invariant.
LEMMA GiveUpKeepsInv ==
    ASSUME IInv, CL_StopDownload
    PROVE  IInv'
  <1>. DEFINE k == Command("stopdl", NoFile, 0)
  <1>1. /\ TypeOK /\ status' = "stopped"
        /\ commands' = Append(commands, k)
        /\ UNCHANGED <<downloadName, download, downloadClientBlock,
             downloadCurrentBlock, downloadXmitBlock, downloadBlocks, dropped,
             messages, wanted, got, requests, late>>
    BY DEF CL_StopDownload, IInv, server
  <1>2. k \in ClientCommand /\ k.name = "stopdl"
    BY DEF ClientCommand, Command
  <1>. HIDE DEF k
  <1>3. /\ commands' \in Seq(ClientCommand)
        /\ RequestUnderWay' => RequestUnderWay
    BY <1>1, <1>2, CommandFacts
  <1>4. TypeOK'
    BY <1>1, <1>3 DEF TypeOK, ClientCommand
  <1>. SUFFICES ASSUME ~late, InTime  PROVE  InTime'
    BY <1>1, <1>4 DEF IInv
  <1>5. CommandsOK'
    BY <1>1, <1>2, CommandBehind DEF InTime
  <1>6. WindowOK' /\ RequestOK'
    BY <1>1, <1>3 DEF InTime, WindowOK, RequestOK
  <1>7. CurrentOK' /\ MessagesOK'
    BY <1>1 DEF CurrentOK, MessagesOK, UpToDate
  <1>8. FileIntact' /\ ~dropped'
    BY <1>1 DEF InTime, FileIntact
  <1>. QED  BY <1>5, <1>6, <1>7, <1>8 DEF InTime

\* A message is gone: what is said of all of them holds of those left.
LEMMA MessageGone ==
    ASSUME TypeOK, messages # <<>>, messages' = Tail(messages)
    PROVE  /\ messages[1] = Head(messages) /\ messages[1] \in Message
           /\ 1 \in 1..Len(messages)
           /\ messages' \in Seq(Message)
           /\ \A i \in 1..Len(messages') :
                 i + 1 \in 1..Len(messages) /\ messages'[i] = messages[i + 1]
  <1>1. messages \in Seq(Message)
    BY BasicTypes
  <1>. HIDE DEF Message
  <1>2. /\ Len(messages) \in Nat \ {0} /\ Len(messages') = Len(messages) - 1
        /\ messages[1] = Head(messages) /\ messages[1] \in Message
        /\ 1 \in 1..Len(messages) /\ messages' \in Seq(Message)
        /\ \A i \in 1..(Len(messages) - 1) : messages'[i] = messages[i + 1]
    BY <1>1, TailElements
  <1>. QED  BY <1>2

\* A lost message keeps the invariant: what is under way is still in order.
LEMMA LoseKeepsInv ==
    ASSUME IInv, Lose
    PROVE  IInv'
  <1>1. /\ TypeOK /\ messages # <<>> /\ messages' = Tail(messages)
        /\ UNCHANGED <<downloadName, download, downloadClientBlock,
             downloadCurrentBlock, downloadXmitBlock, downloadBlocks, dropped,
             commands, wanted, status, got, requests, late>>
    BY DEF Lose, IInv, server, client
  <1>2. /\ messages' \in Seq(Message)
        /\ \A i \in 1..Len(messages') :
              i + 1 \in 1..Len(messages) /\ messages'[i] = messages[i + 1]
    BY <1>1, MessageGone
  <1>3. TypeOK'
    BY <1>1, <1>2 DEF TypeOK, Message
  <1>. SUFFICES ASSUME ~late, InTime  PROVE  InTime'
    BY <1>1, <1>3 DEF IInv
  <1>4. RequestUnderWay' = RequestUnderWay /\ UpToDate' = UpToDate
    BY <1>1 DEF RequestUnderWay, UpToDate
  <1>5. CommandsOK' /\ WindowOK' /\ FileIntact' /\ ~dropped'
    BY <1>1 DEF InTime, CommandsOK, WindowOK, FileIntact
  <1>6. RequestOK' /\ CurrentOK'
    BY <1>1, <1>4 DEF InTime, RequestOK, CurrentOK
  <1>7. MessagesOK'
    BY <1>1, <1>2, <1>4 DEF InTime, MessagesOK
  <1>. QED  BY <1>5, <1>6, <1>7 DEF InTime

\* The client takes the block it lacks next, and what it acknowledges is what
\* the server waits for.
LEMMA ParseKeepsInv ==
    ASSUME IInv, CL_ParseDownload
    PROVE  IInv'
  <1>. DEFINE m == messages[1]
              k == Command("nextdl", NoFile, m.block)
  <1>1. /\ TypeOK /\ messages # <<>> /\ messages' = Tail(messages)
        /\ UNCHANGED <<downloadName, download, downloadClientBlock,
             downloadCurrentBlock, downloadXmitBlock, downloadBlocks, dropped,
             wanted, requests, late>>
    BY DEF CL_ParseDownload, IInv, server
  <1>2. /\ m = Head(messages) /\ m \in Message /\ 1 \in 1..Len(messages)
        /\ messages' \in Seq(Message)
        /\ \A i \in 1..Len(messages') :
              i + 1 \in 1..Len(messages) /\ messages'[i] = messages[i + 1]
    BY <1>1, MessageGone
  <1>3. \/ UNCHANGED <<status, got, commands>>
        \/ /\ status = "loading" /\ m.refused
           /\ status' = "refused"
           /\ UNCHANGED <<got, commands>>
        \/ /\ status = "loading" /\ ~m.refused /\ m.block = Len(got)
           /\ commands' = Append(commands, k)
           /\ IF m.data = Eof
              THEN status' = "complete" /\ UNCHANGED got
              ELSE got' = Append(got, m.data) /\ UNCHANGED status
    BY <1>2 DEF CL_ParseDownload
  <1>4. /\ m.block \in Nat /\ m.data \in Data
        /\ k \in ClientCommand /\ k.name = "nextdl" /\ k.block = m.block
    BY <1>2 DEF Message, ClientCommand, Command
  <1>5. /\ got \in Seq(Data) /\ Len(got) \in Nat
        /\ commands \in Seq(ClientCommand) /\ Len(commands) \in Nat
    <2>1. got \in Seq(Data) /\ Len(got) \in Nat /\ commands \in Seq(ClientCommand)
      BY <1>1, BasicTypes
    <2>. HIDE DEF ClientCommand
    <2>. QED  BY <2>1
  <1>. HIDE DEF k, m
  <1>6. TypeOK'
    <2>1. commands' \in Seq(ClientCommand)
      BY <1>1, <1>3, <1>4, <1>5, CommandFacts
    <2>2. got' \in Seq(Data)
      BY <1>3, <1>4, <1>5, AppendElements
    <2>3. status' \in {"none", "loading", "complete", "refused", "stopped"}
      BY <1>1, <1>3 DEF TypeOK
    <2>. QED  BY <1>1, <1>2, <2>1, <2>2, <2>3 DEF TypeOK, Message, ClientCommand
  <1>. SUFFICES ASSUME ~late, InTime  PROVE  InTime'
    BY <1>1, <1>6 DEF IInv
  <1>7. WindowOK' /\ ~dropped'
    BY <1>1 DEF InTime, WindowOK
  <1>8. ~RequestUnderWay
    BY <1>1 DEF InTime, RequestOK
  <1>9. CASE UNCHANGED <<status, got, commands>>
    <2>1. RequestUnderWay' = RequestUnderWay /\ UpToDate' = UpToDate
      BY <1>9 DEF RequestUnderWay, UpToDate
    <2>2. CommandsOK' /\ FileIntact'
      BY <1>1, <1>9 DEF InTime, CommandsOK, FileIntact
    <2>3. RequestOK'
      BY <1>8, <2>1 DEF RequestOK
    <2>4. CurrentOK'
      BY <1>1, <1>9, <2>1 DEF InTime, CurrentOK
    <2>5. MessagesOK'
      BY <1>1, <1>2, <1>9, <2>1 DEF InTime, MessagesOK
    <2>. QED  BY <1>7, <2>2, <2>3, <2>4, <2>5 DEF InTime
  <1>10. CASE /\ status = "loading" /\ status' = "refused"
              /\ UNCHANGED <<got, commands>>
    <2>1. RequestUnderWay' = RequestUnderWay /\ UpToDate' = UpToDate
      BY <1>10 DEF RequestUnderWay, UpToDate
    <2>2. CommandsOK' /\ FileIntact'
      BY <1>1, <1>10 DEF InTime, CommandsOK, FileIntact
    <2>3. RequestOK' /\ MessagesOK'
      BY <1>8, <1>10, <2>1 DEF RequestOK, MessagesOK
    <2>4. CurrentOK'
      BY <1>1, <1>10, <2>1 DEF InTime, CurrentOK
    <2>. QED  BY <1>7, <2>2, <2>3, <2>4 DEF InTime
  <1>11. CASE /\ status = "loading" /\ ~m.refused /\ m.block = Len(got)
              /\ commands' = Append(commands, k)
              /\ IF m.data = Eof
                 THEN status' = "complete" /\ UNCHANGED got
                 ELSE got' = Append(got, m.data) /\ UNCHANGED status
    <2>1. UpToDate
      BY <1>8, <1>11 DEF UpToDate
    <2>2. /\ download /\ m.block < downloadCurrentBlock
          /\ m.data = BlockOf(wanted, m.block)
      <3>1. m.block < Len(got) \/ m.data = BlockOf(wanted, m.block)
        BY <1>2, <1>11, <2>1 DEF InTime, MessagesOK, m
      <3>2. ~(m.block < Len(got))
        BY <1>5, <1>11
      <3>3. download /\ m.block < downloadCurrentBlock
        BY <1>2, <1>11, <2>1 DEF InTime, MessagesOK, m
      <3>. QED  BY <3>1, <3>2, <3>3
    <2>3. /\ downloadName = wanted /\ wanted \in Files
          /\ downloadClientBlock + Len(commands) = Len(got)
          /\ downloadCurrentBlock <= Blocks[wanted] + 1
          /\ downloadClientBlock \in Nat /\ downloadCurrentBlock \in Nat
          /\ \A i \in 1..Len(commands) : commands[i].name = "nextdl"
      BY <1>1, <1>11, <2>1, <2>2, BasicTypes DEF InTime, CurrentOK, WindowOK
    <2>4. /\ Blocks[wanted] \in Nat /\ m.block <= Blocks[wanted]
          /\ m.data = Eof <=> m.block = Blocks[wanted]
      <3>1. /\ Blocks[wanted] \in Nat
            /\ BlockOf(wanted, m.block) = Eof <=> m.block >= Blocks[wanted]
        BY <1>4, <2>3, BlockTypes
      <3>. QED  BY <1>4, <2>2, <2>3, <3>1
    <2>5. /\ Len(commands') = Len(commands) + 1
          /\ \A i \in 1..Len(commands) : commands'[i] = commands[i]
          /\ commands'[Len(commands) + 1] = k
          /\ ~RequestUnderWay'
      BY <1>1, <1>4, <1>8, <1>11, CommandFacts
    <2>6. ASSUME NEW i \in 1..Len(commands')
          PROVE  /\ commands'[i].name = "nextdl"
                 /\ commands'[i].block = downloadClientBlock + i - 1
                 /\ commands'[i].block < downloadCurrentBlock
      <3>1. CASE i = Len(commands) + 1
        <4>1. commands'[i] = k
          BY <2>5, <3>1
        <4>2. k.block = downloadClientBlock + i - 1
          BY <1>4, <1>5, <1>11, <2>3, <3>1
        <4>. QED  BY <1>4, <2>2, <4>1, <4>2
      <3>2. CASE i # Len(commands) + 1
        <4>1. i \in 1..Len(commands) /\ commands'[i] = commands[i]
          BY <1>5, <2>5, <3>2
        <4>. QED  BY <2>3, <4>1 DEF InTime, CommandsOK
      <3>. QED  BY <3>1, <3>2
    <2>7. CommandsOK'
      BY <1>1, <2>2, <2>6 DEF CommandsOK
    <2>8. RequestOK'
      BY <2>5 DEF RequestOK
    <2>9. CASE m.data = Eof
      <3>1. status' = "complete" /\ got' = got /\ Len(got) = Blocks[wanted]
        BY <1>11, <2>4, <2>9
      <3>2. CurrentOK'
        <4>1. downloadClientBlock' + Len(commands') = Len(got') + 1
          BY <1>1, <1>5, <2>3, <2>5, <3>1
        <4>. QED  BY <1>1, <2>2, <2>3, <2>6, <3>1, <4>1 DEF CurrentOK
      <3>3. MessagesOK'
        BY <3>1 DEF MessagesOK
      <3>4. FileIntact'
        BY <1>1, <3>1 DEF InTime, FileIntact
      <3>. QED  BY <1>7, <2>7, <2>8, <3>2, <3>3, <3>4 DEF InTime
    <2>10. CASE m.data # Eof
      <3>1. /\ status' = "loading" /\ got' = Append(got, m.data)
            /\ Len(got) < Blocks[wanted]
        BY <1>4, <1>5, <1>11, <2>4, <2>10
      <3>2. /\ Len(got') = Len(got) + 1
            /\ \A i \in 1..Len(got) : got'[i] = got[i]
            /\ got'[Len(got) + 1] = m.data
        BY <1>4, <1>5, <3>1, AppendElements
      <3>3. CurrentOK'
        <4>1. downloadClientBlock' + Len(commands') = Len(got') + 0
          BY <1>1, <1>5, <2>3, <2>5, <3>2
        <4>. QED  BY <1>1, <2>2, <2>3, <2>6, <3>1, <4>1 DEF CurrentOK
      <3>4. MessagesOK'
        <4>1. ASSUME NEW i \in 1..Len(messages'), ~messages'[i].refused
              PROVE  /\ messages'[i].block < downloadCurrentBlock
                     /\ \/ messages'[i].block < Len(got')
                        \/ messages'[i].data = BlockOf(wanted, messages'[i].block)
          <5>1. messages'[i] = messages[i + 1] /\ i + 1 \in 1..Len(messages)
            BY <1>2
          <5>2. /\ messages[i + 1].block < downloadCurrentBlock
                /\ \/ messages[i + 1].block < Len(got)
                   \/ messages[i + 1].data = BlockOf(wanted, messages[i + 1].block)
            BY <1>11, <2>1, <4>1, <5>1 DEF InTime, MessagesOK
          <5>3. messages'[i] \in Message
            <6>. HIDE DEF Message
            <6>. QED  BY <1>2
          <5>4. messages'[i].block \in Nat
            BY <5>3 DEF Message
          <5>. QED  BY <1>5, <3>2, <5>1, <5>2, <5>4
        <4>. QED  BY <1>1, <2>2, <4>1 DEF MessagesOK
      <3>5. FileIntact'
        <4>1. Len(got') <= Blocks[wanted]
          BY <1>5, <2>4, <3>1, <3>2
        <4>2. ASSUME NEW i \in 1..Len(got')
              PROVE  got'[i] = BlockOf(wanted, i - 1)
          <5>1. CASE i = Len(got) + 1
            <6>1. i - 1 = m.block
              BY <1>5, <1>11, <5>1
            <6>. QED  BY <2>2, <3>2, <5>1, <6>1
          <5>2. CASE i # Len(got) + 1
            <6>1. i \in 1..Len(got)
              BY <1>5, <3>2, <5>2
            <6>. QED  BY <3>2, <6>1 DEF InTime, FileIntact
          <5>. QED  BY <5>1, <5>2
        <4>. QED  BY <1>1, <3>1, <4>1, <4>2 DEF FileIntact
      <3>. QED  BY <1>7, <2>7, <2>8, <3>3, <3>4, <3>5 DEF InTime
    <2>. QED  BY <2>9, <2>10
  <1>. QED  BY <1>3, <1>9, <1>10, <1>11

-----------------------------------------------------------------------------
(* The theorems *)

\* Before the first request the invariant holds.
LEMMA InitOK == Init => IInv
  <1>. SUFFICES ASSUME Init  PROVE  IInv
    OBVIOUS
  <1>1. /\ messages = <<>> /\ commands = <<>> /\ got = <<>> /\ ~download
        /\ status = "none" /\ downloadName = NoFile /\ ~late /\ ~dropped
        /\ download \in BOOLEAN /\ dropped \in BOOLEAN /\ late \in BOOLEAN
    BY DEF Init
  <1>2. TypeOK
    <2>1. downloadBlocks \in [0..(MAX_DOWNLOAD_WINDOW - 1) -> Data]
      BY EofType DEF Init
    <2>2. /\ messages \in Seq([block : Nat, refused : BOOLEAN, data : Data])
          /\ commands \in Seq([name : {"download", "stopdl", "nextdl"},
                               file : Files \cup {NoFile}, block : Nat])
          /\ got \in Seq(Data)
      BY <1>1, EmptySeq
    <2>3. /\ requests \in 0..MaxRequests
          /\ downloadClientBlock = 0 /\ downloadCurrentBlock = 0
          /\ downloadXmitBlock = 0 /\ wanted = NoFile
      BY DownloadAssumption DEF Init
    <2>. QED  BY <1>1, <2>1, <2>2, <2>3 DEF TypeOK
  <1>3. Len(commands) = 0 /\ Len(messages) = 0 /\ Len(got) = 0
    BY <1>1
  <1>4. ~RequestUnderWay
    BY <1>3 DEF RequestUnderWay
  <1>5. CommandsOK /\ WindowOK /\ RequestOK
    BY <1>1, <1>3, <1>4 DEF CommandsOK, WindowOK, RequestOK
  <1>6. CurrentOK /\ MessagesOK /\ FileIntact
    BY <1>1, <1>3 DEF CurrentOK, MessagesOK, FileIntact
  <1>. QED  BY <1>1, <1>2, <1>5, <1>6 DEF IInv, InTime

\* A step that changes nothing keeps the invariant.
LEMMA StutterOK ==
    ASSUME IInv, UNCHANGED vars
    PROVE  IInv'
  <1>1. UNCHANGED <<downloadName, download, downloadClientBlock,
          downloadCurrentBlock, downloadXmitBlock, downloadBlocks, dropped,
          messages, commands, wanted, status, got, requests, late>>
    BY DEF vars, server, client
  <1>2. TypeOK'
    BY <1>1 DEF IInv, TypeOK
  <1>3. RequestUnderWay' = RequestUnderWay /\ UpToDate' = UpToDate
    BY <1>1 DEF RequestUnderWay, UpToDate
  <1>4. ASSUME ~late  PROVE  InTime'
    <2>1. CommandsOK' /\ WindowOK' /\ FileIntact' /\ ~dropped'
      BY <1>1, <1>4 DEF IInv, InTime, CommandsOK, WindowOK, FileIntact
    <2>2. RequestOK' /\ CurrentOK' /\ MessagesOK'
      BY <1>1, <1>3, <1>4 DEF IInv, InTime, RequestOK, CurrentOK, MessagesOK
    <2>. QED  BY <2>1, <2>2 DEF InTime
  <1>. QED  BY <1>1, <1>2, <1>4 DEF IInv

\* Every step keeps the invariant; one case per action.
LEMMA InductiveOK == IInv /\ [Next]_vars => IInv'
  <1>. SUFFICES ASSUME IInv, [Next]_vars  PROVE  IInv'
    OBVIOUS
  <1>1. CASE SV_ExecuteClientCommand
    BY <1>1, BeginKeepsInv, StopKeepsInv, NextKeepsInv
       DEF SV_ExecuteClientCommand
  <1>2. CASE SV_WriteDownloadToClient
    BY <1>2, RefuseKeepsInv, ReadKeepsInv DEF SV_WriteDownloadToClient
  <1>3. ASSUME NEW f \in Files, CL_BeginDownload(f)  PROVE  IInv'
    BY <1>3, AskKeepsInv
  <1>4. CASE CL_ParseDownload
    BY <1>4, ParseKeepsInv
  <1>5. CASE CL_StopDownload
    BY <1>5, GiveUpKeepsInv
  <1>6. CASE Lose
    BY <1>6, LoseKeepsInv
  <1>7. CASE UNCHANGED vars
    BY <1>7, StutterOK
  <1>. QED  BY <1>1, <1>2, <1>3, <1>4, <1>5, <1>6, <1>7 DEF Next

\* The variables of the server and the client keep their types.
THEOREM TypeCorrect == Spec => []TypeOK
  <1>1. IInv => TypeOK
    BY DEF IInv
  <1>. QED  BY <1>1, InitOK, InductiveOK, PTL DEF Spec

\* While downloads do not overlap, what the client has is a beginning of the
\* file it asked for, and all of it when it was told so: for files of any
\* length, any window, loss, resending and giving up.
THEOREM FilesArrive == Spec => []FileIntact
  <1>1. IInv => FileIntact
    BY DEF IInv, InTime, FileIntact
  <1>. QED  BY <1>1, InitOK, InductiveOK, PTL DEF Spec

\* And no client is dropped for what it acknowledges.
THEOREM AcksAreExpected == Spec => []AcksExpectedInTime
  <1>1. IInv => AcksExpectedInTime
    BY DEF IInv, InTime, AcksExpectedInTime
  <1>. QED  BY <1>1, InitOK, InductiveOK, PTL DEF Spec
=============================================================================
