---------------------------- MODULE Download ----------------------------
(***************************************************************************)
(* Downloading files from the server to one client.                        *)
(*                                                                         *)
(* The server reads a file into a window of MAX_DOWNLOAD_WINDOW blocks and *)
(* sends them one per message; the client acknowledges each with a nextdl  *)
(* command, and an empty block ends the file.  When the whole window was   *)
(* sent and a second passes without an acknowledgement, it is sent again   *)
(* from the first unacknowledged block on.                                 *)
(*                                                                         *)
(* Blocks travel over what MessageChannel promises, in order or not at     *)
(* all; client commands arrive all, in order.  A block is a record of the  *)
(* file and its place in it; the empty block is Eof.                       *)
(***************************************************************************)
EXTENDS Integers, Sequences

CONSTANTS
    Files,
    Blocks,             \* [Files -> Nat], blocks in each file
    Refused,            \* files the server does not hand out
    NoFile,
    MAX_DOWNLOAD_WINDOW,
    CanStop,            \* whether the client gives downloads up
    MaxRequests,        \* bound: downloads asked for
    MaxUnderWay         \* bound: messages under way

ASSUME DownloadAssumption ==
    /\ Blocks \in [Files -> Nat]
    /\ Refused \subseteq Files
    /\ NoFile \notin Files
    /\ MAX_DOWNLOAD_WINDOW \in Nat \ {0}
    /\ CanStop \in BOOLEAN
    /\ MaxRequests \in Nat
    /\ MaxUnderWay \in Nat \ {0}

VARIABLES
    downloadName,           \* NoFile: the empty string
    download,               \* the file is open
    downloadClientBlock, downloadCurrentBlock, downloadXmitBlock,
    downloadBlocks,         \* the window; a size of zero is Eof
    dropped,                \* SV_DropClient was called
    messages,               \* under way to the client
    commands,               \* under way to the server
    wanted,                 \* external: the file the client asked for last
    status,                 \* external: what became of it
    got,                    \* external: the blocks it has of that file
    requests,               \* history: downloads asked for
    late                    \* history: a block of one download was under way
                            \* after the client had asked for the next

server == <<downloadName, download, downloadClientBlock, downloadCurrentBlock,
            downloadXmitBlock, downloadBlocks, dropped>>
client == <<wanted, status, got, requests>>
vars == <<server, messages, commands, client, late>>

-----------------------------------------------------------------------------
(* Data *)

Eof == [file |-> NoFile, block |-> 0]

BlockOf(f, b) ==
    IF b < Blocks[f] THEN [file |-> f, block |-> b] ELSE Eof

Data == {Eof} \cup UNION {{BlockOf(f, b) : b \in 0..Blocks[f]} : f \in Files}

Slot(b) == b % MAX_DOWNLOAD_WINDOW

\* What a message says: the number of a block and the block, or a refusal.
BlockMessage(b, data) == [block |-> b, refused |-> FALSE, data |-> data]
RefusalMessage == [block |-> 0, refused |-> TRUE, data |-> Eof]

Command(name, file, block) == [name |-> name, file |-> file, block |-> block]

-----------------------------------------------------------------------------
(* The server executes the next client command *)

\* Mutation: the file is left open.
CloseNameOnly ==
    /\ downloadName' = NoFile
    /\ UNCHANGED download

SV_CloseDownload ==
    /\ downloadName' = NoFile
    /\ download' = FALSE

Execute(name) ==
    /\ ~dropped
    /\ commands # <<>>
    /\ Head(commands).name = name
    /\ commands' = Tail(commands)
    /\ UNCHANGED <<downloadCurrentBlock, downloadXmitBlock, downloadBlocks,
                   messages, client, late>>

SV_BeginDownload_f ==
    /\ Execute("download")
    /\ downloadName' = Head(commands).file
    /\ download' = FALSE
    /\ UNCHANGED <<downloadClientBlock, dropped>>

SV_StopDownload_f ==
    /\ Execute("stopdl")
    /\ SV_CloseDownload
    /\ UNCHANGED <<downloadClientBlock, dropped>>

\* Mutation: the end of the file is looked for in the next block.
NextDownloadEarly(b) ==
    \/ /\ b = downloadClientBlock
       /\ downloadBlocks[Slot(b + 1)] = Eof
       /\ SV_CloseDownload
       /\ UNCHANGED <<downloadClientBlock, dropped>>
    \/ /\ b = downloadClientBlock
       /\ downloadBlocks[Slot(b + 1)] # Eof
       /\ downloadClientBlock' = downloadClientBlock + 1
       /\ UNCHANGED <<downloadName, download, dropped>>
    \/ /\ b # downloadClientBlock
       /\ dropped' = TRUE
       /\ SV_CloseDownload
       /\ UNCHANGED downloadClientBlock

NextDownload(b) ==
    \/ /\ b = downloadClientBlock
       /\ downloadBlocks[Slot(b)] = Eof
       /\ SV_CloseDownload
       /\ UNCHANGED <<downloadClientBlock, dropped>>
    \/ /\ b = downloadClientBlock
       /\ downloadBlocks[Slot(b)] # Eof
       /\ downloadClientBlock' = downloadClientBlock + 1
       /\ UNCHANGED <<downloadName, download, dropped>>
    \/ /\ b # downloadClientBlock
       /\ dropped' = TRUE
       /\ SV_CloseDownload
       /\ UNCHANGED downloadClientBlock

SV_NextDownload_f ==
    /\ Execute("nextdl")
    /\ NextDownload(Head(commands).block)

-----------------------------------------------------------------------------
(* The server sends a block *)

\* The counters a call works on: an unopened file starts them at zero.
Start(x) == IF download THEN x ELSE 0
Client == Start(downloadClientBlock)

\* Mutation: one block more is read than the window holds.
ReadLimitOver == Client + MAX_DOWNLOAD_WINDOW + 1

ReadLimit == Client + MAX_DOWNLOAD_WINDOW

\* Blocks up to the end of the window or of the file, the empty one included.
ReadTo ==
    LET last == Blocks[downloadName] + 1
    IN  IF ReadLimit < last THEN ReadLimit ELSE last

\* The window after reading from block first up to, not including, block last.
Filled(f, first, last) ==
    [i \in DOMAIN downloadBlocks |->
        LET read == {b \in first..last-1 : Slot(b) = i}
        IN  IF read = {} THEN downloadBlocks[i]
            ELSE BlockOf(f, CHOOSE b \in read : \A c \in read : c <= b)]

\* A request of the client the server has not executed yet.
RequestUnderWay ==
    \E i \in 1..Len(commands) : commands[i].name = "download"

Send(m) ==
    /\ messages' = Append(messages, m)
    /\ late' = (late \/ RequestUnderWay)

Refuse ==
    /\ ~download /\ downloadName \in Refused
    /\ Send(RefusalMessage)
    /\ downloadName' = NoFile
    /\ UNCHANGED <<download, downloadClientBlock, downloadCurrentBlock,
                   downloadXmitBlock, downloadBlocks>>

\* Mutation: the window is never sent again.
ResendNever(xmit, current, resend) == xmit

\* The block to send: the next of the window or, when all were sent and the
\* second is over, the first unacknowledged.
BlockToSend(xmit, current, resend) ==
    IF xmit = current /\ resend THEN Client ELSE xmit

\* Open the file unless it is open, read, then send a block if there is one.
\* resend: more than a second since the last block or acknowledgement.
ReadAndSend(resend) ==
    LET first   == Start(downloadCurrentBlock)
        current == IF ReadTo > first THEN ReadTo ELSE first
        xmit    == BlockToSend(Start(downloadXmitBlock), current, resend)
        blocks  == Filled(downloadName, first, current)
    IN  /\ download \/ downloadName \notin Refused
        /\ download' = TRUE
        /\ downloadClientBlock' = Client
        /\ downloadCurrentBlock' = current
        /\ downloadBlocks' = blocks
        /\ \/ /\ xmit # current /\ Client # current
              /\ Send(BlockMessage(xmit, blocks[Slot(xmit)]))
              /\ downloadXmitBlock' = xmit + 1
           \/ /\ xmit = current \/ Client = current
              /\ downloadXmitBlock' = Start(downloadXmitBlock)
              /\ UNCHANGED <<messages, late>>
        /\ UNCHANGED downloadName

SV_WriteDownloadToClient ==
    /\ ~dropped
    /\ downloadName # NoFile
    /\ Len(messages) < MaxUnderWay
    /\ Refuse \/ \E resend \in BOOLEAN : ReadAndSend(resend)
    /\ UNCHANGED <<dropped, commands, client>>

-----------------------------------------------------------------------------
(* External: the client and the network *)

\* The client asks for a file, one after the other.
CL_BeginDownload(f) ==
    /\ ~dropped
    /\ status # "loading"
    /\ requests < MaxRequests
    /\ requests' = requests + 1
    /\ wanted' = f
    /\ status' = "loading"
    /\ got' = <<>>
    /\ commands' = Append(commands, Command("download", f, 0))
    /\ late' = (late \/ messages # <<>>)
    /\ UNCHANGED <<server, messages>>

\* The next message arrives.  The client takes the block it lacks next, and
\* acknowledges it.
CL_ParseDownload ==
    /\ messages # <<>>
    /\ messages' = Tail(messages)
    /\ LET m == Head(messages)
       IN  \/ /\ status # "loading" \/ (~m.refused /\ m.block # Len(got))
              /\ UNCHANGED <<status, got, commands>>
           \/ /\ status = "loading" /\ m.refused
              /\ status' = "refused"
              /\ UNCHANGED <<got, commands>>
           \/ /\ status = "loading" /\ ~m.refused /\ m.block = Len(got)
              /\ commands' = Append(commands, Command("nextdl", NoFile, m.block))
              /\ IF m.data = Eof
                 THEN status' = "complete" /\ UNCHANGED got
                 ELSE got' = Append(got, m.data) /\ UNCHANGED status
    /\ UNCHANGED <<server, wanted, requests, late>>

CL_StopDownload ==
    /\ CanStop
    /\ status = "loading"
    /\ status' = "stopped"
    /\ commands' = Append(commands, Command("stopdl", NoFile, 0))
    /\ UNCHANGED <<server, messages, wanted, got, requests, late>>

Lose ==
    /\ messages # <<>>
    /\ messages' = Tail(messages)
    /\ UNCHANGED <<server, commands, client, late>>

-----------------------------------------------------------------------------
Init ==
    /\ downloadName = NoFile
    /\ download = FALSE
    /\ downloadClientBlock = 0
    /\ downloadCurrentBlock = 0
    /\ downloadXmitBlock = 0
    /\ downloadBlocks = [i \in 0..MAX_DOWNLOAD_WINDOW-1 |-> Eof]
    /\ dropped = FALSE
    /\ messages = <<>>
    /\ commands = <<>>
    /\ wanted = NoFile
    /\ status = "none"
    /\ got = <<>>
    /\ requests = 0
    /\ late = FALSE

SV_ExecuteClientCommand ==
    SV_BeginDownload_f \/ SV_StopDownload_f \/ SV_NextDownload_f

Next ==
    \/ SV_ExecuteClientCommand
    \/ SV_WriteDownloadToClient
    \/ \E f \in Files : CL_BeginDownload(f)
    \/ CL_ParseDownload
    \/ CL_StopDownload
    \/ Lose

Spec == Init /\ [][Next]_vars

\* A message with block b arrives.
Arrives(b) ==
    /\ messages # <<>>
    /\ Head(messages).block = b
    /\ CL_ParseDownload

\* SV_SendDownloadMessages runs in every idle slice, time passes, commands
\* arrive, and a block that is sent again and again arrives.
Fairness ==
    /\ WF_vars(SV_ExecuteClientCommand)
    /\ WF_vars(SV_WriteDownloadToClient)
    /\ WF_vars(CL_ParseDownload)
    /\ \A f \in Files : \A b \in 0..Blocks[f] : SF_vars(Arrives(b))

FairSpec == Spec /\ Fairness

-----------------------------------------------------------------------------
(* Properties *)

\* Types; while downloads do not overlap no block is sent that was not read.
TypeOK ==
    /\ downloadName \in Files \cup {NoFile}
    /\ download \in BOOLEAN
    /\ download => downloadName # NoFile
    /\ downloadClientBlock \in Nat
    /\ downloadCurrentBlock \in Nat
    /\ downloadXmitBlock \in Nat
    /\ ~late => downloadXmitBlock <= downloadCurrentBlock
    /\ downloadBlocks \in [0..MAX_DOWNLOAD_WINDOW-1 -> Data]
    /\ dropped \in BOOLEAN
    /\ messages \in Seq([block : Nat, refused : BOOLEAN, data : Data])
    /\ commands \in Seq([name : {"download", "stopdl", "nextdl"},
                         file : Files \cup {NoFile}, block : Nat])
    /\ wanted \in Files \cup {NoFile}
    /\ status \in {"none", "loading", "complete", "refused", "stopped"}
    /\ got \in Seq(Data)
    /\ requests \in 0..MaxRequests
    /\ late \in BOOLEAN

\* What the client has is a beginning of the file it asked for, and all of it
\* when it was told so, through any loss, resending and late acknowledgement,
\* and whatever the client had asked for and stopped before.
FileIntact ==
    ~late =>
        /\ got # <<>> => Len(got) <= Blocks[wanted]
        /\ \A i \in 1..Len(got) : got[i] = BlockOf(wanted, i - 1)
        /\ status = "complete" => Len(got) = Blocks[wanted]

\* "The argument will be the last acknowledged block from the client, it
\* should be the same as cl->downloadClientBlock" (comment of
\* SV_NextDownload_f): no client that acknowledges what it gets is dropped
\* for a broken download.  A block of one file that is resent to a client
\* that asks for the next carries no name; the client takes it for the next's.
AcksExpected == ~dropped

\* The same while downloads do not overlap: resent blocks and late
\* acknowledgements of SV_WriteDownloadToClient and SV_NextDownload_f agree.
AcksExpectedInTime == ~late => ~dropped

\* A download of a file the server hands out ends: no block is waited for
\* that is not sent again.  (A refusal is sent once; lost, it is not repeated.)
DownloadEnds ==
    status = "loading" /\ wanted \notin Refused ~> status # "loading" \/ late
=============================================================================
