------------------------------- MODULE Bans -------------------------------
(***************************************************************************)
(* The list of bans and of exceptions from them, the commands that change  *)
(* it, and the file it is kept in over restarts of the server.             *)
(*                                                                         *)
(* An address is a sequence of bits of one of two families; an entry is an *)
(* address and how many of its bits count.  A command names an address or  *)
(* a client's slot, which comes to the client's address.                   *)
(*                                                                         *)
(* The file is written anew by every change.  It may not be opened, and    *)
(* the server may die while it is written.  Files an operator has edited   *)
(* are left out.                                                           *)
(***************************************************************************)
EXTENDS Integers, Sequences, FiniteSets

CONSTANTS
    Bits,             \* family |-> bits of an address: 32 and 128
    SERVER_MAXBANS,
    MaxFaults         \* bound: writes that fail

ASSUME BansAssumption ==
    /\ \A family \in DOMAIN Bits : Bits[family] \in Nat \ {0}
    /\ SERVER_MAXBANS \in Nat \ {0}
    /\ MaxFaults \in Nat

VARIABLES
    server,           \* "down", "starting", "idle", "running"
    serverBans,       \* the first serverBansCount entries
    file,             \* the entries in sv_banFile
    faults            \* history: writes that have failed

vars == <<server, serverBans, file, faults>>

-----------------------------------------------------------------------------
(* Addresses and entries *)

Address ==
    UNION {[type : {family}, ip : [1..Bits[family] -> {0, 1}]] : family \in DOMAIN Bits}

\* Mutation: a subnet is taken as it is given.
MaskAsGiven(ip, mask) == mask

\* A subnet that is none is the whole address.
Mask(ip, mask) == IF mask \in 1..Bits[ip.type] THEN mask ELSE Bits[ip.type]

\* The masks an operator may give; 0 stands for all that are none.
Masks(ip) == 0..Bits[ip.type]

Entry(ip, mask, isexception) ==
    [ip |-> ip, subnet |-> Mask(ip, mask), isexception |-> isexception]

Entries ==
    UNION {[ip : {a}, subnet : 1..Bits[a.type], isexception : BOOLEAN] : a \in Address}

\* Equal in the first mask bits.
NET_CompareBaseAdrMask(a, b, mask) ==
    /\ a.type = b.type
    /\ SubSeq(a.ip, 1, mask) = SubSeq(b.ip, 1, mask)

\* An address of one of these entries, exceptions or not.
Listed(bans, from, isexception) ==
    \E i \in DOMAIN bans :
        /\ bans[i].isexception = isexception
        /\ NET_CompareBaseAdrMask(bans[i].ip, from, bans[i].subnet)

\* SV_IsBanned: such an address is refused by SV_DirectConnect.
SV_IsBanned(bans, from) == ~Listed(bans, from, TRUE) /\ Listed(bans, from, FALSE)

\* SV_DelBanEntryFromList of each entry that is one of gone: the others move up.
Without(bans, gone) ==
    LET kept[i \in 0..Len(bans)] ==
            IF i = 0 THEN <<>>
            ELSE IF bans[i] \in gone THEN kept[i - 1]
                 ELSE Append(kept[i - 1], bans[i])
    IN  kept[Len(bans)]

\* SV_DelBanEntryFromList of the entry at i.
WithoutAt(bans, i) == SubSeq(bans, 1, i - 1) \o SubSeq(bans, i + 1, Len(bans))

-----------------------------------------------------------------------------
(* The file *)

Fault == faults < MaxFaults /\ faults' = faults + 1

\* SV_WriteBans.  The file stays as it is when it cannot be opened.
SV_WriteBans ==
    \/ file' = serverBans' /\ UNCHANGED faults
    \/ Fault /\ UNCHANGED file

\* A command changes the list and saves it; or the server dies before all of
\* the file is written.  A line that is cut off is not read.
Change(bans) ==
    /\ server = "running"
    /\ \/ /\ serverBans' = bans
          /\ SV_WriteBans
          /\ UNCHANGED server
       \/ /\ \E k \in 0..Len(bans) : file' = SubSeq(bans, 1, k)
          /\ server' = "down"
          /\ serverBans' = <<>>
          /\ Fault

\* SV_RehashBans_f.  Startup has put it first into the command buffer; then no
\* map is loaded, and nothing is done.  Later the list is emptied, and read from
\* the file if that can be opened.
SV_RehashBans_f ==
    \/ /\ server = "starting"
       /\ server' = "idle"
       /\ UNCHANGED <<serverBans, file, faults>>
    \/ /\ server = "running"
       /\ serverBans' \in {file, <<>>}
       /\ UNCHANGED <<server, file, faults>>

-----------------------------------------------------------------------------
(* Commands *)

\* Mutation: the entries of a kind are only compared with those of the kind.
ConflictsOfKind(e, new) ==
    /\ e.isexception = new.isexception
    /\ e.subnet <= new.subnet
    /\ NET_CompareBaseAdrMask(e.ip, new.ip, e.subnet)

\* An entry that keeps new from being added: it says the same or overrides it,
\* or it is a ban that new would override.
Conflicts(e, new) ==
    \/ /\ e.subnet <= new.subnet
       /\ e.isexception \/ ~new.isexception
       /\ NET_CompareBaseAdrMask(e.ip, new.ip, e.subnet)
    \/ /\ e.subnet >= new.subnet
       /\ ~e.isexception /\ new.isexception
       /\ NET_CompareBaseAdrMask(e.ip, new.ip, new.subnet)

\* Mutation: exceptions are replaced by a ban, too.
SupersededAny(e, new) ==
    /\ e.subnet > new.subnet
    /\ NET_CompareBaseAdrMask(e.ip, new.ip, new.subnet)

\* An entry that new takes the place of.
Superseded(e, new) ==
    /\ e.subnet > new.subnet
    /\ ~e.isexception \/ new.isexception
    /\ NET_CompareBaseAdrMask(e.ip, new.ip, new.subnet)

\* SV_AddBanToList: SV_BanAddr_f, SV_ExceptAddr_f.  Refused when the list is
\* full before anything is taken off it.
SV_AddBanToList(isexception, ip, mask) ==
    LET new == Entry(ip, mask, isexception)
    IN  /\ Len(serverBans) < SERVER_MAXBANS
        /\ \A i \in DOMAIN serverBans : ~Conflicts(serverBans[i], new)
        /\ Change(Append(Without(serverBans, {e \in Entries : Superseded(e, new)}), new))

\* SV_DelBanFromList of an address: all entries of the kind within it go.
DelWithin(isexception, ip, mask) ==
    LET m == Mask(ip, mask)
    IN  Change(Without(serverBans,
                  {e \in Entries : /\ e.isexception = isexception
                                   /\ e.subnet >= m
                                   /\ NET_CompareBaseAdrMask(e.ip, ip, m)}))

\* SV_DelBanFromList of a number: the one of that number among its kind.
DelNumber(isexception, todel) ==
    LET ofKind(i) == Cardinality({k \in 1..i : serverBans[k].isexception = isexception})
        chosen == {i \in DOMAIN serverBans :
                      serverBans[i].isexception = isexception /\ ofKind(i) = todel}
    IN  /\ todel \in 1..Len(serverBans)
        /\ Change(IF chosen = {} THEN serverBans
                  ELSE WithoutAt(serverBans, CHOOSE i \in chosen : TRUE))

\* SV_BanDel_f, SV_ExceptDel_f
SV_DelBanFromList(isexception) ==
    \/ \E ip \in Address : \E mask \in Masks(ip) : DelWithin(isexception, ip, mask)
    \/ \E todel \in 1..SERVER_MAXBANS : DelNumber(isexception, todel)

SV_FlushBans_f == Change(<<>>)

-----------------------------------------------------------------------------
(* The server *)

\* SV_Init: the file is to be loaded.
SV_Init ==
    /\ server = "down"
    /\ server' = "starting"
    /\ UNCHANGED <<serverBans, file, faults>>

\* A map is loaded.
SV_SpawnServer ==
    /\ server = "idle"
    /\ server' = "running"
    /\ UNCHANGED <<serverBans, file, faults>>

\* killserver: the list stays.
SV_Shutdown ==
    /\ server = "running"
    /\ server' = "idle"
    /\ UNCHANGED <<serverBans, file, faults>>

\* The process ends.
Quit ==
    /\ server # "down"
    /\ server' = "down"
    /\ serverBans' = <<>>
    /\ UNCHANGED <<file, faults>>

-----------------------------------------------------------------------------

Init ==
    /\ server = "down"
    /\ serverBans = <<>>
    /\ file = <<>>
    /\ faults = 0

Next ==
    \/ \E isexception \in BOOLEAN :
          \/ \E ip \in Address : \E mask \in Masks(ip) :
                SV_AddBanToList(isexception, ip, mask)
          \/ SV_DelBanFromList(isexception)
    \/ SV_FlushBans_f
    \/ SV_RehashBans_f
    \/ SV_Init \/ SV_SpawnServer \/ SV_Shutdown \/ Quit

Spec == Init /\ [][Next]_vars

-----------------------------------------------------------------------------
(* Properties *)

Within(e, f) == e.subnet >= f.subnet /\ NET_CompareBaseAdrMask(e.ip, f.ip, f.subnet)

\* Every variable has its type, in the list and in the file.
TypeOK ==
    /\ server \in {"down", "starting", "idle", "running"}
    /\ faults \in 0..MaxFaults
    /\ \A bans \in {serverBans, file} :
          bans \in Seq(Entries) /\ Len(bans) <= SERVER_MAXBANS

\* No entry makes another one idle, in the list and in the file, whatever was
\* added, deleted, cut off or loaded again: one lies within another only as an
\* exception from a ban (SV_AddBanToList).
NothingIdle ==
    \A bans \in {serverBans, file} : \A i, j \in DOMAIN bans :
        (i # j /\ Within(bans[i], bans[j])) =>
            bans[i].isexception /\ ~bans[j].isexception

\* A ban that is added refuses all its addresses but those excepted before, an
\* exception lets all of its in, and neither changes anything for another
\* address, though entries of the list were replaced; a deletion changes
\* nothing outside of what it names (SV_IsBanned, SV_AddBanToList,
\* SV_DelBanFromList).
CommandsDoWhatTheySay ==
    [][server' = "running" =>
        \A isexception \in BOOLEAN : \A ip \in Address : \A mask \in 1..Bits[ip.type] :
           LET inside(a) == NET_CompareBaseAdrMask(a, ip, mask)
           IN  /\ SV_AddBanToList(isexception, ip, mask) =>
                     \A a \in Address :
                        SV_IsBanned(serverBans', a) =
                           IF ~inside(a) THEN SV_IsBanned(serverBans, a)
                           ELSE ~isexception /\ ~Listed(serverBans, a, TRUE)
               /\ DelWithin(isexception, ip, mask) =>
                     \A a \in Address : ~inside(a) =>
                        SV_IsBanned(serverBans', a) = SV_IsBanned(serverBans, a)]_vars

\* "Load saved bans" (SV_Init): the server starts with the bans in the file.
SavedBansLoaded ==
    [][server = "starting" /\ server' = "idle" => serverBans' = file]_vars
=============================================================================
