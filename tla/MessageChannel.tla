------------------------- MODULE MessageChannel -------------------------
(***************************************************************************)
(* What the network channel promises the code above it: messages accepted  *)
(* for one client are numbered in the order they were accepted, and the    *)
(* other end receives some of them, each at most once, in that order and   *)
(* whole.  Messages may be lost.  When the client is dropped, messages     *)
(* that were accepted but not yet received may be discarded, and their     *)
(* numbers are used again.                                                 *)
(*                                                                         *)
(* Netchan.tla is shown to implement this module.                          *)
(***************************************************************************)
EXTENDS Integers, Sequences

CONSTANT Message

VARIABLES
    accepted,  \* every message accepted and not discarded, by number
    received,  \* what the other end received: [sequence, message] records
    last       \* number of the last message received, 0 before the first

vars == <<accepted, received, last>>

Init ==
    /\ accepted = <<>>
    /\ received = <<>>
    /\ last = 0

Accept(m) ==
    /\ accepted' = Append(accepted, m)
    /\ UNCHANGED <<received, last>>

Deliver(n) ==
    /\ last < n
    /\ received' = Append(received, [sequence |-> n, message |-> accepted[n]])
    /\ last' = n
    /\ UNCHANGED accepted

Discard(n) ==
    /\ last <= n
    /\ accepted' = SubSeq(accepted, 1, n)
    /\ UNCHANGED <<received, last>>

Next ==
    \/ \E m \in Message : Accept(m)
    \/ \E n \in 1..Len(accepted) : Deliver(n)
    \/ \E n \in 0..Len(accepted) : Discard(n)

Spec == Init /\ [][Next]_vars
=============================================================================
