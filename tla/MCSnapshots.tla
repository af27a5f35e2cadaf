--------------------------- MODULE MCSnapshots ---------------------------
(***************************************************************************)
(* The constants of Snapshots that a .cfg cannot write, and the delta      *)
(* encoding on longer lists than the runs reach.                           *)
(***************************************************************************)
EXTENDS Snapshots

\* The client's own entity is 1.
MCChanges == {{}, {1, 2}}

\* Sorted lists of entities 1..3 in one of two versions.
Lists ==
    {list \in UNION {[1..k -> [number : 1..3, version : 1..2]] : k \in 0..3} :
        \A i, j \in DOMAIN list : i < j => list[i].number < list[j].number}

\* The merge, read back by a client that has its base, gives the entities it
\* was encoded from.
ASSUME MergeReadsBack ==
    \A from, to \in Lists : \A base \in 1..2 :
        CL_ParsePacketEntities(SV_EmitPacketEntities(from, to, base),
                               {from[i] : i \in DOMAIN from}, base)
            = {to[i] : i \in DOMAIN to}
=============================================================================
