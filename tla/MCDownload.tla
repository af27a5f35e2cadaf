--------------------------- MODULE MCDownload ---------------------------
(* Instances of Download for TLC. *)
EXTENDS Download

CONSTANTS f0, f2, f3, fr

\* An empty file, one that fits the window and one that wraps around it.
MCBlocks == [f \in {f0, f2, f3, fr} |->
                IF f = f0 THEN 0 ELSE IF f = f2 THEN 1 ELSE 3]
=============================================================================
