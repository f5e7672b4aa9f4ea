---------------------------- MODULE MCDirectory ----------------------------
(***************************************************************************)
(* Small volumes for TLC.  Subdirectories are alike.                       *)
(***************************************************************************)
EXTENDS Directory

CONSTANTS root, s1, s2, f1

Symmetry == Permutations({s1, s2})

MCSubdirectories == {s1, s2}

MCFiles == {f1}

\* Blocks that no directory uses are written before they are read.
InUse(d) == {header[d].extent.start + v - 1 : v \in DOMAIN Blocks(d)}

View ==
    LET used == UNION {InUse(d) : d \in Directories}
    IN  <<header, [c \in used |-> block[c]], free, call, failed, calls>>

=============================================================================
