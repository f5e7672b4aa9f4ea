---------------------------- MODULE MCFileAccess ----------------------------
(* Three accessors of one slot: enough for a file to be deleted under two   *)
(* accessors, and the slot to be taken again by the next file.              *)
EXTENDS FileAccess, TLC

CONSTANTS a1, a2, a3

MCAccessors == {a1, a2, a3}

\* Plain readers and writers, an exclusive writer, a reader denying writers.
MCModes == {{}, {"Write"}, {"Write", "NoRead"}, {"NoWrite"}}

Symmetry == Permutations(MCAccessors)
=============================================================================
