------------------------------- MODULE Naming -------------------------------
(***************************************************************************)
(* What the directories of a volume promise: a set of names for file IDs,  *)
(* which each call changes at once or not at all.  A file is entered,      *)
(* removed or renamed, and the lowest versions of a name go when there are *)
(* more than its limit allows.                                             *)
(*                                                                         *)
(* The promise is kept until a disk write fails: a directory is rewritten  *)
(* block by block, and its header after its blocks.                        *)
(***************************************************************************)
EXTENDS Integers, FiniteSets, FiniteSetsExt

CONSTANTS
    Root,            \* file ID of the master file directory
    Subdirectories,  \* file IDs of the other directories
    Files,           \* file IDs of the other files
    Names,           \* file names
    MaxVersion,      \* highest version number
    VersionLimit     \* versions of a name to keep; 0: all of them

Directories == {Root} \cup Subdirectories

Fids == Directories \cup Files

Versions == 1 .. MaxVersion

Entries == [dir: Directories, name: Names, version: Versions, fid: Fids]

VARIABLES
    named,  \* the entries of all directories
    kept    \* has every disk write succeeded so far?

VersionsOf(S, d, n) == {e \in S : e.dir = d /\ e.name = n}

Next(S, d, n) == Max({0} \cup {e.version : e \in VersionsOf(S, d, n)}) + 1

\* Directory d and those above it.
Above(S, d) ==
    LET up[k \in 0 .. Cardinality(Directories)] ==
            IF k = 0 THEN {d}
            ELSE LET below == up[k - 1]
                 IN  below \cup {e.dir : e \in {x \in S : x.fid \in below}}
    IN  up[Cardinality(Directories)]

\* Only an empty directory can be deleted, and the root never.
Deletable(S, e) == e.fid # Root /\ ~\E x \in S : x.dir = e.fid

\* The lowest of these versions, for keep of them to remain.
Lowest(S, keep) ==
    {e \in S : Cardinality({x \in S : x.version > e.version}) >= keep}

\* Delete these versions, the lowest first, up to one that cannot be deleted.
Purged(S, excess) ==
    S \ {e \in excess : \A x \in excess : x.version <= e.version => Deletable(S, x)}

Limited(S, excess) == IF VersionLimit = 0 THEN S ELSE Purged(S, excess)

Taken(S, d, n, v) == \E e \in VersionsOf(S, d, n) : e.version = v

\* The version asked for, 0 being the next one.
Resolved(S, d, n, v) == IF v = 0 THEN Next(S, d, n) ELSE v

\* A new file is entered under a version that is not taken; it counts for the
\* limit as any other version.
Create(d, n, v, f) ==
    LET e == [dir |-> d, name |-> n, version |-> Resolved(named, d, n, v), fid |-> f]
        S == named \cup {e}
    IN  /\ kept
        /\ ~\E x \in named : x.fid = f
        /\ ~Taken(named, d, n, e.version)
        /\ named' = Limited(S, Lowest(VersionsOf(S, d, n), VersionLimit))
        /\ UNCHANGED kept

\* A directory has one version.
CreateDirectory(d, n, f) ==
    /\ kept
    /\ ~\E x \in named : x.fid = f
    /\ VersionsOf(named, d, n) = {}
    /\ named' = named \cup {[dir |-> d, name |-> n, version |-> 1, fid |-> f]}
    /\ UNCHANGED kept

Delete(e) ==
    /\ kept
    /\ e \in named /\ Deletable(named, e)
    /\ named' = named \ {e}
    /\ UNCHANGED kept

\* Entry e gets another name, of a version that is free once e is gone; it is
\* never itself deleted for the limit.  A directory does not go below itself.
Rename(e, d, n, v) ==
    LET rest == named \ {e}
        r == [dir |-> d, name |-> n, version |-> Resolved(rest, d, n, v), fid |-> e.fid]
    IN  /\ kept
        /\ e \in named
        /\ e.fid \notin Above(named, d)
        /\ ~Taken(rest, d, n, r.version)
        /\ named' = Limited(rest \cup {r}, Lowest(VersionsOf(rest, d, n), VersionLimit - 1))
        /\ UNCHANGED kept

\* A disk write fails, or has failed.
Unkept == kept' = FALSE /\ named' \in SUBSET Entries

Init == named = {} /\ kept = TRUE

Step ==
    \/ \E d \in Directories, n \in Names :
          \/ \E v \in Versions \cup {0} :
                \/ \E f \in Files : Create(d, n, v, f)
                \/ \E e \in named : Rename(e, d, n, v)
          \/ \E f \in Subdirectories : CreateDirectory(d, n, f)
    \/ \E e \in named : Delete(e)
    \/ Unkept

Spec == Init /\ [][Step]_<<named, kept>>

=============================================================================
