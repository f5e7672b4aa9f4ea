------------------------------ MODULE FileSpec ------------------------------
(***************************************************************************)
(* File specifications (package filespec): how a directory specification   *)
(* is read against the default directory, how CREATE/DIRECTORY makes the   *)
(* levels of one, and how Glob finds the files of one in a tree of         *)
(* directories.                                                            *)
(*                                                                         *)
(* A specification is what its text says: how many levels up, the names    *)
(* that follow, and whether "..." ends it.  A wildcard is Star; a directory*)
(* has a file in some versions, and subdirectories by name.  Glob reads a  *)
(* directory in each of its steps; SET DEFAULT and CREATE are one step.    *)
(***************************************************************************)
EXTENDS Integers, Sequences, FiniteSets, SequencesExt

CONSTANTS
  Dirs,        \* directories a volume may come to have
  Mfd,         \* the master file directory
  NoDir,       \* no such subdirectory
  NameOrder,   \* the names of subdirectories, in directory order
  Zero,        \* 000000, the name of the master file directory in itself
  Star,        \* a wildcard
  Versions,    \* directory -> the versions of the file in it
  Texts,       \* directory specifications typed
  Selectors,   \* versions typed
  MaxLevels,   \* MaxDirectoryDepth
  MaxDefault,  \* bound: levels of the default directory
  MaxDepth,    \* bound: how deep a Glob is followed
  MaxLinks     \* bound: directories entered a second time

Names == Range(NameOrder)

ASSUME MfdAssumption == Mfd \in Dirs /\ NoDir \notin Dirs
ASSUME NamesAssumption == Zero \in Names /\ Star \notin Names
ASSUME TextsAssumption ==
  \A t \in Texts : t.comps \in Seq(Names \union {Star}) /\ t.ups \in Nat /\ (t.absolute => t.ups = 0)
ASSUME DepthAssumption == Cardinality(Dirs) <= MaxDepth

VARIABLES
  sub,       \* directory -> name -> subdirectory
  default,   \* the default directory, a path
  made,      \* the path the command made sure of, and its directory
  links,     \* how many directories were entered a second time
  glob       \* the Glob in progress or ended last

vars == <<sub, default, made, links, glob>>

(***************************************************************************)
(* Parse                                                                   *)
(***************************************************************************)

\* resolveDirectory: "[]" is the default directory (docs/COMMANDS.md:117 has it the
\* root), "[000000]" the root, a text without a leading "." or "-" is absolute.
IsAboveMfd(text) == text.ups > Len(default)
DirsOf(text) ==
  IF ~text.absolute THEN SubSeq(default, 1, Len(default) - text.ups) \o text.comps
  ELSE IF text.comps = <<>> THEN default
  ELSE IF text.comps = <<Zero>> THEN <<>>
  ELSE text.comps

(***************************************************************************)
(* CREATE/DIRECTORY                                                        *)
(***************************************************************************)

Reached == {Mfd} \union ({sub[d][n] : d \in Dirs, n \in Names} \ {NoDir})
Unused == Dirs \ Reached

\* Directories are taken in a fixed order; it does not matter which is next.
NextUnused(taken) == CHOOSE d \in Unused \ taken : TRUE

\* Mutant of Level: every level is made in the master file directory.
LevelAtTop(walk, name) ==
  IF walk.failed THEN walk
  ELSE IF walk.sub[Mfd][name] # NoDir THEN [walk EXCEPT !.dir = walk.sub[Mfd][name]]
  ELSE IF Unused \ walk.new = {} THEN [walk EXCEPT !.failed = TRUE]
  ELSE LET d == NextUnused(walk.new) IN
       [walk EXCEPT !.sub[Mfd][name] = d, !.dir = d, !.new = @ \union {d}]

\* One level of CreateDirectoryPath: Lookup, or CreateDirectory in the current
\* directory, which fails when there is nothing left.
Level(walk, name) ==
  LET there == walk.sub[walk.dir][name] IN
  IF walk.failed THEN walk
  ELSE IF there # NoDir THEN [walk EXCEPT !.dir = there]
  ELSE IF Unused \ walk.new = {} THEN [walk EXCEPT !.failed = TRUE]
  ELSE LET d == NextUnused(walk.new) IN
       [walk EXCEPT !.sub[walk.dir][name] = d, !.dir = d, !.new = @ \union {d}]

\* The walk down the path; a level that cannot be made ends it.
PathMade(dirs) ==
  LET walk[k \in 0 .. Len(dirs)] ==
        IF k = 0 THEN [sub |-> sub, dir |-> Mfd, new |-> {}, failed |-> FALSE]
        ELSE Level(walk[k - 1], dirs[k])
  IN walk[Len(dirs)]

(***************************************************************************)
(* Glob                                                                    *)
(***************************************************************************)

Matches(pattern, name) == pattern = Star \/ pattern = name

\* Mutant of IsOwnEntry: it is followed like any other.
NoEntryIsOwn(dir, name) == FALSE

IsOwnEntry(dir, name) == sub[dir][name] = dir

\* matchingSubdirectories, in directory order, but for the directory's own entry.
Subdirectories(node, pattern) ==
  LET fits == SelectSeq(NameOrder, LAMBDA n : /\ Matches(pattern, n)
                                              /\ sub[node.dir][n] # NoDir
                                              /\ ~IsOwnEntry(node.dir, n))
  IN [i \in DOMAIN fits |-> [path |-> Append(node.path, fits[i]), dir |-> sub[node.dir][fits[i]]]]

Root == [path |-> <<>>, dir |-> Mfd]

\* walkDirs, one component of the path.
Narrowed(nodes, pattern) == FlattenSeq([i \in DOMAIN nodes |-> Subdirectories(nodes[i], pattern)])

\* ResolveDirectory: all of walkDirs, which expands wildcards too; a destination
\* is what exactly one directory comes of.
Walked(dirs) ==
  LET walk[k \in 0 .. Len(dirs)] ==
        IF k = 0 THEN <<Root>> ELSE Narrowed(walk[k - 1], dirs[k])
  IN walk[Len(dirs)]

\* selectVersions for one name: its versions sorted from the highest, then picked.
SortedDown(versions) == SetToSortSeq(versions, >)
Picked(versions, sel) ==
  LET sorted == SortedDown(versions)
      At(k) == IF k \in DOMAIN sorted THEN <<sorted[k]>> ELSE <<>>
  IN CASE sel.kind = "all" -> sorted
       [] sel.kind = "exact" -> SelectSeq(sorted, LAMBDA v : v = sel.value)
       [] sel.kind = "relative" -> At(sel.value + 1)
       [] sel.kind = "lowest" -> At(Len(sorted))
       [] OTHER -> At(1)

\* globInDirectory
FilesIn(node, sel) ==
  LET picked == Picked(Versions[node.dir], sel) IN
  [i \in DOMAIN picked |-> [path |-> node.path, version |-> picked[i]]]

(***************************************************************************)
(* The commands                                                            *)
(***************************************************************************)

\* (A command takes the place of the one before it, and of what that found.)
NoText == [absolute |-> TRUE, ups |-> 0, comps |-> <<>>, recursive |-> FALSE]
NoRequest == [text |-> NoText, sel |-> [kind |-> "all"]]
NoPath == [dirs |-> <<>>, dir |-> Mfd]
NoGlob == [phase |-> "none", asked |-> NoRequest, dirs |-> <<>>,
           nodes |-> <<>>, rest |-> <<>>, found |-> <<>>]
IsRunning == glob.phase \in {"narrow", "expand", "collect"}

\* SET DEFAULT takes any directory, whether it exists or not.
SetDefault(text) ==
  /\ ~IsRunning /\ ~IsAboveMfd(text)
  /\ Len(DirsOf(text)) <= MaxDefault
  /\ default' = DirsOf(text)
  /\ made' = NoPath /\ glob' = NoGlob
  /\ UNCHANGED <<sub, links>>

\* CREATE/DIRECTORY: refused as a whole for a wildcard or too many levels;
\* levels made stay when a later one fails.
CreateDirectoryPath(text) ==
  /\ ~IsRunning /\ ~IsAboveMfd(text) /\ ~text.recursive
  /\ LET dirs == DirsOf(text) IN
     /\ Star \notin Range(dirs) /\ Len(dirs) <= MaxLevels
     /\ LET walk == PathMade(dirs) IN
        /\ sub' = walk.sub
        /\ made' = IF walk.failed THEN NoPath ELSE [dirs |-> dirs, dir |-> walk.dir]
  /\ glob' = NoGlob
  /\ UNCHANGED <<default, links>>

\* What a rename whose last write failed leaves (Directory): a directory with
\* a second entry, which may be below itself.
EnterAgain(dir, name, there) ==
  /\ ~IsRunning /\ links < MaxLinks
  /\ {dir, there} \subseteq Reached /\ there # Mfd /\ name # Zero
  /\ sub[dir][name] = NoDir
  /\ sub' = [sub EXCEPT ![dir][name] = there]
  /\ links' = links + 1
  /\ made' = NoPath /\ glob' = NoGlob
  /\ UNCHANGED default

StartGlob(text, sel) ==
  /\ ~IsRunning /\ ~IsAboveMfd(text)
  /\ glob' = [NoGlob EXCEPT !.phase = "narrow", !.dirs = DirsOf(text), !.nodes = <<Root>>,
                            !.asked = [text |-> text, sel |-> sel]]
  /\ made' = NoPath
  /\ UNCHANGED <<sub, default, links>>

Going(phase) == glob.phase = phase /\ UNCHANGED <<sub, default, made, links>>

\* walkDirs takes the next component of the path; after the last, what was
\* reached is expanded, or searched as it is.
Narrow ==
  /\ Going("narrow") /\ glob.dirs # <<>>
  /\ glob' = [glob EXCEPT !.nodes = Narrowed(@, Head(glob.dirs)), !.dirs = Tail(@)]

EndOfPath ==
  /\ Going("narrow") /\ glob.dirs = <<>>
  /\ glob' = IF glob.asked.text.recursive
             THEN [glob EXCEPT !.phase = "expand", !.rest = glob.nodes, !.nodes = <<>>]
             ELSE [glob EXCEPT !.phase = "collect", !.rest = glob.nodes, !.nodes = <<>>]

\* Mutant of Below: a directory's subtree comes after its siblings.
BelowLater(node, rest) == rest \o Subdirectories(node, Star)

\* expandRecursive: a directory, then all below its subdirectories, then the
\* directories that follow it.
Below(node, rest) == Subdirectories(node, Star) \o rest

Expand ==
  /\ Going("expand") /\ glob.rest # <<>>
  /\ LET node == Head(glob.rest) IN
     /\ Len(node.path) < MaxDepth
     /\ glob' = [glob EXCEPT !.nodes = Append(@, node), !.rest = Below(node, Tail(glob.rest))]

EndOfTree ==
  /\ Going("expand") /\ glob.rest = <<>>
  /\ glob' = [glob EXCEPT !.phase = "collect", !.rest = glob.nodes, !.nodes = <<>>]

Collect ==
  /\ Going("collect") /\ glob.rest # <<>>
  /\ glob' = [glob EXCEPT !.found = @ \o FilesIn(Head(glob.rest), glob.asked.sel), !.rest = Tail(@)]

EndGlob ==
  /\ Going("collect") /\ glob.rest = <<>>
  /\ glob' = [glob EXCEPT !.phase = "done"]

\* A directory that cannot be read or opened ends the Glob, without a match.
ReadFails ==
  /\ IsRunning
  /\ glob' = [NoGlob EXCEPT !.phase = "failed"]
  /\ UNCHANGED <<sub, default, made, links>>

(***************************************************************************)
(* The specification                                                       *)
(***************************************************************************)

\* An empty volume: the root directory, which has an entry of its own.
Init ==
  /\ sub = [d \in Dirs |-> [n \in Names |-> IF d = Mfd /\ n = Zero THEN Mfd ELSE NoDir]]
  /\ default = <<>>
  /\ made = NoPath
  /\ links = 0
  /\ glob = NoGlob

GlobStep == Narrow \/ EndOfPath \/ Expand \/ EndOfTree \/ Collect \/ EndGlob

Next ==
  \/ \E text \in Texts : SetDefault(text)
  \/ \E text \in Texts : CreateDirectoryPath(text)
  \/ \E dir, there \in Dirs, name \in Names : EnterAgain(dir, name, there)
  \/ \E text \in Texts, sel \in Selectors : StartGlob(text, sel)
  \/ Narrow
  \/ EndOfPath
  \/ Expand
  \/ EndOfTree
  \/ Collect
  \/ EndGlob
  \/ ReadFails

\* A command runs to its end in the program's one thread: a Glob that can go
\* on does.  Nobody is bound to give a command.
Spec == Init /\ [][Next]_vars /\ WF_vars(GlobStep)

(***************************************************************************)
(* What holds                                                              *)
(***************************************************************************)

\* The directory a path of names leads to, followed entry by entry.
DirAt(path) ==
  LET at[k \in 0 .. Len(path)] ==
        IF k = 0 THEN Mfd
        ELSE IF at[k - 1] = NoDir \/ sub[at[k - 1]][path[k]] = at[k - 1] THEN NoDir
        ELSE sub[at[k - 1]][path[k]]
  IN at[Len(path)]

Paths ==
  LET ofLength[k \in 0 .. MaxDepth] ==
        IF k = 0 THEN {<<>>}
        ELSE {path \in {Append(p, n) : p \in ofLength[k - 1], n \in Names} : DirAt(path) # NoDir}
  IN UNION Range(ofLength)

\* Some path comes twice through one directory.
HasLoop == \E path \in Paths : \E j \in 0 .. Len(path) - 1 : DirAt(SubSeq(path, 1, j)) = DirAt(path)

\* What a request means, with no walk: the paths its pattern fits, and the
\* versions that have as many above them as it says: ";-1" has one.
FitsDirs(path, dirs, recursive) ==
  /\ IF recursive THEN Len(path) >= Len(dirs) ELSE Len(path) = Len(dirs)
  /\ \A k \in DOMAIN dirs : Matches(dirs[k], path[k])
Fits(path, request) == FitsDirs(path, DirsOf(request.text), request.text.recursive)
IsOfDefault(text) == text.absolute /\ text.comps = <<>>

IsMeant(v, versions, sel) ==
  CASE sel.kind = "all" -> TRUE
    [] sel.kind = "exact" -> v = sel.value
    [] sel.kind = "relative" -> Cardinality({w \in versions : w > v}) = sel.value
    [] sel.kind = "lowest" -> \A w \in versions : v <= w
    [] OTHER -> \A w \in versions : w <= v

Meant(request) ==
  {[path |-> path, version |-> v] : path \in {p \in Paths : Fits(p, request)},
                                    v \in UNION {Versions[d] : d \in Dirs}}
IsThere(match, request) ==
  match.version \in Versions[DirAt(match.path)]
  /\ IsMeant(match.version, Versions[DirAt(match.path)], request.sel)

\* A directory before what is below it, names in directory order, and the
\* highest version first.
Position(name) == CHOOSE i \in DOMAIN NameOrder : NameOrder[i] = name
PathBefore(p, q) ==
  \/ Len(p) < Len(q) /\ SubSeq(q, 1, Len(p)) = p
  \/ \E k \in DOMAIN p \intersect DOMAIN q :
        SubSeq(p, 1, k - 1) = SubSeq(q, 1, k - 1) /\ Position(p[k]) < Position(q[k])
Before(a, b) == PathBefore(a.path, b.path) \/ (a.path = b.path /\ a.version > b.version)

\* Glob's state is of its shape.
TypeOK ==
  /\ sub \in [Dirs -> [Names -> Dirs \union {NoDir}]]
  /\ default \in Seq(Names \union {Star}) /\ Len(default) <= MaxDefault
  /\ made.dir \in Dirs /\ links \in 0 .. MaxLinks
  /\ glob.phase \in {"none", "narrow", "expand", "collect", "done", "failed"}

\* A Glob that ends has found every file its specification means and no other,
\* each once, in the order VMS lists "[dir...]": a directory, its subtree, and
\* the directories after it (expandRecursive, walkDirs, selectVersions).  Each
\* directory on the way is the one its path leads to (dirNode).  What is meant is
\* what the code's own comments say (version.go:30, parse.go:33) and docs/COMMANDS.md
\* does not: ";-1" is the second-highest version, not the highest (139-140), and
\* "[]" is the default directory, not the root (117).
FindsInOrder ==
  /\ \A node \in Range(glob.nodes) \union Range(glob.rest) : node.dir = DirAt(node.path)
  /\ glob.phase = "done" =>
    /\ Range(glob.found) = {m \in Meant(glob.asked) : IsThere(m, glob.asked)}
    /\ \A i, j \in DOMAIN glob.found : i < j => Before(glob.found[i], glob.found[j])
    /\ IsOfDefault(glob.asked.text) =>
         \A m \in Range(glob.found) : FitsDirs(m.path, default, glob.asked.text.recursive)

\* The directory CREATE/DIRECTORY answers with is the one its path resolves to
\* when a file is put there (ResolveDirectory), unless the path goes through a
\* directory's entry of itself, as [000000.A] does.
CreatedPathsResolve ==
  DirAt(made.dirs) # NoDir => Walked(made.dirs) = <<[path |-> made.dirs, dir |-> made.dir]>>

\* A Glob ends: the master file directory's own entry does not make it search
\* the volume for ever.  A loop that a half-done rename left does.
GlobEnds == (IsRunning /\ ~(glob.asked.text.recursive /\ HasLoop)) ~> ~IsRunning

=============================================================================
