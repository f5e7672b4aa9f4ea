----------------------------- MODULE SharedFile -----------------------------
(***************************************************************************)
(* What accessing a file promises, without the counters, the table of      *)
(* accessed files or the header copies in memory and on disk that          *)
(* volume/access.go keeps to promise it:                                   *)
(*                                                                         *)
(*   - two accessors hold a file at once only if neither shuts the other   *)
(*     out;                                                                *)
(*   - a file has ONE set of attributes, which only its accessors change,  *)
(*     and which survive the last of them;                                 *)
(*   - a file deleted while held is gone for newcomers at once and freed   *)
(*     exactly when the last holder lets it go.                            *)
(***************************************************************************)
EXTENDS Naturals

CONSTANTS
    Accessors,   \* identities of accesses: each holds at most one file
    Numbers,     \* file numbers
    Attributes,  \* the values a file's attributes can have
    NewFile,     \* the attributes of a file just created
    Flags        \* what an access mode is a subset of

VARIABLES
    status,  \* per file number: is there a file, and is it marked for delete
    seq,     \* per file number: the sequence number of its current or last file
    attr,    \* per file number: the attributes everyone sees
    held     \* the accesses in progress: [who, number, mode]

vars == <<status, seq, attr, held>>

Statuses == {"free", "kept", "doomed"}

Holders(n) == {h \in held : h.number = n}

Idle(a) == \A h \in held : h.who # a

\* May an access in mode m and one in mode k hold the same file?
Compatible(m, k) ==
    /\ "NoRead" \notin m \cup k
    /\ ~("NoWrite" \in m /\ "Write" \in k)
    /\ ~("NoWrite" \in k /\ "Write" \in m)

Init ==
    /\ status = [n \in Numbers |-> "free"]
    /\ seq = [n \in Numbers |-> 0]
    /\ attr = [n \in Numbers |-> NewFile]
    /\ held = {}

-----------------------------------------------------------------------------

\* A new file, held from its creation by each access in `by` (none or one).
Create(n, by) ==
    /\ status[n] = "free"
    /\ \A h \in by : Idle(h.who) /\ h.number = n
    /\ \A g, h \in by : g = h
    /\ status' = [status EXCEPT ![n] = "kept"]
    /\ seq' = [seq EXCEPT ![n] = @ + 1]
    /\ attr' = [attr EXCEPT ![n] = NewFile]
    /\ held' = held \cup by

Join(a, n, m) ==
    /\ Idle(a)
    /\ status[n] = "kept"
    /\ \A h \in Holders(n) : Compatible(m, h.mode)
    /\ held' = held \cup {[who |-> a, number |-> n, mode |-> m]}
    /\ UNCHANGED <<status, seq, attr>>

Free(n) ==
    /\ status' = [status EXCEPT ![n] = "free"]
    /\ attr' = [attr EXCEPT ![n] = NewFile]

\* The last to leave a doomed file frees it; otherwise leaving changes nothing.
Leave(h) ==
    /\ h \in held
    /\ held' = held \ {h}
    /\ IF status[h.number] = "doomed" /\ Holders(h.number) = {h}
       THEN Free(h.number) ELSE UNCHANGED <<status, attr>>
    /\ UNCHANGED seq

Delete(n) ==
    /\ status[n] # "free"
    /\ IF Holders(n) = {} THEN Free(n)
       ELSE status' = [status EXCEPT ![n] = "doomed"] /\ UNCHANGED attr
    /\ UNCHANGED <<seq, held>>

\* An accessor changes the attributes all of them see.
Change(n) ==
    /\ Holders(n) # {}
    /\ \E v \in Attributes : attr' = [attr EXCEPT ![n] = v]
    /\ UNCHANGED <<status, seq, held>>

\* Everyone is cut off.  Nobody is left to free a doomed file: it stays.
Dismount ==
    /\ held' = {}
    /\ status' = [n \in Numbers |-> IF status[n] = "doomed" THEN "kept" ELSE status[n]]
    /\ UNCHANGED <<seq, attr>>

Next ==
    \/ \E n \in Numbers : Create(n, {}) \/ Delete(n) \/ Change(n)
    \/ \E a \in Accessors, n \in Numbers, m \in SUBSET Flags :
          Create(n, {[who |-> a, number |-> n, mode |-> m]}) \/ Join(a, n, m)
    \/ \E h \in held : Leave(h)
    \/ Dismount

Spec == Init /\ [][Next]_vars
=============================================================================
